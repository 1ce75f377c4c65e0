------------------------------ MODULE Replica ------------------------------
(***************************************************************************)
(* What the synchronisation of one resource promises, without messages or  *)
(* handlers: copies that only grow, and clocks that only claim what the    *)
(* copy next to them holds.  ResourceSync implements it as long as saving  *)
(* and merging do not overlap.                                             *)
(***************************************************************************)
EXTENDS VectorClock

VARIABLES
    doc,     \* device -> the edits in its copy
    clk,     \* device -> its table of clock rows
    issued   \* device -> how many saves it has made

\* A row n for e claims the content of e's first n saves.
Covered(table, copy) == \A e \in Device : \A n \in 1 .. table[e] : <<e, n>> \in copy

Init ==
    /\ clk \in [Device -> Table]
    /\ \A d \in Device : issued[d] \in Nat
    /\ \A d \in Device : \A edit \in doc[d] : edit[2] \in 1 .. issued[edit[1]]
    /\ \A d \in Device : Covered(clk[d], doc[d])

\* A device saves: its copy gains exactly the new edit.
Save(d) ==
    /\ issued' = [issued EXCEPT ![d] = @ + 1]
    /\ doc' = [doc EXCEPT ![d] = @ \cup {<<d, issued[d] + 1>>}]
    /\ UNCHANGED clk

\* A copy gains edits that some copy has.
Learn(d) ==
    /\ doc[d] \subseteq doc'[d]
    /\ \A edit \in doc'[d] : \E e \in Device : edit \in doc[e]
    /\ doc' = [doc EXCEPT ![d] = doc'[d]]
    /\ UNCHANGED <<clk, issued>>

\* A clock rises to what the copy covers.
Know(d) ==
    /\ \A e \in Device : clk[d][e] <= clk'[d][e]
    /\ Covered(clk'[d], doc[d])
    /\ clk' = [clk EXCEPT ![d] = clk'[d]]
    /\ UNCHANGED <<doc, issued>>

\* A device that has no copy gets one together with its clock.
Receive(d) ==
    /\ doc[d] = {}
    /\ \A edit \in doc'[d] : \E e \in Device : edit \in doc[e]
    /\ doc' = [doc EXCEPT ![d] = doc'[d]]
    /\ \A e \in Device : clk[d][e] <= clk'[d][e]
    /\ Covered(clk'[d], doc'[d])
    /\ clk' = [clk EXCEPT ![d] = clk'[d]]
    /\ UNCHANGED issued

Next == \E d \in Device : Save(d) \/ Learn(d) \/ Know(d) \/ Receive(d)

Spec == Init /\ [][Next]_<<doc, clk, issued>>

\* The guarantee of the abstract system: no clock claims what its copy lacks.
Sound == \A d \in Device : Covered(clk[d], doc[d])
=============================================================================
