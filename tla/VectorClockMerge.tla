-------------------------- MODULE VectorClockMerge --------------------------
(***************************************************************************)
(* Two tables of one resource that meet once, the way the merge of         *)
(* resource_sync.rs writes them: merge_vector_clocks at the responder, the *)
(* answer's update_clock and add_clock at the initiator, nothing between.  *)
(***************************************************************************)
EXTENDS VectorClock

CONSTANT MaxClock   \* bound: the largest clock value that is tried

ASSUME MaxClockAssumption == MaxClock \in Nat

VARIABLES before, after    \* the tables of i and r: before and after the merge

SmallTable == [Device -> Absent .. MaxClock]

Unmerged == [i |-> NoRows, r |-> NoRows]

\* What merge_vector_clocks leaves at the responder.
ResponderTable(local, remote) ==
    WriteRows(local, UpdateLocal(local, remote), AddLocal(local, remote))

\* What VectorClockResponse leaves at the initiator.
InitiatorTable(local, remote) ==
    WriteRows(remote, UpdateRemote(local, remote), AddRemote(local, remote))

Init ==
    /\ before \in [i : SmallTable, r : SmallTable]
    /\ after = Unmerged

MergeTables ==
    /\ after = Unmerged
    /\ after' = [i |-> InitiatorTable(before.r, before.i),
                 r |-> ResponderTable(before.r, before.i)]
    /\ UNCHANGED before

Next == MergeTables

Spec == Init /\ [][Next]_<<before, after>>

\* Row by row the higher value, a present row over an absent one.
Higher(s, t) == [d \in Device |-> IF s[d] < t[d] THEN t[d] ELSE s[d]]

\* The merge leaves the same table on both sides: of each row the higher one.
MergeIsHigher ==
    after # Unmerged => after = [i |-> Higher(before.i, before.r),
                                 r |-> Higher(before.i, before.r)]

\* Neither write inserts a row that is there: the UNIQUE key never aborts a
\* merge that nothing else interrupts.
MergeNeverAborts ==
    /\ CanAdd(before.r, AddLocal(before.r, before.i))
    /\ CanAdd(before.i, AddRemote(before.r, before.i))

\* The manifest comparison asks for a merge exactly when it would change a
\* table, and the responder's local_needs_update says so for its own.
CompareIsExact ==
    LET high == Higher(before.i, before.r) IN
    /\ NeedsUpdate(before.r, before.i) <=> before.i # high \/ before.r # high
    /\ LocalNeedsUpdate(before.r, before.i) <=> before.r # high
=============================================================================
