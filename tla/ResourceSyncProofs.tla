------------------------- MODULE ResourceSyncProofs -------------------------
(***************************************************************************)
(* What holds of ResourceSync for every set of devices and sessions and    *)
(* with every fault allowed.                                               *)
(***************************************************************************)
EXTENDS ResourceSync, TLAPS

----------------------------------------------------------------------------
(* Tables.                                                                 *)

\* An absent row is below every clock value.
LEMMA ClockIsInt == Clock \subseteq Int /\ Absent \in Clock /\ \A n \in Clock : Absent <= n
BY DEF Clock, Absent

\* The four lists that the merge returns are tables.
LEMMA MergeLists ==
    ASSUME NEW l \in Table, NEW r \in Table
    PROVE  /\ UpdateLocal(l, r) \in Table /\ AddLocal(l, r) \in Table
           /\ UpdateRemote(l, r) \in Table /\ AddRemote(l, r) \in Table
BY ClockIsInt DEF Table, UpdateLocal, AddLocal, UpdateRemote, AddRemote

\* So is what the table writes leave.
LEMMA TableWrites ==
    ASSUME NEW t \in Table
    PROVE  /\ NoRows \in Table
           /\ \A d \in Device : Increment(t, d) \in Table /\ ZeroRow(t, d) \in Table
           /\ \A u, v \in Table : WriteRows(t, u, v) \in Table
<1>1. NoRows \in Table
  BY ClockIsInt DEF NoRows, Table
<1>2. ASSUME NEW d \in Device
      PROVE  Increment(t, d) \in Table /\ ZeroRow(t, d) \in Table
  BY DEF Increment, ZeroRow, Table, Clock, HasRow, Absent
<1>3. ASSUME NEW u \in Table, NEW v \in Table
      PROVE  WriteRows(t, u, v) \in Table
  BY DEF WriteRows, Table
<1> QED BY <1>1, <1>2, <1>3

----------------------------------------------------------------------------
(* Types.                                                                  *)

\* A save is taken only below the bound, and one that is written is issued.
SaveOrdered ==
    \A d \in Device : /\ save[d].step = "taken" => issued[d] < MaxSaves
                      /\ save[d].step = "written" => issued[d] > 0

Typed == TypeOK /\ SaveOrdered

LEMMA IdleState == Idle \in SessionState
BY TableWrites, ClockIsInt DEF Idle, SessionState, Phase, NoRows, Table

\* The initial state is typed.
LEMMA InitTyped == Init => Typed
<1> SUFFICES ASSUME Init PROVE Typed
  OBVIOUS
<1>1. 1 \in 1 .. MaxSaves /\ Creator \in Device
  BY BoundAssumption, HolderAssumption
<1>2. <<Creator, 1>> \in Edit
  BY <1>1 DEF Edit
<1>3. clk \in [Device -> Table]
  BY DEF Init, Table, Clock, NoRows, Absent
<1>4. issued \in [Device -> 0 .. MaxSaves]
  BY BoundAssumption DEF Init
<1>5. save \in [Device -> SaveState] /\ \A d \in Device : save[d].step = "none"
  BY DEF Init, SaveState, NoSave
<1>6. session \in [Session -> SessionState]
  BY IdleState DEF Init
<1>7. doc \in [Device -> SUBSET Edit]
  <2>1. \A d \in Device : (IF d \in Holder THEN {<<Creator, 1>>} ELSE {}) \in SUBSET Edit
    BY <1>2
  <2> QED BY <2>1 DEF Init
<1>8. /\ has \in [Device -> BOOLEAN]
      /\ view \in [Device -> {"closed", "loading", "shown"}]
      /\ editor \in [Device -> SUBSET Edit]
      /\ inbox \in [Device -> SUBSET SUBSET Edit]
      /\ faults \in 0 .. MaxFaults
  BY BoundAssumption DEF Init
<1> QED BY <1>3, <1>4, <1>5, <1>6, <1>7, <1>8 DEF Typed, TypeOK, SaveOrdered

\* The two ends of a session are different devices.
LEMMA SessionEnds ==
    ASSUME NEW s \in Session
    PROVE  s[1] \in Device /\ s[2] \in Device /\ s[1] # s[2]
BY SessionAssumption

\* A session that becomes a session state leaves the sessions typed.
LEMMA BecomesTyped ==
    ASSUME Typed, NEW s \in Session, NEW state \in SessionState, Becomes(s, state)
    PROVE  session' \in [Session -> SessionState]
BY DEF Typed, TypeOK, Becomes

\* The fields of a session are typed.
LEMMA SessionFields ==
    ASSUME Typed, NEW s \in Session
    PROVE  /\ session[s] \in SessionState
           /\ session[s].vec \in SUBSET Edit /\ session[s].upd \in SUBSET Edit
           /\ session[s].base \in SUBSET Edit
           /\ session[s].rows \in Table /\ session[s].add \in Table
           /\ session[s].local \in Table
BY DEF Typed, TypeOK, SessionState

\* Every step of the editor and of the save keeps the types.
LEMMA EditingTyped ==
    ASSUME Typed, NEW d \in Device, Editing(d)
    PROVE  Typed'
<1> USE DEF Typed, TypeOK, SaveOrdered
<1>1. CASE Load(d)
  BY <1>1 DEF Load
<1>2. CASE Show(d)
  BY <1>2 DEF Show
<1>3. CASE Close(d)
  BY <1>3 DEF Close
<1>4. CASE TakeUpdates(d)
  <2>1. PICK u \in inbox[d] :
           /\ editor' = [editor EXCEPT ![d] = IF view[d] = "shown" THEN @ \cup u ELSE @]
           /\ inbox' = [inbox EXCEPT ![d] = @ \ {u}]
    BY <1>4 DEF TakeUpdates
  <2>2. u \in SUBSET Edit
    OBVIOUS
  <2>3. editor' \in [Device -> SUBSET Edit]
    BY <2>1, <2>2
  <2>4. inbox' \in [Device -> SUBSET SUBSET Edit]
    BY <2>1
  <2> QED BY <1>4, <2>3, <2>4 DEF TakeUpdates
<1>5. CASE SaveTake(d)
  <2> DEFINE data == editor[d] \cup {<<d, issued[d] + 1>>}
  <2>1. issued[d] + 1 \in 1 .. MaxSaves
    BY <1>5, BoundAssumption DEF SaveTake
  <2>2. data \in SUBSET Edit
    BY <2>1 DEF Edit
  <2>3. [step |-> "taken", data |-> data] \in SaveState
    BY <2>2 DEF SaveState
  <2>4. /\ editor' = [editor EXCEPT ![d] = data]
        /\ save' = [save EXCEPT ![d] = [step |-> "taken", data |-> data]]
    BY <1>5 DEF SaveTake
  <2> HIDE DEF data
  <2>5. editor' \in [Device -> SUBSET Edit] /\ save' \in [Device -> SaveState]
    BY <2>2, <2>3, <2>4
  <2>6. SaveOrdered'
    BY <1>5, <2>4 DEF SaveTake
  <2> QED BY <1>5, <2>5, <2>6 DEF SaveTake
<1>6. CASE SaveWrite(d)
  <2>1. save[d] \in SaveState /\ save[d].step = "taken"
    BY <1>6 DEF SaveWrite
  <2>2. doc' \in [Device -> SUBSET Edit]
    BY <1>6, <2>1 DEF SaveWrite, SaveState
  <2>3. issued' \in [Device -> 0 .. MaxSaves]
    BY <1>6, <2>1, BoundAssumption DEF SaveWrite
  <2>4. [save[d] EXCEPT !.step = "written"] \in SaveState
    BY <2>1 DEF SaveState
  <2>5. save' = [save EXCEPT ![d] = [save[d] EXCEPT !.step = "written"]]
    BY <1>6 DEF SaveWrite
  <2>6. save' \in [Device -> SaveState]
    BY <2>4, <2>5
  <2>7. SaveOrdered'
    <3> SUFFICES ASSUME NEW x \in Device
                 PROVE  /\ save[x].step' = "taken" => issued'[x] < MaxSaves
                        /\ save[x].step' = "written" => issued'[x] > 0
      OBVIOUS
    <3>1. CASE x = d
      BY <1>6, <2>1, <2>5, <3>1 DEF SaveWrite, SaveState
    <3>2. CASE x # d
      BY <1>6, <2>5, <3>2 DEF SaveWrite
    <3> QED BY <3>1, <3>2
  <2> QED BY <1>6, <2>2, <2>3, <2>6, <2>7 DEF SaveWrite
<1>7. CASE SaveIncrement(d)
  <2>1. clk' \in [Device -> Table]
    BY <1>7, TableWrites DEF SaveIncrement
  <2>2. NoSave \in SaveState /\ NoSave.step = "none"
    BY DEF SaveState, NoSave
  <2>3. save' \in [Device -> SaveState] /\ SaveOrdered'
    BY <1>7, <2>2 DEF SaveIncrement
  <2> QED BY <1>7, <2>1, <2>3 DEF SaveIncrement
<1>8. ASSUME NEW e \in Device, Share(d, e)
      PROVE  Typed'
  <2>1. clk' \in [Device -> Table]
    BY <1>8, TableWrites DEF Share
  <2> QED BY <1>8, <2>1 DEF Share
<1> QED BY <1>1, <1>2, <1>3, <1>4, <1>5, <1>6, <1>7, <1>8 DEF Editing

\* Every step of a manifest exchange, a hand-over or a merge keeps the types.
LEMMA ProtocolTyped ==
    ASSUME Typed, NEW s \in Session, StartSync(s) \/ Protocol(s)
    PROVE  Typed'
<1> DEFINE i == s[1]
           r == s[2]
<1> USE SessionEnds, SessionFields, IdleState
<1>a. /\ i \in Device /\ r \in Device
      /\ clk \in [Device -> Table]
      /\ doc \in [Device -> SUBSET Edit]
      /\ has \in [Device -> BOOLEAN]
      /\ inbox \in [Device -> SUBSET SUBSET Edit]
  BY DEF Typed, TypeOK
<1>b. Sender(s) \in Device /\ Receiver(s) \in Device
  BY <1>a DEF Sender, Receiver
<1>c. /\ doc[i] \in SUBSET Edit /\ doc[r] \in SUBSET Edit
      /\ doc[r] \ session[s].vec \in SUBSET Edit
      /\ doc[i] \cup session[s].upd \in SUBSET Edit
      /\ doc[r] \cup session[s].upd \in SUBSET Edit
  BY <1>a
<1>1. CASE StartSync(s)
  <2>1. [Idle EXCEPT !.phase = "manifest", !.rows = clk[i]] \in SessionState
    BY <1>a, <1>b DEF SessionState, Phase, InFlight
  <2>2. session' \in [Session -> SessionState]
    BY <1>1, <2>1, BecomesTyped DEF StartSync
  <2> QED BY <1>1, <2>2 DEF StartSync, device, Typed, TypeOK, SaveOrdered
<1>2. CASE CompareManifests(s)
  <2>1. \A p \in {"agreed", "idle", "toI", "toR"} : [Idle EXCEPT !.phase = p] \in SessionState
    BY DEF SessionState, Phase, InFlight
  <2>2. PICK p \in {"agreed", "idle", "toI", "toR"} : Becomes(s, [Idle EXCEPT !.phase = p])
    BY <1>2 DEF CompareManifests
  <2>3. session' \in [Session -> SessionState]
    BY <2>1, <2>2, BecomesTyped
  <2> QED BY <1>2, <2>3 DEF CompareManifests, device, Typed, TypeOK, SaveOrdered
<1>3. CASE ReadCopy(s)
  <2>1. [Idle EXCEPT !.phase = IF Sender(s) = s[1] THEN "readI" ELSE "readR",
                    !.base = doc[Sender(s)]] \in SessionState
    BY <1>a, <1>b DEF SessionState, Phase, AtInitiator, AtResponder
  <2>2. session' \in [Session -> SessionState]
    BY <1>3, <2>1, BecomesTyped DEF ReadCopy
  <2>3. clk' \in [Device -> Table]
    BY <1>3, <1>a, <1>b, TableWrites DEF ReadCopy
  <2> QED BY <1>3, <2>2, <2>3 DEF ReadCopy, device, Typed, TypeOK, SaveOrdered
<1>4. CASE SendCopy(s)
  <2>1. [Idle EXCEPT !.phase = IF Sender(s) = s[1] THEN "copyToR" ELSE "copyToI",
                    !.upd = session[s].base,
                    !.rows = clk[Sender(s)]] \in SessionState
    BY <1>a, <1>b DEF SessionState, Phase, InFlight
  <2>2. session' \in [Session -> SessionState]
    BY <1>4, <2>1, BecomesTyped DEF SendCopy
  <2> QED BY <1>4, <2>2 DEF SendCopy, device, Typed, TypeOK, SaveOrdered
<1>5. CASE ReceiveCopy(s)
  <2>1. session' \in [Session -> SessionState]
    BY <1>5, BecomesTyped DEF ReceiveCopy
  <2>2. has' \in [Device -> BOOLEAN] /\ doc' \in [Device -> SUBSET Edit]
    BY <1>5, <1>a, <1>b DEF ReceiveCopy
  <2>3. [e \in Device |-> IF HasRow(clk[Receiver(s)], e) THEN clk[Receiver(s)][e]
                         ELSE session[s].rows[e]] \in Table
    BY <1>a, <1>b DEF Table
  <2>4. clk' \in [Device -> Table]
    BY <1>5, <1>a, <1>b, <2>3 DEF ReceiveCopy
  <2> QED BY <1>5, <2>1, <2>2, <2>4 DEF ReceiveCopy, Typed, TypeOK, SaveOrdered
<1>6. CASE RequestUpdates(s)
  <2>1. [Idle EXCEPT !.phase = "svRequest", !.vec = doc[i]] \in SessionState
    BY <1>c DEF SessionState, Phase, InFlight
  <2>2. session' \in [Session -> SessionState]
    BY <1>6, <2>1, BecomesTyped DEF RequestUpdates
  <2> QED BY <1>6, <2>2 DEF RequestUpdates, device, Typed, TypeOK, SaveOrdered
<1>7. CASE GenerateUpdates(s)
  <2>1. [Idle EXCEPT !.phase = "updResponse",
                    !.upd = doc[r] \ session[s].vec,
                    !.vec = doc[r]] \in SessionState
    BY <1>c DEF SessionState, Phase, InFlight
  <2>2. session' \in [Session -> SessionState]
    BY <1>7, <2>1, BecomesTyped DEF GenerateUpdates
  <2> QED BY <1>7, <2>2 DEF GenerateUpdates, device, Typed, TypeOK, SaveOrdered
<1>8. CASE ReadForMerge(s)
  <2>1. [session[s] EXCEPT !.phase = "applyI",
                          !.base = doc[i] \cup session[s].upd] \in SessionState
    BY <1>c DEF SessionState, Phase, AtInitiator
  <2>2. session' \in [Session -> SessionState]
    BY <1>8, <2>1, BecomesTyped DEF ReadForMerge
  <2> QED BY <1>8, <2>2 DEF ReadForMerge, device, Typed, TypeOK, SaveOrdered
<1>9. CASE WriteMerged(s)
  <2>1. [session[s] EXCEPT !.phase = "mergedI"] \in SessionState
    BY <1>a, <1>b DEF SessionState, Phase, AtInitiator
  <2>2. session' \in [Session -> SessionState]
    BY <1>9, <2>1, BecomesTyped DEF WriteMerged
  <2>3. doc' \in [Device -> SUBSET Edit]
    BY <1>9, <1>a DEF WriteMerged
  <2> QED BY <1>9, <2>2, <2>3 DEF WriteMerged, device, Typed, TypeOK, SaveOrdered
<1>10. CASE SendFinal(s)
  <2>1. [Idle EXCEPT !.phase = "final",
                    !.upd = session[s].base \ session[s].vec,
                    !.rows = clk[i]] \in SessionState
    BY <1>a, <1>b DEF SessionState, Phase, InFlight
  <2>2. session' \in [Session -> SessionState]
    BY <1>10, <2>1, BecomesTyped DEF SendFinal
  <2>3. inbox' \in [Device -> SUBSET SUBSET Edit]
    BY <1>10, <1>a DEF SendFinal, Emit
  <2> QED BY <1>10, <2>2, <2>3 DEF SendFinal, device, Typed, TypeOK, SaveOrdered
<1>11. CASE ReadForFinal(s)
  <2>1. [session[s] EXCEPT !.phase = "applyR",
                          !.base = doc[r] \cup session[s].upd] \in SessionState
    BY <1>c DEF SessionState, Phase, AtResponder
  <2>2. session' \in [Session -> SessionState]
    BY <1>11, <2>1, BecomesTyped DEF ReadForFinal
  <2> QED BY <1>11, <2>2 DEF ReadForFinal, device, Typed, TypeOK, SaveOrdered
<1>12. CASE WriteFinal(s)
  <2>1. [session[s] EXCEPT !.phase = "mergedR"] \in SessionState
    BY <1>a, <1>b DEF SessionState, Phase, AtResponder
  <2>2. session' \in [Session -> SessionState]
    BY <1>12, <2>1, BecomesTyped DEF WriteFinal
  <2>3. doc' \in [Device -> SUBSET Edit]
    BY <1>12, <1>a DEF WriteFinal
  <2>4. inbox' \in [Device -> SUBSET SUBSET Edit]
    BY <1>12, <1>a DEF WriteFinal, Emit
  <2> QED BY <1>12, <2>2, <2>3, <2>4 DEF WriteFinal, device, Typed, TypeOK, SaveOrdered
<1>13. CASE ReadClocks(s)
  <2>1. [Idle EXCEPT !.phase = "clocksR",
                    !.rows = session[s].rows,
                    !.local = clk[r]] \in SessionState
    BY <1>a, <1>b DEF SessionState, Phase, AtResponder
  <2>2. session' \in [Session -> SessionState]
    BY <1>13, <2>1, BecomesTyped DEF ReadClocks
  <2> QED BY <1>13, <2>2 DEF ReadClocks, device, Typed, TypeOK, SaveOrdered
<1>14. CASE MergeClocks(s)
  <2> DEFINE local == session[s].local
             remote == session[s].rows
             reply == [Idle EXCEPT !.phase = "clockResponse",
                                   !.rows = UpdateRemote(local, remote),
                                   !.add = AddRemote(local, remote)]
  <2>1. reply \in SessionState
    BY MergeLists DEF SessionState, Phase, InFlight
  <2>2. Becomes(s, Idle) \/ Becomes(s, reply)
    BY <1>14 DEF MergeClocks
  <2>3. session' \in [Session -> SessionState]
    BY <2>1, <2>2, BecomesTyped
  <2>4. WriteRows(clk[r], UpdateLocal(local, remote), AddLocal(local, remote)) \in Table
    BY <1>a, MergeLists, TableWrites
  <2>5. clk' \in [Device -> Table]
    BY <1>14, <1>a, <2>4 DEF MergeClocks
  <2> QED BY <1>14, <2>3, <2>5 DEF MergeClocks, Typed, TypeOK, SaveOrdered
<1>15. CASE AcceptClocks(s)
  <2>1. session' \in [Session -> SessionState]
    BY <1>15, BecomesTyped DEF AcceptClocks
  <2>2. WriteRows(clk[i], session[s].rows, session[s].add) \in Table
    BY <1>a, TableWrites
  <2>3. clk' \in [Device -> Table]
    BY <1>15, <1>a, <2>2 DEF AcceptClocks
  <2> QED BY <1>15, <2>1, <2>3 DEF AcceptClocks, Typed, TypeOK, SaveOrdered
<1> QED
  BY <1>1, <1>2, <1>3, <1>4, <1>5, <1>6, <1>7, <1>8, <1>9, <1>10, <1>11, <1>12, <1>13, <1>14, <1>15 DEF Protocol

\* So does every fault.
LEMMA FaultTyped ==
    ASSUME Typed,
           (\E s \in Session : Drop(s) \/ HandlerFails(s)) \/ (\E d \in Device : Crash(d))
    PROVE  Typed'
<1> USE IdleState
<1>1. faults' \in 0 .. MaxFaults
  BY BoundAssumption DEF Typed, TypeOK, Drop, HandlerFails, Crash, Fault
<1>2. ASSUME NEW s \in Session, Drop(s) \/ HandlerFails(s)
      PROVE  Typed'
  <2>1. session' \in [Session -> SessionState]
    BY <1>2, BecomesTyped DEF Drop, HandlerFails
  <2> QED BY <1>1, <1>2, <2>1 DEF Drop, HandlerFails, device, Typed, TypeOK, SaveOrdered
<1>3. ASSUME NEW d \in Device, Crash(d)
      PROVE  Typed'
  <2>1. session' \in [Session -> SessionState]
    BY <1>3 DEF Crash, Typed, TypeOK
  <2>2. NoSave \in SaveState /\ NoSave.step = "none"
    BY DEF SaveState, NoSave
  <2>3. save' = [save EXCEPT ![d] = NoSave] /\ issued' = issued /\ save \in [Device -> SaveState]
    BY <1>3 DEF Crash, Typed, TypeOK
  <2>4. save' \in [Device -> SaveState]
    BY <2>2, <2>3
  <2>5. SaveOrdered'
    BY <2>2, <2>3 DEF Typed, SaveOrdered
  <2> QED BY <1>1, <1>3, <2>1, <2>4, <2>5 DEF Crash, Typed, TypeOK
<1> QED BY <1>2, <1>3

LEMMA StepTyped == Typed /\ [Next]_vars => Typed'
<1>1. ASSUME Typed, UNCHANGED vars PROVE Typed'
  BY <1>1 DEF Typed, TypeOK, SaveOrdered, vars
<1> QED BY <1>1, EditingTyped, ProtocolTyped, FaultTyped DEF Next

\* TypeOK holds in every reachable state, with the order of a save's steps.
LEMMA TypedAlways == Spec => []Typed
BY InitTyped, StepTyped, PTL DEF Spec

\* Every database table, editor buffer, message and handler state keeps its
\* type, whatever is lost, fails, crashes or overlaps.
THEOREM TypeCorrect == Spec => []TypeOK
<1>1. Typed => TypeOK
  BY DEF Typed
<1> QED BY <1>1, TypedAlways, PTL

----------------------------------------------------------------------------
(* Clock rows and saves.                                                   *)

\* A table none of whose rows knows an uncounted save.
Within(table) == \A e \in Device : table[e] <= Counted(e)

\* What is counted is a natural number.
LEMMA CountedNat ==
    ASSUME Typed
    PROVE  \A e \in Device : Counted(e) \in Nat
BY BoundAssumption DEF Typed, TypeOK, SaveOrdered, SaveState, Counted

\* The merge and the table writes stay below any bound that their inputs
\* respect: they pass values on and make up only 0 and Absent.
LEMMA MergeBounded ==
    ASSUME NEW m, \A e \in Device : m[e] \in Nat,
           NEW l \in Table, \A e \in Device : l[e] <= m[e],
           NEW t \in Table, \A e \in Device : t[e] <= m[e]
    PROVE  \A e \in Device :
              /\ NoRows[e] <= m[e]
              /\ UpdateLocal(l, t)[e] <= m[e] /\ AddLocal(l, t)[e] <= m[e]
              /\ UpdateRemote(l, t)[e] <= m[e] /\ AddRemote(l, t)[e] <= m[e]
              /\ \A d \in Device : ZeroRow(l, d)[e] <= m[e]
<1> TAKE e \in Device
<1> USE DEF Absent
<1>1. NoRows[e] <= m[e]
  BY DEF NoRows
<1>2. UpdateLocal(l, t)[e] <= m[e] /\ AddLocal(l, t)[e] <= m[e]
  BY DEF UpdateLocal, AddLocal
<1>3. UpdateRemote(l, t)[e] <= m[e] /\ AddRemote(l, t)[e] <= m[e]
  BY DEF UpdateRemote, AddRemote
<1>4. \A d \in Device : ZeroRow(l, d)[e] <= m[e]
  BY DEF ZeroRow, Table
<1> QED BY <1>1, <1>2, <1>3, <1>4

\* So does the write of two lists that stay below it.
LEMMA WriteBounded ==
    ASSUME NEW m, \A e \in Device : m[e] \in Nat,
           NEW l \in Table, \A e \in Device : l[e] <= m[e],
           NEW u \in Table, \A e \in Device : u[e] <= m[e],
           NEW v \in Table, \A e \in Device : v[e] <= m[e]
    PROVE  \A e \in Device : WriteRows(l, u, v)[e] <= m[e]
BY DEF WriteRows

\* The same for the rows of the state, none of which knows an uncounted save.
LEMMA MergeWithin ==
    ASSUME Typed, NEW l \in Table, Within(l), NEW t \in Table, Within(t)
    PROVE  /\ Within(NoRows)
           /\ Within(UpdateLocal(l, t)) /\ Within(AddLocal(l, t))
           /\ Within(UpdateRemote(l, t)) /\ Within(AddRemote(l, t))
           /\ \A d \in Device : Within(ZeroRow(l, d))
<1> DEFINE m == [e \in Device |-> Counted(e)]
<1>1. \A e \in Device : m[e] \in Nat /\ m[e] = Counted(e)
  BY CountedNat
<1> HIDE DEF m
<1>2. \A e \in Device : l[e] <= m[e] /\ t[e] <= m[e]
  BY <1>1 DEF Within
<1> QED BY <1>1, <1>2, MergeBounded DEF Within

LEMMA WriteWithin ==
    ASSUME Typed, NEW l \in Table, Within(l),
           NEW u \in Table, Within(u), NEW v \in Table, Within(v)
    PROVE  Within(WriteRows(l, u, v))
BY DEF WriteRows, Within

SessionWithin(state) == Within(state.rows) /\ Within(state.add) /\ Within(state.local)

LEMMA WithinOf ==
    UncountedUnknown <=> /\ \A d \in Device : Within(clk[d])
                         /\ \A s \in Session : SessionWithin(session[s])
BY DEF UncountedUnknown, Within, SessionWithin

LEMMA IdleWithin == Typed => SessionWithin(Idle)
BY CountedNat DEF SessionWithin, Idle, Within, NoRows, Absent

\* A step that saves nothing keeps UncountedUnknown if what it writes does.
LEMMA KeepsWithin ==
    ASSUME Typed, UncountedUnknown, UNCHANGED <<save, issued>>,
           NEW s \in Session, NEW state, SessionWithin(state), Becomes(s, state),
           \A d \in Device : Within(clk'[d])
    PROVE  UncountedUnknown'
<1>1. \A e \in Device : Counted(e)' = Counted(e)
  BY DEF Counted
<1>2. \A t \in Session : SessionWithin(session'[t])
  BY WithinOf DEF Becomes, Typed, TypeOK
<1> QED BY <1>1, <1>2 DEF UncountedUnknown, Within, SessionWithin

\* Every step of a manifest exchange, a hand-over or a merge keeps it.
LEMMA ProtocolWithin ==
    ASSUME Typed, UncountedUnknown, NEW s \in Session, StartSync(s) \/ Protocol(s)
    PROVE  UncountedUnknown'
<1> DEFINE i == s[1]
           r == s[2]
<1> USE SessionEnds, SessionFields, IdleWithin, WithinOf
<1>a. /\ i \in Device /\ r \in Device /\ Sender(s) \in Device /\ Receiver(s) \in Device
      /\ clk \in [Device -> Table]
  BY DEF Typed, TypeOK, Sender, Receiver
<1>b. SessionWithin(session[s])
  OBVIOUS
<1>c. /\ Within(session[s].rows) /\ Within(session[s].add) /\ Within(session[s].local)
      /\ Within(NoRows)
  BY <1>b, IdleWithin DEF SessionWithin, Idle
<1>1. CASE StartSync(s)
  <2> DEFINE state == [Idle EXCEPT !.phase = "manifest", !.rows = clk[i]]
  <2>1. SessionWithin(state)
    BY <1>a, <1>b, <1>c DEF SessionWithin, Idle, SessionState
  <2>2. UNCHANGED <<clk, save, issued>> /\ Becomes(s, state)
    BY <1>1 DEF StartSync, device
  <2> HIDE DEF state
  <2> QED BY <2>1, <2>2, KeepsWithin
<1>2. CASE CompareManifests(s)
  <2>1. PICK p \in Phase : Becomes(s, [Idle EXCEPT !.phase = p])
    BY <1>2 DEF CompareManifests, Phase, InFlight
  <2>2. SessionWithin([Idle EXCEPT !.phase = p])
    BY <1>c DEF SessionWithin, Idle
  <2>3. UNCHANGED <<clk, save, issued>>
    BY <1>2 DEF CompareManifests, device
  <2> QED BY <2>1, <2>2, <2>3, KeepsWithin
<1>3. CASE ReadCopy(s)
  <2> DEFINE state == [Idle EXCEPT !.phase = IF Sender(s) = s[1] THEN "readI" ELSE "readR",
                                   !.base = doc[Sender(s)]]
  <2>1. SessionWithin(state)
    BY <1>c DEF SessionWithin, Idle
  <2>2. UNCHANGED <<save, issued>> /\ Becomes(s, state)
    BY <1>3 DEF ReadCopy
  <2>3. \A d \in Device : Within(clk'[d])
    BY <1>3, <1>a, MergeWithin DEF ReadCopy
  <2> HIDE DEF state
  <2> QED BY <2>1, <2>2, <2>3, KeepsWithin
<1>4. CASE SendCopy(s)
  <2> DEFINE state == [Idle EXCEPT !.phase = IF Sender(s) = s[1] THEN "copyToR" ELSE "copyToI",
                                   !.upd = session[s].base, !.rows = clk[Sender(s)]]
  <2>1. SessionWithin(state)
    BY <1>a, <1>b, <1>c DEF SessionWithin, Idle, SessionState
  <2>2. UNCHANGED <<clk, save, issued>> /\ Becomes(s, state)
    BY <1>4 DEF SendCopy, device
  <2> HIDE DEF state
  <2> QED BY <2>1, <2>2, KeepsWithin
<1>5. CASE ReceiveCopy(s)
  <2> DEFINE d == Receiver(s)
             new == [e \in Device |-> IF HasRow(clk[d], e) THEN clk[d][e]
                                      ELSE session[s].rows[e]]
  <2>1. Within(new)
    BY <1>a, <1>c DEF Within
  <2>2. clk' = clk \/ clk' = [clk EXCEPT ![d] = new]
    BY <1>5 DEF ReceiveCopy
  <2> HIDE DEF new
  <2>3. \A x \in Device : Within(clk'[x])
    BY <1>a, <2>1, <2>2
  <2>4. UNCHANGED <<save, issued>> /\ Becomes(s, Idle)
    BY <1>5 DEF ReceiveCopy
  <2> QED BY <2>3, <2>4, KeepsWithin
<1>6. CASE RequestUpdates(s)
  <2> DEFINE state == [Idle EXCEPT !.phase = "svRequest", !.vec = doc[i]]
  <2>1. SessionWithin(state)
    BY <1>a, <1>b, <1>c DEF SessionWithin, Idle, SessionState
  <2>2. UNCHANGED <<clk, save, issued>> /\ Becomes(s, state)
    BY <1>6 DEF RequestUpdates, device
  <2> HIDE DEF state
  <2> QED BY <2>1, <2>2, KeepsWithin
<1>7. CASE GenerateUpdates(s)
  <2> DEFINE state == [Idle EXCEPT !.phase = "updResponse", !.upd = doc[r] \ session[s].vec,
                                   !.vec = doc[r]]
  <2>1. SessionWithin(state)
    BY <1>a, <1>b, <1>c DEF SessionWithin, Idle, SessionState
  <2>2. UNCHANGED <<clk, save, issued>> /\ Becomes(s, state)
    BY <1>7 DEF GenerateUpdates, device
  <2> HIDE DEF state
  <2> QED BY <2>1, <2>2, KeepsWithin
<1>8. CASE ReadForMerge(s)
  <2> DEFINE state == [session[s] EXCEPT !.phase = "applyI",
                                         !.base = doc[i] \cup session[s].upd]
  <2>1. SessionWithin(state)
    BY <1>a, <1>b, <1>c DEF SessionWithin, Idle, SessionState
  <2>2. UNCHANGED <<clk, save, issued>> /\ Becomes(s, state)
    BY <1>8 DEF ReadForMerge, device
  <2> HIDE DEF state
  <2> QED BY <2>1, <2>2, KeepsWithin
<1>9. CASE WriteMerged(s)
  <2> DEFINE state == [session[s] EXCEPT !.phase = "mergedI"]
  <2>1. SessionWithin(state)
    BY <1>a, <1>b, <1>c DEF SessionWithin, Idle, SessionState
  <2>2. UNCHANGED <<clk, save, issued>> /\ Becomes(s, state)
    BY <1>9 DEF WriteMerged, device
  <2> HIDE DEF state
  <2> QED BY <2>1, <2>2, KeepsWithin
<1>10. CASE SendFinal(s)
  <2> DEFINE state == [Idle EXCEPT !.phase = "final", !.upd = session[s].base \ session[s].vec,
                                   !.rows = clk[i]]
  <2>1. SessionWithin(state)
    BY <1>a, <1>b, <1>c DEF SessionWithin, Idle, SessionState
  <2>2. UNCHANGED <<clk, save, issued>> /\ Becomes(s, state)
    BY <1>10 DEF SendFinal, device
  <2> HIDE DEF state
  <2> QED BY <2>1, <2>2, KeepsWithin
<1>11. CASE ReadForFinal(s)
  <2> DEFINE state == [session[s] EXCEPT !.phase = "applyR",
                                         !.base = doc[r] \cup session[s].upd]
  <2>1. SessionWithin(state)
    BY <1>a, <1>b, <1>c DEF SessionWithin, Idle, SessionState
  <2>2. UNCHANGED <<clk, save, issued>> /\ Becomes(s, state)
    BY <1>11 DEF ReadForFinal, device
  <2> HIDE DEF state
  <2> QED BY <2>1, <2>2, KeepsWithin
<1>12. CASE WriteFinal(s)
  <2> DEFINE state == [session[s] EXCEPT !.phase = "mergedR"]
  <2>1. SessionWithin(state)
    BY <1>a, <1>b, <1>c DEF SessionWithin, Idle, SessionState
  <2>2. UNCHANGED <<clk, save, issued>> /\ Becomes(s, state)
    BY <1>12 DEF WriteFinal, device
  <2> HIDE DEF state
  <2> QED BY <2>1, <2>2, KeepsWithin
<1>13. CASE ReadClocks(s)
  <2> DEFINE state == [Idle EXCEPT !.phase = "clocksR", !.rows = session[s].rows,
                                   !.local = clk[r]]
  <2>1. SessionWithin(state)
    BY <1>a, <1>b, <1>c DEF SessionWithin, Idle, SessionState
  <2>2. UNCHANGED <<clk, save, issued>> /\ Becomes(s, state)
    BY <1>13 DEF ReadClocks, device
  <2> HIDE DEF state
  <2> QED BY <2>1, <2>2, KeepsWithin
<1>14. CASE MergeClocks(s)
  <2> DEFINE local == session[s].local
             remote == session[s].rows
             state == [Idle EXCEPT !.phase = "clockResponse",
                                   !.rows = UpdateRemote(local, remote),
                                   !.add = AddRemote(local, remote)]
             new == WriteRows(clk[r], UpdateLocal(local, remote), AddLocal(local, remote))
  <2>1. /\ Within(UpdateLocal(local, remote)) /\ Within(AddLocal(local, remote))
        /\ Within(UpdateRemote(local, remote)) /\ Within(AddRemote(local, remote))
    BY <1>c, MergeWithin
  <2>2. SessionWithin(state)
    BY <1>c, <2>1 DEF SessionWithin, Idle
  <2>3. Within(new)
    BY <1>a, <2>1, MergeLists, WriteWithin
  <2>4. clk' = clk \/ clk' = [clk EXCEPT ![r] = new]
    BY <1>14, <1>a DEF MergeClocks
  <2>5. UNCHANGED <<save, issued>> /\ (Becomes(s, Idle) \/ Becomes(s, state))
    BY <1>14 DEF MergeClocks
  <2> HIDE DEF new, state
  <2>6. \A d \in Device : Within(clk'[d])
    BY <1>a, <2>3, <2>4
  <2> QED BY <2>2, <2>5, <2>6, KeepsWithin
<1>15. CASE AcceptClocks(s)
  <2> DEFINE new == WriteRows(clk[i], session[s].rows, session[s].add)
  <2>1. Within(new)
    BY <1>a, <1>c, WriteWithin
  <2>2. clk' = clk \/ clk' = [clk EXCEPT ![i] = new]
    BY <1>15, <1>a DEF AcceptClocks
  <2>3. UNCHANGED <<save, issued>> /\ Becomes(s, Idle)
    BY <1>15 DEF AcceptClocks
  <2> HIDE DEF new
  <2>4. \A d \in Device : Within(clk'[d])
    BY <1>a, <2>1, <2>2
  <2> QED BY <2>3, <2>4, KeepsWithin
<1> QED
  BY <1>1, <1>2, <1>3, <1>4, <1>5, <1>6, <1>7, <1>8, <1>9, <1>10, <1>11, <1>12, <1>13, <1>14, <1>15 DEF Protocol

\* So does every step of the editor and of the save: the write makes a save
\* uncounted, and only the increment that follows raises a row.
LEMMA EditingWithin ==
    ASSUME Typed, UncountedUnknown, NEW d \in Device, Editing(d)
    PROVE  UncountedUnknown'
<1>a. /\ clk \in [Device -> Table] /\ save \in [Device -> SaveState]
      /\ \A e \in Device : issued[e] \in Nat
      /\ save[d].step = "written" => issued[d] > 0
  BY BoundAssumption DEF Typed, TypeOK, SaveOrdered
<1>b. ASSUME UNCHANGED <<clk, session>>, \A e \in Device : Counted(e)' = Counted(e)
      PROVE  UncountedUnknown'
  BY <1>b DEF UncountedUnknown
<1>1. CASE Load(d) \/ Show(d) \/ Close(d) \/ TakeUpdates(d)
  <2>1. UNCHANGED <<clk, save, issued, session>>
    BY <1>1 DEF Load, Show, Close, TakeUpdates
  <2> QED BY <1>b, <2>1 DEF Counted
<1>2. CASE SaveTake(d)
  <2>1. UNCHANGED <<clk, issued, session>>
    BY <1>2 DEF SaveTake
  <2>2. save[d].step # "written"
    BY <1>2 DEF SaveTake, NoSave
  <2>3. /\ save'[d].step = "taken"
        /\ \A e \in Device : e # d => save'[e] = save[e]
    BY <1>2, <1>a DEF SaveTake
  <2>4. \A e \in Device : Counted(e)' = Counted(e)
    BY <2>1, <2>2, <2>3 DEF Counted
  <2> QED BY <1>b, <2>1, <2>4
<1>3. CASE SaveWrite(d)
  <2>1. UNCHANGED <<clk, session>> /\ save[d].step = "taken"
    BY <1>3 DEF SaveWrite
  <2>2. /\ save'[d].step = "written" /\ issued'[d] = issued[d] + 1
        /\ \A e \in Device : e # d => save'[e] = save[e] /\ issued'[e] = issued[e]
    BY <1>3, <1>a DEF SaveWrite, SaveState, Typed, TypeOK
  <2>3. \A e \in Device : Counted(e)' = Counted(e)
    BY <1>a, <2>1, <2>2 DEF Counted
  <2> QED BY <1>b, <2>1, <2>3
<1>4. CASE SaveIncrement(d)
  <2>1. UNCHANGED <<issued, session>> /\ save[d].step = "written"
        /\ clk' = [clk EXCEPT ![d] = Increment(clk[d], d)]
        /\ save' = [save EXCEPT ![d] = NoSave]
    BY <1>4 DEF SaveIncrement
  <2>2. Counted(d) = issued[d] - 1 /\ Counted(d)' = issued[d]
    BY <2>1, <1>a DEF Counted, NoSave
  <2>3. \A e \in Device : e # d => Counted(e)' = Counted(e)
    BY <2>1, <1>a DEF Counted
  <2>4. \A e \in Device : Counted(e) <= Counted(e)'
    BY <2>2, <2>3, <1>a, CountedNat
  <2>5. \A e \in Device : /\ Counted(e) \in Int /\ Counted(e)' \in Int
                          /\ \A n \in Clock : n <= Counted(e) => n <= Counted(e)'
    <3>1. \A e \in Device : Counted(e) \in Int /\ Counted(e)' \in Int
      BY <1>a, <2>2, <2>3, CountedNat
    <3> QED BY <2>4, <3>1 DEF Clock, Absent
  <2>6. ASSUME NEW e \in Device
        PROVE  Increment(clk[d], d)[e] <= Counted(e)'
    <3>1. clk[d] \in Table /\ clk[d][e] \in Clock /\ clk[d][e] <= Counted(e)
      BY <1>a DEF UncountedUnknown, Table
    <3>2. CASE e = d
      <4>1. Counted(e)' = issued[d] /\ clk[d][d] <= issued[d] - 1
        BY <1>a, <2>1, <2>2, <3>1, <3>2 DEF Counted, NoSave
      <4>2. Increment(clk[d], d)[d] \in {clk[d][d] + 1, 1}
        BY <3>1 DEF Increment, Table
      <4>3. clk[d][d] \in Int /\ issued[d] \in Nat /\ issued[d] > 0
        BY <1>a, <2>1, <3>1, <3>2, ClockIsInt
      <4> QED BY <3>2, <4>1, <4>2, <4>3
    <3>3. CASE e # d
      BY <2>5, <3>1, <3>3 DEF Increment, Table
    <3> QED BY <3>2, <3>3
  <2>7. \A x, e \in Device : clk'[x][e] <= Counted(e)'
    <3> SUFFICES ASSUME NEW x \in Device, NEW e \in Device
                 PROVE  clk'[x][e] <= Counted(e)'
      OBVIOUS
    <3>1. CASE x = d
      BY <1>a, <2>1, <2>6, <3>1
    <3>2. CASE x # d
      BY <1>a, <2>1, <2>5, <3>2 DEF UncountedUnknown, Table
    <3> QED BY <3>1, <3>2
  <2>8. \A s \in Session, e \in Device : /\ session'[s].rows[e] <= Counted(e)'
                                         /\ session'[s].add[e] <= Counted(e)'
                                         /\ session'[s].local[e] <= Counted(e)'
    BY <2>1, <2>5, SessionFields DEF UncountedUnknown, Table
  <2> QED BY <2>7, <2>8 DEF UncountedUnknown
<1>5. ASSUME NEW e \in Device, Share(d, e)
      PROVE  UncountedUnknown'
  <2>1. UNCHANGED <<save, issued, session>>
    BY <1>5 DEF Share
  <2>2. \A x \in Device : Within(clk'[x])
    BY <1>5, <1>a, WithinOf, MergeWithin DEF Share
  <2>3. \A x \in Device : Counted(x)' = Counted(x)
    BY <2>1 DEF Counted
  <2> QED BY <2>1, <2>2, <2>3 DEF UncountedUnknown, Within
<1> QED BY <1>1, <1>2, <1>3, <1>4, <1>5 DEF Editing

\* And every fault: a crash makes the save under way one that no row counts.
LEMMA FaultWithin ==
    ASSUME Typed, UncountedUnknown,
           (\E s \in Session : Drop(s) \/ HandlerFails(s)) \/ (\E d \in Device : Crash(d))
    PROVE  UncountedUnknown'
<1>1. ASSUME NEW s \in Session, Drop(s) \/ HandlerFails(s)
      PROVE  UncountedUnknown'
  <2>1. UNCHANGED <<clk, save, issued>> /\ Becomes(s, Idle)
    BY <1>1 DEF Drop, HandlerFails, device
  <2> QED BY <2>1, IdleWithin, WithinOf, KeepsWithin
<1>2. ASSUME NEW d \in Device, Crash(d)
      PROVE  UncountedUnknown'
  <2>1. /\ UNCHANGED <<clk, issued>> /\ save' = [save EXCEPT ![d] = NoSave]
        /\ session' = [s \in Session |-> IF d \in Ends(s) THEN Idle ELSE session[s]]
    BY <1>2 DEF Crash
  <2>2. \A e \in Device : /\ Counted(e) \in Int /\ Counted(e)' \in Int
                          /\ Counted(e) <= Counted(e)'
    BY <2>1, BoundAssumption DEF Counted, NoSave, Typed, TypeOK
  <2>3. \A e \in Device : \A n \in Clock : n <= Counted(e) => n <= Counted(e)'
    BY <2>2 DEF Clock, Absent
  <2>4. \A x, e \in Device : clk'[x][e] <= Counted(e)'
    BY <2>1, <2>3 DEF UncountedUnknown, Typed, TypeOK, Table
  <2>5. \A s \in Session : SessionWithin(session'[s]) /\ session'[s] \in SessionState
    BY <2>1, IdleWithin, IdleState, WithinOf, SessionFields
  <2>6. \A s \in Session, e \in Device : /\ session'[s].rows[e] <= Counted(e)'
                                         /\ session'[s].add[e] <= Counted(e)'
                                         /\ session'[s].local[e] <= Counted(e)'
    BY <2>3, <2>5 DEF SessionWithin, Within, SessionState, Table
  <2> QED BY <2>4, <2>6 DEF UncountedUnknown
<1> QED BY <1>1, <1>2

LEMMA InitWithin == Init => UncountedUnknown
<1> SUFFICES ASSUME Init PROVE UncountedUnknown
  OBVIOUS
<1>1. Typed
  BY InitTyped
<1>2. \A s \in Session : SessionWithin(session[s])
  BY <1>1, IdleWithin DEF Init
<1>3. \A e \in Device : Counted(e) = IF e = Creator THEN 1 ELSE 0
  BY DEF Init, Counted, NoSave
<1>4. \A d \in Device : Within(clk[d])
  <2> SUFFICES ASSUME NEW d \in Device, NEW e \in Device
               PROVE  clk[d][e] <= Counted(e)
    BY DEF Within
  <2>1. clk[d][e] \in {Absent, 0} \/ (e = Creator /\ clk[d][e] = 1)
    BY DEF Init, NoRows
  <2> QED BY <1>3, <2>1 DEF Absent
<1> QED BY <1>2, <1>4, WithinOf

\* No device, and no message, ever knows a save that its device has not
\* counted: for any devices and sessions, with saves during merges, crashes,
\* lost connections and handlers that fail half-way.
THEOREM UncountedStaysUnknown == Spec => []UncountedUnknown
<1>1. Init => Typed /\ UncountedUnknown
  BY InitTyped, InitWithin
<1>2. Typed /\ UncountedUnknown /\ [Next]_vars => (Typed /\ UncountedUnknown)'
  <2> SUFFICES ASSUME Typed, UncountedUnknown, [Next]_vars PROVE UncountedUnknown'
    BY StepTyped
  <2>1. CASE UNCHANGED vars
    BY <2>1 DEF vars, UncountedUnknown, Counted
  <2>2. CASE Next
    BY <2>2, EditingWithin, ProtocolWithin, FaultWithin DEF Next
  <2> QED BY <2>1, <2>2
<1> QED BY <1>1, <1>2, PTL DEF Spec

\* So a clock row never runs ahead of the saves of its device.
THEOREM KnownSavesHappen == Spec => []KnownSavesHappened
<1>1. Typed /\ UncountedUnknown => KnownSavesHappened
  <2> SUFFICES ASSUME Typed, UncountedUnknown, NEW d \in Device, NEW e \in Device
               PROVE  clk[d][e] <= issued[e]
    BY DEF KnownSavesHappened
  <2>1. clk[d][e] \in Int /\ issued[e] \in Int
    <3>1. clk[d] \in Table /\ issued[e] \in 0 .. MaxSaves
      BY DEF Typed, TypeOK
    <3>2. clk[d][e] \in Clock
      BY <3>1 DEF Table
    <3> QED BY <3>1, <3>2, BoundAssumption DEF Clock, Absent
  <2>2. Counted(e) \in Int /\ Counted(e) <= issued[e]
    BY <2>1 DEF Counted
  <2>3. clk[d][e] <= Counted(e)
    BY DEF UncountedUnknown
  <2> QED BY <2>1, <2>2, <2>3
<1> QED BY <1>1, TypedAlways, UncountedStaysUnknown, PTL

----------------------------------------------------------------------------
(* A device's own row.                                                     *)

\* Between reading a copy and receiving it, its rows have the receiver's.
CopyReady ==
    \A s \in Session :
        /\ session[s].phase = "readI" => HasRow(clk[s[1]], s[2])
        /\ session[s].phase = "readR" => HasRow(clk[s[2]], s[1])
        /\ session[s].phase = "copyToR" => HasRow(session[s].rows, s[2])
        /\ session[s].phase = "copyToI" => HasRow(session[s].rows, s[1])

RowsStay == \A d, e \in Device : HasRow(clk[d], e) => HasRow(clk'[d], e)

\* No write of a table removes a row.
LEMMA WritesKeepRows ==
    ASSUME NEW t \in Table, NEW e \in Device, HasRow(t, e)
    PROVE  /\ \A d \in Device : HasRow(Increment(t, d), e) /\ HasRow(ZeroRow(t, d), e)
           /\ \A u, v \in Table : HasRow(WriteRows(t, u, v), e)
<1>1. t[e] \in Nat
  BY DEF Table, Clock, HasRow
<1>2. ASSUME NEW d \in Device
      PROVE  HasRow(Increment(t, d), e) /\ HasRow(ZeroRow(t, d), e)
  BY <1>1 DEF Increment, ZeroRow, HasRow, Table, Absent
<1>3. ASSUME NEW u \in Table, NEW v \in Table
      PROVE  HasRow(WriteRows(t, u, v), e)
  BY <1>1 DEF WriteRows, Rows, HasRow
<1> QED BY <1>2, <1>3

\* Every step keeps every row of every table.
LEMMA StepKeepsRows == Typed /\ [Next]_vars => RowsStay
<1> SUFFICES ASSUME Typed, [Next]_vars, UNCHANGED clk => RowsStay PROVE RowsStay
  BY DEF RowsStay
<1> USE SessionEnds, SessionFields
<1>a. clk \in [Device -> Table]
  BY DEF Typed, TypeOK
<1>1. ASSUME NEW d \in Device, NEW new, clk' = [clk EXCEPT ![d] = new],
             \A e \in Device : HasRow(clk[d], e) => HasRow(new, e)
      PROVE  RowsStay
  BY <1>1, <1>a DEF RowsStay
<1>2. ASSUME NEW d \in Device, Editing(d)
      PROVE  RowsStay
  <2>1. CASE SaveIncrement(d)
    <3>1. clk' = [clk EXCEPT ![d] = Increment(clk[d], d)]
      BY <2>1 DEF SaveIncrement
    <3>2. \A e \in Device : HasRow(clk[d], e) => HasRow(Increment(clk[d], d), e)
      BY <1>a, WritesKeepRows
    <3> QED BY <1>1, <3>1, <3>2
  <2>2. ASSUME NEW e \in Device, Share(d, e)
        PROVE  RowsStay
    <3>1. clk' = [clk EXCEPT ![d] = ZeroRow(clk[d], e)]
      BY <2>2 DEF Share
    <3>2. \A x \in Device : HasRow(clk[d], x) => HasRow(ZeroRow(clk[d], e), x)
      BY <1>a, WritesKeepRows
    <3> QED BY <1>1, <3>1, <3>2
  <2>3. CASE Load(d) \/ Show(d) \/ Close(d) \/ TakeUpdates(d) \/ SaveTake(d) \/ SaveWrite(d)
    BY <2>3 DEF Load, Show, Close, TakeUpdates, SaveTake, SaveWrite
  <2> QED BY <1>2, <2>1, <2>2, <2>3 DEF Editing
<1>3. ASSUME NEW s \in Session, Protocol(s)
      PROVE  RowsStay
  <2>1. CASE ReadCopy(s)
    <3> DEFINE d == Sender(s)
    <3>1. d \in Device /\ Receiver(s) \in Device
      BY DEF Sender, Receiver
    <3>2. clk' = [clk EXCEPT ![d] = ZeroRow(clk[d], Receiver(s))]
      BY <2>1 DEF ReadCopy
    <3>3. \A e \in Device : HasRow(clk[d], e) => HasRow(ZeroRow(clk[d], Receiver(s)), e)
      BY <1>a, <3>1, WritesKeepRows
    <3> HIDE DEF d
    <3> QED BY <1>1, <3>1, <3>2, <3>3
  <2>2. CASE ReceiveCopy(s)
    <3> DEFINE d == Receiver(s)
               new == [e \in Device |-> IF HasRow(clk[d], e) THEN clk[d][e]
                                        ELSE session[s].rows[e]]
    <3>1. d \in Device /\ (clk' = clk \/ clk' = [clk EXCEPT ![d] = new])
      BY <2>2 DEF ReceiveCopy, Sender, Receiver
    <3>2. \A e \in Device : HasRow(clk[d], e) => HasRow(new, e)
      BY DEF HasRow
    <3> HIDE DEF d, new
    <3> QED BY <1>1, <3>1, <3>2
  <2>3. CASE MergeClocks(s)
    <3> DEFINE new == WriteRows(clk[s[2]], UpdateLocal(session[s].local, session[s].rows),
                                AddLocal(session[s].local, session[s].rows))
    <3>1. clk' = clk \/ clk' = [clk EXCEPT ![s[2]] = new]
      BY <1>a, <2>3 DEF MergeClocks
    <3>2. \A e \in Device : HasRow(clk[s[2]], e) => HasRow(new, e)
      BY <1>a, MergeLists, WritesKeepRows
    <3> HIDE DEF new
    <3> QED BY <1>1, <3>1, <3>2
  <2>4. CASE AcceptClocks(s)
    <3> DEFINE new == WriteRows(clk[s[1]], session[s].rows, session[s].add)
    <3>1. clk' = clk \/ clk' = [clk EXCEPT ![s[1]] = new]
      BY <1>a, <2>4 DEF AcceptClocks
    <3>2. \A e \in Device : HasRow(clk[s[1]], e) => HasRow(new, e)
      BY <1>a, WritesKeepRows
    <3> HIDE DEF new
    <3> QED BY <1>1, <3>1, <3>2
  <2>5. CASE \/ CompareManifests(s) \/ SendCopy(s) \/ RequestUpdates(s) \/ GenerateUpdates(s)
             \/ ReadForMerge(s) \/ WriteMerged(s) \/ SendFinal(s) \/ ReadForFinal(s)
             \/ WriteFinal(s) \/ ReadClocks(s)
    BY <2>5 DEF CompareManifests, SendCopy, RequestUpdates, GenerateUpdates, ReadForMerge,
                WriteMerged, SendFinal, ReadForFinal, WriteFinal, ReadClocks, device
  <2> QED BY <1>3, <2>1, <2>2, <2>3, <2>4, <2>5 DEF Protocol
<1>4. ASSUME NEW s \in Session, StartSync(s) \/ Drop(s) \/ HandlerFails(s)
      PROVE  RowsStay
  BY <1>4 DEF StartSync, Drop, HandlerFails, device
<1>5. ASSUME NEW d \in Device, Crash(d)
      PROVE  RowsStay
  BY <1>5 DEF Crash
<1>6. CASE UNCHANGED vars
  BY <1>6 DEF vars
<1> QED BY <1>2, <1>3, <1>4, <1>5, <1>6 DEF Next

\* A session that leaves, or does not enter, the hand-over keeps CopyReady.
LEMMA KeepsReady ==
    ASSUME Typed, CopyReady, RowsStay, NEW s \in Session, NEW state, Becomes(s, state),
           state.phase \notin {"readI", "readR", "copyToR", "copyToI"}
    PROVE  CopyReady'
BY SessionEnds DEF CopyReady, RowsStay, Becomes, Typed, TypeOK, HasRow

\* Every step of a session keeps CopyReady.
LEMMA SessionReady ==
    ASSUME Typed, CopyReady, RowsStay, NEW s \in Session, StartSync(s) \/ Protocol(s)
    PROVE  CopyReady'
<1> USE SessionEnds, SessionFields, IdleState
<1>a. clk \in [Device -> Table]
  BY DEF Typed, TypeOK
<1>1. CASE ReadCopy(s)
  <2> DEFINE d == Sender(s)
             e == Receiver(s)
             state == [Idle EXCEPT !.phase = IF d = s[1] THEN "readI" ELSE "readR",
                                   !.base = doc[d]]
  <2>1. /\ d \in Device /\ e \in Device
        /\ (d = s[1] /\ e = s[2]) \/ (d = s[2] /\ e = s[1])
    BY DEF Sender, Receiver
  <2>2. HasRow(clk'[d], e)
    <3>1. clk'[d] = ZeroRow(clk[d], e)
      BY <1>1, <1>a, <2>1 DEF ReadCopy
    <3>2. clk[d] \in Table
      BY <1>a, <2>1
    <3> HIDE DEF d, e
    <3> QED BY <2>1, <3>1, <3>2 DEF ZeroRow, HasRow, Table, Absent
  <2>3. /\ state.phase \in {"readI", "readR"}
        /\ state.phase = "readI" => d = s[1]
        /\ state.phase = "readR" => d = s[2]
    BY <2>1 DEF Idle
  <2>4. Becomes(s, state)
    BY <1>1 DEF ReadCopy
  <2> HIDE DEF d, e, state
  <2>5. /\ session'[s] = state
        /\ \A t \in Session : t # s => session'[t] = session[t]
    BY <2>4 DEF Becomes, Typed, TypeOK
  <2> SUFFICES ASSUME NEW t \in Session
               PROVE  /\ session'[t].phase = "readI" => HasRow(clk'[t[1]], t[2])
                      /\ session'[t].phase = "readR" => HasRow(clk'[t[2]], t[1])
                      /\ session'[t].phase = "copyToR" => HasRow(session'[t].rows, t[2])
                      /\ session'[t].phase = "copyToI" => HasRow(session'[t].rows, t[1])
    BY DEF CopyReady, HasRow
  <2>6. CASE t = s
    BY <2>1, <2>2, <2>3, <2>5, <2>6
  <2>7. CASE t # s
    BY <2>5, <2>7 DEF CopyReady, RowsStay
  <2> QED BY <2>6, <2>7
<1>2. CASE SendCopy(s)
  <2> DEFINE state == [Idle EXCEPT !.phase = IF Sender(s) = s[1] THEN "copyToR" ELSE "copyToI",
                                   !.upd = session[s].base, !.rows = clk[Sender(s)]]
  <2>1. /\ session[s].phase = "readI" => state.phase = "copyToR" /\ state.rows = clk[s[1]]
        /\ session[s].phase = "readR" => state.phase = "copyToI" /\ state.rows = clk[s[2]]
    BY DEF Sender, Idle
  <2>2. session[s].phase \in {"readI", "readR"} /\ Becomes(s, state)
    BY <1>2 DEF SendCopy
  <2> HIDE DEF state
  <2>3. /\ session'[s] = state
        /\ \A t \in Session : t # s => session'[t] = session[t]
    BY <2>2 DEF Becomes, Typed, TypeOK
  <2> SUFFICES ASSUME NEW t \in Session
               PROVE  /\ session'[t].phase = "readI" => HasRow(clk'[t[1]], t[2])
                      /\ session'[t].phase = "readR" => HasRow(clk'[t[2]], t[1])
                      /\ session'[t].phase = "copyToR" => HasRow(session'[t].rows, t[2])
                      /\ session'[t].phase = "copyToI" => HasRow(session'[t].rows, t[1])
    BY DEF CopyReady, HasRow
  <2>4. CASE t = s
    BY <2>1, <2>2, <2>3, <2>4 DEF CopyReady
  <2>5. CASE t # s
    BY <2>3, <2>5 DEF CopyReady, RowsStay
  <2> QED BY <2>4, <2>5
<1>3. CASE CompareManifests(s)
  <2>1. PICK p \in {"agreed", "idle", "toI", "toR"} : Becomes(s, [Idle EXCEPT !.phase = p])
    BY <1>3 DEF CompareManifests
  <2>2. [Idle EXCEPT !.phase = p].phase = p
    BY DEF Idle
  <2> QED BY <2>1, <2>2, KeepsReady
<1>4. CASE StartSync(s)
  <2> DEFINE state == [Idle EXCEPT !.phase = "manifest", !.rows = clk[s[1]]]
  <2>1. Becomes(s, state)
    BY <1>4 DEF StartSync
  <2>2. state.phase \notin {"readI", "readR", "copyToR", "copyToI"}
    BY DEF Idle, SessionState
  <2> HIDE DEF state
  <2> QED BY <2>1, <2>2, KeepsReady
<1>5. CASE RequestUpdates(s)
  <2> DEFINE state == [Idle EXCEPT !.phase = "svRequest", !.vec = doc[s[1]]]
  <2>1. Becomes(s, state)
    BY <1>5 DEF RequestUpdates
  <2>2. state.phase \notin {"readI", "readR", "copyToR", "copyToI"}
    BY DEF Idle, SessionState
  <2> HIDE DEF state
  <2> QED BY <2>1, <2>2, KeepsReady
<1>6. CASE GenerateUpdates(s)
  <2> DEFINE state == [Idle EXCEPT !.phase = "updResponse", !.upd = doc[s[2]] \ session[s].vec,
                                   !.vec = doc[s[2]]]
  <2>1. Becomes(s, state)
    BY <1>6 DEF GenerateUpdates
  <2>2. state.phase \notin {"readI", "readR", "copyToR", "copyToI"}
    BY DEF Idle, SessionState
  <2> HIDE DEF state
  <2> QED BY <2>1, <2>2, KeepsReady
<1>7. CASE ReadForMerge(s)
  <2> DEFINE state == [session[s] EXCEPT !.phase = "applyI",
                                         !.base = doc[s[1]] \cup session[s].upd]
  <2>1. Becomes(s, state)
    BY <1>7 DEF ReadForMerge
  <2>2. state.phase \notin {"readI", "readR", "copyToR", "copyToI"}
    BY DEF Idle, SessionState
  <2> HIDE DEF state
  <2> QED BY <2>1, <2>2, KeepsReady
<1>8. CASE WriteMerged(s)
  <2> DEFINE state == [session[s] EXCEPT !.phase = "mergedI"]
  <2>1. Becomes(s, state)
    BY <1>8 DEF WriteMerged
  <2>2. state.phase \notin {"readI", "readR", "copyToR", "copyToI"}
    BY DEF Idle, SessionState
  <2> HIDE DEF state
  <2> QED BY <2>1, <2>2, KeepsReady
<1>9. CASE SendFinal(s)
  <2> DEFINE state == [Idle EXCEPT !.phase = "final", !.upd = session[s].base \ session[s].vec,
                                   !.rows = clk[s[1]]]
  <2>1. Becomes(s, state)
    BY <1>9 DEF SendFinal
  <2>2. state.phase \notin {"readI", "readR", "copyToR", "copyToI"}
    BY DEF Idle, SessionState
  <2> HIDE DEF state
  <2> QED BY <2>1, <2>2, KeepsReady
<1>10. CASE ReadForFinal(s)
  <2> DEFINE state == [session[s] EXCEPT !.phase = "applyR",
                                         !.base = doc[s[2]] \cup session[s].upd]
  <2>1. Becomes(s, state)
    BY <1>10 DEF ReadForFinal
  <2>2. state.phase \notin {"readI", "readR", "copyToR", "copyToI"}
    BY DEF Idle, SessionState
  <2> HIDE DEF state
  <2> QED BY <2>1, <2>2, KeepsReady
<1>11. CASE WriteFinal(s)
  <2> DEFINE state == [session[s] EXCEPT !.phase = "mergedR"]
  <2>1. Becomes(s, state)
    BY <1>11 DEF WriteFinal
  <2>2. state.phase \notin {"readI", "readR", "copyToR", "copyToI"}
    BY DEF Idle, SessionState
  <2> HIDE DEF state
  <2> QED BY <2>1, <2>2, KeepsReady
<1>12. CASE ReadClocks(s)
  <2> DEFINE state == [Idle EXCEPT !.phase = "clocksR", !.rows = session[s].rows,
                                   !.local = clk[s[2]]]
  <2>1. Becomes(s, state)
    BY <1>12 DEF ReadClocks
  <2>2. state.phase \notin {"readI", "readR", "copyToR", "copyToI"}
    BY DEF Idle, SessionState
  <2> HIDE DEF state
  <2> QED BY <2>1, <2>2, KeepsReady
<1>13. CASE MergeClocks(s)
  <2> DEFINE state == [Idle EXCEPT !.phase = "clockResponse",
                                   !.rows = UpdateRemote(session[s].local, session[s].rows),
                                   !.add = AddRemote(session[s].local, session[s].rows)]
  <2>1. Becomes(s, Idle) \/ Becomes(s, state)
    BY <1>13 DEF MergeClocks
  <2>2. \A p \in {state.phase, Idle.phase} : p \notin {"readI", "readR", "copyToR", "copyToI"}
    BY DEF Idle
  <2> HIDE DEF state
  <2> QED BY <2>1, <2>2, KeepsReady
<1>14. CASE ReceiveCopy(s) \/ AcceptClocks(s)
  <2>1. Becomes(s, Idle)
    BY <1>14 DEF ReceiveCopy, AcceptClocks
  <2>2. Idle.phase = "idle"
    BY DEF Idle
  <2> QED BY <2>1, <2>2, KeepsReady
<1> QED
  BY <1>1, <1>2, <1>3, <1>4, <1>5, <1>6, <1>7, <1>8, <1>9, <1>10, <1>11, <1>12, <1>13, <1>14 DEF Protocol

\* The other steps leave the sessions alone or end them.
LEMMA OtherReady ==
    ASSUME Typed, CopyReady, RowsStay,
           \/ \E d \in Device : Editing(d) \/ Crash(d)
           \/ \E s \in Session : Drop(s) \/ HandlerFails(s)
    PROVE  CopyReady'
<1>1. Idle.phase = "idle"
  BY DEF Idle
<1>2. ASSUME UNCHANGED session
      PROVE  CopyReady'
  BY <1>2, SessionEnds DEF CopyReady, RowsStay, HasRow
<1>3. ASSUME NEW d \in Device, Editing(d)
      PROVE  UNCHANGED session
  BY <1>3 DEF Editing, Load, Show, Close, TakeUpdates, SaveTake, SaveWrite, SaveIncrement, Share
<1>4. ASSUME NEW d \in Device, Crash(d)
      PROVE  CopyReady'
  <2>1. session' = [s \in Session |-> IF d \in Ends(s) THEN Idle ELSE session[s]]
    BY <1>4 DEF Crash
  <2>2. \A s \in Session : session'[s] = session[s] \/ session'[s].phase = "idle"
    BY <1>1, <2>1
  <2> QED BY <2>2, SessionEnds DEF CopyReady, RowsStay, HasRow
<1>5. ASSUME NEW s \in Session, Drop(s) \/ HandlerFails(s)
      PROVE  CopyReady'
  BY <1>1, <1>5, KeepsReady DEF Drop, HandlerFails
<1> QED BY <1>2, <1>3, <1>4, <1>5

\* A step that gives a device the resource gives it a row of its own.
LEMMA HolderGetsRow ==
    ASSUME Typed, CopyReady, OwnRowPresent, RowsStay, Next
    PROVE  OwnRowPresent'
<1> USE SessionEnds, SessionFields
<1>1. ASSUME UNCHANGED has
      PROVE  OwnRowPresent'
  BY <1>1 DEF OwnRowPresent, RowsStay, HasRow
<1>2. ASSUME NEW s \in Session, ReceiveCopy(s)
      PROVE  OwnRowPresent'
  <2> DEFINE d == Receiver(s)
             copy == [e \in Device |-> IF HasRow(clk[d], e) THEN clk[d][e]
                                       ELSE session[s].rows[e]]
  <2>1. d \in Device /\ has' = [has EXCEPT ![d] = TRUE]
    BY <1>2 DEF ReceiveCopy, Sender, Receiver
  <2>2. HasRow(session[s].rows, d)
    BY <1>2 DEF ReceiveCopy, Sender, Receiver, CopyReady
  <2>3. clk' = [clk EXCEPT ![d] = copy] \/ (has[d] /\ clk' = clk)
    BY <1>2 DEF ReceiveCopy
  <2>4. HasRow(copy, d)
    BY <2>1, <2>2 DEF HasRow
  <2> HIDE DEF d, copy
  <2>5. HasRow(clk'[d], d)
    BY <2>1, <2>3, <2>4 DEF OwnRowPresent, Typed, TypeOK
  <2>6. \A e \in Device : e # d => has'[e] = has[e]
    BY <2>1 DEF Typed, TypeOK
  <2> QED BY <2>5, <2>6 DEF OwnRowPresent, RowsStay, HasRow
<1>3. ASSUME NEW d \in Device, Editing(d) \/ Crash(d)
      PROVE  UNCHANGED has
  BY <1>3 DEF Editing, Load, Show, Close, TakeUpdates, SaveTake, SaveWrite, SaveIncrement,
              Share, Crash
<1>4. ASSUME NEW s \in Session, StartSync(s) \/ Drop(s) \/ HandlerFails(s)
      PROVE  UNCHANGED has
  BY <1>4 DEF StartSync, Drop, HandlerFails, device
<1>5. ASSUME NEW s \in Session, Protocol(s), ~ReceiveCopy(s)
      PROVE  UNCHANGED has
  BY <1>5 DEF Protocol, CompareManifests, ReadCopy, SendCopy, RequestUpdates, GenerateUpdates,
              ReadForMerge, WriteMerged, SendFinal, ReadForFinal, WriteFinal, ReadClocks,
              MergeClocks, AcceptClocks, device
<1> QED BY <1>1, <1>2, <1>3, <1>4, <1>5 DEF Next

\* A device that holds the resource always has a row of its own, whatever is
\* lost, fails or crashes: the first step of a hand-over makes it, no write
\* removes a row, and a copy never comes without it.
THEOREM HoldersHaveRows == Spec => []OwnRowPresent
<1>1. Init => Typed /\ CopyReady /\ OwnRowPresent
  <2>1. Init => CopyReady
    BY DEF Init, CopyReady, Idle
  <2>2. Init => OwnRowPresent
    <3> SUFFICES ASSUME Init, NEW d \in Device, has[d] PROVE HasRow(clk[d], d)
      BY DEF OwnRowPresent
    <3>1. has[d] = (d \in Holder)
      BY Zenon DEF Init
    <3>2. clk[d][d] \in {0, 1}
      BY <3>1 DEF Init
    <3> QED BY <3>2 DEF HasRow, Absent
  <2> QED BY <2>1, <2>2, InitTyped
<1>2. Typed /\ CopyReady /\ OwnRowPresent /\ [Next]_vars
        => (Typed /\ CopyReady /\ OwnRowPresent)'
  <2> SUFFICES ASSUME Typed, CopyReady, OwnRowPresent, [Next]_vars
               PROVE  CopyReady' /\ OwnRowPresent'
    BY StepTyped
  <2>1. RowsStay
    BY StepKeepsRows
  <2>2. CASE Next
    BY <2>1, <2>2, SessionReady, OtherReady, HolderGetsRow DEF Next
  <2>3. CASE UNCHANGED vars
    BY <2>3 DEF vars, CopyReady, OwnRowPresent, HasRow
  <2> QED BY <2>2, <2>3
<1> QED BY <1>1, <1>2, PTL DEF Spec
=============================================================================
