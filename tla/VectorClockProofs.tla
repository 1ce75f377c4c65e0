------------------------- MODULE VectorClockProofs -------------------------
(***************************************************************************)
(* The clock merge for every set of devices and all tables.                *)
(***************************************************************************)
EXTENDS VectorClockMerge, TLAPS

\* Both sides write the higher value of every row: what one side sends as an
\* update or an addition is exactly what the other side does not have.
LEMMA MergeHigher ==
    ASSUME NEW l \in Table, NEW t \in Table
    PROVE  /\ ResponderTable(l, t) = Higher(t, l)
           /\ InitiatorTable(l, t) = Higher(t, l)
<1>1. \A d \in Device : l[d] \in Clock /\ t[d] \in Clock
  BY DEF Table
<1> USE DEF WriteRows, Rows, HasRow, Clock, Absent
<1>2. ASSUME NEW d \in Device
      PROVE  ResponderTable(l, t)[d] = Higher(t, l)[d]
  BY <1>1 DEF ResponderTable, UpdateLocal, AddLocal, Higher
<1>3. ASSUME NEW d \in Device
      PROVE  InitiatorTable(l, t)[d] = Higher(t, l)[d]
  BY <1>1 DEF InitiatorTable, UpdateRemote, AddRemote, Higher
<1>4. /\ ResponderTable(l, t) = [d \in Device |-> ResponderTable(l, t)[d]]
      /\ InitiatorTable(l, t) = [d \in Device |-> InitiatorTable(l, t)[d]]
      /\ Higher(t, l) = [d \in Device |-> Higher(t, l)[d]]
  BY DEF ResponderTable, InitiatorTable, Higher
<1> QED BY <1>2, <1>3, <1>4

\* What the merge adds to a side is not there yet.
LEMMA MergeAdds ==
    ASSUME NEW l \in Table, NEW t \in Table
    PROVE  CanAdd(l, AddLocal(l, t)) /\ CanAdd(t, AddRemote(l, t))
BY DEF CanAdd, AddLocal, AddRemote, Rows, HasRow

\* The comparison of two manifests is inequality of the tables.
LEMMA CompareTables ==
    ASSUME NEW l \in Table, NEW t \in Table
    PROVE  /\ NeedsUpdate(l, t) <=> l # t
           /\ LocalNeedsUpdate(l, t) <=> l # Higher(t, l)
           /\ l # t <=> t # Higher(t, l) \/ l # Higher(t, l)
<1>1. \A d \in Device : l[d] \in Clock /\ t[d] \in Clock
  BY DEF Table
<1>2. /\ l = [d \in Device |-> l[d]] /\ t = [d \in Device |-> t[d]]
      /\ Higher(t, l) = [d \in Device |-> Higher(t, l)[d]]
      /\ \A d \in Device : Higher(t, l)[d] = IF t[d] < l[d] THEN l[d] ELSE t[d]
  BY DEF Table, Higher
<1>3. NeedsUpdate(l, t) <=> \E d \in Device : l[d] # t[d]
  BY <1>1 DEF NeedsUpdate, Rows, HasRow
<1>4. LocalNeedsUpdate(l, t) <=> \E d \in Device : t[d] > l[d]
  <2>1. \A d \in Device :
           (t[d] # Absent /\ (l[d] = Absent \/ t[d] > l[d])) <=> t[d] > l[d]
    <3> SUFFICES ASSUME NEW d \in Device
                 PROVE  (t[d] # Absent /\ (l[d] = Absent \/ t[d] > l[d])) <=> t[d] > l[d]
      OBVIOUS
    <3>1. t[d] \in Clock /\ l[d] \in Clock
      BY <1>1
    <3> QED BY <3>1 DEF Clock, Absent
  <2>2. LocalNeedsUpdate(l, t) <=>
           \E d \in Device : t[d] # Absent /\ (l[d] = Absent \/ t[d] > l[d])
    BY DEF LocalNeedsUpdate, Rows, HasRow
  <2> QED BY <2>1, <2>2
<1>5. (\E d \in Device : t[d] > l[d]) <=> l # Higher(t, l)
  <2>1. \A d \in Device : t[d] > l[d] <=> l[d] # Higher(t, l)[d]
    <3> SUFFICES ASSUME NEW d \in Device
                 PROVE  t[d] > l[d] <=> l[d] # Higher(t, l)[d]
      OBVIOUS
    <3>1. t[d] \in Clock /\ l[d] \in Clock
      BY <1>1
    <3>2. Higher(t, l)[d] = IF t[d] < l[d] THEN l[d] ELSE t[d]
      BY <1>2
    <3> QED BY <3>1, <3>2 DEF Clock, Absent
  <2>2. (\E d \in Device : l[d] # Higher(t, l)[d]) <=> l # Higher(t, l)
    BY <1>2
  <2> QED BY <2>1, <2>2
<1>6. (\E d \in Device : l[d] # t[d]) <=> l # t
  BY <1>2
<1>7. l # t <=> t # Higher(t, l) \/ l # Higher(t, l)
  BY <1>1, <1>2 DEF Clock, Absent
<1> QED BY <1>3, <1>4, <1>5, <1>6, <1>7

Before == before.i \in Table /\ before.r \in Table

LEMMA BeforeTables == Spec => []Before
<1>1. Init => Before
  <2>1. SmallTable \subseteq Table
    BY MaxClockAssumption DEF SmallTable, Table, Clock, Absent
  <2> QED BY <2>1 DEF Init, Before
<1>2. Before /\ [Next]_<<before, after>> => Before'
  BY DEF Before, Next, MergeTables
<1> QED BY <1>1, <1>2, PTL DEF Spec

\* A merge that nothing interrupts leaves the same, higher table on both
\* sides, for any number of devices and any values.
THEOREM MergeCorrect == Spec => []MergeIsHigher
<1>1. Init => MergeIsHigher
  BY DEF Init, MergeIsHigher
<1>2. Before /\ MergeIsHigher /\ [Next]_<<before, after>> => MergeIsHigher'
  <2> SUFFICES ASSUME Before, MergeIsHigher, [Next]_<<before, after>> PROVE MergeIsHigher'
    OBVIOUS
  <2>1. CASE UNCHANGED <<before, after>>
    BY <2>1 DEF MergeIsHigher
  <2>2. CASE Next
    <3>1. /\ UNCHANGED before
          /\ after' = [i |-> InitiatorTable(before.r, before.i),
                       r |-> ResponderTable(before.r, before.i)]
      BY <2>2 DEF Next, MergeTables
    <3>2. /\ InitiatorTable(before.r, before.i) = Higher(before.i, before.r)
          /\ ResponderTable(before.r, before.i) = Higher(before.i, before.r)
      BY MergeHigher DEF Before
    <3> QED BY <3>1, <3>2 DEF MergeIsHigher
  <2> QED BY <2>1, <2>2
<1> QED BY <1>1, <1>2, BeforeTables, PTL DEF Spec

\* The UNIQUE key on a resource's rows never aborts such a merge: neither side
\* is told to insert a row that it has.
THEOREM MergeIsWritten == Spec => []MergeNeverAborts
<1>1. Before => MergeNeverAborts
  BY MergeAdds DEF Before, MergeNeverAborts
<1> QED BY <1>1, BeforeTables, PTL

\* A merge is asked for exactly when it would change a table.
THEOREM CompareIsRight == Spec => []CompareIsExact
<1>1. Before => CompareIsExact
  BY CompareTables DEF Before, CompareIsExact
<1> QED BY <1>1, BeforeTables, PTL
=============================================================================
