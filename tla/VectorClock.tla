---------------------------- MODULE VectorClock ----------------------------
(***************************************************************************)
(* The vector clock of one resource: core/src/models/vector_clock.rs, the  *)
(* comparison in services/src/sync_service.rs and the table write in       *)
(* persistance/src/repositories/vector_clock_repository.rs.                *)
(*                                                                         *)
(* The rows (resource_id, device_id, clock_value) of one resource form a   *)
(* table: a function from devices to a value, or Absent where the device   *)
(* has no row.  UNIQUE (resource_id, device_id) makes it a function.  A    *)
(* list of rows carried by a message has the same form.                    *)
(***************************************************************************)
EXTENDS Integers

CONSTANT Device

\* "No row": below every clock value, so that a row wins over its absence.
Absent == -1

Clock == Nat \cup {Absent}

Table == [Device -> Clock]

NoRows == [d \in Device |-> Absent]

HasRow(table, d) == table[d] # Absent

Rows(table) == {d \in Device : HasRow(table, d)}

----------------------------------------------------------------------------
\* ResourceVectorClock::merge(local, remote) returns four lists of rows.

\* Rows both sides have, the remote one higher.
UpdateLocal(local, remote) ==
    [d \in Device |-> IF d \in Rows(local) /\ remote[d] > local[d]
                      THEN remote[d] ELSE Absent]

\* Variant: every remote row is an insert.
AddLocalAll(local, remote) == remote

\* Rows only the remote side has.
AddLocal(local, remote) ==
    [d \in Device |-> IF d \notin Rows(local) THEN remote[d] ELSE Absent]

\* Variant: the direction of the comparison is lost.
UpdateRemoteDiffering(local, remote) ==
    [d \in Device |-> IF d \in Rows(remote) /\ local[d] # remote[d]
                      THEN local[d] ELSE Absent]

\* Rows both sides have, the local one higher.
UpdateRemote(local, remote) ==
    [d \in Device |-> IF d \in Rows(remote) /\ local[d] > remote[d]
                      THEN local[d] ELSE Absent]

\* Rows only the local side has.
AddRemote(local, remote) ==
    [d \in Device |-> IF d \notin Rows(remote) THEN local[d] ELSE Absent]

\* local_needs_update
LocalNeedsUpdate(local, remote) ==
    \E d \in Rows(remote) : d \notin Rows(local) \/ remote[d] > local[d]

----------------------------------------------------------------------------
\* Variant: rows only the remote side has are forgotten.
NeedsUpdateLocalRows(local, remote) ==
    \/ \E d \in Rows(local) : d \notin Rows(remote)
    \/ \E d \in Rows(local) \cap Rows(remote) : local[d] # remote[d]

\* vector_clocks_need_update of the manifest comparison.
NeedsUpdate(local, remote) ==
    \/ \E d \in Rows(local) : d \notin Rows(remote)
    \/ \E d \in Rows(remote) : d \notin Rows(local)
    \/ \E d \in Rows(local) \cap Rows(remote) : local[d] # remote[d]

----------------------------------------------------------------------------
\* update_vector_clocks(update, add): one transaction.  An UPDATE touches
\* only rows that exist and stores the given value whatever the old one was;
\* the INSERT of a row that exists breaks UNIQUE and aborts everything.

CanAdd(table, add) == Rows(add) \cap Rows(table) = {}

WriteRows(table, update, add) ==
    [d \in Device |->
        IF d \in Rows(add) THEN add[d]
        ELSE IF d \in Rows(update) \cap Rows(table) THEN update[d]
        ELSE table[d]]

\* increment_vector_clock: +1, or a first row with value 1.
Increment(table, d) ==
    [table EXCEPT ![d] = IF HasRow(table, d) THEN @ + 1 ELSE 1]

\* save_vector_clock / create_entries_for_sharing: a 0 row unless there is one.
ZeroRow(table, d) ==
    [table EXCEPT ![d] = IF HasRow(table, d) THEN @ ELSE 0]
=============================================================================
