---------------------------- MODULE ResourceSync ----------------------------
(***************************************************************************)
(* One shared resource (a note or a chat) kept by several devices: saving  *)
(* it, handing it to a device that lacks it, and merging two copies.       *)
(*                                                                         *)
(*   network/src/p2p/resource_sync.rs   the handlers of the merge          *)
(*   services/src/resource_service.rs   what they read and write           *)
(*   services/src/sync_service.rs       manifests, hand-over of a copy     *)
(*   persistance/src/repositories/      the tables, one action per access  *)
(*                                                                         *)
(* A Yjs document is the set of edits it contains, its state vector the    *)
(* same set, a diff the difference, applying an update the union.  The     *)
(* n-th save of device d adds the edit <<d, n>>.                           *)
(*                                                                         *)
(* A session <<i, r, k>> is one manifest exchange and merge on the         *)
(* connection that i opened to r.  Several k share one connection: the     *)
(* protocol repeats its tail, so merges of one resource do overlap there.  *)
(* A connection delivers to one handler at a time at either end.           *)
(***************************************************************************)
EXTENDS VectorClock, FiniteSets

CONSTANTS
    Session,    \* the sessions that may run: <<initiator, responder, number>>
    Creator,    \* the device that created the resource
    Holder,     \* the devices that start with a copy
    Author,     \* the devices on which the resource is opened and edited
    MaxSaves,   \* bound: saves per device, the creation counted
    Faults,     \* what may happen: see below
    MaxFaults   \* bound: how many faults of the kinds drop, error, crash

(***************************************************************************)
(* "overlap": a device may save or take part in other connections' merges  *)
(*            while one of its merges runs; without it, it does not;       *)
(* "drop":    a connection is lost with the message it carries;            *)
(* "error":   a handler returns an error between two of its steps (a       *)
(*            database error, a failed send, a rejected key or token);     *)
(* "crash":   a device stops and restarts with what its database holds.    *)
(***************************************************************************)
ASSUME SessionAssumption ==
    Session \subseteq {s \in Device \X Device \X Nat : s[1] # s[2]}
ASSUME HolderAssumption == Creator \in Holder /\ Holder \subseteq Device
ASSUME AuthorAssumption == Author \subseteq Device
ASSUME BoundAssumption == MaxSaves \in Nat \ {0} /\ MaxFaults \in Nat
ASSUME FaultAssumption == Faults \subseteq {"overlap", "drop", "error", "crash"}

VARIABLES
    has,      \* device -> does its database hold the resource
    doc,      \* device -> resources.data, the persisted document
    clk,      \* device -> its resource_vector_clocks rows
    view,     \* device -> is the resource in its editor: closed, loading, shown
    editor,   \* device -> the document the editor holds
    inbox,    \* device -> updates emitted to the front end, not yet handled
    save,     \* device -> the save under way, if any
    issued,   \* device -> how many saves it has written (history)
    session,  \* session -> where it stands and what it carries
    faults    \* faults so far (bound)

device == <<has, doc, clk, view, editor, inbox, save, issued>>
vars == <<has, doc, clk, view, editor, inbox, save, issued, session, faults>>

Edit == Device \X (1 .. MaxSaves)

SaveState == [step : {"none", "taken", "written"}, data : SUBSET Edit]

NoSave == [step |-> "none", data |-> {}]

\* Phases in which a message, or the protocol between two messages, is
\* under way; phases in which i's, and in which r's, handler is half-way.
InFlight == {"manifest", "agreed", "toI", "toR", "copyToI", "copyToR",
             "svRequest", "updResponse", "final", "clockResponse"}
AtInitiator == {"readI", "applyI", "mergedI"}
AtResponder == {"readR", "applyR", "mergedR", "clocksR"}
Phase == {"idle"} \cup InFlight \cup AtInitiator \cup AtResponder

SessionState ==
    [phase : Phase,
     vec   : SUBSET Edit,   \* the state vector carried
     upd   : SUBSET Edit,   \* the updates carried
     base  : SUBSET Edit,   \* the document a handler holds in memory
     rows  : Table,         \* clock rows carried (update_clock in a response)
     add   : Table,         \* add_clock of a response
     local : Table]         \* the local rows merge_vector_clocks has read

Idle == [phase |-> "idle", vec |-> {}, upd |-> {}, base |-> {},
         rows |-> NoRows, add |-> NoRows, local |-> NoRows]

TypeOK ==
    /\ has \in [Device -> BOOLEAN]
    /\ doc \in [Device -> SUBSET Edit]
    /\ clk \in [Device -> Table]
    /\ view \in [Device -> {"closed", "loading", "shown"}]
    /\ editor \in [Device -> SUBSET Edit]
    /\ inbox \in [Device -> SUBSET SUBSET Edit]
    /\ save \in [Device -> SaveState]
    /\ issued \in [Device -> 0 .. MaxSaves]
    /\ session \in [Session -> SessionState]
    /\ faults \in 0 .. MaxFaults

----------------------------------------------------------------------------
Busy(s) == session[s].phase # "idle"

\* The session goes on in the given state.
Becomes(s, state) == session' = [session EXCEPT ![s] = state]

Conn(s) == <<s[1], s[2]>>

Ends(s) == {s[1], s[2]}

\* The message handler of device d on the connection of s is free: it takes
\* the next message only after process_message has returned.
Free(s, d) ==
    \A t \in Session :
        Conn(t) = Conn(s) =>
            session[t].phase \notin
                (IF d = s[1] THEN AtInitiator ELSE AtResponder)

Overlap == "overlap" \in Faults

\* Without overlap: no other connection's session runs on an end of s, and
\* neither end is saving or loading.
MayStart(s) ==
    Overlap \/ /\ \A t \in Session :
                      Busy(t) /\ Ends(t) \cap Ends(s) # {} => Conn(t) = Conn(s)
               /\ \A d \in Ends(s) : save[d] = NoSave /\ view[d] # "loading"

\* Without overlap: loading and saving find no session, save or event on d.
MayEdit(d) ==
    Overlap \/ /\ \A t \in Session : d \in Ends(t) => ~Busy(t)
               /\ save[d] = NoSave /\ inbox[d] = {}

Init ==
    /\ has = [d \in Device |-> d \in Holder]
    /\ doc = [d \in Device |-> IF d \in Holder THEN {<<Creator, 1>>} ELSE {}]
    /\ clk = [d \in Device |->
                 IF d \in Holder
                 THEN [e \in Device |-> IF e = Creator THEN 1
                                        ELSE IF e \in Holder THEN 0 ELSE Absent]
                 ELSE NoRows]
    /\ view = [d \in Device |-> "closed"]
    /\ editor = [d \in Device |-> {}]
    /\ inbox = [d \in Device |-> {}]
    /\ save = [d \in Device |-> NoSave]
    /\ issued = [d \in Device |-> IF d = Creator THEN 1 ELSE 0]
    /\ session = [s \in Session |-> Idle]
    /\ faults = 0

----------------------------------------------------------------------------
(* The editor and the save.                                                *)

\* switchNote: getCredential reads what the database holds ...
Load(d) ==
    /\ d \in Author
    /\ has[d] /\ view[d] = "closed"
    /\ MayEdit(d)
    /\ view' = [view EXCEPT ![d] = "loading"]
    /\ editor' = [editor EXCEPT ![d] = doc[d]]
    /\ UNCHANGED <<has, doc, clk, inbox, save, issued, session, faults>>

\* ... and only its answer makes the resource the current one.
Show(d) ==
    /\ view[d] = "loading"
    /\ view' = [view EXCEPT ![d] = "shown"]
    /\ UNCHANGED <<has, doc, clk, editor, inbox, save, issued, session, faults>>

\* The editor leaves the resource; a save it fired before goes on.
Close(d) ==
    /\ view[d] = "shown"
    /\ view' = [view EXCEPT ![d] = "closed"]
    /\ editor' = [editor EXCEPT ![d] = {}]
    /\ UNCHANGED <<has, doc, clk, inbox, save, issued, session, faults>>

\* Variant: the event is handled without touching the editor.
TakeUpdatesIgnored(d) ==
    /\ \E u \in inbox[d] : inbox' = [inbox EXCEPT ![d] = @ \ {u}]
    /\ UNCHANGED <<has, doc, clk, view, editor, save, issued, session, faults>>

\* handleDocumentUpdates: an UpdatesEvent counts only for the current resource.
TakeUpdates(d) ==
    /\ \E u \in inbox[d] :
          /\ editor' = [editor EXCEPT ![d] = IF view[d] = "shown" THEN @ \cup u ELSE @]
          /\ inbox' = [inbox EXCEPT ![d] = @ \ {u}]
    /\ UNCHANGED <<has, doc, clk, view, save, issued, session, faults>>

\* saveNote: the editor's whole document, with the new edit, is the payload
\* of handle_update_resource.
SaveTake(d) ==
    /\ view[d] = "shown" /\ save[d] = NoSave
    /\ issued[d] < MaxSaves
    /\ MayEdit(d)
    /\ LET data == editor[d] \cup {<<d, issued[d] + 1>>}
       IN  /\ editor' = [editor EXCEPT ![d] = data]
           /\ save' = [save EXCEPT ![d] = [step |-> "taken", data |-> data]]
    /\ UNCHANGED <<has, doc, clk, view, inbox, issued, session, faults>>

\* Variant: nothing records that the write is done.
SaveWriteAgain(d) ==
    /\ save[d].step = "taken"
    /\ doc' = [doc EXCEPT ![d] = save[d].data]
    /\ issued' = [issued EXCEPT ![d] = @ + 1]
    /\ UNCHANGED <<has, clk, view, editor, inbox, save, session, faults>>

\* Variant: the save ends without its increment.
SaveWriteUncounted(d) ==
    /\ save[d].step = "taken"
    /\ doc' = [doc EXCEPT ![d] = save[d].data]
    /\ issued' = [issued EXCEPT ![d] = @ + 1]
    /\ save' = [save EXCEPT ![d] = NoSave]
    /\ UNCHANGED <<has, clk, view, editor, inbox, session, faults>>

\* update_resource: the payload replaces resources.data ...
SaveWrite(d) ==
    /\ save[d].step = "taken"
    /\ doc' = [doc EXCEPT ![d] = save[d].data]
    /\ issued' = [issued EXCEPT ![d] = @ + 1]
    /\ save' = [save EXCEPT ![d].step = "written"]
    /\ UNCHANGED <<has, clk, view, editor, inbox, session, faults>>

\* Variant: the increment does not wait for the write.
SaveIncrementEarly(d) ==
    /\ save[d].step # "none"
    /\ clk' = [clk EXCEPT ![d] = Increment(@, d)]
    /\ save' = [save EXCEPT ![d] = NoSave]
    /\ UNCHANGED <<has, doc, view, editor, inbox, issued, session, faults>>

\* ... and another transaction increments the device's own clock row.
SaveIncrement(d) ==
    /\ save[d].step = "written"
    /\ clk' = [clk EXCEPT ![d] = Increment(@, d)]
    /\ save' = [save EXCEPT ![d] = NoSave]
    /\ UNCHANGED <<has, doc, view, editor, inbox, issued, session, faults>>

\* share_resource: a 0 row for a device of the new recipient.
Share(d, e) ==
    /\ has[d] /\ ~HasRow(clk[d], e)
    /\ clk' = [clk EXCEPT ![d] = ZeroRow(@, e)]
    /\ UNCHANGED <<has, doc, view, editor, inbox, save, issued, session, faults>>

----------------------------------------------------------------------------
(* The manifest exchange of a connection.                                  *)

\* start_user_network_sync: i sends its manifest, which lists the resource
\* with its clock rows if i holds it.
StartSync(s) ==
    LET i == s[1] IN
    /\ ~Busy(s) /\ MayStart(s)
    /\ Becomes(s, [Idle EXCEPT !.phase = "manifest", !.rows = clk[i]])
    /\ UNCHANGED <<device, faults>>

Listed(manifest) == manifest # NoRows

\* process_user_manifest_request at r: the resource is unknown to one side,
\* or common and compared by clock.
CompareManifests(s) ==
    LET r == s[2]
        manifest == session[s].rows IN
    /\ session[s].phase = "manifest" /\ Free(s, r)
    /\ Becomes(s, [Idle EXCEPT !.phase =
          IF has[r] /\ Listed(manifest)
          THEN IF NeedsUpdate(clk[r], manifest) THEN "agreed" ELSE "idle"
          ELSE IF has[r] THEN "toI"
          ELSE IF Listed(manifest) THEN "toR" ELSE "idle"])
    /\ UNCHANGED <<device, faults>>

----------------------------------------------------------------------------
(* Handing the resource to the side that lacks it.                         *)

Sender(s) == IF session[s].phase \in {"toR", "readI", "copyToR"} THEN s[1] ELSE s[2]
Receiver(s) == IF Sender(s) = s[1] THEN s[2] ELSE s[1]

\* Variant: the receiving device is given no row.
ReadCopyNoRow(s) ==
    LET d == Sender(s) IN
    /\ session[s].phase \in {"toI", "toR"} /\ Free(s, d)
    /\ Becomes(s, [Idle EXCEPT !.phase = IF d = s[1] THEN "readI" ELSE "readR",
                               !.base = doc[d]])
    /\ UNCHANGED <<device, faults>>

\* get_resource_for_remote_addition: a 0 row for the receiving device, then
\* the first query of get_resource_sync_data reads the resource ...
ReadCopy(s) ==
    LET d == Sender(s) IN
    /\ session[s].phase \in {"toI", "toR"} /\ Free(s, d)
    /\ clk' = [clk EXCEPT ![d] = ZeroRow(@, Receiver(s))]
    /\ Becomes(s, [Idle EXCEPT !.phase = IF d = s[1] THEN "readI" ELSE "readR",
                               !.base = doc[d]])
    /\ UNCHANGED <<has, doc, view, editor, inbox, save, issued, faults>>

\* ... and the last one its clock rows; ResourceAdditionRequest is sent.
SendCopy(s) ==
    LET d == Sender(s) IN
    /\ session[s].phase \in {"readI", "readR"}
    /\ Becomes(s, [Idle EXCEPT !.phase = IF d = s[1] THEN "copyToR" ELSE "copyToI",
                               !.upd = session[s].base,
                               !.rows = clk[d]])
    /\ UNCHANGED <<device, faults>>

\* process_resource_addition_request: one transaction that leaves a present
\* resource alone.  A row whose id is known is left alone; one with another
\* id for the same device breaks UNIQUE and rolls everything back, and
\* whether two devices created the same row independently is left open.
ReceiveCopy(s) ==
    LET d == Receiver(s)
        copy == session[s] IN
    /\ copy.phase \in {"copyToI", "copyToR"} /\ Free(s, d)
    /\ has' = [has EXCEPT ![d] = TRUE]
    /\ doc' = [doc EXCEPT ![d] = IF has[d] THEN @ ELSE copy.upd]
    /\ clk' \in {[clk EXCEPT ![d] = [e \in Device |->
                     IF HasRow(@, e) THEN @[e] ELSE copy.rows[e]]]}
                \cup (IF has[d] THEN {clk} ELSE {})
    /\ Becomes(s, Idle)
    /\ UNCHANGED <<view, editor, inbox, save, issued, faults>>

----------------------------------------------------------------------------
(* The merge: StateVectorRequest, UpdatesResponse, FinalUpdateMerge and    *)
(* VectorClockResponse.                                                    *)

\* process_resource_addition_complete at i: the state vector of its copy.
RequestUpdates(s) ==
    LET i == s[1] IN
    /\ session[s].phase = "agreed" /\ Free(s, i)
    /\ Becomes(s, [Idle EXCEPT !.phase = "svRequest", !.vec = doc[i]])
    /\ UNCHANGED <<device, faults>>

\* Variant: the state vector of the request is sent back.
GenerateUpdatesEcho(s) ==
    LET r == s[2] IN
    /\ session[s].phase = "svRequest" /\ Free(s, r)
    /\ Becomes(s, [session[s] EXCEPT !.phase = "updResponse",
                                     !.upd = doc[r] \ session[s].vec])
    /\ UNCHANGED <<device, faults>>

\* StateVectorRequest at r: what i lacks, and r's own state vector.
GenerateUpdates(s) ==
    LET r == s[2] IN
    /\ session[s].phase = "svRequest" /\ Free(s, r)
    /\ Becomes(s, [Idle EXCEPT !.phase = "updResponse",
                               !.upd = doc[r] \ session[s].vec,
                               !.vec = doc[r]])
    /\ UNCHANGED <<device, faults>>

\* UpdatesResponse at i, apply_updates_and_get_peer_updates: read and merge
\* in memory ...
ReadForMerge(s) ==
    LET i == s[1] IN
    /\ session[s].phase = "updResponse" /\ Free(s, i)
    /\ Becomes(s, [session[s] EXCEPT !.phase = "applyI",
                                     !.base = doc[i] \cup session[s].upd])
    /\ UNCHANGED <<device, faults>>

\* ... write the merged document ...
WriteMerged(s) ==
    LET i == s[1] IN
    /\ session[s].phase = "applyI"
    /\ doc' = [doc EXCEPT ![i] = session[s].base]
    /\ Becomes(s, [session[s] EXCEPT !.phase = "mergedI"])
    /\ UNCHANGED <<has, clk, view, editor, inbox, save, issued, faults>>

\* The front end is sent the updates (P2PEvent::UpdatesEvent).
Emit(d, u) == inbox' = [inbox EXCEPT ![d] = IF u = {} THEN @ ELSE @ \cup {u}]

\* ... read the clock rows, send FinalUpdateMerge and emit the updates.
SendFinal(s) ==
    LET i == s[1]
        done == session[s] IN
    /\ done.phase = "mergedI"
    /\ Becomes(s, [Idle EXCEPT !.phase = "final",
                               !.upd = done.base \ done.vec,
                               !.rows = clk[i]])
    /\ Emit(i, done.upd)
    /\ UNCHANGED <<has, doc, clk, view, editor, save, issued, faults>>

\* FinalUpdateMerge at r, apply_updates: read and merge in memory ...
ReadForFinal(s) ==
    LET r == s[2] IN
    /\ session[s].phase = "final" /\ Free(s, r)
    /\ Becomes(s, [session[s] EXCEPT !.phase = "applyR",
                                     !.base = doc[r] \cup session[s].upd])
    /\ UNCHANGED <<device, faults>>

\* Variant: only the database learns of the updates.
WriteFinalSilent(s) ==
    LET r == s[2] IN
    /\ session[s].phase = "applyR"
    /\ doc' = [doc EXCEPT ![r] = session[s].base]
    /\ Becomes(s, [session[s] EXCEPT !.phase = "mergedR"])
    /\ UNCHANGED <<has, clk, view, editor, inbox, save, issued, faults>>

\* ... write, emit the updates ...
WriteFinal(s) ==
    LET r == s[2] IN
    /\ session[s].phase = "applyR"
    /\ doc' = [doc EXCEPT ![r] = session[s].base]
    /\ Becomes(s, [session[s] EXCEPT !.phase = "mergedR"])
    /\ Emit(r, session[s].upd)
    /\ UNCHANGED <<has, clk, view, editor, save, issued, faults>>

\* ... merge_vector_clocks reads the local rows ...
ReadClocks(s) ==
    LET r == s[2] IN
    /\ session[s].phase = "mergedR"
    /\ Becomes(s, [Idle EXCEPT !.phase = "clocksR",
                               !.rows = session[s].rows,
                               !.local = clk[r]])
    /\ UNCHANGED <<device, faults>>

\* ... and writes what the merge found; VectorClockResponse takes the rest to
\* i.  A row added meanwhile aborts the write and with it the handler.
MergeClocks(s) ==
    LET r == s[2]
        local == session[s].local
        remote == session[s].rows
        update == UpdateLocal(local, remote)
        add == AddLocal(local, remote)
        written == LocalNeedsUpdate(local, remote) IN
    /\ session[s].phase = "clocksR"
    /\ IF written /\ ~CanAdd(clk[r], add)
       THEN /\ Becomes(s, Idle)
            /\ UNCHANGED clk
       ELSE /\ clk' = [clk EXCEPT ![r] =
                          IF written THEN WriteRows(@, update, add) ELSE @]
            /\ Becomes(s, [Idle EXCEPT !.phase = "clockResponse",
                                       !.rows = UpdateRemote(local, remote),
                                       !.add = AddRemote(local, remote)])
    /\ UNCHANGED <<has, doc, view, editor, inbox, save, issued, faults>>

\* VectorClockResponse at i: all its rows, or none.
AcceptClocks(s) ==
    LET i == s[1]
        reply == session[s] IN
    /\ reply.phase = "clockResponse" /\ Free(s, i)
    /\ clk' = [clk EXCEPT ![i] = IF CanAdd(@, reply.add)
                                 THEN WriteRows(@, reply.rows, reply.add) ELSE @]
    /\ Becomes(s, Idle)
    /\ UNCHANGED <<has, doc, view, editor, inbox, save, issued, faults>>

----------------------------------------------------------------------------
(* Faults.                                                                 *)

Fault(kind) ==
    /\ kind \in Faults /\ faults < MaxFaults
    /\ faults' = faults + 1

\* The connection is lost with everything under way on it.
Drop(s) ==
    /\ Fault("drop")
    /\ session[s].phase \in InFlight
    /\ Becomes(s, Idle)
    /\ UNCHANGED device

\* A handler returns an error half-way: nothing more is sent.
HandlerFails(s) ==
    /\ Fault("error")
    /\ session[s].phase \in AtInitiator \cup AtResponder
    /\ Becomes(s, Idle)
    /\ UNCHANGED device

\* d's process ends; its database stays.  A peer's handler that is running
\* is taken to finish its step before the crash.
Crash(d) ==
    /\ Fault("crash")
    /\ \A s \in Session : /\ d = s[1] => session[s].phase \notin AtResponder
                          /\ d = s[2] => session[s].phase \notin AtInitiator
    /\ view' = [view EXCEPT ![d] = "closed"]
    /\ editor' = [editor EXCEPT ![d] = {}]
    /\ inbox' = [inbox EXCEPT ![d] = {}]
    /\ save' = [save EXCEPT ![d] = NoSave]
    /\ session' = [s \in Session |-> IF d \in Ends(s) THEN Idle ELSE session[s]]
    /\ UNCHANGED <<has, doc, clk, issued>>

----------------------------------------------------------------------------
Editing(d) ==
    \/ Load(d) \/ Show(d) \/ Close(d) \/ TakeUpdates(d)
    \/ SaveTake(d) \/ SaveWrite(d) \/ SaveIncrement(d)
    \/ \E e \in Device : Share(d, e)

Protocol(s) ==
    \/ CompareManifests(s)
    \/ ReadCopy(s) \/ SendCopy(s) \/ ReceiveCopy(s)
    \/ RequestUpdates(s) \/ GenerateUpdates(s)
    \/ ReadForMerge(s) \/ WriteMerged(s) \/ SendFinal(s)
    \/ ReadForFinal(s) \/ WriteFinal(s) \/ ReadClocks(s) \/ MergeClocks(s)
    \/ AcceptClocks(s)

Next ==
    \/ \E d \in Device : Editing(d) \/ Crash(d)
    \/ \E s \in Session : StartSync(s) \/ Protocol(s) \/ Drop(s) \/ HandlerFails(s)

Spec == Init /\ [][Next]_vars

\* A handler that runs goes on, a message that is not lost is handled, an
\* event reaches the editor, a save finishes; and every pair of devices
\* connects again and again (start-up, a new connection, RetryRequest).
Fairness ==
    /\ \A d \in Device : WF_vars(Show(d)) /\ WF_vars(TakeUpdates(d))
                         /\ WF_vars(SaveWrite(d)) /\ WF_vars(SaveIncrement(d))
    /\ \A s \in Session : WF_vars(Protocol(s)) /\ SF_vars(StartSync(s))

FairSpec == Spec /\ Fairness

----------------------------------------------------------------------------
(* Properties.                                                             *)

\* A clock row never runs ahead of the saves of its device: whatever stale
\* rows the messages carry and in whatever order update_vector_clocks stores
\* them, no device believes in a save that has not happened.
KnownSavesHappened ==
    \A d, e \in Device : clk[d][e] <= issued[e]

\* The saves of e that its own row counts, or has to count before a crash.
Counted(e) == IF save[e].step = "written" THEN issued[e] - 1 ELSE issued[e]

\* Nobody knows a save that its device has written and not counted yet, not
\* even a message: this is what keeps a row that comes back to its device
\* from being incremented past the saves.
UncountedUnknown ==
    \A e \in Device :
        /\ \A d \in Device : clk[d][e] <= Counted(e)
        /\ \A s \in Session : /\ session[s].rows[e] <= Counted(e)
                               /\ session[s].add[e] <= Counted(e)
                               /\ session[s].local[e] <= Counted(e)

\* A device that holds the resource has a row of its own: the sender makes it
\* (save_vector_clock) before it reads the rows it hands over.
OwnRowPresent ==
    \A d \in Device : has[d] => HasRow(clk[d], d)

\* What a clock claims the document has: a device whose row for e says n has
\* the content of e's first n saves.  Manifests compare clocks only, so this
\* is what makes skipping a merge on equal clocks right.
ClockSound ==
    \A d, e \in Device : \A n \in 1 .. MaxSaves :
        n <= clk[d][e] => <<e, n>> \in doc[d]

\* Its own row never falls: the rows of the messages are as old as they like,
\* and update_vector_clocks stores them as they are.  One merge keeps it even
\* when the device saves meanwhile; several do while nothing overlaps.
OwnRowKept ==
    [][\A d \in Device : clk[d][d] <= clk'[d][d]]_vars

\* The databases implement Replica: every write of the save, of the hand-over
\* and of the merge is one of its steps or changes nothing.  No write takes
\* an edit away, invents one, lowers a clock row or raises it past the copy.
Replicas == INSTANCE Replica WITH doc <- doc, clk <- clk, issued <- issued
ImplementsReplica == Replicas!Spec

\* No clock row falls: core/src/models/vector_clock.rs:117-123 has a row sent
\* to a side only where the sender's value is higher.
RowsKept ==
    [][\A d, e \in Device : clk[d][e] <= clk'[d][e]]_vars

\* No save, merge, session or event is under way.
Settled ==
    /\ \A s \in Session : ~Busy(s)
    /\ \A d \in Device : save[d] = NoSave /\ inbox[d] = {}

\* When all manifests agree, so that no connection would merge anything, all
\* copies are the same: README.md:30 has the devices "keep projects in sync".
AgreedMeansSame ==
    Settled /\ (\A d, e \in Device : has[d] /\ ~NeedsUpdate(clk[d], clk[e]))
        => \A d, e \in Device : doc[d] = doc[e]

\* When the devices are no longer busy opening the resource and every save has
\* been counted (a crash between its two writes leaves one uncounted for good),
\* every device ends with a copy and all copies are equal, in the databases and
\* in the open editors.
Converges ==
    (<>[](\A d \in Device : view[d] # "loading" /\ (has[d] => clk[d][d] = issued[d]))) =>
    <>[](\A d, e \in Device : /\ has[d] /\ doc[d] = doc[e]
                              /\ view[d] = "shown" => editor[d] = doc[d])
=============================================================================
