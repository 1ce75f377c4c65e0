------------------------------ MODULE LiveEdit ------------------------------
(***************************************************************************)
(* Editing one note on several devices at once.                            *)
(*                                                                         *)
(*   livnote/src-tauri/src/current_note_state.rs  the open note's buffers  *)
(*   livnote/src-tauri/src/listners/tauri_events.rs  the editor's events   *)
(*   livnote/src-tauri/src/listners/p2p_handlers/    the peers' events     *)
(*   livnote/src-tauri/src/listners/p2p_reciever.rs  their only consumer   *)
(*   network/src/p2p/incoming_handler.rs, resource_sync.rs  the messages   *)
(*   livnote/frontend/desktop/state/data.svelte.ts   the editor            *)
(*                                                                         *)
(* Every note is shared by every device, and the devices are connected     *)
(* (Connections has what becomes of that).  A document is the set of the   *)
(* edits in it, a state vector the set of the edits its owner has.  yrs    *)
(* documents are handles: a clone shares what is applied to it.  Awareness *)
(* updates change nothing that is kept and are left out, like previews and *)
(* inactive_connections, whose peers are asked for a merge when the note   *)
(* is left: what comes of that is ResourceSync's.                          *)
(***************************************************************************)
EXTENDS Naturals, Sequences

CONSTANTS
    Node,       \* the devices
    Note,       \* the notes
    Opens,      \* <<d, n>>: n is opened on d
    None,       \* no note
    MaxSwitches,\* bound: how often a note is opened or closed
    MaxEdits,   \* bound: edits that are made
    Kinds,      \* of edits: "main" and "comment"; images are like main
    Faults      \* what may happen: see below

(***************************************************************************)
(* "overlap": the handlers and tasks of a device interleave, and so a note  *)
(*            is set between is_current_note and the use that is made of   *)
(*            its answer; without it, each is done before another begins,  *)
(*            but for the steps of a note change, which always interleave; *)
(* "foreign": a note is merged while another one is open, or none; without *)
(*            it, only the open note is.                                   *)
(***************************************************************************)
ASSUME OpensAssumption == Opens \subseteq Node \X Note
ASSUME NoneAssumption == None \notin Note
ASSUME KindAssumption == Kinds \subseteq {"main", "comment"}
ASSUME BoundAssumption == MaxSwitches \in Nat /\ MaxEdits \in Nat
ASSUME FaultAssumption == Faults \subseteq {"overlap", "foreign"}

VARIABLES
    shown,      \* device -> the editor's currentNoteId
    fetching,   \* device -> the note whose content the editor has asked for
    screen,     \* device -> the edits in the editor's document
    stored,     \* device -> note -> the edits in its database
    change,     \* name -> a note-change event's task
    note,       \* device -> Buffers.note_id
    current,    \* device -> the document that Buffers holds
    docs,       \* device -> document -> its edits
    active,     \* device -> Buffers.active_connections
    typed,      \* device -> edits whose sync-update task has yet to look
    applying,   \* device -> edits on their way to the buffer, and their document
    sending,    \* device -> edits on their way to the active connections
    connected,  \* device -> peers whose LiveEditConnected is not yet handled
    queue,      \* device -> device -> messages that the first has sent
    handling,   \* device -> the event its consumer has looked at
    edits       \* edits made so far (bound)

editor == <<shown, fetching, screen, stored>>
buffers == <<note, current, docs>>
peers == <<active, connected, queue>>
tasks == <<typed, applying, sending>>
vars == <<editor, change, buffers, peers, tasks, handling, edits>>

Edit == [note : Note, kind : Kinds, n : 1 .. MaxEdits]

Change == 1 .. MaxSwitches

\* The handles of documents, named by the change that made them or 0; one that
\* is given up is used again.
Doc == 0 .. MaxSwitches

NoChange == [pc |-> "none", at |-> None, to |-> None, loaded |-> {}]
Resting == [pc |-> "rest"]

Message ==
    [kind : {"check", "vectors", "exchange", "response", "update", "changed"},
     note : Note, edits : SUBSET Edit, vector : SUBSET Edit]
    \cup [kind : {"mismatch"}]

TypeOK ==
    /\ shown \in [Node -> Note \cup {None}]
    /\ fetching \in [Node -> Note \cup {None}]
    /\ screen \in [Node -> SUBSET Edit]
    /\ stored \in [Node -> [Note -> SUBSET Edit]]
    /\ change \in [Change ->
          [pc : {"none", "leave", "clear", "open", "set", "request", "done"},
           at : Node \cup {None}, to : Note \cup {None}, loaded : SUBSET Edit]]
    /\ note \in [Node -> Note \cup {None}]
    /\ current \in [Node -> Doc]
    /\ docs \in [Node -> [Doc -> SUBSET Edit]]
    /\ active \in [Node -> SUBSET Node]
    /\ typed \in [Node -> SUBSET Edit]
    /\ applying \in [Node -> SUBSET (Edit \X (Doc \cup {MaxSwitches + 1}))]
    /\ sending \in [Node -> SUBSET Edit]
    /\ connected \in [Node -> SUBSET Node]
    /\ \A d, e \in Node : \A i \in DOMAIN queue[d][e] : queue[d][e][i] \in Message
    /\ \A d \in Node : handling[d].pc \in {"rest", "looked", "cloned"}
    /\ edits \in 0 .. MaxEdits

Init ==
    /\ shown = [d \in Node |-> None] /\ fetching = [d \in Node |-> None]
    /\ screen = [d \in Node |-> {}]
    /\ stored = [d \in Node |-> [n \in Note |-> {}]]
    /\ change = [k \in Change |-> NoChange]
    /\ note = [d \in Node |-> None]
    /\ current = [d \in Node |-> 0]
    /\ docs = [d \in Node |-> [k \in Doc |-> {}]]
    /\ active = [d \in Node |-> {}]
    /\ typed = [d \in Node |-> {}]
    /\ applying = [d \in Node |-> {}]
    /\ sending = [d \in Node |-> {}]
    /\ connected = [d \in Node |-> {}]
    /\ queue = [d \in Node |-> [e \in Node |-> <<>>]]
    /\ handling = [d \in Node |-> Resting]
    /\ edits = 0

\* The document in the buffers.
Buffer(d) == docs[d][current[d]]

\* What apply_updates_and_generate_diff and apply_peer_updates look at: the main
\* document and the images, but no comments.
Exchanged(S) == {x \in S : x.kind # "comment"}

\* generate_updates_for_peer: what a document has beyond a peer's state vector.
UpdatesFor(S, vector) == Exchanged(S) \ vector

\* No task or handler of d is about to use the note that it found current.
Settled(d) == applying[d] = {} /\ sending[d] = {} /\ handling[d] = Resting

Free == "overlap" \in Faults \/ \A d \in Node : Settled(d)

\* The handlers of the front end's live-edit events: to one peer ...
Send(d, e, m) == queue' = [queue EXCEPT ![d][e] = Append(@, m)]

\* ... and the broadcasts, to the connections that take part.
Broadcast(d, m) ==
    queue' = [queue EXCEPT ![d] =
        [e \in Node |-> IF e \in active[d] THEN Append(@[e], m) ELSE @[e]]]

About(kind, n, new, vector) ==
    [kind |-> kind, note |-> n, edits |-> new, vector |-> vector]

----------------------------------------------------------------------------
(* The editor.                                                             *)

\* switchNote: the note that is left is saved, the change is announced and the
\* new note's content asked for.
SwitchNote(d, n) ==
    LET old == shown[d] IN
    /\ Free /\ fetching[d] = None
    /\ "overlap" \in Faults \/ \A k \in Change : change[k].at # d
    /\ IF n = None THEN old # None ELSE <<d, n>> \in Opens
    /\ \E k \in Change :
          /\ change[k].pc = "none" /\ \A j \in 1 .. k - 1 : change[j].pc # "none"
          /\ change' = [change EXCEPT ![k] = [pc |-> "leave", at |-> d, to |-> n,
                                              loaded |-> {}]]
    /\ stored' = IF old \in {None, n} THEN stored
                 ELSE [stored EXCEPT ![d][old] = @ \cup screen[d]]
    /\ fetching' = [fetching EXCEPT ![d] = n]
    /\ IF n = None
       THEN shown' = [shown EXCEPT ![d] = None] /\ screen' = [screen EXCEPT ![d] = {}]
       ELSE UNCHANGED <<shown, screen>>
    /\ UNCHANGED <<buffers, peers, tasks, handling, edits>>

\* getCredential has answered.
Show(d) ==
    LET n == fetching[d] IN
    /\ Free /\ n # None
    /\ shown' = [shown EXCEPT ![d] = n]
    /\ screen' = [screen EXCEPT ![d] = stored[d][n]]
    /\ fetching' = [fetching EXCEPT ![d] = None]
    /\ UNCHANGED <<stored, change, buffers, peers, tasks, handling, edits>>

\* An edit raises a sync-update event, for which a task is spawned.
Type(d, kind) ==
    LET x == [note |-> shown[d], kind |-> kind, n |-> edits + 1] IN
    /\ Free /\ shown[d] # None /\ fetching[d] = None /\ edits < MaxEdits
    /\ screen' = [screen EXCEPT ![d] = @ \cup {x}]
    /\ typed' = [typed EXCEPT ![d] = @ \cup {x}]
    /\ edits' = edits + 1
    /\ UNCHANGED <<shown, fetching, stored, change, buffers, peers, applying, sending,
                   handling>>

\* Variant: for whichever note is shown.
ShowsAny(d, n, new) ==
    screen' = IF shown[d] # None THEN [screen EXCEPT ![d] = @ \cup new] ELSE screen

\* handleDocumentUpdates and handleLiveUpdates: for the shown note only.
Shows(d, n, new) ==
    screen' = IF shown[d] = n THEN [screen EXCEPT ![d] = @ \cup new] ELSE screen

----------------------------------------------------------------------------
(* The task of a sync-update event.                                        *)

\* A document that apply_update has not cloned yet.
NotCloned == MaxSwitches + 1

\* Variant: the note of the edit is not looked at.
TakeAnyUpdate(d, x) ==
    /\ Free /\ x \in typed[d]
    /\ typed' = [typed EXCEPT ![d] = @ \ {x}]
    /\ applying' = [applying EXCEPT ![d] = @ \cup {<<x, NotCloned>>}]
    /\ sending' = [sending EXCEPT ![d] = @ \cup {x}]
    /\ UNCHANGED <<editor, change, buffers, peers, handling, edits>>

\* is_current_note: another note's edit is ignored; else the buffer's task is
\* spawned, and this one goes on to broadcast.
TakeUpdate(d, x) ==
    /\ Free /\ x \in typed[d]
    /\ typed' = [typed EXCEPT ![d] = @ \ {x}]
    /\ IF note[d] = x.note
       THEN /\ applying' = [applying EXCEPT ![d] = @ \cup {<<x, NotCloned>>}]
            /\ sending' = [sending EXCEPT ![d] = @ \cup {x}]
       ELSE UNCHANGED <<applying, sending>>
    /\ UNCHANGED <<editor, change, buffers, peers, handling, edits>>

\* apply_update: the handle of the document, under the lock ...
CloneDoc(d, x) ==
    /\ <<x, NotCloned>> \in applying[d]
    /\ applying' = [applying EXCEPT ![d] = (@ \ {<<x, NotCloned>>})
                                           \cup {<<x, current[d]>>}]
    /\ UNCHANGED <<editor, change, buffers, peers, typed, sending, handling, edits>>

\* ... and the update applied to it and the handle written back.
WritesBack(d, k, new) ==
    /\ docs' = [docs EXCEPT ![d][k] = @ \cup new]
    /\ current' = [current EXCEPT ![d] = k]

ApplyUpdate(d, x, k) ==
    /\ <<x, k>> \in applying[d] /\ k # NotCloned
    /\ WritesBack(d, k, {x})
    /\ applying' = [applying EXCEPT ![d] = @ \ {<<x, k>>}]
    /\ UNCHANGED <<editor, change, note, peers, typed, sending, handling, edits>>

\* broadcast_update.
BroadcastUpdate(d, x) ==
    /\ x \in sending[d]
    /\ sending' = [sending EXCEPT ![d] = @ \ {x}]
    /\ Broadcast(d, About("update", x.note, {x}, {}))
    /\ UNCHANGED <<editor, change, buffers, active, connected, typed,
                   applying, handling, edits>>

----------------------------------------------------------------------------
(* The task of a note-change event.                                        *)

AtStep(k, pc) == change[k].pc = pc /\ Free

ChangeGoes(k, pc) ==
    change' = [change EXCEPT ![k] = IF pc = "done" THEN [NoChange EXCEPT !.pc = pc]
                                    ELSE [@ EXCEPT !.pc = pc]]

AfterLeaving(k) == IF change[k].to = None THEN "set" ELSE "open"

\* handle_leaving_note: whoever edits the previous note too is told ...
Leave(k) ==
    LET d == change[k].at previous == note[d] IN
    /\ AtStep(k, "leave")
    /\ IF previous \in {None, change[k].to}
       THEN ChangeGoes(k, AfterLeaving(k)) /\ UNCHANGED queue
       ELSE /\ ChangeGoes(k, "clear")
            /\ Broadcast(d, About("changed", previous, {}, {}))
    /\ UNCHANGED <<editor, buffers, active, connected, tasks, handling,
                   edits>>

\* ... and forgotten.
Clear(k) ==
    LET d == change[k].at IN
    /\ AtStep(k, "clear") /\ ChangeGoes(k, AfterLeaving(k))
    /\ active' = [active EXCEPT ![d] = {}]
    /\ UNCHANGED <<editor, buffers, connected, queue, tasks, handling, edits>>

\* get_resource_by_id_direct.
Open(k) ==
    /\ AtStep(k, "open")
    /\ change' = [change EXCEPT ![k].pc = "set",
                     ![k].loaded = stored[change[k].at][change[k].to]]
    /\ UNCHANGED <<editor, buffers, peers, tasks, handling, edits>>

\* set_current_note: the note and new documents, with the lock held.
SetNote(k) ==
    LET d == change[k].at IN
    /\ AtStep(k, "set")
    /\ ChangeGoes(k, IF change[k].to = None THEN "done" ELSE "request")
    /\ note' = [note EXCEPT ![d] = change[k].to]
    /\ LET new == IF Settled(d) THEN current[d] ELSE k IN
          /\ docs' = [docs EXCEPT ![d][new] = change[k].loaded]
          /\ current' = [current EXCEPT ![d] = new]
    /\ UNCHANGED <<editor, peers, tasks, handling, edits>>

\* setup_shared_users_for_note: a live edit with every device that shares it.
RequestLiveEdit(k) ==
    LET d == change[k].at IN
    /\ AtStep(k, "request") /\ ChangeGoes(k, "done")
    /\ connected' = [connected EXCEPT ![d] = Node \ {d}]
    /\ UNCHANGED <<editor, buffers, active, queue, tasks, handling, edits>>

----------------------------------------------------------------------------
(* The consumer of P2PEvents, one at a time.                               *)

\* handle_live_edit_connected.
TakeConnected(d, e) ==
    /\ Free /\ handling[d] = Resting /\ e \in connected[d]
    /\ connected' = [connected EXCEPT ![d] = @ \ {e}]
    /\ IF note[d] = None THEN UNCHANGED queue
       ELSE Send(d, e, About("check", note[d], {}, {}))
    /\ UNCHANGED <<editor, change, buffers, active, tasks, handling, edits>>

\* What d has to take next from e.
Arrived(d, e) == queue[e][d] # <<>>
First(d, e) == Head(queue[e][d])
Taken(d, e) == [queue EXCEPT ![e][d] = Tail(@)]

\* handle_document_missmatch, handle_document_changed_event: the note that the
\* message is about is not looked at, but for a warning.
TakeNotice(d, e) ==
    LET m == First(d, e) IN
    /\ Free /\ handling[d] = Resting /\ Arrived(d, e) /\ m.kind \in {"mismatch", "changed"}
    /\ queue' = Taken(d, e)
    /\ active' = IF m.kind = "changed" THEN [active EXCEPT ![d] = @ \ {e}] ELSE active
    /\ UNCHANGED <<editor, change, buffers, connected, tasks, handling, edits>>

\* The others begin with is_current_note.  A check is answered either way.
Look(d, e) ==
    LET m == First(d, e)
        isMatch == m.note = note[d] IN
    /\ Free /\ handling[d] = Resting /\ Arrived(d, e) /\ m.kind \notin {"mismatch", "changed"}
    /\ handling' = IF isMatch
                   THEN [handling EXCEPT ![d] = [pc |-> "looked", m |-> m, from |-> e]]
                   ELSE handling
    /\ queue' = IF m.kind = "check" /\ ~isMatch
                THEN [Taken(d, e) EXCEPT ![d][e] = Append(@, [kind |-> "mismatch"])]
                ELSE Taken(d, e)
    /\ UNCHANGED <<editor, change, buffers, active, connected, tasks, edits>>

Looked(d, kinds) == handling[d].pc = "looked" /\ handling[d].m.kind \in kinds

Rests(d) == handling' = [handling EXCEPT ![d] = Resting]

\* handle_document_check: get_state_vectors.
AnswerCheck(d) ==
    LET h == handling[d] IN
    /\ Looked(d, {"check"}) /\ Rests(d)
    /\ Send(d, h.from, About("vectors", h.m.note, {}, Buffer(d)))
    /\ UNCHANGED <<editor, change, buffers, active, connected, tasks, edits>>

\* handle_document_update_request: generate_updates_for_peer.
AnswerVectors(d) ==
    LET h == handling[d] IN
    /\ Looked(d, {"vectors"}) /\ Rests(d)
    /\ Send(d, h.from, About("exchange", h.m.note, UpdatesFor(Buffer(d), h.m.vector),
                             Exchanged(Buffer(d))))
    /\ UNCHANGED <<editor, change, buffers, active, connected, tasks, edits>>

\* Edits are applied to a handle, like in apply_update.
CloneForPeer(d) ==
    /\ Looked(d, {"exchange", "response", "update"})
    /\ handling' = [handling EXCEPT ![d] =
          [pc |-> "cloned", m |-> @.m, from |-> @.from, doc |-> current[d]]]
    /\ UNCHANGED <<editor, change, buffers, peers, tasks, edits>>

Writes(d, kind) ==
    LET h == handling[d] IN
    /\ h.pc = "cloned" /\ h.m.kind = kind /\ Rests(d)
    /\ WritesBack(d, h.doc, h.m.edits)

\* handle_document_process_update: apply_updates_and_generate_diff, and the
\* peer takes part.  handle_update_event names the note that is current then.
ProcessUpdate(d) ==
    LET h == handling[d] IN
    /\ Writes(d, "exchange")
    /\ active' = [active EXCEPT ![d] = @ \cup {h.from}]
    /\ Shows(d, note[d], h.m.edits)
    /\ Send(d, h.from, About("response", h.m.note,
                             UpdatesFor(docs[d][h.doc], h.m.vector), {}))
    /\ UNCHANGED <<shown, fetching, stored, change, note, connected, tasks,
                   edits>>

\* Variant: the resource's id is kept in the place of the connection's.
ProcessResponseId(d) ==
    LET h == handling[d] IN
    /\ Writes(d, "response")
    /\ active' = [active EXCEPT ![d] = @ \cup {h.m.note}]
    /\ Shows(d, note[d], h.m.edits)
    /\ UNCHANGED <<shown, fetching, stored, change, note, connected, queue, tasks,
                   edits>>

\* Variant: only the peer that was asked takes part.
ProcessResponseAlone(d) ==
    LET h == handling[d] IN
    /\ Writes(d, "response")
    /\ Shows(d, note[d], h.m.edits)
    /\ UNCHANGED <<shown, fetching, stored, change, note, active, connected, queue,
                   tasks, edits>>

\* handle_document_process_update_response: apply_peer_updates.
ProcessResponse(d) ==
    LET h == handling[d] IN
    /\ Writes(d, "response")
    /\ active' = [active EXCEPT ![d] = @ \cup {h.from}]
    /\ Shows(d, note[d], h.m.edits)
    /\ UNCHANGED <<shown, fetching, stored, change, note, connected, queue,
                   tasks, edits>>

\* handle_editing_event; the editor is told the note that the edit is for.
ProcessEdit(d) ==
    /\ Writes(d, "update")
    /\ Shows(d, handling[d].m.note, handling[d].m.edits)
    /\ UNCHANGED <<shown, fetching, stored, change, note, peers, tasks, edits>>

\* A merge of n brought e's edits (FinalUpdateMerge): UpdatesEvent, and
\* handle_update_event emits them for the current note, whichever that is.
Merged(d, e, n) ==
    /\ Free /\ handling[d] = Resting /\ d # e
    /\ ~(stored[e][n] \subseteq stored[d][n])
    /\ "foreign" \in Faults \/ note[d] = n
    /\ stored' = [stored EXCEPT ![d][n] = @ \cup stored[e][n]]
    /\ IF note[d] = None THEN UNCHANGED screen
       ELSE Shows(d, note[d], Exchanged(stored[e][n]))
    /\ UNCHANGED <<shown, fetching, change, buffers, peers, tasks, handling, edits>>

\* Nothing is under way.
Idle ==
    /\ \A d \in Node : /\ typed[d] = {} /\ Settled(d) /\ connected[d] = {}
                       /\ fetching[d] = None
                       /\ \A e \in Node : queue[d][e] = <<>>
    /\ \A k \in Change : change[k].at = None

\* Variant: the timer is for a device that edits alone.
ReconcileAlone(d) ==
    /\ Idle /\ note[d] # None /\ active[d] = {}
    /\ UNCHANGED vars

\* The reconciliation timer: the own state vectors as the answer to a check
\* that nobody has made.  Its period, 30 s and more, is longer than all the
\* rest takes together.
Reconcile(d) ==
    /\ Idle /\ note[d] # None /\ active[d] # {}
    /\ Broadcast(d, About("vectors", note[d], {}, Buffer(d)))
    /\ UNCHANGED <<editor, change, buffers, active, connected, tasks, handling, edits>>

----------------------------------------------------------------------------
Updating(d) ==
    \E x \in typed[d] \cup sending[d] \cup {p[1] : p \in applying[d]} :
        \/ TakeUpdate(d, x) \/ CloneDoc(d, x) \/ BroadcastUpdate(d, x)
        \/ \E k \in Doc : ApplyUpdate(d, x, k)

Changing(k) ==
    Leave(k) \/ Clear(k) \/ Open(k) \/ SetNote(k) \/ RequestLiveEdit(k)

Consuming(d) ==
    \/ \E e \in Node : TakeConnected(d, e) \/ TakeNotice(d, e) \/ Look(d, e)
    \/ AnswerCheck(d) \/ AnswerVectors(d) \/ CloneForPeer(d)
    \/ ProcessUpdate(d) \/ ProcessResponse(d) \/ ProcessEdit(d)

Working ==
    \/ \E d \in Node : Show(d) \/ Updating(d) \/ Consuming(d) \/ Reconcile(d)
    \/ \E k \in Change : Changing(k)

Next ==
    \/ Working
    \/ \E d \in Node :
          \/ \E n \in Note \cup {None} : SwitchNote(d, n)
          \/ \E kind \in Kinds : Type(d, kind)
          \/ \E e \in Node, n \in Note : Merged(d, e, n)

Spec == Init /\ [][Next]_vars

\* Spawned tasks, the consumers and the timers go on; users need do nothing,
\* and a merge need never come.  No fairness between them is needed: all but
\* the timers come to an end, and the timers wait for that.
Fairness == WF_vars(Working)

FairSpec == Spec /\ Fairness

----------------------------------------------------------------------------
(* Properties.                                                             *)

\* The buffers hold nothing but edits of their note: what a peer asks for is
\* answered out of them, and what is wrong in them spreads.
BufferOfNote == \A d \in Node : \A x \in Buffer(d) : x.note = note[d]

\* The editor shows nothing but edits of the note that it shows, and what it
\* shows is what it saves: updates.rs:108 has "Emit document updates for the
\* current note" where it emits the updates of any.
EditorOfNote ==
    \A d \in Node : shown[d] # None => \A x \in screen[d] : x.note = shown[d]

Together(d, e) == note[d] # None /\ note[d] = note[e]

\* Two devices that stay with the same note find each other, whoever opened it
\* first and whatever was on its way: a check that came too early is answered
\* with a mismatch, and never made again by the device that got it.
Meet ==
    \A d \in Node : \A e \in Node \ {d} : <>[]Together(d, e) => <>[](e \in active[d])

\* ... and what they have of it becomes the same, although an edit made after
\* its device has answered, and before it has a peer, is sent to nobody.
BuffersAgree ==
    \A d \in Node : \A e \in Node \ {d} :
        <>[]Together(d, e) => <>[](Exchanged(Buffer(d)) = Exchanged(Buffer(e)))
=============================================================================
