-------------------------------- MODULE Chat --------------------------------
(***************************************************************************)
(* Chats in libremot: buffers for any number of chats at a time, and the   *)
(* messages that arrive for them saved at once.                            *)
(*                                                                         *)
(*   libremot/src-tauri/src/chat_state.rs               the chats' buffers *)
(*   libremot/src-tauri/src/listners/tauri_events.rs    the front end      *)
(*   libremot/src-tauri/src/listners/p2p_handlers/      the peers' events  *)
(*   libremot/frontend/desktop/state/data.svelte.ts     the coordinators   *)
(*                                                                         *)
(* The devices of a chat are connected, and every chat is shared by all.   *)
(* A document is the set of the messages in it, a state vector the set of  *)
(* the messages its owner has; images and marks that a message was read    *)
(* are left out.  So are the active connections and the timer of LiveEdit, *)
(* which libremot has too: they exchange "main_doc", and a chat has none.  *)
(* reconcile_chat_on_open also sends state vectors to ids of devices, by   *)
(* which no connection is found.  apply_update is one step here; LiveEdit  *)
(* has what comes of a note set between its two.                           *)
(***************************************************************************)
EXTENDS Naturals, FiniteSets, Sequences

CONSTANTS
    Node,        \* the devices
    Chat,        \* the chats
    None,        \* no chat
    Opens,       \* <<d, c>>: c is opened on d
    Earlier,     \* the messages of earlier sessions, which all have stored
    MaxSwitches, \* bound: how often a chat is opened or closed
    MaxMessages, \* bound: messages that are sent, with the earlier ones
    Overlap      \* the tasks of a device interleave with one another, and a user
                 \* goes on before the last message is saved

ASSUME NoneAssumption == None \notin Chat
ASSUME OpensAssumption == Opens \subseteq Node \X Chat
ASSUME BoundAssumption == MaxSwitches \in Nat /\ MaxMessages \in Nat
ASSUME EarlierAssumption ==
    /\ Earlier \subseteq [chat : Chat, by : Node, n : 1 .. MaxMessages]
    /\ IsFiniteSet(Earlier)
ASSUME OverlapAssumption == Overlap \in BOOLEAN

VARIABLES
    open,       \* device -> the front end's currentChatId
    fetching,   \* device -> the chat whose content the front end has asked for
    screen,     \* device -> chat -> the messages in its ChatCoordinator
    saving,     \* device -> chats' contents on their way to updateCredential
    stored,     \* device -> chat -> what the database has of it
    change,     \* device -> the task of a note-change event
    current,    \* device -> the chat that current_note_state names
    buffered,   \* device -> the chats that have a buffer
    buffer,     \* device -> chat -> the messages in the buffer
    typed,      \* device -> messages whose sync-update task has yet to begin
    sending,    \* device -> messages that it has yet to broadcast
    received,   \* device -> the chat that its consumer has yet to save, or None
    connected,  \* device -> peers whose LiveEditConnected is not yet handled
    queue,      \* device -> device -> messages that the first has sent
    switches,   \* chats opened or closed so far (bound)
    sent        \* messages sent so far (bound), each with its author

front == <<open, fetching, screen, saving>>
buffers == <<buffered, buffer>>
tasks == <<typed, sending, received>>
net == <<connected, queue>>
bounds == <<switches, sent>>
vars == <<front, stored, change, current, buffers, tasks, net, bounds>>

ChatMessage == [chat : Chat, by : Node, n : 1 .. MaxMessages]

\* The front end saves arrays of numbers, save_chat_to_database a base64 text.
Stored == [form : {"array", "text"}, has : SUBSET ChatMessage]

Change == [pc : {"none", "load", "reconcile"}, to : Chat \cup {None}]
NoChange == [pc |-> "none", to |-> None]

Packet ==
    [kind : {"check", "vectors", "exchange", "response", "update"}, chat : Chat,
     new : SUBSET ChatMessage, vector : SUBSET ChatMessage]

TypeOK ==
    /\ open \in [Node -> Chat \cup {None}]
    /\ fetching \in [Node -> Chat \cup {None}]
    /\ screen \in [Node -> [Chat -> SUBSET ChatMessage]]
    /\ saving \in [Node -> SUBSET (Chat \X SUBSET ChatMessage)]
    /\ stored \in [Node -> [Chat -> Stored]]
    /\ change \in [Node -> Change]
    /\ current \in [Node -> Chat \cup {None}]
    /\ buffered \in [Node -> SUBSET Chat]
    /\ buffer \in [Node -> [Chat -> SUBSET ChatMessage]]
    /\ typed \in [Node -> SUBSET ChatMessage]
    /\ sending \in [Node -> SUBSET ChatMessage]
    /\ received \in [Node -> Chat \cup {None}]
    /\ connected \in [Node -> SUBSET Node]
    /\ \A d, e \in Node : \A i \in DOMAIN queue[d][e] : queue[d][e][i] \in Packet
    /\ switches \in 0 .. MaxSwitches
    /\ sent \subseteq ChatMessage

\* addChat and its share: everyone has the chats.
Init ==
    /\ open = [d \in Node |-> None] /\ fetching = [d \in Node |-> None]
    /\ screen = [d \in Node |-> [c \in Chat |-> {}]]
    /\ saving = [d \in Node |-> {}]
    /\ stored = [d \in Node |-> [c \in Chat |->
                    [form |-> "array", has |-> {m \in Earlier : m.chat = c}]]]
    /\ change = [d \in Node |-> NoChange]
    /\ current = [d \in Node |-> None]
    /\ buffered = [d \in Node |-> {}]
    /\ buffer = [d \in Node |-> [c \in Chat |-> {}]]
    /\ typed = [d \in Node |-> {}] /\ sending = [d \in Node |-> {}]
    /\ received = [d \in Node |-> None]
    /\ connected = [d \in Node |-> {}]
    /\ queue = [d \in Node |-> [e \in Node |-> <<>>]]
    /\ switches = 0 /\ sent = Earlier

\* d is not between the two steps of a sync-update task.
Free(d) == Overlap \/ sending[d] = {}

Send(d, e, m) == queue' = [queue EXCEPT ![d][e] = Append(@, m)]

About(kind, c, new, vector) ==
    [kind |-> kind, chat |-> c, new |-> new, vector |-> vector]

\* get_state_vectors; generate_updates_for_peer.
Vector(d, c) == buffer[d][c]
UpdatesFor(d, c, vector) == buffer[d][c] \ vector

\* apply_updates_and_generate_diff: what the peer lacks, new applied.
DiffAfter(d, c, new, vector) == (buffer[d][c] \cup new) \ vector

----------------------------------------------------------------------------
(* The front end.                                                          *)

\* switchChat: the change is announced and the chat's content asked for.
SwitchChat(d, c) ==
    /\ fetching[d] = None /\ change[d] = NoChange /\ (Overlap \/ saving[d] = {})
    /\ IF c = None THEN open[d] # None ELSE <<d, c>> \in Opens
    /\ switches < MaxSwitches /\ switches' = switches + 1
    /\ change' = [change EXCEPT ![d] = [pc |-> "load", to |-> c]]
    /\ fetching' = [fetching EXCEPT ![d] = c]
    /\ open' = IF c = None THEN [open EXCEPT ![d] = None] ELSE open
    /\ UNCHANGED <<screen, saving, stored, current, buffers, tasks, net, sent>>

\* getCredential has answered.  createChatCoordinator begins anew, and loadChat
\* gets no array out of a text.
ShowChat(d) ==
    LET c == fetching[d] IN
    /\ c # None
    /\ open' = [open EXCEPT ![d] = c]
    /\ screen' = [screen EXCEPT ![d][c] =
                     IF stored[d][c].form = "array" THEN stored[d][c].has ELSE {}]
    /\ fetching' = [fetching EXCEPT ![d] = None]
    /\ UNCHANGED <<saving, stored, change, current, buffers, tasks, net, bounds>>

\* sendChatMessage: a sync-update event, and all that is on the screen saved.
SendChatMessage(d) ==
    LET c == open[d]
        m == [chat |-> c, by |-> d, n |-> Cardinality(sent) + 1]
    IN  /\ c # None /\ fetching[d] = None /\ Cardinality(sent) < MaxMessages
        /\ Overlap \/ saving[d] = {}
        /\ sent' = sent \cup {m}
        /\ screen' = [screen EXCEPT ![d][c] = @ \cup {m}]
        /\ typed' = [typed EXCEPT ![d] = @ \cup {m}]
        /\ saving' = [saving EXCEPT ![d] = @ \cup {<<c, screen[d][c] \cup {m}>>}]
        /\ UNCHANGED <<open, fetching, stored, change, current, buffers, sending,
                       received, net, switches>>

\* updateCredential.
SaveScreen(d, save) ==
    /\ save \in saving[d]
    /\ saving' = [saving EXCEPT ![d] = @ \ {save}]
    /\ stored' = [stored EXCEPT ![d][save[1]] = [form |-> "array", has |-> save[2]]]
    /\ UNCHANGED <<open, fetching, screen, change, current, buffers, tasks, net, bounds>>

\* handleDocumentUpdates: for the open chat, by the chat that the event names.
Shows(d, c, new) ==
    screen' = IF c # None /\ open[d] = c THEN [screen EXCEPT ![d][c] = @ \cup new]
              ELSE screen

----------------------------------------------------------------------------
(* The tasks of the front end's events.                                    *)

\* Variant: to the chat that is open.
AppliesToOpen(d, c, new) ==
    LET k == IF current[d] = None THEN c ELSE current[d] IN
    /\ buffered' = [buffered EXCEPT ![d] = @ \cup {k}]
    /\ buffer' = [buffer EXCEPT ![d][k] = @ \cup new]

\* apply_update: a chat without a buffer gets an empty one.
Applies(d, c, new) ==
    /\ buffered' = [buffered EXCEPT ![d] = @ \cup {c}]
    /\ buffer' = [buffer EXCEPT ![d][c] = @ \cup new]

\* setup_chat_sync_update_listener: to the buffer ...
TakeTyped(d, m) ==
    /\ Free(d) /\ m \in typed[d]
    /\ typed' = [typed EXCEPT ![d] = @ \ {m}]
    /\ sending' = [sending EXCEPT ![d] = @ \cup {m}]
    /\ Applies(d, m.chat, {m})
    /\ UNCHANGED <<front, stored, change, current, received, net, bounds>>

\* ... and when the subscribers are known, to them.
BroadcastTyped(d, m) ==
    /\ m \in sending[d]
    /\ sending' = [sending EXCEPT ![d] = @ \ {m}]
    /\ queue' = [queue EXCEPT ![d] = [e \in Node |->
          IF e # d THEN Append(@[e], About("update", m.chat, {m}, {})) ELSE @[e]]]
    /\ UNCHANGED <<front, stored, change, current, buffers, typed, received,
                   connected, bounds>>

\* The note-change task: load_chat_resource makes a new buffer and fills it
\* with the state named "main_doc", of which a chat has none.
LoadChat(d) ==
    LET c == change[d].to IN
    /\ Free(d) /\ change[d].pc = "load" /\ c # None
    /\ change' = [change EXCEPT ![d].pc = "reconcile"]
    /\ current' = [current EXCEPT ![d] = c]
    /\ buffered' = [buffered EXCEPT ![d] = @ \cup {c}]
    /\ buffer' = [buffer EXCEPT ![d][c] = {}]
    /\ UNCHANGED <<front, stored, tasks, net, bounds>>

CloseChat(d) ==
    /\ Free(d) /\ change[d] = [pc |-> "load", to |-> None]
    /\ change' = [change EXCEPT ![d] = NoChange]
    /\ current' = [current EXCEPT ![d] = None]
    /\ UNCHANGED <<front, stored, buffers, tasks, net, bounds>>

\* reconcile_chat_on_open: a live edit with every subscriber; on a connection
\* that there is, this is LiveEditConnected here.
ReconcileOnOpen(d) ==
    /\ Free(d) /\ change[d].pc = "reconcile"
    /\ change' = [change EXCEPT ![d] = NoChange]
    /\ connected' = [connected EXCEPT ![d] = Node \ {d}]
    /\ UNCHANGED <<front, stored, current, buffers, tasks, queue, bounds>>

----------------------------------------------------------------------------
(* The consumer of P2PEvents.                                              *)

Ready(d) == Free(d) /\ received[d] = None

First(d, e) == Head(queue[e][d])
Arrived(d, e, kind) ==
    Ready(d) /\ queue[e][d] # <<>> /\ First(d, e).kind = kind
Taken(d, e) == [queue EXCEPT ![e][d] = Tail(@)]
Answer(d, e, m) == queue' = [Taken(d, e) EXCEPT ![d][e] = Append(@, m)]

\* handle_live_edit_connected asks about the current chat.
TakeConnected(d, e) ==
    /\ Ready(d) /\ e \in connected[d]
    /\ connected' = [connected EXCEPT ![d] = @ \ {e}]
    /\ IF current[d] = None THEN UNCHANGED queue
       ELSE Send(d, e, About("check", current[d], {}, {}))
    /\ UNCHANGED <<front, stored, change, current, buffers, tasks, bounds>>

\* handle_document_check: any chat with a buffer is answered for; a mismatch
\* would only add to the inactive connections.
TakeCheck(d, e) ==
    LET c == First(d, e).chat IN
    /\ Arrived(d, e, "check")
    /\ IF c \in buffered[d] THEN Answer(d, e, About("vectors", c, {}, Vector(d, c)))
       ELSE queue' = Taken(d, e)
    /\ UNCHANGED <<front, stored, change, current, buffers, tasks, connected, bounds>>

\* handle_document_update_request: generate_updates_for_peer.
TakeVectors(d, e) ==
    LET c == First(d, e).chat IN
    /\ Arrived(d, e, "vectors")
    /\ IF c \in buffered[d]
       THEN Answer(d, e, About("exchange", c, UpdatesFor(d, c, First(d, e).vector),
                               Vector(d, c)))
       ELSE queue' = Taken(d, e)
    /\ UNCHANGED <<front, stored, change, current, buffers, tasks, connected, bounds>>

\* handle_document_process_update.
TakeExchange(d, e) ==
    LET m == First(d, e) IN
    /\ Arrived(d, e, "exchange")
    /\ IF m.chat \in buffered[d]
       THEN /\ Applies(d, m.chat, m.new)
            /\ Shows(d, current[d], m.new)
            /\ Answer(d, e, About("response", m.chat,
                                  DiffAfter(d, m.chat, m.new, m.vector), {}))
       ELSE queue' = Taken(d, e) /\ UNCHANGED <<buffers, screen>>
    /\ UNCHANGED <<open, fetching, saving, stored, change, current, tasks, connected,
                   bounds>>

\* Variant: the response is shown, and not kept.
TakeResponseShown(d, e) ==
    /\ Arrived(d, e, "response")
    /\ queue' = Taken(d, e)
    /\ Shows(d, current[d], First(d, e).new)
    /\ UNCHANGED <<open, fetching, saving, stored, change, current, buffers, tasks,
                   connected, bounds>>

\* handle_document_process_update_response: apply_peer_updates.
TakeResponse(d, e) ==
    LET m == First(d, e) IN
    /\ Arrived(d, e, "response")
    /\ queue' = Taken(d, e)
    /\ IF m.new # {} THEN Applies(d, m.chat, m.new) ELSE UNCHANGED buffers
    /\ Shows(d, current[d], m.new)
    /\ UNCHANGED <<open, fetching, saving, stored, change, current, tasks, connected,
                   bounds>>

\* Variant: the author is kept for the chat.
TakeUpdateOf(d, e) ==
    /\ Arrived(d, e, "update")
    /\ queue' = Taken(d, e)
    /\ Applies(d, First(d, e).chat, First(d, e).new)
    /\ received' = [received EXCEPT ![d] = e]
    /\ UNCHANGED <<front, stored, change, current, typed, sending, connected, bounds>>

\* handle_editing_event: to the buffer and, whichever chat is open, to the
\* chat's coordinator ...
TakeUpdate(d, e) ==
    LET m == First(d, e) IN
    /\ Arrived(d, e, "update")
    /\ queue' = Taken(d, e)
    /\ Applies(d, m.chat, m.new)
    /\ screen' = [screen EXCEPT ![d][m.chat] = @ \cup m.new]
    /\ received' = [received EXCEPT ![d] = m.chat]
    /\ UNCHANGED <<open, fetching, saving, stored, change, current, typed, sending,
                   connected, bounds>>

\* ... and save_chat_to_database: the buffer, in the place of what is there.
SaveBuffer(d) ==
    LET c == received[d] IN
    /\ Free(d) /\ c # None
    /\ received' = [received EXCEPT ![d] = None]
    /\ stored' = [stored EXCEPT ![d][c] = [form |-> "text", has |-> buffer[d][c]]]
    /\ UNCHANGED <<front, change, current, buffers, typed, sending, net, bounds>>

----------------------------------------------------------------------------
Fronting(d) == ShowChat(d) \/ \E save \in saving[d] : SaveScreen(d, save)

Changing(d) == LoadChat(d) \/ CloseChat(d) \/ ReconcileOnOpen(d)

Updating(d) == \E m \in typed[d] \cup sending[d] : TakeTyped(d, m) \/ BroadcastTyped(d, m)

Consuming(d) ==
    \/ \E e \in Node :
          \/ TakeConnected(d, e) \/ TakeCheck(d, e) \/ TakeVectors(d, e)
          \/ TakeExchange(d, e) \/ TakeResponse(d, e)
          \/ TakeUpdate(d, e)
    \/ SaveBuffer(d)

Working == \E d \in Node : Fronting(d) \/ Changing(d) \/ Updating(d) \/ Consuming(d)

Next ==
    \/ Working
    \/ \E d \in Node : SendChatMessage(d) \/ \E c \in Chat \cup {None} : SwitchChat(d, c)

Spec == Init /\ [][Next]_vars

\* What is begun goes on; it all comes to an end.
Fairness == WF_vars(Working)

FairSpec == Spec /\ Fairness

----------------------------------------------------------------------------
\* A buffer holds messages of its chat only, also while another one is open
\* (ChatState's map of buffers, that replaces the one CurrentNoteState has).
BufferOfChat ==
    \A d \in Node, c \in Chat : \A m \in buffer[d][c] : m.chat = c

\* Devices that stay in a chat get to have the same messages of it in their
\* buffers, whoever opened it first and although opening empties the buffer:
\* reconcile_chat_on_open "ensures all missed messages are received".
Both(d, e, c) == current[d] = c /\ current[e] = c

ChatsAgree ==
    \A d, e \in Node, c \in Chat :
        d # e => (<>[]Both(d, e, c) => <>[](buffer[d][c] = buffer[e][c]))

\* Nothing is under way.
Idle ==
    \A d \in Node :
        /\ saving[d] = {} /\ fetching[d] = None /\ change[d] = NoChange
        /\ typed[d] = {} /\ sending[d] = {} /\ received[d] = None
        /\ connected[d] = {} /\ \A e \in Node : queue[d][e] = <<>>

\* Who has sent a message keeps it: "Save to database so messages persist
\* across sessions" (updates.rs:55).
KeptByAuthor ==
    Idle => \A m \in sent : m \in stored[m.by][m.chat].has
=============================================================================
