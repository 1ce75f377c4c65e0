---------------------------- MODULE Connections ----------------------------
(***************************************************************************)
(* How devices get, keep, replace and lose their connections.              *)
(*                                                                         *)
(*   network/src/p2p/connection_manager.rs  the tables of a device         *)
(*   network/src/p2p/p2p_service.rs         dialling, accepting, reuse     *)
(*   network/src/p2p/handshake.rs           the first messages             *)
(*   network/src/p2p/incoming_handler.rs    the events of the front end    *)
(*                                                                         *)
(* A connection is found by the id of the peer's device, so a device has   *)
(* one entry per peer, whoever dialled; a replaced entry's connection      *)
(* stays open and its message handler goes on.  Nothing removes an entry   *)
(* when its connection is lost, except send_or_reconnect.                  *)
(*                                                                         *)
(* Every lock of the manager is taken for one action.  The mutex of the    *)
(* service state is held across several: see holder.  What only the other  *)
(* modules follow is left out: the user sync that a handshake ends in, and *)
(* the live-edit messages.  So is pending_live_edit_requests, which is     *)
(* filled, cleared and read by nobody.                                     *)
(***************************************************************************)
EXTENDS Naturals, FiniteSets

CONSTANTS
    Node,       \* the devices, one per user
    Asks,       \* <<d, a>>: d's user causes syncs (a = "sync"), edits ("live")
    MaxLinks,   \* bound: connections that exist at the same time
    None,       \* no connection, no holder
    MaxAdds,    \* bound: how often a user is added
    Faults,     \* "lose": a connection is lost; "refuse": a dial fails
    MaxFaults   \* bound: how many

ASSUME NoneAssumption == None \notin Node \cup Nat
ASSUME AsksAssumption == Asks \subseteq Node \X {"sync", "live"}
ASSUME FaultAssumption == Faults \subseteq {"lose", "refuse"}
ASSUME BoundAssumption == MaxLinks \in Nat /\ MaxFaults \in Nat /\ MaxAdds \in Nat

VARIABLES
    table,      \* device -> peer -> ConnectionManager.connections
    connecting, \* device -> peers marked in ConnectionManager.connecting
    holder,     \* device -> who holds P2PService.state across awaits
    call,       \* call -> where connect_with_ticket stands, and its connection
    link,       \* connection -> its ends and how far it has come
    contact,    \* device -> peer -> users row: none, added, synced (first_sync)
    checks,     \* device -> peers whose LiveEditConnected is not yet handled
    consumer,   \* device -> the DocumentCheck that is being sent
    adds, faults \* bounds

vars == <<table, connecting, holder, call, link, contact, checks, consumer, adds,
          faults>>

\* The names of connections.
Link == 1 .. MaxLinks

\* A running connect_with_ticket: <<device, peer, why>>.  "check" is the call
\* send_or_reconnect makes for a DocumentCheck; its action is LiveEdit too.
Call == {q \in Node \X Node \X {"sync", "live", "check"} :
            /\ q[1] # q[2]
            /\ <<q[1], IF q[3] = "check" THEN "live" ELSE q[3]>> \in Asks}

Step == {"idle", "start", "existing", "check", "mark", "dial",
         "handshake", "insert", "hello", "failed", "returned"}

\* The handshake message that is on its way; "met" when the initiator has
\* taken the answer, "silent" when there will be none.
Handshake == {"none", "first", "firstReply", "exchange", "exchangeReply", "met",
              "silent"}

LinkState ==
    [from : Node \cup {None}, to : Node \cup {None},
     open : BOOLEAN,
     accept : {"new", "insert", "done"},
     hs : Handshake]

Unused == [from |-> None, to |-> None, open |-> FALSE, accept |-> "done",
           hs |-> "none"]

NoCall == [pc |-> "idle", link |-> None]
Resting == [pc |-> "idle", peer |-> None]

TypeOK ==
    /\ table \in [Node -> [Node -> Link \cup {None}]]
    /\ connecting \in [Node -> SUBSET Node]
    /\ holder \in [Node -> Call \cup {<<c>> : c \in Link} \cup {None}]
    /\ call \in [Call -> [pc : Step, link : Link \cup {None}]]
    /\ link \in [Link -> LinkState]
    /\ contact \in [Node -> [Node -> {"none", "added", "synced"}]]
    /\ checks \in [Node -> SUBSET Node]
    /\ consumer \in [Node -> [pc : {"idle", "purge", "connect"},
                              peer : Node \cup {None}]]
    /\ adds \in 0 .. MaxAdds /\ faults \in 0 .. MaxFaults

Init ==
    /\ table = [d \in Node |-> [e \in Node |-> None]]
    /\ connecting = [d \in Node |-> {}]
    /\ holder = [d \in Node |-> None]
    /\ call = [q \in Call |-> NoCall]
    /\ link = [c \in Link |-> Unused]
    /\ checks = [d \in Node |-> {}]
    /\ consumer = [d \in Node |-> Resting]
    /\ \E row \in {"none", "synced"} :
          /\ contact = [d \in Node |-> [e \in Node |-> row]]
          /\ adds = IF row = "none" THEN 0 ELSE MaxAdds
    /\ faults = 0

----------------------------------------------------------------------------
(* connect_with_ticket.                                                    *)

Healthy(c) == c # None /\ link[c].open

\* Free to name a new connection: nothing refers to it any more.
Unreferenced(c) ==
    /\ ~link[c].open /\ link[c].accept = "done"
    /\ \A d, e \in Node : table[d][e] # c
    /\ \A q \in Call : call[q].link # c

At(q, step) == call[q].pc = step

Goes(q, step) == call' = [call EXCEPT ![q].pc = step]

\* The call ends with connection c, or with None: an error or Ok(None).  Only
\* send_or_reconnect looks at the result.
Returns(q, c) ==
    call' = [call EXCEPT ![q] =
        IF q[3] = "check" THEN [pc |-> "returned", link |-> c] ELSE NoCall]

\* is_connection_active, with both tables locked; the service state, locked
\* for a moment before, is what makes a call wait for a running handshake.
Active(d, p) == table[d][p] # None \/ p \in connecting[d]

LooksUp(q) ==
    /\ holder[q[1]] = None
    /\ Goes(q, IF Active(q[1], q[2]) THEN "existing" ELSE "check")

\* request_connections, sync_resource, sync_folders, handle_start_live_edit:
\* a task per device of the other users, which must be known.  A sync that
\* finds an entry asks the end that opened the connection to start it, or is
\* answered Ok(None): that changes nothing here.
Ask(q) ==
    /\ q[3] # "check" /\ At(q, "idle")
    /\ contact[q[1]][q[2]] # "none"
    /\ q[3] = "sync" => ~Active(q[1], q[2])
    /\ LooksUp(q)
    /\ UNCHANGED <<table, connecting, holder, link, contact, checks, consumer,
                   adds, faults>>

\* broadcast_live_edit_message: for an edit that finds no open connection a
\* task is spawned that dials again.
Broadcast(d, e) ==
    LET q == <<d, e, "live">> IN
    /\ q \in Call /\ contact[d][e] # "none"
    /\ consumer[d].pc = "idle"
    /\ ~Healthy(table[d][e])
    /\ At(q, "idle") /\ LooksUp(q)
    /\ UNCHANGED <<table, connecting, holder, link, contact, checks, consumer,
                   adds, faults>>

LookUp(q) ==
    /\ At(q, "start") /\ LooksUp(q)
    /\ UNCHANGED <<table, connecting, holder, link, contact, checks, consumer,
                   adds, faults>>

\* get_peer_connection for a live edit: an entry is used whatever became of its
\* connection, and announced to the front end.  No entry: the peer is being
\* dialled, or was a moment ago, and the answer is Ok(None).
UseExisting(q) ==
    LET d == q[1] p == q[2] IN
    /\ At(q, "existing")
    /\ Returns(q, table[d][p])
    /\ checks' = [checks EXCEPT ![d] =
                     IF table[d][p] # None THEN @ \cup {p} ELSE @]
    /\ UNCHANGED <<table, connecting, holder, link, contact, consumer, adds, faults>>

\* mark_as_connecting: looks at the connections ...
CheckEstablished(q) ==
    /\ At(q, "check")
    /\ IF table[q[1]][q[2]] # None THEN Returns(q, None) ELSE Goes(q, "mark")
    /\ UNCHANGED <<table, connecting, holder, link, contact, checks, consumer,
                   adds, faults>>

\* ... and, their lock released, at the marks.
Mark(q) ==
    LET d == q[1] p == q[2] IN
    /\ At(q, "mark")
    /\ IF p \in connecting[d]
       THEN Returns(q, None) /\ UNCHANGED connecting
       ELSE /\ Goes(q, "dial")
            /\ connecting' = [connecting EXCEPT ![d] = @ \cup {p}]
    /\ UNCHANGED <<table, holder, link, contact, checks, consumer, adds, faults>>

\* endpoint.connect: the peer's listener gets a task for it.
Dial(q) ==
    /\ At(q, "dial")
    /\ \E c \in Link :
          /\ Unreferenced(c) /\ \A k \in 1 .. c - 1 : ~Unreferenced(k)
          /\ link' = [link EXCEPT ![c] = [from |-> q[1], to |-> q[2], open |-> TRUE,
                                          accept |-> "new", hs |-> "none"]]
          /\ call' = [call EXCEPT ![q] = [pc |-> "handshake", link |-> c]]
    /\ UNCHANGED <<table, connecting, holder, contact, checks, consumer, adds, faults>>

Fault(kind) == kind \in Faults /\ faults < MaxFaults /\ faults' = faults + 1

\* Variant: the mark of a dial that failed is left.
DialFailsMarked(q) ==
    /\ At(q, "dial") /\ Fault("refuse")
    /\ Returns(q, None)
    /\ UNCHANGED <<table, connecting, holder, link, contact, checks, consumer, adds>>

\* The peer is not reached: the mark is taken back.
DialFails(q) ==
    /\ At(q, "dial") /\ Fault("refuse")
    /\ connecting' = [connecting EXCEPT ![q[1]] = @ \ {q[2]}]
    /\ Returns(q, None)
    /\ UNCHANGED <<table, holder, link, contact, checks, consumer, adds>>

\* perform_handshake_and_create_peer takes the service state until it ends;
\* insert_connection takes the mark away ...
Enter(q) ==
    /\ At(q, "handshake") /\ holder[q[1]] = None
    /\ holder' = [holder EXCEPT ![q[1]] = q]
    /\ connecting' = [connecting EXCEPT ![q[1]] = @ \ {q[2]}]
    /\ Goes(q, "insert")
    /\ UNCHANGED <<table, link, contact, checks, consumer, adds, faults>>

\* Variant: the entry is the peer's id.
InsertId(q) ==
    /\ At(q, "insert")
    /\ table' = [table EXCEPT ![q[1]][q[2]] = q[2]]
    /\ Goes(q, "hello")
    /\ UNCHANGED <<connecting, holder, link, contact, checks, consumer, adds, faults>>

\* ... and the entry is made, or replaced without a word.
Insert(q) ==
    /\ At(q, "insert")
    /\ table' = [table EXCEPT ![q[1]][q[2]] = call[q].link]
    /\ Goes(q, "hello")
    /\ UNCHANGED <<connecting, holder, link, contact, checks, consumer, adds, faults>>

\* Variant: the other end is taken to begin.
GreetForgotten(q) ==
    LET d == q[1] c == call[q].link IN
    /\ At(q, "hello") /\ link[c].open
    /\ holder' = [holder EXCEPT ![d] = None]
    /\ Returns(q, c)
    /\ UNCHANGED <<table, connecting, link, contact, checks, consumer, adds, faults>>

\* initiate_handshake: a first connection or an exchange, by the peer's row.
Greet(q) ==
    LET d == q[1] c == call[q].link IN
    /\ At(q, "hello") /\ link[c].open
    /\ link' = [link EXCEPT ![c].hs =
                   IF contact[d][q[2]] = "synced" THEN "exchange" ELSE "first"]
    /\ holder' = [holder EXCEPT ![d] = None]
    /\ Returns(q, c)
    /\ UNCHANGED <<table, connecting, contact, checks, consumer, adds, faults>>

\* Its connection is closed: the error leaves the entry where it is.
GreetFails(q) ==
    /\ At(q, "hello") /\ ~link[call[q].link].open
    /\ holder' = [holder EXCEPT ![q[1]] = None]
    /\ Goes(q, "failed")
    /\ UNCHANGED <<table, connecting, link, contact, checks, consumer, adds, faults>>

\* remove_from_connecting after the error, with the service state locked.
CleanUp(q) ==
    /\ At(q, "failed") /\ holder[q[1]] = None
    /\ connecting' = [connecting EXCEPT ![q[1]] = @ \ {q[2]}]
    /\ Returns(q, None)
    /\ UNCHANGED <<table, holder, link, contact, checks, consumer, adds, faults>>

----------------------------------------------------------------------------
(* The listener: the same function for a connection that was accepted.     *)

Accepts(c, step, next) ==
    /\ link[c].accept = step
    /\ link' = [link EXCEPT ![c].accept = next]

AcceptEnter(c) ==
    LET d == link[c].to IN
    /\ Accepts(c, "new", "insert") /\ holder[d] = None
    /\ holder' = [holder EXCEPT ![d] = <<c>>]
    /\ connecting' = [connecting EXCEPT ![d] = @ \ {link[c].from}]
    /\ UNCHANGED <<table, call, contact, checks, consumer, adds, faults>>

\* CONNECTION_TIMEOUT, or the connection fails before it is established.
AcceptFails(c) ==
    /\ ~link[c].open /\ Accepts(c, "new", "done")
    /\ UNCHANGED <<table, connecting, holder, call, contact, checks, consumer, adds,
                   faults>>

\* Variant: only a connection this device dialled is listed.
AcceptInsertUnlisted(c) ==
    /\ Accepts(c, "insert", "done")
    /\ holder' = [holder EXCEPT ![link[c].to] = None]
    /\ UNCHANGED <<table, connecting, call, contact, checks, consumer, adds, faults>>

AcceptInsert(c) ==
    LET d == link[c].to IN
    /\ Accepts(c, "insert", "done")
    /\ table' = [table EXCEPT ![d][link[c].from] = c]
    /\ holder' = [holder EXCEPT ![d] = None]
    /\ UNCHANGED <<connecting, call, contact, checks, consumer, adds, faults>>

----------------------------------------------------------------------------
(* The handshake messages.                                                 *)

\* The responder's handler runs from PeerConnection::new on.
Listening(c) == link[c].accept \in {"insert", "done"}

Takes(c, m, next) ==
    /\ link[c].hs = m /\ (m \in {"first", "exchange"} => Listening(c))
    /\ link' = [link EXCEPT ![c].hs = next]
    /\ UNCHANGED <<table, connecting, holder, call, checks, consumer, adds, faults>>

\* Variant: the request is answered, but not stored.
TakeFirstUnstored(c) == Takes(c, "first", "firstReply") /\ UNCHANGED contact

\* process_first_user_connection_request: the one-time token is the right to
\* be stored, as a user whose first sync is done.
TakeFirst(c) ==
    /\ Takes(c, "first", "firstReply")
    /\ contact' = [contact EXCEPT ![link[c].to][link[c].from] = "synced"]

\* ..._handshake_response: the initiator stores, then starts the user sync.
TakeFirstReply(c) ==
    /\ Takes(c, "firstReply", "met")
    /\ contact' = [contact EXCEPT ![link[c].from][link[c].to] = "synced"]

\* process_exchange_message at the responder: it must find the dialling
\* device's user to answer with that user's token.
TakeExchange(c) ==
    /\ Takes(c, "exchange", IF contact[link[c].to][link[c].from] = "none"
                            THEN "silent" ELSE "exchangeReply")
    /\ UNCHANGED contact

\* The same at the initiator, which starts the user sync.
TakeExchangeReply(c) == Takes(c, "exchangeReply", "met") /\ UNCHANGED contact

----------------------------------------------------------------------------
(* start_processing_incoming_events: one event of the front end at a time. *)

CheckCall(d, p) == <<d, p, "check">>

\* The front end answers LiveEditConnected with a DocumentCheck for p, which
\* send_or_reconnect takes to the entry's connection if it is healthy ...
SendCheck(d, p) ==
    /\ consumer[d].pc = "idle" /\ p \in checks[d] /\ holder[d] = None
    /\ Healthy(table[d][p])
    /\ checks' = [checks EXCEPT ![d] = @ \ {p}]
    /\ UNCHANGED <<table, connecting, holder, call, link, contact, consumer, adds,
                   faults>>

Redials(d, p) ==
    /\ consumer' = [consumer EXCEPT ![d] = [pc |-> "connect", peer |-> p]]
    /\ call' = [call EXCEPT ![CheckCall(d, p)] = [pc |-> "start", link |-> None]]

\* ... to another one if there is none ...
Reconnect(d, p) ==
    /\ consumer[d].pc = "idle" /\ p \in checks[d] /\ holder[d] = None
    /\ table[d][p] = None
    /\ checks' = [checks EXCEPT ![d] = @ \ {p}]
    /\ Redials(d, p)
    /\ UNCHANGED <<table, connecting, holder, link, contact, adds, faults>>

\* ... and a closed one ...
FindClosed(d, p) ==
    /\ consumer[d].pc = "idle" /\ p \in checks[d] /\ holder[d] = None
    /\ table[d][p] # None /\ ~Healthy(table[d][p])
    /\ checks' = [checks EXCEPT ![d] = @ \ {p}]
    /\ consumer' = [consumer EXCEPT ![d] = [pc |-> "purge", peer |-> p]]
    /\ UNCHANGED <<table, connecting, holder, call, link, contact, adds, faults>>

\* Variant: the closed entry is left for the dial to replace.
PurgeLeft(d, p) ==
    /\ consumer[d] = [pc |-> "purge", peer |-> p] /\ holder[d] = None
    /\ Redials(d, p)
    /\ UNCHANGED <<table, connecting, holder, link, contact, checks, adds, faults>>

\* ... is removed first, by the peer's id: remove_connection takes whatever
\* entry is there by then.
Purge(d, p) ==
    /\ consumer[d] = [pc |-> "purge", peer |-> p] /\ holder[d] = None
    /\ table' = [table EXCEPT ![d][p] = None]
    /\ Redials(d, p)
    /\ UNCHANGED <<connecting, holder, link, contact, checks, adds, faults>>

\* The connection that connect_with_ticket returned takes the message.
Reconnected(d, p) ==
    /\ consumer[d] = [pc |-> "connect", peer |-> p] /\ At(CheckCall(d, p), "returned")
    /\ consumer' = [consumer EXCEPT ![d] = Resting]
    /\ call' = [call EXCEPT ![CheckCall(d, p)] = NoCall]
    /\ UNCHANGED <<table, connecting, holder, link, contact, checks, adds, faults>>

----------------------------------------------------------------------------
(* The users and the network.                                              *)

\* add_known_user, also for a user who is there: the row is made new.
AddKnownUser(d, e) ==
    /\ d # e /\ adds < MaxAdds /\ adds' = adds + 1
    /\ contact' = [contact EXCEPT ![d][e] = "added"]
    /\ UNCHANGED <<table, connecting, holder, call, link, checks, consumer, faults>>

\* A connection is lost with the message on it; both ends see it at once.
Lose(c) ==
    /\ Fault("lose") /\ link[c].open
    /\ link' = [link EXCEPT ![c] = [from |-> @.from, to |-> @.to, open |-> FALSE,
                                     accept |-> @.accept, hs |-> "silent"]]
    /\ UNCHANGED <<table, connecting, holder, call, contact, checks, consumer, adds>>

----------------------------------------------------------------------------
Connecting(q) ==
    \/ LookUp(q) \/ UseExisting(q) \/ CheckEstablished(q) \/ Mark(q) \/ Dial(q)
    \/ Enter(q) \/ Insert(q) \/ Greet(q) \/ GreetFails(q) \/ CleanUp(q)

Arriving(c) ==
    \/ AcceptEnter(c) \/ AcceptFails(c) \/ AcceptInsert(c)
    \/ TakeFirst(c) \/ TakeFirstReply(c) \/ TakeExchange(c) \/ TakeExchangeReply(c)

Consuming(d, p) ==
    \/ SendCheck(d, p) \/ Reconnect(d, p) \/ FindClosed(d, p) \/ Purge(d, p)
    \/ Reconnected(d, p)

Next ==
    \/ \E q \in Call : Ask(q) \/ Connecting(q) \/ DialFails(q)
    \/ \E c \in Link : Arriving(c) \/ Lose(c)
    \/ \E d, e \in Node : Consuming(d, e) \/ Broadcast(d, e) \/ AddKnownUser(d, e)

Spec == Init /\ [][Next]_vars

\* Tasks and handlers that run go on, the event loop takes the next event, and
\* a device keeps asking: every edit of a shared note is broadcast, every
\* change of a resource asks for a sync.
Fairness ==
    /\ \A q \in Call : WF_vars(Connecting(q))
    /\ \A q \in Call : q[3] # "check" => SF_vars(Ask(q))
    /\ \A c \in Link : WF_vars(Arriving(c))
    /\ \A q \in Call : q[3] = "live" =>
          WF_vars(Consuming(q[1], q[2])) /\ WF_vars(Broadcast(q[1], q[2]))

FairSpec == Spec /\ Fairness

----------------------------------------------------------------------------
(* Properties.                                                             *)

\* connect_with_ticket is under way and has its mark, or may have had it.
Dialling(q) == call[q].pc \in {"dial", "handshake"}

\* A mark is never left behind: connect_with_ticket leaves by four ways, and
\* one that forgot the mark would answer Ok(None) to every later call for that
\* peer for as long as the process runs.
MarksHaveDials ==
    \A d \in Node : \A p \in connecting[d] :
        \E q \in Call : q[1] = d /\ q[2] = p /\ (Dialling(q) \/ At(q, "failed"))

\* Whoever takes a peer for one whose first sync is done is in that peer's
\* users: an exchange that the responder cannot look up is not answered, and
\* the connection stays mute.
SyncedIsKnown ==
    \A d, e \in Node : contact[d][e] = "synced" => contact[e][d] # "none"

\* Nothing is dialled, accepted or handled.
Quiet ==
    /\ \A q \in Call : At(q, "idle")
    /\ \A c \in Link : /\ link[c].accept = "done"
                       /\ link[c].hs \in {"met", "silent", "none"}
    /\ \A d \in Node : consumer[d].pc = "idle"

\* A device that can send on an entry reaches one that can answer: the answer
\* goes by the peer's own entry (get_connection_by_id), which a purge by id
\* may have taken although it was a newer connection.
Answerable ==
    Quiet => \A d, e \in Node :
        d # e /\ Healthy(table[d][e]) => table[e][d] # None

\* An entry that is open is one both handshakes went through on.
Mutual ==
    Quiet => \A d, e \in Node :
        d # e /\ Healthy(table[d][e]) => link[table[d][e]].hs = "met"

\* d comes back to an open connection with every device it knows, and for good.
Reconnects(d) ==
    \A e \in Node \ {d} : contact[d][e] # "none" => <>[]Healthy(table[d][e])

\* A device on which a shared note is edited does: broadcasts that fail lead,
\* by LiveEditConnected and a DocumentCheck, to send_or_reconnect.
EditorsReconnect == \A d \in Node : <<d, "live">> \in Asks => Reconnects(d)

\* So does a device that only asks for syncs: README.md:26 has "Full
\* functionality without internet connectivity, syncing when available".
SyncersReconnect == \A d \in Node : <<d, "sync">> \in Asks => Reconnects(d)
=============================================================================
