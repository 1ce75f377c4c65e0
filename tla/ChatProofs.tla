---------------------------- MODULE ChatProofs ----------------------------
(***************************************************************************)
(* What holds of Chat for every set of devices and chats, any number of    *)
(* messages, and also when the tasks of a device interleave.               *)
(***************************************************************************)
EXTENDS Chat, FiniteSetTheorems, SequenceTheorems, TLAPS

----------------------------------------------------------------------------
(* The invariant.                                                          *)

\* What a device may send: messages of the chat that the packet is about.
Sound == {p \in Packet : \A m \in p.new : m.chat = p.chat}

Front ==
    /\ open \in [Node -> Chat \cup {None}]
    /\ fetching \in [Node -> Chat \cup {None}]
    /\ screen \in [Node -> [Chat -> SUBSET ChatMessage]]
    /\ saving \in [Node -> SUBSET (Chat \X SUBSET ChatMessage)]

Tables ==
    /\ stored \in [Node -> [Chat -> Stored]]
    /\ change \in [Node -> Change]
    /\ current \in [Node -> Chat \cup {None}]

Buffers ==
    /\ buffered \in [Node -> SUBSET Chat]
    /\ buffer \in [Node -> [Chat -> SUBSET ChatMessage]]
    /\ BufferOfChat

Tasks ==
    /\ typed \in [Node -> SUBSET ChatMessage]
    /\ sending \in [Node -> SUBSET ChatMessage]
    /\ received \in [Node -> Chat \cup {None}]

Queues == queue \in [Node -> [Node -> Seq(Sound)]]

Bounds ==
    /\ switches \in 0 .. MaxSwitches
    /\ sent \subseteq ChatMessage /\ IsFiniteSet(sent)

IInv ==
    Front /\ Tables /\ Buffers /\ Tasks /\ connected \in [Node -> SUBSET Node]
    /\ Queues /\ Bounds

----------------------------------------------------------------------------
(* Packets.                                                                *)

\* A packet whose new messages are of its chat.
LEMMA AboutSound ==
    ASSUME NEW kind \in {"check", "vectors", "exchange", "response", "update"},
           NEW c \in Chat, NEW new \in SUBSET ChatMessage, \A m \in new : m.chat = c,
           NEW vector \in SUBSET ChatMessage
    PROVE  About(kind, c, new, vector) \in Sound
BY DEF About, Sound, Packet

\* The packet that the consumer takes.
LEMMA FirstSound ==
    ASSUME Queues, NEW d \in Node, NEW e \in Node, queue[e][d] # <<>>
    PROVE  /\ First(d, e) \in Sound /\ First(d, e).chat \in Chat
           /\ First(d, e).new \in SUBSET ChatMessage
           /\ First(d, e).vector \in SUBSET ChatMessage
           /\ \A m \in First(d, e).new : m.chat = First(d, e).chat
<1>1. queue[e][d] \in Seq(Sound)
  BY DEF Queues
<1>2. Head(queue[e][d]) \in Sound
  BY <1>1, HeadTailProperties
<1> QED BY <1>2 DEF First, Sound, Packet

\* Without it the queues are still typed ...
LEMMA TakenSound ==
    ASSUME Queues, NEW d \in Node, NEW e \in Node, queue[e][d] # <<>>
    PROVE  Taken(d, e) \in [Node -> [Node -> Seq(Sound)]]
<1>1. queue[e][d] \in Seq(Sound)
  BY DEF Queues
<1>2. Tail(queue[e][d]) \in Seq(Sound)
  BY <1>1, HeadTailProperties
<1> QED BY <1>2 DEF Queues, Taken

\* ... with an answer as well, ...
LEMMA AnswerSound ==
    ASSUME Queues, NEW d \in Node, NEW e \in Node, queue[e][d] # <<>>,
           NEW m \in Sound, Answer(d, e, m)
    PROVE  Queues'
<1> DEFINE Q == Taken(d, e)
<1>1. Q \in [Node -> [Node -> Seq(Sound)]]
  BY TakenSound
<1>2. Append(Q[d][e], m) \in Seq(Sound)
  BY <1>1
<1>3. queue' = [Q EXCEPT ![d][e] = Append(@, m)]
  BY DEF Answer
<1> HIDE DEF Q
<1> QED BY <1>1, <1>2, <1>3 DEF Queues

\* ... and with a packet that is sent.
LEMMA SendSound ==
    ASSUME Queues, NEW d \in Node, NEW e \in Node, NEW m \in Sound, Send(d, e, m)
    PROVE  Queues'
<1>1. Append(queue[d][e], m) \in Seq(Sound)
  BY DEF Queues
<1> QED BY <1>1 DEF Queues, Send

----------------------------------------------------------------------------
(* Buffers and screens.                                                    *)

\* apply_update with messages of the chat.
LEMMA AppliesOfChat ==
    ASSUME Buffers, NEW d \in Node, NEW c \in Chat, NEW new \in SUBSET ChatMessage,
           \A m \in new : m.chat = c, Applies(d, c, new)
    PROVE  Buffers'
<1>1. /\ buffered' \in [Node -> SUBSET Chat]
      /\ buffer' \in [Node -> [Chat -> SUBSET ChatMessage]]
  BY DEF Buffers, Applies
<1>2. \A f \in Node, k \in Chat :
         buffer'[f][k] = IF f = d /\ k = c THEN buffer[d][c] \cup new ELSE buffer[f][k]
  BY DEF Buffers, Applies
<1> QED BY <1>1, <1>2 DEF Buffers, BufferOfChat

\* handleDocumentUpdates.
LEMMA ShowsTyped ==
    ASSUME Front, NEW d \in Node, NEW c \in Chat \cup {None},
           NEW new \in SUBSET ChatMessage, Shows(d, c, new)
    PROVE  screen' \in [Node -> [Chat -> SUBSET ChatMessage]]
BY DEF Front, Shows

----------------------------------------------------------------------------
(* The steps.                                                              *)

LEMMA InitIInv == Init => IInv
<1> SUFFICES ASSUME Init PROVE IInv
  OBVIOUS
<1>1. Front
  BY DEF Init, Front
<1>2. Tables
  BY EarlierAssumption DEF Init, Tables, Stored, ChatMessage, Change, NoChange
<1>3. Buffers
  BY DEF Init, Buffers, BufferOfChat
<1>4. Tasks /\ connected \in [Node -> SUBSET Node]
  BY DEF Init, Tasks
<1>5. Queues
  BY DEF Init, Queues
<1>6. Bounds
  BY EarlierAssumption, BoundAssumption DEF Init, Bounds, ChatMessage
<1> QED BY <1>1, <1>2, <1>3, <1>4, <1>5, <1>6 DEF IInv

\* The front end: opening, closing and showing a chat, sending, saving.
LEMMA FrontEndStep ==
    ASSUME IInv, NEW d \in Node,
           \/ SendChatMessage(d) \/ \E c \in Chat \cup {None} : SwitchChat(d, c)
           \/ Fronting(d)
    PROVE  IInv'
<1>1. CASE SendChatMessage(d)
  <2> DEFINE c == open[d]
             m == [chat |-> c, by |-> d, n |-> Cardinality(sent) + 1]
  <2>1. c \in Chat
    BY <1>1 DEF SendChatMessage, IInv, Front
  <2>2. Cardinality(sent) \in Nat /\ IsFiniteSet(sent)
    BY FS_CardinalityType DEF IInv, Bounds
  <2>3. Cardinality(sent) + 1 \in 1 .. MaxMessages
    BY <1>1, <2>2, BoundAssumption DEF SendChatMessage
  <2>4. m \in ChatMessage
    BY <2>1, <2>3 DEF ChatMessage
  <2>5. IsFiniteSet(sent \cup {m})
    BY <2>2, FS_AddElement
  <2>6. /\ screen' = [screen EXCEPT ![d][c] = @ \cup {m}]
        /\ typed' = [typed EXCEPT ![d] = @ \cup {m}]
        /\ saving' = [saving EXCEPT ![d] = @ \cup {<<c, screen[d][c] \cup {m}>>}]
        /\ sent' = sent \cup {m}
        /\ UNCHANGED <<open, fetching, stored, change, current, buffers, sending,
                       received, net, switches>>
    BY <1>1 DEF SendChatMessage
  <2> HIDE DEF c, m
  <2>7. Front'
    BY <2>1, <2>4, <2>6 DEF IInv, Front
  <2>8. Tasks' /\ Bounds'
    BY <2>4, <2>5, <2>6 DEF IInv, Tasks, Bounds
  <2>9. Tables' /\ Buffers' /\ Queues' /\ connected' \in [Node -> SUBSET Node]
    BY <2>6 DEF IInv, Tables, Buffers, BufferOfChat, Queues, buffers, net
  <2> QED BY <2>7, <2>8, <2>9 DEF IInv
<1>2. CASE \E c \in Chat \cup {None} : SwitchChat(d, c)
  <2> PICK c \in Chat \cup {None} : SwitchChat(d, c)
    BY <1>2
  <2>1. Front'
    BY DEF SwitchChat, IInv, Front
  <2>2. Tables' /\ Bounds'
    BY BoundAssumption DEF SwitchChat, IInv, Tables, Bounds, Change
  <2>3. Buffers' /\ Tasks' /\ Queues' /\ connected' \in [Node -> SUBSET Node]
    BY DEF SwitchChat, IInv, Buffers, BufferOfChat, Tasks, Queues, buffers, tasks, net
  <2> QED BY <2>1, <2>2, <2>3 DEF IInv
<1>3. CASE ShowChat(d)
  <2>1. fetching[d] \in Chat /\ stored[d][fetching[d]] \in Stored
    BY <1>3 DEF ShowChat, IInv, Front, Tables
  <2>2. Front'
    BY <1>3, <2>1 DEF ShowChat, IInv, Front, Stored
  <2>3. /\ Tables' /\ Bounds' /\ Buffers' /\ Tasks' /\ Queues'
        /\ connected' \in [Node -> SUBSET Node]
    BY <1>3 DEF ShowChat, IInv, Tables, Bounds, Buffers, BufferOfChat, Tasks, Queues,
                buffers, tasks, net, bounds
  <2> QED BY <2>2, <2>3 DEF IInv
<1>4. ASSUME NEW save \in saving[d], SaveScreen(d, save)
      PROVE  IInv'
  <2>1. save[1] \in Chat /\ save[2] \in SUBSET ChatMessage
    BY DEF IInv, Front
  <2>2. [form |-> "array", has |-> save[2]] \in Stored
    BY <2>1 DEF Stored
  <2>3. Front'
    BY <1>4 DEF SaveScreen, IInv, Front
  <2>4. Tables'
    BY <1>4, <2>1, <2>2 DEF SaveScreen, IInv, Tables
  <2>5. Bounds' /\ Buffers' /\ Tasks' /\ Queues' /\ connected' \in [Node -> SUBSET Node]
    BY <1>4 DEF SaveScreen, IInv, Bounds, Buffers, BufferOfChat, Tasks, Queues,
                buffers, tasks, net, bounds
  <2> QED BY <2>3, <2>4, <2>5 DEF IInv
<1> QED BY <1>1, <1>2, <1>3, <1>4 DEF Fronting

\* The note-change task.
LEMMA ChangeStep ==
    ASSUME IInv, NEW d \in Node, Changing(d)
    PROVE  IInv'
<1>1. change[d] \in Change /\ NoChange \in Change
  BY DEF IInv, Tables, Change, NoChange
<1>2. CASE LoadChat(d)
  <2>1. change[d].to \in Chat
    BY <1>1, <1>2 DEF LoadChat, Change
  <2>2. Tables'
    BY <1>2, <2>1 DEF LoadChat, IInv, Tables, Change
  <2>3. /\ buffered' \in [Node -> SUBSET Chat]
        /\ buffer' \in [Node -> [Chat -> SUBSET ChatMessage]]
    BY <1>2, <2>1 DEF LoadChat, IInv, Buffers
  <2>4. \A f \in Node, k \in Chat : buffer'[f][k] \subseteq buffer[f][k]
    BY <1>2, <2>1 DEF LoadChat, IInv, Buffers
  <2>5. Buffers'
    BY <2>3, <2>4 DEF IInv, Buffers, BufferOfChat
  <2>6. Front' /\ Tasks' /\ Queues' /\ Bounds' /\ connected' \in [Node -> SUBSET Node]
    BY <1>2 DEF LoadChat, IInv, Front, Tasks, Queues, Bounds, front, tasks, net, bounds
  <2> QED BY <2>2, <2>5, <2>6 DEF IInv
<1>3. CASE CloseChat(d)
  <2>1. Tables'
    BY <1>1, <1>3 DEF CloseChat, IInv, Tables
  <2>2. /\ Front' /\ Buffers' /\ Tasks' /\ Queues' /\ Bounds'
        /\ connected' \in [Node -> SUBSET Node]
    BY <1>3 DEF CloseChat, IInv, Front, Buffers, BufferOfChat, Tasks, Queues, Bounds,
                front, buffers, tasks, net, bounds
  <2> QED BY <2>1, <2>2 DEF IInv
<1>4. CASE ReconcileOnOpen(d)
  <2>1. Tables' /\ connected' \in [Node -> SUBSET Node]
    BY <1>1, <1>4 DEF ReconcileOnOpen, IInv, Tables
  <2>2. Front' /\ Buffers' /\ Tasks' /\ Queues' /\ Bounds'
    BY <1>4 DEF ReconcileOnOpen, IInv, Front, Buffers, BufferOfChat, Tasks, Queues,
                Bounds, front, buffers, tasks, bounds
  <2> QED BY <2>1, <2>2 DEF IInv
<1> QED BY <1>2, <1>3, <1>4 DEF Changing

\* The sync-update task: a message of the user's to the buffer and to the others.
LEMMA UpdateStep ==
    ASSUME IInv, NEW d \in Node, Updating(d)
    PROVE  IInv'
<1>1. PICK m \in typed[d] \cup sending[d] : TakeTyped(d, m) \/ BroadcastTyped(d, m)
  BY DEF Updating
<1>2. m \in ChatMessage /\ m.chat \in Chat
  BY DEF IInv, Tasks, ChatMessage
<1> DEFINE one == {m}
<1>3. one \in SUBSET ChatMessage /\ \A x \in one : x.chat = m.chat
  BY <1>2
<1>4. CASE TakeTyped(d, m)
  <2>1. Applies(d, m.chat, one)
    BY <1>4 DEF TakeTyped
  <2>2. Tasks'
    BY <1>2, <1>4 DEF TakeTyped, IInv, Tasks
  <2>3. Front' /\ Tables' /\ Queues' /\ Bounds' /\ connected' \in [Node -> SUBSET Node]
    BY <1>4 DEF TakeTyped, IInv, Front, Tables, Queues, Bounds, front, net, bounds
  <2> HIDE DEF one
  <2>4. Buffers'
    BY <1>2, <1>3, <2>1, AppliesOfChat DEF IInv
  <2> QED BY <2>2, <2>3, <2>4 DEF IInv
<1>5. CASE BroadcastTyped(d, m)
  <2> DEFINE p == About("update", m.chat, one, {})
  <2>1. queue' = [queue EXCEPT ![d] = [e \in Node |->
                     IF e # d THEN Append(@[e], p) ELSE @[e]]]
    BY <1>5 DEF BroadcastTyped
  <2>2. Tasks'
    BY <1>5 DEF BroadcastTyped, IInv, Tasks
  <2>3. Front' /\ Tables' /\ Buffers' /\ Bounds' /\ connected' \in [Node -> SUBSET Node]
    BY <1>5 DEF BroadcastTyped, IInv, Front, Tables, Buffers, BufferOfChat, Bounds,
                front, buffers, bounds
  <2> HIDE DEF one
  <2>4. p \in Sound
    BY <1>2, <1>3, AboutSound
  <2> HIDE DEF p
  <2>5. \A e \in Node : Append(queue[d][e], p) \in Seq(Sound)
    BY <2>4 DEF IInv, Queues
  <2>6. Queues'
    BY <2>1, <2>5 DEF IInv, Queues
  <2> QED BY <2>2, <2>3, <2>6 DEF IInv
<1> QED BY <1>1, <1>4, <1>5

\* The consumer: what the packets of a peer do.
LEMMA ConsumeStep ==
    ASSUME IInv, NEW d \in Node, Consuming(d)
    PROVE  IInv'
<1>1. ASSUME NEW e \in Node, TakeConnected(d, e)
      PROVE  IInv'
  <2>1. CASE current[d] = None
    <3>1. connected' \in [Node -> SUBSET Node] /\ Queues'
      BY <1>1, <2>1 DEF TakeConnected, IInv, Queues
    <3>2. Front' /\ Tables' /\ Buffers' /\ Tasks' /\ Bounds'
      BY <1>1 DEF TakeConnected, IInv, Front, Tables, Buffers, BufferOfChat, Tasks,
                  Bounds, front, buffers, tasks, bounds
    <3> QED BY <3>1, <3>2 DEF IInv
  <2>2. CASE current[d] # None
    <3>1. current[d] \in Chat
      BY <2>2 DEF IInv, Tables
    <3>2. About("check", current[d], {}, {}) \in Sound
      BY <3>1, AboutSound
    <3>3. Send(d, e, About("check", current[d], {}, {}))
      BY <1>1, <2>2 DEF TakeConnected
    <3>4. Queues'
      BY <3>2, <3>3, SendSound DEF IInv
    <3>5. connected' \in [Node -> SUBSET Node]
      BY <1>1 DEF TakeConnected, IInv
    <3>6. Front' /\ Tables' /\ Buffers' /\ Tasks' /\ Bounds'
      BY <1>1 DEF TakeConnected, IInv, Front, Tables, Buffers, BufferOfChat, Tasks,
                  Bounds, front, buffers, tasks, bounds
    <3> QED BY <3>4, <3>5, <3>6 DEF IInv
  <2> QED BY <2>1, <2>2
<1>2. ASSUME NEW e \in Node, TakeCheck(d, e)
      PROVE  IInv'
  <2> DEFINE c == First(d, e).chat
             p == About("vectors", c, {}, Vector(d, c))
  <2>1. queue[e][d] # <<>>
    BY <1>2 DEF TakeCheck, Arrived
  <2>2. c \in Chat
    BY <2>1, FirstSound DEF IInv
  <2>3. Vector(d, c) \in SUBSET ChatMessage
    BY <2>2 DEF Vector, IInv, Buffers
  <2>4. p \in Sound
    BY <2>2, <2>3, AboutSound
  <2>5. Answer(d, e, p) \/ queue' = Taken(d, e)
    BY <1>2 DEF TakeCheck
  <2> HIDE DEF p
  <2>6. Queues'
    BY <2>1, <2>4, <2>5, AnswerSound, TakenSound DEF IInv, Queues
  <2>7. /\ Front' /\ Tables' /\ Buffers' /\ Tasks' /\ Bounds'
        /\ connected' \in [Node -> SUBSET Node]
    BY <1>2 DEF TakeCheck, IInv, Front, Tables, Buffers, BufferOfChat, Tasks, Bounds,
                front, buffers, tasks, bounds
  <2> QED BY <2>6, <2>7 DEF IInv
<1>3. ASSUME NEW e \in Node, TakeVectors(d, e)
      PROVE  IInv'
  <2> DEFINE c == First(d, e).chat
             new == UpdatesFor(d, c, First(d, e).vector)
             p == About("exchange", c, new, Vector(d, c))
  <2>1. queue[e][d] # <<>>
    BY <1>3 DEF TakeVectors, Arrived
  <2>2. c \in Chat
    BY <2>1, FirstSound DEF IInv
  <2>3. Vector(d, c) \in SUBSET ChatMessage
    BY <2>2 DEF Vector, IInv, Buffers
  <2>4. new \in SUBSET ChatMessage /\ \A m \in new : m.chat = c
    BY <2>2 DEF UpdatesFor, IInv, Buffers, BufferOfChat
  <2>5. Answer(d, e, p) \/ queue' = Taken(d, e)
    BY <1>3 DEF TakeVectors
  <2> HIDE DEF new
  <2>6. p \in Sound
    BY <2>2, <2>3, <2>4, AboutSound
  <2> HIDE DEF p
  <2>7. Queues'
    BY <2>1, <2>5, <2>6, AnswerSound, TakenSound DEF IInv, Queues
  <2>8. /\ Front' /\ Tables' /\ Buffers' /\ Tasks' /\ Bounds'
        /\ connected' \in [Node -> SUBSET Node]
    BY <1>3 DEF TakeVectors, IInv, Front, Tables, Buffers, BufferOfChat, Tasks, Bounds,
                front, buffers, tasks, bounds
  <2> QED BY <2>7, <2>8 DEF IInv
<1>4. ASSUME NEW e \in Node, TakeExchange(d, e)
      PROVE  IInv'
  <2> DEFINE m == First(d, e)
             new == DiffAfter(d, m.chat, m.new, m.vector)
             p == About("response", m.chat, new, {})
  <2>1. queue[e][d] # <<>>
    BY <1>4 DEF TakeExchange, Arrived
  <2>2. /\ m.chat \in Chat /\ m.new \in SUBSET ChatMessage
        /\ \A x \in m.new : x.chat = m.chat
    BY <2>1, FirstSound DEF IInv
  <2>3. Tables' /\ Tasks' /\ Bounds' /\ connected' \in [Node -> SUBSET Node]
    BY <1>4 DEF TakeExchange, IInv, Tables, Tasks, Bounds, tasks, bounds
  <2>4. open' = open /\ fetching' = fetching /\ saving' = saving
    BY <1>4 DEF TakeExchange
  <2>5. CASE m.chat \in buffered[d]
    <3>1. Applies(d, m.chat, m.new) /\ Shows(d, current[d], m.new) /\ Answer(d, e, p)
      BY <1>4, <2>5 DEF TakeExchange
    <3>2. new \in SUBSET ChatMessage /\ \A x \in new : x.chat = m.chat
      BY <2>2 DEF DiffAfter, IInv, Buffers, BufferOfChat
    <3> HIDE DEF new
    <3>3. p \in Sound
      BY <2>2, <3>2, AboutSound
    <3> HIDE DEF p, m
    <3>4. Queues'
      BY <2>1, <3>1, <3>3, AnswerSound DEF IInv
    <3>5. Buffers'
      BY <2>2, <3>1, AppliesOfChat DEF IInv
    <3>6. current[d] \in Chat \cup {None}
      BY DEF IInv, Tables
    <3>7. screen' \in [Node -> [Chat -> SUBSET ChatMessage]]
      BY <2>2, <3>1, <3>6, ShowsTyped DEF IInv
    <3>8. Front'
      BY <2>4, <3>7 DEF IInv, Front
    <3> QED BY <2>3, <3>4, <3>5, <3>8 DEF IInv
  <2>6. CASE m.chat \notin buffered[d]
    <3>1. queue' = Taken(d, e) /\ UNCHANGED <<buffers, screen>>
      BY <1>4, <2>6 DEF TakeExchange
    <3>2. Queues'
      BY <2>1, <3>1, TakenSound DEF IInv, Queues
    <3>3. Front' /\ Buffers'
      BY <2>4, <3>1 DEF IInv, Front, Buffers, BufferOfChat, buffers
    <3> QED BY <2>3, <3>2, <3>3 DEF IInv
  <2> QED BY <2>5, <2>6
<1>5. ASSUME NEW e \in Node, TakeResponse(d, e)
      PROVE  IInv'
  <2> DEFINE m == First(d, e)
  <2>1. queue[e][d] # <<>>
    BY <1>5 DEF TakeResponse, Arrived
  <2>2. /\ m.chat \in Chat /\ m.new \in SUBSET ChatMessage
        /\ \A x \in m.new : x.chat = m.chat
    BY <2>1, FirstSound DEF IInv
  <2>3. Tables' /\ Tasks' /\ Bounds' /\ connected' \in [Node -> SUBSET Node]
    BY <1>5 DEF TakeResponse, IInv, Tables, Tasks, Bounds, tasks, bounds
  <2>4. /\ open' = open /\ fetching' = fetching /\ saving' = saving
        /\ queue' = Taken(d, e) /\ Shows(d, current[d], m.new)
        /\ Applies(d, m.chat, m.new) \/ UNCHANGED buffers
    BY <1>5 DEF TakeResponse
  <2> HIDE DEF m
  <2>5. Queues'
    BY <2>1, <2>4, TakenSound DEF IInv, Queues
  <2>6. Applies(d, m.chat, m.new) => Buffers'
    BY <2>2, AppliesOfChat DEF IInv
  <2>7. UNCHANGED buffers => Buffers'
    BY DEF IInv, Buffers, BufferOfChat, buffers
  <2>8. current[d] \in Chat \cup {None}
    BY DEF IInv, Tables
  <2>9. screen' \in [Node -> [Chat -> SUBSET ChatMessage]]
    BY <2>2, <2>4, <2>8, ShowsTyped DEF IInv
  <2>10. Front'
    BY <2>4, <2>9 DEF IInv, Front
  <2> QED BY <2>3, <2>4, <2>5, <2>6, <2>7, <2>10 DEF IInv
<1>6. ASSUME NEW e \in Node, TakeUpdate(d, e)
      PROVE  IInv'
  <2> DEFINE m == First(d, e)
  <2>1. queue[e][d] # <<>>
    BY <1>6 DEF TakeUpdate, Arrived
  <2>2. /\ m.chat \in Chat /\ m.new \in SUBSET ChatMessage
        /\ \A x \in m.new : x.chat = m.chat
    BY <2>1, FirstSound DEF IInv
  <2>3. /\ queue' = Taken(d, e) /\ Applies(d, m.chat, m.new)
        /\ screen' = [screen EXCEPT ![d][m.chat] = @ \cup m.new]
        /\ received' = [received EXCEPT ![d] = m.chat]
        /\ UNCHANGED <<open, fetching, saving, stored, change, current, typed, sending,
                       connected, bounds>>
    BY <1>6 DEF TakeUpdate
  <2> HIDE DEF m
  <2>4. Queues'
    BY <2>1, <2>3, TakenSound DEF IInv, Queues
  <2>5. Buffers'
    BY <2>2, <2>3, AppliesOfChat DEF IInv
  <2>6. Front'
    BY <2>2, <2>3 DEF IInv, Front
  <2>7. Tables' /\ Tasks' /\ Bounds' /\ connected' \in [Node -> SUBSET Node]
    BY <2>2, <2>3 DEF IInv, Tables, Tasks, Bounds, bounds
  <2> QED BY <2>4, <2>5, <2>6, <2>7 DEF IInv
<1>7. ASSUME SaveBuffer(d)
      PROVE  IInv'
  <2>1. received[d] \in Chat
    BY <1>7 DEF SaveBuffer, IInv, Tasks
  <2>2. [form |-> "text", has |-> buffer[d][received[d]]] \in Stored
    BY <2>1 DEF Stored, IInv, Buffers
  <2>3. Tables'
    BY <1>7, <2>1, <2>2 DEF SaveBuffer, IInv, Tables
  <2>4. Tasks'
    BY <1>7 DEF SaveBuffer, IInv, Tasks
  <2>5. Front' /\ Buffers' /\ Queues' /\ Bounds' /\ connected' \in [Node -> SUBSET Node]
    BY <1>7 DEF SaveBuffer, IInv, Front, Buffers, BufferOfChat, Queues, Bounds, front,
                buffers, net, bounds
  <2> QED BY <2>3, <2>4, <2>5 DEF IInv
<1> QED BY <1>1, <1>2, <1>3, <1>4, <1>5, <1>6, <1>7 DEF Consuming

LEMMA NextIInv == IInv /\ [Next]_vars => IInv'
<1> SUFFICES ASSUME IInv, [Next]_vars PROVE IInv'
  OBVIOUS
<1>1. ASSUME NEW d \in Node, Fronting(d) PROVE IInv'
  BY <1>1, FrontEndStep
<1>2. ASSUME NEW d \in Node, Changing(d) PROVE IInv'
  BY <1>2, ChangeStep
<1>3. ASSUME NEW d \in Node, Updating(d) PROVE IInv'
  BY <1>3, UpdateStep
<1>4. ASSUME NEW d \in Node, Consuming(d) PROVE IInv'
  BY <1>4, ConsumeStep
<1>5. ASSUME NEW d \in Node,
             SendChatMessage(d) \/ \E c \in Chat \cup {None} : SwitchChat(d, c)
      PROVE  IInv'
  BY <1>5, FrontEndStep
<1>6. ASSUME UNCHANGED vars PROVE IInv'
  BY <1>6 DEF vars, front, buffers, tasks, net, bounds, IInv, Front, Tables, Buffers,
              BufferOfChat, Tasks, Queues, Bounds
<1> QED BY <1>1, <1>2, <1>3, <1>4, <1>5, <1>6 DEF Next, Working

LEMMA Invariant == Spec => []IInv
BY InitIInv, NextIInv, PTL DEF Spec

----------------------------------------------------------------------------
(* The theorems.                                                           *)

\* Every step of chat_state.rs and of the front end keeps its tables typed: a
\* task takes up only what another has left, and no message is numbered
\* beyond the bound.
THEOREM TypeCorrect == Spec => []TypeOK
<1>1. IInv => TypeOK
  <2> SUFFICES ASSUME IInv PROVE TypeOK
    OBVIOUS
  <2>1. ASSUME NEW d \in Node, NEW e \in Node, NEW i \in DOMAIN queue[d][e]
        PROVE  queue[d][e][i] \in Packet
    <3>1. queue[d][e] \in Seq(Sound)
      BY DEF IInv, Queues
    <3>2. queue[d][e][i] \in Sound
      BY <3>1, ElementOfSeq, LenProperties
    <3> QED BY <3>2 DEF Sound
  <2> QED BY <2>1 DEF IInv, Front, Tables, Buffers, Tasks, Bounds, TypeOK
<1> QED BY <1>1, Invariant, PTL

\* ChatState's buffers do not mix chats, whatever is opened, closed, typed and
\* received meanwhile and however the tasks interleave: what is applied to a
\* buffer was sent for its chat, because an answer is made from the buffer of
\* the chat it names (get_state_vectors, generate_updates_for_peer).
THEOREM BuffersNeverMix == Spec => []BufferOfChat
<1>1. IInv => BufferOfChat
  BY DEF IInv, Buffers
<1> QED BY <1>1, Invariant, PTL
=============================================================================
