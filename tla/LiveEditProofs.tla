-------------------------- MODULE LiveEditProofs --------------------------
(***************************************************************************)
(* What holds of LiveEdit for every set of devices and notes and any       *)
(* number of note changes and edits: its types, however the tasks of a     *)
(* device interleave and whatever is merged; that no buffer and no editor  *)
(* has an edit of another note, when a note is not set between the look at *)
(* it and the use of the answer and only the open note is merged.          *)
(***************************************************************************)
EXTENDS LiveEdit, SequenceTheorems, TLAPS

----------------------------------------------------------------------------
(* The type invariant.                                                     *)

\* The messages about a note, and the events that the consumer works on.
Known ==
    [kind : {"check", "vectors", "exchange", "response", "update", "changed"},
     note : Note, edits : SUBSET Edit, vector : SUBSET Edit]

Event ==
    {Resting}
    \cup [pc : {"looked"}, m : Known, from : Node]
    \cup [pc : {"cloned"}, m : Known, from : Node, doc : Doc]

ChangeTask ==
    [pc : {"none", "leave", "clear", "open", "set", "request", "done"},
     at : Node \cup {None}, to : Note \cup {None}, loaded : SUBSET Edit]

\* A task that goes on has a device, and one that opens a note has the note.
Going(c) ==
    /\ c.pc \notin {"none", "done"} => c.at \in Node
    /\ c.pc = "open" => c.to \in Note

Editors ==
    /\ shown \in [Node -> Note \cup {None}]
    /\ fetching \in [Node -> Note \cup {None}]
    /\ screen \in [Node -> SUBSET Edit]
    /\ stored \in [Node -> [Note -> SUBSET Edit]]

Changes == change \in [Change -> ChangeTask] /\ \A k \in Change : Going(change[k])

Buffers ==
    /\ note \in [Node -> Note \cup {None}]
    /\ current \in [Node -> Doc]
    /\ docs \in [Node -> [Doc -> SUBSET Edit]]

Peers == active \in [Node -> SUBSET Node] /\ connected \in [Node -> SUBSET Node]

Queues(S) == queue \in [Node -> [Node -> Seq(S)]]

Tasks ==
    /\ typed \in [Node -> SUBSET Edit]
    /\ applying \in [Node -> SUBSET (Edit \X (Doc \cup {NotCloned}))]
    /\ sending \in [Node -> SUBSET Edit]

Events == handling \in [Node -> Event]

Count == edits \in 0 .. MaxEdits

TInv ==
    Editors /\ Changes /\ Buffers /\ Peers /\ Queues(Message) /\ Tasks /\ Events /\ Count

----------------------------------------------------------------------------
(* Messages and queues, whatever set S the messages are of.                *)

LEMMA AboutKnown ==
    ASSUME NEW kind \in {"check", "vectors", "exchange", "response", "update", "changed"},
           NEW n \in Note, NEW new \in SUBSET Edit, NEW vector \in SUBSET Edit
    PROVE  /\ About(kind, n, new, vector) \in Known
           /\ About(kind, n, new, vector) \in Message
BY DEF About, Known, Message

LEMMA FirstIn ==
    ASSUME NEW S, Queues(S), NEW d \in Node, NEW e \in Node, Arrived(d, e)
    PROVE  First(d, e) \in S /\ Taken(d, e) \in [Node -> [Node -> Seq(S)]]
<1>1. queue[e][d] \in Seq(S) /\ queue[e][d] # <<>>
  BY DEF Queues, Arrived
<1>2. Head(queue[e][d]) \in S /\ Tail(queue[e][d]) \in Seq(S)
  BY <1>1, HeadTailProperties
<1> QED BY <1>2 DEF First, Taken, Queues

LEMMA SendIn ==
    ASSUME NEW S, Queues(S), NEW d \in Node, NEW e \in Node, NEW m \in S, Send(d, e, m)
    PROVE  Queues(S)'
<1>1. Append(queue[d][e], m) \in Seq(S)
  BY DEF Queues
<1> QED BY <1>1 DEF Queues, Send

LEMMA BroadcastIn ==
    ASSUME NEW S, Queues(S), NEW d \in Node, NEW m \in S, Broadcast(d, m)
    PROVE  Queues(S)'
<1>1. \A e \in Node : Append(queue[d][e], m) \in Seq(S)
  BY DEF Queues
<1> QED BY <1>1 DEF Queues, Broadcast

\* Look takes a message, and answers a check for another note.
LEMMA LookIn ==
    ASSUME NEW S, Queues(S), [kind |-> "mismatch"] \in S,
           NEW d \in Node, NEW e \in Node, Look(d, e)
    PROVE  First(d, e) \in S /\ Queues(S)'
<1> DEFINE no == [kind |-> "mismatch"]
           Q == Taken(d, e)
<1>1. First(d, e) \in S /\ Q \in [Node -> [Node -> Seq(S)]]
  BY FirstIn DEF Look
<1>2. queue' = Q \/ queue' = [Q EXCEPT ![d][e] = Append(@, no)]
  BY DEF Look
<1>3. no \in S
  OBVIOUS
<1> HIDE DEF no, Q
<1>4. Append(Q[d][e], no) \in Seq(S)
  BY <1>1, <1>3
<1>5. [Q EXCEPT ![d][e] = Append(@, no)] \in [Node -> [Node -> Seq(S)]]
  BY <1>1, <1>4
<1>6. queue' \in [Node -> [Node -> Seq(S)]]
  BY <1>1, <1>2, <1>5
<1> QED BY <1>1, <1>6 DEF Queues

\* The editor is shown edits.
LEMMA ShowsTyped ==
    ASSUME Editors, NEW d \in Node, NEW n, NEW new \in SUBSET Edit, Shows(d, n, new)
    PROVE  screen' \in [Node -> SUBSET Edit]
BY DEF Editors, Shows

\* What the consumer has looked at.
LEMMA EventKinds ==
    ASSUME TInv, NEW d \in Node
    PROVE  /\ handling[d].pc \in {"rest", "looked", "cloned"}
           /\ handling[d].pc # "rest" =>
                 /\ handling[d].m \in Known /\ handling[d].from \in Node
                 /\ handling[d].m.note \in Note
                 /\ handling[d].m.edits \in SUBSET Edit
                 /\ handling[d].m.vector \in SUBSET Edit
           /\ handling[d].pc = "cloned" => handling[d].doc \in Doc
<1>1. handling[d] \in Event
  BY DEF TInv, Events
<1>2. CASE handling[d] = Resting
  BY <1>2 DEF Resting
<1>3. CASE handling[d] \in [pc : {"looked"}, m : Known, from : Node]
  <2>1. handling[d].m \in Known /\ handling[d].from \in Node /\ handling[d].pc = "looked"
    BY <1>3
  <2> QED BY <2>1 DEF Known
<1>4. CASE handling[d] \in [pc : {"cloned"}, m : Known, from : Node, doc : Doc]
  <2>1. /\ handling[d].m \in Known /\ handling[d].from \in Node
        /\ handling[d].pc = "cloned" /\ handling[d].doc \in Doc
    BY <1>4
  <2> QED BY <2>1 DEF Known
<1> QED BY <1>1, <1>2, <1>3, <1>4 DEF Event

\* The buffers.
LEMMA BufferTyped ==
    ASSUME TInv, NEW d \in Node
    PROVE  Buffer(d) \in SUBSET Edit /\ UpdatesFor(Buffer(d), {}) \in SUBSET Edit
           /\ Exchanged(Buffer(d)) \in SUBSET Edit
BY DEF TInv, Buffers, Buffer, UpdatesFor, Exchanged

----------------------------------------------------------------------------
(* The steps keep the types.                                               *)

LEMMA InitTyped == Init => TInv
<1> SUFFICES ASSUME Init PROVE TInv
  OBVIOUS
<1>1. Editors
  BY DEF Init, Editors
<1>2. Changes
  BY DEF Init, Changes, NoChange, ChangeTask, Going
<1>3. Buffers
  BY BoundAssumption DEF Init, Buffers, Doc
<1>4. Peers /\ Queues(Message)
  BY DEF Init, Peers, Queues
<1>5. Tasks
  BY DEF Init, Tasks
<1>6. Events
  BY DEF Init, Events, Event
<1>7. Count
  BY BoundAssumption DEF Init, Count
<1> QED BY <1>1, <1>2, <1>3, <1>4, <1>5, <1>6, <1>7 DEF TInv

\* The editor.
LEMMA SwitchNoteTyped ==
    ASSUME TInv, NEW d \in Node, NEW n \in Note \cup {None}, SwitchNote(d, n)
    PROVE  TInv'
<1>1. PICK k \in Change :
          change' = [change EXCEPT ![k] = [pc |-> "leave", at |-> d, to |-> n,
                                           loaded |-> {}]]
  BY DEF SwitchNote
<1>2. Changes'
  BY <1>1 DEF TInv, Changes, ChangeTask, Going
<1>3. stored' \in [Node -> [Note -> SUBSET Edit]]
  <2>1. CASE shown[d] \in {None, n}
    BY <2>1 DEF SwitchNote, TInv, Editors
  <2>2. CASE shown[d] \notin {None, n}
    <3>1. shown[d] \in Note
      BY <2>2 DEF TInv, Editors
    <3>2. stored' = [stored EXCEPT ![d][shown[d]] = @ \cup screen[d]]
      BY <2>2 DEF SwitchNote
    <3> QED BY <3>1, <3>2 DEF TInv, Editors
  <2> QED BY <2>1, <2>2
<1>4. Editors'
  <2>1. fetching' = [fetching EXCEPT ![d] = n]
    BY DEF SwitchNote
  <2>2. \/ shown' = [shown EXCEPT ![d] = None] /\ screen' = [screen EXCEPT ![d] = {}]
        \/ shown' = shown /\ screen' = screen
    BY DEF SwitchNote
  <2> QED BY <1>3, <2>1, <2>2 DEF TInv, Editors
<1>5. Buffers' /\ Peers' /\ Queues(Message)' /\ Tasks' /\ Events' /\ Count'
  BY DEF SwitchNote, TInv, Buffers, Peers, Queues, Tasks, Events, Count, buffers, peers,
         tasks
<1> QED BY <1>2, <1>4, <1>5 DEF TInv

LEMMA ShowTyped ==
    ASSUME TInv, NEW d \in Node, Show(d)
    PROVE  TInv'
<1>1. Editors'
  BY DEF Show, TInv, Editors
<1>2. /\ Changes' /\ Buffers' /\ Peers' /\ Queues(Message)' /\ Tasks' /\ Events' /\ Count'
  BY DEF Show, TInv, Changes, Buffers, Peers, Queues, Tasks, Events, Count, buffers,
         peers, tasks
<1> QED BY <1>1, <1>2 DEF TInv

LEMMA TypeTyped ==
    ASSUME TInv, NEW d \in Node, NEW kind \in Kinds, Type(d, kind)
    PROVE  TInv'
<1> DEFINE x == [note |-> shown[d], kind |-> kind, n |-> edits + 1]
<1>1. edits \in 0 .. MaxEdits /\ edits < MaxEdits /\ shown[d] \in Note
  BY DEF Type, TInv, Editors, Count
<1>2. edits + 1 \in 1 .. MaxEdits /\ edits + 1 \in 0 .. MaxEdits
  BY <1>1, BoundAssumption
<1>3. x \in Edit
  BY <1>1, <1>2 DEF Edit
<1>4. /\ screen' = [screen EXCEPT ![d] = @ \cup {x}]
      /\ typed' = [typed EXCEPT ![d] = @ \cup {x}]
      /\ edits' = edits + 1
      /\ UNCHANGED <<shown, fetching, stored, change, buffers, peers, applying, sending,
                     handling>>
  BY DEF Type
<1> HIDE DEF x
<1>5. Editors' /\ Tasks' /\ Count'
  BY <1>2, <1>3, <1>4 DEF TInv, Editors, Tasks, Count
<1>6. Changes' /\ Buffers' /\ Peers' /\ Queues(Message)' /\ Events'
  BY <1>4 DEF TInv, Changes, Buffers, Peers, Queues, Events, buffers, peers
<1> QED BY <1>5, <1>6 DEF TInv

\* The tasks of the user's edits.
LEMMA WritesBackTyped ==
    ASSUME TInv, NEW d \in Node, NEW k \in Doc, NEW new \in SUBSET Edit,
           WritesBack(d, k, new)
    PROVE  /\ current' \in [Node -> Doc]
           /\ docs' \in [Node -> [Doc -> SUBSET Edit]]
BY DEF WritesBack, TInv, Buffers

LEMMA UpdatingTyped ==
    ASSUME TInv, NEW d \in Node, Updating(d)
    PROVE  TInv'
<1>1. PICK x \in typed[d] \cup sending[d] \cup {p[1] : p \in applying[d]} :
          \/ TakeUpdate(d, x) \/ CloneDoc(d, x) \/ BroadcastUpdate(d, x)
          \/ \E k \in Doc : ApplyUpdate(d, x, k)
  BY DEF Updating
<1>2. x \in Edit
  BY DEF TInv, Tasks
<1>3. CASE TakeUpdate(d, x)
  <2>1. /\ typed' = [typed EXCEPT ![d] = @ \ {x}]
        /\ applying' = applying
           \/ applying' = [applying EXCEPT ![d] = @ \cup {<<x, NotCloned>>}]
        /\ sending' = sending \/ sending' = [sending EXCEPT ![d] = @ \cup {x}]
    BY <1>3 DEF TakeUpdate
  <2>2. Tasks'
    BY <1>2, <2>1 DEF TInv, Tasks
  <2>3. Editors' /\ Changes' /\ Buffers' /\ Peers' /\ Queues(Message)' /\ Events' /\ Count'
    BY <1>3 DEF TakeUpdate, TInv, Editors, Changes, Buffers, Peers, Queues, Events, Count,
                editor, buffers, peers
  <2> QED BY <2>2, <2>3 DEF TInv
<1>4. CASE CloneDoc(d, x)
  <2>1. current[d] \in Doc
    BY DEF TInv, Buffers
  <2>2. Tasks'
    BY <1>2, <1>4, <2>1 DEF CloneDoc, TInv, Tasks
  <2>3. Editors' /\ Changes' /\ Buffers' /\ Peers' /\ Queues(Message)' /\ Events' /\ Count'
    BY <1>4 DEF CloneDoc, TInv, Editors, Changes, Buffers, Peers, Queues, Events, Count,
                editor, buffers, peers
  <2> QED BY <2>2, <2>3 DEF TInv
<1>5. CASE BroadcastUpdate(d, x)
  <2> DEFINE one == {x}
             m == About("update", x.note, one, {})
  <2>1. Broadcast(d, m)
    BY <1>5 DEF BroadcastUpdate
  <2>2. x.note \in Note /\ one \in SUBSET Edit
    BY <1>2 DEF Edit
  <2> HIDE DEF one
  <2>3. m \in Message
    BY <2>2, AboutKnown
  <2> HIDE DEF m
  <2>4. Queues(Message)'
    BY <2>1, <2>3, BroadcastIn DEF TInv
  <2>5. Tasks'
    BY <1>5 DEF BroadcastUpdate, TInv, Tasks
  <2>6. Editors' /\ Changes' /\ Buffers' /\ Peers' /\ Events' /\ Count'
    BY <1>5 DEF BroadcastUpdate, TInv, Editors, Changes, Buffers, Peers, Events, Count,
                editor, buffers
  <2> QED BY <2>4, <2>5, <2>6 DEF TInv
<1>6. ASSUME NEW k \in Doc, ApplyUpdate(d, x, k)
      PROVE  TInv'
  <2> DEFINE one == {x}
  <2>1. WritesBack(d, k, one)
    BY <1>6 DEF ApplyUpdate
  <2>2. one \in SUBSET Edit
    BY <1>2
  <2> HIDE DEF one
  <2>3. Buffers'
    BY <1>6, <2>1, <2>2, WritesBackTyped DEF ApplyUpdate, TInv, Buffers
  <2>4. Tasks'
    BY <1>6 DEF ApplyUpdate, TInv, Tasks
  <2>5. Editors' /\ Changes' /\ Peers' /\ Queues(Message)' /\ Events' /\ Count'
    BY <1>6 DEF ApplyUpdate, TInv, Editors, Changes, Peers, Queues, Events, Count, editor,
                peers
  <2> QED BY <2>3, <2>4, <2>5 DEF TInv
<1> QED BY <1>1, <1>3, <1>4, <1>5, <1>6

\* The task of a note change.
LEMMA GoesTyped ==
    ASSUME TInv, NEW k \in Change,
           NEW pc \in {"clear", "open", "set", "request", "done"},
           change[k].at \in Node, pc = "open" => change[k].to \in Note,
           ChangeGoes(k, pc)
    PROVE  Changes'
<1>1. change[k] \in ChangeTask
  BY DEF TInv, Changes
<1>2. CASE pc = "done"
  <2>1. change' = [change EXCEPT ![k] = [NoChange EXCEPT !.pc = pc]]
    BY <1>2 DEF ChangeGoes
  <2>2. [NoChange EXCEPT !.pc = pc] \in ChangeTask /\ Going([NoChange EXCEPT !.pc = pc])
    BY <1>2 DEF NoChange, ChangeTask, Going
  <2> QED BY <2>1, <2>2 DEF TInv, Changes
<1>3. CASE pc # "done"
  <2>1. change' = [change EXCEPT ![k] = [@ EXCEPT !.pc = pc]]
    BY <1>3 DEF ChangeGoes
  <2>2. [change[k] EXCEPT !.pc = pc] \in ChangeTask /\ Going([change[k] EXCEPT !.pc = pc])
    BY <1>1 DEF ChangeTask, Going
  <2> QED BY <2>1, <2>2 DEF TInv, Changes
<1> QED BY <1>2, <1>3

LEMMA ChangingTyped ==
    ASSUME TInv, NEW k \in Change, Changing(k)
    PROVE  TInv'
<1> DEFINE d == change[k].at
<1>1. /\ change[k] \in ChangeTask /\ Going(change[k]) /\ d \in Node \cup {None}
      /\ change[k].to \in Note \cup {None} /\ change[k].loaded \in SUBSET Edit
  BY DEF TInv, Changes, ChangeTask
<1>2. d \in Node
  BY <1>1 DEF Going, Changing, Leave, Clear, Open, SetNote, RequestLiveEdit, AtStep
<1>3. AfterLeaving(k) \in {"set", "open"} /\ (AfterLeaving(k) = "open" => change[k].to \in Note)
  BY <1>1 DEF AfterLeaving
<1>4. CASE Leave(k)
  <2>1. Queues(Message)' /\ Changes'
    <3>1. CASE note[d] \in {None, change[k].to}
      <4>1. ChangeGoes(k, AfterLeaving(k)) /\ UNCHANGED queue
        BY <1>4, <3>1 DEF Leave
      <4> QED BY <1>2, <1>3, <4>1, GoesTyped DEF TInv, Queues
    <3>2. CASE note[d] \notin {None, change[k].to}
      <4> DEFINE m == About("changed", note[d], {}, {})
      <4>1. ChangeGoes(k, "clear") /\ Broadcast(d, m)
        BY <1>4, <3>2 DEF Leave
      <4>2. note[d] \in Note
        BY <1>2, <3>2 DEF TInv, Buffers
      <4>3. m \in Message
        BY <4>2, AboutKnown
      <4> HIDE DEF m, d
      <4>4. Queues(Message)'
        BY <1>2, <4>1, <4>3, BroadcastIn DEF TInv
      <4>5. Changes'
        BY <1>2, <4>1, GoesTyped DEF d
      <4> QED BY <4>4, <4>5
    <3> QED BY <3>1, <3>2
  <2>2. Editors' /\ Buffers' /\ Peers' /\ Tasks' /\ Events' /\ Count'
    BY <1>4 DEF Leave, TInv, Editors, Buffers, Peers, Tasks, Events, Count, editor,
                buffers, tasks
  <2> QED BY <2>1, <2>2 DEF TInv
<1>5. CASE Clear(k)
  <2>1. ChangeGoes(k, AfterLeaving(k)) /\ active' = [active EXCEPT ![d] = {}]
    BY <1>5 DEF Clear
  <2>2. Changes'
    BY <1>2, <1>3, <2>1, GoesTyped
  <2>3. Editors' /\ Buffers' /\ Peers' /\ Queues(Message)' /\ Tasks' /\ Events' /\ Count'
    BY <1>5, <2>1 DEF Clear, TInv, Editors, Buffers, Peers, Queues, Tasks, Events, Count,
                editor, buffers, tasks
  <2> QED BY <2>2, <2>3 DEF TInv
<1>6. CASE Open(k)
  <2> DEFINE new == stored[d][change[k].to]
  <2>1. change[k].to \in Note
    BY <1>1, <1>6 DEF Open, AtStep, Going
  <2>2. new \in SUBSET Edit
    BY <1>2, <2>1 DEF TInv, Editors
  <2>3. change' = [change EXCEPT ![k].pc = "set", ![k].loaded = new]
    BY <1>6 DEF Open
  <2> HIDE DEF new
  <2>4. Changes'
    BY <1>1, <1>2, <2>2, <2>3 DEF TInv, Changes, ChangeTask, Going
  <2>5. /\ Editors' /\ Buffers' /\ Peers' /\ Queues(Message)' /\ Tasks' /\ Events' /\ Count'
    BY <1>6 DEF Open, TInv, Editors, Buffers, Peers, Queues, Tasks, Events, Count, editor,
                buffers, peers, tasks
  <2> QED BY <2>4, <2>5 DEF TInv
<1>7. CASE SetNote(k)
  <2> DEFINE new == IF Settled(d) THEN current[d] ELSE k
             pc == IF change[k].to = None THEN "done" ELSE "request"
  <2>1. /\ ChangeGoes(k, pc) /\ note' = [note EXCEPT ![d] = change[k].to]
        /\ docs' = [docs EXCEPT ![d][new] = change[k].loaded]
        /\ current' = [current EXCEPT ![d] = new]
    BY <1>7 DEF SetNote
  <2>2. new \in Doc
    BY <1>2, BoundAssumption DEF TInv, Buffers, Change, Doc
  <2>3. pc \in {"request", "done"}
    OBVIOUS
  <2> HIDE DEF new, pc
  <2>4. Changes'
    BY <1>2, <2>1, <2>3, GoesTyped
  <2>5. Buffers'
    BY <1>1, <1>2, <2>1, <2>2 DEF TInv, Buffers
  <2>6. Editors' /\ Peers' /\ Queues(Message)' /\ Tasks' /\ Events' /\ Count'
    BY <1>7 DEF SetNote, TInv, Editors, Peers, Queues, Tasks, Events, Count, editor,
                peers, tasks
  <2> QED BY <2>4, <2>5, <2>6 DEF TInv
<1>8. CASE RequestLiveEdit(k)
  <2>1. ChangeGoes(k, "done") /\ connected' = [connected EXCEPT ![d] = Node \ {d}]
    BY <1>8 DEF RequestLiveEdit
  <2>2. Changes'
    BY <1>2, <2>1, GoesTyped
  <2>3. Peers'
    <3>1. active' = active
      BY <1>8 DEF RequestLiveEdit
    <3>2. Node \ {d} \in SUBSET Node
      OBVIOUS
    <3> HIDE DEF d
    <3> QED BY <2>1, <3>1, <3>2 DEF TInv, Peers
  <2>4. Editors' /\ Buffers' /\ Queues(Message)' /\ Tasks' /\ Events' /\ Count'
    BY <1>8 DEF RequestLiveEdit, TInv, Editors, Buffers, Queues, Tasks, Events, Count,
                editor, buffers, tasks
  <2> QED BY <2>2, <2>3, <2>4 DEF TInv
<1> QED BY <1>4, <1>5, <1>6, <1>7, <1>8 DEF Changing

\* The consumer.
LEMMA ConsumingTyped ==
    ASSUME TInv, NEW d \in Node, Consuming(d)
    PROVE  TInv'
<1> DEFINE h == handling[d]
<1>1. /\ h.pc \in {"rest", "looked", "cloned"}
      /\ h.pc # "rest" =>
            /\ h.m \in Known /\ h.from \in Node /\ h.m.note \in Note
            /\ h.m.edits \in SUBSET Edit /\ h.m.vector \in SUBSET Edit
      /\ h.pc = "cloned" => h.doc \in Doc
  BY EventKinds
<1>2. Rests(d) => Events'
  BY DEF Rests, TInv, Events, Event
<1>3. ASSUME NEW e \in Node, TakeConnected(d, e)
      PROVE  TInv'
  <2> DEFINE m == About("check", note[d], {}, {})
  <2>1. note[d] = None \/ Send(d, e, m)
    BY <1>3 DEF TakeConnected
  <2>2. note[d] # None => m \in Message
    BY AboutKnown DEF TInv, Buffers
  <2>3. note[d] = None => queue' = queue
    BY <1>3 DEF TakeConnected
  <2> HIDE DEF m
  <2>4. Queues(Message)'
    <3>1. CASE note[d] = None
      BY <2>3, <3>1 DEF TInv, Queues
    <3>2. CASE note[d] # None
      BY <2>1, <2>2, <3>2, SendIn DEF TInv
    <3> QED BY <3>1, <3>2
  <2>5. Peers'
    BY <1>3 DEF TakeConnected, TInv, Peers
  <2>6. Editors' /\ Changes' /\ Buffers' /\ Tasks' /\ Events' /\ Count'
    BY <1>3 DEF TakeConnected, TInv, Editors, Changes, Buffers, Tasks, Events, Count,
                editor, buffers, tasks
  <2> QED BY <2>4, <2>5, <2>6 DEF TInv
<1>4. ASSUME NEW e \in Node, TakeNotice(d, e)
      PROVE  TInv'
  <2>1. queue' = Taken(d, e) /\ Arrived(d, e)
    BY <1>4 DEF TakeNotice
  <2>2. Queues(Message)'
    BY <2>1, FirstIn DEF TInv, Queues
  <2>3. Peers'
    BY <1>4 DEF TakeNotice, TInv, Peers
  <2>4. Editors' /\ Changes' /\ Buffers' /\ Tasks' /\ Events' /\ Count'
    BY <1>4 DEF TakeNotice, TInv, Editors, Changes, Buffers, Tasks, Events, Count,
                editor, buffers, tasks
  <2> QED BY <2>2, <2>3, <2>4 DEF TInv
<1>5. ASSUME NEW e \in Node, Look(d, e)
      PROVE  TInv'
  <2> DEFINE m == First(d, e)
             l == [pc |-> "looked", m |-> m, from |-> e]
  <2>1. [kind |-> "mismatch"] \in Message
    BY DEF Message
  <2>2. m \in Message /\ Queues(Message)'
    BY <1>5, <2>1, LookIn DEF TInv
  <2>3. m.kind \notin {"mismatch", "changed"}
        /\ (handling' = handling \/ handling' = [handling EXCEPT ![d] = l])
    BY <1>5 DEF Look
  <2> HIDE DEF m
  <2>4. m \in Known
    BY <2>2, <2>3 DEF Message, Known
  <2>5. l \in Event
    BY <2>4 DEF Event
  <2> HIDE DEF l
  <2>6. Events'
    BY <2>3, <2>5 DEF TInv, Events
  <2>7. Editors' /\ Changes' /\ Buffers' /\ Peers' /\ Tasks' /\ Count'
    BY <1>5 DEF Look, TInv, Editors, Changes, Buffers, Peers, Tasks, Count, editor,
                buffers, tasks
  <2> QED BY <2>2, <2>6, <2>7 DEF TInv
<1>6. CASE AnswerCheck(d)
  <2> DEFINE m == About("vectors", h.m.note, {}, Buffer(d))
  <2>1. Rests(d) /\ Send(d, h.from, m) /\ h.pc = "looked"
    BY <1>6 DEF AnswerCheck, Looked
  <2>2. m \in Message /\ h.from \in Node
    BY <1>1, <2>1, AboutKnown, BufferTyped
  <2> HIDE DEF m, h
  <2>3. Queues(Message)'
    BY <2>1, <2>2, SendIn DEF TInv
  <2>4. Editors' /\ Changes' /\ Buffers' /\ Peers' /\ Tasks' /\ Count'
    BY <1>6 DEF AnswerCheck, TInv, Editors, Changes, Buffers, Peers, Tasks, Count, editor,
                buffers, tasks
  <2> QED BY <1>2, <2>1, <2>3, <2>4 DEF TInv
<1>7. CASE AnswerVectors(d)
  <2> DEFINE new == UpdatesFor(Buffer(d), h.m.vector)
             own == Exchanged(Buffer(d))
             m == About("exchange", h.m.note, new, own)
  <2>1. Rests(d) /\ Send(d, h.from, m) /\ h.pc = "looked"
    BY <1>7 DEF AnswerVectors, Looked
  <2>2. new \in SUBSET Edit /\ own \in SUBSET Edit
    BY BufferTyped DEF UpdatesFor, Exchanged
  <2> HIDE DEF new, own
  <2>3. m \in Message /\ h.from \in Node
    BY <1>1, <2>1, <2>2, AboutKnown
  <2> HIDE DEF m, h
  <2>4. Queues(Message)'
    BY <2>1, <2>3, SendIn DEF TInv
  <2>5. Editors' /\ Changes' /\ Buffers' /\ Peers' /\ Tasks' /\ Count'
    BY <1>7 DEF AnswerVectors, TInv, Editors, Changes, Buffers, Peers, Tasks, Count,
                editor, buffers, tasks
  <2> QED BY <1>2, <2>1, <2>4, <2>5 DEF TInv
<1>8. CASE CloneForPeer(d)
  <2> DEFINE c == [pc |-> "cloned", m |-> h.m, from |-> h.from, doc |-> current[d]]
  <2>1. h.pc = "looked" /\ handling' = [handling EXCEPT ![d] = c]
    BY <1>8 DEF CloneForPeer, Looked
  <2>2. current[d] \in Doc
    BY DEF TInv, Buffers
  <2>3. c \in Event
    BY <1>1, <2>1, <2>2 DEF Event
  <2> HIDE DEF c
  <2>4. Events'
    BY <2>1, <2>3 DEF TInv, Events
  <2>5. /\ Editors' /\ Changes' /\ Buffers' /\ Peers' /\ Queues(Message)' /\ Tasks'
        /\ Count'
    BY <1>8 DEF CloneForPeer, TInv, Editors, Changes, Buffers, Peers, Queues, Tasks,
                Count, editor, buffers, peers, tasks
  <2> QED BY <2>4, <2>5 DEF TInv
<1>9. ASSUME NEW kind, Writes(d, kind), UNCHANGED note
      PROVE  Events' /\ Buffers' /\ h.pc = "cloned"
  <2>1. h.pc = "cloned" /\ Rests(d) /\ WritesBack(d, h.doc, h.m.edits)
    BY <1>9 DEF Writes
  <2>2. h.doc \in Doc /\ h.m.edits \in SUBSET Edit
    BY <1>1, <2>1
  <2>3. current' \in [Node -> Doc] /\ docs' \in [Node -> [Doc -> SUBSET Edit]]
    BY <2>1, <2>2, WritesBackTyped
  <2> QED BY <1>2, <1>9, <2>1, <2>3 DEF TInv, Buffers
<1>10. CASE ProcessUpdate(d)
  <2> DEFINE new == UpdatesFor(docs[d][h.doc], h.m.vector)
             m == About("response", h.m.note, new, {})
  <2>1. /\ Writes(d, "exchange") /\ Send(d, h.from, m) /\ Shows(d, note[d], h.m.edits)
        /\ active' = [active EXCEPT ![d] = @ \cup {h.from}]
        /\ UNCHANGED <<shown, fetching, stored, change, note, connected, tasks, edits>>
    BY <1>10 DEF ProcessUpdate
  <2>2. Events' /\ Buffers' /\ h.pc = "cloned"
    BY <1>9, <2>1
  <2>3. new \in SUBSET Edit
    BY <1>1, <2>2 DEF UpdatesFor, Exchanged, TInv, Buffers
  <2> HIDE DEF new
  <2>4. m \in Message /\ h.from \in Node /\ h.m.edits \in SUBSET Edit
    BY <1>1, <2>2, <2>3, AboutKnown
  <2> HIDE DEF m, h
  <2>5. Queues(Message)'
    BY <2>1, <2>4, SendIn DEF TInv
  <2>6. screen' \in [Node -> SUBSET Edit]
    BY <2>1, <2>4, ShowsTyped DEF TInv
  <2>7. Editors' /\ Changes' /\ Peers' /\ Tasks' /\ Count'
    BY <2>1, <2>4, <2>6 DEF TInv, Editors, Changes, Peers, Tasks, Count, tasks
  <2> QED BY <2>2, <2>5, <2>7 DEF TInv
<1>11. CASE ProcessResponse(d)
  <2>1. /\ Writes(d, "response") /\ Shows(d, note[d], h.m.edits)
        /\ active' = [active EXCEPT ![d] = @ \cup {h.from}]
        /\ UNCHANGED <<shown, fetching, stored, change, note, connected, queue, tasks,
                       edits>>
    BY <1>11 DEF ProcessResponse
  <2>2. Events' /\ Buffers' /\ h.pc = "cloned"
    BY <1>9, <2>1
  <2>3. h.from \in Node /\ h.m.edits \in SUBSET Edit
    BY <1>1, <2>2
  <2> HIDE DEF h
  <2>4. screen' \in [Node -> SUBSET Edit]
    BY <2>1, <2>3, ShowsTyped DEF TInv
  <2>5. Editors' /\ Changes' /\ Peers' /\ Queues(Message)' /\ Tasks' /\ Count'
    BY <2>1, <2>3, <2>4 DEF TInv, Editors, Changes, Peers, Queues, Tasks, Count, tasks
  <2> QED BY <2>2, <2>5 DEF TInv
<1>12. CASE ProcessEdit(d)
  <2>1. /\ Writes(d, "update") /\ Shows(d, h.m.note, h.m.edits)
        /\ UNCHANGED <<shown, fetching, stored, change, note, peers, tasks, edits>>
    BY <1>12 DEF ProcessEdit
  <2>2. Events' /\ Buffers' /\ h.pc = "cloned"
    BY <1>9, <2>1
  <2>3. h.m.edits \in SUBSET Edit
    BY <1>1, <2>2
  <2> HIDE DEF h
  <2>4. screen' \in [Node -> SUBSET Edit]
    BY <2>1, <2>3, ShowsTyped DEF TInv
  <2>5. Editors' /\ Changes' /\ Peers' /\ Queues(Message)' /\ Tasks' /\ Count'
    BY <2>1, <2>4 DEF TInv, Editors, Changes, Peers, Queues, Tasks, Count, tasks, peers
  <2> QED BY <2>2, <2>5 DEF TInv
<1> QED BY <1>3, <1>4, <1>5, <1>6, <1>7, <1>8, <1>10, <1>11, <1>12 DEF Consuming

\* The timer, and merges.
LEMMA ReconcileTyped ==
    ASSUME TInv, NEW d \in Node, Reconcile(d)
    PROVE  TInv'
<1> DEFINE m == About("vectors", note[d], {}, Buffer(d))
<1>1. Broadcast(d, m) /\ note[d] \in Note
  BY DEF Reconcile, TInv, Buffers
<1>2. m \in Message
  BY <1>1, AboutKnown, BufferTyped
<1> HIDE DEF m
<1>3. Queues(Message)'
  BY <1>1, <1>2, BroadcastIn DEF TInv
<1>4. Editors' /\ Changes' /\ Buffers' /\ Peers' /\ Tasks' /\ Events' /\ Count'
  BY DEF Reconcile, TInv, Editors, Changes, Buffers, Peers, Tasks, Events, Count, editor,
         buffers, tasks
<1> QED BY <1>3, <1>4 DEF TInv

LEMMA MergedTyped ==
    ASSUME TInv, NEW d \in Node, NEW e \in Node, NEW n \in Note, Merged(d, e, n)
    PROVE  TInv'
<1> DEFINE new == Exchanged(stored[e][n])
<1>1. new \in SUBSET Edit
  BY DEF Exchanged, TInv, Editors
<1>2. screen' = screen \/ Shows(d, note[d], new)
  BY DEF Merged
<1> HIDE DEF new
<1>3. screen' \in [Node -> SUBSET Edit]
  <2>1. CASE screen' = screen
    BY <2>1 DEF TInv, Editors
  <2>2. CASE Shows(d, note[d], new)
    BY <1>1, <2>2, ShowsTyped DEF TInv
  <2> QED BY <1>2, <2>1, <2>2
<1>4. Editors'
  <2>1. /\ stored' = [stored EXCEPT ![d][n] = @ \cup stored[e][n]]
        /\ UNCHANGED <<shown, fetching>>
    BY DEF Merged
  <2>2. stored' \in [Node -> [Note -> SUBSET Edit]]
    BY <2>1 DEF TInv, Editors
  <2> QED BY <1>3, <2>1, <2>2 DEF TInv, Editors
<1>5. Changes' /\ Buffers' /\ Peers' /\ Queues(Message)' /\ Tasks' /\ Events' /\ Count'
  BY DEF Merged, TInv, Changes, Buffers, Peers, Queues, Tasks, Events, Count, buffers,
         peers, tasks
<1> QED BY <1>4, <1>5 DEF TInv

LEMMA NextTyped == TInv /\ [Next]_vars => TInv'
<1> SUFFICES ASSUME TInv, [Next]_vars PROVE TInv'
  OBVIOUS
<1>1. ASSUME NEW d \in Node, Show(d) PROVE TInv'
  BY <1>1, ShowTyped
<1>2. ASSUME NEW d \in Node, Updating(d) PROVE TInv'
  BY <1>2, UpdatingTyped
<1>3. ASSUME NEW d \in Node, Consuming(d) PROVE TInv'
  BY <1>3, ConsumingTyped
<1>4. ASSUME NEW d \in Node, Reconcile(d) PROVE TInv'
  BY <1>4, ReconcileTyped
<1>5. ASSUME NEW k \in Change, Changing(k) PROVE TInv'
  BY <1>5, ChangingTyped
<1>6. ASSUME NEW d \in Node, NEW n \in Note \cup {None}, SwitchNote(d, n) PROVE TInv'
  BY <1>6, SwitchNoteTyped
<1>7. ASSUME NEW d \in Node, NEW kind \in Kinds, Type(d, kind) PROVE TInv'
  BY <1>7, TypeTyped
<1>8. ASSUME NEW d \in Node, NEW e \in Node, NEW n \in Note, Merged(d, e, n) PROVE TInv'
  BY <1>8, MergedTyped
<1>9. ASSUME UNCHANGED vars PROVE TInv'
  BY <1>9 DEF vars, editor, buffers, peers, tasks, TInv, Editors, Changes, Buffers, Peers,
              Queues, Tasks, Events, Count
<1> QED BY <1>1, <1>2, <1>3, <1>4, <1>5, <1>6, <1>7, <1>8, <1>9 DEF Next, Working

LEMMA AlwaysTyped == Spec => []TInv
BY InitTyped, NextTyped, PTL DEF Spec

\* The buffers' handlers, the tasks of the events and the consumer keep their
\* tables typed, also when a note is set between their steps: the handle that
\* apply_update writes back is always one of a document that was made.
THEOREM TypeCorrect == Spec => []TypeOK
<1>1. TInv => TypeOK
  <2> SUFFICES ASSUME TInv PROVE TypeOK
    OBVIOUS
  <2>1. ASSUME NEW d \in Node, NEW e \in Node, NEW i \in DOMAIN queue[d][e]
        PROVE  queue[d][e][i] \in Message
    <3>1. queue[d][e] \in Seq(Message)
      BY DEF TInv, Queues
    <3> QED BY <3>1, ElementOfSeq, LenProperties
  <2>2. \A d \in Node : handling[d].pc \in {"rest", "looked", "cloned"}
    BY EventKinds
  <2> QED BY <2>1, <2>2 DEF TInv, Editors, Changes, ChangeTask, Buffers, Peers, Tasks,
                            NotCloned, Count, TypeOK
<1> QED BY <1>1, AlwaysTyped, PTL

----------------------------------------------------------------------------
(* One note's edits.                                                       *)

OfNote(S, n) == \A x \in S : x.note = n

Sound == {m \in Message : m \in Known => OfNote(m.edits, m.note)}

StoredOfNote == \A d \in Node, n \in Note : OfNote(stored[d][n], n)

LoadedOfNote == \A k \in Change : OfNote(change[k].loaded, change[k].to)

\* What was found to be of the current note still is, and the document that was
\* cloned is still the one in the buffers.
ApplyingHere ==
    \A d \in Node : \A p \in applying[d] :
        p[1].note = note[d] /\ p[2] \in {NotCloned, current[d]}

HandlingHere ==
    \A d \in Node : handling[d].pc # "rest" =>
        /\ OfNote(handling[d].m.edits, handling[d].m.note)
        /\ handling[d].m.note = note[d]
        /\ handling[d].pc = "cloned" => handling[d].doc = current[d]

Here == ApplyingHere /\ HandlingHere

NInv ==
    /\ StoredOfNote /\ LoadedOfNote /\ EditorOfNote /\ BufferOfNote
    /\ Here /\ Queues(Sound)

LEMMA AboutSound ==
    ASSUME NEW kind \in {"check", "vectors", "exchange", "response", "update", "changed"},
           NEW n \in Note, NEW new \in SUBSET Edit, OfNote(new, n),
           NEW vector \in SUBSET Edit
    PROVE  About(kind, n, new, vector) \in Sound
<1>1. About(kind, n, new, vector) \in Message
  BY AboutKnown
<1>2. About(kind, n, new, vector).edits = new /\ About(kind, n, new, vector).note = n
  BY DEF About
<1> QED BY <1>1, <1>2 DEF Sound

\* Without faults, nothing is between its steps when a new note is set.
LEMMA AllSettled ==
    ASSUME Faults = {}, Free
    PROVE  \A d \in Node : applying[d] = {} /\ sending[d] = {} /\ handling[d] = Resting
BY DEF Free, Settled

\* The note of the buffers and their document stay, and so does what was found of
\* them, as long as nothing is found anew.
LEMMA BuffersStay ==
    ASSUME NInv, UNCHANGED buffers
    PROVE  BufferOfNote'
BY DEF NInv, BufferOfNote, Buffer, buffers

LEMMA HereStays ==
    ASSUME NInv, UNCHANGED <<note, current, applying, handling>>
    PROVE  Here'
BY DEF NInv, Here, ApplyingHere, HandlingHere

\* Edits of its note are applied to the document in the buffers.
LEMMA WritesOfNote ==
    ASSUME TInv, NInv, NEW d \in Node, NEW new \in SUBSET Edit, OfNote(new, note[d]),
           WritesBack(d, current[d], new), UNCHANGED note
    PROVE  BufferOfNote' /\ current' = current
<1>1. current[d] \in Doc /\ current' = [current EXCEPT ![d] = current[d]]
      /\ docs' = [docs EXCEPT ![d][current[d]] = @ \cup new]
  BY DEF WritesBack, TInv, Buffers
<1>2. current' = current
  BY <1>1 DEF TInv, Buffers
<1>3. \A f \in Node : Buffer(f)' = IF f = d THEN Buffer(d) \cup new ELSE Buffer(f)
  BY <1>1, <1>2 DEF TInv, Buffers, Buffer
<1>4. BufferOfNote'
  BY <1>3 DEF NInv, BufferOfNote, OfNote
<1> QED BY <1>2, <1>4

\* The editor is shown edits of the note that they are announced for.
LEMMA ShowsOfNote ==
    ASSUME TInv, NInv, NEW d \in Node, NEW n, NEW new \in SUBSET Edit, OfNote(new, n),
           Shows(d, n, new), UNCHANGED shown
    PROVE  EditorOfNote'
<1>1. \A f \in Node :
         screen'[f] = screen[f] \/ (f = d /\ shown[d] = n /\ screen'[f] = screen[f] \cup new)
  BY DEF Shows, TInv, Editors
<1> QED BY <1>1 DEF NInv, EditorOfNote, OfNote

LEMMA InitOfNote == Init => NInv
<1> SUFFICES ASSUME Init PROVE NInv
  OBVIOUS
<1>1. StoredOfNote /\ LoadedOfNote /\ EditorOfNote
  BY DEF Init, StoredOfNote, LoadedOfNote, EditorOfNote, OfNote, NoChange
<1>2. BufferOfNote
  BY BoundAssumption DEF Init, BufferOfNote, Buffer, Doc
<1>3. Here
  BY DEF Init, Here, ApplyingHere, HandlingHere, Resting
<1>4. Queues(Sound)
  BY DEF Init, Queues
<1> QED BY <1>1, <1>2, <1>3, <1>4 DEF NInv

\* The editor.
LEMMA SwitchNoteOfNote ==
    ASSUME TInv, NInv, NEW d \in Node, NEW n \in Note \cup {None}, SwitchNote(d, n)
    PROVE  NInv'
<1>1. LoadedOfNote'
  <2>1. PICK k \in Change :
            change' = [change EXCEPT ![k] = [pc |-> "leave", at |-> d, to |-> n,
                                             loaded |-> {}]]
    BY DEF SwitchNote
  <2> QED BY <2>1 DEF TInv, Changes, NInv, LoadedOfNote, OfNote
<1>2. StoredOfNote'
  <2>1. CASE shown[d] \in {None, n}
    BY <2>1 DEF SwitchNote, NInv, StoredOfNote
  <2>2. CASE shown[d] \notin {None, n}
    <3>1. shown[d] \in Note /\ OfNote(screen[d], shown[d])
      BY <2>2 DEF TInv, Editors, NInv, EditorOfNote, OfNote
    <3>2. stored' = [stored EXCEPT ![d][shown[d]] = @ \cup screen[d]]
      BY <2>2 DEF SwitchNote
    <3>3. \A f \in Node, q \in Note :
             \/ stored'[f][q] = stored[f][q]
             \/ q = shown[d] /\ stored'[f][q] = stored[f][q] \cup screen[d]
      BY <3>1, <3>2 DEF TInv, Editors
    <3> QED BY <3>1, <3>3 DEF NInv, StoredOfNote, OfNote
  <2> QED BY <2>1, <2>2
<1>3. EditorOfNote'
  BY DEF SwitchNote, TInv, Editors, NInv, EditorOfNote
<1>4. BufferOfNote' /\ Here'
  BY BuffersStay, HereStays DEF SwitchNote, buffers, tasks
<1>5. Queues(Sound)'
  BY DEF SwitchNote, peers, NInv, Queues
<1> QED BY <1>1, <1>2, <1>3, <1>4, <1>5 DEF NInv

LEMMA ShowOfNote ==
    ASSUME TInv, NInv, NEW d \in Node, Show(d)
    PROVE  NInv'
<1>1. fetching[d] \in Note /\ OfNote(stored[d][fetching[d]], fetching[d])
  BY DEF Show, TInv, Editors, NInv, StoredOfNote
<1>2. EditorOfNote'
  BY <1>1 DEF Show, TInv, Editors, NInv, EditorOfNote, OfNote
<1>3. StoredOfNote' /\ LoadedOfNote' /\ Queues(Sound)'
  BY DEF Show, peers, NInv, StoredOfNote, LoadedOfNote, Queues
<1>4. BufferOfNote' /\ Here'
  BY BuffersStay, HereStays DEF Show, buffers, tasks
<1> QED BY <1>2, <1>3, <1>4 DEF NInv

LEMMA TypeOfNote ==
    ASSUME TInv, NInv, NEW d \in Node, NEW kind \in Kinds, Type(d, kind)
    PROVE  NInv'
<1> DEFINE x == [note |-> shown[d], kind |-> kind, n |-> edits + 1]
<1>1. screen' = [screen EXCEPT ![d] = @ \cup {x}] /\ shown' = shown
  BY DEF Type
<1>2. x.note = shown[d]
  OBVIOUS
<1> HIDE DEF x
<1>3. EditorOfNote'
  BY <1>1, <1>2 DEF TInv, Editors, NInv, EditorOfNote
<1>4. StoredOfNote' /\ LoadedOfNote' /\ Queues(Sound)'
  BY DEF Type, peers, NInv, StoredOfNote, LoadedOfNote, Queues
<1>5. BufferOfNote' /\ Here'
  BY BuffersStay, HereStays DEF Type, buffers
<1> QED BY <1>3, <1>4, <1>5 DEF NInv

\* The tasks of the user's edits.
LEMMA UpdatingOfNote ==
    ASSUME TInv, NInv, NEW d \in Node, Updating(d)
    PROVE  NInv'
<1>1. PICK x \in typed[d] \cup sending[d] \cup {p[1] : p \in applying[d]} :
          \/ TakeUpdate(d, x) \/ CloneDoc(d, x) \/ BroadcastUpdate(d, x)
          \/ \E k \in Doc : ApplyUpdate(d, x, k)
  BY DEF Updating
<1>2. x \in Edit
  BY DEF TInv, Tasks
<1>3. StoredOfNote' /\ LoadedOfNote' /\ EditorOfNote'
  BY <1>1 DEF TakeUpdate, CloneDoc, BroadcastUpdate, ApplyUpdate, editor, NInv,
              StoredOfNote, LoadedOfNote, EditorOfNote
<1>4. CASE TakeUpdate(d, x)
  <2>1. /\ UNCHANGED <<buffers, peers, handling>>
        /\ applying' = applying
           \/ (note[d] = x.note
               /\ applying' = [applying EXCEPT ![d] = @ \cup {<<x, NotCloned>>}])
    BY <1>4 DEF TakeUpdate
  <2>2. ApplyingHere'
    BY <2>1 DEF buffers, TInv, Tasks, NInv, Here, ApplyingHere
  <2>3. HandlingHere' /\ Queues(Sound)'
    BY <2>1 DEF buffers, peers, NInv, Here, HandlingHere, Queues
  <2>4. BufferOfNote'
    BY <2>1, BuffersStay
  <2> QED BY <1>3, <2>2, <2>3, <2>4 DEF NInv, Here
<1>5. CASE CloneDoc(d, x)
  <2>1. /\ UNCHANGED <<buffers, peers, handling>> /\ <<x, NotCloned>> \in applying[d]
        /\ applying' = [applying EXCEPT ![d] = (@ \ {<<x, NotCloned>>})
                                               \cup {<<x, current[d]>>}]
    BY <1>5 DEF CloneDoc
  <2>2. x.note = note[d]
    BY <2>1 DEF NInv, Here, ApplyingHere
  <2>3. ApplyingHere'
    BY <2>1, <2>2 DEF buffers, TInv, Tasks, NInv, Here, ApplyingHere
  <2>4. HandlingHere' /\ Queues(Sound)'
    BY <2>1 DEF buffers, peers, NInv, Here, HandlingHere, Queues
  <2>5. BufferOfNote'
    BY <2>1, BuffersStay
  <2> QED BY <1>3, <2>3, <2>4, <2>5 DEF NInv, Here
<1>6. CASE BroadcastUpdate(d, x)
  <2> DEFINE one == {x}
             m == About("update", x.note, one, {})
  <2>1. Broadcast(d, m)
    BY <1>6 DEF BroadcastUpdate
  <2>2. x.note \in Note /\ one \in SUBSET Edit /\ OfNote(one, x.note)
    BY <1>2 DEF Edit, OfNote
  <2> HIDE DEF one
  <2>3. m \in Sound
    BY <2>2, AboutSound
  <2> HIDE DEF m
  <2>4. Queues(Sound)'
    BY <2>1, <2>3, BroadcastIn DEF NInv
  <2>5. BufferOfNote' /\ Here'
    BY <1>6, BuffersStay, HereStays DEF BroadcastUpdate, buffers
  <2> QED BY <1>3, <2>4, <2>5 DEF NInv
<1>7. ASSUME NEW k \in Doc, ApplyUpdate(d, x, k)
      PROVE  NInv'
  <2> DEFINE one == {x}
  <2>1. /\ <<x, k>> \in applying[d] /\ k # NotCloned /\ WritesBack(d, k, one)
        /\ applying' = [applying EXCEPT ![d] = @ \ {<<x, k>>}]
        /\ UNCHANGED <<note, peers, handling>>
    BY <1>7 DEF ApplyUpdate
  <2>2. x.note = note[d] /\ k = current[d]
    BY <2>1 DEF NInv, Here, ApplyingHere
  <2>3. one \in SUBSET Edit /\ OfNote(one, note[d])
    BY <1>2, <2>2 DEF OfNote
  <2> HIDE DEF one
  <2>4. BufferOfNote' /\ current' = current
    BY <2>1, <2>2, <2>3, WritesOfNote
  <2>5. ApplyingHere'
    BY <2>1, <2>4 DEF TInv, Tasks, NInv, Here, ApplyingHere
  <2>6. HandlingHere' /\ Queues(Sound)'
    BY <2>1, <2>4 DEF peers, NInv, Here, HandlingHere, Queues
  <2> QED BY <1>3, <2>4, <2>5, <2>6 DEF NInv, Here
<1> QED BY <1>1, <1>4, <1>5, <1>6, <1>7

\* The task of a note change.
LEMMA GoesOfNote ==
    ASSUME TInv, NInv, NEW k \in Change, NEW pc, ChangeGoes(k, pc)
    PROVE  LoadedOfNote'
<1>1. CASE pc = "done"
  <2>1. change' = [change EXCEPT ![k] = [NoChange EXCEPT !.pc = pc]]
    BY <1>1 DEF ChangeGoes
  <2>2. [NoChange EXCEPT !.pc = pc].loaded = {}
    BY DEF NoChange
  <2> QED BY <2>1, <2>2 DEF TInv, Changes, NInv, LoadedOfNote, OfNote
<1>2. CASE pc # "done"
  <2>1. change' = [change EXCEPT ![k] = [@ EXCEPT !.pc = pc]]
    BY <1>2 DEF ChangeGoes
  <2>2. /\ [change[k] EXCEPT !.pc = pc].loaded = change[k].loaded
        /\ [change[k] EXCEPT !.pc = pc].to = change[k].to
    BY DEF TInv, Changes, ChangeTask
  <2> QED BY <2>1, <2>2 DEF TInv, Changes, NInv, LoadedOfNote, OfNote
<1> QED BY <1>1, <1>2

LEMMA ChangingOfNote ==
    ASSUME Faults = {}, TInv, NInv, NEW k \in Change, Changing(k)
    PROVE  NInv'
<1> DEFINE d == change[k].at
<1>1. d \in Node
  BY DEF TInv, Changes, ChangeTask, Going, Changing, Leave, Clear, Open, SetNote,
         RequestLiveEdit, AtStep
<1>2. StoredOfNote' /\ EditorOfNote'
  BY DEF Changing, Leave, Clear, Open, SetNote, RequestLiveEdit, editor, NInv,
         StoredOfNote, EditorOfNote
<1>3. CASE Leave(k)
  <2>1. LoadedOfNote' /\ Queues(Sound)'
    <3>1. CASE note[d] \in {None, change[k].to}
      <4>1. ChangeGoes(k, AfterLeaving(k)) /\ UNCHANGED queue
        BY <1>3, <3>1 DEF Leave
      <4> QED BY <4>1, GoesOfNote DEF NInv, Queues
    <3>2. CASE note[d] \notin {None, change[k].to}
      <4> DEFINE m == About("changed", note[d], {}, {})
      <4>1. ChangeGoes(k, "clear") /\ Broadcast(d, m)
        BY <1>3, <3>2 DEF Leave
      <4>2. note[d] \in Note /\ OfNote({}, note[d])
        BY <1>1, <3>2 DEF TInv, Buffers, OfNote
      <4>3. m \in Sound
        BY <4>2, AboutSound
      <4> HIDE DEF m, d
      <4>4. Queues(Sound)'
        BY <1>1, <4>1, <4>3, BroadcastIn DEF NInv
      <4> QED BY <4>1, <4>4, GoesOfNote
    <3> QED BY <3>1, <3>2
  <2>2. BufferOfNote' /\ Here'
    BY <1>3, BuffersStay, HereStays DEF Leave, buffers, tasks
  <2> QED BY <1>2, <2>1, <2>2 DEF NInv
<1>4. CASE Clear(k)
  <2>1. LoadedOfNote'
    BY <1>4, GoesOfNote DEF Clear
  <2>2. BufferOfNote' /\ Here'
    BY <1>4, BuffersStay, HereStays DEF Clear, buffers, tasks
  <2>3. Queues(Sound)'
    BY <1>4 DEF Clear, NInv, Queues
  <2> QED BY <1>2, <2>1, <2>2, <2>3 DEF NInv
<1>5. CASE Open(k)
  <2> DEFINE new == stored[d][change[k].to]
  <2>1. change[k].to \in Note
    BY <1>5 DEF Open, AtStep, TInv, Changes, Going
  <2>2. OfNote(new, change[k].to)
    BY <1>1, <2>1 DEF NInv, StoredOfNote
  <2>3. change' = [change EXCEPT ![k].pc = "set", ![k].loaded = new]
    BY <1>5 DEF Open
  <2> HIDE DEF new
  <2>4. /\ change[k] \in ChangeTask
        /\ \A j \in Change : j # k => change'[j] = change[j]
        /\ change'[k] = [change[k] EXCEPT !.pc = "set", !.loaded = new]
    BY <2>3 DEF TInv, Changes
  <2>5. change'[k].loaded = new /\ change'[k].to = change[k].to
    BY <2>4 DEF ChangeTask
  <2>6. LoadedOfNote'
    BY <2>2, <2>4, <2>5 DEF NInv, LoadedOfNote
  <2>7. BufferOfNote' /\ Here'
    BY <1>5, BuffersStay, HereStays DEF Open, buffers, tasks
  <2>8. Queues(Sound)'
    BY <1>5 DEF Open, peers, NInv, Queues
  <2> QED BY <1>2, <2>6, <2>7, <2>8 DEF NInv
<1>6. CASE SetNote(k)
  <2>1. \A f \in Node : applying[f] = {} /\ handling[f] = Resting /\ sending[f] = {}
    BY <1>6, AllSettled DEF SetNote, AtStep
  <2>2. Settled(d)
    BY <1>1, <2>1 DEF Settled
  <2>3. /\ note' = [note EXCEPT ![d] = change[k].to]
        /\ docs' = [docs EXCEPT ![d][current[d]] = change[k].loaded]
        /\ current' = [current EXCEPT ![d] = current[d]]
        /\ UNCHANGED <<applying, handling, queue>>
    BY <1>6, <2>2 DEF SetNote, peers, tasks
  <2>4. OfNote(change[k].loaded, change[k].to)
    BY DEF NInv, LoadedOfNote
  <2>5. current[d] \in Doc /\ current' = current
    BY <1>1, <2>3 DEF TInv, Buffers
  <2>6. \A f \in Node : /\ Buffer(f)' = IF f = d THEN change[k].loaded ELSE Buffer(f)
                        /\ note'[f] = IF f = d THEN change[k].to ELSE note[f]
    BY <1>1, <2>3, <2>5 DEF TInv, Buffers, Buffer
  <2>7. BufferOfNote'
    BY <2>4, <2>6 DEF NInv, BufferOfNote, OfNote
  <2>8. Here'
    BY <2>1, <2>3 DEF Here, ApplyingHere, HandlingHere, Resting
  <2>9. Queues(Sound)'
    BY <2>3 DEF NInv, Queues
  <2>10. LoadedOfNote'
    BY <1>6, GoesOfNote DEF SetNote
  <2> QED BY <1>2, <2>7, <2>8, <2>9, <2>10 DEF NInv
<1>7. CASE RequestLiveEdit(k)
  <2>1. LoadedOfNote'
    BY <1>7, GoesOfNote DEF RequestLiveEdit
  <2>2. BufferOfNote' /\ Here'
    BY <1>7, BuffersStay, HereStays DEF RequestLiveEdit, buffers, tasks
  <2>3. Queues(Sound)'
    BY <1>7 DEF RequestLiveEdit, NInv, Queues
  <2> QED BY <1>2, <2>1, <2>2, <2>3 DEF NInv
<1> QED BY <1>3, <1>4, <1>5, <1>6, <1>7 DEF Changing

\* The consumer.
LEMMA ConsumingOfNote ==
    ASSUME TInv, NInv, NEW d \in Node, Consuming(d)
    PROVE  NInv'
<1> DEFINE h == handling[d]
<1>1. /\ h.pc \in {"rest", "looked", "cloned"}
      /\ h.pc # "rest" =>
            /\ h.m \in Known /\ h.from \in Node /\ h.m.note \in Note
            /\ h.m.edits \in SUBSET Edit /\ h.m.vector \in SUBSET Edit
            /\ OfNote(h.m.edits, h.m.note) /\ h.m.note = note[d]
      /\ h.pc = "cloned" => h.doc = current[d]
  BY EventKinds DEF NInv, Here, HandlingHere
<1>2. Buffer(d) \in SUBSET Edit /\ OfNote(Buffer(d), note[d])
  BY BufferTyped DEF NInv, BufferOfNote, OfNote
<1>3. ASSUME Rests(d), UNCHANGED <<note, current, applying>>
      PROVE  Here'
  BY <1>3 DEF Rests, TInv, Events, NInv, Here, ApplyingHere, HandlingHere, Resting
<1>4. StoredOfNote' /\ LoadedOfNote'
  BY DEF Consuming, TakeConnected, TakeNotice, Look, AnswerCheck, AnswerVectors,
         CloneForPeer, ProcessUpdate, ProcessResponse, ProcessEdit, editor, NInv,
         StoredOfNote, LoadedOfNote
<1>5. ASSUME NEW e \in Node, TakeConnected(d, e)
      PROVE  NInv'
  <2> DEFINE m == About("check", note[d], {}, {})
  <2>1. /\ note[d] = None => queue' = queue
        /\ note[d] # None => Send(d, e, m)
    BY <1>5 DEF TakeConnected
  <2>2. note[d] # None => m \in Sound
    <3>1. note[d] # None => note[d] \in Note /\ OfNote({}, note[d])
      BY DEF TInv, Buffers, OfNote
    <3> QED BY <3>1, AboutSound
  <2> HIDE DEF m
  <2>3. CASE note[d] = None
    BY <1>5, <2>1, <2>3, <1>4, BuffersStay, HereStays
       DEF TakeConnected, editor, buffers, tasks, NInv, EditorOfNote, Queues
  <2>4. CASE note[d] # None
    <3>1. Queues(Sound)'
      BY <2>1, <2>2, <2>4, SendIn DEF NInv
    <3> QED
      BY <1>4, <1>5, <3>1, BuffersStay, HereStays
         DEF TakeConnected, editor, buffers, tasks, NInv, EditorOfNote
  <2> QED BY <2>3, <2>4
<1>6. ASSUME NEW e \in Node, TakeNotice(d, e)
      PROVE  NInv'
  <2>1. Queues(Sound)'
    BY <1>6, FirstIn DEF TakeNotice, NInv, Queues
  <2> QED
    BY <1>4, <1>6, <2>1, BuffersStay, HereStays
       DEF TakeNotice, editor, buffers, tasks, NInv, EditorOfNote
<1>7. ASSUME NEW e \in Node, Look(d, e)
      PROVE  NInv'
  <2> DEFINE m == First(d, e)
             l == [pc |-> "looked", m |-> m, from |-> e]
  <2>1. [kind |-> "mismatch"] \in Sound
    BY DEF Sound, Message, Known
  <2>2. m \in Sound /\ Queues(Sound)'
    BY <1>7, <2>1, LookIn DEF NInv
  <2>3. /\ m.kind \notin {"mismatch", "changed"}
        /\ \/ handling' = handling
           \/ m.note = note[d] /\ handling' = [handling EXCEPT ![d] = l]
        /\ UNCHANGED <<editor, buffers, applying>>
    BY <1>7 DEF Look, tasks
  <2> HIDE DEF m
  <2>4. OfNote(m.edits, m.note)
    BY <2>2, <2>3 DEF Sound, Message, Known
  <2>5. l.pc = "looked" /\ l.m = m
    OBVIOUS
  <2> HIDE DEF l
  <2>6. HandlingHere'
    BY <2>3, <2>4, <2>5 DEF buffers, TInv, Events, NInv, Here, HandlingHere
  <2>7. ApplyingHere'
    BY <2>3 DEF buffers, NInv, Here, ApplyingHere
  <2>8. BufferOfNote' /\ EditorOfNote'
    BY <2>3, BuffersStay DEF editor, NInv, EditorOfNote
  <2> QED BY <1>4, <2>2, <2>6, <2>7, <2>8 DEF NInv, Here
<1>8. CASE AnswerCheck(d)
  <2> DEFINE m == About("vectors", h.m.note, {}, Buffer(d))
  <2>1. /\ Rests(d) /\ Send(d, h.from, m) /\ h.pc = "looked"
        /\ UNCHANGED <<editor, buffers, applying>>
    BY <1>8 DEF AnswerCheck, Looked, tasks
  <2>2. OfNote({}, h.m.note)
    BY DEF OfNote
  <2>3. m \in Sound /\ h.from \in Node
    BY <1>1, <1>2, <2>1, <2>2, AboutSound
  <2> HIDE DEF m, h
  <2>4. Queues(Sound)'
    BY <2>1, <2>3, SendIn DEF NInv
  <2>5. Here'
    BY <1>3, <2>1 DEF buffers
  <2>6. BufferOfNote' /\ EditorOfNote'
    BY <2>1, BuffersStay DEF editor, NInv, EditorOfNote
  <2> QED BY <1>4, <2>4, <2>5, <2>6 DEF NInv
<1>9. CASE AnswerVectors(d)
  <2> DEFINE new == UpdatesFor(Buffer(d), h.m.vector)
             own == Exchanged(Buffer(d))
             m == About("exchange", h.m.note, new, own)
  <2>1. /\ Rests(d) /\ Send(d, h.from, m) /\ h.pc = "looked"
        /\ UNCHANGED <<editor, buffers, applying>>
    BY <1>9 DEF AnswerVectors, Looked, tasks
  <2>2. new \in SUBSET Edit /\ own \in SUBSET Edit /\ OfNote(new, h.m.note)
    BY <1>1, <1>2, <2>1 DEF UpdatesFor, Exchanged, OfNote
  <2> HIDE DEF new, own
  <2>3. m \in Sound /\ h.from \in Node
    BY <1>1, <2>1, <2>2, AboutSound
  <2> HIDE DEF m, h
  <2>4. Queues(Sound)'
    BY <2>1, <2>3, SendIn DEF NInv
  <2>5. Here'
    BY <1>3, <2>1 DEF buffers
  <2>6. BufferOfNote' /\ EditorOfNote'
    BY <2>1, BuffersStay DEF editor, NInv, EditorOfNote
  <2> QED BY <1>4, <2>4, <2>5, <2>6 DEF NInv
<1>10. CASE CloneForPeer(d)
  <2> DEFINE c == [pc |-> "cloned", m |-> h.m, from |-> h.from, doc |-> current[d]]
  <2>1. /\ h.pc = "looked" /\ handling' = [handling EXCEPT ![d] = c]
        /\ UNCHANGED <<editor, buffers, applying, queue>>
    BY <1>10 DEF CloneForPeer, Looked, tasks, peers
  <2>2. c.pc = "cloned" /\ c.m = h.m /\ c.doc = current[d]
    OBVIOUS
  <2> HIDE DEF c
  <2>3. HandlingHere'
    BY <1>1, <2>1, <2>2 DEF buffers, TInv, Events, NInv, Here, HandlingHere
  <2>4. ApplyingHere' /\ Queues(Sound)'
    BY <2>1 DEF buffers, NInv, Here, ApplyingHere, Queues
  <2>5. BufferOfNote' /\ EditorOfNote'
    BY <2>1, BuffersStay DEF editor, NInv, EditorOfNote
  <2> QED BY <1>4, <2>3, <2>4, <2>5 DEF NInv, Here
<1>11. ASSUME NEW kind, Writes(d, kind), UNCHANGED <<note, tasks>>
       PROVE  /\ h.pc = "cloned" /\ h.from \in Node /\ h.m.note \in Note
              /\ h.m.edits \in SUBSET Edit /\ h.m.note = note[d]
              /\ OfNote(h.m.edits, note[d])
              /\ BufferOfNote' /\ Here'
  <2>1. h.pc = "cloned" /\ Rests(d) /\ WritesBack(d, h.doc, h.m.edits)
    BY <1>11 DEF Writes
  <2>2. /\ h.from \in Node /\ h.m.note \in Note /\ h.m.edits \in SUBSET Edit
        /\ h.m.note = note[d] /\ OfNote(h.m.edits, note[d]) /\ h.doc = current[d]
    BY <1>1, <2>1
  <2> HIDE DEF h
  <2>3. BufferOfNote' /\ current' = current
    BY <1>11, <2>1, <2>2, WritesOfNote
  <2>4. Here'
    BY <1>3, <1>11, <2>1, <2>3 DEF tasks
  <2> QED BY <2>1, <2>2, <2>3, <2>4
<1>12. CASE ProcessUpdate(d)
  <2> DEFINE new == UpdatesFor(docs[d][h.doc], h.m.vector)
             m == About("response", h.m.note, new, {})
  <2>1. /\ Writes(d, "exchange") /\ Send(d, h.from, m) /\ Shows(d, note[d], h.m.edits)
        /\ UNCHANGED <<shown, note, tasks>>
    BY <1>12 DEF ProcessUpdate
  <2>2. /\ h.pc = "cloned" /\ h.from \in Node /\ h.m.note \in Note
        /\ h.m.edits \in SUBSET Edit /\ h.m.note = note[d] /\ OfNote(h.m.edits, note[d])
        /\ BufferOfNote' /\ Here'
    BY <1>11, <2>1
  <2>3. docs[d][h.doc] = Buffer(d)
    BY <1>1, <2>2 DEF Buffer
  <2>4. new \in SUBSET Edit /\ OfNote(new, h.m.note)
    BY <1>2, <2>2, <2>3 DEF UpdatesFor, Exchanged, OfNote
  <2> HIDE DEF new
  <2>5. m \in Sound
    BY <2>2, <2>4, AboutSound
  <2> HIDE DEF m, h
  <2>6. Queues(Sound)'
    BY <2>1, <2>2, <2>5, SendIn DEF NInv
  <2>7. EditorOfNote'
    BY <2>1, <2>2, ShowsOfNote
  <2> QED BY <1>4, <2>2, <2>6, <2>7 DEF NInv
<1>13. CASE ProcessResponse(d)
  <2>1. /\ Writes(d, "response") /\ Shows(d, note[d], h.m.edits)
        /\ UNCHANGED <<shown, note, tasks, queue>>
    BY <1>13 DEF ProcessResponse
  <2>2. /\ h.m.edits \in SUBSET Edit /\ OfNote(h.m.edits, note[d])
        /\ BufferOfNote' /\ Here'
    BY <1>11, <2>1
  <2> HIDE DEF h
  <2>3. EditorOfNote'
    BY <2>1, <2>2, ShowsOfNote
  <2> QED BY <1>4, <2>1, <2>2, <2>3 DEF NInv, Queues
<1>14. CASE ProcessEdit(d)
  <2>1. /\ Writes(d, "update") /\ Shows(d, h.m.note, h.m.edits)
        /\ UNCHANGED <<shown, note, tasks, peers>>
    BY <1>14 DEF ProcessEdit
  <2>2. /\ h.m.edits \in SUBSET Edit /\ h.m.note = note[d] /\ OfNote(h.m.edits, note[d])
        /\ BufferOfNote' /\ Here'
    BY <1>11, <2>1
  <2>3. Shows(d, note[d], h.m.edits)
    BY <2>1, <2>2
  <2> HIDE DEF h
  <2>4. EditorOfNote'
    BY <2>1, <2>2, <2>3, ShowsOfNote
  <2> QED BY <1>4, <2>1, <2>2, <2>4 DEF NInv, Queues, peers
<1> QED
  BY <1>5, <1>6, <1>7, <1>8, <1>9, <1>10, <1>12, <1>13, <1>14 DEF Consuming

\* The timer, and merges.
LEMMA ReconcileOfNote ==
    ASSUME TInv, NInv, NEW d \in Node, Reconcile(d)
    PROVE  NInv'
<1> DEFINE m == About("vectors", note[d], {}, Buffer(d))
<1>1. Broadcast(d, m) /\ note[d] \in Note /\ OfNote({}, note[d])
  BY DEF Reconcile, TInv, Buffers, OfNote
<1>2. m \in Sound
  BY <1>1, AboutSound, BufferTyped
<1> HIDE DEF m
<1>3. Queues(Sound)'
  BY <1>1, <1>2, BroadcastIn DEF NInv
<1>4. BufferOfNote' /\ Here'
  BY BuffersStay, HereStays DEF Reconcile, buffers, tasks
<1>5. StoredOfNote' /\ LoadedOfNote' /\ EditorOfNote'
  BY DEF Reconcile, editor, NInv, StoredOfNote, LoadedOfNote, EditorOfNote
<1> QED BY <1>3, <1>4, <1>5 DEF NInv

LEMMA MergedOfNote ==
    ASSUME Faults = {}, TInv, NInv, NEW d \in Node, NEW e \in Node, NEW n \in Note,
           Merged(d, e, n)
    PROVE  NInv'
<1> DEFINE new == Exchanged(stored[e][n])
<1>1. note[d] = n /\ note[d] # None
  BY NoneAssumption DEF Merged
<1>2. new \in SUBSET Edit /\ OfNote(new, note[d])
  BY <1>1 DEF Exchanged, TInv, Editors, NInv, StoredOfNote, OfNote
<1>3. Shows(d, note[d], new) /\ UNCHANGED shown
  BY <1>1 DEF Merged
<1> HIDE DEF new
<1>4. EditorOfNote'
  BY <1>2, <1>3, ShowsOfNote
<1>5. StoredOfNote'
  <2>1. stored' = [stored EXCEPT ![d][n] = @ \cup stored[e][n]]
    BY DEF Merged
  <2>2. \A f \in Node, q \in Note :
           \/ stored'[f][q] = stored[f][q]
           \/ q = n /\ stored'[f][q] = stored[f][q] \cup stored[e][n]
    BY <2>1 DEF TInv, Editors
  <2> QED BY <2>2 DEF NInv, StoredOfNote, OfNote
<1>6. LoadedOfNote' /\ Queues(Sound)'
  BY DEF Merged, peers, NInv, LoadedOfNote, Queues
<1>7. BufferOfNote' /\ Here'
  BY BuffersStay, HereStays DEF Merged, buffers, tasks
<1> QED BY <1>4, <1>5, <1>6, <1>7 DEF NInv

LEMMA NextOfNote == Faults = {} /\ TInv /\ NInv /\ [Next]_vars => NInv'
<1> SUFFICES ASSUME Faults = {}, TInv, NInv, [Next]_vars PROVE NInv'
  OBVIOUS
<1>1. ASSUME NEW d \in Node, Show(d) PROVE NInv'
  BY <1>1, ShowOfNote
<1>2. ASSUME NEW d \in Node, Updating(d) PROVE NInv'
  BY <1>2, UpdatingOfNote
<1>3. ASSUME NEW d \in Node, Consuming(d) PROVE NInv'
  BY <1>3, ConsumingOfNote
<1>4. ASSUME NEW d \in Node, Reconcile(d) PROVE NInv'
  BY <1>4, ReconcileOfNote
<1>5. ASSUME NEW k \in Change, Changing(k) PROVE NInv'
  BY <1>5, ChangingOfNote
<1>6. ASSUME NEW d \in Node, NEW n \in Note \cup {None}, SwitchNote(d, n) PROVE NInv'
  BY <1>6, SwitchNoteOfNote
<1>7. ASSUME NEW d \in Node, NEW kind \in Kinds, Type(d, kind) PROVE NInv'
  BY <1>7, TypeOfNote
<1>8. ASSUME NEW d \in Node, NEW e \in Node, NEW n \in Note, Merged(d, e, n) PROVE NInv'
  BY <1>8, MergedOfNote
<1>9. ASSUME UNCHANGED vars PROVE NInv'
  <2>1. BufferOfNote' /\ Here'
    BY <1>9, BuffersStay, HereStays DEF vars, buffers, tasks
  <2>2. StoredOfNote' /\ LoadedOfNote' /\ EditorOfNote' /\ Queues(Sound)'
    BY <1>9 DEF vars, editor, peers, NInv, StoredOfNote, LoadedOfNote, EditorOfNote,
                Queues
  <2> QED BY <2>1, <2>2 DEF NInv
<1> QED BY <1>1, <1>2, <1>3, <1>4, <1>5, <1>6, <1>7, <1>8, <1>9 DEF Next, Working

LEMMA AlwaysOfNote == Faults = {} /\ Spec => []NInv
<1>1. SUFFICES ASSUME Faults = {} PROVE Spec => []NInv
  OBVIOUS
<1>2. TInv /\ NInv /\ [Next]_vars => NInv'
  BY <1>1, NextOfNote
<1> QED BY <1>2, InitOfNote, AlwaysTyped, PTL DEF Spec

\* What is applied to the open note's buffers was meant for it: is_current_note
\* is asked before every use, and nothing sets a note between the answer and
\* the use.  Both faults break it: a document that is written back after
\* another note was set (current_note_state.rs:106), a merge of another note
\* that the editor shows and then saves (updates.rs:109).
THEOREM BuffersKeepToNote == Faults = {} /\ Spec => []BufferOfNote
<1>1. NInv => BufferOfNote
  BY DEF NInv
<1> QED BY <1>1, AlwaysOfNote, PTL

\* The editor shows nothing of another note, although it and the buffers
\* change notes at different times: handleDocumentUpdates compares the note
\* that the updates are announced for, the current one of the buffers, with its
\* own.
THEOREM EditorsKeepToNote == Faults = {} /\ Spec => []EditorOfNote
<1>1. NInv => EditorOfNote
  BY DEF NInv
<1> QED BY <1>1, AlwaysOfNote, PTL
=============================================================================
