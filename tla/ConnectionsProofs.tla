------------------------- MODULE ConnectionsProofs -------------------------
(***************************************************************************)
(* What holds of Connections for every set of devices, for calls of every  *)
(* kind and with every number of faults.                                   *)
(***************************************************************************)
EXTENDS Connections, TLAPS

----------------------------------------------------------------------------
(* Writes of one field.                                                    *)

CallState == [pc : Step, link : Link \cup {None}]

\* A step of a call leaves its connection and the other calls alone.
LEMMA GoesEffect ==
    ASSUME call \in [Call -> CallState], NEW q \in Call, NEW step \in Step, Goes(q, step)
    PROVE  /\ call' \in [Call -> CallState]
           /\ call'[q].pc = step /\ call'[q].link = call[q].link
           /\ \A r \in Call : r # q => call'[r] = call[r]
<1>1. call[q] \in CallState
  OBVIOUS
<1>2. [call[q] EXCEPT !.pc = step] = [pc |-> step, link |-> call[q].link]
  BY <1>1 DEF CallState
<1>3. call' = [call EXCEPT ![q] = [pc |-> step, link |-> call[q].link]]
  BY <1>2 DEF Goes
<1> QED BY <1>1, <1>3 DEF CallState

\* A call that ends is idle, or has its result taken by the event loop.
LEMMA ReturnsEffect ==
    ASSUME call \in [Call -> CallState], NEW q \in Call, NEW c \in Link \cup {None},
           Returns(q, c)
    PROVE  /\ call' \in [Call -> CallState]
           /\ call'[q].pc = IF q[3] = "check" THEN "returned" ELSE "idle"
           /\ \A r \in Call : r # q => call'[r] = call[r]
BY DEF Returns, NoCall, CallState, Step

\* What the listener does to a connection.
LEMMA AcceptsEffect ==
    ASSUME link \in [Link -> LinkState], NEW c \in Link,
           NEW step, NEW next \in {"new", "insert", "done"}, Accepts(c, step, next)
    PROVE  /\ link' \in [Link -> LinkState]
           /\ \A k \in Link : /\ link'[k].from = link[k].from /\ link'[k].to = link[k].to
                              /\ link'[k].hs = link[k].hs
<1>1. link[c] \in LinkState
  OBVIOUS
<1>2. [link[c] EXCEPT !.accept = next] =
         [from |-> link[c].from, to |-> link[c].to, open |-> link[c].open,
          accept |-> next, hs |-> link[c].hs]
  BY <1>1 DEF LinkState
<1>3. link' = [link EXCEPT ![c] =
                 [from |-> link[c].from, to |-> link[c].to, open |-> link[c].open,
                  accept |-> next, hs |-> link[c].hs]]
  BY <1>2 DEF Accepts
<1> QED BY <1>1, <1>3 DEF LinkState

\* What a handshake message does to it.
LEMMA ShakeEffect ==
    ASSUME link \in [Link -> LinkState], NEW c \in Link, NEW m \in Handshake,
           link' = [link EXCEPT ![c].hs = m]
    PROVE  /\ link' \in [Link -> LinkState]
           /\ link'[c].hs = m
           /\ \A k \in Link : /\ link'[k].from = link[k].from /\ link'[k].to = link[k].to
                              /\ k # c => link'[k].hs = link[k].hs
<1>1. link[c] \in LinkState
  OBVIOUS
<1>2. [link[c] EXCEPT !.hs = m] =
         [from |-> link[c].from, to |-> link[c].to, open |-> link[c].open,
          accept |-> link[c].accept, hs |-> m]
  BY <1>1 DEF LinkState
<1>3. link' = [link EXCEPT ![c] =
                 [from |-> link[c].from, to |-> link[c].to, open |-> link[c].open,
                  accept |-> link[c].accept, hs |-> m]]
  BY <1>2
<1> QED BY <1>1, <1>3 DEF LinkState

\* What its loss does to it.
LEMMA LoseEffect ==
    ASSUME link \in [Link -> LinkState], NEW c \in Link, Lose(c)
    PROVE  /\ link' \in [Link -> LinkState]
           /\ link'[c].hs = "silent"
           /\ \A k \in Link : /\ link'[k].from = link[k].from /\ link'[k].to = link[k].to
                              /\ k # c => link'[k].hs = link[k].hs
BY DEF Lose, LinkState, Handshake

\* The ends of a call.
LEMMA CallEnds == \A q \in Call : q[1] \in Node /\ q[2] \in Node /\ q = <<q[1], q[2], q[3]>>
BY DEF Call

----------------------------------------------------------------------------
(* Types.                                                                  *)

\* Every step keeps the types.
LEMMA TypeStep ==
    ASSUME TypeOK, Next PROVE TypeOK'
<1> USE CallEnds DEF TypeOK, CallState
<1>1. ASSUME NEW q \in Call, Ask(q) PROVE TypeOK'
  BY <1>1, GoesEffect DEF Ask, LooksUp, At, Step
<1>2. ASSUME NEW q \in Call, LookUp(q) PROVE TypeOK'
  BY <1>2, GoesEffect DEF LookUp, LooksUp, At, Step
<1>3. ASSUME NEW q \in Call, UseExisting(q) PROVE TypeOK'
  BY <1>3, ReturnsEffect DEF UseExisting, At
<1>4. ASSUME NEW q \in Call, CheckEstablished(q) PROVE TypeOK'
  BY <1>4, ReturnsEffect, GoesEffect DEF CheckEstablished, At, Step
<1>5. ASSUME NEW q \in Call, Mark(q) PROVE TypeOK'
  <2>1. CASE q[2] \in connecting[q[1]]
    BY <1>5, <2>1, ReturnsEffect DEF Mark
  <2>2. CASE q[2] \notin connecting[q[1]]
    <3>1. Goes(q, "dial")
      BY <1>5, <2>2 DEF Mark
    <3>2. call' \in [Call -> CallState]
      BY <3>1, GoesEffect DEF Step
    <3>3. q[1] \in Node /\ q[2] \in Node
      OBVIOUS
    <3>4. connecting' = [connecting EXCEPT ![q[1]] = @ \cup {q[2]}]
      BY <1>5, <2>2 DEF Mark
    <3>5. connecting' \in [Node -> SUBSET Node]
      BY <3>3, <3>4
    <3> QED BY <1>5, <3>2, <3>5 DEF Mark
  <2> QED BY <2>1, <2>2
<1>6. ASSUME NEW q \in Call, Dial(q) PROVE TypeOK'
  BY <1>6 DEF Dial, At, Step, LinkState, Handshake, Unreferenced
<1>7. ASSUME NEW q \in Call, Enter(q) PROVE TypeOK'
  BY <1>7, GoesEffect DEF Enter, At, Step
<1>8. ASSUME NEW q \in Call, Insert(q) PROVE TypeOK'
  BY <1>8, GoesEffect DEF Insert, At, Step
<1>9. ASSUME NEW q \in Call, Greet(q) PROVE TypeOK'
  BY <1>9, ReturnsEffect, ShakeEffect DEF Greet, At, Handshake
<1>10. ASSUME NEW q \in Call, GreetFails(q) PROVE TypeOK'
  BY <1>10, GoesEffect DEF GreetFails, At, Step
<1>11. ASSUME NEW q \in Call, CleanUp(q) PROVE TypeOK'
  BY <1>11, ReturnsEffect DEF CleanUp, At
<1>12. ASSUME NEW q \in Call, DialFails(q) PROVE TypeOK'
  BY <1>12, ReturnsEffect, BoundAssumption DEF DialFails, Fault, At
<1>13. ASSUME NEW c \in Link, AcceptEnter(c) PROVE TypeOK'
  <2>1. <<c>> \in {<<k>> : k \in Link}
    OBVIOUS
  <2> QED BY <1>13, <2>1, AcceptsEffect DEF AcceptEnter
<1>14. ASSUME NEW c \in Link, AcceptFails(c) PROVE TypeOK'
  BY <1>14, AcceptsEffect DEF AcceptFails
<1>15. ASSUME NEW c \in Link, AcceptInsert(c) PROVE TypeOK'
  BY <1>15, AcceptsEffect DEF AcceptInsert
<1>16. ASSUME NEW c \in Link, TakeFirst(c) PROVE TypeOK'
  BY <1>16, ShakeEffect DEF TakeFirst, Takes, Handshake
<1>17. ASSUME NEW c \in Link, TakeFirstReply(c) PROVE TypeOK'
  BY <1>17, ShakeEffect DEF TakeFirstReply, Takes, Handshake
<1>18. ASSUME NEW c \in Link, TakeExchange(c) PROVE TypeOK'
  BY <1>18, ShakeEffect DEF TakeExchange, Takes, Handshake
<1>19. ASSUME NEW c \in Link, TakeExchangeReply(c) PROVE TypeOK'
  BY <1>19, ShakeEffect DEF TakeExchangeReply, Takes, Handshake
<1>20. ASSUME NEW c \in Link, Lose(c) PROVE TypeOK'
  <2>1. link' \in [Link -> LinkState]
    BY <1>20, LoseEffect
  <2>2. faults' \in 0 .. MaxFaults
    BY <1>20, BoundAssumption DEF Lose, Fault
  <2> QED BY <1>20, <2>1, <2>2 DEF Lose
<1>21. ASSUME NEW d \in Node, NEW e \in Node, SendCheck(d, e) PROVE TypeOK'
  BY <1>21 DEF SendCheck
<1>22. ASSUME NEW d \in Node, NEW e \in Node, Reconnect(d, e) PROVE TypeOK'
  BY <1>22 DEF Reconnect, Redials, Step
<1>23. ASSUME NEW d \in Node, NEW e \in Node, FindClosed(d, e) PROVE TypeOK'
  BY <1>23 DEF FindClosed
<1>24. ASSUME NEW d \in Node, NEW e \in Node, Purge(d, e) PROVE TypeOK'
  BY <1>24 DEF Purge, Redials, Step
<1>25. ASSUME NEW d \in Node, NEW e \in Node, Reconnected(d, e) PROVE TypeOK'
  BY <1>25 DEF Reconnected, NoCall, Resting, Step
<1>26. ASSUME NEW d \in Node, NEW e \in Node, Broadcast(d, e) PROVE TypeOK'
  BY <1>26, GoesEffect DEF Broadcast, LooksUp, At, Step
<1>27. ASSUME NEW d \in Node, NEW e \in Node, AddKnownUser(d, e) PROVE TypeOK'
  BY <1>27, BoundAssumption DEF AddKnownUser
<1> QED
  BY <1>1, <1>2, <1>3, <1>4, <1>5, <1>6, <1>7, <1>8, <1>9, <1>10,
     <1>11, <1>12, <1>13, <1>14, <1>15, <1>16, <1>17, <1>18, <1>19, <1>20,
     <1>21, <1>22, <1>23, <1>24, <1>25, <1>26, <1>27
  DEF Next, Connecting, Arriving, Consuming

\* The initial states are typed, too.
LEMMA InitTyped == Init => TypeOK
<1>1. NoCall \in CallState /\ Unused \in LinkState
  BY DEF NoCall, CallState, Step, Unused, LinkState, Handshake
<1> QED BY <1>1, BoundAssumption DEF Init, TypeOK, CallState, Resting

\* The types hold in every state: no call, connection or table entry is ever
\* anything but what connection_manager.rs and p2p_service.rs declare.
THEOREM TypeCorrect == Spec => []TypeOK
<1>1. TypeOK /\ UNCHANGED vars => TypeOK'
  BY DEF TypeOK, vars
<1> QED BY InitTyped, TypeStep, <1>1, PTL DEF Spec

----------------------------------------------------------------------------
(* What a step of one kind leaves alone.                                   *)

Others(q) == \A r \in Call : r # q => call'[r] = call[r]

\* A call that goes on is one that runs, and is nobody else's business.
LEMMA CallSteps ==
    ASSUME TypeOK, NEW q \in Call, Connecting(q) \/ DialFails(q)
    PROVE  call[q].pc # "idle" /\ Others(q) /\ UNCHANGED <<consumer, contact>>
<1> DEFINE Goal == call[q].pc # "idle" /\ Others(q) /\ UNCHANGED <<consumer, contact>>
<1> USE CallEnds DEF TypeOK, CallState, Others, At
<1>1. CASE LookUp(q)
  BY <1>1, GoesEffect DEF LookUp, LooksUp, Step
<1>2. CASE UseExisting(q)
  BY <1>2, ReturnsEffect DEF UseExisting
<1>3. CASE CheckEstablished(q)
  BY <1>3, ReturnsEffect, GoesEffect DEF CheckEstablished, Step
<1>4. CASE Mark(q)
  BY <1>4, ReturnsEffect, GoesEffect DEF Mark, Step
<1>5. CASE Dial(q)
  BY <1>5 DEF Dial
<1>6. CASE Enter(q)
  BY <1>6, GoesEffect DEF Enter, Step
<1>7. CASE Insert(q)
  BY <1>7, GoesEffect DEF Insert, Step
<1>8. CASE Greet(q)
  BY <1>8, ReturnsEffect DEF Greet
<1>9. CASE GreetFails(q)
  BY <1>9, GoesEffect DEF GreetFails, Step
<1>10. CASE CleanUp(q)
  BY <1>10, ReturnsEffect DEF CleanUp
<1>11. CASE DialFails(q)
  BY <1>11, ReturnsEffect DEF DialFails
<1> QED BY <1>1, <1>2, <1>3, <1>4, <1>5, <1>6, <1>7, <1>8, <1>9, <1>10, <1>11
     DEF Connecting

\* So is one that begins.
LEMMA Begins ==
    ASSUME TypeOK, NEW q \in Call, LooksUp(q), call[q].pc = "idle"
    PROVE  Others(q) /\ call'[q].pc \in {"existing", "check"}
BY GoesEffect DEF TypeOK, CallState, Others, LooksUp, Step

\* What becomes of a connection leaves calls and ends alone.
LEMMA LinkSteps ==
    ASSUME TypeOK, NEW c \in Link, Arriving(c) \/ Lose(c)
    PROVE  /\ UNCHANGED <<call, consumer, checks>>
           /\ \A k \in Link : /\ link'[k].from = link[k].from /\ link'[k].to = link[k].to
                              /\ k # c => link'[k].hs = link[k].hs
<1> USE DEF TypeOK
<1>1. CASE AcceptEnter(c) \/ AcceptFails(c) \/ AcceptInsert(c)
  BY <1>1, AcceptsEffect DEF AcceptEnter, AcceptFails, AcceptInsert
<1>2. CASE TakeFirst(c) \/ TakeFirstReply(c) \/ TakeExchange(c) \/ TakeExchangeReply(c)
  BY <1>2, ShakeEffect
  DEF TakeFirst, TakeFirstReply, TakeExchange, TakeExchangeReply, Takes, Handshake
<1>3. CASE Lose(c)
  <2>1. UNCHANGED <<call, consumer, checks>>
    BY <1>3 DEF Lose
  <2> QED BY <1>3, <2>1, LoseEffect
<1> QED BY <1>1, <1>2, <1>3 DEF Arriving

----------------------------------------------------------------------------
(* Marks.                                                                  *)

\* The event loop waits for the call that it makes for a DocumentCheck.
OneCheck ==
    \A q \in Call : q[3] = "check" /\ call[q].pc # "idle" =>
        consumer[q[1]].pc = "connect" /\ consumer[q[1]].peer = q[2]

\* No step makes a second one, or goes on without the first.
LEMMA OneCheckStep ==
    ASSUME TypeOK, OneCheck, Next PROVE OneCheck'
<1> SUFFICES ASSUME NEW r \in Call, r[3] = "check", call'[r].pc # "idle"
             PROVE  consumer'[r[1]].pc = "connect" /\ consumer'[r[1]].peer = r[2]
  BY DEF OneCheck
<1> DEFINE Ran == call[r].pc # "idle"
<1>1. Ran => consumer[r[1]].pc = "connect" /\ consumer[r[1]].peer = r[2]
  BY DEF OneCheck
<1>2. ASSUME NEW q \in Call, Connecting(q) \/ DialFails(q)
      PROVE  consumer' = consumer /\ Ran
  BY <1>2, CallSteps DEF Others
<1>3. ASSUME NEW q \in Call, Ask(q) PROVE consumer' = consumer /\ Ran
  BY <1>3, Begins DEF Ask, At, Others
<1>4. ASSUME NEW c \in Link, Arriving(c) \/ Lose(c) PROVE consumer' = consumer /\ Ran
  BY <1>4, LinkSteps
<1>5. ASSUME NEW d \in Node, NEW e \in Node, Broadcast(d, e)
      PROVE  consumer' = consumer /\ Ran
  BY <1>5, Begins DEF Broadcast, At, Others
<1>6. ASSUME NEW d \in Node, NEW e \in Node, SendCheck(d, e) \/ AddKnownUser(d, e)
      PROVE  consumer' = consumer /\ Ran
  BY <1>6 DEF SendCheck, AddKnownUser
<1>7. ASSUME NEW d \in Node, NEW e \in Node, FindClosed(d, e)
      PROVE  consumer'[r[1]] = consumer[r[1]] /\ Ran
  <2>1. Ran /\ consumer[d].pc = "idle"
    BY <1>7 DEF FindClosed
  <2>2. r[1] # d
    BY <2>1, <1>1
  <2> QED BY <1>7, <2>1, <2>2 DEF FindClosed, TypeOK
<1>8. ASSUME NEW d \in Node, NEW e \in Node, Redials(d, e), consumer[d].pc # "connect"
      PROVE  consumer'[r[1]].pc = "connect" /\ consumer'[r[1]].peer = r[2]
  <2>1. CASE r = CheckCall(d, e)
    BY <1>8, <2>1 DEF Redials, CheckCall, TypeOK
  <2>2. CASE r # CheckCall(d, e)
    <3>1. Ran
      BY <1>8, <2>2 DEF Redials, TypeOK
    <3>2. r[1] # d
      BY <3>1, <1>1, <1>8
    <3> QED BY <1>8, <1>1, <3>1, <3>2 DEF Redials, TypeOK
  <2> QED BY <2>1, <2>2
<1>9. ASSUME NEW d \in Node, NEW e \in Node, Reconnected(d, e)
      PROVE  consumer'[r[1]] = consumer[r[1]] /\ Ran
  <2>1. r # CheckCall(d, e)
    BY <1>9 DEF Reconnected, NoCall, TypeOK
  <2>2. Ran
    BY <1>9, <2>1 DEF Reconnected, TypeOK
  <2>3. consumer[d].peer = e
    BY <1>9 DEF Reconnected
  <2>4. r = <<r[1], r[2], "check">>
    BY CallEnds
  <2>5. r[1] # d
    <3> SUFFICES ASSUME r[1] = d PROVE FALSE
      OBVIOUS
    <3>1. r[2] = e
      BY <1>1, <2>2, <2>3
    <3>2. r = <<d, e, "check">>
      BY <2>4, <3>1
    <3> QED BY <2>1, <3>2 DEF CheckCall
  <2> QED BY <1>9, <2>2, <2>5 DEF Reconnected, TypeOK
<1>10. ASSUME NEW d \in Node, NEW e \in Node, Reconnect(d, e) \/ Purge(d, e)
       PROVE  consumer'[r[1]].pc = "connect" /\ consumer'[r[1]].peer = r[2]
  BY <1>8, <1>10 DEF Reconnect, Purge
<1> HIDE DEF Ran
<1> QED BY <1>1, <1>2, <1>3, <1>4, <1>5, <1>6, <1>7, <1>9, <1>10 DEF Next, Consuming

\* A call that begins or goes on keeps what it has marked, or takes it back.
Busy(q) == Dialling(q) \/ At(q, "failed")

\* Marks are only made by a call that dials, and leave with it.
LEMMA MarksStep ==
    ASSUME TypeOK, OneCheck, MarksHaveDials, Next PROVE MarksHaveDials'
<1> SUFFICES ASSUME NEW d \in Node, NEW p \in connecting'[d]
             PROVE  \E q \in Call : q[1] = d /\ q[2] = p /\ Busy(q)'
  BY DEF MarksHaveDials, Busy
<1> DEFINE Witness == \E q \in Call : q[1] = d /\ q[2] = p /\ Busy(q)'
<1> USE DEF Busy, Dialling, At
<1>1. p \in connecting[d] => \E q \in Call : q[1] = d /\ q[2] = p /\ Busy(q)
  BY DEF MarksHaveDials
\* Whoever keeps the marks and the calls that have them keeps the invariant.
<1>2. ASSUME connecting'[d] \subseteq connecting[d],
             \A q \in Call : q[1] = d /\ q[2] = p /\ Busy(q) => call'[q] = call[q]
      PROVE  Witness
  BY <1>1, <1>2
<1>3. ASSUME NEW q \in Call, Ask(q) PROVE Witness
  <2>1. connecting' = connecting /\ call[q].pc = "idle" /\ Others(q)
    BY <1>3, Begins DEF Ask
  <2> QED BY <1>2, <2>1 DEF Others
<1>4. ASSUME NEW q \in Call, LookUp(q) \/ UseExisting(q) \/ CheckEstablished(q)
                               \/ Insert(q)
      PROVE  Witness
  <2>1. connecting' = connecting /\ ~Busy(q)
    BY <1>4 DEF LookUp, UseExisting, CheckEstablished, Insert
  <2>2. Others(q)
    BY <1>4, CallSteps DEF Connecting
  <2> QED BY <1>2, <2>1, <2>2 DEF Others
<1>5. ASSUME NEW q \in Call, Mark(q) PROVE Witness
  <2>1. Others(q) /\ ~Busy(q)
    BY <1>5, CallSteps DEF Connecting, Mark
  <2>2. CASE q[2] \in connecting[q[1]]
    BY <1>2, <1>5, <2>1, <2>2 DEF Mark, Others
  <2>3. CASE q[2] \notin connecting[q[1]]
    <3>1. Goes(q, "dial") /\ connecting' = [connecting EXCEPT ![q[1]] = @ \cup {q[2]}]
      BY <1>5, <2>3 DEF Mark
    <3>2. call'[q].pc = "dial"
      BY <3>1, GoesEffect DEF Step, TypeOK, CallState
    <3>3. CASE d = q[1] /\ p = q[2]
      BY <3>2, <3>3
    <3>4. CASE ~(d = q[1] /\ p = q[2])
      <4>1. p \in connecting[d]
        BY <3>1, <3>4, CallEnds DEF TypeOK
      <4>2. PICK r \in Call : r[1] = d /\ r[2] = p /\ Busy(r)
        BY <1>1, <4>1
      <4>3. call'[r] = call[r]
        BY <2>1, <4>2 DEF Others
      <4> QED BY <4>2, <4>3
    <3> QED BY <3>3, <3>4
  <2> QED BY <2>2, <2>3
<1>6. ASSUME NEW q \in Call, Dial(q) PROVE Witness
  <2>1. connecting' = connecting /\ Others(q)
    BY <1>6, CallSteps DEF Connecting, Dial
  <2>2. call'[q].pc = "handshake"
    BY <1>6 DEF Dial, TypeOK
  <2>3. PICK r \in Call : r[1] = d /\ r[2] = p /\ Busy(r)
    BY <1>1, <2>1
  <2>4. Busy(r)'
    BY <2>1, <2>2, <2>3 DEF Others
  <2> QED BY <2>3, <2>4
\* The four ways out take the mark of this call back.
<1>7. ASSUME NEW q \in Call, Others(q),
             connecting' = [connecting EXCEPT ![q[1]] = @ \ {q[2]}]
      PROVE  Witness
  <2>1. p \in connecting[d] /\ ~(d = q[1] /\ p = q[2])
    BY <1>7, CallEnds DEF TypeOK
  <2>2. PICK r \in Call : r[1] = d /\ r[2] = p /\ Busy(r)
    BY <1>1, <2>1
  <2> QED BY <1>7, <2>1, <2>2 DEF Others
<1>8. ASSUME NEW q \in Call, Enter(q) \/ CleanUp(q) \/ DialFails(q) PROVE Witness
  <2>1. Others(q)
    BY <1>8, CallSteps DEF Connecting
  <2> QED BY <1>7, <1>8, <2>1 DEF Enter, CleanUp, DialFails
<1>9. ASSUME NEW q \in Call, Greet(q) \/ GreetFails(q) PROVE Witness
  <2>1. Others(q)
    BY <1>9, CallSteps DEF Connecting
  <2>2. connecting' = connecting /\ ~Busy(q)
    BY <1>9 DEF Greet, GreetFails
  <2> QED BY <1>2, <2>1, <2>2 DEF Others
<1>10. ASSUME NEW c \in Link, Arriving(c) \/ Lose(c) PROVE Witness
  <2>1. UNCHANGED call
    BY <1>10, LinkSteps
  <2>2. connecting'[d] \subseteq connecting[d]
    <3>1. CASE AcceptEnter(c)
      BY <3>1 DEF AcceptEnter, TypeOK
    <3>2. CASE ~AcceptEnter(c)
      BY <1>10, <3>2
      DEF Arriving, AcceptFails, AcceptInsert, TakeFirst, TakeFirstReply, TakeExchange,
          TakeExchangeReply, Takes, Lose
    <3> QED BY <3>1, <3>2
  <2> QED BY <1>2, <2>1, <2>2
<1>11. ASSUME NEW e \in Node, NEW f \in Node,
              \/ SendCheck(e, f) \/ FindClosed(e, f) \/ AddKnownUser(e, f)
       PROVE  Witness
  BY <1>2, <1>11 DEF SendCheck, FindClosed, AddKnownUser
<1>12. ASSUME NEW e \in Node, NEW f \in Node, Broadcast(e, f) PROVE Witness
  <2> DEFINE q == <<e, f, "live">>
  <2>1. q \in Call /\ connecting' = connecting /\ call[q].pc = "idle" /\ LooksUp(q)
    BY <1>12 DEF Broadcast
  <2>2. Others(q)
    BY <2>1, Begins
  <2> QED BY <1>2, <2>1, <2>2 DEF Others
\* The call for a DocumentCheck that is made or taken was idle or has returned.
<1>13. ASSUME NEW e \in Node, NEW f \in Node,
              \/ Reconnect(e, f) \/ Purge(e, f) \/ Reconnected(e, f)
       PROVE  Witness
  <2> DEFINE q == CheckCall(e, f)
  <2>1. q \in Call => ~Busy(q)
    BY <1>13 DEF Reconnect, Purge, Reconnected, OneCheck, CheckCall
  <2>2. connecting' = connecting /\ \A r \in Call : r # q => call'[r] = call[r]
    BY <1>13 DEF Reconnect, Purge, Reconnected, Redials, TypeOK
  <2> QED BY <1>2, <2>1, <2>2
<1> QED BY <1>3, <1>4, <1>5, <1>6, <1>8, <1>9, <1>10, <1>11, <1>12, <1>13
     DEF Next, Connecting, Consuming

\* A mark never outlives the connect_with_ticket that set it: whatever way the
\* call is left by (p2p_service.rs, connect_with_ticket), the mark is gone.
THEOREM MarksNeverLeft == Spec => []MarksHaveDials
<1> DEFINE I == TypeOK /\ OneCheck /\ MarksHaveDials
<1>1. Init => I
  BY InitTyped DEF Init, OneCheck, MarksHaveDials, NoCall
<1>2. I /\ [Next]_vars => I'
  <2>1. I /\ Next => I'
    BY TypeStep, OneCheckStep, MarksStep
  <2>2. I /\ UNCHANGED vars => I'
    BY DEF vars, TypeOK, OneCheck, MarksHaveDials, Dialling, At
  <2> QED BY <2>1, <2>2
<1> QED BY <1>1, <1>2, PTL DEF Spec

----------------------------------------------------------------------------
(* Users.                                                                  *)

Known(d, e) == contact[d][e] # "none"

\* What a write to the users of a device leaves.
LEMMA Written ==
    ASSUME contact \in [Node -> [Node -> {"none", "added", "synced"}]],
           NEW f, NEW g, NEW row, contact' = [contact EXCEPT ![f][g] = row],
           NEW d \in Node, NEW e \in Node
    PROVE  contact'[d][e] = IF d = f /\ e = g THEN row ELSE contact[d][e]
OBVIOUS

\* Nobody is deleted.
LEMMA ContactGrows ==
    ASSUME TypeOK, Next, NEW d \in Node, NEW e \in Node, Known(d, e)
    PROVE  Known(d, e)'
<1> USE DEF TypeOK, Known
<1>1. ASSUME NEW q \in Call, Connecting(q) \/ DialFails(q) PROVE Known(d, e)'
  BY <1>1, CallSteps
<1>2. ASSUME NEW q \in Call, Ask(q) PROVE Known(d, e)'
  BY <1>2 DEF Ask
<1>3. ASSUME NEW c \in Link, TakeFirst(c) \/ TakeFirstReply(c) PROVE Known(d, e)'
  <2>1. PICK f, g : contact' = [contact EXCEPT ![f][g] = "synced"]
    BY <1>3 DEF TakeFirst, TakeFirstReply
  <2> QED BY <2>1, Written
<1>4. ASSUME NEW c \in Link, Arriving(c) \/ Lose(c), ~TakeFirst(c), ~TakeFirstReply(c)
      PROVE  Known(d, e)'
  BY <1>4 DEF Arriving, AcceptEnter, AcceptFails, AcceptInsert, TakeExchange,
              TakeExchangeReply, Lose
<1>5. ASSUME NEW f \in Node, NEW g \in Node, AddKnownUser(f, g) PROVE Known(d, e)'
  BY <1>5 DEF AddKnownUser
<1>6. ASSUME NEW f \in Node, NEW g \in Node, Consuming(f, g) \/ Broadcast(f, g)
      PROVE  Known(d, e)'
  BY <1>6 DEF Consuming, SendCheck, Reconnect, FindClosed, Purge, Reconnected, Broadcast
<1> QED BY <1>1, <1>2, <1>3, <1>4, <1>5, <1>6 DEF Next

\* Whoever is dialled, announced or sought by the event loop is a known user.
CallsKnown == \A q \in Call : call[q].pc # "idle" => Known(q[1], q[2])
ChecksKnown == \A d \in Node : \A e \in checks[d] : Known(d, e)
SoughtKnown ==
    \A d \in Node : consumer[d].pc # "idle" =>
        consumer[d].peer \in Node /\ Known(d, consumer[d].peer)

AllKnown == CallsKnown /\ ChecksKnown /\ SoughtKnown

\* A call is begun for a known user, or for the one that is sought.
LEMMA CallsKnownStep ==
    ASSUME TypeOK, AllKnown, Next PROVE CallsKnown'
<1> SUFFICES ASSUME NEW r \in Call, call'[r].pc # "idle" PROVE Known(r[1], r[2])'
  BY DEF CallsKnown
<1>1. Known(r[1], r[2]) => Known(r[1], r[2])'
  BY ContactGrows, CallEnds
<1>2. call[r].pc # "idle" => Known(r[1], r[2])
  BY DEF AllKnown, CallsKnown
<1>3. ASSUME NEW q \in Call, Connecting(q) \/ DialFails(q) PROVE Known(r[1], r[2])
  BY <1>2, <1>3, CallSteps DEF Others
<1>4. ASSUME NEW q \in Call, Ask(q) PROVE Known(r[1], r[2])
  BY <1>2, <1>4, Begins DEF Ask, At, Others, Known
<1>5. ASSUME NEW c \in Link, Arriving(c) \/ Lose(c) PROVE Known(r[1], r[2])
  BY <1>2, <1>5, LinkSteps
<1>6. ASSUME NEW d \in Node, NEW e \in Node, Broadcast(d, e) PROVE Known(r[1], r[2])
  <2>1. Known(d, e) /\ <<d, e, "live">> \in Call /\ Others(<<d, e, "live">>)
    BY <1>6, Begins DEF Broadcast, At, Known
  <2> QED BY <1>2, <2>1 DEF Others
<1>7. ASSUME NEW d \in Node, NEW e \in Node,
             SendCheck(d, e) \/ FindClosed(d, e) \/ AddKnownUser(d, e)
      PROVE  Known(r[1], r[2])
  BY <1>2, <1>7 DEF SendCheck, FindClosed, AddKnownUser
<1>8. ASSUME NEW d \in Node, NEW e \in Node, Reconnect(d, e) \/ Purge(d, e)
      PROVE  Known(r[1], r[2])
  <2>1. Known(d, e)
    BY <1>8 DEF Reconnect, Purge, AllKnown, ChecksKnown, SoughtKnown
  <2>2. CASE r = CheckCall(d, e)
    BY <2>1, <2>2 DEF CheckCall
  <2>3. CASE r # CheckCall(d, e)
    BY <1>2, <1>8, <2>3 DEF Reconnect, Purge, Redials, TypeOK
  <2> QED BY <2>2, <2>3
<1>9. ASSUME NEW d \in Node, NEW e \in Node, Reconnected(d, e) PROVE Known(r[1], r[2])
  BY <1>2, <1>9 DEF Reconnected, NoCall, TypeOK
<1> QED BY <1>1, <1>3, <1>4, <1>5, <1>6, <1>7, <1>8, <1>9 DEF Next, Consuming

\* Announced is only the peer of a call.
LEMMA ChecksKnownStep ==
    ASSUME TypeOK, AllKnown, Next PROVE ChecksKnown'
<1> SUFFICES ASSUME NEW d \in Node, NEW e \in checks'[d] PROVE Known(d, e)'
  BY DEF ChecksKnown
<1>1. e \in Node
  BY TypeStep DEF TypeOK
<1>2. Known(d, e) => Known(d, e)'
  BY <1>1, ContactGrows
<1>3. e \in checks[d] => Known(d, e)
  BY DEF AllKnown, ChecksKnown
<1>4. ASSUME NEW q \in Call, UseExisting(q) PROVE Known(d, e)
  <2>1. Known(q[1], q[2])
    BY <1>4, CallSteps DEF Connecting, AllKnown, CallsKnown
  <2>2. e \in checks[d] \/ (d = q[1] /\ e = q[2])
    BY <1>4, CallEnds DEF UseExisting, TypeOK
  <2> QED BY <1>3, <2>1, <2>2
<1>5. ASSUME NEW q \in Call, Ask(q) \/ Connecting(q) \/ DialFails(q), ~UseExisting(q)
      PROVE  Known(d, e)
  BY <1>3, <1>5 DEF Ask, Connecting, DialFails, LookUp, CheckEstablished, Mark, Dial,
                    Enter, Insert, Greet, GreetFails, CleanUp
<1>6. ASSUME NEW c \in Link, Arriving(c) \/ Lose(c) PROVE Known(d, e)
  BY <1>3, <1>6, LinkSteps
<1>7. ASSUME NEW f \in Node, NEW g \in Node,
             SendCheck(f, g) \/ Reconnect(f, g) \/ FindClosed(f, g)
      PROVE  Known(d, e)
  <2>1. checks' = [checks EXCEPT ![f] = @ \ {g}]
    BY <1>7 DEF SendCheck, Reconnect, FindClosed
  <2>2. checks'[d] \subseteq checks[d]
    BY <2>1 DEF TypeOK
  <2> QED BY <1>3, <2>2
<1>8. ASSUME NEW f \in Node, NEW g \in Node,
             \/ Purge(f, g) \/ Reconnected(f, g) \/ Broadcast(f, g) \/ AddKnownUser(f, g)
      PROVE  Known(d, e)
  BY <1>3, <1>8 DEF Purge, Reconnected, Broadcast, AddKnownUser
<1> QED BY <1>2, <1>4, <1>5, <1>6, <1>7, <1>8 DEF Next, Consuming

\* Sought is only one that was announced.
LEMMA SoughtKnownStep ==
    ASSUME TypeOK, AllKnown, Next PROVE SoughtKnown'
<1> SUFFICES ASSUME NEW d \in Node, consumer'[d].pc # "idle"
             PROVE  consumer'[d].peer \in Node /\ Known(d, consumer[d].peer)'
  BY DEF SoughtKnown
<1> DEFINE Sought == /\ consumer'[d].peer \in Node
                     /\ contact[d][consumer'[d].peer] # "none"
<1>1. ASSUME Sought PROVE consumer'[d].peer \in Node /\ Known(d, consumer[d].peer)'
  BY <1>1, ContactGrows DEF Known
<1>2. consumer'[d] = consumer[d] => Sought
  BY DEF AllKnown, SoughtKnown, Known
<1>3. ASSUME NEW q \in Call, Ask(q) \/ Connecting(q) \/ DialFails(q) PROVE Sought
  BY <1>2, <1>3, CallSteps DEF Ask
<1>4. ASSUME NEW c \in Link, Arriving(c) \/ Lose(c) PROVE Sought
  BY <1>2, <1>4, LinkSteps
<1>5. ASSUME NEW f \in Node, NEW g \in Node,
             SendCheck(f, g) \/ Broadcast(f, g) \/ AddKnownUser(f, g)
      PROVE  Sought
  BY <1>2, <1>5 DEF SendCheck, Broadcast, AddKnownUser
<1>6. ASSUME NEW f \in Node, NEW g \in Node,
             Reconnect(f, g) \/ FindClosed(f, g) \/ Purge(f, g)
      PROVE  Sought
  <2>1. Known(f, g)
    BY <1>6 DEF Reconnect, FindClosed, Purge, AllKnown, ChecksKnown, SoughtKnown
  <2>2. d = f => consumer'[d].peer = g
    BY <1>6 DEF Reconnect, FindClosed, Purge, Redials, TypeOK
  <2>3. d # f => consumer'[d] = consumer[d]
    BY <1>6 DEF Reconnect, FindClosed, Purge, Redials, TypeOK
  <2> QED BY <1>2, <2>1, <2>2, <2>3 DEF Known
<1>7. ASSUME NEW f \in Node, NEW g \in Node, Reconnected(f, g) PROVE Sought
  BY <1>2, <1>7 DEF Reconnected, Resting, TypeOK
<1> QED BY <1>1, <1>3, <1>4, <1>5, <1>6, <1>7 DEF Next, Consuming

\* The connection of a call leads from its device to its peer.
LinksLead ==
    \A q \in Call : call[q].pc \in {"handshake", "insert", "hello"} =>
        /\ call[q].link \in Link
        /\ link[call[q].link].from = q[1] /\ link[call[q].link].to = q[2]

\* A connection in use is not given to another call (Dial).
LEMMA LinksLeadStep ==
    ASSUME TypeOK, LinksLead, Next PROVE LinksLead'
<1> USE DEF TypeOK, CallState
<1> SUFFICES ASSUME NEW r \in Call, call'[r].pc \in {"handshake", "insert", "hello"}
             PROVE  /\ call'[r].link \in Link
                    /\ link'[call'[r].link].from = r[1]
                    /\ link'[call'[r].link].to = r[2]
  BY DEF LinksLead
<1> DEFINE Dials == call[r].pc \in {"handshake", "insert", "hello"}
           Same == call'[r].link = call[r].link
           Ends == \A k \in Link : link'[k].from = link[k].from /\ link'[k].to = link[k].to
           Leads == /\ call'[r].link \in Link
                    /\ link'[call'[r].link].from = r[1]
                    /\ link'[call'[r].link].to = r[2]
<1>1. Dials /\ Same /\ Ends => Leads
  BY DEF LinksLead
<1>2. ASSUME NEW q \in Call, LookUp(q) \/ UseExisting(q) \/ CheckEstablished(q)
                               \/ CleanUp(q) \/ DialFails(q)
      PROVE  Dials /\ Same /\ Ends
  <2>1. Others(q) /\ link' = link
    BY <1>2, CallSteps
    DEF Connecting, LookUp, UseExisting, CheckEstablished, CleanUp, DialFails
  <2>2. call'[q].pc \notin {"handshake", "insert", "hello"}
    <3>1. \/ \E step \in {"existing", "check", "mark"} : Goes(q, step)
          \/ \E c \in Link \cup {None} : Returns(q, c)
      <4>1. CASE LookUp(q)
        BY <4>1 DEF LookUp, LooksUp
      <4>2. CASE UseExisting(q)
        BY <4>2, CallEnds DEF UseExisting
      <4>3. CASE CheckEstablished(q) \/ CleanUp(q) \/ DialFails(q)
        BY <4>3 DEF CheckEstablished, CleanUp, DialFails
      <4> QED BY <1>2, <4>1, <4>2, <4>3
    <3>2. ASSUME NEW step \in {"existing", "check", "mark"}, Goes(q, step)
          PROVE  call'[q].pc \notin {"handshake", "insert", "hello"}
      <4>1. step \in Step
        BY DEF Step
      <4>2. call'[q].pc = step
        BY <3>2, <4>1, GoesEffect
      <4> QED BY <4>2
    <3>3. ASSUME NEW c \in Link \cup {None}, Returns(q, c)
          PROVE  call'[q].pc \notin {"handshake", "insert", "hello"}
      <4>1. call'[q].pc = IF q[3] = "check" THEN "returned" ELSE "idle"
        BY <3>3, ReturnsEffect
      <4> QED BY <4>1
    <3> QED BY <3>1, <3>2, <3>3
  <2> QED BY <2>1, <2>2 DEF Others
<1>3. ASSUME NEW q \in Call, Mark(q) PROVE Dials /\ Same /\ Ends
  <2>1. Others(q) /\ link' = link
    BY <1>3, CallSteps DEF Connecting, Mark
  <2>2. call'[q].pc \notin {"handshake", "insert", "hello"}
    <3>1. Returns(q, None) \/ Goes(q, "dial")
      BY <1>3 DEF Mark
    <3> QED BY <3>1, GoesEffect, ReturnsEffect DEF Step
  <2> QED BY <2>1, <2>2 DEF Others
<1>4. ASSUME NEW q \in Call, Dial(q) PROVE Leads
  <2>1. PICK c \in Link :
           /\ Unreferenced(c)
           /\ link' = [link EXCEPT ![c] = [from |-> q[1], to |-> q[2], open |-> TRUE,
                                           accept |-> "new", hs |-> "none"]]
           /\ call' = [call EXCEPT ![q] = [pc |-> "handshake", link |-> c]]
    BY <1>4 DEF Dial
  <2>2. CASE r = q
    BY <2>1, <2>2
  <2>3. CASE r # q
    <3>1. call'[r] = call[r] /\ call[r].link # c
      BY <2>1, <2>3 DEF Unreferenced
    <3> QED BY <2>1, <3>1 DEF LinksLead
  <2> QED BY <2>2, <2>3
<1>5. ASSUME NEW q \in Call, Enter(q) \/ Insert(q) PROVE Dials /\ Same /\ Ends
  <2>1. link' = link /\ (Goes(q, "insert") \/ Goes(q, "hello"))
        /\ call[q].pc \in {"handshake", "insert"}
    BY <1>5 DEF Enter, Insert, At
  <2> QED BY <2>1, GoesEffect DEF Step
<1>6. ASSUME NEW q \in Call, Greet(q) \/ GreetFails(q) PROVE Dials /\ Same /\ Ends
  <2>1. Others(q)
    BY <1>6, CallSteps DEF Connecting
  <2>2. call'[q].pc \notin {"handshake", "insert", "hello"}
    BY <1>6, GoesEffect, ReturnsEffect DEF Greet, GreetFails, Step
  <2>3. Ends
    <3>1. CASE GreetFails(q)
      BY <3>1 DEF GreetFails
    <3>2. CASE Greet(q)
      <4>1. call[q].link \in Link
        BY <3>2 DEF Greet, At, LinksLead
      <4>2. PICK m \in Handshake : link' = [link EXCEPT ![call[q].link].hs = m]
        BY <3>2 DEF Greet, Handshake
      <4> QED BY <4>1, <4>2, ShakeEffect
    <3> QED BY <1>6, <3>1, <3>2
  <2> QED BY <2>1, <2>2, <2>3 DEF Others
<1>7. ASSUME NEW c \in Link, Arriving(c) \/ Lose(c) PROVE Dials /\ Same /\ Ends
  BY <1>7, LinkSteps
<1>8. ASSUME NEW q \in Call, LooksUp(q), call[q].pc = "idle", link' = link
      PROVE  Dials /\ Same /\ Ends
  BY <1>8, Begins DEF Others
<1>9. ASSUME NEW d \in Node, NEW e \in Node,
             SendCheck(d, e) \/ FindClosed(d, e) \/ AddKnownUser(d, e)
      PROVE  Dials /\ Same /\ Ends
  BY <1>9 DEF SendCheck, FindClosed, AddKnownUser
<1>10. ASSUME NEW d \in Node, NEW e \in Node,
              Reconnect(d, e) \/ Purge(d, e) \/ Reconnected(d, e)
       PROVE  Dials /\ Same /\ Ends
  <2>1. r # CheckCall(d, e)
    BY <1>10 DEF Reconnect, Purge, Redials, Reconnected, NoCall
  <2>2. link' = link /\ call'[r] = call[r]
    BY <1>10, <2>1 DEF Reconnect, Purge, Redials, Reconnected
  <2> QED BY <2>2
<1>11. ASSUME NEW q \in Call, Ask(q) PROVE Dials /\ Same /\ Ends
  BY <1>8, <1>11 DEF Ask, At
<1>12. ASSUME NEW d \in Node, NEW e \in Node, Broadcast(d, e)
       PROVE  Dials /\ Same /\ Ends
  BY <1>8, <1>12 DEF Broadcast, At
<1> HIDE DEF Dials, Same, Ends
<1> QED BY <1>1, <1>2, <1>3, <1>4, <1>5, <1>6, <1>7, <1>9, <1>10, <1>11, <1>12
     DEF Next, Connecting, Consuming

\* The request of a first connection comes from one who knows its receiver,
\* and its answer from one who knows the other.
FirstKnown ==
    \A c \in Link : link[c].hs \in {"first", "firstReply"} =>
        /\ link[c].from \in Node /\ link[c].to \in Node
        /\ link[c].hs = "first" => Known(link[c].from, link[c].to)
        /\ link[c].hs = "firstReply" => Known(link[c].to, link[c].from)

\* Greet sends the request, and TakeFirst stores its sender.
LEMMA FirstKnownStep ==
    ASSUME TypeOK, AllKnown, LinksLead, FirstKnown, Next PROVE FirstKnown'
<1> SUFFICES ASSUME NEW k \in Link, link'[k].hs \in {"first", "firstReply"}
             PROVE  /\ link'[k].from \in Node /\ link'[k].to \in Node
                    /\ link'[k].hs = "first" => Known(link[k].from, link[k].to)'
                    /\ link'[k].hs = "firstReply" => Known(link[k].to, link[k].from)'
  BY DEF FirstKnown
<1> DEFINE Kept == /\ link'[k].hs = link[k].hs
                   /\ link'[k].from = link[k].from /\ link'[k].to = link[k].to
           Goal == /\ link'[k].from \in Node /\ link'[k].to \in Node
                   /\ link'[k].hs = "first" => Known(link[k].from, link[k].to)'
                   /\ link'[k].hs = "firstReply" => Known(link[k].to, link[k].from)'
<1>1. Kept => Goal
  BY ContactGrows DEF FirstKnown, Known
<1>2. ASSUME NEW q \in Call, Dial(q) PROVE Kept
  BY <1>2 DEF Dial, TypeOK
<1>3. ASSUME NEW q \in Call, Greet(q) PROVE Goal
  <2> DEFINE c == call[q].link
  <2>1. c \in Link /\ link[c].from = q[1] /\ link[c].to = q[2] /\ Known(q[1], q[2])
    BY <1>3 DEF Greet, At, LinksLead, AllKnown, CallsKnown
  <2>2. PICK m \in {"first", "exchange"} : link' = [link EXCEPT ![c].hs = m]
    BY <1>3 DEF Greet
  <2>3. /\ link'[c].hs = m /\ link'[c].from = q[1] /\ link'[c].to = q[2]
        /\ k # c => Kept
    <3>1. m \in Handshake /\ link \in [Link -> LinkState]
      BY DEF TypeOK, Handshake
    <3>2. /\ link'[c].hs = m /\ link'[c].from = link[c].from /\ link'[c].to = link[c].to
          /\ k # c => link'[k].from = link[k].from /\ link'[k].to = link[k].to
          /\ k # c => link'[k].hs = link[k].hs
      BY <2>1, <2>2, <3>1, ShakeEffect
    <3> QED BY <2>1, <3>2
  <2>4. Known(q[1], q[2])'
    BY <2>1, ContactGrows, CallEnds
  <2> QED BY <1>1, <2>1, <2>3, <2>4, CallEnds DEF Known
<1>4. ASSUME NEW q \in Call, Ask(q) \/ Connecting(q) \/ DialFails(q), ~Dial(q), ~Greet(q)
      PROVE  Kept
  BY <1>4 DEF Ask, Connecting, DialFails, LookUp, UseExisting, CheckEstablished, Mark,
              Enter, Insert, GreetFails, CleanUp
<1>5. ASSUME NEW c \in Link, TakeFirst(c) PROVE Goal
  <2>1. /\ link[c].hs = "first" /\ link' = [link EXCEPT ![c].hs = "firstReply"]
        /\ contact' = [contact EXCEPT ![link[c].to][link[c].from] = "synced"]
    BY <1>5 DEF TakeFirst, Takes
  <2>2. link[c].from \in Node /\ link[c].to \in Node
    BY <2>1 DEF FirstKnown
  <2>3. contact'[link[c].to][link[c].from] = "synced"
    BY <2>1, <2>2, Written DEF TypeOK
  <2>4. /\ link'[c].hs = "firstReply" /\ link'[c].from = link[c].from
        /\ link'[c].to = link[c].to /\ (k # c => Kept)
    BY <2>1, ShakeEffect DEF TypeOK, Handshake
  <2> QED BY <1>1, <2>2, <2>3, <2>4 DEF Known
<1>6. ASSUME NEW c \in Link, Arriving(c) \/ Lose(c), ~TakeFirst(c) PROVE Kept
  <2>1. k # c => Kept
    BY <1>6, LinkSteps
  <2>2. CASE AcceptEnter(c) \/ AcceptFails(c) \/ AcceptInsert(c)
    BY <2>2, AcceptsEffect DEF AcceptEnter, AcceptFails, AcceptInsert, TypeOK
  <2>3. CASE TakeFirstReply(c) \/ TakeExchange(c) \/ TakeExchangeReply(c) \/ Lose(c)
    <3>1. link'[c].hs \in {"met", "silent", "exchangeReply"}
      <4>1. CASE Lose(c)
        BY <4>1, LoseEffect DEF TypeOK
      <4>2. CASE ~Lose(c)
        BY <2>3, <4>2, ShakeEffect
        DEF TakeFirstReply, TakeExchange, TakeExchangeReply, Takes, TypeOK, Handshake
      <4> QED BY <4>1, <4>2
    <3> QED BY <2>1, <3>1
  <2> QED BY <1>6, <2>2, <2>3 DEF Arriving
<1>7. ASSUME NEW d \in Node, NEW e \in Node,
             Consuming(d, e) \/ Broadcast(d, e) \/ AddKnownUser(d, e)
      PROVE  Kept
  BY <1>7 DEF Consuming, SendCheck, Reconnect, FindClosed, Purge, Reconnected, Broadcast,
              AddKnownUser
<1> HIDE DEF Kept, Goal
<1>8. Goal
  BY <1>1, <1>2, <1>3, <1>4, <1>5, <1>6, <1>7 DEF Next
<1> QED BY <1>8 DEF Goal

\* Both ends of a first connection take the other for synced.
LEMMA SyncedStep ==
    ASSUME TypeOK, FirstKnown, SyncedIsKnown, Next PROVE SyncedIsKnown'
<1> SUFFICES ASSUME NEW d \in Node, NEW e \in Node, contact'[d][e] = "synced"
             PROVE  Known(e, d)'
  BY DEF SyncedIsKnown, Known
<1>1. Known(e, d) => Known(e, d)'
  BY ContactGrows
<1>2. contact[d][e] = "synced" => Known(e, d)
  BY DEF SyncedIsKnown, Known
<1>3. ASSUME NEW c \in Link, TakeFirst(c) PROVE Known(e, d)
  <2>1. link[c].hs = "first" /\ link[c].from \in Node /\ link[c].to \in Node
    BY <1>3 DEF TakeFirst, Takes, FirstKnown
  <2>2. Known(link[c].from, link[c].to)
    BY <2>1 DEF FirstKnown
  <2>3. contact[d][e] = "synced" \/ (d = link[c].to /\ e = link[c].from)
    BY <1>3, Written DEF TakeFirst, TypeOK
  <2> QED BY <1>2, <2>2, <2>3
<1>4. ASSUME NEW c \in Link, TakeFirstReply(c) PROVE Known(e, d)
  <2>1. link[c].hs = "firstReply" /\ link[c].from \in Node /\ link[c].to \in Node
    BY <1>4 DEF TakeFirstReply, Takes, FirstKnown
  <2>2. Known(link[c].to, link[c].from)
    BY <2>1 DEF FirstKnown
  <2>3. contact[d][e] = "synced" \/ (d = link[c].from /\ e = link[c].to)
    BY <1>4, Written DEF TakeFirstReply, TypeOK
  <2> QED BY <1>2, <2>2, <2>3
<1>5. ASSUME NEW f \in Node, NEW g \in Node, AddKnownUser(f, g) PROVE Known(e, d)
  BY <1>2, <1>5, Written DEF AddKnownUser, TypeOK
<1>6. ASSUME NEW c \in Link, Arriving(c) \/ Lose(c), ~TakeFirst(c), ~TakeFirstReply(c)
      PROVE  Known(e, d)
  BY <1>2, <1>6 DEF Arriving, AcceptEnter, AcceptFails, AcceptInsert, TakeExchange,
                    TakeExchangeReply, Lose
<1>7. ASSUME NEW q \in Call, Ask(q) \/ Connecting(q) \/ DialFails(q) PROVE Known(e, d)
  BY <1>2, <1>7, CallSteps DEF Ask
<1>8. ASSUME NEW f \in Node, NEW g \in Node, Consuming(f, g) \/ Broadcast(f, g)
      PROVE  Known(e, d)
  BY <1>2, <1>8 DEF Consuming, SendCheck, Reconnect, FindClosed, Purge, Reconnected,
                    Broadcast
<1> QED BY <1>1, <1>3, <1>4, <1>5, <1>6, <1>7, <1>8 DEF Next

\* Whoever takes a peer for one whose first sync is done is in that peer's
\* users (handshake.rs): however often users are added again and connections
\* are lost between the request of a first connection and its answer.
THEOREM SyncedAlwaysKnown == Spec => []SyncedIsKnown
<1> DEFINE I == TypeOK /\ AllKnown /\ LinksLead /\ FirstKnown /\ SyncedIsKnown
<1>1. Init => I
  <2> SUFFICES ASSUME Init PROVE I
    OBVIOUS
  <2>1. TypeOK
    BY InitTyped
  <2>2. AllKnown /\ LinksLead /\ FirstKnown
    BY DEF Init, AllKnown, CallsKnown, ChecksKnown, SoughtKnown, LinksLead, FirstKnown,
           NoCall, Resting, Unused
  <2>3. SyncedIsKnown
    BY DEF Init, SyncedIsKnown
  <2> QED BY <2>1, <2>2, <2>3
<1>2. I /\ [Next]_vars => I'
  <2>1. I /\ Next => I'
    BY TypeStep, CallsKnownStep, ChecksKnownStep, SoughtKnownStep, LinksLeadStep,
       FirstKnownStep, SyncedStep DEF AllKnown
  <2>2. I /\ UNCHANGED vars => I'
    BY DEF vars, TypeOK, AllKnown, CallsKnown, ChecksKnown, SoughtKnown, LinksLead,
           FirstKnown, SyncedIsKnown, Known
  <2> QED BY <2>1, <2>2
<1> QED BY <1>1, <1>2, PTL DEF Spec

----------------------------------------------------------------------------
(* Where a call, a connection, an entry and the event loop can go.         *)

\* A call that runs is moved by itself only.
LEMMA OwnSteps ==
    ASSUME TypeOK, OneCheck, Next, NEW q \in Call, call[q].pc \notin {"idle", "returned"}
    PROVE  call'[q] = call[q] \/ Connecting(q) \/ DialFails(q)
<1> DEFINE Goal == call'[q] = call[q] \/ Connecting(q) \/ DialFails(q)
<1>1. ASSUME NEW r \in Call, Connecting(r) \/ DialFails(r) PROVE Goal
  BY <1>1, CallSteps DEF Others
<1>2. ASSUME NEW r \in Call, Ask(r) PROVE Goal
  BY <1>2, Begins DEF Ask, At, Others
<1>3. ASSUME NEW c \in Link, Arriving(c) \/ Lose(c) PROVE Goal
  BY <1>3, LinkSteps
<1>4. ASSUME NEW d \in Node, NEW e \in Node, Broadcast(d, e) PROVE Goal
  BY <1>4, Begins DEF Broadcast, At, Others
<1>5. ASSUME NEW d \in Node, NEW e \in Node,
             SendCheck(d, e) \/ FindClosed(d, e) \/ AddKnownUser(d, e)
      PROVE  Goal
  BY <1>5 DEF SendCheck, FindClosed, AddKnownUser
<1>6. ASSUME NEW d \in Node, NEW e \in Node, Reconnect(d, e) \/ Purge(d, e) PROVE Goal
  <2>1. consumer[d].pc # "connect" /\ Redials(d, e)
    BY <1>6 DEF Reconnect, Purge
  <2>2. q # CheckCall(d, e)
    BY <2>1 DEF OneCheck, CheckCall
  <2> QED BY <2>1, <2>2 DEF Redials
<1>7. ASSUME NEW d \in Node, NEW e \in Node, Reconnected(d, e) PROVE Goal
  BY <1>7 DEF Reconnected, At
<1> HIDE DEF Goal
<1>8. Goal
  BY <1>1, <1>2, <1>3, <1>4, <1>5, <1>6, <1>7 DEF Next, Consuming
<1> QED BY <1>8 DEF Goal

\* The five ways in which a connection changes.
Ends(k) == link'[k].from = link[k].from /\ link'[k].to = link[k].to

Made(k, q) ==
    /\ Dial(q) /\ Unreferenced(k)
    /\ link'[k] = [from |-> q[1], to |-> q[2], open |-> TRUE, accept |-> "new",
                   hs |-> "none"]
    /\ call'[q] = [pc |-> "handshake", link |-> k]

Greeted(k, q) ==
    /\ Greet(q) /\ call[q].link = k
    /\ Ends(k) /\ link'[k].open = link[k].open /\ link'[k].accept = link[k].accept
    /\ link'[k].hs = IF contact[q[1]][q[2]] = "synced" THEN "exchange" ELSE "first"

Accepted(k) ==
    /\ AcceptEnter(k) \/ AcceptFails(k) \/ AcceptInsert(k)
    /\ Ends(k) /\ link'[k].open = link[k].open /\ link'[k].hs = link[k].hs

Shaken(k) ==
    /\ TakeFirst(k) \/ TakeFirstReply(k) \/ TakeExchange(k) \/ TakeExchangeReply(k)
    /\ Ends(k) /\ link'[k].open = link[k].open /\ link'[k].accept = link[k].accept
    /\ link'[k].hs \in {"firstReply", "exchangeReply", "met", "silent"}
    /\ link'[k].hs = "silent" =>
          link[k].hs = "exchange" /\ contact[link[k].to][link[k].from] = "none"

Lost(k) ==
    /\ Lose(k) /\ Ends(k) /\ ~link'[k].open /\ link'[k].hs = "silent"
    /\ link'[k].accept = link[k].accept

LEMMA LinkMoves ==
    ASSUME TypeOK, LinksLead, Next, NEW k \in Link
    PROVE  \/ link'[k] = link[k] \/ Accepted(k) \/ Shaken(k) \/ Lost(k)
           \/ \E q \in Call : Made(k, q) \/ Greeted(k, q)
<1> DEFINE Goal == \/ link'[k] = link[k] \/ Accepted(k) \/ Shaken(k) \/ Lost(k)
                   \/ \E q \in Call : Made(k, q) \/ Greeted(k, q)
<1>1. link \in [Link -> LinkState] /\ link[k] \in LinkState
  BY DEF TypeOK
<1>2. ASSUME NEW q \in Call, Dial(q) PROVE Goal
  <2>1. PICK c \in Link :
           /\ Unreferenced(c)
           /\ link' = [link EXCEPT ![c] = [from |-> q[1], to |-> q[2], open |-> TRUE,
                                           accept |-> "new", hs |-> "none"]]
           /\ call' = [call EXCEPT ![q] = [pc |-> "handshake", link |-> c]]
    BY <1>2 DEF Dial
  <2>2. CASE k = c
    <3>1. Made(k, q)
      BY <1>1, <1>2, <2>1, <2>2 DEF Made, TypeOK
    <3> QED BY <3>1
  <2>3. CASE k # c
    BY <1>1, <2>1, <2>3
  <2> QED BY <2>2, <2>3
<1>3. ASSUME NEW q \in Call, Greet(q) PROVE Goal
  <2> DEFINE m == IF contact[q[1]][q[2]] = "synced" THEN "exchange" ELSE "first"
  <2>1. call[q].link \in Link /\ link' = [link EXCEPT ![call[q].link].hs = m]
    BY <1>3 DEF Greet, At, LinksLead
  <2>2. CASE k = call[q].link
    <3>1. link'[k] = [link[k] EXCEPT !.hs = m]
      BY <1>1, <2>1, <2>2
    <3>2. /\ Ends(k) /\ link'[k].open = link[k].open
          /\ link'[k].accept = link[k].accept /\ link'[k].hs = m
      BY <1>1, <3>1 DEF Ends, LinkState
    <3>3. Greeted(k, q)
      BY <1>3, <2>2, <3>2 DEF Greeted
    <3> QED BY <3>3
  <2>3. CASE k # call[q].link
    BY <1>1, <2>1, <2>3
  <2> QED BY <2>2, <2>3
<1>4. ASSUME NEW q \in Call, Ask(q) \/ Connecting(q) \/ DialFails(q), ~Dial(q), ~Greet(q)
      PROVE  Goal
  BY <1>4 DEF Ask, Connecting, DialFails, LookUp, UseExisting, CheckEstablished, Mark,
              Enter, Insert, GreetFails, CleanUp
<1>5. ASSUME NEW c \in Link, AcceptEnter(c) \/ AcceptFails(c) \/ AcceptInsert(c)
      PROVE  Goal
  <2>1. PICK next : link' = [link EXCEPT ![c].accept = next]
    BY <1>5 DEF AcceptEnter, AcceptFails, AcceptInsert, Accepts
  <2>2. CASE k = c
    <3>1. link'[k] = [link[k] EXCEPT !.accept = next]
      BY <1>1, <2>1, <2>2
    <3>2. Ends(k) /\ link'[k].open = link[k].open /\ link'[k].hs = link[k].hs
      BY <1>1, <3>1 DEF Ends, LinkState
    <3>3. Accepted(k)
      BY <1>5, <2>2, <3>2 DEF Accepted
    <3> QED BY <3>3
  <2>3. CASE k # c
    BY <1>1, <2>1, <2>3
  <2> QED BY <2>2, <2>3
<1>6. ASSUME NEW c \in Link,
             TakeFirst(c) \/ TakeFirstReply(c) \/ TakeExchange(c) \/ TakeExchangeReply(c)
      PROVE  Goal
  <2>1. PICK m \in {"firstReply", "exchangeReply", "met", "silent"} :
           /\ link' = [link EXCEPT ![c].hs = m]
           /\ m = "silent" =>
                 link[c].hs = "exchange" /\ contact[link[c].to][link[c].from] = "none"
    BY <1>6 DEF TakeFirst, TakeFirstReply, TakeExchange, TakeExchangeReply, Takes
  <2>2. CASE k = c
    <3>1. link'[k] = [link[k] EXCEPT !.hs = m]
      BY <1>1, <2>1, <2>2
    <3>2. /\ Ends(k) /\ link'[k].open = link[k].open
          /\ link'[k].accept = link[k].accept /\ link'[k].hs = m
      BY <1>1, <3>1 DEF Ends, LinkState
    <3>3. Shaken(k)
      BY <1>6, <2>1, <2>2, <3>2 DEF Shaken
    <3> QED BY <3>3
  <2>3. CASE k # c
    BY <1>1, <2>1, <2>3
  <2> QED BY <2>2, <2>3
<1>7. ASSUME NEW c \in Link, Lose(c) PROVE Goal
  <2>1. link' = [link EXCEPT ![c] = [from |-> @.from, to |-> @.to, open |-> FALSE,
                                     accept |-> @.accept, hs |-> "silent"]]
    BY <1>7 DEF Lose
  <2>2. CASE k = c
    <3>1. Lost(k)
      BY <1>1, <1>7, <2>1, <2>2 DEF Lost, Ends
    <3> QED BY <3>1
  <2>3. CASE k # c
    BY <1>1, <2>1, <2>3
  <2> QED BY <2>2, <2>3
<1>8. ASSUME NEW d \in Node, NEW e \in Node,
             Consuming(d, e) \/ Broadcast(d, e) \/ AddKnownUser(d, e)
      PROVE  Goal
  BY <1>8 DEF Consuming, SendCheck, Reconnect, FindClosed, Purge, Reconnected, Broadcast,
              AddKnownUser
<1> HIDE DEF Goal
<1>9. Goal
  BY <1>2, <1>3, <1>4, <1>5, <1>6, <1>7, <1>8 DEF Next, Arriving
<1> QED BY <1>9 DEF Goal

----------------------------------------------------------------------------
(* Open connections are greeted and answered.                              *)

\* An exchange is sent to one who knows its sender.
ExchangeKnown ==
    \A k \in Link : link[k].hs = "exchange" =>
        /\ link[k].from \in Node /\ link[k].to \in Node
        /\ Known(link[k].to, link[k].from)

LEMMA ExchangeKnownStep ==
    ASSUME TypeOK, LinksLead, SyncedIsKnown, ExchangeKnown, Next PROVE ExchangeKnown'
<1> SUFFICES ASSUME NEW k \in Link, link'[k].hs = "exchange"
             PROVE  /\ link'[k].from \in Node /\ link'[k].to \in Node
                    /\ Known(link[k].to, link[k].from)'
  BY DEF ExchangeKnown
<1>1. CASE link'[k] = link[k] \/ Accepted(k)
  <2>1. link[k].hs = "exchange" /\ link'[k].from = link[k].from /\ link'[k].to = link[k].to
    BY <1>1 DEF Accepted, Ends
  <2>2. /\ link[k].from \in Node /\ link[k].to \in Node
        /\ Known(link[k].to, link[k].from)
    BY <2>1 DEF ExchangeKnown
  <2>3. contact'[link[k].to][link[k].from] # "none"
    BY <2>2, ContactGrows DEF Known
  <2> QED BY <2>1, <2>2, <2>3 DEF Known
<1>2. ASSUME NEW q \in Call, Greeted(k, q)
      PROVE  /\ link'[k].from \in Node /\ link'[k].to \in Node
             /\ Known(link[k].to, link[k].from)'
  <2>1. /\ contact[q[1]][q[2]] = "synced" /\ call[q].pc = "hello" /\ call[q].link = k
        /\ link'[k].from = link[k].from /\ link'[k].to = link[k].to
    BY <1>2 DEF Greeted, Greet, At, Ends
  <2>2. link[k].from = q[1] /\ link[k].to = q[2] /\ q[1] \in Node /\ q[2] \in Node
    BY <2>1, CallEnds DEF LinksLead
  <2>3. Known(q[2], q[1])
    BY <2>1, <2>2 DEF SyncedIsKnown, Known
  <2>4. contact'[q[2]][q[1]] # "none"
    BY <2>2, <2>3, ContactGrows DEF Known
  <2> QED BY <2>1, <2>2, <2>4 DEF Known
<1>3. ~Shaken(k) /\ ~Lost(k) /\ \A q \in Call : ~Made(k, q)
  BY DEF Shaken, Lost, Made
<1> QED BY <1>1, <1>2, <1>3, LinkMoves

\* The initiator of an open connection has greeted, or is about to.
Greeting(k, q) == call[q].link = k /\ call[q].pc \in {"handshake", "insert", "hello"}

Greets ==
    \A k \in Link : link[k].open =>
        /\ link[k].hs # "silent"
        /\ link[k].hs = "none" => \E q \in Call : Greeting(k, q)

LEMMA GreetsStep ==
    ASSUME TypeOK, OneCheck, LinksLead, ExchangeKnown, Greets, Next PROVE Greets'
<1> SUFFICES ASSUME NEW k \in Link, link'[k].open
             PROVE  /\ link'[k].hs # "silent"
                    /\ link'[k].hs = "none" => \E q \in Call : Greeting(k, q)'
  BY DEF Greets
<1> DEFINE Goal == /\ link'[k].hs # "silent"
                   /\ link'[k].hs = "none" => \E q \in Call : Greeting(k, q)'
<1>1. CASE link'[k] = link[k] \/ Accepted(k)
  <2>1. link[k].open /\ link'[k].hs = link[k].hs
    BY <1>1 DEF Accepted
  <2>2. link[k].hs # "silent"
    BY <2>1 DEF Greets
  <2>3. ASSUME link[k].hs = "none" PROVE \E q \in Call : Greeting(k, q)'
    <3>1. PICK q \in Call : Greeting(k, q)
      BY <2>1, <2>3 DEF Greets
    <3>2. call'[q] = call[q] \/ Connecting(q) \/ DialFails(q)
      BY <3>1, OwnSteps DEF Greeting
    <3>3. CASE call'[q] = call[q]
      BY <3>1, <3>3 DEF Greeting
    <3>4. CASE Connecting(q) \/ DialFails(q)
      <4>1. Enter(q) \/ Insert(q) \/ Greet(q) \/ GreetFails(q)
        BY <3>1, <3>4 DEF Greeting, Connecting, LookUp, UseExisting, CheckEstablished,
                          Mark, Dial, CleanUp, DialFails, At
      <4>2. ~GreetFails(q)
        BY <2>1, <3>1 DEF GreetFails, Greeting
      <4>3. ~Greet(q)
        <5>1. SUFFICES ASSUME Greet(q) PROVE FALSE
          OBVIOUS
        <5>2. PICK m \in {"first", "exchange"} : link' = [link EXCEPT ![k].hs = m]
          BY <3>1, <5>1 DEF Greet, Greeting
        <5>3. link'[k].hs = m
          BY <5>2, ShakeEffect DEF TypeOK, Handshake
        <5> QED BY <2>1, <2>3, <5>3
      <4>4. Goes(q, "insert") \/ Goes(q, "hello")
        BY <4>1, <4>2, <4>3 DEF Enter, Insert
      <4>5. call'[q].link = call[q].link /\ call'[q].pc \in {"insert", "hello"}
        BY <4>4, GoesEffect DEF TypeOK, CallState, Step
      <4> QED BY <3>1, <4>5 DEF Greeting
    <3> QED BY <3>2, <3>3, <3>4
  <2> QED BY <2>1, <2>2, <2>3
<1>2. CASE Shaken(k)
  <2>1. link[k].open /\ link'[k].hs # "none"
    BY <1>2 DEF Shaken
  <2>2. link'[k].hs # "silent"
    BY <1>2 DEF Shaken, ExchangeKnown, Known
  <2> QED BY <2>1, <2>2
<1>3. CASE Lost(k)
  BY <1>3 DEF Lost
<1>4. ASSUME NEW q \in Call, Made(k, q) PROVE Goal
  <2>1. link'[k].hs = "none" /\ Greeting(k, q)'
    BY <1>4 DEF Made, Greeting
  <2> QED BY <2>1
<1>5. ASSUME NEW q \in Call, Greeted(k, q) PROVE Goal
  BY <1>5 DEF Greeted
<1> HIDE DEF Goal
<1>6. (link'[k] = link[k] \/ Accepted(k) \/ Shaken(k) \/ Lost(k)) => Goal
  BY <1>1, <1>2, <1>3 DEF Goal
<1>7. Goal
  BY <1>4, <1>5, <1>6, LinkMoves
<1> QED BY <1>7 DEF Goal

\* What is left when nothing is dialled or handled are connections on which both
\* handshakes went through (handshake.rs): an exchange is answered because its
\* sender is known, and without a loss nothing else makes a connection mute.
THEOREM EntriesMutual == Spec => []Mutual
<1> DEFINE J == TypeOK /\ OneCheck /\ AllKnown /\ LinksLead /\ FirstKnown
           I == J /\ SyncedIsKnown /\ ExchangeKnown /\ Greets
<1>1. Init => I
  <2> SUFFICES ASSUME Init PROVE I
    OBVIOUS
  <2>1. TypeOK
    BY InitTyped
  <2>2. AllKnown /\ LinksLead /\ FirstKnown
    BY DEF Init, AllKnown, CallsKnown, ChecksKnown, SoughtKnown, LinksLead, FirstKnown,
           NoCall, Resting, Unused
  <2>3. OneCheck /\ ExchangeKnown /\ Greets
    BY DEF Init, OneCheck, ExchangeKnown, Greets, NoCall, Unused
  <2>4. SyncedIsKnown
    BY DEF Init, SyncedIsKnown
  <2> QED BY <2>1, <2>2, <2>3, <2>4
<1>2. I /\ [Next]_vars => I'
  <2>1. I /\ Next => J'
    BY TypeStep, OneCheckStep, CallsKnownStep, ChecksKnownStep, SoughtKnownStep,
       LinksLeadStep, FirstKnownStep DEF AllKnown
  <2>2. I /\ Next => SyncedIsKnown' /\ ExchangeKnown' /\ Greets'
    BY SyncedStep, ExchangeKnownStep, GreetsStep
  <2>3. I /\ UNCHANGED vars => I'
    BY DEF vars, TypeOK, OneCheck, AllKnown, CallsKnown, ChecksKnown, SoughtKnown,
           LinksLead, FirstKnown, SyncedIsKnown, Known, ExchangeKnown, Greets, Greeting
  <2> QED BY <2>1, <2>2, <2>3
<1>3. I => Mutual
  <2> SUFFICES ASSUME TypeOK, Greets, Quiet, NEW d \in Node, NEW e \in Node,
                      Healthy(table[d][e])
               PROVE  link[table[d][e]].hs = "met"
    BY DEF Mutual
  <2> DEFINE k == table[d][e]
  <2>1. k \in Link /\ link[k].open
    BY DEF Healthy, TypeOK
  <2>2. link[k].hs \in {"met", "silent", "none"}
    BY <2>1 DEF Quiet
  <2>3. \A q \in Call : ~Greeting(k, q)
    BY DEF Quiet, At, Greeting
  <2> HIDE DEF k
  <2>4. link[k].hs = "met"
    BY <2>1, <2>2, <2>3 DEF Greets
  <2> QED BY <2>4 DEF k
<1> QED BY <1>1, <1>2, <1>3, PTL DEF Spec

----------------------------------------------------------------------------
(* Who has an open connection has an entry for the peer, or is getting one. *)

\* Entries are made by the two ends of a connection and removed by a purge.
LEMMA TableMoves ==
    ASSUME TypeOK, Next, NEW d \in Node, NEW e \in Node
    PROVE  \/ table'[d][e] = table[d][e]
           \/ Purge(d, e)
           \/ \E q \in Call : /\ Insert(q) /\ q[1] = d /\ q[2] = e
                              /\ table'[d][e] = call[q].link
           \/ \E k \in Link : /\ AcceptInsert(k) /\ link[k].to = d /\ link[k].from = e
                              /\ table'[d][e] = k
<1> DEFINE Goal == \/ table'[d][e] = table[d][e]
                   \/ Purge(d, e)
                   \/ \E q \in Call : /\ Insert(q) /\ q[1] = d /\ q[2] = e
                                      /\ table'[d][e] = call[q].link
                   \/ \E k \in Link : /\ AcceptInsert(k) /\ link[k].to = d
                                      /\ link[k].from = e /\ table'[d][e] = k
<1>1. ASSUME NEW q \in Call, Insert(q) PROVE Goal
  <2>1. table' = [table EXCEPT ![q[1]][q[2]] = call[q].link]
    BY <1>1 DEF Insert
  <2>2. table'[d][e] = IF q[1] = d /\ q[2] = e THEN call[q].link ELSE table[d][e]
    BY <2>1, CallEnds DEF TypeOK
  <2> QED BY <1>1, <2>2
<1>2. ASSUME NEW k \in Link, AcceptInsert(k) PROVE Goal
  <2>1. table' = [table EXCEPT ![link[k].to][link[k].from] = k]
    BY <1>2 DEF AcceptInsert
  <2>2. table'[d][e] = table[d][e]
        \/ (link[k].to = d /\ link[k].from = e /\ table'[d][e] = k)
    BY <2>1 DEF TypeOK
  <2> QED BY <1>2, <2>2
<1>3. ASSUME NEW f \in Node, NEW g \in Node, Purge(f, g) PROVE Goal
  <2>1. table' = [table EXCEPT ![f][g] = None]
    BY <1>3 DEF Purge
  <2>2. table'[d][e] = table[d][e] \/ (f = d /\ g = e)
    BY <2>1 DEF TypeOK
  <2> QED BY <1>3, <2>2
<1>4. ASSUME NEW q \in Call, Ask(q) \/ Connecting(q) \/ DialFails(q), ~Insert(q)
      PROVE  Goal
  BY <1>4 DEF Ask, Connecting, DialFails, LookUp, UseExisting, CheckEstablished, Mark,
              Dial, Enter, Greet, GreetFails, CleanUp
<1>5. ASSUME NEW c \in Link, Arriving(c) \/ Lose(c), ~AcceptInsert(c) PROVE Goal
  BY <1>5 DEF Arriving, Lose, AcceptEnter, AcceptFails, TakeFirst, TakeFirstReply,
              TakeExchange, TakeExchangeReply, Takes
<1>6. ASSUME NEW f \in Node, NEW g \in Node,
             Consuming(f, g) \/ Broadcast(f, g) \/ AddKnownUser(f, g), ~Purge(f, g)
      PROVE  Goal
  BY <1>6 DEF Consuming, SendCheck, Reconnect, FindClosed, Reconnected, Broadcast,
              AddKnownUser
<1> HIDE DEF Goal
<1>7. Goal
  BY <1>1, <1>2, <1>3, <1>4, <1>5, <1>6 DEF Next
<1> QED BY <1>7 DEF Goal

\* The event loop goes to a purge from a closed entry, and leaves it by it.
LEMMA PurgeMoves ==
    ASSUME TypeOK, Next, NEW d \in Node
    PROVE  /\ consumer[d].pc = "purge" =>
                 consumer'[d] = consumer[d] \/ \E p \in Node : Purge(d, p)
           /\ consumer'[d].pc = "purge" =>
                 consumer'[d] = consumer[d] \/ \E p \in Node : FindClosed(d, p)
<1> DEFINE Goal == /\ consumer[d].pc = "purge" =>
                         consumer'[d] = consumer[d] \/ \E p \in Node : Purge(d, p)
                   /\ consumer'[d].pc = "purge" =>
                         consumer'[d] = consumer[d] \/ \E p \in Node : FindClosed(d, p)
<1>1. ASSUME NEW q \in Call, Ask(q) \/ Connecting(q) \/ DialFails(q) PROVE Goal
  BY <1>1, CallSteps DEF Ask
<1>2. ASSUME NEW c \in Link, Arriving(c) \/ Lose(c) PROVE Goal
  BY <1>2, LinkSteps
<1>3. ASSUME NEW f \in Node, NEW g \in Node,
             SendCheck(f, g) \/ Broadcast(f, g) \/ AddKnownUser(f, g)
      PROVE  Goal
  BY <1>3 DEF SendCheck, Broadcast, AddKnownUser
<1>4. ASSUME NEW f \in Node, NEW g \in Node,
             Reconnect(f, g) \/ FindClosed(f, g) \/ Purge(f, g) \/ Reconnected(f, g)
      PROVE  Goal
  <2>1. CASE f = d
    BY <1>4, <2>1 DEF Reconnect, FindClosed, Purge, Reconnected, Redials, Resting, TypeOK
  <2>2. CASE f # d
    BY <1>4, <2>2 DEF Reconnect, FindClosed, Purge, Reconnected, Redials, TypeOK
  <2> QED BY <2>1, <2>2
<1> HIDE DEF Goal
<1>5. Goal
  BY <1>1, <1>2, <1>3, <1>4 DEF Next, Consuming
<1> QED BY <1>5 DEF Goal

\* An entry's connection is one between the device and the peer.
Between(k, d, e) ==
    \/ link[k].from = d /\ link[k].to = e
    \/ link[k].from = e /\ link[k].to = d

TablesLead ==
    \A d, e \in Node : table[d][e] # None => Between(table[d][e], d, e)

LEMMA TablesLeadStep ==
    ASSUME TypeOK, LinksLead, TablesLead, Next PROVE TablesLead'
<1> SUFFICES ASSUME NEW d \in Node, NEW e \in Node, table'[d][e] # None
             PROVE  Between(table[d][e], d, e)'
  BY DEF TablesLead
<1>1. /\ table[d][e] \in Link \cup {None} /\ None \notin Link
      /\ \A q \in Call : call[q].link \in Link \cup {None}
  BY NoneAssumption, BoundAssumption DEF TypeOK, Link
\* A connection in use keeps its ends.
<1>2. ASSUME NEW k \in Link,
             \/ \E f, g \in Node : table[f][g] = k
             \/ \E q \in Call : call[q].link = k
             \/ link[k].accept # "done"
      PROVE  link'[k].from = link[k].from /\ link'[k].to = link[k].to
  <2>1. \A q \in Call : ~Made(k, q)
    BY <1>2 DEF Made, Unreferenced
  <2> QED BY <2>1, LinkMoves DEF Greeted, Accepted, Shaken, Lost, Ends
<1>3. CASE table'[d][e] = table[d][e]
  <2> DEFINE k == table[d][e]
  <2>1. k \in Link /\ Between(k, d, e)
    BY <1>1, <1>3 DEF TablesLead
  <2>2. link'[k].from = link[k].from /\ link'[k].to = link[k].to
    BY <1>2, <2>1
  <2> QED BY <1>3, <2>1, <2>2 DEF Between
<1>4. CASE Purge(d, e)
  BY <1>4 DEF Purge, TypeOK
<1>5. ASSUME NEW q \in Call, Insert(q), q[1] = d, q[2] = e, table'[d][e] = call[q].link
      PROVE  Between(table[d][e], d, e)'
  <2> DEFINE k == call[q].link
  <2>1. k \in Link /\ link[k].from = d /\ link[k].to = e
    BY <1>5 DEF Insert, At, LinksLead
  <2>2. link'[k].from = link[k].from /\ link'[k].to = link[k].to
    BY <1>2, <2>1
  <2> QED BY <1>5, <2>1, <2>2 DEF Between
<1>6. ASSUME NEW k \in Link, AcceptInsert(k), link[k].to = d, link[k].from = e,
             table'[d][e] = k
      PROVE  Between(table[d][e], d, e)'
  <2>1. link[k].accept # "done"
    BY <1>6 DEF AcceptInsert, Accepts
  <2>2. link'[k].from = link[k].from /\ link'[k].to = link[k].to
    BY <1>2, <2>1
  <2> QED BY <1>6, <2>2 DEF Between
<1> QED BY <1>3, <1>4, <1>5, <1>6, TableMoves

\* A mark has the call that made it.
MarksDial ==
    \A d \in Node : \A p \in connecting[d] :
        \E q \in Call : q[1] = d /\ q[2] = p /\ Dialling(q)

LEMMA MarksDialStep ==
    ASSUME TypeOK, OneCheck, MarksDial, Next PROVE MarksDial'
<1> SUFFICES ASSUME NEW d \in Node, NEW p \in connecting'[d]
             PROVE  \E q \in Call : q[1] = d /\ q[2] = p /\ Dialling(q)'
  BY DEF MarksDial
<1>1. p \in connecting[d] \/ \E q \in Call : q[1] = d /\ q[2] = p /\ Dialling(q)'
  <2>1. ASSUME NEW q \in Call, Mark(q)
        PROVE  p \in connecting[d] \/ (q[1] = d /\ q[2] = p /\ Dialling(q)')
    <3>1. CASE q[2] \in connecting[q[1]]
      BY <2>1, <3>1 DEF Mark
    <3>2. CASE q[2] \notin connecting[q[1]]
      <4>1. Goes(q, "dial") /\ connecting' = [connecting EXCEPT ![q[1]] = @ \cup {q[2]}]
        BY <2>1, <3>2 DEF Mark
      <4>2. call'[q].pc = "dial"
        BY <4>1, GoesEffect DEF TypeOK, CallState, Step
      <4>3. p \in connecting[d] \/ (q[1] = d /\ q[2] = p)
        BY <4>1, CallEnds DEF TypeOK
      <4> QED BY <4>2, <4>3 DEF Dialling
    <3> QED BY <3>1, <3>2
  <2>2. ASSUME NEW q \in Call, Ask(q) \/ Connecting(q) \/ DialFails(q), ~Mark(q)
        PROVE  p \in connecting[d]
    <3>1. CASE Enter(q) \/ CleanUp(q) \/ DialFails(q)
      <4>1. connecting' = [connecting EXCEPT ![q[1]] = @ \ {q[2]}]
        BY <3>1 DEF Enter, CleanUp, DialFails
      <4> QED BY <4>1, CallEnds DEF TypeOK
    <3>2. CASE ~Enter(q) /\ ~CleanUp(q) /\ ~DialFails(q)
      BY <2>2, <3>2 DEF Ask, Connecting, LookUp, UseExisting, CheckEstablished, Dial,
                        Insert, Greet, GreetFails
    <3> QED BY <3>1, <3>2
  <2>3. ASSUME NEW c \in Link, Arriving(c) \/ Lose(c) PROVE p \in connecting[d]
    <3>1. CASE AcceptEnter(c)
      BY <3>1 DEF AcceptEnter, TypeOK
    <3>2. CASE ~AcceptEnter(c)
      BY <2>3, <3>2 DEF Arriving, Lose, AcceptFails, AcceptInsert, TakeFirst,
                        TakeFirstReply, TakeExchange, TakeExchangeReply, Takes
    <3> QED BY <3>1, <3>2
  <2>4. ASSUME NEW f \in Node, NEW g \in Node,
               Consuming(f, g) \/ Broadcast(f, g) \/ AddKnownUser(f, g)
        PROVE  p \in connecting[d]
    BY <2>4 DEF Consuming, SendCheck, Reconnect, FindClosed, Purge, Reconnected,
                Broadcast, AddKnownUser
  <2> QED BY <2>1, <2>2, <2>3, <2>4 DEF Next
<1>2. ASSUME p \in connecting[d]
      PROVE  \E q \in Call : q[1] = d /\ q[2] = p /\ Dialling(q)'
  <2>1. PICK q \in Call : q[1] = d /\ q[2] = p /\ Dialling(q)
    BY <1>2 DEF MarksDial
  <2>2. call'[q] = call[q] \/ Connecting(q) \/ DialFails(q)
    BY <2>1, OwnSteps DEF Dialling
  <2>3. CASE call'[q] = call[q]
    BY <2>1, <2>3 DEF Dialling
  <2>4. CASE Connecting(q) \/ DialFails(q)
    <3>1. Dial(q) \/ Enter(q) \/ DialFails(q)
      BY <2>1, <2>4 DEF Dialling, Connecting, LookUp, UseExisting, CheckEstablished, Mark,
                        Insert, Greet, GreetFails, CleanUp, At
    <3>2. ~Enter(q) /\ ~DialFails(q)
      BY <2>1 DEF Enter, DialFails, TypeOK
    <3>3. call'[q].pc = "handshake"
      BY <3>1, <3>2 DEF Dial, TypeOK
    <3> QED BY <2>1, <3>3 DEF Dialling
  <2> QED BY <2>2, <2>3, <2>4
<1> QED BY <1>1, <1>2

\* Only a device that edits is told of live edits and sends checks.
Editing ==
    /\ \A q \in Call : call[q].pc = "start" => q[3] = "check"
    /\ \A q \in Call : call[q].pc = "existing" => q[3] # "sync"
    /\ \A d \in Node : \A p \in checks[d] : CheckCall(d, p) \in Call
    /\ \A d \in Node : consumer[d].pc = "purge" => CheckCall(d, consumer[d].peer) \in Call

\* What edits a shared note has a call for checks.
LEMMA EditorsCheck ==
    ASSUME NEW q \in Call, q[3] # "sync"
    PROVE  CheckCall(q[1], q[2]) \in Call
<1>1. /\ q \in Node \X Node \X {"sync", "live", "check"} /\ q[1] # q[2]
      /\ <<q[1], IF q[3] = "check" THEN "live" ELSE q[3]>> \in Asks
  BY DEF Call
<1>2. q[1] \in Node /\ q[2] \in Node /\ q[3] \in {"sync", "live", "check"}
  BY <1>1
<1>3. <<q[1], "live">> \in Asks
  BY <1>1, <1>2
<1> DEFINE d == q[1]
           e == q[2]
<1>4. d \in Node /\ e \in Node /\ d # e /\ <<d, "live">> \in Asks
  BY <1>1, <1>2, <1>3
<1> HIDE DEF d, e
<1>5. <<d, e, "check">> \in Call
  BY <1>4 DEF Call
<1> QED BY <1>5 DEF CheckCall, d, e

LEMMA EditingStep ==
    ASSUME TypeOK, Editing, Next PROVE Editing'
<1>1. ASSUME NEW r \in Call, call'[r].pc = "start"
      PROVE  r[3] = "check"
  <2>1. ASSUME NEW q \in Call, Ask(q) \/ Connecting(q) \/ DialFails(q)
        PROVE  call[r].pc = "start"
    <3>1. CASE r = q
      <4>1. call'[q].pc # "start"
        <5>1. CASE Ask(q) \/ LookUp(q)
          <6>1. PICK step \in {"existing", "check"} : Goes(q, step)
            BY <5>1 DEF Ask, LookUp, LooksUp
          <6>2. call'[q].pc = step
            BY <6>1, GoesEffect DEF TypeOK, CallState, Step
          <6> QED BY <6>1, <6>2
        <5>2. CASE UseExisting(q) \/ CleanUp(q) \/ DialFails(q)
          <6>1. PICK c \in Link \cup {None} : Returns(q, c)
            BY <5>2, CallEnds DEF UseExisting, CleanUp, DialFails, TypeOK
          <6>2. call'[q].pc \in {"returned", "idle"}
            BY <6>1, ReturnsEffect DEF TypeOK, CallState
          <6> QED BY <6>2
        <5>3. CASE CheckEstablished(q) \/ Mark(q)
          BY <5>3, GoesEffect, ReturnsEffect DEF CheckEstablished, Mark, TypeOK,
                                                 CallState, Step
        <5>4. CASE Dial(q)
          BY <5>4 DEF Dial, TypeOK
        <5>5. CASE Enter(q) \/ Insert(q) \/ GreetFails(q)
          BY <5>5, GoesEffect DEF Enter, Insert, GreetFails, TypeOK, CallState, Step
        <5>6. CASE Greet(q)
          BY <5>6, ReturnsEffect DEF Greet, TypeOK, CallState
        <5> QED BY <2>1, <5>1, <5>2, <5>3, <5>4, <5>5, <5>6 DEF Connecting
      <4> QED BY <1>1, <3>1, <4>1
    <3>2. CASE r # q
      <4>1. call'[r] = call[r]
        BY <2>1, <3>2, CallSteps, Begins DEF Ask, At, Others
      <4> QED BY <1>1, <4>1
    <3> QED BY <3>1, <3>2
  <2>2. ASSUME NEW c \in Link, Arriving(c) \/ Lose(c) PROVE call[r].pc = "start"
    BY <1>1, <2>2, LinkSteps
  <2>3. ASSUME NEW d \in Node, NEW e \in Node, Broadcast(d, e)
        PROVE  call[r].pc = "start"
    BY <1>1, <2>3, Begins DEF Broadcast, At, Others
  <2>4. ASSUME NEW d \in Node, NEW e \in Node,
               SendCheck(d, e) \/ FindClosed(d, e) \/ AddKnownUser(d, e)
        PROVE  call[r].pc = "start"
    BY <1>1, <2>4 DEF SendCheck, FindClosed, AddKnownUser
  <2>5. ASSUME NEW d \in Node, NEW e \in Node, Reconnect(d, e) \/ Purge(d, e)
        PROVE  call[r].pc = "start" \/ r[3] = "check"
    BY <1>1, <2>5 DEF Reconnect, Purge, Redials, CheckCall, TypeOK
  <2>6. ASSUME NEW d \in Node, NEW e \in Node, Reconnected(d, e)
        PROVE  call[r].pc = "start"
    BY <1>1, <2>6 DEF Reconnected, NoCall, TypeOK
  <2>7. call[r].pc = "start" \/ r[3] = "check"
    BY <2>1, <2>2, <2>3, <2>4, <2>5, <2>6 DEF Next, Consuming
  <2> QED BY <2>7 DEF Editing
<1>2. ASSUME NEW r \in Call, call'[r].pc = "existing"
      PROVE  r[3] # "sync"
  <2>1. ASSUME NEW q \in Call, Ask(q) PROVE call[r].pc = "existing" \/ r[3] # "sync"
    <3>1. CASE r = q
      <4>1. SUFFICES ASSUME q[3] = "sync" PROVE FALSE
        BY <3>1
      <4>2. Goes(q, "check")
        BY <2>1, <4>1 DEF Ask, LooksUp
      <4>3. call'[q].pc = "check"
        BY <4>2, GoesEffect DEF TypeOK, CallState, Step
      <4> QED BY <1>2, <3>1, <4>3
    <3>2. CASE r # q
      BY <1>2, <2>1, <3>2, Begins DEF Ask, At, Others
    <3> QED BY <3>1, <3>2
  <2>2. ASSUME NEW q \in Call, Connecting(q) \/ DialFails(q)
        PROVE  call[r].pc = "existing" \/ r[3] # "sync"
    <3>1. CASE r = q
      <4>1. CASE LookUp(q)
        BY <3>1, <4>1 DEF LookUp, At, Editing
      <4>2. CASE UseExisting(q) \/ CleanUp(q) \/ DialFails(q)
        BY <1>2, <3>1, <4>2, ReturnsEffect, CallEnds
           DEF UseExisting, CleanUp, DialFails, TypeOK, CallState
      <4>3. CASE CheckEstablished(q) \/ Mark(q)
        BY <1>2, <3>1, <4>3, GoesEffect, ReturnsEffect
           DEF CheckEstablished, Mark, TypeOK, CallState, Step
      <4>4. CASE Dial(q)
        BY <1>2, <3>1, <4>4 DEF Dial, TypeOK
      <4>5. CASE Enter(q) \/ Insert(q) \/ GreetFails(q)
        BY <1>2, <3>1, <4>5, GoesEffect
           DEF Enter, Insert, GreetFails, TypeOK, CallState, Step
      <4>6. CASE Greet(q)
        BY <1>2, <3>1, <4>6, ReturnsEffect DEF Greet, TypeOK, CallState
      <4> QED BY <2>2, <4>1, <4>2, <4>3, <4>4, <4>5, <4>6 DEF Connecting
    <3>2. CASE r # q
      BY <1>2, <2>2, <3>2, CallSteps DEF Others
    <3> QED BY <3>1, <3>2
  <2>3. ASSUME NEW c \in Link, Arriving(c) \/ Lose(c) PROVE call[r].pc = "existing"
    BY <1>2, <2>3, LinkSteps
  <2>4. ASSUME NEW d \in Node, NEW e \in Node, Broadcast(d, e)
        PROVE  call[r].pc = "existing" \/ r[3] # "sync"
    <3>1. CASE r = <<d, e, "live">>
      BY <3>1
    <3>2. CASE r # <<d, e, "live">>
      BY <1>2, <2>4, <3>2, Begins DEF Broadcast, At, Others
    <3> QED BY <3>1, <3>2
  <2>5. ASSUME NEW d \in Node, NEW e \in Node,
               SendCheck(d, e) \/ FindClosed(d, e) \/ AddKnownUser(d, e)
        PROVE  call[r].pc = "existing"
    BY <1>2, <2>5 DEF SendCheck, FindClosed, AddKnownUser
  <2>6. ASSUME NEW d \in Node, NEW e \in Node,
               Reconnect(d, e) \/ Purge(d, e) \/ Reconnected(d, e)
        PROVE  call[r].pc = "existing"
    <3>1. call' = [call EXCEPT ![CheckCall(d, e)] = [pc |-> "start", link |-> None]]
          \/ call' = [call EXCEPT ![CheckCall(d, e)] = NoCall]
      BY <2>6 DEF Reconnect, Purge, Redials, Reconnected
    <3>2. NoCall.pc # "existing" /\ [pc |-> "start", link |-> None].pc # "existing"
      BY DEF NoCall
    <3>3. call'[r] = call[r]
      BY <1>2, <3>1, <3>2 DEF TypeOK
    <3> QED BY <1>2, <3>3
  <2>7. call[r].pc = "existing" \/ r[3] # "sync"
    BY <2>1, <2>2, <2>3, <2>4, <2>5, <2>6 DEF Next, Consuming
  <2> QED BY <2>7 DEF Editing
<1>3. ASSUME NEW d \in Node, NEW p \in checks'[d] PROVE CheckCall(d, p) \in Call
  <2>1. p \in checks[d] => CheckCall(d, p) \in Call
    BY DEF Editing
  <2>2. ASSUME NEW q \in Call, UseExisting(q)
        PROVE  p \in checks[d] \/ CheckCall(d, p) \in Call
    <3>1. q[3] # "sync"
      BY <2>2 DEF UseExisting, At, Editing
    <3>2. CheckCall(q[1], q[2]) \in Call
      BY <3>1, EditorsCheck
    <3>3. p \in checks[d] \/ (d = q[1] /\ p = q[2])
      BY <2>2, CallEnds DEF UseExisting, TypeOK
    <3> QED BY <3>2, <3>3
  <2>3. ASSUME NEW q \in Call, Ask(q) \/ Connecting(q) \/ DialFails(q), ~UseExisting(q)
        PROVE  p \in checks[d]
    BY <2>3 DEF Ask, Connecting, DialFails, LookUp, CheckEstablished, Mark, Dial, Enter,
                Insert, Greet, GreetFails, CleanUp
  <2>4. ASSUME NEW c \in Link, Arriving(c) \/ Lose(c) PROVE p \in checks[d]
    BY <2>4, LinkSteps
  <2>5. ASSUME NEW f \in Node, NEW g \in Node,
               Consuming(f, g) \/ Broadcast(f, g) \/ AddKnownUser(f, g)
        PROVE  p \in checks[d]
    <3>1. checks' = checks \/ checks' = [checks EXCEPT ![f] = @ \ {g}]
      BY <2>5 DEF Consuming, SendCheck, Reconnect, FindClosed, Purge, Reconnected,
                  Broadcast, AddKnownUser
    <3> QED BY <3>1 DEF TypeOK
  <2> QED BY <2>1, <2>2, <2>3, <2>4, <2>5 DEF Next
<1>4. ASSUME NEW d \in Node, consumer'[d].pc = "purge"
      PROVE  CheckCall(d, consumer'[d].peer) \in Call
  <2>1. consumer'[d] = consumer[d] \/ \E p \in Node : FindClosed(d, p)
    BY <1>4, PurgeMoves
  <2>2. CASE consumer'[d] = consumer[d]
    BY <1>4, <2>2 DEF Editing
  <2>3. ASSUME NEW p \in Node, FindClosed(d, p)
        PROVE  CheckCall(d, consumer'[d].peer) \in Call
    <3>1. p \in checks[d] /\ consumer'[d].peer = p
      BY <2>3 DEF FindClosed, TypeOK
    <3> QED BY <3>1 DEF Editing
  <2> QED BY <2>1, <2>2, <2>3
<1>5. \A d \in Node : \A p \in checks'[d] : CheckCall(d, p)' \in Call
  BY <1>3 DEF CheckCall
<1>6. \A d \in Node : consumer'[d].pc = "purge" => CheckCall(d, consumer[d].peer)' \in Call
  BY <1>4 DEF CheckCall
<1> QED BY <1>1, <1>2, <1>5, <1>6 DEF Editing

\* What gets a device an entry for a peer: a call that is not yet past it, a purge,
\* which dials again, or a connection of the peer's that is being accepted.
Fetching(q) == call[q].pc \in {"start", "check", "mark", "dial", "handshake", "insert"}

Coming(d, e) ==
    \/ table[d][e] # None
    \/ \E q \in Call : q[1] = d /\ q[2] = e /\ Fetching(q)
    \/ consumer[d].pc = "purge" /\ consumer[d].peer = e
    \/ \E k \in Link : link[k].accept = "insert" /\ link[k].to = d /\ link[k].from = e

\* A call on its way to an entry gets on, finds one, or finds another call on its
\* way (mark_as_connecting).
LEMMA FetchStays ==
    ASSUME TypeOK, OneCheck, LinksLead, MarksDial, Next,
           NEW d \in Node, NEW e \in Node,
           NEW q \in Call, q[1] = d, q[2] = e, Fetching(q), ~DialFails(q)
    PROVE  Coming(d, e)'
<1> DEFINE Goal == \/ table'[d][e] # None
                   \/ \E r \in Call : r[1] = d /\ r[2] = e /\ Fetching(r)'
<1> SUFFICES Goal
  BY DEF Coming
<1>1. CASE call'[q] = call[q]
  BY <1>1 DEF Fetching
<1>2. ASSUME NEW step \in {"check", "mark", "dial", "insert"}, Goes(q, step) PROVE Goal
  <2>1. call'[q].pc = step
    BY <1>2, GoesEffect DEF TypeOK, CallState, Step
  <2> QED BY <1>2, <2>1 DEF Fetching
<1>3. ASSUME e \in connecting[d], Connecting(q), ~Dial(q), ~Enter(q) PROVE Goal
  <2>1. PICK r \in Call : r[1] = d /\ r[2] = e /\ Dialling(r)
    BY <1>3 DEF MarksDial
  <2>2. CASE r = q
    <3>1. call[q].pc \in {"dial", "handshake"}
      BY <2>1, <2>2 DEF Dialling
    <3> QED BY <1>3, <3>1 DEF Connecting, LookUp, UseExisting, CheckEstablished, Mark,
                             Insert, Greet, GreetFails, CleanUp, At
  <2>3. CASE r # q
    <3>1. call'[r] = call[r]
      BY <1>3, <2>3, CallSteps DEF Others
    <3> QED BY <2>1, <3>1 DEF Dialling, Fetching
  <2> QED BY <2>2, <2>3
<1>4. CASE LookUp(q)
  <2>1. CASE Active(q[1], q[2])
    <3>1. CASE table[d][e] # None
      BY <1>4, <3>1 DEF LookUp
    <3>2. CASE e \in connecting[d]
      <4>1. ~Dial(q) /\ ~Enter(q)
        BY <1>4 DEF LookUp, Dial, Enter, At
      <4> QED BY <1>3, <1>4, <3>2, <4>1 DEF Connecting
    <3> QED BY <2>1, <3>1, <3>2 DEF Active
  <2>2. CASE ~Active(q[1], q[2])
    BY <1>2, <1>4, <2>2 DEF LookUp, LooksUp
  <2> QED BY <2>1, <2>2
<1>5. CASE CheckEstablished(q)
  <2>1. CASE table[d][e] # None
    BY <1>5, <2>1 DEF CheckEstablished
  <2>2. CASE table[d][e] = None
    BY <1>2, <1>5, <2>2 DEF CheckEstablished
  <2> QED BY <2>1, <2>2
<1>6. CASE Mark(q)
  <2>1. CASE e \in connecting[d]
    <3>1. ~Dial(q) /\ ~Enter(q)
      BY <1>6 DEF Mark, Dial, Enter, At
    <3> QED BY <1>3, <1>6, <2>1, <3>1 DEF Connecting
  <2>2. CASE e \notin connecting[d]
    BY <1>2, <1>6, <2>2 DEF Mark
  <2> QED BY <2>1, <2>2
<1>7. CASE Dial(q)
  <2>1. call'[q].pc = "handshake"
    BY <1>7 DEF Dial, TypeOK
  <2> QED BY <2>1 DEF Fetching
<1>8. CASE Enter(q)
  BY <1>2, <1>8 DEF Enter
<1>9. CASE Insert(q)
  <2>1. call[q].link \in Link /\ None \notin Link
    BY <1>9, NoneAssumption, BoundAssumption DEF Insert, At, LinksLead, Link
  <2>2. table'[d][e] = call[q].link
    BY <1>9 DEF Insert, TypeOK
  <2> QED BY <2>1, <2>2
<1>10. ~UseExisting(q) /\ ~Greet(q) /\ ~GreetFails(q) /\ ~CleanUp(q)
  BY DEF Fetching, UseExisting, Greet, GreetFails, CleanUp, At
<1>11. call'[q] = call[q] \/ Connecting(q)
  BY OwnSteps DEF Fetching
<1> HIDE DEF Goal
<1> QED BY <1>1, <1>4, <1>5, <1>6, <1>7, <1>8, <1>9, <1>10, <1>11 DEF Connecting

\* As long as no dial fails, an entry that is there or coming stays so: what removes
\* an entry dials again.
LEMMA ComingStays ==
    ASSUME TypeOK, OneCheck, LinksLead, MarksDial, Editing, Next,
           \A q \in Call : ~DialFails(q),
           NEW d \in Node, NEW e \in Node, Coming(d, e)
    PROVE  Coming(d, e)'
<1>1. None \notin Link
  BY NoneAssumption, BoundAssumption DEF Link
<1>2. ASSUME Purge(d, e) PROVE Coming(d, e)'
  <2>1. consumer[d].pc = "purge" /\ consumer[d].peer = e
    BY <1>2 DEF Purge
  <2>2. CheckCall(d, e) \in Call
    BY <2>1 DEF Editing
  <2>3. call'[CheckCall(d, e)].pc = "start"
    BY <1>2, <2>2 DEF Purge, Redials, TypeOK
  <2>4. CheckCall(d, e)[1] = d /\ CheckCall(d, e)[2] = e
    BY DEF CheckCall
  <2> QED BY <2>2, <2>3, <2>4 DEF Coming, Fetching
<1>3. CASE table[d][e] # None
  <2>1. CASE table'[d][e] = table[d][e]
    BY <1>3, <2>1 DEF Coming
  <2>2. ASSUME NEW q \in Call, Insert(q), table'[d][e] = call[q].link
        PROVE  Coming(d, e)'
    <3>1. call[q].link \in Link
      BY <2>2 DEF Insert, At, LinksLead
    <3> QED BY <1>1, <2>2, <3>1 DEF Coming
  <2>3. ASSUME NEW k \in Link, table'[d][e] = k PROVE Coming(d, e)'
    BY <1>1, <2>3 DEF Coming
  <2> QED BY <1>2, <2>1, <2>2, <2>3, TableMoves
<1>4. ASSUME NEW q \in Call, q[1] = d, q[2] = e, Fetching(q) PROVE Coming(d, e)'
  BY <1>4, FetchStays
<1>5. CASE consumer[d].pc = "purge" /\ consumer[d].peer = e
  <2>1. ASSUME NEW p \in Node, Purge(d, p) PROVE p = e
    BY <1>5, <2>1 DEF Purge
  <2>2. CASE consumer'[d] = consumer[d]
    BY <1>5, <2>2 DEF Coming
  <2> QED BY <1>2, <1>5, <2>1, <2>2, PurgeMoves
<1>6. ASSUME NEW k \in Link, link[k].accept = "insert", link[k].to = d, link[k].from = e
      PROVE  Coming(d, e)'
  <2>1. CASE Accepted(k)
    <3>1. AcceptInsert(k)
      BY <1>6, <2>1 DEF Accepted, AcceptEnter, AcceptFails, Accepts
    <3>2. table'[d][e] = k
      BY <1>6, <3>1 DEF AcceptInsert, TypeOK
    <3> QED BY <1>1, <3>2 DEF Coming
  <2>2. ASSUME link'[k].accept = "insert", Ends(k) PROVE Coming(d, e)'
    BY <1>6, <2>2 DEF Coming, Ends
  <2>3. CASE link'[k] = link[k] \/ Shaken(k) \/ Lost(k)
    BY <1>6, <2>2, <2>3 DEF Shaken, Lost, Ends
  <2>4. ASSUME NEW q \in Call, Made(k, q) \/ Greeted(k, q) PROVE Coming(d, e)'
    BY <1>6, <2>2, <2>4 DEF Made, Greeted, Unreferenced
  <2> QED BY <2>1, <2>3, <2>4, LinkMoves
<1> QED BY <1>3, <1>4, <1>5, <1>6 DEF Coming

\* The two ends of an open connection have an entry for each other or will: its
\* initiator at once, its listener once it is accepted.
Expected ==
    \A k \in Link : \A d, e \in Node :
        link[k].open /\ link[k].from = d /\ link[k].to = e =>
            /\ Coming(d, e)
            /\ link[k].accept = "new" \/ Coming(e, d)

LEMMA ExpectedStep ==
    ASSUME TypeOK, OneCheck, LinksLead, MarksDial, Editing, Expected, Next,
           \A q \in Call : ~DialFails(q)
    PROVE  Expected'
<1> SUFFICES ASSUME NEW k \in Link, NEW d \in Node, NEW e \in Node,
                    link'[k].open, link'[k].from = d, link'[k].to = e
             PROVE  /\ Coming(d, e)'
                    /\ link'[k].accept = "new" \/ Coming(e, d)'
  BY DEF Expected
<1>1. ASSUME link[k].open, Ends(k) PROVE Coming(d, e)'
  BY <1>1, ComingStays DEF Expected, Ends
<1>2. ASSUME link[k].open, Ends(k), link[k].accept # "new" PROVE Coming(e, d)'
  BY <1>2, ComingStays DEF Expected, Ends
<1>3. CASE link'[k] = link[k] \/ Shaken(k)
  BY <1>1, <1>2, <1>3 DEF Shaken, Ends
<1>4. CASE Accepted(k)
  <2>1. link[k].open /\ Ends(k)
    BY <1>4 DEF Accepted
  <2>2. CASE AcceptEnter(k)
    <3>1. link'[k].accept = "insert"
      BY <2>2 DEF AcceptEnter, Accepts, TypeOK, LinkState
    <3> QED BY <1>1, <2>1, <3>1 DEF Coming
  <2>3. CASE AcceptInsert(k)
    BY <1>1, <1>2, <2>1, <2>3 DEF AcceptInsert, Accepts
  <2>4. ~AcceptFails(k)
    BY <2>1 DEF AcceptFails
  <2> QED BY <1>4, <2>2, <2>3, <2>4 DEF Accepted
<1>5. ASSUME NEW q \in Call, Made(k, q)
      PROVE  Coming(d, e)' /\ link'[k].accept = "new"
  BY <1>5 DEF Made, Coming, Fetching
<1>6. ASSUME NEW q \in Call, Greeted(k, q)
      PROVE  Coming(d, e)' /\ (link'[k].accept = "new" \/ Coming(e, d)')
  BY <1>1, <1>2, <1>6 DEF Greeted
<1>7. ~Lost(k)
  BY DEF Lost
<1> QED BY <1>3, <1>4, <1>5, <1>6, <1>7, LinkMoves

\* What holds until a connection is lost: every entry is open, nothing is purged, and
\* whoever has a connection has an entry, or is about to make the one for it.
Unbroken ==
    /\ \A k \in Link : link[k].from # None => link[k].open
    /\ \A d \in Node : consumer[d].pc # "purge"

Inserting(k, q) == call[q].link = k /\ call[q].pc \in {"handshake", "insert"}

Listed ==
    \A k \in Link : \A d, e \in Node :
        link[k].open /\ link[k].from = d /\ link[k].to = e =>
            /\ table[d][e] # None \/ \E q \in Call : Inserting(k, q)
            /\ link[k].accept # "done" \/ table[e][d] # None

LEMMA UnbrokenStep ==
    ASSUME TypeOK, LinksLead, TablesLead, Unbroken, Next, \A c \in Link : ~Lose(c)
    PROVE  Unbroken'
<1>1. ASSUME NEW k \in Link, link'[k].from # None PROVE link'[k].open
  <2>1. link'[k].from = link[k].from /\ link'[k].open = link[k].open => link'[k].open
    BY <1>1 DEF Unbroken
  <2>2. ASSUME NEW q \in Call, Made(k, q) PROVE link'[k].open
    BY <2>2 DEF Made
  <2>3. ASSUME NEW q \in Call, Greeted(k, q) PROVE link'[k].open
    BY <2>1, <2>3 DEF Greeted, Ends
  <2>4. link'[k] = link[k] \/ Accepted(k) \/ Shaken(k) => link'[k].open
    BY <2>1 DEF Accepted, Shaken, Ends
  <2>5. ~Lost(k)
    BY DEF Lost
  <2> QED BY <2>2, <2>3, <2>4, <2>5, LinkMoves
<1>2. ASSUME NEW d \in Node, NEW p \in Node, FindClosed(d, p) PROVE FALSE
  <2> DEFINE k == table[d][p]
  <2>1. k # None /\ ~link[k].open
    BY <1>2 DEF FindClosed, Healthy
  <2>2. k \in Link /\ link[k].from \in Node
    BY <2>1 DEF TablesLead, Between, TypeOK
  <2>3. link[k].from # None
    BY <2>2, NoneAssumption
  <2> HIDE DEF k
  <2> QED BY <2>1, <2>2, <2>3 DEF Unbroken
<1>3. \A d \in Node : consumer'[d].pc # "purge"
  BY <1>2, PurgeMoves DEF Unbroken
<1> QED BY <1>1, <1>3 DEF Unbroken

LEMMA ListedStep ==
    ASSUME TypeOK, OneCheck, LinksLead, Unbroken, Listed, Next, \A c \in Link : ~Lose(c)
    PROVE  Listed'
<1> SUFFICES ASSUME NEW k \in Link, NEW d \in Node, NEW e \in Node,
                    link'[k].open, link'[k].from = d, link'[k].to = e
             PROVE  /\ table'[d][e] # None \/ \E q \in Call : Inserting(k, q)'
                    /\ link'[k].accept # "done" \/ table'[e][d] # None
  BY DEF Listed
<1>1. None \notin Link
  BY NoneAssumption, BoundAssumption DEF Link
<1>2. ASSUME NEW f \in Node, NEW g \in Node, table[f][g] # None
      PROVE  table'[f][g] # None
  <2>1. ~Purge(f, g)
    BY DEF Purge, Unbroken
  <2>2. ASSUME NEW q \in Call, Insert(q) PROVE call[q].link \in Link
    BY <2>2 DEF Insert, At, LinksLead
  <2> QED BY <1>1, <1>2, <2>1, <2>2, TableMoves
<1>3. ASSUME link[k].open, Ends(k)
      PROVE  table'[d][e] # None \/ \E q \in Call : Inserting(k, q)'
  <2>1. table[d][e] # None \/ \E q \in Call : Inserting(k, q)
    BY <1>3 DEF Listed, Ends
  <2>2. ASSUME NEW q \in Call, Inserting(k, q)
        PROVE  table'[d][e] # None \/ Inserting(k, q)'
    <3>1. call'[q] = call[q] \/ Connecting(q) \/ DialFails(q)
      BY <2>2, OwnSteps DEF Inserting
    <3>2. CASE call'[q] = call[q]
      BY <2>2, <3>2 DEF Inserting
    <3>3. CASE Enter(q)
      <4>1. Goes(q, "insert")
        BY <3>3 DEF Enter
      <4>2. call'[q].pc = "insert" /\ call'[q].link = call[q].link
        BY <4>1, GoesEffect DEF TypeOK, CallState, Step
      <4> QED BY <2>2, <4>2 DEF Inserting
    <3>4. CASE Insert(q)
      <4>1. q[1] = d /\ q[2] = e
        BY <1>3, <2>2 DEF Inserting, LinksLead, Ends
      <4>2. table'[d][e] = k
        BY <2>2, <3>4, <4>1 DEF Insert, Inserting, TypeOK
      <4> QED BY <1>1, <4>2
    <3>5. Connecting(q) \/ DialFails(q) => Enter(q) \/ Insert(q)
      BY <2>2 DEF Inserting, Connecting, LookUp, UseExisting, CheckEstablished, Mark, Dial,
                  Greet, GreetFails, CleanUp, DialFails, At
    <3> QED BY <3>1, <3>2, <3>3, <3>4, <3>5
  <2> QED BY <1>2, <2>1, <2>2
<1>4. ASSUME link[k].open, Ends(k), link[k].accept # "done" \/ table[e][d] # None,
             link'[k].accept = link[k].accept
      PROVE  link'[k].accept # "done" \/ table'[e][d] # None
  BY <1>2, <1>4
<1>5. ASSUME link[k].open, Ends(k)
      PROVE  link[k].accept # "done" \/ table[e][d] # None
  BY <1>5 DEF Listed, Ends
<1>6. CASE link'[k] = link[k] \/ Shaken(k)
  BY <1>3, <1>4, <1>5, <1>6 DEF Shaken, Ends
<1>7. CASE Accepted(k)
  <2>1. link[k].open /\ Ends(k)
    BY <1>7 DEF Accepted
  <2>2. CASE AcceptEnter(k)
    <3>1. link'[k].accept = "insert"
      BY <2>2 DEF AcceptEnter, Accepts, TypeOK, LinkState
    <3> QED BY <1>3, <2>1, <3>1
  <2>3. CASE AcceptInsert(k)
    <3>1. table'[e][d] = k
      BY <2>1, <2>3 DEF AcceptInsert, Ends, TypeOK
    <3> QED BY <1>1, <1>3, <2>1, <3>1
  <2>4. ~AcceptFails(k)
    BY <2>1 DEF AcceptFails
  <2> QED BY <1>7, <2>2, <2>3, <2>4 DEF Accepted
<1>8. ASSUME NEW q \in Call, Made(k, q)
      PROVE  Inserting(k, q)' /\ link'[k].accept # "done"
  BY <1>8 DEF Made, Inserting
<1>9. ASSUME NEW q \in Call, Greeted(k, q)
      PROVE  /\ table'[d][e] # None \/ \E r \in Call : Inserting(k, r)'
             /\ link'[k].accept # "done" \/ table'[e][d] # None
  BY <1>3, <1>4, <1>5, <1>9 DEF Greeted
<1>10. ~Lost(k)
  BY DEF Lost
<1> QED BY <1>6, <1>7, <1>8, <1>9, <1>10, LinkMoves

LEMMA ListedExpected ==
    ASSUME TypeOK, LinksLead, Listed PROVE Expected
<1> SUFFICES ASSUME NEW k \in Link, NEW d \in Node, NEW e \in Node,
                    link[k].open, link[k].from = d, link[k].to = e
             PROVE  /\ Coming(d, e)
                    /\ link[k].accept = "new" \/ Coming(e, d)
  BY DEF Expected
<1>1. ASSUME NEW q \in Call, Inserting(k, q) PROVE Coming(d, e)
  <2>1. q[1] = d /\ q[2] = e
    BY <1>1 DEF Inserting, LinksLead
  <2> QED BY <1>1, <2>1 DEF Coming, Inserting, Fetching
<1>2. Coming(d, e)
  BY <1>1 DEF Listed, Coming
<1>3. link[k].accept \in {"new", "insert", "done"}
  BY DEF TypeOK, LinkState
<1> QED BY <1>2, <1>3 DEF Listed, Coming

----------------------------------------------------------------------------
(* Faults.                                                                 *)

\* A loss and a failed dial are counted, nothing else is.
LEMMA FaultsCounted ==
    ASSUME TypeOK, Next
    PROVE  /\ faults' = faults \/ faults' = faults + 1
           /\ \A c \in Link : Lose(c) => faults' = faults + 1
<1>1. ASSUME NEW q \in Call, Ask(q) \/ Connecting(q) PROVE faults' = faults
  BY <1>1 DEF Ask, Connecting, LookUp, UseExisting, CheckEstablished, Mark, Dial, Enter,
              Insert, Greet, GreetFails, CleanUp
<1>2. ASSUME NEW q \in Call, DialFails(q) PROVE faults' = faults + 1
  BY <1>2 DEF DialFails, Fault
<1>3. ASSUME NEW c \in Link, Arriving(c) PROVE faults' = faults
  BY <1>3 DEF Arriving, AcceptEnter, AcceptFails, AcceptInsert, TakeFirst,
              TakeFirstReply, TakeExchange, TakeExchangeReply, Takes
<1>4. ASSUME NEW c \in Link, Lose(c) PROVE faults' = faults + 1
  BY <1>4 DEF Lose, Fault
<1>5. ASSUME NEW d \in Node, NEW e \in Node,
             Consuming(d, e) \/ Broadcast(d, e) \/ AddKnownUser(d, e)
      PROVE  faults' = faults
  BY <1>5 DEF Consuming, SendCheck, Reconnect, FindClosed, Purge, Reconnected, Broadcast,
              AddKnownUser
<1> QED BY <1>1, <1>2, <1>3, <1>4, <1>5 DEF Next

\* No dial fails any more.
Reachable == "refuse" \notin Faults \/ faults >= MaxFaults

LEMMA ReachableStep ==
    ASSUME TypeOK, Next, Reachable PROVE Reachable'
<1>1. faults \in Nat /\ MaxFaults \in Nat
  BY BoundAssumption DEF TypeOK
<1> QED BY <1>1, FaultsCounted DEF Reachable

LEMMA ReachableDials ==
    ASSUME TypeOK, Reachable, NEW q \in Call PROVE ~DialFails(q)
<1>1. faults \in Nat /\ MaxFaults \in Nat
  BY BoundAssumption DEF TypeOK
<1> QED BY <1>1 DEF Reachable, DialFails, Fault

\* A device that can send on an entry reaches one that has an entry to answer by,
\* unless a connection is lost and then the dial fails by which the purge of
\* send_or_reconnect replaces the newer entry it took.
THEOREM EntriesAnswerable ==
    ("refuse" \notin Faults \/ "lose" \notin Faults \/ MaxFaults <= 1) /\ Spec
        => []Answerable
<1> SUFFICES ASSUME "refuse" \notin Faults \/ "lose" \notin Faults \/ MaxFaults <= 1
             PROVE  Spec => []Answerable
  OBVIOUS
<1> DEFINE J == /\ TypeOK /\ OneCheck /\ LinksLead /\ MarksDial /\ Editing
                /\ TablesLead
           S == Unbroken /\ Listed
           I == J /\ Expected /\ (S \/ Reachable)
<1>1. Init => I
  <2> SUFFICES ASSUME Init PROVE I
    OBVIOUS
  <2>1. TypeOK
    BY InitTyped
  <2>2. OneCheck /\ LinksLead /\ MarksDial /\ Editing
    BY DEF Init, OneCheck, LinksLead, MarksDial, Editing, NoCall, Resting
  <2>3. TablesLead
    BY DEF Init, TablesLead
  <2>4. S /\ Expected
    BY DEF Init, Unbroken, Listed, Expected, Unused, Resting
  <2> QED BY <2>1, <2>2, <2>3, <2>4
<1>2. I /\ [Next]_vars => I'
  <2>1. ASSUME I, Next PROVE I'
    <3>1. J'
      BY <2>1, TypeStep, OneCheckStep, LinksLeadStep, MarksDialStep, EditingStep,
         TablesLeadStep
    <3>2. CASE Reachable
      BY <2>1, <3>1, <3>2, ReachableStep, ReachableDials, ExpectedStep
    <3>3. CASE S /\ \E q \in Call : DialFails(q)
      <4>1. \A c \in Link : ~Lose(c)
        BY <2>1, <3>3 DEF DialFails, Lose, TypeOK, LinkState
      <4>2. S'
        BY <2>1, <3>3, <4>1, UnbrokenStep, ListedStep
      <4>3. TypeOK' /\ LinksLead' /\ Listed' => Expected'
        BY ListedExpected, PTL
      <4> QED BY <3>1, <4>2, <4>3
    <3>4. CASE S /\ \A q \in Call : ~DialFails(q)
      <4>1. Expected'
        BY <2>1, <3>4, ExpectedStep
      <4>2. ASSUME NEW c \in Link, Lose(c) PROVE Reachable'
        <5>1. faults' = faults + 1 /\ faults \in Nat /\ MaxFaults \in Nat
          BY <2>1, <4>2, FaultsCounted, BoundAssumption DEF TypeOK
        <5>2. "lose" \in Faults
          BY <4>2 DEF Lose, Fault
        <5> QED BY <5>1, <5>2 DEF Reachable
      <4>3. CASE \A c \in Link : ~Lose(c)
        BY <2>1, <3>1, <3>4, <4>1, <4>3, UnbrokenStep, ListedStep
      <4> QED BY <3>1, <4>1, <4>2, <4>3
    <3> QED BY <2>1, <3>2, <3>3, <3>4
  <2>2. I /\ UNCHANGED vars => I'
    BY DEF vars, TypeOK, OneCheck, LinksLead, MarksDial, Dialling, Editing, TablesLead,
           Between, Expected, Coming, Fetching, Unbroken, Listed, Inserting,
           Reachable
  <2> QED BY <2>1, <2>2
<1>3. I => Answerable
  <2> SUFFICES ASSUME J, Expected, Quiet, NEW d \in Node, NEW e \in Node,
                      Healthy(table[d][e])
               PROVE  table[e][d] # None
    BY DEF Answerable
  <2> DEFINE k == table[d][e]
  <2>1. k \in Link /\ link[k].open /\ Between(k, d, e)
    BY DEF Healthy, TypeOK, TablesLead
  <2>2. Coming(e, d)
    <3>1. link[k].accept = "done"
      BY <2>1 DEF Quiet
    <3> HIDE DEF k
    <3> QED BY <2>1, <3>1 DEF Expected, Between
  <2> QED BY <2>2 DEF Coming, Quiet, At, Fetching
<1> QED BY <1>1, <1>2, <1>3, PTL DEF Spec
============================================================================
