--------------------------- MODULE UserSyncProofs ---------------------------
(***************************************************************************)
(* What holds of UserSync for every set of resources and folders and any   *)
(* number of events.  The types and the manifest results: however the      *)
(* syncs of a connection overlap and whatever fails.  The folders, which   *)
(* come before what is in them: until something is created in between or   *)
(* a handler fails.  The delivery of all that an end lacks: when the       *)
(* manifests of the initiator do not overtake each other and no handler    *)
(* fails.                                                                  *)
(***************************************************************************)
EXTENDS UserSync, FiniteSetTheorems, SequenceTheorems, TLAPS

----------------------------------------------------------------------------
(* Sequences of messages.                                                  *)

\* One message each for a set is a sequence of such messages.
LEMMA OneEachIsSeq ==
    ASSUME NEW kind, NEW set \in SUBSET Resource, NEW S,
           \A x \in set : MsgOf(kind, x) \in S,
           NEW msgs \in OneEach(kind, set)
    PROVE  msgs \in Seq(S)
<1>1. PICK q \in SetToSeqs(set) : msgs = [n \in DOMAIN q |-> MsgOf(kind, q[n])]
  BY DEF OneEach
<1>2. Cardinality(set) \in Nat
  BY ResourceAssumption, FS_Subset, FS_CardinalityType
<1>3. q \in [1 .. Cardinality(set) -> set]
  BY <1>1 DEF SetToSeqs
<1>4. msgs \in [1 .. Cardinality(set) -> S]
  BY <1>1, <1>3
<1> QED BY <1>2, <1>4, SeqDef

\* Taking a message and preparing the answers keeps both queues typed.
LEMMA AnswersTyped ==
    ASSUME NEW S, NEW T, S \subseteq T,
           chan \in [End -> Seq(S)], out \in [End -> Seq(S)],
           NEW e \in End, chan[e] # <<>>,
           NEW msgs \in Seq(T), Answers(e, msgs)
    PROVE  chan' \in [End -> Seq(T)] /\ out' \in [End -> Seq(T)]
<1>1. \A d \in End : chan[d] \in Seq(T) /\ out[d] \in Seq(T)
  BY SeqMonotonic
<1>2. Tail(chan[e]) \in Seq(T)
  BY <1>1, HeadTailProperties
<1> QED BY <1>1, <1>2 DEF Answers

\* So does a message that is added to one of them.
LEMMA AppendTyped ==
    ASSUME NEW S, chan \in [End -> Seq(S)], NEW e \in End, NEW m \in S,
           chan' = [chan EXCEPT ![e] = Append(@, m)]
    PROVE  chan' \in [End -> Seq(S)]
<1>1. Append(chan[e], m) \in Seq(S)
  OBVIOUS
<1> QED BY <1>1

\* And removing one of the manifests.
LEMMA RemoveTyped ==
    ASSUME NEW S, NEW q \in Seq(S), NEW n \in DOMAIN q
    PROVE  RemoveAt(q, n) \in Seq(S)
<1>1. n \in 1 .. Len(q) /\ Len(q) \in Nat /\ \A k \in 1 .. Len(q) : q[k] \in S
  BY LenProperties, ElementOfSeq
<1>2. SubSeq(q, 1, n - 1) \in Seq(S)
  BY <1>1, SubSeqProperties
<1>3. SubSeq(q, n + 1, Len(q)) \in Seq(S)
  BY <1>1, SubSeqProperties
<1> QED BY <1>2, <1>3, ConcatProperties DEF RemoveAt

----------------------------------------------------------------------------
(* The invariant.                                                          *)

\* The messages that are only sent when both ends have a result.
Late == {"ack", "network", "networkAck", "folders", "recipients", "add", "complete"}

\* The messages that may be on their way as the results are now.
Sound ==
    {m \in Message :
        /\ m.kind \in Late => \A e \in End : result[e].stored
        /\ m.kind = "response" => m.result.stored /\ result["r"].stored}

Tables ==
    /\ held \in [End -> SUBSET Resource]
    /\ folders \in [End -> SUBSET Folder]
    /\ misplaced \in [End -> SUBSET Resource]
    /\ differ \subseteq Resource
    /\ result \in [End -> Result]
    /\ wanted \in [End -> Nat]
    /\ made \in Seq(Request)
    /\ adds \in 0 .. MaxEvents
    /\ faults \subseteq {"error", "drop"}

Queues == chan \in [End -> Seq(Sound)] /\ out \in [End -> Seq(Sound)]

IInv == Tables /\ Queues

\* A result that was there stays there: what may be on its way still may.
LEMMA SoundGrows ==
    ASSUME \A e \in End : result[e].stored => result'[e].stored
    PROVE  Sound \subseteq Sound'
BY DEF Sound, End

\* The message that a handler takes, and what it says of the results.
LEMMA Taken ==
    ASSUME Queues, NEW e \in End, NEW kind, Takes(e, kind)
    PROVE  /\ chan[e] # <<>> /\ Head(chan[e]) \in Sound /\ Head(chan[e]) \in Message
           /\ Head(chan[e]).kind = kind
           /\ kind \in Late => \A d \in End : result[d].stored
<1>1. chan[e] \in Seq(Sound) /\ chan[e] # <<>> /\ Head(chan[e]).kind = kind
  BY DEF Queues, Takes
<1>2. Head(chan[e]) \in Sound
  BY <1>1, HeadTailProperties
<1> QED BY <1>1, <1>2 DEF Sound

\* A message without contents, sent when both results are there.
LEMMA PlainSound ==
    ASSUME NEW kind \in Plain, kind \in Late => \A e \in End : result[e].stored
    PROVE  Msg(kind) \in Sound
BY DEF Msg, Sound, Message, Plain

\* A message about a resource.
LEMMA AboutSound ==
    ASSUME NEW kind \in About, NEW x \in Resource,
           kind \in Late => \A e \in End : result[e].stored
    PROVE  MsgOf(kind, x) \in Sound
BY DEF MsgOf, Sound, Message, About

LEMMA RequestSound == Request \subseteq Sound
BY DEF Request, Sound, Message, Late

LEMMA ManifestTyped == Tables => Manifest \in Request
BY DEF Tables, Manifest, Request, End

\* The initial states satisfy it.
LEMMA InitIInv == Init => IInv
<1> SUFFICES ASSUME Init PROVE IInv
  OBVIOUS
<1>1. <<>> \in Seq(Request) /\ <<>> \in Seq(Sound)
  BY EmptySeq
<1>2. 0 \in 0 .. MaxEvents
  BY BoundAssumption
<1>3. NoResult \in Result
  BY DEF NoResult, Result
<1> QED BY <1>1, <1>2, <1>3 DEF Init, IInv, Tables, Queues, End

\* IInv says the types.
LEMMA IInvTyped == IInv => TypeOK
<1> SUFFICES ASSUME IInv PROVE TypeOK
  OBVIOUS
<1>1. Sound \subseteq Message
  BY DEF Sound
<1>2. \A e \in End : chan[e] \in Seq(Message) /\ out[e] \in Seq(Message)
  BY <1>1, SeqMonotonic DEF IInv, Queues
<1> QED BY <1>2 DEF IInv, Tables, Queues, TypeOK

\* And that every handler finds its result.
LEMMA IInvResultThere == IInv => ResultThere
<1> SUFFICES ASSUME IInv, NEW e \in End, NEW n \in DOMAIN chan[e],
                    chan[e][n].kind \in NeedsResult(e)
             PROVE  result[e].stored
  BY DEF ResultThere
<1>1. chan[e] \in Seq(Sound)
  BY DEF IInv, Queues
<1>2. chan[e][n] \in Sound
  BY <1>1, LenProperties, ElementOfSeq
<1> QED BY <1>2 DEF Sound, NeedsResult, Late

----------------------------------------------------------------------------
(* The steps.                                                              *)

\* What a handler leaves of the queues when its answers are sound.
LEMMA HandlerKeepsQueues ==
    ASSUME Queues, \A d \in End : result[d].stored => result'[d].stored,
           NEW e \in End, chan[e] # <<>>,
           NEW msgs \in Seq(Sound'), Answers(e, msgs)
    PROVE  Queues'
<1>1. Sound \subseteq Sound'
  BY SoundGrows
<1>2. chan \in [End -> Seq(Sound)] /\ out \in [End -> Seq(Sound)]
  BY DEF Queues
<1>3. chan' \in [End -> Seq(Sound')] /\ out' \in [End -> Seq(Sound')]
  BY <1>1, <1>2, AnswersTyped
<1> QED BY <1>3 DEF Queues

\* The common case: no result changes.
LEMMA AnswersKeepQueues ==
    ASSUME Queues, UNCHANGED result, NEW e \in End, chan[e] # <<>>,
           NEW msgs \in Seq(Sound), Answers(e, msgs)
    PROVE  Queues'
<1>1. Sound' = Sound
  BY DEF Sound
<1>2. chan \in [End -> Seq(Sound)] /\ out \in [End -> Seq(Sound)]
  BY DEF Queues
<1>3. chan' \in [End -> Seq(Sound)] /\ out' \in [End -> Seq(Sound)]
  BY <1>2, AnswersTyped
<1> QED BY <1>1, <1>3 DEF Queues

\* What is queued stays sound while the results stay.
LEMMA ResultStays == UNCHANGED result => Sound' = Sound
BY DEF Sound

\* send_message.
LEMMA SendKeeps ==
    ASSUME IInv, NEW e \in End, Send(e)
    PROVE  IInv'
<1>1. Tables'
  BY DEF Send, IInv, Tables, database, asking
<1>2. chan \in [End -> Seq(Sound)] /\ out \in [End -> Seq(Sound)] /\ out[e] # <<>>
  BY DEF Send, IInv, Queues
<1>3. Head(out[e]) \in Sound /\ Tail(out[e]) \in Seq(Sound) /\ Peer(e) \in End
  BY <1>2, HeadTailProperties DEF Peer, End
<1>4. chan' \in [End -> Seq(Sound)]
  BY <1>2, <1>3, AppendTyped DEF Send
<1>5. out' \in [End -> Seq(Sound)]
  BY <1>2, <1>3 DEF Send
<1> QED BY <1>1, <1>4, <1>5, ResultStays DEF Send, IInv, Queues

\* The bound on creations, shares and faults bounds the creations and shares.
LEMMA CountedEvents ==
    ASSUME adds \in Nat, faults \subseteq {"error", "drop"}, MayHappen
    PROVE  adds + 1 \in 0 .. MaxEvents
<1>1. IsFiniteSet({"error"})
  BY FS_Singleton
<1>2. IsFiniteSet({"error"} \cup {"drop"}) /\ {"error"} \cup {"drop"} = {"error", "drop"}
  BY <1>1, FS_AddElement
<1>3. Cardinality(faults) \in Nat
  BY <1>2, FS_Subset, FS_CardinalityType
<1> QED BY <1>3, BoundAssumption DEF MayHappen

\* The creations, the folder shares and the tasks that ask for syncs.
LEMMA UserKeeps == IInv /\ User => IInv'
<1> SUFFICES ASSUME IInv, User PROVE IInv'
  OBVIOUS
<1>1. MayHappen /\ adds' = adds + 1 => adds' \in 0 .. MaxEvents
  BY BoundAssumption, CountedEvents DEF IInv, Tables
<1>2. ASSUME NEW e \in End, NEW x \in Resource, Create(e, x)
      PROVE  Tables' /\ Queues'
  <2>1. held' \in [End -> SUBSET Resource] /\ wanted' \in [End -> Nat]
    BY <1>2 DEF Create, IInv, Tables
  <2> QED BY <1>1, <1>2, <2>1, ResultStays DEF Create, IInv, Tables, Queues
<1>3. ASSUME NEW e \in End, NEW f \in Folder, NEW inside \in SUBSET Resource,
             ShareFolder(e, f, inside)
      PROVE  Tables' /\ Queues'
  <2>1. /\ held' \in [End -> SUBSET Resource] /\ wanted' \in [End -> Nat]
        /\ folders' \in [End -> SUBSET Folder]
    BY <1>3 DEF ShareFolder, IInv, Tables
  <2> QED BY <1>1, <1>3, <2>1, ResultStays DEF ShareFolder, IInv, Tables, Queues
<1> QED BY <1>2, <1>3 DEF User, IInv

LEMMA AskKeeps == IInv /\ Ask => IInv'
<1> SUFFICES ASSUME IInv, Ask PROVE IInv'
  OBVIOUS
<1> USE DEF IInv
<1>1. CASE MakeManifest
  <2>1. made' \in Seq(Request)
    BY <1>1, ManifestTyped DEF MakeManifest, Tables
  <2>2. wanted' \in [End -> Nat]
    BY <1>1 DEF MakeManifest, Tables, End
  <2> QED BY <1>1, <2>1, <2>2, ResultStays DEF MakeManifest, Tables, Queues, database
<1>2. ASSUME NEW n \in DOMAIN made, SendManifest(n) PROVE IInv'
  <2>1. made \in Seq(Request) /\ made[n] \in Request
    BY LenProperties, ElementOfSeq DEF Tables
  <2>2. made' \in Seq(Request)
    BY <1>2, <2>1, RemoveTyped DEF SendManifest
  <2>3. chan' \in [End -> Seq(Sound)]
    BY <1>2, <2>1, RequestSound, AppendTyped DEF SendManifest, Queues, End
  <2> QED BY <1>2, <2>2, <2>3, ResultStays DEF SendManifest, Tables, Queues, database
<1>3. CASE AskForRetry
  <2>1. wanted' \in [End -> Nat]
    BY <1>3 DEF AskForRetry, Tables, End
  <2>2. Msg("retry") \in Sound
    BY PlainSound DEF Plain, Late
  <2>3. chan' \in [End -> Seq(Sound)]
    BY <1>3, <2>2, AppendTyped DEF AskForRetry, Queues, End
  <2> QED BY <1>3, <2>1, <2>3, ResultStays DEF AskForRetry, Tables, Queues, database
<1> QED BY <1>1, <1>2, <1>3 DEF Ask

\* The manifest exchange: the responder's result is stored before the
\* response is sent, the initiator's before the acknowledgment.
LEMMA ManifestsKeep == IInv /\ (TakeRetry \/ TakeRequest \/ TakeResponse) => IInv'
<1> SUFFICES ASSUME IInv, TakeRetry \/ TakeRequest \/ TakeResponse PROVE IInv'
  OBVIOUS
<1> "i" \in End /\ "r" \in End
  BY DEF End
<1> USE DEF IInv
<1>1. CASE TakeRetry
  <2>1. chan["i"] # <<>>
    BY <1>1 DEF TakeRetry, Takes
  <2>2. <<Manifest>> \in Seq(Sound)
    BY ManifestTyped, RequestSound
  <2>3. Queues'
    BY <1>1, <2>1, <2>2, AnswersKeepQueues DEF TakeRetry
  <2> QED BY <1>1, <2>3 DEF TakeRetry, Tables, database, asking
<1>2. CASE TakeRequest
  <2> DEFINE theirs == Head(chan["r"])
  <2>1. chan["r"] # <<>> /\ theirs \in Message /\ theirs.kind = "request"
    BY <1>2, Taken DEF TakeRequest
  <2>2. theirs \in Request
    BY <2>1 DEF Message, Request, Plain, About
  <2>3. PICK merged \in SUBSET Merged(theirs) :
            /\ result' = [result EXCEPT !["r"] = Compare(theirs, merged)]
            /\ Answers("r", Response(Compare(theirs, merged)))
    BY <1>2 DEF TakeRequest
  <2>4. Compare(theirs, merged) \in Result /\ Compare(theirs, merged).stored
    BY <2>2 DEF Compare, Result, Request, Tables
  <2>5. result' \in [End -> Result] /\ result'["r"].stored
        /\ \A d \in End : result[d].stored => result'[d].stored
    BY <2>3, <2>4 DEF Tables
  <2>6. [kind |-> "response", result |-> Compare(theirs, merged)] \in Sound'
    BY <2>4, <2>5 DEF Sound, Message, Late
  <2>7. Response(Compare(theirs, merged)) \in Seq(Sound')
    BY <2>6 DEF Response
  <2>8. Queues'
    BY <2>1, <2>3, <2>5, <2>7, HandlerKeepsQueues
  <2> QED BY <1>2, <2>5, <2>8 DEF TakeRequest, Tables, database, asking
<1>3. CASE TakeResponse
  <2> DEFINE m == Head(chan["i"])
  <2>1. chan["i"] # <<>> /\ m \in Sound /\ m \in Message /\ m.kind = "response"
    BY <1>3, Taken DEF TakeResponse
  <2>2. m.result \in Result /\ m.result.stored /\ result["r"].stored
    BY <2>1 DEF Sound, Message, Request, Plain, About
  <2>3. InverseResult(m.result) \in Result /\ InverseResult(m.result).stored
    BY <2>2 DEF InverseResult, Result
  <2>4. /\ result' \in [End -> Result]
        /\ \A d \in End : result'[d].stored
    BY <1>3, <2>2, <2>3 DEF TakeResponse, Tables, End
  <2>5. Msg("ack") \in Sound'
    BY <2>4 DEF Sound, Msg, Message, Plain
  <2>6. <<Msg("ack")>> \in Seq(Sound') /\ Answers("i", <<Msg("ack")>>)
    BY <1>3, <2>5 DEF TakeResponse
  <2>7. Queues'
    BY <2>1, <2>4, <2>6, HandlerKeepsQueues
  <2> QED BY <1>3, <2>4, <2>7 DEF TakeResponse, Tables, database, asking
<1> QED BY <1>1, <1>2, <1>3

\* The network and the folders.
LEMMA NetworkKeeps ==
    ASSUME IInv, NEW e \in End, TakeNetwork(e) \/ TakeNetworkAck(e) \/ TakeFolders(e)
    PROVE  IInv'
<1> USE DEF IInv
<1>1. UnknownFolders(e) \in Message /\ UnknownFolders(e).kind = "folders"
  BY DEF UnknownFolders, Message, Tables, Result
<1>2. (\A d \in End : result[d].stored) => UnknownFolders(e) \in Sound
  BY <1>1 DEF Sound
<1>3. (\A d \in End : result[d].stored) =>
          Msg("network") \in Sound /\ Msg("networkAck") \in Sound /\ Msg("recipients") \in Sound
  BY PlainSound DEF Plain
<1>4. CASE TakeNetwork(e)
  <2>1. chan[e] # <<>> /\ \A d \in End : result[d].stored
    BY <1>4, Taken DEF TakeNetwork, Late
  <2>2. NetworkAnswer(e) \in Seq(Sound)
    BY <1>3, <2>1 DEF NetworkAnswer
  <2>3. Queues'
    BY <1>4, <2>1, <2>2, AnswersKeepQueues DEF TakeNetwork
  <2> QED BY <1>4, <2>3 DEF TakeNetwork, Tables, database, asking
<1>5. CASE TakeNetworkAck(e)
  <2>1. chan[e] # <<>> /\ \A d \in End : result[d].stored
    BY <1>5, Taken DEF TakeNetworkAck, Late
  <2>2. <<UnknownFolders(e)>> \in Seq(Sound)
    BY <1>2, <2>1
  <2>3. Queues'
    BY <1>5, <2>1, <2>2, AnswersKeepQueues DEF TakeNetworkAck
  <2> QED BY <1>5, <2>3 DEF TakeNetworkAck, Tables, database, asking
<1>6. CASE TakeFolders(e)
  <2> DEFINE answer == IF e = "r" THEN UnknownFolders(e) ELSE Msg("recipients")
  <2>1. /\ chan[e] # <<>> /\ \A d \in End : result[d].stored
        /\ Head(chan[e]) \in Message /\ Head(chan[e]).kind = "folders"
    BY <1>6, Taken DEF TakeFolders, Late
  <2>2. Head(chan[e]).folders \in SUBSET Folder
    BY <2>1 DEF Message, Request, Plain, About
  <2>3. folders' \in [End -> SUBSET Folder]
    BY <1>6, <2>2 DEF TakeFolders, Tables
  <2>4. <<answer>> \in Seq(Sound)
    BY <1>2, <1>3, <2>1
  <2>5. Queues'
    BY <1>6, <2>1, <2>4, AnswersKeepQueues DEF TakeFolders
  <2> QED BY <1>6, <2>3, <2>5 DEF TakeFolders, Tables, asking
<1> QED BY <1>4, <1>5, <1>6

\* The acknowledgment of the response.
LEMMA AckKeeps == IInv /\ TakeAck => IInv'
<1> SUFFICES ASSUME IInv, TakeAck PROVE IInv'
  OBVIOUS
<1>1. chan["r"] # <<>> /\ \A d \in End : result[d].stored
  BY Taken DEF IInv, TakeAck, Late, End
<1>2. <<Msg("network")>> \in Seq(Sound)
  BY <1>1, PlainSound DEF Plain
<1>3. Queues'
  BY <1>1, <1>2, AnswersKeepQueues DEF IInv, TakeAck, End
<1> QED BY <1>3 DEF IInv, TakeAck, Tables, database, asking

\* send_resources.
LEMMA ResourcesSound ==
    ASSUME Tables, NEW e \in End, \A d \in End : result[d].stored,
           NEW msgs \in Resources(e)
    PROVE  msgs \in Seq(Sound)
<1>1. result[e].peerMissing \in SUBSET Resource
  BY DEF Tables, Result
<1>2. CASE result[e].peerMissing = {}
  <2>1. Msg("complete") \in Sound
    BY PlainSound DEF Plain
  <2>2. msgs = <<Msg("complete")>>
    BY <1>2 DEF Resources
  <2>3. <<Msg("complete")>> \in Seq(Sound)
    BY <2>1
  <2> QED BY <2>2, <2>3
<1>3. CASE result[e].peerMissing # {}
  <2>1. \A x \in result[e].peerMissing : MsgOf("add", x) \in Sound
    BY <1>1, AboutSound DEF About
  <2>2. msgs \in OneEach("add", result[e].peerMissing)
    BY <1>3 DEF Resources
  <2> QED BY <1>1, <2>1, <2>2, OneEachIsSeq
<1> QED BY <1>2, <1>3

\* The recipients and what is handed over after them.
LEMMA RecipientsKeep ==
    ASSUME IInv, NEW e \in End, TakeRecipients(e)
    PROVE  IInv'
<1>1. chan[e] # <<>> /\ \A d \in End : result[d].stored
  BY Taken DEF IInv, TakeRecipients, Late
<1>2. PICK msgs \in RecipientAnswers(e) : Answers(e, msgs)
  BY DEF TakeRecipients
<1>3. msgs \in Seq(Sound)
  <2>1. \A q \in Resources(e) : q \in Seq(Sound)
    BY <1>1, ResourcesSound DEF IInv
  <2>2. <<Msg("recipients")>> \in Seq(Sound)
    BY <1>1, PlainSound DEF Plain
  <2>3. CASE e = "r"
    <3>1. PICK q \in Resources(e) : msgs = <<Msg("recipients")>> \o q
      BY <1>2, <2>3 DEF RecipientAnswers
    <3> QED BY <2>1, <2>2, <3>1, ConcatProperties
  <2>4. CASE e # "r"
    BY <1>2, <2>1, <2>4 DEF RecipientAnswers
  <2> QED BY <2>3, <2>4
<1>4. Queues'
  BY <1>1, <1>2, <1>3, AnswersKeepQueues DEF IInv, TakeRecipients
<1> QED BY <1>4 DEF IInv, TakeRecipients, Tables, database, asking

\* The resources and the merges.
LEMMA AddKeeps ==
    ASSUME IInv, NEW e \in End, TakeAdd(e)
    PROVE  IInv'
<1> DEFINE x == Head(chan[e]).resource
           left == result[e].missing \ {x}
           answer == IF left = {} THEN <<Msg("complete")>> ELSE <<>>
<1>1. /\ chan[e] # <<>> /\ \A d \in End : result[d].stored
      /\ Head(chan[e]) \in Message /\ Head(chan[e]).kind = "add"
  BY Taken DEF IInv, TakeAdd, Late
<1>2. x \in Resource
  BY <1>1 DEF Message, Request, Plain, About
<1>3. held' \in [End -> SUBSET Resource] /\ misplaced' \in [End -> SUBSET Resource]
  BY <1>2 DEF IInv, Tables, TakeAdd
<1>4. /\ result' = [result EXCEPT ![e].missing = left] /\ left \in SUBSET Resource
      /\ Answers(e, answer)
  BY DEF IInv, Tables, TakeAdd, Result
<1>5. result' \in [End -> Result] /\ \A d \in End : result'[d].stored
  <2> HIDE DEF left
  <2>1. result \in [End -> Result] /\ result[e] \in Result /\ result[e].stored
    BY <1>1 DEF IInv, Tables
  <2>2. [result[e] EXCEPT !.missing = left] \in Result
        /\ [result[e] EXCEPT !.missing = left].stored
    BY <1>4, <2>1 DEF Result
  <2> QED BY <1>1, <1>4, <2>1, <2>2
<1>6. Msg("complete") \in Sound'
  BY <1>5 DEF Sound, Msg, Message, Plain
<1>7. answer \in Seq(Sound')
  BY <1>6, EmptySeq
<1>8. Queues'
  BY <1>1, <1>4, <1>5, <1>7, HandlerKeepsQueues DEF IInv
<1> QED BY <1>3, <1>5, <1>8 DEF IInv, Tables, TakeAdd, asking

LEMMA CompleteKeeps ==
    ASSUME IInv, NEW e \in End, TakeComplete(e)
    PROVE  IInv'
<1>1. chan[e] # <<>>
  BY DEF TakeComplete, Takes
<1>2. PICK msgs \in MergeRequests(e) : Answers(e, msgs)
  BY DEF TakeComplete
<1>3. msgs \in Seq(Sound)
  <2>1. result[e].differ \in SUBSET Resource
    BY DEF IInv, Tables, Result
  <2>2. \A x \in result[e].differ : MsgOf("svRequest", x) \in Sound
    BY <2>1, AboutSound DEF About, Late
  <2>3. CASE e = "i"
    <3>1. msgs \in OneEach("svRequest", result[e].differ)
      BY <1>2, <2>3 DEF MergeRequests
    <3> QED BY <2>1, <2>2, <3>1, OneEachIsSeq
  <2>4. CASE e # "i"
    BY <1>2, <2>4, EmptySeq DEF MergeRequests
  <2> QED BY <2>3, <2>4
<1>4. Queues'
  BY <1>1, <1>2, <1>3, AnswersKeepQueues DEF IInv, TakeComplete
<1> QED BY <1>4 DEF IInv, TakeComplete, Tables, database, asking

LEMMA MergeStepKeeps ==
    ASSUME IInv, NEW e \in End, NEW kind \in About, NEW next \in About \ {"add"},
           MergeStep(e, kind, next)
    PROVE  IInv'
<1>1. /\ chan[e] # <<>> /\ Head(chan[e]) \in Message /\ Head(chan[e]).kind = kind
  BY Taken DEF IInv, MergeStep
<1>2. Head(chan[e]).resource \in Resource
  BY <1>1 DEF Message, Request, Plain, About
<1>3. MsgOf(next, Head(chan[e]).resource) \in Sound
  BY <1>2, AboutSound DEF About, Late
<1>4. <<MsgOf(next, Head(chan[e]).resource)>> \in Seq(Sound)
  BY <1>3
<1>5. Queues'
  BY <1>1, <1>4, AnswersKeepQueues DEF IInv, MergeStep
<1> QED BY <1>5 DEF IInv, MergeStep, Tables, database, asking

LEMMA ClocksKeep == IInv /\ TakeClocks => IInv'
<1> SUFFICES ASSUME IInv, TakeClocks PROVE IInv'
  OBVIOUS
<1>1. chan["i"] # <<>>
  BY DEF TakeClocks, Takes
<1>2. Queues'
  BY <1>1, EmptySeq, AnswersKeepQueues DEF IInv, TakeClocks, End
<1> QED BY <1>2 DEF IInv, TakeClocks, Tables, asking

\* The faults.
LEMMA FaultsKeep ==
    IInv /\ (Reconnect \/ \E e \in End : HandlerFails(e) \/ AskFails(e)) => IInv'
<1> SUFFICES ASSUME IInv, Reconnect \/ \E e \in End : HandlerFails(e) \/ AskFails(e)
             PROVE  IInv'
  OBVIOUS
<1> USE DEF IInv
<1>1. \A kind \in {"error", "drop"} : faults' = faults \cup {kind} => faults' \subseteq {"error", "drop"}
  BY DEF Tables
<1>2. CASE Reconnect
  <2>1. <<>> \in Seq(Request) /\ <<>> \in Seq(Sound')
    BY EmptySeq
  <2>2. NoResult \in Result
    BY DEF NoResult, Result
  <2>3. wanted' \in [End -> Nat]
    BY <1>2 DEF Reconnect, Tables, End
  <2>4. Queues'
    BY <1>2, <2>1 DEF Reconnect, Queues
  <2> QED BY <1>1, <1>2, <2>1, <2>2, <2>3, <2>4 DEF Reconnect, Fault, Tables, database
<1>3. ASSUME NEW e \in End, HandlerFails(e) PROVE IInv'
  <2>1. Queues'
    <3>1. CASE out[e] = <<>>
      BY <1>3, <3>1, EmptySeq, AnswersKeepQueues DEF HandlerFails
    <3>2. CASE out[e] # <<>>
      <4>1. out' = [out EXCEPT ![e] = <<>>] /\ UNCHANGED <<chan, result>>
        BY <1>3, <3>2 DEF HandlerFails
      <4>2. out' \in [End -> Seq(Sound)]
        BY <4>1, EmptySeq DEF Queues
      <4> QED BY <4>1, <4>2, ResultStays DEF Queues
    <3> QED BY <3>1, <3>2
  <2> QED BY <1>1, <1>3, <2>1 DEF HandlerFails, Fault, Tables, database, asking
<1>4. ASSUME NEW e \in End, AskFails(e) PROVE IInv'
  <2>1. wanted' \in [End -> Nat]
    BY <1>4 DEF AskFails, Tables
  <2> QED BY <1>1, <1>4, <2>1, ResultStays DEF AskFails, Fault, Tables, Queues, database
<1> QED BY <1>2, <1>3, <1>4

----------------------------------------------------------------------------
(* The theorems on types and results.                                      *)

\* Every step of a handler keeps the invariant.
LEMMA HandleKeeps ==
    ASSUME IInv, NEW e \in End, Handle(e)
    PROVE  IInv'
BY SendKeeps, NetworkKeeps, RecipientsKeep, AddKeeps, CompleteKeeps DEF Handle

LEMMA StepIInv == IInv /\ [Next]_vars => IInv'
<1> SUFFICES ASSUME IInv, [Next]_vars PROVE IInv'
  OBVIOUS
<1> "i" \in End /\ "r" \in End
  BY DEF End
<1>1. CASE HandleInitiator
  <2>1. CASE MergeStep("i", "updates", "final")
    BY <2>1, MergeStepKeeps DEF About
  <2> QED BY <1>1, <2>1, HandleKeeps, ManifestsKeep, ClocksKeep DEF HandleInitiator
<1>2. CASE HandleResponder
  <2>1. CASE MergeStep("r", "svRequest", "updates")
    BY <2>1, MergeStepKeeps DEF About
  <2>2. CASE MergeStep("r", "final", "clocks")
    BY <2>2, MergeStepKeeps DEF About
  <2> QED BY <1>2, <2>1, <2>2, HandleKeeps, ManifestsKeep, AckKeeps DEF HandleResponder
<1>3. CASE UNCHANGED vars
  BY <1>3, ResultStays DEF vars, IInv, Tables, Queues
<1> QED BY <1>1, <1>2, <1>3, AskKeeps, UserKeeps, FaultsKeep DEF Next

\* The invariant holds throughout.
LEMMA Always == Spec => []IInv
BY InitIInv, StepIInv, PTL DEF Spec

\* The databases, the results and every message on its way keep their types.
THEOREM TypeCorrect == Spec => []TypeOK
BY Always, IInvTyped, PTL

\* However the syncs of a connection overlap and whatever fails or is lost,
\* no handler returns SyncError::ManifestNotFound.
THEOREM ResultAlwaysThere == Spec => []ResultThere
BY Always, IInvResultThere, PTL
----------------------------------------------------------------------------
(* What is on its way to an end, in the order in which it arrives.         *)

Way(e) == chan[e] \o out[Peer(e)]

OnWay(e) == {Way(e)[n] : n \in DOMAIN Way(e)}

Kinds(e) == {m.kind : m \in OnWay(e)}

\* Whatever is of the one kind has something of the other kind ahead of it.
Led(q, kind, lead) ==
    \A n \in DOMAIN q : q[n].kind = kind => \E k \in 1 .. n - 1 : q[k].kind = lead

LEMMA LedHead ==
    ASSUME NEW S, NEW q \in Seq(S), q # <<>>, NEW kind, NEW lead, Led(q, kind, lead)
    PROVE  Head(q).kind # kind
<1>1. 1 \in DOMAIN q /\ Head(q) = q[1] /\ 1 .. 1 - 1 = {}
  BY EmptySeq, LenProperties
<1> QED BY <1>1 DEF Led

LEMMA LedTail ==
    ASSUME NEW S, NEW q \in Seq(S), q # <<>>, NEW kind, NEW lead, Led(q, kind, lead),
           Head(q).kind # lead
    PROVE  Led(Tail(q), kind, lead)
<1>1. /\ Len(q) \in Nat /\ DOMAIN q = 1 .. Len(q) /\ Head(q) = q[1]
      /\ Len(Tail(q)) = Len(q) - 1 /\ DOMAIN Tail(q) = 1 .. Len(q) - 1
      /\ \A n \in 1 .. Len(q) - 1 : Tail(q)[n] = q[n + 1]
  BY LenProperties, HeadTailProperties
<1> SUFFICES ASSUME NEW n \in 1 .. Len(q) - 1, q[n + 1].kind = kind
             PROVE  \E k \in 1 .. n - 1 : Tail(q)[k].kind = lead
  BY <1>1 DEF Led
<1>2. n + 1 \in DOMAIN q /\ n + 1 - 1 = n
  BY <1>1
<1>3. PICK k \in 1 .. n : q[k].kind = lead
  BY <1>2 DEF Led
<1>4. k # 1
  BY <1>1, <1>3
<1>5. k - 1 \in 1 .. n - 1 /\ k - 1 \in 1 .. Len(q) - 1 /\ k - 1 + 1 = k
  BY <1>1, <1>4
<1> QED BY <1>1, <1>3, <1>5

LEMMA LedAppend ==
    ASSUME NEW S, NEW q \in Seq(S), NEW msgs \in Seq(S), NEW kind, NEW lead,
           Led(q, kind, lead),
           (\E n \in DOMAIN q : q[n].kind = lead) \/ Led(msgs, kind, lead)
    PROVE  Led(q \o msgs, kind, lead)
<1>1. /\ Len(q) \in Nat /\ DOMAIN q = 1 .. Len(q)
      /\ Len(msgs) \in Nat /\ DOMAIN msgs = 1 .. Len(msgs)
      /\ DOMAIN (q \o msgs) = 1 .. Len(q) + Len(msgs)
      /\ \A n \in 1 .. Len(q) + Len(msgs) :
            (q \o msgs)[n] = IF n <= Len(q) THEN q[n] ELSE msgs[n - Len(q)]
  BY LenProperties, ConcatProperties
<1> SUFFICES ASSUME NEW n \in 1 .. Len(q) + Len(msgs), (q \o msgs)[n].kind = kind
             PROVE  \E k \in 1 .. n - 1 : (q \o msgs)[k].kind = lead
  BY <1>1 DEF Led
<1>2. CASE n <= Len(q)
  <2>1. n \in DOMAIN q /\ q[n].kind = kind
    BY <1>1, <1>2
  <2>2. PICK k \in 1 .. n - 1 : q[k].kind = lead
    BY <2>1 DEF Led
  <2>3. (q \o msgs)[k] = q[k]
    BY <1>1, <1>2
  <2> QED BY <2>2, <2>3
<1>3. CASE Len(q) < n
  <2>1. CASE \E k \in DOMAIN q : q[k].kind = lead
    <3>1. PICK k \in 1 .. Len(q) : q[k].kind = lead
      BY <1>1, <2>1
    <3>2. k \in 1 .. n - 1 /\ (q \o msgs)[k] = q[k]
      BY <1>1, <1>3
    <3> QED BY <3>1, <3>2
  <2>2. CASE Led(msgs, kind, lead)
    <3>1. n - Len(q) \in DOMAIN msgs /\ msgs[n - Len(q)].kind = kind
      BY <1>1, <1>3
    <3>2. PICK k \in 1 .. n - Len(q) - 1 : msgs[k].kind = lead
      BY <2>2, <3>1 DEF Led
    <3>3. /\ k + Len(q) \in 1 .. n - 1 /\ k + Len(q) \in 1 .. Len(q) + Len(msgs)
          /\ ~(k + Len(q) <= Len(q)) /\ k + Len(q) - Len(q) = k
      BY <1>1
    <3>4. (q \o msgs)[k + Len(q)] = msgs[k]
      BY <1>1, <3>3
    <3> QED BY <3>2, <3>3, <3>4
  <2> QED BY <2>1, <2>2
<1> QED BY <1>1, <1>2, <1>3

\* A message that joins the queue ahead of what a handler has yet to send.
LEMMA Joined ==
    ASSUME NEW S, NEW q \in Seq(S), NEW p \in Seq(S), NEW m \in S
    PROVE  /\ Append(q, m) \o p \in Seq(S) /\ q \o p \in Seq(S)
           /\ DOMAIN (q \o p) = 1 .. Len(q) + Len(p)
           /\ DOMAIN (Append(q, m) \o p) = 1 .. Len(q) + Len(p) + 1
           /\ \A n \in 1 .. Len(q) + Len(p) + 1 :
                 (Append(q, m) \o p)[n] =
                     IF n <= Len(q) THEN (q \o p)[n]
                     ELSE IF n = Len(q) + 1 THEN m ELSE (q \o p)[n - 1]
<1>1. /\ Append(q, m) \in Seq(S) /\ Len(Append(q, m)) = Len(q) + 1
      /\ Len(q) \in Nat /\ Len(p) \in Nat
      /\ \A n \in 1 .. Len(q) + 1 : Append(q, m)[n] = IF n <= Len(q) THEN q[n] ELSE m
  BY LenProperties
<1>2. /\ q \o p \in Seq(S) /\ Append(q, m) \o p \in Seq(S)
      /\ Len(q \o p) = Len(q) + Len(p) /\ Len(Append(q, m) \o p) = Len(q) + 1 + Len(p)
      /\ \A n \in 1 .. Len(q) + Len(p) : (q \o p)[n] = IF n <= Len(q) THEN q[n] ELSE p[n - Len(q)]
      /\ \A n \in 1 .. Len(q) + 1 + Len(p) :
            (Append(q, m) \o p)[n] = IF n <= Len(q) + 1 THEN Append(q, m)[n] ELSE p[n - (Len(q) + 1)]
  BY <1>1, ConcatProperties
<1>3. /\ DOMAIN (q \o p) = 1 .. Len(q) + Len(p)
      /\ DOMAIN (Append(q, m) \o p) = 1 .. Len(q) + 1 + Len(p)
  BY <1>2, LenProperties
<1>4. ASSUME NEW n \in 1 .. Len(q) + Len(p) + 1
      PROVE  (Append(q, m) \o p)[n] =
                 IF n <= Len(q) THEN (q \o p)[n]
                 ELSE IF n = Len(q) + 1 THEN m ELSE (q \o p)[n - 1]
  <2>1. n \in 1 .. Len(q) + 1 + Len(p)
    BY <1>1
  <2>2. CASE n <= Len(q)
    <3>1. n \in 1 .. Len(q) + 1 /\ n \in 1 .. Len(q) + Len(p) /\ n <= Len(q) + 1
      BY <1>1, <2>2
    <3> QED BY <1>1, <1>2, <2>1, <2>2, <3>1
  <2>3. CASE n = Len(q) + 1
    BY <1>1, <1>2, <2>1, <2>3
  <2>4. CASE Len(q) + 1 < n
    <3>1. /\ ~(n <= Len(q)) /\ ~(n <= Len(q) + 1) /\ n # Len(q) + 1
          /\ n - 1 \in 1 .. Len(q) + Len(p) /\ ~(n - 1 <= Len(q)) /\ n - 1 - Len(q) = n - (Len(q) + 1)
      BY <1>1, <2>4
    <3> QED BY <1>2, <2>1, <3>1
  <2> QED BY <1>1, <2>2, <2>3, <2>4
<1> QED BY <1>1, <1>2, <1>3, <1>4

LEMMA LedJoined ==
    ASSUME NEW S, NEW q \in Seq(S), NEW p \in Seq(S), NEW m \in S, NEW kind, NEW lead,
           Led(q \o p, kind, lead), m.kind # kind
    PROVE  Led(Append(q, m) \o p, kind, lead)
<1> DEFINE r == Append(q, m) \o p
           s == q \o p
<1>1. /\ Len(q) \in Nat /\ Len(p) \in Nat
      /\ DOMAIN s = 1 .. Len(q) + Len(p) /\ DOMAIN r = 1 .. Len(q) + Len(p) + 1
      /\ \A n \in 1 .. Len(q) + Len(p) + 1 :
            r[n] = IF n <= Len(q) THEN s[n] ELSE IF n = Len(q) + 1 THEN m ELSE s[n - 1]
  BY LenProperties, Joined
<1>2. Led(s, kind, lead)
  OBVIOUS
<1> HIDE DEF r, s
<1>3. Led(r, kind, lead)
  <2> SUFFICES ASSUME NEW n \in 1 .. Len(q) + Len(p) + 1, r[n].kind = kind
               PROVE  \E k \in 1 .. n - 1 : r[k].kind = lead
    BY <1>1 DEF Led
  <2>1. CASE n <= Len(q)
    <3>1. n \in DOMAIN s /\ s[n].kind = kind
      BY <1>1, <2>1
    <3>2. PICK k \in 1 .. n - 1 : s[k].kind = lead
      BY <1>2, <3>1 DEF Led
    <3>3. r[k] = s[k]
      BY <1>1, <2>1
    <3> QED BY <3>2, <3>3
  <2>2. CASE Len(q) + 1 < n
    <3>1. /\ n - 1 \in 1 .. Len(q) + Len(p) /\ ~(n <= Len(q)) /\ n # Len(q) + 1
      BY <1>1, <2>2
    <3>2. n - 1 \in DOMAIN s /\ s[n - 1].kind = kind
      BY <1>1, <3>1
    <3>3. PICK k \in 1 .. n - 1 - 1 : s[k].kind = lead
      BY <1>2, <3>2 DEF Led
    <3>4. CASE k <= Len(q)
      <4>1. k \in 1 .. n - 1 /\ r[k] = s[k]
        BY <1>1, <3>4
      <4> QED BY <3>3, <4>1
    <3>5. CASE Len(q) < k
      <4>1. /\ k + 1 \in 1 .. n - 1 /\ k + 1 \in 1 .. Len(q) + Len(p) + 1
            /\ ~(k + 1 <= Len(q)) /\ k + 1 # Len(q) + 1 /\ k + 1 - 1 = k
        BY <1>1, <3>5
      <4>2. r[k + 1] = s[k]
        BY <1>1, <4>1
      <4> QED BY <3>3, <4>1, <4>2
    <3> QED BY <1>1, <3>4, <3>5
  <2>3. n # Len(q) + 1
    <3>1. Len(q) + 1 \in 1 .. Len(q) + Len(p) + 1 /\ ~(Len(q) + 1 <= Len(q))
      BY <1>1
    <3> QED BY <1>1, <3>1
  <2> QED BY <1>1, <2>1, <2>2, <2>3
<1> QED BY <1>3 DEF r

\* Nothing of the one set has something of the other behind it.
Never(q, ahead, behind) ==
    \A k \in DOMAIN q : \A j \in 1 .. k - 1 : ~(q[j] \in ahead /\ q[k] \in behind)

LEMMA NeverTail ==
    ASSUME NEW S, NEW q \in Seq(S), q # <<>>, NEW A, NEW Z, Never(q, A, Z)
    PROVE  /\ Never(Tail(q), A, Z)
           /\ Head(q) \in A => \A n \in DOMAIN Tail(q) : Tail(q)[n] \notin Z
<1>1. /\ Len(q) \in Nat /\ DOMAIN q = 1 .. Len(q) /\ Head(q) = q[1]
      /\ DOMAIN Tail(q) = 1 .. Len(q) - 1
      /\ \A n \in 1 .. Len(q) - 1 : Tail(q)[n] = q[n + 1]
  BY LenProperties, HeadTailProperties
<1>2. ASSUME NEW k \in 1 .. Len(q) - 1, NEW j \in 1 .. k - 1
      PROVE  ~(Tail(q)[j] \in A /\ Tail(q)[k] \in Z)
  <2>1. k + 1 \in DOMAIN q /\ j + 1 \in 1 .. k + 1 - 1 /\ j \in 1 .. Len(q) - 1
    BY <1>1
  <2>2. ~(q[j + 1] \in A /\ q[k + 1] \in Z)
    BY <2>1 DEF Never
  <2> QED BY <1>1, <2>1, <2>2
<1>3. ASSUME NEW n \in 1 .. Len(q) - 1, Head(q) \in A
      PROVE  Tail(q)[n] \notin Z
  <2>1. n + 1 \in DOMAIN q /\ 1 \in 1 .. n + 1 - 1
    BY <1>1
  <2>2. ~(q[1] \in A /\ q[n + 1] \in Z)
    BY <2>1 DEF Never
  <2> QED BY <1>1, <1>3, <2>2
<1> QED BY <1>1, <1>2, <1>3 DEF Never

LEMMA NeverAppend ==
    ASSUME NEW S, NEW q \in Seq(S), NEW msgs \in Seq(S), NEW A, NEW Z,
           Never(q, A, Z), Never(msgs, A, Z),
           (\E n \in DOMAIN q : q[n] \in A) => \A n \in DOMAIN msgs : msgs[n] \notin Z
    PROVE  Never(q \o msgs, A, Z)
<1>1. /\ Len(q) \in Nat /\ DOMAIN q = 1 .. Len(q)
      /\ Len(msgs) \in Nat /\ DOMAIN msgs = 1 .. Len(msgs)
      /\ DOMAIN (q \o msgs) = 1 .. Len(q) + Len(msgs)
      /\ \A n \in 1 .. Len(q) + Len(msgs) :
            (q \o msgs)[n] = IF n <= Len(q) THEN q[n] ELSE msgs[n - Len(q)]
  BY LenProperties, ConcatProperties
<1> SUFFICES ASSUME NEW k \in 1 .. Len(q) + Len(msgs), NEW j \in 1 .. k - 1,
                    (q \o msgs)[j] \in A, (q \o msgs)[k] \in Z
             PROVE  FALSE
  BY <1>1 DEF Never
<1>2. CASE k <= Len(q)
  <2>1. k \in DOMAIN q /\ j \in 1 .. Len(q) + Len(msgs) /\ j <= Len(q)
    BY <1>1, <1>2
  <2> QED BY <1>1, <1>2, <2>1 DEF Never
<1>3. CASE Len(q) < k
  <2>1. /\ k - Len(q) \in DOMAIN msgs /\ ~(k <= Len(q))
        /\ j \in 1 .. Len(q) + Len(msgs)
    BY <1>1, <1>3
  <2>2. msgs[k - Len(q)] \in Z
    BY <1>1, <2>1
  <2>3. CASE j <= Len(q)
    <3>1. j \in DOMAIN q /\ q[j] \in A
      BY <1>1, <2>1, <2>3
    <3> QED BY <2>1, <2>2, <3>1
  <2>4. CASE Len(q) < j
    <3>1. /\ j - Len(q) \in 1 .. k - Len(q) - 1 /\ ~(j <= Len(q))
      BY <1>1, <2>4
    <3>2. msgs[j - Len(q)] \in A
      BY <1>1, <2>1, <3>1
    <3> QED BY <2>1, <2>2, <3>1, <3>2 DEF Never
  <2> QED BY <1>1, <2>1, <2>3, <2>4
<1> QED BY <1>1, <1>2, <1>3

LEMMA NeverJoined ==
    ASSUME NEW S, NEW q \in Seq(S), NEW p \in Seq(S), NEW m \in S, NEW A, NEW Z,
           Never(q \o p, A, Z),
           m \in Z => \A n \in DOMAIN (q \o p) : (q \o p)[n] \notin A,
           m \in A => \A n \in DOMAIN p : p[n] \notin Z
    PROVE  Never(Append(q, m) \o p, A, Z)
<1> DEFINE r == Append(q, m) \o p
           s == q \o p
<1>1. /\ Len(q) \in Nat /\ Len(p) \in Nat /\ DOMAIN p = 1 .. Len(p)
      /\ DOMAIN s = 1 .. Len(q) + Len(p) /\ DOMAIN r = 1 .. Len(q) + Len(p) + 1
      /\ \A n \in 1 .. Len(q) + Len(p) + 1 :
            r[n] = IF n <= Len(q) THEN s[n] ELSE IF n = Len(q) + 1 THEN m ELSE s[n - 1]
  BY LenProperties, Joined
<1>2. \A n \in 1 .. Len(q) + Len(p) : ~(n <= Len(q)) => s[n] = p[n - Len(q)]
  BY ConcatProperties
<1>3. Never(s, A, Z) /\ (m \in Z => \A n \in DOMAIN s : s[n] \notin A)
  OBVIOUS
<1> HIDE DEF r, s
<1>4. Never(r, A, Z)
  <2> SUFFICES ASSUME NEW k \in 1 .. Len(q) + Len(p) + 1, NEW j \in 1 .. k - 1,
                      r[j] \in A, r[k] \in Z
               PROVE  FALSE
    BY <1>1 DEF Never
  <2>1. j \in 1 .. Len(q) + Len(p) + 1
    BY <1>1
  <2>2. CASE j = Len(q) + 1
    <3>1. /\ ~(j <= Len(q)) /\ ~(k <= Len(q)) /\ k # Len(q) + 1
          /\ k - 1 \in 1 .. Len(q) + Len(p) /\ ~(k - 1 <= Len(q))
          /\ k - 1 - Len(q) \in 1 .. Len(p)
      BY <1>1, <2>2
    <3>2. m \in A /\ s[k - 1] \in Z
      BY <1>1, <2>1, <2>2, <3>1
    <3> QED BY <1>1, <1>2, <3>1, <3>2
  <2>3. CASE k = Len(q) + 1
    <3>1. ~(k <= Len(q)) /\ j <= Len(q) /\ j \in 1 .. Len(q) + Len(p)
      BY <1>1, <2>3
    <3>2. m \in Z /\ s[j] \in A
      BY <1>1, <2>1, <2>3, <3>1
    <3> QED BY <1>1, <1>3, <3>1, <3>2
  <2>4. CASE j # Len(q) + 1 /\ k # Len(q) + 1
    <3> DEFINE back(n) == IF n <= Len(q) THEN n ELSE n - 1
    <3>1. /\ back(k) \in 1 .. Len(q) + Len(p) /\ back(j) \in 1 .. back(k) - 1
      BY <1>1, <2>1, <2>4
    <3>2. r[k] = s[back(k)] /\ r[j] = s[back(j)]
      BY <1>1, <2>1, <2>4
    <3> HIDE DEF back
    <3> QED BY <1>1, <1>3, <3>1, <3>2 DEF Never
  <2> QED BY <2>2, <2>3, <2>4
<1> QED BY <1>4 DEF r

LEMMA Peers ==
    ASSUME NEW e \in End
    PROVE  Peer(e) \in End /\ Peer(Peer(e)) = e /\ Peer(e) # e /\ \A d \in End : d = e \/ d = Peer(e)
BY DEF End, Peer

LEMMA WayTyped ==
    ASSUME TypeOK, NEW e \in End
    PROVE  /\ chan[e] \in Seq(Message) /\ out[e] \in Seq(Message)
           /\ Way(e) \in Seq(Message) /\ OnWay(e) \subseteq Message
<1>1. chan[e] \in Seq(Message) /\ out[e] \in Seq(Message) /\ out[Peer(e)] \in Seq(Message)
  BY Peers DEF TypeOK
<1>2. Way(e) \in Seq(Message)
  BY <1>1, ConcatProperties DEF Way
<1> QED BY <1>1, <1>2, LenProperties, ElementOfSeq DEF OnWay

LEMMA TailOfWay ==
    ASSUME NEW S, NEW q \in Seq(S), NEW p \in Seq(S), q # <<>>
    PROVE  q \o p # <<>> /\ Head(q \o p) = Head(q) /\ Tail(q \o p) = Tail(q) \o p
<1> DEFINE t == Tail(q \o p)
           u == Tail(q) \o p
<1>1. /\ Len(q) \in Nat /\ Len(p) \in Nat /\ 1 <= Len(q)
      /\ Tail(q) \in Seq(S) /\ Len(Tail(q)) = Len(q) - 1
      /\ \A n \in 1 .. Len(q) - 1 : Tail(q)[n] = q[n + 1]
  BY EmptySeq, LenProperties, HeadTailProperties
<1>2. /\ q \o p \in Seq(S) /\ Len(q \o p) = Len(q) + Len(p)
      /\ \A n \in 1 .. Len(q) + Len(p) : (q \o p)[n] = IF n <= Len(q) THEN q[n] ELSE p[n - Len(q)]
  BY <1>1, ConcatProperties
<1>3. q \o p # <<>>
  <2>1. Len(q \o p) # 0
    BY <1>1, <1>2
  <2> QED BY <2>1, EmptySeq
<1>4. Head(q \o p) = Head(q)
  <2>1. 1 \in 1 .. Len(q) + Len(p) /\ 1 <= Len(q)
    BY <1>1
  <2>2. Head(q \o p) = (q \o p)[1] /\ Head(q) = q[1]
    BY <1>3
  <2> QED BY <1>2, <2>1, <2>2
<1>5. /\ t \in Seq(S) /\ Len(t) = Len(q) + Len(p) - 1
      /\ \A n \in 1 .. Len(q) + Len(p) - 1 : t[n] = (q \o p)[n + 1]
  BY <1>2, <1>3, HeadTailProperties
<1>6. /\ u \in Seq(S) /\ Len(u) = Len(q) - 1 + Len(p)
      /\ \A n \in 1 .. Len(q) - 1 + Len(p) :
            u[n] = IF n <= Len(q) - 1 THEN Tail(q)[n] ELSE p[n - (Len(q) - 1)]
  BY <1>1, ConcatProperties
<1> HIDE DEF t, u
<1>7. ASSUME NEW n \in 1 .. Len(t) PROVE t[n] = u[n]
  <2>1. n \in 1 .. Len(q) + Len(p) - 1 /\ n \in 1 .. Len(q) - 1 + Len(p) /\ n + 1 \in 1 .. Len(q) + Len(p)
    BY <1>1, <1>5
  <2>2. CASE n <= Len(q) - 1
    <3>1. n + 1 <= Len(q) /\ n \in 1 .. Len(q) - 1
      BY <1>1, <2>2
    <3> QED BY <1>1, <1>2, <1>5, <1>6, <2>1, <2>2, <3>1
  <2>3. CASE ~(n <= Len(q) - 1)
    <3>1. ~(n + 1 <= Len(q)) /\ n + 1 - Len(q) = n - (Len(q) - 1)
      BY <1>1, <2>3
    <3> QED BY <1>2, <1>5, <1>6, <2>1, <2>3, <3>1
  <2> QED BY <2>2, <2>3
<1>8. Len(t) = Len(u)
  BY <1>1, <1>5, <1>6
<1>9. t = u
  BY <1>5, <1>6, <1>7, <1>8, SeqEqual
<1> QED BY <1>3, <1>4, <1>9 DEF t, u

\* A handler takes what comes first and sends its answers after all else.
LEMMA WayAnswers ==
    ASSUME TypeOK, NEW e \in End, chan[e] # <<>>, out[e] = <<>>, NEW msgs, Answers(e, msgs)
    PROVE  /\ Way(e) # <<>> /\ Head(Way(e)) = Head(chan[e])
           /\ Way(e)' = Tail(Way(e)) /\ Way(Peer(e))' = Way(Peer(e)) \o msgs
<1>1. /\ Peer(e) \in End /\ Peer(Peer(e)) = e /\ Peer(e) # e
      /\ chan[e] \in Seq(Message) /\ out[Peer(e)] \in Seq(Message) /\ chan[Peer(e)] \in Seq(Message)
  BY Peers, WayTyped
<1>2. /\ chan'[e] = Tail(chan[e]) /\ chan'[Peer(e)] = chan[Peer(e)]
      /\ out'[e] = msgs /\ out'[Peer(e)] = out[Peer(e)]
  BY <1>1 DEF Answers, TypeOK
<1>3. /\ Way(e) = chan[e] \o out[Peer(e)] /\ Way(Peer(e)) = chan[Peer(e)]
      /\ Way(e)' = chan'[e] \o out'[Peer(e)] /\ Way(Peer(e))' = chan'[Peer(e)] \o out'[e]
  BY <1>1, ConcatEmptySeq DEF Way
<1>4. /\ chan[e] \o out[Peer(e)] # <<>> /\ Head(chan[e] \o out[Peer(e)]) = Head(chan[e])
      /\ Tail(chan[e]) \o out[Peer(e)] = Tail(chan[e] \o out[Peer(e)])
  BY <1>1, TailOfWay
<1>5. /\ Way(e) # <<>> /\ Head(Way(e)) = Head(chan[e]) /\ Way(e)' = Tail(Way(e))
  BY <1>2, <1>3, <1>4
<1>6. Way(Peer(e))' = Way(Peer(e)) \o msgs
  BY <1>2, <1>3
<1> QED BY <1>5, <1>6

\* The first of what is to be sent joins the queue.
LEMMA SendMoves ==
    ASSUME NEW S, NEW c \in Seq(S), NEW o \in Seq(S), o # <<>>
    PROVE  Append(c, Head(o)) \o Tail(o) = c \o o
<1> DEFINE t == Append(c, Head(o)) \o Tail(o)
           u == c \o o
<1>1. /\ c \in Seq(S) /\ o \in Seq(S) /\ Head(o) \in S /\ Tail(o) \in Seq(S)
      /\ Len(c) \in Nat /\ Len(o) \in Nat /\ 1 <= Len(o) /\ Len(Tail(o)) = Len(o) - 1
      /\ Head(o) = o[1] /\ \A n \in 1 .. Len(o) - 1 : Tail(o)[n] = o[n + 1]
  BY EmptySeq, LenProperties, HeadTailProperties
<1>2. /\ Append(c, Head(o)) \in Seq(S) /\ Len(Append(c, Head(o))) = Len(c) + 1
      /\ \A n \in 1 .. Len(c) + 1 : Append(c, Head(o))[n] = IF n <= Len(c) THEN c[n] ELSE Head(o)
  BY <1>1
<1>3. /\ t \in Seq(S) /\ Len(t) = Len(c) + 1 + (Len(o) - 1)
      /\ \A n \in 1 .. Len(c) + 1 + (Len(o) - 1) :
            t[n] = IF n <= Len(c) + 1 THEN Append(c, Head(o))[n] ELSE Tail(o)[n - (Len(c) + 1)]
  BY <1>1, <1>2, ConcatProperties
<1>4. /\ u \in Seq(S) /\ Len(u) = Len(c) + Len(o)
      /\ \A n \in 1 .. Len(c) + Len(o) : u[n] = IF n <= Len(c) THEN c[n] ELSE o[n - Len(c)]
  BY <1>1, ConcatProperties
<1> HIDE DEF t, u
<1>5. ASSUME NEW n \in 1 .. Len(t) PROVE t[n] = u[n]
  <2>1. n \in 1 .. Len(c) + 1 + (Len(o) - 1) /\ n \in 1 .. Len(c) + Len(o)
    BY <1>1, <1>3
  <2>2. CASE n <= Len(c)
    <3>1. n <= Len(c) + 1 /\ n \in 1 .. Len(c) + 1
      BY <1>1, <2>1, <2>2
    <3> QED BY <1>2, <1>3, <1>4, <2>1, <2>2, <3>1
  <2>3. CASE n = Len(c) + 1
    <3>1. n <= Len(c) + 1 /\ n \in 1 .. Len(c) + 1 /\ ~(n <= Len(c)) /\ n - Len(c) = 1
      BY <1>1, <2>3
    <3> QED BY <1>1, <1>2, <1>3, <1>4, <2>1, <3>1
  <2>4. CASE Len(c) + 1 < n
    <3>1. /\ ~(n <= Len(c) + 1) /\ ~(n <= Len(c)) /\ n - (Len(c) + 1) \in 1 .. Len(o) - 1
          /\ n - (Len(c) + 1) + 1 = n - Len(c)
      BY <1>1, <2>1, <2>4
    <3> QED BY <1>1, <1>3, <1>4, <2>1, <3>1
  <2> QED BY <1>1, <2>1, <2>2, <2>3, <2>4
<1>6. Len(t) = Len(u)
  BY <1>1, <1>3, <1>4
<1>7. t = u
  BY <1>3, <1>4, <1>5, <1>6, SeqEqual
<1> QED BY <1>7 DEF t, u

\* A send changes nothing of it.
LEMMA WaySend ==
    ASSUME TypeOK, NEW e \in End, Send(e)
    PROVE  \A d \in End : Way(d)' = Way(d)
<1>1. /\ Peer(e) \in End /\ Peer(Peer(e)) = e /\ Peer(e) # e /\ \A d \in End : d = e \/ d = Peer(e)
      /\ chan[Peer(e)] \in Seq(Message) /\ out[e] \in Seq(Message) /\ out[e] # <<>>
  BY Peers, WayTyped DEF Send
<1> DEFINE c == chan[Peer(e)]
           o == out[e]
<1>2. /\ chan'[e] = chan[e] /\ chan'[Peer(e)] = Append(c, Head(o))
      /\ out'[e] = Tail(o) /\ out'[Peer(e)] = out[Peer(e)]
  BY <1>1 DEF Send, TypeOK
<1>3. Append(c, Head(o)) \o Tail(o) = c \o o
  BY <1>1, SendMoves
<1> HIDE DEF c, o
<1>4. Way(Peer(e))' = c \o o /\ Way(e)' = Way(e)
  BY <1>1, <1>2, <1>3 DEF Way
<1>5. Way(Peer(e)) = c \o o
  BY <1>1 DEF Way, c, o
<1> QED BY <1>1, <1>4, <1>5

\* What members there are.
LEMMA Members ==
    ASSUME TypeOK, NEW e \in End, chan[e] # <<>>, out[e] = <<>>,
           NEW msgs \in Seq(Message), Answers(e, msgs)
    PROVE  /\ OnWay(e)' \subseteq OnWay(e) /\ OnWay(e) \subseteq OnWay(e)' \cup {Head(chan[e])}
           /\ Head(chan[e]) \in OnWay(e)
           /\ OnWay(Peer(e))' = OnWay(Peer(e)) \cup {msgs[n] : n \in DOMAIN msgs}
<1> DEFINE q == Way(e)
           p == Way(Peer(e))
<1>1. /\ q \in Seq(Message) /\ p \in Seq(Message) /\ q # <<>> /\ Head(q) = Head(chan[e])
      /\ Way(e)' = Tail(q) /\ Way(Peer(e))' = p \o msgs
  BY Peers, WayTyped, WayAnswers
<1>2. /\ Len(q) \in Nat /\ DOMAIN q = 1 .. Len(q) /\ Head(q) = q[1] /\ 1 <= Len(q)
      /\ DOMAIN Tail(q) = 1 .. Len(q) - 1 /\ \A n \in 1 .. Len(q) - 1 : Tail(q)[n] = q[n + 1]
  BY <1>1, EmptySeq, LenProperties, HeadTailProperties
<1>3. /\ Len(p) \in Nat /\ DOMAIN p = 1 .. Len(p) /\ Len(msgs) \in Nat /\ DOMAIN msgs = 1 .. Len(msgs)
      /\ DOMAIN (p \o msgs) = 1 .. Len(p) + Len(msgs)
      /\ \A n \in 1 .. Len(p) + Len(msgs) : (p \o msgs)[n] = IF n <= Len(p) THEN p[n] ELSE msgs[n - Len(p)]
  BY <1>1, LenProperties, ConcatProperties
<1>4. /\ OnWay(e) = {q[n] : n \in 1 .. Len(q)} /\ OnWay(e)' = {Tail(q)[n] : n \in 1 .. Len(q) - 1}
      /\ OnWay(Peer(e)) = {p[n] : n \in 1 .. Len(p)}
      /\ OnWay(Peer(e))' = {(p \o msgs)[n] : n \in 1 .. Len(p) + Len(msgs)}
  <2>1. OnWay(e) = {q[n] : n \in DOMAIN q} /\ OnWay(Peer(e)) = {p[n] : n \in DOMAIN p}
    BY DEF OnWay
  <2>2. OnWay(e)' = {Way(e)'[n] : n \in DOMAIN Way(e)'}
    BY DEF OnWay
  <2>3. OnWay(Peer(e))' = {Way(Peer(e))'[n] : n \in DOMAIN Way(Peer(e))'}
    BY DEF OnWay
  <2>4. Way(e)' = Tail(q) /\ DOMAIN Tail(q) = 1 .. Len(q) - 1
    BY <1>1, <1>2
  <2>5. Way(Peer(e))' = p \o msgs /\ DOMAIN (p \o msgs) = 1 .. Len(p) + Len(msgs)
    BY <1>1, <1>3
  <2> HIDE DEF q, p
  <2>6. OnWay(e) = {q[n] : n \in 1 .. Len(q)} /\ OnWay(Peer(e)) = {p[n] : n \in 1 .. Len(p)}
    BY <1>2, <1>3, <2>1
  <2>7. OnWay(e)' = {Tail(q)[n] : n \in 1 .. Len(q) - 1}
    BY <2>2, <2>4
  <2>8. OnWay(Peer(e))' = {(p \o msgs)[n] : n \in 1 .. Len(p) + Len(msgs)}
    BY <2>3, <2>5
  <2> QED BY <2>6, <2>7, <2>8
<1> HIDE DEF q, p
<1>5. OnWay(e)' \subseteq OnWay(e)
  <2> SUFFICES ASSUME NEW n \in 1 .. Len(q) - 1 PROVE Tail(q)[n] \in {q[k] : k \in 1 .. Len(q)}
    BY <1>4
  <2>1. n + 1 \in 1 .. Len(q)
    BY <1>2
  <2> QED BY <1>2, <2>1
<1>6. OnWay(e) \subseteq OnWay(e)' \cup {Head(chan[e])}
  <2> SUFFICES ASSUME NEW n \in 1 .. Len(q), n # 1 PROVE q[n] \in {Tail(q)[k] : k \in 1 .. Len(q) - 1}
    BY <1>1, <1>2, <1>4
  <2>1. n - 1 \in 1 .. Len(q) - 1 /\ n - 1 + 1 = n
    BY <1>2
  <2> QED BY <1>2, <2>1
<1>7. Head(chan[e]) \in OnWay(e)
  <2>1. 1 \in 1 .. Len(q)
    BY <1>2
  <2> QED BY <1>1, <1>2, <1>4, <2>1
<1>8. OnWay(Peer(e))' \subseteq OnWay(Peer(e)) \cup {msgs[n] : n \in DOMAIN msgs}
  <2> SUFFICES ASSUME NEW n \in 1 .. Len(p) + Len(msgs)
               PROVE  (p \o msgs)[n] \in {p[k] : k \in 1 .. Len(p)} \cup {msgs[k] : k \in 1 .. Len(msgs)}
    BY <1>3, <1>4
  <2>1. n <= Len(p) => n \in 1 .. Len(p)
    BY <1>3
  <2>2. ~(n <= Len(p)) => n - Len(p) \in 1 .. Len(msgs)
    BY <1>3
  <2> QED BY <1>3, <2>1, <2>2
<1>9. OnWay(Peer(e)) \cup {msgs[n] : n \in DOMAIN msgs} \subseteq OnWay(Peer(e))'
  <2>1. ASSUME NEW n \in 1 .. Len(p) PROVE p[n] \in OnWay(Peer(e))'
    <3>1. n \in 1 .. Len(p) + Len(msgs) /\ n <= Len(p)
      BY <1>3
    <3> QED BY <1>3, <1>4, <3>1
  <2>2. ASSUME NEW n \in 1 .. Len(msgs) PROVE msgs[n] \in OnWay(Peer(e))'
    <3>1. n + Len(p) \in 1 .. Len(p) + Len(msgs) /\ ~(n + Len(p) <= Len(p)) /\ n + Len(p) - Len(p) = n
      BY <1>3
    <3>2. (p \o msgs)[n + Len(p)] = msgs[n]
      BY <1>3, <3>1
    <3> QED BY <1>4, <3>1, <3>2
  <2> QED BY <1>3, <1>4, <2>1, <2>2
<1> QED BY <1>5, <1>6, <1>7, <1>8, <1>9

LEMMA JoinedMembers ==
    ASSUME TypeOK, NEW e \in End, NEW m \in Message,
           chan' = [chan EXCEPT ![e] = Append(@, m)], out' = out
    PROVE  /\ OnWay(e)' = OnWay(e) \cup {m}
           /\ Way(e)' = Append(chan[e], m) \o out[Peer(e)]
           /\ Way(Peer(e))' = Way(Peer(e))
<1> DEFINE q == chan[e]
           p == out[Peer(e)]
           r == Append(q, m) \o p
           s == q \o p
<1>1. /\ Peer(e) \in End /\ Peer(Peer(e)) = e /\ Peer(e) # e /\ q \in Seq(Message) /\ p \in Seq(Message)
  BY Peers, WayTyped
<1>2. Way(e)' = r /\ Way(e) = s /\ Way(Peer(e))' = Way(Peer(e))
  BY <1>1 DEF Way, TypeOK
<1>3. /\ Len(q) \in Nat /\ Len(p) \in Nat
      /\ DOMAIN s = 1 .. Len(q) + Len(p) /\ DOMAIN r = 1 .. Len(q) + Len(p) + 1
      /\ \A n \in 1 .. Len(q) + Len(p) + 1 :
            r[n] = IF n <= Len(q) THEN s[n] ELSE IF n = Len(q) + 1 THEN m ELSE s[n - 1]
  <2> HIDE DEF q, p
  <2>1. Len(q) \in Nat /\ Len(p) \in Nat
    BY <1>1, LenProperties
  <2> QED BY <1>1, <2>1, Joined
<1>4. OnWay(e) = {s[n] : n \in 1 .. Len(q) + Len(p)} /\ OnWay(e)' = {r[n] : n \in 1 .. Len(q) + Len(p) + 1}
  BY <1>2, <1>3 DEF OnWay
<1>5. /\ Way(e)' = Append(chan[e], m) \o out[Peer(e)] /\ Way(Peer(e))' = Way(Peer(e))
  BY <1>2
<1> HIDE DEF r, s, q, p
<1>6. ASSUME NEW n \in 1 .. Len(q) + Len(p) + 1 PROVE r[n] \in OnWay(e) \cup {m}
  <2>1. /\ n <= Len(q) => n \in 1 .. Len(q) + Len(p)
        /\ ~(n <= Len(q)) /\ n # Len(q) + 1 => n - 1 \in 1 .. Len(q) + Len(p)
    BY <1>3
  <2> QED BY <1>3, <1>4, <2>1
<1>7. ASSUME NEW n \in 1 .. Len(q) + Len(p) PROVE s[n] \in OnWay(e)'
  <2>1. CASE n <= Len(q)
    <3>1. n \in 1 .. Len(q) + Len(p) + 1
      BY <1>3
    <3> QED BY <1>3, <1>4, <2>1, <3>1
  <2>2. CASE ~(n <= Len(q))
    <3>1. /\ n + 1 \in 1 .. Len(q) + Len(p) + 1 /\ ~(n + 1 <= Len(q)) /\ n + 1 # Len(q) + 1
          /\ n + 1 - 1 = n
      BY <1>3, <2>2
    <3> QED BY <1>3, <1>4, <3>1
  <2> QED BY <2>1, <2>2
<1>8. m \in OnWay(e)'
  <2>1. Len(q) + 1 \in 1 .. Len(q) + Len(p) + 1 /\ ~(Len(q) + 1 <= Len(q))
    BY <1>3
  <2> QED BY <1>3, <1>4, <2>1
<1>9. OnWay(e)' = OnWay(e) \cup {m}
  BY <1>4, <1>6, <1>7, <1>8
<1> QED BY <1>5, <1>9

\* The message that e takes is on its way.
LEMMA HeadOnWay ==
    ASSUME TypeOK, NEW e \in End, chan[e] # <<>>
    PROVE  Head(chan[e]) \in OnWay(e)
<1>1. /\ chan[e] \in Seq(Message) /\ out[Peer(e)] \in Seq(Message) /\ Way(e) \in Seq(Message)
  BY Peers, WayTyped
<1>2. Way(e) # <<>> /\ Head(Way(e)) = Head(chan[e])
  BY <1>1, TailOfWay DEF Way
<1>3. 1 \in DOMAIN Way(e)
  BY <1>1, <1>2, EmptySeq, LenProperties
<1>4. Head(Way(e)) = Way(e)[1]
  BY <1>1, <1>2
<1> QED BY <1>2, <1>3, <1>4 DEF OnWay

\* Removing one leaves the others.
LEMMA RemovedFrom ==
    ASSUME NEW S, NEW q \in Seq(S), NEW n \in DOMAIN q
    PROVE  /\ \A k \in DOMAIN RemoveAt(q, n) : \E j \in DOMAIN q : RemoveAt(q, n)[k] = q[j]
           /\ Len(RemoveAt(q, n)) = Len(q) - 1
<1>1. n \in 1 .. Len(q) /\ Len(q) \in Nat /\ DOMAIN q = 1 .. Len(q) /\ \A k \in 1 .. Len(q) : q[k] \in S
  BY LenProperties, ElementOfSeq
<1> DEFINE a == SubSeq(q, 1, n - 1)
           b == SubSeq(q, n + 1, Len(q))
<1>2. /\ a \in Seq(S) /\ Len(a) = n - 1 /\ \A k \in 1 .. n - 1 : a[k] = q[k]
  <2>1. /\ 1 \in Int /\ n - 1 \in Int /\ \A k \in 1 .. n - 1 : q[k] \in S
    BY <1>1
  <2>2. /\ a \in Seq(S) /\ Len(a) = (IF 1 <= n - 1 THEN n - 1 - 1 + 1 ELSE 0)
        /\ \A k \in 1 .. n - 1 - 1 + 1 : a[k] = q[1 + k - 1]
    BY <2>1, SubSeqProperties
  <2>3. Len(a) = n - 1
    BY <1>1, <2>2
  <2>4. \A k \in 1 .. n - 1 : k \in 1 .. n - 1 - 1 + 1 /\ 1 + k - 1 = k
    BY <1>1
  <2> QED BY <2>2, <2>3, <2>4
<1>3. /\ b \in Seq(S) /\ Len(b) = Len(q) - n /\ \A k \in 1 .. Len(q) - n : b[k] = q[n + k]
  <2>1. /\ n + 1 \in Int /\ Len(q) \in Int /\ \A k \in n + 1 .. Len(q) : q[k] \in S
    BY <1>1
  <2>2. /\ b \in Seq(S) /\ Len(b) = (IF n + 1 <= Len(q) THEN Len(q) - (n + 1) + 1 ELSE 0)
        /\ \A k \in 1 .. Len(q) - (n + 1) + 1 : b[k] = q[n + 1 + k - 1]
    BY <2>1, SubSeqProperties
  <2>3. Len(b) = Len(q) - n
    BY <1>1, <2>2
  <2>4. \A k \in 1 .. Len(q) - n : k \in 1 .. Len(q) - (n + 1) + 1 /\ n + 1 + k - 1 = n + k
    BY <1>1
  <2> QED BY <2>2, <2>3, <2>4
<1>4. RemoveAt(q, n) = a \o b
  BY DEF RemoveAt
<1> HIDE DEF a, b
<1>5. /\ DOMAIN (a \o b) = 1 .. Len(q) - 1 /\ Len(a \o b) = Len(q) - 1
      /\ \A k \in 1 .. Len(q) - 1 : (a \o b)[k] = IF k <= n - 1 THEN a[k] ELSE b[k - (n - 1)]
  <2>1. a \o b \in Seq(S) /\ Len(a \o b) = Len(a) + Len(b) /\ DOMAIN (a \o b) = 1 .. Len(a \o b)
    BY <1>2, <1>3, ConcatProperties, LenProperties
  <2>2. Len(a) + Len(b) = Len(q) - 1
    BY <1>1, <1>2, <1>3
  <2>3. \A k \in 1 .. Len(a) + Len(b) : (a \o b)[k] = IF k <= Len(a) THEN a[k] ELSE b[k - Len(a)]
    BY <1>2, <1>3, ConcatProperties
  <2> QED BY <1>2, <2>1, <2>2, <2>3
<1>6. ASSUME NEW k \in 1 .. Len(q) - 1 PROVE \E j \in DOMAIN q : (a \o b)[k] = q[j]
  <2>1. CASE k <= n - 1
    <3>1. k \in 1 .. n - 1 /\ k \in DOMAIN q
      BY <1>1, <2>1
    <3> QED BY <1>2, <1>5, <2>1, <3>1
  <2>2. CASE ~(k <= n - 1)
    <3>1. k - (n - 1) \in 1 .. Len(q) - n /\ n + (k - (n - 1)) \in DOMAIN q
      BY <1>1, <2>2
    <3> QED BY <1>3, <1>5, <2>2, <3>1
  <2> QED BY <2>1, <2>2
<1> QED BY <1>4, <1>5, <1>6

----------------------------------------------------------------------------
(* Folders before resources: FInv is the invariant.                        *)

Calm == adds = 0 /\ "error" \notin faults

\* Of the folders fo[e] of e, fs are all but some that its peer has, and the
\* resources xs are in one of them.
Tells(fo, e, fs, xs) ==
    /\ fs \subseteq fo[e] /\ fo[e] \subseteq fs \cup fo[Peer(e)]
    /\ \A x \in xs : FolderOf[x] \in fo[e]

\* What a message on its way to e says of the folders and resources.
Carries(fo, e, m) ==
    /\ m.kind = "request" => Tells(fo, Peer(e), m.folders, m.held)
    /\ m.kind = "response" => Tells(fo, e, m.result.newFolders, m.result.missing)
    /\ m.kind = "folders" => Tells(fo, Peer(e), m.folders, {})
    /\ m.kind = "add" => FolderOf[m.resource] \in fo[Peer(e)]

Given(e) == folders[Peer(e)] \subseteq folders[e]

Placed(e) == misplaced[e] = {} /\ \A x \in held[e] : FolderOf[x] \in folders[e]

Compared(e) == result[e].stored => Tells(folders, e, result[e].peerFolders, result[e].peerMissing)

FolderContents ==
    /\ \A e \in End : Placed(e) /\ Compared(e)
    /\ \A e \in End : \A m \in OnWay(e) : Carries(folders, e, m)
    /\ \A n \in DOMAIN made : Carries(folders, "r", made[n])

\* The resources of either end, and the message that makes it send them, come
\* after the folders of both.
FolderOrder ==
    /\ "add" \in Kinds("i") \/ "recipients" \in Kinds("i") \cup Kinds("r") => Given("i")
    /\ "add" \in Kinds("r") \/ "recipients" \in Kinds("i") => Given("r")
    /\ Given("r") \/ Led(Way("r"), "recipients", "folders")
    /\ Given("r") \/ "folders" \in Kinds("r") \/ Led(Way("i"), "folders", "networkAck")
    /\ \/ Given("r") \/ "folders" \in Kinds("r") \/ "networkAck" \in Kinds("i")
       \/ Led(Way("r"), "networkAck", "network")

FInv == Calm => FolderContents /\ FolderOrder

\* While nothing is created, an end only gets folders of its peer.
FoldersPass ==
    \A e \in End : folders[e] \subseteq folders'[e] /\ folders'[e] \subseteq folders[e] \cup folders[Peer(e)]

LEMMA CarriesStays ==
    ASSUME FoldersPass, NEW e \in End
    PROVE  /\ \A fs, xs : Tells(folders, e, fs, xs) => Tells(folders', e, fs, xs)
           /\ \A m : Carries(folders, e, m) => Carries(folders', e, m)
           /\ Given(e) => Given(e)'
<1>1. ASSUME NEW d \in End, NEW fs, NEW xs, Tells(folders, d, fs, xs)
      PROVE  Tells(folders', d, fs, xs)
  <2>1. /\ folders[d] \subseteq folders'[d] /\ folders'[d] \subseteq folders[d] \cup folders[Peer(d)]
        /\ folders[Peer(d)] \subseteq folders'[Peer(d)]
    BY Peers DEF FoldersPass
  <2> QED BY <1>1, <2>1 DEF Tells
<1>2. Peer(e) \in End /\ Peer(Peer(e)) = e
  BY Peers
<1>3. folders[Peer(e)] \subseteq folders'[Peer(e)]
  BY <1>2 DEF FoldersPass
<1>4. Given(e) => Given(e)'
  <2>1. folders'[Peer(e)] \subseteq folders[Peer(e)] \cup folders[e] /\ folders[e] \subseteq folders'[e]
    BY <1>2 DEF FoldersPass
  <2> QED BY <2>1 DEF Given
<1> QED BY <1>1, <1>2, <1>3, <1>4 DEF Carries

LEMMA FoldersSame == folders' = folders => FoldersPass
BY DEF FoldersPass

\* What a handler leaves, when its answers are right.
LEMMA HandlerFolders ==
    ASSUME TypeOK, FolderContents, FoldersPass, NEW e \in End, chan[e] # <<>>, out[e] = <<>>,
           NEW msgs \in Seq(Message), Answers(e, msgs), made' = made,
           \A n \in DOMAIN msgs : Carries(folders', Peer(e), msgs[n]),
           \A d \in End : Placed(d)' /\ Compared(d)'
    PROVE  FolderContents'
<1>1. /\ Peer(e) \in End /\ Peer(Peer(e)) = e /\ "r" \in End /\ \A d \in End : d = e \/ d = Peer(e)
      /\ OnWay(e)' \subseteq OnWay(e)
      /\ OnWay(Peer(e))' = OnWay(Peer(e)) \cup {msgs[n] : n \in DOMAIN msgs}
  BY Peers, Members DEF End
<1>2. ASSUME NEW d \in End, NEW m \in OnWay(d)' PROVE Carries(folders', d, m)
  <2>1. m \in OnWay(d) => Carries(folders', d, m)
    BY CarriesStays DEF FolderContents
  <2> QED BY <1>1, <2>1
<1>3. \A n \in DOMAIN made : Carries(folders', "r", made[n])
  BY <1>1, CarriesStays DEF FolderContents
<1> QED BY <1>2, <1>3 DEF FolderContents

LEMMA ComparedStays ==
    ASSUME FolderContents, FoldersPass, NEW e \in End, result'[e] = result[e]
    PROVE  Compared(e)'
BY CarriesStays DEF FolderContents, Compared

LEMMA PlacedStays ==
    ASSUME FolderContents, FoldersPass, NEW e \in End, misplaced'[e] = misplaced[e], held'[e] = held[e]
    PROVE  Placed(e)'
BY DEF FolderContents, Placed, FoldersPass

\* The order is none of the other messages' concern.
Unordered == {"request", "response", "ack", "complete", "retry", "svRequest", "updates", "final", "clocks"}

LEMMA KindsAnswer ==
    ASSUME TypeOK, NEW e \in End, chan[e] # <<>>, out[e] = <<>>,
           NEW msgs \in Seq(Message), Answers(e, msgs)
    PROVE  /\ Kinds(e)' \subseteq Kinds(e) /\ Head(chan[e]).kind \in Kinds(e)
           /\ \A kind \in Kinds(e) : kind # Head(chan[e]).kind => kind \in Kinds(e)'
           /\ Kinds(Peer(e))' = Kinds(Peer(e)) \cup {msgs[n].kind : n \in DOMAIN msgs}
<1>1. /\ OnWay(e)' \subseteq OnWay(e) /\ OnWay(e) \subseteq OnWay(e)' \cup {Head(chan[e])}
      /\ Head(chan[e]) \in OnWay(e)
      /\ OnWay(Peer(e))' = OnWay(Peer(e)) \cup {msgs[n] : n \in DOMAIN msgs}
  BY Members
<1>2. Kinds(e)' = {m.kind : m \in OnWay(e)'} /\ Kinds(Peer(e))' = {m.kind : m \in OnWay(Peer(e))'}
  BY DEF Kinds
<1> QED BY <1>1, <1>2 DEF Kinds

\* What the queues keep of their order when a handler takes and answers.
LEMMA LedAnswer ==
    ASSUME TypeOK, NEW e \in End, chan[e] # <<>>, out[e] = <<>>,
           NEW msgs \in Seq(Message), Answers(e, msgs), NEW kind, NEW lead
    PROVE  /\ Led(Way(e), kind, lead) =>
                 /\ Head(chan[e]).kind # kind
                 /\ Head(chan[e]).kind # lead => Led(Way(e), kind, lead)'
           /\ Led(Way(Peer(e)), kind, lead) /\ (lead \in Kinds(Peer(e)) \/ Led(msgs, kind, lead))
                 => Led(Way(Peer(e)), kind, lead)'
<1> DEFINE q == Way(e)
           p == Way(Peer(e))
<1>1. /\ q \in Seq(Message) /\ p \in Seq(Message) /\ q # <<>> /\ Head(q) = Head(chan[e])
      /\ Way(e)' = Tail(q) /\ Way(Peer(e))' = p \o msgs
  BY Peers, WayTyped, WayAnswers
<1>2. lead \in Kinds(Peer(e)) => \E n \in DOMAIN p : p[n].kind = lead
  BY DEF Kinds, OnWay
<1>3. Led(Way(e), kind, lead)' <=> Led(Way(e)', kind, lead)
  BY DEF Led
<1>4. Led(Way(Peer(e)), kind, lead)' <=> Led(Way(Peer(e))', kind, lead)
  BY DEF Led
<1> HIDE DEF q, p
<1>5. Led(q, kind, lead) => Head(q).kind # kind /\ (Head(q).kind # lead => Led(Tail(q), kind, lead))
  BY <1>1, LedHead, LedTail
<1>6. Led(p, kind, lead) /\ (lead \in Kinds(Peer(e)) \/ Led(msgs, kind, lead)) => Led(p \o msgs, kind, lead)
  BY <1>1, <1>2, LedAppend
<1> QED BY <1>1, <1>3, <1>4, <1>5, <1>6 DEF q, p

LEMMA LedNone ==
    ASSUME NEW msgs, NEW kind, NEW lead, \A n \in DOMAIN msgs : msgs[n].kind # kind
    PROVE  Led(msgs, kind, lead)
BY DEF Led

LEMMA HandlerUnordered ==
    ASSUME TypeOK, FolderOrder, FoldersPass, NEW e \in End, chan[e] # <<>>, out[e] = <<>>,
           NEW msgs \in Seq(Message), Answers(e, msgs),
           Head(chan[e]).kind \in Unordered \cup {"add"},
           \A n \in DOMAIN msgs : msgs[n].kind \in Unordered \cup {"network"}
    PROVE  FolderOrder'
<1>1. "i" \in End /\ "r" \in End /\ \A d \in End : d = e \/ d = Peer(e)
  BY Peers DEF End
<1>2. \A d \in End : Given(d) => Given(d)'
  BY CarriesStays
<1>3. \A kind \in {"add", "recipients", "folders", "networkAck"} :
          \A n \in DOMAIN msgs : msgs[n].kind # kind
  BY DEF Unordered
<1>4. \A kind \in {"add", "recipients", "folders", "networkAck"} : \A d \in End : kind \in Kinds(d)' => kind \in Kinds(d)
  <2>1. /\ Kinds(e)' \subseteq Kinds(e)
        /\ Kinds(Peer(e))' = Kinds(Peer(e)) \cup {msgs[n].kind : n \in DOMAIN msgs}
    BY KindsAnswer
  <2> QED BY <1>1, <1>3, <2>1
<1>5. \A kind \in {"folders", "networkAck"} : \A d \in End : kind \in Kinds(d) => kind \in Kinds(d)'
  <2>1. /\ \A kind \in Kinds(e) : kind # Head(chan[e]).kind => kind \in Kinds(e)'
        /\ Kinds(Peer(e)) \subseteq Kinds(Peer(e))'
    BY KindsAnswer
  <2>2. Head(chan[e]).kind \notin {"folders", "networkAck"}
    BY DEF Unordered
  <2> QED BY <1>1, <2>1, <2>2
<1>6. \A kind \in {"recipients", "folders", "networkAck"} : \A lead \in {"folders", "networkAck", "network"} :
          \A d \in End : Led(Way(d), kind, lead) => Led(Way(d), kind, lead)'
  <2>1. Head(chan[e]).kind \notin {"folders", "networkAck", "network"}
    BY DEF Unordered
  <2>2. \A kind \in {"recipients", "folders", "networkAck"} : \A lead : Led(msgs, kind, lead)
    BY <1>3, LedNone
  <2>3. \A kind \in {"recipients", "folders", "networkAck"} : \A lead \in {"folders", "networkAck", "network"} :
            /\ Led(Way(e), kind, lead) => Led(Way(e), kind, lead)'
            /\ Led(Way(Peer(e)), kind, lead) => Led(Way(Peer(e)), kind, lead)'
    BY <2>1, <2>2, LedAnswer
  <2> QED BY <1>1, <2>3
<1> QED BY <1>1, <1>2, <1>4, <1>5, <1>6 DEF FolderOrder

LEMMA OneMessage ==
    ASSUME NEW m \in Message
    PROVE  <<m>> \in Seq(Message) /\ DOMAIN <<m>> = {1} /\ <<m>>[1] = m /\ Len(<<m>>) = 1
OBVIOUS

LEMMA TwoMessages ==
    ASSUME NEW m \in Message, NEW n \in Message
    PROVE  /\ <<m, n>> \in Seq(Message) /\ DOMAIN <<m, n>> = {1, 2}
           /\ <<m, n>>[1] = m /\ <<m, n>>[2] = n
OBVIOUS

LEMMA Messages ==
    /\ \A kind \in Plain : Msg(kind) \in Message /\ Msg(kind).kind = kind
    /\ \A kind \in About, x \in Resource :
          /\ MsgOf(kind, x) \in Message /\ MsgOf(kind, x).kind = kind
          /\ MsgOf(kind, x).resource = x
BY DEF Msg, MsgOf, Message, Plain, About

LEMMA CarriesOther ==
    ASSUME NEW fo, NEW e, NEW m, m.kind \notin {"request", "response", "folders", "add"}
    PROVE  Carries(fo, e, m)
BY DEF Carries

LEMMA OneEachMembers ==
    ASSUME NEW kind \in About, NEW set \in SUBSET Resource, NEW msgs \in OneEach(kind, set)
    PROVE  /\ msgs \in Seq(Message)
           /\ \A n \in DOMAIN msgs : \E x \in set : msgs[n] = MsgOf(kind, x)
<1> DEFINE S == {MsgOf(kind, x) : x \in set}
<1>1. msgs \in Seq(S)
  BY OneEachIsSeq
<1>2. S \subseteq Message
  BY Messages
<1>3. msgs \in Seq(Message)
  BY <1>1, <1>2, SeqMonotonic
<1>4. \A n \in DOMAIN msgs : msgs[n] \in S
  BY <1>1, LenProperties, ElementOfSeq
<1> QED BY <1>3, <1>4

LEMMA ResourcesMembers ==
    ASSUME TypeOK, NEW e \in End, NEW msgs \in Resources(e)
    PROVE  /\ msgs \in Seq(Message)
           /\ \A n \in DOMAIN msgs : \/ msgs[n] = Msg("complete")
                                     \/ \E x \in result[e].peerMissing : msgs[n] = MsgOf("add", x)
<1>1. result[e].peerMissing \in SUBSET Resource
  BY DEF TypeOK, Result
<1>2. CASE result[e].peerMissing = {}
  <2>1. msgs = <<Msg("complete")>>
    BY <1>2 DEF Resources
  <2>2. Msg("complete") \in Message
    BY Messages DEF Plain
  <2> QED BY <2>1, <2>2, OneMessage
<1>3. CASE result[e].peerMissing # {}
  <2>1. msgs \in OneEach("add", result[e].peerMissing)
    BY <1>3 DEF Resources
  <2> QED BY <1>1, <2>1, OneEachMembers DEF About
<1> QED BY <1>2, <1>3

\* Every one of the set gets its message.
LEMMA OneEachCovers ==
    ASSUME NEW kind, NEW set \in SUBSET Resource, NEW msgs \in OneEach(kind, set), NEW x \in set
    PROVE  \E n \in DOMAIN msgs : msgs[n] = MsgOf(kind, x)
<1> DEFINE D == 1 .. Cardinality(set)
<1>1. PICK q \in SetToSeqs(set) : msgs = [n \in DOMAIN q |-> MsgOf(kind, q[n])]
  BY DEF OneEach
<1>2. IsFiniteSet(set) /\ Cardinality(set) \in Nat
  BY ResourceAssumption, FS_Subset, FS_CardinalityType
<1>3. q \in [D -> set] /\ \A a, b \in D : a # b => q[a] # q[b]
  BY <1>1 DEF SetToSeqs
<1>4. IsFiniteSet(D) /\ Cardinality(D) = Cardinality(set)
  <2>1. 1 \in Int /\ Cardinality(set) \in Int
    BY <1>2
  <2>2. IsFiniteSet(D) /\ Cardinality(D) = IF 1 > Cardinality(set) THEN 0 ELSE Cardinality(set) - 1 + 1
    BY <2>1, FS_Interval
  <2> QED BY <1>2, <2>2
<1> HIDE DEF D
<1>5. q \in Injection(D, set)
  BY <1>3 DEF Injection, IsInjective
<1>6. q \in Surjection(D, set)
  BY <1>2, <1>4, <1>5, FS_Injection
<1>7. PICK n \in D : q[n] = x
  BY <1>6 DEF Surjection
<1>8. DOMAIN q = D /\ DOMAIN msgs = D
  BY <1>1, <1>3
<1> QED BY <1>1, <1>7, <1>8

LEMMA ResourcesCover ==
    ASSUME TypeOK, NEW e \in End, NEW msgs \in Resources(e), NEW x \in result[e].peerMissing
    PROVE  \E n \in DOMAIN msgs : msgs[n] = MsgOf("add", x)
<1>1. result[e].peerMissing \in SUBSET Resource
  BY DEF TypeOK, Result
<1>2. msgs \in OneEach("add", result[e].peerMissing)
  BY DEF Resources
<1> QED BY <1>1, <1>2, OneEachCovers

\* The answers of process_folder_recipient_sync hand over all that the peer
\* lacks, and nothing else.
LEMMA RecipientsMembers ==
    ASSUME TypeOK, NEW e \in End, NEW msgs \in RecipientAnswers(e)
    PROVE  /\ msgs \in Seq(Message)
           /\ \A n \in DOMAIN msgs : \/ msgs[n].kind \in {"complete", "recipients"}
                                     \/ \E x \in result[e].peerMissing : msgs[n] = MsgOf("add", x)
           /\ \A x \in result[e].peerMissing : \E n \in DOMAIN msgs : msgs[n] = MsgOf("add", x)
           /\ e = "r" => \E n \in DOMAIN msgs : msgs[n].kind = "recipients"
<1>1. Msg("complete").kind = "complete" /\ Msg("recipients").kind = "recipients" /\ Msg("recipients") \in Message
  BY Messages DEF Plain
<1>2. CASE e = "r"
  <2>1. PICK q \in Resources(e) : msgs = <<Msg("recipients")>> \o q
    BY <1>2 DEF RecipientAnswers
  <2> DEFINE p == <<Msg("recipients")>>
  <2>2. p \in Seq(Message) /\ DOMAIN p = {1} /\ p[1].kind = "recipients" /\ Len(p) = 1
    BY <1>1, OneMessage
  <2>3. /\ q \in Seq(Message) /\ DOMAIN q = 1 .. Len(q) /\ Len(q) \in Nat
        /\ \A n \in DOMAIN q : \/ q[n] = Msg("complete")
                               \/ \E x \in result[e].peerMissing : q[n] = MsgOf("add", x)
    BY ResourcesMembers, LenProperties
  <2>4. msgs = p \o q
    BY <2>1
  <2> HIDE DEF p
  <2>5. /\ msgs \in Seq(Message) /\ DOMAIN msgs = 1 .. 1 + Len(q)
        /\ \A n \in 1 .. 1 + Len(q) : msgs[n] = IF n <= 1 THEN p[n] ELSE q[n - 1]
    <3>1. /\ p \o q \in Seq(Message) /\ Len(p \o q) = Len(p) + Len(q)
          /\ \A n \in 1 .. Len(p) + Len(q) : (p \o q)[n] = IF n <= Len(p) THEN p[n] ELSE q[n - Len(p)]
      <4>1. p \in Seq(Message) /\ q \in Seq(Message)
        BY <2>2, <2>3
      <4> QED BY <4>1, ConcatProperties
    <3>2. DOMAIN (p \o q) = 1 .. Len(p \o q)
      BY <3>1, LenProperties
    <3> QED BY <2>2, <2>4, <3>1, <3>2
  <2>6. ASSUME NEW n \in 1 .. 1 + Len(q)
        PROVE  \/ msgs[n].kind \in {"complete", "recipients"}
               \/ \E x \in result[e].peerMissing : msgs[n] = MsgOf("add", x)
    <3>1. CASE n <= 1
      BY <2>2, <2>3, <2>5, <3>1
    <3>2. CASE ~(n <= 1)
      <4>1. n - 1 \in DOMAIN q /\ msgs[n] = q[n - 1]
        BY <2>3, <2>5, <3>2
      <4> QED BY <1>1, <2>3, <4>1
    <3> QED BY <3>1, <3>2
  <2>7. ASSUME NEW x \in result[e].peerMissing PROVE \E n \in DOMAIN msgs : msgs[n] = MsgOf("add", x)
    <3>1. PICK k \in DOMAIN q : q[k] = MsgOf("add", x)
      BY ResourcesCover
    <3>2. k + 1 \in 1 .. 1 + Len(q) /\ ~(k + 1 <= 1) /\ k + 1 - 1 = k
      BY <2>3
    <3> QED BY <2>5, <3>1, <3>2
  <2>8. \E n \in DOMAIN msgs : msgs[n].kind = "recipients"
    <3>1. 1 \in 1 .. 1 + Len(q) /\ 1 <= 1
      BY <2>3
    <3> QED BY <2>2, <2>5, <3>1
  <2> QED BY <2>5, <2>6, <2>7, <2>8
<1>3. CASE e # "r"
  <2>1. msgs \in Resources(e)
    BY <1>3 DEF RecipientAnswers
  <2> QED BY <1>1, <1>3, <2>1, ResourcesMembers, ResourcesCover
<1> QED BY <1>2, <1>3

LEMMA ManifestFolders ==
    ASSUME TypeOK, FolderContents PROVE Carries(folders, "r", Manifest) /\ Manifest \in Message
<1>1. Peer("r") = "i" /\ "i" \in End
  BY DEF Peer, End
<1>2. Manifest.kind = "request" /\ Manifest.folders = folders["i"] /\ Manifest.held = held["i"]
  BY DEF Manifest
<1>3. Tells(folders, "i", folders["i"], held["i"])
  BY <1>1 DEF Tells, FolderContents, Placed
<1>4. Manifest \in Message
  BY DEF Manifest, Message, Request, TypeOK, End
<1> QED BY <1>1, <1>2, <1>3, <1>4 DEF Carries

LEMMA FoldersManifests ==
    ASSUME TypeOK, IInv, FolderContents, FolderOrder,
           TakeRetry \/ TakeRequest \/ TakeResponse \/ TakeAck
    PROVE  FolderContents' /\ FolderOrder'
<1>1. FoldersPass
  BY FoldersSame DEF TakeRetry, TakeRequest, TakeResponse, TakeAck, database
<1>2. "i" \in End /\ "r" \in End /\ Peer("i") = "r" /\ Peer("r") = "i" /\ End = {"i", "r"}
  BY DEF End, Peer
<1>3. UNCHANGED <<held, folders, misplaced, made>>
  BY DEF TakeRetry, TakeRequest, TakeResponse, TakeAck, database, asking
<1>4. \A d \in End : Placed(d)' /\ (result'[d] = result[d] => Compared(d)')
  BY <1>1, <1>3, PlacedStays, ComparedStays
<1>5. Queues
  BY DEF IInv
<1>6. CASE TakeRetry
  <2>1. /\ chan["i"] # <<>> /\ out["i"] = <<>> /\ Head(chan["i"]).kind = "retry"
        /\ Answers("i", <<Manifest>>) /\ result' = result
    BY <1>6 DEF TakeRetry, Takes
  <2>2. Manifest \in Message /\ Carries(folders, "r", Manifest) /\ Manifest.kind = "request"
    BY ManifestFolders DEF Manifest
  <2>3. <<Manifest>> \in Seq(Message) /\ DOMAIN <<Manifest>> = {1} /\ <<Manifest>>[1] = Manifest
    BY <2>2, OneMessage
  <2>4. FolderOrder'
    BY <1>1, <1>2, <2>1, <2>2, <2>3, HandlerUnordered DEF Unordered
  <2>5. \A d \in End : Placed(d)' /\ Compared(d)'
    BY <1>4, <2>1
  <2>6. \A n \in DOMAIN <<Manifest>> : Carries(folders', Peer("i"), <<Manifest>>[n])
    BY <1>2, <1>3, <2>2, <2>3
  <2>7. FolderContents'
    BY <1>1, <1>2, <1>3, <2>1, <2>3, <2>5, <2>6, HandlerFolders
  <2> QED BY <2>4, <2>7
<1>7. CASE TakeRequest
  <2> DEFINE theirs == Head(chan["r"])
  <2>1. /\ chan["r"] # <<>> /\ out["r"] = <<>> /\ theirs \in Message /\ theirs.kind = "request"
    BY <1>2, <1>5, <1>7, Taken DEF TakeRequest, Takes
  <2>2. theirs \in Request
    BY <2>1 DEF Message, Request, Plain, About
  <2>3. PICK merged \in SUBSET Merged(theirs) :
            /\ result' = [result EXCEPT !["r"] = Compare(theirs, merged)]
            /\ Answers("r", Response(Compare(theirs, merged)))
    BY <1>7 DEF TakeRequest
  <2> DEFINE res == Compare(theirs, merged)
             m == [kind |-> "response", result |-> res]
  <2>4. Tells(folders, "i", theirs.folders, theirs.held)
    <3>1. theirs \in OnWay("r")
      BY <1>2, <2>1, HeadOnWay
    <3> QED BY <1>2, <2>1, <3>1 DEF FolderContents, Carries
  <2>5. Tells(folders, "r", res.peerFolders, res.peerMissing)
    BY <1>2, <2>4 DEF Compare, Tells, FolderContents, Placed
  <2>6. Tells(folders, "i", res.newFolders, res.missing)
    BY <1>2, <2>4 DEF Compare, Tells
  <2>7. res \in Result
    BY <2>2 DEF Compare, Result, Request, TypeOK, End
  <2>8. m \in Message /\ m.kind = "response" /\ m.result = res /\ Response(res) = <<m>>
    BY <2>7 DEF Message, Response
  <2>9. result' = [result EXCEPT !["r"] = res] /\ Answers("r", <<m>>)
    BY <2>3, <2>8
  <2> HIDE DEF m, res
  <2>10. <<m>> \in Seq(Message) /\ DOMAIN <<m>> = {1} /\ <<m>>[1] = m
    BY <2>8, OneMessage
  <2>11. FolderOrder'
    BY <1>1, <1>2, <2>1, <2>8, <2>9, <2>10, HandlerUnordered DEF Unordered
  <2>12. \A d \in End : Placed(d)' /\ Compared(d)'
    <3>1. result'["r"] = res /\ result'["i"] = result["i"]
      BY <1>2, <2>9 DEF TypeOK
    <3>2. Compared("r")'
      BY <1>3, <2>5, <3>1 DEF Compared
    <3>3. Compared("i")'
      BY <1>2, <1>4, <3>1
    <3> QED BY <1>2, <1>4, <3>2, <3>3
  <2>13. \A n \in DOMAIN <<m>> : Carries(folders', Peer("r"), <<m>>[n])
    BY <1>2, <1>3, <2>6, <2>8, <2>10 DEF Carries
  <2>14. FolderContents'
    BY <1>1, <1>2, <1>3, <2>1, <2>9, <2>10, <2>12, <2>13, HandlerFolders
  <2> QED BY <2>11, <2>14
<1>8. CASE TakeResponse
  <2> DEFINE m == Head(chan["i"])
             res == InverseResult(m.result)
             ack == Msg("ack")
  <2>1. /\ chan["i"] # <<>> /\ out["i"] = <<>> /\ m \in Message /\ m.kind = "response"
        /\ Answers("i", <<ack>>) /\ result' = [result EXCEPT !["i"] = res]
    BY <1>2, <1>5, <1>8, Taken DEF TakeResponse, Takes
  <2>2. m.result \in Result
    BY <2>1 DEF Message, Request, Plain, About
  <2>3. Tells(folders, "i", m.result.newFolders, m.result.missing)
    <3>1. m \in OnWay("i")
      BY <1>2, <2>1, HeadOnWay
    <3> QED BY <1>2, <2>1, <3>1 DEF FolderContents, Carries
  <2>4. res.peerFolders = m.result.newFolders /\ res.peerMissing = m.result.missing
    BY <2>2 DEF InverseResult, Result
  <2>5. ack \in Message /\ ack.kind = "ack"
    BY Messages DEF Plain
  <2> HIDE DEF ack, res, m
  <2>6. <<ack>> \in Seq(Message) /\ DOMAIN <<ack>> = {1} /\ <<ack>>[1] = ack
    BY <2>5, OneMessage
  <2>7. FolderOrder'
    BY <1>1, <1>2, <2>1, <2>5, <2>6, HandlerUnordered DEF Unordered, m
  <2>8. \A d \in End : Placed(d)' /\ Compared(d)'
    <3>1. result'["i"] = res /\ result'["r"] = result["r"]
      BY <1>2, <2>1 DEF TypeOK
    <3>2. Compared("i")'
      BY <1>3, <2>3, <2>4, <3>1 DEF Compared
    <3>3. Compared("r")'
      BY <1>2, <1>4, <3>1
    <3> QED BY <1>2, <1>4, <3>2, <3>3
  <2>9. \A n \in DOMAIN <<ack>> : Carries(folders', Peer("i"), <<ack>>[n])
    BY <2>5, <2>6, CarriesOther
  <2>10. FolderContents'
    BY <1>1, <1>2, <1>3, <2>1, <2>6, <2>8, <2>9, HandlerFolders
  <2> QED BY <2>7, <2>10
<1>9. CASE TakeAck
  <2> DEFINE m == Msg("network")
  <2>1. /\ chan["r"] # <<>> /\ out["r"] = <<>> /\ Head(chan["r"]).kind = "ack"
        /\ Answers("r", <<m>>) /\ result' = result
    BY <1>9 DEF TakeAck, Takes
  <2>2. m \in Message /\ m.kind = "network"
    BY Messages DEF Plain
  <2> HIDE DEF m
  <2>3. <<m>> \in Seq(Message) /\ DOMAIN <<m>> = {1} /\ <<m>>[1] = m
    BY <2>2, OneMessage
  <2>4. FolderOrder'
    BY <1>1, <1>2, <2>1, <2>2, <2>3, HandlerUnordered DEF Unordered
  <2>5. \A d \in End : Placed(d)' /\ Compared(d)'
    BY <1>4, <2>1
  <2>6. \A n \in DOMAIN <<m>> : Carries(folders', Peer("r"), <<m>>[n])
    BY <2>2, <2>3, CarriesOther
  <2>7. FolderContents'
    BY <1>1, <1>2, <1>3, <2>1, <2>3, <2>5, <2>6, HandlerFolders
  <2> QED BY <2>4, <2>7
<1> QED BY <1>6, <1>7, <1>8, <1>9

LEMMA FoldersNetwork ==
    ASSUME TypeOK, IInv, FolderContents, FolderOrder, NEW e \in End, TakeNetwork(e)
    PROVE  FolderContents' /\ FolderOrder'
<1>1. /\ FoldersPass /\ UNCHANGED <<held, folders, misplaced, made, result>>
  BY FoldersSame DEF TakeNetwork, database, asking
<1>2. "i" \in End /\ "r" \in End /\ Peer("i") = "r" /\ Peer("r") = "i" /\ e \in {"i", "r"}
  BY DEF End, Peer
<1> DEFINE msgs == NetworkAnswer(e)
<1>3. /\ chan[e] # <<>> /\ out[e] = <<>> /\ Head(chan[e]).kind = "network" /\ Answers(e, msgs)
  BY DEF TakeNetwork, Takes
<1>4. /\ Msg("network") \in Message /\ Msg("network").kind = "network"
      /\ Msg("networkAck") \in Message /\ Msg("networkAck").kind = "networkAck"
  BY Messages DEF Plain
<1>5. /\ msgs \in Seq(Message)
      /\ e = "i" => DOMAIN msgs = {1, 2} /\ msgs[1].kind = "network" /\ msgs[2].kind = "networkAck"
      /\ e = "r" => DOMAIN msgs = {1} /\ msgs[1].kind = "networkAck"
  BY <1>2, <1>4, OneMessage, TwoMessages DEF NetworkAnswer
<1> HIDE DEF msgs
<1>6. \A n \in DOMAIN msgs : msgs[n].kind \in {"network", "networkAck"}
  BY <1>2, <1>5
<1>7. FolderContents'
  <2>1. \A n \in DOMAIN msgs : Carries(folders', Peer(e), msgs[n])
    BY <1>6, CarriesOther
  <2>2. \A d \in End : Placed(d)' /\ Compared(d)'
    BY <1>1, PlacedStays, ComparedStays
  <2> QED BY <1>1, <1>3, <1>5, <2>1, <2>2, HandlerFolders
<1>8. FolderOrder'
  <2>1. \A d \in End : Given(d) => Given(d)'
    BY <1>1, CarriesStays
  <2>2. /\ Kinds(e)' \subseteq Kinds(e)
        /\ \A kind \in Kinds(e) : kind # "network" => kind \in Kinds(e)'
        /\ Kinds(Peer(e))' = Kinds(Peer(e)) \cup {msgs[n].kind : n \in DOMAIN msgs}
    BY <1>3, <1>5, KindsAnswer
  <2>3. \A kind, lead : Led(Way(e), kind, lead) /\ lead # "network" => Led(Way(e), kind, lead)'
    BY <1>3, <1>5, LedAnswer
  <2>4. \A kind, lead : Led(Way(Peer(e)), kind, lead) /\ kind \notin {"network", "networkAck"}
                            => Led(Way(Peer(e)), kind, lead)'
    BY <1>3, <1>5, <1>6, LedAnswer, LedNone
  <2>5. CASE e = "i"
    <3>1. Led(msgs, "networkAck", "network")
      <4>1. \A n \in {1, 2} : n = 2 => 1 \in 1 .. n - 1
        OBVIOUS
      <4> QED BY <1>5, <2>5, <4>1 DEF Led
    <3>2. Led(Way("r"), "networkAck", "network") => Led(Way("r"), "networkAck", "network")'
      BY <1>2, <1>3, <1>5, <2>5, <3>1, LedAnswer
    <3>3. Kinds("r")' = Kinds("r") \cup {"network", "networkAck"}
      BY <1>2, <1>5, <2>2, <2>5
    <3> QED BY <1>2, <2>1, <2>2, <2>3, <2>4, <2>5, <3>2, <3>3 DEF FolderOrder
  <2>6. CASE e = "r"
    <3>1. Kinds("i")' = Kinds("i") \cup {"networkAck"}
      BY <1>2, <1>5, <2>2, <2>6
    <3> QED BY <1>2, <2>1, <2>2, <2>3, <2>4, <2>6, <3>1 DEF FolderOrder
  <2> QED BY <1>2, <2>5, <2>6
<1> QED BY <1>7, <1>8

LEMMA UnknownCarried ==
    ASSUME TypeOK, FolderContents, NEW e \in End, result[e].stored
    PROVE  /\ UnknownFolders(e) \in Message /\ UnknownFolders(e).kind = "folders"
           /\ Carries(folders, Peer(e), UnknownFolders(e))
<1>1. Peer(Peer(e)) = e
  BY Peers
<1>2. UnknownFolders(e).kind = "folders" /\ UnknownFolders(e).folders = result[e].peerFolders
  BY DEF UnknownFolders
<1>3. Tells(folders, e, result[e].peerFolders, {})
  BY DEF FolderContents, Compared, Tells
<1>4. UnknownFolders(e) \in Message
  BY DEF UnknownFolders, Message, TypeOK, Result
<1> QED BY <1>1, <1>2, <1>3, <1>4 DEF Carries

LEMMA FoldersAck ==
    ASSUME TypeOK, IInv, FolderContents, FolderOrder, NEW e \in End, TakeNetworkAck(e)
    PROVE  FolderContents' /\ FolderOrder'
<1>1. /\ FoldersPass /\ UNCHANGED <<held, folders, misplaced, made, result>>
  BY FoldersSame DEF TakeNetworkAck, database, asking
<1>2. "i" \in End /\ "r" \in End /\ Peer("i") = "r" /\ Peer("r") = "i" /\ e \in {"i", "r"}
  BY DEF End, Peer
<1> DEFINE m == UnknownFolders(e)
<1>3. /\ chan[e] # <<>> /\ out[e] = <<>> /\ Head(chan[e]).kind = "networkAck" /\ Answers(e, <<m>>)
      /\ result[e].stored
  BY DEF TakeNetworkAck, Takes
<1>4. m \in Message /\ m.kind = "folders" /\ Carries(folders, Peer(e), m)
  BY <1>3, UnknownCarried
<1> HIDE DEF m
<1>5. <<m>> \in Seq(Message) /\ DOMAIN <<m>> = {1} /\ <<m>>[1] = m
  BY <1>4, OneMessage
<1>6. FolderContents'
  <2>1. \A n \in DOMAIN <<m>> : Carries(folders', Peer(e), <<m>>[n])
    BY <1>1, <1>4, <1>5
  <2>2. \A d \in End : Placed(d)' /\ Compared(d)'
    BY <1>1, PlacedStays, ComparedStays
  <2> QED BY <1>1, <1>3, <1>5, <2>1, <2>2, HandlerFolders
<1>7. FolderOrder'
  <2>1. \A d \in End : Given(d) => Given(d)'
    BY <1>1, CarriesStays
  <2>2. /\ Kinds(e)' \subseteq Kinds(e)
        /\ \A kind \in Kinds(e) : kind # "networkAck" => kind \in Kinds(e)'
        /\ Kinds(Peer(e))' = Kinds(Peer(e)) \cup {"folders"}
    <3>1. {<<m>>[n].kind : n \in DOMAIN <<m>>} = {"folders"}
      BY <1>4, <1>5
    <3>2. /\ Kinds(e)' \subseteq Kinds(e)
          /\ \A kind \in Kinds(e) : kind # "networkAck" => kind \in Kinds(e)'
          /\ Kinds(Peer(e))' = Kinds(Peer(e)) \cup {<<m>>[n].kind : n \in DOMAIN <<m>>}
      BY <1>3, <1>5, KindsAnswer
    <3> QED BY <3>1, <3>2
  <2>3. \A kind, lead : Led(Way(e), kind, lead)
            => kind # "networkAck" /\ (lead # "networkAck" => Led(Way(e), kind, lead)')
    BY <1>3, <1>5, LedAnswer
  <2>4. \A kind, lead : Led(Way(Peer(e)), kind, lead) /\ (kind # "folders" \/ lead \in Kinds(Peer(e)))
                            => Led(Way(Peer(e)), kind, lead)'
    <3>1. \A kind, lead : kind # "folders" => Led(<<m>>, kind, lead)
      BY <1>4, <1>5, LedNone
    <3> QED BY <1>3, <1>5, <3>1, LedAnswer
  <2>5. CASE e = "i"
    BY <1>2, <2>1, <2>2, <2>4, <2>5 DEF FolderOrder
  <2>6. CASE e = "r"
    BY <1>2, <2>1, <2>2, <2>3, <2>4, <2>6 DEF FolderOrder
  <2> QED BY <1>2, <2>5, <2>6
<1> QED BY <1>6, <1>7

LEMMA FoldersFolders ==
    ASSUME TypeOK, IInv, FolderContents, FolderOrder, NEW e \in End, TakeFolders(e)
    PROVE  FolderContents' /\ FolderOrder'
<1> DEFINE m == IF e = "r" THEN UnknownFolders(e) ELSE Msg("recipients")
           got == Head(chan[e])
<1>1. "i" \in End /\ "r" \in End /\ Peer("i") = "r" /\ Peer("r") = "i" /\ e \in {"i", "r"}
  BY DEF End, Peer
<1>2. /\ chan[e] # <<>> /\ out[e] = <<>> /\ got.kind = "folders" /\ Answers(e, <<m>>)
      /\ result[e].stored /\ folders' = [folders EXCEPT ![e] = @ \cup got.folders]
      /\ UNCHANGED <<held, misplaced, made, result>>
  BY DEF TakeFolders, Takes, asking
<1>3. Tells(folders, Peer(e), got.folders, {})
  BY <1>2, HeadOnWay DEF FolderContents, Carries
<1>4. /\ folders'[e] = folders[e] \cup got.folders /\ folders'[Peer(e)] = folders[Peer(e)]
      /\ Peer(Peer(e)) = e /\ \A d \in End : d = e \/ d = Peer(e)
  BY <1>2, Peers DEF TypeOK
<1>5. FoldersPass
  BY <1>3, <1>4 DEF FoldersPass, Tells
<1>6. Given(e)'
  BY <1>3, <1>4 DEF Given, Tells
<1>7. /\ m \in Message /\ Carries(folders', Peer(e), m)
      /\ m.kind = IF e = "r" THEN "folders" ELSE "recipients"
  <2>1. CASE e = "r"
    <3>1. m = UnknownFolders(e)
      BY <2>1
    <3>2. m \in Message /\ m.kind = "folders" /\ Carries(folders, Peer(e), m)
      BY <1>2, <3>1, UnknownCarried
    <3> QED BY <1>4, <1>5, <2>1, <3>2, CarriesStays, Peers
  <2>2. CASE e # "r"
    <3>1. m = Msg("recipients") /\ m \in Message /\ m.kind = "recipients"
      BY <2>2, Messages DEF Plain
    <3> QED BY <2>2, <3>1, CarriesOther
  <2> QED BY <2>1, <2>2
<1> HIDE DEF m, got
<1>8. <<m>> \in Seq(Message) /\ DOMAIN <<m>> = {1} /\ <<m>>[1] = m
  BY <1>7, OneMessage
<1>9. FolderContents'
  <2>1. \A n \in DOMAIN <<m>> : Carries(folders', Peer(e), <<m>>[n])
    BY <1>7, <1>8
  <2>2. \A d \in End : Placed(d)' /\ Compared(d)'
    BY <1>2, <1>5, PlacedStays, ComparedStays
  <2> QED BY <1>2, <1>5, <1>8, <2>1, <2>2, HandlerFolders DEF got
<1>10. FolderOrder'
  <2>1. \A d \in End : Given(d) => Given(d)'
    BY <1>5, CarriesStays
  <2>2. /\ Kinds(e)' \subseteq Kinds(e)
        /\ \A kind \in Kinds(e) : kind # "folders" => kind \in Kinds(e)'
        /\ Kinds(Peer(e))' = Kinds(Peer(e)) \cup {m.kind}
    <3>1. {<<m>>[n].kind : n \in DOMAIN <<m>>} = {m.kind}
      BY <1>8
    <3>2. /\ Kinds(e)' \subseteq Kinds(e)
          /\ \A kind \in Kinds(e) : kind # "folders" => kind \in Kinds(e)'
          /\ Kinds(Peer(e))' = Kinds(Peer(e)) \cup {<<m>>[n].kind : n \in DOMAIN <<m>>}
      BY <1>2, <1>8, KindsAnswer DEF got
    <3> QED BY <3>1, <3>2
  <2>3. \A kind, lead : Led(Way(e), kind, lead)
            => kind # "folders" /\ (lead # "folders" => Led(Way(e), kind, lead)')
    BY <1>2, <1>8, LedAnswer DEF got
  <2>4. \A kind, lead : Led(Way(Peer(e)), kind, lead) /\ (kind # m.kind \/ lead \in Kinds(Peer(e)))
                            => Led(Way(Peer(e)), kind, lead)'
    <3>1. \A kind, lead : kind # m.kind => Led(<<m>>, kind, lead)
      BY <1>8, LedNone
    <3> QED BY <1>2, <1>8, <3>1, LedAnswer
  <2>5. CASE e = "i"
    BY <1>1, <1>6, <1>7, <2>1, <2>2, <2>3, <2>4, <2>5 DEF FolderOrder
  <2>6. CASE e = "r"
    BY <1>1, <1>6, <1>7, <2>1, <2>2, <2>3, <2>4, <2>6 DEF FolderOrder
  <2> QED BY <1>1, <2>5, <2>6
<1> QED BY <1>9, <1>10

LEMMA FoldersRecipients ==
    ASSUME TypeOK, IInv, FolderContents, FolderOrder, NEW e \in End, TakeRecipients(e)
    PROVE  FolderContents' /\ FolderOrder'
<1>1. /\ FoldersPass /\ UNCHANGED <<held, folders, misplaced, made, result>>
  BY FoldersSame DEF TakeRecipients, database, asking
<1>2. /\ "i" \in End /\ "r" \in End /\ Peer("i") = "r" /\ Peer("r") = "i" /\ e \in {"i", "r"}
      /\ Peer(e) \in End /\ Peer(Peer(e)) = e
  BY DEF End, Peer
<1>3. PICK msgs \in RecipientAnswers(e) : Answers(e, msgs)
  BY DEF TakeRecipients
<1>4. chan[e] # <<>> /\ out[e] = <<>> /\ Head(chan[e]).kind = "recipients" /\ result[e].stored
  BY DEF TakeRecipients, Takes
<1>5. /\ msgs \in Seq(Message)
      /\ \A n \in DOMAIN msgs : \/ msgs[n].kind \in {"complete", "recipients"}
                                \/ \E x \in result[e].peerMissing : msgs[n] = MsgOf("add", x)
  BY RecipientsMembers
<1>6. FolderContents'
  <2>1. ASSUME NEW n \in DOMAIN msgs PROVE Carries(folders', Peer(e), msgs[n])
    <3>1. CASE msgs[n].kind \in {"complete", "recipients"}
      BY <3>1, CarriesOther
    <3>2. ASSUME NEW x \in result[e].peerMissing, msgs[n] = MsgOf("add", x)
          PROVE  Carries(folders', Peer(e), msgs[n])
      <4>1. FolderOf[x] \in folders'[e]
        BY <1>1, <1>4 DEF FolderContents, Compared, Tells
      <4>2. msgs[n].kind = "add" /\ msgs[n].resource = x
        BY <3>2 DEF MsgOf
      <4> QED BY <1>2, <4>1, <4>2 DEF Carries
    <3> QED BY <1>5, <3>1, <3>2
  <2>2. \A d \in End : Placed(d)' /\ Compared(d)'
    BY <1>1, PlacedStays, ComparedStays
  <2> QED BY <1>1, <1>3, <1>4, <1>5, <2>1, <2>2, HandlerFolders
<1>7. FolderOrder'
  <2>1. "recipients" \in Kinds(e)
    BY <1>3, <1>4, <1>5, KindsAnswer
  <2>2. ~Led(Way(e), "recipients", "folders")
    BY <1>3, <1>4, <1>5, LedAnswer
  <2>3. Given("i") /\ Given("r")
    BY <1>2, <2>1, <2>2 DEF FolderOrder
  <2>4. Given("i")' /\ Given("r")'
    BY <1>1, <1>2, <2>3, CarriesStays
  <2> QED BY <2>4 DEF FolderOrder
<1> QED BY <1>6, <1>7

LEMMA FoldersAdd ==
    ASSUME TypeOK, IInv, FolderContents, FolderOrder, NEW e \in End, TakeAdd(e)
    PROVE  FolderContents' /\ FolderOrder'
<1> DEFINE x == Head(chan[e]).resource
           left == result[e].missing \ {x}
           msgs == IF left = {} THEN <<Msg("complete")>> ELSE <<>>
<1>1. /\ FoldersPass /\ UNCHANGED <<folders, made>>
  BY FoldersSame DEF TakeAdd, asking
<1>2. /\ "i" \in End /\ "r" \in End /\ Peer("i") = "r" /\ Peer("r") = "i" /\ e \in {"i", "r"}
      /\ Peer(e) \in End
  BY DEF End, Peer
<1>3. /\ chan[e] # <<>> /\ out[e] = <<>> /\ Head(chan[e]).kind = "add" /\ Answers(e, msgs)
      /\ held' = [held EXCEPT ![e] = @ \cup {x}] /\ result' = [result EXCEPT ![e].missing = left]
      /\ misplaced' = [misplaced EXCEPT ![e] =
            IF x \notin held[e] /\ FolderOf[x] \notin folders[e] THEN @ \cup {x} ELSE @]
  BY DEF TakeAdd, Takes
<1>4. /\ Msg("complete") \in Message /\ Msg("complete").kind = "complete"
  BY Messages DEF Plain
<1>5. /\ msgs \in Seq(Message) /\ \A n \in DOMAIN msgs : msgs[n].kind = "complete"
  <2>1. CASE left = {}
    BY <1>4, <2>1, OneMessage
  <2>2. CASE left # {}
    BY <2>2, EmptySeq
  <2> QED BY <2>1, <2>2
<1>6. Head(chan[e]) \in OnWay(e) /\ "add" \in Kinds(e)
  BY <1>3, HeadOnWay DEF Kinds
<1>7. FolderOf[x] \in folders[e]
  <2>1. FolderOf[x] \in folders[Peer(e)]
    BY <1>3, <1>6 DEF FolderContents, Carries
  <2>2. Given(e)
    BY <1>2, <1>6 DEF FolderOrder
  <2> QED BY <2>1, <2>2 DEF Given
<1> HIDE DEF msgs, left, x
<1>8. FolderOrder'
  BY <1>1, <1>3, <1>5, HandlerUnordered DEF Unordered
<1>9. \A d \in End : Placed(d)' /\ Compared(d)'
  <2>1. ASSUME NEW d \in End PROVE Placed(d)'
    <3>1. misplaced'[d] = misplaced[d] /\ held'[d] \subseteq held[d] \cup (IF d = e THEN {x} ELSE {})
      BY <1>3, <1>7 DEF TypeOK
    <3> QED BY <1>1, <1>7, <3>1 DEF Placed, FolderContents
  <2>2. ASSUME NEW d \in End PROVE Compared(d)'
    <3>1. /\ result'[d].stored = result[d].stored
          /\ result'[d].peerFolders = result[d].peerFolders
          /\ result'[d].peerMissing = result[d].peerMissing
      BY <1>3 DEF TypeOK, Result
    <3> QED BY <1>1, <3>1 DEF Compared, FolderContents
  <2> QED BY <2>1, <2>2
<1>10. FolderContents'
  <2>1. \A n \in DOMAIN msgs : Carries(folders', Peer(e), msgs[n])
    BY <1>5, CarriesOther
  <2> QED BY <1>1, <1>3, <1>5, <1>9, <2>1, HandlerFolders
<1> QED BY <1>8, <1>10

\* The merges, whose messages are about one resource each.
LEMMA MergesAnswer ==
    ASSUME TypeOK, IInv, NEW e \in End,
           \/ TakeComplete(e)
           \/ \E kind \in {"svRequest", "updates", "final"} : \E next \in {"updates", "final", "clocks"} :
                 MergeStep(e, kind, next)
           \/ e = "i" /\ TakeClocks
    PROVE  /\ UNCHANGED <<held, folders, misplaced, made, wanted, result>>
           /\ chan[e] # <<>> /\ out[e] = <<>>
           /\ Head(chan[e]).kind \in {"complete", "svRequest", "updates", "final", "clocks"}
           /\ \E msgs \in Seq(Message) :
                 /\ Answers(e, msgs)
                 /\ \A n \in DOMAIN msgs : msgs[n].kind \in {"svRequest", "updates", "final", "clocks"}
<1>1. UNCHANGED <<held, folders, misplaced, made, wanted, result>>
  BY DEF TakeComplete, MergeStep, TakeClocks, database, asking
<1>2. CASE TakeComplete(e)
  <2>1. PICK msgs \in MergeRequests(e) : Answers(e, msgs)
    BY <1>2 DEF TakeComplete
  <2>2. msgs \in Seq(Message) /\ \A n \in DOMAIN msgs : msgs[n].kind = "svRequest"
    <3>1. CASE e = "i"
      <4>1. msgs \in OneEach("svRequest", result[e].differ) /\ result[e].differ \in SUBSET Resource
        BY <2>1, <3>1 DEF MergeRequests, TypeOK, Result
      <4>2. \A x : MsgOf("svRequest", x).kind = "svRequest"
        BY DEF MsgOf
      <4> QED BY <4>1, <4>2, OneEachMembers DEF About
    <3>2. CASE e # "i"
      BY <2>1, <3>2, EmptySeq DEF MergeRequests
    <3> QED BY <3>1, <3>2
  <2>3. chan[e] # <<>> /\ out[e] = <<>> /\ Head(chan[e]).kind = "complete"
    BY <1>2 DEF TakeComplete, Takes
  <2> QED BY <1>1, <2>1, <2>2, <2>3
<1>3. ASSUME NEW kind \in {"svRequest", "updates", "final"}, NEW next \in {"updates", "final", "clocks"},
             MergeStep(e, kind, next)
      PROVE  /\ chan[e] # <<>> /\ out[e] = <<>> /\ Head(chan[e]).kind = kind
             /\ \E msgs \in Seq(Message) : Answers(e, msgs) /\ \A n \in DOMAIN msgs : msgs[n].kind = next
  <2> DEFINE m == MsgOf(next, Head(chan[e]).resource)
  <2>1. /\ chan[e] # <<>> /\ out[e] = <<>> /\ Head(chan[e]).kind = kind /\ Head(chan[e]) \in Message
        /\ Answers(e, <<m>>)
    BY <1>3, Taken DEF MergeStep, Takes, IInv
  <2>2. Head(chan[e]).resource \in Resource
    BY <2>1 DEF Message, Request, Plain, About
  <2>3. m \in Message /\ m.kind = next
    BY <2>2, Messages DEF About
  <2> HIDE DEF m
  <2>4. <<m>> \in Seq(Message) /\ DOMAIN <<m>> = {1} /\ <<m>>[1] = m
    BY <2>3, OneMessage
  <2> QED BY <2>1, <2>3, <2>4
<1>4. CASE e = "i" /\ TakeClocks
  <2>1. /\ chan[e] # <<>> /\ out[e] = <<>> /\ Head(chan[e]).kind = "clocks" /\ Answers(e, <<>>)
    BY <1>4 DEF TakeClocks, Takes
  <2>2. <<>> \in Seq(Message) /\ DOMAIN <<>> = {}
    BY EmptySeq
  <2> QED BY <1>1, <2>1, <2>2
<1> QED BY <1>1, <1>2, <1>3, <1>4

\* The merges say nothing of folders.
LEMMA FoldersMerges ==
    ASSUME TypeOK, IInv, FolderContents, FolderOrder, NEW e \in End,
           \/ TakeComplete(e)
           \/ \E kind \in {"svRequest", "updates", "final"} : \E next \in {"updates", "final", "clocks"} :
                 MergeStep(e, kind, next)
           \/ e = "i" /\ TakeClocks
    PROVE  FolderContents' /\ FolderOrder'
<1>1. /\ UNCHANGED <<held, folders, misplaced, made, result>> /\ chan[e] # <<>> /\ out[e] = <<>>
      /\ Head(chan[e]).kind \in {"complete", "svRequest", "updates", "final", "clocks"}
  BY MergesAnswer
<1>2. PICK msgs \in Seq(Message) :
          /\ Answers(e, msgs)
          /\ \A n \in DOMAIN msgs : msgs[n].kind \in {"svRequest", "updates", "final", "clocks"}
  BY MergesAnswer
<1>3. FoldersPass /\ \A d \in End : Placed(d)' /\ Compared(d)'
  BY <1>1, FoldersSame, PlacedStays, ComparedStays
<1>4. \A n \in DOMAIN msgs : Carries(folders', Peer(e), msgs[n])
  BY <1>2, CarriesOther
<1>5. FolderContents'
  BY <1>1, <1>2, <1>3, <1>4, HandlerFolders
<1>6. FolderOrder'
  BY <1>1, <1>2, <1>3, HandlerUnordered DEF Unordered
<1> QED BY <1>5, <1>6

\* Those who ask for a sync.
LEMMA FoldersAsk ==
    ASSUME TypeOK, FolderContents, FolderOrder, Ask
    PROVE  FolderContents' /\ FolderOrder'
<1>1. /\ FoldersPass /\ UNCHANGED <<held, folders, misplaced, result, out>>
  BY FoldersSame DEF Ask, MakeManifest, AskForRetry, SendManifest, database
<1>2. /\ "i" \in End /\ "r" \in End /\ Peer("i") = "r" /\ Peer("r") = "i" /\ End = {"i", "r"}
  BY DEF End, Peer
<1>3. \A d \in End : Placed(d)' /\ Compared(d)'
  BY <1>1, PlacedStays, ComparedStays
<1>4. CASE MakeManifest
  <2>1. chan' = chan /\ made' = Append(made, Manifest)
    BY <1>4 DEF MakeManifest
  <2>2. \A d \in End : Way(d)' = Way(d)
    BY <1>1, <2>1 DEF Way
  <2>3. \A d \in End : OnWay(d)' = OnWay(d)
    BY <2>2 DEF OnWay
  <2>4. \A d \in End : Kinds(d)' = Kinds(d)
    BY <2>3 DEF Kinds
  <2>5. \A n \in DOMAIN made' : Carries(folders, "r", made'[n])
    <3>1. /\ made \in Seq(Request) /\ Manifest \in Request
      BY DEF TypeOK, Manifest, Request, End
    <3>2. /\ Len(made) \in Nat /\ DOMAIN made = 1 .. Len(made) /\ DOMAIN made' = 1 .. Len(made) + 1
          /\ \A n \in 1 .. Len(made) + 1 : made'[n] = IF n <= Len(made) THEN made[n] ELSE Manifest
      BY <2>1, <3>1, LenProperties
    <3>3. Carries(folders, "r", Manifest)
      BY ManifestFolders
    <3>4. \A n \in 1 .. Len(made) + 1 : n <= Len(made) => n \in 1 .. Len(made)
      BY <3>2
    <3> QED BY <3>2, <3>3, <3>4 DEF FolderContents
  <2>6. FolderContents'
    BY <1>1, <1>3, <2>3, <2>5 DEF FolderContents
  <2>7. \A d \in End : Given(d)' = Given(d)
    BY <1>1 DEF Given
  <2>8. FolderOrder'
    BY <1>2, <2>2, <2>4, <2>7 DEF FolderOrder, Led
  <2> QED BY <2>6, <2>8
<1>5. ASSUME NEW e \in End, NEW m \in Message, Carries(folders, e, m),
             m.kind \in {"request", "retry"}, chan' = [chan EXCEPT ![e] = Append(@, m)],
             \A n \in DOMAIN made' : \E k \in DOMAIN made : made'[n] = made[k]
      PROVE  FolderContents' /\ FolderOrder'
  <2>1. /\ OnWay(e)' = OnWay(e) \cup {m}
        /\ Way(e)' = Append(chan[e], m) \o out[Peer(e)]
        /\ Way(Peer(e))' = Way(Peer(e))
    BY <1>1, <1>5, JoinedMembers
  <2>2. OnWay(Peer(e))' = OnWay(Peer(e))
    BY <2>1 DEF OnWay
  <2>3. Kinds(e)' = Kinds(e) \cup {m.kind} /\ Kinds(Peer(e))' = Kinds(Peer(e))
    BY <2>1, <2>2 DEF Kinds
  <2>4. \A d \in End : d = e \/ d = Peer(e)
    BY Peers
  <2>5. FolderContents'
    BY <1>1, <1>3, <1>5, <2>1, <2>2, <2>4 DEF FolderContents
  <2>6. \A kind, lead : Led(Way(Peer(e)), kind, lead) => Led(Way(Peer(e)), kind, lead)'
    BY <2>1 DEF Led
  <2>7. \A kind, lead : Led(Way(e), kind, lead) /\ kind # m.kind => Led(Way(e), kind, lead)'
    <3>1. chan[e] \in Seq(Message) /\ out[Peer(e)] \in Seq(Message)
      BY Peers, WayTyped
    <3>2. \A kind, lead : Led(Way(e), kind, lead)' <=> Led(Way(e)', kind, lead)
      BY DEF Led
    <3>3. ASSUME NEW kind, NEW lead, Led(Way(e), kind, lead), kind # m.kind
          PROVE  Led(Way(e), kind, lead)'
      <4>1. Led(chan[e] \o out[Peer(e)], kind, lead)
        BY <3>3 DEF Way
      <4>2. Led(Append(chan[e], m) \o out[Peer(e)], kind, lead)
        BY <3>1, <3>3, <4>1, LedJoined
      <4> QED BY <2>1, <3>2, <4>2
    <3> QED BY <3>3
  <2>8. \A d \in End : Given(d)' = Given(d)
    BY <1>1 DEF Given
  <2>9. FolderOrder'
    BY <1>2, <1>5, <2>3, <2>4, <2>6, <2>7, <2>8 DEF FolderOrder
  <2> QED BY <2>5, <2>9
<1>6. CASE AskForRetry
  <2>1. Msg("retry") \in Message /\ Msg("retry").kind = "retry"
    BY Messages DEF Plain
  <2>2. Carries(folders, "i", Msg("retry"))
    BY <2>1, CarriesOther
  <2> QED BY <1>2, <1>5, <1>6, <2>1, <2>2 DEF AskForRetry
<1>7. ASSUME NEW n \in DOMAIN made, SendManifest(n)
      PROVE  FolderContents' /\ FolderOrder'
  <2>1. made \in Seq(Request) /\ made[n] \in Request
    BY LenProperties, ElementOfSeq DEF TypeOK
  <2>2. made[n] \in Message /\ made[n].kind = "request"
    BY <2>1 DEF Message, Request
  <2>3. Carries(folders, "r", made[n])
    BY DEF FolderContents
  <2>4. chan' = [chan EXCEPT !["r"] = Append(@, made[n])] /\ made' = RemoveAt(made, n)
    BY <1>7 DEF SendManifest
  <2>5. \A k \in DOMAIN made' : \E j \in DOMAIN made : made'[k] = made[j]
    BY <2>1, <2>4, RemovedFrom
  <2> QED BY <1>2, <1>5, <2>2, <2>3, <2>4, <2>5
<1> QED BY <1>4, <1>6, <1>7 DEF Ask


\* A send leaves what is on its way, and its order.
LEMMA FoldersSend ==
    ASSUME TypeOK, FolderContents, FolderOrder, NEW e \in End, Send(e)
    PROVE  FolderContents' /\ FolderOrder'
<1>1. /\ FoldersPass /\ UNCHANGED <<held, folders, misplaced, made, result>>
  BY FoldersSame DEF Send, database, asking
<1>2. \A d \in End : Way(d)' = Way(d)
  BY WaySend
<1>3. \A d \in End : OnWay(d)' = OnWay(d)
  BY <1>2 DEF OnWay
<1>4. \A d \in End : Kinds(d)' = Kinds(d)
  BY <1>3 DEF Kinds
<1>5. \A d \in End : Placed(d)' /\ Compared(d)'
  BY <1>1, PlacedStays, ComparedStays
<1>6. FolderContents'
  BY <1>1, <1>3, <1>5 DEF FolderContents
<1>7. \A d \in End : Given(d)' = Given(d)
  BY <1>1 DEF Given
<1>8. "i" \in End /\ "r" \in End
  BY DEF End
<1>9. FolderOrder'
  BY <1>2, <1>4, <1>7, <1>8 DEF FolderOrder, Led
<1> QED BY <1>6, <1>9

\* A connection just made: nothing is on its way and there are no results.
Fresh ==
    /\ \A e \in End : chan[e] = <<>> /\ out[e] = <<>> /\ result[e] = NoResult
    /\ made = <<>>

LEMMA FreshWays == Fresh => \A e \in End : Way(e) = <<>> /\ OnWay(e) = {} /\ Kinds(e) = {}
<1> SUFFICES ASSUME Fresh, NEW e \in End PROVE Way(e) = <<>> /\ OnWay(e) = {} /\ Kinds(e) = {}
  OBVIOUS
<1>1. <<>> \o <<>> = <<>> /\ DOMAIN <<>> = {}
  BY EmptySeq
<1>2. Way(e) = <<>>
  BY <1>1, Peers DEF Fresh, Way
<1>3. OnWay(e) = {}
  BY <1>1, <1>2 DEF OnWay
<1> QED BY <1>2, <1>3 DEF Kinds

LEMMA FreshFolders == Fresh /\ (\A e \in End : Placed(e)) => FolderContents /\ FolderOrder
<1> SUFFICES ASSUME Fresh, \A e \in End : Placed(e) PROVE FolderContents /\ FolderOrder
  OBVIOUS
<1>1. "i" \in End /\ "r" \in End /\ DOMAIN <<>> = {}
  BY EmptySeq DEF End
<1>2. \A e \in End : Way(e) = <<>> /\ OnWay(e) = {} /\ Kinds(e) = {}
  BY FreshWays
<1>3. \A e \in End : Compared(e)
  BY DEF Fresh, Compared, NoResult
<1>4. FolderContents
  BY <1>1, <1>2, <1>3 DEF Fresh, FolderContents
<1>5. FolderOrder
  BY <1>1, <1>2 DEF FolderOrder, Led
<1> QED BY <1>4, <1>5

LEMMA FreshFoldersNext == Fresh' /\ (\A e \in End : Placed(e))' => FolderContents' /\ FolderOrder'
BY FreshFolders, PTL

LEMMA ReconnectFresh == Reconnect => Fresh'
BY DEF Reconnect, Fresh

LEMMA FoldersReconnect ==
    ASSUME TypeOK, FolderContents, Reconnect
    PROVE  FolderContents' /\ FolderOrder'
<1>1. (\A e \in End : Placed(e))'
  BY DEF Reconnect, database, FolderContents, Placed
<1> QED BY <1>1, ReconnectFresh, FreshFoldersNext

\* The initial states.
LEMMA InitFolders == Init => FInv
<1> SUFFICES ASSUME Init PROVE FolderContents /\ FolderOrder
  BY DEF FInv
<1>1. \A e \in End : Placed(e)
  BY DEF Init, Placed
<1>2. Fresh
  BY DEF Init, Fresh
<1> QED BY <1>1, <1>2, FreshFolders

\* A handler keeps what is on its way right, and its order.
LEMMA FoldersHandle ==
    ASSUME IInv, FolderContents, FolderOrder, HandleInitiator \/ HandleResponder
    PROVE  FolderContents' /\ FolderOrder'
<1>1. TypeOK /\ "i" \in End /\ "r" \in End
  BY IInvTyped DEF End
<1>2. ASSUME NEW e \in End, Handle(e) PROVE FolderContents' /\ FolderOrder'
  BY <1>1, <1>2, FoldersSend, FoldersNetwork, FoldersAck, FoldersFolders, FoldersRecipients,
     FoldersAdd, FoldersMerges DEF Handle
<1>3. CASE TakeRetry \/ TakeRequest \/ TakeResponse \/ TakeAck
  BY <1>1, <1>3, FoldersManifests
<1>4. ASSUME NEW e \in End, NEW kind \in {"svRequest", "updates", "final"},
             NEW next \in {"updates", "final", "clocks"}, MergeStep(e, kind, next)
      PROVE  FolderContents' /\ FolderOrder'
  BY <1>1, <1>4, FoldersMerges
<1>5. CASE TakeClocks
  BY <1>1, <1>5, FoldersMerges
<1>6. CASE HandleInitiator
  BY <1>1, <1>2, <1>3, <1>4, <1>5, <1>6 DEF HandleInitiator
<1>7. CASE HandleResponder
  BY <1>1, <1>2, <1>3, <1>4, <1>7 DEF HandleResponder
<1> QED BY <1>6, <1>7

\* What ends the calm does not give it back.
LEMMA CalmStays == IInv /\ [Next]_vars /\ Calm' => Calm /\ ~User /\ \A e \in End : ~HandlerFails(e) /\ ~AskFails(e)
<1> SUFFICES ASSUME IInv, [Next]_vars, Calm'
             PROVE  Calm /\ ~User /\ \A e \in End : ~HandlerFails(e) /\ ~AskFails(e)
  OBVIOUS
<1>1. adds \in Nat /\ faults \subseteq {"error", "drop"}
  BY BoundAssumption DEF IInv, Tables
<1>2. adds' = 0 /\ "error" \notin faults'
  BY DEF Calm
<1>3. User => adds' = adds + 1
  BY DEF User, Create, ShareFolder
<1>4. \A e \in End : ~HandlerFails(e) /\ ~AskFails(e)
  BY <1>2 DEF HandlerFails, AskFails, Fault
<1>5. ~User
  <2>1. adds + 1 # 0
    BY <1>1
  <2> QED BY <1>2, <1>3, <2>1
<1>6. adds' = adds /\ faults \subseteq faults'
  <2>1. CASE Reconnect
    BY <2>1 DEF Reconnect, Fault
  <2>2. CASE UNCHANGED vars
    BY <2>2 DEF vars
  <2>3. CASE Ask
    BY <2>3 DEF Ask, MakeManifest, AskForRetry, SendManifest
  <2>4. ASSUME NEW e \in End, Handle(e) PROVE adds' = adds /\ faults \subseteq faults'
    BY <2>4 DEF Handle, Send, TakeNetwork, TakeNetworkAck, TakeFolders, TakeRecipients, TakeAdd,
                TakeComplete, asking
  <2>5. CASE HandleInitiator
    BY <2>4, <2>5 DEF HandleInitiator, TakeRetry, TakeResponse, MergeStep, TakeClocks, asking, End
  <2>6. CASE HandleResponder
    BY <2>4, <2>6 DEF HandleResponder, TakeRequest, TakeAck, MergeStep, asking, End
  <2> QED BY <1>4, <1>5, <2>1, <2>2, <2>3, <2>5, <2>6 DEF Next
<1> QED BY <1>2, <1>4, <1>5, <1>6 DEF Calm

LEMMA StepFolders == IInv /\ FInv /\ [Next]_vars => FInv'
<1> SUFFICES ASSUME IInv, FInv, [Next]_vars, Calm' PROVE FolderContents' /\ FolderOrder'
  BY DEF FInv
<1>1. TypeOK /\ FolderContents /\ FolderOrder
  BY CalmStays, IInvTyped DEF FInv
<1>2. CASE HandleInitiator \/ HandleResponder
  BY <1>1, <1>2, FoldersHandle
<1>3. CASE Ask
  BY <1>1, <1>3, FoldersAsk
<1>4. CASE Reconnect
  BY <1>1, <1>4, FoldersReconnect
<1>5. CASE UNCHANGED vars
  <2>1. UNCHANGED <<held, folders, misplaced, made, result, chan, out>>
    BY <1>5 DEF vars
  <2>2. \A d \in End : Way(d)' = Way(d) /\ Given(d)' = Given(d) /\ Placed(d)' = Placed(d) /\ Compared(d)' = Compared(d)
    BY <2>1 DEF Way, Given, Placed, Compared
  <2>3. \A d \in End : OnWay(d)' = OnWay(d)
    BY <2>2 DEF OnWay
  <2>4. \A d \in End : Kinds(d)' = Kinds(d)
    BY <2>3 DEF Kinds
  <2>5. FolderContents'
    BY <1>1, <2>1, <2>2, <2>3 DEF FolderContents
  <2>6. "i" \in End /\ "r" \in End
    BY DEF End
  <2>7. FolderOrder'
    BY <1>1, <2>2, <2>4, <2>6 DEF FolderOrder, Led
  <2> QED BY <2>5, <2>7
<1> QED BY <1>2, <1>3, <1>4, <1>5, CalmStays DEF Next

LEMMA AlwaysFolders == Spec => []FInv
<1>1. Init => IInv /\ FInv
  BY InitIInv, InitFolders
<1>2. (IInv /\ FInv) /\ [Next]_vars => (IInv /\ FInv)'
  BY StepIInv, StepFolders
<1> QED BY <1>1, <1>2, PTL DEF Spec

\* Until something is created in between or a handler fails, no resource of a
\* sync goes to the default folder, whichever manifests overlap and whenever the
\* connection is lost: every add_resource_sync finds the folder.
THEOREM FoldersFirst == Spec => []FolderFirst
<1>1. FInv => FolderFirst
  BY DEF FInv, Calm, FolderContents, Placed, FolderFirst
<1> QED BY <1>1, AlwaysFolders, PTL

----------------------------------------------------------------------------
(* Delivery: DInv is the invariant.  The order of the manifests.           *)

\* The manifests in which the initiator has x, or not, and the responses that
\* say that the responder lacks x, or not.
Asks(x) == {m \in Message : m.kind = "request" /\ x \in m.held}
AsksNot(x) == {m \in Message : m.kind = "request" /\ x \notin m.held}
Finds(x) == {m \in Message : m.kind = "response" /\ x \in m.result.missing}
FindsNot(x) == {m \in Message : m.kind = "response" /\ x \notin m.result.missing}

Pending == OnWay("r") \cup {made[n] : n \in DOMAIN made}

\* A sync will be asked for.
Due == wanted["i"] > 0 \/ wanted["r"] > 0 \/ "retry" \in Kinds("i")

\* A sync is on its way to the responder's resources.
Under ==
    \/ "response" \in Kinds("i") \/ "ack" \in Kinds("r") \/ "network" \in Kinds("i")
    \/ "networkAck" \in Kinds("r") \/ "folders" \in Kinds("i") \/ "recipients" \in Kinds("r")

\* Nobody tells of resources that it, or the one it has it from, does not hold.
Holding(h, e, m) ==
    /\ m.kind = "request" => m.held \subseteq h[Peer(e)]
    /\ m.kind = "response" => m.result.missing \subseteq h[e]
    /\ m.kind = "add" => m.resource \in h[Peer(e)]

HeldSound ==
    /\ \A e \in End : result[e].peerMissing \subseteq held[e]
    /\ \A e \in End : \A m \in OnWay(e) : Holding(held, e, m)
    /\ \A n \in DOMAIN made : Holding(held, "r", made[n])

OneManifest ==
    /\ Len(made) <= 1
    /\ (\E n \in DOMAIN out["i"] : out["i"][n].kind = "request") => made = <<>>

\* Once the initiator has told of x, it goes on telling of it.
InOrder(x) ==
    /\ Never(Way("r"), Asks(x), AsksNot(x))
    /\ Never(Way("i"), Finds(x), FindsNot(x))
    /\ (\E m \in OnWay("r") : m \in Asks(x)) => \A n \in DOMAIN made : made[n] \notin AsksNot(x)
    /\ (\E m \in OnWay("i") : m \in Finds(x)) \/ x \in result["i"].peerMissing
          => \A m \in Pending : m \notin AsksNot(x)
    /\ x \in result["i"].peerMissing => \A m \in OnWay("i") : m \notin FindsNot(x)

\* What brings x to the initiator, and what brings it to the responder.
ToInitiator(x) ==
    \/ Due \/ \E m \in Pending : m.kind = "request"
    \/ x \in result["r"].peerMissing /\ (Under \/ MsgOf("add", x) \in OnWay("i"))

ToResponder(x) ==
    \/ Due \/ \E m \in Pending : m \in Asks(x)
    \/ \E m \in OnWay("i") : m \in Finds(x)
    \/ /\ x \in result["i"].peerMissing
       /\ Under \/ "recipients" \in Kinds("i") \/ MsgOf("add", x) \in OnWay("r")

Ordered == HeldSound /\ OneManifest /\ \A x \in Resource \ held["r"] : InOrder(x)

Brought ==
    /\ \A x \in held["r"] \ held["i"] : ToInitiator(x)
    /\ \A x \in held["i"] \ held["r"] : ToResponder(x)

DInv == "error" \notin faults => Ordered /\ Brought

\* What the queues keep of their order when a handler takes and answers.
LEMMA NeverAnswer ==
    ASSUME TypeOK, NEW e \in End, chan[e] # <<>>, out[e] = <<>>,
           NEW msgs \in Seq(Message), Answers(e, msgs), NEW A, NEW Z
    PROVE  /\ Never(Way(e), A, Z) =>
                 /\ Never(Way(e), A, Z)'
                 /\ Head(chan[e]) \in A => \A m \in OnWay(e)' : m \notin Z
           /\ /\ Never(Way(Peer(e)), A, Z) /\ Never(msgs, A, Z)
              /\ (\E m \in OnWay(Peer(e)) : m \in A) => \A n \in DOMAIN msgs : msgs[n] \notin Z
              => Never(Way(Peer(e)), A, Z)'
<1> DEFINE q == Way(e)
           p == Way(Peer(e))
<1>1. /\ q \in Seq(Message) /\ p \in Seq(Message) /\ q # <<>> /\ Head(q) = Head(chan[e])
      /\ Way(e)' = Tail(q) /\ Way(Peer(e))' = p \o msgs
  BY Peers, WayTyped, WayAnswers
<1>2. (\E n \in DOMAIN p : p[n] \in A) => \E m \in OnWay(Peer(e)) : m \in A
  BY DEF OnWay
<1>3. OnWay(e)' = {Tail(q)[n] : n \in DOMAIN Tail(q)}
  <2>1. OnWay(e)' = {Way(e)'[n] : n \in DOMAIN Way(e)'}
    BY DEF OnWay
  <2> QED BY <1>1, <2>1
<1>4. Never(Way(e), A, Z)' <=> Never(Way(e)', A, Z)
  BY DEF Never
<1>5. Never(Way(Peer(e)), A, Z)' <=> Never(Way(Peer(e))', A, Z)
  BY DEF Never
<1> HIDE DEF q, p
<1>6. Never(q, A, Z) =>
          Never(Tail(q), A, Z) /\ (Head(q) \in A => \A n \in DOMAIN Tail(q) : Tail(q)[n] \notin Z)
  BY <1>1, NeverTail
<1>7. /\ Never(p, A, Z) /\ Never(msgs, A, Z)
      /\ (\E n \in DOMAIN p : p[n] \in A) => \A n \in DOMAIN msgs : msgs[n] \notin Z
      => Never(p \o msgs, A, Z)
  BY <1>1, NeverAppend
<1> QED BY <1>1, <1>2, <1>3, <1>4, <1>5, <1>6, <1>7 DEF q, p

LEMMA NeverNone ==
    ASSUME NEW msgs, NEW A, NEW Z, \A n \in DOMAIN msgs : msgs[n] \notin Z
    PROVE  Never(msgs, A, Z)
BY DEF Never

LEMMA NeverOne ==
    ASSUME NEW m \in Message, NEW A, NEW Z
    PROVE  Never(<<m>>, A, Z)
<1>1. DOMAIN <<m>> = {1} /\ 1 .. 1 - 1 = {}
  BY OneMessage
<1> QED BY <1>1 DEF Never

LEMMA Endpoints ==
    /\ "i" \in End /\ "r" \in End /\ Peer("i") = "r" /\ Peer("r") = "i" /\ End = {"i", "r"}
    /\ "i" # "r"
BY DEF End, Peer

\* The kinds of what tells of resources.
LEMMA Tellers ==
    ASSUME NEW x
    PROVE  /\ \A m : m \in Asks(x) \/ m \in AsksNot(x) => m.kind = "request"
           /\ \A m : m \in Finds(x) \/ m \in FindsNot(x) => m.kind = "response"
           /\ \A m \in Message : m.kind = "request" => m \in Asks(x) \/ m \in AsksNot(x)
           /\ \A m : ~(m \in Asks(x) /\ m \in AsksNot(x))
BY DEF Asks, AsksNot, Finds, FindsNot

\* What more is held is held.
LEMMA HoldingGrows ==
    ASSUME \A d \in End : held[d] \subseteq held'[d], NEW e \in End
    PROVE  \A m : Holding(held, e, m) => Holding(held', e, m)
<1>1. Peer(e) \in End
  BY Peers
<1> QED BY <1>1 DEF Holding

\* Handlers that take what they take and answer neither with manifests nor
\* with responses.
LEMMA OthersOrdered ==
    ASSUME TypeOK, Ordered, NEW e \in End, chan[e] # <<>>, out[e] = <<>>,
           NEW msgs \in Seq(Message), Answers(e, msgs), made' = made,
           \A d \in End : held[d] \subseteq held'[d] /\ result'[d].peerMissing = result[d].peerMissing,
           \A n \in DOMAIN msgs : msgs[n].kind \notin {"request", "response"} /\ Holding(held', Peer(e), msgs[n])
    PROVE  Ordered'
<1>1. /\ Peer(e) \in End /\ Peer(Peer(e)) = e /\ Peer(e) # e /\ \A d \in End : d = e \/ d = Peer(e)
      /\ OnWay(e)' \subseteq OnWay(e)
      /\ OnWay(Peer(e))' = OnWay(Peer(e)) \cup {msgs[n] : n \in DOMAIN msgs}
  BY Peers, Members
<1>2. HeldSound'
  <2>1. ASSUME NEW d \in End PROVE result'[d].peerMissing \subseteq held'[d]
    BY DEF Ordered, HeldSound
  <2>2. ASSUME NEW d \in End, NEW m \in OnWay(d)' PROVE Holding(held', d, m)
    <3>1. m \in OnWay(d) => Holding(held', d, m)
      BY HoldingGrows DEF Ordered, HeldSound
    <3> QED BY <1>1, <3>1
  <2>3. ASSUME NEW n \in DOMAIN made' PROVE Holding(held', "r", made'[n])
    BY HoldingGrows, Endpoints DEF Ordered, HeldSound
  <2> QED BY <2>1, <2>2, <2>3 DEF HeldSound
<1>3. OneManifest'
  <2>1. out'["i"] = IF e = "i" THEN msgs ELSE out["i"]
    BY Endpoints DEF Answers, TypeOK
  <2> QED BY <2>1 DEF Ordered, OneManifest
<1>4. ASSUME NEW x \in Resource \ held'["r"] PROVE InOrder(x)'
  <2>1. InOrder(x)
    BY Endpoints DEF Ordered
  <2>2. \A n \in DOMAIN msgs : msgs[n] \notin AsksNot(x) /\ msgs[n] \notin FindsNot(x)
                              /\ msgs[n] \notin Asks(x) /\ msgs[n] \notin Finds(x)
    BY Tellers
  <2>3. ASSUME NEW d \in End
        PROVE  /\ Never(Way(d), Asks(x), AsksNot(x)) => Never(Way(d), Asks(x), AsksNot(x))'
               /\ Never(Way(d), Finds(x), FindsNot(x)) => Never(Way(d), Finds(x), FindsNot(x))'
    <3>1. CASE d = e
      BY <3>1, NeverAnswer
    <3>2. CASE d = Peer(e)
      BY <2>2, <3>2, NeverAnswer, NeverNone
    <3> QED BY <1>1, <3>1, <3>2
  <2>4. \A d \in End : \A m \in OnWay(d)' : m \in OnWay(d) \/ \E n \in DOMAIN msgs : m = msgs[n]
    BY <1>1
  <2>5. \A d \in End : /\ \A m \in OnWay(d)' : m \in Asks(x) \/ m \in AsksNot(x) => m \in OnWay(d)
                       /\ \A m \in OnWay(d)' : m \in Finds(x) \/ m \in FindsNot(x) => m \in OnWay(d)
    BY <2>2, <2>4
  <2>6. \A m \in Pending' : m \in AsksNot(x) => m \in Pending
    BY <2>5, Endpoints DEF Pending
  <2> QED BY <2>1, <2>3, <2>5, <2>6, Endpoints DEF InOrder
<1> QED BY <1>2, <1>3, <1>4 DEF Ordered

\* What only moves or adds to what is held.
LEMMA SameOrdered ==
    ASSUME TypeOK, Ordered, \A d \in End : Way(d)' = Way(d) /\ held[d] \subseteq held'[d],
           UNCHANGED <<made, result>>,
           \A n \in DOMAIN out'["i"] : \E k \in DOMAIN out["i"] : out'["i"][n] = out["i"][k]
    PROVE  Ordered'
<1>1. \A d \in End : OnWay(d)' = OnWay(d)
  BY DEF OnWay
<1>2. Pending' = Pending
  BY <1>1, Endpoints DEF Pending
<1>3. HeldSound'
  <2>1. \A d \in End : \A m \in OnWay(d)' : Holding(held', d, m)
    BY <1>1, HoldingGrows DEF Ordered, HeldSound
  <2>2. \A n \in DOMAIN made' : Holding(held', "r", made'[n])
    BY HoldingGrows, Endpoints DEF Ordered, HeldSound
  <2>3. \A d \in End : result'[d].peerMissing \subseteq held'[d]
    BY DEF Ordered, HeldSound
  <2> QED BY <2>1, <2>2, <2>3 DEF HeldSound
<1>4. OneManifest'
  BY DEF Ordered, OneManifest
<1>5. ASSUME NEW x \in Resource \ held'["r"] PROVE InOrder(x)'
  <2>1. InOrder(x)
    BY Endpoints DEF Ordered
  <2> QED BY <1>1, <1>2, <2>1, Endpoints DEF InOrder, Never
<1> QED BY <1>3, <1>4, <1>5 DEF Ordered

LEMMA SendOrdered ==
    ASSUME TypeOK, Ordered, NEW e \in End, Send(e)
    PROVE  Ordered'
<1>1. /\ out[e] \in Seq(Message) /\ out[e] # <<>> /\ out' = [out EXCEPT ![e] = Tail(@)]
      /\ UNCHANGED <<held, made, result>>
  BY WayTyped DEF Send, database, asking
<1>2. \A d \in End : Way(d)' = Way(d)
  BY WaySend
<1>3. ASSUME NEW n \in DOMAIN out'["i"] PROVE \E k \in DOMAIN out["i"] : out'["i"][n] = out["i"][k]
  <2>1. CASE e = "i"
    <3>1. out'["i"] = Tail(out["i"])
      BY <1>1, <2>1, Endpoints DEF TypeOK
    <3>2. /\ Len(out["i"]) \in Nat /\ DOMAIN out["i"] = 1 .. Len(out["i"])
          /\ DOMAIN Tail(out["i"]) = 1 .. Len(out["i"]) - 1
          /\ \A k \in 1 .. Len(out["i"]) - 1 : Tail(out["i"])[k] = out["i"][k + 1]
      BY <1>1, <2>1, LenProperties, HeadTailProperties
    <3>3. n + 1 \in DOMAIN out["i"]
      BY <1>3, <3>1, <3>2
    <3> QED BY <1>3, <3>1, <3>2, <3>3
  <2>2. CASE e # "i"
    BY <1>1, <1>3, <2>2, Endpoints DEF TypeOK
  <2> QED BY <2>1, <2>2
<1> QED BY <1>1, <1>2, <1>3, SameOrdered

LEMMA UserOrdered ==
    ASSUME TypeOK, Ordered, User
    PROVE  Ordered'
<1>1. /\ UNCHANGED <<result, chan, out, made>> /\ \A d \in End : held[d] \subseteq held'[d]
  <2>1. ASSUME NEW e \in End, NEW x \in Resource, Create(e, x)
        PROVE  /\ UNCHANGED <<result, chan, out, made>> /\ \A d \in End : held[d] \subseteq held'[d]
    BY <2>1 DEF Create, TypeOK
  <2>2. ASSUME NEW e \in End, NEW f \in Folder, NEW inside \in SUBSET Resource, ShareFolder(e, f, inside)
        PROVE  /\ UNCHANGED <<result, chan, out, made>> /\ \A d \in End : held[d] \subseteq held'[d]
    BY <2>2 DEF ShareFolder, TypeOK
  <2> QED BY <2>1, <2>2 DEF User
<1>2. \A d \in End : Way(d)' = Way(d)
  BY <1>1 DEF Way
<1> QED BY <1>1, <1>2, SameOrdered

\* The initiator's manifest tells of all that it has ever told of.
LEMMA ManifestTells ==
    ASSUME TypeOK, HeldSound, NEW x \in Resource,
           \/ \E m \in OnWay("r") : m \in Asks(x)
           \/ \E m \in OnWay("i") : m \in Finds(x)
           \/ x \in result["i"].peerMissing
    PROVE  Manifest \notin AsksNot(x)
<1>1. x \in held["i"]
  BY Endpoints DEF HeldSound, Holding, Asks, Finds
<1> QED BY <1>1 DEF Manifest, AsksNot

LEMMA ManifestHolding == TypeOK => /\ Manifest \in Message /\ Manifest.kind = "request"
                                   /\ Holding(held, "r", Manifest)
<1> SUFFICES ASSUME TypeOK
             PROVE  Manifest \in Message /\ Manifest.kind = "request" /\ Holding(held, "r", Manifest)
  OBVIOUS
<1>1. Manifest \in Message
  BY DEF Manifest, Message, Request, TypeOK, End
<1>2. Manifest.kind = "request" /\ Manifest.held = held["i"]
  BY DEF Manifest
<1> QED BY <1>1, <1>2, Endpoints DEF Holding

LEMMA MakeOrdered ==
    ASSUME "overlap" \notin Faults, TypeOK, Ordered, MakeManifest
    PROVE  Ordered'
<1>1. /\ made = <<>> /\ made' = Append(made, Manifest)
      /\ \A n \in DOMAIN out["i"] : out["i"][n].kind # "request"
      /\ UNCHANGED <<held, result, chan, out>>
  BY DEF MakeManifest, MayMakeManifest, database
<1>2. DOMAIN made' = {1} /\ made'[1] = Manifest /\ Len(made') = 1
  <2>1. Append(<<>>, Manifest) = <<Manifest>>
    OBVIOUS
  <2> QED BY <1>1, <2>1, ManifestHolding, OneMessage
<1>3. \A d \in End : Way(d)' = Way(d) /\ OnWay(d)' = OnWay(d)
  BY <1>1 DEF Way, OnWay
<1>4. HeldSound'
  BY <1>1, <1>2, <1>3, ManifestHolding DEF Ordered, HeldSound
<1>5. OneManifest'
  BY <1>1, <1>2 DEF OneManifest
<1>6. ASSUME NEW x \in Resource \ held'["r"] PROVE InOrder(x)'
  <2>1. InOrder(x)
    BY <1>1 DEF Ordered
  <2>2. /\ (\E m \in OnWay("r") : m \in Asks(x)) => \A n \in DOMAIN made' : made'[n] \notin AsksNot(x)
        /\ (\E m \in OnWay("i") : m \in Finds(x)) \/ x \in result["i"].peerMissing
              => \A n \in DOMAIN made' : made'[n] \notin AsksNot(x)
    BY <1>2, ManifestTells DEF Ordered
  <2>3. \A m \in Pending' : m \in Pending \/ \E n \in DOMAIN made' : m = made'[n]
    BY <1>3, Endpoints DEF Pending
  <2> QED BY <1>1, <1>3, <2>1, <2>2, <2>3, Endpoints DEF InOrder, Never
<1> QED BY <1>4, <1>5, <1>6 DEF Ordered

\* A task sends a message beside what the handler sends.
LEMMA JoinedNever ==
    ASSUME TypeOK, NEW e \in End, NEW m \in Message, NEW A, NEW Z,
           Way(e)' = Append(chan[e], m) \o out[Peer(e)], Never(Way(e), A, Z),
           m \in Z => \A n \in OnWay(e) : n \notin A,
           m \in A => \A n \in DOMAIN out[Peer(e)] : out[Peer(e)][n] \notin Z
    PROVE  Never(Way(e), A, Z)'
<1> DEFINE q == chan[e]
           p == out[Peer(e)]
<1>1. q \in Seq(Message) /\ p \in Seq(Message) /\ Never(q \o p, A, Z)
  BY Peers, WayTyped DEF Way
<1>2. m \in Z => \A n \in DOMAIN (q \o p) : (q \o p)[n] \notin A
  BY DEF OnWay, Way
<1>3. m \in A => \A n \in DOMAIN p : p[n] \notin Z
  OBVIOUS
<1>4. Never(Way(e), A, Z)' <=> Never(Way(e)', A, Z)
  BY DEF Never
<1>5. Way(e)' = Append(q, m) \o p
  OBVIOUS
<1> HIDE DEF q, p
<1>6. Never(Append(q, m) \o p, A, Z)
  BY <1>1, <1>2, <1>3, NeverJoined
<1> QED BY <1>4, <1>5, <1>6

LEMMA SendManifestOrdered ==
    ASSUME TypeOK, Ordered, NEW n \in DOMAIN made, SendManifest(n)
    PROVE  Ordered'
<1> DEFINE m == made[n]
<1>1. /\ chan' = [chan EXCEPT !["r"] = Append(@, m)] /\ made' = RemoveAt(made, n)
      /\ UNCHANGED <<held, result, out>>
  BY DEF SendManifest, database
<1>2. made \in Seq(Request) /\ Len(made) \in Nat /\ DOMAIN made = 1 .. Len(made) /\ Len(made) <= 1
  BY LenProperties DEF TypeOK, Ordered, OneManifest
<1>3. m \in Message /\ m.kind = "request"
  <2>1. m \in Request
    BY <1>2, ElementOfSeq
  <2> QED BY <2>1 DEF Message, Request
<1>4. made # <<>> /\ made' \in Seq(Request) /\ made' = <<>>
  <2>1. n = 1 /\ Len(made) = 1
    BY <1>2
  <2>2. made' \in Seq(Request) /\ Len(made') = 0
    <3>1. made \in Seq(Request) /\ n \in DOMAIN made
      BY <1>2
    <3>2. RemoveAt(made, n) \in Seq(Request)
      BY <3>1, RemoveTyped
    <3>3. Len(RemoveAt(made, n)) = Len(made) - 1
      BY <3>1, RemovedFrom
    <3>4. made' = RemoveAt(made, n)
      BY <1>1
    <3>5. Len(made') = 0
      BY <2>1, <3>3, <3>4
    <3> QED BY <3>2, <3>4, <3>5
  <2>3. made # <<>>
    <3>1. DOMAIN <<>> = {}
      BY EmptySeq
    <3> QED BY <3>1
  <2>4. made' = <<>>
    BY <2>2, EmptySeq
  <2> QED BY <2>2, <2>3, <2>4
<1>5. \A k \in DOMAIN out["i"] : out["i"][k].kind # "request"
  BY <1>4 DEF Ordered, OneManifest
<1>6. Holding(held, "r", m) /\ m \in Pending
  BY DEF Ordered, HeldSound, Pending
<1> HIDE DEF m
<1>7. /\ OnWay("r")' = OnWay("r") \cup {m}
      /\ Way("r")' = Append(chan["r"], m) \o out[Peer("r")]
      /\ Way("i")' = Way("i")
  BY <1>1, <1>3, JoinedMembers, Endpoints
<1>8. OnWay("i")' = OnWay("i") /\ DOMAIN made' = {}
  BY <1>4, <1>7, EmptySeq DEF OnWay
<1>9. HeldSound'
  BY <1>1, <1>6, <1>7, <1>8, Endpoints DEF Ordered, HeldSound
<1>10. OneManifest'
  <2>1. Len(made') <= 1
    BY <1>4, EmptySeq
  <2> QED BY <1>4, <2>1 DEF OneManifest
<1>11. ASSUME NEW x \in Resource \ held'["r"] PROVE InOrder(x)'
  <2>1. InOrder(x)
    BY <1>1 DEF Ordered
  <2>2. Never(Way("r"), Asks(x), AsksNot(x))'
    <3>1. m \in AsksNot(x) => \A k \in OnWay("r") : k \notin Asks(x)
      BY <2>1 DEF InOrder, m
    <3>2. \A k \in DOMAIN out["i"] : out["i"][k] \notin AsksNot(x)
      BY <1>5, Tellers
    <3> QED BY <1>3, <1>7, <2>1, <3>1, <3>2, JoinedNever, Endpoints DEF InOrder
  <2>3. Never(Way("i"), Finds(x), FindsNot(x))'
    BY <1>7, <2>1 DEF InOrder, Never
  <2>4. \A k \in Pending' : k \in Pending
    BY <1>6, <1>7, <1>8 DEF Pending
  <2> QED BY <1>1, <1>8, <2>1, <2>2, <2>3, <2>4 DEF InOrder
<1> QED BY <1>9, <1>10, <1>11 DEF Ordered

LEMMA RetryAskedOrdered ==
    ASSUME TypeOK, Ordered, AskForRetry
    PROVE  Ordered'
<1> DEFINE m == Msg("retry")
<1>1. /\ chan' = [chan EXCEPT !["i"] = Append(@, m)] /\ UNCHANGED <<held, result, out, made>>
  BY DEF AskForRetry, database
<1>2. m \in Message /\ m.kind = "retry"
  BY Messages DEF Plain
<1> HIDE DEF m
<1>3. /\ OnWay("i")' = OnWay("i") \cup {m}
      /\ Way("i")' = Append(chan["i"], m) \o out[Peer("i")]
      /\ Way("r")' = Way("r")
  BY <1>1, <1>2, JoinedMembers, Endpoints
<1>4. OnWay("r")' = OnWay("r") /\ Pending' = Pending
  BY <1>1, <1>3 DEF OnWay, Pending
<1>5. Holding(held, "i", m)
  BY <1>2 DEF Holding
<1>6. HeldSound'
  BY <1>1, <1>3, <1>4, <1>5, Endpoints DEF Ordered, HeldSound
<1>7. OneManifest'
  BY <1>1 DEF Ordered, OneManifest
<1>8. ASSUME NEW x \in Resource \ held'["r"] PROVE InOrder(x)'
  <2>1. InOrder(x)
    BY <1>1 DEF Ordered
  <2>2. m \notin Finds(x) /\ m \notin FindsNot(x)
    BY <1>2, Tellers
  <2>3. Never(Way("i"), Finds(x), FindsNot(x))'
    BY <1>2, <1>3, <2>1, <2>2, JoinedNever, Endpoints DEF InOrder
  <2>4. Never(Way("r"), Asks(x), AsksNot(x))'
    BY <1>3, <2>1 DEF InOrder, Never
  <2> QED BY <1>1, <1>3, <1>4, <2>1, <2>2, <2>3, <2>4 DEF InOrder
<1> QED BY <1>6, <1>7, <1>8 DEF Ordered

LEMMA RetryOrdered ==
    ASSUME "overlap" \notin Faults, TypeOK, Ordered, TakeRetry
    PROVE  Ordered'
<1>1. /\ chan["i"] # <<>> /\ out["i"] = <<>> /\ Answers("i", <<Manifest>>)
      /\ made = <<>> /\ UNCHANGED <<held, made, result>>
  BY DEF TakeRetry, Takes, MayMakeManifest, database, asking
<1>2. Manifest \in Message /\ Manifest.kind = "request" /\ Holding(held, "r", Manifest)
  BY ManifestHolding
<1>3. <<Manifest>> \in Seq(Message) /\ DOMAIN <<Manifest>> = {1} /\ <<Manifest>>[1] = Manifest
  BY <1>2, OneMessage
<1>4. /\ OnWay("i")' \subseteq OnWay("i")
      /\ \A m \in OnWay("r")' : m \in OnWay("r") \/ m = Manifest
  <2>1. /\ OnWay("i")' \subseteq OnWay("i")
        /\ OnWay("r")' = OnWay("r") \cup {<<Manifest>>[n] : n \in DOMAIN <<Manifest>>}
    BY <1>1, <1>3, Members, Endpoints
  <2> QED BY <1>3, <2>1
<1>5. DOMAIN made' = {} /\ made' = <<>>
  BY <1>1, EmptySeq
<1>6. HeldSound'
  BY <1>1, <1>2, <1>4, <1>5, Endpoints DEF Ordered, HeldSound
<1>7. OneManifest'
  <2>1. Len(made') <= 1
    BY <1>5, EmptySeq
  <2> QED BY <1>5, <2>1 DEF OneManifest
<1>8. ASSUME NEW x \in Resource \ held'["r"] PROVE InOrder(x)'
  <2>1. InOrder(x)
    BY <1>1 DEF Ordered
  <2>2. /\ (\E m \in OnWay("r") : m \in Asks(x)) => Manifest \notin AsksNot(x)
        /\ (\E m \in OnWay("i") : m \in Finds(x)) \/ x \in result["i"].peerMissing
              => Manifest \notin AsksNot(x)
    BY ManifestTells DEF Ordered
  <2>3. Never(Way("r"), Asks(x), AsksNot(x))'
    <3>1. Never(<<Manifest>>, Asks(x), AsksNot(x))
      BY <1>2, NeverOne
    <3>2. (\E m \in OnWay("r") : m \in Asks(x)) => \A n \in DOMAIN <<Manifest>> : <<Manifest>>[n] \notin AsksNot(x)
      BY <1>3, <2>2
    <3>3. Never(Way("r"), Asks(x), AsksNot(x))
      BY <2>1 DEF InOrder
    <3> QED BY <1>1, <1>3, <3>1, <3>2, <3>3, NeverAnswer, Endpoints
  <2>4. Never(Way("i"), Finds(x), FindsNot(x))'
    BY <1>1, <1>3, <2>1, NeverAnswer, Endpoints DEF InOrder
  <2>5. \A m \in Pending' : m \in Pending \/ m = Manifest
    BY <1>4, <1>5 DEF Pending
  <2> QED BY <1>1, <1>4, <1>5, <2>1, <2>2, <2>3, <2>4, <2>5 DEF InOrder
<1> QED BY <1>6, <1>7, <1>8 DEF Ordered

LEMMA RequestOrdered ==
    ASSUME IInv, TypeOK, Ordered, TakeRequest
    PROVE  Ordered'
<1> DEFINE theirs == Head(chan["r"])
<1>1. /\ chan["r"] # <<>> /\ out["r"] = <<>> /\ theirs \in Message /\ theirs.kind = "request"
      /\ theirs \in OnWay("r") /\ UNCHANGED <<held, made>>
  BY Endpoints, Taken, HeadOnWay DEF TakeRequest, Takes, IInv, database, asking
<1>2. theirs \in Request
  BY <1>1 DEF Message, Request, Plain, About
<1>3. PICK merged \in SUBSET Merged(theirs) :
          /\ result' = [result EXCEPT !["r"] = Compare(theirs, merged)]
          /\ Answers("r", Response(Compare(theirs, merged)))
  BY DEF TakeRequest
<1> DEFINE res == Compare(theirs, merged)
           m == [kind |-> "response", result |-> res]
<1>4. res \in Result /\ res.missing = theirs.held \ held["r"] /\ res.peerMissing = held["r"] \ theirs.held
  BY <1>2 DEF Compare, Result, Request, TypeOK, End
<1>5. m \in Message /\ m.kind = "response" /\ m.result = res /\ Response(res) = <<m>>
  BY <1>4 DEF Message, Response
<1>6. /\ Answers("r", <<m>>) /\ result'["i"] = result["i"] /\ result'["r"] = res
  BY <1>3, <1>5, Endpoints DEF TypeOK
<1> HIDE DEF m, res, theirs
<1>7. <<m>> \in Seq(Message) /\ DOMAIN <<m>> = {1} /\ <<m>>[1] = m
  BY <1>5, OneMessage
<1>8. /\ OnWay("r")' \subseteq OnWay("r")
      /\ \A k \in OnWay("i")' : k \in OnWay("i") \/ k = m
  <2>1. /\ OnWay("r")' \subseteq OnWay("r")
        /\ OnWay("i")' = OnWay("i") \cup {<<m>>[n] : n \in DOMAIN <<m>>}
    BY <1>1, <1>6, <1>7, Members, Endpoints
  <2> QED BY <1>7, <2>1
<1>9. HeldSound'
  <2>1. theirs.held \subseteq held["i"]
    BY <1>1, Endpoints DEF Ordered, HeldSound, Holding
  <2>2. Holding(held, "i", m)
    BY <1>4, <1>5, <2>1 DEF Holding
  <2>3. \A d \in End : result'[d].peerMissing \subseteq held[d]
    BY <1>4, <1>6, Endpoints DEF Ordered, HeldSound
  <2>4. \A d \in End : \A k \in OnWay(d)' : Holding(held, d, k)
    BY <1>8, <2>2, Endpoints DEF Ordered, HeldSound
  <2> QED BY <1>1, <2>3, <2>4 DEF Ordered, HeldSound
<1>10. OneManifest'
  <2>1. out'["i"] = out["i"]
    BY <1>6, Endpoints DEF Answers, TypeOK
  <2> QED BY <1>1, <2>1 DEF Ordered, OneManifest
<1>11. ASSUME NEW x \in Resource \ held'["r"] PROVE InOrder(x)'
  <2>1. InOrder(x) /\ x \notin held["r"]
    BY <1>1 DEF Ordered
  <2>2. /\ m \in Finds(x) => theirs \in Asks(x)
        /\ m \in FindsNot(x) => theirs \in AsksNot(x)
    BY <1>1, <1>4, <1>5, <2>1 DEF Finds, FindsNot, Asks, AsksNot
  <2>3. theirs \in Pending
    BY <1>1 DEF Pending
  <2>4. /\ Never(Way("r"), Asks(x), AsksNot(x))'
        /\ theirs \in Asks(x) => \A k \in OnWay("r")' : k \notin AsksNot(x)
    BY <1>1, <1>6, <1>7, <2>1, NeverAnswer, Endpoints DEF InOrder, theirs
  <2>5. m \in FindsNot(x) => /\ \A k \in OnWay("i") : k \notin Finds(x)
                             /\ x \notin result["i"].peerMissing
    BY <2>1, <2>2, <2>3 DEF InOrder
  <2>6. Never(Way("i"), Finds(x), FindsNot(x))'
    <3>1. Never(<<m>>, Finds(x), FindsNot(x))
      BY <1>5, NeverOne
    <3>2. /\ Never(Way("i"), Finds(x), FindsNot(x))
          /\ (\E k \in OnWay("i") : k \in Finds(x))
                => \A k \in DOMAIN <<m>> : <<m>>[k] \notin FindsNot(x)
      BY <1>7, <2>1, <2>5 DEF InOrder
    <3> QED BY <1>1, <1>6, <1>7, <3>1, <3>2, NeverAnswer, Endpoints
  <2>7. \A k \in Pending' : k \in Pending
    BY <1>1, <1>8 DEF Pending
  <2>8. m \in Finds(x) => \A k \in Pending' : k \notin AsksNot(x)
    <3>1. theirs \in Asks(x) => \A n \in DOMAIN made : made[n] \notin AsksNot(x)
      BY <1>1, <2>1 DEF InOrder
    <3> QED BY <1>1, <2>2, <2>4, <3>1 DEF Pending
  <2>9. (\E k \in OnWay("r")' : k \in Asks(x)) => \A n \in DOMAIN made' : made'[n] \notin AsksNot(x)
    BY <1>1, <1>8, <2>1 DEF InOrder
  <2>10. (\E k \in OnWay("i")' : k \in Finds(x)) \/ x \in result'["i"].peerMissing
              => \A k \in Pending' : k \notin AsksNot(x)
    BY <1>6, <1>8, <2>1, <2>7, <2>8 DEF InOrder
  <2>11. x \in result'["i"].peerMissing => \A k \in OnWay("i")' : k \notin FindsNot(x)
    BY <1>6, <1>8, <2>1, <2>5 DEF InOrder
  <2> QED BY <2>4, <2>6, <2>9, <2>10, <2>11 DEF InOrder
<1> QED BY <1>9, <1>10, <1>11 DEF Ordered

LEMMA ResponseOrdered ==
    ASSUME IInv, TypeOK, Ordered, TakeResponse
    PROVE  Ordered'
<1> DEFINE m == Head(chan["i"])
           ack == Msg("ack")
<1>1. /\ chan["i"] # <<>> /\ out["i"] = <<>> /\ m \in Message /\ m.kind = "response"
      /\ m \in OnWay("i") /\ UNCHANGED <<held, made>> /\ Answers("i", <<ack>>)
      /\ result' = [result EXCEPT !["i"] = InverseResult(m.result)]
  BY Endpoints, Taken, HeadOnWay DEF TakeResponse, Takes, IInv, database, asking
<1>2. m.result \in Result
  BY <1>1 DEF Message, Request, Plain, About
<1>3. result'["i"].peerMissing = m.result.missing /\ result'["r"] = result["r"]
  BY <1>1, <1>2, Endpoints DEF InverseResult, Result, TypeOK
<1>4. ack \in Message /\ ack.kind = "ack"
  BY Messages DEF Plain
<1> HIDE DEF m, ack
<1>5. <<ack>> \in Seq(Message) /\ DOMAIN <<ack>> = {1} /\ <<ack>>[1] = ack
  BY <1>4, OneMessage
<1>6. /\ OnWay("i")' \subseteq OnWay("i")
      /\ \A k \in OnWay("r")' : k \in OnWay("r") \/ k = ack
  <2>1. /\ OnWay("i")' \subseteq OnWay("i")
        /\ OnWay("r")' = OnWay("r") \cup {<<ack>>[n] : n \in DOMAIN <<ack>>}
    BY <1>1, <1>5, Members, Endpoints
  <2> QED BY <1>5, <2>1
<1>7. HeldSound'
  <2>1. m.result.missing \subseteq held["i"] /\ Holding(held, "r", ack)
    BY <1>1, <1>4, Endpoints DEF Ordered, HeldSound, Holding
  <2>2. \A d \in End : result'[d].peerMissing \subseteq held[d]
    BY <1>3, <2>1, Endpoints DEF Ordered, HeldSound
  <2>3. \A d \in End : \A k \in OnWay(d)' : Holding(held, d, k)
    BY <1>6, <2>1, Endpoints DEF Ordered, HeldSound
  <2> QED BY <1>1, <2>2, <2>3 DEF Ordered, HeldSound
<1>8. OneManifest'
  <2>1. out'["i"] = <<ack>>
    BY <1>1, Endpoints DEF Answers, TypeOK
  <2> QED BY <1>1, <1>4, <1>5, <2>1 DEF Ordered, OneManifest
<1>9. ASSUME NEW x \in Resource \ held'["r"] PROVE InOrder(x)'
  <2>1. InOrder(x)
    BY <1>1 DEF Ordered
  <2>2. ack \notin Asks(x) /\ ack \notin AsksNot(x)
    BY <1>4, Tellers
  <2>3. Never(Way("r"), Asks(x), AsksNot(x))'
    <3>1. \A n \in DOMAIN <<ack>> : <<ack>>[n] \notin AsksNot(x)
      BY <1>5, <2>2
    <3>2. Never(<<ack>>, Asks(x), AsksNot(x))
      BY <3>1, NeverNone
    <3>3. Never(Way("r"), Asks(x), AsksNot(x))
      BY <2>1 DEF InOrder
    <3> QED BY <1>1, <1>5, <3>1, <3>2, <3>3, NeverAnswer, Endpoints
  <2>4. /\ Never(Way("i"), Finds(x), FindsNot(x))'
        /\ m \in Finds(x) => \A k \in OnWay("i")' : k \notin FindsNot(x)
    BY <1>1, <1>5, <2>1, NeverAnswer, Endpoints DEF InOrder, m
  <2>5. x \in result'["i"].peerMissing => m \in Finds(x)
    BY <1>1, <1>3 DEF Finds
  <2>6. \A k \in Pending' : k \in Pending \/ k = ack
    BY <1>1, <1>6 DEF Pending
  <2>7. (\E k \in OnWay("r")' : k \in Asks(x)) => \A n \in DOMAIN made' : made'[n] \notin AsksNot(x)
    BY <1>1, <1>6, <2>1, <2>2 DEF InOrder
  <2>8. (\E k \in OnWay("i")' : k \in Finds(x)) \/ x \in result'["i"].peerMissing
              => \A k \in Pending' : k \notin AsksNot(x)
    <3>1. (\E k \in OnWay("i")' : k \in Finds(x)) \/ x \in result'["i"].peerMissing
              => \E k \in OnWay("i") : k \in Finds(x)
      BY <1>1, <1>6, <2>5
    <3>2. (\E k \in OnWay("i") : k \in Finds(x)) => \A k \in Pending : k \notin AsksNot(x)
      BY <2>1 DEF InOrder
    <3> QED BY <2>2, <2>6, <3>1, <3>2
  <2> QED BY <2>3, <2>4, <2>5, <2>7, <2>8 DEF InOrder
<1> QED BY <1>7, <1>8, <1>9 DEF Ordered

\* On a connection just made there is nothing to be out of order.
LEMMA FreshOrdered == Fresh => Ordered
<1> SUFFICES ASSUME Fresh PROVE Ordered
  OBVIOUS
<1>1. DOMAIN <<>> = {} /\ Len(<<>>) = 0
  BY EmptySeq
<1>2. \A e \in End : Way(e) = <<>> /\ OnWay(e) = {}
  BY FreshWays
<1>3. HeldSound
  BY <1>1, <1>2 DEF Fresh, HeldSound, NoResult
<1>4. OneManifest
  BY <1>1, Endpoints DEF Fresh, OneManifest
<1>5. \A x : InOrder(x)
  BY <1>1, <1>2, Endpoints DEF Fresh, InOrder, Never, Pending, NoResult
<1> QED BY <1>3, <1>4, <1>5 DEF Ordered

LEMMA FreshOrderedNext == Fresh' => Ordered'
BY FreshOrdered, PTL

----------------------------------------------------------------------------
(* Delivery.  What each end lacks is on its way to it.                     *)

\* The way on, from a message of the sync to the next.
Follows(e, kind, next, msgs) ==
    Head(chan[e]).kind = kind => \E n \in DOMAIN msgs : msgs[n].kind = next

LEMMA UnderMoves ==
    ASSUME TypeOK, NEW e \in End, chan[e] # <<>>, out[e] = <<>>,
           NEW msgs \in Seq(Message), Answers(e, msgs),
           e = "i" => /\ Follows("i", "response", "ack", msgs)
                      /\ Follows("i", "network", "networkAck", msgs)
                      /\ Follows("i", "folders", "recipients", msgs),
           e = "r" => /\ Follows("r", "ack", "network", msgs)
                      /\ Follows("r", "networkAck", "folders", msgs)
                      /\ Head(chan["r"]).kind # "recipients"
    PROVE  Under => Under'
<1>1. /\ \A k \in Kinds(e) : k # Head(chan[e]).kind => k \in Kinds(e)'
      /\ Kinds(Peer(e)) \subseteq Kinds(Peer(e))'
      /\ \A n \in DOMAIN msgs : msgs[n].kind \in Kinds(Peer(e))'
  BY KindsAnswer
<1>2. \A kind, next : Head(chan[e]).kind = kind /\ Follows(e, kind, next, msgs) => next \in Kinds(Peer(e))'
  BY <1>1 DEF Follows
<1>3. CASE e = "i"
  BY <1>1, <1>2, <1>3, Endpoints DEF Under
<1>4. CASE e = "r"
  BY <1>1, <1>2, <1>4, Endpoints DEF Under
<1> QED BY <1>3, <1>4, Endpoints

\* What handlers leave that neither ask nor compare.
LEMMA OthersBrought ==
    ASSUME TypeOK, Brought, NEW e \in End, chan[e] # <<>>, out[e] = <<>>,
           NEW msgs \in Seq(Message), Answers(e, msgs), UNCHANGED <<made, wanted>>,
           \A d \in End : /\ result'[d].peerMissing = result[d].peerMissing
                          /\ held[d] \subseteq held'[d] /\ held'[d] \subseteq held[d] \cup held[Peer(d)],
           Head(chan[e]).kind \notin {"request", "response", "retry"},
           \A x : Head(chan[e]) = MsgOf("add", x) => x \in held'[e],
           \/ Under => Under'
           \/ /\ \A x \in result["r"].peerMissing : MsgOf("add", x) \in OnWay("i")'
              /\ "recipients" \in Kinds("i")',
           "recipients" \in Kinds("i") =>
              \/ "recipients" \in Kinds("i")'
              \/ \A x \in result["i"].peerMissing : MsgOf("add", x) \in OnWay("r")'
    PROVE  Brought'
<1> DEFINE h == Head(chan[e])
<1>1. \A d \in End : \A m \in OnWay(d) : m \in OnWay(d)' \/ (d = e /\ m = h)
  <2>1. /\ OnWay(e) \subseteq OnWay(e)' \cup {h}
        /\ OnWay(Peer(e)) \subseteq OnWay(Peer(e))'
    BY Members
  <2> QED BY <2>1, Peers
<1>2. "retry" \in Kinds("i") => "retry" \in Kinds("i")'
  BY KindsAnswer, Endpoints
<1>3. Due => Due'
  BY <1>2 DEF Due
<1>4. h.kind \notin {"request", "response"}
  OBVIOUS
<1> HIDE DEF h
<1>5. \A m \in Pending : m.kind = "request" => m \in Pending'
  BY <1>1, <1>4, Endpoints DEF Pending
<1>6. ASSUME NEW x \in held'["r"] \ held'["i"] PROVE ToInitiator(x)'
  <2>1. x \in held["r"] \ held["i"]
    BY Endpoints
  <2>2. ToInitiator(x) /\ x \notin held'["i"]
    BY <2>1 DEF Brought
  <2>3. MsgOf("add", x) \in OnWay("i") => MsgOf("add", x) \in OnWay("i")'
    BY <1>1, <2>2, Endpoints DEF h
  <2>4. x \in result["r"].peerMissing => x \in result'["r"].peerMissing
    BY Endpoints
  <2> QED BY <1>3, <1>5, <2>2, <2>3, <2>4 DEF ToInitiator
<1>7. ASSUME NEW x \in held'["i"] \ held'["r"] PROVE ToResponder(x)'
  <2>1. x \in held["i"] \ held["r"]
    BY Endpoints
  <2>2. ToResponder(x) /\ x \notin held'["r"]
    BY <2>1 DEF Brought
  <2>3. MsgOf("add", x) \in OnWay("r") => MsgOf("add", x) \in OnWay("r")'
    BY <1>1, <2>2, Endpoints DEF h
  <2>4. x \in result["i"].peerMissing => x \in result'["i"].peerMissing
    BY Endpoints
  <2>5. (\E m \in Pending : m \in Asks(x)) => \E m \in Pending' : m \in Asks(x)
    BY <1>5, Tellers
  <2>6. (\E m \in OnWay("i") : m \in Finds(x)) => \E m \in OnWay("i")' : m \in Finds(x)
    BY <1>1, <1>4, Tellers, Endpoints
  <2> QED BY <1>3, <2>2, <2>3, <2>4, <2>5, <2>6 DEF ToResponder
<1> QED BY <1>6, <1>7 DEF Brought

\* While a sync is due, all is on its way.
LEMMA DueBrings == Due => Brought
BY DEF Brought, ToInitiator, ToResponder

LEMMA DueBringsNext == Due' => Brought'
BY DueBrings, PTL

\* And so it is while a manifest waits that tells of all that is held.
LEMMA ManifestBrings ==
    ASSUME TypeOK, Manifest \in Pending', held' = held
    PROVE  Brought'
<1>1. Manifest \in Message /\ Manifest.kind = "request" /\ Manifest.held = held["i"]
  BY ManifestHolding DEF Manifest
<1>2. \A x \in held["i"] : Manifest \in Asks(x)
  BY <1>1 DEF Asks
<1> QED BY <1>1, <1>2 DEF Brought, ToInitiator, ToResponder

LEMMA WantedDue ==
    ASSUME wanted \in [End -> Nat], NEW e \in End, wanted' = [wanted EXCEPT ![e] = @ + 1]
    PROVE  Due'
<1>1. wanted'[e] = wanted[e] + 1 /\ wanted[e] \in Nat
  OBVIOUS
<1>2. wanted'[e] > 0
  BY <1>1
<1> QED BY <1>2, Endpoints DEF Due

LEMMA UserBrought == TypeOK /\ User => Brought'
BY WantedDue, DueBringsNext DEF User, Create, ShareFolder, TypeOK

LEMMA ReconnectBrought == TypeOK /\ Reconnect => Brought'
BY WantedDue, DueBringsNext, Endpoints DEF Reconnect, TypeOK

LEMMA SendBrought ==
    ASSUME TypeOK, Brought, NEW e \in End, Send(e)
    PROVE  Brought'
<1>1. UNCHANGED <<held, made, wanted, result>>
  BY DEF Send, database, asking
<1>2. \A d \in End : Way(d)' = Way(d)
  BY WaySend
<1>3. \A d \in End : OnWay(d)' = OnWay(d)
  BY <1>2 DEF OnWay
<1>4. \A d \in End : Kinds(d)' = Kinds(d)
  BY <1>3 DEF Kinds
<1>5. Pending' = Pending /\ Due' = Due /\ Under' = Under
  BY <1>1, <1>3, <1>4, Endpoints DEF Pending, Due, Under
<1>6. \A x : ToInitiator(x)' = ToInitiator(x)
  BY <1>1, <1>3, <1>4, <1>5, Endpoints DEF ToInitiator
<1>7. \A x : ToResponder(x)' = ToResponder(x)
  BY <1>1, <1>3, <1>4, <1>5, Endpoints DEF ToResponder
<1> QED BY <1>1, <1>6, <1>7 DEF Brought

LEMMA AskBrought ==
    ASSUME "overlap" \notin Faults, TypeOK, Ordered, Brought, Ask
    PROVE  Brought'
<1>1. held' = held /\ result' = result
  BY DEF Ask, MakeManifest, AskForRetry, SendManifest, database
<1>2. CASE MakeManifest
  <2>1. made' = Append(<<>>, Manifest)
    BY <1>2 DEF MakeManifest, MayMakeManifest
  <2>2. DOMAIN made' = {1} /\ made'[1] = Manifest
    BY <2>1
  <2> QED BY <1>1, <2>2, ManifestBrings DEF Pending
<1>3. CASE AskForRetry
  <2> DEFINE m == Msg("retry")
  <2>1. /\ chan' = [chan EXCEPT !["i"] = Append(@, m)] /\ out' = out
    BY <1>3 DEF AskForRetry
  <2>2. m \in Message /\ m.kind = "retry"
    BY Messages DEF Plain
  <2> HIDE DEF m
  <2>3. OnWay("i")' = OnWay("i") \cup {m}
    BY <1>1, <2>1, <2>2, JoinedMembers, Endpoints
  <2>4. Due'
    BY <2>2, <2>3 DEF Due, Kinds
  <2> QED BY <2>4, DueBringsNext
<1>4. ASSUME NEW n \in DOMAIN made, SendManifest(n) PROVE Brought'
  <2> DEFINE m == made[n]
  <2>1. /\ chan' = [chan EXCEPT !["r"] = Append(@, m)] /\ out' = out /\ wanted' = wanted
    BY <1>4 DEF SendManifest
  <2>2. made \in Seq(Request) /\ Len(made) \in Nat /\ DOMAIN made = 1 .. Len(made) /\ Len(made) <= 1
    BY LenProperties DEF TypeOK, Ordered, OneManifest
  <2>3. m \in Message
    <3>1. m \in Request
      BY <2>2, ElementOfSeq
    <3> QED BY <3>1 DEF Message
  <2>4. \A k \in DOMAIN made : made[k] = m
    BY <2>2
  <2> HIDE DEF m
  <2>5. /\ OnWay("r")' = OnWay("r") \cup {m} /\ Way("i")' = Way("i")
    BY <2>1, <2>3, JoinedMembers, Endpoints
  <2>6. OnWay("i")' = OnWay("i")
    BY <2>5 DEF OnWay
  <2>7. Kinds("i")' = Kinds("i") /\ Kinds("r") \subseteq Kinds("r")'
    BY <2>5, <2>6 DEF Kinds
  <2>8. \A k \in Pending : k \in Pending'
    BY <2>4, <2>5 DEF Pending
  <2>9. (Due => Due') /\ (Under => Under')
    BY <2>1, <2>7 DEF Due, Under
  <2>10. \A x : ToInitiator(x) => ToInitiator(x)'
    BY <1>1, <2>6, <2>8, <2>9 DEF ToInitiator
  <2>11. \A x : ToResponder(x) => ToResponder(x)'
    BY <1>1, <2>5, <2>6, <2>7, <2>8, <2>9 DEF ToResponder
  <2> QED BY <1>1, <2>10, <2>11 DEF Brought
<1> QED BY <1>2, <1>3, <1>4 DEF Ask

LEMMA RetryBrought ==
    ASSUME TypeOK, TakeRetry
    PROVE  Brought'
<1>1. /\ chan["i"] # <<>> /\ out["i"] = <<>> /\ Answers("i", <<Manifest>>) /\ held' = held
  BY DEF TakeRetry, Takes, database
<1>2. <<Manifest>> \in Seq(Message) /\ DOMAIN <<Manifest>> = {1} /\ <<Manifest>>[1] = Manifest
  BY ManifestHolding, OneMessage
<1>3. OnWay("r")' = OnWay("r") \cup {<<Manifest>>[n] : n \in DOMAIN <<Manifest>>}
  BY <1>1, <1>2, Members, Endpoints
<1>4. Manifest \in OnWay("r")'
  BY <1>2, <1>3
<1> QED BY <1>1, <1>4, ManifestBrings DEF Pending

LEMMA RequestBrought ==
    ASSUME IInv, TypeOK, Ordered, Brought, TakeRequest
    PROVE  Brought'
<1> DEFINE theirs == Head(chan["r"])
<1>1. /\ chan["r"] # <<>> /\ out["r"] = <<>> /\ theirs \in Message /\ theirs.kind = "request"
      /\ theirs \in OnWay("r") /\ UNCHANGED <<held, made, wanted>>
  BY Endpoints, Taken, HeadOnWay DEF TakeRequest, Takes, IInv, database, asking
<1>2. theirs \in Request
  BY <1>1 DEF Message, Request, Plain, About
<1>3. PICK merged \in SUBSET Merged(theirs) :
          /\ result' = [result EXCEPT !["r"] = Compare(theirs, merged)]
          /\ Answers("r", Response(Compare(theirs, merged)))
  BY DEF TakeRequest
<1> DEFINE res == Compare(theirs, merged)
           m == [kind |-> "response", result |-> res]
<1>4. res \in Result /\ res.missing = theirs.held \ held["r"] /\ res.peerMissing = held["r"] \ theirs.held
  BY <1>2 DEF Compare, Result, Request, TypeOK, End
<1>5. m \in Message /\ m.kind = "response" /\ m.result = res /\ Response(res) = <<m>>
  BY <1>4 DEF Message, Response
<1>6. /\ Answers("r", <<m>>) /\ result'["i"] = result["i"] /\ result'["r"] = res
  BY <1>3, <1>5, Endpoints DEF TypeOK
<1> HIDE DEF m, res, theirs
<1>7. <<m>> \in Seq(Message) /\ DOMAIN <<m>> = {1} /\ <<m>>[1] = m
  BY <1>5, OneMessage
<1>8. /\ \A k \in OnWay("r") : k \in OnWay("r")' \/ k = theirs
      /\ \A k \in OnWay("i") : k \in OnWay("i")'
      /\ m \in OnWay("i")'
  <2>1. /\ OnWay("r") \subseteq OnWay("r")' \cup {theirs}
        /\ OnWay("i")' = OnWay("i") \cup {<<m>>[n] : n \in DOMAIN <<m>>}
    BY <1>1, <1>6, <1>7, Members, Endpoints DEF theirs
  <2> QED BY <1>7, <2>1
<1>9. Under' /\ (Due => Due')
  BY <1>1, <1>5, <1>8 DEF Under, Due, Kinds
<1>10. ASSUME NEW x \in held'["r"] \ held'["i"] PROVE ToInitiator(x)'
  <2>1. x \notin theirs.held
    BY <1>1, Endpoints DEF Ordered, HeldSound, Holding
  <2>2. x \in result'["r"].peerMissing
    BY <1>1, <1>4, <1>6, <2>1
  <2> QED BY <1>9, <2>2 DEF ToInitiator
<1>11. ASSUME NEW x \in held'["i"] \ held'["r"] PROVE ToResponder(x)'
  <2>1. ToResponder(x) /\ x \in Resource
    BY <1>1, Endpoints DEF Brought, TypeOK
  <2>2. CASE \E k \in Pending : k \in Asks(x)
    <3>1. PICK k \in Pending : k \in Asks(x)
      BY <2>2
    <3>2. CASE k = theirs
      <4>1. m \in Finds(x)
        BY <1>1, <1>4, <1>5, <3>1, <3>2 DEF Asks, Finds
      <4> QED BY <1>8, <4>1 DEF ToResponder
    <3>3. CASE k # theirs
      <4>1. k \in Pending'
        BY <1>1, <1>8, <3>1, <3>3 DEF Pending
      <4> QED BY <3>1, <4>1 DEF ToResponder
    <3> QED BY <3>2, <3>3
  <2>3. CASE \E k \in OnWay("i") : k \in Finds(x)
    BY <1>8, <2>3 DEF ToResponder
  <2> QED BY <1>6, <1>9, <2>1, <2>2, <2>3 DEF ToResponder
<1> QED BY <1>10, <1>11 DEF Brought

LEMMA ResponseBrought ==
    ASSUME IInv, TypeOK, Ordered, Brought, TakeResponse
    PROVE  Brought'
<1> DEFINE m == Head(chan["i"])
           ack == Msg("ack")
<1>1. /\ chan["i"] # <<>> /\ out["i"] = <<>> /\ m \in Message /\ m.kind = "response"
      /\ m \in OnWay("i") /\ UNCHANGED <<held, made, wanted>> /\ Answers("i", <<ack>>)
      /\ result' = [result EXCEPT !["i"] = InverseResult(m.result)]
  BY Endpoints, Taken, HeadOnWay DEF TakeResponse, Takes, IInv, database, asking
<1>2. m.result \in Result
  BY <1>1 DEF Message, Request, Plain, About
<1>3. result'["i"].peerMissing = m.result.missing /\ result'["r"] = result["r"]
  BY <1>1, <1>2, Endpoints DEF InverseResult, Result, TypeOK
<1>4. ack \in Message /\ ack.kind = "ack"
  BY Messages DEF Plain
<1> HIDE DEF m, ack
<1>5. <<ack>> \in Seq(Message) /\ DOMAIN <<ack>> = {1} /\ <<ack>>[1] = ack
  BY <1>4, OneMessage
<1>6. /\ \A k \in OnWay("i") : k \in OnWay("i")' \/ k = m
      /\ \A k \in OnWay("r") : k \in OnWay("r")'
      /\ ack \in OnWay("r")'
  <2>1. /\ OnWay("i") \subseteq OnWay("i")' \cup {m}
        /\ OnWay("r")' = OnWay("r") \cup {<<ack>>[n] : n \in DOMAIN <<ack>>}
    BY <1>1, <1>5, Members, Endpoints DEF m
  <2> QED BY <1>5, <2>1
<1>7. Under'
  BY <1>4, <1>6 DEF Under, Kinds
<1>8. Due => Due'
  BY <1>1, <1>6 DEF Due, Kinds
<1>9. \A k \in Pending : k \in Pending'
  BY <1>1, <1>6 DEF Pending
<1>10. \A x \in held'["r"] \ held'["i"] : ToInitiator(x)'
  <2>1. \A x \in held["r"] \ held["i"] : ToInitiator(x)
    BY DEF Brought
  <2> QED BY <1>1, <1>3, <1>7, <1>8, <1>9, <2>1 DEF ToInitiator
<1>11. ASSUME NEW x \in held'["i"] \ held'["r"] PROVE ToResponder(x)'
  <2>1. ToResponder(x) /\ InOrder(x)
    BY <1>1, Endpoints DEF Brought, Ordered, TypeOK
  <2>2. m \in Finds(x) => ToResponder(x)'
    BY <1>3, <1>7 DEF Finds, ToResponder
  <2>3. CASE \E k \in OnWay("i") : k \in Finds(x)
    BY <1>6, <2>2, <2>3 DEF ToResponder
  <2>4. CASE x \in result["i"].peerMissing
    <3>1. m \in Finds(x)
      BY <1>1, <2>1, <2>4 DEF InOrder, Finds, FindsNot
    <3> QED BY <2>2, <3>1
  <2> QED BY <1>8, <1>9, <2>1, <2>3, <2>4 DEF ToResponder
<1> QED BY <1>10, <1>11 DEF Brought

\* The handlers that hand no resource over.
LEMMA PlainDelivers ==
    ASSUME TypeOK, Ordered, Brought, NEW e \in End, chan[e] # <<>>, out[e] = <<>>,
           NEW msgs \in Seq(Message), Answers(e, msgs), UNCHANGED <<held, made, wanted, result>>,
           Head(chan[e]).kind \notin {"request", "response", "retry", "add", "recipients"},
           \A n \in DOMAIN msgs : msgs[n].kind \notin {"request", "response", "add"},
           Under => Under'
    PROVE  Ordered' /\ Brought'
<1>1. Ordered'
  <2>1. \A n \in DOMAIN msgs : Holding(held', Peer(e), msgs[n])
    BY DEF Holding
  <2> QED BY <2>1, OthersOrdered
<1>2. Brought'
  <2>1. \A x : Head(chan[e]) # MsgOf("add", x)
    BY DEF MsgOf
  <2>2. "recipients" \in Kinds("i") => "recipients" \in Kinds("i")'
    BY KindsAnswer, Endpoints
  <2> QED BY <2>1, <2>2, OthersBrought
<1> QED BY <1>1, <1>2

LEMMA NetworkDelivers ==
    ASSUME TypeOK, Ordered, Brought, NEW e \in End,
           (e = "r" /\ TakeAck) \/ TakeNetwork(e) \/ TakeNetworkAck(e) \/ TakeFolders(e)
    PROVE  Ordered' /\ Brought'
<1>1. UNCHANGED <<held, made, wanted, result>>
  BY DEF TakeAck, TakeNetwork, TakeNetworkAck, TakeFolders, database, asking
<1>2. /\ Msg("network") \in Message /\ Msg("network").kind = "network"
      /\ Msg("networkAck") \in Message /\ Msg("networkAck").kind = "networkAck"
      /\ Msg("recipients") \in Message /\ Msg("recipients").kind = "recipients"
  BY Messages DEF Plain
<1>3. UnknownFolders(e) \in Message /\ UnknownFolders(e).kind = "folders"
  BY DEF UnknownFolders, Message, TypeOK, Result
<1>4. ASSUME NEW m \in Message, m.kind \in {"network", "networkAck", "folders", "recipients"}, NEW kind,
             chan[e] # <<>>, out[e] = <<>>, Head(chan[e]).kind = kind, Answers(e, <<m>>),
             \/ e = "r" /\ kind = "ack" /\ m.kind = "network"
             \/ e = "r" /\ kind = "network"
             \/ kind = "networkAck" /\ m.kind = "folders"
             \/ kind = "folders" /\ (e = "i" => m.kind = "recipients")
      PROVE  Ordered' /\ Brought'
  <2> DEFINE msgs == <<m>>
  <2>1. msgs \in Seq(Message) /\ DOMAIN msgs = {1} /\ msgs[1] = m /\ Answers(e, msgs)
    BY <1>4, OneMessage
  <2> HIDE DEF msgs
  <2>2. \A n \in DOMAIN msgs : msgs[n].kind \notin {"request", "response", "add"}
    BY <1>4, <2>1
  <2>3. kind \notin {"request", "response", "retry", "add", "recipients"}
    BY <1>4
  <2>4. Under => Under'
    BY <1>4, <2>1, <2>3, UnderMoves, Endpoints DEF Follows
  <2> QED BY <1>1, <1>4, <2>1, <2>2, <2>3, <2>4, PlainDelivers
<1>5. CASE e = "r" /\ TakeAck
  BY <1>2, <1>4, <1>5 DEF TakeAck, Takes
<1>6. CASE TakeNetwork(e) /\ e = "r"
  BY <1>2, <1>4, <1>6, Endpoints DEF TakeNetwork, NetworkAnswer, Takes
<1>7. CASE TakeNetwork(e) /\ e = "i"
  <2> DEFINE msgs == NetworkAnswer(e)
  <2>1. msgs = <<Msg("network"), Msg("networkAck")>>
    BY <1>7 DEF NetworkAnswer
  <2>2. /\ msgs \in Seq(Message) /\ DOMAIN msgs = {1, 2}
        /\ msgs[1].kind = "network" /\ msgs[2].kind = "networkAck"
    BY <1>2, <2>1, TwoMessages
  <2>3. chan[e] # <<>> /\ out[e] = <<>> /\ Head(chan[e]).kind = "network" /\ Answers(e, msgs)
    BY <1>7 DEF TakeNetwork, Takes
  <2> HIDE DEF msgs
  <2>4. /\ "networkAck" \in {msgs[n].kind : n \in DOMAIN msgs}
        /\ \A n \in DOMAIN msgs : msgs[n].kind \notin {"request", "response", "add"}
    BY <2>2
  <2>6. Under => Under'
    BY <1>7, <2>2, <2>3, UnderMoves, Endpoints DEF Follows
  <2> QED BY <1>1, <2>2, <2>3, <2>4, <2>6, PlainDelivers
<1>8. CASE TakeNetworkAck(e)
  BY <1>3, <1>4, <1>8 DEF TakeNetworkAck, Takes
<1>9. CASE TakeFolders(e)
  <2> DEFINE m == IF e = "r" THEN UnknownFolders(e) ELSE Msg("recipients")
  <2>1. m \in Message /\ m.kind \in {"folders", "recipients"} /\ (e = "i" => m.kind = "recipients")
    BY <1>2, <1>3, Endpoints
  <2>2. chan[e] # <<>> /\ out[e] = <<>> /\ Head(chan[e]).kind = "folders" /\ Answers(e, <<m>>)
    BY <1>9 DEF TakeFolders, Takes
  <2> HIDE DEF m
  <2> QED BY <1>4, <2>1, <2>2
<1> QED BY <1>5, <1>6, <1>7, <1>8, <1>9, Endpoints

LEMMA MergesDeliver ==
    ASSUME TypeOK, IInv, Ordered, Brought, NEW e \in End,
           \/ TakeComplete(e)
           \/ \E kind \in {"svRequest", "updates", "final"} : \E next \in {"updates", "final", "clocks"} :
                 MergeStep(e, kind, next)
           \/ e = "i" /\ TakeClocks
    PROVE  Ordered' /\ Brought'
<1>1. /\ UNCHANGED <<held, made, wanted, result>> /\ chan[e] # <<>> /\ out[e] = <<>>
      /\ Head(chan[e]).kind \in {"complete", "svRequest", "updates", "final", "clocks"}
  BY MergesAnswer
<1>2. PICK msgs \in Seq(Message) :
          /\ Answers(e, msgs)
          /\ \A n \in DOMAIN msgs : msgs[n].kind \in {"svRequest", "updates", "final", "clocks"}
  BY MergesAnswer
<1>3. /\ Head(chan[e]).kind \notin {"request", "response", "retry", "add", "recipients", "ack", "network", "networkAck", "folders"}
      /\ \A n \in DOMAIN msgs : msgs[n].kind \notin {"request", "response", "add"}
  BY <1>1, <1>2
<1>4. Under => Under'
  BY <1>1, <1>2, <1>3, UnderMoves DEF Follows
<1> QED BY <1>1, <1>2, <1>3, <1>4, PlainDelivers

LEMMA RecipientsDeliver ==
    ASSUME TypeOK, Ordered, Brought, NEW e \in End, TakeRecipients(e)
    PROVE  Ordered' /\ Brought'
<1>1. /\ chan[e] # <<>> /\ out[e] = <<>> /\ Head(chan[e]).kind = "recipients"
      /\ UNCHANGED <<held, made, wanted, result>>
  BY DEF TakeRecipients, Takes, database, asking
<1>2. PICK msgs \in RecipientAnswers(e) : Answers(e, msgs)
  BY DEF TakeRecipients
<1>3. /\ msgs \in Seq(Message)
      /\ \A n \in DOMAIN msgs : \/ msgs[n].kind \in {"complete", "recipients"}
                                \/ \E x \in result[e].peerMissing : msgs[n] = MsgOf("add", x)
      /\ \A x \in result[e].peerMissing : \E n \in DOMAIN msgs : msgs[n] = MsgOf("add", x)
      /\ e = "r" => \E n \in DOMAIN msgs : msgs[n].kind = "recipients"
  BY RecipientsMembers
<1>4. \A x : MsgOf("add", x).kind = "add" /\ MsgOf("add", x).resource = x
  BY DEF MsgOf
<1>5. OnWay(Peer(e))' = OnWay(Peer(e)) \cup {msgs[n] : n \in DOMAIN msgs}
  BY <1>1, <1>2, <1>3, Members
<1>6. \A x \in result[e].peerMissing : MsgOf("add", x) \in OnWay(Peer(e))'
  BY <1>3, <1>5
<1>7. Kinds(Peer(e))' = Kinds(Peer(e)) \cup {msgs[n].kind : n \in DOMAIN msgs}
  BY <1>1, <1>2, <1>3, KindsAnswer
<1>8. Ordered'
  <2>1. ASSUME NEW n \in DOMAIN msgs
        PROVE  msgs[n].kind \notin {"request", "response"} /\ Holding(held', Peer(e), msgs[n])
    <3>1. CASE msgs[n].kind \in {"complete", "recipients"}
      BY <3>1 DEF Holding
    <3>2. ASSUME NEW x \in result[e].peerMissing, msgs[n] = MsgOf("add", x)
          PROVE  msgs[n].kind \notin {"request", "response"} /\ Holding(held', Peer(e), msgs[n])
      <4>1. x \in held'[e] /\ Peer(Peer(e)) = e
        BY <1>1, Peers DEF Ordered, HeldSound
      <4> QED BY <1>4, <3>2, <4>1 DEF Holding
    <3> QED BY <1>3, <3>1, <3>2
  <2> QED BY <1>1, <1>2, <1>3, <2>1, OthersOrdered
<1>9. Brought'
  <2>1. \A x : Head(chan[e]) # MsgOf("add", x)
    BY <1>1, <1>4
  <2>2. \/ Under => Under'
        \/ /\ \A x \in result["r"].peerMissing : MsgOf("add", x) \in OnWay("i")'
           /\ "recipients" \in Kinds("i")'
    <3>1. CASE e = "r"
      BY <1>3, <1>6, <1>7, <3>1, Endpoints
    <3>2. CASE e = "i"
      BY <1>1, <1>2, <1>3, <3>2, UnderMoves, Endpoints DEF Follows
    <3> QED BY <3>1, <3>2, Endpoints
  <2>3. "recipients" \in Kinds("i") =>
              \/ "recipients" \in Kinds("i")'
              \/ \A x \in result["i"].peerMissing : MsgOf("add", x) \in OnWay("r")'
    BY <1>6, <1>7, Endpoints
  <2> QED BY <1>1, <1>2, <1>3, <2>1, <2>2, <2>3, OthersBrought
<1> QED BY <1>8, <1>9

LEMMA AddDelivers ==
    ASSUME IInv, TypeOK, Ordered, Brought, NEW e \in End, TakeAdd(e)
    PROVE  Ordered' /\ Brought'
<1> DEFINE x == Head(chan[e]).resource
           left == result[e].missing \ {x}
           msgs == IF left = {} THEN <<Msg("complete")>> ELSE <<>>
<1>1. /\ chan[e] # <<>> /\ out[e] = <<>> /\ Head(chan[e]).kind = "add" /\ Answers(e, msgs)
      /\ held' = [held EXCEPT ![e] = @ \cup {x}] /\ result' = [result EXCEPT ![e].missing = left]
      /\ UNCHANGED <<made, wanted>>
  BY DEF TakeAdd, Takes, asking
<1>2. /\ Msg("complete") \in Message /\ Msg("complete").kind = "complete"
  BY Messages DEF Plain
<1>3. msgs \in Seq(Message) /\ \A n \in DOMAIN msgs : msgs[n].kind = "complete"
  <2>1. CASE left = {}
    BY <1>2, <2>1, OneMessage
  <2>2. CASE left # {}
    BY <2>2, EmptySeq
  <2> QED BY <2>1, <2>2
<1>4. x \in held[Peer(e)]
  <2>1. Head(chan[e]) \in OnWay(e)
    BY <1>1, HeadOnWay
  <2> QED BY <1>1, <2>1 DEF Ordered, HeldSound, Holding
<1> HIDE DEF left, msgs
<1>5. \A d \in End : /\ result'[d].peerMissing = result[d].peerMissing
                     /\ held[d] \subseteq held'[d] /\ held'[d] \subseteq held[d] \cup held[Peer(d)]
  <2>1. \A d \in End : result'[d].peerMissing = result[d].peerMissing
    BY <1>1 DEF TypeOK, Result
  <2>2. \A d \in End : held'[d] = IF d = e THEN held[d] \cup {x} ELSE held[d]
    BY <1>1 DEF TypeOK
  <2> QED BY <1>4, <2>1, <2>2
<1>6. x \in held'[e]
  BY <1>1 DEF TypeOK
<1>7. Ordered'
  <2>1. \A n \in DOMAIN msgs : msgs[n].kind \notin {"request", "response"} /\ Holding(held', Peer(e), msgs[n])
    BY <1>3 DEF Holding
  <2> QED BY <1>1, <1>3, <1>5, <2>1, OthersOrdered
<1>8. Brought'
  <2>1. \A y : Head(chan[e]) = MsgOf("add", y) => y \in held'[e]
    BY <1>6 DEF MsgOf
  <2>3. Under => Under'
    BY <1>1, <1>3, UnderMoves DEF Follows
  <2>4. "recipients" \in Kinds("i") => "recipients" \in Kinds("i")'
    BY <1>1, <1>3, KindsAnswer, Endpoints
  <2> QED BY <1>1, <1>3, <1>5, <2>1, <2>3, <2>4, OthersBrought
<1> QED BY <1>7, <1>8

LEMMA HandlersDeliver ==
    ASSUME "overlap" \notin Faults, IInv, Ordered, Brought, HandleInitiator \/ HandleResponder
    PROVE  Ordered' /\ Brought'
<1>1. TypeOK /\ "i" \in End /\ "r" \in End
  BY IInvTyped, Endpoints
<1>2. ASSUME NEW e \in End, Handle(e) PROVE Ordered' /\ Brought'
  BY <1>1, <1>2, SendOrdered, SendBrought, NetworkDelivers, RecipientsDeliver, AddDelivers, MergesDeliver
     DEF Handle
<1>3. ASSUME NEW e \in End, NEW kind \in {"svRequest", "updates", "final"},
             NEW next \in {"updates", "final", "clocks"}, MergeStep(e, kind, next)
      PROVE  Ordered' /\ Brought'
  BY <1>1, <1>3, MergesDeliver
<1>4. TakeClocks \/ TakeAck => Ordered' /\ Brought'
  BY <1>1, MergesDeliver, NetworkDelivers
<1>5. TakeRetry \/ TakeRequest \/ TakeResponse => Ordered' /\ Brought'
  BY <1>1, RetryOrdered, RetryBrought, RequestOrdered, RequestBrought, ResponseOrdered, ResponseBrought
<1>6. CASE HandleInitiator
  BY <1>1, <1>2, <1>3, <1>4, <1>5, <1>6 DEF HandleInitiator
<1>7. CASE HandleResponder
  BY <1>1, <1>2, <1>3, <1>4, <1>5, <1>7 DEF HandleResponder
<1> QED BY <1>6, <1>7

LEMMA StepDelivery == "overlap" \notin Faults /\ IInv /\ DInv /\ [Next]_vars => DInv'
<1> SUFFICES ASSUME "overlap" \notin Faults, IInv, DInv, [Next]_vars, "error" \notin faults'
             PROVE  Ordered' /\ Brought'
  BY DEF DInv
<1>1. ~\E e \in End : HandlerFails(e) \/ AskFails(e)
  BY DEF HandlerFails, AskFails, Fault
<1>2. faults \subseteq faults'
  <2>1. ASSUME NEW e \in End, Handle(e) PROVE faults' = faults
    BY <2>1 DEF Handle, Send, TakeNetwork, TakeNetworkAck, TakeFolders, TakeRecipients, TakeAdd, TakeComplete
  <2>2. HandleInitiator \/ HandleResponder => faults' = faults
    BY <2>1, Endpoints DEF HandleInitiator, HandleResponder, TakeRetry, TakeResponse, TakeRequest, TakeAck,
                           MergeStep, TakeClocks
  <2>3. Ask => faults' = faults
    BY DEF Ask, MakeManifest, AskForRetry, SendManifest
  <2>4. User => faults' = faults
    BY DEF User, Create, ShareFolder
  <2>5. Reconnect => faults \subseteq faults'
    BY DEF Reconnect, Fault
  <2>6. UNCHANGED vars => faults' = faults
    BY DEF vars
  <2> QED BY <1>1, <2>2, <2>3, <2>4, <2>5, <2>6 DEF Next
<1>3. TypeOK /\ Ordered /\ Brought
  BY <1>2, IInvTyped DEF DInv
<1>4. CASE HandleInitiator \/ HandleResponder
  BY <1>3, <1>4, HandlersDeliver
<1>5. CASE Ask
  BY <1>3, <1>5, AskBrought, MakeOrdered, SendManifestOrdered, RetryAskedOrdered DEF Ask
<1>6. CASE User
  BY <1>3, <1>6, UserOrdered, UserBrought
<1>7. CASE Reconnect
  BY <1>3, <1>7, ReconnectFresh, FreshOrderedNext, ReconnectBrought
<1>8. CASE UNCHANGED vars
  <2>1. UNCHANGED <<held, result, chan, out, made, wanted>>
    BY <1>8 DEF vars
  <2>2. \A d \in End : Way(d)' = Way(d)
    BY <2>1 DEF Way
  <2>3. \A d \in End : OnWay(d)' = OnWay(d)
    BY <2>2 DEF OnWay
  <2>4. \A d \in End : Kinds(d)' = Kinds(d)
    BY <2>3 DEF Kinds
  <2>5. Ordered'
    BY <1>3, <2>1, <2>2, SameOrdered
  <2>6. Pending' = Pending /\ Due' = Due /\ Under' = Under
    BY <2>1, <2>3, <2>4, Endpoints DEF Pending, Due, Under
  <2>7. Brought'
    BY <1>3, <2>1, <2>3, <2>4, <2>6, Endpoints DEF Brought, ToInitiator, ToResponder
  <2> QED BY <2>5, <2>7
<1> QED BY <1>1, <1>4, <1>5, <1>6, <1>7, <1>8 DEF Next

LEMMA InitDelivery == Init => DInv
<1> SUFFICES ASSUME Init PROVE Ordered /\ Brought
  BY DEF DInv
<1>1. Fresh
  BY DEF Init, Fresh
<1>2. wanted["i"] > 0
  BY Endpoints DEF Init
<1>3. Due
  BY <1>2 DEF Due
<1> QED BY <1>1, <1>3, FreshOrdered, DueBrings

\* When nothing is under way, nothing is missing.
LEMMA QuietDelivered == IInv /\ DInv => Delivered
<1> SUFFICES ASSUME IInv, DInv, Quiet, "error" \notin faults PROVE held["i"] = held["r"]
  BY DEF Delivered
<1>1. \A e \in End : chan[e] = <<>> /\ out[e] = <<>> /\ wanted[e] = 0
  BY DEF Quiet
<1>2. <<>> \o <<>> = <<>> /\ DOMAIN <<>> = {}
  BY EmptySeq
<1>3. \A e \in End : Way(e) = <<>>
  BY <1>1, <1>2, Peers DEF Way
<1>4. \A e \in End : OnWay(e) = {}
  BY <1>2, <1>3 DEF OnWay
<1>5. \A e \in End : Kinds(e) = {}
  BY <1>4 DEF Kinds
<1>6. Pending = {}
  BY <1>2, <1>4, Endpoints DEF Pending, Quiet
<1>7. ~Due
  <2>1. wanted["i"] = 0 /\ wanted["r"] = 0 /\ ~(0 > 0)
    BY <1>1, Endpoints
  <2> QED BY <1>5, <2>1, Endpoints DEF Due
<1>8. ~Under
  BY <1>5, Endpoints DEF Under
<1>9. \A x : ~ToInitiator(x) /\ ~ToResponder(x)
  BY <1>4, <1>5, <1>6, <1>7, <1>8, Endpoints DEF ToInitiator, ToResponder
<1> QED BY <1>9 DEF DInv, Brought

\* When no two manifests of the initiator wait to be sent at once and no handler
\* fails, both ends hold the same when the syncs of a connection are over: what was
\* created while they were under way, and what a lost connection cut off, has
\* arrived.
THEOREM AllDelivered == "overlap" \notin Faults /\ Spec => []Delivered
<1>1. Init => IInv /\ DInv
  BY InitIInv, InitDelivery
<1>2. "overlap" \notin Faults /\ (IInv /\ DInv) /\ [Next]_vars => (IInv /\ DInv)'
  BY StepIInv, StepDelivery
<1>3. SUFFICES ASSUME "overlap" \notin Faults PROVE Spec => []Delivered
  OBVIOUS
<1>4. (IInv /\ DInv) /\ [Next]_vars => (IInv /\ DInv)'
  BY <1>2, <1>3
<1> QED BY <1>1, <1>4, QuietDelivered, PTL DEF Spec
=============================================================================
