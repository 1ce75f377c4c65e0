------------------------------ MODULE UserSync ------------------------------
(***************************************************************************)
(* The user sync of one established connection, from the manifest request  *)
(* to the merges it starts.                                                *)
(*                                                                         *)
(*   network/src/p2p/user_sync.rs, folder_sync.rs, resource_sync.rs        *)
(*   services/src/sync_service.rs, folder_service.rs                       *)
(*   core/src/models/sync.rs                                               *)
(*                                                                         *)
(* Both ends are peers of each other in every resource and folder here,    *)
(* users and devices are left out.  Every message has a stream of its own  *)
(* and handle_messages accepts the streams in the order they were opened,  *)
(* one message at a time: a channel per direction, first in first out.     *)
(***************************************************************************)
EXTENDS Naturals, FiniteSets, SequencesExt

CONSTANTS
    Resource,   \* the resources the two share
    Folder,     \* the folders the two share
    FolderOf,   \* resource -> the folder it was created in
    Faults,     \* what may go wrong: see below
    MaxEvents   \* bound: creations and folder shares while connected, and
                \* faults of the kinds error and drop, each at most once

(***************************************************************************)
(* "overlap": the initiator makes a manifest while another one of its own  *)
(*            waits to be sent; without it, it does not;                   *)
(* "error":   a handler or a task returns an error before it is done;      *)
(* "drop":    the connection is lost and made anew.                        *)
(***************************************************************************)
ASSUME ResourceAssumption == IsFiniteSet(Resource)
ASSUME FolderAssumption == FolderOf \in [Resource -> Folder]
ASSUME BoundAssumption == MaxEvents \in Nat
ASSUME FaultAssumption == Faults \subseteq {"overlap", "error", "drop"}

VARIABLES
    held,       \* end -> the shared resources in its database
    folders,    \* end -> the shared folders in its database
    misplaced,  \* end -> the resources it keeps in its default folder instead
    differ,     \* the resources of both whose clock rows differ
    result,     \* end -> user_manifest_result of its PeerConnection
    chan,       \* end -> the messages on their way to it
    out,        \* end -> what its handler has yet to send before it is done
    wanted,     \* end -> syncs it is about to ask for
    made,       \* the initiator's manifests that wait to be sent, by age
    adds,       \* creations and shares so far (bound)
    faults      \* the kinds of faults there have been (bound)

database == <<held, folders, misplaced, differ>>
asking == <<wanted, made, adds>>
vars == <<held, folders, misplaced, differ, result, chan, out, wanted, made, adds, faults>>

\* is_initiator: "i" has opened the connection, "r" has accepted it.
End == {"i", "r"}

Peer(e) == IF e = "i" THEN "r" ELSE "i"

\* UserManifestComparisonResult; stored is FALSE while the Option is None.
Result ==
    [stored : BOOLEAN,
     missing : SUBSET Resource,       \* local_missing.unknown_resources
     peerMissing : SUBSET Resource,   \* remote_missing.unknown_resources
     newFolders : SUBSET Folder,      \* local_missing.unknown_folders
     peerFolders : SUBSET Folder,     \* remote_missing.unknown_folders
     differ : SUBSET Resource]        \* resources_requiring_sync

NoResult ==
    [stored |-> FALSE, missing |-> {}, peerMissing |-> {},
     newFolders |-> {}, peerFolders |-> {}, differ |-> {}]

\* UserManifestComparisonResult::inverse: as the other end sees it
InverseResult(res) ==
    [res EXCEPT !.missing = res.peerMissing, !.peerMissing = res.missing,
                !.newFolders = res.peerFolders, !.peerFolders = res.newFolders]

Plain == {"ack", "network", "networkAck", "recipients", "complete", "retry"}

About == {"add", "svRequest", "updates", "final", "clocks"}

Request ==
    [kind : {"request"}, held : SUBSET Resource, folders : SUBSET Folder,
     differ : SUBSET Resource]

Message ==
    [kind : Plain] \cup [kind : About, resource : Resource] \cup Request
    \cup [kind : {"response"}, result : Result]
    \cup [kind : {"folders"}, folders : SUBSET Folder]

\* Every table, result, queue and message keeps its type.
TypeOK ==
    /\ held \in [End -> SUBSET Resource]
    /\ folders \in [End -> SUBSET Folder]
    /\ misplaced \in [End -> SUBSET Resource]
    /\ differ \subseteq Resource
    /\ result \in [End -> Result]
    /\ chan \in [End -> Seq(Message)]
    /\ out \in [End -> Seq(Message)]
    /\ wanted \in [End -> Nat]
    /\ made \in Seq(Request)
    /\ adds \in 0 .. MaxEvents
    /\ faults \subseteq {"error", "drop"}

\* The two have met before: each holds some of the resources, in their
\* folders; the handshake of the connection is over and its sync is next.
Init ==
    /\ held \in [End -> SUBSET Resource]
    /\ folders \in [End -> SUBSET Folder]
    /\ \A e \in End : \A x \in held[e] : FolderOf[x] \in folders[e]
    /\ misplaced = [e \in End |-> {}]
    /\ differ \in SUBSET (held["i"] \cap held["r"])
    /\ result = [e \in End |-> NoResult]
    /\ chan = [e \in End |-> <<>>]
    /\ out = [e \in End |-> <<>>]
    /\ made = <<>>
    /\ wanted = [e \in End |-> IF e = "i" THEN 1 ELSE 0]
    /\ adds = 0
    /\ faults = {}

----------------------------------------------------------------------------
\* Another creation, share or fault is within the bound.
MayHappen == adds + Cardinality(faults) < MaxEvents

Msg(kind) == [kind |-> kind]

MsgOf(kind, x) == [kind |-> kind, resource |-> x]

\* The message that e's handler takes next is of that kind.
Takes(e, kind) == out[e] = <<>> /\ chan[e] # <<>> /\ Head(chan[e]).kind = kind

\* e's handler has taken its message and is going to send these.
Answers(e, msgs) ==
    /\ chan' = [chan EXCEPT ![e] = Tail(@)]
    /\ out' = [out EXCEPT ![e] = msgs]

\* send_message: one stream for each, opened in this order.
Send(e) ==
    /\ out[e] # <<>>
    /\ chan' = [chan EXCEPT ![Peer(e)] = Append(@, Head(out[e]))]
    /\ out' = [out EXCEPT ![e] = Tail(@)]
    /\ UNCHANGED <<database, result, asking, faults>>

\* A message about each of a set, in any order: they come out of hash sets.
OneEach(kind, set) ==
    {[n \in DOMAIN q |-> MsgOf(kind, q[n])] : q \in SetToSeqs(set)}

----------------------------------------------------------------------------
(* Asking for a sync.                                                      *)

\* handle_add_resource: a resource is created in a shared folder and shared
\* with the users of the folder; a task of its own then asks for a sync.
Create(e, x) ==
    /\ MayHappen
    /\ \A d \in End : x \notin held[d]
    /\ FolderOf[x] \in folders[e]
    /\ held' = [held EXCEPT ![e] = @ \cup {x}]
    /\ wanted' = [wanted EXCEPT ![e] = @ + 1]
    /\ adds' = adds + 1
    /\ UNCHANGED <<folders, misplaced, differ, result, chan, out, made, faults>>

\* handle_share_folder: a folder and what is in it.
ShareFolder(e, f, inside) ==
    /\ MayHappen
    /\ \A d \in End : f \notin folders[d] /\ inside \cap held[d] = {}
    /\ \A x \in inside : FolderOf[x] = f
    /\ held' = [held EXCEPT ![e] = @ \cup inside]
    /\ folders' = [folders EXCEPT ![e] = @ \cup {f}]
    /\ wanted' = [wanted EXCEPT ![e] = @ + 1]
    /\ adds' = adds + 1
    /\ UNCHANGED <<misplaced, differ, result, chan, out, made, faults>>

\* get_user_manifest at the initiator.
Manifest ==
    [kind |-> "request", held |-> held["i"], folders |-> folders["i"],
     differ |-> differ]

MayMakeManifest ==
    \/ "overlap" \in Faults
    \/ made = <<>> /\ \A n \in DOMAIN out["i"] : out["i"][n].kind # "request"

\* connect_with_ticket finds the connection: the initiator makes a manifest
\* and sends it (start_user_network_sync), beside what its handler does.
MakeManifest ==
    /\ wanted["i"] > 0 /\ MayMakeManifest
    /\ wanted' = [wanted EXCEPT !["i"] = @ - 1]
    /\ made' = Append(made, Manifest)
    /\ UNCHANGED <<database, result, chan, out, adds, faults>>

SendManifest(n) ==
    /\ n \in DOMAIN made
    /\ chan' = [chan EXCEPT !["r"] = Append(@, made[n])]
    /\ made' = RemoveAt(made, n)
    /\ UNCHANGED <<database, result, out, wanted, adds, faults>>

\* The responder asks the initiator to.
AskForRetry ==
    /\ wanted["r"] > 0
    /\ wanted' = [wanted EXCEPT !["r"] = @ - 1]
    /\ chan' = [chan EXCEPT !["i"] = Append(@, Msg("retry"))]
    /\ UNCHANGED <<database, result, out, made, adds, faults>>

\* Variant: the retry is counted as a sync that this end wanted.
TakeRetryCounted ==
    /\ Takes("i", "retry") /\ MayMakeManifest
    /\ Answers("i", <<Manifest>>)
    /\ wanted' = [wanted EXCEPT !["i"] = @ - 1]
    /\ UNCHANGED <<database, result, made, adds, faults>>

TakeRetry ==
    /\ Takes("i", "retry") /\ MayMakeManifest
    /\ Answers("i", <<Manifest>>)
    /\ UNCHANGED <<database, result, asking, faults>>

----------------------------------------------------------------------------
(* The manifests and the network.                                          *)

\* What the responder may find equal now although it differed in the manifest:
\* a merge has gone through meanwhile, at the responder at least.
Merged(theirs) ==
    {x \in theirs.differ : \/ x \notin differ
                          \/ \E n \in DOMAIN chan["i"] : chan["i"][n] = MsgOf("clocks", x)}

\* process_user_manifest_request: process_resource_gaps and
\* process_folder_gaps of the two manifests, seen from the responder (the
\* users of process_user_gaps are left out).  A
\* resource merged since the manifest was made differs from it, or not,
\* depending on whose clock was behind.
Compare(theirs, merged) ==
    [stored |-> TRUE,
     missing |-> theirs.held \ held["r"],
     peerMissing |-> held["r"] \ theirs.held,
     newFolders |-> theirs.folders \ folders["r"],
     peerFolders |-> folders["r"] \ theirs.folders,
     differ |-> theirs.differ \ merged]

Response(res) == <<[kind |-> "response", result |-> res]>>

\* Variant: the comparison is sent and not kept.
TakeRequestForgotten ==
    /\ Takes("r", "request")
    /\ LET theirs == Head(chan["r"]) IN
       \E merged \in SUBSET Merged(theirs) :
          Answers("r", Response(Compare(theirs, merged)))
    /\ UNCHANGED <<database, result, asking, faults>>

TakeRequest ==
    /\ Takes("r", "request")
    /\ LET theirs == Head(chan["r"]) IN
       \E merged \in SUBSET Merged(theirs) :
          /\ result' = [result EXCEPT !["r"] = Compare(theirs, merged)]
          /\ Answers("r", Response(Compare(theirs, merged)))
    /\ UNCHANGED <<database, asking, faults>>

\* Variant: the comparison is kept as the responder sees it.
TakeResponseAsSent ==
    /\ Takes("i", "response")
    /\ result' = [result EXCEPT !["i"] = Head(chan["i"]).result]
    /\ Answers("i", <<Msg("ack")>>)
    /\ UNCHANGED <<database, asking, faults>>

TakeResponse ==
    /\ Takes("i", "response")
    /\ result' = [result EXCEPT !["i"] = InverseResult(Head(chan["i"]).result)]
    /\ Answers("i", <<Msg("ack")>>)
    /\ UNCHANGED <<database, asking, faults>>

\* This and the later handlers return an error when they find no result;
\* ResultThere says that they find one.
TakeAck ==
    /\ Takes("r", "ack") /\ result["r"].stored
    /\ Answers("r", <<Msg("network")>>)
    /\ UNCHANGED <<database, result, asking, faults>>

\* process_user_network_sync: the initiator sends its own payload, both
\* acknowledge.
NetworkAnswer(e) ==
    IF e = "i" THEN <<Msg("network"), Msg("networkAck")>> ELSE <<Msg("networkAck")>>

TakeNetwork(e) ==
    /\ Takes(e, "network") /\ result[e].stored
    /\ Answers(e, NetworkAnswer(e))
    /\ UNCHANGED <<database, result, asking, faults>>

----------------------------------------------------------------------------
(* Folders and their recipients.                                           *)

UnknownFolders(e) == [kind |-> "folders", folders |-> result[e].peerFolders]

\* start_folder_sync: at both ends.
TakeNetworkAck(e) ==
    /\ Takes(e, "networkAck") /\ result[e].stored
    /\ Answers(e, <<UnknownFolders(e)>>)
    /\ UNCHANGED <<database, result, asking, faults>>

\* Variant: both ends answer with their folders.
TakeFoldersAlways(e) ==
    /\ Takes(e, "folders") /\ result[e].stored
    /\ folders' = [folders EXCEPT ![e] = @ \cup Head(chan[e]).folders]
    /\ Answers(e, <<UnknownFolders(e)>>)
    /\ UNCHANGED <<held, misplaced, differ, result, asking, faults>>

\* Variant: the folders are announced and not stored.
TakeFoldersUnsaved(e) ==
    /\ Takes(e, "folders") /\ result[e].stored
    /\ Answers(e, <<IF e = "r" THEN UnknownFolders(e) ELSE Msg("recipients")>>)
    /\ UNCHANGED <<database, result, asking, faults>>

\* process_unknown_folders_payload: the folders are stored; the responder
\* answers with its own, the initiator goes on to the recipients.
TakeFolders(e) ==
    /\ Takes(e, "folders") /\ result[e].stored
    /\ folders' = [folders EXCEPT ![e] = @ \cup Head(chan[e]).folders]
    /\ Answers(e, <<IF e = "r" THEN UnknownFolders(e) ELSE Msg("recipients")>>)
    /\ UNCHANGED <<held, misplaced, differ, result, asking, faults>>

\* send_resources: everything the peer lacks, or else that this is all.
Resources(e) ==
    IF result[e].peerMissing = {} THEN {<<Msg("complete")>>}
    ELSE OneEach("add", result[e].peerMissing)

\* process_folder_recipient_sync: the responder answers, both hand over.
RecipientAnswers(e) ==
    IF e = "r" THEN {<<Msg("recipients")>> \o msgs : msgs \in Resources(e)}
    ELSE Resources(e)

TakeRecipients(e) ==
    /\ Takes(e, "recipients") /\ result[e].stored
    /\ \E msgs \in RecipientAnswers(e) : Answers(e, msgs)
    /\ UNCHANGED <<database, result, asking, faults>>

----------------------------------------------------------------------------
(* Resources and the start of their merges.                                *)

\* process_resource_addition_request: the resource goes to its folder, or to
\* the default folder where that is unknown, and is no longer missing.
TakeAdd(e) ==
    LET x == Head(chan[e]).resource
        left == result[e].missing \ {x} IN
    /\ Takes(e, "add")
    /\ held' = [held EXCEPT ![e] = @ \cup {x}]
    /\ misplaced' = [misplaced EXCEPT ![e] =
          IF x \notin held[e] /\ FolderOf[x] \notin folders[e] THEN @ \cup {x} ELSE @]
    /\ result' = [result EXCEPT ![e].missing = left]
    /\ Answers(e, IF left = {} THEN <<Msg("complete")>> ELSE <<>>)
    /\ UNCHANGED <<folders, differ, asking, faults>>

\* process_resource_addition_complete: the initiator starts the merges.
MergeRequests(e) ==
    IF e = "i" THEN OneEach("svRequest", result[e].differ) ELSE {<<>>}

TakeComplete(e) ==
    /\ Takes(e, "complete") /\ (e = "i" => result[e].stored)
    /\ \E msgs \in MergeRequests(e) : Answers(e, msgs)
    /\ UNCHANGED <<database, result, asking, faults>>

\* The merge itself, in its four messages; the clocks agree after the last.
MergeStep(e, kind, next) ==
    /\ Takes(e, kind)
    /\ Answers(e, <<MsgOf(next, Head(chan[e]).resource)>>)
    /\ UNCHANGED <<database, result, asking, faults>>

TakeClocks ==
    /\ Takes("i", "clocks")
    /\ differ' = differ \ {Head(chan["i"]).resource}
    /\ Answers("i", <<>>)
    /\ UNCHANGED <<held, folders, misplaced, result, asking, faults>>

----------------------------------------------------------------------------
(* Faults.                                                                 *)

Fault(kind) ==
    /\ kind \in Faults \ faults /\ MayHappen
    /\ faults' = faults \cup {kind}

\* A handler returns an error before it has changed anything, or between two
\* of its sends; or the task that asks for a sync does.
HandlerFails(e) ==
    /\ Fault("error")
    /\ IF out[e] = <<>>
       THEN chan[e] # <<>> /\ Answers(e, <<>>)
       ELSE out' = [out EXCEPT ![e] = <<>>] /\ UNCHANGED chan
    /\ UNCHANGED <<database, result, asking>>

AskFails(e) ==
    /\ Fault("error")
    /\ wanted[e] > 0
    /\ wanted' = [wanted EXCEPT ![e] = @ - 1]
    /\ UNCHANGED <<database, result, chan, out, made, adds>>

\* The connection is lost and made anew: new PeerConnections at both ends,
\* whose handshake starts a sync.
Reconnect ==
    /\ Fault("drop")
    /\ chan' = [e \in End |-> <<>>]
    /\ out' = [e \in End |-> <<>>]
    /\ made' = <<>>
    /\ result' = [e \in End |-> NoResult]
    /\ wanted' = [wanted EXCEPT !["i"] = @ + 1]
    /\ UNCHANGED <<database, adds>>

----------------------------------------------------------------------------
Handle(e) ==
    \/ Send(e)
    \/ TakeNetwork(e) \/ TakeNetworkAck(e) \/ TakeFolders(e) \/ TakeRecipients(e)
    \/ TakeAdd(e) \/ TakeComplete(e)

HandleInitiator ==
    \/ Handle("i") \/ TakeRetry \/ TakeResponse
    \/ MergeStep("i", "updates", "final") \/ TakeClocks

HandleResponder ==
    \/ Handle("r") \/ TakeRequest \/ TakeAck
    \/ MergeStep("r", "svRequest", "updates") \/ MergeStep("r", "final", "clocks")

\* The tasks that ask for syncs.
Ask == MakeManifest \/ AskForRetry \/ \E n \in DOMAIN made : SendManifest(n)

User ==
    \E e \in End :
        \/ \E x \in Resource : Create(e, x)
        \/ \E f \in Folder : \E inside \in SUBSET Resource : ShareFolder(e, f, inside)

Next ==
    \/ HandleInitiator \/ HandleResponder \/ Ask \/ User \/ Reconnect
    \/ \E e \in End : HandlerFails(e) \/ AskFails(e)

Spec == Init /\ [][Next]_vars

\* The handler tasks run, and so do the tasks that ask for syncs.
Fairness ==
    WF_vars(HandleInitiator) /\ WF_vars(HandleResponder) /\ WF_vars(Ask)

FairSpec == Spec /\ Fairness

----------------------------------------------------------------------------
(* Properties.                                                             *)

\* The messages whose handlers call get_user_manifest_result.
NeedsResult(e) ==
    {"ack", "network", "networkAck", "folders", "recipients"}
    \cup IF e = "i" THEN {"complete"} ELSE {}

\* No handler finds user_manifest_result empty (SyncError::ManifestNotFound),
\* whatever fails, is lost or is started again meanwhile.
ResultThere ==
    \A e \in End : \A n \in DOMAIN chan[e] :
        chan[e][n].kind \in NeedsResult(e) => result[e].stored

\* No sync is under way or to be asked for.
Quiet ==
    /\ made = <<>>
    /\ \A e \in End : chan[e] = <<>> /\ out[e] = <<>> /\ wanted[e] = 0

\* When the syncs are over both have everything, also what was created while
\* an earlier sync was at work: process_user_manifest_request replaces the
\* result under the handlers of that sync, and send_resources reads it anew.
\* It takes manifests that arrive in the order they were made and handlers that
\* do not fail; a lost connection is followed by a sync that makes up for it.
Delivered == Quiet /\ "error" \notin faults => held["i"] = held["r"]

\* Until another sync joins it or a handler fails, no resource arrives before
\* its folder, although both ends run the folder phase and the resource phase
\* twice and the connection may be lost in between: add_resource_sync would put
\* it into the default folder.
FolderFirst ==
    adds = 0 /\ "error" \notin faults => \A e \in End : misplaced[e] = {}

\* When the syncs are over a resource that add_resource_sync put into the
\* default folder is in its own folder again if that has arrived:
\* "created_folder_id stays unchanged for future restoration".
Restored == Quiet => \A e \in End : \A x \in misplaced[e] : FolderOf[x] \notin folders[e]

\* Both acknowledgments start the folder phase and both recipient messages the
\* resource phase, so the tail of a sync runs twice, and syncs overlap: the
\* messages still come to an end.
Quiesces == <>[]Quiet

\* When the syncs are over everything that resources_requiring_sync named has
\* been merged: README.md:26 promises "syncing when available".
MergesDone == Quiet => differ = {}
=============================================================================
