------------------------------ MODULE Sharing ------------------------------
(***************************************************************************)
(* Sharing notes and a folder, and how the records of it travel.           *)
(*                                                                         *)
(*   services/src/resource_service.rs, folder_service.rs   what is shared  *)
(*   crypto_utils/src/ucan_utils.rs                        the proof chains*)
(*   persistance/src/repositories/                         the tables      *)
(*   network/src/p2p/                                      the exchanges   *)
(*                                                                         *)
(* prepare_share_resource makes a key, a share record with its UCAN and    *)
(* the clock rows of the recipient in one go.  Key and record are both     *)
(* named by the chain of users along which the resource came: <<o>> for    *)
(* the owner o, <<o, u, w>> where o shared with u and u with w.  The UCAN  *)
(* of the chain p is issued by the last but one of p to the last, and its  *)
(* only proof is the UCAN of the chain without the last.                   *)
(*                                                                         *)
(* A handler that writes in several transactions is as many actions.  Its  *)
(* device may stop between two of them, and others may write there: each   *)
(* such fault is counted.                                                  *)
(*                                                                         *)
(* Each user has one device.  A note is shared as it is; its content, its  *)
(* clock values, and the dialogue of the manifests are in ResourceSync and *)
(* UserSync.  There is one folder that users share; a note is in it or in  *)
(* the default folder of its creator.                                      *)
(***************************************************************************)
EXTENDS Naturals, Sequences, FiniteSets

CONSTANTS
    User,           \* the users, each with one device
    Note,           \* the resources
    None,           \* no resource
    Creator,        \* note -> the user who creates it
    Foldered,       \* the notes created in the shared folder
    Founder,        \* the user who creates the folder
    NoteShares,     \* what users ask for: <<sharer, note, recipient>>
    FolderShares,   \* what users ask for: <<sharer, recipient>>
    Session,        \* who dials whom: <<initiator, responder>>
    Met,            \* who added whom by hand: a user, with those it added
    MaxOpen,        \* bound: sessions open at a time
    MaxFaults       \* bound: devices that stop, acts amid a handler

ASSUME NoteAssumption == None \notin Note
ASSUME CreatorAssumption == Creator \in [Note -> User] /\ Founder \in User
ASSUME FolderedAssumption == Foldered \subseteq Note
ASSUME SharesAssumption == /\ NoteShares \subseteq User \X Note \X User
                           /\ FolderShares \subseteq User \X User
ASSUME SessionAssumption ==
    /\ Session \subseteq {s \in User \X User : s[1] # s[2]}
    /\ Met \in [User -> SUBSET User]
    /\ MaxOpen \in Nat \ {0}
ASSUME FaultsAssumption == MaxFaults \in Nat

VARIABLES
    known,     \* user -> the users (and their devices) in its tables
    folder,    \* user -> its folder_share_records; {}: it has no such folder
    held,      \* user -> the resources it has
    placed,    \* user -> those of them that are in the shared folder
    keys,      \* user -> note -> resource_keys
    shares,    \* user -> note -> share_records
    rows,      \* user -> note -> the users with a row in resource_vector_clocks
    created,   \* user -> the notes whose auto-share task has yet to run
    asked,     \* user -> what it has prepared to share and not saved
    session,   \* session -> where it stands and what it carries
    faults     \* how often a device stopped or a handler was not alone

tables == <<known, folder, held, placed, keys, shares, rows>>
vars == <<known, folder, held, placed, keys, shares, rows, created, asked, session,
          faults>>

----------------------------------------------------------------------------
Chain == Seq(User) \ {<<>>}

\* recipient_user_id and shared_by_user_id.
Recipient(p) == p[Len(p)]
Sharer(p) == IF Len(p) = 1 THEN p[1] ELSE p[Len(p) - 1]

Recipients(P) == {Recipient(p) : p \in P}
Named(P) == Recipients(P) \cup {Sharer(p) : p \in P}
For(P, w) == {p \in P : Recipient(p) = w}

\* generate_resource_owner_ucan, generate_folder_owner_ucan
Owned(u) == {<<u>>}

\* generate_delegated_ucan, with own as the proof.
Delegated(own, w) == Append(own, w)

\* validate_ucan_permission: the proofs of p, up to the UCAN that the owner
\* issued, are found by cid among the records P.
Proven(P, p) == \A k \in 2 .. Len(p) - 1 : SubSeq(p, 1, k) \in P

\* Foreign keys and UNIQUE(resource_id, user_id): the new keys P can go into
\* the table K of a user who knows the users U.
CanInsert(K, P, U) ==
    /\ Recipients(P) \subseteq U
    /\ \A p \in P, q \in K \cup P : Recipient(p) = Recipient(q) => p = q

NothingAsked == [to |-> {}, member |-> {}, given |-> [x \in Note |-> {}]]
Asked == [to : SUBSET User, member : SUBSET Chain, given : [Note -> SUBSET Chain]]

(***************************************************************************)
(* What a user lists for a peer: the notes that it knows to be shared with *)
(* the peer, with their records and rows; the recipients of the folder if  *)
(* the peer is one; and the users of all these.                            *)
(***************************************************************************)
ManifestSet == [users : SUBSET User, shares : [Note -> SUBSET Chain],
                rows : [Note -> SUBSET User], members : SUBSET User]

Nothing == [users |-> {}, shares |-> [x \in Note |-> {}],
            rows |-> [x \in Note |-> {}], members |-> {}]

\* get_resource_manifest_data
SharedWith(u, peer) == {x \in held[u] : For(shares[u][x], peer) # {}}

\* get_folder_manifest_for_user
MembersFor(u, peer) ==
    IF For(folder[u], peer) = {} THEN {} ELSE Recipients(folder[u])

\* get_users_with_device_ids_by_user_ids
UsersOf(u, peer) ==
    known[u] \cap ({u, peer} \cup MembersFor(u, peer) \cup
                   UNION {Recipients(shares[u][x]) : x \in SharedWith(u, peer)})

Manifest(u, peer) ==
    LET listed == SharedWith(u, peer)
    IN  [users   |-> UsersOf(u, peer),
         shares  |-> [x \in Note |-> IF x \in listed THEN shares[u][x] ELSE {}],
         rows    |-> [x \in Note |-> IF x \in listed THEN rows[u][x] ELSE {}],
         members |-> MembersFor(u, peer)]

Lists(m) == {x \in Note : m.shares[x] # {}}

\* What the other one lacks of a manifest: UserManifestDifferences, and the
\* recipients of a folder that both know.
Gap == [users : SUBSET User, notes : SUBSET Note, folder : BOOLEAN,
        members : SUBSET User]

NoGap == [users |-> {}, notes |-> {}, folder |-> FALSE, members |-> {}]

\* process_folder_gaps: a folder that only one has, or recipients of it.
LacksFolder(m, other) == m.members # {} /\ other.members = {}
LacksMembers(m, other) ==
    IF other.members = {} THEN {} ELSE m.members \ other.members

Lacks(m, other) ==
    [users   |-> m.users \ other.users,
     notes   |-> Lists(m) \ Lists(other),
     folder  |-> LacksFolder(m, other),
     members |-> LacksMembers(m, other)]

\* compare_share_records, vector_clocks_need_update
Differing(m, other) ==
    {x \in Lists(m) \cap Lists(other) :
        m.shares[x] # other.shares[x] \/ m.rows[x] # other.rows[x]}

CopySet == [to : User, note : Note, keys : SUBSET Chain, shares : SUBSET Chain,
            rows : SUBSET User]

MergeSet == [note : Note \cup {None}, keys : SUBSET Chain, shares : SUBSET Chain,
             rows : SUBSET User]

NoMerge == [note |-> None, keys |-> {}, shares |-> {}, rows |-> {}]

(***************************************************************************)
(* A session is one user sync on a connection.  gap[n] is what the other   *)
(* end lacks of the n-th one's manifest, members what a folder message     *)
(* carries, copies the resources under way, todo the notes whose merge has *)
(* yet to begin and merge the message of the one that runs, with the token *)
(* in its shares; while the responder stores a final message, answer is    *)
(* what it has gathered for the other.  Copies go before merges and merges *)
(* one by one: they are about different rows of the tables.                *)
(***************************************************************************)
Phase == {"idle", "manifest", "users", "usersBack", "folders", "foldersBack",
          "recipients", "recipientsBack", "copies", "merging",
          "request", "updates", "final", "finalClocks", "finalInsert",
          "finalShares", "response", "responseShares", "responseKeys"}

SessionState ==
    [phase : Phase, sent : ManifestSet, gap : [{1, 2} -> Gap],
     members : SUBSET Chain, copies : SUBSET CopySet, todo : SUBSET Note,
     merge : MergeSet, answer : MergeSet]

Idle == [phase |-> "idle", sent |-> Nothing, gap |-> [n \in {1, 2} |-> NoGap],
         members |-> {}, copies |-> {}, todo |-> {}, merge |-> NoMerge,
         answer |-> NoMerge]

TypeOK ==
    /\ known \in [User -> SUBSET User]
    /\ folder \in [User -> SUBSET Chain]
    /\ held \in [User -> SUBSET Note]
    /\ placed \in [User -> SUBSET Note]
    /\ keys \in [User -> [Note -> SUBSET Chain]]
    /\ shares \in [User -> [Note -> SUBSET Chain]]
    /\ rows \in [User -> [Note -> SUBSET User]]
    /\ created \in [User -> SUBSET Note]
    /\ asked \in [User -> Asked]
    /\ session \in [Session -> SessionState]
    /\ faults \in 0 .. MaxFaults

\* Nothing is shared yet; some have added each other's ticket.
Init ==
    /\ known = [u \in User |-> {u} \cup Met[u]]
    /\ folder = [u \in User |-> {}]
    /\ held = [u \in User |-> {}]
    /\ placed = [u \in User |-> {}]
    /\ keys = [u \in User |-> [x \in Note |-> {}]]
    /\ shares = [u \in User |-> [x \in Note |-> {}]]
    /\ rows = [u \in User |-> [x \in Note |-> {}]]
    /\ created = [u \in User |-> {}]
    /\ asked = [u \in User |-> NothingAsked]
    /\ session = [s \in Session |-> Idle]
    /\ faults = 0

----------------------------------------------------------------------------
(* Creating and sharing.                                                   *)

CreateFolder(u) ==
    /\ u = Founder /\ folder[u] = {}
    /\ folder' = [folder EXCEPT ![u] = Owned(u)]
    /\ UNCHANGED <<known, held, placed, keys, shares, rows, created, asked, session>>

\* create_resource, and handle_add_resource that spawns the auto-share task.
Create(u, x) ==
    /\ Creator[x] = u /\ x \notin held[u]
    /\ x \in Foldered => folder[u] # {}
    /\ held' = [held EXCEPT ![u] = @ \cup {x}]
    /\ placed' = [placed EXCEPT ![u] = @ \cup ({x} \cap Foldered)]
    /\ keys' = [keys EXCEPT ![u][x] = Owned(u)]
    /\ shares' = [shares EXCEPT ![u][x] = Owned(u)]
    /\ rows' = [rows EXCEPT ![u][x] = {u}]
    /\ created' = [created EXCEPT ![u] = @ \cup {x}]
    /\ UNCHANGED <<known, folder, asked, session>>

\* The rows that find_by_resource_and_operation_and_user may take first.
OwnRecords(u, x) == For(shares[u][x], u)

\* prepare_share_resource gives Some: no key yet, and none of its lookups
\* or checks fails.
MayShare(u, x, own, w) ==
    /\ For(keys[u][x], w) = {}
    /\ For(keys[u][x], u) # {}
    /\ {w, Creator[x]} \subseteq known[u]
    /\ Proven(shares[u][x], own)

\* The transactions that store new keys, records and clock rows.
Store(u, given) ==
    /\ keys' = [keys EXCEPT ![u] = [x \in Note |-> @[x] \cup given[x]]]
    /\ shares' = [shares EXCEPT ![u] = [x \in Note |-> @[x] \cup given[x]]]
    /\ rows' = [rows EXCEPT ![u] = [x \in Note |-> @[x] \cup Recipients(given[x])]]

Only(x, P) == [y \in Note |-> IF y = x THEN P ELSE {}]

\* auto_share_resource_with_folder_users up to its transaction: with those who
\* can be shared with.
AutoShare(u, x) ==
    /\ x \in created[u] /\ asked[u] = NothingAsked
    /\ created' = [created EXCEPT ![u] = @ \ {x}]
    /\ LET others == IF x \in Foldered THEN Recipients(folder[u]) \ {u} ELSE {}
       IN  \E own \in OwnRecords(u, x) :
             asked' = [asked EXCEPT ![u] = [NothingAsked EXCEPT !.given =
                Only(x, {Delegated(own, w) : w \in {v \in others : MayShare(u, x, own, v)}})]]
    /\ UNCHANGED <<tables, session>>

\* share_resource_transaction inserts the rows without a conflict clause.
CanShare(u, x, w) == w \notin rows[u][x] /\ For(keys[u][x], w) = {}

\* handle_share_resource, share_resource.
ShareNote(u, x, w) ==
    /\ <<u, x, w>> \in NoteShares /\ x \in held[u]
    /\ \E own \in OwnRecords(u, x) :
        /\ MayShare(u, x, own, w) /\ CanShare(u, x, w)
        /\ Store(u, Only(x, {Delegated(own, w)}))
    /\ UNCHANGED <<known, folder, held, placed, created, asked, session>>

\* The notes that share_folder and add_missing_recipients share with w.
NotYet(u, w, notes) == {x \in notes : For(keys[u][x], w) = {}}

\* For each of them a record of u's to share from, if all can be shared.
Grants(u, w, notes) ==
    LET new == NotYet(u, w, notes)
    IN  {own \in [new -> UNION {OwnRecords(u, x) : x \in new}] :
            \A x \in new : own[x] \in OwnRecords(u, x) /\ MayShare(u, x, own[x], w)}

Granted(own, w) ==
    [x \in Note |-> IF x \in DOMAIN own THEN {Delegated(own[x], w)} ELSE {}]

\* share_folder up to its transaction.
PrepareFolder(u, w) ==
    /\ <<u, w>> \in FolderShares /\ asked[u] = NothingAsked
    /\ folder[u] # {} /\ For(folder[u], w) = {}
    /\ {w, Founder} \subseteq known[u]
    /\ \E m \in For(folder[u], u) :
        /\ Proven(folder[u], m)
        /\ \E own \in Grants(u, w, placed[u]) :
             asked' = [asked EXCEPT ![u] = [to |-> {w}, member |-> {Delegated(m, w)},
                                            given |-> Granted(own, w)]]
    /\ UNCHANGED <<known, folder, held, placed, keys, shares, rows, created, session>>

\* share_folder_transaction inserts keys and rows, save_bulk_sharing_data keys;
\* a row of the recipient's it sets.
Fresh(u, ask) ==
    \A x \in Note : Recipients(ask.given[x]) \cap
        (Recipients(keys[u][x]) \cup (IF ask.to = {} THEN {} ELSE rows[u][x])) = {}

\* The transaction of a folder's or an auto-share: all or nothing.
SaveShares(u) ==
    /\ asked[u] # NothingAsked
    /\ asked' = [asked EXCEPT ![u] = NothingAsked]
    /\ \/ /\ Fresh(u, asked[u])
          /\ folder' = [folder EXCEPT ![u] = @ \cup asked[u].member]
          /\ Store(u, asked[u].given)
       \/ /\ ~Fresh(u, asked[u])
          /\ UNCHANGED <<folder, keys, shares, rows>>
    /\ UNCHANGED <<known, held, placed, created, session>>

----------------------------------------------------------------------------
(* A user sync: manifests, users, folders.                                 *)

At(s, phase) == session[s].phase = phase

Open == {s \in Session : ~At(s, "idle")}

Becomes(s, state) == session' = [session EXCEPT ![s] = state]

\* An error in the handler: nothing more comes of this sync.
GivesUp(s) == Becomes(s, Idle)

\* connect_with_ticket: after the handshake each has the other in its
\* tables; then the initiator sends its manifest (start_user_network_sync).
Connect(s) ==
    /\ At(s, "idle") /\ Cardinality(Open) < MaxOpen
    /\ s[2] \in known[s[1]]
    /\ known' = [known EXCEPT ![s[2]] = @ \cup {s[1]}]
    /\ Becomes(s, [session[s] EXCEPT !.phase = "manifest",
                                     !.sent = Manifest(s[1], s[2])])
    /\ UNCHANGED <<folder, held, placed, keys, shares, rows, created, asked>>

\* process_user_manifest_request at the responder; both keep the result.
CompareManifests(s) ==
    LET mine == Manifest(s[2], s[1])
        theirs == session[s].sent
    IN  /\ At(s, "manifest")
        /\ Becomes(s, [session[s] EXCEPT
                !.phase = "users", !.sent = Nothing,
                !.todo = Differing(mine, theirs),
                !.gap = <<Lacks(theirs, mine), Lacks(mine, theirs)>>])
        /\ UNCHANGED <<tables, created, asked>>

\* process_user_network_sync: the users that the other end knows besides.
TakeUsers(s) ==
    /\ At(s, "users")
    /\ known' = [known EXCEPT ![s[2]] = @ \cup session[s].gap[1].users]
    /\ Becomes(s, [session[s] EXCEPT !.phase = "usersBack"])
    /\ UNCHANGED <<folder, held, placed, keys, shares, rows, created, asked>>

\* Variant: the folder with the peer's record alone.
UnknownFolderOfPeer(s, n) ==
    IF session[s].gap[n].folder THEN For(folder[s[n]], s[3 - n]) ELSE {}

\* create_unknown_folders_payload: the folder with all its records.
UnknownFolder(s, n) == IF session[s].gap[n].folder THEN folder[s[n]] ELSE {}

\* The initiator then starts the folder sync.
TakeUsersBack(s) ==
    /\ At(s, "usersBack")
    /\ known' = [known EXCEPT ![s[1]] = @ \cup session[s].gap[2].users]
    /\ Becomes(s, [session[s] EXCEPT !.phase = "folders",
                                     !.members = UnknownFolder(s, 1)])
    /\ UNCHANGED <<folder, held, placed, keys, shares, rows, created, asked>>

\* Foreign keys of the folder share records.
CanKeep(u, members) == Named(members) \subseteq known[u]

\* Variant: the recipients are kept for their records.
TakeFoldersIds(s) ==
    /\ At(s, "folders")
    /\ folder' = [folder EXCEPT ![s[2]] = @ \cup Recipients(session[s].members)]
    /\ Becomes(s, [session[s] EXCEPT !.phase = "foldersBack",
                                     !.members = UnknownFolder(s, 2)])
    /\ UNCHANGED <<known, held, placed, keys, shares, rows, created, asked>>

\* process_unknown_folders_payload: the responder answers its own,
TakeFolders(s) ==
    /\ At(s, "folders")
    /\ \/ /\ CanKeep(s[2], session[s].members)
          /\ folder' = [folder EXCEPT ![s[2]] = @ \cup session[s].members]
          /\ Becomes(s, [session[s] EXCEPT !.phase = "foldersBack",
                                           !.members = UnknownFolder(s, 2)])
       \/ /\ ~CanKeep(s[2], session[s].members)
          /\ GivesUp(s) /\ UNCHANGED folder
    /\ UNCHANGED <<known, held, placed, keys, shares, rows, created, asked>>

\* get_missing_remote_folder_share_records.
MissingRecipients(s, n, members) ==
    {p \in members : Recipient(p) \in session[s].gap[n].members}

\* the initiator goes on with the recipients of folders that both have.
TakeFoldersBack(s) ==
    LET members == folder[s[1]] \cup session[s].members
    IN  /\ At(s, "foldersBack")
        /\ \/ /\ CanKeep(s[1], session[s].members)
              /\ folder' = [folder EXCEPT ![s[1]] = members]
              /\ Becomes(s, [session[s] EXCEPT
                    !.phase = "recipients",
                    !.members = MissingRecipients(s, 1, members)])
           \/ /\ ~CanKeep(s[1], session[s].members)
              /\ GivesUp(s) /\ UNCHANGED folder
        /\ UNCHANGED <<known, held, placed, keys, shares, rows, created, asked>>

\* Variants: only the sender's key and record are sent; only the peer's.
CopyOfSender(u, w, x) == [to |-> w, note |-> x, keys |-> For(keys'[u][x], u),
                          shares |-> For(shares'[u][x], u), rows |-> rows'[u][x]]
CopyOfPeer(u, w, x) == [to |-> w, note |-> x, keys |-> For(keys'[u][x], w),
                        shares |-> For(shares'[u][x], w), rows |-> rows'[u][x]]

\* get_resource_sync_data: all keys, records and rows of the note.
Copy(u, w, x) == [to |-> w, note |-> x, keys |-> keys'[u][x],
                  shares |-> shares'[u][x], rows |-> rows'[u][x]]

\* What it shares with w besides: the folder has an entry in the message when
\* the two ends know different recipients of it.
Besides(s, u, w, notes) ==
    IF session[s].gap[1].members \cup session[s].gap[2].members = {} THEN Grants(u, w, {})
    ELSE Grants(u, w, notes \cap placed[u])

\* The folder's recipients: add_missing_recipients keeps the records, and shares
\* with the peer the notes of the folder that are about to be sent and have no
\* key for it.  Then send_resources: a clock row for the peer, and the copy is read.
TakeRecipients(s, n) ==
    LET u == s[n]
        w == s[3 - n]
        notes == session[s].gap[n].notes
        besides == Besides(s, u, w, notes)
    IN  /\ At(s, IF n = 2 THEN "recipients" ELSE "recipientsBack")
        /\ \/ /\ CanKeep(u, session[s].members)
              /\ folder' = [folder EXCEPT ![u] = @ \cup session[s].members]
              /\ \E own \in besides :
                    LET given == Granted(own, w)
                    IN  /\ keys' = [keys EXCEPT ![u] = [x \in Note |-> @[x] \cup given[x]]]
                        /\ shares' = [shares EXCEPT ![u] = [x \in Note |-> @[x] \cup given[x]]]
              /\ rows' = [rows EXCEPT ![u] = [x \in Note |->
                            IF x \in notes THEN @[x] \cup {w} ELSE @[x]]]
              /\ Becomes(s, [session[s] EXCEPT
                    !.phase = IF n = 2 THEN "recipientsBack" ELSE "copies",
                    !.members =
                        IF n = 2 THEN MissingRecipients(s, 2, folder'[u]) ELSE {},
                    !.copies = @ \cup {Copy(u, w, x) : x \in notes}])
           \/ /\ ~CanKeep(u, session[s].members) \/ besides = {}
              /\ GivesUp(s) /\ UNCHANGED <<folder, keys, shares, rows>>
        /\ UNCHANGED <<known, held, placed, created, asked>>

----------------------------------------------------------------------------
(* Copies of notes, and the merge of what is known about a note.           *)

\* The new keys of a message can be inserted, and its records and rows.
Acceptable(u, x, m) ==
    /\ CanInsert(keys[u][x], m.keys, known[u])
    /\ Named(m.shares) \cup m.rows \subseteq known[u]

Saved(table, u, x, more) == [table EXCEPT ![u][x] = @ \cup more]

\* process_resource_addition_request: save_resource_sync_data, all or
\* nothing; what is there already stays.
TakeCopy(s, c) ==
    /\ At(s, "copies") /\ c \in session[s].copies
    /\ \/ /\ Acceptable(c.to, c.note, c)
          /\ held' = [held EXCEPT ![c.to] = @ \cup {c.note}]
          /\ placed' = [placed EXCEPT ![c.to] = @ \cup
                (IF folder[c.to] = {} THEN {} ELSE ({c.note} \cap Foldered) \ held[c.to])]
          /\ keys' = Saved(keys, c.to, c.note, c.keys)
          /\ shares' = Saved(shares, c.to, c.note, c.shares)
          /\ rows' = Saved(rows, c.to, c.note, c.rows)
          /\ Becomes(s, [session[s] EXCEPT !.copies = @ \ {c}])
       \/ /\ ~Acceptable(c.to, c.note, c)
          /\ Becomes(s, [session[s] EXCEPT !.copies = @ \ {c},
                !.todo = IF c.to = s[2] /\ @ # {} /\ session[s].gap[2].notes # {}
                         THEN {} ELSE @])
          /\ UNCHANGED <<held, placed, keys, shares, rows>>
    /\ UNCHANGED <<known, folder, created, asked>>

\* The initiator asks for merges when it is sent ResourceAdditionComplete:
\* by a responder that had nothing to send, or that has had all copies.
CopiesDone(s) ==
    /\ At(s, "copies") /\ session[s].copies = {}
    /\ \/ /\ session[s].gap[2].notes = {} \/ session[s].gap[1].notes # {}
          /\ Becomes(s, [session[s] EXCEPT !.phase = "merging"])
       \/ /\ session[s].gap[2].notes # {} /\ session[s].gap[1].notes = {}
          /\ GivesUp(s)
    /\ UNCHANGED <<tables, created, asked>>

\* Variant: the token is that of any record of the note.
RequestUpdatesAny(s, x) ==
    /\ At(s, "merging") /\ x \in session[s].todo
    /\ \E any \in shares[s[1]][x] :
        Becomes(s, [session[s] EXCEPT !.phase = "request", !.todo = @ \ {x},
                        !.merge = [NoMerge EXCEPT !.note = x, !.shares = {any}]])
    /\ UNCHANGED <<tables, created, asked>>

\* find_by_id: a note is found with one's own key for it.
Opens(u, x) == For(keys[u][x], u) # {}

\* process_resource_addition_complete: one StateVectorRequest per note, with
\* the token of a record of one's own.
RequestUpdates(s, x) ==
    /\ At(s, "merging") /\ x \in session[s].todo
    /\ Opens(s[1], x)
    /\ \E own \in OwnRecords(s[1], x) :
        Becomes(s, [session[s] EXCEPT !.phase = "request", !.todo = @ \ {x},
                        !.merge = [NoMerge EXCEPT !.note = x, !.shares = {own}]])
    /\ UNCHANGED <<tables, created, asked>>

\* validate_audience, and verify_did_key_match with the owner's key.
IssuedFor(p, peer, owner) == Recipient(p) = peer /\ p[1] = owner

\* validate_authority_for_update at u, with the records it has itself.
Authorised(u, peer, x, tokens) ==
    \A p \in tokens : IssuedFor(p, peer, Creator[x]) /\ Proven(shares[u][x], p)

\* StateVectorRequest at the responder, which answers with its own token.
AnswerRequest(s) ==
    LET m == session[s].merge
    IN  /\ At(s, "request")
        /\ Authorised(s[2], s[1], m.note, m.shares) /\ Opens(s[2], m.note)
        /\ \E own \in OwnRecords(s[2], m.note) :
            Becomes(s, [session[s] EXCEPT !.phase = "updates",
                                          !.merge = [m EXCEPT !.shares = {own}]])
        /\ UNCHANGED <<tables, created, asked>>

\* UpdatesResponse at the initiator, which sends all it knows of the note.
AnswerUpdates(s) ==
    LET m == session[s].merge
        i == s[1]
    IN  /\ At(s, "updates")
        /\ Authorised(i, s[2], m.note, m.shares) /\ Opens(i, m.note)
        /\ Becomes(s, [session[s] EXCEPT !.phase = "final",
                !.merge = [note |-> m.note, keys |-> keys[i][m.note],
                           shares |-> shares[i][m.note], rows |-> rows[i][m.note]]])
        /\ UNCHANGED <<tables, created, asked>>

\* Variant: the keys that the initiator lacks are not gathered.
MergeKeysIn(s) ==
    LET m == session[s].merge
        r == s[2]
    IN  /\ At(s, "final")
        /\ Opens(r, m.note) /\ CanInsert(keys[r][m.note], m.keys, known[r])
        /\ keys' = Saved(keys, r, m.note, m.keys)
        /\ Becomes(s, [session[s] EXCEPT !.phase = "finalClocks",
                !.answer = [NoMerge EXCEPT !.note = m.note]])
        /\ UNCHANGED <<known, folder, held, placed, shares, rows, created, asked>>

\* FinalUpdateMerge at the responder, in three transactions, each of which
\* gathers what the initiator lacks.  The keys first:
MergeKeys(s) ==
    LET m == session[s].merge
        r == s[2]
    IN  /\ At(s, "final")
        /\ Opens(r, m.note) /\ CanInsert(keys[r][m.note], m.keys, known[r])
        /\ keys' = Saved(keys, r, m.note, m.keys)
        /\ Becomes(s, [session[s] EXCEPT !.phase = "finalClocks",
                !.answer = [NoMerge EXCEPT !.note = m.note,
                                           !.keys = keys[r][m.note] \ m.keys]])
        /\ UNCHANGED <<known, folder, held, placed, shares, rows, created, asked>>

\* merge_vector_clocks reads the rows,
CompareClocks(s) ==
    LET m == session[s].merge
        mine == rows[s[2]][m.note]
    IN  /\ At(s, "finalClocks")
        /\ Becomes(s, [session[s] EXCEPT !.phase = "finalInsert",
                !.merge.rows = m.rows \ mine, !.answer.rows = mine \ m.rows])
        /\ UNCHANGED <<tables, created, asked>>

\* update_vector_clocks: plain inserts of rows, with foreign keys.
CanAddRows(u, x, W) == W \cap rows[u][x] = {} /\ W \subseteq known[u]

\* and inserts what was not there;
InsertClocks(s) ==
    LET m == session[s].merge
    IN  /\ At(s, "finalInsert") /\ CanAddRows(s[2], m.note, m.rows)
        /\ rows' = Saved(rows, s[2], m.note, m.rows)
        /\ Becomes(s, [session[s] EXCEPT !.phase = "finalShares"])
        /\ UNCHANGED <<known, folder, held, placed, keys, shares, created, asked>>

\* Variant: only clock rows are answered.
MergeSharesRows(s) ==
    LET m == session[s].merge
        r == s[2]
    IN  /\ At(s, "finalShares") /\ CanKeep(r, m.shares)
        /\ shares' = Saved(shares, r, m.note, m.shares)
        /\ Becomes(s, [session[s] EXCEPT !.phase = "response", !.answer = NoMerge,
                !.merge = [session[s].answer EXCEPT !.keys = {}]])
        /\ UNCHANGED <<known, folder, held, placed, keys, rows, created, asked>>

\* merge_share_records, and the answer is sent.
MergeShares(s) ==
    LET m == session[s].merge
        r == s[2]
    IN  /\ At(s, "finalShares") /\ CanKeep(r, m.shares)
        /\ shares' = Saved(shares, r, m.note, m.shares)
        /\ Becomes(s, [session[s] EXCEPT !.phase = "response", !.answer = NoMerge,
                !.merge = [session[s].answer EXCEPT
                                !.shares = shares[r][m.note] \ m.shares]])
        /\ UNCHANGED <<known, folder, held, placed, keys, rows, created, asked>>

\* VectorClockResponse at the initiator, in three transactions: the clocks,
AcceptClocks(s) ==
    LET m == session[s].merge
    IN  /\ At(s, "response") /\ CanAddRows(s[1], m.note, m.rows)
        /\ rows' = Saved(rows, s[1], m.note, m.rows)
        /\ Becomes(s, [session[s] EXCEPT !.phase = "responseShares"])
        /\ UNCHANGED <<known, folder, held, placed, keys, shares, created, asked>>

\* the records,
AcceptShares(s) ==
    LET m == session[s].merge
    IN  /\ At(s, "responseShares") /\ CanKeep(s[1], m.shares)
        /\ shares' = Saved(shares, s[1], m.note, m.shares)
        /\ Becomes(s, [session[s] EXCEPT !.phase = "responseKeys"])
        /\ UNCHANGED <<known, folder, held, placed, keys, rows, created, asked>>

\* and the keys.
AcceptKeys(s) ==
    LET m == session[s].merge
    IN  /\ At(s, "responseKeys") /\ CanInsert(keys[s[1]][m.note], m.keys, known[s[1]])
        /\ keys' = Saved(keys, s[1], m.note, m.keys)
        /\ Becomes(s, [session[s] EXCEPT !.phase = "merging", !.merge = NoMerge])
        /\ UNCHANGED <<known, folder, held, placed, shares, rows, created, asked>>

\* A handler of a merge fails: the note does not open, the token is not proven,
\* or a table does not take what the message carries.  What earlier transactions
\* stored stays; of requests those that come after are not made.
Refused(s) ==
    LET m == session[s].merge
        i == s[1]
        r == s[2]
        refusal ==
            \/ At(s, "merging") /\ \E x \in session[s].todo : ~Opens(i, x)
            \/ At(s, "request")
               /\ ~(Authorised(r, i, m.note, m.shares) /\ Opens(r, m.note))
            \/ At(s, "updates")
               /\ ~(Authorised(i, r, m.note, m.shares) /\ Opens(i, m.note))
            \/ At(s, "final")
               /\ ~(Opens(r, m.note) /\ CanInsert(keys[r][m.note], m.keys, known[r]))
            \/ At(s, "finalInsert") /\ ~CanAddRows(r, m.note, m.rows)
            \/ At(s, "finalShares") /\ ~CanKeep(r, m.shares)
            \/ At(s, "response") /\ ~CanAddRows(i, m.note, m.rows)
            \/ At(s, "responseShares") /\ ~CanKeep(i, m.shares)
            \/ At(s, "responseKeys") /\ ~CanInsert(keys[i][m.note], m.keys, known[i])
    IN  /\ refusal
        /\ Becomes(s, [session[s] EXCEPT
                !.phase = "merging", !.merge = NoMerge, !.answer = NoMerge,
                !.todo = IF At(s, "merging") THEN {} ELSE @])
        /\ UNCHANGED <<tables, created, asked>>

SyncDone(s) ==
    /\ At(s, "merging") /\ session[s].todo = {}
    /\ GivesUp(s)
    /\ UNCHANGED <<tables, created, asked>>

----------------------------------------------------------------------------
Step(s) ==
    \/ CompareManifests(s) \/ TakeUsers(s) \/ TakeUsersBack(s)
    \/ TakeFolders(s) \/ TakeFoldersBack(s)
    \/ \E n \in {1, 2} : TakeRecipients(s, n)
    \/ \E c \in session[s].copies : TakeCopy(s, c)
    \/ CopiesDone(s)
    \/ \E x \in session[s].todo : RequestUpdates(s, x)
    \/ AnswerRequest(s) \/ AnswerUpdates(s)
    \/ MergeKeys(s) \/ CompareClocks(s) \/ InsertClocks(s) \/ MergeShares(s)
    \/ AcceptClocks(s) \/ AcceptShares(s) \/ AcceptKeys(s)
    \/ Refused(s) \/ SyncDone(s)

UserActs(u) ==
    \/ CreateFolder(u)
    \/ \E x \in Note : Create(u, x) \/ AutoShare(u, x)
    \/ \E x \in Note, w \in User : ShareNote(u, x, w)
    \/ \E w \in User : PrepareFolder(u, w)
    \/ SaveShares(u)

\* The sessions with a handler of u's between two of its transactions.
Amid(u) ==
    {s \in Session : \/ u = s[1] /\ session[s].phase \in {"responseShares", "responseKeys"}
                     \/ u = s[2] /\ session[s].phase \in {"finalClocks", "finalInsert",
                                                          "finalShares"}}

\* What begins at users U while a handler of theirs is under way is a fault;
\* a session own that is amid such a handler itself goes on.
Alongside(U, own) ==
    LET amid == UNION {Amid(u) : u \in U}
    IN  \/ (amid = {} \/ own \cap amid # {}) /\ faults' = faults
        \/ amid # {} /\ own \cap amid = {} /\ faults < MaxFaults /\ faults' = faults + 1

\* The program ends at u: its connections close, and its tasks are gone.
Stops(u) ==
    /\ faults < MaxFaults /\ faults' = faults + 1
    /\ session' = [s \in Session |-> IF u \in {s[1], s[2]} THEN Idle ELSE session[s]]
    /\ created' = [created EXCEPT ![u] = {}]
    /\ asked' = [asked EXCEPT ![u] = NothingAsked]
    /\ UNCHANGED tables

Next ==
    \/ \E u \in User : UserActs(u) /\ Alongside({u}, {})
    \/ \E s \in Session : Connect(s) /\ Alongside({s[1], s[2]}, {})
    \/ \E s \in Session : Step(s) /\ Alongside({s[1], s[2]}, {s})
    \/ \E u \in User : Stops(u)

Spec == Init /\ [][Next]_vars

\* What is begun is finished, and the users keep meeting one another.
Finishes(u) == SaveShares(u) \/ \E x \in Note : AutoShare(u, x)

Fairness ==
    /\ \A u \in User : WF_vars(Finishes(u) /\ Alongside({u}, {}))
    /\ \A s \in Session : /\ WF_vars(Step(s) /\ Alongside({s[1], s[2]}, {s}))
                          /\ SF_vars(Connect(s) /\ Alongside({s[1], s[2]}, {}))

FairSpec == Spec /\ Fairness

----------------------------------------------------------------------------
\* A record, its key and the recipient's clock row are together at every user
\* between two handlers, as long as no device stops amid a handler of a merge
\* and nothing else is written there meanwhile: then a merge whose first
\* transaction is taken has all of them taken (FinalUpdateMerge,
\* VectorClockResponse, save_resource_sync_data, prepare_share_resource).
Together ==
    faults = 0 =>
        \A u \in User : Amid(u) = {} =>
            \A x \in Note : /\ keys[u][x] = shares[u][x]
                            /\ rows[u][x] = Recipients(shares[u][x])

\* Whoever has a note has a record of its own for it, so that it can answer for
\* it (get_resource_ucan_key), and, without such faults, its key (get_resource).
HoldersRead ==
    \A u \in User : \A x \in held[u] :
        OwnRecords(u, x) # {} /\ (faults = 0 => Opens(u, x))

\* The proofs of every record of a note that a user has are there too, back to
\* the owner's: a UCAN is never passed on without what proves it.
Closed(P) == \A p \in P : \A k \in 1 .. Len(p) : SubSeq(p, 1, k) \in P

ProofsKept == \A u \in User, x \in Note : Closed(shares[u][x])

\* So are those of the folder's records, of which a known recipient's is not
\* sent again (get_missing_remote_folder_share_records): this holds as long as
\* nobody is given the folder by two users, who make two different proofs.
FolderProofsKept == \A u \in User : Closed(folder[u])

\* No merge fails for want of authority: what an end presents, the other can
\* prove from its own records (validate_authority_for_update), as long as no
\* note is shared with anybody by two users.
AlwaysAuthorised ==
    \A s \in Session :
        LET m == session[s].merge
        IN  /\ At(s, "request") => Authorised(s[2], s[1], m.note, m.shares)
            /\ At(s, "updates") => Authorised(s[1], s[2], m.note, m.shares)

\* Everyone with whom a note is shared has it in the end, and they all have
\* the same records of it.
Everyone(x) == UNION {Recipients(shares[u][x]) : u \in User}

Spread ==
    <>[](\A x \in Note : \A u, v \in Everyone(x) :
            x \in held[u] /\ shares[u][x] = shares[v][x])

\* Everyone with whom the folder is shared has all notes of it in the end.
FolderReachesAll ==
    <>[](\A u \in UNION {Recipients(folder[v]) : v \in User} :
            Foldered \cap UNION {held[v] : v \in User} \subseteq held[u])

=============================================================================
