--------------------------- MODULE SharingProofs ---------------------------
(***************************************************************************)
(* What holds of Sharing for every set of users and notes, and with any    *)
(* number of sessions at a time: the proof chains, of which a record is    *)
(* never anywhere without those that prove it, whoever shares what with    *)
(* whom, and whatever fails or stops; then what keys, records and rows are *)
(* to one another while no handler is stopped or run beside half-way, and  *)
(* from that, that every merge is authorised.  This, and the chains of the *)
(* folder, hold as long as no two users share with the same one.           *)
(***************************************************************************)
EXTENDS Sharing, SequenceTheorems, TLAPS

----------------------------------------------------------------------------
(* Chains.                                                                 *)

\* A record has a recipient and one who shared it, and both are users.
LEMMA ChainUsers == \A p \in Chain : Recipient(p) \in User /\ Sharer(p) \in User
<1> SUFFICES ASSUME NEW p \in Chain PROVE Recipient(p) \in User /\ Sharer(p) \in User
  OBVIOUS
<1>1. p \in Seq(User) /\ Len(p) \in Nat /\ Len(p) >= 1
  BY EmptySeq, LenProperties DEF Chain
<1>2. \A i \in 1 .. Len(p) : p[i] \in User
  BY <1>1, LenProperties
<1>3. \A n \in Nat : n >= 1 => n \in 1 .. n /\ 1 \in 1 .. n /\ (n = 1 \/ n - 1 \in 1 .. n)
  OBVIOUS
<1> QED BY <1>1, <1>2, <1>3 DEF Recipient, Sharer

\* generate_delegated_ucan makes a record for its audience.
LEMMA DelegatedChain ==
    ASSUME NEW own \in Chain, NEW w \in User
    PROVE  Delegated(own, w) \in Chain /\ Recipient(Delegated(own, w)) = w
BY DEF Chain, Delegated, Recipient

\* generate_resource_owner_ucan makes one for the owner.
LEMMA OwnedChain ==
    ASSUME NEW u \in User
    PROVE  Owned(u) \subseteq Chain /\ Recipients(Owned(u)) = {u}
<1>1. <<u>> \in Seq(User) /\ Len(<<u>>) = 1 /\ <<u>>[1] = u
  OBVIOUS
<1> QED BY <1>1 DEF Chain, Owned, Recipients, Recipient

\* The recipients of several records are those of each.
LEMMA RecipientsOf ==
    /\ \A P \in SUBSET Chain : Recipients(P) \subseteq User /\ Named(P) \subseteq User
    /\ \A P, Q : Recipients(P \cup Q) = Recipients(P) \cup Recipients(Q)
    /\ \A P, Q : P \subseteq Q => Recipients(P) \subseteq Recipients(Q)
BY ChainUsers DEF Recipients, Named

\* Some of a set's records are chosen by their recipients.
LEMMA ForSome == \A P, w : For(P, w) \subseteq P
BY DEF For

----------------------------------------------------------------------------
(* Manifests and messages.                                                 *)

\* A manifest lists users, records and rows of the tables.
LEMMA ManifestTyped ==
    ASSUME TypeOK, NEW u \in User, NEW w \in User
    PROVE  Manifest(u, w) \in ManifestSet
<1>1. UsersOf(u, w) \in SUBSET User
  BY DEF UsersOf, TypeOK
<1>2. MembersFor(u, w) \in SUBSET User
  BY RecipientsOf DEF MembersFor, TypeOK
<1>3. [x \in Note |-> IF x \in SharedWith(u, w) THEN shares[u][x] ELSE {}]
         \in [Note -> SUBSET Chain]
  BY DEF TypeOK
<1>4. [x \in Note |-> IF x \in SharedWith(u, w) THEN rows[u][x] ELSE {}]
         \in [Note -> SUBSET User]
  BY DEF TypeOK
<1> QED BY <1>1, <1>2, <1>3, <1>4 DEF Manifest, ManifestSet

\* What one lacks of it is users and notes.
LEMMA GapTyped ==
    ASSUME NEW m \in ManifestSet, NEW other \in ManifestSet
    PROVE  Lacks(m, other) \in Gap /\ Differing(m, other) \in SUBSET Note
<1>1. m.users \subseteq User /\ m.members \subseteq User /\ Lists(m) \subseteq Note
  BY DEF ManifestSet, Lists
<1>2. LacksFolder(m, other) \in BOOLEAN /\ LacksMembers(m, other) \subseteq User
  BY <1>1 DEF LacksFolder, LacksMembers
<1> QED BY <1>1, <1>2 DEF Lacks, Differing, Gap

LEMMA IdleTyped == Idle \in SessionState /\ Nothing \in ManifestSet /\ NoMerge \in MergeSet
<1>1. Nothing \in ManifestSet
  BY DEF Nothing, ManifestSet
<1>2. NoGap \in Gap
  BY DEF NoGap, Gap
<1>3. NoMerge \in MergeSet
  BY DEF NoMerge, MergeSet
<1> QED BY <1>1, <1>2, <1>3 DEF Idle, SessionState, Phase

\* A handler writes a session's state.
LEMMA BecomesTyped ==
    ASSUME TypeOK, NEW s \in Session, NEW state \in SessionState, Becomes(s, state)
    PROVE  session' \in [Session -> SessionState]
BY DEF TypeOK, Becomes

LEMMA SessionUsers == \A s \in Session : s[1] \in User /\ s[2] \in User /\ s[1] # s[2]
BY SessionAssumption

----------------------------------------------------------------------------
(* Types.                                                                  *)

\* The phases of the merge of a note.
Running == {"request", "updates", "final", "finalClocks", "finalInsert", "finalShares",
            "response", "responseShares", "responseKeys"}

\* A message of a merge is about a note.
MergeNoted ==
    \A s \in Session :
        session[s].phase \in Running => session[s].merge.note \in Note

\* The tables are typed when new records are, and rows with their recipients.
LEMMA StoreTyped ==
    ASSUME TypeOK, NEW u \in User, NEW given \in [Note -> SUBSET Chain], Store(u, given)
    PROVE  /\ keys' \in [User -> [Note -> SUBSET Chain]]
           /\ shares' \in [User -> [Note -> SUBSET Chain]]
           /\ rows' \in [User -> [Note -> SUBSET User]]
<1>1. \A x \in Note : Recipients(given[x]) \subseteq User
  BY RecipientsOf
<1>2. /\ [x \in Note |-> keys[u][x] \cup given[x]] \in [Note -> SUBSET Chain]
      /\ [x \in Note |-> shares[u][x] \cup given[x]] \in [Note -> SUBSET Chain]
      /\ [x \in Note |-> rows[u][x] \cup Recipients(given[x])] \in [Note -> SUBSET User]
  BY <1>1 DEF TypeOK
<1> QED BY <1>2 DEF Store, TypeOK

\* So are they when a message is saved.
LEMMA SavedTyped ==
    ASSUME NEW S, NEW table \in [User -> [Note -> SUBSET S]], NEW u \in User,
           NEW x \in Note, NEW more \in SUBSET S
    PROVE  Saved(table, u, x, more) \in [User -> [Note -> SUBSET S]]
BY DEF Saved

\* Faults are counted up to their bound.
LEMMA FaultsCounted ==
    ASSUME TypeOK, NEW U, NEW own, Alongside(U, own)
    PROVE  faults' \in 0 .. MaxFaults /\ (faults' = 0 => faults = 0)
BY FaultsAssumption DEF Alongside, TypeOK

\* What is given from records of one's own is records.
LEMMA GrantedTyped ==
    ASSUME TypeOK, NEW u \in User, NEW w \in User, NEW notes \in SUBSET Note,
           NEW own \in Grants(u, w, notes)
    PROVE  /\ Granted(own, w) \in [Note -> SUBSET Chain]
           /\ \A x \in DOMAIN own : /\ x \in notes /\ own[x] \in OwnRecords(u, x)
                                    /\ own[x] \in Chain
                                    /\ For(keys[u][x], w) = {} /\ MayShare(u, x, own[x], w)
           /\ \A x \in Note : Granted(own, w)[x] =
                IF x \in DOMAIN own THEN {Delegated(own[x], w)} ELSE {}
<1>1. \A x \in DOMAIN own : /\ x \in notes /\ own[x] \in OwnRecords(u, x)
                            /\ For(keys[u][x], w) = {} /\ MayShare(u, x, own[x], w)
  BY DEF Grants, NotYet
<1>2. \A x \in DOMAIN own : own[x] \in Chain
  BY <1>1, ForSome DEF OwnRecords, TypeOK
<1>3. \A x \in DOMAIN own : Delegated(own[x], w) \in Chain
  BY <1>2, DelegatedChain
<1> QED BY <1>1, <1>2, <1>3 DEF Granted

LEMMA GrantedOwn ==
    ASSUME TypeOK, NEW u \in User, NEW w \in User, NEW notes \in SUBSET Note,
           NEW own \in Grants(u, w, notes), NEW x \in Note, Granted(own, w)[x] # {}
    PROVE  x \in notes /\ OwnRecords(u, x) # {}
<1>1. x \in DOMAIN own
  BY DEF Granted
<1>2. DOMAIN own = NotYet(u, w, notes) /\ own[x] \in OwnRecords(u, x)
  BY <1>1 DEF Grants
<1> QED BY <1>1, <1>2 DEF NotYet

\* So is what a folder's entry in a message lets share besides.
LEMMA BesidesGrants ==
    ASSUME TypeOK, NEW s, NEW u \in User, NEW w \in User, NEW notes \in SUBSET Note,
           NEW own \in Besides(s, u, w, notes)
    PROVE  \E some \in SUBSET notes : own \in Grants(u, w, some)
<1>1. {} \subseteq notes /\ notes \cap placed[u] \subseteq notes
  OBVIOUS
<1> QED BY <1>1 DEF Besides

\* An auto-share is prepared with those of the folder's recipients that can be
\* shared with.
LEMMA AutoShareParts ==
    ASSUME TypeOK, NEW u \in User, NEW x \in Note, AutoShare(u, x)
    PROVE  \E own \in OwnRecords(u, x), W \in SUBSET User :
              LET given == Only(x, {Delegated(own, w) : w \in W})
              IN  /\ own \in Chain /\ given \in [Note -> SUBSET Chain]
                  /\ \A w \in W : MayShare(u, x, own, w) /\ x \in Foldered
                                  /\ w \in Recipients(folder[u])
                  /\ [NothingAsked EXCEPT !.given = given] \in Asked
                  /\ asked' = [asked EXCEPT ![u] = [NothingAsked EXCEPT !.given = given]]
<1> DEFINE others == IF x \in Foldered THEN Recipients(folder[u]) \ {u} ELSE {}
<1>1. PICK own \in OwnRecords(u, x) :
         asked' = [asked EXCEPT ![u] = [NothingAsked EXCEPT !.given =
            Only(x, {Delegated(own, w) : w \in {v \in others : MayShare(u, x, own, v)}})]]
  BY DEF AutoShare
<1> DEFINE W == {v \in others : MayShare(u, x, own, v)}
           given == Only(x, {Delegated(own, w) : w \in W})
<1>2. W \subseteq User
  BY RecipientsOf DEF TypeOK
<1>3. \A w \in W : MayShare(u, x, own, w) /\ x \in Foldered /\ w \in Recipients(folder[u])
  OBVIOUS
<1>4. own \in Chain
  BY <1>1, ForSome DEF OwnRecords, TypeOK
<1> HIDE DEF W
<1>5. {Delegated(own, w) : w \in W} \subseteq Chain
  BY <1>2, <1>4, DelegatedChain
<1>6. given \in [Note -> SUBSET Chain]
  BY <1>5 DEF Only
<1>7. asked' = [asked EXCEPT ![u] = [NothingAsked EXCEPT !.given = given]]
  BY <1>1 DEF W
<1> HIDE DEF given
<1>8. [NothingAsked EXCEPT !.given = given] \in Asked
  BY <1>6 DEF NothingAsked, Asked
<1> QED BY <1>2, <1>3, <1>4, <1>6, <1>7, <1>8 DEF given

\* A folder's share is prepared with the notes that have no key for w.
LEMMA PrepareFolderParts ==
    ASSUME TypeOK, NEW u \in User, NEW w \in User, PrepareFolder(u, w)
    PROVE  \E p \in For(folder[u], u), own \in Grants(u, w, placed[u]) :
              LET ask == [to |-> {w}, member |-> {Delegated(p, w)}, given |-> Granted(own, w)]
              IN  /\ p \in Chain /\ Delegated(p, w) \in Chain
                  /\ Granted(own, w) \in [Note -> SUBSET Chain]
                  /\ ask \in Asked /\ asked' = [asked EXCEPT ![u] = ask]
<1>1. PICK p \in For(folder[u], u), own \in Grants(u, w, placed[u]) :
         asked' = [asked EXCEPT ![u] = [to |-> {w}, member |-> {Delegated(p, w)},
                                        given |-> Granted(own, w)]]
  BY DEF PrepareFolder
<1>2. p \in Chain /\ Delegated(p, w) \in Chain
  BY <1>1, ForSome, DelegatedChain DEF TypeOK
<1>3. placed[u] \in SUBSET Note
  BY DEF TypeOK
<1>4. Granted(own, w) \in [Note -> SUBSET Chain]
  BY <1>1, <1>3, GrantedTyped
<1>5. [to |-> {w}, member |-> {Delegated(p, w)}, given |-> Granted(own, w)] \in Asked
  BY <1>2, <1>4 DEF Asked
<1> QED BY <1>1, <1>2, <1>4, <1>5

\* What users do keeps the types.
LEMMA UserTyped ==
    ASSUME TypeOK, NEW u \in User, UserActs(u), faults' \in 0 .. MaxFaults
    PROVE  TypeOK' /\ session' = session
<1> USE DEF TypeOK
<1>1. ASSUME CreateFolder(u) PROVE TypeOK' /\ session' = session
  BY <1>1, OwnedChain DEF CreateFolder
<1>2. ASSUME NEW x \in Note, Create(u, x) PROVE TypeOK' /\ session' = session
  BY <1>2, OwnedChain DEF Create
<1>3. ASSUME NEW x \in Note, AutoShare(u, x) PROVE TypeOK' /\ session' = session
  <2>1. PICK one \in Asked : asked' = [asked EXCEPT ![u] = one]
    BY <1>3, AutoShareParts
  <2>2. asked' \in [User -> Asked]
    BY <2>1
  <2>3. UNCHANGED <<known, folder, held, placed, keys, shares, rows, session>>
    BY <1>3 DEF AutoShare, tables
  <2>4. created' \in [User -> SUBSET Note]
    BY <1>3 DEF AutoShare
  <2> QED BY <2>2, <2>3, <2>4
<1>4. ASSUME NEW x \in Note, NEW w \in User, ShareNote(u, x, w)
      PROVE  TypeOK' /\ session' = session
  <2>1. PICK own \in OwnRecords(u, x) : Store(u, Only(x, {Delegated(own, w)}))
    BY <1>4 DEF ShareNote
  <2>2. own \in Chain
    BY <2>1, ForSome DEF OwnRecords
  <2>3. Only(x, {Delegated(own, w)}) \in [Note -> SUBSET Chain]
    BY <2>2, DelegatedChain DEF Only
  <2> QED BY <1>4, <2>1, <2>3, StoreTyped DEF ShareNote
<1>5. ASSUME NEW w \in User, PrepareFolder(u, w) PROVE TypeOK' /\ session' = session
  <2>1. PICK one \in Asked : asked' = [asked EXCEPT ![u] = one]
    BY <1>5, PrepareFolderParts
  <2>2. asked' \in [User -> Asked]
    BY <2>1
  <2> QED BY <1>5, <2>2 DEF PrepareFolder
<1>6. ASSUME SaveShares(u) PROVE TypeOK' /\ session' = session
  <2>1. NothingAsked \in Asked
    BY DEF NothingAsked, Asked
  <2>2. asked[u].member \subseteq Chain /\ asked[u].given \in [Note -> SUBSET Chain]
    BY DEF Asked
  <2>3. /\ asked' = [asked EXCEPT ![u] = NothingAsked]
        /\ UNCHANGED <<known, held, placed, created, session>>
        /\ \/ /\ folder' = [folder EXCEPT ![u] = @ \cup asked[u].member]
              /\ Store(u, asked[u].given)
           \/ UNCHANGED <<folder, keys, shares, rows>>
    BY <1>6 DEF SaveShares
  <2>4. folder' \in [User -> SUBSET Chain] /\ asked' \in [User -> Asked]
    <3>1. folder[u] \cup asked[u].member \in SUBSET Chain
      BY <2>2
    <3>2. folder' = folder \/ folder' = [folder EXCEPT ![u] = folder[u] \cup asked[u].member]
      BY <2>3
    <3>3. asked' = [asked EXCEPT ![u] = NothingAsked]
      BY <2>3
    <3> QED BY <2>1, <3>1, <3>2, <3>3
  <2>5. CASE Store(u, asked[u].given)
    BY <2>2, <2>3, <2>4, <2>5, StoreTyped
  <2>6. CASE UNCHANGED <<folder, keys, shares, rows>>
    BY <2>3, <2>4, <2>6
  <2> QED BY <2>3, <2>5, <2>6
<1> QED BY <1>1, <1>2, <1>3, <1>4, <1>5, <1>6 DEF UserActs

\* What a handler does keeps them, when the state it leaves is typed.
LEMMA HandlerTyped ==
    ASSUME TypeOK, NEW s \in Session, NEW state \in SessionState, Becomes(s, state),
           UNCHANGED <<tables, created, asked>>, faults' \in 0 .. MaxFaults
    PROVE  TypeOK'
BY BecomesTyped DEF TypeOK, tables

\* A session carries records, and knows gaps of users and notes.
LEMMA SessionTyped ==
    ASSUME TypeOK, NEW s \in Session
    PROVE  /\ session[s] \in SessionState
           /\ \A n \in {1, 2} : session[s].gap[n] \in Gap
           /\ \A n \in {1, 2} : UnknownFolder(s, n) \in SUBSET Chain
           /\ \A n \in {1, 2}, P \in SUBSET Chain :
                  MissingRecipients(s, n, P) \in SUBSET Chain
<1>1. session[s] \in SessionState /\ \A n \in {1, 2} : session[s].gap[n] \in Gap
  BY DEF TypeOK, SessionState
<1>2. \A n \in {1, 2} : s[n] \in User
  BY SessionUsers
<1> QED BY <1>1, <1>2 DEF UnknownFolder, MissingRecipients, TypeOK

\* Connecting and the exchange of users and folders keep the types.
LEMMA FirstPhasesTyped ==
    ASSUME TypeOK, NEW s \in Session, faults' \in 0 .. MaxFaults,
           \/ Connect(s) \/ CompareManifests(s) \/ TakeUsers(s) \/ TakeUsersBack(s)
           \/ TakeFolders(s) \/ TakeFoldersBack(s)
    PROVE  TypeOK'
<1> USE SessionUsers, SessionTyped, IdleTyped
<1>1. CASE Connect(s)
  <2>1. [session[s] EXCEPT !.phase = "manifest", !.sent = Manifest(s[1], s[2])]
           \in SessionState
    BY ManifestTyped DEF SessionState, Phase
  <2>2. session' \in [Session -> SessionState]
    BY <1>1, <2>1, BecomesTyped DEF Connect
  <2> QED BY <1>1, <2>2 DEF Connect, TypeOK
<1>2. CASE CompareManifests(s)
  <2> DEFINE mine == Manifest(s[2], s[1])
             theirs == session[s].sent
             state == [session[s] EXCEPT
                !.phase = "users", !.sent = Nothing, !.todo = Differing(mine, theirs),
                !.gap = <<Lacks(theirs, mine), Lacks(mine, theirs)>>]
  <2>1. mine \in ManifestSet /\ theirs \in ManifestSet
    BY ManifestTyped DEF SessionState
  <2>2. /\ Lacks(theirs, mine) \in Gap /\ Lacks(mine, theirs) \in Gap
        /\ Differing(mine, theirs) \in SUBSET Note
    BY <2>1, GapTyped
  <2>3. <<Lacks(theirs, mine), Lacks(mine, theirs)>> \in [{1, 2} -> Gap]
    BY <2>2
  <2>4. state \in SessionState
    BY <2>2, <2>3 DEF SessionState, Phase
  <2>5. Becomes(s, state) /\ UNCHANGED <<tables, created, asked>>
    BY <1>2 DEF CompareManifests
  <2> QED BY <2>4, <2>5, HandlerTyped
<1>3. CASE TakeUsers(s)
  <2>1. [session[s] EXCEPT !.phase = "usersBack"] \in SessionState
    BY DEF SessionState, Phase
  <2>2. session' \in [Session -> SessionState]
    BY <1>3, <2>1, BecomesTyped DEF TakeUsers
  <2>3. session[s].gap[1].users \subseteq User
    BY DEF Gap
  <2> QED BY <1>3, <2>2, <2>3 DEF TakeUsers, TypeOK
<1>4. CASE TakeUsersBack(s)
  <2>1. [session[s] EXCEPT !.phase = "folders", !.members = UnknownFolder(s, 1)]
           \in SessionState
    BY DEF SessionState, Phase
  <2>2. session' \in [Session -> SessionState]
    BY <1>4, <2>1, BecomesTyped DEF TakeUsersBack
  <2>3. session[s].gap[2].users \subseteq User
    BY DEF Gap
  <2> QED BY <1>4, <2>2, <2>3 DEF TakeUsersBack, TypeOK
<1>5. session[s].members \subseteq Chain
  BY DEF SessionState
<1>6. CASE TakeFolders(s)
  <2>1. [session[s] EXCEPT !.phase = "foldersBack", !.members = UnknownFolder(s, 2)]
           \in SessionState
    BY DEF SessionState, Phase
  <2>2. session' \in [Session -> SessionState]
    <3>1. CASE CanKeep(s[2], session[s].members)
      BY <1>6, <2>1, <3>1, BecomesTyped DEF TakeFolders
    <3>2. CASE ~CanKeep(s[2], session[s].members)
      BY <1>6, <3>2, BecomesTyped DEF TakeFolders, GivesUp
    <3> QED BY <3>1, <3>2
  <2>3. folder' \in [User -> SUBSET Chain]
    <3>1. CASE folder' = [folder EXCEPT ![s[2]] = @ \cup session[s].members]
      <4>1. s[2] \in User /\ folder[s[2]] \cup session[s].members \in SUBSET Chain
        BY <1>5 DEF TypeOK
      <4> QED BY <3>1, <4>1 DEF TypeOK
    <3>2. CASE folder' = folder
      BY <3>2 DEF TypeOK
    <3> QED BY <1>6, <3>1, <3>2 DEF TakeFolders
  <2> QED BY <1>6, <2>2, <2>3 DEF TakeFolders, TypeOK
<1>7. CASE TakeFoldersBack(s)
  <2> DEFINE members == folder[s[1]] \cup session[s].members
  <2>1. members \in SUBSET Chain
    BY <1>5 DEF TypeOK
  <2>2. [session[s] EXCEPT !.phase = "recipients",
                           !.members = MissingRecipients(s, 1, members)] \in SessionState
    BY <2>1 DEF SessionState, Phase
  <2>3. session' \in [Session -> SessionState]
    BY <1>7, <2>2, BecomesTyped DEF TakeFoldersBack, GivesUp
  <2>4. folder' \in [User -> SUBSET Chain]
    BY <1>7, <2>1 DEF TakeFoldersBack, TypeOK
  <2> QED BY <1>7, <2>3, <2>4 DEF TakeFoldersBack, TypeOK
<1> QED BY <1>1, <1>2, <1>3, <1>4, <1>6, <1>7

\* add_missing_recipients and send_resources: what the n-th end stores and
\* sends, when own are the records that it shares from besides.
Keeps(s, n, own) ==
    LET u == s[n]
        w == s[3 - n]
        notes == session[s].gap[n].notes
        given == Granted(own, w)
    IN  /\ At(s, IF n = 2 THEN "recipients" ELSE "recipientsBack")
        /\ CanKeep(u, session[s].members)
        /\ folder' = [folder EXCEPT ![u] = @ \cup session[s].members]
        /\ keys' = [keys EXCEPT ![u] = [x \in Note |-> @[x] \cup given[x]]]
        /\ shares' = [shares EXCEPT ![u] = [x \in Note |-> @[x] \cup given[x]]]
        /\ rows' = [rows EXCEPT ![u] =
                      [x \in Note |-> IF x \in notes THEN rows[u][x] \cup {w} ELSE rows[u][x]]]
        /\ Becomes(s, [session[s] EXCEPT
              !.phase = IF n = 2 THEN "recipientsBack" ELSE "copies",
              !.members = IF n = 2 THEN MissingRecipients(s, 2, folder'[u]) ELSE {},
              !.copies = @ \cup {Copy(u, w, x) : x \in notes}])
        /\ UNCHANGED <<known, held, placed, created, asked>>

Taken(s, n) ==
    \E own \in Besides(s, s[n], s[3 - n], session[s].gap[n].notes) : Keeps(s, n, own)

\* A folder message is taken, or nothing more comes of the sync.
LEMMA TakenOrNot ==
    ASSUME TypeOK, NEW s \in Session, NEW n \in {1, 2}, TakeRecipients(s, n)
    PROVE  \/ Taken(s, n)
           \/ /\ At(s, IF n = 2 THEN "recipients" ELSE "recipientsBack")
              /\ Becomes(s, Idle) /\ UNCHANGED <<tables, created, asked>>
<1>1. s[n] \in User
  BY SessionUsers
<1> DEFINE u == s[n]
           w == s[3 - n]
           notes == session[s].gap[n].notes
<1>2. rows \in [User -> [Note -> SUBSET User]]
  BY DEF TypeOK
<1>3. CASE \E own \in Besides(s, u, w, notes) :
              LET given == Granted(own, w)
              IN  /\ keys' = [keys EXCEPT ![u] = [x \in Note |-> @[x] \cup given[x]]]
                  /\ shares' = [shares EXCEPT ![u] = [x \in Note |-> @[x] \cup given[x]]]
           /\ CanKeep(u, session[s].members)
           /\ rows' = [rows EXCEPT ![u] = [x \in Note |->
                          IF x \in notes THEN @[x] \cup {w} ELSE @[x]]]
  <2>1. rows' = [rows EXCEPT ![u] =
                  [x \in Note |-> IF x \in notes THEN rows[u][x] \cup {w} ELSE rows[u][x]]]
    BY <1>1, <1>2, <1>3
  <2> QED BY <1>3, <2>1 DEF TakeRecipients, Taken, Keeps
<1> QED BY <1>3 DEF TakeRecipients, GivesUp, tables

\* Sending and taking copies keep them.
LEMMA CopyPhasesTyped ==
    ASSUME TypeOK, NEW s \in Session, faults' \in 0 .. MaxFaults,
           \/ \E n \in {1, 2} : TakeRecipients(s, n)
           \/ \E c \in session[s].copies : TakeCopy(s, c)
           \/ CopiesDone(s)
    PROVE  TypeOK'
<1> USE SessionUsers, SessionTyped, IdleTyped
<1>1. ASSUME NEW n \in {1, 2}, TakeRecipients(s, n) PROVE TypeOK'
  <2> DEFINE u == s[n]
             w == s[3 - n]
             notes == session[s].gap[n].notes
             members == IF n = 2 THEN MissingRecipients(s, 2, folder'[u]) ELSE {}
             state == [session[s] EXCEPT
                          !.phase = IF n = 2 THEN "recipientsBack" ELSE "copies",
                          !.members = members,
                          !.copies = @ \cup {Copy(u, w, x) : x \in notes}]
  <2>1. u \in User /\ w \in User /\ notes \subseteq Note
    BY DEF Gap
  <2>2. CASE Taken(s, n)
    <3>1. PICK own \in Besides(s, u, w, notes) : Keeps(s, n, own)
      BY <2>2 DEF Taken
    <3> DEFINE given == Granted(own, w)
    <3>2. given \in [Note -> SUBSET Chain]
      <4> HIDE DEF u, w, notes
      <4>1. PICK some \in SUBSET notes : own \in Grants(u, w, some)
        BY <2>1, <3>1, BesidesGrants
      <4> QED BY <2>1, <4>1, GrantedTyped
    <3>3. /\ folder' = [folder EXCEPT ![u] = @ \cup session[s].members]
          /\ keys' = [keys EXCEPT ![u] = [x \in Note |-> @[x] \cup given[x]]]
          /\ shares' = [shares EXCEPT ![u] = [x \in Note |-> @[x] \cup given[x]]]
          /\ rows' = [rows EXCEPT ![u] =
                        [x \in Note |-> IF x \in notes THEN rows[u][x] \cup {w} ELSE rows[u][x]]]
          /\ Becomes(s, state) /\ UNCHANGED <<known, held, placed, created, asked>>
      BY <3>1 DEF Keeps
    <3> HIDE DEF given, state
    <3>4. session[s].members \subseteq Chain
      BY DEF SessionState
    <3>5. folder' \in [User -> SUBSET Chain]
      BY <2>1, <3>3, <3>4 DEF TypeOK
    <3>6. /\ [x \in Note |-> keys[u][x] \cup given[x]] \in [Note -> SUBSET Chain]
          /\ [x \in Note |-> shares[u][x] \cup given[x]] \in [Note -> SUBSET Chain]
          /\ [x \in Note |-> IF x \in notes THEN rows[u][x] \cup {w} ELSE rows[u][x]]
                \in [Note -> SUBSET User]
      BY <2>1, <3>2 DEF TypeOK
    <3>7. /\ keys' \in [User -> [Note -> SUBSET Chain]]
          /\ shares' \in [User -> [Note -> SUBSET Chain]]
          /\ rows' \in [User -> [Note -> SUBSET User]]
      BY <3>3, <3>6 DEF TypeOK
    <3>8. members \in SUBSET Chain
      BY <2>1, <3>5
    <3>9. \A x \in notes : Copy(u, w, x) \in CopySet
      BY <2>1, <3>7 DEF Copy, CopySet
    <3>10. session[s].copies \cup {Copy(u, w, x) : x \in notes} \in SUBSET CopySet
      BY <3>9 DEF SessionState
    <3>11. state \in SessionState
      BY <3>8, <3>10 DEF SessionState, Phase, state
    <3>12. session' \in [Session -> SessionState]
      BY <3>3, <3>11, BecomesTyped
    <3> QED BY <3>3, <3>5, <3>7, <3>12 DEF TypeOK
  <2>3. CASE Becomes(s, Idle) /\ UNCHANGED <<tables, created, asked>>
    BY <2>3, HandlerTyped
  <2> QED BY <1>1, <2>2, <2>3, TakenOrNot
<1>2. ASSUME NEW c \in session[s].copies, TakeCopy(s, c) PROVE TypeOK'
  <2> DEFINE todo == IF c.to = s[2] /\ session[s].todo # {} /\ session[s].gap[2].notes # {}
                     THEN {} ELSE session[s].todo
             taken == [session[s] EXCEPT !.copies = @ \ {c}]
             dropped == [session[s] EXCEPT !.copies = @ \ {c}, !.todo = todo]
  <2>1. /\ c \in CopySet /\ c.to \in User /\ c.note \in Note
        /\ c.keys \in SUBSET Chain /\ c.shares \in SUBSET Chain /\ c.rows \in SUBSET User
    BY DEF SessionState, CopySet
  <2>2. taken \in SessionState
    BY DEF SessionState
  <2>3. todo \in SUBSET Note
    BY DEF SessionState
  <2>4. dropped \in SessionState
    BY <2>3 DEF SessionState
  <2>5. CASE Acceptable(c.to, c.note, c)
    <3>1. Becomes(s, taken)
      BY <1>2, <2>5 DEF TakeCopy
    <3>2. session' \in [Session -> SessionState]
      BY <2>2, <3>1, BecomesTyped
    <3>3. /\ keys' = Saved(keys, c.to, c.note, c.keys)
          /\ shares' = Saved(shares, c.to, c.note, c.shares)
          /\ rows' = Saved(rows, c.to, c.note, c.rows)
      BY <1>2, <2>5 DEF TakeCopy
    <3>4. /\ keys' \in [User -> [Note -> SUBSET Chain]]
          /\ shares' \in [User -> [Note -> SUBSET Chain]]
          /\ rows' \in [User -> [Note -> SUBSET User]]
      BY <2>1, <3>3, SavedTyped DEF TypeOK
    <3>5. held' \in [User -> SUBSET Note] /\ placed' \in [User -> SUBSET Note]
      <4> DEFINE new == IF folder[c.to] = {} THEN {} ELSE ({c.note} \cap Foldered) \ held[c.to]
      <4>1. /\ held' = [held EXCEPT ![c.to] = @ \cup {c.note}]
            /\ placed' = [placed EXCEPT ![c.to] = @ \cup new]
        BY <1>2, <2>5 DEF TakeCopy
      <4>2. new \subseteq Note
        BY <2>1
      <4> QED BY <2>1, <4>1, <4>2 DEF TypeOK
    <3> QED BY <1>2, <3>2, <3>4, <3>5 DEF TakeCopy, TypeOK
  <2>6. CASE ~Acceptable(c.to, c.note, c)
    <3>1. Becomes(s, dropped) /\ UNCHANGED <<tables, created, asked>>
      BY <1>2, <2>6 DEF TakeCopy, tables
    <3> QED BY <2>4, <3>1, HandlerTyped
  <2> QED BY <2>5, <2>6
<1>3. CASE CopiesDone(s)
  <2>1. [session[s] EXCEPT !.phase = "merging"] \in SessionState
    BY DEF SessionState, Phase
  <2> QED BY <1>3, <2>1, HandlerTyped DEF CopiesDone, GivesUp
<1> QED BY <1>1, <1>2, <1>3

\* What the merge of a note leaves in the session.
Merging(s, phase, m, a) ==
    [session[s] EXCEPT !.phase = phase, !.merge = m, !.answer = a]

LEMMA MergingTyped ==
    ASSUME TypeOK, NEW s \in Session, NEW phase \in Phase, NEW m \in MergeSet,
           NEW a \in MergeSet
    PROVE  LET st == Merging(s, phase, m, a)
           IN  /\ st \in SessionState /\ st.phase = phase /\ st.merge = m /\ st.answer = a
               /\ st.copies = session[s].copies /\ st.gap = session[s].gap
               /\ st.members = session[s].members /\ st.todo = session[s].todo
               /\ st.sent = session[s].sent
BY SessionTyped DEF Merging, SessionState

\* The same of a state given a name.
LEMMA MergingNamed ==
    ASSUME TypeOK, NEW s \in Session, NEW phase \in Phase, NEW m \in MergeSet,
           NEW a \in MergeSet, NEW st, st = Merging(s, phase, m, a)
    PROVE  /\ st.phase = phase /\ st.merge = m /\ st.answer = a
           /\ st.copies = session[s].copies
BY MergingTyped

\* A merge message's note and its records.
LEMMA MergeFields ==
    ASSUME TypeOK, NEW s \in Session
    PROVE  LET m == session[s].merge
               a == session[s].answer
           IN  /\ session[s] \in SessionState
               /\ m \in MergeSet /\ m.note \in Note \cup {None} /\ m.rows \in SUBSET User
               /\ m.keys \in SUBSET Chain /\ m.shares \in SUBSET Chain
               /\ a \in MergeSet /\ a.note \in Note \cup {None} /\ a.rows \in SUBSET User
               /\ a.keys \in SUBSET Chain /\ a.shares \in SUBSET Chain
BY SessionTyped DEF SessionState, MergeSet

\* The steps of a merge, each with the message that it leaves and what it has
\* gathered for the other end.
LEMMA MergeSteps ==
    ASSUME TypeOK, NEW s \in Session
    PROVE  LET m == session[s].merge
               a == session[s].answer
               r == s[2]
           IN  /\ AnswerRequest(s) => \E own \in OwnRecords(r, m.note) :
                     Becomes(s, Merging(s, "updates", [m EXCEPT !.shares = {own}], a))
               /\ AnswerUpdates(s) =>
                     Becomes(s, Merging(s, "final",
                        [note |-> m.note, keys |-> keys[s[1]][m.note],
                         shares |-> shares[s[1]][m.note], rows |-> rows[s[1]][m.note]], a))
               /\ MergeKeys(s) =>
                     Becomes(s, Merging(s, "finalClocks", m,
                        [NoMerge EXCEPT !.note = m.note, !.keys = keys[r][m.note] \ m.keys]))
               /\ CompareClocks(s) =>
                     Becomes(s, Merging(s, "finalInsert",
                        [m EXCEPT !.rows = @ \ rows[r][m.note]],
                        [a EXCEPT !.rows = rows[r][m.note] \ m.rows]))
               /\ InsertClocks(s) => Becomes(s, Merging(s, "finalShares", m, a))
               /\ MergeShares(s) =>
                     Becomes(s, Merging(s, "response",
                        [a EXCEPT !.shares = shares[r][m.note] \ m.shares], NoMerge))
               /\ AcceptClocks(s) => Becomes(s, Merging(s, "responseShares", m, a))
               /\ AcceptShares(s) => Becomes(s, Merging(s, "responseKeys", m, a))
               /\ AcceptKeys(s) => Becomes(s, Merging(s, "merging", NoMerge, a))
<1> DEFINE m == session[s].merge
           a == session[s].answer
           r == s[2]
<1>1. session[s] \in SessionState /\ m \in MergeSet /\ a \in MergeSet
  BY MergeFields
<1>2. \A phase, one : [session[s] EXCEPT !.phase = phase, !.merge = one]
                         = Merging(s, phase, one, a)
  BY <1>1 DEF Merging, SessionState
<1>3. \A phase, one : [session[s] EXCEPT !.phase = phase, !.answer = one]
                         = Merging(s, phase, m, one)
  BY <1>1 DEF Merging, SessionState
<1>4. \A phase : [session[s] EXCEPT !.phase = phase] = Merging(s, phase, m, a)
  BY <1>1 DEF Merging, SessionState
<1>6. \A phase, one, two : [session[s] EXCEPT !.phase = phase, !.answer = two, !.merge = one]
                  = Merging(s, phase, one, two)
  BY <1>1 DEF Merging, SessionState
<1> HIDE DEF m, a
<1>8. AnswerRequest(s) => \E own \in OwnRecords(r, m.note) :
         Becomes(s, Merging(s, "updates", [m EXCEPT !.shares = {own}], a))
  BY <1>2 DEF AnswerRequest, m
<1>9. AnswerUpdates(s) =>
         Becomes(s, Merging(s, "final",
            [note |-> m.note, keys |-> keys[s[1]][m.note],
             shares |-> shares[s[1]][m.note], rows |-> rows[s[1]][m.note]], a))
  BY <1>2 DEF AnswerUpdates, m
<1>10. MergeKeys(s) =>
         Becomes(s, Merging(s, "finalClocks", m,
            [NoMerge EXCEPT !.note = m.note, !.keys = keys[r][m.note] \ m.keys]))
  <2> DEFINE P == keys[r][m.note] \ m.keys
  <2>1. [session[s] EXCEPT !.phase = "finalClocks",
                           !.answer = [NoMerge EXCEPT !.note = m.note, !.keys = P]]
           = Merging(s, "finalClocks", m, [NoMerge EXCEPT !.note = m.note, !.keys = P])
    BY <1>3
  <2>3. MergeKeys(s) =>
           Becomes(s, [session[s] EXCEPT !.phase = "finalClocks",
                           !.answer = [NoMerge EXCEPT !.note = m.note, !.keys = P]])
    BY DEF MergeKeys, m
  <2> QED BY <2>1, <2>3
<1>11. CompareClocks(s) =>
         Becomes(s, Merging(s, "finalInsert", [m EXCEPT !.rows = m.rows \ rows[r][m.note]],
                                              [a EXCEPT !.rows = rows[r][m.note] \ m.rows]))
  <2> DEFINE P == m.rows \ rows[r][m.note]
             Q == rows[r][m.note] \ m.rows
  <2>1. CompareClocks(s) =>
           Becomes(s, [session[s] EXCEPT !.phase = "finalInsert", !.merge.rows = P,
                                         !.answer.rows = Q])
    BY DEF CompareClocks, m
  <2> HIDE DEF P, Q
  <2>2. [session[s] EXCEPT !.phase = "finalInsert", !.merge.rows = P, !.answer.rows = Q]
           = Merging(s, "finalInsert", [m EXCEPT !.rows = P], [a EXCEPT !.rows = Q])
    BY <1>1 DEF Merging, SessionState, m, a
  <2>3. CompareClocks(s) => Becomes(s, Merging(s, "finalInsert", [m EXCEPT !.rows = P],
                                                                 [a EXCEPT !.rows = Q]))
    BY <2>1, <2>2
  <2> QED BY <2>3 DEF P, Q
<1>12. InsertClocks(s) => Becomes(s, Merging(s, "finalShares", m, a))
  BY <1>4 DEF InsertClocks
<1>13. MergeShares(s) =>
         Becomes(s, Merging(s, "response",
            [a EXCEPT !.shares = shares[r][m.note] \ m.shares], NoMerge))
  BY <1>6 DEF MergeShares, m, a
<1>14. AcceptClocks(s) => Becomes(s, Merging(s, "responseShares", m, a))
  BY <1>4 DEF AcceptClocks
<1>15. AcceptShares(s) => Becomes(s, Merging(s, "responseKeys", m, a))
  BY <1>4 DEF AcceptShares
<1>16. AcceptKeys(s) => Becomes(s, Merging(s, "merging", NoMerge, a))
  BY <1>2 DEF AcceptKeys
<1>17. [m EXCEPT !.rows = @ \ rows[r][m.note]] = [m EXCEPT !.rows = m.rows \ rows[r][m.note]]
  OBVIOUS
<1> QED BY <1>8, <1>9, <1>10, <1>11, <1>12, <1>13, <1>14, <1>15, <1>16, <1>17 DEF m, a

\* A merge's handlers, by what they write.
MergeStep(s) ==
    \/ AnswerRequest(s) \/ AnswerUpdates(s) \/ MergeKeys(s) \/ CompareClocks(s)
    \/ InsertClocks(s) \/ MergeShares(s) \/ AcceptClocks(s) \/ AcceptShares(s)
    \/ AcceptKeys(s)

\* Each leaves a message of the note, and one of what is gathered for the other.
LEMMA MergeStepTyped ==
    ASSUME TypeOK, MergeNoted, NEW s \in Session, MergeStep(s), faults' \in 0 .. MaxFaults
    PROVE  TypeOK'
<1> USE DEF At
<1> DEFINE m == session[s].merge
           a == session[s].answer
           Goal == TypeOK'
<1>0. /\ session[s] \in SessionState /\ m \in MergeSet /\ a \in MergeSet
      /\ m.keys \in SUBSET Chain /\ m.shares \in SUBSET Chain /\ m.rows \in SUBSET User
      /\ s[1] \in User /\ s[2] \in User
  BY MergeFields, SessionUsers
<1>1. m.note \in Note
  BY DEF MergeStep, MergeNoted, Running, AnswerRequest, AnswerUpdates, MergeKeys,
         CompareClocks, InsertClocks, MergeShares, AcceptClocks, AcceptShares, AcceptKeys
<1>2. ASSUME NEW phase \in Phase, NEW one \in MergeSet, NEW two \in MergeSet,
             Becomes(s, Merging(s, phase, one, two))
      PROVE  session' \in [Session -> SessionState]
  BY <1>2, MergingTyped, BecomesTyped
<1>3. \A n \in {1, 2} : shares[s[n]][m.note] \in SUBSET Chain
                        /\ keys[s[n]][m.note] \in SUBSET Chain
                        /\ rows[s[n]][m.note] \in SUBSET User
  BY <1>0, <1>1 DEF TypeOK
<1>4. /\ \A P \in SUBSET Chain : [m EXCEPT !.shares = P] \in MergeSet
      /\ \A P \in SUBSET Chain : [a EXCEPT !.shares = P] \in MergeSet
      /\ \A W \in SUBSET User : [m EXCEPT !.rows = W] \in MergeSet
      /\ \A W \in SUBSET User : [a EXCEPT !.rows = W] \in MergeSet
      /\ \A P, Q \in SUBSET Chain, W \in SUBSET User :
            [note |-> m.note, keys |-> P, shares |-> Q, rows |-> W] \in MergeSet
  BY <1>0, <1>1 DEF MergeSet
<1>5. \A P \in SUBSET Chain : [NoMerge EXCEPT !.note = m.note, !.keys = P] \in MergeSet
  BY <1>0, <1>1 DEF MergeSet, NoMerge
<1>6. /\ {"updates", "final", "finalClocks", "finalInsert", "finalShares", "response",
          "responseShares", "responseKeys", "merging"} \subseteq Phase
      /\ NoMerge \in MergeSet
  BY IdleTyped DEF Phase
<1>7. session' \in [Session -> SessionState]
  <2>1. CASE AnswerRequest(s)
    <3>1. PICK own \in OwnRecords(s[2], m.note) :
             Becomes(s, Merging(s, "updates", [m EXCEPT !.shares = {own}], a))
      BY <2>1, MergeSteps
    <3>2. {own} \in SUBSET Chain
      BY <1>3, ForSome DEF OwnRecords
    <3>3. [m EXCEPT !.shares = {own}] \in MergeSet
      BY <1>4, <3>2
    <3> HIDE DEF m, a
    <3> QED BY <1>0, <1>2, <1>6, <3>1, <3>3
  <2>2. CASE AnswerUpdates(s)
    <3> DEFINE one == [note |-> m.note, keys |-> keys[s[1]][m.note],
                       shares |-> shares[s[1]][m.note], rows |-> rows[s[1]][m.note]]
    <3>1. Becomes(s, Merging(s, "final", one, a))
      BY <2>2, MergeSteps
    <3>2. one \in MergeSet
      BY <1>3, <1>4
    <3> HIDE DEF one, a
    <3> QED BY <1>0, <1>2, <1>6, <3>1, <3>2
  <2>3. CASE MergeKeys(s)
    <3> DEFINE two == [NoMerge EXCEPT !.note = m.note, !.keys = keys[s[2]][m.note] \ m.keys]
    <3>1. Becomes(s, Merging(s, "finalClocks", m, two))
      BY <2>3, MergeSteps
    <3>2. keys[s[2]][m.note] \ m.keys \in SUBSET Chain
      BY <1>3
    <3>3. two \in MergeSet
      BY <1>5, <3>2
    <3> HIDE DEF two, m
    <3> QED BY <1>0, <1>2, <1>6, <3>1, <3>3
  <2>4. CASE CompareClocks(s)
    <3> DEFINE one == [m EXCEPT !.rows = @ \ rows[s[2]][m.note]]
               two == [a EXCEPT !.rows = rows[s[2]][m.note] \ m.rows]
    <3>1. Becomes(s, Merging(s, "finalInsert", one, two))
      BY <2>4, MergeSteps
    <3>2. m.rows \ rows[s[2]][m.note] \in SUBSET User
          /\ rows[s[2]][m.note] \ m.rows \in SUBSET User
      BY <1>0, <1>3
    <3>3. one \in MergeSet /\ two \in MergeSet
      BY <1>4, <3>2
    <3> HIDE DEF one, two
    <3> QED BY <1>2, <1>6, <3>1, <3>3
  <2>5. CASE MergeShares(s)
    <3> DEFINE one == [a EXCEPT !.shares = shares[s[2]][m.note] \ m.shares]
    <3>1. Becomes(s, Merging(s, "response", one, NoMerge))
      BY <2>5, MergeSteps
    <3>2. shares[s[2]][m.note] \ m.shares \in SUBSET Chain
      BY <1>3
    <3>3. one \in MergeSet
      BY <1>4, <3>2
    <3> HIDE DEF one
    <3> QED BY <1>2, <1>6, <3>1, <3>3
  <2>6. CASE InsertClocks(s) \/ AcceptClocks(s) \/ AcceptShares(s)
    <3>1. \E phase \in {"finalShares", "responseShares", "responseKeys"} :
             Becomes(s, Merging(s, phase, m, a))
      BY <2>6, MergeSteps
    <3> HIDE DEF m, a
    <3> QED BY <1>0, <1>2, <1>6, <3>1
  <2>7. CASE AcceptKeys(s)
    <3>1. Becomes(s, Merging(s, "merging", NoMerge, a))
      BY <2>7, MergeSteps
    <3> HIDE DEF a
    <3> QED BY <1>0, <1>2, <1>6, <3>1
  <2> QED BY <2>1, <2>2, <2>3, <2>4, <2>5, <2>6, <2>7 DEF MergeStep
<1>8. /\ keys' \in [User -> [Note -> SUBSET Chain]]
      /\ shares' \in [User -> [Note -> SUBSET Chain]]
      /\ rows' \in [User -> [Note -> SUBSET User]]
  <2>1. /\ keys' = keys \/ \E n \in {1, 2} : keys' = Saved(keys, s[n], m.note, m.keys)
        /\ shares' = shares \/ \E n \in {1, 2} : shares' = Saved(shares, s[n], m.note, m.shares)
        /\ rows' = rows \/ \E n \in {1, 2} : rows' = Saved(rows, s[n], m.note, m.rows)
    BY DEF MergeStep, AnswerRequest, AnswerUpdates, MergeKeys, CompareClocks,
           InsertClocks, MergeShares, AcceptClocks, AcceptShares, AcceptKeys, tables
  <2> HIDE DEF m
  <2>2. \A n \in {1, 2} : s[n] \in User
    BY SessionUsers
  <2>3. keys' \in [User -> [Note -> SUBSET Chain]]
    <3>1. keys \in [User -> [Note -> SUBSET Chain]]
      BY DEF TypeOK
    <3>2. ASSUME NEW n \in {1, 2}
          PROVE  Saved(keys, s[n], m.note, m.keys) \in [User -> [Note -> SUBSET Chain]]
      BY <1>0, <1>1, <2>2, <3>1, SavedTyped
    <3> QED BY <2>1, <3>1, <3>2
  <2>4. shares' \in [User -> [Note -> SUBSET Chain]]
    <3>1. shares \in [User -> [Note -> SUBSET Chain]]
      BY DEF TypeOK
    <3>2. ASSUME NEW n \in {1, 2}
          PROVE  Saved(shares, s[n], m.note, m.shares) \in [User -> [Note -> SUBSET Chain]]
      BY <1>0, <1>1, <2>2, <3>1, SavedTyped
    <3> QED BY <2>1, <3>1, <3>2
  <2>5. rows' \in [User -> [Note -> SUBSET User]]
    <3>1. rows \in [User -> [Note -> SUBSET User]]
      BY DEF TypeOK
    <3>2. ASSUME NEW n \in {1, 2}
          PROVE  Saved(rows, s[n], m.note, m.rows) \in [User -> [Note -> SUBSET User]]
      BY <1>0, <1>1, <2>2, <3>1, SavedTyped
    <3> QED BY <2>1, <3>1, <3>2
  <2> QED BY <2>3, <2>4, <2>5
<1>9. UNCHANGED <<known, folder, held, placed, created, asked>>
  BY DEF MergeStep, AnswerRequest, AnswerUpdates, MergeKeys, CompareClocks,
         InsertClocks, MergeShares, AcceptClocks, AcceptShares, AcceptKeys, tables
<1> QED BY <1>7, <1>8, <1>9 DEF TypeOK

\* The merges keep the types.
LEMMA MergePhasesTyped ==
    ASSUME TypeOK, MergeNoted, NEW s \in Session, faults' \in 0 .. MaxFaults,
           \/ \E x \in session[s].todo : RequestUpdates(s, x)
           \/ MergeStep(s) \/ Refused(s) \/ SyncDone(s)
    PROVE  TypeOK'
<1> USE SessionUsers, SessionTyped, IdleTyped DEF At
<1>1. ASSUME NEW x \in session[s].todo, RequestUpdates(s, x) PROVE TypeOK'
  <2>1. x \in Note /\ session[s].todo \ {x} \in SUBSET Note
    BY DEF SessionState
  <2>2. PICK own \in OwnRecords(s[1], x) :
           Becomes(s, [session[s] EXCEPT !.phase = "request", !.todo = @ \ {x},
                           !.merge = [NoMerge EXCEPT !.note = x, !.shares = {own}]])
    BY <1>1 DEF RequestUpdates
  <2>3. own \in Chain
    BY <2>1, <2>2, ForSome DEF OwnRecords, TypeOK
  <2>4. [NoMerge EXCEPT !.note = x, !.shares = {own}] \in MergeSet
    BY <2>1, <2>3 DEF NoMerge, MergeSet
  <2>5. [session[s] EXCEPT !.phase = "request", !.todo = @ \ {x},
             !.merge = [NoMerge EXCEPT !.note = x, !.shares = {own}]] \in SessionState
    BY <2>1, <2>4 DEF SessionState, Phase
  <2> QED BY <1>1, <2>2, <2>5, HandlerTyped DEF RequestUpdates
<1>2. CASE Refused(s) \/ SyncDone(s)
  <2> DEFINE todo == IF session[s].phase = "merging" THEN {} ELSE session[s].todo
             st == [session[s] EXCEPT !.phase = "merging", !.merge = NoMerge,
                                      !.answer = NoMerge, !.todo = todo]
  <2>1. todo \in SUBSET Note
    BY DEF SessionState
  <2>2. st \in SessionState
    BY <2>1 DEF SessionState, Phase
  <2>3. /\ Becomes(s, st) \/ Becomes(s, Idle)
        /\ UNCHANGED <<tables, created, asked>>
    BY <1>2 DEF Refused, SyncDone, GivesUp
  <2> HIDE DEF st
  <2> QED BY <2>2, <2>3, HandlerTyped
<1> QED BY <1>1, <1>2, MergeStepTyped

----------------------------------------------------------------------------
(* Records and who has a note.                                             *)

(***************************************************************************)
(* What a session may carry, given the tables of records: a copy is for    *)
(* one who has a record in it; what the other end lacks is shared with it; *)
(* and both ends have records of a note that is being merged.              *)
(***************************************************************************)
Gathering == {"finalClocks", "finalInsert", "finalShares"}

CarriedBy(s, st, sh) ==
    /\ \A c \in st.copies : For(c.shares, c.to) # {}
    /\ \A n \in {1, 2} : \A x \in st.gap[n].notes : For(sh[s[n]][x], s[3 - n]) # {}
    /\ st.phase = "manifest" => \A x \in Lists(st.sent) : For(sh[s[1]][x], s[2]) # {}
    /\ st.phase \in Running => st.merge.note \in Note /\ sh[s[1]][st.merge.note] # {}
    /\ st.phase \in Running \ {"request"} => sh[s[2]][st.merge.note] # {}
    /\ st.phase \in Gathering => st.answer.note = st.merge.note

Carried == \A s \in Session : CarriedBy(s, session[s], shares)

\* Whoever has a note has a record of its own for it.
OwnKept == \A u \in User : \A x \in held[u] : OwnRecords(u, x) # {}

\* Whoever has a record or a row of a note has the note: Create starts with
\* empty tables.
StoredHeld ==
    \A u \in User, x \in Note : shares[u][x] # {} \/ rows[u][x] # {} => x \in held[u]

\* A prepared share gives only notes that the sharer has.
AskedHeld == \A u \in User, x \in Note : asked[u].given[x] # {} => x \in held[u]

IInv == TypeOK /\ Carried /\ OwnKept /\ StoredHeld /\ AskedHeld

LEMMA InvTyped == IInv => TypeOK /\ MergeNoted
BY DEF IInv, Carried, CarriedBy, MergeNoted

\* Records are never taken away.
SharesGrow == \A u \in User, x \in Note : shares[u][x] \subseteq shares'[u][x]

\* So what a session may carry, it may carry on.
LEMMA CarriedGrows ==
    ASSUME TypeOK, SharesGrow, NEW s \in Session, NEW st \in SessionState,
           CarriedBy(s, st, shares)
    PROVE  CarriedBy(s, st, shares')
<1>1. s[1] \in User /\ s[2] \in User /\ \A n \in {1, 2} : s[n] \in User
  BY SessionUsers
<1>2. \A n \in {1, 2} : st.gap[n].notes \subseteq Note
  BY DEF SessionState, Gap
<1>3. Lists(st.sent) \subseteq Note
  BY DEF Lists
<1>4. \A u \in User, x \in Note : \A w : For(shares[u][x], w) # {} => For(shares'[u][x], w) # {}
  BY DEF SharesGrow, For
<1>5. \A n \in {1, 2} : \A x \in st.gap[n].notes : For(shares'[s[n]][x], s[3 - n]) # {}
  BY <1>1, <1>2, <1>4 DEF CarriedBy
<1>6. st.phase = "manifest" => \A x \in Lists(st.sent) : For(shares'[s[1]][x], s[2]) # {}
  BY <1>1, <1>3, <1>4 DEF CarriedBy
<1>7. st.phase \in Running =>
         \A n \in {1, 2} : shares[s[n]][st.merge.note] \subseteq shares'[s[n]][st.merge.note]
  BY <1>1 DEF CarriedBy, SharesGrow
<1> QED BY <1>5, <1>6, <1>7 DEF CarriedBy, Running

\* A step of one session concerns no other.
LEMMA CarriedStep ==
    ASSUME TypeOK, Carried, SharesGrow, NEW s \in Session, NEW st, Becomes(s, st),
           CarriedBy(s, st, shares')
    PROVE  Carried'
<1> SUFFICES ASSUME NEW t \in Session PROVE CarriedBy(t, session'[t], shares')
  BY DEF Carried
<1>1. CASE t = s
  BY <1>1 DEF Becomes, TypeOK
<1>2. CASE t # s
  <2>1. session'[t] = session[t] /\ session[t] \in SessionState
    BY <1>2 DEF Becomes, TypeOK
  <2> QED BY <2>1, CarriedGrows DEF Carried
<1> QED BY <1>1, <1>2

\* One that has given up carries nothing.
LEMMA CarriedIdle == \A s \in Session : \A sh : CarriedBy(s, Idle, sh)
BY DEF CarriedBy, Idle, NoGap, Running, Gathering

\* Nor does a step of no session, or the end of some.
LEMMA CarriedKept ==
    ASSUME TypeOK, Carried, SharesGrow,
           \A t \in Session : session'[t] = session[t] \/ session'[t] = Idle
    PROVE  Carried'
<1> SUFFICES ASSUME NEW t \in Session PROVE CarriedBy(t, session'[t], shares')
  BY DEF Carried
<1>1. session[t] \in SessionState
  BY DEF TypeOK
<1> QED BY <1>1, CarriedGrows, CarriedIdle DEF Carried

\* A session that sends neither a manifest nor a merge carries what it had.
LEMMA CarriedSame ==
    ASSUME NEW s \in Session, NEW st, NEW sh, NEW old, CarriedBy(s, old, sh),
           st.copies \subseteq old.copies, st.gap = old.gap,
           st.phase \notin Running \cup {"manifest"}
    PROVE  CarriedBy(s, st, sh)
BY DEF CarriedBy, Running, Gathering

\* Storing takes no record away.
LEMMA StoreGrows ==
    ASSUME TypeOK, NEW u \in User, NEW given \in [Note -> SUBSET Chain], Store(u, given)
    PROVE  /\ SharesGrow
           /\ \A v \in User, x \in Note :
                 /\ shares'[v][x] = shares[v][x] \cup (IF v = u THEN given[x] ELSE {})
                 /\ keys'[v][x] = keys[v][x] \cup (IF v = u THEN given[x] ELSE {})
                 /\ rows'[v][x] = rows[v][x] \cup (IF v = u THEN Recipients(given[x]) ELSE {})
<1>1. ASSUME NEW v \in User, NEW x \in Note
      PROVE  /\ shares'[v][x] = shares[v][x] \cup (IF v = u THEN given[x] ELSE {})
             /\ keys'[v][x] = keys[v][x] \cup (IF v = u THEN given[x] ELSE {})
             /\ rows'[v][x] = rows[v][x] \cup (IF v = u THEN Recipients(given[x]) ELSE {})
  <2>1. CASE v = u
    BY <2>1 DEF Store, TypeOK
  <2>2. CASE v # u
    BY <2>2 DEF Store, TypeOK
  <2> QED BY <2>1, <2>2
<1> QED BY <1>1 DEF SharesGrow

\* Nor does saving a message.
LEMMA SavedAt ==
    ASSUME TypeOK, NEW u \in User, NEW y \in Note, NEW more, NEW v \in User, NEW x \in Note
    PROVE  /\ v = u /\ x = y =>
                 /\ Saved(keys, u, y, more)[v][x] = keys[v][x] \cup more
                 /\ Saved(shares, u, y, more)[v][x] = shares[v][x] \cup more
                 /\ Saved(rows, u, y, more)[v][x] = rows[v][x] \cup more
           /\ ~(v = u /\ x = y) =>
                 /\ Saved(keys, u, y, more)[v][x] = keys[v][x]
                 /\ Saved(shares, u, y, more)[v][x] = shares[v][x]
                 /\ Saved(rows, u, y, more)[v][x] = rows[v][x]
<1>1. CASE v = u /\ x = y
  BY <1>1 DEF Saved, TypeOK
<1>2. CASE ~(v = u /\ x = y)
  BY <1>2 DEF Saved, TypeOK
<1> QED BY <1>1, <1>2

LEMMA SavedGrows ==
    ASSUME TypeOK, NEW u \in User, NEW x \in Note, NEW P \in SUBSET Chain,
           shares' = Saved(shares, u, x, P)
    PROVE  /\ SharesGrow /\ P \subseteq shares'[u][x]
           /\ \A v \in User, y \in Note : ~(v = u /\ y = x) => shares'[v][y] = shares[v][y]
<1>1. ASSUME NEW v \in User, NEW y \in Note, ~(v = u /\ y = x)
      PROVE  shares'[v][y] = shares[v][y]
  BY <1>1, SavedAt
<1>2. shares'[u][x] = shares[u][x] \cup P
  BY SavedAt
<1>3. SharesGrow
  <2> SUFFICES ASSUME NEW v \in User, NEW y \in Note PROVE shares[v][y] \subseteq shares'[v][y]
    BY DEF SharesGrow
  <2>1. CASE v = u /\ y = x
    BY <1>2, <2>1
  <2>2. CASE ~(v = u /\ y = x)
    BY <1>1, <2>2
  <2> QED BY <2>1, <2>2
<1> QED BY <1>1, <1>2, <1>3

\* Whoever has a note still has a record of its own, when a new holder gets one
\* with it.
LEMMA HoldersGrow ==
    ASSUME IInv, TypeOK', SharesGrow,
           \A u \in User : \A x \in held'[u] :
               x \in held[u] \/ For(shares'[u][x], u) # {}
    PROVE  OwnKept'
<1> SUFFICES ASSUME NEW u \in User, NEW x \in held'[u] PROVE For(shares'[u][x], u) # {}
  BY DEF OwnKept, OwnRecords
<1>1. x \in Note
  BY DEF TypeOK
<1>2. x \in held[u] => For(shares[u][x], u) # {}
  BY DEF IInv, OwnKept, OwnRecords
<1> QED BY <1>1, <1>2 DEF SharesGrow, For

\* What users write is about notes that they have.
LEMMA UserHeld ==
    ASSUME IInv, NEW u \in User, UserActs(u)
    PROVE  /\ StoredHeld' /\ AskedHeld' /\ SharesGrow
           /\ \A v \in User : held[v] \subseteq held'[v]
           /\ \A v \in User : \A x \in held'[v] : x \in held[v] \/ For(shares'[v][x], v) # {}
<1> USE DEF IInv
<1> DEFINE Grown == /\ \A v \in User : held[v] \subseteq held'[v]
                    /\ \A v \in User : \A x \in held'[v] :
                          x \in held[v] \/ For(shares'[v][x], v) # {}
           Goal == StoredHeld' /\ AskedHeld' /\ SharesGrow /\ Grown
<1> SUFFICES Goal
  OBVIOUS
<1>1. \A v \in User, x \in Note : OwnRecords(v, x) # {} => x \in held[v]
  BY DEF StoredHeld, OwnRecords, For
<1>2. ASSUME UNCHANGED <<held, shares, rows>>, AskedHeld' PROVE Goal
  BY <1>2 DEF StoredHeld, SharesGrow
<1>3. CASE CreateFolder(u)
  <2>1. UNCHANGED <<held, shares, rows, asked>>
    BY <1>3 DEF CreateFolder
  <2>2. AskedHeld'
    BY <2>1 DEF AskedHeld
  <2> HIDE DEF Goal
  <2> QED BY <1>2, <2>1, <2>2
<1>4. ASSUME NEW x \in Note, Create(u, x) PROVE Goal
  <2>1. /\ held' = [held EXCEPT ![u] = @ \cup {x}] /\ asked' = asked
        /\ \A v \in User, y \in Note : ~(v = u /\ y = x) =>
              shares'[v][y] = shares[v][y] /\ rows'[v][y] = rows[v][y]
        /\ shares'[u][x] = Owned(u)
    BY <1>4 DEF Create, TypeOK
  <2>2. x \in held'[u] /\ \A v \in User : held[v] \subseteq held'[v]
    BY <2>1 DEF TypeOK
  <2>3. \A v \in User : \A y \in held'[v] : y \in held[v] \/ (v = u /\ y = x)
    BY <2>1 DEF TypeOK
  <2>4. For(Owned(u), u) # {}
    BY OwnedChain DEF For, Recipients
  <2>5. shares[u][x] = {}
    BY <1>4 DEF Create, StoredHeld
  <2>6. SharesGrow
    BY <2>1, <2>5 DEF SharesGrow
  <2>7. StoredHeld' /\ AskedHeld'
    BY <2>1, <2>2 DEF StoredHeld, AskedHeld
  <2> QED BY <2>1, <2>2, <2>3, <2>4, <2>6, <2>7
<1>5. ASSUME NEW given \in [Note -> SUBSET Chain], Store(u, given),
             \A x \in Note : given[x] # {} => x \in held[u], held' = held,
             asked' = asked \/ asked' = [asked EXCEPT ![u] = NothingAsked]
      PROVE  Goal
  <2>1. /\ SharesGrow
        /\ \A v \in User, x \in Note : shares'[v][x] # {} \/ rows'[v][x] # {} =>
              shares[v][x] # {} \/ rows[v][x] # {} \/ (v = u /\ given[x] # {})
    BY <1>5, StoreGrows DEF Recipients
  <2>2. StoredHeld'
    BY <1>5, <2>1 DEF StoredHeld
  <2>3. AskedHeld'
    <3>1. \A v \in User : asked'[v] = asked[v] \/ asked'[v] = NothingAsked
      BY <1>5 DEF TypeOK
    <3> QED BY <1>5, <3>1 DEF AskedHeld, NothingAsked
  <2> QED BY <1>5, <2>1, <2>2, <2>3
<1>6. ASSUME NEW ask \in Asked, asked' = [asked EXCEPT ![u] = ask],
             UNCHANGED <<held, shares, rows>>,
             \A x \in Note : ask.given[x] # {} => OwnRecords(u, x) # {}
      PROVE  Goal
  <2>1. \A v \in User : asked'[v] = asked[v] \/ (v = u /\ asked'[v] = ask)
    BY <1>6 DEF TypeOK
  <2>2. AskedHeld'
    BY <1>1, <1>6, <2>1 DEF AskedHeld
  <2> HIDE DEF Goal
  <2> QED BY <1>2, <1>6, <2>2
<1>7. ASSUME NEW x \in Note, AutoShare(u, x) PROVE Goal
  <2>1. PICK own \in OwnRecords(u, x), W \in SUBSET User :
           LET given == Only(x, {Delegated(own, w) : w \in W})
           IN  /\ own \in Chain /\ given \in [Note -> SUBSET Chain]
               /\ \A w \in W : MayShare(u, x, own, w) /\ x \in Foldered
                               /\ w \in Recipients(folder[u])
               /\ [NothingAsked EXCEPT !.given = given] \in Asked
               /\ asked' = [asked EXCEPT ![u] = [NothingAsked EXCEPT !.given = given]]
    BY <1>7, AutoShareParts
  <2> DEFINE given == Only(x, {Delegated(own, w) : w \in W})
             ask == [NothingAsked EXCEPT !.given = given]
  <2>2. ask.given = given /\ \A y \in Note : given[y] # {} => y = x
    BY DEF NothingAsked, Only
  <2>3. ask \in Asked /\ asked' = [asked EXCEPT ![u] = ask]
    BY <2>1
  <2>4. UNCHANGED <<held, shares, rows>>
    BY <1>7 DEF AutoShare, tables
  <2> HIDE DEF Goal, ask, given
  <2> QED BY <1>6, <2>1, <2>2, <2>3, <2>4
<1>8. ASSUME NEW x \in Note, NEW w \in User, ShareNote(u, x, w) PROVE Goal
  <2>1. PICK own \in OwnRecords(u, x) : Store(u, Only(x, {Delegated(own, w)}))
    BY <1>8 DEF ShareNote
  <2>2. own \in Chain
    BY <2>1, ForSome DEF OwnRecords, TypeOK
  <2> DEFINE given == Only(x, {Delegated(own, w)})
  <2>3. given \in [Note -> SUBSET Chain] /\ \A y \in Note : given[y] # {} => y = x
    BY <2>2, DelegatedChain DEF Only
  <2>4. x \in held[u] /\ held' = held /\ asked' = asked
    BY <1>8 DEF ShareNote
  <2>5. Store(u, given)
    BY <2>1
  <2> HIDE DEF Goal, given
  <2> QED BY <1>5, <2>3, <2>4, <2>5
<1>9. ASSUME NEW w \in User, PrepareFolder(u, w) PROVE Goal
  <2>1. PICK p \in For(folder[u], u), own \in Grants(u, w, placed[u]) :
           LET ask == [to |-> {w}, member |-> {Delegated(p, w)}, given |-> Granted(own, w)]
           IN  ask \in Asked /\ asked' = [asked EXCEPT ![u] = ask]
    BY <1>9, PrepareFolderParts
  <2> DEFINE ask == [to |-> {w}, member |-> {Delegated(p, w)}, given |-> Granted(own, w)]
  <2>2. placed[u] \in SUBSET Note
    BY DEF TypeOK
  <2>3. ASSUME NEW x \in Note, Granted(own, w)[x] # {} PROVE OwnRecords(u, x) # {}
    BY <2>2, <2>3, GrantedOwn
  <2>4. UNCHANGED <<held, shares, rows>>
    BY <1>9 DEF PrepareFolder
  <2>5. ask \in Asked /\ asked' = [asked EXCEPT ![u] = ask] /\ ask.given = Granted(own, w)
    BY <2>1
  <2> HIDE DEF Goal, ask
  <2> QED BY <1>6, <2>3, <2>4, <2>5
<1>10. CASE SaveShares(u)
  <2>1. asked[u].given \in [Note -> SUBSET Chain]
    BY DEF TypeOK, Asked
  <2>2. \A x \in Note : asked[u].given[x] # {} => x \in held[u]
    BY DEF AskedHeld
  <2>3. held' = held /\ asked' = [asked EXCEPT ![u] = NothingAsked]
    BY <1>10 DEF SaveShares
  <2>4. CASE Store(u, asked[u].given)
    <3> HIDE DEF Goal
    <3> QED BY <1>5, <2>1, <2>2, <2>3, <2>4
  <2>5. CASE UNCHANGED <<keys, shares, rows>>
    <3>1. AskedHeld'
      <4>1. \A v \in User : asked'[v] = asked[v] \/ asked'[v] = NothingAsked
        BY <2>3 DEF TypeOK
      <4> QED BY <2>3, <4>1 DEF AskedHeld, NothingAsked
    <3> HIDE DEF Goal
    <3> QED BY <1>2, <2>3, <2>5, <3>1
  <2>6. Store(u, asked[u].given) \/ UNCHANGED <<keys, shares, rows>>
    BY <1>10 DEF SaveShares
  <2> HIDE DEF Goal
  <2> QED BY <2>4, <2>5, <2>6
<1> HIDE DEF Goal
<1> QED BY <1>3, <1>4, <1>7, <1>8, <1>9, <1>10 DEF UserActs

\* What users do keeps the invariant.
LEMMA UserInv ==
    ASSUME IInv, NEW u \in User, UserActs(u), faults' \in 0 .. MaxFaults PROVE IInv'
<1>1. TypeOK' /\ session' = session
  BY UserTyped DEF IInv
<1>2. /\ StoredHeld' /\ AskedHeld' /\ SharesGrow
      /\ \A v \in User : \A x \in held'[v] : x \in held[v] \/ For(shares'[v][x], v) # {}
  BY UserHeld
<1>3. OwnKept'
  BY <1>1, <1>2, HoldersGrow
<1>4. Carried'
  BY <1>1, <1>2, CarriedKept DEF IInv
<1> QED BY <1>1, <1>2, <1>3, <1>4 DEF IInv

\* Every message of a sync keeps the types.
LEMMA StepTyped ==
    ASSUME IInv, NEW s \in Session, Connect(s) \/ Step(s), faults' \in 0 .. MaxFaults
    PROVE  TypeOK'
BY InvTyped, FirstPhasesTyped, CopyPhasesTyped, MergePhasesTyped DEF IInv, Step, MergeStep

\* One that changes no record and no holder keeps the invariant, when what the
\* session carries then is as it should be, and rows are of notes that one has.
LEMMA RecordsSame ==
    ASSUME IInv, TypeOK', NEW s \in Session, NEW st, Becomes(s, st),
           UNCHANGED <<shares, held, asked>>,
           \A u \in User, x \in Note : rows'[u][x] # {} => rows[u][x] # {} \/ x \in held[u],
           CarriedBy(s, st, shares)
    PROVE  IInv'
<1>1. SharesGrow
  BY DEF SharesGrow
<1>2. CarriedBy(s, st, shares')
  OBVIOUS
<1>3. Carried'
  BY <1>1, <1>2, CarriedStep DEF IInv
<1>4. OwnKept' /\ StoredHeld' /\ AskedHeld'
  BY <1>1, HoldersGrow DEF IInv, StoredHeld, AskedHeld
<1> QED BY <1>3, <1>4 DEF IInv

\* So does one after which the session carries no more than before.
LEMMA CarriesNoMore ==
    ASSUME IInv, TypeOK', NEW s \in Session, NEW st, Becomes(s, st),
           UNCHANGED <<shares, rows, held, asked>>,
           \/ st = Idle
           \/ /\ st.copies \subseteq session[s].copies /\ st.gap = session[s].gap
              /\ st.phase \notin Running \cup {"manifest"}
    PROVE  IInv'
<1>1. CarriedBy(s, session[s], shares)
  BY DEF IInv, Carried
<1>2. CarriedBy(s, st, shares)
  BY <1>1, CarriedSame, CarriedIdle
<1> QED BY <1>2, RecordsSame

\* Connecting, and the exchange of manifests, users and folders.
LEMMA FirstPhasesInv ==
    ASSUME IInv, NEW s \in Session, faults' \in 0 .. MaxFaults,
           \/ Connect(s) \/ CompareManifests(s) \/ TakeUsers(s) \/ TakeUsersBack(s)
           \/ TakeFolders(s) \/ TakeFoldersBack(s)
    PROVE  IInv'
<1>1. TypeOK'
  BY FirstPhasesTyped DEF IInv
<1>2. /\ session[s] \in SessionState /\ s[1] \in User /\ s[2] \in User
      /\ CarriedBy(s, session[s], shares)
  BY SessionUsers, SessionTyped DEF IInv, Carried
<1>3. \A u, w \in User : \A x \in Lists(Manifest(u, w)) : For(shares[u][x], w) # {}
  BY DEF Lists, Manifest, SharedWith
<1>4. CASE Connect(s)
  <2> DEFINE st == [session[s] EXCEPT !.phase = "manifest", !.sent = Manifest(s[1], s[2])]
  <2>1. /\ st.phase = "manifest" /\ st.sent = Manifest(s[1], s[2])
        /\ st.copies = session[s].copies /\ st.gap = session[s].gap
    BY <1>2 DEF SessionState
  <2>2. Becomes(s, st) /\ UNCHANGED <<shares, rows, held, asked>>
    BY <1>4 DEF Connect
  <2> HIDE DEF st
  <2>3. CarriedBy(s, st, shares)
    BY <1>2, <1>3, <2>1 DEF CarriedBy, Running, Gathering
  <2> QED BY <1>1, <2>2, <2>3, RecordsSame
<1>5. CASE CompareManifests(s)
  <2> DEFINE mine == Manifest(s[2], s[1])
             theirs == session[s].sent
             st == [session[s] EXCEPT
                       !.phase = "users", !.sent = Nothing, !.todo = Differing(mine, theirs),
                       !.gap = <<Lacks(theirs, mine), Lacks(mine, theirs)>>]
  <2>1. /\ st.phase = "users" /\ st.copies = session[s].copies
        /\ st.gap = <<Lacks(theirs, mine), Lacks(mine, theirs)>>
    BY <1>2 DEF SessionState
  <2>2. Becomes(s, st) /\ UNCHANGED <<shares, rows, held, asked>>
    BY <1>5 DEF CompareManifests, tables
  <2>3. \A x \in Lists(theirs) : For(shares[s[1]][x], s[2]) # {}
    BY <1>2, <1>5 DEF CarriedBy, CompareManifests, At
  <2>4. \A x \in Lists(mine) : For(shares[s[2]][x], s[1]) # {}
    BY <1>2, <1>3
  <2>5. \A m, other : Lacks(m, other).notes \subseteq Lists(m)
    BY DEF Lacks
  <2>6. \A n \in {1, 2} : \A x \in st.gap[n].notes : For(shares[s[n]][x], s[3 - n]) # {}
    <3>1. \A x \in st.gap[1].notes : For(shares[s[1]][x], s[2]) # {}
      BY <2>1, <2>3, <2>5
    <3>2. \A x \in st.gap[2].notes : For(shares[s[2]][x], s[1]) # {}
      BY <2>1, <2>4, <2>5
    <3>3. 3 - 1 = 2 /\ 3 - 2 = 1
      OBVIOUS
    <3> HIDE DEF st
    <3> QED BY <3>1, <3>2, <3>3
  <2> HIDE DEF st
  <2>7. CarriedBy(s, st, shares)
    BY <1>2, <2>1, <2>6 DEF CarriedBy, Running, Gathering
  <2> QED BY <1>1, <2>2, <2>7, RecordsSame
<1>6. ASSUME NEW phase \in {"usersBack", "folders", "foldersBack", "recipients"}, NEW members,
             \/ Becomes(s, [session[s] EXCEPT !.phase = phase])
             \/ Becomes(s, [session[s] EXCEPT !.phase = phase, !.members = members])
             \/ Becomes(s, Idle),
             UNCHANGED <<shares, rows, held, asked>>
      PROVE  IInv'
  <2> DEFINE one == [session[s] EXCEPT !.phase = phase]
             two == [session[s] EXCEPT !.phase = phase, !.members = members]
  <2>1. /\ one.copies = session[s].copies /\ one.gap = session[s].gap /\ one.phase = phase
        /\ two.copies = session[s].copies /\ two.gap = session[s].gap /\ two.phase = phase
    BY <1>2 DEF SessionState
  <2>2. Becomes(s, one) \/ Becomes(s, two) \/ Becomes(s, Idle)
    BY <1>6
  <2>3. phase \notin Running \cup {"manifest"}
    BY DEF Running
  <2> HIDE DEF one, two
  <2> QED BY <1>1, <1>6, <2>1, <2>2, <2>3, CarriesNoMore
<1>7. CASE TakeUsers(s) \/ TakeUsersBack(s)
  BY <1>6, <1>7 DEF TakeUsers, TakeUsersBack
<1>8. CASE TakeFolders(s)
  BY <1>6, <1>8 DEF TakeFolders, GivesUp
<1>9. CASE TakeFoldersBack(s)
  <2> DEFINE members == MissingRecipients(s, 1, folder[s[1]] \cup session[s].members)
  <2>1. /\ \/ Becomes(s, [session[s] EXCEPT !.phase = "recipients", !.members = members])
           \/ Becomes(s, Idle)
        /\ UNCHANGED <<shares, rows, held, asked>>
    BY <1>9 DEF TakeFoldersBack, GivesUp
  <2> QED BY <1>6, <2>1
<1> QED BY <1>4, <1>5, <1>7, <1>8, <1>9

\* Copies: what is sent has a record of its addressee's, who has one when it is
\* taken.
LEMMA CopyPhasesInv ==
    ASSUME IInv, NEW s \in Session, faults' \in 0 .. MaxFaults,
           \/ \E n \in {1, 2} : TakeRecipients(s, n)
           \/ \E c \in session[s].copies : TakeCopy(s, c)
           \/ CopiesDone(s)
    PROVE  IInv'
<1>1. TypeOK'
  BY CopyPhasesTyped DEF IInv
<1>2. /\ session[s] \in SessionState /\ s[1] \in User /\ s[2] \in User
      /\ CarriedBy(s, session[s], shares) /\ TypeOK
  BY SessionUsers, SessionTyped DEF IInv, Carried
<1>3. ASSUME NEW n \in {1, 2}, TakeRecipients(s, n) PROVE IInv'
  <2> DEFINE u == s[n]
             w == s[3 - n]
             notes == session[s].gap[n].notes
             sent == {Copy(u, w, x) : x \in notes}
             st == [session[s] EXCEPT
                       !.phase = IF n = 2 THEN "recipientsBack" ELSE "copies",
                       !.members = IF n = 2 THEN MissingRecipients(s, 2, folder'[u]) ELSE {},
                       !.copies = @ \cup sent]
  <2>1. u \in User /\ w \in User /\ notes \subseteq Note
    BY <1>2 DEF SessionState, Gap
  <2>2. CASE Becomes(s, Idle) /\ UNCHANGED <<tables, created, asked>>
    <3>1. UNCHANGED <<shares, rows, held, asked>>
      BY <2>2 DEF tables
    <3> QED BY <1>1, <2>2, <3>1, CarriesNoMore
  <2>3. CASE Taken(s, n)
    <3>1. PICK own \in Besides(s, u, w, notes) : Keeps(s, n, own)
      BY <2>3 DEF Taken
    <3> DEFINE given == Granted(own, w)
    <3>2. ASSUME NEW x \in Note, given[x] # {} PROVE x \in notes
      <4> HIDE DEF u, w, notes
      <4>1. PICK some \in SUBSET notes : own \in Grants(u, w, some)
        BY <1>2, <2>1, <3>1, BesidesGrants
      <4>2. some \in SUBSET Note
        BY <2>1, <4>1
      <4> QED BY <1>2, <2>1, <3>2, <4>1, <4>2, GrantedOwn
    <3>3. /\ Becomes(s, st) /\ UNCHANGED <<held, asked>>
          /\ shares' = [shares EXCEPT ![u] = [x \in Note |-> @[x] \cup given[x]]]
          /\ rows' = [rows EXCEPT ![u] = [x \in Note |->
                        IF x \in notes THEN rows[u][x] \cup {w} ELSE rows[u][x]]]
      BY <3>1 DEF Keeps
    <3> HIDE DEF given
    <3>4. \A v \in User, x \in Note :
             /\ shares[v][x] \subseteq shares'[v][x]
             /\ shares'[v][x] # {} => shares[v][x] # {} \/ (v = u /\ x \in notes)
             /\ rows'[v][x] # {} => rows[v][x] # {} \/ (v = u /\ x \in notes)
      <4> SUFFICES ASSUME NEW v \in User, NEW x \in Note
                   PROVE  /\ shares[v][x] \subseteq shares'[v][x]
                          /\ shares'[v][x] # {} => shares[v][x] # {} \/ (v = u /\ x \in notes)
                          /\ rows'[v][x] # {} => rows[v][x] # {} \/ (v = u /\ x \in notes)
        OBVIOUS
      <4>1. CASE v = u
        <5>1. /\ shares'[v][x] = shares[v][x] \cup given[x]
              /\ rows'[v][x] = IF x \in notes THEN rows[v][x] \cup {w} ELSE rows[v][x]
          BY <1>2, <2>1, <3>3, <4>1 DEF TypeOK
        <5> QED BY <3>2, <4>1, <5>1
      <4>2. CASE v # u
        <5>1. shares'[v] = shares[v] /\ rows'[v] = rows[v]
          BY <1>2, <2>1, <3>3, <4>2 DEF TypeOK
        <5> QED BY <5>1
      <4> QED BY <4>1, <4>2
    <3>5. \A x \in notes : shares[u][x] # {} /\ For(shares[u][x], w) # {}
      BY <1>2 DEF CarriedBy, For
    <3>6. SharesGrow
      BY <3>4 DEF SharesGrow
    <3>7. \A c \in sent : For(c.shares, c.to) # {}
      <4>1. \A x \in notes : For(shares'[u][x], w) # {}
        BY <2>1, <3>4, <3>5 DEF For
      <4> QED BY <4>1 DEF Copy
    <3>8. /\ st.copies = session[s].copies \cup sent /\ st.gap = session[s].gap
          /\ st.phase \in {"recipientsBack", "copies"}
      BY <1>2 DEF SessionState
    <3> HIDE DEF st, sent
    <3>9. CarriedBy(s, session[s], shares')
      BY <1>2, <3>6, CarriedGrows
    <3>10. CarriedBy(s, st, shares')
      BY <3>7, <3>8, <3>9 DEF CarriedBy, Running, Gathering
    <3>11. Carried'
      BY <3>3, <3>6, <3>10, CarriedStep DEF IInv
    <3>12. StoredHeld'
      BY <2>1, <3>3, <3>4, <3>5 DEF IInv, StoredHeld
    <3>13. OwnKept' /\ AskedHeld'
      BY <1>1, <3>3, <3>6, HoldersGrow DEF IInv, AskedHeld
    <3> QED BY <1>1, <3>11, <3>12, <3>13 DEF IInv
  <2> QED BY <1>2, <1>3, <2>2, <2>3, TakenOrNot
<1>4. ASSUME NEW c \in session[s].copies, TakeCopy(s, c) PROVE IInv'
  <2>1. /\ c.to \in User /\ c.note \in Note
        /\ c.keys \in SUBSET Chain /\ c.shares \in SUBSET Chain /\ c.rows \in SUBSET User
    BY <1>2 DEF SessionState, CopySet
  <2>2. CASE ~Acceptable(c.to, c.note, c)
    <3> DEFINE st == [session[s] EXCEPT !.copies = @ \ {c},
                         !.todo = IF c.to = s[2] /\ @ # {} /\ session[s].gap[2].notes # {}
                                  THEN {} ELSE @]
    <3>1. Becomes(s, st) /\ UNCHANGED <<shares, rows, held, asked>>
      BY <1>4, <2>2 DEF TakeCopy
    <3>2. /\ st.copies \subseteq session[s].copies /\ st.gap = session[s].gap
          /\ st.phase \notin Running \cup {"manifest"}
      BY <1>2, <1>4 DEF SessionState, TakeCopy, At, Running
    <3> HIDE DEF st
    <3> QED BY <1>1, <3>1, <3>2, CarriesNoMore
  <2>3. CASE Acceptable(c.to, c.note, c)
    <3> DEFINE st == [session[s] EXCEPT !.copies = @ \ {c}]
    <3>1. /\ Becomes(s, st) /\ asked' = asked
          /\ held' = [held EXCEPT ![c.to] = @ \cup {c.note}]
          /\ shares' = Saved(shares, c.to, c.note, c.shares)
          /\ rows' = Saved(rows, c.to, c.note, c.rows)
      BY <1>4, <2>3 DEF TakeCopy
    <3>2. For(c.shares, c.to) # {}
      BY <1>2 DEF CarriedBy
    <3>3. SharesGrow /\ c.shares \subseteq shares'[c.to][c.note]
      BY <1>2, <2>1, <3>1, SavedGrows
    <3>4. /\ st.copies \subseteq session[s].copies /\ st.gap = session[s].gap
          /\ st.phase \notin Running \cup {"manifest"}
      BY <1>2, <1>4 DEF SessionState, TakeCopy, At, Running
    <3> HIDE DEF st
    <3>5. CarriedBy(s, st, shares')
      BY <1>2, <3>3, <3>4, CarriedGrows, CarriedSame
    <3>6. Carried'
      BY <3>1, <3>3, <3>5, CarriedStep DEF IInv
    <3>7. /\ \A v \in User : held[v] \subseteq held'[v]
          /\ \A v \in User : \A x \in held'[v] : x \in held[v] \/ (v = c.to /\ x = c.note)
          /\ c.note \in held'[c.to]
      BY <1>2, <2>1, <3>1 DEF TypeOK
    <3>8. \A v \in User, x \in Note : ~(v = c.to /\ x = c.note) =>
             shares'[v][x] = shares[v][x] /\ rows'[v][x] = rows[v][x]
      BY <1>2, <2>1, <3>1 DEF Saved, TypeOK
    <3>9. StoredHeld' /\ AskedHeld'
      BY <3>1, <3>7, <3>8 DEF IInv, StoredHeld, AskedHeld
    <3>10. For(shares'[c.to][c.note], c.to) # {}
      BY <3>2, <3>3 DEF For
    <3>11. OwnKept'
      BY <1>1, <3>3, <3>7, <3>10, HoldersGrow
    <3> QED BY <1>1, <3>6, <3>9, <3>11 DEF IInv
  <2> QED BY <2>2, <2>3
<1>5. CASE CopiesDone(s)
  <2> DEFINE st == [session[s] EXCEPT !.phase = "merging"]
  <2>1. /\ Becomes(s, st) \/ Becomes(s, Idle)
        /\ UNCHANGED <<shares, rows, held, asked>>
    BY <1>5 DEF CopiesDone, GivesUp, tables
  <2>2. /\ st.copies \subseteq session[s].copies /\ st.gap = session[s].gap
        /\ st.phase \notin Running \cup {"manifest"}
    BY <1>2 DEF SessionState, Running
  <2> HIDE DEF st
  <2> QED BY <1>1, <2>1, <2>2, CarriesNoMore
<1> QED BY <1>3, <1>4, <1>5

\* What a merge leaves is about its note; the rest of the session stays.
LEMMA MergingCarries ==
    ASSUME TypeOK, NEW s \in Session, NEW phase \in Phase \ {"manifest"}, NEW m \in MergeSet,
           NEW a \in MergeSet, NEW sh, CarriedBy(s, session[s], sh),
           phase \in Running => m.note \in Note /\ sh[s[1]][m.note] # {},
           phase \in Running \ {"request"} => sh[s[2]][m.note] # {},
           phase \in Gathering => a.note = m.note
    PROVE  CarriedBy(s, Merging(s, phase, m, a), sh)
<1> HIDE DEF Merging
<1> DEFINE st == Merging(s, phase, m, a)
<1>1. /\ st.copies = session[s].copies /\ st.gap = session[s].gap
      /\ st.phase = phase /\ st.merge = m /\ st.answer = a
  BY MergingTyped
<1> HIDE DEF st
<1>2. CarriedBy(s, st, sh)
  BY <1>1 DEF CarriedBy
<1> QED BY <1>2 DEF st

\* Merges: both ends have records of the note from the answer to the request on.
LEMMA MergeStepCarries ==
    ASSUME IInv, TypeOK', NEW s \in Session, MergeStep(s), SharesGrow
    PROVE  \E st : Becomes(s, st) /\ CarriedBy(s, st, shares')
<1> USE DEF At
<1> DEFINE m == session[s].merge
           a == session[s].answer
<1>1. /\ TypeOK /\ MergeNoted /\ m \in MergeSet /\ a \in MergeSet /\ NoMerge \in MergeSet
      /\ CarriedBy(s, session[s], shares) /\ s[1] \in User /\ s[2] \in User
      /\ session[s] \in SessionState
  BY InvTyped, MergeFields, IdleTyped, SessionUsers DEF IInv, Carried
<1>2. CarriedBy(s, session[s], shares')
  BY <1>1, CarriedGrows
<1>3. /\ session[s].phase \in Running /\ m.note \in Note /\ shares'[s[1]][m.note] # {}
      /\ session[s].phase # "request" => shares'[s[2]][m.note] # {}
      /\ session[s].phase \in Gathering => a.note = m.note
  <2>1. session[s].phase \in Running
    BY DEF MergeStep, Running, AnswerRequest, AnswerUpdates, MergeKeys,
           CompareClocks, InsertClocks, MergeShares, AcceptClocks, AcceptShares, AcceptKeys
  <2> QED BY <1>2, <2>1 DEF CarriedBy, Gathering
<1>4. ASSUME NEW phase \in Phase \ {"manifest"}, NEW one \in MergeSet, NEW two \in MergeSet,
             Becomes(s, Merging(s, phase, one, two)),
             phase \in Running => one.note = m.note /\ shares'[s[2]][m.note] # {},
             phase \in Gathering => two.note = m.note
      PROVE  \E st : Becomes(s, st) /\ CarriedBy(s, st, shares')
  <2> HIDE DEF m, a
  <2>1. /\ phase \in Running => one.note \in Note /\ shares'[s[1]][one.note] # {}
        /\ phase \in Running \ {"request"} => shares'[s[2]][one.note] # {}
        /\ phase \in Gathering => two.note = one.note
    BY <1>3, <1>4 DEF Gathering, Running
  <2>2. CarriedBy(s, Merging(s, phase, one, two), shares')
    BY <1>1, <1>2, <2>1, MergingCarries
  <2> QED BY <1>4, <2>2
<1>5. {"updates", "final", "finalClocks", "finalInsert", "finalShares", "response",
       "responseShares", "responseKeys", "merging"} \subseteq Phase \ {"manifest"}
  BY DEF Phase
<1>6. \A n \in {1, 2} : shares[s[n]][m.note] \in SUBSET Chain
                        /\ keys[s[n]][m.note] \in SUBSET Chain
                        /\ rows[s[n]][m.note] \in SUBSET User
  BY <1>1, <1>3 DEF TypeOK
<1>7. m.keys \in SUBSET Chain /\ m.shares \in SUBSET Chain /\ m.rows \in SUBSET User
  BY <1>1, MergeFields
<1>8. CASE AnswerRequest(s)
  <2>1. PICK own \in OwnRecords(s[2], m.note) :
           Becomes(s, Merging(s, "updates", [m EXCEPT !.shares = {own}], a))
    BY <1>1, <1>8, MergeSteps
  <2> DEFINE one == [m EXCEPT !.shares = {own}]
  <2>2. own \in shares[s[2]][m.note] /\ own \in Chain
    BY <1>6, <2>1, ForSome DEF OwnRecords
  <2>3. one \in MergeSet /\ one.note = m.note
    BY <1>1, <2>2 DEF MergeSet
  <2>4. shares'[s[2]][m.note] # {}
    BY <1>1, <1>3, <2>2 DEF SharesGrow
  <2> HIDE DEF one, a
  <2>5. Becomes(s, Merging(s, "updates", one, a))
    BY <2>1 DEF one
  <2>6. "updates" \notin Gathering
    BY DEF Gathering
  <2> QED BY <1>1, <1>4, <1>5, <2>3, <2>4, <2>5, <2>6
<1>9. CASE AnswerUpdates(s)
  <2> DEFINE one == [note |-> m.note, keys |-> keys[s[1]][m.note],
                     shares |-> shares[s[1]][m.note], rows |-> rows[s[1]][m.note]]
  <2>1. Becomes(s, Merging(s, "final", one, a))
    BY <1>1, <1>9, MergeSteps
  <2>2. one \in MergeSet /\ one.note = m.note
    BY <1>3, <1>6 DEF MergeSet
  <2>3. "final" \notin Gathering /\ session[s].phase # "request"
    BY <1>9 DEF Gathering, AnswerUpdates
  <2> HIDE DEF one, a
  <2> QED BY <1>1, <1>3, <1>4, <1>5, <2>1, <2>2, <2>3
<1>10. CASE MergeKeys(s)
  <2> DEFINE two == [NoMerge EXCEPT !.note = m.note, !.keys = keys[s[2]][m.note] \ m.keys]
  <2>1. Becomes(s, Merging(s, "finalClocks", m, two))
    BY <1>1, <1>10, MergeSteps
  <2>2. keys[s[2]][m.note] \ m.keys \in SUBSET Chain
    BY <1>6
  <2>3. two \in MergeSet /\ two.note = m.note
    BY <1>3, <2>2 DEF MergeSet, NoMerge
  <2>4. session[s].phase # "request"
    BY <1>10 DEF MergeKeys
  <2> HIDE DEF two, m
  <2> QED BY <1>1, <1>3, <1>4, <1>5, <2>1, <2>3, <2>4
<1>11. CASE CompareClocks(s)
  <2> DEFINE one == [m EXCEPT !.rows = @ \ rows[s[2]][m.note]]
             two == [a EXCEPT !.rows = rows[s[2]][m.note] \ m.rows]
  <2>1. Becomes(s, Merging(s, "finalInsert", one, two))
    BY <1>1, <1>11, MergeSteps
  <2>2. m.rows \ rows[s[2]][m.note] \in SUBSET User
        /\ rows[s[2]][m.note] \ m.rows \in SUBSET User
    BY <1>6, <1>7
  <2>3. one \in MergeSet /\ one.note = m.note /\ two \in MergeSet /\ two.note = a.note
    BY <1>1, <2>2 DEF MergeSet
  <2>4. session[s].phase # "request" /\ session[s].phase \in Gathering
    BY <1>11 DEF CompareClocks, Gathering
  <2> HIDE DEF one, two, m, a
  <2> QED BY <1>1, <1>3, <1>4, <1>5, <2>1, <2>3, <2>4
<1>12. CASE MergeShares(s)
  <2> DEFINE one == [a EXCEPT !.shares = shares[s[2]][m.note] \ m.shares]
  <2>1. Becomes(s, Merging(s, "response", one, NoMerge))
    BY <1>1, <1>12, MergeSteps
  <2>2. shares[s[2]][m.note] \ m.shares \in SUBSET Chain
    BY <1>6
  <2>3. one \in MergeSet /\ one.note = a.note
    BY <1>1, <2>2 DEF MergeSet
  <2>4. /\ session[s].phase # "request" /\ session[s].phase \in Gathering
        /\ "response" \notin Gathering
    BY <1>12 DEF MergeShares, Gathering
  <2> HIDE DEF one, m, a
  <2> QED BY <1>1, <1>3, <1>4, <1>5, <2>1, <2>3, <2>4
<1>13. CASE InsertClocks(s)
  <2>1. Becomes(s, Merging(s, "finalShares", m, a))
    BY <1>1, <1>13, MergeSteps
  <2>2. session[s].phase # "request" /\ session[s].phase \in Gathering
    BY <1>13 DEF InsertClocks, Gathering
  <2> HIDE DEF m, a
  <2> QED BY <1>1, <1>3, <1>4, <1>5, <2>1, <2>2
<1>14. CASE AcceptClocks(s) \/ AcceptShares(s)
  <2>1. \E phase \in {"responseShares", "responseKeys"} : Becomes(s, Merging(s, phase, m, a))
    BY <1>1, <1>14, MergeSteps
  <2>2. session[s].phase # "request"
    BY <1>14 DEF AcceptClocks, AcceptShares
  <2>3. \A phase \in {"responseShares", "responseKeys"} : phase \notin Gathering
    BY DEF Gathering
  <2> HIDE DEF m, a
  <2> QED BY <1>1, <1>3, <1>4, <1>5, <2>1, <2>2, <2>3
<1>15. CASE AcceptKeys(s)
  <2>1. Becomes(s, Merging(s, "merging", NoMerge, a))
    BY <1>1, <1>15, MergeSteps
  <2>2. "merging" \notin Running /\ "merging" \notin Gathering
    BY DEF Running, Gathering
  <2> HIDE DEF m, a
  <2> QED BY <1>1, <1>4, <1>5, <2>1, <2>2
<1> QED BY <1>8, <1>9, <1>10, <1>11, <1>12, <1>13, <1>14, <1>15 DEF MergeStep

\* What a merge's handlers write is about its note.
LEMMA MergeStepTables ==
    ASSUME IInv, NEW s \in Session, MergeStep(s)
    PROVE  LET m == session[s].merge
           IN  /\ m.note \in Note /\ SharesGrow
               /\ UNCHANGED <<known, folder, held, placed, created, asked>>
               /\ \A v \in User, x \in Note :
                     /\ keys'[v][x] # keys[v][x] \/ shares'[v][x] # shares[v][x]
                           \/ rows'[v][x] # rows[v][x] =>
                        x = m.note /\ shares[v][x] # {}
                     /\ keys[v][x] \subseteq keys'[v][x]
<1> USE DEF At
<1> DEFINE m == session[s].merge
<1>1. /\ TypeOK /\ CarriedBy(s, session[s], shares) /\ s[1] \in User /\ s[2] \in User
      /\ m.shares \in SUBSET Chain
  BY MergeFields, SessionUsers DEF IInv, Carried
<1>2. session[s].phase \in Running
  BY DEF MergeStep, Running, AnswerRequest, AnswerUpdates, MergeKeys,
         CompareClocks, InsertClocks, MergeShares, AcceptClocks, AcceptShares, AcceptKeys
<1>3. m.note \in Note /\ shares[s[1]][m.note] # {}
  BY <1>1, <1>2 DEF CarriedBy
<1>4. UNCHANGED <<known, folder, held, placed, created, asked>>
  BY DEF MergeStep, AnswerRequest, AnswerUpdates, MergeKeys, CompareClocks,
         InsertClocks, MergeShares, AcceptClocks, AcceptShares, AcceptKeys, tables
<1>5. \E n \in {1, 2} :
         /\ shares[s[n]][m.note] # {}
         /\ keys' = keys \/ keys' = Saved(keys, s[n], m.note, m.keys)
         /\ shares' = shares \/ shares' = Saved(shares, s[n], m.note, m.shares)
         /\ rows' = rows \/ rows' = Saved(rows, s[n], m.note, m.rows)
  <2>1. CASE AnswerRequest(s) \/ AnswerUpdates(s) \/ CompareClocks(s)
    BY <1>3, <2>1 DEF AnswerRequest, AnswerUpdates, CompareClocks, tables
  <2>2. CASE MergeKeys(s) \/ InsertClocks(s) \/ MergeShares(s)
    <3>1. shares[s[2]][m.note] # {}
      BY <1>1, <2>2 DEF CarriedBy, Running, MergeKeys, InsertClocks, MergeShares
    <3> QED BY <2>2, <3>1 DEF MergeKeys, InsertClocks, MergeShares
  <2>3. CASE AcceptClocks(s) \/ AcceptShares(s) \/ AcceptKeys(s)
    BY <1>3, <2>3 DEF AcceptClocks, AcceptShares, AcceptKeys
  <2> QED BY <2>1, <2>2, <2>3 DEF MergeStep
<1>6. PICK n \in {1, 2} :
         /\ shares[s[n]][m.note] # {}
         /\ keys' = keys \/ keys' = Saved(keys, s[n], m.note, m.keys)
         /\ shares' = shares \/ shares' = Saved(shares, s[n], m.note, m.shares)
         /\ rows' = rows \/ rows' = Saved(rows, s[n], m.note, m.rows)
  BY <1>5
<1>7. s[n] \in User
  BY <1>1
<1> HIDE DEF m
<1>8. ASSUME NEW v \in User, NEW x \in Note
      PROVE  /\ keys'[v][x] # keys[v][x] \/ shares'[v][x] # shares[v][x]
                    \/ rows'[v][x] # rows[v][x] =>
                 x = m.note /\ shares[v][x] # {}
             /\ keys[v][x] \subseteq keys'[v][x] /\ shares[v][x] \subseteq shares'[v][x]
  <2>1. CASE v = s[n] /\ x = m.note
    <3>1. /\ Saved(keys, s[n], m.note, m.keys)[v][x] = keys[v][x] \cup m.keys
          /\ Saved(shares, s[n], m.note, m.shares)[v][x] = shares[v][x] \cup m.shares
      BY <1>1, <1>3, <1>7, <2>1, SavedAt
    <3>2. keys[v][x] \subseteq keys'[v][x] /\ shares[v][x] \subseteq shares'[v][x]
      BY <1>6, <3>1
    <3> QED BY <1>6, <2>1, <3>2
  <2>2. CASE ~(v = s[n] /\ x = m.note)
    <3>1. /\ Saved(keys, s[n], m.note, m.keys)[v][x] = keys[v][x]
          /\ Saved(shares, s[n], m.note, m.shares)[v][x] = shares[v][x]
          /\ Saved(rows, s[n], m.note, m.rows)[v][x] = rows[v][x]
      BY <1>1, <1>3, <1>7, <2>2, SavedAt
    <3> QED BY <1>6, <3>1
  <2> QED BY <2>1, <2>2
<1> QED BY <1>3, <1>4, <1>8 DEF SharesGrow, m

\* The merges keep the invariant.
LEMMA MergePhasesInv ==
    ASSUME IInv, NEW s \in Session, faults' \in 0 .. MaxFaults,
           \/ \E x \in session[s].todo : RequestUpdates(s, x)
           \/ MergeStep(s) \/ Refused(s) \/ SyncDone(s)
    PROVE  IInv'
<1>1. TypeOK' /\ TypeOK
  BY InvTyped, MergePhasesTyped DEF IInv
<1>2. /\ session[s] \in SessionState /\ s[1] \in User /\ s[2] \in User
      /\ CarriedBy(s, session[s], shares)
  BY SessionUsers, SessionTyped DEF IInv, Carried
<1>3. ASSUME NEW x \in session[s].todo, RequestUpdates(s, x) PROVE IInv'
  <2>1. x \in Note
    BY <1>2 DEF SessionState
  <2>2. PICK own \in OwnRecords(s[1], x) :
           Becomes(s, [session[s] EXCEPT !.phase = "request", !.todo = @ \ {x},
                           !.merge = [NoMerge EXCEPT !.note = x, !.shares = {own}]])
    BY <1>3 DEF RequestUpdates
  <2> DEFINE st == [session[s] EXCEPT !.phase = "request", !.todo = @ \ {x},
                       !.merge = [NoMerge EXCEPT !.note = x, !.shares = {own}]]
  <2>3. /\ st.phase = "request" /\ st.merge.note = x
        /\ st.copies = session[s].copies /\ st.gap = session[s].gap
    BY <1>2 DEF SessionState, NoMerge
  <2>4. shares[s[1]][x] # {}
    BY <2>2 DEF OwnRecords, For
  <2>5. UNCHANGED <<shares, rows, held, asked>>
    BY <1>3 DEF RequestUpdates, tables
  <2>6. Becomes(s, st)
    BY <2>2
  <2> HIDE DEF st
  <2>7. CarriedBy(s, st, shares)
    BY <1>2, <2>1, <2>3, <2>4 DEF CarriedBy, Running, Gathering
  <2> QED BY <1>1, <2>5, <2>6, <2>7, RecordsSame
<1>4. CASE MergeStep(s)
  <2>1. /\ SharesGrow /\ UNCHANGED <<held, asked>>
        /\ \A v \in User, x \in Note :
              shares'[v][x] # shares[v][x] \/ rows'[v][x] # rows[v][x] => shares[v][x] # {}
    BY <1>4, MergeStepTables
  <2>2. PICK st : Becomes(s, st) /\ CarriedBy(s, st, shares')
    BY <1>1, <1>4, <2>1, MergeStepCarries
  <2>3. Carried'
    BY <1>1, <2>1, <2>2, CarriedStep DEF IInv
  <2>4. StoredHeld' /\ AskedHeld'
    BY <2>1 DEF IInv, StoredHeld, AskedHeld
  <2>5. OwnKept'
    BY <1>1, <2>1, HoldersGrow
  <2> QED BY <1>1, <2>3, <2>4, <2>5 DEF IInv
<1>5. CASE Refused(s) \/ SyncDone(s)
  <2> DEFINE todo == IF At(s, "merging") THEN {} ELSE session[s].todo
             st == [session[s] EXCEPT !.phase = "merging", !.merge = NoMerge,
                                      !.answer = NoMerge, !.todo = todo]
  <2>1. /\ Becomes(s, st) \/ Becomes(s, Idle)
        /\ UNCHANGED <<shares, rows, held, asked>>
    BY <1>5 DEF Refused, SyncDone, GivesUp, tables
  <2>2. /\ st.copies \subseteq session[s].copies /\ st.gap = session[s].gap
        /\ st.phase \notin Running \cup {"manifest"}
    BY <1>2 DEF SessionState, Running
  <2> HIDE DEF st
  <2> QED BY <1>1, <2>1, <2>2, CarriesNoMore
<1> QED BY <1>3, <1>4, <1>5

\* So does the end of the program at one.
LEMMA StopsInv ==
    ASSUME IInv, NEW u \in User, Stops(u), faults' \in 0 .. MaxFaults
    PROVE  /\ IInv' /\ UNCHANGED tables
           /\ \A t \in Session : session'[t] = session[t] \/ session'[t] = Idle
           /\ \A v \in User : asked'[v] = asked[v] \/ asked'[v] = NothingAsked
           /\ \A v \in User : created'[v] \subseteq created[v]
<1>1. /\ UNCHANGED <<known, folder, held, placed, keys, shares, rows>>
      /\ session' = [t \in Session |-> IF u \in {t[1], t[2]} THEN Idle ELSE session[t]]
      /\ created' = [created EXCEPT ![u] = {}]
      /\ asked' = [asked EXCEPT ![u] = NothingAsked]
  BY DEF Stops, tables
<1>2. NothingAsked \in Asked
  BY DEF NothingAsked, Asked
<1>3. TypeOK'
  BY <1>1, <1>2, IdleTyped DEF IInv, TypeOK
<1>4. /\ \A t \in Session : session'[t] = session[t] \/ session'[t] = Idle
      /\ \A v \in User : asked'[v] = asked[v] \/ asked'[v] = NothingAsked
      /\ \A v \in User : created'[v] \subseteq created[v]
  BY <1>1 DEF IInv, TypeOK
<1>5. SharesGrow
  BY <1>1 DEF SharesGrow
<1>6. Carried'
  BY <1>4, <1>5, CarriedKept DEF IInv
<1>7. OwnKept' /\ StoredHeld' /\ AskedHeld'
  BY <1>1, <1>4 DEF IInv, OwnKept, OwnRecords, StoredHeld, AskedHeld, NothingAsked
<1> QED BY <1>1, <1>3, <1>4, <1>6, <1>7 DEF IInv, tables

----------------------------------------------------------------------------
(* The theorems.                                                           *)

\* At the start nobody has anything, and no session is open.
LEMMA InitInv == Init => IInv
<1> SUFFICES ASSUME Init PROVE IInv
  OBVIOUS
<1>1. TypeOK
  <2>1. NothingAsked \in Asked
    BY DEF NothingAsked, Asked
  <2> QED BY <2>1, IdleTyped, SessionAssumption, FaultsAssumption DEF Init, TypeOK
<1>2. Carried
  BY CarriedIdle DEF Init, Carried
<1>3. OwnKept /\ StoredHeld /\ AskedHeld
  BY DEF Init, OwnKept, StoredHeld, AskedHeld, NothingAsked
<1> QED BY <1>1, <1>2, <1>3 DEF IInv

\* A step is one of a user, of a session, or the end of a program.
LEMMA NextSteps ==
    ASSUME TypeOK, [Next]_vars
    PROVE  /\ faults' \in 0 .. MaxFaults /\ (faults' = 0 => faults = 0)
           /\ \/ \E u \in User : UserActs(u) /\ Alongside({u}, {})
              \/ \E s \in Session : Connect(s) /\ Alongside({s[1], s[2]}, {})
              \/ \E s \in Session : Step(s) /\ Alongside({s[1], s[2]}, {s})
              \/ \E u \in User : Stops(u) /\ faults' # 0
              \/ UNCHANGED vars
<1>1. ASSUME NEW u \in User, Stops(u)
      PROVE  faults' \in 0 .. MaxFaults /\ faults' # 0
  BY <1>1, FaultsAssumption DEF Stops, TypeOK
<1>2. UNCHANGED vars => faults' = faults
  BY DEF vars
<1> QED BY <1>1, <1>2, FaultsCounted DEF Next, TypeOK

\* Nothing that users and sessions do breaks the invariant.
LEMMA NextInv == IInv /\ [Next]_vars => IInv'
<1> SUFFICES ASSUME IInv, [Next]_vars PROVE IInv'
  OBVIOUS
<1>1. TypeOK /\ faults' \in 0 .. MaxFaults
  BY NextSteps DEF IInv
<1>2. ASSUME NEW u \in User, UserActs(u) PROVE IInv'
  BY <1>1, <1>2, UserInv
<1>3. ASSUME NEW s \in Session, Connect(s) \/ Step(s) PROVE IInv'
  BY <1>1, <1>3, FirstPhasesInv, CopyPhasesInv, MergePhasesInv DEF Step, MergeStep
<1>4. ASSUME NEW u \in User, Stops(u) PROVE IInv'
  BY <1>1, <1>4, StopsInv
<1>5. CASE UNCHANGED vars
  <2>1. UNCHANGED <<known, folder, held, placed, keys, shares, rows, created, asked, session,
                    faults>>
    BY <1>5 DEF vars
  <2>2. TypeOK' /\ OwnKept' /\ StoredHeld' /\ AskedHeld'
    BY <2>1 DEF IInv, TypeOK, OwnKept, OwnRecords, StoredHeld, AskedHeld
  <2>3. SharesGrow
    BY <2>1 DEF SharesGrow
  <2>4. Carried'
    BY <2>1, <2>3, CarriedKept DEF IInv
  <2> QED BY <2>2, <2>4 DEF IInv
<1> QED BY <1>1, <1>2, <1>3, <1>4, <1>5, NextSteps

LEMMA Invariant == Spec => []IInv
BY InitInv, NextInv, PTL DEF Spec

\* What the users and their sessions keep is typed: users, notes, and
\* chains of users as records, for every number of them.
THEOREM TypeCorrect == Spec => []TypeOK
<1>1. IInv => TypeOK
  BY DEF IInv
<1> QED BY <1>1, Invariant, PTL

----------------------------------------------------------------------------
(* Chains and their beginnings.                                            *)

\* Every record of P but itself has its beginnings in Q.
HangsOn(P, Q) == \A p \in P : \A k \in 1 .. Len(p) - 1 : SubSeq(p, 1, k) \in Q

LEMMA ChainLength ==
    ASSUME NEW p \in Chain
    PROVE  /\ p \in Seq(User) /\ Len(p) \in Nat /\ 1 <= Len(p)
           /\ \A k \in 1 .. Len(p) : p[k] \in User
BY EmptySeq, LenProperties DEF Chain

LEMMA Beginning ==
    ASSUME NEW p \in Chain, NEW k \in 1 .. Len(p)
    PROVE  /\ SubSeq(p, 1, k) \in Chain /\ Len(SubSeq(p, 1, k)) = k
           /\ Recipient(SubSeq(p, 1, k)) = p[k] /\ SubSeq(p, 1, k)[1] = p[1]
           /\ \A j \in 1 .. k : SubSeq(SubSeq(p, 1, k), 1, j) = SubSeq(p, 1, j)
<1>1. /\ p \in Seq(User) /\ Len(p) \in Nat /\ 1 <= k /\ k <= Len(p) /\ k \in Int
      /\ \A i \in 1 .. Len(p) : p[i] \in User
  BY ChainLength
<1>2. \A i \in 1 .. k : p[i] \in User
  BY <1>1
<1>3. /\ SubSeq(p, 1, k) \in Seq(User) /\ Len(SubSeq(p, 1, k)) = k
      /\ \A i \in 1 .. k : SubSeq(p, 1, k)[i] = p[i]
  <2>1. /\ SubSeq(p, 1, k) \in Seq(User)
        /\ Len(SubSeq(p, 1, k)) = IF 1 <= k THEN k - 1 + 1 ELSE 0
        /\ \A i \in 1 .. k - 1 + 1 : SubSeq(p, 1, k)[i] = p[1 + i - 1]
    BY <1>1, <1>2, SubSeqProperties
  <2>2. k - 1 + 1 = k /\ \A i \in 1 .. k : 1 + i - 1 = i
    BY <1>1
  <2> QED BY <1>1, <2>1, <2>2
<1>4. SubSeq(p, 1, k) \in Chain
  BY <1>1, <1>3, EmptySeq DEF Chain
<1>5. Recipient(SubSeq(p, 1, k)) = p[k] /\ SubSeq(p, 1, k)[1] = p[1]
  BY <1>1, <1>3 DEF Recipient
<1>6. ASSUME NEW j \in 1 .. k
      PROVE  SubSeq(SubSeq(p, 1, k), 1, j) = SubSeq(p, 1, j)
  <2>1. /\ 1 \in 1 .. Len(p) /\ 1 \in 1 .. k - 1 + 1 /\ j \in 1 .. k - 1 + 1
        /\ 1 + 1 - 1 = 1 /\ 1 + j - 1 = j
    BY <1>1
  <2>2. SubSeq(SubSeq(p, 1, k), 1, j) = SubSeq(p, 1 + 1 - 1, 1 + j - 1)
    BY <1>1, <2>1, SubSeqOfSubSeq
  <2> QED BY <2>1, <2>2
<1> QED BY <1>3, <1>4, <1>5, <1>6

LEMMA WholeChain ==
    ASSUME NEW p \in Chain
    PROVE  SubSeq(p, 1, Len(p)) = p
BY SubSeqFull, ChainLength

LEMMA ClosedHangs ==
    ASSUME NEW P, P \subseteq Chain
    PROVE  Closed(P) <=> HangsOn(P, P)
<1>1. \A p \in P : Len(p) \in Nat /\ SubSeq(p, 1, Len(p)) = p
  BY WholeChain, ChainLength
<1>2. \A n \in Nat : \A k \in 1 .. n : k = n \/ k \in 1 .. n - 1
  OBVIOUS
<1>3. \A n \in Nat : \A k \in 1 .. n - 1 : k \in 1 .. n
  OBVIOUS
<1> QED BY <1>1, <1>2, <1>3 DEF Closed, HangsOn

\* A delegated record hangs on the records of the one it was made from.
LEMMA DelegatedParts ==
    ASSUME NEW own \in Chain, NEW w \in User
    PROVE  LET p == Delegated(own, w)
           IN  /\ p \in Chain /\ Len(p) = Len(own) + 1 /\ Recipient(p) = w
               /\ Sharer(p) = Recipient(own) /\ p[1] = own[1]
               /\ \A k \in 1 .. Len(own) : SubSeq(p, 1, k) = SubSeq(own, 1, k)
<1> DEFINE p == Delegated(own, w)
<1>1. /\ own \in Seq(User) /\ Len(own) \in Nat /\ 1 <= Len(own)
      /\ \A i \in 1 .. Len(own) : own[i] \in User
  BY ChainLength
<1>2. /\ p \in Chain /\ Len(p) = Len(own) + 1 /\ p[Len(own) + 1] = w
      /\ \A i \in 1 .. Len(own) : p[i] = own[i]
  BY <1>1, DelegatedChain, AppendProperties DEF Delegated
<1> HIDE DEF p
<1>3. Recipient(p) = w /\ Sharer(p) = Recipient(own) /\ p[1] = own[1]
  BY <1>1, <1>2 DEF Recipient, Sharer
<1>4. ASSUME NEW k \in 1 .. Len(own)
      PROVE  SubSeq(p, 1, k) = SubSeq(own, 1, k)
  <2>1. k \in 1 .. Len(p) /\ k \in Int /\ 1 <= k
    BY <1>1, <1>2
  <2>2. \A i \in 1 .. k : i \in 1 .. Len(own) /\ i \in 1 .. Len(p) /\ 1 + i - 1 = i
    BY <1>1, <1>2
  <2>3. /\ SubSeq(p, 1, k) \in Seq(User) /\ Len(SubSeq(p, 1, k)) = k
        /\ SubSeq(own, 1, k) \in Seq(User) /\ Len(SubSeq(own, 1, k)) = k
    BY <1>2, <2>1, Beginning DEF Chain
  <2>4. \A i \in 1 .. k - 1 + 1 : /\ SubSeq(p, 1, k)[i] = p[1 + i - 1]
                                 /\ SubSeq(own, 1, k)[i] = own[1 + i - 1]
    <3>1. (\A i \in 1 .. k : p[i] \in User) /\ (\A i \in 1 .. k : own[i] \in User)
      BY <1>1, <1>2, <2>2
    <3> QED BY <2>1, <3>1, SubSeqProperties
  <2>5. \A i \in 1 .. k : SubSeq(p, 1, k)[i] = SubSeq(own, 1, k)[i]
    <3>1. k - 1 + 1 = k
      BY <2>1
    <3> QED BY <1>2, <2>2, <2>4, <3>1
  <2> QED BY <2>3, <2>5, SeqEqual
<1> QED BY <1>2, <1>3, <1>4 DEF p

\* A record that was passed on is its sharer's, passed on.
LEMMA PassedOn ==
    ASSUME NEW p \in Chain, Len(p) # 1
    PROVE  /\ Len(p) - 1 \in 1 .. Len(p)
           /\ Recipient(SubSeq(p, 1, Len(p) - 1)) = Sharer(p)
           /\ p = Delegated(SubSeq(p, 1, Len(p) - 1), Recipient(p))
<1> DEFINE n == Len(p) - 1
           q == SubSeq(p, 1, n)
           d == Delegated(q, Recipient(p))
<1>1. p \in Seq(User) /\ Len(p) \in Nat /\ 1 <= Len(p) /\ \A k \in 1 .. Len(p) : p[k] \in User
  BY ChainLength
<1>2. n \in 1 .. Len(p) /\ n \in Nat /\ n + 1 = Len(p)
  <2>1. \A m \in Nat : 1 <= m /\ m # 1 =>
           m - 1 \in 1 .. m /\ m - 1 \in Nat /\ m - 1 + 1 = m
    OBVIOUS
  <2> QED BY <1>1, <2>1
<1>3. q \in Chain /\ Len(q) = n /\ Recipient(q) = p[n] /\ Recipient(p) \in User
  BY <1>2, Beginning, ChainUsers
<1>4. \A i \in 1 .. n : q[i] = p[i]
  <2>1. \A i \in 1 .. n : p[i] \in User /\ 1 + i - 1 = i
    BY <1>1, <1>2
  <2>2. \A i \in 1 .. n - 1 + 1 : q[i] = p[1 + i - 1]
    BY <1>2, <2>1, SubSeqProperties
  <2>3. n - 1 + 1 = n
    BY <1>2
  <2> QED BY <2>1, <2>2, <2>3
<1>5. /\ d \in Seq(User) /\ Len(d) = n + 1 /\ d[n + 1] = Recipient(p)
      /\ \A i \in 1 .. n : d[i] = q[i]
  BY <1>3, AppendProperties DEF Delegated, Chain
<1> HIDE DEF q, d
<1>6. \A i \in 1 .. Len(p) : d[i] = p[i]
  <2>1. \A i \in 1 .. Len(p) : i \in 1 .. n \/ i = n + 1
    <3>1. \A m \in Nat : \A i \in 1 .. m + 1 : i \in 1 .. m \/ i = m + 1
      OBVIOUS
    <3> HIDE DEF n
    <3> QED BY <1>2, <3>1
  <2>2. d[n + 1] = p[n + 1]
    BY <1>2, <1>5 DEF Recipient
  <2> QED BY <1>4, <1>5, <2>1, <2>2
<1>7. d = p
  BY <1>1, <1>2, <1>5, <1>6, SeqEqual
<1>8. Sharer(p) = p[n]
  BY DEF Sharer
<1> QED BY <1>2, <1>3, <1>7, <1>8 DEF q, d

----------------------------------------------------------------------------
(* What a session carries, given the records of everyone: a copy has all   *)
(* proofs of its records, the last message of a merge all that the one who *)
(* takes it lacks; a merge is about a note that each has for the other,    *)
(* and its first messages carry a record of the sender's own.              *)

AllOf(x, sh) == UNION {sh[u][x] : u \in User}

\* Each end has a record of the note for the other one.
EachForOther(s, x, sh) == For(sh[s[1]][x], s[2]) # {} /\ For(sh[s[2]][x], s[1]) # {}

Finals == {"final"} \cup Gathering
Responses == {"response", "responseShares", "responseKeys"}

HungBy(s, st, sh) ==
    LET m == st.merge
    IN  /\ \A c \in st.copies :
              HangsOn(c.shares, c.shares) /\ c.shares \subseteq AllOf(c.note, sh)
        /\ \A x \in st.todo : EachForOther(s, x, sh)
        /\ st.phase \in {"request", "updates"} => EachForOther(s, m.note, sh)
        /\ st.phase = "request" => m.shares \subseteq For(sh[s[1]][m.note], s[1])
        /\ st.phase = "updates" => m.shares \subseteq For(sh[s[2]][m.note], s[2])
        /\ st.phase \in Finals =>
              HangsOn(m.shares, m.shares) /\ m.shares \subseteq sh[s[1]][m.note]
        /\ st.phase \in Responses =>
              /\ HangsOn(m.shares, m.shares \cup sh[s[1]][m.note])
              /\ m.shares \subseteq AllOf(m.note, sh)

LEMMA RunningPhases == Running = {"request", "updates"} \cup Finals \cup Responses
BY DEF Running, Finals, Gathering, Responses

Messages == \A s \in Session : HungBy(s, session[s], shares)

Hanging == \A u \in User, x \in Note :
              /\ HangsOn(shares[u][x], shares[u][x])
              /\ HangsOn(asked[u].given[x], shares[u][x])

\* Only a note's creator shares it with the folder's recipients unasked, and
\* only the folder's notes are shared with it.
Placed == \A u \in User : /\ \A x \in created[u] : Creator[x] = u
                          /\ placed[u] \subseteq Foldered

KInv == IInv /\ Placed /\ Hanging /\ Messages

LEMMA HangsMore ==
    ASSUME NEW P, NEW Q, NEW R, HangsOn(P, Q), Q \subseteq R
    PROVE  HangsOn(P, R)
BY DEF HangsOn

LEMMA HangsUnion ==
    ASSUME NEW P, NEW Q, NEW R, HangsOn(P, R), HangsOn(Q, R)
    PROVE  HangsOn(P \cup Q, R)
BY DEF HangsOn

\* A message may be carried on while the records grow.
LEMMA AllGrows ==
    ASSUME SharesGrow, NEW x \in Note
    PROVE  AllOf(x, shares) \subseteq AllOf(x, shares')
BY DEF SharesGrow, AllOf

LEMMA OneOfAll ==
    ASSUME NEW u \in User, NEW x PROVE shares[u][x] \subseteq AllOf(x, shares)
BY DEF AllOf

LEMMA HungGrows ==
    ASSUME SharesGrow, NEW s \in Session, NEW st \in SessionState, HungBy(s, st, shares),
           st.phase \in Running => st.merge.note \in Note
    PROVE  HungBy(s, st, shares')
<1> DEFINE m == st.merge
<1>1. s[1] \in User /\ s[2] \in User
  BY SessionUsers
<1>2. \A x \in Note : EachForOther(s, x, shares) => EachForOther(s, x, shares')
  BY <1>1 DEF EachForOther, SharesGrow, For
<1>3. \A x \in Note, u \in User : For(shares[u][x], u) \subseteq For(shares'[u][x], u)
  BY DEF SharesGrow, For
<1>4. \A c \in st.copies : c.note \in Note
  BY DEF SessionState, CopySet
<1>5. \A c \in st.copies :
         HangsOn(c.shares, c.shares) /\ c.shares \subseteq AllOf(c.note, shares')
  BY <1>4, AllGrows DEF HungBy
<1>6. \A x \in st.todo : EachForOther(s, x, shares')
  BY <1>2 DEF HungBy, SessionState
<1>7. ASSUME m.note \in Note
      PROVE  /\ shares[s[1]][m.note] \subseteq shares'[s[1]][m.note]
             /\ AllOf(m.note, shares) \subseteq AllOf(m.note, shares')
             /\ For(shares[s[1]][m.note], s[1]) \subseteq For(shares'[s[1]][m.note], s[1])
             /\ For(shares[s[2]][m.note], s[2]) \subseteq For(shares'[s[2]][m.note], s[2])
             /\ EachForOther(s, m.note, shares) => EachForOther(s, m.note, shares')
  BY <1>1, <1>2, <1>3, <1>7, AllGrows DEF SharesGrow
<1>8. st.phase \in {"request", "updates"} \cup Finals \cup Responses => m.note \in Note
  BY RunningPhases
<1>9. st.phase \in {"request", "updates"} =>
         /\ EachForOther(s, m.note, shares')
         /\ st.phase = "request" => m.shares \subseteq For(shares'[s[1]][m.note], s[1])
         /\ st.phase = "updates" => m.shares \subseteq For(shares'[s[2]][m.note], s[2])
  BY <1>7, <1>8 DEF HungBy
<1>10. st.phase \in Finals =>
          HangsOn(m.shares, m.shares) /\ m.shares \subseteq shares'[s[1]][m.note]
  BY <1>7, <1>8 DEF HungBy
<1>11. ASSUME st.phase \in Responses
       PROVE  /\ HangsOn(m.shares, m.shares \cup shares'[s[1]][m.note])
              /\ m.shares \subseteq AllOf(m.note, shares')
  <2>1. m.shares \cup shares[s[1]][m.note] \subseteq m.shares \cup shares'[s[1]][m.note]
    BY <1>7, <1>8, <1>11
  <2>2. HangsOn(m.shares, m.shares \cup shares[s[1]][m.note])
        /\ m.shares \subseteq AllOf(m.note, shares)
    BY <1>11 DEF HungBy
  <2>3. HangsOn(m.shares, m.shares \cup shares'[s[1]][m.note])
    BY <2>1, <2>2, HangsMore
  <2> QED BY <1>7, <1>8, <1>11, <2>2, <2>3
<1> QED BY <1>5, <1>6, <1>9, <1>10, <1>11 DEF HungBy

\* A session that sends no message of a merge carries what it had.
LEMMA HungSame ==
    ASSUME NEW s, NEW st, NEW old, NEW sh, HungBy(s, old, sh),
           st.copies \subseteq old.copies, st.todo \subseteq old.todo, st.phase \notin Running
    PROVE  HungBy(s, st, sh)
<1>1. /\ st.phase \notin {"request", "updates"} /\ st.phase # "request" /\ st.phase # "updates"
      /\ st.phase \notin Finals /\ st.phase \notin Responses
  BY RunningPhases
<1> QED BY <1>1 DEF HungBy

LEMMA HungIdle == \A s, sh : HungBy(s, Idle, sh)
BY DEF HungBy, Idle, Finals, Gathering, Responses

\* A step of one session concerns no other.
LEMMA HungStep ==
    ASSUME IInv, Messages, SharesGrow, NEW s \in Session, NEW st, Becomes(s, st),
           HungBy(s, st, shares')
    PROVE  Messages'
<1> SUFFICES ASSUME NEW t \in Session PROVE HungBy(t, session'[t], shares')
  BY DEF Messages
<1>1. CASE t = s
  BY <1>1 DEF Becomes, IInv, TypeOK
<1>2. CASE t # s
  <2>1. session'[t] = session[t] /\ session[t] \in SessionState
    BY <1>2 DEF Becomes, IInv, TypeOK
  <2>2. session[t].phase \in Running => session[t].merge.note \in Note
    BY InvTyped DEF MergeNoted
  <2> QED BY <2>1, <2>2, HungGrows DEF Messages
<1> QED BY <1>1, <1>2

LEMMA HungKept ==
    ASSUME IInv, Messages, SharesGrow,
           \A t \in Session : session'[t] = session[t] \/ session'[t] = Idle
    PROVE  Messages'
<1> SUFFICES ASSUME NEW t \in Session PROVE HungBy(t, session'[t], shares')
  BY DEF Messages
<1>1. session[t] \in SessionState
  BY DEF IInv, TypeOK
<1>2. session[t].phase \in Running => session[t].merge.note \in Note
  BY InvTyped DEF MergeNoted
<1>3. HungBy(t, session[t], shares')
  BY <1>1, <1>2, HungGrows DEF Messages
<1> QED BY <1>3, HungIdle

----------------------------------------------------------------------------
(* What users add to the records.                                          *)

\* Somebody with whom the user may come to share the note.
MayAsk(u, x, w) ==
    \/ <<u, x, w>> \in NoteShares
    \/ x \in Foldered /\ (<<u, w>> \in FolderShares
                          \/ (Creator[x] = u /\ w \in Recipients(folder[u])))

\* A record is made from one of the user's own; what users do makes it for one
\* without a key.
Made(u, x, p) == \E own \in OwnRecords(u, x), w \in User : p = Delegated(own, w)

NewRecord(u, x, p) ==
    \E own \in OwnRecords(u, x), w \in User :
        /\ p = Delegated(own, w)
        /\ For(keys[u][x], w) = {} /\ MayAsk(u, x, w)

\* So are all that sharing stores or prepares, but for the creator's own.
Source(u, x, p) ==
    \/ p \in shares[u][x]
    \/ NewRecord(u, x, p)
    \/ p \in asked[u].given[x]
    \/ p = <<u>> /\ Creator[x] = u /\ x \notin held[u] /\ x \in held'[u]

LEMMA StoreSources ==
    ASSUME IInv, NEW u \in User, NEW given \in [Note -> SUBSET Chain], Store(u, given),
           \A x \in Note : \A p \in given[x] : Source(u, x, p)
    PROVE  /\ SharesGrow
           /\ \A v \in User, x \in Note : \A p \in shares'[v][x] : Source(v, x, p)
<1>1. \A v \in User, x \in Note :
         shares'[v][x] = IF v = u THEN shares[v][x] \cup given[x] ELSE shares[v][x]
  BY DEF Store, IInv, TypeOK
<1>2. ASSUME NEW v \in User, NEW x \in Note, NEW p \in shares'[v][x]
      PROVE  Source(v, x, p)
  <2>1. CASE p \in shares[v][x]
    BY <2>1 DEF Source
  <2>2. CASE v = u /\ p \in given[x]
    BY <2>2
  <2> QED BY <1>1, <2>1, <2>2
<1> QED BY <1>1, <1>2 DEF SharesGrow

\* A note is shared with one that has no key for it yet.
LEMMA MayShareNew ==
    ASSUME IInv, NEW u \in User, NEW x \in Note, NEW own \in OwnRecords(u, x), NEW w \in User,
           MayShare(u, x, own, w), MayAsk(u, x, w)
    PROVE  NewRecord(u, x, Delegated(own, w)) /\ Delegated(own, w) \in Chain
<1>1. For(keys[u][x], w) = {}
  BY DEF MayShare
<1>2. own \in Chain
  BY ForSome DEF OwnRecords, IInv, TypeOK
<1> QED BY <1>1, <1>2, DelegatedChain DEF NewRecord

LEMMA UserRecords ==
    ASSUME IInv, Placed, NEW u \in User, UserActs(u)
    PROVE  /\ SharesGrow /\ Placed' /\ session' = session
           /\ \A v \in User, x \in Note : \A p \in shares'[v][x] : Source(v, x, p)
           /\ \A v \in User, x \in Note : \A p \in asked'[v].given[x] :
                 p \in asked[v].given[x] \/ NewRecord(v, x, p)
<1> DEFINE Old == \A v \in User, x \in Note : \A p \in asked'[v].given[x] :
                     p \in asked[v].given[x] \/ NewRecord(v, x, p)
           Goal == /\ SharesGrow /\ Placed' /\ Old
                   /\ \A v \in User, x \in Note : \A p \in shares'[v][x] : Source(v, x, p)
<1>1. session' = session /\ TypeOK
  BY DEF IInv, UserActs, CreateFolder, Create, AutoShare, ShareNote, PrepareFolder, SaveShares
<1>2. shares' = shares =>
         /\ SharesGrow
         /\ \A v \in User, x \in Note : \A p \in shares'[v][x] : Source(v, x, p)
  BY DEF SharesGrow, Source
<1>3. asked' = asked => Old
  OBVIOUS
<1>4. UNCHANGED <<created, placed>> => Placed'
  BY DEF Placed
<1>5. ASSUME CreateFolder(u) PROVE Goal
  BY <1>2, <1>3, <1>4, <1>5 DEF CreateFolder
<1>6. ASSUME NEW x \in Note, Create(u, x) PROVE Goal
  <2>1. /\ shares'[u][x] = {<<u>>} /\ Creator[x] = u /\ x \notin held[u] /\ x \in held'[u]
        /\ asked' = asked
        /\ \A v \in User, y \in Note : ~(v = u /\ y = x) => shares'[v][y] = shares[v][y]
    BY <1>1, <1>6 DEF Create, Owned, TypeOK
  <2>2. shares[u][x] = {}
    BY <2>1 DEF IInv, StoredHeld
  <2>3. SharesGrow
    BY <2>1, <2>2 DEF SharesGrow
  <2>4. Placed'
    <3>1. /\ \A v \in User : \A y \in created'[v] : y \in created[v] \/ (v = u /\ y = x)
          /\ \A v \in User : placed'[v] \subseteq placed[v] \cup Foldered
      BY <1>1, <1>6 DEF Create, TypeOK
    <3> QED BY <2>1, <3>1 DEF Placed
  <2>5. \A v \in User, y \in Note : \A p \in shares'[v][y] : Source(v, y, p)
    <3>1. ASSUME NEW v \in User, NEW y \in Note, NEW p \in shares'[v][y]
          PROVE  Source(v, y, p)
      BY <2>1, <3>1 DEF Source
    <3> QED BY <3>1
  <2> QED BY <1>3, <2>1, <2>3, <2>4, <2>5
<1>7. ASSUME NEW x \in Note, AutoShare(u, x) PROVE Goal
  <2>1. PICK own \in OwnRecords(u, x), W \in SUBSET User :
           LET given == Only(x, {Delegated(own, w) : w \in W})
           IN  /\ own \in Chain /\ given \in [Note -> SUBSET Chain]
               /\ \A w \in W : MayShare(u, x, own, w) /\ x \in Foldered
                               /\ w \in Recipients(folder[u])
               /\ [NothingAsked EXCEPT !.given = given] \in Asked
               /\ asked' = [asked EXCEPT ![u] = [NothingAsked EXCEPT !.given = given]]
    BY <1>1, <1>7, AutoShareParts
  <2> DEFINE given == Only(x, {Delegated(own, w) : w \in W})
             ask == [NothingAsked EXCEPT !.given = given]
  <2>2. /\ x \in created[u] /\ UNCHANGED <<shares, placed>>
        /\ created' = [created EXCEPT ![u] = @ \ {x}]
    BY <1>7 DEF AutoShare, tables
  <2>3. Creator[x] = u
    BY <2>2 DEF Placed
  <2>4. \A w \in W : NewRecord(u, x, Delegated(own, w))
    <3>1. ASSUME NEW w \in W PROVE w \in User /\ MayShare(u, x, own, w) /\ MayAsk(u, x, w)
      BY <2>1, <2>3, <3>1 DEF MayAsk
    <3> QED BY <2>1, <3>1, MayShareNew
  <2>5. \A y \in Note : \A p \in given[y] : NewRecord(u, y, p)
    BY <2>4 DEF Only
  <2>6. ask.given = given /\ asked' = [asked EXCEPT ![u] = ask]
    BY <2>1 DEF NothingAsked
  <2> HIDE DEF given, ask
  <2>7. \A v \in User : asked'[v] = asked[v] \/ (v = u /\ asked'[v] = ask)
    BY <1>1, <2>6 DEF TypeOK
  <2>8. Old
    BY <2>5, <2>6, <2>7
  <2>9. Placed'
    <3>1. \A v \in User : created'[v] \subseteq created[v]
      BY <1>1, <2>2 DEF TypeOK
    <3> QED BY <2>2, <3>1 DEF Placed
  <2> QED BY <1>2, <2>2, <2>8, <2>9
<1>8. ASSUME NEW x \in Note, NEW w \in User, ShareNote(u, x, w) PROVE Goal
  <2>1. PICK own \in OwnRecords(u, x) :
           MayShare(u, x, own, w) /\ Store(u, Only(x, {Delegated(own, w)}))
    BY <1>8 DEF ShareNote
  <2> DEFINE given == Only(x, {Delegated(own, w)})
  <2>2. MayAsk(u, x, w)
    BY <1>8 DEF ShareNote, MayAsk
  <2>3. NewRecord(u, x, Delegated(own, w)) /\ Delegated(own, w) \in Chain
    BY <2>1, <2>2, MayShareNew
  <2>4. given \in [Note -> SUBSET Chain] /\ \A y \in Note : \A p \in given[y] : Source(u, y, p)
    BY <2>3 DEF Only, Source
  <2>5. UNCHANGED <<asked, created, placed>>
    BY <1>8 DEF ShareNote
  <2> HIDE DEF given
  <2>6. Store(u, given)
    BY <2>1 DEF given
  <2> QED BY <1>3, <1>4, <2>4, <2>5, <2>6, StoreSources
<1>9. ASSUME NEW w \in User, PrepareFolder(u, w) PROVE Goal
  <2>1. PICK m \in For(folder[u], u), own \in Grants(u, w, placed[u]) :
           asked' = [asked EXCEPT ![u] = [to |-> {w}, member |-> {Delegated(m, w)},
                                          given |-> Granted(own, w)]]
    BY <1>9 DEF PrepareFolder
  <2>2. UNCHANGED <<shares, created, placed>> /\ <<u, w>> \in FolderShares
    BY <1>9 DEF PrepareFolder
  <2>3. \A x \in DOMAIN own : /\ x \in Note /\ x \in Foldered
                              /\ own[x] \in OwnRecords(u, x) /\ MayShare(u, x, own[x], w)
    <3>1. placed[u] \in SUBSET Note /\ placed[u] \subseteq Foldered
      BY <1>1 DEF Placed, TypeOK
    <3> QED BY <1>1, <2>1, <3>1, GrantedTyped
  <2>4. \A x \in DOMAIN own : NewRecord(u, x, Delegated(own[x], w))
    <3>1. \A x \in DOMAIN own : MayAsk(u, x, w)
      BY <2>2, <2>3 DEF MayAsk
    <3> QED BY <2>3, <3>1, MayShareNew
  <2>5. \A x \in Note : \A p \in Granted(own, w)[x] : NewRecord(u, x, p)
    BY <2>4 DEF Granted
  <2>6. \A v \in User : /\ v # u => asked'[v] = asked[v]
                        /\ v = u => asked'[v].given = Granted(own, w)
    BY <1>1, <2>1 DEF TypeOK
  <2>7. Old
    BY <2>5, <2>6
  <2> QED BY <1>2, <1>4, <2>2, <2>7
<1>10. ASSUME SaveShares(u) PROVE Goal
  <2>1. asked[u].given \in [Note -> SUBSET Chain]
    BY <1>1 DEF TypeOK, Asked
  <2>2. UNCHANGED <<created, placed>> /\ asked' = [asked EXCEPT ![u] = NothingAsked]
    BY <1>10 DEF SaveShares
  <2>3. Old
    <3>1. \A v \in User : asked'[v] = asked[v] \/ asked'[v] = NothingAsked
      BY <1>1, <2>2 DEF TypeOK
    <3> QED BY <3>1 DEF NothingAsked
  <2>4. CASE Fresh(u, asked[u])
    <3>1. Store(u, asked[u].given)
      BY <1>10, <2>4 DEF SaveShares
    <3>2. \A x \in Note : \A p \in asked[u].given[x] : Source(u, x, p)
      BY DEF Source
    <3> QED BY <1>4, <2>1, <2>2, <2>3, <3>1, <3>2, StoreSources
  <2>5. CASE ~Fresh(u, asked[u])
    <3>1. shares' = shares
      BY <1>10, <2>5 DEF SaveShares
    <3> QED BY <1>2, <1>4, <2>2, <2>3, <3>1
  <2> QED BY <2>4, <2>5
<1>11. Goal
  <2> HIDE DEF Goal
  <2> QED BY <1>5, <1>6, <1>7, <1>8, <1>9, <1>10 DEF UserActs
<1> QED BY <1>1, <1>11

LEMMA NewHangs ==
    ASSUME IInv, Hanging, NEW u \in User, NEW x \in Note, NEW p, Made(u, x, p)
    PROVE  p \in Chain /\ HangsOn({p}, shares[u][x])
<1>1. PICK own \in OwnRecords(u, x), w \in User : p = Delegated(own, w)
  BY DEF Made
<1>2. own \in shares[u][x] /\ own \in Chain
  BY <1>1, ForSome DEF OwnRecords, IInv, TypeOK
<1>3. /\ p \in Chain /\ Len(p) = Len(own) + 1
      /\ \A k \in 1 .. Len(own) : SubSeq(p, 1, k) = SubSeq(own, 1, k)
  BY <1>1, <1>2, DelegatedParts
<1>4. Len(own) \in Nat /\ SubSeq(own, 1, Len(own)) = own
  BY <1>2, ChainLength, WholeChain
<1>5. \A n \in Nat : n + 1 - 1 = n /\ \A k \in 1 .. n : k = n \/ k \in 1 .. n - 1
  OBVIOUS
<1>6. \A k \in 1 .. Len(own) : SubSeq(own, 1, k) \in shares[u][x]
  <2>1. \A k \in 1 .. Len(own) - 1 : SubSeq(own, 1, k) \in shares[u][x]
    BY <1>2 DEF Hanging, HangsOn
  <2> QED BY <1>2, <1>4, <1>5, <2>1
<1>7. 1 .. Len(p) - 1 = 1 .. Len(own)
  BY <1>3, <1>4, <1>5
<1>8. \A k \in 1 .. Len(own) : SubSeq(p, 1, k) \in shares[u][x]
  BY <1>3, <1>6
<1> QED BY <1>3, <1>7, <1>8 DEF HangsOn

\* What users do leaves the proofs with the records.
LEMMA UserHangs ==
    ASSUME KInv, NEW u \in User, UserActs(u) PROVE Placed' /\ Hanging' /\ Messages'
<1>1. /\ SharesGrow /\ Placed' /\ session' = session
      /\ \A v \in User, x \in Note : \A p \in shares'[v][x] : Source(v, x, p)
      /\ \A v \in User, x \in Note : \A p \in asked'[v].given[x] :
            p \in asked[v].given[x] \/ NewRecord(v, x, p)
  BY UserRecords DEF KInv
<1>2. ASSUME NEW v \in User, NEW x \in Note
      PROVE  /\ HangsOn(shares'[v][x], shares'[v][x])
             /\ HangsOn(asked'[v].given[x], shares'[v][x])
  <2>1. shares[v][x] \subseteq shares'[v][x]
    BY <1>1 DEF SharesGrow
  <2>2. /\ HangsOn(shares[v][x], shares'[v][x])
        /\ HangsOn(asked[v].given[x], shares'[v][x])
    BY <2>1, HangsMore DEF KInv, Hanging
  <2>3. \A p : NewRecord(v, x, p) => HangsOn({p}, shares'[v][x])
    <3>1. \A p : NewRecord(v, x, p) => Made(v, x, p)
      BY DEF NewRecord, Made
    <3> QED BY <2>1, <3>1, NewHangs, HangsMore DEF KInv
  <2>4. HangsOn({<<v>>}, shares'[v][x])
    <3>1. Len(<<v>>) - 1 = 0 /\ 1 .. 0 = {}
      OBVIOUS
    <3> QED BY <3>1 DEF HangsOn
  <2>5. ASSUME NEW p \in shares'[v][x] PROVE HangsOn({p}, shares'[v][x])
    <3>1. Source(v, x, p)
      BY <1>1
    <3> QED BY <2>2, <2>3, <2>4, <3>1 DEF Source, HangsOn
  <2>6. ASSUME NEW p \in asked'[v].given[x] PROVE HangsOn({p}, shares'[v][x])
    BY <1>1, <2>2, <2>3, <2>6 DEF HangsOn
  <2> QED BY <2>5, <2>6 DEF HangsOn
<1>3. Hanging'
  BY <1>2 DEF Hanging
<1>4. Messages'
  BY <1>1, HungKept DEF KInv
<1> QED BY <1>1, <1>3, <1>4

----------------------------------------------------------------------------
(* What sessions add to the records.                                       *)

\* A message at one user's brings records with their proofs.
LEMMA SavedHangs ==
    ASSUME KInv, NEW u \in User, NEW y \in Note, NEW P,
           HangsOn(P, P \cup shares[u][y]), P \subseteq AllOf(y, shares),
           shares' = Saved(shares, u, y, P),
           UNCHANGED <<created, asked>>,
           \A v \in User : placed'[v] \subseteq placed[v] \cup Foldered
    PROVE  /\ SharesGrow /\ Placed' /\ Hanging' /\ P \subseteq shares'[u][y]
           /\ \A v \in User, x \in Note : shares'[v][x] \subseteq AllOf(x, shares)
<1>1. \A v \in User, x \in Note :
         shares'[v][x] = IF v = u /\ x = y THEN shares[v][x] \cup P ELSE shares[v][x]
  BY DEF Saved, KInv, IInv, TypeOK
<1>2. SharesGrow /\ P \subseteq shares'[u][y]
  BY <1>1 DEF SharesGrow
<1>3. ASSUME NEW v \in User, NEW x \in Note
      PROVE  /\ HangsOn(shares'[v][x], shares'[v][x])
             /\ HangsOn(asked'[v].given[x], shares'[v][x])
  <2>1. shares[v][x] \subseteq shares'[v][x]
    BY <1>1
  <2>2. /\ HangsOn(shares[v][x], shares'[v][x])
        /\ HangsOn(asked'[v].given[x], shares'[v][x])
    BY <2>1, HangsMore DEF KInv, Hanging
  <2>3. CASE v = u /\ x = y
    <3>1. shares'[v][x] = shares[v][x] \cup P /\ P \cup shares[u][y] \subseteq shares'[v][x]
      BY <1>1, <2>3
    <3>2. HangsOn(P, shares'[v][x])
      BY <3>1, HangsMore
    <3> QED BY <2>2, <3>1, <3>2, HangsUnion
  <2>4. CASE ~(v = u /\ x = y)
    <3>1. shares'[v][x] = shares[v][x]
      BY <1>1, <2>4
    <3> QED BY <2>2, <3>1
  <2> QED BY <2>3, <2>4
<1>4. Hanging'
  BY <1>3 DEF Hanging
<1>5. Placed'
  BY DEF KInv, Placed
<1>6. ASSUME NEW v \in User, NEW x \in Note
      PROVE  shares'[v][x] \subseteq AllOf(x, shares)
  <2>1. shares[v][x] \subseteq AllOf(x, shares)
    BY OneOfAll
  <2> QED BY <1>1, <2>1
<1> QED BY <1>2, <1>4, <1>5, <1>6

\* A message leaves proofs with the records, and brings none that nobody has.
Delivered ==
    /\ SharesGrow /\ Placed' /\ Hanging' /\ Messages'
    /\ \A v \in User, x \in Note : shares'[v][x] \subseteq AllOf(x, shares)

\* One with which notes are shared may bring some that are made there.
DeliveredMore == SharesGrow /\ Placed' /\ Hanging' /\ Messages'

\* A message that changes no records.
LEMMA SameHangs ==
    ASSUME KInv, NEW s \in Session, NEW st, Becomes(s, st),
           UNCHANGED <<shares, placed, created, asked>>, HungBy(s, st, shares)
    PROVE  Delivered
<1>1. SharesGrow /\ \A v \in User, x \in Note : shares'[v][x] \subseteq AllOf(x, shares)
  BY DEF SharesGrow, AllOf
<1>2. Placed' /\ Hanging'
  BY DEF KInv, Placed, Hanging
<1>3. HungBy(s, st, shares')
  OBVIOUS
<1>4. Messages'
  BY <1>1, <1>3, HungStep DEF KInv
<1> QED BY <1>1, <1>2, <1>4 DEF Delivered

\* One after which the session carries no more than before.
LEMMA QuietHangs ==
    ASSUME KInv, NEW s \in Session, NEW st, Becomes(s, st),
           UNCHANGED <<shares, placed, created, asked>>,
           \/ st = Idle
           \/ /\ st.copies \subseteq session[s].copies /\ st.todo \subseteq session[s].todo
              /\ st.phase \notin Running
    PROVE  Delivered
<1>1. HungBy(s, session[s], shares)
  BY DEF KInv, Messages
<1>2. HungBy(s, st, shares)
  BY <1>1, HungSame, HungIdle
<1> QED BY <1>2, SameHangs

\* One that stores records at one user's.
LEMMA StoredHangs ==
    ASSUME KInv, NEW s \in Session, NEW st, Becomes(s, st),
           NEW u \in User, NEW y \in Note, NEW P,
           HangsOn(P, P \cup shares[u][y]), P \subseteq AllOf(y, shares),
           shares' = Saved(shares, u, y, P), UNCHANGED <<created, asked>>,
           \A v \in User : placed'[v] \subseteq placed[v] \cup Foldered,
           SharesGrow /\ P \subseteq shares'[u][y] => HungBy(s, st, shares')
    PROVE  Delivered
<1>1. /\ SharesGrow /\ Placed' /\ Hanging' /\ P \subseteq shares'[u][y]
      /\ \A v \in User, x \in Note : shares'[v][x] \subseteq AllOf(x, shares)
  BY SavedHangs
<1>2. Messages'
  BY <1>1, HungStep DEF KInv
<1> QED BY <1>1, <1>2 DEF Delivered

LEMMA FirstPhasesHang ==
    ASSUME KInv, NEW s \in Session,
           \/ Connect(s) \/ CompareManifests(s) \/ TakeUsers(s) \/ TakeUsersBack(s)
           \/ TakeFolders(s) \/ TakeFoldersBack(s)
    PROVE  Delivered
<1>1. /\ session[s] \in SessionState /\ s[1] \in User /\ s[2] \in User
      /\ CarriedBy(s, session[s], shares) /\ HungBy(s, session[s], shares)
  BY SessionUsers, SessionTyped DEF KInv, IInv, Carried, Messages
<1>2. ASSUME NEW phase \in Phase \ Running, NEW members, NEW sent,
             \/ Becomes(s, [session[s] EXCEPT !.phase = phase])
             \/ Becomes(s, [session[s] EXCEPT !.phase = phase, !.members = members])
             \/ Becomes(s, [session[s] EXCEPT !.phase = phase, !.sent = sent])
             \/ Becomes(s, Idle),
             UNCHANGED <<shares, placed, created, asked>>
      PROVE  Delivered
  <2> DEFINE one == [session[s] EXCEPT !.phase = phase]
             two == [session[s] EXCEPT !.phase = phase, !.members = members]
             three == [session[s] EXCEPT !.phase = phase, !.sent = sent]
  <2>1. /\ one.copies = session[s].copies /\ one.todo = session[s].todo /\ one.phase = phase
        /\ two.copies = session[s].copies /\ two.todo = session[s].todo /\ two.phase = phase
        /\ three.copies = session[s].copies /\ three.todo = session[s].todo
        /\ three.phase = phase
    BY <1>1 DEF SessionState
  <2>2. Becomes(s, one) \/ Becomes(s, two) \/ Becomes(s, three) \/ Becomes(s, Idle)
    BY <1>2
  <2>3. phase \notin Running
    OBVIOUS
  <2> HIDE DEF one, two, three
  <2> QED BY <1>2, <2>1, <2>2, <2>3, QuietHangs
<1>3. {"manifest", "usersBack", "folders", "foldersBack", "recipients"} \subseteq Phase \ Running
  BY DEF Phase, Running
<1>4. CASE Connect(s)
  <2>1. /\ Becomes(s, [session[s] EXCEPT !.phase = "manifest", !.sent = Manifest(s[1], s[2])])
        /\ UNCHANGED <<shares, placed, created, asked>>
    BY <1>4 DEF Connect
  <2> QED BY <1>2, <1>3, <2>1
<1>5. CASE CompareManifests(s)
  <2> DEFINE mine == Manifest(s[2], s[1])
             theirs == session[s].sent
             st == [session[s] EXCEPT
                       !.phase = "users", !.sent = Nothing, !.todo = Differing(mine, theirs),
                       !.gap = <<Lacks(theirs, mine), Lacks(mine, theirs)>>]
  <2>1. /\ st.phase = "users" /\ st.copies = session[s].copies
        /\ st.todo = Differing(mine, theirs)
    BY <1>1 DEF SessionState
  <2>2. Becomes(s, st) /\ UNCHANGED <<shares, placed, created, asked>>
    BY <1>5 DEF CompareManifests, tables
  <2>3. \A x \in Lists(theirs) : For(shares[s[1]][x], s[2]) # {}
    BY <1>1, <1>5 DEF CarriedBy, CompareManifests, At
  <2>4. \A x \in Lists(mine) : For(shares[s[2]][x], s[1]) # {}
    BY <1>1 DEF Lists, Manifest, SharedWith
  <2>5. \A x \in Differing(mine, theirs) : EachForOther(s, x, shares)
    BY <2>3, <2>4 DEF Differing, EachForOther
  <2> HIDE DEF st
  <2>6. HungBy(s, st, shares)
    BY <1>1, <2>1, <2>5 DEF HungBy, Finals, Gathering, Responses
  <2> QED BY <2>2, <2>6, SameHangs
<1>6. CASE TakeUsers(s)
  BY <1>2, <1>3, <1>6 DEF TakeUsers
<1>7. CASE TakeUsersBack(s)
  BY <1>2, <1>3, <1>7 DEF TakeUsersBack
<1>8. CASE TakeFolders(s)
  BY <1>2, <1>3, <1>8 DEF TakeFolders, GivesUp
<1>9. CASE TakeFoldersBack(s)
  <2> DEFINE members == MissingRecipients(s, 1, folder[s[1]] \cup session[s].members)
  <2>1. /\ \/ Becomes(s, [session[s] EXCEPT !.phase = "recipients", !.members = members])
           \/ Becomes(s, Idle)
        /\ UNCHANGED <<shares, placed, created, asked>>
    BY <1>9 DEF TakeFoldersBack, GivesUp
  <2> HIDE DEF members
  <2> QED BY <1>2, <1>3, <2>1
<1> QED BY <1>4, <1>5, <1>6, <1>7, <1>8, <1>9

\* A copy is of all records of the note, with those that are made just before.
LEMMA TakenHang ==
    ASSUME KInv, NEW s \in Session, NEW n \in {1, 2}, Taken(s, n)
    PROVE  DeliveredMore
<1> DEFINE u == s[n]
           w == s[3 - n]
           notes == session[s].gap[n].notes
           sent == {Copy(u, w, x) : x \in notes}
           st == [session[s] EXCEPT
                     !.phase = IF n = 2 THEN "recipientsBack" ELSE "copies",
                     !.members = IF n = 2 THEN MissingRecipients(s, 2, folder'[u]) ELSE {},
                     !.copies = @ \cup sent]
<1>1. /\ session[s] \in SessionState /\ HungBy(s, session[s], shares) /\ TypeOK
      /\ u \in User /\ w \in User /\ notes \subseteq Note
  BY SessionUsers, SessionTyped DEF KInv, IInv, Messages, Gap
<1>2. PICK own \in Besides(s, u, w, notes) : Keeps(s, n, own)
  BY DEF Taken
<1> DEFINE given == Granted(own, w)
<1>3. \A x \in Note : \A p \in given[x] : Made(u, x, p)
  <2> HIDE DEF u, w, notes
  <2>1. PICK some \in SUBSET notes : own \in Grants(u, w, some)
    BY <1>1, <1>2, BesidesGrants
  <2>2. some \in SUBSET Note
    BY <1>1, <2>1
  <2>3. /\ \A x \in DOMAIN own : own[x] \in OwnRecords(u, x)
        /\ \A x \in Note : given[x] =
              IF x \in DOMAIN own THEN {Delegated(own[x], w)} ELSE {}
    BY <1>1, <2>1, <2>2, GrantedTyped
  <2> HIDE DEF given
  <2>4. ASSUME NEW x \in Note, NEW p \in given[x] PROVE Made(u, x, p)
    <3>1. x \in DOMAIN own /\ p = Delegated(own[x], w)
      BY <2>3, <2>4
    <3>2. own[x] \in OwnRecords(u, x)
      BY <2>3, <3>1
    <3> QED BY <1>1, <3>1, <3>2 DEF Made
  <2> QED BY <2>4
<1>4. /\ Becomes(s, st) /\ UNCHANGED <<placed, created, asked>>
      /\ shares' = [shares EXCEPT ![u] = [x \in Note |-> @[x] \cup given[x]]]
  BY <1>2 DEF Keeps
<1>5. /\ st.copies = session[s].copies \cup sent /\ st.todo = session[s].todo
      /\ st.phase \in {"recipientsBack", "copies"}
  BY <1>1 DEF SessionState
<1>6. \A c \in sent : \E x \in notes : c.note = x /\ c.shares = shares'[u][x]
  BY DEF Copy
<1> HIDE DEF given, st, sent, notes, u, w
<1>7. \A v \in User, x \in Note : /\ v = u => shares'[v][x] = shares[v][x] \cup given[x]
                                  /\ v # u => shares'[v][x] = shares[v][x]
  BY <1>1, <1>4 DEF TypeOK
<1>8. SharesGrow
  BY <1>7 DEF SharesGrow
<1>9. ASSUME NEW v \in User, NEW x \in Note
      PROVE  /\ HangsOn(shares'[v][x], shares'[v][x])
             /\ HangsOn(asked'[v].given[x], shares'[v][x])
  <2>1. shares[v][x] \subseteq shares'[v][x]
    BY <1>8 DEF SharesGrow
  <2>2. HangsOn(shares[v][x], shares'[v][x]) /\ HangsOn(asked'[v].given[x], shares'[v][x])
    BY <1>4, <2>1, HangsMore DEF KInv, Hanging
  <2>3. ASSUME v = u PROVE HangsOn(given[x], shares'[v][x])
    <3>1. ASSUME NEW p \in given[x] PROVE HangsOn({p}, shares'[v][x])
      BY <1>3, <2>1, <2>3, <3>1, NewHangs, HangsMore DEF KInv
    <3> QED BY <3>1 DEF HangsOn
  <2> QED BY <1>7, <2>2, <2>3, HangsUnion
<1>10. Placed' /\ Hanging'
  BY <1>4, <1>9 DEF KInv, Placed, Hanging
<1>11. HungBy(s, st, shares')
  <2>1. st.phase \notin Running
    BY <1>5 DEF Running
  <2>2. \A c \in sent :
           HangsOn(c.shares, c.shares) /\ c.shares \subseteq AllOf(c.note, shares')
    BY <1>1, <1>6, <1>9 DEF AllOf
  <2>3. session[s].phase \in Running => session[s].merge.note \in Note
    BY InvTyped DEF KInv, MergeNoted
  <2>4. HungBy(s, session[s], shares')
    BY <1>1, <1>8, <2>3, HungGrows
  <2> QED BY <1>5, <2>1, <2>2, <2>4, RunningPhases DEF HungBy
<1>12. Messages'
  BY <1>4, <1>8, <1>11, HungStep DEF KInv
<1> QED BY <1>8, <1>10, <1>12 DEF DeliveredMore

LEMMA CopyPhasesHang ==
    ASSUME KInv, NEW s \in Session,
           \/ \E c \in session[s].copies : TakeCopy(s, c)
           \/ CopiesDone(s)
    PROVE  Delivered
<1>1. /\ session[s] \in SessionState /\ s[1] \in User /\ s[2] \in User
      /\ HungBy(s, session[s], shares) /\ TypeOK
  BY SessionUsers, SessionTyped DEF KInv, IInv, Messages
<1>3. ASSUME NEW c \in session[s].copies, TakeCopy(s, c) PROVE Delivered
  <2>1. c.to \in User /\ c.note \in Note
    BY <1>1 DEF SessionState, CopySet
  <2>2. session[s].phase = "copies" /\ UNCHANGED <<created, asked>>
    BY <1>3 DEF TakeCopy, At
  <2>3. CASE ~Acceptable(c.to, c.note, c)
    <3> DEFINE st == [session[s] EXCEPT !.copies = @ \ {c},
                         !.todo = IF c.to = s[2] /\ @ # {} /\ session[s].gap[2].notes # {}
                                  THEN {} ELSE @]
    <3>1. Becomes(s, st) /\ UNCHANGED <<shares, placed>>
      BY <1>3, <2>3 DEF TakeCopy
    <3>2. /\ st.copies \subseteq session[s].copies /\ st.todo \subseteq session[s].todo
          /\ st.phase \notin Running
      BY <1>1, <2>2 DEF SessionState, Running
    <3> HIDE DEF st
    <3> QED BY <2>2, <3>1, <3>2, QuietHangs
  <2>4. CASE Acceptable(c.to, c.note, c)
    <3> DEFINE st == [session[s] EXCEPT !.copies = @ \ {c}]
               new == IF folder[c.to] = {} THEN {} ELSE ({c.note} \cap Foldered) \ held[c.to]
    <3>1. /\ Becomes(s, st) /\ shares' = Saved(shares, c.to, c.note, c.shares)
          /\ placed' = [placed EXCEPT ![c.to] = @ \cup new]
      BY <1>3, <2>4 DEF TakeCopy
    <3>2. \A v \in User : placed'[v] \subseteq placed[v] \cup Foldered
      <4>1. new \subseteq Foldered
        OBVIOUS
      <4> HIDE DEF new
      <4> QED BY <1>1, <3>1, <4>1 DEF TypeOK
    <3>3. /\ st.copies \subseteq session[s].copies /\ st.todo \subseteq session[s].todo
          /\ st.phase = "copies"
      BY <1>1, <2>2 DEF SessionState
    <3> HIDE DEF st, new
    <3>4. /\ HangsOn(c.shares, c.shares \cup shares[c.to][c.note])
          /\ c.shares \subseteq AllOf(c.note, shares)
      <4>1. HangsOn(c.shares, c.shares) /\ c.shares \subseteq AllOf(c.note, shares)
        BY <1>1 DEF HungBy
      <4> QED BY <4>1, HangsMore
    <3>5. ASSUME SharesGrow PROVE HungBy(s, st, shares')
      <4>1. HungBy(s, session[s], shares')
        BY <1>1, <2>2, <3>5, HungGrows DEF Running
      <4> QED BY <3>3, <4>1, HungSame DEF Running
    <3> QED BY <2>1, <2>2, <3>1, <3>2, <3>4, <3>5, StoredHangs
  <2> QED BY <2>3, <2>4
<1>4. CASE CopiesDone(s)
  <2> DEFINE st == [session[s] EXCEPT !.phase = "merging"]
  <2>1. /\ Becomes(s, st) \/ Becomes(s, Idle)
        /\ UNCHANGED <<shares, placed, created, asked>>
    BY <1>4 DEF CopiesDone, GivesUp, tables
  <2>2. /\ st.copies \subseteq session[s].copies /\ st.todo \subseteq session[s].todo
        /\ st.phase \notin Running
    BY <1>1 DEF SessionState, Running
  <2> HIDE DEF st
  <2> QED BY <2>1, <2>2, QuietHangs
<1> QED BY <1>3, <1>4

\* A merge begins with each end's own record, and both then have all of both.
LEMMA MergeStepHangs ==
    ASSUME KInv, NEW s \in Session, MergeStep(s)
    PROVE  Delivered
<1> USE DEF At
<1> DEFINE m == session[s].merge
           a == session[s].answer
           i == s[1]
           r == s[2]
<1>1. /\ session[s] \in SessionState /\ i \in User /\ r \in User
      /\ HungBy(s, session[s], shares) /\ TypeOK /\ MergeNoted
      /\ m \in MergeSet /\ a \in MergeSet /\ NoMerge \in MergeSet
      /\ CarriedBy(s, session[s], shares)
  BY SessionUsers, InvTyped, MergeFields, IdleTyped DEF KInv, IInv, Messages, Carried
<1>2. session[s].phase \in Running /\ m.note \in Note
  <2>1. session[s].phase \in Running
    BY DEF MergeStep, Running, AnswerRequest, AnswerUpdates, MergeKeys,
           CompareClocks, InsertClocks, MergeShares, AcceptClocks, AcceptShares, AcceptKeys
  <2> QED BY <1>1, <2>1 DEF MergeNoted
<1>3. UNCHANGED <<placed, created, asked>>
  BY DEF MergeStep, AnswerRequest, AnswerUpdates, MergeKeys, CompareClocks,
         InsertClocks, MergeShares, AcceptClocks, AcceptShares, AcceptKeys, tables
<1> DEFINE Hung(phase, one, sh) ==
              /\ phase \in {"request", "updates"} => EachForOther(s, one.note, sh)
              /\ phase = "request" => one.shares \subseteq For(sh[i][one.note], i)
              /\ phase = "updates" => one.shares \subseteq For(sh[r][one.note], r)
              /\ phase \in Finals =>
                    HangsOn(one.shares, one.shares) /\ one.shares \subseteq sh[i][one.note]
              /\ phase \in Responses =>
                    /\ HangsOn(one.shares, one.shares \cup sh[i][one.note])
                    /\ one.shares \subseteq AllOf(one.note, sh)
<1>4. ASSUME NEW phase \in Phase, NEW one \in MergeSet, NEW two \in MergeSet, NEW sh,
             HungBy(s, session[s], sh), Hung(phase, one, sh)
      PROVE  HungBy(s, Merging(s, phase, one, two), sh)
  <2> DEFINE st == Merging(s, phase, one, two)
  <2>1. /\ st.phase = phase /\ st.merge = one /\ st.todo = session[s].todo
        /\ st.copies = session[s].copies
    BY <1>1, MergingTyped
  <2> HIDE DEF st
  <2>2. HungBy(s, st, sh)
    BY <1>4, <2>1 DEF HungBy
  <2> QED BY <2>2 DEF st
<1>5. Hung(session[s].phase, m, shares)
  BY <1>1 DEF HungBy
<1>6. /\ {"updates", "final", "finalClocks", "finalInsert", "finalShares", "response",
          "responseShares", "responseKeys", "merging"} \subseteq Phase
      /\ {"final", "finalClocks", "finalInsert", "finalShares"} = Finals
      /\ "merging" \notin Running
  BY DEF Phase, Finals, Gathering, Running
<1> HIDE DEF Hung
<1>7. ASSUME NEW phase \in Phase, NEW one \in MergeSet, NEW two \in MergeSet,
             Becomes(s, Merging(s, phase, one, two)), shares' = shares,
             Hung(phase, one, shares)
      PROVE  Delivered
  BY <1>1, <1>3, <1>4, <1>7, SameHangs
<1>8. m.keys \in SUBSET Chain /\ m.shares \in SUBSET Chain /\ m.rows \in SUBSET User
  BY <1>1, MergeFields
<1>9. \A n \in {1, 2} : shares[s[n]][m.note] \in SUBSET Chain
                        /\ keys[s[n]][m.note] \in SUBSET Chain
                        /\ rows[s[n]][m.note] \in SUBSET User
  BY <1>1, <1>2 DEF TypeOK
<1>10. CASE AnswerRequest(s)
  <2>1. PICK own \in OwnRecords(r, m.note) :
           Becomes(s, Merging(s, "updates", [m EXCEPT !.shares = {own}], a))
    BY <1>1, <1>10, MergeSteps
  <2> DEFINE one == [m EXCEPT !.shares = {own}]
  <2>2. own \in For(shares[r][m.note], r) /\ own \in Chain
    BY <1>9, <2>1, ForSome DEF OwnRecords
  <2>3. one \in MergeSet /\ one.note = m.note /\ one.shares = {own}
    BY <1>1, <2>2 DEF MergeSet
  <2>4. EachForOther(s, m.note, shares) /\ shares' = shares
    BY <1>5, <1>10 DEF AnswerRequest, tables, Hung
  <2> HIDE DEF one, m, a
  <2>5. Hung("updates", one, shares)
    BY <2>2, <2>3, <2>4 DEF Hung, Finals, Gathering, Responses
  <2>6. Becomes(s, Merging(s, "updates", one, a))
    BY <2>1 DEF one, m
  <2> QED BY <1>1, <1>6, <1>7, <2>3, <2>4, <2>5, <2>6
<1>11. CASE AnswerUpdates(s)
  <2> DEFINE one == [note |-> m.note, keys |-> keys[i][m.note],
                     shares |-> shares[i][m.note], rows |-> rows[i][m.note]]
  <2>1. Becomes(s, Merging(s, "final", one, a)) /\ shares' = shares
    BY <1>1, <1>11, MergeSteps DEF AnswerUpdates, tables
  <2>2. one \in MergeSet /\ one.note = m.note /\ one.shares = shares[i][m.note]
    BY <1>2, <1>9 DEF MergeSet
  <2>3. HangsOn(shares[i][m.note], shares[i][m.note])
    BY <1>1, <1>2 DEF KInv, Hanging
  <2> HIDE DEF one, m, a
  <2>4. Hung("final", one, shares)
    BY <2>2, <2>3 DEF Hung, Responses
  <2> QED BY <1>1, <1>6, <1>7, <2>1, <2>2, <2>4
<1>12. CASE MergeKeys(s) \/ CompareClocks(s) \/ InsertClocks(s)
  <2>1. PICK phase \in Gathering, one \in MergeSet, two \in MergeSet :
           /\ Becomes(s, Merging(s, phase, one, two))
           /\ one.note = m.note /\ one.shares = m.shares
    <3> DEFINE three == [NoMerge EXCEPT !.note = m.note, !.keys = keys[r][m.note] \ m.keys]
               four == [m EXCEPT !.rows = @ \ rows[r][m.note]]
               five == [a EXCEPT !.rows = rows[r][m.note] \ m.rows]
    <3>1. three \in MergeSet
      <4>1. keys[r][m.note] \ m.keys \in SUBSET Chain
        BY <1>9
      <4> QED BY <1>2, <4>1 DEF MergeSet, NoMerge
    <3>2. /\ four \in MergeSet /\ four.note = m.note /\ four.shares = m.shares
          /\ five \in MergeSet
      <4>1. m.rows \ rows[r][m.note] \in SUBSET User
            /\ rows[r][m.note] \ m.rows \in SUBSET User
        BY <1>8, <1>9
      <4> QED BY <1>1, <4>1 DEF MergeSet
    <3>3. \/ Becomes(s, Merging(s, "finalClocks", m, three))
          \/ Becomes(s, Merging(s, "finalInsert", four, five))
          \/ Becomes(s, Merging(s, "finalShares", m, a))
      BY <1>1, <1>12, MergeSteps
    <3>4. {"finalClocks", "finalInsert", "finalShares"} = Gathering
      BY DEF Gathering
    <3> HIDE DEF m, a, three, four, five
    <3> QED BY <1>1, <3>1, <3>2, <3>3, <3>4
  <2>2. shares' = shares /\ session[s].phase \in Finals
    BY <1>6, <1>12 DEF MergeKeys, CompareClocks, InsertClocks, tables
  <2>3. phase \in Phase /\ phase \in Finals /\ phase \notin Responses
        /\ phase \notin {"request", "updates"}
    BY <1>6, <2>1 DEF Gathering, Responses
  <2>4. Hung(phase, one, shares)
    BY <1>5, <2>1, <2>2, <2>3 DEF Hung
  <2> HIDE DEF m, a
  <2> QED BY <1>7, <2>1, <2>2, <2>3, <2>4
<1>13. CASE MergeShares(s)
  <2> DEFINE lacks == shares[r][m.note] \ m.shares
             one == [a EXCEPT !.shares = lacks]
             st == Merging(s, "response", one, NoMerge)
  <2>1. /\ session[s].phase \in Finals /\ session[s].phase \in Gathering
        /\ Becomes(s, st) /\ shares' = Saved(shares, r, m.note, m.shares)
    BY <1>1, <1>6, <1>13, MergeSteps DEF MergeShares, Gathering
  <2>2. one \in MergeSet /\ one.note = m.note /\ one.shares = lacks
    <3>1. lacks \in SUBSET Chain
      BY <1>9
    <3>2. a.note = m.note
      BY <1>1, <2>1 DEF CarriedBy
    <3> QED BY <1>1, <3>1, <3>2 DEF MergeSet
  <2>3. HangsOn(m.shares, m.shares) /\ m.shares \subseteq shares[i][m.note]
    BY <1>5, <2>1 DEF Hung
  <2>4. HangsOn(m.shares, m.shares \cup shares[r][m.note])
    BY <2>3, HangsMore
  <2>5. m.shares \subseteq AllOf(m.note, shares)
    BY <1>1, <2>3, OneOfAll
  <2>6. ASSUME SharesGrow PROVE HungBy(s, st, shares')
    <3>1. HungBy(s, session[s], shares')
      BY <1>1, <1>2, <2>6, HungGrows
    <3>2. HangsOn(lacks, lacks \cup shares'[i][m.note])
      <4>1. HangsOn(shares[r][m.note], shares[r][m.note])
        BY <1>1, <1>2 DEF KInv, Hanging
      <4>2. m.shares \subseteq shares'[i][m.note]
        BY <1>1, <1>2, <2>3, <2>6 DEF SharesGrow
      <4>3. shares[r][m.note] \subseteq lacks \cup shares'[i][m.note]
        BY <4>2
      <4> QED BY <4>1, <4>3 DEF HangsOn
    <3>3. lacks \subseteq AllOf(m.note, shares')
      <4>1. AllOf(m.note, shares) \subseteq AllOf(m.note, shares')
        BY <1>2, <2>6, AllGrows
      <4> QED BY <1>1, <4>1, OneOfAll
    <3> HIDE DEF one, lacks, m, a
    <3>4. Hung("response", one, shares')
      BY <2>2, <3>2, <3>3 DEF Hung, Finals, Gathering
    <3>5. "response" \in Phase
      BY <1>6
    <3> QED BY <1>1, <1>4, <2>2, <3>1, <3>4, <3>5
  <2> HIDE DEF st, m
  <2> QED BY <1>1, <1>2, <1>3, <2>1, <2>4, <2>5, <2>6, StoredHangs
<1>14. CASE AcceptClocks(s)
  <2>1. /\ Becomes(s, Merging(s, "responseShares", m, a)) /\ shares' = shares
        /\ session[s].phase = "response"
    BY <1>1, <1>14, MergeSteps DEF AcceptClocks
  <2>2. Hung("responseShares", m, shares)
    BY <1>5, <2>1 DEF Hung, Finals, Gathering, Responses
  <2> HIDE DEF m, a
  <2> QED BY <1>1, <1>6, <1>7, <2>1, <2>2
<1>15. CASE AcceptShares(s)
  <2> DEFINE st == Merging(s, "responseKeys", m, a)
  <2>1. /\ session[s].phase = "responseShares"
        /\ Becomes(s, st) /\ shares' = Saved(shares, i, m.note, m.shares)
    BY <1>1, <1>15, MergeSteps DEF AcceptShares
  <2>2. /\ HangsOn(m.shares, m.shares \cup shares[i][m.note])
        /\ m.shares \subseteq AllOf(m.note, shares)
    BY <1>5, <2>1 DEF Hung, Responses
  <2>3. ASSUME SharesGrow PROVE HungBy(s, st, shares')
    <3>1. HungBy(s, session[s], shares')
      BY <1>1, <1>2, <2>3, HungGrows
    <3>2. Hung("responseShares", m, shares')
      BY <2>1, <3>1 DEF HungBy, Hung
    <3>3. Hung("responseKeys", m, shares')
      BY <3>2 DEF Hung, Finals, Gathering, Responses
    <3>4. "responseKeys" \in Phase
      BY <1>6
    <3> HIDE DEF m, a
    <3> QED BY <1>1, <1>4, <3>1, <3>3, <3>4
  <2> HIDE DEF st, m
  <2> QED BY <1>1, <1>2, <1>3, <2>1, <2>2, <2>3, StoredHangs
<1>16. CASE AcceptKeys(s)
  <2>1. Becomes(s, Merging(s, "merging", NoMerge, a)) /\ shares' = shares
    BY <1>1, <1>16, MergeSteps DEF AcceptKeys
  <2>2. Hung("merging", NoMerge, shares)
    BY DEF Hung, Finals, Gathering, Responses
  <2> HIDE DEF m, a
  <2> QED BY <1>1, <1>6, <1>7, <2>1, <2>2
<1> QED BY <1>10, <1>11, <1>12, <1>13, <1>14, <1>15, <1>16 DEF MergeStep

LEMMA MergePhasesHang ==
    ASSUME KInv, NEW s \in Session,
           \/ \E x \in session[s].todo : RequestUpdates(s, x)
           \/ MergeStep(s) \/ Refused(s) \/ SyncDone(s)
    PROVE  Delivered
<1>1. /\ session[s] \in SessionState /\ s[1] \in User /\ s[2] \in User
      /\ HungBy(s, session[s], shares) /\ TypeOK
  BY SessionUsers, SessionTyped DEF KInv, IInv, Messages
<1>2. ASSUME NEW x \in session[s].todo, RequestUpdates(s, x) PROVE Delivered
  <2>1. PICK own \in OwnRecords(s[1], x) :
           Becomes(s, [session[s] EXCEPT !.phase = "request", !.todo = @ \ {x},
                           !.merge = [NoMerge EXCEPT !.note = x, !.shares = {own}]])
    BY <1>2 DEF RequestUpdates
  <2> DEFINE st == [session[s] EXCEPT !.phase = "request", !.todo = @ \ {x},
                       !.merge = [NoMerge EXCEPT !.note = x, !.shares = {own}]]
  <2>2. /\ st.phase = "request" /\ st.merge.note = x /\ st.merge.shares = {own}
        /\ st.copies = session[s].copies /\ st.todo \subseteq session[s].todo
    BY <1>1 DEF SessionState, NoMerge
  <2>3. UNCHANGED <<shares, placed, created, asked>>
    BY <1>2 DEF RequestUpdates, tables
  <2>4. Becomes(s, st)
    BY <2>1
  <2>5. {own} \subseteq For(shares[s[1]][x], s[1]) /\ EachForOther(s, x, shares)
    BY <1>1, <2>1 DEF OwnRecords, HungBy
  <2> HIDE DEF st
  <2>6. HungBy(s, st, shares)
    BY <1>1, <2>2, <2>5 DEF HungBy, Finals, Gathering, Responses
  <2> QED BY <2>3, <2>4, <2>6, SameHangs
<1>3. CASE Refused(s) \/ SyncDone(s)
  <2> DEFINE todo == IF At(s, "merging") THEN {} ELSE session[s].todo
             st == [session[s] EXCEPT !.phase = "merging", !.merge = NoMerge,
                                      !.answer = NoMerge, !.todo = todo]
  <2>1. /\ Becomes(s, st) \/ Becomes(s, Idle)
        /\ UNCHANGED <<shares, placed, created, asked>>
    BY <1>3 DEF Refused, SyncDone, GivesUp, tables
  <2>2. /\ st.copies = session[s].copies /\ st.todo \subseteq session[s].todo
        /\ st.phase \notin Running
    BY <1>1 DEF SessionState, Running
  <2> HIDE DEF st
  <2> QED BY <2>1, <2>2, QuietHangs
<1> QED BY <1>2, <1>3, MergeStepHangs

----------------------------------------------------------------------------
(* The proofs of a note's records.                                         *)

LEMMA InitHangs == Init => KInv
<1> SUFFICES ASSUME Init PROVE KInv
  OBVIOUS
<1>1. Placed /\ Hanging
  BY DEF Init, Placed, Hanging, HangsOn, NothingAsked
<1>2. Messages
  BY HungIdle DEF Init, Messages
<1> QED BY <1>1, <1>2, InitInv DEF KInv

\* What a session does leaves the proofs with the records.
LEMMA SessionHangs ==
    ASSUME KInv, NEW s \in Session, Connect(s) \/ Step(s)
    PROVE  /\ DeliveredMore
           /\ (\A n \in {1, 2} : ~TakeRecipients(s, n)) => Delivered
<1>1. Delivered => DeliveredMore
  BY DEF Delivered, DeliveredMore
<1>2. ASSUME NEW n \in {1, 2}, TakeRecipients(s, n) PROVE DeliveredMore
  <2>1. TypeOK
    BY DEF KInv, IInv
  <2>2. CASE Becomes(s, Idle) /\ UNCHANGED <<tables, created, asked>>
    <3>1. UNCHANGED <<shares, placed, created, asked>>
      BY <2>2 DEF tables
    <3> QED BY <1>1, <2>2, <3>1, QuietHangs
  <2> QED BY <1>2, <2>1, <2>2, TakenHang, TakenOrNot
<1>3. (\A n \in {1, 2} : ~TakeRecipients(s, n)) => Delivered
  BY FirstPhasesHang, CopyPhasesHang, MergePhasesHang DEF Step, MergeStep
<1> QED BY <1>1, <1>2, <1>3

LEMMA NextHangs == KInv /\ [Next]_vars => KInv'
<1> SUFFICES ASSUME KInv, [Next]_vars PROVE KInv'
  OBVIOUS
<1>1. IInv' /\ TypeOK /\ faults' \in 0 .. MaxFaults
  BY NextInv, NextSteps DEF KInv, IInv
<1>2. ASSUME NEW u \in User, UserActs(u) PROVE KInv'
  BY <1>1, <1>2, UserHangs DEF KInv
<1>3. ASSUME NEW s \in Session, Connect(s) \/ Step(s) PROVE KInv'
  BY <1>1, <1>3, SessionHangs DEF KInv, DeliveredMore
<1>4. ASSUME NEW u \in User, Stops(u) PROVE KInv'
  <2>1. /\ UNCHANGED <<placed, shares>>
        /\ \A t \in Session : session'[t] = session[t] \/ session'[t] = Idle
        /\ \A v \in User : asked'[v] = asked[v] \/ asked'[v] = NothingAsked
        /\ \A v \in User : created'[v] \subseteq created[v]
    BY <1>1, <1>4, StopsInv DEF KInv, tables
  <2>2. SharesGrow /\ Placed'
    BY <2>1 DEF KInv, SharesGrow, Placed
  <2>3. Hanging'
    <3>1. \A x \in Note : \A Q : HangsOn(NothingAsked.given[x], Q)
      BY DEF NothingAsked, HangsOn
    <3> QED BY <2>1, <3>1 DEF KInv, Hanging
  <2> QED BY <1>1, <2>1, <2>2, <2>3, HungKept DEF KInv
<1>5. CASE UNCHANGED vars
  <2>1. UNCHANGED <<placed, shares, created, asked, session>>
    BY <1>5 DEF vars
  <2>2. SharesGrow /\ Placed' /\ Hanging'
    BY <2>1 DEF KInv, SharesGrow, Placed, Hanging
  <2> QED BY <1>1, <2>1, <2>2, HungKept DEF KInv
<1> QED BY <1>1, <1>2, <1>3, <1>4, <1>5, NextSteps

LEMMA ProofsInvariant == Spec => []KInv
BY InitHangs, NextHangs, PTL DEF Spec

\* Whoever has a record of a note has the records that prove it, back to the
\* owner's, whoever shares the note with whom and however often: a share makes
\* a record from one whose proofs are there, a copy is of all records, and the
\* last messages of a merge bring each end what it lacks of the other's
\* (prepare_share_resource, send_resources, process_final_update_merge).
THEOREM NotesKeepProofs == Spec => []ProofsKept
<1>1. ASSUME KInv PROVE ProofsKept
  <2> SUFFICES ASSUME NEW u \in User, NEW x \in Note PROVE Closed(shares[u][x])
    BY DEF ProofsKept
  <2>1. shares[u][x] \subseteq Chain /\ HangsOn(shares[u][x], shares[u][x])
    BY <1>1 DEF KInv, IInv, TypeOK, Hanging
  <2> QED BY <2>1, ClosedHangs
<1>2. KInv => ProofsKept
  BY <1>1
<1> QED BY <1>2, ProofsInvariant, PTL

----------------------------------------------------------------------------
(* Whom the folder's records are for.                                      *)

AllFolder(fo) == UNION {fo[u] : u \in User}

FolderRecords == AllFolder(folder) \cup UNION {asked[u].member : u \in User}

\* Every record of the folder goes back to its founder, and is by one who may
\* share it with its recipient.
FolderRooted ==
    \A p \in FolderRecords :
        /\ p[1] = Founder
        /\ Len(p) # 1 => <<Sharer(p), Recipient(p)>> \in FolderShares

\* What is under way are records of the folder.
MembersSent == \A s \in Session : session[s].members \subseteq AllFolder(folder)

FolderBase == FolderRooted /\ MembersSent

FolderGrows == \A u \in User : folder[u] \subseteq folder'[u]

\* A user prepares a record from one of its own, for one without any.
NewMember(u, p) ==
    \E m \in For(folder[u], u), w \in User :
        p = Delegated(m, w) /\ <<u, w>> \in FolderShares /\ For(folder[u], w) = {}

\* The founder has the folder's first record when it creates it.
FirstMember(u, p) == u = Founder /\ p = <<u>> /\ folder[u] = {}

LEMMA UserFolders ==
    ASSUME TypeOK, NEW u \in User, UserActs(u)
    PROVE  /\ FolderGrows /\ session' = session
           /\ \A v \in User : \A p \in folder'[v] :
                 p \in folder[v] \/ p \in asked[v].member \/ FirstMember(v, p)
           /\ \A v \in User : \A p \in asked'[v].member :
                 p \in asked[v].member \/ NewMember(v, p)
<1> DEFINE New == \A v \in User : \A p \in folder'[v] :
                     p \in folder[v] \/ p \in asked[v].member \/ FirstMember(v, p)
           Prepared == \A v \in User : \A p \in asked'[v].member :
                          p \in asked[v].member \/ NewMember(v, p)
           Goal == FolderGrows /\ New /\ Prepared
<1>1. session' = session
  BY DEF UserActs, CreateFolder, Create, AutoShare, ShareNote, PrepareFolder, SaveShares
<1>2. folder' = folder => FolderGrows /\ New
  BY DEF FolderGrows
<1>3. asked' = asked => Prepared
  OBVIOUS
<1>4. ASSUME CreateFolder(u) PROVE Goal
  <2>1. \A v \in User : folder'[v] = IF v = u THEN {<<u>>} ELSE folder[v]
    BY <1>4 DEF CreateFolder, TypeOK, Owned
  <2>2. u = Founder /\ folder[u] = {} /\ asked' = asked
    BY <1>4 DEF CreateFolder
  <2> QED BY <1>3, <2>1, <2>2 DEF FolderGrows, FirstMember
<1>5. ASSUME NEW x \in Note, Create(u, x) PROVE Goal
  BY <1>2, <1>3, <1>5 DEF Create
<1>10. ASSUME NEW x \in Note, AutoShare(u, x) PROVE Goal
  <2>1. PICK given \in [Note -> SUBSET Chain] :
           asked' = [asked EXCEPT ![u] = [NothingAsked EXCEPT !.given = given]]
    BY <1>10, AutoShareParts
  <2>2. [NothingAsked EXCEPT !.given = given].member = {}
    BY DEF NothingAsked
  <2>3. \A v \in User : asked'[v] = asked[v] \/ asked'[v].member = {}
    BY <2>1, <2>2 DEF TypeOK
  <2>4. folder' = folder
    BY <1>10 DEF AutoShare, tables
  <2> QED BY <1>2, <2>3, <2>4
<1>6. ASSUME NEW x \in Note, NEW w \in User, ShareNote(u, x, w) PROVE Goal
  BY <1>2, <1>3, <1>6 DEF ShareNote
<1>7. ASSUME NEW w \in User, PrepareFolder(u, w) PROVE Goal
  <2>1. PICK m \in For(folder[u], u), own \in Grants(u, w, placed[u]) :
           asked' = [asked EXCEPT ![u] = [to |-> {w}, member |-> {Delegated(m, w)},
                                          given |-> Granted(own, w)]]
    BY <1>7 DEF PrepareFolder
  <2>2. <<u, w>> \in FolderShares /\ For(folder[u], w) = {} /\ folder' = folder
    BY <1>7 DEF PrepareFolder
  <2>3. NewMember(u, Delegated(m, w))
    BY <2>2 DEF NewMember
  <2>4. \A v \in User : /\ v # u => asked'[v] = asked[v]
                        /\ v = u => asked'[v].member = {Delegated(m, w)}
    BY <2>1 DEF TypeOK
  <2>5. Prepared
    BY <2>3, <2>4
  <2> QED BY <1>2, <2>2, <2>5
<1>8. ASSUME SaveShares(u) PROVE Goal
  <2>1. asked' = [asked EXCEPT ![u] = NothingAsked]
    BY <1>8 DEF SaveShares
  <2>2. Prepared
    <3>1. \A v \in User : asked'[v] = asked[v] \/ asked'[v] = NothingAsked
      BY <2>1 DEF TypeOK
    <3> QED BY <3>1 DEF NothingAsked
  <2>3. CASE Fresh(u, asked[u])
    <3>1. \A v \in User :
             folder'[v] = IF v = u THEN folder[v] \cup asked[v].member ELSE folder[v]
      BY <1>8, <2>3 DEF SaveShares, TypeOK
    <3> QED BY <2>2, <3>1 DEF FolderGrows
  <2>4. CASE ~Fresh(u, asked[u])
    BY <1>2, <1>8, <2>2, <2>4 DEF SaveShares
  <2> QED BY <2>3, <2>4
<1>9. Goal
  <2> HIDE DEF Goal
  <2> QED BY <1>4, <1>5, <1>6, <1>7, <1>8, <1>10 DEF UserActs
<1> QED BY <1>1, <1>9

\* Sessions bring records of the folder that somebody has.
LEMMA SessionFolders ==
    ASSUME TypeOK, NEW s \in Session, Connect(s) \/ Step(s)
    PROVE  /\ FolderGrows /\ asked' = asked
           /\ \A v \in User : folder'[v] \subseteq folder[v] \cup session[s].members
           /\ \A t \in Session \ {s} : session'[t] = session[t]
           /\ session'[s].members \subseteq session[s].members \cup AllFolder(folder)
<1> DEFINE old == session[s]
           New == \A v \in User : folder'[v] \subseteq folder[v] \cup old.members
           Goal(st) == /\ Becomes(s, st) /\ FolderGrows /\ asked' = asked /\ New
                       /\ st.members \subseteq old.members \cup AllFolder(folder)
<1>1. /\ old \in SessionState /\ s[1] \in User /\ s[2] \in User
      /\ \A n \in {1, 2} : s[n] \in User
  BY SessionUsers, SessionTyped
<1>2. folder' = folder => FolderGrows /\ New
  BY DEF FolderGrows
<1>3. /\ \A v \in User : folder[v] \subseteq AllFolder(folder)
      /\ Idle.members = {}
  BY DEF AllFolder, Idle
<1>4. \A n \in {1, 2} : UnknownFolder(s, n) \subseteq AllFolder(folder)
  BY <1>1, <1>3 DEF UnknownFolder
<1>5. ASSUME NEW u \in User, folder' = [folder EXCEPT ![u] = @ \cup old.members]
      PROVE  FolderGrows /\ New
  BY <1>5 DEF TypeOK, FolderGrows
<1>6. ASSUME Connect(s) \/ CompareManifests(s) PROVE \E st : Goal(st)
  <2> DEFINE mine == Manifest(s[2], s[1])
             theirs == session[s].sent
             one == [old EXCEPT !.phase = "manifest", !.sent = Manifest(s[1], s[2])]
             two == [old EXCEPT !.phase = "users", !.sent = Nothing,
                                !.todo = Differing(mine, theirs),
                                !.gap = <<Lacks(theirs, mine), Lacks(mine, theirs)>>]
  <2>1. Becomes(s, one) \/ Becomes(s, two)
    BY <1>6 DEF Connect, CompareManifests
  <2>2. one.members = old.members /\ two.members = old.members
    BY <1>1 DEF SessionState
  <2>3. folder' = folder /\ asked' = asked
    BY <1>6 DEF Connect, CompareManifests, tables
  <2> HIDE DEF one, two, old
  <2> QED BY <1>2, <2>1, <2>2, <2>3
<1>7. ASSUME TakeUsers(s) \/ TakeUsersBack(s) PROVE \E st : Goal(st)
  <2> DEFINE one == [old EXCEPT !.phase = "usersBack"]
             two == [old EXCEPT !.phase = "folders", !.members = UnknownFolder(s, 1)]
  <2>1. Becomes(s, one) \/ Becomes(s, two)
    BY <1>7 DEF TakeUsers, TakeUsersBack
  <2>2. one.members = old.members /\ two.members = UnknownFolder(s, 1)
    BY <1>1 DEF SessionState
  <2>3. folder' = folder /\ asked' = asked
    BY <1>7 DEF TakeUsers, TakeUsersBack
  <2> HIDE DEF one, two, old
  <2> QED BY <1>2, <1>4, <2>1, <2>2, <2>3
<1>8. ASSUME TakeFolders(s) PROVE \E st : Goal(st)
  <2> DEFINE one == [old EXCEPT !.phase = "foldersBack", !.members = UnknownFolder(s, 2)]
  <2>1. \/ Becomes(s, one) /\ folder' = [folder EXCEPT ![s[2]] = @ \cup old.members]
        \/ Becomes(s, Idle) /\ folder' = folder
    BY <1>8 DEF TakeFolders, GivesUp
  <2>2. one.members = UnknownFolder(s, 2) /\ asked' = asked
    BY <1>1, <1>8 DEF SessionState, TakeFolders
  <2> HIDE DEF one, old
  <2> QED BY <1>1, <1>2, <1>3, <1>4, <1>5, <2>1, <2>2
<1>9. ASSUME TakeFoldersBack(s) PROVE \E st : Goal(st)
  <2> DEFINE members == folder[s[1]] \cup old.members
             one == [old EXCEPT !.phase = "recipients",
                                !.members = MissingRecipients(s, 1, members)]
  <2>1. \/ Becomes(s, one) /\ folder' = [folder EXCEPT ![s[1]] = @ \cup old.members]
        \/ Becomes(s, Idle) /\ folder' = folder
    BY <1>1, <1>9 DEF TakeFoldersBack, GivesUp
  <2>2. one.members = MissingRecipients(s, 1, members) /\ asked' = asked
    BY <1>1, <1>9 DEF SessionState, TakeFoldersBack
  <2>3. MissingRecipients(s, 1, members) \subseteq folder[s[1]] \cup old.members
    BY DEF MissingRecipients
  <2> HIDE DEF one, old
  <2> QED BY <1>1, <1>2, <1>3, <1>5, <2>1, <2>2, <2>3
<1>10. ASSUME NEW n \in {1, 2}, TakeRecipients(s, n) PROVE \E st : Goal(st)
  <2> DEFINE members == IF n = 2 THEN MissingRecipients(s, 2, folder'[s[n]]) ELSE {}
             one == [old EXCEPT
                        !.phase = IF n = 2 THEN "recipientsBack" ELSE "copies",
                        !.members = members,
                        !.copies = @ \cup {Copy(s[n], s[3 - n], x) : x \in old.gap[n].notes}]
  <2>1. \/ Becomes(s, one) /\ folder' = [folder EXCEPT ![s[n]] = @ \cup old.members]
        \/ Becomes(s, Idle) /\ folder' = folder
    BY <1>10, TakenOrNot DEF Taken, Keeps, tables
  <2>2. one.members = members /\ asked' = asked
    BY <1>1, <1>10 DEF SessionState, TakeRecipients
  <2>3. Becomes(s, one) => members \subseteq old.members \cup folder[s[n]]
    <3>1. CASE folder' = [folder EXCEPT ![s[n]] = @ \cup old.members]
      <4>1. folder'[s[n]] = folder[s[n]] \cup old.members
        BY <1>1, <3>1 DEF TypeOK
      <4> QED BY <4>1 DEF MissingRecipients
    <3>2. CASE folder' = folder
      BY <3>2 DEF MissingRecipients
    <3> QED BY <2>1, <3>1, <3>2
  <2> HIDE DEF one, old, members
  <2> QED BY <1>1, <1>2, <1>3, <1>5, <2>1, <2>2, <2>3
<1>11. ASSUME NEW c \in session[s].copies, TakeCopy(s, c) PROVE \E st : Goal(st)
  <2> DEFINE todo == IF c.to = s[2] /\ old.todo # {} /\ old.gap[2].notes # {}
                     THEN {} ELSE old.todo
             one == [old EXCEPT !.copies = @ \ {c}]
             two == [old EXCEPT !.copies = @ \ {c}, !.todo = todo]
  <2>1. Becomes(s, one) \/ Becomes(s, two)
    BY <1>11 DEF TakeCopy
  <2>2. one.members = old.members /\ two.members = old.members
    BY <1>1 DEF SessionState
  <2>3. folder' = folder /\ asked' = asked
    BY <1>11 DEF TakeCopy
  <2> HIDE DEF one, two, old
  <2> QED BY <1>2, <2>1, <2>2, <2>3
<1>12. ASSUME \/ CopiesDone(s) \/ Refused(s) \/ SyncDone(s) \/ MergeStep(s)
              \/ \E x \in session[s].todo : RequestUpdates(s, x)
       PROVE  \E st : Goal(st)
  <2>1. folder' = folder /\ asked' = asked
    BY <1>12 DEF CopiesDone, Refused, SyncDone, MergeStep, AnswerRequest, AnswerUpdates,
                 MergeKeys, CompareClocks, InsertClocks, MergeShares, AcceptClocks,
                 AcceptShares, AcceptKeys, RequestUpdates, tables
  <2> DEFINE Same(st) == Becomes(s, st) /\ (st = Idle \/ st.members = old.members)
             Stays == \E st : Same(st)
  <2>2. Stays
    <3>2. ASSUME CopiesDone(s) \/ Refused(s) \/ SyncDone(s) PROVE Stays
      <4> DEFINE one == [old EXCEPT !.phase = "merging"]
                 two == [old EXCEPT !.phase = "merging", !.merge = NoMerge, !.answer = NoMerge,
                                    !.todo = IF At(s, "merging") THEN {} ELSE @]
      <4>1. Becomes(s, one) \/ Becomes(s, two) \/ Becomes(s, Idle)
        BY <3>2 DEF CopiesDone, Refused, SyncDone, GivesUp
      <4>2. one.members = old.members /\ two.members = old.members
        BY <1>1 DEF SessionState
      <4> HIDE DEF one, two
      <4> QED BY <4>1, <4>2
    <3>3. ASSUME MergeStep(s) PROVE Stays
      <4>1. \A phase, m, a : Merging(s, phase, m, a).members = old.members
        BY <1>1 DEF SessionState, Merging
      <4>2. \E phase, m, a : Becomes(s, Merging(s, phase, m, a))
        BY <3>3, MergeSteps DEF MergeStep
      <4> QED BY <4>1, <4>2
    <3>7. ASSUME NEW x \in session[s].todo, RequestUpdates(s, x) PROVE Stays
      <4>1. PICK own \in OwnRecords(s[1], x) :
               Becomes(s, [old EXCEPT !.phase = "request", !.todo = @ \ {x},
                               !.merge = [NoMerge EXCEPT !.note = x, !.shares = {own}]])
        BY <3>7 DEF RequestUpdates
      <4> DEFINE one == [old EXCEPT !.phase = "request", !.todo = @ \ {x},
                            !.merge = [NoMerge EXCEPT !.note = x, !.shares = {own}]]
      <4>2. one.members = old.members
        BY <1>1 DEF SessionState
      <4>3. Becomes(s, one)
        BY <4>1
      <4> HIDE DEF one
      <4> QED BY <4>2, <4>3
    <3> HIDE DEF Stays
    <3> QED BY <1>12, <3>2, <3>3, <3>7
  <2> QED BY <1>2, <1>3, <2>1, <2>2
<1>13. PICK st : Goal(st)
  <2> HIDE DEF Goal
  <2> QED BY <1>6, <1>7, <1>8, <1>9, <1>10, <1>11, <1>12 DEF Step, MergeStep
<1>14. session'[s] = st /\ \A t \in Session \ {s} : session'[t] = session[t]
  BY <1>13 DEF Becomes, TypeOK
<1> QED BY <1>13, <1>14

\* A new record goes back to the founder too.
LEMMA NewMemberParts ==
    ASSUME TypeOK, FolderRooted, NEW u \in User, NEW p, NewMember(u, p)
    PROVE  /\ p \in Chain /\ p[1] = Founder /\ Len(p) # 1 /\ Sharer(p) = u
           /\ <<u, Recipient(p)>> \in FolderShares /\ For(folder[u], Recipient(p)) = {}
<1>1. PICK m \in For(folder[u], u), w \in User :
         p = Delegated(m, w) /\ <<u, w>> \in FolderShares /\ For(folder[u], w) = {}
  BY DEF NewMember
<1>2. m \in folder[u] /\ Recipient(m) = u /\ m \in Chain
  BY <1>1 DEF For, TypeOK
<1>3. m[1] = Founder
  BY <1>2 DEF FolderRooted, FolderRecords, AllFolder
<1>4. /\ p \in Chain /\ Len(p) = Len(m) + 1 /\ Recipient(p) = w
      /\ Sharer(p) = u /\ p[1] = m[1]
  BY <1>1, <1>2, DelegatedParts
<1>5. Len(m) \in Nat /\ 1 <= Len(m)
  BY <1>2, ChainLength
<1>6. Len(p) # 1
  BY <1>4, <1>5
<1> QED BY <1>1, <1>3, <1>4, <1>6

\* A program that ends leaves the records, and carries no more.
LEMMA FolderStops ==
    ASSUME TypeOK, NEW u \in User, Stops(u)
    PROVE  /\ folder' = folder /\ FolderRecords' \subseteq FolderRecords
           /\ \A t \in Session : session'[t] = session[t] \/ session'[t] = Idle
           /\ \A v \in User : asked'[v] = asked[v] \/ asked'[v] = NothingAsked
<1>1. /\ folder' = folder
      /\ \A t \in Session : session'[t] = session[t] \/ session'[t] = Idle
      /\ \A v \in User : asked'[v] = asked[v] \/ asked'[v] = NothingAsked
  BY DEF Stops, TypeOK, tables
<1>2. NothingAsked.member = {}
  BY DEF NothingAsked
<1> QED BY <1>1, <1>2 DEF FolderRecords, AllFolder

LEMMA FolderBaseNext ==
    ASSUME TypeOK, FolderBase, [Next]_vars PROVE FolderBase' /\ FolderGrows
<1>1. ASSUME NEW u \in User, UserActs(u) PROVE FolderBase' /\ FolderGrows
  <2>1. /\ FolderGrows /\ session' = session
        /\ \A v \in User : \A p \in folder'[v] :
              p \in folder[v] \/ p \in asked[v].member \/ FirstMember(v, p)
        /\ \A v \in User : \A p \in asked'[v].member :
              p \in asked[v].member \/ NewMember(v, p)
    BY <1>1, UserFolders
  <2>2. \A p \in FolderRecords' :
           p \in FolderRecords \/ (\E v \in User : FirstMember(v, p) \/ NewMember(v, p))
    BY <2>1 DEF FolderRecords, AllFolder
  <2>3. ASSUME NEW v \in User, NEW p, FirstMember(v, p) PROVE p[1] = Founder /\ Len(p) = 1
    BY <2>3 DEF FirstMember
  <2>4. FolderRooted'
    BY <2>2, <2>3, NewMemberParts DEF FolderBase, FolderRooted
  <2>5. AllFolder(folder) \subseteq AllFolder(folder')
    BY <2>1 DEF FolderGrows, AllFolder
  <2>6. MembersSent'
    BY <2>1, <2>5 DEF FolderBase, MembersSent
  <2> QED BY <2>1, <2>4, <2>6 DEF FolderBase
<1>2. ASSUME NEW s \in Session, Connect(s) \/ Step(s) PROVE FolderBase' /\ FolderGrows
  <2>1. /\ FolderGrows /\ asked' = asked
        /\ \A v \in User : folder'[v] \subseteq folder[v] \cup session[s].members
        /\ \A t \in Session \ {s} : session'[t] = session[t]
        /\ session'[s].members \subseteq session[s].members \cup AllFolder(folder)
    BY <1>2, SessionFolders
  <2>2. session[s].members \subseteq AllFolder(folder)
    BY DEF FolderBase, MembersSent
  <2>3. AllFolder(folder') = AllFolder(folder)
    <3>1. AllFolder(folder') \subseteq AllFolder(folder)
      BY <2>1, <2>2 DEF AllFolder
    <3>2. AllFolder(folder) \subseteq AllFolder(folder')
      BY <2>1 DEF AllFolder, FolderGrows
    <3> QED BY <3>1, <3>2
  <2>4. FolderRooted'
    BY <2>1, <2>3 DEF FolderBase, FolderRooted, FolderRecords
  <2>5. MembersSent'
    BY <2>1, <2>2, <2>3 DEF FolderBase, MembersSent
  <2> QED BY <2>1, <2>4, <2>5 DEF FolderBase
<1>3. ASSUME NEW u \in User, Stops(u) PROVE FolderBase' /\ FolderGrows
  <2>1. Idle.members = {}
    BY DEF Idle
  <2>2. FolderRooted' /\ MembersSent'
    BY <1>3, <2>1, FolderStops DEF FolderBase, FolderRooted, MembersSent
  <2> QED BY <1>3, <2>2, FolderStops DEF FolderBase, FolderGrows
<1>4. CASE UNCHANGED vars
  BY <1>4 DEF vars, FolderBase, FolderRooted, FolderRecords, AllFolder, MembersSent, FolderGrows
<1> QED BY <1>1, <1>2, <1>3, <1>4, NextSteps

LEMMA FolderBaseInit == Init => FolderBase
<1> SUFFICES ASSUME Init PROVE FolderBase
  OBVIOUS
<1>1. FolderRecords = {}
  BY DEF Init, FolderRecords, AllFolder, NothingAsked
<1>2. MembersSent
  BY DEF Init, MembersSent, Idle
<1> QED BY <1>1, <1>2 DEF FolderBase, FolderRooted

----------------------------------------------------------------------------
(* The proofs of the folder's records.                                     *)

\* Nobody is given the folder by two users.
OneFolderSharer ==
    \A u, v, w \in User : <<u, w>> \in FolderShares /\ <<v, w>> \in FolderShares => u = v

OneFolderRecord == \A p, q \in FolderRecords : Recipient(p) = Recipient(q) => p = q

FounderFirst == FolderRecords # {} => folder[Founder] # {}

FolderHangs == \A u \in User : /\ HangsOn(folder[u], folder[u])
                               /\ HangsOn(asked[u].member, folder[u])

\* W are recipients of P's records, and with them all users of the records but
\* those in V.
Whole(W, V, P) ==
    /\ W \subseteq Recipients(P)
    /\ \A p \in P : Recipient(p) \in W => \A k \in 1 .. Len(p) : p[k] \in W \cup V

(***************************************************************************)
(* What a sync carries of the folder: the folder with all proofs, or the   *)
(* records of recipients that the other end lacks, with the proofs that it *)
(* lacks; before that the recipients, listed or lacking, with all users of *)
(* their records.                                                          *)
(***************************************************************************)
FolderBy(s, st, fo) ==
    /\ st.phase \in {"folders", "foldersBack"} => HangsOn(st.members, st.members)
    /\ st.phase = "recipients" => HangsOn(st.members, st.members \cup fo[s[2]])
    /\ st.phase = "recipientsBack" => HangsOn(st.members, st.members \cup fo[s[1]])
    /\ st.phase = "manifest" => Whole(st.sent.members, {}, fo[s[1]])
    /\ st.phase \in {"users", "usersBack", "folders", "foldersBack", "recipients"} =>
          /\ Whole(st.gap[1].members, Recipients(fo[s[2]]), fo[s[1]])
          /\ Whole(st.gap[2].members, Recipients(fo[s[1]]), fo[s[2]])

FolderMessages == \A s \in Session : FolderBy(s, session[s], folder)

FInv == OneFolderRecord /\ FounderFirst /\ FolderHangs /\ FolderMessages

LEMMA FolderTyped ==
    ASSUME TypeOK PROVE FolderRecords \subseteq Chain
BY DEF TypeOK, FolderRecords, AllFolder, Asked

\* A record of one who was given the folder stands where its sharer's does.
LEMMA FrontMember ==
    ASSUME TypeOK, FolderHangs, NEW p \in FolderRecords, Len(p) # 1
    PROVE  SubSeq(p, 1, Len(p) - 1) \in FolderRecords
<1>1. p \in Chain
  BY FolderTyped
<1>2. Len(p) - 1 \in 1 .. Len(p) - 1
  <2>1. Len(p) \in Nat /\ 1 <= Len(p)
    BY <1>1, ChainLength
  <2>2. \A n \in Nat : 1 <= n /\ n # 1 => n - 1 \in 1 .. n - 1
    OBVIOUS
  <2> QED BY <2>1, <2>2
<1>3. PICK u \in User : p \in folder[u] \/ p \in asked[u].member
  BY DEF FolderRecords, AllFolder
<1>4. SubSeq(p, 1, Len(p) - 1) \in folder[u]
  BY <1>2, <1>3 DEF FolderHangs, HangsOn
<1> QED BY <1>4 DEF FolderRecords, AllFolder

\* Whoever has the folder has its founder's record.
LEMMA FounderRecord ==
    ASSUME TypeOK, FolderRooted, FolderHangs, NEW u \in User, folder[u] # {}
    PROVE  For(folder[u], Founder) # {}
<1>1. PICK p : p \in folder[u]
  OBVIOUS
<1>2. p \in Chain /\ p[1] = Founder
  BY <1>1 DEF TypeOK, FolderRooted, FolderRecords, AllFolder
<1>3. folder[u] \subseteq Chain /\ HangsOn(folder[u], folder[u])
  BY DEF TypeOK, FolderHangs
<1>4. 1 \in 1 .. Len(p)
  BY <1>2, ChainLength
<1>5. SubSeq(p, 1, 1) \in folder[u]
  BY <1>1, <1>3, <1>4, ClosedHangs DEF Closed
<1>6. Recipient(SubSeq(p, 1, 1)) = Founder
  BY <1>2, <1>4, Beginning
<1> QED BY <1>5, <1>6 DEF For

\* There is no second record of the folder for anybody.
LEMMA NewMemberIsFirst ==
    ASSUME TypeOK, FInv, FolderRooted, OneFolderSharer, NEW u \in User,
           NEW p, NewMember(u, p), NEW q \in FolderRecords, Recipient(q) = Recipient(p)
    PROVE  q = p
<1>1. PICK m \in For(folder[u], u), w \in User :
         p = Delegated(m, w) /\ <<u, w>> \in FolderShares /\ For(folder[u], w) = {}
  BY DEF NewMember
<1>2. m \in folder[u] /\ Recipient(m) = u /\ m \in Chain /\ m \in FolderRecords
  BY <1>1 DEF For, TypeOK, FolderRecords, AllFolder
<1>3. Recipient(p) = w
  BY <1>1, <1>2, DelegatedParts
<1>4. q \in Chain
  BY FolderTyped
<1>5. CASE Len(q) = 1
  <2>1. Recipient(q) = Founder
    BY <1>5 DEF FolderRooted, Recipient
  <2>2. For(folder[u], Founder) # {}
    BY <1>2, FounderRecord DEF FInv
  <2> QED BY <1>1, <1>3, <2>1, <2>2
<1>6. CASE Len(q) # 1
  <2> DEFINE front == SubSeq(q, 1, Len(q) - 1)
  <2>1. Recipient(front) = Sharer(q) /\ q = Delegated(front, Recipient(q))
    BY <1>4, <1>6, PassedOn
  <2>2. <<Sharer(q), w>> \in FolderShares /\ Sharer(q) \in User
    BY <1>3, <1>4, <1>6, ChainUsers DEF FolderRooted
  <2>3. Sharer(q) = u
    BY <1>1, <2>2 DEF OneFolderSharer
  <2>4. front \in FolderRecords
    BY <1>6, FrontMember DEF FInv
  <2> HIDE DEF front
  <2>5. front = m
    BY <1>2, <2>1, <2>3, <2>4 DEF FInv, OneFolderRecord
  <2> QED BY <1>1, <1>3, <2>1, <2>5
<1> QED BY <1>5, <1>6

LEMMA NewMembersAgree ==
    ASSUME TypeOK, FInv, FolderRooted, OneFolderSharer, NEW u \in User, NEW v \in User,
           NEW p, NewMember(u, p), NEW q, NewMember(v, q), Recipient(q) = Recipient(p)
    PROVE  q = p
<1>1. PICK m \in For(folder[u], u), w \in User :
         p = Delegated(m, w) /\ <<u, w>> \in FolderShares
  BY DEF NewMember
<1>2. PICK n \in For(folder[v], v), z \in User :
         q = Delegated(n, z) /\ <<v, z>> \in FolderShares
  BY DEF NewMember
<1>3. /\ m \in Chain /\ m \in FolderRecords /\ Recipient(m) = u
      /\ n \in Chain /\ n \in FolderRecords /\ Recipient(n) = v
  BY <1>1, <1>2 DEF For, TypeOK, FolderRecords, AllFolder
<1>4. w = z
  BY <1>1, <1>2, <1>3, DelegatedParts
<1>5. u = v
  BY <1>1, <1>2, <1>4 DEF OneFolderSharer
<1>6. m = n
  BY <1>3, <1>5 DEF FInv, OneFolderRecord
<1> QED BY <1>1, <1>2, <1>4, <1>6

\* Each user stays the one recipient of its record.
LEMMA OneFolderNext ==
    ASSUME TypeOK, FInv, FolderBase, OneFolderSharer, [Next]_vars
    PROVE  OneFolderRecord' /\ FounderFirst' /\ FolderGrows
<1> DEFINE New(p) == \E u \in User : NewMember(u, p)
           First(p) == \E u \in User : FirstMember(u, p)
<1>1. FolderGrows
  BY FolderBaseNext
<1>2. \A p \in FolderRecords' : p \in FolderRecords \/ First(p) \/ New(p)
  <2>1. ASSUME NEW u \in User, UserActs(u)
        PROVE  \A p \in FolderRecords' : p \in FolderRecords \/ First(p) \/ New(p)
    <3>1. /\ \A v \in User : \A p \in folder'[v] :
                p \in folder[v] \/ p \in asked[v].member \/ FirstMember(v, p)
          /\ \A v \in User : \A p \in asked'[v].member :
                p \in asked[v].member \/ NewMember(v, p)
      BY <2>1, UserFolders
    <3> QED BY <3>1 DEF FolderRecords, AllFolder
  <2>2. ASSUME NEW s \in Session, Connect(s) \/ Step(s)
        PROVE  FolderRecords' \subseteq FolderRecords
    <3>1. /\ asked' = asked
          /\ \A v \in User : folder'[v] \subseteq folder[v] \cup session[s].members
      BY <2>2, SessionFolders
    <3>2. session[s].members \subseteq AllFolder(folder)
      BY DEF FolderBase, MembersSent
    <3>3. AllFolder(folder') \subseteq AllFolder(folder)
      BY <3>1, <3>2 DEF AllFolder
    <3> QED BY <3>1, <3>3 DEF FolderRecords
  <2>3. ASSUME NEW u \in User, Stops(u) PROVE FolderRecords' \subseteq FolderRecords
    BY <2>3, FolderStops
  <2>4. CASE UNCHANGED vars
    BY <2>4 DEF vars, FolderRecords, AllFolder
  <2> HIDE DEF New, First
  <2> QED BY <2>1, <2>2, <2>3, <2>4, NextSteps
<1>3. ASSUME NEW p, First(p) PROVE p = <<Founder>> /\ FolderRecords = {}
  BY <1>3 DEF FirstMember, FInv, FounderFirst
<1>4. ASSUME NEW p, New(p) PROVE FolderRecords # {}
  <2>1. PICK u \in User : NewMember(u, p)
    BY <1>4
  <2>2. folder[u] # {}
    BY <2>1 DEF NewMember, For
  <2> QED BY <2>2 DEF FolderRecords, AllFolder
<1>5. ASSUME NEW p \in FolderRecords', NEW q \in FolderRecords', Recipient(p) = Recipient(q)
      PROVE  p = q
  <2>1. CASE p \in FolderRecords /\ q \in FolderRecords
    BY <1>5, <2>1 DEF FInv, OneFolderRecord
  <2>2. CASE New(p) /\ q \in FolderRecords
    BY <1>5, <2>2, NewMemberIsFirst DEF FolderBase
  <2>3. CASE New(q) /\ p \in FolderRecords
    BY <1>5, <2>3, NewMemberIsFirst DEF FolderBase
  <2>4. CASE New(p) /\ New(q)
    BY <1>5, <2>4, NewMembersAgree DEF FolderBase
  <2>5. CASE First(p) /\ First(q)
    BY <1>3, <2>5
  <2>6. CASE (First(p) /\ ~First(q)) \/ (First(q) /\ ~First(p))
    BY <1>2, <1>3, <1>4, <2>6
  <2> HIDE DEF New, First
  <2> QED BY <1>2, <2>1, <2>2, <2>3, <2>4, <2>5, <2>6
<1>6. FounderFirst'
  <2>1. CASE FolderRecords # {}
    BY <1>1, <2>1, CreatorAssumption DEF FInv, FounderFirst, FolderGrows
  <2>2. CASE FolderRecords = {}
    <3>1. ASSUME NEW u \in User, UserActs(u) PROVE FounderFirst'
      <4>1. /\ \A v \in User : \A p \in folder'[v] :
                  p \in folder[v] \/ p \in asked[v].member \/ FirstMember(v, p)
            /\ \A v \in User : \A p \in asked'[v].member :
                  p \in asked[v].member \/ NewMember(v, p)
        BY <3>1, UserFolders
      <4>2. \A v \in User : folder[v] = {} /\ asked[v].member = {}
        BY <2>2 DEF FolderRecords, AllFolder
      <4>3. \A v \in User : \A p : ~NewMember(v, p)
        BY <4>2 DEF NewMember, For
      <4>4. \A v \in User : asked'[v].member = {} /\ \A p \in folder'[v] : v = Founder
        BY <4>1, <4>2, <4>3 DEF FirstMember
      <4> QED BY <4>4 DEF FounderFirst, FolderRecords, AllFolder
    <3>2. ASSUME NEW s \in Session, Connect(s) \/ Step(s) PROVE FolderRecords' = {}
      <4>1. /\ asked' = asked
            /\ \A v \in User : folder'[v] \subseteq folder[v] \cup session[s].members
        BY <3>2, SessionFolders
      <4>2. session[s].members \subseteq AllFolder(folder)
        BY DEF FolderBase, MembersSent
      <4>3. AllFolder(folder') \subseteq AllFolder(folder)
        BY <4>1, <4>2 DEF AllFolder
      <4> QED BY <2>2, <4>1, <4>3 DEF FolderRecords
    <3>3. ASSUME NEW u \in User, Stops(u) PROVE FolderRecords' = {}
      BY <2>2, <3>3, FolderStops
    <3>4. CASE UNCHANGED vars
      BY <2>2, <3>4 DEF vars, FolderRecords, AllFolder, FounderFirst
    <3> QED BY <3>1, <3>2, <3>3, <3>4, NextSteps DEF FounderFirst
  <2> QED BY <2>1, <2>2
<1> QED BY <1>1, <1>5, <1>6 DEF OneFolderRecord

----------------------------------------------------------------------------
(* Recipients and the users of their records.                              *)

LEMMA WholeGrows ==
    ASSUME NEW W, NEW V, NEW P, NEW V1, NEW P1, Whole(W, V, P), V \subseteq V1, P \subseteq P1,
           \A p, q \in P1 : Recipient(p) = Recipient(q) => p = q
    PROVE  Whole(W, V1, P1)
BY DEF Whole, Recipients

LEMMA NobodyWhole == \A V, P : Whole({}, V, P)
BY DEF Whole

\* All recipients of records that are with their proofs.
LEMMA AllWhole ==
    ASSUME NEW P, P \subseteq Chain, HangsOn(P, P), NEW V
    PROVE  /\ Whole(Recipients(P), V, P)
           /\ \A p \in P : \A k \in 1 .. Len(p) : p[k] \in Recipients(P)
<1>1. ASSUME NEW p \in P, NEW k \in 1 .. Len(p) PROVE p[k] \in Recipients(P)
  <2>1. SubSeq(p, 1, k) \in P /\ Recipient(SubSeq(p, 1, k)) = p[k]
    BY ClosedHangs, Beginning DEF Closed
  <2> QED BY <2>1 DEF Recipients
<1> QED BY <1>1 DEF Whole

\* Those of them that another one lacks.
LEMMA LackingWhole ==
    ASSUME NEW W, NEW V, NEW P, Whole(W, {}, P)
    PROVE  Whole(W \ V, V, P)
BY DEF Whole

\* Records of recipients whom another one lacks hang on one another and on the
\* other's.
LEMMA LackingHang ==
    ASSUME NEW P, NEW Q, NEW W, P \subseteq Chain, Q \subseteq Chain, HangsOn(P, P),
           Whole(W, Recipients(Q), P),
           \A p, q \in P \cup Q : Recipient(p) = Recipient(q) => p = q
    PROVE  LET sent == {p \in P : Recipient(p) \in W} IN HangsOn(sent, sent \cup Q)
<1> DEFINE sent == {p \in P : Recipient(p) \in W}
<1> SUFFICES ASSUME NEW p \in sent, NEW k \in 1 .. Len(p) - 1
             PROVE  SubSeq(p, 1, k) \in sent \cup Q
  BY DEF HangsOn
<1>1. p \in P /\ p \in Chain /\ Recipient(p) \in W
  OBVIOUS
<1>2. k \in 1 .. Len(p)
  <2>1. Len(p) \in Nat
    BY <1>1, ChainLength
  <2> QED BY <2>1
<1>3. SubSeq(p, 1, k) \in P /\ Recipient(SubSeq(p, 1, k)) = p[k]
  BY <1>1, <1>2, Beginning DEF HangsOn
<1>4. p[k] \in W \cup Recipients(Q)
  BY <1>1, <1>2 DEF Whole
<1>5. CASE p[k] \in Recipients(Q)
  <2>1. PICK q \in Q : Recipient(q) = p[k]
    BY <1>5 DEF Recipients
  <2> QED BY <1>3, <2>1
<1> QED BY <1>3, <1>4, <1>5

----------------------------------------------------------------------------
(* What a sync carries of the folder.                                      *)

\* A message about the folder may be carried on while the folders grow.
LEMMA FolderByGrows ==
    ASSUME FolderGrows, OneFolderRecord', NEW s \in Session, NEW st, FolderBy(s, st, folder)
    PROVE  FolderBy(s, st, folder')
<1>1. /\ s[1] \in User /\ s[2] \in User
      /\ folder[s[1]] \subseteq folder'[s[1]] /\ folder[s[2]] \subseteq folder'[s[2]]
  BY SessionUsers DEF FolderGrows
<1>2. \A u \in User : \A p, q \in folder'[u] : Recipient(p) = Recipient(q) => p = q
  BY DEF OneFolderRecord, FolderRecords, AllFolder
<1>3. /\ Recipients(folder[s[1]]) \subseteq Recipients(folder'[s[1]])
      /\ Recipients(folder[s[2]]) \subseteq Recipients(folder'[s[2]])
  BY <1>1 DEF Recipients
<1>4. st.phase = "manifest" => Whole(st.sent.members, {}, folder'[s[1]])
  BY <1>1, <1>2, WholeGrows DEF FolderBy
<1>5. Whole(st.gap[1].members, Recipients(folder[s[2]]), folder[s[1]]) =>
         Whole(st.gap[1].members, Recipients(folder'[s[2]]), folder'[s[1]])
  BY <1>1, <1>2, <1>3, WholeGrows
<1>6. Whole(st.gap[2].members, Recipients(folder[s[1]]), folder[s[2]]) =>
         Whole(st.gap[2].members, Recipients(folder'[s[1]]), folder'[s[2]])
  BY <1>1, <1>2, <1>3, WholeGrows
<1>7. \A u \in User : HangsOn(st.members, st.members \cup folder[u]) =>
                      HangsOn(st.members, st.members \cup folder'[u])
  BY DEF HangsOn, FolderGrows
<1> QED BY <1>1, <1>4, <1>5, <1>6, <1>7 DEF FolderBy

\* A step of one session concerns no other.
LEMMA FolderStep ==
    ASSUME TypeOK, FolderMessages, FolderGrows, OneFolderRecord', NEW s \in Session, NEW st,
           Becomes(s, st), FolderBy(s, st, folder')
    PROVE  FolderMessages'
<1> SUFFICES ASSUME NEW t \in Session PROVE FolderBy(t, session'[t], folder')
  BY DEF FolderMessages
<1>1. CASE t = s
  BY <1>1 DEF Becomes, TypeOK
<1>2. CASE t # s
  <2>1. session'[t] = session[t]
    BY <1>2 DEF Becomes, TypeOK
  <2> QED BY <2>1, FolderByGrows DEF FolderMessages
<1> QED BY <1>1, <1>2

FolderPhases == {"manifest", "users", "usersBack", "folders", "foldersBack", "recipients",
                 "recipientsBack"}

\* After the folder, a sync carries nothing of it.
LEMMA FolderQuiet ==
    ASSUME NEW s, NEW st, NEW fo, st.phase \notin FolderPhases PROVE FolderBy(s, st, fo)
BY DEF FolderBy, FolderPhases

\* A record that is taken with its proofs leaves them all there.
LEMMA TakenHangs ==
    ASSUME TypeOK, FolderHangs, NEW u \in User, NEW P, HangsOn(P, P \cup folder[u]),
           folder' = [folder EXCEPT ![u] = @ \cup P], asked' = asked
    PROVE  FolderHangs'
<1> SUFFICES ASSUME NEW v \in User
             PROVE  HangsOn(folder'[v], folder'[v]) /\ HangsOn(asked'[v].member, folder'[v])
  BY DEF FolderHangs
<1>1. folder'[v] = IF v = u THEN folder[v] \cup P ELSE folder[v]
  BY DEF TypeOK
<1>2. HangsOn(folder[v], folder'[v]) /\ HangsOn(asked'[v].member, folder'[v])
  BY <1>1, HangsMore DEF FolderHangs
<1>3. v = u => HangsOn(P, folder'[v])
  BY <1>1, HangsMore
<1> QED BY <1>1, <1>2, <1>3, HangsUnion

\* Manifests list the folder's recipients, and what one lacks is some of them.
LEMMA ManifestFolder ==
    ASSUME TypeOK, FolderHangs, NEW u \in User, NEW w \in User
    PROVE  /\ Whole(Manifest(u, w).members, {}, folder[u])
           /\ Manifest(u, w).members # {} => Manifest(u, w).members = Recipients(folder[u])
<1>1. Manifest(u, w).members = MembersFor(u, w)
  BY DEF Manifest
<1>2. folder[u] \subseteq Chain /\ HangsOn(folder[u], folder[u])
  BY DEF TypeOK, FolderHangs
<1>3. Whole(Recipients(folder[u]), {}, folder[u])
  BY <1>2, AllWhole
<1> QED BY <1>1, <1>3, NobodyWhole DEF MembersFor

LEMMA GapFolder ==
    ASSUME TypeOK, FolderHangs, NEW u \in User, NEW v \in User, NEW theirs,
           Whole(theirs.members, {}, folder[u])
    PROVE  LET mine == Manifest(v, u)
           IN  /\ Whole(Lacks(theirs, mine).members, Recipients(folder[v]), folder[u])
               /\ Whole(Lacks(mine, theirs).members, Recipients(folder[u]), folder[v])
<1> DEFINE mine == Manifest(v, u)
           M == mine.members
           T == theirs.members
<1>1. Whole(M, {}, folder[v]) /\ (M # {} => M = Recipients(folder[v]))
  BY ManifestFolder
<1>2. T \subseteq Recipients(folder[u])
  BY DEF Whole
<1>3. /\ Lacks(theirs, mine).members = IF M = {} THEN {} ELSE T \ M
      /\ Lacks(mine, theirs).members = IF T = {} THEN {} ELSE M \ T
  BY DEF Lacks, LacksMembers
<1>4. Whole(IF M = {} THEN {} ELSE T \ M, Recipients(folder[v]), folder[u])
  <2>1. Whole(T \ M, M, folder[u])
    BY LackingWhole
  <2> QED BY <1>1, <2>1, NobodyWhole
<1>5. Whole(IF T = {} THEN {} ELSE M \ T, Recipients(folder[u]), folder[v])
  <2>1. Whole(M \ T, T, folder[v])
    BY <1>1, LackingWhole
  <2>2. Whole(M \ T, Recipients(folder[u]), folder[v])
    BY <1>2, <2>1 DEF Whole
  <2> QED BY <2>2, NobodyWhole
<1> QED BY <1>3, <1>4, <1>5

\* The messages that carry it.
LEMMA FolderPhasesHang ==
    ASSUME TypeOK, FInv, FolderGrows, OneFolderRecord', NEW s \in Session,
           \/ Connect(s) \/ CompareManifests(s) \/ TakeUsers(s) \/ TakeUsersBack(s)
           \/ TakeFolders(s) \/ TakeFoldersBack(s) \/ \E n \in {1, 2} : TakeRecipients(s, n)
    PROVE  FolderHangs' /\ FolderMessages'
<1> DEFINE old == session[s]
<1>1. /\ old \in SessionState /\ s[1] \in User /\ s[2] \in User /\ s[1] # s[2]
      /\ FolderBy(s, old, folder) /\ FolderBy(s, old, folder')
  BY SessionUsers, SessionTyped, FolderByGrows DEF FInv, FolderMessages
<1>2. \A u \in User : /\ folder[u] \subseteq Chain /\ HangsOn(folder[u], folder[u])
                      /\ \A P : HangsOn(P, P) => HangsOn(P, P \cup folder[u])
  BY DEF TypeOK, FInv, FolderHangs, HangsOn
<1>3. ASSUME NEW st, Becomes(s, st), FolderBy(s, st, folder) PROVE FolderMessages'
  BY <1>3, FolderByGrows, FolderStep DEF FInv
<1>4. folder' = folder /\ asked' = asked => FolderHangs'
  BY DEF FInv, FolderHangs
<1>5. ASSUME Becomes(s, Idle), folder' = folder, asked' = asked
      PROVE  FolderHangs' /\ FolderMessages'
  <2>1. Idle.phase \notin FolderPhases
    BY DEF Idle, FolderPhases
  <2> QED BY <1>3, <1>4, <1>5, <2>1, FolderQuiet
<1>6. HangsOn({}, {}) /\ \A n \in {1, 2} : HangsOn(UnknownFolder(s, n), UnknownFolder(s, n))
  BY <1>1, <1>2 DEF UnknownFolder, HangsOn
<1>7. ASSUME Connect(s) PROVE FolderHangs' /\ FolderMessages'
  <2> DEFINE st == [old EXCEPT !.phase = "manifest", !.sent = Manifest(s[1], s[2])]
  <2>1. Becomes(s, st) /\ folder' = folder /\ asked' = asked
    BY <1>7 DEF Connect
  <2>2. st.phase = "manifest" /\ st.sent = Manifest(s[1], s[2])
    BY <1>1 DEF SessionState
  <2>3. Whole(Manifest(s[1], s[2]).members, {}, folder[s[1]])
    BY <1>1, ManifestFolder DEF FInv
  <2> HIDE DEF st
  <2>4. FolderBy(s, st, folder)
    BY <2>2, <2>3 DEF FolderBy
  <2> QED BY <1>3, <1>4, <2>1, <2>4
<1>8. ASSUME CompareManifests(s) PROVE FolderHangs' /\ FolderMessages'
  <2> DEFINE mine == Manifest(s[2], s[1])
             theirs == session[s].sent
             st == [old EXCEPT
                       !.phase = "users", !.sent = Nothing, !.todo = Differing(mine, theirs),
                       !.gap = <<Lacks(theirs, mine), Lacks(mine, theirs)>>]
  <2>1. /\ Becomes(s, st) /\ folder' = folder /\ asked' = asked
        /\ session[s].phase = "manifest"
    BY <1>8 DEF CompareManifests, tables, At
  <2>2. /\ st.phase = "users" /\ st.gap[1] = Lacks(theirs, mine)
        /\ st.gap[2] = Lacks(mine, theirs)
    BY <1>1 DEF SessionState
  <2>3. /\ Whole(Lacks(theirs, mine).members, Recipients(folder[s[2]]), folder[s[1]])
        /\ Whole(Lacks(mine, theirs).members, Recipients(folder[s[1]]), folder[s[2]])
    <3>1. Whole(theirs.members, {}, folder[s[1]])
      BY <1>1, <2>1 DEF FolderBy
    <3> QED BY <1>1, <3>1, GapFolder DEF FInv
  <2> HIDE DEF st
  <2>4. FolderBy(s, st, folder)
    BY <2>2, <2>3 DEF FolderBy
  <2> QED BY <1>3, <1>4, <2>1, <2>4
<1>9. ASSUME TakeUsers(s) PROVE FolderHangs' /\ FolderMessages'
  <2> DEFINE st == [old EXCEPT !.phase = "usersBack"]
  <2>1. Becomes(s, st) /\ folder' = folder /\ asked' = asked /\ old.phase = "users"
    BY <1>9 DEF TakeUsers, At
  <2>2. st.phase = "usersBack" /\ st.gap = old.gap
    BY <1>1 DEF SessionState
  <2> HIDE DEF st
  <2>3. FolderBy(s, st, folder)
    BY <1>1, <2>1, <2>2 DEF FolderBy
  <2> QED BY <1>3, <1>4, <2>1, <2>3
<1>10. ASSUME TakeUsersBack(s) PROVE FolderHangs' /\ FolderMessages'
  <2> DEFINE st == [old EXCEPT !.phase = "folders", !.members = UnknownFolder(s, 1)]
  <2>1. Becomes(s, st) /\ folder' = folder /\ asked' = asked /\ old.phase = "usersBack"
    BY <1>10 DEF TakeUsersBack, At
  <2>2. st.phase = "folders" /\ st.gap = old.gap /\ st.members = UnknownFolder(s, 1)
    BY <1>1 DEF SessionState
  <2> HIDE DEF st
  <2>3. FolderBy(s, st, folder)
    BY <1>1, <1>6, <2>1, <2>2 DEF FolderBy
  <2> QED BY <1>3, <1>4, <2>1, <2>3
<1>11. ASSUME TakeFolders(s) PROVE FolderHangs' /\ FolderMessages'
  <2> DEFINE st == [old EXCEPT !.phase = "foldersBack", !.members = UnknownFolder(s, 2)]
  <2>1. asked' = asked /\ old.phase = "folders"
    BY <1>11 DEF TakeFolders, At
  <2>2. \/ Becomes(s, st) /\ folder' = [folder EXCEPT ![s[2]] = @ \cup old.members]
        \/ Becomes(s, Idle) /\ folder' = folder
    BY <1>11 DEF TakeFolders, GivesUp
  <2>3. st.phase = "foldersBack" /\ st.gap = old.gap /\ st.members = UnknownFolder(s, 2)
    BY <1>1 DEF SessionState
  <2>4. HangsOn(old.members, old.members \cup folder[s[2]])
    BY <1>1, <1>2, <2>1 DEF FolderBy
  <2>5. CASE Becomes(s, st) /\ folder' = [folder EXCEPT ![s[2]] = @ \cup old.members]
    <3> HIDE DEF st
    <3>1. FolderBy(s, st, folder)
      BY <1>1, <1>6, <2>1, <2>3 DEF FolderBy
    <3>2. FolderHangs'
      <4> HIDE DEF old
      <4> QED BY <1>1, <2>1, <2>4, <2>5, TakenHangs DEF FInv
    <3> QED BY <1>3, <2>5, <3>1, <3>2
  <2> QED BY <1>5, <2>1, <2>2, <2>5
<1>12. ASSUME TakeFoldersBack(s) PROVE FolderHangs' /\ FolderMessages'
  <2> DEFINE members == folder[s[1]] \cup old.members
             sent == MissingRecipients(s, 1, members)
             st == [old EXCEPT !.phase = "recipients", !.members = sent]
  <2>1. asked' = asked /\ old.phase = "foldersBack"
    BY <1>12 DEF TakeFoldersBack, At
  <2>2. \/ Becomes(s, st) /\ folder' = [folder EXCEPT ![s[1]] = @ \cup old.members]
        \/ Becomes(s, Idle) /\ folder' = folder
    BY <1>1, <1>12 DEF TakeFoldersBack, GivesUp
  <2>3. st.phase = "recipients" /\ st.gap = old.gap /\ st.members = sent
    BY <1>1 DEF SessionState
  <2>4. HangsOn(old.members, old.members \cup folder[s[1]])
    BY <1>1, <1>2, <2>1 DEF FolderBy
  <2>5. CASE Becomes(s, st) /\ folder' = [folder EXCEPT ![s[1]] = @ \cup old.members]
    <3> HIDE DEF st
    <3>1. FolderHangs'
      <4> HIDE DEF old
      <4> QED BY <1>1, <2>1, <2>4, <2>5, TakenHangs DEF FInv
    <3>2. /\ folder'[s[1]] = members /\ members \subseteq Chain
          /\ folder'[s[2]] = folder[s[2]] /\ folder'[s[2]] \subseteq Chain
      BY <1>1, <1>2, <2>5 DEF TypeOK, SessionState
    <3>3. HangsOn(folder'[s[1]], folder'[s[1]])
      BY <1>1, <3>1 DEF FolderHangs
    <3>4. Whole(old.gap[1].members, Recipients(folder'[s[2]]), folder'[s[1]])
      BY <1>1, <2>1 DEF FolderBy
    <3>5. \A p, q \in members \cup folder'[s[2]] : Recipient(p) = Recipient(q) => p = q
      BY <1>1, <3>2 DEF OneFolderRecord, FolderRecords, AllFolder
    <3>6. HangsOn(sent, sent \cup folder'[s[2]])
      <4>1. sent = {p \in members : Recipient(p) \in old.gap[1].members}
        BY DEF MissingRecipients
      <4> HIDE DEF members, sent, old
      <4> QED BY <3>2, <3>3, <3>4, <3>5, <4>1, LackingHang
    <3>7. FolderBy(s, st, folder')
      BY <1>1, <2>1, <2>3, <3>6 DEF FolderBy
    <3> QED BY <2>5, <3>1, <3>7, FolderStep DEF FInv
  <2> QED BY <1>5, <2>1, <2>2, <2>5
<1>13. ASSUME NEW n \in {1, 2}, TakeRecipients(s, n) PROVE FolderHangs' /\ FolderMessages'
  <2> DEFINE sent == IF n = 2 THEN MissingRecipients(s, 2, folder'[s[n]]) ELSE {}
             st == [old EXCEPT
                        !.phase = IF n = 2 THEN "recipientsBack" ELSE "copies",
                        !.members = sent,
                        !.copies = @ \cup {Copy(s[n], s[3 - n], x) : x \in old.gap[n].notes}]
  <2>1. asked' = asked /\ old.phase = IF n = 2 THEN "recipients" ELSE "recipientsBack"
    BY <1>13 DEF TakeRecipients, At
  <2>2. \/ Becomes(s, st) /\ folder' = [folder EXCEPT ![s[n]] = @ \cup old.members]
        \/ Becomes(s, Idle) /\ folder' = folder
    BY <1>13, TakenOrNot DEF Taken, Keeps, tables
  <2>3. /\ st.phase = IF n = 2 THEN "recipientsBack" ELSE "copies"
        /\ st.members = sent
    BY <1>1 DEF SessionState
  <2>4. HangsOn(old.members, old.members \cup folder[s[n]]) /\ s[n] \in User
    BY <1>1, <2>1 DEF FolderBy
  <2>5. CASE Becomes(s, st) /\ folder' = [folder EXCEPT ![s[n]] = @ \cup old.members]
    <3> HIDE DEF st
    <3>1. FolderHangs'
      <4> HIDE DEF old
      <4> QED BY <2>1, <2>4, <2>5, TakenHangs DEF FInv
    <3>2. CASE n = 1
      <4>1. st.phase \notin FolderPhases
        BY <2>3, <3>2 DEF FolderPhases
      <4> QED BY <2>5, <3>1, <4>1, FolderQuiet, FolderStep DEF FInv
    <3>3. CASE n = 2
      <4>1. FolderBy(s, old, folder')
        BY <1>1, FolderByGrows
      <4>2. Whole(old.gap[2].members, Recipients(folder'[s[1]]), folder'[s[2]])
        BY <2>1, <3>3, <4>1 DEF FolderBy
      <4>3. folder'[s[1]] \subseteq Chain /\ folder'[s[2]] \subseteq Chain
        BY <1>1, <1>2, <2>4, <2>5 DEF TypeOK, SessionState
      <4>4. /\ HangsOn(folder'[s[2]], folder'[s[2]])
            /\ \A p, q \in folder'[s[2]] \cup folder'[s[1]] :
                  Recipient(p) = Recipient(q) => p = q
        BY <1>1, <3>1 DEF FolderHangs, OneFolderRecord, FolderRecords, AllFolder
      <4>5. sent = {p \in folder'[s[2]] : Recipient(p) \in old.gap[2].members}
        BY <3>3 DEF MissingRecipients
      <4>6. HangsOn(sent, sent \cup folder'[s[1]])
        <5> HIDE DEF sent, old
        <5> QED BY <4>2, <4>3, <4>4, <4>5, LackingHang
      <4>7. FolderBy(s, st, folder')
        BY <2>3, <3>3, <4>6 DEF FolderBy
      <4> QED BY <2>5, <3>1, <4>7, FolderStep DEF FInv
    <3> QED BY <3>2, <3>3
  <2> QED BY <1>5, <2>1, <2>2, <2>5
<1> QED BY <1>7, <1>8, <1>9, <1>10, <1>11, <1>12, <1>13

\* Copies and merges carry nothing of the folder.
LEMMA OtherPhasesHang ==
    ASSUME TypeOK, FInv, FolderGrows, OneFolderRecord', NEW s \in Session,
           \/ \E c \in session[s].copies : TakeCopy(s, c)
           \/ CopiesDone(s) \/ (\E x \in session[s].todo : RequestUpdates(s, x))
           \/ MergeStep(s) \/ Refused(s) \/ SyncDone(s)
    PROVE  FolderHangs' /\ FolderMessages'
<1> DEFINE old == session[s]
           Later == {"copies", "merging", "idle"} \cup Running
           Goes == \E st : Becomes(s, st) /\ st.phase \in Later
<1>1. old \in SessionState /\ Idle.phase = "idle"
  BY SessionTyped DEF Idle
<1>2. \A phase, m, a : Merging(s, phase, m, a).phase = phase
  BY <1>1 DEF Merging, SessionState
<1>3. ASSUME NEW c \in session[s].copies, TakeCopy(s, c) PROVE Goes
  <2> DEFINE todo == IF c.to = s[2] /\ old.todo # {} /\ old.gap[2].notes # {}
                     THEN {} ELSE old.todo
             one == [old EXCEPT !.copies = @ \ {c}]
             two == [old EXCEPT !.copies = @ \ {c}, !.todo = todo]
  <2>1. Becomes(s, one) \/ Becomes(s, two)
    BY <1>3 DEF TakeCopy
  <2>2. one.phase = "copies" /\ two.phase = "copies"
    BY <1>1, <1>3 DEF SessionState, TakeCopy, At
  <2> HIDE DEF one, two
  <2> QED BY <2>1, <2>2
<1>4. ASSUME CopiesDone(s) PROVE Goes
  <2> DEFINE one == [old EXCEPT !.phase = "merging"]
  <2>1. Becomes(s, one) \/ Becomes(s, Idle)
    BY <1>4 DEF CopiesDone, GivesUp
  <2>2. one.phase = "merging"
    BY <1>1 DEF SessionState
  <2> HIDE DEF one
  <2> QED BY <1>1, <2>1, <2>2
<1>5. ASSUME NEW x \in session[s].todo, RequestUpdates(s, x) PROVE Goes
  <2>1. PICK own \in OwnRecords(s[1], x) :
           Becomes(s, [old EXCEPT !.phase = "request", !.todo = @ \ {x},
                           !.merge = [NoMerge EXCEPT !.note = x, !.shares = {own}]])
    BY <1>5 DEF RequestUpdates
  <2> DEFINE one == [old EXCEPT !.phase = "request", !.todo = @ \ {x},
                        !.merge = [NoMerge EXCEPT !.note = x, !.shares = {own}]]
  <2>2. one.phase = "request"
    BY <1>1 DEF SessionState
  <2>3. Becomes(s, one)
    BY <2>1
  <2> HIDE DEF one
  <2> QED BY <2>2, <2>3 DEF Running
<1>6. ASSUME MergeStep(s) PROVE Goes
  <2>1. \E phase \in Later : \E m, a : Becomes(s, Merging(s, phase, m, a))
    BY <1>6, MergeSteps DEF MergeStep, Running
  <2> QED BY <1>2, <2>1
<1>9. ASSUME Refused(s) \/ SyncDone(s) PROVE Goes
  <2> DEFINE one == [old EXCEPT !.phase = "merging", !.merge = NoMerge, !.answer = NoMerge,
                                !.todo = IF At(s, "merging") THEN {} ELSE @]
  <2>1. Becomes(s, one) \/ Becomes(s, Idle)
    BY <1>9 DEF Refused, SyncDone, GivesUp
  <2>2. one.phase = "merging"
    BY <1>1 DEF SessionState
  <2> HIDE DEF one
  <2> QED BY <1>1, <2>1, <2>2
<1>10. folder' = folder /\ asked' = asked
  BY DEF TakeCopy, CopiesDone, RequestUpdates, MergeStep, AnswerRequest, AnswerUpdates,
         MergeKeys, CompareClocks, InsertClocks, MergeShares, AcceptClocks, AcceptShares,
         AcceptKeys, Refused, SyncDone, tables
<1>11. PICK st : Becomes(s, st) /\ st.phase \in Later
  <2> HIDE DEF Goes
  <2>1. Goes
    BY <1>3, <1>4, <1>5, <1>6, <1>9
  <2> QED BY <2>1 DEF Goes
<1>12. st.phase \notin FolderPhases
  BY <1>11 DEF FolderPhases, Running
<1>13. FolderMessages'
  BY <1>11, <1>12, FolderQuiet, FolderStep DEF FInv
<1>14. FolderHangs'
  BY <1>10 DEF FInv, FolderHangs
<1> QED BY <1>13, <1>14

LEMMA NewMemberHangs ==
    ASSUME TypeOK, FolderHangs, NEW u \in User, NEW p, NewMember(u, p)
    PROVE  HangsOn({p}, folder[u])
<1>1. PICK m \in For(folder[u], u), w \in User : p = Delegated(m, w)
  BY DEF NewMember
<1>2. m \in folder[u] /\ m \in Chain
  BY <1>1, ForSome DEF TypeOK
<1>3. /\ Len(p) = Len(m) + 1
      /\ \A k \in 1 .. Len(m) : SubSeq(p, 1, k) = SubSeq(m, 1, k)
  BY <1>1, <1>2, DelegatedParts
<1>4. Len(m) \in Nat
  BY <1>2, ChainLength
<1>5. \A k \in 1 .. Len(m) : SubSeq(m, 1, k) \in folder[u]
  <2>1. folder[u] \subseteq Chain /\ HangsOn(folder[u], folder[u])
    BY DEF TypeOK, FolderHangs
  <2> QED BY <1>2, <2>1, ClosedHangs DEF Closed
<1>6. 1 .. Len(p) - 1 = 1 .. Len(m)
  BY <1>3, <1>4
<1>7. \A k \in 1 .. Len(m) : SubSeq(p, 1, k) \in folder[u]
  BY <1>3, <1>5
<1> QED BY <1>6, <1>7 DEF HangsOn

LEMMA UserFolderHangs ==
    ASSUME TypeOK, FInv, OneFolderRecord', NEW u \in User, UserActs(u)
    PROVE  FolderHangs' /\ FolderMessages'
<1>1. /\ FolderGrows /\ session' = session
      /\ \A v \in User : \A p \in folder'[v] :
            p \in folder[v] \/ p \in asked[v].member \/ FirstMember(v, p)
      /\ \A v \in User : \A p \in asked'[v].member :
            p \in asked[v].member \/ NewMember(v, p)
  BY UserFolders
<1>2. ASSUME NEW v \in User
      PROVE  HangsOn(folder'[v], folder'[v]) /\ HangsOn(asked'[v].member, folder'[v])
  <2>1. folder[v] \subseteq folder'[v]
    BY <1>1 DEF FolderGrows
  <2>2. HangsOn(folder[v], folder'[v]) /\ HangsOn(asked[v].member, folder'[v])
    BY <2>1, HangsMore DEF FInv, FolderHangs
  <2>3. \A p : NewMember(v, p) => HangsOn({p}, folder'[v])
    BY <2>1, NewMemberHangs, HangsMore DEF FInv
  <2>4. \A p : FirstMember(v, p) => HangsOn({p}, folder'[v])
    <3>1. Len(<<v>>) - 1 = 0 /\ 1 .. 0 = {}
      OBVIOUS
    <3> QED BY <3>1 DEF FirstMember, HangsOn
  <2>5. \A p \in folder'[v] : HangsOn({p}, folder'[v])
    BY <1>1, <2>2, <2>4 DEF HangsOn
  <2>6. \A p \in asked'[v].member : HangsOn({p}, folder'[v])
    BY <1>1, <2>2, <2>3 DEF HangsOn
  <2> QED BY <2>5, <2>6 DEF HangsOn
<1>3. FolderMessages'
  BY <1>1, FolderByGrows DEF FInv, FolderMessages
<1> QED BY <1>2, <1>3 DEF FolderHangs

LEMMA FolderNext ==
    ASSUME TypeOK, FInv, FolderBase, OneFolderSharer, [Next]_vars PROVE FInv'
<1>1. OneFolderRecord' /\ FounderFirst' /\ FolderGrows
  BY OneFolderNext
<1>2. ASSUME NEW u \in User, UserActs(u) PROVE FolderHangs' /\ FolderMessages'
  BY <1>1, <1>2, UserFolderHangs
<1>3. ASSUME NEW s \in Session, Connect(s) \/ Step(s) PROVE FolderHangs' /\ FolderMessages'
  BY <1>1, <1>3, FolderPhasesHang, OtherPhasesHang DEF Step, MergeStep
<1>4. ASSUME (\E u \in User : Stops(u)) \/ UNCHANGED vars
      PROVE  FolderHangs' /\ FolderMessages'
  <2>1. /\ folder' = folder
        /\ \A t \in Session : session'[t] = session[t] \/ session'[t] = Idle
        /\ \A v \in User : asked'[v] = asked[v] \/ asked'[v] = NothingAsked
    BY <1>4, FolderStops DEF vars
  <2>2. FolderHangs'
    BY <2>1 DEF FInv, FolderHangs, HangsOn, NothingAsked
  <2>3. ASSUME NEW t \in Session PROVE FolderBy(t, session'[t], folder')
    <3>1. FolderBy(t, session[t], folder') /\ FolderBy(t, Idle, folder')
      <4>1. Idle.phase \notin FolderPhases
        BY DEF Idle, FolderPhases
      <4> QED BY <1>1, <4>1, FolderQuiet, FolderByGrows DEF FInv, FolderMessages
    <3> QED BY <2>1, <3>1
  <2> QED BY <2>2, <2>3 DEF FolderMessages
<1> QED BY <1>1, <1>2, <1>3, <1>4, NextSteps DEF FInv

\* Whoever has the folder has the records that prove those it has, as long as
\* nobody is given the folder by two users: the recipients that a sync lists
\* then come with all users of their records, so that a record whose recipient
\* the other end lacks goes with the proofs that it lacks
\* (get_missing_remote_folder_share_records).  Without the hypothesis it is
\* false: a recipient that the other end knows by another record keeps the
\* proof of a third from being sent.
THEOREM FolderKeepsProofs == ASSUME OneFolderSharer PROVE Spec => []FolderProofsKept
<1>1. ASSUME TypeOK, FInv PROVE FolderProofsKept
  <2> SUFFICES ASSUME NEW u \in User PROVE Closed(folder[u])
    BY DEF FolderProofsKept
  <2>1. folder[u] \subseteq Chain /\ HangsOn(folder[u], folder[u])
    BY <1>1 DEF TypeOK, FInv, FolderHangs
  <2> QED BY <2>1, ClosedHangs
<1>2. Init => FolderBase /\ FInv
  <2>1. ASSUME Init PROVE FInv
    <3>1. FolderRecords = {}
      BY <2>1 DEF Init, FolderRecords, AllFolder, NothingAsked
    <3>2. FolderHangs
      BY <2>1 DEF Init, FolderHangs, HangsOn, NothingAsked
    <3>3. FolderMessages
      <4>1. Idle.phase \notin FolderPhases
        BY DEF Idle, FolderPhases
      <4> QED BY <2>1, <4>1, FolderQuiet DEF Init, FolderMessages
    <3> QED BY <3>1, <3>2, <3>3 DEF FInv, OneFolderRecord, FounderFirst
  <2> QED BY <2>1, FolderBaseInit
<1>3. TypeOK /\ FolderBase /\ FInv /\ [Next]_vars => (FolderBase /\ FInv)'
  BY FolderBaseNext, FolderNext
<1>4. TypeOK /\ FInv => FolderProofsKept
  BY <1>1
<1> QED BY <1>2, <1>3, <1>4, TypeCorrect, PTL DEF Spec
----------------------------------------------------------------------------
(* Whom a user's keys and records are for.                                 *)

Unique(P) == \A p, q \in P : Recipient(p) = Recipient(q) => p = q

\* Keys and records are for users that one knows, and nobody has two keys.
EnteredAt(u, x) ==
    /\ Recipients(shares[u][x]) \subseteq known[u]
    /\ Recipients(asked[u].given[x]) \subseteq known[u]
    /\ Unique(keys[u][x]) /\ Unique(asked[u].given[x])

Entered == \A u \in User : u \in known[u] /\ \A x \in Note : EnteredAt(u, x)

KnownGrows == \A u \in User : known[u] \subseteq known'[u]

LEMMA UniqueMore ==
    ASSUME NEW K, NEW P, NEW U, Unique(K), CanInsert(K, P, U)
    PROVE  Unique(K \cup P)
BY DEF Unique, CanInsert

\* What is not for those who have a key can be inserted.
LEMMA InsertNew ==
    ASSUME NEW K, NEW P, NEW U, Unique(P), Recipients(P) \subseteq U,
           \A p \in P, q \in K : Recipient(p) # Recipient(q)
    PROVE  CanInsert(K, P, U)
BY DEF Unique, CanInsert

\* A user whose tables are as they were.
LEMMA EnteredSame ==
    ASSUME Entered, KnownGrows, NEW v \in User, NEW x \in Note,
           shares'[v][x] = shares[v][x], keys'[v][x] = keys[v][x],
           asked'[v].given[x] = asked[v].given[x] \/ asked'[v].given[x] = {}
    PROVE  EnteredAt(v, x)'
BY DEF Entered, EnteredAt, KnownGrows, Unique, Recipients

\* A user with new keys or records.
LEMMA EnteredMore ==
    ASSUME Entered, KnownGrows, NEW v \in User, NEW x \in Note, NEW P, NEW Q,
           keys'[v][x] = keys[v][x] \cup P, CanInsert(keys[v][x], P, known[v]),
           shares'[v][x] = shares[v][x] \cup Q, Recipients(Q) \subseteq known[v],
           asked'[v].given[x] = asked[v].given[x] \/ asked'[v].given[x] = {}
    PROVE  EnteredAt(v, x)'
<1>1. Unique(keys'[v][x])
  BY UniqueMore DEF Entered, EnteredAt
<1>2. Recipients(shares'[v][x]) \subseteq known'[v]
  BY DEF Entered, EnteredAt, KnownGrows, Recipients
<1>3. Recipients(asked'[v].given[x]) \subseteq known'[v] /\ Unique(asked'[v].given[x])
  BY DEF Entered, EnteredAt, KnownGrows, Recipients, Unique
<1> QED BY <1>1, <1>2, <1>3 DEF EnteredAt

LEMMA InsertNone == \A K, U : CanInsert(K, {}, U) /\ Recipients({}) \subseteq U
BY DEF CanInsert, Recipients

\* Storing keys and records of those who have none.
LEMMA StoreEntered ==
    ASSUME TypeOK, Entered, NEW u \in User, NEW given \in [Note -> SUBSET Chain],
           Store(u, given), known' = known,
           \A x \in Note : CanInsert(keys[u][x], given[x], known[u]),
           \A v \in User : asked'[v] = asked[v] \/ asked'[v] = NothingAsked
    PROVE  Entered'
<1>1. KnownGrows
  BY DEF KnownGrows
<1>2. ASSUME NEW v \in User, NEW x \in Note PROVE EnteredAt(v, x)'
  <2>1. asked'[v].given[x] = asked[v].given[x] \/ asked'[v].given[x] = {}
    BY DEF NothingAsked
  <2>2. CASE v = u
    <3>1. shares'[v][x] = shares[v][x] \cup given[x] /\ keys'[v][x] = keys[v][x] \cup given[x]
      BY <2>2, StoreGrows
    <3>2. CanInsert(keys[v][x], given[x], known[v])
      BY <2>2
    <3>3. Recipients(given[x]) \subseteq known[v]
      BY <3>2 DEF CanInsert
    <3> QED BY <1>1, <2>1, <3>1, <3>2, <3>3, EnteredMore
  <2>3. CASE v # u
    <3>1. shares'[v][x] = shares[v][x] /\ keys'[v][x] = keys[v][x]
      BY <2>3 DEF Store, TypeOK
    <3> QED BY <1>1, <2>1, <3>1, EnteredSame
  <2> QED BY <2>2, <2>3
<1>3. \A v \in User : v \in known'[v]
  BY DEF Entered
<1> QED BY <1>2, <1>3 DEF Entered

\* A message's keys and records of a note.
LEMMA SavedEntered ==
    ASSUME TypeOK, Entered, NEW u \in User, NEW y \in Note, NEW P, NEW Q,
           known' = known, asked' = asked,
           \/ keys' = keys
           \/ keys' = Saved(keys, u, y, P) /\ CanInsert(keys[u][y], P, known[u]),
           \/ shares' = shares
           \/ shares' = Saved(shares, u, y, Q) /\ Recipients(Q) \subseteq known[u]
    PROVE  Entered'
<1>1. KnownGrows
  BY DEF KnownGrows
<1>2. ASSUME NEW v \in User, NEW x \in Note PROVE EnteredAt(v, x)'
  <2>1. CASE v = u /\ x = y
    <3>1. \E more : keys'[v][x] = keys[v][x] \cup more /\ CanInsert(keys[v][x], more, known[v])
      <4>1. CASE keys' = keys
        <5>1. keys'[v][x] = keys[v][x] \cup {} /\ CanInsert(keys[v][x], {}, known[v])
          BY <4>1, InsertNone
        <5> QED BY <5>1
      <4>2. CASE keys' = Saved(keys, u, y, P) /\ CanInsert(keys[u][y], P, known[u])
        <5>1. keys'[v][x] = keys[v][x] \cup P /\ CanInsert(keys[v][x], P, known[v])
          BY <2>1, <4>2, SavedAt
        <5> QED BY <5>1
      <4> QED BY <4>1, <4>2
    <3>2. \E new : shares'[v][x] = shares[v][x] \cup new /\ Recipients(new) \subseteq known[v]
      <4>1. CASE shares' = shares
        <5>1. shares'[v][x] = shares[v][x] \cup {} /\ Recipients({}) \subseteq known[v]
          BY <4>1, InsertNone
        <5> QED BY <5>1
      <4>2. CASE shares' = Saved(shares, u, y, Q) /\ Recipients(Q) \subseteq known[u]
        <5>1. shares'[v][x] = shares[v][x] \cup Q /\ Recipients(Q) \subseteq known[v]
          BY <2>1, <4>2, SavedAt
        <5> QED BY <5>1
      <4> QED BY <4>1, <4>2
    <3>3. asked'[v].given[x] = asked[v].given[x]
      OBVIOUS
    <3> QED BY <1>1, <3>1, <3>2, <3>3, EnteredMore
  <2>2. CASE ~(v = u /\ x = y)
    <3>1. shares'[v][x] = shares[v][x] /\ keys'[v][x] = keys[v][x]
      BY <2>2, SavedAt
    <3> QED BY <1>1, <3>1, EnteredSame
  <2> QED BY <2>1, <2>2
<1>3. \A v \in User : v \in known'[v]
  BY DEF Entered
<1> QED BY <1>2, <1>3 DEF Entered

\* One key is made for one user of a note: it can be inserted, and it is the only one.
LEMMA NewInsert ==
    ASSUME TypeOK, NEW u \in User, NEW x \in Note, NEW own \in Chain, NEW W \in SUBSET User,
           \A w \in W : MayShare(u, x, own, w)
    PROVE  LET P == {Delegated(own, w) : w \in W}
           IN  CanInsert(keys[u][x], P, known[u]) /\ Unique(P) /\ Recipients(P) \subseteq known[u]
<1> DEFINE P == {Delegated(own, w) : w \in W}
<1>1. \A p \in P : \E w \in W : p = Delegated(own, w) /\ Recipient(p) = w
  BY DelegatedChain
<1>2. \A w \in W : w \in known[u] /\ For(keys[u][x], w) = {}
  BY DEF MayShare
<1> HIDE DEF P
<1>3. Unique(P)
  BY <1>1 DEF Unique
<1>4. Recipients(P) \subseteq known[u]
  BY <1>1, <1>2 DEF Recipients
<1>5. \A p \in P, q \in keys[u][x] : Recipient(p) # Recipient(q)
  BY <1>1, <1>2 DEF For
<1>6. CanInsert(keys[u][x], P, known[u])
  BY <1>3, <1>4, <1>5, InsertNew
<1> QED BY <1>3, <1>4, <1>6 DEF P

LEMMA GrantsInsert ==
    ASSUME TypeOK, NEW u \in User, NEW w \in User, NEW notes \in SUBSET Note,
           NEW own \in Grants(u, w, notes), NEW x \in Note
    PROVE  LET P == Granted(own, w)[x]
           IN  CanInsert(keys[u][x], P, known[u]) /\ Unique(P) /\ Recipients(P) \subseteq known[u]
<1>1. /\ \A y \in DOMAIN own : own[y] \in Chain /\ MayShare(u, y, own[y], w)
      /\ Granted(own, w)[x] = IF x \in DOMAIN own THEN {Delegated(own[x], w)} ELSE {}
  BY GrantedTyped
<1>2. CASE x \in DOMAIN own
  <2> DEFINE one == own[x]
             P == {Delegated(one, v) : v \in {w}}
  <2> HIDE DEF P
  <2>1. one \in Chain /\ MayShare(u, x, one, w) /\ Granted(own, w)[x] = {Delegated(one, w)}
    BY <1>1, <1>2
  <2> HIDE DEF one
  <2>2. CanInsert(keys[u][x], P, known[u]) /\ Unique(P) /\ Recipients(P) \subseteq known[u]
    <3>1. ASSUME NEW W \in SUBSET User, W = {w}
          PROVE  LET Q == {Delegated(one, v) : v \in W}
                 IN  CanInsert(keys[u][x], Q, known[u]) /\ Unique(Q) /\ Recipients(Q) \subseteq known[u]
      <4>1. \A v \in W : MayShare(u, x, one, v)
        BY <2>1, <3>1
      <4> QED BY <2>1, <4>1, NewInsert
    <3> QED BY <3>1 DEF P
  <2>3. P = {Delegated(one, w)}
    BY DEF P
  <2> QED BY <2>1, <2>2, <2>3
<1>3. CASE x \notin DOMAIN own
  <2>1. Granted(own, w)[x] = {}
    BY <1>1, <1>3
  <2> QED BY <2>1, InsertNone DEF Unique
<1> QED BY <1>2, <1>3

\* What users do.
LEMMA UserEntered ==
    ASSUME IInv, Entered, NEW u \in User, UserActs(u) PROVE Entered' /\ known' = known
<1> DEFINE Goal == Entered' /\ known' = known
<1>0. TypeOK
  BY DEF IInv
<1>1. known' = known
  BY DEF UserActs, CreateFolder, Create, AutoShare, ShareNote, PrepareFolder, SaveShares, tables
<1>2. KnownGrows /\ \A v \in User : v \in known'[v]
  BY <1>1 DEF KnownGrows, Entered
<1>3. ASSUME CreateFolder(u) PROVE Goal
  <2>1. UNCHANGED <<keys, shares, asked>>
    BY <1>3 DEF CreateFolder
  <2> QED BY <1>1, <1>2, <2>1, EnteredSame DEF Entered
<1>4. ASSUME NEW y \in Note, Create(u, y) PROVE Goal
  <2>1. /\ keys' = [keys EXCEPT ![u][y] = Owned(u)] /\ asked' = asked
        /\ shares' = [shares EXCEPT ![u][y] = Owned(u)]
    BY <1>4 DEF Create
  <2>2. ASSUME NEW v \in User, NEW x \in Note PROVE EnteredAt(v, x)'
    <3>1. CASE v = u /\ x = y
      <4>1. keys'[v][x] = Owned(u) /\ shares'[v][x] = Owned(u)
        BY <1>0, <2>1, <3>1 DEF TypeOK
      <4>2. Recipients(Owned(u)) = {u} /\ Unique(Owned(u))
        BY OwnedChain DEF Owned, Unique
      <4>3. /\ Recipients(asked[v].given[x]) \subseteq known[v]
            /\ Unique(asked[v].given[x]) /\ u \in known[v]
        BY <3>1 DEF Entered, EnteredAt
      <4> QED BY <1>1, <2>1, <4>1, <4>2, <4>3 DEF EnteredAt
    <3>2. CASE ~(v = u /\ x = y)
      <4>1. keys'[v][x] = keys[v][x] /\ shares'[v][x] = shares[v][x]
        BY <1>0, <2>1, <3>2 DEF TypeOK
      <4> QED BY <1>2, <2>1, <4>1, EnteredSame
    <3> QED BY <3>1, <3>2
  <2> QED BY <1>1, <1>2, <2>2 DEF Entered
<1>5. ASSUME NEW one, asked' = [asked EXCEPT ![u] = one], UNCHANGED <<keys, shares>>,
             \A x \in Note : Unique(one.given[x]) /\ Recipients(one.given[x]) \subseteq known[u]
      PROVE  Goal
  <2>1. ASSUME NEW v \in User, NEW x \in Note PROVE EnteredAt(v, x)'
    <3>1. CASE v = u
      <4>1. asked'[v] = one
        BY <1>0, <1>5, <3>1 DEF TypeOK
      <4>2. Unique(keys[v][x]) /\ Recipients(shares[v][x]) \subseteq known[v]
        BY DEF Entered, EnteredAt
      <4> QED BY <1>1, <1>5, <3>1, <4>1, <4>2 DEF EnteredAt
    <3>2. CASE v # u
      <4>1. asked'[v] = asked[v]
        BY <1>0, <1>5, <3>2 DEF TypeOK
      <4> QED BY <1>2, <1>5, <4>1, EnteredSame
    <3> QED BY <3>1, <3>2
  <2> QED BY <1>1, <1>2, <2>1 DEF Entered
<1>6. ASSUME NEW y \in Note, AutoShare(u, y) PROVE Goal
  <2>1. PICK own \in OwnRecords(u, y), W \in SUBSET User :
           LET given == Only(y, {Delegated(own, w) : w \in W})
           IN  /\ own \in Chain /\ given \in [Note -> SUBSET Chain]
               /\ \A w \in W : MayShare(u, y, own, w) /\ y \in Foldered
                               /\ w \in Recipients(folder[u])
               /\ [NothingAsked EXCEPT !.given = given] \in Asked
               /\ asked' = [asked EXCEPT ![u] = [NothingAsked EXCEPT !.given = given]]
    BY <1>0, <1>6, AutoShareParts
  <2> DEFINE P == {Delegated(own, w) : w \in W}
             given == Only(y, P)
             one == [NothingAsked EXCEPT !.given = given]
  <2>2. Unique(P) /\ Recipients(P) \subseteq known[u]
    BY <1>0, <2>1, NewInsert
  <2>3. asked' = [asked EXCEPT ![u] = one]
    BY <2>1
  <2> HIDE DEF P
  <2>4. \A x \in Note : given[x] = P \/ given[x] = {}
    BY DEF Only
  <2>5. one.given = given
    BY DEF NothingAsked
  <2> HIDE DEF one, given
  <2>6. Unique({})
    BY DEF Unique
  <2>7. \A x \in Note : Unique(one.given[x]) /\ Recipients(one.given[x]) \subseteq known[u]
    BY <2>2, <2>4, <2>5, <2>6, InsertNone
  <2>8. UNCHANGED <<keys, shares>>
    BY <1>6 DEF AutoShare, tables
  <2> QED BY <1>5, <2>3, <2>7, <2>8
<1>7. ASSUME NEW y \in Note, NEW w \in User, ShareNote(u, y, w) PROVE Goal
  <2>1. PICK own \in OwnRecords(u, y) :
           MayShare(u, y, own, w) /\ Store(u, Only(y, {Delegated(own, w)}))
    BY <1>7 DEF ShareNote
  <2>2. own \in Chain
    BY <1>0, <2>1, ForSome DEF OwnRecords, TypeOK
  <2> DEFINE P == {Delegated(own, v) : v \in {w}}
             given == Only(y, P)
  <2>3. CanInsert(keys[u][y], P, known[u]) /\ P = {Delegated(own, w)}
    BY <1>0, <2>1, <2>2, NewInsert
  <2>4. P \subseteq Chain
    BY <2>2, DelegatedChain
  <2>5. Store(u, given) /\ asked' = asked
    BY <1>7, <2>1, <2>3 DEF ShareNote
  <2> HIDE DEF P
  <2>6. given \in [Note -> SUBSET Chain] /\ \A x \in Note : CanInsert(keys[u][x], given[x], known[u])
    BY <2>3, <2>4, InsertNone DEF Only
  <2> HIDE DEF given
  <2> QED BY <1>0, <1>1, <2>5, <2>6, StoreEntered
<1>8. ASSUME NEW w \in User, PrepareFolder(u, w) PROVE Goal
  <2>1. PICK p \in For(folder[u], u), own \in Grants(u, w, placed[u]) :
           asked' = [asked EXCEPT ![u] = [to |-> {w}, member |-> {Delegated(p, w)},
                                          given |-> Granted(own, w)]]
    BY <1>8 DEF PrepareFolder
  <2>2. \A x \in Note : /\ Unique(Granted(own, w)[x])
                        /\ Recipients(Granted(own, w)[x]) \subseteq known[u]
    <3>1. placed[u] \in SUBSET Note
      BY <1>0 DEF TypeOK
    <3> QED BY <1>0, <2>1, <3>1, GrantsInsert
  <2>3. UNCHANGED <<keys, shares>>
    BY <1>8 DEF PrepareFolder
  <2> DEFINE one == [to |-> {w}, member |-> {Delegated(p, w)}, given |-> Granted(own, w)]
  <2>4. one.given = Granted(own, w) /\ asked' = [asked EXCEPT ![u] = one]
    BY <2>1
  <2> HIDE DEF one
  <2> QED BY <1>5, <2>2, <2>3, <2>4
<1>9. ASSUME SaveShares(u) PROVE Goal
  <2>1. asked' = [asked EXCEPT ![u] = NothingAsked]
    BY <1>9 DEF SaveShares
  <2>2. \A v \in User : asked'[v] = asked[v] \/ asked'[v] = NothingAsked
    BY <1>0, <2>1 DEF TypeOK
  <2>3. CASE Fresh(u, asked[u])
    <3>1. Store(u, asked[u].given) /\ asked[u].given \in [Note -> SUBSET Chain]
      BY <1>0, <1>9, <2>3 DEF SaveShares, TypeOK, Asked
    <3>2. ASSUME NEW x \in Note PROVE CanInsert(keys[u][x], asked[u].given[x], known[u])
      <4>1. \A p \in asked[u].given[x], q \in keys[u][x] : Recipient(p) # Recipient(q)
        BY <2>3 DEF Fresh, Recipients
      <4>2. /\ Unique(asked[u].given[x])
            /\ Recipients(asked[u].given[x]) \subseteq known[u]
        BY DEF Entered, EnteredAt
      <4> QED BY <4>1, <4>2, InsertNew
    <3> QED BY <1>0, <1>1, <2>2, <3>1, <3>2, StoreEntered
  <2>4. CASE ~Fresh(u, asked[u])
    <3>1. UNCHANGED <<keys, shares>>
      BY <1>9, <2>4 DEF SaveShares
    <3>2. \A v \in User, x \in Note :
             asked'[v].given[x] = asked[v].given[x] \/ asked'[v].given[x] = {}
      BY <2>2 DEF NothingAsked
    <3> QED BY <1>1, <1>2, <3>1, <3>2, EnteredSame DEF Entered
  <2> QED BY <2>3, <2>4
<1> HIDE DEF Goal
<1>10. Goal
  BY <1>3, <1>4, <1>6, <1>7, <1>8, <1>9 DEF UserActs
<1> QED BY <1>10 DEF Goal

\* What a folder message lets share besides is stored with those without a key.
LEMMA TakenEntered ==
    ASSUME TypeOK, Entered, NEW s \in Session, NEW n \in {1, 2}, Taken(s, n)
    PROVE  Entered' /\ KnownGrows
<1> DEFINE u == s[n]
           w == s[3 - n]
           notes == session[s].gap[n].notes
<1>1. u \in User /\ w \in User /\ notes \in SUBSET Note
  BY SessionUsers, SessionTyped DEF Gap
<1>2. PICK own \in Besides(s, u, w, notes) : Keeps(s, n, own)
  BY DEF Taken
<1> DEFINE given == Granted(own, w)
<1>3. /\ keys' = [keys EXCEPT ![u] = [x \in Note |-> @[x] \cup given[x]]]
      /\ shares' = [shares EXCEPT ![u] = [x \in Note |-> @[x] \cup given[x]]]
      /\ known' = known /\ asked' = asked
  BY <1>2 DEF Keeps
<1> HIDE DEF u, w, notes
<1>4. PICK some \in SUBSET notes : own \in Grants(u, w, some)
  BY <1>1, <1>2, BesidesGrants
<1>5. ASSUME NEW x \in Note
      PROVE  CanInsert(keys[u][x], given[x], known[u]) /\ Recipients(given[x]) \subseteq known[u]
  <2>1. some \in SUBSET Note
    BY <1>1, <1>4
  <2> QED BY <1>1, <1>4, <2>1, GrantsInsert
<1> HIDE DEF given
<1>6. KnownGrows /\ \A v \in User : v \in known'[v]
  BY <1>3 DEF KnownGrows, Entered
<1>7. ASSUME NEW v \in User, NEW x \in Note PROVE EnteredAt(v, x)'
  <2>1. CASE v = u
    <3>1. /\ keys'[v][x] = keys[v][x] \cup given[x]
          /\ shares'[v][x] = shares[v][x] \cup given[x]
      BY <1>3, <2>1 DEF TypeOK
    <3> QED BY <1>3, <1>5, <1>6, <2>1, <3>1, EnteredMore
  <2>2. CASE v # u
    <3>1. keys'[v][x] = keys[v][x] /\ shares'[v][x] = shares[v][x]
      BY <1>3, <2>2 DEF TypeOK
    <3> QED BY <1>3, <1>6, <3>1, EnteredSame
  <2> QED BY <2>1, <2>2
<1> QED BY <1>6, <1>7 DEF Entered

\* What sessions do.
LEMMA SessionEntered ==
    ASSUME IInv, Entered, NEW s \in Session, Connect(s) \/ Step(s)
    PROVE  Entered' /\ KnownGrows
<1> DEFINE Goal == Entered' /\ KnownGrows
<1>1. TypeOK /\ s[1] \in User /\ s[2] \in User /\ session[s] \in SessionState
  BY SessionUsers, SessionTyped DEF IInv
<1>2. ASSUME KnownGrows, UNCHANGED <<keys, shares, asked>> PROVE Goal
  BY <1>2, EnteredSame DEF Entered, KnownGrows
<1>3. ASSUME \/ Connect(s) \/ CompareManifests(s) \/ TakeUsers(s) \/ TakeUsersBack(s)
             \/ TakeFolders(s) \/ TakeFoldersBack(s)
      PROVE  Goal
  <2>1. \/ known' = known
        \/ \E u \in User : \E more : known' = [known EXCEPT ![u] = @ \cup more]
    BY <1>1, <1>3 DEF Connect, CompareManifests, TakeUsers, TakeUsersBack, TakeFolders,
                      TakeFoldersBack, tables
  <2>2. KnownGrows
    BY <1>1, <2>1 DEF KnownGrows, TypeOK
  <2>3. UNCHANGED <<keys, shares, asked>>
    BY <1>3 DEF Connect, CompareManifests, TakeUsers, TakeUsersBack, TakeFolders,
                TakeFoldersBack, tables
  <2> QED BY <1>2, <2>2, <2>3
<1>4. ASSUME NEW n \in {1, 2}, TakeRecipients(s, n) PROVE Goal
  <2>1. CASE Taken(s, n)
    BY <1>1, <2>1, TakenEntered
  <2>2. CASE UNCHANGED <<tables, asked>>
    BY <1>2, <2>2 DEF tables, KnownGrows
  <2> QED BY <1>1, <1>4, <2>1, <2>2, TakenOrNot
<1>5. ASSUME NEW c \in session[s].copies, TakeCopy(s, c) PROVE Goal
  <2>1. /\ c.to \in User /\ c.note \in Note
        /\ known' = known /\ asked' = asked
    BY <1>1, <1>5 DEF SessionState, CopySet, TakeCopy
  <2>2. CASE Acceptable(c.to, c.note, c)
    <3>1. /\ keys' = Saved(keys, c.to, c.note, c.keys)
          /\ shares' = Saved(shares, c.to, c.note, c.shares)
      BY <1>5, <2>2 DEF TakeCopy
    <3>2. /\ CanInsert(keys[c.to][c.note], c.keys, known[c.to])
          /\ Recipients(c.shares) \subseteq known[c.to]
      BY <2>2 DEF Acceptable, Named
    <3> QED BY <1>1, <2>1, <3>1, <3>2, SavedEntered DEF KnownGrows
  <2>3. CASE ~Acceptable(c.to, c.note, c)
    BY <1>2, <1>5, <2>1, <2>3 DEF TakeCopy, KnownGrows
  <2> QED BY <2>2, <2>3
<1>6. ASSUME MergeStep(s) PROVE Goal
  <2> DEFINE m == session[s].merge
  <2>1. m.note \in Note /\ known' = known /\ asked' = asked
    BY <1>6, MergeStepTables
  <2>2. \E u \in User :
           /\ \/ keys' = keys
              \/ keys' = Saved(keys, u, m.note, m.keys)
                    /\ CanInsert(keys[u][m.note], m.keys, known[u])
           /\ \/ shares' = shares
              \/ shares' = Saved(shares, u, m.note, m.shares)
                    /\ Recipients(m.shares) \subseteq known[u]
    <3>1. CASE AnswerRequest(s) \/ AnswerUpdates(s) \/ CompareClocks(s)
               \/ InsertClocks(s) \/ AcceptClocks(s)
      BY <1>1, <3>1 DEF AnswerRequest, AnswerUpdates, CompareClocks, InsertClocks,
                        AcceptClocks, tables
    <3>2. CASE MergeKeys(s) \/ AcceptKeys(s)
      BY <1>1, <3>2 DEF MergeKeys, AcceptKeys
    <3>3. CASE MergeShares(s) \/ AcceptShares(s)
      BY <1>1, <3>3 DEF MergeShares, AcceptShares, CanKeep, Named
    <3> QED BY <1>6, <3>1, <3>2, <3>3 DEF MergeStep
  <2> QED BY <1>1, <2>1, <2>2, SavedEntered DEF KnownGrows
<1>7. ASSUME \/ CopiesDone(s) \/ (\E x \in session[s].todo : RequestUpdates(s, x))
             \/ Refused(s) \/ SyncDone(s)
      PROVE  Goal
  <2>1. UNCHANGED <<known, keys, shares, asked>>
    BY <1>7 DEF CopiesDone, RequestUpdates, Refused, SyncDone, tables
  <2> QED BY <1>2, <2>1 DEF KnownGrows
<1> HIDE DEF Goal
<1>8. Goal
  BY <1>3, <1>4, <1>5, <1>6, <1>7 DEF Step, MergeStep
<1> QED BY <1>8 DEF Goal

LEMMA EnteredInit == Init => Entered
BY DEF Init, Entered, EnteredAt, Unique, Recipients, NothingAsked

LEMMA EnteredNext == ASSUME IInv, Entered, [Next]_vars PROVE Entered' /\ KnownGrows
<1>1. TypeOK
  BY DEF IInv
<1>2. ASSUME NEW u \in User, UserActs(u) PROVE Entered' /\ KnownGrows
  BY <1>2, UserEntered DEF KnownGrows
<1>3. ASSUME NEW s \in Session, Connect(s) \/ Step(s) PROVE Entered' /\ KnownGrows
  BY <1>3, SessionEntered
<1>4. ASSUME (\E u \in User : Stops(u)) \/ UNCHANGED vars PROVE Entered' /\ KnownGrows
  <2>1. UNCHANGED <<known, keys, shares>>
    BY <1>4 DEF Stops, tables, vars
  <2>2. \A v \in User : asked'[v] = asked[v] \/ asked'[v] = NothingAsked
    BY <1>1, <1>4, FolderStops DEF vars
  <2>3. \A v \in User, x \in Note :
           asked'[v].given[x] = asked[v].given[x] \/ asked'[v].given[x] = {}
    BY <2>2 DEF NothingAsked
  <2>4. KnownGrows
    BY <2>1 DEF KnownGrows
  <2> QED BY <2>1, <2>3, <2>4, EnteredSame DEF Entered
<1> QED BY <1>1, <1>2, <1>3, <1>4, NextSteps

----------------------------------------------------------------------------
(* Keys, records and rows, as long as nothing comes between the            *)
(* transactions of a handler.                                              *)

\* A user's tables of a note, between two handlers; or one has written in some.
CalmAt(u, x) == keys[u][x] = shares[u][x] /\ rows[u][x] = Recipients(shares[u][x])

Moved(u, x) == \E s \in Amid(u) : session[s].merge.note = x

\* Copies and the messages of a merge carry each record with its key and row.
CalmBy(s, st) ==
    LET m == st.merge
    IN  /\ \A c \in st.copies : /\ c.to \in {s[1], s[2]}
                                /\ c.keys = c.shares /\ c.rows = Recipients(c.shares)
        /\ st.phase \in Finals \cup Responses => m.keys = m.shares
        /\ st.phase \in {"final", "finalClocks"} \cup Responses =>
              m.rows = Recipients(m.shares)
        /\ st.phase \in Responses => Unique(m.keys)

\* FinalUpdateMerge under way at r: the keys are there, the records not yet.
MergeHalf(st, r) ==
    LET m == st.merge
        mine == Recipients(shares[r][m.note])
        theirs == Recipients(m.shares)
    IN  /\ keys[r][m.note] = shares[r][m.note] \cup m.shares
        /\ st.answer.keys = shares[r][m.note] \ m.shares
        /\ theirs \subseteq known[r]
        /\ rows[r][m.note] = IF st.phase = "finalShares" THEN mine \cup theirs ELSE mine
        /\ st.phase = "finalInsert" => m.rows = theirs \ mine
        /\ st.phase # "finalClocks" => st.answer.rows = mine \ theirs

\* VectorClockResponse under way at i: the rows are there, the keys not yet.
AcceptHalf(st, i) ==
    LET m == st.merge
        old == keys[i][m.note]
    IN  /\ shares[i][m.note] = old \cup (IF st.phase = "responseKeys" THEN m.shares ELSE {})
        /\ rows[i][m.note] = Recipients(old) \cup m.rows
        /\ m.rows \cap Recipients(old) = {} /\ m.rows \subseteq known[i]
        /\ For(old, i) # {}

HalfWay(s, st) ==
    /\ st.phase \in Gathering => MergeHalf(st, s[2])
    /\ st.phase \in {"responseShares", "responseKeys"} => AcceptHalf(st, s[1])

Calm == /\ \A u \in User, x \in Note : CalmAt(u, x) \/ Moved(u, x)
        /\ \A u \in User : \A s, t \in Amid(u) : s = t
        /\ \A s \in Session : CalmBy(s, session[s]) /\ HalfWay(s, session[s])

\* The users of records that hang on others have records themselves.
LEMMA SharersHave ==
    ASSUME NEW P, NEW Q, P \subseteq Chain, HangsOn(P, Q)
    PROVE  Named(P) \subseteq Recipients(P) \cup Recipients(Q)
<1> SUFFICES ASSUME NEW p \in P PROVE Sharer(p) \in Recipients(P) \cup Recipients(Q)
  BY DEF Named, Recipients
<1>1. p \in Chain /\ Len(p) \in Nat /\ 1 <= Len(p)
  BY ChainLength
<1>2. CASE Len(p) = 1
  BY <1>2 DEF Sharer, Recipient, Recipients
<1>3. CASE Len(p) # 1
  <2>1. Recipient(SubSeq(p, 1, Len(p) - 1)) = Sharer(p)
    BY <1>1, <1>3, PassedOn
  <2>2. \A n \in Nat : 1 <= n /\ n # 1 => n - 1 \in 1 .. n - 1
    OBVIOUS
  <2>3. SubSeq(p, 1, Len(p) - 1) \in Q
    BY <1>1, <1>3, <2>2 DEF HangsOn
  <2> QED BY <2>1, <2>3 DEF Recipients
<1> QED BY <1>2, <1>3

LEMMA RecipientsUnion ==
    \A P, Q : Recipients(P \cup Q) = Recipients(P) \cup Recipients(Q)
BY DEF Recipients

\* Without the records for some, the users are left without those.
LEMMA RecipientsMinus ==
    ASSUME NEW P, NEW Q, Unique(P \cup Q)
    PROVE  /\ Recipients(P \ Q) = Recipients(P) \ Recipients(Q)
           /\ Recipients(P) \cup (Recipients(Q) \ Recipients(P)) = Recipients(P \cup Q)
           /\ Recipients(P) \cup Recipients(Q \ P) = Recipients(P \cup Q)
BY DEF Recipients, Unique

\* What is written at users U by a step of at most one session, beside which
\* no handler is under way there.
LEMMA CalmStep ==
    ASSUME TypeOK, Calm, KnownGrows, NEW U \in SUBSET User, NEW SS \in SUBSET Session,
           \A s, t \in SS : s = t,
           \A u \in U : Amid(u) \subseteq SS,
           \A v \in User \ U : /\ keys'[v] = keys[v] /\ shares'[v] = shares[v]
                               /\ rows'[v] = rows[v],
           \A t \in Session \ SS : session'[t] = session[t],
           \A s \in SS, v \in User \ U : s \notin Amid(v) /\ s \notin Amid(v)',
           \A u \in U, x \in Note : CalmAt(u, x)' \/ Moved(u, x)',
           \A s \in SS : CalmBy(s, session'[s]) /\ HalfWay(s, session[s])'
    PROVE  Calm'
<1>1. \A t \in Session \ SS : \A v \in User : t \in Amid(v)' <=> t \in Amid(v)
  BY DEF Amid
<1>2. \A s \in SS, v \in User : s \in Amid(v) \/ s \in Amid(v)' => v \in U
  OBVIOUS
<1>3. \A v \in User : Amid(v) \subseteq Session /\ Amid(v)' \subseteq Session
  BY DEF Amid
<1>4. ASSUME NEW v \in User, NEW x \in Note PROVE CalmAt(v, x)' \/ Moved(v, x)'
  <2>1. CASE v \in User \ U
    <3>1. CalmAt(v, x) => CalmAt(v, x)'
      BY <2>1 DEF CalmAt
    <3>2. ASSUME Moved(v, x) PROVE Moved(v, x)'
      <4>1. PICK s \in Amid(v) : session[s].merge.note = x
        BY <3>2 DEF Moved
      <4>2. s \in Session \ SS
        BY <1>2, <1>3, <2>1, <4>1
      <4>3. s \in Amid(v)' /\ session'[s].merge.note = x
        BY <1>1, <4>1, <4>2
      <4> QED BY <4>3 DEF Moved
    <3> QED BY <3>1, <3>2 DEF Calm
  <2> QED BY <2>1
<1>5. ASSUME NEW v \in User, NEW s \in Amid(v)', NEW t \in Amid(v)' PROVE s = t
  <2>1. s \in Session /\ t \in Session
    BY <1>3
  <2>2. CASE s \notin SS /\ t \notin SS
    <3>1. s \in Amid(v) /\ t \in Amid(v)
      BY <1>1, <2>1, <2>2
    <3> QED BY <3>1 DEF Calm
  <2>3. CASE s \in SS \/ t \in SS
    <3>1. v \in U
      BY <1>2, <2>3
    <3>2. s \in SS /\ t \in SS
      BY <1>1, <2>1, <3>1
    <3> QED BY <3>2
  <2> QED BY <2>2, <2>3
<1>6. ASSUME NEW t \in Session PROVE CalmBy(t, session'[t]) /\ HalfWay(t, session[t])'
  <2>1. CASE t \in SS
    BY <2>1
  <2>2. CASE t \notin SS
    <3>1. session'[t] = session[t] /\ CalmBy(t, session[t]) /\ HalfWay(t, session[t])
      BY <2>2 DEF Calm
    <3>2. ASSUME NEW v \in User, t \in Amid(v)
          PROVE  /\ keys'[v] = keys[v] /\ shares'[v] = shares[v]
                 /\ rows'[v] = rows[v] /\ known[v] \subseteq known'[v]
      BY <2>2, <3>2 DEF KnownGrows
    <3>3. t[1] \in User /\ t[2] \in User
      BY SessionUsers
    <3>4. ASSUME session[t].phase \in Gathering PROVE MergeHalf(session[t], t[2])'
      <4>1. t \in Amid(t[2]) /\ MergeHalf(session[t], t[2])
        BY <3>1, <3>4 DEF HalfWay, Amid, Gathering
      <4>2. /\ keys'[t[2]] = keys[t[2]] /\ shares'[t[2]] = shares[t[2]]
            /\ rows'[t[2]] = rows[t[2]] /\ known[t[2]] \subseteq known'[t[2]]
        BY <3>2, <3>3, <4>1
      <4> QED BY <3>1, <4>1, <4>2 DEF MergeHalf
    <3>5. ASSUME session[t].phase \in {"responseShares", "responseKeys"}
          PROVE  AcceptHalf(session[t], t[1])'
      <4>1. t \in Amid(t[1]) /\ AcceptHalf(session[t], t[1])
        BY <3>1, <3>5 DEF HalfWay, Amid
      <4>2. /\ keys'[t[1]] = keys[t[1]] /\ shares'[t[1]] = shares[t[1]]
            /\ rows'[t[1]] = rows[t[1]] /\ known[t[1]] \subseteq known'[t[1]]
        BY <3>2, <3>3, <4>1
      <4> QED BY <3>1, <4>1, <4>2 DEF AcceptHalf
    <3>6. HalfWay(t, session[t])'
      BY <3>1, <3>4, <3>5 DEF HalfWay
    <3> QED BY <3>1, <3>6
  <2> QED BY <2>1, <2>2
<1> QED BY <1>4, <1>5, <1>6 DEF Calm

\* What a user does between its handlers is whole.
LEMMA CalmUser ==
    ASSUME IInv, Entered, Calm, NEW u \in User, UserActs(u), Amid(u) = {}
    PROVE  Calm'
<1> DEFINE Mine == \A x \in Note : CalmAt(u, x)'
           Same == \A v \in User \ {u} : /\ keys'[v] = keys[v] /\ shares'[v] = shares[v]
                                         /\ rows'[v] = rows[v]
           Goal == Mine /\ Same
<1>1. TypeOK /\ KnownGrows
  BY UserEntered DEF IInv, KnownGrows
<1>2. session' = session
  BY DEF UserActs, CreateFolder, Create, AutoShare, ShareNote, PrepareFolder, SaveShares
<1>3. \A x \in Note : CalmAt(u, x)
  BY DEF Calm, Moved
<1>4. ASSUME UNCHANGED <<keys, shares, rows>> PROVE Goal
  BY <1>3, <1>4 DEF CalmAt
<1>5. ASSUME NEW given \in [Note -> SUBSET Chain], Store(u, given) PROVE Goal
  <2>1. ASSUME NEW x \in Note PROVE CalmAt(u, x)'
    <3>1. /\ shares'[u][x] = shares[u][x] \cup given[x]
          /\ keys'[u][x] = keys[u][x] \cup given[x]
          /\ rows'[u][x] = rows[u][x] \cup Recipients(given[x])
      BY <1>1, <1>5, StoreGrows
    <3> QED BY <1>3, <3>1, RecipientsUnion DEF CalmAt
  <2>2. Same
    BY <1>1, <1>5 DEF Store, TypeOK
  <2> QED BY <2>1, <2>2
<1>6. ASSUME NEW y \in Note, Create(u, y) PROVE Goal
  <2>1. /\ keys' = [keys EXCEPT ![u][y] = Owned(u)]
        /\ shares' = [shares EXCEPT ![u][y] = Owned(u)]
        /\ rows' = [rows EXCEPT ![u][y] = {u}]
    BY <1>6 DEF Create
  <2>2. ASSUME NEW x \in Note PROVE CalmAt(u, x)'
    <3>1. CASE x = y
      <4>1. keys'[u][x] = Owned(u) /\ shares'[u][x] = Owned(u) /\ rows'[u][x] = {u}
        BY <1>1, <2>1, <3>1 DEF TypeOK
      <4>2. Recipients(Owned(u)) = {u}
        BY OwnedChain DEF Owned
      <4> QED BY <4>1, <4>2 DEF CalmAt
    <3>2. CASE x # y
      <4>1. /\ keys'[u][x] = keys[u][x] /\ shares'[u][x] = shares[u][x]
            /\ rows'[u][x] = rows[u][x]
        BY <1>1, <2>1, <3>2 DEF TypeOK
      <4> QED BY <1>3, <4>1 DEF CalmAt
    <3> QED BY <3>1, <3>2
  <2>3. Same
    BY <1>1, <2>1 DEF TypeOK
  <2> QED BY <2>2, <2>3
<1>7. ASSUME NEW y \in Note, NEW w \in User, ShareNote(u, y, w) PROVE Goal
  <2>1. PICK own \in OwnRecords(u, y) : Store(u, Only(y, {Delegated(own, w)}))
    BY <1>7 DEF ShareNote
  <2>2. own \in Chain
    BY <1>1, <2>1, ForSome DEF OwnRecords, TypeOK
  <2>3. Only(y, {Delegated(own, w)}) \in [Note -> SUBSET Chain]
    BY <2>2, DelegatedChain DEF Only
  <2> QED BY <1>5, <2>1, <2>3
<1>8. ASSUME SaveShares(u) PROVE Goal
  <2>1. asked[u].given \in [Note -> SUBSET Chain]
    BY <1>1 DEF TypeOK, Asked
  <2>2. Store(u, asked[u].given) \/ UNCHANGED <<keys, shares, rows>>
    BY <1>8 DEF SaveShares
  <2> QED BY <1>4, <1>5, <2>1, <2>2
<1>9. ASSUME CreateFolder(u) \/ (\E x \in Note : AutoShare(u, x))
             \/ (\E w \in User : PrepareFolder(u, w))
      PROVE  Goal
  <2>1. UNCHANGED <<keys, shares, rows>>
    BY <1>9 DEF CreateFolder, AutoShare, PrepareFolder, tables
  <2> QED BY <1>4, <2>1
<1>10. Goal
  <2> HIDE DEF Goal
  <2> QED BY <1>6, <1>7, <1>8, <1>9 DEF UserActs
<1>11. /\ \A v \in {u} : Amid(v) \subseteq {}
       /\ \A v \in {u}, x \in Note : CalmAt(v, x)' \/ Moved(v, x)'
       /\ \A v \in User \ {u} : /\ keys'[v] = keys[v] /\ shares'[v] = shares[v]
                                /\ rows'[v] = rows[v]
  BY <1>10
<1> HIDE DEF Goal, Mine, Same
<1>12. ASSUME NEW U \in SUBSET User, U = {u}, NEW SS \in SUBSET Session, SS = {}
       PROVE  Calm'
  BY <1>1, <1>2, <1>11, <1>12, CalmStep
<1> QED BY <1>12

\* A session whose ends have no handler under way, and that writes at them.
LEMMA CalmSession ==
    ASSUME TypeOK, Calm, KnownGrows, NEW s \in Session, NEW st, Becomes(s, st),
           Amid(s[1]) = {}, Amid(s[2]) = {},
           \A v \in User \ {s[1], s[2]} : /\ keys'[v] = keys[v] /\ shares'[v] = shares[v]
                                          /\ rows'[v] = rows[v],
           \A n \in {1, 2}, x \in Note : CalmAt(s[n], x)',
           CalmBy(s, st), st.phase \notin Gathering \cup {"responseShares", "responseKeys"}
    PROVE  Calm'
<1>1. s[1] \in User /\ s[2] \in User
  BY SessionUsers
<1>2. session'[s] = st /\ \A t \in Session \ {s} : session'[t] = session[t]
  BY DEF Becomes, TypeOK
<1>3. HalfWay(s, session[s])'
  BY <1>2 DEF HalfWay
<1>4. ASSUME NEW v \in User \ {s[1], s[2]} PROVE s \notin Amid(v) /\ s \notin Amid(v)'
  BY DEF Amid
<1>5. ASSUME NEW U \in SUBSET User, U = {s[1], s[2]}, NEW SS \in SUBSET Session, SS = {s}
      PROVE  Calm'
  <2>1. \A v \in U, x \in Note : CalmAt(v, x)' \/ Moved(v, x)'
    BY <1>5
  <2> QED BY <1>2, <1>3, <1>4, <1>5, <2>1, CalmStep
<1> QED BY <1>1, <1>5

\* Its ends' tables are then calm.
LEMMA CalmEnds ==
    ASSUME Calm, NEW s \in Session, Amid(s[1]) = {}, Amid(s[2]) = {}
    PROVE  \A n \in {1, 2}, x \in Note : s[n] \in User /\ CalmAt(s[n], x)
<1>1. s[1] \in User /\ s[2] \in User
  BY SessionUsers
<1> QED BY <1>1 DEF Calm, Moved

\* A message that changes neither keys, records nor rows, and carries none.
LEMMA CalmQuiet ==
    ASSUME TypeOK, Calm, KnownGrows, NEW s \in Session, NEW st, Becomes(s, st),
           Amid(s[1]) = {}, Amid(s[2]) = {}, UNCHANGED <<keys, shares, rows>>,
           st.copies \subseteq session[s].copies, st.phase \notin Finals \cup Responses
    PROVE  Calm'
<1>1. \A n \in {1, 2}, x \in Note : CalmAt(s[n], x)'
  BY CalmEnds DEF CalmAt
<1>2. CalmBy(s, session[s])
  BY DEF Calm
<1>3. CalmBy(s, st)
  BY <1>2 DEF CalmBy, Finals, Gathering
<1> QED BY <1>1, <1>3, CalmSession DEF Finals, Responses

\* A folder message lets nothing more be shared of the notes that the other end
\* lacks: it has a key of each already.
LEMMA TakenCalm ==
    ASSUME IInv, Calm, NEW s \in Session, NEW n \in {1, 2},
           Amid(s[1]) = {}, Amid(s[2]) = {}, Taken(s, n)
    PROVE  LET u == s[n]
               notes == session[s].gap[n].notes
           IN  /\ u \in User /\ notes \in SUBSET Note
               /\ UNCHANGED <<known, keys, shares, held, asked>>
               /\ \E own : Keeps(s, n, own)
               /\ \A v \in User : rows'[v] # rows[v] => v = u
               /\ \A x \in Note : rows'[u][x] = Recipients(shares[u][x])
<1> DEFINE u == s[n]
           w == s[3 - n]
           notes == session[s].gap[n].notes
<1>1. /\ TypeOK /\ u \in User /\ w \in User /\ notes \in SUBSET Note
      /\ CarriedBy(s, session[s], shares)
  BY SessionUsers, SessionTyped DEF IInv, Gap, Carried
<1>2. PICK own \in Besides(s, u, w, notes) : Keeps(s, n, own)
  BY DEF Taken
<1> DEFINE given == Granted(own, w)
<1>3. /\ keys' = [keys EXCEPT ![u] = [x \in Note |-> @[x] \cup given[x]]]
      /\ shares' = [shares EXCEPT ![u] = [x \in Note |-> @[x] \cup given[x]]]
      /\ rows' = [rows EXCEPT ![u] =
                    [x \in Note |-> IF x \in notes THEN rows[u][x] \cup {w} ELSE rows[u][x]]]
      /\ UNCHANGED <<known, held, asked>>
  BY <1>2 DEF Keeps
<1>4. \A x \in notes : For(shares[u][x], w) # {}
  BY <1>1 DEF CarriedBy
<1>5. \A x \in Note : CalmAt(u, x)
  BY CalmEnds
<1>6. \A x \in Note : given[x] = {}
  <2> HIDE DEF u, w, notes
  <2>1. PICK some \in SUBSET notes : own \in Grants(u, w, some)
    BY <1>1, <1>2, BesidesGrants
  <2>2. some \in SUBSET Note
    BY <1>1, <2>1
  <2>3. ASSUME NEW x \in Note PROVE x \notin NotYet(u, w, some)
    BY <1>4, <1>5, <2>1 DEF CalmAt, NotYet
  <2>4. DOMAIN own = NotYet(u, w, some)
    BY <2>1 DEF Grants
  <2> QED BY <2>3, <2>4 DEF Granted
<1> HIDE DEF given
<1>7. keys' = keys /\ shares' = shares
  <2>1. keys[u] \in [Note -> SUBSET Chain] /\ shares[u] \in [Note -> SUBSET Chain]
    BY <1>1 DEF TypeOK
  <2>2. /\ [x \in Note |-> keys[u][x] \cup given[x]] = keys[u]
        /\ [x \in Note |-> shares[u][x] \cup given[x]] = shares[u]
    BY <1>6, <2>1
  <2> QED BY <1>1, <1>3, <2>2 DEF TypeOK
<1>8. /\ \A v \in User : rows'[v] # rows[v] => v = u
      /\ \A x \in Note : rows'[u][x] = IF x \in notes THEN rows[u][x] \cup {w} ELSE rows[u][x]
  BY <1>1, <1>3 DEF TypeOK
<1>9. \A x \in notes : w \in Recipients(shares[u][x])
  BY <1>4 DEF For, Recipients
<1>10. ASSUME NEW x \in Note PROVE rows'[u][x] = Recipients(shares[u][x])
  <2>1. rows[u][x] = Recipients(shares[u][x])
    BY <1>5 DEF CalmAt
  <2> QED BY <1>8, <1>9, <2>1
<1> QED BY <1>1, <1>2, <1>3, <1>7, <1>8, <1>10

LEMMA CalmTaken ==
    ASSUME IInv, Calm, KnownGrows, NEW s \in Session, NEW n \in {1, 2},
           Amid(s[1]) = {}, Amid(s[2]) = {}, Taken(s, n)
    PROVE  Calm'
<1> DEFINE u == s[n]
           w == s[3 - n]
           notes == session[s].gap[n].notes
           sent == {Copy(u, w, x) : x \in notes}
           st == [session[s] EXCEPT
                     !.phase = IF n = 2 THEN "recipientsBack" ELSE "copies",
                     !.members = IF n = 2 THEN MissingRecipients(s, 2, folder'[u]) ELSE {},
                     !.copies = @ \cup sent]
<1>1. /\ TypeOK /\ u \in User /\ w \in User /\ notes \in SUBSET Note
      /\ UNCHANGED <<keys, shares>>
      /\ \A v \in User : rows'[v] # rows[v] => v = u
      /\ \A x \in Note : rows'[u][x] = Recipients(shares[u][x])
      /\ session[s] \in SessionState
  BY TakenCalm, SessionUsers, SessionTyped DEF IInv
<1>2. PICK own : Keeps(s, n, own)
  BY TakenCalm
<1>3. Becomes(s, st)
  BY <1>2 DEF Keeps
<1>4. st.copies = session[s].copies \cup sent /\ st.phase \in {"recipientsBack", "copies"}
  BY <1>1 DEF SessionState
<1>5. \A k \in 1 .. 2, x \in Note : s[k] \in User /\ CalmAt(s[k], x)
  <2>1. \A k \in 1 .. 2 : k \in {1, 2}
    OBVIOUS
  <2> QED BY <2>1, CalmEnds
<1>6. ASSUME NEW k \in {1, 2}, NEW x \in Note PROVE CalmAt(s[k], x)'
  <2>1. CalmAt(s[k], x) /\ s[k] \in User
    BY CalmEnds
  <2>2. CASE s[k] = u
    BY <1>1, <2>1, <2>2 DEF CalmAt
  <2>3. CASE s[k] # u
    BY <1>1, <2>1, <2>3 DEF CalmAt
  <2> QED BY <2>2, <2>3
<1>7. \A c \in sent : /\ c.to \in {s[1], s[2]}
                      /\ c.keys = c.shares /\ c.rows = Recipients(c.shares)
  <2>1. \A x \in notes : /\ keys'[u][x] = shares'[u][x]
                         /\ rows'[u][x] = Recipients(shares'[u][x])
    <3>1. \A x \in Note : keys[u][x] = shares[u][x]
      BY CalmEnds DEF CalmAt
    <3> QED BY <1>1, <3>1
  <2>2. w \in {s[1], s[2]}
    OBVIOUS
  <2> HIDE DEF u, w, notes
  <2> QED BY <2>1, <2>2 DEF Copy
<1>8. CalmBy(s, session[s])
  BY DEF Calm
<1>9. \A v \in User \ {s[1], s[2]} : /\ keys'[v] = keys[v] /\ shares'[v] = shares[v]
                                     /\ rows'[v] = rows[v]
  BY <1>1
<1> HIDE DEF st, sent
<1>10. CalmBy(s, st)
  BY <1>4, <1>7, <1>8 DEF CalmBy, Finals, Gathering, Responses
<1> QED BY <1>1, <1>3, <1>4, <1>6, <1>9, <1>10, CalmSession DEF Gathering

\* A copy is taken whole.
LEMMA CalmCopy ==
    ASSUME IInv, Calm, KnownGrows, NEW s \in Session, NEW c \in session[s].copies,
           Amid(s[1]) = {}, Amid(s[2]) = {}, TakeCopy(s, c)
    PROVE  Calm'
<1>1. /\ TypeOK /\ session[s] \in SessionState /\ c.to \in User /\ c.note \in Note
      /\ CalmBy(s, session[s])
  BY SessionTyped DEF IInv, SessionState, CopySet, Calm
<1>2. CASE ~Acceptable(c.to, c.note, c)
  <2> DEFINE st == [session[s] EXCEPT !.copies = @ \ {c},
                       !.todo = IF c.to = s[2] /\ @ # {} /\ session[s].gap[2].notes # {}
                                THEN {} ELSE @]
  <2>1. Becomes(s, st) /\ UNCHANGED <<keys, shares, rows>>
    BY <1>2 DEF TakeCopy
  <2>2. st.copies \subseteq session[s].copies /\ st.phase \notin Finals \cup Responses
    BY <1>1 DEF SessionState, TakeCopy, At, Finals, Gathering, Responses
  <2> HIDE DEF st
  <2> QED BY <1>1, <2>1, <2>2, CalmQuiet
<1>3. CASE Acceptable(c.to, c.note, c)
  <2> DEFINE st == [session[s] EXCEPT !.copies = @ \ {c}]
             u == c.to
             y == c.note
  <2>1. /\ Becomes(s, st)
        /\ keys' = Saved(keys, u, y, c.keys)
        /\ shares' = Saved(shares, u, y, c.shares)
        /\ rows' = Saved(rows, u, y, c.rows)
    BY <1>3 DEF TakeCopy
  <2>2. /\ st.copies \subseteq session[s].copies
        /\ st.phase \notin Finals \cup Responses
    BY <1>1 DEF SessionState, TakeCopy, At, Finals, Gathering, Responses
  <2>3. c.to \in {s[1], s[2]} /\ c.keys = c.shares /\ c.rows = Recipients(c.shares)
    BY <1>1 DEF CalmBy
  <2>4. CalmBy(s, st)
    <3> HIDE DEF st
    <3> QED BY <1>1, <2>2 DEF CalmBy, Finals, Gathering
  <2> HIDE DEF st
  <2>5. ASSUME NEW n \in {1, 2}, NEW x \in Note PROVE CalmAt(s[n], x)'
    <3>1. s[n] \in User /\ CalmAt(s[n], x)
      BY CalmEnds
    <3>2. CASE s[n] = u /\ x = y
      <4>1. /\ keys'[s[n]][x] = keys[s[n]][x] \cup c.keys
            /\ shares'[s[n]][x] = shares[s[n]][x] \cup c.shares
            /\ rows'[s[n]][x] = rows[s[n]][x] \cup c.rows
        BY <1>1, <2>1, <3>1, <3>2, SavedAt
      <4> QED BY <2>3, <3>1, <4>1, RecipientsUnion DEF CalmAt
    <3>3. CASE ~(s[n] = u /\ x = y)
      <4>1. /\ keys'[s[n]][x] = keys[s[n]][x] /\ shares'[s[n]][x] = shares[s[n]][x]
            /\ rows'[s[n]][x] = rows[s[n]][x]
        BY <1>1, <2>1, <3>1, <3>3, SavedAt
      <4> QED BY <3>1, <4>1 DEF CalmAt
    <3> QED BY <3>2, <3>3
  <2>6. \A v \in User \ {s[1], s[2]} : /\ keys'[v] = keys[v] /\ shares'[v] = shares[v]
                                       /\ rows'[v] = rows[v]
    BY <1>1, <2>1, <2>3 DEF Saved, TypeOK
  <2> QED BY <1>1, <2>1, <2>2, <2>4, <2>5, <2>6, CalmSession DEF Finals, Responses
<1> QED BY <1>2, <1>3

\* The other messages before a merge, its first two, and the end of a sync.
OtherStep(s) ==
    \/ Connect(s) \/ CompareManifests(s) \/ TakeUsers(s) \/ TakeUsersBack(s)
    \/ TakeFolders(s) \/ TakeFoldersBack(s) \/ CopiesDone(s)
    \/ \E x \in session[s].todo : RequestUpdates(s, x)
    \/ AnswerRequest(s) \/ Refused(s) \/ SyncDone(s)

LEMMA CalmPhases ==
    ASSUME IInv, Calm, KnownGrows, NEW s \in Session, Amid(s[1]) = {}, Amid(s[2]) = {},
           OtherStep(s)
    PROVE  Calm'
<1>1. TypeOK /\ session[s] \in SessionState
  BY SessionTyped DEF IInv
<1> DEFINE Goal == Calm'
           Fits(st) == st.copies \subseteq session[s].copies /\ st.phase \notin Finals \cup Responses
<1> SUFFICES Goal
  OBVIOUS
<1>2. ASSUME NEW st, Becomes(s, st), UNCHANGED <<keys, shares, rows>>, Fits(st) PROVE Goal
  BY <1>1, <1>2, CalmQuiet
<1>3. ASSUME GivesUp(s), UNCHANGED <<keys, shares, rows>> PROVE Goal
  <2>1. Fits(Idle)
    BY DEF Idle, Finals, Gathering, Responses
  <2> HIDE DEF Goal, Fits
  <2> QED BY <1>2, <1>3, <2>1 DEF GivesUp
<1>4. ASSUME Connect(s) PROVE Goal
  <2> DEFINE st == [session[s] EXCEPT !.phase = "manifest", !.sent = Manifest(s[1], s[2])]
  <2>1. Fits(st)
    BY <1>1 DEF SessionState, Finals, Gathering, Responses
  <2>2. Becomes(s, st) /\ UNCHANGED <<keys, shares, rows>>
    BY <1>4 DEF Connect
  <2> HIDE DEF Goal, Fits, st
  <2> QED BY <1>2, <2>1, <2>2
<1>5. ASSUME CompareManifests(s) PROVE Goal
  <2> DEFINE mine == Manifest(s[2], s[1])
             theirs == session[s].sent
             todo == Differing(mine, theirs)
             gap == <<Lacks(theirs, mine), Lacks(mine, theirs)>>
             st == [session[s] EXCEPT !.phase = "users", !.sent = Nothing, !.todo = todo,
                                      !.gap = gap]
  <2>1. Becomes(s, st) /\ UNCHANGED <<keys, shares, rows>>
    BY <1>5 DEF CompareManifests, tables
  <2> HIDE DEF todo, gap
  <2>2. Fits(st)
    BY <1>1 DEF SessionState, Finals, Gathering, Responses
  <2> HIDE DEF Goal, Fits, st
  <2> QED BY <1>2, <2>1, <2>2
<1>6. ASSUME NEW phase \in Phase, NEW members, Becomes(s, [session[s] EXCEPT !.phase = phase,
                 !.members = members]),
             UNCHANGED <<keys, shares, rows>>, phase \notin Finals \cup Responses
      PROVE  Goal
  <2> DEFINE st == [session[s] EXCEPT !.phase = phase, !.members = members]
  <2>1. Fits(st)
    BY <1>1, <1>6 DEF SessionState
  <2>2. Becomes(s, st)
    BY <1>6
  <2> HIDE DEF Goal, Fits, st
  <2> QED BY <1>2, <1>6, <2>1, <2>2
<1>7. ASSUME NEW phase \in Phase, Becomes(s, [session[s] EXCEPT !.phase = phase]),
             UNCHANGED <<keys, shares, rows>>, phase \notin Finals \cup Responses
      PROVE  Goal
  <2> DEFINE st == [session[s] EXCEPT !.phase = phase]
  <2>1. Fits(st)
    BY <1>1, <1>7 DEF SessionState
  <2>2. Becomes(s, st)
    BY <1>7
  <2> HIDE DEF Goal, Fits, st
  <2> QED BY <1>2, <1>7, <2>1, <2>2
<1>8. \A phase \in {"users", "usersBack", "folders", "foldersBack", "recipients", "merging",
                    "request", "updates"} : phase \in Phase /\ phase \notin Finals \cup Responses
  BY DEF Phase, Finals, Gathering, Responses
<1> HIDE DEF Goal, Fits
<1>9. CASE TakeUsers(s) \/ CopiesDone(s)
  <2>1. CASE TakeUsers(s)
    BY <1>7, <1>8, <2>1 DEF TakeUsers
  <2>2. CASE CopiesDone(s)
    BY <1>3, <1>7, <1>8, <2>2 DEF CopiesDone, tables
  <2> QED BY <1>9, <2>1, <2>2
<1>10. CASE TakeUsersBack(s)
  BY <1>6, <1>8, <1>10 DEF TakeUsersBack
<1>11. CASE TakeFolders(s)
  BY <1>3, <1>6, <1>8, <1>11 DEF TakeFolders
<1>12. CASE TakeFoldersBack(s)
  BY <1>3, <1>6, <1>8, <1>12 DEF TakeFoldersBack
<1>13. ASSUME NEW x \in session[s].todo, RequestUpdates(s, x) PROVE Goal
  <2>1. PICK own \in OwnRecords(s[1], x) :
           Becomes(s, [session[s] EXCEPT !.phase = "request", !.todo = @ \ {x},
                           !.merge = [NoMerge EXCEPT !.note = x, !.shares = {own}]])
    BY <1>13 DEF RequestUpdates
  <2> DEFINE st == [session[s] EXCEPT !.phase = "request", !.todo = @ \ {x},
                       !.merge = [NoMerge EXCEPT !.note = x, !.shares = {own}]]
  <2>2. Fits(st)
    BY <1>1, <1>8 DEF SessionState, Fits
  <2>3. Becomes(s, st) /\ UNCHANGED <<keys, shares, rows>>
    BY <1>13, <2>1 DEF RequestUpdates, tables
  <2> HIDE DEF st
  <2> QED BY <1>2, <2>2, <2>3
<1>14. ASSUME AnswerRequest(s) PROVE Goal
  <2> DEFINE m == session[s].merge
  <2>1. PICK own \in OwnRecords(s[2], m.note) :
           Becomes(s, [session[s] EXCEPT !.phase = "updates",
                                         !.merge = [m EXCEPT !.shares = {own}]])
    BY <1>14 DEF AnswerRequest
  <2> DEFINE st == [session[s] EXCEPT !.phase = "updates", !.merge = [m EXCEPT !.shares = {own}]]
  <2>2. Fits(st)
    BY <1>1, <1>8 DEF SessionState, Fits
  <2>3. Becomes(s, st) /\ UNCHANGED <<keys, shares, rows>>
    BY <1>14, <2>1 DEF AnswerRequest, tables
  <2> HIDE DEF st
  <2> QED BY <1>2, <2>2, <2>3
<1>15. ASSUME Refused(s) PROVE Goal
  <2> DEFINE todo == IF At(s, "merging") THEN {} ELSE session[s].todo
             st == [session[s] EXCEPT !.phase = "merging", !.merge = NoMerge,
                                      !.answer = NoMerge, !.todo = todo]
  <2>1. Becomes(s, st) /\ UNCHANGED <<keys, shares, rows>>
    BY <1>15 DEF Refused, tables
  <2> HIDE DEF todo
  <2>2. Fits(st)
    BY <1>1, <1>8 DEF SessionState, Fits
  <2> HIDE DEF st
  <2> QED BY <1>2, <2>1, <2>2
<1>16. CASE SyncDone(s)
  BY <1>3, <1>16 DEF SyncDone, tables
<1> QED BY <1>4, <1>5, <1>9, <1>10, <1>11, <1>12, <1>13, <1>14, <1>15, <1>16
  DEF OtherStep

\* Keys, records and rows change in u's tables of x at most.
WritesOnly(u, x) ==
    /\ \A v \in User \ {u} : /\ keys'[v] = keys[v] /\ shares'[v] = shares[v]
                             /\ rows'[v] = rows[v]
    /\ \A y \in Note \ {x} : /\ keys'[u][y] = keys[u][y] /\ shares'[u][y] = shares[u][y]
                             /\ rows'[u][y] = rows[u][y]

LEMMA SavedOnly ==
    ASSUME TypeOK, NEW u \in User, NEW x \in Note, NEW P, NEW Q, NEW W,
           keys' = keys \/ keys' = Saved(keys, u, x, P),
           shares' = shares \/ shares' = Saved(shares, u, x, Q),
           rows' = rows \/ rows' = Saved(rows, u, x, W)
    PROVE  WritesOnly(u, x)
<1>1. \A v \in User \ {u} : /\ keys'[v] = keys[v] /\ shares'[v] = shares[v]
                            /\ rows'[v] = rows[v]
  BY DEF Saved, TypeOK
<1>2. \A y \in Note \ {x} : /\ keys'[u][y] = keys[u][y] /\ shares'[u][y] = shares[u][y]
                            /\ rows'[u][y] = rows[u][y]
  BY SavedAt
<1> QED BY <1>1, <1>2 DEF WritesOnly

\* A handler that writes about one note at u, with w at the other end.
LEMMA CalmWrites ==
    ASSUME TypeOK, Calm, KnownGrows, NEW s \in Session, NEW st, Becomes(s, st),
           NEW u, NEW w, {s[1], s[2]} = {u, w}, u # w, NEW x \in Note, WritesOnly(u, x),
           Amid(u) \subseteq {s}, s \notin Amid(w), s \notin Amid(w)',
           s \in Amid(u) => session[s].merge.note = x,
           CalmAt(u, x)' \/ (s \in Amid(u)' /\ st.merge.note = x),
           CalmBy(s, st), HalfWay(s, session[s])'
    PROVE  Calm'
<1>1. s[1] \in User /\ s[2] \in User /\ u \in User
  BY SessionUsers
<1>2. session'[s] = st /\ \A t \in Session \ {s} : session'[t] = session[t]
  BY DEF Becomes, TypeOK
<1>3. \A v \in User \ {u} : /\ keys'[v] = keys[v] /\ shares'[v] = shares[v]
                            /\ rows'[v] = rows[v]
  BY DEF WritesOnly
<1>4. \A y \in Note \ {x} : /\ keys'[u][y] = keys[u][y] /\ shares'[u][y] = shares[u][y]
                            /\ rows'[u][y] = rows[u][y]
  BY DEF WritesOnly
<1>5. ASSUME NEW y \in Note PROVE CalmAt(u, y)' \/ Moved(u, y)'
  <2>1. CASE y = x
    <3>1. ASSUME s \in Amid(u)', st.merge.note = x PROVE Moved(u, y)'
      BY <1>2, <2>1, <3>1 DEF Moved
    <3> QED BY <2>1, <3>1
  <2>2. CASE y # x
    <3>1. ~Moved(u, y)
      BY <2>2 DEF Moved
    <3>2. CalmAt(u, y)
      BY <1>1, <3>1 DEF Calm
    <3> QED BY <1>4, <2>2, <3>2 DEF CalmAt
  <2> QED BY <2>1, <2>2
<1>6. ASSUME NEW v \in User \ {u} PROVE s \notin Amid(v) /\ s \notin Amid(v)'
  <2>1. CASE v = w
    BY <2>1
  <2>2. CASE v # w
    <3>1. v # s[1] /\ v # s[2]
      BY <2>2
    <3> QED BY <3>1 DEF Amid
  <2> QED BY <2>1, <2>2
<1>7. Amid(u) \subseteq {s} /\ CalmBy(s, session'[s]) /\ HalfWay(s, session[s])'
  BY <1>2
<1>8. ASSUME NEW U \in SUBSET User, U = {u}, NEW SS \in SUBSET Session, SS = {s}
      PROVE  Calm'
  <2>1. /\ \A v \in U : Amid(v) \subseteq SS
        /\ \A v \in User \ U : /\ keys'[v] = keys[v] /\ shares'[v] = shares[v]
                              /\ rows'[v] = rows[v]
        /\ \A t \in Session \ SS : session'[t] = session[t]
    BY <1>2, <1>3, <1>7, <1>8
  <2>2. \A t \in SS, v \in User \ U : t \notin Amid(v) /\ t \notin Amid(v)'
    BY <1>6, <1>8
  <2>3. \A v \in U, y \in Note : CalmAt(v, y)' \/ Moved(v, y)'
    BY <1>5, <1>8
  <2>4. \A t \in SS : CalmBy(t, session'[t]) /\ HalfWay(t, session[t])'
    BY <1>7, <1>8
  <2> QED BY <1>8, <2>1, <2>2, <2>3, <2>4, CalmStep
<1>9. {u} \in SUBSET User /\ {s} \in SUBSET Session
  BY <1>1
<1> QED BY <1>8, <1>9

\* Where a session that is amid a handler stands.
LEMMA AmidOnce ==
    ASSUME Calm, NEW s \in Session
    PROVE  /\ session[s].phase \in Gathering => Amid(s[2]) = {s} /\ s \notin Amid(s[1])
           /\ session[s].phase \in {"responseShares", "responseKeys"} =>
                 Amid(s[1]) = {s} /\ s \notin Amid(s[2])
<1>1. s[1] \in User /\ s[2] \in User /\ s[1] # s[2]
  BY SessionUsers
<1>2. \A u \in User : \A t \in Amid(u) : t = s \/ s \notin Amid(u)
  BY DEF Calm
<1>3. session[s].phase \in Gathering => s \in Amid(s[2]) /\ s \notin Amid(s[1])
  BY <1>1 DEF Amid, Gathering
<1>4. session[s].phase \in {"responseShares", "responseKeys"} =>
         s \in Amid(s[1]) /\ s \notin Amid(s[2])
  BY <1>1 DEF Amid
<1> QED BY <1>1, <1>2, <1>3, <1>4

\* The message of a merge, in a calm state.
LEMMA CalmMessage ==
    ASSUME IInv, Calm, NEW s \in Session, session[s].phase \in Running
    PROVE  LET m == session[s].merge
           IN  /\ m \in MergeSet /\ session[s].answer \in MergeSet
               /\ session[s] \in SessionState /\ m.note \in Note
               /\ s[1] \in User /\ s[2] \in User /\ s[1] # s[2]
               /\ OwnRecords(s[1], m.note) # {}
               /\ CalmBy(s, session[s]) /\ HalfWay(s, session[s])
<1>1. CarriedBy(s, session[s], shares)
  BY DEF IInv, Carried
<1>2. session[s].merge.note \in Note /\ shares[s[1]][session[s].merge.note] # {}
  BY <1>1 DEF CarriedBy
<1>3. OwnRecords(s[1], session[s].merge.note) # {}
  BY <1>2, SessionUsers DEF IInv, StoredHeld, OwnKept
<1> QED BY <1>2, <1>3, MergeFields, SessionUsers DEF IInv, Calm

\* How MergeHalf comes about.
LEMMA MergeHalfMade ==
    ASSUME NEW st, NEW r, NEW x, st.merge.note = x,
           keys'[r][x] = shares'[r][x] \cup st.merge.shares,
           st.answer.keys = shares'[r][x] \ st.merge.shares,
           Recipients(st.merge.shares) \subseteq known'[r],
           rows'[r][x] = IF st.phase = "finalShares"
                         THEN Recipients(shares'[r][x]) \cup Recipients(st.merge.shares)
                         ELSE Recipients(shares'[r][x]),
           st.phase = "finalInsert" =>
               st.merge.rows = Recipients(st.merge.shares) \ Recipients(shares'[r][x]),
           st.phase # "finalClocks" =>
               st.answer.rows = Recipients(shares'[r][x]) \ Recipients(st.merge.shares)
    PROVE  MergeHalf(st, r)'
BY DEF MergeHalf

\* FinalUpdateMerge goes from one of its transactions to the next.
LEMMA MergeMoves ==
    ASSUME TypeOK, Calm, KnownGrows, NEW s \in Session, NEW st, Becomes(s, st),
           NEW x \in Note, NEW P, NEW Q, NEW W, session[s].merge.note = x,
           \/ session[s].phase \in Gathering
           \/ Amid(s[1]) = {} /\ Amid(s[2]) = {} /\ session[s].phase = "final",
           keys' = keys \/ keys' = Saved(keys, s[2], x, P),
           shares' = shares \/ shares' = Saved(shares, s[2], x, Q),
           rows' = rows \/ rows' = Saved(rows, s[2], x, W),
           \/ CalmAt(s[2], x)' /\ st.phase = "response"
           \/ st.phase \in Gathering /\ st.merge.note = x /\ MergeHalf(st, s[2])',
           CalmBy(s, st)
    PROVE  Calm'
<1>1. session'[s] = st
  BY DEF Becomes, TypeOK
<1>2. s[1] \in User /\ s[2] \in User /\ s[1] # s[2]
  BY SessionUsers
<1>3. HalfWay(s, session[s])'
  BY <1>1 DEF HalfWay, Gathering
<1>4. Amid(s[2]) \subseteq {s} /\ s \notin Amid(s[1])
  BY AmidOnce
<1>5. st.phase \in Gathering \cup {"response"}
  OBVIOUS
<1>6. s \notin Amid(s[1])'
  BY <1>1, <1>2, <1>5 DEF Amid, Gathering
<1>7. st.phase \in Gathering => s \in Amid(s[2])'
  BY <1>1, <1>2 DEF Amid, Gathering
<1>8. CalmAt(s[2], x)' \/ (s \in Amid(s[2])' /\ st.merge.note = x)
  BY <1>7
<1>9. WritesOnly(s[2], x)
  BY <1>2, SavedOnly
<1>10. s \in Amid(s[2]) => session[s].merge.note = x
  OBVIOUS
<1>11. {s[1], s[2]} = {s[2], s[1]} /\ s[2] # s[1]
  BY <1>2
<1>12. Becomes(s, st) /\ CalmBy(s, st)
  OBVIOUS
<1> QED BY <1>3, <1>4, <1>6, <1>8, <1>9, <1>10, <1>11, <1>12, CalmWrites

\* What a step of FinalUpdateMerge finds.
LEMMA MergeFinds ==
    ASSUME IInv, Calm, NEW s \in Session, session[s].phase \in Finals
    PROVE  LET m == session[s].merge
               a == session[s].answer
               r == s[2]
           IN  /\ m \in MergeSet /\ a \in MergeSet /\ m.note \in Note /\ r \in User
               /\ m.keys = m.shares
               /\ \A c \in session[s].copies :
                     c.to \in {s[1], s[2]} /\ c.keys = c.shares /\ c.rows = Recipients(c.shares)
               /\ session[s].phase \in {"final", "finalClocks"} => m.rows = Recipients(m.shares)
               /\ session[s].phase \in Gathering => MergeHalf(session[s], r)
               /\ keys[r][m.note] \in SUBSET Chain /\ shares[r][m.note] \in SUBSET Chain
               /\ rows[r][m.note] \in SUBSET User
<1> DEFINE m == session[s].merge
<1>1. session[s].phase \in Running
  BY RunningPhases
<1>2. /\ m \in MergeSet /\ session[s].answer \in MergeSet /\ m.note \in Note /\ s[2] \in User
      /\ CalmBy(s, session[s]) /\ HalfWay(s, session[s])
  BY <1>1, CalmMessage
<1>3. /\ m.keys = m.shares
      /\ \A c \in session[s].copies :
            c.to \in {s[1], s[2]} /\ c.keys = c.shares /\ c.rows = Recipients(c.shares)
      /\ session[s].phase \in {"final", "finalClocks"} => m.rows = Recipients(m.shares)
  BY <1>2 DEF CalmBy
<1>4. session[s].phase \in Gathering => MergeHalf(session[s], s[2])
  BY <1>2 DEF HalfWay
<1>5. /\ keys[s[2]][m.note] \in SUBSET Chain /\ shares[s[2]][m.note] \in SUBSET Chain
      /\ rows[s[2]][m.note] \in SUBSET User
  BY <1>2 DEF IInv, TypeOK
<1> QED BY <1>2, <1>3, <1>4, <1>5

LEMMA CalmMergeKeys ==
    ASSUME IInv, Calm, NEW s \in Session, UNCHANGED known,
           MergeKeys(s), Amid(s[1]) = {}, Amid(s[2]) = {}
    PROVE  Calm'
<1> SUFFICES ASSUME NEW m, m = session[s].merge, NEW x, x = m.note, NEW r, r = s[2]
             PROVE  Calm'
  OBVIOUS
<1>0. SUFFICES ASSUME NEW one,
                      one = [NoMerge EXCEPT !.note = x, !.keys = keys[r][x] \ m.keys],
                      NEW st, st = Merging(s, "finalClocks", m, one)
               PROVE  Calm'
  OBVIOUS
<1>1. TypeOK /\ KnownGrows
  BY DEF IInv, KnownGrows
<1>2. session[s].phase = "final" /\ session[s].phase \in Finals
  BY DEF MergeKeys, At, Finals, Gathering
<1>3. /\ m \in MergeSet /\ x \in Note /\ r \in User /\ m.keys = m.shares /\ m.note = x
      /\ keys[r][x] \in SUBSET Chain /\ m.rows = Recipients(m.shares)
      /\ \A c \in session[s].copies :
            c.to \in {s[1], s[2]} /\ c.keys = c.shares /\ c.rows = Recipients(c.shares)
  BY <1>2, MergeFinds
<1>4. one \in MergeSet /\ one.keys = keys[r][x] \ m.keys
  BY <1>0, <1>3 DEF NoMerge, MergeSet
<1>5. Becomes(s, st)
  BY ZenonT(30), <1>0, <1>1, MergeSteps
<1>6. CanInsert(keys[r][x], m.keys, known[r]) /\ keys' = Saved(keys, r, x, m.keys)
      /\ shares' = shares /\ rows' = rows
  BY DEF MergeKeys
<1>7. st.phase = "finalClocks" /\ st.merge = m /\ st.answer = one
      /\ st.copies = session[s].copies
  <2>1. "finalClocks" \in Phase
    BY DEF Phase
  <2>2. m \in MergeSet /\ one \in MergeSet
    BY <1>3, <1>4
  <2>3. st = Merging(s, "finalClocks", m, one)
    BY <1>0
  <2> QED BY <1>1, <2>1, <2>2, <2>3, MergingNamed
<1>8. CalmAt(r, x)
  BY <1>3 DEF Calm, Moved
<1>9. keys'[r][x] = keys[r][x] \cup m.keys
  BY <1>3, <1>6 DEF Saved, IInv, TypeOK
<1>10. Recipients(m.shares) \subseteq known[r]
  BY <1>3, <1>6 DEF CanInsert
<1>11. keys[r][x] = shares[r][x] /\ rows[r][x] = Recipients(shares[r][x])
  BY <1>8 DEF CalmAt
<1>12. /\ st.merge.note = x /\ st.merge.shares = m.shares /\ st.phase = "finalClocks"
       /\ st.answer.keys = keys[r][x] \ m.shares
  BY <1>3, <1>4, <1>7
<1>13. known'[r] = known[r] /\ shares'[r][x] = shares[r][x] /\ rows'[r][x] = rows[r][x]
       /\ keys'[r][x] = shares[r][x] \cup m.shares
  BY <1>3, <1>6, <1>9, <1>11
<1>14. MergeHalf(st, r)'
  <2>1. /\ keys'[r][x] = shares'[r][x] \cup st.merge.shares
        /\ st.answer.keys = shares'[r][x] \ st.merge.shares
        /\ Recipients(st.merge.shares) \subseteq known'[r]
    BY ZenonT(30), <1>10, <1>11, <1>12, <1>13
  <2>2. rows'[r][x] = IF st.phase = "finalShares"
                      THEN Recipients(shares'[r][x]) \cup Recipients(st.merge.shares)
                      ELSE Recipients(shares'[r][x])
    BY <1>11, <1>12, <1>13
  <2>3. st.merge.note = x /\ st.phase = "finalClocks" /\ st.phase # "finalInsert"
    BY <1>12
  <2> QED BY ZenonT(60), <2>1, <2>2, <2>3, MergeHalfMade
<1>15. CalmBy(s, st)
  BY <1>3, <1>7 DEF CalmBy, Responses
<1>16. st.phase \in Gathering /\ st.merge.note = x /\ MergeHalf(st, s[2])'
  BY <1>12, <1>14 DEF Gathering
<1>17. keys' = Saved(keys, s[2], x, m.keys) /\ session[s].merge.note = x
  BY <1>3, <1>6
<1> QED BY <1>1, <1>2, <1>3, <1>5, <1>6, <1>15, <1>16, <1>17, MergeMoves

LEMMA CalmCompare ==
    ASSUME IInv, Calm, NEW s \in Session, UNCHANGED known, CompareClocks(s)
    PROVE  Calm'
<1> SUFFICES ASSUME NEW m, m = session[s].merge, NEW a, a = session[s].answer,
                    NEW x, x = m.note, NEW r, r = s[2]
             PROVE  Calm'
  OBVIOUS
<1>0. SUFFICES ASSUME NEW m2, m2 = [m EXCEPT !.rows = @ \ rows[r][x]],
                      NEW a2, a2 = [a EXCEPT !.rows = rows[r][x] \ m.rows],
                      NEW st, st = Merging(s, "finalInsert", m2, a2)
               PROVE  Calm'
  OBVIOUS
<1>1. TypeOK /\ KnownGrows
  BY DEF IInv, KnownGrows
<1>2. session[s].phase = "finalClocks" /\ session[s].phase \in Finals
      /\ session[s].phase \in Gathering
  BY DEF CompareClocks, At, Finals, Gathering
<1>3. /\ m \in MergeSet /\ a \in MergeSet /\ x \in Note /\ r \in User /\ m.keys = m.shares
      /\ m.note = x /\ rows[r][x] \in SUBSET User /\ m.rows = Recipients(m.shares)
      /\ \A c \in session[s].copies :
            c.to \in {s[1], s[2]} /\ c.keys = c.shares /\ c.rows = Recipients(c.shares)
      /\ MergeHalf(session[s], r)
  BY <1>2, MergeFinds
<1>4. /\ m2 \in MergeSet /\ m2.rows = m.rows \ rows[r][x] /\ m2.note = x
      /\ m2.keys = m.keys /\ m2.shares = m.shares
  BY <1>0, <1>3 DEF MergeSet
<1>5. a2 \in MergeSet /\ a2.rows = rows[r][x] \ m.rows /\ a2.keys = a.keys
  BY <1>0, <1>3 DEF MergeSet
<1>6. Becomes(s, st)
  BY ZenonT(30), <1>0, <1>1, MergeSteps
<1>7. keys' = keys /\ shares' = shares /\ rows' = rows
  BY DEF CompareClocks, tables
<1>8. /\ st.phase = "finalInsert" /\ st.merge = m2 /\ st.answer = a2
      /\ st.copies = session[s].copies
  <2>1. "finalInsert" \in Phase
    BY DEF Phase
  <2>2. m2 \in MergeSet /\ a2 \in MergeSet
    BY <1>4, <1>5
  <2>3. st = Merging(s, "finalInsert", m2, a2)
    BY <1>0
  <2> QED BY <1>1, <2>1, <2>2, <2>3, MergingNamed
<1>9. /\ keys[r][x] = shares[r][x] \cup m.shares
      /\ a.keys = shares[r][x] \ m.shares /\ Recipients(m.shares) \subseteq known[r]
      /\ rows[r][x] = Recipients(shares[r][x])
  BY <1>2, <1>3 DEF MergeHalf
<1>10. /\ st.merge.note = x /\ st.merge.shares = m.shares /\ st.phase = "finalInsert"
       /\ st.merge.rows = Recipients(m.shares) \ Recipients(shares[r][x])
       /\ st.answer.keys = a.keys
       /\ st.answer.rows = Recipients(shares[r][x]) \ Recipients(m.shares)
  BY <1>3, <1>4, <1>5, <1>8, <1>9
<1>11. known'[r] = known[r] /\ shares'[r][x] = shares[r][x] /\ rows'[r][x] = rows[r][x]
       /\ keys'[r][x] = keys[r][x]
  BY <1>7
<1>12. MergeHalf(st, r)'
  <2>1. /\ keys'[r][x] = shares'[r][x] \cup st.merge.shares
        /\ st.answer.keys = shares'[r][x] \ st.merge.shares
        /\ Recipients(st.merge.shares) \subseteq known'[r]
    <3>1. keys'[r][x] = shares'[r][x] \cup st.merge.shares
      BY ZenonT(30), <1>9, <1>10, <1>11
    <3>2. st.answer.keys = shares'[r][x] \ st.merge.shares
      BY ZenonT(30), <1>9, <1>10, <1>11
    <3>3. Recipients(st.merge.shares) \subseteq known'[r]
      BY ZenonT(30), <1>9, <1>10, <1>11
    <3> QED BY <3>1, <3>2, <3>3
  <2>2. /\ rows'[r][x] = Recipients(shares'[r][x])
        /\ st.merge.rows = Recipients(st.merge.shares) \ Recipients(shares'[r][x])
        /\ st.answer.rows = Recipients(shares'[r][x]) \ Recipients(st.merge.shares)
    BY ZenonT(30), <1>9, <1>10, <1>11
  <2>3. st.phase # "finalShares"
    BY <1>10
  <2>4. rows'[r][x] = IF st.phase = "finalShares"
                      THEN Recipients(shares'[r][x]) \cup Recipients(st.merge.shares)
                      ELSE Recipients(shares'[r][x])
    BY ZenonT(30), <2>2, <2>3
  <2>5. st.merge.note = x
    BY <1>10
  <2> QED BY ZenonT(60), <2>1, <2>2, <2>4, <2>5, MergeHalfMade
<1>13. CalmBy(s, st)
  <2>1. m2.keys = m2.shares
    BY <1>3, <1>4
  <2>2. st.merge.keys = st.merge.shares
    BY <1>8, <2>1
  <2>3. /\ st.phase \notin {"final", "finalClocks"} \cup Responses
        /\ st.copies = session[s].copies
    BY <1>8 DEF Responses
  <2>4. \A c \in st.copies :
           c.to \in {s[1], s[2]} /\ c.keys = c.shares /\ c.rows = Recipients(c.shares)
    BY <1>3, <2>3
  <2>5. st.phase \notin {"final", "finalClocks"} /\ st.phase \notin Responses
    BY <2>3
  <2> QED BY <2>2, <2>4, <2>5 DEF CalmBy
<1>14. st.phase \in Gathering /\ st.merge.note = x /\ MergeHalf(st, s[2])'
  BY <1>10, <1>12 DEF Gathering
<1>15. session[s].merge.note = x
  OBVIOUS
<1> QED BY <1>1, <1>2, <1>3, <1>6, <1>7, <1>13, <1>14, <1>15, MergeMoves

LEMMA CalmInsert ==
    ASSUME IInv, Calm, NEW s \in Session, UNCHANGED known, InsertClocks(s)
    PROVE  Calm'
<1> SUFFICES ASSUME NEW m, m = session[s].merge, NEW a, a = session[s].answer,
                    NEW x, x = m.note, NEW r, r = s[2],
                    NEW st, st = Merging(s, "finalShares", m, a)
             PROVE  Calm'
  OBVIOUS
<1>1. TypeOK /\ KnownGrows
  BY DEF IInv, KnownGrows
<1>2. session[s].phase = "finalInsert" /\ session[s].phase \in Finals
      /\ session[s].phase \in Gathering
  BY DEF InsertClocks, At, Finals, Gathering
<1>3. /\ m \in MergeSet /\ a \in MergeSet /\ x \in Note /\ r \in User /\ m.keys = m.shares
      /\ m.note = x /\ MergeHalf(session[s], r)
      /\ \A c \in session[s].copies :
            c.to \in {s[1], s[2]} /\ c.keys = c.shares /\ c.rows = Recipients(c.shares)
  BY <1>2, MergeFinds
<1>4. Becomes(s, st)
  BY ZenonT(30), <1>1, MergeSteps
<1>5. keys' = keys /\ shares' = shares /\ rows' = Saved(rows, r, x, m.rows)
  BY DEF InsertClocks
<1>6. /\ st.phase = "finalShares" /\ st.merge = m /\ st.answer = a
      /\ st.copies = session[s].copies
  BY <1>1, <1>3, MergingTyped DEF Phase
<1>7. /\ keys[r][x] = shares[r][x] \cup m.shares
      /\ a.keys = shares[r][x] \ m.shares /\ Recipients(m.shares) \subseteq known[r]
      /\ rows[r][x] = Recipients(shares[r][x])
      /\ m.rows = Recipients(m.shares) \ Recipients(shares[r][x])
      /\ a.rows = Recipients(shares[r][x]) \ Recipients(m.shares)
  BY <1>2, <1>3 DEF MergeHalf
<1>8. rows'[r][x] = rows[r][x] \cup m.rows
  BY <1>1, <1>3, <1>5, SavedAt
<1>9. /\ st.merge.note = x /\ st.merge.shares = m.shares /\ st.phase = "finalShares"
      /\ st.answer.keys = a.keys /\ st.answer.rows = a.rows
  BY <1>3, <1>6
<1>10. known'[r] = known[r] /\ shares'[r][x] = shares[r][x] /\ keys'[r][x] = keys[r][x]
       /\ rows'[r][x] = Recipients(shares[r][x]) \cup Recipients(m.shares)
  <2>1. rows'[r][x] = Recipients(shares[r][x]) \cup Recipients(m.shares)
    BY <1>7, <1>8
  <2> QED BY <1>5, <2>1
<1>11. MergeHalf(st, r)'
  BY ZenonT(60), <1>7, <1>9, <1>10 DEF MergeHalf
<1>12. CalmBy(s, st)
  BY <1>3, <1>6 DEF CalmBy, Responses
<1>13. st.phase \in Gathering /\ st.merge.note = x /\ MergeHalf(st, s[2])'
  BY <1>9, <1>11 DEF Gathering
<1>14. rows' = Saved(rows, s[2], x, m.rows) /\ session[s].merge.note = x
  BY <1>5
<1> QED BY <1>1, <1>2, <1>3, <1>4, <1>5, <1>12, <1>13, <1>14, MergeMoves

LEMMA CalmMergeShares ==
    ASSUME IInv, Entered, Calm, NEW s \in Session, UNCHANGED known, MergeShares(s)
    PROVE  Calm'
<1> SUFFICES ASSUME NEW m, m = session[s].merge, NEW a, a = session[s].answer,
                    NEW x, x = m.note, NEW r, r = s[2],
                    NEW more, more = shares[r][x] \ m.shares,
                    NEW m2, m2 = [a EXCEPT !.shares = more],
                    NEW st, st = Merging(s, "response", m2, NoMerge)
             PROVE  Calm'
  OBVIOUS
<1>1. TypeOK /\ KnownGrows
  BY DEF IInv, KnownGrows
<1>2. session[s].phase = "finalShares" /\ session[s].phase \in Finals
      /\ session[s].phase \in Gathering
  BY DEF MergeShares, At, Finals, Gathering
<1>3. /\ m \in MergeSet /\ a \in MergeSet /\ x \in Note /\ r \in User
      /\ m.note = x /\ MergeHalf(session[s], r) /\ shares[r][x] \in SUBSET Chain
      /\ \A c \in session[s].copies :
            c.to \in {s[1], s[2]} /\ c.keys = c.shares /\ c.rows = Recipients(c.shares)
  BY <1>2, MergeFinds
<1>4. more \in SUBSET Chain
  BY <1>3
<1>5. /\ m2 \in MergeSet /\ m2.shares = more /\ m2.keys = a.keys /\ m2.rows = a.rows
  BY <1>3, <1>4 DEF MergeSet
<1>6. Becomes(s, st)
  BY ZenonT(30), <1>1, MergeSteps
<1>7. keys' = keys /\ rows' = rows /\ shares' = Saved(shares, r, x, m.shares)
  BY DEF MergeShares
<1>8. st.phase = "response" /\ st.merge = m2 /\ st.copies = session[s].copies
  BY <1>1, <1>5, IdleTyped, MergingTyped DEF Phase
<1>9. /\ keys[r][x] = shares[r][x] \cup m.shares
      /\ rows[r][x] = Recipients(shares[r][x]) \cup Recipients(m.shares)
      /\ a.keys = shares[r][x] \ m.shares
      /\ a.rows = Recipients(shares[r][x]) \ Recipients(m.shares)
  BY <1>2, <1>3 DEF MergeHalf
<1>10. Unique(keys[r][x])
  BY <1>3 DEF Entered, EnteredAt
<1>11. Unique(shares[r][x] \cup m.shares)
  BY <1>9, <1>10
<1>12. shares'[r][x] = shares[r][x] \cup m.shares
  BY <1>1, <1>3, <1>7, SavedAt
<1>13. keys'[r][x] = keys[r][x] /\ rows'[r][x] = rows[r][x]
  BY <1>7
<1>14. Recipients(shares'[r][x]) = Recipients(shares[r][x]) \cup Recipients(m.shares)
  BY <1>12, RecipientsUnion
<1>15. keys'[r][x] = shares'[r][x] /\ rows'[r][x] = Recipients(shares'[r][x])
  BY <1>9, <1>12, <1>13, <1>14
<1>16. CalmAt(r, x)'
  BY <1>15 DEF CalmAt
<1>17. a.rows = Recipients(more)
  <2>1. ASSUME NEW P, P = shares[r][x], NEW Q, Q = m.shares
        PROVE  Recipients(P \ Q) = Recipients(P) \ Recipients(Q)
    <3>1. Unique(P \cup Q)
      BY <1>11, <2>1
    <3> QED BY <3>1, RecipientsMinus
  <2> QED BY <1>9, <2>1
<1>18. Unique(more) /\ a.keys = more
  BY <1>9, <1>11 DEF Unique
<1>19. CalmBy(s, st)
  BY ZenonT(60), <1>3, <1>5, <1>8, <1>17, <1>18 DEF CalmBy
<1>20. CalmAt(s[2], x)' /\ st.phase = "response"
  BY <1>8, <1>16
<1>21. shares' = Saved(shares, s[2], x, m.shares) /\ session[s].merge.note = x
  BY <1>7
<1> QED BY <1>1, <1>2, <1>3, <1>6, <1>7, <1>19, <1>20, <1>21, MergeMoves

\* VectorClockResponse goes from one of its transactions to the next.
LEMMA AcceptMoves ==
    ASSUME TypeOK, Calm, KnownGrows, NEW s \in Session, NEW st, Becomes(s, st),
           NEW x \in Note, NEW P, NEW Q, NEW W, session[s].merge.note = x,
           \/ session[s].phase \in {"responseShares", "responseKeys"}
           \/ Amid(s[1]) = {} /\ Amid(s[2]) = {} /\ session[s].phase = "response",
           keys' = keys \/ keys' = Saved(keys, s[1], x, P),
           shares' = shares \/ shares' = Saved(shares, s[1], x, Q),
           rows' = rows \/ rows' = Saved(rows, s[1], x, W),
           \/ CalmAt(s[1], x)' /\ st.phase = "merging"
           \/ /\ st.phase \in {"responseShares", "responseKeys"}
              /\ st.merge.note = x /\ AcceptHalf(st, s[1])',
           CalmBy(s, st)
    PROVE  Calm'
<1>1. session'[s] = st
  BY DEF Becomes, TypeOK
<1>2. s[1] \in User /\ s[2] \in User /\ s[1] # s[2]
  BY SessionUsers
<1>3. HalfWay(s, session[s])'
  BY <1>1 DEF HalfWay, Gathering
<1>4. Amid(s[1]) \subseteq {s} /\ s \notin Amid(s[2])
  BY AmidOnce
<1>5. st.phase \in {"responseShares", "responseKeys", "merging"}
  OBVIOUS
<1>6. s \notin Amid(s[2])'
  BY <1>1, <1>2, <1>5 DEF Amid
<1>7. st.phase \in {"responseShares", "responseKeys"} => s \in Amid(s[1])'
  BY <1>1, <1>2 DEF Amid
<1>8. CalmAt(s[1], x)' \/ (s \in Amid(s[1])' /\ st.merge.note = x)
  BY <1>7
<1>9. WritesOnly(s[1], x)
  BY <1>2, SavedOnly
<1>10. s \in Amid(s[1]) => session[s].merge.note = x
  OBVIOUS
<1>11. {s[1], s[2]} = {s[1], s[2]} /\ s[1] # s[2]
  BY <1>2
<1>12. Becomes(s, st) /\ CalmBy(s, st)
  OBVIOUS
<1> QED BY <1>3, <1>4, <1>6, <1>8, <1>9, <1>10, <1>11, <1>12, CalmWrites

\* What a step of VectorClockResponse finds.
LEMMA AcceptFinds ==
    ASSUME IInv, Calm, NEW s \in Session, session[s].phase \in Responses
    PROVE  LET m == session[s].merge
               i == s[1]
           IN  /\ m \in MergeSet /\ session[s].answer \in MergeSet
               /\ m.note \in Note /\ i \in User
               /\ m.keys = m.shares /\ m.rows = Recipients(m.shares) /\ Unique(m.keys)
               /\ \A c \in session[s].copies :
                     c.to \in {s[1], s[2]} /\ c.keys = c.shares /\ c.rows = Recipients(c.shares)
               /\ session[s].phase \in {"responseShares", "responseKeys"} =>
                     AcceptHalf(session[s], i)
               /\ For(shares[i][m.note], i) # {}
<1> DEFINE m == session[s].merge
<1>1. session[s].phase \in Running
  BY RunningPhases
<1>2. /\ m \in MergeSet /\ session[s].answer \in MergeSet /\ m.note \in Note /\ s[1] \in User
      /\ CalmBy(s, session[s]) /\ HalfWay(s, session[s])
  BY <1>1, CalmMessage
<1>3. /\ m.keys = m.shares /\ m.rows = Recipients(m.shares) /\ Unique(m.keys)
      /\ \A c \in session[s].copies :
            c.to \in {s[1], s[2]} /\ c.keys = c.shares /\ c.rows = Recipients(c.shares)
  BY <1>2 DEF CalmBy
<1>4. session[s].phase \in {"responseShares", "responseKeys"} => AcceptHalf(session[s], s[1])
  BY <1>2 DEF HalfWay
<1>5. For(shares[s[1]][m.note], s[1]) # {}
  BY <1>1, CalmMessage DEF OwnRecords
<1> QED BY <1>2, <1>3, <1>4, <1>5

\* What a response carries stays as it is until all is stored.
LEMMA CalmByResponse ==
    ASSUME NEW s \in Session, NEW m, NEW st, st.merge = m, st.phase \in Responses \cup {"merging"},
           m.keys = m.shares, m.rows = Recipients(m.shares), Unique(m.keys),
           \A c \in st.copies :
              c.to \in {s[1], s[2]} /\ c.keys = c.shares /\ c.rows = Recipients(c.shares)
    PROVE  CalmBy(s, st)
BY DEF CalmBy

LEMMA CalmAcceptClocks ==
    ASSUME IInv, Calm, NEW s \in Session, UNCHANGED known,
           AcceptClocks(s), Amid(s[1]) = {}, Amid(s[2]) = {}
    PROVE  Calm'
<1> SUFFICES ASSUME NEW m, m = session[s].merge, NEW a, a = session[s].answer,
                    NEW x, x = m.note, NEW i, i = s[1],
                    NEW st, st = Merging(s, "responseShares", m, a)
             PROVE  Calm'
  OBVIOUS
<1>1. TypeOK /\ KnownGrows
  BY DEF IInv, KnownGrows
<1>2. session[s].phase = "response" /\ session[s].phase \in Responses
  BY DEF AcceptClocks, At, Responses
<1>3. /\ m \in MergeSet /\ a \in MergeSet /\ x \in Note /\ i \in User /\ m.keys = m.shares
      /\ m.note = x /\ m.rows = Recipients(m.shares) /\ Unique(m.keys)
      /\ \A c \in session[s].copies :
            c.to \in {s[1], s[2]} /\ c.keys = c.shares /\ c.rows = Recipients(c.shares)
      /\ For(shares[i][x], i) # {}
  BY <1>2, AcceptFinds
<1>4. Becomes(s, st)
  BY ZenonT(30), <1>1, MergeSteps
<1>5. keys' = keys /\ shares' = shares /\ rows' = Saved(rows, i, x, m.rows)
      /\ CanAddRows(i, x, m.rows)
  BY DEF AcceptClocks
<1>6. /\ st.phase = "responseShares" /\ st.merge = m
      /\ st.copies = session[s].copies
  <2>1. "responseShares" \in Phase
    BY DEF Phase
  <2>2. m \in MergeSet /\ a \in MergeSet
    BY <1>3
  <2>3. st = Merging(s, "responseShares", m, a)
    OBVIOUS
  <2> QED BY <1>1, <2>1, <2>2, <2>3, MergingNamed
<1>7. keys[i][x] = shares[i][x] /\ rows[i][x] = Recipients(shares[i][x])
  BY <1>3 DEF Calm, Moved, CalmAt
<1>8. rows'[i][x] = rows[i][x] \cup m.rows
  BY <1>1, <1>3, <1>5, SavedAt
<1>9. AcceptHalf(st, i)'
  <2>1. /\ shares'[i][x] = keys'[i][x] /\ rows'[i][x] = Recipients(keys'[i][x]) \cup m.rows
        /\ m.rows \cap Recipients(keys'[i][x]) = {} /\ m.rows \subseteq known'[i]
        /\ For(keys'[i][x], i) # {}
    BY <1>3, <1>5, <1>7, <1>8 DEF CanAddRows
  <2> QED BY ZenonT(60), <1>3, <1>6, <2>1 DEF AcceptHalf
<1>10. CalmBy(s, st)
  BY <1>3, <1>6, CalmByResponse DEF Responses
<1>11. st.phase \in {"responseShares", "responseKeys"} /\ st.merge.note = x /\ AcceptHalf(st, s[1])'
  BY <1>3, <1>6, <1>9
<1>12. rows' = Saved(rows, s[1], x, m.rows) /\ session[s].merge.note = x
  BY <1>5
<1> QED BY <1>1, <1>2, <1>3, <1>4, <1>5, <1>10, <1>11, <1>12, AcceptMoves

LEMMA CalmAcceptShares ==
    ASSUME IInv, Calm, NEW s \in Session, UNCHANGED known, AcceptShares(s)
    PROVE  Calm'
<1> SUFFICES ASSUME NEW m, m = session[s].merge, NEW a, a = session[s].answer,
                    NEW x, x = m.note, NEW i, i = s[1],
                    NEW st, st = Merging(s, "responseKeys", m, a)
             PROVE  Calm'
  OBVIOUS
<1>1. TypeOK /\ KnownGrows
  BY DEF IInv, KnownGrows
<1>2. session[s].phase = "responseShares" /\ session[s].phase \in Responses
  BY DEF AcceptShares, At, Responses
<1>3. /\ m \in MergeSet /\ a \in MergeSet /\ x \in Note /\ i \in User /\ m.keys = m.shares
      /\ m.note = x /\ m.rows = Recipients(m.shares) /\ Unique(m.keys)
      /\ \A c \in session[s].copies :
            c.to \in {s[1], s[2]} /\ c.keys = c.shares /\ c.rows = Recipients(c.shares)
      /\ AcceptHalf(session[s], i)
  BY <1>2, AcceptFinds
<1>4. Becomes(s, st)
  BY ZenonT(30), <1>1, MergeSteps
<1>5. keys' = keys /\ rows' = rows /\ shares' = Saved(shares, i, x, m.shares)
  BY DEF AcceptShares
<1>6. /\ st.phase = "responseKeys" /\ st.merge = m
      /\ st.copies = session[s].copies
  <2>1. "responseKeys" \in Phase
    BY DEF Phase
  <2>2. m \in MergeSet /\ a \in MergeSet
    BY <1>3
  <2>3. st = Merging(s, "responseKeys", m, a)
    OBVIOUS
  <2> QED BY <1>1, <2>1, <2>2, <2>3, MergingNamed
<1>7. /\ shares[i][x] = keys[i][x] /\ rows[i][x] = Recipients(keys[i][x]) \cup m.rows
      /\ m.rows \cap Recipients(keys[i][x]) = {} /\ m.rows \subseteq known[i]
      /\ For(keys[i][x], i) # {}
  BY <1>2, <1>3 DEF AcceptHalf
<1>8. shares'[i][x] = shares[i][x] \cup m.shares
  BY <1>1, <1>3, <1>5, SavedAt
<1>9. AcceptHalf(st, i)'
  <2>1. /\ shares'[i][x] = keys'[i][x] \cup m.shares
        /\ rows'[i][x] = Recipients(keys'[i][x]) \cup m.rows
        /\ m.rows \cap Recipients(keys'[i][x]) = {} /\ m.rows \subseteq known'[i]
        /\ For(keys'[i][x], i) # {}
    BY <1>5, <1>7, <1>8
  <2> QED BY ZenonT(60), <1>3, <1>6, <2>1 DEF AcceptHalf
<1>10. CalmBy(s, st)
  BY <1>3, <1>6, CalmByResponse DEF Responses
<1>11. st.phase \in {"responseShares", "responseKeys"} /\ st.merge.note = x /\ AcceptHalf(st, s[1])'
  BY <1>3, <1>6, <1>9
<1>12. shares' = Saved(shares, s[1], x, m.shares) /\ session[s].merge.note = x
  BY <1>5
<1>13. session[s].phase \in {"responseShares", "responseKeys"}
  BY <1>2
<1> QED BY <1>1, <1>3, <1>4, <1>5, <1>10, <1>11, <1>12, <1>13, AcceptMoves

LEMMA CalmAcceptKeys ==
    ASSUME IInv, Calm, NEW s \in Session, UNCHANGED known, AcceptKeys(s)
    PROVE  Calm'
<1> SUFFICES ASSUME NEW m, m = session[s].merge, NEW a, a = session[s].answer,
                    NEW x, x = m.note, NEW i, i = s[1],
                    NEW st, st = Merging(s, "merging", NoMerge, a)
             PROVE  Calm'
  OBVIOUS
<1>1. TypeOK /\ KnownGrows
  BY DEF IInv, KnownGrows
<1>2. session[s].phase = "responseKeys" /\ session[s].phase \in Responses
  BY DEF AcceptKeys, At, Responses
<1>3. /\ m \in MergeSet /\ a \in MergeSet /\ x \in Note /\ i \in User /\ m.keys = m.shares
      /\ m.note = x /\ m.rows = Recipients(m.shares)
      /\ \A c \in session[s].copies :
            c.to \in {s[1], s[2]} /\ c.keys = c.shares /\ c.rows = Recipients(c.shares)
      /\ AcceptHalf(session[s], i)
  BY <1>2, AcceptFinds
<1>4. Becomes(s, st)
  BY ZenonT(30), <1>1, MergeSteps
<1>5. shares' = shares /\ rows' = rows /\ keys' = Saved(keys, i, x, m.keys)
  BY DEF AcceptKeys
<1>6. st.phase = "merging" /\ st.copies = session[s].copies
  <2>1. "merging" \in Phase
    BY DEF Phase
  <2> QED BY <1>1, <1>3, <2>1, IdleTyped, MergingTyped
<1>7. shares[i][x] = keys[i][x] \cup m.shares /\ rows[i][x] = Recipients(keys[i][x]) \cup m.rows
  BY <1>2, <1>3 DEF AcceptHalf
<1>8. keys'[i][x] = keys[i][x] \cup m.keys
  BY <1>1, <1>3, <1>5, SavedAt
<1>9. keys'[i][x] = shares'[i][x]
  BY <1>3, <1>5, <1>7, <1>8
<1>10. rows'[i][x] = Recipients(shares'[i][x])
  <2>1. rows'[i][x] = Recipients(keys[i][x]) \cup Recipients(m.shares)
    BY <1>3, <1>5, <1>7
  <2>2. Recipients(keys[i][x] \cup m.shares) = Recipients(keys[i][x]) \cup Recipients(m.shares)
    BY RecipientsUnion
  <2> QED BY <1>5, <1>7, <2>1, <2>2
<1>11. CalmAt(s[1], x)' /\ st.phase = "merging"
  BY <1>6, <1>9, <1>10 DEF CalmAt
<1>12. CalmBy(s, st)
  <2>1. \A c \in st.copies :
           c.to \in {s[1], s[2]} /\ c.keys = c.shares /\ c.rows = Recipients(c.shares)
    BY <1>3, <1>6
  <2>2. st.phase \notin Finals \cup Responses
    BY <1>6 DEF Finals, Gathering, Responses
  <2> QED BY <2>1, <2>2 DEF CalmBy, Finals, Gathering
<1>13. keys' = Saved(keys, s[1], x, m.keys) /\ session[s].merge.note = x
  BY <1>3, <1>5
<1>14. session[s].phase \in {"responseShares", "responseKeys"}
  BY <1>2
<1> QED BY <1>1, <1>3, <1>4, <1>5, <1>11, <1>12, <1>13, <1>14, AcceptMoves

\* UpdatesResponse sends what is stored at rest.
LEMMA CalmAnswer ==
    ASSUME IInv, Calm, KnownGrows, NEW s \in Session, AnswerUpdates(s),
           Amid(s[1]) = {}, Amid(s[2]) = {}
    PROVE  Calm'
<1> SUFFICES ASSUME NEW a, a = session[s].answer, NEW x, x = session[s].merge.note
             PROVE  Calm'
  OBVIOUS
<1>0. SUFFICES ASSUME NEW m,
                      m = [note |-> x, keys |-> keys[s[1]][x],
                           shares |-> shares[s[1]][x], rows |-> rows[s[1]][x]],
                      NEW st, st = Merging(s, "final", m, a)
               PROVE  Calm'
  OBVIOUS
<1>1. TypeOK
  BY DEF IInv
<1>2. session[s].phase = "updates" /\ session[s].phase \in Running
  BY RunningPhases DEF AnswerUpdates, At
<1>3. /\ a \in MergeSet /\ x \in Note /\ s[1] \in User /\ CalmBy(s, session[s])
  BY <1>2, CalmMessage
<1>4. \A n \in {1, 2}, y \in Note : s[n] \in User /\ CalmAt(s[n], y)
  BY CalmEnds
<1>5. m.keys = m.shares /\ m.rows = Recipients(m.shares)
  BY <1>0, <1>3, <1>4 DEF CalmAt
<1>6. m \in MergeSet
  BY <1>0, <1>1, <1>3 DEF MergeSet, TypeOK
<1>7. Becomes(s, st)
  BY ZenonT(30), <1>0, <1>1, MergeSteps
<1>8. st.phase = "final" /\ st.merge = m /\ st.copies = session[s].copies
  <2>1. "final" \in Phase
    BY DEF Phase
  <2>2. m \in MergeSet /\ a \in MergeSet
    BY <1>3, <1>6
  <2>3. st = Merging(s, "final", m, a)
    BY <1>0
  <2> QED BY <1>1, <2>1, <2>2, <2>3, MergingNamed
<1>9. keys' = keys /\ shares' = shares /\ rows' = rows
  BY DEF AnswerUpdates, tables
<1>10. \A n \in {1, 2}, y \in Note : CalmAt(s[n], y)'
  BY <1>4, <1>9 DEF CalmAt
<1>11. CalmBy(s, st)
  <2>1. \A c \in st.copies :
           c.to \in {s[1], s[2]} /\ c.keys = c.shares /\ c.rows = Recipients(c.shares)
    BY <1>3, <1>8 DEF CalmBy
  <2>2. st.merge.keys = st.merge.shares /\ st.merge.rows = Recipients(st.merge.shares)
        /\ st.phase \notin Responses
    BY <1>5, <1>8 DEF Responses
  <2> QED BY <2>1, <2>2 DEF CalmBy
<1>12. st.phase \notin Gathering \cup {"responseShares", "responseKeys"}
  BY <1>8 DEF Gathering
<1> QED BY <1>1, <1>7, <1>9, <1>10, <1>11, <1>12, CalmSession

\* No transaction of a handler fails after its first one.
LEMMA MergeGoesOn ==
    ASSUME KInv, Calm, NEW s \in Session, session[s].phase \in Gathering
    PROVE  LET m == session[s].merge
               r == s[2]
           IN  /\ session[s].phase = "finalInsert" => CanAddRows(r, m.note, m.rows)
               /\ session[s].phase = "finalShares" => CanKeep(r, m.shares)
<1> DEFINE m == session[s].merge
           x == m.note
           r == s[2]
<1>1. session[s].phase \in Finals /\ IInv
  BY DEF Finals, KInv
<1>2. m \in MergeSet /\ MergeHalf(session[s], r)
  BY <1>1, MergeFinds
<1>3. m.shares \subseteq Chain /\ HangsOn(m.shares, m.shares)
  BY <1>1, <1>2 DEF KInv, Messages, HungBy, MergeSet
<1>4. Recipients(m.shares) \subseteq known[r]
  BY <1>2 DEF MergeHalf
<1>5. session[s].phase = "finalInsert" => CanAddRows(r, x, m.rows)
  <2>1. session[s].phase = "finalInsert" =>
           /\ rows[r][x] = Recipients(shares[r][x])
           /\ m.rows = Recipients(m.shares) \ Recipients(shares[r][x])
    BY <1>2 DEF MergeHalf
  <2> QED BY <1>4, <2>1 DEF CanAddRows
<1>6. CanKeep(r, m.shares)
  <2>1. Named(m.shares) \subseteq Recipients(m.shares) \cup Recipients(m.shares)
    BY <1>3, SharersHave
  <2> QED BY <1>4, <2>1 DEF CanKeep
<1> QED BY <1>5, <1>6

LEMMA AcceptGoesOn ==
    ASSUME KInv, Entered, Calm, NEW s \in Session,
           session[s].phase \in {"responseShares", "responseKeys"}
    PROVE  LET m == session[s].merge
               i == s[1]
           IN  /\ session[s].phase = "responseShares" => CanKeep(i, m.shares)
               /\ session[s].phase = "responseKeys" => CanInsert(keys[i][m.note], m.keys, known[i])
<1> DEFINE m == session[s].merge
           x == m.note
           i == s[1]
<1>1. session[s].phase \in Responses /\ IInv
  BY DEF Responses, KInv
<1>2. /\ m \in MergeSet /\ x \in Note /\ i \in User /\ m.keys = m.shares
      /\ m.rows = Recipients(m.shares) /\ Unique(m.keys) /\ AcceptHalf(session[s], i)
  BY <1>1, AcceptFinds
<1>3. m.shares \subseteq Chain /\ HangsOn(m.shares, m.shares \cup shares[i][x])
  BY <1>1, <1>2 DEF KInv, Messages, HungBy, MergeSet
<1>4. Recipients(m.shares) \subseteq known[i] /\ m.rows \cap Recipients(keys[i][x]) = {}
  BY <1>2 DEF AcceptHalf
<1>5. CanKeep(i, m.shares)
  <2>1. ASSUME NEW P, P = m.shares, NEW Q, Q = m.shares \cup shares[i][x]
        PROVE  Named(P) \subseteq Recipients(P) \cup Recipients(Q)
    BY <1>3, <2>1, SharersHave
  <2>2. Recipients(m.shares \cup shares[i][x]) = Recipients(m.shares) \cup Recipients(shares[i][x])
    BY RecipientsUnion
  <2>3. Recipients(shares[i][x]) \subseteq known[i]
    BY <1>2 DEF Entered, EnteredAt
  <2>4. Named(m.shares) \subseteq Recipients(m.shares) \cup Recipients(m.shares \cup shares[i][x])
    BY <2>1
  <2> QED BY <1>4, <2>2, <2>3, <2>4 DEF CanKeep
<1>6. CanInsert(keys[i][x], m.keys, known[i])
  <2>1. \A p \in m.keys, q \in keys[i][x] : Recipient(p) # Recipient(q)
    BY <1>2, <1>4 DEF Recipients
  <2> QED BY <1>2, <1>4, <2>1, InsertNew
<1> QED BY <1>5, <1>6

\* A session that goes on with its own handler.
LEMMA CalmGoesOn ==
    ASSUME KInv, Entered, Calm, NEW s \in Session, Step(s),
           session[s].phase \in Gathering \cup {"responseShares", "responseKeys"}
    PROVE  Calm'
<1> DEFINE m == session[s].merge
<1>1. IInv
  BY DEF KInv
<1>2. ~Refused(s)
  <2>1. CASE session[s].phase \in Gathering
    BY <2>1, MergeGoesOn DEF Refused, At, Gathering
  <2>2. CASE session[s].phase \in {"responseShares", "responseKeys"}
    BY <2>2, AcceptGoesOn DEF Refused, At
  <2> QED BY <2>1, <2>2
<1>3. CompareClocks(s) \/ InsertClocks(s) \/ MergeShares(s) \/ AcceptShares(s) \/ AcceptKeys(s)
  BY <1>2 DEF Step, Gathering, At, CompareManifests, TakeUsers, TakeUsersBack, TakeFolders,
     TakeFoldersBack, TakeRecipients, TakeCopy, CopiesDone, RequestUpdates, AnswerRequest,
     AnswerUpdates, MergeKeys, AcceptClocks, SyncDone
<1>4. UNCHANGED known
  BY <1>3 DEF CompareClocks, InsertClocks, MergeShares, AcceptShares, AcceptKeys, tables
<1> QED BY <1>1, <1>3, <1>4, CalmCompare, CalmInsert, CalmMergeShares, CalmAcceptShares,
           CalmAcceptKeys

\* One that begins a handler, beside which none is under way.
LEMMA CalmBegins ==
    ASSUME KInv, Entered, Calm, KnownGrows, NEW s \in Session, Connect(s) \/ Step(s),
           Amid(s[1]) = {}, Amid(s[2]) = {}
    PROVE  Calm'
<1> DEFINE Goal == Calm'
<1> SUFFICES Goal
  OBVIOUS
<1>1. IInv /\ TypeOK
  BY DEF KInv, IInv
<1>2. session[s].phase \notin Gathering \cup {"responseShares", "responseKeys"}
  <2>1. s[1] \in User /\ s[2] \in User
    BY SessionUsers
  <2> QED BY <2>1 DEF Amid, Gathering
<1>3. ASSUME OtherStep(s) PROVE Goal
  BY <1>1, <1>3, CalmPhases
<1>4. ASSUME NEW n \in {1, 2}, TakeRecipients(s, n) PROVE Goal
  <2>1. CASE Taken(s, n)
    BY <1>1, <2>1, CalmTaken
  <2>2. CASE Becomes(s, Idle) /\ UNCHANGED <<tables, created, asked>>
    <3>1. UNCHANGED <<keys, shares, rows>>
      BY <2>2 DEF tables
    <3>2. Idle.copies \subseteq session[s].copies /\ Idle.phase \notin Finals \cup Responses
      BY DEF Idle, Finals, Gathering, Responses
    <3> QED BY <1>1, <2>2, <3>1, <3>2, CalmQuiet
  <2> QED BY <1>1, <1>4, <2>1, <2>2, TakenOrNot
<1>5. ASSUME NEW c \in session[s].copies, TakeCopy(s, c) PROVE Goal
  BY <1>1, <1>5, CalmCopy
<1>6. ASSUME AnswerUpdates(s) PROVE Goal
  BY <1>1, <1>6, CalmAnswer
<1>7. ASSUME MergeKeys(s) PROVE Goal
  <2>1. UNCHANGED known
    BY <1>7 DEF MergeKeys
  <2> QED BY <1>1, <1>7, <2>1, CalmMergeKeys
<1>8. ASSUME AcceptClocks(s) PROVE Goal
  <2>1. UNCHANGED known
    BY <1>8 DEF AcceptClocks
  <2> QED BY <1>1, <1>8, <2>1, CalmAcceptClocks
<1>9. ~(CompareClocks(s) \/ InsertClocks(s) \/ MergeShares(s) \/ AcceptShares(s) \/ AcceptKeys(s))
  BY <1>2 DEF CompareClocks, InsertClocks, MergeShares, AcceptShares, AcceptKeys, At, Gathering
<1> HIDE DEF Goal
<1> QED BY <1>3, <1>4, <1>5, <1>6, <1>7, <1>8, <1>9 DEF Step, OtherStep

\* A stuttering step.
LEMMA CalmSame == ASSUME Calm, UNCHANGED vars PROVE Calm'
<1>1. /\ keys' = keys /\ shares' = shares /\ rows' = rows /\ known' = known
      /\ session' = session
  BY DEF vars, tables
<1>2. \A u \in User : Amid(u)' = Amid(u)
  BY <1>1 DEF Amid
<1>3. \A u \in User, x \in Note :
         (CalmAt(u, x)' <=> CalmAt(u, x)) /\ (Moved(u, x)' <=> Moved(u, x))
  BY <1>1, <1>2 DEF CalmAt, Moved
<1>4. ASSUME NEW s \in Session PROVE CalmBy(s, session'[s]) /\ HalfWay(s, session[s])'
  <2>1. CalmBy(s, session[s]) /\ HalfWay(s, session[s])
    BY DEF Calm
  <2>2. session'[s] = session[s]
    BY <1>1
  <2>3. HalfWay(s, session[s])' <=> HalfWay(s, session[s])
    BY <1>1 DEF HalfWay, MergeHalf, AcceptHalf
  <2>4. CalmBy(s, session'[s])
    BY <2>1, <2>2
  <2> QED BY <2>1, <2>3, <2>4
<1>5. \A u \in User, x \in Note : CalmAt(u, x)' \/ Moved(u, x)'
  BY <1>3 DEF Calm
<1>6. \A u \in User : \A s, t \in Amid(u)' : s = t
  BY <1>2 DEF Calm
<1> QED BY <1>4, <1>5, <1>6 DEF Calm

\* Without a fault nothing comes between the transactions of a handler.
LEMMA NoFault ==
    ASSUME TypeOK, faults = 0, faults' = 0, NEW U, NEW own, Alongside(U, own)
    PROVE  (\A u \in U : Amid(u) = {}) \/ \E u \in U : own \cap Amid(u) # {}
BY DEF Alongside

LEMMA CalmNext ==
    ASSUME KInv, Entered, faults = 0 => Calm, [Next]_vars
    PROVE  faults' = 0 => Calm'
<1> SUFFICES ASSUME faults' = 0 PROVE Calm'
  OBVIOUS
<1>1. IInv /\ TypeOK /\ KnownGrows
  BY EnteredNext DEF KInv, IInv
<1>2. faults = 0 /\ Calm
  BY <1>1, NextSteps
<1>3. ASSUME NEW u \in User, UserActs(u), Alongside({u}, {}) PROVE Calm'
  <2>1. Amid(u) = {}
    BY <1>1, <1>2, <1>3, NoFault
  <2> QED BY <1>1, <1>2, <1>3, <2>1, CalmUser
<1>4. ASSUME NEW s \in Session, Connect(s), Alongside({s[1], s[2]}, {}) PROVE Calm'
  <2>1. Amid(s[1]) = {} /\ Amid(s[2]) = {}
    BY <1>1, <1>2, <1>4, NoFault
  <2> QED BY <1>1, <1>2, <1>4, <2>1, CalmBegins
<1>5. ASSUME NEW s \in Session, Step(s), Alongside({s[1], s[2]}, {s}) PROVE Calm'
  <2>1. CASE Amid(s[1]) = {} /\ Amid(s[2]) = {}
    BY <1>1, <1>2, <1>5, <2>1, CalmBegins
  <2>2. CASE s \in Amid(s[1]) \cup Amid(s[2])
    <3>1. session[s].phase \in Gathering \cup {"responseShares", "responseKeys"}
      BY <2>2 DEF Amid, Gathering
    <3> QED BY <1>2, <1>5, <3>1, CalmGoesOn
  <2>3. (\A u \in {s[1], s[2]} : Amid(u) = {}) \/ \E u \in {s[1], s[2]} : {s} \cap Amid(u) # {}
    BY <1>1, <1>2, <1>5, NoFault
  <2> QED BY <2>1, <2>2, <2>3
<1>6. CASE UNCHANGED vars
  BY <1>2, <1>6, CalmSame
<1> QED BY <1>1, <1>3, <1>4, <1>5, <1>6, NextSteps

LEMMA CalmInit == Init => Calm
<1> SUFFICES ASSUME Init PROVE Calm
  OBVIOUS
<1>1. \A s \in Session : session[s] = Idle
  BY DEF Init
<1>2. \A s \in Session : CalmBy(s, session[s]) /\ HalfWay(s, session[s])
  BY <1>1 DEF CalmBy, HalfWay, Idle, Finals, Gathering, Responses
<1>3. \A u \in User : Amid(u) = {}
  BY <1>1 DEF Amid, Idle
<1>4. \A u \in User, x \in Note : CalmAt(u, x)
  BY DEF Init, CalmAt, Recipients
<1> QED BY <1>2, <1>3, <1>4 DEF Calm

CInv == KInv /\ Entered /\ (faults = 0 => Calm)

LEMMA CalmInvariant == Spec => []CInv
<1>1. Init => CInv
  BY InitHangs, EnteredInit, CalmInit DEF CInv
<1>2. CInv /\ [Next]_vars => CInv'
  <2> SUFFICES ASSUME CInv, [Next]_vars PROVE CInv'
    OBVIOUS
  <2>1. KInv' /\ Entered' /\ (faults' = 0 => Calm')
    BY NextHangs, EnteredNext, CalmNext DEF CInv, KInv
  <2> QED BY <2>1 DEF CInv
<1> QED BY <1>1, <1>2, PTL DEF Spec

\* Between two handlers a user's keys, records and rows of a note are of the same
\* recipients, for any number of users, notes and sessions, as long as no
\* device stops amid a handler of a merge, and none begins to write beside it
\* (FinalUpdateMerge, VectorClockResponse, save_resource_sync_data).
THEOREM KeysTravelTogether == Spec => []Together
<1>1. CInv => Together
  BY DEF CInv, Together, Calm, CalmAt, Moved
<1> QED BY <1>1, CalmInvariant, PTL

\* Who has a note has its own record of it at any time, and without such faults
\* also its key, amid the handlers of a merge too (get_resource).
THEOREM HoldersAlwaysRead == Spec => []HoldersRead
<1>1. ASSUME CInv PROVE HoldersRead
  <2> SUFFICES ASSUME NEW u \in User, NEW x \in held[u]
               PROVE  OwnRecords(u, x) # {} /\ (faults = 0 => Opens(u, x))
    BY DEF HoldersRead
  <2>1. x \in Note /\ OwnRecords(u, x) # {}
    BY <1>1 DEF CInv, KInv, IInv, TypeOK, StoredHeld, OwnKept
  <2>2. ASSUME faults = 0 PROVE Opens(u, x)
    <3>1. Calm /\ IInv
      BY <1>1, <2>2 DEF CInv, KInv
    <3>2. CASE CalmAt(u, x)
      BY <2>1, <3>2 DEF CalmAt, OwnRecords, Opens
    <3>3. CASE Moved(u, x)
      <4>1. PICK s \in Amid(u) : session[s].merge.note = x
        BY <3>3 DEF Moved
      <4>2. CASE u = s[2] /\ session[s].phase \in Gathering
        <5>1. MergeHalf(session[s], u)
          BY <3>1, <4>1, <4>2 DEF Calm, HalfWay, Amid
        <5>2. shares[u][x] \subseteq keys[u][x]
          BY <4>1, <5>1 DEF MergeHalf
        <5> QED BY <2>1, <5>2 DEF Opens, OwnRecords, For
      <4>3. CASE u = s[1] /\ session[s].phase \in {"responseShares", "responseKeys"}
        <5>1. AcceptHalf(session[s], u)
          BY <3>1, <4>1, <4>3 DEF Calm, HalfWay, Amid
        <5> QED BY <4>1, <5>1 DEF AcceptHalf, Opens
      <4> QED BY <4>1, <4>2, <4>3 DEF Amid, Gathering
    <3> QED BY <2>1, <3>1, <3>2, <3>3 DEF Calm
  <2> QED BY <2>1, <2>2
<1>2. CInv => HoldersRead
  BY <1>1
<1> QED BY <1>2, CalmInvariant, PTL

----------------------------------------------------------------------------
(* One sharer for each recipient.                                          *)

\* Who can ever be given the folder; who can ever share the note x with w.
InFolder == {Founder} \cup {w \in User : \E v \in User : <<v, w>> \in FolderShares}

Sharers(x, w) ==
    {u \in User : \/ <<u, x, w>> \in NoteShares
                  \/ /\ x \in Foldered /\ w \in InFolder
                     /\ u = Creator[x] \/ <<u, w>> \in FolderShares}

\* No note is shared with anybody by two users.
OneSharer == \A x \in Note, w \in User : \A u, v \in Sharers(x, w) : u = v

Records(x) == AllOf(x, shares) \cup UNION {asked[u].given[x] : u \in User}

\* Every record of a note goes back to its creator, and is by one who may
\* share the note with its recipient.
Rooted ==
    \A x \in Note : \A p \in Records(x) :
        /\ p[1] = Creator[x]
        /\ Len(p) # 1 => Sharer(p) \in Sharers(x, Recipient(p))

OneRecord ==
    \A x \in Note : \A p, q \in Records(x) : Recipient(p) = Recipient(q) => p = q

CreatedFirst == \A x \in Note : Records(x) # {} => x \in held[Creator[x]]

RInv == Rooted /\ OneRecord /\ CreatedFirst

LEMMA RecordsTyped ==
    ASSUME TypeOK, NEW x \in Note PROVE Records(x) \subseteq Chain
BY DEF TypeOK, Records, AllOf, Asked

\* A record of one who was given the note stands where its sharer's does.
LEMMA FrontRecord ==
    ASSUME KInv, NEW x \in Note, NEW p \in Records(x), Len(p) # 1
    PROVE  SubSeq(p, 1, Len(p) - 1) \in Records(x)
<1>1. p \in Chain
  BY RecordsTyped DEF KInv, IInv
<1>2. Len(p) - 1 \in 1 .. Len(p) - 1
  <2>1. Len(p) \in Nat /\ 1 <= Len(p)
    BY <1>1, ChainLength
  <2>2. \A n \in Nat : 1 <= n /\ n # 1 => n - 1 \in 1 .. n - 1
    OBVIOUS
  <2> QED BY <2>1, <2>2
<1>3. PICK u \in User : p \in shares[u][x] \/ p \in asked[u].given[x]
  BY DEF Records, AllOf
<1>4. SubSeq(p, 1, Len(p) - 1) \in shares[u][x]
  BY <1>2, <1>3 DEF KInv, Hanging, HangsOn
<1> QED BY <1>4 DEF Records, AllOf

\* Whoever has a record of a note has its creator's.
LEMMA CreatorRecord ==
    ASSUME KInv, Rooted, NEW u \in User, NEW x \in Note, shares[u][x] # {}
    PROVE  For(shares[u][x], Creator[x]) # {}
<1>1. PICK p : p \in shares[u][x]
  OBVIOUS
<1>2. p \in Chain /\ p[1] = Creator[x]
  BY <1>1 DEF KInv, IInv, TypeOK, Rooted, Records, AllOf
<1>3. shares[u][x] \subseteq Chain /\ HangsOn(shares[u][x], shares[u][x])
  BY DEF KInv, IInv, TypeOK, Hanging
<1>4. 1 \in 1 .. Len(p)
  BY <1>2, ChainLength
<1>5. SubSeq(p, 1, 1) \in shares[u][x]
  BY <1>1, <1>3, <1>4, ClosedHangs DEF Closed
<1>6. Recipient(SubSeq(p, 1, 1)) = Creator[x]
  BY <1>2, <1>4, Beginning
<1> QED BY <1>5, <1>6 DEF For

\* A new record by one who has no record for its recipient yet: without a fault
\* no other is made, since there is no key for one whose record is kept.
FirstFor(u, x, p) == NewRecord(u, x, p) /\ For(shares[u][x], Recipient(p)) = {}

\* It is by one who may share the note with its recipient, and goes back to the
\* creator.
LEMMA NewRecordParts ==
    ASSUME KInv, Rooted, FolderBase, NEW u \in User, NEW x \in Note, NEW p, FirstFor(u, x, p)
    PROVE  /\ p[1] = Creator[x] /\ Len(p) # 1 /\ Sharer(p) = u
           /\ u \in Sharers(x, Recipient(p)) /\ Recipient(p) \in User
           /\ For(shares[u][x], Recipient(p)) = {} /\ shares[u][x] # {}
           /\ \E own \in Records(x) : Recipient(own) = u /\ p = Delegated(own, Recipient(p))
<1>1. PICK own \in OwnRecords(u, x), w \in User :
         p = Delegated(own, w) /\ MayAsk(u, x, w)
  BY DEF FirstFor, NewRecord
<1>2. own \in shares[u][x] /\ Recipient(own) = u /\ own \in Chain /\ own \in Records(x)
  BY <1>1 DEF OwnRecords, For, KInv, IInv, TypeOK, Records, AllOf
<1>3. /\ Len(p) = Len(own) + 1 /\ Recipient(p) = w /\ Sharer(p) = u /\ p[1] = own[1]
  BY <1>1, <1>2, DelegatedParts
<1>4. own[1] = Creator[x]
  BY <1>2 DEF Rooted
<1>5. Len(p) # 1
  <2>1. Len(own) \in Nat /\ 1 <= Len(own)
    BY <1>2, ChainLength
  <2> QED BY <1>3, <2>1
<1>6. Recipients(folder[u]) \subseteq InFolder
  <2>1. ASSUME NEW q \in folder[u] PROVE Recipient(q) \in InFolder
    <3>1. q \in Chain /\ q \in FolderRecords
      BY DEF KInv, IInv, TypeOK, FolderRecords, AllFolder
    <3>2. Recipient(q) \in User /\ Sharer(q) \in User
      BY <3>1, ChainUsers
    <3>3. Len(q) = 1 => Recipient(q) = Founder
      BY <3>1 DEF FolderBase, FolderRooted, Recipient
    <3> QED BY <3>1, <3>2, <3>3 DEF FolderBase, FolderRooted, InFolder
  <2> QED BY <2>1 DEF Recipients
<1>7. u \in Sharers(x, w)
  BY <1>1, <1>6 DEF MayAsk, Sharers, InFolder
<1> QED BY <1>1, <1>2, <1>3, <1>4, <1>5, <1>7 DEF FirstFor

\* The creator's first record.
FirstRecord(x, p) ==
    p = <<Creator[x]>> /\ x \notin held[Creator[x]] /\ x \in held'[Creator[x]]

\* What a user does changes its own records.
LEMMA UserLocal ==
    ASSUME TypeOK, NEW u \in User, UserActs(u), NEW v \in User, v # u
    PROVE  shares'[v] = shares[v] /\ asked'[v] = asked[v]
<1> DEFINE Goal == shares'[v] = shares[v] /\ asked'[v] = asked[v]
<1>1. \A given : Store(u, given) => shares'[v] = shares[v]
  BY DEF Store, TypeOK
<1>2. \A ask : asked' = [asked EXCEPT ![u] = ask] => asked'[v] = asked[v]
  BY DEF TypeOK
<1>3. ASSUME CreateFolder(u) PROVE Goal
  BY <1>3 DEF CreateFolder
<1>4. ASSUME NEW x \in Note, Create(u, x) PROVE Goal
  BY <1>1, <1>4 DEF Create, TypeOK
<1>5. ASSUME NEW x \in Note, AutoShare(u, x) PROVE Goal
  BY <1>2, <1>5 DEF AutoShare, tables
<1>6. ASSUME NEW x \in Note, NEW w \in User, ShareNote(u, x, w) PROVE Goal
  BY <1>1, <1>6 DEF ShareNote
<1>7. ASSUME NEW w \in User, PrepareFolder(u, w) PROVE Goal
  BY <1>2, <1>7 DEF PrepareFolder
<1>8. ASSUME SaveShares(u) PROVE Goal
  BY <1>1, <1>2, <1>8 DEF SaveShares
<1> HIDE DEF Goal
<1> QED BY <1>3, <1>4, <1>5, <1>6, <1>7, <1>8 DEF UserActs, Goal

\* A step adds new records and first ones.
LEMMA UserAdds ==
    ASSUME KInv, Calm, NEW u \in User, UserActs(u), Amid(u) = {}, NEW x \in Note
    PROVE  /\ \A p \in Records(x)' : \/ p \in Records(x) \/ FirstRecord(x, p)
                                     \/ FirstFor(u, x, p)
           /\ \A v \in User : held[v] \subseteq held'[v]
<1>1. \A v \in User : held[v] \subseteq held'[v]
  BY UserHeld DEF KInv
<1>2. IInv /\ Placed /\ TypeOK
  BY DEF KInv, IInv
<1>3. /\ \A p \in shares'[u][x] : Source(u, x, p)
      /\ \A p \in asked'[u].given[x] : p \in asked[u].given[x] \/ NewRecord(u, x, p)
  BY <1>2, UserRecords
<1>4. \A v \in User : shares[v][x] \subseteq Records(x) /\ asked[v].given[x] \subseteq Records(x)
  BY DEF Records, AllOf
<1>5. keys[u][x] = shares[u][x]
  BY DEF Calm, Moved, CalmAt
<1>6. \A p : NewRecord(u, x, p) => FirstFor(u, x, p)
  <2> SUFFICES ASSUME NEW p, NewRecord(u, x, p) PROVE FirstFor(u, x, p)
    OBVIOUS
  <2>1. PICK own \in OwnRecords(u, x), w \in User :
           p = Delegated(own, w) /\ For(keys[u][x], w) = {}
    BY DEF NewRecord
  <2>2. own \in Chain
    BY <1>2, <2>1 DEF OwnRecords, For, TypeOK
  <2>3. Recipient(p) = w
    BY <2>1, <2>2, DelegatedParts
  <2> QED BY <1>5, <2>1, <2>3 DEF FirstFor
<1>7. ASSUME NEW p \in Records(x)'
      PROVE  \/ p \in Records(x) \/ FirstRecord(x, p) \/ FirstFor(u, x, p)
  <2>1. PICK v \in User : p \in shares'[v][x] \/ p \in asked'[v].given[x]
    BY DEF Records, AllOf
  <2>2. CASE v # u
    <3>1. p \in shares[v][x] \/ p \in asked[v].given[x]
      BY <1>2, <2>1, <2>2, UserLocal
    <3> QED BY <1>4, <3>1
  <2>3. CASE v = u /\ p \in shares'[u][x]
    BY <1>3, <1>4, <1>6, <2>3 DEF Source, FirstRecord
  <2>4. CASE v = u /\ p \in asked'[u].given[x]
    BY <1>3, <1>4, <1>6, <2>4
  <2> QED BY <2>1, <2>2, <2>3, <2>4
<1> QED BY <1>1, <1>7

\* A session adds none, as long as it finds what is shared at rest.
LEMMA SessionAdds ==
    ASSUME KInv, Calm, NEW s \in Session, Connect(s) \/ Step(s),
           (\E n \in {1, 2} : TakeRecipients(s, n)) => Amid(s[1]) = {} /\ Amid(s[2]) = {},
           NEW x \in Note
    PROVE  Records(x)' \subseteq Records(x) /\ \A v \in User : held[v] \subseteq held'[v]
<1>1. IInv /\ TypeOK
  BY DEF KInv, IInv
<1>2. asked' = asked
  BY <1>1, SessionFolders
<1>3. ASSUME NEW n \in {1, 2}, TakeRecipients(s, n) PROVE shares' = shares /\ held' = held
  <2>1. CASE Taken(s, n)
    BY <1>1, <1>3, <2>1, TakenCalm
  <2>2. CASE UNCHANGED <<tables, created, asked>>
    BY <2>2 DEF tables
  <2> QED BY <1>1, <1>3, <2>1, <2>2, TakenOrNot
<1>4. \A v \in User : shares'[v][x] \subseteq AllOf(x, shares)
  <2>1. CASE \E n \in {1, 2} : TakeRecipients(s, n)
    BY <1>3, <2>1 DEF AllOf
  <2>2. CASE \A n \in {1, 2} : ~TakeRecipients(s, n)
    BY <2>2, SessionHangs DEF Delivered
  <2> QED BY <2>1, <2>2
<1>5. Records(x)' \subseteq Records(x)
  BY <1>2, <1>4 DEF Records, AllOf
<1>6. held' = held \/ \E u \in User, y \in Note : held' = [held EXCEPT ![u] = @ \cup {y}]
  <2>1. session[s] \in SessionState
    BY <1>1, SessionTyped
  <2>2. ASSUME NEW c \in session[s].copies, TakeCopy(s, c)
        PROVE  \/ held' = held
               \/ \E u \in User, y \in Note : held' = [held EXCEPT ![u] = @ \cup {y}]
    <3>1. c.to \in User /\ c.note \in Note
      BY <2>1 DEF SessionState, CopySet
    <3> QED BY <2>2, <3>1 DEF TakeCopy
  <2>3. ASSUME Connect(s) \/ CompareManifests(s) \/ TakeUsers(s) \/ TakeUsersBack(s)
               \/ TakeFolders(s) \/ TakeFoldersBack(s)
        PROVE  held' = held
    BY <2>3 DEF Connect, CompareManifests, TakeUsers, TakeUsersBack, TakeFolders,
                TakeFoldersBack, tables
  <2>4. ASSUME CopiesDone(s) \/ (\E y \in session[s].todo : RequestUpdates(s, y))
               \/ Refused(s) \/ SyncDone(s)
        PROVE  held' = held
    BY <2>4 DEF CopiesDone, RequestUpdates, Refused, SyncDone, tables
  <2>5. MergeStep(s) => held' = held
    BY <1>1, MergeStepTables
  <2> QED BY <1>3, <2>2, <2>3, <2>4, <2>5 DEF Step, MergeStep
<1>7. \A v \in User : held[v] \subseteq held'[v]
  <2>1. held \in [User -> SUBSET Note]
    BY <1>1 DEF TypeOK
  <2>2. ASSUME NEW u \in User, NEW y \in Note, held' = [held EXCEPT ![u] = @ \cup {y}]
        PROVE  \A v \in User : held[v] \subseteq held'[v]
    BY <2>1, <2>2
  <2> QED BY <1>6, <2>2
<1> QED BY <1>5, <1>7

LEMMA RecordsStep ==
    ASSUME KInv, Calm, [Next]_vars, faults' = 0, NEW x \in Note
    PROVE  /\ \A p \in Records(x)' : \/ p \in Records(x) \/ FirstRecord(x, p)
                                     \/ \E u \in User : FirstFor(u, x, p)
           /\ \A u \in User : held[u] \subseteq held'[u]
<1>1. TypeOK /\ faults = 0
  BY NextSteps DEF KInv, IInv
<1>2. ASSUME NEW u \in User, UserActs(u), Alongside({u}, {})
      PROVE  /\ \A p \in Records(x)' : \/ p \in Records(x) \/ FirstRecord(x, p)
                                       \/ \E v \in User : FirstFor(v, x, p)
             /\ \A v \in User : held[v] \subseteq held'[v]
  <2>1. Amid(u) = {}
    BY <1>1, <1>2, NoFault
  <2> QED BY <1>2, <2>1, UserAdds
<1>3. ASSUME NEW s \in Session, Connect(s), Alongside({s[1], s[2]}, {})
      PROVE  Records(x)' \subseteq Records(x) /\ \A v \in User : held[v] \subseteq held'[v]
  <2>1. Amid(s[1]) = {} /\ Amid(s[2]) = {}
    BY <1>1, <1>3, NoFault
  <2> QED BY <1>3, <2>1, SessionAdds
<1>4. ASSUME NEW s \in Session, Step(s), Alongside({s[1], s[2]}, {s})
      PROVE  Records(x)' \subseteq Records(x) /\ \A v \in User : held[v] \subseteq held'[v]
  <2>1. ASSUME NEW n \in {1, 2}, TakeRecipients(s, n)
        PROVE  Amid(s[1]) = {} /\ Amid(s[2]) = {}
    <3>1. session[s].phase \in {"recipients", "recipientsBack"}
      BY <2>1 DEF TakeRecipients, At
    <3>2. s \notin Amid(s[1]) /\ s \notin Amid(s[2])
      BY <3>1 DEF Amid
    <3>3. \/ \A u \in {s[1], s[2]} : Amid(u) = {}
          \/ \E u \in {s[1], s[2]} : {s} \cap Amid(u) # {}
      BY <1>1, <1>4, NoFault
    <3> QED BY <3>2, <3>3
  <2> QED BY <1>4, <2>1, SessionAdds
<1>5. CASE UNCHANGED vars
  BY <1>5 DEF vars, tables, Records, AllOf
<1> QED BY <1>1, <1>2, <1>3, <1>4, <1>5, NextSteps

\* There is no second record of a note for anybody.
LEMMA NewRecordIsFirst ==
    ASSUME KInv, RInv, FolderBase, OneSharer, NEW x \in Note, NEW u \in User,
           NEW p, FirstFor(u, x, p), NEW q \in Records(x), Recipient(q) = Recipient(p)
    PROVE  q = p
<1>1. /\ u \in Sharers(x, Recipient(p)) /\ Recipient(p) \in User
      /\ For(shares[u][x], Recipient(p)) = {} /\ shares[u][x] # {}
  BY NewRecordParts DEF RInv
<1>2. PICK own \in Records(x) : Recipient(own) = u /\ p = Delegated(own, Recipient(p))
  BY NewRecordParts DEF RInv
<1>3. q \in Chain
  BY RecordsTyped DEF KInv, IInv
<1>4. CASE Len(q) = 1
  <2>1. Recipient(q) = Creator[x]
    BY <1>4 DEF RInv, Rooted, Recipient
  <2>2. For(shares[u][x], Creator[x]) # {}
    BY <1>1, CreatorRecord DEF RInv
  <2> QED BY <1>1, <2>1, <2>2
<1>5. CASE Len(q) # 1
  <2> DEFINE front == SubSeq(q, 1, Len(q) - 1)
  <2>1. Recipient(front) = Sharer(q) /\ q = Delegated(front, Recipient(q))
    BY <1>3, <1>5, PassedOn
  <2>2. Sharer(q) \in Sharers(x, Recipient(p))
    BY <1>5 DEF RInv, Rooted
  <2>3. Sharer(q) = u
    BY <1>1, <2>2 DEF OneSharer
  <2>4. front \in Records(x)
    BY <1>5, FrontRecord
  <2> HIDE DEF front
  <2>5. front = own
    BY <1>2, <2>1, <2>3, <2>4 DEF RInv, OneRecord
  <2> QED BY <1>2, <2>1, <2>5
<1> QED BY <1>4, <1>5

\* Nor do two come at a time.
LEMMA NewRecordsAgree ==
    ASSUME KInv, RInv, FolderBase, OneSharer, NEW x \in Note, NEW u \in User, NEW v \in User,
           NEW p, FirstFor(u, x, p), NEW q, FirstFor(v, x, q), Recipient(q) = Recipient(p)
    PROVE  q = p
<1>1. /\ u \in Sharers(x, Recipient(p)) /\ v \in Sharers(x, Recipient(p))
      /\ Recipient(p) \in User
  BY NewRecordParts DEF RInv
<1>2. u = v
  BY <1>1 DEF OneSharer
<1>3. PICK own \in Records(x) : Recipient(own) = u /\ p = Delegated(own, Recipient(p))
  BY NewRecordParts DEF RInv
<1>4. PICK other \in Records(x) : Recipient(other) = v /\ q = Delegated(other, Recipient(q))
  BY NewRecordParts DEF RInv
<1>5. own = other
  BY <1>2, <1>3, <1>4 DEF RInv, OneRecord
<1> QED BY <1>3, <1>4, <1>5

LEMMA NextRooted ==
    ASSUME KInv, Calm, RInv, FolderBase, OneSharer, [Next]_vars, faults' = 0 PROVE RInv'
<1> SUFFICES ASSUME NEW x \in Note
             PROVE  /\ \A p \in Records(x)' :
                          /\ p[1] = Creator[x]
                          /\ Len(p) # 1 => Sharer(p) \in Sharers(x, Recipient(p))
                    /\ \A p, q \in Records(x)' : Recipient(p) = Recipient(q) => p = q
                    /\ Records(x)' # {} => x \in held'[Creator[x]]
  BY DEF RInv, Rooted, OneRecord, CreatedFirst
<1> DEFINE New(p) == \E u \in User : FirstFor(u, x, p)
           First(p) == FirstRecord(x, p)
<1>1. /\ \A p \in Records(x)' : p \in Records(x) \/ First(p) \/ New(p)
      /\ \A u \in User : held[u] \subseteq held'[u]
  BY RecordsStep
<1>2. Creator[x] \in User
  BY CreatorAssumption
<1>3. ASSUME NEW p, First(p) PROVE p[1] = Creator[x] /\ Len(p) = 1 /\ Records(x) = {}
  <2>1. p = <<Creator[x]>> /\ x \notin held[Creator[x]]
    BY <1>3 DEF FirstRecord
  <2> QED BY <2>1 DEF RInv, CreatedFirst
<1>4. ASSUME NEW p, New(p)
      PROVE  /\ p[1] = Creator[x] /\ Sharer(p) \in Sharers(x, Recipient(p))
             /\ Records(x) # {}
  BY <1>4, NewRecordParts DEF RInv
<1>5. ASSUME NEW p \in Records(x)'
      PROVE  /\ p[1] = Creator[x]
             /\ Len(p) # 1 => Sharer(p) \in Sharers(x, Recipient(p))
  BY <1>1, <1>3, <1>4 DEF RInv, Rooted
<1>6. ASSUME NEW p \in Records(x)', NEW q \in Records(x)', Recipient(p) = Recipient(q)
      PROVE  p = q
  <2>1. CASE p \in Records(x) /\ q \in Records(x)
    BY <1>6, <2>1 DEF RInv, OneRecord
  <2>2. CASE New(p) /\ q \in Records(x)
    BY <1>6, <2>2, NewRecordIsFirst
  <2>3. CASE New(q) /\ p \in Records(x)
    BY <1>6, <2>3, NewRecordIsFirst
  <2>4. CASE New(p) /\ New(q)
    BY <1>6, <2>4, NewRecordsAgree
  <2>5. CASE First(p) /\ First(q)
    BY <2>5 DEF FirstRecord
  <2>6. CASE First(p) /\ ~First(q)
    BY <1>1, <1>3, <1>4, <2>6
  <2>7. CASE First(q) /\ ~First(p)
    BY <1>1, <1>3, <1>4, <2>7
  <2> HIDE DEF New, First
  <2> QED BY <1>1, <2>1, <2>2, <2>3, <2>4, <2>5, <2>6, <2>7
<1>7. ASSUME Records(x)' # {} PROVE x \in held'[Creator[x]]
  <2>1. PICK p : p \in Records(x)'
    BY <1>7
  <2>2. CASE First(p)
    BY <2>2 DEF FirstRecord
  <2>3. CASE ~First(p)
    BY <1>1, <1>2, <1>4, <2>1, <2>3 DEF RInv, CreatedFirst
  <2> QED BY <2>2, <2>3
<1> QED BY <1>5, <1>6, <1>7

\* What an end presents is the record by which the other knows it.
LEMMA TokensProven ==
    ASSUME KInv, RInv, NEW x \in Note, NEW u \in User, NEW v \in User, NEW tokens,
           tokens \subseteq For(shares[u][x], u), For(shares[v][x], u) # {}
    PROVE  Authorised(v, u, x, tokens)
<1> SUFFICES ASSUME NEW p \in tokens
             PROVE  IssuedFor(p, u, Creator[x]) /\ Proven(shares[v][x], p)
  BY DEF Authorised
<1>1. p \in shares[u][x] /\ Recipient(p) = u /\ p \in Records(x)
  BY DEF For, Records, AllOf
<1>2. PICK q \in shares[v][x] : Recipient(q) = u /\ q \in Records(x)
  BY DEF For, Records, AllOf
<1>3. p = q
  BY <1>1, <1>2 DEF RInv, OneRecord
<1>4. shares[v][x] \subseteq Chain /\ HangsOn(shares[v][x], shares[v][x])
  BY DEF KInv, IInv, TypeOK, Hanging
<1>5. \A k \in 1 .. Len(p) : SubSeq(p, 1, k) \in shares[v][x]
  BY <1>2, <1>3, <1>4, ClosedHangs DEF Closed
<1>6. \A k \in 2 .. Len(p) - 1 : k \in 1 .. Len(p)
  <2>1. Len(p) \in Nat
    BY <1>2, <1>3, <1>4, ChainLength
  <2> QED BY <2>1
<1>7. Proven(shares[v][x], p)
  BY <1>5, <1>6 DEF Proven
<1> QED BY <1>1, <1>7 DEF IssuedFor, RInv, Rooted

\* No merge fails for want of authority, if no note is shared with anybody by
\* two users, as long as no device stops amid a handler of a merge and none
\* begins to write beside it: there is then one record of the note for each user,
\* the records that prove it are wherever it is, and a merge is between users
\* that each have the other's (validate_authority_for_update).  With two records
\* for one user each end may have another.
THEOREM MergesAuthorised ==
    ASSUME OneSharer PROVE Spec => [](faults = 0 => AlwaysAuthorised)
<1> DEFINE Roots == FolderBase /\ (faults = 0 => RInv)
<1>1. ASSUME KInv, RInv PROVE AlwaysAuthorised
  <2> SUFFICES ASSUME NEW s \in Session
               PROVE  LET m == session[s].merge
                      IN  /\ At(s, "request") => Authorised(s[2], s[1], m.note, m.shares)
                          /\ At(s, "updates") => Authorised(s[1], s[2], m.note, m.shares)
    BY DEF AlwaysAuthorised
  <2> DEFINE m == session[s].merge
  <2>1. s[1] \in User /\ s[2] \in User /\ HungBy(s, session[s], shares) /\ MergeNoted
    BY <1>1, SessionUsers, InvTyped DEF KInv, Messages
  <2>2. session[s].phase \in {"request", "updates"} => m.note \in Note
    BY <2>1, RunningPhases DEF MergeNoted
  <2>3. ASSUME session[s].phase = "request" PROVE Authorised(s[2], s[1], m.note, m.shares)
    <3>1. /\ m.note \in Note /\ m.shares \subseteq For(shares[s[1]][m.note], s[1])
          /\ For(shares[s[2]][m.note], s[1]) # {}
      BY <2>1, <2>2, <2>3 DEF HungBy, EachForOther
    <3> HIDE DEF m
    <3> QED BY <1>1, <2>1, <3>1, TokensProven
  <2>4. ASSUME session[s].phase = "updates" PROVE Authorised(s[1], s[2], m.note, m.shares)
    <3>1. /\ m.note \in Note /\ m.shares \subseteq For(shares[s[2]][m.note], s[2])
          /\ For(shares[s[1]][m.note], s[2]) # {}
      BY <2>1, <2>2, <2>4 DEF HungBy, EachForOther
    <3> HIDE DEF m
    <3> QED BY <1>1, <2>1, <3>1, TokensProven
  <2> QED BY <2>3, <2>4 DEF At
<1>2. Init => Roots
  <2>1. Init => RInv
    BY DEF Init, RInv, Rooted, OneRecord, CreatedFirst, Records, AllOf, NothingAsked
  <2> QED BY <2>1, FolderBaseInit
<1>3. ASSUME CInv, Roots, [Next]_vars PROVE Roots'
  <2>1. FolderBase'
    BY <1>3, FolderBaseNext DEF CInv, KInv, IInv
  <2>2. ASSUME faults' = 0 PROVE RInv'
    <3>1. TypeOK
      BY <1>3 DEF CInv, KInv, IInv
    <3>2. faults = 0
      BY <1>3, <2>2, <3>1, NextSteps
    <3> QED BY <1>3, <2>2, <3>2, NextRooted DEF CInv
  <2> QED BY <2>1, <2>2
<1>4. CInv /\ Roots /\ [Next]_vars => Roots'
  BY <1>3
<1>5. CInv /\ Roots => (faults = 0 => AlwaysAuthorised)
  BY <1>1 DEF CInv
<1> HIDE DEF Roots
<1> QED BY <1>2, <1>4, <1>5, CalmInvariant, PTL DEF Spec

=============================================================================
