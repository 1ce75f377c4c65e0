# osvauld in TLA+

osvauld is a local-first framework: every device keeps its resources (notes,
chats) in a SQLite database, and devices synchronise over direct QUIC
connections. These modules model how devices connect and sync, how copies of a
resource are saved, handed over, merged and edited together, and how access to
them is shared, and check or prove what that promises. Paths below are relative
to `src/`.

## The system

| part | code | state | operations |
|---|---|---|---|
| vector clocks | `core/src/models/vector_clock.rs`, `persistance/.../vector_clock_repository.rs` | one row (device, value) per device and resource | `merge`, `update_vector_clocks`, `increment_vector_clock`, `save_vector_clock`, `vector_clocks_need_update` |
| resources | `services/src/resource_service.rs`, `persistance/.../resource_repository.rs` | the persisted Yjs document | `update_resource`, `generate_updates_for_peer`, `apply_updates...`, `share_resource` |
| resource sync | `network/src/p2p/resource_sync.rs` | messages of one connection | hand-over (`ResourceAdditionRequest`/`Complete`), merge (`StateVectorRequest`, `UpdatesResponse`, `FinalUpdateMerge`, `VectorClockResponse`) |
| user sync | `network/src/p2p/user_sync.rs`, `services/src/sync_service.rs` | `user_manifest_result` of a connection | manifest request, response, ack, network sync both ways |
| device sync, folder sync | `device_sync.rs`, `folder_sync.rs`, `folder_service.rs` | device manifest, folders, recipients | the same exchange for devices of one user; unknown folders, recipients |
| handshake | `handshake.rs` | `handshake_complete`, peer user and device, tokens | first connection, exchange |
| connections | `connection_manager.rs`, `p2p_service.rs` | `connections`, `connecting`, `pending_live_edit_requests` | dial, accept, insert, remove, reconnect |
| dispatch | `peer_connection.rs`, `incoming_handler.rs` | one handler task per connection, one event queue | `handle_messages`, `process_message`, broadcast |
| sharing | `resource_service.rs`, share and key repositories | share records, keys, UCAN tokens | share, auto-share, merge of records |
| note buffers | `livnote/src-tauri/src/current_note_state.rs`, `listners/` | current note, its two Yjs documents, active connections | note change, live edits, update events |
| front end | `livnote/frontend/desktop/state/data.svelte.ts` | the open note's editor | load, save, switch, updates |
| chats | `libremot/src-tauri/src/chat_state.rs`, `listners/` | a buffer per chat, the stored chat | open, message, arrival, reconciliation |
| UCAN | `crypto_utils/src/ucan_utils.rs` | | issue, delegate, validate proof chains |
| others | `search_indexer`, `kunki`, `typescript-port` | | search, command line, a TypeScript port |

How they interact: a device dials its peers at start-up and when it shares;
the connection's handler task takes one message at a time and calls services,
which read and write the database; each repository call is its own transaction
or a bare statement. Results for an open note go to the front end as events.
The front end saves by sending the whole document. Several connections, the
front end's commands and the event queue run concurrently over one database.

What is hard here:

- a save is two transactions (document, clock row), and merges read between them;
- a merge is read, compute, write without a transaction around it;
- messages carry clock rows read earlier, and the receiver stores them as they are;
- the decision to merge looks at clocks only, so clocks must never claim more
  than the document next to them holds;
- a connection can be lost, and a process can end, between any two steps;
- the tail of the user sync runs more than once per connection, so merges of
  one resource interleave on it;
- the open editor is a second copy that overwrites the database with each save;
- nothing but a failing send tells a device that a connection is gone;
- both devices dial, and each replaces the other's entry with its own;
- the open note is one set of buffers that tasks clone, change and write back;
- a key, a record and a clock row belong together and travel by seven ways.

What makes the components correct: a row never runs ahead of its device's
saves; a clock is covered by its document; equal clocks mean equal documents;
no step takes an edit away; and copies converge. For connections: an entry that is open has been shaken hands
on, can be answered, and a dead one is replaced. For the user sync: every
missing resource arrives and the merges start after it. For sharing: who has a
note can open it and prove its right to it, and everyone it is shared with gets
it. For the buffers: an update is applied to the note it belongs to, and
devices in the same note get to have the same. `PROJECT.json` lists the hazards
with their lines.

## Modules

| module | what it is |
|---|---|
| `VectorClock` | clock tables and the operators on them: merge, comparison, table writes |
| `VectorClockMerge`, `MCVectorClockMerge` | two tables that meet once |
| `VectorClockProofs` | the merge and the comparison for all tables |
| `Replica` | abstract specification: copies that only grow, clocks that only claim what the copy holds |
| `ResourceSync` | one resource on several devices: editor, save, hand-over, merge, faults |
| `MCResourceSync` | its instances |
| `ResourceSyncProofs` | invariants of `ResourceSync` for all constants |
| `ReplicaProofs` | its copies and clocks for all constants: `ClockSound`, the refinement of `Replica`, agreement |
| `UserSync` | the user sync of one connection: manifests, folders, resources, start of the merges |
| `MCUserSync` | its instances |
| `UserSyncProofs` | types, the manifest result, folders before resources and delivery for all constants |
| `Connections`, `MCConnections` | the tables of connections, dialling, accepting, the handshake, reconnecting |
| `ConnectionsProofs` | the marks, the known users, mutual and answerable entries for all constants |
| `LiveEdit`, `MCLiveEdit` | the open note on several devices: buffers, note changes, live edits |
| `LiveEditProofs` | types, and buffers and editor that keep to their note, for all constants |
| `Chat`, `MCChat` | libremot's variant: a buffer per chat, saved on arrival |
| `ChatProofs` | types, and buffers that keep to their chat, for all constants |
| `Sharing`, `MCSharing` | who gets which note and folder: keys, records, proofs, clock rows, and the syncs that carry them |
| `SharingProofs` | types, keys with records and rows, readability, and the chains of proofs of notes, merges and the folder, for all constants |

`Connections` ends where a handshake starts the user sync, `UserSync` is that sync,
`ResourceSync` is what one of its merges does to copies and clocks, and `Sharing` what a
sync does to keys and records; `LiveEdit` runs on connections that exist. They meet in
the same handlers, each with the state the others leave out, because their
product is out of reach for TLC; a handler that several of them model has the
same guards and order in each.

### VectorClock

`resource_vector_clocks` of one resource is a function from devices to a value
or `Absent`; `UNIQUE (resource_id, device_id)` makes it a function. `merge`
returns four lists, modelled by `UpdateLocal`, `AddLocal`, `UpdateRemote`,
`AddRemote`. `WriteRows` is `update_vector_clocks`: an UPDATE stores the value
whatever the old one was and touches existing rows only; the INSERT of an
existing row aborts the transaction (`CanAdd`).

### ResourceSync

A Yjs document is the set of edits it contains: the state vector is that set,
a diff the difference, applying an update the union. The n-th save of device d
adds the edit `<<d, n>>`. This is what the Yjs types guarantee and all that
the protocol relies on.

State: `has`, `doc`, `clk` are the database of each device; `view`, `editor`,
`inbox` the front end; `save` the save under way; `session` where each merge
stands and what it carries; `issued` counts the saves written (history).

A session `<<i, r, k>>` is one manifest exchange and what follows from it for
this resource, on the connection that i opened to r. Sessions with the same i
and r share that connection: `Free` lets each end run one handler at a time,
as `handle_messages` does. `<<i, r, 1>>` and `<<r, i, 1>>` are two connections
(both sides dialled). A handler is split where the code releases everything and
touches shared state again; for example UpdatesResponse is

    ReadForMerge   get_resource, sync_updates in memory
    WriteMerged    resource_repo.update_resource
    SendFinal      get_vector_clocks_for_resource, send, emit UpdatesEvent

Messages of different sessions are not ordered among each other, which is more
than the connection does. A crash of one device waits for the other's handler
that is running: the handler finishes its database step first.

`Faults` names what may happen in an instance. `overlap`: saves, loads and
other connections' merges run while a merge runs. Without it a device does one
of these at a time; the messages and handlers of one connection still
interleave. `drop`: a connection is lost with its message. `error`: a handler
returns an error between two steps. `crash`: a process ends and its database
stays. The split matters: most guarantees about *copies* hold only without
overlap (see Findings), the guarantees about *clock rows* hold with everything.

`CompareManifests` asks for a merge when clock rows differ; the code asks also when only share records
do (`sync_service.rs:279`), a merge that changes no clock or copy. That case is `Differing` in `Sharing`.

### Replica

The databases without protocol: a device saves, learns edits that some copy has,
raises its clock up to what its copy covers, or receives a copy with its clock.
`ImplementsReplica` substitutes `doc`, `clk`, `issued` for the same names: each
database write of `ResourceSync` is one of these steps, everything else a stutter.

### UserSync

One connection after its handshake, with the initiator `i` and the responder `r`.
Here the unit is the message and not the edit: a resource is held or not, and
`differ` is the set of those whose clock rows differ (what a merge does to them
is `ResourceSync`).

State: `held`, `folders`, `misplaced`, `differ` are the two databases; `result` is
`user_manifest_result` of each PeerConnection, an Option that every manifest
exchange replaces; `chan` the streams on their way; `out` what the running
handler still has to send. `handle_messages` accepts streams in the order they
were opened and takes the next one when the handler has returned, so `chan` is first in
first out and `Takes` asks for an empty `out`. Between two sends of a handler the
tasks that ask for a sync may send: `connect_with_ticket` on the existing connection
makes a manifest and sends it (`MakeManifest`, `SendManifest`) or, at the responder, sends
RetryRequest. The phases, with the handler at each arrow:

    request, response, ack                    TakeRequest, TakeResponse, TakeAck
    network, network + networkAck, networkAck TakeNetwork
    folders from both, answered by r          TakeNetworkAck, TakeFolders
    recipients from i for each, answered by r TakeRecipients
    add ... or complete, from both            TakeRecipients, TakeAdd
    svRequest, updates, final, clocks         TakeComplete, MergeStep, TakeClocks

`HandlerFails` returns an error before the handler has changed anything or
between two sends; `Reconnect` replaces the connection at both ends at once, with the
same end dialling. All resources and folders are shared between the two;
users, devices, recipients and share records are left out. `MaxEvents` bounds
creations, folder shares and faults together.

### Connections

`table` and `connecting` are the maps of a device's ConnectionManager; every lock of them is
one action, so `is_connection_active`, `get_peer_connection` and the two halves of
`mark_as_connecting` are actions of their own. `holder` is the mutex of the service state, which
`perform_handshake_and_create_peer` holds from before the insertion to the end of
`initiate_handshake`. `call` is where each `connect_with_ticket` stands; there is one per device, peer
and reason, as tasks for the same reason do the same. `link` is the network:
the ends of a connection, whether it is open, how far the listener's task and
the handshake are. Names of connections are used again when nobody refers to
them. `contact` is the users row of the peer; `checks` and `consumer` are the
event loop of `incoming_handler.rs`, which takes DocumentCheck to `send_or_reconnect`:

    SendCheck                 the entry is healthy
    FindClosed, Purge, ...    it is closed: removed by id, then dialled
    Reconnect, Reconnected    there is none

`LooksUp` asks for `holder` to be free. `connect_with_ticket` takes the service state only for the moment in which
it reads the endpoint (`p2p_service.rs:601`) and looks at the tables after that, so a
look in the middle of a handshake of the same device is not in the model (see Not modelled).

### LiveEdit

A document is the set of its edits, as in `ResourceSync`. The buffers of the open
note are `note` and a handle `current` into `docs`: a yrs document is a handle, so a task that has
cloned it (`CloneDoc`, `CloneForPeer`) writes into the document it saw, and puts the handle back
(`WritesBack`; a handle is the number of the change that made it) even when another note has been set. A note change is a task of five
steps (`Leave`, `Clear`, `Open`, `SetNote`, `RequestLiveEdit`); the peers' events are taken one at a time. The
dialogue of two devices:

    check                     TakeConnected, Look
    mismatch | vectors        Look | AnswerCheck
    exchange                  AnswerVectors
    response                  ProcessUpdate       now the peer is active
    (none)                    ProcessResponse     so is the other

`Reconcile` is the timer: the vectors without a check, to active peers only. `Merged` is a merge of
the open note as the buffers see it: its write to the database, the event and the handling of the event are one step;
a merge of another note announced as the open one's is the fault `foreign`.

### Sharing

A key, a record and its UCAN are all named by the chain of users along which
the note came: `<<o>>` for the owner, `<<o, u, w>>` where o shared with u and u with w. Two chains to
the same user are two keys, which UNIQUE(resource_id, user_id) keeps apart
(`CanInsert`), and the proof of a UCAN is the chain without its last (`Proven`). A table takes a row
only when the users in it are known (`Named`). A session is one sync from the handshake to
the last merge, with everything about keys and records in it; its phases are those of
`UserSync`, here one message each. What a merge stores is one action per transaction:

    final            MergeKeys                     find_by_id, add_resource_keys
    finalClocks      CompareClocks                 merge_vector_clocks reads the rows
    finalInsert      InsertClocks                  update_vector_clocks, plain INSERT
    finalShares      MergeShares                   save_many, VectorClockResponse is sent
    response         AcceptClocks                  update_vector_clocks
    responseShares   AcceptShares                  save_many
    responseKeys     AcceptKeys                    add_resource_keys

`Refused` is the error of a handler whose note does not open, whose token is not proven or
whose rows do not fit; what its earlier transactions stored stays. `Amid(u)` are the sessions
with a handler of u's between two of these actions. `Stops` ends a program at any moment,
and `Alongside` counts whatever begins at a device amid such a handler (another
session's message, a share, a connection): both are faults, at most `MaxFaults` of them. A session that has
begun its own such handler goes on for free.

Sharing is preparing and storing: `PrepareFolder` and `AutoShare` read, `SaveShares` is the transaction,
and a user has one such share prepared at a time. `ShareNote`, one recipient and one transaction, is
one step, and so are the reads of `AnswerUpdates` and the whole of `TakeRecipients` (one transaction, then the
answer and the copies).

### Chat

libremot keeps a buffer for every chat it has seen, so what arrives is applied
whichever chat is open, and saved at once (`SaveBuffer`). The front end saves what it
shows (`SaveScreen`). `Stored` tells the two forms apart, because `loadChat` reads only one.

## Runs

| run | instance | shows |
|---|---|---|
| `clock_merge` | three devices, values absent..2, all 4096 pairs of tables | both sides end with the row-wise higher table (`MergeIsHigher`), the UNIQUE key is never hit (`MergeNeverAborts`), and a merge is asked for exactly when it changes something (`CompareIsExact`) |
| `sync_overlap` | two devices, one connection, hand-over and merges, overlap, one error or crash | `TypeOK`; no row beyond the saves of its device (`KnownSavesHappened`), not even one written and not yet counted (`UncountedUnknown`); a holder has a row of its own (`OwnRowPresent`) that never falls while there is one merge (`OwnRowKept`) |
| `sync_repeated` | two devices, two merges interleaved on one connection, one lost connection or crash, fair | clocks claim only what the copy holds (`ClockSound`); `ImplementsReplica`; copies and open editors become equal (`Converges`) |
| `sync_ring` | three devices in a ring of connections, two authors, one lost connection | equal manifests mean equal copies (`AgreedMeansSame`); `ImplementsReplica` |
| `user_sync` | two resources in two folders, a creation, a folder share, an error or a new connection at any moment, fair | `TypeOK`; no handler misses its result (`ResultThere`); in the first sync no resource arrives before its folder (`FolderFirst`); both get everything (`Delivered`); the messages end (`Quiesces`) |
| `connections` | two devices that dial each other, one edits and one asks for syncs, one lost connection or refused dial, fair | `TypeOK`; no mark is left behind (`MarksHaveDials`); who takes a peer for synced is known to it (`SyncedIsKnown`); at rest, an open entry has been shaken hands on (`Mutual`) and its messages can be answered (`Answerable`); the editing device gets its connection back (`EditorsReconnect`) |
| `live_edit` | two devices, two notes, three openings or closings, one edit, fair | `TypeOK`; the buffers hold edits of their note only (`BufferOfNote`), and so does the editor (`EditorOfNote`); devices that stay with one note find each other (`Meet`) and get the same buffers (`BuffersAgree`) |
| `sharing` | four users in a line, a folder shared with two of them, a note in it that goes on to the fourth, one stop or one step beside a half-done handler, fair | `TypeOK`; a merge that nothing disturbs keeps keys, records and rows together (`Together`); a holder can answer for its note, and open it (`HoldersRead`); the proofs of a note's and of the folder's records are never left behind (`ProofsKept`, `FolderProofsKept`), and no token is refused (`AlwaysAuthorised`); everyone gets the note and the same records, also after the fault (`Spread`) |
| `chat` | two devices, two chats, an earlier message and a new one, three switches, fair | `TypeOK`; a buffer holds messages of its chat (`BufferOfChat`); devices that stay in a chat get the same buffer (`ChatsAgree`) |
| `save_during_merge`, `merges_not_started`, `chat_lost` | the smallest instances | see Findings |

Bounds. `MaxSaves = 2` counts the creation, so every author saves at least once
after a copy exists elsewhere, and b twice: rows differ, rise and meet in both
directions. Two devices show every interleaving of one connection; the third
device of the ring makes rows travel through a device that is initiator to one
side and responder to the other, and lets a share add a row that a message
also adds. One fault is enough to cut a merge at any step, and sessions run
again without limit, so what it leaves behind is picked up. Saves are the only
counter; everything else is finite.

Two resources and two folders let each end hold one, both or neither, so every
branch of `send_resources` and of the folder phase meets every other. `MaxEvents = 1`
puts a second sync on top of the first at every step, or cuts one handler
there, after which a new connection starts the sync again. Manifests that overtake
each other are not in the run; the theorems of `UserSyncProofs` but `AllDelivered` hold with them.

`MaxLinks = 3` is a connection in each direction and one that replaces the lost one; a
dial waits for a free name, and no call needs a fourth. Either both know each
other or one adds the other's ticket (`MaxAdds`): both kinds of handshake occur,
also crossing. Two devices suffice, as the entries of different peers meet only
in `holder`; the theorems of `ConnectionsProofs` hold for any devices, connections and additions.

Three openings or closings are both devices in the note and one that leaves, or
two switches that interleave with the other's opening. One edit can be in the
buffer, on its way, in no peer, or in the wrong note; edits are a set, so a
second one behaves like the first.

The four users of `sharing` are c - a - b - d. a shares the folder with b and with c, so that b and c learn of
each other as missing recipients of a folder they have (`MissingRecipients`, `add_missing_recipients`); the note
in it comes to b with the folder or by auto-share, c is given it by a as well, as a note of its own, and b shares it on with
d, whose record, key and clock row have to get to c by two merges. `MaxOpen = 1` runs one sync
at a time, while users create and share; `MaxFaults = 1` lets one device stop, or one of these acts begin beside a
half-done merge, at every moment. The same instance with `MaxOpen = 2` has 5.8 million states and keeps all
the invariants; it takes too long for the liveness property.
The theorems of `SharingProofs` hold with any number of sessions and of faults.

Deadlock is checked in the `sync` runs and in `sharing` (a session can always start again).
`clock_merge` stops after its merge, a connection of `UserSync` rests when its syncs are over,
and the others when their users do nothing more.

Fairness (`sync_repeated`): a handler that has begun goes on and a message that is
not lost is handled (one task per connection, `handle_messages`), an event
reaches the editor, a save finishes. Strong fairness of `StartSync` is an
assumption about use, not scheduling: the two devices connect again and again,
because one of them starts again (`request_connections`), is shared something
(`sync_resource`), or sends RetryRequest. `StartSync` waits while an end is
busy, hence strong. Editing is not fair: nobody has to type. `Converges`
excludes a user who opens the note for ever, and a save that a crash has left
uncounted. `Connect` of `sharing` and `Ask` of `connections` are strong for the same reason;
in `sharing` each session's messages are handled and each user's prepared shares are stored, weakly.

Fairness (`user_sync`): the handler task of each end runs while it has a
message or something to send, and so do the spawned tasks that ask for a sync. Creating
and sharing are not fair. `live_edit` and `chat` have one weak fairness of all that is not
the user's: every task, consumer and timer goes on, and all but the timers come
to an end by themselves.

## Findings

Each of the first three is a run that TLC ends with a counterexample.

- `save_during_merge`: the responder answers StateVectorRequest from one copy and
  merges the clock rows it has two messages later. A save in between is counted by
  the row that goes back, and its edit is not sent. The manifests agree, so no
  merge repairs it until that device saves again.
- `merges_not_started`: the initiator starts the merges when it hears
  ResourceAdditionComplete, which the responder sends if it has nothing to hand over or
  has received the last resource it lacked. When it hands over and lacks
  nothing it never sends it, so a single new note at the responder keeps all
  merges of that sync from starting.
- `chat_lost`: `load_chat_resource` fills the new buffer from a state named `main_doc`, which a
  chat lacks; a message that arrives then is saved with this buffer, over the
  chat's earlier messages and in a form that the front end does not read.

Others come from instances that the passing runs leave out. Each is one
constant or property away from a run:

| change | fails | because |
|---|---|---|
| `save_during_merge` with `Faults = {"crash"}`, `MaxFaults = 1` | `AgreedMeansSame` | a process that ends between the write of a document and the increment of its row leaves an edit that no manifest shows (`resource_service.rs:198`) |
| `save_during_merge` with `Session <- BothDialed`, `Holder = {a, b}` | `RowsKept` | a VectorClockResponse that is handled after a newer merge lowers a row (`vector_clock_repository.rs:267`) |
| `sync_overlap` with `Session <- TwiceOnOne`, `Holder = {a, b}`, `MaxSaves = 4` and no other fault | `OwnRowKept` | a VectorClockResponse computed by one merge comes after the device has saved, and counted on what the other merge gave it, and lowers the device's own row; its next save is numbered as one its peers know already (`vector_clock_repository.rs:267`) |
| `user_sync` with `OneFolder`, `Together`, `Faults = {}` | `Restored` | the result is replaced between the folder phase and the resource phase; the resource comes first and stays in the default folder, where "created_folder_id stays unchanged for future restoration" (`sync_service.rs:430`) restores nothing |
| `user_sync` with `"overlap"` in `Faults` | `Delivered` | the manifest is read and sent in two awaits; when the older is sent last, what was created in between waits for another sync |
| `connections` with `Asks <- Syncers` | `SyncersReconnect` | `is_connection_active` does not look at the connection; only the send of a live edit removes a dead entry, and `close_connection` is called nowhere |
| `connections` with `MaxFaults = 2` | `Answerable` | the purge removes by the peer's id and takes a newer, open connection; the dial that is to replace it fails |
| `live_edit` with `"overlap"` in `Faults` | `BufferOfNote`, `EditorOfNote` | `apply_update` writes the old note's document back after another note was set (`current_note_state.rs:106`) |
| `live_edit` with `"foreign"` in `Faults` | `EditorOfNote`; with `MaxSwitches = 4` also `BufferOfNote` | a merge of one note is emitted under the id of the open one (`updates.rs:109`), and the editor's next save keeps it there |
| `sharing`, `Together` without `faults = 0` | `Together` | a program that ends, or a step of another session, between the transactions of `FinalUpdateMerge` or `VectorClockResponse` leaves keys without records, or records without keys (`resource_sync.rs:469`, `:475`, `:484`, `:523`, `:531`, `:539`); a row that another merge inserted in between makes the plain INSERT abort (`vector_clock_repository.rs:287`) |
| `sharing` among three with `NoteShares <- Relayed`, `HoldersRead` without `faults = 0` | `HoldersRead` | a merges with b, which has shared the note with c, and ends between `resource_sync.rs:531` and `:539`: it has c's record but not c's key. Manifests compare records and rows, so no merge brings the key; c, when a hands it the note, cannot open it |
| `sharing` among three with `NoteShares <- Twice` | `Spread` | two users make two keys for a third; UNIQUE refuses the other's, and with it every merge of the note |
| `sharing` with a sharing to b and d, and both to c, all connected but b and d | `AlwaysAuthorised` | c's token goes by b, and d has no record of b's: the proof is looked up among d's own (`resource_service.rs:748`), and the merge is refused |
| `sharing` with the folder from o to a and b, from both to w, and from w to v | `FolderProofsKept` | missing recipients are compared by user (`folder_service.rs:299`): b knows w by a record of its own, so v's record comes without w's other one that proves it, and whoever gets the folder from b cannot pass it on |
| `sharing` among three with `FolderShares <- PassedOn`, `Foldered <- Notes` | `FolderReachesAll` | a note created by one who does not know the folder's new recipient yet is shared with nobody later (`resource_service.rs:758`) |

"Among three" is `User <- Three`, `Session <- Triangle`, `Met <- Acquainted`, with `Foldered`, `NoteShares` and
`FolderShares` empty where they are not named.

`FolderFirst` speaks only of the time before anything is created, because of the
`Restored` row.

Two further gaps need an error or overlap and lie outside the runs: a
send that fails between the write of a merged document and its event leaves the
open editor stale, and its next save overwrites the merged edits until the
next merge; and an update event that arrives while a note is loading is dropped
by the editor in the same way. Comments are in the buffers but in no exchange, so
a comment made while a peer is away reaches it by a merge only.

## Proofs

All of it for any set of devices, sessions, holders, authors, bounds and
faults, from the assumptions named in the modules (`SessionAssumption`,
`HolderAssumption`, `BoundAssumption`, ...).

- `MergeCorrect`, `MergeIsWritten` and `CompareIsRight` (`VectorClockProofs`): the three
  properties of `clock_merge`. The invariant is typing of the two tables with `MergeIsHigher`;
  the rest are lemmas about the operators (`MergeHigher`, `MergeAdds`, `CompareTables`).
- `TypeCorrect` (`ResourceSyncProofs`): `TypeOK`. It needs `SaveOrdered` (a save that is
  under way has room below `MaxSaves`), so the inductive invariant is `Typed`.
- `UncountedStaysUnknown`: `UncountedUnknown` is inductive with `Typed`. It speaks of tables and of
  the rows in messages and handlers, because AcceptClocks and MergeClocks
  store what they carry. The clock operators make up no value but 0, absent
  and the increment (`MergeBounded`, `WriteBounded`); the increment is covered
  because `Counted` rises with it.
- `KnownSavesHappen`: follows, as `Counted(e)` is at most `issued[e]`.
- `HoldersHaveRows`: `OwnRowPresent`, from an invariant that also says which sessions
  carry a table with a row for the device they hand the resource to.
- `ClocksAreSound`, `DatabasesImplementReplica`, `AgreementIsEnough`, `ClockRowsRise` and
  `OwnRowRises` (`ReplicaProofs`), under `Sequential`: neither `overlap` nor `error` is
  among the faults; connections are lost, processes crash, and any number of merges
  interleave on a connection. The hypothesis is needed: the Findings have what breaks each of
  them otherwise. `ClockSound` speaks of the tables, while what is written comes from
  messages, so `IInv` says of every phase of a session what its message may claim:
  a copy that is handed over covers its rows (`CopyState`); a copy together with the updates
  for it covers the other end's rows, and the rows of VectorClockResponse are covered by
  what the initiator has by then and are not below its own (`MergeState`). That rests on `SessionsIsolated` (busy sessions that share a device share the
  connection), `OneHandler` (each end runs one handler at a time) and, for the save, on
  the editor, which holds all of the copy but what an event is to bring (`Editor`).
  The refinement is one lemma per action that writes; all
  others stutter. `AgreementIsEnough` also needs that no process crashes: then every save that is
  written gets counted, and a settled device's copy is what its rows say.
- `TypeCorrect` and `ResultAlwaysThere` (`UserSyncProofs`). `ResultThere` alone is not
  inductive: it must also say which messages lead to those that need a result.
  `IInv` types both queues with `Sound`, the messages that may be on their way as the
  results are now: those after the acknowledgment need both results, a
  response needs the responder's and carries a stored one. A result that
  is there stays, so `Sound` only grows (`SoundGrows`), except when a new
  connection empties the queues.
- `FoldersFirst` (`UserSyncProofs`): `FolderFirst`, with manifests that overtake each other as well.
  The databases alone do not show that a folder is there when its resource comes, so
  `FInv` also speaks of `Way(e)`, what an end is about to get in the order in which it
  comes: the queue of the connection and then what the peer's handler has yet to send.
  `FolderContents` says what a message claims (the folders it lists are all of its
  sender's but some that the receiver has, and its resources are in folders of the sender);
  `FolderOrder` says that until an end has all folders of the other, whatever starts its
  resource phase has the folders ahead of it (`Led`), for both runs of the tail of a sync.
- `AllDelivered` (`UserSyncProofs`): `Delivered`, for any number of creations and of lost
  connections, when `overlap` is not among the faults; with it the theorem is false (Findings).
  `DInv` says for every resource that one end lacks what is going to bring it
  (`Brought`): a sync that is still to be asked for, a manifest that shows it, a response
  that misses it, or a result that has stored it and a message from which the resource phase
  follows. A result may be replaced at any time by one from an older manifest, so
  `Ordered` says that of what is on its way none is older than what has arrived
  (`InOrder`): once the initiator has told of a resource that the responder lacks it does not
  stop telling of it.
- `TypeCorrect`, `MarksNeverLeft` and `SyncedAlwaysKnown` (`ConnectionsProofs`), for any
  devices and any number of connections. `MarksHaveDials` needs `OneCheck`: the
  event loop waits for the one call it makes, so the call that unmarks a peer
  is the one that marked it. `SyncedIsKnown` is about the end of a handshake, so
  its invariant follows it from the start: a call or a check is only ever for a
  known user or the one of a ticket (`AllKnown`), a call's connection is between
  its two ends (`LinksLead`), and the one that sends or answers the first message
  knows the other (`FirstKnown`).
- `EntriesMutual` (`ConnectionsProofs`): `Mutual`, without any hypothesis. It adds `Greets` to the
  invariant of `SyncedIsKnown` (an open connection on which nothing was said has a call that is
  about to greet, and none is mute) and `ExchangeKnown` (an exchange goes to one who knows its
  sender), the only other way in which an open connection could become mute.
- `EntriesAnswerable` (`ConnectionsProofs`): `Answerable`, if dials do not fail, or connections are not
  lost, or there is at most one fault. With a loss and a failed dial it is false (Findings): a purge takes
  a newer entry and the dial that is to replace it fails. `Expected` says that both ends of an
  open connection have an entry or one is coming (`Coming`): by a call that has not passed its
  insertion, a purge, which is followed by a dial, or a listener. A call that gives up for
  another one leaves a mark, and the mark has its call (`MarksDial`). A dial that
  fails breaks `Coming`, so for faults of both kinds `Unbroken` and `Listed` say what holds until the
  first loss: no entry is closed, so nothing is purged, and entries are never removed.
- `TypeCorrect` (`LiveEditProofs`), with every fault. `TInv` says of each task and event what it
  has taken from the tables, above all that a handle is one of a document that was made.
- `BuffersKeepToNote` and `EditorsKeepToNote` (`LiveEditProofs`): `BufferOfNote` and `EditorOfNote`,
  for `Faults = {}`; each of the faults breaks both. They are proved together
  (`NInv`), since buffers are filled from editors and editors from buffers. What is stored and
  loaded is of its note, a message's edits are of the note it names (`Sound`), and whatever waits to be
  applied was checked against the note that is still set (`Here`).
- `TypeCorrect` and `BuffersNeverMix` (`ChatProofs`), with overlap as well. A
  message's edits are of the chat it names (`Sound`), and the tasks carry their chat with them
  (`Tasks`), which is why no switch can come between: libremot keeps a buffer per chat.
  `EarlierAssumption` says that the earlier messages are finitely many: `TypeOK` bounds the numbers of
  new ones, which are counted from them.
- `TypeCorrect` (`SharingProofs`), for any users, notes, shares, sessions and faults, records
  being chains of any length. `IInv` adds what makes the messages sensible: a copy
  has a record for the one it is sent to, what a manifest lacks is shared with the peer, a merge is of a note that both
  ends have records of (`Carried`), records and rows are only of notes that one has
  (`StoredHeld`, `AskedHeld`), and a holder has a record of its own (`OwnKept`). Records only grow
  (`SharesGrow`), so that what the other sessions carry stays sound.
- `NotesKeepProofs` (`SharingProofs`): `ProofsKept` without any hypothesis, with devices that stop
  and handlers that fail between their transactions. Records are
  left out of messages when the other end has them already, so what is under way must be
  proven by what it carries together with what the receiver has (`Messages`, with
  `HangsOn(P, Q)`: the proofs of P's records are in Q), and what is being shared by what
  the sharer has (`Hanging`). The records of a message are stored in one transaction, so no fault splits them.
- `KeysTravelTogether` and `HoldersAlwaysRead` (`SharingProofs`): `Together`, and `HoldersRead` as it is: the record
  always, the key while `faults = 0`. The three transactions of a merge are three steps, each of
  which may abort, so `Together` is to be proved although keys, rows and records differ between them. `Calm`
  says how: at a user the tables agree (`CalmAt`), or one session has a handler of this note half-way there (`Moved`),
  and then they differ by exactly what its message has yet to bring (`MergeHalf`, `AcceptHalf`); what is under way is whole (`CalmBy`).
  That a handler whose first transaction is taken has all of them taken (`MergeGoesOn`, `AcceptGoesOn`:
  `Refused` is not enabled there) is the argument: the foreign keys of the later tables are those of the first
  (users are never forgotten, `KnownGrows`; `SharersHave` takes the sharers of records from `NotesKeepProofs`), and rows that are
  not there yet insert, since keys of a table are one per user (`Entered`). A step that begins
  beside such a handler, or a stop, makes `faults` positive, after which `CInv` says nothing of keys
  and rows: there `Together` is false (Findings).
- `MergesAuthorised`: `AlwaysAuthorised` while `faults = 0`, for constants with `OneSharer`: nobody may get a note from
  two users. Then there is at most one record per note and recipient anywhere (`OneRecord`), all
  go back to the creator (`Rooted`), and the proofs of a token are at both ends, because each
  end has the chain to itself. Without `OneSharer` the theorem is false (Findings).
- `FolderKeepsProofs`: `FolderProofsKept`, for constants with `OneFolderSharer`. The records of the
  folder travel by recipients, listed by user, so `FolderMessages` says of a list that with a
  record's recipient it has all users of the record but those the other end has
  (`Whole`); with one record per user (`OneFolderRecord`) the receiver's record for a user is the one
  that proves. Without the hypothesis it is false as well (Findings).

Only model-checked:

- liveness under fairness (`Converges`, `Quiesces`, `EditorsReconnect`, `Meet`,
  `BuffersAgree`, `Spread`, `ChatsAgree`), which the prover does not reach;
- what recursive definitions compute for every input: its induction theorems
  take an operator, which none of the installed backends instantiate;
- what `ReplicaProofs` proves, with overlapping saves and failing handlers: there it does not
  hold in general, and `sync_overlap` shows what remains;
- `AlwaysAuthorised` after a stop or amid a handler: `sharing` checks it with one of either, the theorem ends at the first;
- `Answerable` with a loss and a failed dial, and `BufferOfNote` and `EditorOfNote` with
  `overlap` or `foreign`: there they are false (Findings).

Every invariant that a passing run checks is thus a theorem, some under a hypothesis on the faults
or shares; what a hypothesis leaves out is in the Findings.

## Not modelled

- Device sync and the handshake between devices of one user: the same exchange of
  manifests, in which every device gets everything.
- Tokens of the handshake: the one-time token of a ticket and the delegated
  tokens by which users are introduced are the right to be stored in
  `Connections`, nothing more; expiry is left out.
- Keys, signatures and encoding of cryptography: a UCAN is its chain.
- Messages before the end of a handshake. They do occur: `perform_handshake_and_create_peer` makes the entry
  before the handshake, so a second `connect_with_ticket` may send its manifest on it while the reply is outstanding
  (`p2p_service.rs:609`), and the peer's connection still has the user it was made with (`peer_connection.rs:77`).
  `Connections` ends where a handshake starts the sync, `UserSync` begins there.
- Ids of rows: that a row of another id for the same device makes `save_resource_sync_data` roll back (`resource_repository.rs:827`).
- Awareness, previews, inactive connections, read marks, images of chats, the
  subscription cache: they change nothing that the properties are about.
- `soft_delete_resource`, `toggle_fav` and `update_last_accessed` write a flag of one device that is never synced.
- Account set-up, the search index (a cache of the database), the command line,
  presentation. The TypeScript port is a second implementation; the Rust code is
  the reference.
