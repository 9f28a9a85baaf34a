# E2E Chat: specifications, model checking and proofs

This directory holds TLA+ specifications of the chat program in this repository, the TLC
configurations that check them on small instances, and proofs that TLAPS checks for every value
of the constants. `PROJECT.json` lists for every definition the source lines it stands for, for
every run what it checks, for every property a mutant of the code that breaks it, and the hazards
of the code with the properties that watch them.

    tlc -workers 2 -config VoiceRooms_server.cfg MCVoiceRooms.tla
    tlapm VoiceRoomsProofs.tla

## 1. The system

E2E Chat is one Rust process (Axum, Tokio, SQLite behind one mutex; `server/src`), a JavaScript
page (`static`) and a thin desktop and Android shell (`src-tauri`). The server stores ciphertext
and decides who may do what; the page encrypts, keeps keys and shows messages.

Three things make the server concurrent:

* Tokio runs handlers on several threads. A handler is a sequence of database calls
  (`Database.conn` is a `Mutex<Connection>`, taken and released by each method), lock holds of
  in-memory maps (`RwLock`) and sends. Anything may happen between two of them; there are hardly
  any transactions around more than one call.
* Every WebSocket connection has a receive task and a supervising task. The first is aborted when
  the connection ends, which takes effect only at its next `.await`; the second then cleans up.
* Timers and periodic tasks (grace timer of a call, sweep of waiting markers, sweep of expired
  messages, clean-up of files) act on lists that they read earlier.

The page adds two more. `ws.onmessage` is `async`, so that the handlers of one page interleave at
their awaits with one another and with what the user does: a function that looks at the open
conversation, the room or the list of chosen files may find another one after its next await. And
pages talk to each other: two pages of one account share a key blob, two pages in a call negotiate
a peer connection through the server, each with its own timers.

| Component | State | Operations | What makes it hard | What makes it correct |
|---|---|---|---|---|
| Voice rooms and DM calls (`ws.rs`, part of `db.rs`, `handlers.rs`) | `AppState.voice_rooms`, `voice_sessions`, `voice_participants`, `voice_sanctions`, `dm_call_waiting` | join, leave, leave_all, state, control, waiting, declined, unfriend, sweep, grace timer, clean-up, restart | checks and uses in different lock holds, aborted tasks, two devices of an account, timers that race a rejoin | map, device map and sessions agree; sanctions hold; nobody is evicted without authority; stale markers go away |
| WebSocket connections (`ws.rs`) | `WsManager.connections`, the two tasks | authenticate, replay, register, receive, close, abort | replay before registration; abort at awaits | clean-up happens, and hits only its own device |
| Soundboard playback | slots of a room, `sb_temp_play` | upload, play, stop, disable, enable | audio freed by whoever gives up a slot | audio in a slot is not freed early |
| Messages (`ws.rs`, `db.rs`) | `messages`, `dm_messages`, reactions, polls, receipts, pins, search tokens, files | send, edit, delete, react, vote, acknowledge, pin, sweep | checks and writes in different lock holds, the sweeper, re-entered mutex | dependents belong to stored messages; deletion needs a right; receipts are monotone; expired messages go |
| Server membership and server keys (`handlers.rs`, `db.rs`, `chat.js`, `crypto.js`) | `server_members`, `server_bans`, `server_keys`, `pending_events`, the page's saved keys | join, leave, kick, ban, unban, upload, fetch, rotate, events and replay | a protocol between owner, members and server in which each may be away | keys reach members only; members get keys; a removal leads to a new key |
| Login, sessions, 2FA, password change | `users.password_hash`, `auth_sessions`, `totp_secrets`, `recovery_codes`, pending tokens | register, login, login_2fa, kick, change, reauth, logout | verification takes long, and what was verified may change meanwhile | no session survives the change of its password; a recovery code works once |
| Key blob (`handlers.rs`, `chat.js`, `auth.js`) | `user_key_blobs` with a revision; each page's `localStorage`, its revision, debounce timer, save flag and queue | edit, save, conflict and merge, announce, pull, password change, save at login | lost updates between devices; a save flag that has to come down on every path | no write is forgotten, no page stops saving, a merge drops nothing |
| Files (`handlers.rs`, `db.rs`, `chat.js`) | `files`, directories on disk, quotas; the upload window | choose, confirm, cancel, init, chunk, complete, expire, hourly clean-up | meter, disk and table change in separate steps; the window changes under a running upload | a complete file is whole; what is sent is what was confirmed; orphans go |
| The page's message list (`chat.js`) | `#message-list`, `_messagePagination`, the open conversation, the scroll listener | open, scroll back, live events, reconnect | loads, pages and events that cross; a view that changes at an await | nothing twice, nothing missing, nothing of another conversation |
| A direct call in the pages (`voice.js`) | `S`: room, ringing, bar, markers, timers | call, accept, decline, call back, hang up, time out | two pages and a server with three timers between them, lost connections | both know whether they talk; nobody is in a call unwillingly |
| One edge of a call's mesh (`voice.js`) | `RTCPeerConnection`, deferred and pending signals, watchdogs | join, leave, offer, answer, rollback, ICE restart | glare, lost signals, a late key | the edge connects; both ends hold the same descriptions |
| Roles and permissions | `roles`, overrides | create, assign, reorder, check | hierarchy and bit sets | nobody grants what they lack |
| Friends, blocks, DM channels | `friend_requests`, `friends`, `dm_channels` | request, accept, remove, block | requests that cross | friendship is symmetric |
| Notifications and push | `pending_notifications` | deliver or queue, replay | the same hand-over as pending events | nothing is delivered to nobody |
| Account deletion, kill switch, self-destruction | all tables | delete | handlers that are past their checks | nothing of the account comes back |
| Pairing, rate limits, vault, groups, categories, soundboard library, administration | one table or map each | one statement per request, mostly | check and use apart | see `PROJECT.json` |

`PROJECT.json` lists these and the remaining parts (user interface, media, shell, tests, vendored
libraries) with their status, and for each unmodelled one the reason.

How they interact: a handler in `handlers.rs` (HTTP) or `ws.rs` (WebSocket) calls `db.rs` and then
`WsManager.broadcast_to_users`; the pages react with further requests. Voice rooms depend on
connections (clean-up), on friends (unfriending ends a call), on roles (who may moderate) and on
the soundboard. Server keys depend on connections (who is told, who gets a saved event) and on the
membership. Messages depend on membership and roles, and on files. Which parts have a model is in
section 2; what has none in section 5.

## 2. Modules

| Module | Models | Lines |
|---|---|---|
| `VoiceRooms` | voice rooms, DM calls, soundboard playback, connections and their tasks, on the server | about 1070 |
| `Messages` | the message tables, their handlers, the sweeper | about 610 |
| `MessageLife` | what the message tables promise: the abstract specification of `Messages` | 70 |
| `ServerKeys` | membership, key table, pending events, the pages' key handling | about 550 |
| `Account` | sessions, password, 2FA login and the key blob of one account on several devices | about 690 |
| `Timeline` | the message list of a page | about 550 |
| `CallEdge` | two pages that negotiate a peer connection through the server | about 570 |
| `Ringing` | the pages in direct calls, and the server between them | about 560 |
| `Files` | the upload window, the upload handlers, expiry and clean-up | about 400 |
| `VoiceRoomsProofs`, `MessagesProofs`, `ServerKeysProofs`, `AccountProofs`, `TimelineProofs`, `CallEdgeProofs`, `RingingProofs`, `FilesProofs` | proofs about the module of that name; `MessagesProofs` also proves that `Messages` implements `MessageLife` | |
| `MCVoiceRooms`, `MCMessages`, `MCServerKeys`, `MCAccount`, `MCTimeline`, `MCCallEdge`, `MCRinging`, `MCFiles` | instances for TLC | |

All of them follow the same rules. **A step is one critical section of the code**: a database
call, a hold of the `voice_rooms` lock, a broadcast, a file operation, or (for a page) what it
computes between two awaits. A handler that makes several of them is a small program: `job[c][t]`,
`tasks`, `reqs` or `req` holds its place and its local variables, named after what it does next.
Guards are the code's conditions and early returns at that place. Users are unconstrained: they do
anything the instance allows at any time. Ciphertext, keys and names are model values. A definition
commented as a mutant is a wrong variant of its neighbour, used by no specification. Every module
states a type invariant, `TypeOK`. All but the one of `Account` are stated by a theorem (section 4;
there the invariant has the types without the bounds of the counters), and every proof rests on the
types of its module's variables.

How the models divide the system: `VoiceRooms` has the server's side of calls lock hold by lock
hold, with clients that send anything; `Ringing` has the pages' side of a direct call with each
server handler as one step; `CallEdge` has what happens between two pages once both are members.
`Messages` has the tables and `Timeline` what a page shows of them, seeing the server as a set of
messages and events on their way. `Files` sends messages that name files, and `Messages` removes
the record of a file with its message.

### VoiceRooms

`reg`, `sup`, `alive` are the connections, the phase of `handle_socket` and whether the receive
task can still run; `Cancel` is the abort taking effect, possible only where the handler has an
await. `live` and `members`, `device`, `flags`, `session`, `slots` are the map and the fields of
`VoiceRoom`. Join is `JoinInsert` (lock hold), then the replaced device's eviction, the session
row, the count for the waiting marker and the marker itself (`join_*`); leaving is `RmWrite*`, then
the soundboard, the marker and the grace timer (`rm_*`); a room that is gone at the first lock may
be there again at the second (`rm_gone`). A moderator's control is `ctl_*`; its job carries the
server the message names (`srv`), which the code never compares with the server of the channel.
`chanOpen` is the channels that are not deleted and `open` the `voice_sessions` rows that have not
ended: a room created for a deleted channel has no row, and a deletion takes the rows of a room
that is in use. The sweep, the grace timers and unfriending are tasks of their own. `Restart`
empties memory, keeps the tables and clears the markers, as `main.rs` does at start.

A temporary clip is its token. Clients may announce any token any number of times, as the code
takes it from the message; `played` and `replayed` remember which were announced once and again,
`lost` what expired. Left out: a database that fails (but for the foreign keys), membership of the
servers (`voice_join` requires it; a control does not ask it of its target), and a device id
in a message other than that of the connection.

### Messages and MessageLife

`rows` is both message tables; `tokens`, `reactions`, `votes`, `acks`, `pins` are the dependent
ones, removed with their message because of the foreign keys; `files` the file records. `granted`
is who may do what and changes at any time. `hung` records that a method has taken the database
mutex twice: nothing that needs the database moves again. `sweep` is the sweeper with its list.

`MessageLife` is what a reader of the tables may rely on: a message is posted once under an id
never used before, in a thread that exists; its text may change, its author, conversation and file
may not; what is attached to it changes only while it is there, and a "read" receipt stays; it goes
for good, with all its marks, and the replies of its thread stay without it. The refinement mapping
(`Life` in `Messages`) hides handlers, permissions and the sweeper: `used` is the ids below
`nextMsg`, `marks` collects tokens, reactions, votes, receipts and pin.

### ServerKeys

`members`, `banned`, `rows`, `pending` are tables; `ring` is what a page keeps in
`e2e_server_history_` and `e2e_server_`, the last one being the current key; `page`, `loaded`,
`timer`, `socket`, `inbox` are the pages and their sockets; `socket` is "replayed" between the
replay of saved events and the registration. `tasks` are the running handlers of the server (join,
kick, leave) and of the pages (fetch, ensure, load, try, share, rotate). Of rows and rings the last
key and the set of the older ones are kept. Three history variables (`since`, `unrotated`,
`failed`) exist for the properties.

### Account

`password`, `row`, `sessions` are the tables; `page[d]` is the page of a device, at the app or at
the login page, with its token, its bundle (`local`: for every key the number of the edit that
wrote it), the revision it last saw, the debounce timer, the save flag and the queue of one;
`reqs` are the requests on their way, each a handler with its locals, or an answer that has not been
handled. A request whose page is gone is handled all the same and its answer dropped. `told` is
what is on its way on the page's WebSocket. Login with a second factor makes sessions without a
device (`Nameless`), as the code does. `dropped` marks a page that lost an answer to the network;
`late` one that was opened while a renewal of its own was under way (the reload lost the answer), or
whose socket registered when a session of its device was over already (`SidsOf`: its own, or one
that a renewal has made and the page has not heard of).

### Timeline

`list` and `note` are the children of `#message-list`, rows or a text; `pag` is the pagination
object of each conversation, with a generation so that a function that still holds an older object
can be told from one that holds the current; `tasks` are `selectServer`, the two loads, the two
older-page loads and live handlers, waiting at an await with the view they started for. `events`
are broadcasts on their way: those of one message in order, those of different messages in any
order, because each handler awaits decryption. A page is read as the
sequence of its rows, oldest first (`Orders`); rendering it is a recursive function over them
(`AllRendered`, `AllPrepended`). Keys are at hand. The history `spoiled` names the
races the code does not guard against.

### CallEdge

`peer[x]` is the page's peer connection: signalling state, descriptions, the queue of operations
of the browser and the flags of `voice.js` around it (`making`, `queued`, `watch`, `net`). Browser
operations settle one by one in the order asked for, as the WebRTC specification has it; the code's
continuation runs when its operation settles. `inbox` is the server's relay, in order, from which
signals may be lost. `SafetyNet`, `VideoWatchdog`, `WatchPeer`, `Disconnect` are the four timers.
ICE is assumed to give up only after `watchPeer` has ended. The video watchdog may act and need not:
it looks at nothing while the tab is hidden, when it is turned off, for a feed that is not loaded
(none is at first) and for sound when the other one is muted or this end deafened
(`voice.js:1874`-`1944`), so that no fairness is assumed of it and no property counts on it.

### Ringing

`page[u]` is `S` of `voice.js` as far as it concerns a direct call, with the bar (which stays in
`S.incomingCall` when it is hidden), the two timers, the markers and the list of conversations from
which they are rebuilt, and the functions that wait (`jobs`). `members`, `stored`, `grace`,
`leaving` are the server. A connection that is lost loses what is on its way; the server cleans up
after it at any later time, also after the page has come back. `voice_member_leave`, which carries
no new information, is merged with `voice_members`. Timers may run off in any order. One
device per user; a page that has muted the caller declines by itself, which counts as an act.
A user may have several conversations. `Open` says that the call of one is open for a user: on the
page, on its way to or from the server, or on the server without a message on its way that leaves
it; `Step` is a step of the system, and `Next` adds the history `mixed` of users for whom two calls
were open at once (`Double`), which the code does not exclude.

### Files

`page` is the upload window (`selectedFiles`, `isUploading`, the conversation in view), `run[u]`
the running `startFileUpload`, which reads the window again after every request; `req[u]` its
request and the handler of it; `records` and `disk` the table and the upload directory; `cleaner`
and `removing` the hourly clean-up and the removals under way. Sizes are numbers of chunks; the key
of a direct partner is fetched before the message is sent and is not itself tracked; the page is
not reloaded.

## 3. Runs

| Run | Question | Result |
|---|---|---|
| `voice_server` | Two accounts, three connections (one legacy), joins, leaves, dropped connections, a deleted channel, a restart: do map, device map, sessions and participants agree? | holds (`RoomShape`, `SessionsMatchRooms`, `PresentAreMembers`) |
| `voice_moderation` | Mute, deafen, kick, disable against a member who plays clips, reports its state and owns a second server | holds (`TypeOK`, `SanctionEnforced`, `EvictionAuthorized`, `PlayingKeepsAudio`) |
| `voice_dm` | A DM call with decline, drop, unfriend | holds (`EvictionAuthorized`, and `StaleMarkerCleared` under fairness) |
| `messages_store` | Everything that changes messages, with the sweeper and changing permissions | holds (`DependentsBelong`, `ReadStaysRead`, `DeletedByRight`, `ImplementsLife`, and `ExpiredShredded` under fairness) |
| `messages_hang` | Does the file of a deleted message go? | violated: the deletion waits for itself |
| `keys_share` | Joins, removals, bans; the owner away, loading, connecting, failing | holds (`KeysReachMembers`, `MembersSupplied`) |
| `account_save` | Two signed-in devices edit, save, conflict, pull, change the password, re-authenticate, kick, reload, sign out; one request is lost | holds (`SaverNeverStuck`, `QueuedHasCarrier`, `EditsAwaitSave`, `KickedAreTold`, `MergesOnlyAdd`) |
| `account_live` | A second device signs in with 2FA and kicks the others | holds under fairness (`EditsAreSent`, `SignedOutLeaves`) |
| `timeline_view` | A user moves between a channel and a direct conversation and scrolls while messages come, one changes, a request fails or the connection is lost | holds (`NoDuplicates`, `ChannelRowsBelong`, `ViewComplete`, `MoreNotStuck`, and `LoadSettles` under fairness) |
| `calls_connect` | Two members join, add a camera, negotiate with crossing offers; a key is late, a signal lost, a connection breaks or a timer fires early | holds (`NoKeylessPeer`, `OnePair`, `NeverGivenUp`, and `EdgeConnects` under fairness) |
| `ringing_call` | Two friends call, answer, decline, call back, hang up; timers, a lost connection, a reload, the sweep | holds (`RingEnds`, `TalkersKnow`, `NobodyDraggedIn`, `NoGhostCall`) |
| `files_upload` | Two uploads with a quota, clean-up, expiry and one disturbance | holds (`CompleteIsWhole`, `SentIsComplete`, `SentAsConfirmed`, and `OrphansGo` under fairness) |

The violation is the one listed under `findings` in `PROJECT.json`, with the comment that says
otherwise. `CHECK_DEADLOCK FALSE` is set everywhere because users may stop and the bounds end
every behaviour.

**What the passing properties say.** They relate pieces of state that are written in different
steps, often by different actors.

* Calls on the server: `RoomShape` and `SessionsMatchRooms` need every removal to clean up after
  itself even when a join overtakes it. `EvictionAuthorized` says of every step that takes a member
  out which task may do it; for a moderator it asks for the right in the server the message names,
  which is all the code does. `PlayingKeepsAudio` names the three ways in which a slot loses its
  audio: expiry, a restart, a token announced twice. `SanctionEnforced` has to survive the member's own state reports, a
  rejoin and several moderators.
* Messages: `DependentsBelong` has to survive the deletion of a message between a handler's look-up
  and its insert; `DeletedByRight` includes the sweeper's stale list; `ImplementsLife` puts them
  together as a refinement.
* Server keys: `KeysReachMembers` says that a removal during an upload, a fetch or a rotation never
  hands a later key to the removed user; `MembersSupplied` that the detour of a join (broadcast,
  saved event, `key_needed`, replay, upload at load) has no gap as long as nothing fails.
* Account: `SaverNeverStuck`, `QueuedHasCarrier` and `EditsAwaitSave` say that whichever way a save
  ends (stored, conflict, third conflict, refused, lost) the flag comes down, what waits is started
  and no edit is left without a save to come. `KickedAreTold` and `SignedOutLeaves` are about the
  list of devices that is made after the sessions were revoked.
* A page: `ViewComplete` says that when nothing is under way the list shows exactly the stored
  messages back to the cursor, unless one of five named races took place since the last load;
  `MoreNotStuck` that a busy flag on a pagination object that a load may have replaced always has a
  request that will take it down.
* Calls in the pages: `EdgeConnects` says that whichever signal is lost and whichever offers cross,
  two members with the key are connected in the end; `OnePair` that rollback never leaves two stable
  ends with different descriptions unnoticed; `NeverGivenUp` that a stable end which does not match
  and has not failed has `watchPeer` or the browser's report of a dead transport left, although
  `watchPeer` ends at the first answer and a connection may be new a second time after that. One that
  has failed may be left with the video watchdog alone (`FailedRepaired`, below). The four of `ringing_call` speak of
  quiet states, those in which nothing is on its way and no timer runs: every order of timers,
  messages and lost connections must lead to one in which both pages are right.
* Files: `CompleteIsWhole` holds against the clean-up and restarts in the middle of a chunk,
  `SentIsComplete` and `SentAsConfirmed` against every failure of a request and every change of the
  conversation in view: what an upload may do when the page goes elsewhere under it is send its
  message there, but never in the other kind of conversation, for which it was not encrypted.

**Exceptions by name.** Some properties except cases in which the code does fail, each marked by a
history variable or a state predicate, so that the rest can be claimed: `raced` (an event handled
between the server's reading of a page and its rendering), `mixed` (two loads of one conversation
overlap), `missed` (an event lost with the connection, or a load that failed), `strayed` (a row
rendered into another conversation), `wiped` (a late write of `selectServer` or of the load of an
empty direct conversation) in `Timeline`; `Nameless`, `late` and `dropped` in `Account`; `Revived`
(hanging up while the key is fetched or before `voice_joined` brings the call back without a
partner), `evicted` (the clean-up of the old connection after the page has come back), `crossed`
(declining a call one has just called back) and `mixed` (two calls open at once) in `Ringing`; `overtaken` (a file initialised while a
clean-up has its list loses its directory) and `meddled` (the user cancels, takes
out a file or chooses others during the upload) and `moved` (another conversation comes into view
during it) in `Files`.

**Bounds.** Interleavings need two actors who overlap, and a third step in between. `VoiceRooms`
and `Messages` have two accounts, two or three connections, one room or conversation of a kind and
two to four client messages; the longest hazard found there (check, second device joins, removal)
needs three. `voice_moderation` has a second server without channels of its own, whose owner is the
member who is moderated in the first; its two soundboard tokens are interchangeable and it checks
safety only, so that symmetry is sound. `MaxSessions`, `MaxKeys`, `MaxMessages`, `MaxSids`, `MaxIds`,
`MaxCreds` bound counters. `keys_share` has two handlers at a time and reaches about 1.2 million
states; its slots of handlers are interchangeable and only invariants are checked, so that symmetry
is sound.
`account_save` has two devices and two edits, enough for a conflict with a merge and a save in the
queue, and one further act of the user of each kind; `MaxTries` is 1 where the code has 3, so that
giving up is reached. `timeline_view` has pages of one message and two messages, so that there is an
older page; `MaxMoves` lets the user leave and come back. `calls_connect` has a microphone each and
seven sets of transport credentials, which suffice for a restart on both sides. `ringing_call` has
three acts of the users or lost connections together (calling, answering and hanging up; or calling,
losing the connection and being called), one of them a loss or a reload, and only the second user
opens the list: about 1.8 million states. It has one conversation, so that nobody is ever in `mixed`;
with the two of `TwoDms`, three acts and no lost connection (791,000 states up to the symmetry of the
two friends) the four properties, and the invariants of their proofs, have been checked apart from
the runs. `files_upload` has two channels and a direct
conversation, a file of two chunks and one of one, uploads of one or two files, and a quota of three
that the second upload may exceed.

**Fairness.** `VoiceRooms!FairSpec` assumes that the periodic sweep (`sweep_stale_waiting`, an
endless loop over an interval) takes its steps and that markers grow old (the clock). It assumes
nothing of clients, handlers or the grace timer, whose task may be lost in a restart.
`Messages!SweepSpec` assumes weak fairness of the sweeper alone, which is also an endless loop.
`Messages!FairSpec` adds that a handler that can continue does (Tokio polls ready tasks); it is
used only for `DeletedFileGoes`, whose counterexample is that the handler cannot continue.
`Account!FairSpec`: the debounce timer fires, messages on the socket are handled, and each request
is handled and answered. `Timeline!FairSpec`: a function that waits for an answer goes on; one
weak condition for all of them suffices because their number is bounded. `CallEdge!FairSpec`:
messages are handled, browser operations settle, timers fire, but for the video watchdog; strong
fairness for `WatchPeer` and `Disconnect`, whose guards are tests of a state that comes and goes while the interval keeps
running. Nobody has to join, stay or be given the key. `Files!FairSpec`: the clean-up runs again and
again and goes through its list, and a removal that was begun goes on unless the server stops.
`Ringing` needs none: its properties speak of quiet states.

**Stated, and not kept.** Some modules end with definitions which say what a comment or document
claims, or what a user would expect, and which the code does not keep. They are part of no run; put
one into a `.cfg` with the smallest bounds (one act or edit of each kind, two devices or members)
and TLC prints the sequence.

* `VoiceRooms!ReplacementStays`: `handle_voice_leave` reads `device_map`, drops the lock and then
  removes the user whatever device is in the room by then (`ws.rs:2746`; the same after
  `ws.rs:3586`), although `ws.rs:2729` says "A stale (kicked/replaced) device's explicit leave must
  not evict the device that replaced it."
* `VoiceRooms!EvictedByOwnServer`: `handle_voice_control` checks permission and rank for the
  message's `server_id` but takes the room from its `channel_id` (`ws.rs:3321`) without asking
  whether the channel is in that server, as a join does (`ws.rs:2480`); `ws.rs:3326`: "kicking
  someone out of voice needs MOVE_MEMBERS." Mutes of the member in the room go the same way.
* `VoiceRooms!PlayingKeepsAudio` without its last exception: playing one token twice frees, with the
  slot that is given up, the audio of the slot that is filled (`ws.rs:1811-1816`); `handlers.rs:9739`:
  "Entries must survive the whole playback so late joiners can still fetch the audio."
* `VoiceRooms!MembersArePresent`: `add_voice_participant` is `INSERT OR IGNORE` and a leave only
  sets `left_at`, so whoever leaves and comes back is recorded as having left (`db.rs:2835`).
* `VoiceRooms!SanctionReachesMember`: a join reads the sanction (`ws.rs:2523`) long before it inserts
  the member (`ws.rs:2580`); a mute in between misses it. `VOICE_CALLS_SPEC.md:587`: "Sets
  force_muted=true in DB, broadcasts member update".
* `Messages!SingleChoice`: `remove_poll_votes` binds parameters under other numbers than it uses,
  the statement fails and `ws.rs:2193` ignores that: the old vote stays. `db.rs:5424`: "(single-choice
  poll switch). Returns how many rows were removed."
* `ServerKeys!RotationEffective`: `rotateServerKey` uploads the new key first and the old one last,
  which then is current everywhere. `chat.js:13468`: "Upload the old key for all members first (so
  old messages remain decryptable), then upload the new key."
* `ServerKeys!RemovalSaved`: `kick_member` and `ban_member` save the event for the caller, not for
  the owner. `handlers.rs:3080`: "If owner is offline, save a pending event so they rotate the key
  on reconnect".
* `Account!BlobOpensWithPassword`: the password change replaces the blob without raising its revision
  (`db.rs:3366`), and a save already past `extract_user` overwrites it with one wrapped with the old
  password. `chat.js:6561`: "sent in the SAME request so the server can never end up with a blob
  encrypted by a different password."
* `Account!OverlapDropsNothing`: the answer to a conflict reads blob and revision in two lock holds
  (`handlers.rs:2270`): the older blob with the newer revision; and after the last try the page
  takes the revision without merging. Needs
  four edits and `MaxTries` 3.
* `Account!LoginKeepsBackup`: the save at login states no revision. `Account!OldPasswordIsOut`: a
  login verified before a password change mints its session afterwards (`handlers.rs:1247`).
  `Account!LeavesOnlyWhenOver`: two re-authentications at once leave the page with the token of the
  session that was deleted.
* `Timeline!DmRowsBelong`: `dm_new` looks at the open conversation, awaits the keys and renders into
  whatever is open by then (`chat.js:12056`). `chat.js:19525`: "so a DM switch mid-await can't leave a
  stale message appended into the wrong conversation."
* `Timeline!Chronological`: `insertMessageChronologically` stops at the last row, which is the first
  newer one it meets (`chat.js:16227`), so that with two newer rows the message lands between them.
  `chat.js:16206`: "keeps the list strictly chronological."
* `CallEdge!TracksArrive`: when the answer to the offer of a track is lost, the offer stays pending:
  the video watchdog returns when the signalling state is not stable (`voice.js:2049`) and never rolls
  back. `voice.js:1851`: "(rolling back a stale offer first if
  needed)." `CallEdge!SignalsHeld`: encrypted signals that arrive before the key are dropped before
  `queuePendingSignal` (`voice.js:3126`). `CallEdge!PeersAreMembers`: an offer that arrives between
  joining and `voice_joined` makes a peer that nobody closes (`MaxJoins` 4). `CallEdge!FailedRepaired`:
  a failed connection whose restart settled with the other end's previous credentials is stable, and
  nothing but the video watchdog, which may be off, is left to negotiate again (`MaxFaults` 2).
* `Ringing!NoPhantomWaiter`: a tab closed while it rings leaves "waiting" on the other page for ever:
  the grace timer's message is ignored because the bar is not a waiting one yet, and the 30 s timer
  then makes it one (`voice.js:4287`). The same after a list fetched before the end of a call and
  applied after it. `Ringing!RingsWithBar`: calling back while being rung lets the ringtone go on
  for the whole call, against `voice.js:4275` "loops until answered / 30s timeout".
  `Ringing!OneCall`: `joinWaitingCall` leaves a server room only, `startDmCall` a room only once it
  is connected (three users, `TwoDms`).
* `Files!SentWhereConfirmed`: the upload is sent to the channel that is in view when its last file is
  done (`chat.js:25848`), and the open window does not keep the page where it is: an accepted
  friendship brings its conversation up (`chat.js:12521`), Ctrl+Shift+arrow go to another channel or
  server (`thread_categories_shortcuts.js:2361`). `Files!CancelledStays`: cancelling during the last file sends the message all the same, to the
  conversation then in view; a file taken out of the list during an upload shifts the index, so that
  it is sent and another one is not. `Files!RetryWorks`: after a failure `isUploading` stays set, so
  that the button does nothing (`chat.js:25758`, `25882`). `Files!QuotaKept`: the quota is read and
  the record made in two lock holds (`handlers.rs:6856`).

**Reachable, and not claimed.** The models also reach states that a reader may not expect and of
which no document says otherwise: a handler that is not at an await outlives the clean-up of its
connection and leaves a member in a room for ever; a join validated before unfriending enters the
DM's call after it was ended; temp audio of the last member to leave is not freed at once; a
waiting marker can be cleared under somebody who has just come back; two edits may leave the text
of one with the tokens of the other; a restart between two lock holds of the sweeper leaves a file
record; an owner whose socket registers while a removal is being handled hears of it neither by
message nor by saved event; a replayed removal that is handled before the list of servers has been
loaded is dropped; a new member may get only the current key; while the owner is away nobody
can supply a new member, although `key_needed` is sent to all; restoring a backup overwrites newer
local values; a lost answer in a connected edge leaves one side in have-local-offer until it leaves;
a deferred offer is accepted after a newer one; both sides run `watchPeer`, although the comment at
`voice.js:1797` speaks of the impolite one, because `_polite` is set later; the branch of
`handleDmCallRing` for two who call each other back (`voice.js:4256`) is not reached; an upload
that fails or is given up keeps its record, its directory and its part of the quota for ever;
a message with several files names none of them to the server, whose records then outlive it; a
message sent when the channel in view has gone is lost although the window closes.

## 4. Proofs

Each proof module EXTENDS its component and TLAPS and follows one scheme: an inductive invariant,
`Init => IInv`, `IInv /\ [Next]_vars => IInv'` with one case (and mostly one lemma) per action,
`IInv => property`, and the temporal step last. Before each proof TLC checked the invariant on
an instance of the module (the one of the run, and the random simulation of larger ones where the
run's bounds are small). The table lists the results; the paragraphs below say why the property
alone is not inductive.

| Module | Theorem | States |
|---|---|---|
| `VoiceRoomsProofs` | `TypeCorrect`, `RoomShapeCorrect`, `SanctionCorrect` | `TypeOK`, `RoomShape`, `SanctionEnforced` |
| | `EvictionCorrect` | the action property `EvictionAuthorized` |
| | `SessionsCorrect`, `PresenceCorrect`, `PlayingCorrect` | `SessionsMatchRooms`, `PresentAreMembers`, `PlayingKeepsAudio` |
| `MessagesProofs` | `TypeCorrect`, `DependentsCorrect` | `TypeOK`, `DependentsBelong` |
| | `DeletionCorrect`, `ReadCorrect` | the action properties `DeletedByRight`, `ReadStaysRead` |
| | `LifeImplemented` | the refinement `ImplementsLife` |
| `ServerKeysProofs` | `TypeCorrect`, `KeysCorrect`, `SuppliedCorrect` | `TypeOK`, `KeysReachMembers`, `MembersSupplied` |
| `AccountProofs` | `SaverCorrect`, `QueueCorrect`, `EditsCorrect` | `SaverNeverStuck`, `QueuedHasCarrier`, `EditsAwaitSave` |
| | `KickedCorrect` | `KickedAreTold` |
| | `MergesCorrect` | the action property `MergesOnlyAdd` |
| `TimelineProofs` | `TypeCorrect`, `DuplicatesCorrect`, `ChannelsCorrect`, `MoreCorrect` | `TypeOK`, `NoDuplicates`, `ChannelRowsBelong`, `MoreNotStuck` |
| | `ViewCorrect` | `ViewComplete` |
| `CallEdgeProofs` | `TypeCorrect`, `KeylessCorrect`, `RepairCorrect` | `TypeOK`, `NoKeylessPeer`, `NeverGivenUp` |
| `RingingProofs` | `TypeCorrect`, `RingCorrect`, `GhostCorrect` | `TypeOK`, `RingEnds`, `NoGhostCall` |
| | `DraggedCorrect`, `TalkersCorrect` | `NobodyDraggedIn`, `TalkersKnow` |
| `FilesProofs` | `TypeCorrect`, `WholeCorrect`, `SentCorrect`, `ConfirmedCorrect` | `TypeOK`, `CompleteIsWhole`, `SentIsComplete`, `SentAsConfirmed` |

* **VoiceRooms.** The first three properties need one another: a step that writes the map takes room
  and user from a job (`TypeOK`); the flags of somebody who joins are bounded only because somebody
  outside has none (`RoomShape`). The proof isolates the few ways in which the map is written
  (`RoomWrites`, `RoomFrame`); every other action leaves it alone. The others have invariants of
  their own beside it. `JobsOwned` carries the right to evict from the message that began a task to
  the step that writes, which may be many lock holds later. `SessInv` adds to the two session
  properties what closing a call relies on: a session id carries its channel and is below the
  counter, so that the session of a new call is never one that was closed, and that of another
  channel's room is not touched by a deletion. `ClipsInv` says that a clip announced once is in at
  most one slot or in the hands of at most one task, never in two of these places, so that whoever
  frees it takes it from no one; and that its audio is kept, unless it expired or was lost.
* **Messages.** The invariant adds that a handler's local variables fit its place (`JobsFit`), that
  no id beyond `nextMsg` is stored (`UsedIds`, without which a fresh message could inherit
  dependents), and that what the sweeper has on its list is due or gone (`SweepDue`, which makes
  `DeletedByRight` true of a stale list). The refinement: initial states correspond; each write of
  the tables (saving, editing, marking, removing) is one step of `MessageLife`, every other step a
  stutter. It needs that a fresh id has no dependents, that a parent is stored and that a mark is put
  on a stored message.
* **ServerKeys.** Between the table and the pages the keys are in handlers, protected by what was
  checked some steps ago. `Holds` says that keys fetched for a user, and a key about to be saved for
  one, were made while the user was a member or before, although the user may have been removed
  since; `MembersHold` (a current member was one at some time since each key was made) is why the check
  in `upload_server_key` is enough for that. `MembersSupplied` speaks of quiet states; `SInv` says of
  every state in which nothing has failed who will supply a member that lacks a key: the owner's page
  is asked for the key, by a message to it or an event saved for it (`Asked`), or a task is under way
  that serves the member or will have the owner asked (`Carries`): the handler of the join until it has
  looked who is offline, the page that joined while the owner is there to be asked, or the owner's own
  upload. What one of them does not do any more the next one has begun to do.
* **Account.** `SaverNeverStuck` counts requests, so two of them must never be mistaken for each
  other: `Pool` (different ids), `FreshId` (a page that sends finds a free one, by comparing
  cardinalities). `Fits` and `PageFits` say which page hears which request and that a page of the app
  never lacks what `saveKeyBlobToServer` returns early without, which is how a flag could stay up.
  For `KickedAreTold`, `Owned` says which device every session on the server, in a page and in a
  request belongs to, and `Followed` of every page outside the exceptions that a session of its
  device is over only while a task that revoked it has not sent yet, or the device itself is signing
  out or renewing: the list of who is told is made after the revocation, from the connections of that
  moment, and a page that connects later finds its session over.
* **Timeline.** The invariant follows a message through every place that may still write it into the
  list: the table, the events under way, the rows a waiting function holds. Wherever an id is found
  it belongs to one conversation (the function `of`), and a function holds rows of its own
  conversation. Rendering a page is a recursion over its rows. Induction theorems cannot be
  instantiated here, so that what each row preserves is proved by a least counterexample among the
  positions (`Induction`, `Solution`, `Preserved`, from well-foundedness of the numbers).
  `ViewComplete` needs that the events of a message under way tell what became of it
  (`EventsOrdered`), so that a row is up to date or an event will change it; and that every message
  of the open conversation is shown, announced, held by a function that will render it, or left to
  the next page, from the answer of the newest load on (`Right`). Before that nothing is claimed
  (`Loading`), nor of rows that an event has passed on their way, which name the race when they are
  rendered (`Doomed`). That a page holds the newest rows before the cursor, and is full unless it
  holds all, is why the cursor of a function leaves no gap.
* **CallEdge.** `NoKeylessPeer` needs that a page with the room key has the server key on its
  device: a page that joins again derives the one from the other and keeps the old peer connection
  until it has done so. `NeverGivenUp`, which leaves the video watchdog out of account, cannot be
  seen from the timers: `watchPeer` ends when the
  connection is no longer new, and a failed one is new again when it gets other credentials. What is
  inductive is that an end is under its first watch or has credentials of the other one (`Held`), and
  the second never ceases: a description has credentials exactly if it has media lines
  (`WholeSdps`), and what comes into force has no fewer lines than what was.
* **Ringing.** `RingEnds` and `NoGhostCall` speak of quiet states, and say nothing of others. For the
  first, `Rings` says of every page at all times: one that rings outside a call has the timer of its
  bar running, for the conversation in the bar, so that the timer will find what it looks for. It rests
  on the types: every message and waiting function that concerns a conversation has one. For the
  second, `GInv` says that a page with a partner is about to ask for a room (`Coming`), or its queue
  to the server ends by entering one (`Enters`), or it is in it and will be shown so (`In`: nothing
  queued moves it, and the last "joined" on its way is of that room). `crossed` and a second
  conversation make no difference to this; `evicted` and `Revived` are its only exceptions.
  `NobodyDraggedIn` and `TalkersKnow` hold of users who have not had two calls open at once, in any
  number of conversations. `DInv` says that a page obeys its user, that whoever is in a room on the
  server has asked to move (`Going`) or will see it (`Showing`), and that no refusal by a page that
  talks is on its way (`Backed`); `KInv` adds what two in one room have still to hear of each other.
  All of it is said conversation by conversation, because the messages of an earlier call may still
  be under way in a later one. What keeps them apart is `Steady`: whoever is not in `mixed` had one
  call open before the step and has one after it. For users with two calls both properties are false:
  a page can be in two rooms at once (`OneCall`, "Stated, and not kept" in section 3).
* **Files.** `CompleteIsWhole` cannot be seen from the records: the size is charged before the chunk
  is written, and not given back when the writing fails. `Handled` follows the requests instead:
  the page sends the next chunk only after the answer to the one before, so a request tells
  exactly which chunks are there, and no two requests concern the same record. `Undisturbed` says
  what the window holds as long as the user leaves an upload alone, `Bound` where it is going.

The proofs rest on the named assumptions about the constants in the component modules, which TLC
evaluates in every run: `None` and the like are apart from the values, bounds are numbers, pages
have room for one message, a queue for one, a direct conversation has two different users, the users
of a server and the devices of an account are finite sets. Beyond that, users, devices, conversations,
files, sizes and bounds are arbitrary.

What trying to prove showed about the models. `KickedAreTold` failed at bounds larger than the
run's when a page was reloaded while it was renewing its session, and when a socket registered after
such a renewal was revoked in its turn: the page keeps or holds a token of which nobody can tell it
any more. Both are now named by `late`. `NobodyDraggedIn` and `TalkersKnow` are false of a user with
two calls open, which the run's one conversation could not show; `mixed` names it. In `CallEdge` the browser took an offer made before the pair in force was agreed on, with fewer
media lines than that; it refuses one. `Ringing` must not have an empty queue or a conversation with
oneself.

`OnePair` is not a theorem. An offer put off for 150 ms can be accepted after a newer one; a connection
that has failed then settles with the other end's previous credentials, stays failed and has no restart
to do. Two faults are enough for TLC to leave one end so (`FailedRepaired`), and the other end's timers
then repair it; no invariant was found that
excludes both ends being left so after many faults, and searches with up to six faults that were not
exhaustive settle it neither way. With at most two faults from a connected edge `OnePair` holds
(checked exhaustively, nobody leaving). `NeverGivenUp`, which is proved for any number of faults, excepts
an end that has failed; `OnePair` is kept for the run's one fault because it says more there.

**What stays with TLC.** Liveness: `StaleMarkerCleared`, `ExpiredShredded`, `EditsAreSent`,
`SignedOutLeaves`, `LoadSettles`, `EdgeConnects`, `OrphansGo` (and the counterexample to
`DeletedFileGoes`), which fairness or ENABLED puts out of the prover's reach; and `OnePair`.

## 5. Not modelled

In the modelled parts: media, its relay modes and frame encryption; ICE candidates, TURN refresh,
removal of tracks and send gating in `CallEdge`; threads, sending, `message_expired` and loads around
a message in `Timeline`; several devices in `ServerKeys` and `Ringing`; keys restored from the key
blob, the deletion of a key and the rebuild flag; registration, recovery codes, enrolment in 2FA and
the kick of a single session in `Account`; download, profile pictures and deletion by an
administrator in `Files`; creating and deleting servers, channels and accounts, with their cascades;
the optional key heartbeat; invitation limits. Crashes inside one database call are below the grain
of the models: SQLite makes each statement atomic, and the few methods with several statements are
noted as hazards where it matters.

Most of the page's code builds and updates elements: menus, settings, previews, themes, emoji,
the administration pages. It has no protocol state of its own and is left out, as are the shell
(`src-tauri`), which calls the platform, and vendored libraries. The remaining parts of the server
(pairing tickets, account deletion, vault, groups and categories, the soundboard library,
administration, rate limits) are one statement or one long lock hold per request; `PROJECT.json`
says so of each.

Cryptography is abstract throughout: a model says who can open what, not how.

## 6. Plan

Done: `VoiceRooms`, `Messages` and `MessageLife`, `ServerKeys`, `Account`, `Timeline`, `CallEdge`,
`Ringing`, `Files`. Every invariant and action property that the passing runs check, and the
refinement, is proved, but for `OnePair`.

1. What `CallEdge!OnePair` says of at most two faults from a connected edge, for all credentials and
   tracks: which descriptions two ends may hold, with offers, answers and rollbacks on their way.
2. `Friends` and `Roles`: crossing requests; permission bits and hierarchy as operators against a
   reference definition. Account deletion composed with `Messages` and `ServerKeys`.
