----------------------------- MODULE ServerKeys -----------------------------
(***************************************************************************)
(* The members of one server and the distribution of its symmetric key:    *)
(* the handlers of handlers.rs for joining, leaving, kicking, banning and  *)
(* for the key table, the replay of pending events in ws.rs, and what      *)
(* chat.js does with the events.                                           *)
(*                                                                         *)
(* Keys are numbered in the order the owner generates them.  server_keys   *)
(* holds, for each user, envelopes of keys in version order; only the      *)
(* user can open them, so that a row is modelled by the key inside.  Of    *)
(* rows and of a page's saved keys, the last one and the set of the others *)
(* are kept: nothing but an upload depends on the order of the others, and *)
(* it takes them in any order.  Whether the last one occurs before as well *)
(* is left open when a page saves what it fetched.                         *)
(*                                                                         *)
(* Atomicity.  A step is one lock hold of the database, one broadcast, or  *)
(* what a page computes between two awaits.  A task is a server handler    *)
(* (join, kick, leave) or a handler of the page (ws.onmessage is async, so *)
(* that the handlers of one page interleave at their awaits).  A page that *)
(* is closed takes its handlers along, and the requests it has in flight.  *)
(*                                                                         *)
(* The server exists at the start and its owner stays: deleting it is not  *)
(* modelled.  An account is one page with one socket.                      *)
(***************************************************************************)
EXTENDS Naturals, FiniteSets, Sequences, Functions

CONSTANTS
    Users, Owner,       \* accounts; the server's owner
    Mods,               \* users with a role that may kick and ban
    Initial,            \* members at the start, who hold the first key
    Open,               \* users whose page is open at the start
    Requests,           \* the membership requests of an instance
    Dropping,           \* users whose page or socket may fail
    TaskIds,            \* bound: handlers at one time
    MaxOps,             \* bound: membership requests and failures
    MaxKeys,            \* bound: keys generated
    MaxTries            \* bound: key requests of a page that has joined

ASSUME UserAssumption ==
    /\ IsFiniteSet(Users)
    /\ Initial \subseteq Users /\ Owner \in Initial
    /\ Mods \subseteq Users \ {Owner}
    /\ Open \subseteq Users /\ Dropping \subseteq Users
ASSUME RequestAssumption ==
    Requests \subseteq {"join", "leave", "kick", "ban", "unban"}
ASSUME BoundAssumption ==
    MaxOps \in Nat /\ MaxKeys \in Nat \ {0} /\ MaxTries \in Nat \ {0}

Keys == 1..MaxKeys
EventTypes == {"needed", "joined", "removed", "rotated"}
Pile == [old : SUBSET Keys, last : 0..MaxKeys]     \* last = 0: there is none
Event == [type : EventTypes, user : Users]
HandlerKinds == {"join", "kick", "leave"}
FetchKinds == {"fetch", "ensure", "try", "load"}
Kinds == HandlerKinds \cup FetchKinds \cup {"share", "rotate"}
Places == {"announce", "pend", "list", "ask", "tell", "keep", "members",
           "recipient", "upload", "save", "publish", "rename"}
Task == [kind : Kinds, user : Users, pc : Places,
         who : Users,           \* the user the event or upload is about
         to : SUBSET Users,     \* recipients still to be served
         all : SUBSET Users,    \* recipients of every key
         keys : Pile,           \* keys fetched, or to be uploaded: last first
         tries : 0..MaxTries]   \* requests left
Idle == [kind |-> "idle"]

VARIABLES
    members,    \* server_members
    banned,     \* server_bans
    rows,       \* server_keys: [Users -> Pile], by version
    pending,    \* pending_events: [Users -> SUBSET Event], a repeated one once
    nameKey,    \* the key the stored server name is encrypted with
    ring,       \* e2e_server_history_ and e2e_server_: [Users -> Pile], the
                \*   current key last
    page,       \* the users whose page is open
    loaded,     \* the users whose page has the server in its list
    timer,      \* the users whose page will look at its keys again
    socket,     \* [Users -> {"none", "replayed", "online"}]
    inbox,      \* [Users -> Seq(Event)]: sent on the socket, not handled
    tasks,      \* [TaskIds -> Task or Idle]
    made,       \* keys generated so far
    ops,        \* requests and failures so far
    failed,     \* history: there was a failure
    since,      \* history: [Keys -> users who were members since it was made]
    unrotated   \* history: users removed and no key generated since

database == <<members, banned, rows, pending, nameKey>>
client == <<ring, page, loaded, timer, socket>>
history == <<made, since, unrotated>>
bounds == <<ops, failed>>
vars == <<database, client, inbox, tasks, history, bounds>>

Empty == [old |-> {}, last |-> 0]
Elements(p) == (p.old \cup {p.last}) \ {0}
Put(p, k) == [old |-> Elements(p), last |-> k]
PutAll(p, q) == IF q = Empty THEN {p}
                ELSE {[old |-> Elements(p) \cup q.old \cup again, last |-> q.last] :
                        again \in {{}, {q.last}}}

TypeOK ==
    /\ members \subseteq Users /\ banned \subseteq Users
    /\ rows \in [Users -> Pile]
    /\ pending \in [Users -> SUBSET Event]
    /\ nameKey \in Keys
    /\ ring \in [Users -> Pile]
    /\ page \subseteq Users /\ loaded \subseteq Users /\ timer \subseteq Users
    /\ socket \in [Users -> {"none", "replayed", "online"}]
    /\ inbox \in [Users -> Seq(Event)]
    /\ tasks \in [TaskIds -> Task \cup {Idle}]
    /\ made \in Keys
    /\ ops \in 0..MaxOps /\ failed \in BOOLEAN
    /\ since \in [Keys -> SUBSET Users]
    /\ unrotated \subseteq Users

Init ==
    /\ members = Initial /\ banned = {}
    /\ rows = [u \in Users |-> IF u \in Initial THEN Put(Empty, 1) ELSE Empty]
    /\ pending = [u \in Users |-> {}]
    /\ nameKey = 1
    /\ ring = [u \in Users |-> IF u \in Initial THEN Put(Empty, 1) ELSE Empty]
    /\ page = Open /\ loaded = Open \cap Initial /\ timer = {}
    /\ socket = [u \in Users |-> IF u \in Open THEN "online" ELSE "none"]
    /\ inbox = [u \in Users |-> <<>>]
    /\ tasks = [t \in TaskIds |-> Idle]
    /\ made = 1 /\ ops = 0 /\ failed = FALSE
    /\ since = [k \in Keys |-> IF k = 1 THEN Initial ELSE {}]
    /\ unrotated = {}

-----------------------------------------------------------------------------
(* Tasks, events and broadcasts. *)

Busy(t) == tasks[t] # Idle
Free == {t \in TaskIds : tasks[t] = Idle}
At(t, pc) == Busy(t) /\ tasks[t].pc = pc

NewTask(kind, u, pc, who) ==
    [kind |-> kind, user |-> u, pc |-> pc, who |-> who, to |-> {}, all |-> {},
     keys |-> Empty, tries |-> IF kind = "try" THEN MaxTries ELSE 1]

Start(t, task) == t \in Free /\ tasks' = [tasks EXCEPT ![t] = task]
Goto(t, pc) == tasks' = [tasks EXCEPT ![t].pc = pc]
Finish(t) == tasks' = [tasks EXCEPT ![t] = Idle]

Connected(u) == socket[u] = "online"

\* broadcast_to_users: only registered connections get the message.
Broadcast(us, type, who) ==
    inbox' = [u \in Users |->
                IF u \in us /\ Connected(u)
                THEN Append(inbox[u], [type |-> type, user |-> who])
                ELSE inbox[u]]

\* save_pending_event for those of us that are not connected by now.
Pend(us, type, who) ==
    pending' = [u \in Users |->
                  IF u \in us /\ ~Connected(u)
                  THEN pending[u] \cup {[type |-> type, user |-> who]}
                  ELSE pending[u]]

-----------------------------------------------------------------------------
(* Membership. *)

Request(u, kind) ==
    /\ u \in page /\ kind \in Requests /\ ops < MaxOps /\ ops' = ops + 1
    /\ UNCHANGED failed

\* perm_denied and the hierarchy: the owner above the moderators above the
\* rest.  A moderator's role goes with the membership.
MayRemove(c, u) ==
    /\ u \notin {c, Owner}
    /\ \/ c = Owner
       \/ c \in Mods \cap members /\ u \notin Mods \cap members

\* join_server_by_invite.  A ban is looked up and the member inserted in one
\* lock hold; joining twice is no error.
Join(u) ==
    /\ Request(u, "join") /\ u # Owner /\ u \notin banned
    /\ \E t \in Free : Start(t, NewTask("join", u, "announce", u))
    /\ members' = members \cup {u}
    /\ since' = [k \in Keys |-> IF k <= made THEN since[k] \cup {u} ELSE since[k]]
    /\ unrotated' = unrotated \ {u}
    /\ UNCHANGED <<banned, rows, pending, nameKey, client, inbox, made>>

\* kick_member, and ban_member, which also records the ban.  Their checks are
\* lock holds of their own; roles do not change here, so they are taken with
\* the deletion.
Remove(c, u, ban) ==
    /\ Request(c, IF ban THEN "ban" ELSE "kick") /\ MayRemove(c, u)
    /\ \E t \in Free : Start(t, NewTask("kick", c, "announce", u))
    /\ members' = members \ {u}
    /\ rows' = [rows EXCEPT ![u] = Empty]
    /\ banned' = IF ban THEN banned \cup {u} ELSE banned
    /\ unrotated' = IF u \in members THEN unrotated \cup {u} ELSE unrotated
    /\ UNCHANGED <<pending, nameKey, client, inbox, made, since>>

Kick(c, u) == Remove(c, u, FALSE)
Ban(c, u) == Remove(c, u, TRUE)

\* leave_server of a user who is not the owner: events for and about the user
\* go as well.
Leave(u) ==
    /\ Request(u, "leave") /\ u # Owner
    /\ \E t \in Free : Start(t, NewTask("leave", u, "announce", u))
    /\ members' = members \ {u}
    /\ rows' = [rows EXCEPT ![u] = Empty]
    /\ pending' = [v \in Users |-> IF v = u THEN {}
                                   ELSE {e \in pending[v] : e.user # u}]
    /\ unrotated' = IF u \in members THEN unrotated \cup {u} ELSE unrotated
    /\ UNCHANGED <<banned, nameKey, client, inbox, made, since>>

Unban(c, u) ==
    /\ Request(c, "unban") /\ c \in {Owner} \cup (Mods \cap members)
    /\ banned' = banned \ {u}
    /\ UNCHANGED <<members, rows, pending, nameKey, client, inbox, tasks, history>>

\* The rest of these handlers: the broadcast, to the removed user as well, ...
Announce(t) ==
    /\ At(t, "announce")
    /\ LET task == tasks[t]
           joined == task.kind = "join"
           to == IF joined THEN members \ {task.who} ELSE members \cup {task.who}
       IN /\ Broadcast(to, IF joined THEN "joined" ELSE "removed", task.who)
          /\ tasks' = [tasks EXCEPT ![t].pc = "pend", ![t].to = to]
    /\ UNCHANGED <<database, client, history, bounds>>

\* ... then events for those who are not connected: after a join for every
\* member, after a leave for the owner, after a kick for the caller.  The page
\* that joined now begins to ask for the key.
PendJoined(t) ==
    /\ At(t, "pend") /\ tasks[t].kind = "join"
    /\ Pend(tasks[t].to, "needed", tasks[t].who)
    /\ tasks' = [tasks EXCEPT ![t] = NewTask("try", tasks[t].user, "list", tasks[t].user)]
    /\ UNCHANGED <<members, banned, rows, nameKey, client, inbox, history, bounds>>

PendRemoved(t) ==
    /\ At(t, "pend") /\ tasks[t].kind \in {"kick", "leave"}
    /\ Pend({IF tasks[t].kind = "kick" THEN tasks[t].user ELSE Owner},
            "removed", tasks[t].who)
    /\ Finish(t)
    /\ UNCHANGED <<members, banned, rows, nameKey, client, inbox, history, bounds>>

-----------------------------------------------------------------------------
(* Pages and sockets. *)

\* The page is loaded: loadServers runs while the socket connects.
OpenPage(u) ==
    /\ u \notin page
    /\ page' = page \cup {u}
    /\ \E t \in Free : Start(t, NewTask("load", u, "list", u))
    /\ UNCHANGED <<database, ring, loaded, timer, socket, inbox, history, bounds>>

\* handle_socket: auth_ok, on which the page sets a timer; pending events, which
\* are taken and sent before the connection is registered.  (They are sent in
\* an arbitrary order: created_at has seconds.)
Replay(u) ==
    /\ u \in page /\ socket[u] = "none"
    /\ \E s \in [1..Cardinality(pending[u]) -> pending[u]] :
         /\ Range(s) = pending[u]
         /\ inbox' = [inbox EXCEPT ![u] = @ \o s]
    /\ pending' = [pending EXCEPT ![u] = {}]
    /\ socket' = [socket EXCEPT ![u] = "replayed"]
    /\ timer' = timer \cup {u}
    /\ UNCHANGED <<members, banned, rows, nameKey, ring, page, loaded, tasks,
                   history, bounds>>

\* add_connection.
Register(u) ==
    /\ socket[u] = "replayed"
    /\ socket' = [socket EXCEPT ![u] = "online"]
    /\ UNCHANGED <<database, ring, page, loaded, timer, inbox, tasks, history, bounds>>

\* The socket fails, with what was sent on it; the page reconnects.
Failure(u) == u \in Dropping /\ ops < MaxOps /\ ops' = ops + 1 /\ failed' = TRUE

Disconnect(u) ==
    /\ Failure(u) /\ socket[u] # "none"
    /\ socket' = [socket EXCEPT ![u] = "none"]
    /\ inbox' = [inbox EXCEPT ![u] = <<>>]
    /\ UNCHANGED <<database, ring, page, loaded, timer, tasks, history>>

\* The page is closed.  The insert of a key follows its check without an await,
\* so that a request is not cancelled between the two.
ClosePage(u) ==
    /\ Failure(u) /\ u \in page
    /\ \A t \in TaskIds : Busy(t) /\ tasks[t].user = u => tasks[t].pc # "save"
    /\ page' = page \ {u} /\ loaded' = loaded \ {u} /\ timer' = timer \ {u}
    /\ socket' = [socket EXCEPT ![u] = "none"]
    /\ inbox' = [inbox EXCEPT ![u] = <<>>]
    /\ tasks' = [t \in TaskIds |-> IF Busy(t) /\ tasks[t].user = u THEN Idle ELSE tasks[t]]
    /\ UNCHANGED <<database, ring, history>>

-----------------------------------------------------------------------------
(* ws.onmessage. *)

Receive(u, type) ==
    /\ inbox[u] # <<>> /\ Head(inbox[u]).type = type
    /\ inbox' = [inbox EXCEPT ![u] = Tail(@)]
    /\ UNCHANGED <<database, page, loaded, timer, socket, bounds>>

Owns(u) == u = Owner /\ u \in loaded    \* servers.some(s => s.is_owner)

\* _serverKeyFetchInFlight: one such request of a page at a time.
Fetching(u) == \E t \in TaskIds :
    /\ Busy(t) /\ tasks[t].user = u /\ tasks[t].kind \in {"ensure", "load"}
    /\ tasks[t].pc \in {"ask", "tell", "keep"}

\* ensureServerKey without force.
Ensure(u) ==
    IF ring[u] = Empty /\ ~Fetching(u)
    THEN \E t \in Free : Start(t, NewTask("ensure", u, "ask", u))
    ELSE UNCHANGED tasks

\* A page with the key uploads it for the user; without one it fetches its own.
\* The server refuses the uploads of all but the owner, so that theirs are no
\* steps.
OnNeeded(u) ==
    /\ Receive(u, "needed")
    /\ LET who == Head(inbox[u]).user IN
         IF who # u /\ ring[u] # Empty /\ u = Owner
         THEN \E t \in Free : Start(t, NewTask("share", u, "recipient", who))
         ELSE IF who # u THEN Ensure(u) ELSE UNCHANGED tasks
    /\ UNCHANGED <<ring, history>>

OnJoined(u) ==
    /\ Receive(u, "joined")
    /\ IF Owns(u)
       THEN \E t \in Free :
              Start(t, NewTask("share", u, "recipient", Head(inbox[u]).user))
       ELSE Ensure(u)
    /\ UNCHANGED <<ring, history>>

\* The owner's page generates a key, which becomes its current one.  A page
\* that learns that its own user was removed loads its servers again.
OnRemoved(u) ==
    /\ Receive(u, "removed")
    /\ IF Owns(u)
       THEN /\ made < MaxKeys
            /\ made' = made + 1
            /\ since' = [since EXCEPT ![made + 1] = members]
            /\ unrotated' = {}
            /\ ring' = [ring EXCEPT ![u] = Put(@, made + 1)]
            /\ \E t \in Free : Start(t, NewTask("rotate", u, "members", u))
       ELSE /\ IF Head(inbox[u]).user = u
               THEN \E t \in Free : Start(t, NewTask("load", u, "list", u))
               ELSE UNCHANGED tasks
            /\ UNCHANGED <<ring, history>>

OnRotated(u) ==
    /\ Receive(u, "rotated")
    /\ \E t \in Free : Start(t, NewTask("fetch", u, "ask", u))
    /\ UNCHANGED <<ring, history>>

-----------------------------------------------------------------------------
(* loadServers, and fetchAndDecryptServerKey with get_server_keys. *)

\* A key is missing, or stale: the server's name does not decrypt.
NeedsKey(u) == nameKey \notin Elements(ring[u])

AfterLoad(t) == IF tasks[t].user = Owner /\ ring[Owner] # Empty
                THEN Goto(t, "members") ELSE Finish(t)

List(t) ==
    /\ At(t, "list")
    /\ LET u == tasks[t].user IN
         /\ loaded' = IF u \in members THEN loaded \cup {u} ELSE loaded \ {u}
         /\ IF \/ tasks[t].kind = "try"
               \/ u \in members /\ NeedsKey(u) /\ ~Fetching(u)
            THEN Goto(t, "ask") ELSE AfterLoad(t)
    /\ UNCHANGED <<database, ring, page, timer, socket, inbox, history, bounds>>

\* A member gets the rows; one without a row, where others have some, makes the
\* server ask the members for the key.
AskSilently(t) ==   \* mutant: the members are not asked
    /\ At(t, "ask")
    /\ LET u == tasks[t].user
           got == IF u \in members THEN rows[u] ELSE Empty
       IN tasks' = [tasks EXCEPT ![t].pc = "keep", ![t].keys = got]
    /\ UNCHANGED <<database, client, inbox, history, bounds>>
Ask(t) ==
    /\ At(t, "ask")
    /\ LET u == tasks[t].user
           needed == /\ u \in members /\ rows[u] = Empty
                     /\ \E v \in Users : rows[v] # Empty
           got == IF u \in members THEN rows[u] ELSE Empty
       IN IF needed
          THEN /\ Broadcast(members, "needed", u)
               /\ tasks' = [tasks EXCEPT ![t].pc = "tell", ![t].to = members]
          ELSE /\ tasks' = [tasks EXCEPT ![t].pc = "keep", ![t].keys = got]
               /\ UNCHANGED inbox
    /\ UNCHANGED <<database, client, history, bounds>>

Tell(t) ==
    /\ At(t, "tell")
    /\ Pend(tasks[t].to, "needed", tasks[t].user)
    /\ tasks' = [tasks EXCEPT ![t].pc = "keep", ![t].keys = Empty]
    /\ UNCHANGED <<members, banned, rows, nameKey, client, inbox, history, bounds>>

\* saveServerKey for every row in the order of the versions.  The page that has
\* joined asks again while it gets nothing.
Keep(t) ==
    /\ At(t, "keep")
    /\ LET task == tasks[t] IN
         /\ \E saved \in PutAll(ring[task.user], task.keys) :
              ring' = [ring EXCEPT ![task.user] = saved]
         /\ IF task.kind = "try" /\ task.keys = Empty /\ task.tries > 1
            THEN tasks' = [tasks EXCEPT ![t].pc = "ask", ![t].tries = @ - 1]
            ELSE IF task.kind = "load" /\ task.user = Owner /\ ring'[Owner] # Empty
            THEN Goto(t, "members") ELSE Finish(t)
    /\ UNCHANGED <<database, page, loaded, timer, socket, inbox, history, bounds>>

\* The timer of auth_ok: the keys are looked at again.
Resync(u) ==
    /\ u \in timer /\ timer' = timer \ {u}
    /\ IF u \in loaded /\ NeedsKey(u) /\ ~Fetching(u)
       THEN \E t \in Free : Start(t, NewTask("ensure", u, "ask", u))
       ELSE UNCHANGED tasks
    /\ UNCHANGED <<database, ring, page, loaded, socket, inbox, history, bounds>>

-----------------------------------------------------------------------------
(* rotateServerKey, uploadServerKeyForUser, uploadServerKeysForOwnedServers. *)

BeginUpload(t, keys, us) ==
    IF keys = Empty \/ us = {} THEN Finish(t)
    ELSE tasks' = [tasks EXCEPT ![t].pc = "upload", ![t].keys = keys,
                                ![t].to = us, ![t].all = us]

\* A rotation uploads every key to every member (getAllServerKeys: the current
\* key, then the older ones), a reload of the servers the current key to the
\* others.
Members(t) ==
    /\ At(t, "members")
    /\ LET u == tasks[t].user IN
         IF tasks[t].kind = "rotate"
         THEN BeginUpload(t, ring[u], members)
         ELSE BeginUpload(t, Put(Empty, ring[u].last), members \ {u})
    /\ UNCHANGED <<database, client, inbox, history, bounds>>

\* A new member is sent every key.
Recipient(t) ==
    /\ At(t, "recipient")
    /\ BeginUpload(t, ring[tasks[t].user], {tasks[t].who})
    /\ UNCHANGED <<database, client, inbox, history, bounds>>

\* On to the next user, the next key, the end.
Advance(t, u) ==
    LET task == tasks[t] IN
      IF task.to # {u}
      THEN tasks' = [tasks EXCEPT ![t].pc = "upload", ![t].to = @ \ {u}]
      ELSE IF task.keys.old # {}
      THEN \E k \in task.keys.old :
             tasks' = [tasks EXCEPT ![t].pc = "upload", ![t].to = task.all,
                                    ![t].keys = [old |-> @.old \ {k}, last |-> k]]
      ELSE IF task.kind = "rotate" THEN Goto(t, "publish") ELSE Finish(t)

\* upload_server_key: the checks, in two lock holds of their own, ...
MayUploadToAnyone(c, u) == c = Owner \/ c = u   \* mutant: no test of membership
MayUpload(c, u) == (c = Owner \/ c = u) /\ u \in members

Upload(t, u) ==
    /\ At(t, "upload") /\ u \in tasks[t].to
    /\ IF MayUpload(tasks[t].user, u)
       THEN tasks' = [tasks EXCEPT ![t].pc = "save", ![t].who = u]
       ELSE Advance(t, u)
    /\ UNCHANGED <<database, client, inbox, history, bounds>>

\* ... then save_server_key, with the highest version.
Save(t) ==
    /\ At(t, "save")
    /\ LET u == tasks[t].who IN
         /\ rows' = [rows EXCEPT ![u] = Put(@, tasks[t].keys.last)]
         /\ Advance(t, u)
    /\ UNCHANGED <<members, banned, pending, nameKey, client, inbox, history, bounds>>

\* rotate_server_keys without entries: members are told to fetch.
Publish(t) ==
    /\ At(t, "publish")
    /\ Broadcast(members, "rotated", Owner)
    /\ Goto(t, "rename")
    /\ UNCHANGED <<database, client, history, bounds>>

\* The names are encrypted again with what is now the current key.
Rename(t) ==
    /\ At(t, "rename")
    /\ nameKey' = ring[tasks[t].user].last
    /\ Finish(t)
    /\ UNCHANGED <<members, banned, rows, pending, client, inbox, history, bounds>>

-----------------------------------------------------------------------------

MembershipStep ==
    \E u \in Users :
        \/ Join(u) \/ Leave(u)
        \/ \E c \in Users : Kick(c, u) \/ Ban(c, u) \/ Unban(c, u)

ConnectionStep ==
    \E u \in Users :
        \/ OpenPage(u) \/ Replay(u) \/ Register(u) \/ Resync(u)
        \/ Disconnect(u) \/ ClosePage(u)

EventStep ==
    \E u \in Users : OnNeeded(u) \/ OnJoined(u) \/ OnRemoved(u) \/ OnRotated(u)

HandlerStep ==
    \E t \in TaskIds :
        \/ Announce(t) \/ PendJoined(t) \/ PendRemoved(t)
        \/ List(t) \/ Ask(t) \/ Tell(t) \/ Keep(t)
        \/ Members(t) \/ Recipient(t) \/ \E u \in Users : Upload(t, u)
        \/ Save(t) \/ Publish(t) \/ Rename(t)

Next == MembershipStep \/ ConnectionStep \/ EventStep \/ HandlerStep

Spec == Init /\ [][Next]_vars

-----------------------------------------------------------------------------
(* Properties. *)

\* A key reaches only users who were members at some time since it was
\* generated, in the table as on their pages: a removed user gets no later key
\* from an upload that was under way (upload_server_key, get_server_keys).
KeysReachMembers ==
    \A u \in Users : \A k \in Elements(rows[u]) \cup Elements(ring[u]) :
        u \in since[k]

\* Nothing is under way, and the owner's page is there to serve requests.
Quiet ==
    /\ \A t \in TaskIds : ~Busy(t)
    /\ \A u \in Users : inbox[u] = <<>>
    /\ timer = {} /\ Connected(Owner) /\ pending[Owner] = {}

\* Once everything has settled, and no page or socket has failed, every member
\* has a key in the table, even if the owner's page was closed or about to
\* connect when they joined (join_server, get_server_keys, the replay of pending
\* events, uploadServerKeysForOwnedServers).
MembersSupplied == Quiet /\ ~failed => \A u \in members : rows[u] # Empty

\* Once everything has settled, the members' current key is not one that a
\* removed user holds (chat.js:12229 "Rotate the server key so the removed
\* member can't decrypt new messages.").
RotationEffective ==
    Quiet => \A u \in Users \ members : ring[Owner].last \notin Elements(ring[u])

\* While the owner's page is closed, a removal that nobody has answered with a
\* new key is kept for the owner once its handler has ended (handlers.rs:3080 "If
\* owner is offline, save a pending event so they rotate the key on reconnect").
RemovalSaved ==
    /\ unrotated # {} /\ Owner \notin page
    /\ \A t \in TaskIds : Busy(t) => tasks[t].kind \notin {"kick", "leave"}
    => \E e \in pending[Owner] : e.type = "removed"

=============================================================================
