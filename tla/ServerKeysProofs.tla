-------------------------- MODULE ServerKeysProofs --------------------------
(***************************************************************************)
(* Proofs about ServerKeys: where a key of the server can be, for any      *)
(* number of users, keys, handlers and requests.                           *)
(*                                                                         *)
(* KeysReachMembers speaks of the table and of the pages.  On their way    *)
(* between the two the keys are in handlers, and what protects them there  *)
(* is what was checked some steps ago: Holds says that keys fetched for a  *)
(* user, and a key about to be saved for one, were made while the user was *)
(* a member or before, although the user may have been removed since; and  *)
(* MembersHold why the check of upload_server_key is enough for that.      *)
(*                                                                         *)
(* MembersSupplied speaks of quiet states.  SInv says of every state who   *)
(* will supply a member without a key: an event for the owner's page, or a *)
(* task that serves the member or will have the owner asked.               *)
(***************************************************************************)
EXTENDS ServerKeys, FiniteSetTheorems, TLAPS

\* Keys are saved one at a time, so that there is a last one if there is any.
Sound(p) == p \in Pile /\ (p.last = 0 => p.old = {})

\* What is known of the keys that task x has with it.
Holds(x) ==
    /\ x \in Task /\ Sound(x.keys)
    /\ Elements(x.keys) \subseteq 1..made
    /\ x.pc = "keep" => \A k \in Elements(x.keys) : x.user \in since[k]
    /\ x.pc \in {"upload", "save"} => x.keys.last # 0
    /\ x.pc = "save" => x.who \in since[x.keys.last]
    /\ x.pc \in {"publish", "rename"} => x.kind = "rotate"
    /\ x.kind = "rotate" => ring[x.user].last # 0

TasksHold ==
    /\ tasks \in [TaskIds -> Task \cup {Idle}]
    /\ \A t \in TaskIds : tasks[t] = Idle \/ Holds(tasks[t])

KeysTyped ==
    /\ made \in Keys /\ since \in [Keys -> SUBSET Users]
    /\ rows \in [Users -> Pile] /\ ring \in [Users -> Pile]
    /\ \A u \in Users : Sound(rows[u]) /\ Sound(ring[u])

\* A member was a member since every key was made, or was let in since; a key
\* that is not made yet has reached nobody.
MembersHold ==
    /\ members \subseteq Users /\ Owner \in members
    /\ \A u \in members, k \in 1..made : u \in since[k]
    /\ \A k \in Keys : k > made => since[k] = {}

EventsTyped == inbox \in [Users -> Seq(Event)] /\ pending \in [Users -> SUBSET Event]

RestTyped ==
    /\ banned \subseteq Users /\ nameKey \in Keys
    /\ page \subseteq Users /\ loaded \subseteq Users /\ timer \subseteq Users
    /\ socket \in [Users -> {"none", "replayed", "online"}]
    /\ ops \in 0..MaxOps /\ failed \in BOOLEAN /\ unrotated \subseteq Users

IInv ==
    /\ KeysTyped /\ MembersHold /\ KeysReachMembers /\ TasksHold
    /\ EventsTyped /\ RestTyped

-----------------------------------------------------------------------------
(* Piles of keys *)

\* A pile holds what was put on it, and its last key is one of them.
LEMMA PutFacts ==
    ASSUME NEW p \in Pile, NEW k \in Keys
    PROVE  Sound(Put(p, k)) /\ Elements(Put(p, k)) = Elements(p) \cup {k}
BY BoundAssumption DEF Put, Pile, Sound, Elements, Keys

LEMMA EmptyFacts == Sound(Empty) /\ Elements(Empty) = {}
BY BoundAssumption DEF Empty, Pile, Sound, Elements, Keys

LEMMA PutAllFacts ==
    ASSUME NEW p, NEW q, Sound(p), Sound(q), NEW s \in PutAll(p, q)
    PROVE  /\ Sound(s) /\ Elements(s) = Elements(p) \cup Elements(q)
           /\ p.last # 0 => s.last # 0
<1>0. p \in Pile /\ q \in Pile /\ Keys = 1..MaxKeys /\ MaxKeys \in Nat \ {0}
  BY BoundAssumption DEF Sound, Keys
<1>1. CASE q = Empty
  BY <1>1, EmptyFacts DEF PutAll
<1>2. CASE q # Empty
  <2>1. PICK again \in {{}, {q.last}} :
            s = [old |-> Elements(p) \cup q.old \cup again, last |-> q.last]
    BY <1>2 DEF PutAll
  <2>2. q.last # 0
    BY <1>0, <1>2 DEF Sound, Pile, Empty
  <2>3. /\ s.old = Elements(p) \cup q.old \cup again /\ s.last = q.last
        /\ q.last \in Keys /\ q.old \subseteq Keys /\ Elements(p) \subseteq Keys
    BY <1>0, <2>1, <2>2 DEF Pile, Elements
  <2>4. s \in Pile
    BY <2>1, <2>3, <1>0 DEF Pile
  <2> QED BY <1>0, <2>2, <2>3, <2>4 DEF Sound, Elements, Pile
<1> QED BY <1>1, <1>2

-----------------------------------------------------------------------------
(* Steps that move no key *)

\* What is known of a task stays true while keys are made and members join.
Grows ==
    /\ made' \in Keys /\ made \leq made'
    /\ \A k \in Keys : since[k] \subseteq since'[k]
    /\ \A u \in Users : ring[u].last # 0 => ring'[u].last # 0

\* What a task may hold, it may hold later: members come and go, and no key
\* that was made is unmade.
LEMMA HoldsLater ==
    ASSUME KeysTyped, Grows, NEW x, Holds(x)
    PROVE  Holds(x)'
<1>1. x \in Task /\ x.keys \in Pile /\ x.user \in Users /\ x.keys.last \in 0..MaxKeys
  BY DEF Holds, Task, Sound, Pile
<1>2. Elements(x.keys) \subseteq Keys /\ Elements(x.keys) \subseteq 1..made'
  BY <1>1, BoundAssumption DEF Elements, Pile, Keys, Grows, Holds, KeysTyped
<1>3. x.keys.last # 0 => x.keys.last \in Keys
  BY <1>1, BoundAssumption DEF Keys
<1> QED BY <1>1, <1>2, <1>3 DEF Holds, Grows

\* Tasks end, begin, or go on with keys that are theirs to have.
LEMMA TasksKeep ==
    ASSUME IInv, Grows, tasks' \in [TaskIds -> Task \cup {Idle}],
           \A t \in TaskIds : \/ tasks'[t] \in {tasks[t], Idle}
                              \/ \E x \in Task : tasks'[t] = x /\ Holds(x)'
    PROVE  TasksHold'
<1>1. KeysTyped /\ TasksHold
  BY DEF IInv
<1>2. ASSUME NEW t \in TaskIds PROVE (tasks[t] = Idle \/ Holds(tasks[t]))'
  <2>1. PICK x : x = tasks'[t]
    OBVIOUS
  <2>2. x = Idle \/ Holds(x)'
    <3>1. CASE x = tasks[t]
      <4>1. x = Idle \/ Holds(x)
        BY <1>1, <3>1 DEF TasksHold
      <4> QED BY <1>1, <4>1, HoldsLater
    <3> QED BY <2>1, <3>1
  <2> QED BY <2>1, <2>2 DEF Holds
<1> QED BY <1>2 DEF TasksHold

\* A handler starts, goes on or ends: the others hold what they held.
LEMMA OneTask ==
    ASSUME IInv, Grows, NEW t \in TaskIds, NEW x, x = Idle \/ Holds(x)',
           tasks' = [tasks EXCEPT ![t] = x]
    PROVE  TasksHold'
<1>1. tasks \in [TaskIds -> Task \cup {Idle}] /\ x \in Task \cup {Idle}
  BY DEF IInv, TasksHold, Holds
<1>2. tasks' \in [TaskIds -> Task \cup {Idle}] /\ tasks'[t] = x
      /\ \A s \in TaskIds : s # t => tasks'[s] = tasks[s]
  BY <1>1
<1>3. \A s \in TaskIds : \/ tasks'[s] \in {tasks[s], Idle}
                         \/ \E y \in Task : tasks'[s] = y /\ Holds(y)'
  BY <1>1, <1>2 DEF Holds
<1> QED BY <1>2, <1>3, TasksKeep

\* No key goes anywhere, and nobody becomes a member.
LEMMA KeysKept ==
    ASSUME IInv, UNCHANGED <<made, since, ring>>,
           members' \subseteq members, Owner \in members',
           rows' \in [Users -> Pile],
           \A u \in Users : rows'[u] \in {rows[u], Empty}
    PROVE  KeysTyped' /\ MembersHold' /\ KeysReachMembers' /\ Grows
<1>1. KeysTyped'
  BY EmptyFacts DEF IInv, KeysTyped
<1>2. MembersHold' /\ Grows
  BY DEF IInv, KeysTyped, MembersHold, Grows, Keys
<1>3. KeysReachMembers'
  BY EmptyFacts DEF IInv, KeysReachMembers
<1> QED BY <1>1, <1>2, <1>3

\* The same, when only handlers and events change.
LEMMA KeysRest ==
    ASSUME IInv, UNCHANGED <<made, since, ring, members, rows>>
    PROVE  KeysTyped' /\ MembersHold' /\ KeysReachMembers' /\ Grows
BY KeysKept DEF IInv, KeysTyped, MembersHold

\* A task that begins has no keys yet.
LEMMA NewHolds ==
    ASSUME IInv, KeysTyped', Grows, NEW kind \in Kinds \ {"rotate"}, NEW u \in Users,
           NEW w \in Users, NEW pc \in {"announce", "list", "ask", "recipient"}
    PROVE  Holds(NewTask(kind, u, pc, w))'
<1>1. PICK x : x = NewTask(kind, u, pc, w)
  OBVIOUS
<1>2. /\ x \in Task /\ x.keys = Empty /\ x.pc = pc /\ x.kind = kind
  <2>1. Empty \in Pile /\ pc \in Places /\ (IF kind = "try" THEN MaxTries ELSE 1) \in 0..MaxTries
    BY EmptyFacts, BoundAssumption DEF Sound, Places
  <2> QED BY <1>1, <2>1 DEF NewTask, Task
<1>3. Holds(x)'
  BY <1>2, EmptyFacts DEF Holds
<1> QED BY <1>1, <1>3

-----------------------------------------------------------------------------
(* Tasks and events *)

LEMMA BusyFacts ==
    ASSUME IInv, NEW t \in TaskIds, Busy(t)
    PROVE  \E y \in Task : y = tasks[t] /\ Holds(y)
BY DEF IInv, TasksHold, Busy, Holds

\* A task goes on to a place where its keys do not matter.
LEMMA GoesOn ==
    ASSUME IInv, Grows, NEW y \in Task, Holds(y), NEW x \in Task,
           x.keys = y.keys, x.user = y.user, x.kind = y.kind,
           x.pc \notin {"keep", "upload", "save", "publish", "rename"}
    PROVE  Holds(x)'
<1>1. Holds(x)
  BY DEF Holds
<1> QED BY <1>1, HoldsLater DEF IInv

\* Events name users and have one of the known types.
LEMMA BroadcastTyped ==
    ASSUME EventsTyped, NEW S, NEW type \in EventTypes, NEW w \in Users,
           Broadcast(S, type, w)
    PROVE  inbox' \in [Users -> Seq(Event)]
<1>1. PICK e \in Event : e = [type |-> type, user |-> w]
  BY DEF Event
<1>2. \A u \in Users : inbox[u] \in Seq(Event) /\ Append(inbox[u], e) \in Seq(Event)
  BY DEF EventsTyped
<1>3. inbox' = [u \in Users |-> IF u \in S /\ Connected(u) THEN Append(inbox[u], e)
                                ELSE inbox[u]]
  BY <1>1 DEF Broadcast
<1> QED BY <1>2, <1>3

LEMMA PendTyped ==
    ASSUME EventsTyped, NEW S, NEW type \in EventTypes, NEW w \in Users, Pend(S, type, w)
    PROVE  pending' \in [Users -> SUBSET Event]
<1>1. PICK e \in Event : e = [type |-> type, user |-> w]
  BY DEF Event
<1>2. pending' = [u \in Users |-> IF u \in S /\ ~Connected(u) THEN pending[u] \cup {e}
                                  ELSE pending[u]]
  BY <1>1 DEF Pend
<1> QED BY <1>2 DEF EventsTyped

\* A task begins.
LEMMA Starts ==
    ASSUME IInv, KeysTyped', Grows, NEW kind \in Kinds \ {"rotate"}, NEW u \in Users,
           NEW w \in Users, NEW pc \in {"announce", "list", "ask", "recipient"},
           \E t \in Free : Start(t, NewTask(kind, u, pc, w))
    PROVE  TasksHold'
<1>1. PICK t \in TaskIds : tasks' = [tasks EXCEPT ![t] = NewTask(kind, u, pc, w)]
  BY DEF Free, Start
<1>2. PICK x : x = NewTask(kind, u, pc, w)
  OBVIOUS
<1>3. Holds(x)'
  BY <1>2, NewHolds
<1> QED BY <1>1, <1>2, <1>3, OneTask

LEMMA SameTasks ==
    ASSUME IInv, Grows, UNCHANGED tasks
    PROVE  TasksHold'
BY TasksKeep DEF IInv, TasksHold

-----------------------------------------------------------------------------
(* Membership *)

LEMMA RequestFacts ==
    ASSUME IInv, NEW u, NEW kind, Request(u, kind)
    PROVE  ops' \in 0..MaxOps /\ failed' = failed
BY BoundAssumption DEF Request, IInv, RestTyped

\* The steps keep IInv, one lemma for each.
LEMMA JoinKeeps ==
    ASSUME IInv, NEW u \in Users, Join(u)
    PROVE  IInv'
<1>0. /\ KeysTyped /\ MembersHold /\ KeysReachMembers /\ EventsTyped /\ RestTyped
      /\ UNCHANGED <<banned, rows, pending, nameKey, client, inbox, made>>
      /\ members' = members \cup {u} /\ unrotated' = unrotated \ {u}
      /\ since' = [k \in Keys |-> IF k <= made THEN since[k] \cup {u} ELSE since[k]]
      /\ ops' \in 0..MaxOps /\ failed' = failed
  BY RequestFacts DEF IInv, Join
<1>1. UNCHANGED <<ring, page, loaded, timer, socket>>
  BY <1>0 DEF client
<1>2. since' \in [Keys -> SUBSET Users] /\ \A k \in Keys : since[k] \subseteq since'[k]
  BY <1>0 DEF KeysTyped
<1>3. KeysTyped' /\ Grows
  BY <1>0, <1>1, <1>2 DEF KeysTyped, Grows, Keys
<1>4. MembersHold'
  <2>1. made \in Keys /\ Keys = 1..MaxKeys /\ MaxKeys \in Nat
    BY <1>0, BoundAssumption DEF KeysTyped, Keys
  <2>2. ASSUME NEW v \in members', NEW k \in 1..made PROVE v \in since'[k]
    <3>1. k \in Keys /\ k <= made
      BY <2>1
    <3>2. v \in members => v \in since[k]
      BY <1>0 DEF MembersHold
    <3> QED BY <1>0, <3>1, <3>2
  <2>3. ASSUME NEW k \in Keys, k > made PROVE since'[k] = {}
    BY <1>0, <2>1, <2>3 DEF MembersHold
  <2> QED BY <1>0, <2>2, <2>3 DEF MembersHold
<1>5. KeysReachMembers'
  <2>1. ASSUME NEW v \in Users, NEW k \in Elements(rows[v]) \cup Elements(ring[v])
        PROVE  v \in since'[k]
    <3>1. v \in since[k]
      BY <1>0 DEF KeysReachMembers
    <3>2. k \in Keys
      BY <1>0, BoundAssumption DEF KeysTyped, Pile, Elements, Keys
    <3> QED BY <1>2, <3>1, <3>2
  <2> QED BY <1>0, <1>1, <2>1 DEF KeysReachMembers
<1>6. TasksHold'
  BY <1>3, Starts DEF Join, Kinds, HandlerKinds
<1>7. EventsTyped' /\ RestTyped'
  BY <1>0, <1>1 DEF EventsTyped, RestTyped
<1> QED BY <1>3, <1>4, <1>5, <1>6, <1>7 DEF IInv

LEMMA RemoveKeeps ==
    ASSUME IInv, NEW c \in Users, NEW u \in Users, NEW ban \in BOOLEAN, Remove(c, u, ban)
    PROVE  IInv'
<1>0. /\ KeysTyped /\ MembersHold /\ EventsTyped /\ RestTyped /\ u # Owner
      /\ UNCHANGED <<pending, nameKey, client, inbox, made, since>>
      /\ members' = members \ {u} /\ rows' = [rows EXCEPT ![u] = Empty]
      /\ banned' \in {banned, banned \cup {u}} /\ unrotated' \in {unrotated, unrotated \cup {u}}
      /\ ops' \in 0..MaxOps /\ failed' = failed
  BY RequestFacts DEF IInv, Remove, MayRemove
<1>1. UNCHANGED <<ring, page, loaded, timer, socket>>
  BY <1>0 DEF client
<1>2. rows' \in [Users -> Pile] /\ \A v \in Users : rows'[v] \in {rows[v], Empty}
  BY <1>0, EmptyFacts DEF KeysTyped, Sound
<1>3. KeysTyped' /\ MembersHold' /\ KeysReachMembers' /\ Grows
  BY <1>0, <1>1, <1>2, KeysKept DEF MembersHold
<1>4. TasksHold'
  BY <1>3, Starts DEF Remove, Kinds, HandlerKinds
<1>5. EventsTyped' /\ RestTyped'
  BY <1>0, <1>1 DEF EventsTyped, RestTyped
<1> QED BY <1>3, <1>4, <1>5 DEF IInv

LEMMA LeaveKeeps ==
    ASSUME IInv, NEW u \in Users, Leave(u)
    PROVE  IInv'
<1>0. /\ KeysTyped /\ MembersHold /\ EventsTyped /\ RestTyped /\ u # Owner
      /\ UNCHANGED <<banned, nameKey, client, inbox, made, since>>
      /\ members' = members \ {u} /\ rows' = [rows EXCEPT ![u] = Empty]
      /\ unrotated' \in {unrotated, unrotated \cup {u}}
      /\ ops' \in 0..MaxOps /\ failed' = failed
  BY RequestFacts DEF IInv, Leave
<1>1. UNCHANGED <<ring, page, loaded, timer, socket>>
  BY <1>0 DEF client
<1>2. rows' \in [Users -> Pile] /\ \A v \in Users : rows'[v] \in {rows[v], Empty}
  BY <1>0, EmptyFacts DEF KeysTyped, Sound
<1>3. KeysTyped' /\ MembersHold' /\ KeysReachMembers' /\ Grows
  BY <1>0, <1>1, <1>2, KeysKept DEF MembersHold
<1>4. TasksHold'
  BY <1>3, Starts DEF Leave, Kinds, HandlerKinds
<1>5. pending' \in [Users -> SUBSET Event]
  BY <1>0 DEF Leave, EventsTyped
<1>6. EventsTyped' /\ RestTyped'
  BY <1>0, <1>1, <1>5 DEF EventsTyped, RestTyped
<1> QED BY <1>3, <1>4, <1>6 DEF IInv

LEMMA UnbanKeeps ==
    ASSUME IInv, NEW c, NEW u, Unban(c, u)
    PROVE  IInv'
<1>0. /\ EventsTyped /\ RestTyped /\ banned' \subseteq banned
      /\ UNCHANGED <<members, rows, pending, nameKey, client, inbox, tasks, history>>
      /\ ops' \in 0..MaxOps /\ failed' = failed
  BY RequestFacts DEF IInv, Unban
<1>1. UNCHANGED <<ring, page, loaded, timer, socket, made, since, unrotated>>
  BY <1>0 DEF client, history
<1>2. KeysTyped' /\ MembersHold' /\ KeysReachMembers' /\ Grows
  BY <1>0, <1>1, KeysRest
<1>3. TasksHold'
  BY <1>0, <1>2, SameTasks
<1>4. EventsTyped' /\ RestTyped'
  BY <1>0, <1>1 DEF EventsTyped, RestTyped
<1> QED BY <1>2, <1>3, <1>4 DEF IInv

-----------------------------------------------------------------------------
(* Handlers that move no key *)

KeyVars == <<made, since, ring, members, rows>>

\* A step of a handler that touches no key.
LEMMA Handled ==
    ASSUME IInv, UNCHANGED <<KeyVars, banned, nameKey, page, loaded, timer, socket,
                             ops, failed, unrotated>>,
           TasksHold', EventsTyped'
    PROVE  IInv'
<1>1. KeysTyped' /\ MembersHold' /\ KeysReachMembers'
  BY KeysRest DEF KeyVars
<1>2. RestTyped'
  BY DEF IInv, RestTyped
<1> QED BY <1>1, <1>2 DEF IInv

LEMMA AnnounceKeeps ==
    ASSUME IInv, NEW t \in TaskIds, Announce(t)
    PROVE  IInv'
<1>0. /\ UNCHANGED <<KeyVars, banned, nameKey, page, loaded, timer, socket, ops, failed,
                     unrotated, pending>>
      /\ EventsTyped /\ members \subseteq Users
  BY DEF Announce, database, client, history, bounds, KeyVars, IInv, MembersHold
<1>1. Grows
  BY <1>0, KeysRest DEF KeyVars
<1>2. PICK y \in Task : y = tasks[t] /\ Holds(y)
  BY BusyFacts DEF Announce, At
<1>3. PICK to \in SUBSET Users, type \in {"joined", "removed"} :
          Broadcast(to, type, y.who) /\ tasks' = [tasks EXCEPT ![t].pc = "pend", ![t].to = to]
  <2>1. y.who \in Users
    BY DEF Task
  <2> QED BY <1>0, <1>2, <2>1 DEF Announce
<1>4. PICK x : x = [y EXCEPT !.pc = "pend", !.to = to]
  OBVIOUS
<1>5. x \in Task /\ x.keys = y.keys /\ x.user = y.user /\ x.kind = y.kind /\ x.pc = "pend"
  BY <1>4 DEF Task, Places
<1>6. tasks' = [tasks EXCEPT ![t] = x]
  BY <1>2, <1>3, <1>4 DEF IInv, TasksHold
<1>7. TasksHold'
  BY <1>1, <1>2, <1>5, <1>6, GoesOn, OneTask
<1>8. y.who \in Users /\ type \in EventTypes
  BY DEF Task, EventTypes
<1>9. EventsTyped'
  BY <1>0, <1>3, <1>8, BroadcastTyped DEF EventsTyped
<1> QED BY <1>0, <1>7, <1>9, Handled

LEMMA PendJoinedKeeps ==
    ASSUME IInv, NEW t \in TaskIds, PendJoined(t)
    PROVE  IInv'
<1>0. /\ UNCHANGED <<KeyVars, banned, nameKey, page, loaded, timer, socket, ops, failed,
                     unrotated, inbox>>
      /\ EventsTyped /\ Owner \in Users
  BY UserAssumption DEF PendJoined, client, history, bounds, KeyVars, IInv
<1>1. Grows /\ KeysTyped'
  BY <1>0, KeysRest DEF KeyVars
<1>2. PICK y \in Task : y = tasks[t] /\ Holds(y)
  BY BusyFacts DEF PendJoined, At
<1>3. y.user \in Users /\ y.who \in Users /\ "try" \in Kinds \ {"rotate"}
      /\ "needed" \in EventTypes
  BY DEF Task, Kinds, FetchKinds, EventTypes
<1>4. PICK x : x = NewTask("try", y.user, "list", y.user)
  OBVIOUS
<1>5. Holds(x)'
  BY <1>1, <1>3, <1>4, NewHolds
<1>6. tasks' = [tasks EXCEPT ![t] = x]
  BY <1>2, <1>4 DEF PendJoined
<1>7. TasksHold'
  BY <1>1, <1>5, <1>6, OneTask
<1>8. pending' \in [Users -> SUBSET Event]
  BY <1>0, <1>2, <1>3, PendTyped DEF PendJoined
<1> QED BY <1>0, <1>7, <1>8, Handled DEF EventsTyped

LEMMA PendRemovedKeeps ==
    ASSUME IInv, NEW t \in TaskIds, PendRemoved(t)
    PROVE  IInv'
<1>0. /\ UNCHANGED <<KeyVars, banned, nameKey, page, loaded, timer, socket, ops, failed,
                     unrotated, inbox>>
      /\ EventsTyped
  BY DEF PendRemoved, client, history, bounds, KeyVars, IInv
<1>1. Grows
  BY <1>0, KeysRest DEF KeyVars
<1>2. PICK y \in Task : y = tasks[t] /\ Holds(y)
  BY BusyFacts DEF PendRemoved, At
<1>3. y.who \in Users /\ "removed" \in EventTypes
  BY DEF Task, EventTypes
<1>4. tasks' = [tasks EXCEPT ![t] = Idle]
  BY DEF PendRemoved, Finish
<1>5. TasksHold'
  BY <1>1, <1>4, OneTask
<1>6. pending' \in [Users -> SUBSET Event]
  BY <1>0, <1>2, <1>3, PendTyped DEF PendRemoved
<1> QED BY <1>0, <1>5, <1>6, Handled DEF EventsTyped

\* A task is over, or goes to a place where its keys do not matter.
LEMMA Passes ==
    ASSUME IInv, Grows, NEW t \in TaskIds, Busy(t), NEW p \in {"ask", "members"},
           Goto(t, p) \/ Finish(t) \/ UNCHANGED tasks
    PROVE  TasksHold'
<1>1. PICK y \in Task : y = tasks[t] /\ Holds(y)
  BY BusyFacts
<1>2. CASE Goto(t, p)
  <2>1. PICK x : x = [y EXCEPT !.pc = p]
    OBVIOUS
  <2>2. x \in Task /\ x.keys = y.keys /\ x.user = y.user /\ x.kind = y.kind /\ x.pc = p
    BY <2>1 DEF Task, Places
  <2>3. tasks' = [tasks EXCEPT ![t] = x]
    BY <1>1, <1>2, <2>1 DEF Goto, IInv, TasksHold
  <2> QED BY <1>1, <2>2, <2>3, GoesOn, OneTask
<1>3. CASE Finish(t)
  BY <1>3, OneTask DEF Finish
<1>4. CASE UNCHANGED tasks
  BY <1>4, SameTasks
<1> QED BY <1>2, <1>3, <1>4

LEMMA ListKeeps ==
    ASSUME IInv, NEW t \in TaskIds, List(t)
    PROVE  IInv'
<1>0. /\ UNCHANGED <<KeyVars, banned, nameKey, page, timer, socket, ops, failed,
                     unrotated, inbox, pending>>
      /\ EventsTyped /\ RestTyped /\ Busy(t)
  BY DEF List, At, database, history, bounds, KeyVars, IInv
<1>1. KeysTyped' /\ MembersHold' /\ KeysReachMembers' /\ Grows
  BY <1>0, KeysRest DEF KeyVars
<1>2. \/ Goto(t, "ask") \/ Goto(t, "members") \/ Finish(t)
  BY DEF List, AfterLoad
<1>3. TasksHold'
  BY <1>0, <1>1, <1>2, Passes
<1>4. loaded' \subseteq Users
  <2>1. tasks[t].user \in Users
    BY <1>0, BusyFacts DEF Task
  <2> QED BY <1>0, <2>1 DEF List, RestTyped
<1>5. EventsTyped' /\ RestTyped'
  BY <1>0, <1>4 DEF EventsTyped, RestTyped
<1> QED BY <1>1, <1>3, <1>5 DEF IInv

\* The rows of a member are keys that may reach the member.
LEMMA AskKeeps ==
    ASSUME IInv, NEW t \in TaskIds, Ask(t)
    PROVE  IInv'
<1>0. /\ UNCHANGED <<KeyVars, banned, nameKey, page, loaded, timer, socket, ops, failed,
                     unrotated, pending>>
      /\ KeysTyped /\ MembersHold /\ KeysReachMembers /\ EventsTyped
  BY DEF Ask, database, client, history, bounds, KeyVars, IInv
<1>1. Grows
  BY <1>0, KeysRest DEF KeyVars
<1>2. PICK y \in Task : y = tasks[t] /\ Holds(y)
  BY BusyFacts DEF Ask, At
<1>3. y.user \in Users /\ "needed" \in EventTypes /\ members \subseteq Users
  BY <1>0 DEF Task, EventTypes, MembersHold
<1>4. CASE /\ Broadcast(members, "needed", y.user)
           /\ tasks' = [tasks EXCEPT ![t].pc = "tell", ![t].to = members]
  <2>1. PICK x : x = [y EXCEPT !.pc = "tell", !.to = members]
    OBVIOUS
  <2>2. x \in Task /\ x.keys = y.keys /\ x.user = y.user /\ x.kind = y.kind /\ x.pc = "tell"
    BY <1>3, <2>1 DEF Task, Places
  <2>3. tasks' = [tasks EXCEPT ![t] = x]
    BY <1>2, <1>4, <2>1 DEF IInv, TasksHold
  <2>4. TasksHold'
    BY <1>1, <1>2, <2>2, <2>3, GoesOn, OneTask
  <2>5. EventsTyped'
    BY <1>0, <1>3, <1>4, BroadcastTyped DEF EventsTyped
  <2> QED BY <1>0, <2>4, <2>5, Handled
<1>5. ASSUME NEW got \in {rows[y.user], Empty}, UNCHANGED inbox,
             tasks' = [tasks EXCEPT ![t].pc = "keep", ![t].keys = got]
      PROVE  IInv'
  <2>1. /\ Sound(got)
        /\ \A k \in Elements(got) : k \in Keys /\ y.user \in since[k] /\ k \in 1..made
    <3>1. \A k \in Elements(rows[y.user]) : k \in Keys /\ y.user \in since[k]
      BY <1>0, <1>3, BoundAssumption DEF KeysReachMembers, KeysTyped, Elements, Pile, Keys
    <3>2. \A k \in Keys : since[k] # {} => k \in 1..made
      BY <1>0, BoundAssumption DEF MembersHold, KeysTyped, Keys
    <3> QED BY <1>0, <1>3, <1>5, <3>1, <3>2, EmptyFacts DEF KeysTyped
  <2>2. PICK g : g = got
    OBVIOUS
  <2>3. PICK x : x = [y EXCEPT !.pc = "keep", !.keys = g]
    OBVIOUS
  <2>4. x \in Task /\ x.keys = g /\ x.user = y.user /\ x.kind = y.kind /\ x.pc = "keep"
    BY <2>1, <2>2, <2>3 DEF Task, Places, Sound
  <2>5. Holds(x)
    BY <1>2, <2>1, <2>2, <2>4 DEF Holds
  <2>6. Holds(x)'
    BY <1>0, <1>1, <2>5, HoldsLater
  <2>7. tasks' = [tasks EXCEPT ![t] = x]
    BY <1>2, <1>5, <2>2, <2>3 DEF IInv, TasksHold
  <2>8. TasksHold'
    BY <1>1, <2>6, <2>7, OneTask
  <2> QED BY <1>0, <1>5, <2>8, Handled DEF EventsTyped
<1> QED BY <1>2, <1>4, <1>5 DEF Ask

LEMMA TellKeeps ==
    ASSUME IInv, NEW t \in TaskIds, Tell(t)
    PROVE  IInv'
<1>0. /\ UNCHANGED <<KeyVars, banned, nameKey, page, loaded, timer, socket, ops, failed,
                     unrotated, inbox>>
      /\ EventsTyped /\ KeysTyped
  BY DEF Tell, client, history, bounds, KeyVars, IInv
<1>1. Grows
  BY <1>0, KeysRest DEF KeyVars
<1>2. PICK y \in Task : y = tasks[t] /\ Holds(y)
  BY BusyFacts DEF Tell, At
<1>3. y.user \in Users /\ "needed" \in EventTypes
  BY DEF Task, EventTypes
<1>4. PICK x : x = [y EXCEPT !.pc = "keep", !.keys = Empty]
  OBVIOUS
<1>5. x \in Task /\ x.keys = Empty /\ x.user = y.user /\ x.kind = y.kind /\ x.pc = "keep"
  BY <1>4, EmptyFacts DEF Task, Places, Sound
<1>6. Holds(x)
  BY <1>2, <1>5, EmptyFacts DEF Holds
<1>7. tasks' = [tasks EXCEPT ![t] = x]
  BY <1>2, <1>4 DEF Tell, IInv, TasksHold
<1>8. TasksHold'
  BY <1>0, <1>1, <1>6, <1>7, HoldsLater, OneTask
<1>9. pending' \in [Users -> SUBSET Event]
  BY <1>0, <1>2, <1>3, PendTyped DEF Tell
<1> QED BY <1>0, <1>8, <1>9, Handled DEF EventsTyped

-----------------------------------------------------------------------------
(* Keys that are fetched *)

\* A page saves keys that may reach its user.
LEMMA RingGains ==
    ASSUME IInv, UNCHANGED <<made, since, members, rows>>, NEW u \in Users, NEW s, Sound(s),
           \A k \in Elements(s) : u \in since[k], ring[u].last # 0 => s.last # 0,
           ring' = [ring EXCEPT ![u] = s]
    PROVE  KeysTyped' /\ MembersHold' /\ KeysReachMembers' /\ Grows
<1>1. KeysTyped /\ MembersHold /\ KeysReachMembers
  BY DEF IInv
<1>2. /\ ring' \in [Users -> Pile] /\ ring'[u] = s
      /\ \A v \in Users : v # u => ring'[v] = ring[v]
  BY <1>1 DEF KeysTyped, Sound
<1>3. KeysTyped'
  BY <1>1, <1>2 DEF KeysTyped
<1>4. MembersHold' /\ Grows
  BY <1>1, <1>2 DEF MembersHold, KeysTyped, Grows, Keys
<1>5. KeysReachMembers'
  BY <1>1, <1>2 DEF KeysReachMembers
<1> QED BY <1>3, <1>4, <1>5

LEMMA KeepKeeps ==
    ASSUME IInv, NEW t \in TaskIds, Keep(t)
    PROVE  IInv'
<1>0. /\ UNCHANGED <<made, since, members, rows, banned, nameKey, page, loaded, timer, socket,
                     ops, failed, unrotated, inbox, pending>>
      /\ KeysTyped /\ KeysReachMembers /\ EventsTyped /\ RestTyped
  BY DEF Keep, database, history, bounds, IInv
<1>1. PICK y \in Task : y = tasks[t] /\ Holds(y) /\ y.pc = "keep" /\ y.user \in Users
  BY BusyFacts DEF Keep, At, Task
<1>2. PICK saved \in PutAll(ring[y.user], y.keys) : ring' = [ring EXCEPT ![y.user] = saved]
  BY <1>1 DEF Keep
<1>3. /\ Sound(saved) /\ Elements(saved) = Elements(ring[y.user]) \cup Elements(y.keys)
      /\ ring[y.user].last # 0 => saved.last # 0
  BY <1>0, <1>1, PutAllFacts DEF KeysTyped, Holds
<1>4. \A k \in Elements(saved) : y.user \in since[k]
  BY <1>0, <1>1, <1>3 DEF KeysReachMembers, Holds
<1>5. KeysTyped' /\ MembersHold' /\ KeysReachMembers' /\ Grows
  BY <1>0, <1>1, <1>2, <1>3, <1>4, RingGains
<1>6. TasksHold'
  <2>1. CASE y.tries > 1 /\ tasks' = [tasks EXCEPT ![t].pc = "ask", ![t].tries = @ - 1]
    <3>1. PICK x : x = [y EXCEPT !.pc = "ask", !.tries = @ - 1]
      OBVIOUS
    <3>2. y.tries - 1 \in 0..MaxTries /\ "ask" \in Places
      BY <2>1, BoundAssumption DEF Task, Places
    <3>3. x \in Task /\ x.keys = y.keys /\ x.user = y.user /\ x.kind = y.kind /\ x.pc = "ask"
      BY <3>1, <3>2 DEF Task
    <3>4. tasks' = [tasks EXCEPT ![t] = x]
      BY <1>1, <2>1, <3>1 DEF IInv, TasksHold
    <3> QED BY <1>1, <1>5, <3>3, <3>4, GoesOn, OneTask
  <2>2. CASE Goto(t, "members") \/ Finish(t)
    BY <1>5, <2>2, Passes DEF Keep, At
  <2> QED BY <1>1, <2>1, <2>2 DEF Keep
<1>7. EventsTyped' /\ RestTyped'
  BY <1>0 DEF EventsTyped, RestTyped
<1> QED BY <1>5, <1>6, <1>7 DEF IInv

-----------------------------------------------------------------------------
(* Keys that are uploaded *)

\* Whoever uploads does it key by key, to the members of that moment.
LEMMA BeginsUpload ==
    ASSUME IInv, Grows, NEW t \in TaskIds, Busy(t), NEW keys, Sound(keys),
           \A k \in Elements(keys) : k \in 1..made, NEW us \in SUBSET Users,
           BeginUpload(t, keys, us)
    PROVE  TasksHold'
<1>1. PICK y \in Task : y = tasks[t] /\ Holds(y)
  BY BusyFacts
<1>2. CASE Finish(t)
  BY <1>2, OneTask DEF Finish
<1>3. CASE /\ keys # Empty
           /\ tasks' = [tasks EXCEPT ![t].pc = "upload", ![t].keys = keys, ![t].to = us,
                                     ![t].all = us]
  <2>1. PICK x : x = [y EXCEPT !.pc = "upload", !.keys = keys, !.to = us, !.all = us]
    OBVIOUS
  <2>2. x \in Task /\ x.keys = keys /\ x.user = y.user /\ x.kind = y.kind /\ x.pc = "upload"
    BY <2>1 DEF Task, Places, Sound
  <2>3. keys.last # 0
    BY <1>3 DEF Sound, Pile, Empty
  <2>4. Holds(x)
    BY <1>1, <2>2, <2>3 DEF Holds
  <2>5. tasks' = [tasks EXCEPT ![t] = x]
    BY <1>1, <1>3, <2>1 DEF IInv, TasksHold
  <2> QED BY <2>4, <2>5, HoldsLater, OneTask DEF IInv
<1> QED BY <1>2, <1>3 DEF BeginUpload

\* Nobody holds a key that is not made yet.
LEMMA RingMade ==
    ASSUME IInv, NEW u \in Users
    PROVE  Sound(ring[u]) /\ \A k \in Elements(ring[u]) : k \in 1..made
<1>1. Sound(ring[u]) /\ \A k \in Elements(ring[u]) : k \in Keys /\ u \in since[k]
  BY BoundAssumption DEF IInv, KeysReachMembers, KeysTyped, Elements, Pile, Keys
<1>2. \A k \in Keys : since[k] # {} => k \in 1..made
  BY BoundAssumption DEF IInv, MembersHold, KeysTyped, Keys
<1> QED BY <1>1, <1>2

LEMMA MembersKeeps ==
    ASSUME IInv, NEW t \in TaskIds, Members(t)
    PROVE  IInv'
<1>0. /\ UNCHANGED <<KeyVars, banned, nameKey, page, loaded, timer, socket, ops, failed,
                     unrotated, pending, inbox>>
      /\ EventsTyped /\ members \subseteq Users /\ Busy(t)
  BY DEF Members, At, database, client, history, bounds, KeyVars, IInv, MembersHold
<1>1. Grows
  BY <1>0, KeysRest DEF KeyVars
<1>2. PICK y \in Task : y = tasks[t] /\ Holds(y) /\ y.user \in Users
  BY <1>0, BusyFacts DEF Task
<1>3. PICK keys \in {ring[y.user], Put(Empty, ring[y.user].last)} :
          \E us \in SUBSET Users : BeginUpload(t, keys, us)
  <2>1. \/ BeginUpload(t, ring[y.user], members)
        \/ BeginUpload(t, Put(Empty, ring[y.user].last), members \ {y.user})
    BY <1>2 DEF Members
  <2>2. members \ {y.user} \subseteq Users
    BY <1>0
  <2> QED BY <1>0, <2>1, <2>2
<1>4. Sound(keys) /\ \A k \in Elements(keys) : k \in 1..made
  <2>1. Sound(ring[y.user]) /\ \A k \in Elements(ring[y.user]) : k \in 1..made
    BY <1>2, RingMade
  <2>2. CASE ring[y.user].last # 0
    <3>1. ring[y.user].last \in Keys /\ ring[y.user].last \in Elements(ring[y.user])
      BY <2>1, <2>2, BoundAssumption DEF Sound, Pile, Keys, Elements
    <3>2. /\ Sound(Put(Empty, ring[y.user].last))
          /\ Elements(Put(Empty, ring[y.user].last)) = {ring[y.user].last}
      BY <3>1, PutFacts, EmptyFacts DEF Sound
    <3> QED BY <1>3, <2>1, <3>1, <3>2
  <2>3. CASE ring[y.user].last = 0
    <3>1. Put(Empty, ring[y.user].last) = Empty
      BY <2>3 DEF Put, Elements, Empty
    <3> QED BY <1>3, <2>1, <3>1, EmptyFacts
  <2> QED BY <2>2, <2>3
<1>5. TasksHold'
  BY <1>0, <1>1, <1>3, <1>4, BeginsUpload
<1> QED BY <1>0, <1>5, Handled DEF EventsTyped

LEMMA RecipientKeeps ==
    ASSUME IInv, NEW t \in TaskIds, Recipient(t)
    PROVE  IInv'
<1>0. /\ UNCHANGED <<KeyVars, banned, nameKey, page, loaded, timer, socket, ops, failed,
                     unrotated, pending, inbox>>
      /\ EventsTyped /\ Busy(t)
  BY DEF Recipient, At, database, client, history, bounds, KeyVars, IInv
<1>1. Grows
  BY <1>0, KeysRest DEF KeyVars
<1>2. PICK y \in Task : y = tasks[t] /\ Holds(y) /\ y.user \in Users /\ y.who \in Users
  BY <1>0, BusyFacts DEF Task
<1>3. Sound(ring[y.user]) /\ \A k \in Elements(ring[y.user]) : k \in 1..made
  BY <1>2, RingMade
<1>4. BeginUpload(t, ring[y.user], {y.who})
  BY <1>2 DEF Recipient
<1>5. PICK keys : keys = ring[y.user]
  OBVIOUS
<1>6. TasksHold'
  BY <1>0, <1>1, <1>2, <1>3, <1>4, <1>5, BeginsUpload
<1> QED BY <1>0, <1>6, Handled DEF EventsTyped

\* The next user or the next key.
LEMMA Advances ==
    ASSUME IInv, Grows, NEW t \in TaskIds, NEW u, NEW y \in Task, y = tasks[t], Holds(y),
           y.pc \in {"upload", "save"}, Advance(t, u)
    PROVE  TasksHold'
<1>0. /\ tasks \in [TaskIds -> Task \cup {Idle}] /\ KeysTyped
      /\ y.keys.last # 0 /\ y.to \subseteq Users /\ y.all \subseteq Users
      /\ y.keys \in Pile
  BY DEF IInv, TasksHold, Holds, Task, Sound
<1>1. CASE tasks' = [tasks EXCEPT ![t].pc = "upload", ![t].to = @ \ {u}]
  <2>1. PICK x : x = [y EXCEPT !.pc = "upload", !.to = @ \ {u}]
    OBVIOUS
  <2>2. x \in Task /\ x.keys = y.keys /\ x.user = y.user /\ x.kind = y.kind /\ x.pc = "upload"
    BY <1>0, <2>1 DEF Task, Places
  <2>3. Holds(x)
    BY <1>0, <2>2 DEF Holds
  <2>4. tasks' = [tasks EXCEPT ![t] = x]
    BY <1>0, <1>1, <2>1
  <2> QED BY <1>0, <2>3, <2>4, HoldsLater, OneTask
<1>2. ASSUME NEW k \in y.keys.old,
             tasks' = [tasks EXCEPT ![t].pc = "upload", ![t].to = y.all,
                                    ![t].keys = [old |-> @.old \ {k}, last |-> k]]
      PROVE  TasksHold'
  <2>1. PICK p : p = [old |-> y.keys.old \ {k}, last |-> k]
    OBVIOUS
  <2>2. Sound(p) /\ Elements(p) \subseteq Elements(y.keys) /\ p.last # 0
    BY <1>0, <2>1, BoundAssumption DEF Sound, Pile, Elements, Keys
  <2>3. PICK x : x = [y EXCEPT !.pc = "upload", !.to = y.all, !.keys = p]
    OBVIOUS
  <2>4. x \in Task /\ x.keys = p /\ x.user = y.user /\ x.kind = y.kind /\ x.pc = "upload"
    BY <1>0, <2>2, <2>3 DEF Task, Places, Sound
  <2>5. Holds(x)
    BY <2>2, <2>4 DEF Holds
  <2>6. tasks' = [tasks EXCEPT ![t] = x]
    BY <1>0, <1>2, <2>1, <2>3
  <2> QED BY <1>0, <2>5, <2>6, HoldsLater, OneTask
<1>3. CASE y.kind = "rotate" /\ Goto(t, "publish")
  <2>1. PICK x : x = [y EXCEPT !.pc = "publish"]
    OBVIOUS
  <2>2. x \in Task /\ x.keys = y.keys /\ x.user = y.user /\ x.kind = y.kind /\ x.pc = "publish"
    BY <2>1 DEF Task, Places
  <2>3. Holds(x)
    BY <1>3, <2>2 DEF Holds
  <2>4. tasks' = [tasks EXCEPT ![t] = x]
    BY <1>0, <1>3, <2>1 DEF Goto
  <2> QED BY <1>0, <2>3, <2>4, HoldsLater, OneTask
<1>4. CASE Finish(t)
  BY <1>4, OneTask DEF Finish
<1> QED BY <1>1, <1>2, <1>3, <1>4 DEF Advance

\* A member has been one since the key about to be saved was made, or joined
\* later.
LEMMA UploadKeeps ==
    ASSUME IInv, NEW t \in TaskIds, NEW u, Upload(t, u)
    PROVE  IInv'
<1>0. /\ UNCHANGED <<KeyVars, banned, nameKey, page, loaded, timer, socket, ops, failed,
                     unrotated, pending, inbox>>
      /\ EventsTyped /\ MembersHold /\ KeysTyped /\ Busy(t)
  BY DEF Upload, At, database, client, history, bounds, KeyVars, IInv
<1>1. Grows
  BY <1>0, KeysRest DEF KeyVars
<1>2. PICK y \in Task : y = tasks[t] /\ Holds(y) /\ y.pc = "upload"
  BY <1>0, BusyFacts DEF Upload, At
<1>3. CASE Advance(t, u)
  BY <1>0, <1>1, <1>2, <1>3, Advances, Handled DEF EventsTyped
<1>4. CASE u \in members /\ tasks' = [tasks EXCEPT ![t].pc = "save", ![t].who = u]
  <2>1. PICK x : x = [y EXCEPT !.pc = "save", !.who = u]
    OBVIOUS
  <2>2. /\ x \in Task /\ x.keys = y.keys /\ x.user = y.user /\ x.kind = y.kind
        /\ x.pc = "save" /\ x.who = u
    BY <1>0, <1>4, <2>1 DEF Task, Places, MembersHold
  <2>3. y.keys.last \in 1..made
    BY <1>2 DEF Holds, Elements
  <2>4. u \in since[y.keys.last]
    BY <1>0, <1>4, <2>3 DEF MembersHold
  <2>5. Holds(x)
    BY <1>2, <2>2, <2>4 DEF Holds
  <2>6. tasks' = [tasks EXCEPT ![t] = x]
    BY <1>2, <1>4, <2>1 DEF IInv, TasksHold
  <2>7. TasksHold'
    BY <1>0, <1>1, <2>5, <2>6, HoldsLater, OneTask
  <2> QED BY <1>0, <2>7, Handled DEF EventsTyped
<1> QED BY <1>2, <1>3, <1>4 DEF Upload, MayUpload

LEMMA SaveKeeps ==
    ASSUME IInv, NEW t \in TaskIds, Save(t)
    PROVE  IInv'
<1>0. /\ UNCHANGED <<made, since, ring, members, banned, nameKey, page, loaded, timer, socket,
                     ops, failed, unrotated, inbox, pending>>
      /\ KeysTyped /\ MembersHold /\ KeysReachMembers /\ EventsTyped /\ RestTyped /\ Busy(t)
  BY DEF Save, At, client, history, bounds, IInv
<1>1. PICK y \in Task : y = tasks[t] /\ Holds(y) /\ y.pc = "save" /\ y.who \in Users
  BY <1>0, BusyFacts DEF Save, At, Task
<1>2. PICK s : s = Put(rows[y.who], y.keys.last)
  OBVIOUS
<1>3. y.keys.last \in Keys
  BY <1>1, BoundAssumption DEF Holds, Sound, Pile, Keys
<1>4. Sound(s) /\ Elements(s) = Elements(rows[y.who]) \cup {y.keys.last}
  BY <1>0, <1>1, <1>2, <1>3, PutFacts DEF KeysTyped
<1>5. /\ rows' \in [Users -> Pile] /\ rows'[y.who] = s
      /\ \A v \in Users : v # y.who => rows'[v] = rows[v]
  BY <1>0, <1>1, <1>2, <1>4 DEF Save, KeysTyped, Sound
<1>6. KeysTyped'
  BY <1>0, <1>4, <1>5 DEF KeysTyped
<1>7. MembersHold' /\ Grows
  BY <1>0 DEF MembersHold, KeysTyped, Grows, Keys
<1>8. KeysReachMembers'
  <2>1. y.who \in since[y.keys.last]
    BY <1>1 DEF Holds
  <2> QED BY <1>0, <1>4, <1>5, <2>1 DEF KeysReachMembers
<1>9. TasksHold'
  <2>1. Advance(t, y.who)
    BY <1>1 DEF Save
  <2> QED BY <1>1, <1>7, <2>1, Advances
<1>10. EventsTyped' /\ RestTyped'
  BY <1>0 DEF EventsTyped, RestTyped
<1> QED BY <1>6, <1>7, <1>8, <1>9, <1>10 DEF IInv

LEMMA PublishKeeps ==
    ASSUME IInv, NEW t \in TaskIds, Publish(t)
    PROVE  IInv'
<1>0. /\ UNCHANGED <<KeyVars, banned, nameKey, page, loaded, timer, socket, ops, failed,
                     unrotated, pending>>
      /\ EventsTyped /\ KeysTyped /\ Owner \in Users /\ "rotated" \in EventTypes
  BY UserAssumption DEF Publish, database, client, history, bounds, KeyVars, IInv, EventTypes
<1>1. Grows
  BY <1>0, KeysRest DEF KeyVars
<1>2. PICK y \in Task : y = tasks[t] /\ Holds(y) /\ y.pc = "publish"
  BY BusyFacts DEF Publish, At
<1>3. PICK x : x = [y EXCEPT !.pc = "rename"]
  OBVIOUS
<1>4. x \in Task /\ x.keys = y.keys /\ x.user = y.user /\ x.kind = y.kind /\ x.pc = "rename"
  BY <1>3 DEF Task, Places
<1>5. Holds(x)
  BY <1>2, <1>4 DEF Holds
<1>6. tasks' = [tasks EXCEPT ![t] = x]
  BY <1>2, <1>3 DEF Publish, Goto, IInv, TasksHold
<1>7. TasksHold'
  BY <1>0, <1>1, <1>5, <1>6, HoldsLater, OneTask
<1>8. EventsTyped'
  BY <1>0, BroadcastTyped DEF Publish, EventsTyped
<1> QED BY <1>0, <1>7, <1>8, Handled

LEMMA RenameKeeps ==
    ASSUME IInv, NEW t \in TaskIds, Rename(t)
    PROVE  IInv'
<1>0. /\ UNCHANGED <<KeyVars, banned, page, loaded, timer, socket, ops, failed,
                     unrotated, pending, inbox>>
      /\ EventsTyped /\ KeysTyped /\ RestTyped
  BY DEF Rename, client, history, bounds, KeyVars, IInv
<1>1. KeysTyped' /\ MembersHold' /\ KeysReachMembers' /\ Grows
  BY <1>0, KeysRest DEF KeyVars
<1>2. PICK y \in Task : y = tasks[t] /\ Holds(y) /\ y.pc = "rename" /\ y.user \in Users
  BY BusyFacts DEF Rename, At, Task
<1>3. ring[y.user].last # 0 /\ ring[y.user] \in Pile
  BY <1>0, <1>2 DEF Holds, KeysTyped
<1>4. nameKey' \in Keys
  BY <1>2, <1>3, BoundAssumption DEF Rename, Pile, Keys
<1>5. TasksHold'
  BY <1>1, OneTask DEF Rename, Finish
<1>6. EventsTyped' /\ RestTyped'
  BY <1>0, <1>4 DEF EventsTyped, RestTyped
<1> QED BY <1>1, <1>5, <1>6 DEF IInv

-----------------------------------------------------------------------------
(* Pages and sockets *)

LEMMA EventsFinite == IsFiniteSet(Event)
<1>1. IsFiniteSet(EventTypes)
  <2>1. IsFiniteSet({"needed"})
    BY FS_Singleton
  <2>2. IsFiniteSet({"needed"} \cup {"joined"})
    BY <2>1, FS_AddElement
  <2>3. IsFiniteSet(({"needed"} \cup {"joined"}) \cup {"removed"})
    BY <2>2, FS_AddElement
  <2>4. IsFiniteSet((({"needed"} \cup {"joined"}) \cup {"removed"}) \cup {"rotated"})
    BY <2>3, FS_AddElement
  <2>5. EventTypes = (({"needed"} \cup {"joined"}) \cup {"removed"}) \cup {"rotated"}
    BY DEF EventTypes
  <2> QED BY <2>4, <2>5
<1>2. IsFiniteSet(EventTypes \X Users)
  BY <1>1, UserAssumption, FS_Product
<1> DEFINE f == [p \in EventTypes \X Users |-> [type |-> p[1], user |-> p[2]]]
<1>3. f \in [EventTypes \X Users -> Event]
  BY DEF Event
<1>4. ASSUME NEW e \in Event PROVE \E p \in EventTypes \X Users : f[p] = e
  <2>1. <<e.type, e.user>> \in EventTypes \X Users
    BY DEF Event
  <2>2. f[<<e.type, e.user>>] = e
    BY <2>1 DEF Event
  <2> QED BY <2>1, <2>2
<1>5. f \in Surjection(EventTypes \X Users, Event)
  BY <1>3, <1>4 DEF Surjection
<1> QED BY <1>2, <1>5, FS_Surjection

\* Pages and sockets come and go, and no key moves.
LEMMA Connects ==
    ASSUME IInv, UNCHANGED <<KeyVars, banned, nameKey>>, TasksHold', EventsTyped',
           page' \subseteq Users, loaded' \subseteq Users, timer' \subseteq Users,
           socket' \in [Users -> {"none", "replayed", "online"}],
           ops' \in 0..MaxOps, failed' \in BOOLEAN, UNCHANGED unrotated
    PROVE  IInv'
<1>1. KeysTyped' /\ MembersHold' /\ KeysReachMembers'
  BY KeysRest DEF KeyVars
<1>2. RestTyped'
  BY DEF IInv, RestTyped
<1> QED BY <1>1, <1>2 DEF IInv

LEMMA OpenPageKeeps ==
    ASSUME IInv, NEW u \in Users, OpenPage(u)
    PROVE  IInv'
<1>1. /\ UNCHANGED <<KeyVars, banned, nameKey, loaded, timer, socket, inbox, pending,
                     ops, failed, unrotated>>
      /\ RestTyped /\ EventsTyped /\ page' = page \cup {u}
  BY DEF OpenPage, database, history, bounds, KeyVars, IInv
<1>2. KeysTyped' /\ Grows
  BY <1>1, KeysRest DEF KeyVars
<1>3. TasksHold'
  BY <1>2, Starts DEF OpenPage, Kinds, FetchKinds
<1> QED BY <1>1, <1>3, Connects DEF RestTyped, EventsTyped

LEMMA ReplayKeeps ==
    ASSUME IInv, NEW u \in Users, Replay(u)
    PROVE  IInv'
<1>1. /\ UNCHANGED <<KeyVars, banned, nameKey, page, loaded, tasks, ops, failed, unrotated>>
      /\ RestTyped /\ EventsTyped /\ timer' = timer \cup {u}
      /\ socket' = [socket EXCEPT ![u] = "replayed"]
      /\ pending' = [pending EXCEPT ![u] = {}]
  BY DEF Replay, history, bounds, KeyVars, IInv
<1>2. Cardinality(pending[u]) \in Nat
  BY <1>1, EventsFinite, FS_Subset, FS_CardinalityType DEF EventsTyped
<1>3. PICK s \in [1..Cardinality(pending[u]) -> pending[u]] :
          inbox' = [inbox EXCEPT ![u] = @ \o s]
  BY DEF Replay
<1>4. s \in Seq(Event)
  <2>1. PICK n \in Nat : n = Cardinality(pending[u])
    BY <1>2
  <2>2. pending[u] \subseteq Event
    BY <1>1 DEF EventsTyped
  <2>3. s \in [1..n -> Event]
    BY <1>3, <2>1, <2>2
  <2> QED BY <2>3
<1>5. PICK q : q = inbox[u] \o s
  OBVIOUS
<1>6. q \in Seq(Event)
  BY <1>1, <1>4, <1>5 DEF EventsTyped
<1>7. EventsTyped'
  BY <1>1, <1>3, <1>5, <1>6 DEF EventsTyped
<1>8. Grows
  BY <1>1, KeysRest DEF KeyVars
<1>9. TasksHold'
  BY <1>1, <1>8, SameTasks
<1> QED BY <1>1, <1>7, <1>9, Connects DEF RestTyped

LEMMA RegisterKeeps ==
    ASSUME IInv, NEW u \in Users, Register(u)
    PROVE  IInv'
<1>1. /\ UNCHANGED <<KeyVars, banned, nameKey, page, loaded, timer, tasks, inbox, pending,
                     ops, failed, unrotated>>
      /\ RestTyped /\ EventsTyped /\ socket' = [socket EXCEPT ![u] = "online"]
  BY DEF Register, database, history, bounds, KeyVars, IInv
<1>2. Grows
  BY <1>1, KeysRest DEF KeyVars
<1>3. TasksHold'
  BY <1>1, <1>2, SameTasks
<1> QED BY <1>1, <1>3, Connects DEF RestTyped, EventsTyped

LEMMA ResyncKeeps ==
    ASSUME IInv, NEW u \in Users, Resync(u)
    PROVE  IInv'
<1>1. /\ UNCHANGED <<KeyVars, banned, nameKey, page, loaded, socket, inbox, pending,
                     ops, failed, unrotated>>
      /\ RestTyped /\ EventsTyped /\ timer' = timer \ {u}
  BY DEF Resync, database, history, bounds, KeyVars, IInv
<1>2. KeysTyped' /\ Grows
  BY <1>1, KeysRest DEF KeyVars
<1>3. TasksHold'
  BY <1>2, Starts, SameTasks DEF Resync, Kinds, FetchKinds
<1> QED BY <1>1, <1>3, Connects DEF RestTyped, EventsTyped

LEMMA NoEvents == <<>> \in Seq(Event)
OBVIOUS

LEMMA DisconnectKeeps ==
    ASSUME IInv, NEW u \in Users, Disconnect(u)
    PROVE  IInv'
<1>1. /\ UNCHANGED <<KeyVars, banned, nameKey, page, loaded, timer, tasks, pending, unrotated>>
      /\ RestTyped /\ EventsTyped /\ socket' = [socket EXCEPT ![u] = "none"]
      /\ inbox' = [inbox EXCEPT ![u] = <<>>]
      /\ ops' = ops + 1 /\ ops < MaxOps /\ failed' = TRUE
  BY DEF Disconnect, Failure, database, history, KeyVars, IInv
<1>2. Grows
  BY <1>1, KeysRest DEF KeyVars
<1>3. TasksHold'
  BY <1>1, <1>2, SameTasks
<1>4. EventsTyped'
  BY <1>1, NoEvents DEF EventsTyped
<1>5. ops' \in 0..MaxOps
  BY <1>1, BoundAssumption DEF RestTyped
<1> QED BY <1>1, <1>3, <1>4, <1>5, Connects DEF RestTyped

LEMMA ClosePageKeeps ==
    ASSUME IInv, NEW u \in Users, ClosePage(u)
    PROVE  IInv'
<1>1. /\ UNCHANGED <<KeyVars, banned, nameKey, pending, unrotated>>
      /\ RestTyped /\ EventsTyped /\ socket' = [socket EXCEPT ![u] = "none"]
      /\ page' = page \ {u} /\ loaded' = loaded \ {u} /\ timer' = timer \ {u}
      /\ inbox' = [inbox EXCEPT ![u] = <<>>]
      /\ ops' = ops + 1 /\ ops < MaxOps /\ failed' = TRUE
      /\ tasks' = [t \in TaskIds |-> IF Busy(t) /\ tasks[t].user = u THEN Idle ELSE tasks[t]]
  BY DEF ClosePage, Failure, database, history, KeyVars, IInv
<1>2. Grows
  BY <1>1, KeysRest DEF KeyVars
<1>3. \A t \in TaskIds : tasks'[t] \in {tasks[t], Idle}
  BY <1>1
<1>4. tasks' \in [TaskIds -> Task \cup {Idle}]
  BY <1>1, <1>3 DEF IInv, TasksHold
<1>5. TasksHold'
  BY <1>2, <1>3, <1>4, TasksKeep
<1>6. EventsTyped'
  BY <1>1, NoEvents DEF EventsTyped
<1>7. ops' \in 0..MaxOps
  BY <1>1, BoundAssumption DEF RestTyped
<1> QED BY <1>1, <1>5, <1>6, <1>7, Connects DEF RestTyped

-----------------------------------------------------------------------------
(* Events *)

\* Handling an event takes it off the queue and touches no table.
LEMMA ReceiveFacts ==
    ASSUME IInv, NEW u \in Users, NEW type, Receive(u, type)
    PROVE  /\ EventsTyped' /\ Head(inbox[u]).user \in Users
           /\ UNCHANGED <<members, rows, pending, banned, nameKey, page, loaded, timer,
                          socket, ops, failed>>
<1>1. /\ inbox \in [Users -> Seq(Event)] /\ inbox[u] # <<>>
      /\ inbox' = [inbox EXCEPT ![u] = Tail(@)]
  BY DEF IInv, EventsTyped, Receive
<1>2. PICK q \in Seq(Event) : q = inbox[u] /\ q # <<>>
  BY <1>1
<1>3. Head(q) \in Event
  BY <1>2
<1>4. Tail(q) \in Seq(Event)
  BY <1>2
<1>5. inbox' \in [Users -> Seq(Event)]
  BY <1>1, <1>2, <1>4
<1> QED BY <1>2, <1>3, <1>5 DEF IInv, EventsTyped, Receive, database, bounds, Event

\* What an event makes of the tasks of a page, other than a rotation.
LEMMA EventKeeps ==
    ASSUME IInv, NEW u \in Users, NEW type, Receive(u, type), UNCHANGED <<ring, history>>,
           \/ UNCHANGED tasks
           \/ Ensure(u)
           \/ \E w \in Users : \E t \in Free : Start(t, NewTask("share", u, "recipient", w))
           \/ \E t \in Free : Start(t, NewTask("load", u, "list", u))
           \/ \E t \in Free : Start(t, NewTask("fetch", u, "ask", u))
    PROVE  IInv'
<1>1. /\ UNCHANGED <<KeyVars, banned, nameKey, page, loaded, timer, socket, ops, failed,
                     unrotated>>
      /\ EventsTyped'
  BY ReceiveFacts DEF KeyVars, history
<1>2. KeysTyped' /\ Grows
  BY <1>1, KeysRest DEF KeyVars
<1>3. /\ "share" \in Kinds \ {"rotate"} /\ "load" \in Kinds \ {"rotate"}
      /\ "fetch" \in Kinds \ {"rotate"} /\ "ensure" \in Kinds \ {"rotate"}
  BY DEF Kinds, FetchKinds
<1>4. CASE UNCHANGED tasks
  BY <1>1, <1>2, <1>4, SameTasks, Handled
<1>5. CASE Ensure(u)
  <2>1. UNCHANGED tasks \/ \E t \in Free : Start(t, NewTask("ensure", u, "ask", u))
    BY <1>5 DEF Ensure
  <2>2. TasksHold'
    BY <1>2, <1>3, <2>1, SameTasks, Starts
  <2> QED BY <1>1, <2>2, Handled
<1>6. CASE \E w \in Users : \E t \in Free : Start(t, NewTask("share", u, "recipient", w))
  <2>1. TasksHold'
    BY <1>2, <1>3, <1>6, Starts
  <2> QED BY <1>1, <2>1, Handled
<1>7. CASE \/ \E t \in Free : Start(t, NewTask("load", u, "list", u))
           \/ \E t \in Free : Start(t, NewTask("fetch", u, "ask", u))
  <2>1. TasksHold'
    BY <1>2, <1>3, <1>7, Starts
  <2> QED BY <1>1, <2>1, Handled
<1> QED BY <1>4, <1>5, <1>6, <1>7

\* The owner makes a key: only those who are members now may ever have it, and
\* the others as they join.
LEMMA RotationKeeps ==
    ASSUME IInv, Receive(Owner, "removed"), made < MaxKeys, made' = made + 1,
           since' = [since EXCEPT ![made + 1] = members], unrotated' = {},
           ring' = [ring EXCEPT ![Owner] = Put(@, made + 1)],
           \E t \in Free : Start(t, NewTask("rotate", Owner, "members", Owner))
    PROVE  IInv'
<1>0. /\ KeysTyped /\ MembersHold /\ KeysReachMembers /\ RestTyped
      /\ Owner \in Users /\ MaxKeys \in Nat \ {0} /\ Keys = 1..MaxKeys
  BY UserAssumption, BoundAssumption DEF IInv, Keys
<1>1. /\ UNCHANGED <<members, rows, pending, banned, nameKey, page, loaded, timer,
                     socket, ops, failed>>
      /\ EventsTyped'
  BY <1>0, ReceiveFacts
<1>2. PICK n \in Keys : n = made + 1 /\ made \in Nat /\ made \in Keys
  BY <1>0 DEF KeysTyped
<1>3. /\ since' \in [Keys -> SUBSET Users] /\ since'[n] = members /\ since[n] = {}
      /\ \A k \in Keys : k # n => since'[k] = since[k]
  BY <1>0, <1>2 DEF KeysTyped, MembersHold
<1>4. PICK p : p = Put(ring[Owner], n)
  OBVIOUS
<1>5. Sound(p) /\ Elements(p) = Elements(ring[Owner]) \cup {n} /\ p.last = n
  BY <1>0, <1>2, <1>4, PutFacts DEF KeysTyped, Put
<1>6. /\ ring' \in [Users -> Pile] /\ ring'[Owner] = p
      /\ \A u \in Users : u # Owner => ring'[u] = ring[u]
  BY <1>0, <1>2, <1>4, <1>5 DEF KeysTyped, Sound
<1>7. KeysTyped'
  BY <1>0, <1>1, <1>2, <1>3, <1>5, <1>6 DEF KeysTyped
<1>8. Grows
  BY <1>0, <1>2, <1>3, <1>5, <1>6 DEF Grows
<1>9. MembersHold'
  <2>1. ASSUME NEW v \in members, NEW k \in 1..(made + 1) PROVE v \in since'[k]
    <3>1. CASE k = n
      BY <1>3, <3>1
    <3>2. CASE k # n
      <4>1. k \in 1..made /\ k \in Keys
        BY <1>0, <1>2, <3>2
      <4> QED BY <1>0, <1>3, <3>2, <4>1 DEF MembersHold
    <3> QED BY <3>1, <3>2
  <2>2. ASSUME NEW k \in Keys, k > made + 1 PROVE since'[k] = {}
    <3>1. k # n /\ k > made
      BY <1>0, <1>2, <2>2
    <3> QED BY <1>0, <1>3, <3>1 DEF MembersHold
  <2> QED BY <1>0, <1>1, <2>1, <2>2 DEF MembersHold
<1>10. KeysReachMembers'
  <2>1. ASSUME NEW u \in Users, NEW k \in Keys,
               k \in Elements(rows[u]) \/ k \in Elements(ring[u])
        PROVE  u \in since'[k]
    <3>1. u \in since[k]
      BY <1>0, <2>1 DEF KeysReachMembers
    <3> QED BY <1>3, <3>1
  <2>2. \A u \in Users : Elements(rows[u]) \subseteq Keys /\ Elements(ring[u]) \subseteq Keys
    BY <1>0 DEF KeysTyped, Pile, Elements
  <2>3. Owner \in since'[n]
    BY <1>0, <1>3 DEF MembersHold
  <2> QED BY <1>0, <1>1, <1>5, <1>6, <2>1, <2>2, <2>3 DEF KeysReachMembers
<1>11. TasksHold'
  <2>1. PICK t \in TaskIds : tasks' = [tasks EXCEPT ![t] = NewTask("rotate", Owner, "members",
                                                                   Owner)]
    BY DEF Free, Start
  <2>2. PICK x : x = NewTask("rotate", Owner, "members", Owner)
    OBVIOUS
  <2>3. Empty \in Pile /\ 1 \in 0..MaxTries /\ "members" \in Places /\ "rotate" \in Kinds
    BY EmptyFacts, BoundAssumption DEF Sound, Places, Kinds
  <2>4. /\ x \in Task /\ x.keys = Empty /\ x.pc = "members" /\ x.kind = "rotate"
        /\ x.user = Owner
    BY <1>0, <2>2, <2>3 DEF NewTask, Task
  <2>5. n # 0
    BY <1>2
  <2>6. Holds(x)'
    BY <1>5, <1>6, <2>4, <2>5, EmptyFacts DEF Holds
  <2> QED BY <1>8, <2>1, <2>2, <2>6, OneTask
<1>12. RestTyped'
  BY <1>0, <1>1 DEF RestTyped
<1> QED BY <1>1, <1>7, <1>9, <1>10, <1>11, <1>12 DEF IInv

LEMMA EventStepKeeps ==
    ASSUME IInv, NEW u \in Users, OnNeeded(u) \/ OnJoined(u) \/ OnRemoved(u) \/ OnRotated(u)
    PROVE  IInv'
<1>1. CASE OnNeeded(u)
  <2>1. Receive(u, "needed") /\ UNCHANGED <<ring, history>>
    BY <1>1 DEF OnNeeded
  <2>2. PICK w \in Users : w = Head(inbox[u]).user
    BY <2>1, ReceiveFacts
  <2>3. \/ \E t \in Free : Start(t, NewTask("share", u, "recipient", w))
        \/ Ensure(u) \/ UNCHANGED tasks
    BY <1>1, <2>2 DEF OnNeeded
  <2> QED BY <2>1, <2>3, EventKeeps
<1>2. CASE OnJoined(u)
  <2>1. Receive(u, "joined") /\ UNCHANGED <<ring, history>>
    BY <1>2 DEF OnJoined
  <2>2. PICK w \in Users : w = Head(inbox[u]).user
    BY <2>1, ReceiveFacts
  <2>3. \/ \E t \in Free : Start(t, NewTask("share", u, "recipient", w))
        \/ Ensure(u)
    BY <1>2, <2>2 DEF OnJoined
  <2> QED BY <2>1, <2>3, EventKeeps
<1>3. CASE OnRemoved(u)
  <2>1. CASE Owns(u)
    BY <1>3, <2>1, RotationKeeps DEF OnRemoved, Owns
  <2>2. CASE ~Owns(u)
    <3>1. /\ Receive(u, "removed") /\ UNCHANGED <<ring, history>>
          /\ (\E t \in Free : Start(t, NewTask("load", u, "list", u))) \/ UNCHANGED tasks
      BY <1>3, <2>2 DEF OnRemoved
    <3> QED BY <3>1, EventKeeps
  <2> QED BY <2>1, <2>2
<1>4. CASE OnRotated(u)
  BY <1>4, EventKeeps DEF OnRotated
<1> QED BY <1>1, <1>2, <1>3, <1>4

-----------------------------------------------------------------------------
(* The invariant and the property *)

LEMMA InitInv == Init => IInv
<1> SUFFICES ASSUME Init PROVE IInv
  OBVIOUS
<1>0. MaxKeys \in Nat \ {0} /\ Keys = 1..MaxKeys /\ 1 \in Keys /\ Empty \in Pile
  BY BoundAssumption, EmptyFacts DEF Keys, Sound
<1>1. /\ Sound(Put(Empty, 1)) /\ Elements(Put(Empty, 1)) = {1}
      /\ Sound(Empty) /\ Elements(Empty) = {}
  BY <1>0, PutFacts, EmptyFacts
<1>2. \A u \in Users : /\ rows[u] = IF u \in Initial THEN Put(Empty, 1) ELSE Empty
                       /\ ring[u] = IF u \in Initial THEN Put(Empty, 1) ELSE Empty
  BY DEF Init
<1>3. rows \in [Users -> Pile] /\ ring \in [Users -> Pile]
  BY <1>1 DEF Init, Sound
<1>4. made = 1 /\ since = [k \in Keys |-> IF k = 1 THEN Initial ELSE {}] /\ members = Initial
  BY DEF Init
<1>5. KeysTyped
  BY <1>0, <1>1, <1>2, <1>3, <1>4, UserAssumption DEF KeysTyped
<1>6. MembersHold
  BY <1>0, <1>4, UserAssumption DEF MembersHold
<1>7. KeysReachMembers
  BY <1>0, <1>1, <1>2, <1>4 DEF KeysReachMembers
<1>8. TasksHold
  BY DEF Init, TasksHold
<1>9. EventsTyped
  BY NoEvents DEF Init, EventsTyped
<1>10. RestTyped
  <2>1. socket \in [Users -> {"none", "replayed", "online"}]
    BY DEF Init
  <2>2. /\ banned = {} /\ nameKey = 1 /\ page = Open /\ loaded = Open \cap Initial
        /\ timer = {} /\ ops = 0 /\ failed = FALSE /\ unrotated = {}
    BY DEF Init
  <2>3. ops \in 0..MaxOps
    BY <2>2, BoundAssumption
  <2>4. /\ page \subseteq Users /\ loaded \subseteq Users /\ timer \subseteq Users
        /\ banned \subseteq Users /\ unrotated \subseteq Users
    BY <2>2, UserAssumption
  <2>5. nameKey \in Keys /\ failed \in BOOLEAN
    BY <1>0, <2>2
  <2> QED BY <2>1, <2>3, <2>4, <2>5 DEF RestTyped
<1> QED BY <1>5, <1>6, <1>7, <1>8, <1>9, <1>10 DEF IInv

LEMMA NextInv == IInv /\ [Next]_vars => IInv'
<1> SUFFICES ASSUME IInv, [Next]_vars PROVE IInv'
  OBVIOUS
<1>1. CASE MembershipStep
  BY <1>1, JoinKeeps, LeaveKeeps, RemoveKeeps, UnbanKeeps DEF MembershipStep, Kick, Ban
<1>2. CASE ConnectionStep
  BY <1>2, OpenPageKeeps, ReplayKeeps, RegisterKeeps, ResyncKeeps, DisconnectKeeps,
     ClosePageKeeps DEF ConnectionStep
<1>3. CASE EventStep
  BY <1>3, EventStepKeeps DEF EventStep
<1>4. CASE HandlerStep
  <2>1. PICK t \in TaskIds :
            \/ Announce(t) \/ PendJoined(t) \/ PendRemoved(t)
            \/ List(t) \/ Ask(t) \/ Tell(t) \/ Keep(t)
            \/ Members(t) \/ Recipient(t) \/ (\E u \in Users : Upload(t, u))
            \/ Save(t) \/ Publish(t) \/ Rename(t)
    BY <1>4 DEF HandlerStep
  <2> QED BY <2>1, AnnounceKeeps, PendJoinedKeeps, PendRemovedKeeps, ListKeeps, AskKeeps,
          TellKeeps, KeepKeeps, MembersKeeps, RecipientKeeps, UploadKeeps, SaveKeeps,
          PublishKeeps, RenameKeeps
<1>5. CASE UNCHANGED vars
  <2>1. UNCHANGED <<KeyVars, banned, nameKey, page, loaded, timer, socket, ops, failed,
                    unrotated, tasks, inbox, pending>>
    BY <1>5 DEF vars, database, client, history, bounds, KeyVars
  <2>2. Grows
    BY <2>1, KeysRest DEF KeyVars
  <2>3. TasksHold' /\ EventsTyped'
    BY <2>1, <2>2, SameTasks DEF IInv, EventsTyped
  <2> QED BY <2>1, <2>3, Handled
<1> QED BY <1>1, <1>2, <1>3, <1>4, <1>5 DEF Next

\* In every state of every behaviour keys on their way are on their way to
\* somebody who may have them, and no member lacks the right to a key.
THEOREM Invariance == Spec => []IInv
<1> QED BY InitInv, NextInv, PTL DEF Spec

\* Type correctness of every variable, for any number of users, keys, handlers
\* and events on their way.
THEOREM TypeCorrect == Spec => []TypeOK
<1>1. IInv => TypeOK
  BY DEF IInv, TypeOK, KeysTyped, MembersHold, TasksHold, EventsTyped, RestTyped
<1> QED BY <1>1, Invariance, PTL

\* Whatever uploads, fetches, removals and rotations are under way at a time,
\* the table and the pages of a user hold only keys that were made before the
\* user's last membership ended.
THEOREM KeysCorrect == Spec => []KeysReachMembers
<1>1. IInv => KeysReachMembers
  BY DEF IInv
<1> QED BY <1>1, Invariance, PTL


-----------------------------------------------------------------------------
(* Who will supply a member *)

\* The owner's page will hear that u has no key, now or when it connects.
Asked(u) ==
    \/ \E e \in pending[Owner] : e.type = "needed" /\ e.user = u
    \/ \E i \in 1..Len(inbox[Owner]) : /\ inbox[Owner][i].type = "needed"
                                       /\ inbox[Owner][i].user = u

\* Task x will save a key for u, or will have the owner's page asked for one:
\* the handler of a join until it has looked who is offline, the page that
\* joined when the owner is there to be asked, and the owner's upload.
Carries(x, u) ==
    \/ x.kind = "join" /\ x.pc = "announce" /\ x.user = u /\ x.who = u
    \/ x.kind = "join" /\ x.pc = "pend" /\ x.user = u /\ x.who = u /\ Owner \in x.to
    \/ x.kind = "try" /\ x.pc \in {"list", "ask"} /\ x.user = u /\ Connected(Owner)
    \/ /\ x.kind = "share" /\ x.user = Owner
       /\ \/ x.pc = "recipient" /\ x.who = u
          \/ x.pc = "upload" /\ x.to = {u}
          \/ x.pc = "save" /\ x.who = u

Served(u) == Asked(u) \/ \E t \in TaskIds : Busy(t) /\ Carries(tasks[t], u)
Lacks(u) == u \in members /\ rows[u].last = 0
OwnerHolds == rows[Owner].last # 0 /\ ring[Owner].last # 0

\* What MembersSupplied needs of the states that are not quiet.
SInv == OwnerHolds /\ (~failed => \A u \in Users : Lacks(u) => Served(u))

LEMMA EmptyLast ==
    ASSUME NEW p, Sound(p)
    PROVE  p = Empty <=> p.last = 0
BY DEF Sound, Pile, Empty

\* The tasks outside of T serve whom they served.
LEMMA ServedLater ==
    ASSUME SInv, OwnerHolds', failed => failed', Connected(Owner) => Connected(Owner)',
           NEW T \in SUBSET TaskIds, \A s \in TaskIds \ T : tasks'[s] = tasks[s],
           \A u \in Users : Lacks(u)' =>
               \/ Served(u)'
               \/ /\ Lacks(u) /\ (Asked(u) => Asked(u)' \/ Served(u)')
                  /\ \A t \in T : Busy(t) /\ Carries(tasks[t], u) => Served(u)'
    PROVE  SInv'
<1> SUFFICES ASSUME ~failed', NEW u \in Users, Lacks(u)' PROVE Served(u)'
  BY DEF SInv
<1>1. CASE /\ Lacks(u) /\ (Asked(u) => Asked(u)' \/ Served(u)')
           /\ \A t \in T : Busy(t) /\ Carries(tasks[t], u) => Served(u)'
  <2>1. Served(u)
    BY <1>1 DEF SInv
  <2>2. CASE \E t \in TaskIds \ T : Busy(t) /\ Carries(tasks[t], u)
    <3>1. PICK t \in TaskIds \ T : Busy(t) /\ Carries(tasks[t], u)
      BY <2>2
    <3>2. tasks'[t] = tasks[t]
      OBVIOUS
    <3>3. Busy(t)'
      BY <3>1, <3>2 DEF Busy
    <3>4. Carries(tasks[t], u)'
      BY <3>1, <3>2 DEF Carries
    <3> QED BY <3>3, <3>4 DEF Served
  <2> QED BY <1>1, <2>1, <2>2 DEF Served
<1> QED BY <1>1

\* A new event leaves the others where they are.
LEMMA AskedByMessage ==
    ASSUME EventsTyped, NEW w, NEW type, NEW S, Broadcast(S, type, w), UNCHANGED pending
    PROVE  /\ \A u : Asked(u) => Asked(u)'
           /\ Owner \in S /\ type = "needed" /\ Connected(Owner) => Asked(w)'
<1>0. PICK e : e = [type |-> type, user |-> w]
  OBVIOUS
<1>1. e = [type |-> type, user |-> w] /\ e.type = type /\ e.user = w
  BY <1>0
<1>2. PICK q \in Seq(Event) : q = inbox[Owner] /\ Owner \in Users
  BY UserAssumption DEF EventsTyped
<1>3. /\ inbox'[Owner] \in {q, Append(q, e)}
      /\ Owner \in S /\ Connected(Owner) => inbox'[Owner] = Append(q, e)
  BY <1>1, <1>2 DEF Broadcast
<1>4. /\ Len(q) \in Nat /\ Len(Append(q, e)) = Len(q) + 1 /\ Append(q, e)[Len(q) + 1] = e
      /\ \A i \in 1..Len(q) : Append(q, e)[i] = q[i]
  OBVIOUS
<1>5. CASE inbox'[Owner] = q
  BY <1>1, <1>2, <1>3, <1>4, <1>5 DEF Asked
<1>6. CASE inbox'[Owner] = Append(q, e)
  BY <1>1, <1>2, <1>4, <1>6 DEF Asked
<1> QED BY <1>3, <1>5, <1>6

LEMMA AskedByEvent ==
    ASSUME EventsTyped, NEW w, NEW type, NEW S, Pend(S, type, w), UNCHANGED inbox
    PROVE  /\ \A u : Asked(u) => Asked(u)'
           /\ Owner \in S /\ type = "needed" /\ ~Connected(Owner) => Asked(w)'
<1>0. PICK e : e = [type |-> type, user |-> w]
  OBVIOUS
<1>1. e = [type |-> type, user |-> w] /\ e.type = type /\ e.user = w
  BY <1>0
<1>2. /\ pending'[Owner] \in {pending[Owner], pending[Owner] \cup {e}}
      /\ Owner \in S /\ ~Connected(Owner) => pending'[Owner] = pending[Owner] \cup {e}
  BY <1>1, UserAssumption DEF Pend
<1> QED BY <1>1, <1>2 DEF Asked

LEMMA AskedStill ==
    ASSUME UNCHANGED <<inbox, pending>>
    PROVE  \A u : Asked(u) => Asked(u)'
BY DEF Asked

\* A task goes on, and no key moves.
LEMMA ServesOn ==
    ASSUME SInv, UNCHANGED <<members, rows, ring, socket, failed>>, NEW t \in TaskIds,
           \A s \in TaskIds \ {t} : tasks'[s] = tasks[s],
           \A u \in Users : Asked(u) => Asked(u)',
           \A u \in Users : Lacks(u) /\ Busy(t) /\ Carries(tasks[t], u) => Served(u)'
    PROVE  SInv'
<1>1. OwnerHolds' /\ (Connected(Owner) => Connected(Owner)')
  BY DEF OwnerHolds, SInv, Connected
<1>2. \A u \in Users : Lacks(u)' => Lacks(u)
  BY DEF Lacks
<1>3. {t} \in SUBSET TaskIds
  OBVIOUS
<1> QED BY <1>1, <1>2, <1>3, ServedLater

\* A task of another kind, or at another place, has nobody to serve.
LEMMA OthersServe ==
    ASSUME SInv, UNCHANGED <<members, rows, ring, socket, failed>>, NEW t \in TaskIds,
           \A s \in TaskIds \ {t} : tasks'[s] = tasks[s],
           \A u \in Users : Asked(u) => Asked(u)',
           Busy(t) => \A u \in Users : ~Carries(tasks[t], u)
    PROVE  SInv'
BY ServesOn

\* The table of tasks after a step of one.
LEMMA OneChanges ==
    ASSUME IInv, NEW t \in TaskIds, NEW x, tasks' = [tasks EXCEPT ![t] = x]
    PROVE  tasks'[t] = x /\ \A s \in TaskIds \ {t} : tasks'[s] = tasks[s]
BY DEF IInv, TasksHold

\* A task begins, and no key moves.
LEMMA BeginServes ==
    ASSUME IInv, SInv, UNCHANGED <<members, rows, ring, socket, failed>>,
           NEW x, \E t \in Free : Start(t, x),
           \A u \in Users : Asked(u) => Asked(u)'
    PROVE  SInv'
<1>1. PICK t \in TaskIds : ~Busy(t) /\ tasks' = [tasks EXCEPT ![t] = x]
  BY DEF Free, Start, Busy
<1> QED BY <1>1, OneChanges, OthersServe

\* The steps keep SInv, one lemma for each that moves a key or serves somebody.
LEMMA JoinServes ==
    ASSUME IInv, SInv, NEW u \in Users, Join(u)
    PROVE  SInv'
<1>1. PICK t \in TaskIds : ~Busy(t) /\ tasks' = [tasks EXCEPT ![t] = NewTask("join", u, "announce", u)]
  BY DEF Join, Free, Start, Busy
<1>2. PICK x : x = NewTask("join", u, "announce", u)
  OBVIOUS
<1>3. x.kind = "join" /\ x.pc = "announce" /\ x.user = u /\ x.who = u /\ x # Idle
  <2>1. x.kind = "join" /\ x.pc = "announce" /\ x.user = u /\ x.who = u /\ Idle.kind = "idle"
    BY <1>2 DEF NewTask, Idle
  <2> QED BY <2>1
<1>4. tasks'[t] = x /\ \A s \in TaskIds \ {t} : tasks'[s] = tasks[s]
  BY <1>1, <1>2, OneChanges
<1>5. Served(u)'
  BY <1>3, <1>4 DEF Served, Carries, Busy
<1>6. /\ UNCHANGED <<rows, pending, ring, socket, inbox, failed>>
      /\ members' = members \cup {u}
  BY DEF Join, client, Request
<1>7. \A v \in Users : Asked(v) => Asked(v)'
  BY <1>6, AskedStill
<1>8. OwnerHolds' /\ (Connected(Owner) => Connected(Owner)')
  BY <1>6 DEF OwnerHolds, SInv, Connected
<1>9. \A v \in Users : Lacks(v)' => Lacks(v) \/ v = u
  BY <1>6 DEF Lacks
<1>10. {t} \in SUBSET TaskIds /\ \A s \in {t} : ~Busy(s)
  BY <1>1
<1> QED BY <1>4, <1>5, <1>6, <1>7, <1>8, <1>9, <1>10, ServedLater

LEMMA GoesServes ==
    ASSUME IInv, SInv, NEW u \in Users,
           Leave(u) \/ \E c \in Users, ban \in BOOLEAN : Remove(c, u, ban)
    PROVE  SInv'
<1>1. PICK t \in TaskIds : ~Busy(t) /\ \A s \in TaskIds \ {t} : tasks'[s] = tasks[s]
  <2>1. PICK x : \E t \in Free : Start(t, x)
    BY DEF Leave, Remove
  <2> QED BY <2>1, OneChanges DEF Free, Start, Busy
<1>2. /\ UNCHANGED <<ring, socket, inbox, failed>> /\ u # Owner
      /\ members' = members \ {u} /\ rows' = [rows EXCEPT ![u] = Empty]
  BY DEF Leave, Remove, MayRemove, client, Request
<1>3. rows'[Owner] = rows[Owner] /\ Owner \in Users
      /\ \A v \in Users : v # u => rows'[v] = rows[v]
  BY <1>2, UserAssumption DEF IInv, KeysTyped
<1>4. \A e : e \in pending[Owner] /\ e.user # u => e \in pending'[Owner]
  BY <1>2, <1>3 DEF Leave, Remove
<1>5. \A v \in Users : v # u /\ Asked(v) => Asked(v)'
  BY <1>2, <1>4 DEF Asked
<1>6. OwnerHolds' /\ (Connected(Owner) => Connected(Owner)')
  BY <1>2, <1>3 DEF OwnerHolds, SInv, Connected
<1>7. \A v \in Users : Lacks(v)' => Lacks(v) /\ v # u
  BY <1>2, <1>3 DEF Lacks
<1>8. {t} \in SUBSET TaskIds /\ \A s \in {t} : ~Busy(s)
  BY <1>1
<1> QED BY <1>1, <1>2, <1>5, <1>6, <1>7, <1>8, ServedLater

\* The handler of the join has told those who are there, the owner or not.
LEMMA AnnounceServes ==
    ASSUME IInv, SInv, NEW t \in TaskIds, Announce(t)
    PROVE  SInv'
<1>1. PICK y \in Task : y = tasks[t] /\ y.pc = "announce" /\ y.who \in Users
  BY BusyFacts DEF Announce, At, Task
<1>2. PICK to : /\ to = IF y.kind = "join" THEN members \ {y.who} ELSE members \cup {y.who}
                /\ Broadcast(to, IF y.kind = "join" THEN "joined" ELSE "removed", y.who)
                /\ tasks' = [tasks EXCEPT ![t].pc = "pend", ![t].to = to]
  BY <1>1 DEF Announce
<1>3. PICK x : x = [y EXCEPT !.pc = "pend", !.to = to]
  OBVIOUS
<1>4. x.kind = y.kind /\ x.user = y.user /\ x.who = y.who /\ x.pc = "pend" /\ x.to = to
  BY <1>3 DEF Task
<1>5. tasks' = [tasks EXCEPT ![t] = x]
  BY <1>1, <1>2, <1>3 DEF IInv, TasksHold
<1>6. tasks'[t] = x /\ \A s \in TaskIds \ {t} : tasks'[s] = tasks[s]
  BY <1>5, OneChanges
<1>7. UNCHANGED <<members, rows, pending, ring, socket, failed>>
  BY DEF Announce, database, client, bounds
<1>8. \A u \in Users : Asked(u) => Asked(u)'
  BY <1>2, <1>7, AskedByMessage DEF IInv
<1>9. x # Idle
  <2>1. y.kind # "idle" /\ Idle.kind = "idle"
    BY DEF Task, Kinds, HandlerKinds, FetchKinds, Idle
  <2> QED BY <1>4, <2>1
<1>10. ASSUME NEW u \in Users, Lacks(u), Carries(tasks[t], u) PROVE Served(u)'
  <2>1. y.kind = "join" /\ y.user = u /\ y.who = u /\ u # Owner
    BY <1>1, <1>10 DEF Carries, Lacks, SInv, OwnerHolds
  <2>2. Owner \in to
    BY <1>2, <2>1 DEF IInv, MembersHold
  <2>3. Carries(x, u)'
    BY <1>4, <2>1, <2>2 DEF Carries
  <2> QED BY <1>6, <1>9, <2>3 DEF Served, Busy
<1> QED BY <1>6, <1>7, <1>8, <1>10, ServesOn

\* Either the owner is there, and the page will ask, or is sent an event.
LEMMA PendJoinedServes ==
    ASSUME IInv, SInv, NEW t \in TaskIds, PendJoined(t)
    PROVE  SInv'
<1>1. PICK y \in Task : y = tasks[t] /\ y.pc = "pend" /\ y.kind = "join" /\ y.user \in Users
                        /\ y.who \in Users
  BY BusyFacts DEF PendJoined, At, Task
<1>2. PICK x : x = NewTask("try", y.user, "list", y.user)
  OBVIOUS
<1>3. x.kind = "try" /\ x.pc = "list" /\ x.user = y.user /\ Idle.kind = "idle"
  BY <1>2 DEF NewTask, Idle
<1>4. tasks'[t] = x /\ \A s \in TaskIds \ {t} : tasks'[s] = tasks[s]
  BY <1>1, <1>2, OneChanges DEF PendJoined
<1>5. UNCHANGED <<members, rows, inbox, ring, socket, failed>>
  BY DEF PendJoined, client, bounds
<1>6. Pend(y.to, "needed", y.who)
  BY <1>1 DEF PendJoined
<1>7. \A u \in Users : Asked(u) => Asked(u)'
  BY <1>5, <1>6, AskedByEvent DEF IInv
<1>8. ASSUME NEW u \in Users, Carries(tasks[t], u) PROVE Served(u)'
  <2>1. y.user = u /\ y.who = u /\ Owner \in y.to
    BY <1>1, <1>8 DEF Carries
  <2>2. CASE ~Connected(Owner)
    BY <1>5, <1>6, <2>1, <2>2, AskedByEvent DEF IInv, Served
  <2>3. CASE Connected(Owner)
    <3>1. Carries(x, u)' /\ x # Idle
      BY <1>3, <1>5, <2>1, <2>3 DEF Carries, Connected
    <3> QED BY <1>4, <3>1 DEF Served, Busy
  <2> QED BY <2>2, <2>3
<1> QED BY <1>4, <1>5, <1>7, <1>8, ServesOn

LEMMA ListServes ==
    ASSUME IInv, SInv, NEW t \in TaskIds, List(t)
    PROVE  SInv'
<1>1. PICK y \in Task : y = tasks[t] /\ y.pc = "list"
  BY BusyFacts DEF List, At
<1>2. UNCHANGED <<members, rows, pending, ring, socket, inbox, failed>>
  BY DEF List, database, bounds
<1>3. \A u \in Users : Asked(u) => Asked(u)'
  BY <1>2, AskedStill
<1>4. PICK z : tasks' = [tasks EXCEPT ![t] = z]
  BY DEF List, AfterLoad, Goto, Finish
<1>5. \A s \in TaskIds \ {t} : tasks'[s] = tasks[s]
  BY <1>4, OneChanges
<1>6. ASSUME NEW u \in Users, Carries(tasks[t], u) PROVE Served(u)'
  <2>1. y.kind = "try" /\ y.user = u /\ Connected(Owner)
    BY <1>1, <1>6 DEF Carries
  <2>2. Goto(t, "ask")
    BY <1>1, <2>1 DEF List
  <2>3. PICK x : x = [y EXCEPT !.pc = "ask"]
    OBVIOUS
  <2>4. x.kind = "try" /\ x.user = u /\ x.pc = "ask" /\ Idle.kind = "idle"
    BY <2>1, <2>3 DEF Task, Idle
  <2>5. tasks'[t] = x
    BY <1>1, <2>2, <2>3 DEF Goto, IInv, TasksHold
  <2>6. Carries(x, u)' /\ x # Idle
    BY <1>2, <2>1, <2>4 DEF Carries, Connected
  <2> QED BY <2>5, <2>6 DEF Served, Busy
<1> QED BY <1>2, <1>3, <1>5, <1>6, ServesOn

\* The owner has a row, so that a page without one has the owner asked.
LEMMA AskServes ==
    ASSUME IInv, SInv, NEW t \in TaskIds, Ask(t)
    PROVE  SInv'
<1>1. PICK y \in Task : y = tasks[t] /\ y.pc = "ask" /\ y.user \in Users
  BY BusyFacts DEF Ask, At, Task
<1>2. UNCHANGED <<members, rows, pending, ring, socket, failed>>
  BY DEF Ask, database, client, bounds
<1>3. PICK z : tasks' = [tasks EXCEPT ![t] = z]
  BY DEF Ask
<1>4. \A s \in TaskIds \ {t} : tasks'[s] = tasks[s]
  BY <1>3, OneChanges
<1>5. Broadcast(members, "needed", y.user) \/ UNCHANGED inbox
  BY <1>1 DEF Ask
<1>6. \A u \in Users : Asked(u) => Asked(u)'
  BY <1>2, <1>5, AskedStill, AskedByMessage DEF IInv
<1>7. ASSUME NEW u \in Users, Lacks(u), Carries(tasks[t], u) PROVE Served(u)'
  <2>1. y.user = u /\ Connected(Owner)
    BY <1>1, <1>7 DEF Carries
  <2>2. rows[u] = Empty /\ rows[Owner] # Empty /\ Owner \in Users /\ Owner \in members
    <3>1. /\ Owner \in Users /\ Owner \in members
          /\ rows[u].last = 0 /\ rows[Owner].last # 0
      BY <1>7, UserAssumption DEF IInv, MembersHold, SInv, OwnerHolds, Lacks
    <3>2. Sound(rows[u]) /\ Sound(rows[Owner])
      BY <3>1 DEF IInv, KeysTyped
    <3> QED BY <3>1, <3>2, EmptyLast
  <2>3. u \in members /\ \E v \in Users : rows[v] # Empty
    BY <1>7, <2>2 DEF Lacks
  <2>4. Broadcast(members, "needed", u)
    BY <1>1, <2>1, <2>2, <2>3 DEF Ask
  <2>5. Asked(u)'
    BY <1>2, <2>1, <2>2, <2>4, AskedByMessage DEF IInv
  <2> QED BY <2>5 DEF Served
<1> QED BY <1>2, <1>4, <1>6, <1>7, ServesOn

\* Steps of tasks that serve nobody and move no key.
LEMMA IdleServes ==
    ASSUME IInv, SInv, NEW t \in TaskIds,
           \/ PendRemoved(t) \/ Tell(t) \/ Members(t) \/ Publish(t) \/ Rename(t)
    PROVE  SInv'
<1>1. PICK y \in Task : /\ y = tasks[t] /\ Holds(y)
                        /\ y.pc \in {"pend", "tell", "members", "publish", "rename"}
                        /\ y.pc = "pend" => y.kind \in {"kick", "leave"}
  BY BusyFacts DEF PendRemoved, Tell, Members, Publish, Rename, At
<1>2. UNCHANGED <<members, rows, ring, socket, failed>>
  BY DEF PendRemoved, Tell, Members, Publish, Rename, database, client, bounds
<1>3. PICK z : tasks' = [tasks EXCEPT ![t] = z]
  BY DEF PendRemoved, Tell, Members, Publish, Rename, Finish, Goto, BeginUpload
<1>4. \A s \in TaskIds \ {t} : tasks'[s] = tasks[s]
  BY <1>3, OneChanges
<1>5. \A u \in Users : ~Carries(tasks[t], u)
  BY <1>1 DEF Carries
<1>6. \A u \in Users : Asked(u) => Asked(u)'
  <2>1. CASE PendRemoved(t) \/ Tell(t)
    <3>1. PICK S, type, w : Pend(S, type, w) /\ UNCHANGED inbox
      BY <2>1 DEF PendRemoved, Tell
    <3> QED BY <3>1, AskedByEvent DEF IInv
  <2>2. CASE Publish(t)
    <3>1. Broadcast(members, "rotated", Owner) /\ UNCHANGED pending
      BY <2>2 DEF Publish, database
    <3> QED BY <3>1, AskedByMessage DEF IInv
  <2>3. CASE Members(t) \/ Rename(t)
    BY <2>3, AskedStill DEF Members, Rename, database
  <2> QED BY <2>1, <2>2, <2>3
<1> QED BY <1>2, <1>4, <1>5, <1>6, OthersServe

LEMMA KeepServes ==
    ASSUME IInv, SInv, NEW t \in TaskIds, Keep(t)
    PROVE  SInv'
<1>1. PICK y \in Task : y = tasks[t] /\ Holds(y) /\ y.pc = "keep" /\ y.user \in Users
  BY BusyFacts DEF Keep, At, Task
<1>2. UNCHANGED <<members, rows, pending, inbox, socket, failed>>
  BY DEF Keep, database, bounds
<1>3. PICK z : tasks' = [tasks EXCEPT ![t] = z]
  BY DEF Keep, Goto, Finish
<1>4. \A s \in TaskIds \ {t} : tasks'[s] = tasks[s]
  BY <1>3, OneChanges
<1>5. \A u \in Users : ~Carries(tasks[t], u)
  BY <1>1 DEF Carries
<1>6. \A u \in Users : Asked(u) => Asked(u)'
  BY <1>2, AskedStill
<1>7. PICK s \in PutAll(ring[y.user], y.keys) : ring' = [ring EXCEPT ![y.user] = s]
  BY <1>1 DEF Keep
<1>8. ring[y.user].last # 0 => s.last # 0
  BY <1>1, PutAllFacts DEF Holds, IInv, KeysTyped
<1>9. OwnerHolds' /\ (Connected(Owner) => Connected(Owner)')
  BY <1>1, <1>2, <1>7, <1>8, UserAssumption DEF OwnerHolds, SInv, Connected, IInv, KeysTyped
<1>10. \A u \in Users : Lacks(u)' => Lacks(u)
  BY <1>2 DEF Lacks
<1>11. {t} \in SUBSET TaskIds /\ (failed => failed')
  BY <1>2
<1> QED BY <1>4, <1>5, <1>6, <1>9, <1>10, <1>11, ServedLater

\* The owner has a key to upload.
LEMMA RecipientServes ==
    ASSUME IInv, SInv, NEW t \in TaskIds, Recipient(t)
    PROVE  SInv'
<1>1. PICK y \in Task : y = tasks[t] /\ y.pc = "recipient" /\ y.user \in Users
  BY BusyFacts DEF Recipient, At, Task
<1>2. UNCHANGED <<members, rows, pending, ring, socket, inbox, failed>>
  BY DEF Recipient, database, client, bounds
<1>3. \A u \in Users : Asked(u) => Asked(u)'
  BY <1>2, AskedStill
<1>4. PICK z : tasks' = [tasks EXCEPT ![t] = z]
  BY DEF Recipient, BeginUpload, Finish
<1>5. \A s \in TaskIds \ {t} : tasks'[s] = tasks[s]
  BY <1>4, OneChanges
<1>6. ASSUME NEW u \in Users, Carries(tasks[t], u) PROVE Served(u)'
  <2>1. y.kind = "share" /\ y.user = Owner /\ y.who = u
    BY <1>1, <1>6 DEF Carries
  <2>2. PICK k, us : k = ring[Owner] /\ us = {u}
    OBVIOUS
  <2>3. k # Empty /\ us # {}
    BY <2>2, EmptyFacts DEF SInv, OwnerHolds, Empty
  <2>4. tasks' = [tasks EXCEPT ![t].pc = "upload", ![t].keys = k, ![t].to = us, ![t].all = us]
    BY <1>1, <2>1, <2>2, <2>3 DEF Recipient, BeginUpload
  <2>5. PICK x : x = [y EXCEPT !.pc = "upload", !.keys = k, !.to = us, !.all = us]
    OBVIOUS
  <2>6. x.kind = "share" /\ x.user = Owner /\ x.pc = "upload" /\ x.to = {u} /\ Idle.kind = "idle"
    BY <2>1, <2>2, <2>5 DEF Task, Idle
  <2>7. tasks'[t] = x
    BY <1>1, <2>4, <2>5 DEF IInv, TasksHold
  <2>8. Carries(x, u)' /\ x # Idle
    BY <2>6 DEF Carries
  <2> QED BY <2>7, <2>8 DEF Served, Busy
<1> QED BY <1>2, <1>3, <1>5, <1>6, ServesOn

\* The server accepts it.
LEMMA UploadServes ==
    ASSUME IInv, SInv, NEW t \in TaskIds, NEW w \in Users, Upload(t, w)
    PROVE  SInv'
<1>1. PICK y \in Task : y = tasks[t] /\ y.pc = "upload" /\ w \in y.to
  BY BusyFacts DEF Upload, At
<1>2. UNCHANGED <<members, rows, pending, ring, socket, inbox, failed>>
  BY DEF Upload, database, client, bounds
<1>3. \A u \in Users : Asked(u) => Asked(u)'
  BY <1>2, AskedStill
<1>4. PICK z : tasks' = [tasks EXCEPT ![t] = z]
  BY DEF Upload, Advance, Goto, Finish
<1>5. \A s \in TaskIds \ {t} : tasks'[s] = tasks[s]
  BY <1>4, OneChanges
<1>6. ASSUME NEW u \in Users, Lacks(u), Carries(tasks[t], u) PROVE Served(u)'
  <2>1. y.kind = "share" /\ y.user = Owner /\ y.to = {u} /\ u = w /\ u \in members
    BY <1>1, <1>6 DEF Carries, Lacks
  <2>2. tasks' = [tasks EXCEPT ![t].pc = "save", ![t].who = u]
    BY <1>1, <2>1 DEF Upload, MayUpload
  <2>3. PICK x : x = [y EXCEPT !.pc = "save", !.who = u]
    OBVIOUS
  <2>4. x.kind = "share" /\ x.user = Owner /\ x.pc = "save" /\ x.who = u /\ Idle.kind = "idle"
    BY <2>1, <2>3 DEF Task, Idle
  <2>5. tasks'[t] = x
    BY <1>1, <2>2, <2>3 DEF IInv, TasksHold
  <2>6. Carries(x, u)' /\ x # Idle
    BY <2>4 DEF Carries
  <2> QED BY <2>5, <2>6 DEF Served, Busy
<1> QED BY <1>2, <1>3, <1>5, <1>6, ServesOn

\* The row is there.
LEMMA SaveServes ==
    ASSUME IInv, SInv, NEW t \in TaskIds, Save(t)
    PROVE  SInv'
<1>1. PICK y \in Task : y = tasks[t] /\ Holds(y) /\ y.pc = "save" /\ y.who \in Users
  BY BusyFacts DEF Save, At, Task
<1>2. UNCHANGED <<members, pending, ring, socket, inbox, failed>>
  BY DEF Save, client, bounds
<1>3. \A u \in Users : Asked(u) => Asked(u)'
  BY <1>2, AskedStill
<1>4. PICK z : tasks' = [tasks EXCEPT ![t] = z]
  BY DEF Save, Advance, Goto, Finish
<1>5. \A s \in TaskIds \ {t} : tasks'[s] = tasks[s]
  BY <1>4, OneChanges
<1>6. rows' = [rows EXCEPT ![y.who] = Put(@, y.keys.last)]
  BY <1>1 DEF Save
<1>7. rows'[y.who].last # 0 /\ \A u \in Users : u # y.who => rows'[u] = rows[u]
  BY <1>1, <1>6 DEF Holds, Put, IInv, KeysTyped
<1>8. OwnerHolds' /\ (Connected(Owner) => Connected(Owner)')
  BY <1>2, <1>7, UserAssumption DEF OwnerHolds, SInv, Connected
<1>9. \A u \in Users : Lacks(u)' => Lacks(u) /\ u # y.who
  BY <1>2, <1>7 DEF Lacks
<1>10. \A u \in Users : Carries(tasks[t], u) => u = y.who
  BY <1>1 DEF Carries
<1>11. {t} \in SUBSET TaskIds /\ (failed => failed')
  BY <1>2
<1> QED BY <1>3, <1>5, <1>8, <1>9, <1>10, <1>11, ServedLater

\* Steps that leave the tasks alone.
LEMMA SameServes ==
    ASSUME IInv, SInv, UNCHANGED <<members, rows, ring, failed, tasks>>,
           Connected(Owner) => Connected(Owner)',
           \A u \in Users : Asked(u) => Asked(u)'
    PROVE  SInv'
<1>1. OwnerHolds' /\ \A u \in Users : Lacks(u)' => Lacks(u)
  BY DEF SInv, OwnerHolds, Lacks
<1>2. {} \in SUBSET TaskIds
  OBVIOUS
<1> QED BY <1>1, <1>2, ServedLater

\* Saved events are replayed, on the socket that is not registered yet.
LEMMA ReplayServes ==
    ASSUME IInv, SInv, NEW v \in Users, Replay(v)
    PROVE  SInv'
<1>1. /\ UNCHANGED <<members, rows, ring, failed, tasks>> /\ socket[v] = "none"
      /\ socket' = [socket EXCEPT ![v] = "replayed"]
      /\ pending' = [pending EXCEPT ![v] = {}]
      /\ Owner \in Users /\ EventsTyped /\ RestTyped
  BY UserAssumption DEF Replay, bounds, IInv
<1>2. PICK s \in [1..Cardinality(pending[v]) -> pending[v]] :
          Range(s) = pending[v] /\ inbox' = [inbox EXCEPT ![v] = @ \o s]
  BY DEF Replay
<1>3. Connected(Owner) => Connected(Owner)'
  BY <1>1 DEF Connected, RestTyped
<1>4. CASE v # Owner
  <2>1. \A u \in Users : Asked(u) => Asked(u)'
    BY <1>1, <1>2, <1>4 DEF Asked, EventsTyped
  <2> QED BY <1>1, <1>3, <2>1, SameServes
<1>5. CASE v = Owner
  <2>1. PICK n \in Nat : n = Cardinality(pending[Owner])
    BY <1>1, EventsFinite, FS_Subset, FS_CardinalityType DEF EventsTyped
  <2>2. PICK P \in SUBSET Event : P = pending[Owner]
    BY <1>1 DEF EventsTyped
  <2>3. s \in [1..n -> P]
    BY <1>2, <1>5, <2>1, <2>2
  <2>4. s \in Seq(Event) /\ Len(s) = n
    BY <2>3
  <2>5. PICK q \in Seq(Event) : q = inbox[Owner]
    BY <1>1 DEF EventsTyped
  <2>6. inbox'[Owner] = q \o s
    BY <1>1, <1>2, <1>5, <2>5 DEF EventsTyped
  <2>7. /\ Len(q \o s) = Len(q) + n /\ Len(q) \in Nat
        /\ \A i \in 1..Len(q) : (q \o s)[i] = q[i]
        /\ \A i \in 1..n : (q \o s)[Len(q) + i] = s[i]
    BY <2>4
  <2>8. \A e \in P : \E i \in 1..n : s[i] = e
    BY <1>2, <1>5, <2>2, <2>3 DEF Range
  <2>9. ASSUME NEW u \in Users, Asked(u) PROVE Asked(u)'
    <3>1. CASE \E e \in pending[Owner] : e.type = "needed" /\ e.user = u
      <4>1. PICK e \in P : e.type = "needed" /\ e.user = u
        BY <2>2, <3>1
      <4>2. PICK i \in 1..n : s[i] = e
        BY <2>8
      <4>3. PICK j : j = Len(q) + i
        OBVIOUS
      <4>4. j \in 1..Len(q \o s) /\ (q \o s)[j] = e
        BY <2>7, <4>2, <4>3
      <4> QED BY <2>6, <4>1, <4>4 DEF Asked
    <3>2. CASE \E i \in 1..Len(inbox[Owner]) : inbox[Owner][i].type = "needed"
                                               /\ inbox[Owner][i].user = u
      <4>1. PICK i \in 1..Len(q) : q[i].type = "needed" /\ q[i].user = u
        BY <2>5, <3>2
      <4>2. i \in 1..Len(q \o s) /\ (q \o s)[i] = q[i]
        BY <2>7
      <4> QED BY <2>6, <4>1, <4>2 DEF Asked
    <3> QED BY <2>9, <3>1, <3>2 DEF Asked
  <2> QED BY <1>1, <1>3, <2>9, SameServes
<1> QED BY <1>4, <1>5

LEMMA RegisterServes ==
    ASSUME IInv, SInv, NEW v \in Users, Register(v)
    PROVE  SInv'
<1>1. /\ UNCHANGED <<members, rows, ring, failed, tasks, inbox, pending>>
      /\ socket' = [socket EXCEPT ![v] = "online"] /\ RestTyped
  BY DEF Register, database, bounds, IInv
<1>2. Connected(Owner) => Connected(Owner)'
  BY <1>1, UserAssumption DEF Connected, RestTyped
<1>3. \A u \in Users : Asked(u) => Asked(u)'
  BY <1>1, AskedStill
<1> QED BY <1>1, <1>2, <1>3, SameServes

\* After a failure nothing is claimed but that the owner has the keys.
LEMMA FailureServes ==
    ASSUME IInv, SInv, NEW v \in Users, Disconnect(v) \/ ClosePage(v)
    PROVE  SInv'
<1>1. UNCHANGED <<rows, ring>> /\ failed' = TRUE
  BY DEF Disconnect, ClosePage, Failure, database
<1> QED BY <1>1 DEF SInv, OwnerHolds

LEMMA PageServes ==
    ASSUME IInv, SInv, NEW v \in Users, OpenPage(v) \/ Resync(v)
    PROVE  SInv'
<1>1. UNCHANGED <<members, rows, ring, socket, failed, inbox, pending>>
  BY DEF OpenPage, Resync, database, bounds
<1>2. \A u \in Users : Asked(u) => Asked(u)'
  BY <1>1, AskedStill
<1>3. UNCHANGED tasks \/ \E x : \E t \in Free : Start(t, x)
  BY DEF OpenPage, Resync
<1>4. Connected(Owner) => Connected(Owner)'
  BY <1>1 DEF Connected
<1> QED BY <1>1, <1>2, <1>3, <1>4, BeginServes, SameServes

-----------------------------------------------------------------------------

\* The owner's page takes an event: what is behind it is still there.
LEMMA AskedBehind ==
    ASSUME IInv, NEW v \in Users, NEW type, Receive(v, type), NEW u,
           Asked(u)
    PROVE  \/ Asked(u)'
           \/ v = Owner /\ type = "needed" /\ Head(inbox[Owner]).user = u
<1>1. /\ inbox \in [Users -> Seq(Event)] /\ inbox[v] # <<>> /\ Head(inbox[v]).type = type
      /\ inbox' = [inbox EXCEPT ![v] = Tail(@)] /\ UNCHANGED pending /\ Owner \in Users
  BY UserAssumption DEF IInv, EventsTyped, Receive, database
<1>2. CASE v # Owner
  BY <1>1, <1>2 DEF Asked
<1>3. CASE v = Owner
  <2>1. PICK q \in Seq(Event) : q = inbox[Owner] /\ q # <<>>
    BY <1>1, <1>3
  <2>2. inbox'[Owner] = Tail(q) /\ Head(q) = q[1] /\ Head(q).type = type
    BY <1>1, <1>3, <2>1
  <2>3. Len(Tail(q)) = Len(q) - 1 /\ \A i \in 1..(Len(q) - 1) : Tail(q)[i] = q[i + 1]
    BY <2>1
  <2>4. CASE \E e \in pending[Owner] : e.type = "needed" /\ e.user = u
    BY <1>1, <2>4 DEF Asked
  <2>5. CASE \E i \in 1..Len(inbox[Owner]) : inbox[Owner][i].type = "needed"
                                             /\ inbox[Owner][i].user = u
    <3>1. PICK i \in 1..Len(q) : q[i].type = "needed" /\ q[i].user = u
      BY <2>1, <2>5
    <3>2. CASE i = 1
      BY <1>3, <2>1, <2>2, <3>1, <3>2
    <3>3. CASE i # 1
      <4>1. PICK j \in 1..(Len(q) - 1) : i = j + 1
        BY <2>1, <3>3
      <4>2. j \in 1..Len(Tail(q)) /\ Tail(q)[j] = q[i]
        BY <2>3, <4>1
      <4> QED BY <2>2, <3>1, <4>2 DEF Asked
    <3> QED BY <3>2, <3>3
  <2> QED BY <2>4, <2>5 DEF Asked
<1> QED BY <1>2, <1>3

\* An event of another kind, or one that is answered by an upload.
LEMMA EventServes ==
    ASSUME IInv, SInv, NEW v \in Users,
           OnNeeded(v) \/ OnJoined(v) \/ OnRemoved(v) \/ OnRotated(v)
    PROVE  SInv'
<1>1. PICK type : /\ Receive(v, type)
                  /\ type = "needed" => OnNeeded(v)
                  /\ \/ UNCHANGED ring
                     \/ \E n \in Keys : ring' = [ring EXCEPT ![Owner] = Put(@, n)]
  <2>1. ASSUME OnRemoved(v), Owns(v) PROVE \E n \in Keys : ring' = [ring EXCEPT ![Owner] = Put(@, n)]
    <3>1. made + 1 \in Keys /\ v = Owner
      BY <2>1, BoundAssumption DEF OnRemoved, Owns, Keys, IInv, KeysTyped
    <3>2. ring' = [ring EXCEPT ![Owner] = Put(@, made + 1)]
      BY <2>1, <3>1 DEF OnRemoved
    <3> QED BY <3>1, <3>2
  <2> QED BY <2>1 DEF OnNeeded, OnJoined, OnRemoved, OnRotated
<1>0. Receive(v, type)
  BY <1>1
<1>2. UNCHANGED <<members, rows, pending, socket, failed>>
  BY <1>0, ReceiveFacts
<1>3. ring'[Owner].last # 0
  <2>1. ring[Owner].last # 0 /\ Owner \in Users /\ ring \in [Users -> Pile]
    BY UserAssumption DEF SInv, OwnerHolds, IInv, KeysTyped
  <2>2. ASSUME NEW n \in Keys, ring' = [ring EXCEPT ![Owner] = Put(@, n)] PROVE ring'[Owner].last = n /\ n # 0
    BY <2>1, <2>2, BoundAssumption DEF Put, Keys
  <2> QED BY <1>1, <2>1, <2>2
<1>4. OwnerHolds' /\ (Connected(Owner) => Connected(Owner)') /\ (failed => failed')
  BY <1>2, <1>3 DEF OwnerHolds, SInv, Connected
<1>5. UNCHANGED tasks \/ \E x : \E t \in Free : Start(t, x)
  BY DEF OnNeeded, OnJoined, OnRemoved, OnRotated, Ensure
<1>6. PICK T \in SUBSET TaskIds : /\ \A t \in T : ~Busy(t)
                                  /\ \A s \in TaskIds \ T : tasks'[s] = tasks[s]
  <2>1. ASSUME UNCHANGED tasks PROVE \E T \in SUBSET TaskIds : /\ \A t \in T : ~Busy(t)
                                  /\ \A s \in TaskIds \ T : tasks'[s] = tasks[s]
    <3>1. PICK T : T = {}
      OBVIOUS
    <3> QED BY <2>1, <3>1
  <2>2. ASSUME NEW x, NEW t \in Free, Start(t, x)
        PROVE  \E T \in SUBSET TaskIds : /\ \A s \in T : ~Busy(s)
                                         /\ \A s \in TaskIds \ T : tasks'[s] = tasks[s]
    <3>1. PICK T : T = {t}
      OBVIOUS
    <3> QED BY <2>2, <3>1, OneChanges DEF Free, Start, Busy
  <2> QED BY <1>5, <2>1, <2>2
<1>7. ASSUME NEW u \in Users, Lacks(u)'
      PROVE  Lacks(u) /\ (Asked(u) => Asked(u)' \/ Served(u)')
  <2>1. Lacks(u) /\ u # Owner
    BY <1>2, <1>7 DEF Lacks, SInv, OwnerHolds
  <2>2. ASSUME v = Owner, type = "needed", Head(inbox[Owner]).user = u PROVE Served(u)'
    <3>1. ring[Owner] # Empty
      BY EmptyFacts DEF SInv, OwnerHolds, Empty
    <3>2. PICK t \in Free : Start(t, NewTask("share", Owner, "recipient", u))
      <4>1. OnNeeded(Owner)
        BY <1>1, <2>2
      <4> QED BY <2>1, <2>2, <3>1, <4>1 DEF OnNeeded
    <3>3. PICK x : x = NewTask("share", Owner, "recipient", u)
      OBVIOUS
    <3>4. x.kind = "share" /\ x.user = Owner /\ x.pc = "recipient" /\ x.who = u
          /\ Idle.kind = "idle"
      BY <3>3 DEF NewTask, Idle
    <3>5. t \in TaskIds /\ tasks'[t] = x
      BY <3>2, <3>3, OneChanges DEF Free, Start
    <3>6. Carries(x, u)' /\ x # Idle
      BY <3>4 DEF Carries
    <3> QED BY <3>5, <3>6 DEF Served, Busy
  <2>3. Asked(u) => Asked(u)' \/ (v = Owner /\ type = "needed" /\ Head(inbox[Owner]).user = u)
    BY <1>0, AskedBehind
  <2> QED BY <2>1, <2>2, <2>3
<1> QED BY <1>4, <1>6, <1>7, ServedLater

-----------------------------------------------------------------------------

LEMMA InitServes == Init => SInv
<1> SUFFICES ASSUME Init PROVE SInv
  OBVIOUS
<1>1. Owner \in Users /\ Owner \in Initial /\ Initial \subseteq Users
  BY UserAssumption
<1>2. Put(Empty, 1).last = 1
  BY DEF Put
<1>3. \A u \in Initial : rows[u] = Put(Empty, 1) /\ ring[u] = Put(Empty, 1)
  BY <1>1 DEF Init
<1>4. members = Initial
  BY DEF Init
<1> QED BY <1>1, <1>2, <1>3, <1>4 DEF SInv, OwnerHolds, Lacks

LEMMA NextServes == IInv /\ SInv /\ [Next]_vars => SInv'
<1> SUFFICES ASSUME IInv, SInv, [Next]_vars PROVE SInv'
  OBVIOUS
<1>1. CASE MembershipStep
  <2>1. ASSUME NEW c \in Users, NEW u \in Users, Unban(c, u) PROVE SInv'
    <3>1. /\ UNCHANGED <<members, rows, ring, failed, tasks, inbox, pending, socket>>
      BY <2>1 DEF Unban, client, Request
    <3>2. \A v \in Users : Asked(v) => Asked(v)'
      BY <3>1, AskedStill
    <3> QED BY <3>1, <3>2, SameServes DEF Connected
  <2> QED BY <1>1, <2>1, JoinServes, GoesServes DEF MembershipStep, Kick, Ban
<1>2. CASE ConnectionStep
  BY <1>2, PageServes, ReplayServes, RegisterServes, FailureServes DEF ConnectionStep
<1>3. CASE EventStep
  BY <1>3, EventServes DEF EventStep
<1>4. CASE HandlerStep
  <2>1. PICK t \in TaskIds :
            \/ Announce(t) \/ PendJoined(t) \/ PendRemoved(t)
            \/ List(t) \/ Ask(t) \/ Tell(t) \/ Keep(t)
            \/ Members(t) \/ Recipient(t) \/ (\E u \in Users : Upload(t, u))
            \/ Save(t) \/ Publish(t) \/ Rename(t)
    BY <1>4 DEF HandlerStep
  <2> QED BY <2>1, AnnounceServes, PendJoinedServes, IdleServes, ListServes, AskServes,
          KeepServes, RecipientServes, UploadServes, SaveServes
<1>5. CASE UNCHANGED vars
  <2>1. UNCHANGED <<members, rows, ring, failed, tasks, inbox, pending, socket>>
    BY <1>5 DEF vars, database, client, bounds
  <2>2. \A v \in Users : Asked(v) => Asked(v)'
    BY <2>1, AskedStill
  <2> QED BY <2>1, <2>2, SameServes DEF Connected
<1> QED BY <1>1, <1>2, <1>3, <1>4, <1>5 DEF Next

\* However joins, removals, connections and uploads cross, as long as no page or
\* socket has failed somebody is about to supply every member without a key:
\* once nothing is under way, there is none.
THEOREM SuppliedCorrect == Spec => []MembersSupplied
<1>1. IInv /\ SInv => MembersSupplied
  <2> SUFFICES ASSUME IInv, SInv, Quiet, ~failed, NEW u \in members, rows[u] = Empty
               PROVE  FALSE
    BY DEF MembersSupplied
  <2>1. Owner \in Users /\ u \in Users /\ Lacks(u)
    BY UserAssumption DEF IInv, MembersHold, Lacks, Empty
  <2>2. Asked(u)
    BY <2>1 DEF SInv, Served, Quiet
  <2>3. pending[Owner] = {} /\ inbox[Owner] = <<>> /\ Len(<<>>) = 0
    BY <2>1 DEF Quiet
  <2> QED BY <2>2, <2>3 DEF Asked
<1> QED BY <1>1, Invariance, InitServes, NextServes, PTL DEF Spec
=============================================================================
