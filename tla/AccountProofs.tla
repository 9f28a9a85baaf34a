---------------------------- MODULE AccountProofs ----------------------------
(***************************************************************************)
(* Proofs about Account: the saves of the key blob, for any number of      *)
(* devices, keys, requests and users' actions.                             *)
(*                                                                         *)
(* SaverNeverStuck counts requests, which TLAPS can only follow when it    *)
(* knows that no two of them are mistaken for each other: Pool says that   *)
(* the requests under way have different ids, and FreshId that a page that *)
(* sends one finds an id not in use.  Fits and PageFits are what the three *)
(* properties need besides: which page hears which request, and that the   *)
(* page of the app never lacks the token or the password without which     *)
(* saveKeyBlobToServer gives up.  MergesOnlyAdd follows from the types and *)
(* from what the answers of the server carry.                              *)
(*                                                                         *)
(* KickedAreTold needs who holds which session (Owned), and for every      *)
(* device a session of which is over, who will tell it: a handler that has *)
(* revoked it and not sent yet, a registration that has not looked it up,  *)
(* or a renewal of the device itself that is on its way (Followed).        *)
(***************************************************************************)
EXTENDS Account, FiniteSetTheorems, TLAPS

Kinds == {"save", "pull", "login", "loginGet", "loginPut", "change", "kickall", "reauth",
          "logout", "load", "backup", "hello"}
LoginKinds == {"login", "loginGet", "loginPut"}
Places == Answers \cup {"auth", "write", "announce", "readBlob", "readRev", "read", "verify",
                        "pending", "mint", "swap", "revokeOthers", "list", "kick", "revoke",
                        "register"}
Items == [Keys -> Nat]
PType == [at : {"app", "login"}, token : Nat, pass : Nat, local : Items, rev : Nat \cup {None},
          timer : BOOLEAN, inflight : BOOLEAN, queued : BOOLEAN, ws : BOOLEAN,
          unsent : BOOLEAN, dropped : BOOLEAN, late : BOOLEAN]
RType == [id : Ids, dev : Devices, mine : BOOLEAN, kind : Kinds, sid : Nat, pc : Places,
          items : Items, wrap : Nat, pw : Nat, rev : Nat \cup {None}, n : Nat,
          kicks : SUBSET Devices]
SType == [sid : Nat, dev : Devices \cup {None}, revoked : BOOLEAN, pw : Nat]

ServerTyped ==
    /\ password \in Nat \ {0} /\ lastSid \in Nat
    /\ row \in [items : Items, pw : Nat, rev : Nat]
    /\ sessions \subseteq SType
CountsTyped == edits \in Nat /\ passwords \in Nat
PagesTyped == page \in [Devices -> PType]

\* The requests under way have different ids.
Pool(R) == R \subseteq RType /\ \A r, s \in R : r.id = s.id => r = s

\* What is known of a request: a password is around it, and a session unless
\* it is still to be made; only a page that is shown hears an answer, and the
\* login page hears only its own requests.
Fits(r) ==
    /\ r.wrap # 0
    /\ r.kind = "login" => r.pc \in Answers \cup {"verify", "pending", "mint"}
    /\ (r.kind = "login" /\ r.pc # "ok") \/ r.sid # 0
    /\ r.kind = "change" => r.pw # 0
    /\ r.pc = "swap" => r.kind = "change"
    /\ r.pc = "read" => r.kind \in {"pull", "loginGet"}
    /\ r.pc \in {"write", "readBlob", "readRev"} => r.kind \in {"save", "backup", "loginPut"}
    /\ r.pc = "register" => r.kind = "hello"
    /\ r.pc \in Answers => r.mine
    /\ r.mine => (r.kind \in LoginKinds <=> page[r.dev].at = "login")
    /\ r.mine /\ r.kind = "loginPut" => CanSave(page[r.dev])

\* What is known of a page.
PageFits(p) ==
    /\ p.at = "app" => CanSave(p)
    /\ p.at = "login" => ~p.inflight /\ ~p.queued /\ ~p.unsent
    /\ p.queued => p.inflight \/ p.dropped
    /\ p.unsent => p.timer \/ p.queued

\* The flag of a page is up exactly while a save of it is under way, and
\* there is never more than one.
IsSave(r, d) == r.dev = d /\ r.mine /\ r.kind = "save"
Saver(d) ==
    /\ page[d].inflight <=> \E r \in reqs : IsSave(r, d)
    /\ \A r, s \in reqs : IsSave(r, d) /\ IsSave(s, d) => r = s

\* A login page has one request under way.
LoginAlone ==
    \A r, s \in reqs :
        r.mine /\ s.mine /\ r.dev = s.dev /\ {r.kind, s.kind} \subseteq LoginKinds => r = s

IInv ==
    /\ ServerTyped /\ CountsTyped /\ PagesTyped /\ Pool(reqs) /\ LoginAlone
    /\ \A r \in reqs : Fits(r)
    /\ \A d \in Devices : PageFits(page[d]) /\ Saver(d)
-----------------------------------------------------------------------------
(* Requests *)

\* A page that may send a request finds an id that is not in use.
LEMMA FreshId ==
    ASSUME NEW R, Pool(R), Room(R) \/ \E i \in Ids : \A r \in R : r.id # i
    PROVE  FreeId(R) \in Ids /\ \A r \in R : r.id # FreeId(R)
<1>1. CASE \E i \in Ids : \A r \in R : r.id # i
  BY <1>1 DEF FreeId
<1>2. CASE Room(R)
  <2>1. SUFFICES ASSUME \A i \in Ids : \E r \in R : r.id = i PROVE FALSE
    BY <1>1
  <2> DEFINE f == [r \in R |-> r.id]
  <2>2. MaxReqs \in Nat
    BY BoundAssumption
  <2>3. IsFiniteSet(Ids) /\ Cardinality(Ids) = MaxReqs
    BY <2>2, FS_Interval DEF Ids
  <2>4. f \in Injection(R, Ids)
    BY DEF Pool, RType, Injection, IsInjective
  <2>5. f \in Surjection(R, Ids)
    BY <2>1, <2>4 DEF Injection, Surjection
  <2>6. Cardinality(R) = Cardinality(Ids)
    BY <2>3, <2>4, <2>5, FS_Injection
  <2> QED BY <1>2, <2>2, <2>3, <2>6 DEF Room
<1> QED BY <1>1, <1>2

\* A request goes on as s.
LEMMA PoolReplace ==
    ASSUME NEW R, Pool(R), NEW r \in R, NEW s \in RType, s.id = r.id
    PROVE  Pool((R \ {r}) \cup {s})
BY DEF Pool

\* The requests under way have different ids: with one gone, with one more.
LEMMA PoolRemove ==
    ASSUME NEW R, Pool(R), NEW S \in SUBSET R
    PROVE  Pool(S)
BY DEF Pool

LEMMA PoolAdd ==
    ASSUME NEW R, Pool(R), NEW s \in RType, \A r \in R : r.id # s.id
    PROVE  Pool(R \cup {s})
BY DEF Pool

\* Requests whose page is gone.
LEMMA OrphanedFacts ==
    ASSUME NEW R, Pool(R), NEW d \in Devices
    PROVE  /\ Pool(Orphaned(d, R))
           /\ \A q \in Orphaned(d, R) :
                  \E r \in R :
                      /\ q.id = r.id /\ q.dev = r.dev /\ q.kind = r.kind /\ q.pc = r.pc
                      /\ q.sid = r.sid /\ q.wrap = r.wrap /\ q.pw = r.pw
                      /\ q.kicks = r.kicks /\ q.mine = (r.mine /\ r.dev # d)
                      /\ r.dev # d => q = r
                      /\ r.dev # d \/ r.pc \notin Answers
           /\ \A r \in R : r.dev # d => r \in Orphaned(d, R)
<1> DEFINE o(r) == [r EXCEPT !.mine = @ /\ r.dev # d]
<1>1. \A r \in R : /\ o(r) \in RType /\ o(r).mine = (r.mine /\ r.dev # d)
                   /\ o(r).id = r.id /\ o(r).dev = r.dev /\ o(r).kind = r.kind /\ o(r).pc = r.pc
                   /\ o(r).sid = r.sid /\ o(r).wrap = r.wrap /\ o(r).pw = r.pw
                   /\ o(r).kicks = r.kicks
  BY ZenonT(60) DEF Pool, RType
<1>2. \A r \in R : r.dev # d => o(r) = r
  BY DEF Pool, RType
<1>3. Orphaned(d, R) = {o(r) : r \in {q \in R : q.dev # d \/ q.pc \notin Answers}}
  BY DEF Orphaned
<1> HIDE DEF o
<1>4. Pool(Orphaned(d, R))
  BY <1>1, <1>3 DEF Pool
<1> QED BY <1>1, <1>2, <1>3, <1>4

-----------------------------------------------------------------------------
(* Steps that neither begin nor end a save *)

SameSaves ==
    /\ \A q \in reqs' : q.mine /\ q.kind = "save" =>
           \E r \in reqs : r.id = q.id /\ r.dev = q.dev /\ r.mine /\ r.kind = "save"
    /\ \A r \in reqs : r.mine /\ r.kind = "save" =>
           \E q \in reqs' : r.id = q.id /\ r.dev = q.dev /\ q.mine /\ q.kind = "save"

\* Steps that start and end no save: what is left to show of pages and requests.
LEMMA Keeps ==
    ASSUME IInv, ServerTyped', CountsTyped', PagesTyped', Pool(reqs'), SameSaves, LoginAlone',
           \A q \in reqs' : q \in reqs \/ Fits(q)',
           \A d \in Devices : /\ page'[d].at = page[d].at
                              /\ CanSave(page[d]) => CanSave(page'[d])
                              /\ page'[d].inflight <=> page[d].inflight
                              /\ PageFits(page'[d])
    PROVE  IInv'
<1>1. ASSUME NEW q \in reqs', q \in reqs PROVE Fits(q)'
  <2>1. Fits(q) /\ q.dev \in Devices
    BY <1>1 DEF IInv, Pool, RType
  <2> QED BY <2>1 DEF Fits
<1>2. ASSUME NEW d \in Devices PROVE Saver(d)'
  <2>1. Saver(d) /\ \A r, s \in reqs : r.id = s.id => r = s
    BY DEF IInv, Pool
  <2>2. \A r, s \in reqs' : r.id = s.id => r = s
    BY DEF Pool
  <2>3. page'[d].inflight <=> \E q \in reqs' : IsSave(q, d)
    BY <2>1 DEF SameSaves, Saver, IsSave
  <2>4. ASSUME NEW p \in reqs', NEW q \in reqs', IsSave(p, d), IsSave(q, d) PROVE p = q
    <3>1. PICK r \in reqs : r.id = p.id /\ IsSave(r, d)
      BY <2>4 DEF SameSaves, IsSave
    <3>2. PICK s \in reqs : s.id = q.id /\ IsSave(s, d)
      BY <2>4 DEF SameSaves, IsSave
    <3> QED BY <2>1, <2>2, <3>1, <3>2 DEF Saver
  <2> QED BY <2>3, <2>4 DEF Saver
<1> QED BY <1>1, <1>2 DEF IInv

\* The handler of r goes on, and the page does not know.
LEMMA Moved ==
    ASSUME IInv, ServerTyped', CountsTyped', UNCHANGED page, NEW r \in reqs, NEW s \in RType,
           s.id = r.id, s.dev = r.dev, s.mine = r.mine, s.kind = r.kind, Fits(s),
           reqs' = (reqs \ {r}) \cup {s}
    PROVE  IInv'
<1>1. Pool(reqs') /\ PagesTyped'
  BY PoolReplace DEF IInv, PagesTyped
<1>2. SameSaves /\ LoginAlone'
  BY DEF SameSaves, IInv, LoginAlone
<1>3. \A q \in reqs' : q \in reqs \/ Fits(q)'
  BY DEF Fits
<1> QED BY <1>1, <1>2, <1>3, Keeps DEF IInv

\* A request is over that was no save, or one whose page is gone.
LEMMA Gone ==
    ASSUME IInv, ServerTyped', CountsTyped', UNCHANGED page, NEW r \in reqs,
           ~r.mine \/ r.kind # "save", reqs' = reqs \ {r}
    PROVE  IInv'
<1>1. Pool(reqs') /\ PagesTyped'
  BY PoolRemove DEF IInv, PagesTyped
<1>2. SameSaves /\ LoginAlone'
  BY DEF SameSaves, IInv, LoginAlone
<1> QED BY <1>1, <1>2, Keeps DEF IInv

\* The handler of r answers.
LEMMA AnswerMoves ==
    ASSUME IInv, ServerTyped', CountsTyped', UNCHANGED page, NEW r \in reqs, NEW s \in RType,
           NEW a \in Answers, r.pc \notin Answers,
           s.id = r.id, s.dev = r.dev, s.mine = r.mine, s.kind = r.kind, s.wrap = r.wrap,
           s.pw = r.pw \/ s.kind # "change", s.sid # 0 \/ (r.sid = s.sid /\ a # "ok"),
           AnsweredWith(r, a, s)
    PROVE  IInv'
<1>0. Fits(r) /\ r \in RType
  BY DEF IInv, Pool
<1>1. CASE r.mine
  <2>1. PICK t \in RType :
            /\ t.id = r.id /\ t.dev = r.dev /\ t.mine = r.mine /\ t.kind = r.kind
            /\ t.wrap = r.wrap /\ t.pw = s.pw /\ t.sid = s.sid /\ t.pc = a
            /\ reqs' = (reqs \ {r}) \cup {t}
    <3> DEFINE t == [s EXCEPT !.pc = a]
    <3>1. /\ t \in RType /\ t.id = r.id /\ t.dev = r.dev /\ t.mine = r.mine /\ t.kind = r.kind
          /\ t.wrap = r.wrap /\ t.pw = s.pw /\ t.sid = s.sid /\ t.pc = a
      BY DEF RType, Places
    <3>2. reqs' = (reqs \ {r}) \cup {t}
      BY <1>1 DEF AnsweredWith
    <3> HIDE DEF t
    <3> QED BY <3>1, <3>2
  <2>2. Fits(t)
    BY <1>0, <1>1, <2>1 DEF Fits, Answers
  <2> QED BY <2>1, <2>2, Moved
<1>2. CASE ~r.mine
  <2>1. reqs' = reqs \ {r}
    BY <1>2 DEF AnsweredWith
  <2> QED BY <1>2, <2>1, Gone
<1> QED BY <1>0, <1>1, <1>2 DEF RType

\* A page sends a request that is no save.
LEMMA Added ==
    ASSUME IInv, ServerTyped', CountsTyped', UNCHANGED page, NEW q \in RType,
           \A r \in reqs : r.id # q.id, q.kind \notin LoginKinds \cup {"save"}, Fits(q),
           reqs' = reqs \cup {q}
    PROVE  IInv'
<1>1. Pool(reqs') /\ PagesTyped'
  BY PoolAdd DEF IInv, PagesTyped
<1>2. SameSaves /\ LoginAlone'
  BY DEF SameSaves, IInv, LoginAlone
<1>3. \A p \in reqs' : p \in reqs \/ Fits(p)'
  BY DEF Fits
<1> QED BY <1>1, <1>2, <1>3, Keeps DEF IInv

-----------------------------------------------------------------------------
(* The server *)

\* What a step of a handler makes of its request.
LEMMA GoesFacts ==
    ASSUME NEW r \in RType, NEW p \in Places
    PROVE  LET s == [r EXCEPT !.pc = p] IN
           /\ s \in RType /\ s.id = r.id /\ s.dev = r.dev /\ s.mine = r.mine /\ s.kind = r.kind
           /\ s.sid = r.sid /\ s.wrap = r.wrap /\ s.pw = r.pw /\ s.pc = p
BY DEF RType

LEMMA RevokedTyped ==
    ASSUME sessions \subseteq SType, NEW keep
    PROVE  RevokeOthers(keep) \subseteq SType
BY DEF RevokeOthers, Revoked, SType

\* Steps of the server: a handler changes its own request, and no page.
LEMMA ServerKeeps ==
    ASSUME IInv, NEW r \in reqs, ServerStep(r)
    PROVE  IInv'
<1>0. /\ ServerTyped /\ CountsTyped /\ r \in RType /\ Fits(r) /\ CountsTyped'
      /\ sessions \subseteq SType /\ page \in [Devices -> PType]
  BY DEF IInv, ServerTyped, CountsTyped, PagesTyped, Pool, ServerStep, Authenticate, WriteBlob,
         Announce, ReadBlob, ReadRev, GetBlob, Verify, EnterCode, Mint, SwapCredentials,
         RevokeAllOthers, ListRevoked, KickDevices, RevokeOwn, Register, counts
<1>1. ASSUME NEW p \in Places, Goes(r, p), UNCHANGED page, ServerTyped',
             r.kind = "login" => p \in {"pending", "mint"},
             p = "swap" => r.kind = "change",
             p = "read" => r.kind \in {"pull", "loginGet"},
             p \in {"write", "readBlob", "readRev"} => r.kind \in {"save", "backup", "loginPut"},
             p = "register" => r.kind = "hello", p \notin Answers
      PROVE  IInv'
  <2>1. PICK s \in RType :
            /\ s.id = r.id /\ s.dev = r.dev /\ s.mine = r.mine /\ s.kind = r.kind
            /\ s.sid = r.sid /\ s.wrap = r.wrap /\ s.pw = r.pw /\ s.pc = p
            /\ reqs' = (reqs \ {r}) \cup {s}
    BY <1>0, <1>1, GoesFacts DEF Goes
  <2>2. Fits(s)
    BY <1>0, <1>1, <2>1 DEF Fits, Answers
  <2> QED BY <1>0, <1>1, <2>1, <2>2, Moved
<1>2. CASE Authenticate(r)
  <2>1. UNCHANGED page /\ ServerTyped' /\ r.pc = "auth" /\ r.kind # "login"
    BY <1>0, <1>2 DEF Authenticate, server, ServerTyped, Fits, Answers
  <2>2. CASE Answered(r, "denied") \/ Answered(r, "ok")
    <3>1. \E a \in Answers : AnsweredWith(r, a, r)
      BY <2>2 DEF Answered, AnsweredWith, Answers
    <3>2. r.sid # 0 /\ r.pc \notin Answers
      BY <1>0, <2>1 DEF Fits, Answers
    <3> QED BY <1>0, <2>1, <3>1, <3>2, AnswerMoves
  <2>3. CASE Goes(r, AfterAuth(r.kind)) /\ AfterAuth(r.kind) # "ok"
    <3>1. /\ AfterAuth(r.kind) \in Places \ Answers
          /\ AfterAuth(r.kind) # "swap"
          /\ AfterAuth(r.kind) = "read" => r.kind \in {"pull", "loginGet"}
          /\ AfterAuth(r.kind) \in {"write", "readBlob", "readRev"} =>
                 r.kind \in {"save", "backup", "loginPut"}
          /\ AfterAuth(r.kind) = "register" => r.kind = "hello"
      BY <1>0, <2>3 DEF AfterAuth, Places, Answers, RType, Kinds
    <3> QED BY <1>1, <2>1, <2>3, <3>1
  <2> QED BY <1>2, <2>2, <2>3 DEF Authenticate
<1>3. CASE WriteBlob(r)
  <2>1. /\ UNCHANGED <<page, password, sessions, lastSid>> /\ r.pc = "write"
        /\ r.kind \in {"save", "backup", "loginPut"}
    BY <1>0, <1>3 DEF WriteBlob, Fits
  <2>2. CASE /\ row' = [items |-> r.items, pw |-> r.wrap, rev |-> row.rev + 1]
             /\ Becomes(r, [r EXCEPT !.rev = row.rev + 1, !.pc = "announce"])
    <3>1. row.rev + 1 \in Nat
      BY <1>0 DEF ServerTyped
    <3>2. ServerTyped'
      BY <1>0, <2>1, <2>2, <3>1 DEF ServerTyped, RType
    <3>3. PICK s \in RType :
              /\ s.id = r.id /\ s.dev = r.dev /\ s.mine = r.mine /\ s.kind = r.kind
              /\ s.sid = r.sid /\ s.wrap = r.wrap /\ s.pc = "announce"
              /\ reqs' = (reqs \ {r}) \cup {s}
      <4> DEFINE s == [r EXCEPT !.rev = row.rev + 1, !.pc = "announce"]
      <4>1. /\ s \in RType /\ s.id = r.id /\ s.dev = r.dev /\ s.mine = r.mine
            /\ s.kind = r.kind /\ s.sid = r.sid /\ s.wrap = r.wrap /\ s.pc = "announce"
        BY <1>0, <3>1 DEF RType, Places
      <4>2. reqs' = (reqs \ {r}) \cup {s}
        BY <2>2 DEF Becomes
      <4> HIDE DEF s
      <4> QED BY <4>1, <4>2
    <3>4. Fits(s)
      BY <1>0, <2>1, <3>3 DEF Fits, Answers
    <3> QED BY <1>0, <2>1, <3>2, <3>3, <3>4, Moved
  <2>3. CASE Goes(r, "readBlob") /\ UNCHANGED row
    <3>1. ServerTyped'
      BY <1>0, <2>1, <2>3 DEF ServerTyped
    <3> QED BY <1>1, <2>1, <2>3, <3>1 DEF Places, Answers
  <2> QED BY <1>3, <2>2, <2>3 DEF WriteBlob
<1>4. CASE Announce(r) \/ KickDevices(r) \/ RevokeOwn(r)
  <2>1. UNCHANGED page /\ ServerTyped'
    <3>1. CASE Announce(r) \/ KickDevices(r)
      BY <1>0, <3>1 DEF Announce, KickDevices, server, ServerTyped
    <3>2. CASE RevokeOwn(r)
      <4>1. sessions' \subseteq SType /\ UNCHANGED <<page, password, row, lastSid>>
        BY <1>0, <3>2 DEF RevokeOwn, SType
      <4> QED BY <1>0, <4>1 DEF ServerTyped
    <3> QED BY <1>4, <3>1, <3>2
  <2>2. r.pc \notin Answers /\ r.sid # 0 /\ AnsweredWith(r, "ok", r)
    BY <1>0, <1>4 DEF Announce, KickDevices, RevokeOwn, Answered, AnsweredWith, Answers, Fits
  <2> QED BY <1>0, <2>1, <2>2, AnswerMoves DEF Answers
<1>5. CASE ReadBlob(r)
  <2>1. UNCHANGED page /\ ServerTyped' /\ r.pc = "readBlob"
    BY <1>0, <1>5 DEF ReadBlob, server, ServerTyped
  <2>2. PICK s \in RType :
            /\ s.id = r.id /\ s.dev = r.dev /\ s.mine = r.mine /\ s.kind = r.kind
            /\ s.sid = r.sid /\ s.wrap = r.wrap /\ s.pc = "readRev"
            /\ reqs' = (reqs \ {r}) \cup {s}
    <3> DEFINE s == [r EXCEPT !.items = row.items, !.pw = row.pw, !.pc = "readRev"]
    <3>1. /\ s \in RType /\ s.id = r.id /\ s.dev = r.dev /\ s.mine = r.mine
          /\ s.kind = r.kind /\ s.sid = r.sid /\ s.wrap = r.wrap /\ s.pc = "readRev"
      BY <1>0 DEF RType, Places, ServerTyped
    <3>2. reqs' = (reqs \ {r}) \cup {s}
      BY <1>5 DEF ReadBlob, Becomes
    <3> HIDE DEF s
    <3> QED BY <3>1, <3>2
  <2>3. Fits(s)
    BY <1>0, <2>1, <2>2 DEF Fits, Answers
  <2> QED BY <1>0, <2>1, <2>2, <2>3, Moved
<1>6. CASE ReadRev(r)
  <2>1. UNCHANGED page /\ ServerTyped' /\ r.pc = "readRev" /\ r.sid # 0
    BY <1>0, <1>6 DEF ReadRev, server, ServerTyped, Fits, Answers
  <2>2. PICK s \in RType :
            /\ s.id = r.id /\ s.dev = r.dev /\ s.mine = r.mine /\ s.kind = r.kind
            /\ s.sid = r.sid /\ s.wrap = r.wrap /\ s.pw = r.pw
            /\ AnsweredWith(r, "conflict", s)
    <3> DEFINE s == [r EXCEPT !.rev = row.rev]
    <3>1. /\ s \in RType /\ s.id = r.id /\ s.dev = r.dev /\ s.mine = r.mine
          /\ s.kind = r.kind /\ s.sid = r.sid /\ s.wrap = r.wrap /\ s.pw = r.pw
      BY <1>0 DEF RType, ServerTyped
    <3>2. AnsweredWith(r, "conflict", s)
      BY <1>6 DEF ReadRev
    <3> HIDE DEF s
    <3> QED BY <3>1, <3>2
  <2> QED BY <1>0, <2>1, <2>2, AnswerMoves DEF Answers
<1>7. CASE GetBlob(r)
  <2>1. UNCHANGED page /\ ServerTyped' /\ r.pc = "read" /\ r.sid # 0 /\ r.kind # "change"
    BY <1>0, <1>7 DEF GetBlob, server, ServerTyped, Fits, Answers
  <2>2. PICK s \in RType :
            /\ s.id = r.id /\ s.dev = r.dev /\ s.mine = r.mine /\ s.kind = r.kind
            /\ s.sid = r.sid /\ s.wrap = r.wrap
            /\ AnsweredWith(r, "ok", s)
    <3> DEFINE s == [r EXCEPT !.items = row.items, !.pw = row.pw, !.rev = row.rev]
    <3>1. /\ s \in RType /\ s.id = r.id /\ s.dev = r.dev /\ s.mine = r.mine
          /\ s.kind = r.kind /\ s.sid = r.sid /\ s.wrap = r.wrap
      BY <1>0 DEF RType, ServerTyped
    <3>2. AnsweredWith(r, "ok", s)
      BY <1>7 DEF GetBlob
    <3> HIDE DEF s
    <3> QED BY <3>1, <3>2
  <2> QED BY <1>0, <2>1, <2>2, AnswerMoves DEF Answers
<1>8. CASE Verify(r)
  <2>1. UNCHANGED page /\ ServerTyped' /\ r.pc = "verify"
    BY <1>0, <1>8 DEF Verify, server, ServerTyped
  <2>2. CASE Answered(r, "denied")
    <3>1. AnsweredWith(r, "denied", r) /\ r.pc \notin Answers
      BY <2>1, <2>2 DEF Answered, AnsweredWith, Answers
    <3> QED BY <1>0, <2>1, <3>1, AnswerMoves DEF Answers
  <2>3. CASE Goes(r, CASE r.kind = "change" -> "swap"
                       [] r.kind = "kickall" -> "revokeOthers"
                       [] r.kind = "login" /\ TwoFactor -> "pending"
                       [] OTHER -> "mint")
    <3>1. PICK p \in {"swap", "revokeOthers", "pending", "mint"} :
              /\ Goes(r, p) /\ (p = "swap" => r.kind = "change")
              /\ (r.kind = "login" => p \in {"pending", "mint"})
      BY <2>3
    <3> QED BY <1>1, <2>1, <3>1 DEF Places, Answers
  <2> QED BY <1>8, <2>2, <2>3 DEF Verify
<1>9. CASE EnterCode(r)
  <2>1. UNCHANGED page /\ ServerTyped' /\ r.pc = "pending"
    BY <1>0, <1>9 DEF EnterCode, server, ServerTyped
  <2>2. CASE Goes(r, "mint")
    BY <1>1, <2>1, <2>2 DEF Places, Answers
  <2>3. CASE ~r.mine /\ reqs' = reqs \ {r}
    BY <1>0, <2>1, <2>3, Gone
  <2> QED BY <1>9, <2>2, <2>3 DEF EnterCode
<1>10. CASE Mint(r)
  <2>1. PICK dev \in Devices \cup {None} :
            /\ dev = IF r.kind = "login" /\ TwoFactor THEN None ELSE r.dev
            /\ sessions' = (sessions \ {x \in sessions : dev # None /\ x.dev = dev}) \cup
                   {[sid |-> lastSid + 1, dev |-> dev, revoked |-> FALSE, pw |-> r.wrap]}
    BY <1>0, <1>10 DEF Mint, RType
  <2>2. lastSid + 1 \in Nat \ {0} /\ r.wrap \in Nat
    BY <1>0 DEF ServerTyped, RType
  <2>3. UNCHANGED <<page, password, row>> /\ lastSid' = lastSid + 1 /\ r.pc = "mint"
    BY <1>10 DEF Mint
  <2>31. [sid |-> lastSid + 1, dev |-> dev, revoked |-> FALSE, pw |-> r.wrap] \in SType
    BY <2>2 DEF SType
  <2>4. sessions' \subseteq SType
    BY <1>0, <2>1, <2>31
  <2>5. ServerTyped'
    BY <1>0, <2>2, <2>3, <2>4 DEF ServerTyped
  <2>6. PICK s \in RType :
            /\ s.id = r.id /\ s.dev = r.dev /\ s.mine = r.mine /\ s.kind = r.kind
            /\ s.sid = lastSid + 1 /\ s.wrap = r.wrap /\ s.pw = r.pw
            /\ AnsweredWith(r, "ok", s)
    <3> DEFINE s == [r EXCEPT !.sid = lastSid + 1]
    <3>1. /\ s \in RType /\ s.id = r.id /\ s.dev = r.dev /\ s.mine = r.mine
          /\ s.kind = r.kind /\ s.sid = lastSid + 1 /\ s.wrap = r.wrap /\ s.pw = r.pw
      BY <1>0, <2>2 DEF RType
    <3>2. AnsweredWith(r, "ok", s)
      BY <1>10 DEF Mint
    <3> HIDE DEF s
    <3> QED BY <3>1, <3>2
  <2> QED BY <1>0, <2>2, <2>3, <2>5, <2>6, AnswerMoves DEF Answers
<1>11. CASE SwapCredentials(r)
  <2>1. r.pw \in Nat \ {0} /\ UNCHANGED <<page, lastSid>> /\ password' = r.pw
        /\ row' = [row EXCEPT !.items = r.items, !.pw = r.pw]
    BY <1>0, <1>11 DEF SwapCredentials, Fits, RType
  <2>2. \A x \in SType : [x EXCEPT !.pw = IF x.sid = r.sid THEN r.pw ELSE @] \in SType
    BY <2>1 DEF SType
  <2>3. sessions' \subseteq SType
    BY <1>0, <1>11, <2>2, RevokedTyped DEF SwapCredentials
  <2>4. row' \in [items : Items, pw : Nat, rev : Nat]
    BY <1>0, <2>1 DEF ServerTyped, RType
  <2>5. ServerTyped'
    BY <1>0, <2>1, <2>3, <2>4 DEF ServerTyped
  <2> QED BY <1>0, <1>1, <1>11, <2>1, <2>5 DEF SwapCredentials, Places, Answers, Fits
<1>12. CASE RevokeAllOthers(r)
  <2>1. UNCHANGED <<page, lastSid, row, password>> /\ Goes(r, "list") /\ r.pc = "revokeOthers"
    BY <1>12 DEF RevokeAllOthers
  <2>2. ServerTyped'
    BY <1>0, <1>12, <2>1, RevokedTyped DEF RevokeAllOthers, ServerTyped
  <2> QED BY <1>0, <1>1, <2>1, <2>2 DEF Places, Answers, Fits
<1>13. CASE ListRevoked(r)
  <2>1. UNCHANGED page /\ ServerTyped' /\ r.pc = "list"
    BY <1>0, <1>13 DEF ListRevoked, server, ServerTyped
  <2>2. PICK K \in SUBSET Devices : Becomes(r, [r EXCEPT !.pc = "kick", !.kicks = K])
    BY <1>0, <1>13 DEF ListRevoked, DevicesOf, SType
  <2>3. PICK s \in RType :
            /\ s.id = r.id /\ s.dev = r.dev /\ s.mine = r.mine /\ s.kind = r.kind
            /\ s.sid = r.sid /\ s.wrap = r.wrap /\ s.pw = r.pw /\ s.pc = "kick"
            /\ reqs' = (reqs \ {r}) \cup {s}
    <3> DEFINE s == [r EXCEPT !.pc = "kick", !.kicks = K]
    <3>1. /\ s \in RType /\ s.id = r.id /\ s.dev = r.dev /\ s.mine = r.mine
          /\ s.kind = r.kind /\ s.sid = r.sid /\ s.wrap = r.wrap /\ s.pw = r.pw /\ s.pc = "kick"
      BY <1>0 DEF RType, Places
    <3>2. reqs' = (reqs \ {r}) \cup {s}
      BY <2>2 DEF Becomes
    <3> HIDE DEF s
    <3> QED BY <3>1, <3>2
  <2>4. Fits(s)
    BY <1>0, <2>1, <2>3 DEF Fits, Answers
  <2> QED BY <1>0, <2>1, <2>3, <2>4, Moved
<1>14. CASE Register(r)
  <2>1. /\ page' = [page EXCEPT ![r.dev].ws = r.mine \/ @,
                                ![r.dev].late = @ \/ (r.mine /\ \E s \in SidsOf(r.dev) : ~Live(s))]
        /\ reqs' = reqs \ {r} /\ r.kind = "hello" /\ ServerTyped'
    BY <1>0, <1>14 DEF Register, Fits, server, ServerTyped
  <2>2. /\ PagesTyped'
        /\ \A d \in Devices :
               /\ page'[d].at = page[d].at /\ page'[d].token = page[d].token
               /\ page'[d].pass = page[d].pass /\ page'[d].inflight = page[d].inflight
               /\ page'[d].queued = page[d].queued /\ page'[d].unsent = page[d].unsent
               /\ page'[d].timer = page[d].timer /\ page'[d].dropped = page[d].dropped
    BY <1>0, <2>1 DEF PagesTyped, PType, RType
  <2>3. Pool(reqs') /\ SameSaves /\ LoginAlone'
    BY <2>1, PoolRemove DEF IInv, SameSaves, LoginAlone
  <2>4. \A d \in Devices : PageFits(page'[d]) /\ (CanSave(page[d]) => CanSave(page'[d]))
    BY <2>2 DEF IInv, PageFits, CanSave
  <2>5. \A q \in reqs' : q \in reqs \/ Fits(q)'
    BY <2>1
  <2>6. \A d \in Devices : /\ page'[d].at = page[d].at
                           /\ CanSave(page[d]) => CanSave(page'[d])
                           /\ page'[d].inflight <=> page[d].inflight
                           /\ PageFits(page'[d])
    BY <2>2, <2>4
  <2>7. ServerTyped' /\ CountsTyped' /\ PagesTyped' /\ Pool(reqs') /\ SameSaves /\ LoginAlone'
    BY <1>0, <2>1, <2>2, <2>3
  <2> QED BY <2>5, <2>6, <2>7, Keeps
<1> QED BY <1>2, <1>3, <1>4, <1>5, <1>6, <1>7, <1>8, <1>9, <1>10, <1>11, <1>12, <1>13, <1>14
        DEF ServerStep

-----------------------------------------------------------------------------
(* The page *)

\* A page is written, and no save begins or ends.
LEMMA PageWritten ==
    ASSUME IInv, ServerTyped', CountsTyped', NEW d \in Devices, NEW p \in PType,
           page' = [page EXCEPT ![d] = p], p.at = page[d].at, CanSave(page[d]) => CanSave(p),
           p.inflight <=> page[d].inflight, PageFits(p),
           Pool(reqs'), SameSaves, LoginAlone', \A q \in reqs' : q \in reqs \/ Fits(q)'
    PROVE  IInv'
<1>1. page \in [Devices -> PType]
  BY DEF IInv, PagesTyped
<1>2. PagesTyped'
  BY <1>1 DEF PagesTyped
<1>3. \A e \in Devices : /\ page'[e].at = page[e].at
                         /\ CanSave(page[e]) => CanSave(page'[e])
                         /\ page'[e].inflight <=> page[e].inflight
                         /\ PageFits(page'[e])
  BY <1>1 DEF IInv
<1> QED BY <1>2, <1>3, Keeps

\* Nothing is sent and nothing is answered.
LEMMA QuietFacts ==
    ASSUME IInv, UNCHANGED reqs
    PROVE  Pool(reqs') /\ SameSaves /\ LoginAlone'
BY DEF IInv, SameSaves, LoginAlone

\* saveKeyBlobToServer begins a save, or leaves it to the one under way.  R is
\* what is left of the requests when the page has heard the answer to a save.
LEMMA SaveKeeps ==
    ASSUME IInv, ServerTyped', CountsTyped', NEW d \in Devices, NEW p \in PType, NEW n \in Nat,
           NEW R \in SUBSET reqs, SaveKeyBlob(d, p, n, R),
           page[d].at = "app", p.at = "app", CanSave(p),
           \A r \in reqs \ R : IsSave(r, d),
           p.inflight <=> \E r \in R : IsSave(r, d),
           Room(R) \/ \E i \in Ids : \A r \in R : r.id # i
    PROVE  IInv'
<1>0. /\ page \in [Devices -> PType] /\ Pool(reqs) /\ Pool(R)
      /\ page' = [page EXCEPT ![d] = PageAfterSave(p)] /\ reqs' = ReqsAfterSave(d, p, n, R)
  BY PoolRemove DEF IInv, PagesTyped, SaveKeyBlob
<1>1. CASE p.inflight
  <2>1. PICK p1 \in PType : p1 = [p EXCEPT !.queued = TRUE]
    BY DEF PType
  <2>2. /\ p1.at = "app" /\ CanSave(p1) /\ p1.inflight = TRUE /\ p1.queued = TRUE
    BY <1>1, <2>1 DEF PType, CanSave
  <2>3. page' = [page EXCEPT ![d] = p1] /\ reqs' = R
    BY <1>0, <1>1, <2>1 DEF PageAfterSave, ReqsAfterSave
  <2>4. R = reqs
    BY <1>1 DEF IInv, Saver
  <2>5. page[d].inflight
    BY <1>1, <2>4 DEF IInv, Saver
  <2>6. PageFits(p1)
    BY <2>2 DEF PageFits
  <2> QED BY <2>2, <2>3, <2>4, <2>5, <2>6, PageWritten, QuietFacts
<1>2. CASE ~p.inflight
  <2>1. PICK p1 \in PType : p1 = [p EXCEPT !.inflight = TRUE, !.unsent = FALSE]
    BY DEF PType
  <2>2. /\ p1.at = "app" /\ CanSave(p1) /\ p1.inflight = TRUE /\ p1.unsent = FALSE
    BY <1>2, <2>1 DEF PType, CanSave
  <2>3. FreeId(R) \in Ids /\ \A r \in R : r.id # FreeId(R)
    BY <1>0, FreshId
  <2>4. PICK q \in RType :
            /\ q.id = FreeId(R) /\ q.dev = d /\ q.mine = TRUE /\ q.kind = "save"
            /\ q.sid = p.token /\ q.pc = "auth" /\ q.wrap = p.pass
            /\ reqs' = R \cup {q}
    <3> DEFINE q == Request(FreeId(R), d, "save", p.token, p.local, p.pass, p.rev, n)
    <3>1. /\ q \in RType /\ q.id = FreeId(R) /\ q.dev = d /\ q.mine = TRUE /\ q.kind = "save"
          /\ q.sid = p.token /\ q.pc = "auth" /\ q.wrap = p.pass
      <4>1. /\ p.token \in Nat /\ p.local \in Items /\ p.pass \in Nat
            /\ p.rev \in Nat \cup {None} /\ "save" \in Kinds
        BY DEF PType, Kinds
      <4>2. PICK i \in Ids : i = FreeId(R)
        BY <2>3
      <4>3. PICK q1 : q1 = Request(i, d, "save", p.token, p.local, p.pass, p.rev, n)
        OBVIOUS
      <4>4. /\ q1 \in RType /\ q1.id = i /\ q1.dev = d /\ q1.mine = TRUE /\ q1.kind = "save"
            /\ q1.sid = p.token /\ q1.pc = "auth" /\ q1.wrap = p.pass
        BY <4>1, <4>3 DEF Request, RType, Places
      <4> QED BY <4>2, <4>3, <4>4
    <3>2. reqs' = R \cup {q}
      BY <1>0, <1>2 DEF ReqsAfterSave
    <3> HIDE DEF q
    <3> QED BY <3>1, <3>2
  <2>5. page' = [page EXCEPT ![d] = p1]
    BY <1>0, <1>2, <2>1 DEF PageAfterSave
  <2>6. /\ page' \in [Devices -> PType] /\ page'[d] = p1
        /\ \A e \in Devices : e # d => page'[e] = page[e]
        /\ \A e \in Devices : page'[e].at = page[e].at
    BY <1>0, <2>2, <2>5
  <2>7. Pool(reqs')
    BY <1>0, <2>3, <2>4, PoolAdd
  <2>8. LoginAlone'
    BY <2>4 DEF IInv, LoginAlone, LoginKinds
  <2>9. ASSUME NEW r \in reqs' PROVE Fits(r)'
    <3>1. CASE r = q
      BY <2>2, <2>4, <2>6, <3>1 DEF Fits, Answers, LoginKinds, CanSave
    <3>2. CASE r \in R
      <4>1. Fits(r) /\ r.dev \in Devices
        BY <3>2 DEF IInv, Pool, RType
      <4> QED BY <2>2, <2>6, <4>1 DEF Fits
    <3> QED BY <2>4, <3>1, <3>2
  <2>10. ASSUME NEW e \in Devices PROVE PageFits(page[e])' /\ Saver(e)'
    <3>1. CASE e = d
      BY <1>2, <2>2, <2>4, <2>6, <3>1 DEF PageFits, Saver, IsSave
    <3>2. CASE e # d
      <4>1. \A r : IsSave(r, e) => (r \in reqs' <=> r \in reqs)
        BY <2>4, <3>2 DEF IsSave
      <4> QED BY <2>6, <3>2, <4>1 DEF IInv, Saver
    <3> QED BY <3>1, <3>2
  <2> QED BY <2>6, <2>7, <2>8, <2>9, <2>10 DEF IInv, PagesTyped
<1> QED BY <1>1, <1>2 DEF PType

\* The answer to a save is heard, and no other begins.
LEMMA SaveEnds ==
    ASSUME IInv, ServerTyped', CountsTyped', NEW r \in reqs, NEW p \in PType, IsSave(r, r.dev),
           page' = [page EXCEPT ![r.dev] = p], reqs' = reqs \ {r},
           p.at = page[r.dev].at, CanSave(page[r.dev]) => CanSave(p), ~p.inflight, PageFits(p)
    PROVE  IInv'
<1>0. page \in [Devices -> PType] /\ Pool(reqs) /\ r.dev \in Devices
  BY DEF IInv, PagesTyped, Pool, RType
<1>1. /\ page' \in [Devices -> PType] /\ page'[r.dev] = p
      /\ \A e \in Devices : e # r.dev => page'[e] = page[e]
  BY <1>0
<1>2. Pool(reqs') /\ LoginAlone'
  BY <1>0, PoolRemove DEF IInv, LoginAlone
<1>3. ASSUME NEW q \in reqs' PROVE Fits(q)'
  <2>1. Fits(q) /\ q.dev \in Devices
    BY DEF IInv, Pool, RType
  <2> QED BY <1>1, <2>1 DEF Fits
<1>4. ASSUME NEW e \in Devices PROVE PageFits(page[e])' /\ Saver(e)'
  <2>1. CASE e = r.dev
    BY <1>1, <2>1 DEF IInv, Saver
  <2>2. CASE e # r.dev
    <3>1. \A q : IsSave(q, e) => (q \in reqs' <=> q \in reqs)
      BY <2>2 DEF IsSave
    <3> QED BY <1>1, <2>2, <3>1 DEF IInv, Saver
  <2> QED BY <2>1, <2>2
<1> QED BY <1>1, <1>2, <1>3, <1>4 DEF IInv, PagesTyped

-----------------------------------------------------------------------------
(* What the user does *)

\* s is the request of kind k that the page of d would send.
Sent(s, d, k) ==
    /\ s = Sends(d, k) /\ s.dev = d /\ s.mine = TRUE /\ s.kind = k
    /\ s.sid = page[d].token /\ s.pc = "auth" /\ s.wrap = page[d].pass
    /\ \A r \in reqs : r.id # s.id

\* A page with room for a request finds a free id.
LEMMA SendsFacts ==
    ASSUME IInv, NEW d \in Devices, NEW k \in Kinds, Room(reqs)
    PROVE  \E s \in RType : Sent(s, d, k)
<1>1. PICK i \in Ids : i = FreeId(reqs) /\ \A r \in reqs : r.id # i
  BY FreshId DEF IInv
<1>2. page[d].token \in Nat /\ page[d].pass \in Nat /\ Empty \in Items
  BY DEF IInv, PagesTyped, PType, Empty, Items
<1>3. PICK s : s = [id |-> i, dev |-> d, mine |-> TRUE, kind |-> k, sid |-> page[d].token,
                    pc |-> "auth", items |-> Empty, wrap |-> page[d].pass,
                    pw |-> page[d].pass, rev |-> None, n |-> 0, kicks |-> {}]
  OBVIOUS
<1>4. s = Sends(d, k)
  BY <1>1, <1>3 DEF Sends, Request
<1>5. /\ s \in RType /\ s.id = i /\ s.dev = d /\ s.mine = TRUE /\ s.kind = k
      /\ s.sid = page[d].token /\ s.pc = "auth" /\ s.wrap = page[d].pass
  BY <1>2, <1>3 DEF RType, Places
<1> QED BY <1>1, <1>4, <1>5 DEF Sent

\* A request of the app that is no save.
LEMMA AppSends ==
    ASSUME IInv, NEW d \in Devices, InApp(d), NEW q \in RType,
           \A r \in reqs : r.id # q.id, q.dev = d, q.kind \notin LoginKinds \cup {"save"},
           q.sid = page[d].token, q.wrap = page[d].pass, q.pc = "auth",
           q.kind = "change" => q.pw # 0,
           reqs' = reqs \cup {q}, UNCHANGED <<server, page>>, CountsTyped'
    PROVE  IInv'
<1>1. CanSave(page[d]) /\ ServerTyped'
  BY DEF IInv, PageFits, InApp, server, ServerTyped
<1>2. Fits(q)
  BY <1>1 DEF Fits, Answers, InApp, LoginKinds, CanSave
<1> QED BY <1>1, <1>2, Added

\* Requests of the user that need nothing of the page but a token.
LEMMA UserSends ==
    ASSUME IInv, NEW d \in Devices,
           \/ ChangePassword(d) \/ Reauth(d) \/ \E k \in Ops : PlainCall(d, k)
           \/ SaveBackupNow(d)
    PROVE  IInv'
<1>0. /\ page[d] \in PType /\ InApp(d) /\ Room(reqs) /\ UNCHANGED <<server, page>>
      /\ edits \in Nat /\ passwords \in Nat /\ CountsTyped'
  BY DEF IInv, PagesTyped, CountsTyped, ChangePassword, Reauth, PlainCall, SaveBackupNow, Does
<1>1. CASE ChangePassword(d)
  <2>1. "change" \in Kinds /\ page[d].local \in Items /\ passwords + 1 \in Nat \ {0}
    BY <1>0 DEF Kinds, PType
  <2>2. PICK s \in RType : Sent(s, d, "change")
    BY <1>0, <2>1, SendsFacts
  <2>3. PICK q : q = [s EXCEPT !.items = page[d].local, !.pw = passwords + 1]
    OBVIOUS
  <2>4. /\ q \in RType /\ q.id = s.id /\ q.dev = d /\ q.kind = "change"
        /\ q.sid = page[d].token /\ q.wrap = page[d].pass /\ q.pc = "auth" /\ q.pw # 0
    BY <2>1, <2>2, <2>3 DEF RType, Sent
  <2>5. reqs' = reqs \cup {q}
    BY <1>1, <2>2, <2>3 DEF ChangePassword, Does, Sent
  <2> QED BY <1>0, <2>2, <2>4, <2>5, AppSends DEF LoginKinds, Sent
<1>2. CASE SaveBackupNow(d)
  <2>1. "backup" \in Kinds /\ page[d].local \in Items
    BY <1>0 DEF Kinds, PType
  <2>2. PICK s \in RType : Sent(s, d, "backup")
    BY <1>0, <2>1, SendsFacts
  <2>3. PICK q : q = [s EXCEPT !.items = page[d].local]
    OBVIOUS
  <2>4. /\ q \in RType /\ q.id = s.id /\ q.dev = d /\ q.kind = "backup"
        /\ q.sid = page[d].token /\ q.wrap = page[d].pass /\ q.pc = "auth"
    BY <2>1, <2>2, <2>3 DEF RType, Sent
  <2>5. reqs' = reqs \cup {q}
    BY <1>2, <2>2, <2>3 DEF SaveBackupNow, Does, Sent
  <2> QED BY <1>0, <2>2, <2>4, <2>5, AppSends DEF LoginKinds, Sent
<1>3. CASE Reauth(d) \/ \E k \in Ops : PlainCall(d, k)
  <2>1. PICK k \in {"reauth", "kickall", "logout", "load"} : Does(d, k, Sends(d, k))
    BY <1>3 DEF Reauth, PlainCall
  <2>2. k \in Kinds /\ k \notin LoginKinds \cup {"save"} /\ k # "change"
    BY DEF Kinds, LoginKinds
  <2>3. PICK s \in RType : Sent(s, d, k)
    BY <1>0, <2>2, SendsFacts
  <2>4. reqs' = reqs \cup {s}
    BY <2>1, <2>3 DEF Does, Sent
  <2> QED BY <1>0, <2>2, <2>3, <2>4, AppSends DEF Sent
<1> QED BY <1>1, <1>2, <1>3

LEMMA LoginSends ==
    ASSUME IInv, NEW d \in Devices, Login(d)
    PROVE  IInv'
<1>0. /\ page \in [Devices -> PType] /\ page[d].at = "login" /\ Room(reqs)
      /\ \A r \in reqs : ~(r.dev = d /\ r.mine)
      /\ UNCHANGED <<server, page, edits, passwords>> /\ password \in Nat \ {0}
  BY DEF IInv, PagesTyped, PType, ServerTyped, Login, Does, InApp
<1>1. PICK s \in RType : Sent(s, d, "login")
  BY <1>0, SendsFacts DEF Kinds
<1>2. PICK q : q = [s EXCEPT !.pc = "verify", !.wrap = password]
  OBVIOUS
<1>3. /\ q \in RType /\ q.id = s.id /\ q.dev = d /\ q.kind = "login"
      /\ q.mine = TRUE /\ q.wrap = password /\ q.pc = "verify"
  BY <1>0, <1>1, <1>2 DEF RType, Places, Sent
<1>4. reqs' = reqs \cup {q}
  BY <1>1, <1>2 DEF Login, Does, Sent
<1>5. Pool(reqs') /\ SameSaves /\ LoginAlone'
  BY <1>0, <1>1, <1>3, <1>4, PoolAdd DEF IInv, SameSaves, LoginAlone, Sent
<1>6. UNCHANGED page
  BY <1>0
<1>7. Fits(q)
  BY <1>0, <1>3 DEF Fits, Answers, LoginKinds
<1>8. Fits(q)'
  BY <1>6, <1>7 DEF Fits
<1>9. ServerTyped' /\ CountsTyped' /\ PagesTyped'
  BY <1>0 DEF IInv, ServerTyped, CountsTyped, PagesTyped, server
<1>10. \A e \in Devices : PageFits(page[e])
  BY DEF IInv
<1>11. \A r \in reqs' : r \in reqs \/ Fits(r)'
  BY <1>4, <1>8
<1> QED BY <1>5, <1>6, <1>9, <1>10, <1>11, Keeps

\* A key is written.
LEMMA EditKeeps ==
    ASSUME IInv, NEW d \in Devices, NEW k \in Keys, Edit(d, k)
    PROVE  IInv'
<1>0. /\ page \in [Devices -> PType] /\ page[d].at = "app" /\ PageFits(page[d])
      /\ edits \in Nat /\ passwords \in Nat
      /\ UNCHANGED <<server, reqs, passwords>> /\ edits' = edits + 1
  BY DEF IInv, PagesTyped, CountsTyped, Edit, InApp
<1>1. PICK p \in PType :
          /\ page' = [page EXCEPT ![d] = p] /\ p.at = page[d].at /\ p.token = page[d].token
          /\ p.pass = page[d].pass /\ p.inflight = page[d].inflight /\ p.queued = page[d].queued
          /\ p.dropped = page[d].dropped /\ p.timer = TRUE
  <2> DEFINE p == [page[d] EXCEPT !.local[k] = edits + 1, !.timer = @ \/ page[d].token # 0,
                                  !.unsent = @ \/ page[d].token # 0]
  <2>1. page[d].token # 0
    BY <1>0 DEF PageFits, CanSave
  <2>2. [page[d].local EXCEPT ![k] = edits + 1] \in Items
    BY <1>0 DEF PType, Items
  <2>3. /\ p \in PType /\ p.at = page[d].at /\ p.token = page[d].token
        /\ p.pass = page[d].pass /\ p.inflight = page[d].inflight /\ p.queued = page[d].queued
        /\ p.dropped = page[d].dropped /\ p.timer = TRUE
    <3>1. page[d] \in PType
      BY <1>0
    <3> QED BY <2>1, <2>2, <3>1 DEF PType
  <2>4. page' = [page EXCEPT ![d] = p]
    BY <1>0 DEF Edit
  <2> HIDE DEF p
  <2> QED BY <2>3, <2>4
<1>2. CanSave(p) /\ PageFits(p)
  BY <1>0, <1>1 DEF PageFits, CanSave
<1>3. ServerTyped' /\ CountsTyped'
  BY <1>0 DEF IInv, ServerTyped, CountsTyped, server
<1> QED BY <1>0, <1>1, <1>2, <1>3, PageWritten, QuietFacts

-----------------------------------------------------------------------------
(* A page goes and another comes *)

\* The page of d is replaced by one that has sent no more than its hello.
LEMMA Shown ==
    ASSUME IInv, ServerTyped', CountsTyped', NEW d \in Devices, NEW p \in PType,
           page' = [page EXCEPT ![d] = p], PageFits(p), ~p.inflight,
           Pool(reqs'), \A q \in reqs' : Fits(q)',
           \A q \in reqs' : q.dev = d /\ q.mine => q.kind = "hello",
           \A q : q.dev # d => (q \in reqs' <=> q \in reqs)
    PROVE  IInv'
<1>1. /\ page' \in [Devices -> PType] /\ page'[d] = p
      /\ \A e \in Devices : e # d => page'[e] = page[e]
  BY DEF IInv, PagesTyped
<1>2. LoginAlone'
  <2>1. SUFFICES ASSUME NEW r \in reqs', NEW s \in reqs', r.mine, s.mine, r.dev = s.dev,
                        {r.kind, s.kind} \subseteq LoginKinds
                 PROVE  r = s
    BY DEF LoginAlone
  <2>2. r.dev # d
    BY <2>1 DEF LoginKinds
  <2> QED BY <2>1, <2>2 DEF IInv, LoginAlone
<1>3. ASSUME NEW e \in Devices PROVE PageFits(page[e])' /\ Saver(e)'
  <2>1. CASE e = d
    BY <1>1, <2>1 DEF PageFits, Saver, IsSave
  <2>2. CASE e # d
    <3>1. \A q : IsSave(q, e) => (q \in reqs' <=> q \in reqs)
      BY <2>2 DEF IsSave
    <3> QED BY <1>1, <2>2, <3>1 DEF IInv, Saver
  <2> QED BY <2>1, <2>2
<1> QED BY <1>1, <1>2, <1>3 DEF IInv, PagesTyped

\* What is left of requests R of which only d may have heard an answer.
LEMMA OrphanedFits ==
    ASSUME IInv, NEW d \in Devices, NEW R \in SUBSET reqs, \A r \in reqs \ R : r.dev = d,
           \A e \in Devices : e # d => page'[e] = page[e]
    PROVE  /\ Pool(Orphaned(d, R))
           /\ \A q \in Orphaned(d, R) : Fits(q)' /\ (q.dev = d => ~q.mine)
           /\ \A q : q.dev # d => (q \in Orphaned(d, R) <=> q \in reqs)
<1>1. Pool(R)
  BY PoolRemove DEF IInv
<1>2. ASSUME NEW q \in Orphaned(d, R) PROVE Fits(q)' /\ (q.dev = d => ~q.mine)
  <2>1. PICK r \in R :
            /\ q.dev = r.dev /\ q.kind = r.kind /\ q.pc = r.pc /\ q.sid = r.sid
            /\ q.wrap = r.wrap /\ q.pw = r.pw /\ q.mine = (r.mine /\ r.dev # d)
            /\ r.dev # d => q = r
            /\ r.dev # d \/ r.pc \notin Answers
    BY <1>1, OrphanedFacts
  <2>2. Fits(r) /\ r.dev \in Devices
    BY <1>1 DEF IInv, Pool, RType
  <2>3. CASE r.dev # d
    BY <2>1, <2>2, <2>3 DEF Fits
  <2>4. CASE r.dev = d
    <3>1. ~q.mine
      BY <2>1, <2>4
    <3> QED BY <2>1, <2>2, <2>4, <3>1 DEF Fits
  <2> QED BY <2>3, <2>4
<1>3. Pool(Orphaned(d, R))
  BY <1>1, OrphanedFacts
<1>4. ASSUME NEW q, q.dev # d PROVE q \in Orphaned(d, R) <=> q \in reqs
  <2>1. ASSUME q \in Orphaned(d, R) PROVE q \in reqs
    <3>1. PICK r \in R : q.dev = r.dev /\ (r.dev # d => q = r)
      BY <1>1, <2>1, OrphanedFacts
    <3> QED BY <1>4, <3>1
  <2>2. ASSUME q \in reqs PROVE q \in Orphaned(d, R)
    <3>1. q \in R
      BY <1>4, <2>2
    <3> QED BY <1>1, <1>4, <3>1, OrphanedFacts
  <2> QED BY <2>1, <2>2
<1> QED BY <1>2, <1>3, <1>4

LEMMA LeaveKeeps ==
    ASSUME IInv, ServerTyped', CountsTyped', NEW d \in Devices, NEW R \in SUBSET reqs,
           \A r \in reqs \ R : r.dev = d, Leave(d, R)
    PROVE  IInv'
<1>1. page \in [Devices -> PType]
  BY DEF IInv, PagesTyped
<1>2. PICK p \in PType : p = LoginPage(page[d].local) /\ PageFits(p) /\ ~p.inflight
  <2>1. PICK l \in Items : l = page[d].local
    BY <1>1 DEF PType
  <2>2. PICK w \in Items : w = Wiped(l)
    BY <2>1 DEF Wiped, Items
  <2>3. PICK p : p = [NewPage(0, 0, w) EXCEPT !.at = "login"]
    OBVIOUS
  <2>4. /\ p \in PType /\ p.at = "login" /\ p.inflight = FALSE /\ p.queued = FALSE
        /\ p.unsent = FALSE
    BY <2>3 DEF NewPage, PType
  <2>5. p = LoginPage(page[d].local)
    BY <2>1, <2>2, <2>3 DEF LoginPage
  <2> QED BY <2>4, <2>5 DEF PageFits
<1>3. page' = [page EXCEPT ![d] = p] /\ reqs' = Orphaned(d, R)
  BY <1>2 DEF Leave
<1>4. \A e \in Devices : e # d => page'[e] = page[e]
  BY <1>1, <1>3
<1>5. /\ Pool(reqs') /\ \A q \in reqs' : Fits(q)' /\ (q.dev = d => ~q.mine)
      /\ \A q : q.dev # d => (q \in reqs' <=> q \in reqs)
  BY <1>3, <1>4, OrphanedFits
<1> QED BY <1>2, <1>3, <1>5, Shown

\* A page of the app is loaded, when no answer to d is left in R.
LEMMA OpensKeeps ==
    ASSUME IInv, ServerTyped', CountsTyped', NEW d \in Devices, NEW t \in Nat \ {0},
           NEW w \in Nat \ {0}, NEW l \in Items, NEW R, Opens(d, NewPage(t, w, l), R),
           Pool(R), \A q \in R : Fits(q)' /\ (q.dev = d => ~q.mine),
           \A q : q.dev # d => (q \in R <=> q \in reqs),
           Room(R) \/ \E i \in Ids : \A r \in R : r.id # i
    PROVE  IInv'
<1>1. Renewing(d) \in BOOLEAN
  BY DEF Renewing
<1>2. PICK b \in BOOLEAN : b = Renewing(d)
  BY <1>1, Zenon
<1>3. PICK p \in PType : /\ p = [NewPage(t, w, l) EXCEPT !.late = Renewing(d)]
                         /\ p.at = "app" /\ CanSave(p) /\ PageFits(p) /\ ~p.inflight
  <2>1. PICK p : p = [NewPage(t, w, l) EXCEPT !.late = b]
    OBVIOUS
  <2>2. p \in PType /\ p.at = "app" /\ p.token # 0 /\ p.pass # 0 /\ p.inflight = FALSE
        /\ p.queued = FALSE /\ p.unsent = FALSE
    BY <2>1 DEF NewPage, PType
  <2> QED BY <1>2, <2>1, <2>2 DEF PageFits, CanSave
<1>4. page' = [page EXCEPT ![d] = p]
  BY <1>3 DEF Opens
<1>5. FreeId(R) \in Ids /\ \A r \in R : r.id # FreeId(R)
  BY FreshId
<1>6. PICK q \in RType :
          /\ q = Request(FreeId(R), d, "hello", t, Empty, w, None, 0)
          /\ q.id = FreeId(R) /\ q.dev = d /\ q.mine = TRUE /\ q.kind = "hello"
          /\ q.sid = t /\ q.wrap = w /\ q.pc = "auth"
  <2>1. PICK i \in Ids : i = FreeId(R)
    BY <1>5
  <2>2. PICK q : q = [id |-> i, dev |-> d, mine |-> TRUE, kind |-> "hello", sid |-> t,
                      pc |-> "auth", items |-> Empty, wrap |-> w, pw |-> w, rev |-> None,
                      n |-> 0, kicks |-> {}]
    OBVIOUS
  <2>3. Empty \in Items /\ "hello" \in Kinds /\ "auth" \in Places
    BY DEF Empty, Items, Kinds, Places
  <2>4. /\ q \in RType /\ q.id = i /\ q.dev = d /\ q.mine = TRUE /\ q.kind = "hello"
        /\ q.sid = t /\ q.wrap = w /\ q.pc = "auth"
    BY <2>2, <2>3 DEF RType
  <2>5. q = Request(FreeId(R), d, "hello", t, Empty, w, None, 0)
    BY <2>1, <2>2 DEF Request
  <2> QED BY <2>1, <2>4, <2>5
<1>7. reqs' = R \cup {q}
  <2>1. NewPage(t, w, l).token = t /\ NewPage(t, w, l).pass = w
    BY DEF NewPage
  <2> QED BY <1>6, <2>1 DEF Opens
<1>8. page'[d] = p
  BY <1>4 DEF IInv, PagesTyped
<1>9. Fits(q)'
  BY <1>3, <1>6, <1>8 DEF Fits, Answers, LoginKinds
<1>10. Pool(reqs')
  BY <1>5, <1>6, <1>7, PoolAdd
<1>11. \A r \in reqs' : Fits(r)' /\ (r.dev = d /\ r.mine => r.kind = "hello")
  BY <1>6, <1>7, <1>9
<1>12. \A r : r.dev # d => (r \in reqs' <=> r \in reqs)
  BY <1>6, <1>7
<1> QED BY <1>3, <1>4, <1>10, <1>11, <1>12, Shown

LEMMA ReloadKeeps ==
    ASSUME IInv, NEW d \in Devices, Reload(d)
    PROVE  IInv'
<1>1. /\ page \in [Devices -> PType] /\ page[d].at = "app" /\ CanSave(page[d])
      /\ Pool(reqs) /\ Room(reqs) /\ ServerTyped' /\ CountsTyped'
  BY DEF IInv, PagesTyped, PageFits, Reload, InApp, ServerTyped, CountsTyped, server
<1>2. PICK t \in Nat \ {0}, w \in Nat \ {0}, l \in Items :
          t = page[d].token /\ w = page[d].pass /\ l = page[d].local
  BY <1>1 DEF PType, CanSave
<1>3. Opens(d, NewPage(t, w, l), Orphaned(d, reqs))
  BY <1>2 DEF Reload
<1>4. \A e \in Devices : e # d => page'[e] = page[e]
  BY <1>1, <1>3 DEF Opens
<1>5. /\ Pool(Orphaned(d, reqs))
      /\ \A q \in Orphaned(d, reqs) : Fits(q)' /\ (q.dev = d => ~q.mine)
      /\ \A q : q.dev # d => (q \in Orphaned(d, reqs) <=> q \in reqs)
  BY <1>4, OrphanedFits
<1>6. \E i \in Ids : \A q \in Orphaned(d, reqs) : q.id # i
  <2>1. PICK i \in Ids : \A r \in reqs : r.id # i
    BY <1>1, FreshId
  <2>2. \A q \in Orphaned(d, reqs) : \E r \in reqs : q.id = r.id
    BY <1>1, OrphanedFacts
  <2> QED BY <2>1, <2>2
<1> QED BY <1>1, <1>3, <1>5, <1>6, OpensKeeps

-----------------------------------------------------------------------------
(* What the page hears *)

LEMMA TimerKeeps ==
    ASSUME IInv, NEW d \in Devices, TimerFires(d)
    PROVE  IInv'
<1>1. /\ page[d] \in PType /\ page[d].at = "app" /\ CanSave(page[d]) /\ Saver(d) /\ Room(reqs)
      /\ ServerTyped' /\ CountsTyped'
  BY DEF IInv, PagesTyped, PageFits, ServerTyped, CountsTyped, TimerFires, InApp, server, counts
<1>2. PICK p : p = [page[d] EXCEPT !.timer = FALSE]
  OBVIOUS
<1>3. /\ p \in PType /\ p.at = "app" /\ CanSave(p) /\ p.inflight = page[d].inflight
  BY <1>1, <1>2 DEF PType, CanSave
<1>4. SaveKeyBlob(d, p, 0, reqs)
  BY <1>2 DEF TimerFires
<1> QED BY <1>1, <1>3, <1>4, SaveKeeps DEF Saver

LEMMA BlobUpdatedKeeps ==
    ASSUME IInv, NEW d \in Devices, BlobUpdated(d)
    PROVE  IInv'
<1>1. /\ page[d] \in PType /\ InApp(d) /\ CanSave(page[d]) /\ UNCHANGED <<server, page>>
      /\ ServerTyped' /\ CountsTyped' /\ PagesTyped'
  BY DEF IInv, PagesTyped, PageFits, ServerTyped, CountsTyped, BlobUpdated, InApp, server, counts
<1>2. Room(reqs) /\ reqs' = reqs \cup {Sends(d, "pull")}
  BY <1>1 DEF BlobUpdated, Sends, CanSave
<1>3. PICK s \in RType : Sent(s, d, "pull")
  BY <1>1, <1>2, SendsFacts DEF Kinds
<1>4. reqs' = reqs \cup {s}
  BY <1>2, <1>3 DEF Sent
<1> QED BY <1>1, <1>3, <1>4, AppSends DEF Sent, LoginKinds

LEMMA RestoredTyped ==
    ASSUME NEW l \in Items, NEW b \in Items
    PROVE  Restored(l, b) \in Items
BY DEF Restored, Items

\* A save that is answered was sent by the page that hears it, which is a page
\* of the app with no other save under way.
LEMMA SaveAnsweredKeeps ==
    ASSUME IInv, NEW r \in reqs, SaveAnswered(r)
    PROVE  IInv'
<1> DEFINE d == r.dev
<1>0. /\ r \in RType /\ d \in Devices /\ r.kind = "save" /\ r.pc \in Answers /\ r.mine
      /\ page \in [Devices -> PType] /\ ServerTyped' /\ CountsTyped'
      /\ PageFits(page[d]) /\ Saver(d) /\ Pool(reqs)
  BY DEF IInv, PagesTyped, Pool, RType, Fits, ServerTyped, CountsTyped, SaveAnswered,
         server, counts
<1>1. page[d].at = "app" /\ CanSave(page[d])
  <2>1. page[d].at # "login"
    BY <1>0 DEF IInv, Fits, LoginKinds
  <2> QED BY <1>0, <2>1 DEF PType, PageFits
<1>2. IsSave(r, d) /\ \A s \in reqs \ {r} : ~IsSave(s, d)
  BY <1>0 DEF IsSave, Saver
<1>3. \E i \in Ids : \A s \in reqs \ {r} : s.id # i
  BY <1>0 DEF Pool, RType
<1>4. PICK f \in PType :
          /\ f = Freed(page[d]) /\ f.at = "app" /\ CanSave(f) /\ f.inflight = FALSE
          /\ f.queued = page[d].queued /\ f.unsent = page[d].unsent
          /\ f.timer = page[d].timer
  <2>1. PICK f : f = [page[d] EXCEPT !.inflight = FALSE]
    OBVIOUS
  <2>2. /\ f \in PType /\ f.at = "app" /\ CanSave(f) /\ f.inflight = FALSE
        /\ f.queued = page[d].queued /\ f.unsent = page[d].unsent /\ f.timer = page[d].timer
    <3>1. page[d] \in PType
      BY <1>0
    <3> QED BY <1>1, <2>1, <3>1 DEF PType, CanSave
  <2> QED BY <2>1, <2>2 DEF Freed
<1>5. ASSUME NEW p \in PType, NEW n \in Nat, p.at = "app", CanSave(p), p.inflight = FALSE,
             SaveKeyBlob(d, p, n, reqs \ {r})
      PROVE  IInv'
  <2>1. p.inflight <=> \E s \in reqs \ {r} : IsSave(s, d)
    BY <1>2, <1>5
  <2>2. \A s \in reqs \ (reqs \ {r}) : IsSave(s, d)
    BY <1>2
  <2> QED BY <1>0, <1>1, <1>3, <1>5, <2>1, <2>2, SaveKeeps
<1>6. CASE r.pc = "lost"
  <2>1. page' = [page EXCEPT ![d] = [f EXCEPT !.dropped = TRUE]] /\ reqs' = reqs \ {r}
    BY <1>4, <1>6 DEF SaveAnswered
  <2>2. PICK p : p = [f EXCEPT !.dropped = TRUE]
    OBVIOUS
  <2>3. /\ p \in PType /\ p.at = "app" /\ CanSave(p) /\ p.inflight = FALSE /\ p.dropped = TRUE
        /\ p.queued = f.queued /\ p.unsent = f.unsent /\ p.timer = f.timer
    BY <1>4, <2>2 DEF PType, CanSave
  <2>4. PageFits(p)
    BY <1>0, <1>4, <2>3 DEF PageFits
  <2> QED BY <1>0, <1>1, <1>2, <2>1, <2>2, <2>3, <2>4, SaveEnds
<1>7. CASE r.pc = "conflict" /\ r.n < MaxTries
  <2>1. PICK p \in PType :
            /\ p = IF r.pw = r.wrap
                   THEN [f EXCEPT !.local = Restored(@, r.items), !.rev = r.rev] ELSE f
            /\ p.at = "app" /\ CanSave(p) /\ p.inflight = FALSE
    <3>1. PICK l \in Items : l = Restored(f.local, r.items)
      BY <1>0, RestoredTyped DEF PType, RType
    <3>2. PICK p : p = [f EXCEPT !.local = l, !.rev = r.rev]
      OBVIOUS
    <3>3. p \in PType /\ p.at = "app" /\ CanSave(p) /\ p.inflight = FALSE
      BY <1>0, <1>4, <3>2 DEF PType, RType, CanSave
    <3>4. p = [f EXCEPT !.local = Restored(@, r.items), !.rev = r.rev]
      BY <3>1, <3>2
    <3> QED BY <1>4, <3>3, <3>4
  <2>2. SaveKeyBlob(d, p, r.n + 1, reqs \ {r})
    BY <1>4, <1>7, <2>1 DEF SaveAnswered
  <2>3. r.n + 1 \in Nat
    BY <1>0 DEF RType
  <2> QED BY <1>5, <2>1, <2>2, <2>3
<1>8. CASE r.pc # "lost" /\ ~(r.pc = "conflict" /\ r.n < MaxTries)
  <2>1. PICK k \in PType :
            /\ k = IF r.pc = "denied" THEN f ELSE [f EXCEPT !.rev = r.rev]
            /\ k.at = "app" /\ CanSave(k) /\ k.inflight = FALSE /\ k.queued = f.queued
            /\ k.unsent = f.unsent /\ k.timer = f.timer
    <3>1. PICK k : k = [f EXCEPT !.rev = r.rev]
      OBVIOUS
    <3>2. /\ k \in PType /\ k.at = "app" /\ CanSave(k) /\ k.inflight = FALSE
          /\ k.queued = f.queued /\ k.unsent = f.unsent /\ k.timer = f.timer
      BY <1>0, <1>4, <3>1 DEF PType, RType, CanSave
    <3> QED BY <1>4, <3>1, <3>2
  <2>2. CASE k.queued
    <3>1. PICK p : p = [k EXCEPT !.queued = FALSE]
      OBVIOUS
    <3>2. p \in PType /\ p.at = "app" /\ CanSave(p) /\ p.inflight = FALSE
      <4>1. k \in PType /\ k.at = "app" /\ CanSave(k) /\ k.inflight = FALSE
        BY <2>1
      <4> QED BY <3>1, <4>1 DEF PType, CanSave
    <3>3. SaveKeyBlob(d, p, 0, reqs \ {r})
      BY <1>4, <1>8, <2>1, <2>2, <3>1 DEF SaveAnswered, QueueGoes
    <3> QED BY <1>5, <3>2, <3>3
  <2>3. CASE ~k.queued
    <3>1. page' = [page EXCEPT ![d] = k] /\ reqs' = reqs \ {r}
      BY <1>4, <1>8, <2>1, <2>3 DEF SaveAnswered, QueueGoes
    <3>2. PageFits(k)
      BY <1>0, <1>4, <2>1, <2>3 DEF PageFits
    <3> QED BY <1>0, <1>1, <1>2, <2>1, <3>1, <3>2, SaveEnds
  <2> QED BY <2>2, <2>3
<1> QED BY <1>6, <1>7, <1>8

LEMMA PullAnsweredKeeps ==
    ASSUME IInv, NEW r \in reqs, PullAnswered(r)
    PROVE  IInv'
<1> DEFINE d == r.dev
<1>0. /\ r \in RType /\ d \in Devices /\ r.kind = "pull" /\ reqs' = reqs \ {r}
      /\ page \in [Devices -> PType] /\ PageFits(page[d])
      /\ ServerTyped' /\ CountsTyped'
  BY DEF IInv, PagesTyped, Pool, RType, ServerTyped, CountsTyped, PullAnswered, server, counts
<1>1. CASE page' = [page EXCEPT ![d].local = Restored(@, r.items)]
  <2>1. PICK l \in Items : l = Restored(page[d].local, r.items)
    BY <1>0, RestoredTyped DEF PType, RType
  <2>2. PICK p : p = [page[d] EXCEPT !.local = l]
    OBVIOUS
  <2>3. /\ p \in PType /\ p.at = page[d].at /\ p.token = page[d].token
        /\ p.pass = page[d].pass /\ p.inflight = page[d].inflight /\ p.queued = page[d].queued
        /\ p.dropped = page[d].dropped /\ p.timer = page[d].timer /\ p.unsent = page[d].unsent
    BY <1>0, <2>2 DEF PType
  <2>4. page' = [page EXCEPT ![d] = p]
    BY <1>0, <1>1, <2>1, <2>2
  <2>5. PageFits(p) /\ (CanSave(page[d]) => CanSave(p))
    BY <1>0, <2>3 DEF PageFits, CanSave
  <2>6. Pool(reqs') /\ SameSaves /\ LoginAlone'
    BY <1>0, PoolRemove DEF IInv, SameSaves, LoginAlone
  <2> QED BY <1>0, <2>3, <2>4, <2>5, <2>6, PageWritten
<1>2. CASE UNCHANGED page
  BY <1>0, <1>2, Gone
<1> QED BY <1>1, <1>2 DEF PullAnswered

LEMMA LoginAnsweredKeeps ==
    ASSUME IInv, NEW r \in reqs, LoginAnswered(r)
    PROVE  IInv'
<1>0. /\ r \in RType /\ r.kind = "login" /\ Fits(r) /\ Pool(reqs) /\ UNCHANGED page
      /\ r.pc \in Answers /\ ServerTyped' /\ CountsTyped' /\ PagesTyped'
  BY DEF IInv, PagesTyped, Pool, ServerTyped, CountsTyped, LoginAnswered, server, counts
<1>1. CASE r.pc = "ok"
  <2>1. PICK q \in RType :
            /\ q = [Request(r.id, r.dev, "loginGet", r.sid, Empty, r.wrap, None, 0)
                        EXCEPT !.mine = r.mine]
            /\ q.id = r.id /\ q.dev = r.dev /\ q.mine = r.mine /\ q.kind = "loginGet"
            /\ q.sid = r.sid /\ q.wrap = r.wrap /\ q.pc = "auth"
    <3>1. PICK s : s = Request(r.id, r.dev, "loginGet", r.sid, Empty, r.wrap, None, 0)
      OBVIOUS
    <3>2. PICK q : q = [s EXCEPT !.mine = r.mine]
      OBVIOUS
    <3>3. Empty \in Items /\ "loginGet" \in Kinds /\ "auth" \in Places
      BY DEF Empty, Items, Kinds, Places
    <3>4. /\ s \in RType /\ s.id = r.id /\ s.dev = r.dev /\ s.kind = "loginGet"
          /\ s.sid = r.sid /\ s.wrap = r.wrap /\ s.pc = "auth"
      BY <1>0, <3>1, <3>3 DEF RType, Request
    <3>5. /\ q \in RType /\ q.id = r.id /\ q.dev = r.dev /\ q.mine = r.mine
          /\ q.kind = "loginGet" /\ q.sid = r.sid /\ q.wrap = r.wrap /\ q.pc = "auth"
      BY <1>0, <3>2, <3>4 DEF RType
    <3> QED BY <3>1, <3>2, <3>5
  <2>2. reqs' = (reqs \ {r}) \cup {q}
    BY <1>1, <2>1 DEF LoginAnswered, Becomes
  <2>3. Fits(q)
    BY <1>0, <1>1, <2>1 DEF Fits, Answers, LoginKinds
  <2>4. Fits(q)'
    BY <1>0, <2>3 DEF Fits
  <2>5. Pool(reqs')
    BY <1>0, <2>1, <2>2, PoolReplace
  <2>6. SameSaves
    BY <1>0, <2>1, <2>2 DEF SameSaves
  <2>7. LoginAlone'
    <3>1. r.mine /\ r.kind \in LoginKinds
      BY <1>0 DEF Fits, LoginKinds
    <3>2. \A s \in reqs : s.mine /\ s.dev = r.dev /\ s.kind \in LoginKinds => s = r
      BY <3>1 DEF IInv, LoginAlone
    <3>3. \A s \in reqs' : s.mine /\ s.dev = r.dev /\ s.kind \in LoginKinds => s = q
      BY <2>2, <3>2
    <3>4. ASSUME NEW s \in reqs', NEW t \in reqs', s.mine, t.mine, s.dev = t.dev,
                 s.kind \in LoginKinds, t.kind \in LoginKinds
          PROVE  s = t
      <4>1. CASE s.dev = r.dev
        BY <3>3, <3>4, <4>1
      <4>2. CASE s.dev # r.dev
        <5>1. s \in reqs /\ t \in reqs
          BY <2>1, <2>2, <3>4, <4>2
        <5> QED BY <3>4, <5>1 DEF IInv, LoginAlone
      <4> QED BY <4>1, <4>2
    <3> QED BY <3>4 DEF LoginAlone
  <2>8. \A p \in reqs' : p \in reqs \/ Fits(p)'
    BY <2>2, <2>4
  <2>9. \A e \in Devices : PageFits(page[e])
    BY DEF IInv
  <2> QED BY <1>0, <2>5, <2>6, <2>7, <2>8, <2>9, Keeps
<1>2. CASE r.pc # "ok"
  <2>1. reqs' = reqs \ {r}
    BY <1>2 DEF LoginAnswered
  <2> QED BY <1>0, <2>1, Gone
<1> QED BY <1>1, <1>2

LEMMA LoginBlobAnsweredKeeps ==
    ASSUME IInv, NEW r \in reqs, LoginBlobAnswered(r)
    PROVE  IInv'
<1> DEFINE d == r.dev
<1>0. /\ r \in RType /\ d \in Devices /\ r.kind = "loginGet" /\ Fits(r) /\ r.mine
      /\ page \in [Devices -> PType] /\ PageFits(page[d]) /\ page[d].at = "login"
      /\ r.sid # 0 /\ r.wrap # 0 /\ Pool(reqs) /\ ServerTyped' /\ CountsTyped'
  BY DEF IInv, PagesTyped, Pool, RType, ServerTyped, CountsTyped, LoginBlobAnswered, Fits,
         LoginKinds, server, counts
<1>1. PICK l \in Items :
          /\ page' = [page EXCEPT ![d].local = l, ![d].token = r.sid, ![d].pass = r.wrap]
          /\ Becomes(r, Request(r.id, d, "loginPut", r.sid, l, r.wrap, None, 0))
  <2>1. PICK l : l = IF r.pc = "ok" /\ r.pw = r.wrap
                     THEN Restored(page[d].local, r.items) ELSE page[d].local
    OBVIOUS
  <2>2. page[d].local \in Items /\ r.items \in Items
    BY <1>0 DEF PType, RType
  <2>3. l \in Items
    BY <2>1, <2>2, RestoredTyped
  <2> QED BY <2>1, <2>3 DEF LoginBlobAnswered
<1>2. PICK p : p = [page[d] EXCEPT !.local = l, !.token = r.sid, !.pass = r.wrap]
  OBVIOUS
<1>3. /\ p \in PType /\ p.at = page[d].at /\ p.token = r.sid /\ p.pass = r.wrap
      /\ p.inflight = page[d].inflight /\ p.queued = page[d].queued
      /\ p.dropped = page[d].dropped /\ p.timer = page[d].timer /\ p.unsent = page[d].unsent
  <2>1. page[d] \in PType /\ r.sid \in Nat /\ r.wrap \in Nat
    BY <1>0 DEF RType
  <2> QED BY <1>2, <2>1 DEF PType
<1>4. page' = [page EXCEPT ![d] = p]
  BY <1>0, <1>1, <1>2
<1>5. PageFits(p) /\ CanSave(p)
  BY <1>0, <1>3 DEF PageFits, CanSave
<1>6. PICK q \in RType :
          /\ q = Request(r.id, d, "loginPut", r.sid, l, r.wrap, None, 0)
          /\ q.id = r.id /\ q.dev = d /\ q.mine = TRUE /\ q.kind = "loginPut"
          /\ q.sid = r.sid /\ q.wrap = r.wrap /\ q.pc = "auth"
  <2>1. PICK q : q = Request(r.id, d, "loginPut", r.sid, l, r.wrap, None, 0)
    OBVIOUS
  <2>2. "loginPut" \in Kinds /\ "auth" \in Places
    BY DEF Kinds, Places
  <2>3. /\ q \in RType /\ q.id = r.id /\ q.dev = d /\ q.mine = TRUE /\ q.kind = "loginPut"
        /\ q.sid = r.sid /\ q.wrap = r.wrap /\ q.pc = "auth"
    BY <1>0, <2>1, <2>2 DEF RType, Request
  <2> QED BY <2>1, <2>3
<1>7. reqs' = (reqs \ {r}) \cup {q}
  BY <1>1, <1>6 DEF Becomes
<1>8. page'[d] = p
  BY <1>0, <1>4
<1>9. Fits(q)'
  BY <1>0, <1>3, <1>5, <1>6, <1>8 DEF Fits, Answers, LoginKinds
<1>10. Pool(reqs')
  BY <1>0, <1>6, <1>7, PoolReplace
<1>11. SameSaves /\ LoginAlone'
  BY <1>0, <1>6, <1>7 DEF IInv, SameSaves, LoginAlone, LoginKinds
<1>12. \A s \in reqs' : s \in reqs \/ Fits(s)'
  BY <1>7, <1>9
<1> QED BY <1>0, <1>3, <1>4, <1>5, <1>10, <1>11, <1>12, PageWritten

LEMMA LoginSaveAnsweredKeeps ==
    ASSUME IInv, NEW r \in reqs, LoginSaveAnswered(r)
    PROVE  IInv'
<1> DEFINE d == r.dev
<1>0. /\ r \in RType /\ d \in Devices /\ r.kind = "loginPut" /\ r.mine
      /\ page \in [Devices -> PType] /\ CanSave(page[d]) /\ page[d].at = "login"
      /\ Pool(reqs) /\ ServerTyped' /\ CountsTyped'
  BY DEF IInv, PagesTyped, Pool, RType, ServerTyped, CountsTyped, LoginSaveAnswered, Fits,
         LoginKinds, server, counts
<1>1. PICK t \in Nat \ {0}, w \in Nat \ {0}, l \in Items :
          t = page[d].token /\ w = page[d].pass /\ l = page[d].local
  BY <1>0 DEF PType, CanSave
<1>2. Opens(d, NewPage(t, w, l), reqs \ {r})
  BY <1>1 DEF LoginSaveAnswered
<1>3. \A e \in Devices : e # d => page'[e] = page[e]
  BY <1>0, <1>2 DEF Opens
<1>4. ASSUME NEW q \in reqs \ {r} PROVE Fits(q)' /\ (q.dev = d => ~q.mine)
  <2>1. Fits(q) /\ q.dev \in Devices
    BY DEF IInv, Pool, RType
  <2>2. q.dev = d => ~q.mine
    <3>1. SUFFICES ASSUME q.dev = d, q.mine PROVE FALSE
      OBVIOUS
    <3>2. q.kind \in LoginKinds
      BY <1>0, <2>1, <3>1 DEF Fits
    <3> QED BY <1>0, <3>1, <3>2 DEF IInv, LoginAlone, LoginKinds
  <2> QED BY <1>3, <2>1, <2>2 DEF Fits
<1>5. Pool(reqs \ {r})
  BY <1>0, PoolRemove
<1>6. \E i \in Ids : \A q \in reqs \ {r} : q.id # i
  BY <1>0 DEF Pool, RType
<1>7. \A q : q.dev # d => (q \in reqs \ {r} <=> q \in reqs)
  OBVIOUS
<1> QED BY <1>0, <1>2, <1>4, <1>5, <1>6, <1>7, OpensKeeps

\* The page leaves, or forgets a request that was no save.
LEMMA OthersKeep ==
    ASSUME IInv, NEW r \in reqs, Refused(r) \/ OtherAnswered(r) \/ LogoutAnswered(r)
    PROVE  IInv'
<1>0. r.dev \in Devices /\ ServerTyped' /\ CountsTyped'
  BY DEF IInv, Pool, RType, ServerTyped, CountsTyped, Refused, OtherAnswered, LogoutAnswered,
         server, counts
<1>1. CASE Leave(r.dev, reqs \ {r})
  BY <1>0, <1>1, LeaveKeeps
<1>2. CASE reqs' = reqs \ {r} /\ UNCHANGED page /\ r.kind # "save"
  BY <1>0, <1>2, Gone
<1> QED BY <1>1, <1>2 DEF Refused, OtherAnswered, LogoutAnswered

LEMMA CredentialKeeps ==
    ASSUME IInv, NEW r \in reqs, CredentialAnswered(r)
    PROVE  IInv'
<1> DEFINE d == r.dev
<1>0. /\ r \in RType /\ d \in Devices /\ r.kind \in {"change", "reauth"} /\ Fits(r)
      /\ page \in [Devices -> PType] /\ page[d] \in PType /\ PageFits(page[d])
      /\ reqs' = reqs \ {r}
      /\ ServerTyped' /\ CountsTyped'
  BY DEF IInv, PagesTyped, Pool, RType, ServerTyped, CountsTyped, CredentialAnswered,
         server, counts
<1>1. CASE UNCHANGED page
  BY <1>0, <1>1, Gone
<1>2. ASSUME NEW p \in PType, page' = [page EXCEPT ![d] = p], p.at = page[d].at,
             p.token = page[d].token \/ p.token # 0, p.pass = page[d].pass \/ p.pass # 0,
             p.inflight = page[d].inflight, p.queued = page[d].queued,
             p.dropped = page[d].dropped \/ p.dropped = TRUE, p.timer = page[d].timer,
             p.unsent = page[d].unsent
      PROVE  IInv'
  <2>1. PageFits(p) /\ (CanSave(page[d]) => CanSave(p))
    BY <1>0, <1>2 DEF PageFits, CanSave
  <2>2. Pool(reqs') /\ SameSaves /\ LoginAlone'
    BY <1>0, PoolRemove DEF IInv, SameSaves, LoginAlone
  <2> QED BY <1>0, <1>2, <2>1, <2>2, PageWritten
<1>3. CASE r.kind = "change" /\ page' = [page EXCEPT ![d].pass = r.pw]
  <2>1. PICK p : p = [page[d] EXCEPT !.pass = r.pw]
    OBVIOUS
  <2>2. page' = [page EXCEPT ![d] = p]
    BY <1>0, <1>3, <2>1
  <2>3. r.pw \in Nat /\ r.pw # 0
    BY <1>0, <1>3 DEF Fits, RType
  <2> QED BY <1>0, <1>2, <2>1, <2>2, <2>3 DEF PType
<1>4. CASE r.pc = "ok" /\ page' = [page EXCEPT
               ![d].token = r.sid, ![d].dropped = @ \/ ~\E x \in sessions : x.sid = r.sid]
  <2>1. (page[d].dropped \/ ~\E x \in sessions : x.sid = r.sid) \in BOOLEAN
    OBVIOUS
  <2>2. PICK b \in BOOLEAN : b = (page[d].dropped \/ ~\E x \in sessions : x.sid = r.sid)
    BY <2>1, Zenon
  <2>3. PICK p : p = [page[d] EXCEPT !.token = r.sid, !.dropped = b]
    OBVIOUS
  <2>4. page' = [page EXCEPT ![d] = p]
    BY <1>0, <1>4, <2>2, <2>3
  <2>5. r.sid \in Nat /\ r.sid # 0
    BY <1>0, <1>4 DEF Fits, RType
  <2>6. b = page[d].dropped \/ b = TRUE
    BY <1>0, <2>2 DEF PType
  <2> QED BY <1>0, <1>2, <2>3, <2>4, <2>5, <2>6 DEF PType
<1>5. CASE page' = [page EXCEPT ![d].dropped = TRUE]
  <2>1. PICK p : p = [page[d] EXCEPT !.dropped = TRUE]
    OBVIOUS
  <2>2. page' = [page EXCEPT ![d] = p]
    BY <1>0, <1>5, <2>1
  <2> QED BY <1>0, <1>2, <2>1, <2>2 DEF PType
<1> QED BY <1>1, <1>3, <1>4, <1>5 DEF CredentialAnswered

LEMMA LoseKeeps ==
    ASSUME IInv, NEW r \in reqs, Lose(r)
    PROVE  IInv'
<1>0. /\ r \in RType /\ Fits(r) /\ r.mine /\ Goes(r, "lost") /\ UNCHANGED page
      /\ ServerTyped' /\ CountsTyped'
  BY DEF IInv, Pool, ServerTyped, CountsTyped, Lose, server
<1>1. PICK s \in RType :
          /\ s.id = r.id /\ s.dev = r.dev /\ s.mine = r.mine /\ s.kind = r.kind
          /\ s.sid = r.sid /\ s.wrap = r.wrap /\ s.pw = r.pw /\ s.pc = "lost"
          /\ reqs' = (reqs \ {r}) \cup {s}
  BY ZenonT(60), <1>0, GoesFacts DEF Goes, Places, Answers
<1>2. Fits(s)
  BY <1>0, <1>1 DEF Fits, Answers
<1> QED BY <1>0, <1>1, <1>2, Moved

-----------------------------------------------------------------------------
(* The invariant *)

\* Sessions are numbered in some way.
LEMMA Numbered ==
    \E f \in [SignedIn -> 1..Cardinality(SignedIn)] :
        \A d, e \in SignedIn : f[d] = f[e] => d = e
<1>1. IsFiniteSet(SignedIn) /\ Cardinality(SignedIn) \in Nat
  BY DeviceAssumption, FS_Subset, FS_CardinalityType
<1>2. PICK n \in Nat : n = Cardinality(SignedIn)
  BY <1>1
<1>3. PICK g : g \in Bijection(1..n, SignedIn)
  BY <1>1, <1>2, FS_NatBijection, FS_CountingElements DEF ExistsBijection
<1> DEFINE f == [d \in SignedIn |-> CHOOSE i \in 1..n : g[i] = d]
<1>4. \A d \in SignedIn : f[d] \in 1..n /\ g[f[d]] = d
  BY <1>3 DEF Bijection, Surjection
<1>5. f \in [SignedIn -> 1..n]
  BY <1>4
<1> HIDE DEF f
<1>6. \A d, e \in SignedIn : f[d] = f[e] => d = e
  BY <1>4
<1> QED BY <1>2, <1>5, <1>6

LEMMA InitInv == Init => IInv
<1> SUFFICES ASSUME Init PROVE IInv
  OBVIOUS
<1>1. PICK f \in [SignedIn -> 1..Cardinality(SignedIn)] :
          /\ sessions = {[sid |-> f[d], dev |-> d, revoked |-> FALSE, pw |-> 1] :
                          d \in SignedIn}
          /\ page = [d \in Devices |->
                      IF d \in SignedIn THEN [NewPage(f[d], 1, Empty) EXCEPT !.ws = TRUE]
                      ELSE LoginPage(Empty)]
  <2>1. PICK f : f = CHOOSE h \in [SignedIn -> 1..Cardinality(SignedIn)] :
                         \A d, e \in SignedIn : h[d] = h[e] => d = e
    OBVIOUS
  <2>2. f \in [SignedIn -> 1..Cardinality(SignedIn)]
    BY <2>1, Numbered
  <2> QED BY <2>1, <2>2 DEF Init
<1>2. /\ Cardinality(SignedIn) \in Nat /\ SignedIn \subseteq Devices /\ Empty \in Items
      /\ \A d \in SignedIn : f[d] \in Nat \ {0}
  <2>1. Cardinality(SignedIn) \in Nat
    BY DeviceAssumption, FS_Subset, FS_CardinalityType
  <2> QED BY <1>1, <2>1, DeviceAssumption DEF Empty, Items
<1>3. ServerTyped /\ CountsTyped
  <2>1. ASSUME NEW x \in sessions PROVE x \in SType
    <3>1. PICK d \in SignedIn : x = [sid |-> f[d], dev |-> d, revoked |-> FALSE, pw |-> 1]
      BY <1>1
    <3>2. PICK i \in Nat : i = f[d]
      BY <1>2
    <3>3. x = [sid |-> i, dev |-> d, revoked |-> FALSE, pw |-> 1] /\ d \in Devices
      BY <1>2, <3>1, <3>2
    <3> QED BY <3>3 DEF SType
  <2>2. row \in [items : Items, pw : Nat, rev : Nat]
    BY <1>2 DEF Init
  <2>3. password \in Nat \ {0} /\ lastSid \in Nat /\ edits \in Nat /\ passwords \in Nat
    BY <1>2 DEF Init
  <2> QED BY <2>1, <2>2, <2>3 DEF ServerTyped, CountsTyped
<1>4. ASSUME NEW d \in Devices
      PROVE  page[d] \in PType /\ PageFits(page[d]) /\ ~page[d].inflight
  <2>1. CASE d \in SignedIn
    <3>1. PICK s \in Nat \ {0} : s = f[d]
      BY <1>2, <2>1
    <3>2. PICK p : p = [NewPage(s, 1, Empty) EXCEPT !.ws = TRUE]
      OBVIOUS
    <3>3. /\ p \in PType /\ p.at = "app" /\ p.token = s /\ p.pass = 1 /\ p.inflight = FALSE
          /\ p.queued = FALSE /\ p.unsent = FALSE
      BY <1>2, <3>2 DEF NewPage, PType
    <3>4. page[d] = p
      BY <1>1, <2>1, <3>1, <3>2
    <3> QED BY <3>1, <3>3, <3>4 DEF PageFits, CanSave
  <2>2. CASE d \notin SignedIn
    <3>1. PICK w \in Items : w = Wiped(Empty)
      BY <1>2 DEF Wiped, Items
    <3>2. PICK p : p = [NewPage(0, 0, w) EXCEPT !.at = "login"]
      OBVIOUS
    <3>3. /\ p \in PType /\ p.at = "login" /\ p.inflight = FALSE /\ p.queued = FALSE
          /\ p.unsent = FALSE
      BY <3>2 DEF NewPage, PType
    <3>4. page[d] = p
      BY <1>1, <2>2, <3>1, <3>2 DEF LoginPage
    <3> QED BY <3>3, <3>4 DEF PageFits
  <2> QED BY <2>1, <2>2
<1>5. reqs = {}
  BY DEF Init
<1>6. PagesTyped
  <2>1. page = [d \in Devices |-> page[d]]
    BY <1>1
  <2> QED BY <1>4, <2>1 DEF PagesTyped
<1> QED BY <1>3, <1>4, <1>5, <1>6 DEF IInv, Pool, LoginAlone, Saver

LEMMA NextInv == IInv /\ [Next]_vars => IInv'
<1> SUFFICES ASSUME IInv, [Next]_vars PROVE IInv'
  OBVIOUS
<1>1. ASSUME NEW d \in Devices, UserStep(d) PROVE IInv'
  <2>1. CASE Login(d)
    BY <2>1, LoginSends
  <2>2. CASE Reload(d)
    BY <2>2, ReloadKeeps
  <2>3. CASE \E k \in Keys : Edit(d, k)
    BY <2>3, EditKeeps
  <2>4. CASE ChangePassword(d) \/ Reauth(d) \/ (\E k \in Ops : PlainCall(d, k))
             \/ SaveBackupNow(d)
    BY <2>4, UserSends
  <2> QED BY <1>1, <2>1, <2>2, <2>3, <2>4 DEF UserStep
<1>2. ASSUME NEW d \in Devices, PageStep(d) PROVE IInv'
  <2>1. CASE SessionRevoked(d)
    <3>1. Leave(d, reqs) /\ ServerTyped' /\ CountsTyped'
      BY <2>1 DEF SessionRevoked, IInv, ServerTyped, CountsTyped, server, counts
    <3> QED BY <3>1, LeaveKeeps
  <2> QED BY <1>2, <2>1, TimerKeeps, BlobUpdatedKeeps DEF PageStep
<1>3. ASSUME NEW r \in reqs, AnswerStep(r) PROVE IInv'
  BY <1>3, SaveAnsweredKeeps, PullAnsweredKeeps, LoginAnsweredKeeps, LoginBlobAnsweredKeeps,
     LoginSaveAnsweredKeeps, CredentialKeeps, OthersKeep DEF AnswerStep
<1>4. CASE UNCHANGED vars
  <2>1. /\ UNCHANGED <<reqs, page>> /\ ServerTyped' /\ CountsTyped' /\ PagesTyped'
    BY <1>4 DEF vars, server, counts, IInv, ServerTyped, CountsTyped, PagesTyped
  <2>2. Pool(reqs') /\ SameSaves /\ LoginAlone'
    BY <2>1, QuietFacts
  <2>3. \A e \in Devices : PageFits(page[e])
    BY DEF IInv
  <2> QED BY <2>1, <2>2, <2>3, Keeps
<1> QED BY <1>1, <1>2, <1>3, <1>4, ServerKeeps, LoseKeeps DEF Next

\* In every state of every behaviour the requests under way have different
\* ids, each page hears only what it asked for, and its save flag is up
\* exactly while one save of it is under way.
THEOREM Invariance == Spec => []IInv
<1> QED BY InitInv, NextInv, PTL DEF Spec

-----------------------------------------------------------------------------
(* The properties *)

\* The save flag of a page is up exactly while one save of it is under way,
\* through retries, queued saves, reloads and lost answers: no path of
\* saveKeyBlobToServer leaves the device unable to save again.
THEOREM SaverCorrect == Spec => []SaverNeverStuck
<1>1. IInv => SaverNeverStuck
  <2>1. SUFFICES ASSUME IInv, NEW d \in Devices
                 PROVE  Cardinality({r \in reqs : r.dev = d /\ r.mine /\ r.kind = "save"})
                            = IF page[d].inflight THEN 1 ELSE 0
    BY DEF SaverNeverStuck
  <2> DEFINE S == {r \in reqs : IsSave(r, d)}
  <2>2. Saver(d) /\ S = {r \in reqs : r.dev = d /\ r.mine /\ r.kind = "save"}
    BY <2>1 DEF IInv, IsSave
  <2>3. CASE page[d].inflight
    <3>1. PICK r \in reqs : IsSave(r, d)
      BY <2>2, <2>3 DEF Saver
    <3>2. S = {r}
      BY <2>2, <3>1 DEF Saver
    <3> QED BY <2>2, <2>3, <3>2, FS_Singleton
  <2>4. CASE ~page[d].inflight
    <3>1. S = {}
      BY <2>2, <2>4 DEF Saver
    <3> QED BY <2>2, <2>4, <3>1, FS_EmptySet
  <2> QED BY <2>3, <2>4
<1> QED BY <1>1, Invariance, PTL

\* A save that waits behind another has that one to start it, or a save of the
\* page failed on the network.
THEOREM QueueCorrect == Spec => []QueuedHasCarrier
<1>1. IInv => QueuedHasCarrier
  BY DEF IInv, PageFits, QueuedHasCarrier
<1> QED BY <1>1, Invariance, PTL

\* A key written while signed in, and in no bundle sent since, has a save
\* coming: no order of writes, saves, conflicts and answers forgets an edit.
THEOREM EditsCorrect == Spec => []EditsAwaitSave
<1>1. IInv => EditsAwaitSave
  BY DEF IInv, PageFits, EditsAwaitSave
<1> QED BY <1>1, Invariance, PTL

\* What a step does to the keys on an open page.
Adds == \A d \in Devices : InApp(d) /\ InApp(d)' => Has(page[d].local) \subseteq Has(page'[d].local)

\* A step of one page, other pages being left alone.
LEMMA OneAdds ==
    ASSUME IInv, NEW d \in Devices, NEW p, page' = [page EXCEPT ![d] = p],
           page[d].at = "app" /\ p.at = "app" => Has(page[d].local) \subseteq Has(p.local)
    PROVE  Adds
BY DEF IInv, PagesTyped, Adds, InApp

\* Restoring a bundle adds and overwrites keys, and removes none.
LEMMA RestoredAdds ==
    ASSUME NEW l \in Items, NEW b \in Items
    PROVE  Has(l) \subseteq Has(Restored(l, b))
BY DEF Has, Restored, Items

\* Sending the bundle changes no key.
LEMMA SavingAdds ==
    ASSUME IInv, NEW d \in Devices, NEW p \in PType, NEW n, NEW R, SaveKeyBlob(d, p, n, R),
           Has(page[d].local) \subseteq Has(p.local)
    PROVE  Adds
<1>1. PICK q : q = PageAfterSave(p) /\ q.local = p.local
  <2>1. /\ p.local = p.local /\ [p EXCEPT !.queued = TRUE].local = p.local
        /\ [p EXCEPT !.inflight = TRUE, !.unsent = FALSE].local = p.local
    BY DEF PType
  <2> QED BY <2>1 DEF PageAfterSave
<1>2. page' = [page EXCEPT ![d] = q]
  BY <1>1 DEF SaveKeyBlob
<1> QED BY <1>1, <1>2, OneAdds

\* Every step: only leaving the app takes keys from a page.
LEMMA StepAdds == IInv /\ [Next]_vars => Adds
<1> SUFFICES ASSUME IInv, [Next]_vars PROVE Adds
  OBVIOUS
<1>0. /\ page \in [Devices -> PType]
      /\ \A r \in reqs : r \in RType /\ r.dev \in Devices /\ r.items \in Items
  BY DEF IInv, PagesTyped, Pool, RType
<1>1. CASE UNCHANGED page
  BY <1>1 DEF Adds
<1>2. ASSUME NEW d \in Devices, NEW R, Leave(d, R) PROVE Adds
  <2>1. page' = [page EXCEPT ![d] = LoginPage(page[d].local)]
    BY <1>2 DEF Leave
  <2>2. LoginPage(page[d].local).at # "app"
    BY DEF LoginPage, NewPage
  <2> QED BY <2>1, <2>2, OneAdds
<1>3. ASSUME NEW d \in Devices, NEW t, NEW w, NEW R, Opens(d, NewPage(t, w, page[d].local), R)
      PROVE  Adds
  <2>1. PICK p : p = [NewPage(t, w, page[d].local) EXCEPT !.late = Renewing(d)]
    OBVIOUS
  <2>2. p.local = page[d].local
    BY <2>1 DEF NewPage
  <2>3. page' = [page EXCEPT ![d] = p]
    BY <1>3, <2>1 DEF Opens
  <2> QED BY <2>2, <2>3, OneAdds
<1>4. ASSUME NEW d \in Devices, UserStep(d) PROVE Adds
  <2>1. CASE \E k \in Keys : Edit(d, k)
    <3>1. PICK k \in Keys : Edit(d, k)
      BY <2>1
    <3>2. edits + 1 # 0 /\ page[d].local \in Items
      BY <1>0 DEF IInv, CountsTyped, PType
    <3>3. PICK p : p = [page[d] EXCEPT !.local[k] = edits + 1, !.timer = @ \/ page[d].token # 0,
                                       !.unsent = @ \/ page[d].token # 0]
      OBVIOUS
    <3>4. page' = [page EXCEPT ![d] = p]
      BY <1>0, <3>1, <3>3 DEF Edit
    <3>5. p.local = [page[d].local EXCEPT ![k] = edits + 1]
      BY <1>0, <3>3 DEF PType
    <3>6. Has(page[d].local) \subseteq Has(p.local)
      BY <3>1, <3>2, <3>5 DEF Has, Items
    <3> QED BY <3>4, <3>6, OneAdds
  <2>2. CASE Reload(d)
    BY <1>3, <2>2 DEF Reload
  <2> QED BY <1>1, <1>4, <2>1, <2>2
          DEF UserStep, Login, ChangePassword, Reauth, PlainCall, SaveBackupNow, Does
<1>5. ASSUME NEW d \in Devices, PageStep(d) PROVE Adds
  <2>1. CASE TimerFires(d)
    <3>1. PICK p : p = [page[d] EXCEPT !.timer = FALSE]
      OBVIOUS
    <3>2. p \in PType /\ p.local = page[d].local
      <4>1. page[d] \in PType
        BY <1>0
      <4> QED BY <3>1, <4>1 DEF PType
    <3>3. SaveKeyBlob(d, p, 0, reqs)
      BY <2>1, <3>1 DEF TimerFires
    <3> QED BY <3>2, <3>3, SavingAdds
  <2> QED BY <1>1, <1>2, <1>5, <2>1 DEF PageStep, BlobUpdated, SessionRevoked
<1>6. ASSUME NEW r \in reqs, SaveAnswered(r) PROVE Adds
  <2> DEFINE d == r.dev
  <2>1. PICK f \in PType : f = Freed(page[d]) /\ f.local = page[d].local
    <3>1. PICK f : f = [page[d] EXCEPT !.inflight = FALSE]
      OBVIOUS
    <3>2. f \in PType /\ f.local = page[d].local
      <4>1. page[d] \in PType
        BY <1>0
      <4> QED BY <3>1, <4>1 DEF PType
    <3> QED BY <3>1, <3>2 DEF Freed
  <2>2. PICK l \in Items : l = Restored(f.local, r.items) /\ Has(page[d].local) \subseteq Has(l)
    BY <1>0, <2>1, RestoredTyped, RestoredAdds DEF PType
  <2>3. CASE r.pc = "lost"
    <3>1. PICK p : p = [f EXCEPT !.dropped = TRUE]
      OBVIOUS
    <3>2. p.local = page[d].local
      BY <2>1, <3>1 DEF PType
    <3>3. page' = [page EXCEPT ![d] = p]
      BY <1>6, <2>1, <2>3, <3>1 DEF SaveAnswered
    <3> QED BY <1>0, <3>2, <3>3, OneAdds
  <2>4. CASE r.pc = "conflict" /\ r.n < MaxTries
    <3>1. PICK m : m = [f EXCEPT !.local = l, !.rev = r.rev]
      OBVIOUS
    <3>2. m \in PType /\ m.local = l
      BY <1>0, <2>1, <3>1 DEF PType, RType
    <3>3. PICK p \in PType : /\ p = IF r.pw = r.wrap THEN m ELSE f
                             /\ Has(page[d].local) \subseteq Has(p.local)
      BY <2>1, <2>2, <3>2
    <3>4. SaveKeyBlob(d, p, r.n + 1, reqs \ {r})
      BY <1>6, <2>1, <2>2, <2>4, <3>1, <3>3 DEF SaveAnswered
    <3> QED BY <1>0, <3>3, <3>4, SavingAdds
  <2>5. CASE r.pc # "lost" /\ ~(r.pc = "conflict" /\ r.n < MaxTries)
    <3>1. PICK k \in PType : /\ k = IF r.pc = "denied" THEN f ELSE [f EXCEPT !.rev = r.rev]
                             /\ k.local = page[d].local
      <4>1. PICK k : k = [f EXCEPT !.rev = r.rev]
        OBVIOUS
      <4>2. k \in PType /\ k.local = page[d].local
        BY <1>0, <2>1, <4>1 DEF PType, RType
      <4> QED BY <2>1, <4>1, <4>2
    <3>2. PICK p : p = [k EXCEPT !.queued = FALSE]
      OBVIOUS
    <3>3. p \in PType /\ p.local = page[d].local
      <4>1. k \in PType /\ k.local = page[d].local
        BY <3>1
      <4> QED BY <3>2, <4>1 DEF PType
    <3>4. SaveKeyBlob(d, p, 0, reqs \ {r}) \/ page' = [page EXCEPT ![d] = k]
      BY <1>6, <2>1, <2>5, <3>1, <3>2 DEF SaveAnswered
    <3> QED BY <1>0, <3>1, <3>3, <3>4, SavingAdds, OneAdds
  <2> QED BY <2>3, <2>4, <2>5
<1>7. ASSUME NEW r \in reqs, PullAnswered(r) PROVE Adds
  <2>1. CASE page' = [page EXCEPT ![r.dev].local = Restored(@, r.items)]
    <3>1. page[r.dev].local \in Items /\ r.items \in Items
      BY <1>0 DEF PType
    <3>2. PICK l : /\ l = Restored(page[r.dev].local, r.items)
                   /\ Has(page[r.dev].local) \subseteq Has(l)
      BY <3>1, RestoredAdds
    <3>3. PICK p : p = [page[r.dev] EXCEPT !.local = l]
      OBVIOUS
    <3>4. p.local = l
      BY <1>0, <3>3 DEF PType
    <3>5. page' = [page EXCEPT ![r.dev] = p]
      BY <1>0, <2>1, <3>2, <3>3
    <3> QED BY <1>0, <3>2, <3>4, <3>5, OneAdds
  <2> QED BY <1>1, <1>7, <2>1 DEF PullAnswered
<1>8. ASSUME NEW r \in reqs, LoginBlobAnswered(r) PROVE Adds
  <2>1. page[r.dev].at = "login"
    BY <1>8 DEF LoginBlobAnswered, IInv, Fits, LoginKinds
  <2>2. \A e \in Devices : e # r.dev => page'[e] = page[e]
    BY <1>0, <1>8 DEF LoginBlobAnswered
  <2> QED BY <2>1, <2>2 DEF Adds, InApp
<1>9. ASSUME NEW r \in reqs, CredentialAnswered(r) PROVE Adds
  <2>1. \A e \in Devices : page'[e].local = page[e].local
    BY SMTT(30), <1>0, <1>9 DEF CredentialAnswered, PType
  <2> QED BY <2>1 DEF Adds
<1>10. ASSUME NEW r \in reqs, Register(r) PROVE Adds
  <2>1. \A e \in Devices : page'[e].local = page[e].local
    BY <1>0, <1>10 DEF Register, PType
  <2> QED BY <2>1 DEF Adds
<1>11. ASSUME NEW r \in reqs, ServerStep(r), ~Register(r) PROVE Adds
  BY <1>1, <1>11 DEF ServerStep, Authenticate, WriteBlob, Announce, ReadBlob, ReadRev, GetBlob,
     Verify, EnterCode, Mint, SwapCredentials, RevokeAllOthers, ListRevoked, KickDevices,
     RevokeOwn
<1>12. ASSUME NEW r \in reqs, AnswerStep(r) PROVE Adds
  <2>1. CASE LoginSaveAnswered(r)
    BY <1>0, <1>3, <2>1 DEF LoginSaveAnswered
  <2>2. CASE LoginAnswered(r) \/ Refused(r) \/ OtherAnswered(r) \/ LogoutAnswered(r)
    BY <1>0, <1>1, <1>2, <2>2 DEF LoginAnswered, Refused, OtherAnswered, LogoutAnswered
  <2> QED BY <1>6, <1>7, <1>8, <1>9, <1>12, <2>1, <2>2 DEF AnswerStep
<1>13. ASSUME NEW r \in reqs, Lose(r) PROVE Adds
  BY <1>1, <1>13 DEF Lose
<1> QED BY <1>1, <1>4, <1>5, <1>10, <1>11, <1>12, <1>13 DEF Next, vars

\* No merge takes a key away from an open page: pulls, conflicts of saves and
\* the bundle of a login only add to what is there, whatever the server holds.
THEOREM MergesCorrect == Spec => MergesOnlyAdd
<1>1. IInv /\ [Next]_vars =>
          [\A d \in Devices :
              InApp(d) /\ InApp(d)' => Has(page[d].local) \subseteq Has(page'[d].local)]_vars
  BY StepAdds DEF Adds
<1> QED BY <1>1, Invariance, PTL DEF Spec, MergesOnlyAdd

-----------------------------------------------------------------------------
(* Who is told that a session is over *)

\* s is the id of a session that was made, and if it still exists, then for d
\* or, by login_2fa, for no device.
SidFits(s, d) == s \leq lastSid /\ \A x \in sessions : x.sid = s => x.dev \in {d, None}

\* The places in a handler where only some kinds of requests come.
Paths(r) ==
    /\ r.pc = "announce" => r.kind \in {"save", "backup", "loginPut"}
    /\ r.pc \in {"list", "kick", "revokeOthers"} => r.kind \in {"change", "kickall"}
    /\ r.pc = "revoke" => r.kind = "logout"
    /\ r.pc = "pending" => r.kind = "login"
    /\ r.pc = "verify" => r.kind \in {"change", "kickall", "reauth", "login"}
    /\ r.pc = "mint" => r.kind \in {"login", "reauth"}

\* No page and no request knows a session of another device, and the requests
\* of a login keep their page.
Owned ==
    /\ \A x \in sessions : x.sid # 0 /\ x.sid \leq lastSid
    /\ \A d \in Devices : SidFits(page[d].token, d)
    /\ \A r \in reqs : /\ SidFits(r.sid, r.dev) /\ Paths(r)
                       /\ r.kind \in LoginKinds => r.mine

\* Session s of d is there and no longer live; it is not there.
Over(s, d) == ~Live(s) /\ \E x \in sessions : x.sid = s /\ x.dev = d
Unknown(s) == \A x \in sessions : x.sid # s

\* d is told, or about to be told, that s is over.
Telling(d, s) ==
    \/ "session_revoked" \in told[d]
    \/ \E r \in reqs : (r.pc = "list" /\ r.sid # s) \/ (r.pc = "kick" /\ d \in r.kicks)

RenewKinds == {"logout", "reauth"}
Leaving(d) == \E r \in reqs : r.dev = d /\ r.kind = "logout"
Renewed(d) == {r \in reqs : r.dev = d /\ r.kind = "reauth" /\ r.pc = "ok"}
OwnRenewals(d) == \A r \in reqs : r.dev = d /\ r.kind \in RenewKinds => r.mine

\* What KickedAreTold says of the session of the page of d, and what it needs
\* of the sessions that the page has renewed and not heard of.
Warned(d) ==
    /\ Over(page[d].token, d) => Telling(d, page[d].token) \/ Renewing(d)
    /\ Unknown(page[d].token) => Renewing(d)
    /\ \A r \in Renewed(d) : Over(r.sid, d) => Telling(d, r.sid) \/ Leaving(d)

\* A page of the app to which none of the exceptions applies.
Calm(p) == p.at = "app" /\ ~p.late /\ ~p.dropped
Followed(d) == Calm(page[d]) => OwnRenewals(d) /\ (page[d].ws => Warned(d))

ToldTyped == told \in [Devices -> SUBSET {"blob_updated", "session_revoked"}]

KInv == Owned /\ \A d \in Devices : Followed(d)

\* What a step leaves to d, which is calm before and after it.
Kept(d) ==
    /\ page'[d].token = page[d].token /\ page'[d].ws = page[d].ws
    /\ OwnRenewals(d)'
    /\ Renewing(d) => Renewing(d)'
    /\ Leaving(d) => Leaving(d)'
    /\ \A s \in Nat : SidFits(s, d) =>
           /\ Over(s, d)' => Over(s, d) \/ Telling(d, s)' \/ Leaving(d)'
           /\ Unknown(s)' => Unknown(s) \/ Renewing(d)'
           /\ page[d].ws /\ Over(s, d) /\ Over(s, d)' /\ Telling(d, s) => Telling(d, s)'
    /\ \A q \in Renewed(d)' : \/ ~Over(q.sid, d)'
                              \/ \E r \in Renewed(d) : r.sid = q.sid

LEMMA FollowedKept ==
    ASSUME IInv, Owned, NEW d \in Devices, Followed(d), Calm(page'[d]) => Calm(page[d]),
           Calm(page'[d]) /\ Calm(page[d]) /\ OwnRenewals(d) => Kept(d)
    PROVE  Followed(d)'
<1> SUFFICES ASSUME Calm(page'[d]) PROVE OwnRenewals(d)' /\ (page'[d].ws => Warned(d)')
  BY DEF Followed, Calm
<1>1. Calm(page[d]) /\ OwnRenewals(d) /\ (page[d].ws => Warned(d)) /\ Kept(d)
  BY DEF Followed
<1> SUFFICES ASSUME page'[d].ws PROVE Warned(d)'
  BY <1>1 DEF Kept
<1>2. PICK t \in Nat : t = page[d].token /\ SidFits(t, d)
  BY DEF IInv, PagesTyped, PType, Owned
<1>3. Warned(d) /\ page'[d].token = t /\ page[d].ws
  BY <1>1, <1>2 DEF Kept
<1>4. /\ Over(t, d)' => Over(t, d) \/ Telling(d, t)' \/ Leaving(d)'
      /\ Unknown(t)' => Unknown(t) \/ Renewing(d)'
      /\ Over(t, d) /\ Over(t, d)' /\ Telling(d, t) => Telling(d, t)'
      /\ Renewing(d) => Renewing(d)'
      /\ Leaving(d)' => Renewing(d)'
  BY <1>1, <1>2, <1>3 DEF Kept, Leaving, Renewing
<1>5. Over(t, d)' => Telling(d, t)' \/ Renewing(d)'
  BY <1>2, <1>3, <1>4 DEF Warned
<1>6. Unknown(t)' => Renewing(d)'
  BY <1>2, <1>3, <1>4 DEF Warned
<1>7. ASSUME NEW q \in Renewed(d)', Over(q.sid, d)'
      PROVE  Telling(d, q.sid)' \/ Leaving(d)'
  <2>1. PICK r \in Renewed(d) : r.sid = q.sid
    BY <1>1, <1>7 DEF Kept
  <2>2. r.sid \in Nat /\ SidFits(r.sid, d)
    BY DEF IInv, Pool, RType, Owned, Renewed
  <2>3. Over(r.sid, d) => Telling(d, r.sid) \/ Leaving(d)
    BY <1>3 DEF Warned
  <2> QED BY <1>1, <1>3, <1>7, <2>1, <2>2, <2>3 DEF Kept
<1>8. (Over(page[d].token, d))' <=> Over(t, d)'
  BY <1>3 DEF Over, Live
<1>9. (Unknown(page[d].token))' <=> Unknown(t)'
  BY <1>3 DEF Unknown
<1>10. (Telling(d, page[d].token))' <=> Telling(d, t)'
  BY <1>3 DEF Telling
<1> QED BY <1>5, <1>6, <1>7, <1>8, <1>9, <1>10 DEF Warned

\* Steps of others, which leave to e its page, its requests, and what is on
\* the way to it.
LEMMA OthersFollowed ==
    ASSUME IInv, KInv, NEW e \in Devices, UNCHANGED <<sessions, lastSid>>, page'[e] = page[e],
           "session_revoked" \in told[e] => "session_revoked" \in told'[e],
           \A q : q.dev = e => (q \in reqs' <=> q \in reqs),
           \A r \in reqs : r.pc \in {"list", "kick"} =>
               \E q \in reqs' : q.pc = r.pc /\ q.sid = r.sid /\ q.kicks = r.kicks
    PROVE  Followed(e)'
<1>1. \A s : /\ Over(s, e)' <=> Over(s, e)
             /\ Unknown(s)' <=> Unknown(s)
  BY DEF Over, Live, Unknown
<1>2. \A s : Telling(e, s) => Telling(e, s)'
  BY DEF Telling
<1>3. /\ OwnRenewals(e) => OwnRenewals(e)'
      /\ Renewing(e) => Renewing(e)'
      /\ Leaving(e) => Leaving(e)'
      /\ Renewed(e)' = Renewed(e)
  BY DEF OwnRenewals, Renewing, Leaving, Renewed
<1>4. OwnRenewals(e) => Kept(e)
  BY <1>1, <1>2, <1>3 DEF Kept
<1> QED BY <1>4, FollowedKept DEF KInv

\* Owned, after a step that makes no session: pages and new requests know
\* what pages and requests of the device knew.
LEMMA OwnedKept ==
    ASSUME Owned, UNCHANGED <<sessions, lastSid>>,
           \A d \in Devices : SidFits(page'[d].token, d),
           \A q \in reqs' : \/ q \in reqs
                            \/ /\ SidFits(q.sid, q.dev) /\ Paths(q)
                               /\ q.kind \in LoginKinds => q.mine
    PROVE  Owned'
<1>1. \A s, d : SidFits(s, d) <=> SidFits(s, d)'
  BY DEF SidFits
<1>2. \A d \in Devices : SidFits(page[d].token, d)'
  BY DEF SidFits
<1>3. ASSUME NEW q \in reqs' PROVE SidFits(q.sid, q.dev)' /\ Paths(q)' /\ (q.kind \in LoginKinds => q.mine)
  <2>1. SidFits(q.sid, q.dev) /\ Paths(q) /\ (q.kind \in LoginKinds => q.mine)
    BY DEF Owned
  <2> QED BY <2>1 DEF SidFits, Paths
<1> QED BY <1>2, <1>3 DEF Owned

\* The page of d hears and sends: Q is what it sends, reqs \ R what it heard.
LEMMA PageFollowed ==
    ASSUME IInv, KInv, NEW d \in Devices, UNCHANGED <<sessions, lastSid>>,
           \A e \in Devices : e # d => page'[e] = page[e],
           \A e \in Devices : "session_revoked" \in told[e] => "session_revoked" \in told'[e],
           SidFits(page'[d].token, d),
           Calm(page'[d]) => /\ Calm(page[d]) /\ page'[d].token = page[d].token
                             /\ page'[d].ws = page[d].ws,
           NEW R \in SUBSET reqs, NEW Q, reqs' = R \cup Q,
           \A r \in reqs \ R : /\ r.dev = d /\ r.pc \notin {"list", "kick"}
                               /\ Calm(page'[d]) => r.kind \notin RenewKinds,
           \A q \in Q : /\ q.dev = d /\ q.mine = TRUE /\ SidFits(q.sid, d)
                        /\ q.pc \in {"auth", "verify"} /\ Paths(q)
    PROVE  KInv'
<1>1. Owned'
  <2>1. \A e \in Devices : SidFits(page'[e].token, e)
    BY DEF KInv, Owned
  <2>2. \A q \in reqs' : \/ q \in reqs
                         \/ /\ SidFits(q.sid, q.dev) /\ Paths(q)
                            /\ q.kind \in LoginKinds => q.mine
    OBVIOUS
  <2> QED BY <2>1, <2>2, OwnedKept DEF KInv
<1>2. \A r \in reqs : r.pc \in {"list", "kick"} => r \in reqs'
  OBVIOUS
<1>3. ASSUME NEW e \in Devices, e # d PROVE Followed(e)'
  <2>1. \A q : q.dev = e => (q \in reqs' <=> q \in reqs)
    BY <1>3
  <2> QED BY <1>2, <1>3, <2>1, OthersFollowed
<1>4. Followed(d)'
  <2>1. \A s : /\ Over(s, d)' <=> Over(s, d)
               /\ Unknown(s)' <=> Unknown(s)
    BY DEF Over, Live, Unknown
  <2>2. \A s : Telling(d, s) => Telling(d, s)'
    BY <1>2 DEF Telling
  <2>3. ASSUME Calm(page'[d]), OwnRenewals(d) PROVE Kept(d)
    <3>1. \A r \in reqs : r.kind \in RenewKinds => r \in reqs'
      BY <2>3
    <3>2. OwnRenewals(d)'
      BY <2>3 DEF OwnRenewals
    <3>3. (Renewing(d) => Renewing(d)') /\ (Leaving(d) => Leaving(d)')
      BY <3>1 DEF Renewing, Leaving, RenewKinds
    <3>4. \A q \in Renewed(d)' : q \in Renewed(d)
      BY DEF Renewed
    <3> QED BY <2>1, <2>2, <2>3, <3>2, <3>3, <3>4 DEF Kept
  <2> QED BY <2>3, FollowedKept DEF KInv
<1> QED BY <1>1, <1>3, <1>4 DEF KInv


\* Handler r goes on as s, or is over and nobody hears of it.
Moves(r, s) ==
    /\ s.dev = r.dev /\ s.kind = r.kind /\ s.mine = r.mine
    /\ \/ reqs' = (reqs \ {r}) \cup {s}
       \/ ~r.mine /\ reqs' = reqs \ {r}

LEMMA GoesMoves ==
    ASSUME NEW r \in RType, NEW p, Goes(r, p)
    PROVE  \E s : Moves(r, s) /\ s.sid = r.sid /\ s.pc = p /\ s.kicks = r.kicks
<1>1. PICK s : s = [r EXCEPT !.pc = p]
  OBVIOUS
<1>2. /\ s.dev = r.dev /\ s.kind = r.kind /\ s.mine = r.mine /\ s.sid = r.sid /\ s.pc = p
      /\ s.kicks = r.kicks
  BY <1>1 DEF RType
<1> QED BY <1>1, <1>2 DEF Goes, Moves

LEMMA AnsweredMoves ==
    ASSUME NEW r \in RType, NEW a, NEW q \in RType, q.dev = r.dev, q.kind = r.kind,
           q.mine = r.mine, AnsweredWith(r, a, q)
    PROVE  \E s : Moves(r, s) /\ s.sid = q.sid /\ s.pc = a
<1>1. PICK s : s = [q EXCEPT !.pc = a]
  OBVIOUS
<1>2. /\ s.dev = r.dev /\ s.kind = r.kind /\ s.mine = r.mine /\ s.sid = q.sid /\ s.pc = a
  BY <1>1 DEF RType
<1>3. reqs' = (reqs \ {r}) \cup {s} \/ (~r.mine /\ reqs' = reqs \ {r})
  BY <1>1 DEF AnsweredWith
<1> QED BY <1>2, <1>3 DEF Moves

\* The sessions keep their ids and devices, and none is made.
SameIds == /\ \A x \in sessions' : \E y \in sessions : y.sid = x.sid /\ y.dev = x.dev
           /\ \A y \in sessions : \E x \in sessions' : y.sid = x.sid /\ y.dev = x.dev

LEMMA HandlerOwned ==
    ASSUME Owned, UNCHANGED <<page, lastSid>>, SameIds, NEW r \in reqs, NEW s, Moves(r, s),
           s.sid = r.sid, Paths(s)
    PROVE  Owned'
<1>1. \A i, d : SidFits(i, d) => SidFits(i, d)'
  BY DEF SidFits, SameIds
<1>2. \A x \in sessions' : x.sid # 0 /\ x.sid \leq lastSid'
  BY DEF Owned, SameIds
<1>3. \A d \in Devices : SidFits(page[d].token, d)'
  <2> TAKE d \in Devices
  <2>1. SidFits(page[d].token, d)
    BY DEF Owned
  <2> QED BY <2>1 DEF SidFits, SameIds
<1>4. ASSUME NEW q \in reqs'
      PROVE  SidFits(q.sid, q.dev)' /\ Paths(q)' /\ (q.kind \in LoginKinds => q.mine)
  <2>1. SidFits(q.sid, q.dev) /\ Paths(q) /\ (q.kind \in LoginKinds => q.mine)
    <3>1. CASE q \in reqs
      BY <3>1 DEF Owned
    <3>2. CASE q = s
      BY <3>2 DEF Owned, Moves
    <3> QED BY <3>1, <3>2 DEF Moves
  <2> QED BY <1>1, <2>1 DEF Paths
<1> QED BY <1>2, <1>3, <1>4 DEF Owned

LEMMA HandlerFollowed ==
    ASSUME IInv, KInv, UNCHANGED page, NEW r \in reqs, NEW s, Moves(r, s),
           s.pc = "ok" /\ s.kind = "reauth" => ~Over(s.sid, r.dev)',
           \A d \in Devices, t \in Nat :
               Calm(page[d]) /\ OwnRenewals(d) /\ SidFits(t, d) =>
                   /\ Over(t, d)' => Over(t, d) \/ Telling(d, t)' \/ Leaving(d)'
                   /\ Unknown(t)' => Unknown(t) \/ Renewing(d)'
                   /\ page[d].ws /\ Over(t, d) /\ Over(t, d)' /\ Telling(d, t) => Telling(d, t)'
    PROVE  \A d \in Devices : Followed(d)'
<1> SUFFICES ASSUME NEW d \in Devices PROVE Followed(d)'
  OBVIOUS
<1>1. ASSUME Calm(page[d]), OwnRenewals(d) PROVE Kept(d)
  <2>1. ASSUME NEW q \in reqs, q.dev = d, q.kind \in RenewKinds
        PROVE  \E p \in reqs' : p.dev = d /\ p.kind = q.kind
    <3>1. q.mine
      BY <1>1, <2>1 DEF OwnRenewals
    <3>2. CASE q # r
      BY <2>1, <3>2 DEF Moves
    <3>3. CASE q = r
      BY <2>1, <3>1, <3>3 DEF Moves
    <3> QED BY <3>2, <3>3
  <2>2. OwnRenewals(d)'
    BY <1>1 DEF OwnRenewals, Moves
  <2>3. (Renewing(d) => Renewing(d)') /\ (Leaving(d) => Leaving(d)')
    BY <2>1 DEF Renewing, Leaving, RenewKinds
  <2>4. ASSUME NEW q \in Renewed(d)'
        PROVE  ~Over(q.sid, d)' \/ \E p \in Renewed(d) : p.sid = q.sid
    <3>1. CASE q \in reqs
      BY <3>1 DEF Renewed
    <3>2. CASE q = s
      BY <3>2 DEF Renewed, Moves
    <3> QED BY <3>1, <3>2 DEF Renewed, Moves
  <2> QED BY <1>1, <2>2, <2>3, <2>4 DEF Kept
<1> QED BY <1>1, FollowedKept DEF KInv

\* A handler goes on without a look at the sessions, and not with its kicks.
LEMMA HandlerRests ==
    ASSUME IInv, KInv, UNCHANGED <<page, sessions, lastSid>>, NEW r \in reqs, NEW s,
           Moves(r, s), s.sid = r.sid, Paths(s), ~(s.pc = "ok" /\ s.kind = "reauth"),
           r.pc \notin {"list", "kick"},
           \A e \in Devices : "session_revoked" \in told[e] => "session_revoked" \in told'[e]
    PROVE  KInv'
<1>1. SameIds
  BY DEF SameIds
<1>2. \A t, d : /\ Over(t, d)' <=> Over(t, d)
                /\ Unknown(t)' <=> Unknown(t)
  BY DEF Over, Live, Unknown
<1>3. \A d \in Devices : \A t : Telling(d, t) => Telling(d, t)'
  BY DEF Telling, Moves
<1>4. \A d \in Devices : Followed(d)'
  BY <1>2, <1>3, HandlerFollowed
<1> QED BY <1>1, <1>4, HandlerOwned DEF KInv

LEMMA QuietHandlers ==
    ASSUME IInv, KInv, NEW r \in reqs,
           \/ Authenticate(r) \/ WriteBlob(r) \/ Announce(r) \/ ReadBlob(r) \/ ReadRev(r)
           \/ GetBlob(r) \/ Verify(r) \/ EnterCode(r)
    PROVE  KInv'
<1>0. /\ r \in RType /\ Fits(r) /\ Paths(r) /\ UNCHANGED <<page, sessions, lastSid>>
      /\ row \in [items : Items, pw : Nat, rev : Nat]
      /\ r.pc \notin {"list", "kick", "ok"}
  BY DEF IInv, KInv, Owned, Pool, ServerTyped, Authenticate, WriteBlob, Announce, ReadBlob,
         ReadRev, GetBlob, Verify, EnterCode, server
<1>1. \A e \in Devices : "session_revoked" \in told[e] => "session_revoked" \in told'[e]
  BY DEF Authenticate, WriteBlob, Announce, ReadBlob, ReadRev, GetBlob, Verify, EnterCode
<1>2. \E s : Moves(r, s) /\ s.sid = r.sid /\ Paths(s) /\ ~(s.pc = "ok" /\ s.kind = "reauth")
  <2>1. ASSUME NEW p, Goes(r, p), p # "ok", \A s : s.pc = p /\ s.kind = r.kind => Paths(s)
        PROVE  <1>2
    BY <1>0, <2>1, GoesMoves DEF Moves
  <2>2. ASSUME NEW a \in Answers, NEW q \in RType, q.dev = r.dev, q.kind = r.kind,
               q.mine = r.mine, q.sid = r.sid, AnsweredWith(r, a, q),
               a = "ok" => r.kind # "reauth"
        PROVE  <1>2
    <3>1. PICK s : Moves(r, s) /\ s.sid = r.sid /\ s.pc = a
      BY <1>0, <2>2, AnsweredMoves
    <3>2. Paths(s)
      BY <3>1 DEF Paths, Answers
    <3> QED BY <2>2, <3>1, <3>2 DEF Moves
  <2>3. ASSUME NEW a \in Answers, Answered(r, a), a = "ok" => r.kind # "reauth" PROVE <1>2
    <3>1. AnsweredWith(r, a, r)
      BY <2>3 DEF Answered, AnsweredWith
    <3> QED BY <1>0, <2>2, <2>3, <3>1
  <2>4. CASE Authenticate(r)
    <3>1. CASE Answered(r, "denied")
      BY <2>3, <3>1 DEF Answers
    <3>2. CASE AfterAuth(r.kind) = "ok" /\ Answered(r, "ok")
      <4>1. r.kind # "reauth"
        BY <3>2 DEF AfterAuth
      <4> QED BY <2>3, <3>2, <4>1 DEF Answers
    <3>3. CASE AfterAuth(r.kind) # "ok" /\ Goes(r, AfterAuth(r.kind))
      <4>1. r.kind # "login"
        BY <1>0, <2>4 DEF Authenticate, Fits, Answers
      <4>2. ASSUME NEW s, s.pc = AfterAuth(r.kind), s.kind = r.kind PROVE Paths(s)
        BY <1>0, <3>3, <4>1, <4>2 DEF AfterAuth, Paths, RType, Kinds
      <4> QED BY <2>1, <3>3, <4>2
    <3> QED BY <2>4, <3>1, <3>2, <3>3 DEF Authenticate
  <2>5. CASE WriteBlob(r)
    <3>0. r.kind \in {"save", "backup", "loginPut"}
      BY <1>0, <2>5 DEF WriteBlob, Fits
    <3>1. CASE Goes(r, "readBlob")
      BY <2>1, <3>1 DEF Paths
    <3>2. CASE Becomes(r, [r EXCEPT !.rev = row.rev + 1, !.pc = "announce"])
      <4>1. PICK s : s = [r EXCEPT !.rev = row.rev + 1, !.pc = "announce"]
        OBVIOUS
      <4>2. s.dev = r.dev /\ s.kind = r.kind /\ s.mine = r.mine /\ s.sid = r.sid /\ s.pc = "announce"
        BY <1>0, <4>1 DEF RType
      <4>3. reqs' = (reqs \ {r}) \cup {s}
        BY <3>2, <4>1 DEF Becomes
      <4>4. Moves(r, s) /\ Paths(s)
        BY <3>0, <4>2, <4>3 DEF Moves, Paths
      <4> QED BY <4>2, <4>4
    <3> QED BY <2>5, <3>1, <3>2 DEF WriteBlob
  <2>6. CASE Announce(r)
    <3>1. Answered(r, "ok") /\ r.kind # "reauth"
      BY <1>0, <2>6 DEF Announce, Paths
    <3> QED BY <2>3, <3>1 DEF Answers
  <2>7. CASE ReadBlob(r)
    <3>1. PICK s : s = [r EXCEPT !.items = row.items, !.pw = row.pw, !.pc = "readRev"]
      OBVIOUS
    <3>2. s.dev = r.dev /\ s.kind = r.kind /\ s.mine = r.mine /\ s.sid = r.sid /\ s.pc = "readRev"
      BY <1>0, <3>1 DEF RType
    <3>3. reqs' = (reqs \ {r}) \cup {s}
      BY <2>7, <3>1 DEF ReadBlob, Becomes
    <3>4. Moves(r, s) /\ Paths(s)
      BY <3>2, <3>3 DEF Moves, Paths
    <3> QED BY <3>2, <3>4
  <2>8. CASE ReadRev(r)
    <3>1. PICK q : q = [r EXCEPT !.rev = row.rev]
      OBVIOUS
    <3>2. q \in RType /\ q.dev = r.dev /\ q.kind = r.kind /\ q.mine = r.mine /\ q.sid = r.sid
      BY <1>0, <3>1 DEF RType
    <3>3. AnsweredWith(r, "conflict", q)
      BY <2>8, <3>1 DEF ReadRev
    <3> QED BY <2>2, <3>2, <3>3 DEF Answers
  <2>9. CASE GetBlob(r)
    <3>1. PICK q : q = [r EXCEPT !.items = row.items, !.pw = row.pw, !.rev = row.rev]
      OBVIOUS
    <3>2. q \in RType /\ q.dev = r.dev /\ q.kind = r.kind /\ q.mine = r.mine /\ q.sid = r.sid
      BY <1>0, <3>1 DEF RType
    <3>3. AnsweredWith(r, "ok", q) /\ r.kind # "reauth"
      BY <1>0, <2>9, <3>1 DEF GetBlob, Fits
    <3> QED BY <2>2, <3>2, <3>3 DEF Answers
  <2>10. CASE Verify(r)
    <3>1. CASE Answered(r, "denied")
      BY <2>3, <3>1 DEF Answers
    <3>2. CASE Goes(r, CASE r.kind = "change" -> "swap"
                         [] r.kind = "kickall" -> "revokeOthers"
                         [] r.kind = "login" /\ TwoFactor -> "pending"
                         [] OTHER -> "mint")
      <4>1. r.kind \in {"change", "kickall", "reauth", "login"}
        BY <1>0, <2>10 DEF Verify, Paths
      <4>2. PICK p : /\ Goes(r, p) /\ p # "ok"
                     /\ \/ p = "swap"
                        \/ p = "revokeOthers" /\ r.kind = "kickall"
                        \/ p = "pending" /\ r.kind = "login"
                        \/ p = "mint" /\ r.kind \in {"login", "reauth"}
        BY <3>2, <4>1
      <4>3. \A s : s.pc = p /\ s.kind = r.kind => Paths(s)
        BY <4>2 DEF Paths
      <4> QED BY <2>1, <4>2, <4>3
    <3> QED BY <2>10, <3>1, <3>2 DEF Verify
  <2>11. CASE EnterCode(r)
    <3>1. r.kind = "login"
      BY <1>0, <2>11 DEF EnterCode, Paths
    <3>2. CASE Goes(r, "mint")
      BY <2>1, <3>1, <3>2 DEF Paths
    <3>3. CASE ~r.mine /\ reqs' = reqs \ {r}
      BY <1>0, <3>3 DEF Moves
    <3> QED BY <2>11, <3>2, <3>3 DEF EnterCode
  <2> QED BY <2>4, <2>5, <2>6, <2>7, <2>8, <2>9, <2>10, <2>11
<1> QED BY <1>0, <1>1, <1>2, HandlerRests

\* live_kick_other_devices: the devices whose sessions are over are listed, and
\* told, whatever was told before.
LEMMA KickFollowed ==
    ASSUME IInv, KInv, NEW r \in reqs, ListRevoked(r) \/ KickDevices(r)
    PROVE  KInv'
<1>0. /\ r \in RType /\ Paths(r) /\ UNCHANGED <<page, sessions, lastSid>> /\ SameIds
      /\ sessions \subseteq SType
  BY DEF IInv, KInv, Owned, Pool, ServerTyped, ListRevoked, KickDevices, server, SameIds
<1>1. \A t, d : /\ Over(t, d)' <=> Over(t, d)
                /\ Unknown(t)' <=> Unknown(t)
  BY <1>0 DEF Over, Live, Unknown
<1>2. CASE ListRevoked(r)
  <2>1. PICK s : s = [r EXCEPT !.pc = "kick",
                         !.kicks = DevicesOf({y \in sessions : y.sid # r.sid /\ y.revoked})]
    OBVIOUS
  <2>2. /\ s.dev = r.dev /\ s.kind = r.kind /\ s.mine = r.mine /\ s.sid = r.sid /\ s.pc = "kick"
        /\ s.kicks = DevicesOf({y \in sessions : y.sid # r.sid /\ y.revoked})
    BY <1>0, <2>1 DEF RType
  <2>3. reqs' = (reqs \ {r}) \cup {s} /\ r.pc = "list" /\ UNCHANGED told
    BY <1>2, <2>1 DEF ListRevoked, Becomes
  <2>4. Moves(r, s) /\ Paths(s)
    BY <1>0, <2>2, <2>3 DEF Moves, Paths
  <2>5. ASSUME NEW d \in Devices, NEW t, Over(t, d), Telling(d, t) PROVE Telling(d, t)'
    <3>1. PICK x \in sessions : x.sid = t /\ x.dev = d /\ x.revoked
      BY <2>5 DEF Over, Live
    <3>2. t # r.sid => d \in s.kicks
      BY <2>2, <3>1, NoneAssumption DEF DevicesOf
    <3>3. CASE "session_revoked" \in told[d]
      BY <2>3, <3>3 DEF Telling
    <3>4. CASE \E q \in reqs : (q.pc = "list" /\ q.sid # t) \/ (q.pc = "kick" /\ d \in q.kicks)
      BY <2>2, <2>3, <3>2, <3>4 DEF Telling
    <3> QED BY <2>5, <3>3, <3>4 DEF Telling
  <2>6. \A d \in Devices : Followed(d)'
    BY <1>0, <1>1, <2>2, <2>4, <2>5, HandlerFollowed
  <2> QED BY <1>0, <2>2, <2>4, <2>6, HandlerOwned DEF KInv
<1>3. CASE KickDevices(r)
  <2>1. r.pc = "kick" /\ AnsweredWith(r, "ok", r) /\ r.kind # "reauth"
    BY <1>0, <1>3 DEF KickDevices, Answered, AnsweredWith, Paths
  <2>2. PICK s : Moves(r, s) /\ s.sid = r.sid /\ s.pc = "ok"
    BY <1>0, <2>1, AnsweredMoves
  <2>3. Paths(s) /\ s.kind # "reauth"
    BY <2>1, <2>2 DEF Paths, Moves
  <2>4. ASSUME NEW d \in Devices, NEW t, page[d].ws, Telling(d, t) PROVE Telling(d, t)'
    <3>1. told'[d] = IF d \in r.kicks /\ page[d].ws
                     THEN told[d] \cup {"session_revoked"} ELSE told[d]
      BY <1>3 DEF KickDevices
    <3> QED BY <2>1, <2>2, <2>4, <3>1 DEF Telling, Moves
  <2>5. \A d \in Devices : Followed(d)'
    BY <1>0, <1>1, <2>2, <2>3, <2>4, HandlerFollowed
  <2> QED BY <1>0, <2>2, <2>3, <2>5, HandlerOwned DEF KInv
<1> QED BY <1>2, <1>3

\* All sessions but one are revoked: the handler that did it has yet to list
\* them.  A device that signs out revokes its own.
LEMMA RevokingFollowed ==
    ASSUME IInv, KInv, NEW r \in reqs,
           SwapCredentials(r) \/ RevokeAllOthers(r) \/ RevokeOwn(r)
    PROVE  KInv'
<1>0. r \in RType /\ Paths(r) /\ Fits(r) /\ UNCHANGED <<page, told, lastSid>> /\ sessions \subseteq SType
  BY DEF IInv, KInv, Owned, Pool, ServerTyped, SwapCredentials, RevokeAllOthers, RevokeOwn
<1>1. CASE SwapCredentials(r) \/ RevokeAllOthers(r)
  <2>1. r.pc \in {"swap", "revokeOthers"} /\ Goes(r, "list")
    BY <1>1 DEF SwapCredentials, RevokeAllOthers
  <2>2. PICK s : Moves(r, s) /\ s.sid = r.sid /\ s.pc = "list" /\ reqs' = (reqs \ {r}) \cup {s}
    <3>1. PICK s : s = [r EXCEPT !.pc = "list"]
      OBVIOUS
    <3>2. s.dev = r.dev /\ s.kind = r.kind /\ s.mine = r.mine /\ s.sid = r.sid /\ s.pc = "list"
      BY <1>0, <3>1 DEF RType
    <3> QED BY <2>1, <3>1, <3>2 DEF Goes, Moves
  <2>3. Paths(s)
    BY <1>0, <2>1, <2>2 DEF Paths, Fits, Moves
  <2>4. /\ \A x \in RevokeOthers(r.sid) : \E y \in sessions :
               y.sid = x.sid /\ y.dev = x.dev /\ (x.sid = r.sid => x.revoked = y.revoked)
        /\ \A y \in sessions : \E x \in RevokeOthers(r.sid) :
               y.sid = x.sid /\ y.dev = x.dev /\ (x.sid = r.sid => x.revoked = y.revoked)
    <3>1. \A x \in SType : LET y == [x EXCEPT !.revoked = TRUE] IN y.sid = x.sid /\ y.dev = x.dev
      BY DEF SType
    <3> QED BY <1>0, <3>1 DEF RevokeOthers, Revoked
  <2>5. /\ \A x \in sessions' : \E y \in sessions :
               y.sid = x.sid /\ y.dev = x.dev /\ (x.sid = r.sid => x.revoked = y.revoked)
        /\ \A y \in sessions : \E x \in sessions' :
               y.sid = x.sid /\ y.dev = x.dev /\ (x.sid = r.sid => x.revoked = y.revoked)
    <3>1. CASE RevokeAllOthers(r)
      BY <2>4, <3>1 DEF RevokeAllOthers
    <3>2. CASE SwapCredentials(r)
      <4>1. RevokeOthers(r.sid) \subseteq SType
        BY <1>0, RevokedTyped
      <4> DEFINE g(x) == [x EXCEPT !.pw = IF x.sid = r.sid THEN r.pw ELSE @]
      <4>2. \A x \in SType : g(x).sid = x.sid /\ g(x).dev = x.dev /\ g(x).revoked = x.revoked
        BY DEF SType
      <4>3. sessions' = {g(x) : x \in RevokeOthers(r.sid)}
        BY <3>2 DEF SwapCredentials
      <4> HIDE DEF g
      <4> QED BY <2>4, <4>1, <4>2, <4>3
    <3> QED BY <1>1, <3>1, <3>2
  <2>6. SameIds
    BY <2>5 DEF SameIds
  <2>7. ASSUME NEW t, NEW d, Over(t, d)' PROVE Over(t, d) \/ Telling(d, t)'
    <3>1. CASE t # r.sid
      BY <2>2, <3>1 DEF Telling
    <3>2. CASE t = r.sid
      BY <2>5, <2>7, <3>2 DEF Over, Live
    <3> QED BY <3>1, <3>2
  <2>8. \A t : Unknown(t)' => Unknown(t)
    BY <2>5 DEF Unknown
  <2>9. \A d, t : Telling(d, t) => Telling(d, t)'
    BY <1>0, <2>1, <2>2 DEF Telling
  <2>10. \A d \in Devices : Followed(d)'
    BY <1>0, <2>2, <2>7, <2>8, <2>9, HandlerFollowed
  <2> QED BY <1>0, <2>2, <2>3, <2>6, <2>10, HandlerOwned DEF KInv
<1>2. CASE RevokeOwn(r)
  <2>1. r.pc = "revoke" /\ r.kind = "logout" /\ AnsweredWith(r, "ok", r)
    BY <1>0, <1>2 DEF RevokeOwn, Answered, AnsweredWith, Paths
  <2>2. PICK s : Moves(r, s) /\ s.sid = r.sid /\ s.pc = "ok"
    BY <1>0, <2>1, AnsweredMoves
  <2>3. Paths(s) /\ s.kind = "logout"
    BY <2>1, <2>2 DEF Paths, Moves
  <2>4. /\ \A x \in sessions' : \E y \in sessions :
               y.sid = x.sid /\ y.dev = x.dev /\ (x.sid # r.sid => x.revoked = y.revoked)
        /\ \A y \in sessions : \E x \in sessions' :
               y.sid = x.sid /\ y.dev = x.dev /\ (x.sid # r.sid => x.revoked = y.revoked)
    <3> DEFINE g(x) == [x EXCEPT !.revoked = @ \/ x.sid = r.sid]
    <3>1. \A x \in SType : g(x).sid = x.sid /\ g(x).dev = x.dev
      BY DEF SType
    <3>2. \A x \in SType : x.sid # r.sid => g(x).revoked = x.revoked
      <4> TAKE x \in SType
      <4>1. HAVE x.sid # r.sid
      <4>2. x.revoked \in BOOLEAN
        BY DEF SType
      <4>3. (x.revoked \/ x.sid = r.sid) = x.revoked
        BY <4>1, <4>2
      <4>4. g(x).revoked = (x.revoked \/ x.sid = r.sid)
        BY DEF SType
      <4> QED BY <4>3, <4>4
    <3>3. sessions' = {g(x) : x \in sessions}
      BY <1>2 DEF RevokeOwn
    <3> HIDE DEF g
    <3> QED BY <1>0, <3>1, <3>2, <3>3
  <2>5. SameIds
    BY <2>4 DEF SameIds
  <2>6. ASSUME NEW d \in Devices, NEW t, OwnRenewals(d), Over(t, d)'
        PROVE  Over(t, d) \/ Leaving(d)'
    <3>1. CASE t # r.sid
      BY <2>4, <2>6, <3>1 DEF Over, Live
    <3>2. CASE t = r.sid
      <4>1. PICK x \in sessions : x.sid = r.sid /\ x.dev = d
        BY <2>4, <2>6, <3>2 DEF Over
      <4>2. r.dev = d
        BY <4>1, NoneAssumption DEF KInv, Owned, SidFits
      <4>3. r.mine
        BY <2>1, <2>6, <4>2 DEF OwnRenewals, RenewKinds
      <4> QED BY <2>2, <2>3, <4>2, <4>3 DEF Moves, Leaving
    <3> QED BY <3>1, <3>2
  <2>7. \A t : Unknown(t)' => Unknown(t)
    BY <2>4 DEF Unknown
  <2>8. \A d, t : Telling(d, t) => Telling(d, t)'
    BY <1>0, <2>1, <2>2 DEF Telling, Moves
  <2>9. \A d \in Devices : Followed(d)'
    BY <1>0, <2>2, <2>3, <2>6, <2>7, <2>8, HandlerFollowed
  <2> QED BY <1>0, <2>2, <2>3, <2>5, <2>9, HandlerOwned DEF KInv
<1> QED BY <1>1, <1>2

\* A session is made, and the older ones of the device are deleted: the device
\* is logging in, and shows the login page, or renews its session.
LEMMA MintFollowed ==
    ASSUME IInv, KInv, NEW r \in reqs, Mint(r)
    PROVE  KInv'
<1>0. /\ r \in RType /\ Paths(r) /\ Fits(r) /\ UNCHANGED <<page, told>> /\ sessions \subseteq SType
      /\ r.pc = "mint" /\ lastSid' = lastSid + 1 /\ lastSid \in Nat /\ r.dev \in Devices
      /\ r.kind \in {"login", "reauth"}
  BY DEF IInv, KInv, Owned, Pool, ServerTyped, Mint, Paths, RType
<1>1. PICK m, dev : /\ dev = (IF r.kind = "login" /\ TwoFactor THEN None ELSE r.dev)
                    /\ m.sid = lastSid + 1 /\ m.dev = dev /\ ~m.revoked
                    /\ sessions' = (sessions \ {x \in sessions : dev # None /\ x.dev = dev}) \cup {m}
  <2>1. PICK dev : dev = IF r.kind = "login" /\ TwoFactor THEN None ELSE r.dev
    OBVIOUS
  <2>2. PICK m : m = [sid |-> lastSid + 1, dev |-> dev, revoked |-> FALSE, pw |-> r.wrap]
    OBVIOUS
  <2>3. m.sid = lastSid + 1 /\ m.dev = dev /\ ~m.revoked
    BY <2>2
  <2>4. sessions' = (sessions \ {x \in sessions : dev # None /\ x.dev = dev}) \cup {m}
    BY <2>1, <2>2 DEF Mint
  <2> QED BY <2>1, <2>3, <2>4
<1>2. PICK s : Moves(r, s) /\ s.sid = lastSid + 1 /\ s.pc = "ok"
  <2>1. PICK q : q = [r EXCEPT !.sid = lastSid + 1]
    OBVIOUS
  <2>2. /\ q \in RType /\ q.dev = r.dev /\ q.kind = r.kind /\ q.mine = r.mine
        /\ q.sid = lastSid + 1
    BY <1>0, <2>1 DEF RType
  <2>3. AnsweredWith(r, "ok", q)
    BY <2>1 DEF Mint
  <2> QED BY <1>0, <2>2, <2>3, AnsweredMoves
<1>3. dev \in {r.dev, None} /\ \A x \in sessions : x.sid \in Nat /\ x.sid # 0 /\ x.sid \leq lastSid
  BY <1>0, <1>1 DEF KInv, Owned, SType
<1>4. \A t \in Nat : \A d : SidFits(t, d) => SidFits(t, d)'
  BY <1>0, <1>1, <1>3 DEF SidFits
<1>5. Owned'
  <2>1. \A x \in sessions' : x.sid # 0 /\ x.sid \leq lastSid'
    BY <1>0, <1>1, <1>3
  <2>2. \A d \in Devices : SidFits(page[d].token, d)'
    <3> TAKE d \in Devices
    <3>1. page[d].token \in Nat /\ SidFits(page[d].token, d)
      BY DEF IInv, PagesTyped, PType, KInv, Owned
    <3> QED BY <1>0, <1>1, <1>3, <3>1 DEF SidFits
  <2>3. ASSUME NEW q \in reqs'
        PROVE  SidFits(q.sid, q.dev)' /\ Paths(q)' /\ (q.kind \in LoginKinds => q.mine)
    <3>1. CASE q \in reqs
      <4>1. /\ SidFits(q.sid, q.dev) /\ Paths(q) /\ (q.kind \in LoginKinds => q.mine)
            /\ q.sid \in Nat
        BY <3>1 DEF KInv, Owned, IInv, Pool, RType
      <4> QED BY <1>4, <4>1 DEF Paths
    <3>2. CASE q = s
      <4>1. \A x \in sessions' : x.sid = lastSid + 1 => x.dev \in {r.dev, None}
        BY <1>0, <1>1, <1>3
      <4>2. SidFits(q.sid, q.dev)'
        BY <1>0, <1>2, <3>2, <4>1 DEF SidFits, Moves
      <4>3. Paths(q)
        BY <1>2, <3>2 DEF Paths
      <4>4. q.kind \in LoginKinds => q.mine
        BY <1>2, <3>2 DEF Moves, KInv, Owned
      <4> QED BY <4>2, <4>3, <4>4 DEF Paths
    <3> QED BY <1>2, <3>1, <3>2 DEF Moves
  <2> QED BY <2>1, <2>2, <2>3 DEF Owned
<1>6. ~Over(s.sid, r.dev)'
  BY <1>1, <1>2 DEF Over, Live
<1>7. \A d, t : Telling(d, t) => Telling(d, t)'
  BY <1>0, <1>2 DEF Telling, Moves
<1>8. ASSUME NEW d \in Devices, NEW t \in Nat, Calm(page[d]), OwnRenewals(d), SidFits(t, d)
      PROVE  /\ Over(t, d)' => Over(t, d)
             /\ Unknown(t)' => Unknown(t) \/ Renewing(d)'
  <2>1. t # lastSid + 1
    BY <1>0, <1>8 DEF SidFits
  <2>2. CASE d = r.dev
    <3>1. r.kind # "login"
      <4>1. SUFFICES ASSUME r.kind = "login" PROVE FALSE
        OBVIOUS
      <4>2. r.mine
        BY <4>1 DEF KInv, Owned, LoginKinds
      <4> QED BY <1>0, <1>8, <2>2, <4>1, <4>2 DEF Fits, LoginKinds, Calm
    <3>2. r.kind = "reauth" /\ dev = d /\ d # None
      BY <1>0, <1>1, <2>2, <3>1, NoneAssumption
    <3>3. r.mine
      BY <1>8, <2>2, <3>2 DEF OwnRenewals, RenewKinds
    <3>4. Renewing(d)'
      BY <1>2, <2>2, <3>2, <3>3 DEF Moves, Renewing
    <3>5. ~Over(t, d)'
      BY <1>1, <2>1, <3>2 DEF Over
    <3> QED BY <3>4, <3>5
  <2>3. CASE d # r.dev
    <3>1. \A x : x.sid = t => (x \in sessions' => x \in sessions)
      BY <1>1, <2>1
    <3>2. \A x \in sessions : x.sid = t => x \in sessions'
      BY <1>1, <1>3, <1>8, <2>3, NoneAssumption DEF SidFits
    <3> QED BY <3>1, <3>2 DEF Over, Live, Unknown
  <2> QED BY <2>2, <2>3
<1>9. \A d \in Devices : Followed(d)'
  BY <1>0, <1>2, <1>6, <1>7, <1>8, HandlerFollowed
<1> QED BY <1>5, <1>9 DEF KInv

\* The socket of a page is registered.
LEMMA RegisterFollowed ==
    ASSUME IInv, KInv, NEW r \in reqs, Register(r)
    PROVE  KInv'
<1> DEFINE d == r.dev
<1>0. /\ r \in RType /\ d \in Devices /\ r.kind = "hello" /\ r.pc = "register"
      /\ UNCHANGED <<sessions, lastSid, told>> /\ reqs' = reqs \ {r}
      /\ page \in [Devices -> PType]
  BY DEF IInv, Pool, PagesTyped, RType, Fits, Register, server
<1>1. /\ \A e \in Devices : e # d => page'[e] = page[e]
      /\ page'[d].at = page[d].at /\ page'[d].token = page[d].token
      /\ page'[d].dropped = page[d].dropped
      /\ page'[d].ws = (r.mine \/ page[d].ws)
      /\ page'[d].late = (page[d].late \/ (r.mine /\ \E s \in SidsOf(d) : ~Live(s)))
  <2>1. page[d] \in PType
    BY <1>0
  <2> QED BY <1>0, <2>1 DEF Register, PType
<1>2. SidFits(page'[d].token, d)
  BY <1>0, <1>1 DEF KInv, Owned
<1>3. CASE ~r.mine
  <2>1. page'[d].ws = page[d].ws
    BY <1>0, <1>1, <1>3 DEF PType
  <2>2. Calm(page'[d]) => Calm(page[d])
    BY <1>1 DEF Calm
  <2>3. PICK R, Q : R = reqs \ {r} /\ Q = {}
    OBVIOUS
  <2>4. R \in SUBSET reqs /\ reqs' = R \cup Q
    BY <1>0, <2>3
  <2>5. \A q \in reqs \ R : q.dev = d /\ q.pc \notin {"list", "kick"} /\ q.kind \notin RenewKinds
    BY <1>0, <2>3 DEF RenewKinds
  <2>6. /\ UNCHANGED <<sessions, lastSid>> /\ d \in Devices
        /\ \A e \in Devices : e # d => page'[e] = page[e]
        /\ \A e \in Devices : "session_revoked" \in told[e] => "session_revoked" \in told'[e]
        /\ Calm(page'[d]) => /\ Calm(page[d]) /\ page'[d].token = page[d].token
                             /\ page'[d].ws = page[d].ws
    BY <1>0, <1>1, <2>1, <2>2
  <2>7. \A q \in Q : /\ q.dev = d /\ q.mine = TRUE /\ SidFits(q.sid, d)
                     /\ q.pc \in {"auth", "verify"} /\ Paths(q)
    BY <2>3
  <2> HIDE DEF d
  <2> QED BY <1>2, <2>4, <2>5, <2>6, <2>7, PageFollowed, ZenonT(60)
<1>4. CASE r.mine
  <2>1. Owned'
    <3>1. \A e \in Devices : SidFits(page'[e].token, e)
      BY <1>1, <1>2 DEF KInv, Owned
    <3> QED BY <1>0, <3>1, OwnedKept DEF KInv
  <2>2. ASSUME NEW e \in Devices, e # d PROVE Followed(e)'
    BY <1>0, <1>1, <2>2, OthersFollowed
  <2>3. ASSUME Calm(page'[d]) PROVE OwnRenewals(d)' /\ Warned(d)'
    <3>1. Calm(page[d]) /\ \A s \in SidsOf(d) : Live(s)
      BY <1>1, <1>4, <2>3 DEF Calm
    <3>2. OwnRenewals(d)'
      BY <1>0, <3>1 DEF KInv, Followed, OwnRenewals
    <3>3. Live(page[d].token) /\ \A q \in Renewed(d) : Live(q.sid)
      BY <3>1 DEF SidsOf, Renewed
    <3>4. \A s : /\ Over(s, d)' => ~Live(s)
                 /\ Unknown(s)' => ~Live(s)
      BY <1>0 DEF Over, Live, Unknown
    <3>5. ~(Over(page[d].token, d))' /\ ~(Unknown(page[d].token))'
      <4>1. PICK t : t = page[d].token
        OBVIOUS
      <4>2. ~Over(t, d)' /\ ~Unknown(t)'
        BY <3>3, <3>4, <4>1
      <4>3. page'[d].token = t
        BY <1>1, <4>1
      <4> QED BY <4>2, <4>3 DEF Over, Live, Unknown
    <3>6. \A q \in Renewed(d)' : ~Over(q.sid, d)'
      BY <1>0, <3>3, <3>4 DEF Renewed
    <3> QED BY <3>2, <3>5, <3>6 DEF Warned
  <2>4. Followed(d)'
    BY <2>3 DEF Followed
  <2> QED BY <2>1, <2>2, <2>4 DEF KInv
<1> QED BY <1>3, <1>4

\* A page sends q.
LEMMA SendsFollowed ==
    ASSUME IInv, KInv, NEW d \in Devices, NEW q, q.dev = d, q.mine = TRUE,
           SidFits(q.sid, d), q.pc = "auth" \/ (q.pc = "verify" /\ q.kind = "login"),
           reqs' = reqs \cup {q}, UNCHANGED <<server, page>>,
           \A e \in Devices : "session_revoked" \in told[e] => "session_revoked" \in told'[e]
    PROVE  KInv'
<1>1. UNCHANGED <<sessions, lastSid>> /\ SidFits(page'[d].token, d)
  BY DEF server, KInv, Owned
<1>2. Paths(q) /\ q.pc \in {"auth", "verify"}
  BY DEF Paths
<1> DEFINE Q == {q}
<1>3. /\ \A p \in Q : /\ p.dev = d /\ p.mine = TRUE /\ SidFits(p.sid, d)
                      /\ p.pc \in {"auth", "verify"} /\ Paths(p)
      /\ reqs' = reqs \cup Q /\ reqs \in SUBSET reqs
  BY <1>2
<1> HIDE DEF Q
<1> QED BY <1>1, <1>3, PageFollowed

LEMMA UserFollowed ==
    ASSUME IInv, KInv, ToldTyped, NEW d \in Devices,
           \/ Login(d) \/ ChangePassword(d) \/ Reauth(d) \/ (\E k \in Ops : PlainCall(d, k))
           \/ SaveBackupNow(d) \/ BlobUpdated(d)
    PROVE  KInv'
<1>0. /\ page[d] \in PType /\ SidFits(page[d].token, d) /\ UNCHANGED <<server, page>>
      /\ \A e \in Devices : "session_revoked" \in told[e] => "session_revoked" \in told'[e]
      /\ BlobUpdated(d) => CanSave(page[d])
  <2>1. page[d] \in PType /\ PageFits(page[d]) /\ SidFits(page[d].token, d)
    BY DEF IInv, PagesTyped, KInv, Owned
  <2>2. CASE BlobUpdated(d)
    BY <2>1, <2>2 DEF BlobUpdated, InApp, PageFits, ToldTyped
  <2>3. CASE ~BlobUpdated(d)
    <3>1. UNCHANGED <<server, page, told>>
      BY <2>3 DEF Login, ChangePassword, Reauth, PlainCall, SaveBackupNow, Does
    <3> QED BY <2>1, <2>3, <3>1
  <2> QED BY <2>2, <2>3
<1>1. ASSUME NEW k, NEW b, NEW w, NEW i, NEW u
      PROVE  LET s == Request(i, d, k, page[d].token, b, w, None, 0)
                 q == [s EXCEPT !.items = b, !.pw = u]
             IN  /\ s.dev = d /\ s.mine = TRUE /\ s.sid = page[d].token /\ s.pc = "auth"
                 /\ q.dev = d /\ q.mine = TRUE /\ q.sid = page[d].token /\ q.pc = "auth"
  BY DEF Request
<1>2. ASSUME NEW q, reqs' = reqs \cup {q}, q.dev = d, q.mine = TRUE, q.sid = page[d].token,
             q.pc = "auth" \/ (q.pc = "verify" /\ q.kind = "login")
      PROVE  KInv'
  BY <1>0, <1>2, SendsFollowed
<1>3. CASE Login(d)
  <2>1. PICK q : q = [Sends(d, "login") EXCEPT !.pc = "verify", !.wrap = password]
    OBVIOUS
  <2>2. /\ q.dev = d /\ q.mine = TRUE /\ q.sid = page[d].token /\ q.pc = "verify"
        /\ q.kind = "login"
    BY <2>1 DEF Sends, Request
  <2> QED BY <1>2, <1>3, <2>1, <2>2 DEF Login, Does
<1>4. CASE ChangePassword(d)
  <2>1. PICK q : q = [Sends(d, "change") EXCEPT !.items = page[d].local, !.pw = passwords + 1]
    OBVIOUS
  <2>2. q.dev = d /\ q.mine = TRUE /\ q.sid = page[d].token /\ q.pc = "auth"
    BY <2>1 DEF Sends, Request
  <2> QED BY <1>2, <1>4, <2>1, <2>2 DEF ChangePassword, Does
<1>5. CASE SaveBackupNow(d)
  <2>1. PICK q : q = [Sends(d, "backup") EXCEPT !.items = page[d].local]
    OBVIOUS
  <2>2. q.dev = d /\ q.mine = TRUE /\ q.sid = page[d].token /\ q.pc = "auth"
    BY <2>1 DEF Sends, Request
  <2> QED BY <1>2, <1>5, <2>1, <2>2 DEF SaveBackupNow, Does
<1>6. ASSUME NEW k, reqs' = reqs \cup {Sends(d, k)} PROVE KInv'
  <2>1. PICK q : q = Sends(d, k)
    OBVIOUS
  <2>2. q.dev = d /\ q.mine = TRUE /\ q.sid = page[d].token /\ q.pc = "auth"
    BY <2>1 DEF Sends, Request
  <2> QED BY <1>2, <1>6, <2>1, <2>2
<1>7. CASE Reauth(d) \/ \E k \in Ops : PlainCall(d, k)
  BY <1>6, <1>7 DEF Reauth, PlainCall, Does
<1>8. CASE BlobUpdated(d)
  <2>1. reqs' = reqs \cup {Sends(d, "pull")}
    BY <1>0, <1>8 DEF BlobUpdated, Sends, CanSave
  <2> QED BY <1>6, <2>1
<1> QED BY <1>3, <1>4, <1>5, <1>7, <1>8

\* A page begins a save, or leaves it to the one under way.
LEMMA SaveFollowed ==
    ASSUME IInv, KInv, NEW d \in Devices, NEW p \in PType, NEW n, NEW R \in SUBSET reqs,
           SaveKeyBlob(d, p, n, R), UNCHANGED <<sessions, lastSid, told>>,
           p.at = page[d].at, p.token = page[d].token, p.ws = page[d].ws,
           p.late = page[d].late, p.dropped = page[d].dropped,
           \A r \in reqs \ R : r.dev = d /\ r.pc \in Answers /\ r.kind \notin RenewKinds
    PROVE  KInv'
<1>0. page \in [Devices -> PType] /\ SidFits(page[d].token, d)
  BY DEF IInv, PagesTyped, KInv, Owned
<1>1. PICK q : /\ q = PageAfterSave(p) /\ q.at = p.at /\ q.token = p.token /\ q.ws = p.ws
               /\ q.late = p.late /\ q.dropped = p.dropped
  <2>1. PICK a : a = [p EXCEPT !.queued = TRUE]
    OBVIOUS
  <2>2. PICK b : b = [p EXCEPT !.inflight = TRUE, !.unsent = FALSE]
    OBVIOUS
  <2>3. /\ a.at = p.at /\ a.token = p.token /\ a.ws = p.ws /\ a.late = p.late
        /\ a.dropped = p.dropped
    BY <2>1 DEF PType
  <2>4. /\ b.at = p.at /\ b.token = p.token /\ b.ws = p.ws /\ b.late = p.late
        /\ b.dropped = p.dropped
    BY <2>2 DEF PType
  <2> QED BY <2>1, <2>2, <2>3, <2>4 DEF PageAfterSave
<1>2. page'[d] = q /\ \A e \in Devices : e # d => page'[e] = page[e]
  BY <1>0, <1>1 DEF SaveKeyBlob
<1>3. SidFits(page'[d].token, d)
  BY <1>0, <1>1, <1>2
<1>4. Calm(page'[d]) => /\ Calm(page[d]) /\ page'[d].token = page[d].token
                        /\ page'[d].ws = page[d].ws
  BY <1>1, <1>2 DEF Calm
<1>5. PICK Q : /\ reqs' = R \cup Q
               /\ \A s \in Q : /\ s.dev = d /\ s.mine = TRUE /\ s.sid = p.token
                               /\ s.pc = "auth" /\ s.kind = "save"
  <2>1. CASE reqs' = R
    <3>1. PICK Q : Q = {}
      OBVIOUS
    <3> QED BY <2>1, <3>1
  <2>2. CASE reqs' = R \cup {Request(FreeId(R), d, "save", p.token, p.local, p.pass, p.rev, n)}
    <3>1. PICK s : s = Request(FreeId(R), d, "save", p.token, p.local, p.pass, p.rev, n)
      OBVIOUS
    <3>2. s.dev = d /\ s.mine = TRUE /\ s.sid = p.token /\ s.pc = "auth" /\ s.kind = "save"
      BY <3>1 DEF Request
    <3>3. PICK Q : Q = {s}
      OBVIOUS
    <3> QED BY <2>2, <3>1, <3>2, <3>3
  <2> QED BY <2>1, <2>2 DEF SaveKeyBlob, ReqsAfterSave
<1>6. \A s \in Q : /\ s.dev = d /\ s.mine = TRUE /\ SidFits(s.sid, d)
                   /\ s.pc \in {"auth", "verify"} /\ Paths(s)
  BY <1>0, <1>5 DEF Paths
<1>7. \A r \in reqs \ R : /\ r.dev = d /\ r.pc \notin {"list", "kick"}
                          /\ Calm(page'[d]) => r.kind \notin RenewKinds
  BY DEF Answers
<1> QED BY <1>2, <1>3, <1>4, <1>5, <1>6, <1>7, PageFollowed

\* The page of d is replaced: what is left of R is a session that nobody
\* mistakes, and what is on the way to others stays on the way.
LEMMA OrphanedFollowed ==
    ASSUME IInv, KInv, NEW d \in Devices, NEW R \in SUBSET reqs, InApp(d),
           \A r \in reqs \ R : r.dev = d /\ r.pc \notin {"list", "kick"}
    PROVE  /\ \A q \in Orphaned(d, R) :
                  \/ q \in reqs
                  \/ /\ SidFits(q.sid, q.dev) /\ Paths(q)
                     /\ q.kind \in LoginKinds => q.mine
           /\ \A q : q.dev # d => (q \in Orphaned(d, R) <=> q \in reqs)
           /\ \A r \in reqs : r.pc \in {"list", "kick"} =>
                  \E q \in Orphaned(d, R) : q.pc = r.pc /\ q.sid = r.sid /\ q.kicks = r.kicks
           /\ \A q \in Orphaned(d, R) : q.dev = d /\ q.kind \in RenewKinds => Renewing(d)
<1>0. Pool(R)
  BY PoolRemove DEF IInv
<1>1. \A q \in Orphaned(d, R) :
          \E r \in R : /\ q.dev = r.dev /\ q.kind = r.kind /\ q.pc = r.pc /\ q.sid = r.sid
                       /\ q.mine = (r.mine /\ r.dev # d) /\ (r.dev # d => q = r)
  BY <1>0, OrphanedFacts
<1>2. ASSUME NEW q \in Orphaned(d, R)
      PROVE  \/ q \in reqs
             \/ /\ SidFits(q.sid, q.dev) /\ Paths(q)
                /\ q.kind \in LoginKinds => q.mine
  <2>1. PICK r \in R : /\ q.dev = r.dev /\ q.kind = r.kind /\ q.pc = r.pc /\ q.sid = r.sid
                       /\ (r.dev # d => q = r)
    BY <1>1
  <2>2. SidFits(r.sid, r.dev) /\ Paths(r) /\ (r.kind \in LoginKinds => r.mine) /\ Fits(r)
    BY DEF KInv, Owned, IInv
  <2>3. r.dev = d => r.kind \notin LoginKinds
    BY <2>2 DEF Fits, InApp
  <2> QED BY <2>1, <2>2, <2>3 DEF Paths
<1>3. ASSUME NEW q, q.dev # d PROVE q \in Orphaned(d, R) <=> q \in reqs
  <2>1. q \in reqs => q \in R
    BY <1>3
  <2>2. q \in R => q \in Orphaned(d, R)
    BY <1>0, <1>3, OrphanedFacts
  <2>3. q \in Orphaned(d, R) => q \in reqs
    BY <1>1, <1>3
  <2> QED BY <2>1, <2>2, <2>3
<1>4. ASSUME NEW r \in reqs, r.pc \in {"list", "kick"}
      PROVE  \E q \in Orphaned(d, R) : q.pc = r.pc /\ q.sid = r.sid /\ q.kicks = r.kicks
  <2>1. r \in R /\ r \in RType /\ r.pc \notin Answers
    BY <1>4 DEF IInv, Pool, Answers
  <2>2. PICK q : q = [r EXCEPT !.mine = @ /\ r.dev # d]
    OBVIOUS
  <2>3. q \in Orphaned(d, R)
    BY <2>1, <2>2 DEF Orphaned
  <2>4. q.pc = r.pc /\ q.sid = r.sid /\ q.kicks = r.kicks
    BY <2>1, <2>2 DEF RType
  <2> QED BY <2>3, <2>4
<1>5. ASSUME NEW q \in Orphaned(d, R), q.dev = d, q.kind \in RenewKinds PROVE Renewing(d)
  BY <1>1, <1>5 DEF Renewing, RenewKinds
<1> QED BY <1>2, <1>3, <1>4, <1>5

\* A page goes to the login page.
LEMMA LeaveFollowed ==
    ASSUME IInv, KInv, ToldTyped, NEW d \in Devices, NEW R \in SUBSET reqs, InApp(d), Leave(d, R),
           \A r \in reqs \ R : r.dev = d /\ r.pc \notin {"list", "kick"}, UNCHANGED server
    PROVE  KInv'
<1>0. /\ UNCHANGED <<sessions, lastSid>> /\ page \in [Devices -> PType]
      /\ reqs' = Orphaned(d, R) /\ told' = [told EXCEPT ![d] = {}]
      /\ page' = [page EXCEPT ![d] = LoginPage(@.local)]
  BY DEF server, Leave, IInv, PagesTyped
<1>1. page'[d].at = "login" /\ page'[d].token = 0
  BY <1>0 DEF LoginPage, NewPage
<1>2. \A e \in Devices : e # d => page'[e] = page[e] /\ told'[e] = told[e]
  BY <1>0 DEF ToldTyped
<1>3. SidFits(0, d)
  BY DEF KInv, Owned, SidFits, IInv, ServerTyped
<1>4. Owned'
  <2>1. \A e \in Devices : SidFits(page'[e].token, e)
    BY <1>1, <1>2, <1>3 DEF KInv, Owned
  <2> QED BY <1>0, <2>1, OrphanedFollowed, OwnedKept DEF KInv
<1>5. ASSUME NEW e \in Devices, e # d PROVE Followed(e)'
  <2>1. /\ page'[e] = page[e] /\ told'[e] = told[e]
        /\ \A q : q.dev = e => (q \in reqs' <=> q \in reqs)
        /\ \A r \in reqs : r.pc \in {"list", "kick"} =>
               \E q \in reqs' : q.pc = r.pc /\ q.sid = r.sid /\ q.kicks = r.kicks
    BY <1>0, <1>2, <1>5, OrphanedFollowed
  <2> QED BY <1>0, <2>1, OthersFollowed
<1>6. Followed(d)'
  BY <1>1 DEF Followed, Calm
<1> QED BY <1>4, <1>5, <1>6 DEF KInv

\* A page of the app is loaded, with what is left of the requests.
LEMMA OpensFollowed ==
    ASSUME IInv, KInv, NEW d \in Devices, NEW t, NEW w, NEW l, NEW R,
           Opens(d, NewPage(t, w, l), R), SidFits(t, d), UNCHANGED server,
           \A e \in Devices : e # d => told'[e] = told[e],
           \A q \in R : \/ q \in reqs
                        \/ /\ SidFits(q.sid, q.dev) /\ Paths(q)
                           /\ q.kind \in LoginKinds => q.mine,
           \A q : q.dev # d => (q \in R <=> q \in reqs),
           \A r \in reqs : r.pc \in {"list", "kick"} =>
               \E q \in R : q.pc = r.pc /\ q.sid = r.sid /\ q.kicks = r.kicks,
           \A q \in R : q.dev = d /\ q.kind \in RenewKinds => Renewing(d)
    PROVE  KInv'
<1>0. UNCHANGED <<sessions, lastSid>> /\ page \in [Devices -> PType]
  BY DEF server, IInv, PagesTyped
<1>1. PICK p : /\ p = [NewPage(t, w, l) EXCEPT !.late = Renewing(d)]
               /\ p.ws = FALSE /\ p.token = t /\ p.late = Renewing(d)
  <2>1. PICK p : p = [NewPage(t, w, l) EXCEPT !.late = Renewing(d)]
    OBVIOUS
  <2>2. p.ws = FALSE /\ p.token = t /\ p.late = Renewing(d)
    BY <2>1 DEF NewPage
  <2> QED BY <2>1, <2>2
<1>2. page'[d] = p /\ \A e \in Devices : e # d => page'[e] = page[e]
  BY <1>0, <1>1 DEF Opens
<1>3. PICK h : reqs' = R \cup {h} /\ h.dev = d /\ h.mine = TRUE /\ h.kind = "hello" /\ h.sid = t
               /\ h.pc = "auth"
  <2>1. PICK h : h = Request(FreeId(R), d, "hello", NewPage(t, w, l).token, Empty,
                             NewPage(t, w, l).pass, None, 0)
    OBVIOUS
  <2>2. h.dev = d /\ h.mine = TRUE /\ h.kind = "hello" /\ h.sid = t /\ h.pc = "auth"
    BY <2>1 DEF Request, NewPage
  <2>3. reqs' = R \cup {h}
    BY <2>1 DEF Opens
  <2> QED BY <2>2, <2>3
<1>4. Owned'
  <2>1. ASSUME NEW e \in Devices PROVE SidFits(page'[e].token, e)
    <3>1. CASE e = d
      BY <1>1, <1>2, <3>1
    <3>2. CASE e # d
      BY <1>2, <3>2 DEF KInv, Owned
    <3> QED BY <3>1, <3>2
  <2>2. SidFits(h.sid, h.dev) /\ Paths(h) /\ h.kind \notin LoginKinds
    BY <1>3 DEF Paths, LoginKinds
  <2> QED BY <1>0, <1>3, <2>1, <2>2, OwnedKept DEF KInv
<1>5. ASSUME NEW e \in Devices, e # d PROVE Followed(e)'
  <2>1. \A q : q.dev = e => (q \in reqs' <=> q \in reqs)
    BY <1>3, <1>5
  <2>2. \A r \in reqs : r.pc \in {"list", "kick"} =>
            \E q \in reqs' : q.pc = r.pc /\ q.sid = r.sid /\ q.kicks = r.kicks
    BY <1>3
  <2>3. page'[e] = page[e] /\ told'[e] = told[e]
    BY <1>2, <1>5
  <2> QED BY <1>0, <2>1, <2>2, <2>3, OthersFollowed
<1>6. Followed(d)'
  <2>1. ASSUME Calm(page'[d]) PROVE OwnRenewals(d)' /\ ~page'[d].ws
    <3>1. ~Renewing(d)
      BY <1>1, <1>2, <2>1 DEF Calm
    <3> QED BY <1>1, <1>2, <1>3, <3>1 DEF OwnRenewals
  <2> QED BY <2>1 DEF Followed
<1> QED BY <1>4, <1>5, <1>6 DEF KInv

LEMMA ReloadFollowed ==
    ASSUME IInv, KInv, ToldTyped, NEW d \in Devices, Reload(d)
    PROVE  KInv'
<1>1. PICK R : R = Orphaned(d, reqs)
  OBVIOUS
<1>2. /\ Opens(d, NewPage(page[d].token, page[d].pass, page[d].local), R) /\ UNCHANGED server
      /\ told' = [told EXCEPT ![d] = {}] /\ InApp(d)
  BY <1>1 DEF Reload
<1>3. SidFits(page[d].token, d) /\ \A e \in Devices : e # d => told'[e] = told[e]
  BY <1>2 DEF KInv, Owned, ToldTyped
<1>4. \A r \in reqs \ reqs : r.dev = d /\ r.pc \notin {"list", "kick"}
  OBVIOUS
<1>5. /\ \A q \in R : \/ q \in reqs
                      \/ /\ SidFits(q.sid, q.dev) /\ Paths(q)
                         /\ q.kind \in LoginKinds => q.mine
      /\ \A q : q.dev # d => (q \in R <=> q \in reqs)
      /\ \A r \in reqs : r.pc \in {"list", "kick"} =>
             \E q \in R : q.pc = r.pc /\ q.sid = r.sid /\ q.kicks = r.kicks
      /\ \A q \in R : q.dev = d /\ q.kind \in RenewKinds => Renewing(d)
  BY <1>1, <1>2, <1>4, OrphanedFollowed
<1> QED BY <1>2, <1>3, <1>5, OpensFollowed

\* The page writes a key, or a save is due.
LEMMA EditFollowed ==
    ASSUME IInv, KInv, NEW d \in Devices, (\E k \in Keys : Edit(d, k)) \/ TimerFires(d)
    PROVE  KInv'
<1>0. /\ page \in [Devices -> PType] /\ page[d] \in PType /\ SidFits(page[d].token, d)
      /\ UNCHANGED <<sessions, lastSid, told>>
  BY DEF IInv, PagesTyped, KInv, Owned, Edit, TimerFires, server
<1>1. CASE \E k \in Keys : Edit(d, k)
  <2>1. PICK k : Edit(d, k)
    BY <1>1
  <2>2. PICK p : p = [page[d] EXCEPT !.local[k] = edits + 1, !.timer = @ \/ page[d].token # 0,
                                     !.unsent = @ \/ page[d].token # 0]
    OBVIOUS
  <2>3. page' = [page EXCEPT ![d] = p] /\ reqs' = reqs
    BY <1>0, <2>1, <2>2 DEF Edit
  <2>4. p.at = page[d].at /\ p.token = page[d].token /\ p.ws = page[d].ws
        /\ p.late = page[d].late /\ p.dropped = page[d].dropped
    BY <1>0, <2>2 DEF PType
  <2>5. page'[d] = p /\ \A e \in Devices : e # d => page'[e] = page[e]
    BY <1>0, <2>3
  <2>6. SidFits(page'[d].token, d)
    BY <1>0, <2>4, <2>5
  <2>7. Calm(page'[d]) => /\ Calm(page[d]) /\ page'[d].token = page[d].token
                          /\ page'[d].ws = page[d].ws
    BY <2>4, <2>5 DEF Calm
  <2>8. PICK R, Q : R = reqs /\ Q = {}
    OBVIOUS
  <2>9. /\ R \in SUBSET reqs /\ reqs' = R \cup Q
        /\ \A r \in reqs \ R : /\ r.dev = d /\ r.pc \notin {"list", "kick"}
                               /\ Calm(page'[d]) => r.kind \notin RenewKinds
        /\ \A q \in Q : /\ q.dev = d /\ q.mine = TRUE /\ SidFits(q.sid, d)
                        /\ q.pc \in {"auth", "verify"} /\ Paths(q)
    BY <2>3, <2>8
  <2>10. \A e \in Devices : "session_revoked" \in told[e] => "session_revoked" \in told'[e]
    BY <1>0
  <2> QED BY <1>0, <2>5, <2>6, <2>7, <2>9, <2>10, PageFollowed
<1>2. CASE TimerFires(d)
  <2>1. PICK p : p = [page[d] EXCEPT !.timer = FALSE]
    OBVIOUS
  <2>2. /\ p \in PType /\ p.at = page[d].at /\ p.token = page[d].token /\ p.ws = page[d].ws
        /\ p.late = page[d].late /\ p.dropped = page[d].dropped
    BY <1>0, <2>1 DEF PType
  <2>3. SaveKeyBlob(d, p, 0, reqs)
    BY <1>2, <2>1 DEF TimerFires
  <2>4. PICK R : R = reqs
    OBVIOUS
  <2>5. \A r \in reqs \ R : r.dev = d /\ r.pc \in Answers /\ r.kind \notin RenewKinds
    BY <2>4
  <2>6. SaveKeyBlob(d, p, 0, R) /\ R \in SUBSET reqs
    BY <2>3, <2>4
  <2> QED BY <1>0, <2>2, <2>5, <2>6, SaveFollowed
<1> QED BY <1>1, <1>2

\* r is forgotten, and q sent for it or nothing; the page is the same but for
\* what is of no concern here, or it no longer counts.
LEMMA HeardFollowed ==
    ASSUME IInv, KInv, NEW r \in reqs, UNCHANGED <<sessions, lastSid, told>>,
           NEW p, page' = [page EXCEPT ![r.dev] = p], SidFits(p.token, r.dev),
           Calm(p) => /\ Calm(page[r.dev]) /\ p.token = page[r.dev].token
                      /\ p.ws = page[r.dev].ws /\ r.kind \notin RenewKinds,
           r.pc \in Answers,
           \/ reqs' = reqs \ {r}
           \/ \E q : /\ reqs' = (reqs \ {r}) \cup {q}
                     /\ q.dev = r.dev /\ q.mine = TRUE /\ q.sid = r.sid /\ q.pc = "auth"
    PROVE  KInv'
<1>1. PICK d \in Devices : d = r.dev
  BY DEF IInv, Pool, RType
<1>2. page'[d] = p /\ \A e \in Devices : e # d => page'[e] = page[e]
  BY <1>1 DEF IInv, PagesTyped
<1>3. SidFits(r.sid, d)
  BY <1>1 DEF KInv, Owned
<1>4. PICK R : R = reqs \ {r}
  OBVIOUS
<1>5. PICK Q : /\ reqs' = R \cup Q
               /\ \A q \in Q : /\ q.dev = d /\ q.mine = TRUE /\ q.sid = r.sid /\ q.pc = "auth"
  <2>1. CASE reqs' = reqs \ {r}
    <3>1. PICK Q : Q = {}
      OBVIOUS
    <3> QED BY <1>4, <2>1, <3>1
  <2>2. ASSUME NEW q, reqs' = (reqs \ {r}) \cup {q},
               q.dev = r.dev, q.mine = TRUE, q.sid = r.sid, q.pc = "auth"
        PROVE  \E Q : /\ reqs' = R \cup Q
                      /\ \A s \in Q : /\ s.dev = d /\ s.mine = TRUE /\ s.sid = r.sid
                                      /\ s.pc = "auth"
    <3>1. PICK Q : Q = {q}
      OBVIOUS
    <3>2. reqs' = R \cup Q
      BY <1>4, <2>2, <3>1
    <3>3. \A s \in Q : /\ s.dev = d /\ s.mine = TRUE /\ s.sid = r.sid /\ s.pc = "auth"
      BY <1>1, <2>2, <3>1
    <3> QED BY <3>2, <3>3
  <2> QED BY <2>1, <2>2
<1>6. \A q \in Q : /\ q.dev = d /\ q.mine = TRUE /\ SidFits(q.sid, d)
                   /\ q.pc \in {"auth", "verify"} /\ Paths(q)
  BY <1>3, <1>5 DEF Paths
<1>7. /\ R \in SUBSET reqs
      /\ \A s \in reqs \ R : /\ s.dev = d /\ s.pc \notin {"list", "kick"}
                             /\ Calm(page'[d]) => s.kind \notin RenewKinds
  BY <1>1, <1>2, <1>4 DEF Answers
<1>8. /\ SidFits(page'[d].token, d)
      /\ Calm(page'[d]) => /\ Calm(page[d]) /\ page'[d].token = page[d].token
                           /\ page'[d].ws = page[d].ws
  BY <1>1, <1>2
<1>9. \A e \in Devices : "session_revoked" \in told[e] => "session_revoked" \in told'[e]
  OBVIOUS
<1> QED BY <1>2, <1>5, <1>6, <1>7, <1>8, <1>9, PageFollowed, ZenonT(60)

LEMMA SaveAnsweredFollowed ==
    ASSUME IInv, KInv, NEW r \in reqs, SaveAnswered(r)
    PROVE  KInv'
<1>0. /\ r \in RType /\ r.dev \in Devices /\ r.kind = "save" /\ r.pc \in Answers
      /\ page \in [Devices -> PType] /\ page[r.dev] \in PType /\ SidFits(page[r.dev].token, r.dev)
      /\ UNCHANGED <<sessions, lastSid, told>>
  BY DEF IInv, Pool, PagesTyped, RType, KInv, Owned, SaveAnswered, server
<1>1. PICK d \in Devices : d = r.dev
  BY <1>0
<1> DEFINE Like(p) == /\ p.at = page[d].at /\ p.token = page[d].token /\ p.ws = page[d].ws
                      /\ p.late = page[d].late
<1>2. PICK f \in PType : f = Freed(page[d]) /\ Like(f) /\ f.dropped = page[d].dropped
  <2>1. PICK f : f = [page[d] EXCEPT !.inflight = FALSE]
    OBVIOUS
  <2>2. f \in PType /\ Like(f) /\ f.dropped = page[d].dropped
    BY <1>0, <1>1, <2>1 DEF PType
  <2> QED BY <2>1, <2>2 DEF Freed
<1>3. PICK R : R = reqs \ {r}
  OBVIOUS
<1>4. /\ R \in SUBSET reqs
      /\ \A s \in reqs \ R : s.dev = d /\ s.pc \in Answers /\ s.kind \notin RenewKinds
  BY <1>0, <1>1, <1>3 DEF RenewKinds
<1>5. ASSUME NEW p \in PType, NEW n, Like(p), p.dropped = page[d].dropped,
             SaveKeyBlob(d, p, n, R)
      PROVE  KInv'
  BY <1>0, <1>4, <1>5, SaveFollowed
<1>6. ASSUME NEW p, p.at = page[d].at, p.token = page[d].token, p.ws = page[d].ws,
             p.late = page[d].late, p.dropped = page[d].dropped \/ p.dropped = TRUE,
             page' = [page EXCEPT ![d] = p], reqs' = R
      PROVE  KInv'
  <2>1. Calm(p) => /\ Calm(page[d]) /\ p.token = page[d].token
                   /\ p.ws = page[d].ws /\ r.kind \notin RenewKinds
    BY <1>0, <1>6 DEF Calm, RenewKinds
  <2>2. page' = [page EXCEPT ![r.dev] = p] /\ SidFits(p.token, r.dev) /\ reqs' = reqs \ {r}
    BY <1>0, <1>1, <1>3, <1>6
  <2> QED BY <1>0, <1>1, <2>1, <2>2, HeardFollowed
<1>7. CASE r.pc = "lost"
  <2>1. PICK p : p = [f EXCEPT !.dropped = TRUE]
    OBVIOUS
  <2>2. Like(p) /\ p.dropped = TRUE
    BY <1>2, <2>1 DEF PType
  <2>3. page' = [page EXCEPT ![d] = p] /\ reqs' = R
    BY <1>1, <1>2, <1>3, <1>7, <2>1 DEF SaveAnswered
  <2> QED BY <1>6, <2>2, <2>3
<1>8. CASE r.pc = "conflict" /\ r.n < MaxTries
  <2>1. PICK l \in Items : l = Restored(f.local, r.items)
    BY <1>0, <1>2, RestoredTyped DEF PType, RType
  <2>2. PICK m : m = [f EXCEPT !.local = l, !.rev = r.rev]
    OBVIOUS
  <2>3. m \in PType /\ Like(m) /\ m.dropped = page[d].dropped
    BY <1>0, <1>2, <2>1, <2>2 DEF PType, RType
  <2>4. PICK p \in PType : /\ p = IF r.pw = r.wrap THEN m ELSE f
                           /\ Like(p) /\ p.dropped = page[d].dropped
    BY <1>2, <2>3
  <2>5. SaveKeyBlob(d, p, r.n + 1, R)
    BY <1>1, <1>2, <1>3, <1>8, <2>1, <2>2, <2>4 DEF SaveAnswered
  <2> QED BY <1>5, <2>4, <2>5
<1>9. CASE r.pc # "lost" /\ ~(r.pc = "conflict" /\ r.n < MaxTries)
  <2>1. PICK k \in PType : /\ k = IF r.pc = "denied" THEN f ELSE [f EXCEPT !.rev = r.rev]
                           /\ Like(k) /\ k.dropped = page[d].dropped
    <3>1. PICK k : k = [f EXCEPT !.rev = r.rev]
      OBVIOUS
    <3>2. k \in PType /\ Like(k) /\ k.dropped = page[d].dropped
      BY <1>0, <1>2, <3>1 DEF PType, RType
    <3> QED BY <1>2, <3>1, <3>2
  <2>0. k \in PType
    BY <2>1
  <2>2. PICK p : p = [k EXCEPT !.queued = FALSE]
    OBVIOUS
  <2>3. p \in PType /\ Like(p) /\ p.dropped = page[d].dropped
    <3>1. p \in PType
      BY <2>0, <2>2 DEF PType
    <3>2. /\ p.at = k.at /\ p.token = k.token /\ p.ws = k.ws
          /\ p.late = k.late /\ p.dropped = k.dropped
      BY <2>0, <2>2 DEF PType
    <3> QED BY <2>1, <3>1, <3>2
  <2>4. SaveKeyBlob(d, p, 0, R) \/ (page' = [page EXCEPT ![d] = k] /\ reqs' = R)
    BY <1>1, <1>2, <1>3, <1>9, <2>1, <2>2 DEF SaveAnswered
  <2> QED BY <1>5, <1>6, <2>1, <2>3, <2>4
<1> QED BY <1>7, <1>8, <1>9

\* Answers that bring no new session to a page of the app.
LEMMA AnswersFollowed ==
    ASSUME IInv, KInv, NEW r \in reqs,
           \/ PullAnswered(r) \/ LoginAnswered(r) \/ LoginBlobAnswered(r) \/ OtherAnswered(r)
    PROVE  KInv'
<1>0. /\ r \in RType /\ r.dev \in Devices /\ r.pc \in Answers /\ Fits(r) /\ r.mine
      /\ page \in [Devices -> PType] /\ page[r.dev] \in PType
      /\ SidFits(page[r.dev].token, r.dev) /\ SidFits(r.sid, r.dev)
      /\ UNCHANGED <<sessions, lastSid, told>> /\ r.kind \notin RenewKinds
  <2>1. r \in RType /\ Fits(r)
    BY DEF IInv, Pool
  <2>2. r.pc \in Answers /\ UNCHANGED <<sessions, lastSid, told>> /\ r.kind \notin RenewKinds
    BY DEF PullAnswered, LoginAnswered, LoginBlobAnswered, OtherAnswered, server, Answers,
           RenewKinds
  <2>3. r.dev \in Devices /\ r.mine
    BY <2>1, <2>2 DEF RType, Fits
  <2> QED BY <2>1, <2>2, <2>3 DEF IInv, PagesTyped, KInv, Owned
<1>1. CASE reqs' = reqs \ {r} /\ UNCHANGED page
  <2>1. PICK p : p = page[r.dev]
    OBVIOUS
  <2>2. page' = [page EXCEPT ![r.dev] = p]
    BY <1>0, <1>1, <2>1
  <2> QED BY <1>0, <1>1, <2>1, <2>2, HeardFollowed
<1>2. CASE PullAnswered(r)
  <2>1. CASE page' = [page EXCEPT ![r.dev].local = Restored(@, r.items)]
    <3>1. PICK l : l = Restored(page[r.dev].local, r.items)
      OBVIOUS
    <3>2. PICK p : p = [page[r.dev] EXCEPT !.local = l]
      OBVIOUS
    <3>3. page' = [page EXCEPT ![r.dev] = p]
      BY <1>0, <2>1, <3>1, <3>2
    <3>4. /\ p.at = page[r.dev].at /\ p.token = page[r.dev].token /\ p.ws = page[r.dev].ws
          /\ p.late = page[r.dev].late /\ p.dropped = page[r.dev].dropped
      BY <1>0, <3>2 DEF PType
    <3>5. Calm(p) => Calm(page[r.dev])
      BY <3>4 DEF Calm
    <3>6. reqs' = reqs \ {r}
      BY <1>2 DEF PullAnswered
    <3> QED BY <1>0, <3>3, <3>4, <3>5, <3>6, HeardFollowed
  <2> QED BY <1>1, <1>2, <2>1 DEF PullAnswered
<1>3. CASE LoginAnswered(r)
  <2>1. ~Calm(page[r.dev])
    BY <1>0, <1>3 DEF LoginAnswered, Fits, LoginKinds, Calm
  <2>2. CASE r.pc = "ok"
    <3>1. PICK q : q = [Request(r.id, r.dev, "loginGet", r.sid, Empty, r.wrap, None, 0)
                            EXCEPT !.mine = r.mine]
      OBVIOUS
    <3>2. q.dev = r.dev /\ q.mine = r.mine /\ q.sid = r.sid /\ q.pc = "auth"
      BY <3>1 DEF Request
    <3>3. reqs' = (reqs \ {r}) \cup {q}
      BY <1>3, <2>2, <3>1 DEF LoginAnswered, Becomes
    <3>4. q.mine = TRUE
      BY <1>0, <3>2 DEF RType
    <3>5. PICK p : p = page[r.dev]
      OBVIOUS
    <3>6. page' = [page EXCEPT ![r.dev] = p] /\ ~Calm(p) /\ SidFits(p.token, r.dev)
      BY <1>0, <1>3, <2>1, <3>5 DEF LoginAnswered
    <3> QED BY <1>0, <3>2, <3>3, <3>4, <3>6, HeardFollowed
  <2> QED BY <1>1, <1>3, <2>2 DEF LoginAnswered
<1>4. CASE LoginBlobAnswered(r)
  <2>1. page[r.dev].at = "login"
    BY <1>0, <1>4 DEF LoginBlobAnswered, Fits, LoginKinds
  <2>2. PICK l : /\ page' = [page EXCEPT ![r.dev].local = l, ![r.dev].token = r.sid,
                                         ![r.dev].pass = r.wrap]
                 /\ Becomes(r, Request(r.id, r.dev, "loginPut", r.sid, l, r.wrap, None, 0))
    BY <1>4 DEF LoginBlobAnswered
  <2>3. PICK p : p = [page[r.dev] EXCEPT !.local = l, !.token = r.sid, !.pass = r.wrap]
    OBVIOUS
  <2>4. page' = [page EXCEPT ![r.dev] = p]
    BY <1>0, <2>2, <2>3
  <2>5. p.at = "login" /\ p.token = r.sid
    BY <1>0, <2>1, <2>3 DEF PType
  <2>6. PICK q : q = Request(r.id, r.dev, "loginPut", r.sid, l, r.wrap, None, 0)
    OBVIOUS
  <2>7. q.dev = r.dev /\ q.mine = TRUE /\ q.sid = r.sid /\ q.pc = "auth"
    BY <2>6 DEF Request
  <2>8. reqs' = (reqs \ {r}) \cup {q}
    BY <2>2, <2>6 DEF Becomes
  <2>9. ~Calm(p) /\ SidFits(p.token, r.dev)
    BY <1>0, <2>5 DEF Calm
  <2> QED BY <1>0, <2>4, <2>7, <2>8, <2>9, HeardFollowed
<1>5. CASE OtherAnswered(r)
  BY <1>1, <1>5 DEF OtherAnswered
<1> QED BY <1>2, <1>3, <1>4, <1>5

\* The answer to a login's save opens the app.
LEMMA LoginSaveFollowed ==
    ASSUME IInv, KInv, NEW r \in reqs, LoginSaveAnswered(r)
    PROVE  KInv'
<1>0. r \in RType /\ r.kind = "loginPut" /\ r.pc \in Answers
  BY DEF IInv, Pool, LoginSaveAnswered
<1>1. PICK d \in Devices : d = r.dev
  BY <1>0 DEF RType
<1>2. PICK R : R = reqs \ {r}
  OBVIOUS
<1>3. /\ Opens(d, NewPage(page[d].token, page[d].pass, page[d].local), R)
      /\ UNCHANGED server /\ UNCHANGED told
  BY <1>1, <1>2 DEF LoginSaveAnswered
<1>4. SidFits(page[d].token, d)
  BY DEF KInv, Owned
<1>5. /\ \A q \in R : q \in reqs
      /\ \A q : q.dev # d => (q \in R <=> q \in reqs)
      /\ \A q \in reqs : q.pc \in {"list", "kick"} => q \in R
      /\ \A q \in R : q.dev = d /\ q.kind \in RenewKinds => Renewing(d)
  BY <1>0, <1>1, <1>2 DEF Renewing, RenewKinds, Answers
<1>6. \A q \in reqs : q.pc \in {"list", "kick"} =>
          \E s \in R : s.pc = q.pc /\ s.sid = q.sid /\ s.kicks = q.kicks
  BY <1>5
<1> QED BY <1>3, <1>4, <1>5, <1>6, OpensFollowed

\* The answers that may sign the page out.
LEMMA LeavesFollowed ==
    ASSUME IInv, KInv, ToldTyped, NEW r \in reqs, Refused(r) \/ LogoutAnswered(r)
    PROVE  KInv'
<1>0. r \in RType /\ Fits(r) /\ r.pc \in Answers /\ r.kind \notin LoginKinds /\ UNCHANGED server
  BY DEF IInv, Pool, Refused, LogoutAnswered, Answers, LoginKinds
<1>1. PICK d \in Devices : d = r.dev
  BY <1>0 DEF RType
<1>2. r.mine /\ InApp(d)
  BY <1>0, <1>1 DEF Fits, InApp, IInv, PagesTyped, PType
<1>3. page[d].token # 0
  BY <1>2 DEF IInv, PageFits, CanSave, InApp
<1>4. PICK R : R = reqs \ {r}
  OBVIOUS
<1>5. Leave(d, R)
  BY <1>1, <1>3, <1>4 DEF Refused, LogoutAnswered
<1>6. R \in SUBSET reqs /\ \A q \in reqs \ R : q.dev = d /\ q.pc \notin {"list", "kick"}
  BY <1>0, <1>1, <1>4 DEF Answers
<1> QED BY <1>0, <1>2, <1>5, <1>6, LeaveFollowed

\* The answer to a password change or a re-authentication: the page goes on
\* with the session it was waiting for, or is known to have lost it.
LEMMA CredentialFollowed ==
    ASSUME IInv, KInv, NEW r \in reqs, CredentialAnswered(r)
    PROVE  KInv'
<1>0. /\ r \in RType /\ r.pc \in Answers /\ r.kind \in {"change", "reauth"} /\ r.mine
      /\ UNCHANGED <<sessions, lastSid, told>> /\ reqs' = reqs \ {r}
      /\ page \in [Devices -> PType] /\ SidFits(r.sid, r.dev)
      /\ SidFits(page[r.dev].token, r.dev) /\ page[r.dev] \in PType /\ r.dev \in Devices
  <2>1. r \in RType /\ Fits(r) /\ r.dev \in Devices
    BY DEF IInv, Pool, RType
  <2>2. r.pc \in Answers /\ r.kind \in {"change", "reauth"} /\ reqs' = reqs \ {r}
        /\ UNCHANGED <<sessions, lastSid, told>>
    BY DEF CredentialAnswered, server, Answers
  <2>3. r.mine
    BY <2>1, <2>2 DEF Fits
  <2> QED BY <2>1, <2>2, <2>3 DEF IInv, PagesTyped, KInv, Owned
<1>1. ASSUME NEW p, page' = [page EXCEPT ![r.dev] = p], p.token = page[r.dev].token,
             Calm(p) => /\ Calm(page[r.dev]) /\ p.ws = page[r.dev].ws
                        /\ r.kind \notin RenewKinds
      PROVE  KInv'
  BY <1>0, <1>1, HeardFollowed
<1>2. CASE r.kind = "change"
  <2>1. PICK w : w = IF r.pc = "ok" THEN r.pw ELSE page[r.dev].pass
    OBVIOUS
  <2>2. PICK p : p = [page[r.dev] EXCEPT !.pass = w]
    OBVIOUS
  <2>3. page' = [page EXCEPT ![r.dev] = p]
    <3>1. page[r.dev] = [page[r.dev] EXCEPT !.pass = page[r.dev].pass]
      BY <1>0 DEF PType
    <3>2. CASE r.pc = "ok"
      BY <1>0, <1>2, <2>1, <2>2, <3>2 DEF CredentialAnswered
    <3>3. CASE r.pc # "ok"
      <4>1. UNCHANGED page /\ p = page[r.dev]
        BY <1>2, <2>1, <2>2, <3>1, <3>3 DEF CredentialAnswered
      <4> QED BY <1>0, <4>1
    <3> QED BY <3>2, <3>3
  <2>4. /\ p.at = page[r.dev].at /\ p.token = page[r.dev].token /\ p.ws = page[r.dev].ws
        /\ p.late = page[r.dev].late /\ p.dropped = page[r.dev].dropped
    BY <1>0, <2>2 DEF PType
  <2>5. Calm(p) => Calm(page[r.dev])
    BY <2>4 DEF Calm
  <2> QED BY <1>1, <1>2, <2>3, <2>4, <2>5 DEF RenewKinds
<1>3. CASE r.kind = "reauth" /\ r.pc # "ok"
  <2>1. PICK p : p = [page[r.dev] EXCEPT !.dropped = TRUE]
    OBVIOUS
  <2>2. page' = [page EXCEPT ![r.dev] = p]
    BY <1>0, <1>3, <2>1 DEF CredentialAnswered
  <2>3. p.token = page[r.dev].token /\ p.dropped = TRUE
    BY <1>0, <2>1 DEF PType
  <2>4. ~Calm(p)
    BY <2>3 DEF Calm
  <2> QED BY <1>1, <2>2, <2>3, <2>4
<1>4. CASE r.kind = "reauth" /\ r.pc = "ok"
  <2>1. PICK d \in Devices : d = r.dev
    BY <1>0
  <2>2. PICK b : b = (page[d].dropped \/ ~\E x \in sessions : x.sid = r.sid)
    OBVIOUS
  <2>3. PICK p : p = [page[d] EXCEPT !.token = r.sid, !.dropped = b]
    OBVIOUS
  <2>4. page' = [page EXCEPT ![d] = p]
    BY <1>0, <1>4, <2>1, <2>2, <2>3 DEF CredentialAnswered
  <2>5. /\ p.at = page[d].at /\ p.token = r.sid /\ p.ws = page[d].ws
        /\ p.late = page[d].late /\ p.dropped = b
    BY <1>0, <2>1, <2>3 DEF PType
  <2>6. page'[d] = p /\ \A e \in Devices : e # d => page'[e] = page[e]
    BY <1>0, <2>4
  <2>7. Owned'
    <3>1. ASSUME NEW e \in Devices PROVE SidFits(page'[e].token, e)
      <4>1. CASE e = d
        BY <1>0, <2>1, <2>5, <2>6, <4>1
      <4>2. CASE e # d
        BY <2>6, <4>2 DEF KInv, Owned
      <4> QED BY <4>1, <4>2
    <3> QED BY <1>0, <3>1, OwnedKept DEF KInv
  <2>8. ASSUME NEW e \in Devices, e # d PROVE Followed(e)'
    <3>1. /\ \A q : q.dev = e => (q \in reqs' <=> q \in reqs)
          /\ \A q \in reqs : q.pc \in {"list", "kick"} => q \in reqs'
      BY <1>0, <1>4, <2>1, <2>8
    <3>2. \A q \in reqs : q.pc \in {"list", "kick"} =>
              \E s \in reqs' : s.pc = q.pc /\ s.sid = q.sid /\ s.kicks = q.kicks
      BY <3>1
    <3> QED BY <1>0, <2>6, <2>8, <3>1, <3>2, OthersFollowed
  <2>9. ASSUME Calm(page'[d]) PROVE OwnRenewals(d)' /\ (page'[d].ws => Warned(d)')
    <3>1. Calm(page[d]) /\ ~Unknown(r.sid)
      BY <2>2, <2>5, <2>6, <2>9 DEF Calm, Unknown
    <3>2. OwnRenewals(d) /\ (page[d].ws => Warned(d))
      BY <3>1 DEF KInv, Followed
    <3>3. OwnRenewals(d)'
      BY <1>0, <3>2 DEF OwnRenewals
    <3>4. ASSUME page'[d].ws PROVE Warned(d)'
      <4>1. Warned(d)
        BY <2>5, <2>6, <3>2, <3>4
      <4>2. \A s : /\ Over(s, d)' <=> Over(s, d)
                   /\ Unknown(s)' <=> Unknown(s)
                   /\ Telling(d, s) => Telling(d, s)'
        BY <1>0, <1>4 DEF Over, Live, Unknown, Telling
      <4>3. Leaving(d) => Leaving(d)' /\ Renewing(d)'
        BY <1>0, <1>4 DEF Leaving, Renewing
      <4>4. r \in Renewed(d) /\ Renewed(d)' \subseteq Renewed(d)
        BY <1>0, <1>4, <2>1 DEF Renewed
      <4>5. \A q \in Renewed(d) : Over(q.sid, d) => Telling(d, q.sid) \/ Leaving(d)
        BY <4>1 DEF Warned
      <4>6. PICK t : t = r.sid
        OBVIOUS
      <4>7. (Over(t, d)' => Telling(d, t)' \/ Renewing(d)') /\ ~Unknown(t)'
        BY <3>1, <4>2, <4>3, <4>4, <4>5, <4>6
      <4>8. \A q \in Renewed(d)' : Over(q.sid, d)' => Telling(d, q.sid)' \/ Leaving(d)'
        BY <4>2, <4>3, <4>4, <4>5
      <4>9. page'[d].token = t
        BY <2>5, <2>6, <4>6
      <4>10. /\ (Over(page[d].token, d))' <=> Over(t, d)'
             /\ (Unknown(page[d].token))' <=> Unknown(t)'
             /\ (Telling(d, page[d].token))' <=> Telling(d, t)'
        BY <4>9 DEF Over, Live, Unknown, Telling
      <4> QED BY <4>7, <4>8, <4>10 DEF Warned
    <3> QED BY <3>3, <3>4
  <2>10. Followed(d)'
    BY <2>9 DEF Followed
  <2> QED BY <2>7, <2>8, <2>10 DEF KInv
<1> QED BY <1>0, <1>2, <1>3, <1>4

\* The network loses a request or its answer.
LEMMA LoseFollowed ==
    ASSUME IInv, KInv, NEW r \in reqs, Lose(r)
    PROVE  KInv'
<1>0. /\ r \in RType /\ Paths(r) /\ Goes(r, "lost") /\ UNCHANGED <<page, sessions, lastSid, told>>
      /\ r.pc \notin {"list", "kick"}
  BY DEF IInv, KInv, Owned, Pool, Lose, server
<1>1. PICK s : Moves(r, s) /\ s.sid = r.sid /\ s.pc = "lost"
  BY <1>0, GoesMoves
<1>2. Paths(s) /\ s.pc # "ok"
  BY <1>1 DEF Paths
<1> QED BY <1>0, <1>1, <1>2, HandlerRests

LEMMA InitFollowed == Init => KInv /\ ToldTyped
<1> SUFFICES ASSUME Init PROVE KInv /\ ToldTyped
  OBVIOUS
<1>1. PICK f \in [SignedIn -> 1..Cardinality(SignedIn)] :
          /\ \A d, e \in SignedIn : f[d] = f[e] => d = e
          /\ sessions = {[sid |-> f[d], dev |-> d, revoked |-> FALSE, pw |-> 1] :
                          d \in SignedIn}
          /\ page = [d \in Devices |->
                      IF d \in SignedIn THEN [NewPage(f[d], 1, Empty) EXCEPT !.ws = TRUE]
                      ELSE LoginPage(Empty)]
  <2>1. PICK f : f = CHOOSE h \in [SignedIn -> 1..Cardinality(SignedIn)] :
                         \A d, e \in SignedIn : h[d] = h[e] => d = e
    OBVIOUS
  <2>2. f \in [SignedIn -> 1..Cardinality(SignedIn)] /\ \A d, e \in SignedIn : f[d] = f[e] => d = e
    BY <2>1, Numbered
  <2>3. /\ sessions = {[sid |-> f[d], dev |-> d, revoked |-> FALSE, pw |-> 1] : d \in SignedIn}
        /\ page = [d \in Devices |->
                    IF d \in SignedIn THEN [NewPage(f[d], 1, Empty) EXCEPT !.ws = TRUE]
                    ELSE LoginPage(Empty)]
    BY <2>1 DEF Init
  <2> QED BY <2>2, <2>3
<1>2. /\ lastSid = Cardinality(SignedIn) /\ lastSid \in Nat /\ SignedIn \subseteq Devices
      /\ reqs = {} /\ told = [d \in Devices |-> {}]
  BY DeviceAssumption, FS_Subset, FS_CardinalityType DEF Init
<1>3. \A d \in SignedIn : f[d] \in Nat /\ f[d] # 0 /\ f[d] \leq lastSid
  BY <1>1, <1>2
<1>4. ASSUME NEW x \in sessions
      PROVE  \E d \in SignedIn : x.sid = f[d] /\ x.dev = d /\ x.revoked = FALSE
  <2>1. PICK d \in SignedIn : x = [sid |-> f[d], dev |-> d, revoked |-> FALSE, pw |-> 1]
    BY <1>1
  <2>2. x.sid = f[d] /\ x.dev = d /\ x.revoked = FALSE
    BY <2>1
  <2> QED BY <2>2
<1>5. ASSUME NEW d \in SignedIn PROVE \E x \in sessions : x.sid = f[d] /\ x.revoked = FALSE
  <2>1. PICK x : x = [sid |-> f[d], dev |-> d, revoked |-> FALSE, pw |-> 1]
    OBVIOUS
  <2>2. x \in sessions
    BY <1>1, <2>1
  <2>3. x.sid = f[d] /\ x.revoked = FALSE
    BY <2>1
  <2> QED BY <2>2, <2>3
<1>6. ASSUME NEW d \in Devices PROVE SidFits(page[d].token, d) /\ Followed(d)
  <2>1. CASE d \in SignedIn
    <3>1. PICK p : p = [NewPage(f[d], 1, Empty) EXCEPT !.ws = TRUE]
      OBVIOUS
    <3>2. page[d] = p /\ p.token = f[d]
      BY <1>1, <2>1, <3>1 DEF NewPage
    <3>3. SidFits(page[d].token, d)
      BY <1>1, <1>3, <1>4, <2>1, <3>2 DEF SidFits
    <3>4. Live(page[d].token)
      BY <1>5, <2>1, <3>2 DEF Live
    <3>5. OwnRenewals(d) /\ Warned(d)
      BY <1>2, <3>4 DEF OwnRenewals, Warned, Over, Unknown, Live, Renewed
    <3> QED BY <3>3, <3>5 DEF Followed
  <2>2. CASE d \notin SignedIn
    <3>1. page[d] = LoginPage(Empty)
      BY <1>1, <2>2
    <3>2. page[d].at = "login" /\ page[d].token = 0
      BY <3>1 DEF LoginPage, NewPage
    <3>3. SidFits(0, d)
      <4>1. \A x \in sessions : x.sid # 0
        BY <1>3, <1>4
      <4> QED BY <1>2, <4>1 DEF SidFits
    <3> QED BY <3>2, <3>3 DEF Followed, Calm
  <2> QED BY <2>1, <2>2
<1>7. \A x \in sessions : x.sid # 0 /\ x.sid \leq lastSid
  BY <1>3, <1>4
<1> QED BY <1>2, <1>6, <1>7 DEF KInv, Owned, ToldTyped

\* Messages stay messages.
LEMMA NextTold == ToldTyped /\ [Next]_vars => ToldTyped'
<1> SUFFICES ASSUME ToldTyped, [Next]_vars PROVE ToldTyped'
  OBVIOUS
<1>1. CASE UNCHANGED told
  BY <1>1 DEF ToldTyped
<1>2. ASSUME NEW d, told' = [told EXCEPT ![d] = {}] PROVE ToldTyped'
  BY <1>2 DEF ToldTyped
<1>3. ASSUME NEW d \in Devices, UserStep(d) \/ PageStep(d) PROVE ToldTyped'
  <2>1. CASE BlobUpdated(d)
    BY <2>1 DEF BlobUpdated, ToldTyped
  <2>2. CASE Reload(d) \/ SessionRevoked(d)
    BY <1>2, <2>2 DEF Reload, SessionRevoked, Leave
  <2> QED BY <1>1, <1>3, <2>1, <2>2
          DEF UserStep, PageStep, Edit, Login, ChangePassword, Reauth, PlainCall, SaveBackupNow,
              Does, TimerFires
<1>4. ASSUME NEW r \in reqs, ServerStep(r) PROVE ToldTyped'
  <2>1. CASE Announce(r)
    BY <2>1 DEF Announce, ToldTyped
  <2>2. CASE KickDevices(r)
    BY <2>2 DEF KickDevices, ToldTyped
  <2> QED BY <1>1, <1>4, <2>1, <2>2
          DEF ServerStep, Authenticate, WriteBlob, ReadBlob, ReadRev, GetBlob, Verify, EnterCode,
              Mint, SwapCredentials, RevokeAllOthers, ListRevoked, RevokeOwn, Register
<1>5. ASSUME NEW r \in reqs, AnswerStep(r) PROVE ToldTyped'
  <2>1. CASE Refused(r) \/ LogoutAnswered(r)
    BY <1>1, <1>2, <2>1 DEF Refused, LogoutAnswered, Leave
  <2> QED BY <1>1, <1>5, <2>1
          DEF AnswerStep, SaveAnswered, PullAnswered, LoginAnswered, LoginBlobAnswered,
              LoginSaveAnswered, CredentialAnswered, OtherAnswered
<1>6. ASSUME NEW r \in reqs, Lose(r) PROVE ToldTyped'
  BY <1>1, <1>6 DEF Lose
<1> QED BY <1>1, <1>3, <1>4, <1>5, <1>6 DEF Next, vars

LEMMA NextFollowed == IInv /\ KInv /\ ToldTyped /\ [Next]_vars => KInv'
<1> SUFFICES ASSUME IInv, KInv, ToldTyped, [Next]_vars PROVE KInv'
  OBVIOUS
<1>1. ASSUME NEW d \in Devices, UserStep(d) PROVE KInv'
  BY <1>1, UserFollowed, EditFollowed, ReloadFollowed DEF UserStep
<1>2. ASSUME NEW d \in Devices, PageStep(d) PROVE KInv'
  <2>1. CASE SessionRevoked(d)
    <3>1. PICK R : R = reqs
      OBVIOUS
    <3>2. Leave(d, R) /\ InApp(d) /\ UNCHANGED server /\ R \in SUBSET reqs /\ reqs \ R = {}
      BY <2>1, <3>1 DEF SessionRevoked
    <3> QED BY <3>2, LeaveFollowed
  <2> QED BY <1>2, <2>1, UserFollowed, EditFollowed DEF PageStep
<1>3. ASSUME NEW r \in reqs, ServerStep(r) PROVE KInv'
  BY <1>3, QuietHandlers, KickFollowed, RevokingFollowed, MintFollowed, RegisterFollowed
     DEF ServerStep
<1>4. ASSUME NEW r \in reqs, AnswerStep(r) PROVE KInv'
  BY <1>4, SaveAnsweredFollowed, AnswersFollowed, LoginSaveFollowed, LeavesFollowed,
     CredentialFollowed DEF AnswerStep
<1>5. CASE UNCHANGED vars
  <2>1. UNCHANGED <<page, sessions, lastSid, told, reqs>>
    BY <1>5 DEF vars, server
  <2>2. Owned'
    BY <2>1, OwnedKept DEF KInv, Owned
  <2>3. \A e \in Devices : Followed(e)'
    BY <2>1, OthersFollowed
  <2> QED BY <2>2, <2>3 DEF KInv
<1> QED BY <1>1, <1>2, <1>3, <1>4, <1>5, LoseFollowed DEF Next

\* A device whose session was revoked or replaced is told, or is about to be,
\* in whatever order sign-outs everywhere, password changes, renewals, reloads
\* and their answers run, with the exceptions that KickedAreTold names.
THEOREM KickedCorrect == Spec => []KickedAreTold
<1>1. Init => IInv /\ KInv /\ ToldTyped
  BY InitInv, InitFollowed
<1>2. IInv /\ KInv /\ ToldTyped /\ [Next]_vars => (IInv /\ KInv /\ ToldTyped)'
  BY NextInv, NextFollowed, NextTold
<1>3. KInv => KickedAreTold
  <2>1. SUFFICES ASSUME KInv, NEW d \in Devices, InApp(d), page[d].ws, ~page[d].late,
                        ~page[d].dropped, ~Nameless(page[d].token), ~Live(page[d].token)
                 PROVE  BeingTold(d)
    BY DEF KickedAreTold
  <2>2. Warned(d) /\ SidFits(page[d].token, d)
    BY <2>1 DEF KInv, Owned, Followed, Calm, InApp
  <2>3. Telling(d, page[d].token) \/ Renewing(d)
    <3>1. CASE Unknown(page[d].token)
      BY <2>2, <3>1 DEF Warned
    <3>2. CASE ~Unknown(page[d].token)
      <4>1. PICK x \in sessions : x.sid = page[d].token
        BY <3>2 DEF Unknown
      <4>2. x.dev = d
        BY <2>1, <2>2, <4>1 DEF SidFits, Nameless
      <4> QED BY <2>1, <2>2, <4>1, <4>2 DEF Warned, Over
    <3> QED BY <3>1, <3>2
  <2> QED BY <2>3 DEF Telling, Renewing, BeingTold
<1> QED BY <1>1, <1>2, <1>3, PTL DEF Spec
=============================================================================
