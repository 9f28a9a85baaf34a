------------------------------ MODULE Account ------------------------------
(***************************************************************************)
(* One account on several devices: signing in and out (auth.js and the     *)
(* session handlers of handlers.rs), the password and its change, and the  *)
(* key blob, the password-wrapped bundle of all keys and settings that     *)
(* every device saves to the server and pulls from it (chat.js, crypto.js, *)
(* save_user_key_blob).                                                    *)
(*                                                                         *)
(* A browser page runs one callback at a time, so a client step is what a  *)
(* timer, a message or an answer runs until its next fetch.  A request is  *)
(* handled in steps of one database call each (Database.conn is a mutex    *)
(* that every method takes and releases); the steps of two requests        *)
(* interleave, and answers arrive in any order.  A request that was sent   *)
(* is handled even when its page is gone; its answer is then dropped.      *)
(*                                                                         *)
(* Values of keys and settings are represented by the number of the edit   *)
(* that wrote them (0: absent), passwords by the order they were chosen    *)
(* in, session tokens by the id of their session.                          *)
(***************************************************************************)
EXTENDS Naturals, FiniteSets

CONSTANTS
    Devices,
    SignedIn,       \* the devices that are signed in at the start
    Keys,           \* localStorage keys of the bundle
    MediaKeys,      \* of these, the media caches the login page spares
    Ops,            \* what the users of an instance do
    TwoFactor,      \* the account has 2FA enabled
    MaxTries,       \* the save is repeated after so many conflicts (code: 3)
    None,           \* null
    MaxEdits,       \* bound: writes to a key of the bundle
    MaxOps,         \* bound: what users do besides
    MaxReqs,        \* bound: requests under way at a time
    MaxSids,        \* bound: sessions ever made
    MaxFaults       \* bound: requests the network loses

ASSUME KeyAssumption == MediaKeys \subseteq Keys
ASSUME DeviceAssumption == SignedIn \subseteq Devices /\ IsFiniteSet(Devices)
ASSUME NoneAssumption == None \notin Devices /\ None \notin Nat
ASSUME FlagAssumption == TwoFactor \in BOOLEAN
ASSUME BoundAssumption ==
    /\ {MaxTries, MaxEdits, MaxOps, MaxReqs, MaxSids, MaxFaults} \subseteq Nat
    /\ Cardinality(SignedIn) \leq MaxSids

VARIABLES
    password,   \* users.password_hash: the number of the current password
    row,        \* the account's row of user_key_blobs
    sessions,   \* auth_sessions
    lastSid,    \* sessions made so far
    page,       \* [Devices -> the page of the app or the login page]
    told,       \* [Devices -> messages on the way on the page's WebSocket]
    reqs,       \* requests under way, each with its handler's locals
    edits, passwords, ops, faults   \* counters: edits, passwords chosen, ...

server == <<password, row, sessions, lastSid>>
counts == <<edits, passwords, ops, faults>>
vars == <<server, page, told, reqs, counts>>

Sids == 1..MaxSids
Passwords == 1..(MaxOps + 1)
Bundle == [Keys -> 0..MaxEdits]
Empty == [k \in Keys |-> 0]
Has(b) == {k \in Keys : b[k] # 0}

Live(s) == \E x \in sessions : x.sid = s /\ ~x.revoked

\* buildKeyBundle and restoreKeyBundle: a restore writes every key of the
\* bundle over the local one and removes none.
\* Mutant: the bundle replaces what is there.
RestoredExactly(l, b) == b
Restored(l, b) == [k \in Keys |-> IF b[k] # 0 THEN b[k] ELSE l[k]]

\* What is left of localStorage on the login page (wipeAllClientData).
Wiped(l) == [k \in Keys |-> IF k \in MediaKeys THEN l[k] ELSE 0]

\* at: which page is shown.  token, pass: localStorage token (0: none) and
\* stored password (0: none).  rev, timer, inflight, queued: _keyBlobRev,
\* _keyBlobTimer, _keyBlobInFlight, _keyBlobQueued.  ws: the page's socket
\* is registered with the server.
\* unsent, dropped, late: history.  A key was written since the page last
\* built a bundle; the answer to a save or a renewal of the session was not
\* heard, or came after another renewal; the page was opened during a
\* renewal, or its socket was registered when a session of it was over.
NewPage(t, p, l) ==
    [at |-> "app", token |-> t, pass |-> p, local |-> l, rev |-> None,
     timer |-> FALSE, inflight |-> FALSE, queued |-> FALSE, ws |-> FALSE,
     unsent |-> FALSE, dropped |-> FALSE, late |-> FALSE]
LoginPage(l) == [NewPage(0, 0, Wiped(l)) EXCEPT !.at = "login"]

\* A request of the page of d.  mine: that page is still shown.  sid: the
\* session of its token.  wrap: the password in the closure that sent it.
\* items, pw, rev: the bundle, the password around it and the revision that
\* are sent or answered.  n: attempts of the save.  kicks: devices to tell.
Request(i, d, k, s, b, w, r, n) ==
    [id |-> i, dev |-> d, mine |-> TRUE, kind |-> k, sid |-> s, pc |-> "auth",
     items |-> b, wrap |-> w, pw |-> w, rev |-> r, n |-> n, kicks |-> {}]

Ids == 1..MaxReqs
FreeId(R) == CHOOSE i \in Ids : \A r \in R : r.id # i
Room(R) == Cardinality(R) < MaxReqs

\* r goes on at p; r is over.
Goes(r, p) == reqs' = (reqs \ {r}) \cup {[r EXCEPT !.pc = p]}
Becomes(r, s) == reqs' = (reqs \ {r}) \cup {s}

Init ==
    /\ password = 1
    /\ lastSid = Cardinality(SignedIn)
    /\ LET sid == CHOOSE f \in [SignedIn -> 1..Cardinality(SignedIn)] :
                        \A d, e \in SignedIn : f[d] = f[e] => d = e
       IN
        /\ sessions = {[sid |-> sid[d], dev |-> d, revoked |-> FALSE, pw |-> 1] :
                        d \in SignedIn}
        /\ page = [d \in Devices |->
                    IF d \in SignedIn
                    THEN [NewPage(sid[d], 1, Empty) EXCEPT !.ws = TRUE]
                    ELSE LoginPage(Empty)]
    /\ row = [items |-> Empty, pw |-> 1, rev |-> 1]
    /\ told = [d \in Devices |-> {}]
    /\ reqs = {}
    /\ edits = 0 /\ passwords = 1 /\ ops = 0 /\ faults = 0

-----------------------------------------------------------------------------
(* The page: writing keys and saving the blob.                             *)

\* saveKeyBlobToServer(n) on page p of d, R being the requests besides: does
\* nothing without token or password, waits behind a save under way, or
\* sends the bundle, which names the revision it is based on.
CanSave(p) == p.token # 0 /\ p.pass # 0
\* Mutant: a save is not repeated after the one under way.
PageAfterSaveForgets(p) ==
    IF ~CanSave(p) \/ p.inflight THEN p
    ELSE [p EXCEPT !.inflight = TRUE, !.unsent = FALSE]
PageAfterSave(p) ==
    IF ~CanSave(p) THEN p
    ELSE IF p.inflight THEN [p EXCEPT !.queued = TRUE]
    ELSE [p EXCEPT !.inflight = TRUE, !.unsent = FALSE]
ReqsAfterSave(d, p, n, R) ==
    IF ~CanSave(p) \/ p.inflight THEN R
    ELSE R \cup {Request(FreeId(R), d, "save", p.token, p.local, p.pass, p.rev, n)}
SaveKeyBlob(d, p, n, R) ==
    /\ page' = [page EXCEPT ![d] = PageAfterSave(p)]
    /\ reqs' = ReqsAfterSave(d, p, n, R)

InApp(d) == page[d].at = "app"

\* The user's device writes a key of the bundle: installLocalStateMirror and
\* _mirrorLocalKeyChange arm scheduleKeyBlobSave.
Edit(d, k) ==
    /\ InApp(d)
    /\ edits < MaxEdits
    /\ edits' = edits + 1
    /\ page' = [page EXCEPT ![d].local[k] = edits + 1,
                            ![d].timer = @ \/ page[d].token # 0,
                            ![d].unsent = @ \/ page[d].token # 0]
    /\ UNCHANGED <<server, told, reqs, passwords, ops, faults>>

\* scheduleKeyBlobSave, 1.5 s after the last write and no gesture under way.
TimerFires(d) ==
    /\ InApp(d)
    /\ page[d].timer
    /\ Room(reqs)
    /\ SaveKeyBlob(d, [page[d] EXCEPT !.timer = FALSE], 0, reqs)
    /\ UNCHANGED <<server, told, counts>>

\* blob_updated: fetch the blob and restore it.
BlobUpdated(d) ==
    /\ InApp(d)
    /\ "blob_updated" \in told[d]
    /\ told' = [told EXCEPT ![d] = @ \ {"blob_updated"}]
    /\ IF page[d].pass = 0 THEN UNCHANGED reqs
       ELSE /\ Room(reqs)
            /\ reqs' = reqs \cup {Request(FreeId(reqs), d, "pull", page[d].token,
                                          Empty, page[d].pass, None, 0)}
    /\ UNCHANGED <<server, page, counts>>

-----------------------------------------------------------------------------
(* The page: what the user does.                                           *)

\* The user of d does k, which sends request r at once.
Does(d, k, r) ==
    /\ k \in Ops
    /\ ops < MaxOps
    /\ Room(reqs)
    /\ ops' = ops + 1
    /\ reqs' = reqs \cup {r}
    /\ UNCHANGED <<server, page, told, edits, faults>>

Sends(d, k) == Request(FreeId(reqs), d, k, page[d].token, Empty, page[d].pass, None, 0)

\* Sessions that requests under way may still make.
Minting == {r \in reqs : r.kind \in {"login", "reauth"}}
SidLeft == lastSid + Cardinality(Minting) < MaxSids

\* The login form, with the current password.
Login(d) ==
    /\ ~InApp(d)
    /\ page[d].token = 0
    /\ \A r \in reqs : ~(r.dev = d /\ r.mine)
    /\ SidLeft
    /\ Does(d, "login", [Sends(d, "login") EXCEPT !.pc = "verify", !.wrap = password])
    /\ UNCHANGED passwords

\* performPasswordChange: the old password, and the bundle under the new one.
ChangePassword(d) ==
    /\ InApp(d) /\ page[d].pass # 0
    /\ Does(d, "change", [Sends(d, "change") EXCEPT !.items = page[d].local,
                                                    !.pw = passwords + 1])
    /\ passwords' = passwords + 1

\* verifyStoredPassword: a re-authentication, which also renews the session.
Reauth(d) ==
    /\ InApp(d) /\ page[d].pass # 0
    /\ SidLeft
    /\ Does(d, "reauth", Sends(d, "reauth"))
    /\ UNCHANGED passwords

\* confirmKickAllDevices; the sign-out button (serverLogout); any other
\* authenticated call of the page ("load").
PlainCall(d, k) ==
    /\ InApp(d) /\ page[d].token # 0
    /\ k \in {"kickall", "logout", "load"}
    /\ Does(d, k, Sends(d, k))
    /\ UNCHANGED passwords

\* "Save Backup Now": the bundle, based on no revision.
SaveBackupNow(d) ==
    /\ InApp(d) /\ CanSave(page[d])
    /\ Does(d, "backup", [Sends(d, "backup") EXCEPT !.items = page[d].local])
    /\ UNCHANGED passwords

\* Requests R without their page: an answer that is there is not heard.
Answers == {"ok", "conflict", "denied", "lost"}
Orphaned(d, R) ==
    {[r EXCEPT !.mine = @ /\ r.dev # d] : r \in {q \in R : q.dev # d \/ q.pc \notin Answers}}

\* The session of d may be replaced or revoked by a request of its own.
Renewing(d) == \E r \in reqs : r.dev = d /\ r.kind \in {"logout", "reauth"}

\* A page of the app is loaded: it authenticates its WebSocket, and hears no
\* answer to a renewal that another page of the device has begun.
Opens(d, p, R) ==
    /\ page' = [page EXCEPT ![d] = [p EXCEPT !.late = Renewing(d)]]
    /\ reqs' = R \cup {Request(FreeId(R), d, "hello", p.token, Empty, p.pass, None, 0)}

Reload(d) ==
    /\ InApp(d) /\ page[d].token # 0
    /\ "reload" \in Ops
    /\ ops < MaxOps
    /\ Room(reqs)
    /\ ops' = ops + 1
    /\ Opens(d, NewPage(page[d].token, page[d].pass, page[d].local), Orphaned(d, reqs))
    /\ told' = [told EXCEPT ![d] = {}]
    /\ UNCHANGED <<server, edits, passwords, faults>>

UserStep(d) ==
    \/ \E k \in Keys : Edit(d, k)
    \/ Login(d)
    \/ ChangePassword(d)
    \/ Reauth(d)
    \/ \E k \in Ops : PlainCall(d, k)
    \/ SaveBackupNow(d)
    \/ Reload(d)

-----------------------------------------------------------------------------
(* The server: one step is one database call, or the messages of a handler. *)

\* Handler r answers with a; nobody hears it when the page is gone.
Answered(r, a) ==
    reqs' = (reqs \ {r}) \cup (IF r.mine THEN {[r EXCEPT !.pc = a]} ELSE {})
AnsweredWith(r, a, s) ==
    reqs' = (reqs \ {r}) \cup (IF r.mine THEN {[s EXCEPT !.pc = a]} ELSE {})

\* What follows extract_user or extract_claims in the handler of kind k.
AfterAuth(k) ==
    CASE k \in {"save", "backup", "loginPut"} -> "write"
      [] k \in {"pull", "loginGet"} -> "read"
      [] k \in {"change", "kickall", "reauth"} -> "verify"
      [] k = "hello" -> "register"
      [] k = "logout" -> "revoke"
      [] OTHER -> "ok"

\* extract_user, extract_claims, and the check of the WebSocket's first
\* message.  logout does not ask whether the session is valid.
Authenticate(r) ==
    /\ r.pc = "auth"
    /\ IF ~Live(r.sid) /\ r.kind # "logout" THEN Answered(r, "denied")
       ELSE IF AfterAuth(r.kind) = "ok" THEN Answered(r, "ok")
       ELSE Goes(r, AfterAuth(r.kind))
    /\ UNCHANGED <<server, page, told, counts>>

\* save_user_key_blob_checked: compare the revision and write, in one call.
WriteBlob(r) ==
    /\ r.pc = "write"
    /\ IF r.rev \in {None, row.rev}
       THEN /\ row' = [items |-> r.items, pw |-> r.wrap, rev |-> row.rev + 1]
            /\ Becomes(r, [r EXCEPT !.rev = row.rev + 1, !.pc = "announce"])
       ELSE /\ Goes(r, "readBlob")
            /\ UNCHANGED row
    /\ UNCHANGED <<password, sessions, lastSid, page, told, counts>>

\* The blob's new revision is announced to the other devices' sockets.  Only
\* saveKeyBlobToServer names the device to leave out.
Announce(r) ==
    /\ r.pc = "announce"
    /\ told' = [d \in Devices |->
                  IF page[d].ws /\ ~(r.kind = "save" /\ d = r.dev)
                  THEN told[d] \cup {"blob_updated"} ELSE told[d]]
    /\ Answered(r, "ok")
    /\ UNCHANGED <<server, page, counts>>

\* The answer to a conflicting save: the blob, then in another call its
\* revision.
ReadBlob(r) ==
    /\ r.pc = "readBlob"
    /\ Becomes(r, [r EXCEPT !.items = row.items, !.pw = row.pw, !.pc = "readRev"])
    /\ UNCHANGED <<server, page, told, counts>>

ReadRev(r) ==
    /\ r.pc = "readRev"
    /\ AnsweredWith(r, "conflict", [r EXCEPT !.rev = row.rev])
    /\ UNCHANGED <<server, page, told, counts>>

\* get_user_key_blob
GetBlob(r) ==
    /\ r.pc = "read"
    /\ AnsweredWith(r, "ok", [r EXCEPT !.items = row.items, !.pw = row.pw,
                                       !.rev = row.rev])
    /\ UNCHANGED <<server, page, told, counts>>

\* The password hash is read; Argon2 takes its time.  With 2FA the login's
\* answer is a pending token, good for five minutes.
Verify(r) ==
    /\ r.pc = "verify"
    /\ IF r.wrap # password THEN Answered(r, "denied")
       ELSE Goes(r, CASE r.kind = "change" -> "swap"
                      [] r.kind = "kickall" -> "revokeOthers"
                      [] r.kind = "login" /\ TwoFactor -> "pending"
                      [] OTHER -> "mint")
    /\ UNCHANGED <<server, page, told, counts>>

\* login_2fa: the code is right.
EnterCode(r) ==
    /\ r.pc = "pending"
    /\ IF r.mine THEN Goes(r, "mint") ELSE reqs' = reqs \ {r}
    /\ UNCHANGED <<server, page, told, counts>>

\* upsert_auth_session: the device's older sessions are deleted.  login_2fa
\* knows no device.  pw: history, the password that was verified.
Mint(r) ==
    LET dev == IF r.kind = "login" /\ TwoFactor THEN None ELSE r.dev
        older == {x \in sessions : dev # None /\ x.dev = dev}
    IN
    /\ r.pc = "mint"
    /\ lastSid' = lastSid + 1
    /\ sessions' = (sessions \ older) \cup
                    {[sid |-> lastSid + 1, dev |-> dev, revoked |-> FALSE, pw |-> r.wrap]}
    /\ AnsweredWith(r, "ok", [r EXCEPT !.sid = lastSid + 1])
    /\ UNCHANGED <<password, row, page, told, counts>>

Revoked(S) == {[x EXCEPT !.revoked = TRUE] : x \in S}
RevokeOthers(keep) ==
    LET others == {x \in sessions : x.sid # keep}
    IN  (sessions \ others) \cup Revoked(others)

\* change_password_credentials: hash, blob and sessions in one transaction.
\* The revision of the blob stays.  The session that is kept is now one of
\* the new password.
SwapCredentials(r) ==
    /\ r.pc = "swap"
    /\ password' = r.pw
    /\ row' = [row EXCEPT !.items = r.items, !.pw = r.pw]
    /\ sessions' = {[x EXCEPT !.pw = IF x.sid = r.sid THEN r.pw ELSE @] :
                        x \in RevokeOthers(r.sid)}
    /\ Goes(r, "list")
    /\ UNCHANGED <<lastSid, page, told, counts>>

\* revoke_auth_sessions_except
RevokeAllOthers(r) ==
    /\ r.pc = "revokeOthers"
    /\ sessions' = RevokeOthers(r.sid)
    /\ Goes(r, "list")
    /\ UNCHANGED <<password, row, lastSid, page, told, counts>>

\* live_kick_other_devices: list the sessions, then tell their devices.
\* (Mutant: the live ones are listed.)
DevicesOf(S) == {x.dev : x \in S} \ {None}
ListLive(r) ==
    /\ r.pc = "list"
    /\ Becomes(r, [r EXCEPT !.pc = "kick",
                            !.kicks = DevicesOf({y \in sessions : y.sid # r.sid /\ ~y.revoked})])
    /\ UNCHANGED <<server, page, told, counts>>
ListRevoked(r) ==
    /\ r.pc = "list"
    /\ Becomes(r, [r EXCEPT !.pc = "kick",
                            !.kicks = DevicesOf({y \in sessions : y.sid # r.sid /\ y.revoked})])
    /\ UNCHANGED <<server, page, told, counts>>

KickDevices(r) ==
    /\ r.pc = "kick"
    /\ told' = [d \in Devices |-> IF d \in r.kicks /\ page[d].ws
                                  THEN told[d] \cup {"session_revoked"} ELSE told[d]]
    /\ Answered(r, "ok")
    /\ UNCHANGED <<server, page, counts>>

\* logout: revoke_auth_session
RevokeOwn(r) ==
    /\ r.pc = "revoke"
    /\ sessions' = {[x EXCEPT !.revoked = @ \/ x.sid = r.sid] : x \in sessions}
    /\ Answered(r, "ok")
    /\ UNCHANGED <<password, row, lastSid, page, told, counts>>

\* The sessions the page of d goes on with: its own, and those it renewed
\* and has not heard of yet.
SidsOf(d) ==
    {page[d].token} \cup {r.sid : r \in {q \in reqs : q.dev = d /\ q.kind = "reauth" /\ q.pc = "ok"}}

\* add_connection, some steps after the session was checked.
Register(r) ==
    /\ r.pc = "register"
    /\ page' = [page EXCEPT ![r.dev].ws = r.mine \/ @,
                            ![r.dev].late = @ \/ (r.mine /\ \E s \in SidsOf(r.dev) : ~Live(s))]
    /\ reqs' = reqs \ {r}
    /\ UNCHANGED <<server, told, counts>>

ServerStep(r) ==
    \/ Authenticate(r) \/ WriteBlob(r) \/ Announce(r) \/ ReadBlob(r) \/ ReadRev(r)
    \/ GetBlob(r) \/ Verify(r) \/ EnterCode(r) \/ Mint(r) \/ SwapCredentials(r)
    \/ RevokeAllOthers(r) \/ ListRevoked(r) \/ KickDevices(r) \/ RevokeOwn(r)
    \/ Register(r)

-----------------------------------------------------------------------------
(* The page: answers and messages.                                         *)

\* The page of d goes to the login page, which wipes the browser's data.
Leave(d, R) ==
    /\ page' = [page EXCEPT ![d] = LoginPage(@.local)]
    /\ told' = [told EXCEPT ![d] = {}]
    /\ reqs' = Orphaned(d, R)

\* The page is free for the next save (mutant: it is not).
FreedNever(p) == p
Freed(p) == [p EXCEPT !.inflight = FALSE]

\* The save that waited is started (mutant: only if the first one succeeded).
QueueGoesIfOk(r, p) == r.pc = "ok" /\ p.queued
QueueGoes(r, p) == p.queued

\* The then and catch of saveKeyBlobToServer's fetch.
SaveAnswered(r) ==
    LET d == r.dev
        free == Freed(page[d])
        merged == IF r.pw = r.wrap
                  THEN [free EXCEPT !.local = Restored(@, r.items), !.rev = r.rev]
                  ELSE free
        known == IF r.pc = "denied" THEN free ELSE [free EXCEPT !.rev = r.rev]
        rest == reqs \ {r}
    IN
    /\ r.kind = "save" /\ r.pc \in Answers
    /\ IF r.pc = "lost"
       THEN page' = [page EXCEPT ![d] = [free EXCEPT !.dropped = TRUE]] /\ reqs' = rest
       ELSE IF r.pc = "conflict" /\ r.n < MaxTries
       THEN SaveKeyBlob(d, merged, r.n + 1, rest)
       ELSE IF QueueGoes(r, known)
       THEN SaveKeyBlob(d, [known EXCEPT !.queued = FALSE], 0, rest)
       ELSE page' = [page EXCEPT ![d] = known] /\ reqs' = rest
    /\ UNCHANGED <<server, told, counts>>

\* The pull of a blob that was announced; its revision is not remembered.
PullAnswered(r) ==
    /\ r.kind = "pull" /\ r.pc \in Answers
    /\ page' = IF r.pc = "ok" /\ r.pw = r.wrap
               THEN [page EXCEPT ![r.dev].local = Restored(@, r.items)] ELSE page
    /\ reqs' = reqs \ {r}
    /\ UNCHANGED <<server, told, counts>>

\* completeLogin begins with the account's key blob.
LoginAnswered(r) ==
    /\ r.kind = "login" /\ r.pc \in Answers
    /\ IF r.pc = "ok"
       THEN Becomes(r, [Request(r.id, r.dev, "loginGet", r.sid, Empty, r.wrap, None, 0)
                            EXCEPT !.mine = r.mine])
       ELSE reqs' = reqs \ {r}
    /\ UNCHANGED <<server, page, told, counts>>

\* completeLogin restores the bundle if it could be had, and in any case
\* saves what is in localStorage then, based on no revision.
LoginBlobAnswered(r) ==
    LET d == r.dev
        l == IF r.pc = "ok" /\ r.pw = r.wrap
             THEN Restored(page[d].local, r.items) ELSE page[d].local
    IN
    /\ r.kind = "loginGet" /\ r.pc \in Answers
    /\ page' = [page EXCEPT ![d].local = l, ![d].token = r.sid, ![d].pass = r.wrap]
    /\ Becomes(r, Request(r.id, d, "loginPut", r.sid, l, r.wrap, None, 0))
    /\ UNCHANGED <<server, told, counts>>

\* ... and goes to the app, whatever came of it.
LoginSaveAnswered(r) ==
    LET p == page[r.dev] IN
    /\ r.kind = "loginPut" /\ r.pc \in Answers
    /\ Opens(r.dev, NewPage(p.token, p.pass, p.local), reqs \ {r})
    /\ UNCHANGED <<server, told, counts>>

\* authFetch: a 401 signs the page out if it has a token.
Refused(r) ==
    /\ r.kind \in {"change", "reauth", "load", "hello"}
    /\ r.pc = "denied"
    /\ IF page[r.dev].token # 0 THEN Leave(r.dev, reqs \ {r})
       ELSE reqs' = reqs \ {r} /\ UNCHANGED <<page, told>>
    /\ UNCHANGED <<server, counts>>

\* The answer to a password change or a re-authentication.
CredentialAnswered(r) ==
    LET d == r.dev IN
    /\ r.pc \in {"ok", "lost"}
    /\ \/ /\ r.kind = "change"
          /\ page' = IF r.pc = "ok" THEN [page EXCEPT ![d].pass = r.pw] ELSE page
       \/ /\ r.kind = "reauth"
          /\ page' = IF r.pc = "ok"
                     THEN [page EXCEPT ![d].token = r.sid,
                                       ![d].dropped = @ \/ ~\E x \in sessions : x.sid = r.sid]
                     ELSE [page EXCEPT ![d].dropped = TRUE]
    /\ reqs' = reqs \ {r}
    /\ UNCHANGED <<server, told, counts>>

\* Answers that leave the page as it is.
OtherAnswered(r) ==
    /\ \/ r.kind \in {"backup", "kickall"} /\ r.pc \in Answers
       \/ r.kind \in {"load", "hello"} /\ r.pc \in {"ok", "lost"}
    /\ reqs' = reqs \ {r}
    /\ UNCHANGED <<server, page, told, counts>>

\* Sign out: serverLogout, whatever its answer, then clearAllClientData.
LogoutAnswered(r) ==
    /\ r.kind = "logout" /\ r.pc \in Answers
    /\ Leave(r.dev, reqs \ {r})
    /\ UNCHANGED <<server, counts>>

AnswerStep(r) ==
    \/ SaveAnswered(r) \/ PullAnswered(r) \/ LoginAnswered(r)
    \/ LoginBlobAnswered(r) \/ LoginSaveAnswered(r) \/ Refused(r)
    \/ CredentialAnswered(r) \/ OtherAnswered(r) \/ LogoutAnswered(r)

\* session_revoked, and the page goes to the login page.
SessionRevoked(d) ==
    /\ InApp(d)
    /\ "session_revoked" \in told[d]
    /\ Leave(d, reqs)
    /\ UNCHANGED <<server, counts>>

\* The network loses a request, or its answer.  (A socket reconnects.)
Lose(r) ==
    /\ faults < MaxFaults
    /\ r.mine /\ r.kind # "hello"
    /\ \/ r.pc \in {"auth", "ok", "conflict", "denied"}
       \/ r.kind = "login" /\ r.pc = "verify"
    /\ faults' = faults + 1
    /\ Goes(r, "lost")
    /\ UNCHANGED <<server, page, told, edits, passwords, ops>>

PageStep(d) == TimerFires(d) \/ BlobUpdated(d) \/ SessionRevoked(d)

Next ==
    \/ \E d \in Devices : UserStep(d) \/ PageStep(d)
    \/ \E r \in reqs : ServerStep(r) \/ AnswerStep(r) \/ Lose(r)

Spec == Init /\ [][Next]_vars

\* Timers fire, messages arrive, handlers run and are answered.
FairSpec ==
    /\ Spec
    /\ \A d \in Devices : WF_vars(PageStep(d))
    /\ \A i \in Ids : WF_vars(\E r \in reqs : r.id = i /\ (ServerStep(r) \/ AnswerStep(r)))

-----------------------------------------------------------------------------
(* Properties.                                                             *)

PageType ==
    [at : {"app", "login"}, token : 0..MaxSids, pass : {0} \cup Passwords,
     local : Bundle, rev : Nat \cup {None}, timer : BOOLEAN,
     inflight : BOOLEAN, queued : BOOLEAN, ws : BOOLEAN, unsent : BOOLEAN,
     dropped : BOOLEAN, late : BOOLEAN]

RequestType ==
    [id : Ids, dev : Devices, mine : BOOLEAN,
     kind : {"save", "pull", "login", "loginGet", "loginPut", "change",
             "kickall", "reauth", "logout", "load", "backup", "hello"},
     sid : 0..MaxSids,
     pc : Answers \cup {"auth", "write", "announce", "readBlob", "readRev",
             "read", "verify", "pending", "mint", "swap", "revokeOthers",
             "list", "kick", "revoke", "register"},
     items : Bundle, wrap : {0} \cup Passwords, pw : {0} \cup Passwords,
     rev : Nat \cup {None}, n : 0..MaxTries, kicks : SUBSET Devices]

TypeOK ==
    /\ password \in Passwords
    /\ row \in [items : Bundle, pw : Passwords, rev : Nat]
    /\ sessions \subseteq [sid : Sids, dev : Devices \cup {None},
                           revoked : BOOLEAN, pw : Passwords]
    /\ lastSid \in 0..MaxSids
    /\ page \in [Devices -> PageType]
    /\ told \in [Devices -> SUBSET {"blob_updated", "session_revoked"}]
    /\ reqs \subseteq RequestType
    /\ edits \in 0..MaxEdits /\ passwords \in Passwords
    /\ ops \in 0..MaxOps /\ faults \in 0..MaxFaults

\* The save flag is up exactly while one save of the page is under way, after
\* every path of saveKeyBlobToServer, retries included: were it left up, the
\* device would never save again.
SaverNeverStuck ==
    \A d \in Devices :
        Cardinality({r \in reqs : r.dev = d /\ r.mine /\ r.kind = "save"})
            = IF page[d].inflight THEN 1 ELSE 0

\* A save that waits behind another one has that one to start it, unless a
\* save failed on the network, which the code leaves for the next change.
QueuedHasCarrier ==
    \A d \in Devices : page[d].queued => page[d].inflight \/ page[d].dropped

\* A key that was written while signed in and is in no bundle sent so far
\* has a save coming: the debounce timer or the save in the queue.
EditsAwaitSave ==
    \A d \in Devices :
        page[d].unsent => page[d].timer \/ page[d].queued \/ page[d].token = 0

\* A device whose session was revoked or replaced is told, or is about to
\* be, or is itself signing out or renewing its session.  Excepted are pages
\* opened while another page of the device renewed the session, sockets
\* registered after it was revoked, devices that lost the answer to their
\* own re-authentication, and sessions made by login_2fa, which name no
\* device.
BeingTold(d) ==
    \/ "session_revoked" \in told[d]
    \/ \E r \in reqs :
        \/ r.pc = "list"
        \/ r.pc = "kick" /\ d \in r.kicks
        \/ r.dev = d /\ r.kind \in {"logout", "reauth"}
Nameless(s) == \E x \in sessions : x.sid = s /\ x.dev = None
KickedAreTold ==
    \A d \in Devices :
        LET p == page[d] IN
        InApp(d) /\ p.ws /\ ~p.late /\ ~p.dropped /\ ~Nameless(p.token)
            /\ ~Live(p.token) => BeingTold(d)

\* A pull, a conflict's merge or a login only adds keys to an open page.
MergesOnlyAdd ==
    [][\A d \in Devices :
        InApp(d) /\ InApp(d)' => Has(page[d].local) \subseteq Has(page'[d].local)]_vars

\* Every write to a key of the bundle is eventually put into a bundle that
\* is sent, or the device signs out.
EditsAreSent ==
    \A d \in Devices : page[d].unsent ~> ~page[d].unsent \/ page[d].token = 0

\* A device that was signed out from elsewhere ends up on the login page,
\* with the exceptions of KickedAreTold.
SignedOutLeaves ==
    \A d \in Devices :
        InApp(d) /\ page[d].ws /\ ~Live(page[d].token) /\ ~Nameless(page[d].token)
            ~> ~InApp(d) \/ Live(page[d].token) \/ page[d].late \/ page[d].dropped

\* chat.js performPasswordChange: "the server can never end up with a blob
\* encrypted by a different password".
BlobOpensWithPassword == row.pw = password

\* A login leaves every key of the backup in the backup.
LoginKeepsBackup ==
    [][(\E r \in reqs : r.kind = "loginPut" /\ WriteBlob(r))
        => Has(row.items) \subseteq Has(row'.items)]_vars

\* save_user_key_blob: "nobody's keys are dropped just because the two writes
\* overlapped", for saves that state the revision they are based on.
OverlapDropsNothing ==
    [][(\E r \in reqs : r.kind = "save" /\ r.rev # None /\ WriteBlob(r))
        => Has(row.items) \subseteq Has(row'.items)]_vars

\* change_password: "all other devices must sign in again with the new
\* password".
OldPasswordIsOut == \A x \in sessions : ~x.revoked => x.pw = password

\* A page goes to the login page, which wipes its keys, only when its
\* session is over or the user signs out.
LeavesOnlyWhenOver ==
    [][\A d \in Devices :
        InApp(d) /\ ~InApp(d)' => \/ ~Live(page[d].token)
                                  \/ \E r \in reqs : r.dev = d /\ r.kind = "logout"]_vars

=============================================================================
