--------------------------- MODULE MessagesProofs ---------------------------
(***************************************************************************)
(* Proofs about Messages, for any number of users, tasks, conversations    *)
(* and messages.  The inductive invariant IInv adds to TypeOK and          *)
(* DependentsBelong what the locals of the tasks hold (Fit), that message  *)
(* ids are not used twice, and that the sweeper's list holds only messages *)
(* whose time is over: it is read in one lock hold and used in others.     *)
(***************************************************************************)
EXTENDS Messages, TLAPS

\* The locals of a handler fit the step it is at.
Fit(j) ==
    \/ j = Idle
    \/ j.pc = "save" /\ j.row \in Row
    \/ /\ j.pc # "save"
       /\ j.msg \in MsgIds
       /\ j.pc \in {"index", "edit"} => j.arg \in Texts
       /\ j.pc = "retoken" => j.arg \in Texts \cup {None}
       /\ j.pc \in {"react_add", "react_remove"} => j.arg \in Emojis
       /\ j.pc \in {"vote_switch", "vote_add", "vote_remove"} => j.arg \in Options
       /\ j.pc = "ack" => j.arg \in Statuses
       /\ j.pc \in {"del_perm", "del_any"} => j.conv \in Channels

JobsFit == \A c \in Tasks : Fit(job[c])

UsedIds == \A m \in MsgIds : Stored(m) => m < nextMsg

\* What the sweeper is about to shred is due or gone already, and never a
\* message that will be stored later under the same id.
SweepDue ==
    \A m \in sweep.todo : m < nextMsg /\ (Stored(m) => rows[m].due = "now")

IInv == TypeOK /\ JobsFit /\ UsedIds /\ SweepDue /\ DependentsBelong

-----------------------------------------------------------------------------

\* The constructor of a handler's local state.
LEMMA DoingType ==
    ASSUME NEW p \in PCs, NEW k \in Convs, NEW m \in MsgIds \cup {None},
           NEW a \in Texts \cup Tokens \cup Statuses \cup {None}
    PROVE  /\ Doing(p, k, m, a) \in Busy
           /\ Doing(p, k, m, a).pc = p /\ Doing(p, k, m, a).msg = m
           /\ Doing(p, k, m, a).arg = a /\ Doing(p, k, m, a).conv = k
BY DEF Doing, Idle, Busy

\* Changing the job of one task to a fitting one.
LEMMA JobChange ==
    ASSUME TypeOK, JobsFit, NEW c \in Tasks, NEW j \in Busy \cup {Idle}, Fit(j),
           job' = [job EXCEPT ![c] = j]
    PROVE  /\ job' \in [Tasks -> Busy \cup {Idle}]
           /\ JobsFit'
BY ZenonT(60) DEF TypeOK, JobsFit, Fit, Idle

\* A task at a step is not idle and its locals are typed.
LEMMA AtStep ==
    ASSUME TypeOK, JobsFit, NEW c \in Tasks, NEW p \in PCs, At(c, p)
    PROVE  job[c] \in Busy /\ job[c].pc = p /\ Fit(job[c]) /\ job[c] # Idle
BY DEF TypeOK, JobsFit, At, Idle, PCs

\* Moving a task on to another step with the same locals.
LEMMA NextStep ==
    ASSUME NEW j \in Busy, NEW p \in PCs
    PROVE  /\ [j EXCEPT !.pc = p] \in Busy
           /\ [j EXCEPT !.pc = p].msg = j.msg
           /\ [j EXCEPT !.pc = p].arg = j.arg
          /\ [j EXCEPT !.pc = p].conv = j.conv
           /\ [j EXCEPT !.pc = p].pc = p
BY DEF Busy

\* Idle is a fitting job.
LEMMA IdleFits == Idle \in Busy \cup {Idle} /\ Fit(Idle)
BY DEF Fit

\* Beginning a handler keeps the invariant.
LEMMA StartsKeeps ==
    ASSUME IInv, NEW c \in Tasks, NEW k, NEW j \in Busy, Fit(j), Starts(c, k, j),
           files' \subseteq Files
    PROVE  IInv'
<1>1. job' \in [Tasks -> Busy \cup {Idle}] /\ JobsFit'
  BY JobChange DEF IInv, Starts
<1>2. ops' \in 0..MaxOps
  BY BoundAssumption DEF IInv, TypeOK, Starts
<1>3. UNCHANGED <<rows, nextMsg, tokens, reactions, votes, acks, pins,
                  granted, sweep, hung>>
  BY DEF Starts, tables
<1>4. TypeOK'
  BY <1>1, <1>2, <1>3 DEF IInv, TypeOK
<1>5. UsedIds' /\ SweepDue' /\ DependentsBelong'
  BY <1>3 DEF IInv, UsedIds, SweepDue, DependentsBelong, Stored
<1> QED BY <1>1, <1>4, <1>5 DEF IInv

\* Taking any message of a client keeps the invariant.
LEMMA StartKeeps ==
    ASSUME IInv, NEW c \in Tasks, Start(c)
    PROVE  IInv'
<1> USE DEF IInv
<1>0. \A m \in MsgIds : Stored(m) => rows[m].conv \in Convs
  BY DEF TypeOK, Stored, Row
<1>1. CASE SendStart(c)
  <2>1. PICK k \in Convs, t \in Texts, f \in Files \cup {None}, d \in Ttls,
             p \in MsgIds \cup {None} :
          /\ Starts(c, "send",
               [Doing("save", k, None, None) EXCEPT
                  !.row = [conv |-> k, sender |-> TaskUser[c], text |-> t,
                           file |-> f, due |-> d, parent |-> p]])
          /\ files' = files \cup ({f} \ {None})
    BY ZenonT(60), <1>1 DEF SendStart, ChannelMessages
  <2> DEFINE r == [conv |-> k, sender |-> TaskUser[c], text |-> t,
                   file |-> f, due |-> d, parent |-> p]
             j == [Doing("save", k, None, None) EXCEPT !.row = r]
  <2>3. r \in Row
    BY TaskAssumption, TextAssumption DEF Row
  <2>4. j \in Busy /\ j.pc = "save" /\ j.row = r
    BY <2>3 DEF Doing, Idle, Busy, PCs
  <2>5. Fit(j)
    BY <2>3, <2>4 DEF Fit
  <2>6. files' \subseteq Files
    BY <2>1 DEF TypeOK
  <2>7. Starts(c, "send", j)
    BY <2>1
  <2> QED BY <2>4, <2>5, <2>6, <2>7, StartsKeeps
<1>2. CASE EditStart(c)
  <2>1. PICK m \in MsgIds, t \in Texts :
          Stored(m) /\ Starts(c, "edit", Doing("edit", rows[m].conv, m, t))
    BY <1>2 DEF EditStart
  <2>2. Doing("edit", rows[m].conv, m, t) \in Busy /\ Fit(Doing("edit", rows[m].conv, m, t))
    BY <2>1, <1>0, DoingType DEF Fit, PCs
  <2> QED BY <1>2, <2>1, <2>2, StartsKeeps DEF EditStart, TypeOK
<1>3. CASE DeleteStart(c)
  <2>1. PICK m \in MsgIds :
          Stored(m) /\ Starts(c, "delete", Doing("del_own", rows[m].conv, m, None))
    BY <1>3 DEF DeleteStart
  <2>2. Doing("del_own", rows[m].conv, m, None) \in Busy
        /\ Fit(Doing("del_own", rows[m].conv, m, None))
    BY <2>1, <1>0, DoingType DEF Fit, PCs
  <2> QED BY <1>3, <2>1, <2>2, StartsKeeps DEF DeleteStart, TypeOK
<1>4. CASE ReactStart(c)
  <2>1. PICK m \in MsgIds, e \in Emojis :
          Stored(m) /\ Starts(c, "react", Doing("react_add", rows[m].conv, m, e))
    BY <1>4 DEF ReactStart
  <2>2. Doing("react_add", rows[m].conv, m, e) \in Busy
        /\ Fit(Doing("react_add", rows[m].conv, m, e))
    BY <2>1, <1>0, DoingType DEF Fit, PCs, Tokens
  <2> QED BY <1>4, <2>1, <2>2, StartsKeeps DEF ReactStart, TypeOK
<1>5. CASE VoteStart(c)
  <2>1. PICK m \in MsgIds, o \in Options :
          /\ Stored(m)
          /\ Starts(c, "vote", [Doing("vote_switch", rows[m].conv, m, o) EXCEPT
                                  !.drop = VotesOf(m, TaskUser[c]) \ {o}])
    BY <1>5 DEF VoteStart
  <2> DEFINE j == [Doing("vote_switch", rows[m].conv, m, o) EXCEPT
                     !.drop = VotesOf(m, TaskUser[c]) \ {o}]
  <2>2. VotesOf(m, TaskUser[c]) \ {o} \in SUBSET Options
    BY DEF VotesOf
  <2>3. j \in Busy /\ j.pc = "vote_switch" /\ j.msg = m /\ j.arg = o
    BY <2>1, <1>0, <2>2 DEF Doing, Idle, Busy, PCs, Tokens
  <2>4. Fit(j)
    BY <2>3 DEF Fit
  <2>5. Starts(c, "vote", j)
    BY <2>1
  <2> QED BY <1>5, <2>3, <2>4, <2>5, StartsKeeps DEF VoteStart, TypeOK
<1>6. CASE AckStart(c)
  <2>1. PICK m \in MsgIds, s \in Statuses :
          Stored(m) /\ Starts(c, "ack", Doing("ack", rows[m].conv, m, s))
    BY <1>6 DEF AckStart
  <2>2. Doing("ack", rows[m].conv, m, s) \in Busy /\ Fit(Doing("ack", rows[m].conv, m, s))
    BY <2>1, <1>0, DoingType DEF Fit, PCs
  <2> QED BY <1>6, <2>1, <2>2, StartsKeeps DEF AckStart, TypeOK
<1>7. CASE PinStart(c)
  <2>1. PICK m \in MsgIds, p \in {"pin", "unpin"} :
          Stored(m) /\ Starts(c, "pin", Doing(p, rows[m].conv, m, None))
    BY <1>7 DEF PinStart
  <2>2. p \in PCs
    BY DEF PCs
  <2>3. Doing(p, rows[m].conv, m, None) \in Busy /\ Doing(p, rows[m].conv, m, None).pc = p
        /\ Doing(p, rows[m].conv, m, None).msg = m
    BY <2>1, <2>2, <1>0, DoingType
  <2>4. Fit(Doing(p, rows[m].conv, m, None))
    BY <2>3 DEF Fit
  <2> QED BY <1>7, <2>1, <2>3, <2>4, StartsKeeps DEF PinStart, TypeOK
<1> QED BY <1>1, <1>2, <1>3, <1>4, <1>5, <1>6, <1>7 DEF Start

\* The database calls that leave the messages themselves alone: what they add
\* belongs to a stored message.
LEMMA MarkKeeps ==
    ASSUME IInv, NEW c \in Tasks, NEW j \in Busy \cup {Idle}, Fit(j), Goes(c, j),
           UNCHANGED <<rows, nextMsg, files, hung>>,
           tokens' \in [MsgIds -> SUBSET Texts],
           reactions' \subseteq MsgIds \X Users \X Emojis,
           votes' \subseteq MsgIds \X Users \X Options,
           acks' \subseteq MsgIds \X Users \X Statuses,
           pins' \subseteq MsgIds,
           \A r \in reactions' \cup votes' \cup acks' : Stored(r[1]),
           \A m \in pins' : Stored(m),
           \A m \in MsgIds : tokens'[m] # {} => Stored(m)
    PROVE  IInv'
<1>1. job' \in [Tasks -> Busy \cup {Idle}] /\ JobsFit'
  BY JobChange DEF IInv, Goes
<1>2. UNCHANGED <<granted, sweep, ops>>
  BY DEF Goes
<1>3. TypeOK'
  BY <1>1, <1>2 DEF IInv, TypeOK
<1>4. UsedIds' /\ SweepDue' /\ DependentsBelong'
  BY <1>2 DEF IInv, UsedIds, SweepDue, DependentsBelong, Stored
<1> QED BY <1>1, <1>3, <1>4 DEF IInv

\* Deleting a row with what references it keeps the tables consistent.
LEMMA DeleteRowKeeps ==
    ASSUME TypeOK, UsedIds, SweepDue, DependentsBelong, NEW m \in MsgIds, DeleteRow(m),
           sweep'.todo \subseteq sweep.todo
    PROVE  /\ rows' \in [MsgIds -> Row \cup {None}]
           /\ nextMsg' \in 1..(MaxMessages + 1)
           /\ tokens' \in [MsgIds -> SUBSET Texts]
           /\ reactions' \subseteq MsgIds \X Users \X Emojis
           /\ votes' \subseteq MsgIds \X Users \X Options
           /\ acks' \subseteq MsgIds \X Users \X Statuses
           /\ pins' \subseteq MsgIds
           /\ UsedIds' /\ SweepDue' /\ DependentsBelong'
<1>1. rows' \in [MsgIds -> Row \cup {None}]
  BY DEF DeleteRow, TypeOK, Row
<1>2. \A n \in MsgIds :
        /\ Stored(n)' <=> (Stored(n) /\ n # m)
        /\ Stored(n)' => /\ rows'[n].due = rows[n].due
                         /\ rows'[n].parent \in {rows[n].parent, None} \ {m}
  <2> TAKE n \in MsgIds
  <2>1. CASE n = m
    BY <2>1 DEF DeleteRow, Stored
  <2>2. CASE n # m /\ rows[n] = None
    BY <2>2 DEF DeleteRow, Stored
  <2>3. CASE n # m /\ rows[n] # None /\ rows[n].parent = m
    <3>1. rows[n] \in Row /\ rows'[n] = [rows[n] EXCEPT !.parent = None]
      BY <2>3 DEF DeleteRow, TypeOK
    <3>2. rows'[n] \in Row /\ rows'[n].due = rows[n].due /\ rows'[n].parent = None
      BY <3>1 DEF Row
    <3>3. None # m
      BY NoneAssumption DEF MsgIds
    <3> QED BY <2>3, <3>2, <3>3, NoneRowAssumption DEF Stored
  <2>4. CASE n # m /\ rows[n] # None /\ rows[n].parent # m
    BY <2>4 DEF DeleteRow, Stored
  <2> QED BY <2>1, <2>2, <2>3, <2>4
<1>3. nextMsg' = nextMsg
  BY DEF DeleteRow
<1>4. UsedIds'
  BY <1>2, <1>3 DEF UsedIds
<1>5. SweepDue'
  <2>1. \A n \in sweep'.todo : n \in MsgIds /\ n < nextMsg /\ (Stored(n) => rows[n].due = "now")
    BY DEF SweepDue, UsedIds, TypeOK
  <2> QED BY <1>2, <1>3, <2>1 DEF SweepDue
<1>6. /\ tokens' \in [MsgIds -> SUBSET Texts]
      /\ reactions' \subseteq MsgIds \X Users \X Emojis
      /\ votes' \subseteq MsgIds \X Users \X Options
      /\ acks' \subseteq MsgIds \X Users \X Statuses
      /\ pins' \subseteq MsgIds
  BY DEF DeleteRow, TypeOK
<1>7. DependentsBelong'
  <2>1. \A r \in reactions' \cup votes' \cup acks' : Stored(r[1])'
    <3> TAKE r \in reactions' \cup votes' \cup acks'
    <3>1. r[1] # m /\ Stored(r[1])
      BY DEF DeleteRow, DependentsBelong
    <3>2. r[1] \in MsgIds
      BY <1>6
    <3> QED BY <1>2, <3>1, <3>2
  <2>2. \A n \in pins' : Stored(n)'
    BY <1>2, <1>6 DEF DeleteRow, DependentsBelong
  <2>3. \A n \in MsgIds : tokens'[n] # {} => Stored(n)'
    BY <1>2 DEF DeleteRow, DependentsBelong, TypeOK
  <2>4. \A n \in MsgIds : rows'[n] # None /\ rows'[n].parent # None =>
                            rows'[rows'[n].parent] # None
    <3> SUFFICES ASSUME NEW n \in MsgIds, rows'[n] # None, rows'[n].parent # None
                 PROVE  rows'[rows'[n].parent] # None
      OBVIOUS
    <3>0. Stored(n)'
      BY DEF Stored
    <3>1. rows'[n].parent = rows[n].parent /\ rows[n].parent # m /\ Stored(n)
      BY <1>2, <3>0
    <3>2. rows[n].parent \in MsgIds /\ Stored(rows[n].parent)
      BY <3>1 DEF DependentsBelong, TypeOK, Row, Stored
    <3>3. PICK q \in MsgIds : q = rows[n].parent
      BY <3>2
    <3>4. Stored(q)'
      BY <1>2, <3>1, <3>2, <3>3
    <3> QED BY <3>1, <3>3, <3>4 DEF Stored
  <2> QED BY <2>1, <2>2, <2>3, <2>4 DEF DependentsBelong, Stored
<1> QED BY <1>1, <1>3, <1>4, <1>5, <1>6, <1>7 DEF TypeOK

\* The steps of Save, Index, Edit, Retoken.
LEMMA WriteKeeps ==
    ASSUME IInv, NEW c \in Tasks, Save(c) \/ Index(c) \/ Edit(c) \/ Retoken(c)
    PROVE  IInv'
<1> USE DEF IInv
<1>1. CASE Save(c)
  <2>1. job[c] \in Busy /\ job[c].row \in Row
    BY <1>1, AtStep DEF Save, PCs, Fit, Idle
  <2> DEFINE r == job[c].row
  <2>2. CASE r.parent # None /\ ~Stored(r.parent)
    BY <1>1, <2>2, IdleFits, MarkKeeps DEF Save, TypeOK, DependentsBelong
  <2>3. CASE ~(r.parent # None /\ ~Stored(r.parent))
    <3> DEFINE j == IF r.text \in Wordless THEN Idle
                    ELSE Doing("index", r.conv, nextMsg, r.text)
    <3>0. nextMsg \in MsgIds /\ nextMsg + 1 \in 1..(MaxMessages + 1)
      BY <1>1, BoundAssumption DEF Save, TypeOK, MsgIds
    <3>1. /\ rows' = [rows EXCEPT ![nextMsg] = r]
          /\ nextMsg' = nextMsg + 1
          /\ Goes(c, j)
          /\ UNCHANGED <<tokens, reactions, votes, acks, pins, files, hung>>
      BY <1>1, <2>3 DEF Save
    <3>2. j \in Busy \cup {Idle} /\ Fit(j)
      <4>1. r.conv \in Convs /\ r.text \in Texts
        BY <2>1 DEF Row
      <4>2. CASE r.text \in Wordless
        BY <4>2, IdleFits
      <4>3. CASE r.text \notin Wordless
        <5>1. /\ j \in Busy /\ j.pc = "index" /\ j.msg = nextMsg /\ j.arg = r.text
          BY <3>0, <4>1, <4>3, DoingType DEF PCs
        <5> QED
          BY <3>0, <4>1, <5>1 DEF Fit
      <4> QED
        BY <4>2, <4>3
    <3>3. job' \in [Tasks -> Busy \cup {Idle}] /\ JobsFit'
      BY <3>1, <3>2, JobChange DEF Goes
    <3>4. TypeOK'
      BY <2>1, <3>0, <3>1, <3>3 DEF TypeOK, Goes
    <3>5. ~Stored(nextMsg)
      BY <3>0 DEF UsedIds, TypeOK, MsgIds
    <3>6. \A m \in MsgIds : m # nextMsg => rows'[m] = rows[m]
      BY <3>1 DEF TypeOK
    <3>7. rows'[nextMsg] = r /\ r # None
      BY <2>1, <3>0, <3>1, NoneRowAssumption DEF TypeOK
    <3>8. UsedIds' /\ SweepDue'
      BY <3>0, <3>1, <3>6 DEF UsedIds, SweepDue, Stored, MsgIds, Goes, TypeOK
    <3>9. DependentsBelong'
      <4>1. \A n \in MsgIds : Stored(n) => rows'[n] = rows[n] /\ rows'[n] # None
        BY <3>5, <3>6 DEF Stored
      <4>2. (\A q \in reactions' \cup votes' \cup acks' : rows'[q[1]] # None)
            /\ (\A q \in pins' : rows'[q] # None)
            /\ (\A q \in MsgIds : tokens'[q] # {} => rows'[q] # None)
        BY <3>1, <4>1 DEF DependentsBelong, TypeOK
      <4>3. ASSUME NEW n \in MsgIds, rows'[n] # None, rows'[n].parent # None
            PROVE  rows'[rows'[n].parent] # None
        <5>1. CASE n = nextMsg
          BY <2>1, <2>3, <3>7, <4>1, <4>3, <5>1 DEF Row
        <5>2. CASE n # nextMsg
          <6>1. rows'[n] = rows[n] /\ rows[n] \in Row /\ Stored(n)
            BY <3>6, <4>3, <5>2 DEF TypeOK, Stored
          <6>2. rows[n].parent \in MsgIds /\ Stored(rows[n].parent)
            BY <4>3, <6>1 DEF DependentsBelong, Row
          <6> QED BY <4>1, <6>1, <6>2
        <5> QED BY <5>1, <5>2
      <4> QED BY <4>2, <4>3 DEF DependentsBelong, Stored
    <3> QED BY <3>3, <3>4, <3>8, <3>9
  <2> QED BY <2>2, <2>3
<1>2. CASE Index(c)
  <2>1. job[c] \in Busy /\ job[c].msg \in MsgIds /\ job[c].arg \in Texts
    BY <1>2, AtStep DEF Index, PCs, Fit
  <2>2. tokens' \in [MsgIds -> SUBSET Texts]
    BY <1>2, <2>1 DEF Index, TypeOK
  <2>3. \A m \in MsgIds : tokens'[m] # {} => Stored(m)
    BY <1>2, <2>1 DEF Index, TypeOK, DependentsBelong
  <2> QED BY <1>2, <2>2, <2>3, IdleFits, MarkKeeps DEF Index, TypeOK, DependentsBelong
<1>3. CASE Edit(c)
  <2> DEFINE m == job[c].msg
             t == job[c].arg
  <2>1. job[c] \in Busy /\ m \in MsgIds /\ t \in Texts
    BY <1>3, AtStep DEF Edit, PCs, Fit
  <2>2. CASE Stored(m) /\ rows[m].sender = TaskUser[c]
    <3>1. PICK j \in Retokens(job[c].conv, m, t) :
          /\ rows' = [rows EXCEPT ![m].text = t]
          /\ Goes(c, j)
          /\ UNCHANGED <<nextMsg, tokens, reactions, votes, acks, pins, files, hung>>
      BY <1>3, <2>2 DEF Edit
    <3>2. j \in Busy \cup {Idle} /\ Fit(j)
      BY <2>1, <3>1, DoingType, IdleFits DEF Retokens, Fit, PCs, Busy
    <3>3. job' \in [Tasks -> Busy \cup {Idle}] /\ JobsFit'
      BY <3>1, <3>2, JobChange DEF Goes
    <3>4. rows[m] \in Row
      BY <2>1, <2>2 DEF TypeOK, Stored
    <3>5. rows'[m] \in Row /\ rows'[m].due = rows[m].due /\ rows'[m].parent = rows[m].parent
      BY <2>1, <3>1, <3>4 DEF TypeOK, Row
    <3>6. \A n \in MsgIds : n # m => rows'[n] = rows[n]
      BY <3>1 DEF TypeOK
    <3>7. rows' \in [MsgIds -> Row \cup {None}]
      BY <2>1, <3>1, <3>5, <3>6 DEF TypeOK
    <3>8. TypeOK'
      BY <3>1, <3>3, <3>7 DEF TypeOK, Goes
    <3>9. \A n \in MsgIds : /\ rows'[n] # None <=> rows[n] # None
                            /\ rows'[n] # None => /\ rows'[n].due = rows[n].due
                                                  /\ rows'[n].parent = rows[n].parent
      BY <2>2, <3>5, <3>6, NoneRowAssumption DEF Stored
    <3>10. UsedIds' /\ SweepDue'
      BY <3>1, <3>9 DEF UsedIds, SweepDue, Stored, Goes, TypeOK
    <3>11. \A n \in MsgIds : rows[n] # None /\ rows[n].parent # None => rows[n].parent \in MsgIds
      BY DEF TypeOK, Row
    <3>12. DependentsBelong'
      BY <3>1, <3>9, <3>11 DEF DependentsBelong, Stored, TypeOK
    <3> QED BY <3>3, <3>8, <3>10, <3>12
  <2>3. CASE ~(Stored(m) /\ rows[m].sender = TaskUser[c])
    BY <1>3, <2>3, IdleFits, MarkKeeps DEF Edit, TypeOK, DependentsBelong
  <2> QED BY <2>2, <2>3
<1>4. CASE Retoken(c)
  <2>1. job[c] \in Busy /\ job[c].msg \in MsgIds /\ job[c].arg \in Texts \cup {None}
    BY <1>4, AtStep DEF Retoken, PCs, Fit
  <2>2. tokens' \in [MsgIds -> SUBSET Texts]
    BY <1>4, <2>1 DEF Retoken, TypeOK
  <2>3. \A m \in MsgIds : tokens'[m] # {} => Stored(m)
    BY <1>4, <2>1 DEF Retoken, TypeOK, DependentsBelong
  <2> QED BY <1>4, <2>2, <2>3, IdleFits, MarkKeeps DEF Retoken, TypeOK, DependentsBelong
<1> QED BY <1>1, <1>2, <1>3, <1>4

\* Removing a message, with or without the hang.
LEMMA RemovesKeeps ==
    ASSUME IInv, NEW c \in Tasks, NEW m \in MsgIds, job[c] \in Busy, Removes(c, m),
           UNCHANGED files
    PROVE  IInv'
<1> USE DEF IInv
<1> DEFINE j == IF rows[m].file # None THEN job[c] ELSE Idle
<1>1. Fit(j) /\ j \in Busy \cup {Idle}
  BY IdleFits DEF JobsFit
<1>2. job' = [job EXCEPT ![c] = j] /\ UNCHANGED <<granted, sweep, ops>>
  BY DEF Removes, Goes
<1>3. job' \in [Tasks -> Busy \cup {Idle}] /\ JobsFit'
  BY <1>1, <1>2, JobChange
<1>4. DeleteRow(m) /\ sweep'.todo \subseteq sweep.todo
  BY <1>2 DEF Removes
<1>5. TypeOK'
  BY <1>2, <1>3, <1>4, DeleteRowKeeps DEF TypeOK, Removes
<1> QED BY <1>3, <1>4, <1>5, DeleteRowKeeps

\* The steps of a deletion.
LEMMA DeleteKeeps ==
    ASSUME IInv, NEW c \in Tasks, DeleteOwn(c) \/ DeletePerm(c) \/ DeleteAny(c)
    PROVE  IInv'
<1> USE DEF IInv
<1>0. job[c] \in Busy /\ job[c].msg \in MsgIds /\ job[c].pc \in {"del_own", "del_perm", "del_any"}
  BY AtStep DEF DeleteOwn, DeletePerm, DeleteAny, PCs, Fit
<1>1. ASSUME job[c].conv \in Channels, NEW p \in {"del_perm", "del_any"}
      PROVE  [job[c] EXCEPT !.pc = p] \in Busy /\ Fit([job[c] EXCEPT !.pc = p])
  <2>1. p \in PCs
    BY DEF PCs
  <2>2. [job[c] EXCEPT !.pc = p] \in Busy /\ [job[c] EXCEPT !.pc = p].pc = p
        /\ [job[c] EXCEPT !.pc = p].msg = job[c].msg
        /\ [job[c] EXCEPT !.pc = p].conv = job[c].conv
    BY <1>0, <2>1, NextStep
  <2>3. Fit([job[c] EXCEPT !.pc = p])
    BY <1>0, <1>1, <2>2 DEF Fit
  <2> QED BY <2>2, <2>3
<1>2. ASSUME NEW j \in Busy \cup {Idle}, Fit(j), Goes(c, j), UNCHANGED <<tables, files, hung>>
      PROVE  IInv'
  BY <1>2, MarkKeeps DEF tables, TypeOK, DependentsBelong
<1>3. CASE DeleteOwn(c)
  <2>1. job[c].conv \in Channels \cup Dms
    BY <1>0 DEF Busy, Convs
  <2> QED BY <1>0, <1>1, <1>2, <1>3, <2>1, IdleFits, RemovesKeeps DEF DeleteOwn
<1>4. CASE DeletePerm(c)
  <2>1. job[c].conv \in Channels
    BY <1>4, AtStep DEF DeletePerm, PCs, Fit
  <2> QED BY <1>1, <1>2, <1>4, <2>1, IdleFits DEF DeletePerm
<1>5. CASE DeleteAny(c)
  BY <1>0, <1>2, <1>5, IdleFits, RemovesKeeps DEF DeleteAny
<1> QED BY <1>3, <1>4, <1>5

\* The steps of reactions, votes, receipts and pins.
LEMMA MarksKeep ==
    ASSUME IInv, NEW c \in Tasks,
           \/ ReactAdd(c) \/ ReactRemove(c)
           \/ VoteSwitch(c) \/ VoteAdd(c) \/ VoteRemove(c)
           \/ Ack(c) \/ Pin(c) \/ Unpin(c)
    PROVE  IInv'
<1> USE DEF IInv
<1> DEFINE m == job[c].msg
           u == TaskUser[c]
           a == job[c].arg
<1>0. u \in Users
  BY TaskAssumption
<1>1. CASE ReactAdd(c)
  <2>1. job[c] \in Busy /\ m \in MsgIds /\ a \in Emojis /\ job[c].pc = "react_add"
    BY <1>1, AtStep DEF ReactAdd, PCs, Fit
  <2>2. reactions' \subseteq MsgIds \X Users \X Emojis
    BY <1>0, <1>1, <2>1 DEF ReactAdd, TypeOK
  <2>3. \A r \in reactions' : Stored(r[1])
    BY <1>1 DEF ReactAdd, DependentsBelong
  <2> DEFINE j == IF Stored(m) /\ <<m, u, a>> \notin reactions THEN Idle
                  ELSE [job[c] EXCEPT !.pc = "react_remove"]
  <2>4. Goes(c, j)
    BY <1>1 DEF ReactAdd
  <2>5. j \in Busy \cup {Idle} /\ Fit(j)
    BY ZenonT(60), <2>1, NextStep, IdleFits DEF Fit, PCs
  <2> QED BY <1>1, <2>2, <2>3, <2>4, <2>5, MarkKeeps DEF ReactAdd, TypeOK, DependentsBelong
<1>2. CASE ReactRemove(c)
  BY <1>2, IdleFits, MarkKeeps DEF ReactRemove, TypeOK, DependentsBelong
<1>3. CASE VoteSwitch(c)
  <2>1. job[c] \in Busy /\ m \in MsgIds /\ a \in Options /\ job[c].pc = "vote_switch"
    BY <1>3, AtStep DEF VoteSwitch, PCs, Fit
  <2> DEFINE j == [job[c] EXCEPT !.pc = "vote_add", !.drop = {}]
  <2>2. j \in Busy /\ j.pc = "vote_add" /\ j.msg = m /\ j.arg = a
    BY <2>1 DEF Busy, PCs
  <2>3. Fit(j)
    BY <2>1, <2>2 DEF Fit
  <2>4. votes' \subseteq votes
    BY <1>3 DEF VoteSwitch
  <2>5. votes' \subseteq MsgIds \X Users \X Options /\ \A v \in votes' : Stored(v[1])
    BY <2>4 DEF TypeOK, DependentsBelong
  <2> QED BY <1>3, <2>2, <2>3, <2>5, MarkKeeps DEF VoteSwitch, TypeOK, DependentsBelong
<1>4. CASE VoteAdd(c)
  <2>1. job[c] \in Busy /\ m \in MsgIds /\ a \in Options /\ job[c].pc = "vote_add"
    BY <1>4, AtStep DEF VoteAdd, PCs, Fit
  <2>2. votes' \subseteq MsgIds \X Users \X Options
    BY <1>0, <1>4, <2>1 DEF VoteAdd, TypeOK
  <2>3. \A v \in votes' : Stored(v[1])
    BY <1>4 DEF VoteAdd, DependentsBelong
  <2> DEFINE j == IF Stored(m) /\ <<m, u, a>> \notin votes THEN Idle
                  ELSE [job[c] EXCEPT !.pc = "vote_remove"]
  <2>4. Goes(c, j)
    BY <1>4 DEF VoteAdd
  <2>5. j \in Busy \cup {Idle} /\ Fit(j)
    BY ZenonT(60), <2>1, NextStep, IdleFits DEF Fit, PCs
  <2> QED BY <1>4, <2>2, <2>3, <2>4, <2>5, MarkKeeps DEF VoteAdd, TypeOK, DependentsBelong
<1>5. CASE VoteRemove(c)
  BY <1>5, IdleFits, MarkKeeps DEF VoteRemove, TypeOK, DependentsBelong
<1>6. CASE Ack(c)
  <2>1. m \in MsgIds /\ a \in Statuses
    BY <1>6, AtStep DEF Ack, PCs, Fit
  <2>2. acks' \subseteq MsgIds \X Users \X Statuses
    BY <1>0, <1>6, <2>1 DEF Ack, TypeOK
  <2>3. \A k \in acks' : Stored(k[1])
    BY <1>6 DEF Ack, DependentsBelong
  <2> QED BY <1>6, <2>2, <2>3, IdleFits, MarkKeeps DEF Ack, TypeOK, DependentsBelong
<1>7. CASE Pin(c)
  <2>1. m \in MsgIds
    BY <1>7, AtStep DEF Pin, PCs, Fit
  <2>2. pins' \subseteq MsgIds /\ \A q \in pins' : Stored(q)
    BY <1>7, <2>1 DEF Pin, TypeOK, DependentsBelong
  <2> QED BY <1>7, <2>2, IdleFits, MarkKeeps DEF Pin, TypeOK, DependentsBelong
<1>8. CASE Unpin(c)
  BY <1>8, IdleFits, MarkKeeps DEF Unpin, TypeOK, DependentsBelong
<1> QED BY <1>1, <1>2, <1>3, <1>4, <1>5, <1>6, <1>7, <1>8

\* The clock.
LEMMA ExpireKeeps ==
    ASSUME IInv, NEW m \in MsgIds, Expire(m)
    PROVE  IInv'
<1> USE DEF IInv
<1>1. /\ rows[m] \in Row /\ rows[m] # None
      /\ rows' = [rows EXCEPT ![m].due = "now"]
      /\ UNCHANGED <<nextMsg, tokens, reactions, votes, acks, pins, files,
                     granted, job, sweep, hung, ops>>
  BY DEF Expire, Stored, TypeOK
<1>2. rows'[m] \in Row /\ rows'[m].due = "now" /\ rows'[m].parent = rows[m].parent
  BY <1>1 DEF TypeOK, Row
<1>3. \A n \in MsgIds : n # m => rows'[n] = rows[n]
  BY <1>1 DEF TypeOK
<1>4. rows' \in [MsgIds -> Row \cup {None}]
  BY <1>1, <1>2, <1>3 DEF TypeOK
<1>5. TypeOK' /\ JobsFit'
  BY <1>1, <1>4 DEF TypeOK, JobsFit
<1>6. \A n \in MsgIds : /\ rows'[n] # None <=> rows[n] # None
                        /\ rows'[n] # None => rows'[n].parent = rows[n].parent
                        /\ rows'[n] # None => rows'[n].due \in {rows[n].due, "now"}
  BY <1>1, <1>2, <1>3, NoneRowAssumption
<1>7. UsedIds' /\ SweepDue'
  BY <1>1, <1>6 DEF UsedIds, SweepDue, Stored, TypeOK
<1>8. \A n \in MsgIds : rows[n] # None /\ rows[n].parent # None => rows[n].parent \in MsgIds
  BY DEF TypeOK, Row
<1>9. DependentsBelong'
  BY <1>1, <1>6, <1>8 DEF DependentsBelong, Stored, TypeOK
<1> QED BY <1>5, <1>7, <1>9

\* The sweeper.
LEMMA SweepKeeps ==
    ASSUME IInv, Sweep
    PROVE  IInv'
<1> USE DEF IInv
<1>1. CASE SweepList
  <2>1. UNCHANGED <<tables, files, granted, job, hung, ops>>
    BY <1>1 DEF SweepList, SweepsOn
  <2>2. sweep' \in [phase : SweepPhases, todo : SUBSET MsgIds, file : Files \cup {None}]
        /\ sweep'.todo \subseteq Due
    BY <1>1 DEF SweepList, SweepsOn, SweepPhases, Due
  <2>3. TypeOK' /\ JobsFit'
    BY <2>1, <2>2 DEF TypeOK, JobsFit, tables
  <2>4. UsedIds' /\ SweepDue' /\ DependentsBelong'
    BY <2>1, <2>2 DEF UsedIds, SweepDue, DependentsBelong, Stored, tables, Due
  <2> QED BY <2>3, <2>4
<1>2. CASE SweepShred
  <2>1. PICK m \in sweep.todo :
          /\ sweep' = [sweep EXCEPT !.todo = @ \ {m},
                                    !.file = IF Stored(m) THEN rows[m].file ELSE None]
          /\ IF Stored(m) THEN DeleteRow(m) ELSE UNCHANGED tables
    BY <1>2 DEF SweepShred, SweepsOn
  <2>2. m \in MsgIds /\ UNCHANGED <<files, granted, job, hung, ops>>
    BY <1>2 DEF SweepShred, SweepsOn, TypeOK
  <2>3. sweep' \in [phase : SweepPhases, todo : SUBSET MsgIds, file : Files \cup {None}]
        /\ sweep'.todo \subseteq sweep.todo
    BY <2>1, <2>2 DEF TypeOK, Row, Stored
  <2>4. CASE Stored(m)
    BY <2>1, <2>2, <2>3, <2>4, DeleteRowKeeps DEF TypeOK, JobsFit
  <2>5. CASE ~Stored(m)
    <3>1. TypeOK' /\ JobsFit'
      BY <2>1, <2>2, <2>3, <2>5 DEF TypeOK, JobsFit, tables
    <3>2. UsedIds' /\ SweepDue' /\ DependentsBelong'
      BY <2>1, <2>3, <2>5 DEF UsedIds, SweepDue, DependentsBelong, Stored, tables
    <3> QED BY <3>1, <3>2
  <2> QED BY <2>4, <2>5
<1>3. CASE SweepFile
  <2>1. UNCHANGED <<tables, granted, job, hung, ops>> /\ sweep' = [sweep EXCEPT !.file = None]
        /\ files' \subseteq files
    BY <1>3 DEF SweepFile, SweepsOn
  <2>2. sweep' \in [phase : SweepPhases, todo : SUBSET MsgIds, file : Files \cup {None}]
        /\ sweep'.todo = sweep.todo
    BY <2>1 DEF TypeOK
  <2>3. TypeOK' /\ JobsFit'
    BY <2>1, <2>2 DEF TypeOK, JobsFit, tables
  <2>4. UsedIds' /\ SweepDue' /\ DependentsBelong'
    BY <2>1, <2>2 DEF UsedIds, SweepDue, DependentsBelong, Stored, tables
  <2> QED BY <2>3, <2>4
<1> QED BY <1>1, <1>2, <1>3 DEF Sweep

\* Role administration and restarts.
LEMMA RestKeeps ==
    ASSUME IInv, RoleChange \/ Restart
    PROVE  IInv'
<1> USE DEF IInv
<1>1. CASE RoleChange
  <2>1. granted' \subseteq Perms \X Users /\ ops' \in 0..MaxOps
    BY <1>1, PermAssumption, BoundAssumption DEF RoleChange, TypeOK
  <2>2. UNCHANGED <<tables, files, job, sweep, hung>>
    BY <1>1 DEF RoleChange
  <2>3. TypeOK' /\ JobsFit'
    BY <2>1, <2>2 DEF TypeOK, JobsFit, tables
  <2>4. UsedIds' /\ SweepDue' /\ DependentsBelong'
    BY <2>2 DEF UsedIds, SweepDue, DependentsBelong, Stored, tables
  <2> QED BY <2>3, <2>4
<1>2. CASE Restart
  <2>1. UNCHANGED <<tables, files, granted, ops>> /\ job' = [c \in Tasks |-> Idle]
        /\ sweep' = [phase |-> "channel", todo |-> {}, file |-> None] /\ hung' = FALSE
    BY <1>2 DEF Restart
  <2>2. TypeOK' /\ JobsFit'
    BY <2>1, IdleFits DEF TypeOK, JobsFit, tables, SweepPhases
  <2>3. UsedIds' /\ SweepDue' /\ DependentsBelong'
    BY <2>1 DEF UsedIds, SweepDue, DependentsBelong, Stored, tables
  <2> QED BY <2>2, <2>3
<1> QED BY <1>1, <1>2

\* The database the server starts on.
LEMMA InitFits ==
    ASSUME Init
    PROVE  IInv
<1>1. PICK r \in Row :
        /\ r.parent = None
        /\ rows = [m \in MsgIds |-> IF m = 1 THEN r ELSE None]
        /\ tokens = [m \in MsgIds |-> IF m = 1 THEN {r.text} \ Wordless ELSE {}]
        /\ files = {r.file} \ {None}
  BY DEF Init
<1>2. 1 \in MsgIds /\ nextMsg = 2 /\ 2 \in 1..(MaxMessages + 1)
  BY BoundAssumption DEF Init, MsgIds
<1>3. /\ rows \in [MsgIds -> Row \cup {None}]
      /\ tokens \in [MsgIds -> SUBSET Texts]
      /\ files \subseteq Files
  BY <1>1 DEF Row
<1>4. /\ job = [c \in Tasks |-> Idle]
      /\ sweep = [phase |-> "channel", todo |-> {}, file |-> None]
      /\ hung = FALSE /\ ops = 0 /\ granted = Granted
      /\ reactions = {} /\ votes = {} /\ acks = {} /\ pins = {}
  BY DEF Init
<1>5. TypeOK
  <2>1. job \in [Tasks -> Busy \cup {Idle}]
    BY <1>4
  <2>2. sweep \in [phase : SweepPhases, todo : SUBSET MsgIds, file : Files \cup {None}]
    BY <1>4 DEF SweepPhases
  <2>3. ops \in 0..MaxOps
    BY <1>4, BoundAssumption
  <2>4. granted \subseteq Perms \X Users
    BY <1>4, PermAssumption
  <2>5. hung \in BOOLEAN
    BY <1>4
  <2> QED BY <1>2, <1>3, <1>4, <2>1, <2>2, <2>3, <2>4, <2>5 DEF TypeOK
<1>6. JobsFit /\ SweepDue
  BY <1>4, IdleFits DEF JobsFit, SweepDue
<1>7. UsedIds
  BY <1>1, <1>2 DEF UsedIds, Stored, MsgIds
<1>8. DependentsBelong
  BY <1>1, <1>2, <1>4, NoneRowAssumption DEF DependentsBelong, Stored
<1> QED BY <1>5, <1>6, <1>7, <1>8 DEF IInv

\* Every step keeps the invariant.
LEMMA NextKeeps ==
    ASSUME IInv, [Next]_vars
    PROVE  IInv'
<1>1. CASE \E c \in Tasks : Start(c) \/ Step(c)
  BY <1>1, StartKeeps, WriteKeeps, DeleteKeeps, MarksKeep DEF Step
<1>2. CASE \E m \in MsgIds : Expire(m)
  BY <1>2, ExpireKeeps
<1>3. CASE Sweep \/ RoleChange \/ Restart
  BY <1>3, SweepKeeps, RestKeeps
<1>4. CASE UNCHANGED vars
  BY <1>4 DEF vars, tables, IInv, TypeOK, JobsFit, UsedIds, SweepDue, DependentsBelong, Stored
<1> QED BY <1>1, <1>2, <1>3, <1>4 DEF Next

\* The invariant holds in every state of every behaviour.
THEOREM Invariance == Spec => []IInv
<1>1. Init => IInv
  BY InitFits
<1>2. IInv /\ [Next]_vars => IInv'
  BY NextKeeps
<1> QED BY <1>1, <1>2, PTL DEF Spec

\* Every variable has its type: the types of the tables of db.rs and of the
\* locals of the message handlers of ws.rs.
THEOREM TypeCorrect == Spec => []TypeOK
<1>1. IInv => TypeOK
  BY DEF IInv
<1> QED BY <1>1, Invariance, PTL

\* No order of handlers, deletions and sweeps leaves a reaction, vote,
\* receipt, pin, token or thread parent of a message that is not stored.
THEOREM DependentsCorrect == Spec => []DependentsBelong
<1>1. IInv => DependentsBelong
  BY DEF IInv
<1> QED BY <1>1, Invariance, PTL

-----------------------------------------------------------------------------

\* The two halves of DeletedByRight.
Gone(m) == Stored(m) /\ rows'[m] = None
Rightly(m) ==
    \/ rows[m].due = "now"
    \/ \E c \in Tasks :
         /\ job[c].msg = m
         /\ rows[m].sender = TaskUser[c] \/ job[c].pc = "del_any"
Allowed(c) == job[c].conv \in Channels /\ MayIn(TaskUser[c], "manage", job[c].conv)

\* Who makes a message disappear.
LEMMA RemovedRightly ==
    ASSUME IInv, Next, NEW m \in MsgIds, Gone(m)
    PROVE  Rightly(m)
<1> USE DEF IInv
<1>0. rows[m] \in Row /\ rows' # rows
  BY DEF Gone, Stored, TypeOK
<1>1. ASSUME NEW n \in MsgIds, DeleteRow(n)
      PROVE  n = m
  <2>1. ASSUME n # m
        PROVE  rows'[m] \in Row
    BY <1>0, <1>1, <2>1 DEF DeleteRow, Row
  <2> QED BY <2>1, NoneRowAssumption DEF Gone
<1>2. ASSUME NEW c \in Tasks, Start(c) \/ Step(c)
      PROVE  Rightly(m)
  <2>1. CASE Start(c)
    BY <1>0, <2>1 DEF Start, SendStart, EditStart, DeleteStart, ReactStart, VoteStart,
                      AckStart, PinStart, Starts, tables
  <2>2. CASE Save(c)
    <3>1. job[c].row \in Row
      BY <2>2, AtStep DEF Save, PCs, Fit, Idle
    <3> QED BY <2>2, <3>1, NoneRowAssumption DEF Save, Gone, Stored, TypeOK
  <2>3. CASE Edit(c)
    <3>1. job[c].msg \in MsgIds /\ job[c].arg \in Texts
      BY <2>3, AtStep DEF Edit, PCs, Fit
    <3>2. rows' = [rows EXCEPT ![job[c].msg].text = job[c].arg]
      BY <1>0, <2>3 DEF Edit
    <3>3. rows'[m] \in Row
      BY <1>0, <3>1, <3>2 DEF TypeOK, Row
    <3> QED BY <3>3, NoneRowAssumption DEF Gone
  <2>4. CASE DeleteOwn(c)
    <3>1. job[c].msg \in MsgIds
      BY <2>4, AtStep DEF DeleteOwn, PCs, Fit
    <3>2. rows[job[c].msg].sender = TaskUser[c] /\ DeleteRow(job[c].msg)
      BY <1>0, <2>4 DEF DeleteOwn, Removes, tables
    <3> QED BY <1>1, <3>1, <3>2 DEF Rightly
  <2>5. CASE DeleteAny(c)
    <3>1. job[c].msg \in MsgIds /\ job[c].pc = "del_any"
      BY <2>5, AtStep DEF DeleteAny, PCs, Fit
    <3>2. DeleteRow(job[c].msg)
      BY <1>0, <2>5 DEF DeleteAny, Removes, tables
    <3> QED BY <1>1, <3>1, <3>2 DEF Rightly
  <2>6. CASE Index(c) \/ Retoken(c) \/ DeletePerm(c)
    BY <1>0, <2>6 DEF Index, Retoken, DeletePerm, tables
  <2>7. CASE \/ ReactAdd(c) \/ ReactRemove(c)
             \/ VoteSwitch(c) \/ VoteAdd(c) \/ VoteRemove(c)
             \/ Ack(c) \/ Pin(c) \/ Unpin(c)
    BY <1>0, <2>7 DEF ReactAdd, ReactRemove, VoteSwitch, VoteAdd, VoteRemove, Ack, Pin, Unpin
  <2> QED BY <1>2, <2>1, <2>2, <2>3, <2>4, <2>5, <2>6, <2>7 DEF Step
<1>3. ASSUME NEW n \in MsgIds, Expire(n)
      PROVE  Rightly(m)
  <2>1. rows' = [rows EXCEPT ![n].due = "now"]
    BY <1>3 DEF Expire
  <2>2. rows'[m] \in Row
    BY <1>0, <2>1 DEF TypeOK, Row
  <2> QED BY <2>2, NoneRowAssumption DEF Gone
<1>4. CASE Sweep
  <2>1. PICK n \in sweep.todo : DeleteRow(n)
    BY <1>0, <1>4 DEF Sweep, SweepList, SweepShred, SweepFile, tables
  <2>2. n \in MsgIds
    BY DEF TypeOK
  <2> QED BY <1>1, <2>1, <2>2 DEF SweepDue, Gone, Rightly
<1>5. CASE RoleChange \/ Restart
  BY <1>0, <1>5 DEF RoleChange, Restart, tables
<1> QED BY <1>2, <1>3, <1>4, <1>5 DEF Next

\* Only DeletePerm leads to the deletion of somebody else's message.
LEMMA MovesRightly ==
    ASSUME IInv, Next, NEW c \in Tasks, job[c].pc # "del_any", job'[c].pc = "del_any"
    PROVE  Allowed(c)
<1> USE DEF IInv
<1>1. job[c] \in Busy \cup {Idle} /\ job' # job
  BY DEF TypeOK
<1>2. ASSUME NEW d \in Tasks, Start(d) \/ Step(d)
      PROVE  Allowed(c)
  <2>1. ASSUME NEW j, job' = [job EXCEPT ![d] = j]
        PROVE  d = c /\ j.pc = "del_any"
    BY <2>1 DEF TypeOK
  <2>2. Idle.pc # "del_any"
    BY DEF Idle
  <2>3. \A p, k, q, a : Doing(p, k, q, a).pc = p
    BY DEF Doing, Idle
  <2>4. CASE DeletePerm(d)
    <3>1. d = c /\ MayIn(TaskUser[c], "manage", job[c].conv)
      BY <2>1, <2>2, <2>4 DEF DeletePerm, Goes
    <3>2. job[c].conv \in Channels
      BY <2>4, <3>1, AtStep DEF DeletePerm, PCs, Fit
    <3> QED BY <3>1, <3>2 DEF Allowed
  <2>5. CASE Start(d)
    <3>0. "save" # "del_any" /\ "vote_switch" # "del_any"
      OBVIOUS
    <3>1. CASE SendStart(d)
      <4>1. PICK k, r :
              job' = [job EXCEPT ![d] = [Doing("save", k, None, None) EXCEPT !.row = r]]
        BY ZenonT(60), <3>1 DEF SendStart, Starts
      <4>2. [Doing("save", k, None, None) EXCEPT !.row = r].pc = "save"
        BY DEF Doing, Idle
      <4> QED BY <2>1, <3>0, <4>1, <4>2
    <3>2. CASE VoteStart(d)
      <4>1. PICK m \in MsgIds, o \in Options :
              job' = [job EXCEPT ![d] = [Doing("vote_switch", rows[m].conv, m, o)
                                           EXCEPT !.drop = VotesOf(m, TaskUser[d]) \ {o}]]
        BY <3>2 DEF VoteStart, Starts
      <4>2. [Doing("vote_switch", rows[m].conv, m, o)
               EXCEPT !.drop = VotesOf(m, TaskUser[d]) \ {o}].pc = "vote_switch"
        BY DEF Doing, Idle
      <4> QED BY <2>1, <3>0, <4>1, <4>2
    <3>3. CASE EditStart(d) \/ DeleteStart(d) \/ ReactStart(d) \/ AckStart(d) \/ PinStart(d)
      BY <2>1, <2>3, <3>3 DEF EditStart, DeleteStart, ReactStart, AckStart, PinStart, Starts
    <3> QED BY <2>5, <3>1, <3>2, <3>3 DEF Start
  <2>6. CASE \/ Save(d) \/ Index(d) \/ Edit(d) \/ Retoken(d)
             \/ ReactRemove(d) \/ VoteRemove(d) \/ Ack(d) \/ Pin(d) \/ Unpin(d)
    <3>1. CASE Edit(d)
      <4>1. CASE job' = [job EXCEPT ![d] = Idle]
        BY <2>1, <2>2, <4>1
      <4>2. CASE \E m : \E a : job' = [job EXCEPT ![d] = Doing("retoken", job[d].conv, m, a)]
        BY <2>1, <2>3, <4>2
      <4> QED BY <3>1, <4>1, <4>2 DEF Edit, Retokens, Goes
    <3>2. CASE ~Edit(d)
      BY <2>1, <2>2, <2>3, <2>6, <3>2
      DEF Save, Index, Retoken, ReactRemove, VoteRemove, Ack, Pin, Unpin, Goes
    <3> QED BY <3>1, <3>2
  <2>7. CASE ReactAdd(d) \/ VoteSwitch(d) \/ VoteAdd(d)
    <3>1. job[d] \in Busy
      BY <2>7, AtStep DEF ReactAdd, VoteSwitch, VoteAdd, PCs
    <3>2. CASE ReactAdd(d)
      BY <2>1, <2>2, <3>1, <3>2 DEF ReactAdd, Goes, Busy
    <3>3. CASE VoteSwitch(d)
      <4>1. job' = [job EXCEPT ![d] = [job[d] EXCEPT !.pc = "vote_add", !.drop = {}]]
        BY <3>3 DEF VoteSwitch, Goes
      <4>2. [job[d] EXCEPT !.pc = "vote_add", !.drop = {}].pc = "vote_add"
        BY <3>1 DEF Busy
      <4>3. "vote_add" # "del_any"
        OBVIOUS
      <4> QED BY <2>1, <4>1, <4>2, <4>3
    <3>4. CASE VoteAdd(d)
      BY <2>1, <2>2, <3>1, <3>4 DEF VoteAdd, Goes, Busy
    <3> QED BY <2>7, <3>2, <3>3, <3>4
  <2>8. CASE DeleteOwn(d)
    <3>1. job[d] \in Busy /\ job[d].pc = "del_own"
      BY <2>8, AtStep DEF DeleteOwn, PCs
    <3> QED BY <2>1, <2>2, <2>8, <3>1 DEF DeleteOwn, Removes, Goes, Busy
  <2>9. CASE DeleteAny(d)
    <3>1. job[d].pc = "del_any"
      BY <2>9 DEF DeleteAny, At
    <3> QED BY <2>1, <2>2, <2>9, <3>1 DEF DeleteAny, Removes, Goes
  <2> QED BY <1>2, <2>4, <2>5, <2>6, <2>7, <2>8, <2>9 DEF Step
<1>3. CASE \E m \in MsgIds : Expire(m)
  BY <1>1, <1>3 DEF Expire
<1>4. CASE Sweep \/ RoleChange
  BY <1>1, <1>4 DEF Sweep, SweepList, SweepShred, SweepFile, SweepsOn, RoleChange
<1>5. CASE Restart
  BY <1>5 DEF Restart, Idle
<1> QED BY <1>2, <1>3, <1>4, <1>5 DEF Next

\* A stored message disappears only by its sender, a moderator whose
\* permission was found, or the sweeper once its time is over: also when it is
\* deleted and the sweeper's list was read long before.
THEOREM DeletionCorrect == Spec => DeletedByRight
<1> DEFINE A == /\ \A m \in MsgIds : Gone(m) => Rightly(m)
                /\ \A c \in Tasks : job[c].pc # "del_any" /\ job'[c].pc = "del_any" => Allowed(c)
<1>1. IInv /\ Next => A
  BY RemovedRightly, MovesRightly
<1>2. IInv /\ [Next]_vars => [A]_vars
  BY <1>1
<1>3. Spec => [][A]_vars
  <2> HIDE DEF A
  <2> QED BY <1>2, Invariance, PTL DEF Spec
<1> QED BY <1>3 DEF DeletedByRight, Gone, Rightly, Allowed

-----------------------------------------------------------------------------

\* The key of message_acks is a message and a user: one status for each.
OneReceipt ==
    \A m \in MsgIds, u \in Users :
        <<m, u, "read">> \in acks => <<m, u, "delivered">> \notin acks

\* The receipts change by an acknowledgement, which never overwrites "read",
\* and go with their message; nothing else touches them.
LEMMA ReceiptStep ==
    ASSUME IInv, [Next]_vars
    PROVE  \/ UNCHANGED acks
           \/ \E n \in MsgIds : rows'[n] = None /\ acks' = {a \in acks : a[1] # n}
           \/ \E n \in MsgIds, v \in Users, s \in Statuses :
                /\ <<n, v, "read">> \notin acks
                /\ acks' = (acks \ {<<n, v, "delivered">>}) \cup {<<n, v, s>>}
<1> USE DEF IInv
<1>1. ASSUME NEW n \in MsgIds, DeleteRow(n)
      PROVE  rows'[n] = None /\ acks' = {a \in acks : a[1] # n}
  BY <1>1 DEF DeleteRow
<1>2. ASSUME NEW c \in Tasks, Ack(c)
      PROVE  \/ UNCHANGED acks
             \/ \E n \in MsgIds, v \in Users, s \in Statuses :
                  /\ <<n, v, "read">> \notin acks
                  /\ acks' = (acks \ {<<n, v, "delivered">>}) \cup {<<n, v, s>>}
  <2>1. job[c].msg \in MsgIds /\ job[c].arg \in Statuses /\ TaskUser[c] \in Users
    BY <1>2, AtStep, TaskAssumption DEF Ack, PCs, Fit, Idle
  <2> QED BY <1>2, <2>1 DEF Ack
<1>3. ASSUME NEW c \in Tasks, DeleteOwn(c) \/ DeleteAny(c)
      PROVE  UNCHANGED acks \/ \E n \in MsgIds : DeleteRow(n)
  <2>1. job[c].msg \in MsgIds
    BY <1>3, AtStep DEF DeleteOwn, DeleteAny, PCs, Fit, Idle
  <2> QED BY <1>3, <2>1 DEF DeleteOwn, DeleteAny, Removes, tables
<1>4. ASSUME NEW c \in Tasks, Start(c)
      PROVE  UNCHANGED acks
  BY <1>4 DEF Start, SendStart, EditStart, DeleteStart, ReactStart, VoteStart, AckStart,
              PinStart, Starts, tables
<1>5. ASSUME NEW c \in Tasks,
             \/ Save(c) \/ Index(c) \/ Edit(c) \/ Retoken(c) \/ DeletePerm(c)
             \/ ReactAdd(c) \/ ReactRemove(c) \/ VoteSwitch(c) \/ VoteAdd(c) \/ VoteRemove(c)
             \/ Pin(c) \/ Unpin(c)
      PROVE  UNCHANGED acks
  BY <1>5 DEF Save, Index, Edit, Retoken, DeletePerm, ReactAdd, ReactRemove, VoteSwitch,
              VoteAdd, VoteRemove, Pin, Unpin, tables
<1>6. CASE \E c \in Tasks : Start(c) \/ Step(c)
  BY <1>1, <1>2, <1>3, <1>4, <1>5, <1>6 DEF Step
<1>7. CASE Sweep
  <2>1. UNCHANGED acks \/ \E n \in MsgIds : DeleteRow(n)
    BY <1>7 DEF Sweep, SweepList, SweepShred, SweepFile, tables, TypeOK
  <2> QED BY <1>1, <2>1
<1>8. CASE \/ \E m \in MsgIds : Expire(m)
           \/ RoleChange \/ Restart
           \/ UNCHANGED vars
  BY <1>8 DEF Expire, RoleChange, Restart, vars, tables
<1> QED BY <1>6, <1>7, <1>8 DEF Next

\* No message has two receipts of one user.
LEMMA ReceiptsUnique == Spec => []OneReceipt
<1>1. Init => OneReceipt
  BY DEF Init, OneReceipt
<1>2. ASSUME IInv, OneReceipt, [Next]_vars
      PROVE  OneReceipt'
  <2>1. SUFFICES ASSUME NEW m \in MsgIds, NEW u \in Users, <<m, u, "read">> \in acks'
                 PROVE  <<m, u, "delivered">> \notin acks'
    BY DEF OneReceipt
  <2>2. CASE \/ UNCHANGED acks
             \/ \E n \in MsgIds : acks' = {a \in acks : a[1] # n}
    BY <1>2, <2>1, <2>2 DEF OneReceipt
  <2>3. ASSUME NEW n \in MsgIds, NEW v \in Users, NEW s \in Statuses,
               <<n, v, "read">> \notin acks,
               acks' = (acks \ {<<n, v, "delivered">>}) \cup {<<n, v, s>>}
        PROVE  <<m, u, "delivered">> \notin acks'
    BY <1>2, <2>1, <2>3 DEF OneReceipt, Statuses
  <2> QED BY <1>2, <2>2, <2>3, ReceiptStep
<1> QED BY <1>1, <1>2, Invariance, PTL DEF Spec

\* A user's "read" outlives every later acknowledgement, of any of the user's
\* devices and in any order; it goes with its message.
THEOREM ReadCorrect == Spec => ReadStaysRead
<1> DEFINE A == \A m \in MsgIds, u \in Users :
                  <<m, u, "read">> \in acks =>
                     \/ <<m, u, "read">> \in acks' /\ <<m, u, "delivered">> \notin acks'
                     \/ rows'[m] = None
<1>1. IInv /\ OneReceipt /\ [Next]_vars => [A]_vars
  BY ReceiptStep DEF OneReceipt
<1>2. Spec => [][A]_vars
  <2> HIDE DEF A
  <2> QED BY <1>1, Invariance, ReceiptsUnique, PTL DEF Spec
<1> QED BY <1>2 DEF ReadStaysRead

-----------------------------------------------------------------------------
(***************************************************************************)
(* Messages implements MessageLife: every database call of a handler or of *)
(* the sweeper is a step of MessageLife under the refinement mapping of    *)
(* Messages, or leaves the view unchanged.  It rests on IInv: that a fresh *)
(* id has no dependents, that a mark is put on a stored message.           *)
(***************************************************************************)

\* A message is there exactly if its row is stored.
LEMMA ThereStored ==
    ASSUME TypeOK, NEW m \in MsgIds
    PROVE  /\ Life!There(m) <=> Stored(m)
           /\ Stored(m) => LogView[m] \in Header
           /\ LogView[m] \in Header \cup {None}
<1>1. CASE Stored(m)
  <2>1. rows[m] \in Row
    BY <1>1 DEF TypeOK, Stored
  <2>2. HeaderOf(m) \in Header
    BY <2>1 DEF HeaderOf, Header, Row
  <2> QED BY <1>1, <2>2, NoneRowAssumption DEF Life!There, LogView
<1>2. CASE ~Stored(m)
  BY <1>2 DEF Life!There, LogView
<1> QED BY <1>1, <1>2

\* What is attached to a message depends only on the rows that name it.
LEMMA SameMarks ==
    ASSUME NEW m \in MsgIds,
           tokens'[m] = tokens[m],
           \A r \in reactions \cup reactions' : r[1] = m => (r \in reactions <=> r \in reactions'),
           \A v \in votes \cup votes' : v[1] = m => (v \in votes <=> v \in votes'),
           \A a \in acks \cup acks' : a[1] = m => (a \in acks <=> a \in acks'),
           m \in pins <=> m \in pins'
    PROVE  MarksOn(m)' = MarksOn(m)
<1>1. {q \in reactions' : q[1] = m} = {q \in reactions : q[1] = m}
  OBVIOUS
<1>2. {q \in votes' : q[1] = m} = {q \in votes : q[1] = m}
  OBVIOUS
<1>3. {q \in acks' : q[1] = m} = {q \in acks : q[1] = m}
  OBVIOUS
<1>4. pins' \cap {m} = pins \cap {m}
  OBVIOUS
<1> QED BY <1>1, <1>2, <1>3, <1>4 DEF MarksOn

\* Nothing is attached to what is not stored.
LEMMA NoMarks ==
    ASSUME TypeOK, DependentsBelong, NEW m \in MsgIds, ~Stored(m)
    PROVE  MarksOn(m) = {}
<1>1. tokens[m] = {}
  BY DEF DependentsBelong
<1>2. {q \in reactions : q[1] = m} = {} /\ {q \in votes : q[1] = m} = {}
      /\ {q \in acks : q[1] = m} = {} /\ pins \cap {m} = {}
  BY DEF DependentsBelong
<1> QED BY <1>1, <1>2 DEF MarksOn

\* The views of rows that are the same.
LEMMA SameRows ==
    ASSUME UNCHANGED rows
    PROVE  UNCHANGED <<LogView, TextView, ParentView>>
<1>1. \A m \in MsgIds : Stored(m)' = Stored(m) /\ HeaderOf(m)' = HeaderOf(m)
  BY DEF Stored, HeaderOf
<1> QED BY <1>1 DEF LogView, TextView, ParentView, Stored, HeaderOf

\* Steps that leave the tables alone are steps of nobody.
LEMMA Stutters ==
    ASSUME UNCHANGED tables
    PROVE  UNCHANGED Life!vars
<1>1. UNCHANGED <<LogView, TextView, ParentView>>
  BY SameRows DEF tables
<1>2. \A m \in MsgIds : MarksOn(m)' = MarksOn(m)
  BY DEF tables, MarksOn
<1>3. MarksView' = MarksView
  BY <1>2 DEF MarksView
<1> QED BY <1>1, <1>3 DEF Life!vars, tables

\* A step that changes what is attached to one message.
LEMMA MarkStep ==
    ASSUME TypeOK, DependentsBelong, DependentsBelong', TypeOK', NEW m \in MsgIds,
           UNCHANGED <<rows, nextMsg>>,
           \A n \in MsgIds \ {m} : tokens'[n] = tokens[n] /\ (n \in pins <=> n \in pins'),
           \A r \in reactions \cup reactions' : r[1] # m => (r \in reactions <=> r \in reactions'),
           \A v \in votes \cup votes' : v[1] # m => (v \in votes <=> v \in votes'),
           \A a \in acks \cup acks' : a[1] # m => (a \in acks <=> a \in acks'),
           \A u \in Users : <<m, u, "read">> \in acks => <<m, u, "read">> \in acks'
    PROVE  Life!Mark(m) \/ UNCHANGED Life!vars
<1>1. UNCHANGED <<LogView, TextView, ParentView>> /\ 1..(nextMsg' - 1) = 1..(nextMsg - 1)
  BY SameRows
<1>2. \A n \in MsgIds \ {m} : MarksOn(n)' = MarksOn(n)
  <2> TAKE n \in MsgIds \ {m}
  <2> QED BY SameMarks
<1>3. CASE Stored(m)
  <2>1. MarksOn(m) \cap ({"ack"} \X Users \X {"read"}) \subseteq MarksOn(m)'
    <3> SUFFICES ASSUME NEW k \in MarksOn(m), k \in {"ack"} \X Users \X {"read"}
                 PROVE  k \in MarksOn(m)'
      OBVIOUS
    <3>1. PICK u \in Users : k = <<"ack", u, "read">>
      OBVIOUS
    <3>2. \E a \in acks : a[1] = m /\ k = <<"ack", a[2], a[3]>>
      BY <3>1 DEF MarksOn
    <3>3. <<m, u, "read">> \in acks
      BY <3>1, <3>2 DEF TypeOK
    <3>4. <<m, u, "read">> \in {q \in acks' : q[1] = m}
      BY <3>3
    <3> QED BY <3>1, <3>4 DEF MarksOn
  <2>2. MarksView[m] = MarksOn(m) /\ MarksView'[m] = MarksOn(m)'
        /\ \A n \in MsgIds \ {m} : MarksView'[n] = MarksView[n]
    BY <1>2 DEF MarksView
  <2> QED BY <1>1, <1>3, <2>1, <2>2, ThereStored DEF Life!Mark
<1>4. CASE ~Stored(m)
  <2>1. ~Stored(m)'
    BY <1>4 DEF Stored
  <2>2. MarksOn(m) = {} /\ MarksOn(m)' = {}
    <3>1. MarksOn(m) = {}
      BY <1>4, NoMarks
    <3>2. tokens'[m] = {}
      BY <2>1 DEF DependentsBelong
    <3>3. {q \in reactions' : q[1] = m} = {} /\ {q \in votes' : q[1] = m} = {}
          /\ {q \in acks' : q[1] = m} = {} /\ pins' \cap {m} = {}
      BY <2>1 DEF DependentsBelong
    <3>4. MarksOn(m)' = {}
      BY <3>2, <3>3 DEF MarksOn
    <3> QED BY <3>1, <3>4
  <2>3. MarksView' = MarksView
    BY <1>2, <2>2 DEF MarksView
  <2> QED BY <1>1, <2>3 DEF Life!vars
<1> QED BY <1>3, <1>4

\* A row that is deleted, with what references it.
LEMMA RemoveStep ==
    ASSUME TypeOK, DependentsBelong, TypeOK', DependentsBelong',
           NEW m \in MsgIds, Stored(m), DeleteRow(m)
    PROVE  Life!Remove(m)
<1>1. Stored(m) /\ ~Stored(m)' /\ nextMsg' = nextMsg
  BY DEF DeleteRow, Stored, TypeOK
<1>2. \A n \in MsgIds \ {m} :
        /\ LogView'[n] = LogView[n] /\ TextView'[n] = TextView[n]
        /\ ParentView'[n] = IF ParentView[n] = m THEN None ELSE ParentView[n]
  <2> TAKE n \in MsgIds \ {m}
  <2>0. None # m
    BY NoneAssumption DEF MsgIds
  <2>1. CASE rows[n] = None
    <3>1. rows'[n] = None
      BY <2>1 DEF DeleteRow
    <3> QED BY <2>0, <2>1, <3>1 DEF LogView, TextView, ParentView, Stored
  <2>2. CASE rows[n] # None /\ rows[n].parent = m
    <3>1. rows[n] \in Row /\ rows'[n] = [rows[n] EXCEPT !.parent = None]
      BY <2>2 DEF DeleteRow, TypeOK
    <3>2. /\ rows'[n] \in Row /\ rows'[n].parent = None
          /\ rows'[n].conv = rows[n].conv /\ rows'[n].sender = rows[n].sender
          /\ rows'[n].file = rows[n].file /\ rows'[n].text = rows[n].text
      BY <3>1 DEF Row
    <3>3. rows'[n] # None
      BY <3>2, NoneRowAssumption
    <3> QED BY <2>2, <3>2, <3>3 DEF LogView, TextView, ParentView, HeaderOf, Stored
  <2>3. CASE rows[n] # None /\ rows[n].parent # m
    <3>1. rows'[n] = rows[n]
      BY <2>3 DEF DeleteRow
    <3> QED BY <2>3, <3>1 DEF LogView, TextView, ParentView, HeaderOf, Stored
  <2> QED BY <2>1, <2>2, <2>3
<1>3. \A n \in MsgIds \ {m} : MarksOn(n)' = MarksOn(n)
  <2> TAKE n \in MsgIds \ {m}
  <2>1. tokens'[n] = tokens[n]
    BY DEF DeleteRow, TypeOK
  <2> QED BY <2>1, SameMarks DEF DeleteRow
<1>4. MarksOn(m)' = {}
  <2>1. tokens'[m] = {}
    BY DEF DeleteRow, TypeOK
  <2>2. {q \in reactions' : q[1] = m} = {} /\ {q \in votes' : q[1] = m} = {}
        /\ {q \in acks' : q[1] = m} = {} /\ pins' \cap {m} = {}
    BY DEF DeleteRow
  <2> QED BY <2>1, <2>2 DEF MarksOn
<1>5. LogView'[m] = None
  BY <1>1 DEF LogView
<1>6. MarksView'[m] = {} /\ \A n \in MsgIds \ {m} : MarksView'[n] = MarksView[n]
  BY <1>3, <1>4 DEF MarksView
<1>7. Life!There(m)
  BY <1>1, ThereStored
<1> QED BY <1>1, <1>2, <1>5, <1>6, <1>7 DEF Life!Remove

\* A row that is inserted under the next id.
LEMMA PostStep ==
    ASSUME TypeOK, UsedIds, DependentsBelong, TypeOK',
           NEW m \in MsgIds, m = nextMsg, NEW r \in Row,
           r.parent # None => Stored(r.parent),
           rows' = [rows EXCEPT ![nextMsg] = r], nextMsg' = nextMsg + 1,
           UNCHANGED <<tokens, reactions, votes, acks, pins>>
    PROVE  Life!Post(m)
<1>0. m \in MsgIds /\ m \in Nat /\ ~Stored(m)
  <2>1. m \in Nat /\ ~(m < nextMsg)
    BY DEF MsgIds
  <2> QED BY <2>1 DEF UsedIds
<1>1. m \notin 1..(nextMsg - 1) /\ 1..(nextMsg' - 1) = (1..(nextMsg - 1)) \cup {m}
  <2>1. nextMsg \in Nat /\ nextMsg >= 1 /\ nextMsg' - 1 = nextMsg
    BY DEF MsgIds
  <2> QED BY <2>1
<1>2. rows'[m] = r /\ Stored(m)' /\ HeaderOf(m)' \in Header
  <2>1. rows'[m] = r
    BY <1>0 DEF TypeOK
  <2> QED BY <2>1, NoneRowAssumption DEF Stored, HeaderOf, Header, Row
<1>3. LogView'[m] \in Header /\ ParentView'[m] = r.parent
  BY <1>0, <1>2 DEF LogView, ParentView
<1>4. r.parent # None => r.parent \in MsgIds /\ r.parent # m /\ LogView[r.parent] # None
  <2> SUFFICES ASSUME r.parent # None
               PROVE  r.parent \in MsgIds /\ r.parent # m /\ LogView[r.parent] # None
    OBVIOUS
  <2>1. PICK p \in MsgIds : p = r.parent
    BY DEF Row
  <2>2. Stored(p) /\ p # m
    BY <1>0, <2>1
  <2> QED BY <2>1, <2>2, ThereStored DEF Life!There
<1>5. \A n \in MsgIds \ {m} : rows'[n] = rows[n]
  BY DEF TypeOK
<1>6. \A n \in MsgIds \ {m} : /\ LogView'[n] = LogView[n] /\ TextView'[n] = TextView[n]
                              /\ ParentView'[n] = ParentView[n]
  BY <1>5 DEF LogView, TextView, ParentView, HeaderOf, Stored
<1>7. MarksView' = MarksView
  BY DEF MarksView, MarksOn
<1> QED BY <1>1, <1>3, <1>4, <1>6, <1>7 DEF Life!Post, Life!There

\* A stored row that keeps everything the views show, but perhaps its text.
LEMMA AlterStep ==
    ASSUME TypeOK, NEW m \in MsgIds, Stored(m), NEW r \in Row,
           rows' = [rows EXCEPT ![m] = r],
           r.conv = rows[m].conv, r.sender = rows[m].sender, r.file = rows[m].file,
           r.parent = rows[m].parent,
           UNCHANGED <<nextMsg, tokens, reactions, votes, acks, pins>>
    PROVE  Life!Alter(m)
<1>1. rows'[m] = r /\ r # None
  BY NoneRowAssumption DEF TypeOK
<1>2. \A n \in MsgIds \ {m} : rows'[n] = rows[n]
  BY DEF TypeOK
<1>3. \A n \in MsgIds : Stored(n)' = Stored(n)
                       /\ (Stored(n) => HeaderOf(n)' = HeaderOf(n) /\ rows'[n].parent = rows[n].parent)
  <2> TAKE n \in MsgIds
  <2>1. CASE n = m
    BY <1>1, <2>1 DEF Stored, HeaderOf
  <2>2. CASE n # m
    BY <1>2, <2>2 DEF Stored, HeaderOf
  <2> QED BY <2>1, <2>2
<1>4. LogView' = LogView /\ ParentView' = ParentView
  <2>1. LogView' = LogView
    BY <1>3 DEF LogView
  <2>2. ParentView' = ParentView
    BY <1>3 DEF ParentView
  <2> QED BY <2>1, <2>2
<1>5. \A n \in MsgIds \ {m} : TextView'[n] = TextView[n]
  BY <1>2 DEF TextView, Stored
<1>6. MarksView' = MarksView
  BY DEF MarksView, MarksOn
<1>7. Life!There(m)
  BY ThereStored
<1> QED BY <1>4, <1>5, <1>6, <1>7 DEF Life!Alter

\* What a job that is at a step holds.
LEMMA AtMessage ==
    ASSUME IInv, NEW c \in Tasks, NEW p \in PCs \ {"save"}, At(c, p)
    PROVE  job[c] \in Busy /\ job[c].msg \in MsgIds
BY AtStep DEF IInv, Fit

\* The database calls of the handlers.
LEMMA StepRefines ==
    ASSUME IInv, IInv', NEW c \in Tasks, Step(c)
    PROVE  (\E m \in MsgIds : Life!Post(m) \/ Life!Alter(m) \/ Life!Remove(m) \/ Life!Mark(m))
             \/ UNCHANGED Life!vars
<1> USE DEF IInv
<1> DEFINE m == job[c].msg
<1>1. CASE Save(c)
  <2> DEFINE r == job[c].row
  <2>1. r \in Row
    BY <1>1, AtStep DEF Save, PCs, Fit, Idle
  <2>2. CASE UNCHANGED <<rows, nextMsg>>
    BY <1>1, <2>2, Stutters DEF Save, tables
  <2>3. CASE ~UNCHANGED <<rows, nextMsg>>
    <3>1. PICK n \in MsgIds : n = nextMsg
      BY <1>1 DEF Save, TypeOK, MsgIds
    <3>2. r.parent # None => Stored(r.parent)
      BY <1>1, <2>3 DEF Save
    <3>3. rows' = [rows EXCEPT ![nextMsg] = r] /\ nextMsg' = nextMsg + 1
      BY <1>1, <2>3 DEF Save
    <3>4. UNCHANGED <<tokens, reactions, votes, acks, pins>>
      BY <1>1 DEF Save
    <3>5. Life!Post(n)
      BY <2>1, <3>1, <3>2, <3>3, <3>4, PostStep
    <3> QED BY <3>5
  <2> QED BY <2>2, <2>3
<1>2. CASE Index(c)
  <2>1. m \in MsgIds
    BY <1>2, AtMessage DEF Index, PCs
  <2>2. Life!Mark(m) \/ UNCHANGED Life!vars
    BY <1>2, <2>1, MarkStep DEF Index, TypeOK
  <2> QED BY <2>1, <2>2
<1>3. CASE Edit(c)
  <2>1. m \in MsgIds /\ job[c].arg \in Texts
    BY <1>3, AtStep DEF Edit, PCs, Fit
  <2>2. CASE Stored(m) /\ rows[m].sender = TaskUser[c]
    <3> DEFINE r == [rows[m] EXCEPT !.text = job[c].arg]
    <3>1. rows[m] \in Row
      BY <2>1, <2>2 DEF TypeOK, Stored
    <3>2. /\ r \in Row /\ r.conv = rows[m].conv /\ r.sender = rows[m].sender
          /\ r.file = rows[m].file /\ r.parent = rows[m].parent
      BY <2>1, <3>1 DEF Row
    <3>3. rows' = [rows EXCEPT ![m] = r]
      BY <1>3, <2>2 DEF Edit
    <3>4. UNCHANGED <<nextMsg, tokens, reactions, votes, acks, pins>>
      BY <1>3 DEF Edit
    <3>5. Life!Alter(m)
      BY <2>1, <2>2, <3>2, <3>3, <3>4, AlterStep
    <3> QED BY <2>1, <3>5
  <2>3. CASE ~(Stored(m) /\ rows[m].sender = TaskUser[c])
    BY <1>3, <2>3, Stutters DEF Edit, tables
  <2> QED BY <2>2, <2>3
<1>4. CASE Retoken(c)
  <2>1. m \in MsgIds
    BY <1>4, AtMessage DEF Retoken, PCs
  <2>2. Life!Mark(m) \/ UNCHANGED Life!vars
    BY <1>4, <2>1, MarkStep DEF Retoken, TypeOK
  <2> QED BY <2>1, <2>2
<1>5. CASE DeleteOwn(c) \/ DeletePerm(c) \/ DeleteAny(c)
  <2>1. m \in MsgIds
    BY <1>5, AtMessage DEF DeleteOwn, DeletePerm, DeleteAny, PCs
  <2>2. UNCHANGED tables \/ (Stored(m) /\ DeleteRow(m))
    BY <1>5 DEF DeleteOwn, DeletePerm, DeleteAny, Removes
  <2> QED BY <2>1, <2>2, Stutters, RemoveStep
<1>6. CASE ReactAdd(c) \/ ReactRemove(c)
  <2>1. m \in MsgIds
    BY <1>6, AtMessage DEF ReactAdd, ReactRemove, PCs
  <2>2. \A r \in reactions \cup reactions' : r[1] # m => (r \in reactions <=> r \in reactions')
    BY <1>6 DEF ReactAdd, ReactRemove
  <2>3. UNCHANGED <<rows, nextMsg, tokens, votes, acks, pins>>
    BY <1>6 DEF ReactAdd, ReactRemove
  <2>4. Life!Mark(m) \/ UNCHANGED Life!vars
    BY <2>1, <2>2, <2>3, MarkStep
  <2> QED BY <2>1, <2>4
<1>7. CASE VoteSwitch(c) \/ VoteAdd(c) \/ VoteRemove(c)
  <2>1. m \in MsgIds
    BY <1>7, AtMessage DEF VoteSwitch, VoteAdd, VoteRemove, PCs
  <2>2. \A v \in votes \cup votes' : v[1] # m => (v \in votes <=> v \in votes')
    BY <1>7 DEF VoteSwitch, VoteAdd, VoteRemove
  <2>3. UNCHANGED <<rows, nextMsg, tokens, reactions, acks, pins>>
    BY <1>7 DEF VoteSwitch, VoteAdd, VoteRemove
  <2>4. Life!Mark(m) \/ UNCHANGED Life!vars
    BY <2>1, <2>2, <2>3, MarkStep
  <2> QED BY <2>1, <2>4
<1>8. CASE Ack(c)
  <2>1. m \in MsgIds
    BY <1>8, AtMessage DEF Ack, PCs
  <2>2. \A a \in acks \cup acks' : a[1] # m => (a \in acks <=> a \in acks')
    BY <1>8 DEF Ack
  <2>3. \A u \in Users : <<m, u, "read">> \in acks => <<m, u, "read">> \in acks'
    BY <1>8 DEF Ack
  <2>4. UNCHANGED <<rows, nextMsg, tokens, reactions, votes, pins>>
    BY <1>8 DEF Ack
  <2>5. Life!Mark(m) \/ UNCHANGED Life!vars
    BY <2>1, <2>2, <2>3, <2>4, MarkStep
  <2> QED BY <2>1, <2>5
<1>9. CASE Pin(c) \/ Unpin(c)
  <2>1. m \in MsgIds
    BY <1>9, AtMessage DEF Pin, Unpin, PCs
  <2>2. Life!Mark(m) \/ UNCHANGED Life!vars
    BY <1>9, <2>1, MarkStep DEF Pin, Unpin
  <2> QED BY <2>1, <2>2
<1> QED BY <1>1, <1>2, <1>3, <1>4, <1>5, <1>6, <1>7, <1>8, <1>9 DEF Step

\* The other tasks.
LEMMA OthersRefine ==
    ASSUME IInv, IInv',
           (\E m \in MsgIds : Expire(m)) \/ Sweep \/ RoleChange \/ Restart
             \/ (\E c \in Tasks : Start(c))
    PROVE  (\E m \in MsgIds : Life!Alter(m) \/ Life!Remove(m)) \/ UNCHANGED Life!vars
<1> USE DEF IInv
<1>1. ASSUME NEW m \in MsgIds, Expire(m)
      PROVE  Life!Alter(m)
  <2> DEFINE r == [rows[m] EXCEPT !.due = "now"]
  <2>1. rows[m] \in Row /\ Stored(m)
    BY <1>1 DEF Expire, TypeOK, Stored
  <2>2. /\ r \in Row /\ r.conv = rows[m].conv /\ r.sender = rows[m].sender
        /\ r.file = rows[m].file /\ r.parent = rows[m].parent
    BY <2>1 DEF Row
  <2>3. rows' = [rows EXCEPT ![m] = r]
        /\ UNCHANGED <<nextMsg, tokens, reactions, votes, acks, pins>>
    BY <1>1 DEF Expire
  <2> QED BY <2>1, <2>2, <2>3, AlterStep
<1>2. ASSUME SweepShred
      PROVE  (\E m \in MsgIds : Life!Remove(m)) \/ UNCHANGED Life!vars
  <2>1. PICK m \in sweep.todo : IF Stored(m) THEN DeleteRow(m) ELSE UNCHANGED tables
    BY <1>2 DEF SweepShred
  <2>2. m \in MsgIds
    BY DEF TypeOK
  <2> QED BY <2>1, <2>2, Stutters, RemoveStep
<1>3. CASE SweepList \/ SweepFile \/ RoleChange \/ Restart
  BY <1>3, Stutters DEF SweepList, SweepFile, RoleChange, Restart
<1>4. ASSUME NEW c \in Tasks, Start(c)
      PROVE  UNCHANGED tables
  BY <1>4 DEF Start, SendStart, EditStart, DeleteStart, ReactStart, VoteStart, AckStart,
              PinStart, Starts
<1> QED BY <1>1, <1>2, <1>3, <1>4, Stutters DEF Sweep

\* The database the server starts on.
LEMMA InitRefines ==
    ASSUME Init
    PROVE  Life!Init
<1>1. IInv
  BY InitFits
<1>2. PICK r \in Row :
        /\ r.parent = None
        /\ rows = [m \in MsgIds |-> IF m = 1 THEN r ELSE None]
  BY DEF Init
<1> SUFFICES ASSUME NEW m \in MsgIds
             PROVE  /\ LogView[m] \in Header \cup {None}
                    /\ Life!There(m) <=> m \in 1..(nextMsg - 1)
                    /\ ParentView[m] = None
                    /\ ~Life!There(m) => MarksView[m] = {}
  BY DEF Life!Init
<1>3. Stored(m) <=> m = 1
  BY <1>2, NoneRowAssumption DEF Stored
<1>4. m = 1 <=> m \in 1..(nextMsg - 1)
  BY DEF Init, MsgIds
<1>5. ParentView[m] = None
  BY <1>2, <1>3 DEF ParentView
<1>6. ~Stored(m) => MarksView[m] = {}
  BY <1>1, NoMarks DEF MarksView, IInv
<1> QED BY <1>1, <1>3, <1>4, <1>5, <1>6, ThereStored DEF IInv

\* The tables of messages behave as MessageLife says, whatever the handlers
\* of ws.rs, the sweeper of main.rs and restarts do: a message is posted once
\* and goes once and for all, with everything attached to it.
THEOREM LifeImplemented == Spec => ImplementsLife
<1>1. Init => Life!Init
  BY InitRefines
<1>2. IInv /\ IInv' /\ [Next]_vars => [Life!Next]_(Life!vars)
  <2> SUFFICES ASSUME IInv, IInv', [Next]_vars
               PROVE  Life!Next \/ UNCHANGED Life!vars
    OBVIOUS
  <2>1. CASE UNCHANGED vars
    BY <2>1, Stutters DEF vars, tables
  <2>2. CASE Next
    BY <2>2, StepRefines, OthersRefine DEF Next, Life!Next
  <2> QED BY <2>1, <2>2
<1> QED BY <1>1, <1>2, Invariance, PTL DEF Spec, ImplementsLife, Life!Spec

=============================================================================
