--------------------------- MODULE TimelineProofs ---------------------------
(***************************************************************************)
(* Proofs about Timeline, for any number of conversations, messages, pages *)
(* and functions under way.                                                *)
(*                                                                         *)
(* The list is written by rendering rows one after the other, a recursion  *)
(* over the rows of a page; what it preserves is proved by a least         *)
(* counterexample among the positions (Induction, Solution, Preserved).    *)
(*                                                                         *)
(* The inductive invariant follows a message through every place that may  *)
(* still write it into the list: the database, the events on their way and *)
(* the rows the waiting functions hold.  Wherever it is found, an id       *)
(* belongs to one conversation (the function "of"), a function holds rows  *)
(* of its own conversation only, and one that waits for a key is in a      *)
(* direct conversation.                                                    *)
(*                                                                         *)
(* The last part shows that the list is complete (KInv).  The events of a  *)
(* message tell what became of it (EventsOrdered); so a row is up to date  *)
(* or an event will change it (Fresh), and every message of the open       *)
(* conversation is shown, announced, in the hands of a function, or left   *)
(* to the next page (Has).  That is so from the answer of the newest load  *)
(* on (Right).  Before it nothing is claimed (Loading), nor when a         *)
(* function holds rows an event has passed, which names the race when it   *)
(* renders them (Doomed).                                                  *)
(***************************************************************************)
EXTENDS Timeline, FiniteSetTheorems, WellFoundedInduction, TLAPS

Msg == [id : Nat, conv : Convs, ver : Nat]

\* The messages there may be, if message i was sent in conversation of[i].
Known(of) ==
    {m \in Msg : m.id \in 1..sent /\ m.conv = of[m.id] /\ m.ver <= trouble}

\* The ids of a page of rows.
Ids(rows) == {rows[k].id : k \in 1..Len(rows)}

\* Lists of rows from S, in which no id occurs twice.
Distinct(l) == \A j, k \in DOMAIN l : l[j].id = l[k].id => j = k
Lists(S) == {l \in Seq(S) : Distinct(l)}

\* Where the list may show the message m.
Leaving == \E t \in tasks : t.kind = "server" /\ t.pc = "roles"
Placed(m) == m.conv \in Channels => chan = m.conv \/ Leaving
Placeable(of) == {m \in Known(of) : Placed(m)}

TaskType(of) ==
    [kind : {"load", "more", "server", "live", "edit", "recheck"},
     conv : Convs \cup {None}, gen : Nat, rows : Seq(Known(of)), old : BOOLEAN,
     pc : {"ask", "answer", "keys", "roles", "channels", "timer"}]
TaskFits(t, of) ==
    /\ t \in TaskType(of) /\ Len(t.rows) <= PageSize
    /\ \A k \in 1..Len(t.rows) : t.rows[k].conv = t.conv
    /\ t.pc = "ask" => t.kind \in {"load", "more"}
    /\ t.kind \in {"load", "more"} => t.conv \in Convs
    /\ t.pc = "keys" => t.conv \in Dms
    /\ t.kind \in {"live", "edit"} => t.pc = "keys" /\ Len(t.rows) = 1

EventType(of) == [kind : {"new", "edited", "deleted"}, msg : Known(of)]
DataFits(of) ==
    /\ stored \subseteq Known(of) /\ events \subseteq EventType(of)
    /\ list \in Lists(Placeable(of))
    /\ \A t \in tasks : TaskFits(t, of)

Counted ==
    /\ sent \in 0..MaxMsgs /\ trouble \in 0..MaxTrouble /\ moves \in Nat /\ loads \in Nat
Stored == IsFiniteSet(stored) /\ \A m, n \in stored : m.id = n.id => m = n
PageTyped ==
    /\ chan \in Channels \cup {None} /\ dm \in Dms \cup {None}
    /\ viewMode \in {"servers", "dms"}
    /\ note \in {"select", "loading", "empty", "failed", "none"}
    /\ spoiled \subseteq {"raced", "mixed", "missed", "strayed", "wiped"}
    /\ listener \in Convs \cup {None}
PagType == [gen : Nat, oldest : Nat, more : BOOLEAN, busy : BOOLEAN, mixed : BOOLEAN]

IInv ==
    /\ Counted /\ Stored /\ PageTyped /\ pag \in [Convs -> PagType]
    /\ MoreNotStuck
    /\ \E of \in [Nat -> Convs] : DataFits(of)

-----------------------------------------------------------------------------
(* Induction over the positions of a page, by a least counterexample *)

\* Every set of numbers has a least one, which is what induction means here.
LEMMA LeastNumber ==
    ASSUME NEW T \in SUBSET Nat, T # {}
    PROVE  \E n \in T : \A m \in T : ~(m < n)
<1>1. IsWellFoundedOn(OpToRel(<, Nat), Nat)
  BY NatLessThanWellFounded
<1>2. PICK n \in T : \A m \in T : <<m, n>> \notin OpToRel(<, Nat)
  BY <1>1, WFMin
<1>3. \A m \in T : <<m, n>> \in {ss \in Nat \X Nat : ss[1] < ss[2]} \/ ~(m < n)
  OBVIOUS
<1> QED
  BY <1>2, <1>3 DEF OpToRel

\* A set of numbers that has 0 and the successor of each of its members.
LEMMA Induction ==
    ASSUME NEW T \in SUBSET Nat, 0 \in T, \A n \in T : n + 1 \in T
    PROVE  T = Nat
<1>1. SUFFICES ASSUME Nat \ T # {} PROVE FALSE
  OBVIOUS
<1>2. PICK n \in Nat \ T : \A m \in Nat \ T : ~(m < n)
  BY <1>1, LeastNumber
<1>3. n # 0 /\ n - 1 \in Nat /\ n - 1 < n /\ n = (n - 1) + 1
  BY <1>2
<1>4. n - 1 \in T
  BY <1>2, <1>3
<1> QED
  BY <1>2, <1>3, <1>4

\* A recursion over 1..N whose steps are the function g has a solution, and
\* what each step preserves holds of the last value.
Solves(r, l, N, g) == r[0] = l /\ \A k \in 1..N : r[k] = g[<<k, r[k - 1]>>]

\* A recursive function over 0..N has a solution, by the least N without one.
LEMMA Solution ==
    ASSUME NEW L, NEW l \in L, NEW N \in Nat, NEW g \in [(1..N) \X L -> L]
    PROVE  \E r \in [0..N -> L] : Solves(r, l, N, g)
<1> DEFINE Is(r, n) == r[0] = l /\ \A k \in 1..n : r[k] = g[<<k, r[k - 1]>>]
           T == {n \in Nat : n <= N => \E r \in [0..n -> L] : Is(r, n)}
<1>1. 0 \in T
  <2> DEFINE r == [k \in 0..0 |-> l]
  <2>1. r \in [0..0 -> L] /\ Is(r, 0)
    OBVIOUS
  <2>2. \E x \in [0..0 -> L] : Is(x, 0)
    BY <2>1, Zenon
  <2> QED
    BY <2>2
<1>2. ASSUME NEW n \in T PROVE n + 1 \in T
  <2> SUFFICES ASSUME n + 1 <= N PROVE \E r \in [0..n + 1 -> L] : Is(r, n + 1)
    OBVIOUS
  <2>1. PICK q \in [0..n -> L] : Is(q, n)
    OBVIOUS
  <2> DEFINE r == [k \in 0..n + 1 |-> IF k = n + 1 THEN g[<<n + 1, q[n]>>] ELSE q[k]]
  <2>2. g[<<n + 1, q[n]>>] \in L
    OBVIOUS
  <2>3. r \in [0..n + 1 -> L]
    BY <2>2
  <2>4. r[n + 1] = g[<<n + 1, q[n]>>] /\ \A k \in 0..n : r[k] = q[k]
    OBVIOUS
  <2> HIDE DEF r
  <2>5. r[0] = l
    BY <2>1, <2>4
  <2>6. ASSUME NEW k \in 1..n + 1 PROVE r[k] = g[<<k, r[k - 1]>>]
    <3>1. CASE k = n + 1
      BY <3>1, <2>4
    <3>2. CASE k \in 1..n
      BY <3>2, <2>1, <2>4
    <3> QED
      BY <3>1, <3>2
  <2>7. Is(r, n + 1)
    BY <2>5, <2>6
  <2> QED
    BY <2>3, <2>7, Zenon
<1>3. T = Nat
  <2> HIDE DEF T
  <2> T \in SUBSET Nat
    BY DEF T
  <2> QED
    BY <1>1, <1>2, Induction
<1>4. N \in T
  BY <1>3, Zenon
<1> QED
  BY <1>4 DEF Solves

\* What the first value has and every step keeps, the last one has.
LEMMA Preserved ==
    ASSUME NEW L, NEW N \in Nat, NEW r, r[0] \in L,
           \A k \in 1..N : r[k - 1] \in L => r[k] \in L
    PROVE  r[N] \in L
<1> DEFINE T == {n \in Nat : n <= N => r[n] \in L}
<1>1. 0 \in T
  OBVIOUS
<1>2. ASSUME NEW n \in T PROVE n + 1 \in T
  <2> SUFFICES ASSUME n + 1 <= N PROVE r[n + 1] \in L
    OBVIOUS
  <2> n + 1 \in 1..N /\ (n + 1) - 1 = n /\ r[n] \in L
    OBVIOUS
  <2> QED
    OBVIOUS
<1>3. T = Nat
  <2> HIDE DEF T
  <2> T \in SUBSET Nat
    BY DEF T
  <2> QED
    BY <1>1, <1>2, Induction
<1> QED
  BY <1>3

-----------------------------------------------------------------------------
(* What the functions that write to the list do to it *)

LEMMA EmptyList == ASSUME NEW S PROVE <<>> \in Lists(S)
  BY DEF Lists, Distinct

\* A sequence is in Lists(S) if its elements are and no id is there twice.
LEMMA IsList ==
    ASSUME NEW S, NEW c \in Seq(S),
           \A j, k \in 1..Len(c) : c[j].id = c[k].id => j = k
    PROVE  c \in Lists(S)
  BY DEF Lists, Distinct

\* A list of rows names every id at most once.
LEMMA OfList ==
    ASSUME NEW S, NEW l \in Lists(S)
    PROVE  /\ l \in Seq(S) /\ Len(l) \in Nat /\ DOMAIN l = 1..Len(l)
           /\ \A k \in 1..Len(l) : l[k] \in S
           /\ \A j, k \in 1..Len(l) : l[j].id = l[k].id => j = k
<1> l \in Seq(S)
  BY DEF Lists
<1> QED
  BY DEF Lists, Distinct

LEMMA Concatenated ==
    ASSUME NEW S, NEW a \in Seq(S), NEW b \in Seq(S)
    PROVE  /\ a \o b \in Seq(S) /\ Len(a \o b) = Len(a) + Len(b)
           /\ \A k \in 1..Len(a) + Len(b) :
                 (a \o b)[k] = IF k <= Len(a) THEN a[k] ELSE b[k - Len(a)]
  OBVIOUS

\* Rendering or prepending a row keeps every id at most once, also when the
\* row was there: the code looks for it first.
\* Nothing that was shown is lost by it.
Grown(c, l, m) == \A i : Shown(l, i) \/ i = m.id => Shown(c, i)
LEMMA AddedList ==
    ASSUME NEW S, NEW l \in Lists(S), NEW m \in S
    PROVE  /\ Rendered(l, m) \in Lists(S) /\ Prepended(l, m) \in Lists(S)
           /\ Grown(Rendered(l, m), l, m) /\ Grown(Prepended(l, m), l, m)
<1> DEFINE n == Len(l)
<1>0. /\ l \in Seq(S) /\ n \in Nat /\ DOMAIN l = 1..n
      /\ \A k \in 1..n : l[k] \in S
      /\ \A j, k \in 1..n : l[j].id = l[k].id => j = k
  BY OfList
<1>1. CASE Shown(l, m.id)
  BY <1>1 DEF Rendered, Prepended, Grown
<1>2. CASE ~Shown(l, m.id)
  <2>0. \A k \in 1..n : l[k].id # m.id
    BY <1>0, <1>2 DEF Shown
  <2>9. ASSUME NEW c, DOMAIN c = 1..n + 1, NEW p \in 1..n + 1, c[p] = m,
               \A k \in 1..n : \E j \in 1..n + 1 : c[j] = l[k]
        PROVE  Grown(c, l, m)
    BY <1>0, <2>9 DEF Grown, Shown
  <2>1. Append(l, m) \in Lists(S) /\ Grown(Append(l, m), l, m)
    <3> DEFINE c == Append(l, m)
    <3>1. /\ c \in Seq(S) /\ Len(c) = n + 1
          /\ \A k \in 1..n + 1 : c[k] = IF k = n + 1 THEN m ELSE l[k]
      BY <1>0
    <3> HIDE DEF c
    <3>2. \A j, k \in 1..Len(c) : c[j].id = c[k].id => j = k
      BY <1>0, <2>0, <3>1
    <3>3. /\ DOMAIN c = 1..n + 1 /\ n + 1 \in 1..n + 1 /\ c[n + 1] = m
          /\ \A k \in 1..n : k \in 1..n + 1 /\ c[k] = l[k]
      BY <1>0, <3>1
    <3>4. Grown(c, l, m)
      BY <2>9, <3>3
    <3>5. c \in Lists(S)
      BY <3>1, <3>2, IsList
    <3> QED
      BY <3>4, <3>5 DEF c
  <2>2. <<m>> \o l \in Lists(S) /\ Grown(<<m>> \o l, l, m)
    <3> DEFINE c == <<m>> \o l
    <3>1. /\ c \in Seq(S) /\ Len(c) = n + 1
          /\ \A k \in 1..n + 1 : c[k] = IF k = 1 THEN m ELSE l[k - 1]
      BY <1>0
    <3> HIDE DEF c
    <3>2. ASSUME NEW j \in 1..Len(c), NEW k \in 1..Len(c), c[j].id = c[k].id
          PROVE  j = k
      <4>1. j \in 1..n + 1 /\ k \in 1..n + 1
        BY <3>1
      <4>2. CASE j # 1 /\ k # 1
        <5>1. j - 1 \in 1..n /\ k - 1 \in 1..n
          BY <1>0, <4>1, <4>2
        <5>2. l[j - 1].id = l[k - 1].id
          BY <3>1, <3>2, <4>1, <4>2
        <5> QED
          BY <1>0, <5>1, <5>2
      <4>3. CASE j = 1 /\ k # 1
        <5>1. k - 1 \in 1..n /\ l[k - 1].id = m.id
          BY <1>0, <3>1, <3>2, <4>1, <4>3
        <5> QED
          BY <2>0, <5>1
      <4>4. CASE j # 1 /\ k = 1
        <5>1. j - 1 \in 1..n /\ l[j - 1].id = m.id
          BY <1>0, <3>1, <3>2, <4>1, <4>4
        <5> QED
          BY <2>0, <5>1
      <4> QED
        BY <4>2, <4>3, <4>4
    <3>3. c \in Lists(S)
      BY <3>1, <3>2, IsList
    <3>4. /\ DOMAIN c = 1..n + 1 /\ 1 \in 1..n + 1 /\ c[1] = m
          /\ \A k \in 1..n : k + 1 \in 1..n + 1 /\ c[k + 1] = l[k]
      BY <1>0, <3>1
    <3>5. Grown(c, l, m)
      BY <2>9, <3>4
    <3> QED
      BY <3>3, <3>5 DEF c
  <2>3. ASSUME l # <<>>
        PROVE  InsertAt(l, n, m) \in Lists(S) /\ Grown(InsertAt(l, n, m), l, m)
    <3> DEFINE a == SubSeq(l, 1, n - 1)
               b == SubSeq(l, n, n)
               d == a \o <<m>>
               c == d \o b
    <3>1. n \in Nat \ {0}
      BY <1>0, <2>3
    <3>2. a \in Seq(S) /\ Len(a) = n - 1 /\ \A k \in 1..n - 1 : a[k] = l[k]
      BY <1>0, <3>1
    <3>3. b \in Seq(S) /\ Len(b) = 1 /\ b[1] = l[n]
      BY <1>0, <3>1
    <3> HIDE DEF a, b
    <3>4. /\ d \in Seq(S) /\ Len(d) = n
          /\ \A k \in 1..n : d[k] = IF k = n THEN m ELSE l[k]
      BY <3>1, <3>2
    <3> HIDE DEF d
    <3>5. /\ c \in Seq(S) /\ Len(c) = n + 1
          /\ \A k \in 1..n + 1 : c[k] = IF k = n + 1 THEN l[n] ELSE d[k]
      <4>2. /\ c \in Seq(S) /\ Len(c) = Len(d) + Len(b)
            /\ \A k \in 1..Len(d) + Len(b) : c[k] = IF k <= Len(d) THEN d[k] ELSE b[k - Len(d)]
        <5>1. d \in Seq(S) /\ b \in Seq(S)
          BY <3>3, <3>4
        <5> QED
          BY <5>1, Concatenated, Zenon
      <4>1. c \in Seq(S) /\ Len(c) = n + 1
        BY <4>2, <3>3, <3>4
      <4> HIDE DEF c
      <4>3. ASSUME NEW k \in 1..n + 1 PROVE c[k] = IF k = n + 1 THEN l[n] ELSE d[k]
        <5>1. k \in 1..Len(d) + Len(b)
          BY <3>1, <3>3, <3>4
        <5>2. c[k] = IF k <= n THEN d[k] ELSE b[k - n]
          BY <5>1, <4>2, <3>4
        <5>3. CASE k = n + 1
          BY <5>2, <5>3, <3>1, <3>3
        <5>4. CASE k \in 1..n
          BY <5>2, <5>4, <3>1
        <5> QED
          BY <5>3, <5>4, <3>1
      <4> QED
        BY <4>1, <4>3
    <3> HIDE DEF c
    <3>6. \A j, k \in 1..Len(c) : c[j].id = c[k].id => j = k
      <4> DEFINE at(k) == IF k = n + 1 THEN n ELSE k
      <4>1. c[n] = m
        BY <3>1, <3>4, <3>5
      <4>2. \A k \in 1..n + 1 : k # n => at(k) \in 1..n /\ c[k] = l[at(k)]
        BY <3>1, <3>4, <3>5
      <4>3. \A j, k \in (1..n + 1) \ {n} : at(j) = at(k) => j = k
        BY <3>1
      <4> HIDE DEF at
      <4>4. \A k \in 1..n + 1 : k # n => c[k].id # m.id
        <5> SUFFICES ASSUME NEW k \in 1..n + 1, k # n PROVE c[k].id # m.id
          OBVIOUS
        <5>1. at(k) \in 1..n /\ c[k] = l[at(k)]
          BY <4>2, Zenon
        <5> QED
          BY <2>0, <5>1
      <4>5. \A j, k \in (1..n + 1) \ {n} : c[j].id = c[k].id => j = k
        <5> SUFFICES ASSUME NEW j \in (1..n + 1) \ {n}, NEW k \in (1..n + 1) \ {n},
                            c[j].id = c[k].id
                     PROVE  j = k
          OBVIOUS
        <5>1. /\ at(j) \in 1..n /\ c[j] = l[at(j)]
              /\ at(k) \in 1..n /\ c[k] = l[at(k)]
          BY <4>2
        <5> QED
          BY <1>0, <4>3, <5>1, Zenon
      <4> QED
        BY <3>5, <4>1, <4>4, <4>5
    <3>7. c \in Lists(S)
      BY <3>5, <3>6, IsList
    <3>8. /\ DOMAIN c = 1..n + 1 /\ n \in 1..n + 1 /\ c[n] = m
          /\ n + 1 \in 1..n + 1 /\ c[n + 1] = l[n]
          /\ \A k \in 1..n : k # n => k \in 1..n + 1 /\ c[k] = l[k]
      BY <3>1, <3>4, <3>5
    <3>9. Grown(c, l, m)
      BY <2>9, <3>8
    <3> QED
      BY <3>7, <3>9 DEF InsertAt, a, b, c, d
  <2> QED
    BY <1>2, <2>1, <2>2, <2>3 DEF Rendered, Prepended, Inserted
<1> QED
  BY <1>1, <1>2

\* A page is rendered row by row.
LEMMA RenderedList ==
    ASSUME NEW S, NEW l \in Lists(S), NEW ms \in Seq(S)
    PROVE  /\ AllRendered(l, ms) \in Lists(S)
           /\ \A i : Shown(l, i) \/ i \in Ids(ms) => Shown(AllRendered(l, ms), i)
<1> DEFINE L == Lists(S)
           N == Len(ms)
           Row(k) == ms[k]
           g == [p \in (1..N) \X L |-> Rendered(p[2], Row(p[1]))]
           Is(r) == r = [k \in 0..N |-> IF k = 0 THEN l ELSE Rendered(r[k - 1], Row(k))]
           after == CHOOSE r : Is(r)
<1>1. N \in Nat /\ \A k \in 1..N : Row(k) \in S
  OBVIOUS
<1> HIDE DEF N, Row, L
<1>2. \A x \in L, k \in 1..N : Rendered(x, Row(k)) \in L
  BY <1>1, AddedList DEF L
<1>3. g \in [(1..N) \X L -> L] /\ \A x \in L, k \in 1..N : g[<<k, x>>] = Rendered(x, Row(k))
  BY <1>2
<1> HIDE DEF g
<1>4. PICK q \in [0..N -> L] : Solves(q, l, N, g)
  <2>1. l \in L
    BY DEF L
  <2>2. N \in Nat
    BY <1>1
  <2>3. g \in [(1..N) \X L -> L]
    BY <1>3
  <2> QED
    BY <2>1, <2>2, <2>3, Solution
<1>5. Is(q)
  <2>1. ASSUME NEW k \in 0..N PROVE q[k] = IF k = 0 THEN l ELSE Rendered(q[k - 1], Row(k))
    <3>1. CASE k = 0
      BY <1>4, <3>1 DEF Solves
    <3>2. CASE k # 0
      <4>1. k \in 1..N /\ k - 1 \in 0..N
        BY <1>1, <3>2
      <4>2. q[k - 1] \in L
        BY <1>4, <4>1
      <4> QED
        BY <1>3, <1>4, <3>2, <4>1, <4>2 DEF Solves
    <3> QED
      BY <3>1, <3>2
  <2>2. q = [k \in 0..N |-> q[k]]
    OBVIOUS
  <2> QED
    BY <2>1, <2>2
<1>6. Is(after)
  BY <1>5, Zenon
<1>7. AllRendered(l, ms) = after[N]
  BY DEF AllRendered, after, Row, N
<1> HIDE DEF after
<1>8. after[0] = l /\ \A k \in 1..N : after[k] = Rendered(after[k - 1], Row(k))
  BY <1>1, <1>6
<1>9. \A k \in 0..N : after[k] \in L
  <2>1. after[0] \in L /\ \A k \in 1..N : after[k - 1] \in L => after[k] \in L
    BY <1>2, <1>8 DEF L
  <2> SUFFICES ASSUME NEW k \in 0..N PROVE after[k] \in L
    OBVIOUS
  <2>2. k \in Nat /\ \A j \in 1..k : after[j - 1] \in L => after[j] \in L
    BY <1>1, <2>1
  <2> QED
    BY <2>1, <2>2, Preserved, Zenon
<1>10. \A x \in L, k \in 1..N : Grown(Rendered(x, Row(k)), x, Row(k))
  BY <1>1, AddedList DEF L
<1>11. ASSUME NEW i, NEW k \in 0..N, Shown(after[k], i) PROVE Shown(after[N], i)
  <2> DEFINE r == [j \in 0..N - k |-> after[k + j]]
             U == {x \in L : Shown(x, i)}
  <2>1. N - k \in Nat /\ 0 \in 0..N - k /\ N - k \in 0..N - k /\ k + (N - k) = N /\ k + 0 = k
    BY <1>1
  <2>2. r[0] \in U
    BY <1>9, <1>11, <2>1
  <2>3. ASSUME NEW j \in 1..N - k, r[j - 1] \in U PROVE r[j] \in U
    <3>1. /\ j \in 0..N - k /\ j - 1 \in 0..N - k /\ k + j \in 1..N /\ k + (j - 1) = (k + j) - 1
          /\ k + j \in 0..N
      BY <1>1
    <3>2. r[j] = after[k + j] /\ r[j - 1] = after[(k + j) - 1]
      BY <3>1
    <3>3. after[k + j] = Rendered(after[(k + j) - 1], Row(k + j)) /\ after[k + j] \in L
      BY <1>8, <1>9, <3>1
    <3> QED
      BY <1>10, <2>3, <3>1, <3>2, <3>3 DEF Grown
  <2>4. r[N - k] = after[N]
    BY <2>1
  <2> HIDE DEF r, U
  <2>5. r[N - k] \in U
    BY <2>1, <2>2, <2>3, Preserved, Zenon
  <2> QED
    BY <2>4, <2>5 DEF U
<1>12. ASSUME NEW k \in 1..N PROVE Shown(after[N], Row(k).id)
  <2>1. after[k - 1] \in L /\ k \in 0..N
    BY <1>1, <1>9
  <2>2. Shown(after[k], Row(k).id)
    BY <1>8, <1>10, <2>1 DEF Grown
  <2> QED
    BY <1>11, <2>1, <2>2
<1>13. ASSUME NEW i, Shown(l, i) \/ i \in Ids(ms) PROVE Shown(after[N], i)
  <2>1. CASE Shown(l, i)
    BY <1>1, <1>8, <1>11, <2>1
  <2>2. CASE i \in Ids(ms)
    <3>1. PICK k \in 1..N : i = ms[k].id
      BY <2>2 DEF Ids, N
    <3>2. k \in 1..N /\ ms[k] = Row(k)
      BY <1>1 DEF Row, N
    <3> QED
      BY <1>12, <3>1, <3>2
  <2> QED
    BY <1>13, <2>1, <2>2
<1> QED
  BY <1>1, <1>7, <1>9, <1>13 DEF L

\* An older page goes to the top, its newest row first.
LEMMA PrependedList ==
    ASSUME NEW S, NEW l \in Lists(S), NEW ms \in Seq(S)
    PROVE  /\ AllPrepended(l, ms) \in Lists(S)
           /\ \A i : Shown(l, i) \/ i \in Ids(ms) => Shown(AllPrepended(l, ms), i)
<1> DEFINE L == Lists(S)
           N == Len(ms)
           Row(k) == ms[Len(ms) + 1 - k]
           g == [p \in (1..N) \X L |-> Prepended(p[2], Row(p[1]))]
           Is(r) == r = [k \in 0..N |-> IF k = 0 THEN l ELSE Prepended(r[k - 1], Row(k))]
           after == CHOOSE r : Is(r)
<1>1. N \in Nat /\ \A k \in 1..N : Row(k) \in S
  OBVIOUS
<1> HIDE DEF N, Row, L
<1>2. \A x \in L, k \in 1..N : Prepended(x, Row(k)) \in L
  BY <1>1, AddedList DEF L
<1>3. g \in [(1..N) \X L -> L] /\ \A x \in L, k \in 1..N : g[<<k, x>>] = Prepended(x, Row(k))
  BY <1>2
<1> HIDE DEF g
<1>4. PICK q \in [0..N -> L] : Solves(q, l, N, g)
  <2>1. l \in L
    BY DEF L
  <2>2. N \in Nat
    BY <1>1
  <2>3. g \in [(1..N) \X L -> L]
    BY <1>3
  <2> QED
    BY <2>1, <2>2, <2>3, Solution
<1>5. Is(q)
  <2>1. ASSUME NEW k \in 0..N PROVE q[k] = IF k = 0 THEN l ELSE Prepended(q[k - 1], Row(k))
    <3>1. CASE k = 0
      BY <1>4, <3>1 DEF Solves
    <3>2. CASE k # 0
      <4>1. k \in 1..N /\ k - 1 \in 0..N
        BY <1>1, <3>2
      <4>2. q[k - 1] \in L
        BY <1>4, <4>1
      <4> QED
        BY <1>3, <1>4, <3>2, <4>1, <4>2 DEF Solves
    <3> QED
      BY <3>1, <3>2
  <2>2. q = [k \in 0..N |-> q[k]]
    OBVIOUS
  <2> QED
    BY <2>1, <2>2
<1>6. Is(after)
  BY <1>5, Zenon
<1>7. AllPrepended(l, ms) = after[N]
  BY DEF AllPrepended, after, Row, N
<1> HIDE DEF after
<1>8. after[0] = l /\ \A k \in 1..N : after[k] = Prepended(after[k - 1], Row(k))
  BY <1>1, <1>6
<1>9. \A k \in 0..N : after[k] \in L
  <2>1. after[0] \in L /\ \A k \in 1..N : after[k - 1] \in L => after[k] \in L
    BY <1>2, <1>8 DEF L
  <2> SUFFICES ASSUME NEW k \in 0..N PROVE after[k] \in L
    OBVIOUS
  <2>2. k \in Nat /\ \A j \in 1..k : after[j - 1] \in L => after[j] \in L
    BY <1>1, <2>1
  <2> QED
    BY <2>1, <2>2, Preserved, Zenon
<1>10. \A x \in L, k \in 1..N : Grown(Prepended(x, Row(k)), x, Row(k))
  BY <1>1, AddedList DEF L
<1>11. ASSUME NEW i, NEW k \in 0..N, Shown(after[k], i) PROVE Shown(after[N], i)
  <2> DEFINE r == [j \in 0..N - k |-> after[k + j]]
             U == {x \in L : Shown(x, i)}
  <2>1. N - k \in Nat /\ 0 \in 0..N - k /\ N - k \in 0..N - k /\ k + (N - k) = N /\ k + 0 = k
    BY <1>1
  <2>2. r[0] \in U
    BY <1>9, <1>11, <2>1
  <2>3. ASSUME NEW j \in 1..N - k, r[j - 1] \in U PROVE r[j] \in U
    <3>1. /\ j \in 0..N - k /\ j - 1 \in 0..N - k /\ k + j \in 1..N /\ k + (j - 1) = (k + j) - 1
          /\ k + j \in 0..N
      BY <1>1
    <3>2. r[j] = after[k + j] /\ r[j - 1] = after[(k + j) - 1]
      BY <3>1
    <3>3. after[k + j] = Prepended(after[(k + j) - 1], Row(k + j)) /\ after[k + j] \in L
      BY <1>8, <1>9, <3>1
    <3> QED
      BY <1>10, <2>3, <3>1, <3>2, <3>3 DEF Grown
  <2>4. r[N - k] = after[N]
    BY <2>1
  <2> HIDE DEF r, U
  <2>5. r[N - k] \in U
    BY <2>1, <2>2, <2>3, Preserved, Zenon
  <2> QED
    BY <2>4, <2>5 DEF U
<1>12. ASSUME NEW k \in 1..N PROVE Shown(after[N], Row(k).id)
  <2>1. after[k - 1] \in L /\ k \in 0..N
    BY <1>1, <1>9
  <2>2. Shown(after[k], Row(k).id)
    BY <1>8, <1>10, <2>1 DEF Grown
  <2> QED
    BY <1>11, <2>1, <2>2
<1>13. ASSUME NEW i, Shown(l, i) \/ i \in Ids(ms) PROVE Shown(after[N], i)
  <2>1. CASE Shown(l, i)
    BY <1>1, <1>8, <1>11, <2>1
  <2>2. CASE i \in Ids(ms)
    <3>1. PICK k \in 1..N : i = ms[k].id
      BY <2>2 DEF Ids, N
    <3>2. N + 1 - k \in 1..N /\ ms[k] = Row(N + 1 - k)
      BY <1>1 DEF Row, N
    <3> QED
      BY <1>12, <3>1, <3>2
  <2> QED
    BY <1>13, <2>1, <2>2
<1> QED
  BY <1>1, <1>7, <1>9, <1>13 DEF L

\* The row of a deleted message is taken out.
LEMMA ShortenedList ==
    ASSUME NEW S, NEW l \in Lists(S), NEW i
    PROVE  /\ Without(l, i) \in Lists(S) /\ Without(l, i) \in Lists({r \in S : r.id # i})
           /\ \A j : Shown(l, j) /\ j # i => Shown(Without(l, i), j)
<1> DEFINE n == Len(l)
           T == {k \in 1..n : l[k].id = i}
<1>1. /\ l \in Seq(S) /\ n \in Nat /\ DOMAIN l = 1..n
      /\ \A k \in 1..n : l[k] \in S
      /\ \A j, k \in 1..n : l[j].id = l[k].id => j = k
  BY OfList
<1>2. CASE ~Shown(l, i)
  <2>1. \A k \in 1..n : l[k] \in {r \in S : r.id # i}
    BY <1>1, <1>2 DEF Shown
  <2>2. l \in Seq({r \in S : r.id # i})
    BY <1>1, <2>1
  <2>3. l \in Lists({r \in S : r.id # i})
    BY <1>1, <2>2, IsList
  <2> QED
    BY <1>2, <2>3 DEF Without
<1>3. CASE Shown(l, i)
  <2>1. PICK p \in 1..n : p = FirstRow(l, i)
    <3>1. T \in SUBSET Nat /\ T # {}
      BY <1>1, <1>3 DEF Shown
    <3>2. PICK k \in T : \A j \in T : ~(j < k)
      <4> HIDE DEF T
      <4> QED
        BY <3>1, LeastNumber
    <3>3. k \in DOMAIN l /\ l[k].id = i /\ \A j \in 1..k - 1 : l[j].id # i
      BY <1>1, <3>2
    <3>4. \E x \in DOMAIN l : l[x].id = i /\ \A j \in 1..x - 1 : l[j].id # i
      BY <3>3, Zenon
    <3>5. FirstRow(l, i) \in DOMAIN l
      BY <3>4 DEF FirstRow
    <3> QED
      BY <1>1, <3>5
  <2> DEFINE a == SubSeq(l, 1, p - 1)
             b == SubSeq(l, p + 1, n)
             c == a \o b
  <2>2. a \in Seq(S) /\ Len(a) = p - 1 /\ \A k \in 1..p - 1 : a[k] = l[k]
    BY <1>1, <2>1
  <2>3. b \in Seq(S) /\ Len(b) = n - p /\ \A k \in 1..n - p : b[k] = l[p + k]
    <3>1. CASE p = n
      <4> b = <<>>
        BY <1>1, <3>1
      <4> QED
        BY <1>1, <3>1
    <3>2. CASE p # n
      <4>1. p + 1 \in 1..n /\ n - (p + 1) + 1 = n - p
        BY <1>1, <2>1, <3>2
      <4>2. b \in Seq(S) /\ Len(b) = n - (p + 1) + 1
        BY <1>1, <4>1
      <4>3. \A k \in 1..n - (p + 1) + 1 : b[k] = l[p + 1 + k - 1]
        BY <1>1, <4>1
      <4> QED
        BY <4>1, <4>2, <4>3
    <3> QED
      BY <3>1, <3>2
  <2> HIDE DEF a, b
  <2>4. /\ c \in Seq(S) /\ Len(c) = Len(a) + Len(b)
        /\ \A k \in 1..Len(a) + Len(b) : c[k] = IF k <= Len(a) THEN a[k] ELSE b[k - Len(a)]
    <3>1. a \in Seq(S) /\ b \in Seq(S)
      BY <2>2, <2>3
    <3> QED
      BY <3>1, Concatenated, Zenon
  <2> HIDE DEF c
  <2>5. /\ Len(c) = n - 1
        /\ \A k \in 1..n - 1 : c[k] = IF k < p THEN l[k] ELSE l[k + 1]
    <3>1. Len(a) = p - 1 /\ Len(a) + Len(b) = n - 1
      BY <1>1, <2>1, <2>2, <2>3
    <3>2. ASSUME NEW k \in 1..n - 1, k < p PROVE c[k] = l[k]
      BY SMTT(30), <1>1, <2>1, <2>2, <2>4, <3>1, <3>2
    <3>3. ASSUME NEW k \in 1..n - 1, ~(k < p) PROVE c[k] = l[k + 1]
      <4>1. k - (p - 1) \in 1..n - p /\ p + (k - (p - 1)) = k + 1
        BY <1>1, <3>3
      <4>2. c[k] = b[k - (p - 1)]
        BY SMTT(30), <1>1, <2>4, <3>1, <3>3
      <4>3. b[k - (p - 1)] = l[p + (k - (p - 1))]
        BY <2>3, <4>1
      <4> QED
        BY <4>1, <4>2, <4>3
    <3> QED
      BY <2>4, <3>1, <3>2, <3>3
  <2>6. \A j, k \in 1..Len(c) : c[j].id = c[k].id => j = k
    <3> DEFINE at(k) == IF k < p THEN k ELSE k + 1
    <3>1. \A k \in 1..n - 1 : at(k) \in 1..n /\ c[k] = l[at(k)]
      BY <1>1, <2>5
    <3>2. \A j, k \in 1..n - 1 : at(j) = at(k) => j = k
      BY <1>1
    <3> HIDE DEF at
    <3> QED
      BY <1>1, <2>5, <3>1, <3>2
  <2>7. c \in Lists(S)
    BY <2>4, <2>6, IsList
  <2>8. l[p].id = i
    <3>1. \E k \in 1..n : l[k].id = i /\ \A j \in 1..k - 1 : l[j].id # i
      <4>1. T \in SUBSET Nat /\ T # {}
        BY <1>1, <1>3 DEF Shown
      <4>2. PICK k \in T : \A j \in T : ~(j < k)
        <5> HIDE DEF T
        <5> QED
          BY <4>1, LeastNumber
      <4> QED
        BY <1>1, <4>2
    <3> QED
      BY <1>1, <2>1, <3>1 DEF FirstRow
  <2>9. \A k \in 1..n - 1 : c[k] \in {r \in S : r.id # i}
    BY <1>1, <2>5, <2>8
  <2>10. c \in Lists({r \in S : r.id # i})
    <3>1. c \in Seq({r \in S : r.id # i})
      BY <1>1, <2>4, <2>5, <2>9
    <3> QED
      BY <2>6, <3>1, IsList
  <2>11. \A k \in 1..n : k # p => \E j \in 1..n - 1 : c[j] = l[k]
    <3> SUFFICES ASSUME NEW k \in 1..n, k # p PROVE \E j \in 1..n - 1 : c[j] = l[k]
      OBVIOUS
    <3>1. CASE k < p
      BY <1>1, <2>5, <3>1
    <3>2. CASE p < k
      <4>1. k - 1 \in 1..n - 1 /\ ~(k - 1 < p) /\ (k - 1) + 1 = k
        BY <1>1, <3>2
      <4> QED
        BY <2>5, <4>1
    <3> QED
      BY <1>1, <3>1, <3>2
  <2>12. DOMAIN c = 1..n - 1
    BY <2>4, <2>5
  <2>13. \A j : Shown(l, j) /\ j # i => Shown(c, j)
    BY <1>1, <2>8, <2>11, <2>12 DEF Shown
  <2> QED
    BY <1>3, <2>1, <2>7, <2>10, <2>13 DEF Without, RemoveAt, a, b, c
<1> QED
  BY <1>2, <1>3

\* A row is replaced by another version of the message.
LEMMA EditedRows ==
    ASSUME NEW U, NEW l \in Lists(U), NEW m, NEW S,
           \A k \in DOMAIN l : IF l[k].id = m.id THEN m \in S ELSE l[k] \in S
    PROVE  EditedRow(l, m) \in Lists(S) /\ \A i : Shown(l, i) => Shown(EditedRow(l, m), i)
<1> DEFINE c == EditedRow(l, m)
<1>1. /\ l \in Seq(U) /\ Len(l) \in Nat /\ DOMAIN l = 1..Len(l)
      /\ \A j, k \in 1..Len(l) : l[j].id = l[k].id => j = k
  BY OfList
<1>2. c = [k \in 1..Len(l) |-> IF l[k].id = m.id THEN m ELSE l[k]]
  BY <1>1 DEF EditedRow
<1> HIDE DEF c
<1>3. c \in [1..Len(l) -> S] /\ \A k \in 1..Len(l) : c[k].id = l[k].id
  BY <1>1, <1>2
<1>4. c \in Seq(S) /\ Len(c) = Len(l) /\ DOMAIN c = 1..Len(l)
  BY <1>1, <1>3
<1>5. c \in Lists(S)
  BY <1>1, <1>3, <1>4, IsList
<1>6. \A i : Shown(l, i) => Shown(c, i)
  BY <1>1, <1>3, <1>4 DEF Shown
<1> QED
  BY <1>5, <1>6 DEF c

LEMMA EditedList ==
    ASSUME NEW S, NEW l \in Lists(S), NEW m,
           \A k \in DOMAIN l : l[k].id = m.id => m \in S
    PROVE  EditedRow(l, m) \in Lists(S)
<1>1. \A k \in DOMAIN l : IF l[k].id = m.id THEN m \in S ELSE l[k] \in S
  BY OfList
<1> QED
  BY <1>1, EditedRows

-----------------------------------------------------------------------------
(* What grows *)

\* More may be known of messages later, never less.
LEMMA BiggerLists ==
    ASSUME NEW S, NEW U, S \subseteq U, NEW l \in Lists(S)
    PROVE  l \in Lists(U)
<1>1. l \in Seq(S) /\ Distinct(l)
  BY DEF Lists
<1>2. l \in Seq(U)
  BY <1>1
<1> QED
  BY <1>1, <1>2 DEF Lists

\* What one step may do to the data, all of it within what is known.
Grows == sent' \in Nat /\ trouble' \in Nat /\ sent <= sent' /\ trouble <= trouble'

LEMMA KnownGrows ==
    ASSUME Counted, Grows, NEW of
    PROVE  Known(of) \subseteq Known(of)'
<1> SUFFICES ASSUME NEW m \in Known(of) PROVE m \in Known(of)'
  OBVIOUS
<1>1. m \in Msg /\ m.id \in 1..sent /\ m.conv = of[m.id] /\ m.ver <= trouble /\ m.ver \in Nat
  BY DEF Known, Msg
<1>2. m.id \in 1..sent' /\ m.ver <= trouble'
  BY <1>1 DEF Counted, Grows
<1> QED
  BY <1>1, <1>2 DEF Known, Msg

LEMMA TaskKept ==
    ASSUME Counted, Grows, NEW of, NEW t, TaskFits(t, of)
    PROVE  TaskFits(t, of)'
<1>1. t.rows \in Seq(Known(of))
  BY DEF TaskFits, TaskType
<1>2. t.rows \in Seq(Known(of)')
  BY <1>1, KnownGrows
<1>3. t \in TaskType(of)'
  BY <1>2 DEF TaskFits, TaskType
<1> QED
  BY <1>3 DEF TaskFits

LEMMA DataKept ==
    ASSUME Counted, Grows, NEW of, DataFits(of),
           \A m \in stored' : m \in stored \/ m \in Known(of)',
           \A e \in events' : e \in events \/ e \in EventType(of)',
           list' \in Lists(Placeable(of)'),
           \A t \in tasks' : t \in tasks \/ TaskFits(t, of)'
    PROVE  DataFits(of)'
<1>1. Known(of) \subseteq Known(of)'
  BY KnownGrows
<1>2. stored' \subseteq Known(of)'
  BY <1>1 DEF DataFits
<1>3. events' \subseteq EventType(of)'
  BY <1>1 DEF DataFits, EventType
<1>4. \A t \in tasks' : TaskFits(t, of)'
  BY TaskKept DEF DataFits
<1> QED
  BY <1>2, <1>3, <1>4 DEF DataFits

\* Rows that are shown may stay, unless the user goes elsewhere.
LEMMA PlacesKept ==
    ASSUME Counted, Grows, NEW of,
           chan' = chan \/ Leaving', Leaving => Leaving'
    PROVE  Placeable(of) \subseteq Placeable(of)'
<1> SUFFICES ASSUME NEW m \in Placeable(of) PROVE m \in Placeable(of)'
  OBVIOUS
<1>1. m \in Known(of)' /\ Placed(m)
  BY KnownGrows DEF Placeable
<1>2. Placed(m)'
  BY <1>1 DEF Placed
<1> QED
  BY <1>1, <1>2 DEF Placeable

LEMMA ListKept ==
    ASSUME Counted, Grows, NEW of, DataFits(of), list' = list,
           chan' = chan \/ Leaving', Leaving => Leaving'
    PROVE  list' \in Lists(Placeable(of)')
  BY PlacesKept, BiggerLists DEF DataFits

\* What becomes of the tasks.
LEMMA NewTask ==
    ASSUME NEW of, NEW k \in {"load", "more", "server", "recheck"}, NEW c \in Convs \cup {None},
           NEW p \in {"ask", "answer", "roles", "channels", "timer"}, NEW g \in Nat,
           p = "ask" => k \in {"load", "more"}, k \in {"load", "more"} => c \in Convs
    PROVE  TaskFits(Task(k, c, p, g, <<>>), of)'
<1>0. PICK t : t = Task(k, c, p, g, <<>>)
  OBVIOUS
<1>1. t.rows = <<>> /\ t.kind = k /\ t.conv = c /\ t.pc = p /\ t.gen = g
  BY <1>0 DEF Task
<1>2. t \in TaskType(of)'
  <2> <<>> \in Seq(Known(of)')
    OBVIOUS
  <2> QED
    BY <1>0 DEF TaskType, Task
<1>3. Len(<<>>) = 0 /\ PageSize \in Nat
  BY PageAssumption
<1>4. TaskFits(t, of)'
  BY <1>1, <1>2, <1>3 DEF TaskFits
<1> QED
  BY <1>0, <1>4

LEMMA RowTask ==
    ASSUME NEW of, NEW k \in {"live", "edit"}, NEW m \in Known(of)', m.conv \in Dms, NEW g \in Nat
    PROVE  TaskFits(Task(k, m.conv, "keys", g, <<m>>), of)'
<1>0. PICK t : t = Task(k, m.conv, "keys", g, <<m>>)
  OBVIOUS
<1>1. t.rows = <<m>> /\ t.kind = k /\ t.conv = m.conv /\ t.pc = "keys" /\ t.gen = g
  BY <1>0 DEF Task
<1>2. t \in TaskType(of)'
  <2> <<m>> \in Seq(Known(of)')
    OBVIOUS
  <2> QED
    BY <1>0 DEF TaskType, Task, Convs
<1>3. Len(<<m>>) = 1 /\ <<m>>[1] = m /\ 1 <= PageSize
  BY PageAssumption
<1>4. TaskFits(t, of)'
  BY <1>1, <1>2, <1>3 DEF TaskFits
<1> QED
  BY <1>0, <1>4

\* Outdated only marks tasks.
Marked(t) == [t EXCEPT !.old = TRUE]
LEMMA Outdating ==
    ASSUME NEW ts, NEW es
    PROVE  /\ \A u \in Outdated(ts, es) : \E t \in ts : u = t \/ u = Marked(t)
           /\ \A t \in ts : \E u \in Outdated(ts, es) : u = t \/ u = Marked(t)
  BY Zenon DEF Outdated, Marked

LEMMA MarkedTask ==
    ASSUME NEW of, NEW t \in TaskType(of)
    PROVE  /\ Marked(t) \in TaskType(of)
           /\ Marked(t).kind = t.kind /\ Marked(t).pc = t.pc /\ Marked(t).conv = t.conv
           /\ Marked(t).gen = t.gen /\ Marked(t).rows = t.rows
  BY DEF Marked, TaskType

\* Marking tasks as overtaken changes nothing else about them.
LEMMA OutdatedTasks ==
    ASSUME Counted, Grows, NEW of, DataFits(of), NEW es
    PROVE  /\ \A u \in Outdated(tasks, es) : TaskFits(u, of)'
           /\ \A t \in tasks : \E u \in Outdated(tasks, es) :
                 u.kind = t.kind /\ u.pc = t.pc /\ u.conv = t.conv /\ u.gen = t.gen
<1>1. ASSUME NEW u \in Outdated(tasks, es) PROVE TaskFits(u, of)'
  <2>1. PICK t \in tasks : u = t \/ u = Marked(t)
    BY Outdating
  <2>2. TaskFits(t, of) /\ t \in TaskType(of)
    BY DEF DataFits, TaskFits
  <2>3. TaskFits(u, of)
    BY <2>1, <2>2, MarkedTask DEF TaskFits
  <2> QED
    BY <2>3, TaskKept
<1>2. ASSUME NEW t \in tasks
      PROVE  \E u \in Outdated(tasks, es) :
                 u.kind = t.kind /\ u.pc = t.pc /\ u.conv = t.conv /\ u.gen = t.gen
  <2>1. PICK u \in Outdated(tasks, es) : u = t \/ u = Marked(t)
    BY Outdating
  <2>2. t \in TaskType(of)
    BY DEF DataFits, TaskFits
  <2> QED
    BY <2>1, <2>2, MarkedTask
<1> QED
  BY <1>1, <1>2

-----------------------------------------------------------------------------
(* The page the server reads *)

\* What the server answers: a page of stored rows of the conversation.
LEMMA PageSmall ==
    ASSUME Stored, NEW of, DataFits(of), NEW c, NEW cursor
    PROVE  /\ Page(c, cursor) \subseteq {m \in stored : m.conv = c}
           /\ IsFiniteSet(Page(c, cursor)) /\ Cardinality(Page(c, cursor)) \in 0..PageSize
<1> DEFINE P == Page(c, cursor)
           B == Before(c, cursor)
<1>1. P \subseteq B /\ B \subseteq {m \in stored : m.conv = c}
  BY DEF Page, Before
<1>2. IsFiniteSet(P) /\ IsFiniteSet(B) /\ Cardinality(P) \in Nat
  BY <1>1, FS_Subset, FS_CardinalityType DEF Stored
<1>3. \A m \in stored : m.id \in Nat
  BY DEF DataFits, Known, Msg
<1>4. CASE P = {}
  BY <1>1, <1>2, <1>4, FS_EmptySet, PageAssumption
<1>5. CASE P # {}
  <2> DEFINE ids == {m.id : m \in P}
  <2>1. ids \in SUBSET Nat /\ ids # {}
    BY <1>1, <1>3, <1>5
  <2>2. PICK x \in ids : \A i \in ids : ~(i < x)
    <3> HIDE DEF ids
    <3> QED
      BY <2>1, LeastNumber
  <2>3. PICK m0 \in P : m0.id = x
    OBVIOUS
  <2> DEFINE N == {m \in B : m.id > m0.id}
  <2>4. Cardinality(N) < PageSize
    BY DEF Page
  <2>5. P \ {m0} \subseteq N
    <3> SUFFICES ASSUME NEW m \in P, m # m0 PROVE m \in N
      OBVIOUS
    <3>1. m \in stored /\ m0 \in stored /\ m.id \in Nat /\ m0.id \in Nat /\ m.id # m0.id
      BY <1>1, <1>3 DEF Stored
    <3>2. ~(m.id < m0.id)
      BY <2>2, <2>3
    <3> QED
      BY <1>1, <3>1, <3>2
  <2> HIDE DEF P, B, N
  <2>6. IsFiniteSet(N) /\ Cardinality(N) \in Nat
    BY <1>2, FS_Subset, FS_CardinalityType DEF N
  <2>7. Cardinality(P \ {m0}) <= Cardinality(N)
    BY <2>5, <2>6, FS_Subset
  <2>8. Cardinality(P \ {m0}) = Cardinality(P) - 1
    BY <1>2, FS_RemoveElement
  <2>9. Cardinality(P) \in 0..PageSize
    BY <1>2, <2>4, <2>6, <2>7, <2>8, PageAssumption
  <2> QED
    BY <1>1, <1>2, <2>9 DEF P
<1> QED
  BY <1>4, <1>5

LEMMA PageRows ==
    ASSUME Stored, NEW of, DataFits(of), NEW c, NEW cursor, NEW rows \in Orders(Page(c, cursor))
    PROVE  /\ rows \in Seq(Known(of)) /\ Len(rows) <= PageSize
           /\ \A k \in 1..Len(rows) : rows[k].conv = c
<1> DEFINE P == Page(c, cursor)
           n == Cardinality(P)
<1>1. P \subseteq Known(of) /\ (\A m \in P : m.conv = c) /\ n \in 0..PageSize
  BY PageSmall DEF DataFits
<1>2. rows \in [1..n -> P]
  BY DEF Orders
<1> HIDE DEF P, n
<1>3. n \in Nat /\ n <= PageSize
  BY <1>1, PageAssumption
<1>4. rows \in Seq(P) /\ Len(rows) = n
  BY <1>2, <1>3
<1> QED
  BY <1>1, <1>2, <1>3, <1>4

-----------------------------------------------------------------------------
(* The data of the page after each action *)

\* A new message fixes the conversation of its id once and for all.
LEMMA SendData ==
    ASSUME Counted, NEW of \in [Nat -> Convs], DataFits(of), NEW c \in Convs, Send(c)
    PROVE  \E f \in [Nat -> Convs] : DataFits(f)'
<1> sent \in Nat /\ sent' = sent + 1 /\ trouble \in Nat /\ trouble' = trouble
  BY DEF Counted, Send, counts
<1>1. PICK i \in Nat : i = sent + 1
  OBVIOUS
<1>2. PICK f \in [Nat -> Convs] : f = [of EXCEPT ![i] = c]
  OBVIOUS
<1>3. Known(of) = Known(f)
  <2> \A m \in Msg : m.id \in 1..sent => of[m.id] = f[m.id]
    BY <1>1, <1>2
  <2> QED
    BY DEF Known
<1>4. DataFits(f)
  BY <1>3 DEF DataFits, Placeable, TaskFits, TaskType, EventType
<1>5. Grows
  BY DEF Grows
<1>6. PICK m \in Msg : m = Message(i, c, 0)
  BY DEF Msg, Message
<1>7. m \in Known(f)'
  BY <1>1, <1>2, <1>6 DEF Known, Msg, Message
<1>8. \A x \in stored' : x \in stored \/ x \in Known(f)'
  BY <1>1, <1>6, <1>7 DEF Send
<1>9. \A e \in events' : e \in events \/ e \in EventType(f)'
  BY <1>1, <1>6, <1>7 DEF Send, EventType
<1>10. list' \in Lists(Placeable(f)')
  BY <1>4, <1>5, ListKept DEF Send, view, screen, Leaving
<1>11. \A t \in tasks' : t \in tasks \/ TaskFits(t, f)'
  BY DEF Send
<1>12. DataFits(f)'
  BY <1>4, <1>5, <1>8, <1>9, <1>10, <1>11, DataKept
<1> QED
  BY <1>12, Zenon

\* A message that is edited or deleted stays where it belongs.
LEMMA EditData ==
    ASSUME Counted, NEW of, DataFits(of), NEW m \in stored, Edit(m) \/ Delete(m)
    PROVE  DataFits(of)'
<1> sent \in Nat /\ sent' = sent /\ trouble \in Nat /\ trouble' = trouble + 1
  BY DEF Counted, Edit, Delete
<1>1. Grows
  BY DEF Grows
<1>2. m \in Known(of)
  BY DEF DataFits
<1>3. PICK n : n = [m EXCEPT !.ver = @ + 1]
  OBVIOUS
<1>4. n \in Known(of)'
  BY <1>2, <1>3 DEF Known, Msg
<1>5. \A x \in stored' : x \in stored \/ x \in Known(of)'
  BY <1>3, <1>4 DEF Edit, Delete
<1>6. \A e \in events' : e \in events \/ e \in EventType(of)'
  BY <1>3, <1>4 DEF Edit, Delete, EventType
<1>7. list' \in Lists(Placeable(of)')
  BY <1>1, ListKept DEF Edit, Delete, view, screen, Leaving
<1>8. \A t \in tasks' : t \in tasks \/ TaskFits(t, of)'
  BY DEF Edit, Delete
<1> QED
  BY <1>1, <1>5, <1>6, <1>7, <1>8, DataKept

\* Steps that store nothing.
Reads == Counted /\ sent' = sent /\ trouble' \in {trouble, trouble + 1} /\ stored' = stored

LEMMA ReadsGrow == ASSUME Reads PROVE Grows /\ Counted
  BY DEF Reads, Counted, Grows

\* The list is emptied.
LEMMA EmptiedData ==
    ASSUME Reads, NEW of, DataFits(of), events' \subseteq events, list' = <<>>,
           \A t \in tasks' : t \in tasks \/ TaskFits(t, of)'
    PROVE  DataFits(of)'
<1>1. list' \in Lists(Placeable(of)')
  BY EmptyList
<1> QED
  BY <1>1, ReadsGrow, DataKept DEF Reads

\* The list stays, and so does what is open, or the user is leaving.
LEMMA ShownData ==
    ASSUME Reads, NEW of, DataFits(of), events' \subseteq events, list' = list,
           chan' = chan \/ Leaving', Leaving => Leaving',
           \A t \in tasks' : t \in tasks \/ TaskFits(t, of)'
    PROVE  DataFits(of)'
<1>1. list' \in Lists(Placeable(of)')
  BY ReadsGrow, ListKept
<1> QED
  BY <1>1, ReadsGrow, DataKept DEF Reads

\* The actions keep what is known about rows (the lemmas ...Data).
LEMMA OpenData ==
    ASSUME Counted, NEW of, DataFits(of),
           \/ \E c \in Channels : OpenChannel(c)
           \/ \E c \in Dms : OpenDm(c)
           \/ EnterDms \/ OpenServer
    PROVE  DataFits(of)'
<1> Reads
  BY DEF Reads, OpenChannel, OpenDm, EnterDms, OpenServer, db
<1>1. ASSUME NEW c \in Convs, Load(c, tasks), UNCHANGED db PROVE DataFits(of)'
  <2>1. loads' \in Nat /\ list' = <<>> /\ tasks' = tasks \cup {Task("load", c, "ask", loads', <<>>)}
    BY <1>1 DEF Load, Show, Counted
  <2>2. PICK g \in Nat : g = loads'
    BY <2>1
  <2>3. TaskFits(Task("load", c, "ask", g, <<>>), of)'
    BY NewTask
  <2> QED
    BY <1>1, <2>1, <2>2, <2>3, EmptiedData DEF db
<1>2. ASSUME NEW c \in Channels, OpenChannel(c) PROVE DataFits(of)'
  BY <1>1, <1>2 DEF OpenChannel, Convs, db
<1>3. ASSUME NEW c \in Dms, OpenDm(c) PROVE DataFits(of)'
  BY <1>1, <1>3 DEF OpenDm, Convs, db
<1>4. ASSUME EnterDms PROVE DataFits(of)'
  BY <1>4, EmptiedData DEF EnterDms, Replace, db
<1>5. ASSUME OpenServer PROVE DataFits(of)'
  <2>1. moves' \in Nat /\ list' = list /\ events' = events
        /\ tasks' = tasks \cup {Task("server", None, "roles", moves', <<>>)}
    BY <1>5 DEF OpenServer, Counted, screen, db
  <2>2. PICK g \in Nat : g = moves'
    BY <2>1
  <2>3. PICK t : t = Task("server", None, "roles", g, <<>>)
    OBVIOUS
  <2>4. TaskFits(t, of)'
    BY <2>3, NewTask
  <2>5. t \in tasks' /\ t.kind = "server" /\ t.pc = "roles"
    BY <2>1, <2>2, <2>3 DEF Task
  <2>6. Leaving'
    BY <2>5 DEF Leaving
  <2> QED
    BY <2>1, <2>2, <2>3, <2>4, <2>6, ShownData
<1> QED
  BY <1>2, <1>3, <1>4, <1>5

\* Tasks that go on.
LEMMA Advanced ==
    ASSUME NEW of, NEW t, TaskFits(t, of),
           NEW p \in {"answer", "keys", "channels"}, p = "keys" => t.conv \in Dms,
           t.kind \notin {"live", "edit"}
    PROVE  TaskFits([t EXCEPT !.pc = p], of)
<1>1. PICK u : u = [t EXCEPT !.pc = p]
  OBVIOUS
<1>2. /\ u \in TaskType(of) /\ u.pc = p /\ u.kind = t.kind /\ u.conv = t.conv
      /\ u.rows = t.rows
  BY <1>1 DEF TaskFits, TaskType
<1>3. TaskFits(u, of)
  BY <1>2 DEF TaskFits
<1> QED
  BY <1>1, <1>3

\* Whoever is on the way out of the channel still is.
LEMMA StillLeaving ==
    ASSUME NEW t, tasks \ {t} \subseteq tasks', t.kind # "server" \/ t.pc # "roles"
    PROVE  Leaving => Leaving'
  BY DEF Leaving

\* The rows of a task whose conversation is open, or is a direct one.
LEMMA RowsPlaced ==
    ASSUME Counted, Grows, NEW of, NEW t, TaskFits(t, of),
           t.conv \in Dms \/ chan' = t.conv
    PROVE  t.rows \in Seq(Placeable(of)')
<1>1. /\ t.rows \in Seq(Known(of)) /\ Len(t.rows) \in Nat
      /\ \A k \in 1..Len(t.rows) : t.rows[k].conv = t.conv
  BY DEF TaskFits, TaskType
<1>2. ASSUME NEW k \in 1..Len(t.rows) PROVE t.rows[k] \in Placeable(of)'
  <2>1. t.rows[k] \in Known(of)'
    BY <1>1, KnownGrows
  <2>2. Placed(t.rows[k])'
    BY <1>1, ConversationAssumption DEF Placed
  <2> QED
    BY <2>1, <2>2 DEF Placeable
<1> QED
  BY <1>1, <1>2

\* The conversation of a task that is not stale.
LEMMA OpenConv ==
    ASSUME PageTyped, NEW t, t.conv \in Convs, ~Stale(t)
    PROVE  t.conv \in Dms \/ chan = t.conv
  BY ConversationAssumption DEF PageTyped, Stale, Current, Convs

\* Rows from the database are read, or a task ends or goes on, and the list
\* is as it was.
LEMMA QuietData ==
    ASSUME Counted, Stored, PageTyped, NEW of, DataFits(of), NEW t \in tasks,
           \/ Read(t) \/ MoreStale(t) \/ MoreAwaitsKey(t) \/ MoreFails(t)
    PROVE  DataFits(of)'
<1>0. TaskFits(t, of) /\ t \in TaskType(of)
  BY DEF DataFits, TaskFits
<1>1. Reads /\ list' = list /\ chan' = chan /\ events' = events
  BY DEF Reads, Read, MoreStale, MoreAwaitsKey, MoreFails, db, screen, counts, view
<1>2. (Leaving => Leaving') /\ \A u \in tasks' : u \in tasks \/ TaskFits(u, of)'
  <2>1. CASE Read(t)
    <3>1. PICK cursor :
            \E rows \in Orders(Page(t.conv, cursor)) :
                tasks' = (tasks \ {t}) \cup {[t EXCEPT !.pc = "answer", !.rows = rows]}
      BY <2>1 DEF Read, Becomes
    <3>8. PICK rows \in Orders(Page(t.conv, cursor)) :
                tasks' = (tasks \ {t}) \cup {[t EXCEPT !.pc = "answer", !.rows = rows]}
      BY <3>1
    <3>2. /\ rows \in Seq(Known(of)) /\ Len(rows) <= PageSize
          /\ \A k \in 1..Len(rows) : rows[k].conv = t.conv
      BY PageRows
    <3>3. PICK u : u = [t EXCEPT !.pc = "answer", !.rows = rows]
      OBVIOUS
    <3>4. /\ u \in TaskType(of) /\ u.pc = "answer" /\ u.kind = t.kind /\ u.conv = t.conv
          /\ u.rows = rows
      BY <1>0, <3>2, <3>3 DEF TaskType
    <3>5. t.pc = "ask"
      BY <2>1 DEF Read
    <3>6. TaskFits(u, of)
      BY <1>0, <3>2, <3>4, <3>5 DEF TaskFits
    <3>7. TaskFits(u, of)'
      BY <1>1, <3>6, ReadsGrow, TaskKept
    <3> QED
      BY <3>8, <3>3, <3>5, <3>7, StillLeaving
  <2>2. CASE MoreStale(t) \/ MoreFails(t)
    <3>1. tasks' = tasks \ {t} /\ t.kind = "more"
      BY <2>2 DEF MoreStale, MoreFails, Ends
    <3> QED
      BY <3>1, StillLeaving
  <2>3. CASE MoreAwaitsKey(t)
    <3>1. /\ tasks' = (tasks \ {t}) \cup {[t EXCEPT !.pc = "keys"]} /\ t.kind = "more"
          /\ t.conv \in Dms
      BY <2>3 DEF MoreAwaitsKey, Becomes
    <3>2. TaskFits([t EXCEPT !.pc = "keys"], of)
      BY <1>0, <3>1, Advanced
    <3>3. PICK u : u = [t EXCEPT !.pc = "keys"]
      OBVIOUS
    <3>4. TaskFits(u, of)'
      BY <1>1, <3>2, <3>3, ReadsGrow, TaskKept
    <3> QED
      BY <3>1, <3>3, <3>4, StillLeaving
  <2> QED
    BY <2>1, <2>2, <2>3
<1> QED
  BY <1>1, <1>2, ShownData

\* The rows of a task are rendered and the task ends.
LEMMA RenderData ==
    ASSUME Counted, PageTyped, NEW of, DataFits(of), NEW t \in tasks,
           \/ MoreLoaded(t) \/ MoreRenders(t) \/ DmNewRenders(t) \/ DmEditRenders(t)
    PROVE  DataFits(of)'
<1>0. TaskFits(t, of) /\ t \in TaskType(of)
  BY DEF DataFits, TaskFits
<1>1. /\ Reads /\ chan' = chan /\ events' = events /\ stored' = stored
      /\ tasks' = tasks \ {t} /\ t.kind \in {"more", "live", "edit"}
  BY DEF Reads, MoreLoaded, MoreRenders, DmNewRenders, DmEditRenders, db, counts, view, Ends
<1>2. Grows /\ (Leaving => Leaving')
  BY <1>1, ReadsGrow, StillLeaving
<1>3. list \in Lists(Placeable(of)')
  BY <1>1, <1>2, PlacesKept, BiggerLists DEF DataFits
<1>4. t.conv \in Dms \/ chan' = t.conv
  <2>1. CASE MoreLoaded(t)
    BY <1>0, <1>1, <2>1, OpenConv DEF MoreLoaded, TaskFits
  <2>2. CASE MoreRenders(t) \/ DmNewRenders(t) \/ DmEditRenders(t)
    BY <1>0, <2>2 DEF MoreRenders, DmNewRenders, DmEditRenders, TaskFits
  <2> QED
    BY <2>1, <2>2
<1>5. t.rows \in Seq(Placeable(of)')
  BY <1>0, <1>2, <1>4, RowsPlaced
<1>6. list' \in Lists(Placeable(of)')
  <2>1. PICK S : S = Placeable(of)'
    OBVIOUS
  <2>2. list \in Lists(S) /\ t.rows \in Seq(S)
    BY <1>3, <1>5, <2>1
  <2>3. CASE MoreLoaded(t) \/ MoreRenders(t)
    <3>1. list' = AllPrepended(list, t.rows)
      BY <2>3 DEF MoreLoaded, MoreRenders, Show
    <3> QED
      BY <2>1, <2>2, <3>1, PrependedList
  <2>4. CASE DmNewRenders(t) \/ DmEditRenders(t)
    <3>1. list' = Rendered(list, t.rows[1]) \/ list' = EditedRow(list, t.rows[1])
      BY <2>4 DEF DmNewRenders, DmEditRenders, Show
    <3>2. t.rows[1] \in S
      BY <1>0, <2>2, <2>4 DEF DmNewRenders, DmEditRenders, TaskFits
    <3> QED
      BY <2>1, <2>2, <3>1, <3>2, AddedList, EditedList
  <2> QED
    BY <2>3, <2>4
<1> QED
  BY <1>1, <1>2, <1>6, DataKept

\* The answer of a load, and its end.
LEMMA LoadData ==
    ASSUME Counted, PageTyped, NEW of, DataFits(of), NEW t \in tasks,
           ChannelLoaded(t) \/ DmLoaded(t) \/ DmLoadRenders(t) \/ LoadFails(t)
    PROVE  DataFits(of)'
<1>0. TaskFits(t, of) /\ t \in TaskType(of)
  BY DEF DataFits, TaskFits
<1>1. /\ Reads /\ chan' = chan /\ events' = events /\ stored' = stored
      /\ tasks \ {t} \subseteq tasks' /\ t.kind = "load"
  BY DEF Reads, ChannelLoaded, DmLoaded, DmLoadRenders, LoadFails, db, counts, view, Ends, Becomes
<1>2. Grows /\ (Leaving => Leaving')
  BY <1>1, ReadsGrow, StillLeaving
<1>3. list \in Lists(Placeable(of)')
  BY <1>1, <1>2, PlacesKept, BiggerLists DEF DataFits
<1>4. \A u \in tasks' : u \in tasks \/ TaskFits(u, of)'
  <2>1. CASE tasks' = tasks \ {t}
    BY <2>1
  <2>2. CASE DmLoaded(t) /\ tasks' # tasks \ {t}
    <3>1. tasks' = (tasks \ {t}) \cup {[t EXCEPT !.pc = "keys"]} /\ t.conv \in Dms
      BY <2>2 DEF DmLoaded, Becomes, Ends
    <3>2. TaskFits([t EXCEPT !.pc = "keys"], of)
      BY <1>0, <1>1, <3>1, Advanced
    <3>3. PICK u : u = [t EXCEPT !.pc = "keys"]
      OBVIOUS
    <3>4. TaskFits(u, of)'
      BY <1>1, <3>2, <3>3, ReadsGrow, TaskKept
    <3> QED
      BY <3>1, <3>3, <3>4
  <2> QED
    BY <2>1, <2>2 DEF ChannelLoaded, DmLoadRenders, LoadFails, Ends
<1>5. list' \in Lists(Placeable(of)')
  <2>1. CASE list' = list
    BY <1>3, <2>1
  <2>2. CASE list' = <<>>
    BY <2>2, EmptyList
  <2>3. CASE ChannelLoaded(t) /\ list' = AllRendered(<<>>, t.rows) /\ ~Stale(t)
    <3>1. t.conv \in Dms \/ chan' = t.conv
      BY <1>0, <1>1, <2>3, OpenConv DEF TaskFits
    <3>2. t.rows \in Seq(Placeable(of)')
      BY <1>0, <1>2, <3>1, RowsPlaced
    <3>3. PICK S : S = Placeable(of)'
      OBVIOUS
    <3> QED
      BY <2>3, <3>2, <3>3, EmptyList, RenderedList
  <2>4. CASE DmLoadRenders(t) /\ list' = AllRendered(list, t.rows)
    <3>1. t.rows \in Seq(Placeable(of)')
      BY <1>0, <1>2, <2>4, RowsPlaced DEF DmLoadRenders, TaskFits
    <3>2. PICK S : S = Placeable(of)'
      OBVIOUS
    <3> QED
      BY <1>3, <2>4, <3>1, <3>2, RenderedList
  <2> QED
    BY <2>1, <2>2, <2>3, <2>4
    DEF ChannelLoaded, DmLoaded, DmLoadRenders, LoadFails, FailsLoudly, Show, Replace, screen
<1> QED
  BY <1>1, <1>2, <1>4, <1>5, DataKept

\* The later parts of selectServer and of a reconnection.
LEMMA ServerData ==
    ASSUME Counted, NEW of, DataFits(of), NEW t \in tasks,
           ServerShown(t) \/ ChannelsLoaded(t) \/ Recheck(t), PageTyped
    PROVE  DataFits(of)'
<1>0. TaskFits(t, of) /\ t \in TaskType(of)
  BY DEF DataFits, TaskFits
<1>1. Reads /\ events' = events
  BY DEF Reads, ServerShown, ChannelsLoaded, Recheck, db, counts
<1>2. CASE ServerShown(t)
  <2>1. /\ tasks' = (tasks \ {t}) \cup {[t EXCEPT !.pc = "channels"]} /\ list' = <<>>
        /\ t.kind = "server"
    BY <1>2 DEF ServerShown, Becomes, Replace
  <2>2. TaskFits([t EXCEPT !.pc = "channels"], of)
    BY <1>0, <2>1, Advanced
  <2>3. PICK u : u = [t EXCEPT !.pc = "channels"]
    OBVIOUS
  <2>4. TaskFits(u, of)'
    BY <1>1, <2>2, <2>3, ReadsGrow, TaskKept
  <2> QED
    BY <1>1, <2>1, <2>3, <2>4, EmptiedData
<1>3. ASSUME NEW c \in Convs, Load(c, tasks \ {t}) PROVE DataFits(of)'
  <2>1. /\ loads' \in Nat /\ list' = <<>>
        /\ tasks' = (tasks \ {t}) \cup {Task("load", c, "ask", loads', <<>>)}
    BY <1>3 DEF Load, Show, Counted
  <2>2. PICK g \in Nat : g = loads'
    BY <2>1
  <2>3. TaskFits(Task("load", c, "ask", g, <<>>), of)'
    BY NewTask
  <2> QED
    BY <1>1, <2>1, <2>2, <2>3, EmptiedData
<1>4. CASE tasks' = tasks \ {t} /\ list' = list /\ chan' = chan /\ ~ServerShown(t)
  <2>1. t.kind # "server" \/ t.pc # "roles"
    BY <1>4 DEF ChannelsLoaded, Recheck
  <2>2. Leaving => Leaving'
    BY <1>4, <2>1, StillLeaving
  <2> QED
    BY <1>1, <1>4, <2>2, ShownData
<1>5. CASE ChannelsLoaded(t)
  BY <1>3, <1>4, <1>5, ConversationAssumption DEF ChannelsLoaded, Ends, screen, ServerShown, Convs
<1>6. CASE Recheck(t)
  BY <1>3, <1>4, <1>6 DEF Recheck, Ends, screen, view, ServerShown, Convs, PageTyped
<1> QED
  BY <1>2, <1>5, <1>6

LEMMA ScrollData ==
    ASSUME Counted, PageTyped, pag \in [Convs -> PagType], NEW of, DataFits(of), Scroll
    PROVE  DataFits(of)'
<1>1. /\ Reads /\ chan' = chan /\ events' = events /\ list' = list /\ listener \in Convs
      /\ tasks' = tasks \cup {Task("more", listener, "ask", pag[listener].gen, <<>>)}
  BY DEF Reads, Scroll, db, view, screen, PageTyped
<1>2. PICK c \in Convs, g \in Nat : c = listener /\ g = pag[listener].gen
  BY <1>1 DEF PagType
<1>3. TaskFits(Task("more", c, "ask", g, <<>>), of)'
  BY NewTask
<1>4. Leaving => Leaving'
  BY <1>1 DEF Leaving
<1> QED
  BY <1>1, <1>2, <1>3, <1>4, ShownData

LEMMA ReconnectData ==
    ASSUME Counted, NEW of, DataFits(of), NEW lost \in SUBSET events, Reconnect(lost)
    PROVE  DataFits(of)'
<1>1. /\ Reads /\ chan' = chan /\ events' \subseteq events /\ list' = list
      /\ tasks' = Outdated(tasks, lost) \cup {Task("recheck", None, "timer", trouble', <<>>)}
      /\ trouble' \in Nat
  BY DEF Reads, Reconnect, view, Counted
<1>2. PICK g \in Nat : g = trouble'
  BY <1>1
<1>3. TaskFits(Task("recheck", None, "timer", g, <<>>), of)'
  BY NewTask
<1>4. /\ \A u \in Outdated(tasks, lost) : TaskFits(u, of)'
      /\ \A t \in tasks : \E u \in Outdated(tasks, lost) : u.kind = t.kind /\ u.pc = t.pc
  BY <1>1, ReadsGrow, OutdatedTasks
<1>5. Leaving => Leaving'
  BY <1>1, <1>4 DEF Leaving
<1> QED
  BY <1>1, <1>2, <1>3, <1>4, <1>5, ShownData

\* Live events.
LEMMA EventData ==
    ASSUME Counted, PageTyped, NEW of, DataFits(of), NEW e \in events, Event(e)
    PROVE  DataFits(of)'
<1>0. e.msg \in Known(of) /\ e.msg.conv \in Convs /\ e.msg.ver \in Nat
  BY DEF DataFits, EventType, Known, Msg
<1>1. /\ Reads /\ chan' = chan /\ events' \subseteq events /\ stored' = stored
      /\ Outdated(tasks, {e}) \subseteq tasks'
  BY DEF Reads, Event, ChannelNew, DmNew, Edited, Deleted, view, counts, Handles
<1>2. Grows
  BY <1>1, ReadsGrow
<1>3. /\ \A u \in Outdated(tasks, {e}) : TaskFits(u, of)'
      /\ \A t \in tasks : \E u \in Outdated(tasks, {e}) : u.kind = t.kind /\ u.pc = t.pc
  BY <1>1, ReadsGrow, OutdatedTasks
<1>4. Leaving => Leaving'
  BY <1>1, <1>3 DEF Leaving
<1>5. list \in Lists(Placeable(of)')
  BY <1>1, <1>2, <1>4, PlacesKept, BiggerLists DEF DataFits
<1>6. PICK m \in Known(of)' : m = e.msg
  BY <1>0, <1>2, KnownGrows
<1>7. \A u \in tasks' : u \in tasks \/ TaskFits(u, of)'
  <2>1. CASE tasks' = Outdated(tasks, {e})
    BY <1>3, <2>1
  <2>2. CASE DmNew(e) /\ tasks' = Outdated(tasks, {e}) \cup {Task("live", e.msg.conv, "keys", 0, <<e.msg>>)}
    BY <1>3, <1>6, <2>2, RowTask DEF DmNew
  <2>3. CASE /\ Edited(e) /\ e.msg.conv \notin Channels
             /\ tasks' = Outdated(tasks, {e}) \cup {Task("edit", e.msg.conv, "keys", e.msg.ver, <<e.msg>>)}
    <3>1. m.conv \in Dms
      BY <1>0, <1>6, <2>3 DEF Convs
    <3> QED
      BY <1>0, <1>3, <1>6, <2>3, <3>1, RowTask
  <2> QED
    BY <2>1, <2>2, <2>3 DEF Event, ChannelNew, DmNew, Edited, Deleted
<1>8. list' \in Lists(Placeable(of)')
  <2>1. PICK S : S = Placeable(of)'
    OBVIOUS
  <2>2. list \in Lists(S)
    BY <1>5, <2>1
  <2>3. CASE list' = list
    BY <1>5, <2>3
  <2>4. CASE ChannelNew(e) /\ list' = Rendered(list, e.msg) /\ Current(e.msg.conv)
    <3>1. Placed(m)'
      BY <1>1, <1>6, <2>4, ConversationAssumption DEF Placed, Current, PageTyped, ChannelNew
    <3>2. m \in S
      BY <2>1, <3>1 DEF Placeable
    <3> QED
      BY <1>6, <2>1, <2>2, <2>4, <3>2, AddedList
  <2>5. CASE list' = EditedRow(list, e.msg)
    <3>1. ASSUME NEW k \in DOMAIN list, list[k].id = m.id PROVE m \in S
      <4>1. PICK x \in Placeable(of)' : x = list[k]
        BY <2>1, <2>2, OfList
      <4>2. x.conv = m.conv
        BY <3>1, <4>1 DEF Placeable, Known
      <4>3. Placed(x)' => Placed(m)'
        BY <4>2 DEF Placed
      <4> QED
        BY <2>1, <4>1, <4>3 DEF Placeable
    <3> QED
      BY <1>6, <2>1, <2>2, <2>5, <3>1, EditedList
  <2>6. CASE list' = Without(list, e.msg.id)
    BY <2>1, <2>2, <2>6, ShortenedList
  <2> QED
    BY <2>3, <2>4, <2>5, <2>6 DEF Event, ChannelNew, DmNew, Edited, Deleted, Show, screen
<1> QED
  BY <1>1, <1>2, <1>7, <1>8, DataKept

-----------------------------------------------------------------------------
(* The pagination objects *)

\* A request is under way for each pagination object that says so.
Asks(S, c, g) == \E t \in S : t.kind = "more" /\ t.conv = c /\ t.gen = g
PagOK == pag \in [Convs -> PagType] /\ MoreNotStuck

\* The pagination objects: types, and no busy flag without its request.
LEMMA CursorTyped ==
    ASSUME NEW of, NEW p \in PagType, NEW rows \in Seq(Known(of))
    PROVE  /\ Cursor(p, rows) \in PagType
           /\ Cursor(p, rows).busy = p.busy /\ Cursor(p, rows).gen = p.gen
<1>1. rows # <<>> => rows[1].id \in Nat
  <2> rows # <<>> => rows[1] \in Known(of)
    OBVIOUS
  <2> QED
    BY DEF Known, Msg
<1>2. LastPage(rows) \in BOOLEAN
  BY DEF LastPage
<1> QED
  BY <1>1, <1>2 DEF Cursor, PagType

LEMMA PagStep ==
    ASSUME Counted, PageTyped, PagOK, NEW of, DataFits(of), [Next]_vars
    PROVE  PagOK'
<1>0. pag \in [Convs -> PagType] /\ \A c \in Convs : pag[c].busy => Asks(tasks, c, pag[c].gen)
  BY DEF PagOK, MoreNotStuck, Asks
<1> DEFINE Keeps == \A x \in tasks : x.kind = "more" => x \in tasks'
<1>1. ASSUME pag' \in [Convs -> PagType],
             \A c \in Convs : pag'[c].busy => Asks(tasks', c, pag'[c].gen)
      PROVE  PagOK'
  BY <1>1 DEF PagOK, MoreNotStuck, Asks
<1>2. ASSUME Keeps, pag' = pag PROVE PagOK'
  BY <1>0, <1>1, <1>2 DEF Asks
<1>3. ASSUME Keeps, NEW c \in Convs, NEW p \in PagType, pag' = [pag EXCEPT ![c] = p],
             p.busy = FALSE \/ (p.busy = pag[c].busy /\ p.gen = pag[c].gen)
      PROVE  PagOK'
  BY <1>0, <1>1, <1>3 DEF Asks
<1>4. ASSUME NEW t \in tasks, t.conv \in Convs, tasks' = tasks \ {t},
             NEW p \in PagType, p.busy = FALSE, Pagination(t, p)
      PROVE  PagOK'
  BY <1>0, <1>1, <1>4 DEF Pagination, Asks
<1>5. ASSUME NEW t \in tasks, t.conv \in Convs, NEW u, tasks' = (tasks \ {t}) \cup {u},
             u.kind = t.kind, u.conv = t.conv, u.gen = t.gen,
             NEW p \in PagType, p.busy = pag[t.conv].busy, p.gen = pag[t.conv].gen,
             pag' = pag \/ pag' = [pag EXCEPT ![t.conv] = p]
      PROVE  PagOK'
  BY <1>0, <1>1, <1>5 DEF Asks
<1>6. ASSUME NEW es, Outdated(tasks, es) \subseteq tasks', pag' = pag
      PROVE  PagOK'
  <2>1. ASSUME NEW c \in Convs, pag'[c].busy PROVE Asks(tasks', c, pag'[c].gen)
    <3>1. PICK t \in tasks : t.kind = "more" /\ t.conv = c /\ t.gen = pag[c].gen
      BY <1>0, <1>6, <2>1 DEF Asks
    <3>2. PICK u \in Outdated(tasks, es) : u = t \/ u = Marked(t)
      BY Outdating
    <3>3. u.kind = t.kind /\ u.conv = t.conv /\ u.gen = t.gen
      BY <3>2, MarkedTask DEF DataFits, TaskFits
    <3> QED
      BY <1>6, <3>1, <3>2, <3>3 DEF Asks
  <2> QED
    BY <1>0, <1>1, <1>6, <2>1
<1>7. ASSUME NEW c \in Convs, NEW t, t.kind # "more",
             Load(c, tasks) \/ Load(c, tasks \ {t})
      PROVE  PagOK'
  <2>1. loads' \in Nat /\ Keeps
    BY <1>7 DEF Load, Counted
  <2>2. PICK g \in Nat : g = loads'
    BY <2>1
  <2>3. PICK p \in PagType :
           p = [gen |-> g, oldest |-> 0, more |-> TRUE, busy |-> FALSE, mixed |-> FALSE]
    BY DEF PagType
  <2> QED
    BY <1>3, <1>7, <2>1, <2>2, <2>3 DEF Load
<1> HIDE DEF Keeps
<1>8. CASE UNCHANGED vars
  BY <1>2, <1>8 DEF vars, Keeps
<1>9. CASE Server
  BY <1>2, <1>9 DEF Server, Send, Edit, Delete, Keeps
<1>10. CASE User
  <2>1. PICK t : t.kind # "more"
    <3>1. PICK t : t = [kind |-> "none"]
      OBVIOUS
    <3> QED
      BY <3>1
  <2>2. ASSUME NEW c \in Channels, OpenChannel(c) PROVE PagOK'
    <3> c \in Convs /\ Load(c, tasks)
      BY <2>2 DEF OpenChannel, Convs
    <3> QED
      BY <1>7, <2>1
  <2>3. ASSUME NEW c \in Dms, OpenDm(c) PROVE PagOK'
    <3> c \in Convs /\ Load(c, tasks)
      BY <2>3 DEF OpenDm, Convs
    <3> QED
      BY <1>7, <2>1
  <2>4. CASE EnterDms \/ OpenServer
    BY <1>2, <2>4 DEF EnterDms, OpenServer, Keeps
  <2>5. CASE Scroll
    <3>1. /\ listener \in Convs /\ pag' = [pag EXCEPT ![listener].busy = TRUE]
          /\ tasks' = tasks \cup {Task("more", listener, "ask", pag[listener].gen, <<>>)}
      BY <2>5 DEF Scroll, PageTyped
    <3>2. /\ pag' \in [Convs -> PagType]
          /\ \A c \in Convs : pag'[c].gen = pag[c].gen
          /\ \A c \in Convs : c # listener => pag'[c].busy = pag[c].busy
      BY <1>0, <3>1 DEF PagType
    <3>3. Asks(tasks', listener, pag[listener].gen)
      <4>1. PICK x : x = Task("more", listener, "ask", pag[listener].gen, <<>>)
        OBVIOUS
      <4>2. x \in tasks'
        BY <3>1, <4>1
      <4>3. x.kind = "more" /\ x.conv = listener /\ x.gen = pag[listener].gen
        BY <4>1 DEF Task
      <4> QED
        BY <4>2, <4>3 DEF Asks
    <3>4. \A c \in Convs : Asks(tasks, c, pag[c].gen) => Asks(tasks', c, pag[c].gen)
      BY <3>1 DEF Asks
    <3> QED
      BY <1>0, <1>1, <3>2, <3>3, <3>4
  <2> QED
    BY <1>10, <2>2, <2>3, <2>4, <2>5 DEF User
<1>11. ASSUME NEW e \in events, Event(e) PROVE PagOK'
  <2>1. Outdated(tasks, {e}) \subseteq tasks' /\ pag' = pag
    BY <1>11 DEF Event, ChannelNew, DmNew, Edited, Deleted
  <2> QED
    BY <1>6, <2>1
<1>12. ASSUME NEW lost \in SUBSET events, Reconnect(lost) PROVE PagOK'
  <2>1. Outdated(tasks, lost) \subseteq tasks' /\ pag' = pag
    BY <1>12 DEF Reconnect
  <2> QED
    BY <1>6, <2>1
<1>13. ASSUME NEW t \in tasks, TaskStep(t) \/ LoadFails(t) \/ MoreFails(t) PROVE PagOK'
  <2>0. TaskFits(t, of) /\ t \in TaskType(of) /\ t.rows \in Seq(Known(of))
    BY DEF DataFits, TaskFits, TaskType
  <2>1. CASE Read(t)
    <3>1. t.conv \in Convs /\ pag' = pag
      BY <2>0, <2>1 DEF Read, TaskFits
    <3>2. PICK rows : tasks' = (tasks \ {t}) \cup {[t EXCEPT !.pc = "answer", !.rows = rows]}
      BY <2>1 DEF Read, Becomes
    <3>3. PICK u : u = [t EXCEPT !.pc = "answer", !.rows = rows]
      OBVIOUS
    <3>4. u.kind = t.kind /\ u.conv = t.conv /\ u.gen = t.gen
      BY <2>0, <3>3 DEF TaskType
    <3>5. PICK p \in PagType : p = pag[t.conv]
      BY <1>0, <3>1
    <3> QED
      BY <1>5, <3>1, <3>2, <3>3, <3>4, <3>5
  <2>2. CASE ServerShown(t) \/ DmLoadRenders(t) \/ DmNewRenders(t) \/ DmEditRenders(t) \/ LoadFails(t)
    BY <1>2, <2>2 DEF ServerShown, DmLoadRenders, DmNewRenders, DmEditRenders, LoadFails,
                      Keeps, Becomes, Ends
  <2>3. CASE ChannelsLoaded(t)
    <3>1. t.kind # "more" /\ First \in Convs
      BY <2>3, ConversationAssumption DEF ChannelsLoaded, Convs
    <3>2. CASE Ends(t) /\ pag' = pag
      BY <1>2, <3>1, <3>2 DEF Keeps, Ends
    <3> QED
      BY <1>7, <2>3, <3>1, <3>2 DEF ChannelsLoaded
  <2>4. CASE Recheck(t)
    <3>1. t.kind # "more"
      BY <2>4 DEF Recheck
    <3>2. CASE Ends(t) /\ pag' = pag
      BY <1>2, <3>1, <3>2 DEF Keeps, Ends
    <3> QED
      BY <1>7, <2>4, <3>1, <3>2 DEF Recheck, PageTyped, Convs
  <2>5. CASE ChannelLoaded(t) \/ DmLoaded(t)
    <3>1. t.conv \in Convs /\ Keeps
      BY <2>5 DEF ChannelLoaded, DmLoaded, Convs, Keeps, Becomes, Ends
    <3>2. PICK o \in PagType : o = pag[t.conv]
      BY <1>0, <3>1
    <3>3. PICK q \in PagType : q = Cursor(o, t.rows)
      BY <2>0, CursorTyped
    <3>4. q.busy = o.busy /\ q.gen = o.gen
      BY <2>0, <3>3, CursorTyped
    <3>5. (o.mixed \/ o.gen # t.gen) \in BOOLEAN
      OBVIOUS
    <3>6. PICK b \in BOOLEAN : b = (o.mixed \/ o.gen # t.gen)
      BY <3>5, Zenon
    <3>7. PICK p : p = [q EXCEPT !.mixed = b]
      OBVIOUS
    <3>8. p \in PagType /\ p.busy = q.busy /\ p.gen = q.gen
      BY <3>7 DEF PagType
    <3>9. Answered(t) = p
      BY <3>2, <3>3, <3>6, <3>7, Zenon DEF Answered
    <3>10. pag' = pag \/ pag' = [pag EXCEPT ![t.conv] = p]
      BY <2>5, <3>9 DEF ChannelLoaded, DmLoaded
    <3> QED
      BY <1>2, <1>3, <3>1, <3>2, <3>4, <3>8, <3>10
  <2>6. CASE MoreStale(t) \/ MoreRenders(t) \/ MoreFails(t)
    <3>1. t.conv \in Convs /\ tasks' = tasks \ {t} /\ Released(t)
      BY <2>0, <2>6 DEF MoreStale, MoreRenders, MoreFails, TaskFits, Ends
    <3>2. PICK p : p = [pag[t.conv] EXCEPT !.busy = FALSE]
      OBVIOUS
    <3>3. p \in PagType /\ p.busy = FALSE
      BY <1>0, <3>1, <3>2 DEF PagType
    <3> QED
      BY <1>4, <3>1, <3>2, <3>3 DEF Released
  <2>7. CASE MoreLoaded(t)
    <3>1. t.conv \in Convs /\ tasks' = tasks \ {t}
      BY <2>0, <2>7 DEF MoreLoaded, TaskFits, Ends
    <3>2. PICK q \in PagType : q = Cursor(pag[t.conv], t.rows)
      BY <1>0, <2>0, <3>1, CursorTyped
    <3>3. PICK p : p = [q EXCEPT !.busy = FALSE]
      OBVIOUS
    <3>4. p \in PagType /\ p.busy = FALSE
      BY <3>3 DEF PagType
    <3> QED
      BY <1>4, <2>7, <3>1, <3>2, <3>3, <3>4 DEF MoreLoaded
  <2>8. CASE MoreAwaitsKey(t)
    <3>1. t.conv \in Convs /\ tasks' = (tasks \ {t}) \cup {[t EXCEPT !.pc = "keys"]}
      BY <2>0, <2>8 DEF MoreAwaitsKey, TaskFits, Becomes
    <3>2. PICK u : u = [t EXCEPT !.pc = "keys"]
      OBVIOUS
    <3>3. u.kind = t.kind /\ u.conv = t.conv /\ u.gen = t.gen
      BY <2>0, <3>2 DEF TaskType
    <3>4. PICK p \in PagType : p = Cursor(pag[t.conv], t.rows)
      BY <1>0, <2>0, <3>1, CursorTyped
    <3>5. p.busy = pag[t.conv].busy /\ p.gen = pag[t.conv].gen
      BY <1>0, <2>0, <3>1, <3>4, CursorTyped
    <3>6. pag' = pag \/ pag' = [pag EXCEPT ![t.conv] = p]
      BY <2>8, <3>4 DEF MoreAwaitsKey, Pagination
    <3> QED
      BY <1>5, <3>1, <3>2, <3>3, <3>4, <3>5, <3>6
  <2> QED
    BY <1>13, <2>1, <2>2, <2>3, <2>4, <2>5, <2>6, <2>7, <2>8 DEF TaskStep
<1> QED
  BY <1>8, <1>9, <1>10, <1>11, <1>12, <1>13 DEF Next, Faults

-----------------------------------------------------------------------------
(* The counters, the database and what is open *)

LEMMA CountedStep ==
    ASSUME Counted, PageTyped, [Next]_vars
    PROVE  Counted'
<1> USE BoundAssumption DEF Counted
<1>1. CASE UNCHANGED vars
  BY <1>1 DEF vars, db, counts
<1>2. CASE Server
  BY <1>2 DEF Server, Send, Edit, Delete, counts
<1>3. CASE User
  BY SMTT(30), <1>3 DEF User, OpenChannel, OpenDm, EnterDms, OpenServer, Scroll, Load, db
<1>4. CASE Faults
  BY SMTT(30), <1>4 DEF Faults, LoadFails, MoreFails, Reconnect, db
<1>5. ASSUME NEW e \in events, Event(e) PROVE Counted'
  BY <1>5 DEF Event, ChannelNew, DmNew, Edited, Deleted, counts
<1>6. ASSUME NEW t \in tasks, TaskStep(t) PROVE Counted'
  <2>1. CASE ChannelsLoaded(t) \/ Recheck(t)
    BY <2>1 DEF ChannelsLoaded, Recheck, Load, db
  <2>2. CASE ~(ChannelsLoaded(t) \/ Recheck(t))
    BY <1>6, <2>2 DEF TaskStep, Read, ServerShown, ChannelLoaded, DmLoaded, DmLoadRenders,
       MoreStale, MoreLoaded, MoreAwaitsKey, MoreRenders, DmNewRenders, DmEditRenders, db, counts
  <2> QED
    BY <2>1, <2>2
<1> QED
  BY <1>1, <1>2, <1>3, <1>4, <1>5, <1>6 DEF Next

LEMMA StoredStep ==
    ASSUME Counted, Stored, NEW of, DataFits(of), [Next]_vars
    PROVE  Stored'
<1>1. CASE stored' = stored
  BY <1>1 DEF Stored
<1>2. ASSUME NEW c \in Convs, Send(c) PROVE Stored'
  <2>1. PICK n : n = Message(sent + 1, c, 0)
    OBVIOUS
  <2>2. stored' = stored \cup {n} /\ n.id = sent + 1
    BY <1>2, <2>1 DEF Send, Message
  <2>3. \A m \in stored : m.id # sent + 1
    BY DEF DataFits, Known, Counted
  <2>4. IsFiniteSet(stored')
    BY <2>2, FS_AddElement DEF Stored
  <2> QED
    BY <2>2, <2>3, <2>4 DEF Stored
<1>3. ASSUME NEW m \in stored, Edit(m) \/ Delete(m) PROVE Stored'
  <2>1. PICK n : n = [m EXCEPT !.ver = @ + 1]
    OBVIOUS
  <2>2. stored' = (stored \ {m}) \cup {n} \/ stored' = stored \ {m}
    BY <1>3, <2>1 DEF Edit, Delete
  <2>3. n.id = m.id
    BY <2>1 DEF DataFits, Known, Msg
  <2>4. IsFiniteSet(stored \ {m}) /\ IsFiniteSet((stored \ {m}) \cup {n})
    BY FS_RemoveElement, FS_AddElement DEF Stored
  <2> QED
    BY <2>2, <2>3, <2>4 DEF Stored
<1>4. CASE Server
  BY <1>2, <1>3, <1>4 DEF Server
<1>5. CASE ~Server
  <2>1. CASE UNCHANGED vars \/ User \/ Faults
    BY <1>1, <2>1 DEF vars, db, User, OpenChannel, OpenDm, EnterDms, OpenServer, Scroll,
       Faults, LoadFails, MoreFails, Reconnect
  <2>2. ASSUME NEW e \in events, Event(e) PROVE Stored'
    BY <1>1, <2>2 DEF Event, ChannelNew, DmNew, Edited, Deleted
  <2>3. ASSUME NEW t \in tasks, TaskStep(t) PROVE Stored'
    BY <1>1, <2>3 DEF TaskStep, Read, ServerShown, ChannelsLoaded, ChannelLoaded, DmLoaded,
       DmLoadRenders, MoreStale, MoreLoaded, MoreAwaitsKey, MoreRenders, DmNewRenders,
       DmEditRenders, Recheck, db
  <2> QED
    BY <1>5, <2>1, <2>2, <2>3 DEF Next
<1> QED
  BY <1>4, <1>5

LEMMA PageStep ==
    ASSUME PageTyped, NEW of, DataFits(of), [Next]_vars
    PROVE  PageTyped'
<1> USE DEF PageTyped
<1>1. CASE UNCHANGED vars \/ Server
  BY <1>1 DEF vars, view, screen, Server, Send, Edit, Delete
<1>2. CASE User
  BY <1>2 DEF User, OpenChannel, OpenDm, EnterDms, OpenServer, Scroll, Load, Show, Replace,
     view, screen
<1>3. CASE Faults
  BY <1>3 DEF Faults, LoadFails, MoreFails, Reconnect, FailsLoudly, Replace, view, screen
<1>4. ASSUME NEW e \in events, Event(e) PROVE PageTyped'
  BY <1>4 DEF Event, ChannelNew, DmNew, Edited, Deleted, Show, view, screen
<1>5. ASSUME NEW t \in tasks, TaskStep(t) PROVE PageTyped'
  <2>1. TaskFits(t, of)
    BY DEF DataFits
  <2>2. Raced(t) \subseteq {"raced"} /\ Mixed(t) \subseteq {"mixed"}
    BY DEF Raced, Mixed
  <2>3. CASE Read(t) \/ ServerShown(t) \/ ChannelsLoaded(t) \/ Recheck(t)
    BY <2>3, ConversationAssumption
    DEF Read, ServerShown, ChannelsLoaded, Recheck, Load, Show, Replace, view, screen
  <2>4. CASE ChannelLoaded(t) \/ DmLoaded(t) \/ DmLoadRenders(t)
    BY <2>1, <2>2, <2>4
    DEF ChannelLoaded, DmLoaded, DmLoadRenders, TaskFits, Show, Replace, view, screen, Convs
  <2>5. CASE MoreStale(t) \/ MoreLoaded(t) \/ MoreAwaitsKey(t) \/ MoreRenders(t)
    BY <2>2, <2>5
    DEF MoreStale, MoreLoaded, MoreAwaitsKey, MoreRenders, Show, view, screen
  <2>6. CASE DmNewRenders(t) \/ DmEditRenders(t)
    BY <2>2, <2>6 DEF DmNewRenders, DmEditRenders, Show, view
  <2> QED
    BY <1>5, <2>3, <2>4, <2>5, <2>6 DEF TaskStep
<1> QED
  BY <1>1, <1>2, <1>3, <1>4, <1>5 DEF Next

-----------------------------------------------------------------------------
(* The invariant and what it says *)

LEMMA InitInv == ASSUME Init PROVE IInv
<1> USE DEF Init
<1>1. Counted
  BY BoundAssumption DEF Counted
<1>2. Stored
  BY FS_EmptySet DEF Stored
<1>3. PageTyped /\ pag \in [Convs -> PagType] /\ MoreNotStuck
  BY DEF PageTyped, PagType, MoreNotStuck
<1>4. PICK f : f = [i \in Nat |-> First]
  OBVIOUS
<1>5. f \in [Nat -> Convs]
  BY <1>4, ConversationAssumption DEF Convs
<1>6. list \in Lists(Placeable(f))
  BY EmptyList
<1>7. DataFits(f)
  BY <1>6 DEF DataFits
<1> QED
  BY <1>1, <1>2, <1>3, <1>5, <1>7, Zenon DEF IInv

LEMMA StepInv == ASSUME IInv, [Next]_vars PROVE IInv'
<1>0. /\ Counted /\ Stored /\ PageTyped /\ pag \in [Convs -> PagType]
      /\ MoreNotStuck /\ PagOK
  BY DEF IInv, PagOK
<1>1. PICK of \in [Nat -> Convs] : DataFits(of)
  BY DEF IInv
<1>2. Counted' /\ Stored' /\ PageTyped' /\ PagOK'
  BY <1>0, <1>1, CountedStep, StoredStep, PageStep, PagStep
<1>3. \E f \in [Nat -> Convs] : DataFits(f)'
  <2>1. SUFFICES ASSUME DataFits(of)' \/ \E c \in Convs : Send(c)
                 PROVE  \E f \in [Nat -> Convs] : DataFits(f)'
    <3>1. CASE UNCHANGED vars
      <4>1. /\ Reads /\ events' = events /\ list' = list /\ chan' = chan
            /\ tasks' = tasks
        BY <1>0, <3>1 DEF vars, db, view, screen, counts, Reads
      <4>2. Leaving => Leaving'
        BY <4>1 DEF Leaving
      <4> QED
        BY <1>1, <4>1, <4>2, ShownData
    <3>2. CASE Server
      BY <1>0, <1>1, <3>2, EditData DEF Server
    <3>3. CASE User
      BY <1>0, <1>1, <3>3, OpenData, ScrollData DEF User
    <3>4. CASE Faults
      BY <1>0, <1>1, <3>4, LoadData, QuietData, ReconnectData DEF Faults
    <3>5. ASSUME NEW e \in events, Event(e) PROVE DataFits(of)'
      BY <1>0, <1>1, <3>5, EventData
    <3>6. ASSUME NEW t \in tasks, TaskStep(t) PROVE DataFits(of)'
      BY <1>0, <1>1, <3>6, LoadData, QuietData, RenderData, ServerData DEF TaskStep
    <3> QED
      BY <3>1, <3>2, <3>3, <3>4, <3>5, <3>6 DEF Next
  <2>2. CASE DataFits(of)'
    BY <1>1, <2>2, Zenon
  <2>3. ASSUME NEW c \in Convs, Send(c) PROVE \E f \in [Nat -> Convs] : DataFits(f)'
    BY <1>0, <1>1, <2>3, SendData
  <2> QED
    BY <2>1, <2>2, <2>3
<1> QED
  BY <1>2, <1>3 DEF IInv, PagOK

\* The inductive invariant holds.
THEOREM Invariance == Spec => []IInv
<1>1. Init => IInv
  BY InitInv
<1>2. IInv /\ [Next]_vars => IInv'
  BY StepInv
<1> QED
  BY <1>1, <1>2, PTL DEF Spec

\* The variables have their types; a page is never longer than PAGE_SIZE.
THEOREM TypeCorrect == Spec => []TypeOK
<1>1. ASSUME IInv PROVE TypeOK
  <2>1. PICK of \in [Nat -> Convs] : DataFits(of)
    BY <1>1 DEF IInv
  <2>2. Counted /\ PageTyped
    BY <1>1 DEF IInv
  <2>3. ASSUME NEW m \in Known(of) PROVE m \in Messages
    <3>1. /\ m.id \in 1..MaxMsgs /\ m.conv \in Convs /\ m.ver \in 0..MaxTrouble
          /\ m = [id |-> m.id, conv |-> m.conv, ver |-> m.ver]
      BY <2>2, BoundAssumption DEF Known, Msg, Counted
    <3> QED
      BY <3>1 DEF Messages, Message
  <2>4. stored \subseteq Messages
    BY <2>1, <2>3 DEF DataFits
  <2>5. \A k \in DOMAIN list : list[k] \in Messages
    <3>1. \A k \in DOMAIN list : list[k] \in Placeable(of)
      BY <2>1, OfList DEF DataFits
    <3> QED
      BY <2>3, <3>1 DEF Placeable
  <2>6. \A t \in tasks : Len(t.rows) <= PageSize /\ t.gen \in Nat
    BY <2>1 DEF DataFits, TaskFits, TaskType
  <2> QED
    BY <2>2, <2>4, <2>5, <2>6 DEF TypeOK, PageTyped
<1> QED
  BY <1>1, Invariance, PTL

\* A message is shown once, however its live event, a page and an older page
\* that contain it cross.
THEOREM DuplicatesCorrect == Spec => []NoDuplicates
<1>1. IInv => NoDuplicates
  BY DEF IInv, DataFits, Lists, Distinct, NoDuplicates
<1> QED
  BY <1>1, Invariance, PTL

\* A message of a channel is never shown in another conversation.
THEOREM ChannelsCorrect == Spec => []ChannelRowsBelong
<1>1. ASSUME IInv PROVE ChannelRowsBelong
  <2>1. PICK of \in [Nat -> Convs] : DataFits(of)
    BY <1>1 DEF IInv
  <2>2. \A k \in DOMAIN list : list[k] \in Placeable(of)
    BY <2>1, OfList DEF DataFits
  <2> QED
    BY <2>2 DEF Placeable, Placed, Leaving, ChannelRowsBelong
<1> QED
  BY <1>1, Invariance, PTL

\* Scrolling back never ends for good: a pagination object that says it is
\* loading has a request under way.
THEOREM MoreCorrect == Spec => []MoreNotStuck
<1>1. IInv => MoreNotStuck
  BY DEF IInv
<1> QED
  BY <1>1, Invariance, PTL


-----------------------------------------------------------------------------
(* Nothing is missing and nothing stale is shown: what the page knows of    *)
(* the messages, through the events and the rows that wait                  *)

\* The last event of a message tells what became of it.  It is handled last
\* and lost last, so that it is there while any event of the message is.
Final(f) ==
    IF f.kind = "deleted" THEN \A m \in stored : m.id # f.msg.id ELSE f.msg \in stored
Tells(f, i) ==
    /\ f.msg.id = i /\ Final(f)
    /\ \A g \in events : g.msg.id = i => g.msg.ver <= f.msg.ver
EventsOrdered ==
    /\ \A e, f \in events : e.msg.id = f.msg.id /\ e.msg.ver = f.msg.ver => e = f
    /\ \A e \in events : e.kind = "deleted" => \A m \in stored : m.id # e.msg.id
    /\ \A e \in events : e.kind = "new" => e.msg.ver = 0
    /\ \A e \in events : \E f \in events : Tells(f, e.msg.id)

\* A row is up to date, or an event will change it.  The rows a function
\* waits with are, unless an event went by (old).
Fresh(r) == r \in stored \/ \E e \in events : e.msg.id = r.id /\ e.msg.ver > r.ver
Waits(t) == t.kind \in {"load", "more", "live", "edit"} /\ t.pc # "ask" /\ ~t.old
FreshTasks == \A t \in tasks : Waits(t) => \A k \in 1..Len(t.rows) : Fresh(t.rows[k])

\* The functions that work on the pagination object of a conversation: the
\* load that made it, until its answer is handled, or one that scrolls back.
Ours(t, k, c) == t.kind = k /\ t.conv = c /\ t.gen = pag[c].gen
Asking(t, c) == Ours(t, "load", c) /\ t.pc \in {"ask", "answer"}
Loading(c) == \E t \in tasks : Asking(t, c)
Made(t) == t.kind \in {"load", "more"}
Alike(t, u) == t.kind = u.kind /\ t.conv = u.conv /\ t.gen = u.gen
Apart == \A t, u \in tasks : Made(t) /\ Alike(t, u) => t = u
Generations ==
    /\ \A c \in Convs : pag[c].gen <= loads /\ pag[c].oldest <= sent
    /\ \A t \in tasks : Made(t) => t.gen <= loads
    /\ Apart
    /\ \A c \in Convs, t \in tasks : Ours(t, "more", c) =>
          pag[c].busy /\ (~pag[c].mixed => pag[c].oldest # 0)
    /\ \A c \in Convs : Loading(c) /\ ~pag[c].mixed => pag[c].more /\ pag[c].oldest = 0

\* What an answer holds and what it leaves to the next page.
Announced(i) == \E e \in events : e.kind = "new" /\ e.msg.id = i
Beyond(rows, i) == Len(rows) = PageSize /\ i < rows[1].id
Answers(t, k) == t.kind = k /\ t.pc = "answer"
LoadCovers ==
    \A t \in tasks : Answers(t, "load") /\ ~t.old =>
        \A m \in stored : m.conv = t.conv =>
            m.id \in Ids(t.rows) \/ Beyond(t.rows, m.id) \/ Announced(m.id)
MoreCovers ==
    \A t \in tasks, c \in Convs : Ours(t, "more", c) /\ t.pc = "answer" /\ ~pag[c].mixed =>
        \A m \in stored : m.conv = c /\ m.id < pag[c].oldest =>
            m.id \in Ids(t.rows) \/ Beyond(t.rows, m.id)

\* A function with outdated rows will name the race when it goes on.
Only(c) == {chan, dm} = {c, None}
Dooms(t, c) == t.old /\ (t.kind \in {"live", "edit"} \/ (Made(t) /\ t.conv = c /\ t.pc = "keys"))
Doomed(c) == \E t \in tasks : Dooms(t, c)
Edits(t, i) == t.kind = "edit" /\ t.rows[1].id = i
RowOK(c, r) == r.conv = c /\ (Fresh(r) \/ \E t \in tasks : Edits(t, r.id))
\* Who will show the message i.
Brings(t, c, i) ==
    \/ t.kind = "live" /\ t.rows[1].id = i
    \/ (Ours(t, "load", c) \/ Ours(t, "more", c)) /\ t.pc = "keys" /\ i \in Ids(t.rows)
Has(c, i) ==
    \/ Shown(list, i) \/ Announced(i)
    \/ \E t \in tasks : Brings(t, c, i)
    \/ pag[c].more /\ i < pag[c].oldest
Right(c) ==
    /\ \A k \in DOMAIN list : RowOK(c, list[k])
    /\ \A m \in stored : m.conv = c => Has(c, m.id)
Open(c) == Only(c) /\ spoiled = {} /\ ~pag[c].mixed
Followed(c) == Loading(c) \/ Doomed(c) \/ Right(c)
ViewOK == \A c \in Convs : Open(c) => Followed(c)

KInv == EventsOrdered /\ FreshTasks /\ Generations /\ LoadCovers /\ MoreCovers /\ ViewOK
Data(of) == Counted /\ Stored /\ PageTyped /\ pag \in [Convs -> PagType] /\ DataFits(of)

\* What is known of a row, an event and a task.
LEMMA KnownRow ==
    ASSUME NEW of, NEW m \in Known(of)
    PROVE  /\ m.id \in Nat /\ m.id # 0 /\ m.ver \in Nat /\ m.conv = of[m.id] /\ m.conv \in Convs
           /\ m = [id |-> m.id, conv |-> m.conv, ver |-> m.ver]
  BY DEF Known, Msg

LEMMA DataFacts ==
    ASSUME NEW of, Data(of)
    PROVE  /\ \A m \in stored : m \in Known(of)
           /\ \A m, n \in stored : m.id = n.id => m = n
           /\ \A e \in events : e \in EventType(of) /\ e.msg \in Known(of)
           /\ list \in Lists(Known(of)) /\ \A k \in DOMAIN list : list[k] \in Known(of)
           /\ \A t \in tasks : TaskFits(t, of) /\ t \in TaskType(of)
<1>1. list \in Lists(Known(of))
  BY BiggerLists DEF Data, DataFits, Placeable
<1> QED
  BY <1>1, OfList DEF Data, DataFits, EventType, TaskFits, Stored

LEMMA TaskRows ==
    ASSUME NEW of, NEW t, TaskFits(t, of)
    PROVE  /\ t.rows \in Seq(Known(of)) /\ Len(t.rows) \in Nat /\ t.gen \in Nat
           /\ \A k \in 1..Len(t.rows) : t.rows[k] \in Known(of) /\ t.rows[k].conv = t.conv
           /\ t.kind \in {"live", "edit"} => t.pc = "keys" /\ 1 \in 1..Len(t.rows) /\ Len(t.rows) = 1
           /\ Made(t) => t.conv \in Convs
<1>1. t \in TaskType(of) /\ t.gen \in Nat /\ t.rows \in Seq(Known(of))
  BY DEF TaskFits, TaskType
<1>2. Len(t.rows) \in Nat /\ \A k \in 1..Len(t.rows) : t.rows[k] \in Known(of)
  BY <1>1
<1>3. /\ \A k \in 1..Len(t.rows) : t.rows[k].conv = t.conv
      /\ t.kind \in {"live", "edit"} => t.pc = "keys" /\ Len(t.rows) = 1
      /\ t.kind \in {"load", "more"} => t.conv \in Convs
  BY DEF TaskFits
<1>4. t.kind \in {"live", "edit"} => 1 \in 1..Len(t.rows)
  <2> 1 \in 1..1
    OBVIOUS
  <2> QED
    BY <1>3
<1> QED
  BY <1>1, <1>2, <1>3, <1>4 DEF Made

\* A page holds the newest messages before the cursor, and is full if it
\* does not hold all of them.
LEMMA PageHolds ==
    ASSUME Counted, Stored, NEW of, DataFits(of), NEW c, NEW cursor,
           NEW rows \in Orders(Page(c, cursor)), NEW m \in Before(c, cursor)
    PROVE  m.id \in Ids(rows) \/ Beyond(rows, m.id)
<1> DEFINE P == Page(c, cursor)
           B == Before(c, cursor)
           n == Cardinality(P)
           Newer(x) == {y \in B : y.id > x.id}
<1>1. P \subseteq B /\ B \subseteq stored
  BY DEF Page, Before
<1>2. IsFiniteSet(P) /\ IsFiniteSet(B) /\ n \in 0..PageSize /\ PageSize \in Nat
  BY <1>1, PageSmall, FS_Subset, PageAssumption DEF Stored
<1>3. /\ \A x \in B : x.id \in Nat /\ x.id <= sent
      /\ \A x, y \in B : x.id = y.id => x = y
  BY <1>1 DEF DataFits, Known, Msg, Stored
<1>4. P = {x \in B : Cardinality(Newer(x)) < PageSize}
  BY DEF Page
<1>5. rows \in [1..n -> P] /\ \A j, k \in DOMAIN rows : j < k => rows[j].id < rows[k].id
  BY DEF Orders
<1>6. n \in Nat /\ DOMAIN rows = 1..n /\ Len(rows) = n
  BY <1>2, <1>5
<1> HIDE DEF P, B, n
<1>7. \A x \in B : IsFiniteSet(Newer(x)) /\ Cardinality(Newer(x)) \in Nat
  BY <1>2, FS_Subset, FS_CardinalityType
<1>8. CASE m \in P
  <2>1. rows \in Injection(1..n, P)
    <3>1. \A j, k \in 1..n : rows[j] = rows[k] => j = k
      <4> SUFFICES ASSUME NEW j \in 1..n, NEW k \in 1..n, rows[j] = rows[k], j < k PROVE FALSE
        BY <1>6
      <4>1. rows[j] \in B /\ rows[j].id \in Nat
        BY <1>1, <1>3, <1>5
      <4>2. rows[j].id < rows[k].id
        BY <1>5, <1>6
      <4> QED
        BY <4>1, <4>2
    <3> QED
      BY <1>5, <3>1 DEF Injection, IsInjective
  <2>2. IsFiniteSet(1..n) /\ Cardinality(1..n) = n
    BY <1>6, FS_Interval
  <2>3. rows \in Surjection(1..n, P)
    BY <1>2, <2>1, <2>2, FS_Injection DEF n
  <2>4. \E k \in 1..n : rows[k] = m
    BY <1>8, <2>3 DEF Surjection
  <2> QED
    BY <1>6, <2>4 DEF Ids
<1>9. CASE m \notin P
  <2> DEFINE T == {sent - x.id : x \in B \ P}
  <2>0. m \in B \ P
    BY <1>9 DEF B
  <2>1. T \in SUBSET Nat /\ T # {}
    <3>1. sent \in Nat
      BY DEF Counted
    <3>2. \A x \in B : x.id \in 1..sent /\ x.id \in Nat
      BY <1>1 DEF DataFits, Known, Msg
    <3>3. \A x \in B : sent - x.id \in Nat
      BY <3>1, <3>2
    <3> QED
      BY <2>0, <3>3
  <2>2. PICK d \in T : \A e \in T : ~(e < d)
    <3> HIDE DEF T
    <3> QED
      BY <2>1, LeastNumber
  <2>3. PICK x \in B \ P : d = sent - x.id
    OBVIOUS
  <2>4. \A y \in B \ P : y.id <= x.id
    <3> SUFFICES ASSUME NEW y \in B \ P PROVE y.id <= x.id
      OBVIOUS
    <3>1. sent - y.id \in T /\ ~(sent - y.id < sent - x.id)
      BY <2>2, <2>3
    <3>2. sent - y.id \in Nat /\ sent - x.id \in Nat /\ y.id \in Nat /\ x.id \in Nat
      BY <1>3, <2>1, <2>2, <2>3, <3>1
    <3>3. sent \in Int
      BY DEF Counted
    <3> QED
      BY <3>1, <3>2, <3>3
  <2> HIDE DEF T
  <2>5. Newer(x) \subseteq P
    BY <1>3, <2>4
  <2>6. Cardinality(Newer(x)) >= PageSize
    <3>1. x \in B /\ ~(Cardinality(Newer(x)) < PageSize)
      BY <1>4, <2>3, Zenon
    <3>2. Cardinality(Newer(x)) \in Nat
      BY <1>7, <3>1
    <3> HIDE DEF Newer
    <3> QED
      BY <1>2, <3>1, <3>2
  <2>7. Cardinality(Newer(x)) <= n
    BY <1>2, <2>5, FS_Subset DEF n
  <2>8. n = PageSize
    <3>1. Cardinality(Newer(x)) \in Nat
      BY <1>7, <2>3
    <3> HIDE DEF Newer
    <3> QED
      BY <1>2, <2>6, <2>7, <3>1
  <2>9. \A y \in P : m.id < y.id
    <3> SUFFICES ASSUME NEW y \in P, ~(m.id < y.id) PROVE FALSE
      OBVIOUS
    <3>1. y \in B /\ m \in B /\ y # m /\ y.id # m.id /\ m.id \in Nat /\ y.id \in Nat
      BY <1>1, <1>3, <2>0
    <3>2. Newer(m) \subseteq Newer(y)
      BY <1>3, <3>1
    <3>3. Cardinality(Newer(m)) <= Cardinality(Newer(y))
      BY <1>7, <3>1, <3>2, FS_Subset
    <3>4. Cardinality(Newer(y)) < PageSize
      BY <1>4
    <3>5. Cardinality(Newer(m)) \in Nat /\ Cardinality(Newer(y)) \in Nat
      BY <1>7, <3>1
    <3>6. Cardinality(Newer(m)) < PageSize
      BY <1>2, <3>3, <3>4, <3>5
    <3> QED
      BY <1>4, <2>0, <3>6
  <2>10. 1 \in 1..n
    BY <1>6, <2>8, PageAssumption
  <2> QED
    BY <1>5, <1>6, <2>8, <2>9, <2>10 DEF Beyond
<1> QED
  BY <1>8, <1>9

-----------------------------------------------------------------------------
(* The events of a message tell what became of it *)

\* An event more, of a change that has just been stored.
LEMMA EventAdded ==
    ASSUME NEW of, Data(of), EventsOrdered, NEW n, n.msg.ver \in Nat, events' = events \cup {n},
           \A e \in events : e.msg.id = n.msg.id => e.msg.ver < n.msg.ver /\ e.kind # "deleted",
           Final(n)', n.kind = "new" => n.msg.ver = 0, n.kind = "deleted" => \A m \in stored' : m.id # n.msg.id,
           \A m : m.id # n.msg.id => (m \in stored' <=> m \in stored)
    PROVE  EventsOrdered'
<1> DEFINE i == n.msg.id
<1>0. \A e \in events : e.msg.ver \in Nat
  BY DataFacts, KnownRow
<1>1. \A e, f \in events' : e.msg.id = f.msg.id /\ e.msg.ver = f.msg.ver => e = f
  BY <1>0 DEF EventsOrdered
<1>2. \A e \in events' : e.kind = "deleted" => \A m \in stored' : m.id # e.msg.id
  <2> SUFFICES ASSUME NEW e \in events', e.kind = "deleted", NEW m \in stored', m.id = e.msg.id
               PROVE  FALSE
    OBVIOUS
  <2>1. e \in events /\ m.id # i
    OBVIOUS
  <2> QED
    BY <2>1 DEF EventsOrdered
<1>3. ASSUME NEW e \in events' PROVE \E f \in events' : Tells(f, e.msg.id)'
  <2>1. CASE e.msg.id = i
    <3>1. Tells(n, e.msg.id)'
      <4>1. \A g \in events' : g.msg.id = i => g.msg.ver <= n.msg.ver
        BY <1>0
      <4> QED
        BY <2>1, <4>1 DEF Tells
    <3> QED
      BY <3>1
  <2>2. CASE e.msg.id # i
    <3>1. e \in events
      BY <2>2
    <3>2. PICK f \in events : Tells(f, e.msg.id)
      BY <3>1 DEF EventsOrdered
    <3>3. Final(f)'
      BY <2>2, <3>2 DEF Tells, Final
    <3>4. Tells(f, e.msg.id)'
      BY <2>2, <3>2, <3>3 DEF Tells
    <3> QED
      BY <3>2, <3>4
  <2> QED
    BY <2>1, <2>2
<1> QED
  BY <1>1, <1>2, <1>3 DEF EventsOrdered

\* Events less, never the last of a message before the others.
LEMMA EventsShrink ==
    ASSUME EventsOrdered, stored' = stored, events' \subseteq events,
           \A e \in events', f \in events : Tells(f, e.msg.id) => f \in events'
    PROVE  EventsOrdered'
<1>1. ASSUME NEW e \in events' PROVE \E f \in events' : Tells(f, e.msg.id)'
  <2>1. PICK f \in events : Tells(f, e.msg.id)
    BY DEF EventsOrdered
  <2>2. f \in events'
    BY <2>1
  <2>3. Tells(f, e.msg.id)'
    BY <2>1 DEF Tells, Final
  <2> QED
    BY <2>2, <2>3
<1> QED
  BY <1>1 DEF EventsOrdered

\* Whatever is stored has only events of earlier versions before the last.
LEMMA StoredLast ==
    ASSUME NEW of, Data(of), EventsOrdered, NEW m \in stored, NEW e \in events, e.msg.id = m.id
    PROVE  e.msg.ver <= m.ver /\ e.kind # "deleted"
<1>1. PICK f \in events : Tells(f, m.id)
  BY DEF EventsOrdered
<1>2. e.kind # "deleted" /\ f.kind # "deleted"
  BY <1>1 DEF EventsOrdered, Tells
<1>3. f.msg \in stored /\ f.msg.id = m.id
  BY <1>1, <1>2 DEF Tells, Final
<1>4. f.msg = m
  BY <1>3, DataFacts
<1> QED
  BY <1>1, <1>2, <1>4 DEF Tells

\* The event that is handled is the first of its message.
LEMMA FirstHandled ==
    ASSUME NEW of, Data(of), EventsOrdered, NEW e \in events, Event(e)
    PROVE  /\ events' = events \ {e} /\ stored' = stored
           /\ \A f \in events : f.msg.id = e.msg.id => f = e \/ e.msg.ver < f.msg.ver
           /\ e.kind = "deleted" => \A m \in stored : m.id # e.msg.id
           /\ e.kind # "deleted" => e.msg \in stored \/ \E f \in events' : f.msg.id = e.msg.id
<1>1. events' = events \ {e} /\ stored' = stored /\ InOrder(e)
  BY DEF Event, ChannelNew, DmNew, Edited, Deleted, Handles
<1>2. \A f \in events : f.msg.ver \in Nat
  BY DataFacts, KnownRow
<1>3. \A f \in events : f.msg.id = e.msg.id => f = e \/ e.msg.ver < f.msg.ver
  BY <1>1, <1>2 DEF InOrder, EventsOrdered
<1>4. PICK f \in events : Tells(f, e.msg.id)
  BY DEF EventsOrdered
<1> QED
  BY <1>1, <1>3, <1>4 DEF EventsOrdered, Tells, Final

LEMMA OrderedStep ==
    ASSUME NEW of, Data(of), EventsOrdered, [Next]_vars
    PROVE  EventsOrdered'
<1>0. /\ \A m \in stored : m \in Known(of)
      /\ \A e \in events : e.msg \in Known(of) /\ e.msg.ver \in Nat
      /\ \A m, n \in stored : m.id = n.id => m = n
  BY DataFacts, KnownRow
<1>1. CASE stored' = stored /\ events' = events
  BY <1>1, EventsShrink
<1>2. ASSUME NEW c \in Convs, Send(c) PROVE EventsOrdered'
  <2>1. PICK m : m = Message(sent', c, 0)
    OBVIOUS
  <2>2. PICK n : n = [kind |-> "new", msg |-> m]
    OBVIOUS
  <2>3. /\ stored' = stored \cup {m} /\ events' = events \cup {n} /\ n.msg = m /\ n.kind = "new"
        /\ m.id = sent + 1 /\ m.ver = 0
    BY <1>2, <2>1, <2>2 DEF Send, Message
  <2>4. sent \in Nat /\ \A x \in Known(of) : x.id \in Nat /\ x.id # m.id
    BY <2>3 DEF Known, Data, Counted
  <2>5. Final(n)'
    BY <2>3 DEF Final
  <2> QED
    BY <1>0, <2>3, <2>4, <2>5, EventAdded
<1>3. ASSUME NEW m \in stored, Edit(m) \/ Delete(m) PROVE EventsOrdered'
  <2>1. PICK n : n = [m EXCEPT !.ver = @ + 1]
    OBVIOUS
  <2>2. n.id = m.id /\ n.ver = m.ver + 1 /\ n.ver \in Nat /\ n # m /\ m.ver \in Nat
    <3>1. m.ver \in Nat /\ m = [id |-> m.id, conv |-> m.conv, ver |-> m.ver]
      BY <1>0, KnownRow
    <3> QED
      BY <2>1, <3>1
  <2>3. \A e \in events : e.msg.id = m.id => e.msg.ver < n.ver /\ e.kind # "deleted"
    BY <1>0, <2>2, StoredLast
  <2>4. CASE Edit(m)
    <3>1. PICK x : x = [kind |-> "edited", msg |-> n]
      OBVIOUS
    <3>2. stored' = (stored \ {m}) \cup {n} /\ events' = events \cup {x} /\ x.msg = n /\ x.kind = "edited"
      BY <2>1, <2>4, <3>1 DEF Edit
    <3>3. Final(x)'
      BY <3>2 DEF Final
    <3> QED
      BY <2>2, <2>3, <3>2, <3>3, EventAdded
  <2>5. CASE Delete(m)
    <3>1. PICK x : x = [kind |-> "deleted", msg |-> n]
      OBVIOUS
    <3>2. stored' = stored \ {m} /\ events' = events \cup {x} /\ x.msg = n /\ x.kind = "deleted"
      BY <2>1, <2>5, <3>1 DEF Delete
    <3>3. \A y \in stored' : y.id # n.id
      BY <1>0, <2>2, <3>2
    <3>4. Final(x)'
      BY <3>2, <3>3 DEF Final
    <3> QED
      BY <2>2, <2>3, <3>2, <3>3, <3>4, EventAdded
  <2> QED
    BY <1>3, <2>4, <2>5
<1>4. ASSUME NEW e \in events, Event(e) PROVE EventsOrdered'
  <2>1. /\ events' = events \ {e} /\ stored' = stored
        /\ \A f \in events : f.msg.id = e.msg.id => f = e \/ e.msg.ver < f.msg.ver
    BY <1>4, FirstHandled
  <2>2. ASSUME NEW x \in events', NEW f \in events, Tells(f, x.msg.id) PROVE f \in events'
    <3>1. x \in events /\ x # e /\ f.msg.id = x.msg.id /\ x.msg.ver <= f.msg.ver
      BY <2>1, <2>2 DEF Tells
    <3>2. f # e
      BY <1>0, <2>1, <3>1
    <3> QED
      BY <2>1, <3>2
  <2> QED
    BY <2>1, <2>2, EventsShrink
<1>5. ASSUME NEW lost \in SUBSET events, Reconnect(lost) PROVE EventsOrdered'
  <2>1. /\ events' = events \ lost /\ stored' = stored
        /\ \A e \in lost, f \in events : f.msg.id = e.msg.id /\ f.msg.ver < e.msg.ver => f \in lost
    BY <1>5 DEF Reconnect
  <2>2. ASSUME NEW x \in events', NEW f \in events, Tells(f, x.msg.id) PROVE f \in events'
    <3>1. x \in events /\ x \notin lost /\ f.msg.id = x.msg.id /\ x.msg.ver <= f.msg.ver
      BY <2>1, <2>2 DEF Tells
    <3>2. x.msg.ver < f.msg.ver \/ x = f
      BY <1>0, <3>1 DEF EventsOrdered
    <3> QED
      BY <2>1, <3>1, <3>2
  <2> QED
    BY <2>1, <2>2, EventsShrink
<1>6. CASE UNCHANGED vars
  BY <1>1, <1>6 DEF vars, db
<1>7. ASSUME NEW t \in tasks, TaskStep(t) PROVE EventsOrdered'
  BY <1>1, <1>7 DEF TaskStep, Read, ServerShown, ChannelsLoaded, ChannelLoaded, DmLoaded, DmLoadRenders,
     MoreStale, MoreLoaded, MoreAwaitsKey, MoreRenders, DmNewRenders, DmEditRenders, Recheck, db
<1>8. CASE User
  BY <1>1, <1>8 DEF User, OpenChannel, OpenDm, EnterDms, OpenServer, Scroll, db
<1>9. CASE \E t \in tasks : LoadFails(t) \/ MoreFails(t)
  BY <1>1, <1>9 DEF LoadFails, MoreFails, db
<1> QED
  BY <1>2, <1>3, <1>4, <1>5, <1>6, <1>7, <1>8, <1>9 DEF Next, Server, Faults

-----------------------------------------------------------------------------
(* The rows of the functions that wait are up to date or known not to be *)

\* What Outdated leaves: a function that is marked, or one that no event
\* concerns.
LEMMA OutdatedOnes ==
    ASSUME NEW of, Data(of), NEW es, NEW u \in Outdated(tasks, es)
    PROVE  \E t \in tasks :
              /\ u.kind = t.kind /\ u.pc = t.pc /\ u.conv = t.conv /\ u.gen = t.gen /\ u.rows = t.rows
              /\ t.old => u.old
              /\ u.old \/ (u = t /\ \A e \in es : ~Holds(t, e))
<1>1. PICK t \in tasks : u = IF \E e \in es : Holds(t, e) THEN Marked(t) ELSE t
  BY DEF Outdated, Marked
<1>2. t \in TaskType(of)
  BY DataFacts
<1>3. CASE \E e \in es : Holds(t, e)
  <2>1. u = Marked(t)
    BY <1>1, <1>3
  <2>2. u.old = TRUE
    BY <1>2, <2>1 DEF Marked, TaskType
  <2>3. /\ u.kind = t.kind /\ u.pc = t.pc /\ u.conv = t.conv /\ u.gen = t.gen /\ u.rows = t.rows
    BY <1>2, <2>1, MarkedTask
  <2>4. u.old
    BY <2>2
  <2> WITNESS t \in tasks
  <2> QED
    BY <2>3, <2>4
<1>4. CASE ~\E e \in es : Holds(t, e)
  BY <1>1, <1>4
<1> QED
  BY <1>3, <1>4

\* ... and every function is still there.
LEMMA OutdatedAll ==
    ASSUME NEW of, Data(of), NEW es, NEW t \in tasks
    PROVE  \E u \in Outdated(tasks, es) :
              /\ u.kind = t.kind /\ u.pc = t.pc /\ u.conv = t.conv /\ u.gen = t.gen /\ u.rows = t.rows
              /\ t.old => u.old
<1>1. PICK u \in Outdated(tasks, es) : u = t \/ u = Marked(t)
  BY Outdating
<1>2. t \in TaskType(of)
  BY DataFacts
<1>3. Marked(t).old = TRUE
  BY <1>2 DEF Marked, TaskType
<1> QED
  BY <1>1, <1>2, <1>3, MarkedTask

\* A change of the database comes with its event.
LEMMA FreshInDatabase ==
    ASSUME NEW of, Data(of), NEW r, Fresh(r), Server
    PROVE  Fresh(r)'
<1>1. CASE \E c \in Convs : Send(c)
  BY <1>1 DEF Send, Fresh
<1>2. ASSUME NEW m \in stored, Edit(m) \/ Delete(m) PROVE Fresh(r)'
  <2>1. PICK n : n = [m EXCEPT !.ver = @ + 1]
    OBVIOUS
  <2>2. n.id = m.id /\ n.ver > m.ver
    <3>1. m.ver \in Nat /\ m = [id |-> m.id, conv |-> m.conv, ver |-> m.ver]
      BY DataFacts, KnownRow
    <3> QED
      BY <2>1, <3>1
  <2>3. PICK k \in {"edited", "deleted"} :
           stored \ {m} \subseteq stored' /\ events' = events \cup {[kind |-> k, msg |-> n]}
    <3>1. CASE Edit(m)
      BY <2>1, <3>1 DEF Edit
    <3>2. CASE Delete(m)
      BY <2>1, <3>2 DEF Delete
    <3> QED
      BY <1>2, <3>1, <3>2
  <2>4. PICK x : x = [kind |-> k, msg |-> n]
    OBVIOUS
  <2>5. x \in events' /\ x.msg = n
    BY <2>3, <2>4
  <2> QED
    BY <2>2, <2>3, <2>5 DEF Fresh
<1> QED
  BY <1>1, <1>2 DEF Server

\* Events that are handled or lost outdate the rows of their message only.
LEMMA FreshLeft ==
    ASSUME NEW r, Fresh(r), NEW es, stored' = stored, events' = events \ es,
           \A e \in es : e.msg.id = r.id => ~(e.msg.ver > r.ver)
    PROVE  Fresh(r)'
  BY DEF Fresh

LEMMA FreshOutdated ==
    ASSUME NEW of, Data(of), FreshTasks, NEW es \in SUBSET events, stored' = stored, events' = events \ es,
           NEW u \in Outdated(tasks, es), Waits(u), NEW k \in 1..Len(u.rows)
    PROVE  Fresh(u.rows[k])'
<1>1. u \in tasks /\ \A e \in es : ~Holds(u, e)
  BY OutdatedOnes DEF Waits
<1>2. TaskFits(u, of) /\ u \in TaskType(of)
  BY <1>1, DataFacts
<1> DEFINE r == u.rows[k]
<1>3. r.conv = u.conv /\ r.conv = of[r.id] /\ Fresh(r)
  BY <1>1, <1>2, TaskRows, KnownRow DEF FreshTasks
<1>4. ASSUME NEW e \in es, e.msg.id = r.id PROVE FALSE
  <2>1. e.msg.conv = u.conv
    BY <1>3, <1>4, DataFacts, KnownRow
  <2>2. u.kind \in {"load", "more", "live", "edit"}
    BY DEF Waits
  <2>3. u.kind \in {"live", "edit"} => k = 1
    BY <1>2, TaskRows
  <2> QED
    BY <1>1, <1>4, <2>1, <2>2, <2>3 DEF Holds, Waits
<1> QED
  BY <1>3, <1>4, FreshLeft

\* What the other steps make of the functions that wait: one may be new and
\* have no rows, have rows that were just read, or go on with those it had.
GoesOn(u, t) ==
    /\ u.kind = t.kind /\ u.conv = t.conv /\ u.gen = t.gen /\ u.rows = t.rows /\ u.old = t.old
    /\ t.pc # "ask"
Calm ==
    \/ User \/ UNCHANGED vars \/ \E t \in tasks : LoadFails(t) \/ MoreFails(t) \/ TaskStep(t)

LEMMA NewTaskFields ==
    ASSUME NEW k, NEW c, NEW p, NEW g, NEW rows, NEW u, u = Task(k, c, p, g, rows)
    PROVE  /\ u.kind = k /\ u.conv = c /\ u.pc = p /\ u.gen = g /\ u.rows = rows
           /\ u.old = FALSE
  BY DEF Task

LEMMA AdvancedFields ==
    ASSUME NEW of, NEW t, t \in TaskType(of), NEW p, NEW u, u = [t EXCEPT !.pc = p], t.pc # "ask"
    PROVE  GoesOn(u, t) /\ u.pc = p
  BY DEF TaskType, GoesOn

LEMMA ReadFields ==
    ASSUME NEW of, Data(of), NEW t \in tasks, Read(t)
    PROVE  \E u : /\ tasks' = (tasks \ {t}) \cup {u}
                  /\ u.pc = "answer" /\ u.kind = t.kind /\ u.conv = t.conv /\ u.gen = t.gen /\ u.old = t.old
                  /\ u.rows \in Orders(Page(t.conv, IF t.kind = "more" THEN pag[t.conv].oldest ELSE 0))
                  /\ \A k \in 1..Len(u.rows) : u.rows[k] \in stored
<1> DEFINE cursor == IF t.kind = "more" THEN pag[t.conv].oldest ELSE 0
<1>1. PICK rows \in Orders(Page(t.conv, cursor)) : tasks' = (tasks \ {t}) \cup {[t EXCEPT !.pc = "answer", !.rows = rows]}
  BY DEF Read, Becomes
<1>2. \A k \in 1..Len(rows) : rows[k] \in stored
  <2>1. /\ Page(t.conv, cursor) \subseteq {m \in stored : m.conv = t.conv}
        /\ IsFiniteSet(Page(t.conv, cursor))
    BY PageSmall DEF Data
  <2>2. rows \in [1..Cardinality(Page(t.conv, cursor)) -> Page(t.conv, cursor)]
    BY DEF Orders
  <2>3. Cardinality(Page(t.conv, cursor)) \in Nat
    BY <2>1, FS_CardinalityType
  <2> QED
    BY <2>1, <2>2, <2>3
<1>3. PICK u : u = [t EXCEPT !.pc = "answer", !.rows = rows]
  OBVIOUS
<1>4. /\ u.pc = "answer" /\ u.kind = t.kind /\ u.conv = t.conv /\ u.gen = t.gen
      /\ u.old = t.old /\ u.rows = rows
  BY <1>3, DataFacts DEF TaskType
<1>5. tasks' = (tasks \ {t}) \cup {u}
  BY <1>1, <1>3
<1> QED
  BY <1>2, <1>4, <1>5

LEMMA CalmTasks ==
    ASSUME NEW of, Data(of), Calm
    PROVE  /\ stored' = stored /\ events' = events /\ sent' = sent
           /\ \A u \in tasks' :
                 \/ u \in tasks
                 \/ u.rows = <<>> /\ u.pc # "answer" /\ u.old = FALSE
                 \/ \E t \in tasks : GoesOn(u, t) /\ u.pc # "answer"
                 \/ (\E t \in tasks : Read(t)) /\ \A k \in 1..Len(u.rows) : u.rows[k] \in stored
<1> DEFINE Known1(u) ==
                 \/ u \in tasks
                 \/ u.rows = <<>> /\ u.pc # "answer" /\ u.old = FALSE
                 \/ \E t \in tasks : GoesOn(u, t) /\ u.pc # "answer"
                 \/ (\E t \in tasks : Read(t)) /\ \A k \in 1..Len(u.rows) : u.rows[k] \in stored
           Thus == stored' = stored /\ events' = events /\ sent' = sent /\ \A u \in tasks' : Known1(u)
<1>1. ASSUME NEW k, NEW c, NEW p \in {"ask", "roles"}, NEW g, NEW ts, ts \subseteq tasks,
             tasks' = ts \cup {Task(k, c, p, g, <<>>)}
      PROVE  \A u \in tasks' : Known1(u)
  <2> SUFFICES ASSUME NEW u \in tasks', u \notin tasks PROVE Known1(u)
    OBVIOUS
  <2>1. u = Task(k, c, p, g, <<>>)
    BY <1>1
  <2>2. u.rows = <<>> /\ u.pc = p /\ u.old = FALSE
    BY <2>1 DEF Task
  <2> QED
    BY <1>1, <2>2
<1>2. ASSUME NEW t \in tasks, t.pc # "ask", NEW p \in {"channels", "keys"}, Becomes(t, [t EXCEPT !.pc = p])
      PROVE  \A u \in tasks' : Known1(u)
  <2> SUFFICES ASSUME NEW u \in tasks', u \notin tasks PROVE Known1(u)
    OBVIOUS
  <2>1. u = [t EXCEPT !.pc = p]
    BY <1>2 DEF Becomes
  <2>2. GoesOn(u, t) /\ u.pc = p
    BY <1>2, <2>1, DataFacts, AdvancedFields
  <2> QED
    BY <1>2, <2>2
<1>3. ASSUME tasks' \subseteq tasks PROVE \A u \in tasks' : Known1(u)
  BY <1>3
<1> HIDE DEF Known1
<1>8. ASSUME NEW c, NEW ts, ts \subseteq tasks, Load(c, ts) PROVE \A u \in tasks' : Known1(u)
  <2>1. tasks' = ts \cup {Task("load", c, "ask", loads', <<>>)}
    BY <1>8 DEF Load
  <2> QED
    BY <1>1, <1>8, <2>1
<1>4. ASSUME UNCHANGED vars PROVE Thus
  BY <1>3, <1>4 DEF vars, db
<1>5. ASSUME User PROVE Thus
  <2>1. stored' = stored /\ events' = events /\ sent' = sent
    BY <1>5 DEF User, OpenChannel, OpenDm, EnterDms, OpenServer, Scroll, db
  <2>2. CASE Scroll
    <3>1. PICK g : tasks' = tasks \cup {Task("more", listener, "ask", g, <<>>)}
      BY <2>2 DEF Scroll
    <3> QED
      BY <1>1, <2>1, <3>1
  <2>3. CASE ~Scroll
    BY <1>1, <1>3, <1>5, <1>8, <2>1, <2>3 DEF User, OpenChannel, OpenDm, EnterDms, OpenServer
  <2> QED
    BY <2>2, <2>3
<1>6. ASSUME NEW t \in tasks, LoadFails(t) \/ MoreFails(t) PROVE Thus
  BY <1>3, <1>6 DEF LoadFails, MoreFails, Ends, db
<1>7. ASSUME NEW t \in tasks, TaskStep(t) PROVE Thus
  <2>1. CASE Read(t)
    <3>1. PICK u : /\ tasks' = (tasks \ {t}) \cup {u}
                   /\ \A k \in 1..Len(u.rows) : u.rows[k] \in stored
      BY <2>1, ReadFields
    <3> QED
      BY <2>1, <3>1 DEF Known1, Read, db
  <2>2. CASE ServerShown(t) \/ DmLoaded(t) \/ MoreAwaitsKey(t)
    <3>1. stored' = stored /\ events' = events /\ sent' = sent
      BY <2>2 DEF ServerShown, DmLoaded, MoreAwaitsKey, db
    <3>2. \/ tasks' \subseteq tasks
          \/ t.pc # "ask" /\ (Becomes(t, [t EXCEPT !.pc = "channels"]) \/ Becomes(t, [t EXCEPT !.pc = "keys"]))
      BY <2>2 DEF ServerShown, DmLoaded, MoreAwaitsKey, Ends
    <3> QED
      BY <1>2, <1>3, <3>1, <3>2
  <2>3. CASE ChannelsLoaded(t) \/ Recheck(t)
    <3>1. stored' = stored /\ events' = events /\ sent' = sent
      BY <2>3 DEF ChannelsLoaded, Recheck, db
    <3>2. tasks' \subseteq tasks \/ \E c : Load(c, tasks \ {t})
      BY <2>3 DEF ChannelsLoaded, Recheck, Ends
    <3>3. ASSUME NEW c, Load(c, tasks \ {t}) PROVE \A u \in tasks' : Known1(u)
      BY <1>8, <3>3
    <3> QED
      BY <1>3, <3>1, <3>2, <3>3
  <2>4. CASE \/ ChannelLoaded(t) \/ DmLoadRenders(t) \/ MoreStale(t) \/ MoreLoaded(t) \/ MoreRenders(t)
             \/ DmNewRenders(t) \/ DmEditRenders(t)
    BY <1>3, <2>4 DEF ChannelLoaded, DmLoadRenders, MoreStale, MoreLoaded, MoreRenders, DmNewRenders,
       DmEditRenders, Ends, db
  <2> QED
    BY <1>7, <2>1, <2>2, <2>3, <2>4 DEF TaskStep
<1> QED
  BY <1>4, <1>5, <1>6, <1>7 DEF Calm, Known1

\* How a live event changes the functions that wait.
LEMMA EventTasks ==
    ASSUME NEW of, Data(of), NEW e \in events, Event(e)
    PROVE  /\ Outdated(tasks, {e}) \subseteq tasks'
           /\ \A u \in tasks' : \/ u \in Outdated(tasks, {e})
                                \/ /\ u.kind \in {"live", "edit"} /\ u.rows = <<e.msg>> /\ u.conv = e.msg.conv
                                   /\ u.old = FALSE /\ u.pc = "keys" /\ e.kind \in {"new", "edited"}
           /\ pag' = pag /\ loads' = loads /\ sent' = sent /\ chan' = chan /\ dm' = dm
<1>1. CASE ChannelNew(e) \/ Deleted(e)
  BY <1>1 DEF ChannelNew, Deleted, view, counts
<1>2. CASE DmNew(e) \/ Edited(e)
  <2>1. PICK k, g :
           /\ k \in {"live", "edit"}
           /\ Outdated(tasks, {e}) \subseteq tasks'
           /\ tasks' \subseteq Outdated(tasks, {e}) \cup {Task(k, e.msg.conv, "keys", g, <<e.msg>>)}
    BY <1>2 DEF DmNew, Edited
  <2>2. PICK n : n = Task(k, e.msg.conv, "keys", g, <<e.msg>>)
    OBVIOUS
  <2>3. n.kind = k /\ n.rows = <<e.msg>> /\ n.conv = e.msg.conv /\ n.old = FALSE /\ n.pc = "keys"
    BY <2>2 DEF Task
  <2> QED
    BY <1>2, <2>1, <2>2, <2>3 DEF DmNew, Edited, view, counts
<1> QED
  BY <1>1, <1>2 DEF Event

LEMMA FreshStep ==
    ASSUME NEW of, Data(of), EventsOrdered, FreshTasks, [Next]_vars
    PROVE  FreshTasks'
<1>1. CASE Server
  <2>1. tasks' = tasks
    BY <1>1 DEF Server, Send, Edit, Delete
  <2> QED
    BY <1>1, <2>1, FreshInDatabase DEF FreshTasks, Waits
<1>2. ASSUME NEW e \in events, Event(e) PROVE FreshTasks'
  <2>1. stored' = stored /\ events' = events \ {e}
    BY <1>2, FirstHandled
  <2> SUFFICES ASSUME NEW u \in tasks', Waits(u), NEW k \in 1..Len(u.rows) PROVE Fresh(u.rows[k])'
    BY DEF FreshTasks, Waits
  <2>2. CASE u \in Outdated(tasks, {e})
    BY <2>1, <2>2, FreshOutdated
  <2>3. CASE u.rows = <<e.msg>> /\ e.kind \in {"new", "edited"}
    <3>1. u.rows[k] = e.msg
      BY <2>3
    <3>2. e.msg \in stored \/ \E f \in events' : f.msg.id = e.msg.id /\ f.msg.ver > e.msg.ver
      <4>1. /\ \A f \in events : f.msg.id = e.msg.id => f = e \/ e.msg.ver < f.msg.ver
            /\ e.msg \in stored \/ \E f \in events' : f.msg.id = e.msg.id
        BY <1>2, <2>3, FirstHandled
      <4>2. \A f \in events : f.msg.ver \in Nat
        BY DataFacts, KnownRow
      <4> QED
        BY <2>1, <4>1, <4>2
    <3> QED
      BY <2>1, <3>1, <3>2 DEF Fresh
  <2> QED
    BY <1>2, <2>2, <2>3, EventTasks
<1>3. ASSUME NEW lost \in SUBSET events, Reconnect(lost) PROVE FreshTasks'
  <2>1. stored' = stored /\ events' = events \ lost
    BY <1>3 DEF Reconnect
  <2>2. \A u \in tasks' : u \in Outdated(tasks, lost) \/ u.rows = <<>>
    BY <1>3 DEF Reconnect, Task
  <2>3. Len(<<>>) = 0
    OBVIOUS
  <2> QED
    BY <2>1, <2>2, <2>3, FreshOutdated DEF FreshTasks, Waits
<1>4. CASE Calm
  <2>1. stored' = stored /\ events' = events
    BY <1>4, CalmTasks
  <2> SUFFICES ASSUME NEW u \in tasks', Waits(u), NEW k \in 1..Len(u.rows) PROVE Fresh(u.rows[k])
    BY <2>1 DEF FreshTasks, Waits, Fresh
  <2>2. CASE u \in tasks \/ \E t \in tasks : GoesOn(u, t)
    BY <2>2 DEF FreshTasks, Waits, GoesOn
  <2>3. CASE u.rows = <<>> \/ \A j \in 1..Len(u.rows) : u.rows[j] \in stored
    BY <2>3 DEF Fresh
  <2> QED
    BY <1>4, <2>2, <2>3, CalmTasks
<1> QED
  BY <1>1, <1>2, <1>3, <1>4 DEF Next, Faults, Calm

-----------------------------------------------------------------------------
(* The pagination objects and the functions that work on them *)

\* A step that makes no load and no page keeps the functions apart.
Traces == \A u \in tasks' : Made(u) => \E t \in tasks : Alike(u, t)

LEMMA Fewer ==
    ASSUME Apart, NEW ts, ts \subseteq tasks, NEW us, tasks' = ts \cup us, \A u \in us : ~Made(u)
    PROVE  Traces /\ Apart'
<1>1. Traces
  BY DEF Traces, Alike
<1>2. ASSUME NEW t \in tasks', NEW u \in tasks', Made(t), Alike(t, u) PROVE t = u
  <2>1. Made(u) /\ t \in tasks /\ u \in tasks
    BY <1>2 DEF Made, Alike
  <2> QED
    BY <1>2, <2>1 DEF Apart
<1>3. Apart'
  BY <1>2 DEF Apart, Made, Alike
<1> QED
  BY <1>1, <1>3

LEMMA Moved ==
    ASSUME Apart, NEW t \in tasks, NEW u, tasks' = (tasks \ {t}) \cup {u}, Alike(u, t)
    PROVE  Traces /\ Apart'
<1>1. Traces
  BY DEF Traces, Alike
<1>2. ASSUME NEW x \in tasks', NEW y \in tasks', Made(x), Alike(x, y) PROVE x = y
  <2>1. CASE x = u /\ y # u
    <3>1. y \in tasks /\ y # t /\ Made(t) /\ Alike(t, y)
      BY <1>2, <2>1 DEF Made, Alike
    <3> QED
      BY <3>1 DEF Apart
  <2>2. CASE x # u /\ y = u
    <3>1. x \in tasks /\ x # t /\ Alike(x, t)
      BY <1>2, <2>2 DEF Alike
    <3> QED
      BY <1>2, <3>1 DEF Apart
  <2>3. CASE x # u /\ y # u
    BY <1>2, <2>3 DEF Apart
  <2> QED
    BY <2>1, <2>2, <2>3
<1>3. Apart'
  BY <1>2 DEF Apart, Made, Alike
<1> QED
  BY <1>1, <1>3

LEMMA MarkedOnes ==
    ASSUME NEW of, Data(of), Apart, NEW es, NEW us, tasks' = Outdated(tasks, es) \cup us, \A u \in us : ~Made(u)
    PROVE  Traces /\ Apart'
<1>1. \A u \in Outdated(tasks, es) : \E t \in tasks : Alike(u, t)
  BY OutdatedOnes DEF Alike
<1>2. Traces
  BY <1>1 DEF Traces
<1>3. ASSUME NEW x \in Outdated(tasks, es), NEW y \in Outdated(tasks, es), Made(x), Alike(x, y) PROVE x = y
  <2>1. PICK t \in tasks : x = IF \E e \in es : Holds(t, e) THEN Marked(t) ELSE t
    BY DEF Outdated, Marked
  <2>2. PICK u \in tasks : y = IF \E e \in es : Holds(u, e) THEN Marked(u) ELSE u
    BY DEF Outdated, Marked
  <2>3. Alike(x, t) /\ Alike(y, u)
    <3>1. t \in TaskType(of) /\ u \in TaskType(of)
      BY DataFacts
    <3>2. Alike(Marked(t), t) /\ Alike(Marked(u), u)
      BY <3>1, MarkedTask DEF Alike
    <3> QED
      BY <2>1, <2>2, <3>2 DEF Alike
  <2>4. Made(t) /\ Alike(t, u)
    BY <1>3, <2>3 DEF Made, Alike
  <2>5. t = u
    BY <2>4 DEF Apart
  <2> QED
    BY <2>1, <2>2, <2>5
<1>4. ASSUME NEW x \in tasks', NEW y \in tasks', Made(x), Alike(x, y) PROVE x = y
  <2>1. Made(y)
    BY <1>4 DEF Made, Alike
  <2> QED
    BY <1>3, <1>4, <2>1
<1>5. Apart'
  BY <1>4 DEF Apart, Made, Alike
<1> QED
  BY <1>2, <1>5

\* What is left to show for such a step: the cursors.
Cursors ==
    \A c \in Convs :
        /\ pag'[c].gen = pag[c].gen /\ pag'[c].oldest <= sent' /\ (pag[c].mixed => pag'[c].mixed)
        /\ pag[c].oldest # 0 => pag'[c].oldest # 0
        /\ pag[c].busy => pag'[c].busy \/ \A u \in tasks' : ~Ours(u, "more", c)
        /\ pag'[c].mixed \/ (pag'[c].more = pag[c].more /\ pag'[c].oldest = pag[c].oldest) \/ ~Loading(c)'
LEMMA GenerationsKept ==
    ASSUME NEW of, Data(of), Generations, Traces, Apart', loads' = loads, Cursors,
           \A c \in Convs, u \in tasks' : Asking(u, c)' => \E t \in tasks : Alike(u, t) /\ t.pc \in {"ask", "answer"}
    PROVE  Generations'
<1>1. \A c \in Convs : pag'[c].gen <= loads' /\ pag'[c].oldest <= sent'
  BY DEF Cursors, Generations
<1>2. ASSUME NEW u \in tasks', Made(u) PROVE u.gen <= loads'
  <2>1. PICK t \in tasks : Alike(u, t)
    BY <1>2 DEF Traces
  <2>2. Made(t)
    BY <1>2, <2>1 DEF Made, Alike
  <2> QED
    BY <2>1, <2>2 DEF Generations, Alike
<1>3. ASSUME NEW c \in Convs, NEW u \in tasks', Ours(u, "more", c)'
      PROVE  pag'[c].busy /\ (~pag'[c].mixed => pag'[c].oldest # 0)
  <2>1. Made(u) /\ Ours(u, "more", c)
    BY <1>3 DEF Ours, Made, Cursors
  <2>2. PICK t \in tasks : Alike(u, t)
    BY <2>1 DEF Traces
  <2>3. Ours(t, "more", c)
    BY <2>1, <2>2 DEF Ours, Alike
  <2> QED
    BY <2>1, <2>3 DEF Generations, Cursors
<1>4. ASSUME NEW c \in Convs, Loading(c)', ~pag'[c].mixed PROVE pag'[c].more /\ pag'[c].oldest = 0
  <2>1. PICK u \in tasks' : Asking(u, c)'
    BY <1>4 DEF Loading
  <2>2. PICK t \in tasks : Alike(u, t) /\ t.pc \in {"ask", "answer"}
    BY <2>1
  <2>3. Asking(t, c)
    BY <2>1, <2>2 DEF Asking, Ours, Alike, Cursors
  <2>4. pag[c].more /\ pag[c].oldest = 0
    BY <1>4, <2>3 DEF Generations, Loading, Cursors
  <2> QED
    BY <1>4, <2>4 DEF Cursors
<1> QED
  BY <1>1, <1>2, <1>3, <1>4 DEF Generations, Made, Ours

\* A load begins: its pagination object is new, and no function has it yet.
LEMMA LoadGenerations ==
    ASSUME NEW of, Data(of), Generations, NEW c \in Convs, NEW ts, ts \subseteq tasks, Load(c, ts), sent' = sent
    PROVE  Generations'
<1>0. loads \in Nat /\ sent \in Nat /\ pag \in [Convs -> PagType]
  BY DEF Data, Counted
<1>1. PICK n : n = Task("load", c, "ask", loads', <<>>)
  OBVIOUS
<1>2. PICK p : p = [gen |-> loads', oldest |-> 0, more |-> TRUE, busy |-> FALSE, mixed |-> FALSE]
  OBVIOUS
<1>3. /\ loads' = loads + 1 /\ tasks' = ts \cup {n}
      /\ pag' = [pag EXCEPT ![c] = p]
      /\ n.kind = "load" /\ n.conv = c /\ n.gen = loads + 1
      /\ p.gen = loads + 1 /\ p.oldest = 0 /\ p.more /\ ~p.busy
  BY <1>1, <1>2 DEF Load, Task
<1> HIDE DEF Load
<1>4. \A t \in tasks : Made(t) => t.gen <= loads /\ t.gen \in Nat
  BY DataFacts, TaskRows DEF Generations
<1>5. \A d \in Convs : pag'[d] = IF d = c THEN p ELSE pag[d]
  BY <1>0, <1>3
<1>6. \A t \in tasks : Made(t) => t.gen # loads + 1
  BY <1>0, <1>4
<1>7. \A d \in Convs : pag'[d].gen <= loads' /\ pag'[d].oldest <= sent'
  <2>1. \A d \in Convs : pag[d].gen \in Nat /\ pag[d].gen <= loads /\ pag[d].oldest <= sent
    BY <1>0 DEF Generations, PagType
  <2> QED
    BY <1>0, <1>3, <1>5, <2>1
<1>8. \A t \in tasks' : Made(t) => t.gen <= loads'
  BY <1>0, <1>3, <1>4
<1>9. ASSUME NEW t \in tasks', NEW u \in tasks', Made(t), Alike(t, u) PROVE t = u
  <2>1. Made(u) /\ t.gen = u.gen
    BY <1>9 DEF Made, Alike
  <2> QED
    BY <1>3, <1>6, <1>9, <2>1 DEF Generations, Apart
<1>10. ASSUME NEW d \in Convs, NEW t \in tasks', Ours(t, "more", d)'
       PROVE  pag'[d].busy /\ (~pag'[d].mixed => pag'[d].oldest # 0)
  <2>1. t \in tasks /\ Made(t) /\ d # c
    BY <1>3, <1>5, <1>6, <1>10 DEF Ours, Made
  <2> QED
    BY <1>5, <1>10, <2>1 DEF Ours, Generations
<1>11. ASSUME NEW d \in Convs, Loading(d)', ~pag'[d].mixed PROVE pag'[d].more /\ pag'[d].oldest = 0
  <2>1. CASE d = c
    BY <1>3, <1>5, <2>1
  <2>2. CASE d # c
    BY <1>3, <1>5, <1>11, <2>2 DEF Loading, Asking, Ours, Generations
  <2> QED
    BY <2>1, <2>2
<1>12. Apart'
  BY <1>9 DEF Apart, Made, Alike
<1> QED
  BY <1>7, <1>8, <1>10, <1>11, <1>12 DEF Generations, Made

\* The user scrolls back: only if no other page is asked for.
LEMMA ScrollGenerations ==
    ASSUME NEW of, Data(of), Generations, Scroll
    PROVE  Generations'
<1>0. /\ loads \in Nat /\ sent \in Nat /\ pag \in [Convs -> PagType]
      /\ listener \in Convs
  BY DEF Data, Counted, Scroll, PageTyped
<1>1. PICK n : n = Task("more", listener, "ask", pag[listener].gen, <<>>)
  OBVIOUS
<1>2. /\ n.kind = "more" /\ n.conv = listener /\ n.gen = pag[listener].gen
      /\ tasks' = tasks \cup {n} /\ loads' = loads /\ sent' = sent
      /\ pag[listener].more /\ ~pag[listener].busy /\ pag[listener].oldest # 0
      /\ pag' = [pag EXCEPT ![listener].busy = TRUE]
  BY <1>1 DEF Scroll, Task, db
<1>3. \A d \in Convs :
         /\ pag'[d].gen = pag[d].gen /\ pag'[d].oldest = pag[d].oldest /\ pag'[d].more = pag[d].more
         /\ pag'[d].mixed = pag[d].mixed /\ pag'[d].busy = (pag[d].busy \/ d = listener)
  BY <1>0, <1>2 DEF PagType
<1>4. \A t \in tasks : ~Ours(t, "more", listener)
  BY <1>0, <1>2 DEF Generations
<1>5. ASSUME NEW t \in tasks', NEW u \in tasks', Made(t), Alike(t, u) PROVE t = u
  <2>1. \A x \in tasks : ~Alike(n, x) /\ ~Alike(x, n)
    BY <1>2, <1>4 DEF Alike, Ours
  <2> QED
    BY <1>2, <1>5, <2>1 DEF Generations, Apart
<1>6. Apart'
  BY <1>5 DEF Apart, Made, Alike
<1>7. ASSUME NEW d \in Convs, Loading(d)' PROVE Loading(d)
  BY <1>2, <1>3, <1>7 DEF Loading, Asking, Ours
<1>8. ASSUME NEW d \in Convs, NEW t \in tasks', Ours(t, "more", d)'
      PROVE  pag'[d].busy /\ (~pag'[d].mixed => pag'[d].oldest # 0)
  <2>1. CASE t = n
    BY <1>2, <1>3, <1>8, <2>1 DEF Ours
  <2>2. CASE t # n
    BY <1>2, <1>3, <1>8, <2>2 DEF Ours, Generations
  <2> QED
    BY <2>1, <2>2
<1> QED
  BY <1>0, <1>2, <1>3, <1>6, <1>7, <1>8 DEF Generations, Made

\* The cursor moves to the first row of a page.
LEMMA CursorMoves ==
    ASSUME NEW of, Data(of), NEW t \in tasks, NEW p \in PagType, NEW q, q = Cursor(p, t.rows)
    PROVE  /\ q \in PagType /\ q.gen = p.gen /\ q.busy = p.busy /\ q.mixed = p.mixed
           /\ q.more = (p.more /\ ~(Len(t.rows) < PageSize))
           /\ t.rows = <<>> => q.oldest = p.oldest
           /\ t.rows # <<>> => /\ q.oldest = t.rows[1].id /\ q.oldest # 0 /\ q.oldest <= sent
                               /\ 1 \in 1..Len(t.rows)
<1>1. t.rows \in Seq(Known(of)) /\ q \in PagType /\ q.busy = p.busy /\ q.gen = p.gen
  BY DataFacts, TaskRows, CursorTyped
<1>2. t.rows # <<>> => 1 \in 1..Len(t.rows) /\ t.rows[1] \in Known(of)
  BY <1>1
<1>3. t.rows # <<>> => t.rows[1].id # 0 /\ t.rows[1].id <= sent
  BY <1>2 DEF Known, Data, Counted
<1>4. /\ q.mixed = p.mixed /\ q.oldest = (IF t.rows = <<>> THEN p.oldest ELSE t.rows[1].id)
      /\ q.more = (p.more /\ ~(Len(t.rows) < PageSize))
  BY DEF Cursor, PagType, LastPage
<1> QED
  BY <1>1, <1>2, <1>3, <1>4

\* An answer of a load is written to the object of the newest load.
LEMMA AnsweredCursors ==
    ASSUME NEW of, Data(of), Generations, NEW t \in tasks, Answers(t, "load"), Made(t), sent' = sent,
           pag' = [pag EXCEPT ![t.conv] = Answered(t)],
           \A u \in tasks' : u \in tasks \/ (Alike(u, t) /\ u.pc = "keys"), t \notin tasks'
    PROVE  Cursors
<1>0. t.conv \in Convs /\ pag \in [Convs -> PagType] /\ pag[t.conv] \in PagType
  BY DataFacts, TaskRows DEF Data
<1>1. PICK q : q = Cursor(pag[t.conv], t.rows)
  OBVIOUS
<1>2. /\ q \in PagType /\ q.gen = pag[t.conv].gen /\ q.busy = pag[t.conv].busy
      /\ pag[t.conv].oldest # 0 => q.oldest # 0
      /\ pag[t.conv].oldest <= sent => q.oldest <= sent
  BY <1>0, <1>1, CursorMoves
<1>3. PICK p : p = Answered(t)
  OBVIOUS
<1>4. /\ p.gen = q.gen /\ p.busy = q.busy /\ p.oldest = q.oldest
      /\ p.mixed = (pag[t.conv].mixed \/ pag[t.conv].gen # t.gen)
  BY <1>1, <1>2, <1>3 DEF Answered, PagType
<1>5. pag' = [pag EXCEPT ![t.conv] = p] /\ \A c \in Convs : pag'[c] = IF c = t.conv THEN p ELSE pag[c]
  BY <1>0, <1>3
<1>6. ASSUME ~p.mixed PROVE ~Loading(t.conv)'
  <2> SUFFICES ASSUME NEW u \in tasks', Asking(u, t.conv)' PROVE FALSE
    BY DEF Loading
  <2>1. u.gen = t.gen /\ u.conv = t.conv /\ u.kind = "load" /\ u.pc # "keys"
    BY <1>0, <1>2, <1>4, <1>5, <1>6 DEF Asking, Ours
  <2>2. u \in tasks /\ Alike(t, u)
    BY <2>1 DEF Alike, Answers
  <2> QED
    BY <2>2 DEF Generations, Apart
<1>7. \A c \in Convs : pag[c].oldest <= sent
  BY DEF Generations
<1> QED
  BY <1>0, <1>2, <1>4, <1>5, <1>6, <1>7 DEF Cursors

\* An older page moves the cursor of its own object, or of none.
LEMMA MoreCursors ==
    ASSUME NEW of, Data(of), Generations, NEW t \in tasks, t.kind = "more", sent' = sent,
           NEW p, Pagination(t, p), p.gen = pag[t.conv].gen, p.mixed = pag[t.conv].mixed,
           pag[t.conv].oldest # 0 => p.oldest # 0, p.oldest <= sent,
           p.busy = pag[t.conv].busy \/ t \notin tasks',
           \A u \in tasks' : u \in tasks \/ (Alike(u, t) /\ t \notin tasks' /\ p.busy = pag[t.conv].busy)
    PROVE  Cursors
<1>0. t.conv \in Convs /\ pag \in [Convs -> PagType] /\ Made(t)
  BY DataFacts, TaskRows DEF Data, Made
<1>7. \A c \in Convs : pag[c].oldest <= sent
  BY DEF Generations
<1>1. CASE pag' = pag
  BY <1>1, <1>7 DEF Cursors
<1>2. CASE pag' # pag
  <2>1. /\ pag' = [pag EXCEPT ![t.conv] = p] /\ Ours(t, "more", t.conv)
        /\ \A c \in Convs : pag'[c] = IF c = t.conv THEN p ELSE pag[c]
    BY <1>0, <1>2 DEF Pagination, Ours
  <2>2. p.busy = pag[t.conv].busy \/ \A u \in tasks' : ~Ours(u, "more", t.conv)
    <3> SUFFICES ASSUME p.busy # pag[t.conv].busy, NEW u \in tasks', Ours(u, "more", t.conv) PROVE FALSE
      OBVIOUS
    <3>1. u \in tasks /\ Alike(t, u)
      BY <2>1 DEF Ours, Alike
    <3> QED
      BY <1>0, <3>1 DEF Generations, Apart
  <2>3. pag[t.conv].mixed \/ ~Loading(t.conv)'
    <3> SUFFICES ASSUME ~pag[t.conv].mixed, NEW u \in tasks', Asking(u, t.conv)' PROVE FALSE
      BY DEF Loading
    <3>1. u \in tasks /\ Asking(u, t.conv)
      BY <1>0, <2>1 DEF Asking, Ours, Alike
    <3>2. pag[t.conv].oldest = 0
      BY <1>0, <3>1 DEF Generations, Loading
    <3> QED
      BY <1>0, <2>1, <3>2 DEF Generations
  <2> QED
    BY <1>0, <1>7, <2>1, <2>2, <2>3 DEF Cursors
<1> QED
  BY <1>1, <1>2

LEMMA MoreSteps ==
    ASSUME NEW of, Data(of), Generations, NEW t \in tasks,
           MoreStale(t) \/ MoreLoaded(t) \/ MoreRenders(t) \/ MoreFails(t) \/ MoreAwaitsKey(t)
    PROVE  Cursors
<1>0. t.conv \in Convs /\ pag \in [Convs -> PagType] /\ t.kind = "more" /\ sent' = sent
  <2>1. t.kind = "more" /\ sent' = sent
    BY DEF MoreStale, MoreLoaded, MoreRenders, MoreFails, MoreAwaitsKey, db
  <2> QED
    BY <2>1, DataFacts, TaskRows DEF Data, Made
<1>1. pag[t.conv] \in PagType /\ pag[t.conv].oldest <= sent
  BY <1>0 DEF Generations
<1>2. CASE MoreStale(t) \/ MoreRenders(t) \/ MoreFails(t)
  <2>1. PICK p : p = [pag[t.conv] EXCEPT !.busy = FALSE]
    OBVIOUS
  <2>2. p.gen = pag[t.conv].gen /\ p.mixed = pag[t.conv].mixed /\ p.oldest = pag[t.conv].oldest
    BY <1>1, <2>1 DEF PagType
  <2>3. Pagination(t, p) /\ tasks' = tasks \ {t}
    BY <1>2, <2>1 DEF MoreStale, MoreRenders, MoreFails, Released, Ends
  <2> QED
    BY <1>0, <1>1, <2>2, <2>3, MoreCursors
<1>3. PICK q : q = Cursor(pag[t.conv], t.rows)
  OBVIOUS
<1>4. /\ q \in PagType /\ q.gen = pag[t.conv].gen /\ q.mixed = pag[t.conv].mixed /\ q.busy = pag[t.conv].busy
      /\ (pag[t.conv].oldest # 0 => q.oldest # 0) /\ q.oldest <= sent
  BY <1>1, <1>3, CursorMoves
<1>5. CASE MoreLoaded(t)
  <2>1. PICK p : p = [q EXCEPT !.busy = FALSE]
    OBVIOUS
  <2>2. p.gen = q.gen /\ p.mixed = q.mixed /\ p.oldest = q.oldest
    BY <1>4, <2>1 DEF PagType
  <2>3. Pagination(t, p) /\ tasks' = tasks \ {t}
    BY <1>3, <1>5, <2>1 DEF MoreLoaded, Ends
  <2> QED
    BY <1>0, <1>4, <2>2, <2>3, MoreCursors
<1>6. CASE MoreAwaitsKey(t)
  <2>1. Pagination(t, q) /\ tasks' = (tasks \ {t}) \cup {[t EXCEPT !.pc = "keys"]} /\ t.pc = "answer"
    BY <1>3, <1>6 DEF MoreAwaitsKey, Becomes
  <2>2. PICK u : u = [t EXCEPT !.pc = "keys"]
    OBVIOUS
  <2>3. u.pc = "keys" /\ Alike(u, t)
    BY <2>2, DataFacts DEF TaskType, Alike
  <2>4. t \notin tasks'
    BY <2>1, <2>2, <2>3
  <2> QED
    BY <1>0, <1>4, <2>1, <2>2, <2>3, <2>4, MoreCursors
<1> QED
  BY <1>2, <1>5, <1>6

LEMMA GenerationsStep ==
    ASSUME NEW of, Data(of), Generations, [Next]_vars
    PROVE  Generations'
<1> DEFINE Kin == \A c \in Convs, u \in tasks' :
               Asking(u, c)' => \E t \in tasks : Alike(u, t) /\ t.pc \in {"ask", "answer"}
<1>0. sent \in Nat /\ pag \in [Convs -> PagType] /\ Apart /\ \A c \in Convs : pag[c].oldest \in Nat /\ pag[c].oldest <= sent
  BY DEF Data, Counted, Generations, PagType
<1>1. ASSUME Traces, Apart', loads' = loads, Cursors, Kin PROVE Generations'
  BY <1>1, GenerationsKept
<1>2. ASSUME pag' = pag, sent <= sent', sent' \in Nat PROVE Cursors
  BY <1>0, <1>2 DEF Cursors
<1>3. ASSUME tasks' \subseteq tasks PROVE Kin
  BY <1>3 DEF Asking, Ours, Alike
<1>4. ASSUME NEW t \in tasks, NEW u, tasks' = (tasks \ {t}) \cup {u}, Alike(u, t),
             u.pc \in {"ask", "answer"} => t.pc \in {"ask", "answer"}
      PROVE  Kin
  BY <1>4 DEF Asking, Ours, Alike
<1>5. ASSUME tasks' \subseteq tasks PROVE Traces /\ Apart'
  <2>1. PICK us : us = {}
    OBVIOUS
  <2>2. tasks' = tasks' \cup us /\ \A u \in us : ~Made(u)
    BY <2>1
  <2> QED
    BY <1>0, <1>5, <2>2, Fewer
<1>6. ASSUME NEW t \in tasks, NEW p \in {"channels", "keys"}, Becomes(t, [t EXCEPT !.pc = p])
      PROVE  /\ Traces /\ Apart' /\ Kin
             /\ \A u \in tasks' : u \in tasks \/ (Alike(u, t) /\ u.pc = p)
             /\ t.pc # p => t \notin tasks'
  <2>1. PICK u : u = [t EXCEPT !.pc = p]
    OBVIOUS
  <2>2. u.pc = p /\ Alike(u, t)
    BY <2>1, DataFacts DEF TaskType, Alike
  <2>3. tasks' = (tasks \ {t}) \cup {u}
    BY <1>6, <2>1 DEF Becomes
  <2> QED
    BY <1>0, <1>4, <2>2, <2>3, Moved
<1> HIDE DEF Kin
<1>10. CASE Server \/ UNCHANGED vars
  <2>1. tasks' = tasks /\ pag' = pag /\ loads' = loads
    BY <1>10 DEF Server, Send, Edit, Delete, vars, counts
  <2>2. sent' = sent \/ sent' = sent + 1
    BY <1>10 DEF Server, Send, Edit, Delete, vars, db
  <2> QED
    BY <1>0, <1>1, <1>2, <1>3, <1>5, <2>1, <2>2
<1>11. ASSUME NEW c \in Convs, NEW ts, ts \subseteq tasks, Load(c, ts), sent' = sent PROVE Generations'
  BY <1>11, LoadGenerations
<1>12. CASE User
  <2>1. CASE Scroll
    BY <2>1, ScrollGenerations
  <2>2. CASE EnterDms
    <3>1. tasks' = tasks /\ pag' = pag /\ loads' = loads /\ sent' = sent
      BY <2>2 DEF EnterDms, db
    <3> QED
      BY <1>0, <1>1, <1>2, <1>3, <1>5, <3>1
  <2>3. CASE OpenServer
    <3>1. PICK n : n = Task("server", None, "roles", moves', <<>>)
      OBVIOUS
    <3>2. n.kind = "server" /\ tasks' = tasks \cup {n} /\ pag' = pag /\ loads' = loads /\ sent' = sent
      BY <2>3, <3>1 DEF OpenServer, Task, db
    <3>3. ~Made(n) /\ Kin
      BY <3>2 DEF Kin, Asking, Ours, Alike, Made
    <3>4. Traces /\ Apart'
      <4>1. PICK us : us = {n}
        OBVIOUS
      <4>2. tasks' = tasks \cup us /\ \A u \in us : ~Made(u)
        BY <3>2, <3>3, <4>1
      <4> QED
        BY <1>0, <4>2, Fewer
    <3> QED
      BY <1>0, <1>1, <1>2, <3>2, <3>3, <3>4
  <2>4. CASE (\E c \in Channels : OpenChannel(c)) \/ (\E c \in Dms : OpenDm(c))
    <3>1. PICK c \in Convs : Load(c, tasks) /\ sent' = sent
      BY <2>4 DEF OpenChannel, OpenDm, Convs, db
    <3> QED
      BY <1>11, <3>1
  <2> QED
    BY <1>12, <2>1, <2>2, <2>3, <2>4 DEF User
<1>13. ASSUME NEW us, NEW es, tasks' = Outdated(tasks, es) \cup us, pag' = pag, loads' = loads, sent' = sent,
              \A u \in us : ~Made(u)
       PROVE  Generations'
  <2>1. Traces /\ Apart'
    BY <1>0, <1>13, MarkedOnes
  <2>2. Kin
    <3> SUFFICES ASSUME NEW c \in Convs, NEW u \in tasks', Asking(u, c)'
                 PROVE  \E t \in tasks : Alike(u, t) /\ t.pc \in {"ask", "answer"}
      BY DEF Kin
    <3>1. u \in Outdated(tasks, es) /\ u.pc \in {"ask", "answer"}
      BY <1>13 DEF Asking, Ours, Made
    <3> QED
      BY <3>1, OutdatedOnes DEF Alike
  <2> QED
    BY <1>0, <1>1, <1>2, <1>13, <2>1, <2>2
<1>14. ASSUME NEW e \in events, Event(e) PROVE Generations'
  <2>1. /\ Outdated(tasks, {e}) \subseteq tasks'
        /\ \A u \in tasks' : u \in Outdated(tasks, {e}) \/ u.kind \in {"live", "edit"}
        /\ pag' = pag /\ loads' = loads /\ sent' = sent
    BY <1>14, EventTasks
  <2>2. PICK us : us = {u \in tasks' : u.kind \in {"live", "edit"}}
    OBVIOUS
  <2>3. tasks' = Outdated(tasks, {e}) \cup us /\ \A u \in us : ~Made(u)
    BY <2>1, <2>2 DEF Made
  <2> QED
    BY <1>13, <2>1, <2>3
<1>15. ASSUME NEW lost \in SUBSET events, Reconnect(lost) PROVE Generations'
  <2>1. PICK n : n = Task("recheck", None, "timer", trouble', <<>>)
    OBVIOUS
  <2>2. /\ tasks' = Outdated(tasks, lost) \cup {n} /\ n.kind = "recheck"
        /\ pag' = pag /\ loads' = loads /\ sent' = sent
    BY <1>15, <2>1 DEF Reconnect, Task
  <2>3. PICK us : us = {n}
    OBVIOUS
  <2>4. tasks' = Outdated(tasks, lost) \cup us /\ \A u \in us : ~Made(u)
    BY <2>2, <2>3 DEF Made
  <2> QED
    BY <1>13, <2>2, <2>4
<1>16. ASSUME NEW t \in tasks, LoadFails(t) \/ MoreFails(t) \/ TaskStep(t) PROVE Generations'
  <2>1. CASE LoadFails(t) \/ DmLoadRenders(t) \/ DmNewRenders(t) \/ DmEditRenders(t)
    <3>1. tasks' \subseteq tasks /\ pag' = pag /\ loads' = loads /\ sent' = sent
      BY <2>1 DEF LoadFails, DmLoadRenders, DmNewRenders, DmEditRenders, Ends, db, counts
    <3> QED
      BY <1>0, <1>1, <1>2, <1>3, <1>5, <3>1
  <2>2. CASE MoreStale(t) \/ MoreLoaded(t) \/ MoreRenders(t) \/ MoreFails(t) \/ MoreAwaitsKey(t)
    <3>1. Cursors
      BY <2>2, MoreSteps
    <3>2. loads' = loads
      BY <2>2 DEF MoreStale, MoreLoaded, MoreRenders, MoreFails, MoreAwaitsKey, counts
    <3>3. Traces /\ Apart' /\ Kin
      <4>1. CASE MoreAwaitsKey(t)
        BY <1>6, <4>1 DEF MoreAwaitsKey
      <4>2. CASE ~MoreAwaitsKey(t)
        BY <1>3, <1>5, <2>2, <4>2 DEF MoreStale, MoreLoaded, MoreRenders, MoreFails, Ends
      <4> QED
        BY <4>1, <4>2
    <3> QED
      BY <1>1, <3>1, <3>2, <3>3
  <2>3. CASE Read(t)
    <3>1. PICK u : tasks' = (tasks \ {t}) \cup {u} /\ u.kind = t.kind /\ u.conv = t.conv /\ u.gen = t.gen
      BY <2>3, ReadFields
    <3>2. t.pc = "ask" /\ Alike(u, t) /\ pag' = pag /\ loads' = loads /\ sent' = sent
      BY <2>3, <3>1 DEF Read, Alike, db, counts
    <3> QED
      BY <1>0, <1>1, <1>2, <1>4, <3>1, <3>2, Moved
  <2>4. CASE ServerShown(t)
    <3>1. pag' = pag /\ loads' = loads /\ sent' = sent /\ Becomes(t, [t EXCEPT !.pc = "channels"])
      BY <2>4 DEF ServerShown, db, counts
    <3>2. Traces /\ Apart' /\ Kin
      BY <1>6, <3>1
    <3> QED
      BY <1>0, <1>1, <1>2, <3>1, <3>2
  <2>5. CASE ChannelsLoaded(t) \/ Recheck(t)
    <3>1. \/ tasks' \subseteq tasks /\ pag' = pag /\ loads' = loads /\ sent' = sent
          \/ \E c \in Convs : Load(c, tasks \ {t}) /\ sent' = sent
      BY <2>5, ConversationAssumption DEF ChannelsLoaded, Recheck, Ends, db, Convs, Data, PageTyped
    <3> QED
      BY <1>0, <1>1, <1>2, <1>3, <1>5, <1>11, <3>1
  <2>6. CASE ChannelLoaded(t) \/ DmLoaded(t)
    <3>1. loads' = loads /\ sent' = sent /\ Answers(t, "load") /\ Made(t)
      BY <2>6 DEF ChannelLoaded, DmLoaded, db, counts, Answers, Made
    <3>2. Traces /\ Apart' /\ Kin /\ (\A u \in tasks' : u \in tasks \/ (Alike(u, t) /\ u.pc = "keys")) /\ t \notin tasks'
      <4>1. CASE Becomes(t, [t EXCEPT !.pc = "keys"])
        BY <1>6, <3>1, <4>1 DEF Answers
      <4>2. CASE Ends(t)
        BY <1>3, <1>5, <4>2 DEF Ends
      <4> QED
        BY <2>6, <4>1, <4>2 DEF ChannelLoaded, DmLoaded
    <3>3. pag' = pag \/ pag' = [pag EXCEPT ![t.conv] = Answered(t)]
      BY <2>6 DEF ChannelLoaded, DmLoaded
    <3>4. Cursors
      BY <1>0, <1>2, <3>1, <3>2, <3>3, AnsweredCursors
    <3> QED
      BY <1>1, <3>1, <3>2, <3>4
  <2> QED
    BY <1>16, <2>1, <2>2, <2>3, <2>4, <2>5, <2>6 DEF TaskStep
<1> QED
  BY <1>10, <1>12, <1>14, <1>15, <1>16 DEF Next, Faults

-----------------------------------------------------------------------------
(* What an answer leaves out *)

\* What the database has more of is announced.
LEMMA ServerIds ==
    ASSUME NEW of, Data(of), Server
    PROVE  /\ tasks' = tasks /\ pag' = pag
           /\ \A i : Announced(i) => Announced(i)'
           /\ \A m \in stored' : \/ \E n \in stored : n.id = m.id /\ n.conv = m.conv
                                 \/ m.id = sent + 1 /\ Announced(m.id)'
<1>1. ASSUME NEW c \in Convs, Send(c)
      PROVE  \A m \in stored' : m \in stored \/ (m.id = sent + 1 /\ Announced(m.id)')
  <2>1. PICK m : m = Message(sent', c, 0)
    OBVIOUS
  <2>2. PICK n : n = [kind |-> "new", msg |-> m]
    OBVIOUS
  <2>3. stored' = stored \cup {m} /\ events' = events \cup {n} /\ n.msg = m /\ n.kind = "new" /\ m.id = sent + 1
    BY <1>1, <2>1, <2>2 DEF Send, Message
  <2> QED
    BY <2>3 DEF Announced
<1>2. ASSUME NEW m \in stored, Edit(m) \/ Delete(m)
      PROVE  \A n \in stored' : \E x \in stored : x.id = n.id /\ x.conv = n.conv
  <2>1. PICK n : n = [m EXCEPT !.ver = @ + 1]
    OBVIOUS
  <2>2. \A x \in stored' : x \in stored \/ x = n
    BY <1>2, <2>1 DEF Edit, Delete
  <2>3. n.id = m.id /\ n.conv = m.conv
    BY <2>1, DataFacts, KnownRow
  <2> QED
    BY <2>2, <2>3
<1>3. tasks' = tasks /\ pag' = pag /\ events \subseteq events'
  BY DEF Server, Send, Edit, Delete
<1>4. \A i : Announced(i) => Announced(i)'
  BY <1>3 DEF Announced
<1> QED
  BY <1>1, <1>2, <1>3, <1>4 DEF Server

\* Events of other conversations leave alone what is announced.
LEMMA StillAnnounced ==
    ASSUME NEW of, Data(of), NEW es \in SUBSET events, events' = events \ es, NEW m \in stored, Announced(m.id),
           \A e \in es : e.msg.conv # m.conv
    PROVE  Announced(m.id)'
<1>1. PICK f \in events : f.kind = "new" /\ f.msg.id = m.id
  BY DEF Announced
<1>2. f.msg.conv = m.conv
  BY <1>1, DataFacts, KnownRow
<1> QED
  BY <1>1, <1>2 DEF Announced

LEMMA LoadCoversStep ==
    ASSUME NEW of, Data(of), LoadCovers, [Next]_vars
    PROVE  LoadCovers'
<1> DEFINE Covered(t) ==
        \A m \in stored : m.conv = t.conv => m.id \in Ids(t.rows) \/ Beyond(t.rows, m.id) \/ Announced(m.id)
<1>1. CASE Server
  <2> SUFFICES ASSUME NEW t \in tasks, Answers(t, "load"), ~t.old, NEW m \in stored', m.conv = t.conv
               PROVE  m.id \in Ids(t.rows) \/ Beyond(t.rows, m.id) \/ Announced(m.id)'
    BY <1>1, ServerIds DEF LoadCovers
  <2> QED
    BY <1>1, ServerIds DEF LoadCovers
<1>2. ASSUME NEW es \in SUBSET events, events' = events \ es, stored' = stored,
             \A u \in tasks' : u \in Outdated(tasks, es) \/ ~Answers(u, "load")
      PROVE  LoadCovers'
  <2> SUFFICES ASSUME NEW u \in tasks', Answers(u, "load"), ~u.old, NEW m \in stored, m.conv = u.conv
               PROVE  m.id \in Ids(u.rows) \/ Beyond(u.rows, m.id) \/ Announced(m.id)'
    BY <1>2 DEF LoadCovers
  <2>1. u \in tasks /\ \A e \in es : ~Holds(u, e)
    BY <1>2, OutdatedOnes
  <2>2. \A e \in es : e.msg.conv # m.conv
    BY <2>1 DEF Holds, Answers
  <2> QED
    BY <1>2, <2>1, <2>2, StillAnnounced DEF LoadCovers
<1>3. ASSUME NEW e \in events, Event(e) PROVE LoadCovers'
  <2>1. events' = events \ {e} /\ stored' = stored
    BY <1>3 DEF Event, ChannelNew, DmNew, Edited, Deleted, Handles
  <2>2. \A u \in tasks' : u \in Outdated(tasks, {e}) \/ ~Answers(u, "load")
    BY <1>3, EventTasks DEF Answers
  <2>3. PICK es \in SUBSET events : es = {e}
    OBVIOUS
  <2> QED
    BY <1>2, <2>1, <2>2, <2>3
<1>4. ASSUME NEW lost \in SUBSET events, Reconnect(lost) PROVE LoadCovers'
  <2>1. PICK n : n = Task("recheck", None, "timer", trouble', <<>>)
    OBVIOUS
  <2>2. n.kind = "recheck" /\ tasks' = Outdated(tasks, lost) \cup {n} /\ events' = events \ lost /\ stored' = stored
    BY <1>4, <2>1 DEF Reconnect, Task
  <2> QED
    BY <1>2, <2>2 DEF Answers
<1>5. ASSUME NEW t \in tasks, Read(t) PROVE LoadCovers'
  <2>1. PICK u : /\ tasks' = (tasks \ {t}) \cup {u} /\ u.kind = t.kind /\ u.conv = t.conv
                 /\ u.rows \in Orders(Page(t.conv, IF t.kind = "more" THEN pag[t.conv].oldest ELSE 0))
    BY <1>5, ReadFields
  <2>2. stored' = stored /\ events' = events
    BY <1>5 DEF Read, db
  <2>3. ASSUME u.kind = "load", NEW m \in stored, m.conv = u.conv PROVE m.id \in Ids(u.rows) \/ Beyond(u.rows, m.id)
    <3>1. u.rows \in Orders(Page(t.conv, 0)) /\ m \in Before(t.conv, 0)
      BY <2>1, <2>3 DEF Before
    <3> QED
      BY <3>1, PageHolds DEF Data
  <2> QED
    BY <2>1, <2>2, <2>3 DEF LoadCovers, Answers, Announced
<1>6. CASE Calm /\ ~\E t \in tasks : Read(t)
  <2>1. /\ stored' = stored /\ events' = events
        /\ \A u \in tasks' : \/ u \in tasks \/ u.pc # "answer"
    BY <1>6, CalmTasks
  <2> QED
    BY <2>1 DEF LoadCovers, Answers, Announced
<1> QED
  BY <1>1, <1>3, <1>4, <1>5, <1>6 DEF Next, Faults, Calm

\* The cursor of a page that is under way stands still, so that the answer
\* holds what is older.
LEMMA MoreCoversStep ==
    ASSUME NEW of, Data(of), Generations, Generations', MoreCovers, [Next]_vars
    PROVE  MoreCovers'
<1>0. sent \in Nat /\ pag \in [Convs -> PagType] /\ \A c \in Convs : pag[c].oldest \in Nat /\ pag[c].oldest <= sent
  BY DEF Data, Counted, Generations, PagType
<1> DEFINE Still(t, c) == /\ t \in tasks /\ pag'[c].gen = pag[c].gen /\ pag'[c].oldest = pag[c].oldest
                          /\ ~pag'[c].mixed => ~pag[c].mixed
<1>1. ASSUME stored' = stored,
             \A u \in tasks', c \in Convs : Ours(u, "more", c)' /\ u.pc = "answer" /\ ~pag'[c].mixed => Still(u, c)
      PROVE  MoreCovers'
  <2> SUFFICES ASSUME NEW u \in tasks', NEW c \in Convs, Ours(u, "more", c)', u.pc = "answer", ~pag'[c].mixed,
                      NEW m \in stored, m.conv = c, m.id < pag'[c].oldest
               PROVE  m.id \in Ids(u.rows) \/ Beyond(u.rows, m.id)
    BY <1>1 DEF MoreCovers, Ours
  <2>1. Still(u, c)
    BY <1>1
  <2>2. Ours(u, "more", c)
    BY <2>1 DEF Ours
  <2> QED
    BY <2>1, <2>2 DEF MoreCovers
<1>2. CASE Server
  <2>1. tasks' = tasks /\ pag' = pag
    BY <1>2, ServerIds
  <2> SUFFICES ASSUME NEW t \in tasks, NEW c \in Convs, Ours(t, "more", c), t.pc = "answer", ~pag[c].mixed,
                      NEW m \in stored', m.conv = c, m.id < pag[c].oldest
               PROVE  m.id \in Ids(t.rows) \/ Beyond(t.rows, m.id)
    BY <2>1 DEF MoreCovers, Ours
  <2>2. m.id # sent + 1
    BY <1>0
  <2>3. \E n \in stored : n.id = m.id /\ n.conv = m.conv
    BY <1>2, <2>2, ServerIds
  <2> QED
    BY <2>3 DEF MoreCovers
<1>3. ASSUME NEW es \in SUBSET events, stored' = stored, pag' = pag,
             \A u \in tasks' : u \in Outdated(tasks, es) \/ ~Made(u)
      PROVE  MoreCovers'
  <2> SUFFICES ASSUME NEW u \in tasks', NEW c \in Convs, Ours(u, "more", c), u.pc = "answer", ~pag[c].mixed,
                      NEW m \in stored, m.conv = c, m.id < pag[c].oldest
               PROVE  m.id \in Ids(u.rows) \/ Beyond(u.rows, m.id)
    BY <1>3 DEF MoreCovers, Ours
  <2>1. PICK t \in tasks : t.kind = u.kind /\ t.pc = u.pc /\ t.conv = u.conv /\ t.gen = u.gen /\ t.rows = u.rows
    BY <1>3, OutdatedOnes DEF Ours, Made
  <2> QED
    BY <2>1 DEF MoreCovers, Ours
<1>4. ASSUME NEW e \in events, Event(e) PROVE MoreCovers'
  <2>1. stored' = stored
    BY <1>4 DEF Event, ChannelNew, DmNew, Edited, Deleted
  <2>2. pag' = pag /\ \A u \in tasks' : u \in Outdated(tasks, {e}) \/ ~Made(u)
    BY <1>4, EventTasks DEF Made
  <2>3. PICK es \in SUBSET events : es = {e}
    OBVIOUS
  <2> QED
    BY <1>3, <2>1, <2>2, <2>3
<1>5. ASSUME NEW lost \in SUBSET events, Reconnect(lost) PROVE MoreCovers'
  <2>1. PICK n : n = Task("recheck", None, "timer", trouble', <<>>)
    OBVIOUS
  <2>2. n.kind = "recheck" /\ tasks' = Outdated(tasks, lost) \cup {n} /\ pag' = pag /\ stored' = stored
    BY <1>5, <2>1 DEF Reconnect, Task
  <2> QED
    BY <1>3, <2>2 DEF Made
<1>6. ASSUME NEW t \in tasks, Read(t) PROVE MoreCovers'
  <2>1. PICK u : /\ tasks' = (tasks \ {t}) \cup {u} /\ u.kind = t.kind /\ u.conv = t.conv
                 /\ u.rows \in Orders(Page(t.conv, IF t.kind = "more" THEN pag[t.conv].oldest ELSE 0))
    BY <1>6, ReadFields
  <2>2. stored' = stored /\ pag' = pag
    BY <1>6 DEF Read, db
  <2>3. ASSUME NEW c \in Convs, Ours(u, "more", c), NEW m \in stored, m.conv = c, m.id < pag[c].oldest
        PROVE  m.id \in Ids(u.rows) \/ Beyond(u.rows, m.id)
    <3>1. u.rows \in Orders(Page(t.conv, pag[c].oldest)) /\ m \in Before(t.conv, pag[c].oldest)
      BY <2>1, <2>3 DEF Before, Ours
    <3> QED
      BY <3>1, PageHolds DEF Data
  <2> QED
    BY <2>1, <2>2, <2>3 DEF MoreCovers, Ours
<1>7. ASSUME Calm, ~\E t \in tasks : Read(t) PROVE MoreCovers'
  <2>1. stored' = stored /\ \A u \in tasks' : u \in tasks \/ u.pc # "answer"
    BY <1>7, CalmTasks
  <2>2. ASSUME pag' = pag PROVE MoreCovers'
    BY <1>1, <2>1, <2>2
  <2>3. ASSUME NEW c \in Convs, NEW p \in PagType, pag' = [pag EXCEPT ![c] = p],
               \/ p.gen > loads
               \/ p.gen = pag[c].gen /\ p.oldest = pag[c].oldest /\ p.mixed = pag[c].mixed
               \/ p.gen = pag[c].gen /\ (p.mixed \/ \A u \in tasks' : ~(Ours(u, "more", c) /\ u.pc = "answer"))
        PROVE  MoreCovers'
    <3>1. \A d \in Convs : pag'[d] = IF d = c THEN p ELSE pag[d]
      BY <1>0, <2>3
    <3>2. ASSUME NEW u \in tasks', NEW d \in Convs, Ours(u, "more", d)', u.pc = "answer", ~pag'[d].mixed
          PROVE  Still(u, d)
      <4>1. u \in tasks /\ Made(u) /\ u.gen <= loads /\ u.gen = pag'[d].gen /\ u.gen \in Nat /\ loads \in Nat
        BY <2>1, <3>2, DataFacts, TaskRows DEF Ours, Made, Generations, Data, Counted
      <4> QED
        BY <2>3, <3>1, <3>2, <4>1 DEF Ours, PagType
    <3> QED
      BY <1>1, <2>1, <3>2
  <2>4. ASSUME NEW c \in Convs, NEW ts, Load(c, ts) PROVE MoreCovers'
    <3>1. PICK p : p = [gen |-> loads', oldest |-> 0, more |-> TRUE, busy |-> FALSE, mixed |-> FALSE]
      OBVIOUS
    <3>2. pag' = [pag EXCEPT ![c] = p] /\ p \in PagType /\ p.gen > loads
      BY <2>4, <3>1 DEF Load, PagType, Data, Counted
    <3> QED
      BY <2>3, <3>2
  <2>5. CASE User
    <3>1. CASE Scroll
      <4>1. listener \in Convs /\ pag[listener] \in PagType
        BY <1>0, <3>1 DEF Scroll, Data, PageTyped
      <4>2. PICK p : p = [pag[listener] EXCEPT !.busy = TRUE]
        OBVIOUS
      <4>3. /\ p \in PagType /\ p.gen = pag[listener].gen /\ p.oldest = pag[listener].oldest
            /\ p.mixed = pag[listener].mixed
        BY <4>1, <4>2 DEF PagType
      <4>4. pag' = [pag EXCEPT ![listener] = p]
        BY <3>1, <4>2 DEF Scroll
      <4> QED
        BY <2>3, <4>1, <4>3, <4>4
    <3>2. CASE ~Scroll
      BY <2>2, <2>4, <2>5, <3>2 DEF User, OpenChannel, OpenDm, EnterDms, OpenServer, Convs
    <3> QED
      BY <3>1, <3>2
  <2>6. CASE UNCHANGED vars
    BY <2>2, <2>6 DEF vars
  <2>7. ASSUME NEW t \in tasks, LoadFails(t) \/ MoreFails(t) \/ TaskStep(t) PROVE MoreCovers'
    <3>0. Made(t) => t.conv \in Convs /\ pag[t.conv] \in PagType
      BY <1>0, DataFacts, TaskRows
    <3>1. CASE LoadFails(t) \/ DmLoadRenders(t) \/ DmNewRenders(t) \/ DmEditRenders(t) \/ ServerShown(t)
      BY <2>2, <3>1 DEF LoadFails, DmLoadRenders, DmNewRenders, DmEditRenders, ServerShown
    <3>2. CASE ChannelsLoaded(t) \/ Recheck(t)
      BY <2>2, <2>4, <3>2, ConversationAssumption DEF ChannelsLoaded, Recheck, Convs, Data, PageTyped
    <3>3. CASE MoreStale(t) \/ MoreRenders(t) \/ MoreFails(t)
      <4>1. PICK p : p = [pag[t.conv] EXCEPT !.busy = FALSE]
        OBVIOUS
      <4>2. Made(t) /\ Pagination(t, p)
        BY <3>3, <4>1 DEF MoreStale, MoreRenders, MoreFails, Released, Made
      <4>3. /\ p \in PagType /\ p.gen = pag[t.conv].gen /\ p.mixed = pag[t.conv].mixed
            /\ p.oldest = pag[t.conv].oldest
        BY <3>0, <4>1, <4>2 DEF PagType
      <4> QED
        BY <2>2, <2>3, <3>0, <4>2, <4>3 DEF Pagination
    <3>4. CASE MoreLoaded(t) \/ MoreAwaitsKey(t)
      <4>1. PICK q : q = Cursor(pag[t.conv], t.rows)
        OBVIOUS
      <4>2. PICK p : p = [q EXCEPT !.busy = FALSE]
        OBVIOUS
      <4>3. Made(t) /\ t.kind = "more" /\ t.pc = "answer" /\ (Pagination(t, p) \/ Pagination(t, q))
        BY <3>4, <4>1, <4>2 DEF MoreLoaded, MoreAwaitsKey, Made
      <4>4. q \in PagType /\ p \in PagType /\ q.gen = pag[t.conv].gen /\ p.gen = q.gen
        <5>1. q \in PagType /\ q.gen = pag[t.conv].gen
          BY <3>0, <4>1, <4>3, CursorMoves
        <5> QED
          BY <4>2, <5>1 DEF PagType
      <4>5. t \notin tasks'
        <5>1. CASE Ends(t)
          BY <5>1 DEF Ends
        <5>2. CASE Becomes(t, [t EXCEPT !.pc = "keys"])
          <6>1. t # [t EXCEPT !.pc = "keys"]
            BY <4>3, DataFacts DEF TaskType
          <6> QED
            BY <5>2, <6>1 DEF Becomes
        <5> QED
          BY <3>4, <5>1, <5>2 DEF MoreLoaded, MoreAwaitsKey
      <4>6. ASSUME t.gen = pag[t.conv].gen, NEW u \in tasks', Ours(u, "more", t.conv), u.pc = "answer" PROVE FALSE
        <5>1. u \in tasks /\ Alike(t, u)
          BY <2>1, <4>3, <4>6 DEF Ours, Alike
        <5> QED
          BY <4>3, <4>5, <5>1 DEF Generations, Apart
      <4> QED
        BY <2>2, <2>3, <3>0, <4>3, <4>4, <4>6 DEF Pagination
    <3>5. CASE ChannelLoaded(t) \/ DmLoaded(t)
      <4>1. PICK q : q = Cursor(pag[t.conv], t.rows)
        OBVIOUS
      <4>2. PICK p : p = Answered(t)
        OBVIOUS
      <4>3. /\ Made(t) /\ t.kind = "load" /\ t.pc = "answer"
            /\ pag' = pag \/ pag' = [pag EXCEPT ![t.conv] = p]
        BY <3>5, <4>2 DEF ChannelLoaded, DmLoaded, Made
      <4>4. q \in PagType /\ q.gen = pag[t.conv].gen /\ q.mixed = pag[t.conv].mixed
        BY <3>0, <4>1, <4>3, CursorMoves
      <4>5. p \in PagType /\ p.gen = q.gen /\ p.mixed = (q.mixed \/ pag[t.conv].gen # t.gen)
        BY <4>1, <4>2, <4>4 DEF Answered, PagType
      <4>6. ASSUME ~p.mixed, NEW u \in tasks', Ours(u, "more", t.conv), u.pc = "answer" PROVE FALSE
        <5>1. u \in tasks /\ Asking(t, t.conv) /\ ~pag[t.conv].mixed
          BY <2>1, <4>3, <4>4, <4>5, <4>6 DEF Asking, Ours
        <5> QED
          BY <3>0, <4>3, <4>6, <5>1 DEF Generations, Loading
      <4> QED
        BY <2>2, <2>3, <3>0, <4>3, <4>4, <4>5, <4>6
    <3> QED
      BY <1>7, <2>7, <3>1, <3>2, <3>3, <3>4, <3>5 DEF TaskStep
  <2> QED
    BY <1>7, <2>5, <2>6, <2>7 DEF Calm
<1> QED
  BY <1>2, <1>4, <1>5, <1>6, <1>7 DEF Next, Faults, Calm

-----------------------------------------------------------------------------
(* What is shown of the open conversation: the database and its events *)

\* Any rows of the conversation that are up to date make a good list.
Good(of, c) == {r \in Known(of) : RowOK(c, r)}
LEMMA GoodList ==
    ASSUME NEW S, NEW l \in Lists(S), NEW U, \A k \in DOMAIN l : l[k] \in U
    PROVE  l \in Lists(U)
<1>1. l \in Seq(S) /\ Distinct(l) /\ DOMAIN l = 1..Len(l)
  BY OfList DEF Lists
<1>2. l \in Seq(U)
  BY <1>1
<1> QED
  BY <1>1, <1>2 DEF Lists

\* Only one conversation is open.
LEMMA OneOpen ==
    ASSUME NEW c \in Convs, Only(c)
    PROVE  /\ \A d : d # None /\ Current(d) => d = c
           /\ Current(c) /\ c # None
  BY ConversationAssumption DEF Only, Current, Convs

LEMMA DatabaseView ==
    ASSUME NEW of, Data(of), Server, ViewOK
    PROVE  ViewOK'
<1> SUFFICES ASSUME NEW c \in Convs, Open(c)' PROVE Followed(c)'
  BY DEF ViewOK
<1>1. /\ tasks' = tasks /\ pag' = pag /\ list' = list /\ chan' = chan /\ dm' = dm /\ spoiled' = spoiled
  BY DEF Server, Send, Edit, Delete, view, screen
<1>2. Followed(c)
  BY <1>1 DEF Open, Only, ViewOK, Followed
<1>3. CASE Loading(c) \/ Doomed(c)
  BY <1>1, <1>3 DEF Loading, Asking, Ours, Doomed, Dooms, Followed
<1>4. CASE Right(c)
  <2>1. \A r : RowOK(c, r) => RowOK(c, r)'
    BY <1>1, FreshInDatabase DEF RowOK, Edits
  <2>2. ASSUME NEW i, Has(c, i) PROVE Has(c, i)'
    BY <1>1, <2>2, ServerIds DEF Has, Brings, Ours
  <2>3. ASSUME NEW m \in stored', m.conv = c PROVE Has(c, m.id)'
    <3>1. CASE Announced(m.id)'
      BY <3>1 DEF Has
    <3>2. CASE \E n \in stored : n.id = m.id /\ n.conv = m.conv
      BY <1>4, <2>2, <2>3, <3>2 DEF Right
    <3> QED
      BY <3>1, <3>2, ServerIds
  <2> QED
    BY <1>1, <1>4, <2>1, <2>3 DEF Right, Followed
<1> QED
  BY <1>2, <1>3, <1>4 DEF Followed

\* Events that are handled or lost, as far as they concern other rows.
LEMMA EventsKeep ==
    ASSUME NEW of, Data(of), NEW es \in SUBSET events, events' = events \ es, stored' = stored,
           Outdated(tasks, es) \subseteq tasks', pag' = pag, NEW c
    PROVE  /\ Loading(c) => Loading(c)'
           /\ Doomed(c) => Doomed(c)'
           /\ \A r : RowOK(c, r) /\ (\A e \in es : e.msg.id = r.id => ~(e.msg.ver > r.ver)) => RowOK(c, r)'
           /\ \A i : Announced(i) /\ (\A e \in es : ~(e.msg.id = i /\ e.kind = "new")) => Announced(i)'
           /\ \A i : (\E t \in tasks : Brings(t, c, i)) => \E t \in tasks' : Brings(t, c, i)'
<1>0. \A t \in tasks : \E u \in tasks' :
         /\ u.kind = t.kind /\ u.pc = t.pc /\ u.conv = t.conv /\ u.gen = t.gen /\ u.rows = t.rows
         /\ t.old => u.old
  BY OutdatedAll
<1>1. Loading(c) => Loading(c)'
  BY <1>0 DEF Loading, Asking, Ours
<1>2. Doomed(c) => Doomed(c)'
  BY <1>0 DEF Doomed, Dooms, Made
<1>3. ASSUME NEW r, RowOK(c, r), \A e \in es : e.msg.id = r.id => ~(e.msg.ver > r.ver) PROVE RowOK(c, r)'
  <2>1. CASE Fresh(r)
    BY <1>3, <2>1, FreshLeft DEF RowOK
  <2>2. CASE \E t \in tasks : Edits(t, r.id)
    <3>1. \E u \in tasks' : Edits(u, r.id)'
      BY <1>0, <2>2 DEF Edits
    <3> QED
      BY <1>3, <3>1 DEF RowOK
  <2> QED
    BY <1>3, <2>1, <2>2 DEF RowOK
<1>4. \A i : Announced(i) /\ (\A e \in es : ~(e.msg.id = i /\ e.kind = "new")) => Announced(i)'
  BY DEF Announced
<1>5. ASSUME NEW i, NEW t \in tasks, Brings(t, c, i) PROVE \E u \in tasks' : Brings(u, c, i)'
  <2>1. PICK u \in tasks' : u.kind = t.kind /\ u.pc = t.pc /\ u.conv = t.conv /\ u.gen = t.gen /\ u.rows = t.rows
    BY <1>0
  <2>2. Brings(u, c, i)'
    BY <1>5, <2>1 DEF Brings, Ours
  <2> QED
    BY <2>2
<1> QED
  BY <1>1, <1>2, <1>3, <1>4, <1>5

LEMMA ReconnectView ==
    ASSUME NEW of, Data(of), NEW lost \in SUBSET events, Reconnect(lost), ViewOK
    PROVE  ViewOK'
<1> SUFFICES ASSUME NEW c \in Convs, Open(c)' PROVE Followed(c)'
  BY DEF ViewOK
<1>1. /\ pag' = pag /\ list' = list /\ chan' = chan /\ dm' = dm /\ stored' = stored
      /\ events' = events \ lost /\ Outdated(tasks, lost) \subseteq tasks' /\ spoiled \subseteq spoiled'
      /\ spoiled' = {} => \A e \in lost : ~Current(e.msg.conv)
  BY DEF Reconnect, view
<1>2. Followed(c) /\ Only(c)
  BY <1>1 DEF Open, Only, ViewOK, Followed
<1>3. \A e \in lost : e.msg.conv # c /\ e.msg.conv = of[e.msg.id]
  BY <1>1, <1>2, OneOpen, DataFacts, KnownRow DEF Open
<1>4. CASE Loading(c) \/ Doomed(c)
  BY <1>1, <1>4, EventsKeep DEF Followed
<1>5. CASE Right(c)
  <2>1. ASSUME NEW k \in DOMAIN list PROVE RowOK(c, list[k])'
    <3>1. PICK r : r = list[k]
      OBVIOUS
    <3>2. r.conv = c /\ r.conv = of[r.id] /\ RowOK(c, r)
      BY <1>5, <3>1, DataFacts, KnownRow DEF Right, RowOK
    <3>3. \A e \in lost : e.msg.id # r.id
      BY <1>3, <3>2
    <3>4. RowOK(c, r)'
      BY <1>1, <3>2, <3>3, EventsKeep
    <3> QED
      BY <1>1, <3>1, <3>4
  <2>2. ASSUME NEW m \in stored, m.conv = c PROVE Has(c, m.id)'
    <3>1. m.conv = of[m.id] /\ Has(c, m.id)
      BY <1>5, <2>2, DataFacts, KnownRow DEF Right
    <3>2. Announced(m.id) => Announced(m.id)'
      BY <1>1, <1>3, <2>2, <3>1, EventsKeep
    <3>3. (\E t \in tasks : Brings(t, c, m.id)) => \E t \in tasks' : Brings(t, c, m.id)'
      BY <1>1, EventsKeep
    <3> QED
      BY <1>1, <3>1, <3>2, <3>3 DEF Has
  <2> QED
    BY <1>1, <2>1, <2>2 DEF Right, Followed
<1> QED
  BY <1>2, <1>4, <1>5 DEF Followed

LEMMA EventView ==
    ASSUME NEW of, Data(of), EventsOrdered, NEW e \in events, Event(e), ViewOK
    PROVE  ViewOK'
<1> SUFFICES ASSUME NEW c \in Convs, Open(c)' PROVE Followed(c)'
  BY DEF ViewOK
<1>0. PICK es \in SUBSET events : es = {e}
  OBVIOUS
<1>1. /\ pag' = pag /\ chan' = chan /\ dm' = dm /\ stored' = stored
      /\ events' = events \ es /\ Outdated(tasks, es) \subseteq tasks'
  BY <1>0, EventTasks, FirstHandled
<1>2. spoiled' = spoiled
  BY DEF Event, ChannelNew, DmNew, Edited, Deleted, Show, screen
<1>3. Followed(c) /\ Only(c)
  BY <1>1, <1>2 DEF Open, Only, ViewOK, Followed
<1>4. CASE Loading(c) \/ Doomed(c)
  BY <1>1, <1>4, EventsKeep DEF Followed
<1>5. CASE Right(c)
  <2> DEFINE S == Good(of, c)'
  <2>0. /\ e.msg \in Known(of) /\ e.msg.conv = of[e.msg.id] /\ e.msg.conv \in Convs
        /\ list \in Lists(Known(of)) /\ DOMAIN list = 1..Len(list)
        /\ \A k \in DOMAIN list : RowOK(c, list[k]) /\ list[k].conv = c /\ list[k] \in Known(of) /\ list[k].conv = of[list[k].id]
    BY <1>5, DataFacts, KnownRow, OfList DEF Right, RowOK
  <2>00. Known(of) \subseteq Known(of)'
    <3>1. Grows
      BY EventTasks DEF Grows, Data, Counted, Event, ChannelNew, DmNew, Edited, Deleted, counts
    <3> QED
      BY <3>1, KnownGrows DEF Data
  <2>1. \A k \in DOMAIN list : list[k].id # e.msg.id \/ ~(e.msg.ver > list[k].ver) => list[k] \in S
    BY <1>0, <1>1, <2>0, <2>00, EventsKeep DEF Good
  <2>2. e.kind # "deleted" /\ e.msg.conv = c => e.msg \in S
    BY <1>0, <1>1, <2>0, <2>00, FirstHandled DEF Good, RowOK, Fresh
  <2>3. ASSUME list' \in Lists(S), \A m \in stored : Shown(list, m.id) => Shown(list', m.id),
               e.kind = "new" /\ e.msg.conv = c =>
                   Shown(list', e.msg.id) \/ \E u \in tasks' : Brings(u, c, e.msg.id)'
        PROVE  Followed(c)'
    <3>1. (\A k \in DOMAIN list : RowOK(c, list[k]))'
      <4>1. \A k \in DOMAIN list' : list'[k] \in S
        BY <2>3, OfList
      <4>2. \A r \in S : RowOK(c, r)'
        BY DEF Good
      <4> QED
        BY <4>1, <4>2
    <3>2. ASSUME NEW m \in stored, m.conv = c PROVE Has(c, m.id)'
      <4>1. Has(c, m.id) /\ m.conv = of[m.id]
        BY <1>5, <3>2, DataFacts, KnownRow DEF Right
      <4>2. CASE Announced(m.id)
        <5>1. CASE e.msg.id = m.id /\ e.kind = "new"
          BY <2>0, <2>3, <3>2, <4>1, <5>1 DEF Has
        <5>2. CASE ~(e.msg.id = m.id /\ e.kind = "new")
          <6>1. Announced(m.id)'
            BY <1>0, <1>1, <4>2, <5>2, EventsKeep
          <6> QED
            BY <6>1 DEF Has
        <5> QED
          BY <5>1, <5>2
      <4>3. CASE Shown(list, m.id)
        BY <2>3, <4>3 DEF Has
      <4>4. CASE \E t \in tasks : Brings(t, c, m.id)
        BY <1>1, <4>4, EventsKeep DEF Has
      <4>5. CASE pag[c].more /\ m.id < pag[c].oldest
        BY <1>1, <4>5 DEF Has
      <4> QED
        BY <4>1, <4>2, <4>3, <4>4, <4>5 DEF Has
    <3> QED
      BY <1>1, <3>1, <3>2 DEF Right, Followed
  <2>4. Current(e.msg.conv) => e.msg.conv = c
    BY <1>3, <2>0, ConversationAssumption, OneOpen DEF Convs
  <2>5. Current(c)
    BY <1>3, OneOpen
  <2>6. ASSUME list' = list, \A k \in DOMAIN list : list[k] \in S,
               e.kind = "new" /\ e.msg.conv = c => \E u \in tasks' : Brings(u, c, e.msg.id)'
        PROVE  Followed(c)'
    BY <2>0, <2>3, <2>6, GoodList
  <2>7. CASE ChannelNew(e)
    <3>1. \A k \in DOMAIN list : list[k] \in S
      <4>1. e.msg.ver = 0
        BY <2>7 DEF ChannelNew, EventsOrdered
      <4> QED
        BY <2>0, <2>1, <4>1, KnownRow
    <3>2. CASE e.msg.conv = c
      <4>1. list' = Rendered(list, e.msg)
        BY <2>5, <2>7, <3>2 DEF ChannelNew, Show
      <4>2. e.msg \in S
        BY <2>2, <2>7, <3>2 DEF ChannelNew
      <4> HIDE DEF S
      <4>3. list \in Lists(S)
        BY <2>0, <3>1, GoodList
      <4>4. list' \in Lists(S) /\ Grown(list', list, e.msg)
        BY <4>1, <4>2, <4>3, AddedList
      <4> QED
        BY <2>3, <4>4 DEF Grown
    <3>3. CASE e.msg.conv # c
      BY <2>4, <2>6, <2>7, <3>1, <3>3 DEF ChannelNew, screen
    <3> QED
      BY <3>2, <3>3
  <2>8. CASE DmNew(e)
    <3>1. \A k \in DOMAIN list : list[k] \in S
      <4>1. e.msg.ver = 0
        BY <2>8 DEF DmNew, EventsOrdered
      <4> QED
        BY <2>0, <2>1, <4>1, KnownRow
    <3>2. ASSUME e.msg.conv = c PROVE \E u \in tasks' : Brings(u, c, e.msg.id)'
      <4>1. PICK u : u = Task("live", e.msg.conv, "keys", 0, <<e.msg>>)
        OBVIOUS
      <4>2. u \in tasks' /\ u.kind = "live" /\ u.rows[1].id = e.msg.id
        BY <2>5, <2>8, <3>2, <4>1 DEF DmNew, Task
      <4> QED
        BY <4>2 DEF Brings
    <3>3. list' = list
      BY <2>8 DEF DmNew, screen
    <3> QED
      BY <2>6, <3>1, <3>2, <3>3
  <2>9. CASE Edited(e)
    <3>0. e.kind = "edited"
      BY <2>9 DEF Edited
    <3>1. CASE e.msg.conv \in Channels
      <4>1. list' = EditedRow(list, e.msg)
        BY <2>9, <3>1 DEF Edited, Show
      <4>2. \A k \in DOMAIN list : IF list[k].id = e.msg.id THEN e.msg \in S ELSE list[k] \in S
        BY <2>0, <2>1, <2>2, <3>0
      <4> HIDE DEF S
      <4>3. list' \in Lists(S) /\ \A i : Shown(list, i) => Shown(list', i)
        BY <2>0, <4>1, <4>2, EditedRows
      <4> QED
        BY <2>3, <3>0, <4>3
    <3>2. CASE e.msg.conv \notin Channels
      <4>1. list' = list
        BY <2>9, <3>2 DEF Edited, screen
      <4>2. ASSUME NEW k \in DOMAIN list PROVE list[k] \in S
        <5>1. CASE list[k].id # e.msg.id
          BY <2>1, <5>1
        <5>2. CASE list[k].id = e.msg.id
          <6>1. PICK u : u = Task("edit", e.msg.conv, "keys", e.msg.ver, <<e.msg>>)
            OBVIOUS
          <6>2. u \in tasks' /\ u.kind = "edit" /\ u.rows[1].id = e.msg.id
            BY <2>9, <3>2, <5>2, <6>1 DEF Edited, Task, Shown
          <6>3. PICK r \in Known(of) : r = list[k]
            BY <2>0
          <6>4. RowOK(c, r)'
            BY <2>0, <5>2, <6>2, <6>3 DEF RowOK, Edits
          <6> QED
            BY <2>00, <6>3, <6>4 DEF Good
        <5> QED
          BY <5>1, <5>2
      <4> QED
        BY <2>6, <3>0, <4>1, <4>2
    <3> QED
      BY <3>1, <3>2
  <2>10. CASE Deleted(e)
    <3>0. e.kind = "deleted" /\ \A m \in stored : m.id # e.msg.id
      BY <2>10, FirstHandled DEF Deleted
    <3>1. CASE e.msg.conv = c
      <4>1. list' = Without(list, e.msg.id)
        BY <2>5, <2>10, <3>1 DEF Deleted, Show
      <4> DEFINE U == {r \in Known(of)' : r \in S \/ r.id = e.msg.id}
      <4>2. \A k \in DOMAIN list : list[k] \in U
        BY <2>0, <2>00, <2>1
      <4> HIDE DEF U, S
      <4>3. list \in Lists(U)
        BY <2>0, <4>2, GoodList
      <4>4. /\ list' \in Lists({r \in U : r.id # e.msg.id})
            /\ \A j : Shown(list, j) /\ j # e.msg.id => Shown(list', j)
        BY <4>1, <4>3, ShortenedList
      <4>5. {r \in U : r.id # e.msg.id} \subseteq S
        BY DEF U
      <4>6. list' \in Lists(S)
        BY <4>4, <4>5, BiggerLists
      <4> QED
        BY <2>3, <3>0, <4>4, <4>6
    <3>2. CASE e.msg.conv # c
      <4>1. list' = list
        BY <2>4, <2>10, <3>2 DEF Deleted, screen
      <4>2. \A k \in DOMAIN list : list[k] \in S
        BY <2>0, <2>1, <3>2
      <4> QED
        BY <2>6, <3>0, <4>1, <4>2
    <3> QED
      BY <3>1, <3>2
  <2> QED
    BY <2>7, <2>8, <2>9, <2>10 DEF Event
<1> QED
  BY <1>3, <1>4, <1>5 DEF Followed

-----------------------------------------------------------------------------
(* What is shown of the open conversation: the functions of the page *)

\* A step that loses no function the conversation depends on, and shows or
\* keeps in view what it has shown, brought or left to the next page.
LEMMA StepView ==
    ASSUME stored' = stored, events' = events, NEW c \in Convs, Followed(c), pag'[c].gen = pag[c].gen,
           \A x \in tasks : x \in tasks' \/ (~Asking(x, c) /\ ~Dooms(x, c)),
           Right(c) => (\A k \in DOMAIN list : RowOK(c, list[k]))',
           Right(c) => \A m \in stored : m.conv = c =>
               /\ Shown(list, m.id) => Shown(list', m.id)
               /\ \A x \in tasks : Brings(x, c, m.id) => x \in tasks' \/ Shown(list', m.id)
               /\ pag[c].more /\ m.id < pag[c].oldest =>
                     \/ Shown(list', m.id) \/ (pag'[c].more /\ m.id < pag'[c].oldest)
                     \/ \E u \in tasks' : Brings(u, c, m.id)'
    PROVE  Followed(c)'
<1>1. Loading(c) => Loading(c)'
  BY DEF Loading, Asking, Ours
<1>2. Doomed(c) => Doomed(c)'
  BY DEF Doomed, Dooms
<1>3. ASSUME Right(c) PROVE Right(c)'
  <2>1. ASSUME NEW m \in stored, m.conv = c PROVE Has(c, m.id)'
    <3>1. Has(c, m.id)
      BY <1>3, <2>1 DEF Right
    <3>2. Announced(m.id) => Announced(m.id)'
      BY DEF Announced
    <3>3. ASSUME NEW x \in tasks, Brings(x, c, m.id) PROVE Shown(list', m.id) \/ \E u \in tasks' : Brings(u, c, m.id)'
      <4>1. CASE x \in tasks'
        <5>1. Brings(x, c, m.id)'
          BY <3>3 DEF Brings, Ours
        <5> QED
          BY <4>1, <5>1
      <4> QED
        BY <1>3, <2>1, <3>3, <4>1
    <3> QED
      BY <1>3, <2>1, <3>1, <3>2, <3>3 DEF Has
  <2> QED
    BY <1>3, <2>1 DEF Right
<1> QED
  BY <1>1, <1>2, <1>3 DEF Followed

\* Rows that are up to date stay so, unless the function that edits them ends.
LEMMA RowsStay ==
    ASSUME stored' = stored, events' = events, NEW c, NEW r, RowOK(c, r),
           \A x \in tasks : x \in tasks' \/ ~Edits(x, r.id)
    PROVE  RowOK(c, r)'
<1>1. Fresh(r) => Fresh(r)'
  BY DEF Fresh
<1>2. ASSUME NEW x \in tasks, Edits(x, r.id) PROVE \E u \in tasks' : Edits(u, r.id)'
  BY <1>2 DEF Edits
<1> QED
  BY <1>1, <1>2 DEF RowOK

\* A function ends or goes on that the open conversation does not depend on.
Idle(x, c) ==
    /\ x.kind \notin {"live", "edit"} /\ ~Asking(x, c)
    /\ x.conv # c \/ x.pc # "keys" \/ ~Made(x)
LEMMA QuietView ==
    ASSUME stored' = stored, events' = events, NEW c \in Convs, Followed(c), list' = list,
           pag'[c].gen = pag[c].gen, pag'[c].more = pag[c].more, pag'[c].oldest = pag[c].oldest,
           \A x \in tasks : x \in tasks' \/ Idle(x, c)
    PROVE  Followed(c)'
<1>1. \A x \in tasks : x \in tasks' \/ (~Asking(x, c) /\ ~Dooms(x, c))
  BY DEF Idle, Dooms
<1>2. ASSUME Right(c), NEW k \in DOMAIN list PROVE RowOK(c, list[k])'
  <2>1. PICK r : r = list[k]
    OBVIOUS
  <2>2. RowOK(c, r)
    BY <1>2, <2>1 DEF Right
  <2>3. RowOK(c, r)'
    BY <2>2, RowsStay DEF Idle, Edits
  <2> QED
    BY <2>1, <2>3
<1>3. \A x \in tasks : \A i : Brings(x, c, i) => x \in tasks'
  BY DEF Idle, Brings, Ours, Made
<1> QED
  BY <1>1, <1>2, <1>3, StepView

\* The rows of a function that are up to date.
LEMMA RowsGood ==
    ASSUME NEW of, Data(of), FreshTasks, NEW t \in tasks, Waits(t), NEW c, t.conv = c,
           stored' = stored, events' = events, sent' = sent, trouble' = trouble
    PROVE  /\ t.rows \in Seq(Good(of, c)')
           /\ \A r \in Good(of, c)' : RowOK(c, r)'
<1>1. Known(of)' = Known(of)
  BY DEF Known
<1>2. ASSUME NEW k \in 1..Len(t.rows) PROVE t.rows[k] \in Good(of, c)'
  <2>1. PICK r : r = t.rows[k]
    OBVIOUS
  <2>2. r \in Known(of) /\ r.conv = c /\ Fresh(r)
    BY <1>2, <2>1, DataFacts, TaskRows DEF FreshTasks
  <2>3. RowOK(c, r)'
    BY <2>2 DEF RowOK, Fresh
  <2> QED
    BY <1>1, <2>1, <2>2, <2>3 DEF Good
<1>3. t.rows \in Seq(Known(of)) /\ Len(t.rows) \in Nat
  BY DataFacts, TaskRows
<1> QED
  BY <1>2, <1>3 DEF Good

\* Rows that stay up to date are still a good list.
LEMMA ListStays ==
    ASSUME NEW of, Data(of), NEW c, Right(c), stored' = stored, events' = events,
           sent' = sent, trouble' = trouble, \A x \in tasks : x \in tasks' \/ x.kind # "edit"
    PROVE  list \in Lists(Good(of, c)')
<1>1. Known(of)' = Known(of)
  BY DEF Known
<1>2. list \in Lists(Known(of)) /\ \A k \in DOMAIN list : list[k] \in Known(of)
  BY DataFacts
<1>3. ASSUME NEW k \in DOMAIN list PROVE list[k] \in Good(of, c)'
  <2>1. PICK r : r = list[k]
    OBVIOUS
  <2>2. RowOK(c, r)
    BY <1>3, <2>1 DEF Right
  <2>3. RowOK(c, r)'
    BY <2>2, RowsStay DEF Edits
  <2> QED
    BY <1>1, <1>2, <2>1, <2>3 DEF Good
<1> QED
  BY <1>2, <1>3, GoodList

\* What a list of good rows means.
LEMMA GoodRows ==
    ASSUME NEW of, NEW c, list' \in Lists(Good(of, c)')
    PROVE  (\A k \in DOMAIN list : RowOK(c, list[k]))'
<1>1. \A k \in DOMAIN list' : list'[k] \in Good(of, c)'
  BY OfList
<1>2. \A r \in Good(of, c)' : RowOK(c, r)'
  BY DEF Good
<1> QED
  BY <1>1, <1>2

\* A conversation that is being loaded shows no rows yet.
LEMMA LoadView ==
    ASSUME NEW d \in Convs, NEW ts, Load(d, ts), pag \in [Convs -> PagType]
    PROVE  Followed(d)'
<1>1. PICK n : n = Task("load", d, "ask", loads', <<>>)
  OBVIOUS
<1>2. n \in tasks' /\ n.kind = "load" /\ n.conv = d /\ n.pc = "ask" /\ n.gen = loads' /\ pag'[d].gen = loads'
  BY <1>1 DEF Load, Task
<1> QED
  BY <1>2 DEF Followed, Loading, Asking, Ours

\* What the user opens is loaded.
LEMMA UserView ==
    ASSUME NEW of, Data(of), ViewOK, User
    PROVE  ViewOK'
<1>0. pag \in [Convs -> PagType]
  BY DEF Data
<1> SUFFICES ASSUME NEW c \in Convs, Open(c)' PROVE Followed(c)'
  BY DEF ViewOK
<1>1. {chan', dm'} = {c, None} /\ c # None
  BY ConversationAssumption DEF Open, Only, Convs
<1>2. CASE \E d \in Channels : OpenChannel(d)
  <2>1. PICK d \in Channels : chan' = d /\ Load(d, tasks)
    BY <1>2 DEF OpenChannel
  <2>2. d = c
    BY <1>1, <2>1, ConversationAssumption DEF Convs
  <2> QED
    BY <1>0, <2>1, <2>2, LoadView
<1>3. CASE \E d \in Dms : OpenDm(d)
  <2>1. PICK d \in Dms : dm' = d /\ Load(d, tasks)
    BY <1>3 DEF OpenDm
  <2>2. d = c
    BY <1>1, <2>1, ConversationAssumption DEF Convs
  <2> QED
    BY <1>0, <2>1, <2>2, LoadView DEF Convs
<1>4. CASE EnterDms \/ OpenServer
  BY <1>1, <1>4 DEF EnterDms, OpenServer
<1>5. CASE Scroll
  <2>1. listener \in Convs /\ pag[listener] \in PagType
    BY <1>0, <1>5 DEF Scroll, Data, PageTyped
  <2>2. /\ stored' = stored /\ events' = events /\ list' = list /\ tasks \subseteq tasks'
        /\ chan' = chan /\ dm' = dm /\ spoiled' = spoiled /\ pag' = [pag EXCEPT ![listener].busy = TRUE]
    BY <1>5 DEF Scroll, db, view, screen
  <2>3. pag'[c].gen = pag[c].gen /\ pag'[c].more = pag[c].more /\ pag'[c].oldest = pag[c].oldest /\ pag'[c].mixed = pag[c].mixed
    BY <1>0, <2>1, <2>2 DEF PagType
  <2>4. Followed(c)
    BY <2>2, <2>3 DEF ViewOK, Open, Only
  <2> QED
    BY <2>2, <2>3, <2>4, QuietView
<1> QED
  BY <1>2, <1>3, <1>4, <1>5 DEF User

\* The functions of a server, and the check after a reconnection.
LEMMA ServerView ==
    ASSUME NEW of, Data(of), ViewOK, NEW t \in tasks, ServerShown(t) \/ ChannelsLoaded(t) \/ Recheck(t) \/ LoadFails(t)
    PROVE  ViewOK'
<1>0. pag \in [Convs -> PagType]
  BY DEF Data
<1> SUFFICES ASSUME NEW c \in Convs, Open(c)' PROVE Followed(c)'
  BY DEF ViewOK
<1>1. {chan', dm'} = {c, None} /\ c # None /\ spoiled' = {} /\ ~pag'[c].mixed
  BY ConversationAssumption DEF Open, Only, Convs
<1>2. CASE ServerShown(t) \/ LoadFails(t)
  <2>1. chan' = chan /\ dm' = dm
    BY <1>2 DEF ServerShown, LoadFails, view
  <2> QED
    BY <1>1, <1>2, <2>1 DEF ServerShown, LoadFails, FailsLoudly, Replace
<1>3. ASSUME NEW d \in Convs, Load(d, tasks \ {t}), d \in {chan', dm'} PROVE Followed(c)'
  <2>1. d = c
    BY <1>1, <1>3, ConversationAssumption DEF Convs
  <2> QED
    BY <1>0, <1>3, <2>1, LoadView
<1>4. ASSUME Ends(t), stored' = stored, events' = events, UNCHANGED <<screen, pag, view>>, t.kind \in {"server", "recheck"}
      PROVE  Followed(c)'
  <2>1. tasks' = tasks \ {t} /\ list' = list /\ pag' = pag /\ spoiled' = spoiled /\ chan' = chan /\ dm' = dm
    BY <1>4 DEF Ends, screen, view
  <2>2. Followed(c)
    BY <2>1 DEF ViewOK, Open, Only
  <2>3. Idle(t, c)
    BY <1>4 DEF Idle, Asking, Ours, Made
  <2> QED
    BY <1>4, <2>1, <2>2, <2>3, QuietView
<1>5. CASE ChannelsLoaded(t)
  <2>1. CASE chan = None
    BY <1>3, <1>5, <2>1, ConversationAssumption DEF ChannelsLoaded, Convs
  <2>2. CASE chan # None
    BY <1>4, <1>5, <2>2 DEF ChannelsLoaded, db, view
  <2> QED
    BY <2>1, <2>2
<1>6. CASE Recheck(t)
  <2>1. PICK d : d = IF viewMode = "servers" THEN chan ELSE dm
    OBVIOUS
  <2>2. d \in Convs \cup {None} /\ chan' = chan /\ dm' = dm /\ d \in {chan, dm}
    BY <1>6, <2>1 DEF Recheck, view, Data, PageTyped, Convs
  <2>3. CASE list = <<>> /\ d # None
    BY <1>3, <1>6, <2>1, <2>2, <2>3 DEF Recheck
  <2>4. CASE ~(list = <<>> /\ d # None)
    BY <1>4, <1>6, <2>1, <2>4 DEF Recheck, db, view
  <2> QED
    BY <2>3, <2>4
<1> QED
  BY <1>2, <1>5, <1>6

\* A read page waits in the place of its request.
LEMMA ReadView ==
    ASSUME NEW of, Data(of), ViewOK, NEW t \in tasks, Read(t)
    PROVE  ViewOK'
<1> SUFFICES ASSUME NEW c \in Convs, Open(c)' PROVE Followed(c)'
  BY DEF ViewOK
<1>1. /\ stored' = stored /\ events' = events /\ list' = list /\ pag' = pag /\ spoiled' = spoiled
      /\ chan' = chan /\ dm' = dm /\ t.pc = "ask"
  BY DEF Read, db, view, screen
<1>2. PICK u : /\ tasks' = (tasks \ {t}) \cup {u} /\ u.pc = "answer"
               /\ u.kind = t.kind /\ u.conv = t.conv /\ u.gen = t.gen
  BY ReadFields
<1>3. Followed(c)
  BY <1>1 DEF ViewOK, Open, Only
<1>4. CASE Asking(t, c)
  <2>1. Asking(u, c)'
    BY <1>1, <1>2, <1>4 DEF Asking, Ours
  <2> QED
    BY <1>2, <2>1 DEF Followed, Loading
<1>5. CASE ~Asking(t, c)
  <2>1. t.kind \notin {"live", "edit"}
    BY <1>1, DataFacts, TaskRows
  <2>2. Idle(t, c)
    BY <1>1, <1>5, <2>1 DEF Idle
  <2> QED
    BY <1>1, <1>2, <1>3, <2>2, QuietView
<1> QED
  BY <1>4, <1>5

\* The answer of a load that is for the open conversation: the list has its
\* rows, or will have, and what it leaves out is announced or beyond it.
LEMMA AnswerView ==
    ASSUME NEW of, Data(of), Generations, FreshTasks, LoadCovers, ViewOK, NEW t \in tasks, ChannelLoaded(t) \/ DmLoaded(t)
    PROVE  ViewOK'
<1>0. /\ pag \in [Convs -> PagType] /\ Answers(t, "load") /\ Made(t) /\ t.conv \in Convs
      /\ stored' = stored /\ events' = events /\ sent' = sent /\ trouble' = trouble
      /\ chan' = chan /\ dm' = dm
  <2>1. /\ Answers(t, "load") /\ Made(t) /\ stored' = stored /\ events' = events /\ sent' = sent
        /\ trouble' = trouble /\ chan' = chan /\ dm' = dm
    BY DEF ChannelLoaded, DmLoaded, Answers, Made, db, view, counts
  <2> QED
    BY <2>1, DataFacts, TaskRows DEF Data
<1> SUFFICES ASSUME NEW c \in Convs, Open(c)' PROVE Followed(c)'
  BY DEF ViewOK
<1>1. Only(c) /\ Current(c) /\ \A d : d # None /\ Current(d) => d = c
  BY <1>0, OneOpen DEF Open, Only
<1>2. CASE Stale(t)
  <2>1. /\ tasks' = tasks \ {t} /\ list' = list /\ spoiled' = spoiled /\ pag' = pag
    BY <1>2 DEF ChannelLoaded, DmLoaded, Ends, screen
  <2>2. Followed(c)
    BY <1>0, <2>1 DEF ViewOK, Open, Only
  <2>3. Idle(t, c)
    BY <1>0, <1>1, <1>2 DEF Stale, Idle, Asking, Ours, Answers
  <2> QED
    BY <1>0, <2>1, <2>2, <2>3, QuietView
<1>3. CASE ~Stale(t)
  <2>1. t.conv = c
    BY <1>0, <1>1, <1>3, ConversationAssumption DEF Stale, Convs
  <2>2. PICK p : p = Answered(t)
    OBVIOUS
  <2>3. pag' = [pag EXCEPT ![c] = p] /\ pag'[c] = p
    BY <1>0, <1>3, <2>1, <2>2 DEF ChannelLoaded, DmLoaded
  <2>4. PICK q : q = Cursor(pag[c], t.rows)
    OBVIOUS
  <2>5. /\ q \in PagType /\ q.gen = pag[c].gen /\ q.mixed = pag[c].mixed
        /\ q.more = (pag[c].more /\ ~(Len(t.rows) < PageSize))
        /\ t.rows # <<>> => q.oldest = t.rows[1].id
    BY <1>0, <2>4, CursorMoves
  <2>6. p.gen = q.gen /\ p.more = q.more /\ p.oldest = q.oldest /\ p.mixed = (pag[c].mixed \/ pag[c].gen # t.gen)
    BY <2>1, <2>2, <2>4, <2>5 DEF Answered, PagType
  <2>7. ~pag[c].mixed /\ pag[c].gen = t.gen
    BY <2>3, <2>6 DEF Open
  <2>8. Asking(t, c) /\ pag[c].more
    BY <1>0, <2>1, <2>7 DEF Asking, Ours, Answers, Generations, Loading
  <2>9. ASSUME NEW i, Beyond(t.rows, i) PROVE pag'[c].more /\ i < pag'[c].oldest
    <3>1. t.rows # <<>>
      BY <2>9, PageAssumption DEF Beyond
    <3>2. ~(Len(t.rows) < PageSize) /\ i < t.rows[1].id
      BY <2>9, PageAssumption DEF Beyond
    <3> QED
      BY <2>3, <2>5, <2>6, <2>8, <3>1, <3>2
  <2>10. ASSUME ~t.old, NEW m \in stored, m.conv = c
         PROVE  m.id \in Ids(t.rows) \/ Announced(m.id)' \/ (pag'[c].more /\ m.id < pag'[c].oldest)
    <3>1. m.id \in Ids(t.rows) \/ Beyond(t.rows, m.id) \/ Announced(m.id)
      BY <1>0, <2>1, <2>10 DEF LoadCovers
    <3> QED
      BY <1>0, <2>9, <3>1 DEF Announced
  <2>11. CASE ChannelLoaded(t)
    <3>1. list' = AllRendered(<<>>, t.rows) /\ spoiled' = Raced(t)
      BY <1>3, <2>11 DEF ChannelLoaded, Replace
    <3>2. ~t.old /\ Waits(t)
      BY <1>0, <3>1 DEF Open, Raced, Waits, Answers
    <3>3. t.rows \in Seq(Good(of, c)')
      BY <1>0, <2>1, <3>2, RowsGood
    <3>4. <<>> \in Lists(Good(of, c)')
      BY EmptyList
    <3>5. list' \in Lists(Good(of, c)') /\ \A i : i \in Ids(t.rows) => Shown(list', i)
      BY <3>1, <3>3, <3>4, RenderedList
    <3>6. (\A k \in DOMAIN list : RowOK(c, list[k]))'
      BY <3>5, GoodRows
    <3>7. \A m \in stored' : m.conv = c => Has(c, m.id)'
      BY <1>0, <2>10, <3>2, <3>5 DEF Has
    <3> QED
      BY <3>6, <3>7 DEF Followed, Right
  <2>12. CASE DmLoaded(t)
    <3>1. PICK u : u = [t EXCEPT !.pc = "keys"]
      OBVIOUS
    <3>2. list' = <<>> /\ u \in tasks'
      BY <1>3, <2>12, <3>1 DEF DmLoaded, Replace, Becomes
    <3>3. u.kind = "load" /\ u.conv = c /\ u.gen = t.gen /\ u.pc = "keys" /\ u.rows = t.rows /\ u.old = t.old
      BY <1>0, <2>1, <3>1, DataFacts DEF TaskType, Answers
    <3>4. CASE t.old
      <4>1. Dooms(u, c)'
        BY <3>3, <3>4 DEF Dooms, Made
      <4> QED
        BY <3>2, <4>1 DEF Followed, Doomed
    <3>5. CASE ~t.old
      <4>1. \A i : i \in Ids(t.rows) => Brings(u, c, i)'
        BY <2>3, <2>5, <2>6, <2>7, <3>3 DEF Brings, Ours
      <4>2. \A m \in stored' : m.conv = c => Has(c, m.id)'
        BY <1>0, <2>10, <3>2, <3>5, <4>1 DEF Has
      <4>3. (\A k \in DOMAIN list : RowOK(c, list[k]))'
        BY <3>2
      <4> QED
        BY <4>2, <4>3 DEF Followed, Right
    <3> QED
      BY <3>4, <3>5
  <2> QED
    BY <2>11, <2>12
<1> QED
  BY <1>2, <1>3

\* Rows are rendered into the list of the open conversation by the function
\* that waited with them.
LEMMA RenderView ==
    ASSUME NEW of, Data(of), FreshTasks, NEW t \in tasks, t.kind \in {"load", "more", "live"}, NEW c \in Convs, t.conv = c,
           Waits(t) \/ t.rows = <<>>, ~Dooms(t, c),
           stored' = stored, events' = events, sent' = sent, trouble' = trouble, tasks' = tasks \ {t},
           ~Asking(t, c), Followed(c), pag'[c].gen = pag[c].gen,
           \/ list' = AllRendered(list, t.rows) \/ list' = AllPrepended(list, t.rows)
           \/ Len(t.rows) = 1 /\ list' = Rendered(list, t.rows[1]),
           \A m \in stored : m.conv = c /\ pag[c].more /\ m.id < pag[c].oldest =>
               m.id \in Ids(t.rows) \/ (pag'[c].more /\ m.id < pag'[c].oldest)
    PROVE  Followed(c)'
<1>1. t.rows \in Seq(Good(of, c)')
  <2> <<>> \in Seq(Good(of, c)')
    OBVIOUS
  <2> QED
    BY RowsGood
<1>2. Len(t.rows) \in Nat /\ (t.kind = "live" => Len(t.rows) = 1 /\ 1 \in 1..Len(t.rows))
  BY DataFacts, TaskRows
<1>3. ASSUME Right(c)
      PROVE  /\ list' \in Lists(Good(of, c)')
             /\ \A i : Shown(list, i) \/ i \in Ids(t.rows) => Shown(list', i)
  <2>1. list \in Lists(Good(of, c)')
    BY <1>3, ListStays
  <2>2. CASE list' = AllRendered(list, t.rows) \/ list' = AllPrepended(list, t.rows)
    BY <1>1, <2>1, <2>2, RenderedList, PrependedList
  <2>3. CASE Len(t.rows) = 1 /\ list' = Rendered(list, t.rows[1])
    <3>1. t.rows[1] \in Good(of, c)' /\ Ids(t.rows) = {t.rows[1].id}
      BY <1>1, <2>3 DEF Ids
    <3>2. list' \in Lists(Good(of, c)') /\ Grown(list', list, t.rows[1])
      BY <2>1, <2>3, <3>1, AddedList
    <3> QED
      BY <3>1, <3>2 DEF Grown
  <2> QED
    BY <2>2, <2>3
<1>4. \A i : Brings(t, c, i) => i \in Ids(t.rows)
  BY <1>2 DEF Brings, Ids
<1>5. Right(c) => (\A k \in DOMAIN list : RowOK(c, list[k]))'
  BY <1>3, GoodRows
<1>6. \A x \in tasks : x \in tasks' \/ (~Asking(x, c) /\ ~Dooms(x, c))
  OBVIOUS
<1>7. Right(c) => \A m \in stored : m.conv = c =>
         /\ Shown(list, m.id) => Shown(list', m.id)
         /\ \A x \in tasks : Brings(x, c, m.id) => x \in tasks' \/ Shown(list', m.id)
         /\ pag[c].more /\ m.id < pag[c].oldest =>
               \/ Shown(list', m.id) \/ (pag'[c].more /\ m.id < pag'[c].oldest)
               \/ \E u \in tasks' : Brings(u, c, m.id)'
  BY <1>3, <1>4
<1> QED
  BY <1>5, <1>6, <1>7, StepView

LEMMA DmLoadView ==
    ASSUME NEW of, Data(of), FreshTasks, ViewOK, NEW t \in tasks, DmLoadRenders(t)
    PROVE  ViewOK'
<1>0. /\ Made(t) /\ t.pc = "keys" /\ t.kind = "load" /\ tasks' = tasks \ {t}
      /\ stored' = stored /\ events' = events /\ sent' = sent /\ trouble' = trouble
      /\ chan' = chan /\ dm' = dm /\ pag' = pag
  BY DEF DmLoadRenders, Made, Ends, db, view, counts
<1> SUFFICES ASSUME NEW c \in Convs, Open(c)' PROVE Followed(c)'
  BY DEF ViewOK
<1>1. Only(c) /\ Current(c) /\ \A d : d # None /\ Current(d) => d = c
  BY <1>0, OneOpen DEF Open, Only
<1>2. CASE t.rows = <<>>
  BY <1>2 DEF DmLoadRenders, Show, Open
<1>3. CASE t.rows # <<>> /\ Stale(t)
  <2>1. list' = list /\ spoiled' = spoiled
    BY <1>3 DEF DmLoadRenders, screen
  <2>2. Followed(c)
    BY <1>0, <2>1 DEF ViewOK, Open, Only
  <2>3. Idle(t, c)
    BY <1>0, <1>1, <1>3 DEF Stale, Idle, Asking, Ours
  <2> QED
    BY <1>0, <2>1, <2>2, <2>3, QuietView
<1>4. CASE t.rows # <<>> /\ ~Stale(t)
  <2>1. list' = AllRendered(list, t.rows) /\ spoiled' = spoiled \cup Raced(t)
    BY <1>4 DEF DmLoadRenders, Show
  <2>2. Followed(c) /\ ~t.old
    BY <1>0, <2>1 DEF ViewOK, Open, Only, Raced
  <2>3. t.conv = c
    BY <1>0, <1>1, <1>4, DataFacts, TaskRows, ConversationAssumption DEF Stale, Convs
  <2>4. Waits(t) /\ ~Asking(t, c) /\ ~Dooms(t, c)
    BY <1>0, <2>2 DEF Waits, Asking, Dooms
  <2> QED
    BY <1>0, <2>1, <2>2, <2>3, <2>4, RenderView
<1> QED
  BY <1>2, <1>3, <1>4

\* An older page, when the answer is dropped, rendered, or waits for a key.
LEMMA MoreView ==
    ASSUME NEW of, Data(of), Generations, FreshTasks, MoreCovers, ViewOK, NEW t \in tasks,
           MoreStale(t) \/ MoreLoaded(t) \/ MoreAwaitsKey(t) \/ MoreRenders(t) \/ MoreFails(t)
    PROVE  ViewOK'
<1>0. /\ pag \in [Convs -> PagType] /\ t.kind = "more" /\ t.conv \in Convs /\ Made(t)
      /\ stored' = stored /\ events' = events /\ sent' = sent
      /\ chan' = chan /\ dm' = dm
  <2>1. /\ t.kind = "more" /\ stored' = stored /\ events' = events /\ sent' = sent
        /\ chan' = chan /\ dm' = dm
    BY DEF MoreStale, MoreLoaded, MoreAwaitsKey, MoreRenders, MoreFails, db, view
  <2> QED
    BY <2>1, DataFacts, TaskRows DEF Data, Made
<1> SUFFICES ASSUME NEW c \in Convs, Open(c)' PROVE Followed(c)'
  BY DEF ViewOK
<1>1. Only(c) /\ Current(c) /\ \A d : d # None /\ Current(d) => d = c
  BY <1>0, OneOpen DEF Open, Only
<1>2. spoiled \subseteq spoiled'
  BY DEF MoreStale, MoreLoaded, MoreAwaitsKey, MoreRenders, MoreFails, Show, screen
<1>3. pag[t.conv] \in PagType /\ pag[c] \in PagType
  BY <1>0
<1>4. ASSUME NEW p \in PagType, Pagination(t, p), p.gen = pag[t.conv].gen, p.mixed = pag[t.conv].mixed
      PROVE  /\ Followed(c) /\ pag'[c].gen = pag[c].gen
             /\ pag' = pag \/ (pag'[t.conv] = p /\ Ours(t, "more", t.conv))
             /\ t.conv # c => pag'[c] = pag[c]
             /\ Ours(t, "more", c) => pag'[c] = p
  <2>1. pag' = pag \/ (pag' = [pag EXCEPT ![t.conv] = p] /\ Ours(t, "more", t.conv))
    BY <1>0, <1>4 DEF Pagination, Ours
  <2>2. pag'[c].gen = pag[c].gen /\ pag'[c].mixed = pag[c].mixed
    BY <1>0, <1>4, <2>1
  <2>3. Ours(t, "more", c) => pag'[c] = p
    BY <1>0, <1>4 DEF Pagination, Ours
  <2> QED
    BY <1>0, <1>2, <2>1, <2>2, <2>3 DEF ViewOK, Open, Only
<1>5. PICK r : r = [pag[t.conv] EXCEPT !.busy = FALSE]
  OBVIOUS
<1>6. /\ r \in PagType /\ r.gen = pag[t.conv].gen /\ r.mixed = pag[t.conv].mixed
      /\ r.more = pag[t.conv].more /\ r.oldest = pag[t.conv].oldest
  BY <1>3, <1>5 DEF PagType
<1>7. CASE MoreStale(t) \/ MoreFails(t)
  <2>1. Pagination(t, r) /\ tasks' = tasks \ {t} /\ t.pc # "keys" /\ list' = list
    BY <1>5, <1>7 DEF MoreStale, MoreFails, Released, Ends, screen
  <2>2. /\ Followed(c) /\ pag'[c].gen = pag[c].gen
        /\ pag' = pag \/ pag'[t.conv] = r
        /\ t.conv # c => pag'[c] = pag[c]
    BY <1>4, <1>6, <2>1
  <2>3. pag'[c].more = pag[c].more /\ pag'[c].oldest = pag[c].oldest
    BY <1>6, <2>2
  <2>4. Idle(t, c)
    BY <1>0, <2>1 DEF Idle, Asking, Ours
  <2> QED
    BY <1>0, <2>1, <2>2, <2>3, <2>4, QuietView
<1>8. ~Asking(t, c)
  BY <1>0 DEF Asking, Ours
<1>9. CASE MoreRenders(t)
  <2>1. /\ Pagination(t, r) /\ tasks' = tasks \ {t} /\ list' = AllPrepended(list, t.rows) /\ t.pc = "keys"
        /\ trouble' = trouble /\ Raced(t) = {} /\ ~Stale(t)
    <3>1. /\ Pagination(t, r) /\ tasks' = tasks \ {t} /\ list' = AllPrepended(list, t.rows) /\ t.pc = "keys"
          /\ trouble' = trouble
          /\ spoiled' = spoiled \cup (Raced(t) \cup Mixed(t) \cup IF Stale(t) THEN {"strayed"} ELSE {})
      BY <1>5, <1>9 DEF MoreRenders, Released, Ends, Show, counts
    <3>2. Raced(t) = {} /\ ~Stale(t)
      BY <3>1 DEF Open
    <3> QED
      BY <3>1, <3>2
  <2>2. t.conv = c
    BY <1>0, <1>1, <2>1, ConversationAssumption DEF Stale, Convs
  <2>3. Waits(t) /\ ~Dooms(t, c)
    BY <1>0, <2>1 DEF Raced, Waits, Dooms
  <2>4. Followed(c) /\ pag'[c].gen = pag[c].gen /\ pag'[c].more = pag[c].more /\ pag'[c].oldest = pag[c].oldest
    BY <1>4, <1>6, <2>1, <2>2
  <2> QED
    BY <1>0, <1>8, <2>1, <2>2, <2>3, <2>4, RenderView
<1>10. PICK q : q = Cursor(pag[t.conv], t.rows)
  OBVIOUS
<1>11. /\ q \in PagType /\ q.gen = pag[t.conv].gen /\ q.mixed = pag[t.conv].mixed
       /\ q.more = (pag[t.conv].more /\ ~(Len(t.rows) < PageSize))
       /\ t.rows # <<>> => q.oldest = t.rows[1].id
  BY <1>3, <1>10, CursorMoves
<1>12. ASSUME Ours(t, "more", c), t.pc = "answer", NEW p, pag'[c] = p, p.more = q.more, p.oldest = q.oldest, ~pag[c].mixed,
              NEW m \in stored, m.conv = c, pag[c].more, m.id < pag[c].oldest
       PROVE  m.id \in Ids(t.rows) \/ (pag'[c].more /\ m.id < pag'[c].oldest)
  <2>1. m.id \in Ids(t.rows) \/ Beyond(t.rows, m.id)
    BY <1>12 DEF MoreCovers
  <2>2. CASE Beyond(t.rows, m.id)
    <3>1. t.rows # <<>> /\ ~(Len(t.rows) < PageSize) /\ m.id < t.rows[1].id
      BY <2>2, PageAssumption DEF Beyond
    <3>2. t.conv = c
      BY <1>12 DEF Ours
    <3> QED
      BY <1>11, <1>12, <3>1, <3>2
  <2> QED
    BY <2>1, <2>2
<1>13. CASE MoreLoaded(t) \/ MoreAwaitsKey(t)
  <2>1. t.pc = "answer" /\ t.conv = c /\ trouble' = trouble
    <3>1. t.pc = "answer" /\ ~Stale(t) /\ trouble' = trouble
      BY <1>13 DEF MoreLoaded, MoreAwaitsKey, counts
    <3> QED
      BY <1>0, <1>1, <3>1, ConversationAssumption DEF Stale, Convs
  <2>2. PICK p \in PagType : /\ Pagination(t, p) /\ p.gen = q.gen /\ p.more = q.more /\ p.oldest = q.oldest /\ p.mixed = q.mixed
    <3>1. CASE MoreLoaded(t)
      <4>1. PICK p : p = [q EXCEPT !.busy = FALSE]
        OBVIOUS
      <4>2. /\ p \in PagType /\ p.gen = q.gen /\ p.more = q.more /\ p.oldest = q.oldest /\ p.mixed = q.mixed
        BY <1>11, <4>1 DEF PagType
      <4> QED
        BY <1>10, <3>1, <4>1, <4>2 DEF MoreLoaded
    <3>2. CASE MoreAwaitsKey(t)
      BY <1>10, <1>11, <3>2 DEF MoreAwaitsKey
    <3> QED
      BY <1>13, <3>1, <3>2
  <2>3. /\ Followed(c) /\ pag'[c].gen = pag[c].gen
        /\ pag' = pag \/ (pag'[c] = p /\ Ours(t, "more", c))
        /\ Ours(t, "more", c) => pag'[c] = p
    BY <1>4, <1>11, <2>1, <2>2
  <2>4. ~pag[c].mixed
    <3>1. pag'[c].mixed = pag[c].mixed
      BY <1>11, <2>1, <2>2, <2>3
    <3> QED
      BY <3>1 DEF Open
  <2>5. ASSUME NEW m \in stored, m.conv = c, pag[c].more, m.id < pag[c].oldest
        PROVE  m.id \in Ids(t.rows) \/ (pag'[c].more /\ m.id < pag'[c].oldest)
    BY <1>12, <2>1, <2>2, <2>3, <2>4, <2>5
  <2>6. CASE MoreLoaded(t)
    <3>1. /\ tasks' = tasks \ {t} /\ list' = AllPrepended(list, t.rows)
          /\ spoiled' = spoiled \cup IF t.rows = <<>> THEN {} ELSE Raced(t) \cup Mixed(t)
      BY <2>6 DEF MoreLoaded, Ends, Show
    <3>2. t.rows = <<>> \/ Waits(t)
      BY <1>0, <2>1, <3>1 DEF Open, Raced, Waits
    <3>3. ~Dooms(t, c)
      BY <1>0, <2>1 DEF Dooms
    <3> QED
      BY <1>0, <1>8, <2>1, <2>3, <2>5, <3>1, <3>2, <3>3, RenderView
  <2>7. CASE MoreAwaitsKey(t)
    <3>1. PICK u : u = [t EXCEPT !.pc = "keys"]
      OBVIOUS
    <3>2. tasks' = (tasks \ {t}) \cup {u} /\ list' = list
      BY <2>7, <3>1 DEF MoreAwaitsKey, Becomes, screen
    <3>3. u.kind = "more" /\ u.conv = c /\ u.gen = t.gen /\ u.pc = "keys" /\ u.rows = t.rows /\ u.old = t.old
      BY <1>0, <2>1, <3>1, DataFacts DEF TaskType
    <3>4. ~Asking(t, c) /\ ~Dooms(t, c) /\ (\A i : ~Brings(t, c, i)) /\ \A i : ~Edits(t, i)
      BY <1>0, <2>1 DEF Asking, Ours, Dooms, Brings, Edits
    <3>5. Right(c) => (\A k \in DOMAIN list : RowOK(c, list[k]))'
      <4> SUFFICES ASSUME Right(c), NEW k \in DOMAIN list PROVE RowOK(c, list[k])'
        BY <3>2
      <4>1. PICK x : x = list[k]
        OBVIOUS
      <4>2. RowOK(c, x)
        BY <4>1 DEF Right
      <4>3. RowOK(c, x)'
        BY <1>0, <3>2, <3>4, <4>2, RowsStay
      <4> QED
        BY <3>2, <4>1, <4>3
    <3>6. CASE t.gen = pag[c].gen
      <4>1. \A i : i \in Ids(t.rows) => Brings(u, c, i)'
        BY <2>3, <3>3, <3>6 DEF Brings, Ours
      <4> QED
        BY <1>0, <2>3, <2>5, <3>2, <3>4, <3>5, <4>1, StepView
    <3>7. CASE t.gen # pag[c].gen
      <4>1. pag' = pag
        BY <2>3, <3>7 DEF Ours
      <4> QED
        BY <1>0, <2>3, <3>2, <3>4, <3>5, <4>1, StepView
    <3> QED
      BY <3>6, <3>7
  <2> QED
    BY <1>13, <2>6, <2>7
<1> QED
  BY <1>7, <1>9, <1>13

LEMMA LiveView ==
    ASSUME NEW of, Data(of), FreshTasks, ViewOK, NEW t \in tasks, DmNewRenders(t)
    PROVE  ViewOK'
<1>0. /\ t.kind = "live" /\ tasks' = tasks \ {t} /\ list' = Rendered(list, t.rows[1])
      /\ stored' = stored /\ events' = events /\ sent' = sent /\ trouble' = trouble
      /\ chan' = chan /\ dm' = dm /\ pag' = pag
      /\ spoiled' = spoiled \cup (Raced(t) \cup IF Stale(t) THEN {"strayed"} ELSE {})
  BY DEF DmNewRenders, Ends, Show, db, view, counts
<1> SUFFICES ASSUME NEW c \in Convs, Open(c)' PROVE Followed(c)'
  BY DEF ViewOK
<1>1. Only(c) /\ \A d : d # None /\ Current(d) => d = c
  BY <1>0, OneOpen DEF Open, Only
<1>2. t.pc = "keys" /\ Len(t.rows) = 1 /\ 1 \in 1..Len(t.rows) /\ t.rows[1].conv = t.conv /\ t.conv \in Convs
  BY <1>0, DataFacts, TaskRows, KnownRow
<1>3. Followed(c) /\ ~t.old /\ ~Stale(t)
  BY <1>0 DEF ViewOK, Open, Only, Raced
<1>4. t.conv = c
  BY <1>1, <1>2, <1>3, ConversationAssumption DEF Stale, Convs
<1>5. Waits(t) /\ ~Asking(t, c) /\ ~Dooms(t, c)
  BY <1>0, <1>2, <1>3 DEF Waits, Asking, Ours, Dooms
<1> QED
  BY <1>0, <1>2, <1>3, <1>4, <1>5, RenderView

LEMMA EditView ==
    ASSUME NEW of, Data(of), FreshTasks, ViewOK, NEW t \in tasks, DmEditRenders(t)
    PROVE  ViewOK'
<1>0. /\ t.kind = "edit" /\ tasks' = tasks \ {t} /\ list' = EditedRow(list, t.rows[1])
      /\ stored' = stored /\ events' = events /\ sent' = sent /\ trouble' = trouble
      /\ chan' = chan /\ dm' = dm /\ pag' = pag /\ spoiled' = spoiled \cup Raced(t)
  BY DEF DmEditRenders, Ends, Show, db, view, counts
<1> SUFFICES ASSUME NEW c \in Convs, Open(c)' PROVE Followed(c)'
  BY DEF ViewOK
<1>1. PICK m : m = t.rows[1]
  OBVIOUS
<1>2. t.pc = "keys" /\ 1 \in 1..Len(t.rows) /\ m \in Known(of) /\ m.conv = of[m.id]
  BY <1>0, <1>1, DataFacts, TaskRows, KnownRow
<1>3. Followed(c) /\ ~t.old
  BY <1>0 DEF ViewOK, Open, Only, Raced
<1>4. Fresh(m)
  BY <1>0, <1>1, <1>2, <1>3 DEF FreshTasks, Waits
<1>5. Known(of)' = Known(of)
  BY <1>0 DEF Known
<1>6. ASSUME Right(c)
      PROVE  list' \in Lists(Good(of, c)') /\ \A i : Shown(list, i) => Shown(list', i)
  <2>1. ASSUME NEW k \in DOMAIN list
        PROVE  IF list[k].id = m.id THEN m \in Good(of, c)' ELSE list[k] \in Good(of, c)'
    <3>1. PICK r \in Known(of) : r = list[k] /\ r.conv = of[r.id]
      BY <2>1, DataFacts, KnownRow
    <3>2. RowOK(c, r)
      BY <1>6, <3>1 DEF Right
    <3>3. CASE r.id = m.id
      <4>1. m.conv = c
        BY <1>2, <3>1, <3>2, <3>3 DEF RowOK
      <4>2. RowOK(c, m)'
        BY <1>0, <1>4, <4>1 DEF RowOK, Fresh
      <4> QED
        BY <1>2, <1>5, <3>1, <3>3, <4>2 DEF Good
    <3>4. CASE r.id # m.id
      <4>1. RowOK(c, r)'
        BY <1>0, <1>1, <3>2, <3>4, RowsStay DEF Edits
      <4> QED
        BY <1>5, <3>1, <3>4, <4>1 DEF Good
    <3> QED
      BY <3>3, <3>4
  <2>2. list \in Lists(Known(of))
    BY DataFacts
  <2> QED
    BY <1>0, <1>1, <2>1, <2>2, EditedRows
<1>7. Right(c) => (\A k \in DOMAIN list : RowOK(c, list[k]))'
  BY <1>6, GoodRows
<1>8. \A x \in tasks : x \in tasks' \/ (~Asking(x, c) /\ ~Dooms(x, c) /\ \A i : ~Brings(x, c, i))
  BY <1>0, <1>3 DEF Asking, Ours, Dooms, Brings
<1> QED
  BY <1>0, <1>3, <1>6, <1>7, <1>8, StepView

LEMMA ViewStep ==
    ASSUME NEW of, Data(of), KInv, [Next]_vars
    PROVE  ViewOK'
<1> USE DEF KInv
<1>1. CASE UNCHANGED vars
  <2>1. /\ stored' = stored /\ events' = events /\ list' = list /\ tasks' = tasks /\ pag' = pag
        /\ spoiled' = spoiled /\ chan' = chan /\ dm' = dm
    BY <1>1 DEF vars, db, view, screen
  <2>2. ASSUME NEW c \in Convs, Open(c)' PROVE Followed(c)'
    <3>1. Followed(c)
      BY <2>1, <2>2 DEF ViewOK, Open, Only
    <3> QED
      BY <2>1, <2>2, <3>1, QuietView
  <2> QED
    BY <2>2 DEF ViewOK
<1>2. CASE Server \/ User
  BY <1>2, DatabaseView, UserView
<1>3. CASE Faults
  BY <1>3, ServerView, MoreView, ReconnectView DEF Faults
<1>4. ASSUME NEW e \in events, Event(e) PROVE ViewOK'
  BY <1>4, EventView
<1>5. ASSUME NEW t \in tasks, TaskStep(t) PROVE ViewOK'
  BY <1>5, ReadView, ServerView, AnswerView, DmLoadView, MoreView, LiveView, EditView DEF TaskStep
<1> QED
  BY <1>1, <1>2, <1>3, <1>4, <1>5 DEF Next

LEMMA KStep ==
    ASSUME IInv, KInv, [Next]_vars
    PROVE  KInv'
<1>1. PICK of : Data(of)
  BY DEF IInv, Data
<1>2. EventsOrdered' /\ FreshTasks' /\ Generations' /\ LoadCovers'
  BY <1>1, OrderedStep, FreshStep, GenerationsStep, LoadCoversStep DEF KInv
<1>3. MoreCovers' /\ ViewOK'
  BY <1>1, <1>2, MoreCoversStep, ViewStep DEF KInv
<1> QED
  BY <1>2, <1>3 DEF KInv

LEMMA KInit ==
    ASSUME Init
    PROVE  KInv
<1>1. tasks = {} /\ events = {} /\ loads = 0 /\ sent = 0 /\ stored = {} /\ chan = None /\ dm = None
  BY DEF Init
<1>2. \A c \in Convs : pag[c].gen = 0 /\ pag[c].oldest = 0
  BY DEF Init
<1>3. EventsOrdered /\ FreshTasks /\ LoadCovers /\ MoreCovers
  BY <1>1 DEF EventsOrdered, FreshTasks, LoadCovers, MoreCovers
<1>4. Generations
  BY <1>1, <1>2 DEF Generations, Apart, Loading
<1>5. ViewOK
  BY <1>1, ConversationAssumption DEF ViewOK, Open, Only, Convs
<1> QED
  BY <1>3, <1>4, <1>5 DEF KInv

\* When nothing is under way, the list shows stored messages of the open
\* conversation, in their current version, and leaves none out back to the
\* cursor of the next page, unless one of the races the page does not guard
\* against took place since the last load.
THEOREM ViewCorrect == Spec => []ViewComplete
<1>1. ASSUME IInv, KInv PROVE ViewComplete
  <2>1. PICK of : Data(of)
    BY <1>1 DEF IInv, Data
  <2> SUFFICES ASSUME NEW c \in Convs, Settled, {chan, dm} = {c, None}, spoiled = {}, ~pag[c].mixed
               PROVE  LET shown == {list[k] : k \in DOMAIN list} IN
                      /\ shown \subseteq Before(c, 0)
                      /\ Before(c, 0) \ shown \subseteq {m \in stored : pag[c].more /\ m.id < pag[c].oldest}
    BY DEF ViewComplete
  <2>2. tasks = {} /\ events = {}
    BY DEF Settled
  <2>3. Right(c)
    BY <1>1, <2>2 DEF KInv, ViewOK, Open, Only, Followed, Loading, Doomed
  <2>4. \A k \in DOMAIN list : list[k] \in stored /\ list[k].conv = c
    BY <2>2, <2>3 DEF Right, RowOK, Fresh
  <2>5. ASSUME NEW m \in stored, m.conv = c, \A k \in DOMAIN list : list[k] # m
        PROVE  pag[c].more /\ m.id < pag[c].oldest
    <3>1. ~Shown(list, m.id)
      BY <2>1, <2>4, <2>5, DataFacts DEF Shown
    <3> QED
      BY <2>2, <2>3, <2>5, <3>1 DEF Right, Has, Announced
  <2> QED
    BY <2>4, <2>5 DEF Before
<1>2. Init => KInv
  BY KInit
<1>3. IInv /\ KInv /\ [Next]_vars => KInv'
  BY KStep
<1> QED
  BY <1>1, <1>2, <1>3, Invariance, PTL DEF Spec
=============================================================================
