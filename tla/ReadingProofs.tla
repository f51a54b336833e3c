---------------------------- MODULE ReadingProofs ----------------------------
(***************************************************************************)
(* What holds of reading for every set of sources, whatever their          *)
(* characters and their length: what stands in a markdown fence is not      *)
(* read, and no step of the lexer or the parser goes round in a circle.     *)
(***************************************************************************)
EXTENDS Reading, FiniteSetTheorems, SequenceTheorems, WellFoundedInduction, TLAPS

-----------------------------------------------------------------------------
(* Numbers.  An induction over them is the least or the greatest exception. *)

LEMMA LeastNumber ==
  ASSUME NEW S, S \subseteq Nat, S # {}
  PROVE  Least(S) \in S /\ \A m \in S : Least(S) <= m
<1> DEFINE Upto(i) == 1..i
           T == {Upto(i) : i \in S}
           R == StrictSubsetOrdering(Nat)
<1>1. IsWellFoundedOn(R, FiniteSubsetsOf(Nat))
  BY FS_StrictSubsetOrderingWellFounded
<1>2. T \subseteq FiniteSubsetsOf(Nat)
  <2>1. \A i \in S : IsFiniteSet(1..i)
    BY FS_Interval
  <2> QED BY <2>1 DEF FiniteSubsetsOf
<1>3. T # {}
  OBVIOUS
<1>4. PICK t \in T : \A u \in T : ~ (<<u, t>> \in R)
  <2> HIDE DEF T, R
  <2> QED BY <1>1, <1>2, <1>3, WFMin
<1>5. PICK i \in S : t = Upto(i)
  OBVIOUS
<1>6. ASSUME NEW j \in S PROVE i <= j
  <2>1. ~ (<<Upto(j), Upto(i)>> \in R)
    BY <1>4, <1>5
  <2>2. j < i => Upto(j) \subseteq Upto(i) /\ i \in Upto(i) /\ i \notin Upto(j)
    OBVIOUS
  <2>3. Upto(j) \in SUBSET Nat /\ Upto(i) \in SUBSET Nat
    OBVIOUS
  <2>4. j < i => <<Upto(j), Upto(i)>> \in R
    BY <2>2, <2>3 DEF StrictSubsetOrdering
  <2> QED BY <2>1, <2>4
<1> QED BY <1>6 DEF Least

LEMMA Upward ==
  ASSUME NEW lo \in Nat, NEW S, \A k \in Nat : lo <= k /\ lo..k - 1 \subseteq S => k \in S
  PROVE  \A k \in Nat : lo <= k => k \in S
<1> DEFINE Bad == {k \in Nat : lo <= k /\ k \notin S}
<1> SUFFICES ASSUME Bad # {} PROVE FALSE
  OBVIOUS
<1>1. Least(Bad) \in Bad /\ \A m \in Bad : Least(Bad) <= m
  <2>1. Bad \subseteq Nat
    OBVIOUS
  <2> HIDE DEF Bad
  <2> QED BY <2>1, LeastNumber
<1>2. lo..Least(Bad) - 1 \subseteq S
  BY <1>1
<1> QED BY <1>1, <1>2

LEMMA Downward ==
  ASSUME NEW lo \in Nat, NEW hi \in Nat, NEW S,
         \A k \in lo..hi : k + 1..hi \subseteq S => k \in S
  PROVE  lo..hi \subseteq S
<1> DEFINE T == {m \in Nat : m <= hi - lo => hi - m \in S}
<1> SUFFICES ASSUME lo <= hi PROVE lo..hi \subseteq S
  OBVIOUS
<1>1. ASSUME NEW m \in Nat, 0..m - 1 \subseteq T PROVE m \in T
  <2> SUFFICES ASSUME m <= hi - lo PROVE hi - m \in S
    OBVIOUS
  <2>1. ASSUME NEW j \in (hi - m) + 1..hi PROVE j \in S
    <3>1. hi - j \in 0..m - 1
      OBVIOUS
    <3>2. hi - (hi - j) = j /\ hi - j <= hi - lo
      OBVIOUS
    <3> QED BY <3>1, <3>2, <1>1
  <2>2. hi - m \in lo..hi
    OBVIOUS
  <2> QED BY <2>1, <2>2
<1>2. \A m \in Nat : m \in T
  <2>1. \A m \in Nat : 0 <= m /\ 0..m - 1 \subseteq T => m \in T
    BY <1>1
  <2> HIDE DEF T
  <2> QED BY <2>1, Upward
<1>3. ASSUME NEW k \in lo..hi PROVE k \in S
  <2>1. hi - k \in T /\ hi - k <= hi - lo /\ hi - (hi - k) = k
    BY <1>2
  <2> QED BY <2>1
<1> QED BY <1>3

-----------------------------------------------------------------------------
(* Sources.                                                                 *)
IsSource(src) == Len(src) \in Nat /\ DOMAIN src = 1..Len(src)

LEMMA RunEnds ==
  ASSUME NEW src, IsSource(src), NEW p \in 1..Len(src) + 1, NEW S
  PROVE  /\ RunEnd(src, p, S) \in p..Len(src) + 1
         /\ RunEnd(src, p, S) = Len(src) + 1 \/ src[RunEnd(src, p, S)] \notin S
         /\ \A r \in p..RunEnd(src, p, S) - 1 : src[r] \in S
<1> DEFINE Q == {q \in p..Len(src) + 1 : q = Len(src) + 1 \/ src[q] \notin S}
<1>1. Len(src) \in Nat /\ Q \subseteq Nat /\ Len(src) + 1 \in Q
  BY DEF IsSource
<1>2. Least(Q) \in Q /\ \A q \in Q : Least(Q) <= q
  <2> HIDE DEF Q
  <2> QED BY <1>1, LeastNumber
<1>3. \A r \in p..Least(Q) - 1 : src[r] \in S
  <2> SUFFICES ASSUME NEW r \in p..Least(Q) - 1, src[r] \notin S PROVE FALSE
    OBVIOUS
  <2>1. Least(Q) \in p..Len(src) + 1
    BY <1>2
  <2>2. r \in Q
    BY <2>1, <1>1
  <2> QED BY <2>1, <2>2, <1>2
<1> QED BY <1>2, <1>3 DEF RunEnd

LEMMA LineEnds ==
  ASSUME NEW src, IsSource(src), NEW p \in 1..Len(src) + 1
  PROVE  /\ LineEnd(src, p) \in p..Len(src) + 1
         /\ AfterLine(src, p) \in p..Len(src) + 1
         /\ p <= Len(src) => AfterLine(src, p) > p
<1> DEFINE Q == {q \in p..Len(src) + 1 : q = Len(src) + 1 \/ src[q] = "nl"}
<1>1. Len(src) \in Nat /\ Q \subseteq Nat /\ Len(src) + 1 \in Q
  BY DEF IsSource
<1>2. Least(Q) \in Q
  <2> HIDE DEF Q
  <2> QED BY <1>1, LeastNumber
<1>3. LineEnd(src, p) \in p..Len(src) + 1
  BY <1>2 DEF LineEnd
<1> QED BY <1>1, <1>3 DEF AfterLine

(* A region of a source, and a sequence of regions one after the other.     *)
Region(src) == [start : 1..Len(src) + 1, end : 1..Len(src) + 1, live : BOOLEAN]
InOrder(src, p, rs) ==
  /\ rs \in Seq(Region(src))
  /\ \A i \in 1..Len(rs) : p <= rs[i].start /\ rs[i].start < rs[i].end
  /\ \A i, j \in 1..Len(rs) : i < j => rs[i].end <= rs[j].start

LEMMA RegionBounds ==
  ASSUME NEW src, IsSource(src), NEW p, NEW rs, InOrder(src, p, rs)
  PROVE  /\ Len(rs) \in Nat /\ DOMAIN rs = 1..Len(rs)
         /\ \A i \in 1..Len(rs) : rs[i].start \in Nat /\ rs[i].end \in 1..Len(src) + 1
<1>1. Len(rs) \in Nat /\ DOMAIN rs = 1..Len(rs) /\ Len(src) \in Nat
  BY LenProperties DEF InOrder, IsSource
<1>2. \A i \in 1..Len(rs) : rs[i] \in Region(src)
  BY ElementOfSeq DEF InOrder
<1> QED BY <1>1, <1>2 DEF Region

LEMMA LaterRegions ==
  ASSUME NEW src, IsSource(src), NEW p \in Nat, NEW q \in Nat, p <= q, NEW rs, InOrder(src, q, rs)
  PROVE  InOrder(src, p, rs)
<1>1. \A i \in 1..Len(rs) : rs[i].start \in Nat
  BY RegionBounds
<1> QED BY <1>1 DEF InOrder

LEMMA RegionFirst ==
  ASSUME NEW src, IsSource(src), NEW p \in 1..Len(src), NEW end \in p + 1..Len(src) + 1,
         NEW live \in BOOLEAN, NEW rs, InOrder(src, end, rs)
  PROVE  InOrder(src, p, <<[start |-> p, end |-> end, live |-> live]>> \o rs)
<1> DEFINE r == [start |-> p, end |-> end, live |-> live]
           qs == <<r>> \o rs
           n == Len(rs)
<1>1. r \in Region(src) /\ r.start = p /\ r.end = end
  BY DEF Region, IsSource
<1>2. <<r>> \in Seq(Region(src)) /\ Len(<<r>>) = 1 /\ <<r>>[1] = r
  BY <1>1
<1>3. /\ n \in Nat
      /\ \A i \in 1..n : rs[i].start \in Nat /\ rs[i].end \in 1..Len(src) + 1
      /\ \A i \in 1..n : end <= rs[i].start /\ rs[i].start < rs[i].end
      /\ \A i, j \in 1..n : i < j => rs[i].end <= rs[j].start
  BY RegionBounds DEF InOrder
<1> HIDE DEF r
<1>4. /\ qs \in Seq(Region(src)) /\ Len(qs) = 1 + n
      /\ \A i \in 1..1 + n : qs[i] = IF i <= 1 THEN <<r>>[i] ELSE rs[i - 1]
  <2>1. rs \in Seq(Region(src))
    BY DEF InOrder
  <2> HIDE DEF n
  <2> QED BY <1>2, <2>1, ConcatProperties DEF n
<1>5. qs[1] = r /\ \A i \in 1..n : qs[i + 1] = rs[i]
  BY <1>2, <1>3, <1>4
<1>6. \A i \in 1..n + 1 : i = 1 \/ \E k \in 1..n : i = k + 1
  <2>1. \A i \in 1..n + 1 : i = 1 \/ (i - 1 \in 1..n /\ i = (i - 1) + 1)
    BY <1>3
  <2> QED BY <2>1
<1> HIDE DEF qs, n
<1>7. \A i \in 1..n + 1 : p <= qs[i].start /\ qs[i].start < qs[i].end
  <2> TAKE i \in 1..n + 1
  <2>1. CASE i = 1
    BY <2>1, <1>1, <1>5
  <2>2. ASSUME NEW k \in 1..n, i = k + 1
        PROVE  p <= qs[i].start /\ qs[i].start < qs[i].end
    <3>1. qs[i] = rs[k]
      BY <1>5, <2>2
    <3>2. rs[k].start \in Nat /\ rs[k].end \in Nat /\ end <= rs[k].start /\ rs[k].start < rs[k].end
      BY <1>3
    <3> QED BY <3>1, <3>2
  <2> QED BY <2>1, <2>2, <1>6
<1>8. ASSUME NEW i \in 1..n + 1, NEW j \in 1..n + 1, i < j
      PROVE  qs[i].end <= qs[j].start
  <2>1. PICK m \in 1..n : j = m + 1
    BY <1>6, <1>8, <1>3
  <2>2. qs[j] = rs[m]
    BY <1>5, <2>1
  <2>3. CASE i = 1
    BY <2>2, <2>3, <1>1, <1>3, <1>5
  <2>4. ASSUME NEW k \in 1..n, i = k + 1
        PROVE  qs[i].end <= qs[j].start
    <3>1. qs[i] = rs[k] /\ k < m
      BY <1>5, <1>3, <1>8, <2>1, <2>4
    <3> QED BY <3>1, <2>2, <1>3
  <2> QED BY <2>3, <2>4, <1>6
<1>9. Len(qs) = n + 1
  BY <1>3, <1>4
<1> QED BY <1>4, <1>7, <1>8, <1>9 DEF InOrder, r, qs

LEMMA FencesInOrder ==
  ASSUME NEW src, IsSource(src)
  PROVE  InOrder(src, 1, ScanMarkdownFences(src))
<1> DEFINE L == Len(src)
           end(p) == LET C == Closers(src, p)
                     IN  IF C = {} THEN Len(src) + 1 ELSE AfterLine(src, Least(C))
           Body(f, p) ==
             IF p = Len(src) + 1 THEN <<>>
             ELSE IF ~ FenceRun(src, p).opens THEN f[AfterLine(src, p)]
             ELSE <<[start |-> p, end |-> end(p), live |-> FenceRun(src, p).live]>> \o f[end(p)]
           Is(f, k) == f = [q \in k..L + 1 |-> Body(f, q)]
<1>1. L \in Nat
  BY DEF IsSource
<1>2. ASSUME NEW p \in 1..L PROVE end(p) \in p + 1..L + 1 /\ AfterLine(src, p) \in p + 1..L + 1
  <2>1. AfterLine(src, p) \in p + 1..L + 1
    BY <1>1, LineEnds
  <2>2. Closers(src, p) \subseteq AfterLine(src, p)..L
    BY DEF Closers
  <2>3. CASE Closers(src, p) # {}
    <3>1. Least(Closers(src, p)) \in p + 1..L
      BY <1>1, <2>1, <2>2, <2>3, LeastNumber
    <3>2. AfterLine(src, Least(Closers(src, p))) \in p + 1..L + 1
      BY <1>1, <3>1, LineEnds
    <3> QED BY <2>1, <2>3, <3>2
  <2> QED BY <1>1, <2>1, <2>3
<1>3. ASSUME NEW p \in 1..L PROVE FenceRun(src, p).live \in BOOLEAN
  BY DEF FenceRun
<1>4. ASSUME NEW p \in 1..L + 1, NEW f, NEW g, \A q \in p + 1..L + 1 : f[q] = g[q]
      PROVE  Body(f, p) = Body(g, p)
  <2>1. CASE p = L + 1
    BY <2>1
  <2>2. CASE p # L + 1
    <3>1. f[AfterLine(src, p)] = g[AfterLine(src, p)] /\ f[end(p)] = g[end(p)]
      <4> HIDE DEF end
      <4> QED BY <1>1, <1>2, <1>4, <2>2
    <3> QED BY <3>1
  <2> QED BY <2>1, <2>2
<1> HIDE DEF Body, Is
<1>5. \E f : Is(f, 1)
  <2> DEFINE S == {k \in 1..L + 2 : \E f : Is(f, k)}
  <2>1. ASSUME NEW k \in 1..L + 2, k + 1..L + 2 \subseteq S
        PROVE  \E f : Is(f, k)
    <3>1. CASE k = L + 2
      <4> DEFINE h == [q \in k..L + 1 |-> <<>>]
      <4>1. k..L + 1 = {}
        BY <1>1, <3>1
      <4>2. Is(h, k)
        BY <4>1 DEF Is
      <4> HIDE DEF h
      <4> QED BY <4>2
    <3>2. CASE k \in 1..L + 1
      <4>1. k + 1 \in S
        <5>1. k + 1 \in k + 1..L + 2
          BY <1>1, <3>2
        <5> HIDE DEF S
        <5> QED BY <2>1, <5>1
      <4>2. PICK g : Is(g, k + 1)
        BY <4>1
      <4> DEFINE h == [q \in k..L + 1 |-> IF q = k THEN Body(g, k) ELSE g[q]]
      <4>3. \A q \in k + 1..L + 1 : h[q] = g[q] /\ g[q] = Body(g, q)
        BY <4>2, <1>1, <3>2 DEF Is
      <4>4. h[k] = Body(g, k) /\ h = [q \in k..L + 1 |-> h[q]]
        BY <3>2, <1>1
      <4> HIDE DEF h
      <4>5. \A q \in k..L + 1 : Body(h, q) = Body(g, q)
        BY <4>3, <1>1, <1>4, <3>2
      <4>6. \A q \in k..L + 1 : h[q] = Body(h, q)
        <5>1. k \in k..L + 1 /\ \A q \in k..L + 1 : q = k \/ q \in k + 1..L + 1
          BY <3>2, <1>1
        <5> QED BY <4>3, <4>4, <4>5, <5>1
      <4>7. Is(h, k)
        BY <4>4, <4>6 DEF Is
      <4> QED BY <4>7
    <3> QED BY <1>1, <3>1, <3>2
  <2>2. \A k \in 1..L + 2 : k + 1..L + 2 \subseteq S => k \in S
    BY <2>1
  <2>3. 1 \in Nat /\ L + 2 \in Nat /\ 1 \in 1..L + 2
    BY <1>1
  <2>4. 1..L + 2 \subseteq S
    <3> DEFINE top == L + 2
    <3>1. 1 \in Nat /\ top \in Nat /\ \A k \in 1..top : k + 1..top \subseteq S => k \in S
      <4> HIDE DEF S
      <4> QED BY <2>2, <2>3
    <3> HIDE DEF S, top
    <3>2. 1..top \subseteq S
      BY <3>1, Downward
    <3> QED BY <3>2 DEF top
  <2> QED BY <2>3, <2>4
<1> DEFINE from == CHOOSE f : Is(f, 1)
<1>6. Is(from, 1)
  BY <1>5
<1>7. ScanMarkdownFences(src) = from[1]
  BY DEF ScanMarkdownFences, Is, Body
<1> HIDE DEF from
<1>8. \A p \in 1..L + 1 : from[p] = Body(from, p)
  BY <1>6 DEF Is
<1> DEFINE S == {p \in 1..L + 1 : InOrder(src, p, from[p])}
<1>9. ASSUME NEW p \in 1..L + 1, p + 1..L + 1 \subseteq S
      PROVE  InOrder(src, p, from[p])
  <2>1. CASE p = L + 1
    <3>1. from[p] = <<>>
      BY <1>8, <2>1 DEF Body
    <3> QED BY <3>1, EmptySeq DEF InOrder
  <2>2. CASE p # L + 1 /\ ~ FenceRun(src, p).opens
    <3> DEFINE q == AfterLine(src, p)
    <3>1. from[p] = from[q]
      BY <1>8, <2>2 DEF Body
    <3>2. p \in 1..L /\ q \in p + 1..L + 1
      BY <1>1, <1>2, <2>2
    <3> HIDE DEF q
    <3>3. InOrder(src, q, from[q])
      BY <3>2, <1>9
    <3> QED BY <3>1, <3>2, <3>3, LaterRegions
  <2>3. CASE p # L + 1 /\ FenceRun(src, p).opens
    <3> DEFINE q == end(p)
               live == FenceRun(src, p).live
    <3>1. from[p] = <<[start |-> p, end |-> q, live |-> live]>> \o from[q]
      BY <1>8, <2>3 DEF Body
    <3>2. p \in 1..L /\ q \in p + 1..L + 1
      BY <1>1, <1>2, <2>3
    <3>3. live \in BOOLEAN
      BY <1>3, <3>2
    <3> HIDE DEF q, live
    <3>4. InOrder(src, q, from[q])
      BY <3>2, <1>9
    <3> QED BY <3>1, <3>2, <3>3, <3>4, RegionFirst
  <2> QED BY <2>1, <2>2, <2>3
<1>10. \A k \in 1..L + 1 : k + 1..L + 1 \subseteq S => k \in S
  BY <1>9
<1>11. 1 \in Nat /\ L + 1 \in Nat /\ 1 \in 1..L + 1
  BY <1>1
<1>12. 1..L + 1 \subseteq S
  <2> HIDE DEF S, L
  <2> QED BY <1>10, <1>11, Downward
<1> QED BY <1>7, <1>11, <1>12

-----------------------------------------------------------------------------
(* Sequences of anything.                                                   *)
IsSeq(s) == \E S : s \in Seq(S)

LEMMA SeqIs ==
  ASSUME NEW s, IsSeq(s)
  PROVE  Len(s) \in Nat /\ DOMAIN s = 1..Len(s)
  BY LenProperties DEF IsSeq

LEMMA ShortSeqs ==
  /\ IsSeq(<<>>) /\ Len(<<>>) = 0
  /\ \A x : IsSeq(<<x>>) /\ Len(<<x>>) = 1 /\ <<x>>[1] = x
  /\ \A x, y : IsSeq(<<x, y>>) /\ Len(<<x, y>>) = 2
  /\ \A x, y, z : /\ IsSeq(<<x, y, z>>) /\ Len(<<x, y, z>>) = 3
                  /\ <<x, y, z>>[1] = x /\ <<x, y, z>>[2] = y /\ <<x, y, z>>[3] = z
<1>1. IsSeq(<<>>) /\ Len(<<>>) = 0
  BY EmptySeq DEF IsSeq
<1>2. ASSUME NEW x PROVE IsSeq(<<x>>) /\ Len(<<x>>) = 1 /\ <<x>>[1] = x
  <2>1. <<x>> \in Seq({x})
    OBVIOUS
  <2> QED BY <2>1 DEF IsSeq
<1>3. ASSUME NEW x, NEW y PROVE IsSeq(<<x, y>>) /\ Len(<<x, y>>) = 2
  <2>1. <<x, y>> \in Seq({x, y})
    OBVIOUS
  <2> QED BY <2>1 DEF IsSeq
<1>4. ASSUME NEW x, NEW y, NEW z
      PROVE  /\ IsSeq(<<x, y, z>>) /\ Len(<<x, y, z>>) = 3
             /\ <<x, y, z>>[1] = x /\ <<x, y, z>>[2] = y /\ <<x, y, z>>[3] = z
  <2>1. <<x, y, z>> \in Seq({x, y, z})
    OBVIOUS
  <2> QED BY <2>1 DEF IsSeq
<1> QED BY <1>1, <1>2, <1>3, <1>4

LEMMA Joined ==
  ASSUME NEW s, IsSeq(s), NEW t, IsSeq(t)
  PROVE  /\ IsSeq(s \o t)
         /\ Len(s) \in Nat /\ Len(t) \in Nat /\ Len(s \o t) = Len(s) + Len(t)
         /\ DOMAIN (s \o t) = 1..Len(s) + Len(t)
         /\ \A i \in 1..Len(s) : (s \o t)[i] = s[i]
         /\ \A i \in 1..Len(t) : (s \o t)[Len(s) + i] = t[i]
<1>1. PICK S : s \in Seq(S)
  BY DEF IsSeq
<1>2. PICK T : t \in Seq(T)
  BY DEF IsSeq
<1> DEFINE U == S \cup T
<1>3. s \in Seq(U) /\ t \in Seq(U)
  <2>1. S \subseteq U /\ T \subseteq U
    OBVIOUS
  <2> HIDE DEF U
  <2> QED BY <1>1, <1>2, <2>1, SeqMonotonic
<1> HIDE DEF U
<1>4. /\ s \o t \in Seq(U) /\ Len(s \o t) = Len(s) + Len(t)
      /\ \A i \in 1..Len(s) + Len(t) : (s \o t)[i] = IF i <= Len(s) THEN s[i] ELSE t[i - Len(s)]
      /\ Len(s) \in Nat /\ Len(t) \in Nat
  BY <1>3, ConcatProperties, LenProperties
<1>5. DOMAIN (s \o t) = 1..Len(s \o t)
  BY <1>4, LenProperties
<1> QED BY <1>4, <1>5 DEF IsSeq

IsJoin(u, s, t) ==
  /\ IsSeq(u) /\ Len(s) \in Nat /\ Len(t) \in Nat /\ Len(u) = Len(s) + Len(t)
  /\ \A i \in 1..Len(s) : u[i] = s[i]
  /\ \A i \in 1..Len(t) : u[Len(s) + i] = t[i]

LEMMA JoinedAs ==
  ASSUME NEW s, NEW t, IsSeq(s), IsSeq(t)
  PROVE  IsJoin(s \o t, s, t)
  BY Joined DEF IsJoin

-----------------------------------------------------------------------------
(* Constructs: each ends behind where it begins, or nowhere.                *)
EndsIn(to, from, src) == to = 0 \/ to \in from..Len(src) + 1

LEMMA Matching ==
  ASSUME NEW src, NEW p, NEW s, Matches(src, p, s)
  PROVE  p + Len(s) <= Len(src) + 1 /\ SubSeq(src, p, p + Len(s) - 1) = s
  BY DEF Matches

LEMMA AttrValueEnds ==
  ASSUME NEW src, IsSource(src), NEW p \in 1..Len(src)
  PROVE  EndsIn(AttrValue(src, p).to, p + 2, src)
<1> DEFINE L == Len(src)
           lo == p + 1
           hi == Len(src) + 2
           Past(q) == LET escaped == src[q] = "\\" /\ q < Len(src) /\ src[q + 1] \in {src[p], "\\"}
                      IN  IF escaped THEN q + 1 ELSE q
           Body(f, q) ==
             IF q > Len(src) THEN [to |-> 0, v |-> <<>>]
             ELSE IF src[q] = src[p] THEN [to |-> q + 1, v |-> <<>>]
             ELSE [f[Past(q) + 1] EXCEPT !.v = <<src[Past(q)]>> \o @]
           Is(f, k) == f = [q \in k..hi |-> Body(f, q)]
<1>1. L \in Nat /\ lo \in Nat /\ hi \in Nat /\ lo <= hi /\ lo = p + 1 /\ hi = L + 2
  BY DEF IsSource
<1>2. ASSUME NEW q \in lo..hi, q <= L
      PROVE  Past(q) \in q..L /\ Past(q) + 1 \in q + 1..hi
  BY <1>1, <1>2
<1> HIDE DEF Past
<1>3. ASSUME NEW q \in lo..hi, NEW f, NEW g, \A r \in q + 1..hi : f[r] = g[r]
      PROVE  Body(f, q) = Body(g, q)
  <2>1. CASE q > L
    BY <2>1
  <2>2. CASE q <= L
    <3>1. f[Past(q) + 1] = g[Past(q) + 1]
      BY <1>2, <1>3, <2>2
    <3> QED BY <3>1
  <2> QED BY <1>1, <2>1, <2>2
<1>4. ASSUME NEW f, NEW q
      PROVE  /\ q > L => Body(f, q) = [to |-> 0, v |-> <<>>]
             /\ ~ (q > L) /\ src[q] = src[p] => Body(f, q) = [to |-> q + 1, v |-> <<>>]
             /\ ~ (q > L) /\ src[q] # src[p] =>
                  Body(f, q) = [f[Past(q) + 1] EXCEPT !.v = <<src[Past(q)]>> \o @]
  OBVIOUS
<1>5. AttrValue(src, p) = (CHOOSE f : Is(f, lo))[lo]
  BY DEF AttrValue, Past
<1> HIDE DEF Body, Is, hi, lo
<1>6. \E f : Is(f, lo)
  <2> DEFINE top == hi + 1
             S == {k \in lo..top : \E f : Is(f, k)}
  <2>1. ASSUME NEW k \in lo..top, k + 1..top \subseteq S
        PROVE  \E f : Is(f, k)
    <3>1. CASE k = top
      <4> DEFINE h == [q \in k..hi |-> <<>>]
      <4>1. k..hi = {}
        BY <1>1, <3>1
      <4>2. Is(h, k)
        BY <4>1 DEF Is
      <4> HIDE DEF h
      <4> QED BY <4>2
    <3>2. CASE k \in lo..hi
      <4>1. k + 1 \in k + 1..top
        BY <1>1, <3>2
      <4>2. PICK g : Is(g, k + 1)
        BY <2>1, <4>1
      <4> DEFINE h == [q \in k..hi |-> IF q = k THEN Body(g, k) ELSE g[q]]
      <4>3. \A q \in k + 1..hi : h[q] = g[q] /\ g[q] = Body(g, q)
        BY <4>2, <1>1, <3>2 DEF Is
      <4>4. h[k] = Body(g, k) /\ h = [q \in k..hi |-> h[q]]
        BY <3>2, <1>1
      <4> HIDE DEF h
      <4>5. \A q \in k..hi : Body(h, q) = Body(g, q)
        <5> TAKE q \in k..hi
        <5>1. q \in lo..hi /\ \A r \in q + 1..hi : r \in k + 1..hi
          BY <1>1, <3>2
        <5>2. \A r \in q + 1..hi : h[r] = g[r]
          BY <4>3, <5>1
        <5> QED BY <1>3, <5>1, <5>2
      <4>6. \A q \in k..hi : h[q] = Body(h, q)
        <5>1. k \in k..hi /\ \A q \in k..hi : q = k \/ q \in k + 1..hi
          BY <3>2, <1>1
        <5> QED BY <4>3, <4>4, <4>5, <5>1
      <4>7. Is(h, k)
        BY <4>4, <4>6 DEF Is
      <4> QED BY <4>7
    <3> QED BY <1>1, <3>1, <3>2
  <2>2. \A k \in lo..top : k + 1..top \subseteq S => k \in S
    BY <2>1
  <2>3. top \in Nat /\ lo \in lo..top
    BY <1>1
  <2>4. lo..top \subseteq S
    <3> HIDE DEF S, top
    <3> QED BY <2>2, <2>3, <1>1, Downward
  <2> QED BY <2>3, <2>4
<1> DEFINE from == CHOOSE f : Is(f, lo)
<1>7. Is(from, lo) /\ AttrValue(src, p) = from[lo]
  BY <1>5, <1>6
<1> HIDE DEF from
<1>8. \A q \in lo..hi : from[q] = Body(from, q)
  BY <1>7 DEF Is
<1> DEFINE Good(q) == DOMAIN from[q] = {"to", "v"} /\ EndsIn(from[q].to, q + 1, src)
           S == {q \in lo..hi : Good(q)}
<1>9. ASSUME NEW q \in lo..hi, q + 1..hi \subseteq S
      PROVE  Good(q)
  <2>1. CASE q > L
    <3>1. from[q] = [to |-> 0, v |-> <<>>]
      BY <1>4, <1>8, <2>1
    <3> QED BY <3>1 DEF EndsIn
  <2>2. CASE q <= L /\ src[q] = src[p]
    <3>1. ~ (q > L)
      BY <1>1, <2>2
    <3>2. from[q] = [to |-> q + 1, v |-> <<>>]
      BY <3>1, <1>4, <1>8, <2>2
    <3> QED BY <3>2, <1>1, <2>2 DEF EndsIn
  <2>3. CASE q <= L /\ src[q] # src[p]
    <3> DEFINE r == from[Past(q) + 1]
    <3>6. ~ (q > L)
      BY <1>1, <2>3
    <3>1. from[q] = [r EXCEPT !.v = <<src[Past(q)]>> \o @]
      BY <3>6, <1>4, <1>8, <2>3
    <3>2. Past(q) \in q..L /\ Past(q) + 1 \in q + 1..hi
      BY <1>2, <2>3
    <3>3. Good(Past(q) + 1)
      BY <1>9, <3>2
    <3>4. DOMAIN r = {"to", "v"} /\ EndsIn(r.to, Past(q) + 2, src)
      BY <3>2, <3>3, <1>1
    <3> HIDE DEF r
    <3>5. DOMAIN from[q] = {"to", "v"} /\ from[q].to = r.to
      BY <3>1, <3>4
    <3> QED BY <3>2, <3>4, <3>5, <1>1 DEF EndsIn
  <2> QED BY <1>1, <2>1, <2>2, <2>3
<1>10. \A k \in lo..hi : k + 1..hi \subseteq S => k \in S
  BY <1>9
<1>11. lo..hi \subseteq S
  <2>1. lo \in Nat /\ hi \in Nat
    BY <1>1
  <2> HIDE DEF S
  <2> QED BY <1>10, <2>1, Downward
<1>12. Good(lo)
  BY <1>1, <1>11
<1> QED BY <1>1, <1>7, <1>12 DEF EndsIn

(* A scanned attribute ends behind its name, and is one token.              *)
LEMMA AttributeEnds ==
  ASSUME NEW src, IsSource(src), NEW p \in 1..Len(src) + 1
  PROVE  LET a == ScanAttribute(src, p)
         IN  /\ EndsIn(a.to, p + 1, src)
             /\ a.to # 0 => \E v : a.tokens = <<Token("attr", v, p, a.to)>>
<1> DEFINE n == RunEnd(src, p, Words \ DottedWords)
           eq == RunEnd(src, n, Blanks)
           q == RunEnd(src, eq + 1, Blanks)
           a == AttrValue(src, q)
<1>1. ScanAttribute(src, p) =
        IF n = p \/ ~ Matches(src, eq, <<"=">>) \/ q > Len(src) THEN LexError
        ELSE IF src[q] \notin {"dq", "sq"} THEN LexError
        ELSE IF a.to = 0 THEN LexError
        ELSE Scanned(a.to, <<Token("attr", <<SubSeq(src, p, n - 1), a.v>>, p, a.to)>>)
  BY DEF ScanAttribute
<1>2. Len(src) \in Nat /\ n \in p..Len(src) + 1
  BY RunEnds DEF IsSource
<1> HIDE DEF n
<1>3. eq \in n..Len(src) + 1
  BY <1>2, RunEnds
<1>4. Matches(src, eq, <<"=">>) => eq <= Len(src)
  <2> HIDE DEF eq
  <2>1. Len(<<"=">>) = 1
    OBVIOUS
  <2> QED BY <2>1, <1>2, <1>3, Matching
<1> HIDE DEF eq
<1>5. Matches(src, eq, <<"=">>) => q \in eq + 1..Len(src) + 1
  BY <1>2, <1>3, <1>4, RunEnds
<1> HIDE DEF q
<1>6. Matches(src, eq, <<"=">>) /\ q <= Len(src) => EndsIn(a.to, q + 2, src)
  BY <1>2, <1>3, <1>5, AttrValueEnds
<1> HIDE DEF a
<1> QED BY <1>1, <1>2, <1>3, <1>4, <1>5, <1>6 DEF EndsIn, LexError, Scanned

(* What follows the name of a tag: attributes, and the token that ends it;  *)
(* a block close has no attributes.                                         *)
Content(ts, isBlockClose) ==
  /\ IsSeq(ts) /\ Len(ts) >= 1
  /\ \A i \in 1..Len(ts) - 1 : ts[i].t = "attr"
  /\ ts[Len(ts)].t \in {"self", "close"}
  /\ isBlockClose => Len(ts) = 1 /\ ts[1].t = "close"

TagTokens(ts, isBlockClose) ==
  /\ IsSeq(ts) /\ Len(ts) >= 2
  /\ ts[1].t = "name"
  /\ \A i \in 2..Len(ts) - 1 : ts[i].t = "attr"
  /\ ts[Len(ts)].t \in {"self", "close"}
  /\ isBlockClose => Len(ts) = 2 /\ ts[2].t = "close"

LEMMA ContentGrows ==
  ASSUME NEW ts, Content(ts, FALSE), NEW v, NEW at, NEW to
  PROVE  Content(<<Token("attr", v, at, to)>> \o ts, FALSE)
<1> DEFINE x == Token("attr", v, at, to)
           us == <<x>> \o ts
           n == Len(ts)
<1>1. x.t = "attr"
  BY DEF Token
<1> HIDE DEF x
<1>2. /\ IsSeq(us) /\ n \in Nat /\ Len(us) = 1 + n
      /\ us[1] = x
      /\ \A i \in 1..n : us[1 + i] = ts[i]
  <2>1. IsSeq(<<x>>) /\ Len(<<x>>) = 1 /\ <<x>>[1] = x
    BY ShortSeqs
  <2> HIDE DEF n
  <2>2. IsSeq(ts)
    BY DEF Content
  <2> QED BY <2>1, <2>2, Joined DEF n
<1> HIDE DEF us
<1>3. us[1 + n] = ts[n]
  BY <1>2 DEF Content
<1>4. ASSUME NEW i \in 1..n PROVE us[i].t = "attr"
  <2>1. CASE i = 1
    BY <2>1, <1>1, <1>2
  <2>2. CASE i # 1
    <3>1. i - 1 \in 1..n - 1 /\ i = 1 + (i - 1)
      BY <1>2, <2>2
    <3>2. us[i] = ts[i - 1]
      BY <3>1, <1>2
    <3> QED BY <3>1, <3>2 DEF Content
  <2> QED BY <2>1, <2>2
<1> QED BY <1>2, <1>3, <1>4 DEF Content, us, x

LEMMA NameBefore ==
  ASSUME NEW ts, NEW isBlockClose \in BOOLEAN, Content(ts, isBlockClose), NEW v, NEW at, NEW to
  PROVE  TagTokens(<<Token("name", v, at, to)>> \o ts, isBlockClose)
<1> DEFINE x == Token("name", v, at, to)
           us == <<x>> \o ts
           n == Len(ts)
<1>1. x.t = "name"
  BY DEF Token
<1> HIDE DEF x
<1>2. /\ IsSeq(us) /\ n \in Nat /\ Len(us) = 1 + n
      /\ us[1] = x
      /\ \A i \in 1..n : us[1 + i] = ts[i]
  <2>1. IsSeq(<<x>>) /\ Len(<<x>>) = 1 /\ <<x>>[1] = x
    BY ShortSeqs
  <2> HIDE DEF n
  <2>2. IsSeq(ts)
    BY DEF Content
  <2> QED BY <2>1, <2>2, Joined DEF n
<1> HIDE DEF us
<1>3. n >= 1 /\ us[1 + n] = ts[n]
  BY <1>2 DEF Content
<1>4. ASSUME NEW i \in 2..n PROVE us[i].t = "attr"
  <2>1. i - 1 \in 1..n - 1 /\ i - 1 \in 1..n /\ i = 1 + (i - 1)
    BY <1>2
  <2>2. us[i] = ts[i - 1]
    BY <2>1, <1>2
  <2> QED BY <2>1, <2>2 DEF Content
<1>5. isBlockClose => n = 1 /\ us[2].t = "close"
  BY <1>2 DEF Content
<1>6. us[1].t = "name" /\ us[Len(us)].t \in {"self", "close"}
  BY <1>1, <1>2, <1>3 DEF Content
<1> QED BY <1>2, <1>3, <1>4, <1>5, <1>6 DEF TagTokens, us, x

(* A tag ends behind its name.                                              *)
LEMMA TagEnds ==
  ASSUME NEW src, IsSource(src), NEW p \in 1..Len(src) + 1, NEW isBlockClose \in BOOLEAN
  PROVE  LET tag == ScanTag(src, p, isBlockClose)
         IN  /\ EndsIn(tag.to, p + 1, src)
             /\ tag.to # 0 => TagTokens(tag.tokens, isBlockClose)
<1> DEFINE n == RunEnd(src, p, Blanks)
           lo == RunEnd(src, n, Words)
           hi == Len(src) + 1
           name == Token("name", SubSeq(src, n, lo - 1), n, lo)
           Start(q) == RunEnd(src, q, Blanks)
           Attr(q) == ScanAttribute(src, Start(q))
           Self(q) == Scanned(Start(q) + 3, <<Token("self", <<>>, Start(q), Start(q) + 3)>>)
           Close(q) == Scanned(Start(q) + 2, <<Token("close", <<>>, Start(q), Start(q) + 2)>>)
           Body(f, q) ==
             IF Start(q) > Len(src) THEN LexError
             ELSE IF ~ isBlockClose /\ Matches(src, Start(q), SelfShut) THEN Self(q)
             ELSE IF Matches(src, Start(q), Shut) THEN Close(q)
             ELSE IF isBlockClose \/ Attr(q).to = 0 \/ f[Attr(q).to].to = 0 THEN LexError
             ELSE Scanned(f[Attr(q).to].to, Attr(q).tokens \o f[Attr(q).to].tokens)
           Is(f, k) == f = [q \in k..hi |-> Body(f, q)]
           content == (CHOOSE f : Is(f, lo))[lo]
<1>1. Len(src) \in Nat /\ hi \in Nat /\ hi = Len(src) + 1
  BY DEF IsSource
<1>2. ScanTag(src, p, isBlockClose) =
        IF n > Len(src) \/ lo = n \/ content.to = 0 THEN LexError
        ELSE Scanned(content.to, <<name>> \o content.tokens)
  BY DEF ScanTag
<1>3. n \in p..hi /\ n \in Nat
  BY <1>1, RunEnds
<1> HIDE DEF n
<1>4. lo \in n..hi
  BY <1>1, <1>3, RunEnds
<1> HIDE DEF lo
<1>5. ASSUME NEW q \in lo..hi
      PROVE  /\ Start(q) \in q..hi
             /\ Attr(q).to = 0 \/ Attr(q).to \in q + 1..hi
             /\ Attr(q).to # 0 => \E v : Attr(q).tokens = <<Token("attr", v, Start(q), Attr(q).to)>>
  <2>1. q \in 1..Len(src) + 1
    BY <1>1, <1>3, <1>4
  <2>2. Start(q) \in q..Len(src) + 1
    BY <2>1, RunEnds
  <2>3. Start(q) \in 1..Len(src) + 1
    BY <2>1, <2>2
  <2> HIDE DEF Start
  <2>4. /\ EndsIn(Attr(q).to, Start(q) + 1, src)
        /\ Attr(q).to # 0 => \E v : Attr(q).tokens = <<Token("attr", v, Start(q), Attr(q).to)>>
    BY <2>3, AttributeEnds
  <2> HIDE DEF Attr
  <2>5. Attr(q).to = 0 \/ Attr(q).to \in q + 1..hi
    BY <1>1, <2>1, <2>2, <2>4 DEF EndsIn
  <2> QED BY <1>1, <2>2, <2>4, <2>5
<1>6. ASSUME NEW f, NEW q
      PROVE  /\ Start(q) > Len(src) => Body(f, q) = LexError
             /\ ~ (Start(q) > Len(src)) =>
                  \/ ~ isBlockClose /\ Matches(src, Start(q), SelfShut) /\ Body(f, q) = Self(q)
                  \/ Matches(src, Start(q), Shut) /\ Body(f, q) = Close(q)
                  \/ Body(f, q) = LexError
                  \/ /\ ~ isBlockClose /\ Attr(q).to # 0 /\ f[Attr(q).to].to # 0
                     /\ Body(f, q) = Scanned(f[Attr(q).to].to, Attr(q).tokens \o f[Attr(q).to].tokens)
  <2> HIDE DEF Start, Attr, Self, Close
  <2> QED OBVIOUS
<1>7. ASSUME NEW q \in lo..hi, NEW f, NEW g, \A r \in q + 1..hi : f[r] = g[r]
      PROVE  Body(f, q) = Body(g, q)
  <2> HIDE DEF Start, Attr, Self, Close
  <2>1. Attr(q).to = 0 \/ f[Attr(q).to] = g[Attr(q).to]
    BY <1>5, <1>7
  <2> QED BY <2>1
<1> HIDE DEF Start, Attr, Self, Close, Body, Is, hi
<1>8. \E f : Is(f, lo)
  <2> DEFINE top == hi + 1
             S == {k \in lo..top : \E f : Is(f, k)}
  <2>1. ASSUME NEW k \in lo..top, k + 1..top \subseteq S
        PROVE  \E f : Is(f, k)
    <3>1. CASE k = top
      <4> DEFINE h == [q \in k..hi |-> <<>>]
      <4>1. k..hi = {}
        BY <1>1, <1>3, <1>4, <3>1
      <4>2. Is(h, k)
        BY <4>1 DEF Is
      <4> HIDE DEF h
      <4> QED BY <4>2
    <3>2. CASE k \in lo..hi
      <4>1. k + 1 \in k + 1..top
        BY <1>1, <1>3, <1>4, <3>2
      <4>2. PICK g : Is(g, k + 1)
        BY <2>1, <4>1
      <4> DEFINE h == [q \in k..hi |-> IF q = k THEN Body(g, k) ELSE g[q]]
      <4>3. \A q \in k + 1..hi : h[q] = g[q] /\ g[q] = Body(g, q)
        BY <4>2, <1>1, <1>3, <1>4, <3>2 DEF Is
      <4>4. h[k] = Body(g, k) /\ h = [q \in k..hi |-> h[q]]
        BY <3>2, <1>1, <1>3, <1>4
      <4> HIDE DEF h
      <4>5. \A q \in k..hi : Body(h, q) = Body(g, q)
        <5> TAKE q \in k..hi
        <5>1. q \in lo..hi /\ \A r \in q + 1..hi : r \in k + 1..hi
          BY <1>1, <1>3, <1>4, <3>2
        <5>2. \A r \in q + 1..hi : h[r] = g[r]
          BY <4>3, <5>1
        <5> QED BY <1>7, <5>1, <5>2
      <4>6. \A q \in k..hi : h[q] = Body(h, q)
        <5>1. k \in k..hi /\ \A q \in k..hi : q = k \/ q \in k + 1..hi
          BY <3>2, <1>1, <1>3, <1>4
        <5> QED BY <4>3, <4>4, <4>5, <5>1
      <4>7. Is(h, k)
        BY <4>4, <4>6 DEF Is
      <4> QED BY <4>7
    <3> QED BY <1>1, <1>3, <1>4, <3>1, <3>2
  <2>2. \A k \in lo..top : k + 1..top \subseteq S => k \in S
    BY <2>1
  <2>3. top \in Nat /\ lo \in Nat /\ lo \in lo..top
    BY <1>1, <1>3, <1>4
  <2>4. lo..top \subseteq S
    <3> HIDE DEF S, top
    <3> QED BY <2>2, <2>3, Downward
  <2> QED BY <2>3, <2>4
<1> DEFINE from == CHOOSE f : Is(f, lo)
<1>9. Is(from, lo) /\ content = from[lo]
  BY <1>8
<1> HIDE DEF from
<1>10. \A q \in lo..hi : from[q] = Body(from, q)
  BY <1>9 DEF Is
<1> DEFINE Good(q) == from[q].to = 0 \/ (from[q].to \in q + 1..hi /\ Content(from[q].tokens, isBlockClose))
           S == {q \in lo..hi : Good(q)}
<1>11. ASSUME NEW q \in lo..hi, q + 1..hi \subseteq S
       PROVE  Good(q)
  <2>1. from[q] = Body(from, q)
    BY <1>10
  <2>2. CASE from[q] = LexError
    BY <2>2 DEF LexError, Scanned
  <2>3. CASE ~ (Start(q) > Len(src)) /\ ~ isBlockClose /\ Matches(src, Start(q), SelfShut) /\ from[q] = Self(q)
    <3> DEFINE x == Token("self", <<>>, Start(q), Start(q) + 3)
    <3>1. Start(q) + 3 <= Len(src) + 1
      <4>1. Len(SelfShut) = 3
        BY DEF SelfShut
      <4> QED BY <4>1, <2>3, Matching
    <3>2. from[q].to = Start(q) + 3 /\ from[q].tokens = <<x>>
      BY <2>3 DEF Self, Scanned
    <3>3. x.t = "self"
      BY DEF Token
    <3> HIDE DEF x
    <3>4. Content(<<x>>, isBlockClose)
      <4>1. IsSeq(<<x>>) /\ Len(<<x>>) = 1 /\ <<x>>[1] = x
        BY ShortSeqs
      <4> QED BY <4>1, <3>3, <2>3 DEF Content
    <3>5. Start(q) + 3 \in q + 1..hi
      BY <3>1, <1>1, <1>3, <1>4, <1>5
    <3> QED BY <3>2, <3>4, <3>5
  <2>4. CASE ~ (Start(q) > Len(src)) /\ Matches(src, Start(q), Shut) /\ from[q] = Close(q)
    <3> DEFINE x == Token("close", <<>>, Start(q), Start(q) + 2)
    <3>1. Start(q) + 2 <= Len(src) + 1
      <4>1. Len(Shut) = 2
        BY DEF Shut
      <4> QED BY <4>1, <2>4, Matching
    <3>2. from[q].to = Start(q) + 2 /\ from[q].tokens = <<x>>
      BY <2>4 DEF Close, Scanned
    <3>3. x.t = "close"
      BY DEF Token
    <3> HIDE DEF x
    <3>4. Content(<<x>>, isBlockClose)
      <4>1. IsSeq(<<x>>) /\ Len(<<x>>) = 1 /\ <<x>>[1] = x
        BY ShortSeqs
      <4> QED BY <4>1, <3>3, <2>4 DEF Content
    <3>5. Start(q) + 2 \in q + 1..hi
      BY <3>1, <1>1, <1>3, <1>4, <1>5
    <3> QED BY <3>2, <3>4, <3>5
  <2>5. CASE /\ ~ isBlockClose /\ Attr(q).to # 0 /\ from[Attr(q).to].to # 0
             /\ from[q] = Scanned(from[Attr(q).to].to, Attr(q).tokens \o from[Attr(q).to].tokens)
    <3> DEFINE r == Attr(q).to
    <3>1. r \in q + 1..hi /\ \E v : Attr(q).tokens = <<Token("attr", v, Start(q), r)>>
      BY <1>5, <2>5
    <3>2. from[r].to \in r + 1..hi /\ Content(from[r].tokens, FALSE)
      <4>1. Good(r)
        BY <3>1, <1>11
      <4>2. isBlockClose = FALSE
        BY <2>5
      <4> HIDE DEF r
      <4> QED BY <4>1, <4>2, <2>5 DEF r
    <3>3. from[q].to = from[r].to /\ from[q].tokens = Attr(q).tokens \o from[r].tokens
      <4> DEFINE ts == Attr(q).tokens \o from[r].tokens
      <4>1. from[q] = Scanned(from[r].to, ts)
        BY <2>5
      <4> HIDE DEF ts, r
      <4>2. from[q].to = from[r].to /\ from[q].tokens = ts
        BY <4>1 DEF Scanned
      <4> QED BY <4>2 DEF ts
    <3> HIDE DEF r
    <3>4. Content(from[q].tokens, FALSE)
      BY <3>1, <3>2, <3>3, ContentGrows
    <3>5. Content(from[q].tokens, isBlockClose)
      <4>1. isBlockClose = FALSE
        BY <2>5
      <4> QED BY <4>1, <3>4
    <3> QED BY <3>1, <3>2, <3>3, <3>5, <1>1, <1>3, <1>4
  <2> HIDE DEF Good
  <2> QED BY <2>1, <2>2, <2>3, <2>4, <2>5, <1>6
<1>12. \A k \in lo..hi : k + 1..hi \subseteq S => k \in S
  BY <1>11
<1>13. lo..hi \subseteq S
  <2>1. lo \in Nat /\ hi \in Nat
    BY <1>1, <1>3, <1>4
  <2> HIDE DEF S
  <2> QED BY <1>12, <2>1, Downward
<1>14. content.to = 0 \/ (content.to \in lo + 1..hi /\ Content(content.tokens, isBlockClose))
  BY <1>1, <1>3, <1>4, <1>9, <1>13
<1> HIDE DEF content
<1>15. CASE n > Len(src) \/ lo = n \/ content.to = 0
  BY <1>2, <1>15 DEF LexError, Scanned, EndsIn
<1>16. CASE ~ (n > Len(src) \/ lo = n \/ content.to = 0)
  <2>1. /\ ScanTag(src, p, isBlockClose).to = content.to
        /\ ScanTag(src, p, isBlockClose).tokens = <<name>> \o content.tokens
    BY <1>2, <1>16 DEF Scanned
  <2>2. TagTokens(<<name>> \o content.tokens, isBlockClose)
    BY <1>14, <1>16, NameBefore
  <2>3. content.to \in p + 1..hi
    BY <1>1, <1>3, <1>4, <1>14, <1>16
  <2> QED BY <2>1, <2>2, <2>3, <1>1 DEF EndsIn
<1> QED BY <1>15, <1>16

(* The tokens of an opening tag, up to e, and of the verbatim block that it *)
(* may begin: k texts and its close.                                        *)
Verbatims == {<<"exons.raw">>, <<"exons.comment">>}

VerbatimTail(ts, e, k) ==
  /\ k \in {0, 1} /\ Len(ts) = e + k + 3
  /\ ts[2].v \in Verbatims /\ ts[e].t = "close"
  /\ k = 1 => ts[e + 1].t = "text"
  /\ ts[e + k + 1].t = "bclose"
  /\ ts[e + k + 2].t = "name" /\ ts[e + k + 2].v = ts[2].v
  /\ ts[e + k + 3].t = "close"

OpenTokens(ts, at, e, k) ==
  /\ IsSeq(ts) /\ e \in 3..Len(ts)
  /\ ts[1].t = "open" /\ ts[1].at = at /\ ts[2].t = "name"
  /\ \A i \in 3..e - 1 : ts[i].t = "attr"
  /\ ts[e].t \in {"self", "close"}
  /\ \/ Len(ts) = e /\ ~ (ts[2].v \in Verbatims /\ ts[e].t = "close")
     \/ VerbatimTail(ts, e, k)

(* The tokens of a closing tag.                                             *)
CloseTokens(ts, at) ==
  /\ IsSeq(ts) /\ Len(ts) = 3
  /\ ts[1].t = "bclose" /\ ts[1].at = at /\ ts[2].t = "name" /\ ts[3].t = "close"

LEMMA FenceOrders ==
  ASSUME NEW src, IsSource(src), NEW p \in 1..Len(src)
  PROVE  /\ FenceOrder(src, p) \in Nat
         /\ p + 1 + FenceOrder(src, p) <= Len(src) + 1
         /\ FenceOrder(src, p) = 0 => ~ Matches(src, p, Open)
<1> DEFINE tilde == "~"
           brace == "{"
           end == RunEnd(src, p + 1, {tilde})
<1>1. Len(src) \in Nat /\ p + 1 \in 1..Len(src) + 1
  BY DEF IsSource
<1>2. FenceOrder(src, p) = IF src[p] = brace THEN end - (p + 1) ELSE 0
  BY DEF FenceOrder
<1>3. Open = <<brace, tilde>>
  BY DEF Open
<1> HIDE DEF tilde, brace
<1>4. end \in p + 1..Len(src) + 1 /\ (end = Len(src) + 1 \/ src[end] \notin {tilde})
  BY <1>1, RunEnds
<1> HIDE DEF end
<1>5. ASSUME Matches(src, p, Open), FenceOrder(src, p) = 0 PROVE FALSE
  <2>1. Len(Open) = 2 /\ Open[1] = brace /\ Open[2] = tilde
    BY <1>3
  <2>2. p + Len(Open) <= Len(src) + 1 /\ SubSeq(src, p, p + Len(Open) - 1) = Open
    BY <1>5, Matching
  <2>3. p + 2 <= Len(src) + 1 /\ p + Len(Open) - 1 = p + 1
    BY <2>1, <2>2
  <2> DEFINE S == {src[i] : i \in p..p + 1}
  <2>4. \A i \in 1..(p + 1) - p + 1 : SubSeq(src, p, p + 1)[i] = src[p + i - 1]
    <3>1. \A i \in p..p + 1 : src[i] \in S
      OBVIOUS
    <3> HIDE DEF S
    <3> QED BY <3>1, SubSeqProperties
  <2>5. SubSeq(src, p, p + 1)[1] = src[p] /\ SubSeq(src, p, p + 1)[2] = src[p + 1]
    <3>1. 1 \in 1..(p + 1) - p + 1 /\ 2 \in 1..(p + 1) - p + 1 /\ p + 1 - 1 = p /\ p + 2 - 1 = p + 1
      OBVIOUS
    <3> QED BY <3>1, <2>4
  <2>6. src[p] = brace /\ src[p + 1] = tilde
    BY <2>1, <2>2, <2>3, <2>5
  <2>7. end = p + 1
    BY <2>6, <1>1, <1>2, <1>4, <1>5
  <2>8. src[end] = tilde /\ end # Len(src) + 1
    BY <2>3, <2>6, <2>7, <1>1
  <2> QED BY <2>8, <1>4
<1>6. FenceOrder(src, p) \in Nat /\ p + 1 + FenceOrder(src, p) <= Len(src) + 1
  BY <1>1, <1>2, <1>4
<1> QED BY <1>5, <1>6

LEMMA FenceEnds ==
  ASSUME NEW src, IsSource(src), NEW p \in 1..Len(src)
  PROVE  LET s == ScanFence(src, p)
         IN  /\ EndsIn(s.to, p + 1, src)
             /\ s.to = 0 => s.tokens = <<>>
             /\ s.to # 0 => \E v : s.tokens = <<Token("text", v, p, s.to)>>
<1> DEFINE shut == <<"}">>
<1>1. PICK k \in Nat : k = FenceOrder(src, p)
  BY FenceOrders
<1> DEFINE body == p + 1 + k
           ends == {q \in body..Len(src) : /\ src[q] = "~" /\ src[q - 1] # "~"
                                           /\ RunEnd(src, q, {"~"}) = q + k
                                           /\ Matches(src, q + k, shut)}
           q == Least(ends)
<1>2. ScanFence(src, p) =
        IF ends = {} THEN LexError
        ELSE Scanned(q + k + 1, <<Token("text", SubSeq(src, body, q - 1), p, q + k + 1)>>)
  BY <1>1 DEF ScanFence
<1>3. Len(src) \in Nat /\ Len(shut) = 1
  BY DEF IsSource
<1> HIDE DEF shut
<1>4. ends \subseteq body..Len(src)
  <2> HIDE DEF body
  <2> QED OBVIOUS
<1>5. CASE ends = {}
  <2>1. ScanFence(src, p) = LexError
    BY <1>2, <1>5
  <2>2. LexError.to = 0 /\ LexError.tokens = <<>>
    BY DEF LexError, Scanned
  <2> QED BY <2>1, <2>2 DEF EndsIn
<1>6. CASE ends # {}
  <2>1. q \in ends
    <3>1. body \in Nat
      BY <1>3
    <3> HIDE DEF ends, body
    <3>2. ends \subseteq Nat
      BY <3>1, <1>3, <1>4
    <3> QED BY <3>2, <1>6, LeastNumber
  <2>2. Matches(src, q + k, shut)
    <3> HIDE DEF body, q
    <3> QED BY <2>1
  <2>3. q \in body..Len(src)
    <3> HIDE DEF ends
    <3> QED BY <2>1, <1>4
  <2> HIDE DEF ends, q
  <2>4. q \in Nat /\ p + 1 + k <= q /\ (q + k) + 1 <= Len(src) + 1
    <3>1. (q + k) + Len(shut) <= Len(src) + 1
      BY <2>2, Matching
    <3> QED BY <1>3, <2>3, <3>1
  <2>5. q + k + 1 \in p + 1..Len(src) + 1 /\ q + k + 1 # 0
    BY <1>3, <2>4
  <2>6. ScanFence(src, p) = Scanned(q + k + 1, <<Token("text", SubSeq(src, body, q - 1), p, q + k + 1)>>)
    BY <1>2, <1>6
  <2> QED BY <2>5, <2>6 DEF Scanned, EndsIn
<1> QED BY <1>5, <1>6

LEMMA TextEnds ==
  ASSUME NEW src, IsSource(src), NEW p \in 1..Len(src), NEW idx,
         ~ Inert(idx, p), ~ Matches(src, p, EscapedOpen), ~ Matches(src, p, Open)
  PROVE  LET s == ScanText(src, idx, p)
         IN  /\ s.to \in p + 1..Len(src) + 1
             /\ \E v : s.tokens = <<Token("text", v, p, s.to)>>
<1> DEFINE stops == {q \in p..(Len(src) + 1) :
                       \/ q = Len(src) + 1 \/ Inert(idx, q)
                       \/ Matches(src, q, EscapedOpen) \/ Matches(src, q, Open)}
           q == Least(stops)
<1>1. ScanText(src, idx, p) = Scanned(q, <<Token("text", SubSeq(src, p, q - 1), p, q)>>)
  BY DEF ScanText
<1>2. stops \subseteq Nat /\ Len(src) + 1 \in stops /\ p \notin stops
  BY DEF IsSource
<1>3. q \in stops
  <2> HIDE DEF stops
  <2> QED BY <1>2, LeastNumber
<1>4. q \in p + 1..Len(src) + 1
  <2>1. q \in p..Len(src) + 1 /\ q # p
    BY <1>2, <1>3
  <2> HIDE DEF q
  <2> QED BY <2>1 DEF IsSource
<1> HIDE DEF q
<1> QED BY <1>1, <1>4 DEF Scanned

LEMMA VerbatimEnds ==
  ASSUME NEW src, IsSource(src), NEW p \in 1..Len(src) + 1, NEW name \in Verbatims
  PROVE  LET s == ScanVerbatim(src, p, name)
         IN  /\ EndsIn(s.to, p + 1, src)
             /\ s.to # 0 => \E k \in {0, 1} :
                  /\ IsSeq(s.tokens) /\ Len(s.tokens) = k + 3
                  /\ k = 1 => s.tokens[1].t = "text"
                  /\ s.tokens[k + 1].t = "bclose"
                  /\ s.tokens[k + 2].t = "name" /\ s.tokens[k + 2].v = name
                  /\ s.tokens[k + 3].t = "close"
<1> DEFINE shut == BlockShut \o name \o Shut
           ends == {q \in p..Len(src) : Matches(src, q, shut)}
           q == Least(ends)
           n == q + 3 + Len(name)
           text == Token("text", SubSeq(src, p, q - 1), p, q)
           bclose == Token("bclose", <<>>, q, q + 3)
           nm == Token("name", name, q + 3, n)
           close == Token("close", <<>>, n, n + 2)
           ts == (IF q = p THEN <<>> ELSE <<text>>) \o <<bclose, nm, close>>
<1>1. ScanVerbatim(src, p, name) = IF ends = {} THEN LexError ELSE Scanned(n + 2, ts)
  BY DEF ScanVerbatim
<1>2. Len(name) = 1 /\ Len(shut) = 6 /\ Len(src) \in Nat
  <2>1. IsSeq(name) /\ Len(name) = 1
    BY ShortSeqs DEF Verbatims
  <2> HIDE DEF shut, ends, q, n, text, bclose, nm, close, ts
  <2>2. IsSeq(BlockShut) /\ Len(BlockShut) = 3 /\ IsSeq(Shut) /\ Len(Shut) = 2
    BY ShortSeqs DEF BlockShut, Shut
  <2>3. IsSeq(BlockShut \o name) /\ Len(BlockShut \o name) = Len(BlockShut) + Len(name)
    BY <2>1, <2>2, Joined
  <2>4. Len((BlockShut \o name) \o Shut) = Len(BlockShut \o name) + Len(Shut)
    BY <2>2, <2>3, Joined
  <2>5. shut = (BlockShut \o name) \o Shut
    BY DEF shut
  <2>6. Len(shut) = 6
    BY <2>1, <2>2, <2>3, <2>4, <2>5
  <2> QED BY <2>1, <2>6 DEF IsSource
<1> HIDE DEF shut
<1>3. CASE ends = {}
  <2>1. ScanVerbatim(src, p, name) = LexError
    BY <1>1, <1>3
  <2>2. LexError.to = 0
    BY DEF LexError, Scanned
  <2> QED BY <2>1, <2>2 DEF EndsIn
<1>4. CASE ends # {}
  <2>1. q \in ends
    <3>1. ends \subseteq Nat
      BY <1>2
    <3> HIDE DEF ends
    <3> QED BY <3>1, <1>4, LeastNumber
  <2>2. q \in p..Len(src) /\ Matches(src, q, shut)
    BY <2>1
  <2> HIDE DEF q
  <2>3. n + 2 \in p + 1..Len(src) + 1
    <3>1. q + 6 <= Len(src) + 1
      BY <1>2, <2>2, Matching
    <3>2. n + 2 = q + 6 /\ q \in Nat /\ p <= q
      BY <1>2, <2>2
    <3> HIDE DEF n
    <3> QED BY <1>2, <3>1, <3>2
  <2>4. /\ text.t = "text" /\ bclose.t = "bclose" /\ nm.t = "name" /\ nm.v = name /\ close.t = "close"
    BY DEF Token
  <2>5. ScanVerbatim(src, p, name) = Scanned(n + 2, ts)
    BY <1>1, <1>4
  <2> HIDE DEF text, bclose, nm, close, n, ends
  <2>6. \E k \in {0, 1} :
          /\ IsSeq(ts) /\ Len(ts) = k + 3
          /\ k = 1 => ts[1].t = "text"
          /\ ts[k + 1].t = "bclose"
          /\ ts[k + 2].t = "name" /\ ts[k + 2].v = name
          /\ ts[k + 3].t = "close"
    <3> DEFINE shutting == <<bclose, nm, close>>
    <3>2. /\ IsSeq(shutting) /\ Len(shutting) = 3
          /\ shutting[1] = bclose /\ shutting[2] = nm /\ shutting[3] = close
      BY ShortSeqs
    <3>3. CASE q = p
      <4>1. ts = <<>> \o shutting
        BY <3>3
      <4>2. /\ IsSeq(ts) /\ Len(ts) = 3
            /\ ts[1] = bclose /\ ts[2] = nm /\ ts[3] = close
        <5> HIDE DEF shutting, ts
        <5>1. /\ IsSeq(ts) /\ Len(ts) = 0 + 3 /\ \A i \in 1..3 : ts[0 + i] = shutting[i]
          BY <4>1, <3>2, ShortSeqs, Joined
        <5> QED BY <5>1, <3>2
      <4> HIDE DEF ts
      <4> QED BY <4>2, <2>4
    <3>4. CASE q # p
      <4>1. ts = <<text>> \o shutting
        BY <3>4
      <4>2. /\ IsSeq(ts) /\ Len(ts) = 4
            /\ ts[1] = text /\ ts[2] = bclose /\ ts[3] = nm /\ ts[4] = close
        <5> DEFINE one == <<text>>
        <5>1. IsSeq(one) /\ Len(one) = 1 /\ one[1] = text
          BY ShortSeqs
        <5>2. ts = one \o shutting
          BY <4>1
        <5> HIDE DEF shutting, ts, one
        <5>3. /\ IsSeq(ts) /\ Len(ts) = Len(one) + Len(shutting)
              /\ \A i \in 1..Len(one) : ts[i] = one[i]
              /\ \A i \in 1..Len(shutting) : ts[Len(one) + i] = shutting[i]
          <6>1. IsSeq(one) /\ IsSeq(shutting)
            BY <3>2, <5>1
          <6> QED BY <5>2, <6>1, Joined
        <5>4. /\ IsSeq(ts) /\ Len(ts) = 1 + 3 /\ ts[1] = text /\ \A i \in 1..3 : ts[1 + i] = shutting[i]
          BY <5>3, <3>2, <5>1
        <5> QED BY <5>4, <3>2
      <4> HIDE DEF ts
      <4> QED BY <4>2, <2>4
    <3> QED BY <3>3, <3>4
  <2> HIDE DEF ts
  <2> QED BY <2>3, <2>5, <2>6 DEF Scanned, EndsIn
<1> QED BY <1>3, <1>4

(* What begins with a delimiter: the tokens of a tag, with its verbatim      *)
(* block, and those of a block close.                                       *)
LEMMA OpenTagEnds ==
  ASSUME NEW src, IsSource(src), NEW p \in 1..Len(src), FenceOrder(src, p) = 1
  PROVE  LET s == ScanOpenTag(src, p)
         IN  /\ EndsIn(s.to, p + 1, src)
             /\ s.to = 0 => s.tokens = <<>>
             /\ s.to # 0 => \E e, k : OpenTokens(s.tokens, p, e, k)
<1> DEFINE tag == ScanTag(src, p + 2, FALSE)
           verbatim == ScanVerbatim(src, tag.to, tag.tokens[1].v)
           x == Token("open", <<>>, p, p + 2)
           head == <<x>> \o tag.tokens
           n == Len(tag.tokens)
<1>1. ScanOpenTag(src, p) =
        IF tag.to = 0 THEN LexError
        ELSE IF ~ IsVerbatim(tag.tokens) THEN Scanned(tag.to, head)
        ELSE IF verbatim.to = 0 THEN LexError
        ELSE Scanned(verbatim.to, head \o verbatim.tokens)
  BY DEF ScanOpenTag
<1>2. Len(src) \in Nat /\ p + 2 \in 1..Len(src) + 1
  <2>1. Len(src) \in Nat
    BY DEF IsSource
  <2> QED BY <2>1, FenceOrders
<1>3. EndsIn(tag.to, p + 3, src) /\ (tag.to # 0 => TagTokens(tag.tokens, FALSE))
  <2>1. (p + 2) + 1 = p + 3
    OBVIOUS
  <2> QED BY <1>2, <2>1, TagEnds
<1>4. LexError.to = 0 /\ LexError.tokens = <<>>
  BY DEF LexError, Scanned
<1>5. x.t = "open" /\ x.at = p
  BY DEF Token
<1> HIDE DEF tag, x
<1>6. ASSUME tag.to # 0
      PROVE  /\ IsSeq(head) /\ Len(head) = 1 + n /\ n \in Nat /\ n >= 2
             /\ head[1].t = "open" /\ head[1].at = p
             /\ head[2].t = "name" /\ head[2].v = tag.tokens[1].v
             /\ \A i \in 3..n : head[i].t = "attr"
             /\ head[1 + n].t \in {"self", "close"}
             /\ head[1 + n] = Last(tag.tokens)
  <2>1. TagTokens(tag.tokens, FALSE)
    BY <1>3, <1>6
  <2>2. IsSeq(<<x>>) /\ Len(<<x>>) = 1 /\ <<x>>[1] = x
    BY ShortSeqs
  <2> HIDE DEF n
  <2>3. IsSeq(tag.tokens)
    BY <2>1 DEF TagTokens
  <2>4. /\ IsSeq(head) /\ n \in Nat /\ Len(head) = 1 + n
        /\ head[1] = x
        /\ \A i \in 1..n : head[1 + i] = tag.tokens[i]
    <3> DEFINE us == tag.tokens
               one == <<x>>
    <3>1. IsSeq(one) /\ Len(one) = 1 /\ one[1] = x /\ IsSeq(us) /\ head = one \o us /\ n = Len(us)
      BY <2>2, <2>3 DEF n
    <3> HIDE DEF us, one, head
    <3>2. /\ IsSeq(head) /\ Len(us) \in Nat /\ Len(head) = Len(one) + Len(us)
          /\ \A i \in 1..Len(one) : head[i] = one[i]
          /\ \A i \in 1..Len(us) : head[Len(one) + i] = us[i]
      <4>1. IsJoin(head, one, us)
        BY <3>1, JoinedAs
      <4> QED BY <4>1 DEF IsJoin
    <3>3. /\ IsSeq(head) /\ n \in Nat /\ Len(head) = 1 + n /\ head[1] = x
          /\ \A i \in 1..n : head[1 + i] = us[i]
      BY <3>1, <3>2
    <3> QED BY <3>3 DEF us
  <2> HIDE DEF head
  <2>5. n >= 2 /\ tag.tokens[1].t = "name" /\ tag.tokens[n].t \in {"self", "close"}
    BY <2>1 DEF TagTokens, n
  <2>6. head[2] = tag.tokens[1] /\ head[1 + n] = tag.tokens[n]
    BY <2>4, <2>5
  <2>7. ASSUME NEW i \in 3..n PROVE head[i].t = "attr"
    <3>1. i - 1 \in 2..n - 1 /\ i - 1 \in 1..n /\ i = 1 + (i - 1)
      BY <2>4
    <3>2. tag.tokens[i - 1].t = "attr"
      BY <2>1, <3>1 DEF TagTokens, n
    <3> QED BY <2>4, <3>1, <3>2
  <2>8. Last(tag.tokens) = tag.tokens[n]
    BY DEF Last, n
  <2> QED BY <1>5, <2>4, <2>5, <2>6, <2>7, <2>8
<1> HIDE DEF head, n
<1>7. tag.to # 0 => tag.to \in 1..Len(src) + 1 /\ tag.to \in p + 1..Len(src) + 1
  BY <1>2, <1>3 DEF EndsIn
<1>8. CASE ScanOpenTag(src, p) = LexError
  BY <1>4, <1>8 DEF EndsIn
<1>9. CASE tag.to # 0 /\ ~ IsVerbatim(tag.tokens) /\ ScanOpenTag(src, p) = Scanned(tag.to, head)
  <2>1. ~ (head[2].v \in Verbatims /\ head[1 + n].t = "close")
    BY <1>6, <1>9 DEF IsVerbatim, Verbatims
  <2>2. 1 + n \in 3..Len(head) /\ (1 + n) - 1 = n
    BY <1>6, <1>9
  <2>3. OpenTokens(head, p, 1 + n, 0)
    BY <1>6, <1>9, <2>1, <2>2 DEF OpenTokens
  <2> QED BY <1>7, <1>9, <2>3 DEF Scanned, EndsIn
<1>10. CASE /\ tag.to # 0 /\ IsVerbatim(tag.tokens) /\ verbatim.to # 0
            /\ ScanOpenTag(src, p) = Scanned(verbatim.to, head \o verbatim.tokens)
  <2> DEFINE ts == head \o verbatim.tokens
  <2>1. tag.tokens[1].v \in Verbatims /\ head[2].v \in Verbatims /\ head[1 + n].t = "close"
    BY <1>6, <1>10 DEF IsVerbatim, Verbatims
  <2>2. verbatim.to \in p + 1..Len(src) + 1 /\ verbatim.to # 0
    <3>1. EndsIn(verbatim.to, tag.to + 1, src)
      BY <1>7, <1>10, <2>1, VerbatimEnds
    <3> HIDE DEF verbatim
    <3>2. verbatim.to \in tag.to + 1..Len(src) + 1
      BY <1>10, <3>1 DEF EndsIn
    <3> QED BY <1>2, <1>7, <1>10, <3>2
  <2>3. PICK k \in {0, 1} :
          /\ IsSeq(verbatim.tokens) /\ Len(verbatim.tokens) = k + 3
          /\ k = 1 => verbatim.tokens[1].t = "text"
          /\ verbatim.tokens[k + 1].t = "bclose"
          /\ verbatim.tokens[k + 2].t = "name" /\ verbatim.tokens[k + 2].v = head[2].v
          /\ verbatim.tokens[k + 3].t = "close"
    <3> DEFINE name == tag.tokens[1].v
    <3>1. name \in Verbatims /\ head[2].v = name /\ verbatim = ScanVerbatim(src, tag.to, name)
      BY <1>6, <1>10, <2>1
    <3>2. verbatim.to # 0 /\ tag.to \in 1..Len(src) + 1
      BY <1>7, <1>10
    <3> HIDE DEF name, verbatim
    <3> QED BY <3>1, <3>2, VerbatimEnds
  <2> HIDE DEF verbatim
  <2>4. /\ IsSeq(ts) /\ Len(ts) = Len(head) + Len(verbatim.tokens)
        /\ \A i \in 1..Len(head) : ts[i] = head[i]
        /\ \A i \in 1..Len(verbatim.tokens) : ts[Len(head) + i] = verbatim.tokens[i]
    <3> DEFINE us == verbatim.tokens
    <3>1. IsSeq(head) /\ IsSeq(us) /\ ts = head \o us
      BY <1>6, <1>10, <2>3
    <3> HIDE DEF us, ts
    <3>2. /\ IsSeq(ts) /\ Len(ts) = Len(head) + Len(us)
          /\ \A i \in 1..Len(head) : ts[i] = head[i]
          /\ \A i \in 1..Len(us) : ts[Len(head) + i] = us[i]
      <4>1. IsJoin(ts, head, us)
        BY <3>1, JoinedAs
      <4> QED BY <4>1 DEF IsJoin
    <3> QED BY <3>2 DEF us
  <2> HIDE DEF ts
  <2>5. /\ IsSeq(ts) /\ Len(ts) = (1 + n) + k + 3 /\ n \in Nat /\ n >= 2 /\ k \in {0, 1}
        /\ \A i \in 1..1 + n : ts[i] = head[i]
        /\ \A i \in 1..k + 3 : ts[(1 + n) + i] = verbatim.tokens[i]
    <3>1. Len(head) = 1 + n /\ n \in Nat /\ n >= 2 /\ Len(verbatim.tokens) = k + 3
      BY <1>6, <1>10, <2>3
    <3> QED BY <2>4, <3>1
  <2>6. /\ ts[1] = head[1] /\ ts[2] = head[2] /\ ts[1 + n] = head[1 + n]
        /\ \A i \in 3..(1 + n) - 1 : i \in 3..n /\ ts[i] = head[i]
        /\ 1 + n \in 3..Len(ts)
    BY <2>5
  <2>7. /\ k = 1 => ts[(1 + n) + 1] = verbatim.tokens[1]
        /\ ts[(1 + n) + k + 1] = verbatim.tokens[k + 1]
        /\ ts[(1 + n) + k + 2] = verbatim.tokens[k + 2]
        /\ ts[(1 + n) + k + 3] = verbatim.tokens[k + 3]
    BY <2>5
  <2>8. VerbatimTail(ts, 1 + n, k)
    BY <2>1, <2>3, <2>5, <2>6, <2>7 DEF VerbatimTail
  <2>9. OpenTokens(ts, p, 1 + n, k)
    BY <1>6, <1>10, <2>5, <2>6, <2>8 DEF OpenTokens
  <2> QED BY <1>10, <2>2, <2>9 DEF Scanned, EndsIn, ts
<1> QED BY <1>1, <1>8, <1>9, <1>10

LEMMA BlockCloseEnds ==
  ASSUME NEW src, IsSource(src), NEW p \in 1..Len(src), Matches(src, p, BlockShut)
  PROVE  LET s == ScanBlockClose(src, p)
         IN  /\ EndsIn(s.to, p + 1, src)
             /\ s.to = 0 => s.tokens = <<>>
             /\ s.to # 0 => CloseTokens(s.tokens, p)
<1> DEFINE tag == ScanTag(src, p + 3, TRUE)
           x == Token("bclose", <<>>, p, p + 3)
           ts == <<x>> \o tag.tokens
<1>1. ScanBlockClose(src, p) = IF tag.to = 0 THEN LexError ELSE Scanned(tag.to, ts)
  BY DEF ScanBlockClose
<1>2. Len(src) \in Nat /\ p + 3 \in 1..Len(src) + 1
  <2>1. Len(src) \in Nat
    BY DEF IsSource
  <2>2. Len(BlockShut) = 3
    BY DEF BlockShut
  <2>3. p + Len(BlockShut) <= Len(src) + 1
    BY Matching
  <2> QED BY <2>1, <2>2, <2>3
<1>3. EndsIn(tag.to, p + 4, src) /\ (tag.to # 0 => TagTokens(tag.tokens, TRUE))
  <2>1. (p + 3) + 1 = p + 4
    OBVIOUS
  <2> QED BY <1>2, <2>1, TagEnds
<1>4. x.t = "bclose" /\ x.at = p
  BY DEF Token
<1>5. LexError.to = 0 /\ LexError.tokens = <<>>
  BY DEF LexError, Scanned
<1> HIDE DEF tag, x
<1>6. CASE tag.to = 0
  BY <1>1, <1>5, <1>6 DEF EndsIn
<1>7. CASE tag.to # 0
  <2>1. /\ IsSeq(tag.tokens) /\ Len(tag.tokens) = 2
        /\ tag.tokens[1].t = "name" /\ tag.tokens[2].t = "close"
    BY <1>3, <1>7 DEF TagTokens
  <2>2. IsSeq(<<x>>) /\ Len(<<x>>) = 1 /\ <<x>>[1] = x
    BY ShortSeqs
  <2>3. /\ IsSeq(ts) /\ Len(ts) = 1 + 2 /\ ts[1] = x
        /\ \A i \in 1..2 : ts[1 + i] = tag.tokens[i]
    <3> DEFINE us == tag.tokens
               one == <<x>>
    <3>1. /\ IsSeq(one) /\ Len(one) = 1 /\ one[1] = x
          /\ IsSeq(us) /\ Len(us) = 2 /\ ts = one \o us
      BY <2>1, <2>2
    <3> HIDE DEF us, one, ts
    <3>2. /\ IsSeq(ts) /\ Len(ts) = Len(one) + Len(us)
          /\ \A i \in 1..Len(one) : ts[i] = one[i]
          /\ \A i \in 1..Len(us) : ts[Len(one) + i] = us[i]
      <4>1. IsJoin(ts, one, us)
        BY <3>1, JoinedAs
      <4> QED BY <4>1 DEF IsJoin
    <3>3. /\ IsSeq(ts) /\ Len(ts) = 1 + 2 /\ ts[1] = x
          /\ \A i \in 1..2 : ts[1 + i] = us[i]
      BY <3>1, <3>2
    <3> QED BY <3>3 DEF us
  <2> HIDE DEF ts
  <2>4. CloseTokens(ts, p)
    BY <1>4, <2>1, <2>3 DEF CloseTokens
  <2>5. tag.to \in p + 1..Len(src) + 1
    BY <1>2, <1>3, <1>7 DEF EndsIn
  <2> QED BY <1>1, <1>7, <2>4, <2>5 DEF Scanned, EndsIn
<1> QED BY <1>6, <1>7

-----------------------------------------------------------------------------
(* Tokens.  Closing is ClosesVerbatim of any sequence of tokens; a token is  *)
(* inert when it may stand where it stands, and shaped when what the parser  *)
(* looks for behind it is there.                                            *)
Closing(ts, i) ==
  /\ i < Len(ts) /\ ts[i].t = "bclose" /\ ts[i + 1].v \in Verbatims
  /\ \E j \in 1..i - 1 : /\ ts[j].t = "open" /\ ts[j + 1].v = ts[i + 1].v
                         /\ \A k \in j + 1..i - 1 : ts[k].t # "bclose"

InFence(rs, n, at) == ~ rs[n].live /\ rs[n].start <= at /\ at < rs[n].end
Outside(rs, at) == \A n \in 1..Len(rs) : ~ InFence(rs, n, at)

WholeFence(src, rs, x) ==
  /\ x.t = "text"
  /\ \A n \in 1..Len(rs) : InFence(rs, n, x.at) =>
       x.to = rs[n].end /\ x.v = SubSeq(src, x.at, rs[n].end - 1)

InertAt(src, rs, ts, i) ==
  \/ Outside(rs, ts[i].at)
  \/ ts[i].t \notin {"open", "bclose", "text"}
  \/ ts[i].t = "bclose" /\ Closing(ts, i)
  \/ ts[i].t = "text" /\ Closing(ts, i + 1)
  \/ WholeFence(src, rs, ts[i])

(* The tag opened at i ends at e; a verbatim one is closed at b.            *)
TagTo(ts, i, e) ==
  ts[e].t \in {"self", "close"} /\ \A k \in i..e - 1 : ts[k].t \notin {"self", "close"}
VerbatimTo(ts, e, b) ==
  /\ b \in {e + 1, e + 2} /\ b + 2 <= Len(ts) /\ (b = e + 2 => ts[e + 1].t = "text")
  /\ ts[b].t = "bclose" /\ ts[b + 2].t = "close"

Shaped(ts, i) ==
  /\ ts[i].t = "open" =>
       \E e \in i + 2..Len(ts) :
         /\ TagTo(ts, i, e)
         /\ ts[i + 1].v \in Verbatims /\ ts[e].t = "close" => \E b : VerbatimTo(ts, e, b)
  /\ ts[i].t = "bclose" => i + 2 <= Len(ts) /\ ts[i + 2].t = "close"

Standing(src, rs, ts) ==
  IsSeq(ts) /\ \A i \in 1..Len(ts) : InertAt(src, rs, ts, i) /\ Shaped(ts, i)

LEMMA ClosingJoined ==
  ASSUME NEW ts, IsSeq(ts), NEW us, IsSeq(us)
  PROVE  /\ \A i \in 1..Len(ts) + 1 : Closing(ts, i) => Closing(ts \o us, i)
         /\ \A i \in 1..Len(us) + 1 : Closing(us, i) => Closing(ts \o us, Len(ts) + i)
<1> DEFINE n == Len(ts)
           m == Len(us)
           vs == ts \o us
<1>1. /\ n \in Nat /\ m \in Nat /\ Len(vs) = n + m
      /\ \A i \in 1..n : vs[i] = ts[i]
      /\ \A i \in 1..m : vs[n + i] = us[i]
  BY Joined
<1> HIDE DEF vs, n, m
<1>2. ASSUME NEW i \in 1..n + 1, Closing(ts, i) PROVE Closing(vs, i)
  <2>1. i < n /\ ts[i].t = "bclose" /\ ts[i + 1].v \in Verbatims
    BY <1>2 DEF Closing, n
  <2>2. PICK j \in 1..i - 1 : /\ ts[j].t = "open" /\ ts[j + 1].v = ts[i + 1].v
                              /\ \A k \in j + 1..i - 1 : ts[k].t # "bclose"
    BY <1>2 DEF Closing
  <2>3. /\ vs[i] = ts[i] /\ vs[i + 1] = ts[i + 1] /\ vs[j] = ts[j] /\ vs[j + 1] = ts[j + 1]
        /\ \A k \in j + 1..i - 1 : vs[k] = ts[k]
        /\ i < Len(vs)
    BY <1>1, <2>1
  <2>4. /\ vs[j].t = "open" /\ vs[j + 1].v = vs[i + 1].v
        /\ \A k \in j + 1..i - 1 : vs[k].t # "bclose"
    BY <2>2, <2>3
  <2> QED BY <2>1, <2>3, <2>4 DEF Closing
<1>3. ASSUME NEW i \in 1..m + 1, Closing(us, i) PROVE Closing(vs, n + i)
  <2>1. i < m /\ us[i].t = "bclose" /\ us[i + 1].v \in Verbatims
    BY <1>3 DEF Closing, m
  <2>2. PICK j \in 1..i - 1 : /\ us[j].t = "open" /\ us[j + 1].v = us[i + 1].v
                              /\ \A k \in j + 1..i - 1 : us[k].t # "bclose"
    BY <1>3 DEF Closing
  <2>3. /\ vs[n + i] = us[i] /\ vs[(n + i) + 1] = us[i + 1]
        /\ vs[n + j] = us[j] /\ vs[(n + j) + 1] = us[j + 1]
        /\ n + i < Len(vs) /\ n + j \in 1..(n + i) - 1
    <3>1. /\ i \in 1..m /\ i + 1 \in 1..m /\ j \in 1..m /\ j + 1 \in 1..m
          /\ (n + i) + 1 = n + (i + 1) /\ (n + j) + 1 = n + (j + 1)
      BY <1>1, <2>1
    <3>2. n + i < Len(vs) /\ n + j \in 1..(n + i) - 1
      BY <1>1, <2>1
    <3> QED BY <1>1, <3>1, <3>2
  <2>4. ASSUME NEW k \in (n + j) + 1..(n + i) - 1 PROVE vs[k].t # "bclose"
    <3>1. k - n \in j + 1..i - 1 /\ k - n \in 1..m /\ k = n + (k - n)
      BY <1>1, <2>1
    <3> QED BY <1>1, <2>2, <3>1
  <2>5. vs[n + j].t = "open" /\ vs[(n + j) + 1].v = vs[(n + i) + 1].v
    BY <2>2, <2>3
  <2> QED BY <2>1, <2>3, <2>4, <2>5 DEF Closing
<1> QED BY <1>2, <1>3 DEF vs, n, m

LEMMA ShapedJoined ==
  ASSUME NEW ts, IsSeq(ts), NEW us, IsSeq(us)
  PROVE  /\ \A i \in 1..Len(ts) : Shaped(ts, i) => Shaped(ts \o us, i)
         /\ \A i \in 1..Len(us) : Shaped(us, i) => Shaped(ts \o us, Len(ts) + i)
<1> DEFINE n == Len(ts)
           m == Len(us)
           vs == ts \o us
<1>1. /\ n \in Nat /\ m \in Nat /\ Len(vs) = n + m
      /\ \A i \in 1..n : vs[i] = ts[i]
      /\ \A i \in 1..m : vs[n + i] = us[i]
  BY Joined
<1> HIDE DEF vs, n, m
<1>2. ASSUME NEW i \in 1..n, Shaped(ts, i) PROVE Shaped(vs, i)
  <2>1. vs[i] = ts[i]
    BY <1>1
  <2>2. ASSUME ts[i].t = "open"
        PROVE  \E e \in i + 2..Len(vs) :
                 /\ TagTo(vs, i, e)
                 /\ vs[i + 1].v \in Verbatims /\ vs[e].t = "close" => \E b : VerbatimTo(vs, e, b)
    <3>1. PICK e \in i + 2..n :
            /\ TagTo(ts, i, e)
            /\ ts[i + 1].v \in Verbatims /\ ts[e].t = "close" => \E b : VerbatimTo(ts, e, b)
      BY <1>2, <2>2 DEF Shaped, n
    <3>2. vs[e] = ts[e] /\ vs[i + 1] = ts[i + 1] /\ e \in i + 2..Len(vs)
      BY <1>1
    <3>3. TagTo(vs, i, e)
      <4>1. \A k \in i..e - 1 : vs[k] = ts[k]
        BY <1>1
      <4> QED BY <3>1, <3>2, <4>1 DEF TagTo
    <3>4. ASSUME NEW b, VerbatimTo(ts, e, b) PROVE VerbatimTo(vs, e, b)
      <4>1. b \in {e + 1, e + 2} /\ b + 2 <= n
        BY <3>4 DEF VerbatimTo, n
      <4>2. /\ vs[b] = ts[b] /\ vs[b + 2] = ts[b + 2] /\ vs[e + 1] = ts[e + 1]
            /\ b + 2 <= Len(vs)
        BY <1>1, <4>1
      <4> QED BY <3>4, <4>1, <4>2 DEF VerbatimTo
    <3> QED BY <3>1, <3>2, <3>3, <3>4
  <2>3. ts[i].t = "bclose" => i + 2 <= Len(vs) /\ vs[i + 2].t = "close"
    <3>1. ts[i].t = "bclose" => i + 2 <= n /\ ts[i + 2].t = "close"
      BY <1>2 DEF Shaped, n
    <3> QED BY <1>1, <3>1
  <2> QED BY <2>1, <2>2, <2>3 DEF Shaped
<1>3. ASSUME NEW i \in 1..m, Shaped(us, i) PROVE Shaped(vs, n + i)
  <2>1. vs[n + i] = us[i]
    BY <1>1
  <2>2. ASSUME us[i].t = "open"
        PROVE  \E e \in (n + i) + 2..Len(vs) :
                 /\ TagTo(vs, n + i, e)
                 /\ vs[(n + i) + 1].v \in Verbatims /\ vs[e].t = "close" => \E b : VerbatimTo(vs, e, b)
    <3>1. PICK e \in i + 2..m :
            /\ TagTo(us, i, e)
            /\ us[i + 1].v \in Verbatims /\ us[e].t = "close" => \E b : VerbatimTo(us, e, b)
      BY <1>3, <2>2 DEF Shaped, m
    <3>2. vs[n + e] = us[e] /\ vs[(n + i) + 1] = us[i + 1] /\ n + e \in (n + i) + 2..Len(vs)
      BY <1>1
    <3>3. TagTo(vs, n + i, n + e)
      <4>1. ASSUME NEW k \in n + i..(n + e) - 1 PROVE vs[k].t \notin {"self", "close"}
        <5>1. k - n \in i..e - 1 /\ k - n \in 1..m /\ k = n + (k - n)
          BY <1>1
        <5>2. us[k - n].t \notin {"self", "close"}
          BY <3>1, <5>1 DEF TagTo
        <5> QED BY <1>1, <5>1, <5>2
      <4>2. us[e].t \in {"self", "close"}
        BY <3>1 DEF TagTo
      <4> QED BY <3>2, <4>1, <4>2 DEF TagTo
    <3>4. ASSUME NEW b, VerbatimTo(us, e, b) PROVE VerbatimTo(vs, n + e, n + b)
      <4>1. b \in {e + 1, e + 2} /\ b + 2 <= m
        BY <3>4 DEF VerbatimTo, m
      <4>2. /\ vs[n + b] = us[b] /\ vs[(n + b) + 2] = us[b + 2] /\ vs[(n + e) + 1] = us[e + 1]
            /\ (n + b) + 2 <= Len(vs) /\ n + b \in {(n + e) + 1, (n + e) + 2}
            /\ n + b = (n + e) + 2 => b = e + 2
        <5>1. /\ b \in 1..m /\ b + 2 \in 1..m /\ e + 1 \in 1..m
              /\ (n + b) + 2 = n + (b + 2) /\ (n + e) + 1 = n + (e + 1)
          BY <1>1, <4>1
        <5>2. /\ (n + b) + 2 <= Len(vs) /\ n + b \in {(n + e) + 1, (n + e) + 2}
              /\ n + b = (n + e) + 2 => b = e + 2
          BY <1>1, <4>1
        <5>3. \A j \in 1..m : vs[n + j] = us[j]
          BY <1>1
        <5>4. vs[n + b] = us[b] /\ vs[n + (b + 2)] = us[b + 2] /\ vs[n + (e + 1)] = us[e + 1]
          BY <5>1, <5>3
        <5> QED BY <5>1, <5>2, <5>4
      <4> QED BY <3>4, <4>1, <4>2 DEF VerbatimTo
    <3> QED BY <3>1, <3>2, <3>3, <3>4
  <2>3. us[i].t = "bclose" => (n + i) + 2 <= Len(vs) /\ vs[(n + i) + 2].t = "close"
    <3>1. us[i].t = "bclose" => i + 2 <= m /\ us[i + 2].t = "close"
      BY <1>3 DEF Shaped, m
    <3>2. i + 2 <= m => vs[(n + i) + 2] = us[i + 2] /\ (n + i) + 2 <= Len(vs)
      BY <1>1
    <3> QED BY <3>1, <3>2
  <2> QED BY <2>1, <2>2, <2>3 DEF Shaped
<1> QED BY <1>2, <1>3 DEF vs, n, m

LEMMA StandingJoined ==
  ASSUME NEW src, NEW rs, NEW ts, Standing(src, rs, ts), NEW us, Standing(src, rs, us)
  PROVE  Standing(src, rs, ts \o us)
<1> DEFINE n == Len(ts)
           m == Len(us)
           vs == ts \o us
<1>1. IsSeq(ts) /\ IsSeq(us)
  BY DEF Standing
<1>2. /\ IsSeq(vs) /\ n \in Nat /\ m \in Nat /\ Len(vs) = n + m
      /\ \A i \in 1..n : vs[i] = ts[i]
      /\ \A i \in 1..m : vs[n + i] = us[i]
  BY <1>1, Joined
<1>3. /\ \A i \in 1..n + 1 : Closing(ts, i) => Closing(vs, i)
      /\ \A i \in 1..m + 1 : Closing(us, i) => Closing(vs, n + i)
  BY <1>1, ClosingJoined
<1>4. /\ \A i \in 1..n : Shaped(ts, i) => Shaped(vs, i)
      /\ \A i \in 1..m : Shaped(us, i) => Shaped(vs, n + i)
  BY <1>1, ShapedJoined
<1>5. /\ \A i \in 1..n : InertAt(src, rs, ts, i) /\ Shaped(ts, i)
      /\ \A i \in 1..m : InertAt(src, rs, us, i) /\ Shaped(us, i)
  BY DEF Standing
<1> HIDE DEF n, m, vs
<1>6. ASSUME NEW i \in 1..n PROVE InertAt(src, rs, vs, i) /\ Shaped(vs, i)
  <2>1. vs[i] = ts[i] /\ i \in 1..n + 1 /\ i + 1 \in 1..n + 1
    BY <1>2
  <2> QED BY <1>3, <1>4, <1>5, <2>1 DEF InertAt
<1>7. ASSUME NEW i \in 1..m PROVE InertAt(src, rs, vs, n + i) /\ Shaped(vs, n + i)
  <2>1. vs[n + i] = us[i] /\ i \in 1..m + 1 /\ i + 1 \in 1..m + 1 /\ (n + i) + 1 = n + (i + 1)
    BY <1>2
  <2> QED BY <1>3, <1>4, <1>5, <2>1 DEF InertAt
<1>8. ASSUME NEW i \in 1..Len(vs) PROVE InertAt(src, rs, vs, i) /\ Shaped(vs, i)
  <2>1. CASE i \in 1..n
    BY <1>6, <2>1
  <2>2. CASE i \notin 1..n
    <3>1. i - n \in 1..m /\ i = n + (i - n)
      BY <1>2, <2>2
    <3> QED BY <1>7, <3>1
  <2> QED BY <2>1, <2>2
<1> QED BY <1>2, <1>8 DEF Standing, vs

LEMMA OneStands ==
  ASSUME NEW src, NEW rs, NEW x, x.t \in {"text", "eof"},
         x.t = "text" => Outside(rs, x.at) \/ WholeFence(src, rs, x)
  PROVE  Standing(src, rs, <<x>>)
<1> DEFINE ts == <<x>>
<1>1. IsSeq(ts) /\ Len(ts) = 1 /\ ts[1] = x
  BY ShortSeqs
<1> HIDE DEF ts
<1>2. InertAt(src, rs, ts, 1) /\ Shaped(ts, 1)
  BY <1>1 DEF InertAt, Shaped
<1>3. \A i \in 1..Len(ts) : i = 1
  BY <1>1
<1> QED BY <1>1, <1>2, <1>3 DEF Standing, ts

LEMMA CloseStands ==
  ASSUME NEW src, NEW rs, NEW ts, NEW at, CloseTokens(ts, at), Outside(rs, at)
  PROVE  Standing(src, rs, ts)
<1>1. /\ IsSeq(ts) /\ Len(ts) = 3 /\ ts[1].t = "bclose" /\ ts[1].at = at
      /\ ts[2].t = "name" /\ ts[3].t = "close"
  BY DEF CloseTokens
<1>2. InertAt(src, rs, ts, 1) /\ InertAt(src, rs, ts, 2) /\ InertAt(src, rs, ts, 3)
  BY <1>1 DEF InertAt
<1>3. Shaped(ts, 1) /\ Shaped(ts, 2) /\ Shaped(ts, 3)
  BY <1>1 DEF Shaped
<1>4. \A i \in 1..Len(ts) : i = 1 \/ i = 2 \/ i = 3
  BY <1>1
<1> QED BY <1>1, <1>2, <1>3, <1>4 DEF Standing

LEMMA OpenStands ==
  ASSUME NEW src, NEW rs, NEW ts, NEW at, NEW e, NEW k, OpenTokens(ts, at, e, k), Outside(rs, at)
  PROVE  Standing(src, rs, ts)
<1>1. /\ IsSeq(ts) /\ e \in 3..Len(ts)
      /\ ts[1].t = "open" /\ ts[1].at = at /\ ts[2].t = "name"
      /\ \A i \in 3..e - 1 : ts[i].t = "attr"
      /\ ts[e].t \in {"self", "close"}
  BY DEF OpenTokens
<1>2. Len(ts) \in Nat /\ e \in Nat /\ e >= 3 /\ e <= Len(ts)
  <2>1. Len(ts) \in Nat
    BY <1>1, SeqIs
  <2> QED BY <2>1, <1>1
<1>3. \A i \in 1..e : i = 1 \/ i = 2 \/ i \in 3..e - 1 \/ i = e
  BY <1>2
<1>4. InertAt(src, rs, ts, 1)
  BY <1>1 DEF InertAt
<1>5. \A i \in 2..e : ts[i].t \notin {"open", "bclose", "text"}
  BY <1>1, <1>2, <1>3
<1>6. TagTo(ts, 1, e) /\ e \in 1 + 2..Len(ts)
  BY <1>1, <1>2, <1>3 DEF TagTo
<1>7. \A i \in 2..e : InertAt(src, rs, ts, i) /\ Shaped(ts, i)
  BY <1>5 DEF InertAt, Shaped
<1>8. CASE Len(ts) = e /\ ~ (ts[2].v \in Verbatims /\ ts[e].t = "close")
  <2>1. Shaped(ts, 1)
    BY <1>1, <1>6, <1>8 DEF Shaped
  <2>2. \A i \in 1..Len(ts) : i = 1 \/ i \in 2..e
    BY <1>2, <1>8
  <2> QED BY <1>1, <1>4, <1>7, <2>1, <2>2 DEF Standing
<1>9. CASE VerbatimTail(ts, e, k)
  <2> DEFINE b == e + k + 1
  <2>1. /\ k \in {0, 1} /\ Len(ts) = e + k + 3
        /\ ts[2].v \in Verbatims /\ ts[e].t = "close"
        /\ k = 1 => ts[e + 1].t = "text"
        /\ ts[b].t = "bclose"
        /\ ts[b + 1].t = "name" /\ ts[b + 1].v = ts[2].v
        /\ ts[b + 2].t = "close"
    <3>1. k \in {0, 1}
      BY <1>9 DEF VerbatimTail
    <3>2. e + k + 2 = b + 1 /\ e + k + 3 = b + 2
      BY <3>1, <1>2
    <3> QED BY <1>9, <3>2 DEF VerbatimTail
  <2>2. /\ b \in {e + 1, e + 2} /\ b + 2 <= Len(ts) /\ (b = e + 2 => k = 1) /\ b < Len(ts)
        /\ 1 \in 1..b - 1 /\ 1 + 1 = 2
    BY <1>2, <2>1
  <2>3. \A i \in 1..Len(ts) : \/ i = 1 \/ i \in 2..e
                              \/ k = 1 /\ i = e + 1 /\ i + 1 = b
                              \/ i = b \/ i = b + 1 \/ i = b + 2
    BY <1>2, <2>1
  <2>4. \A i \in 1 + 1..b - 1 : i \in 2..e \/ (k = 1 /\ i = e + 1)
    BY <1>2, <2>1
  <2> HIDE DEF b
  <2>5. VerbatimTo(ts, e, b)
    BY <2>1, <2>2 DEF VerbatimTo
  <2>6. Shaped(ts, 1)
    BY <1>1, <1>6, <2>5 DEF Shaped
  <2>7. Closing(ts, b)
    <3>1. \A i \in 1 + 1..b - 1 : ts[i].t # "bclose"
      BY <1>5, <2>1, <2>4
    <3>2. ts[1].t = "open" /\ ts[1 + 1].v = ts[b + 1].v /\ ts[b + 1].v \in Verbatims
      BY <1>1, <2>1, <2>2
    <3> QED BY <2>1, <2>2, <3>1, <3>2 DEF Closing
  <2>8. InertAt(src, rs, ts, b) /\ Shaped(ts, b)
    BY <2>1, <2>2, <2>7 DEF InertAt, Shaped
  <2>9. /\ InertAt(src, rs, ts, b + 1) /\ Shaped(ts, b + 1)
        /\ InertAt(src, rs, ts, b + 2) /\ Shaped(ts, b + 2)
    BY <2>1 DEF InertAt, Shaped
  <2>10. ASSUME k = 1, NEW i, i = e + 1, i + 1 = b
         PROVE  InertAt(src, rs, ts, i) /\ Shaped(ts, i)
    BY <2>1, <2>7, <2>10 DEF InertAt, Shaped
  <2> QED BY <1>1, <1>4, <1>7, <2>3, <2>6, <2>8, <2>9, <2>10 DEF Standing
<1> QED BY <1>8, <1>9 DEF OpenTokens

-----------------------------------------------------------------------------
(* The lexer.  The cursor has passed no region that is not behind pos, so    *)
(* the region it stops at is the only one that can contain pos.             *)
LexInv ==
  /\ IsSource(source)
  /\ InOrder(source, 1, regions)
  /\ pos \in 1..Len(source) + 1
  /\ inertIdx \in 1..Len(regions) + 1
  /\ \A n \in 1..inertIdx - 1 : regions[n].end <= pos
  /\ Standing(source, regions, tokens)
  /\ lexed \in {"running", "done", "error"}
  /\ lexed = "done" => Len(tokens) \in Nat /\ Len(tokens) >= 1 /\ tokens[Len(tokens)].t = "eof"

LEMMA CursorIs ==
  ASSUME LexInv
  PROVE  LET c == Cursor(inertIdx, pos)
         IN  /\ c \in inertIdx..Len(regions) + 1
             /\ c = Len(regions) + 1 \/ regions[c].end > pos
             /\ \A n \in 1..c - 1 : regions[n].end <= pos
<1> DEFINE L == Len(regions)
           C == {i \in inertIdx..L + 1 : i = L + 1 \/ regions[i].end > pos}
           c == Least(C)
<1>1. /\ L \in Nat /\ pos \in Nat
      /\ \A n \in 1..L : regions[n].start \in Nat /\ regions[n].end \in Nat
  <2>1. L \in Nat /\ \A n \in 1..L : regions[n].start \in Nat /\ regions[n].end \in 1..Len(source) + 1
    BY RegionBounds DEF LexInv
  <2>2. Len(source) \in Nat /\ pos \in 1..Len(source) + 1
    BY DEF LexInv, IsSource
  <2> HIDE DEF L
  <2> QED BY <2>1, <2>2
<1>2. inertIdx \in 1..L + 1 /\ \A n \in 1..inertIdx - 1 : regions[n].end <= pos
  BY DEF LexInv
<1>3. Cursor(inertIdx, pos) = c
  BY DEF Cursor
<1> HIDE DEF L
<1>4. C \subseteq Nat /\ L + 1 \in C
  BY <1>1, <1>2
<1>5. c \in C /\ \A n \in C : c <= n
  <2> HIDE DEF C
  <2> QED BY <1>4, LeastNumber
<1> HIDE DEF c
<1>6. c \in inertIdx..L + 1 /\ (c = L + 1 \/ regions[c].end > pos)
  BY <1>5
<1>7. ASSUME NEW n \in 1..c - 1 PROVE regions[n].end <= pos
  <2>1. CASE n \in 1..inertIdx - 1
    BY <1>2, <2>1
  <2>2. CASE n \notin 1..inertIdx - 1
    <3>1. n \in inertIdx..L + 1 /\ n # L + 1 /\ n \in 1..L /\ ~ (c <= n)
      BY <1>1, <1>2, <1>6, <2>2
    <3>2. ~ (regions[n].end > pos)
      BY <1>5, <3>1
    <3> QED BY <1>1, <3>1, <3>2
  <2> QED BY <2>1, <2>2
<1> QED BY <1>3, <1>6, <1>7 DEF L

LEMMA WhereFences ==
  ASSUME LexInv
  PROVE  LET c == Cursor(inertIdx, pos)
         IN  /\ ~ InInert => Outside(regions, pos)
             /\ InInert => /\ c \in 1..Len(regions) /\ regions[c].end \in pos + 1..Len(source) + 1
                           /\ \A n \in 1..Len(regions) : InFence(regions, n, pos) => n = c
<1> DEFINE L == Len(regions)
           c == Cursor(inertIdx, pos)
<1>1. /\ L \in Nat /\ Len(source) \in Nat /\ pos \in Nat /\ inertIdx \in 1..L + 1
      /\ \A n \in 1..L : regions[n].start \in Nat /\ regions[n].end \in 1..Len(source) + 1
      /\ \A n \in 1..L : regions[n].start < regions[n].end
      /\ \A i, j \in 1..L : i < j => regions[i].end <= regions[j].start
  <2>1. L \in Nat /\ \A n \in 1..L : regions[n].start \in Nat /\ regions[n].end \in 1..Len(source) + 1
    BY RegionBounds DEF LexInv
  <2>2. Len(source) \in Nat /\ pos \in 1..Len(source) + 1 /\ inertIdx \in 1..L + 1
    BY DEF LexInv, IsSource
  <2>3. /\ \A n \in 1..L : regions[n].start < regions[n].end
        /\ \A i, j \in 1..L : i < j => regions[i].end <= regions[j].start
    BY DEF LexInv, InOrder
  <2> HIDE DEF L
  <2> QED BY <2>1, <2>2, <2>3
<1>2. /\ c \in inertIdx..L + 1
      /\ c = L + 1 \/ regions[c].end > pos
      /\ \A n \in 1..c - 1 : regions[n].end <= pos
  BY CursorIs
<1>3. InInert <=> c <= L /\ ~ regions[c].live /\ regions[c].start <= pos
  BY DEF InInert, Inert
<1> HIDE DEF c, L
<1>4. ASSUME NEW n \in 1..L, regions[n].start <= pos, pos < regions[n].end PROVE n = c /\ c <= L
  <2>1. ~ (n \in 1..c - 1)
    <3>1. ~ (regions[n].end <= pos)
      BY <1>1, <1>4
    <3> QED BY <1>2, <3>1
  <2>2. c \in Nat /\ n \in Nat /\ c >= 1 /\ c <= n
    BY <1>1, <1>2, <2>1
  <2>3. CASE c < n
    <3>1. c \in 1..L /\ c # L + 1
      BY <1>1, <2>2, <2>3
    <3>2. regions[c].end <= regions[n].start /\ regions[c].end > pos
      BY <1>1, <1>2, <2>3, <3>1
    <3> QED BY <1>1, <1>4, <3>1, <3>2
  <2> QED BY <1>1, <2>2, <2>3
<1>5. ASSUME NEW n \in 1..L, InFence(regions, n, pos) PROVE n = c /\ InInert
  <2>1. ~ regions[n].live /\ regions[n].start <= pos /\ pos < regions[n].end
    BY <1>5 DEF InFence
  <2>2. n = c /\ c <= L
    BY <1>4, <2>1
  <2> QED BY <1>3, <2>1, <2>2
<1>6. ASSUME InInert PROVE c \in 1..L /\ regions[c].end \in pos + 1..Len(source) + 1
  <2>1. c \in 1..L /\ regions[c].end > pos
    BY <1>1, <1>2, <1>3, <1>6
  <2> QED BY <1>1, <2>1
<1> QED BY <1>5, <1>6 DEF Outside, c, L

(* What a step emits stands where it is, and its end is behind pos.         *)
Fits(s) ==
  /\ s.to # 0 => s.to \in pos + 1..Len(source) + 1 /\ Standing(source, regions, s.tokens)
  /\ s.to = 0 => s.tokens = <<>>

Moves == pos' > pos \/ lexed' # lexed

LEMMA NothingStands ==
  ASSUME NEW src, NEW rs
  PROVE  Standing(src, rs, <<>>)
<1>1. IsSeq(<<>>) /\ Len(<<>>) = 0
  BY ShortSeqs
<1>2. \A i \in 1..Len(<<>>) : FALSE
  BY <1>1
<1> QED BY <1>1, <1>2 DEF Standing

LEMMA Emits ==
  ASSUME LexInv, lexed = "running", NEW s, Fits(s), Emit(s)
  PROVE  LexInv' /\ Moves
<1>1. /\ IsSource(source) /\ InOrder(source, 1, regions) /\ Standing(source, regions, tokens)
      /\ Len(source) \in Nat /\ pos \in 1..Len(source) + 1
  BY DEF LexInv, IsSource
<1>2. Len(regions) \in Nat /\ \A n \in 1..Len(regions) : regions[n].end \in Nat
  <2>1. /\ Len(regions) \in Nat
        /\ \A n \in 1..Len(regions) : regions[n].end \in 1..Len(source) + 1
    BY <1>1, RegionBounds
  <2> QED BY <1>1, <2>1
<1>3. source' = source /\ regions' = regions /\ inertIdx' = Cursor(inertIdx, pos)
  BY DEF Emit
<1>4. /\ s.to = 0 => pos' = pos /\ lexed' = "error"
      /\ s.to # 0 => pos' = s.to /\ lexed' = "running"
      /\ tokens' = tokens \o s.tokens
  BY DEF Emit
<1>5. Standing(source, regions, s.tokens)
  BY NothingStands DEF Fits
<1>6. Standing(source, regions, tokens \o s.tokens)
  BY <1>1, <1>5, StandingJoined
<1>7. pos' \in 1..Len(source) + 1 /\ pos <= pos' /\ (s.to # 0 => pos' > pos)
  <2>1. s.to # 0 => s.to \in pos + 1..Len(source) + 1
    BY DEF Fits
  <2> QED BY <1>1, <1>4, <2>1
<1>8. /\ Cursor(inertIdx, pos) \in 1..Len(regions) + 1
      /\ \A n \in 1..Cursor(inertIdx, pos) - 1 : regions[n].end <= pos
  <2>1. /\ Cursor(inertIdx, pos) \in inertIdx..Len(regions) + 1
        /\ \A n \in 1..Cursor(inertIdx, pos) - 1 : regions[n].end <= pos
    BY CursorIs
  <2>2. inertIdx \in 1..Len(regions) + 1
    BY DEF LexInv
  <2> QED BY <1>2, <2>1, <2>2
<1>9. \A n \in 1..inertIdx' - 1 : regions[n].end <= pos'
  <2> SUFFICES ASSUME NEW n \in 1..Cursor(inertIdx, pos) - 1 PROVE regions[n].end <= pos'
    BY <1>3
  <2>1. n \in 1..Len(regions) /\ regions[n].end <= pos
    BY <1>2, <1>8
  <2> QED BY <1>1, <1>2, <1>7, <2>1
<1>10. lexed' \in {"running", "error"} /\ (s.to = 0 => lexed' # lexed)
  BY <1>4
<1>11. LexInv'
  BY <1>1, <1>3, <1>4, <1>6, <1>7, <1>8, <1>9, <1>10 DEF LexInv
<1> QED BY <1>7, <1>10, <1>11 DEF Moves

LEMMA LexFirst == Init => LexInv
<1> SUFFICES ASSUME Init PROVE LexInv
  OBVIOUS
<1>1. /\ source \in Sources /\ markdown \in BOOLEAN /\ pos = 1 /\ inertIdx = 1 /\ tokens = <<>>
      /\ regions = IF markdown THEN ScanMarkdownFences(source) ELSE <<>>
      /\ lexed = "running"
  BY DEF Init, LexInit
<1>2. IsSource(source)
  <2>1. source \in Seq(Range(source))
    BY <1>1, SourcesAssumption
  <2> QED BY <2>1, LenProperties DEF IsSource
<1>3. InOrder(source, 1, regions)
  <2>1. CASE markdown
    BY <1>1, <1>2, <2>1, FencesInOrder
  <2>2. CASE ~ markdown
    <3>1. regions = <<>> /\ Len(regions) = 0
      BY <1>1, <2>2
    <3>2. regions \in Seq(Region(source))
      BY <3>1, EmptySeq
    <3> QED BY <3>1, <3>2 DEF InOrder
  <2> QED BY <1>1, <2>1, <2>2
<1>4. Len(source) \in Nat /\ Len(regions) \in Nat
  BY <1>2, <1>3, RegionBounds DEF IsSource
<1>5. Standing(source, regions, tokens)
  BY <1>1, NothingStands
<1>6. pos \in 1..Len(source) + 1 /\ inertIdx \in 1..Len(regions) + 1 /\ 1..inertIdx - 1 = {}
  BY <1>1, <1>4
<1> QED BY <1>1, <1>2, <1>3, <1>5, <1>6 DEF LexInv

LEMMA LexSteps ==
  ASSUME LexInv, Tokenize
  PROVE  LexInv' /\ Moves
<1>1. /\ IsSource(source) /\ Len(source) \in Nat /\ pos \in 1..Len(source) + 1
      /\ Standing(source, regions, tokens)
  BY DEF LexInv, IsSource
<1>2. Scanning => lexed = "running" /\ pos \in 1..Len(source)
  BY <1>1 DEF Scanning
<1>3. ASSUME InertRegion PROVE LexInv' /\ Moves
  <2> DEFINE c == Cursor(inertIdx, pos)
             end == regions[c].end
             x == Token("text", SubSeq(source, pos, end - 1), pos, end)
             s == Scanned(end, <<x>>)
  <2>1. Scanning /\ InInert /\ Emit(s)
    BY <1>3 DEF InertRegion
  <2>2. /\ end \in pos + 1..Len(source) + 1
        /\ \A n \in 1..Len(regions) : InFence(regions, n, pos) => n = c
    BY <2>1, WhereFences
  <2>3. x.t = "text" /\ x.at = pos /\ x.to = end /\ x.v = SubSeq(source, pos, end - 1)
    BY DEF Token
  <2> HIDE DEF x
  <2>4. WholeFence(source, regions, x)
    BY <2>2, <2>3 DEF WholeFence
  <2>5. Standing(source, regions, <<x>>)
    BY <2>3, <2>4, OneStands
  <2>6. s.to = end /\ s.tokens = <<x>> /\ end # 0
    BY <1>1, <2>2 DEF Scanned
  <2> HIDE DEF s, end, c
  <2>7. Fits(s)
    BY <2>2, <2>5, <2>6 DEF Fits
  <2> QED BY <1>2, <2>1, <2>7, Emits
<1>4. ASSUME Escape PROVE LexInv' /\ Moves
  <2> DEFINE x == Token("text", Open, pos, pos + 3)
             s == Scanned(pos + 3, <<x>>)
  <2>1. Scanning /\ ~ InInert /\ Matches(source, pos, EscapedOpen) /\ Emit(s)
    BY <1>4 DEF Escape
  <2>2. pos + 3 <= Len(source) + 1
    <3>1. Len(EscapedOpen) = 3
      BY ShortSeqs DEF EscapedOpen
    <3>2. pos + Len(EscapedOpen) <= Len(source) + 1
      BY <2>1, Matching
    <3> QED BY <3>1, <3>2
  <2>3. x.t = "text" /\ x.at = pos
    BY DEF Token
  <2> HIDE DEF x
  <2>4. Standing(source, regions, <<x>>)
    BY <2>1, <2>3, WhereFences, OneStands
  <2>5. s.to = pos + 3 /\ s.tokens = <<x>>
    BY DEF Scanned
  <2> HIDE DEF s
  <2>6. s.to # 0 /\ s.to \in pos + 1..Len(source) + 1
    BY <1>1, <2>2, <2>5
  <2>7. Fits(s)
    BY <2>4, <2>5, <2>6 DEF Fits
  <2> QED BY <1>2, <2>1, <2>7, Emits
<1>5. ASSUME VerbatimFence PROVE LexInv' /\ Moves
  <2> DEFINE s == ScanFence(source, pos)
  <2>1. Scanning /\ ~ InInert /\ Emit(s)
    BY <1>5 DEF VerbatimFence
  <2>2. Outside(regions, pos)
    BY <2>1, WhereFences
  <2>3. /\ EndsIn(s.to, pos + 1, source)
        /\ s.to = 0 => s.tokens = <<>>
        /\ s.to # 0 => \E v : s.tokens = <<Token("text", v, pos, s.to)>>
    BY <1>1, <1>2, <2>1, FenceEnds
  <2> HIDE DEF s
  <2>4. ASSUME s.to # 0 PROVE Standing(source, regions, s.tokens)
    <3>1. PICK v : s.tokens = <<Token("text", v, pos, s.to)>>
      BY <2>3, <2>4
    <3> DEFINE x == Token("text", v, pos, s.to)
    <3>2. x.t = "text" /\ x.at = pos
      BY DEF Token
    <3> HIDE DEF x
    <3>3. Standing(source, regions, <<x>>)
      BY <2>2, <3>2, OneStands
    <3> QED BY <3>1, <3>3 DEF x
  <2>5. Fits(s)
    BY <2>3, <2>4 DEF Fits, EndsIn
  <2> QED BY <1>2, <2>1, <2>5, Emits
<1>6. ASSUME BlockClose PROVE LexInv' /\ Moves
  <2> DEFINE s == ScanBlockClose(source, pos)
  <2>1. Scanning /\ ~ InInert /\ Matches(source, pos, BlockShut) /\ Emit(s)
    BY <1>6 DEF BlockClose
  <2>2. Outside(regions, pos)
    BY <2>1, WhereFences
  <2>3. /\ EndsIn(s.to, pos + 1, source)
        /\ s.to = 0 => s.tokens = <<>>
        /\ s.to # 0 => CloseTokens(s.tokens, pos)
    BY <1>1, <1>2, <2>1, BlockCloseEnds
  <2> HIDE DEF s
  <2>4. s.to # 0 => Standing(source, regions, s.tokens)
    BY <2>2, <2>3, CloseStands
  <2>5. Fits(s)
    BY <2>3, <2>4 DEF Fits, EndsIn
  <2> QED BY <1>2, <2>1, <2>5, Emits
<1>7. ASSUME OpenTag PROVE LexInv' /\ Moves
  <2> DEFINE s == ScanOpenTag(source, pos)
  <2>1. Scanning /\ ~ InInert /\ FenceOrder(source, pos) = 1 /\ Emit(s)
    BY <1>7 DEF OpenTag
  <2>2. Outside(regions, pos)
    BY <2>1, WhereFences
  <2>3. /\ EndsIn(s.to, pos + 1, source)
        /\ s.to = 0 => s.tokens = <<>>
        /\ s.to # 0 => \E e, k : OpenTokens(s.tokens, pos, e, k)
    BY <1>1, <1>2, <2>1, OpenTagEnds
  <2> HIDE DEF s
  <2>4. s.to # 0 => Standing(source, regions, s.tokens)
    BY <2>2, <2>3, OpenStands
  <2>5. Fits(s)
    BY <2>3, <2>4 DEF Fits, EndsIn
  <2> QED BY <1>2, <2>1, <2>5, Emits
<1>8. ASSUME PlainText PROVE LexInv' /\ Moves
  <2> DEFINE s == ScanText(source, inertIdx, pos)
  <2>1. /\ Scanning /\ ~ InInert /\ ~ Matches(source, pos, EscapedOpen)
        /\ FenceOrder(source, pos) = 0 /\ Emit(s)
    BY <1>8 DEF PlainText
  <2>2. Outside(regions, pos) /\ ~ Inert(inertIdx, pos)
    BY <2>1, WhereFences DEF InInert
  <2>3. ~ Matches(source, pos, Open)
    BY <1>1, <1>2, <2>1, FenceOrders
  <2>4. /\ s.to \in pos + 1..Len(source) + 1
        /\ \E v : s.tokens = <<Token("text", v, pos, s.to)>>
    BY <1>1, <1>2, <2>1, <2>2, <2>3, TextEnds
  <2> HIDE DEF s
  <2>5. PICK v : s.tokens = <<Token("text", v, pos, s.to)>>
    BY <2>4
  <2> DEFINE x == Token("text", v, pos, s.to)
  <2>6. x.t = "text" /\ x.at = pos
    BY DEF Token
  <2> HIDE DEF x
  <2>7. Standing(source, regions, <<x>>)
    BY <2>2, <2>6, OneStands
  <2>8. s.to # 0
    BY <1>1, <2>4
  <2>9. Fits(s)
    BY <2>4, <2>5, <2>7, <2>8 DEF Fits, x
  <2> QED BY <1>2, <2>1, <2>9, Emits
<1>9. ASSUME EndOfSource PROVE LexInv' /\ Moves
  <2> DEFINE x == Token("eof", <<>>, pos, pos)
  <2>1. /\ lexed = "running" /\ lexed' = "done"
        /\ tokens' = Append(tokens, x)
        /\ UNCHANGED <<source, markdown, regions, pos, inertIdx>>
    BY <1>9 DEF EndOfSource
  <2>2. x.t = "eof"
    BY DEF Token
  <2> HIDE DEF x
  <2>3. IsSeq(tokens) /\ IsSeq(<<x>>) /\ Len(<<x>>) = 1 /\ <<x>>[1] = x
    BY <1>1, ShortSeqs DEF Standing
  <2>4. tokens' = tokens \o <<x>>
    <3>1. PICK S : tokens \in Seq(S)
      BY <2>3 DEF IsSeq
    <3>2. tokens \in Seq(S \cup {x})
      <4>1. S \subseteq S \cup {x}
        OBVIOUS
      <4> QED BY <3>1, <4>1, SeqMonotonic
    <3>3. Append(tokens, x) = tokens \o <<x>>
      <4>1. x \in S \cup {x}
        OBVIOUS
      <4> QED BY <3>2, <4>1, AppendIsConcat
    <3> QED BY <2>1, <3>3
  <2>5. Standing(source, regions, <<x>>)
    BY <2>2, OneStands
  <2>6. Standing(source, regions, tokens \o <<x>>)
    BY <1>1, <2>5, StandingJoined
  <2>7. /\ Len(tokens \o <<x>>) \in Nat /\ Len(tokens \o <<x>>) >= 1
        /\ (tokens \o <<x>>)[Len(tokens \o <<x>>)] = x
    <3> DEFINE one == <<x>>
    <3>1. IsSeq(one) /\ Len(one) = 1 /\ one[1] = x /\ IsSeq(tokens)
      BY <2>3
    <3> HIDE DEF one
    <3>2. IsSeq(one) /\ IsSeq(tokens)
      BY <3>1
    <3>3. /\ Len(tokens) \in Nat /\ Len(tokens \o one) = Len(tokens) + Len(one)
          /\ \A i \in 1..Len(one) : (tokens \o one)[Len(tokens) + i] = one[i]
      BY <3>2, Joined
    <3>4. /\ Len(tokens \o one) \in Nat /\ Len(tokens \o one) >= 1
          /\ (tokens \o one)[Len(tokens \o one)] = x
      BY <3>1, <3>3
    <3> QED BY <3>4 DEF one
  <2>8. LexInv'
    BY <2>1, <2>2, <2>4, <2>6, <2>7 DEF LexInv
  <2> QED BY <2>1, <2>8 DEF Moves
<1> QED BY <1>3, <1>4, <1>5, <1>6, <1>7, <1>8, <1>9 DEF Tokenize

-----------------------------------------------------------------------------
(* The parser.  What it takes at a token is all there, and the end of the    *)
(* tokens is behind it.                                                     *)
ParseInv ==
  /\ parsed = "waiting" => index = 1 /\ half = "loop"
  /\ parsed # "waiting" => lexed = "done"
  /\ lexed = "done" => index \in 1..Len(tokens)
  /\ parsed = "running" /\ half = "node" => ~ EndsBody

LEMMA Ahead ==
  ASSUME LexInv, ParseInv, Running
  PROVE  /\ index \in 1..Len(tokens) /\ Len(tokens) \in Nat
         /\ Current.t # "eof" => index + 1 \in index + 1..Len(tokens)
         /\ Current.t = "bclose" => index + 3 \in index + 1..Len(tokens)
         /\ Current.t = "open" =>
              /\ index + (TagEnd(index) - index + 1) \in index + 1..Len(tokens)
              /\ Tok(index + 1).v \in Verbatims /\ Tok(TagEnd(index)).t = "close" =>
                   LET body == TagEnd(index) + 1
                       close == IF Tok(body).t = "text" THEN body + 1 ELSE body
                   IN  index + (close + 3 - index) \in index + 1..Len(tokens)
<1> DEFINE L == Len(tokens)
<1>1. lexed = "done" /\ index \in 1..L
  BY DEF ParseInv, Running
<1>2. L \in Nat /\ L >= 1 /\ tokens[L].t = "eof"
  BY <1>1 DEF LexInv
<1>3. Shaped(tokens, index)
  BY <1>1 DEF LexInv, Standing
<1>4. \A i \in 1..L : tokens[i].t # "eof" => i + 1 <= L
  <2> SUFFICES ASSUME NEW i \in 1..L, tokens[i].t # "eof" PROVE i + 1 <= L
    OBVIOUS
  <2>1. i # L
    BY <1>2
  <2> QED BY <1>2, <2>1
<1>5. Current = tokens[index] /\ Tok(index + 1) = tokens[index + 1]
  BY DEF Current, Tok
<1> HIDE DEF L
<1>6. Current.t # "eof" => index + 1 \in index + 1..L
  BY <1>1, <1>2, <1>4, <1>5
<1>7. ASSUME Current.t = "bclose" PROVE index + 3 \in index + 1..L
  <2>1. index + 2 <= L /\ tokens[index + 2].t = "close"
    BY <1>3, <1>5, <1>7 DEF Shaped, L
  <2>2. index + 2 \in 1..L
    BY <1>1, <1>2, <2>1
  <2>3. (index + 2) + 1 <= L
    BY <1>4, <2>1, <2>2
  <2> QED BY <1>1, <1>2, <2>3
<1>8. ASSUME Current.t = "open"
      PROVE  /\ index + (TagEnd(index) - index + 1) \in index + 1..L
             /\ Tok(index + 1).v \in Verbatims /\ Tok(TagEnd(index)).t = "close" =>
                  LET body == TagEnd(index) + 1
                      close == IF Tok(body).t = "text" THEN body + 1 ELSE body
                  IN  index + (close + 3 - index) \in index + 1..L
  <2>1. PICK e \in index + 2..L :
          /\ TagTo(tokens, index, e)
          /\ tokens[index + 1].v \in Verbatims /\ tokens[e].t = "close" => \E b : VerbatimTo(tokens, e, b)
    BY <1>3, <1>5, <1>8 DEF Shaped, L
  <2>2. /\ tokens[e].t \in {"self", "close"}
        /\ \A k \in index..e - 1 : tokens[k].t \notin {"self", "close"}
    BY <2>1 DEF TagTo
  <2>3. TagEnd(index) = e
    <3> DEFINE S == {j \in index..L : tokens[j].t \in {"self", "close"}}
    <3>1. TagEnd(index) = Least(S)
      BY DEF TagEnd, Tok, L
    <3>2. S \subseteq Nat /\ e \in S
      BY <1>1, <2>2
    <3>3. Least(S) \in S /\ Least(S) <= e
      <4> HIDE DEF S
      <4> QED BY <3>2, LeastNumber
    <3>4. Least(S) \in index..L /\ ~ (Least(S) \in index..e - 1)
      BY <2>2, <3>3
    <3> QED BY <1>1, <3>1, <3>3, <3>4
  <2>4. e \in 1..L /\ e + 1 <= L
    <3>1. e \in 1..L
      BY <1>1
    <3> QED BY <1>4, <2>2, <3>1
  <2>5. index + (TagEnd(index) - index + 1) \in index + 1..L
    BY <1>1, <1>2, <2>3, <2>4
  <2>6. ASSUME Tok(index + 1).v \in Verbatims, Tok(TagEnd(index)).t = "close"
        PROVE  LET body == TagEnd(index) + 1
                   close == IF Tok(body).t = "text" THEN body + 1 ELSE body
               IN  index + (close + 3 - index) \in index + 1..L
    <3>1. PICK b : VerbatimTo(tokens, e, b)
      BY <1>5, <2>1, <2>3, <2>6 DEF Tok
    <3>2. /\ b \in {e + 1, e + 2} /\ b + 2 <= L /\ (b = e + 2 => tokens[e + 1].t = "text")
          /\ tokens[b].t = "bclose" /\ tokens[b + 2].t = "close"
      BY <3>1 DEF VerbatimTo, L
    <3>3. b = IF tokens[e + 1].t = "text" THEN (e + 1) + 1 ELSE e + 1
      <4>1. (e + 1) + 1 = e + 2
        OBVIOUS
      <4>2. tokens[e + 1].t = "text" => b # e + 1
        BY <3>2
      <4> QED BY <3>2, <4>1, <4>2
    <3>4. b \in Nat /\ b + 2 \in 1..L /\ b >= index + 1
      BY <1>1, <1>2, <3>2
    <3>5. (b + 2) + 1 <= L
      BY <1>4, <3>2, <3>4
    <3>6. index + (b + 3 - index) \in index + 1..L
      BY <1>1, <1>2, <3>4, <3>5
    <3>7. Tok(TagEnd(index) + 1) = tokens[e + 1]
      BY <2>3 DEF Tok
    <3> QED BY <2>3, <3>3, <3>6, <3>7
  <2> QED BY <2>5, <2>6
<1> QED BY <1>1, <1>2, <1>6, <1>7, <1>8 DEF L

(* The two ways in which a step of the parser is over: it refuses or it is   *)
(* done, or it goes on behind what it took.                                 *)
LEMMA Over ==
  ASSUME LexInv, ParseInv, Running, UNCHANGED lexVars,
         index' = index, parsed' \notin {"waiting", "running"}
  PROVE  ParseInv' /\ Advances
<1>1. lexed' = lexed /\ tokens' = tokens /\ parsed = "running"
  BY DEF lexVars, Running
<1>2. lexed = "done" /\ index \in 1..Len(tokens)
  BY <1>1 DEF ParseInv
<1> QED BY <1>1, <1>2 DEF ParseInv, Advances

LEMMA Further ==
  ASSUME LexInv, ParseInv, Running, UNCHANGED lexVars,
         index' \in index + 1..Len(tokens), UNCHANGED parsed, half' = "loop"
  PROVE  ParseInv' /\ Advances
<1>1. lexed' = lexed /\ tokens' = tokens /\ parsed = "running" /\ parsed' = parsed
  BY DEF lexVars, Running
<1>2. lexed = "done" /\ index \in 1..Len(tokens)
  BY <1>1 DEF ParseInv
<1>3. Len(tokens) \in Nat
  BY <1>2 DEF LexInv
<1>4. index' \in 1..Len(tokens) /\ index' > index
  BY <1>2, <1>3
<1> QED BY <1>1, <1>2, <1>4 DEF ParseInv, Advances

LEMMA Failing ==
  ASSUME LexInv, ParseInv, Running, UNCHANGED lexVars,
         NEW why, why \notin {"waiting", "running"}, Fails(why)
  PROVE  ParseInv' /\ Advances
<1>1. index' = index /\ parsed' \notin {"waiting", "running"}
  BY DEF Fails
<1> QED BY <1>1, Over

LEMMA ParseFirst == Init => ParseInv
<1> SUFFICES ASSUME Init PROVE ParseInv
  OBVIOUS
<1>1. index = 1 /\ half = "loop" /\ parsed = "waiting" /\ lexed = "running"
  BY DEF Init, ParseInit, LexInit
<1> QED BY <1>1 DEF ParseInv

LEMMA ParseSteps ==
  ASSUME LexInv, ParseInv, ParseStep, UNCHANGED lexVars
  PROVE  ParseInv' /\ (Advances \/ StrayClose)
<1> DEFINE Goal == ParseInv' /\ (Advances \/ StrayClose)
<1>1. lexed' = lexed /\ tokens' = tokens /\ UNCHANGED lexVars
  BY DEF lexVars
<1>2. Running => /\ index \in 1..Len(tokens) /\ Len(tokens) \in Nat
                 /\ Current.t # "eof" => index + 1 \in index + 1..Len(tokens)
                 /\ Current.t = "bclose" => index + 3 \in index + 1..Len(tokens)
                 /\ Current.t = "open" => index + (TagEnd(index) - index + 1) \in index + 1..Len(tokens)
  BY Ahead
<1>3. ASSUME Running, NEW why \in Refusals, Fails(why) PROVE Goal
  <2>1. why \notin {"waiting", "running"}
    BY DEF Refusals
  <2> QED BY <1>1, <1>3, <2>1, Failing
<1>4. ASSUME Running, index' \in index + 1..Len(tokens), UNCHANGED parsed, half' = "loop" PROVE Goal
  BY <1>1, <1>4, Further
<1>5. ASSUME StartParse PROVE Goal
  <2>1. /\ parsed = "waiting" /\ lexed = "done" /\ parsed' = "running"
        /\ index' = index /\ half' = half
    BY <1>5 DEF StartParse
  <2>2. index \in 1..Len(tokens) /\ half = "loop"
    BY <2>1 DEF ParseInv
  <2> QED BY <1>1, <2>1, <2>2 DEF ParseInv, Advances
<1>6. ASSUME EndRoot PROVE Goal
  <2>1. Running /\ index' = index /\ parsed' \in {"done", "unexpected token"}
    BY <1>6 DEF EndRoot, Looping
  <2> QED BY <1>1, <2>1, Over
<1>7. ASSUME Running, half = "loop", Current.t = "bclose", Consume(3), Keep, UNCHANGED half PROVE Goal
  <2>1. index' \in index + 1..Len(tokens) /\ UNCHANGED parsed /\ half' = "loop"
    BY <1>2, <1>7 DEF Consume, Keep
  <2> QED BY <1>4, <1>7, <2>1
<1>8. ASSUME EndBlockTag PROVE Goal
  BY <1>7, <1>8 DEF EndBlockTag, Looping
<1>9. ASSUME Mismatched PROVE Goal
  <2>1. Running /\ Fails("mismatched")
    BY <1>9 DEF Mismatched, Looping
  <2>2. "mismatched" \in Refusals
    BY DEF Refusals
  <2> QED BY <1>3, <2>1, <2>2
<1>10. ASSUME Running, half = "loop", Current.t = "open",
              Consume(TagEnd(index) - index + 1), Keep, UNCHANGED half
       PROVE  Goal
  <2>1. index' \in index + 1..Len(tokens) /\ UNCHANGED parsed /\ half' = "loop"
    BY <1>2, <1>10 DEF Consume, Keep
  <2> QED BY <1>4, <1>10, <2>1
<1>11. ASSUME Boundary PROVE Goal
  <2>1. Running /\ half = "loop" /\ Current.t = "open"
    BY <1>11 DEF Boundary, Looping, Opens
  <2>2. \/ Fails("expected token") \/ Fails("condition")
        \/ Consume(TagEnd(index) - index + 1) /\ Keep /\ UNCHANGED half
    BY <1>11 DEF Boundary, NextBranch
  <2>3. "expected token" \in Refusals /\ "condition" \in Refusals
    BY DEF Refusals
  <2> QED BY <1>3, <1>10, <2>1, <2>2, <2>3
<1>12. ASSUME EndIf PROVE Goal
  BY <1>7, <1>12 DEF EndIf, Looping, Closes
<1>13. ASSUME EndFor PROVE Goal
  BY <1>7, <1>13 DEF EndFor, Looping, Closes
<1>14. ASSUME EndBlock PROVE Goal
  BY <1>7, <1>14 DEF EndBlock, Looping, Closes
<1>15. ASSUME SwitchText PROVE Goal
  <2>1. Running /\ half = "loop" /\ Current.t = "text" /\ Consume(1) /\ Keep /\ UNCHANGED half
    BY <1>15 DEF SwitchText, Looping
  <2>2. index' \in index + 1..Len(tokens) /\ UNCHANGED parsed /\ half' = "loop"
    BY <1>2, <2>1 DEF Consume, Keep
  <2> QED BY <1>4, <2>1, <2>2
<1>16. ASSUME SwitchCase PROVE Goal
  <2>1. Running /\ half = "loop" /\ Current.t = "open"
    BY <1>16 DEF SwitchCase, Looping
  <2>2. \/ Fails("switch") \/ Fails("expected token")
        \/ Consume(TagEnd(index) - index + 1) /\ Keep /\ UNCHANGED half
    BY <1>16 DEF SwitchCase
  <2>3. "expected token" \in Refusals /\ "switch" \in Refusals
    BY DEF Refusals
  <2> QED BY <1>3, <1>10, <2>1, <2>2, <2>3
<1>17. ASSUME EndSwitch PROVE Goal
  BY <1>7, <1>17 DEF EndSwitch, Looping, Closes
<1>18. ASSUME SwitchStray PROVE Goal
  <2>1. Running /\ Fails("switch")
    BY <1>18 DEF SwitchStray, Looping
  <2>2. "switch" \in Refusals
    BY DEF Refusals
  <2> QED BY <1>3, <2>1, <2>2
<1>19. ASSUME EndCase PROVE Goal
  <2>1. Running /\ half = "loop" /\ Current.t = "bclose"
    BY <1>19 DEF EndCase, Looping, Closes
  <2>2. Fails("switch") \/ (Consume(3) /\ Keep /\ UNCHANGED half)
    BY <1>19 DEF EndCase
  <2>3. "switch" \in Refusals
    BY DEF Refusals
  <2> QED BY <1>3, <1>7, <2>1, <2>2, <2>3
<1>20. ASSUME CaseNotClosed PROVE Goal
  <2>1. Running /\ Fails("switch")
    BY <1>20 DEF CaseNotClosed, Looping
  <2>2. "switch" \in Refusals
    BY DEF Refusals
  <2> QED BY <1>3, <2>1, <2>2
<1>21. ASSUME NotClosed PROVE Goal
  <2>1. Running /\ Fails("not closed")
    BY <1>21 DEF NotClosed, Looping
  <2>2. "not closed" \in Refusals
    BY DEF Refusals
  <2> QED BY <1>3, <2>1, <2>2
<1>22. ASSUME LookFurther PROVE Goal
  <2>1. /\ Running /\ half = "loop" /\ ~ EndsBody /\ half' = "node"
        /\ index' = index /\ frames' = frames /\ parsed' = parsed
    BY <1>22 DEF LookFurther
  <2>2. EndsBody' = EndsBody
    BY <1>1, <2>1 DEF EndsBody, AtEnd, Closes, Opens, Current, Tok, Top
  <2>3. lexed = "done" /\ index \in 1..Len(tokens)
    BY <2>1 DEF ParseInv, Running
  <2>4. ParseInv'
    BY <1>1, <2>1, <2>2, <2>3 DEF ParseInv, Running
  <2> QED BY <2>1, <2>4 DEF Advances
<1>23. ASSUME ParseText PROVE Goal
  <2>1. Running /\ Current.t = "text" /\ Consume(1) /\ Back /\ Keep
    BY <1>23 DEF ParseText, Parsing
  <2>2. index' \in index + 1..Len(tokens) /\ UNCHANGED parsed /\ half' = "loop"
    BY <1>2, <2>1 DEF Consume, Keep, Back
  <2> QED BY <1>4, <2>1, <2>2
<1>24. ASSUME ParseSelfClosing PROVE Goal
  <2>1. Running /\ Current.t = "open" /\ Consume(TagEnd(index) - index + 1) /\ Back /\ Keep
    BY <1>24 DEF ParseSelfClosing, Parsing
  <2>2. index' \in index + 1..Len(tokens) /\ UNCHANGED parsed /\ half' = "loop"
    BY <1>2, <2>1 DEF Consume, Keep, Back
  <2> QED BY <1>4, <2>1, <2>2
<1>25. ASSUME ParseVerbatim PROVE Goal
  <2> DEFINE body == TagEnd(index) + 1
             close == IF Tok(body).t = "text" THEN body + 1 ELSE body
  <2>1. /\ Running /\ Current.t = "open" /\ Tok(TagEnd(index)).t = "close"
        /\ Tok(index + 1).v \in Verbatims
        /\ Consume(close + 3 - index) /\ Back /\ Keep
    BY <1>25 DEF ParseVerbatim, ParsingBlock, Parsing, Opens, Verbatims
  <2>2. index + (close + 3 - index) \in index + 1..Len(tokens)
    BY <2>1, Ahead
  <2> HIDE DEF close, body
  <2>3. index' \in index + 1..Len(tokens) /\ UNCHANGED parsed /\ half' = "loop"
    BY <2>1, <2>2 DEF Consume, Keep, Back
  <2> QED BY <1>4, <2>1, <2>3
<1>26. ASSUME ParseBlockTag PROVE Goal
  <2> DEFINE tag == Tok(index + 1).v
             k == IF tag \in DOMAIN Kinds THEN Kinds[tag] ELSE "tag"
  <2>1. k \in {"if", "for", "switch", "block", "tag"}
    BY DEF Kinds
  <2>2. /\ Running /\ Current.t = "open"
        /\ \/ Fails(k) /\ ~ Demands(k, Attributes(index))
           \/ Consume(TagEnd(index) - index + 1) /\ Back /\ Keep
    BY <1>26 DEF ParseBlockTag, ParsingBlock, Parsing
  <2> HIDE DEF k
  <2>3. CASE Fails(k) /\ ~ Demands(k, Attributes(index))
    <3>1. k \in Refusals
      <4>1. k # "tag"
        BY <2>3 DEF Demands
      <4> QED BY <2>1, <4>1 DEF Refusals
    <3> QED BY <1>3, <2>2, <2>3, <3>1
  <2>4. CASE Consume(TagEnd(index) - index + 1) /\ Back /\ Keep
    <3>1. index' \in index + 1..Len(tokens) /\ UNCHANGED parsed /\ half' = "loop"
      BY <1>2, <2>2, <2>4 DEF Consume, Keep, Back
    <3> QED BY <1>4, <2>2, <3>1
  <2> QED BY <2>2, <2>3, <2>4
<1>27. ASSUME ParseNothing PROVE Goal
  <2>1. /\ parsed = "running" /\ half = "node" /\ Current.t = "bclose" /\ half' = "loop"
        /\ index' = index /\ parsed' = parsed
    BY <1>27 DEF ParseNothing, Parsing, Running, Back
  <2>2. ~ EndsBody /\ lexed = "done" /\ index \in 1..Len(tokens)
    BY <2>1 DEF ParseInv
  <2>3. Top.k \in {"if", "for", "block", "case"}
    BY <2>1, <2>2 DEF EndsBody
  <2>4. StrayClose
    BY <2>1, <2>2, <2>3 DEF StrayClose
  <2>5. ParseInv'
    BY <1>1, <2>1, <2>2 DEF ParseInv
  <2> QED BY <2>4, <2>5
<1> HIDE DEF Goal
<1>28. Goal
  BY <1>5, <1>6, <1>8, <1>9, <1>11, <1>12, <1>13, <1>14, <1>15, <1>16, <1>17, <1>18, <1>19,
     <1>20, <1>21, <1>22, <1>23, <1>24, <1>25, <1>26, <1>27 DEF ParseStep
<1> QED BY <1>28 DEF Goal

-----------------------------------------------------------------------------
(* The frames: the document is at the bottom, and a case stands on its      *)
(* switch (parseSwitchCase): what ends a case takes two frames at once.     *)
Stacked(fs) ==
  /\ IsSeq(fs) /\ Len(fs) \in Nat /\ Len(fs) >= 1 /\ fs[1].k = "root"
  /\ \A i \in 1..Len(fs) : "k" \in DOMAIN fs[i]
  /\ \A i \in 1..Len(fs) : fs[i].k = "case" <=> i > 1 /\ fs[i - 1].k = "switch"

LEMMA FrontIs ==
  ASSUME NEW fs, IsSeq(fs), Len(fs) >= 1
  PROVE  /\ IsSeq(Front(fs)) /\ Len(fs) \in Nat /\ Len(Front(fs)) = Len(fs) - 1
         /\ \A i \in 1..Len(fs) - 1 : Front(fs)[i] = fs[i]
<1> DEFINE n == Len(fs) - 1
           S == {fs[i] : i \in 1..n}
<1>1. Len(fs) \in Nat /\ n \in Int /\ n >= 0 /\ 1 \in Int /\ n = Len(fs) - 1
  BY SeqIs
<1>2. Front(fs) = SubSeq(fs, 1, n)
  BY DEF Front
<1>3. \A i \in 1..n : fs[i] \in S
  OBVIOUS
<1> HIDE DEF S, n
<1>4. /\ Front(fs) \in Seq(S)
      /\ Len(Front(fs)) = IF 1 <= n THEN n - 1 + 1 ELSE 0
      /\ \A i \in 1..n - 1 + 1 : Front(fs)[i] = fs[1 + i - 1]
  BY <1>1, <1>2, <1>3, SubSeqProperties
<1>5. Len(Front(fs)) = n /\ \A i \in 1..n : Front(fs)[i] = fs[i]
  BY <1>1, <1>4
<1> QED BY <1>1, <1>4, <1>5 DEF IsSeq

LEMMA AppendIs ==
  ASSUME NEW fs, IsSeq(fs), NEW g
  PROVE  /\ IsSeq(Append(fs, g)) /\ Len(fs) \in Nat /\ Len(Append(fs, g)) = Len(fs) + 1
         /\ \A i \in 1..Len(fs) : Append(fs, g)[i] = fs[i]
         /\ Append(fs, g)[Len(fs) + 1] = g
<1>1. PICK S : fs \in Seq(S)
  BY DEF IsSeq
<1> DEFINE U == S \cup {g}
<1>2. fs \in Seq(U) /\ g \in U
  <2>1. S \subseteq U /\ g \in U
    OBVIOUS
  <2> HIDE DEF U
  <2> QED BY <1>1, <2>1, SeqMonotonic
<1> HIDE DEF U
<1>3. /\ Append(fs, g) \in Seq(U) /\ Len(Append(fs, g)) = Len(fs) + 1
      /\ \A i \in 1..Len(fs) : Append(fs, g)[i] = fs[i]
      /\ Append(fs, g)[Len(fs) + 1] = g
  BY <1>2, AppendProperties
<1> QED BY <1>2, <1>3, SeqIs DEF IsSeq

LEMMA Popping ==
  ASSUME NEW fs, Stacked(fs), Last(fs).k # "root"
  PROVE  /\ Stacked(Front(fs)) /\ Len(fs) >= 2
         /\ Last(Front(fs)) = fs[Len(fs) - 1]
         /\ Last(fs).k = "case" <=> Last(Front(fs)).k = "switch"
<1> DEFINE n == Len(fs)
<1>1. /\ IsSeq(fs) /\ n \in Nat /\ n >= 1 /\ fs[1].k = "root"
      /\ \A i \in 1..n : "k" \in DOMAIN fs[i]
      /\ \A i \in 1..n : fs[i].k = "case" <=> i > 1 /\ fs[i - 1].k = "switch"
  BY DEF Stacked
<1>2. Last(fs) = fs[n] /\ Last(Front(fs)) = Front(fs)[Len(Front(fs))]
  BY DEF Last
<1>3. /\ IsSeq(Front(fs)) /\ Len(Front(fs)) = n - 1
      /\ \A i \in 1..n - 1 : Front(fs)[i] = fs[i]
  BY <1>1, FrontIs
<1> HIDE DEF n
<1>4. n >= 2
  BY <1>1, <1>2
<1>5. n - 1 \in 1..n - 1 /\ 1 \in 1..n - 1 /\ n \in 1..n /\ n - 1 \in Nat /\ n - 1 >= 1 /\ n > 1
  BY <1>1, <1>4
<1>6. ASSUME NEW i \in 1..n - 1
      PROVE  /\ "k" \in DOMAIN Front(fs)[i]
             /\ Front(fs)[i].k = "case" <=> i > 1 /\ Front(fs)[i - 1].k = "switch"
  <2>1. i \in 1..n /\ Front(fs)[i] = fs[i] /\ (i > 1 => i - 1 \in 1..n - 1)
    BY <1>1, <1>3
  <2>2. i > 1 => Front(fs)[i - 1] = fs[i - 1]
    BY <1>3, <2>1
  <2> QED BY <1>1, <2>1, <2>2
<1>7. Stacked(Front(fs))
  BY <1>1, <1>3, <1>5, <1>6 DEF Stacked
<1>8. Last(Front(fs)) = fs[n - 1]
  BY <1>2, <1>3, <1>5
<1> QED BY <1>1, <1>2, <1>4, <1>5, <1>7, <1>8 DEF n

LEMMA Pushing ==
  ASSUME NEW fs, Stacked(fs), NEW g, "k" \in DOMAIN g,
         g.k = "case" <=> Last(fs).k = "switch"
  PROVE  Stacked(Append(fs, g))
<1> DEFINE n == Len(fs)
           gs == Append(fs, g)
<1>1. /\ IsSeq(fs) /\ n \in Nat /\ n >= 1 /\ fs[1].k = "root"
      /\ \A i \in 1..n : "k" \in DOMAIN fs[i]
      /\ \A i \in 1..n : fs[i].k = "case" <=> i > 1 /\ fs[i - 1].k = "switch"
  BY DEF Stacked
<1>2. Last(fs) = fs[n]
  BY DEF Last
<1>3. /\ IsSeq(gs) /\ Len(gs) = n + 1
      /\ \A i \in 1..n : gs[i] = fs[i]
      /\ gs[n + 1] = g
  BY <1>1, AppendIs
<1> HIDE DEF n, gs
<1>4. ASSUME NEW i \in 1..n + 1
      PROVE  /\ "k" \in DOMAIN gs[i]
             /\ gs[i].k = "case" <=> i > 1 /\ gs[i - 1].k = "switch"
  <2>1. CASE i \in 1..n
    <3>1. gs[i] = fs[i] /\ (i > 1 => i - 1 \in 1..n)
      BY <1>1, <1>3, <2>1
    <3>2. i > 1 => gs[i - 1] = fs[i - 1]
      BY <1>3, <3>1
    <3> QED BY <1>1, <2>1, <3>1, <3>2
  <2>2. CASE i = n + 1
    <3>1. i > 1 /\ i - 1 = n /\ n \in 1..n
      BY <1>1, <2>2
    <3>2. gs[i] = g /\ gs[i - 1] = Last(fs)
      BY <1>2, <1>3, <2>2, <3>1
    <3> QED BY <3>1, <3>2
  <2> QED BY <1>1, <2>1, <2>2
<1>5. gs[1].k = "root" /\ n + 1 \in Nat /\ n + 1 >= 1
  <2>1. 1 \in 1..n
    BY <1>1
  <2> QED BY <1>1, <1>3, <2>1
<1> QED BY <1>3, <1>4, <1>5 DEF Stacked, gs

LEMMA Topping ==
  ASSUME NEW fs, Stacked(fs), NEW g, "k" \in DOMAIN g, g.k = Last(fs).k
  PROVE  Stacked(Append(Front(fs), g))
<1> DEFINE n == Len(fs)
           gs == Append(Front(fs), g)
<1>1. /\ IsSeq(fs) /\ n \in Nat /\ n >= 1 /\ fs[1].k = "root"
      /\ \A i \in 1..n : "k" \in DOMAIN fs[i]
      /\ \A i \in 1..n : fs[i].k = "case" <=> i > 1 /\ fs[i - 1].k = "switch"
  BY DEF Stacked
<1>2. Last(fs) = fs[n]
  BY DEF Last
<1>3. /\ IsSeq(Front(fs)) /\ Len(Front(fs)) = n - 1
      /\ \A i \in 1..n - 1 : Front(fs)[i] = fs[i]
  BY <1>1, FrontIs
<1>4. /\ IsSeq(gs) /\ Len(gs) = Len(Front(fs)) + 1
      /\ \A i \in 1..Len(Front(fs)) : gs[i] = Front(fs)[i]
      /\ gs[Len(Front(fs)) + 1] = g
  BY <1>3, AppendIs
<1> HIDE DEF n, gs
<1>5. IsSeq(gs) /\ Len(gs) = n /\ gs[n] = g /\ \A i \in 1..n - 1 : gs[i] = fs[i]
  <2>1. Len(Front(fs)) = n - 1 /\ (n - 1) + 1 = n
    BY <1>1, <1>3
  <2> QED BY <1>3, <1>4, <2>1
<1>6. \A i \in 1..n : gs[i].k = fs[i].k /\ "k" \in DOMAIN gs[i]
  <2>1. \A i \in 1..n : i = n \/ i \in 1..n - 1
    BY <1>1
  <2> QED BY <1>1, <1>2, <1>5, <2>1
<1>7. \A i \in 1..n : gs[i].k = "case" <=> i > 1 /\ gs[i - 1].k = "switch"
  <2> TAKE i \in 1..n
  <2>1. i > 1 => i - 1 \in 1..n
    BY <1>1
  <2> QED BY <1>1, <1>6, <2>1
<1>8. gs[1].k = "root"
  BY <1>1, <1>6
<1> QED BY <1>1, <1>5, <1>6, <1>7, <1>8 DEF Stacked, gs

(* The three ways in which the parser changes its frames.                   *)
LEMMA Nested ==
  ASSUME Stacked(frames), NEW node, Top.k \notin {"root", "case"}
  PROVE  Stacked(Popped(node))
<1> DEFINE below == Front(frames)
           g == WithKid(Last(below), node)
<1>1. Top = Last(frames) /\ Popped(node) = Append(Front(below), g)
  BY DEF Top, Popped
<1>2. Stacked(below)
  BY <1>1, Popping
<1> HIDE DEF below
<1>3. "k" \in DOMAIN Last(below)
  <2>1. Len(below) \in 1..Len(below)
    BY <1>2 DEF Stacked
  <2> QED BY <1>2, <2>1 DEF Stacked, Last
<1>4. "k" \in DOMAIN g /\ g.k = Last(below).k
  BY <1>3 DEF WithKid
<1> HIDE DEF g
<1> QED BY <1>1, <1>2, <1>4, Topping

LEMMA TopIs ==
  ASSUME Stacked(frames)
  PROVE  "k" \in DOMAIN Top
<1>1. Len(frames) \in 1..Len(frames)
  BY DEF Stacked
<1> QED BY <1>1 DEF Stacked, Top, Last

LEMMA KidAdded ==
  ASSUME Stacked(frames), NEW node, AddKid(node)
  PROVE  Stacked(frames')
<1> DEFINE g == WithKid(Top, node)
<1>1. frames' = Append(Front(frames), g) /\ Top = Last(frames)
  BY DEF AddKid, Frames, Top
<1>2. "k" \in DOMAIN g /\ g.k = Top.k
  BY TopIs DEF WithKid
<1> HIDE DEF g
<1> QED BY <1>1, <1>2, Topping

LEMMA FramesSteps ==
  ASSUME Stacked(frames), ParseInv, ParseStep
  PROVE  Stacked(frames')
<1> USE DEF Frames
<1>1. ASSUME UNCHANGED frames PROVE Stacked(frames')
  BY <1>1
<1>2. \A why : Fails(why) => UNCHANGED frames
  BY DEF Fails
<1>3. ASSUME Top.k \notin {"root", "case"}, NEW node, frames' = Popped(node) PROVE Stacked(frames')
  BY <1>3, Nested
<1>4. ASSUME EndBlockTag PROVE Stacked(frames')
  <2>1. Top.k = "tag" /\ \E node : frames' = Popped(node)
    BY <1>4 DEF EndBlockTag, Looping
  <2> QED BY <1>3, <2>1
<1>5. ASSUME EndIf PROVE Stacked(frames')
  <2>1. Top.k = "if" /\ \E node : frames' = Popped(node)
    BY <1>5 DEF EndIf, Looping
  <2> QED BY <1>3, <2>1
<1>6. ASSUME EndFor PROVE Stacked(frames')
  <2>1. Top.k = "for" /\ \E node : frames' = Popped(node)
    BY <1>6 DEF EndFor, Looping
  <2> QED BY <1>3, <2>1
<1>7. ASSUME EndBlock PROVE Stacked(frames')
  <2>1. Top.k = "block" /\ \E node : frames' = Popped(node)
    BY <1>7 DEF EndBlock, Looping
  <2> QED BY <1>3, <2>1
<1>8. ASSUME EndSwitch PROVE Stacked(frames')
  <2>1. Top.k = "switch" /\ \E node : frames' = Popped(node)
    BY <1>8 DEF EndSwitch, Looping
  <2> QED BY <1>3, <2>1
<1>9. ASSUME Boundary PROVE Stacked(frames')
  <2>1. UNCHANGED frames \/ \E next : NextBranch(next)
    BY <1>2, <1>9 DEF Boundary
  <2>2. ASSUME NEW next, NextBranch(next) PROVE Stacked(frames')
    <3> DEFINE g == [Top EXCEPT !.branches = Append(@, Branch(Top)), !.kids = <<>>, !.head = next]
    <3>1. frames' = Append(Front(frames), g) /\ Top = Last(frames)
      BY <2>2 DEF NextBranch, Top
    <3>2. "k" \in DOMAIN g /\ g.k = Top.k
      BY TopIs
    <3> HIDE DEF g
    <3> QED BY <3>1, <3>2, Topping
  <2> QED BY <1>1, <2>1, <2>2
<1>10. ASSUME SwitchCase PROVE Stacked(frames')
  <2>1. /\ Last(frames).k = "switch"
        /\ \/ UNCHANGED frames
           \/ \E tag, attrs, at : frames' = Append(frames, Frame("case", tag, attrs, at))
    BY <1>2, <1>10 DEF SwitchCase, Looping, Top
  <2>2. ASSUME NEW tag, NEW attrs, NEW at, frames' = Append(frames, Frame("case", tag, attrs, at))
        PROVE  Stacked(frames')
    <3> DEFINE g == Frame("case", tag, attrs, at)
    <3>1. "k" \in DOMAIN g /\ g.k = "case"
      BY DEF Frame
    <3> HIDE DEF g
    <3>2. Stacked(Append(frames, g))
      BY <2>1, <3>1, Pushing
    <3> QED BY <2>2, <3>2 DEF g
  <2> QED BY <1>1, <2>1, <2>2
<1>11. ASSUME EndCase PROVE Stacked(frames')
  <2> DEFINE below == Front(frames)
             switch == Last(below)
             g == [switch EXCEPT !.branches = Append(@, Branch(Top))]
  <2>1. /\ Top.k = "case"
        /\ UNCHANGED frames \/ frames' = Append(Front(below), g)
    BY <1>2, <1>11 DEF EndCase, Looping
  <2>2. Stacked(below)
    BY <2>1, Popping DEF Top
  <2> HIDE DEF below
  <2>3. "k" \in DOMAIN switch
    <3>1. Len(below) \in 1..Len(below)
      BY <2>2 DEF Stacked
    <3> QED BY <2>2, <3>1 DEF Stacked, Last
  <2>4. "k" \in DOMAIN g /\ g.k = Last(below).k
    BY <2>3
  <2> HIDE DEF g, switch
  <2>5. Stacked(Append(Front(below), g))
    BY <2>2, <2>4, Topping
  <2> QED BY <1>1, <2>1, <2>5
<1>12. ASSUME ParseText PROVE Stacked(frames')
  BY <1>12, KidAdded DEF ParseText
<1>13. ASSUME ParseSelfClosing PROVE Stacked(frames')
  BY <1>13, KidAdded DEF ParseSelfClosing
<1>14. ASSUME ParseVerbatim PROVE Stacked(frames')
  <2>1. UNCHANGED frames \/ \E node : AddKid(node)
    BY <1>14 DEF ParseVerbatim
  <2> QED BY <1>1, <2>1, KidAdded
<1>15. ASSUME ParseBlockTag PROVE Stacked(frames')
  <2> DEFINE tag == Tok(index + 1).v
             k == IF tag \in DOMAIN Kinds THEN Kinds[tag] ELSE "tag"
             g == Frame(k, tag, Attributes(index), Current.at)
  <2>1. k \in {"if", "for", "switch", "block", "tag"}
    BY DEF Kinds
  <2>2. UNCHANGED frames \/ frames' = Append(frames, g)
    BY <1>2, <1>15 DEF ParseBlockTag
  <2>3. Last(frames).k # "switch"
    <3>1. parsed = "running" /\ half = "node"
      BY <1>15 DEF ParseBlockTag, ParsingBlock, Parsing, Running
    <3>2. ~ EndsBody
      BY <3>1 DEF ParseInv
    <3> QED BY <3>2 DEF EndsBody, Top
  <2>4. "k" \in DOMAIN g /\ g.k = k
    BY DEF Frame
  <2> HIDE DEF g, k
  <2>5. g.k # "case"
    BY <2>1, <2>4
  <2>6. Stacked(Append(frames, g))
    BY <2>3, <2>4, <2>5, Pushing
  <2> QED BY <1>1, <2>2, <2>6
<1>16. ASSUME StartParse \/ EndRoot \/ SwitchText \/ LookFurther \/ ParseNothing PROVE Stacked(frames')
  BY <1>1, <1>16 DEF StartParse, EndRoot, SwitchText, LookFurther, ParseNothing
<1>17. ASSUME Mismatched \/ SwitchStray \/ CaseNotClosed \/ NotClosed PROVE Stacked(frames')
  BY <1>1, <1>2, <1>17 DEF Mismatched, SwitchStray, CaseNotClosed, NotClosed
<1> QED BY <1>4, <1>5, <1>6, <1>7, <1>8, <1>9, <1>10, <1>11, <1>12, <1>13, <1>14, <1>15, <1>16, <1>17
        DEF ParseStep

(* The parser decides once, and its loops have two halves.                   *)
LEMMA VerdictsAndHalves ==
  ASSUME half \in {"loop", "node"}, parsed \in Refusals \cup {"waiting", "running", "done"}, ParseStep
  PROVE  /\ half' \in {"loop", "node"}
         /\ parsed' \in Refusals \cup {"waiting", "running", "done"}
<1> DEFINE Goal == /\ half' \in {"loop", "node"}
                   /\ parsed' \in Refusals \cup {"waiting", "running", "done"}
<1>1. ASSUME Keep, UNCHANGED half \/ half' = "loop" PROVE Goal
  BY <1>1 DEF Keep
<1>2. ASSUME NEW why \in Refusals, Fails(why) PROVE Goal
  BY <1>2 DEF Fails
<1>3. /\ "expected token" \in Refusals /\ "condition" \in Refusals /\ "switch" \in Refusals
      /\ "mismatched" \in Refusals /\ "not closed" \in Refusals /\ "unexpected token" \in Refusals
  BY DEF Refusals
<1> HIDE DEF Goal
<1>4. ASSUME StartParse \/ EndRoot \/ LookFurther \/ ParseNothing PROVE Goal
  BY <1>3, <1>4 DEF StartParse, EndRoot, LookFurther, ParseNothing, Back, Goal
<1>5. ASSUME EndBlockTag \/ EndIf \/ EndFor \/ EndBlock \/ EndSwitch \/ SwitchText PROVE Goal
  BY <1>1, <1>5 DEF EndBlockTag, EndIf, EndFor, EndBlock, EndSwitch, SwitchText
<1>6. ASSUME Mismatched \/ SwitchStray \/ CaseNotClosed \/ NotClosed PROVE Goal
  BY <1>2, <1>3, <1>6 DEF Mismatched, SwitchStray, CaseNotClosed, NotClosed
<1>7. ASSUME Boundary PROVE Goal
  <2>1. Fails("expected token") \/ Fails("condition") \/ (Keep /\ UNCHANGED half)
    BY <1>7 DEF Boundary, NextBranch
  <2> QED BY <1>1, <1>2, <1>3, <2>1
<1>8. ASSUME SwitchCase PROVE Goal
  <2>1. Fails("switch") \/ Fails("expected token") \/ (Keep /\ UNCHANGED half)
    BY <1>8 DEF SwitchCase
  <2> QED BY <1>1, <1>2, <1>3, <2>1
<1>9. ASSUME EndCase PROVE Goal
  <2>1. Fails("switch") \/ (Keep /\ UNCHANGED half)
    BY <1>9 DEF EndCase
  <2> QED BY <1>1, <1>2, <1>3, <2>1
<1>10. ASSUME ParseText \/ ParseSelfClosing \/ ParseVerbatim PROVE Goal
  <2>1. Keep /\ half' = "loop"
    BY <1>10 DEF ParseText, ParseSelfClosing, ParseVerbatim, Back
  <2> QED BY <1>1, <2>1
<1>11. ASSUME ParseBlockTag PROVE Goal
  <2> DEFINE tag == Tok(index + 1).v
             k == IF tag \in DOMAIN Kinds THEN Kinds[tag] ELSE "tag"
  <2>1. k \in {"if", "for", "switch", "block", "tag"}
    BY DEF Kinds
  <2>2. (Fails(k) /\ ~ Demands(k, Attributes(index))) \/ (Keep /\ half' = "loop")
    BY <1>11 DEF ParseBlockTag, Back
  <2> HIDE DEF k
  <2>3. ~ Demands(k, Attributes(index)) => k \in Refusals
    <3>1. k = "tag" => Demands(k, Attributes(index))
      BY DEF Demands
    <3> QED BY <2>1, <3>1 DEF Refusals
  <2> QED BY <1>1, <1>2, <2>2, <2>3
<1>12. Goal
  BY <1>4, <1>5, <1>6, <1>7, <1>8, <1>9, <1>10, <1>11 DEF ParseStep
<1> QED BY <1>12 DEF Goal

-----------------------------------------------------------------------------
(* The theorems.                                                            *)
ReadInv == LexInv /\ ParseInv

LEMMA ReadSteps ==
  ASSUME ReadInv, [Next]_vars
  PROVE  ReadInv' /\ [Advances \/ StrayClose]_vars
<1>1. LexInv /\ ParseInv
  BY DEF ReadInv
<1>2. ASSUME Tokenize, UNCHANGED parseVars PROVE ReadInv' /\ Advances
  <2>1. LexInv' /\ Moves
    BY <1>1, <1>2, LexSteps
  <2>2. lexed = "running" /\ parsed = "waiting" /\ index = 1 /\ half = "loop"
    <3>1. lexed = "running"
      BY <1>2 DEF Tokenize, InertRegion, Escape, VerbatimFence, BlockClose, OpenTag, PlainText,
                  EndOfSource, Scanning
    <3> QED BY <1>1, <3>1 DEF ParseInv
  <2>3. parsed' = "waiting" /\ index' = 1 /\ half' = "loop"
    BY <1>2, <2>2 DEF parseVars
  <2>4. ParseInv'
    <3>1. lexed' = "done" => 1 \in 1..Len(tokens')
      BY <2>1 DEF LexInv
    <3> QED BY <2>3, <3>1 DEF ParseInv
  <2> QED BY <2>1, <2>4 DEF ReadInv, Moves, Advances
<1>3. ASSUME ParseStep, UNCHANGED lexVars PROVE ReadInv' /\ (Advances \/ StrayClose)
  <2>1. ParseInv' /\ (Advances \/ StrayClose)
    BY <1>1, <1>3, ParseSteps
  <2>2. LexInv'
    BY <1>1, <1>3 DEF LexInv, lexVars
  <2> QED BY <2>1, <2>2 DEF ReadInv
<1>4. ASSUME UNCHANGED vars PROVE ReadInv'
  <2>1. UNCHANGED <<source, markdown, regions, pos, inertIdx, tokens, lexed>> /\ UNCHANGED <<index, frames, half, ast, parsed>>
    BY <1>4 DEF vars
  <2>2. LexInv'
    BY <1>1, <2>1 DEF LexInv
  <2>3. EndsBody' = EndsBody
    BY <2>1 DEF EndsBody, AtEnd, Closes, Opens, Current, Tok, Top
  <2>4. ParseInv'
    BY <1>1, <2>1, <2>3 DEF ParseInv
  <2> QED BY <2>2, <2>4 DEF ReadInv
<1> QED BY <1>2, <1>3, <1>4 DEF Next

THEOREM ReadingIsInductive == Spec => []ReadInv
<1>1. Init => ReadInv
  BY LexFirst, ParseFirst DEF ReadInv
<1>2. ReadInv /\ [Next]_vars => ReadInv'
  BY ReadSteps
<1> QED BY <1>1, <1>2, PTL DEF Spec

(* In a markdown fence nothing is a tag and nothing is an escape, whatever   *)
(* the source and wherever the lexer was when it came to the fence.         *)
THEOREM FencesStayInert == Spec => []FencesAreInert
<1>1. ReadInv => FencesAreInert
  <2> SUFFICES ASSUME ReadInv,
                      NEW r \in Range(regions), ~ r.live,
                      NEW i \in DOMAIN tokens, r.start <= tokens[i].at, tokens[i].at < r.end
               PROVE  /\ tokens[i].t # "open"
                      /\ tokens[i].t = "bclose" => ClosesVerbatim(i)
                      /\ tokens[i].t = "text" /\ ~ VerbatimText(i) =>
                           /\ tokens[i].to = r.end
                           /\ tokens[i].v = SubSeq(source, tokens[i].at, r.end - 1)
    BY DEF FencesAreInert
  <2>1. /\ IsSource(source) /\ InOrder(source, 1, regions) /\ Standing(source, regions, tokens)
    BY DEF ReadInv, LexInv
  <2>2. DOMAIN regions = 1..Len(regions) /\ DOMAIN tokens = 1..Len(tokens)
    BY <2>1, RegionBounds, SeqIs DEF Standing
  <2>3. PICK n \in 1..Len(regions) : r = regions[n]
    BY <2>2 DEF Range
  <2>4. InFence(regions, n, tokens[i].at) /\ ~ Outside(regions, tokens[i].at)
    BY <2>3 DEF InFence, Outside
  <2>5. InertAt(source, regions, tokens, i)
    BY <2>1, <2>2 DEF Standing
  <2>6. \A j : Closing(tokens, j) => ClosesVerbatim(j)
    BY DEF Closing, ClosesVerbatim, Verbatims
  <2> QED BY <2>3, <2>4, <2>5, <2>6 DEF InertAt, WholeFence, VerbatimText
<1> QED BY <1>1, ReadingIsInductive, PTL

(* Every step of the lexer and of the parser takes a character or a token,   *)
(* or decides, but where a body that only its own close ends meets the       *)
(* close of another: only there can reading go round in a circle.           *)
THEOREM ReadingAdvances == Spec => EveryStepAdvances
<1>1. ReadInv /\ [Next]_vars => [Advances \/ StrayClose]_vars
  BY ReadSteps
<1> QED BY <1>1, ReadingIsInductive, PTL DEF Spec, EveryStepAdvances

(* The ranges of what the lexer and the parser keep; and the frames, the     *)
(* bodies that are being read, are nested as the functions that read them.  *)
ReadTyped ==
  /\ markdown \in BOOLEAN /\ half \in {"loop", "node"} /\ Stacked(frames)
  /\ parsed \in Refusals \cup {"waiting", "running", "done"}

LEMMA TypedSteps ==
  ASSUME ReadInv, ReadTyped, [Next]_vars
  PROVE  ReadTyped'
<1> DEFINE Verdicts == Refusals \cup {"waiting", "running", "done"}
<1>1. /\ markdown \in BOOLEAN /\ half \in {"loop", "node"} /\ Stacked(frames) /\ parsed \in Verdicts
      /\ ParseInv
  BY DEF ReadTyped, ReadInv
<1>2. ASSUME Tokenize, UNCHANGED parseVars PROVE ReadTyped'
  <2>1. markdown' = markdown
    BY <1>2 DEF Tokenize, InertRegion, Escape, VerbatimFence, BlockClose, OpenTag, PlainText,
                EndOfSource, Emit
  <2>2. half' = half /\ frames' = frames /\ parsed' = parsed
    BY <1>2 DEF parseVars
  <2> QED BY <1>1, <2>1, <2>2 DEF ReadTyped
<1>3. ASSUME ParseStep, UNCHANGED lexVars PROVE ReadTyped'
  <2>1. Stacked(frames')
    BY <1>1, <1>3, FramesSteps
  <2>2. markdown' = markdown
    BY <1>3 DEF lexVars
  <2>3. half' \in {"loop", "node"} /\ parsed' \in Verdicts
    BY <1>1, <1>3, VerdictsAndHalves
  <2> QED BY <1>1, <2>1, <2>2, <2>3 DEF ReadTyped
<1>4. CASE UNCHANGED vars
  <2>1. markdown' = markdown /\ half' = half /\ frames' = frames /\ parsed' = parsed
    BY <1>4 DEF vars
  <2> QED BY <1>1, <2>1 DEF ReadTyped
<1> QED BY <1>2, <1>3, <1>4 DEF Next

(* The lexer and the parser keep their ranges for every set of sources: the *)
(* cursor stays within the source and the tokens, and the functions that    *)
(* read a body are left as they were entered, down to the document.         *)
THEOREM ReadingIsTyped == Spec => []TypeOK
<1>1. Init => ReadTyped
  <2> SUFFICES ASSUME Init PROVE ReadTyped
    OBVIOUS
  <2> DEFINE root == Frame("root", <<>>, << >>, 0)
  <2>1. markdown \in BOOLEAN /\ half = "loop" /\ parsed = "waiting" /\ frames = <<root>>
    BY DEF Init, LexInit, ParseInit
  <2>2. "k" \in DOMAIN root /\ root.k = "root"
    BY DEF Frame
  <2> HIDE DEF root
  <2>3. IsSeq(frames) /\ Len(frames) = 1 /\ frames[1] = root
    BY <2>1, ShortSeqs
  <2>4. \A i \in 1..Len(frames) : i = 1
    BY <2>3
  <2>5. Stacked(frames)
    BY <2>2, <2>3, <2>4 DEF Stacked
  <2> QED BY <2>1, <2>5 DEF ReadTyped
<1>2. ReadInv /\ ReadTyped /\ [Next]_vars => ReadTyped'
  BY TypedSteps
<1>3. ReadInv /\ ReadTyped => TypeOK
  <2> SUFFICES ASSUME ReadInv, ReadTyped PROVE TypeOK
    OBVIOUS
  <2>1. LexInv /\ ParseInv
    BY DEF ReadInv
  <2>2. pos \in 1..Len(source) + 1 /\ inertIdx \in 1..Len(regions) + 1 /\ lexed \in {"running", "done", "error"}
    BY <2>1 DEF LexInv
  <2>3. IsSeq(tokens) /\ Len(tokens) \in Nat
    BY <2>1, SeqIs DEF LexInv, Standing
  <2>4. index \in 1..Len(tokens) + 1
    <3>1. index = 1 \/ index \in 1..Len(tokens)
      BY <2>1 DEF ParseInv
    <3> QED BY <2>3, <3>1
  <2>5. IsSeq(frames) /\ Len(frames) >= 1 /\ frames[1].k = "root"
    BY DEF ReadTyped, Stacked
  <2>6. DOMAIN frames = 1..Len(frames) /\ frames # <<>>
    BY <2>5, SeqIs, ShortSeqs
  <2>7. \A i \in DOMAIN frames : frames[i].k = "case" <=> i > 1 /\ frames[i - 1].k = "switch"
    BY <2>6 DEF ReadTyped, Stacked
  <2> QED BY <2>2, <2>4, <2>5, <2>6, <2>7 DEF TypeOK, ReadTyped
<1> QED BY <1>1, <1>2, <1>3, ReadingIsInductive, PTL DEF Spec
=============================================================================
