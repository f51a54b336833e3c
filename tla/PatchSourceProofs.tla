-------------------------- MODULE PatchSourceProofs --------------------------
(***************************************************************************)
(* What PatchSource does to the lines, for every set of frontmatters,       *)
(* whatever their lines: an edit replaces the lines of one entry, keeps the *)
(* others, and leaves a text that is well-formed.                           *)
(***************************************************************************)
EXTENDS PatchSource, FiniteSetTheorems, SequenceTheorems, WellFoundedInduction, TLAPS

-----------------------------------------------------------------------------
(* Numbers.                                                                 *)
Lowest(S) == CHOOSE m \in S : \A k \in S : m <= k

LEMMA LowestNumber ==
  ASSUME NEW S, S \subseteq Nat, S # {}
  PROVE  Lowest(S) \in S /\ \A m \in S : Lowest(S) <= m
<1> DEFINE Upto(i) == 1..i
           T == {Upto(i) : i \in S}
           R == StrictSubsetOrdering(Nat)
<1>1. IsWellFoundedOn(R, FiniteSubsetsOf(Nat))
  BY FS_StrictSubsetOrderingWellFounded
<1>2. T \subseteq FiniteSubsetsOf(Nat)
  <2> SUFFICES ASSUME NEW i \in S PROVE 1..i \in FiniteSubsetsOf(Nat)
    OBVIOUS
  <2>1. IsFiniteSet(1..i)
    BY FS_Interval
  <2>2. 1..i \in SUBSET Nat
    OBVIOUS
  <2> QED BY <2>1, <2>2 DEF FiniteSubsetsOf
<1>3. T # {}
  OBVIOUS
<1>4. PICK t \in T : \A u \in T : ~ (<<u, t>> \in R)
  <2> HIDE DEF T, R
  <2> QED BY <1>1, <1>2, <1>3, WFMin
<1>5. PICK i \in S : t = Upto(i)
  OBVIOUS
<1>6. ASSUME NEW j \in S PROVE i <= j
  <2>1. ~ (<<Upto(j), Upto(i)>> \in R)
    BY <1>4, <1>5
  <2>2. j < i => Upto(j) \subseteq Upto(i) /\ i \in Upto(i) /\ i \notin Upto(j)
    OBVIOUS
  <2>3. Upto(j) \in SUBSET Nat /\ Upto(i) \in SUBSET Nat
    OBVIOUS
  <2>4. j < i => <<Upto(j), Upto(i)>> \in R
    BY <2>2, <2>3 DEF StrictSubsetOrdering
  <2> QED BY <2>1, <2>4
<1> QED BY <1>6 DEF Lowest

LEMMA Upward ==
  ASSUME NEW lo \in Nat, NEW S, \A k \in Nat : lo <= k /\ lo..k - 1 \subseteq S => k \in S
  PROVE  \A k \in Nat : lo <= k => k \in S
<1> DEFINE Bad == {k \in Nat : lo <= k /\ k \notin S}
<1> SUFFICES ASSUME Bad # {} PROVE FALSE
  OBVIOUS
<1>1. Lowest(Bad) \in Bad /\ \A m \in Bad : Lowest(Bad) <= m
  <2>1. Bad \subseteq Nat
    OBVIOUS
  <2> HIDE DEF Bad
  <2> QED BY <2>1, LowestNumber
<1> DEFINE b == Lowest(Bad)
<1>2. b \in Nat /\ lo <= b /\ b \notin S
  BY <1>1
<1>3. \A k \in lo..b - 1 : k \in S
  <2> SUFFICES ASSUME NEW k \in lo..b - 1, k \notin S PROVE FALSE
    OBVIOUS
  <2>1. b \in Nat /\ k \in Nat /\ lo <= k /\ k < b
    BY <1>2
  <2>2. k \in Bad
    BY <2>1
  <2>3. b <= k
    BY <1>1, <2>2
  <2> QED BY <2>1, <2>3
<1> HIDE DEF b, Bad
<1> QED BY <1>2, <1>3

LEMMA GreatestNumber ==
  ASSUME NEW N \in Nat, NEW S, S \subseteq 0..N, S # {}
  PROVE  Greatest(S) \in S /\ \A m \in S : m <= Greatest(S)
<1> DEFINE T == {N - m : m \in S}
<1>1. T \subseteq Nat /\ T # {}
  <2>1. \A m \in S : m \in 0..N
    OBVIOUS
  <2>2. \A m \in S : N - m \in Nat
    BY <2>1
  <2> QED BY <2>2
<1>2. Lowest(T) \in T /\ \A m \in T : Lowest(T) <= m
  <2> HIDE DEF T
  <2> QED BY <1>1, LowestNumber
<1>3. PICK g \in S : Lowest(T) = N - g
  BY <1>2
<1>4. \A m \in S : m <= g
  <2> SUFFICES ASSUME NEW m \in S PROVE m <= g
    OBVIOUS
  <2>1. N - m \in T
    OBVIOUS
  <2>2. N - g <= N - m /\ m \in 0..N /\ g \in 0..N
    BY <1>2, <1>3, <2>1
  <2> QED BY <2>2
<1> QED BY <1>4 DEF Greatest

LEMMA GreatestOrNone ==
  ASSUME NEW N \in Nat, NEW S, S \subseteq 1..N
  PROVE  /\ GreatestOr0(S) \in 0..N
         /\ GreatestOr0(S) = 0 <=> S = {}
         /\ S # {} => GreatestOr0(S) \in S
         /\ \A m \in S : m <= GreatestOr0(S)
<1>1. CASE S = {}
  BY <1>1 DEF GreatestOr0
<1>2. CASE S # {}
  <2>1. S \subseteq 0..N
    OBVIOUS
  <2>2. Greatest(S) \in S /\ \A m \in S : m <= Greatest(S)
    BY <1>2, <2>1, GreatestNumber
  <2>3. GreatestOr0(S) = Greatest(S)
    BY <1>2 DEF GreatestOr0
  <2>4. GreatestOr0(S) \in S /\ \A m \in S : m <= GreatestOr0(S)
    BY <2>2, <2>3
  <2>5. GreatestOr0(S) \in 1..N
    BY <2>4
  <2>6. GreatestOr0(S) \in 0..N /\ GreatestOr0(S) # 0
    BY <2>5
  <2> QED BY <1>2, <2>4, <2>6
<1> QED BY <1>1, <1>2

(* The greatest is known by what it is.                                     *)
LEMMA GreatestIs ==
  ASSUME NEW N \in Nat, NEW S, S \subseteq 1..N, NEW g \in S, \A m \in S : m <= g
  PROVE  GreatestOr0(S) = g
<1>1. GreatestOr0(S) \in S /\ g <= GreatestOr0(S) /\ GreatestOr0(S) <= g
  <2>1. S # {}
    OBVIOUS
  <2> QED BY <2>1, GreatestOrNone
<1>2. GreatestOr0(S) \in 1..N /\ g \in 1..N
  BY <1>1
<1> QED BY <1>1, <1>2

-----------------------------------------------------------------------------
(* Sequences of anything.                                                   *)
IsSeq(s) == \E S : s \in Seq(S)

LEMMA SeqIs ==
  ASSUME NEW s, IsSeq(s)
  PROVE  Len(s) \in Nat /\ DOMAIN s = 1..Len(s)
  BY LenProperties DEF IsSeq

LEMMA SeqSame ==
  ASSUME NEW s, IsSeq(s), NEW t, IsSeq(t), Len(s) = Len(t), \A i \in 1..Len(s) : s[i] = t[i]
  PROVE  s = t
<1>1. PICK S : s \in Seq(S)
  BY DEF IsSeq
<1>2. PICK T : t \in Seq(T)
  BY DEF IsSeq
<1> DEFINE U == S \cup T
<1>3. s \in Seq(U) /\ t \in Seq(U)
  <2>1. S \subseteq U /\ T \subseteq U
    OBVIOUS
  <2> HIDE DEF U
  <2> QED BY <1>1, <1>2, <2>1, SeqMonotonic
<1> HIDE DEF U
<1> QED BY <1>3, SeqEqual

LEMMA Joined ==
  ASSUME NEW s, IsSeq(s), NEW t, IsSeq(t)
  PROVE  /\ IsSeq(s \o t)
         /\ Len(s) \in Nat /\ Len(t) \in Nat /\ Len(s \o t) = Len(s) + Len(t)
         /\ \A i \in 1..Len(s) : (s \o t)[i] = s[i]
         /\ \A i \in 1..Len(t) : (s \o t)[Len(s) + i] = t[i]
<1>1. PICK S : s \in Seq(S)
  BY DEF IsSeq
<1>2. PICK T : t \in Seq(T)
  BY DEF IsSeq
<1> DEFINE U == S \cup T
<1>3. s \in Seq(U) /\ t \in Seq(U)
  <2>1. S \subseteq U /\ T \subseteq U
    OBVIOUS
  <2> HIDE DEF U
  <2> QED BY <1>1, <1>2, <2>1, SeqMonotonic
<1> HIDE DEF U
<1>4. /\ s \o t \in Seq(U) /\ Len(s \o t) = Len(s) + Len(t)
      /\ \A i \in 1..Len(s) + Len(t) : (s \o t)[i] = IF i <= Len(s) THEN s[i] ELSE t[i - Len(s)]
      /\ Len(s) \in Nat /\ Len(t) \in Nat
  BY <1>3, ConcatProperties, LenProperties
<1> QED BY <1>4 DEF IsSeq

LEMMA Cut ==
  ASSUME NEW s, IsSeq(s), NEW a \in Nat, NEW z \in Nat, 1 <= a, a <= z + 1, z <= Len(s)
  PROVE  /\ IsSeq(SubSeq(s, a, z)) /\ Len(SubSeq(s, a, z)) = z - a + 1
         /\ \A i \in 1..z - a + 1 : SubSeq(s, a, z)[i] = s[a + i - 1]
<1> DEFINE S == {s[i] : i \in a..z}
<1>1. a \in Int /\ z \in Int /\ \A i \in a..z : s[i] \in S
  OBVIOUS
<1> HIDE DEF S
<1>2. /\ SubSeq(s, a, z) \in Seq(S)
      /\ Len(SubSeq(s, a, z)) = IF a <= z THEN z - a + 1 ELSE 0
      /\ \A i \in 1..z - a + 1 : SubSeq(s, a, z)[i] = s[a + i - 1]
  BY <1>1, SubSeqProperties
<1>3. Len(SubSeq(s, a, z)) = z - a + 1
  BY <1>2
<1> QED BY <1>2, <1>3 DEF IsSeq

IsJoin(u, s, t) ==
  /\ IsSeq(u) /\ Len(s) \in Nat /\ Len(t) \in Nat /\ Len(u) = Len(s) + Len(t)
  /\ \A i \in 1..Len(s) : u[i] = s[i]
  /\ \A i \in 1..Len(t) : u[Len(s) + i] = t[i]

LEMMA JoinedAs ==
  ASSUME NEW s, NEW t, IsSeq(s), IsSeq(t)
  PROVE  IsJoin(s \o t, s, t)
  BY Joined DEF IsJoin

(* fmLines.replace: what is before stays where it is, what is behind moves.  *)
LEMMA ReplacedIs ==
  ASSUME NEW t, IsSeq(t), NEW a \in Nat, NEW z \in Nat, 1 <= a, a <= z + 1, z <= Len(t),
         NEW lines, IsSeq(lines)
  PROVE  LET u == Replaced(t, a, z, lines)
             d == Len(lines) - (z - a + 1)
         IN  /\ IsSeq(u) /\ Len(u) = Len(t) + d /\ Len(u) \in Nat /\ DOMAIN u = 1..Len(u)
             /\ \A k \in 1..a - 1 : u[k] = t[k]
             /\ \A i \in 1..Len(lines) : u[a - 1 + i] = lines[i]
             /\ \A k \in z + 1..Len(t) : u[k + d] = t[k]
<1> DEFINE n == Len(t)
           l == Len(lines)
           p == SubSeq(t, 1, a - 1)
           s == SubSeq(t, z + 1, n)
           u == Replaced(t, a, z, lines)
           d == l - (z - a + 1)
<1>1. n \in Nat /\ l \in Nat
  BY SeqIs
<1>2. IsSeq(p) /\ Len(p) = a - 1 /\ \A i \in 1..a - 1 : p[i] = t[i]
  <2>1. 1 \in Nat /\ a - 1 \in Nat /\ 1 <= a - 1 + 1 /\ a - 1 <= n
    BY <1>1
  <2> QED BY <2>1, Cut
<1>3. IsSeq(s) /\ Len(s) = n - z /\ \A i \in 1..n - z : s[i] = t[z + i]
  <2>1. z + 1 \in Nat /\ n \in Nat /\ 1 <= z + 1 /\ z + 1 <= n + 1 /\ n <= Len(t)
    BY <1>1
  <2> QED BY <2>1, Cut
<1>4. u = (p \o lines) \o s
  BY DEF Replaced
<1> HIDE DEF p, s, u
<1> DEFINE q == p \o lines
<1>5. /\ IsSeq(q) /\ Len(q) = a - 1 + l
      /\ \A i \in 1..a - 1 : q[i] = p[i]
      /\ \A i \in 1..l : q[a - 1 + i] = lines[i]
  <2>1. IsJoin(q, p, lines)
    BY <1>2, JoinedAs
  <2> HIDE DEF q
  <2> QED BY <1>2, <2>1 DEF IsJoin
<1>6. /\ IsSeq(u) /\ Len(u) = a - 1 + l + (n - z)
      /\ \A i \in 1..a - 1 + l : u[i] = q[i]
      /\ \A i \in 1..n - z : u[a - 1 + l + i] = s[i]
  <2>1. IsJoin(u, q, s)
    BY <1>3, <1>4, <1>5, JoinedAs
  <2> HIDE DEF q
  <2> QED BY <1>3, <1>5, <2>1 DEF IsJoin
<1> HIDE DEF q
<1>7. Len(u) = n + d /\ Len(u) \in Nat /\ DOMAIN u = 1..Len(u)
  BY <1>1, <1>6, SeqIs
<1>8. \A k \in 1..a - 1 : u[k] = t[k]
  <2> SUFFICES ASSUME NEW k \in 1..a - 1 PROVE u[k] = t[k]
    OBVIOUS
  <2>1. k \in 1..a - 1 + l
    BY <1>1
  <2> QED BY <2>1, <1>2, <1>5, <1>6
<1>9. \A i \in 1..l : u[a - 1 + i] = lines[i]
  <2> SUFFICES ASSUME NEW i \in 1..l PROVE u[a - 1 + i] = lines[i]
    OBVIOUS
  <2>1. a - 1 + i \in 1..a - 1 + l
    BY <1>1
  <2> QED BY <2>1, <1>5, <1>6
<1>10. \A k \in z + 1..n : u[k + d] = t[k]
  <2> SUFFICES ASSUME NEW k \in z + 1..n PROVE u[k + d] = t[k]
    OBVIOUS
  <2>1. k - z \in 1..n - z /\ a - 1 + l + (k - z) = k + d /\ z + (k - z) = k
    BY <1>1
  <2>2. u[a - 1 + l + (k - z)] = s[k - z] /\ s[k - z] = t[z + (k - z)]
    BY <2>1, <1>3, <1>6
  <2> QED BY <2>1, <2>2
<1> QED BY <1>6, <1>7, <1>8, <1>9, <1>10 DEF u
-----------------------------------------------------------------------------
(* Which lines a scalar goes on in.                                         *)
Lines(t) == IsSeq(t) /\ IsText(t)

OpensScalar(l) == l.is = "key" /\ l.form \in {"bar", "keep", "quote"}
Carried(t, o, n) ==
  IF n = 1 THEN 0
  ELSE IF o[n - 1] # 0 THEN o[n - 1] ELSE IF OpensScalar(t[n - 1]) THEN n - 1 ELSE 0
GoesOn(t, b, n) ==
  IF t[b].form = "quote" THEN n - 1 = b \/ t[n - 1].is # "close"
  ELSE t[n].is = "blank" \/ t[n].ind > t[b].ind
OpenedAt(t, o, n) ==
  LET b == Carried(t, o, n) IN IF b # 0 /\ GoesOn(t, b, n) THEN b ELSE 0

(* Opened is what its recursion says.                                       *)
LEMMA OpenedIs ==
  ASSUME NEW t, Lines(t)
  PROVE  \A n \in 1..Len(t) : Opened(t)[n] = OpenedAt(t, Opened(t), n)
<1>1. Len(t) \in Nat /\ DOMAIN t = 1..Len(t)
  BY DEF Lines, IsText
<1> DEFINE N == Len(t)
           D(k) == {n \in 1..Len(t) : n <= k}
           Body(f, n) == OpenedAt(t, f, n)
           Is(f, k) == f = [n \in D(k) |-> Body(f, n)]
<1>2. ASSUME NEW n \in 1..Len(t), NEW f, NEW g, \A m \in 1..Len(t) : m < n => f[m] = g[m]
      PROVE  Body(f, n) = Body(g, n)
  <2>1. n = 1 \/ (n - 1 \in 1..Len(t) /\ n - 1 < n)
    BY <1>1
  <2>2. n = 1 \/ f[n - 1] = g[n - 1]
    BY <1>2, <2>1
  <2>3. Carried(t, f, n) = Carried(t, g, n)
    BY <2>2 DEF Carried
  <2> QED BY <2>3 DEF OpenedAt
<1>3. Opened(t) = CHOOSE f : Is(f, N)
  <2>1. D(N) = DOMAIN t
    BY <1>1
  <2> QED BY <2>1 DEF Opened, OpenedAt, Carried, GoesOn, OpensScalar
<1> HIDE DEF Body, Is
<1>4. \E f : Is(f, N)
  <2> DEFINE S == {k \in Nat : \E f : Is(f, k)}
  <2>1. ASSUME NEW k \in Nat, 0..k - 1 \subseteq S
        PROVE  \E f : Is(f, k)
    <3>1. CASE k = 0
      <4> DEFINE h == [n \in D(k) |-> Body(<<>>, n)]
      <4>1. D(k) = {}
        BY <1>1, <3>1
      <4>2. Is(h, k)
        BY <4>1 DEF Is
      <4> HIDE DEF h
      <4> QED BY <4>2
    <3>2. CASE k # 0
      <4>1. k - 1 \in 0..k - 1 /\ k - 1 \in Nat
        BY <3>2
      <4>2. PICK g : Is(g, k - 1)
        BY <2>1, <4>1
      <4> DEFINE h == [n \in D(k) |-> IF n = k THEN Body(g, k) ELSE g[n]]
      <4>3. \A n \in D(k) : n = k \/ n \in D(k - 1)
        BY <1>1, <4>1
      <4>4. \A n \in D(k - 1) : n \in D(k) /\ n # k /\ n < k
        BY <1>1, <4>1
      <4>5. g = [n \in D(k - 1) |-> Body(g, n)]
        BY <4>2 DEF Is
      <4>6. \A n \in D(k - 1) : h[n] = g[n] /\ g[n] = Body(g, n)
        BY <4>4, <4>5
      <4>7. k \in D(k) => h[k] = Body(g, k)
        OBVIOUS
      <4>8. h = [n \in D(k) |-> h[n]]
        OBVIOUS
      <4> HIDE DEF h
      <4>9. ASSUME NEW n \in D(k) PROVE Body(h, n) = Body(g, n)
        <5>1. n \in 1..Len(t) /\ \A m \in 1..Len(t) : m < n => m \in D(k - 1)
          BY <1>1, <4>1
        <5>2. \A m \in 1..Len(t) : m < n => h[m] = g[m]
          BY <4>6, <5>1
        <5> HIDE DEF D
        <5> QED BY <1>2, <5>1, <5>2
      <4>10. \A n \in D(k) : h[n] = Body(h, n)
        BY <4>3, <4>6, <4>7, <4>9
      <4>11. Is(h, k)
        BY <4>8, <4>10 DEF Is
      <4> QED BY <4>11
    <3> QED BY <3>1, <3>2
  <2>2. \A k \in Nat : 0 <= k /\ 0..k - 1 \subseteq S => k \in S
    BY <2>1
  <2>3. \A k \in Nat : 0 <= k => k \in S
    <3> HIDE DEF S
    <3> QED BY <2>2, Upward
  <2> QED BY <1>1, <2>3
<1>5. Is(Opened(t), N)
  BY <1>3, <1>4
<1> QED BY <1>1, <1>5 DEF Is, Body
(* A line goes on with the scalar of a key, as all lines between them do.    *)
ScalarOf(t, o, n) ==
  /\ o[n] \in Nat /\ o[n] < n
  /\ o[n] # 0 => /\ OpensScalar(t[o[n]]) /\ o[o[n]] = 0
                 /\ \A k \in 1..n : o[n] < k => o[k] = o[n]

LEMMA ScalarsAreWhole ==
  ASSUME NEW t, Lines(t), NEW n \in 1..Len(t)
  PROVE  ScalarOf(t, Opened(t), n)
<1> DEFINE o == Opened(t)
           S == {k \in Nat : k <= Len(t) => ScalarOf(t, o, k)}
<1>1. Len(t) \in Nat /\ \A k \in 1..Len(t) : o[k] = OpenedAt(t, o, k)
  BY OpenedIs DEF Lines, IsText
<1> HIDE DEF o
<1>2. ASSUME NEW k \in Nat, 1 <= k, 1..k - 1 \subseteq S, k <= Len(t)
      PROVE  ScalarOf(t, o, k)
  <2>1. o[k] = OpenedAt(t, o, k)
    BY <1>1, <1>2
  <2>2. CASE o[k] = 0
    BY <2>2, <1>2 DEF ScalarOf
  <2>3. CASE o[k] # 0
    <3>1. o[k] = Carried(t, o, k) /\ k # 1
      BY <2>1, <2>3 DEF OpenedAt, Carried
    <3> DEFINE j == k - 1
    <3>2. j \in Nat /\ j >= 1 /\ j \in 1..k - 1 /\ j <= Len(t) /\ j < k
      BY <1>1, <1>2, <3>1
    <3>3. ScalarOf(t, o, j)
      BY <1>2, <3>2
    <3>4. \A i \in 1..k : i = k \/ i \in 1..j
      BY <1>2
    <3>5. o[k] = IF o[j] # 0 THEN o[j] ELSE IF OpensScalar(t[j]) THEN j ELSE 0
      BY <3>1 DEF Carried
    <3> HIDE DEF j
    <3>6. CASE o[j] # 0
      <4>1. o[k] = o[j] /\ o[j] \in Nat /\ o[j] < j /\ OpensScalar(t[o[j]]) /\ o[o[j]] = 0
        BY <3>3, <3>5, <3>6 DEF ScalarOf
      <4>2. \A i \in 1..k : o[k] < i => o[i] = o[k]
        BY <3>3, <3>4, <3>6, <4>1 DEF ScalarOf
      <4> QED BY <3>2, <4>1, <4>2, <1>2 DEF ScalarOf
    <3>7. CASE o[j] = 0
      <4>1. o[k] = j /\ OpensScalar(t[j])
        BY <2>3, <3>5, <3>7
      <4>2. \A i \in 1..k : j < i => i = k
        BY <3>2, <3>4
      <4> QED BY <3>2, <3>7, <4>1, <4>2 DEF ScalarOf
    <3> QED BY <3>6, <3>7
  <2> QED BY <2>2, <2>3
<1>3. \A k \in Nat : 1 <= k /\ 1..k - 1 \subseteq S => k \in S
  BY <1>2
<1>4. n \in S
  <2>1. 1 \in Nat /\ n \in Nat /\ 1 <= n
    OBVIOUS
  <2> HIDE DEF S
  <2> QED BY <1>3, <2>1, Upward
<1> QED BY <1>1, <1>4 DEF o

LEMMA LiveKeysAre ==
  ASSUME NEW t, Lines(t)
  PROVE  /\ LiveKeys(t) \subseteq 1..Len(t)
         /\ \A n \in LiveKeys(t) : n \in Nat /\ 1 <= n /\ n <= Len(t)
         /\ \A n \in 1..Len(t) : n \in LiveKeys(t) <=> t[n].is = "key" /\ Opened(t)[n] = 0
  BY DEF LiveKeys, Lines, IsText
-----------------------------------------------------------------------------
(* Paths of keys.                                                           *)
KeyName == STRING
KeyPath == Seq(KeyName)

LEMMA PrefixIs ==
  ASSUME NEW p \in KeyPath, NEW q \in KeyPath
  PROVE  /\ Len(p) \in Nat /\ Len(q) \in Nat
         /\ IsPrefix(p, q) <=> Len(p) <= Len(q) /\ \A i \in 1..Len(p) : p[i] = q[i]
<1>1. IsSeq(p) /\ IsSeq(q) /\ Len(p) \in Nat /\ Len(q) \in Nat /\ 1 \in Nat
  BY LenProperties DEF IsSeq, KeyPath
<1>2. ASSUME Len(p) <= Len(q)
      PROVE  SubSeq(p, 1, Len(p)) = SubSeq(q, 1, Len(p)) <=> \A i \in 1..Len(p) : p[i] = q[i]
  <2> DEFINE l == Len(p)
             a == SubSeq(p, 1, l)
             b == SubSeq(q, 1, l)
  <2>1. l \in Nat /\ 1 <= l + 1 /\ l <= Len(p) /\ l <= Len(q)
    BY <1>1, <1>2
  <2>2. IsSeq(a) /\ Len(a) = l - 1 + 1 /\ \A i \in 1..l - 1 + 1 : a[i] = p[1 + i - 1]
    BY <1>1, <2>1, Cut
  <2>3. IsSeq(b) /\ Len(b) = l - 1 + 1 /\ \A i \in 1..l - 1 + 1 : b[i] = q[1 + i - 1]
    BY <1>1, <2>1, Cut
  <2> HIDE DEF a, b, l
  <2>4. Len(a) = l /\ Len(b) = l /\ \A i \in 1..l : a[i] = p[i] /\ b[i] = q[i]
    BY <2>1, <2>2, <2>3
  <2>5. a = b => \A i \in 1..l : p[i] = q[i]
    BY <2>4
  <2>6. (\A i \in 1..l : p[i] = q[i]) => a = b
    <3> SUFFICES ASSUME \A i \in 1..l : p[i] = q[i] PROVE a = b
      OBVIOUS
    <3>1. \A i \in 1..Len(a) : a[i] = b[i]
      BY <2>4
    <3> QED BY <2>2, <2>3, <2>4, <3>1, SeqSame
  <2> QED BY <2>5, <2>6 DEF l, a, b
<1> QED BY <1>1, <1>2 DEF IsPrefix

LEMMA PrefixOrder ==
  ASSUME NEW p \in KeyPath, NEW q \in KeyPath, NEW r \in KeyPath
  PROVE  /\ IsPrefix(p, p)
         /\ IsPrefix(p, q) /\ IsPrefix(q, r) => IsPrefix(p, r)
         /\ IsPrefix(p, r) /\ IsPrefix(q, r) /\ Len(p) <= Len(q) => IsPrefix(p, q)
         /\ IsPrefix(p, q) /\ Len(p) = Len(q) => p = q
         /\ IsPrefix(p, q) /\ p # q => Len(p) < Len(q)
<1>1. /\ Len(p) \in Nat /\ Len(q) \in Nat /\ Len(r) \in Nat
      /\ IsPrefix(p, q) <=> Len(p) <= Len(q) /\ \A i \in 1..Len(p) : p[i] = q[i]
      /\ IsPrefix(p, r) <=> Len(p) <= Len(r) /\ \A i \in 1..Len(p) : p[i] = r[i]
      /\ IsPrefix(q, r) <=> Len(q) <= Len(r) /\ \A i \in 1..Len(q) : q[i] = r[i]
      /\ IsPrefix(p, p) <=> Len(p) <= Len(p) /\ \A i \in 1..Len(p) : p[i] = p[i]
  BY PrefixIs
<1>2. Len(p) <= Len(q) => \A i \in 1..Len(p) : i \in 1..Len(q)
  BY <1>1
<1>3. IsPrefix(p, q) /\ Len(p) = Len(q) => p = q
  BY <1>1, SeqEqual DEF KeyPath
<1> QED BY <1>1, <1>2, <1>3

LEMMA AppendIs ==
  ASSUME NEW S, NEW fs \in Seq(S), NEW g \in S
  PROVE  /\ Append(fs, g) \in Seq(S) /\ Len(fs) \in Nat /\ Len(Append(fs, g)) = Len(fs) + 1
         /\ \A i \in 1..Len(fs) : Append(fs, g)[i] = fs[i]
         /\ Append(fs, g)[Len(fs) + 1] = g
<1>1. /\ Append(fs, g) \in Seq(S) /\ Len(Append(fs, g)) = Len(fs) + 1
      /\ \A i \in 1..Len(fs) : Append(fs, g)[i] = fs[i]
      /\ Append(fs, g)[Len(fs) + 1] = g
  BY AppendProperties
<1> QED BY <1>1, LenProperties

LEMMA PrefixOfLonger ==
  ASSUME NEW p \in KeyPath, NEW q \in KeyPath, NEW k \in KeyName
  PROVE  /\ Append(q, k) \in KeyPath /\ Len(q) \in Nat /\ Len(Append(q, k)) = Len(q) + 1
         /\ Append(q, k) # <<>> /\ IsPrefix(q, Append(q, k))
         /\ IsPrefix(p, Append(q, k)) <=> p = Append(q, k) \/ IsPrefix(p, q)
<1> DEFINE a == Append(q, k)
<1>1. /\ a \in KeyPath /\ Len(a) = Len(q) + 1 /\ Len(q) \in Nat /\ Len(p) \in Nat
      /\ \A i \in 1..Len(q) : a[i] = q[i]
  <2>1. /\ a \in Seq(KeyName) /\ Len(a) = Len(q) + 1 /\ Len(q) \in Nat
        /\ \A i \in 1..Len(q) : a[i] = q[i]
    BY AppendIs DEF KeyPath
  <2>2. Len(p) \in Nat
    BY LenProperties DEF KeyPath
  <2> QED BY <2>1, <2>2 DEF KeyPath
<1>2. a # <<>>
  <2>1. Len(<<>>) = 0
    BY EmptySeq
  <2> HIDE DEF a
  <2> QED BY <1>1, <2>1
<1> HIDE DEF a
<1>3. IsPrefix(q, a)
  BY <1>1, PrefixIs
<1>4. p = a \/ IsPrefix(p, q) => IsPrefix(p, a)
  BY <1>1, <1>3, PrefixOrder
<1>5. ASSUME IsPrefix(p, a), p # a PROVE IsPrefix(p, q)
  <2>1. Len(p) < Len(a)
    BY <1>1, <1>5, PrefixOrder
  <2>2. Len(p) <= Len(q)
    BY <1>1, <2>1
  <2> QED BY <1>1, <1>3, <1>5, <2>2, PrefixOrder
<1> QED BY <1>1, <1>2, <1>3, <1>4, <1>5 DEF a

LEMMA OneKey ==
  ASSUME NEW k \in KeyName
  PROVE  <<k>> \in KeyPath /\ Len(<<k>>) = 1 /\ <<k>> # <<>> /\ <<k>>[1] = k
<1>3. <<k>> \in KeyPath
  <2>1. <<k>> \in Seq({k})
    OBVIOUS
  <2>2. {k} \subseteq KeyName
    OBVIOUS
  <2>3. <<k>> \in Seq(KeyName)
    BY <2>1, <2>2, SeqMonotonic
  <2> QED BY <2>3 DEF KeyPath
<1>4. Len(<<k>>) = 1 /\ <<k>>[1] = k
  OBVIOUS
<1>5. <<k>> # <<>>
  <2>1. Len(<<>>) = 0
    BY EmptySeq
  <2> DEFINE a == <<k>>
  <2>2. Len(a) = 1
    OBVIOUS
  <2> HIDE DEF a
  <2>3. a # <<>>
    BY <2>1, <2>2
  <2> QED BY <2>3 DEF a
<1> QED BY <1>3, <1>4, <1>5

-----------------------------------------------------------------------------
(* What a key stands in.                                                    *)
LEMMA ParentIs ==
  ASSUME NEW t, Lines(t), NEW n \in LiveKeys(t)
  PROVE  LET p == Parent(t, LiveKeys(t), n)
         IN  /\ p \in Nat /\ p < n
             /\ p # 0 => p \in LiveKeys(t) /\ t[p].ind < t[n].ind
             /\ \A m \in LiveKeys(t) : p < m /\ m < n => t[n].ind <= t[m].ind
<1> DEFINE keys == LiveKeys(t)
           S == {m \in keys : m < n /\ t[m].ind < t[n].ind}
           p == Parent(t, keys, n)
<1>1. /\ Len(t) \in Nat /\ n \in Nat /\ 1 <= n
      /\ \A m \in keys : m \in 1..Len(t) /\ m \in Nat /\ 1 <= m /\ t[m].ind \in Nat
  BY LiveKeysAre DEF Lines, IsText, IsLine
<1>2. S \subseteq 1..Len(t) /\ p = GreatestOr0(S)
  BY <1>1 DEF Parent
<1>3. p \in 0..Len(t) /\ (p = 0 <=> S = {}) /\ (S # {} => p \in S) /\ \A m \in S : m <= p
  <2> HIDE DEF S, p
  <2> QED BY <1>1, <1>2, GreatestOrNone
<1> HIDE DEF p, keys
<1>4. p \in Nat /\ p < n /\ (p # 0 => p \in keys /\ t[p].ind < t[n].ind)
  BY <1>1, <1>3
<1>5. ASSUME NEW m \in keys, p < m, m < n PROVE t[n].ind <= t[m].ind
  <2>1. m \notin S
    BY <1>1, <1>3, <1>4, <1>5
  <2> QED BY <1>1, <1>5, <2>1 DEF keys
<1> QED BY <1>4, <1>5 DEF p, keys

LEMMA ParentIsThat ==
  ASSUME NEW t, Lines(t), NEW n \in LiveKeys(t), NEW p \in Nat, p < n,
         p # 0 => p \in LiveKeys(t) /\ t[p].ind < t[n].ind,
         \A m \in LiveKeys(t) : p < m /\ m < n => t[n].ind <= t[m].ind
  PROVE  Parent(t, LiveKeys(t), n) = p
<1> DEFINE keys == LiveKeys(t)
           q == Parent(t, keys, n)
<1>1. /\ q \in Nat /\ q < n
      /\ q # 0 => q \in keys /\ t[q].ind < t[n].ind
      /\ \A m \in keys : q < m /\ m < n => t[n].ind <= t[m].ind
  BY ParentIs
<1>2. n \in Nat /\ \A m \in keys : m \in Nat /\ 1 <= m /\ t[m].ind \in Nat
  BY LiveKeysAre DEF Lines, IsText, IsLine
<1> HIDE DEF q, keys
<1>3. ~ (p < q)
  <2> SUFFICES ASSUME p < q PROVE FALSE
    OBVIOUS
  <2>1. q # 0 /\ q \in keys
    BY <1>1
  <2>2. t[n].ind <= t[q].ind /\ t[q].ind < t[n].ind /\ t[q].ind \in Nat /\ t[n].ind \in Nat
    BY <1>1, <1>2, <2>1 DEF keys
  <2> QED BY <2>2
<1>4. ~ (q < p)
  <2> SUFFICES ASSUME q < p PROVE FALSE
    OBVIOUS
  <2>1. p # 0 /\ p \in keys
    BY <1>1 DEF keys
  <2>2. t[n].ind <= t[p].ind /\ t[p].ind < t[n].ind /\ t[p].ind \in Nat /\ t[n].ind \in Nat
    BY <1>1, <1>2, <2>1 DEF keys
  <2> QED BY <2>2
<1>5. p = q
  BY <1>1, <1>3, <1>4
<1> QED BY <1>5 DEF q, keys

PathAt(t, keys, path, n) ==
  LET p == Parent(t, keys, n) IN IF p = 0 THEN <<t[n].key>> ELSE Append(path[p], t[n].key)

(* Paths is what its recursion says.                                        *)
LEMMA PathsAre ==
  ASSUME NEW t, Lines(t)
  PROVE  \A n \in LiveKeys(t) :
           Paths(t, LiveKeys(t))[n] = PathAt(t, LiveKeys(t), Paths(t, LiveKeys(t)), n)
<1> DEFINE keys == LiveKeys(t)
<1>1. Len(t) \in Nat /\ \A n \in keys : n \in Nat /\ 1 <= n /\ n <= Len(t)
  BY LiveKeysAre DEF Lines, IsText
<1> DEFINE N == Len(t)
           D(k) == {n \in keys : n <= k}
           Body(f, n) == PathAt(t, keys, f, n)
           Is(f, k) == f = [n \in D(k) |-> Body(f, n)]
<1>2. ASSUME NEW n \in keys, NEW f, NEW g, \A m \in keys : m < n => f[m] = g[m]
      PROVE  Body(f, n) = Body(g, n)
  <2>1. Parent(t, keys, n) = 0 \/ (Parent(t, keys, n) \in keys /\ Parent(t, keys, n) < n)
    BY ParentIs
  <2> QED BY <1>2, <2>1 DEF PathAt
<1>3. Paths(t, keys) = CHOOSE f : Is(f, N)
  <2>1. D(N) = keys
    BY <1>1
  <2> QED BY <2>1 DEF Paths, PathAt
<1> HIDE DEF Body, Is
<1>4. \E f : Is(f, N)
  <2> DEFINE S == {k \in Nat : \E f : Is(f, k)}
  <2>1. ASSUME NEW k \in Nat, 0..k - 1 \subseteq S
        PROVE  \E f : Is(f, k)
    <3>1. CASE k = 0
      <4> DEFINE h == [n \in D(k) |-> Body(<<>>, n)]
      <4>1. D(k) = {}
        BY <1>1, <3>1
      <4>2. Is(h, k)
        BY <4>1 DEF Is
      <4> HIDE DEF h
      <4> QED BY <4>2
    <3>2. CASE k # 0
      <4>1. k - 1 \in 0..k - 1 /\ k - 1 \in Nat
        BY <3>2
      <4>2. PICK g : Is(g, k - 1)
        BY <2>1, <4>1
      <4> DEFINE h == [n \in D(k) |-> IF n = k THEN Body(g, k) ELSE g[n]]
      <4>3. \A n \in D(k) : n = k \/ n \in D(k - 1)
        BY <1>1, <4>1
      <4>4. \A n \in D(k - 1) : n \in D(k) /\ n # k /\ n < k
        BY <1>1, <4>1
      <4>5. g = [n \in D(k - 1) |-> Body(g, n)]
        BY <4>2 DEF Is
      <4>6. \A n \in D(k - 1) : h[n] = g[n] /\ g[n] = Body(g, n)
        BY <4>4, <4>5
      <4>7. k \in D(k) => h[k] = Body(g, k)
        OBVIOUS
      <4>8. h = [n \in D(k) |-> h[n]]
        OBVIOUS
      <4> HIDE DEF h
      <4>9. ASSUME NEW n \in D(k) PROVE Body(h, n) = Body(g, n)
        <5>1. n \in keys /\ \A m \in keys : m < n => m \in D(k - 1)
          BY <1>1, <4>1
        <5>2. \A m \in keys : m < n => h[m] = g[m]
          BY <4>6, <5>1
        <5> HIDE DEF D
        <5> QED BY <1>2, <5>1, <5>2
      <4>10. \A n \in D(k) : h[n] = Body(h, n)
        BY <4>3, <4>6, <4>7, <4>9
      <4>11. Is(h, k)
        BY <4>8, <4>10 DEF Is
      <4> QED BY <4>11
    <3> QED BY <3>1, <3>2
  <2>2. \A k \in Nat : 0 <= k /\ 0..k - 1 \subseteq S => k \in S
    BY <2>1
  <2>3. \A k \in Nat : 0 <= k => k \in S
    <3> HIDE DEF S
    <3> QED BY <2>2, Upward
  <2> QED BY <1>1, <2>3
<1>5. Is(Paths(t, keys), N)
  BY <1>3, <1>4
<1>6. \A n \in keys : n \in D(N)
  BY <1>1
<1> QED BY <1>5, <1>6 DEF Is, Body
(* What the proofs speak of, of a text.                                     *)
PathIn(t, n) == Paths(t, LiveKeys(t))[n]
ParentIn(t, n) == Parent(t, LiveKeys(t), n)
OwnerIn(t, m) == GreatestOr0({k \in LiveKeys(t) : k < m})
ItemsIn(t, n) == ItemsOf(t, LiveKeys(t), n)
EndIn(t, n) == End(t, LiveKeys(t), n)

LEMMA OwnerIs ==
  ASSUME NEW t, Lines(t), NEW m \in Nat
  PROVE  LET k == OwnerIn(t, m)
         IN  /\ k \in Nat /\ (k # 0 => k \in LiveKeys(t) /\ k < m)
             /\ \A j \in LiveKeys(t) : j < m => j <= k
<1> DEFINE S == {j \in LiveKeys(t) : j < m}
           k == OwnerIn(t, m)
<1>1. Len(t) \in Nat /\ S \subseteq 1..Len(t) /\ k = GreatestOr0(S)
  BY LiveKeysAre DEF Lines, IsText, OwnerIn
<1>2. k \in 0..Len(t) /\ (k = 0 <=> S = {}) /\ (S # {} => k \in S) /\ \A j \in S : j <= k
  <2> HIDE DEF S, k
  <2> QED BY <1>1, GreatestOrNone
<1> QED BY <1>1, <1>2

LEMMA OwnerIsThat ==
  ASSUME NEW t, Lines(t), NEW m \in Nat, NEW k \in LiveKeys(t), k < m,
         \A j \in LiveKeys(t) : j < m => j <= k
  PROVE  OwnerIn(t, m) = k
<1> DEFINE S == {j \in LiveKeys(t) : j < m}
<1>1. Len(t) \in Nat /\ S \subseteq 1..Len(t) /\ k \in S /\ \A j \in S : j <= k
  BY LiveKeysAre DEF Lines, IsText
<1>2. GreatestOr0(S) = k
  <2> HIDE DEF S
  <2> QED BY <1>1, GreatestIs
<1> QED BY <1>2 DEF OwnerIn

LEMMA ItemsAre ==
  ASSUME NEW t, Lines(t), NEW n
  PROVE  \A m : m \in ItemsIn(t, n) <=> /\ m \in 1..Len(t) /\ t[m].is = "item"
                                        /\ Opened(t)[m] = 0 /\ OwnerIn(t, m) = n
  BY DEF ItemsIn, ItemsOf, OwnerIn, Lines, IsText

(* Every key has a path, of the keys it stands in.                          *)
PathAsSaid(t, n) ==
  /\ PathIn(t, n) \in KeyPath /\ PathIn(t, n) # <<>>
  /\ t[n].key \in KeyName
  /\ ParentIn(t, n) = 0 => PathIn(t, n) = <<t[n].key>>
  /\ ParentIn(t, n) # 0 => PathIn(t, n) = Append(PathIn(t, ParentIn(t, n)), t[n].key)

LEMMA PathIs ==
  ASSUME NEW t, Lines(t)
  PROVE  \A n \in LiveKeys(t) : PathAsSaid(t, n)
<1> DEFINE S == {n \in Nat : n \in LiveKeys(t) => PathAsSaid(t, n)}
<1>1. \A n \in LiveKeys(t) : n \in Nat /\ 1 <= n /\ t[n].key \in KeyName
  BY LiveKeysAre DEF Lines, IsText, IsLine, KeyName
<1>2. ASSUME NEW n \in Nat, 0 <= n, 0..n - 1 \subseteq S, n \in LiveKeys(t)
      PROVE  PathAsSaid(t, n)
  <2> DEFINE p == ParentIn(t, n)
             a == PathIn(t, n)
  <2>1. p \in Nat /\ p < n /\ (p # 0 => p \in LiveKeys(t))
    BY <1>2, ParentIs DEF ParentIn
  <2>2. a = IF p = 0 THEN <<t[n].key>> ELSE Append(PathIn(t, p), t[n].key)
    BY <1>2, PathsAre DEF PathAt, PathIn, ParentIn
  <2>3. CASE p = 0
    <3>1. a = <<t[n].key>> /\ t[n].key \in KeyName
      BY <1>1, <1>2, <2>2, <2>3
    <3> HIDE DEF a, p
    <3>2. a \in KeyPath /\ a # <<>>
      BY <3>1, OneKey
    <3> QED BY <3>1, <3>2, <2>3 DEF PathAsSaid, a, p
  <2>4. CASE p # 0
    <3>1. a = Append(PathIn(t, p), t[n].key) /\ t[n].key \in KeyName
      BY <1>1, <1>2, <2>2, <2>4
    <3>2. p \in 0..n - 1 /\ p \in LiveKeys(t)
      BY <2>1, <2>4
    <3>3. p \in S
      BY <1>2, <3>2
    <3>4. PathIn(t, p) \in KeyPath
      BY <3>2, <3>3 DEF PathAsSaid
    <3> HIDE DEF a, p
    <3>5. a \in KeyPath /\ a # <<>>
      BY <3>1, <3>4, PrefixOfLonger
    <3> QED BY <3>1, <3>5, <2>4 DEF PathAsSaid, a, p
  <2> QED BY <2>3, <2>4
<1>3. \A n \in Nat : 0 <= n /\ 0..n - 1 \subseteq S => n \in S
  BY <1>2
<1>4. \A n \in Nat : 0 <= n => n \in S
  <2> HIDE DEF S
  <2> QED BY <1>3, Upward
<1> QED BY <1>1, <1>4

-----------------------------------------------------------------------------
(* What stands under a key: the keys that follow it, as long as they are     *)
(* deeper.                                                                  *)
Under(t, n, m) ==
  /\ n \in LiveKeys(t) /\ m \in LiveKeys(t) /\ n < m
  /\ \A k \in LiveKeys(t) : n < k /\ k <= m => t[n].ind < t[k].ind

LEMMA ParentOfUnder ==
  ASSUME NEW t, Lines(t), NEW m \in LiveKeys(t)
  PROVE  LET p == ParentIn(t, m)
         IN  /\ p \in Nat /\ p < m /\ (p # 0 => Under(t, p, m))
             /\ \A n \in LiveKeys(t) : Under(t, n, m) => p = n \/ Under(t, n, p)
<1> DEFINE p == ParentIn(t, m)
<1>1. /\ p \in Nat /\ p < m
      /\ p # 0 => p \in LiveKeys(t) /\ t[p].ind < t[m].ind
      /\ \A k \in LiveKeys(t) : p < k /\ k < m => t[m].ind <= t[k].ind
  BY ParentIs DEF ParentIn
<1>2. m \in Nat /\ \A k \in LiveKeys(t) : k \in Nat /\ 1 <= k /\ t[k].ind \in Nat
  BY LiveKeysAre DEF Lines, IsText, IsLine
<1> HIDE DEF p
<1>3. ASSUME p # 0 PROVE Under(t, p, m)
  <2>1. t[p].ind \in Nat /\ t[m].ind \in Nat
    BY <1>1, <1>2, <1>3
  <2>2. ASSUME NEW k \in LiveKeys(t), p < k, k <= m PROVE t[p].ind < t[k].ind
    <3>1. k = m \/ k < m
      BY <1>2, <2>2
    <3>2. k < m => t[m].ind <= t[k].ind /\ t[k].ind \in Nat
      BY <1>1, <1>2, <2>2
    <3> QED BY <1>1, <1>3, <2>1, <3>1, <3>2
  <2> QED BY <1>1, <1>3, <2>2 DEF Under
<1>4. ASSUME NEW n \in LiveKeys(t), Under(t, n, m) PROVE p = n \/ Under(t, n, p)
  <2>1. n \in Nat /\ 1 <= n /\ n < m /\ t[n].ind < t[m].ind /\ t[n].ind \in Nat /\ t[m].ind \in Nat
    BY <1>2, <1>4 DEF Under
  <2>2. ~ (p < n)
    <3> SUFFICES ASSUME p < n PROVE FALSE
      OBVIOUS
    <3>1. t[m].ind <= t[n].ind
      BY <1>1, <2>1
    <3> QED BY <2>1, <3>1
  <2>3. p # 0 /\ p \in LiveKeys(t) /\ (p = n \/ n < p)
    BY <1>1, <2>1, <2>2
  <2>4. ASSUME NEW k \in LiveKeys(t), n < k, k <= p PROVE t[n].ind < t[k].ind
    <3>1. k \in Nat
      BY <1>2
    <3>2. k <= m
      BY <1>1, <1>2, <2>4, <3>1
    <3> QED BY <1>4, <2>4, <3>2 DEF Under
  <2> QED BY <2>3, <2>4 DEF Under
<1> QED BY <1>1, <1>3, <1>4 DEF p

LEMMA UnderUnder ==
  ASSUME NEW t, Lines(t), NEW n, NEW k, NEW m, Under(t, n, k), Under(t, k, m)
  PROVE  Under(t, n, m)
<1>1. \A i \in LiveKeys(t) : i \in Nat /\ t[i].ind \in Nat
  BY LiveKeysAre DEF Lines, IsText, IsLine
<1>2. n \in LiveKeys(t) /\ k \in LiveKeys(t) /\ m \in LiveKeys(t) /\ n < k /\ k < m
  BY DEF Under
<1>3. n < m
  BY <1>1, <1>2
<1>4. ASSUME NEW i \in LiveKeys(t), n < i, i <= m PROVE t[n].ind < t[i].ind
  <2>1. i <= k => t[n].ind < t[i].ind
    BY <1>4 DEF Under
  <2>2. k < i => t[k].ind < t[i].ind
    BY <1>4 DEF Under
  <2>3. t[n].ind < t[k].ind
    BY <1>1, <1>2 DEF Under
  <2>4. /\ i \in Nat /\ k \in Nat
        /\ t[i].ind \in Nat /\ t[k].ind \in Nat /\ t[n].ind \in Nat
    BY <1>1, <1>2
  <2> QED BY <2>1, <2>2, <2>3, <2>4
<1> QED BY <1>2, <1>3, <1>4 DEF Under

(* What stands under a key has its path before its own.                     *)
LEMMA UnderIsBelow ==
  ASSUME NEW t, Lines(t), NEW n \in LiveKeys(t)
  PROVE  \A m \in LiveKeys(t) : Under(t, n, m) =>
            IsPrefix(PathIn(t, n), PathIn(t, m)) /\ Len(PathIn(t, n)) < Len(PathIn(t, m))
<1> DEFINE Holds(m) == IsPrefix(PathIn(t, n), PathIn(t, m)) /\ Len(PathIn(t, n)) < Len(PathIn(t, m))
           S == {m \in Nat : m \in LiveKeys(t) /\ Under(t, n, m) => Holds(m)}
<1>1. \A m \in LiveKeys(t) : m \in Nat
  BY LiveKeysAre
<1>2. ASSUME NEW m \in Nat, 0 <= m, 0..m - 1 \subseteq S, m \in LiveKeys(t), Under(t, n, m)
      PROVE  Holds(m)
  <2> DEFINE p == ParentIn(t, m)
             a == PathIn(t, m)
             b == PathIn(t, p)
             q == PathIn(t, n)
  <2>1. /\ p \in Nat /\ p < m /\ (p # 0 => p \in LiveKeys(t))
        /\ p = n \/ Under(t, n, p)
    BY <1>2, ParentOfUnder DEF Under
  <2>2. p # 0 /\ p \in LiveKeys(t) /\ p \in 0..m - 1
    BY <1>1, <1>2, <2>1, LiveKeysAre DEF Under
  <2>3. PathAsSaid(t, m) /\ PathAsSaid(t, p) /\ PathAsSaid(t, n)
    BY <1>2, <2>2, PathIs
  <2>4. a = Append(b, t[m].key) /\ b \in KeyPath /\ a \in KeyPath /\ q \in KeyPath /\ t[m].key \in KeyName
    BY <2>2, <2>3 DEF PathAsSaid
  <2>5. IsPrefix(q, b) /\ Len(q) <= Len(b)
    <3>1. CASE p = n
      <4>1. IsPrefix(q, q) /\ Len(q) \in Nat
        BY <2>4, PrefixOrder, PrefixIs
      <4> QED BY <3>1, <4>1
    <3>2. CASE p # n
      <4>1. p \in S
        BY <1>2, <2>2
      <4>2. Holds(p)
        BY <4>1, <2>1, <2>2, <3>2
      <4>3. Len(q) \in Nat /\ Len(b) \in Nat
        BY <2>4, PrefixIs
      <4> QED BY <4>2, <4>3
    <3> QED BY <3>1, <3>2
  <2> HIDE DEF a, b, q, p
  <2>6. IsPrefix(q, a) /\ Len(a) = Len(b) + 1 /\ Len(b) \in Nat /\ Len(q) \in Nat
    BY <2>4, <2>5, PrefixOfLonger, PrefixIs
  <2>7. IsPrefix(q, a) /\ Len(q) < Len(a)
    BY <2>5, <2>6
  <2> QED BY <2>7 DEF a, q
<1> HIDE DEF Holds
<1>3. \A m \in Nat : 0 <= m /\ 0..m - 1 \subseteq S => m \in S
  BY <1>2
<1>4. \A m \in Nat : 0 <= m => m \in S
  <2> HIDE DEF S
  <2> QED BY <1>3, Upward
<1>5. \A m \in LiveKeys(t) : Under(t, n, m) => Holds(m)
  BY <1>1, <1>4
<1> QED BY <1>5 DEF Holds

(* And what has a path has a key at every step of it.                       *)
LEMMA AboveIsThere ==
  ASSUME NEW t, Lines(t), NEW q \in KeyPath, q # <<>>
  PROVE  \A m \in LiveKeys(t) : IsPrefix(q, PathIn(t, m)) =>
            \E n \in LiveKeys(t) : PathIn(t, n) = q /\ (n = m \/ Under(t, n, m))
<1> DEFINE Holds(m) == \E n \in LiveKeys(t) : PathIn(t, n) = q /\ (n = m \/ Under(t, n, m))
           S == {m \in Nat : m \in LiveKeys(t) /\ IsPrefix(q, PathIn(t, m)) => Holds(m)}
<1>1. \A m \in LiveKeys(t) : m \in Nat
  BY LiveKeysAre
<1>2. ASSUME NEW m \in Nat, 0 <= m, 0..m - 1 \subseteq S, m \in LiveKeys(t), IsPrefix(q, PathIn(t, m))
      PROVE  Holds(m)
  <2> DEFINE p == ParentIn(t, m)
             a == PathIn(t, m)
             b == PathIn(t, p)
             k == t[m].key
  <2>1. p \in Nat /\ p < m /\ (p # 0 => Under(t, p, m))
    BY <1>2, ParentOfUnder
  <2>2. /\ a \in KeyPath /\ k \in KeyName
        /\ p = 0 => a = <<k>>
        /\ p # 0 => a = Append(b, k)
    BY <1>2, PathIs DEF PathAsSaid
  <2>3. CASE q = a
    BY <1>2, <2>3
  <2>4. CASE q # a
    <3>1. p # 0
      <4> SUFFICES ASSUME p = 0 PROVE FALSE
        OBVIOUS
      <4>1. a = <<k>> /\ Len(q) < Len(a)
        <5>1. a \in KeyPath /\ IsPrefix(q, a)
          BY <1>2, <2>2
        <5> HIDE DEF a, k
        <5> QED BY <5>1, <2>2, <2>4, PrefixOrder
      <4>2. Len(a) = 1
        <5> HIDE DEF a, k
        <5> QED BY <4>1, <2>2, OneKey
      <4>3. Len(q) \in Nat
        BY PrefixIs
      <4>4. Len(q) = 0
        BY <4>1, <4>2, <4>3
      <4> QED BY <4>4, EmptySeq DEF KeyPath
    <3>2. p \in LiveKeys(t) /\ p \in 0..m - 1 /\ b \in KeyPath
      <4>1. p \in LiveKeys(t)
        BY <2>1, <3>1 DEF Under
      <4>2. b \in KeyPath
        BY <4>1, PathIs DEF PathAsSaid
      <4>3. p \in 0..m - 1
        BY <2>1
      <4> QED BY <4>1, <4>2, <4>3
    <3>3. IsPrefix(q, b)
      <4>1. IsPrefix(q, a) /\ a = Append(b, k) /\ k \in KeyName /\ b \in KeyPath
        BY <1>2, <2>2, <3>1, <3>2
      <4> HIDE DEF a, b, k
      <4> QED BY <4>1, <2>4, PrefixOfLonger
    <3>4. Holds(p)
      <4>1. p \in S
        BY <1>2, <3>2
      <4> QED BY <4>1, <3>2, <3>3
    <3>5. PICK n \in LiveKeys(t) : PathIn(t, n) = q /\ (n = p \/ Under(t, n, p))
      BY <3>4
    <3>6. Under(t, p, m)
      BY <2>1, <3>1
    <3> HIDE DEF p
    <3>7. Under(t, n, m)
      BY <3>5, <3>6, UnderUnder
    <3> QED BY <3>5, <3>7
  <2> QED BY <2>3, <2>4
<1> HIDE DEF Holds
<1>3. \A m \in Nat : 0 <= m /\ 0..m - 1 \subseteq S => m \in S
  BY <1>2
<1>4. \A m \in Nat : 0 <= m => m \in S
  <2> HIDE DEF S
  <2> QED BY <1>3, Upward
<1>5. \A m \in LiveKeys(t) : IsPrefix(q, PathIn(t, m)) => Holds(m)
  BY <1>1, <1>4
<1> QED BY <1>5 DEF Holds

LEMMA LinesAre ==
  ASSUME NEW t, Lines(t)
  PROVE  /\ Len(t) \in Nat /\ DOMAIN t = 1..Len(t) /\ IsSeq(t)
         /\ \A m \in 1..Len(t) : m \in Nat /\ IsLine(t[m]) /\ t[m].ind \in Nat
         /\ \A n \in LiveKeys(t) : /\ n \in Nat /\ 1 <= n /\ n <= Len(t) /\ n \in 1..Len(t)
                                   /\ t[n].ind \in Nat /\ t[n].is = "key" /\ Opened(t)[n] = 0
<1>1. Len(t) \in Nat /\ DOMAIN t = 1..Len(t) /\ IsSeq(t) /\ \A m \in 1..Len(t) : IsLine(t[m])
  BY DEF Lines, IsText
<1>2. ASSUME NEW m \in 1..Len(t) PROVE m \in Nat /\ t[m].ind \in Nat
  <2>1. IsLine(t[m])
    BY <1>1
  <2>2. t[m].ind \in Nat
    BY <2>1 DEF IsLine
  <2> QED BY <2>2
<1> QED BY <1>1, <1>2, LiveKeysAre

-----------------------------------------------------------------------------
(* A well-formed text, part by part.                                        *)
TextOwned(t) ==
  \A n \in 1..Len(t) : t[n].is \in {"text", "close"} => Opened(t)[n] # 0
ItemsBelong(t) ==
  \A n \in 1..Len(t) : t[n].is = "item" /\ Opened(t)[n] = 0 =>
     /\ OwnerIn(t, n) # 0 /\ t[OwnerIn(t, n)].form = "nest"
     /\ t[OwnerIn(t, n)].ind <= t[n].ind
     /\ \A m \in ItemsIn(t, OwnerIn(t, n)) : t[m].ind = t[n].ind
KeysBelong(t) ==
  \A n \in LiveKeys(t) :
     /\ ParentIn(t, n) = 0 => t[n].ind = 0
     /\ ParentIn(t, n) # 0 => t[ParentIn(t, n)].form = "nest" /\ ItemsIn(t, ParentIn(t, n)) = {}
     /\ \A m \in LiveKeys(t) : ParentIn(t, m) = ParentIn(t, n) => t[m].ind = t[n].ind
PathsDiffer(t) ==
  \A n, m \in LiveKeys(t) : PathIn(t, m) = PathIn(t, n) => m = n
QuotesClose(t) ==
  \A n \in LiveKeys(t) : t[n].form = "quote" =>
     \E m \in 1..Len(t) : t[m].is = "close" /\ Opened(t)[m] = n

LEMMA WellFormedIs ==
  ASSUME NEW t, Lines(t)
  PROVE  WellFormed(t) <=> /\ TextOwned(t) /\ ItemsBelong(t) /\ KeysBelong(t)
                           /\ PathsDiffer(t) /\ QuotesClose(t)
<1> DEFINE D == DOMAIN t
           o == Opened(t)
           keys == LiveKeys(t)
           path == Paths(t, keys)
           A == \A n \in D : t[n].is \in {"text", "close"} => o[n] # 0
           B == \A n \in D : t[n].is = "item" /\ o[n] = 0 =>
                  LET k == GreatestOr0({m \in keys : m < n})
                  IN  /\ k # 0 /\ t[k].form = "nest" /\ t[k].ind <= t[n].ind
                      /\ \A m \in ItemsOf(t, keys, k) : t[m].ind = t[n].ind
           C == \A n \in keys :
                  LET p == Parent(t, keys, n)
                  IN  /\ p = 0 => t[n].ind = 0
                      /\ p # 0 => t[p].form = "nest" /\ ItemsOf(t, keys, p) = {}
                      /\ \A m \in Children(t, keys, p) : t[m].ind = t[n].ind
                      /\ \A m \in keys : path[m] = path[n] => m = n
           E == \A n \in keys : t[n].form = "quote" => \E m \in D : t[m].is = "close" /\ o[m] = n
<1>1. WellFormed(t) <=> A /\ B /\ C /\ E
  BY DEF WellFormed
<1>2. D = 1..Len(t)
  BY DEF Lines, IsText
<1>3. A <=> TextOwned(t)
  BY <1>2 DEF TextOwned
<1>4. B <=> ItemsBelong(t)
  BY <1>2 DEF ItemsBelong, OwnerIn, ItemsIn
<1>5. C <=> KeysBelong(t) /\ PathsDiffer(t)
  BY DEF KeysBelong, PathsDiffer, ParentIn, ItemsIn, PathIn, Children
<1>6. E <=> QuotesClose(t)
  BY <1>2 DEF QuotesClose
<1> QED BY <1>1, <1>3, <1>4, <1>5, <1>6

(* When no key is given twice, the keys below a path are those under its key. *)
LEMMA BelowIsUnder ==
  ASSUME NEW t, Lines(t), PathsDiffer(t), NEW n \in LiveKeys(t), NEW m \in LiveKeys(t)
  PROVE  IsPrefix(PathIn(t, n), PathIn(t, m)) <=> n = m \/ Under(t, n, m)
<1>1. PathIn(t, n) \in KeyPath /\ PathIn(t, n) # <<>> /\ PathIn(t, m) \in KeyPath
  BY PathIs DEF PathAsSaid
<1>2. ASSUME IsPrefix(PathIn(t, n), PathIn(t, m)) PROVE n = m \/ Under(t, n, m)
  <2>1. PICK k \in LiveKeys(t) : PathIn(t, k) = PathIn(t, n) /\ (k = m \/ Under(t, k, m))
    BY <1>1, <1>2, AboveIsThere
  <2>2. k = n
    BY <2>1 DEF PathsDiffer
  <2> QED BY <2>1, <2>2
<1>3. n = m => IsPrefix(PathIn(t, n), PathIn(t, m))
  BY <1>1, PrefixOrder
<1>4. Under(t, n, m) => IsPrefix(PathIn(t, n), PathIn(t, m))
  BY UnderIsBelow
<1> QED BY <1>2, <1>3, <1>4

-----------------------------------------------------------------------------
(* entryLines.                                                              *)
Passed(t, n, m) == t[m].is = "blank" \/ (t[m].is = "hash" /\ t[m].ind <= t[n].ind)
Breaks(t, n, compact, m) ==
  /\ ~ Passed(t, n, m)
  /\ \/ t[m].ind < t[n].ind
     \/ t[m].ind = t[n].ind /\ ~ (compact /\ t[m].is = "item")
EndsAt(t, n, compact, e) ==
  /\ e \in Nat /\ n <= e /\ e <= Len(t)
  /\ \A m \in n + 1..e : ~ Breaks(t, n, compact, m)
  /\ e = n \/ ~ Passed(t, n, e)
  /\ \E z \in e..Len(t) : /\ \A m \in e + 1..z : Passed(t, n, m)
                          /\ z = Len(t) \/ Breaks(t, n, compact, z + 1)

LEMMA EntryEndIs ==
  ASSUME NEW t, Lines(t), NEW n \in 1..Len(t), NEW compact
  PROVE  /\ EndsAt(t, n, compact, EntryEnd(t, n, compact))
         /\ \A e : EndsAt(t, n, compact, e) => e = EntryEnd(t, n, compact)
<1> DEFINE N == Len(t)
           B == {m \in 1..N : m > n /\ Breaks(t, n, compact, m)}
           z == IF B = {} THEN N ELSE Lowest(B) - 1
           S == {n} \cup {m \in n + 1..z : ~ Passed(t, n, m)}
           e == EntryEnd(t, n, compact)
<1>1. N \in Nat /\ DOMAIN t = 1..N /\ n \in Nat /\ 1 <= n /\ n <= N
  BY DEF Lines, IsText
<1> HIDE DEF N
<1>2. e = Greatest(S)
  <2> DEFINE shallow(m) == t[m].is = "hash" /\ t[m].ind <= t[n].ind
             breaks == {m \in DOMAIN t : /\ m > n /\ t[m].is # "blank" /\ ~ shallow(m)
                                  /\ \/ t[m].ind < t[n].ind
                                     \/ t[m].ind = t[n].ind /\ ~ (compact /\ t[m].is = "item")}
             before == IF breaks = {} THEN Len(t) ELSE (CHOOSE m \in breaks : \A k \in breaks : m <= k) - 1
  <2>1. e = Greatest({n} \cup {m \in (n + 1)..before : t[m].is # "blank" /\ ~ shallow(m)})
    BY DEF EntryEnd
  <2>2. breaks = B
    BY <1>1 DEF Breaks, Passed, N
  <2>3. before = z
    <3>1. before = IF breaks = {} THEN N ELSE Lowest(breaks) - 1
      BY DEF Lowest, N
    <3> HIDE DEF breaks, B, before
    <3> QED BY <2>2, <3>1
  <2>4. \A m : (t[m].is # "blank" /\ ~ shallow(m)) <=> ~ Passed(t, n, m)
    BY DEF Passed
  <2> HIDE DEF before, z, shallow
  <2>5. {n} \cup {m \in (n + 1)..before : t[m].is # "blank" /\ ~ shallow(m)} = S
    BY <2>3, <2>4
  <2> QED BY <2>1, <2>5
<1> HIDE DEF e
<1>3. /\ z \in Nat /\ n <= z /\ z <= N
      /\ \A m \in n + 1..z : ~ Breaks(t, n, compact, m)
      /\ z = N \/ Breaks(t, n, compact, z + 1)
  <2>1. CASE B = {}
    <3>1. z = N
      BY <2>1
    <3>2. \A m \in n + 1..N : m \in 1..N /\ m > n
      BY <1>1
    <3> HIDE DEF z
    <3> QED BY <1>1, <2>1, <3>1, <3>2
  <2>2. CASE B # {}
    <3> DEFINE b == Lowest(B)
    <3>1. B \subseteq Nat
      OBVIOUS
    <3>2. b \in B /\ \A m \in B : b <= m
      <4> HIDE DEF B
      <4> QED BY <2>2, <3>1, LowestNumber
    <3>3. z = b - 1
      BY <2>2
    <3>4. b \in Nat /\ n < b /\ b <= N /\ Breaks(t, n, compact, b)
      BY <1>1, <3>2
    <3> HIDE DEF b, z
    <3>5. z \in Nat /\ n <= z /\ z <= N /\ z + 1 = b
      BY <1>1, <3>3, <3>4
    <3>6. ASSUME NEW m \in n + 1..z PROVE ~ Breaks(t, n, compact, m)
      <4>1. m \in 1..N /\ m > n /\ m < b
        BY <1>1, <3>4, <3>5
      <4> QED BY <3>2, <3>4, <4>1
    <3> QED BY <3>4, <3>5, <3>6
  <2> QED BY <2>1, <2>2
<1> HIDE DEF z
<1>4. z \in Nat /\ n <= z /\ z <= N
  BY <1>3
<1>5. /\ e \in S /\ \A m \in S : m <= e
  <2>1. \A m \in S : m \in 0..N
    BY <1>1, <1>4
  <2>2. n \in S
    OBVIOUS
  <2> HIDE DEF S
  <2>3. S \subseteq 0..N /\ S # {}
    BY <2>1, <2>2
  <2> QED BY <1>1, <1>2, <2>3, GreatestNumber
<1>6. \A m : m \in S <=> m = n \/ (m \in n + 1..z /\ ~ Passed(t, n, m))
  OBVIOUS
<1> HIDE DEF S
<1>7. e \in Nat /\ n <= e /\ e <= z /\ e <= N /\ (e = n \/ ~ Passed(t, n, e))
  <2>1. e = n \/ e \in n + 1..z
    BY <1>5, <1>6
  <2>2. e = n \/ ~ Passed(t, n, e)
    BY <1>5, <1>6
  <2>3. e \in Nat /\ n <= e /\ e <= z
    BY <1>1, <1>4, <2>1
  <2> QED BY <1>1, <1>4, <2>2, <2>3
<1>8. ASSUME NEW m \in e + 1..z PROVE Passed(t, n, m)
  <2>1. m \in n + 1..z /\ ~ (m <= e)
    BY <1>1, <1>4, <1>7
  <2>2. m \notin S
    BY <1>5, <2>1
  <2> QED BY <1>6, <2>1, <2>2
<1>9. EndsAt(t, n, compact, e)
  <2>1. e <= N /\ z \in e..N
    BY <1>1, <1>4, <1>7
  <2>2. \A m \in n + 1..e : m \in n + 1..z
    BY <1>1, <1>4, <1>7
  <2>3. \A m \in n + 1..e : ~ Breaks(t, n, compact, m)
    BY <1>3, <2>2
  <2> QED BY <1>3, <1>7, <1>8, <2>1, <2>3 DEF EndsAt, N
<1>10. ASSUME NEW f, EndsAt(t, n, compact, f) PROVE f = e
  <2>1. f \in Nat /\ n <= f /\ f <= N /\ (f = n \/ ~ Passed(t, n, f))
    BY <1>10 DEF EndsAt, N
  <2>2. \A m \in n + 1..f : ~ Breaks(t, n, compact, m)
    BY <1>10 DEF EndsAt
  <2>3. PICK y \in f..N : /\ \A m \in f + 1..y : Passed(t, n, m)
                          /\ y = N \/ Breaks(t, n, compact, y + 1)
    BY <1>10 DEF EndsAt, N
  <2>4. y \in Nat /\ f <= y /\ y <= N
    BY <1>1, <2>1
  <2>5. ASSUME f < e PROVE FALSE
    <3>1. ~ Passed(t, n, e)
      BY <1>1, <1>7, <2>1, <2>5
    <3>2. y < e
      <4>1. ~ (e \in f + 1..y)
        BY <2>3, <3>1
      <4> QED BY <1>7, <2>1, <2>4, <2>5, <4>1
    <3>3. y # N /\ y + 1 \in n + 1..z
      BY <1>1, <1>4, <1>7, <2>1, <2>4, <3>2
    <3>4. Breaks(t, n, compact, y + 1)
      BY <2>3, <3>3
    <3> QED BY <1>3, <3>3, <3>4
  <2>6. ASSUME e < f PROVE FALSE
    <3>1. ~ Passed(t, n, f)
      BY <1>1, <1>7, <2>1, <2>6
    <3>2. z < f
      <4>1. ~ (f \in e + 1..z)
        BY <1>8, <3>1
      <4> QED BY <1>4, <1>7, <2>1, <2>6, <4>1
    <3>3. z # N /\ z + 1 \in n + 1..f
      BY <1>1, <1>4, <2>1, <3>2
    <3>4. Breaks(t, n, compact, z + 1)
      BY <1>3, <3>3
    <3> QED BY <2>2, <3>3, <3>4
  <2> QED BY <1>7, <2>1, <2>5, <2>6
<1> QED BY <1>9, <1>10 DEF e

(* The entry of a key: what is under it, then lines that are no one's, then  *)
(* a key that is no deeper.                                                 *)
NoQuote(t, n) ==
  \A k \in LiveKeys(t) : n <= k /\ k <= EndIn(t, n) => t[k].form # "quote"
Followed(t, n, z) ==
  /\ z \in Nat /\ EndIn(t, n) <= z /\ z <= Len(t)
  /\ \A m \in EndIn(t, n) + 1..z :
        t[m].is = "blank" \/ (t[m].is = "hash" /\ t[m].ind <= t[n].ind /\ Opened(t)[m] = 0)
  /\ z = Len(t) \/ (z + 1 \in LiveKeys(t) /\ t[z + 1].ind <= t[n].ind)

LEMMA EntryIs ==
  ASSUME NEW t, Lines(t), NEW n \in LiveKeys(t)
  PROVE  /\ EndsAt(t, n, ItemsIn(t, n) # {}, EndIn(t, n))
         /\ EndIn(t, n) \in Nat /\ n <= EndIn(t, n) /\ EndIn(t, n) <= Len(t)
         /\ \A k \in LiveKeys(t) : n < k /\ k <= EndIn(t, n) => t[n].ind < t[k].ind
<1> DEFINE e == EndIn(t, n)
           compact == ItemsIn(t, n) # {}
<1>1. n \in 1..Len(t)
  BY LiveKeysAre
<1>2. EndsAt(t, n, compact, e)
  BY <1>1, EntryEndIs DEF EndIn, End, ItemsIn
<1>3. /\ e \in Nat /\ n <= e /\ e <= Len(t)
      /\ \A m \in n + 1..e : ~ Breaks(t, n, compact, m)
  BY <1>2 DEF EndsAt
<1> HIDE DEF e, compact
<1>4. ASSUME NEW k \in LiveKeys(t), n < k, k <= e PROVE t[n].ind < t[k].ind
  <2>1. k \in Nat /\ t[k].is = "key" /\ t[k].ind \in Nat /\ t[n].ind \in Nat
    BY LiveKeysAre DEF Lines, IsText, IsLine
  <2>2. k \in n + 1..e
    BY <1>1, <1>3, <1>4, <2>1
  <2>3. ~ Breaks(t, n, compact, k)
    BY <1>3, <2>2
  <2>4. ~ Passed(t, n, k) /\ t[k].is # "item"
    BY <2>1 DEF Passed
  <2>5. ~ (t[k].ind < t[n].ind) /\ t[k].ind # t[n].ind
    BY <2>3, <2>4 DEF Breaks
  <2> QED BY <2>1, <2>5
<1> QED BY <1>2, <1>3, <1>4 DEF e, compact

LEMMA NothingGoesOn ==
  ASSUME NEW t, Lines(t), NEW n \in LiveKeys(t), NoQuote(t, n),
         NEW m \in 1..Len(t), EndIn(t, n) < m, \A k \in EndIn(t, n) + 1..m - 1 : Passed(t, n, k),
         t[m].is # "blank", t[m].ind <= t[n].ind
  PROVE  Opened(t)[m] = 0
<1> DEFINE o == Opened(t)
           b == o[m]
           e == EndIn(t, n)
<1> SUFFICES ASSUME b # 0 PROVE FALSE
  OBVIOUS
<1>1. ScalarOf(t, o, m) /\ b = OpenedAt(t, o, m)
  BY ScalarsAreWhole, OpenedIs
<1>2. b \in Nat /\ b < m /\ OpensScalar(t[b]) /\ o[b] = 0 /\ \A k \in 1..m : b < k => o[k] = b
  BY <1>1 DEF ScalarOf
<1>3. /\ e \in Nat /\ n <= e /\ e <= Len(t)
      /\ \A k \in LiveKeys(t) : n < k /\ k <= e => t[n].ind < t[k].ind
  BY EntryIs
<1>4. n \in Nat /\ 1 <= n /\ t[n].ind \in Nat /\ o[n] = 0 /\ t[m].ind \in Nat
  BY LiveKeysAre DEF Lines, IsText, IsLine
<1> HIDE DEF e
<1>5. n <= b
  <2> SUFFICES ASSUME b < n PROVE FALSE
    BY <1>2, <1>4
  <2>1. n \in 1..m
    BY <1>3, <1>4 DEF e
  <2>2. o[n] = b
    BY <1>2, <2>1
  <2> QED BY <2>2, <1>4
<1>6. b \in 1..Len(t) /\ t[b].is = "key" /\ b \in LiveKeys(t)
  <2>1. b \in 1..Len(t)
    BY <1>2, <1>4, <1>5
  <2>2. t[b].is = "key"
    BY <1>2 DEF OpensScalar
  <2> QED BY <2>1, <2>2, <1>2, LiveKeysAre
<1>7. b <= e
  <2> SUFFICES ASSUME e < b PROVE FALSE
    BY <1>2, <1>3
  <2>1. b \in e + 1..m - 1
    BY <1>2, <1>3
  <2>2. Passed(t, n, b)
    BY <2>1 DEF e
  <2> QED BY <1>6, <2>2 DEF Passed
<1>8. t[b].form # "quote" /\ t[b].ind \in Nat /\ t[n].ind <= t[b].ind
  <2>1. t[b].form # "quote"
    BY <1>5, <1>6, <1>7 DEF NoQuote, e
  <2>2. t[b].ind \in Nat
    BY <1>6 DEF Lines, IsText, IsLine
  <2>3. n = b \/ n < b
    BY <1>2, <1>4, <1>5
  <2>4. n = b \/ t[n].ind < t[b].ind
    BY <1>3, <1>6, <1>7, <2>3
  <2> QED BY <1>4, <2>1, <2>2, <2>4
<1>9. GoesOn(t, b, m)
  BY <1>1 DEF OpenedAt
<1>10. t[m].is = "blank" \/ t[m].ind > t[b].ind
  BY <1>8, <1>9 DEF GoesOn
<1> QED BY <1>4, <1>8, <1>10

LEMMA EntryFollowed ==
  ASSUME NEW t, Lines(t), WellFormed(t), NEW n \in LiveKeys(t), NoQuote(t, n)
  PROVE  \E z : Followed(t, n, z)
<1> DEFINE e == EndIn(t, n)
           compact == ItemsIn(t, n) # {}
           o == Opened(t)
<1>1. /\ e \in Nat /\ n <= e /\ e <= Len(t) /\ EndsAt(t, n, compact, e)
      /\ \A k \in LiveKeys(t) : n < k /\ k <= e => t[n].ind < t[k].ind
  BY EntryIs
<1>2. PICK z \in e..Len(t) : /\ \A m \in e + 1..z : Passed(t, n, m)
                             /\ z = Len(t) \/ Breaks(t, n, compact, z + 1)
  BY <1>1 DEF EndsAt
<1>3. /\ n \in Nat /\ 1 <= n /\ t[n].ind \in Nat /\ Len(t) \in Nat
      /\ z \in Nat /\ e <= z /\ z <= Len(t)
  <2>1. n \in Nat /\ 1 <= n /\ t[n].ind \in Nat /\ Len(t) \in Nat
    BY LinesAre
  <2> HIDE DEF e
  <2> QED BY <1>1, <2>1
<1> HIDE DEF e, compact
<1>4. ASSUME NEW m \in 1..Len(t), e < m, m <= z + 1, t[m].is # "blank", t[m].ind <= t[n].ind
      PROVE  o[m] = 0
  <2>1. \A k \in e + 1..m - 1 : k \in e + 1..z
    BY <1>1, <1>3, <1>4
  <2>2. \A k \in e + 1..m - 1 : Passed(t, n, k)
    BY <1>2, <2>1
  <2> QED BY <1>4, <2>2, NothingGoesOn DEF e
<1>5. ASSUME NEW m \in e + 1..z, t[m].is # "blank"
      PROVE  t[m].is = "hash" /\ t[m].ind <= t[n].ind /\ o[m] = 0
  <2>1. t[m].is = "hash" /\ t[m].ind <= t[n].ind
    BY <1>2, <1>5 DEF Passed
  <2>2. m \in 1..Len(t) /\ e < m /\ m <= z + 1
    BY <1>1, <1>3
  <2> QED BY <1>4, <1>5, <2>1, <2>2
<1>6. ASSUME z # Len(t) PROVE z + 1 \in LiveKeys(t) /\ t[z + 1].ind <= t[n].ind
  <2> DEFINE m == z + 1
  <2>1. m \in 1..Len(t) /\ m \in Nat /\ e < m /\ m <= z + 1 /\ n < m
    BY <1>1, <1>3, <1>6
  <2>2. Breaks(t, n, compact, m) /\ IsLine(t[m])
    BY <1>2, <1>6, <2>1 DEF Lines, IsText
  <2> HIDE DEF m
  <2>3. t[m].is # "blank" /\ t[m].ind <= t[n].ind /\ t[m].is # "hash" /\ t[m].ind \in Nat
    <3>1. t[m].ind \in Nat
      BY <2>1, LinesAre
    <3>2. ~ Passed(t, n, m) /\ t[m].ind <= t[n].ind
      BY <1>3, <2>2, <3>1 DEF Breaks
    <3> QED BY <3>1, <3>2 DEF Passed
  <2>4. o[m] = 0
    BY <1>4, <2>1, <2>3
  <2>5. t[m].is \notin {"text", "close"}
    BY <2>1, <2>4, WellFormedIs DEF TextOwned
  <2>6. t[m].is # "item"
    <3> SUFFICES ASSUME t[m].is = "item" PROVE FALSE
      OBVIOUS
    <3> DEFINE k == OwnerIn(t, m)
    <3>1. k # 0 /\ t[k].ind <= t[m].ind
      BY <2>1, <2>4, WellFormedIs DEF ItemsBelong
    <3>2. k \in LiveKeys(t) /\ k < m /\ n <= k
      BY <2>1, <3>1, OwnerIs
    <3>3. k \in Nat /\ t[k].is = "key" /\ t[k].ind \in Nat
      BY <3>2, LiveKeysAre DEF Lines, IsText, IsLine
    <3>4. k <= e
      <4> SUFFICES ASSUME e < k PROVE FALSE
        BY <1>1, <3>3
      <4>1. k \in e + 1..z
        BY <1>1, <1>3, <3>2, <3>3 DEF m
      <4>2. Passed(t, n, k)
        BY <1>2, <4>1
      <4> QED BY <3>3, <4>2 DEF Passed
    <3>5. k = n
      <4>1. n < k => t[n].ind < t[k].ind
        BY <1>1, <3>2, <3>4
      <4>2. ~ (n < k)
        BY <1>3, <2>3, <3>1, <3>3, <4>1
      <4> QED BY <1>3, <3>2, <3>3, <4>2
    <3>6. m \in ItemsIn(t, n)
      BY <2>1, <2>4, <3>5, ItemsAre
    <3>7. compact
      BY <3>6 DEF compact
    <3>8. t[m].ind = t[n].ind
      BY <1>3, <2>3, <3>1, <3>5
    <3> QED BY <1>3, <2>2, <2>3, <3>7, <3>8 DEF Breaks
  <2>7. t[m].is = "key"
    BY <2>2, <2>3, <2>5, <2>6 DEF IsLine
  <2>8. m \in LiveKeys(t)
    BY <2>1, <2>4, <2>7, LiveKeysAre
  <2> QED BY <2>3, <2>8 DEF m
<1>7. Followed(t, n, z)
  BY <1>3, <1>5, <1>6 DEF Followed, e
<1> QED BY <1>7

-----------------------------------------------------------------------------
(* An edit: lines for a path of keys in place of an entry, or behind it.     *)
NewLine(L, ind, ks, i) ==
  IF i <= Len(ks)
  THEN /\ L[i].is = "key" /\ L[i].ind = ind + i - 1 /\ L[i].key = ks[i]
       /\ L[i].form \in {"plain", "nest", "flow"}
       /\ i < Len(ks) => L[i].form = "nest"
  ELSE L[i].is = "item" /\ L[i].ind = ind + Len(ks)
Block(L, ind, ks) ==
  /\ IsSeq(L) /\ Len(L) \in Nat /\ ks \in KeyPath /\ Len(ks) \in Nat /\ Len(ks) <= Len(L)
  /\ \A i \in 1..Len(L) : IsLine(L[i]) /\ NewLine(L, ind, ks, i)
  /\ Len(ks) < Len(L) => Len(ks) >= 1 /\ L[Len(ks)].form = "nest"
Splice(t, n, a, L, ks) ==
  /\ Lines(t) /\ WellFormed(t) /\ n \in LiveKeys(t) /\ NoQuote(t, n)
  /\ a = n \/ a = EndIn(t, n) + 1
  /\ Block(L, t[n].ind, ks)
After(t, n, a, L) == Replaced(t, a, EndIn(t, n), L)
Shift(t, n, a, L) == Len(L) - (EndIn(t, n) - a + 1)

(* Where the lines are.                                                     *)
Placed(t, u, a, e, d, L) ==
  /\ a \in Nat /\ e \in Nat /\ d \in Int /\ 1 <= a /\ a <= e + 1 /\ e <= Len(t)
  /\ Len(u) = Len(t) + d /\ a - 1 + Len(L) = e + d /\ Len(t) \in Nat /\ Len(L) \in Nat /\ Len(u) \in Nat
  /\ \A k \in 1..a - 1 : u[k] = t[k]
  /\ \A i \in 1..Len(L) : u[a - 1 + i] = L[i]
  /\ \A k \in e + 1..Len(t) : u[k + d] = t[k]

LEMMA AfterIs ==
  ASSUME NEW t, NEW n, NEW a, NEW L, NEW ks, Splice(t, n, a, L, ks)
  PROVE  /\ Placed(t, After(t, n, a, L), a, EndIn(t, n), Shift(t, n, a, L), L)
         /\ Lines(After(t, n, a, L))
<1> DEFINE u == After(t, n, a, L)
           e == EndIn(t, n)
           d == Shift(t, n, a, L)
<1>1. /\ Lines(t) /\ n \in LiveKeys(t) /\ (a = n \/ a = e + 1)
      /\ Len(L) \in Nat /\ IsSeq(L) /\ \A i \in 1..Len(L) : IsLine(L[i])
  BY DEF Splice, Block
<1>2. /\ Len(t) \in Nat /\ IsSeq(t) /\ \A m \in 1..Len(t) : IsLine(t[m])
      /\ n \in Nat /\ 1 <= n
  BY <1>1, LinesAre
<1>3. e \in Nat /\ n <= e /\ e <= Len(t)
  BY <1>1, EntryIs
<1> HIDE DEF e
<1>4. a \in Nat /\ 1 <= a /\ a <= e + 1 /\ d \in Int /\ d = Len(L) - (e - a + 1)
  BY <1>1, <1>2, <1>3 DEF Shift, e
<1> HIDE DEF d
<1>5. /\ IsSeq(u) /\ Len(u) = Len(t) + d /\ Len(u) \in Nat /\ DOMAIN u = 1..Len(u)
      /\ \A k \in 1..a - 1 : u[k] = t[k]
      /\ \A i \in 1..Len(L) : u[a - 1 + i] = L[i]
      /\ \A k \in e + 1..Len(t) : u[k + d] = t[k]
  <2> DEFINE v == Replaced(t, a, e, L)
             f == Len(L) - (e - a + 1)
  <2>1. u = v /\ d = f
    BY <1>4 DEF After, e
  <2>2. IsSeq(t) /\ IsSeq(L) /\ a \in Nat /\ e \in Nat /\ 1 <= a /\ a <= e + 1 /\ e <= Len(t)
    BY <1>1, <1>2, <1>3, <1>4
  <2>3. /\ IsSeq(v) /\ Len(v) = Len(t) + f /\ Len(v) \in Nat /\ DOMAIN v = 1..Len(v)
        /\ \A k \in 1..a - 1 : v[k] = t[k]
        /\ \A i \in 1..Len(L) : v[a - 1 + i] = L[i]
        /\ \A k \in e + 1..Len(t) : v[k + f] = t[k]
    BY <2>2, ReplacedIs
  <2> HIDE DEF u, v, f
  <2> QED BY <2>1, <2>3
<1> HIDE DEF u
<1>6. a - 1 + Len(L) = e + d
  BY <1>1, <1>3, <1>4
<1>7. Placed(t, u, a, e, d, L)
  BY <1>1, <1>2, <1>3, <1>4, <1>5, <1>6 DEF Placed
<1>8. ASSUME NEW j \in 1..Len(u) PROVE IsLine(u[j])
  <2>1. CASE j < a
    <3>1. j \in 1..a - 1 /\ j \in 1..Len(t)
      BY <1>2, <1>3, <1>4, <2>1
    <3> QED BY <1>2, <1>5, <3>1
  <2>2. CASE a <= j /\ j <= e + d
    <3> DEFINE i == j - (a - 1)
    <3>1. i \in 1..Len(L) /\ a - 1 + i = j
      BY <1>1, <1>4, <1>6, <2>2
    <3> HIDE DEF i
    <3> QED BY <1>1, <1>5, <3>1
  <2>3. CASE e + d < j
    <3> DEFINE k == j - d
    <3>1. k \in e + 1..Len(t) /\ k + d = j /\ k \in 1..Len(t)
      BY <1>2, <1>3, <1>4, <1>5, <2>3
    <3> HIDE DEF k
    <3> QED BY <1>2, <1>5, <3>1
  <2> QED BY <1>3, <1>4, <2>1, <2>2, <2>3
<1>9. Lines(u)
  BY <1>5, <1>8 DEF Lines, IsText
<1> QED BY <1>7, <1>9 DEF u, e, d

-----------------------------------------------------------------------------
(* What scalars do at the seams.                                            *)
Quiet(t, a, ind) ==
  LET b == Carried(t, Opened(t), a)
  IN  b # 0 => /\ b \in 1..a - 1
               /\ IF t[b].form = "quote" THEN a - 1 # b /\ t[a - 1].is = "close" ELSE ind <= t[b].ind

LEMMA QuietIs ==
  ASSUME NEW t, NEW n, NEW a, NEW L, NEW ks, Splice(t, n, a, L, ks)
  PROVE  Quiet(t, a, t[n].ind)
<1> DEFINE o == Opened(t)
           b == Carried(t, o, a)
           e == EndIn(t, n)
<1>1. Lines(t) /\ n \in LiveKeys(t) /\ NoQuote(t, n) /\ (a = n \/ a = e + 1)
  BY DEF Splice
<1>2. n \in Nat /\ 1 <= n /\ t[n].is = "key" /\ o[n] = 0 /\ t[n].ind \in Nat /\ n \in 1..Len(t) /\ Len(t) \in Nat
  BY <1>1, LinesAre
<1>3. /\ e \in Nat /\ n <= e /\ e <= Len(t)
      /\ \A k \in LiveKeys(t) : n < k /\ k <= e => t[n].ind < t[k].ind
  BY <1>1, EntryIs
<1> SUFFICES ASSUME b # 0
             PROVE  /\ b \in 1..a - 1
                    /\ IF t[b].form = "quote" THEN a - 1 # b /\ t[a - 1].is = "close" ELSE t[n].ind <= t[b].ind
  BY DEF Quiet
<1>4. a # 1
  BY DEF Carried
<1> DEFINE p == a - 1
<1>5. p \in 1..Len(t) /\ p \in Nat /\ 1 <= p /\ p < a /\ a \in Nat
  BY <1>1, <1>2, <1>3, <1>4
<1> HIDE DEF e
<1>6. b = IF o[p] # 0 THEN o[p] ELSE IF OpensScalar(t[p]) THEN p ELSE 0
  BY <1>4 DEF Carried
<1>7. ScalarOf(t, o, p)
  BY <1>1, <1>5, ScalarsAreWhole
<1>8. b \in 1..Len(t) /\ b <= p /\ b \in Nat /\ b >= 1 /\ OpensScalar(t[b]) /\ o[b] = 0 /\ \A k \in 1..p : b < k => o[k] = b
  <2>1. CASE o[p] # 0
    <3>1. b = o[p] /\ b \in Nat /\ b < p /\ OpensScalar(t[b]) /\ o[b] = 0 /\ \A k \in 1..p : b < k => o[k] = b
      BY <1>6, <1>7, <2>1 DEF ScalarOf
    <3> HIDE DEF b, p
    <3>2. b \in 1..Len(t) /\ b <= p /\ b >= 1
      BY <1>5, <3>1
    <3> QED BY <3>1, <3>2
  <2>2. CASE o[p] = 0
    <3>1. b = p /\ OpensScalar(t[p])
      BY <1>6, <2>2
    <3> HIDE DEF b, p
    <3> QED BY <1>5, <2>2, <3>1
  <2> QED BY <2>1, <2>2
<1> HIDE DEF b
<1>9. b \in 1..a - 1
  BY <1>5, <1>8
<1>10. b \in LiveKeys(t) /\ t[b].ind \in Nat
  <2>1. t[b].is = "key"
    BY <1>8 DEF OpensScalar
  <2> QED BY <1>1, <1>8, <2>1, LinesAre, LiveKeysAre
<1>11. CASE a = n
  <2>1. o[n] = OpenedAt(t, o, n)
    BY <1>1, <1>2, OpenedIs
  <2>2. ~ GoesOn(t, b, n)
    BY <1>2, <1>11, <2>1 DEF OpenedAt, b
  <2>3. t[b].form = "quote" => a - 1 # b /\ t[a - 1].is = "close"
    BY <1>11, <2>2 DEF GoesOn
  <2>4. t[b].form # "quote" => ~ (t[n].ind > t[b].ind)
    BY <1>11, <2>2 DEF GoesOn
  <2> QED BY <1>2, <1>9, <1>10, <2>3, <2>4
<1>12. CASE a = e + 1
  <2>1. p = e /\ n \in 1..p
    BY <1>2, <1>3, <1>12
  <2>2. n <= b
    <3> SUFFICES ASSUME b < n PROVE FALSE
      BY <1>2, <1>8
    <3>1. o[n] = b
      BY <1>8, <2>1
    <3> QED BY <1>2, <1>8, <3>1
  <2>3. t[b].form # "quote"
    BY <1>1, <1>8, <1>10, <2>1, <2>2 DEF NoQuote, e
  <2>4. t[n].ind <= t[b].ind
    <3>1. n = b \/ n < b
      BY <1>2, <1>8, <2>2
    <3>2. n < b => t[n].ind < t[b].ind
      BY <1>3, <1>8, <1>10, <2>1
    <3> QED BY <1>2, <1>10, <3>1, <3>2
  <2> QED BY <1>9, <2>3, <2>4
<1> QED BY <1>1, <1>11, <1>12

(* What is the same above goes on in the same scalars.                      *)
LEMMA OpenedAbove ==
  ASSUME NEW t, Lines(t), NEW u, Lines(u), NEW a \in Nat, 1 <= a, a <= Len(t) + 1, a <= Len(u) + 1,
         \A k \in 1..a - 1 : u[k] = t[k]
  PROVE  /\ \A k \in 1..a - 1 : Opened(u)[k] = Opened(t)[k]
         /\ Carried(u, Opened(u), a) = Carried(t, Opened(t), a)
<1> DEFINE o == Opened(t)
           w == Opened(u)
           S == {k \in Nat : k < a => w[k] = o[k]}
<1>1. Len(t) \in Nat /\ Len(u) \in Nat
  BY LinesAre
<1>2. ASSUME NEW k \in Nat, 1 <= k, 1..k - 1 \subseteq S, k <= a,
             k - 1 \in 1..a - 1 => ScalarOf(t, o, k - 1)
      PROVE  Carried(u, w, k) = Carried(t, o, k)
  <2>1. CASE k = 1
    BY <2>1 DEF Carried
  <2>2. CASE k # 1
    <3>1. k - 1 \in 1..k - 1 /\ k - 1 < a /\ k - 1 \in 1..a - 1
      BY <1>2, <2>2
    <3>2. w[k - 1] = o[k - 1] /\ u[k - 1] = t[k - 1]
      BY <1>2, <3>1
    <3> QED BY <3>2 DEF Carried
  <2> QED BY <2>1, <2>2
<1>3. ASSUME NEW k \in Nat, 1 <= k, k < a
      PROVE  /\ k \in 1..Len(t) /\ k \in 1..Len(u) /\ k \in 1..a - 1
             /\ ScalarOf(t, o, k)
  <2>1. k \in 1..Len(t) /\ k \in 1..Len(u) /\ k \in 1..a - 1
    BY <1>1, <1>3
  <2> QED BY <2>1, ScalarsAreWhole
<1>4. ASSUME NEW k \in Nat, 1 <= k, 1..k - 1 \subseteq S, k < a
      PROVE  w[k] = o[k]
  <2> DEFINE b == Carried(t, o, k)
  <2>1. k - 1 \in 1..a - 1 => ScalarOf(t, o, k - 1)
    BY <1>3, <1>4
  <2>2. Carried(u, w, k) = b
    BY <1>2, <1>4, <2>1
  <2>3. w[k] = OpenedAt(u, w, k) /\ o[k] = OpenedAt(t, o, k)
    BY <1>3, <1>4, OpenedIs
  <2>4. u[k] = t[k]
    BY <1>3, <1>4
  <2>5. b # 0 => k # 1 /\ b \in 1..a - 1 /\ k - 1 \in 1..a - 1
    <3> SUFFICES ASSUME b # 0 PROVE k # 1 /\ b \in 1..a - 1 /\ k - 1 \in 1..a - 1
      OBVIOUS
    <3>1. k # 1
      BY DEF Carried
    <3>2. k - 1 \in 1..a - 1
      BY <1>4, <3>1
    <3>3. o[k - 1] \in Nat /\ o[k - 1] < k - 1
      BY <2>1, <3>2 DEF ScalarOf
    <3>4. b = o[k - 1] \/ b = k - 1
      BY <3>1 DEF Carried
    <3> HIDE DEF b
    <3> QED BY <1>4, <3>1, <3>2, <3>3, <3>4
  <2>6. b # 0 => u[b] = t[b] /\ u[k - 1] = t[k - 1]
    BY <2>5
  <2>7. b # 0 => (GoesOn(u, b, k) <=> GoesOn(t, b, k))
    BY <2>4, <2>6 DEF GoesOn
  <2> HIDE DEF b
  <2>8. w[k] = IF b # 0 /\ GoesOn(u, b, k) THEN b ELSE 0
    BY <2>2, <2>3 DEF OpenedAt
  <2>9. o[k] = IF b # 0 /\ GoesOn(t, b, k) THEN b ELSE 0
    BY <2>3 DEF OpenedAt, b
  <2> QED BY <2>7, <2>8, <2>9
<1>5. \A k \in Nat : 1 <= k /\ 1..k - 1 \subseteq S => k \in S
  BY <1>4
<1>6. \A k \in Nat : 1 <= k => k \in S
  <2>1. 1 \in Nat
    OBVIOUS
  <2> HIDE DEF S
  <2> QED BY <1>5, <2>1, Upward
<1>7. \A k \in 1..a - 1 : w[k] = o[k]
  BY <1>6
<1>8. Carried(u, w, a) = Carried(t, o, a)
  <2>1. 1..a - 1 \subseteq S
    BY <1>6
  <2>2. a - 1 \in 1..a - 1 => ScalarOf(t, o, a - 1)
    BY <1>3
  <2> HIDE DEF S
  <2> QED BY <1>2, <2>1, <2>2
<1> QED BY <1>7, <1>8

(* Nothing that is kept begins or ends a scalar it did not.                 *)
ScalarsMoved(t, u, a, e, d) ==
  /\ \A k \in 1..a - 1 : Opened(u)[k] = Opened(t)[k]
  /\ \A k \in a..e + d : Opened(u)[k] = 0
  /\ \A m \in e + 1..Len(t) : t[m].is # "blank" =>
        \/ Opened(t)[m] = 0 /\ Opened(u)[m + d] = 0
        \/ Opened(t)[m] \in Nat /\ Opened(t)[m] > e /\ Opened(u)[m + d] = Opened(t)[m] + d

LEMMA OpenedOfNew ==
  ASSUME NEW t, NEW n, NEW a, NEW L, NEW ks, Splice(t, n, a, L, ks),
         NEW u, Lines(u), NEW e, NEW d, Placed(t, u, a, e, d, L),
         Carried(u, Opened(u), a) = Carried(t, Opened(t), a)
  PROVE  \A k \in a..e + d : Opened(u)[k] = 0 /\ ~ OpensScalar(u[k])
<1> DEFINE w == Opened(u)
           Good(k) == w[k] = 0 /\ ~ OpensScalar(u[k])
           S == {k \in Nat : k <= e + d => Good(k)}
           I == t[n].ind
           l == Len(L)
<1>1. /\ a \in Nat /\ e \in Nat /\ d \in Int /\ 1 <= a /\ a - 1 + l = e + d /\ l \in Nat
      /\ Len(u) \in Nat /\ Len(t) \in Nat /\ e <= Len(t) /\ Len(u) = Len(t) + d
      /\ \A i \in 1..l : u[a - 1 + i] = L[i]
      /\ \A k \in 1..a - 1 : u[k] = t[k]
  BY DEF Placed
<1>2. /\ Lines(t) /\ n \in LiveKeys(t) /\ Block(L, I, ks) /\ Quiet(t, a, I)
      /\ I \in Nat
  BY QuietIs, LinesAre DEF Splice
<1>3. ASSUME NEW k \in Nat, a <= k, k <= e + d
      PROVE  /\ k \in 1..Len(u) /\ ~ OpensScalar(u[k])
             /\ k = a => u[k].is # "blank" /\ u[k].ind <= I
  <2> DEFINE i == k - (a - 1)
  <2>1. i \in 1..l /\ a - 1 + i = k /\ k \in 1..Len(u) /\ (k = a => i = 1)
    BY <1>1, <1>3
  <2> HIDE DEF i, I
  <2>2. u[k] = L[i] /\ NewLine(L, I, ks, i)
    BY <1>1, <1>2, <2>1 DEF Block
  <2>3. ~ OpensScalar(u[k])
    BY <2>2 DEF NewLine, OpensScalar
  <2>4. ASSUME i = 1 PROVE u[k].is # "blank" /\ u[k].ind <= I
    <3>1. 1 <= Len(ks)
      <4>1. Len(ks) \in Nat /\ (Len(ks) < l => Len(ks) >= 1) /\ l >= 1
        BY <1>1, <1>2, <2>1 DEF Block
      <4> QED BY <1>1, <4>1
    <3>2. L[1].is = "key" /\ L[1].ind = I + 1 - 1
      BY <2>2, <2>4, <3>1 DEF NewLine
    <3>3. u[k] = L[1]
      BY <2>2, <2>4
    <3> QED BY <1>2, <3>2, <3>3
  <2> QED BY <2>1, <2>3, <2>4
<1>4. ASSUME NEW k \in Nat, a <= k, a..k - 1 \subseteq S, k <= e + d
      PROVE  Good(k)
  <2>1. w[k] = OpenedAt(u, w, k)
    BY <1>3, <1>4, OpenedIs
  <2>2. CASE k = a
    <3> DEFINE b == Carried(t, Opened(t), a)
    <3>1. u[a].is # "blank" /\ u[a].ind <= I /\ u[a].ind \in Nat
      BY <1>3, <1>4, <2>2, LinesAre
    <3>2. b # 0 => /\ b \in 1..a - 1 /\ a - 1 \in 1..a - 1 /\ b \in 1..Len(t)
                   /\ IF t[b].form = "quote" THEN a - 1 # b /\ t[a - 1].is = "close" ELSE I <= t[b].ind
      <4>1. a = 1 => b = 0
        BY DEF Carried
      <4>2. b # 0 => /\ b \in 1..a - 1
                     /\ IF t[b].form = "quote" THEN a - 1 # b /\ t[a - 1].is = "close" ELSE I <= t[b].ind
        BY <1>2 DEF Quiet
      <4>3. a - 1 <= Len(t)
        BY <1>1, <1>4, <2>2 DEF Placed
      <4> HIDE DEF b, I
      <4> QED BY <1>1, <4>1, <4>2, <4>3
    <3>3. b # 0 => ~ GoesOn(u, b, a)
      <4> SUFFICES ASSUME b # 0 PROVE ~ GoesOn(u, b, a)
        OBVIOUS
      <4>1. u[b] = t[b] /\ u[a - 1] = t[a - 1] /\ t[b].ind \in Nat
        BY <1>1, <1>2, <3>2, LinesAre
      <4>2. t[b].form = "quote" => a - 1 # b /\ t[a - 1].is = "close"
        BY <3>2
      <4>3. t[b].form # "quote" => I <= t[b].ind
        BY <3>2
      <4> HIDE DEF b, I
      <4>4. ~ (u[a].ind > t[b].ind) \/ t[b].form = "quote"
        BY <1>2, <3>1, <4>1, <4>3
      <4> QED BY <3>1, <4>1, <4>2, <4>4 DEF GoesOn
    <3>4. Carried(u, w, a) = b
      OBVIOUS
    <3> HIDE DEF b, w
    <3>5. w[a] = 0
      BY <2>1, <2>2, <3>3, <3>4 DEF OpenedAt
    <3> QED BY <1>3, <1>4, <2>2, <3>5
  <2>3. CASE k # a
    <3>1. k - 1 \in a..k - 1 /\ k - 1 <= e + d /\ k # 1
      BY <1>1, <1>4, <2>3
    <3>2. Good(k - 1)
      BY <1>4, <3>1
    <3>3. Carried(u, w, k) = 0
      BY <3>1, <3>2 DEF Carried
    <3> HIDE DEF w
    <3>4. w[k] = 0
      BY <2>1, <3>3 DEF OpenedAt
    <3> QED BY <1>3, <1>4, <3>4
  <2> QED BY <2>2, <2>3
<1> HIDE DEF Good
<1>5. \A k \in Nat : a <= k /\ a..k - 1 \subseteq S => k \in S
  BY <1>4
<1>6. \A k \in Nat : a <= k => k \in S
  <2> HIDE DEF S
  <2> QED BY <1>1, <1>5, Upward
<1>7. \A k \in a..e + d : k \in Nat /\ a <= k /\ k <= e + d
  BY <1>1
<1>8. \A k \in a..e + d : Good(k)
  BY <1>6, <1>7
<1> QED BY <1>8 DEF Good

LEMMA CarriedIs ==
  ASSUME NEW t, NEW o, NEW n, NEW p, n # 1, n - 1 = p
  PROVE  Carried(t, o, n) = IF o[p] # 0 THEN o[p] ELSE IF OpensScalar(t[p]) THEN p ELSE 0
  BY DEF Carried

LEMMA OpenedBehind ==
  ASSUME NEW t, NEW n, NEW a, NEW L, NEW ks, Splice(t, n, a, L, ks),
         NEW u, Lines(u), NEW e, NEW d, e = EndIn(t, n), Placed(t, u, a, e, d, L),
         Carried(u, Opened(u), a) = Carried(t, Opened(t), a),
         \A k \in a..e + d : Opened(u)[k] = 0 /\ ~ OpensScalar(u[k]),
         NEW z, Followed(t, n, z)
  PROVE  \A m \in e + 1..Len(t) : m <= z + 1 /\ t[m].is # "blank" => Opened(u)[m + d] = 0
<1> DEFINE w == Opened(u)
           I == t[n].ind
           l == Len(L)
           b == Carried(t, Opened(t), a)
           Good(m) == w[m + d] # 0 => w[m + d] = b /\ t[m].is = "blank" /\ t[b].form # "quote"
           S == {m \in Nat : m <= Len(t) /\ m <= z + 1 => Good(m)}
<1>1. /\ a \in Nat /\ e \in Nat /\ d \in Int /\ 1 <= a /\ a <= e + 1 /\ a - 1 + l = e + d /\ l \in Nat
      /\ Len(u) \in Nat /\ Len(t) \in Nat /\ e <= Len(t) /\ Len(u) = Len(t) + d
      /\ \A k \in 1..a - 1 : u[k] = t[k]
      /\ \A k \in e + 1..Len(t) : u[k + d] = t[k]
  BY DEF Placed
<1>2. /\ Lines(t) /\ n \in LiveKeys(t) /\ Quiet(t, a, I) /\ I \in Nat
  BY QuietIs, LinesAre DEF Splice
<1>3. /\ z \in Nat /\ e <= z /\ z <= Len(t)
      /\ \A m \in e + 1..z : t[m].is = "blank" \/ (t[m].is = "hash" /\ t[m].ind <= I)
      /\ z = Len(t) \/ (z + 1 \in LiveKeys(t) /\ t[z + 1].ind <= I)
  BY DEF Followed
<1>4. b # 0 => /\ b \in 1..a - 1 /\ b \in 1..Len(t) /\ u[b] = t[b] /\ t[b].ind \in Nat
               /\ IF t[b].form = "quote" THEN a - 1 # b /\ t[a - 1].is = "close" ELSE I <= t[b].ind
  <2> SUFFICES ASSUME b # 0
               PROVE  /\ b \in 1..a - 1 /\ b \in 1..Len(t) /\ u[b] = t[b] /\ t[b].ind \in Nat
                      /\ IF t[b].form = "quote" THEN a - 1 # b /\ t[a - 1].is = "close" ELSE I <= t[b].ind
    OBVIOUS
  <2>1. /\ b \in 1..a - 1
        /\ IF t[b].form = "quote" THEN a - 1 # b /\ t[a - 1].is = "close" ELSE I <= t[b].ind
    BY <1>2 DEF Quiet
  <2>2. b \in 1..Len(t)
    BY <1>1, <2>1
  <2> HIDE DEF b
  <2> QED BY <1>1, <1>2, <2>1, <2>2, LinesAre
<1>5. ASSUME NEW m \in Nat, e + 1 <= m, m <= Len(t), m <= z + 1
      PROVE  /\ m \in e + 1..Len(t) /\ m \in 1..Len(t) /\ m + d \in 1..Len(u) /\ m + d \in Nat /\ u[m + d] = t[m]
             /\ t[m].ind \in Nat /\ (t[m].is = "blank" \/ t[m].ind <= I)
             /\ m <= z => ~ OpensScalar(t[m])
  <2>1. m \in e + 1..Len(t) /\ m \in 1..Len(t) /\ m + d \in 1..Len(u) /\ m + d \in Nat
    BY <1>1, <1>5
  <2>2. u[m + d] = t[m] /\ t[m].ind \in Nat
    BY <1>1, <1>2, <2>1, LinesAre
  <2>3. m \in e + 1..z \/ m = z + 1
    BY <1>1, <1>3, <1>5
  <2>4. m \in e + 1..z => t[m].is = "blank" \/ (t[m].is = "hash" /\ t[m].ind <= I)
    BY <1>3
  <2>5. m = z + 1 => t[m].ind <= I /\ ~ (m <= z)
    BY <1>1, <1>3, <1>5
  <2> QED BY <2>1, <2>2, <2>3, <2>4, <2>5 DEF OpensScalar
<1> HIDE DEF b
(* What carries on into a line that is no one's.                            *)
<1>6. ASSUME NEW m \in Nat, e + 1 <= m, m <= Len(t), m <= z + 1,
             NEW c, c # 0 => c = b, w[m + d] = IF c # 0 /\ GoesOn(u, c, m + d) THEN c ELSE 0,
             c # 0 /\ t[b].form = "quote" => m + d = a
      PROVE  Good(m)
  <2> SUFFICES ASSUME w[m + d] # 0
               PROVE  w[m + d] = b /\ t[m].is = "blank" /\ t[b].form # "quote"
    OBVIOUS
  <2>1. c # 0 /\ c = b /\ w[m + d] = b /\ b # 0 /\ GoesOn(u, b, m + d)
    BY <1>6
  <2>2. t[b].form # "quote"
    <3> SUFFICES ASSUME t[b].form = "quote" PROVE FALSE
      OBVIOUS
    <3>1. m + d = a /\ a - 1 # b /\ t[a - 1].is = "close" /\ u[b] = t[b]
      BY <1>4, <1>6, <2>1
    <3>2. a - 1 \in 1..a - 1
      BY <1>1, <1>4, <2>1
    <3>3. u[a - 1] = t[a - 1]
      BY <1>1, <3>2
    <3> QED BY <2>1, <3>1, <3>3 DEF GoesOn
  <2>3. t[m].is = "blank" \/ t[m].ind > t[b].ind
    BY <1>4, <1>5, <1>6, <2>1, <2>2 DEF GoesOn
  <2>4. t[m].is = "blank"
    <3>1. I <= t[b].ind /\ t[b].ind \in Nat /\ t[m].ind \in Nat /\ (t[m].is = "blank" \/ t[m].ind <= I)
      BY <1>4, <1>5, <1>6, <2>1, <2>2
    <3> HIDE DEF I
    <3> QED BY <1>2, <2>3, <3>1
  <2> QED BY <2>1, <2>2, <2>4
<1>7. ASSUME NEW m \in Nat, e + 1 <= m, e + 1..m - 1 \subseteq S, m <= Len(t), m <= z + 1
      PROVE  Good(m)
  <2> DEFINE q == m + d
             c == Carried(u, w, q)
  <2>0. q = m + d /\ q \in 1..Len(u)
    BY <1>5, <1>7
  <2> HIDE DEF q
  <2>1. w[m + d] = IF c # 0 /\ GoesOn(u, c, m + d) THEN c ELSE 0
    <3>1. w[q] = IF c # 0 /\ GoesOn(u, c, q) THEN c ELSE 0
      BY <2>0, OpenedIs DEF OpenedAt
    <3> HIDE DEF c
    <3> QED BY <2>0, <3>1
  <2>2. CASE m = e + 1 /\ l = 0
    <3>1. m + d = a /\ q = a
      BY <1>1, <2>0, <2>2
    <3>2. c = b
      BY <3>1 DEF b
    <3> HIDE DEF c
    <3> QED BY <1>6, <1>7, <2>1, <3>1, <3>2
  <2>3. CASE m = e + 1 /\ l # 0
    <3>1. m + d - 1 \in a..e + d /\ m + d # 1
      BY <1>1, <2>3
    <3>2. w[m + d - 1] = 0 /\ ~ OpensScalar(u[m + d - 1])
      BY <3>1
    <3>3. c = 0
      <4> DEFINE p == m + d - 1
      <4>1. q # 1 /\ q - 1 = p /\ w[p] = 0 /\ ~ OpensScalar(u[p])
        BY <1>1, <2>0, <3>1, <3>2
      <4> HIDE DEF p
      <4>2. c = IF w[p] # 0 THEN w[p] ELSE IF OpensScalar(u[p]) THEN p ELSE 0
        BY <4>1, CarriedIs
      <4> QED BY <4>1, <4>2
    <3> HIDE DEF c
    <3> QED BY <2>1, <3>3
  <2>4. CASE m # e + 1
    <3> DEFINE p == m - 1
    <3>1. p \in Nat /\ e + 1 <= p /\ p <= Len(t) /\ p <= z + 1 /\ p <= z /\ p \in e + 1..m - 1 /\ m + d - 1 = p + d
      BY <1>1, <1>3, <1>7, <2>4
    <3>2. p \in S
      BY <1>7, <3>1
    <3>3. Good(p)
      BY <3>1, <3>2
    <3> HIDE DEF p
    <3>4. u[p + d] = t[p] /\ ~ OpensScalar(u[p + d]) /\ p + d # 0
      BY <1>5, <3>1
    <3>5. m + d # 1
      BY <1>1, <3>1, <3>4
    <3>6. c = w[p + d]
      <4> DEFINE r == p + d
      <4>1. q # 1 /\ q - 1 = r
        BY <1>1, <2>0, <3>1, <3>5
      <4>2. c = IF w[r] # 0 THEN w[r] ELSE IF OpensScalar(u[r]) THEN r ELSE 0
        <5> HIDE DEF r
        <5> QED BY <4>1, CarriedIs
      <4> QED BY <3>4, <4>2
    <3>7. c # 0 => c = b /\ t[b].form # "quote"
      BY <3>3, <3>6
    <3> HIDE DEF c
    <3> QED BY <1>6, <1>7, <2>1, <3>7
  <2> QED BY <2>2, <2>3, <2>4
<1> HIDE DEF Good
<1>8. \A m \in Nat : e + 1 <= m /\ e + 1..m - 1 \subseteq S => m \in S
  BY <1>7
<1>9. \A m \in Nat : e + 1 <= m => m \in S
  <2>1. e + 1 \in Nat
    BY <1>1
  <2> HIDE DEF S
  <2> QED BY <2>1, <1>8, Upward
<1>10. ASSUME NEW m \in e + 1..Len(t), m <= z + 1, t[m].is # "blank"
       PROVE  w[m + d] = 0
  <2>1. m \in Nat /\ e + 1 <= m /\ m <= Len(t)
    BY <1>1
  <2>2. Good(m)
    BY <1>9, <1>10, <2>1
  <2> QED BY <1>10, <2>2 DEF Good
<1> QED BY <1>10

(* Behind the next key everything is as it was.                             *)
LEMMA OpenedBeyond ==
  ASSUME NEW t, Lines(t), NEW u, Lines(u), NEW f \in 1..Len(t), NEW d \in Int, f + d >= 1,
         Len(u) = Len(t) + d, \A k \in f..Len(t) : u[k + d] = t[k],
         Opened(t)[f] = 0, Opened(u)[f + d] = 0
  PROVE  \A m \in f..Len(t) : \/ Opened(t)[m] = 0 /\ Opened(u)[m + d] = 0
                              \/ /\ Opened(t)[m] \in Nat /\ Opened(t)[m] >= f
                                 /\ Opened(u)[m + d] = Opened(t)[m] + d
<1> DEFINE o == Opened(t)
           w == Opened(u)
           Good(m) == \/ o[m] = 0 /\ w[m + d] = 0
                      \/ o[m] \in Nat /\ o[m] >= f /\ o[m] < m /\ w[m + d] = o[m] + d
           S == {m \in Nat : m <= Len(t) => Good(m)}
<1>1. Len(t) \in Nat /\ Len(u) \in Nat /\ f \in Nat /\ 1 <= f /\ f <= Len(t)
  BY LinesAre
<1>2. ASSUME NEW m \in Nat, f <= m, f..m - 1 \subseteq S, m <= Len(t)
      PROVE  Good(m)
  <2>1. CASE m = f
    BY <2>1
  <2>2. CASE m # f
    <3> DEFINE p == m - 1
               b == Carried(t, o, m)
               c == Carried(u, w, m + d)
    <3>1. /\ p \in Nat /\ f <= p /\ p < m /\ p <= Len(t) /\ p \in f..m - 1 /\ m + d - 1 = p + d
          /\ p \in f..Len(t) /\ m \in f..Len(t)
          /\ m # 1 /\ m + d # 1 /\ m \in 1..Len(t) /\ m + d \in 1..Len(u) /\ p + d >= 1
          /\ m - 1 = p
      BY <1>1, <1>2, <2>2
    <3>2. p \in S
      BY <1>2, <3>1
    <3>3. Good(p) /\ u[p + d] = t[p] /\ u[m + d] = t[m]
      BY <3>1, <3>2
    <3>4. /\ o[m] = IF b # 0 /\ GoesOn(t, b, m) THEN b ELSE 0
          /\ w[m + d] = IF c # 0 /\ GoesOn(u, c, m + d) THEN c ELSE 0
      BY <3>1, OpenedIs DEF OpenedAt
    <3>5. b = IF o[p] # 0 THEN o[p] ELSE IF OpensScalar(t[p]) THEN p ELSE 0
      BY <3>1 DEF Carried
    <3>6. c = IF w[p + d] # 0 THEN w[p + d] ELSE IF OpensScalar(u[p + d]) THEN p + d ELSE 0
      <4>1. m + d - 1 = p + d /\ m + d # 1
        BY <3>1
      <4> HIDE DEF p
      <4> QED BY <4>1 DEF Carried
    <3> HIDE DEF p, b, c, o, w
    <3>7. \/ b = 0 /\ c = 0
          \/ b \in Nat /\ b >= f /\ b <= p /\ c = b + d /\ c # 0 /\ b # 0
      <4>1. CASE o[p] = 0 /\ w[p + d] = 0
        <5>1. b = (IF OpensScalar(t[p]) THEN p ELSE 0) /\ c = (IF OpensScalar(t[p]) THEN p + d ELSE 0)
          BY <3>3, <3>5, <3>6, <4>1
        <5>2. CASE OpensScalar(t[p])
          BY <1>1, <3>1, <5>1, <5>2
        <5>3. CASE ~ OpensScalar(t[p])
          BY <5>1, <5>3
        <5> QED BY <5>2, <5>3
      <4>2. CASE o[p] \in Nat /\ o[p] >= f /\ o[p] < p /\ w[p + d] = o[p] + d
        <5>1. o[p] # 0 /\ w[p + d] # 0
          BY <1>1, <4>2
        <5>2. b = o[p] /\ c = o[p] + d
          BY <3>5, <3>6, <4>2, <5>1
        <5> QED BY <3>1, <4>2, <5>1, <5>2
      <4> QED BY <3>3, <4>1, <4>2
    <3>8. ASSUME b # 0 PROVE GoesOn(u, c, m + d) <=> GoesOn(t, b, m)
      <4>1. b \in f..Len(t) /\ c = b + d /\ (m + d - 1 = c <=> m - 1 = b)
        BY <1>1, <3>1, <3>7, <3>8
      <4>2. u[c] = t[b] /\ u[m + d - 1] = t[m - 1]
        BY <3>1, <3>3, <4>1 DEF p
      <4> QED BY <3>3, <4>1, <4>2 DEF GoesOn
    <3>9. CASE b = 0
      BY <3>4, <3>7, <3>9 DEF o, w
    <3>10. CASE b # 0 /\ GoesOn(t, b, m)
      <4>1. o[m] = b /\ w[m + d] = c /\ b \in Nat /\ b >= f /\ b < m /\ c = b + d
        BY <3>1, <3>4, <3>7, <3>8, <3>10
      <4> QED BY <4>1 DEF o, w
    <3>11. CASE b # 0 /\ ~ GoesOn(t, b, m)
      BY <3>4, <3>8, <3>11 DEF o, w
    <3> QED BY <3>9, <3>10, <3>11
  <2> QED BY <2>1, <2>2
<1> HIDE DEF Good
<1>3. \A m \in Nat : f <= m /\ f..m - 1 \subseteq S => m \in S
  BY <1>2
<1>4. \A m \in Nat : f <= m => m \in S
  <2> HIDE DEF S
  <2> QED BY <1>1, <1>3, Upward
<1>5. \A m \in f..Len(t) : Good(m)
  <2>1. \A m \in f..Len(t) : m \in Nat /\ f <= m /\ m <= Len(t)
    BY <1>1
  <2> QED BY <1>4, <2>1
<1> QED BY <1>5 DEF Good

LEMMA OpenedAfter ==
  ASSUME NEW t, NEW n, NEW a, NEW L, NEW ks, Splice(t, n, a, L, ks)
  PROVE  ScalarsMoved(t, After(t, n, a, L), a, EndIn(t, n), Shift(t, n, a, L))
<1> DEFINE u == After(t, n, a, L)
           e == EndIn(t, n)
           d == Shift(t, n, a, L)
           o == Opened(t)
           w == Opened(u)
<1>1. Lines(t) /\ Lines(u) /\ Placed(t, u, a, e, d, L)
  BY AfterIs DEF Splice
<1> HIDE DEF u, e, d
<1>2. /\ a \in Nat /\ e \in Nat /\ d \in Int /\ 1 <= a /\ a <= e + 1 /\ a - 1 + Len(L) = e + d /\ Len(L) \in Nat
      /\ Len(u) \in Nat /\ Len(t) \in Nat /\ e <= Len(t) /\ Len(u) = Len(t) + d
      /\ a <= Len(t) + 1 /\ a <= Len(u) + 1
  BY <1>1 DEF Placed
<1>3. /\ \A k \in 1..a - 1 : u[k] = t[k]
      /\ \A k \in e + 1..Len(t) : u[k + d] = t[k]
  BY <1>1 DEF Placed
<1>4. /\ \A k \in 1..a - 1 : w[k] = o[k]
      /\ Carried(u, w, a) = Carried(t, o, a)
  BY <1>1, <1>2, <1>3, OpenedAbove
<1>5. \A k \in a..e + d : w[k] = 0 /\ ~ OpensScalar(u[k])
  BY <1>1, <1>4, OpenedOfNew
<1>6. PICK z : Followed(t, n, z)
  BY EntryFollowed DEF Splice
<1>7. \A m \in e + 1..Len(t) : m <= z + 1 /\ t[m].is # "blank" => w[m + d] = 0
  <2>1. e = EndIn(t, n)
    BY DEF e
  <2> QED BY <1>1, <1>4, <1>5, <1>6, <2>1, OpenedBehind
<1>8. /\ z \in Nat /\ e <= z /\ z <= Len(t)
      /\ \A m \in e + 1..z : t[m].is = "blank" \/ o[m] = 0
      /\ z = Len(t) \/ z + 1 \in LiveKeys(t)
  BY <1>6 DEF Followed, e
<1>9. ASSUME z # Len(t)
      PROVE  \A m \in z + 1..Len(t) : \/ o[m] = 0 /\ w[m + d] = 0
                                      \/ o[m] \in Nat /\ o[m] >= z + 1 /\ w[m + d] = o[m] + d
  <2> DEFINE f == z + 1
  <2>1. f \in 1..Len(t) /\ f + d >= 1 /\ f \in e + 1..Len(t) /\ f <= z + 1 /\ (\A k \in f..Len(t) : k \in e + 1..Len(t))
    BY <1>2, <1>8, <1>9
  <2>2. t[f].is = "key" /\ o[f] = 0
    BY <1>1, <1>8, <1>9, LinesAre
  <2>3. w[f + d] = 0
    BY <1>7, <2>1, <2>2
  <2>4. \A k \in f..Len(t) : u[k + d] = t[k]
    BY <1>3, <2>1
  <2>5. \A m \in f..Len(t) : \/ o[m] = 0 /\ w[m + d] = 0
                             \/ o[m] \in Nat /\ o[m] >= f /\ w[m + d] = o[m] + d
    <3> HIDE DEF f
    <3> QED BY <1>1, <1>2, <2>1, <2>2, <2>3, <2>4, OpenedBeyond
  <2> QED BY <2>5
<1>10. ASSUME NEW m \in e + 1..Len(t), t[m].is # "blank"
       PROVE  \/ o[m] = 0 /\ w[m + d] = 0
              \/ o[m] \in Nat /\ o[m] > e /\ w[m + d] = o[m] + d
  <2>1. CASE m <= z
    <3>1. m \in e + 1..z /\ m <= z + 1
      BY <1>2, <1>8, <2>1
    <3>2. o[m] = 0
      BY <1>8, <1>10, <3>1
    <3> QED BY <1>7, <1>10, <3>1, <3>2
  <2>2. CASE ~ (m <= z)
    <3>1. m \in z + 1..Len(t) /\ z # Len(t)
      BY <1>2, <1>8, <2>2
    <3>2. \/ o[m] = 0 /\ w[m + d] = 0
          \/ o[m] \in Nat /\ o[m] >= z + 1 /\ w[m + d] = o[m] + d
      BY <1>9, <3>1
    <3>3. o[m] \in Nat /\ o[m] >= z + 1 => o[m] > e
      BY <1>2, <1>8
    <3> QED BY <3>2, <3>3
  <2> QED BY <2>1, <2>2
<1> QED BY <1>4, <1>5, <1>10 DEF ScalarsMoved, u, e, d

-----------------------------------------------------------------------------
(* What is where after an edit, in one place.                               *)
Spliced(t, u, n, a, e, d, L, ks) ==
  /\ Lines(t) /\ Lines(u) /\ n \in LiveKeys(t) /\ n \in Nat /\ 1 <= n /\ n <= e /\ n <= a
  /\ a = n \/ a = e + 1
  /\ Placed(t, u, a, e, d, L) /\ ScalarsMoved(t, u, a, e, d)
  /\ Block(L, t[n].ind, ks) /\ t[n].ind \in Nat
  /\ \A k \in LiveKeys(t) : n < k /\ k <= e => t[n].ind < t[k].ind
  /\ \A m \in LiveKeys(t) : e < m =>
        \E f \in LiveKeys(t) : /\ e < f /\ f <= m /\ t[f].ind <= t[n].ind
                               /\ \A k \in e + 1..f - 1 : t[k].is \in {"blank", "hash"}
  /\ \A m \in e + 1..Len(t) : t[m].is = "item" /\ Opened(t)[m] = 0 => OwnerIn(t, m) > e

LEMMA SplicedIs ==
  ASSUME NEW t, NEW n, NEW a, NEW L, NEW ks, Splice(t, n, a, L, ks)
  PROVE  Spliced(t, After(t, n, a, L), n, a, EndIn(t, n), Shift(t, n, a, L), L, ks)
<1> DEFINE u == After(t, n, a, L)
           e == EndIn(t, n)
           d == Shift(t, n, a, L)
<1>1. /\ Lines(t) /\ WellFormed(t) /\ n \in LiveKeys(t) /\ (a = n \/ a = e + 1) /\ Block(L, t[n].ind, ks)
      /\ Placed(t, u, a, e, d, L) /\ ScalarsMoved(t, u, a, e, d) /\ Lines(u)
  BY AfterIs, OpenedAfter DEF Splice
<1>2. /\ e \in Nat /\ n <= e /\ e <= Len(t)
      /\ \A k \in LiveKeys(t) : n < k /\ k <= e => t[n].ind < t[k].ind
      /\ n \in Nat /\ 1 <= n /\ t[n].ind \in Nat /\ Len(t) \in Nat
  BY <1>1, EntryIs, LinesAre
<1>3. PICK z : Followed(t, n, z)
  BY EntryFollowed DEF Splice
<1>4. /\ z \in Nat /\ e <= z /\ z <= Len(t)
      /\ \A m \in e + 1..z : t[m].is \in {"blank", "hash"}
      /\ z = Len(t) \/ (z + 1 \in LiveKeys(t) /\ t[z + 1].ind <= t[n].ind)
  BY <1>3 DEF Followed
<1> HIDE DEF u, e, d
<1>5. n <= a
  BY <1>1, <1>2
<1>6. ASSUME NEW m \in LiveKeys(t), e < m
      PROVE  \E f \in LiveKeys(t) : /\ e < f /\ f <= m /\ t[f].ind <= t[n].ind
                                    /\ \A k \in e + 1..f - 1 : t[k].is \in {"blank", "hash"}
  <2>1. m \in Nat /\ m <= Len(t) /\ t[m].is = "key"
    BY <1>1, LinesAre
  <2>2. z < m
    <3>1. m \notin e + 1..z
      BY <1>4, <2>1
    <3> QED BY <1>2, <1>4, <1>6, <2>1, <3>1
  <2>3. z # Len(t) /\ z + 1 <= m /\ e < z + 1 /\ z + 1 - 1 = z
    BY <1>2, <1>4, <2>1, <2>2
  <2>4. z + 1 \in LiveKeys(t) /\ t[z + 1].ind <= t[n].ind
    BY <1>4, <2>3
  <2> DEFINE f == z + 1
  <2>5. f \in LiveKeys(t) /\ t[f].ind <= t[n].ind /\ f <= m /\ e < f /\ f - 1 = z
    <3>1. f - 1 = z
      BY <1>4
    <3> QED BY <2>3, <2>4, <3>1
  <2> HIDE DEF f
  <2>6. \A k \in e + 1..f - 1 : t[k].is \in {"blank", "hash"}
    BY <1>4, <2>5
  <2> QED BY <2>5, <2>6
<1>7. ASSUME NEW m \in e + 1..Len(t), t[m].is = "item", Opened(t)[m] = 0
      PROVE  OwnerIn(t, m) > e
  <2>1. m \in Nat /\ m \in 1..Len(t)
    BY <1>2
  <2>2. z < m
    <3>1. m \notin e + 1..z
      BY <1>4, <1>7
    <3> QED BY <1>2, <1>4, <2>1, <3>1
  <2>3. z # Len(t)
    BY <1>2, <1>4, <2>2
  <2>4. z + 1 \in LiveKeys(t) /\ t[z + 1].is = "key"
    BY <1>1, <1>4, <2>3, LinesAre
  <2>5. z + 1 < m
    <3>1. z + 1 # m
      BY <1>7, <2>4
    <3> QED BY <1>4, <2>1, <2>2, <3>1
  <2>6. z + 1 <= OwnerIn(t, m) /\ OwnerIn(t, m) \in Nat
    BY <1>1, <2>1, <2>4, <2>5, OwnerIs
  <2> QED BY <1>2, <1>4, <2>6
<1>8. Spliced(t, u, n, a, e, d, L, ks)
  BY <1>1, <1>2, <1>5, <1>6, <1>7 DEF Spliced
<1> QED BY <1>8 DEF u, e, d

(* The numbers of an edit.                                                  *)
LEMMA SplicedNumbers ==
  ASSUME NEW t, NEW u, NEW n, NEW a, NEW e, NEW d, NEW L, NEW ks, Spliced(t, u, n, a, e, d, L, ks)
  PROVE  /\ n \in Nat /\ a \in Nat /\ e \in Nat /\ d \in Int
         /\ 1 <= n /\ n <= a /\ n <= e /\ a <= e + 1 /\ e <= Len(t) /\ (a = n \/ a = e + 1)
         /\ Len(t) \in Nat /\ Len(u) \in Nat /\ Len(L) \in Nat /\ Len(ks) \in Nat
         /\ Len(u) = Len(t) + d /\ a - 1 + Len(L) = e + d /\ Len(ks) <= Len(L) /\ e + d >= 0
         /\ Len(ks) < Len(L) => Len(ks) >= 1
         /\ t[n].ind \in Nat
<1>1. /\ n \in Nat /\ a \in Nat /\ e \in Nat /\ d \in Int
      /\ 1 <= n /\ n <= a /\ n <= e /\ a <= e + 1 /\ e <= Len(t) /\ (a = n \/ a = e + 1)
      /\ Len(t) \in Nat /\ Len(u) \in Nat /\ Len(L) \in Nat /\ Len(ks) \in Nat
      /\ Len(u) = Len(t) + d /\ a - 1 + Len(L) = e + d /\ Len(ks) <= Len(L)
      /\ Len(ks) < Len(L) => Len(ks) >= 1
      /\ t[n].ind \in Nat
  BY DEF Spliced, Placed, Block
<1>2. e + d >= 0
  BY <1>1
<1> QED BY <1>1, <1>2

(* The lines after an edit: those above, the new ones, those behind.        *)
LEMMA LinesAfter ==
  ASSUME NEW t, NEW u, NEW n, NEW a, NEW e, NEW d, NEW L, NEW ks, Spliced(t, u, n, a, e, d, L, ks)
  PROVE  /\ \A k \in 1..a - 1 : k \in 1..Len(t) /\ k \in 1..Len(u) /\ u[k] = t[k] /\ Opened(u)[k] = Opened(t)[k]
         /\ \A i \in 1..Len(L) : /\ a - 1 + i \in 1..Len(u) /\ u[a - 1 + i] = L[i] /\ Opened(u)[a - 1 + i] = 0
                                 /\ NewLine(L, t[n].ind, ks, i)
         /\ \A m \in e + 1..Len(t) :
               /\ m \in 1..Len(t) /\ m + d \in 1..Len(u) /\ u[m + d] = t[m]
               /\ t[m].is # "blank" =>
                    \/ Opened(t)[m] = 0 /\ Opened(u)[m + d] = 0
                    \/ Opened(t)[m] \in Nat /\ Opened(t)[m] > e /\ Opened(u)[m + d] = Opened(t)[m] + d
         /\ \A j \in 1..Len(u) : \/ j \in 1..a - 1
                                 \/ \E i \in 1..Len(L) : j = a - 1 + i
                                 \/ \E m \in e + 1..Len(t) : j = m + d
<1>1. /\ n \in Nat /\ a \in Nat /\ e \in Nat /\ d \in Int
      /\ 1 <= n /\ n <= a /\ n <= e /\ a <= e + 1 /\ e <= Len(t)
      /\ Len(t) \in Nat /\ Len(u) \in Nat /\ Len(L) \in Nat
      /\ Len(u) = Len(t) + d /\ a - 1 + Len(L) = e + d
  BY SplicedNumbers
<1>2. Placed(t, u, a, e, d, L) /\ ScalarsMoved(t, u, a, e, d) /\ Block(L, t[n].ind, ks)
  BY DEF Spliced
<1>3. ASSUME NEW k \in 1..a - 1
      PROVE  k \in 1..Len(t) /\ k \in 1..Len(u) /\ u[k] = t[k] /\ Opened(u)[k] = Opened(t)[k]
  <2>1. k \in 1..Len(t) /\ k \in 1..Len(u)
    BY <1>1
  <2> QED BY <1>2, <2>1 DEF Placed, ScalarsMoved
<1>4. ASSUME NEW i \in 1..Len(L)
      PROVE  /\ a - 1 + i \in 1..Len(u) /\ u[a - 1 + i] = L[i] /\ Opened(u)[a - 1 + i] = 0
             /\ NewLine(L, t[n].ind, ks, i)
  <2>1. a - 1 + i \in 1..Len(u) /\ a - 1 + i \in a..e + d
    BY <1>1
  <2>2. NewLine(L, t[n].ind, ks, i)
    BY <1>2 DEF Block
  <2>3. u[a - 1 + i] = L[i]
    BY <1>2 DEF Placed
  <2>4. Opened(u)[a - 1 + i] = 0
    BY <1>2, <2>1 DEF ScalarsMoved
  <2> QED BY <2>1, <2>2, <2>3, <2>4
<1>5. ASSUME NEW m \in e + 1..Len(t)
      PROVE  /\ m \in 1..Len(t) /\ m + d \in 1..Len(u) /\ u[m + d] = t[m]
             /\ t[m].is # "blank" =>
                  \/ Opened(t)[m] = 0 /\ Opened(u)[m + d] = 0
                  \/ Opened(t)[m] \in Nat /\ Opened(t)[m] > e /\ Opened(u)[m + d] = Opened(t)[m] + d
  <2>1. m \in 1..Len(t) /\ m + d \in 1..Len(u)
    BY <1>1
  <2>2. u[m + d] = t[m]
    BY <1>2 DEF Placed
  <2>3. t[m].is # "blank" =>
           \/ Opened(t)[m] = 0 /\ Opened(u)[m + d] = 0
           \/ Opened(t)[m] \in Nat /\ Opened(t)[m] > e /\ Opened(u)[m + d] = Opened(t)[m] + d
    BY <1>2 DEF ScalarsMoved
  <2> QED BY <2>1, <2>2, <2>3
<1>6. ASSUME NEW j \in 1..Len(u)
      PROVE  \/ j \in 1..a - 1
             \/ \E i \in 1..Len(L) : j = a - 1 + i
             \/ \E m \in e + 1..Len(t) : j = m + d
  <2>1. CASE j < a
    BY <1>1, <2>1
  <2>2. CASE a <= j /\ j <= e + d
    <3>1. j - (a - 1) \in 1..Len(L) /\ j = a - 1 + (j - (a - 1))
      BY <1>1, <2>2
    <3> QED BY <3>1
  <2>3. CASE e + d < j
    <3>1. j - d \in e + 1..Len(t) /\ j = (j - d) + d
      BY <1>1, <2>3
    <3> QED BY <3>1
  <2> QED BY <1>1, <2>1, <2>2, <2>3
<1> QED BY <1>3, <1>4, <1>5, <1>6

LEMMA KeysAfter ==
  ASSUME NEW t, NEW u, NEW n, NEW a, NEW e, NEW d, NEW L, NEW ks, Spliced(t, u, n, a, e, d, L, ks)
  PROVE  /\ \A k \in 1..a - 1 : k \in LiveKeys(u) <=> k \in LiveKeys(t)
         /\ \A i \in 1..Len(L) : a - 1 + i \in LiveKeys(u) <=> i <= Len(ks)
         /\ \A m \in e + 1..Len(t) : m + d \in LiveKeys(u) <=> m \in LiveKeys(t)
         /\ \A j \in LiveKeys(u) : \/ j \in 1..a - 1 /\ j \in LiveKeys(t)
                                   \/ \E i \in 1..Len(ks) : j = a - 1 + i
                                   \/ \E m \in e + 1..Len(t) : m \in LiveKeys(t) /\ j = m + d
<1>1. Lines(t) /\ Lines(u)
  BY DEF Spliced
<1>2. /\ \A k \in 1..Len(t) : k \in LiveKeys(t) <=> t[k].is = "key" /\ Opened(t)[k] = 0
      /\ \A k \in 1..Len(u) : k \in LiveKeys(u) <=> u[k].is = "key" /\ Opened(u)[k] = 0
      /\ \A k \in LiveKeys(u) : k \in 1..Len(u)
  BY <1>1, LiveKeysAre, LinesAre
<1>3. Len(L) \in Nat /\ Len(ks) \in Nat /\ Len(ks) <= Len(L) /\ a \in Nat /\ e \in Nat /\ d \in Int /\ a <= e + 1
  BY SplicedNumbers
<1>4. ASSUME NEW k \in 1..a - 1 PROVE k \in LiveKeys(u) <=> k \in LiveKeys(t)
  <2>1. k \in 1..Len(t) /\ k \in 1..Len(u) /\ u[k] = t[k] /\ Opened(u)[k] = Opened(t)[k]
    BY LinesAfter
  <2> QED BY <1>2, <2>1
<1>5. ASSUME NEW i \in 1..Len(L) PROVE a - 1 + i \in LiveKeys(u) <=> i <= Len(ks)
  <2> DEFINE j == a - 1 + i
  <2>1. j \in 1..Len(u) /\ u[j] = L[i] /\ Opened(u)[j] = 0 /\ NewLine(L, t[n].ind, ks, i)
    BY LinesAfter
  <2> HIDE DEF j
  <2>2. L[i].is = "key" <=> i <= Len(ks)
    BY <2>1 DEF NewLine
  <2>3. j \in LiveKeys(u) <=> i <= Len(ks)
    BY <1>2, <2>1, <2>2
  <2> QED BY <2>3 DEF j
<1>6. ASSUME NEW m \in e + 1..Len(t) PROVE m + d \in LiveKeys(u) <=> m \in LiveKeys(t)
  <2> DEFINE j == m + d
  <2>1. /\ m \in 1..Len(t) /\ j \in 1..Len(u) /\ u[j] = t[m]
        /\ t[m].is # "blank" =>
             \/ Opened(t)[m] = 0 /\ Opened(u)[j] = 0
             \/ Opened(t)[m] \in Nat /\ Opened(t)[m] > e /\ Opened(u)[j] = Opened(t)[m] + d
    BY LinesAfter
  <2>2. Opened(t)[m] \in Nat /\ Opened(t)[m] > e => Opened(t)[m] # 0
    BY <1>3
  <2>3. Opened(t)[m] \in Nat /\ Opened(t)[m] > e => Opened(t)[m] + d # 0
    <3>1. e + d >= 0
      BY SplicedNumbers
    <3> QED BY <1>3, <3>1
  <2> HIDE DEF j
  <2>4. t[m].is = "key" => (Opened(t)[m] = 0 <=> Opened(u)[j] = 0)
    BY <2>1, <2>2, <2>3
  <2>5. j \in LiveKeys(u) <=> m \in LiveKeys(t)
    BY <1>2, <2>1, <2>4
  <2> QED BY <2>5 DEF j
<1>7. ASSUME NEW j \in LiveKeys(u)
      PROVE  \/ j \in 1..a - 1 /\ j \in LiveKeys(t)
             \/ \E i \in 1..Len(ks) : j = a - 1 + i
             \/ \E m \in e + 1..Len(t) : m \in LiveKeys(t) /\ j = m + d
  <2>1. \/ j \in 1..a - 1
        \/ \E i \in 1..Len(L) : j = a - 1 + i
        \/ \E m \in e + 1..Len(t) : j = m + d
    BY <1>2, LinesAfter
  <2>2. CASE j \in 1..a - 1
    BY <1>4, <2>2
  <2>3. ASSUME NEW i \in 1..Len(L), j = a - 1 + i PROVE i \in 1..Len(ks)
    <3>1. i <= Len(ks)
      BY <1>5, <2>3
    <3> QED BY <1>3, <3>1
  <2>4. ASSUME NEW m \in e + 1..Len(t), j = m + d PROVE m \in LiveKeys(t)
    BY <1>6, <2>4
  <2> QED BY <2>1, <2>2, <2>3, <2>4
<1> QED BY <1>4, <1>5, <1>6, <1>7

(* What the keys stand in after an edit.                                    *)
LEMMA ParentsAbove ==
  ASSUME NEW t, NEW u, NEW n, NEW a, NEW e, NEW d, NEW L, NEW ks, Spliced(t, u, n, a, e, d, L, ks),
         NEW k \in LiveKeys(t), k < a
  PROVE  k \in LiveKeys(u) /\ ParentIn(u, k) = ParentIn(t, k)
<1>1. Lines(t) /\ Lines(u) /\ a \in Nat
  BY SplicedNumbers DEF Spliced
<1>2. k \in Nat /\ 1 <= k /\ k \in 1..a - 1
  BY <1>1, LinesAre
<1> DEFINE p == ParentIn(t, k)
<1>3. /\ p \in Nat /\ p < k /\ (p # 0 => p \in LiveKeys(t) /\ t[p].ind < t[k].ind)
      /\ \A m \in LiveKeys(t) : p < m /\ m < k => t[k].ind <= t[m].ind
  BY <1>1, ParentIs DEF ParentIn
<1> HIDE DEF p
<1>4. \A m \in 1..a - 1 : u[m] = t[m] /\ (m \in LiveKeys(u) <=> m \in LiveKeys(t))
  BY LinesAfter, KeysAfter
<1>5. k \in LiveKeys(u) /\ u[k] = t[k]
  BY <1>2, <1>4
<1>6. p # 0 => p \in LiveKeys(u) /\ u[p].ind < u[k].ind
  <2> SUFFICES ASSUME p # 0 PROVE p \in LiveKeys(u) /\ u[p].ind < u[k].ind
    OBVIOUS
  <2>1. p \in 1..a - 1
    BY <1>1, <1>2, <1>3
  <2> QED BY <1>3, <1>4, <1>5, <2>1
<1>7. \A m \in LiveKeys(u) : p < m /\ m < k => u[k].ind <= u[m].ind
  <2> SUFFICES ASSUME NEW m \in LiveKeys(u), p < m, m < k PROVE u[k].ind <= u[m].ind
    OBVIOUS
  <2>1. m \in Nat /\ 1 <= m
    BY <1>1, LinesAre
  <2>2. m \in 1..a - 1
    BY <1>1, <1>2, <2>1
  <2> QED BY <1>3, <1>4, <1>5, <2>2
<1>8. ParentIn(u, k) = p
  BY <1>1, <1>3, <1>5, <1>6, <1>7, ParentIsThat DEF ParentIn
<1> QED BY <1>5, <1>8 DEF p

LEMMA ParentsNew ==
  ASSUME NEW t, NEW u, NEW n, NEW a, NEW e, NEW d, NEW L, NEW ks, Spliced(t, u, n, a, e, d, L, ks),
         NEW i \in 1..Len(ks)
  PROVE  /\ a - 1 + i \in LiveKeys(u)
         /\ ParentIn(u, a - 1 + i) = IF i = 1 THEN ParentIn(t, n) ELSE a - 1 + i - 1
<1> DEFINE k == a - 1 + i
           I == t[n].ind
<1>1. /\ Lines(t) /\ Lines(u) /\ n \in LiveKeys(t) /\ (a = n \/ a = e + 1)
      /\ n \in Nat /\ a \in Nat /\ e \in Nat /\ 1 <= n /\ n <= a /\ n <= e /\ a <= e + 1
      /\ I \in Nat /\ Len(ks) \in Nat /\ Len(L) \in Nat /\ Len(ks) <= Len(L)
  <2>1. Lines(t) /\ Lines(u) /\ n \in LiveKeys(t)
    BY DEF Spliced
  <2> QED BY <2>1, SplicedNumbers
<1>2. \A m \in LiveKeys(t) : n < m /\ m <= e => I < t[m].ind
  BY DEF Spliced
<1> HIDE DEF I
<1>3. ASSUME NEW j \in 1..Len(ks)
      PROVE  a - 1 + j \in LiveKeys(u) /\ u[a - 1 + j].ind = I + j - 1
  <2>1. j \in 1..Len(L) /\ j <= Len(ks)
    BY <1>1
  <2>2. u[a - 1 + j] = L[j] /\ NewLine(L, t[n].ind, ks, j)
    BY <2>1, LinesAfter
  <2>3. a - 1 + j \in LiveKeys(u)
    BY <2>1, KeysAfter
  <2> QED BY <2>1, <2>2, <2>3 DEF NewLine, I
<1>4. k \in Nat /\ k \in LiveKeys(u) /\ u[k].ind = I + i - 1
  BY <1>1, <1>3
<1>5. CASE i = 1
  <2> DEFINE p == ParentIn(t, n)
  <2>1. /\ p \in Nat /\ p < n /\ (p # 0 => p \in LiveKeys(t) /\ t[p].ind < I)
        /\ \A m \in LiveKeys(t) : p < m /\ m < n => I <= t[m].ind
    BY <1>1, ParentIs DEF ParentIn, I
  <2> HIDE DEF p
  <2>2. \A m \in 1..a - 1 : u[m] = t[m] /\ (m \in LiveKeys(u) <=> m \in LiveKeys(t))
    BY LinesAfter, KeysAfter
  <2>3. k = a /\ u[k].ind = I /\ p < k
    BY <1>1, <1>4, <1>5, <2>1
  <2> HIDE DEF k
  <2>4. p # 0 => p \in LiveKeys(u) /\ u[p].ind < u[k].ind
    <3> SUFFICES ASSUME p # 0 PROVE p \in LiveKeys(u) /\ u[p].ind < u[k].ind
      OBVIOUS
    <3>1. p \in 1..a - 1
      BY <1>1, <2>1
    <3> QED BY <2>1, <2>2, <2>3, <3>1
  <2>5. \A m \in LiveKeys(u) : p < m /\ m < k => u[k].ind <= u[m].ind
    <3> SUFFICES ASSUME NEW m \in LiveKeys(u), p < m, m < k PROVE I <= u[m].ind
      BY <2>3
    <3>1. m \in Nat /\ 1 <= m
      BY <1>1, LinesAre
    <3>2. m \in 1..a - 1
      BY <1>1, <2>3, <3>1
    <3>3. m \in LiveKeys(t) /\ u[m] = t[m] /\ t[m].ind \in Nat
      BY <1>1, <2>2, <3>2, LinesAre
    <3>4. m < n \/ m = n \/ (n < m /\ m <= e)
      BY <1>1, <3>1, <3>2
    <3>5. m < n => I <= t[m].ind
      BY <2>1, <3>3
    <3>6. m = n => I <= t[m].ind
      BY <1>1 DEF I
    <3>7. n < m /\ m <= e => I <= t[m].ind
      <4>1. n < m /\ m <= e => I < t[m].ind
        BY <1>2, <3>3
      <4>2. t[m].ind \in Nat /\ I \in Nat
        BY <1>1, <3>3
      <4> QED BY <4>1, <4>2
    <3> QED BY <3>3, <3>4, <3>5, <3>6, <3>7
  <2>6. ParentIn(u, k) = p
    BY <1>1, <1>4, <2>1, <2>3, <2>4, <2>5, ParentIsThat DEF ParentIn
  <2> QED BY <1>4, <1>5, <2>6 DEF p, k
<1>6. CASE i # 1
  <2> DEFINE p == a - 1 + (i - 1)
  <2>1. i - 1 \in 1..Len(ks) /\ p \in Nat /\ p < k /\ p = k - 1 /\ p # 0
    BY <1>1, <1>6
  <2>2. p \in LiveKeys(u) /\ u[p].ind = I + (i - 1) - 1
    BY <1>3, <2>1
  <2>3. u[p].ind < u[k].ind
    BY <1>1, <1>4, <2>2
  <2>4. \A m \in LiveKeys(u) : ~ (p < m /\ m < k)
    <3>1. \A m \in LiveKeys(u) : m \in Nat
      BY <1>1, LinesAre
    <3> HIDE DEF p, k
    <3> QED BY <1>4, <2>1, <3>1
  <2>5. p = k - 1
    BY <2>1
  <2> HIDE DEF p, k
  <2>6. ParentIn(u, k) = p
    BY <1>1, <1>4, <2>1, <2>2, <2>3, <2>4, ParentIsThat DEF ParentIn
  <2>7. ParentIn(u, k) = k - 1
    BY <2>5, <2>6
  <2>8. a - 1 + i \in LiveKeys(u)
    BY <1>4 DEF k
  <2>9. ParentIn(u, a - 1 + i) = a - 1 + i - 1
    BY <1>1, <2>7 DEF k
  <2> QED BY <1>6, <2>8, <2>9
<1> QED BY <1>5, <1>6

LEMMA ParentsBehind ==
  ASSUME NEW t, NEW u, NEW n, NEW a, NEW e, NEW d, NEW L, NEW ks, Spliced(t, u, n, a, e, d, L, ks),
         NEW k \in LiveKeys(t), e < k
  PROVE  /\ k + d \in LiveKeys(u)
         /\ LET p == ParentIn(t, k)
            IN  \/ p < n /\ ParentIn(u, k + d) = p
                \/ p > e /\ ParentIn(u, k + d) = p + d
<1> DEFINE p == ParentIn(t, k)
           q == IF p < n THEN p ELSE p + d
           I == t[n].ind
           j == k + d
<1>1. /\ Lines(t) /\ Lines(u) /\ n \in LiveKeys(t) /\ (a = n \/ a = e + 1)
      /\ n \in Nat /\ a \in Nat /\ e \in Nat /\ d \in Int /\ 1 <= n /\ n <= a /\ n <= e /\ a <= e + 1 /\ e <= Len(t)
      /\ I \in Nat /\ Len(ks) \in Nat /\ Len(L) \in Nat /\ Len(ks) <= Len(L) /\ a - 1 + Len(L) = e + d
      /\ Len(t) \in Nat
  <2>1. Lines(t) /\ Lines(u) /\ n \in LiveKeys(t)
    BY DEF Spliced
  <2> QED BY <2>1, SplicedNumbers
<1>2. /\ \A m \in LiveKeys(t) : n < m /\ m <= e => I < t[m].ind
      /\ \E f \in LiveKeys(t) : e < f /\ f <= k /\ t[f].ind <= I
  BY DEF Spliced
<1>3. PICK f \in LiveKeys(t) : e < f /\ f <= k /\ t[f].ind <= I
  BY <1>2
<1> HIDE DEF I
<1>4. /\ p \in Nat /\ p < k /\ (p # 0 => p \in LiveKeys(t) /\ t[p].ind < t[k].ind)
      /\ \A m \in LiveKeys(t) : p < m /\ m < k => t[k].ind <= t[m].ind
  BY <1>1, ParentIs DEF ParentIn
<1>5. /\ \A m \in LiveKeys(t) : m \in Nat /\ 1 <= m /\ m <= Len(t) /\ t[m].ind \in Nat
      /\ \A m \in LiveKeys(u) : m \in Nat
      /\ k \in Nat /\ 1 <= k /\ k <= Len(t) /\ t[k].ind \in Nat
  BY <1>1, LinesAre
<1> HIDE DEF p
<1>6. p < n \/ p > e
  <2> SUFFICES ASSUME n <= p, p <= e PROVE FALSE
    BY <1>1, <1>4
  <2>1. p \in LiveKeys(t) /\ t[p].ind < t[k].ind
    BY <1>1, <1>4
  <2>2. I <= t[p].ind /\ t[p].ind \in Nat
    <3>1. p = n \/ n < p
      BY <1>1, <1>4
    <3>2. p = n => I <= t[p].ind
      BY <1>1 DEF I
    <3>3. n < p => I < t[p].ind
      BY <1>2, <2>1
    <3> QED BY <1>1, <1>5, <2>1, <3>1, <3>2, <3>3
  <2>3. f = k \/ f < k
    BY <1>3, <1>5
  <2>4. f = k => FALSE
    BY <1>1, <1>3, <1>5, <2>1, <2>2
  <2>5. f < k => t[k].ind <= t[f].ind
    <3>1. p < f
      BY <1>1, <1>3, <1>4, <1>5
    <3> QED BY <1>4, <3>1
  <2>6. f < k => FALSE
    <3> DEFINE lk == t[k].ind
               lf == t[f].ind
               lp == t[p].ind
    <3>1. lp < lk /\ I <= lp /\ lf <= I /\ lk \in Nat /\ lf \in Nat /\ lp \in Nat /\ I \in Nat
      BY <1>1, <1>3, <1>5, <2>1, <2>2
    <3>2. f < k => lk <= lf
      BY <2>5
    <3> HIDE DEF lk, lf, lp
    <3> QED BY <3>1, <3>2
  <2> QED BY <2>3, <2>4, <2>6
<1>7. \A m \in 1..a - 1 : u[m] = t[m] /\ (m \in LiveKeys(u) <=> m \in LiveKeys(t))
  BY LinesAfter, KeysAfter
<1>8. \A m \in e + 1..Len(t) : u[m + d] = t[m] /\ (m + d \in LiveKeys(u) <=> m \in LiveKeys(t))
  BY LinesAfter, KeysAfter
<1>9. j \in LiveKeys(u) /\ u[j] = t[k] /\ j \in Nat
  <2>1. k \in e + 1..Len(t)
    BY <1>1, <1>5
  <2>2. j \in LiveKeys(u) /\ u[j] = t[k]
    BY <1>8, <2>1
  <2> QED BY <1>5, <2>2
<1>10. q \in Nat /\ q < j
  <2>1. CASE p < n
    <3>1. a <= e + d + 1
      BY <1>1
    <3> QED BY <1>1, <1>4, <1>5, <2>1, <3>1
  <2>2. CASE p > e
    <3>1. ~ (p < n) /\ e + d >= 0
      BY <1>1, <1>4, <2>2
    <3> QED BY <1>1, <1>4, <1>5, <2>2, <3>1
  <2> QED BY <1>6, <2>1, <2>2
<1>11. q # 0 => q \in LiveKeys(u) /\ u[q].ind < u[j].ind
  <2> SUFFICES ASSUME q # 0 PROVE q \in LiveKeys(u) /\ u[q].ind < u[j].ind
    OBVIOUS
  <2>1. CASE p < n
    <3>1. q = p /\ p # 0 /\ p \in 1..a - 1 /\ p \in LiveKeys(t)
      BY <1>1, <1>4, <2>1
    <3> QED BY <1>4, <1>7, <1>9, <3>1
  <2>2. CASE p > e
    <3>1. q = p + d /\ p # 0 /\ p \in LiveKeys(t)
      BY <1>1, <1>4, <2>2
    <3>2. p \in e + 1..Len(t)
      BY <1>1, <1>5, <2>2, <3>1
    <3>3. u[p + d] = t[p] /\ p + d \in LiveKeys(u)
      BY <1>8, <3>1, <3>2
    <3> QED BY <1>4, <1>9, <3>1, <3>3
  <2> QED BY <1>6, <2>1, <2>2
<1>12. \A m \in LiveKeys(u) : q < m /\ m < j => u[j].ind <= u[m].ind
  <2> SUFFICES ASSUME NEW m \in LiveKeys(u), q < m, m < j PROVE t[k].ind <= u[m].ind
    BY <1>9
  <2>1. CASE m \in 1..a - 1 /\ m \in LiveKeys(t)
    <3>1. p < m
      BY <1>1, <1>4, <1>5, <1>6, <2>1
    <3>2. m < k
      BY <1>1, <1>5, <2>1
    <3> QED BY <1>4, <1>7, <2>1, <3>1, <3>2
  <2>2. ASSUME NEW i \in 1..Len(ks), m = a - 1 + i PROVE t[k].ind <= u[m].ind
    <3>1. p < n
      <4> SUFFICES ASSUME p > e PROVE FALSE
        BY <1>6
      <4>1. q = p + d
        BY <1>1, <1>4
      <4>2. m <= e + d
        BY <1>1, <2>2
      <4> QED BY <1>1, <1>4, <2>2, <4>1, <4>2
    <3>2. t[k].ind <= I
      <4>1. n < k
        BY <1>1, <1>5
      <4> QED BY <1>1, <1>4, <3>1, <4>1 DEF I
    <3>3. u[m].ind = I + i - 1
      <4>1. i \in 1..Len(L) /\ i <= Len(ks)
        BY <1>1
      <4>2. u[m] = L[i] /\ NewLine(L, t[n].ind, ks, i)
        BY <2>2, <4>1, LinesAfter
      <4> QED BY <4>1, <4>2 DEF NewLine, I
    <3> DEFINE lk == t[k].ind
               lm == u[m].ind
    <3>4. lk <= I /\ lm = I + i - 1 /\ lk \in Nat /\ I \in Nat
      BY <1>1, <1>5, <3>2, <3>3
    <3>5. i \in Nat /\ i >= 1
      BY <1>1
    <3> HIDE DEF lk, lm
    <3>6. lk <= lm
      BY <3>4, <3>5
    <3> QED BY <3>6 DEF lk, lm
  <2>3. ASSUME NEW i \in e + 1..Len(t), i \in LiveKeys(t), m = i + d PROVE t[k].ind <= u[m].ind
    <3>1. i < k
      BY <1>1, <1>5, <2>3
    <3>2. p < i
      BY <1>1, <1>4, <1>5, <1>6, <2>3
    <3>3. t[k].ind <= t[i].ind
      BY <1>4, <2>3, <3>1, <3>2
    <3> QED BY <1>8, <2>3, <3>3
  <2>4. \/ m \in 1..a - 1 /\ m \in LiveKeys(t)
        \/ \E i \in 1..Len(ks) : m = a - 1 + i
        \/ \E i \in e + 1..Len(t) : i \in LiveKeys(t) /\ m = i + d
    BY KeysAfter
  <2> QED BY <2>1, <2>2, <2>3, <2>4
<1>13. ParentIn(u, j) = q
  <2> HIDE DEF j, q
  <2> QED BY <1>1, <1>9, <1>10, <1>11, <1>12, ParentIsThat DEF ParentIn
<1>14. p < n => q = p
  OBVIOUS
<1>15. p > e => q = p + d
  BY <1>1, <1>4
<1> QED BY <1>6, <1>9, <1>13, <1>14, <1>15 DEF p, j

(* Whose the items are after an edit.                                       *)
LEMMA OwnersAfter ==
  ASSUME NEW t, NEW u, NEW n, NEW a, NEW e, NEW d, NEW L, NEW ks, Spliced(t, u, n, a, e, d, L, ks)
  PROVE  /\ \A m \in 1..a - 1 : OwnerIn(u, m) = OwnerIn(t, m)
         /\ \A i \in 1..Len(L) : Len(ks) < i => OwnerIn(u, a - 1 + i) = a - 1 + Len(ks)
         /\ \A m \in e + 1..Len(t) : OwnerIn(t, m) > e => OwnerIn(u, m + d) = OwnerIn(t, m) + d
<1>1. /\ a \in Nat /\ e \in Nat /\ d \in Int /\ 1 <= a /\ a <= e + 1 /\ e <= Len(t)
      /\ Len(t) \in Nat /\ Len(u) \in Nat /\ Len(L) \in Nat /\ Len(ks) \in Nat
      /\ Len(u) = Len(t) + d /\ a - 1 + Len(L) = e + d /\ Len(ks) <= Len(L) /\ e + d >= 0
      /\ Len(ks) < Len(L) => Len(ks) >= 1
  BY SplicedNumbers
<1>2. Lines(t) /\ Lines(u)
  BY DEF Spliced
<1>3. /\ \A k \in LiveKeys(t) : k \in Nat /\ 1 <= k /\ k <= Len(t)
      /\ \A k \in LiveKeys(u) : k \in Nat /\ 1 <= k /\ k <= Len(u)
  BY <1>2, LinesAre
<1>4. ASSUME NEW m \in 1..a - 1 PROVE OwnerIn(u, m) = OwnerIn(t, m)
  <2>1. ASSUME NEW k, k \in LiveKeys(u) \cup LiveKeys(t), k < m PROVE k \in LiveKeys(u) <=> k \in LiveKeys(t)
    <3>1. k \in 1..a - 1
      BY <1>1, <1>3, <2>1
    <3> QED BY <3>1, KeysAfter
  <2>2. {k \in LiveKeys(u) : k < m} = {k \in LiveKeys(t) : k < m}
    BY <2>1
  <2> QED BY <2>2 DEF OwnerIn
<1>5. ASSUME NEW i \in 1..Len(L), Len(ks) < i PROVE OwnerIn(u, a - 1 + i) = a - 1 + Len(ks)
  <2> DEFINE k == a - 1 + Len(ks)
             j == a - 1 + i
  <2>1. Len(ks) \in 1..Len(ks) /\ Len(ks) \in 1..Len(L) /\ Len(ks) <= Len(ks)
    BY <1>1, <1>5
  <2>2. k \in LiveKeys(u)
    BY <2>1, KeysAfter
  <2>3. k < j /\ k \in Nat /\ j \in Nat /\ j \in 1..Len(u) /\ j <= e + d
    BY <1>1, <1>5
  <2>4. ASSUME NEW m \in LiveKeys(u), m < j PROVE m <= k
    <3>1. \/ m \in 1..a - 1
          \/ \E x \in 1..Len(ks) : m = a - 1 + x
          \/ \E x \in e + 1..Len(t) : x \in LiveKeys(t) /\ m = x + d
      BY KeysAfter
    <3>2. m \in 1..a - 1 => m <= k
      BY <1>1
    <3>3. ASSUME NEW x \in 1..Len(ks), m = a - 1 + x PROVE m <= k
      BY <1>1, <3>3
    <3>4. ASSUME NEW x \in e + 1..Len(t), m = x + d PROVE FALSE
      <4>1. m > e + d
        BY <1>1, <3>4
      <4>2. j \in Nat /\ j <= e + d /\ e + d \in Int /\ m \in Nat
        BY <1>1, <1>3, <2>3, <3>4
      <4> HIDE DEF j
      <4> QED BY <2>4, <4>1, <4>2
    <3> QED BY <3>1, <3>2, <3>3, <3>4
  <2> HIDE DEF k, j
  <2>5. OwnerIn(u, j) = k
    BY <1>2, <2>2, <2>3, <2>4, OwnerIsThat
  <2> QED BY <2>5 DEF k, j
<1>6. ASSUME NEW m \in e + 1..Len(t), OwnerIn(t, m) > e PROVE OwnerIn(u, m + d) = OwnerIn(t, m) + d
  <2> DEFINE k == OwnerIn(t, m)
             q == k + d
             j == m + d
  <2>1. m \in Nat /\ e < m /\ m <= Len(t)
    BY <1>1
  <2>2. k \in Nat /\ (k # 0 => k \in LiveKeys(t) /\ k < m) /\ \A x \in LiveKeys(t) : x < m => x <= k
    BY <1>2, <2>1, OwnerIs
  <2>3. k \in LiveKeys(t) /\ k < m /\ k \in e + 1..Len(t)
    BY <1>1, <1>6, <2>1, <2>2
  <2> HIDE DEF k
  <2>4. q \in LiveKeys(u)
    BY <2>3, KeysAfter
  <2>5. q < j /\ j \in Nat
    BY <1>1, <2>1, <2>2, <2>3
  <2>6. ASSUME NEW x \in LiveKeys(u), x < j PROVE x <= q
    <3>1. \/ x \in 1..a - 1
          \/ \E i \in 1..Len(ks) : x = a - 1 + i
          \/ \E y \in e + 1..Len(t) : y \in LiveKeys(t) /\ x = y + d
      BY KeysAfter
    <3>2. x \in 1..a - 1 => x <= q
      BY <1>1, <2>3
    <3>3. ASSUME NEW i \in 1..Len(ks), x = a - 1 + i PROVE x <= q
      BY <1>1, <2>3, <3>3
    <3>4. ASSUME NEW y \in e + 1..Len(t), y \in LiveKeys(t), x = y + d PROVE x <= q
      <4>1. y < m
        BY <1>1, <2>1, <2>6, <3>4
      <4>2. y <= k
        BY <2>2, <3>4, <4>1
      <4> QED BY <1>1, <2>2, <3>4, <4>2
    <3> QED BY <3>1, <3>2, <3>3, <3>4
  <2> HIDE DEF q, j
  <2>7. OwnerIn(u, j) = q
    BY <1>2, <2>4, <2>5, <2>6, OwnerIsThat
  <2> QED BY <2>7 DEF q, j, k
<1> QED BY <1>4, <1>5, <1>6

LiveItem(t, m) == m \in 1..Len(t) /\ t[m].is = "item" /\ Opened(t)[m] = 0

LEMMA ItemsBehind ==
  ASSUME NEW t, NEW u, NEW n, NEW a, NEW e, NEW d, NEW L, NEW ks, Spliced(t, u, n, a, e, d, L, ks),
         NEW m \in e + 1..Len(t)
  PROVE  /\ LiveItem(u, m + d) <=> LiveItem(t, m)
         /\ LiveItem(t, m) => OwnerIn(t, m) > e /\ OwnerIn(u, m + d) = OwnerIn(t, m) + d
<1>1. a \in Nat /\ e \in Nat /\ d \in Int /\ e + d >= 0
  BY SplicedNumbers
<1> DEFINE j == m + d
<1>2. /\ m \in 1..Len(t) /\ j \in 1..Len(u) /\ u[j] = t[m]
      /\ t[m].is # "blank" =>
            \/ Opened(t)[m] = 0 /\ Opened(u)[j] = 0
            \/ Opened(t)[m] \in Nat /\ Opened(t)[m] > e /\ Opened(u)[j] = Opened(t)[m] + d
  BY LinesAfter
<1>3. Opened(t)[m] \in Nat /\ Opened(t)[m] > e => Opened(t)[m] # 0 /\ Opened(t)[m] + d # 0
  BY <1>1
<1> HIDE DEF j
<1>4. LiveItem(u, j) <=> LiveItem(t, m)
  BY <1>2, <1>3 DEF LiveItem
<1>5. LiveItem(t, m) => OwnerIn(t, m) > e
  BY DEF LiveItem, Spliced
<1>6. LiveItem(t, m) => OwnerIn(u, m + d) = OwnerIn(t, m) + d
  BY <1>5, OwnersAfter
<1> QED BY <1>4, <1>5, <1>6 DEF j

LEMMA ItemsInAre ==
  ASSUME NEW t, Lines(t), NEW n
  PROVE  \A m : m \in ItemsIn(t, n) <=> LiveItem(t, m) /\ OwnerIn(t, m) = n
  BY ItemsAre DEF LiveItem

LEMMA ItemsAfter ==
  ASSUME NEW t, NEW u, NEW n, NEW a, NEW e, NEW d, NEW L, NEW ks, Spliced(t, u, n, a, e, d, L, ks)
  PROVE  \A j \in 1..Len(u) : LiveItem(u, j) =>
            \/ j \in 1..a - 1 /\ LiveItem(t, j) /\ OwnerIn(u, j) = OwnerIn(t, j) /\ OwnerIn(t, j) < a
            \/ /\ \E i \in 1..Len(L) : j = a - 1 + i /\ Len(ks) < i
               /\ OwnerIn(u, j) = a - 1 + Len(ks) /\ Len(ks) >= 1
            \/ \E m \in e + 1..Len(t) : /\ j = m + d /\ LiveItem(t, m)
                                        /\ OwnerIn(t, m) > e /\ OwnerIn(u, j) = OwnerIn(t, m) + d
<1>1. /\ Lines(t) /\ a \in Nat /\ Len(L) \in Nat /\ Len(ks) \in Nat /\ (Len(ks) < Len(L) => Len(ks) >= 1)
  <2>1. Lines(t)
    BY DEF Spliced
  <2> QED BY <2>1, SplicedNumbers
<1> SUFFICES ASSUME NEW j \in 1..Len(u), LiveItem(u, j)
             PROVE  \/ j \in 1..a - 1 /\ LiveItem(t, j) /\ OwnerIn(u, j) = OwnerIn(t, j) /\ OwnerIn(t, j) < a
                    \/ /\ \E i \in 1..Len(L) : j = a - 1 + i /\ Len(ks) < i
                       /\ OwnerIn(u, j) = a - 1 + Len(ks) /\ Len(ks) >= 1
                    \/ \E m \in e + 1..Len(t) : /\ j = m + d /\ LiveItem(t, m)
                                                /\ OwnerIn(t, m) > e /\ OwnerIn(u, j) = OwnerIn(t, m) + d
  OBVIOUS
<1>2. \/ j \in 1..a - 1
      \/ \E i \in 1..Len(L) : j = a - 1 + i
      \/ \E m \in e + 1..Len(t) : j = m + d
  BY LinesAfter
<1>3. CASE j \in 1..a - 1
  <2>1. j \in 1..Len(t) /\ u[j] = t[j] /\ Opened(u)[j] = Opened(t)[j] /\ OwnerIn(u, j) = OwnerIn(t, j)
    BY <1>3, LinesAfter, OwnersAfter
  <2>2. LiveItem(t, j)
    BY <2>1 DEF LiveItem
  <2>3. OwnerIn(t, j) < a
    <3>1. j \in Nat /\ j < a
      BY <1>1, <1>3
    <3>2. OwnerIn(t, j) \in Nat /\ (OwnerIn(t, j) = 0 \/ OwnerIn(t, j) < j)
      BY <1>1, <3>1, OwnerIs
    <3> QED BY <1>1, <3>1, <3>2
  <2> QED BY <1>3, <2>1, <2>2, <2>3
<1>4. ASSUME NEW i \in 1..Len(L), j = a - 1 + i
      PROVE  Len(ks) < i /\ Len(ks) >= 1 /\ OwnerIn(u, j) = a - 1 + Len(ks)
  <2>1. u[j] = L[i] /\ NewLine(L, t[n].ind, ks, i)
    BY <1>4, LinesAfter
  <2>2. u[j].is = "item"
    BY DEF LiveItem
  <2>3. ~ (i <= Len(ks))
    BY <2>1, <2>2 DEF NewLine
  <2>4. Len(ks) < i /\ Len(ks) >= 1
    BY <1>1, <2>3
  <2> QED BY <1>4, <2>4, OwnersAfter
<1>5. ASSUME NEW m \in e + 1..Len(t), j = m + d
      PROVE  LiveItem(t, m) /\ OwnerIn(t, m) > e /\ OwnerIn(u, j) = OwnerIn(t, m) + d
  BY <1>5, ItemsBehind
<1> QED BY <1>2, <1>3, <1>4, <1>5

(* The items of each key after an edit.                                     *)
LEMMA ItemsOfKeysAfter ==
  ASSUME NEW t, NEW u, NEW n, NEW a, NEW e, NEW d, NEW L, NEW ks, Spliced(t, u, n, a, e, d, L, ks)
  PROVE  /\ \A k \in LiveKeys(t) : k < a =>
               ItemsIn(u, k) = ItemsIn(t, k) /\ \A m \in ItemsIn(t, k) : m \in 1..a - 1
         /\ \A k \in LiveKeys(t) : k > e =>
               /\ \A m \in ItemsIn(t, k) : m \in e + 1..Len(t) /\ m + d \in ItemsIn(u, k + d)
               /\ \A j \in ItemsIn(u, k + d) : \E m \in ItemsIn(t, k) : j = m + d
         /\ \A i \in 1..Len(ks) : \A j :
               j \in ItemsIn(u, a - 1 + i) <=> i = Len(ks) /\ j \in a + Len(ks)..e + d
<1>1. /\ n \in Nat /\ a \in Nat /\ e \in Nat /\ d \in Int
      /\ 1 <= n /\ n <= a /\ n <= e /\ a <= e + 1 /\ e <= Len(t) /\ (a = n \/ a = e + 1)
      /\ Len(t) \in Nat /\ Len(u) \in Nat /\ Len(L) \in Nat /\ Len(ks) \in Nat
      /\ Len(u) = Len(t) + d /\ a - 1 + Len(L) = e + d /\ Len(ks) <= Len(L) /\ e + d >= 0
  BY SplicedNumbers
<1>2. Lines(t) /\ Lines(u) /\ n \in LiveKeys(t)
  BY DEF Spliced
<1>3. \A k \in LiveKeys(t) : k \in Nat /\ 1 <= k /\ k <= Len(t)
  BY <1>2, LinesAre
<1>4. ASSUME NEW k \in LiveKeys(t), k < a, NEW m \in ItemsIn(t, k)
      PROVE  m \in 1..a - 1 /\ m \in ItemsIn(u, k)
  <2>1. LiveItem(t, m) /\ OwnerIn(t, m) = k
    BY <1>2, ItemsInAre
  <2>2. m \in Nat /\ 1 <= m /\ m <= Len(t) /\ t[m].is = "item"
    BY <1>1, <2>1 DEF LiveItem
  <2>3. m <= e
    <3> SUFFICES ASSUME e < m PROVE FALSE
      BY <1>1, <2>2
    <3>1. m \in e + 1..Len(t)
      BY <1>1, <2>2
    <3>2. k > e
      BY <2>1, <3>1, ItemsBehind
    <3> QED BY <1>1, <1>3, <1>4, <3>2
  <2>4. m < a
    <3> SUFFICES ASSUME a <= m PROVE FALSE
      BY <1>1, <2>2
    <3>1. a = n
      BY <1>1, <2>2, <2>3
    <3>2. t[n].is = "key"
      BY <1>2, LinesAre
    <3>3. n # m
      BY <2>2, <3>2
    <3>4. n <= k
      <4>1. n < m
        BY <1>1, <2>2, <3>1, <3>3
      <4> QED BY <1>2, <2>1, <2>2, <4>1, OwnerIs
    <3> QED BY <1>1, <1>3, <1>4, <3>1, <3>4
  <2>5. m \in 1..a - 1
    BY <1>1, <2>2, <2>4
  <2>6. m \in 1..Len(u) /\ u[m] = t[m] /\ Opened(u)[m] = Opened(t)[m] /\ OwnerIn(u, m) = OwnerIn(t, m)
    BY <2>5, LinesAfter, OwnersAfter
  <2>7. LiveItem(u, m) /\ OwnerIn(u, m) = k
    BY <2>1, <2>6 DEF LiveItem
  <2> QED BY <1>2, <2>5, <2>7, ItemsInAre
<1>5. ASSUME NEW k \in LiveKeys(t), k < a, NEW j \in ItemsIn(u, k)
      PROVE  j \in ItemsIn(t, k)
  <2>1. LiveItem(u, j) /\ OwnerIn(u, j) = k /\ j \in 1..Len(u)
    BY <1>2, ItemsInAre DEF LiveItem
  <2>2. \/ j \in 1..a - 1 /\ LiveItem(t, j) /\ OwnerIn(u, j) = OwnerIn(t, j) /\ OwnerIn(t, j) < a
        \/ OwnerIn(u, j) = a - 1 + Len(ks) /\ Len(ks) >= 1
        \/ \E m \in e + 1..Len(t) : OwnerIn(t, m) > e /\ OwnerIn(u, j) = OwnerIn(t, m) + d
    BY <2>1, ItemsAfter
  <2>3. ~ (OwnerIn(u, j) = a - 1 + Len(ks) /\ Len(ks) >= 1)
    BY <1>1, <1>3, <1>5, <2>1
  <2>4. ASSUME NEW m \in e + 1..Len(t), OwnerIn(t, m) > e, OwnerIn(u, j) = OwnerIn(t, m) + d PROVE FALSE
    <3>1. OwnerIn(t, m) \in Nat
      BY <1>1, <1>2, OwnerIs
    <3>2. OwnerIn(t, m) + d >= a
      BY <1>1, <2>4, <3>1
    <3> QED BY <1>1, <1>3, <1>5, <2>1, <2>4, <3>2
  <2>5. LiveItem(t, j) /\ OwnerIn(t, j) = k
    BY <2>1, <2>2, <2>3, <2>4
  <2> QED BY <1>2, <2>5, ItemsInAre
<1>6. ASSUME NEW k \in LiveKeys(t), k < a
      PROVE  ItemsIn(u, k) = ItemsIn(t, k) /\ \A m \in ItemsIn(t, k) : m \in 1..a - 1
  BY <1>4, <1>5, <1>6
<1>7. ASSUME NEW k \in LiveKeys(t), k > e, NEW m \in ItemsIn(t, k)
      PROVE  m \in e + 1..Len(t) /\ m + d \in ItemsIn(u, k + d)
  <2>1. LiveItem(t, m) /\ OwnerIn(t, m) = k /\ m \in 1..Len(t)
    BY <1>2, ItemsInAre DEF LiveItem
  <2>2. m \in Nat /\ k < m
    <3>1. m \in Nat /\ k # 0
      BY <1>1, <1>3, <2>1
    <3> QED BY <1>2, <2>1, <3>1, OwnerIs
  <2>3. m \in e + 1..Len(t)
    BY <1>1, <1>3, <1>7, <2>1, <2>2
  <2>4. LiveItem(u, m + d) /\ OwnerIn(u, m + d) = k + d
    BY <2>1, <2>3, ItemsBehind
  <2> QED BY <1>2, <2>3, <2>4, ItemsInAre
<1>8. ASSUME NEW k \in LiveKeys(t), k > e, NEW j \in ItemsIn(u, k + d)
      PROVE  \E m \in ItemsIn(t, k) : j = m + d
  <2>1. LiveItem(u, j) /\ OwnerIn(u, j) = k + d /\ j \in 1..Len(u)
    BY <1>2, ItemsInAre DEF LiveItem
  <2>2. \/ OwnerIn(u, j) = OwnerIn(t, j) /\ OwnerIn(t, j) < a /\ j \in 1..a - 1
        \/ OwnerIn(u, j) = a - 1 + Len(ks) /\ Len(ks) >= 1
        \/ \E m \in e + 1..Len(t) : /\ j = m + d /\ LiveItem(t, m)
                                    /\ OwnerIn(t, m) > e /\ OwnerIn(u, j) = OwnerIn(t, m) + d
    BY <2>1, ItemsAfter
  <2>3. k + d >= a + Len(L) /\ k \in Nat
    BY <1>1, <1>3, <1>8
  <2>4. ~ (OwnerIn(u, j) = OwnerIn(t, j) /\ OwnerIn(t, j) < a /\ j \in 1..a - 1)
    BY <1>1, <2>1, <2>3
  <2>5. ~ (OwnerIn(u, j) = a - 1 + Len(ks) /\ Len(ks) >= 1)
    BY <1>1, <2>1, <2>3
  <2>6. PICK m \in e + 1..Len(t) : j = m + d /\ LiveItem(t, m) /\ OwnerIn(u, j) = OwnerIn(t, m) + d
    BY <2>2, <2>4, <2>5
  <2>7. OwnerIn(t, m) \in Nat
    BY <1>1, <1>2, OwnerIs
  <2>8. OwnerIn(t, m) = k
    BY <1>1, <2>1, <2>3, <2>6, <2>7
  <2>9. m \in ItemsIn(t, k)
    BY <1>2, <2>6, <2>8, ItemsInAre
  <2> QED BY <2>6, <2>9
<1>9. ASSUME NEW i \in 1..Len(ks), NEW j
      PROVE  j \in ItemsIn(u, a - 1 + i) <=> i = Len(ks) /\ j \in a + Len(ks)..e + d
  <2> DEFINE k == a - 1 + i
  <2>1. k \in Nat /\ a <= k /\ k <= a - 1 + Len(ks) /\ i \in Nat /\ i <= Len(ks)
    BY <1>1
  <2>2. ASSUME j \in ItemsIn(u, k) PROVE i = Len(ks) /\ j \in a + Len(ks)..e + d
    <3> HIDE DEF k
    <3>1. LiveItem(u, j) /\ OwnerIn(u, j) = k /\ j \in 1..Len(u)
      BY <1>2, <2>2, ItemsInAre DEF LiveItem
    <3>2. \/ OwnerIn(u, j) = OwnerIn(t, j) /\ OwnerIn(t, j) < a /\ j \in 1..a - 1
          \/ /\ \E x \in 1..Len(L) : j = a - 1 + x /\ Len(ks) < x
             /\ OwnerIn(u, j) = a - 1 + Len(ks)
          \/ \E m \in e + 1..Len(t) : /\ OwnerIn(t, m) > e /\ OwnerIn(u, j) = OwnerIn(t, m) + d
      BY <3>1, ItemsAfter
    <3>3. ~ (OwnerIn(u, j) = OwnerIn(t, j) /\ OwnerIn(t, j) < a /\ j \in 1..a - 1)
      BY <1>1, <2>1, <3>1
    <3>4. ASSUME NEW m \in e + 1..Len(t), OwnerIn(t, m) > e, OwnerIn(u, j) = OwnerIn(t, m) + d PROVE FALSE
      <4>1. OwnerIn(t, m) \in Nat
        BY <1>1, <1>2, OwnerIs
      <4>2. OwnerIn(t, m) + d > a - 1 + Len(ks)
        BY <1>1, <3>4, <4>1
      <4> QED BY <1>1, <2>1, <3>1, <3>4, <4>2
    <3>5. PICK x \in 1..Len(L) : j = a - 1 + x /\ Len(ks) < x
      BY <3>2, <3>3, <3>4
    <3>6. k = a - 1 + Len(ks)
      BY <3>1, <3>2, <3>3, <3>4
    <3>7. i = Len(ks)
      BY <1>1, <3>6 DEF k
    <3>8. j \in a + Len(ks)..e + d
      BY <1>1, <3>5
    <3> QED BY <3>7, <3>8
  <2>3. ASSUME i = Len(ks), j \in a + Len(ks)..e + d PROVE j \in ItemsIn(u, k)
    <3> DEFINE x == j - (a - 1)
    <3>1. x \in 1..Len(L) /\ a - 1 + x = j /\ Len(ks) < x
      BY <1>1, <2>3
    <3> HIDE DEF x
    <3>2. j \in 1..Len(u) /\ u[j] = L[x] /\ Opened(u)[j] = 0 /\ NewLine(L, t[n].ind, ks, x)
      BY <3>1, LinesAfter
    <3>3. ~ (x <= Len(ks))
      BY <1>1, <3>1
    <3>4. u[j].is = "item"
      BY <3>2, <3>3 DEF NewLine
    <3>5. OwnerIn(u, j) = a - 1 + Len(ks)
      BY <3>1, OwnersAfter
    <3>6. OwnerIn(u, j) = k
      BY <2>3, <3>5
    <3>7. LiveItem(u, j)
      BY <3>2, <3>4 DEF LiveItem
    <3> HIDE DEF k
    <3> QED BY <1>2, <3>6, <3>7, ItemsInAre
  <2> QED BY <2>2, <2>3
<1> QED BY <1>6, <1>7, <1>8, <1>9

-----------------------------------------------------------------------------
(* The path the new keys lie on.                                            *)
Base(t, n) == IF ParentIn(t, n) = 0 THEN <<>> ELSE PathIn(t, ParentIn(t, n))
Leads(t, n, ks, p) ==
  /\ p \in KeyPath /\ IsPrefix(Base(t, n), p) /\ Len(Base(t, n)) + Len(ks) <= Len(p)
  /\ \A i \in 1..Len(ks) : p[Len(Base(t, n)) + i] = ks[i]
OnPath(q, p, len) == q \in KeyPath /\ IsPrefix(q, p) /\ Len(q) = len

LEMMA StepOnPath ==
  ASSUME NEW p \in KeyPath, NEW q \in KeyPath, IsPrefix(q, p), Len(q) + 1 <= Len(p)
  PROVE  p[Len(q) + 1] \in KeyName /\ OnPath(Append(q, p[Len(q) + 1]), p, Len(q) + 1)
<1> DEFINE l == Len(q) + 1
           k == p[l]
           b == Append(q, k)
<1>1. Len(q) \in Nat /\ Len(p) \in Nat /\ \A i \in 1..Len(q) : q[i] = p[i]
  BY PrefixIs
<1>2. l \in 1..Len(p) /\ l \in Nat
  BY <1>1
<1>3. k \in KeyName
  <2> HIDE DEF l
  <2> QED BY <1>2, ElementOfSeq DEF KeyPath
<1> HIDE DEF k
<1>4. b \in KeyPath /\ Len(b) = l /\ (\A i \in 1..Len(q) : b[i] = q[i]) /\ b[l] = k
  BY <1>3, AppendIs DEF KeyPath
<1> HIDE DEF b
<1>5. \A i \in 1..l : i = l \/ i \in 1..Len(q)
  BY <1>1
<1>6. \A i \in 1..Len(b) : b[i] = p[i]
  BY <1>1, <1>4, <1>5 DEF k
<1>7. l <= Len(p)
  BY <1>2
<1> HIDE DEF l
<1>8. IsPrefix(b, p)
  BY <1>4, <1>6, <1>7, PrefixIs
<1> QED BY <1>3, <1>4, <1>8 DEF OnPath, b, k, l

LEMMA BaseIs ==
  ASSUME NEW t, Lines(t), NEW n \in LiveKeys(t)
  PROVE  /\ Base(t, n) \in KeyPath /\ Len(Base(t, n)) \in Nat
         /\ Len(PathIn(t, n)) = Len(Base(t, n)) + 1
         /\ IsPrefix(Base(t, n), PathIn(t, n))
         /\ PathIn(t, n)[Len(Base(t, n)) + 1] = t[n].key
<1> DEFINE p == ParentIn(t, n)
           b == Base(t, n)
           a == PathIn(t, n)
           k == t[n].key
<1>1. PathAsSaid(t, n) /\ (p # 0 => p \in LiveKeys(t) /\ PathAsSaid(t, p))
  BY PathIs, ParentIs DEF ParentIn
<1>2. k \in KeyName
  BY <1>1 DEF PathAsSaid
<1>3. CASE p = 0
  <2>1. b = <<>> /\ a = <<k>>
    BY <1>1, <1>3 DEF PathAsSaid, Base
  <2>2. b \in KeyPath /\ Len(b) = 0
    BY <2>1, EmptySeq DEF KeyPath
  <2> HIDE DEF a, b, k
  <2>3. a \in KeyPath /\ Len(a) = 1 /\ a[1] = k
    BY <1>2, <2>1, OneKey
  <2>4. IsPrefix(b, a)
    BY <2>2, <2>3, PrefixIs
  <2>5. Len(b) + 1 = 1
    BY <2>2
  <2> QED BY <2>2, <2>3, <2>4, <2>5 DEF a, b, k
<1>4. CASE p # 0
  <2>1. b \in KeyPath /\ a = Append(b, k)
    BY <1>1, <1>4 DEF PathAsSaid, Base
  <2> HIDE DEF a, b, k
  <2>2. Len(a) = Len(b) + 1 /\ IsPrefix(b, a) /\ Len(b) \in Nat
    BY <1>2, <2>1, PrefixOfLonger
  <2>3. a[Len(b) + 1] = k
    BY <1>2, <2>1, AppendIs DEF KeyPath
  <2> QED BY <2>1, <2>2, <2>3 DEF a, b, k
<1> QED BY <1>3, <1>4

(* The keys that are kept keep their paths, the new ones lie on the path.    *)
LEMMA PathsAbove ==
  ASSUME NEW t, NEW u, NEW n, NEW a, NEW e, NEW d, NEW L, NEW ks, Spliced(t, u, n, a, e, d, L, ks)
  PROVE  \A k \in LiveKeys(t) : k < a => PathIn(u, k) = PathIn(t, k)
<1> DEFINE S == {k \in Nat : k \in LiveKeys(t) /\ k < a => PathIn(u, k) = PathIn(t, k)}
<1>1. Lines(t) /\ Lines(u) /\ a \in Nat
  BY SplicedNumbers DEF Spliced
<1>2. \A k \in LiveKeys(t) : k \in Nat /\ 1 <= k
  BY <1>1, LinesAre
<1>3. ASSUME NEW k \in Nat, 0 <= k, 0..k - 1 \subseteq S, k \in LiveKeys(t), k < a
      PROVE  PathIn(u, k) = PathIn(t, k)
  <2> DEFINE p == ParentIn(t, k)
  <2>1. k \in LiveKeys(u) /\ ParentIn(u, k) = p
    BY <1>3, ParentsAbove
  <2>2. u[k] = t[k]
    <3>1. k \in 1..a - 1
      BY <1>1, <1>2, <1>3
    <3> QED BY <3>1, LinesAfter
  <2>3. PathAsSaid(t, k) /\ PathAsSaid(u, k)
    BY <1>1, <1>3, <2>1, PathIs
  <2>4. p \in Nat /\ p < k /\ (p # 0 => p \in LiveKeys(t))
    BY <1>1, <1>3, ParentIs DEF ParentIn
  <2>5. p # 0 => PathIn(u, p) = PathIn(t, p)
    <3> SUFFICES ASSUME p # 0 PROVE PathIn(u, p) = PathIn(t, p)
      OBVIOUS
    <3>1. p \in 0..k - 1 /\ p < a
      BY <1>1, <1>3, <2>4
    <3> QED BY <1>3, <2>4, <3>1
  <2> QED BY <2>1, <2>2, <2>3, <2>5 DEF PathAsSaid
<1>4. \A k \in Nat : 0 <= k /\ 0..k - 1 \subseteq S => k \in S
  BY <1>3
<1>5. \A k \in Nat : 0 <= k => k \in S
  <2> HIDE DEF S
  <2> QED BY <1>4, Upward
<1> QED BY <1>2, <1>5

LEMMA PathsBehind ==
  ASSUME NEW t, NEW u, NEW n, NEW a, NEW e, NEW d, NEW L, NEW ks, Spliced(t, u, n, a, e, d, L, ks)
  PROVE  \A k \in LiveKeys(t) : k > e => k + d \in LiveKeys(u) /\ PathIn(u, k + d) = PathIn(t, k)
<1> DEFINE S == {k \in Nat : k \in LiveKeys(t) /\ k > e => PathIn(u, k + d) = PathIn(t, k)}
<1>1. Lines(t) /\ Lines(u) /\ a \in Nat /\ e \in Nat /\ d \in Int /\ n \in Nat /\ n <= a /\ n <= e /\ e + d >= 0
  <2>1. Lines(t) /\ Lines(u)
    BY DEF Spliced
  <2> QED BY <2>1, SplicedNumbers
<1>2. \A k \in LiveKeys(t) : k \in Nat /\ 1 <= k /\ k <= Len(t) /\ Len(t) \in Nat
  BY <1>1, LinesAre
<1>3. ASSUME NEW k \in Nat, 0 <= k, 0..k - 1 \subseteq S, k \in LiveKeys(t), k > e
      PROVE  PathIn(u, k + d) = PathIn(t, k)
  <2> DEFINE p == ParentIn(t, k)
             j == k + d
             q == ParentIn(u, j)
  <2>1. j \in LiveKeys(u) /\ ((p < n /\ q = p) \/ (p > e /\ q = p + d))
    BY <1>3, ParentsBehind
  <2>2. u[j] = t[k]
    <3>1. k \in e + 1..Len(t)
      BY <1>1, <1>2, <1>3
    <3> QED BY <3>1, LinesAfter
  <2>3. PathAsSaid(t, k) /\ PathAsSaid(u, j)
    BY <1>1, <1>3, <2>1, PathIs
  <2>4. p \in Nat /\ p < k /\ (p # 0 => p \in LiveKeys(t))
    BY <1>1, <1>3, ParentIs DEF ParentIn
  <2>5. p = 0 <=> q = 0
    <3> HIDE DEF p, q
    <3> QED BY <1>1, <2>1, <2>4
  <2>6. p # 0 => PathIn(u, q) = PathIn(t, p)
    <3> SUFFICES ASSUME p # 0 PROVE PathIn(u, q) = PathIn(t, p)
      OBVIOUS
    <3>1. CASE p < n /\ q = p
      <4>1. p < a
        BY <1>1, <2>4, <3>1
      <4> QED BY <2>4, <3>1, <4>1, PathsAbove
    <3>2. CASE p > e /\ q = p + d
      <4>1. p \in 0..k - 1
        BY <1>1, <1>3, <2>4
      <4>2. PathIn(u, p + d) = PathIn(t, p)
        BY <1>3, <2>4, <3>2, <4>1
      <4> QED BY <3>2, <4>2
    <3> QED BY <2>1, <3>1, <3>2
  <2> HIDE DEF j
  <2>7. PathIn(u, j) = PathIn(t, k)
    BY <2>2, <2>3, <2>5, <2>6 DEF PathAsSaid
  <2> QED BY <2>7 DEF j
<1>4. \A k \in Nat : 0 <= k /\ 0..k - 1 \subseteq S => k \in S
  BY <1>3
<1>5. \A k \in Nat : 0 <= k => k \in S
  <2> HIDE DEF S
  <2> QED BY <1>4, Upward
<1> QED BY <1>2, <1>5, ParentsBehind

LEMMA PathsNew ==
  ASSUME NEW t, NEW u, NEW n, NEW a, NEW e, NEW d, NEW L, NEW ks, Spliced(t, u, n, a, e, d, L, ks),
         NEW p, Leads(t, n, ks, p)
  PROVE  \A i \in 1..Len(ks) :
            a - 1 + i \in LiveKeys(u) /\ OnPath(PathIn(u, a - 1 + i), p, Len(Base(t, n)) + i)
<1> DEFINE b == Base(t, n)
           q(i) == PathIn(u, a - 1 + i)
           S == {i \in Nat : i <= Len(ks) => OnPath(q(i), p, Len(b) + i)}
<1>1. /\ Lines(t) /\ Lines(u) /\ n \in LiveKeys(t)
      /\ a \in Nat /\ 1 <= a /\ Len(ks) \in Nat /\ Len(L) \in Nat /\ Len(ks) <= Len(L)
      /\ n \in Nat /\ 1 <= n /\ n <= a
  <2>1. Lines(t) /\ Lines(u) /\ n \in LiveKeys(t)
    BY DEF Spliced
  <2>2. 1 <= a /\ a \in Nat
    BY SplicedNumbers
  <2> QED BY <2>1, <2>2, SplicedNumbers
<1>2. b \in KeyPath /\ Len(b) \in Nat
  BY <1>1, BaseIs
<1>3. /\ p \in KeyPath /\ IsPrefix(b, p) /\ Len(b) + Len(ks) <= Len(p) /\ Len(p) \in Nat
      /\ \A i \in 1..Len(ks) : p[Len(b) + i] = ks[i]
  BY PrefixIs DEF Leads, KeyPath
<1>4. ASSUME NEW i \in Nat, 1 <= i, 1..i - 1 \subseteq S, i <= Len(ks)
      PROVE  OnPath(q(i), p, Len(b) + i)
  <2> DEFINE j == a - 1 + i
             m == IF i = 1 THEN ParentIn(t, n) ELSE a - 1 + i - 1
             c == IF i = 1 THEN b ELSE q(i - 1)
  <2>1. i \in 1..Len(ks) /\ i \in 1..Len(L)
    BY <1>1, <1>4
  <2>2. j \in LiveKeys(u) /\ ParentIn(u, j) = m
    BY <2>1, ParentsNew
  <2>3. u[j].key = ks[i]
    <3>1. u[j] = L[i] /\ NewLine(L, t[n].ind, ks, i)
      BY <2>1, LinesAfter
    <3> QED BY <1>4, <3>1 DEF NewLine
  <2>4. PathAsSaid(u, j)
    BY <1>1, <2>2, PathIs
  <2>5. OnPath(c, p, Len(b) + i - 1)
    <3>1. CASE i = 1
      <4>1. c = b /\ Len(b) + i - 1 = Len(b)
        BY <1>2, <3>1
      <4> QED BY <1>2, <1>3, <4>1 DEF OnPath
    <3>2. CASE i # 1
      <4> DEFINE h == i - 1
      <4>1. h \in 1..i - 1 /\ h \in Nat /\ h <= Len(ks) /\ Len(b) + h = Len(b) + i - 1
        BY <1>1, <1>2, <1>4, <3>2
      <4>2. h \in S
        BY <1>4, <4>1
      <4> HIDE DEF h
      <4>3. OnPath(q(h), p, Len(b) + h)
        BY <4>1, <4>2
      <4> QED BY <3>2, <4>1, <4>3 DEF h
    <3> QED BY <3>1, <3>2
  <2>6. PathIn(u, j) = Append(c, ks[i])
    <3>1. CASE m = 0
      <4>1. i = 1 /\ ParentIn(t, n) = 0
        BY <1>1, <1>4, <3>1
      <4>2. c = <<>>
        BY <4>1 DEF Base
      <4>3. PathIn(u, j) = <<ks[i]>>
        BY <2>2, <2>3, <2>4, <3>1 DEF PathAsSaid
      <4>4. Append(<<>>, ks[i]) = <<ks[i]>>
        OBVIOUS
      <4> QED BY <4>2, <4>3, <4>4
    <3>2. CASE m # 0
      <4>1. PathIn(u, j) = Append(PathIn(u, m), ks[i])
        BY <2>2, <2>3, <2>4, <3>2 DEF PathAsSaid
      <4>2. PathIn(u, m) = c
        <5>1. CASE i = 1
          <6>1. m = ParentIn(t, n) /\ c = PathIn(t, m)
            BY <3>2, <5>1 DEF Base
          <6>2. m \in LiveKeys(t) /\ m < n /\ m \in Nat
            BY <1>1, <3>2, <6>1, ParentIs DEF ParentIn
          <6> HIDE DEF m
          <6>3. m < a
            BY <1>1, <6>2
          <6> QED BY <6>1, <6>2, <6>3, PathsAbove
        <5>2. CASE i # 1
          <6>1. a - 1 + i - 1 = a - 1 + (i - 1)
            BY <1>1
          <6> QED BY <5>2, <6>1
        <5> QED BY <5>1, <5>2
      <4> QED BY <4>1, <4>2
    <3> QED BY <3>1, <3>2
  <2> HIDE DEF c
  <2>7. c \in KeyPath /\ IsPrefix(c, p) /\ Len(c) = Len(b) + i - 1
    BY <2>5 DEF OnPath
  <2>8. Len(c) + 1 <= Len(p) /\ Len(c) + 1 = Len(b) + i
    BY <1>1, <1>2, <1>3, <1>4, <2>7
  <2>9. OnPath(Append(c, p[Len(c) + 1]), p, Len(c) + 1)
    BY <1>3, <2>7, <2>8, StepOnPath
  <2>10. p[Len(c) + 1] = ks[i]
    BY <1>3, <2>1, <2>8
  <2> QED BY <2>6, <2>8, <2>9, <2>10
<1> HIDE DEF q
<1>5. \A i \in Nat : 1 <= i /\ 1..i - 1 \subseteq S => i \in S
  BY <1>4
<1>6. \A i \in Nat : 1 <= i => i \in S
  <2> HIDE DEF S
  <2> QED BY <1>5, Upward
<1>7. \A i \in 1..Len(ks) : i \in Nat /\ 1 <= i /\ i <= Len(ks)
  BY <1>1
<1> QED BY <1>6, <1>7, ParentsNew DEF q
-----------------------------------------------------------------------------
(* An edit keeps a text well formed, if the new keys are nowhere else.       *)
Fresh(t, u, a, e, ks) ==
  Len(ks) >= 1 => \A k \in LiveKeys(t) : k < a \/ e < k => ~ IsPrefix(PathIn(u, a), PathIn(t, k))
NoNote == ""
Noted(t, n, L) == \A i \in 1..Len(L) : L[i].note = NoNote \/ L[i].note = t[n].note

LEMMA KeysFrom ==
  ASSUME NEW t, NEW u, NEW n, NEW a, NEW e, NEW d, NEW L, NEW ks, Spliced(t, u, n, a, e, d, L, ks)
  PROVE  \A j \in LiveKeys(u) :
            \/ \E k \in LiveKeys(t) :
                  /\ u[j].ind = t[k].ind
                  /\ \/ ParentIn(t, k) < a /\ ParentIn(u, j) = ParentIn(t, k)
                     \/ ParentIn(t, k) > e /\ ParentIn(u, j) = ParentIn(t, k) + d
            \/ \E i \in 1..Len(ks) : i < Len(ks) /\ j = a + i /\ ParentIn(u, j) = a - 1 + i
<1>1. /\ n \in Nat /\ a \in Nat /\ e \in Nat /\ d \in Int /\ Len(ks) \in Nat /\ Len(L) \in Nat /\ Len(ks) <= Len(L)
      /\ 1 <= n /\ n <= a
  BY SplicedNumbers
<1>2. Lines(t) /\ n \in LiveKeys(t)
  BY DEF Spliced
<1>3. ASSUME NEW j \in 1..a - 1, j \in LiveKeys(t)
      PROVE  u[j].ind = t[j].ind /\ ParentIn(t, j) < a /\ ParentIn(u, j) = ParentIn(t, j)
  <2>1. j < a /\ j \in Nat
    BY <1>1
  <2>2. ParentIn(t, j) \in Nat /\ ParentIn(t, j) < j
    BY <1>2, <1>3, ParentIs DEF ParentIn
  <2>3. ParentIn(t, j) < a
    BY <1>1, <2>1, <2>2
  <2>4. u[j] = t[j]
    BY LinesAfter
  <2> QED BY <1>3, <2>1, <2>3, <2>4, ParentsAbove
<1>4. ASSUME NEW m \in e + 1..Len(t), m \in LiveKeys(t)
      PROVE  /\ u[m + d].ind = t[m].ind
             /\ \/ ParentIn(t, m) < a /\ ParentIn(u, m + d) = ParentIn(t, m)
                \/ ParentIn(t, m) > e /\ ParentIn(u, m + d) = ParentIn(t, m) + d
  <2>1. m > e
    BY <1>1
  <2>2. u[m + d] = t[m]
    BY LinesAfter
  <2>3. \/ ParentIn(t, m) < n /\ ParentIn(u, m + d) = ParentIn(t, m)
        \/ ParentIn(t, m) > e /\ ParentIn(u, m + d) = ParentIn(t, m) + d
    BY <1>4, <2>1, ParentsBehind
  <2>4. ParentIn(t, m) \in Nat
    BY <1>2, <1>4, ParentIs DEF ParentIn
  <2>5. ParentIn(t, m) < n => ParentIn(t, m) < a
    BY <1>1, <2>4
  <2> QED BY <2>2, <2>3, <2>5
<1>5. ASSUME NEW i \in 1..Len(ks), i = 1
      PROVE  /\ u[a - 1 + i].ind = t[n].ind
             /\ ParentIn(t, n) < a /\ ParentIn(u, a - 1 + i) = ParentIn(t, n)
  <2>1. i \in 1..Len(L) /\ i <= Len(ks)
    BY <1>1
  <2>2. u[a - 1 + i] = L[i] /\ NewLine(L, t[n].ind, ks, i)
    BY <2>1, LinesAfter
  <2>3. u[a - 1 + i].ind = t[n].ind + i - 1
    BY <2>1, <2>2 DEF NewLine
  <2>4. t[n].ind \in Nat
    BY SplicedNumbers
  <2>5. u[a - 1 + i].ind = t[n].ind
    BY <1>5, <2>3, <2>4
  <2>6. ParentIn(u, a - 1 + i) = ParentIn(t, n)
    BY <1>5, ParentsNew
  <2>7. ParentIn(t, n) \in Nat /\ ParentIn(t, n) < n
    BY <1>2, ParentIs DEF ParentIn
  <2>8. ParentIn(t, n) < a
    BY <1>1, <2>7
  <2> QED BY <2>5, <2>6, <2>8
<1>6. ASSUME NEW i \in 1..Len(ks), i # 1
      PROVE  \E x \in 1..Len(ks) : /\ x < Len(ks) /\ a - 1 + i = a + x
                                   /\ ParentIn(u, a - 1 + i) = a - 1 + x
  <2> DEFINE x == i - 1
  <2>1. x \in 1..Len(ks) /\ x < Len(ks) /\ a - 1 + i = a + x /\ a - 1 + i - 1 = a - 1 + x
    BY <1>1, <1>6
  <2>2. ParentIn(u, a - 1 + i) = a - 1 + i - 1
    BY <1>6, ParentsNew
  <2> QED BY <2>1, <2>2
<1> SUFFICES ASSUME NEW j \in LiveKeys(u)
             PROVE  \/ \E k \in LiveKeys(t) :
                          /\ u[j].ind = t[k].ind
                          /\ \/ ParentIn(t, k) < a /\ ParentIn(u, j) = ParentIn(t, k)
                             \/ ParentIn(t, k) > e /\ ParentIn(u, j) = ParentIn(t, k) + d
                    \/ \E i \in 1..Len(ks) : i < Len(ks) /\ j = a + i /\ ParentIn(u, j) = a - 1 + i
  OBVIOUS
<1>7. \/ j \in 1..a - 1 /\ j \in LiveKeys(t)
      \/ \E i \in 1..Len(ks) : j = a - 1 + i
      \/ \E m \in e + 1..Len(t) : m \in LiveKeys(t) /\ j = m + d
  BY KeysAfter
<1> QED BY <1>2, <1>3, <1>4, <1>5, <1>6, <1>7

LEMMA ItemsBelongAfter ==
  ASSUME NEW t, NEW u, NEW n, NEW a, NEW e, NEW d, NEW L, NEW ks, Spliced(t, u, n, a, e, d, L, ks),
         ItemsBelong(t)
  PROVE  ItemsBelong(u)
<1>1. /\ n \in Nat /\ a \in Nat /\ e \in Nat /\ d \in Int /\ Len(ks) \in Nat /\ Len(L) \in Nat /\ Len(ks) <= Len(L)
      /\ a - 1 + Len(L) = e + d /\ e + d >= 0 /\ t[n].ind \in Nat /\ Len(t) \in Nat /\ a <= e + 1
      /\ 1 <= n /\ n <= a
  BY SplicedNumbers
<1>2. Lines(t) /\ Lines(u) /\ Block(L, t[n].ind, ks)
  BY DEF Spliced
<1>3. \A k \in LiveKeys(t) : k \in Nat /\ 1 <= k /\ k <= Len(t)
  BY <1>2, LinesAre
<1> DEFINE Good(j) == /\ OwnerIn(u, j) # 0 /\ u[OwnerIn(u, j)].form = "nest"
                      /\ u[OwnerIn(u, j)].ind <= u[j].ind
                      /\ \A m \in ItemsIn(u, OwnerIn(u, j)) : u[m].ind = u[j].ind
<1>4. ASSUME NEW m \in 1..Len(t), LiveItem(t, m)
      PROVE  LET k == OwnerIn(t, m)
             IN  /\ k \in LiveKeys(t) /\ t[k].form = "nest" /\ t[k].ind <= t[m].ind
                 /\ \A x \in ItemsIn(t, k) : t[x].ind = t[m].ind
  <2>1. OwnerIn(t, m) \in Nat /\ (OwnerIn(t, m) # 0 => OwnerIn(t, m) \in LiveKeys(t))
    BY <1>1, <1>2, OwnerIs
  <2> QED BY <1>4, <2>1 DEF ItemsBelong, LiveItem
<1>5. ASSUME NEW j \in 1..a - 1, LiveItem(t, j), OwnerIn(u, j) = OwnerIn(t, j), OwnerIn(t, j) < a
      PROVE  Good(j)
  <2> DEFINE k == OwnerIn(t, j)
  <2>1. j \in 1..Len(t) /\ u[j] = t[j]
    BY LinesAfter
  <2>2. k \in LiveKeys(t) /\ t[k].form = "nest" /\ t[k].ind <= t[j].ind /\ \A x \in ItemsIn(t, k) : t[x].ind = t[j].ind
    BY <1>4, <1>5, <2>1
  <2> HIDE DEF k
  <2>3. k \in 1..a - 1 /\ k # 0 /\ k < a
    BY <1>1, <1>3, <1>5, <2>2 DEF k
  <2>4. u[k] = t[k]
    BY <2>3, LinesAfter
  <2>5. ItemsIn(u, k) = ItemsIn(t, k) /\ \A x \in ItemsIn(t, k) : x \in 1..a - 1
    BY <2>2, <2>3, ItemsOfKeysAfter
  <2>6. \A x \in ItemsIn(u, k) : u[x].ind = u[j].ind
    BY <2>1, <2>2, <2>5, LinesAfter
  <2>7. OwnerIn(u, j) = k
    BY <1>5 DEF k
  <2> QED BY <2>1, <2>2, <2>3, <2>4, <2>6, <2>7
<1>6. ASSUME NEW i \in 1..Len(L), Len(ks) < i, Len(ks) >= 1, OwnerIn(u, a - 1 + i) = a - 1 + Len(ks)
      PROVE  Good(a - 1 + i)
  <2> DEFINE l == Len(ks)
             k == a - 1 + l
             I == t[n].ind
  <2>1. l \in 1..Len(L) /\ l < Len(L) /\ k # 0 /\ l <= l /\ l \in 1..l
    BY <1>1, <1>6
  <2>2. u[k] = L[l] /\ NewLine(L, I, ks, l)
    BY <2>1, LinesAfter
  <2>3. u[k].ind = I + l - 1
    BY <2>1, <2>2 DEF NewLine
  <2>4. u[k].form = "nest"
    BY <1>2, <2>1, <2>2 DEF Block
  <2>5. ASSUME NEW x \in 1..Len(L), l < x PROVE u[a - 1 + x].ind = I + l
    <3>1. u[a - 1 + x] = L[x] /\ NewLine(L, I, ks, x)
      BY LinesAfter
    <3>2. ~ (x <= l)
      BY <1>1, <2>5
    <3> QED BY <3>1, <3>2 DEF NewLine
  <2>6. ASSUME NEW m \in ItemsIn(u, k) PROVE u[m].ind = I + l
    <3>1. m \in a + l..e + d
      BY <2>1, <2>6, ItemsOfKeysAfter
    <3> DEFINE x == m - (a - 1)
    <3>2. x \in 1..Len(L) /\ l < x /\ a - 1 + x = m
      BY <1>1, <3>1
    <3> HIDE DEF x, l, I
    <3> QED BY <2>5, <3>2
  <2>7. I + l - 1 <= I + l
    BY <1>1
  <2>8. u[a - 1 + i].ind = I + l
    BY <1>6, <2>5
  <2> HIDE DEF k, I
  <2>9. OwnerIn(u, a - 1 + i) = k
    BY <1>6 DEF k
  <2> QED BY <2>1, <2>3, <2>4, <2>6, <2>7, <2>8, <2>9
<1>7. ASSUME NEW m \in e + 1..Len(t), LiveItem(t, m), OwnerIn(t, m) > e, OwnerIn(u, m + d) = OwnerIn(t, m) + d
      PROVE  Good(m + d)
  <2> DEFINE k == OwnerIn(t, m)
             q == k + d
             j == m + d
  <2>1. m \in 1..Len(t) /\ u[j] = t[m]
    BY LinesAfter
  <2>2. k \in LiveKeys(t) /\ t[k].form = "nest" /\ t[k].ind <= t[m].ind /\ \A x \in ItemsIn(t, k) : t[x].ind = t[m].ind
    BY <1>4, <1>7, <2>1
  <2>3. k > e
    BY <1>7
  <2> HIDE DEF k
  <2>4. k \in e + 1..Len(t) /\ q # 0
    BY <1>1, <1>3, <2>2, <2>3
  <2>5. u[q] = t[k]
    BY <2>4, LinesAfter
  <2>6. /\ \A x \in ItemsIn(t, k) : x \in e + 1..Len(t)
        /\ \A y \in ItemsIn(u, q) : \E x \in ItemsIn(t, k) : y = x + d
    BY <2>2, <2>3, ItemsOfKeysAfter
  <2>7. \A x \in e + 1..Len(t) : u[x + d] = t[x]
    BY LinesAfter
  <2>8. \A y \in ItemsIn(u, q) : u[y].ind = t[m].ind
    BY <2>2, <2>6, <2>7
  <2>9. OwnerIn(u, j) = q
    BY <1>7 DEF k
  <2> HIDE DEF q, j
  <2>10. Good(j)
    BY <2>1, <2>2, <2>4, <2>5, <2>8, <2>9
  <2> QED BY <2>10 DEF j
<1>8. ASSUME NEW j \in 1..Len(u), LiveItem(u, j) PROVE Good(j)
  <2> HIDE DEF Good
  <2>1. \/ j \in 1..a - 1 /\ LiveItem(t, j) /\ OwnerIn(u, j) = OwnerIn(t, j) /\ OwnerIn(t, j) < a
        \/ /\ \E i \in 1..Len(L) : j = a - 1 + i /\ Len(ks) < i
           /\ OwnerIn(u, j) = a - 1 + Len(ks) /\ Len(ks) >= 1
        \/ \E m \in e + 1..Len(t) : /\ j = m + d /\ LiveItem(t, m)
                                    /\ OwnerIn(t, m) > e /\ OwnerIn(u, j) = OwnerIn(t, m) + d
    BY <1>8, ItemsAfter
  <2> QED BY <1>5, <1>6, <1>7, <2>1
<1> QED BY <1>8 DEF ItemsBelong, LiveItem
LEMMA KeysBelongAfter ==
  ASSUME NEW t, NEW u, NEW n, NEW a, NEW e, NEW d, NEW L, NEW ks, Spliced(t, u, n, a, e, d, L, ks),
         KeysBelong(t)
  PROVE  KeysBelong(u)
<1>1. /\ n \in Nat /\ a \in Nat /\ e \in Nat /\ d \in Int /\ Len(ks) \in Nat /\ Len(L) \in Nat /\ Len(ks) <= Len(L)
      /\ a - 1 + Len(L) = e + d /\ a <= e + 1 /\ 1 <= n /\ n <= a
  BY SplicedNumbers
<1>2. Lines(t) /\ Lines(u)
  BY DEF Spliced
<1>3. \A k \in LiveKeys(t) : k \in Nat /\ 1 <= k /\ k <= Len(t)
  BY <1>2, LinesAre
<1>4. \A k \in LiveKeys(t) : ParentIn(t, k) \in Nat /\ (ParentIn(t, k) # 0 => ParentIn(t, k) \in LiveKeys(t))
  BY <1>2, ParentIs DEF ParentIn
<1> DEFINE Old(j, k) == /\ u[j].ind = t[k].ind
                        /\ \/ ParentIn(t, k) < a /\ ParentIn(u, j) = ParentIn(t, k)
                           \/ ParentIn(t, k) > e /\ ParentIn(u, j) = ParentIn(t, k) + d
           New(j, i) == i < Len(ks) /\ j = a + i /\ ParentIn(u, j) = a - 1 + i
<1>5. \A j \in LiveKeys(u) : \/ \E k \in LiveKeys(t) : Old(j, k)
                             \/ \E i \in 1..Len(ks) : New(j, i)
  BY KeysFrom
<1>6. ASSUME NEW j, NEW k \in LiveKeys(t), Old(j, k)
      PROVE  /\ ParentIn(u, j) = 0 => u[j].ind = 0
             /\ ParentIn(u, j) # 0 => u[ParentIn(u, j)].form = "nest" /\ ItemsIn(u, ParentIn(u, j)) = {}
  <2> DEFINE p == ParentIn(t, k)
             q == ParentIn(u, j)
  <2>1. p \in Nat /\ (p # 0 => p \in LiveKeys(t))
    BY <1>4
  <2>2. /\ p = 0 => t[k].ind = 0
        /\ p # 0 => t[p].form = "nest" /\ ItemsIn(t, p) = {}
    BY DEF KeysBelong
  <2>3. (p < a /\ q = p) \/ (p > e /\ q = p + d)
    BY <1>6
  <2>4. u[j].ind = t[k].ind
    BY <1>6
  <2> HIDE DEF p, q, Old
  <2>5. q = 0 => p = 0
    BY <1>1, <2>1, <2>3
  <2>6. ASSUME q # 0 PROVE u[q].form = "nest" /\ ItemsIn(u, q) = {}
    <3>1. CASE p < a /\ q = p
      <4>1. p \in LiveKeys(t) /\ p \in 1..a - 1 /\ t[p].form = "nest" /\ ItemsIn(t, p) = {}
        BY <1>1, <1>3, <2>1, <2>2, <2>6, <3>1
      <4>2. u[p] = t[p]
        BY <4>1, LinesAfter
      <4>3. ItemsIn(u, p) = ItemsIn(t, p)
        BY <3>1, <4>1, ItemsOfKeysAfter
      <4> QED BY <3>1, <4>1, <4>2, <4>3
    <3>2. CASE p > e /\ q = p + d
      <4>1. p # 0
        BY <1>1, <2>1, <3>2
      <4>2. p \in LiveKeys(t) /\ t[p].form = "nest" /\ ItemsIn(t, p) = {}
        BY <2>1, <2>2, <4>1
      <4>3. p \in e + 1..Len(t)
        BY <1>1, <1>3, <3>2, <4>2
      <4>4. u[p + d] = t[p]
        BY <4>3, LinesAfter
      <4>5. ItemsIn(u, p + d) = {}
        BY <3>2, <4>2, ItemsOfKeysAfter
      <4> QED BY <3>2, <4>2, <4>4, <4>5
    <3> QED BY <2>3, <3>1, <3>2
  <2> QED BY <2>2, <2>4, <2>5, <2>6 DEF q
<1>7. ASSUME NEW j, NEW i \in 1..Len(ks), New(j, i)
      PROVE  ParentIn(u, j) # 0 /\ u[ParentIn(u, j)].form = "nest" /\ ItemsIn(u, ParentIn(u, j)) = {}
  <2> DEFINE q == a - 1 + i
  <2>1. i \in 1..Len(L) /\ i <= Len(ks) /\ q # 0 /\ i < Len(ks) /\ i # Len(ks) /\ ParentIn(u, j) = q
    BY <1>1, <1>7
  <2>2. u[q] = L[i] /\ NewLine(L, t[n].ind, ks, i)
    BY <2>1, LinesAfter
  <2>3. u[q].form = "nest"
    BY <2>1, <2>2 DEF NewLine
  <2>4. ItemsIn(u, q) = {}
    BY <2>1, ItemsOfKeysAfter
  <2> QED BY <2>1, <2>3, <2>4
<1>8. ASSUME NEW j \in LiveKeys(u), NEW m \in LiveKeys(u), ParentIn(u, m) = ParentIn(u, j)
      PROVE  u[m].ind = u[j].ind
  <2>1. ASSUME NEW k \in LiveKeys(t), NEW x \in LiveKeys(t), Old(j, k), Old(m, x)
        PROVE  u[m].ind = u[j].ind
    <3>1. ParentIn(t, k) \in Nat /\ ParentIn(t, x) \in Nat
      BY <1>4
    <3>2. ParentIn(t, x) = ParentIn(t, k)
      BY <1>1, <1>8, <2>1, <3>1
    <3>3. t[x].ind = t[k].ind
      BY <3>2 DEF KeysBelong
    <3> QED BY <2>1, <3>3
  <2>2. ASSUME NEW k \in LiveKeys(t), NEW x, NEW y, NEW i \in 1..Len(ks), Old(x, k), New(y, i),
               ParentIn(u, x) = ParentIn(u, y)
        PROVE  FALSE
    <3>1. ParentIn(t, k) \in Nat
      BY <1>4
    <3>2. ParentIn(u, x) = a - 1 + i
      BY <2>2
    <3> QED BY <1>1, <2>2, <3>1, <3>2
  <2>3. ASSUME NEW i \in 1..Len(ks), NEW x \in 1..Len(ks), New(j, i), New(m, x)
        PROVE  m = j
    <3>1. a - 1 + i = a - 1 + x
      BY <1>8, <2>3
    <3> QED BY <1>1, <2>3, <3>1
  <2> HIDE DEF Old, New
  <2> QED BY <1>5, <1>8, <2>1, <2>2, <2>3
<1> HIDE DEF Old, New
<1> QED BY <1>5, <1>6, <1>7, <1>8 DEF KeysBelong

LEMMA PathsDifferAfter ==
  ASSUME NEW t, NEW u, NEW n, NEW a, NEW e, NEW d, NEW L, NEW ks, Spliced(t, u, n, a, e, d, L, ks),
         PathsDiffer(t), NEW p, Leads(t, n, ks, p), Fresh(t, u, a, e, ks)
  PROVE  PathsDiffer(u)
<1>1. /\ n \in Nat /\ a \in Nat /\ e \in Nat /\ d \in Int /\ Len(ks) \in Nat /\ 1 <= n /\ n <= a /\ a <= e + 1
  BY SplicedNumbers
<1>2. Lines(t) /\ Lines(u) /\ n \in LiveKeys(t)
  BY DEF Spliced
<1> DEFINE Kept(j, k) == /\ PathIn(u, j) = PathIn(t, k)
                         /\ (j = k /\ k < a) \/ (j = k + d /\ e < k)
           b == Len(Base(t, n))
<1>3. b \in Nat /\ p \in KeyPath
  BY <1>2, BaseIs DEF Leads
<1>4. \A i \in 1..Len(ks) : OnPath(PathIn(u, a - 1 + i), p, b + i)
  BY PathsNew
<1> HIDE DEF b
<1>5. \A j \in LiveKeys(u) : \/ \E k \in LiveKeys(t) : Kept(j, k)
                             \/ \E i \in 1..Len(ks) : j = a - 1 + i
  <2> SUFFICES ASSUME NEW j \in LiveKeys(u)
               PROVE  \/ \E k \in LiveKeys(t) : Kept(j, k)
                      \/ \E i \in 1..Len(ks) : j = a - 1 + i
    OBVIOUS
  <2>1. \/ j \in 1..a - 1 /\ j \in LiveKeys(t)
        \/ \E i \in 1..Len(ks) : j = a - 1 + i
        \/ \E m \in e + 1..Len(t) : m \in LiveKeys(t) /\ j = m + d
    BY KeysAfter
  <2>2. ASSUME j \in 1..a - 1, j \in LiveKeys(t) PROVE Kept(j, j)
    <3>1. j < a
      BY <1>1, <2>2
    <3> QED BY <2>2, <3>1, PathsAbove
  <2>3. ASSUME NEW m \in e + 1..Len(t), m \in LiveKeys(t), j = m + d PROVE Kept(j, m)
    <3>1. m > e /\ e < m
      BY <1>1
    <3>2. PathIn(u, m + d) = PathIn(t, m)
      BY <2>3, <3>1, PathsBehind
    <3> QED BY <2>3, <3>1, <3>2
  <2> HIDE DEF Kept
  <2> QED BY <2>1, <2>2, <2>3
<1>6. ASSUME NEW i \in 1..Len(ks), NEW j, NEW k \in LiveKeys(t), Kept(j, k)
      PROVE  PathIn(u, a - 1 + i) # PathIn(u, j)
  <2>1. k < a \/ e < k
    BY <1>6
  <2>2. 1 \in 1..Len(ks) /\ Len(ks) >= 1 /\ a - 1 + 1 = a /\ b + 1 <= b + i
    BY <1>1, <1>3
  <2>3. OnPath(PathIn(u, a), p, b + 1) /\ OnPath(PathIn(u, a - 1 + i), p, b + i)
    BY <1>4, <2>2
  <2>4. IsPrefix(PathIn(u, a), PathIn(u, a - 1 + i))
    BY <1>3, <2>2, <2>3, PrefixOrder DEF OnPath
  <2>5. ~ IsPrefix(PathIn(u, a), PathIn(t, k))
    BY <2>1, <2>2 DEF Fresh
  <2> QED BY <1>6, <2>4, <2>5
<1>7. ASSUME NEW j \in LiveKeys(u), NEW m \in LiveKeys(u), PathIn(u, m) = PathIn(u, j)
      PROVE  m = j
  <2>1. ASSUME NEW k \in LiveKeys(t), NEW x \in LiveKeys(t), Kept(j, k), Kept(m, x) PROVE m = j
    <3>1. x = k
      BY <1>7, <2>1 DEF PathsDiffer
    <3>2. k \in Nat
      BY <1>2, LinesAre
    <3> QED BY <1>1, <2>1, <3>1, <3>2
  <2>2. ASSUME NEW i \in 1..Len(ks), NEW x \in 1..Len(ks), j = a - 1 + i, m = a - 1 + x PROVE m = j
    <3>1. b + i = b + x
      <4>1. OnPath(PathIn(u, j), p, b + i) /\ OnPath(PathIn(u, m), p, b + x)
        BY <1>4, <2>2
      <4> QED BY <1>7, <4>1 DEF OnPath
    <3>2. i = x
      BY <1>1, <1>3, <3>1
    <3> QED BY <2>2, <3>2
  <2> HIDE DEF Kept
  <2> QED BY <1>5, <1>6, <1>7, <2>1, <2>2
<1> QED BY <1>7 DEF PathsDiffer

LEMMA ScalarsAfter ==
  ASSUME NEW t, NEW u, NEW n, NEW a, NEW e, NEW d, NEW L, NEW ks, Spliced(t, u, n, a, e, d, L, ks),
         TextOwned(t), QuotesClose(t)
  PROVE  TextOwned(u) /\ QuotesClose(u)
<1>1. /\ n \in Nat /\ a \in Nat /\ e \in Nat /\ d \in Int /\ Len(ks) \in Nat /\ Len(L) \in Nat /\ Len(ks) <= Len(L)
      /\ 1 <= n /\ n <= a /\ n <= e /\ a <= e + 1 /\ e + d >= 0 /\ Len(t) \in Nat /\ e <= Len(t) /\ (a = n \/ a = e + 1)
  BY SplicedNumbers
<1>2. Lines(t) /\ Lines(u) /\ n \in LiveKeys(t)
  BY DEF Spliced
<1>3. \A k \in LiveKeys(t) : k \in Nat /\ 1 <= k /\ k <= Len(t) /\ Opened(t)[k] = 0
  BY <1>2, LinesAre
<1>4. ASSUME NEW j \in 1..Len(u), u[j].is \in {"text", "close"} PROVE Opened(u)[j] # 0
  <2>1. \/ j \in 1..a - 1
        \/ \E i \in 1..Len(L) : j = a - 1 + i
        \/ \E m \in e + 1..Len(t) : j = m + d
    BY LinesAfter
  <2>2. CASE j \in 1..a - 1
    <3>1. j \in 1..Len(t) /\ u[j] = t[j] /\ Opened(u)[j] = Opened(t)[j]
      BY <2>2, LinesAfter
    <3> QED BY <1>4, <3>1 DEF TextOwned
  <2>3. ASSUME NEW i \in 1..Len(L), j = a - 1 + i PROVE FALSE
    <3>1. u[j] = L[i] /\ NewLine(L, t[n].ind, ks, i)
      BY <2>3, LinesAfter
    <3>2. u[j].is \in {"key", "item"}
      BY <3>1 DEF NewLine
    <3> QED BY <1>4, <3>2
  <2>4. ASSUME NEW m \in e + 1..Len(t), j = m + d PROVE Opened(u)[j] # 0
    <3>1. /\ m \in 1..Len(t) /\ u[m + d] = t[m]
          /\ t[m].is # "blank" =>
                \/ Opened(t)[m] = 0 /\ Opened(u)[m + d] = 0
                \/ Opened(t)[m] \in Nat /\ Opened(t)[m] > e /\ Opened(u)[m + d] = Opened(t)[m] + d
      BY LinesAfter
    <3>2. t[m].is \in {"text", "close"}
      BY <1>4, <2>4, <3>1
    <3>3. Opened(t)[m] # 0
      BY <3>1, <3>2 DEF TextOwned
    <3>4. Opened(t)[m] \in Nat /\ Opened(t)[m] > e /\ Opened(u)[j] = Opened(t)[m] + d
      BY <2>4, <3>1, <3>2, <3>3
    <3> QED BY <1>1, <3>4
  <2> QED BY <2>1, <2>2, <2>3, <2>4
<1>5. ASSUME NEW j \in LiveKeys(u), u[j].form = "quote"
      PROVE  \E m \in 1..Len(u) : u[m].is = "close" /\ Opened(u)[m] = j
  <2>1. \/ j \in 1..a - 1 /\ j \in LiveKeys(t)
        \/ \E i \in 1..Len(ks) : j = a - 1 + i
        \/ \E m \in e + 1..Len(t) : m \in LiveKeys(t) /\ j = m + d
    BY KeysAfter
  <2>2. CASE j \in 1..a - 1 /\ j \in LiveKeys(t)
    <3>1. u[j] = t[j] /\ j < a /\ j \in Nat /\ 1 <= j
      BY <1>1, <2>2, LinesAfter
    <3>2. PICK m \in 1..Len(t) : t[m].is = "close" /\ Opened(t)[m] = j
      BY <1>5, <2>2, <3>1 DEF QuotesClose
    <3>3. m <= e
      <4> SUFFICES ASSUME e < m PROVE FALSE
        BY <1>1
      <4>1. m \in e + 1..Len(t)
        BY <1>1
      <4>2. Opened(t)[m] = 0 \/ Opened(t)[m] > e
        BY <3>2, <4>1, LinesAfter
      <4> QED BY <1>1, <3>1, <3>2, <4>2
    <3>4. m < a
      <4> SUFFICES ASSUME a <= m PROVE FALSE
        BY <1>1
      <4>1. a = n
        BY <1>1, <3>3
      <4>2. ScalarOf(t, Opened(t), m)
        BY <1>2, ScalarsAreWhole
      <4>3. n \in 1..m /\ j < n
        BY <1>1, <3>1, <4>1
      <4>4. Opened(t)[n] = j
        BY <3>1, <3>2, <4>2, <4>3 DEF ScalarOf
      <4> QED BY <1>2, <1>3, <3>1, <4>4
    <3>5. m \in 1..a - 1
      BY <1>1, <3>4
    <3>6. m \in 1..Len(u) /\ u[m] = t[m] /\ Opened(u)[m] = Opened(t)[m]
      BY <3>5, LinesAfter
    <3> QED BY <3>2, <3>6
  <2>3. ASSUME NEW i \in 1..Len(ks), j = a - 1 + i PROVE FALSE
    <3>1. i \in 1..Len(L) /\ i <= Len(ks)
      BY <1>1
    <3>2. u[j] = L[i] /\ NewLine(L, t[n].ind, ks, i)
      BY <2>3, <3>1, LinesAfter
    <3> QED BY <1>5, <3>1, <3>2 DEF NewLine
  <2>4. ASSUME NEW k \in e + 1..Len(t), k \in LiveKeys(t), j = k + d
        PROVE  \E m \in 1..Len(u) : u[m].is = "close" /\ Opened(u)[m] = j
    <3>1. u[j] = t[k] /\ k > e
      BY <1>1, <2>4, LinesAfter
    <3>2. PICK m \in 1..Len(t) : t[m].is = "close" /\ Opened(t)[m] = k
      BY <1>5, <2>4, <3>1 DEF QuotesClose
    <3>3. ScalarOf(t, Opened(t), m)
      BY <1>2, ScalarsAreWhole
    <3>4. k < m
      BY <3>2, <3>3 DEF ScalarOf
    <3>5. m \in e + 1..Len(t)
      BY <1>1, <3>1, <3>4
    <3>6. /\ m + d \in 1..Len(u) /\ u[m + d] = t[m]
          /\ \/ Opened(t)[m] = 0
             \/ Opened(u)[m + d] = Opened(t)[m] + d
      BY <3>2, <3>5, LinesAfter
    <3>7. k # 0
      BY <1>3, <2>4
    <3> QED BY <2>4, <3>2, <3>6, <3>7
  <2> QED BY <2>1, <2>2, <2>3, <2>4
<1> QED BY <1>4, <1>5 DEF TextOwned, QuotesClose

LEMMA CommentsAre ==
  ASSUME NEW t, Lines(t), NEW c
  PROVE  c \in Comments(t) <=> c # NoNote /\ \E m \in 1..Len(t) : Opened(t)[m] = 0 /\ t[m].note = c
<1>1. DOMAIN t = 1..Len(t)
  BY DEF Lines, IsText
<1>2. c \in Comments(t) <=> c # NoNote /\ \E m \in DOMAIN t : Opened(t)[m] = 0 /\ t[m].note = c
  BY Zenon DEF Comments, NoNote
<1> QED BY <1>1, <1>2

LEMMA CommentsAfter ==
  ASSUME NEW t, NEW u, NEW n, NEW a, NEW e, NEW d, NEW L, NEW ks, Spliced(t, u, n, a, e, d, L, ks),
         Noted(t, n, L)
  PROVE  Comments(u) \subseteq Comments(t)
<1>1. e \in Nat /\ d \in Int /\ e + d >= 0
  BY SplicedNumbers
<1>2. Lines(t) /\ Lines(u) /\ n \in LiveKeys(t)
  BY DEF Spliced
<1>3. n \in 1..Len(t) /\ Opened(t)[n] = 0
  BY <1>2, LinesAre
<1> SUFFICES ASSUME NEW j \in 1..Len(u), Opened(u)[j] = 0, u[j].note # NoNote
             PROVE  \E m \in 1..Len(t) : Opened(t)[m] = 0 /\ t[m].note = u[j].note
  BY <1>2, CommentsAre
<1>4. \/ j \in 1..a - 1
      \/ \E i \in 1..Len(L) : j = a - 1 + i
      \/ \E m \in e + 1..Len(t) : j = m + d
  BY LinesAfter
<1>5. CASE j \in 1..a - 1
  <2>1. j \in 1..Len(t) /\ u[j] = t[j] /\ Opened(u)[j] = Opened(t)[j]
    BY <1>5, LinesAfter
  <2> QED BY <2>1
<1>6. ASSUME NEW i \in 1..Len(L), j = a - 1 + i PROVE t[n].note = u[j].note
  <2>1. u[j] = L[i]
    BY <1>6, LinesAfter
  <2> QED BY <2>1 DEF Noted
<1>7. ASSUME NEW m \in e + 1..Len(t), j = m + d
      PROVE  m \in 1..Len(t) /\ Opened(t)[m] = 0 /\ t[m].note = u[j].note
  <2>1. /\ m \in 1..Len(t) /\ u[j] = t[m]
        /\ t[m].is # "blank" =>
              \/ Opened(t)[m] = 0 /\ Opened(u)[j] = 0
              \/ Opened(t)[m] \in Nat /\ Opened(t)[m] > e /\ Opened(u)[j] = Opened(t)[m] + d
    BY <1>7, LinesAfter
  <2>2. IsLine(t[m])
    BY <1>2, <2>1, LinesAre
  <2>3. t[m].is # "blank"
    BY <2>1, <2>2, Zenon DEF IsLine, NoNote
  <2>4. Opened(t)[m] \in Nat /\ Opened(t)[m] > e => Opened(t)[m] + d # 0
    BY <1>1
  <2> QED BY <2>1, <2>3, <2>4
<1> QED BY <1>3, <1>4, <1>5, <1>6, <1>7

LEMMA WellFormedAfter ==
  ASSUME NEW t, NEW u, NEW n, NEW a, NEW e, NEW d, NEW L, NEW ks, Spliced(t, u, n, a, e, d, L, ks),
         WellFormed(t), NEW p, Leads(t, n, ks, p), Fresh(t, u, a, e, ks)
  PROVE  WellFormed(u)
<1>1. Lines(t) /\ Lines(u)
  BY DEF Spliced
<1>2. TextOwned(t) /\ ItemsBelong(t) /\ KeysBelong(t) /\ PathsDiffer(t) /\ QuotesClose(t)
  BY <1>1, WellFormedIs
<1>3. TextOwned(u) /\ QuotesClose(u)
  BY <1>2, ScalarsAfter
<1>4. ItemsBelong(u) /\ KeysBelong(u)
  BY <1>2, ItemsBelongAfter, KeysBelongAfter
<1>5. PathsDiffer(u)
  BY <1>2, PathsDifferAfter
<1> QED BY <1>1, <1>3, <1>4, <1>5, WellFormedIs
-----------------------------------------------------------------------------
(* renderEntry and nestValue: the keys, each in the one before, then the     *)
(* items of a list.                                                         *)
ItemsOfValue(value) == IF value[1] = "list" THEN Tail(value) ELSE <<>>
NewKey(ind, ks, form, val, note, i) == KeyLine(ind + i - 1, ks[i], form, val, IF i = 1 THEN note ELSE NoNote)
Nested(ks, value, i) == i < Len(ks) \/ ItemsOfValue(value) # <<>>
RenderedAs(R, ind, ks, value, note) ==
  /\ IsSeq(R) /\ Len(R) = Len(ks) + Len(ItemsOfValue(value)) /\ Len(ItemsOfValue(value)) \in Nat
  /\ \A i \in 1..Len(ks) :
        R[i] = IF Nested(ks, value, i) THEN NewKey(ind, ks, "nest", <<>>, note, i)
               ELSE NewKey(ind, ks, "plain", value, note, i)
  /\ \A i \in 1..Len(ItemsOfValue(value)) : R[Len(ks) + i] = Item(ind + Len(ks), ItemsOfValue(value)[i])

LEMMA IsMadeSeq ==
  ASSUME NEW f, NEW l \in Nat, f = [i \in 1..l |-> f[i]]
  PROVE  IsSeq(f) /\ Len(f) = l
<1> DEFINE S == {f[i] : i \in 1..l}
<1>1. f \in [1..l -> S]
  OBVIOUS
<1> HIDE DEF S
<1>2. f \in Seq(S)
  BY <1>1, SeqDef
<1>3. Len(f) = l
  <2>1. DOMAIN f = 1..l /\ Len(f) \in Nat /\ DOMAIN f = 1..Len(f)
    BY <1>1, <1>2, LenProperties
  <2> QED BY <2>1
<1> QED BY <1>2, <1>3 DEF IsSeq

LEMMA NoneIsSeq == IsSeq(<<>>) /\ Len(<<>>) = 0
  BY EmptySeq DEF IsSeq
LEMMA OneIsSeq == ASSUME NEW x PROVE IsSeq(<<x>>) /\ Len(<<x>>) = 1 /\ <<x>>[1] = x
<1>1. <<x>> \in Seq({x})
  OBVIOUS
<1> QED BY <1>1 DEF IsSeq

LEMMA TailIs ==
  ASSUME NEW S, NEW v \in Seq(S), v # <<>>
  PROVE  /\ Tail(v) \in Seq(S) /\ IsSeq(Tail(v)) /\ Len(v) \in Nat /\ Len(v) >= 1 /\ Len(Tail(v)) = Len(v) - 1
         /\ \A i \in 1..Len(Tail(v)) : Tail(v)[i] = v[i + 1]
<1>1. Len(v) \in Nat /\ Len(v) # 0
  BY LenProperties, EmptySeq
<1>2. Tail(v) \in Seq(S) /\ Len(Tail(v)) = Len(v) - 1 /\ \A i \in 1..Len(Tail(v)) : Tail(v)[i] = v[i + 1]
  BY HeadTailProperties
<1> QED BY <1>1, <1>2 DEF IsSeq

LEMMA ItemsOfValueAre ==
  ASSUME NEW value \in KeyPath, value # <<>>
  PROVE  LET items == ItemsOfValue(value)
         IN  /\ items \in KeyPath /\ IsSeq(items) /\ Len(items) \in Nat
             /\ items = <<>> <=> Len(items) = 0
             /\ DOMAIN items = 1..Len(items)
             /\ \A i \in 1..Len(items) : items[i] \in KeyName
<1> DEFINE items == ItemsOfValue(value)
<1>1. items \in KeyPath
  <2>1. Tail(value) \in KeyPath
    BY TailIs DEF KeyPath
  <2>2. <<>> \in KeyPath
    BY EmptySeq DEF KeyPath
  <2> QED BY <2>1, <2>2 DEF ItemsOfValue
<1> HIDE DEF items
<1>2. /\ IsSeq(items) /\ Len(items) \in Nat /\ DOMAIN items = 1..Len(items)
      /\ items = <<>> <=> Len(items) = 0
      /\ \A i \in 1..Len(items) : items[i] \in KeyName
  BY <1>1, LenProperties, EmptySeq, ElementOfSeq DEF KeyPath, IsSeq
<1> QED BY <1>1, <1>2 DEF items

LEMMA RenderedIs ==
  ASSUME NEW ind \in Nat, NEW ks \in KeyPath, Len(ks) >= 1, NEW value \in KeyPath, value # <<>>, NEW note
  PROVE  RenderedAs(Rendered(ind, ks, value, note), ind, ks, value, note)
<1> DEFINE items == ItemsOfValue(value)
           last == Len(ks)
           A == [i \in 1..(last - 1) |-> NewKey(ind, ks, "nest", <<>>, note, i)]
           B == <<NewKey(ind, ks, "nest", <<>>, note, last)>>
           C == [i \in DOMAIN items |-> Item(ind + last, items[i])]
           P == <<NewKey(ind, ks, "plain", value, note, last)>>
           R == Rendered(ind, ks, value, note)
<1>1. R = A \o (IF items = <<>> THEN P ELSE B \o C)
  BY Zenon DEF Rendered, NewKey, NoNote, ItemsOfValue
<1>2. last \in Nat /\ last - 1 \in Nat /\ 1 <= last
  BY LenProperties DEF KeyPath
<1>3. /\ IsSeq(items) /\ Len(items) \in Nat /\ (items = <<>> <=> Len(items) = 0) /\ DOMAIN items = 1..Len(items)
  BY ItemsOfValueAre
<1>4. IsSeq(A) /\ Len(A) = last - 1 /\ \A i \in 1..last - 1 : A[i] = NewKey(ind, ks, "nest", <<>>, note, i)
  <2>1. A = [i \in 1..(last - 1) |-> A[i]]
    OBVIOUS
  <2>2. \A i \in 1..last - 1 : A[i] = NewKey(ind, ks, "nest", <<>>, note, i)
    OBVIOUS
  <2> HIDE DEF A
  <2> QED BY <1>2, <2>1, <2>2, IsMadeSeq
<1>5. IsSeq(C) /\ Len(C) = Len(items) /\ \A i \in 1..Len(items) : C[i] = Item(ind + last, items[i])
  <2>1. C = [i \in 1..Len(items) |-> C[i]] /\ \A i \in 1..Len(items) : C[i] = Item(ind + last, items[i])
    BY <1>3
  <2> HIDE DEF C
  <2> QED BY <1>3, <2>1, IsMadeSeq
<1>6. /\ IsSeq(B) /\ Len(B) = 1 /\ B[1] = NewKey(ind, ks, "nest", <<>>, note, last)
      /\ IsSeq(P) /\ Len(P) = 1 /\ P[1] = NewKey(ind, ks, "plain", value, note, last)
  BY OneIsSeq
<1> HIDE DEF A, B, C, P, R, items, last
<1>7. \A i \in 1..last : i \in 1..last - 1 \/ i = last
  BY <1>2
<1>8. CASE items = <<>>
  <2>1. IsJoin(R, A, P)
    BY <1>1, <1>4, <1>6, <1>8, JoinedAs
  <2>2. IsSeq(R) /\ Len(R) = last - 1 + 1 /\ (\A i \in 1..last - 1 : R[i] = A[i]) /\ R[last - 1 + 1] = P[1]
    BY <1>4, <1>6, <2>1 DEF IsJoin
  <2>3. Len(R) = last + Len(items) /\ R[last] = P[1] /\ Len(items) = 0
    BY <1>2, <1>3, <1>8, <2>2
  <2>4. ASSUME NEW i \in 1..last
        PROVE  R[i] = IF Nested(ks, value, i) THEN NewKey(ind, ks, "nest", <<>>, note, i)
                      ELSE NewKey(ind, ks, "plain", value, note, i)
    <3>1. CASE i \in 1..last - 1
      <4>1. i < last
        BY <1>2, <3>1
      <4>2. Nested(ks, value, i)
        BY <4>1 DEF Nested, last
      <4>3. R[i] = NewKey(ind, ks, "nest", <<>>, note, i)
        BY <1>4, <2>2, <3>1
      <4> QED BY <4>2, <4>3
    <3>2. CASE i = last
      <4>1. ~ (i < last)
        BY <1>2, <3>2
      <4>2. ~ Nested(ks, value, i)
        BY <1>8, <4>1 DEF Nested, last, items
      <4>3. R[i] = NewKey(ind, ks, "plain", value, note, i)
        BY <1>6, <2>3, <3>2
      <4> QED BY <4>2, <4>3
    <3> QED BY <1>7, <3>1, <3>2
  <2>5. \A i \in 1..Len(items) : FALSE
    BY <2>3
  <2> QED BY <1>3, <2>2, <2>3, <2>4, <2>5 DEF RenderedAs, R, last, items
<1>9. CASE items # <<>>
  <2> DEFINE D == B \o C
  <2>1. IsJoin(D, B, C)
    BY <1>5, <1>6, JoinedAs
  <2>2. R = A \o D
    BY <1>1, <1>9
  <2> HIDE DEF D
  <2>3. /\ IsSeq(D) /\ Len(D) = 1 + Len(items) /\ D[1] = B[1]
        /\ \A i \in 1..Len(items) : D[1 + i] = C[i]
    BY <1>5, <1>6, <2>1 DEF IsJoin
  <2>4. IsJoin(R, A, D)
    BY <1>4, <2>2, <2>3, JoinedAs
  <2>5. /\ IsSeq(R) /\ Len(R) = last - 1 + (1 + Len(items)) /\ (\A i \in 1..last - 1 : R[i] = A[i])
        /\ \A i \in 1..1 + Len(items) : R[last - 1 + i] = D[i]
    BY <1>4, <2>3, <2>4 DEF IsJoin
  <2>6. Len(R) = last + Len(items)
    BY <1>2, <1>3, <2>5
  <2>7. R[last] = B[1]
    <3>1. 1 \in 1..1 + Len(items) /\ last - 1 + 1 = last
      BY <1>2, <1>3
    <3> QED BY <2>3, <2>5, <3>1
  <2>8. ASSUME NEW i \in 1..last
        PROVE  R[i] = IF Nested(ks, value, i) THEN NewKey(ind, ks, "nest", <<>>, note, i)
                      ELSE NewKey(ind, ks, "plain", value, note, i)
    <3>1. Nested(ks, value, i)
      BY <1>9 DEF Nested, items
    <3>2. R[i] = NewKey(ind, ks, "nest", <<>>, note, i)
      BY <1>4, <1>6, <1>7, <2>5, <2>7
    <3> QED BY <3>1, <3>2
  <2>9. ASSUME NEW i \in 1..Len(items) PROVE R[last + i] = Item(ind + last, items[i])
    <3>1. 1 + i \in 1..1 + Len(items) /\ last - 1 + (1 + i) = last + i
      BY <1>2, <1>3
    <3> QED BY <1>5, <2>3, <2>5, <3>1
  <2> QED BY <1>3, <2>5, <2>6, <2>8, <2>9 DEF RenderedAs, R, last, items
<1> QED BY <1>8, <1>9
LEMMA NewKeyIs ==
  ASSUME NEW ind, NEW ks, NEW form, NEW val, NEW note, NEW i
  PROVE  LET l == NewKey(ind, ks, form, val, note, i)
         IN  /\ l.is = "key" /\ l.ind = ind + i - 1 /\ l.key = ks[i] /\ l.form = form /\ l.val = val
             /\ l.flow = NoFlow /\ l.note = IF i = 1 THEN note ELSE NoNote
  BY DEF NewKey, KeyLine, Line

LEMMA ItemIs ==
  ASSUME NEW ind, NEW v
  PROVE  LET l == Item(ind, v)
         IN  l.is = "item" /\ l.ind = ind /\ l.key = NoNote /\ l.form = NoNote /\ l.val = <<v>>
             /\ l.flow = NoFlow /\ l.note = NoNote
  BY Zenon DEF Item, Line, NoNote

LEMMA NewKeyIsLine ==
  ASSUME NEW ind \in Nat, NEW ks \in KeyPath, NEW form \in {"plain", "nest"}, NEW val \in KeyPath, NEW note,
         NEW i \in 1..Len(ks)
  PROVE  IsLine(NewKey(ind, ks, form, val, note, i))
<1> DEFINE l == NewKey(ind, ks, form, val, note, i)
<1>1. /\ l.is = "key" /\ l.ind = ind + i - 1 /\ l.key = ks[i] /\ l.form = form /\ l.val = val
      /\ l.flow = NoFlow
  BY NewKeyIs
<1> HIDE DEF l
<1>2. l.ind \in Nat
  BY <1>1
<1>3. l.key \in STRING /\ l.val \in Seq(STRING)
  BY <1>1, ElementOfSeq DEF KeyPath, KeyName
<1>4. DOMAIN l.flow = {}
  BY <1>1 DEF NoFlow
<1>5. l.is # "blank"
  BY <1>1
<1> QED BY <1>1, <1>2, <1>3, <1>4, <1>5, Zenon DEF IsLine, l

LEMMA ItemIsLine ==
  ASSUME NEW ind \in Nat, NEW v \in KeyName
  PROVE  IsLine(Item(ind, v))
<1> DEFINE l == Item(ind, v)
<1>1. /\ l.is = "item" /\ l.ind = ind /\ l.key = NoNote /\ l.form = NoNote /\ l.val = <<v>>
      /\ l.flow = NoFlow
  BY ItemIs
<1> HIDE DEF l
<1>2. l.is # "key"
  BY <1>1
<1>3. l.val \in Seq(STRING)
  BY <1>1, OneKey DEF KeyPath, KeyName
<1>4. DOMAIN l.flow = {}
  BY <1>1 DEF NoFlow
<1>5. l.is # "blank"
  BY <1>1
<1> QED BY <1>1, <1>2, <1>3, <1>4, <1>5, Zenon DEF IsLine, l, NoNote

LEMMA RenderedBlock ==
  ASSUME NEW ind \in Nat, NEW ks \in KeyPath, Len(ks) >= 1, NEW value \in KeyPath, value # <<>>, NEW note
  PROVE  LET R == Rendered(ind, ks, value, note)
         IN  /\ Block(R, ind, ks)
             /\ \A i \in 1..Len(R) : R[i].note = NoNote \/ R[i].note = note
<1> DEFINE R == Rendered(ind, ks, value, note)
           items == ItemsOfValue(value)
           last == Len(ks)
<1>1. RenderedAs(R, ind, ks, value, note)
  BY RenderedIs
<1>2. /\ items \in KeyPath /\ IsSeq(items) /\ Len(items) \in Nat
      /\ items = <<>> <=> Len(items) = 0
      /\ \A i \in 1..Len(items) : items[i] \in KeyName
  BY ItemsOfValueAre
<1>3. last \in Nat /\ 1 <= last
  BY LenProperties DEF KeyPath
<1> HIDE DEF R
<1>4. IsSeq(R) /\ Len(R) = last + Len(items) /\ Len(R) \in Nat /\ last <= Len(R)
  <2>1. IsSeq(R) /\ Len(R) = last + Len(items)
    BY <1>1 DEF RenderedAs
  <2> QED BY <1>2, <1>3, <2>1
<1>5. ASSUME NEW i \in 1..last
      PROVE  /\ IsLine(R[i]) /\ NewLine(R, ind, ks, i)
             /\ R[i].note = NoNote \/ R[i].note = note
             /\ items # <<>> => R[i].form = "nest"
  <2> DEFINE form == IF Nested(ks, value, i) THEN "nest" ELSE "plain"
             val == IF Nested(ks, value, i) THEN <<>> ELSE value
             l == NewKey(ind, ks, form, val, note, i)
  <2>1. R[i] = l
    BY <1>1 DEF RenderedAs
  <2>2. form \in {"plain", "nest"} /\ val \in KeyPath
    BY EmptySeq DEF KeyPath
  <2>3. (i < last \/ items # <<>>) => form = "nest"
    BY DEF Nested
  <2> HIDE DEF form, val
  <2>4. IsLine(l)
    BY <2>2, NewKeyIsLine
  <2>5. /\ l.is = "key" /\ l.ind = ind + i - 1 /\ l.key = ks[i] /\ l.form = form /\ l.val = val
        /\ l.flow = NoFlow /\ (l.note = NoNote \/ l.note = note)
    BY NewKeyIs
  <2> HIDE DEF l, last
  <2>6. i <= last
    BY <1>3
  <2>7. NewLine(R, ind, ks, i)
    BY <2>1, <2>2, <2>3, <2>5, <2>6 DEF NewLine, last
  <2> QED BY <2>1, <2>3, <2>4, <2>5, <2>7
<1>6. ASSUME NEW i \in 1..Len(items)
      PROVE  /\ IsLine(R[last + i]) /\ NewLine(R, ind, ks, last + i) /\ R[last + i].note = NoNote
  <2> DEFINE l == Item(ind + last, items[i])
             j == last + i
  <2>1. R[j] = l
    BY <1>1 DEF RenderedAs
  <2>2. ind + last \in Nat /\ items[i] \in KeyName
    BY <1>2, <1>3
  <2>3. IsLine(l)
    BY <2>2, ItemIsLine
  <2>4. l.is = "item" /\ l.ind = ind + last /\ l.note = NoNote
    BY ItemIs
  <2>5. ~ (j <= last)
    BY <1>2, <1>3
  <2> HIDE DEF l, j
  <2>6. NewLine(R, ind, ks, j)
    BY <2>1, <2>4, <2>5 DEF NewLine
  <2> QED BY <2>1, <2>3, <2>4, <2>6 DEF j
<1>7. ASSUME NEW i \in 1..Len(R)
      PROVE  i \in 1..last \/ \E x \in 1..Len(items) : i = last + x
  <2>1. CASE i <= last
    BY <1>3, <2>1
  <2>2. CASE last < i
    <3>1. i - last \in 1..Len(items) /\ i = last + (i - last)
      BY <1>2, <1>3, <1>4, <2>2
    <3> QED BY <3>1
  <2> QED BY <1>3, <2>1, <2>2
<1>8. \A i \in 1..Len(R) : IsLine(R[i]) /\ NewLine(R, ind, ks, i) /\ (R[i].note = NoNote \/ R[i].note = note)
  BY <1>5, <1>6, <1>7
<1>9. last < Len(R) => R[last].form = "nest"
  <2> SUFFICES ASSUME last < Len(R) PROVE R[last].form = "nest"
    OBVIOUS
  <2>1. items # <<>> /\ last \in 1..last
    BY <1>2, <1>3, <1>4
  <2> QED BY <1>5, <2>1
<1>10. Block(R, ind, ks)
  BY <1>3, <1>4, <1>8, <1>9 DEF Block
<1> QED BY <1>8, <1>10 DEF R
-----------------------------------------------------------------------------
(* What an edit replaces: the entry of a key on its path, with all that is    *)
(* below it, or nothing, behind the last entry of the block it goes into.     *)
Edited(t, p, n, a, L, ks) ==
  /\ Splice(t, n, a, L, ks) /\ Leads(t, n, ks, p) /\ Noted(t, n, L)
  /\ Fresh(t, After(t, n, a, L), a, EndIn(t, n), ks)
  /\ a = n => /\ IsPrefix(PathIn(t, n), p)
              /\ \A m \in LiveKeys(t) : Under(t, n, m) => Comparable(PathIn(t, m), p)

LEMMA NoKeysUnder ==
  ASSUME NEW t, Lines(t), KeysBelong(t), NEW n \in LiveKeys(t),
         t[n].form # "nest" \/ Children(t, LiveKeys(t), n) = {}
  PROVE  \A m \in LiveKeys(t) : ~ Under(t, n, m)
<1> DEFINE S == {m \in LiveKeys(t) : Under(t, n, m)}
<1> SUFFICES ASSUME S # {} PROVE FALSE
  OBVIOUS
<1>1. S \subseteq Nat
  BY LinesAre
<1> DEFINE m == Lowest(S)
<1>2. m \in S /\ \A k \in S : m <= k
  <2> HIDE DEF S
  <2> QED BY <1>1, LowestNumber
<1> HIDE DEF m
<1>3. m \in LiveKeys(t) /\ Under(t, n, m) /\ m \in Nat
  BY <1>1, <1>2
<1>4. ParentIn(t, m) \in Nat /\ ParentIn(t, m) < m /\ (ParentIn(t, m) = n \/ Under(t, n, ParentIn(t, m)))
  BY <1>3, ParentOfUnder
<1>5. ~ Under(t, n, ParentIn(t, m))
  <2> SUFFICES ASSUME Under(t, n, ParentIn(t, m)) PROVE FALSE
    OBVIOUS
  <2>1. ParentIn(t, m) \in S
    BY DEF Under
  <2>2. m <= ParentIn(t, m)
    BY <1>2, <2>1
  <2> QED BY <1>3, <1>4, <2>2
<1>6. ParentIn(t, m) = n /\ n # 0
  BY <1>4, <1>5, LinesAre
<1>7. t[n].form = "nest"
  BY <1>3, <1>6 DEF KeysBelong
<1>8. m \in Children(t, LiveKeys(t), n)
  BY <1>3, <1>6 DEF Children, ParentIn
<1> QED BY <1>7, <1>8

LEMMA InEntry ==
  ASSUME NEW t, Lines(t), NEW n \in LiveKeys(t), NEW k \in LiveKeys(t), n <= k, k <= EndIn(t, n)
  PROVE  n = k \/ Under(t, n, k)
<1>1. \A m \in LiveKeys(t) : m \in Nat
  BY LinesAre
<1>2. EndIn(t, n) \in Nat /\ \A m \in LiveKeys(t) : n < m /\ m <= EndIn(t, n) => t[n].ind < t[m].ind
  BY EntryIs
<1> SUFFICES ASSUME n # k PROVE Under(t, n, k)
  OBVIOUS
<1>3. n < k
  BY <1>1
<1>4. \A m \in LiveKeys(t) : n < m /\ m <= k => t[n].ind < t[m].ind
  <2> SUFFICES ASSUME NEW m \in LiveKeys(t), n < m, m <= k PROVE t[n].ind < t[m].ind
    OBVIOUS
  <2>1. m <= EndIn(t, n)
    BY <1>1, <1>2
  <2> QED BY <1>2, <2>1
<1> QED BY <1>3, <1>4 DEF Under

LEMMA NoQuoteBelow ==
  ASSUME NEW t, Lines(t), NEW n \in LiveKeys(t), ~ HasForm(t, LiveKeys(t), n, "quote")
  PROVE  NoQuote(t, n)
<1> SUFFICES ASSUME NEW k \in LiveKeys(t), n <= k, k <= EndIn(t, n) PROVE t[k].form # "quote"
  BY DEF NoQuote
<1>1. n = k \/ Under(t, n, k)
  BY InEntry
<1>2. IsPrefix(PathIn(t, n), PathIn(t, k))
  <2>1. PathIn(t, n) \in KeyPath
    BY PathIs DEF PathAsSaid
  <2>2. IsPrefix(PathIn(t, n), PathIn(t, n))
    BY <2>1, PrefixOrder
  <2> QED BY <1>1, <2>2, UnderIsBelow
<1>3. k \in Below(t, LiveKeys(t), n)
  BY <1>2 DEF Below, PathIn
<1> QED BY <1>3 DEF HasForm

LEMMA NoQuoteAlone ==
  ASSUME NEW t, Lines(t), NEW n \in LiveKeys(t), \A m \in LiveKeys(t) : ~ Under(t, n, m), t[n].form # "quote"
  PROVE  NoQuote(t, n)
<1> SUFFICES ASSUME NEW k \in LiveKeys(t), n <= k, k <= EndIn(t, n) PROVE t[k].form # "quote"
  BY DEF NoQuote
<1>1. n = k
  BY InEntry
<1> QED BY <1>1

(* The key on the path stays the only one at its place.                     *)
LEMMA FreshInPlace ==
  ASSUME NEW t, NEW n, NEW L, NEW ks, Splice(t, n, n, L, ks), NEW p, Leads(t, n, ks, p), IsPrefix(PathIn(t, n), p)
  PROVE  Fresh(t, After(t, n, n, L), n, EndIn(t, n), ks)
<1> DEFINE u == After(t, n, n, L)
           e == EndIn(t, n)
           d == Shift(t, n, n, L)
           q == PathIn(u, n)
           b == Len(Base(t, n))
<1>1. Spliced(t, u, n, n, e, d, L, ks)
  BY SplicedIs
<1>2. Lines(t) /\ WellFormed(t) /\ n \in LiveKeys(t)
  BY DEF Splice
<1>3. PathsDiffer(t)
  BY <1>2, WellFormedIs
<1> HIDE DEF u, d, e
<1>4. n \in Nat /\ e \in Nat /\ n <= e /\ Len(ks) \in Nat
  BY <1>1, SplicedNumbers
<1> SUFFICES ASSUME Len(ks) >= 1, NEW k \in LiveKeys(t), k < n \/ e < k, IsPrefix(q, PathIn(t, k))
             PROVE  FALSE
  BY DEF Fresh, u, e
<1>5. OnPath(q, p, b + 1)
  <2>1. 1 \in 1..Len(ks) /\ n - 1 + 1 = n
    BY <1>4
  <2> QED BY <1>1, <2>1, PathsNew
<1>6. PathIn(t, n) \in KeyPath /\ Len(PathIn(t, n)) = b + 1 /\ PathIn(t, k) \in KeyPath
  <2>1. Len(PathIn(t, n)) = b + 1
    BY <1>2, BaseIs
  <2> QED BY <1>2, <2>1, PathIs DEF PathAsSaid
<1>7. q = PathIn(t, n)
  <2>1. q \in KeyPath /\ IsPrefix(q, p) /\ Len(q) = b + 1 /\ p \in KeyPath
    BY <1>5 DEF OnPath, Leads
  <2>2. Len(q) \in Nat
    BY <2>1, PrefixIs
  <2>3. Len(q) <= Len(PathIn(t, n)) /\ Len(q) = Len(PathIn(t, n))
    BY <1>6, <2>1, <2>2
  <2> HIDE DEF q
  <2> QED BY <1>6, <2>1, <2>3, PrefixOrder
<1>8. k \in Nat
  BY <1>2, LinesAre
<1>9. Under(t, n, k)
  <2>1. n = k \/ Under(t, n, k)
    BY <1>2, <1>3, <1>7, BelowIsUnder
  <2> QED BY <1>4, <1>8, <2>1
<1>10. e < k
  BY <1>4, <1>8, <1>9 DEF Under
<1>11. PICK f \in LiveKeys(t) : e < f /\ f <= k /\ t[f].ind <= t[n].ind
  BY <1>1, <1>10 DEF Spliced
<1>12. n < f /\ t[f].ind \in Nat /\ t[n].ind \in Nat
  <2>1. f \in Nat /\ t[f].ind \in Nat /\ t[n].ind \in Nat
    BY <1>2, LinesAre
  <2> QED BY <1>4, <1>11, <2>1
<1>13. t[n].ind < t[f].ind
  BY <1>9, <1>11, <1>12 DEF Under
<1> QED BY <1>11, <1>12, <1>13

LEMMA FreshBehind ==
  ASSUME NEW t, NEW n, NEW L, NEW ks, Splice(t, n, EndIn(t, n) + 1, L, ks), NEW p, Leads(t, n, ks, p),
         \A m \in LiveKeys(t) : ~ OnPath(PathIn(t, m), p, Len(Base(t, n)) + 1)
  PROVE  Fresh(t, After(t, n, EndIn(t, n) + 1, L), EndIn(t, n) + 1, EndIn(t, n), ks)
<1> DEFINE e == EndIn(t, n)
           a == e + 1
           u == After(t, n, a, L)
           d == Shift(t, n, a, L)
           q == PathIn(u, a)
           b == Len(Base(t, n))
<1>1. Spliced(t, u, n, a, e, d, L, ks)
  BY SplicedIs
<1>2. Lines(t) /\ n \in LiveKeys(t)
  BY DEF Splice
<1> HIDE DEF u, d, e
<1>3. e \in Nat /\ Len(ks) \in Nat
  BY <1>1, SplicedNumbers
<1> SUFFICES ASSUME Len(ks) >= 1, NEW k \in LiveKeys(t), IsPrefix(q, PathIn(t, k))
             PROVE  FALSE
  BY DEF Fresh, u, e
<1>4. OnPath(q, p, b + 1)
  <2>1. 1 \in 1..Len(ks) /\ a - 1 + 1 = a
    BY <1>3
  <2> QED BY <1>1, <2>1, PathsNew
<1>5. q \in KeyPath /\ q # <<>>
  <2>1. q \in KeyPath /\ Len(q) = b + 1 /\ b \in Nat
    BY <1>2, <1>4, BaseIs DEF OnPath
  <2>2. Len(q) # 0
    BY <2>1
  <2> QED BY <2>1, <2>2, EmptySeq
<1>6. \E m \in LiveKeys(t) : PathIn(t, m) = q
  BY <1>2, <1>5, AboveIsThere
<1> QED BY <1>4, <1>6
-----------------------------------------------------------------------------
(* The last key on the path is the one that is furthest along it.           *)
FoundIn(t, p) == GreatestOr0({n \in LiveKeys(t) : IsPrefix(PathIn(t, n), p)})
Reached(t, p) == IF FoundIn(t, p) = 0 THEN 0 ELSE Len(PathIn(t, FoundIn(t, p)))
Rest(t, p) == SubSeq(p, IF FoundIn(t, p) = 0 THEN 1 ELSE Len(PathIn(t, FoundIn(t, p))) + 1, Len(p))

LEMMA FoundIs ==
  ASSUME NEW t, Lines(t), PathsDiffer(t), NEW p \in KeyPath
  PROVE  LET f == FoundIn(t, p)
         IN  /\ f \in Nat /\ (f # 0 => f \in LiveKeys(t) /\ IsPrefix(PathIn(t, f), p))
             /\ \A m \in LiveKeys(t) : IsPrefix(PathIn(t, m), p) =>
                   f # 0 /\ IsPrefix(PathIn(t, m), PathIn(t, f))
<1> DEFINE S == {n \in LiveKeys(t) : IsPrefix(PathIn(t, n), p)}
           f == FoundIn(t, p)
<1>1. Len(t) \in Nat /\ S \subseteq 1..Len(t) /\ \A m \in LiveKeys(t) : m \in Nat
  BY LinesAre
<1>2. f \in 0..Len(t) /\ (f = 0 <=> S = {}) /\ (S # {} => f \in S) /\ \A m \in S : m <= f
  <2>1. f = GreatestOr0(S)
    BY DEF FoundIn
  <2> HIDE DEF S, f
  <2> QED BY <1>1, <2>1, GreatestOrNone
<1> HIDE DEF f
<1>3. ASSUME NEW m \in LiveKeys(t), IsPrefix(PathIn(t, m), p)
      PROVE  f # 0 /\ IsPrefix(PathIn(t, m), PathIn(t, f))
  <2>1. m \in S /\ S # {}
    BY <1>3
  <2>2. f # 0 /\ f \in LiveKeys(t) /\ IsPrefix(PathIn(t, f), p) /\ m <= f
    BY <1>2, <2>1
  <2>3. PathIn(t, m) \in KeyPath /\ PathIn(t, f) \in KeyPath
    BY <2>2, PathIs DEF PathAsSaid
  <2>4. Len(PathIn(t, m)) \in Nat /\ Len(PathIn(t, f)) \in Nat
    BY <2>3, PrefixIs
  <2>5. CASE Len(PathIn(t, m)) <= Len(PathIn(t, f))
    BY <1>3, <2>2, <2>3, <2>5, PrefixOrder
  <2>6. CASE Len(PathIn(t, f)) < Len(PathIn(t, m))
    <3>1. Len(PathIn(t, f)) <= Len(PathIn(t, m))
      BY <2>4, <2>6
    <3>2. IsPrefix(PathIn(t, f), PathIn(t, m))
      BY <1>3, <2>2, <2>3, <3>1, PrefixOrder
    <3>3. f = m \/ Under(t, f, m)
      BY <2>2, <3>2, BelowIsUnder
    <3>4. f # m
      BY <2>4, <2>6
    <3>5. f < m
      BY <3>3, <3>4 DEF Under
    <3> QED BY <1>1, <2>2, <3>5
  <2> QED BY <2>2, <2>4, <2>5, <2>6
<1>4. f \in Nat /\ (f # 0 => f \in LiveKeys(t) /\ IsPrefix(PathIn(t, f), p))
  BY <1>1, <1>2
<1> QED BY <1>3, <1>4 DEF f

LEMMA RestIs ==
  ASSUME NEW t, Lines(t), PathsDiffer(t), NEW p \in KeyPath, p # <<>>
  PROVE  LET l == Reached(t, p)
             b == Rest(t, p)
         IN  /\ l \in Nat /\ Len(p) \in Nat /\ l <= Len(p) /\ Len(p) >= 1
             /\ b \in KeyPath /\ Len(b) \in Nat /\ Len(b) = Len(p) - l /\ (b = <<>> <=> Len(b) = 0)
             /\ \A i \in 1..Len(b) : b[i] = p[l + i]
             /\ l = Len(p) => FoundIn(t, p) # 0 /\ PathIn(t, FoundIn(t, p)) = p
<1> DEFINE f == FoundIn(t, p)
           l == Reached(t, p)
           b == Rest(t, p)
           q == PathIn(t, f)
<1>1. f # 0 => f \in LiveKeys(t) /\ IsPrefix(q, p)
  BY FoundIs
<1>2. f # 0 => q \in KeyPath
  BY <1>1, PathIs DEF PathAsSaid
<1>3. Len(p) \in Nat /\ Len(p) >= 1 /\ IsSeq(p)
  <2>1. Len(p) \in Nat /\ Len(p) # 0
    BY LenProperties, EmptySeq DEF KeyPath
  <2> QED BY <2>1 DEF KeyPath, IsSeq
<1>4. l \in Nat /\ l <= Len(p) /\ (f # 0 => l = Len(q)) /\ (f = 0 => l = 0)
  <2>1. f # 0 => Len(q) \in Nat /\ Len(q) <= Len(p)
    BY <1>1, <1>2, PrefixIs
  <2> HIDE DEF f, q
  <2> QED BY <1>3, <2>1 DEF Reached, f, q
<1>5. l = Len(p) => f # 0 /\ q = p
  <2>1. l = Len(p) => f # 0
    BY <1>3, <1>4
  <2> HIDE DEF q, f
  <2> QED BY <1>1, <1>2, <1>4, <2>1, PrefixOrder
<1>6. b = SubSeq(p, l + 1, Len(p))
  <2>1. CASE f = 0
    <3>1. l + 1 = 1
      BY <1>4, <2>1
    <3> QED BY <2>1, <3>1 DEF Rest
  <2>2. CASE f # 0
    BY <1>4, <2>2 DEF Rest
  <2> QED BY <2>1, <2>2
<1> HIDE DEF l, b, f, q
<1>7. IsSeq(b) /\ Len(b) = Len(p) - (l + 1) + 1 /\ \A i \in 1..Len(p) - (l + 1) + 1 : b[i] = p[l + 1 + i - 1]
  <2>1. l + 1 \in Nat /\ 1 <= l + 1 /\ l + 1 <= Len(p) + 1 /\ Len(p) <= Len(p)
    BY <1>3, <1>4
  <2> QED BY <1>3, <1>6, <2>1, Cut
<1>8. Len(b) = Len(p) - l /\ Len(b) \in Nat /\ \A i \in 1..Len(b) : b[i] = p[l + i]
  BY <1>3, <1>4, <1>7
<1>9. b \in KeyPath /\ (b = <<>> <=> Len(b) = 0)
  <2>1. \A i \in l + 1..Len(p) : p[i] \in KeyName
    <3>1. \A i \in l + 1..Len(p) : i \in 1..Len(p)
      BY <1>3, <1>4
    <3> QED BY <3>1, ElementOfSeq DEF KeyPath
  <2>2. l + 1 \in Int /\ Len(p) \in Int
    BY <1>3, <1>4
  <2>3. b \in Seq(KeyName)
    BY <1>6, <2>1, <2>2, SubSeqProperties
  <2> QED BY <2>3, EmptySeq DEF KeyPath
<1> QED BY <1>3, <1>4, <1>5, <1>8, <1>9 DEF l, b, f, q

LEMMA LeadsOn ==
  ASSUME NEW t, Lines(t), NEW n \in LiveKeys(t), NEW p \in KeyPath, IsPrefix(PathIn(t, n), p)
  PROVE  /\ IsPrefix(Base(t, n), p) /\ Len(Base(t, n)) \in Nat /\ Len(Base(t, n)) + 1 <= Len(p)
         /\ p[Len(Base(t, n)) + 1] = t[n].key /\ t[n].key \in KeyName
         /\ Leads(t, n, <<t[n].key>>, p) /\ Leads(t, n, <<>>, p)
<1> DEFINE b == Base(t, n)
           q == PathIn(t, n)
           k == t[n].key
<1>1. b \in KeyPath /\ Len(b) \in Nat /\ Len(q) = Len(b) + 1 /\ IsPrefix(b, q) /\ q[Len(b) + 1] = k
  BY BaseIs
<1>2. q \in KeyPath /\ k \in KeyName
  BY PathIs DEF PathAsSaid
<1>3. <<k>> \in KeyPath /\ Len(<<k>>) = 1 /\ <<k>>[1] = k
  BY <1>2, OneKey
<1> DEFINE K == <<k>>
<1> HIDE DEF b, q, k, K
<1>4. IsPrefix(b, p)
  BY <1>1, <1>2, PrefixOrder DEF q
<1>5. Len(q) <= Len(p) /\ Len(p) \in Nat /\ \A i \in 1..Len(q) : q[i] = p[i]
  BY <1>2, PrefixIs DEF q
<1>6. Len(b) + 1 <= Len(p) /\ p[Len(b) + 1] = k
  <2>1. Len(b) + 1 \in 1..Len(q)
    BY <1>1
  <2> QED BY <1>1, <1>5, <2>1
<1>7. Leads(t, n, K, p)
  <2>1. Len(K) = 1 /\ K[1] = k
    BY <1>3 DEF K
  <2>2. \A i \in 1..1 : i = 1
    OBVIOUS
  <2> QED BY <1>4, <1>6, <2>1, <2>2 DEF Leads, b
<1>8. Leads(t, n, <<>>, p)
  <2>1. Len(<<>>) = 0
    BY EmptySeq
  <2>2. Len(b) + 0 <= Len(p) /\ \A i \in 1..0 : FALSE
    BY <1>1, <1>6
  <2> DEFINE N == <<>>
  <2>3. Len(N) = 0
    BY <2>1
  <2> HIDE DEF N
  <2>4. Leads(t, n, N, p)
    BY <1>4, <2>2, <2>3 DEF Leads, b
  <2> QED BY <2>4 DEF N
<1> QED BY <1>1, <1>2, <1>4, <1>6, <1>7, <1>8 DEF b, k, K
-----------------------------------------------------------------------------
(* patchFrontmatter, case by case.                                          *)
LEMMA SetHere ==
  ASSUME NEW t, Lines(t), WellFormed(t), NEW p \in KeyPath, NEW value \in KeyPath, value # <<>>,
         NEW n \in LiveKeys(t), PathIn(t, n) = p, NoQuote(t, n)
  PROVE  Edited(t, p, n, n, Rendered(t[n].ind, <<t[n].key>>, value, t[n].note), <<t[n].key>>)
<1> DEFINE ks == <<t[n].key>>
           L == Rendered(t[n].ind, ks, value, t[n].note)
<1>1. IsPrefix(PathIn(t, n), p)
  BY PrefixOrder
<1>2. Leads(t, n, ks, p) /\ t[n].key \in KeyName
  BY <1>1, LeadsOn
<1>3. ks \in KeyPath /\ Len(ks) = 1 /\ Len(ks) >= 1
  BY <1>2, OneKey
<1>4. t[n].ind \in Nat
  BY LinesAre
<1> HIDE DEF ks
<1>5. Block(L, t[n].ind, ks) /\ Noted(t, n, L)
  <2>1. Block(L, t[n].ind, ks) /\ \A i \in 1..Len(L) : L[i].note = NoNote \/ L[i].note = t[n].note
    <3> DEFINE I == t[n].ind
               c == t[n].note
               R == Rendered(I, ks, value, c)
    <3>1. I \in Nat
      BY <1>4
    <3> HIDE DEF I, c
    <3>2. Block(R, I, ks) /\ \A i \in 1..Len(R) : R[i].note = NoNote \/ R[i].note = c
      BY <1>3, <3>1, RenderedBlock
    <3> QED BY <3>2 DEF I, c
  <2> HIDE DEF L
  <2> QED BY <2>1 DEF Noted
<1> HIDE DEF L
<1>6. Splice(t, n, n, L, ks)
  BY <1>5 DEF Splice
<1>7. Fresh(t, After(t, n, n, L), n, EndIn(t, n), ks)
  BY <1>1, <1>2, <1>6, FreshInPlace
<1>8. \A m \in LiveKeys(t) : Under(t, n, m) => Comparable(PathIn(t, m), p)
  BY UnderIsBelow DEF Comparable
<1>9. Edited(t, p, n, n, L, ks)
  BY <1>1, <1>2, <1>5, <1>6, <1>7, <1>8 DEF Edited
<1> QED BY <1>9 DEF L, ks

(* Below an entry that is null.                                             *)
LEMMA SetBelowHere ==
  ASSUME NEW t, Lines(t), WellFormed(t), NEW p \in KeyPath, p # <<>>, NEW value \in KeyPath, value # <<>>,
         NEW n, n = FoundIn(t, p), n # 0, Rest(t, p) # <<>>,
         t[n].form # "quote", \A m \in LiveKeys(t) : ~ Under(t, n, m)
  PROVE  /\ n \in LiveKeys(t)
         /\ Edited(t, p, n, n, Rendered(t[n].ind, <<t[n].key>> \o Rest(t, p), value, t[n].note),
                   <<t[n].key>> \o Rest(t, p))
         /\ Len(<<t[n].key>> \o Rest(t, p)) = Len(p) - Len(Base(t, n))
<1> DEFINE b == Rest(t, p)
           o == <<t[n].key>>
           ks == o \o b
           L == Rendered(t[n].ind, ks, value, t[n].note)
           l == Len(Base(t, n))
<1>1. PathsDiffer(t)
  BY WellFormedIs
<1>2. n \in LiveKeys(t) /\ IsPrefix(PathIn(t, n), p)
  BY <1>1, FoundIs
<1>3. /\ IsPrefix(Base(t, n), p) /\ l \in Nat /\ l + 1 <= Len(p)
      /\ p[l + 1] = t[n].key /\ t[n].key \in KeyName /\ Len(PathIn(t, n)) = l + 1
  BY <1>2, LeadsOn, BaseIs
<1>4. Reached(t, p) = l + 1
  BY <1>3 DEF Reached
<1>5. /\ Len(p) \in Nat /\ b \in KeyPath /\ Len(b) \in Nat /\ Len(b) = Len(p) - (l + 1)
      /\ \A i \in 1..Len(b) : b[i] = p[l + 1 + i]
  <2> DEFINE r == Reached(t, p)
  <2>1. /\ Len(p) \in Nat /\ b \in KeyPath /\ Len(b) \in Nat /\ Len(b) = Len(p) - r
        /\ \A i \in 1..Len(b) : b[i] = p[r + i]
    BY <1>1, RestIs
  <2>2. r = l + 1
    BY <1>4
  <2> HIDE DEF r, b, l
  <2> QED BY <2>1, <2>2
<1>6. o \in KeyPath /\ Len(o) = 1 /\ o[1] = t[n].key
  BY <1>3, OneKey
<1> HIDE DEF b, o, l
<1>7. ks \in KeyPath /\ IsJoin(ks, o, b)
  <2>1. IsSeq(o) /\ IsSeq(b)
    BY <1>5, <1>6 DEF KeyPath, IsSeq
  <2>2. ks \in KeyPath
    BY <1>5, <1>6, ConcatProperties DEF KeyPath
  <2> QED BY <2>1, <2>2, JoinedAs
<1> HIDE DEF ks
<1>8. Len(ks) = 1 + Len(b) /\ Len(ks) >= 1 /\ Len(ks) = Len(p) - l /\ Len(ks) \in Nat
  BY <1>3, <1>5, <1>6, <1>7 DEF IsJoin
<1>9. Leads(t, n, ks, p)
  <2>1. ASSUME NEW i \in 1..Len(ks) PROVE p[l + i] = ks[i]
    <3>1. CASE i = 1
      <4>1. ks[1] = o[1]
        BY <1>6, <1>7 DEF IsJoin
      <4> QED BY <1>3, <1>6, <3>1, <4>1
    <3>2. CASE i # 1
      <4> DEFINE j == i - 1
      <4>1. j \in 1..Len(b) /\ 1 + j = i /\ l + 1 + j = l + i
        BY <1>3, <1>5, <1>8, <3>2
      <4> HIDE DEF j
      <4>2. ks[1 + j] = b[j] /\ b[j] = p[l + 1 + j]
        BY <1>5, <1>6, <1>7, <4>1 DEF IsJoin
      <4> QED BY <4>1, <4>2
    <3> QED BY <3>1, <3>2
  <2>2. l + Len(ks) <= Len(p)
    BY <1>3, <1>5, <1>8
  <2> QED BY <1>3, <2>1, <2>2 DEF Leads, l
<1>10. t[n].ind \in Nat
  BY <1>2, LinesAre
<1>11. Block(L, t[n].ind, ks) /\ Noted(t, n, L)
  BY <1>7, <1>8, <1>10, RenderedBlock DEF Noted
<1> HIDE DEF L
<1>12. Splice(t, n, n, L, ks)
  BY <1>2, <1>11, NoQuoteAlone DEF Splice
<1>13. Fresh(t, After(t, n, n, L), n, EndIn(t, n), ks)
  BY <1>2, <1>9, <1>12, FreshInPlace
<1>14. Edited(t, p, n, n, L, ks)
  BY <1>2, <1>9, <1>11, <1>12, <1>13 DEF Edited
<1> QED BY <1>2, <1>8, <1>14 DEF L, ks, o, b, l

(* Behind the last entry of the block the path ends in.                     *)
LEMMA SetBehind ==
  ASSUME NEW t, Lines(t), WellFormed(t), NEW p \in KeyPath, p # <<>>, NEW value \in KeyPath, value # <<>>,
         NEW f, f = FoundIn(t, p), Rest(t, p) # <<>>,
         NEW n \in LiveKeys(t), ParentIn(t, n) = f, NoQuote(t, n)
  PROVE  /\ Edited(t, p, n, EndIn(t, n) + 1, Rendered(t[n].ind, Rest(t, p), value, NoNote), Rest(t, p))
         /\ Len(Rest(t, p)) = Len(p) - Len(Base(t, n))
<1> DEFINE ks == Rest(t, p)
           L == Rendered(t[n].ind, ks, value, NoNote)
           l == Len(Base(t, n))
           a == EndIn(t, n) + 1
<1>1. PathsDiffer(t)
  BY WellFormedIs
<1>2. /\ f \in Nat /\ (f # 0 => f \in LiveKeys(t) /\ IsPrefix(PathIn(t, f), p))
      /\ \A m \in LiveKeys(t) : IsPrefix(PathIn(t, m), p) => f # 0 /\ IsPrefix(PathIn(t, m), PathIn(t, f))
  BY <1>1, FoundIs
<1>3. Reached(t, p) = l /\ l \in Nat /\ Base(t, n) \in KeyPath /\ IsPrefix(Base(t, n), p)
  <2>1. CASE f = 0
    <3>1. Base(t, n) = <<>>
      BY <2>1 DEF Base
    <3>2. Base(t, n) \in KeyPath /\ l = 0
      BY <3>1, EmptySeq DEF KeyPath
    <3>3. Len(p) \in Nat
      BY PrefixIs
    <3>4. IsPrefix(Base(t, n), p)
      BY <3>2, <3>3, PrefixIs
    <3> QED BY <2>1, <3>2, <3>4 DEF Reached
  <2>2. CASE f # 0
    <3>1. Base(t, n) = PathIn(t, f) /\ Base(t, n) \in KeyPath
      BY <1>2, <2>2, PathIs DEF Base, PathAsSaid
    <3>2. l \in Nat
      BY <3>1, PrefixIs
    <3> QED BY <1>2, <2>2, <3>1, <3>2 DEF Reached
  <2> QED BY <2>1, <2>2
<1>4. /\ Len(p) \in Nat /\ l <= Len(p) /\ ks \in KeyPath /\ Len(ks) \in Nat /\ Len(ks) = Len(p) - l
      /\ Len(ks) # 0 /\ \A i \in 1..Len(ks) : ks[i] = p[l + i]
  <2>1. Len(p) \in Nat /\ ks \in KeyPath /\ Len(ks) \in Nat /\ (ks = <<>> <=> Len(ks) = 0)
    BY <1>1, RestIs
  <2> DEFINE r == Reached(t, p)
  <2>2. r <= Len(p) /\ Len(ks) = Len(p) - r /\ \A i \in 1..Len(ks) : ks[i] = p[r + i]
    BY <1>1, RestIs
  <2> HIDE DEF ks, r, l
  <2>3. r = l
    BY <1>3 DEF r
  <2> QED BY <2>1, <2>2, <2>3 DEF ks
<1> HIDE DEF ks, l
<1>5. Len(ks) >= 1 /\ l + Len(ks) <= Len(p)
  BY <1>3, <1>4
<1>6. Leads(t, n, ks, p)
  BY <1>3, <1>4, <1>5 DEF Leads, l
<1>7. t[n].ind \in Nat
  BY LinesAre
<1>8. Block(L, t[n].ind, ks) /\ Noted(t, n, L)
  BY <1>4, <1>5, <1>7, RenderedBlock DEF Noted
<1> HIDE DEF L
<1>9. Splice(t, n, a, L, ks)
  BY <1>8 DEF Splice
<1>10. ASSUME NEW m \in LiveKeys(t), OnPath(PathIn(t, m), p, l + 1) PROVE FALSE
  <2>1. PathIn(t, m) \in KeyPath /\ f # 0 /\ IsPrefix(PathIn(t, m), PathIn(t, f)) /\ Len(PathIn(t, m)) = l + 1
    BY <1>2, <1>10 DEF OnPath
  <2>2. PathIn(t, f) \in KeyPath /\ Len(PathIn(t, f)) = l
    BY <1>2, <1>3, <2>1, PathIs DEF PathAsSaid, Reached
  <2>3. Len(PathIn(t, m)) <= Len(PathIn(t, f))
    BY <2>1, <2>2, PrefixIs
  <2> QED BY <1>3, <2>1, <2>2, <2>3
<1>11. Fresh(t, After(t, n, a, L), a, EndIn(t, n), ks)
  BY <1>6, <1>9, <1>10, FreshBehind DEF l
<1>12. a # n
  BY EntryIs, LinesAre
<1>13. Edited(t, p, n, a, L, ks)
  BY <1>6, <1>8, <1>9, <1>11, <1>12 DEF Edited
<1> QED BY <1>4, <1>13 DEF L, ks, l
(* Within {...}: its line alone is written again.                           *)
SetLine(t, n, b, value) == FlowLine(t[n].ind, t[n].key, SetInFlow(t[n].flow, b, value), t[n].note)

LEMMA FlowLineIs ==
  ASSUME NEW ind, NEW key, NEW flow, NEW note
  PROVE  LET l == FlowLine(ind, key, flow, note)
         IN  /\ l.is = "key" /\ l.ind = ind /\ l.key = key /\ l.form = "flow" /\ l.val = <<>>
             /\ l.flow = flow /\ l.note = note
  BY DEF FlowLine, Line

LEMMA BlockPaths ==
  ASSUME NEW b \in KeyPath, NEW i \in 1..Len(b)
  PROVE  SubSeq(b, 1, i) \in KeyPath /\ Len(SubSeq(b, 1, i)) = i /\ SubSeq(b, 1, i) # <<>> /\ IsPrefix(SubSeq(b, 1, i), b)
<1> DEFINE q == SubSeq(b, 1, i)
<1>1. Len(b) \in Nat /\ IsSeq(b) /\ \A k \in 1..Len(b) : b[k] \in KeyName
  BY LenProperties, ElementOfSeq DEF KeyPath, IsSeq
<1>2. i \in Nat /\ 1 \in Nat /\ 1 <= i + 1 /\ i <= Len(b) /\ 1 <= i
  BY <1>1
<1>3. Len(q) = i - 1 + 1 /\ \A k \in 1..i - 1 + 1 : q[k] = b[1 + k - 1]
  BY <1>1, <1>2, Cut
<1>4. q \in KeyPath
  <2>1. \A k \in 1..i : b[k] \in KeyName
    BY <1>1, <1>2
  <2>2. q \in Seq(KeyName)
    BY <1>2, <2>1, SubSeqProperties
  <2> QED BY <2>2 DEF KeyPath
<1> HIDE DEF q
<1>5. Len(q) = i /\ \A k \in 1..Len(q) : q[k] = b[k]
  <2>1. i - 1 + 1 = i /\ \A k \in 1..i : 1 + k - 1 = k
    BY <1>2
  <2>2. Len(q) = i /\ \A k \in 1..i : q[k] = b[1 + k - 1]
    BY <1>3, <2>1
  <2> QED BY <2>1, <2>2
<1>6. q # <<>>
  <2>1. Len(q) # 0
    BY <1>2, <1>5
  <2> QED BY <2>1, EmptySeq
<1>7. IsPrefix(q, b)
  BY <1>2, <1>4, <1>5, PrefixIs
<1> QED BY <1>4, <1>5, <1>6, <1>7 DEF q

LEMMA SetHereInFlow ==
  ASSUME NEW t, Lines(t), WellFormed(t), NEW p \in KeyPath, p # <<>>, NEW value,
         NEW n, n = FoundIn(t, p), n # 0, Rest(t, p) # <<>>, t[n].form = "flow"
  PROVE  n \in LiveKeys(t) /\ Edited(t, p, n, n, <<SetLine(t, n, Rest(t, p), value)>>, <<t[n].key>>)
<1> DEFINE b == Rest(t, p)
           flow == t[n].flow
           l == SetLine(t, n, b, value)
           L == <<l>>
           ks == <<t[n].key>>
<1>1. PathsDiffer(t) /\ KeysBelong(t)
  BY WellFormedIs
<1>2. n \in LiveKeys(t) /\ IsPrefix(PathIn(t, n), p) /\ t[n].ind \in Nat /\ n \in 1..Len(t) /\ IsLine(t[n])
  <2>1. n \in LiveKeys(t) /\ IsPrefix(PathIn(t, n), p)
    BY <1>1, FoundIs
  <2> QED BY <2>1, LinesAre
<1>3. b \in KeyPath /\ Len(b) \in Nat
  BY <1>1, RestIs
<1>4. Leads(t, n, ks, p) /\ t[n].key \in KeyName
  BY <1>2, LeadsOn
<1>5. ks \in KeyPath /\ Len(ks) = 1 /\ ks[1] = t[n].key
  BY <1>4, OneKey
<1>6. \A q \in DOMAIN flow : q \in KeyPath /\ q # <<>>
  BY <1>2, Zenon DEF IsLine, KeyPath, KeyName
<1>7. \A q \in DOMAIN SetInFlow(flow, b, value) : q \in KeyPath /\ q # <<>>
  <2> DEFINE kept == {q \in DOMAIN flow : ~ IsPrefix(b, q)}
             blocks == {SubSeq(b, 1, i) : i \in 1..(Len(b) - 1)}
  <2>1. DOMAIN SetInFlow(flow, b, value) \subseteq kept \cup blocks \cup {b}
    BY DEF SetInFlow
  <2>2. \A q \in blocks : q \in KeyPath /\ q # <<>>
    <3>1. \A i \in 1..(Len(b) - 1) : i \in 1..Len(b)
      BY <1>3
    <3> QED BY <1>3, <3>1, BlockPaths
  <2>3. \A q \in kept : q \in KeyPath /\ q # <<>>
    BY <1>6
  <2> HIDE DEF kept, blocks, flow, b
  <2> QED BY <1>3, <2>1, <2>2, <2>3 DEF b
<1>8. /\ l.is = "key" /\ l.ind = t[n].ind /\ l.key = t[n].key /\ l.form = "flow" /\ l.val = <<>>
      /\ l.flow = SetInFlow(flow, b, value) /\ l.note = t[n].note
  BY FlowLineIs DEF SetLine
<1> HIDE DEF l, b, flow
<1>9. IsLine(l)
  <2>1. l.ind \in Nat /\ l.key \in STRING /\ l.val \in Seq(STRING)
    BY <1>2, <1>4, <1>8, EmptySeq DEF KeyName
  <2>2. \A q \in DOMAIN l.flow : l.form = "flow" /\ q \in Seq(STRING) /\ q # <<>>
    BY <1>7, <1>8 DEF KeyPath, KeyName
  <2>3. l.is # "blank"
    BY <1>8
  <2> QED BY <1>8, <2>1, <2>2, <2>3, Zenon DEF IsLine
<1>10. IsSeq(L) /\ Len(L) = 1 /\ L[1] = l
  BY OneIsSeq
<1> HIDE DEF L, ks
<1>11. NewLine(L, t[n].ind, ks, 1)
  <2>1. 1 <= Len(ks) /\ ~ (1 < Len(ks))
    BY <1>5
  <2>2. l.ind = t[n].ind + 1 - 1
    BY <1>2, <1>8
  <2> QED BY <1>5, <1>8, <1>10, <2>1, <2>2 DEF NewLine
<1>12. Block(L, t[n].ind, ks) /\ Noted(t, n, L)
  <2>1. \A i \in 1..Len(L) : i = 1
    BY <1>10
  <2> QED BY <1>5, <1>8, <1>9, <1>10, <1>11, <2>1 DEF Block, Noted
<1>13. \A m \in LiveKeys(t) : ~ Under(t, n, m)
  BY <1>1, <1>2, NoKeysUnder
<1>14. Splice(t, n, n, L, ks)
  BY <1>2, <1>12, <1>13, NoQuoteAlone DEF Splice
<1>15. Fresh(t, After(t, n, n, L), n, EndIn(t, n), ks)
  BY <1>2, <1>4, <1>14, FreshInPlace
<1>16. Edited(t, p, n, n, L, ks)
  BY <1>2, <1>4, <1>12, <1>13, <1>14, <1>15 DEF Edited
<1> QED BY <1>2, <1>16 DEF L, l, ks, b

(* removeEntry: the entry, or the largest block that holds nothing else.    *)
AboveIn(t, n) == {m \in LiveKeys(t) : IsStrictPrefix(PathIn(t, m), PathIn(t, n))}
EmptiedIn(t, n) ==
  {m \in AboveIn(t, n) : \A k \in LiveKeys(t) :
      IsStrictPrefix(PathIn(t, m), PathIn(t, k)) => Comparable(PathIn(t, k), PathIn(t, n))}
TopIn(t, n) == Lowest(EmptiedIn(t, n) \cup {n})

LEMMA TopIs ==
  ASSUME NEW t, Lines(t), WellFormed(t), NEW n \in LiveKeys(t)
  PROVE  LET m == TopIn(t, n)
         IN  /\ m \in LiveKeys(t) /\ (m = n \/ m \in EmptiedIn(t, n))
             /\ \A k \in EmptiedIn(t, n) : m <= k
             /\ m <= n
             /\ IsPrefix(PathIn(t, m), PathIn(t, n))
             /\ \A k \in LiveKeys(t) : Under(t, m, k) => Comparable(PathIn(t, k), PathIn(t, n))
<1> DEFINE S == EmptiedIn(t, n) \cup {n}
           m == TopIn(t, n)
<1>1. \A k \in LiveKeys(t) : k \in Nat /\ PathIn(t, k) \in KeyPath
  BY LinesAre, PathIs DEF PathAsSaid
<1>2. \A k \in S : k \in LiveKeys(t) /\ IsPrefix(PathIn(t, k), PathIn(t, n))
  <2>1. IsPrefix(PathIn(t, n), PathIn(t, n))
    BY <1>1, PrefixOrder
  <2> QED BY <2>1 DEF EmptiedIn, AboveIn, IsStrictPrefix
<1>3. m \in S /\ \A k \in S : m <= k
  <2>1. S \subseteq Nat /\ n \in S
    BY <1>1, <1>2
  <2> HIDE DEF S
  <2> QED BY <2>1, LowestNumber DEF TopIn, S
<1>4. m \in LiveKeys(t) /\ (m = n \/ m \in EmptiedIn(t, n)) /\ (\A k \in EmptiedIn(t, n) : m <= k) /\ m <= n
  BY <1>2, <1>3
<1>5. IsPrefix(PathIn(t, m), PathIn(t, n))
  BY <1>2, <1>3
<1> HIDE DEF m
<1>6. ASSUME NEW k \in LiveKeys(t), Under(t, m, k) PROVE Comparable(PathIn(t, k), PathIn(t, n))
  <2>1. IsPrefix(PathIn(t, m), PathIn(t, k)) /\ Len(PathIn(t, m)) < Len(PathIn(t, k))
    BY <1>4, <1>6, UnderIsBelow
  <2>2. PathIn(t, m) # PathIn(t, k)
    <3>1. Len(PathIn(t, m)) \in Nat
      BY <1>1, <1>4, PrefixIs
    <3> QED BY <2>1, <3>1
  <2>3. CASE m = n
    BY <2>1, <2>3 DEF Comparable
  <2>4. CASE m \in EmptiedIn(t, n)
    BY <2>1, <2>2, <2>4 DEF EmptiedIn, IsStrictPrefix
  <2> QED BY <1>4, <2>3, <2>4
<1> QED BY <1>4, <1>5, <1>6 DEF m

LEMMA RemovedHere ==
  ASSUME NEW t, Lines(t), WellFormed(t), NEW n \in LiveKeys(t), NoQuote(t, TopIn(t, n))
  PROVE  Edited(t, PathIn(t, n), TopIn(t, n), TopIn(t, n), <<>>, <<>>)
<1> DEFINE m == TopIn(t, n)
           p == PathIn(t, n)
           N == <<>>
<1>1. m \in LiveKeys(t) /\ IsPrefix(PathIn(t, m), p) /\ \A k \in LiveKeys(t) : Under(t, m, k) => Comparable(PathIn(t, k), p)
  BY TopIs
<1>2. p \in KeyPath
  BY PathIs DEF PathAsSaid
<1> HIDE DEF m, p
<1>3. Leads(t, m, N, p)
  BY <1>1, <1>2, LeadsOn
<1>4. Len(N) = 0 /\ N \in KeyPath /\ IsSeq(N)
  BY NoneIsSeq, EmptySeq DEF KeyPath
<1> HIDE DEF N
<1>5. Block(N, t[m].ind, N) /\ Noted(t, m, N)
  BY <1>4 DEF Block, Noted
<1>6. Splice(t, m, m, N, N)
  BY <1>1, <1>5 DEF Splice, m
<1>7. Fresh(t, After(t, m, m, N), m, EndIn(t, m), N)
  <2>1. ~ (Len(N) >= 1)
    BY <1>4
  <2> QED BY <2>1 DEF Fresh
<1>8. Edited(t, p, m, m, N, N)
  BY <1>1, <1>3, <1>5, <1>6, <1>7 DEF Edited
<1> QED BY <1>8 DEF m, p, N
(* What comes of an edit that is not refused.                               *)
IsEdit(e) == e.path \in KeyPath /\ e.path # <<>> /\ e.value \in KeyPath
OutOfFlow(t, p) == FoundIn(t, p) # 0 => t[FoundIn(t, p)].form # "flow"
IsNothing(t, p, r) == r.text = t /\ r.pruned = {} /\ Rest(t, p) # <<>> /\ OutOfFlow(t, p)
SetAs(t, p, v, r, n, a, ks, note) ==
  LET L == Rendered(t[n].ind, ks, v, note)
  IN  /\ r.text = After(t, n, a, L) /\ Edited(t, p, n, a, L, ks)
      /\ Len(ks) = Len(p) - Len(Base(t, n)) /\ ks # <<>> /\ ks \in KeyPath
      /\ a = n => \/ PathIn(t, n) = p
                  \/ t[n].form = "nest" /\ ValueAt(t, LiveKeys(t), n) = Nothing /\ Rest(t, p) # <<>>
      /\ a # n => Rest(t, p) # <<>>
      /\ Rest(t, p) # <<>> => OutOfFlow(t, p)
IsSet(t, p, v, r) ==
  /\ r.pruned = {}
  /\ \E n \in LiveKeys(t) : \E a, ks, note : SetAs(t, p, v, r, n, a, ks, note)
NotThrough(t, n, b) ==
  \A q \in {SubSeq(b, 1, i) : i \in 1..(Len(b) - 1)} : q \in DOMAIN t[n].flow => t[n].flow[q] \in {Map, Nothing}
IsSetInFlow(t, p, v, r) ==
  /\ r.pruned = {} /\ Rest(t, p) # <<>>
  /\ LET n == FoundIn(t, p)
         L == <<SetLine(t, n, Rest(t, p), v)>>
     IN  /\ n \in LiveKeys(t) /\ t[n].form = "flow" /\ NotThrough(t, n, Rest(t, p))
         /\ r.text = After(t, n, n, L) /\ Edited(t, p, n, n, L, <<t[n].key>>)
IsRemoved(t, p, r) ==
  \E n \in LiveKeys(t) :
     LET m == TopIn(t, n)
     IN  /\ PathIn(t, n) = p /\ r.pruned = {PathIn(t, k) : k \in EmptiedIn(t, n)}
         /\ r.text = After(t, m, m, <<>>) /\ Edited(t, p, m, m, <<>>, <<>>)
PatchedAs(t, p, v, r) ==
  \/ v = Nothing /\ IsNothing(t, p, r)
  \/ v # Nothing /\ IsSet(t, p, v, r)
  \/ IsSetInFlow(t, p, v, r)
  \/ v = Nothing /\ IsRemoved(t, p, r)

LEMMA RemoveEntryIs ==
  ASSUME NEW t, Lines(t), WellFormed(t), NEW n \in LiveKeys(t)
  PROVE  LET r == RemoveEntry(t, LiveKeys(t), n) IN r.ok => IsRemoved(t, PathIn(t, n), r)
<1> DEFINE m == TopIn(t, n)
           r == RemoveEntry(t, LiveKeys(t), n)
<1>1. r = IF HasForm(t, LiveKeys(t), m, "quote") \/ HasForm(t, LiveKeys(t), m, "alias") THEN Refused(t)
          ELSE Outcome(After(t, m, m, <<>>), {PathIn(t, k) : k \in EmptiedIn(t, n)})
  BY Zenon DEF RemoveEntry, TopIn, EmptiedIn, AboveIn, Lowest, PathIn, After, EndIn
<1>2. m \in LiveKeys(t)
  BY TopIs
<1> HIDE DEF m
<1> SUFFICES ASSUME r.ok PROVE IsRemoved(t, PathIn(t, n), r)
  OBVIOUS
<1>3. ~ Refused(t).ok
  BY DEF Refused
<1>4. /\ ~ HasForm(t, LiveKeys(t), m, "quote")
      /\ r = Outcome(After(t, m, m, <<>>), {PathIn(t, k) : k \in EmptiedIn(t, n)})
  BY <1>1, <1>3
<1>5. NoQuote(t, m)
  BY <1>2, <1>4, NoQuoteBelow
<1>6. Edited(t, PathIn(t, n), m, m, <<>>, <<>>)
  BY <1>5, RemovedHere DEF m
<1>7. r.text = After(t, m, m, <<>>) /\ r.pruned = {PathIn(t, k) : k \in EmptiedIn(t, n)}
  BY <1>4 DEF Outcome
<1> QED BY <1>6, <1>7 DEF IsRemoved, m

LEMMA PatchIs ==
  ASSUME NEW t, Lines(t), NEW e
  PROVE  LET keys == LiveKeys(t)
             f == FoundIn(t, e.path)
             b == Rest(t, e.path)
             siblings == Children(t, keys, f)
             r == PatchFrontmatter(t, e)
             at == t[f].form = "nest" /\ ValueAt(t, keys, f) = Nothing
         IN  /\ keys = {} => r = Refused(t)
             /\ keys # {} /\ f # 0 /\ b = <<>> => r = PatchLeaf(t, keys, f, e)
             /\ keys # {} /\ (f = 0 \/ siblings # {}) /\ (f = 0 \/ b # <<>>) =>
                   r = InsertInto(t, keys, siblings, b, e)
             /\ keys # {} /\ f # 0 /\ b # <<>> /\ siblings = {} /\ at =>
                   r = IF e.value = Nothing THEN Outcome(t, {})
                       ELSE Outcome(After(t, f, f, Rendered(t[f].ind, <<t[f].key>> \o b, e.value, t[f].note)), {})
             /\ keys # {} /\ f # 0 /\ b # <<>> /\ siblings = {} /\ ~ at =>
                   r = IF t[f].form = "flow" THEN PatchFlow(t, keys, f, b, e) ELSE Refused(t)
<1> DEFINE keys == LiveKeys(t)
           f == FoundIn(t, e.path)
           b == Rest(t, e.path)
           siblings == Children(t, keys, f)
           r == PatchFrontmatter(t, e)
           at == t[f].form = "nest" /\ ValueAt(t, keys, f) = Nothing
           refused == Refused(t)
           leaf == PatchLeaf(t, keys, f, e)
           insert == InsertInto(t, keys, siblings, b, e)
           null == IF e.value = Nothing THEN Outcome(t, {})
                   ELSE Outcome(After(t, f, f, Rendered(t[f].ind, <<t[f].key>> \o b, e.value, t[f].note)), {})
           patched == PatchFlow(t, keys, f, b, e)
           flows == t[f].form = "flow"
           none == keys = {}
           some == siblings # {}
           whole == b = <<>>
           nowhere == f = 0
<1>1. r = IF none THEN refused
          ELSE IF ~ nowhere /\ whole THEN leaf
          ELSE IF nowhere \/ some THEN insert
          ELSE IF at THEN null
          ELSE IF flows THEN patched
          ELSE refused
  BY Zenon DEF PatchFrontmatter, FoundIn, Rest, PathIn, After, EndIn
<1> HIDE DEF r, refused, leaf, insert, at, null, flows, patched, none, some, whole, nowhere
<1>3. none => r = refused
  BY <1>1
<1>4. ~ none /\ ~ nowhere /\ whole => r = leaf
  BY <1>1
<1>5. ~ none /\ (nowhere \/ some) /\ (nowhere \/ ~ whole) => r = insert
  BY <1>1
<1>6. ~ none /\ ~ nowhere /\ ~ whole /\ ~ some /\ at => r = null
  BY <1>1
<1>7. ~ none /\ ~ nowhere /\ ~ whole /\ ~ some /\ ~ at => r = IF flows THEN patched ELSE refused
  BY <1>1
<1>8. /\ keys = {} => r = refused
      /\ keys # {} /\ f # 0 /\ b = <<>> => r = leaf
      /\ keys # {} /\ (f = 0 \/ siblings # {}) /\ (f = 0 \/ b # <<>>) => r = insert
      /\ keys # {} /\ f # 0 /\ b # <<>> /\ siblings = {} /\ at => r = null
      /\ keys # {} /\ f # 0 /\ b # <<>> /\ siblings = {} /\ ~ at => r = IF flows THEN patched ELSE refused
  <2> HIDE DEF keys, f, b, siblings
  <2> QED BY <1>3, <1>4, <1>5, <1>6, <1>7 DEF none, nowhere, whole, some
<1> QED BY <1>8, Zenon DEF r, refused, leaf, insert, at, null, flows, patched
LEMMA OutcomeIs ==
  ASSUME NEW x, NEW y
  PROVE  /\ Outcome(x, y).ok = TRUE /\ Outcome(x, y).text = x /\ Outcome(x, y).pruned = y
         /\ Refused(x).ok = FALSE
  BY DEF Outcome, Refused
LEMMA OutcomeText ==
  ASSUME NEW x, NEW r, r = Outcome(x, {})
  PROVE  r.text = x /\ r.pruned = {}
  BY DEF Outcome

LEMMA LeafPatched ==
  ASSUME NEW t, Lines(t), WellFormed(t), NEW e, IsEdit(e), NEW n \in LiveKeys(t),
         PathIn(t, n) = e.path, Rest(t, e.path) = <<>>,
         PatchLeaf(t, LiveKeys(t), n, e).ok
  PROVE  PatchedAs(t, e.path, e.value, PatchLeaf(t, LiveKeys(t), n, e))
<1> DEFINE r == PatchLeaf(t, LiveKeys(t), n, e)
           ks == <<t[n].key>>
           p == e.path
           v == e.value
           c == t[n].note
           L == Rendered(t[n].ind, ks, v, c)
<1>1. r = IF HasForm(t, LiveKeys(t), n, "alias") THEN Refused(t)
          ELSE IF v = Nothing THEN RemoveEntry(t, LiveKeys(t), n)
          ELSE IF HasForm(t, LiveKeys(t), n, "quote") THEN Refused(t)
          ELSE Outcome(After(t, n, n, L), {})
  BY Zenon DEF PatchLeaf, After, EndIn
<1>2. p \in KeyPath /\ v \in KeyPath
  BY DEF IsEdit
<1> HIDE DEF r, L
<1>3. ~ Refused(t).ok /\ r.ok
  BY OutcomeIs DEF r
<1>4. CASE v = Nothing
  <2>1. r = RemoveEntry(t, LiveKeys(t), n)
    BY <1>1, <1>3, <1>4
  <2>2. IsRemoved(t, PathIn(t, n), r)
    BY <1>3, <2>1, RemoveEntryIs
  <2> QED BY <1>4, <2>2 DEF PatchedAs, r
<1>5. CASE v # Nothing
  <2>1. r = Outcome(After(t, n, n, L), {}) /\ ~ HasForm(t, LiveKeys(t), n, "quote")
    BY <1>1, <1>3, <1>5
  <2>2. r.text = After(t, n, n, L) /\ r.pruned = {}
    BY <2>1, OutcomeText, Zenon
  <2>3. NoQuote(t, n)
    BY <2>1, NoQuoteBelow
  <2>4. Edited(t, p, n, n, L, ks)
    BY <1>2, <1>5, <2>3, SetHere DEF L, Nothing
  <2>5. t[n].key \in KeyName /\ Len(Base(t, n)) \in Nat /\ Len(p) = Len(Base(t, n)) + 1
    BY PathIs, BaseIs DEF PathAsSaid
  <2>6. ks \in KeyPath /\ Len(ks) = 1 /\ ks # <<>>
    BY <2>5, OneKey
  <2>7. Len(ks) = Len(p) - Len(Base(t, n))
    BY <2>5, <2>6
  <2> HIDE DEF ks, p, v, c
  <2>8. SetAs(t, p, v, r, n, n, ks, c)
    BY <2>2, <2>4, <2>6, <2>7 DEF SetAs, L, p
  <2>9. IsSet(t, p, v, r)
    BY <2>2, <2>8 DEF IsSet
  <2> QED BY <1>5, <2>9 DEF PatchedAs, p, v, r
<1> QED BY <1>4, <1>5

LEMMA InsertPatched ==
  ASSUME NEW t, Lines(t), WellFormed(t), LiveKeys(t) # {}, NEW e, IsEdit(e), Rest(t, e.path) # <<>>,
         NEW siblings, siblings = Children(t, LiveKeys(t), FoundIn(t, e.path)),
         FoundIn(t, e.path) = 0 \/ siblings # {},
         InsertInto(t, LiveKeys(t), siblings, Rest(t, e.path), e).ok
  PROVE  PatchedAs(t, e.path, e.value, InsertInto(t, LiveKeys(t), siblings, Rest(t, e.path), e))
<1> DEFINE p == e.path
           v == e.value
           f == FoundIn(t, p)
           ks == Rest(t, p)
           n == Greatest(siblings)
           r == InsertInto(t, LiveKeys(t), siblings, ks, e)
           a == EndIn(t, n) + 1
           L == Rendered(t[n].ind, ks, v, NoNote)
<1>1. p \in KeyPath /\ v \in KeyPath /\ p # <<>> /\ KeysBelong(t) /\ PathsDiffer(t)
  BY WellFormedIs DEF IsEdit
<1>2. siblings \subseteq LiveKeys(t) /\ \A m \in LiveKeys(t) : m \in siblings <=> ParentIn(t, m) = f
  BY DEF Children, ParentIn
<1>3. siblings # {}
  <2> SUFFICES ASSUME f = 0 PROVE siblings # {}
    OBVIOUS
  <2> DEFINE m == Lowest(LiveKeys(t))
  <2>1. \A k \in LiveKeys(t) : k \in Nat
    BY LinesAre
  <2>2. m \in LiveKeys(t) /\ \A k \in LiveKeys(t) : m <= k
    BY <2>1, LowestNumber
  <2> HIDE DEF m
  <2>3. ParentIn(t, m) \in Nat /\ ParentIn(t, m) < m /\ (ParentIn(t, m) # 0 => ParentIn(t, m) \in LiveKeys(t))
    BY <2>2, ParentIs DEF ParentIn
  <2>4. ParentIn(t, m) = 0
    BY <2>1, <2>2, <2>3
  <2> QED BY <1>2, <2>2, <2>4
<1>4. n \in siblings
  <2>1. siblings \subseteq 0..Len(t) /\ Len(t) \in Nat
    <3>1. \A k \in LiveKeys(t) : k \in 0..Len(t)
      BY LinesAre
    <3> QED BY <1>2, <3>1, LinesAre
  <2> QED BY <1>3, <2>1, GreatestNumber
<1>5. n \in LiveKeys(t) /\ ParentIn(t, n) = f
  BY <1>2, <1>4
<1>6. r = IF v = Nothing THEN Outcome(t, {})
          ELSE IF HasForm(t, LiveKeys(t), n, "quote") THEN Refused(t)
          ELSE Outcome(After(t, n, a, L), {})
  BY Zenon DEF InsertInto, After, EndIn, NoNote
<1>7. OutOfFlow(t, p)
  <2> SUFFICES ASSUME f # 0 PROVE t[f].form # "flow"
    BY DEF OutOfFlow
  <2>1. t[f].form = "nest"
    BY <1>1, <1>5 DEF KeysBelong
  <2> QED BY <2>1
<1> HIDE DEF r, L, a, n
<1>8. ~ Refused(t).ok /\ r.ok
  BY OutcomeIs DEF r
<1>9. CASE v = Nothing
  <2>1. r = Outcome(t, {})
    BY <1>6, <1>9
  <2>11. r.text = t /\ r.pruned = {}
    BY <2>1, OutcomeText, Zenon
  <2>2. IsNothing(t, p, r)
    BY <1>7, <2>11 DEF IsNothing
  <2> QED BY <1>9, <2>2 DEF PatchedAs, r
<1>10. CASE v # Nothing
  <2>1. r = Outcome(After(t, n, a, L), {}) /\ ~ HasForm(t, LiveKeys(t), n, "quote")
    BY <1>6, <1>8, <1>10
  <2>2. r.text = After(t, n, a, L) /\ r.pruned = {}
    BY <2>1, OutcomeText, Zenon
  <2>3. NoQuote(t, n)
    BY <1>5, <2>1, NoQuoteBelow
  <2>4. Edited(t, p, n, a, L, ks) /\ Len(ks) = Len(p) - Len(Base(t, n))
    BY <1>1, <1>5, <1>10, <2>3, SetBehind DEF L, a, Nothing
  <2>5. ks \in KeyPath
    BY <1>1, RestIs
  <2>6. a # n
    BY <1>5, EntryIs, LinesAre DEF a
  <2>7. Rest(t, p) # <<>> /\ ks # <<>>
    OBVIOUS
  <2> HIDE DEF ks, p, v
  <2>8. SetAs(t, p, v, r, n, a, ks, NoNote)
    BY <1>7, <2>2, <2>4, <2>5, <2>6, <2>7 DEF SetAs, L
  <2>9. IsSet(t, p, v, r)
    BY <1>5, <2>2, <2>8 DEF IsSet
  <2> QED BY <1>10, <2>9 DEF PatchedAs, p, v, r, ks
<1> QED BY <1>9, <1>10

LEMMA NullPatched ==
  ASSUME NEW t, Lines(t), WellFormed(t), NEW e, IsEdit(e), Rest(t, e.path) # <<>>, FoundIn(t, e.path) # 0,
         Children(t, LiveKeys(t), FoundIn(t, e.path)) = {},
         t[FoundIn(t, e.path)].form = "nest", ValueAt(t, LiveKeys(t), FoundIn(t, e.path)) = Nothing,
         NEW r, r = IF e.value = Nothing THEN Outcome(t, {})
                    ELSE Outcome(After(t, FoundIn(t, e.path), FoundIn(t, e.path),
                                       Rendered(t[FoundIn(t, e.path)].ind,
                                                <<t[FoundIn(t, e.path)].key>> \o Rest(t, e.path), e.value,
                                                t[FoundIn(t, e.path)].note)), {})
  PROVE  PatchedAs(t, e.path, e.value, r)
<1> DEFINE p == e.path
           v == e.value
           n == FoundIn(t, p)
           ks == <<t[n].key>> \o Rest(t, p)
           c == t[n].note
           L == Rendered(t[n].ind, ks, v, c)
<1>1. p \in KeyPath /\ v \in KeyPath /\ p # <<>> /\ KeysBelong(t) /\ PathsDiffer(t)
  BY WellFormedIs DEF IsEdit
<1>2. n \in LiveKeys(t)
  BY <1>1, FoundIs
<1>3. \A m \in LiveKeys(t) : ~ Under(t, n, m)
  BY <1>1, <1>2, NoKeysUnder
<1>4. OutOfFlow(t, p)
  BY DEF OutOfFlow
<1>5. CASE v = Nothing
  <2> HIDE DEF v, L, n
  <2>1. r = Outcome(t, {})
    BY <1>5 DEF v
  <2>11. r.text = t /\ r.pruned = {}
    BY <2>1, OutcomeText, Zenon
  <2>2. IsNothing(t, p, r)
    BY <1>4, <2>11 DEF IsNothing
  <2> QED BY <1>5, <2>2 DEF PatchedAs, v
<1>6. CASE v # Nothing
  <2>0. r = Outcome(After(t, n, n, L), {})
    <3>1. v # Nothing => r = Outcome(After(t, n, n, L), {})
      BY Zenon DEF v, L, n, ks, c, p
    <3> HIDE DEF v, L, n
    <3> QED BY <1>6, <3>1
  <2>1. r.text = After(t, n, n, L) /\ r.pruned = {}
    BY <2>0, OutcomeText, Zenon
  <2>2. Edited(t, p, n, n, L, ks) /\ Len(ks) = Len(p) - Len(Base(t, n))
    BY <1>1, <1>3, <1>6, SetBelowHere DEF Nothing
  <2>3. ks \in KeyPath /\ ks # <<>>
    <3>1. t[n].key \in KeyName /\ Rest(t, p) \in KeyPath
      BY <1>1, <1>2, PathIs, RestIs DEF PathAsSaid
    <3>2. <<t[n].key>> \in KeyPath /\ Len(<<t[n].key>>) = 1
      BY <3>1, OneKey
    <3> DEFINE o == <<t[n].key>>
               b == Rest(t, p)
    <3> HIDE DEF o, b
    <3>3. o \o b \in KeyPath /\ Len(o \o b) = 1 + Len(b) /\ Len(b) \in Nat
      BY <3>1, <3>2, ConcatProperties, LenProperties DEF KeyPath, o, b
    <3>4. Len(o \o b) # 0
      BY <3>3
    <3>5. o \o b # <<>>
      BY <3>4, EmptySeq
    <3> QED BY <3>3, <3>5 DEF o, b
  <2>4. t[n].form = "nest" /\ ValueAt(t, LiveKeys(t), n) = Nothing /\ Rest(t, p) # <<>>
    OBVIOUS
  <2> HIDE DEF ks, p, v, n, c
  <2>5. SetAs(t, p, v, r, n, n, ks, c)
    BY <1>4, <2>1, <2>2, <2>3, <2>4 DEF SetAs
  <2>6. IsSet(t, p, v, r)
    BY <1>2, <2>1, <2>5 DEF IsSet
  <2> QED BY <1>6, <2>6 DEF PatchedAs, p, v
<1> QED BY <1>5, <1>6

LEMMA FlowPatched ==
  ASSUME NEW t, Lines(t), WellFormed(t), NEW e, IsEdit(e), Rest(t, e.path) # <<>>, FoundIn(t, e.path) # 0,
         t[FoundIn(t, e.path)].form = "flow",
         PatchFlow(t, LiveKeys(t), FoundIn(t, e.path), Rest(t, e.path), e).ok
  PROVE  PatchedAs(t, e.path, e.value, PatchFlow(t, LiveKeys(t), FoundIn(t, e.path), Rest(t, e.path), e))
<1> DEFINE p == e.path
           v == e.value
           n == FoundIn(t, p)
           b == Rest(t, p)
           L == <<SetLine(t, n, b, v)>>
           r == PatchFlow(t, LiveKeys(t), n, b, e)
           blocks == {SubSeq(b, 1, i) : i \in 1..(Len(b) - 1)}
<1>1. p \in KeyPath /\ p # <<>>
  BY DEF IsEdit
<1>2. r = IF \E q \in blocks \cap DOMAIN t[n].flow : t[n].flow[q] \notin {Map, Nothing} THEN Refused(t)
          ELSE Outcome(After(t, n, n, L), {})
  BY Zenon DEF PatchFlow, SetLine, After, EndIn
<1>3. n \in LiveKeys(t) /\ Edited(t, p, n, n, L, <<t[n].key>>)
  BY <1>1, SetHereInFlow
<1> HIDE DEF r, L
<1>4. ~ Refused(t).ok /\ r.ok
  BY OutcomeIs DEF r
<1>5. /\ r = Outcome(After(t, n, n, L), {})
      /\ \A q \in blocks : q \in DOMAIN t[n].flow => t[n].flow[q] \in {Map, Nothing}
  BY <1>2, <1>4
<1>6. NotThrough(t, n, b)
  BY <1>5 DEF NotThrough
<1>7. r.text = After(t, n, n, L) /\ r.pruned = {}
  BY <1>5, OutcomeText, Zenon
<1>8. IsSetInFlow(t, p, v, r)
  BY <1>3, <1>6, <1>7 DEF IsSetInFlow, L
<1> QED BY <1>8 DEF PatchedAs, r

LEMMA EditIs ==
  ASSUME NEW t, Lines(t), WellFormed(t), NEW e, IsEdit(e), PatchFrontmatter(t, e).ok
  PROVE  PatchedAs(t, e.path, e.value, PatchFrontmatter(t, e))
<1> DEFINE r == PatchFrontmatter(t, e)
           keys == LiveKeys(t)
           p == e.path
           f == FoundIn(t, p)
           b == Rest(t, p)
           siblings == Children(t, keys, f)
           at == t[f].form = "nest" /\ ValueAt(t, keys, f) = Nothing
           leaf == PatchLeaf(t, keys, f, e)
           insert == InsertInto(t, keys, siblings, b, e)
           null == IF e.value = Nothing THEN Outcome(t, {})
                   ELSE Outcome(After(t, f, f, Rendered(t[f].ind, <<t[f].key>> \o b, e.value, t[f].note)), {})
           flow == PatchFlow(t, keys, f, b, e)
           flows == t[f].form = "flow"
<1>1. /\ keys = {} => r = Refused(t)
      /\ keys # {} /\ f # 0 /\ b = <<>> => r = leaf
      /\ keys # {} /\ (f = 0 \/ siblings # {}) /\ (f = 0 \/ b # <<>>) => r = insert
      /\ keys # {} /\ f # 0 /\ b # <<>> /\ siblings = {} /\ at => r = null
      /\ keys # {} /\ f # 0 /\ b # <<>> /\ siblings = {} /\ ~ at => r = IF flows THEN flow ELSE Refused(t)
  BY PatchIs, Zenon
<1>2. p \in KeyPath /\ p # <<>> /\ PathsDiffer(t)
  BY WellFormedIs DEF IsEdit
<1>3. ~ Refused(t).ok /\ r.ok
  BY OutcomeIs
<1>4. Reached(t, p) = Len(p) => f # 0 /\ PathIn(t, f) = p
  BY <1>2, RestIs
<1>5. b = <<>> => f # 0 /\ f \in keys /\ PathIn(t, f) = p
  <2>1. /\ Reached(t, p) \in Nat /\ Len(p) \in Nat
        /\ Len(b) = Len(p) - Reached(t, p) /\ (b = <<>> <=> Len(b) = 0)
    BY <1>2, RestIs
  <2>2. b = <<>> => Reached(t, p) = Len(p)
    <3> HIDE DEF b
    <3> QED BY <2>1
  <2>3. f # 0 => f \in keys
    BY <1>2, FoundIs
  <2> QED BY <1>4, <2>2, <2>3
<1>6. r = leaf /\ b = <<>> => PatchedAs(t, p, e.value, r)
  BY <1>3, <1>5, LeafPatched, Zenon
<1>7. r = insert /\ keys # {} /\ b # <<>> /\ (f = 0 \/ siblings # {}) => PatchedAs(t, p, e.value, r)
  BY <1>3, InsertPatched, Zenon
<1>8. r = null /\ f # 0 /\ b # <<>> /\ siblings = {} /\ at => PatchedAs(t, p, e.value, r)
  BY NullPatched, Zenon
<1>9. r = flow /\ f # 0 /\ b # <<>> /\ flows => PatchedAs(t, p, e.value, r)
  BY <1>3, FlowPatched, Zenon
<1> HIDE DEF r, keys, f, b, siblings, at, leaf, insert, null, flow, flows
<1>10. keys # {}
  BY <1>1, <1>3
<1>11. CASE b = <<>>
  BY <1>1, <1>5, <1>6, <1>10, <1>11 DEF r
<1>12. CASE b # <<>> /\ (f = 0 \/ siblings # {})
  BY <1>1, <1>7, <1>10, <1>12 DEF r
<1>13. CASE b # <<>> /\ f # 0 /\ siblings = {} /\ at
  BY <1>1, <1>8, <1>10, <1>13 DEF r
<1>14. CASE b # <<>> /\ f # 0 /\ siblings = {} /\ ~ at
  <2>1. flows /\ r = flow
    BY <1>1, <1>3, <1>10, <1>14
  <2> QED BY <1>9, <1>14, <2>1 DEF r
<1> QED BY <1>11, <1>12, <1>13, <1>14
-----------------------------------------------------------------------------
(* The invariant: what has been edited so far is lines of YAML, with no      *)
(* comment that was not there.                                              *)
EditingInv == WellFormed(text) /\ Comments(text) \subseteq Comments(source)
PatchInv ==
  /\ source \in Documents /\ Lines(source) /\ Lines(text)
  /\ edits \in Seq(Edits) /\ Len(edits) <= MaxPatchEdits
  /\ IsSeq(pruned) /\ Len(pruned) = Len(edits)
  /\ status \in Statuses
  /\ status = "editing" => EditingInv

LEMMA AppendToAny ==
  ASSUME NEW s, IsSeq(s), NEW x
  PROVE  /\ IsSeq(Append(s, x)) /\ Len(s) \in Nat /\ Len(Append(s, x)) = Len(s) + 1
         /\ \A i \in 1..Len(s) : Append(s, x)[i] = s[i]
         /\ Append(s, x)[Len(s) + 1] = x
<1>1. PICK S : s \in Seq(S)
  BY DEF IsSeq
<1> DEFINE U == S \cup {x}
<1>2. s \in Seq(U) /\ x \in U
  <2>1. S \subseteq U /\ x \in U
    OBVIOUS
  <2> HIDE DEF U
  <2> QED BY <1>1, <2>1, SeqMonotonic
<1> HIDE DEF U
<1> QED BY <1>2, AppendIs DEF IsSeq

LEMMA EditsAre ==
  ASSUME NEW e \in Edits
  PROVE  IsEdit(e)
  BY EditsAssumption DEF IsEdit, KeyPath, KeyName

LEMMA DocumentsAre ==
  ASSUME NEW d \in Documents
  PROVE  Lines(d)
  BY DocumentsAssumption DEF Lines, IsSeq

(* An edit that is not refused replaces lines, or leaves everything as it is. *)
LEMMA EditedAs ==
  ASSUME NEW t, NEW p, NEW v, NEW r, PatchedAs(t, p, v, r)
  PROVE  r.text = t \/ \E n, a, L, ks : r.text = After(t, n, a, L) /\ Edited(t, p, n, a, L, ks)
<1>1. CASE v = Nothing /\ IsNothing(t, p, r)
  BY <1>1 DEF IsNothing
<1>2. CASE v # Nothing /\ IsSet(t, p, v, r)
  BY <1>2, Zenon DEF IsSet, SetAs
<1>3. CASE IsSetInFlow(t, p, v, r)
  BY <1>3, Zenon DEF IsSetInFlow
<1>4. CASE v = Nothing /\ IsRemoved(t, p, r)
  BY <1>4, Zenon DEF IsRemoved
<1> QED BY <1>1, <1>2, <1>3, <1>4 DEF PatchedAs

LEMMA EditedKeeps ==
  ASSUME NEW t, Lines(t), WellFormed(t), NEW p, NEW n, NEW a, NEW L, NEW ks, Edited(t, p, n, a, L, ks)
  PROVE  LET u == After(t, n, a, L)
         IN  /\ Spliced(t, u, n, a, EndIn(t, n), Shift(t, n, a, L), L, ks)
             /\ Lines(u) /\ WellFormed(u) /\ Comments(u) \subseteq Comments(t)
<1> DEFINE u == After(t, n, a, L)
           e == EndIn(t, n)
           d == Shift(t, n, a, L)
<1>1. Splice(t, n, a, L, ks) /\ Leads(t, n, ks, p) /\ Noted(t, n, L) /\ Fresh(t, u, a, e, ks)
  BY DEF Edited
<1>2. Spliced(t, u, n, a, e, d, L, ks)
  BY <1>1, SplicedIs
<1>3. Lines(u)
  BY <1>1, AfterIs
<1> HIDE DEF u, e, d
<1>4. WellFormed(u)
  BY <1>1, <1>2, WellFormedAfter
<1>5. Comments(u) \subseteq Comments(t)
  BY <1>1, <1>2, CommentsAfter
<1> QED BY <1>2, <1>3, <1>4, <1>5 DEF u, e, d

LEMMA EditKeeps ==
  ASSUME NEW t, Lines(t), WellFormed(t), NEW e, IsEdit(e), PatchFrontmatter(t, e).ok
  PROVE  LET u == PatchFrontmatter(t, e).text
         IN  Lines(u) /\ WellFormed(u) /\ Comments(u) \subseteq Comments(t)
<1> DEFINE r == PatchFrontmatter(t, e)
<1>1. PatchedAs(t, e.path, e.value, r)
  BY EditIs
<1> HIDE DEF r
<1>2. CASE r.text = t
  BY <1>2 DEF r
<1>3. CASE \E n, a, L, ks : r.text = After(t, n, a, L) /\ Edited(t, e.path, n, a, L, ks)
  BY <1>3, EditedKeeps DEF r
<1> QED BY <1>1, <1>2, <1>3, EditedAs

(* What is refused is refused as it was found.                              *)
LEMMA RefusedKeeps ==
  ASSUME NEW t, Lines(t), NEW e, ~ PatchFrontmatter(t, e).ok
  PROVE  PatchFrontmatter(t, e).text = t
<1> DEFINE refused == Refused(t)
<1>1. refused.text = t /\ \A x, y : Outcome(x, y).ok
  BY DEF Refused, Outcome
<1> HIDE DEF refused
<1>2. \A n : LET r == RemoveEntry(t, LiveKeys(t), n) IN r = refused \/ r.ok
  BY <1>1, Zenon DEF RemoveEntry, refused
<1>3. \A n : LET r == PatchLeaf(t, LiveKeys(t), n, e) IN r = refused \/ r.ok
  BY <1>1, <1>2, Zenon DEF PatchLeaf, refused
<1>4. \A b : \A s : LET r == InsertInto(t, LiveKeys(t), s, b, e) IN r = refused \/ r.ok
  BY <1>1, Zenon DEF InsertInto, refused
<1>5. \A n : \A b : LET r == PatchFlow(t, LiveKeys(t), n, b, e) IN r = refused \/ r.ok
  BY <1>1, Zenon DEF PatchFlow, refused
<1>6. LET r == PatchFrontmatter(t, e) IN r = refused \/ r.ok
  BY <1>1, <1>3, <1>4, <1>5, Zenon DEF PatchFrontmatter, refused
<1> QED BY <1>1, <1>6
LEMMA InitKeeps ==
  ASSUME Init
  PROVE  PatchInv
<1>1. source \in Documents /\ Lines(source) /\ text = source
  BY DocumentsAre DEF Init
<1>2. edits \in Seq(Edits) /\ Len(edits) <= MaxPatchEdits /\ IsSeq(pruned) /\ Len(pruned) = Len(edits)
  <2>1. edits = <<>> /\ pruned = <<>> /\ Len(<<>>) = 0
    BY DEF Init
  <2> QED BY <2>1, EmptySeq, MaxPatchEditsAssumption DEF IsSeq
<1>3. status \in Statuses /\ (status = "editing" => WellFormed(text))
  BY DEF Init, Parses, Statuses
<1> QED BY <1>1, <1>2, <1>3 DEF PatchInv, EditingInv

(* One edit, its outcome by name.                                           *)
EditStep(e) ==
  /\ e \in Edits /\ status = "editing" /\ Len(edits) < MaxPatchEdits
  /\ edits' = Append(edits, e) /\ source' = source
  /\ text' = PatchFrontmatter(text, e).text
  /\ pruned' = Append(pruned, PatchFrontmatter(text, e).pruned)
  /\ status' = IF PatchFrontmatter(text, e).ok THEN "editing" ELSE "shape"

LEMMA StepsAre ==
  ASSUME Next
  PROVE  \/ Finish
         \/ \E e \in Edits : EditStep(e)
  BY Zenon DEF Next, PatchOneEdit, EditStep

LEMMA EditStepKeeps ==
  ASSUME PatchInv, NEW e, EditStep(e)
  PROVE  PatchInv'
<1> DEFINE r == PatchFrontmatter(text, e)
<1>1. /\ Lines(text) /\ WellFormed(text) /\ Comments(text) \subseteq Comments(source)
      /\ source \in Documents /\ Lines(source)
      /\ edits \in Seq(Edits) /\ Len(edits) < MaxPatchEdits /\ IsSeq(pruned) /\ Len(pruned) = Len(edits)
  BY DEF PatchInv, EditingInv, EditStep
<1>2. /\ e \in Edits /\ edits' = Append(edits, e) /\ source' = source /\ text' = r.text
      /\ pruned' = Append(pruned, r.pruned)
      /\ status' = IF r.ok THEN "editing" ELSE "shape"
  BY DEF EditStep
<1>3. IsEdit(e)
  BY <1>2, EditsAre
<1>4. r.ok => Lines(r.text) /\ WellFormed(r.text) /\ Comments(r.text) \subseteq Comments(text)
  BY <1>1, <1>3, EditKeeps
<1>5. ~ r.ok => r.text = text
  BY <1>1, RefusedKeeps
<1> HIDE DEF r
<1>6. edits' \in Seq(Edits) /\ Len(edits') <= MaxPatchEdits /\ IsSeq(pruned') /\ Len(pruned') = Len(edits')
  <2>1. Append(edits, e) \in Seq(Edits) /\ Len(edits) \in Nat /\ Len(Append(edits, e)) = Len(edits) + 1
    BY <1>1, <1>2, AppendIs
  <2>2. IsSeq(Append(pruned, r.pruned)) /\ Len(Append(pruned, r.pruned)) = Len(pruned) + 1
    BY <1>1, AppendToAny
  <2> QED BY <1>1, <1>2, <2>1, <2>2, MaxPatchEditsAssumption
<1>7. Lines(text') /\ status' \in Statuses
  BY <1>1, <1>2, <1>4, <1>5 DEF Statuses
<1>8. status' = "editing" => EditingInv'
  <2> SUFFICES ASSUME status' = "editing" PROVE EditingInv'
    OBVIOUS
  <2>1. r.ok
    BY <1>2
  <2>2. WellFormed(text') /\ Comments(text') \subseteq Comments(source)
    BY <1>1, <1>2, <1>4, <2>1
  <2> QED BY <1>2, <2>2 DEF EditingInv
<1> QED BY <1>1, <1>2, <1>6, <1>7, <1>8 DEF PatchInv

LEMMA VerdictIs == Verdict \in Statuses /\ Verdict # "editing"
  BY DEF Verdict, Statuses

LEMMA FinishKeeps ==
  ASSUME PatchInv, Finish
  PROVE  PatchInv'
<1>1. /\ UNCHANGED <<source, text, edits, pruned>> /\ status' \in Statuses /\ status' # "editing"
  BY VerdictIs DEF Finish
<1> QED BY <1>1 DEF PatchInv

LEMMA StepKeeps ==
  ASSUME PatchInv, [Next]_vars
  PROVE  PatchInv'
<1>1. CASE Finish
  BY <1>1, FinishKeeps
<1>2. CASE \E e \in Edits : EditStep(e)
  BY <1>2, EditStepKeeps
<1>3. CASE UNCHANGED vars
  BY <1>3 DEF PatchInv, EditingInv, vars
<1> QED BY <1>1, <1>2, <1>3, StepsAre

THEOREM PatchInvariant == Spec => []PatchInv
<1>1. Init => PatchInv
  BY InitKeeps
<1>2. PatchInv /\ [Next]_vars => PatchInv'
  BY StepKeeps
<1> QED BY <1>1, <1>2, PTL DEF Spec

(* The text is lines at all times, a refused edit leaves it as it was, and   *)
(* every edit is recorded with the blocks it removed.                       *)
THEOREM TypesHold == Spec => []TypeOK
<1>1. PatchInv => TypeOK
  <2> SUFFICES ASSUME PatchInv PROVE TypeOK
    OBVIOUS
  <2>1. edits \in BoundedSeq(Edits, MaxPatchEdits)
    <3>1. edits \in Seq(Edits) /\ Len(edits) <= MaxPatchEdits
      BY DEF PatchInv
    <3>2. Len(edits) \in 0..MaxPatchEdits /\ edits \in [1..Len(edits) -> Edits]
      BY <3>1, LenProperties, MaxPatchEditsAssumption
    <3> QED BY <3>2 DEF BoundedSeq, SeqOf
  <2> QED BY <2>1 DEF PatchInv, TypeOK, Lines
<1> QED BY <1>1, PatchInvariant, PTL

(* PatchSource (exons.patch.go): whatever the edits and whatever the text,   *)
(* a list of edits that none refuses leaves a text that parses again, and no *)
(* part of a value has become a comment.                                    *)
THEOREM EditsStayWellFormed == Spec => []StaysWellFormed
<1>1. PatchInv => StaysWellFormed
  BY DEF PatchInv, EditingInv, StaysWellFormed, Judged
<1> QED BY <1>1, PatchInvariant, PTL
-----------------------------------------------------------------------------
(* What is beside the entry an edit replaces is kept.                       *)
LEMMA EndsWithin ==
  ASSUME NEW t, Lines(t), NEW n \in LiveKeys(t), NEW k \in LiveKeys(t), Under(t, n, k), k <= EndIn(t, n)
  PROVE  EndIn(t, k) <= EndIn(t, n)
<1> DEFINE e == EndIn(t, n)
           f == EndIn(t, k)
           i == t[n].ind
           j == t[k].ind
<1>1. /\ n \in Nat /\ k \in Nat /\ n < k /\ i \in Nat /\ j \in Nat /\ i < j /\ Len(t) \in Nat
      /\ e \in Nat /\ f \in Nat /\ k <= f /\ f <= Len(t) /\ k <= e
      /\ \A m \in 1..Len(t) : t[m].ind \in Nat
  BY LinesAre, EntryIs DEF Under
<1>2. EndsAt(t, n, ItemsIn(t, n) # {}, e) /\ EndsAt(t, k, ItemsIn(t, k) # {}, f)
  BY EntryIs
<1>3. PICK z \in e..Len(t) : /\ \A m \in e + 1..z : Passed(t, n, m)
                             /\ z = Len(t) \/ Breaks(t, n, ItemsIn(t, n) # {}, z + 1)
  BY <1>2 DEF EndsAt
<1>4. (f = k \/ ~ Passed(t, k, f)) /\ \A m \in k + 1..f : ~ Breaks(t, k, ItemsIn(t, k) # {}, m)
  BY <1>2 DEF EndsAt
<1> HIDE DEF e, f, i, j
<1> SUFFICES ASSUME e < f PROVE FALSE
  BY <1>1 DEF e, f
<1>5. CASE f <= z
  <2>1. Passed(t, n, f) /\ ~ Passed(t, k, f)
    BY <1>1, <1>3, <1>4, <1>5
  <2>2. t[f].ind \in Nat
    BY <1>1
  <2> QED BY <1>1, <2>1, <2>2 DEF Passed, i, j
<1>6. CASE z < f
  <2>1. z + 1 \in 1..Len(t) /\ z + 1 \in k + 1..f /\ z # Len(t)
    BY <1>1, <1>3, <1>6
  <2>2. Breaks(t, n, ItemsIn(t, n) # {}, z + 1) /\ ~ Breaks(t, k, ItemsIn(t, k) # {}, z + 1)
    BY <1>3, <1>4, <2>1
  <2>3. t[z + 1].ind \in Nat
    BY <1>1, <2>1
  <2>4. t[z + 1].ind <= i /\ ~ Passed(t, n, z + 1)
    BY <1>1, <2>2, <2>3 DEF Breaks, i
  <2>5. Passed(t, k, z + 1)
    BY <1>1, <2>2, <2>3, <2>4 DEF Breaks, j
  <2> QED BY <2>4, <2>5 DEF Passed, i
<1> QED BY <1>1, <1>3, <1>5, <1>6

LEMMA KeptOutside ==
  ASSUME NEW t, Lines(t), WellFormed(t), NEW p, NEW n, NEW a, NEW L, NEW ks, Edited(t, p, n, a, L, ks),
         NEW k \in LiveKeys(t), ~ Comparable(PathIn(t, k), p)
  PROVE  EndIn(t, k) < a \/ EndIn(t, n) < k
<1> DEFINE e == EndIn(t, n)
           f == EndIn(t, k)
<1>1. /\ n \in LiveKeys(t) /\ (a = n \/ a = e + 1) /\ Leads(t, n, ks, p)
      /\ a = n => /\ IsPrefix(PathIn(t, n), p)
                  /\ \A m \in LiveKeys(t) : Under(t, n, m) => Comparable(PathIn(t, m), p)
  BY DEF Edited, Splice
<1>2. n \in Nat /\ k \in Nat /\ e \in Nat /\ f \in Nat /\ n <= e
  BY <1>1, EntryIs, LinesAre
<1>3. PathIn(t, k) \in KeyPath /\ PathIn(t, n) \in KeyPath /\ p \in KeyPath
  BY <1>1, PathIs DEF PathAsSaid, Leads
<1>4. n <= k /\ k <= e => n = k \/ Under(t, n, k)
  BY <1>1, InEntry
<1>5. k <= n /\ n <= f => k = n \/ Under(t, k, n)
  BY <1>1, InEntry
<1> HIDE DEF e, f
<1> SUFFICES ASSUME a <= f, k <= e PROVE FALSE
  BY <1>1, <1>2 DEF e, f
<1>6. CASE a = n
  <2>1. IsPrefix(PathIn(t, n), p) /\ \A m \in LiveKeys(t) : Under(t, n, m) => Comparable(PathIn(t, m), p)
    BY <1>1, <1>6
  <2>2. k # n /\ ~ Under(t, n, k)
    BY <2>1 DEF Comparable
  <2>3. Under(t, k, n)
    BY <1>2, <1>4, <1>5, <1>6, <2>2
  <2>4. IsPrefix(PathIn(t, k), PathIn(t, n))
    BY <1>1, <2>3, UnderIsBelow
  <2> QED BY <1>3, <2>1, <2>4, PrefixOrder DEF Comparable
<1>7. CASE a = e + 1
  <2>1. k # n
    BY <1>2, <1>7 DEF e, f
  <2>2. ~ Under(t, n, k)
    <3> SUFFICES ASSUME Under(t, n, k) PROVE FALSE
      OBVIOUS
    <3>1. f <= e
      BY <1>1, EndsWithin DEF e, f
    <3> QED BY <1>2, <1>7, <3>1
  <2>3. Under(t, k, n)
    BY <1>2, <1>4, <1>5, <1>7, <2>1, <2>2
  <2>4. LET q == ParentIn(t, n) IN q # 0 /\ q \in LiveKeys(t) /\ (q = k \/ Under(t, k, q))
    <3>1. ParentIn(t, n) \in Nat /\ (ParentIn(t, n) = k \/ Under(t, k, ParentIn(t, n)))
      BY <1>1, <2>3, ParentOfUnder
    <3>2. k # 0 /\ (Under(t, k, ParentIn(t, n)) => ParentIn(t, n) \in LiveKeys(t))
      BY LinesAre DEF Under
    <3>3. \A m \in LiveKeys(t) : m # 0
      BY LinesAre
    <3> QED BY <3>1, <3>2, <3>3
  <2>5. IsPrefix(PathIn(t, k), Base(t, n))
    <3>1. Base(t, n) = PathIn(t, ParentIn(t, n))
      BY <2>4 DEF Base
    <3>2. IsPrefix(PathIn(t, k), PathIn(t, k))
      BY <1>3, PrefixOrder
    <3> QED BY <2>4, <3>1, <3>2, UnderIsBelow
  <2>6. IsPrefix(Base(t, n), p) /\ Base(t, n) \in KeyPath
    BY <1>1, BaseIs DEF Leads
  <2> QED BY <1>3, <2>5, <2>6, PrefixOrder DEF Comparable
<1> QED BY <1>1, <1>6, <1>7

LEMMA KeptBesideIs ==
  ASSUME NEW t, NEW u, NEW p,
         NEW from \in 1..(Len(t) + 1), NEW to \in (from - 1)..Len(t), NEW d, d = Len(u) - Len(t),
         \A k \in 1..(from - 1) : k \in DOMAIN u /\ u[k] = t[k],
         \A k \in (to + 1)..Len(t) : from <= k + d /\ k + d \in DOMAIN u /\ u[k + d] = t[k],
         \A k \in from..to : \E n \in LiveKeys(t) : Comparable(PathIn(t, n), p) /\ n <= k /\ k <= EndIn(t, n),
         \A n \in LiveKeys(t) : ~ Comparable(PathIn(t, n), p) => EndIn(t, n) < from \/ to < n
  PROVE  KeptBeside(t, u, p)
<1> DEFINE own == {n \in LiveKeys(t) : Comparable(PathIn(t, n), p)}
<1>1. \A k \in from..to : \E n \in own : n <= k /\ k <= EndIn(t, n)
  OBVIOUS
<1>2. \A n \in LiveKeys(t) \ own : EndIn(t, n) < from \/ to < n
  OBVIOUS
<1>3. KeptBeside(t, u, p) =
        \E from_1 \in 1..(Len(t) + 1) : \E to_1 \in (from_1 - 1)..Len(t) :
          /\ \A k \in 1..(from_1 - 1) : k \in DOMAIN u /\ u[k] = t[k]
          /\ \A k \in (to_1 + 1)..Len(t) :
               from_1 <= k + (Len(u) - Len(t)) /\ k + (Len(u) - Len(t)) \in DOMAIN u /\ u[k + (Len(u) - Len(t))] = t[k]
          /\ \A k \in from_1..to_1 : \E n \in own : n <= k /\ k <= EndIn(t, n)
          /\ \A n \in LiveKeys(t) \ own : EndIn(t, n) < from_1 \/ to_1 < n
  BY Zenon DEF KeptBeside, PathIn, EndIn
<1> HIDE DEF own
<1> QED BY <1>1, <1>2, <1>3

LEMMA EditedKeepsBeside ==
  ASSUME NEW t, Lines(t), WellFormed(t), NEW p, NEW n, NEW a, NEW L, NEW ks, Edited(t, p, n, a, L, ks)
  PROVE  KeptBeside(t, After(t, n, a, L), p)
<1> DEFINE u == After(t, n, a, L)
           e == EndIn(t, n)
           d == Shift(t, n, a, L)
<1>1. Spliced(t, u, n, a, e, d, L, ks)
  BY EditedKeeps
<1>2. \A k \in LiveKeys(t) : ~ Comparable(PathIn(t, k), p) => EndIn(t, k) < a \/ e < k
  BY KeptOutside
<1>3. a = n => n \in LiveKeys(t) /\ Comparable(PathIn(t, n), p)
  BY DEF Edited, Splice, Comparable
<1> HIDE DEF u, e, d
<1>4. /\ n \in Nat /\ a \in Nat /\ e \in Nat /\ d \in Int /\ 1 <= n /\ n <= a /\ a <= e + 1 /\ e <= Len(t)
      /\ (a = n \/ a = e + 1) /\ Len(t) \in Nat /\ Len(u) \in Nat /\ Len(L) \in Nat
      /\ Len(u) = Len(t) + d /\ a - 1 + Len(L) = e + d
  BY <1>1, SplicedNumbers
<1>5. /\ \A k \in 1..a - 1 : k \in 1..Len(u) /\ u[k] = t[k]
      /\ \A m \in e + 1..Len(t) : m + d \in 1..Len(u) /\ u[m + d] = t[m]
  BY <1>1, LinesAfter
<1>6. DOMAIN u = 1..Len(u)
  BY <1>1, LinesAre DEF Spliced
<1>7. a \in 1..(Len(t) + 1) /\ e \in (a - 1)..Len(t) /\ d = Len(u) - Len(t)
  BY <1>4
<1>8. \A k \in (e + 1)..Len(t) : a <= k + d
  BY <1>4
<1>9. \A k \in a..e : \E m \in LiveKeys(t) : Comparable(PathIn(t, m), p) /\ m <= k /\ k <= EndIn(t, m)
  BY <1>3, <1>4 DEF e
<1> QED BY <1>2, <1>5, <1>6, <1>7, <1>8, <1>9, KeptBesideIs DEF u

LEMMA NothingKeepsBeside ==
  ASSUME NEW t, Lines(t), NEW p
  PROVE  KeptBeside(t, t, p)
<1>1. Len(t) \in Nat /\ DOMAIN t = 1..Len(t) /\ \A n \in LiveKeys(t) : 0 < n
  BY LinesAre
<1> DEFINE from == 1
           to == 0
           d == 0
<1>2. from \in 1..(Len(t) + 1) /\ to \in (from - 1)..Len(t) /\ d = Len(t) - Len(t)
  BY <1>1
<1>3. \A k \in 1..(from - 1) : k \in DOMAIN t /\ t[k] = t[k]
  OBVIOUS
<1>4. \A k \in (to + 1)..Len(t) : from <= k + d /\ k + d \in DOMAIN t /\ t[k + d] = t[k]
  BY <1>1
<1>5. \A k \in from..to : \E n \in LiveKeys(t) : Comparable(PathIn(t, n), p) /\ n <= k /\ k <= EndIn(t, n)
  OBVIOUS
<1>6. \A n \in LiveKeys(t) : ~ Comparable(PathIn(t, n), p) => EndIn(t, n) < from \/ to < n
  BY <1>1
<1> HIDE DEF from, to, d
<1> QED BY <1>2, <1>3, <1>4, <1>5, <1>6, KeptBesideIs

LEMMA EditKeepsBeside ==
  ASSUME NEW t, Lines(t), WellFormed(t), NEW e, IsEdit(e), PatchFrontmatter(t, e).ok
  PROVE  KeptBeside(t, PatchFrontmatter(t, e).text, e.path)
<1> DEFINE r == PatchFrontmatter(t, e)
<1>1. PatchedAs(t, e.path, e.value, r)
  BY EditIs
<1> HIDE DEF r
<1>2. CASE r.text = t
  BY <1>2, NothingKeepsBeside DEF r
<1>3. CASE \E n, a, L, ks : r.text = After(t, n, a, L) /\ Edited(t, e.path, n, a, L, ks)
  BY <1>3, EditedKeepsBeside DEF r
<1> QED BY <1>1, <1>2, <1>3, EditedAs

(* patchFrontmatter (exons.patch.go), whatever the text and the edit: the    *)
(* lines it replaces are of entries on the edited path, and every other line *)
(* is kept, in its order.                                                   *)
THEOREM EditsKeepOtherLines == Spec => KeepsOtherLines
<1>1. ASSUME PatchInv, [Next]_vars, edits' # edits, status' = "editing"
      PROVE  KeptBeside(text, text', Last(edits').path)
  <2>1. PICK e : EditStep(e)
    <3>1. ~ Finish /\ ~ UNCHANGED vars
      BY <1>1 DEF Finish, vars
    <3> QED BY <1>1, <3>1, StepsAre
  <2>2. Lines(text) /\ WellFormed(text) /\ IsEdit(e) /\ edits \in Seq(Edits)
    BY <1>1, <2>1, EditsAre DEF PatchInv, EditingInv, EditStep
  <2>3. PatchFrontmatter(text, e).ok /\ text' = PatchFrontmatter(text, e).text /\ edits' = Append(edits, e) /\ e \in Edits
    BY <1>1, <2>1 DEF EditStep
  <2>4. Last(edits') = e
    <3>1. Len(edits) \in Nat /\ Len(edits') = Len(edits) + 1 /\ edits'[Len(edits) + 1] = e
      BY <2>2, <2>3, AppendIs
    <3> QED BY <3>1 DEF Last
  <2> QED BY <2>2, <2>3, <2>4, EditKeepsBeside
<1>2. PatchInv /\ [Next]_vars =>
        [edits' # edits /\ status' = "editing" => KeptBeside(text, text', Last(edits').path)]_vars
  BY <1>1
<1> QED BY <1>2, PatchInvariant, PTL DEF Spec, KeepsOtherLines
=============================================================================
