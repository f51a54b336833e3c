------------------------ MODULE PatchDocumentProofs ------------------------
(***************************************************************************)
(* What the lines say that PatchSource leaves, for every set of             *)
(* frontmatters: the document as edited, the same when an edit is made      *)
(* again, and in whichever order edits of different entries are made.       *)
(***************************************************************************)
EXTENDS PatchSourceProofs

-----------------------------------------------------------------------------
(* What the lines say: values that are kept are read as they were.           *)
Nests(t, n) == \E m \in LiveKeys(t) : IsStrictPrefix(PathIn(t, n), PathIn(t, m))
TextLine(t, n, m) == m \in 1..Len(t) /\ Opened(t)[m] = n /\ t[m].is # "blank"
ReadAs(t, n) == ValueAt(t, LiveKeys(t), n)

LEMMA NestsIs ==
  ASSUME NEW t, Lines(t), WellFormed(t), NEW n \in LiveKeys(t)
  PROVE  /\ Nests(t, n) <=> \E m \in LiveKeys(t) : Under(t, n, m)
         /\ Nests(t, n) <=> Children(t, LiveKeys(t), n) # {}
         /\ Nests(t, n) => t[n].form = "nest"
<1>1. KeysBelong(t) /\ PathsDiffer(t)
  BY WellFormedIs
<1>2. \A m \in LiveKeys(t) : /\ PathIn(t, m) \in KeyPath /\ m \in Nat
                             /\ (IsPrefix(PathIn(t, n), PathIn(t, m)) <=> n = m \/ Under(t, n, m))
  BY <1>1, BelowIsUnder, PathIs, LinesAre DEF PathAsSaid
<1>3. \A m \in LiveKeys(t) : IsStrictPrefix(PathIn(t, n), PathIn(t, m)) <=> Under(t, n, m)
  <2> TAKE m \in LiveKeys(t)
  <2>1. Under(t, n, m) => n # m
    BY <1>2 DEF Under
  <2>2. PathIn(t, n) = PathIn(t, m) => n = m
    BY <1>1 DEF PathsDiffer
  <2> QED BY <1>2, <2>1, <2>2 DEF IsStrictPrefix
<1>4. Nests(t, n) <=> \E m \in LiveKeys(t) : Under(t, n, m)
  BY <1>3 DEF Nests
<1>5. Nests(t, n) => t[n].form = "nest" /\ Children(t, LiveKeys(t), n) # {}
  BY <1>1, <1>4, NoKeysUnder
<1>6. Children(t, LiveKeys(t), n) # {} => \E m \in LiveKeys(t) : Under(t, n, m)
  <2> SUFFICES ASSUME NEW m \in Children(t, LiveKeys(t), n) PROVE \E k \in LiveKeys(t) : Under(t, n, k)
    OBVIOUS
  <2>1. m \in LiveKeys(t) /\ ParentIn(t, m) = n /\ n # 0
    BY LinesAre DEF Children, ParentIn
  <2>2. Under(t, n, m)
    BY <2>1, ParentOfUnder
  <2> QED BY <2>1, <2>2
<1> QED BY <1>4, <1>5, <1>6

LEMMA ReadAsIs ==
  ASSUME NEW t, Lines(t), WellFormed(t), NEW n \in LiveKeys(t)
  PROVE  ReadAs(t, n) =
           IF t[n].form \in {"plain", "alias"} THEN t[n].val
           ELSE IF t[n].form \in {"bar", "keep", "quote"} THEN <<"text">> \o ScalarLines(t, n)
           ELSE IF t[n].form = "flow" \/ Nests(t, n) THEN Map
           ELSE IF ItemsIn(t, n) # {} THEN <<"list">> \o ItemValues(t, ItemsIn(t, n))
           ELSE Nothing
<1> DEFINE some == Children(t, LiveKeys(t), n) # {}
           none == Children(t, LiveKeys(t), n) = {}
<1>1. Nests(t, n) <=> some
  BY NestsIs
<1>2. ReadAs(t, n) =
           IF t[n].form \in {"plain", "alias"} THEN t[n].val
           ELSE IF t[n].form \in {"bar", "keep", "quote"} THEN <<"text">> \o ScalarLines(t, n)
           ELSE IF t[n].form = "flow" \/ some THEN Map
           ELSE IF ItemsIn(t, n) # {} THEN <<"list">> \o ItemValues(t, ItemsIn(t, n))
           ELSE Nothing
  BY Zenon DEF ReadAs, ValueAt, ItemsIn
<1> DEFINE x == <<"text">> \o ScalarLines(t, n)
           y == <<"list">> \o ItemValues(t, ItemsIn(t, n))
           z == Map
           w == Nothing
<1> HIDE DEF some, none, x, y, z, w
<1> QED BY <1>1, <1>2 DEF x, y, z, w

LEMMA ScalarLinesAre ==
  ASSUME NEW t, Lines(t), NEW n \in 1..Len(t), t[n].form # "keep"
  PROVE  /\ (\A m : ~ TextLine(t, n, m)) => ScalarLines(t, n) = <<>>
         /\ \A m : TextLine(t, n, m) /\ (\A k : TextLine(t, n, k) => k <= m) => ScalarLines(t, n) = SubSeq(t, n + 1, m)
<1> DEFINE S == {m \in DOMAIN t : Opened(t)[m] = n /\ (t[n].form = "keep" \/ t[m].is # "blank")}
<1>1. Len(t) \in Nat /\ DOMAIN t = 1..Len(t)
  BY LinesAre
<1>2. S \subseteq 1..Len(t) /\ \A m : m \in S <=> TextLine(t, n, m)
  BY <1>1 DEF TextLine
<1>3. ScalarLines(t, n) = IF GreatestOr0(S) = 0 THEN <<>> ELSE SubSeq(t, n + 1, GreatestOr0(S))
  BY Zenon DEF ScalarLines
<1> HIDE DEF S
<1>4. (\A m : ~ TextLine(t, n, m)) => ScalarLines(t, n) = <<>>
  <2> SUFFICES ASSUME \A m : ~ TextLine(t, n, m) PROVE ScalarLines(t, n) = <<>>
    OBVIOUS
  <2>1. S = {}
    BY <1>2
  <2>2. GreatestOr0(S) = 0
    BY <1>1, <1>2, <2>1, GreatestOrNone
  <2> QED BY <1>3, <2>2
<1>5. ASSUME NEW m, TextLine(t, n, m), \A k : TextLine(t, n, k) => k <= m
      PROVE  ScalarLines(t, n) = SubSeq(t, n + 1, m)
  <2>1. m \in S /\ \A k \in S : k <= m
    BY <1>2, <1>5
  <2>2. GreatestOr0(S) = m
    BY <1>1, <1>2, <2>1, GreatestIs
  <2>3. m # 0
    BY <1>1, <1>2, <2>1
  <2> QED BY <1>3, <2>2, <2>3
<1> QED BY <1>4, <1>5

LEMMA ScalarLinesSame ==
  ASSUME NEW t, Lines(t), NEW u, Lines(u), NEW s \in Int, NEW n \in 1..Len(t), n + s \in 1..Len(u),
         t[n].form # "keep", u[n + s] = t[n],
         \A m : TextLine(t, n, m) => n < m /\ TextLine(u, n + s, m + s),
         \A j : TextLine(u, n + s, j) => \E m : TextLine(t, n, m) /\ j = m + s,
         \A m, k : TextLine(t, n, m) /\ k \in n + 1..m => u[k + s] = t[k]
  PROVE  ScalarLines(u, n + s) = ScalarLines(t, n)
<1>1. Len(t) \in Nat /\ Len(u) \in Nat /\ IsSeq(t) /\ IsSeq(u)
  BY LinesAre
<1>2. \A m : TextLine(t, n, m) => m \in 1..Len(t)
  BY DEF TextLine
<1>3. \A j : TextLine(u, n + s, j) => j \in 1..Len(u)
  BY DEF TextLine
<1>4. CASE \A m : ~ TextLine(t, n, m)
  <2>1. \A j : ~ TextLine(u, n + s, j)
    BY <1>4
  <2>2. ScalarLines(u, n + s) = <<>>
    BY <2>1, ScalarLinesAre
  <2> QED BY <1>4, <2>2, ScalarLinesAre
<1>5. CASE ~ \A m : ~ TextLine(t, n, m)
  <2> DEFINE S == {m \in 1..Len(t) : TextLine(t, n, m)}
             g == Greatest(S)
  <2>1. S \subseteq 0..Len(t) /\ S # {}
    BY <1>1, <1>2, <1>5
  <2>2. g \in S /\ \A k \in S : k <= g
    <3> HIDE DEF S
    <3> QED BY <1>1, <2>1, GreatestNumber
  <2>3. g \in 1..Len(t) /\ TextLine(t, n, g) /\ \A k : TextLine(t, n, k) => k <= g
    BY <1>2, <2>2
  <2> HIDE DEF g, S
  <2>4. ScalarLines(t, n) = SubSeq(t, n + 1, g)
    BY <2>3, ScalarLinesAre
  <2>5. TextLine(u, n + s, g + s) /\ n < g /\ g + s \in 1..Len(u)
    BY <1>3, <2>3
  <2>6. \A j : TextLine(u, n + s, j) => j <= g + s
    <3> SUFFICES ASSUME NEW j, TextLine(u, n + s, j) PROVE j <= g + s
      OBVIOUS
    <3>1. PICK m : TextLine(t, n, m) /\ j = m + s
      OBVIOUS
    <3>2. m \in 1..Len(t) /\ m <= g
      BY <1>2, <2>3, <3>1
    <3> QED BY <2>3, <3>1, <3>2
  <2>7. ScalarLines(u, n + s) = SubSeq(u, n + s + 1, g + s)
    BY <2>5, <2>6, ScalarLinesAre
  <2> DEFINE x == n + 1
             y == n + s + 1
             z == g + s
  <2>8. x \in Nat /\ g \in Nat /\ 1 <= x /\ x <= g + 1 /\ g <= Len(t)
    BY <1>1, <2>3, <2>5
  <2>9. y \in Nat /\ z \in Nat /\ 1 <= y /\ y <= z + 1 /\ z <= Len(u) /\ z - y + 1 = g - x + 1 /\ y = x + s
    BY <1>1, <2>3, <2>5
  <2>10. \A k \in x..g : u[k + s] = t[k]
    BY <2>3
  <2> HIDE DEF x, y, z
  <2>11. /\ IsSeq(SubSeq(t, x, g)) /\ Len(SubSeq(t, x, g)) = g - x + 1
         /\ \A i \in 1..g - x + 1 : SubSeq(t, x, g)[i] = t[x + i - 1]
    BY <1>1, <2>8, Cut
  <2>12. /\ IsSeq(SubSeq(u, y, z)) /\ Len(SubSeq(u, y, z)) = z - y + 1
         /\ \A i \in 1..z - y + 1 : SubSeq(u, y, z)[i] = u[y + i - 1]
    BY <1>1, <2>9, Cut, SMTT(30)
  <2>13. \A i \in 1..g - x + 1 : SubSeq(u, y, z)[i] = SubSeq(t, x, g)[i]
    <3> TAKE i \in 1..g - x + 1
    <3>0. i \in Int /\ x \in Int /\ g \in Int /\ y \in Int /\ s \in Int /\ y = x + s
      BY <2>8, <2>9
    <3>1. x + i - 1 \in x..g /\ y + i - 1 = (x + i - 1) + s
      BY <3>0
    <3> QED BY <2>9, <2>10, <2>11, <2>12, <3>1
  <2>14. SubSeq(u, y, z) = SubSeq(t, x, g)
    <3> DEFINE v == SubSeq(u, y, z)
               w == SubSeq(t, x, g)
    <3>1. IsSeq(v) /\ IsSeq(w) /\ Len(v) = Len(w) /\ Len(v) = g - x + 1 /\ \A i \in 1..g - x + 1 : v[i] = w[i]
      BY <2>9, <2>11, <2>12, <2>13
    <3> HIDE DEF v, w
    <3>2. \A i \in 1..Len(v) : v[i] = w[i]
      BY <3>1
    <3>3. v = w
      BY <3>1, <3>2, SeqSame
    <3> QED BY <3>3 DEF v, w
  <2> QED BY <2>4, <2>7, <2>14 DEF x, y, z
<1> QED BY <1>4, <1>5
(* ItemValues is what its recursion says.                                   *)
UpToAt(t, items, f, n) ==
  IF n = 0 THEN <<>> ELSE IF n \in items THEN Append(f[n - 1], t[n].val[1]) ELSE f[n - 1]
UpTo(t, items, f) ==
  ItemValues(t, items) = f[Len(t)] /\ \A n \in 0..Len(t) : f[n] = UpToAt(t, items, f, n)

LEMMA UpToIs ==
  ASSUME NEW t, Lines(t), NEW items
  PROVE  \E f : UpTo(t, items, f)
<1> DEFINE N == Len(t)
           D(k) == {n \in 0..N : n <= k}
           Body(f, n) == UpToAt(t, items, f, n)
           Is(f, k) == f = [n \in D(k) |-> Body(f, n)]
<1>1. N \in Nat /\ \A n \in 0..N : n \in Nat
  BY LinesAre
<1>2. ASSUME NEW n \in 0..N, NEW f, NEW g, \A m \in 0..N : m < n => f[m] = g[m]
      PROVE  Body(f, n) = Body(g, n)
  <2>1. n = 0 \/ (n - 1 \in 0..N /\ n - 1 < n)
    BY <1>1
  <2> QED BY <1>2, <2>1 DEF UpToAt
<1>3. ItemValues(t, items) = (CHOOSE f : Is(f, N))[N]
  <2>1. D(N) = 0..Len(t)
    BY <1>1
  <2> QED BY <2>1 DEF ItemValues, UpToAt
<1> HIDE DEF Body, Is, N
<1>4. \E f : Is(f, N)
  <2> DEFINE S == {k \in Nat : \E f : Is(f, k)}
  <2>1. ASSUME NEW k \in Nat, 0..k - 1 \subseteq S
        PROVE  \E f : Is(f, k)
    <3>1. CASE k = 0
      <4> DEFINE h == [n \in D(k) |-> Body(<<>>, n)]
      <4>1. \A n \in D(k) : n \in 0..N /\ \A m \in 0..N : ~ (m < n)
        BY <1>1, <3>1
      <4>2. \A n \in D(k) : h[n] = Body(<<>>, n)
        OBVIOUS
      <4>3. h = [n \in D(k) |-> h[n]]
        OBVIOUS
      <4> HIDE DEF h, D
      <4>4. \A n \in D(k) : Body(h, n) = Body(<<>>, n)
        BY <1>2, <4>1
      <4>5. \A n \in D(k) : h[n] = Body(h, n)
        BY <4>2, <4>4
      <4>6. Is(h, k)
        BY <4>3, <4>5 DEF Is
      <4> QED BY <4>6
    <3>2. CASE k # 0
      <4>1. k - 1 \in 0..k - 1 /\ k - 1 \in Nat
        BY <3>2
      <4>2. PICK g : Is(g, k - 1)
        BY <2>1, <4>1
      <4> DEFINE h == [n \in D(k) |-> IF n = k THEN Body(g, k) ELSE g[n]]
      <4>3. \A n \in D(k) : n = k \/ n \in D(k - 1)
        BY <1>1, <4>1
      <4>4. \A n \in D(k - 1) : n \in D(k) /\ n # k /\ n < k
        BY <1>1, <4>1
      <4>5. g = [n \in D(k - 1) |-> Body(g, n)]
        BY <4>2 DEF Is
      <4>6. \A n \in D(k - 1) : h[n] = g[n] /\ g[n] = Body(g, n)
        BY <4>4, <4>5
      <4>7. k \in D(k) => h[k] = Body(g, k)
        OBVIOUS
      <4>8. h = [n \in D(k) |-> h[n]]
        OBVIOUS
      <4> HIDE DEF h
      <4>9. ASSUME NEW n \in D(k) PROVE Body(h, n) = Body(g, n)
        <5>1. n \in 0..N /\ \A m \in 0..N : m < n => m \in D(k - 1)
          BY <1>1, <4>1
        <5>2. \A m \in 0..N : m < n => h[m] = g[m]
          BY <4>6, <5>1
        <5> HIDE DEF D
        <5> QED BY <1>2, <5>1, <5>2
      <4>10. \A n \in D(k) : h[n] = Body(h, n)
        BY <4>3, <4>6, <4>7, <4>9
      <4>11. Is(h, k)
        BY <4>8, <4>10 DEF Is
      <4> QED BY <4>11
    <3> QED BY <3>1, <3>2
  <2>2. \A k \in Nat : 0 <= k /\ 0..k - 1 \subseteq S => k \in S
    BY <2>1
  <2>3. \A k \in Nat : 0 <= k => k \in S
    <3> HIDE DEF S
    <3> QED BY <2>2, Upward
  <2> QED BY <1>1, <2>3
<1> DEFINE r == CHOOSE f : Is(f, N)
<1>5. Is(r, N)
  BY <1>4
<1>6. \A n \in 0..N : n \in D(N)
  BY <1>1
<1>7. \A n \in 0..N : r[n] = Body(r, n)
  <2> HIDE DEF r
  <2> QED BY <1>5, <1>6 DEF Is
<1>8. ItemValues(t, items) = r[N]
  BY <1>3
<1> HIDE DEF r
<1> QED BY <1>7, <1>8 DEF UpTo, N, Body

(* Lines that hold no item add nothing.                                     *)
LEMMA UpToGap ==
  ASSUME NEW t, Lines(t), NEW items, NEW f, UpTo(t, items, f),
         NEW x \in 0..Len(t), NEW y \in 0..Len(t), x <= y, \A n \in x + 1..y : n \notin items
  PROVE  f[y] = f[x]
<1>1. Len(t) \in Nat /\ x \in Nat /\ y \in Nat
  BY LinesAre
<1> DEFINE S == {n \in Nat : n <= y => f[n] = f[x]}
<1>2. ASSUME NEW n \in Nat, x <= n, x..n - 1 \subseteq S PROVE n \in S
  <2> SUFFICES ASSUME n <= y, n # x PROVE f[n] = f[x]
    OBVIOUS
  <2>1. n \in 0..Len(t) /\ n # 0 /\ n \in x + 1..y /\ n - 1 \in x..n - 1 /\ n - 1 <= y
    BY <1>1, <1>2
  <2>2. f[n] = f[n - 1]
    BY <2>1 DEF UpTo, UpToAt
  <2>3. f[n - 1] = f[x]
    BY <1>2, <2>1
  <2> QED BY <2>2, <2>3
<1>3. \A n \in Nat : x <= n => n \in S
  <2> HIDE DEF S
  <2> QED BY <1>1, <1>2, Upward
<1> QED BY <1>1, <1>3

ItemsMoved(t, u, s, b, z, I, J) ==
  /\ s \in Int /\ b \in Nat /\ z \in Nat /\ b <= z /\ z <= Len(t) /\ b + s >= 0 /\ z + s <= Len(u)
  /\ \A m \in I : m \in b + 1..z /\ m + s \in 1..Len(u) /\ u[m + s] = t[m]
  /\ \A m \in I : m + s \in J
  /\ \A j \in J : \E m \in I : j = m + s

LEMMA ItemValuesMoved ==
  ASSUME NEW t, Lines(t), NEW u, Lines(u), NEW s, NEW b, NEW z, NEW I, NEW J, ItemsMoved(t, u, s, b, z, I, J)
  PROVE  ItemValues(u, J) = ItemValues(t, I)
<1> USE DEF ItemsMoved
<1>1. Len(t) \in Nat /\ Len(u) \in Nat
  BY LinesAre
<1>2. PICK f : UpTo(t, I, f)
  BY UpToIs
<1>3. PICK g : UpTo(u, J, g)
  BY UpToIs
<1> DEFINE x == b + s
           y == z + s
<1>4. /\ b \in 0..Len(t) /\ z \in 0..Len(t) /\ x \in 0..Len(u) /\ y \in 0..Len(u) /\ x <= y
      /\ 0 \in 0..Len(t) /\ 0 \in 0..Len(u) /\ Len(t) \in 0..Len(t) /\ Len(u) \in 0..Len(u)
  BY <1>1
<1>5. /\ \A m \in 0 + 1..b : m \notin I
      /\ \A m \in z + 1..Len(t) : m \notin I
      /\ \A j \in 0 + 1..x : j \notin J
      /\ \A j \in y + 1..Len(u) : j \notin J
  <2>1. \A m \in I : m \in b + 1..z
    OBVIOUS
  <2>2. \A j \in J : j \in x + 1..y
    BY <2>1
  <2> QED BY <1>1, <1>4, <2>1, <2>2
<1> HIDE DEF x, y
<1>6. f[b] = f[0] /\ g[x] = g[0] /\ f[Len(t)] = f[z] /\ g[Len(u)] = g[y]
  <2>1. f[b] = f[0]
    BY <1>1, <1>2, <1>4, <1>5, UpToGap
  <2>2. g[x] = g[0]
    BY <1>1, <1>3, <1>4, <1>5, UpToGap
  <2>3. f[Len(t)] = f[z]
    BY <1>1, <1>2, <1>4, <1>5, UpToGap
  <2>4. g[Len(u)] = g[y]
    BY <1>1, <1>3, <1>4, <1>5, UpToGap
  <2> QED BY <2>1, <2>2, <2>3, <2>4
<1>7. f[0] = g[0]
  BY <1>2, <1>3, <1>4 DEF UpTo, UpToAt
<1> DEFINE S == {n \in Nat : n <= z => g[n + s] = f[n]}
<1>8. ASSUME NEW n \in Nat, b <= n, b..n - 1 \subseteq S PROVE n \in S
  <2> SUFFICES ASSUME n <= z PROVE g[n + s] = f[n]
    OBVIOUS
  <2>1. CASE n = b
    BY <1>6, <1>7, <2>1 DEF x
  <2>2. CASE n # b
    <3>1. n \in 0..Len(t) /\ n # 0 /\ n + s \in 0..Len(u) /\ n + s # 0 /\ n - 1 \in b..n - 1 /\ (n + s) - 1 = (n - 1) + s
      BY <1>1, <1>8, <2>2
    <3>2. g[(n + s) - 1] = f[n - 1]
      BY <1>8, <3>1
    <3>3. n + s \in J <=> n \in I
      <4>1. \A m \in I : n + s = m + s => n = m
        <5>1. \A m \in I : m \in Int
          OBVIOUS
        <5> QED BY <5>1
      <4> QED BY <4>1
    <3>4. n \in I => u[n + s] = t[n]
      OBVIOUS
    <3>5. f[n] = IF n \in I THEN Append(f[n - 1], t[n].val[1]) ELSE f[n - 1]
      BY <1>2, <3>1 DEF UpTo, UpToAt
    <3>6. g[n + s] = IF n + s \in J THEN Append(g[(n + s) - 1], u[n + s].val[1]) ELSE g[(n + s) - 1]
      BY <1>3, <3>1 DEF UpTo, UpToAt
    <3> QED BY <3>2, <3>3, <3>4, <3>5, <3>6
  <2> QED BY <2>1, <2>2
<1>9. \A n \in Nat : b <= n => n \in S
  <2> HIDE DEF S
  <2> QED BY <1>8, Upward
<1>10. g[y] = f[z]
  BY <1>9 DEF y
<1> QED BY <1>2, <1>3, <1>6, <1>10 DEF UpTo
LEMMA ItemValuesNew ==
  ASSUME NEW u, Lines(u), NEW items \in KeyPath, NEW x \in Nat, x + Len(items) <= Len(u),
         NEW J, J = x + 1..x + Len(items), \A i \in 1..Len(items) : u[x + i].val[1] = items[i]
  PROVE  ItemValues(u, J) = items
<1>1. Len(u) \in Nat /\ Len(items) \in Nat
  BY LinesAre, LenProperties DEF KeyPath
<1> DEFINE l == Len(items)
<1>2. PICK f : UpTo(u, J, f)
  BY UpToIs
<1>3. x \in 0..Len(u) /\ 0 \in 0..Len(u) /\ x + l \in 0..Len(u) /\ Len(u) \in 0..Len(u)
  BY <1>1
<1>4. f[x] = f[0]
  <2>1. \A j \in 0 + 1..x : j \notin J
    OBVIOUS
  <2> QED BY <1>2, <1>3, <2>1, UpToGap
<1>5. f[Len(u)] = f[x + l]
  <2>1. \A j \in x + l + 1..Len(u) : j \notin J
    BY <1>1
  <2> HIDE DEF l
  <2> QED BY <1>1, <1>2, <1>3, <2>1, UpToGap DEF l
<1> DEFINE Is(g, n) == g \in KeyPath /\ Len(g) = n /\ \A i \in 1..n : g[i] = items[i]
           S == {n \in Nat : n <= l => Is(f[x + n], n)}
<1>6. ASSUME NEW n \in Nat, 0 <= n, 0..n - 1 \subseteq S PROVE n \in S
  <2> SUFFICES ASSUME n <= l PROVE Is(f[x + n], n)
    OBVIOUS
  <2>1. CASE n = 0
    <3>1. f[0] = <<>>
      BY <1>2, <1>3 DEF UpTo, UpToAt
    <3>2. x + n = x
      BY <2>1
    <3>3. f[x + n] = <<>>
      BY <1>4, <3>1, <3>2
    <3>4. <<>> \in KeyPath /\ Len(<<>>) = 0
      BY EmptySeq DEF KeyPath
    <3>5. 1..n = {}
      BY <2>1
    <3> QED BY <2>1, <3>3, <3>4, <3>5, Zenon
  <2>2. CASE n # 0
    <3>1. n - 1 \in 0..n - 1 /\ n - 1 \in Nat /\ n - 1 <= l /\ n \in 1..l
      BY <1>1, <2>2
    <3>2. x + n \in 0..Len(u) /\ x + n # 0 /\ (x + n) - 1 = x + (n - 1) /\ x + n \in J
      BY <1>1, <2>2
    <3> DEFINE g == f[x + (n - 1)]
    <3>3. g \in KeyPath /\ Len(g) = n - 1 /\ \A i \in 1..n - 1 : g[i] = items[i]
      BY <1>6, <3>1
    <3> HIDE DEF S
    <3>4. f[x + n] = Append(f[(x + n) - 1], u[x + n].val[1])
      BY <1>2, <3>2 DEF UpTo, UpToAt
    <3>5. u[x + n].val[1] = items[n] /\ items[n] \in KeyName
      BY <3>1, ElementOfSeq DEF KeyPath
    <3>6. f[x + n] = Append(g, items[n])
      BY <3>2, <3>4, <3>5
    <3> HIDE DEF g
    <3>7. /\ Append(g, items[n]) \in KeyPath /\ Len(Append(g, items[n])) = Len(g) + 1
          /\ \A i \in 1..Len(g) : Append(g, items[n])[i] = g[i]
          /\ Append(g, items[n])[Len(g) + 1] = items[n]
      BY <3>3, <3>5, AppendIs DEF KeyPath
    <3>8. \A i \in 1..n : Append(g, items[n])[i] = items[i]
      BY <3>3, <3>7
    <3> QED BY <3>3, <3>6, <3>7, <3>8
  <2> QED BY <2>1, <2>2
<1>7. \A n \in Nat : 0 <= n => n \in S
  <2> HIDE DEF S
  <2> QED BY <1>6, Upward
<1>8. Is(f[x + l], l)
  BY <1>1, <1>7
<1>9. f[x + l] = items
  <2> DEFINE g == f[x + l]
  <2>1. g \in KeyPath /\ Len(g) = Len(items) /\ \A i \in 1..Len(g) : g[i] = items[i]
    BY <1>8
  <2> HIDE DEF g
  <2>2. g = items
    BY <2>1, SeqEqual DEF KeyPath
  <2> QED BY <2>2 DEF g
<1> QED BY <1>2, <1>5, <1>9 DEF UpTo

-----------------------------------------------------------------------------
(* The keys an edit keeps, and where they are afterwards.                    *)
Kept(t, a, e, k) == k \in LiveKeys(t) /\ (k < a \/ e < k)
At(a, d, k) == IF k < a THEN k ELSE k + d
Edit(t, u, p, n, a, e, d, L, ks) ==
  /\ Spliced(t, u, n, a, e, d, L, ks) /\ WellFormed(t) /\ WellFormed(u)
  /\ Leads(t, n, ks, p) /\ Fresh(t, u, a, e, ks)
  /\ a = n => IsPrefix(PathIn(t, n), p)
NoKeep(t) == \A n \in 1..Len(t) : t[n].is = "key" => t[n].form # "keep"
StillNest(t, a, e) ==
  \A k : Kept(t, a, e, k) /\ Nests(t, k) =>
     \E m : Kept(t, a, e, m) /\ IsStrictPrefix(PathIn(t, k), PathIn(t, m))

LEMMA KeptIs ==
  ASSUME NEW t, NEW u, NEW n, NEW a, NEW e, NEW d, NEW L, NEW ks, Spliced(t, u, n, a, e, d, L, ks)
  PROVE  \A k : Kept(t, a, e, k) =>
            /\ k \in LiveKeys(t) /\ At(a, d, k) \in LiveKeys(u) /\ u[At(a, d, k)] = t[k]
            /\ PathIn(u, At(a, d, k)) = PathIn(t, k)
            /\ (k < a /\ At(a, d, k) = k) \/ (e < k /\ At(a, d, k) = k + d)
<1> SUFFICES ASSUME NEW k, Kept(t, a, e, k)
             PROVE  /\ k \in LiveKeys(t) /\ At(a, d, k) \in LiveKeys(u) /\ u[At(a, d, k)] = t[k]
                    /\ PathIn(u, At(a, d, k)) = PathIn(t, k)
                    /\ (k < a /\ At(a, d, k) = k) \/ (e < k /\ At(a, d, k) = k + d)
  OBVIOUS
<1>1. n \in Nat /\ a \in Nat /\ e \in Nat /\ d \in Int /\ a <= e + 1 /\ e <= Len(t) /\ Len(t) \in Nat
  BY SplicedNumbers
<1>2. Lines(t) /\ Lines(u)
  BY DEF Spliced
<1>3. k \in LiveKeys(t) /\ k \in Nat /\ 1 <= k /\ k <= Len(t)
  BY <1>2, LinesAre DEF Kept
<1>4. CASE k < a
  <2>1. At(a, d, k) = k /\ k \in 1..a - 1
    BY <1>1, <1>3, <1>4 DEF At
  <2>2. u[k] = t[k] /\ k \in LiveKeys(u) /\ PathIn(u, k) = PathIn(t, k)
    <3>1. u[k] = t[k]
      BY <2>1, LinesAfter
    <3>2. k \in LiveKeys(u)
      BY <1>3, <2>1, KeysAfter
    <3> QED BY <1>3, <1>4, <3>1, <3>2, PathsAbove
  <2> QED BY <1>3, <1>4, <2>1, <2>2
<1>5. CASE ~ (k < a)
  <2>1. At(a, d, k) = k + d /\ e < k /\ k \in e + 1..Len(t)
    BY <1>1, <1>3, <1>5 DEF At, Kept
  <2>2. u[k + d] = t[k]
    BY <2>1, LinesAfter
  <2>3. k + d \in LiveKeys(u) /\ PathIn(u, k + d) = PathIn(t, k)
    BY <1>3, <2>1, PathsBehind
  <2> QED BY <1>3, <2>1, <2>2, <2>3
<1> QED BY <1>4, <1>5

(* The keys after an edit: those kept, and the new ones.                     *)
LEMMA KeysAre ==
  ASSUME NEW t, NEW u, NEW n, NEW a, NEW e, NEW d, NEW L, NEW ks, Spliced(t, u, n, a, e, d, L, ks)
  PROVE  \A j \in LiveKeys(u) : \/ \E k : Kept(t, a, e, k) /\ j = At(a, d, k)
                                \/ \E i \in 1..Len(ks) : j = a - 1 + i
<1> SUFFICES ASSUME NEW j \in LiveKeys(u)
             PROVE  \/ \E k : Kept(t, a, e, k) /\ j = At(a, d, k)
                    \/ \E i \in 1..Len(ks) : j = a - 1 + i
  OBVIOUS
<1>1. a \in Nat /\ e \in Nat /\ d \in Int /\ a <= e + 1 /\ Len(t) \in Nat
  BY SplicedNumbers
<1>2. CASE j \in 1..a - 1 /\ j \in LiveKeys(t)
  <2>1. j < a
    BY <1>1, <1>2
  <2>2. Kept(t, a, e, j) /\ j = At(a, d, j)
    BY <1>2, <2>1 DEF Kept, At
  <2> QED BY <2>2
<1>3. CASE \E m \in e + 1..Len(t) : m \in LiveKeys(t) /\ j = m + d
  <2>1. PICK m \in e + 1..Len(t) : m \in LiveKeys(t) /\ j = m + d
    BY <1>3
  <2>2. e < m /\ ~ (m < a)
    BY <1>1
  <2>3. Kept(t, a, e, m) /\ j = At(a, d, m)
    BY <2>1, <2>2 DEF Kept, At
  <2> QED BY <2>3
<1> QED BY <1>2, <1>3, KeysAfter

LEMMA KeptScalar ==
  ASSUME NEW t, NEW u, NEW n, NEW a, NEW e, NEW d, NEW L, NEW ks, Spliced(t, u, n, a, e, d, L, ks),
         NoKeep(t), NEW k, Kept(t, a, e, k)
  PROVE  ScalarLines(u, At(a, d, k)) = ScalarLines(t, k)
<1>1. /\ n \in Nat /\ a \in Nat /\ e \in Nat /\ d \in Int /\ n <= e /\ n <= a /\ a <= e + 1 /\ e <= Len(t)
      /\ Len(t) \in Nat /\ Len(u) \in Nat /\ Len(L) \in Nat /\ Len(u) = Len(t) + d /\ a - 1 + Len(L) = e + d
      /\ (a = n \/ a = e + 1) /\ 1 <= n
  BY SplicedNumbers
<1>2. Lines(t) /\ Lines(u) /\ n \in LiveKeys(t)
  BY DEF Spliced
<1>3. k \in LiveKeys(t) /\ k \in Nat /\ 1 <= k /\ k <= Len(t) /\ k \in 1..Len(t) /\ t[k].form # "keep"
  BY <1>2, LinesAre DEF Kept, NoKeep
<1>4. At(a, d, k) \in LiveKeys(u) /\ u[At(a, d, k)] = t[k]
  BY KeptIs
<1>5. \A m : TextLine(t, k, m) =>
         m \in 1..Len(t) /\ k < m /\ Opened(t)[m] = k /\ t[m].is # "blank" /\ \A i \in 1..m : k < i => Opened(t)[i] = k
  <2> TAKE m
  <2>1. TextLine(t, k, m) => ScalarOf(t, Opened(t), m)
    BY <1>2, ScalarsAreWhole DEF TextLine
  <2> QED BY <1>3, <2>1 DEF TextLine, ScalarOf
<1>6. \A m \in e + 1..Len(t) :
         /\ m + d \in 1..Len(u) /\ u[m + d] = t[m]
         /\ t[m].is # "blank" => \/ Opened(t)[m] = 0 /\ Opened(u)[m + d] = 0
                                 \/ Opened(t)[m] \in Nat /\ Opened(t)[m] > e /\ Opened(u)[m + d] = Opened(t)[m] + d
  BY LinesAfter
<1>7. \A m \in 1..a - 1 : m \in 1..Len(u) /\ u[m] = t[m] /\ Opened(u)[m] = Opened(t)[m] /\ m \in 1..Len(t)
  BY LinesAfter
<1>8. \A i \in 1..Len(L) : Opened(u)[a - 1 + i] = 0
  BY LinesAfter
<1>9. \A j \in 1..Len(u) : \/ j \in 1..a - 1
                           \/ \E i \in 1..Len(L) : j = a - 1 + i
                           \/ \E m \in e + 1..Len(t) : j = m + d
  BY LinesAfter
<1>10. CASE k < a
  <2>1. \A m : TextLine(t, k, m) => m \in 1..a - 1
    <3> SUFFICES ASSUME NEW m, TextLine(t, k, m), ~ (m \in 1..a - 1) PROVE FALSE
      OBVIOUS
    <3>1. m \in 1..Len(t) /\ m >= a /\ Opened(t)[m] = k /\ t[m].is # "blank"
      BY <1>1, <1>5
    <3>2. ~ (m \in e + 1..Len(t))
      <4> SUFFICES ASSUME m \in e + 1..Len(t) PROVE FALSE
        OBVIOUS
      <4>1. Opened(t)[m] > e
        BY <1>3, <1>6, <3>1
      <4> QED BY <1>1, <1>3, <1>10, <3>1, <4>1
    <3>3. a = n /\ n \in 1..m /\ k < n
      BY <1>1, <1>10, <3>1, <3>2
    <3>4. Opened(t)[n] = k
      BY <1>5, <3>3
    <3>5. Opened(t)[n] = 0
      BY <1>2, LinesAre
    <3> QED BY <1>3, <3>4, <3>5
  <2>2. \A m : TextLine(t, k, m) => k < m /\ TextLine(u, k, m)
    BY <1>5, <1>7, <2>1 DEF TextLine
  <2>3. \A j : TextLine(u, k, j) => TextLine(t, k, j)
    <3> SUFFICES ASSUME NEW j, TextLine(u, k, j) PROVE TextLine(t, k, j)
      OBVIOUS
    <3>1. j \in 1..Len(u) /\ Opened(u)[j] = k /\ u[j].is # "blank"
      BY DEF TextLine
    <3>2. j \in 1..a - 1
      <4>1. ~ \E i \in 1..Len(L) : j = a - 1 + i
        BY <1>3, <1>8, <3>1
      <4>2. ASSUME NEW m \in e + 1..Len(t), j = m + d PROVE FALSE
        <5>1. t[m].is # "blank" /\ Opened(u)[m + d] = k /\ k # 0
          BY <1>3, <1>6, <3>1, <4>2
        <5>2. Opened(t)[m] \in Nat /\ Opened(t)[m] > e /\ k = Opened(t)[m] + d
          BY <1>6, <5>1
        <5> QED BY <1>1, <1>3, <1>10, <5>2
      <4> QED BY <1>9, <3>1, <4>1, <4>2
    <3> QED BY <1>7, <3>1, <3>2 DEF TextLine
  <2>4. \A m, i : TextLine(t, k, m) /\ i \in k + 1..m => u[i] = t[i]
    <3> SUFFICES ASSUME NEW m, TextLine(t, k, m), NEW i \in k + 1..m PROVE u[i] = t[i]
      OBVIOUS
    <3>1. i \in 1..a - 1
      BY <1>1, <1>3, <2>1
    <3> QED BY <1>7, <3>1
  <2>5. At(a, d, k) = k
    BY <1>10 DEF At
  <2> DEFINE s == 0
  <2>6. s \in Int /\ k + s = k /\ \A m \in 1..Len(t) : m + s = m
    BY <1>3
  <2>7. k + s \in 1..Len(u) /\ u[k + s] = t[k]
    BY <1>2, <1>4, <2>5, <2>6, LinesAre
  <2> HIDE DEF s
  <2>8. \A m : TextLine(t, k, m) => k < m /\ TextLine(u, k + s, m + s)
    BY <1>5, <2>2, <2>6
  <2>9. \A j : TextLine(u, k + s, j) => \E m : TextLine(t, k, m) /\ j = m + s
    BY <1>5, <2>3, <2>6
  <2>10. \A m, i : TextLine(t, k, m) /\ i \in k + 1..m => u[i + s] = t[i]
    <3> SUFFICES ASSUME NEW m, TextLine(t, k, m), NEW i \in k + 1..m PROVE u[i + s] = t[i]
      OBVIOUS
    <3>1. i \in 1..Len(t)
      BY <1>3, <1>5
    <3> QED BY <2>4, <2>6, <3>1
  <2>11. ScalarLines(u, k + s) = ScalarLines(t, k)
    BY <1>2, <1>3, <2>6, <2>7, <2>8, <2>9, <2>10, ScalarLinesSame
  <2> QED BY <2>5, <2>6, <2>11
<1>11. CASE ~ (k < a)
  <2>1. At(a, d, k) = k + d /\ e < k
    BY <1>11 DEF At, Kept
  <2>2. \A m : TextLine(t, k, m) => m \in e + 1..Len(t)
    BY <1>1, <1>3, <1>5, <2>1
  <2>3. \A m : TextLine(t, k, m) => k < m /\ TextLine(u, k + d, m + d)
    <3> SUFFICES ASSUME NEW m, TextLine(t, k, m) PROVE k < m /\ TextLine(u, k + d, m + d)
      OBVIOUS
    <3>1. m \in e + 1..Len(t) /\ k < m /\ Opened(t)[m] = k /\ t[m].is # "blank"
      BY <1>5, <2>2
    <3> QED BY <1>3, <1>6, <3>1 DEF TextLine
  <2>4. \A j : TextLine(u, k + d, j) => \E m : TextLine(t, k, m) /\ j = m + d
    <3> SUFFICES ASSUME NEW j, TextLine(u, k + d, j) PROVE \E m : TextLine(t, k, m) /\ j = m + d
      OBVIOUS
    <3>1. j \in 1..Len(u) /\ Opened(u)[j] = k + d /\ u[j].is # "blank"
      BY DEF TextLine
    <3>2. k + d \in Nat /\ k + d >= a /\ k + d # 0
      BY <1>1, <1>3, <2>1
    <3>3. ~ (j \in 1..a - 1)
      <4> SUFFICES ASSUME j \in 1..a - 1 PROVE FALSE
        OBVIOUS
      <4>1. ScalarOf(u, Opened(u), j)
        BY <1>2, <3>1, ScalarsAreWhole
      <4>2. k + d < j
        BY <3>1, <4>1 DEF ScalarOf
      <4> QED BY <1>1, <3>2, <4>2
    <3>4. ~ \E i \in 1..Len(L) : j = a - 1 + i
      BY <1>8, <3>1, <3>2
    <3>5. PICK m \in e + 1..Len(t) : j = m + d
      BY <1>9, <3>1, <3>3, <3>4
    <3>6. t[m].is # "blank" /\ Opened(u)[m + d] = k + d
      BY <1>6, <3>1, <3>5
    <3>7. Opened(t)[m] \in Nat /\ k + d = Opened(t)[m] + d
      BY <1>6, <3>2, <3>6
    <3>8. Opened(t)[m] = k /\ m \in 1..Len(t)
      BY <1>1, <1>3, <3>7
    <3> QED BY <3>5, <3>6, <3>8 DEF TextLine
  <2>5. \A m, i : TextLine(t, k, m) /\ i \in k + 1..m => u[i + d] = t[i]
    <3> SUFFICES ASSUME NEW m, TextLine(t, k, m), NEW i \in k + 1..m PROVE u[i + d] = t[i]
      OBVIOUS
    <3>1. i \in e + 1..Len(t)
      BY <1>1, <1>3, <2>1, <2>2
    <3> QED BY <1>6, <3>1
  <2>6. k + d \in 1..Len(u) /\ u[k + d] = t[k]
    BY <1>2, <1>4, <2>1, LinesAre
  <2>7. ScalarLines(u, k + d) = ScalarLines(t, k)
    BY <1>1, <1>2, <1>3, <2>3, <2>4, <2>5, <2>6, ScalarLinesSame
  <2> QED BY <2>1, <2>7
<1> QED BY <1>10, <1>11

LEMMA KeptItems ==
  ASSUME NEW t, NEW u, NEW n, NEW a, NEW e, NEW d, NEW L, NEW ks, Spliced(t, u, n, a, e, d, L, ks),
         NEW k, Kept(t, a, e, k)
  PROVE  /\ ItemsIn(u, At(a, d, k)) = {} <=> ItemsIn(t, k) = {}
         /\ ItemValues(u, ItemsIn(u, At(a, d, k))) = ItemValues(t, ItemsIn(t, k))
<1> DEFINE I == ItemsIn(t, k)
           J == ItemsIn(u, At(a, d, k))
<1>1. /\ a \in Nat /\ e \in Nat /\ d \in Int /\ 1 <= a /\ a <= e + 1 /\ e <= Len(t) /\ Len(t) \in Nat
      /\ Len(u) \in Nat /\ Len(L) \in Nat /\ Len(u) = Len(t) + d /\ a - 1 + Len(L) = e + d /\ e + d >= 0
  <2>1. \E i \in Nat : 1 <= i /\ i <= a
    BY SplicedNumbers
  <2> QED BY <2>1, SplicedNumbers
<1>2. Lines(t) /\ Lines(u)
  BY DEF Spliced
<1>3. \A m \in 1..a - 1 : m \in 1..Len(u) /\ u[m] = t[m]
  BY LinesAfter
<1>4. \A m \in e + 1..Len(t) : m + d \in 1..Len(u) /\ u[m + d] = t[m]
  BY LinesAfter
<1>5. k \in LiveKeys(t) /\ ((k < a /\ At(a, d, k) = k) \/ (e < k /\ At(a, d, k) = k + d))
  BY KeptIs
<1>6. CASE k < a /\ At(a, d, k) = k
  <2>1. J = I /\ \A m \in I : m \in 1..a - 1
    BY <1>5, <1>6, ItemsOfKeysAfter
  <2> DEFINE s == 0
             b == 0
             z == a - 1
  <2>2. /\ s \in Int /\ b \in Nat /\ z \in Nat /\ b <= z /\ z <= Len(t) /\ b + s >= 0 /\ z + s <= Len(u)
        /\ \A m \in I : m + s = m
    BY <1>1, <2>1
  <2>3. \A m \in I : m \in b + 1..z
    BY <2>1
  <2> HIDE DEF I, J, s, b, z
  <2>4. \A m \in I : m \in b + 1..z /\ m + s \in 1..Len(u) /\ u[m + s] = t[m]
    BY <1>3, <2>1, <2>2, <2>3
  <2>5. \A m \in I : m + s \in J
    BY <2>1, <2>2
  <2>6. \A j \in J : \E m \in I : j = m + s
    BY <2>1, <2>2
  <2>7. ItemValues(u, J) = ItemValues(t, I)
    <3>1. ItemsMoved(t, u, s, b, z, I, J)
      BY <2>2, <2>4, <2>5, <2>6 DEF ItemsMoved
    <3> QED BY <1>2, <3>1, ItemValuesMoved
  <2> QED BY <2>1, <2>7 DEF I, J
<1>7. CASE e < k /\ At(a, d, k) = k + d
  <2>1. /\ \A m \in I : m \in e + 1..Len(t) /\ m + d \in J
        /\ \A j \in J : \E m \in I : j = m + d
    BY <1>5, <1>7, ItemsOfKeysAfter
  <2>2. e <= Len(t) /\ Len(t) + d <= Len(u) /\ Len(t) <= Len(t)
    BY <1>1
  <2> HIDE DEF I, J
  <2>3. \A m \in I : m \in e + 1..Len(t) /\ m + d \in 1..Len(u) /\ u[m + d] = t[m]
    BY <1>4, <2>1
  <2>4. ItemValues(u, J) = ItemValues(t, I)
    <3>1. ItemsMoved(t, u, d, e, Len(t), I, J)
      BY <1>1, <2>1, <2>2, <2>3 DEF ItemsMoved
    <3> QED BY <1>2, <3>1, ItemValuesMoved
  <2>5. J = {} <=> I = {}
    BY <2>1
  <2> QED BY <2>4, <2>5 DEF I, J
<1> QED BY <1>5, <1>6, <1>7

LEMMA StrictPrefixIs ==
  ASSUME NEW q \in KeyPath, NEW r \in KeyPath
  PROVE  /\ Len(q) \in Nat /\ Len(r) \in Nat
         /\ IsStrictPrefix(q, r) <=> IsPrefix(q, r) /\ Len(q) < Len(r)
<1>1. Len(q) \in Nat /\ Len(r) \in Nat
  BY PrefixIs
<1>2. IsPrefix(q, r) /\ q # r => Len(q) < Len(r)
  BY PrefixOrder
<1> QED BY <1>1, <1>2 DEF IsStrictPrefix

(* Of two paths that lie on a third, the shorter lies on the other.          *)
LEMMA OnOnePath ==
  ASSUME NEW p \in KeyPath, NEW q \in KeyPath, NEW r \in KeyPath, IsPrefix(q, p), IsPrefix(r, p)
  PROVE  IsPrefix(q, r) \/ IsStrictPrefix(r, q)
<1>1. Len(q) \in Nat /\ Len(r) \in Nat
  BY PrefixIs
<1>2. CASE Len(q) <= Len(r)
  BY <1>2, PrefixOrder
<1>3. CASE Len(r) < Len(q)
  <2>1. IsPrefix(r, q) /\ r # q
    BY <1>1, <1>3, PrefixOrder
  <2> QED BY <2>1 DEF IsStrictPrefix
<1> QED BY <1>1, <1>2, <1>3

(* What an edit replaces is the entry of its key.                           *)
LEMMA LostIs ==
  ASSUME NEW t, NEW u, NEW n, NEW a, NEW e, NEW d, NEW L, NEW ks, Spliced(t, u, n, a, e, d, L, ks)
  PROVE  /\ \A m \in LiveKeys(t) : ~ Kept(t, a, e, m) => a = n /\ (m = n \/ Under(t, n, m))
         /\ a = n => \A m \in LiveKeys(t) : m = n \/ Under(t, n, m) => ~ Kept(t, a, e, m)
<1>1. n \in Nat /\ a \in Nat /\ e \in Nat /\ n <= e /\ (a = n \/ a = e + 1)
  BY SplicedNumbers
<1>2. Lines(t) /\ n \in LiveKeys(t)
  BY DEF Spliced
<1>20. \A m \in LiveKeys(t) : m \in Nat
  BY <1>2, LinesAre
<1>21. \A m \in LiveKeys(t) : t[m].ind \in Nat
  BY <1>2, LinesAre
<1>3. /\ \A k \in LiveKeys(t) : n < k /\ k <= e => t[n].ind < t[k].ind
      /\ \A m \in LiveKeys(t) : e < m => \E f \in LiveKeys(t) : e < f /\ f <= m /\ t[f].ind <= t[n].ind
  BY DEF Spliced
<1>4. ASSUME NEW m \in LiveKeys(t), ~ Kept(t, a, e, m) PROVE a = n /\ (m = n \/ Under(t, n, m))
  <2>0. m \in Nat
    BY <1>20
  <2>1. ~ (m < a) /\ ~ (e < m)
    BY <1>4 DEF Kept
  <2>2. a = n /\ n <= m /\ m <= e
    BY <1>1, <2>0, <2>1
  <2>3. CASE n # m
    <3>1. n < m /\ \A k \in LiveKeys(t) : n < k /\ k <= m => k <= e
      <4>1. n < m
        BY <1>1, <2>0, <2>2, <2>3
      <4>2. \A k \in Nat : k <= m => k <= e
        BY <1>1, <2>0, <2>2
      <4> QED BY <1>20, <4>1, <4>2
    <3>2. \A k \in LiveKeys(t) : n < k /\ k <= m => t[n].ind < t[k].ind
      BY <1>3, <3>1
    <3>3. Under(t, n, m)
      BY <1>2, <3>1, <3>2 DEF Under
    <3> QED BY <2>2, <3>3
  <2> QED BY <2>2, <2>3
<1>5. ASSUME a = n, NEW m \in LiveKeys(t), m = n \/ Under(t, n, m) PROVE ~ Kept(t, a, e, m)
  <2>0. m \in Nat
    BY <1>20
  <2>1. n <= m
    <3>1. Under(t, n, m) => n < m
      BY DEF Under
    <3> QED BY <1>1, <1>5, <2>0, <3>1
  <2>2. ~ (e < m)
    <3> SUFFICES ASSUME e < m PROVE FALSE
      OBVIOUS
    <3>1. PICK f \in LiveKeys(t) : e < f /\ f <= m /\ t[f].ind <= t[n].ind
      BY <1>3
    <3>2. m # n
      BY <1>1, <2>0
    <3>3. f \in Nat /\ n < f
      <4>1. f \in Nat /\ e < f
        BY <1>20, <3>1
      <4> QED BY <1>1, <4>1
    <3>4. Under(t, n, m) /\ f <= m
      BY <1>5, <3>1, <3>2
    <3>5. t[n].ind < t[f].ind
      BY <3>3, <3>4 DEF Under
    <3>6. t[n].ind \in Nat /\ t[f].ind \in Nat
      BY <1>2, <1>21
    <3> QED BY <3>1, <3>5, <3>6
  <2>3. ~ (m < a)
    BY <1>1, <1>5, <2>0, <2>1
  <2> QED BY <2>2, <2>3 DEF Kept
<1> QED BY <1>4, <1>5
LEMMA KeptNests ==
  ASSUME NEW t, NEW u, NEW p, NEW n, NEW a, NEW e, NEW d, NEW L, NEW ks, Edit(t, u, p, n, a, e, d, L, ks),
         Len(ks) >= 1 \/ StillNest(t, a, e)
  PROVE  \A k : Kept(t, a, e, k) => (Nests(u, At(a, d, k)) <=> Nests(t, k))
<1>1. /\ Spliced(t, u, n, a, e, d, L, ks) /\ WellFormed(t) /\ WellFormed(u)
      /\ Leads(t, n, ks, p) /\ Fresh(t, u, a, e, ks)
      /\ a = n => IsPrefix(PathIn(t, n), p)
  BY DEF Edit
<1>2. Lines(t) /\ Lines(u) /\ n \in LiveKeys(t) /\ PathsDiffer(t) /\ PathsDiffer(u)
  <2>1. Lines(t) /\ Lines(u) /\ n \in LiveKeys(t)
    BY <1>1 DEF Spliced
  <2> QED BY <1>1, <2>1, WellFormedIs
<1>3. \A m \in LiveKeys(t) : PathIn(t, m) \in KeyPath
  BY <1>2, PathIs DEF PathAsSaid
<1>4. \A m \in LiveKeys(u) : PathIn(u, m) \in KeyPath
  BY <1>2, PathIs DEF PathAsSaid
<1>5. p \in KeyPath
  BY <1>1 DEF Leads
<1>6. /\ Base(t, n) \in KeyPath /\ Len(Base(t, n)) \in Nat /\ Len(PathIn(t, n)) = Len(Base(t, n)) + 1
  BY <1>2, BaseIs
<1>7. \A i \in 1..Len(ks) : /\ a - 1 + i \in LiveKeys(u)
                            /\ IsPrefix(PathIn(u, a - 1 + i), p) /\ Len(PathIn(u, a - 1 + i)) = Len(Base(t, n)) + i
  BY <1>1, PathsNew DEF OnPath
<1>8. a \in Nat /\ Len(ks) \in Nat
  BY <1>1, SplicedNumbers
<1>9. Len(ks) >= 1 =>
        /\ a \in LiveKeys(u) /\ IsPrefix(PathIn(u, a), p) /\ Len(PathIn(u, a)) = Len(PathIn(t, n))
        /\ \A k : Kept(t, a, e, k) => ~ IsPrefix(PathIn(u, a), PathIn(t, k))
  <2> SUFFICES ASSUME Len(ks) >= 1
               PROVE  /\ a \in LiveKeys(u) /\ IsPrefix(PathIn(u, a), p) /\ Len(PathIn(u, a)) = Len(PathIn(t, n))
                      /\ \A k : Kept(t, a, e, k) => ~ IsPrefix(PathIn(u, a), PathIn(t, k))
    OBVIOUS
  <2>1. 1 \in 1..Len(ks) /\ a - 1 + 1 = a
    BY <1>8
  <2>2. \A k \in LiveKeys(t) : k < a \/ e < k => ~ IsPrefix(PathIn(u, a), PathIn(t, k))
    BY <1>1 DEF Fresh
  <2> QED BY <1>6, <1>7, <2>1, <2>2 DEF Kept
<1>10. ASSUME NEW k, Kept(t, a, e, k), Nests(t, k) PROVE Nests(u, At(a, d, k))
  <2>1. k \in LiveKeys(t) /\ At(a, d, k) \in LiveKeys(u) /\ PathIn(u, At(a, d, k)) = PathIn(t, k)
    BY <1>1, <1>10, KeptIs
  <2>2. ASSUME NEW m, Kept(t, a, e, m), IsStrictPrefix(PathIn(t, k), PathIn(t, m)) PROVE Nests(u, At(a, d, k))
    <3>1. At(a, d, m) \in LiveKeys(u) /\ PathIn(u, At(a, d, m)) = PathIn(t, m)
      BY <1>1, <2>2, KeptIs
    <3> QED BY <2>1, <2>2, <3>1 DEF Nests
  <2>3. CASE StillNest(t, a, e)
    BY <1>10, <2>2, <2>3 DEF StillNest
  <2>4. CASE Len(ks) >= 1
    <3>1. PICK m \in LiveKeys(t) : IsStrictPrefix(PathIn(t, k), PathIn(t, m))
      BY <1>10 DEF Nests
    <3>2. CASE Kept(t, a, e, m)
      BY <2>2, <3>1, <3>2
    <3>3. CASE ~ Kept(t, a, e, m)
      <4>1. a = n /\ (m = n \/ Under(t, n, m))
        BY <1>1, <3>3, LostIs
      <4>2. IsPrefix(PathIn(t, n), PathIn(t, m)) /\ IsPrefix(PathIn(t, n), p)
        BY <1>1, <1>2, <1>3, <4>1, UnderIsBelow, PrefixOrder
      <4>3. ~ IsPrefix(PathIn(t, n), PathIn(t, k))
        <5>1. ~ (k = n \/ Under(t, n, k))
          BY <1>1, <1>10, <2>1, <4>1, LostIs
        <5> QED BY <1>2, <2>1, <5>1, BelowIsUnder
      <4>4. IsPrefix(PathIn(t, k), PathIn(t, m))
        BY <3>1 DEF IsStrictPrefix
      <4>5. IsStrictPrefix(PathIn(t, k), PathIn(t, n))
        BY <1>2, <1>3, <2>1, <4>2, <4>3, <4>4, OnOnePath
      <4>6. PathIn(u, a) = PathIn(t, n)
        <5>1. /\ PathIn(u, a) \in KeyPath /\ PathIn(t, n) \in KeyPath /\ IsPrefix(PathIn(u, a), p)
              /\ Len(PathIn(u, a)) = Len(PathIn(t, n)) /\ Len(PathIn(t, n)) \in Nat
          BY <1>2, <1>3, <1>4, <1>6, <1>9, <2>4
        <5>2. IsPrefix(PathIn(u, a), PathIn(t, n))
          BY <1>5, <4>2, <5>1, PrefixOrder
        <5> QED BY <5>1, <5>2, PrefixOrder
      <4> QED BY <1>9, <2>1, <2>4, <4>5, <4>6 DEF Nests
    <3> QED BY <3>2, <3>3
  <2> QED BY <2>3, <2>4
<1>11. ASSUME NEW k, Kept(t, a, e, k), Nests(u, At(a, d, k)) PROVE Nests(t, k)
  <2>1. k \in LiveKeys(t) /\ At(a, d, k) \in LiveKeys(u) /\ PathIn(u, At(a, d, k)) = PathIn(t, k)
    BY <1>1, <1>11, KeptIs
  <2>2. PICK j \in LiveKeys(u) : IsStrictPrefix(PathIn(t, k), PathIn(u, j))
    BY <1>11, <2>1 DEF Nests
  <2>3. CASE \E m : Kept(t, a, e, m) /\ j = At(a, d, m)
    <3>1. PICK m : Kept(t, a, e, m) /\ j = At(a, d, m)
      BY <2>3
    <3>2. m \in LiveKeys(t) /\ PathIn(u, j) = PathIn(t, m)
      BY <1>1, <3>1, KeptIs
    <3> QED BY <2>2, <3>2 DEF Nests
  <2>4. CASE \E i \in 1..Len(ks) : j = a - 1 + i
    <3>1. Len(ks) >= 1 /\ IsPrefix(PathIn(u, j), p)
      BY <1>7, <1>8, <2>4
    <3>2. IsPrefix(PathIn(t, k), PathIn(u, j))
      BY <2>2 DEF IsStrictPrefix
    <3>3. IsPrefix(PathIn(t, k), p)
      BY <1>3, <1>4, <1>5, <2>1, <2>2, <3>1, <3>2, PrefixOrder
    <3>4. ~ IsPrefix(PathIn(u, a), PathIn(t, k)) /\ IsPrefix(PathIn(u, a), p) /\ PathIn(u, a) \in KeyPath
      BY <1>4, <1>9, <1>11, <3>1
    <3>5. IsStrictPrefix(PathIn(t, k), PathIn(u, a))
      BY <1>3, <1>5, <2>1, <3>3, <3>4, OnOnePath
    <3>6. Len(PathIn(t, k)) < Len(PathIn(u, a)) /\ Len(PathIn(u, a)) = Len(PathIn(t, n))
      BY <1>3, <1>9, <2>1, <3>1, <3>4, <3>5, StrictPrefixIs
    <3>7. IsPrefix(PathIn(t, k), Base(t, n))
      <4>1. Len(PathIn(t, k)) \in Nat /\ Len(PathIn(t, k)) <= Len(Base(t, n))
        <5>1. Len(PathIn(t, k)) \in Nat
          BY <1>3, <2>1, PrefixIs
        <5> QED BY <1>6, <3>6, <5>1
      <4>2. IsPrefix(Base(t, n), p)
        BY <1>1 DEF Leads
      <4> QED BY <1>3, <1>5, <1>6, <2>1, <3>3, <4>1, <4>2, PrefixOrder
    <3>8. IsPrefix(Base(t, n), PathIn(t, n))
      BY <1>2, BaseIs
    <3>9. IsPrefix(PathIn(t, k), PathIn(t, n))
      BY <1>2, <1>3, <1>6, <2>1, <3>7, <3>8, PrefixOrder
    <3>10. PathIn(t, k) # PathIn(t, n)
      <4>1. Len(PathIn(t, n)) \in Nat
        BY <1>6
      <4> QED BY <3>6, <4>1
    <3> QED BY <1>2, <3>9, <3>10 DEF Nests, IsStrictPrefix
  <2> QED BY <1>1, <2>3, <2>4, KeysAre
<1> QED BY <1>10, <1>11

(* What is kept is read as it was.                                          *)
LEMMA KeptReads ==
  ASSUME NEW t, NEW u, NEW p, NEW n, NEW a, NEW e, NEW d, NEW L, NEW ks, Edit(t, u, p, n, a, e, d, L, ks),
         Len(ks) >= 1 \/ StillNest(t, a, e), NoKeep(t)
  PROVE  \A k : Kept(t, a, e, k) => ReadAs(u, At(a, d, k)) = ReadAs(t, k)
<1>1. Spliced(t, u, n, a, e, d, L, ks) /\ WellFormed(t) /\ WellFormed(u)
  BY DEF Edit
<1>2. Lines(t) /\ Lines(u)
  BY <1>1 DEF Spliced
<1> SUFFICES ASSUME NEW k, Kept(t, a, e, k) PROVE ReadAs(u, At(a, d, k)) = ReadAs(t, k)
  OBVIOUS
<1> DEFINE j == At(a, d, k)
<1>3. k \in LiveKeys(t) /\ j \in LiveKeys(u) /\ u[j] = t[k]
  BY <1>1, KeptIs
<1>4. Nests(u, j) <=> Nests(t, k)
  BY KeptNests
<1>5. ScalarLines(u, j) = ScalarLines(t, k)
  BY <1>1, KeptScalar
<1>6. (ItemsIn(u, j) = {} <=> ItemsIn(t, k) = {}) /\ ItemValues(u, ItemsIn(u, j)) = ItemValues(t, ItemsIn(t, k))
  BY <1>1, KeptItems
<1> HIDE DEF j
<1> DEFINE x == ScalarLines(t, k)
           y == ItemValues(t, ItemsIn(t, k))
           some == ItemsIn(t, k) # {}
           nests == Nests(t, k)
           R(l) == IF l.form \in {"plain", "alias"} THEN l.val
                   ELSE IF l.form \in {"bar", "keep", "quote"} THEN <<"text">> \o x
                   ELSE IF l.form = "flow" \/ nests THEN Map
                   ELSE IF some THEN <<"list">> \o y
                   ELSE Nothing
<1>7. ReadAs(t, k) = R(t[k])
  BY <1>1, <1>2, <1>3, ReadAsIs, Zenon
<1>8. ReadAs(u, j) = R(u[j])
  <2> DEFINE T(l) == IF l.form \in {"plain", "alias"} THEN l.val
                     ELSE IF l.form \in {"bar", "keep", "quote"} THEN <<"text">> \o ScalarLines(u, j)
                     ELSE IF l.form = "flow" \/ Nests(u, j) THEN Map
                     ELSE IF ItemsIn(u, j) # {} THEN <<"list">> \o ItemValues(u, ItemsIn(u, j))
                     ELSE Nothing
  <2>1. ReadAs(u, j) = T(u[j])
    BY <1>1, <1>2, <1>3, ReadAsIs, Zenon
  <2>2. nests <=> Nests(u, j)
    BY <1>4
  <2>3. some <=> ItemsIn(u, j) # {}
    BY <1>6
  <2>4. x = ScalarLines(u, j) /\ y = ItemValues(u, ItemsIn(u, j))
    BY <1>5, <1>6
  <2> HIDE DEF nests, some, x, y
  <2>5. T(u[j]) = R(u[j])
    BY <2>2, <2>3, <2>4 DEF Map, Nothing
  <2> QED BY <2>1, <2>5
<1> HIDE DEF R
<1> QED BY <1>3, <1>7, <1>8 DEF j
-----------------------------------------------------------------------------
(* The document, fact by fact, each of the key it is read from.              *)
FactOf(t, k, f) ==
  \/ ReadAs(t, k) # Nothing /\ f = <<PathIn(t, k), ReadAs(t, k)>>
  \/ \E q \in DOMAIN t[k].flow : t[k].flow[q] # Nothing /\ f = <<PathIn(t, k) \o q, t[k].flow[q]>>

LEMMA DecodeIs ==
  ASSUME NEW t
  PROVE  \A f : f \in Decode(t) <=> \E k \in LiveKeys(t) : FactOf(t, k, f)
<1> DEFINE keys == LiveKeys(t)
           P(k) == PathIn(t, k)
           V(k) == ReadAs(t, k)
           F(k) == t[k].flow
           block == {<<P(k), V(k)>> : k \in keys}
           flow == UNION {{<<P(k) \o q, F(k)[q]>> : q \in DOMAIN F(k)} : k \in keys}
<1>1. Decode(t) = {f \in block \cup flow : f[2] # Nothing}
  BY Zenon DEF Decode, PathIn, ReadAs
<1> HIDE DEF keys, P, V, F
<1>2. \A f : f \in block <=> \E k \in keys : f = <<P(k), V(k)>>
  OBVIOUS
<1>3. \A f : f \in flow <=> \E k \in keys : \E q \in DOMAIN F(k) : f = <<P(k) \o q, F(k)[q]>>
  <2> DEFINE G(k) == {<<P(k) \o q, F(k)[q]>> : q \in DOMAIN F(k)}
  <2>1. \A k, f : f \in G(k) <=> \E q \in DOMAIN F(k) : f = <<P(k) \o q, F(k)[q]>>
    OBVIOUS
  <2>2. flow = UNION {G(k) : k \in keys}
    OBVIOUS
  <2> HIDE DEF G, flow
  <2>3. \A f : f \in flow <=> \E k \in keys : f \in G(k)
    BY <2>2
  <2> HIDE DEF keys, P, F
  <2> QED BY <2>1, <2>3
<1>4. \A x, y : <<x, y>>[2] = y
  OBVIOUS
<1> HIDE DEF block, flow
<1>5. \A f : f \in Decode(t) <=>
         \E k \in keys : \/ V(k) # Nothing /\ f = <<P(k), V(k)>>
                         \/ \E q \in DOMAIN F(k) : F(k)[q] # Nothing /\ f = <<P(k) \o q, F(k)[q]>>
  <2> DEFINE w == Nothing
  <2>1. Decode(t) = {f \in block \cup flow : f[2] # w}
    BY <1>1
  <2> HIDE DEF w
  <2>2. ASSUME NEW f, f \in Decode(t)
        PROVE  \E k \in keys : \/ V(k) # w /\ f = <<P(k), V(k)>>
                               \/ \E q \in DOMAIN F(k) : F(k)[q] # w /\ f = <<P(k) \o q, F(k)[q]>>
    <3>1. f[2] # w /\ (f \in block \/ f \in flow)
      BY <2>1, <2>2
    <3>2. CASE f \in block
      <4>1. PICK k \in keys : f = <<P(k), V(k)>>
        BY <1>2, <3>2
      <4>2. f[2] = V(k)
        BY <1>4, <4>1
      <4> QED BY <3>1, <4>1, <4>2
    <3>3. CASE f \in flow
      <4>1. PICK k \in keys : \E q \in DOMAIN F(k) : f = <<P(k) \o q, F(k)[q]>>
        BY <1>3, <3>3
      <4>2. PICK q \in DOMAIN F(k) : f = <<P(k) \o q, F(k)[q]>>
        BY <4>1
      <4>3. f[2] = F(k)[q]
        BY <1>4, <4>2
      <4> QED BY <3>1, <4>2, <4>3
    <3> QED BY <3>1, <3>2, <3>3
  <2>3. ASSUME NEW f, NEW k \in keys, V(k) # w, f = <<P(k), V(k)>> PROVE f \in Decode(t)
    BY <1>2, <1>4, <2>1, <2>3
  <2>4. ASSUME NEW f, NEW k \in keys, NEW q \in DOMAIN F(k), F(k)[q] # w, f = <<P(k) \o q, F(k)[q]>> PROVE f \in Decode(t)
    <3>1. f \in flow
      BY <1>3, <2>4
    <3>2. f[2] = F(k)[q]
      BY <1>4, <2>4
    <3> QED BY <2>1, <2>4, <3>1, <3>2
  <2> QED BY <2>2, <2>3, <2>4 DEF w
<1> QED BY <1>5, Zenon DEF FactOf, keys, P, V, F

LEMMA FactIs ==
  ASSUME NEW t, Lines(t), NEW k \in LiveKeys(t), NEW f, FactOf(t, k, f)
  PROVE  /\ f[1] \in KeyPath /\ IsPrefix(PathIn(t, k), f[1])
         /\ f[1] = PathIn(t, k) \/ t[k].form = "flow"
         /\ f[2] # Nothing
<1>1. PathIn(t, k) \in KeyPath /\ IsLine(t[k])
  BY PathIs, LinesAre DEF PathAsSaid
<1>2. CASE ReadAs(t, k) # Nothing /\ f = <<PathIn(t, k), ReadAs(t, k)>>
  <2>1. f[1] = PathIn(t, k) /\ f[2] = ReadAs(t, k)
    BY <1>2
  <2> QED BY <1>1, <1>2, <2>1, PrefixOrder
<1>3. CASE \E q \in DOMAIN t[k].flow : t[k].flow[q] # Nothing /\ f = <<PathIn(t, k) \o q, t[k].flow[q]>>
  <2>1. PICK q \in DOMAIN t[k].flow : t[k].flow[q] # Nothing /\ f = <<PathIn(t, k) \o q, t[k].flow[q]>>
    BY <1>3
  <2>2. t[k].form = "flow" /\ q \in KeyPath
    BY <1>1, <2>1, Zenon DEF IsLine, KeyPath, KeyName
  <2>3. f[1] = PathIn(t, k) \o q /\ f[2] = t[k].flow[q]
    BY <2>1
  <2>4. PathIn(t, k) \o q \in KeyPath /\ IsPrefix(PathIn(t, k), PathIn(t, k) \o q)
    <3> DEFINE x == PathIn(t, k)
    <3> HIDE DEF x
    <3>1. x \in KeyPath
      BY <1>1 DEF x
    <3>2. /\ x \o q \in KeyPath /\ Len(x \o q) = Len(x) + Len(q) /\ Len(x) \in Nat /\ Len(q) \in Nat
          /\ \A i \in 1..Len(x) + Len(q) : (x \o q)[i] = IF i <= Len(x) THEN x[i] ELSE q[i - Len(x)]
      BY <2>2, <3>1, ConcatProperties, LenProperties DEF KeyPath
    <3>3. Len(x) <= Len(x \o q) /\ \A i \in 1..Len(x) : x[i] = (x \o q)[i]
      BY <3>2
    <3>4. IsPrefix(x, x \o q)
      BY <3>1, <3>2, <3>3, PrefixIs
    <3> QED BY <3>2, <3>4 DEF x
  <2> QED BY <2>1, <2>2, <2>3, <2>4
<1> QED BY <1>2, <1>3 DEF FactOf

LEMMA KeptFacts ==
  ASSUME NEW t, NEW u, NEW p, NEW n, NEW a, NEW e, NEW d, NEW L, NEW ks, Edit(t, u, p, n, a, e, d, L, ks),
         Len(ks) >= 1 \/ StillNest(t, a, e), NoKeep(t), NEW f
  PROVE  f \in Decode(u) <=> \/ \E k : Kept(t, a, e, k) /\ FactOf(t, k, f)
                             \/ \E i \in 1..Len(ks) : FactOf(u, a - 1 + i, f)
<1>1. Spliced(t, u, n, a, e, d, L, ks)
  BY DEF Edit
<1>2. \A k : Kept(t, a, e, k) => (FactOf(u, At(a, d, k), f) <=> FactOf(t, k, f))
  <2> SUFFICES ASSUME NEW k, Kept(t, a, e, k) PROVE FactOf(u, At(a, d, k), f) <=> FactOf(t, k, f)
    OBVIOUS
  <2>1. ReadAs(u, At(a, d, k)) = ReadAs(t, k)
    BY KeptReads
  <2>2. u[At(a, d, k)] = t[k] /\ PathIn(u, At(a, d, k)) = PathIn(t, k)
    BY <1>1, KeptIs
  <2> QED BY <2>1, <2>2, Zenon DEF FactOf
<1>3. \A k : Kept(t, a, e, k) => At(a, d, k) \in LiveKeys(u)
  BY <1>1, KeptIs
<1>4. \A i \in 1..Len(ks) : a - 1 + i \in LiveKeys(u)
  BY <1>1, ParentsNew
<1>5. \A j \in LiveKeys(u) : \/ \E k : Kept(t, a, e, k) /\ j = At(a, d, k)
                             \/ \E i \in 1..Len(ks) : j = a - 1 + i
  BY <1>1, KeysAre
<1>6. f \in Decode(u) <=> \E j \in LiveKeys(u) : FactOf(u, j, f)
  BY DecodeIs
<1> QED BY <1>2, <1>3, <1>4, <1>5, <1>6, Zenon

(* What is not there is below {...} at most.                                *)
LEMMA NotThere ==
  ASSUME NEW t, Lines(t), WellFormed(t), NEW p \in KeyPath, p # <<>>, Rest(t, p) # <<>>
  PROVE  /\ \A k \in LiveKeys(t) : ~ IsPrefix(p, PathIn(t, k))
         /\ \A k \in LiveKeys(t) : \A f : FactOf(t, k, f) /\ IsPrefix(p, f[1]) =>
              k = FoundIn(t, p) /\ t[k].form = "flow"
<1>1. PathsDiffer(t) /\ \A k \in LiveKeys(t) : PathIn(t, k) \in KeyPath /\ k # 0
  BY WellFormedIs, PathIs, LinesAre DEF PathAsSaid
<1>2. ASSUME NEW k \in LiveKeys(t), IsPrefix(p, PathIn(t, k)) PROVE FALSE
  <2>1. PICK m \in LiveKeys(t) : PathIn(t, m) = p
    BY <1>2, AboveIsThere
  <2> DEFINE g == FoundIn(t, p)
  <2>2. g # 0 /\ g \in LiveKeys(t) /\ IsPrefix(PathIn(t, g), p) /\ IsPrefix(p, PathIn(t, g))
    <3>1. IsPrefix(PathIn(t, m), p)
      BY <2>1, PrefixOrder
    <3> QED BY <1>1, <2>1, <3>1, FoundIs
  <2> HIDE DEF g
  <2>3. PathIn(t, g) \in KeyPath
    BY <1>1, <2>2
  <2>4. Len(PathIn(t, g)) <= Len(p) /\ Len(p) <= Len(PathIn(t, g)) /\ Len(p) \in Nat /\ Len(PathIn(t, g)) \in Nat
    BY <2>2, <2>3, PrefixIs
  <2>5. Reached(t, p) = Len(p)
    BY <2>2, <2>4 DEF Reached, g
  <2>6. Len(Rest(t, p)) = Len(p) - Reached(t, p) /\ (Rest(t, p) = <<>> <=> Len(Rest(t, p)) = 0)
    BY <1>1, RestIs
  <2> QED BY <2>4, <2>5, <2>6
<1>3. ASSUME NEW k \in LiveKeys(t), NEW f, FactOf(t, k, f), IsPrefix(p, f[1])
      PROVE  k = FoundIn(t, p) /\ t[k].form = "flow"
  <2>1. f[1] \in KeyPath /\ IsPrefix(PathIn(t, k), f[1]) /\ (f[1] = PathIn(t, k) \/ t[k].form = "flow")
    BY <1>3, FactIs
  <2>2. t[k].form = "flow"
    BY <1>2, <1>3, <2>1
  <2>3. IsPrefix(PathIn(t, k), p)
    <3>1. IsPrefix(p, PathIn(t, k)) \/ IsStrictPrefix(PathIn(t, k), p)
      BY <1>1, <1>3, <2>1, OnOnePath
    <3> QED BY <1>2, <3>1 DEF IsStrictPrefix
  <2> DEFINE g == FoundIn(t, p)
  <2>4. g # 0 /\ g \in LiveKeys(t) /\ IsPrefix(PathIn(t, k), PathIn(t, g))
    BY <1>1, <2>3, FoundIs
  <2> HIDE DEF g
  <2>5. k = g \/ Under(t, k, g)
    BY <1>1, <2>4, BelowIsUnder
  <2>6. ~ Under(t, k, g)
    BY <2>2, <2>4, NestsIs
  <2> QED BY <2>2, <2>5, <2>6 DEF g
<1> QED BY <1>2, <1>3
(* What Apply adds above and at the path.                                    *)
Blocks(p) == {SubSeq(p, 1, i) : i \in 1..(Len(p) - 1)}

LEMMA BlocksAre ==
  ASSUME NEW p \in KeyPath
  PROVE  \A q : q \in Blocks(p) <=> q \in KeyPath /\ q # <<>> /\ IsStrictPrefix(q, p)
<1>1. Len(p) \in Nat
  BY LenProperties DEF KeyPath
<1>2. ASSUME NEW q \in Blocks(p)
      PROVE  q \in KeyPath /\ q # <<>> /\ IsStrictPrefix(q, p)
  <2>1. PICK i \in 1..(Len(p) - 1) : q = SubSeq(p, 1, i)
    BY DEF Blocks
  <2>2. i \in 1..Len(p) /\ i < Len(p)
    BY <1>1
  <2>3. q \in KeyPath /\ Len(q) = i /\ q # <<>> /\ IsPrefix(q, p)
    BY <2>1, <2>2, BlockPaths
  <2> QED BY <2>2, <2>3, StrictPrefixIs
<1>3. ASSUME NEW q \in KeyPath, q # <<>>, IsStrictPrefix(q, p)
      PROVE  q \in Blocks(p)
  <2> DEFINE i == Len(q)
             s == SubSeq(p, 1, i)
  <2>1. IsPrefix(q, p) /\ Len(q) < Len(p) /\ Len(q) \in Nat
    BY <1>3, StrictPrefixIs
  <2>2. Len(q) # 0
    BY <1>3, EmptySeq DEF KeyPath
  <2>3. i \in 1..Len(p) /\ i \in 1..(Len(p) - 1)
    BY <1>1, <2>1, <2>2
  <2>4. s \in KeyPath /\ Len(s) = i /\ IsPrefix(s, p)
    BY <2>3, BlockPaths
  <2> HIDE DEF s
  <2>5. IsPrefix(q, s) /\ q = s
    BY <2>1, <2>4, PrefixOrder
  <2> QED BY <2>3, <2>5 DEF Blocks, s
<1> QED BY <1>2, <1>3

LEMMA ApplyIs ==
  ASSUME NEW D, NEW e
  PROVE  /\ e.value = Nothing => Apply(D, e) = Without(D, e.path)
         /\ e.value # Nothing =>
              \A f : f \in Apply(D, e) <=> \/ f \in D /\ ~ IsPrefix(e.path, f[1])
                                           \/ \E q \in Blocks(e.path) : f = <<q, Map>>
                                           \/ f = <<e.path, e.value>>
<1> DEFINE p == e.path
           v == e.value
           blocks == {<<SubSeq(p, 1, i), Map>> : i \in 1..(Len(p) - 1)}
<1>1. e.value = Nothing => Apply(D, e) = Without(D, e.path)
  BY DEF Apply
<1>2. e.value # Nothing => Apply(D, e) = Without(D, p) \cup blocks \cup {<<p, v>>}
  BY DEF Apply
<1>3. \A f : f \in blocks <=> \E q \in Blocks(p) : f = <<q, Map>>
  BY DEF Blocks
<1>4. \A f : f \in Without(D, p) <=> f \in D /\ ~ IsPrefix(p, f[1])
  BY DEF Without
<1> HIDE DEF blocks
<1> QED BY <1>1, <1>2, <1>3, <1>4

(* Whatever holds a key reads as a block.                                    *)
LEMMA AboveReads ==
  ASSUME NEW t, Lines(t), WellFormed(t), NEW m \in LiveKeys(t), NEW q \in KeyPath, q # <<>>, IsStrictPrefix(q, PathIn(t, m))
  PROVE  \E k \in LiveKeys(t) : PathIn(t, k) = q /\ Nests(t, k) /\ FactOf(t, k, <<q, Map>>)
<1>1. PathIn(t, m) \in KeyPath
  BY PathIs DEF PathAsSaid
<1>2. IsPrefix(q, PathIn(t, m))
  BY <1>1, StrictPrefixIs
<1>3. PICK k \in LiveKeys(t) : PathIn(t, k) = q
  BY <1>2, AboveIsThere
<1>4. Nests(t, k)
  BY <1>3 DEF Nests
<1>5. t[k].form = "nest"
  BY <1>4, NestsIs
<1>6. ReadAs(t, k) = Map
  BY <1>4, <1>5, ReadAsIs
<1>7. ReadAs(t, k) # Nothing
  BY <1>6 DEF Map, Nothing
<1>8. FactOf(t, k, <<q, Map>>)
  BY <1>3, <1>6, <1>7 DEF FactOf
<1> QED BY <1>3, <1>4, <1>8
LEMMA EditedIsEdit ==
  ASSUME NEW t, Lines(t), WellFormed(t), NEW p, NEW n, NEW a, NEW L, NEW ks, Edited(t, p, n, a, L, ks)
  PROVE  LET u == After(t, n, a, L)
         IN  Lines(u) /\ Edit(t, u, p, n, a, EndIn(t, n), Shift(t, n, a, L), L, ks)
<1> DEFINE u == After(t, n, a, L)
<1>1. Spliced(t, u, n, a, EndIn(t, n), Shift(t, n, a, L), L, ks) /\ Lines(u) /\ WellFormed(u)
  BY EditedKeeps
<1>2. Leads(t, n, ks, p) /\ Fresh(t, u, a, EndIn(t, n), ks) /\ (a = n => IsPrefix(PathIn(t, n), p))
  BY DEF Edited
<1> QED BY <1>1, <1>2 DEF Edit

(* A value that is set: no key that is kept tells of it, and every other     *)
(* tells of nothing else.                                                    *)
LEMMA SetKept ==
  ASSUME NEW t, Lines(t), WellFormed(t), NEW p \in KeyPath, p # <<>>, NEW v, NEW r, NEW n, NEW a, NEW ks, NEW note,
         SetAs(t, p, v, r, n, a, ks, note), n \in LiveKeys(t)
  PROVE  \A k, f : Kept(t, a, EndIn(t, n), k) /\ FactOf(t, k, f) => ~ IsPrefix(p, f[1])
<1> DEFINE L == Rendered(t[n].ind, ks, v, note)
           u == After(t, n, a, L)
           e == EndIn(t, n)
           d == Shift(t, n, a, L)
<1>1. Edited(t, p, n, a, L, ks)
  BY DEF SetAs
<1>2. Spliced(t, u, n, a, e, d, L, ks)
  BY <1>1, EditedKeeps
<1> HIDE DEF L, u, e, d
<1> SUFFICES ASSUME NEW k, NEW f, Kept(t, a, e, k), FactOf(t, k, f), IsPrefix(p, f[1]) PROVE FALSE
  BY DEF e
<1>3. k \in LiveKeys(t)
  BY DEF Kept
<1>4. CASE Rest(t, p) # <<>>
  <2>1. k = FoundIn(t, p) /\ t[k].form = "flow"
    BY <1>3, <1>4, NotThere
  <2>2. k # 0 /\ OutOfFlow(t, p)
    BY <1>3, <1>4, LinesAre DEF SetAs
  <2> QED BY <2>1, <2>2 DEF OutOfFlow
<1>5. CASE Rest(t, p) = <<>>
  <2>1. a = n /\ PathIn(t, n) = p
    BY <1>5 DEF SetAs
  <2>2. f[1] \in KeyPath /\ IsPrefix(PathIn(t, k), f[1]) /\ (f[1] = PathIn(t, k) \/ t[k].form = "flow")
    BY <1>3, FactIs
  <2>3. PathIn(t, k) \in KeyPath /\ PathsDiffer(t)
    BY <1>3, PathIs, WellFormedIs DEF PathAsSaid
  <2>4. CASE IsPrefix(p, PathIn(t, k))
    <3>1. n = k \/ Under(t, n, k)
      BY <1>3, <2>1, <2>3, <2>4, BelowIsUnder
    <3> QED BY <1>2, <1>3, <2>1, <3>1, LostIs
  <2>5. CASE ~ IsPrefix(p, PathIn(t, k))
    <3>1. IsStrictPrefix(PathIn(t, k), p)
      BY <2>2, <2>3, <2>5, OnOnePath
    <3>2. t[k].form = "flow"
      BY <2>2, <2>5
    <3>3. Nests(t, k)
      BY <2>1, <3>1 DEF Nests
    <3>4. t[k].form = "nest"
      BY <1>3, <3>3, NestsIs
    <3> QED BY <3>2, <3>4
  <2> QED BY <2>4, <2>5
<1> QED BY <1>4, <1>5

LEMMA SetLost ==
  ASSUME NEW t, Lines(t), WellFormed(t), NEW p \in KeyPath, p # <<>>, NEW v, NEW r, NEW n, NEW a, NEW ks, NEW note,
         SetAs(t, p, v, r, n, a, ks, note), n \in LiveKeys(t)
  PROVE  \A k \in LiveKeys(t) : \A f : ~ Kept(t, a, EndIn(t, n), k) /\ FactOf(t, k, f) => IsPrefix(p, f[1])
<1> DEFINE L == Rendered(t[n].ind, ks, v, note)
           u == After(t, n, a, L)
           e == EndIn(t, n)
           d == Shift(t, n, a, L)
<1>1. Edited(t, p, n, a, L, ks)
  BY DEF SetAs
<1>2. Spliced(t, u, n, a, e, d, L, ks)
  BY <1>1, EditedKeeps
<1> HIDE DEF L, u, e, d
<1> SUFFICES ASSUME NEW k \in LiveKeys(t), NEW f, ~ Kept(t, a, e, k), FactOf(t, k, f) PROVE IsPrefix(p, f[1])
  BY DEF e
<1>3. a = n /\ (k = n \/ Under(t, n, k))
  BY <1>2, LostIs
<1>4. CASE PathIn(t, n) = p
  <2>1. IsPrefix(p, PathIn(t, k))
    <3>1. PathsDiffer(t)
      BY WellFormedIs
    <3> QED BY <1>3, <1>4, <3>1, BelowIsUnder
  <2>2. PathIn(t, k) \in KeyPath /\ f[1] \in KeyPath /\ IsPrefix(PathIn(t, k), f[1])
    BY FactIs, PathIs DEF PathAsSaid
  <2> QED BY <2>1, <2>2, PrefixOrder
<1>5. CASE PathIn(t, n) # p
  <2>1. t[n].form = "nest" /\ ReadAs(t, n) = Nothing
    BY <1>3, <1>5 DEF SetAs, ReadAs
  <2>2. ~ Nests(t, n)
    <3>1. Map # Nothing
      BY DEF Map, Nothing
    <3>2. Nests(t, n) => ReadAs(t, n) = Map
      BY <2>1, ReadAsIs
    <3> QED BY <2>1, <3>1, <3>2
  <2>3. k = n
    BY <1>3, <2>2, NestsIs
  <2>4. IsLine(t[n])
    BY LinesAre
  <2>5. PICK q \in DOMAIN t[n].flow : TRUE
    BY <2>1, <2>3, Zenon DEF FactOf
  <2>6. t[n].form = "flow"
    BY <2>4, <2>5, Zenon DEF IsLine
  <2> QED BY <2>1, <2>6
<1> QED BY <1>4, <1>5
(* What the new lines tell: the blocks of the path, and the value there.     *)
NewKeys(t, u, p, v, n, a, e, d, L, ks, note) ==
  /\ Edit(t, u, p, n, a, e, d, L, ks) /\ Lines(u) /\ p # <<>> /\ v \in KeyPath /\ v # Nothing
  /\ ks \in KeyPath /\ ks # <<>> /\ Len(ks) = Len(p) - Len(Base(t, n))
  /\ RenderedAs(L, t[n].ind, ks, v, note)

LEMMA NewKeysAre ==
  ASSUME NEW t, NEW u, NEW p, NEW v, NEW n, NEW a, NEW e, NEW d, NEW L, NEW ks, NEW note,
         NewKeys(t, u, p, v, n, a, e, d, L, ks, note)
  PROVE  /\ p \in KeyPath /\ Len(p) \in Nat /\ Len(ks) \in Nat /\ Len(ks) >= 1 /\ Len(Base(t, n)) \in Nat
         /\ \A i \in 1..Len(ks) :
              /\ a - 1 + i \in LiveKeys(u) /\ u[a - 1 + i] = L[i]
              /\ OnPath(PathIn(u, a - 1 + i), p, Len(Base(t, n)) + i)
              /\ u[a - 1 + i].flow = NoFlow
         /\ PathIn(u, a - 1 + Len(ks)) = p
<1>1. Spliced(t, u, n, a, e, d, L, ks) /\ Leads(t, n, ks, p)
  BY DEF NewKeys, Edit
<1>2. n \in LiveKeys(t) /\ Lines(t)
  BY <1>1 DEF Spliced
<1>3. Len(Base(t, n)) \in Nat
  BY <1>2, BaseIs
<1>4. p \in KeyPath /\ Len(p) \in Nat
  BY <1>1, LenProperties DEF Leads, KeyPath
<1>5. ks \in KeyPath /\ Len(ks) \in Nat /\ Len(ks) # 0
  BY EmptySeq, LenProperties DEF NewKeys, KeyPath
<1>6. Len(ks) >= 1 /\ Len(ks) \in 1..Len(ks)
  BY <1>5
<1>7. Len(ks) <= Len(L) /\ Len(L) \in Nat
  BY <1>1, SplicedNumbers
<1>8. \A i \in 1..Len(ks) : /\ a - 1 + i \in LiveKeys(u)
                            /\ OnPath(PathIn(u, a - 1 + i), p, Len(Base(t, n)) + i)
  BY <1>1, PathsNew
<1>9. \A i \in 1..Len(ks) : u[a - 1 + i] = L[i]
  <2>1. \A i \in 1..Len(ks) : i \in 1..Len(L)
    BY <1>5, <1>7
  <2> QED BY <1>1, <2>1, LinesAfter
<1>10. \A i \in 1..Len(ks) : L[i].flow = NoFlow
  <2> SUFFICES ASSUME NEW i \in 1..Len(ks) PROVE L[i].flow = NoFlow
    OBVIOUS
  <2> DEFINE ind == t[n].ind
  <2>1. L[i] = NewKey(ind, ks, "nest", <<>>, note, i) \/ L[i] = NewKey(ind, ks, "plain", v, note, i)
    BY DEF NewKeys, RenderedAs
  <2> QED BY <2>1, NewKeyIs
<1>11. PathIn(u, a - 1 + Len(ks)) = p
  <2>1. OnPath(PathIn(u, a - 1 + Len(ks)), p, Len(p))
    <3>1. Len(Base(t, n)) + Len(ks) = Len(p)
      BY <1>3, <1>4, <1>5 DEF NewKeys
    <3> QED BY <1>6, <1>8, <3>1
  <2> QED BY <1>4, <2>1, PrefixOrder DEF OnPath
<1> QED BY <1>3, <1>4, <1>5, <1>6, <1>8, <1>9, <1>10, <1>11

(* Nothing is below the last of the new keys.                                *)
LEMMA NewKeysAlone ==
  ASSUME NEW t, NEW u, NEW p, NEW v, NEW n, NEW a, NEW e, NEW d, NEW L, NEW ks, NEW note,
         NewKeys(t, u, p, v, n, a, e, d, L, ks, note)
  PROVE  ~ Nests(u, a - 1 + Len(ks))
<1> DEFINE j == a - 1 + Len(ks)
<1>1. Spliced(t, u, n, a, e, d, L, ks) /\ WellFormed(u) /\ Lines(u) /\ Fresh(t, u, a, e, ks)
  BY DEF NewKeys, Edit
<1>2. Len(ks) \in Nat /\ Len(ks) >= 1 /\ PathIn(u, j) = p /\ p \in KeyPath
  BY NewKeysAre
<1>3. \A k \in LiveKeys(t) : Kept(t, a, e, k) => ~ IsStrictPrefix(p, PathIn(t, k))
  <2> SUFFICES ASSUME NEW k \in LiveKeys(t), Kept(t, a, e, k), IsStrictPrefix(p, PathIn(t, k)) PROVE FALSE
    OBVIOUS
  <2>1. 1 \in 1..Len(ks) /\ a - 1 + 1 = a
    BY <1>1, <1>2, SplicedNumbers
  <2>2. PathIn(u, a) \in KeyPath /\ IsPrefix(PathIn(u, a), p)
    <3>1. OnPath(PathIn(u, a - 1 + 1), p, Len(Base(t, n)) + 1)
      BY <2>1, NewKeysAre
    <3> QED BY <2>1, <3>1 DEF OnPath
  <2>3. ~ IsPrefix(PathIn(u, a), PathIn(t, k))
    BY <1>1, <1>2 DEF Fresh, Kept
  <2>4. PathIn(t, k) \in KeyPath /\ IsPrefix(p, PathIn(t, k))
    <3>1. PathIn(t, k) \in KeyPath
      BY <1>1, PathIs DEF PathAsSaid, Spliced
    <3> QED BY <1>2, <3>1, StrictPrefixIs
  <2> QED BY <1>2, <2>2, <2>3, <2>4, PrefixOrder
<1>4. \A i \in 1..Len(ks) : ~ IsStrictPrefix(p, PathIn(u, a - 1 + i))
  <2> SUFFICES ASSUME NEW i \in 1..Len(ks), IsStrictPrefix(p, PathIn(u, a - 1 + i)) PROVE FALSE
    OBVIOUS
  <2>1. PathIn(u, a - 1 + i) \in KeyPath /\ IsPrefix(PathIn(u, a - 1 + i), p)
    BY NewKeysAre DEF OnPath
  <2>2. Len(PathIn(u, a - 1 + i)) <= Len(p) /\ Len(p) < Len(PathIn(u, a - 1 + i)) /\ Len(p) \in Nat /\ Len(PathIn(u, a - 1 + i)) \in Nat
    BY <1>2, <2>1, PrefixIs, StrictPrefixIs
  <2> QED BY <2>2
<1>5. ~ Nests(u, j)
  <2> SUFFICES ASSUME NEW m \in LiveKeys(u), IsStrictPrefix(p, PathIn(u, m)) PROVE FALSE
    BY <1>2 DEF Nests
  <2>1. (\E k : Kept(t, a, e, k) /\ m = At(a, d, k)) \/ (\E i \in 1..Len(ks) : m = a - 1 + i)
    BY <1>1, KeysAre
  <2>2. CASE \E k : Kept(t, a, e, k) /\ m = At(a, d, k)
    <3>1. PICK k : Kept(t, a, e, k) /\ m = At(a, d, k)
      BY <2>2
    <3>2. k \in LiveKeys(t) /\ PathIn(u, m) = PathIn(t, k)
      BY <1>1, <3>1, KeptIs
    <3> QED BY <1>3, <3>1, <3>2
  <2> QED BY <1>4, <2>1, <2>2
<1> QED BY <1>5

LEMMA LastNewReads ==
  ASSUME NEW t, NEW u, NEW p, NEW v, NEW n, NEW a, NEW e, NEW d, NEW L, NEW ks, NEW note,
         NewKeys(t, u, p, v, n, a, e, d, L, ks, note)
  PROVE  ReadAs(u, a - 1 + Len(ks)) = v
<1> DEFINE l == Len(ks)
           j == a - 1 + l
           ind == t[n].ind
           items == ItemsOfValue(v)
<1>1. Spliced(t, u, n, a, e, d, L, ks) /\ WellFormed(u) /\ Lines(u) /\ Fresh(t, u, a, e, ks)
  BY DEF NewKeys, Edit
<1>2. l \in Nat /\ l >= 1 /\ l \in 1..Len(ks) /\ j \in LiveKeys(u) /\ u[j] = L[l] /\ PathIn(u, j) = p /\ p \in KeyPath
  BY NewKeysAre
<1>3. items \in KeyPath /\ Len(items) \in Nat /\ (items = <<>> <=> Len(items) = 0)
  BY ItemsOfValueAre DEF NewKeys, Nothing
<1>4. L[l] = IF Nested(ks, v, l) THEN NewKey(ind, ks, "nest", <<>>, note, l) ELSE NewKey(ind, ks, "plain", v, note, l)
  BY <1>2 DEF NewKeys, RenderedAs
<1>5. Nested(ks, v, l) <=> items # <<>>
  BY <1>2 DEF Nested
<1>6. CASE items = <<>>
  <2>1. L[l] = NewKey(ind, ks, "plain", v, note, l)
    BY <1>4, <1>5, <1>6
  <2>2. u[j].form = "plain" /\ u[j].val = v
    BY <1>2, <2>1, NewKeyIs
  <2> HIDE DEF j
  <2>3. ReadAs(u, j) = v
    BY <1>1, <1>2, <2>2, ReadAsIs
  <2> QED BY <2>3 DEF j
<1>7. CASE items # <<>>
  <2>1. L[l] = NewKey(ind, ks, "nest", <<>>, note, l)
    BY <1>4, <1>5, <1>7
  <2>2. u[j].form = "nest"
    BY <1>2, <2>1, NewKeyIs
  <2>5. ~ Nests(u, j)
    BY NewKeysAlone
  <2>6. \A x : x \in ItemsIn(u, j) <=> x \in a + l..e + d
    BY <1>1, <1>2, ItemsOfKeysAfter
  <2>7. Len(L) = l + Len(items) /\ a - 1 + Len(L) = e + d /\ a \in Nat /\ a >= 1 /\ Len(u) \in Nat /\ e + d <= Len(u) /\ e + d \in Int
    <3>1. Len(L) = l + Len(items)
      BY DEF NewKeys, RenderedAs
    <3>2. a - 1 + Len(L) = e + d /\ a \in Nat /\ a >= 1 /\ Len(u) \in Nat /\ e + d <= Len(u) /\ e + d \in Int
      BY <1>1, SplicedNumbers
    <3> QED BY <3>1, <3>2
  <2>8. j \in Nat /\ j + Len(items) <= Len(u) /\ j + 1 = a + l /\ j + Len(items) = e + d
    BY <1>2, <1>3, <2>7
  <2>9. ItemsIn(u, j) = j + 1..j + Len(items)
    BY <2>6, <2>8
  <2>10. \A i \in 1..Len(items) : u[j + i].val[1] = items[i]
    <3> SUFFICES ASSUME NEW i \in 1..Len(items) PROVE u[j + i].val[1] = items[i]
      OBVIOUS
    <3>1. l + i \in 1..Len(L) /\ a - 1 + (l + i) = j + i
      BY <1>2, <1>3, <2>7
    <3>2. u[j + i] = L[l + i]
      <4>1. u[a - 1 + (l + i)] = L[l + i]
        BY <1>1, <3>1, LinesAfter
      <4> QED BY <3>1, <4>1
    <3>3. L[l + i] = Item(ind + l, items[i])
      BY DEF NewKeys, RenderedAs
    <3>4. u[j + i].val = <<items[i]>>
      BY <3>2, <3>3, ItemIs
    <3> QED BY <3>4
  <2> HIDE DEF j, items
  <2>11. ItemValues(u, ItemsIn(u, j)) = items
    BY <1>1, <1>3, <2>8, <2>9, <2>10, ItemValuesNew
  <2>12. ItemsIn(u, j) # {}
    <3>1. j + 1 \in j + 1..j + Len(items)
      BY <1>3, <1>7, <2>8
    <3> QED BY <2>9, <3>1
  <2>13. ReadAs(u, j) = <<"list">> \o items
    BY <1>1, <1>2, <2>2, <2>5, <2>11, <2>12, ReadAsIs
  <2>14. v = <<"list">> \o items
    <3>1. v[1] = "list" /\ items = Tail(v) /\ v \in KeyPath /\ v # <<>>
      BY <1>7 DEF items, ItemsOfValue, NewKeys, Nothing
    <3>2. /\ IsSeq(items) /\ Len(v) \in Nat /\ Len(v) >= 1 /\ Len(items) = Len(v) - 1
          /\ \A i \in 1..Len(items) : items[i] = v[i + 1]
      BY <3>1, TailIs DEF KeyPath
    <3>3. IsSeq(v)
      BY <3>1 DEF IsSeq, KeyPath
    <3> DEFINE o == <<"list">>
               w == o \o items
    <3>4. IsSeq(o) /\ Len(o) = 1 /\ o[1] = "list"
      BY OneIsSeq
    <3> HIDE DEF o
    <3>0. IsJoin(w, o, items)
      BY <3>2, <3>4, JoinedAs
    <3> HIDE DEF w
    <3>5. /\ IsSeq(w) /\ Len(w) = Len(o) + Len(items) /\ (\A i \in 1..Len(o) : w[i] = o[i])
          /\ \A i \in 1..Len(items) : w[Len(o) + i] = items[i]
      BY <3>0 DEF IsJoin
    <3>6. Len(w) = Len(v)
      BY <3>2, <3>4, <3>5
    <3>7. \A i \in 1..Len(w) : w[i] = v[i]
      <4> SUFFICES ASSUME NEW i \in 1..Len(w) PROVE w[i] = v[i]
        OBVIOUS
      <4>1. CASE i = 1
        BY <3>1, <3>4, <3>5, <4>1
      <4>2. CASE i # 1
        <5>1. i - 1 \in 1..Len(items) /\ 1 + (i - 1) = i /\ (i - 1) + 1 = i
          BY <3>2, <3>6, <4>2
        <5>2. w[1 + (i - 1)] = items[i - 1] /\ items[i - 1] = v[(i - 1) + 1]
          BY <3>2, <3>4, <3>5, <5>1
        <5> QED BY <5>1, <5>2
      <4> QED BY <4>1, <4>2
    <3>8. w = v
      BY <3>3, <3>5, <3>6, <3>7, SeqSame
    <3> QED BY <3>8 DEF w, o
  <2> QED BY <2>13, <2>14 DEF j
<1> QED BY <1>6, <1>7
LEMMA NewKeysTell ==
  ASSUME NEW t, NEW u, NEW p, NEW v, NEW n, NEW a, NEW e, NEW d, NEW L, NEW ks, NEW note,
         NewKeys(t, u, p, v, n, a, e, d, L, ks, note)
  PROVE  /\ FactOf(u, a - 1 + Len(ks), <<p, v>>)
         /\ \A i \in 1..Len(ks) : \A f : FactOf(u, a - 1 + i, f) =>
              f = <<p, v>> \/ \E q \in Blocks(p) : f = <<q, Map>>
<1> DEFINE l == Len(ks)
           b == Len(Base(t, n))
<1>1. WellFormed(u) /\ Lines(u) /\ v # Nothing
  BY DEF NewKeys, Edit
<1>2. /\ l \in Nat /\ l >= 1 /\ l \in 1..l /\ PathIn(u, a - 1 + l) = p /\ p \in KeyPath /\ Len(p) \in Nat /\ b \in Nat
      /\ b + l = Len(p) /\ a \in Nat
  <2>1. l \in Nat /\ l >= 1 /\ PathIn(u, a - 1 + l) = p /\ p \in KeyPath /\ Len(p) \in Nat /\ b \in Nat
    BY NewKeysAre
  <2>2. l = Len(p) - b
    BY DEF NewKeys
  <2>3. a \in Nat
    BY SplicedNumbers DEF NewKeys, Edit
  <2> QED BY <2>1, <2>2, <2>3
<1>3. ReadAs(u, a - 1 + l) = v
  BY LastNewReads
<1>4. FactOf(u, a - 1 + l, <<p, v>>)
  BY <1>1, <1>2, <1>3 DEF FactOf
<1>5. ASSUME NEW i \in 1..l, NEW f, FactOf(u, a - 1 + i, f)
      PROVE  f = <<p, v>> \/ \E q \in Blocks(p) : f = <<q, Map>>
  <2>1. u[a - 1 + i].flow = NoFlow /\ a - 1 + i \in LiveKeys(u) /\ OnPath(PathIn(u, a - 1 + i), p, b + i)
    BY NewKeysAre
  <2>2. f = <<PathIn(u, a - 1 + i), ReadAs(u, a - 1 + i)>>
    <3>1. \A q : q \notin DOMAIN NoFlow
      BY DEF NoFlow
    <3> QED BY <1>5, <2>1, <3>1, Zenon DEF FactOf
  <2>3. CASE i = l
    BY <1>2, <1>3, <2>2, <2>3
  <2>4. CASE i # l
    <3>1. i \in Nat /\ i + 1 \in 1..l /\ b + i < Len(p) /\ b + i < b + (i + 1)
      BY <1>2, <2>4
    <3> DEFINE q == PathIn(u, a - 1 + i)
               r == PathIn(u, a - 1 + (i + 1))
    <3>2. OnPath(r, p, b + (i + 1)) /\ a - 1 + (i + 1) \in LiveKeys(u)
      BY <3>1, NewKeysAre
    <3>3. q \in KeyPath /\ IsPrefix(q, p) /\ Len(q) = b + i /\ r \in KeyPath /\ IsPrefix(r, p) /\ Len(r) = b + (i + 1)
      BY <2>1, <3>2 DEF OnPath
    <3>4. q # <<>>
      BY <2>1, <1>1, PathIs DEF PathAsSaid
    <3> HIDE DEF q, r
    <3>5. IsStrictPrefix(q, p)
      BY <1>2, <3>1, <3>3, StrictPrefixIs
    <3>6. q \in Blocks(p)
      BY <1>2, <3>3, <3>4, <3>5, BlocksAre
    <3>7. IsStrictPrefix(q, r)
      <4>1. IsPrefix(q, r) \/ IsStrictPrefix(r, q)
        BY <1>2, <3>3, OnOnePath
      <4>2. ~ IsStrictPrefix(r, q)
        BY <3>1, <3>3, <1>2, StrictPrefixIs
      <4> QED BY <3>1, <3>3, <4>1, <4>2, StrictPrefixIs, <1>2
    <3>8. Nests(u, a - 1 + i)
      BY <3>2, <3>7 DEF Nests, q, r
    <3>9. ReadAs(u, a - 1 + i) = Map
      <4>1. u[a - 1 + i].form = "nest"
        BY <1>1, <2>1, <3>8, NestsIs
      <4> QED BY <1>1, <2>1, <3>8, <4>1, ReadAsIs
    <3> QED BY <2>2, <3>6, <3>9 DEF q
  <2> QED BY <2>3, <2>4
<1> QED BY <1>4, <1>5

LEMMA SetReads ==
  ASSUME NEW t, Lines(t), WellFormed(t), NoKeep(t), NEW p \in KeyPath, p # <<>>, NEW v \in KeyPath, v # Nothing,
         NEW r, IsSet(t, p, v, r)
  PROVE  \A f : f \in Decode(r.text) <=> \/ f \in Decode(t) /\ ~ IsPrefix(p, f[1])
                                         \/ \E q \in Blocks(p) : f = <<q, Map>>
                                         \/ f = <<p, v>>
<1>0. PICK n \in LiveKeys(t) : \E a, ks, note : SetAs(t, p, v, r, n, a, ks, note)
  BY Zenon DEF IsSet
<1>1. PICK a, ks, note : SetAs(t, p, v, r, n, a, ks, note)
  BY <1>0
<1> DEFINE L == Rendered(t[n].ind, ks, v, note)
           u == After(t, n, a, L)
           e == EndIn(t, n)
           d == Shift(t, n, a, L)
           l == Len(ks)
<1>2. r.text = u /\ Edited(t, p, n, a, L, ks) /\ ks \in KeyPath /\ ks # <<>> /\ l = Len(p) - Len(Base(t, n))
  BY <1>1 DEF SetAs
<1>3. Edit(t, u, p, n, a, e, d, L, ks) /\ Lines(u)
  BY <1>2, EditedIsEdit
<1>4. l >= 1
  BY <1>2, EmptySeq, LenProperties DEF KeyPath
<1>5. RenderedAs(L, t[n].ind, ks, v, note)
  <2>1. t[n].ind \in Nat
    BY LinesAre
  <2> QED BY <1>2, <1>4, <2>1, RenderedIs DEF Nothing
<1>6. \A k, f : Kept(t, a, e, k) /\ FactOf(t, k, f) => ~ IsPrefix(p, f[1])
  BY <1>1, SetKept
<1>7. \A k \in LiveKeys(t) : \A f : ~ Kept(t, a, e, k) /\ FactOf(t, k, f) => IsPrefix(p, f[1])
  BY <1>1, SetLost
<1> HIDE DEF L, u, e, d
<1>8. NewKeys(t, u, p, v, n, a, e, d, L, ks, note)
  BY <1>2, <1>3, <1>5 DEF NewKeys
<1>9. \A f : f \in Decode(u) <=> (\E k : Kept(t, a, e, k) /\ FactOf(t, k, f)) \/ (\E i \in 1..l : FactOf(u, a - 1 + i, f))
  BY <1>3, <1>4, KeptFacts
<1>10. /\ l \in 1..l /\ a - 1 + l \in LiveKeys(u) /\ PathIn(u, a - 1 + l) = p
       /\ FactOf(u, a - 1 + l, <<p, v>>)
       /\ \A i \in 1..l : \A f : FactOf(u, a - 1 + i, f) => f = <<p, v>> \/ \E q \in Blocks(p) : f = <<q, Map>>
  <2>1. l \in Nat /\ l \in 1..l
    BY <1>4, <1>8, NewKeysAre
  <2> QED BY <1>8, <2>1, NewKeysAre, NewKeysTell
<1>11. \A q \in Blocks(p) : <<q, Map>> \in Decode(u)
  <2> SUFFICES ASSUME NEW q \in Blocks(p) PROVE <<q, Map>> \in Decode(u)
    OBVIOUS
  <2>1. q \in KeyPath /\ q # <<>> /\ IsStrictPrefix(q, p)
    BY BlocksAre
  <2>2. WellFormed(u) /\ Lines(u)
    BY <1>3 DEF Edit
  <2>3. \E k \in LiveKeys(u) : FactOf(u, k, <<q, Map>>)
    BY <1>10, <2>1, <2>2, AboveReads
  <2> QED BY <2>3, DecodeIs
<1>12. <<p, v>> \in Decode(u)
  BY <1>10, DecodeIs
<1> SUFFICES ASSUME NEW f
             PROVE  f \in Decode(u) <=> \/ f \in Decode(t) /\ ~ IsPrefix(p, f[1])
                                        \/ \E q \in Blocks(p) : f = <<q, Map>>
                                        \/ f = <<p, v>>
  BY <1>2
<1>13. \A k : Kept(t, a, e, k) => k \in LiveKeys(t)
  BY DEF Kept
<1>14. f \in Decode(t) <=> \E k \in LiveKeys(t) : FactOf(t, k, f)
  BY DecodeIs
<1>15. ASSUME f \in Decode(u) PROVE (f \in Decode(t) /\ ~ IsPrefix(p, f[1])) \/ (\E q \in Blocks(p) : f = <<q, Map>>) \/ f = <<p, v>>
  BY <1>6, <1>9, <1>10, <1>13, <1>14, <1>15, Zenon
<1>16. ASSUME f \in Decode(t), ~ IsPrefix(p, f[1]) PROVE f \in Decode(u)
  BY <1>7, <1>9, <1>14, <1>16, Zenon
<1> QED BY <1>11, <1>12, <1>15, <1>16, Zenon
(* Below a path: the paths within {...} and those of the document.           *)
LEMMA JoinPrefix ==
  ASSUME NEW x \in KeyPath, NEW b \in KeyPath, NEW q \in KeyPath
  PROVE  /\ x \o b \in KeyPath /\ IsPrefix(x, x \o b) /\ Len(x) \in Nat /\ Len(b) \in Nat /\ Len(x \o b) = Len(x) + Len(b)
         /\ IsPrefix(x \o b, x \o q) <=> IsPrefix(b, q)
<1> DEFINE y == x \o b
           z == x \o q
<1>1. IsSeq(x) /\ IsSeq(b) /\ IsSeq(q)
  BY DEF IsSeq, KeyPath
<1>2. y \in KeyPath /\ z \in KeyPath
  BY ConcatProperties DEF KeyPath
<1>3. IsJoin(y, x, b) /\ IsJoin(z, x, q)
  BY <1>1, JoinedAs
<1> HIDE DEF y, z
<1>4. /\ Len(x) \in Nat /\ Len(b) \in Nat /\ Len(q) \in Nat /\ Len(y) = Len(x) + Len(b) /\ Len(z) = Len(x) + Len(q)
      /\ (\A i \in 1..Len(x) : y[i] = x[i] /\ z[i] = x[i])
      /\ (\A i \in 1..Len(b) : y[Len(x) + i] = b[i]) /\ (\A i \in 1..Len(q) : z[Len(x) + i] = q[i])
  BY <1>3 DEF IsJoin
<1>5. IsPrefix(x, y)
  <2>1. Len(x) <= Len(y) /\ \A i \in 1..Len(x) : x[i] = y[i]
    BY <1>4
  <2> QED BY <1>2, <2>1, PrefixIs
<1>6. IsPrefix(y, z) => IsPrefix(b, q)
  <2> SUFFICES ASSUME IsPrefix(y, z) PROVE IsPrefix(b, q)
    OBVIOUS
  <2>1. Len(y) <= Len(z) /\ \A i \in 1..Len(y) : y[i] = z[i]
    BY <1>2, PrefixIs
  <2>2. Len(b) <= Len(q)
    BY <1>4, <2>1
  <2>3. \A i \in 1..Len(b) : b[i] = q[i]
    <3> SUFFICES ASSUME NEW i \in 1..Len(b) PROVE b[i] = q[i]
      OBVIOUS
    <3>1. Len(x) + i \in 1..Len(y) /\ i \in 1..Len(q)
      BY <1>4, <2>2
    <3>2. y[Len(x) + i] = z[Len(x) + i]
      BY <2>1, <3>1
    <3> QED BY <1>4, <3>1, <3>2
  <2> QED BY <2>2, <2>3, PrefixIs
<1>7. IsPrefix(b, q) => IsPrefix(y, z)
  <2> SUFFICES ASSUME IsPrefix(b, q) PROVE IsPrefix(y, z)
    OBVIOUS
  <2>1. Len(b) <= Len(q) /\ \A i \in 1..Len(b) : b[i] = q[i]
    BY PrefixIs
  <2>2. Len(y) <= Len(z)
    BY <1>4, <2>1
  <2>3. \A i \in 1..Len(y) : y[i] = z[i]
    <3> SUFFICES ASSUME NEW i \in 1..Len(y) PROVE y[i] = z[i]
      OBVIOUS
    <3>1. CASE i <= Len(x)
      <4>1. i \in 1..Len(x)
        BY <1>4, <3>1
      <4> QED BY <1>4, <4>1
    <3>2. CASE ~ (i <= Len(x))
      <4> DEFINE j == i - Len(x)
      <4>1. j \in 1..Len(b) /\ j \in 1..Len(q) /\ Len(x) + j = i
        BY <1>4, <2>1, <3>2
      <4> HIDE DEF j
      <4>2. y[Len(x) + j] = b[j] /\ z[Len(x) + j] = q[j] /\ b[j] = q[j]
        BY <1>4, <2>1, <4>1
      <4> QED BY <4>1, <4>2
    <3> QED BY <3>1, <3>2
  <2> QED BY <1>2, <2>2, <2>3, PrefixIs
<1> QED BY <1>2, <1>4, <1>5, <1>6, <1>7 DEF y, z

LEMMA PrefixSplit ==
  ASSUME NEW x \in KeyPath, NEW q \in KeyPath, IsPrefix(x, q)
  PROVE  /\ q = x \o SubSeq(q, Len(x) + 1, Len(q)) /\ SubSeq(q, Len(x) + 1, Len(q)) \in KeyPath
         /\ Len(SubSeq(q, Len(x) + 1, Len(q))) = Len(q) - Len(x)
<1> DEFINE s == SubSeq(q, Len(x) + 1, Len(q))
<1>1. Len(x) \in Nat /\ Len(q) \in Nat /\ Len(x) <= Len(q) /\ \A i \in 1..Len(x) : x[i] = q[i]
  BY PrefixIs
<1>2. Len(x) + 1 \in Nat /\ 1 <= Len(x) + 1 /\ Len(x) + 1 <= Len(q) + 1 /\ Len(q) - (Len(x) + 1) + 1 = Len(q) - Len(x)
  BY <1>1
<1>3. IsSeq(q) /\ IsSeq(x)
  BY DEF IsSeq, KeyPath
<1>4. IsSeq(s) /\ Len(s) = Len(q) - Len(x) /\ \A i \in 1..Len(q) - Len(x) : s[i] = q[(Len(x) + 1) + i - 1]
  <2>1. /\ IsSeq(s) /\ Len(s) = Len(q) - (Len(x) + 1) + 1
        /\ \A i \in 1..Len(q) - (Len(x) + 1) + 1 : s[i] = q[(Len(x) + 1) + i - 1]
    BY <1>1, <1>2, <1>3, Cut
  <2> QED BY <1>2, <2>1
<1>5. s \in KeyPath
  <2>1. \A i \in 1..Len(q) : q[i] \in KeyName
    BY ElementOfSeq DEF KeyPath
  <2> HIDE DEF s
  <2>2. \A i \in 1..Len(s) : s[i] \in KeyName
    <3> SUFFICES ASSUME NEW i \in 1..Len(s) PROVE s[i] \in KeyName
      OBVIOUS
    <3>1. (Len(x) + 1) + i - 1 \in 1..Len(q) /\ i \in 1..Len(q) - Len(x)
      BY <1>1, <1>4
    <3> QED BY <1>4, <2>1, <3>1
  <2>3. PICK S : s \in Seq(S)
    BY <1>4 DEF IsSeq
  <2>4. s \in [1..Len(s) -> KeyName] /\ Len(s) \in Nat
    BY <2>2, <2>3, LenProperties
  <2> QED BY <2>4, SeqDef DEF KeyPath
<1>6. IsJoin(x \o s, x, s)
  BY <1>3, <1>4, JoinedAs
<1> DEFINE w == x \o s
<1> HIDE DEF w, s
<1>7. IsSeq(w) /\ Len(w) = Len(q) /\ \A i \in 1..Len(w) : w[i] = q[i]
  <2>1. IsSeq(w) /\ Len(w) = Len(x) + Len(s) /\ (\A i \in 1..Len(x) : w[i] = x[i]) /\ (\A i \in 1..Len(s) : w[Len(x) + i] = s[i])
    BY <1>6 DEF IsJoin, w
  <2>2. Len(w) = Len(q)
    BY <1>1, <1>4, <2>1
  <2>3. ASSUME NEW i \in 1..Len(w) PROVE w[i] = q[i]
    <3>1. CASE i <= Len(x)
      <4>1. i \in 1..Len(x)
        BY <1>1, <3>1
      <4> QED BY <1>1, <2>1, <4>1
    <3>2. CASE ~ (i <= Len(x))
      <4> DEFINE j == i - Len(x)
      <4>1. j \in 1..Len(s) /\ j \in 1..Len(q) - Len(x) /\ Len(x) + j = i /\ (Len(x) + 1) + j - 1 = i
        BY <1>1, <1>4, <2>2, <3>2
      <4> HIDE DEF j
      <4>2. w[Len(x) + j] = s[j] /\ s[j] = q[(Len(x) + 1) + j - 1]
        BY <1>4, <2>1, <4>1
      <4> QED BY <4>1, <4>2
    <3> QED BY <3>1, <3>2
  <2> QED BY <2>1, <2>2, <2>3
<1>8. w = q
  BY <1>3, <1>7, SeqSame
<1> QED BY <1>4, <1>5, <1>8 DEF w, s

LEMMA SetInFlowIs ==
  ASSUME NEW F, NEW b, NEW v
  PROVE  LET N == SetInFlow(F, b, v)
             stays(q) == q \in DOMAIN F /\ ~ IsPrefix(b, q)
         IN  /\ v = Nothing => \A q : /\ q \in DOMAIN N <=> stays(q)
                                      /\ q \in DOMAIN N => N[q] = F[q]
             /\ v # Nothing => \A q : /\ q \in DOMAIN N <=> stays(q) \/ q \in Blocks(b) \/ q = b
                                      /\ q \in DOMAIN N => N[q] = IF q = b THEN v ELSE IF q \in Blocks(b) THEN Map ELSE F[q]
<1> DEFINE N == SetInFlow(F, b, v)
           kept == {q \in DOMAIN F : ~ IsPrefix(b, q)}
<1>1. v = Nothing => N = [q \in kept |-> F[q]]
  BY DEF SetInFlow
<1>2. v # Nothing => N = [q \in kept \cup Blocks(b) \cup {b} |-> IF q = b THEN v ELSE IF q \in Blocks(b) THEN Map ELSE F[q]]
  BY DEF SetInFlow, Blocks
<1>3. \A q : q \in kept <=> q \in DOMAIN F /\ ~ IsPrefix(b, q)
  OBVIOUS
<1> HIDE DEF N, kept
<1>4. v = Nothing => \A q : (q \in DOMAIN N <=> q \in kept) /\ (q \in DOMAIN N => N[q] = F[q])
  BY <1>1
<1>5. v # Nothing => \A q : /\ q \in DOMAIN N <=> q \in kept \/ q \in Blocks(b) \/ q = b
                            /\ q \in DOMAIN N => N[q] = IF q = b THEN v ELSE IF q \in Blocks(b) THEN Map ELSE F[q]
  BY <1>2
<1> QED BY <1>3, <1>4, <1>5 DEF N
(* The line of a {...} value tells of the block and of what is in it.        *)
FlowFact(x, F, f) ==
  \/ f = <<x, Map>>
  \/ \E q \in DOMAIN F : F[q] # Nothing /\ f = <<x \o q, F[q]>>

LEMMA FlowFactIs ==
  ASSUME NEW t, Lines(t), WellFormed(t), NEW n \in LiveKeys(t), t[n].form = "flow"
  PROVE  \A f : FactOf(t, n, f) <=> FlowFact(PathIn(t, n), t[n].flow, f)
<1>1. ReadAs(t, n) = Map
  BY ReadAsIs
<1>2. ReadAs(t, n) # Nothing
  BY <1>1 DEF Map, Nothing
<1> QED BY <1>1, <1>2, Zenon DEF FactOf, FlowFact

(* What is set or removed within {...}, x the path of its line.              *)
FlowSet(x, b, p, F, v, N) ==
  /\ x \in KeyPath /\ b \in KeyPath /\ b # <<>> /\ p = x \o b
  /\ \A q \in DOMAIN F : q \in KeyPath
  /\ \A q \in Blocks(b) : q \in DOMAIN F => F[q] \in {Map, Nothing}
  /\ N = SetInFlow(F, b, v)

LEMMA FlowFactsSet ==
  ASSUME NEW x, NEW b, NEW p, NEW F, NEW v, NEW N, FlowSet(x, b, p, F, v, N)
  PROVE  /\ \A f : FlowFact(x, F, f) /\ ~ IsPrefix(p, f[1]) => FlowFact(x, N, f)
         /\ \A f : FlowFact(x, N, f) => \/ FlowFact(x, F, f) /\ ~ IsPrefix(p, f[1])
                                        \/ v # Nothing /\ f = <<p, v>>
                                        \/ v # Nothing /\ \E q \in Blocks(p) : f = <<q, Map>>
         /\ v # Nothing => FlowFact(x, N, <<p, v>>) /\ \A q \in Blocks(b) : FlowFact(x, N, <<x \o q, Map>>)
<1> DEFINE stays(q) == q \in DOMAIN F /\ ~ IsPrefix(b, q)
<1> USE DEF FlowSet
<1>1. p \in KeyPath /\ Len(x) \in Nat /\ Len(b) \in Nat /\ Len(p) = Len(x) + Len(b) /\ Len(b) # 0
  BY JoinPrefix, EmptySeq DEF KeyPath
<1>2. ~ IsPrefix(p, x)
  <2>1. ~ (Len(p) <= Len(x))
    BY <1>1
  <2> QED BY <1>1, <2>1, PrefixIs
<1>3. \A q \in KeyPath : IsPrefix(p, x \o q) <=> IsPrefix(b, q)
  BY JoinPrefix
<1>4. \A q \in Blocks(b) : q \in KeyPath /\ x \o q \in Blocks(p)
  <2> SUFFICES ASSUME NEW q \in Blocks(b) PROVE q \in KeyPath /\ x \o q \in Blocks(p)
    OBVIOUS
  <2>1. q \in KeyPath /\ IsStrictPrefix(q, b)
    BY BlocksAre
  <2>2. IsPrefix(q, b) /\ Len(q) < Len(b) /\ Len(q) \in Nat
    BY <2>1, StrictPrefixIs
  <2> DEFINE y == x \o q
  <2>3. y \in KeyPath /\ Len(y) = Len(x) + Len(q) /\ IsPrefix(y, p)
    BY <2>1, <2>2, JoinPrefix
  <2>4. q # <<>>
    BY BlocksAre
  <2>5. Len(q) # 0
    BY <2>1, <2>4, EmptySeq DEF KeyPath
  <2> HIDE DEF y
  <2>6. Len(y) < Len(p) /\ Len(y) # 0
    BY <1>1, <2>2, <2>3, <2>5
  <2>7. y # <<>>
    BY <2>3, <2>6, EmptySeq DEF KeyPath
  <2>8. y \in Blocks(p)
    BY <1>1, <2>3, <2>6, <2>7, BlocksAre, StrictPrefixIs
  <2> QED BY <2>1, <2>8 DEF y
<1>5. /\ v = Nothing => \A q : /\ q \in DOMAIN N <=> stays(q)
                               /\ q \in DOMAIN N => N[q] = F[q]
      /\ v # Nothing => \A q : /\ q \in DOMAIN N <=> stays(q) \/ q \in Blocks(b) \/ q = b
                               /\ q \in DOMAIN N => N[q] = IF q = b THEN v ELSE IF q \in Blocks(b) THEN Map ELSE F[q]
  BY SetInFlowIs
<1>6. Map # Nothing
  BY DEF Map, Nothing
<1>7. IsPrefix(b, b) /\ \A q \in Blocks(b) : q # b
  <2>1. IsPrefix(b, b)
    BY PrefixOrder
  <2>2. \A q \in Blocks(b) : q # b
    BY BlocksAre, StrictPrefixIs
  <2> QED BY <2>1, <2>2
<1>8. \A y, z : <<y, z>>[1] = y
  OBVIOUS
<1>9. ASSUME NEW f, FlowFact(x, F, f), ~ IsPrefix(p, f[1]) PROVE FlowFact(x, N, f)
  <2>1. CASE f = <<x, Map>>
    BY <2>1 DEF FlowFact
  <2>2. CASE \E q \in DOMAIN F : F[q] # Nothing /\ f = <<x \o q, F[q]>>
    <3>1. PICK q \in DOMAIN F : F[q] # Nothing /\ f = <<x \o q, F[q]>>
      BY <2>2
    <3>2. f[1] = x \o q
      BY <1>8, <3>1
    <3>3. stays(q) /\ q # b
      BY <1>3, <1>7, <1>9, <3>2
    <3>4. q \in DOMAIN N
      BY <1>5, <3>3
    <3>5. N[q] = F[q]
      <4>1. CASE v = Nothing
        BY <1>5, <3>4, <4>1
      <4>2. CASE v # Nothing
        <5>1. N[q] = IF q \in Blocks(b) THEN Map ELSE F[q]
          BY <1>5, <3>3, <3>4, <4>2
        <5>2. q \in Blocks(b) => F[q] = Map
          BY <3>1
        <5> QED BY <5>1, <5>2
      <4> QED BY <4>1, <4>2
    <3> QED BY <3>1, <3>4, <3>5, Zenon DEF FlowFact
  <2> QED BY <1>9, <2>1, <2>2 DEF FlowFact
<1>10. ASSUME NEW f, FlowFact(x, N, f)
       PROVE  \/ FlowFact(x, F, f) /\ ~ IsPrefix(p, f[1])
              \/ v # Nothing /\ f = <<p, v>>
              \/ v # Nothing /\ \E q \in Blocks(p) : f = <<q, Map>>
  <2>1. CASE f = <<x, Map>>
    BY <1>2, <1>8, <2>1 DEF FlowFact
  <2>2. CASE \E q \in DOMAIN N : N[q] # Nothing /\ f = <<x \o q, N[q]>>
    <3>1. PICK q \in DOMAIN N : N[q] # Nothing /\ f = <<x \o q, N[q]>>
      BY <2>2
    <3>2. f[1] = x \o q
      BY <1>8, <3>1
    <3>3. ASSUME stays(q), N[q] = F[q] PROVE FlowFact(x, F, f) /\ ~ IsPrefix(p, f[1])
      <4>1. FlowFact(x, F, f)
        BY <3>1, <3>3, Zenon DEF FlowFact
      <4>2. ~ IsPrefix(p, f[1])
        BY <1>3, <3>2, <3>3
      <4> QED BY <4>1, <4>2
    <3>4. CASE v = Nothing
      <4>1. stays(q) /\ N[q] = F[q]
        BY <1>5, <3>4
      <4> QED BY <3>3, <4>1
    <3>5. CASE v # Nothing
      <4>1. CASE q = b
        BY <1>5, <3>1, <3>5, <4>1
      <4>2. CASE q # b /\ q \in Blocks(b)
        BY <1>4, <1>5, <3>1, <3>5, <4>2
      <4>3. CASE q # b /\ q \notin Blocks(b)
        <5>1. stays(q) /\ N[q] = F[q]
          BY <1>5, <3>5, <4>3
        <5> QED BY <3>3, <5>1
      <4> QED BY <4>1, <4>2, <4>3
    <3> QED BY <3>4, <3>5
  <2> QED BY <1>10, <2>1, <2>2 DEF FlowFact
<1>11. ASSUME v # Nothing PROVE FlowFact(x, N, <<p, v>>) /\ \A q \in Blocks(b) : FlowFact(x, N, <<x \o q, Map>>)
  <2>1. b \in DOMAIN N /\ N[b] = v
    BY <1>5, <1>11
  <2>2. FlowFact(x, N, <<p, v>>)
    BY <1>11, <2>1 DEF FlowFact
  <2>3. \A q \in Blocks(b) : q \in DOMAIN N /\ N[q] = Map
    BY <1>5, <1>7, <1>11
  <2> QED BY <1>6, <2>2, <2>3 DEF FlowFact
<1> QED BY <1>9, <1>10, <1>11
LEMMA FlowReads ==
  ASSUME NEW t, Lines(t), WellFormed(t), NoKeep(t), NEW p \in KeyPath, p # <<>>, NEW v, NEW r, IsSetInFlow(t, p, v, r)
  PROVE  \A f : f \in Decode(r.text) <=> \/ f \in Decode(t) /\ ~ IsPrefix(p, f[1])
                                         \/ v # Nothing /\ \E q \in Blocks(p) : f = <<q, Map>>
                                         \/ v # Nothing /\ f = <<p, v>>
<1> DEFINE n == FoundIn(t, p)
           b == Rest(t, p)
           line == SetLine(t, n, b, v)
           L == <<line>>
           ks == <<t[n].key>>
           u == After(t, n, n, L)
           e == EndIn(t, n)
           d == Shift(t, n, n, L)
           x == PathIn(t, n)
           F == t[n].flow
           N == SetInFlow(F, b, v)
<1>1. n \in LiveKeys(t) /\ t[n].form = "flow" /\ r.text = u /\ Edited(t, p, n, n, L, ks) /\ NotThrough(t, n, b) /\ b # <<>>
  BY DEF IsSetInFlow
<1>2. Edit(t, u, p, n, n, e, d, L, ks) /\ Lines(u)
  BY <1>1, EditedIsEdit
<1>3. Len(L) = 1 /\ L[1] = line /\ Len(ks) = 1
  BY OneIsSeq
<1>4. line.form = "flow" /\ line.flow = N
  BY FlowLineIs DEF SetLine
<1>5. PathsDiffer(t)
  BY WellFormedIs
<1>6. n \in Nat /\ n # 0 /\ x \in KeyPath /\ IsPrefix(x, p) /\ IsLine(t[n]) /\ t[n].ind \in Nat
  <2>1. n # 0
    BY <1>1, LinesAre
  <2>2. n \in Nat /\ IsPrefix(x, p)
    BY <1>1, <1>5, <2>1, FoundIs
  <2>3. x \in KeyPath
    BY <1>1, PathIs DEF PathAsSaid
  <2>4. IsLine(t[n]) /\ t[n].ind \in Nat
    BY <1>1, LinesAre
  <2> QED BY <2>1, <2>2, <2>3, <2>4
<1>7. p = x \o b /\ b \in KeyPath
  <2>1. b = SubSeq(p, Len(x) + 1, Len(p))
    BY <1>6 DEF Rest
  <2> HIDE DEF x, b, n
  <2> QED BY <1>6, <2>1, PrefixSplit
<1>8. \A q \in DOMAIN F : q \in KeyPath
  BY <1>6, Zenon DEF IsLine, KeyPath, KeyName
<1>9. \A q \in Blocks(b) : q \in DOMAIN F => F[q] \in {Map, Nothing}
  BY <1>1, Zenon DEF NotThrough, Blocks
<1> HIDE DEF n, b, line, L, ks, u, e, d, x, F, N
<1>10. WellFormed(u) /\ Spliced(t, u, n, n, e, d, L, ks) /\ Leads(t, n, ks, p)
  BY <1>2 DEF Edit
<1>11. n \in LiveKeys(u) /\ u[n] = line /\ PathIn(u, n) = x
  <2>1. 1 \in 1..Len(ks) /\ 1 \in 1..Len(L) /\ n - 1 + 1 = n
    BY <1>3, <1>6
  <2>2. n \in LiveKeys(u) /\ OnPath(PathIn(u, n), p, Len(Base(t, n)) + 1)
    <3>1. n - 1 + 1 \in LiveKeys(u) /\ OnPath(PathIn(u, n - 1 + 1), p, Len(Base(t, n)) + 1)
      BY <1>10, <2>1, PathsNew
    <3> QED BY <2>1, <3>1
  <2>3. u[n] = line
    <3>1. u[n - 1 + 1] = L[1]
      BY <1>10, <2>1, LinesAfter
    <3> QED BY <1>3, <2>1, <3>1
  <2>4. Len(x) = Len(Base(t, n)) + 1
    BY <1>1, BaseIs DEF x
  <2>5. PathIn(u, n) \in KeyPath /\ IsPrefix(PathIn(u, n), p) /\ Len(PathIn(u, n)) = Len(x)
    BY <2>2, <2>4 DEF OnPath
  <2>6. IsPrefix(PathIn(u, n), x) /\ PathIn(u, n) = x
    <3>1. p \in KeyPath /\ Len(x) \in Nat
      BY <1>6, PrefixIs
    <3> DEFINE y == PathIn(u, n)
    <3> HIDE DEF y
    <3>2. y \in KeyPath /\ IsPrefix(y, p) /\ Len(y) = Len(x)
      BY <2>5 DEF y
    <3>3. IsPrefix(y, x)
      BY <1>6, <3>1, <3>2, PrefixOrder
    <3>4. y = x
      BY <1>6, <3>2, <3>3, PrefixOrder
    <3> QED BY <3>3, <3>4 DEF y
  <2> QED BY <2>2, <2>3, <2>6
<1>12. \A f : FactOf(u, n, f) <=> FlowFact(x, N, f)
  <2>1. u[n].form = "flow" /\ u[n].flow = N
    BY <1>4, <1>11
  <2> QED BY <1>2, <1>10, <1>11, <2>1, FlowFactIs
<1>13. \A f : FactOf(t, n, f) <=> FlowFact(x, F, f)
  BY <1>1, FlowFactIs DEF x, F
<1>14. /\ \A f : FlowFact(x, F, f) /\ ~ IsPrefix(p, f[1]) => FlowFact(x, N, f)
       /\ \A f : FlowFact(x, N, f) => \/ FlowFact(x, F, f) /\ ~ IsPrefix(p, f[1])
                                      \/ v # Nothing /\ f = <<p, v>>
                                      \/ v # Nothing /\ \E q \in Blocks(p) : f = <<q, Map>>
       /\ v # Nothing => FlowFact(x, N, <<p, v>>) /\ \A q \in Blocks(b) : FlowFact(x, N, <<x \o q, Map>>)
  <2>1. FlowSet(x, b, p, F, v, N)
    BY <1>1, <1>6, <1>7, <1>8, <1>9, Zenon DEF N, FlowSet
  <2> QED BY <2>1, FlowFactsSet
<1>15. \A k : Kept(t, n, e, k) => k \in LiveKeys(t) /\ k # n
  <2>1. ~ Kept(t, n, e, n)
    BY <1>1, <1>10, LostIs
  <2> QED BY <2>1 DEF Kept
<1>16. \A k \in LiveKeys(t) : k # n => Kept(t, n, e, k)
  <2>1. \A m \in LiveKeys(t) : ~ Under(t, n, m)
    BY <1>1, NestsIs
  <2> QED BY <1>10, <2>1, LostIs
<1>17. \A k \in LiveKeys(t) : \A f : k # n /\ FactOf(t, k, f) => ~ IsPrefix(p, f[1])
  BY <1>1, NotThere DEF n, b
<1>18. \A f : f \in Decode(u) <=> (\E k : Kept(t, n, e, k) /\ FactOf(t, k, f)) \/ FactOf(u, n, f)
  <2>1. \A f : f \in Decode(u) <=> (\E k : Kept(t, n, e, k) /\ FactOf(t, k, f)) \/ (\E i \in 1..Len(ks) : FactOf(u, n - 1 + i, f))
    <3>1. Len(ks) >= 1 \/ StillNest(t, n, e)
      BY <1>3
    <3> QED BY <1>2, <3>1, KeptFacts
  <2>2. \A i \in 1..Len(ks) : n - 1 + i = n
    BY <1>3, <1>6
  <2>3. 1 \in 1..Len(ks)
    BY <1>3
  <2>4. \A f : (\E i \in 1..Len(ks) : FactOf(u, n - 1 + i, f)) <=> FactOf(u, n, f)
    BY <2>2, <2>3
  <2> QED BY <2>1, <2>4, Zenon
<1>19. \A f : f \in Decode(t) <=> \E k \in LiveKeys(t) : FactOf(t, k, f)
  BY DecodeIs
<1>20. ASSUME v # Nothing, NEW q \in Blocks(p) PROVE <<q, Map>> \in Decode(u)
  <2>1. q \in KeyPath /\ q # <<>> /\ IsStrictPrefix(q, p) /\ IsPrefix(q, p) /\ Len(q) < Len(p) /\ Len(q) \in Nat /\ Len(p) \in Nat
    BY BlocksAre, StrictPrefixIs
  <2>2. CASE IsStrictPrefix(q, x)
    <3>1. \E k \in LiveKeys(u) : FactOf(u, k, <<q, Map>>)
      BY <1>2, <1>10, <1>11, <2>1, <2>2, AboveReads
    <3> QED BY <3>1, DecodeIs
  <2>3. CASE q = x
    <3>1. FlowFact(x, N, <<q, Map>>)
      BY <2>3 DEF FlowFact
    <3> QED BY <1>12, <1>18, <3>1
  <2>4. CASE q # x /\ ~ IsStrictPrefix(q, x)
    <3>1. IsPrefix(x, q)
      BY <1>6, <2>1, <2>4, OnOnePath
    <3> DEFINE s == SubSeq(q, Len(x) + 1, Len(q))
    <3>2. q = x \o s /\ s \in KeyPath /\ Len(s) = Len(q) - Len(x)
      BY <1>6, <2>1, <3>1, PrefixSplit
    <3> HIDE DEF s
    <3>3. Len(x) < Len(q) /\ Len(x) \in Nat
      BY <1>6, <2>1, <2>4, <3>1, PrefixOrder, PrefixIs
    <3>4. IsPrefix(s, b) /\ Len(b) \in Nat /\ Len(p) = Len(x) + Len(b)
      <4>1. IsPrefix(x \o s, x \o b) <=> IsPrefix(s, b)
        BY <1>6, <1>7, <3>2, JoinPrefix
      <4>2. Len(b) \in Nat /\ Len(x \o b) = Len(x) + Len(b)
        BY <1>6, <1>7, JoinPrefix
      <4> QED BY <1>7, <2>1, <3>2, <4>1, <4>2
    <3>5. Len(s) < Len(b) /\ Len(s) # 0
      BY <2>1, <3>2, <3>3, <3>4
    <3>6. s # <<>>
      BY <3>2, <3>5, EmptySeq DEF KeyPath
    <3>7. s \in Blocks(b)
      BY <1>7, <3>2, <3>4, <3>5, <3>6, BlocksAre, StrictPrefixIs
    <3>8. FlowFact(x, N, <<q, Map>>)
      BY <1>14, <1>20, <3>2, <3>7
    <3> QED BY <1>12, <1>18, <3>8
  <2> QED BY <2>2, <2>3, <2>4
<1>21. v # Nothing => <<p, v>> \in Decode(u)
  BY <1>12, <1>14, <1>18
<1>22. \A f : f \in Decode(t) /\ ~ IsPrefix(p, f[1]) => f \in Decode(u)
  BY <1>12, <1>13, <1>14, <1>16, <1>18, <1>19, Zenon
<1>23. \A f : f \in Decode(u) => \/ f \in Decode(t) /\ ~ IsPrefix(p, f[1])
                                 \/ v # Nothing /\ \E q \in Blocks(p) : f = <<q, Map>>
                                 \/ v # Nothing /\ f = <<p, v>>
  <2> SUFFICES ASSUME NEW f, f \in Decode(u)
               PROVE  \/ f \in Decode(t) /\ ~ IsPrefix(p, f[1])
                      \/ v # Nothing /\ \E q \in Blocks(p) : f = <<q, Map>>
                      \/ v # Nothing /\ f = <<p, v>>
    OBVIOUS
  <2>1. CASE \E k : Kept(t, n, e, k) /\ FactOf(t, k, f)
    BY <1>15, <1>17, <1>19, <2>1, Zenon
  <2>2. CASE FactOf(u, n, f)
    <3>1. FlowFact(x, N, f)
      BY <1>12, <2>2
    <3>2. CASE FlowFact(x, F, f) /\ ~ IsPrefix(p, f[1])
      BY <1>1, <1>13, <1>19, <3>2, Zenon
    <3> QED BY <1>14, <3>1, <3>2, Zenon
  <2> QED BY <1>18, <2>1, <2>2
<1> QED BY <1>1, <1>20, <1>21, <1>22, <1>23, Zenon
(* What is removed: the highest block that is left empty holds all of it.    *)
LEMMA TopIsAbove ==
  ASSUME NEW t, Lines(t), WellFormed(t), NEW n \in LiveKeys(t), NEW w \in LiveKeys(t), w = n \/ w \in EmptiedIn(t, n)
  PROVE  IsPrefix(PathIn(t, TopIn(t, n)), PathIn(t, w))
<1> DEFINE m == TopIn(t, n)
<1>1. m \in LiveKeys(t) /\ IsPrefix(PathIn(t, m), PathIn(t, n)) /\ m <= w
  BY TopIs
<1>2. PathIn(t, m) \in KeyPath /\ PathIn(t, n) \in KeyPath /\ PathIn(t, w) \in KeyPath /\ PathsDiffer(t)
  BY <1>1, PathIs, WellFormedIs DEF PathAsSaid
<1> HIDE DEF m
<1>3. IsPrefix(PathIn(t, w), PathIn(t, n))
  <2>1. w = n => IsPrefix(PathIn(t, w), PathIn(t, n))
    BY <1>2, PrefixOrder
  <2>2. w # n => IsPrefix(PathIn(t, w), PathIn(t, n))
    BY <1>2, StrictPrefixIs DEF EmptiedIn, AboveIn
  <2> QED BY <2>1, <2>2
<1>4. CASE IsStrictPrefix(PathIn(t, w), PathIn(t, m))
  <2>1. IsPrefix(PathIn(t, w), PathIn(t, m)) /\ w # m
    BY <1>2, <1>4, StrictPrefixIs DEF IsStrictPrefix
  <2>2. Under(t, w, m)
    BY <1>1, <1>2, <2>1, BelowIsUnder
  <2>3. m \in Nat /\ w \in Nat
    BY <1>1, LinesAre
  <2> QED BY <1>1, <2>2, <2>3 DEF Under
<1> QED BY <1>1, <1>2, <1>3, <1>4, OnOnePath DEF m

LEMMA RemovedNest ==
  ASSUME NEW t, Lines(t), WellFormed(t), NEW n \in LiveKeys(t), NEW m, m = TopIn(t, n), NEW e, NEW u, NEW d,
         Spliced(t, u, m, m, e, d, <<>>, <<>>)
  PROVE  StillNest(t, m, e)
<1> SUFFICES ASSUME NEW k, Kept(t, m, e, k), Nests(t, k)
             PROVE  \E y : Kept(t, m, e, y) /\ IsStrictPrefix(PathIn(t, k), PathIn(t, y))
  BY DEF StillNest
<1>1. k \in LiveKeys(t)
  BY DEF Kept
<1>2. PICK x \in LiveKeys(t) : IsStrictPrefix(PathIn(t, k), PathIn(t, x))
  BY DEF Nests
<1>3. CASE Kept(t, m, e, x)
  BY <1>2, <1>3
<1>4. CASE ~ Kept(t, m, e, x)
  <2>1. /\ m \in LiveKeys(t) /\ IsPrefix(PathIn(t, m), PathIn(t, n)) /\ PathsDiffer(t)
        /\ (\A z \in EmptiedIn(t, n) : m <= z)
        /\ \A z \in LiveKeys(t) : Under(t, m, z) => Comparable(PathIn(t, z), PathIn(t, n))
    BY TopIs, WellFormedIs
  <2>2. \A z \in LiveKeys(t) : PathIn(t, z) \in KeyPath /\ z \in Nat
    BY PathIs, LinesAre DEF PathAsSaid
  <2>3. x = m \/ Under(t, m, x)
    BY <1>2, <1>4, LostIs
  <2>4. IsPrefix(PathIn(t, m), PathIn(t, x))
    BY <2>1, <2>3, BelowIsUnder
  <2>5. IsPrefix(PathIn(t, k), PathIn(t, x))
    BY <1>1, <1>2, <2>2, StrictPrefixIs
  <2>6. ~ IsPrefix(PathIn(t, m), PathIn(t, k))
    <3> SUFFICES ASSUME IsPrefix(PathIn(t, m), PathIn(t, k)) PROVE FALSE
      OBVIOUS
    <3>1. k = m \/ Under(t, m, k)
      BY <1>1, <2>1, BelowIsUnder
    <3> QED BY <1>1, <3>1, LostIs
  <2>7. IsStrictPrefix(PathIn(t, k), PathIn(t, m)) /\ IsPrefix(PathIn(t, k), PathIn(t, m)) /\ k # m
    BY <1>1, <1>2, <2>1, <2>2, <2>4, <2>5, <2>6, OnOnePath, StrictPrefixIs, PrefixOrder
  <2>8. k < m
    <3>1. Under(t, k, m)
      BY <1>1, <2>1, <2>7, BelowIsUnder
    <3> QED BY <3>1 DEF Under
  <2>9. k \in AboveIn(t, n)
    <3>1. IsPrefix(PathIn(t, k), PathIn(t, n)) /\ Len(PathIn(t, k)) < Len(PathIn(t, n))
      <4> DEFINE q == PathIn(t, k)
                 r == PathIn(t, m)
                 s == PathIn(t, n)
      <4>1. q \in KeyPath /\ r \in KeyPath /\ s \in KeyPath /\ IsPrefix(q, r) /\ Len(q) < Len(r) /\ IsPrefix(r, s)
        BY <1>1, <2>1, <2>2, <2>7, StrictPrefixIs
      <4> HIDE DEF q, r, s
      <4>2. IsPrefix(q, s)
        BY <4>1, PrefixOrder
      <4>3. Len(q) \in Nat /\ Len(r) \in Nat /\ Len(s) \in Nat /\ Len(r) <= Len(s)
        BY <4>1, PrefixIs
      <4>4. Len(q) < Len(s)
        BY <4>1, <4>3
      <4> QED BY <4>2, <4>4 DEF q, s
    <3> QED BY <1>1, <2>2, <3>1, StrictPrefixIs DEF AboveIn
  <2>10. k \notin EmptiedIn(t, n)
    BY <1>1, <2>1, <2>2, <2>8
  <2>11. PICK y \in LiveKeys(t) : IsStrictPrefix(PathIn(t, k), PathIn(t, y)) /\ ~ Comparable(PathIn(t, y), PathIn(t, n))
    BY <2>9, <2>10 DEF EmptiedIn
  <2>12. Kept(t, m, e, y)
    <3> SUFFICES ASSUME ~ Kept(t, m, e, y) PROVE FALSE
      OBVIOUS
    <3>1. y = m \/ Under(t, m, y)
      BY LostIs
    <3>2. y # m
      BY <2>1, <2>11 DEF Comparable
    <3> QED BY <2>1, <2>11, <3>1, <3>2
  <2> QED BY <2>11, <2>12
<1> QED BY <1>3, <1>4

LEMMA RemovedReads ==
  ASSUME NEW t, Lines(t), WellFormed(t), NoKeep(t), NEW p \in KeyPath, p # <<>>, NEW r, IsRemoved(t, p, r)
  PROVE  \A f : f \in Decode(r.text) <=> /\ f \in Decode(t) /\ ~ IsPrefix(p, f[1])
                                         /\ \A q \in r.pruned : ~ IsPrefix(q, f[1])
<1>1. PICK n \in LiveKeys(t) :
         LET m == TopIn(t, n)
         IN  /\ PathIn(t, n) = p /\ r.pruned = {PathIn(t, k) : k \in EmptiedIn(t, n)}
             /\ r.text = After(t, m, m, <<>>) /\ Edited(t, p, m, m, <<>>, <<>>)
  BY DEF IsRemoved
<1> DEFINE m == TopIn(t, n)
           u == After(t, m, m, <<>>)
           e == EndIn(t, m)
           d == Shift(t, m, m, <<>>)
           ks == <<>>
<1>2. Edit(t, u, p, m, m, e, d, <<>>, ks) /\ Lines(u)
  BY <1>1, EditedIsEdit
<1>3. r.text = u /\ PathIn(t, n) = p /\ \A q : q \in r.pruned <=> \E k \in EmptiedIn(t, n) : q = PathIn(t, k)
  BY <1>1
<1>4. Spliced(t, u, m, m, e, d, <<>>, ks)
  BY <1>2 DEF Edit
<1>5. StillNest(t, m, e)
  BY <1>4, RemovedNest
<1>6. m \in LiveKeys(t) /\ (m = n \/ m \in EmptiedIn(t, n)) /\ PathsDiffer(t)
  BY TopIs, WellFormedIs
<1>7. \A w \in LiveKeys(t) : w = n \/ w \in EmptiedIn(t, n) => IsPrefix(PathIn(t, m), PathIn(t, w))
  BY TopIsAbove
<1>8. Len(ks) = 0
  BY NoneIsSeq
<1> HIDE DEF m, u, e, d, ks
<1>9. \A f : f \in Decode(u) <=> \E k : Kept(t, m, e, k) /\ FactOf(t, k, f)
  <2>1. \A f : f \in Decode(u) <=> (\E k : Kept(t, m, e, k) /\ FactOf(t, k, f)) \/ (\E i \in 1..Len(ks) : FactOf(u, m - 1 + i, f))
    <3>1. Len(ks) >= 1 \/ StillNest(t, m, e)
      BY <1>5
    <3> QED BY <1>2, <3>1, KeptFacts
  <2>2. \A i : i \notin 1..Len(ks)
    BY <1>8
  <2> QED BY <2>1, <2>2, Zenon
<1>10. \A f : f \in Decode(t) <=> \E k \in LiveKeys(t) : FactOf(t, k, f)
  BY DecodeIs
<1>11. \A z \in LiveKeys(t) : PathIn(t, z) \in KeyPath
  BY PathIs DEF PathAsSaid
<1>12. ASSUME NEW k \in LiveKeys(t), NEW f, Kept(t, m, e, k), FactOf(t, k, f), IsPrefix(PathIn(t, m), f[1]) PROVE FALSE
  <2>1. f[1] \in KeyPath /\ IsPrefix(PathIn(t, k), f[1]) /\ (f[1] = PathIn(t, k) \/ t[k].form = "flow")
    BY <1>12, FactIs
  <2>2. ~ IsPrefix(PathIn(t, m), PathIn(t, k))
    <3> SUFFICES ASSUME IsPrefix(PathIn(t, m), PathIn(t, k)) PROVE FALSE
      OBVIOUS
    <3>1. k = m \/ Under(t, m, k)
      BY <1>6, BelowIsUnder
    <3> QED BY <1>4, <1>12, <3>1, LostIs
  <2>3. IsStrictPrefix(PathIn(t, k), PathIn(t, m))
    BY <1>6, <1>11, <1>12, <2>1, <2>2, OnOnePath
  <2>4. t[k].form = "flow"
    BY <1>12, <2>1, <2>2
  <2>5. Nests(t, k)
    BY <1>6, <2>3 DEF Nests
  <2>6. t[k].form = "nest"
    BY <2>5, NestsIs
  <2> QED BY <2>4, <2>6
<1>13. ASSUME NEW k \in LiveKeys(t), NEW f, ~ Kept(t, m, e, k), FactOf(t, k, f) PROVE IsPrefix(PathIn(t, m), f[1])
  <2>1. k = m \/ Under(t, m, k)
    BY <1>4, <1>13, LostIs
  <2>2. IsPrefix(PathIn(t, m), PathIn(t, k))
    BY <1>6, <2>1, BelowIsUnder
  <2>3. f[1] \in KeyPath /\ IsPrefix(PathIn(t, k), f[1])
    BY <1>13, FactIs
  <2> QED BY <1>6, <1>11, <2>2, <2>3, PrefixOrder
<1>14. ASSUME NEW f, f \in Decode(u)
       PROVE  f \in Decode(t) /\ ~ IsPrefix(p, f[1]) /\ \A q \in r.pruned : ~ IsPrefix(q, f[1])
  <2>1. PICK k : Kept(t, m, e, k) /\ FactOf(t, k, f)
    BY <1>9, <1>14
  <2>2. k \in LiveKeys(t)
    BY <2>1 DEF Kept
  <2>3. f \in Decode(t)
    BY <1>10, <2>1, <2>2
  <2>4. f[1] \in KeyPath /\ ~ IsPrefix(PathIn(t, m), f[1])
    BY <1>12, <2>1, <2>2, FactIs
  <2>5. \A w \in LiveKeys(t) : w = n \/ w \in EmptiedIn(t, n) => ~ IsPrefix(PathIn(t, w), f[1])
    BY <1>6, <1>7, <1>11, <2>4, PrefixOrder
  <2>6. \A w \in EmptiedIn(t, n) : w \in LiveKeys(t)
    BY DEF EmptiedIn, AboveIn
  <2> QED BY <1>3, <2>3, <2>5, <2>6, Zenon
<1>15. ASSUME NEW f, f \in Decode(t), ~ IsPrefix(p, f[1]), \A q \in r.pruned : ~ IsPrefix(q, f[1])
       PROVE  f \in Decode(u)
  <2>1. PICK k \in LiveKeys(t) : FactOf(t, k, f)
    BY <1>10, <1>15
  <2>2. ~ IsPrefix(PathIn(t, m), f[1])
    BY <1>3, <1>6, <1>15, Zenon
  <2> QED BY <1>9, <1>13, <2>1, <2>2, Zenon
<1> QED BY <1>3, <1>14, <1>15, Zenon
LEMMA NoKeepAfter ==
  ASSUME NEW t, NEW u, NEW n, NEW a, NEW e, NEW d, NEW L, NEW ks, Spliced(t, u, n, a, e, d, L, ks), NoKeep(t)
  PROVE  NoKeep(u)
<1> SUFFICES ASSUME NEW j \in 1..Len(u), u[j].is = "key", u[j].form = "keep" PROVE FALSE
  BY DEF NoKeep
<1>1. \/ j \in 1..a - 1
      \/ \E i \in 1..Len(L) : j = a - 1 + i
      \/ \E m \in e + 1..Len(t) : j = m + d
  BY LinesAfter
<1>2. CASE j \in 1..a - 1
  <2>1. j \in 1..Len(t) /\ u[j] = t[j]
    BY <1>2, LinesAfter
  <2> QED BY <2>1 DEF NoKeep
<1>3. CASE \E i \in 1..Len(L) : j = a - 1 + i
  <2>1. PICK i \in 1..Len(L) : j = a - 1 + i
    BY <1>3
  <2>2. u[j] = L[i] /\ NewLine(L, t[n].ind, ks, i)
    BY <2>1, LinesAfter
  <2> QED BY <2>2 DEF NewLine
<1>4. CASE \E m \in e + 1..Len(t) : j = m + d
  <2>1. PICK m \in e + 1..Len(t) : j = m + d
    BY <1>4
  <2>2. m \in 1..Len(t) /\ u[j] = t[m]
    BY <2>1, LinesAfter
  <2> QED BY <2>2 DEF NoKeep
<1> QED BY <1>1, <1>2, <1>3, <1>4

LEMMA NothingReads ==
  ASSUME NEW t, Lines(t), WellFormed(t), NEW p \in KeyPath, p # <<>>, NEW r, IsNothing(t, p, r)
  PROVE  r.text = t /\ r.pruned = {} /\ \A f \in Decode(t) : ~ IsPrefix(p, f[1])
<1>1. r.text = t /\ r.pruned = {} /\ Rest(t, p) # <<>> /\ OutOfFlow(t, p)
  BY DEF IsNothing
<1>2. ASSUME NEW f \in Decode(t), IsPrefix(p, f[1]) PROVE FALSE
  <2>1. PICK k \in LiveKeys(t) : FactOf(t, k, f)
    BY DecodeIs
  <2>2. k = FoundIn(t, p) /\ t[k].form = "flow"
    BY <1>1, <1>2, <2>1, NotThere
  <2>3. k # 0
    BY LinesAre
  <2> QED BY <1>1, <2>2, <2>3 DEF OutOfFlow
<1> QED BY <1>1, <1>2

(* What an edit of the text does to the document that is read of it.         *)
LEMMA EditReads ==
  ASSUME NEW t, Lines(t), WellFormed(t), NoKeep(t), NEW e, IsEdit(e), PatchFrontmatter(t, e).ok
  PROVE  LET r == PatchFrontmatter(t, e)
         IN  Decode(r.text) = Prune(Apply(Decode(t), e), r.pruned) /\ NoKeep(r.text)
<1> DEFINE r == PatchFrontmatter(t, e)
           p == e.path
           v == e.value
           D == Decode(t)
           U == Decode(r.text)
           A == Apply(D, e)
           B == r.pruned
<1>1. p \in KeyPath /\ p # <<>> /\ v \in KeyPath
  BY DEF IsEdit
<1>2. PatchedAs(t, p, v, r)
  BY EditIs
<1> HIDE DEF r, p, v
<1>3. NoKeep(r.text)
  <2>1. r.text = t \/ \E n, a, L, ks : r.text = After(t, n, a, L) /\ Edited(t, p, n, a, L, ks)
    BY <1>2, EditedAs
  <2>2. ASSUME NEW n, NEW a, NEW L, NEW ks, r.text = After(t, n, a, L), Edited(t, p, n, a, L, ks)
        PROVE  NoKeep(r.text)
    <3>1. Spliced(t, After(t, n, a, L), n, a, EndIn(t, n), Shift(t, n, a, L), L, ks)
      BY <2>2, EditedKeeps
    <3> QED BY <2>2, <3>1, NoKeepAfter
  <2> QED BY <2>1, <2>2
<1>4. /\ v = Nothing => A = Without(D, p)
      /\ v # Nothing => \A f : f \in A <=> \/ f \in D /\ ~ IsPrefix(p, f[1])
                                           \/ \E q \in Blocks(p) : f = <<q, Map>>
                                           \/ f = <<p, v>>
  BY ApplyIs DEF p, v
<1>5. \A f : f \in Without(D, p) <=> f \in D /\ ~ IsPrefix(p, f[1])
  BY DEF Without
<1> HIDE DEF A, D, U, B
<1>6. \A f : f \in Prune(A, B) <=> f \in A /\ \A q \in B : ~ IsPrefix(q, f[1])
  BY DEF Prune
<1>7. \A f : f \in A <=> \/ f \in D /\ ~ IsPrefix(p, f[1])
                         \/ v # Nothing /\ \E q \in Blocks(p) : f = <<q, Map>>
                         \/ v # Nothing /\ f = <<p, v>>
  BY <1>4, <1>5
<1>8. \A f : f \in U <=> f \in Prune(A, B)
  <2>1. CASE v = Nothing /\ IsNothing(t, p, r)
    <3>1. r.text = t /\ r.pruned = {} /\ \A f \in Decode(t) : ~ IsPrefix(p, f[1])
      BY <1>1, <2>1, NothingReads
    <3>2. U = D /\ B = {} /\ \A f \in D : ~ IsPrefix(p, f[1])
      BY <3>1 DEF U, D, B
    <3> QED BY <1>6, <1>7, <2>1, <3>2, Zenon
  <2>2. CASE v # Nothing /\ IsSet(t, p, v, r)
    <3>1. \A f : f \in Decode(r.text) <=> \/ f \in Decode(t) /\ ~ IsPrefix(p, f[1])
                                          \/ \E q \in Blocks(p) : f = <<q, Map>>
                                          \/ f = <<p, v>>
      BY <1>1, <2>2, SetReads
    <3>2. B = {}
      BY <2>2 DEF B, IsSet
    <3>3. \A f : f \in U <=> \/ f \in D /\ ~ IsPrefix(p, f[1])
                             \/ \E q \in Blocks(p) : f = <<q, Map>>
                             \/ f = <<p, v>>
      BY <3>1 DEF U, D
    <3> QED BY <1>6, <1>7, <2>2, <3>2, <3>3, Zenon
  <2>3. CASE IsSetInFlow(t, p, v, r)
    <3>1. \A f : f \in Decode(r.text) <=> \/ f \in Decode(t) /\ ~ IsPrefix(p, f[1])
                                          \/ v # Nothing /\ \E q \in Blocks(p) : f = <<q, Map>>
                                          \/ v # Nothing /\ f = <<p, v>>
      BY <1>1, <2>3, FlowReads
    <3>2. B = {}
      BY <2>3 DEF B, IsSetInFlow
    <3>3. \A f : f \in U <=> f \in A
      BY <1>7, <3>1 DEF U, D
    <3> QED BY <1>6, <3>2, <3>3, Zenon
  <2>4. CASE v = Nothing /\ IsRemoved(t, p, r)
    <3>1. \A f : f \in Decode(r.text) <=> /\ f \in Decode(t) /\ ~ IsPrefix(p, f[1])
                                          /\ \A q \in r.pruned : ~ IsPrefix(q, f[1])
      BY <1>1, <2>4, RemovedReads
    <3>2. \A f : f \in U <=> /\ f \in D /\ ~ IsPrefix(p, f[1])
                             /\ \A q \in B : ~ IsPrefix(q, f[1])
      BY <3>1 DEF U, D, B
    <3> QED BY <1>6, <1>7, <2>4, <3>2, Zenon
  <2> QED BY <1>2, <2>1, <2>2, <2>3, <2>4 DEF PatchedAs
<1>9. U = Prune(A, B)
  <2> DEFINE P == Prune(A, B)
  <2>1. P \subseteq A
    BY DEF Prune
  <2> HIDE DEF P
  <2> QED BY <1>8 DEF P
<1> QED BY <1>3, <1>9 DEF U, A, B, D, r
(* Want is what its recursion says.                                          *)
WantAt(spec, es, ps, f, i) == IF i = 0 THEN spec ELSE Prune(Apply(f[i - 1], es[i]), ps[i])
WantTo(spec, es, ps, f) ==
  Want(spec, es, ps) = f[Len(es)] /\ \A i \in 0..Len(es) : f[i] = WantAt(spec, es, ps, f, i)

LEMMA WantIs ==
  ASSUME NEW spec, NEW es, Len(es) \in Nat, NEW ps
  PROVE  \E f : WantTo(spec, es, ps, f)
<1> DEFINE N == Len(es)
           D(k) == {n \in 0..N : n <= k}
           Body(f, n) == WantAt(spec, es, ps, f, n)
           Is(f, k) == f = [n \in D(k) |-> Body(f, n)]
<1>1. N \in Nat /\ \A n \in 0..N : n \in Nat
  OBVIOUS
<1>2. ASSUME NEW n \in 0..N, NEW f, NEW g, \A m \in 0..N : m < n => f[m] = g[m]
      PROVE  Body(f, n) = Body(g, n)
  <2>1. n = 0 \/ (n - 1 \in 0..N /\ n - 1 < n)
    BY <1>1
  <2> QED BY <1>2, <2>1 DEF WantAt
<1>3. Want(spec, es, ps) = (CHOOSE f : Is(f, N))[N]
  <2>1. D(N) = 0..Len(es)
    BY <1>1
  <2> QED BY <2>1 DEF Want, WantAt
<1> HIDE DEF Body, Is, N
<1>4. \E f : Is(f, N)
  <2> DEFINE S == {k \in Nat : \E f : Is(f, k)}
  <2>1. ASSUME NEW k \in Nat, 0..k - 1 \subseteq S
        PROVE  \E f : Is(f, k)
    <3>1. CASE k = 0
      <4> DEFINE h == [n \in D(k) |-> Body(<<>>, n)]
      <4>1. \A n \in D(k) : n \in 0..N /\ \A m \in 0..N : ~ (m < n)
        BY <1>1, <3>1
      <4>2. \A n \in D(k) : h[n] = Body(<<>>, n)
        OBVIOUS
      <4>3. h = [n \in D(k) |-> h[n]]
        OBVIOUS
      <4> HIDE DEF h, D
      <4>4. \A n \in D(k) : Body(h, n) = Body(<<>>, n)
        BY <1>2, <4>1
      <4>5. \A n \in D(k) : h[n] = Body(h, n)
        BY <4>2, <4>4
      <4>6. Is(h, k)
        BY <4>3, <4>5 DEF Is
      <4> QED BY <4>6
    <3>2. CASE k # 0
      <4>1. k - 1 \in 0..k - 1 /\ k - 1 \in Nat
        BY <3>2
      <4>2. PICK g : Is(g, k - 1)
        BY <2>1, <4>1
      <4> DEFINE h == [n \in D(k) |-> IF n = k THEN Body(g, k) ELSE g[n]]
      <4>3. \A n \in D(k) : n = k \/ n \in D(k - 1)
        BY <1>1, <4>1
      <4>4. \A n \in D(k - 1) : n \in D(k) /\ n # k /\ n < k
        BY <1>1, <4>1
      <4>5. g = [n \in D(k - 1) |-> Body(g, n)]
        BY <4>2 DEF Is
      <4>6. \A n \in D(k - 1) : h[n] = g[n] /\ g[n] = Body(g, n)
        BY <4>4, <4>5
      <4>7. k \in D(k) => h[k] = Body(g, k)
        OBVIOUS
      <4>8. h = [n \in D(k) |-> h[n]]
        OBVIOUS
      <4> HIDE DEF h
      <4>9. ASSUME NEW n \in D(k) PROVE Body(h, n) = Body(g, n)
        <5>1. n \in 0..N /\ \A m \in 0..N : m < n => m \in D(k - 1)
          BY <1>1, <4>1
        <5>2. \A m \in 0..N : m < n => h[m] = g[m]
          BY <4>6, <5>1
        <5> HIDE DEF D
        <5> QED BY <1>2, <5>1, <5>2
      <4>10. \A n \in D(k) : h[n] = Body(h, n)
        BY <4>3, <4>6, <4>7, <4>9
      <4>11. Is(h, k)
        BY <4>8, <4>10 DEF Is
      <4> QED BY <4>11
    <3> QED BY <3>1, <3>2
  <2>2. \A k \in Nat : 0 <= k /\ 0..k - 1 \subseteq S => k \in S
    BY <2>1
  <2>3. \A k \in Nat : 0 <= k => k \in S
    <3> HIDE DEF S
    <3> QED BY <2>2, Upward
  <2> QED BY <1>1, <2>3
<1> DEFINE r == CHOOSE f : Is(f, N)
<1>5. Is(r, N)
  BY <1>4
<1>6. \A n \in 0..N : n \in D(N)
  BY <1>1
<1>7. \A n \in 0..N : r[n] = Body(r, n)
  <2> HIDE DEF r
  <2> QED BY <1>5, <1>6 DEF Is
<1>8. Want(spec, es, ps) = r[N]
  BY <1>3
<1> HIDE DEF r
<1> QED BY <1>7, <1>8 DEF WantTo, N, Body

LEMMA WantNone ==
  ASSUME NEW spec, NEW ps
  PROVE  Want(spec, <<>>, ps) = spec
<1> DEFINE es == <<>>
<1>1. Len(es) = 0
  BY NoneIsSeq
<1> HIDE DEF es
<1>2. PICK f : WantTo(spec, es, ps, f)
  <2>1. Len(es) \in Nat
    BY <1>1
  <2> QED BY <2>1, WantIs, Zenon
<1>3. 0 \in 0..Len(es)
  BY <1>1
<1> QED BY <1>1, <1>2, <1>3 DEF WantTo, WantAt, es

LEMMA WantNext ==
  ASSUME NEW spec, NEW es, IsSeq(es), NEW ps, IsSeq(ps), Len(ps) = Len(es), NEW e, NEW b
  PROVE  Want(spec, Append(es, e), Append(ps, b)) = Prune(Apply(Want(spec, es, ps), e), b)
<1> DEFINE l == Len(es)
           es1 == Append(es, e)
           ps1 == Append(ps, b)
<1>1. /\ l \in Nat /\ Len(es1) = l + 1 /\ es1[l + 1] = e /\ ps1[l + 1] = b
      /\ \A i \in 1..l : es1[i] = es[i] /\ ps1[i] = ps[i]
  <2>1. l \in Nat /\ Len(es1) = l + 1 /\ es1[l + 1] = e /\ \A i \in 1..l : es1[i] = es[i]
    BY AppendToAny
  <2>2. Len(ps) = l /\ ps1[Len(ps) + 1] = b /\ \A i \in 1..Len(ps) : ps1[i] = ps[i]
    BY AppendToAny
  <2> HIDE DEF es1, ps1
  <2> QED BY <2>1, <2>2
<1> HIDE DEF es1, ps1
<1>2. PICK f : WantTo(spec, es, ps, f)
  <2>1. Len(es) \in Nat
    BY <1>1
  <2> QED BY <2>1, WantIs, Zenon
<1>3. PICK g : WantTo(spec, es1, ps1, g)
  <2>1. Len(es1) \in Nat
    BY <1>1
  <2> QED BY <2>1, WantIs, Zenon
<1> DEFINE S == {i \in Nat : i <= l => g[i] = f[i]}
<1>4. ASSUME NEW i \in Nat, 0 <= i, 0..i - 1 \subseteq S PROVE i \in S
  <2> SUFFICES ASSUME i <= l PROVE g[i] = f[i]
    OBVIOUS
  <2>1. i \in 0..Len(es) /\ i \in 0..Len(es1)
    BY <1>1
  <2>2. f[i] = WantAt(spec, es, ps, f, i) /\ g[i] = WantAt(spec, es1, ps1, g, i)
    BY <1>2, <1>3, <2>1 DEF WantTo
  <2>3. CASE i = 0
    BY <2>2, <2>3 DEF WantAt
  <2>4. CASE i # 0
    <3>1. i - 1 \in 0..i - 1 /\ i - 1 <= l /\ i \in 1..l
      BY <1>1, <2>4
    <3>2. g[i - 1] = f[i - 1]
      BY <1>4, <3>1
    <3>3. es1[i] = es[i] /\ ps1[i] = ps[i]
      BY <1>1, <3>1
    <3> QED BY <2>2, <2>4, <3>2, <3>3 DEF WantAt
  <2> QED BY <2>3, <2>4
<1>5. \A i \in Nat : 0 <= i => i \in S
  <2> HIDE DEF S
  <2> QED BY <1>4, Upward
<1>6. g[l] = f[l]
  BY <1>1, <1>5
<1>7. l + 1 \in 0..Len(es1) /\ l + 1 # 0 /\ (l + 1) - 1 = l
  BY <1>1
<1>8. g[l + 1] = Prune(Apply(g[l], e), b)
  <2>1. g[l + 1] = WantAt(spec, es1, ps1, g, l + 1)
    BY <1>3, <1>7 DEF WantTo
  <2> QED BY <1>1, <1>7, <2>1 DEF WantAt
<1> QED BY <1>1, <1>2, <1>3, <1>6, <1>8 DEF WantTo, es1, ps1
(* The inductive invariant: in a document without |+ the text reads as the   *)
(* edits of the document say, whichever they were.                           *)
ReadsAsWanted ==
  status = "editing" /\ ~ KeepsBlanks =>
    NoKeep(text) /\ Decode(text) = Want(Decode(source), edits, pruned)

LEMMA InitReads ==
  ASSUME Init
  PROVE  ReadsAsWanted
<1>1. text = source /\ edits = <<>> /\ Lines(source)
  BY DocumentsAre DEF Init
<1>2. ~ KeepsBlanks => NoKeep(source)
  BY <1>1, LinesAre DEF KeepsBlanks, NoKeep
<1>3. Want(Decode(source), <<>>, pruned) = Decode(source)
  BY WantNone
<1> QED BY <1>1, <1>2, <1>3, Zenon DEF ReadsAsWanted

LEMMA EditStepReads ==
  ASSUME PatchInv, ReadsAsWanted, NEW e, EditStep(e)
  PROVE  ReadsAsWanted'
<1> DEFINE r == PatchFrontmatter(text, e)
           D == Decode(source)
           W == Want(D, edits, pruned)
<1>1. /\ Lines(text) /\ WellFormed(text) /\ status = "editing"
      /\ IsSeq(edits) /\ IsSeq(pruned) /\ Len(pruned) = Len(edits)
  <2>1. edits \in Seq(Edits)
    BY DEF PatchInv
  <2> QED BY <2>1, Zenon DEF PatchInv, EditingInv, EditStep, IsSeq
<1>2. /\ IsEdit(e) /\ edits' = Append(edits, e) /\ source' = source /\ text' = r.text
      /\ pruned' = Append(pruned, r.pruned)
      /\ status' = IF r.ok THEN "editing" ELSE "shape"
  BY EditsAre DEF EditStep
<1>3. ~ KeepsBlanks => NoKeep(text) /\ Decode(text) = W
  BY <1>1 DEF ReadsAsWanted
<1>4. r.ok /\ NoKeep(text) => Decode(r.text) = Prune(Apply(Decode(text), e), r.pruned) /\ NoKeep(r.text)
  BY <1>1, <1>2, EditReads
<1>5. Want(D, Append(edits, e), Append(pruned, r.pruned)) = Prune(Apply(W, e), r.pruned)
  BY <1>1, WantNext
<1>6. KeepsBlanks' <=> KeepsBlanks
  BY <1>2 DEF KeepsBlanks
<1> HIDE DEF r, W, D
<1>7. status' = "editing" /\ ~ KeepsBlanks =>
        NoKeep(r.text) /\ Decode(r.text) = Want(D, Append(edits, e), Append(pruned, r.pruned))
  BY <1>2, <1>3, <1>4, <1>5
<1>8. status' = "editing" /\ ~ KeepsBlanks =>
        NoKeep(text') /\ Decode(text') = Want(Decode(source'), edits', pruned')
  BY <1>2, <1>7 DEF D
<1> QED BY <1>6, <1>8 DEF ReadsAsWanted

LEMMA StepReads ==
  ASSUME PatchInv, ReadsAsWanted, [Next]_vars
  PROVE  ReadsAsWanted'
<1>1. CASE Finish
  <2>1. status' # "editing"
    BY <1>1, VerdictIs DEF Finish
  <2> QED BY <2>1 DEF ReadsAsWanted
<1>2. CASE \E e \in Edits : EditStep(e)
  BY <1>2, EditStepReads
<1>3. CASE UNCHANGED vars
  BY <1>3 DEF ReadsAsWanted, KeepsBlanks, vars
<1> QED BY <1>1, <1>2, <1>3, StepsAre

(* The document the edits of PatchSource leave is the one that the same      *)
(* edits of the parsed document leave.                                       *)
THEOREM TextEditsAreDocumentEdits == Spec => []ReadsAsWanted
<1>1. Init => ReadsAsWanted
  BY InitReads
<1>2. PatchInv /\ ReadsAsWanted /\ [Next]_vars => ReadsAsWanted'
  BY StepReads
<1> QED BY <1>1, <1>2, PatchInvariant, PTL DEF Spec

(* exons.patch.go: sameDocument and the comment check of PatchSource refuse  *)
(* nothing that was patched as asked, if no scalar of the document keeps the *)
(* blank lines at its end.                                                   *)
THEOREM NoSelfCheckFails == Spec => []SelfCheckOnlyForKeep
<1>1. PatchInv /\ ReadsAsWanted => SelfCheckOnlyForKeep
  <2> SUFFICES ASSUME PatchInv, ReadsAsWanted, Judged, ~ KeepsBlanks PROVE Verdict # "selfcheck"
    BY DEF SelfCheckOnlyForKeep
  <2>1. Decode(text) = Want(Decode(source), edits, pruned)
    BY DEF ReadsAsWanted, Judged
  <2>2. Comments(text) \subseteq Comments(source)
    BY DEF PatchInv, EditingInv, Judged
  <2>3. Canonical(Decode(text)) = Canonical(Want(Decode(source), edits, pruned))
    BY <2>1
  <2> HIDE DEF Judged
  <2> QED BY <2>2, <2>3 DEF Verdict
<1> QED BY <1>1, TextEditsAreDocumentEdits, PatchInvariant, PTL
-----------------------------------------------------------------------------
(* The same edit again.                                                      *)

(* The entry that was written ends where the lines written end.              *)
LEMMA NewEntryEnds ==
  ASSUME NEW t, NEW n, NEW a, NEW L, NEW ks, Splice(t, n, a, L, ks), Len(ks) >= 1,
         NEW u, u = After(t, n, a, L), NEW e, e = EndIn(t, n), NEW d, d = Shift(t, n, a, L)
  PROVE  EndIn(u, a - 1 + Len(ks)) = e + d
<1> DEFINE l == Len(ks)
           j == a - 1 + l
           ind == t[n].ind
<1>1. Spliced(t, u, n, a, e, d, L, ks)
  BY SplicedIs
<1>2. Lines(u) /\ Lines(t) /\ WellFormed(t) /\ n \in LiveKeys(t) /\ NoQuote(t, n)
  BY <1>1 DEF Splice, Spliced
<1>3. /\ a \in Nat /\ a >= 1 /\ e \in Nat /\ d \in Int /\ e + d \in Nat /\ l \in Nat /\ l >= 1 /\ Len(L) \in Nat /\ l <= Len(L)
      /\ a - 1 + Len(L) = e + d /\ Len(u) = Len(t) + d /\ Len(t) \in Nat /\ Len(u) \in Nat /\ e <= Len(t) /\ ind \in Nat
  <2>1. /\ a \in Nat /\ a >= 1 /\ e \in Nat /\ d \in Int /\ e + d >= 0 /\ l \in Nat /\ Len(L) \in Nat /\ l <= Len(L)
        /\ a - 1 + Len(L) = e + d /\ Len(u) = Len(t) + d /\ Len(t) \in Nat /\ Len(u) \in Nat /\ e <= Len(t) /\ ind \in Nat
    BY <1>1, SplicedNumbers
  <2> QED BY <2>1
<1>4. j \in LiveKeys(u) /\ j \in 1..Len(u) /\ j \in Nat
  <2>1. l \in 1..Len(ks)
    BY <1>3
  <2> HIDE DEF l
  <2>2. j \in LiveKeys(u)
    BY <1>1, <2>1, ParentsNew
  <2> QED BY <1>2, <2>2, LinesAre
<1>5. u[j] = L[l] /\ L[l].ind = ind + l - 1
  <2>1. l \in 1..Len(L)
    BY <1>3
  <2>2. u[j] = L[l] /\ NewLine(L, ind, ks, l)
    BY <1>1, <2>1, LinesAfter
  <2> QED BY <1>3, <2>2 DEF NewLine
<1> HIDE DEF ind
<1>6. \A m \in j + 1..e + d : u[m].is = "item" /\ u[m].ind = ind + l
  <2> SUFFICES ASSUME NEW m \in j + 1..e + d PROVE u[m].is = "item" /\ u[m].ind = ind + l
    OBVIOUS
  <2> DEFINE i == m - (a - 1)
  <2>1. i \in 1..Len(L) /\ a - 1 + i = m /\ ~ (i <= l)
    BY <1>3
  <2> HIDE DEF i
  <2>2. u[a - 1 + i] = L[i] /\ NewLine(L, ind, ks, i)
    BY <1>1, <2>1, LinesAfter DEF ind
  <2> QED BY <2>1, <2>2 DEF NewLine
<1> DEFINE indj == u[j].ind
<1>7. indj = ind + l - 1 /\ indj \in Nat /\ ind <= indj /\ indj < ind + l
  <2>1. indj = ind + l - 1
    BY <1>5
  <2> HIDE DEF indj, ind
  <2> QED BY <1>3, <2>1
<1>8. PICK z : Followed(t, n, z)
  BY <1>2, EntryFollowed
<1>9. /\ z \in Nat /\ e <= z /\ z <= Len(t)
      /\ \A m \in e + 1..z : t[m].is = "blank" \/ (t[m].is = "hash" /\ t[m].ind <= ind)
      /\ z = Len(t) \/ (z + 1 \in LiveKeys(t) /\ t[z + 1].ind <= ind)
  BY <1>8 DEF Followed, ind
<1>20. z \in Nat /\ e <= z /\ z <= Len(t)
  BY <1>9
<1> HIDE DEF l, j, indj
<1>21. j = a - 1 + l /\ u[j].ind = indj
  BY DEF j, indj
<1>10. \A m \in e + 1..Len(t) : u[m + d] = t[m] /\ t[m].ind \in Nat
  <2>1. \A m \in e + 1..Len(t) : u[m + d] = t[m] /\ m \in 1..Len(t)
    BY <1>1, LinesAfter
  <2> QED BY <1>2, <2>1, LinesAre
<1> DEFINE compact == ItemsIn(u, j) # {}
<1>11. EndsAt(u, j, compact, e + d)
  <2>1. e + d \in Nat /\ j <= e + d /\ e + d <= Len(u)
    <3>1. /\ a \in Nat /\ e \in Nat /\ d \in Int /\ e + d \in Nat /\ l \in Nat /\ Len(L) \in Nat /\ l <= Len(L)
          /\ a - 1 + Len(L) = e + d /\ Len(u) = Len(t) + d /\ Len(t) \in Nat /\ Len(u) \in Nat /\ e <= Len(t)
          /\ j = a - 1 + l
      BY <1>3, <1>21, Zenon
    <3> QED BY <3>1
  <2>2. \A m \in j + 1..e + d : ~ Breaks(u, j, compact, m)
    <3> SUFFICES ASSUME NEW m \in j + 1..e + d PROVE ~ (u[m].ind < indj) /\ u[m].ind # indj
      BY <1>21 DEF Breaks
    <3>1. u[m].ind = ind + l
      BY <1>6
    <3>2. ~ (ind + l < indj) /\ ind + l # indj
      BY <1>3, <1>7
    <3> QED BY <3>1, <3>2
  <2>3. e + d = j \/ ~ Passed(u, j, e + d)
    <3>1. e + d = j \/ e + d \in j + 1..e + d
      BY <2>1, <1>4
    <3> QED BY <1>6, <3>1 DEF Passed
  <2>4. \A m \in e + d + 1..z + d : Passed(u, j, m)
    <3> SUFFICES ASSUME NEW m \in e + d + 1..z + d PROVE Passed(u, j, m)
      OBVIOUS
    <3> DEFINE k == m - d
    <3>1. k \in e + 1..z /\ k \in e + 1..Len(t) /\ k + d = m
      <4>1. d \in Int /\ e \in Nat /\ z \in Nat /\ m \in Int /\ e + d + 1 <= m /\ m <= z + d
        BY <1>3, <1>20
      <4>2. k \in Int /\ e + 1 <= k /\ k <= z /\ k + d = m
        BY <4>1
      <4> HIDE DEF k
      <4> QED BY <1>3, <1>20, <4>2
    <3> HIDE DEF k
    <3>2. u[m] = t[k] /\ t[k].ind \in Nat /\ (t[k].is = "blank" \/ (t[k].is = "hash" /\ t[k].ind <= ind))
      BY <1>9, <1>10, <3>1
    <3>3. t[k].ind <= ind => u[m].ind <= indj
      <4> DEFINE i == t[k].ind
      <4>1. u[m].ind = i /\ i \in Nat
        BY <3>2
      <4> HIDE DEF i
      <4>2. i <= ind => i <= indj
        BY <1>3, <1>7, <4>1
      <4> QED BY <4>1, <4>2 DEF i
    <3> QED BY <1>21, <3>2, <3>3 DEF Passed
  <2>5. z + d = Len(u) \/ Breaks(u, j, compact, z + d + 1)
    <3>1. CASE z = Len(t)
      BY <1>3, <3>1
    <3>2. CASE z # Len(t)
      <4>1. z + 1 \in e + 1..Len(t) /\ z + 1 + d = z + d + 1
        <5>1. /\ z \in Nat /\ e \in Nat /\ d \in Int /\ Len(t) \in Nat
              /\ e <= z /\ z <= Len(t) /\ z # Len(t)
          BY <1>3, <1>20, <3>2, Zenon
        <5> QED BY <5>1
      <4>2. u[z + d + 1] = t[z + 1] /\ t[z + 1].ind \in Nat
        BY <1>10, <4>1
      <4>3. t[z + 1].is = "key" /\ t[z + 1].ind <= ind
        BY <1>2, <1>9, <3>2, LinesAre
      <4>4. u[z + d + 1].is = "key" /\ u[z + d + 1].ind <= indj /\ u[z + d + 1].ind \in Nat
        <5> DEFINE i == t[z + 1].ind
        <5>1. u[z + d + 1].is = "key" /\ u[z + d + 1].ind = i /\ i \in Nat /\ i <= ind
          BY <4>2, <4>3
        <5> HIDE DEF i
        <5>2. i <= indj
          BY <1>3, <1>7, <5>1
        <5> QED BY <5>1, <5>2
      <4>5. u[z + d + 1].ind < indj \/ u[z + d + 1].ind = indj
        <5> DEFINE i == u[z + d + 1].ind
        <5>1. i <= indj /\ i \in Nat
          BY <4>4
        <5> HIDE DEF i
        <5>2. i < indj \/ i = indj
          BY <1>7, <5>1
        <5> QED BY <5>2 DEF i
      <4> QED BY <1>21, <4>4, <4>5 DEF Breaks, Passed
    <3> QED BY <3>1, <3>2
  <2>6. z + d \in e + d..Len(u)
    <3>1. /\ z \in Nat /\ e \in Nat /\ d \in Int /\ Len(t) \in Nat /\ Len(u) = Len(t) + d
          /\ e <= z /\ z <= Len(t)
      BY <1>3, <1>20, Zenon
    <3> QED BY <3>1
  <2> QED BY <2>1, <2>2, <2>3, <2>4, <2>5, <2>6 DEF EndsAt
<1> HIDE DEF compact
<1>12. e + d = EntryEnd(u, j, compact)
  BY <1>2, <1>4, <1>11, EntryEndIs
<1> QED BY <1>12 DEF EndIn, End, ItemsIn, compact, j, l
SameLines(t, a, z, L) ==
  /\ IsSeq(t) /\ a \in Nat /\ z \in Nat /\ 1 <= a /\ a <= z + 1 /\ z <= Len(t)
  /\ IsSeq(L) /\ Len(L) = z - a + 1 /\ \A i \in 1..Len(L) : L[i] = t[a - 1 + i]

LEMMA ReplacedSame ==
  ASSUME NEW t, NEW a, NEW z, NEW L, SameLines(t, a, z, L)
  PROVE  Replaced(t, a, z, L) = t
<1> DEFINE u == Replaced(t, a, z, L)
           d == Len(L) - (z - a + 1)
<1> USE DEF SameLines
<1>1. /\ IsSeq(u) /\ Len(u) = Len(t) + d
      /\ \A k \in 1..a - 1 : u[k] = t[k]
      /\ \A i \in 1..Len(L) : u[a - 1 + i] = L[i]
      /\ \A k \in z + 1..Len(t) : u[k + d] = t[k]
  BY ReplacedIs
<1>2. Len(t) \in Nat /\ d = 0 /\ Len(L) = z - a + 1
  BY SeqIs
<1> HIDE DEF u, d
<1>3. Len(u) = Len(t)
  BY <1>1, <1>2
<1>4. ASSUME NEW k \in 1..Len(t) PROVE u[k] = t[k]
  <2>1. CASE k \in 1..a - 1
    BY <1>1, <2>1
  <2>2. CASE k \in a..z
    <3> DEFINE i == k - (a - 1)
    <3>1. i \in 1..Len(L) /\ a - 1 + i = k
      BY <1>2, <2>2
    <3> HIDE DEF i
    <3>2. u[a - 1 + i] = t[a - 1 + i]
      BY <1>1, <3>1
    <3> QED BY <3>1, <3>2
  <2>3. CASE k \in z + 1..Len(t)
    <3>1. k + d = k
      BY <1>2
    <3>2. u[k + d] = t[k]
      BY <1>1, <2>3
    <3> QED BY <3>1, <3>2
  <2> QED BY <1>2, <2>1, <2>2, <2>3
<1>5. u = t
  BY <1>1, <1>3, <1>4, SeqSame
<1> QED BY <1>5 DEF u

(* What is there is found.                                                   *)
LEMMA FoundThere ==
  ASSUME NEW t, Lines(t), WellFormed(t), NEW j \in LiveKeys(t), NEW p, p = PathIn(t, j)
  PROVE  FoundIn(t, p) = j /\ Rest(t, p) = <<>>
<1>1. PathsDiffer(t) /\ p \in KeyPath /\ p # <<>> /\ IsPrefix(p, p)
  BY PathIs, WellFormedIs, PrefixOrder DEF PathAsSaid
<1> DEFINE g == FoundIn(t, p)
<1>2. g # 0 /\ IsPrefix(p, PathIn(t, g)) /\ g \in LiveKeys(t) /\ IsPrefix(PathIn(t, g), p)
  BY <1>1, FoundIs
<1> HIDE DEF g
<1>3. PathIn(t, g) \in KeyPath
  BY <1>2, PathIs DEF PathAsSaid
<1> DEFINE q == PathIn(t, g)
<1> HIDE DEF q
<1>4. Len(q) = Len(p) /\ q = p
  <2>1. q \in KeyPath /\ IsPrefix(p, q) /\ IsPrefix(q, p)
    BY <1>2, <1>3 DEF q
  <2>2. Len(q) \in Nat /\ Len(p) \in Nat /\ Len(q) <= Len(p) /\ Len(p) <= Len(q)
    BY <1>1, <2>1, PrefixIs
  <2>3. Len(q) = Len(p)
    BY <2>2
  <2> QED BY <1>1, <2>1, <2>3, PrefixOrder
<1>5. g = j
  BY <1>1, <1>2, <1>4 DEF PathsDiffer, q
<1>6. Rest(t, p) = <<>>
  <2>1. Reached(t, p) = Len(p)
    BY <1>2, <1>4 DEF Reached, g, q
  <2>2. Len(p) \in Nat /\ Len(Rest(t, p)) = Len(p) - Reached(t, p) /\ (Rest(t, p) = <<>> <=> Len(Rest(t, p)) = 0)
    BY <1>1, RestIs
  <2> QED BY <2>1, <2>2
<1> QED BY <1>5, <1>6 DEF g

(* A new entry written again is the entry that is there.                     *)
LEMMA WrittenAgain ==
  ASSUME NEW t, NEW u, NEW p, NEW v, NEW n, NEW a, NEW e, NEW d, NEW L, NEW ks, NEW note,
         NewKeys(t, u, p, v, n, a, e, d, L, ks, note),
         NEW j, j = a - 1 + Len(ks)
  PROVE  Replaced(u, j, e + d, Rendered(u[j].ind, <<u[j].key>>, v, u[j].note)) = u
<1> DEFINE l == Len(ks)
           ind == t[n].ind
           items == ItemsOfValue(v)
           indj == u[j].ind
           key == u[j].key
           k1 == <<key>>
           R == Rendered(indj, k1, v, u[j].note)
<1>1. Spliced(t, u, n, a, e, d, L, ks) /\ WellFormed(u) /\ Lines(u) /\ v \in KeyPath /\ v # <<>>
  BY DEF NewKeys, Edit, Nothing
<1>2. l \in Nat /\ l >= 1 /\ l \in 1..Len(ks) /\ j \in LiveKeys(u) /\ u[j] = L[l]
  BY NewKeysAre
<1>3. items \in KeyPath /\ Len(items) \in Nat
  BY <1>1, ItemsOfValueAre
<1>4. /\ Len(L) = l + Len(items)
      /\ L[l] = IF Nested(ks, v, l) THEN NewKey(ind, ks, "nest", <<>>, note, l) ELSE NewKey(ind, ks, "plain", v, note, l)
      /\ \A i \in 1..Len(items) : L[l + i] = Item(ind + l, items[i])
  BY <1>2 DEF NewKeys, RenderedAs
<1>5. Nested(ks, v, l) <=> items # <<>>
  BY <1>2 DEF Nested
<1>6. PathAsSaid(u, j)
  BY <1>1, <1>2, PathIs
<1>7. key \in KeyName /\ indj \in Nat
  BY <1>1, <1>2, <1>6, LinesAre DEF PathAsSaid
<1>8. k1 \in KeyPath /\ Len(k1) = 1 /\ k1[1] = key
  BY <1>7, OneKey
<1>9. RenderedAs(R, indj, k1, v, u[j].note)
  <2> DEFINE no == u[j].note
  <2>1. Len(k1) >= 1
    BY <1>8
  <2> HIDE DEF k1, indj, no
  <2>2. RenderedAs(Rendered(indj, k1, v, no), indj, k1, v, no)
    BY <1>1, <1>7, <1>8, <2>1, RenderedIs
  <2> QED BY <2>2 DEF no
<1> DEFINE form == IF items # <<>> THEN "nest" ELSE "plain"
           val == IF items # <<>> THEN <<>> ELSE v
<1>10. L[l] = NewKey(ind, ks, form, val, note, l)
  BY <1>4, <1>5
<1>11. /\ indj = ind + l - 1 /\ key = ks[l] /\ u[j].note = IF l = 1 THEN note ELSE NoNote
  <2>1. u[j] = NewKey(ind, ks, form, val, note, l)
    BY <1>2, <1>10
  <2>2. LET x == NewKey(ind, ks, form, val, note, l)
        IN  x.ind = ind + l - 1 /\ x.key = ks[l] /\ x.note = IF l = 1 THEN note ELSE NoNote
    <3> HIDE DEF form, val, ind, l
    <3> QED BY NewKeyIs
  <2> QED BY <2>1, <2>2
<1> HIDE DEF R, k1, form, val, items
<1>12. R[1] = NewKey(indj, k1, form, val, u[j].note, 1)
  <2>1. 1 \in 1..Len(k1) /\ ~ (1 < Len(k1))
    BY <1>8
  <2>2. R[1] = IF Nested(k1, v, 1) THEN NewKey(indj, k1, "nest", <<>>, u[j].note, 1)
               ELSE NewKey(indj, k1, "plain", v, u[j].note, 1)
    BY <1>9, <2>1 DEF RenderedAs
  <2>3. Nested(k1, v, 1) <=> items # <<>>
    BY <2>1 DEF Nested, items
  <2> QED BY <2>2, <2>3 DEF form, val
<1>13. R[1] = L[l]
  <2> DEFINE no == u[j].note
  <2>1. NewKey(indj, k1, form, val, no, 1) = KeyLine(indj + 1 - 1, k1[1], form, val, no)
    BY DEF NewKey
  <2>2. NewKey(ind, ks, form, val, note, l) = KeyLine(ind + l - 1, ks[l], form, val, IF l = 1 THEN note ELSE NoNote)
    BY DEF NewKey
  <2>3. indj + 1 - 1 = indj
    BY <1>7
  <2> QED BY <1>8, <1>10, <1>11, <1>12, <2>1, <2>2, <2>3
<1>14. /\ IsSeq(R) /\ Len(R) = 1 + Len(items) /\ \A i \in 1..Len(items) : R[1 + i] = Item(indj + 1, items[i])
  BY <1>8, <1>9 DEF RenderedAs, items
<1>15. indj + 1 = ind + l
  <2>1. ind \in Nat
    BY <1>1, SplicedNumbers
  <2> HIDE DEF ind, indj, l
  <2>2. indj = ind + l - 1
    BY <1>11 DEF ind, indj, l
  <2>3. l \in Nat
    BY <1>2
  <2> QED BY <2>1, <2>2, <2>3
<1>16. \A i \in 1..Len(R) : R[i] = L[l - 1 + i]
  <2> SUFFICES ASSUME NEW i \in 1..Len(R) PROVE R[i] = L[l - 1 + i]
    OBVIOUS
  <2>1. CASE i = 1
    <3>1. l - 1 + i = l
      BY <1>2, <2>1
    <3> QED BY <1>13, <2>1, <3>1
  <2>2. CASE i # 1
    <3> DEFINE m == i - 1
    <3>1. m \in 1..Len(items) /\ 1 + m = i /\ l + m = l - 1 + i
      BY <1>2, <1>3, <1>14, <2>2
    <3> HIDE DEF m
    <3>2. R[1 + m] = Item(indj + 1, items[m]) /\ L[l + m] = Item(ind + l, items[m])
      BY <1>4, <1>14, <3>1 DEF items
    <3> QED BY <1>15, <3>1, <3>2
  <2> QED BY <2>1, <2>2
<1>17. /\ a \in Nat /\ a >= 1 /\ e + d \in Nat /\ a - 1 + Len(L) = e + d /\ Len(u) \in Nat /\ e + d <= Len(u)
  <2>1. a \in Nat /\ a >= 1 /\ e \in Nat /\ d \in Int /\ e + d >= 0 /\ a - 1 + Len(L) = e + d /\ Len(u) \in Nat
        /\ Len(u) = Len(t) + d /\ e <= Len(t) /\ Len(t) \in Nat
    BY <1>1, SplicedNumbers
  <2> QED BY <2>1
<1>18. Len(L) = l + Len(items)
  BY <1>4 DEF items
<1>19. j \in Nat /\ 1 <= j /\ j <= (e + d) + 1 /\ Len(R) = (e + d) - j + 1
  BY <1>2, <1>3, <1>14, <1>17, <1>18
<1>20. \A i \in 1..Len(R) : R[i] = u[j - 1 + i]
  <2> SUFFICES ASSUME NEW i \in 1..Len(R) PROVE R[i] = u[j - 1 + i]
    OBVIOUS
  <2>1. l - 1 + i \in 1..Len(L) /\ a - 1 + (l - 1 + i) = j - 1 + i
    BY <1>2, <1>3, <1>14, <1>17, <1>18
  <2> DEFINE m == l - 1 + i
  <2>3. m \in 1..Len(L) /\ a - 1 + m = j - 1 + i
    BY <2>1
  <2> HIDE DEF m
  <2>2. u[a - 1 + m] = L[m]
    BY <1>1, <2>3, LinesAfter
  <2>4. R[i] = L[m]
    BY <1>16 DEF m
  <2> QED BY <2>2, <2>3, <2>4
<1>21. IsSeq(u)
  BY <1>1 DEF Lines
<1>22. Replaced(u, j, e + d, R) = u
  <2> DEFINE z == e + d
  <2>1. j \in Nat /\ z \in Nat /\ 1 <= j /\ j <= z + 1 /\ z <= Len(u) /\ Len(R) = z - j + 1
    BY <1>17, <1>19
  <2> HIDE DEF z
  <2>2. Replaced(u, j, z, R) = u
    <3>1. SameLines(u, j, z, R)
      BY <1>14, <1>20, <1>21, <2>1, Zenon DEF SameLines
    <3> QED BY <3>1, ReplacedSame
  <2> QED BY <2>2 DEF z
<1> QED BY <1>22 DEF R, k1
(* An entry that holds no other has the forms of its own line.               *)
LEMMA AloneForm ==
  ASSUME NEW t, Lines(t), WellFormed(t), NEW n \in LiveKeys(t), ~ Nests(t, n), NEW form, t[n].form # form
  PROVE  ~ HasForm(t, LiveKeys(t), n, form)
<1> SUFFICES ASSUME NEW m \in LiveKeys(t), IsPrefix(PathIn(t, n), PathIn(t, m)), t[m].form = form PROVE FALSE
  BY DEF HasForm, Below, PathIn
<1>1. n = m \/ Under(t, n, m)
  BY WellFormedIs, BelowIsUnder
<1>2. ~ Under(t, n, m)
  BY NestsIs
<1> QED BY <1>1, <1>2

(* To set again what was set: the entry is found, and written as it is.      *)
LEMMA SetAgain ==
  ASSUME NEW t, Lines(t), WellFormed(t), NEW x, IsEdit(x), x.value # Nothing, NEW r, IsSet(t, x.path, x.value, r)
  PROVE  LET s == PatchFrontmatter(r.text, x) IN s.ok /\ s.text = r.text
<1> DEFINE p == x.path
           v == x.value
<1>a. p \in KeyPath /\ p # <<>> /\ v \in KeyPath /\ v # Nothing
  BY DEF IsEdit
<1>0. PICK n \in LiveKeys(t) : \E a, ks, note : SetAs(t, p, v, r, n, a, ks, note)
  BY Zenon DEF IsSet
<1>1. PICK a, ks, note : SetAs(t, p, v, r, n, a, ks, note)
  BY <1>0
<1> DEFINE L == Rendered(t[n].ind, ks, v, note)
           u == After(t, n, a, L)
           e == EndIn(t, n)
           d == Shift(t, n, a, L)
           l == Len(ks)
           j == a - 1 + l
<1>2. r.text = u /\ Edited(t, p, n, a, L, ks) /\ ks \in KeyPath /\ ks # <<>> /\ l = Len(p) - Len(Base(t, n))
  BY <1>1 DEF SetAs
<1>3. Edit(t, u, p, n, a, e, d, L, ks) /\ Lines(u)
  BY <1>2, EditedIsEdit
<1>4. l >= 1
  BY <1>2, EmptySeq, LenProperties DEF KeyPath
<1>5. RenderedAs(L, t[n].ind, ks, v, note)
  <2>1. t[n].ind \in Nat
    BY LinesAre
  <2> QED BY <1>a, <1>2, <1>4, <2>1, RenderedIs DEF Nothing
<1>6. EndIn(u, j) = e + d
  BY <1>2, <1>4, NewEntryEnds DEF Edited
<1> HIDE DEF L, u, e, d, p, v
<1>8. NewKeys(t, u, p, v, n, a, e, d, L, ks, note)
  BY <1>a, <1>2, <1>3, <1>5 DEF NewKeys
<1>9. WellFormed(u)
  BY <1>3 DEF Edit
<1>10. l \in 1..Len(ks) /\ j \in LiveKeys(u) /\ PathIn(u, j) = p /\ u[j] = L[l]
  <2>1. l \in Nat /\ l \in 1..l
    BY <1>4, <1>8, NewKeysAre
  <2> QED BY <1>8, <2>1, NewKeysAre
<1>11. u[j].form \in {"plain", "nest", "flow"}
  <2>1. l \in 1..Len(L) /\ \A i \in 1..Len(L) : NewLine(L, t[n].ind, ks, i)
    <3>1. \A i \in 1..Len(L) : NewLine(L, t[n].ind, ks, i)
      BY <1>3, LinesAfter DEF Edit
    <3>2. Len(L) \in Nat /\ l <= Len(L) /\ l \in Nat
      BY <1>3, SplicedNumbers DEF Edit
    <3> QED BY <1>4, <3>1, <3>2
  <2>2. NewLine(L, t[n].ind, ks, l)
    BY <2>1
  <2>3. l <= Len(ks)
    BY <1>10
  <2>4. L[l].form \in {"plain", "nest", "flow"}
    BY <2>2, <2>3 DEF NewLine
  <2> QED BY <1>10, <2>4
<1>12. ~ Nests(u, j)
  BY <1>8, NewKeysAlone
<1> HIDE DEF j
<1>13. ~ HasForm(u, LiveKeys(u), j, "alias") /\ ~ HasForm(u, LiveKeys(u), j, "quote")
  BY <1>3, <1>9, <1>10, <1>11, <1>12, AloneForm
<1>14. FoundIn(u, p) = j /\ Rest(u, p) = <<>>
  BY <1>3, <1>9, <1>10, FoundThere
<1>15. j # 0 /\ LiveKeys(u) # {}
  BY <1>3, <1>10, LinesAre
<1> DEFINE s == PatchFrontmatter(u, x)
           R == Rendered(u[j].ind, <<u[j].key>>, v, u[j].note)
<1> HIDE DEF s
<1>16. s = PatchLeaf(u, LiveKeys(u), j, x)
  BY <1>3, <1>14, <1>15, PatchIs DEF s, p
<1>17. s = Outcome(Replaced(u, j, EndIn(u, j), R), {})
  <2>1. PatchLeaf(u, LiveKeys(u), j, x) =
          IF HasForm(u, LiveKeys(u), j, "alias") THEN Refused(u)
          ELSE IF v = Nothing THEN RemoveEntry(u, LiveKeys(u), j)
          ELSE IF HasForm(u, LiveKeys(u), j, "quote") THEN Refused(u)
          ELSE Outcome(Replaced(u, j, EndIn(u, j), R), {})
    BY Zenon DEF PatchLeaf, EndIn, v
  <2> HIDE DEF R
  <2> QED BY <1>a, <1>13, <1>16, <2>1
<1>18. Replaced(u, j, e + d, R) = u
  BY <1>8, WrittenAgain DEF j
<1> HIDE DEF R
<1>19. EndIn(u, j) = e + d
  BY <1>6 DEF j
<1>20. s = Outcome(u, {})
  BY <1>17, <1>18, <1>19
<1>21. s.ok = TRUE /\ s.text = u
  BY <1>20, OutcomeIs, Zenon
<1> QED BY <1>2, <1>21 DEF s
(* What was set within {...} is set again: the same paths, the same values.  *)
LEMMA FlowSame ==
  ASSUME NEW x, NEW b, NEW p, NEW F, NEW v, NEW N, FlowSet(x, b, p, F, v, N)
  PROVE  /\ SetInFlow(N, b, v) = N
         /\ \A q \in Blocks(b) : q \in DOMAIN N => N[q] \in {Map, Nothing}
<1> DEFINE M == SetInFlow(N, b, v)
           stays(q) == q \in DOMAIN F /\ ~ IsPrefix(b, q)
<1>1. N = SetInFlow(F, b, v) /\ b \in KeyPath /\ \A q \in Blocks(b) : q \in DOMAIN F => F[q] \in {Map, Nothing}
  BY DEF FlowSet
<1>2. N = [q \in DOMAIN N |-> N[q]] /\ M = [q \in DOMAIN M |-> M[q]]
  BY <1>1 DEF SetInFlow
<1>3. /\ v = Nothing => \A q : q \in DOMAIN N <=> stays(q)
      /\ v = Nothing => \A q : q \in DOMAIN N => N[q] = F[q]
      /\ v # Nothing => \A q : q \in DOMAIN N <=> stays(q) \/ q \in Blocks(b) \/ q = b
      /\ v # Nothing => \A q : q \in DOMAIN N => N[q] = IF q = b THEN v ELSE IF q \in Blocks(b) THEN Map ELSE F[q]
  BY <1>1, SetInFlowIs
<1>4. /\ v = Nothing => \A q : q \in DOMAIN M <=> q \in DOMAIN N /\ ~ IsPrefix(b, q)
      /\ v = Nothing => \A q : q \in DOMAIN M => M[q] = N[q]
      /\ v # Nothing => \A q : q \in DOMAIN M <=> (q \in DOMAIN N /\ ~ IsPrefix(b, q)) \/ q \in Blocks(b) \/ q = b
      /\ v # Nothing => \A q : q \in DOMAIN M => M[q] = IF q = b THEN v ELSE IF q \in Blocks(b) THEN Map ELSE N[q]
  BY SetInFlowIs
<1>5. \A q \in Blocks(b) : q # b
  BY <1>1, BlocksAre, StrictPrefixIs
<1> HIDE DEF M
<1>6. DOMAIN M = DOMAIN N
  <2>1. \A q : q \in DOMAIN M <=> q \in DOMAIN N
    BY <1>3, <1>4, Zenon
  <2> QED BY <2>1
<1>7. \A q \in DOMAIN N : M[q] = N[q]
  <2>1. CASE v = Nothing
    BY <1>4, <1>6, <2>1
  <2>2. CASE v # Nothing
    <3> SUFFICES ASSUME NEW q \in DOMAIN N PROVE M[q] = N[q]
      OBVIOUS
    <3>1. M[q] = IF q = b THEN v ELSE IF q \in Blocks(b) THEN Map ELSE N[q]
      BY <1>4, <1>6, <2>2
    <3>2. N[q] = IF q = b THEN v ELSE IF q \in Blocks(b) THEN Map ELSE F[q]
      BY <1>3, <2>2
    <3> QED BY <3>1, <3>2
  <2> QED BY <2>1, <2>2
<1>8. M = N
  BY <1>2, <1>6, <1>7
<1>9. \A q \in Blocks(b) : q \in DOMAIN N => N[q] \in {Map, Nothing}
  <2>1. CASE v = Nothing
    BY <1>1, <1>3, <2>1
  <2>2. CASE v # Nothing
    <3>1. \A q \in Blocks(b) : q \in DOMAIN N => N[q] = Map
      BY <1>3, <1>5, <2>2
    <3> QED BY <3>1
  <2> QED BY <2>1, <2>2
<1> QED BY <1>8, <1>9 DEF M

LEMMA FlowAgain ==
  ASSUME NEW t, Lines(t), WellFormed(t), NEW y, IsEdit(y), NEW r, IsSetInFlow(t, y.path, y.value, r)
  PROVE  LET s == PatchFrontmatter(r.text, y) IN s.ok /\ s.text = r.text
<1> DEFINE p == y.path
           v == y.value
           n == FoundIn(t, p)
           b == Rest(t, p)
           line == SetLine(t, n, b, v)
           L == <<line>>
           ks == <<t[n].key>>
           u == After(t, n, n, L)
           e == EndIn(t, n)
           d == Shift(t, n, n, L)
           x == PathIn(t, n)
           F == t[n].flow
           N == SetInFlow(F, b, v)
<1>a. p \in KeyPath /\ p # <<>>
  BY DEF IsEdit
<1>1. n \in LiveKeys(t) /\ t[n].form = "flow" /\ r.text = u /\ Edited(t, p, n, n, L, ks) /\ NotThrough(t, n, b) /\ b # <<>>
  BY DEF IsSetInFlow
<1>2. Edit(t, u, p, n, n, e, d, L, ks) /\ Lines(u)
  BY <1>1, EditedIsEdit
<1>3. Len(L) = 1 /\ L[1] = line /\ Len(ks) = 1
  BY OneIsSeq
<1>4. line.form = "flow" /\ line.flow = N /\ line.ind = t[n].ind /\ line.key = t[n].key /\ line.note = t[n].note
  BY FlowLineIs DEF SetLine
<1>b. line = FlowLine(t[n].ind, t[n].key, N, t[n].note)
  BY DEF SetLine
<1>5. PathsDiffer(t)
  BY WellFormedIs
<1>6. n \in Nat /\ n # 0 /\ n >= 1 /\ x \in KeyPath /\ IsPrefix(x, p) /\ IsLine(t[n]) /\ t[n].ind \in Nat
  <2>1. n # 0 /\ n \in Nat /\ n >= 1
    BY <1>1, LinesAre
  <2>2. IsPrefix(x, p)
    BY <1>a, <1>1, <1>5, <2>1, FoundIs
  <2>3. x \in KeyPath
    BY <1>1, PathIs DEF PathAsSaid
  <2>4. IsLine(t[n]) /\ t[n].ind \in Nat
    BY <1>1, LinesAre
  <2> QED BY <2>1, <2>2, <2>3, <2>4
<1>c. b = SubSeq(p, Len(x) + 1, Len(p))
  BY <1>6 DEF Rest
<1>7. p = x \o b /\ b \in KeyPath
  <2> HIDE DEF x, b, n, p
  <2> QED BY <1>a, <1>6, <1>c, PrefixSplit
<1>8. \A q \in DOMAIN F : q \in KeyPath
  BY <1>6, Zenon DEF IsLine, KeyPath, KeyName
<1>9. \A q \in Blocks(b) : q \in DOMAIN F => F[q] \in {Map, Nothing}
  BY <1>1, Zenon DEF NotThrough, Blocks
<1>d. EndIn(u, n) = e + d /\ e + d = n /\ n <= Len(u)
  <2>1. EndIn(u, n - 1 + Len(ks)) = e + d
    <3>1. Splice(t, n, n, L, ks) /\ Len(ks) >= 1
      BY <1>1, <1>3 DEF Edited
    <3>2. u = After(t, n, n, L) /\ e = EndIn(t, n) /\ d = Shift(t, n, n, L)
      OBVIOUS
    <3> HIDE DEF n, L, ks, e, d, u
    <3> QED BY <3>1, <3>2, NewEntryEnds
  <2> HIDE DEF n, L, ks, e, d, u
  <2>2. n - 1 + Len(ks) = n
    BY <1>3, <1>6
  <2>3. n - 1 + Len(L) = e + d /\ Len(u) = Len(t) + d /\ e <= Len(t) /\ Len(t) \in Nat /\ d \in Int /\ e \in Nat
    BY <1>2, SplicedNumbers DEF Edit
  <2>4. e + d = n /\ n <= Len(u)
    BY <1>3, <1>6, <2>3
  <2> QED BY <2>1, <2>2, <2>4
<1> HIDE DEF n, b, line, L, ks, u, e, d, x, F, N, p, v
<1>10. WellFormed(u) /\ Spliced(t, u, n, n, e, d, L, ks) /\ Leads(t, n, ks, p)
  BY <1>2 DEF Edit
<1>11. n \in LiveKeys(u) /\ u[n] = line /\ PathIn(u, n) = x
  <2>1. 1 \in 1..Len(ks) /\ 1 \in 1..Len(L) /\ n - 1 + 1 = n
    BY <1>3, <1>6
  <2>2. n \in LiveKeys(u) /\ OnPath(PathIn(u, n), p, Len(Base(t, n)) + 1)
    <3>1. n - 1 + 1 \in LiveKeys(u) /\ OnPath(PathIn(u, n - 1 + 1), p, Len(Base(t, n)) + 1)
      BY <1>10, <2>1, PathsNew
    <3> QED BY <2>1, <3>1
  <2>3. u[n] = line
    <3>1. u[n - 1 + 1] = L[1]
      BY <1>10, <2>1, LinesAfter
    <3> QED BY <1>3, <2>1, <3>1
  <2>4. Len(x) = Len(Base(t, n)) + 1
    BY <1>1, BaseIs DEF x
  <2>5. PathIn(u, n) \in KeyPath /\ IsPrefix(PathIn(u, n), p) /\ Len(PathIn(u, n)) = Len(x)
    BY <2>2, <2>4 DEF OnPath
  <2>6. IsPrefix(PathIn(u, n), x) /\ PathIn(u, n) = x
    <3>1. p \in KeyPath /\ Len(x) \in Nat
      BY <1>a, <1>6, PrefixIs
    <3> DEFINE z == PathIn(u, n)
    <3> HIDE DEF z
    <3>2. z \in KeyPath /\ IsPrefix(z, p) /\ Len(z) = Len(x)
      BY <2>5 DEF z
    <3>3. IsPrefix(z, x)
      BY <1>6, <3>1, <3>2, PrefixOrder
    <3>4. z = x
      BY <1>6, <3>2, <3>3, PrefixOrder
    <3> QED BY <3>3, <3>4 DEF z
  <2> QED BY <2>2, <2>3, <2>6
<1>12. SetInFlow(N, b, v) = N /\ \A q \in Blocks(b) : q \in DOMAIN N => N[q] \in {Map, Nothing}
  <2>1. FlowSet(x, b, p, F, v, N)
    BY <1>1, <1>6, <1>7, <1>8, <1>9, Zenon DEF N, FlowSet
  <2> QED BY <2>1, FlowSame
<1>13. u[n].form = "flow" /\ u[n].flow = N /\ u[n].ind = t[n].ind /\ u[n].key = t[n].key /\ u[n].note = t[n].note
  BY <1>4, <1>11
<1>14. ~ Nests(u, n) /\ Children(u, LiveKeys(u), n) = {} /\ \A m \in LiveKeys(u) : ~ Under(u, n, m)
  BY <1>2, <1>10, <1>11, <1>13, NestsIs
<1>15. FoundIn(u, p) = n
  <2> DEFINE g == FoundIn(u, p)
  <2>1. PathsDiffer(u)
    BY <1>2, <1>10, WellFormedIs
  <2>2. g # 0 /\ IsPrefix(x, PathIn(u, g)) /\ g \in LiveKeys(u)
    BY <1>a, <1>2, <1>6, <1>11, <2>1, FoundIs
  <2> HIDE DEF g
  <2>3. n = g \/ Under(u, n, g)
    BY <1>2, <1>11, <2>1, <2>2, BelowIsUnder
  <2> QED BY <1>14, <2>2, <2>3 DEF g
<1>16. Rest(u, p) = b
  BY <1>6, <1>11, <1>15, <1>c DEF Rest
<1> DEFINE s == PatchFrontmatter(u, y)
<1> HIDE DEF s
<1>17. s = PatchFlow(u, LiveKeys(u), n, b, y)
  <2>1. LiveKeys(u) # {} /\ ~ (u[n].form = "nest" /\ ValueAt(u, LiveKeys(u), n) = Nothing)
    BY <1>11, <1>13
  <2> QED BY <1>1, <1>2, <1>6, <1>13, <1>14, <1>15, <1>16, <2>1, PatchIs DEF s, p
<1>18. SetLine(u, n, b, v) = line
  BY <1>12, <1>13, <1>b DEF SetLine
<1>19. s = Outcome(Replaced(u, n, n, <<line>>), {})
  <2> DEFINE blocks == {SubSeq(b, 1, i) : i \in 1..(Len(b) - 1)}
             again == <<SetLine(u, n, b, v)>>
  <2>1. s = IF \E q \in blocks \cap DOMAIN u[n].flow : u[n].flow[q] \notin {Map, Nothing} THEN Refused(u)
            ELSE Outcome(Replaced(u, n, EndIn(u, n), again), {})
    BY <1>17, Zenon DEF PatchFlow, SetLine, EndIn, v
  <2>2. \A q \in blocks : q \in DOMAIN N => N[q] \in {Map, Nothing}
    BY <1>12, Zenon DEF Blocks
  <2> HIDE DEF blocks
  <2>3. ~ \E q \in blocks \cap DOMAIN u[n].flow : u[n].flow[q] \notin {Map, Nothing}
    BY <1>13, <2>2
  <2>4. again = <<line>>
    BY <1>18
  <2>5. EndIn(u, n) = n
    BY <1>d
  <2> HIDE DEF again
  <2> QED BY <2>1, <2>3, <2>4, <2>5
<1>20. Replaced(u, n, n, <<line>>) = u
  <2> DEFINE R == <<line>>
  <2>1. IsSeq(R) /\ Len(R) = 1 /\ R[1] = line
    BY OneIsSeq
  <2> HIDE DEF R
  <2>2. n <= n + 1 /\ Len(R) = n - n + 1
    BY <1>6, <2>1
  <2>3. \A i \in 1..Len(R) : R[i] = u[n - 1 + i]
    <3> SUFFICES ASSUME NEW i \in 1..Len(R) PROVE R[i] = u[n - 1 + i]
      OBVIOUS
    <3>1. i = 1 /\ n - 1 + i = n
      BY <1>6, <2>1
    <3> QED BY <1>11, <2>1, <3>1
  <2>4. IsSeq(u)
    BY <1>2 DEF Lines
  <2>5. SameLines(u, n, n, R)
    BY <1>6, <1>d, <2>1, <2>2, <2>3, <2>4 DEF SameLines
  <2> QED BY <2>5, ReplacedSame DEF R
<1>21. s = Outcome(u, {})
  BY <1>19, <1>20
<1>22. s.ok = TRUE /\ s.text = u
  BY <1>21, OutcomeIs, Zenon
<1> QED BY <1>1, <1>22 DEF s
(* What an edit asks to remove and is not there is not there again.          *)
LEMMA NothingAgain ==
  ASSUME NEW t, NEW x, NEW r, r = PatchFrontmatter(t, x), r.ok, r.text = t
  PROVE  LET s == PatchFrontmatter(r.text, x) IN s.ok /\ s.text = r.text
<1> QED OBVIOUS

(* What was removed is not found again, only the entries above it that hold  *)
(* something else, and there is nothing to do.                               *)
LEMMA RemovedAgain ==
  ASSUME NEW t, Lines(t), WellFormed(t), NEW x, IsEdit(x), x.value = Nothing,
         NEW r, IsRemoved(t, x.path, r), LiveKeys(r.text) # {}
  PROVE  LET s == PatchFrontmatter(r.text, x) IN s.ok /\ s.text = r.text
<1> DEFINE p == x.path
<1>1. PICK n \in LiveKeys(t) :
         LET m == TopIn(t, n)
         IN  /\ PathIn(t, n) = p /\ r.pruned = {PathIn(t, k) : k \in EmptiedIn(t, n)}
             /\ r.text = After(t, m, m, <<>>) /\ Edited(t, p, m, m, <<>>, <<>>)
  BY DEF IsRemoved
<1> DEFINE m == TopIn(t, n)
           u == After(t, m, m, <<>>)
           e == EndIn(t, m)
           d == Shift(t, m, m, <<>>)
           ks == <<>>
           s == PatchFrontmatter(u, x)
           f == FoundIn(u, p)
           b == Rest(u, p)
           siblings == Children(u, LiveKeys(u), f)
<1>2. Edit(t, u, p, m, m, e, d, <<>>, ks) /\ Lines(u)
  BY <1>1, EditedIsEdit
<1>3. r.text = u /\ PathIn(t, n) = p /\ LiveKeys(u) # {}
  BY <1>1
<1>4. Spliced(t, u, m, m, e, d, <<>>, ks) /\ WellFormed(u)
  BY <1>2 DEF Edit
<1>5. StillNest(t, m, e)
  BY <1>4, RemovedNest
<1>6. m \in LiveKeys(t) /\ IsPrefix(PathIn(t, m), PathIn(t, n)) /\ PathsDiffer(t)
  BY TopIs, WellFormedIs
<1>7. Len(ks) = 0
  BY NoneIsSeq
<1>8. p \in KeyPath /\ p # <<>>
  BY DEF IsEdit
<1>9. PathsDiffer(u)
  BY <1>2, <1>4, WellFormedIs
<1>10. s = InsertInto(u, LiveKeys(u), siblings, b, x) \/ ~ (f = 0 \/ siblings # {}) \/ ~ (f = 0 \/ b # <<>>)
  BY <1>2, <1>3, PatchIs
<1>11. InsertInto(u, LiveKeys(u), siblings, b, x) = Outcome(u, {})
  BY DEF InsertInto
<1>12. f # 0 => f \in LiveKeys(u) /\ IsPrefix(PathIn(u, f), p)
  BY <1>2, <1>8, <1>9, FoundIs
<1> HIDE DEF m, u, e, d, ks, s, f
<1>13. ~ Kept(t, m, e, n)
  <2>1. n = m \/ Under(t, m, n)
    BY <1>6, BelowIsUnder
  <2> QED BY <1>4, <2>1, LostIs
<1>14. \A j \in LiveKeys(u) : \E k : Kept(t, m, e, k) /\ j = At(m, d, k)
  <2>1. \A j \in LiveKeys(u) : (\E k : Kept(t, m, e, k) /\ j = At(m, d, k)) \/ (\E i \in 1..Len(ks) : j = m - 1 + i)
    BY <1>4, KeysAre
  <2>2. \A i : i \notin 1..Len(ks)
    BY <1>7
  <2> QED BY <2>1, <2>2, Zenon
<1>15. \A j \in LiveKeys(u) : \E k \in LiveKeys(t) :
          Kept(t, m, e, k) /\ j = At(m, d, k) /\ PathIn(u, j) = PathIn(t, k) /\ k # n /\ PathIn(t, k) # p
  <2> SUFFICES ASSUME NEW j \in LiveKeys(u)
               PROVE  \E k \in LiveKeys(t) :
                         Kept(t, m, e, k) /\ j = At(m, d, k) /\ PathIn(u, j) = PathIn(t, k) /\ k # n /\ PathIn(t, k) # p
    OBVIOUS
  <2>1. PICK k : Kept(t, m, e, k) /\ j = At(m, d, k)
    BY <1>14
  <2>2. k \in LiveKeys(t) /\ PathIn(u, j) = PathIn(t, k)
    BY <1>4, <2>1, KeptIs
  <2>3. k # n
    BY <1>13, <2>1
  <2>4. PathIn(t, k) # p
    BY <1>3, <1>6, <2>2, <2>3 DEF PathsDiffer
  <2> QED BY <2>1, <2>2, <2>3, <2>4
<1>16. f # 0 => siblings # {}
  <2> SUFFICES ASSUME f # 0 PROVE siblings # {}
    OBVIOUS
  <2>1. PICK k \in LiveKeys(t) :
           Kept(t, m, e, k) /\ f = At(m, d, k) /\ PathIn(u, f) = PathIn(t, k) /\ k # n /\ PathIn(t, k) # p
    BY <1>12, <1>15
  <2>2. PathIn(t, k) \in KeyPath /\ IsPrefix(PathIn(t, k), p)
    BY <1>12, <2>1, PathIs DEF PathAsSaid
  <2>3. IsStrictPrefix(PathIn(t, k), PathIn(t, n))
    BY <1>3, <1>8, <2>1, <2>2, PrefixOrder, StrictPrefixIs
  <2>4. Nests(t, k)
    BY <2>3 DEF Nests
  <2>5. Nests(u, f)
    BY <1>2, <1>5, <2>1, <2>4, KeptNests
  <2> QED BY <1>2, <1>4, <1>12, <2>5, NestsIs
<1>17. f # 0 => b # <<>>
  <2> SUFFICES ASSUME f # 0, b = <<>> PROVE FALSE
    OBVIOUS
  <2>1. Len(p) \in Nat /\ Reached(u, p) \in Nat /\ Len(b) = Len(p) - Reached(u, p) /\ Len(b) = 0
    BY <1>2, <1>8, <1>9, RestIs
  <2>2. Reached(u, p) = Len(p)
    BY <2>1
  <2>3. PathIn(u, f) = p
    BY <1>2, <1>8, <1>9, <2>2, RestIs DEF f
  <2> QED BY <1>12, <1>15, <2>3
<1>18. s = Outcome(u, {})
  BY <1>10, <1>11, <1>16, <1>17
<1>19. s.ok = TRUE /\ s.text = u
  BY <1>18, OutcomeIs, Zenon
<1> QED BY <1>3, <1>19 DEF s

(* The name of the document is there: no edit removes it, so that there is   *)
(* always a key to edit.                                                     *)
TheName == "name"
HasName(t) == \E k \in LiveKeys(t) : PathIn(t, k) = <<TheName>>

LEMMA NameBeside ==
  ASSUME <<TheName>> \in KeyPath, NEW p \in KeyPath, p # <<>>, p[1] # TheName
  PROVE  ~ Comparable(<<TheName>>, p)
<1> DEFINE q == <<TheName>>
<1>1. q \in KeyPath /\ Len(q) = 1 /\ q[1] = TheName
  BY OneIsSeq
<1> HIDE DEF q
<1>2. Len(p) \in Nat /\ Len(p) # 0
  BY EmptySeq, LenProperties DEF KeyPath
<1>3. ~ IsPrefix(q, p)
  <2>1. 1 \in 1..Len(q)
    BY <1>1
  <2> QED BY <1>1, <2>1, PrefixIs
<1>4. ~ IsPrefix(p, q)
  <2>1. 1 \in 1..Len(p)
    BY <1>2
  <2> QED BY <1>1, <2>1, PrefixIs
<1> QED BY <1>3, <1>4 DEF Comparable, q

LEMMA NamedAtFirst ==
  ASSUME NEW t, Lines(t), Valid(Decode(t))
  PROVE  HasName(t)
<1>1. PICK f \in Decode(t) : f[1] = <<TheName>>
  BY Zenon DEF Valid, TheName
<1>2. PICK k \in LiveKeys(t) : FactOf(t, k, f)
  BY DecodeIs
<1> DEFINE q == <<TheName>>
           y == PathIn(t, k)
<1>4. f[1] = q
  BY <1>1
<1>3. q \in KeyPath /\ Len(q) = 1
  <2>1. f[1] \in KeyPath
    BY <1>2, FactIs
  <2>2. Len(q) = 1
    BY OneIsSeq
  <2> QED BY <1>4, <2>1, <2>2
<1>5. y \in KeyPath /\ y # <<>>
  BY PathIs DEF PathAsSaid
<1>6. IsPrefix(y, f[1])
  BY <1>2, FactIs
<1> HIDE DEF q, y
<1>7. IsPrefix(y, q)
  BY <1>4, <1>6
<1>8. Len(y) \in Nat /\ Len(y) # 0
  BY <1>5, EmptySeq, LenProperties DEF KeyPath
<1>9. Len(y) <= 1
  BY <1>3, <1>5, <1>7, PrefixIs
<1>10. Len(y) = Len(q)
  <2> DEFINE l == Len(y)
  <2>1. l \in Nat /\ l # 0 /\ l <= 1
    BY <1>8, <1>9
  <2> HIDE DEF l
  <2>2. l = 1
    BY <2>1
  <2> QED BY <1>3, <2>2 DEF l
<1>11. y = q
  BY <1>3, <1>5, <1>7, <1>10, PrefixOrder
<1> QED BY <1>11 DEF HasName, q, y

LEMMA NameKept ==
  ASSUME NEW t, Lines(t), WellFormed(t), HasName(t), NEW p \in KeyPath, p # <<>>, p[1] # TheName,
         NEW n, NEW a, NEW L, NEW ks, Edited(t, p, n, a, L, ks)
  PROVE  HasName(After(t, n, a, L))
<1> DEFINE u == After(t, n, a, L)
           e == EndIn(t, n)
           d == Shift(t, n, a, L)
<1>1. Spliced(t, u, n, a, e, d, L, ks)
  BY EditedKeeps
<1>2. PICK k \in LiveKeys(t) : PathIn(t, k) = <<TheName>>
  BY DEF HasName
<1>3. ~ Comparable(PathIn(t, k), p)
  <2>1. <<TheName>> \in KeyPath
    BY <1>2, PathIs DEF PathAsSaid
  <2> QED BY <1>2, <2>1, NameBeside
<1>4. a = n => IsPrefix(PathIn(t, n), p) /\ \A j \in LiveKeys(t) : Under(t, n, j) => Comparable(PathIn(t, j), p)
  BY DEF Edited
<1> HIDE DEF u, e, d
<1>5. Kept(t, a, e, k)
  <2> SUFFICES ASSUME ~ Kept(t, a, e, k) PROVE FALSE
    OBVIOUS
  <2>1. a = n /\ (k = n \/ Under(t, n, k))
    BY <1>1, LostIs
  <2> QED BY <1>3, <1>4, <2>1 DEF Comparable
<1>6. At(a, d, k) \in LiveKeys(u) /\ PathIn(u, At(a, d, k)) = <<TheName>>
  BY <1>1, <1>2, <1>5, KeptIs
<1> QED BY <1>6 DEF HasName, u

LEMMA EditKeepsName ==
  ASSUME NEW t, Lines(t), WellFormed(t), HasName(t), NEW x, IsEdit(x), x.path[1] # TheName, PatchFrontmatter(t, x).ok
  PROVE  HasName(PatchFrontmatter(t, x).text)
<1> DEFINE r == PatchFrontmatter(t, x)
           p == x.path
<1>1. PatchedAs(t, p, x.value, r)
  BY EditIs
<1>2. p \in KeyPath /\ p # <<>> /\ p[1] # TheName
  BY DEF IsEdit
<1> HIDE DEF r, p
<1>3. r.text = t \/ \E n, a, L, ks : r.text = After(t, n, a, L) /\ Edited(t, p, n, a, L, ks)
  BY <1>1, EditedAs
<1>4. CASE r.text = t
  BY <1>4 DEF r
<1>5. CASE \E n, a, L, ks : r.text = After(t, n, a, L) /\ Edited(t, p, n, a, L, ks)
  <2>1. PICK n, a, L, ks : r.text = After(t, n, a, L) /\ Edited(t, p, n, a, L, ks)
    BY <1>5
  <2>2. HasName(After(t, n, a, L))
    BY <1>2, <2>1, NameKept
  <2> QED BY <2>1, <2>2 DEF r
<1> QED BY <1>3, <1>4, <1>5

(* Any edit that was made is made again without a change.                    *)
LEMMA EditAgain ==
  ASSUME NEW t, Lines(t), WellFormed(t), HasName(t), NEW x, IsEdit(x), x.path[1] # TheName
  PROVE  SameAgain(PatchFrontmatter(t, x), x)
<1> DEFINE r == PatchFrontmatter(t, x)
           s == PatchFrontmatter(r.text, x)
<1> SUFFICES ASSUME r.ok PROVE s.ok /\ s.text = r.text
  <2>1. r.ok => PatchNext(r, x) = s
    BY DEF PatchNext
  <2> HIDE DEF r, s
  <2>2. (r.ok => s.ok /\ s.text = r.text) => SameAgain(r, x)
    BY <2>1 DEF SameAgain
  <2> QED BY <2>2 DEF r, s
<1>1. PatchedAs(t, x.path, x.value, r)
  BY EditIs
<1>2. LiveKeys(r.text) # {}
  <2>1. HasName(r.text)
    BY EditKeepsName
  <2> QED BY <2>1 DEF HasName
<1>3. CASE x.value = Nothing /\ IsNothing(t, x.path, r)
  <2>1. r.text = t
    BY <1>3 DEF IsNothing
  <2> QED BY <2>1
<1>4. CASE x.value # Nothing /\ IsSet(t, x.path, x.value, r)
  <2> HIDE DEF r
  <2> QED BY <1>4, SetAgain
<1>5. CASE IsSetInFlow(t, x.path, x.value, r)
  <2> HIDE DEF r
  <2> QED BY <1>5, FlowAgain
<1>6. CASE x.value = Nothing /\ IsRemoved(t, x.path, r)
  <2> HIDE DEF r
  <2> QED BY <1>2, <1>6, RemovedAgain
<1> HIDE DEF r, s
<1> QED BY <1>1, <1>3, <1>4, <1>5, <1>6 DEF PatchedAs

(* The document keeps its name while it is edited.                           *)
StaysNamed == status = "editing" => HasName(text)

LEMMA InitNamed ==
  ASSUME Init
  PROVE  StaysNamed
<1> SUFFICES ASSUME status = "editing" PROVE HasName(text)
  BY DEF StaysNamed
<1>1. Parses(source) /\ text = source /\ source \in Documents
  BY DEF Init
<1>2. Lines(text) /\ Valid(Decode(text))
  BY <1>1, DocumentsAre DEF Parses
<1> QED BY <1>2, NamedAtFirst

LEMMA EditPathIs ==
  ASSUME NEW x \in Edits
  PROVE  x.path[1] # TheName
BY EditsAssumption DEF TheName

LEMMA StepNamed ==
  ASSUME PatchInv, StaysNamed, [Next]_vars
  PROVE  StaysNamed'
<1>1. CASE UNCHANGED vars
  BY <1>1 DEF StaysNamed, HasName, vars
<1>2. CASE Finish
  <2>1. status' # "editing"
    BY <1>2, VerdictIs DEF Finish
  <2> QED BY <2>1 DEF StaysNamed
<1>3. ASSUME NEW x \in Edits, EditStep(x) PROVE StaysNamed'
  <2> SUFFICES ASSUME status' = "editing" PROVE HasName(text)'
    BY DEF StaysNamed
  <2>1. status = "editing" /\ text' = PatchFrontmatter(text, x).text /\ PatchFrontmatter(text, x).ok
    BY <1>3 DEF EditStep
  <2>2. HasName(text) /\ Lines(text) /\ WellFormed(text)
    BY <2>1 DEF StaysNamed, PatchInv, EditingInv
  <2>3. HasName(PatchFrontmatter(text, x).text)
    BY <2>1, <2>2, EditsAre, EditPathIs, EditKeepsName
  <2> QED BY <2>1, <2>3 DEF HasName
<1> QED BY <1>1, <1>2, <1>3, StepsAre

(* exons.patch.go: PatchSource with an edit that was already applied leaves  *)
(* the text as it is: what was set is set again in place, byte for byte, what*)
(* was removed is not found.                                                 *)
THEOREM RetriedEditsChangeNothing == Spec => []RetryChangesNothing
<1>1. Init => StaysNamed
  BY InitNamed
<1>2. PatchInv /\ StaysNamed /\ [Next]_vars => StaysNamed'
  BY StepNamed
<1>3. PatchInv /\ StaysNamed => RetryChangesNothing
  <2> SUFFICES ASSUME PatchInv, StaysNamed, Judged, NEW x \in Edits PROVE SameAgain(PatchFrontmatter(text, x), x)
    BY DEF RetryChangesNothing
  <2>1. Lines(text) /\ WellFormed(text) /\ HasName(text)
    BY DEF PatchInv, EditingInv, StaysNamed, Judged
  <2> QED BY <2>1, EditsAre, EditPathIs, EditAgain
<1> QED BY <1>1, <1>2, <1>3, PatchInvariant, PTL DEF Spec
-----------------------------------------------------------------------------
(* Edits of different entries.                                               *)

LEMMA PathOrder ==
  /\ \A x \in KeyPath : IsPrefix(x, x)
  /\ \A x, y, z \in KeyPath : IsPrefix(x, y) /\ IsPrefix(y, z) => IsPrefix(x, z)
  /\ \A x, y, z \in KeyPath : IsPrefix(x, z) /\ IsPrefix(y, z) => IsPrefix(x, y) \/ IsPrefix(y, x)
  /\ \A x, y \in KeyPath : IsPrefix(x, y) /\ IsPrefix(y, x) => x = y
<1>1. \A x \in KeyPath : IsPrefix(x, x)
  BY PrefixOrder
<1>2. ASSUME NEW x \in KeyPath, NEW y \in KeyPath, NEW z \in KeyPath, IsPrefix(x, y), IsPrefix(y, z)
      PROVE  IsPrefix(x, z)
  BY <1>2, PrefixOrder
<1>3. ASSUME NEW x \in KeyPath, NEW y \in KeyPath, NEW z \in KeyPath, IsPrefix(x, z), IsPrefix(y, z)
      PROVE  IsPrefix(x, y) \/ IsPrefix(y, x)
  BY <1>3, OnOnePath DEF IsStrictPrefix
<1>4. ASSUME NEW x \in KeyPath, NEW y \in KeyPath, IsPrefix(x, y), IsPrefix(y, x) PROVE x = y
  <2>1. Len(x) \in Nat /\ Len(y) \in Nat /\ Len(x) <= Len(y) /\ Len(y) <= Len(x)
    BY <1>4, PrefixIs
  <2>2. Len(x) = Len(y)
    BY <2>1
  <2> QED BY <1>4, <2>2, PrefixOrder
<1> QED BY <1>1, <1>2, <1>3, <1>4

(* The paths of the keys of a text, and the blocks among them that hold      *)
(* nothing beside p.                                                         *)
KeysOf(t) == {PathIn(t, k) : k \in LiveKeys(t)}
Holds(K, x) == \E j \in K : IsStrictPrefix(x, j)
Empties(K, p) ==
  {b \in K : IsStrictPrefix(b, p) /\ \A k \in K : IsStrictPrefix(b, k) => Comparable(k, p)}

(* A document D with the keys K: each of its facts stands at a key, or within*)
(* one that holds no other; a key that holds others is a block.              *)
Told(D, K) ==
  /\ \A k \in K : k \in KeyPath /\ k # <<>>
  /\ \A f \in D : f[1] \in KeyPath /\ \E k \in K : IsPrefix(k, f[1]) /\ (k = f[1] \/ ~ Holds(K, k))
  /\ \A f \in D : f[1] \in K /\ Holds(K, f[1]) => f = <<f[1], Map>>

(* An edit of p turns the document D with the keys K into E with M, and      *)
(* removes the blocks B.                                                     *)
Turned(D, K, E, M, p, v, B) ==
  /\ Told(D, K) /\ Told(E, M) /\ p \in KeyPath
  /\ \A f : f \in E <=> \/ f \in D /\ ~ IsPrefix(p, f[1]) /\ f[1] \notin B
                        \/ v # Nothing /\ \E q \in Blocks(p) : f = <<q, Map>>
                        \/ v # Nothing /\ f = <<p, v>>
  /\ \A k \in K : Comparable(k, p) \/ k \in M
  /\ \A k \in M : k \in K \/ IsPrefix(k, p)
  /\ v = Nothing /\ p \in K =>
        B = Empties(K, p) /\ \A k : k \in M <=> k \in K /\ ~ IsPrefix(p, k) /\ k \notin B
  /\ v = Nothing /\ p \notin K => B = {} /\ M = K
  /\ v # Nothing => B = {}

(* No block above a value that was set is emptied by an edit beside it.      *)
LEMMA WrittenStays ==
  ASSUME NEW E, NEW M, Told(E, M), NEW q \in KeyPath, NEW w, <<q, w>> \in E,
         NEW p \in KeyPath, p \in M, ~ Comparable(p, q), NEW r \in Empties(M, p)
  PROVE  ~ IsPrefix(r, q)
<1> SUFFICES ASSUME IsPrefix(r, q) PROVE FALSE
  OBVIOUS
<1>1. PICK k \in M : IsPrefix(k, q) /\ (k = q \/ ~ Holds(M, k))
  <2>1. <<q, w>>[1] = q
    OBVIOUS
  <2> QED BY <2>1 DEF Told
<1>2. /\ r \in M /\ r \in KeyPath /\ k \in KeyPath /\ IsPrefix(r, p) /\ r # p
      /\ \A j \in M : IsStrictPrefix(r, j) => Comparable(j, p)
  BY DEF Empties, IsStrictPrefix, Told
<1>3. ~ IsPrefix(p, q) /\ ~ IsPrefix(q, p)
  BY DEF Comparable
<1>4. Holds(M, r)
  BY <1>2 DEF Holds, IsStrictPrefix
<1>5. ~ IsPrefix(k, r)
  <2> SUFFICES ASSUME IsPrefix(k, r) PROVE FALSE
    OBVIOUS
  <2>1. k # q
    BY <1>2, <1>3, PathOrder
  <2>2. ~ Holds(M, k)
    BY <1>1, <2>1
  <2> QED BY <1>2, <1>4, <2>2 DEF Holds, IsStrictPrefix
<1>6. IsPrefix(r, k) /\ r # k
  BY <1>1, <1>2, <1>5, PathOrder
<1>7. Comparable(k, p)
  BY <1>2, <1>6 DEF IsStrictPrefix
<1>8. ~ IsPrefix(p, k)
  BY <1>1, <1>2, <1>3, PathOrder
<1>9. IsPrefix(k, p) /\ k # p
  BY <1>2, <1>7, <1>8, PathOrder DEF Comparable
<1>10. Holds(M, k)
  BY <1>9 DEF Holds, IsStrictPrefix
<1> QED BY <1>1, <1>3, <1>9, <1>10

LEMMA SetStays ==
  ASSUME NEW D, NEW K, NEW p, NEW v, NEW q, NEW w, ~ Comparable(p, q), w # Nothing,
         NEW E, NEW M, NEW B, Turned(D, K, E, M, q, w, B),
         NEW F, NEW N, NEW C, Turned(E, M, F, N, p, v, C)
  PROVE  \A r \in C : ~ IsPrefix(r, q)
<1> SUFFICES ASSUME NEW r \in C PROVE ~ IsPrefix(r, q)
  OBVIOUS
<1>1. <<q, w>> \in E /\ q \in KeyPath /\ Told(E, M)
  BY Zenon DEF Turned
<1>2. p \in KeyPath /\ (C = {} \/ (p \in M /\ C = Empties(M, p)))
  BY Zenon DEF Turned
<1>3. p \in M /\ r \in Empties(M, p)
  BY <1>2
<1> QED BY <1>1, <1>2, <1>3, WrittenStays

(* What both orders of two edits do to the keys: K1 and K12 when p is edited *)
(* first, K2 and K21 when q is.                                              *)
LEMMA EmptiedFirst ==
  ASSUME NEW D, NEW K, NEW p, NEW v, NEW q, NEW w, ~ Comparable(p, q),
         NEW D1, NEW K1, NEW B1, Turned(D, K, D1, K1, p, v, B1),
         NEW D12, NEW K12, NEW B12, Turned(D1, K1, D12, K12, q, w, B12),
         NEW D2, NEW K2, NEW B2, Turned(D, K, D2, K2, q, w, B2),
         NEW b \in B2
  PROVE  b \in K /\ Holds(K, b) /\ (b \in B12 \/ (v # Nothing /\ IsStrictPrefix(b, p)))
<1>1. w = Nothing /\ q \in K /\ B2 = Empties(K, q) /\ q \in KeyPath /\ p \in KeyPath /\ \A k \in K : k \in KeyPath
  BY Zenon DEF Turned, Told
<1>2. b \in K /\ b \in KeyPath /\ IsPrefix(b, q) /\ b # q /\ \A k \in K : IsStrictPrefix(b, k) => Comparable(k, q)
  BY <1>1 DEF Empties, IsStrictPrefix
<1>3. ~ IsPrefix(p, q) /\ ~ IsPrefix(q, p)
  BY DEF Comparable
<1>4. ~ IsPrefix(p, b)
  BY <1>1, <1>2, <1>3, PathOrder
<1>5. Holds(K, b)
  BY <1>1, <1>2 DEF Holds, IsStrictPrefix
<1>6. /\ \A k \in K : Comparable(k, p) \/ k \in K1
      /\ \A k \in K1 : k \in KeyPath /\ (k \in K \/ IsPrefix(k, p))
  BY Zenon DEF Turned, Told
<1>7. q \in K1
  BY <1>1, <1>3, <1>6 DEF Comparable
<1>8. B12 = Empties(K1, q)
  BY <1>1, <1>7, Zenon DEF Turned
<1>9. CASE ~ IsPrefix(b, p)
  <2>1. b \in K1
    BY <1>2, <1>4, <1>6, <1>9 DEF Comparable
  <2>2. ASSUME NEW k \in K1, IsStrictPrefix(b, k) PROVE Comparable(k, q)
    <3>1. IsPrefix(b, k) /\ k \in KeyPath
      BY <1>6, <2>2 DEF IsStrictPrefix
    <3>2. ~ IsPrefix(k, p)
      BY <1>1, <1>2, <1>9, <3>1, PathOrder
    <3> QED BY <1>2, <1>6, <2>2, <3>2
  <2>3. b \in Empties(K1, q)
    BY <1>2, <2>1, <2>2 DEF Empties, IsStrictPrefix
  <2> QED BY <1>2, <1>5, <1>8, <2>3
<1>10. CASE IsPrefix(b, p)
  <2>1. b # p
    BY <1>1, <1>4, PathOrder
  <2>2. IsStrictPrefix(b, p)
    BY <1>10, <2>1 DEF IsStrictPrefix
  <2>3. p \notin K
    <3> SUFFICES ASSUME p \in K PROVE FALSE
      OBVIOUS
    <3>1. Comparable(p, q)
      BY <1>2, <2>2
    <3> QED BY <3>1
  <2>4. v = Nothing => K1 = K
    BY <2>3, Zenon DEF Turned
  <2>5. v = Nothing => b \in B12
    BY <1>1, <1>8, <2>4
  <2> QED BY <1>2, <1>5, <2>2, <2>5
<1> QED BY <1>9, <1>10
LEMMA EmptiedLast ==
  ASSUME NEW D, NEW K, NEW p, NEW v, NEW q, NEW w, ~ Comparable(p, q),
         NEW D1, NEW K1, NEW B1, Turned(D, K, D1, K1, p, v, B1),
         NEW D12, NEW K12, NEW B12, Turned(D1, K1, D12, K12, q, w, B12),
         NEW D2, NEW K2, NEW B2, Turned(D, K, D2, K2, q, w, B2),
         NEW D21, NEW K21, NEW B21, Turned(D2, K2, D21, K21, p, v, B21),
         NEW b \in B21
  PROVE  b \in B1 \/ b \in B12
<1>1. v = Nothing /\ p \in K2 /\ B21 = Empties(K2, p) /\ q \in KeyPath /\ p \in KeyPath /\ \A k \in K2 : k \in KeyPath
  BY Zenon DEF Turned, Told
<1>2. b \in K2 /\ b \in KeyPath /\ IsPrefix(b, p) /\ b # p /\ \A k \in K2 : IsStrictPrefix(b, k) => Comparable(k, p)
  BY <1>1 DEF Empties, IsStrictPrefix
<1>3. ~ IsPrefix(p, q) /\ ~ IsPrefix(q, p)
  BY DEF Comparable
<1>4. /\ \A k \in K : k \in KeyPath
      /\ \A k \in K : Comparable(k, p) \/ k \in K1
      /\ \A k \in K : Comparable(k, q) \/ k \in K2
      /\ \A k \in K2 : k \in K \/ IsPrefix(k, q)
  BY Zenon DEF Turned, Told
<1>5. p \in K
  BY <1>1, <1>3, <1>4
<1>6. B1 = Empties(K, p) /\ \A k : k \in K1 <=> k \in K /\ ~ IsPrefix(p, k) /\ k \notin B1
  BY <1>1, <1>5, Zenon DEF Turned
<1>7. ~ IsPrefix(q, b) /\ ~ IsPrefix(p, b)
  BY <1>1, <1>2, <1>3, PathOrder
<1>8. w # Nothing => ~ IsPrefix(b, q)
  <2> SUFFICES ASSUME w # Nothing PROVE ~ IsPrefix(b, q)
    OBVIOUS
  <2>1. \A r \in B21 : ~ IsPrefix(r, q)
    BY SetStays
  <2> QED BY <2>1
<1>9. w = Nothing => (q \in K /\ \A k : k \in K2 <=> k \in K /\ ~ IsPrefix(q, k) /\ k \notin B2) \/ K2 = K
  BY Zenon DEF Turned
<1>10. b \in K
  BY <1>2, <1>4, <1>8, <1>9
<1> SUFFICES ASSUME b \notin B1 PROVE b \in B12
  OBVIOUS
<1>11. PICK k \in K : IsStrictPrefix(b, k) /\ ~ Comparable(k, p)
  <2>1. IsStrictPrefix(b, p)
    BY <1>2 DEF IsStrictPrefix
  <2> QED BY <1>6, <1>10, <2>1 DEF Empties
<1>12. k \notin K2 /\ Comparable(k, q) /\ k \in KeyPath /\ IsPrefix(b, k)
  BY <1>2, <1>4, <1>11 DEF IsStrictPrefix
<1>13. IsPrefix(b, q) /\ b # q
  <2>1. CASE IsPrefix(k, q)
    BY <1>1, <1>2, <1>3, <1>12, <2>1, PathOrder
  <2>2. CASE IsPrefix(q, k)
    BY <1>1, <1>2, <1>3, <1>7, <1>12, <2>2, PathOrder
  <2> QED BY <1>12, <2>1, <2>2 DEF Comparable
<1>14. w = Nothing /\ q \in K /\ \A j : j \in K2 <=> j \in K /\ ~ IsPrefix(q, j) /\ j \notin B2
  BY <1>8, <1>9, <1>11, <1>12, <1>13
<1>15. q \in K1 /\ b \in K1
  BY <1>3, <1>4, <1>6, <1>7, <1>10, <1>14 DEF Comparable
<1>16. B12 = Empties(K1, q)
  BY <1>14, <1>15, Zenon DEF Turned
<1>17. ASSUME NEW j \in K1, IsStrictPrefix(b, j), ~ Comparable(j, q) PROVE FALSE
  <2>1. j \in K /\ ~ IsPrefix(p, j) /\ j \notin B1 /\ j \in KeyPath /\ j \in K2 /\ IsPrefix(b, j) /\ b # j
    BY <1>4, <1>6, <1>17 DEF IsStrictPrefix
  <2>2. IsPrefix(j, p) /\ j # p
    <3>1. Comparable(j, p)
      BY <1>2, <1>17, <2>1
    <3> QED BY <1>1, <2>1, <3>1, PathOrder DEF Comparable
  <2>3. PICK y \in K : IsStrictPrefix(j, y) /\ ~ Comparable(y, p)
    <3>1. IsStrictPrefix(j, p)
      BY <2>2 DEF IsStrictPrefix
    <3> QED BY <1>6, <2>1, <3>1 DEF Empties
  <2>4. IsPrefix(j, y) /\ y \in KeyPath
    BY <1>4, <2>3 DEF IsStrictPrefix
  <2>5. IsPrefix(b, y) /\ b # y
    BY <1>2, <2>1, <2>4, PathOrder
  <2>6. y \notin K2
    BY <1>2, <2>3, <2>5 DEF IsStrictPrefix
  <2>7. Comparable(y, q)
    BY <1>4, <2>6
  <2>8. IsPrefix(j, q) \/ IsPrefix(q, j)
    <3>1. CASE IsPrefix(y, q)
      BY <1>1, <2>1, <2>4, <3>1, PathOrder
    <3>2. CASE IsPrefix(q, y)
      BY <1>1, <2>1, <2>4, <3>2, PathOrder
    <3> QED BY <2>7, <3>1, <3>2 DEF Comparable
  <2> QED BY <1>17, <2>8 DEF Comparable
<1>18. b \in Empties(K1, q)
  BY <1>13, <1>15, <1>17 DEF Empties, IsStrictPrefix
<1> QED BY <1>16, <1>18

LEMMA OneOrder ==
  ASSUME NEW D, NEW K, NEW p, NEW v, NEW q, NEW w, ~ Comparable(p, q),
         NEW D1, NEW K1, NEW B1, Turned(D, K, D1, K1, p, v, B1),
         NEW D12, NEW K12, NEW B12, Turned(D1, K1, D12, K12, q, w, B12),
         NEW D2, NEW K2, NEW B2, Turned(D, K, D2, K2, q, w, B2),
         NEW D21, NEW K21, NEW B21, Turned(D2, K2, D21, K21, p, v, B21)
  PROVE  D12 \subseteq D21
<1> SUFFICES ASSUME NEW f \in D12 PROVE f \in D21
  OBVIOUS
<1>0. q \in KeyPath /\ p \in KeyPath /\ Told(D, K) /\ Told(D2, K2) /\ Told(D1, K1)
  BY Zenon DEF Turned
<1>1. ~ IsPrefix(p, q) /\ ~ IsPrefix(q, p)
  BY DEF Comparable
<1>2. \A x : x \in D1 <=> \/ x \in D /\ ~ IsPrefix(p, x[1]) /\ x[1] \notin B1
                          \/ v # Nothing /\ \E r \in Blocks(p) : x = <<r, Map>>
                          \/ v # Nothing /\ x = <<p, v>>
  BY Zenon DEF Turned
<1>3. \A x : x \in D12 <=> \/ x \in D1 /\ ~ IsPrefix(q, x[1]) /\ x[1] \notin B12
                           \/ w # Nothing /\ \E r \in Blocks(q) : x = <<r, Map>>
                           \/ w # Nothing /\ x = <<q, w>>
  BY Zenon DEF Turned
<1>4. \A x : x \in D2 <=> \/ x \in D /\ ~ IsPrefix(q, x[1]) /\ x[1] \notin B2
                          \/ w # Nothing /\ \E r \in Blocks(q) : x = <<r, Map>>
                          \/ w # Nothing /\ x = <<q, w>>
  BY Zenon DEF Turned
<1>5. \A x : x \in D21 <=> \/ x \in D2 /\ ~ IsPrefix(p, x[1]) /\ x[1] \notin B21
                           \/ v # Nothing /\ \E r \in Blocks(p) : x = <<r, Map>>
                           \/ v # Nothing /\ x = <<p, v>>
  BY Zenon DEF Turned
<1>6. CASE w # Nothing /\ ((\E r \in Blocks(q) : f = <<r, Map>>) \/ f = <<q, w>>)
  <2>1. f \in D2
    BY <1>4, <1>6
  <2>2. f[1] \in KeyPath /\ IsPrefix(f[1], q)
    <3>1. CASE f = <<q, w>>
      <4>1. f[1] = q
        BY <3>1
      <4> QED BY <1>0, <4>1, PathOrder
    <3>2. CASE \E r \in Blocks(q) : f = <<r, Map>>
      <4>1. PICK r \in Blocks(q) : f = <<r, Map>>
        BY <3>2
      <4>2. f[1] = r
        BY <4>1
      <4>3. r \in KeyPath /\ IsStrictPrefix(r, q)
        BY <1>0, BlocksAre
      <4> QED BY <4>2, <4>3 DEF IsStrictPrefix
    <3> QED BY <1>6, <3>1, <3>2
  <2>3. ~ IsPrefix(p, f[1])
    BY <1>0, <1>1, <2>2, PathOrder
  <2>4. f[1] \notin B21
    BY <1>6, <2>2, SetStays
  <2> QED BY <1>5, <2>1, <2>3, <2>4
<1>7. CASE v # Nothing /\ ((\E r \in Blocks(p) : f = <<r, Map>>) \/ f = <<p, v>>)
  BY <1>5, <1>7
<1>8. CASE f \in D /\ ~ IsPrefix(p, f[1]) /\ f[1] \notin B1 /\ ~ IsPrefix(q, f[1]) /\ f[1] \notin B12
  <2>1. f[1] \notin B21
    BY <1>8, EmptiedLast
  <2>2. CASE f[1] \notin B2
    BY <1>4, <1>5, <1>8, <2>1, <2>2
  <2>3. CASE f[1] \in B2
    <3> DEFINE b == f[1]
    <3>1. b \in K /\ Holds(K, b) /\ v # Nothing /\ IsStrictPrefix(b, p)
      BY <1>8, <2>3, EmptiedFirst
    <3>2. f = <<b, Map>>
      BY <1>0, <1>8, <3>1, Zenon DEF Told
    <3>3. b \in KeyPath /\ b # <<>>
      BY <1>0, <3>1, Zenon DEF Told
    <3>4. b \in Blocks(p)
      BY <1>0, <3>1, <3>3, BlocksAre
    <3> HIDE DEF b
    <3> QED BY <1>5, <3>1, <3>2, <3>4
  <2> QED BY <2>2, <2>3
<1>9. \/ w # Nothing /\ ((\E r \in Blocks(q) : f = <<r, Map>>) \/ f = <<q, w>>)
      \/ f \in D1 /\ ~ IsPrefix(q, f[1]) /\ f[1] \notin B12
  BY <1>3, Zenon
<1>10. f \in D1 => \/ f \in D /\ ~ IsPrefix(p, f[1]) /\ f[1] \notin B1
                   \/ v # Nothing /\ ((\E r \in Blocks(p) : f = <<r, Map>>) \/ f = <<p, v>>)
  BY <1>2, Zenon
<1> QED BY <1>6, <1>7, <1>8, <1>9, <1>10

(* What a text reads as is told by its keys.                                 *)
LEMMA HoldsIs ==
  ASSUME NEW t, NEW k \in LiveKeys(t)
  PROVE  Holds(KeysOf(t), PathIn(t, k)) <=> Nests(t, k)
BY DEF Holds, KeysOf, Nests

LEMMA ToldIs ==
  ASSUME NEW t, Lines(t), WellFormed(t)
  PROVE  Told(Decode(t), KeysOf(t))
<1>1. \A x \in KeysOf(t) : \E k \in LiveKeys(t) : x = PathIn(t, k)
  BY DEF KeysOf
<1>2. \A k \in LiveKeys(t) : PathIn(t, k) \in KeysOf(t) /\ PathIn(t, k) \in KeyPath /\ PathIn(t, k) # <<>>
  BY PathIs DEF KeysOf, PathAsSaid
<1>3. ASSUME NEW f \in Decode(t)
      PROVE  \E k \in LiveKeys(t) : /\ FactOf(t, k, f) /\ f[1] \in KeyPath /\ IsPrefix(PathIn(t, k), f[1])
                                    /\ PathIn(t, k) = f[1] \/ (t[k].form = "flow" /\ ~ Nests(t, k))
  <2>1. PICK k \in LiveKeys(t) : FactOf(t, k, f)
    BY DecodeIs
  <2>2. f[1] \in KeyPath /\ IsPrefix(PathIn(t, k), f[1]) /\ (f[1] = PathIn(t, k) \/ t[k].form = "flow")
    BY <2>1, FactIs
  <2>3. Nests(t, k) => t[k].form = "nest"
    BY NestsIs
  <2> QED BY <2>1, <2>2, <2>3
<1>4. ASSUME NEW f \in Decode(t), f[1] \in KeysOf(t), Holds(KeysOf(t), f[1]) PROVE f = <<f[1], Map>>
  <2>1. PICK m \in LiveKeys(t) : f[1] = PathIn(t, m)
    BY <1>1, <1>4
  <2>2. Nests(t, m)
    BY <1>4, <2>1, HoldsIs
  <2>3. PICK k \in LiveKeys(t) : /\ FactOf(t, k, f) /\ IsPrefix(PathIn(t, k), f[1])
                                 /\ PathIn(t, k) = f[1] \/ (t[k].form = "flow" /\ ~ Nests(t, k))
    BY <1>3
  <2>4. PathIn(t, k) = f[1]
    <3> SUFFICES ASSUME PathIn(t, k) # f[1] PROVE FALSE
      OBVIOUS
    <3>1. IsStrictPrefix(PathIn(t, k), PathIn(t, m))
      BY <2>1, <2>3 DEF IsStrictPrefix
    <3>2. Nests(t, k)
      BY <3>1 DEF Nests
    <3> QED BY <2>3, <3>2
  <2>5. k = m
    BY <2>1, <2>4, WellFormedIs DEF PathsDiffer
  <2>6. t[k].form = "nest" /\ Nests(t, k)
    BY <2>2, <2>5, NestsIs
  <2>7. ReadAs(t, k) = Map
    BY <2>6, ReadAsIs
  <2>8. ~ \E q \in DOMAIN t[k].flow : TRUE
    <3>1. IsLine(t[k])
      BY LinesAre
    <3>2. \A q \in DOMAIN t[k].flow : t[k].form = "flow"
      BY <3>1, Zenon DEF IsLine
    <3> QED BY <2>6, <3>2
  <2>9. f = <<PathIn(t, k), Map>>
    BY <2>3, <2>7, <2>8 DEF FactOf
  <2> QED BY <2>4, <2>9
<1>5. ASSUME NEW f \in Decode(t)
      PROVE  f[1] \in KeyPath /\ \E k \in KeysOf(t) : IsPrefix(k, f[1]) /\ (k = f[1] \/ ~ Holds(KeysOf(t), k))
  <2>1. PICK k \in LiveKeys(t) : /\ f[1] \in KeyPath /\ IsPrefix(PathIn(t, k), f[1])
                                 /\ PathIn(t, k) = f[1] \/ ~ Nests(t, k)
    BY <1>3
  <2>2. PathIn(t, k) \in KeysOf(t) /\ (Holds(KeysOf(t), PathIn(t, k)) <=> Nests(t, k))
    BY <1>2, HoldsIs
  <2> QED BY <2>1, <2>2
<1> QED BY <1>1, <1>2, <1>4, <1>5, Zenon DEF Told
(* The keys an edit loses are at its path, the keys it adds lead there.      *)
LEMMA EditedKeys ==
  ASSUME NEW t, Lines(t), WellFormed(t), NEW p, NEW n, NEW a, NEW L, NEW ks, Edited(t, p, n, a, L, ks)
  PROVE  /\ \A k \in KeysOf(t) : Comparable(k, p) \/ k \in KeysOf(After(t, n, a, L))
         /\ \A k \in KeysOf(After(t, n, a, L)) : k \in KeysOf(t) \/ IsPrefix(k, p)
<1> DEFINE u == After(t, n, a, L)
           e == EndIn(t, n)
           d == Shift(t, n, a, L)
<1>1. Spliced(t, u, n, a, e, d, L, ks)
  BY EditedKeeps
<1>2. /\ a = n => IsPrefix(PathIn(t, n), p) /\ \A j \in LiveKeys(t) : Under(t, n, j) => Comparable(PathIn(t, j), p)
      /\ Leads(t, n, ks, p)
  BY DEF Edited
<1> HIDE DEF u, e, d
<1>3. ASSUME NEW k \in KeysOf(t) PROVE Comparable(k, p) \/ k \in KeysOf(u)
  <2>1. PICK m \in LiveKeys(t) : k = PathIn(t, m)
    BY DEF KeysOf
  <2>2. CASE Kept(t, a, e, m)
    <3>1. At(a, d, m) \in LiveKeys(u) /\ PathIn(u, At(a, d, m)) = k
      BY <1>1, <2>1, <2>2, KeptIs
    <3> QED BY <3>1 DEF KeysOf
  <2>3. CASE ~ Kept(t, a, e, m)
    <3>1. a = n /\ (m = n \/ Under(t, n, m))
      BY <1>1, <2>3, LostIs
    <3> QED BY <1>2, <2>1, <3>1 DEF Comparable
  <2> QED BY <2>2, <2>3
<1>4. ASSUME NEW k \in KeysOf(u) PROVE k \in KeysOf(t) \/ IsPrefix(k, p)
  <2>1. PICK j \in LiveKeys(u) : k = PathIn(u, j)
    BY DEF KeysOf
  <2>2. ASSUME NEW m, Kept(t, a, e, m), j = At(a, d, m) PROVE k \in KeysOf(t)
    <3>1. m \in LiveKeys(t) /\ PathIn(t, m) = k
      BY <1>1, <2>1, <2>2, KeptIs
    <3> QED BY <3>1 DEF KeysOf
  <2>3. ASSUME NEW i \in 1..Len(ks), j = a - 1 + i PROVE IsPrefix(k, p)
    <3>1. OnPath(PathIn(u, a - 1 + i), p, Len(Base(t, n)) + i)
      BY <1>1, <1>2, PathsNew
    <3> QED BY <2>1, <2>3, <3>1 DEF OnPath
  <2> QED BY <1>1, <2>2, <2>3, KeysAre
<1> QED BY <1>3, <1>4 DEF u

(* A flow mapping that is written again is the same key.                     *)
LEMMA FlowKeeps ==
  ASSUME NEW t, Lines(t), WellFormed(t), NEW p \in KeyPath, p # <<>>, NEW r, NEW v, IsSetInFlow(t, p, v, r)
  PROVE  KeysOf(r.text) = KeysOf(t)
<1> DEFINE n == FoundIn(t, p)
           L == <<SetLine(t, n, Rest(t, p), v)>>
           ks == <<t[n].key>>
           u == After(t, n, n, L)
           e == EndIn(t, n)
           d == Shift(t, n, n, L)
           x == PathIn(t, n)
<1>1. n \in LiveKeys(t) /\ t[n].form = "flow" /\ r.text = u /\ Edited(t, p, n, n, L, ks)
  BY DEF IsSetInFlow
<1>2. Edit(t, u, p, n, n, e, d, L, ks) /\ Len(ks) = 1
  BY <1>1, EditedIsEdit, OneIsSeq
<1>3. n \in Nat /\ n # 0 /\ x \in KeyPath /\ PathsDiffer(t) /\ ~ \E m \in LiveKeys(t) : Under(t, n, m)
  <2>1. n \in Nat /\ n # 0 /\ x \in KeyPath
    BY <1>1, LinesAre, PathIs DEF PathAsSaid
  <2>2. PathsDiffer(t)
    BY WellFormedIs
  <2>3. ~ Nests(t, n)
    BY <1>1, NestsIs
  <2>4. ~ \E m \in LiveKeys(t) : Under(t, n, m)
    BY <1>1, <2>3, NestsIs
  <2> QED BY <2>1, <2>2, <2>4
<1>4. IsPrefix(x, p)
  BY <1>1, <1>3, FoundIs
<1>5. Len(x) = Len(Base(t, n)) + 1
  BY <1>1, BaseIs
<1> HIDE DEF n, L, ks, u, e, d, x
<1>6. Spliced(t, u, n, n, e, d, L, ks) /\ Leads(t, n, ks, p)
  BY <1>2 DEF Edit
<1>7. n \in LiveKeys(u) /\ PathIn(u, n) = x
  <2>1. 1 \in 1..Len(ks) /\ n - 1 + 1 = n
    BY <1>2, <1>3
  <2>2. n - 1 + 1 \in LiveKeys(u) /\ OnPath(PathIn(u, n - 1 + 1), p, Len(Base(t, n)) + 1)
    BY <1>6, <2>1, PathsNew
  <2> DEFINE z == PathIn(u, n)
  <2>3. n \in LiveKeys(u) /\ z \in KeyPath /\ IsPrefix(z, p) /\ Len(z) = Len(x)
    BY <1>5, <2>1, <2>2 DEF OnPath
  <2>4. Len(x) \in Nat
    BY <1>3, PrefixIs
  <2> HIDE DEF z
  <2>5. IsPrefix(z, x)
    BY <1>3, <1>4, <2>3, <2>4, PrefixOrder
  <2>6. z = x
    BY <1>3, <2>3, <2>5, PrefixOrder
  <2> QED BY <2>3, <2>6 DEF z
<1>8. ASSUME NEW k \in KeysOf(t) PROVE k \in KeysOf(u)
  <2>1. PICK m \in LiveKeys(t) : k = PathIn(t, m)
    BY DEF KeysOf
  <2>2. CASE Kept(t, n, e, m)
    <3>1. At(n, d, m) \in LiveKeys(u) /\ PathIn(u, At(n, d, m)) = k
      BY <1>6, <2>1, <2>2, KeptIs
    <3> QED BY <3>1 DEF KeysOf
  <2>3. CASE ~ Kept(t, n, e, m)
    <3>1. m = n
      BY <1>3, <1>6, <2>3, LostIs
    <3> QED BY <1>7, <2>1, <3>1 DEF KeysOf, x
  <2> QED BY <2>2, <2>3
<1>9. ASSUME NEW k \in KeysOf(u) PROVE k \in KeysOf(t)
  <2>1. PICK j \in LiveKeys(u) : k = PathIn(u, j)
    BY DEF KeysOf
  <2>2. ASSUME NEW m, Kept(t, n, e, m), j = At(n, d, m) PROVE k \in KeysOf(t)
    <3>1. m \in LiveKeys(t) /\ PathIn(t, m) = k
      BY <1>6, <2>1, <2>2, KeptIs
    <3> QED BY <3>1 DEF KeysOf
  <2>3. ASSUME NEW i \in 1..Len(ks), j = n - 1 + i PROVE k \in KeysOf(t)
    <3>1. j = n
      BY <1>2, <1>3, <2>3
    <3> QED BY <1>1, <1>7, <2>1, <3>1 DEF KeysOf, x
  <2> QED BY <1>6, <2>2, <2>3, KeysAre
<1> QED BY <1>1, <1>8, <1>9

(* What an emptied block holds is at or below what is removed, or is emptied *)
(* itself.                                                                   *)
LEMMA EmptiedBelow ==
  ASSUME NEW K, \A k \in K : k \in KeyPath, NEW p \in K, NEW b \in Empties(K, p), NEW y \in K, IsPrefix(b, y)
  PROVE  IsPrefix(p, y) \/ y \in Empties(K, p)
<1> SUFFICES ASSUME ~ IsPrefix(p, y), y # b PROVE y \in Empties(K, p)
  OBVIOUS
<1>1. b \in KeyPath /\ p \in KeyPath /\ y \in KeyPath /\ \A k \in K : IsStrictPrefix(b, k) => Comparable(k, p)
  BY DEF Empties
<1>2. IsStrictPrefix(y, p)
  <2>1. Comparable(y, p)
    BY <1>1 DEF IsStrictPrefix
  <2>2. IsPrefix(y, p)
    BY <2>1 DEF Comparable
  <2> QED BY <1>1, <2>2, PathOrder DEF IsStrictPrefix
<1>3. ASSUME NEW k \in K, IsStrictPrefix(y, k) PROVE Comparable(k, p)
  <2>1. IsPrefix(y, k) /\ y # k
    BY <1>3 DEF IsStrictPrefix
  <2>2. IsPrefix(b, k) /\ b # k
    BY <1>1, <2>1, PathOrder
  <2> QED BY <1>1, <2>2 DEF IsStrictPrefix
<1> QED BY <1>2, <1>3 DEF Empties

(* The keys that are left when an entry is removed.                          *)
LEMMA RemovedKeys ==
  ASSUME NEW t, Lines(t), WellFormed(t), NEW p \in KeyPath, p # <<>>, NEW r, IsRemoved(t, p, r)
  PROVE  /\ p \in KeysOf(t) /\ r.pruned = Empties(KeysOf(t), p)
         /\ \A k : k \in KeysOf(r.text) <=> k \in KeysOf(t) /\ ~ IsPrefix(p, k) /\ k \notin r.pruned
<1>1. PICK n \in LiveKeys(t) :
         LET m == TopIn(t, n)
         IN  /\ PathIn(t, n) = p /\ r.pruned = {PathIn(t, k) : k \in EmptiedIn(t, n)}
             /\ r.text = After(t, m, m, <<>>) /\ Edited(t, p, m, m, <<>>, <<>>)
  BY DEF IsRemoved
<1> DEFINE m == TopIn(t, n)
           u == After(t, m, m, <<>>)
           e == EndIn(t, m)
           d == Shift(t, m, m, <<>>)
           ks == <<>>
           K == KeysOf(t)
           B == Empties(K, p)
           top == PathIn(t, m)
<1>2. Spliced(t, u, m, m, e, d, <<>>, ks) /\ Len(ks) = 0
  <2>1. Edit(t, u, p, m, m, e, d, <<>>, ks)
    BY <1>1, EditedIsEdit
  <2> QED BY <2>1, NoneIsSeq DEF Edit
<1>3. r.text = u /\ PathIn(t, n) = p /\ p \in K
  BY <1>1 DEF KeysOf
<1>4. \A x : x \in K <=> \E k \in LiveKeys(t) : x = PathIn(t, k)
  BY DEF KeysOf
<1>5. r.pruned = B
  <2>1. \A x : x \in r.pruned <=> \E k \in EmptiedIn(t, n) : x = PathIn(t, k)
    BY <1>1
  <2>2. \A k : k \in EmptiedIn(t, n) <=>
          /\ k \in LiveKeys(t) /\ IsStrictPrefix(PathIn(t, k), p)
          /\ \A j \in LiveKeys(t) : IsStrictPrefix(PathIn(t, k), PathIn(t, j)) => Comparable(PathIn(t, j), p)
    BY <1>3 DEF EmptiedIn, AboveIn
  <2>3. \A x : x \in B <=> /\ x \in K /\ IsStrictPrefix(x, p)
                           /\ \A j \in K : IsStrictPrefix(x, j) => Comparable(j, p)
    BY DEF Empties
  <2> HIDE DEF K, B
  <2>4. ASSUME NEW x \in r.pruned PROVE x \in B
    <3>1. PICK k \in EmptiedIn(t, n) : x = PathIn(t, k)
      BY <2>1
    <3>2. /\ k \in LiveKeys(t) /\ IsStrictPrefix(x, p)
          /\ \A j \in LiveKeys(t) : IsStrictPrefix(x, PathIn(t, j)) => Comparable(PathIn(t, j), p)
      BY <2>2, <3>1
    <3>3. x \in K /\ \A j \in K : IsStrictPrefix(x, j) => Comparable(j, p)
      BY <1>4, <3>1, <3>2
    <3> QED BY <2>3, <3>2, <3>3
  <2>5. \A x \in B : x \in r.pruned
    BY <1>4, <2>1, <2>2, <2>3, Zenon
  <2> QED BY <2>4, <2>5
<1>6. m \in LiveKeys(t) /\ (m = n \/ m \in EmptiedIn(t, n)) /\ PathsDiffer(t) /\ IsPrefix(top, p)
  BY <1>3, TopIs, WellFormedIs
<1>7. \A w \in EmptiedIn(t, n) : w \in LiveKeys(t) /\ IsPrefix(top, PathIn(t, w))
  <2>1. \A w \in EmptiedIn(t, n) : w \in LiveKeys(t)
    BY DEF EmptiedIn, AboveIn
  <2> QED BY <2>1, TopIsAbove
<1>8. \A k \in K : k \in KeyPath
  BY <1>4, PathIs DEF PathAsSaid
<1>9. top \in K /\ (top = p \/ top \in B)
  <2>1. m \in EmptiedIn(t, n) => top \in r.pruned
    BY <1>1
  <2> QED BY <1>3, <1>4, <1>5, <1>6, <2>1
<1>10. \A b \in B : IsPrefix(top, b)
  <2>1. \A b \in r.pruned : IsPrefix(top, b)
    BY <1>1, <1>7
  <2> QED BY <1>5, <2>1
<1>11. \A k \in LiveKeys(t) : Kept(t, m, e, k) <=> ~ IsPrefix(top, PathIn(t, k))
  <2>1. \A k \in LiveKeys(t) : IsPrefix(top, PathIn(t, k)) <=> m = k \/ Under(t, m, k)
    BY <1>6, BelowIsUnder
  <2>2. \A k \in LiveKeys(t) : ~ Kept(t, m, e, k) <=> m = k \/ Under(t, m, k)
    BY <1>2, LostIs
  <2> QED BY <2>1, <2>2
<1> HIDE DEF m, u, e, d, ks, K, B, top
<1>12. ASSUME NEW y \in K PROVE IsPrefix(top, y) <=> IsPrefix(p, y) \/ y \in B
  <2>1. ASSUME IsPrefix(top, y) PROVE IsPrefix(p, y) \/ y \in B
    <3>1. top \in B => IsPrefix(p, y) \/ y \in B
      BY <1>3, <1>8, <2>1, EmptiedBelow DEF B
    <3> QED BY <1>9, <2>1, <3>1
  <2>2. IsPrefix(p, y) => IsPrefix(top, y)
    BY <1>3, <1>6, <1>8, <1>9, PathOrder
  <2> QED BY <1>10, <2>1, <2>2
<1>13. \A k : k \in KeysOf(u) <=> k \in K /\ ~ IsPrefix(top, k)
  <2>1. ASSUME NEW k \in KeysOf(u) PROVE k \in K /\ ~ IsPrefix(top, k)
    <3>1. PICK j \in LiveKeys(u) : k = PathIn(u, j)
      BY DEF KeysOf
    <3>2. \A i : i \notin 1..Len(ks)
      BY <1>2
    <3>3. PICK z : Kept(t, m, e, z) /\ j = At(m, d, z)
      BY <1>2, <3>2, KeysAre
    <3>4. z \in LiveKeys(t) /\ PathIn(t, z) = k
      BY <1>2, <3>1, <3>3, KeptIs
    <3> QED BY <1>4, <1>11, <3>3, <3>4
  <2>2. ASSUME NEW k \in K, ~ IsPrefix(top, k) PROVE k \in KeysOf(u)
    <3>1. PICK z \in LiveKeys(t) : k = PathIn(t, z)
      BY <1>4
    <3>2. Kept(t, m, e, z)
      BY <1>11, <2>2, <3>1
    <3>3. At(m, d, z) \in LiveKeys(u) /\ PathIn(u, At(m, d, z)) = k
      BY <1>2, <3>1, <3>2, KeptIs
    <3> QED BY <3>3 DEF KeysOf
  <2> QED BY <2>1, <2>2
<1> QED BY <1>3, <1>5, <1>12, <1>13 DEF K, B

(* What is told below an emptied block is told of the block itself, or is at *)
(* or below what is removed.                                                 *)
LEMMA EmptiedAlone ==
  ASSUME NEW D, NEW K, Told(D, K), NEW p \in K, NEW f \in D, ~ IsPrefix(p, f[1]),
         NEW b \in Empties(K, p), IsPrefix(b, f[1])
  PROVE  f[1] \in Empties(K, p)
<1>1. /\ \A k \in K : k \in KeyPath
      /\ f[1] \in KeyPath /\ \E k \in K : IsPrefix(k, f[1]) /\ (k = f[1] \/ ~ Holds(K, k))
  BY DEF Told
<1>2. PICK k \in K : IsPrefix(k, f[1]) /\ (k = f[1] \/ ~ Holds(K, k))
  BY <1>1
<1>3. b \in K /\ b \in KeyPath /\ p \in KeyPath /\ k \in KeyPath /\ IsStrictPrefix(b, p)
  BY <1>1 DEF Empties
<1>4. ~ IsPrefix(p, k)
  BY <1>1, <1>2, <1>3, PathOrder
<1>5. IsPrefix(b, k) \/ IsPrefix(k, b)
  BY <1>1, <1>2, <1>3, PathOrder
<1>6. CASE IsPrefix(b, k)
  <2>1. k \in Empties(K, p)
    BY <1>1, <1>4, <1>6, EmptiedBelow
  <2>2. Holds(K, k)
    BY <2>1 DEF Holds, Empties
  <2> QED BY <1>2, <2>1, <2>2
<1>7. CASE IsPrefix(k, b) /\ ~ IsPrefix(b, k)
  <2>1. k # b
    BY <1>3, <1>7
  <2>2. Holds(K, k)
    BY <1>3, <1>7, <2>1 DEF Holds, IsStrictPrefix
  <2> QED BY <1>2, <1>7, <2>2
<1> QED BY <1>5, <1>6, <1>7
LEMMA TurnedIs ==
  ASSUME NEW t, Lines(t), WellFormed(t), NoKeep(t), NEW e, IsEdit(e), PatchFrontmatter(t, e).ok
  PROVE  LET r == PatchFrontmatter(t, e)
         IN  Turned(Decode(t), KeysOf(t), Decode(r.text), KeysOf(r.text), e.path, e.value, r.pruned)
<1> DEFINE r == PatchFrontmatter(t, e)
           p == e.path
           v == e.value
           D == Decode(t)
           K == KeysOf(t)
           E == Decode(r.text)
           M == KeysOf(r.text)
           B == r.pruned
           Facts == \A f : f \in E <=> \/ f \in D /\ ~ IsPrefix(p, f[1]) /\ f[1] \notin B
                                       \/ v # Nothing /\ \E q \in Blocks(p) : f = <<q, Map>>
                                       \/ v # Nothing /\ f = <<p, v>>
           Beside == /\ \A k \in K : Comparable(k, p) \/ k \in M
                     /\ \A k \in M : k \in K \/ IsPrefix(k, p)
           Gone == v = Nothing /\ p \in K =>
                     B = Empties(K, p) /\ \A k : k \in M <=> k \in K /\ ~ IsPrefix(p, k) /\ k \notin B
           NotGone == v = Nothing /\ p \notin K => B = {} /\ M = K
           NotLost == v # Nothing => B = {}
<1>1. p \in KeyPath /\ p # <<>> /\ v \in KeyPath
  BY DEF IsEdit
<1>2. PatchedAs(t, p, v, r)
  BY EditIs
<1>3. Told(D, K)
  BY ToldIs
<1>4. Told(E, M)
  <2>1. Lines(r.text) /\ WellFormed(r.text)
    BY EditKeeps
  <2> QED BY <2>1, ToldIs
<1> HIDE DEF r, p, v
<1>5. Beside
  <2>1. r.text = t \/ \E n, a, L, ks : r.text = After(t, n, a, L) /\ Edited(t, p, n, a, L, ks)
    BY <1>2, EditedAs
  <2>2. ASSUME NEW n, NEW a, NEW L, NEW ks, r.text = After(t, n, a, L), Edited(t, p, n, a, L, ks) PROVE Beside
    BY <2>2, EditedKeys
  <2>3. r.text = t => Beside
    OBVIOUS
  <2> HIDE DEF Beside
  <2> QED BY <2>1, <2>2, <2>3
<1>6. Rest(t, p) # <<>> => p \notin K
  <2> SUFFICES ASSUME Rest(t, p) # <<>>, p \in K PROVE FALSE
    OBVIOUS
  <2>1. PICK k \in LiveKeys(t) : p = PathIn(t, k)
    BY DEF KeysOf
  <2>2. IsPrefix(p, PathIn(t, k))
    BY <1>1, <2>1, PathOrder
  <2> QED BY <1>1, <2>2, NotThere
<1>7. CASE v = Nothing /\ IsNothing(t, p, r)
  <2>1. r.text = t /\ B = {} /\ \A f \in D : ~ IsPrefix(p, f[1])
    BY <1>1, <1>7, NothingReads
  <2>2. E = D /\ M = K /\ p \notin K
    BY <1>6, <1>7, <2>1 DEF IsNothing
  <2> HIDE DEF D, K, E, M, B
  <2>3. Facts
    BY <1>7, <2>1, <2>2, Zenon
  <2>4. Gone /\ NotGone /\ NotLost
    BY <1>7, <2>1, <2>2
  <2> HIDE DEF Facts, Beside, Gone, NotGone, NotLost
  <2>5. Facts /\ Beside /\ Gone /\ NotGone /\ NotLost
    BY <1>5, <2>3, <2>4
  <2> QED BY <1>1, <1>3, <1>4, <2>5, Zenon DEF Turned, Facts, Beside, Gone, NotGone, NotLost, D, K, E, M, B, r, p, v
<1>8. CASE v # Nothing /\ IsSet(t, p, v, r)
  <2>1. \A f : f \in E <=> \/ f \in D /\ ~ IsPrefix(p, f[1])
                           \/ \E q \in Blocks(p) : f = <<q, Map>>
                           \/ f = <<p, v>>
    BY <1>1, <1>8, SetReads
  <2>2. B = {}
    BY <1>8 DEF IsSet
  <2> HIDE DEF D, K, E, M, B
  <2>3. Facts
    BY <1>8, <2>1, <2>2, Zenon
  <2>4. Gone /\ NotGone /\ NotLost
    BY <1>8, <2>2
  <2> HIDE DEF Facts, Beside, Gone, NotGone, NotLost
  <2>5. Facts /\ Beside /\ Gone /\ NotGone /\ NotLost
    BY <1>5, <2>3, <2>4
  <2> QED BY <1>1, <1>3, <1>4, <2>5, Zenon DEF Turned, Facts, Beside, Gone, NotGone, NotLost, D, K, E, M, B, r, p, v
<1>9. CASE IsSetInFlow(t, p, v, r)
  <2>1. \A f : f \in E <=> \/ f \in D /\ ~ IsPrefix(p, f[1])
                           \/ v # Nothing /\ \E q \in Blocks(p) : f = <<q, Map>>
                           \/ v # Nothing /\ f = <<p, v>>
    BY <1>1, <1>9, FlowReads
  <2>2. B = {} /\ p \notin K
    BY <1>6, <1>9 DEF IsSetInFlow
  <2>3. M = K
    BY <1>1, <1>9, FlowKeeps
  <2> HIDE DEF D, K, E, M, B
  <2>4. Facts
    BY <2>1, <2>2, Zenon
  <2>5. Gone /\ NotGone /\ NotLost
    BY <2>2, <2>3
  <2> HIDE DEF Facts, Beside, Gone, NotGone, NotLost
  <2>6. Facts /\ Beside /\ Gone /\ NotGone /\ NotLost
    BY <1>5, <2>4, <2>5
  <2> QED BY <1>1, <1>3, <1>4, <2>6, Zenon DEF Turned, Facts, Beside, Gone, NotGone, NotLost, D, K, E, M, B, r, p, v
<1>10. CASE v = Nothing /\ IsRemoved(t, p, r)
  <2>1. \A f : f \in E <=> f \in D /\ ~ IsPrefix(p, f[1]) /\ \A q \in B : ~ IsPrefix(q, f[1])
    BY <1>1, <1>10, RemovedReads
  <2>2. /\ p \in K /\ B = Empties(K, p)
        /\ \A k : k \in M <=> k \in K /\ ~ IsPrefix(p, k) /\ k \notin B
    BY <1>1, <1>10, RemovedKeys
  <2>3. \A f \in D : f[1] \in KeyPath
    BY <1>3 DEF Told
  <2>4. \A f \in D : ~ IsPrefix(p, f[1]) => ((\A q \in B : ~ IsPrefix(q, f[1])) <=> f[1] \notin B)
    <3> SUFFICES ASSUME NEW f \in D, ~ IsPrefix(p, f[1])
                 PROVE  (\A q \in B : ~ IsPrefix(q, f[1])) <=> f[1] \notin B
      OBVIOUS
    <3>1. IsPrefix(f[1], f[1])
      BY <2>3, PathOrder
    <3> HIDE DEF D, K, E, M, B
    <3>2. ASSUME NEW q \in B, IsPrefix(q, f[1]) PROVE f[1] \in B
      <4>1. q \in Empties(K, p)
        BY <2>2
      <4>2. f[1] \in Empties(K, p)
        BY <1>3, <2>2, <3>2, <4>1, EmptiedAlone
      <4> QED BY <2>2, <4>2
    <3> QED BY <3>1, <3>2
  <2> HIDE DEF D, K, E, M, B
  <2>5. Facts
    BY <1>10, <2>1, <2>4
  <2>6. Gone /\ NotGone /\ NotLost
    BY <1>10, <2>2
  <2> HIDE DEF Facts, Beside, Gone, NotGone, NotLost
  <2>7. Facts /\ Beside /\ Gone /\ NotGone /\ NotLost
    BY <1>5, <2>5, <2>6
  <2> QED BY <1>1, <1>3, <1>4, <2>7, Zenon DEF Turned, Facts, Beside, Gone, NotGone, NotLost, D, K, E, M, B, r, p, v
<1> HIDE DEF D, K, E, M, B
<1> QED BY <1>2, <1>7, <1>8, <1>9, <1>10, Zenon DEF PatchedAs, D, K, E, M, B, r, p, v

(* A text that reads the same whichever of two edits came first.             *)
LEMMA EitherFirst ==
  ASSUME NEW t, Lines(t), WellFormed(t), NoKeep(t), NEW x, IsEdit(x), NEW y, IsEdit(y), ~ Comparable(x.path, y.path),
         NEW r1, r1 = PatchFrontmatter(t, x), r1.ok, NEW r12, r12 = PatchFrontmatter(r1.text, y), r12.ok,
         NEW r2, r2 = PatchFrontmatter(t, y), r2.ok, NEW r21, r21 = PatchFrontmatter(r2.text, x), r21.ok
  PROVE  Decode(r12.text) = Decode(r21.text)
<1>1. Turned(Decode(t), KeysOf(t), Decode(r1.text), KeysOf(r1.text), x.path, x.value, r1.pruned)
  BY TurnedIs
<1>2. Turned(Decode(t), KeysOf(t), Decode(r2.text), KeysOf(r2.text), y.path, y.value, r2.pruned)
  BY TurnedIs
<1>3. Lines(r1.text) /\ WellFormed(r1.text) /\ NoKeep(r1.text) /\ Lines(r2.text) /\ WellFormed(r2.text) /\ NoKeep(r2.text)
  BY EditKeeps, EditReads
<1>4. Turned(Decode(r1.text), KeysOf(r1.text), Decode(r12.text), KeysOf(r12.text), y.path, y.value, r12.pruned)
  BY <1>3, TurnedIs
<1>5. Turned(Decode(r2.text), KeysOf(r2.text), Decode(r21.text), KeysOf(r21.text), x.path, x.value, r21.pruned)
  BY <1>3, TurnedIs
<1>6. ~ Comparable(y.path, x.path)
  BY DEF Comparable
<1>7. Decode(r12.text) \subseteq Decode(r21.text)
  BY <1>1, <1>2, <1>4, <1>5, OneOrder
<1>8. Decode(r21.text) \subseteq Decode(r12.text)
  BY <1>1, <1>2, <1>4, <1>5, <1>6, OneOrder
<1> QED BY <1>7, <1>8

(* exons.patch.go: edits of entries neither of which is in the other may come*)
(* in either order: PatchSource leaves the same document, the blocks that    *)
(* are emptied by the two removed whichever emptied them.                    *)
THEOREM EitherOrderWillDo == Spec => []OrderIsIrrelevant
<1>1. PatchInv /\ ReadsAsWanted => OrderIsIrrelevant
  <2> SUFFICES ASSUME PatchInv, ReadsAsWanted, Judged, ~ KeepsBlanks,
                      NEW d \in Edits, NEW e \in Edits, ~ Comparable(d.path, e.path),
                      PatchBoth(d, e).ok, PatchBoth(e, d).ok
               PROVE  Canonical(Decode(PatchBoth(d, e).text)) = Canonical(Decode(PatchBoth(e, d).text))
    BY DEF OrderIsIrrelevant, SameDocument
  <2>1. Lines(text) /\ WellFormed(text) /\ NoKeep(text) /\ IsEdit(d) /\ IsEdit(e)
    BY EditsAre DEF PatchInv, EditingInv, ReadsAsWanted, Judged
  <2> DEFINE r1 == PatchFrontmatter(text, d)
             r2 == PatchFrontmatter(text, e)
             r12 == PatchFrontmatter(r1.text, e)
             r21 == PatchFrontmatter(r2.text, d)
  <2>2. /\ r1.ok /\ PatchBoth(d, e) = r12
        /\ r2.ok /\ PatchBoth(e, d) = r21
    BY Zenon DEF PatchBoth, PatchNext
  <2>3. Decode(r12.text) = Decode(r21.text)
    <3>1. r12.ok /\ r21.ok
      BY <2>2
    <3> QED BY <2>1, <2>2, <3>1, EitherFirst
  <2> QED BY <2>2, <2>3
<1> QED BY <1>1, TextEditsAreDocumentEdits, PatchInvariant, PTL
=============================================================================
