---------------------------- MODULE LayersProofs ----------------------------
(***************************************************************************)
(* What holds of configurations for every stack of layers, every shape of   *)
(* merging and copying and any number of writes: the last layer to set a    *)
(* field decides, a merge of valid layers is valid, no configuration        *)
(* shares with another what it keeps its fields in, and each key of a       *)
(* request is one that one field of one layer asks for by itself.           *)
(***************************************************************************)
EXTENDS Layers, SequenceTheorems, FiniteSetTheorems, WellFoundedInduction, TLAPS

(* What no copy reaches is kept in cells of the layers it may be from.      *)
HeldByLayers(held, from) ==
  \A part \in DOMAIN held : \E j \in Range(from) : held[part] = <<j, part[1], part[2]>>

(* The cells of configuration k are its own, or else those of its layers.   *)
OwnCells(k) ==
  /\ \A f \in DOMAIN configs[k].cell : configs[k].cell[f] = <<k, f>>
  /\ DOMAIN configs[k].held = HeldIn(configs[k].set)
  /\ HeldByLayers(configs[k].held, configs[k].from)

(* What was written: fields of configurations that were changed, and what   *)
(* they hold of their layers.                                               *)
TouchedCells ==
  /\ written \subseteq DOMAIN configs
  /\ \A cell \in touched :
        \/ \E k \in written : \E f : cell = <<k, f>>
        \/ \E k \in written : \E j \in Range(configs[k].from) : \E x, y : cell = <<j, x, y>>

(* Configuration k is what its layers make of it.                           *)
IsLayered(k) ==
  /\ configs[k].from \in Seq(DOMAIN configs)
  /\ configs[k].from # <<>>
  /\ configs[k].set = Layered(Sets(configs[k]))

IInv ==
  /\ configs \in Seq(Range(configs))
  /\ configs # <<>>
  /\ \A k \in DOMAIN configs :
        /\ DOMAIN configs[k] = {"set", "from", "cell", "held"}
        /\ DOMAIN configs[k].cell = DOMAIN configs[k].set
        /\ OwnCells(k)
        /\ IsLayered(k)
  /\ TouchedCells

-----------------------------------------------------------------------------
(* Any non-empty set of numbers up to m has a last element.                 *)
LEMMA LastElement ==
  ASSUME NEW m \in Nat, NEW N, N \subseteq 1..m, N # {}
  PROVE  \E n \in N : \A later \in n + 1..m : later \notin N
<1> DEFINE Below(n) == n + 1..m
           T == {Below(n) : n \in N}
           R == StrictSubsetOrdering(Nat)
<1>1. IsWellFoundedOn(R, FiniteSubsetsOf(Nat))
  BY FS_StrictSubsetOrderingWellFounded
<1>2. T \subseteq FiniteSubsetsOf(Nat)
  <2>1. \A n \in N : IsFiniteSet(n + 1..m) /\ n + 1..m \subseteq Nat
    BY FS_Interval
  <2> QED BY <2>1 DEF FiniteSubsetsOf
<1>3. T # {}
  OBVIOUS
<1>4. PICK t \in T : \A u \in T : ~ (<<u, t>> \in R)
  <2> HIDE DEF T, R
  <2> QED BY <1>1, <1>2, <1>3, WFMin
<1>5. PICK n \in N : t = Below(n)
  OBVIOUS
<1>6. ASSUME NEW later \in n + 1..m, later \in N PROVE FALSE
  <2>1. ~ (<<Below(later), Below(n)>> \in R)
    BY <1>4, <1>5, <1>6
  <2>2. Below(later) \subseteq Below(n) /\ later \in Below(n) /\ later \notin Below(later)
    BY <1>6
  <2>3. Below(later) \in SUBSET Nat /\ Below(n) \in SUBSET Nat
    BY <1>6
  <2>4. <<Below(later), Below(n)>> \in R
    BY <2>2, <2>3 DEF StrictSubsetOrdering
  <2> QED BY <2>1, <2>4
<1> QED BY <1>6

(* Where the elements of a concatenation come from.                         *)
LEMMA Concatenation ==
  ASSUME NEW S, NEW es \in Seq(S), NEW fs \in Seq(S)
  PROVE  /\ es \o fs \in Seq(S) /\ Len(es \o fs) = Len(es) + Len(fs)
         /\ Len(es) \in Nat /\ Len(fs) \in Nat
         /\ \A n \in 1..Len(es) : (es \o fs)[n] = es[n]
         /\ \A n \in 1..Len(fs) : (es \o fs)[Len(es) + n] = fs[n]
  BY ConcatProperties, LenProperties

(* Layer n of layers is the last to set field f, or to give option o.       *)
LastToSet(layers, f, n) ==
  /\ n \in 1..Len(layers) /\ Has(layers[n], f)
  /\ \A later \in n + 1..Len(layers) : ~ Has(layers[later], f)

LastToGive(layers, o, n) ==
  /\ n \in 1..Len(layers) /\ o \in OptionsOf(layers[n])
  /\ \A later \in n + 1..Len(layers) : o \notin OptionsOf(layers[later])

LEMMA SomeLastToSet ==
  ASSUME NEW S, NEW layers \in Seq(S), NEW f, NEW m \in 1..Len(layers), Has(layers[m], f)
  PROVE  \E n : LastToSet(layers, f, n)
<1> DEFINE N == {n \in 1..Len(layers) : Has(layers[n], f)}
<1>1. N \subseteq 1..Len(layers) /\ N # {} /\ Len(layers) \in Nat
  BY LenProperties
<1>2. PICK n \in N : \A later \in n + 1..Len(layers) : later \notin N
  <2> HIDE DEF N
  <2> QED BY <1>1, LastElement
<1>3. \A later \in n + 1..Len(layers) : later \in 1..Len(layers)
  BY <1>1
<1> QED BY <1>2, <1>3 DEF LastToSet

LEMMA SomeLastToGive ==
  ASSUME NEW S, NEW layers \in Seq(S), NEW o, NEW m \in 1..Len(layers), o \in OptionsOf(layers[m])
  PROVE  \E n : LastToGive(layers, o, n)
<1> DEFINE N == {n \in 1..Len(layers) : o \in OptionsOf(layers[n])}
<1>1. N \subseteq 1..Len(layers) /\ N # {} /\ Len(layers) \in Nat
  BY LenProperties
<1>2. PICK n \in N : \A later \in n + 1..Len(layers) : later \notin N
  <2> HIDE DEF N
  <2> QED BY <1>1, LastElement
<1>3. \A later \in n + 1..Len(layers) : later \in 1..Len(layers)
  BY <1>1
<1> QED BY <1>2, <1>3 DEF LastToGive

(* What the layers make of a field, and of the options.                     *)
LEMMA LayeredField ==
  ASSUME NEW S, NEW layers \in Seq(S), NEW f, f # "options", NEW n, LastToSet(layers, f, n)
  PROVE  Has(Layered(layers), f) /\ Layered(layers)[f] = layers[n][f]
<1>1. DOMAIN layers = 1..Len(layers) /\ Len(layers) \in Nat
  BY LenProperties
<1>2. f \in UNION {DOMAIN layers[i] : i \in DOMAIN layers}
  BY <1>1 DEF LastToSet, Has
<1>3. Layered(layers)[f] = layers[CHOOSE i \in DOMAIN layers :
         Has(layers[i], f) /\ \A later \in i + 1 .. Len(layers) : ~ Has(layers[later], f)][f]
  BY <1>2 DEF Layered, LastOf
<1>4. ASSUME NEW i \in DOMAIN layers, Has(layers[i], f),
             \A later \in i + 1 .. Len(layers) : ~ Has(layers[later], f)
      PROVE  i = n
  BY <1>1, <1>4 DEF LastToSet
<1>5. (CHOOSE i \in DOMAIN layers :
         Has(layers[i], f) /\ \A later \in i + 1 .. Len(layers) : ~ Has(layers[later], f)) = n
  BY <1>1, <1>4 DEF LastToSet
<1> QED BY <1>2, <1>3, <1>5 DEF Layered, Has

LEMMA LayeredFields ==
  ASSUME NEW S, NEW layers \in Seq(S), NEW f
  PROVE  Has(Layered(layers), f) <=> \E n \in 1..Len(layers) : Has(layers[n], f)
<1>1. DOMAIN layers = 1..Len(layers)
  BY LenProperties
<1>2. DOMAIN Layered(layers) = UNION {DOMAIN layers[n] : n \in DOMAIN layers}
  BY DEF Layered
<1> QED BY <1>1, <1>2 DEF Has

(* The names of the options the layers give.                                *)
Given(layers) == UNION {OptionsOf(layers[n]) : n \in 1..Len(layers)}

LEMMA LayeredOptions ==
  ASSUME NEW S, NEW layers \in Seq(S), Has(Layered(layers), "options")
  PROVE  /\ IsMap(Layered(layers)["options"])
         /\ DOMAIN Layered(layers)["options"] = Given(layers)
         /\ \A o, n : LastToGive(layers, o, n) =>
               Layered(layers)["options"][o] = layers[n]["options"][o]
<1>1. DOMAIN layers = 1..Len(layers) /\ Len(layers) \in Nat
  BY LenProperties
<1> DEFINE Chosen(o) == CHOOSE i \in DOMAIN layers :
              o \in OptionsOf(layers[i]) /\ \A later \in i + 1 .. Len(layers) : o \notin OptionsOf(layers[later])
           map == [o \in UNION {OptionsOf(layers[i]) : i \in DOMAIN layers} |->
                     layers[Chosen(o)]["options"][o]]
<1>2. Layered(layers)["options"] = map
  <2>1. "options" \in UNION {DOMAIN layers[i] : i \in DOMAIN layers}
    BY DEF Layered, Has
  <2> QED BY <2>1 DEF Layered, LastOf
<1>3. DOMAIN map = Given(layers)
  BY <1>1 DEF Given
<1>4. ASSUME NEW o, NEW n, LastToGive(layers, o, n)
      PROVE  map[o] = layers[n]["options"][o]
  <2>1. ASSUME NEW i \in DOMAIN layers, o \in OptionsOf(layers[i]),
               \A later \in i + 1 .. Len(layers) : o \notin OptionsOf(layers[later])
        PROVE  i = n
    BY <1>1, <1>4, <2>1 DEF LastToGive
  <2>2. Chosen(o) = n
    BY <1>1, <1>4, <2>1 DEF LastToGive
  <2>3. o \in DOMAIN map
    BY <1>1, <1>3, <1>4 DEF LastToGive, Given
  <2> HIDE DEF Chosen
  <2> QED BY <2>2, <2>3
<1> HIDE DEF Chosen
<1> QED BY <1>2, <1>3, <1>4 DEF IsMap

(* A merge of what some layers make and what others make is what all make.  *)
LEMMA ConcatenatedLayers ==
  ASSUME NEW S, NEW es \in Seq(S), NEW fs \in Seq(S)
  PROVE  /\ es \o fs \in Seq(S)
         /\ \A f, n : LastToSet(fs, f, n) => LastToSet(es \o fs, f, Len(es) + n)
         /\ \A f, n : LastToSet(es, f, n) /\ (\A i \in 1..Len(fs) : ~ Has(fs[i], f))
                         => LastToSet(es \o fs, f, n)
         /\ \A o, n : LastToGive(fs, o, n) => LastToGive(es \o fs, o, Len(es) + n)
         /\ \A o, n : LastToGive(es, o, n) /\ (\A i \in 1..Len(fs) : o \notin OptionsOf(fs[i]))
                         => LastToGive(es \o fs, o, n)
         /\ \A n \in 1..Len(es) : (es \o fs)[n] = es[n]
         /\ \A n \in 1..Len(fs) : (es \o fs)[Len(es) + n] = fs[n]
         /\ \A i \in 1..Len(es \o fs) :
               i \in 1..Len(es) \/ \E n \in 1..Len(fs) : i = Len(es) + n
<1> DEFINE gs == es \o fs
<1>1. /\ gs \in Seq(S) /\ Len(gs) = Len(es) + Len(fs) /\ Len(es) \in Nat /\ Len(fs) \in Nat
      /\ \A n \in 1..Len(es) : gs[n] = es[n]
      /\ \A n \in 1..Len(fs) : gs[Len(es) + n] = fs[n]
  BY Concatenation
<1> HIDE DEF gs
<1>2. \A i \in 1..Len(gs) : i \in 1..Len(es) \/ (i - Len(es) \in 1..Len(fs) /\ i = Len(es) + (i - Len(es)))
  BY <1>1
<1>3. ASSUME NEW f, NEW n, LastToSet(fs, f, n) PROVE LastToSet(gs, f, Len(es) + n)
  <2>1. ASSUME NEW later \in Len(es) + n + 1..Len(gs) PROVE ~ Has(gs[later], f)
    <3>1. later - Len(es) \in n + 1..Len(fs) /\ later = Len(es) + (later - Len(es))
          /\ later - Len(es) \in 1..Len(fs)
      BY <1>1, <1>3, <2>1 DEF LastToSet
    <3> QED BY <1>1, <1>3, <3>1 DEF LastToSet
  <2> QED BY <1>1, <1>3, <2>1 DEF LastToSet
<1>4. ASSUME NEW o, NEW n, LastToGive(fs, o, n) PROVE LastToGive(gs, o, Len(es) + n)
  <2>1. ASSUME NEW later \in Len(es) + n + 1..Len(gs) PROVE o \notin OptionsOf(gs[later])
    <3>1. later - Len(es) \in n + 1..Len(fs) /\ later = Len(es) + (later - Len(es))
          /\ later - Len(es) \in 1..Len(fs)
      BY <1>1, <1>4, <2>1 DEF LastToGive
    <3> QED BY <1>1, <1>4, <3>1 DEF LastToGive
  <2> QED BY <1>1, <1>4, <2>1 DEF LastToGive
<1>5. ASSUME NEW f, NEW n, LastToSet(es, f, n), \A i \in 1..Len(fs) : ~ Has(fs[i], f)
      PROVE  LastToSet(gs, f, n)
  <2>1. ASSUME NEW later \in n + 1..Len(gs) PROVE ~ Has(gs[later], f)
    <3>1. later \in 1..Len(gs) /\ (later \in 1..Len(es) => later \in n + 1..Len(es))
      BY <1>1, <1>5, <2>1 DEF LastToSet
    <3> QED BY <1>1, <1>2, <1>5, <3>1 DEF LastToSet
  <2> QED BY <1>1, <1>5, <2>1 DEF LastToSet
<1>6. ASSUME NEW o, NEW n, LastToGive(es, o, n), \A i \in 1..Len(fs) : o \notin OptionsOf(fs[i])
      PROVE  LastToGive(gs, o, n)
  <2>1. ASSUME NEW later \in n + 1..Len(gs) PROVE o \notin OptionsOf(gs[later])
    <3>1. later \in 1..Len(gs) /\ (later \in 1..Len(es) => later \in n + 1..Len(es))
      BY <1>1, <1>6, <2>1 DEF LastToGive
    <3> QED BY <1>1, <1>2, <1>6, <3>1 DEF LastToGive
  <2> QED BY <1>1, <1>6, <2>1 DEF LastToGive
<1> QED BY <1>1, <1>2, <1>3, <1>4, <1>5, <1>6 DEF gs

LEMMA MergeOfLayered ==
  ASSUME NEW S, NEW es \in Seq(S), NEW fs \in Seq(S)
  PROVE  Merge(Layered(es), Layered(fs)) = Layered(es \o fs)
<1> DEFINE gs == es \o fs
           a == Layered(es)
           b == Layered(fs)
           c == Layered(gs)
           m == Merge(a, b)
<1>1. /\ gs \in Seq(S)
      /\ \A f, n : LastToSet(fs, f, n) => LastToSet(gs, f, Len(es) + n)
      /\ \A f, n : LastToSet(es, f, n) /\ (\A i \in 1..Len(fs) : ~ Has(fs[i], f)) => LastToSet(gs, f, n)
      /\ \A o, n : LastToGive(fs, o, n) => LastToGive(gs, o, Len(es) + n)
      /\ \A o, n : LastToGive(es, o, n) /\ (\A i \in 1..Len(fs) : o \notin OptionsOf(fs[i]))
                      => LastToGive(gs, o, n)
      /\ \A n \in 1..Len(es) : gs[n] = es[n]
      /\ \A n \in 1..Len(fs) : gs[Len(es) + n] = fs[n]
      /\ \A i \in 1..Len(gs) : i \in 1..Len(es) \/ \E n \in 1..Len(fs) : i = Len(es) + n
      /\ Len(gs) = Len(es) + Len(fs) /\ Len(es) \in Nat /\ Len(fs) \in Nat
  BY ConcatenatedLayers, ConcatProperties, LenProperties
<1> HIDE DEF gs
<1>2. /\ \A f : Has(a, f) <=> \E n \in 1..Len(es) : Has(es[n], f)
      /\ \A f : Has(b, f) <=> \E n \in 1..Len(fs) : Has(fs[n], f)
      /\ \A f : Has(c, f) <=> \E n \in 1..Len(gs) : Has(gs[n], f)
  BY <1>1, LayeredFields
<1>3. \A n \in 1..Len(es) : n \in 1..Len(gs)
  BY <1>1
<1>4. \A n \in 1..Len(fs) : Len(es) + n \in 1..Len(gs)
  BY <1>1
<1> HIDE DEF a, b, c
<1>5. \A f : Has(c, f) <=> Has(a, f) \/ Has(b, f)
  BY <1>1, <1>2, <1>3, <1>4
<1>6. DOMAIN m = DOMAIN c
  BY <1>5 DEF Merge, Has
<1>7. ASSUME NEW f \in DOMAIN c, f # "options" PROVE m[f] = c[f]
  <2>1. CASE Has(b, f)
    <3>1. PICK n : LastToSet(fs, f, n)
      BY <1>2, <2>1, SomeLastToSet
    <3>2. b[f] = fs[n][f]
      BY <1>7, <3>1, LayeredField DEF b
    <3>3. c[f] = gs[Len(es) + n][f]
      BY <1>1, <1>7, <3>1, LayeredField DEF c
    <3>4. n \in 1..Len(fs)
      BY <3>1 DEF LastToSet
    <3> QED BY <1>1, <1>6, <1>7, <2>1, <3>2, <3>3, <3>4 DEF Merge, MergedValue
  <2>2. CASE ~ Has(b, f)
    <3>1. Has(a, f) /\ \A i \in 1..Len(fs) : ~ Has(fs[i], f)
      BY <1>2, <1>5, <2>2 DEF Has
    <3>2. PICK n : LastToSet(es, f, n)
      BY <1>2, <3>1, SomeLastToSet
    <3>3. a[f] = es[n][f]
      BY <1>7, <3>2, LayeredField DEF a
    <3>4. c[f] = gs[n][f]
      BY <1>1, <1>7, <3>1, <3>2, LayeredField DEF c
    <3>5. n \in 1..Len(es)
      BY <3>2 DEF LastToSet
    <3> QED BY <1>1, <1>6, <1>7, <2>2, <3>3, <3>4, <3>5 DEF Merge
  <2> QED BY <2>1, <2>2
<1>8. ASSUME "options" \in DOMAIN c PROVE m["options"] = c["options"]
  <2> DEFINE o1 == a["options"]
             o2 == b["options"]
             o3 == c["options"]
  <2>1. /\ IsMap(o3) /\ DOMAIN o3 = Given(gs)
        /\ \A o, n : LastToGive(gs, o, n) => o3[o] = gs[n]["options"][o]
    BY <1>1, <1>8, LayeredOptions DEF c, Has
  <2>2. Has(a, "options") => /\ IsMap(o1) /\ DOMAIN o1 = Given(es)
                             /\ \A o, n : LastToGive(es, o, n) => o1[o] = es[n]["options"][o]
    BY LayeredOptions DEF a
  <2>3. Has(b, "options") => /\ IsMap(o2) /\ DOMAIN o2 = Given(fs)
                             /\ \A o, n : LastToGive(fs, o, n) => o2[o] = fs[n]["options"][o]
    BY LayeredOptions DEF b
  <2>4. Given(gs) = Given(es) \cup Given(fs)
    <3>1. ASSUME NEW o \in Given(gs) PROVE o \in Given(es) \cup Given(fs)
      <4>1. PICK i \in 1..Len(gs) : o \in OptionsOf(gs[i])
        BY <3>1 DEF Given
      <4>2. CASE i \in 1..Len(es)
        BY <1>1, <4>1, <4>2 DEF Given
      <4>3. ASSUME NEW n \in 1..Len(fs), i = Len(es) + n PROVE o \in Given(fs)
        <5>1. gs[i] = fs[n]
          BY <1>1, <4>3
        <5> QED BY <4>1, <5>1 DEF Given
      <4> QED BY <1>1, <4>2, <4>3
    <3>2. ASSUME NEW o \in Given(es) PROVE o \in Given(gs)
      <4>1. PICK i \in 1..Len(es) : o \in OptionsOf(es[i])
        BY <3>2 DEF Given
      <4>2. i \in 1..Len(gs) /\ gs[i] = es[i]
        BY <1>1, <1>3
      <4> QED BY <4>1, <4>2 DEF Given
    <3>3. ASSUME NEW o \in Given(fs) PROVE o \in Given(gs)
      <4>1. PICK i \in 1..Len(fs) : o \in OptionsOf(fs[i])
        BY <3>3 DEF Given
      <4>2. Len(es) + i \in 1..Len(gs) /\ gs[Len(es) + i] = fs[i]
        BY <1>1, <1>4
      <4> QED BY <4>1, <4>2 DEF Given
    <3> QED BY <3>1, <3>2, <3>3
  <2>5. /\ ~ Has(a, "options") => Given(es) = {}
        /\ ~ Has(b, "options") => Given(fs) = {}
    BY <1>2 DEF Given, OptionsOf
  <2>6. ASSUME NEW o \in Given(fs) PROVE Has(b, "options") /\ o2[o] = o3[o]
    <3>1. PICK k \in 1..Len(fs) : o \in OptionsOf(fs[k])
      BY DEF Given
    <3>2. PICK n : LastToGive(fs, o, n)
      BY <3>1, SomeLastToGive
    <3>3. n \in 1..Len(fs) /\ LastToGive(gs, o, Len(es) + n)
      BY <1>1, <3>2 DEF LastToGive
    <3>4. Has(b, "options") /\ o2[o] = fs[n]["options"][o]
      BY <2>3, <2>5, <3>2
    <3>5. o3[o] = gs[Len(es) + n]["options"][o] /\ gs[Len(es) + n] = fs[n]
      BY <1>1, <2>1, <3>3
    <3> QED BY <3>4, <3>5
  <2>7. ASSUME NEW o \in Given(es), o \notin Given(fs) PROVE Has(a, "options") /\ o1[o] = o3[o]
    <3>1. PICK k \in 1..Len(es) : o \in OptionsOf(es[k])
      BY DEF Given
    <3>2. PICK n : LastToGive(es, o, n)
      BY <3>1, SomeLastToGive
    <3>3. n \in 1..Len(es) /\ LastToGive(gs, o, n)
      BY <1>1, <2>7, <3>2 DEF LastToGive, Given
    <3>4. Has(a, "options") /\ o1[o] = es[n]["options"][o]
      BY <2>2, <2>5, <3>2
    <3>5. o3[o] = gs[n]["options"][o] /\ gs[n] = es[n]
      BY <1>1, <2>1, <3>3
    <3> QED BY <3>4, <3>5
  <2> HIDE DEF o1, o2, o3
  <2>8. CASE Has(a, "options") /\ Has(b, "options")
    <3>1. m["options"] = Over(o2, o1)
      BY <1>6, <1>8, <2>8 DEF Merge, MergedValue, o1, o2
    <3>2. Over(o2, o1) = [o \in DOMAIN o3 |-> o3[o]]
      BY <2>1, <2>2, <2>3, <2>4, <2>6, <2>7, <2>8 DEF Over
    <3> QED BY <2>1, <3>1, <3>2 DEF IsMap, o3
  <2>9. CASE ~ Has(a, "options")
    <3>1. Has(b, "options") /\ m["options"] = o2
      BY <1>5, <1>6, <1>8, <2>9 DEF Merge, Has, o2
    <3>2. [o \in DOMAIN o2 |-> o2[o]] = [o \in DOMAIN o3 |-> o3[o]]
      BY <2>1, <2>3, <2>4, <2>5, <2>6, <2>9, <3>1
    <3> QED BY <2>1, <2>3, <3>1, <3>2 DEF IsMap, o3
  <2>10. CASE ~ Has(b, "options")
    <3>1. Has(a, "options") /\ m["options"] = o1
      BY <1>5, <1>6, <1>8, <2>10 DEF Merge, Has, o1
    <3>2. [o \in DOMAIN o1 |-> o1[o]] = [o \in DOMAIN o3 |-> o3[o]]
      BY <2>1, <2>2, <2>4, <2>5, <2>7, <2>10, <3>1
    <3> QED BY <2>1, <2>2, <3>1, <3>2 DEF IsMap, o3
  <2> QED BY <2>8, <2>9, <2>10
<1>9. m = [f \in DOMAIN m |-> m[f]] /\ c = [f \in DOMAIN c |-> c[f]]
  <2>1. m = [f \in DOMAIN m |-> m[f]]
    BY DEF Merge
  <2>2. c = [f \in DOMAIN c |-> c[f]]
    BY DEF c, Layered
  <2> QED BY <2>1, <2>2
<1>10. \A f \in DOMAIN c : m[f] = c[f]
  BY <1>7, <1>8
<1> HIDE DEF m
<1>11. m = c
  BY <1>6, <1>9, <1>10
<1> QED BY <1>11 DEF m, a, b, c, gs

-----------------------------------------------------------------------------
(* What Validate asks of a field, whatever the other fields are.            *)
FieldValid(f, v) ==
  /\ Fits(f, v)
  /\ f \in {"image", "audio", "embedding"} => AllFit(v)
  /\ f \in {"thinking", "streaming"} /\ v.enabled => AllFit(v)
  /\ f = "async" => ValidAsync(v)
  /\ f = "stop_token_ids" => \A id \in ToSet(v) : id >= 0
  /\ f = "logit_bias" => \A token \in DOMAIN v : -10000 <= v[token] /\ v[token] <= 10000

LEMMA ValidByField ==
  ASSUME NEW c
  PROVE  Validate(c) <=> \A f \in DOMAIN c : FieldValid(f, c[f])
<1>1. ASSUME Validate(c), NEW f \in DOMAIN c PROVE FieldValid(f, c[f])
  BY <1>1 DEF Validate, FieldValid, Has, On, AllFit
<1>2. ASSUME \A f \in DOMAIN c : FieldValid(f, c[f]) PROVE Validate(c)
  <2>1. AllFit(c)
    BY <1>2 DEF AllFit, FieldValid
  <2> QED BY <1>2, <2>1 DEF Validate, FieldValid, Has, On
<1> QED BY <1>1, <1>2

LEMMA OptionsAreFree == ASSUME NEW v PROVE FieldValid("options", v)
<1>1. "options" \notin DOMAIN Bounds /\ "options" \notin DOMAIN Words
  BY DEF Bounds, Words
<1> QED BY <1>1 DEF FieldValid, Fits

LEMMA ValidLayers ==
  ASSUME NEW S, NEW layers \in Seq(S), \A n \in DOMAIN layers : Validate(layers[n])
  PROVE  Validate(Layered(layers))
<1> DEFINE c == Layered(layers)
<1>1. ASSUME NEW f \in DOMAIN c PROVE FieldValid(f, c[f])
  <2>1. CASE f = "options"
    BY <2>1, OptionsAreFree
  <2>2. CASE f # "options"
    <3>1. PICK m \in 1..Len(layers) : Has(layers[m], f)
      BY <1>1, LayeredFields DEF Has
    <3>2. PICK n : LastToSet(layers, f, n)
      BY <3>1, SomeLastToSet
    <3>3. n \in DOMAIN layers /\ f \in DOMAIN layers[n]
      BY <3>2, LenProperties DEF LastToSet, Has
    <3>4. c[f] = layers[n][f]
      BY <2>2, <3>2, LayeredField
    <3> HIDE DEF c
    <3> QED BY <3>3, <3>4, ValidByField
  <2> QED BY <2>1, <2>2
<1> QED BY <1>1, ValidByField

(* One layer makes of every field what it sets.                             *)
LEMMA OneLayer ==
  ASSUME NEW set, IsConfig(set)
  PROVE  Layered(<<set>>) = set
<1> DEFINE layers == <<set>>
           c == Layered(layers)
<1>1. layers \in Seq({set}) /\ Len(layers) = 1 /\ layers[1] = set
  OBVIOUS
<1> HIDE DEF layers
<1>2. \A f : Has(set, f) => LastToSet(layers, f, 1)
  BY <1>1 DEF LastToSet
<1>3. \A f : Has(c, f) <=> Has(set, f)
  <2>1. \A f : Has(c, f) <=> \E n \in 1..Len(layers) : Has(layers[n], f)
    BY <1>1, LayeredFields
  <2> HIDE DEF c
  <2> QED BY <1>1, <2>1
<1>4. ASSUME NEW f \in DOMAIN set, f # "options" PROVE c[f] = set[f]
  BY <1>1, <1>2, <1>4, LayeredField DEF Has
<1>5. ASSUME Has(set, "options") PROVE c["options"] = set["options"]
  <2> DEFINE map == c["options"]
             own == set["options"]
  <2>1. /\ IsMap(map) /\ DOMAIN map = Given(layers)
        /\ \A o, n : LastToGive(layers, o, n) => map[o] = layers[n]["options"][o]
    BY <1>1, <1>3, <1>5, LayeredOptions
  <2>2. Given(layers) = DOMAIN own
    BY <1>1, <1>5 DEF Given, OptionsOf
  <2>3. \A o \in DOMAIN own : LastToGive(layers, o, 1)
    BY <1>1, <1>5 DEF LastToGive, OptionsOf
  <2>4. IsMap(own)
    BY <1>5 DEF IsConfig
  <2> HIDE DEF map, own
  <2>5. \A o \in DOMAIN own : map[o] = own[o]
    BY <1>1, <2>1, <2>3 DEF own
  <2>6. map = own
    BY <2>1, <2>2, <2>4, <2>5 DEF IsMap
  <2> QED BY <2>6 DEF map, own
<1>6. DOMAIN c = DOMAIN set
  BY <1>3 DEF Has
<1>7. \A f \in DOMAIN set : c[f] = set[f]
  BY <1>4, <1>5 DEF Has
<1>8. c = [f \in DOMAIN c |-> c[f]]
  BY DEF Layered
<1>9. set = [f \in DOMAIN set |-> set[f]]
  BY DEF IsConfig, IsMap
<1> HIDE DEF c
<1>10. c = set
  BY <1>6, <1>7, <1>8, <1>9
<1> QED BY <1>10 DEF c, layers

-----------------------------------------------------------------------------
(* What some configuration sets.                                            *)
AllSets == {configs[k].set : k \in DOMAIN configs}

LEMMA ConfigsAreSeq ==
  ASSUME IInv
  PROVE  Len(configs) \in Nat \ {0} /\ DOMAIN configs = 1..Len(configs)
  BY EmptySeq, LenProperties DEF IInv

LEMMA SetsAreSeq ==
  ASSUME NEW c, c.from \in Seq(DOMAIN configs)
  PROVE  /\ Sets(c) \in Seq(AllSets)
         /\ Len(Sets(c)) = Len(c.from)
         /\ \A n \in 1..Len(c.from) : Sets(c)[n] = configs[c.from[n]].set
<1>1. DOMAIN c.from = 1..Len(c.from) /\ Len(c.from) \in Nat
      /\ \A n \in 1..Len(c.from) : c.from[n] \in DOMAIN configs
  BY LenProperties, ElementOfSeq
<1>2. Sets(c) = [n \in 1..Len(c.from) |-> configs[c.from[n]].set]
  BY <1>1 DEF Sets
<1>3. \A n \in 1..Len(c.from) : configs[c.from[n]].set \in AllSets
  BY <1>1 DEF AllSets
<1> QED BY <1>1, <1>2, <1>3

(* The layers of a merge are those of the one and then those of the other.  *)
LEMMA SetsOfMerge ==
  ASSUME NEW a, NEW b, NEW c,
         a.from \in Seq(DOMAIN configs), b.from \in Seq(DOMAIN configs),
         c.from = a.from \o b.from
  PROVE  /\ c.from \in Seq(DOMAIN configs)
         /\ Sets(c) = Sets(a) \o Sets(b)
<1> DEFINE es == Sets(a)
           fs == Sets(b)
           gs == Sets(c)
           from == a.from
           more == b.from
<1>1. /\ c.from \in Seq(DOMAIN configs)
      /\ Len(c.from) = Len(from) + Len(more)
      /\ \A n \in 1..Len(from) : c.from[n] = from[n]
      /\ \A n \in 1..Len(more) : c.from[Len(from) + n] = more[n]
      /\ Len(from) \in Nat /\ Len(more) \in Nat
  <2> HIDE DEF from, more
  <2>1. from \in Seq(DOMAIN configs) /\ more \in Seq(DOMAIN configs) /\ c.from = from \o more
    BY DEF from, more
  <2> QED BY <2>1, Concatenation
<1>2. /\ es \in Seq(AllSets) /\ Len(es) = Len(from)
      /\ fs \in Seq(AllSets) /\ Len(fs) = Len(more)
      /\ gs \in Seq(AllSets) /\ Len(gs) = Len(from) + Len(more)
      /\ \A n \in 1..Len(from) : es[n] = configs[from[n]].set
      /\ \A n \in 1..Len(more) : fs[n] = configs[more[n]].set
      /\ \A n \in 1..Len(gs) : gs[n] = configs[c.from[n]].set
  BY <1>1, SetsAreSeq
<1> HIDE DEF es, fs, gs, from, more
<1>3. /\ es \o fs \in Seq(AllSets) /\ Len(es \o fs) = Len(gs)
      /\ \A n \in 1..Len(es) : (es \o fs)[n] = es[n]
      /\ \A n \in 1..Len(fs) : (es \o fs)[Len(es) + n] = fs[n]
  <2>1. es \in Seq(AllSets) /\ fs \in Seq(AllSets) /\ Len(gs) = Len(es) + Len(fs)
    BY <1>2
  <2>2. /\ es \o fs \in Seq(AllSets) /\ Len(es \o fs) = Len(es) + Len(fs)
        /\ \A n \in 1..Len(es) : (es \o fs)[n] = es[n]
        /\ \A n \in 1..Len(fs) : (es \o fs)[Len(es) + n] = fs[n]
    BY <2>1, Concatenation
  <2> QED BY <2>1, <2>2
<1>4. ASSUME NEW n \in 1..Len(gs) PROVE gs[n] = (es \o fs)[n]
  <2>1. CASE n \in 1..Len(from)
    BY <1>1, <1>2, <1>3, <2>1
  <2>2. CASE n \notin 1..Len(from)
    <3>1. PICK i \in 1..Len(more) : n = Len(from) + i
      <4>1. n - Len(from) \in 1..Len(more) /\ n = Len(from) + (n - Len(from))
        BY <1>1, <1>2, <2>2
      <4> QED BY <4>1
    <3>2. gs[n] = configs[c.from[n]].set /\ c.from[n] = more[i]
      BY <1>1, <1>2, <3>1
    <3>3. fs[i] = configs[more[i]].set /\ (es \o fs)[n] = fs[i]
      BY <1>2, <1>3, <3>1
    <3> QED BY <3>2, <3>3
  <2> QED BY <2>1, <2>2
<1>5. gs = es \o fs
  BY <1>2, <1>3, <1>4, SeqEqual
<1> QED BY <1>1, <1>5 DEF es, fs, gs

(* A configuration that is made: nothing that is there changes.             *)
LEMMA MakeKeepsIInv ==
  ASSUME IInv, NEW c, Make(c),
         DOMAIN c = {"set", "from", "cell", "held"},
         DOMAIN c.cell = DOMAIN c.set,
         \A f \in DOMAIN c.cell : c.cell[f] = <<Len(configs) + 1, f>>,
         DOMAIN c.held = HeldIn(c.set), HeldByLayers(c.held, c.from),
         c.from \in Seq(DOMAIN configs), c.from # <<>>, c.set = Layered(Sets(c))
  PROVE  IInv'
<1> PICK new : new = Len(configs) + 1
  OBVIOUS
<1> DEFINE S == Range(configs) \cup {c}
<1>1. /\ configs' = Append(configs, c) /\ UNCHANGED <<written, touched>>
      /\ configs \in Seq(Range(configs)) /\ Len(configs) \in Nat \ {0}
      /\ DOMAIN configs = 1..Len(configs)
  BY ConfigsAreSeq DEF Make, IInv
<1>2. configs \in Seq(S)
  BY <1>1
<1>3. /\ configs' \in Seq(S) /\ Len(configs') = new /\ DOMAIN configs' = 1..new
      /\ \A k \in 1..Len(configs) : configs'[k] = configs[k]
      /\ configs'[new] = c
  <2> HIDE DEF S
  <2> QED BY <1>1, <1>2, AppendProperties, LenProperties DEF S
<1>4. configs' \in Seq(Range(configs')) /\ configs' # <<>>
  <2>1. configs' = [k \in 1..new |-> configs'[k]]
    BY <1>3
  <2>2. \A k \in 1..new : configs'[k] \in Range(configs')
    BY <1>3 DEF Range
  <2>3. configs' \in [1..new -> Range(configs')] /\ new \in Nat
    BY <1>1, <2>1, <2>2
  <2>4. configs' \in Seq(Range(configs'))
    <3> DEFINE R == Range(configs')
    <3> HIDE DEF R
    <3> QED BY <2>3, SeqDef DEF R
  <2>5. configs' # <<>>
    BY <1>1, <1>3, EmptySeq
  <2> QED BY <2>4, <2>5
<1>5. ASSUME NEW k \in 1..Len(configs), NEW d, d = configs[k]
      PROVE  /\ DOMAIN d = {"set", "from", "cell", "held"}
             /\ DOMAIN d.cell = DOMAIN d.set
             /\ OwnCells(k)' /\ IsLayered(k)' /\ configs'[k] = d
  <2>1. DOMAIN d = {"set", "from", "cell", "held"} /\ DOMAIN d.cell = DOMAIN d.set
        /\ OwnCells(k) /\ IsLayered(k) /\ configs'[k] = d
    BY <1>1, <1>3, <1>5 DEF IInv
  <2>2. OwnCells(k)'
    BY <1>5, <2>1 DEF OwnCells
  <2>3. d.from \in Seq(DOMAIN configs) /\ d.from # <<>> /\ d.set = Layered(Sets(d))
    BY <1>5, <2>1 DEF IsLayered
  <2>4. d.from \in Seq(DOMAIN configs')
    BY <1>1, <1>3, <2>3
  <2>5. [n \in DOMAIN d.from |-> configs'[d.from[n]].set] = Sets(d)
    <3>1. \A n \in DOMAIN d.from : configs'[d.from[n]] = configs[d.from[n]]
      BY <1>1, <1>3, <2>3, LenProperties, ElementOfSeq
    <3> QED BY <3>1 DEF Sets
  <2>6. IsLayered(k)'
    BY <2>1, <2>3, <2>4, <2>5 DEF IsLayered, Sets
  <2> QED BY <2>1, <2>2, <2>6
<1>6. OwnCells(new)' /\ IsLayered(new)'
  <2>1. OwnCells(new)'
    BY <1>3 DEF OwnCells
  <2>2. c.from \in Seq(DOMAIN configs')
    BY <1>1, <1>3
  <2>3. [n \in DOMAIN c.from |-> configs'[c.from[n]].set] = Sets(c)
    <3>1. \A n \in DOMAIN c.from : configs'[c.from[n]] = configs[c.from[n]]
      BY <1>1, <1>3, LenProperties, ElementOfSeq
    <3> QED BY <3>1 DEF Sets
  <2>4. IsLayered(new)'
    BY <1>3, <2>2, <2>3 DEF IsLayered, Sets
  <2> QED BY <2>1, <2>4
<1>7. TouchedCells'
  <2>1. TouchedCells /\ DOMAIN configs \subseteq DOMAIN configs'
    BY <1>1, <1>3 DEF IInv
  <2>2. \A k \in written : configs'[k] = configs[k]
    BY <1>1, <1>3, <2>1 DEF TouchedCells
  <2> QED BY <1>1, <2>1, <2>2 DEF TouchedCells
<1>8. \A k \in 1..new : k \in 1..Len(configs) \/ k = new
  BY <1>1
<1>9. \A k \in DOMAIN configs' :
        /\ DOMAIN configs'[k] = {"set", "from", "cell", "held"}
        /\ DOMAIN configs'[k].cell = DOMAIN configs'[k].set
        /\ OwnCells(k)' /\ IsLayered(k)'
  BY <1>3, <1>5, <1>6, <1>8
<1> QED BY <1>4, <1>7, <1>9 DEF IInv

LEMMA OptionsOfMerge ==
  ASSUME NEW a, NEW b
  PROVE  OptionsOf(Merge(a, b)) = OptionsOf(a) \cup OptionsOf(b)
<1>1. \A f : Has(Merge(a, b), f) <=> Has(a, f) \/ Has(b, f)
  BY DEF Merge, Has
<1>2. CASE Has(a, "options") /\ Has(b, "options")
  <2>1. Merge(a, b)["options"] = Over(b["options"], a["options"])
    BY <1>2 DEF Merge, MergedValue, Has
  <2>2. DOMAIN Over(b["options"], a["options"]) = DOMAIN a["options"] \cup DOMAIN b["options"]
    BY DEF Over
  <2> QED BY <1>1, <1>2, <2>1, <2>2 DEF OptionsOf
<1>3. CASE ~ Has(a, "options")
  <2>1. Has(b, "options") => Merge(a, b)["options"] = b["options"]
    BY <1>3 DEF Merge, Has
  <2> QED BY <1>1, <1>3, <2>1 DEF OptionsOf
<1>4. CASE Has(a, "options") /\ ~ Has(b, "options")
  <2>1. Merge(a, b)["options"] = a["options"]
    BY <1>4 DEF Merge, Has
  <2> QED BY <1>1, <1>4, <2>1 DEF OptionsOf
<1> QED BY <1>2, <1>3, <1>4

(* What a merge holds that no copy reaches, one of the two held.            *)
LEMMA HeldOfMerge ==
  ASSUME NEW a, NEW b, NEW part \in HeldIn(Merge(a, b))
  PROVE  part \in HeldIn(a) \/ part \in HeldIn(b)
<1>1. CASE \E o \in OptionsOf(Merge(a, b)) : part = <<"options", o>>
  BY <1>1, OptionsOfMerge DEF HeldIn
<1>2. CASE part \in Schemas /\ Has(Merge(a, b), part[1]) /\ Has(Merge(a, b)[part[1]], part[2])
  <2>1. part[1] # "options"
    BY <1>2 DEF Schemas
  <2>2. Has(a, part[1]) \/ Has(b, part[1])
    BY <1>2 DEF Merge, Has
  <2>3. Merge(a, b)[part[1]] = IF Has(b, part[1]) THEN b[part[1]] ELSE a[part[1]]
    BY <2>1, <2>2 DEF Merge, MergedValue, Has
  <2> QED BY <1>2, <2>2, <2>3 DEF HeldIn
<1> QED BY <1>1, <1>2 DEF HeldIn

LEMMA RangeOfConcatenation ==
  ASSUME NEW S, NEW r \in Seq(S), NEW s \in Seq(S)
  PROVE  Range(r) \subseteq Range(r \o s) /\ Range(s) \subseteq Range(r \o s)
<1> DEFINE t == r \o s
<1>1. /\ t \in Seq(S) /\ Len(t) = Len(r) + Len(s)
      /\ \A n \in 1..Len(r) : t[n] = r[n]
      /\ \A n \in 1..Len(s) : t[Len(r) + n] = s[n]
  BY Concatenation
<1>2. /\ DOMAIN r = 1..Len(r) /\ DOMAIN s = 1..Len(s) /\ DOMAIN t = 1..Len(t)
      /\ Len(r) \in Nat /\ Len(s) \in Nat
  BY <1>1, LenProperties
<1> HIDE DEF t
<1>3. /\ \A n \in 1..Len(r) : n \in DOMAIN t
      /\ \A n \in 1..Len(s) : Len(r) + n \in DOMAIN t
  BY <1>1, <1>2
<1> QED BY <1>1, <1>2, <1>3 DEF Range, t

(* A configuration that is there, and what the invariant says of it.        *)
LEMMA ConfigThere ==
  ASSUME IInv, NEW a \in Range(configs)
  PROVE  /\ DOMAIN a = {"set", "from", "cell", "held"}
         /\ DOMAIN a.cell = DOMAIN a.set
         /\ DOMAIN a.held = HeldIn(a.set) /\ HeldByLayers(a.held, a.from)
         /\ a.from \in Seq(DOMAIN configs) /\ a.from # <<>>
         /\ a.set = Layered(Sets(a))
<1>1. PICK k \in DOMAIN configs : configs[k] = a
  BY DEF Range
<1> QED BY <1>1 DEF IInv, OwnCells, IsLayered

LEMMA MergeTwoKeepsIInv ==
  ASSUME IInv, NEW a \in Range(configs), NEW b \in Range(configs), MergeTwo(a, b)
  PROVE  IInv'
<1> DEFINE c == [set |-> Merge(a.set, b.set), from |-> a.from \o b.from,
                 cell |-> MergedCells(Len(configs) + 1, a, b), held |-> MergedHeld(a, b)]
<1>1. Make(c)
  BY DEF MergeTwo
<1>2. /\ DOMAIN c = {"set", "from", "cell", "held"}
      /\ c.set = Merge(a.set, b.set) /\ c.from = a.from \o b.from
      /\ c.cell = MergedCells(Len(configs) + 1, a, b) /\ c.held = MergedHeld(a, b)
  OBVIOUS
<1> HIDE DEF c
<1>3. DOMAIN c.cell = DOMAIN c.set /\ \A f \in DOMAIN c.cell : c.cell[f] = <<Len(configs) + 1, f>>
  BY <1>2 DEF MergedCells
<1>4. /\ DOMAIN a.held = HeldIn(a.set) /\ DOMAIN b.held = HeldIn(b.set)
      /\ HeldByLayers(a.held, a.from) /\ HeldByLayers(b.held, b.from)
      /\ a.from \in Seq(DOMAIN configs) /\ a.from # <<>> /\ b.from \in Seq(DOMAIN configs)
      /\ a.set = Layered(Sets(a)) /\ b.set = Layered(Sets(b))
  BY ConfigThere
<1>5. Range(a.from) \subseteq Range(c.from) /\ Range(b.from) \subseteq Range(c.from)
  BY <1>2, <1>4, RangeOfConcatenation
<1>6. DOMAIN c.held = HeldIn(c.set)
  BY <1>2 DEF MergedHeld
<1>7. HeldByLayers(c.held, c.from)
  <2> SUFFICES ASSUME NEW part \in DOMAIN c.held
               PROVE  \E j \in Range(c.from) : c.held[part] = <<j, part[1], part[2]>>
    BY DEF HeldByLayers
  <2>1. /\ part \in DOMAIN a.held \/ part \in DOMAIN b.held
        /\ c.held[part] = IF part \in DOMAIN b.held THEN b.held[part] ELSE a.held[part]
    BY <1>2, <1>4, <1>6, HeldOfMerge DEF MergedHeld
  <2> QED BY <1>4, <1>5, <2>1 DEF HeldByLayers
<1>8. c.from \in Seq(DOMAIN configs) /\ Sets(c) = Sets(a) \o Sets(b)
  BY <1>2, <1>4, SetsOfMerge
<1>9. c.from # <<>>
  <2>1. Len(a.from) \in Nat /\ Len(b.from) \in Nat /\ Len(a.from) # 0
    BY <1>4, LenProperties, EmptySeq
  <2>2. Len(c.from) = Len(a.from) + Len(b.from)
    BY <1>2, <1>4, Concatenation
  <2>3. \A m, n \in Nat : m # 0 => m + n # 0
    OBVIOUS
  <2>4. Len(c.from) # 0
    BY <2>1, <2>2, <2>3, Zenon
  <2>5. Len(<<>>) = 0
    OBVIOUS
  <2> QED BY <2>4, <2>5, Zenon
<1>10. c.set = Layered(Sets(c))
  <2>1. Sets(a) \in Seq(AllSets) /\ Sets(b) \in Seq(AllSets)
    BY <1>4, SetsAreSeq
  <2> QED BY <1>2, <1>4, <1>8, <2>1, MergeOfLayered
<1> QED BY <1>1, <1>2, <1>3, <1>6, <1>7, <1>8, <1>9, <1>10, MakeKeepsIInv

LEMMA CloneKeepsIInv ==
  ASSUME IInv, NEW a \in Range(configs), Clone(a)
  PROVE  IInv'
<1> DEFINE c == [a EXCEPT !.cell = CopiedCells(Len(configs) + 1, a)]
<1>1. Make(c)
  BY DEF Clone
<1>2. /\ DOMAIN a = {"set", "from", "cell", "held"}
      /\ DOMAIN a.held = HeldIn(a.set) /\ HeldByLayers(a.held, a.from)
      /\ a.from \in Seq(DOMAIN configs) /\ a.from # <<>>
      /\ a.set = Layered(Sets(a))
  BY ConfigThere
<1>3. /\ DOMAIN c = {"set", "from", "cell", "held"}
      /\ c.set = a.set /\ c.from = a.from /\ c.held = a.held
      /\ c.cell = CopiedCells(Len(configs) + 1, a)
  BY <1>2
<1> HIDE DEF c
<1>4. DOMAIN c.cell = DOMAIN c.set /\ \A f \in DOMAIN c.cell : c.cell[f] = <<Len(configs) + 1, f>>
  BY <1>3 DEF CopiedCells
<1>5. Sets(c) = Sets(a)
  BY <1>3 DEF Sets
<1>6. DOMAIN c.held = HeldIn(c.set) /\ c.set = Layered(Sets(c))
      /\ HeldByLayers(c.held, c.from)
  BY <1>2, <1>3, <1>5
<1>7. c.from \in Seq(DOMAIN configs) /\ c.from # <<>>
  BY <1>2, <1>3
<1> QED BY <1>1, <1>3, <1>4, <1>6, <1>7, MakeKeepsIInv

(* Something is written that configuration k holds.                         *)
LEMMA WriteKeepsIInv ==
  ASSUME IInv, NEW k \in DOMAIN configs, NEW cells, Write(k, cells),
         \A cell \in cells : \/ \E f : cell = <<k, f>>
                             \/ \E j \in Range(configs[k].from) : \E x, y : cell = <<j, x, y>>
  PROVE  IInv'
<1>1. PICK cell \in cells : touched' = touched \cup {cell}
  BY DEF Write
<1>2. written' = written \cup {k} /\ configs' = configs
  BY DEF Write
<1>3. TouchedCells'
  <2>1. written' \subseteq DOMAIN configs'
    BY <1>2 DEF IInv, TouchedCells
  <2> SUFFICES ASSUME NEW c \in touched'
               PROVE  \/ \E i \in written' : \E f : c = <<i, f>>
                      \/ \E i \in written' : \E j \in Range(configs[i].from) : \E x, y : c = <<j, x, y>>
    BY <1>2, <2>1 DEF TouchedCells
  <2>2. CASE c \in touched
    BY <1>2, <2>2 DEF IInv, TouchedCells
  <2>3. CASE c = cell
    BY <1>2, <2>3
  <2> QED BY <1>1, <2>2, <2>3
<1> QED BY <1>2, <1>3 DEF IInv, OwnCells, IsLayered, Sets

LEMMA WriteFieldKeepsIInv ==
  ASSUME IInv, NEW k \in DOMAIN configs, WriteField(k)
  PROVE  IInv'
<1>1. OwnCells(k)
  BY DEF IInv
<1>2. \A cell \in Cells(configs[k]) : \E f : cell = <<k, f>>
  BY <1>1 DEF Cells, Range, OwnCells
<1>3. \A cell \in HeldCells(configs[k]) :
         \E j \in Range(configs[k].from) : \E x, y : cell = <<j, x, y>>
  <2> DEFINE held == configs[k].held
             from == configs[k].from
  <2>1. HeldByLayers(held, from)
    BY <1>1 DEF OwnCells
  <2> SUFFICES ASSUME NEW cell \in Range(held)
               PROVE  \E j \in Range(from) : \E x, y : cell = <<j, x, y>>
    BY DEF HeldCells
  <2> HIDE DEF held, from
  <2>2. PICK part \in DOMAIN held : cell = held[part]
    BY DEF Range
  <2>3. PICK j \in Range(from) : held[part] = <<j, part[1], part[2]>>
    BY <2>1 DEF HeldByLayers
  <2> QED BY <2>2, <2>3
<1> QED BY <1>2, <1>3, WriteKeepsIInv DEF WriteField

LEMMA WriteRequestKeepsIInv ==
  ASSUME IInv, NEW k \in DOMAIN configs, NEW provider \in Providers, WriteRequest(k, provider)
  PROVE  IInv'
<1> DEFINE c == configs[k]
           lent == Lent(provider, c.set)
           sent == HeldSent(provider, c.set)
<1>1. OwnCells(k) /\ DOMAIN c.cell = DOMAIN c.set
  BY DEF IInv
<1>2. lent \subseteq DOMAIN c.set
  BY DEF Lent
<1>3. sent \subseteq HeldIn(c.set)
  BY DEF HeldSent
<1> HIDE DEF lent, sent
<1>4. \A cell \in {c.cell[f] : f \in lent} : \E f : cell = <<k, f>>
  BY <1>1, <1>2 DEF OwnCells
<1>5. \A cell \in {c.held[part] : part \in sent} :
         \E j \in Range(c.from) : \E x, y : cell = <<j, x, y>>
  <2> DEFINE held == c.held
             from == c.from
  <2>1. HeldByLayers(held, from) /\ sent \subseteq DOMAIN held
    BY <1>1, <1>3 DEF OwnCells
  <2> HIDE DEF held, from
  <2>2. \A part \in sent : \E j \in Range(from) : held[part] = <<j, part[1], part[2]>>
    BY <2>1 DEF HeldByLayers
  <2>3. \A cell \in {held[part] : part \in sent} :
           \E j \in Range(from) : \E x, y : cell = <<j, x, y>>
    BY <2>2
  <2> QED BY <2>3 DEF held, from
<1> QED BY <1>4, <1>5, WriteKeepsIInv DEF WriteRequest, lent, sent

LEMMA InitIInv == Init => IInv
<1> SUFFICES ASSUME Init PROVE IInv
  OBVIOUS
<1>1. PICK stack \in Stacks : configs = [k \in DOMAIN stack |-> NewLayer(k, stack[k])]
  BY DEF Init
<1>2. /\ stack \in Seq(Range(stack)) /\ stack # <<>>
      /\ \A n \in DOMAIN stack : IsConfig(stack[n])
  BY LayersAssumption
<1>3. DOMAIN stack = 1..Len(stack) /\ Len(stack) \in Nat /\ Len(stack) # 0
  BY <1>2, LenProperties, EmptySeq
<1>4. /\ DOMAIN configs = 1..Len(stack)
      /\ \A k \in 1..Len(stack) : configs[k] = NewLayer(k, stack[k])
  BY <1>1, <1>3
<1>5. configs \in Seq(Range(configs))
  <2>1. configs = [k \in 1..Len(stack) |-> configs[k]]
    BY <1>1, <1>4
  <2>2. \A k \in 1..Len(stack) : configs[k] \in Range(configs)
    BY <1>4 DEF Range
  <2>3. configs \in [1..Len(stack) -> Range(configs)]
    BY <2>1, <2>2
  <2> DEFINE R == Range(configs)
  <2> HIDE DEF R
  <2> QED BY <1>3, <2>3, SeqDef DEF R
<1>6. configs # <<>>
  BY <1>3, <1>4
<1>7. ASSUME NEW k \in DOMAIN configs
      PROVE  /\ DOMAIN configs[k] = {"set", "from", "cell", "held"}
             /\ DOMAIN configs[k].cell = DOMAIN configs[k].set
             /\ OwnCells(k) /\ IsLayered(k)
  <2> DEFINE c == configs[k]
             set == stack[k]
  <2>1. /\ k \in 1..Len(stack) /\ IsConfig(set)
        /\ c = [set |-> set, from |-> <<k>>, cell |-> [f \in DOMAIN set |-> <<k, f>>],
                held |-> [part \in HeldIn(set) |-> <<k, part[1], part[2]>>]]
    BY <1>2, <1>3, <1>4 DEF NewLayer
  <2>2. /\ DOMAIN c = {"set", "from", "cell", "held"}
        /\ c.set = set /\ c.from = <<k>>
        /\ c.cell = [f \in DOMAIN set |-> <<k, f>>]
        /\ c.held = [part \in HeldIn(set) |-> <<k, part[1], part[2]>>]
    BY <2>1
  <2>3. OwnCells(k)
    <3> HIDE DEF set
    <3>1. k \in Range(c.from)
      BY <2>2 DEF Range
    <3>2. HeldByLayers(c.held, c.from)
      BY <2>2, <3>1 DEF HeldByLayers
    <3> QED BY <2>2, <3>2 DEF OwnCells
  <2>4. Sets(c) = <<set>>
    <3>1. /\ DOMAIN c.from = 1..1 /\ c.from[1] = k
      BY <2>2
    <3>2. Sets(c) = [n \in 1..1 |-> set]
      BY <2>2, <3>1 DEF Sets
    <3> QED BY <3>2
  <2>5. IsLayered(k)
    BY <2>1, <2>2, <2>4, OneLayer DEF IsLayered
  <2> QED BY <2>2, <2>3, <2>5
<1>8. TouchedCells
  BY DEF Init, TouchedCells
<1> QED BY <1>5, <1>6, <1>7, <1>8 DEF IInv

LEMMA AlwaysIInv == Spec => []IInv
<1>1. ASSUME IInv, [Next]_vars PROVE IInv'
  <2>1. CASE UNCHANGED vars
    BY <1>1, <2>1 DEF vars, IInv, OwnCells, IsLayered, Sets, TouchedCells
  <2> QED
    BY <1>1, <2>1, MergeTwoKeepsIInv, CloneKeepsIInv, WriteFieldKeepsIInv, WriteRequestKeepsIInv
    DEF Next
<1> QED BY <1>1, InitIInv, PTL DEF Spec

(* Config.Merge and Config.Clone, in any order: each field is what the last *)
(* of the layers to set it says, each option likewise, and what is made of  *)
(* valid layers is valid without being validated again.                     *)
THEOREM MergesAreLayered == Spec => []MergeIsLayered
<1>1. ASSUME IInv PROVE MergeIsLayered
  <2> DEFINE c == configs[Len(configs)]
  <2>1. Len(configs) \in DOMAIN configs
    BY <1>1, ConfigsAreSeq
  <2>2. c.from \in Seq(DOMAIN configs) /\ c.set = Layered(Sets(c))
    BY <1>1, <2>1 DEF IInv, IsLayered
  <2>3. Sets(c) \in Seq(AllSets)
    BY <2>2, SetsAreSeq
  <2>4. (\A n \in DOMAIN Sets(c) : Validate(Sets(c)[n])) => Validate(c.set)
    BY <2>2, <2>3, ValidLayers
  <2> QED BY <2>2, <2>4 DEF MergeIsLayered, Last
<1> QED BY <1>1, AlwaysIInv, PTL

(* Clone copies every field a configuration keeps in a list, a map or an    *)
(* object, and Merge starts from a clone: what is written through one       *)
(* configuration, or a request made from it, is written in no other.  What  *)
(* the copies do not reach (what an option holds, the typed lists and maps  *)
(* of a schema) is written in no other but those with a layer in common.    *)
THEOREM ConfigsAreTheirOwn == Spec => []LayersStayTheirOwn
<1>1. ASSUME IInv PROVE LayersStayTheirOwn
  <2>1. ASSUME NEW cell \in touched
        PROVE  \/ \E i \in written : \E g : cell = <<i, g>>
               \/ \E i \in written : \E j \in Range(configs[i].from) : \E x, y : cell = <<j, x, y>>
    BY <1>1 DEF IInv, TouchedCells
  <2>2. ASSUME NEW k \in DOMAIN configs \ written, NEW cell \in Cells(configs[k]), cell \in touched
        PROVE  FALSE
    <3>1. PICK f : cell = <<k, f>>
      BY <1>1 DEF IInv, OwnCells, Cells, Range
    <3>2. Len(cell) = 2 /\ cell[1] = k
      BY <3>1
    <3>3. \A j, x, y : Len(<<j, x, y>>) = 3
      OBVIOUS
    <3>4. PICK i \in written : \E g : cell = <<i, g>>
      BY <2>1, <2>2, <3>2, <3>3
    <3> QED BY <3>2, <3>4
  <2>3. ASSUME NEW k \in DOMAIN configs, NEW cell \in HeldCells(configs[k]), cell \in touched
        PROVE  \E w \in written : Range(configs[w].from) \cap Range(configs[k].from) # {}
    <3>1. PICK part \in DOMAIN configs[k].held : cell = configs[k].held[part]
      BY DEF HeldCells, Range
    <3>2. PICK j \in Range(configs[k].from) : cell = <<j, part[1], part[2]>>
      BY <1>1, <3>1 DEF IInv, OwnCells, HeldByLayers
    <3>3. Len(cell) = 3 /\ cell[1] = j
      BY <3>2
    <3>4. \A i, g : Len(<<i, g>>) = 2
      OBVIOUS
    <3>5. PICK w \in written : \E i \in Range(configs[w].from) : \E x, y : cell = <<i, x, y>>
      BY <2>1, <2>3, <3>3, <3>4
    <3>6. j \in Range(configs[w].from)
      BY <3>3, <3>5
    <3> QED BY <3>6
  <2> QED BY <2>2, <2>3 DEF LayersStayTheirOwn
<1> QED BY <1>1, AlwaysIInv, PTL
-----------------------------------------------------------------------------
(* What is sent to a provider is nobody's half: what the most specific      *)
(* layer asks for is sent, and nothing that no layer asks for.              *)

\* Field f of a configuration, by itself.
Only(c, f) == [g \in {f} |-> c[f]]

(* Each key of request r, made from c, is one that some field asks for when *)
(* it stands alone; alone[f] is the request made from field f.  Fields that *)
(* are not read ask for nothing.                                            *)
Asks(c, r, alone, read) ==
  /\ \A key : Has(r, key) =>
        \E f \in read : Has(c, f) /\ Has(alone[f], key) /\ alone[f][key] = r[key]
  /\ \A f, key : Has(c, f) /\ f \notin read => ~ Has(alone[f], key)

(* No field asks for a key in both of two requests.                         *)
Apart(c, one, other) ==
  \A f, key : Has(c, f) => ~ (Has(one[f], key) /\ Has(other[f], key))

(* The options, by themselves, are all that is asked for.                   *)
Sends(c, r, alone, read) ==
  /\ Asks(c, r, alone, read)
  /\ Has(c, "options") /\ "options" \in read =>
       \A key : /\ Has(alone["options"], key) <=> Has(c["options"], key)
                /\ Has(c["options"], key) =>
                      alone["options"][key] = <<"options", c["options"][key]>>

(* What two requests have under the same key is the same, or is there for   *)
(* another field.                                                           *)
Stands(r, q, fields) ==
  /\ \A key : Has(q, key) /\ Has(r, key) => r[key] = q[key] \/ r[key][1] # q[key][1]
  /\ \A key : Has(r, key) => r[key][1] \in fields
  /\ \A key : Has(q, key) => q[key][1] \in fields

(* And nothing of q is missing from r.                                      *)
Kept(r, q, fields) == Stands(r, q, fields) /\ \A key : Has(q, key) => Has(r, key)

(* What configuration last sets, c sets too; it may have more options.      *)
Above(c, last) ==
  \A f : Has(last, f) =>
    /\ Has(c, f)
    /\ f # "options" => c[f] = last[f]
    /\ f = "options" => \A o : Has(last["options"], o) =>
                           Has(c["options"], o) /\ c["options"][o] = last["options"][o]

-----------------------------------------------------------------------------
(* Requests that are written one over another. *)

LEMMA WrittenNone == Written(<<>>) = <<>>
<1>1. DOMAIN Written(<<>>) = {}
  BY DEF Written
<1> QED BY <1>1 DEF Written

LEMMA WrittenOver ==
  ASSUME NEW S, NEW rs \in Seq(S), NEW r
  PROVE  Written(Append(rs, r)) = Over(r, Written(rs))
<1> DEFINE qs == Append(rs, r)
           N == Len(rs)
           W == Written(qs)
           V == Written(rs)
<1>1. /\ N \in Nat /\ DOMAIN rs = 1..N /\ DOMAIN qs = 1..N + 1 /\ Len(qs) = N + 1
      /\ \A n \in 1..N : qs[n] = rs[n]
      /\ qs[N + 1] = r
  BY LenProperties
<1> HIDE DEF qs, N
<1>2. /\ W = [key \in UNION {DOMAIN qs[n] : n \in DOMAIN qs} |->
                qs[CHOOSE n \in DOMAIN qs : key \in DOMAIN qs[n]
                     /\ \A later \in n + 1 .. Len(qs) : key \notin DOMAIN qs[later]][key]]
      /\ V = [key \in UNION {DOMAIN rs[n] : n \in DOMAIN rs} |->
                rs[CHOOSE n \in DOMAIN rs : key \in DOMAIN rs[n]
                     /\ \A later \in n + 1 .. N : key \notin DOMAIN rs[later]][key]]
  BY DEF Written, N
<1> HIDE DEF W, V
<1>3. DOMAIN W = DOMAIN V \cup DOMAIN r
  <2>1. DOMAIN W = UNION {DOMAIN qs[n] : n \in 1..N + 1}
    BY <1>1, <1>2
  <2>2. DOMAIN V = UNION {DOMAIN rs[n] : n \in 1..N}
    BY <1>1, <1>2
  <2>3. \A n \in 1..N + 1 : n \in 1..N \/ n = N + 1
    BY <1>1
  <2>4. \A n \in 1..N : n \in 1..N + 1
    BY <1>1
  <2>5. N + 1 \in 1..N + 1
    BY <1>1
  <2> QED BY <1>1, <2>1, <2>2, <2>3, <2>4, <2>5
<1>4. ASSUME NEW key \in DOMAIN r PROVE W[key] = r[key]
  <2> DEFINE P(n) == n \in DOMAIN qs /\ key \in DOMAIN qs[n]
                       /\ \A later \in n + 1 .. Len(qs) : key \notin DOMAIN qs[later]
  <2>1. P(N + 1)
    BY <1>1
  <2>2. ASSUME NEW n, P(n) PROVE n = N + 1
    BY <1>1, <2>2
  <2>3. (CHOOSE n \in DOMAIN qs : key \in DOMAIN qs[n]
           /\ \A later \in n + 1 .. Len(qs) : key \notin DOMAIN qs[later]) = N + 1
    BY <2>1, <2>2
  <2> QED BY <1>1, <1>2, <1>3, <2>3
<1>5. ASSUME NEW key \in DOMAIN V, key \notin DOMAIN r PROVE W[key] = V[key]
  <2> DEFINE P(n) == n \in DOMAIN qs /\ key \in DOMAIN qs[n]
                       /\ \A later \in n + 1 .. Len(qs) : key \notin DOMAIN qs[later]
             Q(n) == n \in DOMAIN rs /\ key \in DOMAIN rs[n]
                       /\ \A later \in n + 1 .. N : key \notin DOMAIN rs[later]
  <2>1. \E n : Q(n)
    <3> DEFINE K == {n \in 1..N : key \in DOMAIN rs[n]}
    <3>1. K \subseteq 1..N /\ K # {}
      BY <1>1, <1>2, <1>5
    <3>2. PICK n \in K : \A later \in n + 1..N : later \notin K
      <4> HIDE DEF K
      <4> QED BY <1>1, <3>1, LastElement
    <3>3. \A later \in n + 1..N : later \in 1..N
      BY <1>1
    <3> QED BY <1>1, <3>2, <3>3
  <2>2. PICK n : Q(n)
    BY <2>1
  <2>3. P(n)
    <3>1. ASSUME NEW later \in n + 1 .. N + 1 PROVE key \notin DOMAIN qs[later]
      <4>1. (later \in n + 1..N /\ later \in 1..N) \/ later = N + 1
        BY <1>1, <2>2
      <4> QED BY <1>1, <1>5, <2>2, <4>1
    <3> QED BY <1>1, <2>2, <3>1
  <2>4. ASSUME NEW m, Q(m) PROVE m = n
    BY <1>1, <2>2, <2>4
  <2>5. ASSUME NEW m, P(m) PROVE m = n
    <3>1. m \in 1..N
      BY <1>1, <1>5, <2>5
    <3> QED BY <1>1, <2>2, <2>3, <2>5, <3>1
  <2>6. (CHOOSE m \in DOMAIN rs : key \in DOMAIN rs[m]
           /\ \A later \in m + 1 .. N : key \notin DOMAIN rs[later]) = n
    BY <2>2, <2>4
  <2>7. (CHOOSE m \in DOMAIN qs : key \in DOMAIN qs[m]
           /\ \A later \in m + 1 .. Len(qs) : key \notin DOMAIN qs[later]) = n
    BY <2>3, <2>5
  <2>8. W[key] = qs[n][key] /\ V[key] = rs[n][key]
    BY <1>2, <1>3, <1>5, <2>6, <2>7
  <2> QED BY <1>1, <2>2, <2>8
<1>6. W = [key \in DOMAIN V \cup DOMAIN r |-> IF key \in DOMAIN r THEN r[key] ELSE V[key]]
  <2>1. W = [key \in DOMAIN W |-> W[key]]
    BY <1>2
  <2>2. \A key \in DOMAIN W : W[key] = IF key \in DOMAIN r THEN r[key] ELSE V[key]
    BY <1>3, <1>4, <1>5
  <2> QED BY <1>3, <2>1, <2>2
<1> QED BY <1>6 DEF Over, W, V, qs

(* The same of the requests of a provider, as many as they are.             *)
LEMMA WrittenFour ==
  ASSUME NEW r1, NEW r2, NEW r3, NEW r4
  PROVE  Written(<<r1, r2, r3, r4>>) = Over(r4, Over(r3, Over(r2, Over(r1, <<>>))))
<1> DEFINE S == {r1, r2, r3, r4}
<1>1. /\ <<>> \in Seq(S) /\ <<r1>> = Append(<<>>, r1)
      /\ <<r1>> \in Seq(S) /\ <<r1, r2>> = Append(<<r1>>, r2)
      /\ <<r1, r2>> \in Seq(S) /\ <<r1, r2, r3>> = Append(<<r1, r2>>, r3)
      /\ <<r1, r2, r3>> \in Seq(S) /\ <<r1, r2, r3, r4>> = Append(<<r1, r2, r3>>, r4)
  OBVIOUS
<1> HIDE DEF S
<1>2. Written(<<r1>>) = Over(r1, <<>>)
  BY <1>1, WrittenNone, WrittenOver
<1>3. Written(<<r1, r2>>) = Over(r2, Over(r1, <<>>))
  BY <1>1, <1>2, WrittenOver
<1>4. Written(<<r1, r2, r3>>) = Over(r3, Over(r2, Over(r1, <<>>)))
  BY <1>1, <1>3, WrittenOver
<1> QED BY <1>1, <1>4, WrittenOver

LEMMA WrittenFive ==
  ASSUME NEW r1, NEW r2, NEW r3, NEW r4, NEW r5
  PROVE  Written(<<r1, r2, r3, r4, r5>>) = Over(r5, Over(r4, Over(r3, Over(r2, Over(r1, <<>>)))))
<1> DEFINE S == {r1, r2, r3, r4}
           four == <<r1, r2, r3, r4>>
<1>1. four \in Seq(S) /\ <<r1, r2, r3, r4, r5>> = Append(four, r5)
  OBVIOUS
<1> HIDE DEF S, four
<1>2. Written(<<r1, r2, r3, r4, r5>>) = Over(r5, Written(four))
  BY <1>1, WrittenOver
<1>3. Written(four) = Over(r4, Over(r3, Over(r2, Over(r1, <<>>))))
  BY WrittenFour DEF four
<1> QED BY <1>2, <1>3

LEMMA WrittenSix ==
  ASSUME NEW r1, NEW r2, NEW r3, NEW r4, NEW r5, NEW r6
  PROVE  Written(<<r1, r2, r3, r4, r5, r6>>)
           = Over(r6, Over(r5, Over(r4, Over(r3, Over(r2, Over(r1, <<>>))))))
<1> DEFINE S == {r1, r2, r3, r4, r5}
           five == <<r1, r2, r3, r4, r5>>
<1>1. five \in Seq(S) /\ <<r1, r2, r3, r4, r5, r6>> = Append(five, r6)
  OBVIOUS
<1> HIDE DEF S, five
<1>2. Written(<<r1, r2, r3, r4, r5, r6>>) = Over(r6, Written(five))
  BY <1>1, WrittenOver
<1>3. Written(five) = Over(r5, Over(r4, Over(r3, Over(r2, Over(r1, <<>>)))))
  BY WrittenFive DEF five
<1> QED BY <1>2, <1>3

LEMMA WrittenEight ==
  ASSUME NEW r1, NEW r2, NEW r3, NEW r4, NEW r5, NEW r6, NEW r7, NEW r8
  PROVE  Written(<<r1, r2, r3, r4, r5, r6, r7, r8>>)
           = Over(r8, Over(r7, Over(r6, Over(r5, Over(r4, Over(r3, Over(r2, Over(r1, <<>>))))))))
<1> DEFINE S == {r1, r2, r3, r4, r5, r6, r7}
           six == <<r1, r2, r3, r4, r5, r6>>
           seven == <<r1, r2, r3, r4, r5, r6, r7>>
<1>1. six \in Seq(S) /\ seven = Append(six, r7)
  OBVIOUS
<1>2. seven \in Seq(S) /\ <<r1, r2, r3, r4, r5, r6, r7, r8>> = Append(seven, r8)
  OBVIOUS
<1> HIDE DEF S, six, seven
<1>3. Written(<<r1, r2, r3, r4, r5, r6, r7, r8>>) = Over(r8, Written(seven))
  BY <1>2, WrittenOver
<1>4. Written(seven) = Over(r7, Written(six))
  BY <1>1, WrittenOver
<1>5. Written(six) = Over(r6, Over(r5, Over(r4, Over(r3, Over(r2, Over(r1, <<>>))))))
  BY WrittenSix DEF six
<1> QED BY <1>3, <1>4, <1>5

LEMMA OverKeys ==
  ASSUME NEW b, NEW a
  PROVE  /\ \A key : Has(Over(b, a), key) <=> Has(b, key) \/ Has(a, key)
         /\ \A key : Has(b, key) => Over(b, a)[key] = b[key]
         /\ \A key : Has(a, key) /\ ~ Has(b, key) => Over(b, a)[key] = a[key]
  BY DEF Over, Has

LEMMA NoKeys == \A key : ~ Has(<<>>, key)
<1>1. DOMAIN <<>> = {}
  OBVIOUS
<1> QED BY <1>1 DEF Has

LEMMA AsksNothing ==
  ASSUME NEW c, NEW alone, \A f, key : Has(c, f) => ~ Has(alone[f], key)
  PROVE  Asks(c, <<>>, alone, {})
  BY NoKeys DEF Asks

LEMMA AsksOver ==
  ASSUME NEW c, NEW r, NEW q, NEW one, NEW other, NEW both, NEW F, NEW G,
         Asks(c, r, one, F), Asks(c, q, other, G), Apart(c, one, other),
         \A f : Has(c, f) => both[f] = Over(one[f], other[f])
  PROVE  Asks(c, Over(r, q), both, F \cup G)
<1>1. ASSUME NEW key, Has(Over(r, q), key)
      PROVE  \E f \in F \cup G :
                Has(c, f) /\ Has(both[f], key) /\ both[f][key] = Over(r, q)[key]
  <2>1. CASE Has(r, key)
    <3>1. PICK f \in F : Has(c, f) /\ Has(one[f], key) /\ one[f][key] = r[key]
      BY <2>1 DEF Asks
    <3>2. Has(both[f], key) /\ both[f][key] = one[f][key] /\ Over(r, q)[key] = r[key]
      BY <2>1, <3>1, OverKeys
    <3> QED BY <3>1, <3>2
  <2>2. CASE ~ Has(r, key)
    <3>1. Has(q, key) /\ Over(r, q)[key] = q[key]
      BY <1>1, <2>2, OverKeys
    <3>2. PICK f \in G : Has(c, f) /\ Has(other[f], key) /\ other[f][key] = q[key]
      BY <3>1 DEF Asks
    <3>3. ~ Has(one[f], key)
      BY <3>2 DEF Apart
    <3>4. Has(both[f], key) /\ both[f][key] = other[f][key]
      BY <3>2, <3>3, OverKeys
    <3> QED BY <3>1, <3>2, <3>4
  <2> QED BY <2>1, <2>2
<1>2. ASSUME NEW f, NEW key, Has(c, f), f \notin F \cup G PROVE ~ Has(both[f], key)
  <2>1. ~ Has(one[f], key) /\ ~ Has(other[f], key)
    BY <1>2 DEF Asks
  <2> QED BY <1>2, <2>1, OverKeys
<1> QED BY <1>1, <1>2 DEF Asks

LEMMA StandsOver ==
  ASSUME NEW r, NEW q, NEW older, NEW oldest, NEW F, NEW G,
         Stands(r, q, F), Stands(older, oldest, G), F \cap G = {}
  PROVE  Stands(Over(r, older), Over(q, oldest), F \cup G)
<1>1. ASSUME NEW key, Has(Over(q, oldest), key), Has(Over(r, older), key)
      PROVE  \/ Over(r, older)[key] = Over(q, oldest)[key]
             \/ Over(r, older)[key][1] # Over(q, oldest)[key][1]
  <2>1. CASE Has(r, key)
    <3>1. Over(r, older)[key] = r[key] /\ r[key][1] \in F
      BY <2>1, OverKeys DEF Stands
    <3>2. CASE Has(q, key)
      BY <2>1, <3>1, <3>2, OverKeys DEF Stands
    <3>3. CASE ~ Has(q, key)
      <4>1. Over(q, oldest)[key] = oldest[key] /\ oldest[key][1] \in G
        BY <1>1, <3>3, OverKeys DEF Stands
      <4> QED BY <3>1, <4>1
    <3> QED BY <3>2, <3>3
  <2>2. CASE ~ Has(r, key)
    <3>1. Has(older, key) /\ Over(r, older)[key] = older[key] /\ older[key][1] \in G
      BY <1>1, <2>2, OverKeys DEF Stands
    <3>2. CASE Has(q, key)
      <4>1. Over(q, oldest)[key] = q[key] /\ q[key][1] \in F
        BY <3>2, OverKeys DEF Stands
      <4> QED BY <3>1, <4>1
    <3>3. CASE ~ Has(q, key)
      <4>1. Has(oldest, key) /\ Over(q, oldest)[key] = oldest[key]
        BY <1>1, <3>3, OverKeys
      <4> QED BY <3>1, <4>1 DEF Stands
    <3> QED BY <3>2, <3>3
  <2> QED BY <2>1, <2>2
<1>2. ASSUME NEW key, Has(Over(r, older), key) PROVE Over(r, older)[key][1] \in F \cup G
  <2>1. CASE Has(r, key)
    BY <2>1, OverKeys DEF Stands
  <2>2. CASE ~ Has(r, key)
    BY <1>2, <2>2, OverKeys DEF Stands
  <2> QED BY <2>1, <2>2
<1>3. ASSUME NEW key, Has(Over(q, oldest), key) PROVE Over(q, oldest)[key][1] \in F \cup G
  <2>1. CASE Has(q, key)
    BY <2>1, OverKeys DEF Stands
  <2>2. CASE ~ Has(q, key)
    BY <1>3, <2>2, OverKeys DEF Stands
  <2> QED BY <2>1, <2>2
<1> QED BY <1>1, <1>2, <1>3 DEF Stands

LEMMA KeptOver ==
  ASSUME NEW r, NEW q, NEW older, NEW oldest, NEW F, NEW G,
         Stands(r, q, F), \A key : Has(q, key) => Has(r, key) \/ Has(older, key),
         Kept(older, oldest, G), F \cap G = {}
  PROVE  Kept(Over(r, older), Over(q, oldest), F \cup G)
<1>1. ASSUME NEW key, Has(Over(q, oldest), key) PROVE Has(Over(r, older), key)
  BY <1>1, OverKeys DEF Kept
<1> QED BY <1>1, StandsOver DEF Kept

-----------------------------------------------------------------------------
(* The parts requests are made of. *)

LEMMA HasOnly ==
  ASSUME NEW c, NEW f
  PROVE  /\ \A g : Has(Only(c, f), g) <=> g = f
         /\ Only(c, f)[f] = c[f]
  BY DEF Only, Has

LEMMA RenamedKeys ==
  ASSUME NEW object, NEW names
  PROVE  /\ \A f : Has(object, f) /\ Has(names, f) => Has(Renamed(object, names), names[f])
         /\ \A key : Has(Renamed(object, names), key) =>
               \E f : /\ Has(object, f) /\ Has(names, f) /\ names[f] = key
                      /\ Renamed(object, names)[key] = <<f, object[f]>>
<1> DEFINE set == DOMAIN object \cap DOMAIN names
           FieldOf(key) == CHOOSE f \in set : names[f] = key
           r == Renamed(object, names)
<1>1. r = [key \in {names[f] : f \in set} |-> <<FieldOf(key), object[FieldOf(key)]>>]
  BY DEF Renamed
<1>2. ASSUME NEW key \in {names[f] : f \in set}
      PROVE  FieldOf(key) \in set /\ names[FieldOf(key)] = key
  OBVIOUS
<1> HIDE DEF FieldOf, r
<1>3. DOMAIN r = {names[f] : f \in set}
  BY <1>1
<1>4. ASSUME NEW key \in DOMAIN r
      PROVE  \E f : /\ f \in DOMAIN object /\ f \in DOMAIN names /\ names[f] = key
                    /\ r[key] = <<f, object[f]>>
  BY <1>1, <1>2, <1>3
<1> QED BY <1>3, <1>4 DEF Has, r

LEMMA RenamedAsks ==
  ASSUME NEW c, NEW names, NEW alone,
         \A f : Has(c, f) => alone[f] = Renamed(Only(c, f), names)
  PROVE  Asks(c, Renamed(c, names), alone, DOMAIN names)
<1>1. ASSUME NEW key, Has(Renamed(c, names), key)
      PROVE  \E f \in DOMAIN names :
                Has(c, f) /\ Has(alone[f], key) /\ alone[f][key] = Renamed(c, names)[key]
  <2>1. PICK f : /\ Has(c, f) /\ Has(names, f) /\ names[f] = key
                 /\ Renamed(c, names)[key] = <<f, c[f]>>
    BY <1>1, RenamedKeys
  <2>2. Has(Only(c, f), f) /\ Only(c, f)[f] = c[f] /\ \A g : Has(Only(c, f), g) => g = f
    BY HasOnly
  <2>3. Has(Renamed(Only(c, f), names), key)
    BY <2>1, <2>2, RenamedKeys
  <2>4. Renamed(Only(c, f), names)[key] = <<f, c[f]>>
    BY <2>2, <2>3, RenamedKeys
  <2>5. f \in DOMAIN names /\ alone[f] = Renamed(Only(c, f), names)
    BY <2>1 DEF Has
  <2> QED BY <2>1, <2>3, <2>4, <2>5
<1>2. ASSUME NEW f, NEW key, Has(c, f), f \notin DOMAIN names PROVE ~ Has(alone[f], key)
  <2>1. \A g : ~ (Has(Only(c, f), g) /\ Has(names, g))
    BY <1>2, HasOnly DEF Has
  <2> QED BY <1>2, <2>1, RenamedKeys
<1> QED BY <1>1, <1>2 DEF Asks

LEMMA RenamedStands ==
  ASSUME NEW c, NEW last, NEW names,
         \A f : Has(last, f) /\ Has(names, f) => Has(c, f) /\ c[f] = last[f]
  PROVE  /\ Stands(Renamed(c, names), Renamed(last, names), DOMAIN names)
         /\ \A key : Has(Renamed(last, names), key) => Has(Renamed(c, names), key)
<1>1. ASSUME NEW key, Has(Renamed(last, names), key), Has(Renamed(c, names), key)
      PROVE  \/ Renamed(c, names)[key] = Renamed(last, names)[key]
             \/ Renamed(c, names)[key][1] # Renamed(last, names)[key][1]
  <2>1. PICK f : Has(last, f) /\ Has(names, f) /\ Renamed(last, names)[key] = <<f, last[f]>>
    BY <1>1, RenamedKeys
  <2>2. PICK g : Has(c, g) /\ Has(names, g) /\ Renamed(c, names)[key] = <<g, c[g]>>
    BY <1>1, RenamedKeys
  <2>3. f = g => c[g] = last[f]
    BY <2>1
  <2> QED BY <2>1, <2>2, <2>3
<1>2. ASSUME NEW d, NEW key, Has(Renamed(d, names), key)
      PROVE  Renamed(d, names)[key][1] \in DOMAIN names
  <2>1. PICK f : Has(names, f) /\ Renamed(d, names)[key] = <<f, d[f]>>
    BY <1>2, RenamedKeys
  <2> QED BY <2>1 DEF Has
<1>3. ASSUME NEW key, Has(Renamed(last, names), key) PROVE Has(Renamed(c, names), key)
  <2>1. PICK f : Has(last, f) /\ Has(names, f) /\ names[f] = key
    BY <1>3, RenamedKeys
  <2> QED BY <2>1, RenamedKeys
<1> QED BY <1>1, <1>2, <1>3 DEF Stands

(* A part that reads one field and no other.                                *)
LEMMA OneFieldAsks ==
  ASSUME NEW c, NEW r, NEW alone, NEW field,
         Has(c, field) => alone[field] = r,
         ~ Has(c, field) => \A key : ~ Has(r, key),
         \A f, key : Has(c, f) /\ f # field => ~ Has(alone[f], key)
  PROVE  Asks(c, r, alone, {field})
  BY DEF Asks

LEMMA SameKept ==
  ASSUME NEW r, NEW q, NEW fields, q = r \/ \A key : ~ Has(q, key),
         \A key : Has(r, key) => r[key][1] \in fields
  PROVE  Kept(r, q, fields)
  BY DEF Stands, Kept

LEMMA OneKey ==
  ASSUME NEW condition, NEW k, NEW field, NEW value
  PROVE  \A key : Has(If(condition, One(k, field, value)), key) =>
            /\ condition /\ key = k
            /\ If(condition, One(k, field, value))[key] = <<field, value>>
  BY NoKeys DEF If, One, Has

LEMMA SubAsks ==
  ASSUME NEW c, NEW field, NEW names, NEW alone,
         \A f : Has(c, f) => alone[f] = Sub(Only(c, f), field, names)
  PROVE  Asks(c, Sub(c, field, names), alone, {field})
<1>1. Has(c, field) => alone[field] = Sub(c, field, names)
  BY HasOnly DEF Sub
<1>2. ~ Has(c, field) => \A key : ~ Has(Sub(c, field, names), key)
  BY NoKeys DEF Sub
<1>3. \A f, key : Has(c, f) /\ f # field => ~ Has(alone[f], key)
  BY HasOnly, NoKeys DEF Sub
<1> QED BY <1>1, <1>2, <1>3, OneFieldAsks

LEMMA SubKept ==
  ASSUME NEW c, NEW last, Above(c, last), NEW field, field # "options", NEW names
  PROVE  Kept(Sub(c, field, names), Sub(last, field, names), DOMAIN names)
<1>1. \/ Sub(last, field, names) = Sub(c, field, names)
      \/ \A key : ~ Has(Sub(last, field, names), key)
  BY NoKeys DEF Sub, Above
<1>2. ASSUME NEW key, Has(Sub(c, field, names), key)
      PROVE  Sub(c, field, names)[key][1] \in DOMAIN names
  <2>1. Sub(c, field, names) = Renamed(c[field], names)
    BY <1>2, NoKeys DEF Sub
  <2>2. PICK f : Has(names, f) /\ Renamed(c[field], names)[key] = <<f, c[field][f]>>
    BY <1>2, <2>1, RenamedKeys
  <2> QED BY <2>1, <2>2 DEF Has
<1> QED BY <1>1, <1>2, SameKept

LEMMA RenamedKept ==
  ASSUME NEW c, NEW last, Above(c, last), NEW names, ~ Has(names, "options")
  PROVE  Kept(Renamed(c, names), Renamed(last, names), DOMAIN names)
<1>1. \A f : Has(last, f) /\ Has(names, f) => Has(c, f) /\ c[f] = last[f]
  BY DEF Above
<1> QED BY <1>1, RenamedStands DEF Kept

LEMMA FormatAsks ==
  ASSUME NEW c, NEW k, NEW alone, \A f : Has(c, f) => alone[f] = Format(Only(c, f), k)
  PROVE  Asks(c, Format(c, k), alone, {"response_format"})
<1>1. Has(c, "response_format") => alone["response_format"] = Format(c, k)
  BY HasOnly DEF Format
<1>2. ~ Has(c, "response_format") => \A key : ~ Has(Format(c, k), key)
  BY OneKey DEF Format
<1>3. \A f, key : Has(c, f) /\ f # "response_format" => ~ Has(alone[f], key)
  BY HasOnly, OneKey DEF Format
<1> QED BY <1>1, <1>2, <1>3, OneFieldAsks

LEMMA FormatKept ==
  ASSUME NEW c, NEW last, Above(c, last), NEW k
  PROVE  Kept(Format(c, k), Format(last, k), {"response_format"})
<1>1. \A key : Has(Format(c, k), key) => Format(c, k)[key][1] = "response_format"
  BY OneKey DEF Format
<1>2. CASE Has(last, "response_format")
  <2>1. Has(c, "response_format") /\ c["response_format"] = last["response_format"]
    BY <1>2 DEF Above
  <2>2. Format(last, k) = Format(c, k)
    BY <1>2, <2>1 DEF Format, If
  <2> QED BY <1>1, <2>2, SameKept
<1>3. CASE ~ Has(last, "response_format")
  <2>1. \A key : ~ Has(Format(last, k), key)
    BY <1>3, OneKey DEF Format
  <2> QED BY <1>1, <2>1, SameKept
<1> QED BY <1>2, <1>3

LEMMA StreamKeys ==
  ASSUME NEW c
  PROVE  \A key : Has(Stream(c), key) => On(c, "streaming") /\ Stream(c)[key][1] = "streaming"
<1>0. PICK v : v = TRUE
  OBVIOUS
<1>1. Stream(c) = If(On(c, "streaming"), One("stream", "streaming", v))
  BY <1>0, Zenon DEF Stream
<1>2. \A key : Has(Stream(c), key) => /\ On(c, "streaming")
                                      /\ Stream(c)[key] = <<"streaming", v>>
  BY <1>1, OneKey
<1> QED BY <1>2

LEMMA StreamAsks ==
  ASSUME NEW c, NEW alone, \A f : Has(c, f) => alone[f] = Stream(Only(c, f))
  PROVE  Asks(c, Stream(c), alone, {"streaming"})
<1>1. Has(c, "streaming") => alone["streaming"] = Stream(c)
  BY HasOnly DEF Stream, On
<1>2. ~ Has(c, "streaming") => \A key : ~ Has(Stream(c), key)
  BY StreamKeys DEF On
<1>3. \A f, key : Has(c, f) /\ f # "streaming" => ~ Has(alone[f], key)
  BY HasOnly, StreamKeys DEF On
<1> QED BY <1>1, <1>2, <1>3, OneFieldAsks

LEMMA StreamKept ==
  ASSUME NEW c, NEW last, Above(c, last)
  PROVE  Kept(Stream(c), Stream(last), {"streaming"})
<1>1. Stream(last) = Stream(c) \/ \A key : ~ Has(Stream(last), key)
  BY StreamKeys DEF Stream, On, Above
<1>2. \A key : Has(Stream(c), key) => Stream(c)[key][1] = "streaming"
  BY StreamKeys
<1> QED BY <1>1, <1>2, SameKept

LEMMA OptionKeys ==
  ASSUME NEW c
  PROVE  \A key : /\ Has(Options(c), key) <=> Has(c, "options") /\ Has(c["options"], key)
                  /\ Has(Options(c), key) => Options(c)[key] = <<"options", c["options"][key]>>
  BY NoKeys DEF Options, Has

LEMMA OptionsAsk ==
  ASSUME NEW c, NEW alone, \A f : Has(c, f) => alone[f] = Options(Only(c, f))
  PROVE  Asks(c, Options(c), alone, {"options"})
<1>1. Has(c, "options") => alone["options"] = Options(c)
  BY HasOnly DEF Options
<1>2. ~ Has(c, "options") => \A key : ~ Has(Options(c), key)
  BY OptionKeys
<1>3. \A f, key : Has(c, f) /\ f # "options" => ~ Has(alone[f], key)
  BY HasOnly, OptionKeys
<1> QED BY <1>1, <1>2, <1>3, OneFieldAsks

LEMMA OptionsKept ==
  ASSUME NEW c, NEW last, Above(c, last)
  PROVE  Kept(Options(c), Options(last), {"options"})
<1>1. ASSUME NEW key, Has(Options(last), key)
      PROVE  Has(Options(c), key) /\ Options(c)[key] = Options(last)[key]
  BY <1>1, OptionKeys DEF Above
<1>2. \A d, key : Has(Options(d), key) => Options(d)[key][1] = "options"
  BY OptionKeys
<1> QED BY <1>1, <1>2 DEF Kept, Stands

LEMMA TranslatedKeys ==
  ASSUME NEW c, NEW field, NEW names, NEW k
  PROVE  \A key : Has(Translated(c, field, names, k), key) =>
            Has(c, "embedding") /\ key = k /\ Translated(c, field, names, k)[key][1] = field
<1> DEFINE asked == Has(c, "embedding") /\ Has(c.embedding, field) /\ c.embedding[field] \in DOMAIN names
           word == names[c.embedding[field]]
<1>1. Translated(c, field, names, k) = If(asked, One(k, field, word))
  BY DEF Translated
<1>2. asked => Has(c, "embedding")
  OBVIOUS
<1> HIDE DEF asked, word
<1>3. \A key : Has(If(asked, One(k, field, word)), key) =>
         asked /\ key = k /\ If(asked, One(k, field, word))[key] = <<field, word>>
  BY OneKey
<1> QED BY <1>1, <1>2, <1>3

LEMMA TranslatedAsks ==
  ASSUME NEW c, NEW field, NEW names, NEW k, NEW alone,
         \A f : Has(c, f) => alone[f] = Translated(Only(c, f), field, names, k)
  PROVE  Asks(c, Translated(c, field, names, k), alone, {"embedding"})
<1>1. Has(c, "embedding") => alone["embedding"] = Translated(c, field, names, k)
  BY HasOnly DEF Translated
<1> QED BY <1>1, HasOnly, TranslatedKeys, OneFieldAsks

LEMMA TranslatedKept ==
  ASSUME NEW c, NEW last, Above(c, last), NEW field, NEW names, NEW k
  PROVE  Kept(Translated(c, field, names, k), Translated(last, field, names, k), {field})
<1>1. Has(last, "embedding") => Translated(last, field, names, k) = Translated(c, field, names, k)
  BY DEF Translated, Above
<1>2. \A key : Has(Translated(c, field, names, k), key) => Translated(c, field, names, k)[key][1] \in {field}
  BY TranslatedKeys
<1> QED BY <1>1, <1>2, TranslatedKeys, SameKept

-----------------------------------------------------------------------------
(* The providers. *)

LEMMA AsksThree ==
  ASSUME NEW c, NEW r1, NEW r2, NEW r3, NEW base, NEW m1, NEW m2, NEW m3, NEW m0,
         NEW F1, NEW F2, NEW F3, NEW F0, NEW alone,
         Asks(c, r1, m1, F1), Asks(c, r2, m2, F2), Asks(c, r3, m3, F3), Asks(c, base, m0, F0),
         Apart(c, m1, m0), Apart(c, m2, m0), Apart(c, m2, m1),
         Apart(c, m3, m0), Apart(c, m3, m1), Apart(c, m3, m2),
         \A f : Has(c, f) => alone[f] = Over(m3[f], Over(m2[f], Over(m1[f], m0[f])))
  PROVE  Asks(c, Over(r3, Over(r2, Over(r1, base))), alone, F3 \cup (F2 \cup (F1 \cup F0)))
<1> DEFINE one == [f \in DOMAIN c |-> Over(m1[f], m0[f])]
           two == [f \in DOMAIN c |-> Over(m2[f], one[f])]
<1>1. /\ \A f : Has(c, f) => one[f] = Over(m1[f], m0[f])
      /\ \A f : Has(c, f) => two[f] = Over(m2[f], one[f])
      /\ \A f : Has(c, f) => alone[f] = Over(m3[f], two[f])
  BY DEF Has
<1> HIDE DEF one, two
<1>2. Asks(c, Over(r1, base), one, F1 \cup F0)
  BY <1>1, AsksOver
<1>3. Apart(c, m2, one)
  BY <1>1, OverKeys DEF Apart
<1>4. Asks(c, Over(r2, Over(r1, base)), two, F2 \cup (F1 \cup F0))
  BY <1>1, <1>2, <1>3, AsksOver
<1>5. Apart(c, m3, two)
  BY <1>1, OverKeys DEF Apart
<1> QED BY <1>1, <1>4, <1>5, AsksOver

LEMMA FieldsApart ==
  ASSUME NEW c, NEW r, NEW q, NEW one, NEW other, NEW F, NEW G,
         Asks(c, r, one, F), Asks(c, q, other, G), F \cap G = {}
  PROVE  Apart(c, one, other)
  BY DEF Asks, Apart

(* Every provider but the plain parameter map is sent, over all else, that  *)
(* it is to stream, and the options.                                        *)
LEMMA SendsAll ==
  ASSUME NEW c, NEW r, NEW one, NEW F, NEW alone, Asks(c, r, one, F),
         "streaming" \notin F, "options" \notin F,
         \A f : Has(c, f) =>
            alone[f] = Over(Options(Only(c, f)), Over(Stream(Only(c, f)), one[f]))
  PROVE  \E read : Sends(c, Over(Options(c), Over(Stream(c), r)), alone, read)
<1> DEFINE stream == [f \in DOMAIN c |-> Stream(Only(c, f))]
           options == [f \in DOMAIN c |-> Options(Only(c, f))]
           two == [f \in DOMAIN c |-> Over(stream[f], one[f])]
           read == {"options"} \cup ({"streaming"} \cup F)
<1>1. /\ \A f : Has(c, f) => stream[f] = Stream(Only(c, f))
      /\ \A f : Has(c, f) => options[f] = Options(Only(c, f))
      /\ \A f : Has(c, f) => two[f] = Over(stream[f], one[f])
      /\ \A f : Has(c, f) => alone[f] = Over(options[f], two[f])
  BY DEF Has
<1> HIDE DEF stream, options, two
<1>2. Asks(c, Stream(c), stream, {"streaming"})
  BY <1>1, StreamAsks
<1>3. Asks(c, Options(c), options, {"options"})
  BY <1>1, OptionsAsk
<1>4. Apart(c, stream, one)
  BY <1>2, FieldsApart
<1>5. Asks(c, Over(Stream(c), r), two, {"streaming"} \cup F)
  BY <1>1, <1>2, <1>4, AsksOver
<1>6. Apart(c, options, two)
  BY <1>3, <1>5, FieldsApart
<1>7. Asks(c, Over(Options(c), Over(Stream(c), r)), alone, read)
  BY <1>1, <1>3, <1>5, <1>6, AsksOver
<1>8. ASSUME Has(c, "options"), NEW key
      PROVE  /\ Has(alone["options"], key) <=> Has(c["options"], key)
             /\ Has(c["options"], key) =>
                   alone["options"][key] = <<"options", c["options"][key]>>
  <2>1. ~ Has(two["options"], key)
    BY <1>5, <1>8 DEF Asks
  <2>2. alone["options"] = Over(Options(Only(c, "options")), two["options"])
    BY <1>1, <1>8
  <2>3. /\ Has(Options(Only(c, "options")), key) <=> Has(c["options"], key)
        /\ Has(c["options"], key) =>
              Options(Only(c, "options"))[key] = <<"options", c["options"][key]>>
    BY OptionKeys, HasOnly
  <2> QED BY <2>1, <2>2, <2>3, OverKeys
<1> HIDE DEF read
<1>9. Sends(c, Over(Options(c), Over(Stream(c), r)), alone, read)
  BY <1>7, <1>8 DEF Sends
<1> QED BY <1>9

LEMMA KeptAll ==
  ASSUME NEW c, NEW last, Above(c, last), NEW r, NEW q, NEW F, Kept(r, q, F),
         "streaming" \notin F, "options" \notin F
  PROVE  \E fields : Kept(Over(Options(c), Over(Stream(c), r)),
                          Over(Options(last), Over(Stream(last), q)), fields)
<1>0. Kept(Stream(c), Stream(last), {"streaming"}) /\ {"streaming"} \cap F = {}
  BY StreamKept
<1>1. Kept(Over(Stream(c), r), Over(Stream(last), q), {"streaming"} \cup F)
  BY <1>0, KeptOver DEF Kept
<1>2. Kept(Options(c), Options(last), {"options"}) /\ {"options"} \cap ({"streaming"} \cup F) = {}
  BY OptionsKept
<1> QED BY <1>1, <1>2, KeptOver DEF Kept

LEMMA NothingKept == Kept(<<>>, <<>>, {})
  BY NoKeys DEF Kept, Stands

LEMMA SameNames == ASSUME NEW S PROVE DOMAIN Same(S) = S
  BY DEF Same

(* Four of them are sent names, two parts that read fields of their own, and *)
(* then what every provider is sent.                                        *)
LEMMA SendsThree ==
  ASSUME NEW c, NEW names, NEW r2, NEW r3, NEW m2, NEW m3, NEW F2, NEW F3, NEW alone,
         Asks(c, r2, m2, F2), Asks(c, r3, m3, F3), Apart(c, m3, m2),
         \A f \in F2 \cup F3 \cup {"streaming", "options"} : ~ Has(names, f),
         \A f \in F2 \cup F3 : f # "streaming" /\ f # "options",
         \A f : Has(c, f) => alone[f] = Over(Options(Only(c, f)), Over(Stream(Only(c, f)),
                  Over(m3[f], Over(m2[f], Over(Renamed(Only(c, f), names), <<>>)))))
  PROVE  \E read : Sends(c, Over(Options(c), Over(Stream(c),
                              Over(r3, Over(r2, Over(Renamed(c, names), <<>>))))), alone, read)
<1> DEFINE m0 == [f \in DOMAIN c |-> <<>>]
           m1 == [f \in DOMAIN c |-> Renamed(Only(c, f), names)]
           m == [f \in DOMAIN c |-> Over(m3[f], Over(m2[f], Over(m1[f], m0[f])))]
           F1 == DOMAIN names
           F == F3 \cup (F2 \cup (F1 \cup {}))
<1>1. \A f : Has(c, f) => /\ m0[f] = <<>>
                          /\ m1[f] = Renamed(Only(c, f), names)
                          /\ m[f] = Over(m3[f], Over(m2[f], Over(m1[f], m0[f])))
  BY DEF Has
<1> HIDE DEF m0, m1, m
<1>2. Asks(c, <<>>, m0, {})
  BY <1>1, NoKeys, AsksNothing
<1>3. Asks(c, Renamed(c, names), m1, F1)
  BY <1>1, RenamedAsks
<1>4. F2 \cap F1 = {} /\ F3 \cap F1 = {} /\ "streaming" \notin F /\ "options" \notin F
  BY DEF Has
<1> HIDE DEF F1
<1>5. Asks(c, Over(r3, Over(r2, Over(Renamed(c, names), <<>>))), m, F)
  <2>1. Apart(c, m1, m0) /\ Apart(c, m2, m0) /\ Apart(c, m3, m0)
    BY <1>1, NoKeys DEF Apart
  <2>2. Apart(c, m2, m1) /\ Apart(c, m3, m1)
    BY <1>3, <1>4, FieldsApart
  <2> QED BY <1>1, <1>2, <1>3, <2>1, <2>2, AsksThree
<1> HIDE DEF F
<1>6. \A f : Has(c, f) =>
         alone[f] = Over(Options(Only(c, f)), Over(Stream(Only(c, f)), m[f]))
  BY <1>1
<1> QED BY <1>4, <1>5, <1>6, SendsAll

LEMMA KeptThree ==
  ASSUME NEW c, NEW last, Above(c, last), NEW names,
         NEW r2, NEW r3, NEW q2, NEW q3, NEW F2, NEW F3,
         Kept(r2, q2, F2), Kept(r3, q3, F3), F2 \cap F3 = {},
         \A f \in F2 \cup F3 \cup {"streaming", "options"} : ~ Has(names, f),
         \A f \in F2 \cup F3 : f # "streaming" /\ f # "options"
  PROVE  \E fields : Kept(Over(Options(c), Over(Stream(c),
                            Over(r3, Over(r2, Over(Renamed(c, names), <<>>))))),
                          Over(Options(last), Over(Stream(last),
                            Over(q3, Over(q2, Over(Renamed(last, names), <<>>))))), fields)
<1> DEFINE F1 == DOMAIN names
           F == F3 \cup (F2 \cup (F1 \cup {}))
<1>1. Kept(Renamed(c, names), Renamed(last, names), F1)
  BY RenamedKept
<1>2. F2 \cap F1 = {} /\ F3 \cap F1 = {} /\ "streaming" \notin F /\ "options" \notin F
  BY DEF Has
<1> HIDE DEF F1
<1>3. Kept(Over(Renamed(c, names), <<>>), Over(Renamed(last, names), <<>>), F1 \cup {})
  <2>1. F1 \cap {} = {}
    OBVIOUS
  <2> QED BY <1>1, <2>1, NothingKept, KeptOver DEF Kept
<1>4. Kept(Over(r2, Over(Renamed(c, names), <<>>)), Over(q2, Over(Renamed(last, names), <<>>)),
           F2 \cup (F1 \cup {}))
  <2>1. F2 \cap (F1 \cup {}) = {}
    BY <1>2
  <2> QED BY <1>3, <2>1, KeptOver DEF Kept
<1>5. Kept(Over(r3, Over(r2, Over(Renamed(c, names), <<>>))),
           Over(q3, Over(q2, Over(Renamed(last, names), <<>>))), F)
  <2> DEFINE older == Over(r2, Over(Renamed(c, names), <<>>))
             oldest == Over(q2, Over(Renamed(last, names), <<>>))
             G == F2 \cup (F1 \cup {})
  <2>1. F3 \cap G = {} /\ F = F3 \cup G
    BY <1>2
  <2>2. Kept(older, oldest, G)
    BY <1>4
  <2>3. Stands(r3, q3, F3) /\ \A key : Has(q3, key) => Has(r3, key)
    BY DEF Kept
  <2> HIDE DEF older, oldest, G, F
  <2>4. Kept(Over(r3, older), Over(q3, oldest), F3 \cup G)
    BY <2>1, <2>2, <2>3, KeptOver
  <2> QED BY <2>1, <2>4 DEF older, oldest
<1> HIDE DEF F
<1> QED BY <1>2, <1>5, KeptAll

-----------------------------------------------------------------------------
(* ToAnthropic *)

AnthropicNames == Same(Common \cup {"top_k", "stop_sequences", "seed", "reasoning_effort", "user"})
Thinking(c) == If(On(c, "thinking"), One("thinking", "thinking", c.thinking))

LEMMA AnthropicParts ==
  ASSUME NEW c
  PROVE  ToAnthropic(c) = Over(Options(c), Over(Stream(c),
           Over(AnthropicFormat(c), Over(Thinking(c), Over(Renamed(c, AnthropicNames), <<>>)))))
<1>1. ToAnthropic(c) = Written(<<Renamed(c, AnthropicNames), Thinking(c), AnthropicFormat(c),
                                 Stream(c), Options(c)>>)
  BY DEF ToAnthropic, AnthropicNames, Thinking
<1> QED BY <1>1, WrittenFive

LEMMA AnthropicFields ==
  \A f \in {"thinking", "response_format", "schema", "none", "streaming", "options"} :
     ~ Has(AnthropicNames, f)
  BY SameNames DEF AnthropicNames, Common, Has

LEMMA ThinkingKeys ==
  ASSUME NEW c
  PROVE  \A key : Has(Thinking(c), key) => /\ Has(c, "thinking")
                                          /\ Thinking(c)[key] = <<"thinking", c["thinking"]>>
<1>1. \A key : Has(Thinking(c), key) => /\ On(c, "thinking")
                                        /\ Thinking(c)[key] = <<"thinking", c["thinking"]>>
  BY OneKey DEF Thinking
<1> QED BY <1>1 DEF On

LEMMA AnthropicFormatKeys ==
  ASSUME NEW c
  PROVE  \A key : Has(AnthropicFormat(c), key) =>
            Has(c, "response_format") /\ AnthropicFormat(c)[key][1] \in {"schema", "none"}
  BY NoKeys DEF AnthropicFormat, If, One, Has

LEMMA AnthropicSends ==
  ASSUME NEW c, NEW alone, \A f : Has(c, f) => alone[f] = ToAnthropic(Only(c, f))
  PROVE  \E read : Sends(c, ToAnthropic(c), alone, read)
<1> DEFINE thinking == [f \in DOMAIN c |-> Thinking(Only(c, f))]
           format == [f \in DOMAIN c |-> AnthropicFormat(Only(c, f))]
<1>1. \A f : Has(c, f) => thinking[f] = Thinking(Only(c, f)) /\ format[f] = AnthropicFormat(Only(c, f))
  BY DEF Has
<1> HIDE DEF thinking, format
<1>2. Asks(c, Thinking(c), thinking, {"thinking"})
  <2>1. Has(c, "thinking") => thinking["thinking"] = Thinking(c)
    BY <1>1, HasOnly DEF Thinking, On
  <2> QED BY <1>1, <2>1, HasOnly, ThinkingKeys, OneFieldAsks
<1>3. Asks(c, AnthropicFormat(c), format, {"response_format"})
  <2>1. Has(c, "response_format") => format["response_format"] = AnthropicFormat(c)
    BY <1>1, HasOnly DEF AnthropicFormat
  <2> QED BY <1>1, <2>1, HasOnly, AnthropicFormatKeys, OneFieldAsks
<1>4. Apart(c, format, thinking)
  BY <1>2, <1>3, FieldsApart
<1>5. \A f : Has(c, f) => alone[f] = Over(Options(Only(c, f)), Over(Stream(Only(c, f)),
        Over(format[f], Over(thinking[f], Over(Renamed(Only(c, f), AnthropicNames), <<>>)))))
  BY <1>1, AnthropicParts
<1>6. \A f \in {"thinking"} \cup {"response_format"} \cup {"streaming", "options"} :
         ~ Has(AnthropicNames, f)
  BY AnthropicFields
<1> QED BY <1>2, <1>3, <1>4, <1>5, <1>6, SendsThree, AnthropicParts

LEMMA AnthropicKept ==
  ASSUME NEW c, NEW last, Above(c, last)
  PROVE  \E fields : Kept(ToAnthropic(c), ToAnthropic(last), fields)
<1>1. Kept(Thinking(c), Thinking(last), {"thinking"})
  <2>1. Has(last, "thinking") => Thinking(last) = Thinking(c)
    BY DEF Thinking, On, Above
  <2>2. \A key : Has(Thinking(c), key) => Thinking(c)[key][1] \in {"thinking"}
    BY ThinkingKeys
  <2> QED BY <2>1, <2>2, ThinkingKeys, SameKept
<1>2. Kept(AnthropicFormat(c), AnthropicFormat(last), {"schema", "none"})
  <2>1. Has(last, "response_format") => AnthropicFormat(last) = AnthropicFormat(c)
    BY DEF AnthropicFormat, Above
  <2> QED BY <2>1, AnthropicFormatKeys, SameKept
<1>3. \A f \in {"thinking"} \cup {"schema", "none"} \cup {"streaming", "options"} :
         ~ Has(AnthropicNames, f)
  BY AnthropicFields
<1>4. {"thinking"} \cap {"schema", "none"} = {}
  OBVIOUS
<1> QED BY <1>1, <1>2, <1>3, <1>4, KeptThree, AnthropicParts

-----------------------------------------------------------------------------
(* ToVLLM *)

VLLMNames ==
  Over([stop_sequences |-> "stop"],
       Same(Common \cup {"top_k", "min_p", "repetition_penalty", "seed", "logprobs",
                         "stop_token_ids", "logit_bias", "frequency_penalty",
                         "presence_penalty", "n"}))
VLLMEmbedding == Same({"normalize", "pooling_type"})

LEMMA VLLMParts ==
  ASSUME NEW c
  PROVE  ToVLLM(c) = Over(Options(c), Over(Stream(c),
           Over(Sub(c, "embedding", VLLMEmbedding),
                Over(Sub(c, "guided_decoding", GuidedNames), Over(Renamed(c, VLLMNames), <<>>)))))
<1>1. ToVLLM(c) = Written(<<Renamed(c, VLLMNames), Sub(c, "guided_decoding", GuidedNames),
                            Sub(c, "embedding", VLLMEmbedding), Stream(c), Options(c)>>)
  BY DEF ToVLLM, VLLMNames, VLLMEmbedding
<1> QED BY <1>1, WrittenFive

LEMMA VLLMFields ==
  /\ \A f \in {"guided_decoding", "embedding", "streaming", "options"} : ~ Has(VLLMNames, f)
  /\ \A f \in DOMAIN GuidedNames \cup DOMAIN VLLMEmbedding : ~ Has(VLLMNames, f)
  /\ \A f \in DOMAIN GuidedNames \cup DOMAIN VLLMEmbedding : f # "streaming" /\ f # "options"
  /\ DOMAIN GuidedNames \cap DOMAIN VLLMEmbedding = {}
<1>1. \A f : Has(VLLMNames, f) =>
         f \in {"stop_sequences", "model", "temperature", "max_tokens", "top_p", "top_k", "min_p",
                "repetition_penalty", "seed", "logprobs", "stop_token_ids", "logit_bias",
                "frequency_penalty", "presence_penalty", "n"}
  BY OverKeys, SameNames DEF VLLMNames, Common, Has
<1>2. DOMAIN GuidedNames = {"backend", "json", "regex", "choice", "grammar", "whitespace_pattern"}
  BY DEF GuidedNames
<1>3. DOMAIN VLLMEmbedding = {"normalize", "pooling_type"}
  BY SameNames DEF VLLMEmbedding
<1> QED BY <1>1, <1>2, <1>3

LEMMA VLLMSends ==
  ASSUME NEW c, NEW alone, \A f : Has(c, f) => alone[f] = ToVLLM(Only(c, f))
  PROVE  \E read : Sends(c, ToVLLM(c), alone, read)
<1> DEFINE guided == [f \in DOMAIN c |-> Sub(Only(c, f), "guided_decoding", GuidedNames)]
           embedding == [f \in DOMAIN c |-> Sub(Only(c, f), "embedding", VLLMEmbedding)]
<1>1. \A f : Has(c, f) => /\ guided[f] = Sub(Only(c, f), "guided_decoding", GuidedNames)
                          /\ embedding[f] = Sub(Only(c, f), "embedding", VLLMEmbedding)
  BY DEF Has
<1> HIDE DEF guided, embedding
<1>2. /\ Asks(c, Sub(c, "guided_decoding", GuidedNames), guided, {"guided_decoding"})
      /\ Asks(c, Sub(c, "embedding", VLLMEmbedding), embedding, {"embedding"})
  BY <1>1, SubAsks
<1>3. Apart(c, embedding, guided)
  BY <1>2, FieldsApart
<1>4. \A f : Has(c, f) => alone[f] = Over(Options(Only(c, f)), Over(Stream(Only(c, f)),
        Over(embedding[f], Over(guided[f], Over(Renamed(Only(c, f), VLLMNames), <<>>)))))
  BY <1>1, VLLMParts
<1>5. \A f \in {"guided_decoding"} \cup {"embedding"} \cup {"streaming", "options"} : ~ Has(VLLMNames, f)
  BY VLLMFields
<1> QED BY <1>2, <1>3, <1>4, <1>5, SendsThree, VLLMParts

LEMMA VLLMKept ==
  ASSUME NEW c, NEW last, Above(c, last)
  PROVE  \E fields : Kept(ToVLLM(c), ToVLLM(last), fields)
<1> DEFINE F2 == DOMAIN GuidedNames
           F3 == DOMAIN VLLMEmbedding
<1>1. /\ Kept(Sub(c, "guided_decoding", GuidedNames), Sub(last, "guided_decoding", GuidedNames), F2)
      /\ Kept(Sub(c, "embedding", VLLMEmbedding), Sub(last, "embedding", VLLMEmbedding), F3)
  BY SubKept
<1>2. /\ \A f \in F2 \cup F3 \cup {"streaming", "options"} : ~ Has(VLLMNames, f)
      /\ \A f \in F2 \cup F3 : f # "streaming" /\ f # "options"
      /\ F2 \cap F3 = {}
  BY VLLMFields
<1> HIDE DEF F2, F3
<1> QED BY <1>1, <1>2, KeptThree, VLLMParts

-----------------------------------------------------------------------------
(* ToMistral *)

MistralNames ==
  Over([stop_sequences |-> "stop"], Same(Common \cup {"seed", "frequency_penalty", "presence_penalty"}))
MistralEmbedding ==
  [dimensions |-> "output_dimension", format |-> "encoding_format", output_dtype |-> "output_dtype"]

LEMMA MistralParts ==
  ASSUME NEW c
  PROVE  ToMistral(c) = Over(Options(c), Over(Stream(c),
           Over(Sub(c, "embedding", MistralEmbedding),
                Over(Format(c, "response_format"), Over(Renamed(c, MistralNames), <<>>)))))
<1>1. ToMistral(c) = Written(<<Renamed(c, MistralNames), Format(c, "response_format"),
                               Sub(c, "embedding", MistralEmbedding), Stream(c), Options(c)>>)
  BY DEF ToMistral, MistralNames, MistralEmbedding
<1> QED BY <1>1, WrittenFive

LEMMA MistralFields ==
  /\ \A f \in {"response_format", "embedding", "dimensions", "format", "output_dtype",
               "streaming", "options"} : ~ Has(MistralNames, f)
  /\ DOMAIN MistralEmbedding = {"dimensions", "format", "output_dtype"}
<1>1. \A f : Has(MistralNames, f) =>
         f \in {"stop_sequences", "model", "temperature", "max_tokens", "top_p", "seed",
                "frequency_penalty", "presence_penalty"}
  BY OverKeys, SameNames DEF MistralNames, Common, Has
<1>2. DOMAIN MistralEmbedding = {"dimensions", "format", "output_dtype"}
  BY DEF MistralEmbedding
<1> QED BY <1>1, <1>2

LEMMA MistralSends ==
  ASSUME NEW c, NEW alone, \A f : Has(c, f) => alone[f] = ToMistral(Only(c, f))
  PROVE  \E read : Sends(c, ToMistral(c), alone, read)
<1> DEFINE format == [f \in DOMAIN c |-> Format(Only(c, f), "response_format")]
           embedding == [f \in DOMAIN c |-> Sub(Only(c, f), "embedding", MistralEmbedding)]
<1>1. \A f : Has(c, f) => /\ format[f] = Format(Only(c, f), "response_format")
                          /\ embedding[f] = Sub(Only(c, f), "embedding", MistralEmbedding)
  BY DEF Has
<1> HIDE DEF format, embedding
<1>2. /\ Asks(c, Format(c, "response_format"), format, {"response_format"})
      /\ Asks(c, Sub(c, "embedding", MistralEmbedding), embedding, {"embedding"})
  BY <1>1, SubAsks, FormatAsks
<1>3. Apart(c, embedding, format)
  BY <1>2, FieldsApart
<1>4. \A f : Has(c, f) => alone[f] = Over(Options(Only(c, f)), Over(Stream(Only(c, f)),
        Over(embedding[f], Over(format[f], Over(Renamed(Only(c, f), MistralNames), <<>>)))))
  BY <1>1, MistralParts
<1>5. \A f \in {"response_format"} \cup {"embedding"} \cup {"streaming", "options"} : ~ Has(MistralNames, f)
  BY MistralFields
<1> QED BY <1>2, <1>3, <1>4, <1>5, SendsThree, MistralParts

LEMMA MistralKept ==
  ASSUME NEW c, NEW last, Above(c, last)
  PROVE  \E fields : Kept(ToMistral(c), ToMistral(last), fields)
<1> DEFINE F3 == {"dimensions", "format", "output_dtype"}
<1>1. Kept(Format(c, "response_format"), Format(last, "response_format"), {"response_format"})
  BY FormatKept
<1>2. Kept(Sub(c, "embedding", MistralEmbedding), Sub(last, "embedding", MistralEmbedding), F3)
  BY SubKept, MistralFields
<1>3. /\ \A f \in {"response_format"} \cup F3 \cup {"streaming", "options"} : ~ Has(MistralNames, f)
      /\ \A f \in {"response_format"} \cup F3 : f # "streaming" /\ f # "options"
      /\ {"response_format"} \cap F3 = {}
  BY MistralFields
<1> HIDE DEF F3
<1> QED BY <1>1, <1>2, <1>3, KeptThree, MistralParts

-----------------------------------------------------------------------------
(* ToCohere *)

CohereNames ==
  [model |-> "model", temperature |-> "temperature", max_tokens |-> "max_tokens",
   top_p |-> "p", top_k |-> "k", stop_sequences |-> "stop_sequences", seed |-> "seed"]
CohereEmbedding ==
  [dimensions |-> "output_dimension", input_type |-> "input_type", output_dtype |-> "embedding_types"]

LEMMA CohereParts ==
  ASSUME NEW c
  PROVE  ToCohere(c) = Over(Options(c), Over(Stream(c),
           Over(Translated(c, "truncation", UpperCase, "truncate"),
                Over(Sub(c, "embedding", CohereEmbedding), Over(Renamed(c, CohereNames), <<>>)))))
<1>1. ToCohere(c) = Written(<<Renamed(c, CohereNames), Sub(c, "embedding", CohereEmbedding),
                              Translated(c, "truncation", UpperCase, "truncate"),
                              Stream(c), Options(c)>>)
  BY DEF ToCohere, CohereNames, CohereEmbedding
<1> QED BY <1>1, WrittenFive

LEMMA CohereFields ==
  /\ \A f \in {"embedding", "dimensions", "input_type", "output_dtype", "truncation",
               "streaming", "options"} : ~ Has(CohereNames, f)
  /\ DOMAIN CohereEmbedding = {"dimensions", "input_type", "output_dtype"}
  /\ \A f : Has(CohereEmbedding, f) => CohereEmbedding[f] # "truncate"
  BY DEF CohereNames, CohereEmbedding, Has

LEMMA CohereSends ==
  ASSUME NEW c, NEW alone, \A f : Has(c, f) => alone[f] = ToCohere(Only(c, f))
  PROVE  \E read : Sends(c, ToCohere(c), alone, read)
<1> DEFINE embedding == [f \in DOMAIN c |-> Sub(Only(c, f), "embedding", CohereEmbedding)]
           truncate == [f \in DOMAIN c |-> Translated(Only(c, f), "truncation", UpperCase, "truncate")]
<1>1. \A f : Has(c, f) =>
         /\ embedding[f] = Sub(Only(c, f), "embedding", CohereEmbedding)
         /\ truncate[f] = Translated(Only(c, f), "truncation", UpperCase, "truncate")
  BY DEF Has
<1> HIDE DEF embedding, truncate
<1>2. /\ Asks(c, Sub(c, "embedding", CohereEmbedding), embedding, {"embedding"})
      /\ Asks(c, Translated(c, "truncation", UpperCase, "truncate"), truncate, {"embedding"})
  BY <1>1, SubAsks, TranslatedAsks
<1>3. Apart(c, truncate, embedding)
  <2>1. \A d : ~ Has(Sub(d, "embedding", CohereEmbedding), "truncate")
    BY RenamedKeys, NoKeys, CohereFields DEF Sub
  <2> QED BY <1>1, <2>1, TranslatedKeys DEF Apart
<1>4. \A f : Has(c, f) => alone[f] = Over(Options(Only(c, f)), Over(Stream(Only(c, f)),
        Over(truncate[f], Over(embedding[f], Over(Renamed(Only(c, f), CohereNames), <<>>)))))
  BY <1>1, CohereParts
<1>5. \A f \in {"embedding"} \cup {"embedding"} \cup {"streaming", "options"} : ~ Has(CohereNames, f)
  BY CohereFields
<1> QED BY <1>2, <1>3, <1>4, <1>5, SendsThree, CohereParts

LEMMA CohereKept ==
  ASSUME NEW c, NEW last, Above(c, last)
  PROVE  \E fields : Kept(ToCohere(c), ToCohere(last), fields)
<1> DEFINE F2 == {"dimensions", "input_type", "output_dtype"}
<1>1. Kept(Sub(c, "embedding", CohereEmbedding), Sub(last, "embedding", CohereEmbedding), F2)
  BY SubKept, CohereFields
<1>2. Kept(Translated(c, "truncation", UpperCase, "truncate"),
           Translated(last, "truncation", UpperCase, "truncate"), {"truncation"})
  BY TranslatedKept
<1>3. /\ \A f \in F2 \cup {"truncation"} \cup {"streaming", "options"} : ~ Has(CohereNames, f)
      /\ \A f \in F2 \cup {"truncation"} : f # "streaming" /\ f # "options"
      /\ F2 \cap {"truncation"} = {}
  BY CohereFields
<1> HIDE DEF F2
<1> QED BY <1>1, <1>2, <1>3, KeptThree, CohereParts

-----------------------------------------------------------------------------
(* ToMap *)

MapNames ==
  Over([stop_sequences |-> "stop"],
       Same({"temperature", "max_tokens", "top_p", "min_p", "repetition_penalty", "seed", "logprobs",
             "stop_token_ids", "logit_bias", "frequency_penalty", "presence_penalty", "n",
             "max_completion_tokens", "reasoning_effort", "top_a", "user", "service_tier", "store",
             "modality", "image", "audio", "embedding", "streaming", "async"}))

LEMMA MapFields == ~ Has(MapNames, "options")
<1>1. \A f : Has(MapNames, f) => f = "stop_sequences" \/ f \in
         {"temperature", "max_tokens", "top_p", "min_p", "repetition_penalty", "seed", "logprobs",
          "stop_token_ids", "logit_bias", "frequency_penalty", "presence_penalty", "n",
          "max_completion_tokens", "reasoning_effort", "top_a", "user", "service_tier", "store",
          "modality", "image", "audio", "embedding", "streaming", "async"}
  BY OverKeys, SameNames DEF MapNames, Has
<1> QED BY <1>1

LEMMA MapSends ==
  ASSUME NEW c, NEW alone, \A f : Has(c, f) => alone[f] = ToMap(Only(c, f))
  PROVE  \E read : Sends(c, ToMap(c), alone, read)
<1>1. \A d : ToMap(d) = Renamed(d, MapNames)
  BY DEF ToMap, MapNames
<1>2. Asks(c, Renamed(c, MapNames), alone, DOMAIN MapNames)
  BY <1>1, RenamedAsks
<1>3. "options" \notin DOMAIN MapNames
  BY MapFields DEF Has
<1> QED BY <1>1, <1>2, <1>3 DEF Sends

LEMMA MapKept ==
  ASSUME NEW c, NEW last, Above(c, last)
  PROVE  \E fields : Kept(ToMap(c), ToMap(last), fields)
<1>1. \A d : ToMap(d) = Renamed(d, MapNames)
  BY DEF ToMap, MapNames
<1> QED BY <1>1, MapFields, RenamedKept

-----------------------------------------------------------------------------
(* ToOpenAI *)

AskLogprobs(c) == If(Has(c, "logprobs"), One("logprobs", "asked", TRUE))
ImageNames == [quality |-> "quality", style |-> "style", num_images |-> "n"]
ImageTags == {"size", "sides", "quality", "style", "num_images"}
AudioNames(c) ==
  Over(If(~Has(c, "response_format"), [output_format |-> "response_format"]), Same({"voice", "speed"}))
AudioTags == {"voice", "speed", "output_format"}
OpenAIEmbedding == [dimensions |-> "dimensions", format |-> "encoding_format"]

LEMMA OpenAIParts ==
  ASSUME NEW c
  PROVE  ToOpenAI(c) = Over(Options(c), Over(Stream(c),
           Over(Sub(c, "embedding", OpenAIEmbedding), Over(OpenAIAudio(c), Over(OpenAIImage(c),
             Over(Format(c, "response_format"), Over(AskLogprobs(c),
               Over(Renamed(c, OpenAIFields), <<>>))))))))
<1>1. ToOpenAI(c) = Written(<<Renamed(c, OpenAIFields), AskLogprobs(c), Format(c, "response_format"),
                              OpenAIImage(c), OpenAIAudio(c), Sub(c, "embedding", OpenAIEmbedding),
                              Stream(c), Options(c)>>)
  BY Zenon DEF ToOpenAI, AskLogprobs, OpenAIEmbedding
<1> QED BY <1>1, WrittenEight

LEMMA OpenAIFieldNames ==
  /\ \A f : Has(OpenAIFields, f) =>
        f \in {"stop_sequences", "logprobs", "model", "temperature", "max_tokens", "top_p", "seed",
               "logit_bias", "frequency_penalty", "presence_penalty", "n", "max_completion_tokens",
               "reasoning_effort", "user", "service_tier", "store"}
  /\ \A f : Has(OpenAIFields, f) => OpenAIFields[f] # "logprobs"
<1> DEFINE renamed == [stop_sequences |-> "stop", logprobs |-> "top_logprobs"]
           kept == {"model", "temperature", "max_tokens", "top_p", "seed", "logit_bias",
                    "frequency_penalty", "presence_penalty", "n", "max_completion_tokens",
                    "reasoning_effort", "user", "service_tier", "store"}
<1>1. OpenAIFields = Over(renamed, Same(kept))
  <2>1. Common \cup {"seed", "logit_bias", "frequency_penalty", "presence_penalty", "n",
                     "max_completion_tokens", "reasoning_effort", "user", "service_tier", "store"} = kept
    BY DEF Common
  <2> QED BY <2>1 DEF OpenAIFields
<1>2. \A f : Has(renamed, f) <=> f \in {"stop_sequences", "logprobs"}
  BY DEF Has
<1>3. \A f : Has(Same(kept), f) <=> f \in kept
  BY SameNames DEF Has
<1>4. \A f \in kept : Same(kept)[f] = f
  BY DEF Same
<1>5. \A f : Has(OpenAIFields, f) => f \in {"stop_sequences", "logprobs"} \/ f \in kept
  BY <1>1, <1>2, <1>3, OverKeys
<1>6. \A f \in {"stop_sequences", "logprobs"} : OpenAIFields[f] \in {"stop", "top_logprobs"}
  BY <1>1, <1>2, OverKeys
<1>7. \A f \in kept : OpenAIFields[f] = f
  <2>1. \A f \in kept : f \notin {"stop_sequences", "logprobs"}
    OBVIOUS
  <2> HIDE DEF kept, renamed
  <2> QED BY <1>1, <1>2, <1>3, <1>4, <2>1, OverKeys
<1> QED BY <1>5, <1>6, <1>7

LEMMA AskLogprobsKeys ==
  ASSUME NEW c
  PROVE  \A key : Has(AskLogprobs(c), key) =>
            Has(c, "logprobs") /\ key = "logprobs" /\ AskLogprobs(c)[key][1] = "asked"
<1>1. PICK v : v = TRUE
  OBVIOUS
<1>2. AskLogprobs(c) = If(Has(c, "logprobs"), One("logprobs", "asked", v))
  BY <1>1, Zenon DEF AskLogprobs
<1>3. \A key : Has(AskLogprobs(c), key) =>
         Has(c, "logprobs") /\ key = "logprobs" /\ AskLogprobs(c)[key] = <<"asked", v>>
  BY <1>2, OneKey
<1> QED BY <1>3

LEMMA AskLogprobsAsks ==
  ASSUME NEW c, NEW alone, \A f : Has(c, f) => alone[f] = AskLogprobs(Only(c, f))
  PROVE  Asks(c, AskLogprobs(c), alone, {"logprobs"})
<1>1. Has(c, "logprobs") => alone["logprobs"] = AskLogprobs(c)
  BY HasOnly DEF AskLogprobs, If
<1> QED BY <1>1, HasOnly, AskLogprobsKeys, OneFieldAsks

LEMMA AskLogprobsKept ==
  ASSUME NEW c, NEW last, Above(c, last)
  PROVE  Kept(AskLogprobs(c), AskLogprobs(last), {"asked"})
<1>1. Has(last, "logprobs") => AskLogprobs(last) = AskLogprobs(c)
  BY DEF AskLogprobs, If, Above
<1> QED BY <1>1, AskLogprobsKeys, SameKept

LEMMA ImageKeys ==
  ASSUME NEW c
  PROVE  \A key : Has(OpenAIImage(c), key) => Has(c, "image") /\ OpenAIImage(c)[key][1] \in ImageTags
<1> SUFFICES ASSUME NEW key, Has(OpenAIImage(c), key)
             PROVE  Has(c, "image") /\ OpenAIImage(c)[key][1] \in ImageTags
  OBVIOUS
<1> DEFINE size == EffectiveSize(c.image)
           rest == Renamed(c.image, ImageNames)
<1>1. Has(c, "image") /\ OpenAIImage(c) = Over(size, rest)
  BY NoKeys DEF OpenAIImage, If, ImageNames
<1>2. Has(size, key) => size[key][1] \in {"size", "sides"}
  BY OneKey, NoKeys DEF EffectiveSize, If, One, Has
<1>3. Has(rest, key) => rest[key][1] \in {"quality", "style", "num_images"}
  <2>1. DOMAIN ImageNames = {"quality", "style", "num_images"}
    BY DEF ImageNames
  <2>2. Has(rest, key) => \E f : Has(ImageNames, f) /\ rest[key] = <<f, c.image[f]>>
    BY RenamedKeys
  <2> QED BY <2>1, <2>2 DEF Has
<1> HIDE DEF size, rest
<1>4. \/ Has(size, key) /\ OpenAIImage(c)[key] = size[key]
      \/ Has(rest, key) /\ OpenAIImage(c)[key] = rest[key]
  BY <1>1, OverKeys
<1> QED BY <1>1, <1>2, <1>3, <1>4 DEF ImageTags

LEMMA ImageAsks ==
  ASSUME NEW c, NEW alone, \A f : Has(c, f) => alone[f] = OpenAIImage(Only(c, f))
  PROVE  Asks(c, OpenAIImage(c), alone, {"image"})
<1>1. Has(c, "image") => alone["image"] = OpenAIImage(c)
  BY HasOnly DEF OpenAIImage
<1> QED BY <1>1, HasOnly, ImageKeys, OneFieldAsks

LEMMA ImageKept ==
  ASSUME NEW c, NEW last, Above(c, last)
  PROVE  Kept(OpenAIImage(c), OpenAIImage(last), ImageTags)
<1>1. Has(last, "image") => OpenAIImage(last) = OpenAIImage(c)
  BY DEF OpenAIImage, Above
<1> QED BY <1>1, ImageKeys, SameKept

(* The format of the audio is asked for under the key of the format of the  *)
(* answer, where that is not set.                                           *)
LEMMA AudioNamesAre ==
  ASSUME NEW c
  PROVE  /\ \A f : Has(AudioNames(c), f) <=>
               f \in {"voice", "speed"} \/ (f = "output_format" /\ ~ Has(c, "response_format"))
         /\ \A f \in {"voice", "speed"} : AudioNames(c)[f] = f
         /\ ~ Has(c, "response_format") => AudioNames(c)["output_format"] = "response_format"
<1> DEFINE renamed == If(~Has(c, "response_format"), [output_format |-> "response_format"])
           kept == {"voice", "speed"}
<1>1. \A f : Has(renamed, f) <=> f = "output_format" /\ ~ Has(c, "response_format")
  BY NoKeys DEF If, Has
<1>2. ~ Has(c, "response_format") => renamed["output_format"] = "response_format"
  BY DEF If
<1>3. \A f : Has(Same(kept), f) <=> f \in kept
  BY SameNames DEF Has
<1>4. \A f \in kept : Same(kept)[f] = f
  BY DEF Same
<1>5. AudioNames(c) = Over(renamed, Same(kept))
  BY DEF AudioNames
<1>6. \A f \in kept : f # "output_format"
  OBVIOUS
<1> HIDE DEF renamed
<1>7. \A f \in kept : AudioNames(c)[f] = f
  <2> HIDE DEF kept
  <2> QED BY <1>1, <1>3, <1>4, <1>5, <1>6, OverKeys
<1>8. \A f : Has(AudioNames(c), f) <=> f \in kept \/ (f = "output_format" /\ ~ Has(c, "response_format"))
  BY <1>1, <1>3, <1>5, OverKeys
<1>9. ~ Has(c, "response_format") => AudioNames(c)["output_format"] = "response_format"
  BY <1>1, <1>2, <1>5, OverKeys
<1> QED BY <1>7, <1>8, <1>9

LEMMA AudioKeys ==
  ASSUME NEW c
  PROVE  /\ Has(c, "audio") => OpenAIAudio(c) = Renamed(c["audio"], AudioNames(c))
         /\ \A key : Has(OpenAIAudio(c), key) =>
               /\ Has(c, "audio")
               /\ \E f \in AudioTags : /\ Has(c["audio"], f) /\ Has(AudioNames(c), f)
                                       /\ AudioNames(c)[f] = key
                                       /\ OpenAIAudio(c)[key] = <<f, c["audio"][f]>>
<1>1. OpenAIAudio(c) = Sub(c, "audio", AudioNames(c))
  BY DEF OpenAIAudio, AudioNames
<1>2. Has(c, "audio") => OpenAIAudio(c) = Renamed(c["audio"], AudioNames(c))
  BY <1>1 DEF Sub
<1>3. \A key : Has(OpenAIAudio(c), key) => Has(c, "audio")
  BY <1>1, NoKeys DEF Sub
<1>4. \A f : Has(AudioNames(c), f) => f \in AudioTags
  BY AudioNamesAre DEF AudioTags
<1> QED BY <1>2, <1>3, <1>4, RenamedKeys

LEMMA AudioAsks ==
  ASSUME NEW c, NEW alone, \A f : Has(c, f) => alone[f] = OpenAIAudio(Only(c, f))
  PROVE  Asks(c, OpenAIAudio(c), alone, {"audio"})
<1> DEFINE audio == c["audio"]
           own == Only(c, "audio")
<1>1. ASSUME NEW key, Has(OpenAIAudio(c), key)
      PROVE  Has(c, "audio") /\ Has(alone["audio"], key) /\ alone["audio"][key] = OpenAIAudio(c)[key]
  <2>1. Has(c, "audio")
    BY <1>1, AudioKeys
  <2>2. PICK f \in AudioTags : /\ Has(audio, f) /\ Has(AudioNames(c), f) /\ AudioNames(c)[f] = key
                               /\ OpenAIAudio(c)[key] = <<f, audio[f]>>
    BY <1>1, AudioKeys
  <2>3. /\ Has(own, "audio") /\ own["audio"] = audio /\ ~ Has(own, "response_format")
    BY HasOnly
  <2> HIDE DEF own
  <2>4. \A g \in AudioTags : Has(AudioNames(own), g)
    BY <2>3, AudioNamesAre DEF AudioTags
  <2>5. Has(AudioNames(c), f) => AudioNames(own)[f] = AudioNames(c)[f]
    BY <2>3, AudioNamesAre DEF AudioTags
  <2>6. Has(OpenAIAudio(own), key)
    BY <2>2, <2>3, <2>4, <2>5, AudioKeys, RenamedKeys
  <2>7. PICK g \in AudioTags : /\ AudioNames(own)[g] = key
                               /\ OpenAIAudio(own)[key] = <<g, audio[g]>>
    BY <2>3, <2>6, AudioKeys
  <2>8. /\ AudioNames(own)["voice"] = "voice" /\ AudioNames(own)["speed"] = "speed"
        /\ AudioNames(own)["output_format"] = "response_format"
    BY <2>3, AudioNamesAre
  <2>9. f = g
    BY <2>2, <2>5, <2>7, <2>8 DEF AudioTags
  <2>10. alone["audio"] = OpenAIAudio(own)
    BY <2>1 DEF own
  <2> QED BY <2>1, <2>2, <2>6, <2>7, <2>9, <2>10
<1>2. \A f, key : Has(c, f) /\ f # "audio" => ~ Has(alone[f], key)
  BY HasOnly, AudioKeys
<1> QED BY <1>1, <1>2 DEF Asks

LEMMA AudioStands ==
  ASSUME NEW c, NEW last, Above(c, last)
  PROVE  /\ Stands(OpenAIAudio(c), OpenAIAudio(last), AudioTags)
         /\ \A key : Has(OpenAIAudio(last), key) =>
               \/ Has(OpenAIAudio(c), key)
               \/ Has(c, "response_format") /\ key = "response_format"
<1>1. ASSUME NEW key, Has(OpenAIAudio(last), key)
      PROVE  Has(c, "audio") /\ c["audio"] = last["audio"]
  BY <1>1, AudioKeys DEF Above
<1>2. ASSUME NEW key, Has(OpenAIAudio(last), key), Has(OpenAIAudio(c), key)
      PROVE  \/ OpenAIAudio(c)[key] = OpenAIAudio(last)[key]
             \/ OpenAIAudio(c)[key][1] # OpenAIAudio(last)[key][1]
  <2>1. PICK f : OpenAIAudio(last)[key] = <<f, last["audio"][f]>>
    BY <1>2, AudioKeys
  <2>2. PICK g : OpenAIAudio(c)[key] = <<g, c["audio"][g]>>
    BY <1>2, AudioKeys
  <2> QED BY <1>1, <1>2, <2>1, <2>2
<1>3. ASSUME NEW d, NEW key, Has(OpenAIAudio(d), key) PROVE OpenAIAudio(d)[key][1] \in AudioTags
  <2>1. PICK f \in AudioTags : OpenAIAudio(d)[key] = <<f, d["audio"][f]>>
    BY <1>3, AudioKeys
  <2> QED BY <2>1
<1>4. ASSUME NEW key, Has(OpenAIAudio(last), key), ~ Has(OpenAIAudio(c), key)
      PROVE  Has(c, "response_format") /\ key = "response_format"
  <2>1. PICK f \in AudioTags : /\ Has(last["audio"], f) /\ Has(AudioNames(last), f)
                               /\ AudioNames(last)[f] = key
    BY <1>4, AudioKeys
  <2>2. Has(c, "audio") /\ Has(c["audio"], f)
    BY <1>1, <1>4, <2>1
  <2>3. ~ (Has(AudioNames(c), f) /\ AudioNames(c)[f] = key)
    BY <1>4, <2>2, AudioKeys, RenamedKeys
  <2>4. f = "output_format" /\ Has(c, "response_format")
    BY <2>1, <2>3, AudioNamesAre DEF AudioTags
  <2> QED BY <2>1, <2>4, AudioNamesAre
<1> QED BY <1>2, <1>3, <1>4 DEF Stands

(* Without the stream and the options.                                      *)
OpenAIBody(c) ==
  Over(Sub(c, "embedding", OpenAIEmbedding), Over(OpenAIAudio(c), Over(OpenAIImage(c),
    Over(Format(c, "response_format"), Over(AskLogprobs(c), Over(Renamed(c, OpenAIFields), <<>>))))))

LEMMA OpenAISends ==
  ASSUME NEW c, NEW alone, \A f : Has(c, f) => alone[f] = ToOpenAI(Only(c, f))
  PROVE  \E read : Sends(c, ToOpenAI(c), alone, read)
<1> DEFINE m0 == [f \in DOMAIN c |-> <<>>]
           m1 == [f \in DOMAIN c |-> Renamed(Only(c, f), OpenAIFields)]
           m2 == [f \in DOMAIN c |-> AskLogprobs(Only(c, f))]
           m3 == [f \in DOMAIN c |-> Format(Only(c, f), "response_format")]
           half == [f \in DOMAIN c |-> Over(m3[f], Over(m2[f], Over(m1[f], m0[f])))]
           m4 == [f \in DOMAIN c |-> OpenAIImage(Only(c, f))]
           m5 == [f \in DOMAIN c |-> OpenAIAudio(Only(c, f))]
           m6 == [f \in DOMAIN c |-> Sub(Only(c, f), "embedding", OpenAIEmbedding)]
           m == [f \in DOMAIN c |-> Over(m6[f], Over(m5[f], Over(m4[f], half[f])))]
           F1 == DOMAIN OpenAIFields
           F3 == {"response_format"} \cup ({"logprobs"} \cup (F1 \cup {}))
           F6 == {"embedding"} \cup ({"audio"} \cup ({"image"} \cup F3))
<1>1. \A f : Has(c, f) =>
         /\ m0[f] = <<>>
         /\ m1[f] = Renamed(Only(c, f), OpenAIFields)
         /\ m2[f] = AskLogprobs(Only(c, f))
         /\ m3[f] = Format(Only(c, f), "response_format")
         /\ half[f] = Over(m3[f], Over(m2[f], Over(m1[f], m0[f])))
  BY DEF Has
<1>2. \A f : Has(c, f) =>
         /\ m4[f] = OpenAIImage(Only(c, f))
         /\ m5[f] = OpenAIAudio(Only(c, f))
         /\ m6[f] = Sub(Only(c, f), "embedding", OpenAIEmbedding)
         /\ m[f] = Over(m6[f], Over(m5[f], Over(m4[f], half[f])))
  BY DEF Has
<1>3. \A f : Has(c, f) => m[f] = OpenAIBody(Only(c, f))
  BY <1>1, <1>2 DEF OpenAIBody
<1> HIDE DEF m0, m1, m2, m3, half, m4, m5, m6, m
<1>4. /\ Asks(c, <<>>, m0, {})
      /\ Asks(c, Renamed(c, OpenAIFields), m1, F1)
      /\ Asks(c, AskLogprobs(c), m2, {"logprobs"})
      /\ Asks(c, Format(c, "response_format"), m3, {"response_format"})
  BY <1>1, NoKeys, AsksNothing, RenamedAsks, AskLogprobsAsks, FormatAsks
<1>5. /\ Asks(c, OpenAIImage(c), m4, {"image"})
      /\ Asks(c, OpenAIAudio(c), m5, {"audio"})
      /\ Asks(c, Sub(c, "embedding", OpenAIEmbedding), m6, {"embedding"})
  BY <1>2, ImageAsks, AudioAsks, SubAsks
<1>6. \A f \in {"response_format", "image", "audio", "embedding", "streaming", "options"} : f \notin F1
  BY OpenAIFieldNames DEF Has
<1> HIDE DEF F1
<1>7. Asks(c, Over(Format(c, "response_format"), Over(AskLogprobs(c),
                Over(Renamed(c, OpenAIFields), <<>>))), half, F3)
  <2>1. Apart(c, m1, m0) /\ Apart(c, m2, m0) /\ Apart(c, m3, m0)
    BY <1>1, NoKeys DEF Apart
  <2>2. Apart(c, m2, m1)
    <3>1. ASSUME NEW f, NEW key, Has(c, f), Has(m2[f], key), Has(m1[f], key) PROVE FALSE
      <4>1. key = "logprobs"
        BY <1>1, <3>1, AskLogprobsKeys
      <4>2. Has(Renamed(Only(c, f), OpenAIFields), key)
        BY <1>1, <3>1
      <4>3. \E g : Has(OpenAIFields, g) /\ OpenAIFields[g] = key
        BY <4>2, RenamedKeys
      <4> QED BY <4>1, <4>3, OpenAIFieldNames
    <3> QED BY <3>1 DEF Apart
  <2>3. {"response_format"} \cap F1 = {} /\ {"response_format"} \cap {"logprobs"} = {}
    BY <1>6
  <2>4. Apart(c, m3, m1)
    BY <1>4, <2>3, FieldsApart
  <2>5. Apart(c, m3, m2)
    BY <1>4, <2>3, FieldsApart
  <2> QED BY <1>1, <1>4, <2>1, <2>2, <2>4, <2>5, AsksThree
<1>8. Asks(c, OpenAIBody(c), m, F6)
  <2>1. /\ {"image"} \cap F3 = {} /\ {"audio"} \cap F3 = {} /\ {"embedding"} \cap F3 = {}
        /\ {"audio"} \cap {"image"} = {} /\ {"embedding"} \cap {"image"} = {}
        /\ {"embedding"} \cap {"audio"} = {}
    BY <1>6
  <2> HIDE DEF F3
  <2>2. Apart(c, m4, half) /\ Apart(c, m5, half) /\ Apart(c, m6, half)
    BY <1>5, <1>7, <2>1, FieldsApart
  <2>3. Apart(c, m5, m4) /\ Apart(c, m6, m4) /\ Apart(c, m6, m5)
    BY <1>5, <2>1, FieldsApart
  <2> QED BY <1>2, <1>5, <1>7, <2>2, <2>3, AsksThree DEF OpenAIBody
<1>9. "streaming" \notin F6 /\ "options" \notin F6
  BY <1>6
<1>10. \A d : ToOpenAI(d) = Over(Options(d), Over(Stream(d), OpenAIBody(d)))
  BY OpenAIParts DEF OpenAIBody
<1> HIDE DEF F6
<1>11. \A f : Has(c, f) => alone[f] = Over(Options(Only(c, f)), Over(Stream(Only(c, f)), m[f]))
  BY <1>3, <1>10
<1>12. \E read : Sends(c, Over(Options(c), Over(Stream(c), OpenAIBody(c))), alone, read)
  BY <1>8, <1>9, <1>11, SendsAll
<1> QED BY <1>10, <1>12

LEMMA OpenAIKept ==
  ASSUME NEW c, NEW last, Above(c, last)
  PROVE  \E fields : Kept(ToOpenAI(c), ToOpenAI(last), fields)
<1> DEFINE F1 == DOMAIN OpenAIFields
           F3 == {"response_format"} \cup ({"asked"} \cup (F1 \cup {}))
           F5 == AudioTags \cup (ImageTags \cup F3)
           E == DOMAIN OpenAIEmbedding
           F6 == E \cup F5
           two(d) == Over(AskLogprobs(d), Over(Renamed(d, OpenAIFields), <<>>))
           three(d) == Over(Format(d, "response_format"), two(d))
           four(d) == Over(OpenAIImage(d), three(d))
           five(d) == Over(OpenAIAudio(d), four(d))
<1>1. E = {"dimensions", "format"}
  BY DEF OpenAIEmbedding
<1>2. \A f \in {"response_format", "asked", "streaming", "options"} \cup AudioTags \cup ImageTags \cup E :
         f \notin F1
  BY <1>1, OpenAIFieldNames DEF Has, AudioTags, ImageTags
<1>3. ~ Has(OpenAIFields, "options")
  BY <1>2 DEF Has
<1>4. Kept(Renamed(c, OpenAIFields), Renamed(last, OpenAIFields), F1)
  BY <1>3, RenamedKept
<1> HIDE DEF F1
<1>5. Kept(three(c), three(last), F3)
  <2>1. Kept(Over(Renamed(c, OpenAIFields), <<>>), Over(Renamed(last, OpenAIFields), <<>>), F1 \cup {})
    <3>1. F1 \cap {} = {}
      OBVIOUS
    <3> QED BY <1>4, <3>1, NothingKept, KeptOver DEF Kept
  <2>2. Kept(AskLogprobs(c), AskLogprobs(last), {"asked"}) /\ {"asked"} \cap (F1 \cup {}) = {}
    BY <1>2, AskLogprobsKept
  <2>3. Kept(two(c), two(last), {"asked"} \cup (F1 \cup {}))
    BY <2>1, <2>2, KeptOver DEF Kept
  <2>4. /\ Kept(Format(c, "response_format"), Format(last, "response_format"), {"response_format"})
        /\ {"response_format"} \cap ({"asked"} \cup (F1 \cup {})) = {}
    BY <1>2, FormatKept
  <2>5. /\ Stands(Format(c, "response_format"), Format(last, "response_format"), {"response_format"})
        /\ \A key : Has(Format(last, "response_format"), key) =>
              Has(Format(c, "response_format"), key) \/ Has(two(c), key)
    BY <2>4 DEF Kept
  <2> HIDE DEF two
  <2> QED BY <2>3, <2>4, <2>5, KeptOver
<1>6. Kept(four(c), four(last), ImageTags \cup F3)
  <2>1. Kept(OpenAIImage(c), OpenAIImage(last), ImageTags) /\ ImageTags \cap F3 = {}
    BY <1>2, ImageKept DEF ImageTags
  <2> HIDE DEF F3, three
  <2> QED BY <1>5, <2>1, KeptOver DEF Kept
<1>7. Kept(five(c), five(last), F5)
  <2>1. Stands(OpenAIAudio(c), OpenAIAudio(last), AudioTags) /\ AudioTags \cap (ImageTags \cup F3) = {}
    BY <1>2, AudioStands DEF AudioTags, ImageTags
  <2>2. ASSUME NEW key, Has(OpenAIAudio(last), key)
        PROVE  Has(OpenAIAudio(c), key) \/ Has(four(c), key)
    <3>1. Has(c, "response_format") => Has(Format(c, "response_format"), "response_format")
      BY DEF Format, If, One, Has
    <3>2. Has(Format(c, "response_format"), key) => Has(four(c), key)
      BY OverKeys
    <3> QED BY <2>2, <3>1, <3>2, AudioStands
  <2> HIDE DEF F3, four
  <2> QED BY <1>6, <2>1, <2>2, KeptOver
<1>8. Kept(Sub(c, "embedding", OpenAIEmbedding), Sub(last, "embedding", OpenAIEmbedding), E)
  BY SubKept
<1>9. /\ E \cap F5 = {}
      /\ "streaming" \notin F6 /\ "options" \notin F6
  BY <1>1, <1>2 DEF AudioTags, ImageTags
<1>10. \A d : OpenAIBody(d) = Over(Sub(d, "embedding", OpenAIEmbedding), five(d))
  BY DEF OpenAIBody
<1> HIDE DEF E, F5, five
<1>11. Kept(OpenAIBody(c), OpenAIBody(last), F6)
  BY <1>7, <1>8, <1>9, <1>10, KeptOver DEF Kept
<1>12. \A d : ToOpenAI(d) = Over(Options(d), Over(Stream(d), OpenAIBody(d)))
  BY OpenAIParts DEF OpenAIBody
<1> HIDE DEF F6
<1> QED BY <1>9, <1>11, <1>12, KeptAll

-----------------------------------------------------------------------------
(* ToGemini *)

Mime(c) == If(Has(c, "response_format"), One(".responseMimeType", "mime", "application/json"))
GeminiImage == [aspect_ratio |-> ".aspect_ratio", num_images |-> ".numberOfImages"]
GeminiEmbedding == [dimensions |-> ".output_dimensionality"]
TaskType(c) == Translated(c, "input_type", TaskTypes, ".task_type")
ModelName == [model |-> "model"]
GenerationPart(c) == If(~Replaced(c), GenerationConfig(c))

LEMMA GeminiParts ==
  ASSUME NEW c
  PROVE  /\ ToGemini(c) = Over(Options(c), Over(Stream(c),
                             Over(GenerationPart(c), Over(Renamed(c, ModelName), <<>>))))
         /\ GenerationConfig(c) =
              Over(TaskType(c), Over(Sub(c, "embedding", GeminiEmbedding),
                Over(Sub(c, "image", GeminiImage), Over(Mime(c), Over(Format(c, ".responseSchema"),
                  Over(Renamed(c, GeminiFields), <<>>))))))
<1>1. ToGemini(c) = Written(<<Renamed(c, ModelName), GenerationPart(c), Stream(c), Options(c)>>)
  BY DEF ToGemini, ModelName, GenerationPart
<1>2. GenerationConfig(c) = Written(<<Renamed(c, GeminiFields), Format(c, ".responseSchema"), Mime(c),
                                      Sub(c, "image", GeminiImage),
                                      Sub(c, "embedding", GeminiEmbedding), TaskType(c)>>)
  BY DEF GenerationConfig, Mime, GeminiImage, GeminiEmbedding, TaskType
<1>3. ToGemini(c) = Over(Options(c), Over(Stream(c),
                      Over(GenerationPart(c), Over(Renamed(c, ModelName), <<>>))))
  BY <1>1, WrittenFour
<1>4. GenerationConfig(c) =
        Over(TaskType(c), Over(Sub(c, "embedding", GeminiEmbedding),
          Over(Sub(c, "image", GeminiImage), Over(Mime(c), Over(Format(c, ".responseSchema"),
            Over(Renamed(c, GeminiFields), <<>>))))))
  BY <1>2, WrittenSix
<1> QED BY <1>3, <1>4

LEMMA GeminiNames ==
  /\ DOMAIN GeminiFields = {"temperature", "max_tokens", "top_p", "top_k", "stop_sequences"}
  /\ DOMAIN GeminiImage = {"aspect_ratio", "num_images"}
  /\ DOMAIN GeminiEmbedding = {"dimensions"}
  /\ DOMAIN ModelName = {"model"}
  /\ GeminiEmbedding["dimensions"] # ".task_type"
  BY DEF GeminiFields, GeminiImage, GeminiEmbedding, ModelName

LEMMA MimeKeys ==
  ASSUME NEW c
  PROVE  \A key : Has(Mime(c), key) => /\ Has(c, "response_format")
                                       /\ key = ".responseMimeType" /\ Mime(c)[key][1] = "mime"
<1>1. \A key : Has(Mime(c), key) => /\ Has(c, "response_format") /\ key = ".responseMimeType"
                                    /\ Mime(c)[key] = <<"mime", "application/json">>
  BY OneKey DEF Mime
<1> QED BY <1>1

LEMMA MimeAsks ==
  ASSUME NEW c, NEW alone, \A f : Has(c, f) => alone[f] = Mime(Only(c, f))
  PROVE  Asks(c, Mime(c), alone, {"response_format"})
<1>1. Has(c, "response_format") => alone["response_format"] = Mime(c)
  BY HasOnly DEF Mime, If
<1> QED BY <1>1, HasOnly, MimeKeys, OneFieldAsks

LEMMA MimeKept ==
  ASSUME NEW c, NEW last, Above(c, last)
  PROVE  Kept(Mime(c), Mime(last), {"mime"})
<1>1. Has(last, "response_format") => Mime(last) = Mime(c)
  BY DEF Mime, If, Above
<1> QED BY <1>1, MimeKeys, SameKept

LEMMA GenerationAsks ==
  ASSUME NEW c, NEW alone, \A f : Has(c, f) => alone[f] = GenerationConfig(Only(c, f))
  PROVE  \E F : /\ Asks(c, GenerationConfig(c), alone, F)
                /\ \A f \in {"model", "streaming", "options"} : f \notin F
<1> DEFINE m0 == [f \in DOMAIN c |-> <<>>]
           m1 == [f \in DOMAIN c |-> Renamed(Only(c, f), GeminiFields)]
           m2 == [f \in DOMAIN c |-> Format(Only(c, f), ".responseSchema")]
           m3 == [f \in DOMAIN c |-> Mime(Only(c, f))]
           half == [f \in DOMAIN c |-> Over(m3[f], Over(m2[f], Over(m1[f], m0[f])))]
           m4 == [f \in DOMAIN c |-> Sub(Only(c, f), "image", GeminiImage)]
           m5 == [f \in DOMAIN c |-> Sub(Only(c, f), "embedding", GeminiEmbedding)]
           m6 == [f \in DOMAIN c |-> TaskType(Only(c, f))]
           F1 == DOMAIN GeminiFields
           F3 == {"response_format"} \cup ({"response_format"} \cup (F1 \cup {}))
           F6 == {"embedding"} \cup ({"embedding"} \cup ({"image"} \cup F3))
<1>1. \A f : Has(c, f) =>
         /\ m0[f] = <<>>
         /\ m1[f] = Renamed(Only(c, f), GeminiFields)
         /\ m2[f] = Format(Only(c, f), ".responseSchema")
         /\ m3[f] = Mime(Only(c, f))
         /\ half[f] = Over(m3[f], Over(m2[f], Over(m1[f], m0[f])))
  BY DEF Has
<1>2. \A f : Has(c, f) =>
         /\ m4[f] = Sub(Only(c, f), "image", GeminiImage)
         /\ m5[f] = Sub(Only(c, f), "embedding", GeminiEmbedding)
         /\ m6[f] = TaskType(Only(c, f))
  BY DEF Has
<1> HIDE DEF m0, m1, m2, m3, half, m4, m5, m6
<1>3. \A f : Has(c, f) => alone[f] = Over(m6[f], Over(m5[f], Over(m4[f], half[f])))
  BY <1>1, <1>2, GeminiParts
<1>4. /\ Asks(c, <<>>, m0, {})
      /\ Asks(c, Renamed(c, GeminiFields), m1, F1)
      /\ Asks(c, Format(c, ".responseSchema"), m2, {"response_format"})
      /\ Asks(c, Mime(c), m3, {"response_format"})
  BY <1>1, NoKeys, AsksNothing, RenamedAsks, MimeAsks, FormatAsks
<1>5. /\ Asks(c, Sub(c, "image", GeminiImage), m4, {"image"})
      /\ Asks(c, Sub(c, "embedding", GeminiEmbedding), m5, {"embedding"})
      /\ Asks(c, TaskType(c), m6, {"embedding"})
  BY <1>2, SubAsks, TranslatedAsks DEF TaskType
<1>6. \A f \in {"response_format", "image", "embedding", "model", "streaming", "options"} : f \notin F1
  BY GeminiNames
<1> HIDE DEF F1
<1>7. Asks(c, Over(Mime(c), Over(Format(c, ".responseSchema"),
                Over(Renamed(c, GeminiFields), <<>>))), half, F3)
  <2>1. Apart(c, m1, m0) /\ Apart(c, m2, m0) /\ Apart(c, m3, m0)
    BY <1>1, NoKeys DEF Apart
  <2>2. {"response_format"} \cap F1 = {}
    BY <1>6
  <2>3. Apart(c, m2, m1) /\ Apart(c, m3, m1)
    BY <1>4, <2>2, FieldsApart
  <2>4. Apart(c, m3, m2)
    <3>1. \A d, key : Has(Format(d, ".responseSchema"), key) => key = ".responseSchema"
      BY OneKey DEF Format
    <3> QED BY <1>1, <3>1, MimeKeys DEF Apart
  <2> QED BY <1>1, <1>4, <2>1, <2>3, <2>4, AsksThree
<1>8. Asks(c, GenerationConfig(c), alone, F6)
  <2>1. /\ {"image"} \cap F3 = {} /\ {"embedding"} \cap F3 = {} /\ {"embedding"} \cap {"image"} = {}
    BY <1>6
  <2> HIDE DEF F3
  <2>2. Apart(c, m4, half) /\ Apart(c, m5, half) /\ Apart(c, m6, half)
    BY <1>5, <1>7, <2>1, FieldsApart
  <2>3. Apart(c, m5, m4) /\ Apart(c, m6, m4)
    BY <1>5, <2>1, FieldsApart
  <2>4. Apart(c, m6, m5)
    <3>1. \A d : ~ Has(Sub(d, "embedding", GeminiEmbedding), ".task_type")
      BY RenamedKeys, NoKeys, GeminiNames DEF Sub, Has
    <3> QED BY <1>2, <3>1, TranslatedKeys DEF Apart, TaskType
  <2> QED BY <1>3, <1>5, <1>7, <2>2, <2>3, <2>4, AsksThree, GeminiParts
<1>9. \A f \in {"model", "streaming", "options"} : f \notin F6
  BY <1>6
<1> HIDE DEF F6
<1> QED BY <1>8, <1>9

(* An option may stand in for the generation config of the whole; by itself *)
(* no other field is replaced.                                              *)
LEMMA GenerationPartAsks ==
  ASSUME NEW c, NEW alone, \A f : Has(c, f) => alone[f] = GenerationPart(Only(c, f))
  PROVE  \E F : /\ Asks(c, GenerationPart(c), alone, F)
                /\ \A f \in {"model", "streaming", "options"} : f \notin F
<1> DEFINE all == [f \in DOMAIN c |-> GenerationConfig(Only(c, f))]
<1>1. \A f : Has(c, f) => all[f] = GenerationConfig(Only(c, f))
  BY DEF Has
<1> HIDE DEF all
<1>2. PICK F : /\ Asks(c, GenerationConfig(c), all, F)
               /\ \A f \in {"model", "streaming", "options"} : f \notin F
  BY <1>1, GenerationAsks
<1>3. \A d, key : Has(GenerationPart(d), key) =>
         ~ Replaced(d) /\ GenerationPart(d) = GenerationConfig(d)
  BY NoKeys DEF GenerationPart, If
<1>4. \A f : f # "options" => GenerationPart(Only(c, f)) = GenerationConfig(Only(c, f))
  BY HasOnly DEF GenerationPart, If, Replaced
<1>5. ASSUME NEW key, Has(GenerationPart(c), key)
      PROVE  \E f \in F : Has(c, f) /\ Has(alone[f], key) /\ alone[f][key] = GenerationPart(c)[key]
  <2>1. GenerationPart(c) = GenerationConfig(c)
    BY <1>3, <1>5
  <2>2. PICK f \in F : Has(c, f) /\ Has(all[f], key) /\ all[f][key] = GenerationConfig(c)[key]
    BY <1>2, <1>5, <2>1 DEF Asks
  <2>3. f # "options"
    BY <1>2, <2>2
  <2>4. alone[f] = all[f]
    BY <1>1, <1>4, <2>2, <2>3
  <2> QED BY <2>1, <2>2, <2>4
<1>6. ASSUME NEW f, NEW key, Has(c, f), f \notin F PROVE ~ Has(alone[f], key)
  <2>1. ~ Has(GenerationConfig(Only(c, f)), key)
    BY <1>1, <1>2, <1>6 DEF Asks
  <2> QED BY <1>3, <1>6, <2>1
<1> QED BY <1>2, <1>5, <1>6 DEF Asks

LEMMA GeminiSends ==
  ASSUME NEW c, NEW alone, \A f : Has(c, f) => alone[f] = ToGemini(Only(c, f))
  PROVE  \E read : Sends(c, ToGemini(c), alone, read)
<1> DEFINE m0 == [f \in DOMAIN c |-> <<>>]
           m1 == [f \in DOMAIN c |-> Renamed(Only(c, f), ModelName)]
           m2 == [f \in DOMAIN c |-> GenerationPart(Only(c, f))]
           one == [f \in DOMAIN c |-> Over(m1[f], m0[f])]
           m == [f \in DOMAIN c |-> Over(m2[f], one[f])]
<1>1. \A f : Has(c, f) =>
         /\ m0[f] = <<>>
         /\ m1[f] = Renamed(Only(c, f), ModelName)
         /\ m2[f] = GenerationPart(Only(c, f))
         /\ one[f] = Over(m1[f], m0[f])
         /\ m[f] = Over(m2[f], one[f])
  BY DEF Has
<1> HIDE DEF m0, m1, m2, one, m
<1>2. Asks(c, <<>>, m0, {}) /\ Asks(c, Renamed(c, ModelName), m1, {"model"})
  BY <1>1, NoKeys, AsksNothing, RenamedAsks, GeminiNames
<1>3. PICK F : /\ Asks(c, GenerationPart(c), m2, F)
               /\ \A f \in {"model", "streaming", "options"} : f \notin F
  BY <1>1, GenerationPartAsks
<1>4. Apart(c, m1, m0)
  BY <1>1, NoKeys DEF Apart
<1>5. Asks(c, Over(Renamed(c, ModelName), <<>>), one, {"model"} \cup {})
  BY <1>1, <1>2, <1>4, AsksOver
<1>6. Apart(c, m2, one)
  <2>1. F \cap ({"model"} \cup {}) = {}
    BY <1>3
  <2> QED BY <1>3, <1>5, <2>1, FieldsApart
<1>7. Asks(c, Over(GenerationPart(c), Over(Renamed(c, ModelName), <<>>)), m, F \cup ({"model"} \cup {}))
  BY <1>1, <1>3, <1>5, <1>6, AsksOver
<1>8. "streaming" \notin F \cup ({"model"} \cup {}) /\ "options" \notin F \cup ({"model"} \cup {})
  BY <1>3
<1>9. \A f : Has(c, f) => alone[f] = Over(Options(Only(c, f)), Over(Stream(Only(c, f)), m[f]))
  BY <1>1, GeminiParts
<1>10. \E read : Sends(c, Over(Options(c), Over(Stream(c),
                         Over(GenerationPart(c), Over(Renamed(c, ModelName), <<>>)))), alone, read)
  BY <1>7, <1>8, <1>9, SendsAll
<1> QED BY <1>10, GeminiParts

LEMMA GenerationKept ==
  ASSUME NEW c, NEW last, Above(c, last)
  PROVE  \E F : /\ Kept(GenerationConfig(c), GenerationConfig(last), F)
                /\ \A f \in {"model", "streaming", "options"} : f \notin F
<1> DEFINE F1 == {"temperature", "max_tokens", "top_p", "top_k", "stop_sequences"} \cup {}
           F2 == {"response_format"} \cup F1
           F3 == {"mime"} \cup F2
           F4 == {"aspect_ratio", "num_images"} \cup F3
           F5 == {"dimensions"} \cup F4
           F6 == {"input_type"} \cup F5
           one(d) == Over(Renamed(d, GeminiFields), <<>>)
           two(d) == Over(Format(d, ".responseSchema"), one(d))
           three(d) == Over(Mime(d), two(d))
           four(d) == Over(Sub(d, "image", GeminiImage), three(d))
           five(d) == Over(Sub(d, "embedding", GeminiEmbedding), four(d))
           six(d) == Over(TaskType(d), five(d))
<1>1. Kept(one(c), one(last), F1)
  <2> DEFINE names == DOMAIN GeminiFields
  <2>1. ~ Has(GeminiFields, "options")
    BY GeminiNames DEF Has
  <2>2. Kept(Renamed(c, GeminiFields), Renamed(last, GeminiFields), names) /\ names \cap {} = {}
    BY <2>1, RenamedKept
  <2>3. F1 = names \cup {}
    BY GeminiNames
  <2> HIDE DEF names, F1
  <2> QED BY <2>2, <2>3, NothingKept, KeptOver DEF Kept
<1>2. Kept(two(c), two(last), F2)
  <2>1. {"response_format"} \cap F1 = {}
    OBVIOUS
  <2> HIDE DEF F1, one
  <2> QED BY <1>1, <2>1, FormatKept, KeptOver DEF Kept
<1>3. Kept(three(c), three(last), F3)
  <2>1. {"mime"} \cap F2 = {}
    OBVIOUS
  <2> HIDE DEF F2, two
  <2> QED BY <1>2, <2>1, MimeKept, KeptOver DEF Kept
<1>4. Kept(four(c), four(last), F4)
  <2>1. /\ {"aspect_ratio", "num_images"} \cap F3 = {}
        /\ Kept(Sub(c, "image", GeminiImage), Sub(last, "image", GeminiImage), {"aspect_ratio", "num_images"})
    BY SubKept, GeminiNames
  <2> HIDE DEF F3, three
  <2> QED BY <1>3, <2>1, KeptOver DEF Kept
<1>5. Kept(five(c), five(last), F5)
  <2>1. /\ {"dimensions"} \cap F4 = {}
        /\ Kept(Sub(c, "embedding", GeminiEmbedding), Sub(last, "embedding", GeminiEmbedding), {"dimensions"})
    BY SubKept, GeminiNames
  <2> HIDE DEF F4, four
  <2> QED BY <1>4, <2>1, KeptOver DEF Kept
<1>6. Kept(six(c), six(last), F6)
  <2>1. {"input_type"} \cap F5 = {}
    OBVIOUS
  <2>2. Kept(TaskType(c), TaskType(last), {"input_type"})
    BY TranslatedKept DEF TaskType
  <2> HIDE DEF F5, five
  <2> QED BY <1>5, <2>1, <2>2, KeptOver DEF Kept
<1>7. \A f \in {"model", "streaming", "options"} : f \notin F6
  OBVIOUS
<1>8. \A d : GenerationConfig(d) = six(d)
  BY GeminiParts
<1> HIDE DEF F6, six
<1> QED BY <1>6, <1>7, <1>8

LEMMA GeminiKept ==
  ASSUME NEW c, NEW last, Above(c, last), ~ Replaced(c)
  PROVE  \E fields : Kept(ToGemini(c), ToGemini(last), fields)
<1>1. ~ Replaced(last)
  BY DEF Replaced, Above, Has
<1>2. PICK F : /\ Kept(GenerationConfig(c), GenerationConfig(last), F)
               /\ \A f \in {"model", "streaming", "options"} : f \notin F
  BY GenerationKept
<1>3. Kept(GenerationPart(c), GenerationPart(last), F)
  BY <1>1, <1>2 DEF GenerationPart, If
<1> DEFINE one(d) == Over(Renamed(d, ModelName), <<>>)
           M == {"model"} \cup {}
<1>4. Kept(one(c), one(last), M)
  <2>1. Kept(Renamed(c, ModelName), Renamed(last, ModelName), {"model"}) /\ {"model"} \cap {} = {}
    BY GeminiNames, RenamedKept DEF Has
  <2> QED BY <2>1, NothingKept, KeptOver DEF Kept
<1>5. F \cap M = {} /\ "streaming" \notin F \cup M /\ "options" \notin F \cup M
  BY <1>2
<1>6. \A d : ToGemini(d) = Over(Options(d), Over(Stream(d), Over(GenerationPart(d), one(d))))
  BY GeminiParts
<1> HIDE DEF one, M
<1>7. Kept(Over(GenerationPart(c), one(c)), Over(GenerationPart(last), one(last)), F \cup M)
  BY <1>3, <1>4, <1>5, KeptOver DEF Kept
<1> QED BY <1>5, <1>6, <1>7, KeptAll

-----------------------------------------------------------------------------
(* Any of the providers. *)

LEMMA ProviderSends ==
  ASSUME NEW provider \in Providers, NEW c, NEW alone,
         \A f : Has(c, f) => alone[f] = ToProvider(provider, Only(c, f))
  PROVE  \E read : Sends(c, ToProvider(provider, c), alone, read)
<1>1. CASE provider = "map"
  <2>1. \A d : ToProvider(provider, d) = ToMap(d)
    BY <1>1 DEF ToProvider
  <2> QED BY <2>1, MapSends
<1>2. CASE provider = "openai"
  <2>1. \A d : ToProvider(provider, d) = ToOpenAI(d)
    BY <1>2 DEF ToProvider
  <2> QED BY <2>1, OpenAISends
<1>3. CASE provider = "anthropic"
  <2>1. \A d : ToProvider(provider, d) = ToAnthropic(d)
    BY <1>3 DEF ToProvider
  <2> QED BY <2>1, AnthropicSends
<1>4. CASE provider = "gemini"
  <2>1. \A d : ToProvider(provider, d) = ToGemini(d)
    BY <1>4 DEF ToProvider
  <2> QED BY <2>1, GeminiSends
<1>5. CASE provider = "vllm"
  <2>1. \A d : ToProvider(provider, d) = ToVLLM(d)
    BY <1>5 DEF ToProvider
  <2> QED BY <2>1, VLLMSends
<1>6. CASE provider = "mistral"
  <2>1. \A d : ToProvider(provider, d) = ToMistral(d)
    BY <1>6 DEF ToProvider
  <2> QED BY <2>1, MistralSends
<1>7. CASE provider = "cohere"
  <2>1. \A d : ToProvider(provider, d) = ToCohere(d)
    BY <1>7 DEF ToProvider
  <2> QED BY <2>1, CohereSends
<1> QED BY <1>1, <1>2, <1>3, <1>4, <1>5, <1>6, <1>7 DEF Providers

LEMMA ProviderKept ==
  ASSUME NEW provider \in Providers, NEW c, NEW last, Above(c, last),
         ~ (provider = "gemini" /\ Replaced(c))
  PROVE  \E fields : Kept(ToProvider(provider, c), ToProvider(provider, last), fields)
<1>1. CASE provider = "map"
  BY <1>1, MapKept DEF ToProvider
<1>2. CASE provider = "openai"
  BY <1>2, OpenAIKept DEF ToProvider
<1>3. CASE provider = "anthropic"
  BY <1>3, AnthropicKept DEF ToProvider
<1>4. CASE provider = "gemini"
  BY <1>4, GeminiKept DEF ToProvider
<1>5. CASE provider = "vllm"
  BY <1>5, VLLMKept DEF ToProvider
<1>6. CASE provider = "mistral"
  BY <1>6, MistralKept DEF ToProvider
<1>7. CASE provider = "cohere"
  BY <1>7, CohereKept DEF ToProvider
<1> QED BY <1>1, <1>2, <1>3, <1>4, <1>5, <1>6, <1>7 DEF Providers

(* The options are sent over everything else; the plain map has none.       *)
LEMMA OptionsSentLast ==
  ASSUME NEW provider \in Providers, NEW c, NEW key, Has(c, "options"), Has(c["options"], key)
  PROVE  \/ provider = "map"
         \/ /\ Has(ToProvider(provider, c), key)
            /\ ToProvider(provider, c)[key] = <<"options", c["options"][key]>>
<1>1. ASSUME provider # "map" PROVE \E r : ToProvider(provider, c) = Over(Options(c), r)
  BY <1>1, OpenAIParts, AnthropicParts, GeminiParts, VLLMParts, MistralParts, CohereParts
  DEF ToProvider, Providers
<1> QED BY <1>1, OverKeys, OptionKeys

LEMMA MapHasNoOptions == ASSUME NEW c, NEW key PROVE ~ Has(ToProvider("map", Only(c, "options")), key)
<1>1. ToProvider("map", Only(c, "options")) = Renamed(Only(c, "options"), MapNames)
  BY DEF ToProvider, ToMap, MapNames
<1> QED BY <1>1, RenamedKeys, HasOnly, MapFields

-----------------------------------------------------------------------------
(* Layers. *)

(* What stands under a key of a request one field of one layer asks for.    *)
LEMMA OfOneField ==
  ASSUME NEW provider \in Providers, NEW S, NEW layers \in Seq(S), NEW key,
         Has(ToProvider(provider, Layered(layers)), key)
  PROVE  \E n \in 1..Len(layers) : \E f :
            /\ Has(layers[n], f)
            /\ Has(ToProvider(provider, Only(layers[n], f)), key)
            /\ ToProvider(provider, Only(layers[n], f))[key] = ToProvider(provider, Layered(layers))[key]
<1> DEFINE c == Layered(layers)
           alone == [f \in DOMAIN c |-> ToProvider(provider, Only(c, f))]
           request == ToProvider(provider, c)
<1>1. \A f : Has(c, f) => alone[f] = ToProvider(provider, Only(c, f))
  BY DEF Has
<1> HIDE DEF alone, c
<1>2. PICK read : Sends(c, request, alone, read)
  BY <1>1, ProviderSends
<1>3. PICK f \in read : Has(c, f) /\ Has(alone[f], key) /\ alone[f][key] = request[key]
  BY <1>2 DEF Sends, Asks, c
<1>4. PICK m \in 1..Len(layers) : Has(layers[m], f)
  BY <1>3, LayeredFields DEF c
<1>5. CASE f # "options"
  <2>1. PICK n : LastToSet(layers, f, n)
    BY <1>4, SomeLastToSet
  <2>2. c[f] = layers[n][f]
    BY <1>5, <2>1, LayeredField DEF c
  <2>3. Only(c, f) = Only(layers[n], f)
    BY <2>2 DEF Only
  <2>4. n \in 1..Len(layers) /\ Has(layers[n], f)
    BY <2>1 DEF LastToSet
  <2> QED BY <1>1, <1>3, <2>3, <2>4 DEF c
<1>6. CASE f = "options"
  <2>1. /\ Has(c["options"], key)
        /\ request[key] = <<"options", c["options"][key]>>
    BY <1>2, <1>3, <1>6 DEF Sends
  <2>2. key \in Given(layers)
    BY <1>3, <1>6, <2>1, LayeredOptions DEF Has, c
  <2>3. PICK i \in 1..Len(layers) : key \in OptionsOf(layers[i])
    BY <2>2 DEF Given
  <2>4. PICK n : LastToGive(layers, key, n)
    BY <2>3, SomeLastToGive
  <2>5. c["options"][key] = layers[n]["options"][key]
    BY <1>3, <1>6, <2>4, LayeredOptions DEF c
  <2>6. /\ n \in 1..Len(layers) /\ Has(layers[n], "options") /\ Has(layers[n]["options"], key)
    BY <2>4 DEF LastToGive, OptionsOf, Has
  <2>7. provider # "map"
    BY <1>1, <1>3, <1>6, MapHasNoOptions
  <2> DEFINE own == Only(layers[n], "options")
  <2>8. Has(own, "options") /\ own["options"] = layers[n]["options"]
    BY HasOnly
  <2> HIDE DEF own
  <2>9. /\ Has(ToProvider(provider, own), key)
        /\ ToProvider(provider, own)[key] = <<"options", layers[n]["options"][key]>>
    BY <2>6, <2>7, <2>8, OptionsSentLast
  <2> QED BY <2>1, <2>5, <2>6, <2>9 DEF own, c
<1> QED BY <1>5, <1>6

(* The last of the layers is not overruled in anything.                     *)
LEMMA LastIsAbove ==
  ASSUME NEW S, NEW layers \in Seq(S), layers # <<>>
  PROVE  Above(Layered(layers), layers[Len(layers)])
<1> DEFINE N == Len(layers)
           last == layers[N]
           c == Layered(layers)
<1>1. N \in 1..N /\ \A later : later \notin N + 1..N
  BY LenProperties, EmptySeq
<1> HIDE DEF N, last
<1>2. ASSUME NEW f, Has(last, f) PROVE Has(c, f)
  BY <1>1, <1>2, LayeredFields DEF N, last
<1>3. ASSUME NEW f, Has(last, f), f # "options" PROVE c[f] = last[f]
  <2>1. LastToSet(layers, f, N)
    BY <1>1, <1>3 DEF LastToSet, N, last
  <2> QED BY <1>3, <2>1, LayeredField DEF last
<1>4. ASSUME Has(last, "options"), NEW o, Has(last["options"], o)
      PROVE  Has(c["options"], o) /\ c["options"][o] = last["options"][o]
  <2>1. LastToGive(layers, o, N)
    BY <1>1, <1>4 DEF LastToGive, N, last, OptionsOf, Has
  <2>2. o \in Given(layers)
    BY <2>1 DEF LastToGive, Given
  <2>3. Has(c, "options")
    BY <1>2, <1>4
  <2> QED BY <2>1, <2>2, <2>3, LayeredOptions DEF Has, last
<1> QED BY <1>2, <1>3, <1>4 DEF Above, N, last

(* The requests to the providers (ExecutionConfig.ToOpenAI and its kin):    *)
(* each key of one is what one field of one layer asks for by itself, and   *)
(* what the most specific layer asks for is sent, but where another field   *)
(* is sent under the same key or an option replaces the generation config.  *)
THEOREM SentAsLayered == Spec => []SentIsLayered
<1>1. ASSUME IInv PROVE SentIsLayered
  <2> SUFFICES ASSUME NEW provider \in Providers
               PROVE  LET layers == Sets(Last(configs))
                          request == ToProvider(provider, Last(configs).set)
                          last == ToProvider(provider, layers[Len(layers)])
                          Asked(set) == LET alone == ToProvider(provider, set)
                                        IN  {<<key, alone[key]>> : key \in DOMAIN alone}
                          ofOneField == UNION {UNION {Asked([g \in {f} |-> layer[f]]) : f \in DOMAIN layer}
                                                 : layer \in Range(layers)}
                      IN  /\ \A key \in DOMAIN request : <<key, request[key]>> \in ofOneField
                          /\ \A key \in DOMAIN last :
                               \/ /\ key \in DOMAIN request
                                  /\ request[key] = last[key] \/ request[key][1] # last[key][1]
                               \/ provider = "gemini" /\ Replaced(Last(configs).set)
    BY Zenon DEF SentIsLayered
  <2> DEFINE config == Last(configs)
             layers == Sets(config)
             request == ToProvider(provider, config.set)
             last == ToProvider(provider, layers[Len(layers)])
             Asked(set) == LET alone == ToProvider(provider, set)
                           IN  {<<key, alone[key]>> : key \in DOMAIN alone}
             ofLayer(layer) == UNION {Asked([g \in {f} |-> layer[f]]) : f \in DOMAIN layer}
             ofOneField == UNION {ofLayer(layer) : layer \in Range(layers)}
  <2>1. config = configs[Len(configs)] /\ Len(configs) \in DOMAIN configs
    BY <1>1, ConfigsAreSeq DEF Last
  <2>2. /\ config.from \in Seq(DOMAIN configs) /\ config.from # <<>>
        /\ config.set = Layered(layers)
    BY <1>1, <2>1 DEF IInv, IsLayered
  <2> HIDE DEF config
  <2>3. layers \in Seq(AllSets) /\ layers # <<>>
    BY <2>2, SetsAreSeq, LenProperties, EmptySeq
  <2> HIDE DEF layers
  <2>4. DOMAIN layers = 1..Len(layers)
    BY <2>3, LenProperties
  <2>5. ASSUME NEW key \in DOMAIN request PROVE <<key, request[key]>> \in ofOneField
    <3>1. Has(ToProvider(provider, Layered(layers)), key)
      BY <2>2, <2>5 DEF Has
    <3>2. PICK n \in 1..Len(layers) : \E f :
             /\ Has(layers[n], f)
             /\ Has(ToProvider(provider, Only(layers[n], f)), key)
             /\ ToProvider(provider, Only(layers[n], f))[key]
                  = ToProvider(provider, Layered(layers))[key]
      BY <2>3, <3>1, OfOneField
    <3>3. PICK f : /\ Has(layers[n], f)
                   /\ Has(ToProvider(provider, Only(layers[n], f)), key)
                   /\ ToProvider(provider, Only(layers[n], f))[key] = request[key]
      BY <2>2, <3>2
    <3>4. <<key, request[key]>> \in Asked(Only(layers[n], f))
      BY <3>3 DEF Has
    <3> HIDE DEF Asked, request
    <3>5. <<key, request[key]>> \in ofLayer(layers[n])
      BY <3>3, <3>4 DEF Has, Only
    <3>6. layers[n] \in Range(layers)
      BY <2>4 DEF Range
    <3> HIDE DEF ofLayer
    <3> QED BY <3>5, <3>6
  <2>6. ASSUME NEW key \in DOMAIN last, ~ (provider = "gemini" /\ Replaced(config.set))
        PROVE  /\ key \in DOMAIN request
               /\ request[key] = last[key] \/ request[key][1] # last[key][1]
    <3>1. Above(config.set, layers[Len(layers)])
      BY <2>2, <2>3, LastIsAbove
    <3>2. PICK fields : Kept(request, last, fields)
      BY <2>6, <3>1, ProviderKept
    <3> QED BY <2>6, <3>2 DEF Kept, Stands, Has
  <2> QED BY <2>5, <2>6 DEF config, layers
<1> QED BY <1>1, AlwaysIInv, PTL

=============================================================================
