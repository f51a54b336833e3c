---------------------------- MODULE InputsProofs ----------------------------
(***************************************************************************)
(* Proofs about Inputs, for any names, renders, chains and bindings.        *)
(***************************************************************************)
EXTENDS Inputs, FiniteSetTheorems, TLAPS

(* The inductive invariant.  A list a party holds is its own copy.          *)
Mine(v, party) == v.kind \in Collections => v.owner = party

(* What injection leaves in the context of a render.                        *)
Ready(r) ==
  /\ (above => Declared # {}) => \A n \in Names : Mine(ctx[r].input[n], r)
  /\ \A n \in Untrusted :
        /\ ctx[r].input[n].kind \in {"absent", "sealed"}
        /\ ctx[r].flat[n].kind \in {"absent", "sealed"}
        /\ ctx[r].input[n].kind = "absent" => ctx[r].behind[n].kind = "absent"
        /\ ctx[r].flat[n].kind = "absent" => flat[n].kind = "absent"
  /\ ~ above => \A n \in Names : ctx[r].behind[n].kind = "absent"
  /\ root = "map" =>
        /\ \A n \in Names :
              ctx[r].input[n].kind = "absent" <=> n \notin Named /\ given[n].kind = "absent"
        /\ \A n \in Untrusted : flat[n].kind # "absent" =>
              ctx[r].input[n].kind = "sealed" /\ ctx[r].flat[n] = ctx[r].input[n]
        /\ Declared # {} => \A n \in Names : ctx[r].input[n].kind = Merged(given, r)[n].kind

(* BindInputs fills in what was unbound, and nothing else.                  *)
Bound ==
  \A n \in Names :
    \/ bag[n].kind = given[n].kind
    \/ /\ IsUnbound(given[n])
       /\ chain[1][n] # NoDef
       /\ ~ chain[1][n].null
       /\ bag[n].kind = chain[1][n].default

(* BindInputs turns no accepted binding into one that is not.               *)
Clean == accepted => \A n \in Named : ~ Violates(n)

IInv ==
  /\ TypeOK
  /\ NothingShared
  /\ \A n \in Names : Mine(form[n], "form")
  /\ Bound
  /\ Clean
  /\ \A r \in Renders : ctx[r].on => Ready(r)

-----------------------------------------------------------------------------
(* Any set of natural numbers has a least element.                          *)
LEMMA LeastElement ==
  ASSUME NEW S, S \subseteq Nat, S # {}
  PROVE  \E i \in S : \A j \in S : i <= j
<1> DEFINE Upto(i) == 1..i
           T == {Upto(i) : i \in S}
           R == StrictSubsetOrdering(Nat)
<1>1. IsWellFoundedOn(R, FiniteSubsetsOf(Nat))
  BY FS_StrictSubsetOrderingWellFounded
<1>2. T \subseteq FiniteSubsetsOf(Nat)
  <2>1. \A i \in S : IsFiniteSet(1..i)
    BY FS_Interval
  <2> QED BY <2>1 DEF FiniteSubsetsOf
<1>3. T # {}
  OBVIOUS
<1>4. PICK t \in T : \A u \in T : ~ (<<u, t>> \in R)
  <2> HIDE DEF T, R
  <2> QED BY <1>1, <1>2, <1>3, WFMin
<1>5. PICK i \in S : t = Upto(i)
  OBVIOUS
<1>6. ASSUME NEW j \in S PROVE i <= j
  <2>1. ~ (<<Upto(j), Upto(i)>> \in R)
    BY <1>4, <1>5
  <2>2. j < i => Upto(j) \subseteq Upto(i) /\ i \in Upto(i) /\ i \notin Upto(j)
    OBVIOUS
  <2>3. Upto(j) \in SUBSET Nat /\ Upto(i) \in SUBSET Nat
    OBVIOUS
  <2>4. j < i => <<Upto(j), Upto(i)>> \in R
    BY <2>2, <2>3 DEF StrictSubsetOrdering
  <2> QED BY <2>1, <2>4
<1> QED BY <1>6

(* A declared name has a declaration, and the rendered document's own comes *)
(* first.                                                                   *)
LEMMA DefType ==
  ASSUME TypeOK
  PROVE  /\ \A n \in Declared : DefOf(n) \in Def \cup {NoDef} /\ DefOf(n) # NoDef
         /\ \A n \in Names : chain[1][n] # NoDef => n \in Declared /\ DefOf(n) = chain[1][n]
         /\ \A n \in Named : DefOf(n) \in Def /\ n \in Names
<1>1. chain \in [1..Depth -> [Names -> Def \cup {NoDef}]]
  BY DEF TypeOK, Document
<1>2. ASSUME NEW n \in Declared
      PROVE  DefOf(n) \in Def \cup {NoDef} /\ DefOf(n) # NoDef
  <2>1. Declaring(n) # {} /\ Declaring(n) \subseteq Nat /\ n \in Names
    BY DEF Declared, Declaring
  <2>2. \E i \in Declaring(n) : \A j \in Declaring(n) : i <= j
    BY <2>1, LeastElement
  <2>3. Nearest(Declaring(n)) \in Declaring(n)
    BY <2>2 DEF Nearest
  <2> QED BY <1>1, <2>1, <2>3 DEF DefOf, Declaring
<1>3. ASSUME NEW n \in Names, chain[1][n] # NoDef
      PROVE  n \in Declared /\ DefOf(n) = chain[1][n]
  <2>1. 1 \in Declaring(n) /\ Declaring(n) \subseteq 1..Depth
    BY <1>3, InputsAssumption DEF Declaring
  <2>2. \A j \in Declaring(n) : 1 <= j
    BY <2>1
  <2>3. Nearest(Declaring(n)) = 1
    <3>1. /\ Nearest(Declaring(n)) \in Declaring(n)
          /\ \A j \in Declaring(n) : Nearest(Declaring(n)) <= j
      BY <2>1, <2>2 DEF Nearest
    <3> QED BY <3>1, <2>1, <2>2
  <2> QED BY <2>1, <2>3 DEF DefOf, Declared
<1> QED BY <1>2, <1>3 DEF Named, Declared

(* What copying, defaulting and sealing make of a value.                    *)
LEMMA ValueFacts ==
  ASSUME NEW v \in Value, NEW d \in Def, NEW p \in Parties
  PROVE  /\ Copy(v, p) \in Value /\ Copy(v, p).kind = v.kind /\ Mine(Copy(v, p), p)
         /\ Defaulted(v, d, p) \in Value
         /\ Defaulted(v, d, p).kind = IF IsUnbound(v) THEN d.default ELSE v.kind
         /\ Mine(v, p) => Mine(Defaulted(v, d, p), p)
         /\ \A s \in Seals : Sealed(v, s) \in Value /\ Sealed(v, s).kind = "sealed"
         /\ d.default \in Kinds \ {"absent", "sealed", "odd"}
<1>1. d.default \in {"nil", "blank", "text"} \cup Collections
  BY DEF Def
<1>2. Of(d.default, "spec") \in Value /\ Of(d.default, "spec").kind = d.default
  BY <1>1 DEF Of, Value, Kinds, Parties, Collections
<1>3. \A w \in Value : Copy(w, p) \in Value /\ Copy(w, p).kind = w.kind /\ Mine(Copy(w, p), p)
  BY DEF Copy, Of, Value, Mine
<1>4. \A s \in Seals : Sealed(v, s) \in Value /\ Sealed(v, s).kind = "sealed"
  BY DEF Sealed, SealedAs, Value, Kinds
<1> QED BY <1>1, <1>2, <1>3, <1>4 DEF Defaulted, Kinds, Collections

(* What a document's declarations make of a binding.                        *)
LEMMA MergedFacts ==
  ASSUME TypeOK, NEW binding \in [Names -> Value], NEW p \in Parties
  PROVE  /\ Merged(binding, p) \in [Names -> Value]
         /\ \A n \in Untrusted : n \in Names /\ Merged(binding, p)[n].kind = "sealed"
         /\ \A n \in Names : Mine(Merged(binding, p)[n], p)
         /\ \A n \in Names \ Named : Merged(binding, p)[n].kind = binding[n].kind
         /\ \A n \in Named \ Untrusted :
              Merged(binding, p)[n].kind =
                IF IsUnbound(binding[n]) THEN DefOf(n).default ELSE binding[n].kind
<1>1. \A n \in Named : DefOf(n) \in Def /\ n \in Names
  BY DefType
<1>2. Untrusted \subseteq Named
  BY DEF Untrusted
<1>3. ASSUME NEW n \in Names
      PROVE  /\ Merged(binding, p)[n] \in Value
             /\ n \in Untrusted => Merged(binding, p)[n].kind = "sealed"
             /\ Mine(Merged(binding, p)[n], p)
             /\ n \notin Named => Merged(binding, p)[n].kind = binding[n].kind
             /\ n \in Named \ Untrusted =>
                  Merged(binding, p)[n].kind =
                    IF IsUnbound(binding[n]) THEN DefOf(n).default ELSE binding[n].kind
  <2> DEFINE v == Copy(binding[n], p)
  <2>1. v \in Value /\ v.kind = binding[n].kind /\ Mine(v, p)
    BY ValueFacts DEF Copy, Of, Value, Mine
  <2>2. IsUnbound(v) <=> IsUnbound(binding[n])
    BY <2>1 DEF IsUnbound
  <2>3. Merged(binding, p)[n] =
          IF n \notin Named THEN v
          ELSE IF n \in Untrusted
               THEN Sealed(Defaulted(v, DefOf(n), p), <<p, n, "input">>)
          ELSE Defaulted(v, DefOf(n), p)
    BY DEF Merged
  <2> HIDE DEF v
  <2>4. CASE n \notin Named
    BY <2>1, <2>3, <2>4, <1>2
  <2>5. CASE n \in Named
    <3>1. DefOf(n) \in Def
      BY <1>1, <2>5
    <3> DEFINE w == Defaulted(v, DefOf(n), p)
    <3>2. /\ w \in Value /\ Mine(w, p)
          /\ w.kind = IF IsUnbound(v) THEN DefOf(n).default ELSE v.kind
      BY <2>1, <3>1, ValueFacts
    <3> HIDE DEF w
    <3> DEFINE s == <<p, n, "input">>
    <3>3. Sealed(w, s) \in Value /\ Sealed(w, s).kind = "sealed"
      <4>1. s \in Seals
        BY DEF Seals
      <4> HIDE DEF s
      <4> QED BY <4>1, <3>1, <3>2, ValueFacts
    <3>4. Mine(Sealed(w, s), p)
      BY <3>3 DEF Mine, Collections
    <3>5. Merged(binding, p)[n] = IF n \in Untrusted THEN Sealed(w, s) ELSE w
      BY <2>3, <2>5 DEF w
    <3> HIDE DEF s
    <3> QED BY <2>1, <2>2, <2>5, <3>2, <3>3, <3>4, <3>5
  <2> QED BY <2>4, <2>5
<1>4. Merged(binding, p) = [n \in Names |-> Merged(binding, p)[n]]
  BY DEF Merged
<1> QED BY <1>1, <1>2, <1>3, <1>4

(* Nothing the host does changes the document or what the caller gave.      *)
LEMMA Fixed ==
  ASSUME [Next]_vars
  PROVE  chain' = chain /\ root' = root /\ above' = above /\ given' = given /\ flat' = flat
BY DEF Next, vars, BindInputs, ValidateInputBinding, DeclaredInputs, EditForm, Start, Finish,
       EditInput

LEMMA AbsentType == Absent \in Value /\ Absent.kind = "absent" /\ "absent" \notin Collections
  BY DEF Absent, Of, Value, Parties, Kinds, Collections

(* What the caller starts from.                                             *)
LEMMA CallersType ==
  ASSUME NEW kinds \in [Names -> Kinds], NEW where \in {"input", "flat"}
  PROVE  Callers(kinds, where) \in [Names -> Value]
<1>1. "caller" \in Parties /\ "sealed" \in Kinds
  BY DEF Parties, Kinds
<1>2. ASSUME NEW k \in Kinds PROVE Of(k, "caller") \in Value
  BY <1>1 DEF Of, Value
<1>3. ASSUME NEW n \in Names PROVE SealedAs(<<"caller", n, where>>) \in Value
  <2>1. <<"caller", n, where>> \in Seals
    BY <1>1 DEF Seals
  <2> QED BY <1>1, <2>1 DEF SealedAs, Value
<1> QED BY <1>2, <1>3 DEF Callers

(* No render has started, and nothing is bound, accepted or changed yet.    *)
LEMMA InitInv == Init => IInv
<1> SUFFICES ASSUME Init PROVE IInv
  OBVIOUS
<1>1. Nothing \in [Names -> Value] /\ \A n \in Names : Nothing[n].kind = "absent"
  BY AbsentType DEF Nothing
<1>2. bag \in [Names -> Value] /\ given = bag
  <2>1. PICK b \in Bags : bag = Callers(b, "input")
    BY DEF Init
  <2>2. b \in [Names -> Kinds]
    BY InputsAssumption DEF Binding
  <2> QED BY <2>1, <2>2, CallersType DEF Init
<1>3. flat \in [Names -> Value]
  <2>1. PICK f \in Flats : flat = Callers(f, "flat")
    BY DEF Init
  <2>2. f \in [Names -> Kinds]
    BY InputsAssumption DEF Binding
  <2> QED BY <2>1, <2>2, CallersType
<1>4. Idle \in Context /\ Idle.on = FALSE
  BY <1>1 DEF Idle, Context
<1>5. TypeOK
  BY <1>1, <1>2, <1>3, <1>4, InputsAssumption DEF Init, TypeOK
<1>6. \A n \in Names : Mine(form[n], "form")
  BY <1>1 DEF Init, Mine, Collections
<1> QED
  BY <1>2, <1>4, <1>5, <1>6 DEF Init, IInv, NothingShared, Bound, Clean

(* The caller's map and the one BindInputs makes of it are merged alike.    *)
LEMMA SameMerge ==
  ASSUME TypeOK, Bound, NEW p \in Parties, NEW n \in Names
  PROVE  Merged(bag, p)[n].kind = Merged(given, p)[n].kind
<1>1. bag \in [Names -> Value] /\ given \in [Names -> Value]
  BY DEF TypeOK
<1>2. CASE n \in Untrusted
  BY <1>1, <1>2, MergedFacts
<1>3. CASE n \in Named \ Untrusted
  <2>1. DefOf(n) \in Def
    BY <1>3, DefType
  <2>2. chain[1][n] # NoDef => DefOf(n) = chain[1][n]
    BY DefType
  <2>3. /\ Merged(bag, p)[n].kind = IF IsUnbound(bag[n]) THEN DefOf(n).default ELSE bag[n].kind
        /\ Merged(given, p)[n].kind = IF IsUnbound(given[n]) THEN DefOf(n).default
                                                           ELSE given[n].kind
    BY <1>1, <1>3, MergedFacts
  <2> QED BY <2>2, <2>3 DEF Bound, IsUnbound
<1>4. CASE n \notin Named
  <2>1. Merged(bag, p)[n].kind = bag[n].kind /\ Merged(given, p)[n].kind = given[n].kind
    BY <1>1, <1>4, MergedFacts
  <2>2. chain[1][n] # NoDef /\ ~ chain[1][n].null => n \in Named
    BY DefType DEF Named
  <2> QED BY <1>4, <2>1, <2>2 DEF Bound
<1> QED BY <1>2, <1>3, <1>4

(* The value under its own name: sealed where the chain says untrusted.     *)
LEMMA FlatFacts ==
  ASSUME TypeOK, NEW input \in [Names -> Value], NEW p \in Parties
  PROVE  /\ FlatSealed(input, p) \in [Names -> Value]
         /\ \A n \in Untrusted : FlatSealed(input, p)[n].kind \in {"absent", "sealed"}
         /\ \A n \in Untrusted : flat[n].kind # "absent" /\ input[n].kind = "sealed"
                                 => FlatSealed(input, p)[n] = input[n]
         /\ \A n \in Untrusted : FlatSealed(input, p)[n].kind = "absent" => flat[n].kind = "absent"
<1>1. flat \in [Names -> Value]
  BY DEF TypeOK
<1>2. ASSUME NEW n \in Names
      PROVE  LET s == Sealed(flat[n], <<p, n, "flat">>) IN s \in Value /\ s.kind = "sealed"
  <2>1. <<p, n, "flat">> \in Seals
    BY DEF Seals
  <2> QED BY <1>1, <2>1 DEF Sealed, SealedAs, Value, Kinds
<1>3. Untrusted \subseteq Names
  BY DEF Untrusted, Named, Declared
<1> QED BY <1>1, <1>2, <1>3 DEF FlatSealed

(* Injection leaves a context that is ready.                                *)
LEMMA StartReady ==
  ASSUME IInv, NEW r \in Renders, Start(r)
  PROVE  /\ ctx' \in [Renders -> Context]
         /\ Ready(r)'
<1>1. /\ bag \in [Names -> Value]
      /\ given \in [Names -> Value]
      /\ flat \in [Names -> Value]
      /\ ctx \in [Renders -> Context]
      /\ TypeOK
      /\ Bound
      /\ r \in Parties
  BY DEF IInv, TypeOK, Parties
<1> DEFINE c == [on |-> TRUE, input |-> Injected(r).input, flat |-> Injected(r).flat,
                 behind |-> Behind]
<1>2. /\ ctx' = [ctx EXCEPT ![r] = c]
      /\ chain' = chain /\ root' = root /\ above' = above /\ given' = given /\ flat' = flat
  BY DEF Start
<1>3. /\ Untrusted' = Untrusted /\ Named' = Named /\ Declared' = Declared
      /\ Merged(given, r)' = Merged(given, r)
  BY <1>2 DEF Untrusted, Named, Declared, Declaring, DefOf, Merged, Copy, Sealed, Defaulted,
              IsUnbound
<1>4. Nothing \in [Names -> Value] /\ \A n \in Names : Nothing[n].kind = "absent"
  BY AbsentType DEF Nothing
<1>9. /\ Behind \in [Names -> Value]
      /\ ~ above \/ root = "other" => \A n \in Names : Behind[n].kind = "absent"
  BY <1>1, <1>4 DEF Behind
<1>5. Untrusted \subseteq Named /\ Named \subseteq Declared /\ Declared \subseteq Names
  BY DEF Untrusted, Named, Declared
<1>6. CASE Declared = {}
  <2>1. [n \in Names |-> Copy(bag[n], r)] \in [Names -> Value]
    BY <1>1 DEF Copy, Of, Value, Parties
  <2>2. \A n \in Names : Mine(Copy(bag[n], r), r)
    BY DEF Mine, Copy, Of
  <2>3. /\ c.input = IF root = "other" THEN Nothing ELSE IF above THEN bag
                     ELSE [n \in Names |-> Copy(bag[n], r)]
        /\ c.flat = flat
        /\ c.on = TRUE
    BY <1>6 DEF Injected
  <2>4. c \in Context
    BY <1>1, <1>4, <1>9, <2>1, <2>3 DEF Context
  <2>5. ~ above => \A n \in Names : Mine(c.input[n], r)
    BY <1>4, <2>2, <2>3 DEF Mine, Collections
  <2>7. c.behind = Behind
    OBVIOUS
  <2>8. root = "map" => \A n \in Names : c.input[n].kind = given[n].kind
    <3>1. \A n \in Names : chain[1][n] = NoDef
      BY <1>1, <1>6, DefType
    <3>2. \A n \in Names : bag[n].kind = given[n].kind
      BY <1>1, <3>1 DEF Bound
    <3>3. \A n \in Names : Copy(bag[n], r).kind = bag[n].kind
      BY DEF Copy, Of
    <3> QED BY <2>3, <3>2, <3>3
  <2> HIDE DEF c
  <2>6. ctx' \in [Renders -> Context] /\ ctx'[r] = c
    BY <1>1, <1>2, <2>4
  <2> QED BY <1>2, <1>3, <1>5, <1>6, <1>9, <2>5, <2>6, <2>7, <2>8 DEF Ready, Mine
<1>7. CASE Declared # {} /\ root = "other"
  <2>1. c.input = Nothing /\ c.flat = FlatSealed(Nothing, r) /\ c.on = TRUE
    BY <1>7 DEF Injected
  <2>2. /\ FlatSealed(Nothing, r) \in [Names -> Value]
        /\ \A n \in Untrusted : FlatSealed(Nothing, r)[n].kind \in {"absent", "sealed"}
        /\ \A n \in Untrusted :
              FlatSealed(Nothing, r)[n].kind = "absent" => flat[n].kind = "absent"
    BY <1>1, <1>4, FlatFacts
  <2>3. c \in Context /\ c.behind = Behind
    BY <1>4, <1>9, <2>1, <2>2 DEF Context
  <2> HIDE DEF c
  <2>4. ctx' \in [Renders -> Context] /\ ctx'[r] = c
    BY <1>1, <1>2, <2>3
  <2> QED
    BY <1>2, <1>3, <1>4, <1>5, <1>7, <1>9, <2>1, <2>2, <2>3, <2>4 DEF Ready, Mine, Collections
<1>8. CASE Declared # {} /\ root # "other"
  <2> DEFINE m == Merged(bag, r)
  <2>1. c.input = m /\ c.flat = FlatSealed(m, r) /\ c.on = TRUE
    BY <1>8 DEF Injected
  <2>2. /\ m \in [Names -> Value]
        /\ \A n \in Untrusted : m[n].kind = "sealed"
        /\ \A n \in Names : Mine(m[n], r)
        /\ \A n \in Named \ Untrusted :
             m[n].kind = IF IsUnbound(bag[n]) THEN DefOf(n).default ELSE bag[n].kind
    BY <1>1, MergedFacts
  <2>3. \A n \in Names : m[n].kind = Merged(given, r)[n].kind
    BY <1>1, SameMerge
  <2>4. \A n \in Named : m[n].kind # "absent"
    <3>1. \A n \in Named : DefOf(n).default # "absent"
      BY <1>1, DefType DEF Def, Collections
    <3> QED BY <1>5, <2>2, <3>1 DEF IsUnbound
  <2>8. \A n \in Names \ Named : m[n].kind = given[n].kind
    BY <1>1, <2>3, MergedFacts
  <2> HIDE DEF m
  <2>5. /\ FlatSealed(m, r) \in [Names -> Value]
        /\ \A n \in Untrusted : FlatSealed(m, r)[n].kind \in {"absent", "sealed"}
        /\ \A n \in Untrusted : flat[n].kind # "absent" => FlatSealed(m, r)[n] = m[n]
        /\ \A n \in Untrusted :
              FlatSealed(m, r)[n].kind = "absent" => flat[n].kind = "absent"
    BY <1>1, <2>2, FlatFacts
  <2>6. c \in Context /\ c.behind = Behind
    BY <1>9, <2>1, <2>2, <2>5 DEF Context
  <2> HIDE DEF c
  <2>7. ctx' \in [Renders -> Context] /\ ctx'[r] = c
    BY <1>1, <1>2, <2>6
  <2>9. /\ \A n \in Names : c.input[n].kind = "absent" <=> n \notin Named /\ given[n].kind = "absent"
        /\ \A n \in Untrusted : /\ c.input[n].kind = "sealed"
                                /\ c.flat[n].kind \in {"absent", "sealed"}
                                /\ c.flat[n].kind = "absent" => flat[n].kind = "absent"
                                /\ flat[n].kind # "absent" => c.flat[n] = c.input[n]
    BY <1>5, <2>1, <2>2, <2>4, <2>5, <2>8
  <2> QED
    BY <1>2, <1>3, <1>9, <2>1, <2>2, <2>3, <2>6, <2>7, <2>9 DEF Ready, Mine
<1> QED BY <1>6, <1>7, <1>8

(* Only who starts or finishes a render touches its context.                *)
LEMMA ReadyKept ==
  ASSUME IInv, [Next]_vars, NEW r \in Renders, ctx'[r] = ctx[r], ctx[r].on
  PROVE  Ready(r)'
<1>1. chain' = chain /\ root' = root /\ above' = above /\ given' = given /\ flat' = flat
  BY Fixed
<1>2. /\ Untrusted' = Untrusted /\ Named' = Named /\ Declared' = Declared
      /\ Merged(given, r)' = Merged(given, r)
  BY <1>1 DEF Untrusted, Named, Declared, Declaring, DefOf, Merged, Copy, Sealed, Defaulted,
              IsUnbound
<1>3. Ready(r)
  BY DEF IInv
<1> QED BY <1>1, <1>2, <1>3 DEF Ready, Mine

(* What BindInputs binds.                                                   *)
LEMMA BindFacts ==
  ASSUME TypeOK, BindInputs
  PROVE  /\ bag' \in [Names -> Value]
         /\ \A n \in Names :
              bag'[n].kind = IF chain[1][n] # NoDef /\ ~ chain[1][n].null /\ IsUnbound(bag[n])
                             THEN chain[1][n].default ELSE bag[n].kind
<1>1. bag \in [Names -> Value] /\ "bound" \in Parties
  BY DEF TypeOK, Parties
<1>2. \A n \in Names : chain[1][n] # NoDef => chain[1][n] \in Def
  BY DefType, InputsAssumption DEF TypeOK, Document
<1>3. ASSUME NEW n \in Names
      PROVE  /\ bag'[n] \in Value
             /\ bag'[n].kind =
                  IF chain[1][n] # NoDef /\ ~ chain[1][n].null /\ IsUnbound(bag[n])
                  THEN chain[1][n].default ELSE bag[n].kind
  <2> DEFINE v == Copy(bag[n], "bound")
  <2>1. v \in Value /\ v.kind = bag[n].kind
    BY <1>1 DEF Copy, Of, Value
  <2>2. bag'[n] = IF chain[1][n] # NoDef /\ ~ chain[1][n].null
                  THEN Defaulted(v, chain[1][n], "bound") ELSE v
    BY DEF BindInputs, Bind
  <2> HIDE DEF v
  <2>3. chain[1][n] # NoDef =>
          /\ Defaulted(v, chain[1][n], "bound") \in Value
          /\ Defaulted(v, chain[1][n], "bound").kind =
               IF IsUnbound(v) THEN chain[1][n].default ELSE v.kind
    BY <1>1, <1>2, <2>1, ValueFacts
  <2> QED BY <2>1, <2>2, <2>3 DEF IsUnbound
<1>4. bag' = [n \in Names |-> bag'[n]]
  BY DEF BindInputs
<1> QED BY <1>3, <1>4

(* The verdict on a binding survives BindInputs.                            *)
LEMMA BindClean ==
  ASSUME IInv, BindInputs
  PROVE  Bound' /\ Clean'
<1>1. /\ TypeOK /\ Bound /\ Clean
      /\ bag \in [Names -> Value]
  BY DEF IInv, TypeOK
<1>2. chain' = chain /\ given' = given /\ accepted' = accepted
  BY DEF BindInputs
<1>3. \A n \in Names :
        bag'[n].kind = IF chain[1][n] # NoDef /\ ~ chain[1][n].null /\ IsUnbound(bag[n])
                       THEN chain[1][n].default ELSE bag[n].kind
  BY <1>1, BindFacts
<1>4. Bound'
  BY <1>1, <1>2, <1>3 DEF Bound, IsUnbound
<1>5. Named' = Named /\ \A n \in Named : DefOf(n)' = DefOf(n)
  BY <1>2 DEF Named, Declared, Declaring, DefOf
<1>6. ASSUME NEW n \in Named, ~ Violates(n)
      PROVE  ~ Violates(n)'
  <2>1. /\ DefOf(n) \in Def /\ n \in Names
        /\ chain[1][n] # NoDef => DefOf(n) = chain[1][n]
    BY <1>1, DefType
  <2>2. DefOf(n).default \in {"nil", "blank", "text"} \cup Collections
    BY <2>1 DEF Def
  <2>3. CASE bag'[n].kind = bag[n].kind
    BY <1>2, <1>6, <2>3 DEF Violates, DefOf, Declaring
  <2>4. CASE bag'[n].kind = DefOf(n).default /\ IsUnbound(bag[n])
    <3>1. ~ (DefOf(n).required /\ DefOf(n).default = "nil")
      BY <1>6, <2>4 DEF Violates, IsUnbound, Satisfies
    <3>2. Allowed(DefOf(n), DefOf(n).default)
      BY <2>2 DEF Allowed, Collections
    <3> QED BY <1>5, <2>4, <3>1, <3>2 DEF Violates
  <2> QED BY <1>3, <2>1, <2>3, <2>4
<1>7. Clean'
  BY <1>1, <1>2, <1>5, <1>6 DEF Clean
<1> QED BY <1>4, <1>7

(* The inductive step, one step below per action.                           *)
LEMMA NextInv == IInv /\ [Next]_vars => IInv'
<1> SUFFICES ASSUME IInv, [Next]_vars PROVE IInv'
  OBVIOUS
<1>1. chain' = chain /\ root' = root /\ above' = above /\ given' = given /\ flat' = flat
  BY Fixed
<1>2. Named' = Named /\ Declared' = Declared /\ \A n \in Named : DefOf(n)' = DefOf(n)
  BY <1>1 DEF Named, Declared, Declaring, DefOf
<1>3. /\ TypeOK /\ NothingShared /\ Bound /\ Clean
      /\ \A n \in Names : Mine(form[n], "form")
      /\ \A r \in Renders : ctx[r].on => Ready(r)
  BY DEF IInv
<1>4. ctx' = ctx => \A r \in Renders : ctx'[r].on => Ready(r)'
  BY ReadyKept
<1>5. bag' = bag => Bound'
  BY <1>1, <1>3 DEF Bound, IsUnbound
<1>6. bag' = bag => \A n \in Named : Violates(n)' = Violates(n)
  BY <1>1 DEF Violates, DefOf, Declaring
<1>7. CASE BindInputs
  <2>1. bag' \in [Names -> Value]
    BY <1>3, <1>7, BindFacts
  <2>2. TypeOK'
    BY <1>3, <1>7, <2>1 DEF TypeOK, BindInputs
  <2>3. NothingShared' /\ \A n \in Names : Mine(form[n], "form")'
    BY <1>1, <1>2, <1>3, <1>7 DEF NothingShared, BindInputs, Mine
  <2>4. Bound' /\ Clean'
    BY <1>7, BindClean
  <2> QED BY <1>4, <1>7, <2>2, <2>3, <2>4 DEF IInv, BindInputs
<1>8. CASE ValidateInputBinding
  <2>1. TypeOK'
    BY <1>3, <1>8 DEF TypeOK, ValidateInputBinding
  <2>2. NothingShared' /\ \A n \in Names : Mine(form[n], "form")'
    BY <1>1, <1>2, <1>3, <1>8 DEF NothingShared, ValidateInputBinding, Mine
  <2>3. Clean'
    BY <1>2, <1>6, <1>8 DEF Clean, ValidateInputBinding
  <2> QED BY <1>4, <1>5, <1>8, <2>1, <2>2, <2>3 DEF IInv, ValidateInputBinding
<1>9. CASE DeclaredInputs
  <2>1. ASSUME NEW n \in Names
        PROVE  form'[n] \in Value /\ Mine(form'[n], "form")
    <3>1. form'[n] = IF n \in Named THEN Copy(Of(DefOf(n).default, "spec"), "form") ELSE Absent
      BY <1>9 DEF DeclaredInputs
    <3>2. Absent \in Value /\ Mine(Absent, "form")
      BY AbsentType DEF Mine
    <3>3. n \in Named => Of(DefOf(n).default, "spec") \in Value
      BY <1>3, DefType DEF Def, Of, Value, Parties, Kinds
    <3>4. \A v \in Value : Copy(v, "form") \in Value /\ Mine(Copy(v, "form"), "form")
      BY DEF Copy, Of, Value, Mine, Parties
    <3> QED BY <3>1, <3>2, <3>3, <3>4
  <2>2. form' \in [Names -> Value]
    BY <1>9, <2>1 DEF DeclaredInputs
  <2>3. TypeOK'
    BY <1>3, <1>9, <2>2 DEF TypeOK, DeclaredInputs
  <2>4. NothingShared'
    BY <1>1, <1>2, <1>3, <1>9 DEF NothingShared, DeclaredInputs
  <2>5. Clean'
    BY <1>2, <1>3, <1>6, <1>9 DEF Clean, DeclaredInputs
  <2> QED BY <1>4, <1>5, <1>9, <2>1, <2>3, <2>4, <2>5 DEF IInv, DeclaredInputs, Mine
<1>10. ASSUME NEW n \in Names, EditForm(n) PROVE IInv'
  <2>1. /\ form[n].kind \in Collections
        /\ changed' = changed \cup {<<form[n].owner, "form">>}
        /\ bag' = bag /\ ctx' = ctx /\ form' = form /\ accepted' = accepted
    BY <1>10 DEF EditForm, Changes
  <2>2. form[n].owner = "form"
    BY <1>3, <2>1 DEF Mine
  <2>3. TypeOK'
    BY <1>1, <1>3, <2>1, <2>2 DEF TypeOK, Parties
  <2>4. NothingShared'
    BY <1>1, <1>2, <1>3, <2>1, <2>2 DEF NothingShared
  <2>5. Clean'
    BY <1>2, <1>3, <1>6, <2>1 DEF Clean
  <2> QED BY <1>3, <1>4, <1>5, <2>1, <2>3, <2>4, <2>5 DEF IInv, Mine
<1>11. ASSUME NEW r \in Renders, Start(r) PROVE IInv'
  <2>1. ctx' \in [Renders -> Context] /\ Ready(r)'
    BY <1>11, StartReady
  <2>2. /\ bag' = bag /\ form' = form /\ accepted' = accepted /\ changed' = changed
        /\ \A q \in Renders \ {r} : ctx'[q] = ctx[q]
    BY <1>3, <1>11 DEF Start, TypeOK
  <2>3. TypeOK'
    BY <1>1, <1>3, <2>1, <2>2 DEF TypeOK
  <2>4. NothingShared' /\ Clean'
    BY <1>1, <1>2, <1>3, <1>6, <2>2 DEF NothingShared, Clean
  <2>5. \A q \in Renders : ctx'[q].on => Ready(q)'
    BY <2>1, <2>2, ReadyKept
  <2> QED BY <1>3, <1>5, <2>2, <2>3, <2>4, <2>5 DEF IInv, Mine
<1>12. ASSUME NEW r \in Renders, Finish(r) PROVE IInv'
  <2>1. Idle \in Context /\ Idle.on = FALSE
    BY AbsentType DEF Idle, Context, Nothing
  <2>2. /\ bag' = bag /\ form' = form /\ accepted' = accepted /\ changed' = changed
        /\ ctx' = [ctx EXCEPT ![r] = Idle]
    BY <1>12 DEF Finish
  <2>3. TypeOK'
    BY <1>1, <1>3, <2>1, <2>2 DEF TypeOK
  <2>4. NothingShared' /\ Clean'
    BY <1>1, <1>2, <1>3, <1>6, <2>2 DEF NothingShared, Clean
  <2>5. \A q \in Renders : ctx'[q].on => ctx'[q] = ctx[q]
    BY <1>3, <2>1, <2>2 DEF TypeOK
  <2>6. \A q \in Renders : ctx'[q].on => Ready(q)'
    BY <2>5, ReadyKept
  <2> QED BY <1>3, <1>5, <2>2, <2>3, <2>4, <2>6 DEF IInv, Mine
<1>13. ASSUME NEW r \in Renders, NEW n \in Names, EditInput(r, n) PROVE IInv'
  <2>1. /\ ctx[r].on
        /\ ctx[r].input[n].kind \in Collections
        /\ changed' = changed \cup {<<ctx[r].input[n].owner, r>>}
        /\ bag' = bag /\ ctx' = ctx /\ form' = form /\ accepted' = accepted
    BY <1>13 DEF EditInput, Changes
  <2>2. (above => Declared # {}) => ctx[r].input[n].owner = r
    BY <1>3, <2>1 DEF Ready, Mine
  <2>3. ctx[r].input[n].owner \in Parties \cup {"none"}
    BY <1>3, <2>1 DEF TypeOK, Context, Value
  <2>4. TypeOK'
    BY <1>1, <1>3, <2>1, <2>3 DEF TypeOK, Parties
  <2>5. NothingShared'
    BY <1>1, <1>2, <1>3, <2>1, <2>2 DEF NothingShared
  <2>6. Clean'
    BY <1>2, <1>3, <1>6, <2>1 DEF Clean
  <2> QED BY <1>3, <1>4, <1>5, <2>1, <2>4, <2>5, <2>6 DEF IInv, Mine
<1>14. CASE UNCHANGED vars
  <2>1. /\ bag' = bag /\ form' = form /\ accepted' = accepted /\ changed' = changed /\ ctx' = ctx
    BY <1>14 DEF vars
  <2>2. TypeOK' /\ NothingShared' /\ Clean'
    BY <1>1, <1>2, <1>3, <1>6, <2>1 DEF TypeOK, NothingShared, Clean
  <2> QED BY <1>3, <1>4, <1>5, <2>1, <2>2 DEF IInv, Mine
<1> QED
  BY <1>7, <1>8, <1>9, <1>10, <1>11, <1>12, <1>13, <1>14 DEF Next

-----------------------------------------------------------------------------
(* The invariant is inductive: every action of a caller, of a form builder  *)
(* and of any render keeps it.                                              *)
THEOREM Invariance == Spec => []IInv
BY InitInv, NextInv, PTL DEF Spec

(* Every variable keeps its type.                                           *)
THEOREM TypeCorrect == Spec => []TypeOK
<1>1. IInv => TypeOK
  BY DEF IInv
<1> QED BY Invariance, <1>1, PTL

(* Nobody ever changes a list another party reads: defaults of a document,  *)
(* the caller's map, other renders' inputs (deepCopyValue's call sites).    *)
THEOREM SharesNothing == Spec => []NothingShared
<1>1. IInv => NothingShared
  BY DEF IInv
<1> QED BY Invariance, <1>1, PTL

(* What its nearest declaration says is untrusted is never answered as it   *)
(* was given, nor is a field of it, except by tags other than exons.var for *)
(* a context whose parent holds the data (mergeInputBinding,                *)
(* sealFlatUntrusted, untrustedOnPath, Context.getPath).                    *)
THEOREM SealsUntrusted == Spec => []UntrustedNeverShown
<1>1. IInv => UntrustedNeverShown
  <2> SUFFICES ASSUME IInv, NEW r \in Renders, ctx[r].on, NEW n \in Untrusted
               PROVE  /\ Answers(r, n) \cap ({"text", "odd"} \cup Collections) = {}
                      /\ "field" \notin VarFields(r, n)
                      /\ ~ above => "field" \notin OtherFields(r, n)
    BY DEF UntrustedNeverShown
  <2>1. /\ ctx[r].input[n].kind \in {"absent", "sealed"}
        /\ ctx[r].flat[n].kind \in {"absent", "sealed"}
        /\ ctx[r].input[n].kind = "absent" => ctx[r].behind[n].kind = "absent"
        /\ ctx[r].flat[n].kind = "absent" => flat[n].kind = "absent"
        /\ ~ above => ctx[r].behind[n].kind = "absent"
    BY DEF IInv, Ready, Untrusted, Named, Declared
  <2>3. /\ flat[n].kind = "absent" => FlatBehind(n).kind = "absent"
        /\ ~ above => FlatBehind(n).kind = "absent"
    BY AbsentType DEF FlatBehind
  <2>4. "field" \notin VarFields(r, n)
    BY <2>1, <2>3 DEF VarFields, VarField, Field
  <2>5. ~ above => "field" \notin OtherFields(r, n)
    BY <2>1, <2>3 DEF OtherFields, Field
  <2>2. /\ InputAnswer(ctx[r].input[n]) \in {"undeclared", "block"}
        /\ VarAnswer(ctx[r].input[n]) = "refused"
        /\ VarAnswer(ctx[r].flat[n]) = "refused"
        /\ ExprAnswer(ctx[r].input[n]) \in {"absent", "placeholder"}
        /\ ExprAnswer(ctx[r].flat[n]) \in {"absent", "placeholder"}
    BY <2>1 DEF InputAnswer, VarAnswer, ExprAnswer
  <2>6. Answers(r, n) \cap ({"text", "odd"} \cup Collections) = {}
    BY <2>2 DEF Answers, Collections
  <2> QED BY <2>4, <2>5, <2>6
<1> QED BY Invariance, <1>1, PTL

(* exons.input reports a name as undeclared exactly when nobody bound it    *)
(* and its nearest declaration is null or there is none (mergeWithAncestors,*)
(* mergeInputBinding, BindInputs).                                          *)
THEOREM DeclaredIsAlwaysPresent == Spec => []DeclaredIsPresent
<1>1. IInv => DeclaredIsPresent
  <2> SUFFICES ASSUME IInv, NEW r \in Renders, ctx[r].on, root = "map", NEW n \in Names
               PROVE  "undeclared" \in Answers(r, n) <=> n \notin Named /\ given[n].kind = "absent"
    BY DEF DeclaredIsPresent
  <2>2. ctx[r].input[n] \in Value /\ ctx[r].flat[n] \in Value
    BY DEF IInv, TypeOK, Context
  <2>3. ctx[r].input[n].kind = "absent" <=> n \notin Named /\ given[n].kind = "absent"
    BY DEF IInv, Ready
  <2>4. "undeclared" \notin Kinds
    BY DEF Kinds, Collections
  <2>5. InputAnswer(ctx[r].input[n]) = "undeclared" <=> ctx[r].input[n].kind = "absent"
    BY <2>2, <2>4 DEF InputAnswer, Value
  <2>6. /\ VarAnswer(ctx[r].input[n]) # "undeclared"
        /\ VarAnswer(ctx[r].flat[n]) # "undeclared"
        /\ ExprAnswer(ctx[r].input[n]) # "undeclared"
        /\ ExprAnswer(ctx[r].flat[n]) # "undeclared"
    BY <2>2, <2>4 DEF VarAnswer, ExprAnswer, Value
  <2> QED BY <2>3, <2>5, <2>6 DEF Answers
<1> QED BY Invariance, <1>1, PTL

(* A render has one seal of an untrusted input: under both of its names, of *)
(* the same maker, and the one a caller made stays the one.                 *)
THEOREM SealsOnce == Spec => []OneSeal
<1>1. IInv => OneSeal
  BY DEF IInv, Ready, OneSeal
<1> QED BY Invariance, <1>1, PTL

(* BindInputs changes nothing of what is rendered.                          *)
THEOREM BindsLikeARender == Spec => []BindingChangesNothing
<1>1. IInv => BindingChangesNothing
  BY DEF IInv, Ready, BindingChangesNothing
<1> QED BY Invariance, <1>1, PTL

(* An accepted binding leaves no hole in a later render: the verdict is on  *)
(* what the caller binds, the render is of what mergeInputBinding makes of  *)
(* it.                                                                      *)
THEOREM AcceptedNeverLeavesAHole == Spec => []AcceptedIsAnswered
<1>1. IInv => AcceptedIsAnswered
  <2> SUFFICES ASSUME IInv, NEW r \in Renders, accepted, ctx[r].on, root = "map",
                      NEW n \in Named \ Untrusted
               PROVE  /\ DefOf(n).required /\ DefOf(n).default = "nil"
                           => Satisfies(ctx[r].input[n].kind)
                      /\ Satisfies(bag[n].kind) => Allowed(DefOf(n), ctx[r].input[n].kind)
    BY DEF AcceptedIsAnswered
  <2>1. /\ TypeOK /\ Bound /\ ~ Violates(n)
        /\ bag \in [Names -> Value] /\ r \in Parties
        /\ n \in Names /\ Declared # {}
    BY DEF IInv, TypeOK, Clean, Parties, Named, Declared
  <2>2. ctx[r].input[n].kind = Merged(given, r)[n].kind
    BY <2>1 DEF IInv, Ready
  <2>3. Merged(given, r)[n].kind = Merged(bag, r)[n].kind
    BY <2>1, SameMerge
  <2>4. Merged(bag, r)[n].kind = IF IsUnbound(bag[n]) THEN DefOf(n).default ELSE bag[n].kind
    BY <2>1, MergedFacts
  <2> QED BY <2>1, <2>2, <2>3, <2>4 DEF Violates, Satisfies, IsUnbound
<1> QED BY Invariance, <1>1, PTL
=============================================================================
