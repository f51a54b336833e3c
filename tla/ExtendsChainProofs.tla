------------------------- MODULE ExtendsChainProofs -------------------------
(***************************************************************************)
(* What holds of renders that walk chains of parents for every registry,    *)
(* every set of documents and names, every MaxDepth and any number of       *)
(* concurrent renders: the chains are bounded, come from the resolver they  *)
(* should come from, and the two walks of one render agree.                 *)
(***************************************************************************)
EXTENDS ExtendsChain, SequenceTheorems, TLAPS

(* A chain within the bounds.                                               *)
Bounded(t, ds) ==
  /\ Len(ds) <= MaxDepth + 1
  /\ Injective(Chain(t, ds))

(* The answer of render r to a lookup of n does not depend on the resolver  *)
(* any more.                                                                *)
Settled(r, n) == n \in Names /\ (scoped[r] => n \in DOMAIN memo[r])

Answer(r, n) == IF scoped[r] THEN memo[r][n] ELSE registry[n]

(* Each parent of ds is what render r would be answered again.              *)
Traced(r, ds) ==
  \A i \in 1..Len(ds) :
     LET name == Chain(tmpl[r], ds)[i] IN
     Settled(r, name) /\ ds[i] = Answer(r, name)

(* The same of the answers of a per-call resolver alone.                    *)
Recalled(r, ds) ==
  \A i \in 1..Len(ds) :
     LET name == Chain(tmpl[r], ds)[i] IN
     name \in DOMAIN memo[r] /\ ds[i] = memo[r][name]

(* Why the inputs walk of render r ended where it did.                      *)
Ended(r) ==
  LET name == Demanded(tmpl[r], specs[r]) IN
  IF ~ cut[r] THEN name = NoParent
  ELSE /\ name \in Names
       /\ \/ OutOfBounds(tmpl[r], specs[r])
          \/ Settled(r, name) /\ Answer(r, name) \in {Absent, Down}

(* The chain ds is where the chain es begins.                               *)
Leads(ds, es) ==
  /\ Len(ds) <= Len(es)
  /\ \A i \in 1..Len(ds) : ds[i] = es[i]

WholeChain(t, ds) == ds # <<>> /\ Demanded(t, ds) = NoParent

(* The merge of render r writes a whole chain.                              *)
MergesWhole(r) ==
  /\ pc[r] \in {"merge", "splice"} => WholeChain(tmpl[r], docs[r])
  /\ found[r] # Unspliced => WholeChain(tmpl[r], found[r])

(* How the walks of a render whose chain is well-formed stand to each other *)
WalksAgree(r) ==
  WellFormed(r) =>
    /\ pc[r] \notin {"idle", "done"} => Traced(r, specs[r])
    /\ pc[r] \in {"resolve", "merge", "splice", "exec"} => Ended(r)
    /\ pc[r] = "resolve" => Leads(docs[r], specs[r])
    /\ pc[r] \in {"merge", "splice", "exec"} => docs[r] = specs[r] /\ ~ cut[r]

RenderInv(r) ==
  /\ Bounded(tmpl[r], specs[r])
  /\ Bounded(tmpl[r], docs[r])
  /\ pc[r] = "idle" => specs[r] = <<>>
  /\ pc[r] \in {"idle", "inputs"} => docs[r] = <<>>
  /\ scoped[r] /\ pc[r] # "done" => Recalled(r, docs[r])
  /\ MergesWhole(r)
  /\ WalksAgree(r)

IInv ==
  /\ TypeOK
  /\ SplicesWholeChains
  /\ \A r \in Renders : RenderInv(r)

-----------------------------------------------------------------------------
(* What a per-call resolver may have answered so far.                       *)
Memories == UNION {[S -> Answers] : S \in SUBSET Names}

LEMMA Learns ==
  ASSUME NEW seen \in Memories, NEW n \in Names, NEW a \in Answers
  PROVE  /\ Learned(seen, n, a) \in Memories
         /\ DOMAIN Learned(seen, n, a) = DOMAIN seen \cup {n}
         /\ \A x \in DOMAIN seen : Learned(seen, n, a)[x] = seen[x]
         /\ n \notin DOMAIN seen => Learned(seen, n, a)[n] = a
<1>1. PICK S \in SUBSET Names : seen \in [S -> Answers]
  BY DEF Memories
<1> DEFINE T == S \cup {n}
           g == [x \in T |-> IF x \in S THEN seen[x] ELSE a]
<1>2. Learned(seen, n, a) = g
  BY <1>1 DEF Learned
<1>3. g \in [T -> Answers] /\ T \in SUBSET Names
  BY <1>1
<1>4. g \in Memories
  BY <1>3 DEF Memories
<1> QED BY <1>1, <1>2, <1>4

(* The furthest document is a document, which asks for a name or for none.  *)
LEMMA FurthestIsDoc ==
  ASSUME NEW t \in Docs, NEW ds \in Seq(Docs)
  PROVE  /\ Furthest(t, ds) \in Docs
         /\ Demanded(t, ds) = Extends[Furthest(t, ds)]
         /\ Demanded(t, ds) \in Names \cup {NoParent}
<1>1. Furthest(t, ds) \in Docs
  BY DEF Furthest
<1> QED BY <1>1, ChainAssumption DEF Demanded

(* The names of a chain: the names of a chain it leads to, and then the one *)
(* its furthest document demands.                                           *)
LEMMA ChainNames ==
  ASSUME NEW t \in Docs, NEW ds \in Seq(Docs)
  PROVE  /\ DOMAIN Chain(t, ds) = 1..Len(ds)
         /\ \A i \in 1..Len(ds) : Chain(t, ds)[i] = IF i = 1 THEN Extends[t] ELSE Extends[ds[i - 1]]
  BY DEF Chain

LEMMA ChainGrows ==
  ASSUME NEW t \in Docs, NEW ds \in Seq(Docs), NEW d \in Docs
  PROVE  /\ Append(ds, d) \in Seq(Docs)
         /\ Len(Append(ds, d)) = Len(ds) + 1
         /\ \A i \in 1..Len(ds) : /\ Append(ds, d)[i] = ds[i]
                                  /\ Chain(t, Append(ds, d))[i] = Chain(t, ds)[i]
         /\ Append(ds, d)[Len(ds) + 1] = d
         /\ Chain(t, Append(ds, d))[Len(ds) + 1] = Demanded(t, ds)
<1> DEFINE es == Append(ds, d)
<1>1. /\ es \in Seq(Docs) /\ Len(es) = Len(ds) + 1
      /\ \A i \in 1..Len(ds) : es[i] = ds[i]
      /\ es[Len(ds) + 1] = d
      /\ Len(ds) \in Nat
  BY AppendProperties, LenProperties
<1> HIDE DEF es
<1>2. ASSUME NEW i \in 1..Len(ds)
      PROVE  Chain(t, es)[i] = Chain(t, ds)[i]
  BY <1>1 DEF Chain
<1>3. Chain(t, es)[Len(ds) + 1] = Demanded(t, ds)
  <2>1. CASE ds = <<>>
    BY <2>1, <1>1 DEF Chain, Demanded, Furthest
  <2>2. CASE ds # <<>>
    <3>1. Len(ds) # 0
      BY <2>2, EmptySeq
    <3> QED BY <3>1, <2>2, <1>1 DEF Chain, Demanded, Furthest
  <2> QED BY <2>1, <2>2
<1> QED BY <1>1, <1>2, <1>3 DEF es

LEMMA LeadsInChain ==
  ASSUME NEW t \in Docs, NEW ds \in Seq(Docs), NEW es \in Seq(Docs), Leads(ds, es)
  PROVE  /\ \A i \in 1..Len(ds) : Chain(t, es)[i] = Chain(t, ds)[i]
         /\ Len(ds) < Len(es) => Chain(t, es)[Len(ds) + 1] = Demanded(t, ds)
         /\ Len(ds) = Len(es) => ds = es
<1>1. Len(ds) \in Nat /\ Len(es) \in Nat
  BY LenProperties
<1>2. ASSUME NEW i \in 1..Len(ds)
      PROVE  Chain(t, es)[i] = Chain(t, ds)[i]
  <2>1. i = 1 \/ i - 1 \in 1..Len(ds)
    BY <1>1
  <2>2. /\ Chain(t, es)[i] = IF i = 1 THEN Extends[t] ELSE Extends[es[i - 1]]
        /\ Chain(t, ds)[i] = IF i = 1 THEN Extends[t] ELSE Extends[ds[i - 1]]
    BY <1>1 DEF Chain, Leads
  <2> QED BY <2>1, <2>2 DEF Leads
<1>3. ASSUME Len(ds) < Len(es)
      PROVE  Chain(t, es)[Len(ds) + 1] = Demanded(t, ds)
  <2>1. CASE ds = <<>>
    BY <2>1, <1>1, <1>3 DEF Chain, Demanded, Furthest
  <2>2. CASE ds # <<>>
    <3>1. Len(ds) # 0
      BY <2>2, EmptySeq
    <3> QED BY <3>1, <2>2, <1>1, <1>3 DEF Chain, Demanded, Furthest, Leads
  <2> QED BY <2>1, <2>2
<1>4. Len(ds) = Len(es) => ds = es
  BY SeqEqual DEF Leads
<1> QED BY <1>2, <1>3, <1>4

(* Taking a parent that is not out of bounds keeps a chain within them.     *)
LEMMA BoundedGrows ==
  ASSUME NEW t \in Docs, NEW ds \in Seq(Docs), NEW d \in Docs,
         Bounded(t, ds), ~ OutOfBounds(t, ds)
  PROVE  Bounded(t, Append(ds, d))
<1> DEFINE es == Append(ds, d)
<1>1. /\ es \in Seq(Docs) /\ Len(es) = Len(ds) + 1
      /\ \A i \in 1..Len(ds) : Chain(t, es)[i] = Chain(t, ds)[i]
      /\ Chain(t, es)[Len(ds) + 1] = Demanded(t, ds)
      /\ Len(ds) \in Nat
  BY ChainGrows, LenProperties
<1> HIDE DEF es
<1>2. Len(es) <= MaxDepth + 1
  BY <1>1, ChainAssumption DEF OutOfBounds
<1>3. \A i \in 1..Len(ds) : Chain(t, es)[i] # Chain(t, es)[Len(ds) + 1]
  BY <1>1 DEF OutOfBounds
<1>4. DOMAIN Chain(t, es) = 1..Len(ds) + 1 /\ DOMAIN Chain(t, ds) = 1..Len(ds)
  BY <1>1 DEF Chain
<1>5. ASSUME NEW i \in 1..Len(ds) + 1, NEW j \in 1..Len(ds) + 1,
             Chain(t, es)[i] = Chain(t, es)[j]
      PROVE  i = j
  <2>1. CASE i \in 1..Len(ds) /\ j \in 1..Len(ds)
    BY <2>1, <1>1, <1>4, <1>5 DEF Bounded, Injective
  <2>2. CASE i = Len(ds) + 1 \/ j = Len(ds) + 1
    BY <2>2, <1>1, <1>3, <1>5
  <2> QED BY <2>1, <2>2, <1>1
<1>6. Injective(Chain(t, es))
  BY <1>4, <1>5 DEF Injective
<1> QED BY <1>2, <1>6 DEF Bounded, es

LEMMA NothingIsBounded ==
  ASSUME NEW t
  PROVE  Bounded(t, <<>>)
<1>1. DOMAIN Chain(t, <<>>) = {} /\ Len(<<>>) = 0
  BY DEF Chain
<1> QED BY <1>1, ChainAssumption DEF Bounded, Injective

LEMMA TemplatesAreDocs == Templates \subseteq Docs /\ Parsed \subseteq Docs /\ Spliceable \subseteq Docs
  BY ChainAssumption DEF Parsed, Spliceable

-----------------------------------------------------------------------------
(* What each step of a render leaves alone.                                 *)
LEMMA StepOfRender ==
  ASSUME TypeOK, NEW r \in Renders, Step(r)
  PROVE  /\ registry' = registry /\ tmpl' = tmpl /\ scoped' = scoped /\ quiet' = quiet
         /\ \A q \in Renders : q # r =>
              /\ pc'[q] = pc[q] /\ memo'[q] = memo[q] /\ specs'[q] = specs[q]
              /\ cut'[q] = cut[q] /\ docs'[q] = docs[q] /\ found'[q] = found[q]
<1> USE DEF TypeOK, renderVars, Goto, Return, Refuse, InputsWalkEnds, Remembered
<1>1. CASE Start(r)
  BY <1>1 DEF Start
<1>2. CASE InputsRootReached(r)
  BY <1>2 DEF InputsRootReached
<1>3. CASE InputsOutOfBounds(r)
  BY <1>3 DEF InputsOutOfBounds
<1>4. CASE InputsParent(r)
  BY <1>4 DEF InputsParent, InputsAsk
<1>5. CASE InputsParentMissing(r)
  BY <1>5 DEF InputsParentMissing, InputsAsk
<1>6. CASE ExtendsUnreadable(r)
  BY <1>6 DEF ExtendsUnreadable
<1>7. CASE ResolveRootReached(r)
  BY <1>7 DEF ResolveRootReached
<1>8. CASE ResolveOutOfBounds(r)
  BY <1>8 DEF ResolveOutOfBounds
<1>9. CASE ResolveParent(r)
  BY <1>9 DEF ResolveParent, ResolverAsk
<1>10. CASE ResolveParentRefused(r)
  BY <1>10 DEF ResolveParentRefused
<1>11. CASE MergeRead(r)
  BY <1>11 DEF MergeRead
<1>12. CASE MergeWrite(r)
  BY <1>12 DEF MergeWrite
<1>13. CASE Exec(r)
  BY <1>13 DEF Exec
<1> QED
  BY <1>1, <1>2, <1>3, <1>4, <1>5, <1>6, <1>7, <1>8, <1>9, <1>10, <1>11, <1>12, <1>13
     DEF Step, Walk

(* What a render knows after it is answered.                                *)
LEMMA AskedAndRemembered ==
  ASSUME TypeOK, NEW r \in Renders, NEW n \in Names, NEW a \in Answers,
         Answered(r, n, a), Remembered(r, n, a), scoped' = scoped, registry' = registry
  PROVE  /\ memo' \in [Renders -> Memories]
         /\ \A x \in DOMAIN memo[r] : x \in DOMAIN memo'[r] /\ memo'[r][x] = memo[r][x]
         /\ Settled(r, n)' /\ Answer(r, n)' = a
<1>1. memo \in [Renders -> Memories] /\ memo[r] \in Memories
  BY DEF TypeOK, Memories
<1>2. /\ Learned(memo[r], n, a) \in Memories
      /\ DOMAIN Learned(memo[r], n, a) = DOMAIN memo[r] \cup {n}
      /\ \A x \in DOMAIN memo[r] : Learned(memo[r], n, a)[x] = memo[r][x]
      /\ n \notin DOMAIN memo[r] => Learned(memo[r], n, a)[n] = a
  BY <1>1, Learns
<1>3. CASE scoped[r]
  <2>1. memo' = [memo EXCEPT ![r] = Learned(memo[r], n, a)]
    BY <1>3 DEF Remembered
  <2>2. memo'[r] = Learned(memo[r], n, a) /\ memo' \in [Renders -> Memories]
    BY <2>1, <1>1, <1>2
  <2> QED BY <1>2, <1>3, <2>2 DEF Settled, Answer, Answered
<1>4. CASE ~ scoped[r]
  BY <1>1, <1>4 DEF Remembered, Settled, Answer, Answered
<1> QED BY <1>3, <1>4

(* The template of a render is a document, and so is what it reached.       *)
LEMMA RenderTypes ==
  ASSUME TypeOK, NEW r \in Renders
  PROVE  /\ tmpl[r] \in Templates /\ tmpl[r] \in Docs
         /\ specs[r] \in Seq(Docs) /\ docs[r] \in Seq(Docs)
         /\ memo[r] \in Memories
  BY TemplatesAreDocs DEF TypeOK, Memories

(* A walk that climbs asks for a name.                                      *)
LEMMA ClimbsToName ==
  ASSUME TypeOK, NEW r \in Renders, NEW ds \in Seq(Docs), Climbs(r, ds)
  PROVE  Demanded(tmpl[r], ds) \in Names
  BY RenderTypes, FurthestIsDoc DEF Climbs

LEMMA AnswersToAWalk ==
  /\ Parsed \subseteq Answers
  /\ Spliceable \subseteq Answers
  BY TemplatesAreDocs DEF Answers

LEMMA ReturnType ==
  ASSUME TypeOK, NEW r \in Renders, NEW outcome,
         outcome \in [outcome : {"pending", "refused", "rendered"},
                      nested : Seq(Docs) \cup {Unspliced}],
         Return(r, outcome),
         UNCHANGED <<registry, spliced, tmpl, scoped, cut, docs, quiet>>
  PROVE  TypeOK'
<1>1. <<>> \in [{} -> Answers] /\ {} \in SUBSET Names
  OBVIOUS
<1>2. <<>> \in Memories
  BY <1>1 DEF Memories
<1>3. memo' \in [Renders -> Memories]
  BY <1>2 DEF TypeOK, Return, Memories
<1>4. <<>> \in Seq(Docs)
  OBVIOUS
<1> QED BY <1>3, <1>4 DEF TypeOK, Return, Goto, Memories

LEMMA InitTypeOK == Init => TypeOK
<1> SUFFICES ASSUME Init PROVE TypeOK
  OBVIOUS
<1>1. <<>> \in [{} -> Answers] /\ {} \in SUBSET Names
  OBVIOUS
<1>2. <<>> \in Memories
  BY <1>1 DEF Memories
<1>3. memo \in [Renders -> Memories]
  BY <1>2 DEF Init
<1>4. <<>> \in Seq(Docs)
  OBVIOUS
<1> QED BY <1>3, <1>4 DEF Init, TypeOK, Pending, Memories

LEMMA StepTypeOK ==
  ASSUME TypeOK, NEW r \in Renders, Step(r)
  PROVE  TypeOK'
<1>0. /\ tmpl[r] \in Templates /\ specs[r] \in Seq(Docs) /\ docs[r] \in Seq(Docs)
      /\ memo \in [Renders -> Memories]
      /\ spliced[tmpl[r]] \in Seq(Docs) \cup {Unspliced}
      /\ found[r] \in Seq(Docs) \cup {Unspliced}
  BY RenderTypes DEF TypeOK, Memories
<1>1. CASE Start(r)
  BY <1>1 DEF Start, TypeOK, Goto, renderVars
<1>2. CASE InputsRootReached(r)
  BY <1>2 DEF InputsRootReached, TypeOK, Goto, InputsWalkEnds
<1>3. CASE InputsOutOfBounds(r)
  BY <1>3 DEF InputsOutOfBounds, TypeOK, Goto, InputsWalkEnds
<1>4. CASE InputsParent(r)
  <2>1. PICK d \in Parsed :
          /\ InputsAsk(r, d)
          /\ specs' = [specs EXCEPT ![r] = Append(specs[r], d)]
          /\ UNCHANGED <<pc, cut>>
    BY <1>4 DEF InputsParent
  <2>2. Demanded(tmpl[r], specs[r]) \in Names /\ d \in Answers /\ d \in Docs
    BY <2>1, <1>0, ClimbsToName, AnswersToAWalk, TemplatesAreDocs DEF InputsAsk
  <2>3. memo' \in [Renders -> Memories]
    BY <2>1, <2>2, AskedAndRemembered DEF InputsAsk
  <2>4. Append(specs[r], d) \in Seq(Docs)
    BY <1>0, <2>2
  <2> QED BY <2>1, <2>3, <2>4 DEF InputsAsk, TypeOK, Memories
<1>5. CASE InputsParentMissing(r)
  <2>1. PICK a \in Answers \ Parsed : InputsAsk(r, a)
    BY <1>5 DEF InputsParentMissing
  <2>2. Demanded(tmpl[r], specs[r]) \in Names
    BY <2>1, <1>0, ClimbsToName DEF InputsAsk
  <2>3. memo' \in [Renders -> Memories]
    BY <2>1, <2>2, AskedAndRemembered DEF InputsAsk
  <2> QED BY <1>5, <2>1, <2>3 DEF InputsParentMissing, InputsWalkEnds, Goto, InputsAsk, TypeOK, Memories
<1>6. CASE ExtendsUnreadable(r)
  BY <1>6, ReturnType DEF ExtendsUnreadable, Refuse, RefusedRender
<1>7. CASE ResolveRootReached(r)
  BY <1>7 DEF ResolveRootReached, TypeOK, Goto, renderVars
<1>8. CASE ResolveOutOfBounds(r)
  BY <1>8, ReturnType DEF ResolveOutOfBounds, Refuse, RefusedRender
<1>9. CASE ResolveParent(r)
  <2>1. PICK d \in Spliceable :
          /\ ResolverAsk(r, d)
          /\ Remembered(r, Demanded(tmpl[r], docs[r]), d)
          /\ docs' = [docs EXCEPT ![r] = Append(docs[r], d)]
          /\ UNCHANGED <<registry, spliced, pc, tmpl, scoped, specs, cut, found, result, quiet>>
    BY <1>9 DEF ResolveParent
  <2>2. Demanded(tmpl[r], docs[r]) \in Names /\ d \in Answers /\ d \in Docs
    BY <2>1, <1>0, ClimbsToName, AnswersToAWalk, TemplatesAreDocs DEF ResolverAsk
  <2>3. memo' \in [Renders -> Memories]
    BY <2>1, <2>2, AskedAndRemembered DEF ResolverAsk
  <2>4. Append(docs[r], d) \in Seq(Docs)
    BY <1>0, <2>2
  <2> QED BY <2>1, <2>3, <2>4 DEF TypeOK, Memories
<1>10. CASE ResolveParentRefused(r)
  BY <1>10, ReturnType DEF ResolveParentRefused, Refuse, RefusedRender
<1>11. CASE MergeRead(r)
  BY <1>11, <1>0 DEF MergeRead, TypeOK, Goto
<1>12. CASE MergeWrite(r)
  BY <1>12, <1>0 DEF MergeWrite, TypeOK, Goto, renderVars
<1>13. CASE Exec(r)
  <2>1. [outcome |-> "rendered", nested |-> spliced[tmpl[r]]]
          \in [outcome : {"pending", "refused", "rendered"},
               nested : Seq(Docs) \cup {Unspliced}]
    BY <1>0
  <2> QED BY <1>13, <2>1, ReturnType DEF Exec
<1> QED
  BY <1>1, <1>2, <1>3, <1>4, <1>5, <1>6, <1>7, <1>8, <1>9, <1>10, <1>11, <1>12, <1>13
     DEF Step, Walk

(* A registration changes the registry, and what is said of renders that    *)
(* have begun.                                                              *)
LEMMA RegistrationIs ==
  ASSUME NEW n \in Names,
         UnregisterTemplate(n) \/ \E d \in Docs : RegisterTemplate(n, d)
  PROVE  \E d \in Parsed \cup {Absent} : Registered(n, d)
  BY DEF UnregisterTemplate, RegisterTemplate

LEMMA NextTypeOK ==
  ASSUME TypeOK, [Next]_vars
  PROVE  TypeOK'
<1>1. CASE UNCHANGED vars
  BY <1>1 DEF vars, renderVars, TypeOK
<1>2. ASSUME NEW r \in Renders, Step(r) PROVE TypeOK'
  BY <1>2, StepTypeOK
<1>3. ASSUME NEW n \in Names, NEW d \in Parsed \cup {Absent}, Registered(n, d)
      PROVE  TypeOK'
  BY <1>3 DEF Registered, TypeOK, renderVars
<1> QED BY <1>1, <1>2, <1>3, RegistrationIs DEF Next

(* Every variable has its type: what the walks take are documents, and what *)
(* is remembered of a per-call resolver are answers to names.               *)
THEOREM TypeCorrect == Spec => []TypeOK
<1>1. Init => TypeOK
  BY InitTypeOK
<1>2. TypeOK /\ [Next]_vars => TypeOK'
  BY NextTypeOK
<1> QED BY <1>1, <1>2, PTL DEF Spec

-----------------------------------------------------------------------------
(* A render is not disturbed by the steps of another, nor by a registration *)
LEMMA OthersKeep ==
  ASSUME TypeOK, NEW r \in Renders, Step(r), NEW q \in Renders, q # r, RenderInv(q)
  PROVE  RenderInv(q)'
<1>1. /\ registry' = registry /\ tmpl' = tmpl /\ scoped' = scoped /\ quiet' = quiet
      /\ pc'[q] = pc[q] /\ memo'[q] = memo[q] /\ specs'[q] = specs[q]
      /\ cut'[q] = cut[q] /\ docs'[q] = docs[q] /\ found'[q] = found[q]
  BY StepOfRender
<1> QED
  BY <1>1 DEF RenderInv, Bounded, Recalled, MergesWhole, WalksAgree, WellFormed,
              Traced, Ended, Settled, Answer

(* A render from the registry is well-formed only while nothing is          *)
(* registered; one that has not begun knows nothing yet.                    *)
LEMMA RegistrationKeeps ==
  ASSUME TypeOK, NEW n \in Names, NEW d \in Parsed \cup {Absent}, Registered(n, d),
         NEW q \in Renders, RenderInv(q)
  PROVE  RenderInv(q)'
<1>1. /\ UNCHANGED <<tmpl, scoped, pc, memo, specs, cut, docs, found>>
      /\ quiet'[q] = (quiet[q] /\ pc[q] = "idle")
  BY DEF Registered, renderVars
<1>2. CASE pc[q] = "idle"
  BY <1>1, <1>2 DEF RenderInv, Bounded, Recalled, MergesWhole, WalksAgree
<1>3. CASE pc[q] # "idle"
  <2>1. CASE scoped[q]
    BY <1>1, <1>3, <2>1 DEF RenderInv, Bounded, Recalled, MergesWhole, WalksAgree, WellFormed,
              Traced, Ended, Settled, Answer
  <2>2. CASE ~ scoped[q]
    <3>1. ~ WellFormed(q)'
      BY <1>1, <1>3, <2>2 DEF WellFormed
    <3> QED BY <1>1, <3>1, <2>2 DEF RenderInv, Bounded, Recalled, MergesWhole, WalksAgree
  <2> QED BY <2>1, <2>2
<1> QED BY <1>2, <1>3

-----------------------------------------------------------------------------
(* The steps of a render, one at a time.                                    *)
LEMMA ReturnKeeps ==
  ASSUME TypeOK, NEW r \in Renders, RenderInv(r), NEW outcome, Return(r, outcome),
         UNCHANGED <<tmpl, docs>>
  PROVE  RenderInv(r)'
<1>1. pc'[r] = "done" /\ specs'[r] = <<>> /\ found'[r] = Unspliced
  BY DEF Return, Goto, TypeOK
<1>2. Bounded(tmpl[r], <<>>)
  BY NothingIsBounded
<1>3. Bounded(tmpl[r], specs[r])'
  BY <1>1, <1>2
<1> QED BY <1>1, <1>3 DEF RenderInv, Bounded, MergesWhole, WalksAgree

LEMMA StartKeeps ==
  ASSUME TypeOK, NEW r \in Renders, RenderInv(r), Start(r)
  PROVE  RenderInv(r)'
<1>1. /\ pc[r] = "idle" /\ pc'[r] = "inputs"
      /\ UNCHANGED <<registry, tmpl, scoped, memo, specs, cut, docs, found, quiet>>
  BY DEF Start, Goto, TypeOK, renderVars
<1>2. specs[r] = <<>> /\ docs[r] = <<>>
  BY <1>1 DEF RenderInv
<1>3. Traced(r, specs[r])'
  BY <1>1, <1>2 DEF Traced
<1> QED BY <1>1, <1>2, <1>3 DEF RenderInv, Bounded, Recalled, MergesWhole, WalksAgree

(* The inputs walk of a render that knows no more than before ends.         *)
LEMMA InputsEndKeeps ==
  ASSUME TypeOK, NEW r \in Renders, RenderInv(r), pc[r] = "inputs", pc'[r] = "resolve",
         UNCHANGED <<registry, tmpl, scoped, memo, specs, docs, found, quiet>>,
         WellFormed(r) /\ Traced(r, specs[r]) => Ended(r)'
  PROVE  RenderInv(r)'
<1>1. docs[r] = <<>> /\ specs[r] \in Seq(Docs)
  BY RenderTypes DEF RenderInv
<1>2. Leads(docs[r], specs[r])'
  BY <1>1, LenProperties DEF Leads
<1>3. ASSUME WellFormed(r)' PROVE Traced(r, specs[r])' /\ Ended(r)'
  <2>1. WellFormed(r) /\ Traced(r, specs[r])
    BY <1>3 DEF WellFormed, RenderInv, WalksAgree
  <2>2. Traced(r, specs[r])'
    BY <2>1 DEF Traced, Settled, Answer
  <2> QED BY <2>1, <2>2
<1>4. WalksAgree(r)'
  BY <1>2, <1>3 DEF WalksAgree
<1>5. MergesWhole(r)'
  BY DEF RenderInv, MergesWhole
<1> QED BY <1>1, <1>4, <1>5 DEF RenderInv, Bounded, Recalled

(* On a well-formed chain every document reached is good.                   *)
LEMMA GoodChain ==
  ASSUME TypeOK, NEW r \in Renders, WellFormed(r), NEW ds \in Seq(Docs), Traced(r, ds)
  PROVE  Furthest(tmpl[r], ds) \in Good
<1>1. CASE ds = <<>>
  BY <1>1 DEF Furthest, WellFormed
<1>2. CASE ds # <<>>
  <2>1. Len(ds) \in 1..Len(ds) /\ ds[Len(ds)] \in Docs
    BY <1>2, EmptySeq, LenProperties, ElementOfSeq
  <2> DEFINE name == Chain(tmpl[r], ds)[Len(ds)]
  <2>2. Settled(r, name) /\ ds[Len(ds)] = Answer(r, name)
    BY <2>1 DEF Traced
  <2>3. Answer(r, name) \in Good \cup {Absent, Down}
    <3>1. CASE scoped[r]
      BY <2>2, <3>1 DEF Answer, Settled, WellFormed, Range
    <3>2. CASE ~ scoped[r]
      BY <2>2, <3>2 DEF Answer, Settled, WellFormed, Range, TypeOK
    <3> QED BY <3>1, <3>2
  <2> QED BY <1>2, <2>1, <2>2, <2>3, ChainAssumption DEF Furthest
<1> QED BY <1>1, <1>2

LEMMA InputsRootReachedKeeps ==
  ASSUME TypeOK, NEW r \in Renders, RenderInv(r), InputsRootReached(r)
  PROVE  RenderInv(r)'
<1> DEFINE last == Furthest(tmpl[r], specs[r])
<1>1. /\ pc[r] = "inputs" /\ pc'[r] = "resolve"
      /\ cut'[r] = (Form[last] = "unreadable" /\ specs[r] = <<>>)
      /\ Extends[last] = NoParent \/ Form[last] = "unreadable"
      /\ UNCHANGED <<registry, tmpl, scoped, memo, specs, docs, found, quiet>>
  BY DEF InputsRootReached, InputsWalkEnds, Goto, TypeOK
<1>2. ASSUME WellFormed(r), Traced(r, specs[r]) PROVE Ended(r)'
  <2>1. last \in Good
    BY <1>2, RenderTypes, GoodChain
  <2>2. ~ cut'[r] /\ Extends[last] = NoParent
    BY <1>1, <2>1 DEF Good
  <2> QED BY <1>1, <2>2 DEF Ended, Demanded
<1> QED BY <1>1, <1>2, InputsEndKeeps

LEMMA InputsOutOfBoundsKeeps ==
  ASSUME TypeOK, NEW r \in Renders, RenderInv(r), InputsOutOfBounds(r)
  PROVE  RenderInv(r)'
<1>1. /\ pc[r] = "inputs" /\ pc'[r] = "resolve" /\ cut'[r]
      /\ Climbs(r, specs[r]) /\ OutOfBounds(tmpl[r], specs[r])
      /\ UNCHANGED <<registry, tmpl, scoped, memo, specs, docs, found, quiet>>
  BY DEF InputsOutOfBounds, InputsWalkEnds, Goto, TypeOK
<1>2. Demanded(tmpl[r], specs[r]) \in Names
  BY <1>1, RenderTypes, ClimbsToName
<1>3. Ended(r)'
  BY <1>1, <1>2 DEF Ended
<1> QED BY <1>1, <1>3, InputsEndKeeps

(* A render that learns an answer: it was well-formed if it is now, and     *)
(* what it was answered before it would be answered again.                  *)
LEMMA KnowingMore ==
  ASSUME TypeOK, NEW r \in Renders,
         UNCHANGED <<registry, tmpl, scoped, quiet>>,
         \A x \in DOMAIN memo[r] : x \in DOMAIN memo'[r] /\ memo'[r][x] = memo[r][x]
  PROVE  /\ WellFormed(r)' => WellFormed(r)
         /\ \A x : Settled(r, x) => Settled(r, x)' /\ Answer(r, x)' = Answer(r, x)
<1>1. WellFormed(r)' => WellFormed(r)
  BY DEF WellFormed, Range
<1>2. ASSUME NEW x, Settled(r, x)
      PROVE  Settled(r, x)' /\ Answer(r, x)' = Answer(r, x)
  BY <1>2 DEF Settled, Answer
<1> QED BY <1>1, <1>2

(* The next parent of a traced chain is the answer to what it demands.      *)
LEMMA TracedGrows ==
  ASSUME TypeOK, NEW r \in Renders, NEW ds \in Seq(Docs), NEW d \in Docs,
         Traced(r, ds), UNCHANGED <<registry, tmpl, scoped, quiet>>,
         \A x \in DOMAIN memo[r] : x \in DOMAIN memo'[r] /\ memo'[r][x] = memo[r][x],
         Settled(r, Demanded(tmpl[r], ds))', Answer(r, Demanded(tmpl[r], ds))' = d
  PROVE  Traced(r, Append(ds, d))'
<1> DEFINE es == Append(ds, d)
<1>1. /\ es \in Seq(Docs) /\ Len(es) = Len(ds) + 1
      /\ \A i \in 1..Len(ds) : es[i] = ds[i] /\ Chain(tmpl[r], es)[i] = Chain(tmpl[r], ds)[i]
      /\ es[Len(ds) + 1] = d
      /\ Chain(tmpl[r], es)[Len(ds) + 1] = Demanded(tmpl[r], ds)
      /\ Len(ds) \in Nat
  BY RenderTypes, ChainGrows, LenProperties
<1> HIDE DEF es
<1>2. ASSUME NEW i \in 1..Len(ds) + 1
      PROVE  Settled(r, Chain(tmpl[r], es)[i])' /\ es[i] = Answer(r, Chain(tmpl[r], es)[i])'
  <2>1. CASE i \in 1..Len(ds)
    <3>1. Settled(r, Chain(tmpl[r], ds)[i]) /\ ds[i] = Answer(r, Chain(tmpl[r], ds)[i])
      BY <2>1 DEF Traced
    <3> QED BY <1>1, <2>1, <3>1 DEF Settled, Answer
  <2>2. CASE i = Len(ds) + 1
    BY <1>1, <2>2 DEF Settled, Answer
  <2> QED BY <2>1, <2>2, <1>1
<1>3. Traced(r, es)'
  BY <1>1, <1>2 DEF Traced, Settled, Answer
<1> QED BY <1>3 DEF es

LEMMA InputsParentKeeps ==
  ASSUME TypeOK, NEW r \in Renders, RenderInv(r), InputsParent(r)
  PROVE  RenderInv(r)'
<1>1. PICK d \in Parsed :
        /\ InputsAsk(r, d)
        /\ specs' = [specs EXCEPT ![r] = Append(specs[r], d)]
        /\ UNCHANGED <<pc, cut>>
  BY DEF InputsParent
<1> PICK ds, n : ds = specs[r] /\ n = Demanded(tmpl[r], specs[r])
  OBVIOUS
<1>2. /\ pc[r] = "inputs" /\ Climbs(r, specs[r]) /\ ~ OutOfBounds(tmpl[r], specs[r])
      /\ Answered(r, n, d) /\ Remembered(r, n, d)
      /\ UNCHANGED <<registry, tmpl, scoped, docs, found, quiet>>
  BY <1>1 DEF InputsAsk
<1>3. /\ tmpl[r] \in Docs /\ specs[r] \in Seq(Docs) /\ d \in Docs /\ n \in Names /\ d \in Answers
      /\ specs'[r] = Append(ds, d)
  BY <1>1, <1>2, RenderTypes, ClimbsToName, AnswersToAWalk, TemplatesAreDocs DEF TypeOK
<1>4. /\ \A x \in DOMAIN memo[r] : x \in DOMAIN memo'[r] /\ memo'[r][x] = memo[r][x]
      /\ Settled(r, n)' /\ Answer(r, n)' = d
  BY <1>2, <1>3, AskedAndRemembered
<1>5. docs[r] = <<>>
  BY <1>2 DEF RenderInv
<1>6. Bounded(tmpl[r], specs[r])'
  <2>1. Bounded(tmpl[r], Append(specs[r], d))
    BY <1>2, <1>3, BoundedGrows DEF RenderInv
  <2> QED BY <1>2, <1>3, <2>1
<1>7. ASSUME WellFormed(r)' PROVE Traced(r, specs[r])'
  <2>1. Traced(r, ds)
    BY <1>2, <1>4, <1>7, KnowingMore DEF RenderInv, WalksAgree
  <2>2. Traced(r, Append(ds, d))'
    BY <1>2, <1>3, <1>4, <2>1, TracedGrows
  <2> QED BY <1>2, <1>3, <2>2 DEF Traced, Settled, Answer
<1>8. WalksAgree(r)'
  BY <1>1, <1>2, <1>7 DEF WalksAgree
<1>9. Recalled(r, docs[r])'
  BY <1>2, <1>5 DEF Recalled
<1> QED BY <1>1, <1>2, <1>5, <1>6, <1>8, <1>9 DEF RenderInv, Bounded, MergesWhole

LEMMA InputsParentMissingKeeps ==
  ASSUME TypeOK, NEW r \in Renders, RenderInv(r), InputsParentMissing(r)
  PROVE  RenderInv(r)'
<1>1. PICK a \in Answers \ Parsed : InputsAsk(r, a)
  BY DEF InputsParentMissing
<1> DEFINE n == Demanded(tmpl[r], specs[r])
<1>2. /\ pc[r] = "inputs" /\ pc'[r] = "resolve" /\ cut'[r]
      /\ Climbs(r, specs[r])
      /\ Answered(r, n, a) /\ Remembered(r, n, a)
      /\ UNCHANGED <<registry, tmpl, scoped, specs, docs, found, quiet>>
  BY <1>1 DEF InputsAsk, InputsParentMissing, InputsWalkEnds, Goto, TypeOK
<1>3. n \in Names /\ specs[r] \in Seq(Docs)
  BY <1>2, RenderTypes, ClimbsToName
<1>4. /\ \A x \in DOMAIN memo[r] : x \in DOMAIN memo'[r] /\ memo'[r][x] = memo[r][x]
      /\ Settled(r, n)' /\ Answer(r, n)' = a
  BY <1>1, <1>2, <1>3, AskedAndRemembered
<1>5. docs[r] = <<>>
  BY <1>2 DEF RenderInv
<1>6. ASSUME WellFormed(r)' PROVE Traced(r, specs[r])' /\ Ended(r)'
  <2>1. Traced(r, specs[r])
    BY <1>2, <1>4, <1>6, KnowingMore DEF RenderInv, WalksAgree
  <2>2. Traced(r, specs[r])'
    BY <1>2, <1>4, <2>1, KnowingMore DEF Traced, Settled, Answer
  <2>3. a \in Good \cup {Absent, Down}
    <3>1. CASE scoped[r]
      BY <1>2, <1>4, <1>6, <3>1 DEF Answer, Settled, WellFormed, Range
    <3>2. CASE ~ scoped[r]
      BY <1>2, <1>3, <1>6, <3>2 DEF Answered, WellFormed, Range, TypeOK
    <3> QED BY <3>1, <3>2
  <2>4. a \in {Absent, Down}
    BY <1>1, <2>3 DEF Good, Parsed
  <2>5. Ended(r)'
    BY <1>2, <1>3, <1>4, <2>4 DEF Ended, Settled, Answer
  <2> QED BY <2>2, <2>5
<1>7. Leads(docs[r], specs[r])'
  BY <1>2, <1>3, <1>5, LenProperties DEF Leads
<1>8. WalksAgree(r)'
  BY <1>2, <1>6, <1>7 DEF WalksAgree
<1>9. Recalled(r, docs[r])'
  BY <1>2, <1>5 DEF Recalled
<1> QED BY <1>2, <1>5, <1>8, <1>9 DEF RenderInv, Bounded, MergesWhole

(* Where the resolver is behind the inputs walk, the parent it demands is   *)
(* the next one that walk took, and what it would be answered.              *)
LEMMA Behind ==
  ASSUME TypeOK, NEW r \in Renders, Traced(r, specs[r]), Leads(docs[r], specs[r]),
         docs[r] # specs[r]
  PROVE  LET n == Demanded(tmpl[r], docs[r]) IN
         /\ Len(docs[r]) < Len(specs[r])
         /\ n = Chain(tmpl[r], specs[r])[Len(docs[r]) + 1]
         /\ Settled(r, n)
         /\ Answer(r, n) = specs[r][Len(docs[r]) + 1]
         /\ Answer(r, n) \in Docs
<1>1. /\ tmpl[r] \in Docs /\ specs[r] \in Seq(Docs) /\ docs[r] \in Seq(Docs)
      /\ Len(docs[r]) \in Nat /\ Len(specs[r]) \in Nat
  BY RenderTypes, LenProperties
<1>2. Len(docs[r]) < Len(specs[r])
  BY <1>1, LeadsInChain DEF Leads
<1>3. Demanded(tmpl[r], docs[r]) = Chain(tmpl[r], specs[r])[Len(docs[r]) + 1]
  BY <1>1, <1>2, LeadsInChain
<1>4. Len(docs[r]) + 1 \in 1..Len(specs[r])
  BY <1>1, <1>2
<1>5. specs[r][Len(docs[r]) + 1] \in Docs
  BY <1>1, <1>4, ElementOfSeq
<1> QED BY <1>2, <1>3, <1>4, <1>5 DEF Traced

LEMMA ResolveRootReachedKeeps ==
  ASSUME TypeOK, NEW r \in Renders, RenderInv(r), ResolveRootReached(r)
  PROVE  RenderInv(r)'
<1>1. /\ pc[r] = "resolve" /\ pc'[r] = IF docs[r] = <<>> THEN "exec" ELSE "merge"
      /\ Demanded(tmpl[r], docs[r]) = NoParent
      /\ UNCHANGED <<registry, tmpl, scoped, memo, specs, cut, docs, found, quiet>>
  BY DEF ResolveRootReached, Goto, TypeOK, renderVars
<1>2. ASSUME WellFormed(r)
      PROVE  docs[r] = specs[r] /\ ~ cut[r] /\ Traced(r, specs[r]) /\ Ended(r)
  <2>1. Traced(r, specs[r]) /\ Ended(r) /\ Leads(docs[r], specs[r])
    BY <1>1, <1>2 DEF RenderInv, WalksAgree
  <2>2. NoParent \notin Names
    BY ChainAssumption
  <2>3. docs[r] = specs[r]
    BY <1>1, <2>1, <2>2, Behind DEF Settled
  <2>4. ~ cut[r]
    BY <1>1, <2>1, <2>2, <2>3 DEF Ended
  <2> QED BY <2>1, <2>3, <2>4
<1>3. ASSUME WellFormed(r)'
      PROVE  /\ Traced(r, specs[r])' /\ Ended(r)' /\ (docs[r] = specs[r])' /\ (~ cut[r])'
  <2>1. WellFormed(r)
    BY <1>1, <1>3 DEF WellFormed
  <2> QED BY <1>1, <1>2, <2>1 DEF Traced, Ended, Settled, Answer
<1>4. WalksAgree(r)'
  BY <1>1, <1>3 DEF WalksAgree
<1>5. MergesWhole(r)'
  BY <1>1 DEF RenderInv, MergesWhole, WholeChain
<1> QED BY <1>1, <1>4, <1>5 DEF RenderInv, Bounded, Recalled

LEMMA ResolveParentKeeps ==
  ASSUME TypeOK, NEW r \in Renders, RenderInv(r), ResolveParent(r)
  PROVE  RenderInv(r)'
<1> PICK ds, es, n :
      ds = docs[r] /\ es = specs[r] /\ n = Demanded(tmpl[r], docs[r])
  OBVIOUS
<1>1. PICK d \in Spliceable :
        /\ ResolverAsk(r, d)
        /\ Remembered(r, n, d)
        /\ docs' = [docs EXCEPT ![r] = Append(ds, d)]
        /\ UNCHANGED <<registry, spliced, pc, tmpl, scoped, specs, cut, found, result, quiet>>
  BY DEF ResolveParent
<1>2. /\ pc[r] = "resolve" /\ pc'[r] = "resolve"
      /\ Climbs(r, ds) /\ ~ OutOfBounds(tmpl[r], ds) /\ Answered(r, n, d)
  BY <1>1 DEF ResolverAsk
<1>3. /\ tmpl[r] \in Docs /\ ds \in Seq(Docs) /\ es \in Seq(Docs) /\ d \in Docs
      /\ n \in Names /\ d \in Answers
      /\ docs'[r] = Append(ds, d) /\ specs'[r] = es
  BY <1>1, <1>2, RenderTypes, ClimbsToName, AnswersToAWalk, TemplatesAreDocs DEF TypeOK
<1>4. /\ \A x \in DOMAIN memo[r] : x \in DOMAIN memo'[r] /\ memo'[r][x] = memo[r][x]
      /\ Settled(r, n)' /\ Answer(r, n)' = d
  BY <1>1, <1>2, <1>3, AskedAndRemembered
<1>5. /\ Len(Append(ds, d)) = Len(ds) + 1
      /\ \A i \in 1..Len(ds) : /\ Append(ds, d)[i] = ds[i]
                               /\ Chain(tmpl[r], Append(ds, d))[i] = Chain(tmpl[r], ds)[i]
      /\ Append(ds, d)[Len(ds) + 1] = d
      /\ Chain(tmpl[r], Append(ds, d))[Len(ds) + 1] = n
      /\ Len(ds) \in Nat /\ Len(es) \in Nat
  BY <1>3, ChainGrows, LenProperties
<1>6. Bounded(tmpl[r], docs[r])' /\ Bounded(tmpl[r], specs[r])'
  <2>1. Bounded(tmpl[r], Append(ds, d)) /\ Bounded(tmpl[r], es)
    BY <1>2, <1>3, BoundedGrows DEF RenderInv
  <2> QED BY <1>1, <1>3, <2>1
<1>7. ASSUME scoped'[r] PROVE Recalled(r, docs[r])'
  <2>1. Recalled(r, ds) /\ n \in DOMAIN memo'[r] /\ memo'[r][n] = d
    BY <1>1, <1>2, <1>4, <1>7 DEF RenderInv, Settled, Answer
  <2>2. ASSUME NEW i \in 1..Len(ds) + 1
        PROVE  LET name == Chain(tmpl[r], Append(ds, d))[i] IN
               name \in DOMAIN memo'[r] /\ Append(ds, d)[i] = memo'[r][name]
    <3>1. CASE i \in 1..Len(ds)
      BY <1>4, <1>5, <2>1, <3>1 DEF Recalled
    <3>2. CASE i = Len(ds) + 1
      BY <1>5, <2>1, <3>2
    <3> QED BY <3>1, <3>2, <1>5
  <2> QED BY <1>1, <1>3, <1>5, <2>2 DEF Recalled
<1>8. ASSUME WellFormed(r)'
      PROVE  Traced(r, specs[r])' /\ Ended(r)' /\ Leads(docs[r], specs[r])'
  <2>1. WellFormed(r) /\ Traced(r, es) /\ Ended(r) /\ Leads(ds, es)
    BY <1>1, <1>2, <1>4, <1>8, KnowingMore DEF RenderInv, WalksAgree
  <2>2. Traced(r, es)'
    BY <1>1, <1>4, <2>1, KnowingMore DEF Traced, Settled, Answer
  <2>3. Ended(r)'
    BY <1>1, <1>4, <2>1, KnowingMore DEF Ended, Settled, Answer
  <2>4. d \notin {Absent, Down}
    BY <1>3, ChainAssumption
  <2>5. ds # es
    <3> SUFFICES ASSUME ds = es PROVE FALSE
      OBVIOUS
    <3>1. n # NoParent /\ ~ OutOfBounds(tmpl[r], es) /\ n = Demanded(tmpl[r], es)
      BY <1>2, <1>3, ChainAssumption
    <3>2. Settled(r, n) /\ Answer(r, n) \in {Absent, Down}
      BY <2>1, <3>1 DEF Ended
    <3>3. Answer(r, n)' = Answer(r, n)
      BY <1>1, <1>4, <3>2, KnowingMore
    <3> QED BY <1>4, <2>4, <3>2, <3>3
  <2>6. /\ Len(ds) < Len(es) /\ Settled(r, n)
        /\ Answer(r, n) = es[Len(ds) + 1]
    BY <2>1, <2>5, Behind
  <2>7. d = es[Len(ds) + 1]
    BY <1>1, <1>4, <2>6, KnowingMore
  <2>8. Leads(Append(ds, d), es)
    BY <1>5, <2>1, <2>6, <2>7 DEF Leads
  <2> QED BY <1>1, <1>3, <2>2, <2>3, <2>8 DEF Traced
<1>9. WalksAgree(r)'
  BY <1>1, <1>2, <1>8 DEF WalksAgree
<1>10. MergesWhole(r)'
  BY <1>1, <1>2 DEF RenderInv, MergesWhole
<1> QED BY <1>1, <1>2, <1>6, <1>7, <1>9, <1>10 DEF RenderInv

LEMMA MergeReadKeeps ==
  ASSUME TypeOK, SplicesWholeChains, NEW r \in Renders, RenderInv(r), MergeRead(r)
  PROVE  RenderInv(r)'
<1>1. /\ pc[r] = "merge" /\ pc'[r] = "splice"
      /\ found'[r] = spliced[tmpl[r]]
      /\ UNCHANGED <<registry, tmpl, scoped, memo, specs, cut, docs, quiet>>
  BY DEF MergeRead, Goto, TypeOK
<1>2. MergesWhole(r)'
  BY <1>1, RenderTypes DEF RenderInv, MergesWhole, WholeChain, SplicesWholeChains
<1>3. WalksAgree(r)'
  BY <1>1 DEF RenderInv, WalksAgree, WellFormed, Traced, Ended, Settled, Answer
<1> QED BY <1>1, <1>2, <1>3 DEF RenderInv, Bounded, Recalled

LEMMA MergeWriteKeeps ==
  ASSUME TypeOK, NEW r \in Renders, RenderInv(r), MergeWrite(r)
  PROVE  RenderInv(r)'
<1>1. /\ pc[r] = "splice" /\ pc'[r] = "exec"
      /\ UNCHANGED <<registry, tmpl, scoped, memo, specs, cut, docs, found, quiet>>
  BY DEF MergeWrite, Goto, TypeOK, renderVars
<1>2. MergesWhole(r)'
  BY <1>1 DEF RenderInv, MergesWhole
<1>3. WalksAgree(r)'
  BY <1>1 DEF RenderInv, WalksAgree, WellFormed, Traced, Ended, Settled, Answer
<1> QED BY <1>1, <1>2, <1>3 DEF RenderInv, Bounded, Recalled

LEMMA StepKeepsRender ==
  ASSUME TypeOK, SplicesWholeChains, NEW r \in Renders, RenderInv(r), Step(r)
  PROVE  RenderInv(r)'
<1>1. CASE ExtendsUnreadable(r)
  BY <1>1, ReturnKeeps DEF ExtendsUnreadable, Refuse
<1>2. CASE ResolveOutOfBounds(r)
  BY <1>2, ReturnKeeps DEF ResolveOutOfBounds, Refuse
<1>3. CASE ResolveParentRefused(r)
  BY <1>3, ReturnKeeps DEF ResolveParentRefused, Refuse
<1>4. CASE Exec(r)
  BY <1>4, ReturnKeeps DEF Exec
<1> QED
  BY <1>1, <1>2, <1>3, <1>4, StartKeeps, InputsRootReachedKeeps, InputsOutOfBoundsKeeps,
     InputsParentKeeps, InputsParentMissingKeeps, ResolveRootReachedKeeps,
     ResolveParentKeeps, MergeReadKeeps, MergeWriteKeeps
  DEF Step, Walk

(* Only a merge writes into the AST of a template, and what it writes is    *)
(* the chain it resolved or the one it read there.                          *)
LEMMA SplicesStayWhole ==
  ASSUME TypeOK, SplicesWholeChains, NEW r \in Renders, RenderInv(r), Step(r)
  PROVE  SplicesWholeChains'
<1>1. CASE MergeWrite(r)
  <2> DEFINE new == IF found[r] = Unspliced THEN docs[r] ELSE found[r]
  <2>1. spliced' = [spliced EXCEPT ![tmpl[r]] = new] /\ pc[r] = "splice"
    BY <1>1 DEF MergeWrite
  <2>2. WholeChain(tmpl[r], new)
    BY <2>1 DEF RenderInv, MergesWhole
  <2> QED BY <2>1, <2>2 DEF SplicesWholeChains, WholeChain, TypeOK
<1>2. CASE ~ MergeWrite(r)
  <2>1. spliced' = spliced
    BY <1>2 DEF Step, Walk, Start, InputsRootReached, InputsOutOfBounds, InputsParent,
                InputsAsk, InputsParentMissing, ExtendsUnreadable, ResolveRootReached,
                ResolveOutOfBounds, ResolveParent, ResolveParentRefused, MergeRead, Exec
  <2> QED BY <2>1 DEF SplicesWholeChains
<1> QED BY <1>1, <1>2

-----------------------------------------------------------------------------
LEMMA InitIInv == Init => IInv
<1> SUFFICES ASSUME Init PROVE IInv
  OBVIOUS
<1>1. TypeOK
  BY InitTypeOK
<1>2. SplicesWholeChains
  BY DEF Init, SplicesWholeChains
<1>3. ASSUME NEW r \in Renders PROVE RenderInv(r)
  <2>1. /\ pc[r] = "idle" /\ specs[r] = <<>> /\ docs[r] = <<>> /\ found[r] = Unspliced
    BY DEF Init
  <2>2. Bounded(tmpl[r], <<>>)
    BY NothingIsBounded
  <2> QED BY <2>1, <2>2 DEF RenderInv, Recalled, MergesWhole, WalksAgree
<1> QED BY <1>1, <1>2, <1>3 DEF IInv

LEMMA NextIInv ==
  ASSUME IInv, [Next]_vars
  PROVE  IInv'
<1>1. TypeOK'
  BY NextTypeOK DEF IInv
<1>2. CASE UNCHANGED vars
  BY <1>1, <1>2 DEF vars, renderVars, IInv, SplicesWholeChains, RenderInv, Bounded, Recalled,
        MergesWhole, WalksAgree, WellFormed, Traced, Ended, Settled, Answer
<1>3. ASSUME NEW r \in Renders, Step(r)
      PROVE  SplicesWholeChains' /\ \A q \in Renders : RenderInv(q)'
  BY <1>3, StepKeepsRender, OthersKeep, SplicesStayWhole DEF IInv
<1>4. ASSUME NEW n \in Names, NEW d \in Parsed \cup {Absent}, Registered(n, d)
      PROVE  SplicesWholeChains' /\ \A q \in Renders : RenderInv(q)'
  <2>1. spliced' = spliced
    BY <1>4 DEF Registered
  <2> QED BY <1>4, <2>1, RegistrationKeeps DEF IInv, SplicesWholeChains
<1> QED BY <1>1, <1>2, <1>3, <1>4, RegistrationIs DEF IInv, Next

LEMMA AlwaysIInv == Spec => []IInv
  BY InitIInv, NextIInv, PTL DEF Spec

(* Neither walk takes more than MaxDepth + 1 parents, whatever the registry *)
(* and a per-call resolver answer: ancestorSpecs and ResolveInheritance     *)
(* refuse a name that is in their chain or demanded too deep.               *)
THEOREM ChainsAreBounded == Spec => []ChainsBounded
<1>1. IInv => ChainsBounded
  BY DEF IInv, RenderInv, Bounded, ChainsBounded
<1> QED BY <1>1, AlwaysIInv, PTL

(* Where what stands in an AST, what a merge read there and what a render   *)
(* showed come from: a chain that some render of the template merged.       *)
ShownBy(r) ==
  /\ found[r] # Unspliced => Merged(tmpl[r], found[r])
  /\ pc[r] = "exec" /\ docs[r] # <<>> => spliced[tmpl[r]] # Unspliced
  /\ Rendered(r) /\ docs[r] # <<>> => Merged(tmpl[r], result[r].nested)
  /\ Rendered(r) => pc[r] = "done"

SplicedByRenders ==
  \A t \in Templates : spliced[t] # Unspliced => Merged(t, spliced[t])

ShownInv == TypeOK /\ SplicedByRenders /\ \A r \in Renders : ShownBy(r)

(* A render that merged stays one that did: only the resolver adds to its   *)
(* chain, and no step leads back to the resolver.                           *)
LEMMA MergedRenderStays ==
  ASSUME TypeOK, NEW r \in Renders, Step(r), NEW q \in Renders, pc[q] \in {"exec", "done"}
  PROVE  docs'[q] = docs[q] /\ pc'[q] \in {"exec", "done"} /\ tmpl'[q] = tmpl[q]
<1>1. CASE q # r
  BY <1>1, StepOfRender
<1>2. CASE q = r
  <2>1. Exec(r)
    BY <1>2 DEF Step, Walk, Start, InputsRootReached, InputsOutOfBounds, InputsParent,
                InputsAsk, InputsParentMissing, ExtendsUnreadable, ResolveRootReached,
                ResolveOutOfBounds, ResolveParent, ResolveParentRefused, ResolverAsk,
                MergeRead, MergeWrite
  <2> QED BY <1>2, <2>1 DEF Exec, Return, Goto, TypeOK
<1> QED BY <1>1, <1>2

LEMMA MergedStays ==
  ASSUME TypeOK, NEW r \in Renders, Step(r), NEW t, NEW ds, Merged(t, ds)
  PROVE  Merged(t, ds)'
<1>1. PICK q \in Renders : tmpl[q] = t /\ docs[q] = ds /\ pc[q] \in {"exec", "done"}
  BY DEF Merged
<1>2. docs'[q] = docs[q] /\ pc'[q] \in {"exec", "done"} /\ tmpl'[q] = tmpl[q]
  BY <1>1, MergedRenderStays
<1> QED BY <1>1, <1>2 DEF Merged

(* A step that neither merges nor ends its render.                          *)
LEMMA WalkingShowsNothing ==
  ASSUME ShownInv, NEW r \in Renders, Step(r),
         ~ MergeRead(r), ~ MergeWrite(r), pc'[r] # "done"
  PROVE  /\ UNCHANGED <<spliced, found, result>>
         /\ pc[r] # "done"
         /\ pc'[r] = "exec" => docs'[r] = <<>>
  BY DEF ShownInv, TypeOK, Step, Walk, Start, InputsRootReached, InputsOutOfBounds,
         InputsParent, InputsAsk, InputsParentMissing, InputsWalkEnds, ExtendsUnreadable,
         ResolveRootReached, ResolveOutOfBounds, ResolveParent, ResolveParentRefused,
         ResolverAsk, Exec, Return, Refuse, Goto, renderVars

(* A render that ends shows nothing or, where it is executed, what stands   *)
(* in the AST.                                                              *)
LEMMA EndingShows ==
  ASSUME ShownInv, NEW r \in Renders, Step(r), pc'[r] = "done"
  PROVE  /\ UNCHANGED <<spliced, docs, tmpl>>
         /\ found' = [found EXCEPT ![r] = Unspliced]
         /\ \/ result' = [result EXCEPT ![r] = RefusedRender]
            \/ /\ pc[r] = "exec"
               /\ result' = [result EXCEPT ![r] =
                                [outcome |-> "rendered", nested |-> spliced[tmpl[r]]]]
  BY DEF ShownInv, TypeOK, Step, Walk, Start, InputsRootReached, InputsOutOfBounds,
         InputsParent, InputsAsk, InputsParentMissing, InputsWalkEnds, ExtendsUnreadable,
         ResolveRootReached, ResolveOutOfBounds, ResolveParent, ResolveParentRefused,
         ResolverAsk, MergeRead, MergeWrite, Exec, Return, Refuse, Goto, renderVars

LEMMA StepKeepsShown ==
  ASSUME ShownInv, NEW r \in Renders, Step(r), TypeOK'
  PROVE  ShownInv'
<1> USE DEF SplicedByRenders, Rendered
<1>1. /\ TypeOK
      /\ tmpl' = tmpl
      /\ \A q \in Renders : q # r =>
            pc'[q] = pc[q] /\ docs'[q] = docs[q] /\ found'[q] = found[q]
  BY StepOfRender DEF ShownInv
<1>2. \A t, ds : Merged(t, ds) => Merged(t, ds)'
  BY <1>1, MergedStays
<1>3. CASE MergeRead(r)
  <2>1. /\ pc'[r] = "splice" /\ found'[r] = spliced[tmpl[r]] /\ pc[r] = "merge"
        /\ spliced' = spliced /\ result' = result
    BY <1>1, <1>3 DEF MergeRead, Goto, TypeOK
  <2>2. SplicedByRenders'
    BY <1>2, <2>1 DEF ShownInv
  <2>3. ASSUME NEW q \in Renders PROVE ShownBy(q)'
    <3>1. CASE q = r
      BY <1>1, <1>2, <2>1, <3>1 DEF ShownInv, ShownBy, TypeOK
    <3>2. CASE q # r
      BY <1>1, <1>2, <2>1, <3>2 DEF ShownInv, ShownBy
    <3> QED BY <3>1, <3>2
  <2> QED BY <2>2, <2>3 DEF ShownInv
<1>4. CASE MergeWrite(r)
  <2> PICK new, t : t = tmpl[r] /\ new = IF found[r] = Unspliced THEN docs[r] ELSE found[r]
    OBVIOUS
  <2>1. /\ pc'[r] = "exec" /\ pc[r] = "splice" /\ docs' = docs /\ found' = found
        /\ result' = result /\ spliced' = [spliced EXCEPT ![t] = new]
    BY <1>1, <1>4 DEF MergeWrite, Goto, TypeOK, renderVars
  <2>2. new # Unspliced
    BY <1>1, ChainAssumption DEF TypeOK
  <2>3. Merged(t, new)'
    <3>1. CASE found[r] = Unspliced
      BY <1>1, <2>1, <3>1 DEF Merged
    <3>2. CASE found[r] # Unspliced
      BY <1>2, <3>2 DEF ShownInv, ShownBy
    <3> QED BY <3>1, <3>2
  <2>4. t = tmpl[r] /\ t \in Templates /\ spliced' \in [Templates -> Seq(Docs) \cup {Unspliced}]
    BY <1>1 DEF TypeOK
  <2>5. SplicedByRenders'
    BY <1>1, <1>2, <2>1, <2>3, <2>4 DEF ShownInv, TypeOK
  <2>6. ASSUME NEW q \in Renders PROVE ShownBy(q)'
    <3>1. CASE q = r
      BY <1>1, <1>2, <2>1, <2>2, <2>4, <3>1 DEF ShownInv, ShownBy, TypeOK
    <3>2. CASE q # r
      BY <1>1, <1>2, <2>1, <2>2, <2>4, <3>2 DEF ShownInv, ShownBy, TypeOK
    <3> QED BY <3>1, <3>2
  <2> QED BY <2>5, <2>6 DEF ShownInv
<1>5. CASE pc'[r] = "done"
  <2>1. /\ UNCHANGED <<spliced, docs>>
        /\ found' = [found EXCEPT ![r] = Unspliced]
        /\ \/ result' = [result EXCEPT ![r] = RefusedRender]
           \/ /\ pc[r] = "exec"
              /\ result' = [result EXCEPT ![r] =
                               [outcome |-> "rendered", nested |-> spliced[tmpl[r]]]]
    BY <1>5, EndingShows
  <2>2. SplicedByRenders'
    BY <1>2, <2>1 DEF ShownInv
  <2>3. ASSUME NEW q \in Renders PROVE ShownBy(q)'
    <3>1. CASE q = r
      <4>1. found'[r] = Unspliced /\ tmpl[r] \in Templates
        BY <1>1, <2>1 DEF TypeOK
      <4>2. \/ result'[r] = RefusedRender
            \/ /\ pc[r] = "exec"
               /\ result'[r] = [outcome |-> "rendered", nested |-> spliced[tmpl[r]]]
        BY <1>1, <2>1 DEF TypeOK
      <4> PICK t, shown : t = tmpl[r] /\ shown = spliced[t]
        OBVIOUS
      <4>3. pc[r] = "exec" /\ docs[r] # <<>> => Merged(t, shown)'
        BY <1>2, <4>1 DEF ShownInv, ShownBy
      <4> QED BY <1>1, <1>5, <2>1, <3>1, <4>1, <4>2, <4>3 DEF ShownBy, RefusedRender
    <3>2. CASE q # r
      <4>1. result'[q] = result[q]
        BY <1>1, <2>1, <3>2 DEF TypeOK
      <4> QED BY <1>1, <1>2, <2>1, <3>2, <4>1 DEF ShownInv, ShownBy
    <3> QED BY <3>1, <3>2
  <2> QED BY <2>2, <2>3 DEF ShownInv
<1>6. CASE ~ MergeRead(r) /\ ~ MergeWrite(r) /\ pc'[r] # "done"
  <2>1. /\ UNCHANGED <<spliced, found, result>>
        /\ pc[r] # "done"
        /\ pc'[r] = "exec" => docs'[r] = <<>>
    BY <1>6, WalkingShowsNothing
  <2>2. SplicedByRenders'
    BY <1>2, <2>1 DEF ShownInv
  <2>3. ASSUME NEW q \in Renders PROVE ShownBy(q)'
    <3>1. CASE q = r
      BY <1>1, <1>2, <2>1, <3>1 DEF ShownInv, ShownBy
    <3>2. CASE q # r
      BY <1>1, <1>2, <2>1, <3>2 DEF ShownInv, ShownBy
    <3> QED BY <3>1, <3>2
  <2> QED BY <2>2, <2>3 DEF ShownInv
<1> QED BY <1>3, <1>4, <1>5, <1>6

LEMMA AlwaysShownInv == Spec => []ShownInv
<1>1. Init => ShownInv
  BY InitTypeOK DEF Init, ShownInv, SplicedByRenders, ShownBy, Rendered, Pending
<1>2. ASSUME ShownInv, [Next]_vars PROVE ShownInv'
  <2>1. TypeOK /\ TypeOK'
    BY <1>2, NextTypeOK DEF ShownInv
  <2>2. ASSUME NEW r \in Renders, Step(r) PROVE ShownInv'
    BY <1>2, <2>1, <2>2, StepKeepsShown
  <2>3. CASE UNCHANGED <<spliced, pc, tmpl, docs, found, result>>
    BY <1>2, <2>1, <2>3 DEF ShownInv, SplicedByRenders, ShownBy, Merged, Rendered
  <2>4. ASSUME NEW n \in Names, NEW d \in Parsed \cup {Absent}, Registered(n, d) PROVE ShownInv'
    BY <2>3, <2>4 DEF Registered, renderVars
  <2> QED BY <1>2, <2>2, <2>3, <2>4, RegistrationIs DEF Next, vars, renderVars
<1> QED BY <1>1, <1>2, PTL DEF Spec

(* With a per-call resolver in its context the chain a render walks is made *)
(* of that resolver's answers alone, the ones memoizedTemplateSource        *)
(* remembers; what any render shows for a nested exons.parent is a chain    *)
(* that a render of the same template walked, its own or another's.         *)
THEOREM ScopedParents == Spec => []ScopedParentsOnly
<1>1. IInv /\ ShownInv => ScopedParentsOnly
  BY DEF IInv, ShownInv, RenderInv, Recalled, ShownBy, OwnAnswers, ScopedParentsOnly
<1> QED BY <1>1, AlwaysIInv, AlwaysShownInv, PTL

(* What resolveParentCallsInNodes leaves in a shared AST is a whole chain,  *)
(* however the merges of concurrent renders interleave.                     *)
THEOREM SplicesAreWhole == Spec => []SplicesWholeChains
<1>1. IInv => SplicesWholeChains
  BY DEF IInv
<1> QED BY <1>1, AlwaysIInv, PTL

(* The inputs of a rendered document and its body come from one chain: the  *)
(* walk of contextWithInputs and the one of resolveInheritance agree.       *)
THEOREM OneChainAlways == Spec => []OneChain
<1>1. IInv => OneChain
  BY DEF IInv, RenderInv, WalksAgree, OneChain
<1> QED BY <1>1, AlwaysIInv, PTL

(* A render is refused in the resolver only for what ended its inputs walk. *)
LEMMA RefusalWasMet ==
  ASSUME IInv, NEW r \in Renders, Step(r), pc[r] = "resolve", pc'[r] = "done", WellFormed(r)
  PROVE  cut[r]
<1> SUFFICES ASSUME ~ cut[r] PROVE FALSE
  OBVIOUS
<1> DEFINE ds == docs[r]
           es == specs[r]
           n == Demanded(tmpl[r], ds)
<1>1. /\ TypeOK /\ RenderInv(r) /\ tmpl[r] \in Docs /\ ds \in Seq(Docs) /\ es \in Seq(Docs)
      /\ Len(ds) \in Nat /\ Len(es) \in Nat
  BY RenderTypes, LenProperties DEF IInv
<1>2. Traced(r, es) /\ Ended(r) /\ Leads(ds, es) /\ Bounded(tmpl[r], es)
  BY <1>1 DEF RenderInv, WalksAgree
<1>3. Demanded(tmpl[r], es) = NoParent
  BY <1>2 DEF Ended
<1>4. CASE ExtendsUnreadable(r)
  BY <1>4 DEF ExtendsUnreadable, WellFormed, Good
<1>5. ASSUME Climbs(r, ds)
      PROVE  /\ Len(ds) < Len(es)
             /\ n = Chain(tmpl[r], es)[Len(ds) + 1]
             /\ Settled(r, n)
             /\ Answer(r, n) \in Docs
  <2>1. ds # es
    BY <1>3, <1>5 DEF Climbs, Demanded
  <2> QED BY <1>1, <1>2, <2>1, Behind
<1>6. CASE ResolveOutOfBounds(r)
  <2>1. Climbs(r, ds) /\ OutOfBounds(tmpl[r], ds)
    BY <1>6 DEF ResolveOutOfBounds
  <2>2. Len(es) <= MaxDepth + 1 /\ Injective(Chain(tmpl[r], es))
    BY <1>2 DEF Bounded
  <2>3. ~ (Len(ds) > MaxDepth)
    BY <1>1, <1>5, <2>1, <2>2, ChainAssumption
  <2>4. PICK i \in 1..Len(ds) : Chain(tmpl[r], ds)[i] = n
    BY <2>1, <2>3 DEF OutOfBounds
  <2>5. Chain(tmpl[r], es)[i] = Chain(tmpl[r], es)[Len(ds) + 1]
    BY <1>1, <1>2, <1>5, <2>1, <2>4, LeadsInChain
  <2>6. DOMAIN Chain(tmpl[r], es) = 1..Len(es)
    BY DEF Chain
  <2>7. i \in 1..Len(es) /\ Len(ds) + 1 \in 1..Len(es) /\ i # Len(ds) + 1
    BY <1>1, <1>5, <2>1
  <2> QED BY <2>2, <2>5, <2>6, <2>7 DEF Injective
<1>7. CASE ResolveParentRefused(r)
  <2>1. PICK a \in Answers \ Spliceable : ResolverAsk(r, a)
    BY <1>7 DEF ResolveParentRefused
  <2>2. Climbs(r, ds) /\ Answered(r, n, a)
    BY <2>1 DEF ResolverAsk
  <2>3. Settled(r, n) /\ Answer(r, n) \in Docs
    BY <1>5, <2>2
  <2>4. a = Answer(r, n) /\ a \in Good \cup {Absent, Down}
    <3>1. CASE scoped[r]
      BY <2>2, <2>3, <3>1 DEF Answered, Answer, Settled, WellFormed, Range
    <3>2. CASE ~ scoped[r]
      BY <1>1, <2>2, <2>3, <3>2 DEF Answered, Answer, Settled, WellFormed, Range, TypeOK
    <3> QED BY <3>1, <3>2
  <2>5. a \in Good
    BY <2>3, <2>4, ChainAssumption
  <2> QED BY <2>1, <2>5 DEF Good, Spliceable
<1>8. pc'[r] # pc[r]
  OBVIOUS
<1>9. ExtendsUnreadable(r) \/ ResolveOutOfBounds(r) \/ ResolveParentRefused(r)
  <2>1. ~ ResolveRootReached(r) /\ ~ ResolveParent(r)
    BY <1>1 DEF ResolveRootReached, ResolveParent, Goto, TypeOK
  <2> QED
    BY <2>1 DEF Step, Walk, Start, InputsRootReached, InputsOutOfBounds, InputsParent,
                InputsAsk, InputsParentMissing, MergeRead, MergeWrite, Exec
<1> QED BY <1>4, <1>6, <1>7, <1>9

(* The body of a document whose inputs were all collected is not refused:   *)
(* resolveInheritance fails on a well-formed chain only where the walk of   *)
(* ancestorSpecs, whose error contextWithInputs discards, failed before.    *)
THEOREM RefusedOnlyWhenCut == Spec => RefusedWhenCut
<1> DEFINE P(r) == pc[r] = "resolve" /\ pc'[r] = "done" /\ WellFormed(r) => cut[r]
<1>1. ASSUME IInv, [Next]_vars
      PROVE  [\A r \in Renders : P(r)]_vars
  <2>1. CASE UNCHANGED vars
    BY <2>1
  <2>2. ASSUME NEW q \in Renders, Step(q) PROVE \A r \in Renders : P(r)
    <3> SUFFICES ASSUME NEW r \in Renders PROVE P(r)
      OBVIOUS
    <3>1. CASE r = q
      BY <1>1, <2>2, <3>1, RefusalWasMet
    <3>2. CASE r # q
      BY <1>1, <2>2, <3>2, StepOfRender DEF IInv
    <3> QED BY <3>1, <3>2
  <2>3. ASSUME NEW n \in Names, NEW d \in Parsed \cup {Absent}, Registered(n, d)
        PROVE  \A r \in Renders : P(r)
    BY <2>3 DEF Registered
  <2> QED BY <1>1, <2>1, <2>2, <2>3, RegistrationIs DEF Next
<1> QED BY <1>1, AlwaysIInv, PTL DEF Spec, RefusedWhenCut
=============================================================================
