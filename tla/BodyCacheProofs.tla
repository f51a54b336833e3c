--------------------------- MODULE BodyCacheProofs --------------------------
(***************************************************************************)
(* What holds of Engine.ParseBody for any number of callers, bodies, tags   *)
(* and cache entries.                                                       *)
(***************************************************************************)
EXTENDS BodyCache, FiniteSetTheorems, TLAPS

(* The inductive invariant: besides the types, a caller that is between the *)
(* lookup and the store has asked for a body, its walk began no later than  *)
(* now and no earlier than its call, and the template it is about to store  *)
(* was parsed from that body and accepted.                                  *)
CallInv(c) ==
  /\ pc[c] # "idle" => asked[c] \in Bodies /\ since[c] \subseteq known
  /\ pc[c] = "idle" => asked[c] = None /\ since[c] = {}
  /\ pc[c] = "parse" => since[c] \subseteq parsing[c] /\ parsing[c] \subseteq known
  /\ pc[c] = "store" => /\ tmpl[c] \in Template
                        /\ tmpl[c].text = asked[c]
                        /\ tmpl[c].seen \subseteq known
                        /\ Service!Parses(asked[c], tmpl[c].seen)

CacheInv ==
  \A b \in DOMAIN cache :
     /\ cache[b] \in Template
     /\ cache[b].text = b
     /\ cache[b].seen \subseteq known
     /\ Service!Parses(b, cache[b].seen)

IInv ==
  /\ TypeOK
  /\ CacheInv
  /\ \A c \in Callers : CallInv(c)

USE DEF Service!Template, Template, Service!Parses, Service!ParsedAs

LEMMA InitEstablishesIInv == Init => IInv
<1> SUFFICES ASSUME Init PROVE IInv
  OBVIOUS
<1>1. cache \in [{} -> Template] /\ {} \in SUBSET Bodies
  BY DEF Init
<1>2. \E keys \in SUBSET Bodies : cache \in [keys -> Template]
  BY <1>1
<1>3. TypeOK
  BY <1>2 DEF Init, TypeOK
<1>4. CacheInv
  BY DEF Init, CacheInv
<1>5. \A c \in Callers : CallInv(c)
  BY DEF Init, CallInv
<1> QED BY <1>3, <1>4, <1>5 DEF IInv

(* Returning leaves every other caller alone and this one idle.             *)
LEMMA ReturnKeepsCalls ==
  ASSUME IInv, NEW c \in Callers, NEW result \in Template \cup {None, Refused},
         Return(c, result), known' = known
  PROVE  /\ pc' \in [Callers -> {"idle", "lookup", "parse", "store"}]
         /\ asked' \in [Callers -> Bodies \cup {None}]
         /\ since' \in [Callers -> SUBSET Tags]
         /\ parsing' \in [Callers -> SUBSET Tags]
         /\ tmpl' \in [Callers -> Template \cup {None}]
         /\ answer' \in [Callers -> Template \cup {None, Refused}]
         /\ \A d \in Callers : CallInv(d)'
<1>1. /\ pc' \in [Callers -> {"idle", "lookup", "parse", "store"}]
      /\ asked' \in [Callers -> Bodies \cup {None}]
      /\ since' \in [Callers -> SUBSET Tags]
      /\ parsing' \in [Callers -> SUBSET Tags]
      /\ tmpl' \in [Callers -> Template \cup {None}]
      /\ answer' \in [Callers -> Template \cup {None, Refused}]
  BY DEF Return, IInv, TypeOK
<1>2. ASSUME NEW d \in Callers PROVE CallInv(d)'
  <2>1. CASE d = c
    BY <2>1 DEF Return, IInv, TypeOK, CallInv
  <2>2. CASE d # c
    BY <2>2 DEF Return, IInv, TypeOK, CallInv
  <2> QED BY <2>1, <2>2
<1> QED BY <1>1, <1>2

(* The set a walk found registered lies among the tags known when it ends.  *)
LEMMA SeenIsKnown ==
  ASSUME IInv, NEW c \in Callers, NEW seen \in SeenBy(c), pc[c] = "parse"
  PROVE  seen \in SUBSET Tags /\ seen \subseteq known /\ since[c] \subseteq seen
  BY DEF SeenBy, IInv, TypeOK, CallInv

LEMMA StepKeepsIInv == IInv /\ [Next]_vars => IInv'
<1> SUFFICES ASSUME IInv, [Next]_vars PROVE IInv'
  OBVIOUS
<1>1. ASSUME NEW t \in Tags, RegisterResolver(t) PROVE IInv'
  BY <1>1 DEF RegisterResolver, IInv, TypeOK, CacheInv, CallInv
<1>2. ASSUME NEW c \in Callers, NEW b \in Bodies, Call(c, b) PROVE IInv'
  <2>1. TypeOK'
    BY <1>2 DEF Call, IInv, TypeOK
  <2>2. CacheInv'
    BY <1>2 DEF Call, IInv, CacheInv
  <2>3. ASSUME NEW d \in Callers PROVE CallInv(d)'
    <3>1. CASE d = c
      BY <1>2, <3>1 DEF Call, IInv, TypeOK, CallInv
    <3>2. CASE d # c
      BY <1>2, <3>2 DEF Call, IInv, TypeOK, CallInv
    <3> QED BY <3>1, <3>2
  <2> QED BY <2>1, <2>2, <2>3 DEF IInv
<1>3. ASSUME NEW c \in Callers, LookupHit(c) PROVE IInv'
  <2>1. cache[asked[c]] \in Template
    BY <1>3 DEF LookupHit, IInv, CacheInv
  <2>2. Return(c, cache[asked[c]]) /\ known' = known /\ cache' = cache
    BY <1>3 DEF LookupHit
  <2> QED BY <2>1, <2>2, ReturnKeepsCalls DEF IInv, TypeOK, CacheInv
<1>4. ASSUME NEW c \in Callers, LookupMiss(c) PROVE IInv'
  <2>1. TypeOK'
    BY <1>4 DEF LookupMiss, IInv, TypeOK
  <2>2. CacheInv'
    BY <1>4 DEF LookupMiss, IInv, CacheInv
  <2>3. ASSUME NEW d \in Callers PROVE CallInv(d)'
    <3>1. CASE d = c
      BY <1>4, <3>1 DEF LookupMiss, IInv, TypeOK, CallInv
    <3>2. CASE d # c
      BY <1>4, <3>2 DEF LookupMiss, IInv, TypeOK, CallInv
    <3> QED BY <3>1, <3>2
  <2> QED BY <2>1, <2>2, <2>3 DEF IInv
<1>5. ASSUME NEW c \in Callers, ParseRefused(c) PROVE IInv'
  <2>1. Return(c, Refused) /\ known' = known /\ cache' = cache
    BY <1>5 DEF ParseRefused
  <2> QED BY <2>1, ReturnKeepsCalls DEF IInv, TypeOK, CacheInv
<1>6. ASSUME NEW c \in Callers, ParseAccepted(c) PROVE IInv'
  <2>1. PICK seen \in SeenBy(c) :
          /\ Service!Parses(asked[c], seen)
          /\ tmpl' = [tmpl EXCEPT ![c] = Service!ParsedAs(asked[c], seen)]
    BY <1>6 DEF ParseAccepted
  <2>2. pc[c] = "parse" /\ asked[c] \in Bodies
    BY <1>6 DEF ParseAccepted, IInv, CallInv
  <2>3. seen \in SUBSET Tags /\ seen \subseteq known /\ since[c] \subseteq seen
    BY <2>2, SeenIsKnown
  <2>4. TypeOK'
    BY <1>6, <2>1, <2>2, <2>3 DEF ParseAccepted, IInv, TypeOK
  <2>5. CacheInv'
    BY <1>6 DEF ParseAccepted, IInv, CacheInv
  <2>6. ASSUME NEW d \in Callers PROVE CallInv(d)'
    <3>1. CASE d = c
      BY <1>6, <2>1, <2>2, <2>3, <3>1 DEF ParseAccepted, IInv, TypeOK, CallInv
    <3>2. CASE d # c
      BY <1>6, <2>1, <3>2 DEF ParseAccepted, IInv, TypeOK, CallInv
    <3> QED BY <3>1, <3>2
  <2> QED BY <2>4, <2>5, <2>6 DEF IInv
<1>7. ASSUME NEW c \in Callers, Store(c) PROVE IInv'
  <2>1. /\ tmpl[c] \in Template
        /\ tmpl[c].text = asked[c]
        /\ tmpl[c].seen \subseteq known
        /\ Service!Parses(asked[c], tmpl[c].seen)
        /\ asked[c] \in Bodies
    BY <1>7 DEF Store, IInv, CallInv
  <2>2. Return(c, tmpl[c]) /\ known' = known
    BY <1>7 DEF Store
  <2>3. \A d \in Callers : CallInv(d)'
    BY <2>1, <2>2, ReturnKeepsCalls
  <2>4. cache' = Stored(cache, asked[c], tmpl[c])
    BY <1>7 DEF Store
  <2>5. DOMAIN cache \subseteq Bodies
    BY DEF IInv, TypeOK
  <2>6. cache' \in [Kept(cache) \cup {asked[c]} -> Template]
    BY <2>1, <2>4 DEF Stored, Kept, IInv, CacheInv
  <2>7. Kept(cache) \cup {asked[c]} \in SUBSET Bodies
    BY <2>1, <2>5 DEF Kept
  <2>8. TypeOK'
    BY <2>1, <2>2, <2>6, <2>7, ReturnKeepsCalls DEF IInv, TypeOK
  <2>9. CacheInv'
    BY <2>1, <2>2, <2>4 DEF Stored, Kept, IInv, CacheInv
  <2> QED BY <2>3, <2>8, <2>9 DEF IInv
<1>8. CASE UNCHANGED vars
  BY <1>8 DEF vars, IInv, TypeOK, CacheInv, CallInv
<1> QED BY <1>1, <1>2, <1>3, <1>4, <1>5, <1>6, <1>7, <1>8 DEF Next, Step, ParseTurns

(* Every variable has its type, for every number of callers.                *)
THEOREM TypeCorrect == Spec => []TypeOK
<1>1. IInv => TypeOK
  BY DEF IInv
<1> QED BY <1>1, InitEstablishesIInv, StepKeepsIInv, PTL DEF Spec

(* Whatever is cached under a body was parsed from that body and accepted.  *)
THEOREM CacheSound == Spec => []CacheHoldsAcceptedParses
<1>1. IInv => CacheHoldsAcceptedParses
  BY DEF IInv, CacheInv, CacheHoldsAcceptedParses
<1> QED BY <1>1, InitEstablishesIInv, StepKeepsIInv, PTL DEF Spec

-----------------------------------------------------------------------------
(* The cache is finite and within its bound.                                *)
SizeInv == IsFiniteSet(DOMAIN cache) /\ CacheBounded

LEMMA StoreKeepsSize ==
  ASSUME SizeInv, NEW b, NEW t, cache' = Stored(cache, b, t)
  PROVE  SizeInv'
<1>1. DOMAIN cache' = Kept(cache) \cup {b}
  BY DEF Stored
<1>2. CASE Full(cache)
  <2>1. DOMAIN cache' = {b}
    BY <1>1, <1>2 DEF Kept
  <2>2. IsFiniteSet(DOMAIN cache') /\ Cardinality(DOMAIN cache') = 1
    BY <2>1, FS_Singleton
  <2>3. 1 <= MaxEntries
    BY CacheAssumption
  <2> QED BY <2>2, <2>3 DEF SizeInv, CacheBounded
<1>3. CASE ~ Full(cache)
  <2>1. DOMAIN cache' = DOMAIN cache \cup {b}
    BY <1>1, <1>3 DEF Kept
  <2>2. Cardinality(DOMAIN cache) \in Nat
    BY FS_CardinalityType DEF SizeInv
  <2>3. Cardinality(DOMAIN cache) < MaxEntries
    BY <1>3, <2>2, CacheAssumption DEF Full
  <2>4. /\ IsFiniteSet(DOMAIN cache')
        /\ \/ Cardinality(DOMAIN cache') = Cardinality(DOMAIN cache)
           \/ Cardinality(DOMAIN cache') = Cardinality(DOMAIN cache) + 1
    BY <2>1, FS_AddElement DEF SizeInv
  <2>5. Cardinality(DOMAIN cache') <= MaxEntries
    BY <2>2, <2>3, <2>4, CacheAssumption
  <2> QED BY <2>4, <2>5 DEF SizeInv, CacheBounded
<1> QED BY <1>2, <1>3

LEMMA StepKeepsSize == SizeInv /\ [Next]_vars => SizeInv'
<1> SUFFICES ASSUME SizeInv, [Next]_vars PROVE SizeInv'
  OBVIOUS
<1>1. CASE \E c \in Callers : Store(c)
  BY <1>1, StoreKeepsSize DEF Store
<1>2. CASE UNCHANGED cache
  BY <1>2 DEF SizeInv, CacheBounded
<1> QED BY <1>1, <1>2 DEF Next, Step, vars, RegisterResolver, Call, LookupHit,
             LookupMiss, ParseTurns, ParseRefused, ParseAccepted

(* The cache never holds more than maxBodyCacheEntries bodies.              *)
THEOREM CacheStaysBounded == Spec => []CacheBounded
<1>1. Init => SizeInv
  BY FS_EmptySet, CacheAssumption DEF Init, SizeInv, CacheBounded
<1>2. SizeInv => CacheBounded
  BY DEF SizeInv
<1> QED BY <1>1, <1>2, StepKeepsSize, PTL DEF Spec

-----------------------------------------------------------------------------
(* Refinement.  What a caller of the service sees of the answers.           *)
Mapped == [c \in Callers |-> Seen(answer[c])]

LEMMA ReturnMaps ==
  ASSUME IInv, NEW c \in Callers, NEW result, Return(c, result)
  PROVE  /\ Mapped' = [Mapped EXCEPT ![c] = Seen(result)]
         /\ asked' = [asked EXCEPT ![c] = None]
         /\ since' = [since EXCEPT ![c] = {}]
  BY DEF Return, Mapped, IInv, TypeOK

(* A call that returns after a parse that lies within it, or, when Fresh is *)
(* not asked for, after any earlier one, is a reply of the service.         *)
LEMMA AcceptedIsReply ==
  ASSUME IInv, NEW c \in Callers, NEW t \in Template, asked[c] \in Bodies,
         t.text = asked[c], t.seen \subseteq known,
         Service!Parses(asked[c], t.seen),
         Return(c, t), known' = known
  PROVE  LaxService!Reply(c)
<1>1. Seen(t) = asked[c]
  BY AnswerAssumption DEF Seen
<1>2. LaxService!Accept(c)
  BY <1>1, ReturnMaps DEF LaxService!Accept, LaxService!Parses, Mapped
<1>3. asked[c] # None
  BY CacheAssumption
<1> QED BY <1>2, <1>3, ReturnMaps DEF LaxService!Reply

LEMMA RefusedIsReply ==
  ASSUME IInv, NEW c \in Callers, ParseRefused(c)
  PROVE  LaxService!Reply(c) /\ Service!Reply(c)
<1>1. PICK seen \in SeenBy(c) : ~ Service!Parses(asked[c], seen)
  BY DEF ParseRefused
<1>2. seen \in SUBSET known /\ since[c] \subseteq seen
  BY SeenIsKnown DEF ParseRefused
<1>3. Return(c, Refused) /\ known' = known
  BY DEF ParseRefused
<1>4. Seen(Refused) = Refused
  BY DEF Seen
<1>5. LaxService!Refuse(c) /\ Service!Refuse(c)
  BY <1>1, <1>2, <1>3, <1>4, ReturnMaps
     DEF LaxService!Refuse, Service!Refuse, LaxService!Parses, Mapped
<1>6. asked[c] # None
  BY CacheAssumption DEF ParseRefused, IInv, CallInv
<1> QED BY <1>3, <1>5, <1>6, ReturnMaps DEF LaxService!Reply, Service!Reply

LEMMA CallIsAsk ==
  ASSUME IInv, NEW c \in Callers, NEW b \in Bodies, Call(c, b)
  PROVE  LaxService!Ask(c, b) /\ Service!Ask(c, b)
<1>1. asked[c] = None
  BY DEF Call, IInv, CallInv
<1>2. Mapped' = [Mapped EXCEPT ![c] = None]
  BY DEF Call, Mapped, Seen, IInv, TypeOK
<1> QED BY <1>1, <1>2 DEF Call, Mapped, LaxService!Ask, Service!Ask

(* The steps that answer with a parse: a hit and a store.                   *)
LEMMA HitAnswers ==
  ASSUME IInv, NEW c \in Callers, LookupHit(c)
  PROVE  LET t == cache[asked[c]] IN
         /\ t \in Template /\ asked[c] \in Bodies
         /\ t.text = asked[c] /\ t.seen \subseteq known
         /\ Service!Parses(asked[c], t.seen)
         /\ Return(c, t) /\ known' = known
  BY DEF LookupHit, IInv, CacheInv, CallInv

LEMMA StoreAnswers ==
  ASSUME IInv, NEW c \in Callers, Store(c)
  PROVE  /\ tmpl[c] \in Template /\ asked[c] \in Bodies
         /\ tmpl[c].text = asked[c] /\ tmpl[c].seen \subseteq known
         /\ Service!Parses(asked[c], tmpl[c].seen)
         /\ Return(c, tmpl[c]) /\ known' = known
  BY DEF Store, IInv, CallInv

(* Every other step changes nothing a caller of the service can see.        *)
LEMMA InnerStepsStutter ==
  ASSUME IInv, NEW c \in Callers, LookupMiss(c) \/ ParseAccepted(c)
  PROVE  UNCHANGED <<known, asked, since, Mapped>>
  BY DEF LookupMiss, ParseAccepted, Mapped

LEMMA StepIsLaxStep ==
  IInv /\ [Next]_vars => [LaxService!ServiceNext]_(LaxService!serviceVars)
<1> SUFFICES ASSUME IInv, [Next]_vars
             PROVE  [LaxService!ServiceNext]_(LaxService!serviceVars)
  OBVIOUS
<1>1. ASSUME NEW t \in Tags, RegisterResolver(t) PROVE LaxService!ServiceNext
  <2>1. LaxService!RegisterResolver(t)
    BY <1>1 DEF RegisterResolver, LaxService!RegisterResolver
  <2> QED BY <2>1 DEF LaxService!ServiceNext
<1>2. ASSUME NEW c \in Callers, NEW b \in Bodies, Call(c, b)
      PROVE  LaxService!ServiceNext
  BY <1>2, CallIsAsk DEF LaxService!ServiceNext
<1>3. ASSUME NEW c \in Callers, LookupHit(c) PROVE LaxService!ServiceNext
  BY <1>3, HitAnswers, AcceptedIsReply DEF LaxService!ServiceNext
<1>4. ASSUME NEW c \in Callers, ParseRefused(c) PROVE LaxService!ServiceNext
  BY <1>4, RefusedIsReply DEF LaxService!ServiceNext
<1>5. ASSUME NEW c \in Callers, Store(c) PROVE LaxService!ServiceNext
  BY <1>5, StoreAnswers, AcceptedIsReply DEF LaxService!ServiceNext
<1>6. ASSUME NEW c \in Callers, LookupMiss(c) \/ ParseAccepted(c)
      PROVE  UNCHANGED LaxService!serviceVars
  BY <1>6, InnerStepsStutter DEF LaxService!serviceVars, Mapped
<1>7. CASE UNCHANGED vars
  BY <1>7 DEF vars, LaxService!serviceVars
<1> QED BY <1>1, <1>2, <1>3, <1>4, <1>5, <1>6, <1>7 DEF Next, Step, ParseTurns

(* ParseBody implements the service whose answers may be those of an        *)
(* earlier parse.                                                           *)
THEOREM ImplementsLaxService == Spec => AnswersLikeSomeParse
<1>1. Init => LaxService!ServiceInit
  BY DEF Init, LaxService!ServiceInit, Seen
<1> QED BY <1>1, InitEstablishesIInv, StepKeepsIInv, StepIsLaxStep, PTL
        DEF Spec, AnswersLikeSomeParse, LaxService!ServiceSpec

(* Without strict attributes an answer depends on the body alone, so that   *)
(* of an earlier parse is that of a parse made now.                         *)
LEMMA AcceptedIsFreshReply ==
  ASSUME ~ StrictAttributes, IInv, NEW c \in Callers, NEW t \in Template,
         pc[c] # "idle", asked[c] \in Bodies, t.text = asked[c],
         Service!Parses(asked[c], t.seen), Return(c, t), known' = known
  PROVE  Service!Reply(c)
<1>1. Seen(t) = asked[c]
  BY AnswerAssumption DEF Seen
<1>2. since[c] \subseteq known /\ Service!Parses(asked[c], known)
  BY DEF IInv, CallInv
<1>3. Service!Accept(c)
  BY <1>1, <1>2, ReturnMaps DEF Service!Accept, Mapped
<1>4. asked[c] # None
  BY CacheAssumption
<1> QED BY <1>3, <1>4, ReturnMaps DEF Service!Reply

LEMMA StepIsServiceStep ==
  ASSUME ~ StrictAttributes
  PROVE  IInv /\ [Next]_vars => [Service!ServiceNext]_(Service!serviceVars)
<1> SUFFICES ASSUME IInv, [Next]_vars
             PROVE  [Service!ServiceNext]_(Service!serviceVars)
  OBVIOUS
<1>1. ASSUME NEW t \in Tags, RegisterResolver(t) PROVE Service!ServiceNext
  <2>1. Service!RegisterResolver(t)
    BY <1>1 DEF RegisterResolver, Service!RegisterResolver
  <2> QED BY <2>1 DEF Service!ServiceNext
<1>2. ASSUME NEW c \in Callers, NEW b \in Bodies, Call(c, b)
      PROVE  Service!ServiceNext
  BY <1>2, CallIsAsk DEF Service!ServiceNext
<1>3. ASSUME NEW c \in Callers, LookupHit(c) PROVE Service!ServiceNext
  <2>1. pc[c] # "idle"
    BY <1>3 DEF LookupHit
  <2> QED BY <1>3, <2>1, HitAnswers, AcceptedIsFreshReply DEF Service!ServiceNext
<1>4. ASSUME NEW c \in Callers, ParseRefused(c) PROVE Service!ServiceNext
  BY <1>4, RefusedIsReply DEF Service!ServiceNext
<1>5. ASSUME NEW c \in Callers, Store(c) PROVE Service!ServiceNext
  <2>1. pc[c] # "idle"
    BY <1>5 DEF Store
  <2> QED BY <1>5, <2>1, StoreAnswers, AcceptedIsFreshReply DEF Service!ServiceNext
<1>6. ASSUME NEW c \in Callers, LookupMiss(c) \/ ParseAccepted(c)
      PROVE  UNCHANGED Service!serviceVars
  BY <1>6, InnerStepsStutter DEF Service!serviceVars, Mapped
<1>7. CASE UNCHANGED vars
  BY <1>7 DEF vars, Service!serviceVars
<1> QED BY <1>1, <1>2, <1>3, <1>4, <1>5, <1>6, <1>7 DEF Next, Step, ParseTurns

(* Without strict attributes the cache keeps its promise: no answer is      *)
(* stale.  With them only AnswersLikeSomeParse holds.                       *)
THEOREM FreshWithoutStrictAttributes ==
  ASSUME ~ StrictAttributes
  PROVE  Spec => AnswersLikeAParse
<1>1. Init => Service!ServiceInit
  BY DEF Init, Service!ServiceInit, Seen
<1> QED BY <1>1, InitEstablishesIInv, StepKeepsIInv, StepIsServiceStep, PTL
        DEF Spec, AnswersLikeAParse, Service!ServiceSpec
=============================================================================
