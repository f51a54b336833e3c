----------------------------- MODULE BodyCache ------------------------------
(***************************************************************************)
(* Engine.ParseBody and the body cache behind {~exons.ref~}                 *)
(* (exons.engine.go): a read-through cache keyed by the body's text.  The   *)
(* lookup takes bodyCacheMu for reading, the parse runs with no lock held,  *)
(* and the store takes bodyCacheMu for writing, so several callers may miss *)
(* on one body and parse it more than once, and the cache may have been     *)
(* cleared, or filled, between a caller's lookup and its store.             *)
(***************************************************************************)
EXTENDS Naturals, FiniteSets

CONSTANTS
  Callers, Bodies, Tags, Malformed, Refuses, StrictAttributes, Refused, None,
  Endless,            (* bodies on which the parser never stops             *)
  MaxEntries          (* maxBodyCacheEntries                                *)

ASSUME CacheAssumption ==
  /\ Malformed \subseteq Bodies /\ Endless \subseteq Bodies
  /\ Refuses \in [Bodies -> SUBSET Tags]
  /\ StrictAttributes \in BOOLEAN
  /\ {None, Refused} \cap Bodies = {}
  /\ None # Refused
  /\ MaxEntries \in Nat \ {0}

VARIABLES
  known,     (* tags with a registered resolver                             *)
  cache,     (* Engine.bodyCache: cached bodies -> their templates          *)
  pc,        (* caller -> where it is in ParseBody                          *)
  asked,     (* caller -> the body it asked for                             *)
  since,     (* caller -> resolvers known when the call began               *)
  parsing,   (* caller -> resolvers known when its own parse began          *)
  tmpl,      (* caller -> the template it parsed, not yet stored            *)
  answer     (* caller -> the last result: a template, Refused or None      *)

vars == <<known, cache, pc, asked, since, parsing, tmpl, answer>>

(* A caller of the service sees of a template only what it was parsed from. *)
Seen(result) == IF result \in {None, Refused} THEN result ELSE result.text

(* The service when an answer must be that of a parse made during the call, *)
(* and when it may be that of an earlier parse.                             *)
Service == INSTANCE ParseService WITH
             Fresh <- TRUE, answer <- [c \in Callers |-> Seen(answer[c])]
LaxService == INSTANCE ParseService WITH
                Fresh <- FALSE, answer <- [c \in Callers |-> Seen(answer[c])]

Template == Service!Template

ASSUME AnswerAssumption == {None, Refused} \cap Template = {}

Init ==
  /\ known = {}
  /\ cache = [b \in {} |-> None]
  /\ pc = [c \in Callers |-> "idle"]
  /\ asked = [c \in Callers |-> None]
  /\ since = [c \in Callers |-> {}]
  /\ parsing = [c \in Callers |-> {}]
  /\ tmpl = [c \in Callers |-> None]
  /\ answer = [c \in Callers |-> None]

(* Registry.Register: a tag that already has a resolver keeps it, and the   *)
(* call changes nothing.  Nothing ever removes a resolver.                  *)
RegisterResolver(t) ==
  /\ t \notin known
  /\ known' = known \cup {t}
  /\ UNCHANGED <<cache, pc, asked, since, parsing, tmpl, answer>>

Call(c, b) ==
  /\ pc[c] = "idle"
  /\ pc' = [pc EXCEPT ![c] = "lookup"]
  /\ asked' = [asked EXCEPT ![c] = b]
  /\ since' = [since EXCEPT ![c] = known]
  /\ answer' = [answer EXCEPT ![c] = None]
  /\ UNCHANGED <<known, cache, parsing, tmpl>>

Return(c, result) ==
  /\ pc' = [pc EXCEPT ![c] = "idle"]
  /\ answer' = [answer EXCEPT ![c] = result]
  /\ asked' = [asked EXCEPT ![c] = None]
  /\ since' = [since EXCEPT ![c] = {}]
  /\ parsing' = [parsing EXCEPT ![c] = {}]
  /\ tmpl' = [tmpl EXCEPT ![c] = None]

(* Mutant: a hit answers with whichever entry the cache holds.              *)
LookupHitOnAnyEntry(c) ==
  /\ pc[c] = "lookup"
  /\ \E b \in DOMAIN cache : Return(c, cache[b])
  /\ UNCHANGED <<known, cache>>

LookupHit(c) ==
  /\ pc[c] = "lookup"
  /\ asked[c] \in DOMAIN cache
  /\ Return(c, cache[asked[c]])
  /\ UNCHANGED <<known, cache>>

(* Mutant: a miss reserves the entry before the body is parsed.             *)
LookupMissUnparsed(c) ==
  /\ pc[c] = "lookup"
  /\ asked[c] \notin DOMAIN cache
  /\ pc' = [pc EXCEPT ![c] = "store"]
  /\ UNCHANGED <<known, cache, asked, since, parsing, tmpl, answer>>

(* Mutant: bodyCacheMu is held from the miss to the store, so that a body   *)
(* is parsed only once.                                                     *)
LookupMissLocking(c) ==
  /\ pc[c] = "lookup"
  /\ asked[c] \notin DOMAIN cache
  /\ \A d \in Callers : pc[d] \notin {"parse", "store"}
  /\ pc' = [pc EXCEPT ![c] = "parse"]
  /\ parsing' = [parsing EXCEPT ![c] = known]
  /\ UNCHANGED <<known, cache, asked, since, tmpl, answer>>

LookupMiss(c) ==
  /\ pc[c] = "lookup"
  /\ asked[c] \notin DOMAIN cache
  /\ pc' = [pc EXCEPT ![c] = "parse"]
  /\ parsing' = [parsing EXCEPT ![c] = known]
  /\ UNCHANGED <<known, cache, asked, since, tmpl, answer>>

(* validateNodes asks the registry about one tag at a time with no lock     *)
(* held across the walk, so the set of resolvers it finds lies between the  *)
(* one known when the parse began and the one known when it ends.           *)
SeenBy(c) == {seen \in SUBSET known : parsing[c] \subseteq seen}

(* At a close that belongs to no construct open there the parser asks the   *)
(* same token again, for ever: a call on such a body never returns.         *)
ParseTurns(c) ==
  /\ pc[c] = "parse" /\ asked[c] \in Endless
  /\ UNCHANGED vars

(* A refused parse is returned and never cached.                            *)
ParseRefused(c) ==
  /\ pc[c] = "parse" /\ asked[c] \notin Endless
  /\ \E seen \in SeenBy(c) : ~ Service!Parses(asked[c], seen)
  /\ Return(c, Refused)
  /\ UNCHANGED <<known, cache>>

(* Mutant: the outcome of the parse is not looked at before caching.        *)
ParseAcceptedUnchecked(c) ==
  /\ pc[c] = "parse" /\ asked[c] \notin Endless
  /\ \E seen \in SeenBy(c) :
        tmpl' = [tmpl EXCEPT ![c] = Service!ParsedAs(asked[c], seen)]
  /\ pc' = [pc EXCEPT ![c] = "store"]
  /\ UNCHANGED <<known, cache, asked, since, parsing, answer>>

ParseAccepted(c) ==
  /\ pc[c] = "parse" /\ asked[c] \notin Endless
  /\ \E seen \in SeenBy(c) :
        /\ Service!Parses(asked[c], seen)
        /\ tmpl' = [tmpl EXCEPT ![c] = Service!ParsedAs(asked[c], seen)]
  /\ pc' = [pc EXCEPT ![c] = "store"]
  /\ UNCHANGED <<known, cache, asked, since, parsing, answer>>

(* Mutant: the bound is compared with > instead of >=.                      *)
FullOffByOne(entries) == Cardinality(DOMAIN entries) > MaxEntries

(* The cache is emptied, not trimmed, when it is full: it is emptied even   *)
(* when the body to store is one of its keys.                               *)
Full(entries) == Cardinality(DOMAIN entries) >= MaxEntries

Kept(entries) == IF Full(entries) THEN {} ELSE DOMAIN entries

Stored(entries, b, t) ==
  [k \in Kept(entries) \cup {b} |-> IF k = b THEN t ELSE entries[k]]

Store(c) ==
  /\ pc[c] = "store"
  /\ cache' = Stored(cache, asked[c], tmpl[c])
  /\ Return(c, tmpl[c])
  /\ UNCHANGED known

Step(c) ==
  \/ LookupHit(c)
  \/ LookupMiss(c)
  \/ ParseTurns(c)
  \/ ParseRefused(c)
  \/ ParseAccepted(c)
  \/ Store(c)

Next ==
  \/ \E t \in Tags : RegisterResolver(t)
  \/ \E c \in Callers : Step(c) \/ \E b \in Bodies : Call(c, b)

Spec == Init /\ [][Next]_vars

(* A goroutine inside ParseBody takes its next step: it waits only for a    *)
(* mutex that is held for a map operation.  A turn of the parser on an      *)
(* endless body changes nothing, so fairness does not make it end.          *)
FairSpec == Spec /\ \A c \in Callers : WF_vars(Step(c))

-----------------------------------------------------------------------------
(* Every variable has its type.                                             *)
TypeOK ==
  /\ known \subseteq Tags
  /\ \E keys \in SUBSET Bodies : cache \in [keys -> Template]
  /\ pc \in [Callers -> {"idle", "lookup", "parse", "store"}]
  /\ asked \in [Callers -> Bodies \cup {None}]
  /\ since \in [Callers -> SUBSET Tags]
  /\ parsing \in [Callers -> SUBSET Tags]
  /\ tmpl \in [Callers -> Template \cup {None}]
  /\ answer \in [Callers -> Template \cup {None, Refused}]

(* The cache never holds more than maxBodyCacheEntries bodies, whatever the *)
(* callers that found it below the bound do in the meantime.                *)
CacheBounded == Cardinality(DOMAIN cache) <= MaxEntries

(* Whatever is cached under a body was parsed from that body and accepted:  *)
(* a racing store never files one caller's template under another's body,   *)
(* and a refusal is never cached.                                           *)
CacheHoldsAcceptedParses ==
  \A b \in DOMAIN cache :
     /\ cache[b].text = b
     /\ Service!Parses(b, cache[b].seen)

(* ParseBody with its cache answers as a parse made during the call would:  *)
(* the claim on Engine.bodyCache that, keyed by content, it "cannot serve a *)
(* stale answer".  It holds when only grammar is judged.                    *)
AnswersLikeAParse == Service!ServiceSpec

(* With or without strict attributes, an accepted answer is that of a parse *)
(* of the very body asked, made at some time so far, and a refusal is that  *)
(* of a parse made during the call.                                         *)
AnswersLikeSomeParse == LaxService!ServiceSpec

(* A ParseBody call returns unless the parser never stops on its own body:  *)
(* a caller that is for ever inside the parser holds up no other, nor does  *)
(* one that fills and clears the cache, because a body is parsed with no    *)
(* lock held.                                                               *)
CallsReturn ==
  \A c \in Callers :
     pc[c] # "idle" /\ asked[c] \notin Endless ~> pc[c] = "idle"
=============================================================================
