---------------------------- MODULE ParseService ----------------------------
(***************************************************************************)
(* What Engine.ParseBody promises to {~exons.ref~}, with no cache in sight. *)
(* A call hands over a body and gets back either a template parsed from     *)
(* that body or a refusal.  The tag resolvers known to the engine only ever *)
(* grow.  A refusal is always that of a parse made during the call; so is   *)
(* an accepted answer when Fresh, and otherwise it may be that of any       *)
(* earlier parse.                                                           *)
(***************************************************************************)
EXTENDS FiniteSets

CONSTANTS
  Callers,            (* goroutines that call ParseBody                     *)
  Bodies,             (* distinct body texts                                *)
  Tags,               (* tag names a host may register a resolver for       *)
  Malformed,          (* bodies the lexer or the parser rejects             *)
  Refuses,            (* body -> tags whose resolver refuses its attributes *)
  StrictAttributes,   (* WithStrictAttributes was given                     *)
  Fresh,              (* an accepted answer is never an earlier one         *)
  Refused,            (* the answer that reports an error                   *)
  None                (* no body, no answer                                 *)

(***************************************************************************)
(* A template is known here by the text it was parsed from and the set of   *)
(* resolvers the strict-attribute walk found registered.                    *)
(***************************************************************************)
Template == [text : Bodies, seen : SUBSET Tags]

(* The parse of body b when the walk found the resolvers of seen: refused   *)
(* for its grammar, or, under strict attributes, for an attribute one of    *)
(* these resolvers refuses.                                                 *)
Parses(b, seen) ==
  /\ b \notin Malformed
  /\ StrictAttributes => Refuses[b] \cap seen = {}

ParsedAs(b, seen) == [text |-> b, seen |-> seen]

VARIABLES
  known,     (* tags with a registered resolver                             *)
  asked,     (* caller -> body of the call in progress, or None             *)
  since,     (* caller -> the resolvers known when the call began           *)
  answer     (* caller -> what the last finished call returned              *)

serviceVars == <<known, asked, since, answer>>

ServiceInit ==
  /\ known = {}
  /\ asked = [c \in Callers |-> None]
  /\ since = [c \in Callers |-> {}]
  /\ answer = [c \in Callers |-> None]

(* Registry.Register: the first resolver for a tag is kept for good.        *)
RegisterResolver(t) ==
  /\ t \notin known
  /\ known' = known \cup {t}
  /\ UNCHANGED <<asked, since, answer>>

Ask(c, b) ==
  /\ asked[c] = None
  /\ asked' = [asked EXCEPT ![c] = b]
  /\ since' = [since EXCEPT ![c] = known]
  /\ answer' = [answer EXCEPT ![c] = None]
  /\ UNCHANGED known

Accept(c) ==
  /\ \E seen \in SUBSET known :
        /\ Fresh => since[c] \subseteq seen
        /\ Parses(asked[c], seen)
  /\ answer' = [answer EXCEPT ![c] = asked[c]]

Refuse(c) ==
  /\ \E seen \in SUBSET known :
        /\ since[c] \subseteq seen
        /\ ~ Parses(asked[c], seen)
  /\ answer' = [answer EXCEPT ![c] = Refused]

Reply(c) ==
  /\ asked[c] # None
  /\ Accept(c) \/ Refuse(c)
  /\ asked' = [asked EXCEPT ![c] = None]
  /\ since' = [since EXCEPT ![c] = {}]
  /\ UNCHANGED known

ServiceNext ==
  \/ \E t \in Tags : RegisterResolver(t)
  \/ \E c \in Callers : Reply(c) \/ \E b \in Bodies : Ask(c, b)

ServiceSpec == ServiceInit /\ [][ServiceNext]_serviceVars
=============================================================================
