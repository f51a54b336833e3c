----------------------------- MODULE Rendering -----------------------------
(***************************************************************************)
(* What a document renders to (internal/exons.executor.go and the built-in *)
(* tags), and what is read back from the output: the messages              *)
(* (ExtractMessages) or the text without their markers                     *)
(* (StripMessageMarkers).                                                  *)
(*                                                                         *)
(* A text is a sequence of pieces: characters, and words whose letters do  *)
(* not matter.  The byte that markers begin and end with is a piece.       *)
(*                                                                         *)
(* env is what a body is rendered in: the scopes of names (the innermost   *)
(* first), the error strategy, how deep the nodes, the includes and the    *)
(* references are nested, the role of the enclosing message, the specs a   *)
(* reference may name (none without a resolver), those the engine knows,   *)
(* the registered templates, and the templates a document may extend: the  *)
(* registered ones, or those of the resolver that the call brought.        *)
(***************************************************************************)
EXTENDS Blocks

CONSTANTS MaxNodes, MaxIncludes, MaxRefs     \* how deep each may be nested

ASSUME RenderingAssumption == {MaxNodes, MaxIncludes, MaxRefs} \subseteq Nat \ {0}

INPUT == <<"i", "n", "p", "u", "t">>
KEY == <<"k", "e", "y">>
VALUE == <<"v", "a", "l", "u", "e">>

StartMarker == <<"NUL", "MSG_START", ":">>
EndMarker == <<"NUL", "MSG_END", "NUL">>

StripMarkerBytes(text) == SelectSeq(text, LAMBDA piece : piece # "NUL")

-----------------------------------------------------------------------------
(* Values as text. *)

Numeral[n \in Nat] ==
  LET digit == CHOOSE c \in Digits : DigitsOf[c] = n % 10
  IN  IF n < 10 THEN <<digit>> ELSE Numeral[n \div 10] \o <<digit>>

TRUTH == [b \in {0, 1} |-> IF b = 1 THEN <<"t", "r", "u", "e">> ELSE <<"f", "a", "l", "s", "e">>]

Joined(texts, sep) ==
  FlattenSeq([k \in DOMAIN texts |-> IF k = 1 THEN texts[k] ELSE sep \o texts[k]])

SortedKeys(val) == SetToSortSeq(DOMAIN val.v, Before)

\* The top level is joined by sep; below it lists and maps stand in brackets.
RECURSIVE RenderAt(_, _, _)
RenderAt(val, sep, nested) ==
  LET inner == IF nested THEN <<",", " ">> ELSE sep
      keys == SortedKeys(val)
      elements == Joined([k \in DOMAIN val.v |-> RenderAt(val.v[k], inner, TRUE)], inner)
      entries == Joined([k \in DOMAIN keys |->
                   keys[k] \o <<":", " ">> \o RenderAt(val.v[keys[k]], <<",", " ">>, TRUE)], inner)
  IN  CASE val.type = "nil" -> <<>>
        [] val.type = "str" -> val.v
        [] val.type = "bool" -> TRUTH[val.v]
        [] val.type = "num" -> Numeral[val.v]
        [] val.type = "list" -> IF nested THEN <<"[">> \o elements \o <<"]">> ELSE elements
        [] val.type = "map" -> IF nested THEN <<"(">> \o entries \o <<")">> ELSE entries

RenderValue(val, attrs) == RenderAt(val, GetOr(attrs, "join", <<",", " ">>), FALSE)

\* What a case is compared with.  Lists and maps are printed as Go prints them.
SwitchString(val) ==
  IF val.type \in {"list", "map"} THEN <<"printed">> ELSE RenderAt(val, <<>>, FALSE)

\* What a loop goes over, in one sequence; none when it cannot.
Iterable(val) ==
  LET keys == SortedKeys(val)
  IN  CASE val.type = "nil" -> <<<<>>>>
        [] val.type = "list" -> <<val.v>>
        [] val.type = "map" ->
             <<[k \in DOMAIN keys |->
                 Map([f \in {KEY, VALUE} |-> IF f = KEY THEN Str(keys[k]) ELSE val.v[keys[k]]])]>>
        [] OTHER -> <<>>

-----------------------------------------------------------------------------
(* Results.  said are the messages that message tags wrote and plain is the output without
   their markers, both noted as they are written (history).  reads are the paths the document
   asks the caller's context for, theirs those that the bodies of its references ask for. *)

Result(out, text, said, plain) ==
  [out |-> out, text |-> text, said |-> said, plain |-> plain, reads |-> {}, theirs |-> {}]

Written(text) == Result("text", text, <<>>, text)
Error == Result("error", <<>>, <<>>, <<>>)

Reading(res, paths) == [res EXCEPT !.reads = @ \cup paths]
Carry(from, to) == [to EXCEPT !.reads = @ \cup from.reads, !.theirs = @ \cup from.theirs]

\* One output after another.  An error discards what was written before it, and ends the body.
Then(first, second) ==
  IF first.out # "text" THEN first
  ELSE Carry(first,
             IF second.out # "text" THEN second
             ELSE [second EXCEPT !.text = first.text \o @, !.said = first.said \o @,
                                 !.plain = first.plain \o @])

\* The result of evaluating an expression that did not come to a value.
Broken(ev) == [Error EXCEPT !.out = ev.out, !.reads = ev.reads]

-----------------------------------------------------------------------------
(* Errors.  The attributes of a site are those of a branch or case before its construct's. *)

Strategies == {"throw", "default", "remove", "keepraw", "log"}

GetErrorStrategy(site, env) ==
  LET own == SelectSeq(site, LAMBDA attrs : Has(attrs, "onerror"))
  IN  IF own = <<>> THEN env.strategy
      ELSE IF own[1]["onerror"] \in {<<s>> : s \in Strategies} THEN own[1]["onerror"][1] ELSE "throw"

\* Panics go past every handler.
HandleTagError(res, site, name, env) ==
  LET strategy == GetErrorStrategy(site, env)
      defaults == SelectSeq(site, LAMBDA attrs : Has(attrs, "default"))
  IN  IF res.out = "panic" \/ strategy = "throw" THEN res
      ELSE Carry(res, Written(StripMarkerBytes(
             CASE strategy = "default" -> IF defaults = <<>> THEN <<>> ELSE defaults[1]["default"]
               [] strategy = "keepraw" -> <<"{~", name, "~}">>
               [] OTHER -> <<>>)))

\* An arm is taken or passed by, or its expression fails.
Decided(ev, taken, passed, site, name, env) ==
  IF ev.out # "value" THEN HandleTagError(Broken(ev), site, name, env)
  ELSE Reading(IF IsTruthy(ev.val) THEN taken ELSE passed, ev.reads)

-----------------------------------------------------------------------------
(* Tags. *)

Composing == {"exons.include", "exons.ref"}
Registered == Composing \cup {"exons.var", "exons.input", "exons.message", "exons.raw", "host"}

Roles == {<<"system">>, <<"user">>}

\* The attributes each resolver accepts.
Accepts(node) ==
  CASE node.name = "exons.var" -> Has(node.attrs, "name")
    [] node.name = "exons.input" -> Has(node.attrs, "name") /\ ~Has(node.attrs, "required")
    [] node.name = "exons.include" -> Has(node.attrs, "template")
    [] node.name = "exons.ref" -> Has(node.attrs, "slug")
    [] node.name = "exons.message" -> GetOr(node.attrs, "role", <<>>) \in Roles
    [] OTHER -> TRUE

ResolveVar(attrs, env) ==
  LET found == Get(env.frames, attrs["name"])
  IN  Reading(IF found # <<>> THEN Written(RenderValue(found[1], attrs))
              ELSE IF Has(attrs, "default") THEN Written(attrs["default"])
              ELSE Error,
              {attrs["name"]})

InputPath(name) == INPUT \o <<".">> \o name

IsEmptyInputValue(val) == val.type = "nil" \/ (val.type = "str" /\ val.v = <<>>)

ResolveInput(attrs, env) ==
  LET found == Get(env.frames, InputPath(attrs["name"]))
  IN  Reading(IF found = <<>> THEN Error
              ELSE IF IsEmptyInputValue(found[1])
                THEN Written(GetOr(attrs, "default", <<>>))
              ELSE Written(RenderValue(found[1], attrs)),
              {InputPath(attrs["name"])})

\* What an included template is given: the value at with=, and the other attributes.
ChildData(attrs, env) ==
  LET isolated == GetOr(attrs, "isolate", <<>>) = <<"true">>
      found == IF isolated \/ ~Has(attrs, "with") THEN <<>> ELSE Get(env.frames, attrs["with"])
      scoped == CASE found = <<>> -> Map(<<>>)
                  [] found # <<>> -> IF found[1].type = "map" THEN found[1]
                                     ELSE Map([k \in {<<"_value">>} |-> found[1]])
      others == DOMAIN attrs \ {"template", "with", "isolate"}
  IN  [k \in DOMAIN scoped.v \cup {<<a>> : a \in others} |->
         IF k \in {<<a>> : a \in others} THEN Str(attrs[k[1]]) ELSE scoped.v[k]]

WithReads(attrs) ==
  IF Has(attrs, "with") /\ GetOr(attrs, "isolate", <<>>) # <<"true">> THEN {attrs["with"]} ELSE {}

-----------------------------------------------------------------------------
(* What is read back from an output. *)

\* The first place from i on where what stands, or 0.
RECURSIVE IndexFrom(_, _, _)
IndexFrom(text, what, i) ==
  IF i + Len(what) - 1 > Len(text) THEN 0
  ELSE IF SubSeq(text, i, i + Len(what) - 1) = what THEN i
  ELSE IndexFrom(text, what, i + 1)

From(text, k) == SubSeq(text, k, Len(text))

RECURSIVE RemoveAll(_, _)
RemoveAll(text, what) ==
  LET k == IndexFrom(text, what, 1)
  IN  IF k = 0 THEN text
      ELSE SubSeq(text, 1, k - 1) \o RemoveAll(From(text, k + Len(what)), what)

TrimSpace(text) ==
  LET kept == {k \in DOMAIN text : text[k] \notin Spaces}
  IN  IF kept = {} THEN <<>>
      ELSE SubSeq(text, CHOOSE k \in kept : \A j \in kept : k <= j,
                        CHOOSE k \in kept : \A j \in kept : k >= j)

(* The messages of an output.  A marker without its two fields is passed over; one without
   its end is the last thing looked at. *)
RECURSIVE ExtractMessages(_)
ExtractMessages(text) ==
  LET start == IndexFrom(text, StartMarker, 1)
      role == start + Len(StartMarker)
      first == IndexFrom(text, <<":">>, role)
      second == IndexFrom(text, <<":">>, first + 1)
      end == IndexFrom(text, EndMarker, second + 1)
  IN  CASE start = 0 -> <<>>
        [] start # 0 /\ first = 0 -> ExtractMessages(From(text, role))
        [] start # 0 /\ first # 0 /\ second = 0 -> ExtractMessages(From(text, first + 1))
        [] OTHER ->
             IF end = 0 THEN <<>>
             ELSE <<[role |-> SubSeq(text, role, first - 1),
                     content |-> TrimSpace(SubSeq(text, second + 1, end - 1)),
                     cache |-> SubSeq(text, first + 1, second - 1) = <<"true">>]>>
                  \o ExtractMessages(From(text, end + Len(EndMarker)))

\* An output without its markers; the end of a message is taken before the next one is sought.
RECURSIVE StripMessageMarkers(_)
StripMessageMarkers(text) ==
  LET start == IndexFrom(text, StartMarker, 1)
      first == IndexFrom(text, <<":">>, start + Len(StartMarker))
      second == IndexFrom(text, <<":">>, first + 1)
      end == IndexFrom(text, EndMarker, second + 1)
  IN  IF start = 0 THEN RemoveAll(text, EndMarker)
      ELSE RemoveAll(SubSeq(text, 1, start - 1), EndMarker) \o
           (CASE first = 0 \/ second = 0 -> <<>>
              [] first # 0 /\ second # 0 /\ end = 0 -> From(text, second + 1)
              [] first # 0 /\ second # 0 /\ end # 0 ->
                   SubSeq(text, second + 1, end - 1) \o
                   StripMessageMarkers(From(text, end + Len(EndMarker))))

-----------------------------------------------------------------------------
(* The executor. *)

\* The text between the markers of a message; the role and hint of a nested one are dropped.
Message(attrs, content, nested) ==
  LET role == attrs["role"]
      cache == GetOr(attrs, "cache", <<>>) = <<"true">>
      field == IF cache THEN <<"true">> ELSE <<"false">>
  IN  IF nested THEN Written(content)
      ELSE Result("text", StartMarker \o role \o <<":">> \o field \o <<":">> \o content \o EndMarker,
                  <<[role |-> role, content |-> content, cache |-> cache]>>, content)

RECURSIVE RunNodes(_, _), RunNode(_, _), RunTag(_, _), RunConditional(_, _, _),
          RunFor(_, _, _, _), RunCases(_, _, _, _), Resolve(_, _), RunDocument(_, _)

RunNodes(nodes, env) ==
  IF env.nested > MaxNodes THEN Error
  ELSE IF nodes = <<>> THEN Written(<<>>)
  ELSE Then(RunNode(nodes[1], env), RunNodes(Tail(nodes), env))

Deeper(env) == [env EXCEPT !.nested = @ + 1]

\* The branches from the k-th on.
RunConditional(node, k, env) ==
  LET arm == node.arms[k]
  IN  IF k > Len(node.arms) THEN Written(<<>>)
      ELSE Decided(IF arm.when = "else" THEN Value(Bool(TRUE), {})
                   ELSE EvaluateExpression(arm.test, env.frames),
                   RunNodes(arm.kids, Deeper(env)), RunConditional(node, k + 1, env),
                   <<arm.attrs, node.attrs>>, node.name, env)

Scope(node, item, n) ==
  LET index == GetOr(node.attrs, "index", <<>>)
  IN  [name \in {node.attrs["item"]} \cup ({index} \ {<<>>}) |->
         IF name = index THEN Num(n) ELSE item]

\* The rounds of a loop from the k-th on.
RunFor(node, items, k, env) ==
  IF k > Len(items) THEN Written(<<>>)
  ELSE Then(RunNodes(node.arms[1].kids,
              Deeper([env EXCEPT !.frames = <<Scope(node, items[k], k - 1)>> \o @])),
            RunFor(node, items, k + 1, env))

\* Limits that are not positive leave the loop with the default one, which is not reached here.
Limited(node, items) ==
  LET limit == GetOr(node.attrs, "limit", <<>>)
      most == IF limit = <<>> THEN 0 ELSE LiteralValue(Literal("NUMBER", limit)).v
  IN  IF most > 0 /\ Len(items) > most THEN SubSeq(items, 1, most) ELSE items

ExecuteFor(node, env) ==
  LET found == Get(env.frames, node.test)
      items == IF found = <<>> THEN <<>> ELSE Iterable(found[1])
  IN  Reading(IF items = <<>> THEN HandleTagError(Error, <<node.attrs>>, node.name, env)
              ELSE RunFor(node, Limited(node, items[1]), 1, env),
              {node.test})

\* The cases from the k-th on; the default is the last arm.
RunCases(node, k, on, env) ==
  LET arm == node.arms[k]
  IN  IF k > Len(node.arms) THEN Written(<<>>)
      ELSE Decided(IF arm.when = "eval" THEN EvaluateExpression(arm.test, env.frames)
                   ELSE Value(Bool(arm.when = "default" \/ arm.test = on), {}),
                   RunNodes(arm.kids, Deeper(env)), RunCases(node, k + 1, on, env),
                   <<arm.attrs, node.attrs>>, "exons.case", env)

SwitchOn(ev, node, env) ==
  IF ev.out # "value" THEN HandleTagError(Broken(ev), <<node.attrs>>, node.name, env)
  ELSE Reading(RunCases(node, 1, SwitchString(ev.val), env), ev.reads)

ExecuteSwitch(node, env) == SwitchOn(EvaluateExpression(node.test, env.frames), node, env)

ResolveInclude(attrs, env) ==
  IF attrs["template"] \notin DOMAIN env.registry \/ env.includes >= MaxIncludes THEN Error
  ELSE [RunDocument(env.registry[attrs["template"]],
          [env EXCEPT !.frames = <<ChildData(attrs, env)>>, !.includes = @ + 1,
                      !.strategy = "throw", !.nested = 0,
                      !.specs = IF @ = <<>> THEN env.adapter ELSE @])
        EXCEPT !.reads = WithReads(attrs), !.theirs = {}]

(* What a reference makes of the rendered spec.  One that is ready was rendered by the host in
   a context of its own, and stands in a message without its markers. *)
Referenced(res, ready, env) ==
  IF ~ready THEN [res EXCEPT !.theirs = @ \cup res.reads, !.reads = {}]
  ELSE IF env.role = <<>> \/ res.out # "text" THEN [res EXCEPT !.reads = {}, !.theirs = {}]
  ELSE Written(StripMessageMarkers(res.text))

(* Any other is rendered in the caller's context, one reference deeper. *)
ResolveRef(attrs, env) ==
  LET spec == env.specs[attrs["slug"]]
      context == IF spec.ready THEN [env EXCEPT !.frames = <<<<>>>>, !.role = <<>>, !.nested = 0,
                                                 !.parents = env.registry]
                 ELSE [env EXCEPT !.refs = Append(@, attrs["slug"]), !.nested = 0]
  IN  IF \/ Len(env.refs) >= MaxRefs
         \/ attrs["slug"] \in ToSet(env.refs)
         \/ attrs["slug"] \notin DOMAIN env.specs
        THEN Error
      ELSE Referenced(RunDocument(spec.body, context), spec.ready, env)

Resolve(node, env) ==
  CASE node.name = "exons.var" -> ResolveVar(node.attrs, env)
    [] node.name = "exons.input" -> ResolveInput(node.attrs, env)
    [] node.name = "exons.include" -> ResolveInclude(node.attrs, env)
    [] node.name = "exons.ref" -> ResolveRef(node.attrs, env)
    [] node.name = "host" -> Written(GetOr(node.attrs, "says", <<>>))
    [] OTHER -> Written(<<>>)

Kids(node) == IF node.arms = <<>> THEN <<>> ELSE node.arms[1].kids

Enclose(node, content, env) ==
  IF content.out # "text" THEN content
  ELSE Carry(content, Message(node.attrs, StripMarkerBytes(content.text), env.role # <<>>))

ExecuteMessage(node, env) ==
  Enclose(node,
          RunNodes(Kids(node),
                   Deeper([env EXCEPT !.role = IF @ = <<>> THEN node.attrs["role"] ELSE @])),
          env)

\* Variant: what a resolver answers is written as it is.
AnswerAsIs(node, res) == res

\* Only a message and a composing tag may write the byte of markers.
Answer(node, res) ==
  IF node.name \in Composing \/ res.out # "text" THEN res
  ELSE Carry(res, Written(StripMarkerBytes(res.text)))

\* The kids of a tag follow what its resolver answers.
Followed(node, res, env) ==
  IF res.out # "text" THEN HandleTagError(res, <<node.attrs>>, node.name, env)
  ELSE Then(Answer(node, res),
            IF Kids(node) = <<>> THEN Written(<<>>) ELSE RunNodes(Kids(node), Deeper(env)))

RunTag(node, env) ==
  IF node.name = "exons.raw" THEN Written(StripMarkerBytes(node.test))
  ELSE IF node.name = "exons.message" /\ Accepts(node) THEN ExecuteMessage(node, env)
  ELSE Followed(node,
                IF node.name \in Registered /\ Accepts(node) THEN Resolve(node, env) ELSE Error,
                env)

RunNode(node, env) ==
  CASE node.kind = "text" -> Written(StripMarkerBytes(node.test))
    [] node.kind = "tag" -> RunTag(node, env)
    [] node.kind = "if" -> RunConditional(node, 1, env)
    [] node.kind = "for" -> ExecuteFor(node, env)
    [] node.kind = "switch" -> ExecuteSwitch(node, env)
    [] node.kind = "block" -> RunNodes(Kids(node), Deeper(env))

Refused(outcome) == outcome \in {"unreadable", "failed"}

RunChain(chain, env) == IF Refused(chain.outcome) THEN Error ELSE RunNodes(chain.ast, env)

\* Parents are sought where the call says, whatever is registered under their names.
RunDocument(doc, env) == RunChain(ResolveInheritance(doc, env.parents), env)

-----------------------------------------------------------------------------
(* The declared inputs of a document under the reserved name: what the caller bound, with the
   defaults where nothing is bound (contextWithInputs; the Inputs module has the whole of it). *)

WithInputs(data, declared) ==
  LET bound == IF INPUT \notin DOMAIN data THEN <<>>
               ELSE IF data[INPUT].type = "map" THEN data[INPUT].v ELSE <<>>
      taken == INPUT \in DOMAIN data /\ data[INPUT].type \notin {"nil", "map"}
      merged == [n \in DOMAIN bound \cup DOMAIN declared |->
                   IF n \notin DOMAIN bound THEN declared[n]
                   ELSE IF n \in DOMAIN declared /\ IsEmptyInputValue(bound[n]) THEN declared[n]
                   ELSE bound[n]]
  IN  IF DOMAIN declared = {} \/ taken THEN data
      ELSE [n \in DOMAIN data \cup {INPUT} |-> IF n = INPUT THEN Map(merged) ELSE data[n]]

=============================================================================
