----------------------------- MODULE Rehearsal -----------------------------
(***************************************************************************)
(* A document that is rehearsed (DryRun), rendered (Execute) and explained *)
(* in any order and any number of times, while the template it may extend  *)
(* is registered anew in between.  A render may bring a resolver of its    *)
(* own for that template; a rehearsal and an explanation cannot, and look  *)
(* in the registry whatever the renders do.                                *)
(*                                                                         *)
(* What a caller learns from one of the three is used to decide about the  *)
(* others: a name that DryRun does not list is taken out of the document's *)
(* declarations, what Explain shows is taken for what is rendered, and the *)
(* messages read back from the output are sent.                            *)
(***************************************************************************)
EXTENDS Debugging

CONSTANTS
  Documents,    \* records of nodes, declared inputs, and what the condition says and means
  Callers,      \* the data a caller may bring
  Parents,      \* the bodies the template "base" may have; <<>> stands for not registered
  Templates,    \* the other registered templates
  Specs         \* the documents a reference may name

BASE == <<"base">>

VARIABLES
  doc,          \* the parsed document; its nodes are written to when it is spliced
  data,         \* the caller's data
  strategy,     \* the engine's error strategy
  parent,       \* the body of "base", in a sequence of one, or none
  source,       \* the body of "base" that the last render found
  rehearsed,    \* what each has answered, in a sequence of one, since "base" was last
  rendered,     \* registered, or spliced with another body; none when it was not called
  explained

vars == <<doc, data, strategy, parent, source, rehearsed, rendered, explained>>

World ==
  [registry |-> [name \in DOMAIN Templates \cup (IF parent = <<>> THEN {} ELSE {BASE}) |->
                   IF name = BASE THEN parent[1] ELSE Templates[name]],
   specs |-> Specs,
   strategy |-> strategy]

TypeOK ==
  /\ data \in Callers
  /\ strategy \in Strategies
  /\ {parent, source} \subseteq Parents
  /\ \A answer \in {rehearsed, rendered, explained} : Len(answer) <= 1

Init ==
  /\ doc \in Documents
  /\ data \in Callers
  /\ strategy \in {"throw", "remove"}
  /\ parent \in Parents
  /\ source = parent
  /\ rehearsed = <<>> /\ rendered = <<>> /\ explained = <<>>

\* Each of the three resolves the chain, and so leaves the nodes as the splicing leaves them.
Resolved(parents) == [doc EXCEPT !.nodes = ResolveInheritance(@, parents).own]

\* A resolver of one call that answers with p for "base", and knows no other template.
Scoped(p) == [name \in IF p = <<>> THEN {} ELSE {BASE} |-> p[1]]

Rehearse ==
  /\ rehearsed' = <<DryRun(doc, data, World)>>
  /\ doc' = Resolved(World.registry)
  /\ UNCHANGED <<data, strategy, parent, source, rendered, explained>>

\* A render that finds found where it looks for parents.
RenderFrom(parents, found) ==
  /\ rendered' = <<Execute(doc, data, World, parents)>>
  /\ source' = found
  /\ doc' = Resolved(parents)
  /\ rehearsed' = IF found = parent THEN rehearsed ELSE <<>>
  /\ explained' = IF found = parent THEN explained ELSE <<>>
  /\ UNCHANGED <<data, strategy, parent>>

Render ==
  \/ RenderFrom(World.registry, parent)
  \/ \E p \in Parents : RenderFrom(Scoped(p), p)

Ask ==
  /\ explained' = <<Explain(doc, data, World)>>
  /\ doc' = Resolved(World.registry)
  /\ UNCHANGED <<data, strategy, parent, source, rehearsed, rendered>>

Register ==
  /\ parent' \in Parents \ {parent}
  /\ source' = parent'
  /\ rehearsed' = <<>> /\ rendered' = <<>> /\ explained' = <<>>
  /\ UNCHANGED <<doc, data, strategy>>

Next == Rehearse \/ Render \/ Ask \/ Register

Spec == Init /\ [][Next]_vars

-----------------------------------------------------------------------------
(* A condition is parsed to the tree its author wrote, which is given beside its text: the
   operators bind as the language says they do, those of one level to the left, and every
   escape of a string is undone: of quotes, of the backslash, and of the characters that are
   written by a letter (exons.expr.tokens.go, exons.expr.parser.go). *)
ExpressionsReadBack ==
  doc.tree # <<>> => ParseExpression(doc.text) = doc.tree

(* Every path a report names. *)
Reported(refs) ==
  UNION {
    {v.name : v \in refs.variables},
    {InputPath(i.name) : i \in refs.inputs},
    {i.attrs["with"] : i \in {i \in refs.includes : Has(i.attrs, "with")}},
    {l.source : l \in refs.loops},
    UNION {UNION {c[k].paths : k \in DOMAIN c} : c \in refs.conditionals},
    UNION {s.paths \cup UNION {s.cases[k] : k \in DOMAIN s.cases} : s \in refs.switches}}

(* The three tell of one document.  A complete report names every path the run asks the
   caller's context for, whichever way the run goes and wherever it stops; a document that
   is reported as invalid does not run; and Explain runs what Execute renders, with the same
   output, the same errors and the same reads, where the document has no reference.  This is
   said of renders that find the parent which is registered: DryRun and Explain look nowhere
   else (exons.debug.go:644, 1156), and describe another document than the one that a render
   with a resolver of its own executes. *)
RehearsesTheRun ==
  rehearsed # <<>> /\ rendered # <<>> /\ source = parent =>
    LET refs == rehearsed[1].refs
        run  == rendered[1]
    IN  /\ refs.complete => run.reads \subseteq Reported(refs)
        /\ ~rehearsed[1].valid => run.out = "error"
        /\ explained # <<>> /\ ~(\E r \in refs.resolvers : r.name = "exons.ref")
             => explained[1].ran = run

(* Reading the output back gives the messages that were written, in order and whole, and the
   text without their markers, whatever the data, the included templates and the resolvers of
   the host put between them (ExtractMessages, StripMessageMarkers). *)
MessagesReadBack ==
  rendered # <<>> /\ rendered[1].out = "text" =>
    LET run == rendered[1]
    IN  /\ ExtractMessages(run.text)
             = [k \in DOMAIN run.said |-> [run.said[k] EXCEPT !.content = TrimSpace(@)]]
        /\ StripMessageMarkers(run.text) = run.plain

(* What the comment of DryRunResult promises (exons.debug.go:182): the collections are complete
   for every position where a path of the context can be named, and the one exception is a
   resolver of a third party.  The body of a reference is rendered in the caller's context. *)
ReferencesReported ==
  rehearsed # <<>> /\ rendered # <<>> /\ source = parent =>
    (rehearsed[1].refs.complete =>
       rendered[1].reads \cup rendered[1].theirs \subseteq Reported(rehearsed[1].refs))

=============================================================================
