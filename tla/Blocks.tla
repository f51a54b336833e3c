------------------------------- MODULE Blocks -------------------------------
(***************************************************************************)
(* The nodes of a parsed document, and the splicing of a document into the *)
(* one it extends (internal/exons.executor.inheritance.go).                *)
(*                                                                         *)
(* A document has each block name at most once: a second block of a name   *)
(* would get what the first left in the shared nodes.                      *)
(***************************************************************************)
EXTENDS Expressions

CONSTANT MaxInherit     \* the number of documents in a chain

ASSUME BlocksAssumption == MaxInherit \in Nat

(* A node has arms: the body of a tag, of a loop or of a block, the branches of an if,
   the cases of a switch.  An arm is taken by eval (test is an expression), by value (test
   is a text), as the last one (else, default) or always (body). *)
Arm(when, test, attrs, kids) == [when |-> when, test |-> test, attrs |-> attrs, kids |-> kids]
Body(kids) == <<Arm("body", <<>>, <<>>, kids)>>

NodeOf(kind, name, attrs, test, arms) ==
  [kind |-> kind, name |-> name, attrs |-> attrs, test |-> test, arms |-> arms]

\* test: the text itself, the raw content, the path of a loop, the expression of a switch.
Text(content) == NodeOf("text", "", <<>>, content, <<>>)
Single(name, attrs) == NodeOf("tag", name, attrs, <<>>, <<>>)
Tag(name, attrs, kids) == NodeOf("tag", name, attrs, <<>>, Body(kids))
Raw(content) == NodeOf("tag", "exons.raw", <<>>, content, <<>>)
Conditional(attrs, branches) == NodeOf("if", "exons.if", attrs, <<>>, branches)
For(attrs, source, kids) == NodeOf("for", "exons.for", attrs, source, Body(kids))
Switch(attrs, on, cases) == NodeOf("switch", "exons.switch", attrs, on, cases)
Block(name, kids) == NodeOf("block", name, <<>>, <<>>, Body(kids))

Has(attrs, key) == key \in DOMAIN attrs
GetOr(attrs, key, otherwise) == IF Has(attrs, key) THEN attrs[key] ELSE otherwise

IsTag(node, name) == node.kind = "tag" /\ node.name = name

-----------------------------------------------------------------------------
(* What a document extends.  Info is "none", "unreadable" or "extends", with the
   parent's name and the blocks at the root. *)

IsBlankNode(node) == node.kind = "text" /\ IsBlankText(node.test)

ExtractInheritanceInfo(doc) ==
  LET extends == {k \in DOMAIN doc : IsTag(doc[k], "exons.extends")}
      First == CHOOSE k \in extends : \A j \in extends : k <= j
      before == {k \in DOMAIN doc : \A j \in extends : k < j}
      blocks == {k \in DOMAIN doc : doc[k].kind = "block" /\ k \notin before}
      wrong ==
        \/ \E k \in before : IsTag(doc[k], "exons.parent")
        \/ Cardinality(extends) > 1
        \/ extends # {} /\ \E k \in before : ~IsBlankNode(doc[k])
        \/ extends # {} /\ ~Has(doc[First].attrs, "template")
        \/ \E j, k \in blocks : j # k /\ doc[j].name = doc[k].name
  IN  [is |-> IF wrong THEN "unreadable" ELSE IF extends = {} THEN "none" ELSE "extends",
       parent |-> IF wrong \/ extends = {} THEN <<>> ELSE doc[First].attrs["template"],
       blocks |-> blocks]

\* The nodes with the children of every arm replaced by Of of them.
Within(node, takes, Of(_)) ==
  [node EXCEPT !.arms = [k \in DOMAIN @ |->
     IF takes /\ @[k].when # "default" THEN [@[k] EXCEPT !.kids = Of(@)] ELSE @[k]]]

(* An exons.parent is replaced by what the parent has in the block.  The default case of a
   switch is not looked into. *)
RECURSIVE ResolveParentCallsInNodes(_, _)
ResolveParentCallsInNodes(nodes, content) ==
  FlattenSeq([k \in DOMAIN nodes |->
    IF IsTag(nodes[k], "exons.parent") THEN content
    ELSE <<Within(nodes[k], TRUE, LAMBDA kids : ResolveParentCallsInNodes(kids, content))>>])

(* The nodes of the overriding block itself are written to: below its top level they keep
   what was spliced in. *)
LeftInBlock(block, content) ==
  [block EXCEPT !.arms[1].kids =
     [k \in DOMAIN @ |->
        IF IsTag(@[k], "exons.parent") THEN @[k]
        ELSE ResolveParentCallsInNodes(<<@[k]>>, content)[1]]]

(* The parent's nodes with the blocks the child overrides.  A block is taken whole: the
   blocks inside it, and those in the default case of a switch, are not looked at. *)
RECURSIVE MergeBlocksInNodes(_, _)
MergeBlocksInNodes(nodes, blocks) ==
  FlattenSeq([k \in DOMAIN nodes |->
    LET n == nodes[k]
        own == {b \in blocks : b.name = n.name}
    IN  CASE IsTag(n, "exons.extends") -> <<>>
          [] n.kind = "block" /\ own # {} ->
               LET b == CHOOSE b \in own : TRUE
               IN  <<[b EXCEPT !.arms[1].kids = ResolveParentCallsInNodes(@, n.arms[1].kids)]>>
          [] OTHER ->
               <<Within(n, n.kind # "block", LAMBDA kids : MergeBlocksInNodes(kids, blocks))>>])

\* The block of a name that MergeBlocksInNodes comes to.
RECURSIVE BlocksIn(_)
BlocksIn(nodes) ==
  UNION {IF nodes[k].kind = "block" THEN {nodes[k]}
         ELSE UNION {BlocksIn(nodes[k].arms[a].kids) :
                       a \in {a \in DOMAIN nodes[k].arms : nodes[k].arms[a].when # "default"}} :
           k \in DOMAIN nodes}

-----------------------------------------------------------------------------
(* The whole chain.  registry has the body of each registered template.  The answer is the
   document to work on, the outcome, and the document's own nodes after it. *)

Outcome(outcome, ast, own) == [outcome |-> outcome, ast |-> ast, own |-> own]

RECURSIVE ResolveChain(_, _, _)
ResolveChain(doc, registry, chain) ==
  LET info == ExtractInheritanceInfo(doc)
      parent == ResolveChain(registry[info.parent], registry, Append(chain, info.parent))
      blocks == {doc[k] : k \in info.blocks}
      \* A document that could not be spliced is worked on as it is.
      failed == Outcome("failed", doc, doc)
  IN  CASE info.is = "unreadable" -> Outcome("unreadable", doc, doc)
        [] info.is = "none" -> Outcome("none", doc, doc)
        [] OTHER ->
             IF \/ Len(chain) > MaxInherit
                \/ info.parent \in ToSet(chain)
                \/ info.parent \notin DOMAIN registry
                \/ parent.outcome \in {"failed", "unreadable"}
               THEN failed
               ELSE Outcome("resolved", MergeBlocksInNodes(parent.ast, blocks),
                      [k \in DOMAIN doc |->
                         LET theirs == {b \in BlocksIn(parent.ast) : b.name = doc[k].name}
                         IN  IF k \in info.blocks /\ theirs # {}
                               THEN LeftInBlock(doc[k], (CHOOSE b \in theirs : TRUE).arms[1].kids)
                               ELSE doc[k]])

ResolveInheritance(doc, registry) == ResolveChain(doc, registry, <<>>)

=============================================================================
