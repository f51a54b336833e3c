----------------------------- MODULE Debugging -----------------------------
(***************************************************************************)
(* What is said of a document without running it, or beside running it     *)
(* (exons.debug.go): DryRun lists what the document refers to and previews *)
(* it with placeholders, Explain outlines it, runs it and lists its        *)
(* variables.                                                              *)
(***************************************************************************)
EXTENDS Rendering

\* A path in the caller's data, of one map.
Find(data, path) == IF path = <<>> THEN <<>> ELSE Walk(Map(data), Parts(path))
HasPath(data, path) == Find(data, path) # <<>>

-----------------------------------------------------------------------------
(* The report.  complete is AnalysisComplete: nothing was left out. *)

Nowhere ==
  [variables |-> {}, inputs |-> {}, includes |-> {}, conditionals |-> {}, switches |-> {},
   loops |-> {}, resolvers |-> {}, complete |-> TRUE]

Both(r, s) ==
  [f \in DOMAIN r |-> IF f = "complete" THEN r[f] /\ s[f] ELSE r[f] \cup s[f]]

All(reports) == FoldLeft(Both, Nowhere, reports)

\* The paths of an expression; one that cannot be parsed leaves the report incomplete.
Asked(test) == ExpressionIdentifiers(test)

Variable(node, data) ==
  LET name == GetOr(node.attrs, "name", <<>>)
  IN  [name |-> name, default |-> Has(node.attrs, "default"), inData |-> HasPath(data, name)]

ProcessTag(node, data, world) ==
  CASE node.name = "exons.var" ->
         [Nowhere EXCEPT !.variables = {Variable(node, data)}, !.complete = Has(node.attrs, "name")]
    [] node.name = "exons.include" ->
         LET name == GetOr(node.attrs, "template", <<>>)
         IN  [Nowhere EXCEPT !.includes =
                {[name |-> name, attrs |-> node.attrs, exists |-> name \in DOMAIN world.registry]}]
    [] node.name = "exons.input" ->
         LET name == GetOr(node.attrs, "name", <<>>)
         IN  [Nowhere EXCEPT !.inputs = {[name |-> name, declared |-> name \in world.declared]},
                             !.complete = Has(node.attrs, "name")]
    [] node.name = "exons.raw" -> Nowhere
    [] OTHER ->
         [Nowhere EXCEPT !.resolvers =
            {[name |-> node.name, attrs |-> node.attrs, registered |-> node.name \in Registered]}]

Tests(node) == [k \in DOMAIN node.arms |-> node.arms[k].test]

Branches(tests, asked) ==
  [Nowhere EXCEPT
     !.conditionals = {[k \in DOMAIN asked |-> [test |-> tests[k], paths |-> asked[k].paths]]},
     !.complete = \A k \in DOMAIN asked : asked[k].known]

\* Variant: only the first condition is looked at.
ProcessFirstBranch(node) == Branches(Tests(node), <<Asked(node.arms[1].test)>>)

ProcessConditional(node) ==
  Branches(Tests(node), [k \in DOMAIN node.arms |-> Asked(node.arms[k].test)])

ProcessFor(node, data) ==
  [Nowhere EXCEPT !.loops =
     {[item |-> node.attrs["item"], source |-> node.test, inData |-> HasPath(data, node.test)]}]

\* Only a case that is an expression names paths; asked begins with what the switch is on.
Cases(node, asked) ==
  [Nowhere EXCEPT
     !.switches = {[on |-> node.test, paths |-> asked[1].paths,
                    cases |-> [k \in DOMAIN node.arms |-> asked[k + 1].paths]]},
     !.complete = \A k \in DOMAIN asked : asked[k].known]

ProcessSwitch(node) ==
  Cases(node, [k \in 1..(Len(node.arms) + 1) |->
                 Asked(IF k = 1 THEN node.test
                       ELSE IF node.arms[k - 1].when = "eval" THEN node.arms[k - 1].test
                       ELSE <<>>)])

\* The node itself, and every arm of it.
RECURSIVE WalkNode(_, _, _)
WalkNode(node, data, world) ==
  Both(CASE node.kind = "tag" -> ProcessTag(node, data, world)
         [] node.kind = "if" -> ProcessConditional(node)
         [] node.kind = "for" -> ProcessFor(node, data)
         [] node.kind = "switch" -> ProcessSwitch(node)
         [] node.kind \in {"text", "block"} -> Nowhere,
       All([k \in DOMAIN node.arms |->
              All([j \in DOMAIN node.arms[k].kids |->
                     WalkNode(node.arms[k].kids[j], data, world)])]))

-----------------------------------------------------------------------------
(* The preview. *)

Printed(val) == IF val.type = "nil" THEN <<"<nil>">> ELSE SwitchString(val)

Preview(path, attrs, data) ==
  LET found == Find(data, path)
      default == GetOr(attrs, "default", <<>>)
  IN  IF found # <<>> THEN Printed(found[1])
      ELSE IF default # <<>> THEN default
      ELSE <<"{{">> \o GetOr(attrs, "name", <<>>) \o <<"}}">>

Sign(word, text) == <<"{{", word>> \o text \o <<"}}">>

RECURSIVE Placeholders(_, _)
Placeholders(nodes, data) ==
  LET InArms(n, Opening(_)) ==
        FlattenSeq([a \in DOMAIN n.arms |-> Opening(a) \o Placeholders(n.arms[a].kids, data)])
      Branch(n, a) ==
        IF a = 1 THEN Sign("if:", n.arms[1].test)
        ELSE IF n.arms[a].when = "else" THEN Sign("else", <<>>)
        ELSE Sign("elseif:", n.arms[a].test)
      Case(n, a) ==
        CASE n.arms[a].when = "value" -> Sign("case:", n.arms[a].test)
          [] n.arms[a].when = "eval" -> Sign("case eval:", n.arms[a].test)
          [] n.arms[a].when = "default" -> Sign("default", <<>>)
      PlaceholdersOf(n) ==
        CASE n.kind = "text" \/ IsTag(n, "exons.raw") -> n.test
          [] IsTag(n, "exons.var") -> Preview(GetOr(n.attrs, "name", <<>>), n.attrs, data)
          [] IsTag(n, "exons.input") -> Preview(InputPath(GetOr(n.attrs, "name", <<>>)), n.attrs, data)
          [] IsTag(n, "exons.include") -> Sign("include:", GetOr(n.attrs, "template", <<>>))
          [] n.kind = "if" -> InArms(n, LAMBDA a : Branch(n, a)) \o Sign("/if", <<>>)
          [] n.kind = "for" -> Sign("for:", n.attrs["item"] \o <<" in ">> \o n.test)
                                 \o InArms(n, LAMBDA a : <<>>) \o Sign("/for", <<>>)
          [] n.kind = "switch" -> Sign("switch:", n.test) \o InArms(n, LAMBDA a : Case(n, a))
                                    \o Sign("/switch", <<>>)
          [] n.kind = "block" -> InArms(n, LAMBDA a : <<>>)
          [] OTHER -> Sign(n.name, <<>>) \o InArms(n, LAMBDA a : <<>>)
  IN  FlattenSeq([k \in DOMAIN nodes |-> PlaceholdersOf(nodes[k])])

-----------------------------------------------------------------------------
(* DryRun.  The data is the caller's; the preview has the declared defaults as well. *)

MissingVariables(report) == {v.name : v \in {v \in report.variables : ~v.inData /\ ~v.default}}

\* Only variables and loops use a key of the data here.
UnusedVariables(report, data) ==
  LET used == {v.name : v \in {v \in report.variables : v.inData}}
                \cup {l.source : l \in {l \in report.loops : l.inData}}
  IN  {key \in DOMAIN data : ~\E path \in used : path = key \/ IsPrefix(Append(key, "."), path)}

ReportOf(nodes, template, data, world) ==
  All([k \in DOMAIN nodes |->
         WalkNode(nodes[k], data,
                  [registry |-> world.registry, declared |-> DOMAIN template.declared])])

Answered(chain, report, template, data) ==
  [refs |-> [report EXCEPT !.complete = @ /\ ~Refused(chain.outcome)],
   valid |-> ~Refused(chain.outcome),
   missing |-> MissingVariables(report),
   unused |-> UnusedVariables(report, data),
   output |-> Placeholders(chain.ast, WithInputs(data, template.declared))]

DryRun(template, data, world) ==
  LET chain == ResolveInheritance(template.nodes, world.registry)
  IN  Answered(chain, ReportOf(chain.ast, template, data, world), template, data)

-----------------------------------------------------------------------------
(* Running a document, and explaining it. *)

\* The context a call starts from.  specs is what references may name in it, parents where the
\* documents it runs look for the ones they extend.
Start(template, data, world, specs, parents) ==
  [frames |-> <<WithInputs(data, template.declared)>>, strategy |-> world.strategy, nested |-> 0,
   includes |-> 0, refs |-> <<>>, role |-> <<>>, specs |-> specs, adapter |-> world.specs,
   registry |-> world.registry, parents |-> parents]

\* ExecuteWithContext gives the context the engine's spec resolver.  The resolver of parents that
\* a call brings stands in the registry's place, also for a name the registry knows.
Execute(template, data, world, parents) ==
  RunDocument(template.nodes, Start(template, data, world, world.specs, parents))

\* The lines of the outline: how deep, and what stands there.
RECURSIVE FormatAST(_, _)
FormatAST(nodes, depth) ==
  LET Labelled(n, a) ==
        IF n.arms[a].when = "body" THEN FormatAST(n.arms[a].kids, depth + 1)
        ELSE <<<<depth + 1, n.arms[a].when>>>> \o FormatAST(n.arms[a].kids, depth + 2)
      Outlined(n) == <<<<depth, n.kind>>>> \o FlattenSeq([a \in DOMAIN n.arms |-> Labelled(n, a)])
  IN  FlattenSeq([k \in DOMAIN nodes |-> Outlined(nodes[k])])

RECURSIVE VariableAccesses(_, _)
VariableAccesses(nodes, data) ==
  LET Own(n) == IF ~IsTag(n, "exons.var") THEN {}
                ELSE {[path |-> GetOr(n.attrs, "name", <<>>),
                       found |-> HasPath(data, GetOr(n.attrs, "name", <<>>))]}
      Accesses(n) == Own(n) \cup UNION {VariableAccesses(n.arms[a].kids, data) : a \in DOMAIN n.arms}
  IN  UNION {Accesses(nodes[k]) : k \in DOMAIN nodes}

\* Explain runs the executor itself, in a context that no resolver is put into, neither of specs
\* nor of parents.
Explain(template, data, world) ==
  LET chain == ResolveInheritance(template.nodes, world.registry)
  IN  [outline |-> FormatAST(chain.ast, 1),
       ran |-> RunChain(chain, Start(template, data, world, <<>>, world.registry)),
       variables |-> IF Refused(chain.outcome) THEN {} ELSE VariableAccesses(chain.ast, data)]

=============================================================================
