---------------------------- MODULE ExtendsChain ----------------------------
(***************************************************************************)
(* Template.ExecuteWithContext for a template that extends others.  A       *)
(* render walks the chain of parents twice: ancestorSpecs collects the      *)
(* declared inputs (exons.inputs.go) and ResolveInheritance splices the     *)
(* bodies together (internal/exons.executor.inheritance.go).  A parent      *)
(* comes from the engine's registry, which other goroutines change, or from *)
(* a per-call resolver the host scopes to the request, whose answers are    *)
(* remembered for the render.  Renders of one Template share its AST.       *)
(*                                                                         *)
(* A resolver of the host is external: asked about a name for the first     *)
(* time in a render, it gives any answer.                                   *)
(***************************************************************************)
EXTENDS Naturals, Sequences, Functions

CONSTANTS
  Renders,       (* ExecuteWithContext calls                                *)
  Names,         (* names of parents                                        *)
  Docs,          (* template sources                                        *)
  Templates,     (* the documents that callers hold parsed and execute      *)
  Extends,       (* document -> the name it extends, or NoParent            *)
  Form,          (* document -> how it fares when read, one of Forms        *)
  MaxDepth,      (* engineConfig.maxDepth, its default when not positive    *)
  NoParent,      (* the document extends nothing                            *)
  Absent,        (* no such template                                        *)
  Down,          (* the per-call resolver failed                            *)
  Unspliced      (* the nested exons.parent is still in the AST             *)

(***************************************************************************)
(* "good"       read by Engine.Parse and by the inheritance resolver        *)
(* "unreadable" parsed by Engine.Parse, which keeps the error of            *)
(*              ExtractInheritanceInfo aside (a second extends, an extends  *)
(*              that is not first); an error for the inheritance resolver   *)
(* "badSpec"    refused by Engine.Parse for its frontmatter (or, under      *)
(*              strict attributes, for an attribute), which the inheritance *)
(*              resolver does not look at                                   *)
(* "badSyntax"  refused by both for its body                                *)
(***************************************************************************)
Forms == {"good", "unreadable", "badSpec", "badSyntax"}

(* What Engine.Parse accepts: what can be registered, or held by a caller.  *)
Parsed == {d \in Docs : Form[d] \in {"good", "unreadable"}}

(* What parseTemplateWithInheritance accepts.                               *)
Spliceable == {d \in Docs : Form[d] \in {"good", "badSpec"}}

ASSUME ChainAssumption ==
  /\ Form \in [Docs -> Forms]
  /\ Extends \in [Docs -> Names \cup {NoParent}]
  /\ Templates \subseteq Parsed
  /\ MaxDepth \in Nat \ {0}
  /\ NoParent \notin Names
  /\ {Absent, Down} \cap Docs = {}
  /\ Absent # Down
  /\ Unspliced \notin Seq(Docs)

VARIABLES
  registry,   (* Engine.templates                                           *)
  spliced,    (* template -> what stands for the exons.parent nested in a   *)
              (* block of its AST: the tag itself, or the bodies of a chain *)
  pc,         (* render -> where it is in ExecuteWithContext                *)
  tmpl,       (* render -> the template it executes                         *)
  scoped,     (* render -> its context carries a per-call resolver          *)
  memo,       (* render -> memoizedTemplateSource.seen                      *)
  specs,      (* render -> parents the inputs walk reached, nearest first   *)
  cut,        (* render -> the inputs walk ended with an error              *)
  docs,       (* render -> parents the resolver reached, nearest first      *)
  found,      (* render -> what its merge read in the shared AST            *)
  result,     (* render -> how it ended, and the nested content it showed   *)
  quiet       (* render -> no registration since it began (history)         *)

renderVars == <<tmpl, scoped, memo, specs, cut, docs, found, result>>
vars == <<registry, spliced, pc, renderVars, quiet>>

Pending == [outcome |-> "pending", nested |-> Unspliced]
RefusedRender == [outcome |-> "refused", nested |-> Unspliced]

Init ==
  /\ registry = [n \in Names |-> Absent]
  /\ spliced = [t \in Templates |-> Unspliced]
  /\ pc = [r \in Renders |-> "idle"]
  /\ tmpl \in [Renders -> Templates]
  /\ scoped \in [Renders -> BOOLEAN]
  /\ memo = [r \in Renders |-> <<>>]
  /\ specs = [r \in Renders |-> <<>>]
  /\ cut = [r \in Renders |-> FALSE]
  /\ docs = [r \in Renders |-> <<>>]
  /\ found = [r \in Renders |-> Unspliced]
  /\ result = [r \in Renders |-> Pending]
  /\ quiet = [r \in Renders |-> TRUE]

-----------------------------------------------------------------------------
(* The registry, under tmplMu: a name is taken once, until it is removed.   *)
Registered(n, d) ==
  /\ registry' = [registry EXCEPT ![n] = d]
  /\ quiet' = [r \in Renders |-> quiet[r] /\ pc[r] = "idle"]
  /\ UNCHANGED <<spliced, pc, renderVars>>

(* Mutant: the source is registered whether or not it parses.               *)
RegisterTemplateUnparsed(n, d) ==
  /\ registry[n] = Absent
  /\ Registered(n, d)

RegisterTemplate(n, d) ==
  /\ registry[n] = Absent
  /\ d \in Parsed
  /\ Registered(n, d)

UnregisterTemplate(n) ==
  /\ registry[n] # Absent
  /\ Registered(n, Absent)

-----------------------------------------------------------------------------
(* The walk of a chain: t is the document executed and ds the parents       *)
(* reached so far.                                                          *)
Furthest(t, ds) == IF ds = <<>> THEN t ELSE ds[Len(ds)]

Chain(t, ds) ==
  [i \in 1..Len(ds) |-> IF i = 1 THEN Extends[t] ELSE Extends[ds[i - 1]]]

(* The name the furthest document asks for.                                 *)
Demanded(t, ds) == Extends[Furthest(t, ds)]

(* Mutant: the bound is on the parents taken instead of the one demanded.   *)
OutOfBoundsLate(t, ds) ==
  \/ Len(ds) > MaxDepth + 1
  \/ \E i \in 1..Len(ds) : Chain(t, ds)[i] = Demanded(t, ds)

(* A parent is refused when it is demanded too deep or is in the chain.     *)
OutOfBounds(t, ds) ==
  \/ Len(ds) > MaxDepth
  \/ \E i \in 1..Len(ds) : Chain(t, ds)[i] = Demanded(t, ds)

Answers == Docs \cup {Absent, Down}

(* Mutant: the registry is looked at first.                                 *)
AnsweredByRegistryFirst(r, n, a) ==
  IF registry[n] # Absent \/ ~ scoped[r] THEN a = registry[n]
  ELSE n \in DOMAIN memo[r] => a = memo[r][n]

(* The answer a to a lookup of n, in either walk.  A per-call resolver wins *)
(* over the registry outright, and answers a repeated question as before.   *)
Answered(r, n, a) ==
  IF ~ scoped[r] THEN a = registry[n]
  ELSE n \in DOMAIN memo[r] => a = memo[r][n]

(* What is remembered after a is the answer for n: the first answer stays.  *)
Learned(seen, n, a) ==
  [x \in DOMAIN seen \cup {n} |-> IF x \in DOMAIN seen THEN seen[x] ELSE a]

(* Mutant: only a document that was found is remembered.                    *)
RememberedIfFound(r, n, a) ==
  memo' = IF scoped[r] /\ a \in Docs
          THEN [memo EXCEPT ![r] = Learned(memo[r], n, a)] ELSE memo

(* memoizedTemplateSource: every outcome is remembered, failures included.  *)
Remembered(r, n, a) ==
  memo' = IF scoped[r]
          THEN [memo EXCEPT ![r] = Learned(memo[r], n, a)] ELSE memo

Goto(r, label) == pc' = [pc EXCEPT ![r] = label]

(* The render returns, and what it held with it: the answers it remembered, *)
(* the specs it collected.                                                  *)
Return(r, outcome) ==
  /\ Goto(r, "done")
  /\ result' = [result EXCEPT ![r] = outcome]
  /\ memo' = [memo EXCEPT ![r] = <<>>]
  /\ specs' = [specs EXCEPT ![r] = <<>>]
  /\ found' = [found EXCEPT ![r] = Unspliced]

-----------------------------------------------------------------------------
(* contextWithInputs: the walk of ancestorSpecs, whose error is discarded.  *)
Start(r) ==
  /\ pc[r] = "idle"
  /\ Goto(r, "inputs")
  /\ UNCHANGED <<registry, spliced, renderVars, quiet>>

InputsWalkEnds(r, error) ==
  /\ Goto(r, "resolve")
  /\ cut' = [cut EXCEPT ![r] = error]

(* The walk ends where inheritanceInfo is nil: at a document that extends   *)
(* nothing, or at a parent whose extends is unreadable.  For the executed   *)
(* document itself inheritanceErr is looked at first.                       *)
InputsRootReached(r) ==
  LET last == Furthest(tmpl[r], specs[r]) IN
  /\ pc[r] = "inputs"
  /\ Extends[last] = NoParent \/ Form[last] = "unreadable"
  /\ InputsWalkEnds(r, Form[last] = "unreadable" /\ specs[r] = <<>>)
  /\ UNCHANGED <<registry, spliced, tmpl, scoped, memo, specs, docs, found, result, quiet>>

Climbs(r, ds) ==
  LET last == Furthest(tmpl[r], ds) IN
  /\ Extends[last] # NoParent
  /\ Form[last] # "unreadable"

InputsOutOfBounds(r) ==
  /\ pc[r] = "inputs"
  /\ Climbs(r, specs[r])
  /\ OutOfBounds(tmpl[r], specs[r])
  /\ InputsWalkEnds(r, TRUE)
  /\ UNCHANGED <<registry, spliced, tmpl, scoped, memo, specs, docs, found, result, quiet>>

(* The walk asks for the parent of its furthest document.                   *)
InputsAsk(r, a) ==
  /\ pc[r] = "inputs"
  /\ Climbs(r, specs[r])
  /\ ~ OutOfBounds(tmpl[r], specs[r])
  /\ Answered(r, Demanded(tmpl[r], specs[r]), a)
  /\ Remembered(r, Demanded(tmpl[r], specs[r]), a)
  /\ UNCHANGED <<registry, spliced, tmpl, scoped, docs, found, result, quiet>>

(* A per-call parent is parsed by Engine.Parse; a registered one was.       *)
InputsParent(r) ==
  \E d \in Parsed :
     /\ InputsAsk(r, d)
     /\ specs' = [specs EXCEPT ![r] = Append(specs[r], d)]
     /\ UNCHANGED <<pc, cut>>

InputsParentMissing(r) ==
  /\ \E a \in Answers \ Parsed : InputsAsk(r, a)
  /\ InputsWalkEnds(r, TRUE)
  /\ UNCHANGED specs

-----------------------------------------------------------------------------
(* resolveInheritance, then ResolveInheritance once per parent.             *)
Refuse(r) == Return(r, RefusedRender)

ExtendsUnreadable(r) ==
  /\ pc[r] = "resolve"
  /\ Form[tmpl[r]] = "unreadable"
  /\ Refuse(r)
  /\ UNCHANGED <<registry, spliced, tmpl, scoped, cut, docs, quiet>>

(* Mutant: the child is merged as soon as one parent is there.              *)
ResolveRootReachedEarly(r) ==
  /\ pc[r] = "resolve"
  /\ Form[tmpl[r]] # "unreadable"
  /\ docs[r] # <<>> \/ Extends[tmpl[r]] = NoParent
  /\ Goto(r, IF docs[r] = <<>> THEN "exec" ELSE "merge")
  /\ UNCHANGED <<registry, spliced, renderVars, quiet>>

(* The chain is complete: a template that extends nothing is executed as it *)
(* is, any other is merged into the document its parents resolved to.       *)
ResolveRootReached(r) ==
  /\ pc[r] = "resolve"
  /\ Form[tmpl[r]] # "unreadable"
  /\ Demanded(tmpl[r], docs[r]) = NoParent
  /\ Goto(r, IF docs[r] = <<>> THEN "exec" ELSE "merge")
  /\ UNCHANGED <<registry, spliced, renderVars, quiet>>

(* Mutant: the resolver stops one parent earlier than the inputs walk.      *)
ResolveOutOfBoundsEarly(r) ==
  /\ pc[r] = "resolve"
  /\ Climbs(r, docs[r])
  /\ OutOfBounds(tmpl[r], docs[r]) \/ Len(docs[r]) >= MaxDepth
  /\ Refuse(r)
  /\ UNCHANGED <<registry, spliced, tmpl, scoped, cut, docs, quiet>>

ResolveOutOfBounds(r) ==
  /\ pc[r] = "resolve"
  /\ Climbs(r, docs[r])
  /\ OutOfBounds(tmpl[r], docs[r])
  /\ Refuse(r)
  /\ UNCHANGED <<registry, spliced, tmpl, scoped, cut, docs, quiet>>

(* The resolver asks for the parent of its furthest document.               *)
ResolverAsk(r, a) ==
  /\ pc[r] = "resolve"
  /\ Climbs(r, docs[r])
  /\ ~ OutOfBounds(tmpl[r], docs[r])
  /\ Answered(r, Demanded(tmpl[r], docs[r]), a)

ResolveParent(r) ==
  \E d \in Spliceable :
     /\ ResolverAsk(r, d)
     /\ Remembered(r, Demanded(tmpl[r], docs[r]), d)
     /\ docs' = [docs EXCEPT ![r] = Append(docs[r], d)]
     /\ UNCHANGED <<registry, spliced, pc, tmpl, scoped, specs, cut, found, result, quiet>>

(* A parent that is missing, or that cannot be read, refuses the render.    *)
ResolveParentRefused(r) ==
  /\ \E a \in Answers \ Spliceable : ResolverAsk(r, a)
  /\ Refuse(r)
  /\ UNCHANGED <<registry, spliced, tmpl, scoped, cut, docs, quiet>>

-----------------------------------------------------------------------------
(* resolveParentCallsInNodes: the children of a tag inside a block of the   *)
(* child are read, rewritten, and assigned back to the node of the child's  *)
(* own AST, with no lock.  A read sees one whole assignment.                *)
MergeRead(r) ==
  /\ pc[r] = "merge"
  /\ found' = [found EXCEPT ![r] = spliced[tmpl[r]]]
  /\ Goto(r, "splice")
  /\ UNCHANGED <<registry, spliced, tmpl, scoped, memo, specs, cut, docs, result, quiet>>

(* Where the read found no exons.parent any more, it assigns what it read.  *)
MergeWrite(r) ==
  /\ pc[r] = "splice"
  /\ spliced' = [spliced EXCEPT ![tmpl[r]] =
                    IF found[r] = Unspliced THEN docs[r] ELSE found[r]]
  /\ Goto(r, "exec")
  /\ UNCHANGED <<registry, renderVars, quiet>>

(* The executor walks the merged tree, of which the nested node is shared.  *)
Exec(r) ==
  /\ pc[r] = "exec"
  /\ Return(r, [outcome |-> "rendered", nested |-> spliced[tmpl[r]]])
  /\ UNCHANGED <<registry, spliced, tmpl, scoped, cut, docs, quiet>>

Walk(r) ==
  \/ InputsRootReached(r)
  \/ InputsOutOfBounds(r)
  \/ InputsParent(r)
  \/ InputsParentMissing(r)
  \/ ExtendsUnreadable(r)
  \/ ResolveRootReached(r)
  \/ ResolveOutOfBounds(r)
  \/ ResolveParent(r)
  \/ ResolveParentRefused(r)

Step(r) == Start(r) \/ Walk(r) \/ MergeRead(r) \/ MergeWrite(r) \/ Exec(r)

Next ==
  \/ \E r \in Renders : Step(r)
  \/ \E n \in Names : UnregisterTemplate(n) \/ \E d \in Docs : RegisterTemplate(n, d)

Spec == Init /\ [][Next]_vars

-----------------------------------------------------------------------------
(* Every variable has its type.                                             *)
TypeOK ==
  /\ registry \in [Names -> Parsed \cup {Absent}]
  /\ spliced \in [Templates -> Seq(Docs) \cup {Unspliced}]
  /\ pc \in [Renders -> {"idle", "inputs", "resolve", "merge", "splice", "exec", "done"}]
  /\ tmpl \in [Renders -> Templates]
  /\ scoped \in [Renders -> BOOLEAN]
  /\ memo \in [Renders -> UNION {[S -> Answers] : S \in SUBSET Names}]
  /\ specs \in [Renders -> Seq(Docs)]
  /\ cut \in [Renders -> BOOLEAN]
  /\ docs \in [Renders -> Seq(Docs)]
  /\ found \in [Renders -> Seq(Docs) \cup {Unspliced}]
  /\ result \in [Renders -> [outcome : {"pending", "refused", "rendered"},
                             nested : Seq(Docs) \cup {Unspliced}]]
  /\ quiet \in [Renders -> BOOLEAN]

Rendered(r) == result[r].outcome = "rendered"

Injective(f) == \A i, j \in DOMAIN f : f[i] = f[j] => i = j

(* Neither walk ever takes more than MaxDepth + 1 parents, and no name      *)
(* appears twice in a chain, even while the registry changes under the walk *)
(* and even if a per-call resolver invents a new parent at every question.  *)
ChainsBounded ==
  \A r \in Renders : \A ds \in {specs[r], docs[r]} :
     /\ Len(ds) <= MaxDepth + 1
     /\ Injective(Chain(tmpl[r], ds))

(* The parents a render's own resolver gave: each document of its chain is  *)
(* the remembered answer to the name demanded there.                        *)
OwnAnswers(r) ==
  \A i \in 1..Len(docs[r]) :
     LET name == Chain(tmpl[r], docs[r])[i] IN
     name \in DOMAIN memo[r] /\ docs[r][i] = memo[r][name]

(* Some render has merged the chain ds into the template t.                 *)
Merged(t, ds) ==
  \E q \in Renders : tmpl[q] = t /\ docs[q] = ds /\ pc[q] \in {"exec", "done"}

(* The chain that a render with a per-call resolver walks and merges holds  *)
(* the answers of that resolver alone: "a host that scopes parents to a     *)
(* request must not have a process-global template answer in its place".    *)
(* That is of the walk.  What any render shows for an exons.parent nested   *)
(* in a block may be the chain of another render (NestedParentIsOwn does    *)
(* not hold), but always one that a render of this very template walked to  *)
(* its root: never a chain in the making, nor that of a refused render.     *)
ScopedParentsOnly ==
  \A r \in Renders :
     /\ scoped[r] /\ pc[r] # "done" => OwnAnswers(r)
     /\ Rendered(r) /\ docs[r] # <<>> => Merged(tmpl[r], result[r].nested)

(* A chain both walks can read: well-formed documents, and for a chain from *)
(* the registry, no registration since the render began.                    *)
Good == {d \in Docs : Form[d] = "good"}
WellFormed(r) ==
  /\ tmpl[r] \in Good
  /\ IF scoped[r] THEN Range(memo[r]) \subseteq Good \cup {Absent, Down}
     ELSE quiet[r] /\ Range(registry) \subseteq Good \cup {Absent}

(* On such a chain the two walks agree: a rendered document's inputs come   *)
(* from the very parents spliced into it, and the inputs walk was not cut   *)
(* short.  Under a per-call resolver, whose answers may change from one     *)
(* question to the next, this is what remembering them is for.              *)
OneChain ==
  \A r \in Renders :
     pc[r] \in {"merge", "splice", "exec"} /\ WellFormed(r) =>
        ~ cut[r] /\ specs[r] = docs[r]

(* On such a chain a render is refused only when the inputs walk already    *)
(* met the reason.                                                          *)
RefusedWhenCut ==
  [][\A r \in Renders :
        pc[r] = "resolve" /\ pc'[r] = "done" /\ WellFormed(r) => cut[r]]_vars

(* Whatever the renders of a template leave in its AST is a whole chain,    *)
(* from the parent it names to a document that extends nothing: a render    *)
(* that is refused leaves nothing behind.                                   *)
SplicesWholeChains ==
  \A t \in Templates : spliced[t] # Unspliced =>
     /\ spliced[t] # <<>>
     /\ Demanded(t, spliced[t]) = NoParent

(* Every render of one template shows, for an exons.parent nested inside a  *)
(* block, the content of its own parents.                                   *)
NestedParentIsOwn ==
  \A r \in Renders : Rendered(r) /\ docs[r] # <<>> => result[r].nested = docs[r]
=============================================================================
