# go-exons in TLA+

go-exons parses prompt documents (YAML frontmatter, and a body of text and `{~exons.…~}` tags),
composes them (extends, include, ref) and renders them into one text in which chat messages are
delimited by markers. This directory holds TLA+ modules of the parts where order, sharing, bounds
and partial failure matter, the configurations that check them with TLC, and proofs that TLAPS
checks. Paths below are relative to the root of the repository.

    tlc -config BodyCache.cfg MCBodyCache        # a run
    tlapm BodyCacheProofs.tla                    # the proofs of a module

`PROJECT.json` maps every definition to the lines it stands for, and lists the runs, the mutant
that shows each property can fail, the disagreements between code and comments, the hazards and
the theorems.

## 1. The system

| Part | State it keeps | Operations | What makes it correct |
|---|---|---|---|
| Body cache (`exons.engine.go`, `ParseBody`) | `bodyCache`, under `bodyCacheMu` | look up, parse without a lock, store | bounded; an entry is an accepted parse of its key; an answer is one a parse could give |
| Resolver registry (`internal/exons.resolver.registry.go`) | tag name to resolver | register (first come), get, has | never replaces, never removes |
| Template registry (`exons.engine.go`) | name to parsed template, under `tmplMu` | register, unregister, get | only parsed templates; a name is taken once |
| Inheritance (`exons.template*.go`, `internal/exons.executor.inheritance.go`) | the chain of one render, the memory of a per-call resolver, the AST all renders of a template share | walk the chain, parse parents, merge blocks, splice `exons.parent` | bounded and acyclic; one chain per render; a render leaves nothing of its own in what it shares |
| Inputs (`exons.inputs.go`) | declarations merged over the chain, the binding | collect, merge, default, seal, validate | the same chain as the body; untrusted inputs sealed; what validates can render |
| Executor (`internal/exons.executor.go`) | depth, output of each body | nodes, branches, loops, cases, tags, error strategies | bounded; an error is returned or has something in its place |
| Include, ref (`internal/exons.executor.builtins.include.go`, `…ref.go`, `exons.resolver.ref.go`) | `Context.Depth`, `RefChain`, `RefDepth` | look up, derive a context, render | the bounds compose; the caller's chain is never lost |
| Messages (`…builtins.message.go`, `exons.rendered.go`) | the enclosing role, in the Go context | open, strip, close, splice, extract | only outermost messages write markers; data cannot |
| Untrusted values (`internal/exons.untrusted.go`, `…builtins.input.go`) | placements of a value | seal, place, refuse | shown once; only to the user's role |
| Context (`exons.context.go`) | data, parent, frame of the render | derive, get, set | a derived context keeps what it does not override |
| Lexer, parser (`internal/exons.lexer.go`, `exons.parser.go`, `exons.markdown.go`) | a position in the source or the tokens, a stack of bodies | scan, parse | any text can be written; every character ends up somewhere; both end |
| Expressions (`internal/exons.expr.*.go`) | none between calls | scan, parse, evaluate, list identifiers | precedence, short circuits; what is listed is what is read |
| Source patches (`exons.patch.go`) | none between calls | edit text, re-parse, compare | the text edit is the edit of the document, or a refusal |
| Hooks (`exons.hooks.go`) | hooks per point, under a lock | register, clear, run a copy | a failing before-hook stops the operation |
| DryRun, Explain (`exons.debug.go`) | none between calls | analyse without rendering | they analyse the document that would be rendered |
| Execution configuration (`execution/`) | a struct of pointers, lists and maps per layer | validate, merge, clone, turn into a request | precedence of layers; no half objects; what is shared is known |
| Requirements, spec | none between calls | validate, derive | modes agree with resources |
| Catalogues, imports, A2A card, tokens, errors, constants | none | formatting, input and output | outside the project, see section 7 |

How they interact. `Engine.Execute` parses and calls `Template.ExecuteWithContext`, which wraps the
per-call parent resolver in a memory, walks the extends chain once for the inputs, walks it again
to splice the bodies, and hands the AST to the executor. The executor calls the resolver of each
tag; include and ref call back into `ExecuteWithContext` and `RenderSpecRef`, the latter through
`ParseBody` and its cache. Two things are shared by goroutines: the engine (its registries and its
cache, each under a lock of its own) and a `*Template`, whose AST is read, and on one path
written, by every render of it.

What is hard here: two callers in the cache between a lookup and a store; a registry that changes
between the two walks of one render; a host resolver that changes its mind; a second render of the
same AST; bounds of three kinds (bodies, includes, references) that must hold together however the
three are nested; an error that is recovered after the body that failed already counted something; a
parser whose loops each look for their own end; an analysis that must list what a render will read,
whichever way the render goes; an edit of text that must be the edit of what the text means.
`PROJECT.json` lists these hazards at their lines.

## 2. Modules

| Module | Is |
|---|---|
| `ParseService` | what `ParseBody` promises, without a cache (abstract) |
| `BodyCache`, `MCBodyCache`, `BodyCacheProofs` | the cache, its instance, its proofs and the refinement of `ParseService` |
| `ExtendsChain`, `MCExtendsChain`, `ExtendsChainProofs` | template registry, the two walks of a chain, the per-call resolver, the shared AST |
| `Inputs`, `MCInputs`, `InputsProofs` | declared inputs over a chain: validation, binding, injection, sealing, in several renders |
| `RenderFrames`, `MCRenderFrames`, `RenderFramesProofs` | one render as a stack of frames: executor, include, ref, messages, sealed inputs, errors |
| `Lexer`, `Parser`, `Reading`, `ReadingTree`, `ReadingProofs`, `MCReading` | a source becomes tokens and the tokens nodes, a step at a time; `ReadingTree` what the AST promises, apart because it recurses over it |
| `Expressions` | scanning, parsing, evaluating and listing the identifiers of an expression (functions) |
| `Blocks` | nodes of a document and the splicing of a document into its parent (functions, on `Expressions`) |
| `Rendering` | what a document renders to, and the messages read back from it (functions, on `Blocks`) |
| `Debugging` | what DryRun and Explain say of a document (functions, on `Rendering`) |
| `Rehearsal`, `MCRehearsal` | one document rehearsed, rendered and explained in any order while its parent changes |
| `PatchSource`, `MCPatchSource`, `PatchSourceProofs`, `PatchDocumentProofs` | edits of frontmatter text beside the same edits of the parsed document |
| `Config` | validating and merging execution configurations, and the request for each provider (functions) |
| `Layers`, `MCLayers`, `LayersProofs` | layers merged, copied, sent and changed in place, in any order (on `Config`) |

`RenderFrames` and `Rendering` are two views of one executor. The first leaves every choice open and
so says what holds of any template; the second takes a template and its data and computes the text,
which is what an analysis of the template can be compared with. `ExtendsChain` and `Blocks` divide
inheritance in the same way: who reads which parent when, and what the merge of two bodies is.

### BodyCache

One action per critical section: `LookupHit`/`LookupMiss` (read lock), `ParseAccepted`/
`ParseRefused` (no lock), `Store` (write lock). A body is a model value. Its parse depends on
whether the grammar is well formed (`Malformed`) and, under `StrictAttributes`, on the resolvers the
attribute walk found: the walk asks the registry one tag at a time, so what it found (`SeenBy`) is
any set between the one known when the parse began and the one known when it ended. On a body that
holds a foreign close the parser never stops (`Endless`, section 4); such a call stays where it is
(`ParseTurns`), and the others go on, since no lock is held over a parse. `Seen` maps a
template to the text it was parsed from, which is all a caller of `ParseService` sees.

### ExtendsChain

`pc` follows `ExecuteWithContext`: `inputs` (`ancestorSpecs`), `resolve` (`ResolveInheritance` on
the way down), `merge` and `splice` (`resolveParentCallsInNodes` reading and assigning a node of the
shared AST), `exec`. One lookup of a parent is one step, so registrations and other renders come
between any two. `scoped` says that the context carries a per-call resolver; `memo` is its memory
for the render. A document has a `Form`, which says which of the two readers (`Engine.Parse`, the
inheritance resolver) accepts it. Documents hold one block with one `exons.parent` nested in a tag,
the case in which the code assigns to the shared node; `spliced` is what stands there.

Abstractions. A read of a node of the AST sees one whole assignment; the data race itself, which the
Go memory model gives no better meaning, is not torn further. The specs collected by the inputs
walk stand for the parents it reached. A failed or finished render forgets its memory and its specs.

### Inputs

What `contextWithInputs` does to a binding, and what `Template.ValidateInputBinding`,
`Template.DeclaredInputs` and `Spec.BindInputs` do with it before. `chain` is the rendered document
and its parents, `bag` the caller's map under `input`, `flat` the caller's data under the names
themselves (what `exons.var` reads), `ctx` the context of each render, with what a parent of it
still holds (`behind`), `form` the defaults a host got
from `DeclaredInputs`. Every call may be made at any time and any number of times. A value is its kind
(absent, nil, blank, text, off its options, sealed, an empty or a full list, a map); for a list or a map,
the party whose copy it is; and for a sealed value, which seal it is (who made it, and for which of the
two names), since a seal counts its own placements. As to whose copy: `deepCopyValue` makes a list one's own, a call that does not copy hands on another's.
Host code may change a list it was handed (`EditForm`, `EditInput`: `Context.Get` returns the value
itself); `changed` records whose list was changed and by whom. `Satisfies` and `IsUnbound` are the two tests of emptiness in the code: validation uses the first, binding and injection the second.
The nearest declaration of a name decides (`DefOf`), whatever it takes back of its parents'. A path
into a value, `input.x.f` or `x.f`, is looked up as `getPath` does: from a seal it goes on to the parent
of the context (`Field`), unless the tag is `exons.var`, which refuses it (`VarField`).

Abstractions. Lists and one map with one field stand for every value `deepCopyValue` copies; what it hands on by reference
(structs, pointers) is shared, as its comment says, and is left out. A caller without `input`, or
with nil there, is one with an empty map. Of a referenced document, whose inputs are merged by
`refInputBinding` under `input` only, the run has nothing. The refusal of a
sealed value in a message that is not the user's is in `RenderFrames`; chains that cannot be completed
are in `ExtendsChain`, and here every chain is whole.

### RenderFrames

A stack of frames, one per `executeNodes` in progress and one per render (the root, an include, a
reference). Each carries what the code passes down: the executor's depth (`nest`), the include
depth and the reference chain of the context, the role of the outermost enclosing message of the
Go context, and whether the context holds the sealed input. The next node is chosen freely, so a
run covers every template of at most `Budget` nodes, not one example. Output is the set of marks
the properties tell apart. `handleTagError` is a choice between returning the error and putting
something in the place of the tag: which strategy applies is data.

Abstractions. `MaxDepth` is positive (`WithMaxDepth(0)` switches the bounds on bodies and includes
off, and nothing is bounded then). One sealed value is followed. The template that is executed may have
it; an include hands it on in `with=` or does not, and a reference's context keeps it; and while no
render has it, an included or referenced document may seal it itself, if it declares it (`MaySeal`). A condition, a collection and a case are open: a group is opened or not. Exceeding
`MaxOutputSize` is the step `BodyTooLarge`, possible at any node.

### Lexer, Parser, Reading

A source is a sequence of atoms: the characters that delimiters, escapes and fences are made of, and
words. The lexer takes one construct per step, and the order in which the code tries them is the
order of the guards: an escaped delimiter, a verbatim fence, an inert markdown region, a close, a
tag, text. `regions` is found once, before the first step, as `inertRegions` is. The parser's
recursive descent is a stack of frames, one for each function that reads a body, and each loop has
two halves: it looks for what ends its body, and else lets `parseNode` read one node. Each frame
keeps the position of its tag and, for a conditional, of the branch being read (`head`), which the
code captures before it reads on. `raw` is where a node's raw source begins and ends.

Abstractions. The name of an attribute is a run of words, and its equals sign and value are read with
it as one token (`AttrValue` has both quotes and the escapes of the quote and the backslash). Positions
are offsets; a text is what it consists of, so lines and columns are left out. `parseSwitch` skips any text between two
cases, where its comment (`internal/exons.parser.go:557-559`) speaks of whitespace: `NothingDropped`
makes that exception and names it (`BetweenCases`).

### Expressions, Blocks, Rendering, Debugging, Rehearsal

These follow the code function by function, as recursive operators, so nothing is proved of them.
`Expressions` has the tokenizer with its escapes, the parser by levels of precedence, the evaluator
with its short circuits, its errors and its one panic (two lists or two maps compared for equality;
only `PatchSource` recovers), and the walk that lists the identifiers of an expression. `Blocks`
has `ResolveInheritance`, with what it leaves in the child's own nodes. `Rendering` has the executor
with its branches, loops, cases, error strategies, markers, includes and references; a result
carries, beside its text, the messages that were really written (`said`), the text as it would
be without any (`plain`), and the context paths that were asked for (`reads`, and `theirs` in the
body of a reference). `Debugging` has DryRun's walk and its collections, the preview, and Explain,
which runs the executor without the resolver of references that `ExecuteWithContext` adds.
`Rehearsal` calls the three in any order; each resolves the chain on its own and writes to the
nodes they share. The parent may be registered anew between any two, and a render may bring a
resolver that answers with another parent, or none (`Scoped`); `source` is what the last render
found. Answers to be compared must be about one document: a new registration forgets all, and
a render that finds another body than the registered one forgets what DryRun and Explain said.

Abstractions. Of the functions of expressions, `len` and `isNil`. Numbers are natural numbers. A
document has each block name once. A referenced spec declares no inputs of its own, so
`refInputBinding` adds nothing. Warnings, suggestions and timings are left out. The pieces of a
text are characters and words, and the byte that begins a marker is one piece.

### PatchSource

The frontmatter is a sequence of lines with an indentation, a key and the way the value is written.
`PatchOneEdit` is one round of the code: find the entry by the parsed document, find its lines by
indentation (`EntryEnd`), replace, remove or insert lines, and remove the blocks that became empty.
`Finish` is the verdict: the result is parsed, and compared with the edits made to the parsed
original (`Canonical`), and its comments with the comments there were. The YAML library is external
and modelled by what it accepts (`WellFormed`) and decodes (`Decode`). An edit that would cut an anchor,
an alias or a quoted value of several lines, or go through a scalar inside a flow mapping, is refused.
Two details are coarser than the code: the comments before and after are compared as sets, where
`noNewComments` (`exons.patch.go:370-373`) counts how often each occurs, and there are no YAML merge keys.

What the module assumes of its constants: documents are sequences of lines, where only what a line of a
kind cannot have is excluded (`DocumentsAssumption`; text that is not YAML is allowed, and refused by
`Init`); an edit has a path, and it is not `name` (`EditsAssumption`), which no constructor of
`exons.patch.go` edits. `KeepsOtherLines` is an action property: an edit replaces one span of
lines, each of an entry on its path, and cuts into no entry beside it.

### Config, Layers

A configuration is a function from the fields it sets to their values; a request is a function from
keys to the field that stands there and its value, so that two fields which share a key can be told
apart. `Merge` takes a field whole from the more specific layer, and the options key by key. `Layers`
adds where each field is kept: a cell, made by the configuration that allocated it. `MergeTwo` and
`Clone` allocate cells for all fields. `WriteField`
is an owner that changes a list or map in place, `WriteRequest` a client that changes a list it was
handed in a request (`Lent`). What no copy reaches, the value of an option and what is typed inside
a schema (`required` as a list of strings), has a cell of its own (`held`), which merges, copies and
requests take over as it is (`MergedHeld`, `HeldSent`). A layer that does not exist is one that sets nothing.

Abstractions. Objects within a configuration (an image, a schema) are records that are replaced whole,
as the code does; a schema is one value, with one typed part. Fractions are in hundredths. `GetEffectiveProvider`,
`ProviderFormat`, and the JSON and YAML forms are left out.

## 3. Runs

| Run | States | Shows |
|---|---|---|
| `BodyCache.cfg` | 16,540 | bounded, sound, live but for the parser; refines `ParseService` with stale answers allowed |
| `ExtendsChain.cfg` | 1,180,391 | one chain per render, scoped walks ask their own resolver only, whole merged chains in the shared AST |
| `ExtendsDeep.cfg` | 62,135 | both walks stop at the same bound and at the same cycle |
| `ExtendsNested.cfg` | violation | a render shows another render's parent content |
| `Inputs.cfg` | 1,074,252 | three uses of one binding rule agree, nothing shared, untrusted values sealed once under both names |
| `RenderFrames.cfg` | 1,229,938 | recursion bounded, markers genuine, sealed data with the user only |
| `Reading.cfg` | 623,233 | escapes read back, fences are inert, nothing is lost, raw sources are whole, every step advances |
| `ParseHang.cfg` | violation | a mismatched construct is not refused: the parser stands still |
| `Rehearsal.cfg` | 177,408 | expressions parse as written, the analysis covers the run, messages read back |
| `RehearsalRefs.cfg` | violation | what the body of a reference reads is in no collection of the analysis |
| `PatchSource.cfg` | 42,407 | text edits are document edits, touch nothing else, can be retried and reordered |
| `Layers.cfg` | 98,497 | merges of any shape are layered and valid, and so is what is sent; fields are shared with nobody |

Bounds, and why they are enough.

* BodyCache: two callers, a cache of two, five bodies (one malformed, one the parser never stops on,
  one refused once a resolver is there, two plain). A store that finds the cache full while another caller sits between lookup and
  store needs three bodies that parse and two callers.
* ExtendsChain: two renders, two names, `MaxDepth` 1, five documents, of which one is unreadable for
  the inputs walk's successor and one for `Engine.Parse`. A stale node needs two renders of one
  template; a chain of two parents is the longest that two names and the cycle rule allow.
  The renders are symmetric and the properties treat them alike. ExtendsDeep trades the second
  render for a third name, so that a chain can be demanded one parent beyond `MaxDepth + 1`.
* Inputs: a chain of two, two renders (symmetric, and treated alike by the properties), two names. The
  first name takes every pair of eight declarations and every kind of value, and under the name itself
  nothing, a text, a map or a value the caller sealed; the second is there so
  that a document can declare nothing, or only its parent something, whatever the first does. The
  proofs hold for any number of names, renders and documents.
* RenderFrames: two slugs, two roles, `MaxDepth` 1, `RefMaxDepth` 2, eight nodes: an include and two
  references open at once, a message inside the message of another render, and a failure recovered
  after a placement all fit. The proofs remove the bounds for all but one of its invariants.

* Reading: every source of at most five characters out of six, which is every way two delimiters,
  an escape and a letter can overlap; every three of nine pieces of markdown and verbatim blocks (and
  every four that begin with three), with markdown fences on and off; every three of twenty
  pieces of constructs, alone, inside a branch and inside a case. A branch after a branch, a nested
  close and a close of another tag all fit.
* Rehearsal: eight shapes of document (both branches of an if, both halves of a switch, a loop with
  a limit, a message, a block beside its parent), ten pieces to put in them, four conditions, three
  callers (nothing, scalars, maps and lists), three parents, each of which a render's own resolver may
  answer too; and, in the plainest shape, every
  condition of two levels over three leaves, one of them a string with every escape, and four
  operators of different precedence.
* PatchSource: two edits, of a scalar, a list and a key three levels deep, on frontmatters with
  every combination of a head, a requirements block and a tail. Two edits are what it takes
  for one to find the text another left; the code allows more (`MaxPatchEdits`) and treats each alike.
* Layers: three layers, as the comment on `Merge` has them, out of two definitions, three skills
  (one sets nothing) and two overrides, chosen to set parts of the same objects and keys that
  clash; two configurations are made (`MaxMade`), which is every grouping of the three; one write in place
  (`MaxWrites`): a second could only touch more.

Deadlock is not checked where a render, a reading or an editing ends, or bounds are used up
(ExtendsChain, RenderFrames, Reading, PatchSource, Layers). The state spaces are
finite because `Budget` bounds the nodes of a render, `placed` stops counting at two, `MaxPatchEdits`,
`MaxMade` and `MaxWrites` cap what they name, and each caller, render and name is one of a fixed set;
no other counter needs a cap. `TypeOK` of `ExtendsChain`, `PatchSource`, `Reading` and `Rehearsal` states the
ranges for a reader and is a property of no run; `ReadingIsTyped` proves `Reading`'s and `TypesHold`
`PatchSource`'s.

Fairness. `BodyCache` assumes weak fairness of each caller's next step inside `ParseBody`
(`FairSpec`), since a goroutine waits there only for a mutex that is held for one map operation, and
the Go scheduler is preemptive. It does not make the parser stop: on an `Endless` body each step of the
parse is one of those that change nothing. Calls and registrations are never assumed to happen.
`CallsReturn` is the liveness property that needs it: it excepts a call on such a body, and says that
one hanging call, or many, keep nobody else waiting. `Reading` assumes weak fairness of its only step: one
goroutine that waits for nothing. The counterexample of `ParseHang.cfg` is a loop of steps that are
taken, not a process that stops.

## 4. What the code does and its comments do not say

Each with a run that shows it:

1. `NestedParentIsOwn` (`ExtendsNested.cfg`; `exons.inputs.go:45`): a template is "built to be executed
   many times, concurrently". The merge assigns to nodes of the child's own AST, so an `exons.parent`
   nested in a tag is replaced once and for all, and races with other renders. What remains true is
   that the leftover is always a whole chain (`SplicesWholeChains`).
2. `MismatchedIsRefused` (`ParseHang.cfg`; `docs/template-syntax.md:195-197`): a "mismatched construct"
   is refused when it is parsed. `{~exons.for …~}{~/x~}` is not: `parseNode` answers a block close with
   no node and no error, consuming nothing, and `parseForBody` and the like, which look for their own
   close only, ask it again for ever. `EveryStepAdvances` says that this is the only way to stand still.
3. `ReferencesReported` (`RehearsalRefs.cfg`; `exons.debug.go:182-183`): the collections of DryRun "are
   COMPLETE for statically-analysable references". The body of a referenced spec is rendered in the
   caller's scope and is not walked. `RehearsesTheRun` is what holds: everything else that a
   render asks the caller's context for is in a complete report, when the parent it finds is the registered one.

Read in the code, and shown by no run of this directory:

* `exons.engine.go:29-30`: the body cache "cannot serve a stale answer". Under `WithStrictAttributes` it
  can, when a resolver is registered after the body was cached: `Service!ServiceSpec` fails where
  `LaxService!ServiceSpec` (`AnswersLikeSomeParse`) holds. Without strict attributes the claim is a
  theorem (`FreshWithoutStrictAttributes`).
* `exons.inputs.go:57-58`: "For every chain this walk cannot complete the render is refused anyway". Not
  for a per-call parent whose frontmatter `Engine.Parse` refuses and the resolver strips
  (`exons.template.source.go:89`). And `exons.inputs.go:239`, "errors in exactly the cases where
  ExecuteWithContext refuses": not for a parent whose extends is unreadable (`inheritanceErr` is looked
  at for the executed document only, `exons.inputs.go:261`). `RefusedWhenCut` is the direction that
  holds for well-formed documents.
* `exons.inputs.go:477-478`: a default "satisfies requiredness — the value is never actually absent at
  render". A required input with a default that is bound to an emptied list is accepted and rendered
  as the emptied list: `satisfiesRequired` calls it unanswered, `isUnboundInputValue` calls it bound.
* `exons.inputs.go:50-55`: "PRESENT ⇔ DECLARED". A child that declares a parent's input null hides the
  parent's declaration (`exons.inputs.go:222-226`, `150-152`): the parent's body then meets an undeclared
  input. In the same way a child that repeats a name without `untrusted` unseals what its parent
  declares untrusted. `DeclaredIsPresent` and `UntrustedNeverShown` go by the nearest declaration.
* `internal/exons.executor.builtins.go:312-314`: "a sealed value has no traversable fields". `getPath`
  then looks the whole path up in the parent of the context (`exons.context.go:120-125`), which holds the
  value as it was given. `exons.var` refuses such a path; `exons.input`, loops and expressions show the
  field if the caller's data is in a parent context.
* `exons.debug.go:631`: DryRun "mirrors ExecuteWithContext deliberately". It and Explain have no context,
  so a per-call parent resolver is never asked (`exons.debug.go:644`, `1156`), and both describe, or
  refuse, the document with the registered parent. `Valid` FALSE is then no "positive proof
  ExecuteWithContext would fail" (`exons.debug.go:222`). `RehearsesTheRun` makes the exception.
* `internal/exons.untrusted.go:48-50`: the data "appears exactly once". It appears not at all when the
  body that held the block failed and the failure was recovered. `RepeatsAfterBlock` is what holds.
* `exons.patch.go:274-275`: comment lines at or left of an entry's column "are never part of it and
  always stay". Those between the items of a list are inside its extent and go with it
  (`exons.patch.go:451`), which `exons.patch_test.go:183-184` expects.
* `exons.debug.go:597`: `UnusedVariables` counts the names in variables and loops only, so a name that a
  condition, a switch or an include reads is listed as unused.
* `execution/exons.config.clone.go:3`, `execution/exons.config.types.go:722`: "a deep copy". What the values
  of `ProviderOptions` hold, and lists and maps in a schema that are not `[]any` and `map[string]any`
  (`execution/exons.config.types.go:735-736`, `755-756`), are shared by the original, the copy and every
  request. `LayersStayTheirOwn` says that this reaches only configurations with a layer in common.
* `execution/exons.config.types.go:662`: a response format with an ordering of properties and no schema
  passes `Validate` and panics in `ToGemini` (a write to a nil map); `SentIsLayered` leaves the case out.
* `execution/exons.config.provider.go:175`: an option of the least specific layer stands before a typed
  field of the most specific one, whenever they share a key.
* `internal/exons.expr.evaluator.go:223`: two lists or two maps compared with `==` panic.
* `internal/exons.executor.inheritance.go:186`: a block inside a block that is not overridden is never
  merged, nor is an `exons.parent` or a block inside a default case.

## 5. Proofs

The proof modules extend the modules they are about; the assumptions are the named ASSUMEs of those
modules, which TLC evaluates on the instance of every run.

`BodyCacheProofs`. The inductive invariant says, for each caller, what its place in `ParseBody`
implies: a caller past its lookup has a body and the resolvers known when it began are still known;
a caller at its store holds an accepted parse of the body it asked. The last is what makes a store
keep `CacheHoldsAcceptedParses`, and it is not a consequence of the types. From it follow
`TypeCorrect` and `CacheSound`. `CacheStaysBounded` adds the finiteness of the cache's domain, and
rests on clearing and inserting under one lock: a count checked before the parse would not do.
`ImplementsLaxService` is the refinement step by step
(`Call` is `Ask`; a hit, a refusal and a store are `Reply`; the rest stutters), and
`FreshWithoutStrictAttributes` repeats it against the fresh service under the assumption that
parses do not depend on the resolvers.

`ExtendsChainProofs`. The inductive invariant has three parts. A walk never holds more documents than
the depth allows and no name twice (`Bounded`), which makes `ChainsBounded` inductive. Everything a
walk collected is what the render would be told again (`Traced`), by its per-call resolver or, without
one, by the registry, which registers a well-formed name once; with `Recalled`, which says the same of
the resolver's memory alone, it gives the walk's half of `ScopedParentsOnly`. And how the two walks stand to each other
(`WalksAgree`): why the first walk ended where it did (`Ended`) is still true when the second follows
it (`Leads`), so the second ends at the same document. `OneChain` is what is left of that at the end.
`SplicesWholeChains` needs that a chain is whole from the moment its merge begins (`MergesWhole`), not
only when it writes. What a render shows in a nested `exons.parent` may be another's; that it is a
chain some render of the template merged, the other half of `ScopedParentsOnly`, follows what stands in
the AST from the write to the read (`ShownInv`) and a merged render to the end (`MergedStays`).
`TypeCorrect` covers the memory of the resolvers: that a render asks only for
names and remembers only answers. `RefusedOnlyWhenCut` proves the action property `RefusedWhenCut`:
a second walk that fails went where the first could not go on either.

`RenderFramesProofs`. The inductive invariant (`IInv`) is the type invariant, a condition on each
frame, a condition on neighbours and one on the bottom. `Sound` bounds the frame's counters and
forbids repetition in its chain; `Clean` says that its output so far holds nothing but what its
role allows; `Height` bounds the position of a frame by its include depth, chain and nesting;
`Linked` says that a frame extends the chain, and keeps the enclosing role, of the frame below.
`StackBounded` alone is not inductive: that an include inside a reference costs a level is visible
only in `Height`. Nor is `UntrustedOnlyForUser`: that a frame under a system message never collects
a block needs the roles linked from frame to frame; it does not rest on which frames hold the sealed
value, so includes and references may be handed it, or seal it, anywhere. Theorems: `TypeCorrect`, `RendersAreBounded`,
`ReferencesAreSound`, `MarkersAreGenuine`, `UntrustedStaysWithUser`, `PointersHaveTheirBlock`, for
every `Budget`, every positive `MaxDepth`, every `RefMaxDepth` and every set of slugs and roles.

`InputsProofs`. The inductive invariant is the types, `NothingShared`, and four facts: a list a host
holds from `DeclaredInputs` is its own (`Mine`); `BindInputs` filled in only what was unbound, with the
document's own default (`Bound`); a verdict of the validation survives `BindInputs` (`Clean`); and what
injection left in a context in progress (`Ready`): above all that what is sealed under its own name is the
very seal that is under `input`, and what a parent of the context still holds. The properties say what renders see, and none
speaks of the caller's map after binding: `Bound` and `Clean` are what makes them inductive. That a
declared name has a nearest document, which `CHOOSE` picks, rests on `LeastElement`: any set of natural
numbers has a least one. It is an induction, obtained from the library's well-founded order of
finite subsets, since the induction rule for numbers cannot be instantiated here.

`LayersProofs`. `MergesAreLayered`: the last layer to set a field decides, whatever the order in which
configurations were merged, copied and merged again. The invariant (`IsLayered`) says of every
configuration what the property says of it; the lemmas are that the layers of a merge are the layers
of the two one after the other (`ConcatenatedLayers`, `MergeOfLayered`), and that a merge of layers that
are valid field by field is valid (`ValidLayers`). `ConfigsAreTheirOwn`: a cell names the configuration
that made it, and what no copy reaches names the layer it is from (`OwnCells`,
`HeldByLayers`); what has been touched is a field of a written configuration, or what it holds of its
layers (`TouchedCells`). A merge is of the layers of both, so it holds what is theirs. The theorems are about every set of layers; `LayersAssumption` says only
that a layer is a map from fields to values.

`SentAsLayered` covers all seven providers and every configuration that layers can
make. A request is written part by part (`Over`), and each part is shown to be asked for by fields of
its own (`Asks`, `Apart`): a key of the request is one that a field asks for when it stands alone, and
only the options may ask for another's. That nothing the last layer sets is lost is `Kept`, with
`Stands` for the keys that another field took over: the response format takes the key of the audio
format, and an option may replace Gemini's `generationConfig`, as the property allows.

`ReadingProofs`. The sources are any sequences (`SourcesAssumption`), the words any set. The functions of
the lexer that recurse (`ScanMarkdownFences`, `AttrValue`, the attributes of `ScanTag`) look only ahead
and are bounded by the source: what they return comes by an induction downwards from its end
(`Downward`, from the least exception). So each construct ends behind where it begins, or nowhere, and
its tokens have the shape of a tag, a verbatim block or a close (`OpenTagEnds`, `BlockCloseEnds`,
`FenceEnds`, `TextEnds`). The invariant of the lexer (`LexInv`) has the regions in their order
(`FencesInOrder`), a cursor that has passed only what is behind `pos`, and tokens that stand where they
may (`Standing`): the cursor's region is then the only one that can contain `pos` (`WhereFences`).
`FencesStayInert` needs all three; that regions do not overlap is what lets the lexer look at one alone.
`ReadingAdvances` needs in addition that what the parser takes without looking is there (`Shaped`,
`Ahead`): the close of every tag, the three tokens of a block close, the end of a verbatim block, and
the end of the tokens behind each of them; and that `parseNode` is entered only when nothing ends the
body, so that a block close it does nothing with is `StrayClose`, the one place where reading can stand
still. `ReadingIsTyped` rests on `Stacked`: the document is at the bottom of the frames and a case stands
exactly on a switch, since what ends a case takes two frames at once and `parseNode` is never entered on
a switch.

`PatchSourceProofs` (the lines) and `PatchDocumentProofs` (what they say). All five properties of the
run, for every set of documents and edits and every `MaxPatchEdits`.
The model's recursions run along the text; what they return comes by induction over the line numbers
(`Upward`), so that each is known by what it says of a line: which scalar a line continues (`OpenedIs`),
which key is above it (`ParentIs`), which path it has (`PathIs`), where an entry ends (`EntryEndIs`).

- Every edit that is not refused replaces the lines `a..e` of an entry, or inserts behind it, by a block
  of new lines (`EditIs`, `Edited`). `Spliced` says where every other line is afterwards, and that no
  scalar, parent or owner changes at the seams; that the new lines open or close nothing rests on where
  `EntryEnd` stops (`QuietIs`, `EntryFollowed`). So the text stays well-formed (`WellFormedAfter`,
  `EditsStayWellFormed`), which makes `PatchInv` inductive. `TypesHold` follows, and `EditsKeepOtherLines`
  by looking at which entries have a line within `a..e` (`KeptBesideIs`).
- What the text reads as (`TextEditsAreDocumentEdits`): a key that is kept tells the same facts
  (`KeptFacts`), those that are lost told only of the path (`SetReads`, `FlowReads`, `RemovedReads`).
  `ReadsAsWanted`, the invariant, relates the text to all edits so far. It excludes documents with a
  scalar that keeps its blank lines (`|+`): there it may be false, and the self-check then refuses the edit.
  `NoSelfCheckFails` is what is left of it at the end.
- `RetriedEditsChangeNothing`: the lines that were written end where they were made to end
  (`NewEntryEnds`), are found again under the same path and written again (`SetAgain`, `FlowAgain`); what
  was removed is not found (`RemovedAgain`). It needs one more invariant: the document keeps its name
  (`StaysNamed`), so the text never becomes empty.
- `EitherOrderWillDo`: an edit is described by paths alone (`Turned`, `TurnedIs`): the document and the
  keys before and after, and the blocks it emptied. The hard case is a block that either of two
  removals, or neither alone, empties (`EmptiedFirst`, `EmptiedLast`), and a block that one edit writes
  into before or after the other would have emptied it (`SetStays`).

Only model-checked, and why:

- `CallsReturn` (liveness under fairness).
- `EscapingReadsBack`, `NothingDropped` and `RawSourceIsWhole` of `Reading`: they speak of all texts or
  of the whole AST, which are inductions over data; `AllNodes` is a RECURSIVE operator.
- `Rehearsal`, with `Expressions`, `Blocks`, `Rendering` and `Debugging`: they follow the code's own
  recursion with RECURSIVE operators, which the prover cannot use.

## 6. Plan

Modules, if there is room for more runs:

1. `Resolvers` and `Hooks`: the engine's pair of resolver and adapter under `SetSpecResolver`; hooks
   that register and clear while a run holds its copy.
2. `Requirements`: the environment's names and the allow lists, beyond the modes `PatchSource` has.
3. Serialization: where a spec that is written and read again loses something.

## 7. Not modelled

Formatting and wording (catalogues, hints, errors, suggestions, token estimates); encoders and
decoders of records (frontmatter, A2A cards and signatures, JSON schema, editor grammars); archive and foreign-format imports, which are input and output; the examples. The rest of
what section 1 names and section 2 does not is in the plan. A `*Template` without an engine, and a
`TemplateExecutor` that is not an `*Engine`, are left out of `ExtendsChain`: no entry point of the
library makes the first, and the second has the exception its comment names.
