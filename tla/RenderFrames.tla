---------------------------- MODULE RenderFrames ----------------------------
(***************************************************************************)
(* One render by the executor (internal/exons.executor.go): a stack of      *)
(* frames, one for each executeNodes in progress.  A frame is the body of   *)
(* the executed template (root), of an included template, of a referenced   *)
(* spec, of a message block, or of any other tag, branch or loop body       *)
(* (group).  What a template contains is left open: the next node of a      *)
(* frame is chosen freely, from a budget of Budget nodes for the render, so *)
(* the properties hold for every template of at most so many nodes.         *)
(*                                                                         *)
(* Output is kept as the set of marks the properties tell apart, each with  *)
(* the role of the message it ended up in.                                  *)
(***************************************************************************)
EXTENDS Naturals, Sequences, SequencesExt

CONSTANTS
  Slugs,          (* slugs of specs that {~exons.ref~} may name             *)
  Roles,          (* message roles                                          *)
  User,           (* the user role                                          *)
  NoRole,         (* outside any message                                    *)
  MaxDepth,       (* engineConfig.maxDepth, when positive                   *)
  RefMaxDepth,    (* RefMaxDepth                                            *)
  Budget          (* bound: nodes executed by one render                    *)

ASSUME RenderAssumption ==
  /\ User \in Roles
  /\ NoRole \notin Roles
  /\ MaxDepth \in Nat \ {0}
  /\ RefMaxDepth \in Nat
  /\ Budget \in Nat

Kinds == {"root", "include", "ref", "message", "group"}

(* "marker"   a message marker, written by executeMessage                   *)
(* "delim"    the byte markers are made of, from any other source           *)
(* "residue"  what is left of a marker once that byte is removed            *)
(* "block"    the fenced block of the sealed (untrusted) value followed     *)
(* "repeat"   the pointer back to that block                                *)
What == {"marker", "delim", "residue", "block", "repeat"}
Mark == [what : What, role : Roles \cup {NoRole}]

(* A render may meet many sealed values.  One of them is followed, of those *)
(* in the caller's context or of those a document of the render seals; any  *)
(* other is a leaf like another.                                            *)
VARIABLES
  stack,     (* frames, the one executing last                              *)
  status,    (* "running", "failing" (an error is returned), "rendered",    *)
             (* "failed"                                                    *)
  placed,    (* UntrustedValue.placements of the value followed, up to 2    *)
  left,      (* nodes the render may still execute                          *)
  output,    (* what a finished render returned                             *)
  lost       (* an error discarded the output that held the block (history) *)

vars == <<stack, status, placed, left, output, lost>>

Frame(kind, nest, depth, chain, role, sealed) ==
  [kind |-> kind,       (* what the frame is the body of                    *)
   nest |-> nest,       (* the executor's depth, reset by each render       *)
   depth |-> depth,     (* Context.Depth, the include depth                 *)
   chain |-> chain,     (* Context.RefChain; its length is RefDepth         *)
   role |-> role,       (* the role of the outermost enclosing message      *)
   sealed |-> sealed,   (* the context's `input` holds the value followed   *)
   out |-> {}]          (* marks in the output built so far                 *)

(* Template.Execute starts at depth 0, Engine.ExecuteTemplate at depth 1.   *)
Init ==
  /\ \E depth \in {0, 1}, sealed \in BOOLEAN :
        stack = <<Frame("root", 0, depth, <<>>, NoRole, sealed)>>
  /\ status = "running"
  /\ placed = 0
  /\ left = Budget
  /\ output = {}
  /\ lost = FALSE

Top == stack[Len(stack)]
Emitted(frames, marks) ==
  [frames EXCEPT ![Len(frames)].out = @ \cup marks]

Loose(what) == [what |-> what, role |-> NoRole]

(* StripMarkerBytes.                                                        *)
Stripped(marks) ==
  {m \in marks : m.what \notin {"delim", "marker"}}
    \cup {[m EXCEPT !.what = "residue"] : m \in {n \in marks : n.what = "marker"}}

(* Text, raw content, the answer of a resolver that does not compose, a     *)
(* sealed value other than the one followed, the default or the raw source  *)
(* of a failed tag: whatever bytes it holds.                                *)
Leaf == Stripped({Loose("delim")})

-----------------------------------------------------------------------------
(* Executing the next node of the frame on top.                             *)
NextNode ==
  /\ status = "running"
  /\ left > 0
  /\ left' = left - 1

Text ==
  /\ NextNode
  /\ stack' = Emitted(stack, Leaf)
  /\ UNCHANGED <<status, placed, output, lost>>

(* handleTagError: the strategy of the tag, or else of the context, returns *)
(* the error or puts something in the place of the tag.                     *)
HandleTagError(frames) ==
  \/ status' = "failing" /\ stack' = frames
  \/ status' = "running" /\ stack' = Emitted(frames, Leaf)

(* A tag is unknown, its attributes are refused, or its resolver fails: a   *)
(* template that is not registered, or no longer so at the second lookup, a *)
(* spec that is not found or does not parse, an input that is not declared, *)
(* another sealed value where it is refused.                                *)
TagFails ==
  /\ NextNode
  /\ HandleTagError(stack)
  /\ UNCHANGED <<placed, output, lost>>

(* executeNodes refuses a body one level too deep, and output beyond        *)
(* MaxOutputSize, with an error that no tag handles inside the same render. *)
BodyTooLarge ==
  /\ NextNode
  /\ status' = "failing"
  /\ UNCHANGED <<stack, placed, output, lost>>

Refusing(role) == role \notin {NoRole, User}

(* UntrustedValue.Place: the block, and from then on the pointer to it.     *)
Placed(n) == IF n > 0 THEN Loose("repeat") ELSE Loose("block")

PlaceInput ==
  /\ NextNode
  /\ Top.sealed
  /\ ~ Refusing(Top.role)
  /\ stack' = Emitted(stack, {Placed(placed)})
  /\ placed' = IF placed < 2 THEN placed + 1 ELSE placed
  /\ UNCHANGED <<status, output, lost>>

(* Mutant: the placement is counted before it is refused.                   *)
RefuseInputCounted ==
  /\ NextNode
  /\ Top.sealed
  /\ Refusing(Top.role)
  /\ HandleTagError(stack)
  /\ placed' = IF placed < 2 THEN placed + 1 ELSE placed
  /\ UNCHANGED <<output, lost>>

(* The sealed value is refused in a message that is not the user's.         *)
RefuseInput ==
  /\ NextNode
  /\ Top.sealed
  /\ Refusing(Top.role)
  /\ HandleTagError(stack)
  /\ UNCHANGED <<placed, output, lost>>

Push(frame) ==
  /\ stack' = Append(stack, frame)
  /\ UNCHANGED <<status, placed, output, lost>>

(* A body inside the frame on top: a branch, an iteration, a case, a block, *)
(* the children of a tag.                                                   *)
OpenGroup ==
  /\ NextNode
  /\ Top.nest < MaxDepth
  /\ Push(Frame("group", Top.nest + 1, Top.depth, Top.chain, Top.role, Top.sealed))

(* Mutant: the innermost message decides.                                   *)
WithinInnermost(enclosing, role) == role

(* withinMessage: the outermost message decides the role.                   *)
WithinMessage(enclosing, role) == IF enclosing = NoRole THEN role ELSE enclosing

OpenMessage(role) ==
  /\ NextNode
  /\ Top.nest < MaxDepth
  /\ Push(Frame("message", Top.nest + 1, Top.depth, Top.chain,
                WithinMessage(Top.role, role), Top.sealed))

(* A document of the render may itself seal the value that is followed      *)
(* (untrusted: true) while no other has it.                                 *)
MaySeal == placed = 0 /\ \A i \in 1..Len(stack) : ~ stack[i].sealed

(* Mutant: the depth is compared with > instead of >=.                      *)
OpenIncludeOffByOne ==
  /\ NextNode
  /\ Top.depth <= MaxDepth
  /\ \E sealed \in {FALSE, Top.sealed \/ MaySeal} :
        Push(Frame("include", 0, Top.depth + 1, Top.chain, Top.role, sealed))

(* Mutant: an included template starts a reference chain of its own.        *)
OpenIncludeUnchained ==
  /\ NextNode
  /\ Top.depth < MaxDepth
  /\ \E sealed \in {FALSE, Top.sealed \/ MaySeal} :
        Push(Frame("include", 0, Top.depth + 1, <<>>, Top.role, sealed))

(* Mutant: an included template is rendered outside any message.            *)
OpenIncludeOutside ==
  /\ NextNode
  /\ Top.depth < MaxDepth
  /\ \E sealed \in {FALSE, Top.sealed \/ MaySeal} :
        Push(Frame("include", 0, Top.depth + 1, Top.chain, NoRole, sealed))

(* IncludeResolver.Resolve and executeRegisteredTemplate: a new context for *)
(* the included template, which takes over the reference chain and, with    *)
(* the Go context, the enclosing message.  Its `input` holds a sealed value *)
(* with= hands on in a map, or one it seals itself.                         *)
OpenInclude ==
  /\ NextNode
  /\ Top.depth < MaxDepth
  /\ \E sealed \in {FALSE, Top.sealed \/ MaySeal} :
        Push(Frame("include", 0, Top.depth + 1, Top.chain, Top.role, sealed))

IncludeTooDeep ==
  /\ NextNode
  /\ Top.depth >= MaxDepth
  /\ HandleTagError(stack)
  /\ UNCHANGED <<placed, output, lost>>

InChain(slug) == \E i \in 1..Len(Top.chain) : Top.chain[i] = slug

(* RefResolver.Resolve, RenderSpecRef and refChildContext: the referenced   *)
(* body is rendered in the caller's context with one more slug in its chain *)
(* and what its own spec declares untrusted sealed.                         *)
OpenRef(slug) ==
  /\ NextNode
  /\ Len(Top.chain) < RefMaxDepth
  /\ ~ InChain(slug)
  /\ \E sealed \in {Top.sealed, Top.sealed \/ MaySeal} :
        Push(Frame("ref", 0, Top.depth, Append(Top.chain, slug), Top.role, sealed))

RefRefused(slug) ==
  /\ NextNode
  /\ Len(Top.chain) >= RefMaxDepth \/ InChain(slug)
  /\ HandleTagError(stack)
  /\ UNCHANGED <<placed, output, lost>>

(* spliceRendered: a body another render produced keeps its messages, or    *)
(* only their content when it lands inside one.                             *)
SpliceRendered ==
  /\ NextNode
  /\ stack' = Emitted(stack, IF Top.role = NoRole THEN {Loose("marker")} ELSE {})
  /\ UNCHANGED <<status, placed, output, lost>>

-----------------------------------------------------------------------------
(* The end of a body.                                                       *)
InMessage(marks, role) == {[m EXCEPT !.role = role] : m \in marks}

(* What a finished message contributes to the frame below: its content, and *)
(* its own markers unless it is nested in another message.                  *)
MessageOutput(below) ==
  IF below.role # NoRole THEN Stripped(Top.out)
  ELSE {Loose("marker")} \cup InMessage(Stripped(Top.out), Top.role)

Contributed(below) == IF Top.kind = "message" THEN MessageOutput(below) ELSE Top.out

Close ==
  /\ status = "running"
  /\ Len(stack) > 1
  /\ stack' = Emitted(Front(stack), Contributed(stack[Len(stack) - 1]))
  /\ UNCHANGED <<status, placed, left, output, lost>>

Finish ==
  /\ status = "running"
  /\ Len(stack) = 1
  /\ status' = "rendered"
  /\ output' = Top.out
  /\ UNCHANGED <<stack, placed, left, lost>>

-----------------------------------------------------------------------------
(* An error is returned: the output of the frame on top is discarded.       *)
Discard == lost' = (lost \/ \E m \in Top.out : m.what = "block")

(* Mutant: the frame of the executed template is unwound like any other.    *)
UnwindBodyOrRoot ==
  /\ status = "failing"
  /\ Top.kind \in {"group", "message", "root"}
  /\ Discard
  /\ stack' = Front(stack)
  /\ UNCHANGED <<status, placed, left, output>>

(* Out of a body of the same render, the error is returned further.         *)
UnwindBody ==
  /\ status = "failing"
  /\ Top.kind \in {"group", "message"}
  /\ Discard
  /\ stack' = Front(stack)
  /\ UNCHANGED <<status, placed, left, output>>

(* Out of another render, it is the failure of the include or ref tag.      *)
UnwindRender ==
  /\ status = "failing"
  /\ Top.kind \in {"include", "ref"}
  /\ Discard
  /\ HandleTagError(Front(stack))
  /\ UNCHANGED <<placed, left, output>>

Fail ==
  /\ status = "failing"
  /\ Top.kind = "root"
  /\ status' = "failed"
  /\ UNCHANGED <<stack, placed, left, output, lost>>

Next ==
  \/ Text \/ TagFails \/ BodyTooLarge
  \/ PlaceInput \/ RefuseInput
  \/ OpenGroup \/ OpenInclude \/ IncludeTooDeep \/ SpliceRendered
  \/ \E role \in Roles : OpenMessage(role)
  \/ \E slug \in Slugs : OpenRef(slug) \/ RefRefused(slug)
  \/ Close \/ Finish
  \/ UnwindBody \/ UnwindRender \/ Fail

Spec == Init /\ [][Next]_vars

-----------------------------------------------------------------------------
FrameType ==
  [kind : Kinds, nest : Nat, depth : Nat, chain : Seq(Slugs),
   role : Roles \cup {NoRole}, sealed : BOOLEAN, out : SUBSET Mark]

(* Every variable has its type.                                             *)
TypeOK ==
  /\ stack \in Seq(FrameType)
  /\ stack # <<>>
  /\ status \in {"running", "failing", "rendered", "failed"}
  /\ placed \in 0..2
  /\ left \in 0..Budget
  /\ output \in SUBSET Mark
  /\ lost \in BOOLEAN

(* However includes, references and nested bodies are mixed, the call stack *)
(* of a render is bounded: an include inside a referenced body, or a        *)
(* reference inside an included one, does not start counting afresh.        *)
StackBounded ==
  Len(stack) <= (MaxDepth + RefMaxDepth + 1) * (MaxDepth + 1)

Distinct(s) == \A i, j \in 1..Len(s) : s[i] = s[j] => i = j

(* The reference chain of a frame extends that of every frame below it, is  *)
(* never longer than RefMaxDepth and never names a spec twice, whatever     *)
(* includes lie between the references.                                     *)
ChainsSound ==
  /\ \A i \in 1..Len(stack) :
        /\ Len(stack[i].chain) <= RefMaxDepth
        /\ Distinct(stack[i].chain)
  /\ \A i \in 1..Len(stack) - 1 : IsPrefix(stack[i].chain, stack[i + 1].chain)

Marks == output \cup UNION {stack[i].out : i \in 1..Len(stack)}

(* Markers in the output are those of messages that no message encloses:    *)
(* nothing else can write a marker's byte, and no marker is ever flattened  *)
(* to visible residue inside another message.                               *)
WellMarked == \A m \in Marks : m.what \notin {"delim", "residue"}

(* A sealed value never ends up in a message that is not the user's, not    *)
(* even through a user message nested in it, a reference, or an include it  *)
(* was handed to or that sealed it.                                         *)
UntrustedOnlyForUser ==
  \A m \in Marks : m.what \in {"block", "repeat"} => m.role \in {NoRole, User}

(* Of each sealed value: while no error discarded its block, a pointer back *)
(* to it has one to point to, which is not shown twice.                     *)
Shows(i, what) == \E m \in stack[i].out : m.what = what
RepeatsAfterBlock ==
  /\ ~ lost /\ (\E m \in Marks : m.what = "repeat") => \E m \in Marks : m.what = "block"
  /\ \A i, j \in 1..Len(stack) : Shows(i, "block") /\ Shows(j, "block") => i = j
=============================================================================
