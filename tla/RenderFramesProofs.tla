------------------------- MODULE RenderFramesProofs -------------------------
(***************************************************************************)
(* What holds of a render for templates of any size: for every budget of    *)
(* nodes, every depth bound and every set of specs and roles.               *)
(***************************************************************************)
EXTENDS RenderFrames, SequenceTheorems, TLAPS

(* A frame within the bounds.                                               *)
Sound(f) ==
  /\ f \in FrameType
  /\ f.nest <= MaxDepth
  /\ f.depth <= MaxDepth
  /\ Len(f.chain) <= RefMaxDepth
  /\ Distinct(f.chain)

(* The marks a frame with this role may hold: no stray delimiter, a marker  *)
(* only outside any message, the sealed value only where it is not refused. *)
CleanFor(marks, role) ==
  /\ marks \subseteq Mark
  /\ \A m \in marks :
        /\ m.what \notin {"delim", "residue"}
        /\ m.what = "marker" => role = NoRole
        /\ m.what \in {"block", "repeat"} => ~ Refusing(role) /\ ~ Refusing(m.role)

Clean(f) == CleanFor(f.out, f.role)

(* The highest place in the stack a frame can have.                         *)
Height(f) == (f.depth + Len(f.chain)) * (MaxDepth + 1) + f.nest + 1

(* Frame g is open right above frame f.                                     *)
Linked(f, g) ==
  /\ IsPrefix(f.chain, g.chain)
  /\ g.kind # "message" => g.role = f.role
  /\ g.kind = "message" => g.role # NoRole
  /\ f.role # NoRole => g.role = f.role

StackInv(s) ==
  /\ s \in Seq(FrameType)
  /\ s # <<>>
  /\ s[1].kind = "root"
  /\ \A i \in 1..Len(s) : Sound(s[i]) /\ Clean(s[i]) /\ i <= Height(s[i])
  /\ \A i \in 1..Len(s) - 1 : Linked(s[i], s[i + 1])

IInv ==
  /\ TypeOK
  /\ StackInv(stack)
  /\ CleanFor(output, NoRole)

(* Frame i of stack s holds a mark of this kind.                            *)
ShowsIn(s, i, what) == \E m \in s[i].out : m.what = what

(* What stack s holds of the sealed value once it was placed n times; gone  *)
(* says whether an error discarded its block.                               *)
BlockOnce(s, n, gone) ==
  /\ n = 0 => \A i \in 1..Len(s) : ~ ShowsIn(s, i, "block") /\ ~ ShowsIn(s, i, "repeat")
  /\ \A i, j \in 1..Len(s) : ShowsIn(s, i, "block") /\ ShowsIn(s, j, "block") => i = j
  /\ n > 0 /\ ~ gone => \E i \in 1..Len(s) : ShowsIn(s, i, "block")

BlockInv ==
  /\ BlockOnce(stack, placed, lost)
  /\ output = IF status = "rendered" THEN stack[1].out ELSE {}

-----------------------------------------------------------------------------
(* The top of a stack is one of its frames.                                 *)
LEMMA TopIsFrame ==
  ASSUME NEW s, StackInv(s)
  PROVE  /\ Len(s) \in Nat \ {0}
         /\ s[Len(s)] \in FrameType
         /\ Sound(s[Len(s)]) /\ Clean(s[Len(s)])
         /\ Len(s) <= Height(s[Len(s)])
  BY DEF StackInv

(* Writing marks changes the output of the top frame and nothing else.      *)
LEMMA EmittedFrames ==
  ASSUME NEW s, StackInv(s), NEW marks, marks \subseteq Mark
  PROVE  /\ Emitted(s, marks) \in Seq(FrameType)
         /\ Len(Emitted(s, marks)) = Len(s)
         /\ \A i \in 1..Len(s) : i # Len(s) => Emitted(s, marks)[i] = s[i]
         /\ Emitted(s, marks)[Len(s)] =
              [s[Len(s)] EXCEPT !.out = s[Len(s)].out \cup marks]
<1> DEFINE top == s[Len(s)]
           new == [top EXCEPT !.out = top.out \cup marks]
<1>1. s \in Seq(FrameType) /\ Len(s) \in 1..Len(s) /\ top \in FrameType
  BY TopIsFrame DEF StackInv
<1>2. new \in FrameType
  BY <1>1 DEF FrameType
<1>3. Emitted(s, marks) = [s EXCEPT ![Len(s)] = new]
  BY DEF Emitted
<1> DEFINE t == [s EXCEPT ![Len(s)] = new]
<1>4. /\ t \in Seq(FrameType)
      /\ Len(t) = Len(s)
      /\ \A j \in 1..Len(s) : t[j] = IF j = Len(s) THEN new ELSE s[j]
  <2> HIDE DEF new
  <2> QED BY <1>1, <1>2, ExceptSeq
<1> QED BY <1>1, <1>3, <1>4

LEMMA EmittedKeepsStack ==
  ASSUME NEW s, StackInv(s), NEW marks, CleanFor(marks, s[Len(s)].role)
  PROVE  /\ StackInv(Emitted(s, marks))
         /\ Len(Emitted(s, marks)) = Len(s)
<1> DEFINE t == Emitted(s, marks)
           top == s[Len(s)]
           new == t[Len(s)]
<1>1. /\ Len(s) \in Nat \ {0} /\ top \in FrameType /\ Sound(top) /\ Clean(top)
      /\ Len(s) <= Height(top) /\ marks \subseteq Mark
  BY TopIsFrame DEF CleanFor
<1>2. /\ t \in Seq(FrameType) /\ Len(t) = Len(s)
      /\ \A i \in 1..Len(s) : i # Len(s) => t[i] = s[i]
      /\ new = [top EXCEPT !.out = top.out \cup marks]
  BY <1>1, EmittedFrames
<1>3. /\ new \in FrameType /\ new.out = top.out \cup marks
      /\ new.kind = top.kind /\ new.nest = top.nest /\ new.depth = top.depth
      /\ new.chain = top.chain /\ new.role = top.role
  BY <1>1, <1>2 DEF FrameType
<1>4. Sound(new) /\ Clean(new) /\ Height(new) = Height(top)
  BY <1>1, <1>3 DEF Sound, Clean, CleanFor, Height
<1>5. ASSUME NEW i \in 1..Len(s)
      PROVE  /\ Sound(t[i]) /\ Clean(t[i]) /\ i <= Height(t[i])
             /\ t[i].kind = s[i].kind /\ t[i].chain = s[i].chain /\ t[i].role = s[i].role
  <2>1. CASE i = Len(s)
    BY <2>1, <1>1, <1>3, <1>4
  <2>2. CASE i # Len(s)
    BY <2>2, <1>2 DEF StackInv
  <2> QED BY <2>1, <2>2
<1>6. \A i \in 1..Len(t) - 1 : Linked(t[i], t[i + 1])
  BY <1>1, <1>2, <1>5 DEF Linked, StackInv
<1>7. t # <<>> /\ t[1].kind = "root"
  BY <1>1, <1>2, <1>5 DEF StackInv
<1> QED BY <1>2, <1>5, <1>6, <1>7 DEF StackInv

(* The height of a frame is a natural number.                               *)
LEMMA HeightIsNat ==
  ASSUME NEW f \in FrameType
  PROVE  Height(f) \in Nat
<1> DEFINE n == f.depth + Len(f.chain)
<1>1. n \in Nat /\ f.nest \in Nat /\ MaxDepth + 1 \in Nat
  BY RenderAssumption, LenProperties DEF FrameType
<1>2. n * (MaxDepth + 1) \in Nat
  BY <1>1
<1> QED BY <1>1, <1>2 DEF Height

(* Opening a frame that is sound, holds nothing yet and is linked to the    *)
(* frame below.                                                             *)
LEMMA PushKeepsStack ==
  ASSUME NEW s, StackInv(s), NEW f, Sound(f), f.out = {},
         Linked(s[Len(s)], f), Height(s[Len(s)]) < Height(f)
  PROVE  StackInv(Append(s, f))
<1> DEFINE t == Append(s, f)
<1>1. /\ s \in Seq(FrameType) /\ f \in FrameType
      /\ Len(s) \in Nat \ {0}
  BY TopIsFrame DEF StackInv, Sound
<1>2. /\ t \in Seq(FrameType) /\ Len(t) = Len(s) + 1 /\ t # <<>>
      /\ t[Len(s) + 1] = f
      /\ \A i \in 1..Len(s) : t[i] = s[i]
  BY <1>1
<1>3. Clean(f)
  BY DEF Clean, CleanFor
<1>4. Len(s) + 1 <= Height(f)
  <2>1. Height(s[Len(s)]) \in Nat /\ Height(f) \in Nat
    BY <1>1, TopIsFrame, HeightIsNat
  <2> QED BY <2>1, <1>1, TopIsFrame
<1>5. \A i \in 1..Len(t) : Sound(t[i]) /\ Clean(t[i]) /\ i <= Height(t[i])
  BY <1>1, <1>2, <1>3, <1>4 DEF StackInv
<1>6. \A i \in 1..Len(t) - 1 : Linked(t[i], t[i + 1])
  BY <1>1, <1>2 DEF StackInv
<1> QED BY <1>2, <1>5, <1>6 DEF StackInv

(* Closing a frame leaves the frames below as they are.                     *)
LEMMA FrontKeepsStack ==
  ASSUME NEW s, StackInv(s), Len(s) > 1
  PROVE  /\ StackInv(Front(s))
         /\ Len(Front(s)) = Len(s) - 1
         /\ Front(s)[Len(s) - 1] = s[Len(s) - 1]
<1> DEFINE t == Front(s)
<1>1. s \in Seq(FrameType) /\ Len(s) \in Nat
  BY DEF StackInv
<1>2. t \in Seq(FrameType) /\ Len(t) = Len(s) - 1 /\ \A i \in 1..Len(t) : t[i] = s[i]
  BY <1>1 DEF Front
<1>3. t # <<>>
  BY <1>1, <1>2
<1> QED BY <1>1, <1>2, <1>3 DEF StackInv

-----------------------------------------------------------------------------
(* Products, which the height of a frame is made of.                        *)
LEMMA OneMore == \A n, k \in Nat : (n + 1) * k = n * k + k
  OBVIOUS

LEMMA ProductMonotonic == \A m, n, k \in Nat : m <= n => m * k <= n * k
  OBVIOUS

LEMMA PrefixOfItself == ASSUME NEW S, NEW c \in Seq(S) PROVE IsPrefix(c, c)
  BY DEF IsPrefix

LEMMA PrefixOfAppend ==
  ASSUME NEW S, NEW c \in Seq(S), NEW e \in S
  PROVE  IsPrefix(c, Append(c, e))
<1> DEFINE d == Append(c, e)
<1>1. /\ d \in Seq(S) /\ Len(d) = Len(c) + 1 /\ Len(c) \in Nat
      /\ \A i \in 1..Len(c) : d[i] = c[i]
  OBVIOUS
<1>2. SubSeq(c, 1, Len(c)) = SubSeq(d, 1, Len(c))
  <2>1. /\ SubSeq(c, 1, Len(c)) \in Seq(S) /\ SubSeq(d, 1, Len(c)) \in Seq(S)
        /\ Len(SubSeq(c, 1, Len(c))) = Len(c) /\ Len(SubSeq(d, 1, Len(c))) = Len(c)
        /\ \A i \in 1..Len(c) : SubSeq(c, 1, Len(c))[i] = SubSeq(d, 1, Len(c))[i]
    BY <1>1
  <2> QED BY <2>1, SeqEqual
<1> QED BY <1>1, <1>2 DEF IsPrefix

(* Nothing a failed tag or a leaf writes is a mark.                         *)
LEMMA LeafIsClean == ASSUME NEW role PROVE CleanFor(Leaf, role)
  BY DEF Leaf, Stripped, Loose, CleanFor

LEMMA HandleKeepsStack ==
  ASSUME NEW s, StackInv(s), HandleTagError(s)
  PROVE  StackInv(stack') /\ status' \in {"running", "failing"}
  BY LeafIsClean, EmittedKeepsStack DEF HandleTagError

(* Inside a message nothing is lost by stripping: there is no marker there. *)
LEMMA StrippedIsClean ==
  ASSUME NEW marks, NEW role, role # NoRole, CleanFor(marks, role)
  PROVE  Stripped(marks) = marks
  BY DEF CleanFor, Stripped

(* What a closed frame contributes is clean where it lands.                 *)
LEMMA ContributionIsClean ==
  ASSUME StackInv(stack), Len(stack) > 1
  PROVE  LET below == stack[Len(stack) - 1]
         IN  CleanFor(Contributed(below), below.role)
<1> DEFINE below == stack[Len(stack) - 1]
<1>1. /\ Len(stack) \in Nat /\ Linked(below, Top) /\ Clean(Top)
      /\ below \in FrameType /\ Top \in FrameType
  <2>1. Len(stack) \in Nat /\ Len(stack) - 1 \in 1..Len(stack) - 1
    BY DEF StackInv
  <2>2. Linked(below, stack[(Len(stack) - 1) + 1])
    BY <2>1 DEF StackInv
  <2> QED BY <2>1, <2>2, TopIsFrame DEF StackInv, Sound, Top
<1>2. CASE Top.kind # "message"
  BY <1>1, <1>2 DEF Contributed, Linked, Clean
<1>3. CASE Top.kind = "message" /\ below.role # NoRole
  <2>1. Top.role = below.role
    BY <1>1, <1>3 DEF Linked
  <2>2. Stripped(Top.out) = Top.out
    BY <1>1, <1>3, <2>1, StrippedIsClean DEF Clean
  <2> QED BY <1>1, <1>3, <2>1, <2>2 DEF Contributed, MessageOutput, Clean
<1>4. CASE Top.kind = "message" /\ below.role = NoRole
  <2>1. Top.role # NoRole /\ Top.role \in Roles
    BY <1>1, <1>4 DEF Linked, FrameType
  <2>2. Stripped(Top.out) = Top.out
    BY <1>1, <2>1, StrippedIsClean DEF Clean
  <2>3. Contributed(below) = {Loose("marker")} \cup InMessage(Top.out, Top.role)
    BY <1>4, <2>2 DEF Contributed, MessageOutput
  <2>4. CleanFor({Loose("marker")}, NoRole)
    BY RenderAssumption DEF CleanFor, Loose, Mark, What
  <2>5. ASSUME NEW m \in Top.out
        PROVE  LET n == [m EXCEPT !.role = Top.role] IN
               /\ n \in Mark /\ n.what \notin {"delim", "residue", "marker"}
               /\ n.what \in {"block", "repeat"} => ~ Refusing(n.role)
    BY <1>1, <2>1, <2>5 DEF Clean, CleanFor, Mark
  <2>6. ~ Refusing(NoRole)
    BY DEF Refusing
  <2>7. CleanFor(InMessage(Top.out, Top.role), NoRole)
    BY <2>5, <2>6 DEF CleanFor, InMessage
  <2> QED BY <1>4, <2>3, <2>4, <2>7 DEF CleanFor
<1> QED BY <1>2, <1>3, <1>4

-----------------------------------------------------------------------------
LEMMA InitEstablishesIInv == Init => IInv
<1> SUFFICES ASSUME Init PROVE IInv
  OBVIOUS
<1>1. PICK depth \in {0, 1}, sealed \in BOOLEAN :
         stack = <<Frame("root", 0, depth, <<>>, NoRole, sealed)>>
  BY DEF Init
<1> DEFINE f == Frame("root", 0, depth, <<>>, NoRole, sealed)
<1>2. /\ f \in FrameType /\ f.kind = "root" /\ f.chain = <<>> /\ f.depth = depth /\ f.nest = 0
      /\ f.out = {} /\ stack = <<f>>
  BY <1>1, RenderAssumption DEF Frame, FrameType, Kinds
<1> HIDE DEF f
<1>3. Sound(f) /\ Clean(f)
  BY <1>2, RenderAssumption DEF Sound, Clean, CleanFor, Distinct
<1>4. Height(f) \in Nat /\ Height(f) >= 1
  <2> DEFINE n == f.depth + Len(f.chain)
  <2>1. n \in Nat /\ MaxDepth + 1 \in Nat
    BY <1>2, RenderAssumption
  <2>2. n * (MaxDepth + 1) \in Nat
    <3> HIDE DEF n
    <3> QED BY <2>1
  <2>3. Height(f) = n * (MaxDepth + 1) + 0 + 1
    BY <1>2 DEF Height
  <2> HIDE DEF n
  <2> QED BY <2>2, <2>3
<1>5. /\ stack \in Seq(FrameType) /\ stack # <<>>
      /\ Len(stack) = 1 /\ stack[1] = f
  BY <1>2
<1>6. StackInv(stack)
  <2>1. stack[1].kind = "root"
    BY <1>2, <1>5
  <2>2. \A i \in 1..Len(stack) : Sound(stack[i]) /\ Clean(stack[i]) /\ i <= Height(stack[i])
    BY <1>3, <1>4, <1>5
  <2>3. \A i \in 1..Len(stack) - 1 : FALSE
    BY <1>5
  <2> QED BY <1>5, <2>1, <2>2, <2>3 DEF StackInv
<1>7. CleanFor(output, NoRole)
  BY DEF Init, CleanFor
<1>8. placed \in 0..2 /\ left \in 0..Budget
  BY RenderAssumption DEF Init
<1>9. TypeOK
  <2>1. status = "running" /\ output \in SUBSET Mark /\ lost \in BOOLEAN
    BY DEF Init
  <2> QED BY <1>5, <1>8, <2>1 DEF TypeOK
<1> QED BY <1>6, <1>7, <1>9 DEF IInv

(* The stack and the marks are all that is delicate about a step.           *)
LEMMA StackIsEnough ==
  ASSUME IInv, StackInv(stack'), CleanFor(output', NoRole),
         status' \in {"running", "failing", "rendered", "failed"},
         placed' \in 0..2, left' \in 0..Budget, lost' \in BOOLEAN
  PROVE  IInv'
  BY DEF IInv, TypeOK, StackInv, CleanFor

LEMMA SpendsBudget == ASSUME IInv, NextNode PROVE left' \in 0..Budget
  BY RenderAssumption DEF IInv, TypeOK, NextNode

(* A tag that fails, for whatever reason, in the frame on top.              *)
LEMMA FailedTagKeepsIInv ==
  ASSUME IInv, NextNode, HandleTagError(stack), UNCHANGED <<placed, output, lost>>
  PROVE  IInv'
  BY HandleKeepsStack, SpendsBudget, StackIsEnough DEF IInv, TypeOK

(* A node that writes marks where it stands.                                *)
LEMMA WriterKeepsIInv ==
  ASSUME IInv, NextNode, NEW marks, CleanFor(marks, Top.role),
         stack' = Emitted(stack, marks), placed' \in 0..2,
         UNCHANGED <<status, output, lost>>
  PROVE  IInv'
  BY EmittedKeepsStack, SpendsBudget, StackIsEnough DEF IInv, TypeOK, Top

(* Opening a frame that is within bounds and higher than the one below.     *)
LEMMA PushKeepsIInv ==
  ASSUME IInv, NextNode, NEW f, Push(f), Sound(f), f.out = {},
         Linked(Top, f), Height(Top) < Height(f)
  PROVE  IInv'
<1>1. StackInv(stack')
  BY PushKeepsStack DEF Push, IInv, Top
<1> QED BY <1>1, SpendsBudget, StackIsEnough DEF Push, IInv, TypeOK

LEMMA PlaceInputKeepsIInv == ASSUME IInv, PlaceInput PROVE IInv'
<1>1. Top \in FrameType
  BY TopIsFrame DEF IInv, Top
<1>2. CleanFor({Placed(placed)}, Top.role)
  BY RenderAssumption
     DEF PlaceInput, Placed, Loose, CleanFor, Mark, What, Refusing
<1>3. placed' \in 0..2
  BY DEF PlaceInput, IInv, TypeOK
<1> QED BY <1>2, <1>3, WriterKeepsIInv DEF PlaceInput

LEMMA SpliceKeepsIInv == ASSUME IInv, SpliceRendered PROVE IInv'
<1>1. CleanFor(IF Top.role = NoRole THEN {Loose("marker")} ELSE {}, Top.role)
  BY DEF Loose, CleanFor, Mark, What
<1> QED BY <1>1, WriterKeepsIInv DEF SpliceRendered, IInv, TypeOK

LEMMA OpenBodyKeepsIInv ==
  ASSUME IInv, NextNode, Top.nest < MaxDepth, NEW kind \in {"group", "message"},
         NEW role \in Roles \cup {NoRole},
         kind = "group" => role = Top.role,
         kind = "message" => role # NoRole,
         Top.role # NoRole => role = Top.role,
         Push(Frame(kind, Top.nest + 1, Top.depth, Top.chain, role, Top.sealed))
  PROVE  IInv'
<1> DEFINE f == Frame(kind, Top.nest + 1, Top.depth, Top.chain, role, Top.sealed)
<1>1. Top \in FrameType /\ Sound(Top)
  BY TopIsFrame DEF IInv, Top
<1>2. /\ f \in FrameType /\ f.kind = kind /\ f.nest = Top.nest + 1
      /\ f.depth = Top.depth /\ f.chain = Top.chain /\ f.role = role /\ f.out = {}
  BY <1>1 DEF Frame, FrameType, Kinds
<1>3. Sound(f)
  BY <1>1, <1>2, RenderAssumption DEF Sound, FrameType
<1>4. IsPrefix(Top.chain, f.chain)
  BY <1>1, <1>2, PrefixOfItself DEF FrameType
<1>5. Linked(Top, f)
  BY <1>2, <1>4 DEF Linked
<1>6. Height(Top) < Height(f)
  <2>1. Top.depth + Len(Top.chain) \in Nat /\ MaxDepth + 1 \in Nat /\ Top.nest \in Nat
    BY <1>1, RenderAssumption DEF FrameType
  <2>2. (Top.depth + Len(Top.chain)) * (MaxDepth + 1) \in Nat
    BY <2>1
  <2> QED BY <1>2, <2>1, <2>2 DEF Height
<1> QED BY <1>2, <1>3, <1>5, <1>6, PushKeepsIInv

(* A frame of another render starts at nest 0, one include or one reference *)
(* further than the frame below.                                            *)
LEMMA OpenRenderKeepsIInv ==
  ASSUME IInv, NextNode, NEW f \in FrameType, Push(f), Sound(f), f.out = {},
         f.kind # "message", f.nest = 0, f.role = Top.role,
         IsPrefix(Top.chain, f.chain),
         f.depth + Len(f.chain) = Top.depth + Len(Top.chain) + 1
  PROVE  IInv'
<1>1. Top \in FrameType /\ Sound(Top)
  BY TopIsFrame DEF IInv, Top
<1> DEFINE n == Top.depth + Len(Top.chain)
           k == MaxDepth + 1
<1>2. n \in Nat /\ k \in Nat /\ Top.nest \in Nat /\ Top.nest < k
  BY <1>1, RenderAssumption DEF FrameType, Sound
<1>3. n * k \in Nat /\ (n + 1) * k = n * k + k
  BY <1>2, OneMore
<1>4. Height(Top) = n * k + Top.nest + 1 /\ Height(f) = (n + 1) * k + 0 + 1
  BY DEF Height
<1>5. Height(Top) < Height(f)
  BY <1>2, <1>3, <1>4
<1>6. Linked(Top, f)
  BY DEF Linked
<1> QED BY <1>5, <1>6, PushKeepsIInv

LEMMA OpenIncludeKeepsIInv == ASSUME IInv, OpenInclude PROVE IInv'
<1>1. Top \in FrameType /\ Sound(Top)
  BY TopIsFrame DEF IInv, Top
<1>7. PICK sealed \in BOOLEAN :
         Push(Frame("include", 0, Top.depth + 1, Top.chain, Top.role, sealed))
  BY <1>1 DEF OpenInclude, MaySeal, FrameType
<1> DEFINE f == Frame("include", 0, Top.depth + 1, Top.chain, Top.role, sealed)
<1>2. /\ f \in FrameType /\ f.kind = "include" /\ f.nest = 0 /\ f.out = {}
      /\ f.depth = Top.depth + 1 /\ f.chain = Top.chain /\ f.role = Top.role
  BY <1>1 DEF Frame, FrameType, Kinds
<1>3. NextNode /\ Push(f) /\ Top.depth < MaxDepth
  BY <1>7 DEF OpenInclude
<1> HIDE DEF f
<1>4. Top.depth \in Nat /\ Top.chain \in Seq(Slugs) /\ Len(Top.chain) \in Nat
  BY <1>1 DEF FrameType
<1>5. Sound(f)
  BY <1>1, <1>2, <1>3, <1>4, RenderAssumption DEF Sound
<1>6. /\ IsPrefix(Top.chain, f.chain)
      /\ f.depth + Len(f.chain) = Top.depth + Len(Top.chain) + 1
  BY <1>2, <1>4, PrefixOfItself
<1> QED BY <1>2, <1>3, <1>5, <1>6, OpenRenderKeepsIInv

LEMMA OpenRefKeepsIInv == ASSUME IInv, NEW slug \in Slugs, OpenRef(slug) PROVE IInv'
<1>1. Top \in FrameType /\ Sound(Top) /\ Top.chain \in Seq(Slugs)
  BY TopIsFrame DEF IInv, Top, FrameType
<1>9. PICK sealed \in BOOLEAN :
         Push(Frame("ref", 0, Top.depth, Append(Top.chain, slug), Top.role, sealed))
  BY <1>1 DEF OpenRef, MaySeal, FrameType
<1> DEFINE f == Frame("ref", 0, Top.depth, Append(Top.chain, slug), Top.role, sealed)
<1>2. /\ Append(Top.chain, slug) \in Seq(Slugs)
      /\ Len(Append(Top.chain, slug)) = Len(Top.chain) + 1 /\ Len(Top.chain) \in Nat
      /\ \A i \in 1..Len(Top.chain) : Append(Top.chain, slug)[i] = Top.chain[i]
      /\ Append(Top.chain, slug)[Len(Top.chain) + 1] = slug
  BY <1>1
<1>3. /\ f \in FrameType /\ f.kind = "ref" /\ f.nest = 0 /\ f.out = {}
      /\ f.depth = Top.depth /\ f.chain = Append(Top.chain, slug) /\ f.role = Top.role
  BY <1>1, <1>2 DEF Frame, FrameType, Kinds
<1> HIDE DEF f
<1>4. Distinct(f.chain)
  BY <1>1, <1>2, <1>3 DEF OpenRef, InChain, Distinct, Sound
<1>5. Len(f.chain) = Len(Top.chain) + 1 /\ Len(f.chain) <= RefMaxDepth
  BY <1>2, <1>3, RenderAssumption DEF OpenRef
<1>6. Sound(f)
  BY <1>1, <1>3, <1>4, <1>5, RenderAssumption DEF Sound
<1>7. /\ IsPrefix(Top.chain, f.chain)
      /\ f.depth + Len(f.chain) = Top.depth + Len(Top.chain) + 1
  <2>1. Top.depth \in Nat
    BY <1>1 DEF FrameType
  <2> QED BY <1>1, <1>2, <1>3, <1>5, <2>1, PrefixOfAppend
<1>8. NextNode /\ Push(f)
  BY <1>9 DEF OpenRef, f
<1> QED BY <1>3, <1>6, <1>7, <1>8, OpenRenderKeepsIInv

-----------------------------------------------------------------------------
LEMMA CloseKeepsIInv == ASSUME IInv, Close PROVE IInv'
<1> DEFINE below == stack[Len(stack) - 1]
<1>1. /\ StackInv(Front(stack)) /\ Len(Front(stack)) = Len(stack) - 1
      /\ Front(stack)[Len(Front(stack))] = below
  BY FrontKeepsStack DEF Close, IInv
<1>2. CleanFor(Contributed(below), below.role)
  BY ContributionIsClean DEF Close, IInv
<1>3. StackInv(stack')
  BY <1>1, <1>2, EmittedKeepsStack DEF Close
<1> QED BY <1>3, StackIsEnough DEF Close, IInv, TypeOK

LEMMA FinishKeepsIInv == ASSUME IInv, Finish PROVE IInv'
<1>1. Clean(Top) /\ Top \in FrameType
  BY TopIsFrame DEF IInv, Top
<1>2. CleanFor(Top.out, NoRole)
  BY <1>1 DEF Clean, CleanFor, Refusing
<1> QED BY <1>2, StackIsEnough DEF Finish, IInv, TypeOK

LEMMA UnwindKeepsIInv == ASSUME IInv, UnwindBody \/ UnwindRender PROVE IInv'
<1>1. CASE Len(stack) > 1
  <2>1. StackInv(Front(stack))
    BY <1>1, FrontKeepsStack DEF IInv
  <2>2. lost' \in BOOLEAN
    BY DEF UnwindBody, UnwindRender, Discard
  <2>3. CASE UnwindBody
    BY <2>1, <2>2, <2>3, StackIsEnough DEF UnwindBody, IInv, TypeOK
  <2>4. CASE UnwindRender
    BY <2>1, <2>2, <2>4, HandleKeepsStack, StackIsEnough DEF UnwindRender, IInv, TypeOK
  <2> QED BY <2>3, <2>4
<1>2. CASE Len(stack) <= 1
  <2>1. Top.kind = "root"
    BY <1>2, TopIsFrame DEF IInv, StackInv, Top
  <2> QED BY <2>1 DEF UnwindBody, UnwindRender
<1>3. Len(stack) \in Nat
  BY TopIsFrame DEF IInv
<1> QED BY <1>1, <1>2, <1>3

LEMMA StepKeepsIInv == IInv /\ [Next]_vars => IInv'
<1> SUFFICES ASSUME IInv, [Next]_vars PROVE IInv'
  OBVIOUS
<1>1. CASE Text
  BY <1>1, LeafIsClean, WriterKeepsIInv DEF Text, IInv, TypeOK
<1>2. CASE TagFails
  BY <1>2, FailedTagKeepsIInv DEF TagFails
<1>3. CASE BodyTooLarge
  BY <1>3, SpendsBudget, StackIsEnough DEF BodyTooLarge, IInv, TypeOK
<1>4. CASE PlaceInput
  BY <1>4, PlaceInputKeepsIInv
<1>5. CASE RefuseInput
  BY <1>5, FailedTagKeepsIInv DEF RefuseInput
<1>6. CASE OpenGroup
  <2>1. Top.role \in Roles \cup {NoRole}
    BY TopIsFrame DEF IInv, Top, FrameType
  <2> QED BY <1>6, <2>1, OpenBodyKeepsIInv DEF OpenGroup
<1>7. ASSUME NEW role \in Roles, OpenMessage(role) PROVE IInv'
  <2> DEFINE within == WithinMessage(Top.role, role)
  <2>1. /\ within \in Roles \cup {NoRole} /\ within # NoRole
        /\ Top.role # NoRole => within = Top.role
    BY RenderAssumption, TopIsFrame DEF IInv, Top, FrameType, WithinMessage
  <2>2. /\ NextNode /\ Top.nest < MaxDepth
        /\ Push(Frame("message", Top.nest + 1, Top.depth, Top.chain, within, Top.sealed))
    BY <1>7 DEF OpenMessage
  <2> HIDE DEF within
  <2> QED BY <2>1, <2>2, OpenBodyKeepsIInv
<1>8. CASE OpenInclude
  BY <1>8, OpenIncludeKeepsIInv
<1>9. CASE IncludeTooDeep
  BY <1>9, FailedTagKeepsIInv DEF IncludeTooDeep
<1>10. ASSUME NEW slug \in Slugs, OpenRef(slug) PROVE IInv'
  BY <1>10, OpenRefKeepsIInv
<1>11. ASSUME NEW slug \in Slugs, RefRefused(slug) PROVE IInv'
  BY <1>11, FailedTagKeepsIInv DEF RefRefused
<1>12. CASE SpliceRendered
  BY <1>12, SpliceKeepsIInv
<1>13. CASE Close
  BY <1>13, CloseKeepsIInv
<1>14. CASE Finish
  BY <1>14, FinishKeepsIInv
<1>15. CASE UnwindBody \/ UnwindRender
  BY <1>15, UnwindKeepsIInv
<1>16. CASE Fail
  BY <1>16, StackIsEnough DEF Fail, IInv, TypeOK
<1>17. CASE UNCHANGED vars
  BY <1>17 DEF vars, IInv, TypeOK, StackInv, CleanFor
<1> QED BY <1>1, <1>2, <1>3, <1>4, <1>5, <1>6, <1>7, <1>8, <1>9, <1>10, <1>11,
           <1>12, <1>13, <1>14, <1>15, <1>16, <1>17 DEF Next

LEMMA AlwaysIInv == Spec => []IInv
  BY InitEstablishesIInv, StepKeepsIInv, PTL DEF Spec

-----------------------------------------------------------------------------
(* Every variable has its type.                                             *)
THEOREM TypeCorrect == Spec => []TypeOK
<1>1. IInv => TypeOK
  BY DEF IInv
<1> QED BY <1>1, AlwaysIInv, PTL

(* The call stack of a render never grows beyond a bound the configuration  *)
(* fixes, for templates of any size that include and reference each other   *)
(* in any way: a render cannot recurse without end.                         *)
THEOREM RendersAreBounded == Spec => []StackBounded
<1>1. ASSUME IInv PROVE StackBounded
  <2>1. Sound(Top) /\ Top \in FrameType /\ Len(stack) <= Height(Top) /\ Len(stack) \in Nat
    BY <1>1, TopIsFrame DEF IInv, Top
  <2> DEFINE n == Top.depth + Len(Top.chain)
             m == MaxDepth + RefMaxDepth
             k == MaxDepth + 1
  <2>2. /\ n \in Nat /\ m \in Nat /\ k \in Nat /\ n <= m
        /\ Top.nest \in Nat /\ Top.nest + 1 <= k
    BY <2>1, RenderAssumption DEF Sound, FrameType
  <2>3. Height(Top) = n * k + Top.nest + 1
    BY DEF Height
  <2>4. StackBounded <=> Len(stack) <= (m + 1) * k
    BY DEF StackBounded
  <2> HIDE DEF n, m, k
  <2>5. n * k <= m * k /\ n * k \in Nat /\ m * k \in Nat /\ (m + 1) * k = m * k + k
    BY <2>2, ProductMonotonic, OneMore
  <2> QED BY <2>1, <2>2, <2>3, <2>4, <2>5
<1> QED BY <1>1, AlwaysIInv, PTL

(* The reference chain never names a spec twice, never exceeds its bound,   *)
(* and is handed down through every include, reference and nested body.     *)
THEOREM ReferencesAreSound == Spec => []ChainsSound
<1>1. IInv => ChainsSound
  BY DEF IInv, StackInv, Sound, Linked, ChainsSound
<1> QED BY <1>1, AlwaysIInv, PTL

LEMMA MarksAreClean ==
  ASSUME IInv, NEW m \in Marks
  PROVE  /\ m.what \notin {"delim", "residue"}
         /\ m.what \in {"block", "repeat"} => ~ Refusing(m.role)
  BY DEF IInv, StackInv, Clean, CleanFor, Marks

(* Only a message that no other encloses puts a marker into the output, and *)
(* no marker is ever flattened to visible text.                             *)
THEOREM MarkersAreGenuine == Spec => []WellMarked
<1>1. IInv => WellMarked
  BY MarksAreClean DEF WellMarked
<1> QED BY <1>1, AlwaysIInv, PTL

(* Sealed external data never reaches a system, assistant or tool message,  *)
(* wherever in the render it was sealed and whichever includes hand it on   *)
(* (InputResolver.Resolve, buildChildData, withinMessage).                  *)
THEOREM UntrustedStaysWithUser == Spec => []UntrustedOnlyForUser
<1>1. IInv => UntrustedOnlyForUser
  BY MarksAreClean DEF UntrustedOnlyForUser, Refusing
<1> QED BY <1>1, AlwaysIInv, PTL

-----------------------------------------------------------------------------
(* The sealed value: where its block and the pointers back to it are.       *)
Silent(marks) == \A m \in marks : m.what \notin {"block", "repeat"}

LEMMA EmittedShows ==
  ASSUME NEW s, StackInv(s), NEW marks, marks \subseteq Mark,
         NEW i \in 1..Len(s), NEW what
  PROVE  ShowsIn(Emitted(s, marks), i, what) <=>
           ShowsIn(s, i, what) \/ (i = Len(s) /\ \E m \in marks : m.what = what)
<1> DEFINE t == Emitted(s, marks)
<1>1. /\ i # Len(s) => t[i] = s[i]
      /\ t[Len(s)] = [s[Len(s)] EXCEPT !.out = s[Len(s)].out \cup marks]
  BY EmittedFrames
<1>2. t[Len(s)].out = s[Len(s)].out \cup marks
  BY <1>1, TopIsFrame DEF FrameType
<1> QED BY <1>1, <1>2 DEF ShowsIn

LEMMA SilentKeepsBlock ==
  ASSUME NEW s, StackInv(s), NEW n, NEW gone, BlockOnce(s, n, gone),
         NEW marks, marks \subseteq Mark, Silent(marks)
  PROVE  BlockOnce(Emitted(s, marks), n, gone)
<1>1. Len(Emitted(s, marks)) = Len(s)
  BY EmittedFrames
<1>2. \A i \in 1..Len(s) :
         /\ ShowsIn(Emitted(s, marks), i, "block") <=> ShowsIn(s, i, "block")
         /\ ShowsIn(Emitted(s, marks), i, "repeat") <=> ShowsIn(s, i, "repeat")
  BY EmittedShows DEF Silent
<1> QED BY <1>1, <1>2 DEF BlockOnce

LEMMA FrontKeepsBlock ==
  ASSUME NEW s, StackInv(s), Len(s) > 1, NEW n, NEW gone, BlockOnce(s, n, gone)
  PROVE  BlockOnce(Front(s), n, gone \/ ShowsIn(s, Len(s), "block"))
<1> DEFINE t == Front(s)
<1>1. Len(s) \in Nat /\ Len(t) = Len(s) - 1 /\ \A i \in 1..Len(t) : t[i] = s[i]
  BY TopIsFrame DEF Front
<1>2. \A i \in 1..Len(t), what \in {"block", "repeat"} :
         ShowsIn(t, i, what) <=> ShowsIn(s, i, what)
  BY <1>1 DEF ShowsIn
<1> HIDE DEF t
<1>3. \A i \in 1..Len(s) : i \in 1..Len(t) \/ i = Len(s)
  BY <1>1
<1> QED BY <1>1, <1>2, <1>3 DEF BlockOnce, t

LEMMA PushKeepsBlock ==
  ASSUME NEW s, StackInv(s), NEW f, f.out = {}, NEW n, NEW gone, BlockOnce(s, n, gone)
  PROVE  BlockOnce(Append(s, f), n, gone)
<1> DEFINE t == Append(s, f)
<1>1. /\ Len(s) \in Nat /\ Len(t) = Len(s) + 1
      /\ t[Len(s) + 1] = f /\ \A i \in 1..Len(s) : t[i] = s[i]
  BY TopIsFrame DEF StackInv
<1> HIDE DEF t
<1>2. \A what \in {"block", "repeat"} :
         /\ ~ ShowsIn(t, Len(s) + 1, what)
         /\ \A i \in 1..Len(s) : ShowsIn(t, i, what) <=> ShowsIn(s, i, what)
  BY <1>1 DEF ShowsIn
<1>3. \A i \in 1..Len(t) : i \in 1..Len(s) \/ i = Len(s) + 1
  BY <1>1
<1> QED BY <1>1, <1>2, <1>3 DEF BlockOnce, t

(* A step that places nothing and discards nothing.                         *)
LEMMA StackIsEnoughForBlock ==
  ASSUME BlockInv, BlockOnce(stack', placed, lost), UNCHANGED <<placed, output, lost>>,
         status # "rendered", status' # "rendered"
  PROVE  BlockInv'
  BY DEF BlockInv, BlockOnce, ShowsIn

LEMMA LeafIsSilent == Leaf \subseteq Mark /\ Silent(Leaf)
  BY DEF Leaf, Stripped, Loose, Silent

LEMMA HandleKeepsBlock ==
  ASSUME NEW s, StackInv(s), NEW n, NEW gone, BlockOnce(s, n, gone), HandleTagError(s)
  PROVE  BlockOnce(stack', n, gone) /\ status' # "rendered"
  BY LeafIsSilent, SilentKeepsBlock DEF HandleTagError

(* Neither stripping a message nor marking it with its role adds or takes   *)
(* away a block or a pointer.                                               *)
LEMMA StrippedShows ==
  ASSUME NEW marks, marks \subseteq Mark, NEW what \in {"block", "repeat"}
  PROVE  /\ Stripped(marks) \subseteq Mark
         /\ (\E m \in Stripped(marks) : m.what = what) <=> \E m \in marks : m.what = what
<1>1. \A m \in marks : [m EXCEPT !.what = "residue"] \in Mark /\ [m EXCEPT !.what = "residue"].what = "residue"
  BY DEF Mark, What
<1> QED BY <1>1 DEF Stripped

LEMMA InMessageShows ==
  ASSUME NEW marks, marks \subseteq Mark, NEW role \in Roles,
         NEW what \in {"block", "repeat"}
  PROVE  /\ InMessage(marks, role) \subseteq Mark
         /\ (\E m \in InMessage(marks, role) : m.what = what) <=> \E m \in marks : m.what = what
<1>1. \A m \in marks : [m EXCEPT !.role = role] \in Mark /\ [m EXCEPT !.role = role].what = m.what
  BY DEF Mark
<1> QED BY <1>1 DEF InMessage

LEMMA ContributionShows ==
  ASSUME StackInv(stack), Len(stack) > 1, NEW what \in {"block", "repeat"}
  PROVE  LET below == stack[Len(stack) - 1] IN
         /\ Contributed(below) \subseteq Mark
         /\ (\E m \in Contributed(below) : m.what = what) <=> ShowsIn(stack, Len(stack), what)
<1> DEFINE below == stack[Len(stack) - 1]
<1>1. /\ Top \in FrameType /\ Top.out \subseteq Mark /\ Top = stack[Len(stack)]
      /\ Len(stack) \in Nat
  BY TopIsFrame DEF Top, FrameType
<1>2. CASE Top.kind # "message"
  BY <1>1, <1>2 DEF Contributed, ShowsIn
<1>3. CASE Top.kind = "message" /\ below.role # NoRole
  BY <1>1, <1>3, StrippedShows DEF Contributed, MessageOutput, ShowsIn
<1>4. CASE Top.kind = "message" /\ below.role = NoRole
  <2>1. Linked(below, Top)
    <3>1. Len(stack) - 1 \in 1..Len(stack) - 1 /\ (Len(stack) - 1) + 1 = Len(stack)
      BY <1>1
    <3> QED BY <1>1, <3>1 DEF StackInv
  <2>2. Top.role \in Roles
    BY <1>1, <1>4, <2>1 DEF Linked, FrameType
  <2> PICK stripped : stripped = Stripped(Top.out)
    OBVIOUS
  <2> DEFINE inside == InMessage(stripped, Top.role)
  <2>3. /\ inside \subseteq Mark
        /\ (\E m \in inside : m.what = what) <=> \E m \in Top.out : m.what = what
    <3>1. /\ stripped \subseteq Mark
          /\ (\E m \in stripped : m.what = what) <=> \E m \in Top.out : m.what = what
      BY <1>1, StrippedShows
    <3>2. inside \subseteq Mark
      BY <2>2, <3>1, InMessageShows
    <3>3. (\E m \in inside : m.what = what) <=> \E m \in stripped : m.what = what
      BY <2>2, <3>1, InMessageShows
    <3> QED BY <3>1, <3>2, <3>3
  <2>4. Loose("marker") \in Mark /\ Loose("marker").what = "marker"
    BY DEF Loose, Mark, What
  <2>5. Contributed(below) = {Loose("marker")} \cup inside
    BY <1>4 DEF Contributed, MessageOutput
  <2> HIDE DEF inside
  <2> QED BY <1>1, <2>3, <2>4, <2>5 DEF ShowsIn
<1> QED BY <1>2, <1>3, <1>4

-----------------------------------------------------------------------------
LEMMA PlaceInputKeepsBlock == ASSUME IInv, BlockInv, PlaceInput PROVE BlockInv'
<1> DEFINE marks == {Placed(placed)}
           k == Len(stack)
<1>1. /\ placed \in 0..2 /\ placed' \in 1..2 /\ StackInv(stack) /\ k \in 1..k
      /\ stack' = Emitted(stack, marks) /\ status = "running"
      /\ UNCHANGED <<status, output, lost>>
  BY TopIsFrame DEF IInv, TypeOK, PlaceInput, NextNode
<1>2. /\ marks \subseteq Mark
      /\ \A m \in marks : m.what = IF placed > 0 THEN "repeat" ELSE "block"
  BY DEF Placed, Loose, Mark, What
<1>3. Len(stack') = k
  BY <1>1, <1>2, EmittedFrames
<1>4. \A i \in 1..k : ShowsIn(stack', i, "block") <=>
          ShowsIn(stack, i, "block") \/ (i = k /\ placed = 0)
  BY <1>1, <1>2, EmittedShows
<1>5. BlockOnce(stack', placed', lost')
  <2>1. BlockOnce(stack, placed, lost)
    BY DEF BlockInv
  <2>2. ASSUME NEW i \in 1..k, NEW j \in 1..k,
               ShowsIn(stack', i, "block"), ShowsIn(stack', j, "block")
        PROVE  i = j
    BY <1>1, <1>4, <2>1, <2>2 DEF BlockOnce
  <2>3. ~ lost' => \E i \in 1..k : ShowsIn(stack', i, "block")
    <3>1. CASE placed = 0
      BY <1>1, <1>4, <3>1
    <3>2. CASE placed > 0
      BY <1>1, <1>4, <2>1, <3>2 DEF BlockOnce
    <3> QED BY <1>1, <3>1, <3>2
  <2>4. placed' # 0
    BY <1>1
  <2> HIDE DEF k
  <2> QED BY <1>3, <2>2, <2>3, <2>4 DEF BlockOnce
<1> QED BY <1>1, <1>5 DEF BlockInv, BlockOnce, ShowsIn

LEMMA CloseKeepsBlock == ASSUME IInv, BlockInv, Close PROVE BlockInv'
<1> DEFINE k == Len(stack)
           below == stack[k - 1]
           marks == Contributed(below)
           t == Front(stack)
<1>1. /\ StackInv(stack) /\ k \in Nat /\ k > 1 /\ status = "running"
      /\ stack' = Emitted(t, marks) /\ UNCHANGED <<status, placed, output, lost>>
      /\ StackInv(t) /\ Len(t) = k - 1 /\ placed \in 0..2
  BY FrontKeepsStack, TopIsFrame DEF Close, IInv, TypeOK
<1>2. /\ marks \subseteq Mark
      /\ \A what \in {"block", "repeat"} :
           (\E m \in marks : m.what = what) <=> ShowsIn(stack, k, what)
  BY <1>1, ContributionShows
<1>3. \A i \in 1..k - 1 : t[i] = stack[i]
  BY <1>1 DEF Front, StackInv
<1>4. \A i \in 1..k - 1, what \in {"block", "repeat"} :
         ShowsIn(t, i, what) <=> ShowsIn(stack, i, what)
  BY <1>3 DEF ShowsIn
<1>5. Len(stack') = k - 1
  BY <1>1, <1>2, EmittedFrames
<1>6. \A i \in 1..k - 1, what \in {"block", "repeat"} :
         ShowsIn(stack', i, what) <=>
           ShowsIn(stack, i, what) \/ (i = k - 1 /\ ShowsIn(stack, k, what))
  <2> SUFFICES ASSUME NEW i \in 1..k - 1, NEW what \in {"block", "repeat"}
               PROVE  ShowsIn(stack', i, what) <=>
                        ShowsIn(stack, i, what) \/ (i = k - 1 /\ ShowsIn(stack, k, what))
    OBVIOUS
  <2>1. ShowsIn(Emitted(t, marks), i, what) <=>
           ShowsIn(t, i, what) \/ (i = Len(t) /\ \E m \in marks : m.what = what)
    BY <1>1, <1>2, EmittedShows
  <2> QED BY <1>1, <1>2, <1>4, <2>1
<1>7. BlockOnce(stack, placed, lost) /\ \A i \in 1..k : i \in 1..k - 1 \/ i = k
  BY <1>1 DEF BlockInv
<1>8. k - 1 \in 1..k - 1 /\ k \in 1..k /\ 1..k - 1 \subseteq 1..k
  BY <1>1
<1>9. BlockOnce(stack', placed, lost)
  <2>1. placed = 0 => \A i \in 1..k - 1 : ~ ShowsIn(stack', i, "block") /\ ~ ShowsIn(stack', i, "repeat")
    BY <1>6, <1>7, <1>8 DEF BlockOnce
  <2>2. ASSUME NEW i \in 1..k - 1, NEW j \in 1..k - 1,
               ShowsIn(stack', i, "block"), ShowsIn(stack', j, "block")
        PROVE  i = j
    <3>1. \A x \in 1..k - 1 : x # k
      BY <1>1
    <3> QED BY <2>2, <3>1, <1>6, <1>7, <1>8 DEF BlockOnce
  <2>3. placed > 0 /\ ~ lost => \E i \in 1..k - 1 : ShowsIn(stack', i, "block")
    BY <1>6, <1>7, <1>8 DEF BlockOnce
  <2> HIDE DEF k
  <2> QED BY <1>5, <2>1, <2>2, <2>3 DEF BlockOnce
<1> QED BY <1>1, <1>9, StackIsEnoughForBlock

LEMMA UnwindKeepsBlock ==
  ASSUME IInv, BlockInv, UnwindBody \/ UnwindRender
  PROVE  BlockInv'
<1>1. /\ StackInv(stack) /\ Len(stack) \in Nat /\ status = "failing"
      /\ UNCHANGED <<placed, output>>
      /\ lost' = (lost \/ ShowsIn(stack, Len(stack), "block"))
  BY TopIsFrame DEF IInv, UnwindBody, UnwindRender, Discard, ShowsIn, Top
<1>2. Len(stack) > 1
  <2> SUFFICES ASSUME Len(stack) <= 1 PROVE FALSE
    BY <1>1
  <2>1. Top.kind = "root"
    BY <1>1, TopIsFrame DEF StackInv, Top
  <2> QED BY <2>1 DEF UnwindBody, UnwindRender
<1>3. StackInv(Front(stack)) /\ BlockOnce(Front(stack), placed, lost')
  BY <1>1, <1>2, FrontKeepsStack, FrontKeepsBlock DEF BlockInv
<1>4. BlockOnce(stack', placed, lost') /\ status' # "rendered"
  <2>1. CASE UnwindBody
    BY <1>1, <1>3, <2>1 DEF UnwindBody
  <2>2. CASE UnwindRender
    BY <1>3, <2>2, HandleKeepsBlock DEF UnwindRender
  <2> QED BY <2>1, <2>2
<1> QED BY <1>1, <1>4 DEF BlockInv, BlockOnce, ShowsIn

LEMMA StepKeepsBlock == ASSUME IInv, BlockInv, [Next]_vars PROVE BlockInv'
<1>0. StackInv(stack) /\ BlockOnce(stack, placed, lost)
  BY DEF IInv, BlockInv
<1>1. CASE Text
  BY <1>0, <1>1, LeafIsSilent, SilentKeepsBlock, StackIsEnoughForBlock DEF Text, NextNode
<1>2. ASSUME NextNode, HandleTagError(stack), UNCHANGED <<placed, output, lost>>
      PROVE  BlockInv'
  BY <1>0, <1>2, HandleKeepsBlock, StackIsEnoughForBlock DEF NextNode
<1>3. CASE BodyTooLarge
  BY <1>0, <1>3, StackIsEnoughForBlock DEF BodyTooLarge, NextNode
<1>4. ASSUME NextNode, NEW f, f.out = {}, Push(f) PROVE BlockInv'
  BY <1>0, <1>4, PushKeepsBlock, StackIsEnoughForBlock DEF Push, NextNode
<1>5. \A kind, nest, depth, chain, role, sealed :
         Frame(kind, nest, depth, chain, role, sealed).out = {}
  BY DEF Frame
<1>6. CASE SpliceRendered
  <2>1. LET marks == IF Top.role = NoRole THEN {Loose("marker")} ELSE {} IN
        marks \subseteq Mark /\ Silent(marks)
    BY DEF Loose, Mark, What, Silent
  <2> QED BY <1>0, <1>6, <2>1, SilentKeepsBlock, StackIsEnoughForBlock DEF SpliceRendered, NextNode
<1>7. CASE Finish
  BY <1>7 DEF Finish, BlockInv, BlockOnce, ShowsIn, Top
<1>8. CASE Fail
  BY <1>8 DEF Fail, BlockInv, BlockOnce, ShowsIn
<1>9. CASE UNCHANGED vars
  BY <1>9 DEF vars, BlockInv, BlockOnce, ShowsIn
<1>10. CASE TagFails \/ RefuseInput \/ IncludeTooDeep \/ \E slug \in Slugs : RefRefused(slug)
  BY <1>2, <1>10 DEF TagFails, RefuseInput, IncludeTooDeep, RefRefused
<1>11. CASE OpenGroup \/ OpenInclude \/ (\E role \in Roles : OpenMessage(role))
              \/ \E slug \in Slugs : OpenRef(slug)
  BY <1>4, <1>5, <1>11 DEF OpenGroup, OpenInclude, OpenMessage, OpenRef
<1> QED
  BY <1>1, <1>3, <1>6, <1>7, <1>8, <1>9, <1>10, <1>11,
     PlaceInputKeepsBlock, CloseKeepsBlock, UnwindKeepsBlock DEF Next

LEMMA InitBlock == Init => BlockInv
<1> SUFFICES ASSUME Init PROVE BlockInv
  OBVIOUS
<1>1. PICK depth \in {0, 1}, sealed \in BOOLEAN :
         stack = <<Frame("root", 0, depth, <<>>, NoRole, sealed)>>
  BY DEF Init
<1>2. \A i \in 1..Len(stack) : stack[i].out = {}
  BY <1>1 DEF Frame
<1>3. \A i \in 1..Len(stack) : \A what : ~ ShowsIn(stack, i, what)
  BY <1>2 DEF ShowsIn
<1>4. /\ placed = 0 /\ status = "running" /\ output = {}
  BY DEF Init
<1>5. BlockOnce(stack, placed, lost)
  BY <1>3, <1>4 DEF BlockOnce
<1> QED BY <1>4, <1>5 DEF BlockInv

LEMMA AlwaysBlockInv == Spec => [](IInv /\ BlockInv)
<1>1. Init => IInv /\ BlockInv
  BY InitEstablishesIInv, InitBlock
<1>2. (IInv /\ BlockInv) /\ [Next]_vars => (IInv /\ BlockInv)'
  BY StepKeepsIInv, StepKeepsBlock
<1> QED BY <1>1, <1>2, PTL DEF Spec

(* UntrustedValue.Place writes the fenced block once and afterwards points  *)
(* back to it: unless an error discarded the block, a pointer has one to    *)
(* point to, and two places never show it.                                  *)
THEOREM PointersHaveTheirBlock == Spec => []RepeatsAfterBlock
<1>1. ASSUME IInv, BlockInv PROVE RepeatsAfterBlock
  <2>1. /\ stack \in Seq(FrameType) /\ 1 \in 1..Len(stack) /\ placed \in 0..2
        /\ output \subseteq stack[1].out
    BY <1>1, TopIsFrame DEF IInv, TypeOK, StackInv, BlockInv
  <2>2. \A what : (\E m \in Marks : m.what = what) <=> \E i \in 1..Len(stack) : ShowsIn(stack, i, what)
    BY <2>1 DEF Marks, ShowsIn
  <2>3. \A i, j \in 1..Len(stack) : Shows(i, "block") /\ Shows(j, "block") => i = j
    BY <1>1 DEF BlockInv, BlockOnce, Shows, ShowsIn
  <2>4. ~ lost /\ (\E m \in Marks : m.what = "repeat") => \E m \in Marks : m.what = "block"
    BY <1>1, <2>1, <2>2 DEF BlockInv, BlockOnce
  <2> QED BY <2>3, <2>4 DEF RepeatsAfterBlock
<1> QED BY <1>1, AlwaysBlockInv, PTL
=============================================================================
