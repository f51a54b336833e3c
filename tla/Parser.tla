------------------------------ MODULE Parser ------------------------------
(***************************************************************************)
(* The parser (internal/exons.parser.go, exons.parser.inheritance.go): the   *)
(* tokens of the lexer become nodes.                                        *)
(*                                                                         *)
(* The recursive descent is a stack of frames, one for each function that   *)
(* reads a body.  Each of their loops has two halves: it looks for what      *)
(* ends its body ("loop"), and else lets parseNode read one node ("node").  *)
(***************************************************************************)
EXTENDS Lexer

VARIABLES
  index,       (* Parser.pos, from 1                                        *)
  frames,      (* the bodies being read, the innermost last                 *)
  half,        (* "loop" or "node"                                          *)
  ast,         (* RootNode.Children                                         *)
  parsed       (* "waiting", "running", "done", or why it was refused       *)

parseVars == <<index, frames, half, ast, parsed>>

-----------------------------------------------------------------------------
Tok(i) == tokens[i]
Current == Tok(index)
AtEnd == Current.t = "eof"
Closes(names) == Current.t = "bclose" /\ Tok(index + 1).v \in {<<n>> : n \in names}
Opens(names) == Current.t = "open" /\ Tok(index + 1).v \in {<<n>> : n \in names}

(* parseAttributes: of the tag at i, to the token that ends it; a name      *)
(* given twice keeps its last value.                                        *)
TagEnd(i) == Least({j \in i..Len(tokens) : Tok(j).t \in {"self", "close"}})
Attributes(i) ==
  LET given == {j \in i..TagEnd(i) : Tok(j).t = "attr"}
      lastOf(n) == CHOOSE j \in given : Tok(j).v[1] = n /\ \A k \in given : Tok(k).v[1] = n => k <= j
  IN  [n \in {Tok(j).v[1] : j \in given} |-> Tok(lastOf(n)).v[2]]

Has(attrs, n) == <<n>> \in DOMAIN attrs
Filled(attrs, n) == Has(attrs, n) /\ attrs[<<n>>] # <<>>

(* A node, or a branch of a conditional or a switch; raw is RawSource, where *)
(* it begins and ends, or <<>>.                                             *)
Node(k, tag, attrs, at, raw, kids) ==
  [k |-> k, tag |-> tag, attrs |-> attrs, at |-> at, raw |-> raw, kids |-> kids]
Frame(k, tag, attrs, at) ==
  [k |-> k, tag |-> tag, attrs |-> attrs, at |-> at, kids |-> <<>>, branches |-> <<>>,
   head |-> [tag |-> tag, attrs |-> attrs, at |-> at]]

Top == Last(frames)
WithKid(f, node) == [f EXCEPT !.kids = Append(@, node)]
Branch(f) == Node("branch", f.head.tag, f.head.attrs, f.head.at, <<>>, f.kids)

Consume(n) == index' = index + n
Frames(fs) == frames' = fs
Keep == UNCHANGED <<ast, parsed>>
Fails(why) ==
  /\ parsed' = why
  /\ UNCHANGED <<index, frames, half, ast>>
Running == parsed = "running"
Looping(kinds) == Running /\ half = "loop" /\ Top.k \in kinds
Popped(node) == LET below == Front(frames) IN Append(Front(below), WithKid(Last(below), node))
RawTo(i) == <<Top.at, Tok(i).to>>

ParseInit ==
  /\ index = 1
  /\ frames = <<Frame("root", <<>>, << >>, 0)>>
  /\ half = "loop"
  /\ ast = <<>>
  /\ parsed = "waiting"

StartParse ==
  /\ parsed = "waiting" /\ lexed = "done"
  /\ parsed' = "running"
  /\ UNCHANGED <<index, frames, half, ast>>

-----------------------------------------------------------------------------
(* The first half of each loop: what ends the body.                         *)

(* Parse: a block close at the top is an error.                             *)
EndRoot ==
  /\ Looping({"root"}) /\ Current.t \in {"eof", "bclose"}
  /\ parsed' = IF AtEnd THEN "done" ELSE "unexpected token"
  /\ ast' = Top.kids
  /\ UNCHANGED <<index, frames, half>>

(* parseBlockTag, after its children.                                       *)
EndBlockTag ==
  /\ Looping({"tag"}) /\ Current.t = "bclose" /\ Tok(index + 1).v = Top.tag
  /\ Frames(Popped(Node("tag", Top.tag, Top.attrs, Top.at, RawTo(index + 2), Top.kids)))
  /\ Consume(3) /\ Keep /\ UNCHANGED half

Mismatched ==
  /\ Looping({"tag"}) /\ Current.t \in {"eof", "bclose"}
  /\ ~ (Current.t = "bclose" /\ Tok(index + 1).v = Top.tag)
  /\ Fails("mismatched")

(* Mutant: a branch records the tag that ends it.                           *)
NextBranchLate(next) ==
  /\ Frames(Append(Front(frames),
        [Top EXCEPT !.branches = Append(@, [Branch(Top) EXCEPT !.at = next.at]), !.kids = <<>>, !.head = next]))
  /\ Consume(TagEnd(index) - index + 1) /\ Keep /\ UNCHANGED half

(* The branch read so far is done and the next begins.                      *)
NextBranch(next) ==
  /\ Frames(Append(Front(frames),
        [Top EXCEPT !.branches = Append(@, Branch(Top)), !.kids = <<>>, !.head = next]))
  /\ Consume(TagEnd(index) - index + 1) /\ Keep /\ UNCHANGED half

(* parseConditionalBranch and parseConditional: the next branch.            *)
Boundary ==
  /\ Looping({"if"}) /\ Opens({"exons.elseif", "exons.else"})
  /\ LET tag == Tok(index + 1).v
         attrs == Attributes(index)
     IN  IF Tok(TagEnd(index)).t # "close" THEN Fails("expected token")
         ELSE IF \/ Top.head.tag = <<"exons.else">>
                 \/ tag = <<"exons.elseif">> /\ ~ Has(attrs, "eval")
                 \/ tag = <<"exons.else">> /\ Has(attrs, "eval")
           THEN Fails("condition")
         ELSE NextBranch([tag |-> tag, attrs |-> attrs, at |-> Current.at])

EndIf ==
  /\ Looping({"if"}) /\ Closes({"exons.if"})
  /\ Frames(Popped(Node("if", Top.tag, Top.attrs, Top.at, RawTo(index + 2),
                        Append(Top.branches, Branch(Top)))))
  /\ Consume(3) /\ Keep /\ UNCHANGED half

(* parseForBody and parseBlock; a block has no raw source.                  *)
EndFor ==
  /\ Looping({"for"}) /\ Closes({"exons.for"})
  /\ Frames(Popped(Node("for", Top.tag, Top.attrs, Top.at, RawTo(index + 2), Top.kids)))
  /\ Consume(3) /\ Keep /\ UNCHANGED half

EndBlock ==
  /\ Looping({"block"}) /\ Closes({"exons.block"})
  /\ Frames(Popped(Node("block", Top.tag, Top.attrs, Top.at, <<>>, Top.kids)))
  /\ Consume(3) /\ Keep /\ UNCHANGED half

(* parseSwitch: between the cases any text is passed over.                  *)
SwitchText ==
  /\ Looping({"switch"}) /\ Current.t = "text"
  /\ Consume(1) /\ Keep /\ UNCHANGED <<frames, half>>

(* Mutant: the body of a case is read like that of any tag.                 *)
SwitchCaseAsTag ==
  /\ Looping({"switch"}) /\ Opens({"exons.case", "exons.casedefault"})
  /\ Frames(Append(frames, Frame("tag", Tok(index + 1).v, Attributes(index), Current.at)))
  /\ Consume(TagEnd(index) - index + 1) /\ Keep /\ UNCHANGED half

SwitchCase ==
  /\ Looping({"switch"}) /\ Current.t = "open"
  /\ LET attrs == Attributes(index)
     IN  IF ~ Opens({"exons.case", "exons.casedefault"}) THEN Fails("switch")
         ELSE IF Opens({"exons.case"}) /\ ~ Filled(attrs, "value") /\ ~ Filled(attrs, "eval")
           THEN Fails("switch")
         ELSE IF Tok(TagEnd(index)).t # "close" THEN Fails("expected token")
         ELSE /\ Frames(Append(frames, Frame("case", Tok(index + 1).v, attrs, Current.at)))
              /\ Consume(TagEnd(index) - index + 1) /\ Keep /\ UNCHANGED half

EndSwitch ==
  /\ Looping({"switch"}) /\ Closes({"exons.switch"})
  /\ Frames(Popped(Node("switch", Top.tag, Top.attrs, Top.at, RawTo(index + 2), Top.branches)))
  /\ Consume(3) /\ Keep /\ UNCHANGED half

SwitchStray ==
  /\ Looping({"switch"}) /\ Current.t = "bclose" /\ ~ Closes({"exons.switch"})
  /\ Fails("switch")

(* parseSwitchCaseBody, and the default once and last.                      *)
EndCase ==
  /\ Looping({"case"}) /\ Closes({Top.tag[1]})
  /\ LET below == Front(frames)
         switch == Last(below)
     IN  IF \E i \in DOMAIN switch.branches : switch.branches[i].tag = <<"exons.casedefault">>
         THEN Fails("switch")
         ELSE /\ Frames(Append(Front(below), [switch EXCEPT !.branches = Append(@, Branch(Top))]))
              /\ Consume(3) /\ Keep /\ UNCHANGED half

CaseNotClosed ==
  /\ Looping({"case"}) /\ Closes({"exons.switch"})
  /\ Fails("switch")

NotClosed ==
  /\ Looping({"if", "for", "block", "switch", "case"}) /\ AtEnd
  /\ Fails("not closed")

(* Mutant: the nodes of a document or a tag do not end at any block close.  *)
EndsBodyOwnClose ==
  IF Top.k = "root" THEN AtEnd
  ELSE AtEnd \/ Closes({"exons.if", "exons.for", "exons.block"}) \/ Top.k = "switch"

(* Nothing that ends the body: on to parseNode.                             *)
EndsBody ==
  CASE Top.k \in {"root", "tag"} -> Current.t \in {"eof", "bclose"}
    [] Top.k = "if" -> AtEnd \/ Closes({"exons.if"}) \/ Opens({"exons.elseif", "exons.else"})
    [] Top.k = "for" -> AtEnd \/ Closes({"exons.for"})
    [] Top.k = "block" -> AtEnd \/ Closes({"exons.block"})
    [] Top.k = "case" -> AtEnd \/ Closes({Top.tag[1], "exons.switch"})
    [] OTHER -> TRUE

LookFurther ==
  /\ Running /\ half = "loop" /\ ~ EndsBody
  /\ half' = "node"
  /\ UNCHANGED <<index, frames, ast, parsed>>

-----------------------------------------------------------------------------
(* The second half: parseNode.                                              *)
Parsing(t) == Running /\ half = "node" /\ Current.t = t
Back == half' = "loop"
AddKid(node) == Frames(Append(Front(frames), WithKid(Top, node)))

ParseText ==
  /\ Parsing("text")
  /\ AddKid(Node("text", <<>>, << >>, Current.at, <<>>, <<>>))
  /\ Consume(1) /\ Back /\ Keep

(* Mutant: the raw source of every tag ends with the shorter delimiter.     *)
ParseSelfClosingShort ==
  /\ Parsing("open") /\ Tok(TagEnd(index)).t = "self"
  /\ LET end == TagEnd(index)
     IN  /\ AddKid(Node("tag", Tok(index + 1).v, Attributes(index), Current.at,
                        <<Current.at, Tok(end).at + Len(Shut)>>, <<>>))
         /\ Consume(end - index + 1) /\ Back /\ Keep

ParseSelfClosing ==
  /\ Parsing("open") /\ Tok(TagEnd(index)).t = "self"
  /\ LET end == TagEnd(index)
     IN  /\ AddKid(Node("tag", Tok(index + 1).v, Attributes(index), Current.at,
                        <<Current.at, Tok(end).to>>, <<>>))
         /\ Consume(end - index + 1) /\ Back /\ Keep

ParsingBlock == Parsing("open") /\ Tok(TagEnd(index)).t = "close"

(* parseRawBlock and parseCommentBlock: an optional text and the close.     *)
ParseVerbatim ==
  /\ ParsingBlock /\ Opens({"exons.raw", "exons.comment"})
  /\ LET body == TagEnd(index) + 1
         close == IF Tok(body).t = "text" THEN body + 1 ELSE body
     IN  /\ IF Opens({"exons.comment"}) THEN UNCHANGED frames
            ELSE AddKid(Node("raw", Tok(index + 1).v, << >>, Current.at,
                             <<Current.at, Tok(close + 2).to>>, <<>>))
         /\ Consume(close + 3 - index) /\ Back /\ Keep

Kinds == [t \in {<<"exons.if">>, <<"exons.for">>, <<"exons.switch">>, <<"exons.block">>} |->
            CASE t = <<"exons.if">> -> "if"
              [] t = <<"exons.for">> -> "for"
              [] t = <<"exons.switch">> -> "switch" [] OTHER -> "block"]
Numerals == {"0", "2"}

(* What each construct demands of its attributes.                           *)
Demands(k, attrs) ==
  CASE k = "if" -> Has(attrs, "eval")
    [] k = "for" -> /\ Filled(attrs, "item") /\ Filled(attrs, "in")
                    /\ Has(attrs, "limit") => attrs[<<"limit">>] \in {<<n>> : n \in Numerals}
    [] k = "switch" -> Filled(attrs, "eval")
    [] k = "block" -> Has(attrs, "name")
    [] OTHER -> TRUE

ParseBlockTag ==
  /\ ParsingBlock /\ ~ Opens({"exons.raw", "exons.comment"})
  /\ LET tag == Tok(index + 1).v
         attrs == Attributes(index)
         k == IF tag \in DOMAIN Kinds THEN Kinds[tag] ELSE "tag"
     IN  IF ~ Demands(k, attrs) THEN Fails(k)
         ELSE /\ Frames(Append(frames, Frame(k, tag, attrs, Current.at)))
              /\ Consume(TagEnd(index) - index + 1) /\ Back /\ Keep

(* A block close: no node, and nothing is consumed.                         *)
ParseNothing ==
  /\ Parsing("bclose")
  /\ Back
  /\ UNCHANGED <<index, frames, ast, parsed>>

ParseStep ==
  \/ StartParse \/ EndRoot \/ EndBlockTag \/ Mismatched \/ Boundary \/ EndIf \/ EndFor \/ EndBlock
  \/ SwitchText \/ SwitchCase \/ EndSwitch \/ SwitchStray \/ EndCase \/ CaseNotClosed \/ NotClosed
  \/ LookFurther \/ ParseText \/ ParseSelfClosing \/ ParseVerbatim \/ ParseBlockTag \/ ParseNothing
=============================================================================
