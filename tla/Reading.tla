------------------------------ MODULE Reading ------------------------------
(***************************************************************************)
(* A document is read: the lexer to its end, then the parser                *)
(* (parseTemplateBody).  What the two promise of the characters of the      *)
(* source.                                                                  *)
(***************************************************************************)
EXTENDS Parser

vars == <<source, markdown, regions, pos, inertIdx, tokens, lexed, index, frames, half, ast, parsed>>

Init == LexInit /\ ParseInit
Next == (Tokenize /\ UNCHANGED parseVars) \/ (ParseStep /\ UNCHANGED lexVars)
Spec == Init /\ [][Next]_vars /\ WF_vars(Next)

-----------------------------------------------------------------------------
Refusals ==
  {"unexpected token", "mismatched", "expected token", "condition", "switch", "not closed",
   "if", "for", "block"}

TypeOK ==
  /\ markdown \in BOOLEAN
  /\ pos \in 1..(Len(source) + 1)
  /\ inertIdx \in 1..(Len(regions) + 1)
  /\ lexed \in {"running", "done", "error"}
  /\ index \in 1..(Len(tokens) + 1)
  /\ frames # <<>> /\ frames[1].k = "root"
  /\ \A i \in DOMAIN frames : frames[i].k = "case" <=> i > 1 /\ frames[i - 1].k = "switch"
  /\ half \in {"loop", "node"}
  /\ parsed \in Refusals \cup {"waiting", "running", "done"}

(* A source in which every open delimiter of a text is escaped.             *)
Escaping(text) ==
  LET from[i \in 1..(Len(text) + 1)] ==
        IF i > Len(text) THEN <<>>
        ELSE (IF Matches(text, i, Open) THEN <<"\\">> ELSE <<>>) \o <<text[i]>> \o from[i + 1]
  IN  from[1]
TextOf(ts) ==
  LET from[i \in 1..(Len(ts) + 1)] == IF i > Len(ts) THEN <<>> ELSE ts[i].v \o from[i + 1]
  IN  from[1]

(* Outside a markdown fence any text can be written: with its delimiters     *)
(* escaped it is read as what it was.                                       *)
EscapingReadsBack ==
  lexed # "running" /\ regions = <<>> =>
    \A text \in {SelectSeq(source, LAMBDA a : a # "\\")} :
      source = Escaping(text) =>
        /\ lexed = "done" /\ TextOf(tokens) = text
        /\ \A i \in DOMAIN tokens : tokens[i].t \in {"text", "eof"}

(* The verbatim block a block close at token i ends, or 0: it opened before. *)
ClosesVerbatim(i) ==
  /\ i < Len(tokens) /\ tokens[i].t = "bclose"
  /\ tokens[i + 1].v \in {<<"exons.raw">>, <<"exons.comment">>}
  /\ \E j \in 1..(i - 1) : /\ tokens[j].t = "open" /\ tokens[j + 1].v = tokens[i + 1].v
                           /\ \A k \in (j + 1)..(i - 1) : tokens[k].t # "bclose"

VerbatimText(i) == tokens[i].t = "text" /\ ClosesVerbatim(i + 1)

(* In a markdown fence nothing is a tag and nothing an escape, whatever was  *)
(* passed over before: only what opened before it reaches into it.          *)
FencesAreInert ==
  \A r \in Range(regions) : ~ r.live =>
    \A i \in DOMAIN tokens : r.start <= tokens[i].at /\ tokens[i].at < r.end =>
      /\ tokens[i].t # "open"
      /\ tokens[i].t = "bclose" => ClosesVerbatim(i)
      /\ tokens[i].t = "text" /\ ~ VerbatimText(i) =>
                                 /\ tokens[i].to = r.end
                                 /\ tokens[i].v = SubSeq(source, tokens[i].at, r.end - 1)

Refused == lexed = "error" \/ parsed \in Refusals
Read == Refused \/ parsed = "done"

(* In a body that only its own close ends, a block close of another.        *)
StrayClose ==
  /\ parsed = "running" /\ Current.t = "bclose" /\ Top.k \in {"if", "for", "block", "case"}
  /\ ~ EndsBody

(* Reading ends: every step takes a character or a token, or a decision, but  *)
(* where a body that only its own close ends meets another block close.      *)
Advances ==
  \/ pos' > pos \/ lexed' # lexed \/ parsed' # parsed \/ index' > index
  \/ half = "loop" /\ half' = "node"
EveryStepAdvances == [][Advances \/ StrayClose]_vars

(* docs/template-syntax.md: "parse-time refusals (...) an unclosed or        *)
(* mismatched construct".  A mismatched construct is refused.               *)
MismatchedIsRefused == <>Read
=============================================================================
