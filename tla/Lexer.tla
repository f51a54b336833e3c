------------------------------- MODULE Lexer -------------------------------
(***************************************************************************)
(* The lexer (internal/exons.lexer.go, internal/exons.markdown.go): a        *)
(* source becomes tokens, one construct per step.                           *)
(*                                                                         *)
(* A source is a sequence of atoms: a character (nl, bq, dq and sq are     *)
(* the newline and the quotation marks), or a word of letters.              *)
(* Escapes, verbatim fences, raw and comment blocks, tags and markdown      *)
(* fences all compete for the same characters; the order in which they are  *)
(* tried is the order of the guards.                                        *)
(***************************************************************************)
EXTENDS Naturals, Sequences, SequencesExt, FiniteSets

CONSTANTS
  Sources,     (* the sources considered                                    *)
  Words        (* the atoms that are words; those with a dot are no         *)
               (* attribute names                                           *)

ASSUME SourcesAssumption == \A src \in Sources : src \in Seq(Range(src))

DottedWords ==
  {"exons.raw", "exons.comment", "exons.if", "exons.elseif", "exons.else", "exons.for",
   "exons.switch", "exons.case", "exons.casedefault", "exons.block"}

VARIABLES
  source,      (* what is read                                              *)
  markdown,    (* LexerConfig.MarkdownFences                                *)
  regions,     (* Lexer.inertRegions                                        *)
  pos,         (* Lexer.pos                                                 *)
  inertIdx,    (* Lexer.inertIdx                                            *)
  tokens,      (* what Tokenize has so far                                  *)
  lexed        (* "running", "done" or "error"                              *)

lexVars == <<source, markdown, regions, pos, inertIdx, tokens, lexed>>

-----------------------------------------------------------------------------
Open == <<"{", "~">>
Shut == <<"~", "}">>
SelfShut == <<"/", "~", "}">>
BlockShut == <<"{", "~", "/">>
EscapedOpen == <<"\\", "{", "~">>

Matches(src, p, s) == p + Len(s) <= Len(src) + 1 /\ SubSeq(src, p, p + Len(s) - 1) = s
RunEnd(src, p, S) ==
  CHOOSE q \in p..(Len(src) + 1) :
    /\ q = Len(src) + 1 \/ src[q] \notin S
    /\ \A r \in p..(q - 1) : src[r] \in S
Least(S) == CHOOSE n \in S : \A m \in S : n <= m

(* A token: its type, its value, and the characters it stands for.          *)
Token(t, v, from, to) == [t |-> t, v |-> v, at |-> from, to |-> to]

-----------------------------------------------------------------------------
(* ScanMarkdownFences                                                       *)
LineEnd(src, p) == Least({q \in p..(Len(src) + 1) : q = Len(src) + 1 \/ src[q] = "nl"})
AfterLine(src, p) == IF LineEnd(src, p) > Len(src) THEN Len(src) + 1 ELSE LineEnd(src, p) + 1

(* parseFenceOpen and isFenceClose: the run of fence characters of a line.  *)
FenceRun(src, p) ==
  LET s == RunEnd(src, p, {" "})
      mark == IF s <= Len(src) THEN src[s] ELSE "nl"
      e == IF mark \in {"bq", "~"} THEN RunEnd(src, s, {mark}) ELSE s
      rest == Append(SubSeq(src, e, LineEnd(src, p) - 1), " ")
      info == SelectSeq(rest, LAMBDA a : a # " ")
      fits == s - p <= 3
  IN  [mark |-> mark, len |-> e - s,
       opens |-> fits /\ e - s >= 3 /\ (mark = "bq" => "bq" \notin Range(rest)),
       closes |-> fits /\ info = <<>>,
       live |-> \E i \in DOMAIN rest :
                  rest[i] = "exons" /\ RunEnd(rest, 1, {" "}) = i /\ rest[i + 1] = " "]

Closers(src, p) ==
  LET run == FenceRun(src, p)
  IN  {q \in AfterLine(src, p)..Len(src) :
         /\ src[q - 1] = "nl"
         /\ FenceRun(src, q).closes
         /\ FenceRun(src, q).mark = run.mark
         /\ FenceRun(src, q).len >= run.len}

(* The regions in their order; one that is not closed runs to the end.      *)
ScanMarkdownFences(src) ==
  LET from[p \in 1..(Len(src) + 1)] ==
        IF p = Len(src) + 1 THEN <<>>
        ELSE IF ~ FenceRun(src, p).opens THEN from[AfterLine(src, p)]
        ELSE LET C == Closers(src, p)
                 end == IF C = {} THEN Len(src) + 1 ELSE AfterLine(src, Least(C))
             IN  <<[start |-> p, end |-> end, live |-> FenceRun(src, p).live]>> \o from[end]
  IN  from[1]

(* currentInertRegion: the cursor skips the regions that are behind p.      *)
Cursor(idx, p) ==
  Least({i \in idx..(Len(regions) + 1) : i = Len(regions) + 1 \/ regions[i].end > p})

(* Mutant: a region is inert only when it is entered at its start.          *)
InertFromStart(idx, p) ==
  LET i == Cursor(idx, p)
  IN  i <= Len(regions) /\ ~ regions[i].live /\ regions[i].start = p

Inert(idx, p) ==
  LET i == Cursor(idx, p)
  IN  i <= Len(regions) /\ ~ regions[i].live /\ regions[i].start <= p

-----------------------------------------------------------------------------
(* Constructs.  Each is where it ends and its tokens; an error ends at 0.   *)
Scanned(to, ts) == [to |-> to, tokens |-> ts]
LexError == Scanned(0, <<>>)

(* scanVerbatimFence: the first run of exactly k tildes before a brace.     *)
FenceOrder(src, p) == IF src[p] = "{" THEN RunEnd(src, p + 1, {"~"}) - (p + 1) ELSE 0
ScanFence(src, p) ==
  LET k == FenceOrder(src, p)
      body == p + 1 + k
      ends == {q \in body..Len(src) : /\ src[q] = "~" /\ src[q - 1] # "~"
                                      /\ RunEnd(src, q, {"~"}) = q + k
                                      /\ Matches(src, q + k, <<"}">>)}
  IN  IF ends = {} THEN LexError
      ELSE LET q == Least(ends)
           IN  Scanned(q + k + 1, <<Token("text", SubSeq(src, body, q - 1), p, q + k + 1)>>)

(* scanAttrValue: from the quote on; the value and where it ends, or 0.     *)
AttrValue(src, p) ==
  LET quote == src[p]
      from[q \in (p + 1)..(Len(src) + 2)] ==
        IF q > Len(src) THEN [to |-> 0, v |-> <<>>]
        ELSE IF src[q] = quote THEN [to |-> q + 1, v |-> <<>>]
        ELSE LET escaped == src[q] = "\\" /\ q < Len(src) /\ src[q + 1] \in {quote, "\\"}
                 c == IF escaped THEN q + 1 ELSE q
                 rest == from[c + 1]
             IN  [rest EXCEPT !.v = <<src[c]>> \o @]
  IN  from[p + 1]

(* scanAttribute: name, equals sign and quoted value.                       *)
Blanks == {" ", "nl"}
ScanAttribute(src, p) ==
  LET n == RunEnd(src, p, Words \ DottedWords)
      eq == RunEnd(src, n, Blanks)
      q == RunEnd(src, eq + 1, Blanks)
  IN  IF n = p \/ ~ Matches(src, eq, <<"=">>) \/ q > Len(src) THEN LexError
      ELSE IF src[q] \notin {"dq", "sq"} THEN LexError
      ELSE LET a == AttrValue(src, q)
           IN  IF a.to = 0 THEN LexError
               ELSE Scanned(a.to, <<Token("attr", <<SubSeq(src, p, n - 1), a.v>>, p, a.to)>>)

(* scanTagContent: the name, the attributes, and how the tag ends.          *)
ScanTag(src, p, isBlockClose) ==
  LET n == RunEnd(src, p, Blanks)
      e == RunEnd(src, n, Words)
      name == Token("name", SubSeq(src, n, e - 1), n, e)
      from[q \in e..(Len(src) + 1)] ==
        LET s == RunEnd(src, q, Blanks)
            a == ScanAttribute(src, s)
            rest == from[a.to]
        IN  IF s > Len(src) THEN LexError
            ELSE IF ~ isBlockClose /\ Matches(src, s, SelfShut)
              THEN Scanned(s + 3, <<Token("self", <<>>, s, s + 3)>>)
            ELSE IF Matches(src, s, Shut) THEN Scanned(s + 2, <<Token("close", <<>>, s, s + 2)>>)
            ELSE IF isBlockClose \/ a.to = 0 \/ rest.to = 0 THEN LexError
            ELSE Scanned(rest.to, a.tokens \o rest.tokens)
      content == from[e]
  IN  IF n > Len(src) \/ e = n \/ content.to = 0 THEN LexError
      ELSE Scanned(content.to, <<name>> \o content.tokens)

(* scanVerbatimBlock: to the first canonical close.                         *)
ScanVerbatim(src, p, name) ==
  LET shut == BlockShut \o name \o Shut
      ends == {q \in p..Len(src) : Matches(src, q, shut)}
      q == Least(ends)
      n == q + 3 + Len(name)
  IN  IF ends = {} THEN LexError
      ELSE Scanned(n + 2, (IF q = p THEN <<>> ELSE <<Token("text", SubSeq(src, p, q - 1), p, q)>>)
                          \o <<Token("bclose", <<>>, q, q + 3), Token("name", name, q + 3, n),
                               Token("close", <<>>, n, n + 2)>>)

IsVerbatim(ts) == ts[1].v \in {<<"exons.raw">>, <<"exons.comment">>} /\ Last(ts).t = "close"

ScanOpenTag(src, p) ==
  LET tag == ScanTag(src, p + 2, FALSE)
      verbatim == ScanVerbatim(src, tag.to, tag.tokens[1].v)
      head == <<Token("open", <<>>, p, p + 2)>> \o tag.tokens
  IN  IF tag.to = 0 THEN LexError
      ELSE IF ~ IsVerbatim(tag.tokens) THEN Scanned(tag.to, head)
      ELSE IF verbatim.to = 0 THEN LexError
      ELSE Scanned(verbatim.to, head \o verbatim.tokens)

ScanBlockClose(src, p) ==
  LET tag == ScanTag(src, p + 3, TRUE)
  IN  IF tag.to = 0 THEN LexError
      ELSE Scanned(tag.to, <<Token("bclose", <<>>, p, p + 3)>> \o tag.tokens)

(* scanText: to the next region, escape or delimiter.                       *)
ScanText(src, idx, p) ==
  LET stops == {q \in p..(Len(src) + 1) :
                  \/ q = Len(src) + 1 \/ Inert(idx, q)
                  \/ Matches(src, q, EscapedOpen) \/ Matches(src, q, Open)}
      q == Least(stops)
  IN  Scanned(q, <<Token("text", SubSeq(src, p, q - 1), p, q)>>)

-----------------------------------------------------------------------------
LexInit ==
  /\ source \in Sources
  /\ markdown \in BOOLEAN
  /\ regions = IF markdown THEN ScanMarkdownFences(source) ELSE <<>>
  /\ pos = 1
  /\ inertIdx = 1
  /\ tokens = <<>>
  /\ lexed = "running"

(* Mutant: what is escaped is kept with its backslash.                      *)
EmitKept(s) ==
  LET escape == Matches(source, pos, EscapedOpen) /\ s.to = pos + 3
  IN  /\ pos' = IF s.to = 0 THEN pos ELSE s.to
      /\ tokens' = tokens \o (IF escape THEN <<Token("text", EscapedOpen, pos, s.to)>> ELSE s.tokens)
      /\ lexed' = IF s.to = 0 THEN "error" ELSE "running"
      /\ inertIdx' = Cursor(inertIdx, pos)
      /\ UNCHANGED <<source, markdown, regions>>

Emit(s) ==
  /\ pos' = IF s.to = 0 THEN pos ELSE s.to
  /\ tokens' = tokens \o s.tokens
  /\ lexed' = IF s.to = 0 THEN "error" ELSE "running"
  /\ inertIdx' = Cursor(inertIdx, pos)
  /\ UNCHANGED <<source, markdown, regions>>

Scanning == lexed = "running" /\ pos <= Len(source)
InInert == Inert(inertIdx, pos)

InertRegion ==
  /\ Scanning /\ InInert
  /\ LET end == regions[Cursor(inertIdx, pos)].end
     IN  Emit(Scanned(end, <<Token("text", SubSeq(source, pos, end - 1), pos, end)>>))

Escape ==
  /\ Scanning /\ ~ InInert /\ Matches(source, pos, EscapedOpen)
  /\ Emit(Scanned(pos + 3, <<Token("text", Open, pos, pos + 3)>>))

VerbatimFence ==
  /\ Scanning /\ ~ InInert /\ FenceOrder(source, pos) >= 2
  /\ Emit(ScanFence(source, pos))

BlockClose ==
  /\ Scanning /\ ~ InInert /\ FenceOrder(source, pos) = 1 /\ Matches(source, pos, BlockShut)
  /\ Emit(ScanBlockClose(source, pos))

OpenTag ==
  /\ Scanning /\ ~ InInert /\ FenceOrder(source, pos) = 1 /\ ~ Matches(source, pos, BlockShut)
  /\ Emit(ScanOpenTag(source, pos))

PlainText ==
  /\ Scanning /\ ~ InInert /\ ~ Matches(source, pos, EscapedOpen) /\ FenceOrder(source, pos) = 0
  /\ Emit(ScanText(source, inertIdx, pos))

EndOfSource ==
  /\ lexed = "running" /\ pos > Len(source)
  /\ tokens' = Append(tokens, Token("eof", <<>>, pos, pos))
  /\ lexed' = "done"
  /\ UNCHANGED <<source, markdown, regions, pos, inertIdx>>

Tokenize ==
  InertRegion \/ Escape \/ VerbatimFence \/ BlockClose \/ OpenTag \/ PlainText \/ EndOfSource
=============================================================================
