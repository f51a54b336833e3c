---------------------------- MODULE Expressions ----------------------------
(***************************************************************************)
(* The expressions of eval= attributes: the tokenizer, the parser, the     *)
(* evaluator and the walk that lists the context paths an expression       *)
(* names (internal/exons.expr.*.go, exons.expr.identifiers.go).  All of    *)
(* them are functions of their arguments.                                  *)
(*                                                                         *)
(* A text is a sequence of characters.  A character is a one-letter        *)
(* string, and those that TLA+ strings cannot hold have names.             *)
(***************************************************************************)
EXTENDS Integers, SequencesExt

DQ == "dq"          \* the double quote
SQ == "sq"          \* the single quote
BS == "bs"          \* the backslash
NL == "nl"          \* the line feed
TAB == "tab"        \* the tab
CR == "cr"          \* the carriage return

Letters == {"a", "b", "e", "f", "i", "k", "l", "n", "o", "p", "r", "s", "t",
            "u", "v", "x", "y", "z", "_"}
Digits == {"0", "1", "2", "3", "4", "5", "6", "7", "8", "9"}
Spaces == {" ", TAB, NL, CR}

-----------------------------------------------------------------------------
(* Tokens.  A scanner answers with its token and the place after it, or with no
   token at all. *)

Token(type, value, next) == [type |-> type, value |-> value, next |-> next]

NoToken == Token("error", <<>>, 0)

\* The first position from i on whose character is not in S.
RunEnd(in, i, S) ==
  CHOOSE k \in i..(Len(in) + 1) :
    /\ k > Len(in) \/ in[k] \notin S
    /\ \A j \in i..(k - 1) : in[j] \in S

CharAt(in, i) == IF i <= Len(in) THEN in[i] ELSE "end"

\* What a backslash makes of the character after it; most stand for themselves.
Unescaped(c) ==
  CASE c = "n" -> NL
    [] c = "t" -> TAB
    [] c = "r" -> CR
    [] OTHER -> c

\* What stands between the quotes, with its escapes undone.
RECURSIVE ReadString(_, _, _, _)
ReadString(in, quote, i, read) ==
  IF i > Len(in) THEN NoToken
  ELSE IF in[i] = quote THEN Token("STRING", read, i + 1)
  ELSE IF in[i] = BS /\ i < Len(in)
    THEN ReadString(in, quote, i + 2, Append(read, Unescaped(in[i + 1])))
    ELSE ReadString(in, quote, i + 1, Append(read, in[i]))

\* Digits, with one point among them or before or after them.
ReadNumber(in, i) ==
  LET whole == RunEnd(in, i, Digits)
      end   == IF CharAt(in, whole) = "." THEN RunEnd(in, whole + 1, Digits) ELSE whole
  IN  Token("NUMBER", SubSeq(in, i, end - 1), end)

ReadIdentifier(in, i) ==
  LET end  == RunEnd(in, i, Letters \union Digits \union {"."})
      word == SubSeq(in, i, end - 1)
  IN  Token(CASE word \in {<<"t", "r", "u", "e">>, <<"f", "a", "l", "s", "e">>} -> "BOOL"
              [] word = <<"n", "i", "l">> -> "NIL"
              [] OTHER -> "IDENT",
            word, end)

TwoCharacters == {<<"&", "&">>, <<"|", "|">>, <<"=", "=">>, <<"!", "=">>, <<"<", "=">>, <<">", "=">>}
OneCharacter == {<<"(">>, <<")">>, <<",">>, <<"!">>, <<"<">>, <<">">>}

ReadOperator(in, i) ==
  LET two == SubSeq(in, i, i + 1)
      one == SubSeq(in, i, i)
  IN  CASE i < Len(in) /\ two \in TwoCharacters -> Token("op", two, i + 2)
        [] ~(i < Len(in) /\ two \in TwoCharacters) /\ one \in OneCharacter -> Token("op", one, i + 1)
        [] OTHER -> NoToken

NextToken(in, i) ==
  CASE in[i] \in {DQ, SQ} -> ReadString(in, in[i], i + 1, <<>>)
    [] in[i] \in Digits \/ (in[i] = "." /\ CharAt(in, i + 1) \in Digits) -> ReadNumber(in, i)
    [] in[i] \in Letters -> ReadIdentifier(in, i)
    [] OTHER -> ReadOperator(in, i)

\* The tokens from i on, an EOF last; a sequence that ends in an error holds no tokens.
RECURSIVE TokensFrom(_, _)
TokensFrom(in, i) ==
  LET at == RunEnd(in, i, Spaces)
  IN  IF at > Len(in) THEN <<Token("EOF", <<>>, at)>>
      ELSE LET tok == NextToken(in, at)
           IN  IF tok = NoToken THEN <<NoToken>> ELSE <<tok>> \o TokensFrom(in, tok.next)

Tokenize(in) == TokensFrom(in, 1)

-----------------------------------------------------------------------------
(* Trees.  Literals keep their text, so that any two trees can be compared. *)

Literal(type, text) == [kind |-> "literal", op |-> type, text |-> text, args |-> <<>>]
Identifier(path) == [kind |-> "identifier", op |-> "", text |-> path, args |-> <<>>]
Unary(right) == [kind |-> "unary", op |-> "!", text |-> <<"!">>, args |-> <<right>>]
Binary(left, op, right) == [kind |-> "binary", op |-> "", text |-> op, args |-> <<left, right>>]
Call(name, args) == [kind |-> "call", op |-> "", text |-> name, args |-> args]

\* The binary operators, from those that bind least to those that bind most.
Levels ==
  << {<<"|", "|">>}, {<<"&", "&">>}, {<<"=", "=">>, <<"!", "=">>},
     {<<"<">>, <<">">>, <<"<", "=">>, <<">", "=">>} >>

(* Every function of the parser answers with the nodes it read and the token after
   them, or with nothing. *)
Parsed(nodes, next) == [ok |-> TRUE, nodes |-> nodes, next |-> next]
Unparsed == [ok |-> FALSE, nodes |-> <<>>, next |-> 0]

IsOp(toks, i, ops) == toks[i].type = "op" /\ toks[i].value \in ops

RECURSIVE ParseLevel(_, _, _), ParseMore(_, _, _), ParseUnary(_, _), ParsePrimary(_, _), ParseArgs(_, _)

ParseLevel(toks, i, level) ==
  IF level > Len(Levels) THEN ParseUnary(toks, i)
  ELSE LET left == ParseLevel(toks, i, level + 1)
       IN  IF left.ok THEN ParseMore(toks, left, level) ELSE Unparsed

\* Variant: operators of one level group to the right.
ParseMoreFromTheRight(toks, left, level) ==
  IF ~IsOp(toks, left.next, Levels[level]) THEN left
  ELSE LET right == ParseLevel(toks, left.next + 1, level)
       IN  IF ~right.ok THEN Unparsed
           ELSE Parsed(<<Binary(left.nodes[1], toks[left.next].value, right.nodes[1])>>, right.next)

\* The loop of each level: operators of one level group to the left.
ParseMore(toks, left, level) ==
  IF ~IsOp(toks, left.next, Levels[level]) THEN left
  ELSE LET right == ParseLevel(toks, left.next + 1, level + 1)
       IN  IF ~right.ok THEN Unparsed
           ELSE ParseMore(toks,
                          Parsed(<<Binary(left.nodes[1], toks[left.next].value, right.nodes[1])>>,
                                 right.next),
                          level)

ParseUnary(toks, i) ==
  IF ~IsOp(toks, i, {<<"!">>}) THEN ParsePrimary(toks, i)
  ELSE LET right == ParseUnary(toks, i + 1)
       IN  IF right.ok THEN Parsed(<<Unary(right.nodes[1])>>, right.next) ELSE Unparsed

\* Arguments up to the closing parenthesis, which is required.
ParseArgs(toks, i) ==
  LET arg == ParseLevel(toks, i, 1)
  IN  IF ~arg.ok THEN Unparsed
      ELSE IF IsOp(toks, arg.next, {<<")">>}) THEN Parsed(arg.nodes, arg.next + 1)
      ELSE IF ~IsOp(toks, arg.next, {<<",">>}) THEN Unparsed
      ELSE LET rest == ParseArgs(toks, arg.next + 1)
           IN  IF rest.ok THEN Parsed(arg.nodes \o rest.nodes, rest.next) ELSE Unparsed

\* A primary that is an identifier, parenthesised or not, is called by a parenthesis after it.
FinishCall(toks, primary) ==
  IF ~(primary.ok /\ primary.nodes[1].kind = "identifier" /\ IsOp(toks, primary.next, {<<"(">>}))
    THEN primary
  ELSE LET args == IF IsOp(toks, primary.next + 1, {<<")">>})
                     THEN Parsed(<<>>, primary.next + 2)
                     ELSE ParseArgs(toks, primary.next + 1)
       IN  IF args.ok THEN Parsed(<<Call(primary.nodes[1].text, args.nodes)>>, args.next) ELSE Unparsed

ParsePrimary(toks, i) ==
  LET inner == ParseLevel(toks, i + 1, 1)
  IN  CASE toks[i].type \in {"STRING", "NUMBER", "BOOL", "NIL"} ->
             Parsed(<<Literal(toks[i].type, toks[i].value)>>, i + 1)
        [] toks[i].type = "IDENT" -> FinishCall(toks, Parsed(<<Identifier(toks[i].value)>>, i + 1))
        [] IsOp(toks, i, {<<"(">>}) ->
             IF inner.ok /\ IsOp(toks, inner.next, {<<")">>})
               THEN FinishCall(toks, Parsed(inner.nodes, inner.next + 1))
               ELSE Unparsed
        [] OTHER -> Unparsed

\* The tree of a text, as a sequence of one; no tree when there is an error or a token is left over.
ParseExpression(in) ==
  LET toks == Tokenize(in)
      tree == ParseLevel(toks, 1, 1)
  IN  IF Last(toks).type = "EOF" /\ tree.ok /\ toks[tree.next].type = "EOF" THEN tree.nodes ELSE <<>>

-----------------------------------------------------------------------------
(* The context paths a tree names: every identifier in it, and no function. *)

RECURSIVE CollectExprIdentifiers(_)
CollectExprIdentifiers(tree) ==
  IF tree.kind = "identifier" THEN {tree.text}
  ELSE UNION {CollectExprIdentifiers(tree.args[k]) : k \in DOMAIN tree.args}

IsBlankText(in) == \A k \in DOMAIN in : in[k] \in Spaces

\* known is FALSE when the text cannot be parsed: its paths are unknown then, not absent.
ExpressionIdentifiers(in) ==
  LET tree == ParseExpression(in)
  IN  IF IsBlankText(in) THEN [known |-> TRUE, paths |-> {}]
      ELSE [known |-> tree # <<>>,
            paths |-> UNION {CollectExprIdentifiers(tree[k]) : k \in DOMAIN tree}]

-----------------------------------------------------------------------------
(* Values: nil, booleans and numbers (v is a number), strings (v is a text),
   lists (v is a sequence of values) and maps (v is a function from names to values). *)

Nil == [type |-> "nil", v |-> 0]
Bool(b) == [type |-> "bool", v |-> IF b THEN 1 ELSE 0]
Num(n) == [type |-> "num", v |-> n]
Str(t) == [type |-> "str", v |-> t]
List(s) == [type |-> "list", v |-> s]
Map(f) == [type |-> "map", v |-> f]

Size(val) == IF val.type = "map" THEN Cardinality(DOMAIN val.v) ELSE Len(val.v)

IsTruthy(val) ==
  CASE val.type = "nil" -> FALSE
    [] val.type \in {"bool", "num"} -> val.v # 0
    [] OTHER -> Size(val) > 0

IsEmpty(val) == val.type = "nil" \/ (val.type \in {"str", "list", "map"} /\ Size(val) = 0)

\* The parts of a dotted path; empty parts are skipped.
Parts(path) ==
  LET dots == {0, Len(path) + 1} \union {k \in DOMAIN path : path[k] = "."}
      EndOf(k) == CHOOSE e \in dots : e > k /\ \A d \in dots : d > k => d >= e
      starts == SetToSortSeq({k \in dots : k <= Len(path) /\ EndOf(k) > k + 1}, LAMBDA j, k : j < k)
  IN  [k \in DOMAIN starts |-> SubSeq(path, starts[k] + 1, EndOf(starts[k]) - 1)]

\* The values a walk down a path comes to: one, or none.
Walk(val, parts) ==
  FoldLeft(LAMBDA found, part :
             IF found # <<>> /\ found[1].type = "map" /\ part \in DOMAIN found[1].v
               THEN <<found[1].v[part]>> ELSE <<>>,
           <<val>>, parts)

(* A context is a sequence of maps, the innermost first.  The innermost frame that holds
   the whole path answers. *)
Get(ctx, path) ==
  LET parts == Parts(path)
      found == SelectSeq([k \in DOMAIN ctx |-> Walk(Map(ctx[k]), parts)], LAMBDA w : w # <<>>)
  IN  IF path = <<>> \/ found = <<>> THEN <<>> ELSE found[1]

(* What an evaluation came to: a value, an error or a panic, and the paths it asked for. *)
Value(val, reads) == [out |-> "value", val |-> val, reads |-> reads]
Failed(reads) == [out |-> "error", val |-> Nil, reads |-> reads]
Panicked(reads) == [out |-> "panic", val |-> Nil, reads |-> reads]

DigitsOf == [c \in Digits |-> CHOOSE n \in 0..9 : <<"0", "1", "2", "3", "4", "5", "6", "7", "8", "9">>[n + 1] = c]

\* The value of a literal; the digits after a point are beyond what is compared here.
LiteralValue(tree) ==
  CASE tree.op = "STRING" -> Str(tree.text)
    [] tree.op = "BOOL" -> Bool(tree.text = <<"t", "r", "u", "e">>)
    [] tree.op = "NIL" -> Nil
    [] tree.op = "NUMBER" ->
         Num(FoldLeft(LAMBDA n, c : 10 * n + DigitsOf[c], 0,
                      SubSeq(tree.text, 1, RunEnd(tree.text, 1, Digits) - 1)))

\* What toString makes a string of: strings, and nil.
AsString(val) == IF val.type = "nil" THEN <<>> ELSE val.v

CompareEqual(a, b) ==
  CASE a.type = "nil" \/ b.type = "nil" -> Value(Bool(a.type = b.type), {})
    [] a.type # b.type -> Value(Bool(FALSE), {})
    [] a.type = b.type /\ a.type \in {"list", "map"} -> Panicked({})
    [] OTHER -> Value(Bool(a.v = b.v), {})

\* The characters in use in the order of their bytes, and the order of texts that it makes.
Alphabet == <<TAB, NL, CR, " ", "!", DQ, "&", SQ, "(", ")", ",", ".", "0", "1", "2", "3", "4", "5", "6", "7",
              "8", "9", "<", "=", ">", BS, "_", "a", "b", "e", "f", "i", "k", "l", "n", "o", "p", "r",
              "s", "t", "u", "v", "x", "y", "z", "|">>

Rank(c) == CHOOSE k \in DOMAIN Alphabet : Alphabet[k] = c

Before(s, t) ==
  \E k \in 1..Len(t) :
    /\ \A j \in 1..(k - 1) : j <= Len(s) /\ s[j] = t[j]
    /\ k <= Len(s) => Rank(s[k]) < Rank(t[k])

Compare(a, b, Numbers(_, _), Texts(_, _)) ==
  CASE a.type = "num" /\ b.type = "num" -> Value(Bool(Numbers(a.v, b.v)), {})
    [] a.type \in {"str", "nil"} /\ b.type \in {"str", "nil"} ->
         Value(Bool(Texts(AsString(a), AsString(b))), {})
    [] OTHER -> Failed({})

CompareLess(a, b) == Compare(a, b, LAMBDA x, y : x < y, Before)
CompareGreater(a, b) == Compare(a, b, LAMBDA x, y : x > y, LAMBDA x, y : Before(y, x))

Negated(res) == IF res.out = "value" THEN Value(Bool(~IsTruthy(res.val)), res.reads) ELSE res

\* The binary operators that look at both sides.
Apply(op, a, b) ==
  CASE op = <<"=", "=">> -> CompareEqual(a, b)
    [] op = <<"!", "=">> -> Negated(CompareEqual(a, b))
    [] op = <<"<">> -> CompareLess(a, b)
    [] op = <<">">> -> CompareGreater(a, b)
    [] op = <<"<", "=">> -> Negated(CompareGreater(a, b))
    [] op = <<">", "=">> -> Negated(CompareLess(a, b))

\* The registered functions these texts call, each of exactly one argument.
CallFunction(name, args) ==
  CASE Len(args) # 1 -> Failed({})
    [] name = <<"l", "e", "n">> /\ Len(args) = 1 ->
         IF args[1].type \in {"bool", "num"} THEN Failed({})
         ELSE Value(Num(IF IsEmpty(args[1]) THEN 0 ELSE Size(args[1])), {})
    [] name = <<"i", "s", "n", "i", "l">> /\ Len(args) = 1 -> Value(Bool(args[1].type = "nil"), {})
    [] OTHER -> Failed({})

RECURSIVE Evaluate(_, _), EvaluateArgs(_, _)

\* A result after more was read before it.
After(reads, res) == [res EXCEPT !.reads = @ \union reads]

\* The sides of "and" and "or" in order; the second is not asked when the first decides.
EvaluateLogical(tree, ctx, decisive) ==
  LET left  == Evaluate(tree.args[1], ctx)
      right == Evaluate(tree.args[2], ctx)
  IN  IF left.out # "value" THEN left
      ELSE IF IsTruthy(left.val) = decisive THEN Value(Bool(decisive), left.reads)
      ELSE IF right.out # "value" THEN After(left.reads, right)
      ELSE Value(Bool(IsTruthy(right.val)), left.reads \union right.reads)

\* Arguments from the left; the first that fails ends it.  A value of it is the list of values.
EvaluateArgs(args, ctx) ==
  IF args = <<>> THEN Value(List(<<>>), {})
  ELSE LET head == Evaluate(args[1], ctx)
           rest == EvaluateArgs(Tail(args), ctx)
       IN  IF head.out # "value" THEN head
           ELSE IF rest.out # "value" THEN After(head.reads, rest)
           ELSE Value(List(<<head.val>> \o rest.val.v), head.reads \union rest.reads)

Evaluate(tree, ctx) ==
  LET args == EvaluateArgs(tree.args, ctx)
      found == Get(ctx, tree.text)
  IN  CASE tree.kind = "literal" -> Value(LiteralValue(tree), {})
        [] tree.kind = "identifier" ->
             Value(IF found = <<>> THEN Nil ELSE found[1], {tree.text})
        [] tree.text = <<"&", "&">> -> EvaluateLogical(tree, ctx, FALSE)
        [] tree.text = <<"|", "|">> -> EvaluateLogical(tree, ctx, TRUE)
        [] OTHER ->
             IF args.out # "value" THEN args
             ELSE After(args.reads,
                        CASE tree.kind = "unary" -> Value(Bool(~IsTruthy(args.val.v[1])), {})
                          [] tree.kind = "binary" -> Apply(tree.text, args.val.v[1], args.val.v[2])
                          [] tree.kind = "call" -> CallFunction(tree.text, args.val.v))

EvaluateExpression(in, ctx) ==
  LET tree == ParseExpression(in)
  IN  IF tree = <<>> THEN Failed({}) ELSE Evaluate(tree[1], ctx)

=============================================================================
