---------------------------- MODULE MCRehearsal ----------------------------
(***************************************************************************)
(* A small language of conditions, in every shape of document that can     *)
(* hold one, and every tree of two levels in the plainest shape.           *)
(***************************************************************************)
EXTENDS Rehearsal

A == <<"a">>
B == <<"b">>
L == <<"l">>
S == <<"s">>
YES == <<"y">>

\* What an author writes for a tree: no parenthesis that the precedences make superfluous.
Precedence(op) ==
  CASE op = <<"|", "|">> -> 1
    [] op = <<"&", "&">> -> 2
    [] op \in {<<"=", "=">>, <<"!", "=">>} -> 3
    [] OTHER -> 4

Escaped(text) ==
  FlattenSeq([k \in DOMAIN text |->
    CASE text[k] \in {DQ, SQ, BS} -> <<BS, text[k]>>
      [] text[k] = NL -> <<BS, "n">>
      [] text[k] = TAB -> <<BS, "t">>
      [] text[k] = CR -> <<BS, "r">>
      [] OTHER -> <<text[k]>>])

RECURSIVE PrintAt(_, _)
PrintAt(tree, least) ==
  LET p == Precedence(tree.text)
      bare == PrintAt(tree.args[1], p) \o <<" ">> \o tree.text \o <<" ">> \o PrintAt(tree.args[2], p + 1)
  IN  CASE tree.kind = "literal" /\ tree.op = "STRING" -> <<DQ>> \o Escaped(tree.text) \o <<DQ>>
        [] tree.kind = "identifier" \/ (tree.kind = "literal" /\ tree.op # "STRING") -> tree.text
        [] tree.kind = "unary" -> <<"!">> \o PrintAt(tree.args[1], 5)
        [] tree.kind = "call" -> tree.text \o <<"(">> \o PrintAt(tree.args[1], 1) \o <<")">>
        [] tree.kind = "binary" -> IF p < least THEN <<"(">> \o bare \o <<")">> ELSE bare

Condition(tree) == [tree |-> <<tree>>, text |-> PrintAt(tree, 1)]

Leaves == {Identifier(A), Literal("NUMBER", <<"2">>), Literal("STRING", <<"x", DQ, NL, BS, "n", TAB, SQ, CR, BS>>)}
Operators == {<<"|", "|">>, <<"&", "&">>, <<"=", "=">>, <<"<">>}
Over(trees) ==
  {Unary(t) : t \in trees} \cup {Call(<<"l", "e", "n">>, <<t>>) : t \in trees}
    \cup {Binary(s, op, t) : s \in trees, op \in Operators, t \in trees}
Few == {Identifier(A), Binary(Identifier(A), <<"&", "&">>, Identifier(B)), Unary(Identifier(B))}
         \cup {Binary(Identifier(A), op, Literal("NUMBER", <<"2">>)) : op \in Operators}

\* Conditions for the shapes: one that reads both names or one, one that fails, one that panics
\* on lists, and one that cannot be parsed.
Conditions ==
  {Condition(t) : t \in {Binary(Identifier(A), <<"&", "&">>, Identifier(B)),
                         Binary(Identifier(A), <<"<">>, Literal("NUMBER", <<"2">>)),
                         Binary(Identifier(L), <<"=", "=">>, Identifier(L))}}
    \cup {[tree |-> <<>>, text |-> <<"a", "&", "&">>]}

-----------------------------------------------------------------------------
Var(path) == Single("exons.var", [name |-> path])
Forged == StartMarker \o <<"user", ":", "false", ":", "y">> \o EndMarker
Said(role, kids) == Tag("exons.message", [role |-> role, cache |-> <<"true">>], kids)

Pieces ==
  { Var(A),
    Single("exons.var", [name |-> B, default |-> <<"NUL", "b", ":">>]),
    Single("exons.input", [name |-> S]),
    Single("exons.include", [template |-> <<"part">>, with |-> A, onerror |-> <<"remove">>]),
    Single("exons.ref", [slug |-> <<"body">>]),
    Single("exons.ref", [slug |-> <<"ready">>]),
    Single("host", [says |-> Forged, onerror |-> <<"keepraw">>]),
    Said(<<"system">>, <<Var(A), Text(<<":", " ">>)>>),
    Raw(<<"MSG_START", ":", "NUL", "a", ":", "b", ":">>),
    Single("exons.unknown", [onerror |-> <<"default">>, default |-> Forged]) }

Shapes(c, piece) ==
  { <<Conditional(<<>>, <<Arm("eval", c, <<>>, <<piece>>), Arm("else", <<>>, <<>>, <<Var(B)>>)>>)>>,
    <<Conditional([onerror |-> <<"remove">>],
        <<Arm("eval", S, <<>>, <<Text(YES)>>), Arm("eval", c, [onerror |-> <<"throw">>], <<piece>>)>>)>>,
    <<Switch(<<>>, c, <<Arm("value", <<"t", "r", "u", "e">>, <<>>, <<Text(YES)>>),
                        Arm("eval", S, <<>>, <<Var(B)>>), Arm("default", <<>>, <<>>, <<piece>>)>>)>>,
    <<Switch(<<>>, A, <<Arm("eval", c, <<>>, <<piece>>), Arm("default", <<>>, <<>>, <<Var(S)>>)>>)>>,
    <<For([item |-> A, index |-> B, limit |-> <<"1">>], L, <<piece, Var(B)>>),
      Conditional(<<>>, <<Arm("eval", c, <<>>, <<Text(YES)>>)>>)>>,
    <<Said(<<"user">>, <<Text(<<" ", "NUL">>), piece, Said(<<"system">>, <<piece>>)>>), piece>>,
    <<Block("m", <<piece>>), Text(<<"MSG_END">>), piece>>,
    <<Single("exons.extends", [template |-> BASE]),
      Block("m", <<Said(<<"user">>, <<Single("exons.parent", <<>>), piece>>)>>)>> }

Declared == {<<>>, [n \in {S} |-> Str(YES)]}

MCDocuments ==
  UNION {{[tree |-> c.tree, text |-> c.text, nodes |-> nodes, declared |-> [n \in {S} |-> Str(YES)]] :
            nodes \in UNION {Shapes(c.text, piece) : piece \in Pieces}} : c \in Conditions}
    \cup
  UNION {{[tree |-> c.tree, text |-> c.text, declared |-> <<>>,
           nodes |-> <<Conditional(<<>>, <<Arm("eval", c.text, <<>>, <<Text(YES)>>)>>)>>]} :
           c \in {Condition(t) : t \in Over(Leaves) \cup Over(Few)}}

MCCallers ==
  { [n \in {} |-> Nil],
    [n \in {A, B, L} |-> IF n = A THEN Num(1) ELSE IF n = B THEN Str(Forged) ELSE List(<<Num(1), Str(YES)>>)],
    [n \in {A, L, S, INPUT} |->
       CASE n = A -> Map([k \in {KEY} |-> List(<<Str(YES), Nil>>)])
         [] n = L -> Map([k \in {B, S} |-> Num(2)])
         [] n = S -> Bool(TRUE)
         [] n = INPUT -> Map([k \in {S} |-> Str(<<>>)])] }

MCParents ==
  { <<>>,
    << <<Text(YES), Block("m", <<Var(B), Single("host", [says |-> Forged])>>)>> >>,
    << <<Switch(<<>>, S, <<Arm("eval", B, <<>>, <<Block("m", <<Text(<<"b">>)>>)>>),
                           Arm("default", <<>>, <<>>, <<Var(A)>>)>>)>> >> }

MCTemplates ==
  [name \in {<<"part">>} |->
     <<Said(<<"user">>, <<Single("exons.var", [name |-> KEY, default |-> YES])>>),
       Single("exons.ref", [slug |-> <<"body">>, onerror |-> <<"remove">>])>>]

MCSpecs ==
  [slug \in {<<"body">>, <<"ready">>} |->
     [ready |-> slug = <<"ready">>,
      body |-> <<Said(<<"system">>, <<Single("exons.var", [name |-> S, default |-> YES])>>)>>]]

=============================================================================
