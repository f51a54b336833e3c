----------------------------- MODULE MCReading -----------------------------
(***************************************************************************)
(* Short sources of any characters, and longer ones put together from tags  *)
(* and pieces that meet at their boundaries.                                *)
(***************************************************************************)
EXTENDS ReadingTree

MCWords == DottedWords \cup {"x", "eval", "item", "in", "value", "name", "exons"}

Tag(name) == <<"{", "~", name, "~", "}">>
Attr(n) == <<" ", n, "=", "dq", "x", "dq">>
TagWith(name, a) == <<"{", "~", name>> \o a \o <<"~", "}">>
Shutting(name) == <<"{", "~", "/", name, "~", "}">>

Characters == {"{", "~", "}", "/", "\\", "x"}
Shorts == UNION {[1..n -> Characters] : n \in 0..5}

(* Pieces of markdown and of verbatim blocks.                               *)
Fence == <<"nl", "bq", "bq", "bq">>
Pieces ==
  {Fence \o <<"nl">>, Fence \o <<"exons", "nl">>, <<"nl", "~", "~", "~", "nl">>,
   Tag("exons.raw"), Shutting("exons.raw"), <<"{", "~", "~", "x">>, <<"~", "~", "}">>,
   <<"{", "~", "x", "/", "~", "}">>, EscapedOpen}

(* Pieces of constructs.                                                    *)
Constructs ==
  {<<"x">>, <<"{", "~", "x">> \o Attr("x") \o SelfShut, Tag("x"), Shutting("x"),
   TagWith("exons.if", Attr("eval")), TagWith("exons.elseif", Attr("eval")), Tag("exons.else"),
   Shutting("exons.if"), TagWith("exons.for", Attr("item") \o Attr("in")), Shutting("exons.for"),
   TagWith("exons.switch", Attr("eval")), TagWith("exons.case", Attr("value")), Shutting("exons.case"),
   Shutting("exons.switch"), TagWith("exons.block", Attr("name")), Shutting("exons.block"),
   Tag("exons.comment"), Shutting("exons.comment")}

Three(S) == {a \o b \o c : a, b, c \in S}
Around(s, e) == {s \o d \o e : d \in Three(Constructs)}

MCSources ==
  Shorts \cup Three(Pieces) \cup {a \o b : a \in Three(Pieces), b \in Pieces}
  \cup Three(Constructs)
  \cup Around(TagWith("exons.if", Attr("eval")), Shutting("exons.if"))
  \cup Around(TagWith("exons.switch", Attr("eval")) \o TagWith("exons.case", Attr("value")), Shutting("exons.switch"))

(* A construct closed by the close of another.                              *)
Mismatches ==
  {TagWith("exons.for", Attr("item") \o Attr("in")) \o Shutting(n) : n \in {"x", "exons.for"}}
=============================================================================
