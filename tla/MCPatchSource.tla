--------------------------- MODULE MCPatchSource ---------------------------
(***************************************************************************)
(* Frontmatters of a head, a requirements block and a tail, and edits of    *)
(* one scalar, one list and one key three levels deep.                      *)
(***************************************************************************)
EXTENDS PatchSource

Name == KeyLine(0, "name", "plain", <<"n">>, "# name")
Prompt == KeyLine(0, "type", "plain", <<"prompt">>, "")

(* Before the block: a value of several lines that looks like comments.     *)
Heads ==
  {<<Name>>, <<Prompt, Name>>,
   <<Name, KeyLine(0, "display_name", "plain", <<"d">>, "# shown")>>,
   <<Hash(0, "# top"), Name, KeyLine(0, "display_name", "bar", <<>>, ""), Hash(1, "#1"), Text(1, "d2")>>,
   <<Name, KeyLine(0, "display_name", "quote", <<>>, ""), Text(0, "q1"), Close(0, "q2")>>,
   <<Name, KeyLine(0, "display_name", "keep", <<>>, ""), Text(1, "k1"), Blank>>}

Reqs == KeyLine(0, "requirements", "nest", <<>>, "# needs")
Res(form, val) == KeyLine(1, "resources", form, val, "")
Block == KeyLine(1, "resource_modes", "nest", <<>>, "")
Mode(m) == KeyLine(2, "corpus", "plain", <<m>>, "# why")

Lists ==
  {<<Res("plain", <<"list">>)>>,
   <<Res("nest", <<>>)>>,
   <<Res("nest", <<>>), Item(1, "corpus")>>,
   <<Res("nest", <<>>), Item(1, "corpus"), Hash(1, "# mid"), Item(1, "folder")>>,
   <<Res("nest", <<>>), Hash(2, "# deep"), Item(2, "corpus"), Hash(0, "# left")>>,
   <<Res("alias", <<"list", "corpus">>)>>}

ModeBlocks ==
  {<<Block>>, <<Block, Mode("all")>>, <<Block, Hash(2, "# in"), Mode("listed")>>,
   <<Block, Mode("none"), Hash(1, "# after"), KeyLine(2, "folder", "plain", <<"all">>, "")>>,
   <<FlowLine(1, "resource_modes", [p \in {<<"corpus">>} |-> <<"all">>], "# flow")>>}

Blocks ==
  {<<>>, <<Reqs>>, <<FlowLine(0, "requirements", NoFlow, "")>>,
   <<FlowLine(0, "requirements",
              [p \in {<<"resources">>, <<"resource_modes">>, <<"resource_modes", "corpus">>} |->
                 IF p = <<"resources">> THEN <<"list", "corpus">>
                 ELSE IF p = <<"resource_modes">> THEN Map ELSE <<"listed">>], "")>>,
   <<KeyLine(0, "requirements", "alias", <<"base">>, "")>>}
  \cup {<<Reqs>> \o l : l \in Lists}
  \cup {<<Reqs>> \o m : m \in ModeBlocks}
  \cup {<<Reqs>> \o l \o m : l \in Lists, m \in ModeBlocks}
  \cup {<<Reqs>> \o m \o l : l \in Lists, m \in ModeBlocks}

(* A block that an edit takes whole, alone in its block or not.             *)
Image == <<KeyLine(1, "image", "nest", <<>>, "# img"), KeyLine(2, "provider", "plain", <<"p">>, ""),
           KeyLine(2, "model", "plain", <<"m">>, "")>>
Media == {<<KeyLine(0, "media", "nest", <<>>, "")>> \o i : i \in
            {Image, <<KeyLine(1, "video", "alias", <<"a">>, "")>> \o Image,
             Image \o <<Hash(1, "# mid"), KeyLine(1, "video", "bar", <<>>, ""), Hash(2, "#v")>>,
             <<KeyLine(1, "image", "nest", <<>>, ""), KeyLine(2, "model", "alias", <<"a">>, "")>>}}

Tails == {<<>>, <<Blank, Hash(0, "# tail")>>, <<Blank, KeyLine(0, "x-after", "bar", <<>>, ""), Hash(1, "#x")>>}

MCDocuments ==
  {<<Name>> \o b \o t : b \in Blocks, t \in Tails}
  \cup {<<Name>> \o b \o t : b \in Media, t \in Tails}
  \cup {<<Prompt, Name>> \o b : b \in Blocks}
  \cup {h \o <<Reqs>> \o b \o t : h \in Heads, b \in {<<Block, Mode("all")>>, <<Res("nest", <<>>), Item(1, "corpus")>>}, t \in Tails}

Corpus == <<"requirements", "resource_modes", "corpus">>
MCEdits ==
  {[path |-> <<"display_name">>, value |-> v] : v \in {Nothing, <<"new">>}}
  \cup {[path |-> <<"media", "image">>, value |-> Nothing]}
  \cup {[path |-> Resources, value |-> v] : v \in {Nothing, <<"list">>, <<"list", "corpus">>}}
  \cup {[path |-> Corpus, value |-> v] : v \in {Nothing, <<"listed">>, <<"none">>}}
=============================================================================
