---------------------------- MODULE ReadingTree ----------------------------
(***************************************************************************)
(* What a document that was read promises of the tree it became.            *)
(***************************************************************************)
EXTENDS Reading

(* The nodes and branches of the AST, in document order.                    *)
RECURSIVE AllNodes(_)
AllNodes(nodes) ==
  IF nodes = <<>> THEN <<>>
  ELSE <<Head(nodes)>> \o AllNodes(Head(nodes).kids) \o AllNodes(Tail(nodes))

(* A text between the cases of a switch.                                    *)
BetweenCases(i) ==
  \E j \in 2..(i - 1) :
    /\ tokens[j].t = "close" /\ \A k \in (j + 1)..i : tokens[k].t = "text"
    /\ \E n \in 2..j : /\ tokens[n].t = "name" /\ \A k \in (n + 1)..j : tokens[k].t # "name"
                        /\ <<tokens[n - 1].t, tokens[n].v>> \in
                             {<<"open", <<"exons.switch">>>>, <<"bclose", <<"exons.case">>>>,
                              <<"bclose", <<"exons.casedefault">>>>}

MayBeAbsent(i) ==
  \/ tokens[i].t = "open" /\ tokens[i + 1].v = <<"exons.comment">>
  \/ tokens[i].t = "text" /\ (VerbatimText(i) \/ BetweenCases(i))

(* Every text and every tag of the source is a node or a branch, in the      *)
(* order of the source and at its own position; only comments, the body of   *)
(* a raw block (which is in its node) and what stands between cases are not. *)
NothingDropped ==
  parsed = "done" =>
    LET ns == SelectSeq(AllNodes(ast), LAMBDA n : n.k # "if")
        ats == {ns[i].at : i \in DOMAIN ns}
        starts == {i \in DOMAIN tokens : tokens[i].t \in {"open", "text"}}
    IN  /\ \A i \in DOMAIN ns : i > 1 => ns[i - 1].at < ns[i].at
        /\ ats \subseteq {tokens[i].at : i \in starts}
        /\ {tokens[i].at : i \in {j \in starts : ~ MayBeAbsent(j)}} \subseteq ats

(* The raw source of a node, which keepraw shows in its place, is the whole  *)
(* construct: from its tag to its own end, with all it contains and nothing  *)
(* that follows.                                                            *)
RawSourceIsWhole ==
  parsed = "done" =>
    LET ns == AllNodes(ast)
    IN  \A i \in DOMAIN ns : ns[i].raw # <<>> =>
          LET last == i + Len(AllNodes(ns[i].kids))
              end == ns[i].raw[2]
          IN  /\ ns[i].raw[1] = ns[i].at
              /\ \E j \in DOMAIN tokens : tokens[j].to = end /\ tokens[j].t \in {"self", "close"}
              /\ \A j \in (i + 1)..Len(ns) : ns[j].at < end <=> j <= last
=============================================================================
