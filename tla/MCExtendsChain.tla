--------------------------- MODULE MCExtendsChain ---------------------------
(***************************************************************************)
(* MC...: two concurrent renders, of one template or of two, and two        *)
(* parents' names.  Deep...: one render, whose chain may be one parent      *)
(* longer than MaxDepth allows, or come back to a name it already holds.    *)
(***************************************************************************)
EXTENDS ExtendsChain, TLC

CONSTANTS r1, r2, base, root, top, page, layout, trunk, leaf, odd, ill

MCRenders == {r1, r2}
MCSymmetry == Permutations(MCRenders)
MCNames == {base, root}
MCTemplates == {page, odd, leaf}
MCDocs == {page, layout, leaf, odd, ill}

(* page extends base, layout and odd extend root, the others nothing.  odd  *)
(* is read by the inputs walk only, ill by the resolver only.               *)
MCExtends == [d \in MCDocs |->
                CASE d = page -> base
                  [] d \in {layout, odd} -> root
                  [] OTHER -> NoParent]
MCForm == [d \in MCDocs |->
             CASE d = odd -> "unreadable"
               [] d = ill -> "badSpec"
               [] OTHER -> "good"]

DeepRenders == {r1}
DeepNames == {base, root, top}
DeepDocs == {page, layout, trunk, leaf}
DeepExtends == [d \in DeepDocs |->
                  CASE d = page -> base
                    [] d = layout -> root
                    [] d = trunk -> top
                    [] OTHER -> NoParent]
DeepForm == [d \in DeepDocs |-> "good"]
DeepTemplates == {page, leaf}
=============================================================================
