------------------------------ MODULE MCInputs ------------------------------
(***************************************************************************)
(* A document and its parent, two renders, and two inputs: of the first,    *)
(* every pair of declarations and every kind of value is tried; the second  *)
(* is a required input only the parent declares, or is not there.           *)
(***************************************************************************)
EXTENDS Inputs, TLC

CONSTANTS a, b, r1, r2

MCNames == {a, b}
MCRenders == {r1, r2}

Plain == [null |-> FALSE, required |-> FALSE, untrusted |-> FALSE,
          closed |-> FALSE, default |-> "nil"]
Required == [Plain EXCEPT !.required = TRUE]

FirstDefs ==
  {NoDef, [Plain EXCEPT !.null = TRUE], Required,
   [Plain EXCEPT !.default = "list"],
   [Required EXCEPT !.default = "list"],
   [Required EXCEPT !.closed = TRUE, !.default = "text"],
   [Required EXCEPT !.untrusted = TRUE],
   [Plain EXCEPT !.untrusted = TRUE, !.default = "list"]}

MCChains ==
  {<<a :> own @@ b :> NoDef, a :> parent @@ b :> other>> :
     own \in FirstDefs, parent \in FirstDefs, other \in {NoDef, Required}}

MCBags == {a :> x @@ b :> y : x \in Kinds, y \in {"absent", "text"}}

MCFlats == {a :> x @@ b :> "absent" : x \in {"absent", "text", "map", "sealed"}}

MCSymmetry == Permutations(MCRenders)
=============================================================================
