---------------------------- MODULE MCBodyCache -----------------------------
(***************************************************************************)
(* Two goroutines, a cache of two entries and five bodies: one malformed,   *)
(* one whose foreign close the parser never gets past, one that uses a tag  *)
(* a host resolver refuses once it is registered, and two that always       *)
(* parse, so that the cache fills, is cleared and is refilled while a parse *)
(* is under way or never ends.                                              *)
(***************************************************************************)
EXTENDS BodyCache

CONSTANTS c1, c2, plain, prose, strictly, broken, looping, tag

MCCallers == {c1, c2}
MCBodies == {plain, prose, strictly, broken, looping}
MCTags == {tag}
MCMalformed == {broken}
MCEndless == {looping}
MCRefuses == [b \in MCBodies |-> IF b = strictly THEN {tag} ELSE {}]
=============================================================================
