--------------------------- MODULE MCRenderFrames ---------------------------
(***************************************************************************)
(* Two slugs, two roles, one level of includes and of bodies in a body: the *)
(* smallest instance where an include and two references can be open at     *)
(* once, with a message inside a message of another render.                 *)
(***************************************************************************)
EXTENDS RenderFrames

CONSTANTS s1, s2, user, system

MCSlugs == {s1, s2}
MCRoles == {user, system}
=============================================================================
