--------------------------- MODULE MCRequestCache ---------------------------
(***************************************************************************)
(* Instances of RequestCache for TLC.  Keys are interchangeable.           *)
(***************************************************************************)
EXTENDS RequestCache, TLC

KeySymmetry == Permutations(Keys)
=============================================================================
