------------------------------- MODULE Option -------------------------------
(***************************************************************************)
(* Option::None, the absence of a value.  Components that one run composes *)
(* share it.                                                               *)
(***************************************************************************)
CONSTANT None
=============================================================================
