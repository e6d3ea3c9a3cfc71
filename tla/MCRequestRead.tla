--------------------------- MODULE MCRequestRead ---------------------------
(* RequestRead for TLC: short headers, headers that just fit and headers    *)
(* that do not; bodies that fit and bodies that do not.                     *)
EXTENDS RequestRead
=============================================================================
