--------------------------- MODULE MCQueryBuilder ---------------------------
(* QueryBuilder for TLC: conditions of up to two placeholders, two values   *)
(* to tell apart, two statements of one query; offset acts like limit, and  *)
(* joins and distinct like neither.                                         *)
EXTENDS QueryBuilder, TLC
CONSTANTS x, y
MCValues == {x, y}
Sym      == Permutations(MCValues)
=============================================================================
