-------------------------- MODULE MCModelInstance --------------------------
(* ModelInstance for TLC: two requests, a table with a required and an      *)
(* optional column, one row and room for one more.                          *)
EXTENDS ModelInstance, TLC
CONSTANTS i1, i2, name, email, v
MCInstances == {i1, i2}
MCAttrs     == {name, email}
MCOrder     == <<name, email>>
MCValues    == {v}
Sym         == Permutations(MCInstances)
=============================================================================
