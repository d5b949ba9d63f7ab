------------------------------ MODULE MCTokens ------------------------------
(* Two connections that present any issued token to any endpoint. *)
EXTENDS Tokens, TLC

CONSTANTS c1, c2

Swaps == Permutations({c1, c2})
=============================================================================
