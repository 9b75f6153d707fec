--------------------------- MODULE MCRedisTokens ---------------------------
(* Small instances of RedisTokens for TLC.                                 *)
EXTENDS RedisTokens, TLC

Symmetry == Permutations(Call) \cup Permutations(Token)
=============================================================================
