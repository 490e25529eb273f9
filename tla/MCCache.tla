------------------------------- MODULE MCCache -------------------------------
(* Keys and values are interchangeable in CacheDatabase.                    *)
EXTENDS CacheDatabase, TLC

Symmetric == Permutations(Keys) \cup Permutations(Values)
=============================================================================
