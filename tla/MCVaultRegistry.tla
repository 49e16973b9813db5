-------------------------- MODULE MCVaultRegistry --------------------------
(* Two tenants that use one session id, two requests, and enough objects    *)
(* that a fresh one always exists: at most one vault per session is         *)
(* registered, and the request that calls Get holds none.  Both sessions    *)
(* hash to the second of two shards, which has room for one vault.          *)
EXTENDS VaultRegistry, TLC
CONSTANTS t1, t2, s1

SecondShard == [ref \in Refs |-> 2]
=============================================================================
