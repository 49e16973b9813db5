------------------------------ MODULE MCGateway ------------------------------
(* The shipped chain: a backend outside the boundary in tier 1, with a      *)
(* budget, and a self-hosted one in tier 2; or a tier 2 that mixes a        *)
(* self-hosted backend and a vendor's.                                      *)
EXTENDS Gateway, TLC
CONSTANTS cloud, gpu, mini

Shipped == <<cloud, gpu>>
Mixed   == <<gpu, mini>>
ByKind  == [b \in Backends |-> IF b = cloud THEN 1 ELSE 2]
=============================================================================
