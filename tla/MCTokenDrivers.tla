--------------------------- MODULE MCTokenDrivers ---------------------------
(* A deployment uses one driver of the token store.  Either the cache: two  *)
(* replicas, of which one already writes with a rotated data key version,   *)
(* where a second is two ticks and the TTL a second and a half, so that a   *)
(* record need not be sealed on a second.  Or the memory of one process:    *)
(* two callers that race for one identity, and a second tenant to erase.    *)
EXTENDS CacheTokens, TLC

CONSTANTS c1, c2, v1, v2, e1, Tokens, MemoryTTL, MemoryMaxTime, None

ASSUME MemoryAssumption == MemoryTTL \in Nat

VARIABLES driver, byPair, byTok, mnow, mpc, masked, read, token, drawn, mever

memoryVars == <<byPair, byTok, mnow, mpc, masked, read, token, drawn, mever>>

Rotated  == [c \in Callers |-> IF c = c1 THEN v1 ELSE v2]
OneEpoch == [c \in Callers |-> e1]

Memory == INSTANCE MemoryTokens WITH
  TTL <- MemoryTTL, MaxTime <- MemoryMaxTime,
  now <- mnow, pc <- mpc, asked <- masked, ever <- mever

EitherInit ==
  /\ driver \in {"cache", "memory"}
  /\ Init
  /\ Memory!Init

EitherNext ==
  \/ driver = "cache"  /\ Next        /\ UNCHANGED <<driver, memoryVars>>
  \/ driver = "memory" /\ Memory!Next /\ UNCHANGED <<driver, vars>>

EitherSpec == EitherInit /\ [][EitherNext]_<<driver, vars, memoryVars>>

\* Each driver keeps its tables together, and what it returned is true of them
\* (CacheTokens.IInv, MemoryTokens.IInv).
TablesKept == IInv /\ Memory!IInv
\* The map of tokens implements the contract (MemoryTokens.ImplementsContract).
MemoryImplementsContract == Memory!ImplementsContract

Symmetry == Permutations(Tokens)
=============================================================================
