----------------------------- MODULE MCErasure -----------------------------
(* A tenant's values behind a sidecar; each behaviour is of one part.       *)
(*   rows: the SQL token store, two replicas that race for an identity,     *)
(*     a second tenant to erase; three tokens let one of them lose, with a  *)
(*     third after an expiry or an erasure.                                 *)
(*   streams: two tenants with one session name, three calls, two at a      *)
(*     time, and one erasure.                                               *)
EXTENDS SqlTokens, Sequences

CONSTANTS Sessions, NCallers, MaxCalls   \* of the sidecar

VARIABLES part, vault, owner, content, tokens, streamers, made, call, begun, erasing, crossed

streamVars == <<vault, owner, content, tokens, streamers, made, call, begun, erasing, crossed>>

Sidecar == INSTANCE SidecarStreams

ErasureInit ==
  /\ part \in {"rows", "streams"} /\ Init /\ Sidecar!Init
  /\ part = "streams" => \A c \in Callers : asked[c] = CHOOSE i \in Identities : TRUE
ErasureNext ==
  \/ part = "rows"    /\ Next         /\ UNCHANGED <<part, streamVars>>
  \/ part = "streams" /\ Sidecar!Next /\ UNCHANGED <<part, vars>>
ErasureSpec == ErasureInit /\ [][ErasureNext]_<<part, vars, streamVars>>

\* Sessions and erasures of the sidecar (SidecarStreams.IInv, StreamsApart).
StreamsApart == Sidecar!IInv /\ Sidecar!StreamsApart
=============================================================================
