---------------------------- MODULE TokenContract ----------------------------
(***************************************************************************)
(* pii/anonymize/tokenstore.go, interface TokenStore: what every driver    *)
(* promises.  An identity is a (tenant, namespace, value) triple.  At any  *)
(* time an identity has at most one live token and a token names at most   *)
(* one identity, and a token that was ever issued for an identity never    *)
(* names another one: a token that outlives its mapping resolves to        *)
(* nothing, never to somebody else's value.                                *)
(***************************************************************************)
CONSTANTS Identities, Tokens

VARIABLES live,  \* the <<identity, token>> pairs that resolve now
          ever   \* every pair that ever did

Init == live = {} /\ ever = {}

\* A token is created for an identity that has none.
Issue(b) ==
  /\ b \in Identities \X Tokens
  /\ \A c \in live : c[1] # b[1]
  /\ \A c \in ever : c[2] = b[2] => c[1] = b[1]
  /\ live' = live \cup {b}
  /\ ever' = ever \cup {b}

\* Mappings expire, or a tenant's are erased.
Lose ==
  /\ live' \subseteq live
  /\ UNCHANGED ever

Next == (\E b \in live' : Issue(b)) \/ Lose

Spec == Init /\ [][Next]_<<live, ever>>

=============================================================================
