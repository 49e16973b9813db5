---------------------------- MODULE SessionTexts ----------------------------
(***************************************************************************)
(* The texts that leave with placeholders in them, which outlive the vault *)
(* that can read them: a conversation's earlier turns, and the text of the *)
(* request in flight.  Two history variables on top of the registry.       *)
(***************************************************************************)
EXTENDS VaultRegistry

VARIABLES
  handed,  \* <<value, ordinal>> from a session's registered vaults, since the
           \* caller or an erasure last ended the session
  given    \* <<value, ordinal>> in the text of the request in flight

texts == <<handed, given>>

TextInit ==
  /\ Init
  /\ handed = [ref \in Refs |-> {}]
  /\ given = [r \in Requests |-> {}]

\* The pair a Redact step put in the text.
RedactText(r, v) ==
  /\ Redact(r, v)
  /\ LET b == CHOOSE k \in table'[held[r]] : k[1] = v
         registered == slot[caller[r]] = held[r]
     IN /\ given' = [given EXCEPT ![r] = @ \cup {b}]
        /\ handed' = IF registered THEN [handed EXCEPT ![caller[r]] = @ \cup {b}] ELSE handed

ReturnText(r) ==
  /\ Return(r)
  /\ given' = [given EXCEPT ![r] = {}]
  /\ UNCHANGED handed

\* The caller or the operator ended these sessions: their texts are closed.
Closed(refs) == [ref \in Refs |-> IF ref \in refs THEN {} ELSE handed[ref]]

TextNext ==
  \/ \E r \in Requests :
       \/ \E ref \in Refs : /\ GetExisting(r, ref) \/ GetNew(r, ref) \/ GetRefused(r, ref)
                            /\ UNCHANGED texts
       \/ \E v \in Values : RedactText(r, v)
       \/ ReturnText(r)
  \/ \E ref \in Refs : Drop(ref) /\ handed' = Closed({ref}) /\ UNCHANGED given
  \/ \E s \in Shards : Collect(s) /\ UNCHANGED texts
  \/ /\ EraseShard
     /\ handed' = Closed({ref \in Refs : Registered(ref) /\ slot'[ref] = None})
     /\ UNCHANGED given
  \/ /\ \/ \E ts \in {{t} : t \in Tenants} \cup {Tenants} : BeginErase(ts)
        \/ EndErase
        \/ Tick
     /\ UNCHANGED texts

TextSpec == TextInit /\ [][TextNext]_<<vars, texts>>

-----------------------------------------------------------------------------
\* "A given entity keeps a stable placeholder within the session"
\* (vault.go:29): until the session is ended, one placeholder of its texts
\* never stands for two values.
StableInSession ==
  \A ref \in Refs : \A b, c \in handed[ref] : b[2] = c[2] => b[1] = c[1]


=============================================================================
