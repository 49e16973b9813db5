----------------------------- MODULE Pseudonyms -----------------------------
(***************************************************************************)
(* What a session vault promises, without locks, counters or a second      *)
(* index: a table of pseudonyms.  An entity is a type and a value; a       *)
(* placeholder is a type and an ordinal (ANONYMIZED_<TYPE>_<N>).  A        *)
(* placeholder is bound once, to one entity, and the only way to lose a    *)
(* binding is to forget the whole table.                                   *)
(***************************************************************************)
EXTENDS Naturals

CONSTANTS Types,   \* entity types (NAME, PHONE, ...)
          Values   \* real values found in the text

Entities     == Types \X Values
Placeholders == Types \X Nat

VARIABLE table     \* the set of <<entity, placeholder>> bindings in force

Init == table = {}

\* The binding b is added: a new entity is bound to a placeholder of its own
\* type, and neither is in the table yet.
Bind(b) ==
  /\ b \in Entities \X Placeholders
  /\ b[2][1] = b[1][1]
  /\ \A c \in table : c[1] # b[1] /\ c[2] # b[2]
  /\ table' = table \cup {b}

\* The whole mapping is erased at once.
Forget == table' = {}

Next ==
  \/ \E b \in table' : Bind(b)
  \/ Forget

Spec == Init /\ [][Next]_table

=============================================================================
