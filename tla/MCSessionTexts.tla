-------------------------- MODULE MCSessionTexts ---------------------------
(* One session and its requests, with two values to redact: a vault that    *)
(* is rebuilt after its time, or emptied while a request redacts.           *)
EXTENDS SessionTexts, TLC
CONSTANTS t1, s1

OneShard == [ref \in Refs |-> 1]
=============================================================================
