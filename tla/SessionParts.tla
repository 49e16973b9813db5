---------------------------- MODULE SessionParts ----------------------------
(* The parts of MCSessionVault that SessionVaultProofs is about: the vault  *)
(* of a request, the events, texts and tool calls of its streamed answer,   *)
(* the NER client and the audit sink, each with its own state.              *)
EXTENDS SessionVault, TLC, Sequences, FiniteSets

CONSTANTS MaxLines, MaxSize,
          Paths, Body, Streams,   \* what an upstream may stream along the paths
          Window,                 \* of StreamRestore
          Calls, Anthropic, Whole,
          Asking, Asked, FailureThreshold, Cooldown, CacheTTL, CacheSize,
          BufferSize, BatchSize, MaxEvents

\* NewRemoteModel takes no number below one for the cache and the breaker.
ASSUME NerAssumption ==
  /\ IsFiniteSet(Asked)
  /\ FailureThreshold \in Nat \ {0} /\ CacheSize \in Nat \ {0}
  /\ Cooldown \in Nat /\ CacheTTL \in Nat

VARIABLES
  lines, dataBuf, comment, hasField, err, outs,
  text, taken, buf, got, tail, sent, held, order, pending, given, stopped, end,
  half, torn, early, broke,
  failOpen, cached, failures, openFor, stage, about, outcome, streak,
  queue, batch, worker, closing, emitted, dropped, delivered, failed

scannerVars == <<lines, dataBuf, comment, hasField, err, outs>>
streamVars  == <<text, taken, buf, got, tail, sent, held, order, pending, given,
                 stopped, end, half, torn, early, broke>>
nerVars     == <<failOpen, cached, failures, openFor, stage, about, outcome, streak>>
auditVars   == <<queue, batch, worker, closing, emitted, dropped, delivered, failed>>

Scanner == INSTANCE SseScanner
Stream  == INSTANCE StreamRestore WITH Texts <- {s[p] : s \in Streams, p \in Paths}
ASSUME StreamAssumption ==
  /\ IsFiniteSet(Paths) /\ Body \in Paths /\ Window \in Nat /\ Window >= 4
  /\ Streams \subseteq [Paths -> Seq(Stream!Atoms)]
  /\ IsFiniteSet(Calls) /\ Anthropic \subseteq Calls /\ Whole \in Nat

Ner  == INSTANCE RemoteNer
Siem == INSTANCE Audit
=============================================================================
