----------------------------- MODULE LiveJournal -----------------------------
(* The durable record of one live session: an append-only journal whose fold *)
(* is the session's snapshot (live/session-store.mjs).  The journal is kept  *)
(* as its fold: what a reader rebuilds from the file is what the writer has  *)
(* cached, as both apply the same entries in the same order.                 *)
EXTENDS Naturals

None == "none"

\* COMPLETED_PHASES: sessions that listActiveSessions leaves out.
Terminal == {"completed", "discarded"}

\* What the browser asks for, and what it is told.
Requests == {"generate", "accept", "discard", "steer"}
Answers  == {"agent_done", "steer_done", "discarded", "complete", "agent_error"}

\* The state of the overlay, which checkpoints report as a phase.
Overlay == {"picking", "generating", "cycling", "saving", "confirmed", "steer"}

Phases == Terminal \cup Overlay \cup
  {"new", "generate_requested", "accept_requested", "discard_requested", "steer_requested",
   "variants_ready", "carbonize_required", "steer_done", "agent_error"}

\* file: the journal names the file that holds the variants.
Snapshot == [phase : Phases, pending : Requests \cup {None}, revision : Nat, file : BOOLEAN]

BaseSnapshot == [phase |-> "new", pending |-> None, revision |-> 0, file |-> FALSE]

-----------------------------------------------------------------------------
(* applyEvent, one operator for each group of its cases.                   *)

RequestedPhase(type) ==
  CASE type = "generate" -> "generate_requested"
    [] type = "accept"   -> "accept_requested"
    [] type = "discard"  -> "discard_requested"
    [] type = "steer"    -> "steer_requested"

Requested(snap, type) == [snap EXCEPT !.phase = RequestedPhase(type), !.pending = type]

AnsweredPhase(type, carbonize) ==
  CASE type = "agent_done"  -> IF carbonize THEN "carbonize_required" ELSE "variants_ready"
    [] type = "steer_done"  -> "steer_done"
    [] type = "discarded"   -> "discarded"
    [] type = "complete"    -> "completed"
    [] type = "agent_error" -> "agent_error"

\* Whatever request of the session is pending, an answer settles it.
Answered(snap, type, carbonize) ==
  [snap EXCEPT !.phase = AnsweredPhase(type, carbonize), !.pending = None,
               !.file = @ \/ type \in {"agent_done", "complete"}]

\* Ignored once the session is over, or when an older tab sent it.
Checkpointed(snap, phase, revision) ==
  IF snap.phase \in Terminal \/ revision < snap.revision THEN snap
  ELSE [snap EXCEPT !.phase = phase, !.revision = revision]

-----------------------------------------------------------------------------
\* getSnapshot: the session has an entry.
Known(snap) == snap # BaseSnapshot

\* listActiveSessions.
Active(snap) == Known(snap) /\ snap.phase \notin Terminal
=============================================================================
