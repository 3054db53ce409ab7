----------------------------- MODULE ManualApply ------------------------------
(* Copy edits that the user makes in the page: saved into a buffer on disk    *)
(* (live/manual-edits-buffer.mjs), applied to the source by the agent, chunk  *)
(* by chunk, under a deadline (live/manual-apply.mjs), verified, repaired and *)
(* only then taken from the buffer (live-commit-manual-edits.mjs), with the   *)
(* source as it was kept in a transaction on disk until that is decided       *)
(* (live/manual-edit-routes.mjs).                                             *)
(*                                                                            *)
(* The elements of a page are in one source file, and no other page's are.   *)
(* An element's text is the number of the save that wrote it, 0 the original  *)
(* one.  The process ends only between two turns of its event loop.           *)
EXTENDS Naturals, FiniteSets

CONSTANTS
  Pages,       \* pages of the site
  Refs,        \* elements with text
  PageOf,      \* PageOf[r]: the page of an element
  ChunkSize,   \* manualEditApplyChunkSize
  MaxAttempts, \* repairAttemptLimit
  MaxSaves,    \* bound: saves of the user
  MaxDecisions,\* bound: what the user does after a save
  Faults,      \* the faults that happen
  MaxFaults    \* bound: how many of them

NoPage  == "no page"
NoEvent == 0

ASSUME ApplyAssumption ==
  /\ NoPage \notin Pages /\ Refs \subseteq Nat
  /\ PageOf \in [Refs -> Pages]
  /\ ChunkSize \in Nat \ {0} /\ MaxAttempts \in Nat \ {0} /\ MaxSaves \in Nat

VARIABLES
  up,          \* is the helper running?
  source,      \* what the source files hold for each element
  buffer,      \* the entries of the buffer
  transaction, \* the transaction file
  events,      \* pendingEvents with their pendingApplyDeferreds
  commits,     \* commits[p]: the apply of a page that is under way
  stale,       \* timedOutApplyIds that the agent may still answer
  agent,       \* the agent's work
  decision,    \* pages whose user is asked to keep fixing or to roll back
  saves,       \* saves so far
  decided,     \* decisions so far
  faults,      \* faults so far
  wanted,      \* ghost: the text the user last saved for an element
  exempt       \* ghost: elements whose text the code gives no promise for

vars == <<up, source, buffer, transaction, events, commits, stale, agent, decision,
          saves, decided, faults, wanted, exempt>>

disk == <<source, buffer, transaction>>
user == <<saves, decided, wanted, exempt>>

RefsOf(p) == {r \in Refs : PageOf[r] = p}

Garbled == MaxSaves + 1   \* a text nobody asked for
Texts   == 0 .. Garbled

\* One entry per save; its id is the save's number.
Entry == [id : 1 .. MaxSaves, page : Pages, ops : UNION {[D -> 1 .. MaxSaves] : D \in SUBSET Refs}]

Ids(es)   == {e.id : e \in es}
Staged(p, buf) == {e \in buf : e.page = p}
IsStaged(r, buf) == \E e \in buf : r \in DOMAIN e.ops

NoTransaction == [id |-> 0, page |-> NoPage, ids |-> {}, content |-> <<>>]
NoCommit      == [active |-> FALSE]
Resting       == [pc |-> "idle", id |-> NoEvent, ops |-> {}]

Init ==
  /\ up = TRUE
  /\ source = [r \in Refs |-> 0]
  /\ buffer = {} /\ transaction = NoTransaction
  /\ events = {} /\ commits = [p \in Pages |-> NoCommit] /\ stale = {}
  /\ agent = Resting /\ decision = {}
  /\ saves = 0 /\ decided = 0 /\ faults = 0
  /\ wanted = [r \in Refs |-> 0] /\ exempt = {}

-----------------------------------------------------------------------------
(* The buffer.                                                             *)

\* stageEntry: an element that is staged already keeps its entry.
Merged(buf, new) ==
  LET has(r) == \E e \in buf : e.page = new.page /\ r \in DOMAIN e.ops
      fresh  == {r \in DOMAIN new.ops : ~has(r)}
  IN  {[e EXCEPT !.ops = [r \in DOMAIN e.ops |->
           IF e.page = new.page /\ r \in DOMAIN new.ops THEN new.ops[r] ELSE e.ops[r]]] : e \in buf}
      \cup (IF fresh = {} THEN {} ELSE {[new EXCEPT !.ops = [r \in fresh |-> new.ops[r]]]})

\* clearAppliedEntries: whole entries, by their ids.  The mutant takes every
\* entry that was sent.
ClearedBatch(buf, batch, verified) == {e \in buf : e.id \notin Ids(batch)}

Cleared(buf, batch, verified) == {e \in buf : e.id \notin verified}

-----------------------------------------------------------------------------
(* The source and its copies.                                              *)

Content(src, p) == [r \in RefsOf(p) |-> src[r]]

\* rollbackApplySnapshot, rollbackChangedFiles.
Restored(src, content) == [r \in Refs |-> IF r \in DOMAIN content THEN content[r] ELSE src[r]]

\* rollbackManualApplyTransaction, for a page or for all of them: nothing for
\* another page's, and no source when none of its entries is staged any more.
RollsBack(p) == transaction # NoTransaction /\ p \in {NoPage, transaction.page}

RolledBack(p) ==
  IF RollsBack(p) /\ transaction.ids \cap Ids(buffer) # {} THEN Restored(source, transaction.content)
  ELSE source

TransactionAfter(p) == IF RollsBack(p) THEN NoTransaction ELSE transaction

\* verifyAppliedEntry.
Shows(src, e) == \A r \in DOMAIN e.ops : src[r] = e.ops[r]

-----------------------------------------------------------------------------
(* What is sent to the agent.                                              *)

AllOps(batch) ==
  UNION {{[id |-> e.id, ref |-> r, text |-> e.ops[r]] : r \in DOMAIN e.ops} : e \in batch}

\* splitManualApplyBatch: the next chunk of what is left of a batch.  An entry is
\* split only when it is longer than a chunk, and then begins one of its own.
Chunk(batch, rest) ==
  LET long == {e.id : e \in {e \in batch : Cardinality(DOMAIN e.ops) > ChunkSize}}
      first(id) == \A q \in rest : q.id >= id
  IN  {o \in rest :
         IF o.id \in long
         THEN /\ first(o.id)
              /\ Cardinality({q \in rest : q.id = o.id /\ q.ref <= o.ref}) <= ChunkSize
         ELSE /\ Cardinality({q \in rest : q.id <= o.id}) <= ChunkSize
              /\ \A q \in rest : q.id < o.id /\ q.id \in long => first(q.id)}

InOneChunk(batch) == Chunk(batch, AllOps(batch)) = AllOps(batch)

\* An id that nobody uses.
NewId == CHOOSE n \in 1 .. Cardinality(events) + Cardinality(stale) + 2 :
           n \notin Ids(events) \cup Ids(stale) \cup {agent.id}

\* pushApplyEventAndWait.
Event(p, ops, src) == [id |-> NewId, page |-> p, ops |-> ops, content |-> Content(src, p)]

-----------------------------------------------------------------------------
(* An apply runs without interruption from one answer to the next; what it   *)
(* changes in such a turn is a world.                                        *)

World == [src |-> source, buf |-> buffer, tx |-> transaction, ev |-> events,
          cm |-> commits, ask |-> decision]

Becomes(w) ==
  /\ source' = w.src /\ buffer' = w.buf /\ transaction' = w.tx
  /\ events' = w.ev /\ commits' = w.cm /\ decision' = w.ask

\* The end of the route's handler: its transaction goes, if it is still the one
\* in the file, unless the user must decide.
Ended(w, p) ==
  [w EXCEPT !.cm[p] = NoCommit, !.ask = @ \ {p},
            !.tx = IF @.id = w.cm[p].tx THEN NoTransaction ELSE @]

Undecided(w, p) == [w EXCEPT !.cm[p] = NoCommit, !.ask = @ \cup {p}]

Failed(w, p) == Ended([w EXCEPT !.src = Restored(@, w.cm[p].before)], p)

Dispatched(w, p, ops, c) ==
  LET e == Event(p, ops, w.src)
  IN  [w EXCEPT !.ev = @ \cup {e}, !.cm[p] = [c EXCEPT !.event = e.id]]

NextChunk(w, p, c) ==
  LET ops == Chunk(c.batch, c.rest)
  IN  Dispatched(w, p, ops, [c EXCEPT !.sent = ops, !.rest = @ \ ops])

\* repairPostApplyValidation: one more attempt, or the user must decide.  The
\* mutant does not count the attempts.
RepairsAgain(w, p, c) ==
  Dispatched(w, p, AllOps(c.batch), [c EXCEPT !.attempt = 1, !.sent = {}, !.rest = {}])

Repairing(w, p, c) ==
  IF c.attempt = MaxAttempts THEN Undecided(w, p)
  ELSE Dispatched(w, p, AllOps(c.batch), [c EXCEPT !.attempt = @ + 1, !.sent = {}, !.rest = {}])

Verified(w, p, ids) ==
  Ended([w EXCEPT !.buf = Cleared(@, w.cm[p].batch, ids)], p)

\* findUnappliedEntrySourceChanges, and a mutant that finds nothing.
LeaksNothing(src, c, applied) == FALSE

Leaks(src, c, applied) ==
  \E e \in c.batch : e.id \notin applied /\
    \E r \in DOMAIN e.ops : src[r] = e.ops[r] /\ c.before[r] # e.ops[r]

\* commitManualEdits once the agent's result r is there: the worlds it may end
\* in, as runCopyEditPostApplyChecks may find something or not.
Concluded(w, p, r) ==
  LET c        == w.cm[p]
      changed  == Content(w.src, p) # c.before
      repaired == Repairing(w, p, [c EXCEPT !.claimed = r.applied])
      verified == {e.id : e \in {e \in c.batch : e.id \in r.applied /\ Shows(w.src, e)}}
  IN  IF \/ r.status \in {"error", "rejected"} \/ r.applied \cap r.failed # {}
         \/ changed /\ ~r.files
         \/ r.status = "done" /\ r.applied = {}
      THEN {Failed(w, p)}
      ELSE IF r.applied # {} /\ ~r.files THEN {repaired}
      ELSE IF Leaks(w.src, c, r.applied) THEN {Failed(w, p)}
      ELSE IF verified # r.applied THEN {repaired}
      ELSE {Verified(w, p, verified),
            Repairing(w, p, [c EXCEPT !.claimed = IF verified = {} THEN Ids(c.batch) ELSE verified])}

\* The same after a repair: whatever the agent answered, what it claims by now
\* is verified, unless it gave no answer.
RepairConcluded(w, p, r) ==
  LET c     == [w.cm[p] EXCEPT !.claimed = @ \cup r.applied]
      fixed == r.status # "rejected" /\ \A e \in c.batch : e.id \in c.claimed => Shows(w.src, e)
  IN  {Repairing(w, p, c)} \cup (IF fixed THEN {Verified(w, p, c.claimed)} ELSE {})

-----------------------------------------------------------------------------
(* pushBatchInChunksAndWait.                                               *)

Rejected == [status |-> "rejected", applied |-> {}, failed |-> {}, files |-> FALSE]

\* What all chunks come to.
Summary(c) ==
  LET applied == {e.id : e \in {e \in c.batch : e.id \notin c.failed /\ AllOps({e}) \subseteq c.done}}
  IN  [status  |-> IF applied = Ids(c.batch) THEN "done" ELSE IF applied = {} THEN "error" ELSE "partial",
       applied |-> applied, failed |-> Ids(c.batch) \ applied, files |-> c.files]

\* The chunk that was sent has come back with result r; an error, a timeout or
\* a discard stops the rest.
Collected(w, p, r) ==
  LET c     == w.cm[p]
      ok    == r.status \in {"done", "partial"}
      done  == {o \in c.sent : ok /\ o.id \in r.applied \ r.failed}
      d     == [c EXCEPT !.done = @ \cup done, !.files = @ \/ r.files,
                         !.failed = @ \cup r.failed \cup ({o.id : o \in c.sent} \ {o.id : o \in done}),
                         !.rest = IF ok THEN @ ELSE {}]
  IN  IF d.rest # {} THEN {NextChunk(w, p, d)}
      ELSE Concluded([w EXCEPT !.cm[p] = d], p, Summary(d))

\* The answer to the event that page p waits for, or its absence.
Resumed(w, p, r) ==
  LET c == w.cm[p] IN
  IF c.attempt > 0 THEN RepairConcluded(w, p, r)
  ELSE IF ~InOneChunk(c.batch) THEN Collected(w, p, r)
  ELSE Concluded(w, p, r)

\* The elements that an agent may still change whom nobody waits for: those it
\* was sent, and those of the files that its late answer rolls back.
Late ==
  IF agent.pc = "idle" \/ agent.id \in Ids(events) THEN {}
  ELSE {o.ref : o \in agent.ops} \cup UNION {DOMAIN d.content : d \in stale}

-----------------------------------------------------------------------------
(* The routes.                                                             *)

\* An entry that is being applied is cleared as a whole: what is staged into it
\* meanwhile may go with it.
Save(p, refs) ==
  LET n       == saves + 1
      inApply == {r \in refs : \E e \in Staged(p, buffer) :
                    r \in DOMAIN e.ops /\ commits[p].active /\ e.id \in Ids(commits[p].batch)}
  IN  /\ up /\ saves < MaxSaves
      /\ saves' = n
      /\ buffer' = Merged(buffer, [id |-> n, page |-> p, ops |-> [r \in refs |-> n]])
      /\ wanted' = [r \in Refs |-> IF r \in refs THEN n ELSE wanted[r]]
      /\ exempt' = (exempt \ refs) \cup inApply
      /\ UNCHANGED <<up, source, transaction, events, commits, stale, agent, decision, decided, faults>>

Decides ==
  /\ up /\ decided < MaxDecisions
  /\ decided' = decided + 1
  /\ UNCHANGED <<up, stale, agent, saves, faults, wanted>>

Commit0(batch, src, p, tx) ==
  [active |-> TRUE, batch |-> batch, before |-> Content(src, p), sent |-> {}, rest |-> AllOps(batch),
   done |-> {}, failed |-> {}, files |-> FALSE, attempt |-> 0, claimed |-> {}, event |-> NoEvent, tx |-> tx]

\* /manual-edit-commit: what an apply that was given up has left is undone, and
\* the source as it is then is kept.  Bound: a page applies once at a time, as
\* its overlay does not let the user click again.
Apply(p) ==
  LET batch == Staged(p, buffer)
      src   == RolledBack(p)
      c     == Commit0(batch, src, p, decided + 1)
      tx    == [id |-> decided + 1, page |-> p, ids |-> Ids(batch), content |-> Content(src, p)]
      w     == [World EXCEPT !.src = src, !.tx = tx, !.ask = @ \ {p}]
  IN  /\ Decides /\ UNCHANGED exempt
      /\ ~commits[p].active /\ batch # {}
      /\ Becomes(NextChunk(w, p, c))

\* The same with repair=1, when the user keeps fixing: the source is verified
\* as it is, under the transaction that is in the file.  What that accepts of an
\* event that has expired, or that a crash has ended, its agent may still write
\* over or roll back.
KeepFixing(p) ==
  LET batch == Staged(p, buffer)
      c     == Commit0(batch, source, p, transaction.id)
      all   == [status |-> "done", applied |-> Ids(batch), failed |-> {}, files |-> TRUE]
  IN  /\ Decides
      /\ p \in decision /\ ~commits[p].active /\ transaction # NoTransaction /\ batch # {}
      /\ \E w \in Concluded([World EXCEPT !.cm[p] = c], p, all) : Becomes(w)
      /\ exempt' = exempt \cup {r \in Late : IsStaged(r, buffer) /\ ~IsStaged(r, buffer')}

\* /manual-edit-repair-decision.
RollBack(p) ==
  /\ Decides /\ UNCHANGED exempt
  /\ p \in decision
  /\ source' = RolledBack(p) /\ transaction' = TransactionAfter(p)
  /\ decision' = decision \ {p}
  /\ UNCHANGED <<buffer, events, commits>>

\* tombstoneTimedOutApplyId: an event that nobody works on is answered by nobody.
Tombstones(es) == stale \cup {[id |-> e.id, content |-> e.content] : e \in {e \in es : e.id = agent.id}}

\* cancelPendingEvents: the event that page p's apply waits for leaves the queue,
\* what was written for it is rolled back, and the apply goes on without an
\* answer.  The mutant leaves the event to the agent.
CanceledAlone(w, p) ==
  LET es == {e \in w.ev : e.page = p}
      v  == [w EXCEPT !.src = IF es = {} THEN @ ELSE Restored(@, (CHOOSE e \in es : TRUE).content)]
  IN  IF es = {} THEN {w} ELSE Resumed(v, p, Rejected)

Canceled(w, p) ==
  LET es == {e \in w.ev : e.page = p}
      v  == [w EXCEPT !.ev = @ \ es,
                      !.src = IF es = {} THEN @ ELSE Restored(@, (CHOOSE e \in es : TRUE).content)]
  IN  IF es = {} THEN {w} ELSE Resumed(v, p, Rejected)

\* /manual-edit-discard.
Discard(p) ==
  LET w == [World EXCEPT !.src = RolledBack(p), !.tx = TransactionAfter(p),
                         !.buf = @ \ Staged(p, @), !.ask = @ \ {p}]
  IN  /\ up /\ decided < MaxDecisions
      /\ Staged(p, buffer) # {}
      /\ \E v \in Canceled(w, p) : Becomes(v)
      /\ stale' = Tombstones({e \in events : e.page = p})
      /\ wanted' = [r \in Refs |-> IF \E e \in Staged(p, buffer) : r \in DOMAIN e.ops THEN 0 ELSE wanted[r]]
      /\ UNCHANGED exempt
      /\ decided' = decided + 1
      /\ UNCHANGED <<up, agent, saves, faults>>

-----------------------------------------------------------------------------
(* The agent, and the deadline.                                            *)

\* The poll leases an event; when its agent is gone it is leased again.
Take(e) ==
  /\ up /\ agent.pc = "idle" /\ e \in events
  /\ agent' = [Resting EXCEPT !.pc = "edit", !.id = e.id, !.ops = e.ops]
  /\ UNCHANGED <<up, disk, events, commits, stale, decision, user, faults>>

\* It writes some of the texts, and something else for what it gets wrong.
Edit ==
  /\ agent.pc = "edit"
  /\ \E right, wrong \in SUBSET agent.ops :
       /\ right \cap wrong = {}
       /\ source' = [r \in Refs |->
            IF \E o \in wrong : o.ref = r THEN Garbled
            ELSE IF \E o \in right : o.ref = r THEN (CHOOSE o \in right : o.ref = r).text
            ELSE source[r]]
  /\ agent' = [agent EXCEPT !.pc = "reply"]
  /\ UNCHANGED <<up, buffer, transaction, events, commits, stale, decision, user, faults>>

\* validateManualApplyResultMessage: the answers that are accepted, true or not.
Results(ids) ==
  {r \in [status : {"done", "partial", "error"}, applied : SUBSET ids,
          failed : SUBSET ids, files : BOOLEAN] :
     /\ r.status = "done" => r.failed = {} /\ r.applied # {}
     /\ r.status = "partial" => r.applied \cup r.failed # {}
     /\ r.status = "error" => r.applied = {}}

\* handlePollPost: to the apply that waits, or too late, or to nobody.
Reply ==
  /\ up /\ agent.pc = "reply"
  /\ agent' = Resting
  /\ \/ \E e \in events :
          /\ e.id = agent.id
          /\ \E r \in Results({o.id : o \in agent.ops}) :
               \E w \in Resumed([World EXCEPT !.ev = @ \ {e}], e.page, r) : Becomes(w)
          /\ UNCHANGED stale
     \/ \E d \in stale :
          /\ d.id = agent.id
          /\ source' = Restored(source, d.content)
          /\ stale' = stale \ {d}
          /\ UNCHANGED <<buffer, transaction, events, commits, decision>>
     \/ /\ agent.id \notin Ids(events) \cup Ids(stale)
        /\ UNCHANGED <<disk, events, commits, stale, decision>>
  /\ UNCHANGED <<up, user, faults>>

\* The hard timeout of an event.
Expire(e) ==
  /\ up /\ e \in events
  /\ stale' = Tombstones({e})
  /\ \E w \in Resumed([World EXCEPT !.ev = @ \ {e}], e.page, Rejected) : Becomes(w)
  /\ UNCHANGED <<up, agent, user, faults>>

-----------------------------------------------------------------------------
(* Faults.                                                                 *)

Fault(kind) == kind \in Faults /\ faults < MaxFaults /\ faults' = faults + 1

AgentDies ==
  /\ Fault("die") /\ agent.pc # "idle"
  /\ agent' = Resting
  /\ stale' = {}
  /\ UNCHANGED <<up, disk, events, commits, decision, user>>

Crash ==
  /\ Fault("crash") /\ up
  /\ up' = FALSE
  /\ events' = {} /\ commits' = [p \in Pages |-> NoCommit] /\ stale' = {}
  /\ UNCHANGED <<disk, agent, decision, user>>

\* Start-up rolls back whatever transaction there is.
Restart ==
  /\ ~up
  /\ up' = TRUE
  /\ source' = RolledBack(NoPage) /\ transaction' = TransactionAfter(NoPage)
  /\ UNCHANGED <<buffer, events, commits, stale, agent, decision, user, faults>>

-----------------------------------------------------------------------------
Next ==
  \/ \E p \in Pages :
       \/ \E refs \in SUBSET RefsOf(p) \ {{}} : Save(p, refs)
       \/ Apply(p) \/ KeepFixing(p) \/ RollBack(p) \/ Discard(p)
  \/ \E e \in events : Take(e) \/ Expire(e)
  \/ Edit \/ Reply
  \/ AgentDies \/ Crash \/ Restart

\* The hard timeout of an event is a timer: WF_vars(Expired), with the ENABLED
\* of Expired written out, as TLC evaluates it slowly.
Expired == \E e \in events : Expire(e)
Timer   == []<>(~up \/ events = {}) \/ []<><<Expired>>_vars

Spec == Init /\ [][Next]_vars /\ Timer

-----------------------------------------------------------------------------
(* Properties.                                                             *)

\* An event is what one apply waits for, and an apply under way always waits.
EventsAwaited ==
  /\ \A e \in events : commits[e.page].active /\ commits[e.page].event = e.id
  /\ \A p \in Pages : commits[p].active => \E e \in events : e.page = p

Op       == [id : 1 .. MaxSaves, ref : Refs, text : 1 .. MaxSaves]
Contents == UNION {[RefsOf(p) -> Texts] : p \in Pages}

Commit == [active : {TRUE}, batch : SUBSET Entry, before : Contents, sent : SUBSET Op, rest : SUBSET Op,
           done : SUBSET Op, failed : SUBSET (1 .. MaxSaves), files : BOOLEAN, attempt : 0 .. MaxAttempts,
           claimed : SUBSET (1 .. MaxSaves), event : Nat, tx : Nat]

\* The type invariant.  Its last conjunct is about the handlers that end an
\* event (resolveDeferred, the timeout, cancelPendingEvents): the agent is never
\* handed an event whose apply is over, and no apply waits for nothing.
TypeOK ==
  /\ up \in BOOLEAN
  /\ source \in [Refs -> Texts]
  /\ buffer \subseteq Entry /\ \A e, f \in buffer : e.id = f.id => e = f
  /\ transaction \in {NoTransaction} \cup
       [id : Nat, page : Pages, ids : SUBSET (1 .. MaxSaves), content : Contents]
  /\ events \subseteq [id : Nat, page : Pages, ops : SUBSET Op, content : Contents]
  /\ commits \in [Pages -> Commit \cup {NoCommit}]
  /\ stale \subseteq [id : Nat, content : Contents]
  /\ agent \in [pc : {"idle", "edit", "reply"}, id : Nat, ops : SUBSET Op]
  /\ decision \subseteq Pages /\ exempt \subseteq Refs
  /\ saves \in 0 .. MaxSaves /\ wanted \in [Refs -> 0 .. MaxSaves]
  /\ EventsAwaited

Agreed(r) ==
  \/ wanted[r] = 0
  \/ source[r] = wanted[r]
  \/ \E e \in buffer : r \in DOMAIN e.ops /\ e.ops[r] = wanted[r]

\* No edit is lost: the text that the user saved last for an element is in the
\* source or still staged, until it is discarded, through chunks, repairs,
\* rollbacks, discards of other edits, deadlines, and the loss of the agent or
\* of the helper (commitManualEdits, clearAppliedEntries, the rollbacks).  The
\* exemptions are the two actions that set "exempt".
EditsKept == \A r \in Refs \ exempt : Agreed(r)

\* An apply that ends without a repair and without a question to the user leaves
\* nothing of an entry that is still staged in the source, whether the agent
\* failed it, never answered for it, or was stopped between two chunks
\* (commitManualEdits' error path and findUnappliedEntrySourceChanges).
FailuresUndone ==
  [][\A p \in Pages :
       commits[p].active /\ commits[p].attempt = 0 /\ ~commits'[p].active /\ p \notin decision' /\ up'
       => \A e \in commits[p].batch, r \in Refs :
            (r \in DOMAIN e.ops /\ e.id \in Ids(buffer') /\ source'[r] = e.ops[r])
            => commits[p].before[r] = e.ops[r]]_vars

\* Every apply ends, whatever the agent does or does not do: the deadlines stop
\* the chunks, and the repairs are counted (pushApplyEventAndWait,
\* repairPostApplyValidation).
CommitEnds == \A p \in Pages : commits[p].active ~> ~commits[p].active
=============================================================================
