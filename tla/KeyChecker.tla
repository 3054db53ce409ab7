----------------------------- MODULE KeyChecker ------------------------------
(***************************************************************************)
(* The background checker of one provider (internal/keys/checker.go).  A   *)
(* dispatcher picks one key per tick of its timer and hands it to workers  *)
(* through a channel that holds as many keys as there are workers; Stop    *)
(* closes stopChan and waits for the dispatcher, which closes the channel  *)
(* and waits for the workers.                                              *)
(*                                                                         *)
(* findKeyToVerify reads the keys one by one; it is one step here, as its  *)
(* result is out of date by the time a worker takes it anyway.  A check is *)
(* two steps, the call to the provider and its answer (the retry of a 429  *)
(* through a proxy is part of the call).                                   *)
(***************************************************************************)
EXTENDS KeyCheck, Sequences

CONSTANTS
  Workers,     \* the worker goroutines (concurrency)
  Providers,   \* the providers whose checker is looked at
  Stored,      \* the statuses of the keys when the gateway starts
  Limits,      \* the limits and the rests that OpenRouter may tell; one that it
  Rests,       \* does not tell stays as it is
  TTL,         \* ticks after which a key is checked again
  Patience,    \* the same for a rate-limited key (ten minutes)
  MaxFailures  \* bound: checks that do not settle an unchecked key

ASSUME CheckerAssumption ==
  /\ Workers # {} /\ IsFiniteSet(Workers)
  /\ Providers \subseteq Provider
  /\ Limits \subseteq Nat /\ Rests \subseteq Int
  /\ TTL \in Nat /\ Patience \in Nat
  /\ Stored \subseteq Status /\ MaxFailures \in Nat

VARIABLES
  provider,
  checked,     \* LastCheckedAt, -1: never
  disp,        \* the dispatcher: pc, and the key that it is about to hand over
  queue,       \* taskChan
  work,        \* the workers: pc, the key being checked, since when
  stopping,    \* is stopChan closed?
  failures     \* how often the provider failed

checkerVars == <<clock, provider, mem, row, checked, disp, queue, work, stopping, failures>>

Idle == [pc |-> "idle", key |-> 0, now |-> 0]
Gone == [Idle EXCEPT !.pc = "gone"]

CheckerInit ==
  /\ clock = 0
  /\ provider \in Providers
  /\ row \in [Keys -> {[AddRow(NoRow, DailyLimit, KeyRPM, 0) EXCEPT !.status = s] : s \in Stored}]
  /\ mem = [k \in Keys |-> NewKeyState(row[k])]
  /\ checked = [k \in Keys |-> -1]
  /\ disp = [pc |-> "select", key |-> 0]
  /\ queue = <<>>
  /\ work = [w \in Workers |-> Idle]
  /\ stopping = FALSE
  /\ failures = 0

-----------------------------------------------------------------------------
(* findKeyToVerify.                                                        *)

Age(k) == clock - checked[k]

Priority(k) ==
  CASE mem[k].status = "disabled"                             -> 0
    [] mem[k].status = "unchecked" \/ checked[k] = -1         -> 3
    [] mem[k].status = "rate_limited" /\ Age(k) > Patience    -> 2
    [] mem[k].status # "invalid" /\ Age(k) > TTL              -> 1
    [] OTHER                                                  -> 0

\* The first of the keys with the highest priority; none if that is 0.
Candidates ==
  {k \in Keys : /\ Priority(k) > 0
                /\ \A o \in Keys : Priority(o) <= Priority(k)
                /\ \A o \in Keys : o < k => Priority(o) < Priority(k)}

-----------------------------------------------------------------------------
(* The dispatcher, runLoop.                                                *)

\* The timer ticks.
Pick ==
  /\ disp.pc = "select"
  /\ \E k \in Candidates : disp' = [pc |-> "send", key |-> k]
  /\ UNCHANGED <<clock, provider, mem, row, checked, queue, work, stopping, failures>>

Hand ==
  /\ disp.pc = "send"
  /\ Len(queue) < Cardinality(Workers)
  /\ queue' = Append(queue, disp.key)
  /\ disp' = [pc |-> "select", key |-> 0]
  /\ UNCHANGED <<clock, provider, mem, row, checked, work, stopping, failures>>

\* stopChan is closed: the dispatcher closes taskChan, what it holds is dropped.
Halt ==
  /\ stopping
  /\ disp.pc \in {"select", "send"}
  /\ disp' = [pc |-> "closing", key |-> 0]
  /\ UNCHANGED <<clock, provider, mem, row, checked, queue, work, stopping, failures>>

\* A mutant of Join: the dispatcher does not wait for the workers.
JoinAtOnce ==
  /\ disp.pc = "closing"
  /\ disp' = [disp EXCEPT !.pc = "gone"]
  /\ UNCHANGED <<clock, provider, mem, row, checked, queue, work, stopping, failures>>

\* workerWg.Wait, after which Stop returns.
Join ==
  /\ disp.pc = "closing"
  /\ \A w \in Workers : work[w] = Gone
  /\ disp' = [disp EXCEPT !.pc = "gone"]
  /\ UNCHANGED <<clock, provider, mem, row, checked, queue, work, stopping, failures>>

Stop ==
  /\ ~stopping
  /\ stopping' = TRUE
  /\ UNCHANGED <<clock, provider, mem, row, checked, disp, queue, work, failures>>

-----------------------------------------------------------------------------
(* The workers.                                                            *)

TakeTask(w) ==
  /\ work[w].pc = "idle"
  /\ queue # <<>>
  /\ queue' = Tail(queue)
  /\ work' = [work EXCEPT ![w] = [pc |-> "call", key |-> Head(queue), now |-> clock]]
  /\ UNCHANGED <<clock, provider, mem, row, checked, disp, stopping, failures>>

\* A mutant of Closed: close(taskChan) is forgotten.
NeverClosed == FALSE

Closed == disp.pc \in {"closing", "gone"}

\* A closed channel is emptied before the worker leaves it.
Exit(w) ==
  /\ work[w].pc = "idle"
  /\ queue = <<>>
  /\ Closed
  /\ work' = [work EXCEPT ![w] = Gone]
  /\ UNCHANGED <<clock, provider, mem, row, checked, disp, queue, stopping, failures>>

\* A mutant of Onwards: the worker returns from its loop when a check fails.
OnwardsIfGood(verdict) == IF Conclusive(verdict) THEN Idle ELSE Gone

\* The worker goes on with the next key, whatever became of this one.
Onwards(verdict) == Idle

Saved(k, rec, now) ==
  /\ mem' = [mem EXCEPT ![k] = rec]
  /\ row' = [row EXCEPT ![k] = ToDB(rec)]
  /\ checked' = [checked EXCEPT ![k] = now]

\* A 1min.AI key is not asked about: it is good until a request says otherwise.
Trust(w) ==
  /\ work[w].pc = "call"
  /\ provider = "1minai"
  /\ Saved(work[w].key, Trusted(mem[work[w].key]), clock)
  /\ work' = [work EXCEPT ![w] = Idle]
  /\ UNCHANGED <<clock, provider, disp, queue, stopping, failures>>

\* The answers that settle an unchecked key.
Decisive == {"200", "401", "429"}

\* The provider answers, or the call fails; info is what OpenRouter tells.
Answer(w, verdict, info) ==
  LET k == work[w].key
      rec == Verified(mem[k], provider, verdict, info, work[w].now, clock)
  IN  /\ work[w].pc = "call"
      /\ provider # "1minai"
      /\ verdict = "garbled" => provider = "openrouter"
      /\ IF verdict \in Decisive THEN UNCHANGED failures
         ELSE failures < MaxFailures /\ failures' = failures + 1
      /\ IF Conclusive(verdict) THEN Saved(k, rec, work[w].now)
         ELSE mem' = [mem EXCEPT ![k] = rec] /\ UNCHANGED <<row, checked>>
      /\ work' = [work EXCEPT ![w] = Onwards(verdict)]
      /\ UNCHANGED <<clock, provider, disp, queue, stopping>>

\* What OpenRouter may tell about the key that w checks.
Infos(w) ==
  IF work[w].pc # "call" \/ provider # "openrouter" THEN {NoRow}
  ELSE [maxLimit : Limits \cup {mem[work[w].key].maxLimit},
        remaining : Rests \cup {mem[work[w].key].remaining}]

Answers(w) ==
  \E verdict \in Verdicts \ {"cancelled"} :
    \E info \in IF verdict = "200" THEN Infos(w) ELSE {NoRow} : Answer(w, verdict, info)

-----------------------------------------------------------------------------
\* A request or an administrator sets a status, and saves it; SetStatus makes no
\* key active.
CheckerElsewhere(k, status) ==
  LET rec == SetStatus(mem[k], status, Today)
  IN  /\ mem' = [mem EXCEPT ![k] = rec]
      /\ row' = [row EXCEPT ![k] = ToDB(rec)]
      /\ UNCHANGED <<clock, provider, checked, disp, queue, work, stopping, failures>>

CheckerTick ==
  /\ clock < MaxTime
  /\ clock' = clock + 1
  /\ UNCHANGED <<provider, mem, row, checked, disp, queue, work, stopping, failures>>

Dispatch == Pick \/ Hand \/ Halt \/ Join

Step(w) == TakeTask(w) \/ Exit(w) \/ Trust(w) \/ Answers(w)

CheckerNext ==
  \/ Dispatch
  \/ Stop
  \/ \E w \in Workers : Step(w)
  \/ \E k \in Keys, status \in Elsewhere \ {"active"} : CheckerElsewhere(k, status)
  \/ CheckerTick

\* The goroutines run on, and every call ends: the clients have timeouts.  That
\* a key is verified in the end also needs a provider that does not fail for
\* ever (MaxFailures): a key that only gets errors is always the first candidate.
CheckerSpec ==
  /\ CheckerInit /\ [][CheckerNext]_checkerVars
  /\ WF_checkerVars(Dispatch) /\ WF_checkerVars(Halt)
  /\ \A w \in Workers : WF_checkerVars(Step(w))

-----------------------------------------------------------------------------
CheckerTypeOK ==
  /\ clock \in 0 .. MaxTime
  /\ provider \in Provider
  /\ mem \in [Keys -> KeyRec]
  /\ row \in [Keys -> RowRec]
  /\ checked \in [Keys -> -1 .. MaxTime]
  /\ disp \in [pc : {"select", "send", "closing", "gone"}, key : Keys \cup {0}]
  /\ queue \in Seq(Keys) /\ Len(queue) <= Cardinality(Workers)
  /\ work \in [Workers -> [pc : {"idle", "call", "gone"}, key : Keys \cup {0}, now : 0 .. MaxTime]]
  /\ stopping \in BOOLEAN
  /\ failures \in 0 .. MaxFailures

\* When Stop has returned, no check is running or waiting: what main does next
\* (Stop of the other checkers, the end of the process) cuts no check short.
NothingAfterStop ==
  disp.pc = "gone" => queue = <<>> /\ \A w \in Workers : work[w] = Gone

\* An exhausted key comes back only if the provider tells quotas, and then with
\* quota left, not to be refused for ever as active but used up (the comments
\* of CheckKey); also with old answers, and statuses that change in flight.
ExhaustedHonoured ==
  [][\A k \in Keys :
       mem[k].status = "day_exhausted" /\ mem'[k].status = "active"
         => provider = "openrouter" /\ HasQuota(mem'[k])]_checkerVars

\* Every unchecked key is verified, unless the checker is stopped: no key is
\* starved by those before it, by a full channel or by failing checks.
EveryKeyVerified == <>(stopping \/ \A k \in Keys : mem[k].status # "unchecked")

\* Stop always returns, with keys queued, checks under way and a dispatcher
\* that waits at a full channel.
StopReturns == stopping ~> disp.pc = "gone"
=============================================================================
