---------------------------- MODULE CheckService -----------------------------
(***************************************************************************)
(* The manual checks of the Web UI (internal/keys/service.go).  A job runs *)
(* in a goroutine of its own and takes the keys one by one; Start, Cancel  *)
(* and Snapshot come from HTTP handlers at any time.  Every step below     *)
(* takes the service's mutex or a key's once; what happens to a key        *)
(* elsewhere in the gateway comes between any two.  SyncKeyToDB is one     *)
(* step with the change it saves (KeyAdmin has it in two), as is the refund*)
(* of a failed probe with its cooldown.                                    *)
(*                                                                         *)
(* Snapshot only reads the job, and a Start that is refused does nothing.  *)
(* spent is a history variable.                                            *)
(***************************************************************************)
EXTENDS KeyCheck, Sequences

CONSTANTS
  HasModel,    \* does the ranking know a free model to probe with?
  MaxJobs      \* bound: jobs that are started

ASSUME ServiceAssumption ==
  HasModel \subseteq BOOLEAN /\ MaxJobs \in Nat

VARIABLES
  job,      \* the CheckJob, under the service's mutex
  cancel,   \* the job whose context s.cancel cancels, 0: none
  runs,     \* the goroutines, one per job
  spent     \* requests that the provider has served, per key, as far as is known

serviceVars == <<clock, mem, row, job, cancel, runs, spent>>

Counters == {"active", "invalid", "day_exhausted", "rate_limited", "errors"}

NoJob == [running |-> FALSE, total |-> 0, completed |-> 0, count |-> [s \in Counters |-> 0]]

JobRec == [running : BOOLEAN, total : Nat, completed : Nat, count : [Counters -> Nat]]

RunRec == [pc        : {"loop", "send", "wait", "record", "over"},
           mode      : {"keys", "limits"},
           todo      : Seq(Keys),
           before    : Status,
           now       : Nat,
           cancelled : BOOLEAN]

NewKey == NewKeyState(AddRow(NoRow, DailyLimit, KeyRPM, 0))

ServiceInit ==
  /\ clock = 0
  /\ mem = [k \in Keys |-> NewKey]
  /\ row = [k \in Keys |-> ToDB(NewKey)]
  /\ job = NoJob
  /\ cancel = 0
  /\ runs = <<>>
  /\ spent = [k \in Keys |-> 0]

-----------------------------------------------------------------------------
(* The HTTP handlers.                                                      *)

Enabled == {k \in Keys : mem[k].status # "disabled"}

\* The enabled keys in the pool's order (there is one such list).
InPoolOrder ==
  {keys \in [1 .. Cardinality(Enabled) -> Enabled] :
     \A a, b \in DOMAIN keys : a < b => keys[a] < keys[b]}

\* A new job, and its goroutine unless there is nothing to check.
NewRun(mode, keys) == [pc |-> "loop", mode |-> mode, todo |-> keys,
                       before |-> "unchecked", now |-> 0, cancelled |-> FALSE]

Launch(mode) ==
  \/ /\ Enabled = {}
     /\ job' = NoJob
     /\ cancel' = 0
     /\ UNCHANGED runs
  \/ /\ Enabled # {}
     /\ job' = [NoJob EXCEPT !.running = TRUE, !.total = Cardinality(Enabled)]
     /\ \E keys \in InPoolOrder : runs' = Append(runs, NewRun(mode, keys))
     /\ cancel' = Len(runs) + 1

\* A mutant: the counters of the last job are kept.
StartKeepsCounts(mode) ==
  /\ ~job.running
  /\ Len(runs) < MaxJobs
  /\ Enabled # {}
  /\ job' = [job EXCEPT !.running = TRUE, !.total = Cardinality(Enabled)]
  /\ \E keys \in InPoolOrder : runs' = Append(runs, NewRun(mode, keys))
  /\ cancel' = Len(runs) + 1
  /\ UNCHANGED <<clock, mem, row, spent>>

Start(mode) ==
  /\ ~job.running
  /\ Len(runs) < MaxJobs
  /\ Launch(mode)
  /\ UNCHANGED <<clock, mem, row, spent>>

\* A mutant: a cancelled job is declared over at once.
CancelAtOnce ==
  /\ cancel # 0
  /\ runs' = [runs EXCEPT ![cancel].cancelled = TRUE]
  /\ job' = [job EXCEPT !.running = FALSE]
  /\ UNCHANGED <<clock, mem, row, cancel, spent>>

Cancel ==
  /\ cancel # 0
  /\ runs' = [runs EXCEPT ![cancel].cancelled = TRUE]
  /\ UNCHANGED <<clock, mem, row, job, cancel, spent>>

-----------------------------------------------------------------------------
(* The goroutine of job j.                                                 *)

At(j, pc) == j \in DOMAIN runs /\ runs[j].pc = pc

Key(j) == Head(runs[j].todo)

Alive == {j \in DOMAIN runs : runs[j].pc # "over"}

\* Probes of k that the provider has not answered.
InFlight(k) == {j \in Alive : runs[j].mode = "limits" /\ runs[j].pc = "wait" /\ Key(j) = k}

\* What counts as spent of a key that is said to have nothing left: all but the
\* probes on their way, or what was spent before if there is no limit.
Exhausting(before, inFlight) == IF DailyLimit = 0 THEN before ELSE DailyLimit - inFlight

\* Is the loop over, with all keys done or the context cancelled?
Ends(j) == runs[j].todo = <<>> \/ runs[j].cancelled

\* The status before the check is remembered.
TakeKey(j) ==
  /\ At(j, "loop")
  /\ ~Ends(j)
  /\ runs' = [runs EXCEPT ![j].pc = "send", ![j].before = mem[Key(j)].status]
  /\ UNCHANGED <<clock, mem, row, job, cancel, spent>>

\* The call to the provider begins.  A probe charges the key first, whether it
\* has quota left or not, and saves it.
Send(j) ==
  LET k == Key(j)
      charged == Register(mem[k], clock, Today)
  IN  /\ At(j, "send")
      /\ runs' = [runs EXCEPT ![j].pc = "wait", ![j].now = clock]
      /\ IF runs[j].mode = "keys" THEN UNCHANGED <<mem, row>>
         ELSE /\ TRUE \in HasModel
              /\ mem' = [mem EXCEPT ![k] = charged]
              /\ row' = [row EXCEPT ![k] = ToDB(charged)]
      /\ UNCHANGED <<clock, job, cancel, spent>>

\* No free model is known: the key is not probed.
Skip(j) ==
  /\ At(j, "send")
  /\ runs[j].mode = "limits"
  /\ FALSE \in HasModel
  /\ runs' = [runs EXCEPT ![j].pc = "record"]
  /\ UNCHANGED <<clock, mem, row, job, cancel, spent>>

Put(k, rec, save) ==
  /\ mem' = [mem EXCEPT ![k] = rec]
  /\ row' = IF save THEN [row EXCEPT ![k] = ToDB(rec)] ELSE row

\* The provider answers, or the call fails, which a cancelled one may do.
Receive(j, verdict) ==
  LET k == Key(j)
  IN  /\ At(j, "wait")
      /\ verdict = "cancelled" => runs[j].cancelled
      /\ verdict = "network" => ~runs[j].cancelled
      /\ \/ /\ runs[j].mode = "keys" /\ verdict \in Verdicts \ {"garbled"}
            /\ Put(k, Verified(mem[k], "aihubmix", verdict, NoRow, runs[j].now, clock), Conclusive(verdict))
            /\ UNCHANGED spent
         \/ /\ runs[j].mode = "limits" /\ verdict \in LimitVerdicts
            /\ Put(k, Probed(mem[k], verdict, clock), TRUE)
            /\ spent' = [spent EXCEPT ![k] = CASE verdict \in {"200", "401"} -> @ + 1
                                              [] verdict = "marker"         -> Exhausting(@ + 1, 0)
                                              [] OTHER                      -> @]
      /\ runs' = [runs EXCEPT ![j].pc = "record", ![j].now = 0]
      /\ UNCHANGED <<clock, job, cancel>>

\* record: count the key by the status that it has by now.
Class(j) ==
  LET status == mem[Key(j)].status
  IN  IF status \in Counters THEN {status}
      ELSE IF status = runs[j].before THEN {"errors"} ELSE {}

Record(j) ==
  /\ At(j, "record")
  /\ job' = [job EXCEPT !.completed = @ + 1,
                        !.count = [s \in Counters |-> @[s] + IF s \in Class(j) THEN 1 ELSE 0]]
  /\ runs' = [runs EXCEPT ![j].pc = "loop", ![j].todo = Tail(@), ![j].before = "unchecked"]
  /\ UNCHANGED <<clock, mem, row, cancel, spent>>

\* A mutant: a cancelled run returns from the loop.
FinishUnlessCancelled(j) ==
  /\ At(j, "loop")
  /\ Ends(j)
  /\ runs' = [runs EXCEPT ![j].pc = "over"]
  /\ IF runs[j].cancelled THEN UNCHANGED <<job, cancel>>
     ELSE /\ job' = [job EXCEPT !.running = FALSE]
          /\ cancel' = 0
  /\ UNCHANGED <<clock, mem, row, spent>>

Finish(j) ==
  /\ At(j, "loop")
  /\ Ends(j)
  /\ runs' = [runs EXCEPT ![j].pc = "over"]
  /\ job' = [job EXCEPT !.running = FALSE]
  /\ cancel' = 0
  /\ UNCHANGED <<clock, mem, row, spent>>

-----------------------------------------------------------------------------
\* A request or an administrator sets a status, and saves it.
ServiceElsewhere(k, status) ==
  /\ Put(k, SetStatus(mem[k], status, Today), TRUE)
  /\ spent' = [spent EXCEPT ![k] =
                 IF status = "day_exhausted" THEN Exhausting(@, Cardinality(InFlight(k))) ELSE @]
  /\ UNCHANGED <<clock, job, cancel, runs>>

ServiceTick ==
  /\ clock < MaxTime
  /\ clock' = clock + 1
  /\ UNCHANGED <<mem, row, job, cancel, runs, spent>>

Run(j) ==
  \/ TakeKey(j) \/ Send(j) \/ Skip(j) \/ Record(j) \/ Finish(j)
  \/ \E verdict \in Verdicts \cup LimitVerdicts : Receive(j, verdict)

ServiceNext ==
  \/ \E mode \in {"keys", "limits"} : Start(mode)
  \/ Cancel
  \/ \E j \in 1 .. MaxJobs : Run(j)
  \/ \E k \in Keys, status \in Elsewhere : ServiceElsewhere(k, status)
  \/ ServiceTick

\* The goroutine runs on, and every call ends: the clients have timeouts.
ServiceSpec == ServiceInit /\ [][ServiceNext]_serviceVars /\ \A j \in 1 .. MaxJobs : WF_serviceVars(Run(j))

-----------------------------------------------------------------------------
ServiceTypeOK ==
  /\ clock \in 0 .. MaxTime
  /\ mem \in [Keys -> KeyRec]
  /\ row \in [Keys -> RowRec]
  /\ job \in JobRec
  /\ cancel \in 0 .. Len(runs)
  /\ runs \in Seq(RunRec) /\ Len(runs) <= MaxJobs
  /\ spent \in [Keys -> Nat]

\* The service serializes manual checks (its comment): however Start and Cancel
\* hit a job that is just ending, at most one goroutine calls the provider, the
\* job says that it runs as long as it does, and Cancel reaches that one.
OneJobAtATime ==
  /\ \A i, j \in Alive : i = j
  /\ job.running <=> Alive # {}
  /\ \A j \in Alive : cancel = j

Classified(j) == j.count["active"] + j.count["invalid"] + j.count["day_exhausted"]
                   + j.count["rate_limited"] + j.count["errors"]

\* The progress the UI polls adds up: a job's completed keys and those left are
\* its total, each completed key is counted in at most one class, and a job
\* that is over and was not cancelled has checked every key (record, Snapshot).
ProgressAddsUp ==
  /\ \A j \in Alive : job.completed + Len(runs[j].todo) = job.total
  /\ Classified(job) <= job.completed
  /\ \A j \in DOMAIN runs :
       j = Len(runs) /\ j \notin Alive /\ ~runs[j].cancelled => runs[j].todo = <<>>

\* A manual probe costs a key one request exactly if the provider served it:
\* also when it is cancelled, fails, is refused, or when others change the key
\* meanwhile (checkLimit).  When the provider says that the key has nothing
\* left, the whole limit is spent.  It speaks of the first day, as the next
\* one begins another count.
ProbesAccounted ==
  Today = 0 => \A k \in Keys : mem[k].usage = spent[k] + Cardinality(InFlight(k))

\* A job ends, cancelled or not (every call to the provider has a timeout).
JobEnds == job.running ~> ~job.running
=============================================================================
