---------------------------- MODULE KeyCheckProofs ----------------------------
(***************************************************************************)
(* The background checker and the manual checks, for any number of keys,   *)
(* workers and jobs, whatever the provider answers.                        *)
(*                                                                         *)
(* When Stop of the key checker returns, no check is running or waiting,   *)
(* and no check revives an exhausted key that has nothing left.            *)
(*                                                                         *)
(* The manual checks are serialized, whenever they are started and         *)
(* cancelled.  That at most one goroutine is alive is what their other     *)
(* theorems rest on: nobody else moves the job's numbers, and at most one  *)
(* probe of a key is on its way.                                           *)
(***************************************************************************)
EXTENDS KeyChecker, CheckService, KeyStateProofs, SequenceTheorems

-----------------------------------------------------------------------------
(* The background checker.                                                 *)

\* Who has left the channel found it closed and empty, and the dispatcher
\* leaves after everybody else.
Left ==
  /\ DOMAIN work = Workers
  /\ \A w \in Workers : work[w] = Gone => queue = <<>> /\ disp.pc \in {"closing", "gone"}
  /\ disp.pc = "gone" => \A w \in Workers : work[w] = Gone

\* The three ways in which a step can concern what Left says.
LEMMA LeftUntouched == ASSUME Left, UNCHANGED <<disp, queue, work>> PROVE Left'
  BY DEF Left

LEMMA LeftDispatch == ASSUME Left, Dispatch PROVE Left'
<1> USE DEF Left
<1>1. CASE Pick
  <2>1. disp.pc = "select" /\ disp'.pc = "send" /\ queue' = queue /\ work' = work
    BY <1>1 DEF Pick
  <2>. QED BY <2>1
<1>2. CASE Hand
  <2>1. disp.pc = "send" /\ disp'.pc = "select" /\ work' = work
    BY <1>2 DEF Hand
  <2>. QED BY <2>1
<1>3. CASE Halt
  <2>1. disp'.pc = "closing" /\ queue' = queue /\ work' = work
    BY <1>3 DEF Halt
  <2>. QED BY <2>1
<1>4. CASE Join
  <2>1. /\ disp.pc = "closing" /\ \A w \in Workers : work[w] = Gone
        /\ disp' = [disp EXCEPT !.pc = "gone"] /\ queue' = queue /\ work' = work
    BY <1>4 DEF Join
  <2>2. disp'.pc \in {"closing", "gone"}
    BY <2>1
  <2>. QED BY <2>1, <2>2
<1>. QED BY <1>1, <1>2, <1>3, <1>4 DEF Dispatch

LEMMA LeftStep == ASSUME Left, NEW w \in Workers, Step(w) PROVE Left'
<1> USE DEF Left
<1>0. work[w] # Gone /\ disp.pc # "gone"
  <2>1. work[w].pc \in {"idle", "call"}
    BY DEF Step, TakeTask, Exit, Trust, Answers, Answer
  <2>. QED BY <2>1 DEF Gone, Idle
<1>1. CASE TakeTask(w)
  <2>1. /\ queue # <<>> /\ disp' = disp
        /\ work' = [work EXCEPT ![w] = [pc |-> "call", key |-> Head(queue), now |-> clock]]
    BY <1>1 DEF TakeTask
  <2>2. \A v \in Workers : work[v] # Gone
    BY <2>1
  <2>3. \A v \in Workers : work'[v] # Gone
    BY <2>1, <2>2 DEF Gone, Idle
  <2>. QED BY <1>0, <2>1, <2>3
<1>2. CASE Exit(w)
  <2>1. /\ queue = <<>> /\ disp.pc \in {"closing", "gone"}
        /\ disp' = disp /\ queue' = queue /\ work' = [work EXCEPT ![w] = Gone]
    BY <1>2 DEF Exit, Closed
  <2>. QED BY <1>0, <2>1
<1>3. ASSUME disp' = disp, queue' = queue, work' = [work EXCEPT ![w] = Idle]
      PROVE  Left'
  <2>1. Idle # Gone
    BY DEF Idle, Gone
  <2>2. \A v \in Workers : work'[v] = Gone => work[v] = Gone
    BY <1>3, <2>1
  <2>. QED BY <1>0, <1>3, <2>2
<1>4. CASE Trust(w) \/ Answers(w)
  BY <1>3, <1>4 DEF Trust, Answers, Answer, Onwards
<1>. QED BY <1>1, <1>2, <1>4 DEF Step

LEMMA LeftInv == CheckerSpec => []Left
<1>1. CheckerInit => Left
  BY CheckerAssumption, CheckAssumption DEF CheckerInit, Left, Idle, Gone
<1>2. Left /\ [CheckerNext]_checkerVars => Left'
  <2> SUFFICES ASSUME Left, [CheckerNext]_checkerVars PROVE Left'
    OBVIOUS
  <2>1. CASE Dispatch
    BY <2>1, LeftDispatch
  <2>2. ASSUME NEW w \in Workers, Step(w) PROVE Left'
    BY <2>2, LeftStep
  <2>3. CASE Stop \/ (\E k \in Keys, status \in Elsewhere \ {"active"} : CheckerElsewhere(k, status)) \/ CheckerTick
    BY <2>3, LeftUntouched DEF Stop, CheckerElsewhere, CheckerTick
  <2>4. CASE UNCHANGED checkerVars
    BY <2>4, LeftUntouched DEF checkerVars
  <2>. QED BY <2>1, <2>2, <2>3, <2>4 DEF CheckerNext
<1>. QED BY <1>1, <1>2, PTL DEF CheckerSpec

\* Once Stop has returned, every worker is gone and the channel is empty: the
\* process may end without cutting a check short (checker.go, Stop, runLoop).
THEOREM StopLeavesNothing == CheckerSpec => []NothingAfterStop
<1>1. Left => NothingAfterStop
  <2>1. \E w \in Workers : TRUE
    BY CheckerAssumption, CheckAssumption
  <2>. QED BY <2>1 DEF Left, NothingAfterStop
<1>. QED BY <1>1, LeftInv, PTL

(***************************************************************************)
(* What an answer does to a key.                                           *)
(***************************************************************************)
\* What OpenRouter may tell.
Info == [maxLimit : Nat, remaining : Int]

\* A step to q makes no exhausted key active, unless there is quota left.
Revived(k, q) == k.status = "day_exhausted" /\ q.status = "active"

LEMMA InformedFacts ==
  ASSUME NEW k \in KeyRec, NEW info \in Info, NEW now \in Nat
  PROVE  /\ Informed(k, info, now) \in KeyRec
         /\ Revived(k, Informed(k, info, now)) => HasQuota(Informed(k, info, now))
<1> DEFINE max  == info.maxLimit
           rest == info.remaining
           told == [k EXCEPT !.maxLimit = max, !.remaining = rest]
           used == max - rest
           u    == IF k.status # "day_exhausted" THEN k.usage ELSE IF used < 0 THEN 0 ELSE used
           good == [told EXCEPT !.usage = u, !.status = "active"]
<1>1. max \in Nat /\ rest \in Int
  BY DEF Info
<1>2. told \in KeyRec /\ told.maxLimit = max /\ told.remaining = rest /\ told.usage = k.usage
  BY <1>1 DEF KeyRec
<1>3. UTCDay(now) \in Nat
  BY DayType
<1>4. Informed(k, info, now) = IF rest <= 0 /\ max > 0 THEN MarkDayExhausted(told, UTCDay(now)) ELSE good
  BY <1>2 DEF Informed
<1>5. u \in Nat
  BY <1>1 DEF KeyRec
<1>6. good \in KeyRec /\ good.usage = u /\ good.maxLimit = max
  BY <1>2, <1>5 DEF KeyRec, Status
<1>7. ASSUME k.status = "day_exhausted", ~(rest <= 0 /\ max > 0) PROVE HasQuota(good)
  BY <1>1, <1>6, <1>7 DEF HasQuota
<1> HIDE DEF told, good
<1>8. MarkDayExhausted(told, UTCDay(now)) \in KeyRec
  BY <1>2, <1>3, MarkFacts
<1>9. MarkDayExhausted(told, UTCDay(now)).status = "day_exhausted"
  BY <1>2 DEF MarkDayExhausted, KeyRec
<1>. QED BY <1>4, <1>6, <1>7, <1>8, <1>9 DEF Revived

\* An answer keeps a key a key, and revives it only if OpenRouter says so.
AnswerOK(k, q, p) == q \in KeyRec /\ (Revived(k, q) => p = "openrouter" /\ HasQuota(q))

LEMMA VerifiedOK ==
  ASSUME NEW k \in KeyRec, NEW p \in Provider, NEW verdict \in Verdicts, NEW info,
         verdict = "200" /\ p = "openrouter" => info \in Info,
         NEW now \in Nat, NEW wall \in Nat
  PROVE  AnswerOK(k, Verified(k, p, verdict, info, now, wall), p)
<1> DEFINE q == Verified(k, p, verdict, info, now, wall)
<1>0. now + 5 * Minute \in Nat /\ now + Minute \in Nat /\ wall + Minute \in Nat
  BY CheckAssumption
<1>1. ASSUME NEW status \in Status, status # "active" \/ k.status # "day_exhausted"
      PROVE  AnswerOK(k, [k EXCEPT !.status = status], p)
  BY <1>1 DEF AnswerOK, Revived, KeyRec
<1>2. ASSUME NEW until \in Nat, NEW status \in {"rate_limited", ""}
      PROVE  AnswerOK(k, SetCooldown(k, until, status), p)
  <2>1. SetCooldown(k, until, status) \in KeyRec
    BY SetCooldownFacts DEF Status
  <2>2. SetCooldown(k, until, status).status = IF status = "" THEN k.status ELSE status
    BY DEF SetCooldown, KeyRec
  <2>. QED BY <2>1, <2>2 DEF AnswerOK, Revived
<1>3. CASE verdict = "200" /\ p = "openrouter"
  <2>1. q = Informed(k, info, now)
    BY <1>3 DEF Verified
  <2>. QED BY <1>3, <2>1, InformedFacts DEF AnswerOK
<1>4. CASE verdict = "200" /\ p # "openrouter"
  <2> DEFINE status == IF k.status = "day_exhausted" THEN k.status ELSE "active"
  <2>1. status \in Status /\ (status # "active" \/ k.status # "day_exhausted")
    BY DEF KeyRec, Status
  <2>2. q = [k EXCEPT !.status = status]
    BY <1>4 DEF Verified
  <2> HIDE DEF status, q
  <2>. QED BY <1>1, <2>1, <2>2 DEF q
<1>5. CASE verdict = "401"
  <2>1. q = [k EXCEPT !.status = "invalid"]
    BY <1>5 DEF Verified
  <2>. QED BY <1>1, <2>1 DEF Status
<1>6. CASE verdict \in {"429", "other", "network"}
  <2>1. \/ q = SetCooldown(k, now + 5 * Minute, "rate_limited")
        \/ q = SetCooldown(k, now + Minute, "")
        \/ q = SetCooldown(k, wall + Minute, "")
    BY <1>6 DEF Verified
  <2> HIDE DEF q
  <2>2. AnswerOK(k, q, p)
    BY <1>0, <1>2, <2>1
  <2>. QED BY <2>2 DEF q
<1>7. CASE verdict \in {"cancelled", "garbled"}
  <2>1. q = k
    BY <1>7 DEF Verified
  <2>. QED BY <2>1 DEF AnswerOK, Revived
<1>. QED BY <1>3, <1>4, <1>5, <1>6, <1>7 DEF Verdicts

LEMMA TrustedOK == ASSUME NEW k \in KeyRec, NEW p PROVE AnswerOK(k, Trusted(k), p)
  BY DEF Trusted, AnswerOK, Revived, KeyRec, Status

(***************************************************************************)
(* Types.  Who hands a key over, or checks one, has a key.                 *)
(***************************************************************************)
CheckerInv ==
  /\ CheckerTypeOK
  /\ disp.pc = "send" => disp.key \in Keys
  /\ \A w \in Workers : work[w].pc = "call" => work[w].key \in Keys

LEMMA CheckerFacts ==
  ASSUME CheckerInv
  PROVE  /\ clock \in Nat /\ MaxTime \in Nat /\ clock \in 0 .. MaxTime
         /\ Today \in Nat /\ provider \in Provider
         /\ \A k \in Keys : mem[k] \in KeyRec
<1>1. MaxTime \in Nat
  BY CheckerAssumption, CheckAssumption
<1>2. clock \in 0 .. MaxTime /\ provider \in Provider /\ \A k \in Keys : mem[k] \in KeyRec
  BY DEF CheckerInv, CheckerTypeOK
<1>3. clock \in Nat
  BY <1>1, <1>2
<1>4. Today \in Nat
  BY <1>3, DayType DEF Today
<1>. QED BY <1>1, <1>2, <1>3, <1>4

\* What a step may do to keys and rows.
LEMMA KeysStay ==
  ASSUME CheckerInv, NEW k \in Keys, NEW q \in KeyRec, mem' = [mem EXCEPT ![k] = q],
         row' = [row EXCEPT ![k] = ToDB(q)] \/ row' = row
  PROVE  mem' \in [Keys -> KeyRec] /\ row' \in [Keys -> RowRec]
<1>1. ToDB(q) \in RowRec
  BY ToDBFacts
<1> DEFINE snap == ToDB(q)
<1> HIDE DEF snap
<1>2. row' = [row EXCEPT ![k] = snap] \/ row' = row
  BY DEF snap
<1>3. snap \in RowRec
  BY <1>1 DEF snap
<1>4. mem \in [Keys -> KeyRec] /\ row \in [Keys -> RowRec]
  BY DEF CheckerInv, CheckerTypeOK
<1>5. mem' \in [Keys -> KeyRec]
  BY <1>4
<1>6. row' \in [Keys -> RowRec]
  BY <1>2, <1>3, <1>4
<1>. QED BY <1>5, <1>6

WorkRec == [pc : {"idle", "call", "gone"}, key : Keys \cup {0}, now : 0 .. MaxTime]

\* What a step may do to a worker.
LEMMA WorkerMoves ==
  ASSUME CheckerInv, NEW w \in Workers, NEW r \in WorkRec, work' = [work EXCEPT ![w] = r],
         r.pc = "call" => r.key \in Keys
  PROVE  /\ work' \in [Workers -> WorkRec]
         /\ \A v \in Workers : work'[v].pc = "call" => work'[v].key \in Keys
  BY DEF CheckerInv, CheckerTypeOK, WorkRec

LEMMA IdleTyped == Idle \in WorkRec /\ Gone \in WorkRec /\ Idle.pc = "idle" /\ Gone.pc = "gone"
  BY CheckerAssumption, CheckAssumption DEF Idle, Gone, WorkRec

LEMMA DispatchTyped == ASSUME CheckerInv, Dispatch PROVE CheckerInv'
<1> DEFINE DispRec == [pc : {"select", "send", "closing", "gone"}, key : Keys \cup {0}]
<1>0. /\ UNCHANGED <<clock, provider, mem, row, checked, work, stopping, failures>>
  BY DEF Dispatch, Pick, Hand, Halt, Join
<1>1. disp \in DispRec /\ queue \in Seq(Keys) /\ Len(queue) <= Cardinality(Workers)
  BY DEF CheckerInv, CheckerTypeOK
<1>2. /\ disp' \in DispRec /\ (disp'.pc = "send" => disp'.key \in Keys)
      /\ queue' \in Seq(Keys) /\ Len(queue') <= Cardinality(Workers)
  <2>1. CASE Pick
    BY <1>1, <2>1 DEF Pick, Candidates
  <2>2. CASE Hand
    <3>1. /\ Len(queue) < Cardinality(Workers) /\ queue' = Append(queue, disp.key)
          /\ disp' = [pc |-> "select", key |-> 0] /\ disp.key \in Keys
      BY <2>2 DEF Hand, CheckerInv
    <3>2. Cardinality(Workers) \in Nat
      BY CheckerAssumption, CheckAssumption, FS_CardinalityType
    <3>3. queue' \in Seq(Keys) /\ Len(queue') = Len(queue) + 1 /\ Len(queue) \in Nat
      BY <1>1, <3>1
    <3>. QED BY <3>1, <3>2, <3>3
  <2>3. CASE Halt
    BY <1>1, <2>3 DEF Halt
  <2>4. CASE Join
    BY <1>1, <2>4 DEF Join
  <2>. QED BY <2>1, <2>2, <2>3, <2>4 DEF Dispatch
<1>. QED BY <1>0, <1>2 DEF CheckerInv, CheckerTypeOK

LEMMA TakeTyped == ASSUME CheckerInv, NEW w \in Workers, TakeTask(w) PROVE CheckerInv'
<1> DEFINE r == [pc |-> "call", key |-> Head(queue), now |-> clock]
<1>0. /\ UNCHANGED <<clock, provider, mem, row, checked, disp, stopping, failures>>
      /\ queue # <<>> /\ queue' = Tail(queue) /\ work' = [work EXCEPT ![w] = r]
  BY DEF TakeTask
<1>1. queue \in Seq(Keys) /\ Len(queue) <= Cardinality(Workers)
  BY DEF CheckerInv, CheckerTypeOK
<1>2. Head(queue) \in Keys /\ Tail(queue) \in Seq(Keys) /\ Len(Tail(queue)) = Len(queue) - 1
  BY <1>0, <1>1
<1>3. Len(queue) \in Nat /\ Cardinality(Workers) \in Nat
  BY <1>1, CheckerAssumption, CheckAssumption, FS_CardinalityType
<1>4. r \in WorkRec /\ (r.pc = "call" => r.key \in Keys)
  BY <1>2, CheckerFacts DEF WorkRec
<1> HIDE DEF r
<1>5. /\ work' \in [Workers -> WorkRec]
      /\ \A v \in Workers : work'[v].pc = "call" => work'[v].key \in Keys
  BY <1>0, <1>4, WorkerMoves
<1>6. queue' \in Seq(Keys) /\ Len(queue') <= Cardinality(Workers)
  BY <1>0, <1>1, <1>2, <1>3
<1>. QED BY <1>0, <1>5, <1>6 DEF CheckerInv, CheckerTypeOK, WorkRec

LEMMA ExitTyped == ASSUME CheckerInv, NEW w \in Workers, Exit(w) PROVE CheckerInv'
<1>0. /\ UNCHANGED <<clock, provider, mem, row, checked, disp, queue, stopping, failures>>
      /\ work' = [work EXCEPT ![w] = Gone]
  BY DEF Exit
<1>1. /\ work' \in [Workers -> WorkRec]
      /\ \A v \in Workers : work'[v].pc = "call" => work'[v].key \in Keys
  BY <1>0, IdleTyped, WorkerMoves
<1>. QED BY <1>0, <1>1 DEF CheckerInv, CheckerTypeOK, WorkRec

\* A check ends: the key it was about is still a key, and comes back from
\* exhaustion only with quota left.
LEMMA CheckEnds ==
  ASSUME CheckerInv, NEW w \in Workers, Trust(w) \/ Answers(w)
  PROVE  /\ CheckerInv'
         /\ \A k \in Keys : Revived(mem[k], mem'[k]) => provider = "openrouter" /\ HasQuota(mem'[k])
<1> DEFINE k == work[w].key
<1>0. UNCHANGED <<clock, provider, disp, queue, stopping>> /\ work[w].pc = "call" /\ work' = [work EXCEPT ![w] = Idle]
  BY DEF Trust, Answers, Answer, Onwards
<1>1. k \in Keys
  BY <1>0 DEF CheckerInv
<1>2. work[w].now \in 0 .. MaxTime /\ checked \in [Keys -> -1 .. MaxTime] /\ failures \in 0 .. MaxFailures
  BY DEF CheckerInv, CheckerTypeOK
<1>3. /\ work' \in [Workers -> WorkRec]
      /\ \A v \in Workers : work'[v].pc = "call" => work'[v].key \in Keys
  BY <1>0, IdleTyped, WorkerMoves
<1>4. PICK q : /\ AnswerOK(mem[k], q, provider) /\ mem' = [mem EXCEPT ![k] = q]
               /\ row' = [row EXCEPT ![k] = ToDB(q)] \/ row' = row
               /\ checked' \in [Keys -> -1 .. MaxTime] /\ failures' \in 0 .. MaxFailures
  <2>1. CASE Trust(w)
    <3>1. AnswerOK(mem[k], Trusted(mem[k]), provider)
      BY <1>1, CheckerFacts, TrustedOK
    <3>2. checked' \in [Keys -> -1 .. MaxTime]
      <4>1. checked' = [checked EXCEPT ![k] = clock]
        BY <2>1 DEF Trust, Saved
      <4>2. clock \in -1 .. MaxTime
        BY CheckerFacts
      <4>. QED BY <1>2, <4>1, <4>2
    <3>. QED BY <1>2, <2>1, <3>1, <3>2 DEF Trust, Saved
  <2>2. ASSUME NEW verdict \in Verdicts \ {"cancelled"},
               NEW info \in IF verdict = "200" THEN Infos(w) ELSE {NoRow}, Answer(w, verdict, info)
        PROVE  \E q : /\ AnswerOK(mem[k], q, provider) /\ mem' = [mem EXCEPT ![k] = q]
                      /\ row' = [row EXCEPT ![k] = ToDB(q)] \/ row' = row
                      /\ checked' \in [Keys -> -1 .. MaxTime] /\ failures' \in 0 .. MaxFailures
    <3> DEFINE q == Verified(mem[k], provider, verdict, info, work[w].now, clock)
    <3>1. verdict = "200" /\ provider = "openrouter" => info \in Info
      <4>1. Limits \cup {mem[k].maxLimit} \subseteq Nat /\ Rests \cup {mem[k].remaining} \subseteq Int
        BY <1>1, CheckerFacts, CheckerAssumption, CheckAssumption DEF KeyRec
      <4>2. verdict = "200" /\ provider = "openrouter" =>
              info \in [maxLimit : Limits \cup {mem[k].maxLimit}, remaining : Rests \cup {mem[k].remaining}]
        BY <1>0, <2>2 DEF Infos
      <4>. QED BY <4>1, <4>2 DEF Info
    <3>2. work[w].now \in Nat
      BY <1>2, CheckerFacts
    <3>3. AnswerOK(mem[k], q, provider)
      BY <1>1, <3>1, <3>2, CheckerFacts, VerifiedOK
    <3>4. /\ mem' = [mem EXCEPT ![k] = q]
          /\ row' = [row EXCEPT ![k] = ToDB(q)] \/ row' = row
          /\ checked' = checked \/ checked' = [checked EXCEPT ![k] = work[w].now]
          /\ failures' = failures \/ (failures < MaxFailures /\ failures' = failures + 1)
      BY <2>2 DEF Answer, Saved
    <3> HIDE DEF q
    <3>5. checked' \in [Keys -> -1 .. MaxTime]
      <4>1. work[w].now \in -1 .. MaxTime
        BY <1>2, CheckerFacts
      <4>. QED BY <1>2, <3>4, <4>1
    <3>6. failures' \in 0 .. MaxFailures
      BY <1>2, <3>4, CheckerAssumption, CheckAssumption
    <3>. QED BY <3>3, <3>4, <3>5, <3>6
  <2>. QED BY <2>1, <2>2 DEF Answers
<1>5. mem' \in [Keys -> KeyRec] /\ row' \in [Keys -> RowRec]
  BY <1>1, <1>4, KeysStay DEF AnswerOK
<1>6. CheckerInv'
  BY <1>0, <1>3, <1>4, <1>5 DEF CheckerInv, CheckerTypeOK, WorkRec
<1>7. \A i \in Keys : mem'[i] = mem[i] \/ (i = k /\ mem'[i] = q)
  BY <1>1, <1>4 DEF CheckerInv, CheckerTypeOK
<1>8. \A i \in Keys : Revived(mem[i], mem'[i]) => provider = "openrouter" /\ HasQuota(mem'[i])
  BY <1>4, <1>7 DEF AnswerOK, Revived
<1>. QED BY <1>6, <1>8

LEMMA ElsewhereTyped ==
  ASSUME CheckerInv, NEW k \in Keys, NEW status \in Elsewhere \ {"active"}, CheckerElsewhere(k, status)
  PROVE  CheckerInv' /\ \A i \in Keys : ~Revived(mem[i], mem'[i])
<1> DEFINE q == SetStatus(mem[k], status, Today)
<1>0. /\ UNCHANGED <<clock, provider, checked, disp, queue, work, stopping, failures>>
      /\ mem' = [mem EXCEPT ![k] = q] /\ row' = [row EXCEPT ![k] = ToDB(q)]
  BY DEF CheckerElsewhere
<1>1. q \in KeyRec /\ q.status = status /\ status # "active"
  <2>1. status \in Status /\ status # "active"
    BY CheckerAssumption, CheckAssumption
  <2>. QED BY <2>1, CheckerFacts, AnyStatusFacts
<1> HIDE DEF q
<1>2. mem' \in [Keys -> KeyRec] /\ row' \in [Keys -> RowRec]
  BY <1>0, <1>1, KeysStay
<1>3. \A i \in Keys : mem'[i] = mem[i] \/ mem'[i] = q
  BY <1>0 DEF CheckerInv, CheckerTypeOK
<1>4. CheckerInv'
  BY <1>0, <1>2 DEF CheckerInv, CheckerTypeOK
<1>. QED BY <1>1, <1>3, <1>4 DEF Revived

LEMMA InitTyped == ASSUME CheckerInit PROVE CheckerInv
<1>1. \A k \in Keys : row[k] \in RowRec
  <2>1. AddRow(NoRow, DailyLimit, KeyRPM, 0) \in RowRec
    BY CheckerAssumption, CheckAssumption, NewRowFacts
  <2>2. \A s \in Stored : [AddRow(NoRow, DailyLimit, KeyRPM, 0) EXCEPT !.status = s] \in RowRec
    BY <2>1, CheckerAssumption, CheckAssumption DEF RowRec
  <2>. QED BY <2>2 DEF CheckerInit
<1>2. row \in [Keys -> RowRec]
  <2>1. \E S : row \in [Keys -> S]
    BY DEF CheckerInit
  <2>. QED BY <1>1, <2>1
<1>3. mem \in [Keys -> KeyRec]
  BY <1>1, LoadFacts DEF CheckerInit
<1>4. clock \in 0 .. MaxTime /\ failures \in 0 .. MaxFailures /\ checked \in [Keys -> -1 .. MaxTime]
  BY CheckerAssumption, CheckAssumption DEF CheckerInit
<1>5. provider \in Provider /\ stopping \in BOOLEAN
  BY CheckerAssumption, CheckAssumption DEF CheckerInit
<1>6. queue \in Seq(Keys) /\ Len(queue) <= Cardinality(Workers)
  <2>1. Cardinality(Workers) \in Nat
    BY CheckerAssumption, CheckAssumption, FS_CardinalityType
  <2>. QED BY <2>1 DEF CheckerInit
<1>7. work \in [Workers -> WorkRec] /\ \A w \in Workers : work[w].pc # "call"
  BY IdleTyped DEF CheckerInit
<1>8. /\ disp \in [pc : {"select", "send", "closing", "gone"}, key : Keys \cup {0}]
      /\ disp.pc # "send"
  BY DEF CheckerInit
<1>. QED BY <1>2, <1>3, <1>4, <1>5, <1>6, <1>7, <1>8 DEF CheckerInv, CheckerTypeOK, WorkRec

LEMMA NextTyped ==
  ASSUME CheckerInv, [CheckerNext]_checkerVars
  PROVE  /\ CheckerInv'
         /\ \A k \in Keys : Revived(mem[k], mem'[k]) => provider = "openrouter" /\ HasQuota(mem'[k])
<1>0. \A k \in Keys : ~Revived(mem[k], mem[k])
  BY DEF Revived
<1>1. CASE Dispatch
  <2>1. mem' = mem
    BY <1>1 DEF Dispatch, Pick, Hand, Halt, Join
  <2>. QED BY <1>0, <1>1, <2>1, DispatchTyped
<1>2. CASE Stop
  <2>1. /\ UNCHANGED <<clock, provider, mem, row, checked, disp, queue, work, failures>> /\ stopping' = TRUE
    BY <1>2 DEF Stop
  <2>. QED BY <1>0, <2>1 DEF CheckerInv, CheckerTypeOK
<1>3. ASSUME NEW w \in Workers, Step(w)
      PROVE  /\ CheckerInv'
             /\ \A k \in Keys : Revived(mem[k], mem'[k]) => provider = "openrouter" /\ HasQuota(mem'[k])
  <2>1. CASE TakeTask(w) \/ Exit(w)
    <3>1. mem' = mem
      BY <2>1 DEF TakeTask, Exit
    <3>. QED BY <1>0, <2>1, <3>1, TakeTyped, ExitTyped
  <2>2. CASE Trust(w) \/ Answers(w)
    BY <2>2, CheckEnds
  <2>. QED BY <1>3, <2>1, <2>2 DEF Step
<1>4. CASE \E k \in Keys, status \in Elsewhere \ {"active"} : CheckerElsewhere(k, status)
  BY <1>4, ElsewhereTyped
<1>5. CASE CheckerTick
  <2>1. /\ UNCHANGED <<provider, mem, row, checked, disp, queue, work, stopping, failures>>
        /\ clock' = clock + 1 /\ clock < MaxTime
    BY <1>5 DEF CheckerTick
  <2>2. clock' \in 0 .. MaxTime
    BY <2>1, CheckerFacts
  <2>. QED BY <1>0, <2>1, <2>2 DEF CheckerInv, CheckerTypeOK
<1>6. CASE UNCHANGED checkerVars
  BY <1>0, <1>6 DEF checkerVars, CheckerInv, CheckerTypeOK
<1>. QED BY <1>1, <1>2, <1>3, <1>4, <1>5, <1>6 DEF CheckerNext

-----------------------------------------------------------------------------
\* What the checker, its channel, its workers and the keys hold keeps to its type.
THEOREM CheckerTyped == CheckerSpec => []CheckerTypeOK
<1>1. CheckerInv /\ [CheckerNext]_checkerVars => CheckerInv'
  BY NextTyped
<1>2. CheckerInv => CheckerTypeOK
  BY DEF CheckerInv
<1>. QED BY <1>1, <1>2, InitTyped, PTL DEF CheckerSpec

\* An exhausted key comes back by a check only if OpenRouter says that it has
\* quota left, however old the answer is (checker.go, CheckKey).
THEOREM NoneRevived == CheckerSpec => ExhaustedHonoured
<1>1. CheckerInv /\ [CheckerNext]_checkerVars => CheckerInv'
  BY NextTyped
<1>2. CheckerInv /\ [CheckerNext]_checkerVars =>
        [\A k \in Keys :
           mem[k].status = "day_exhausted" /\ mem'[k].status = "active"
             => provider = "openrouter" /\ HasQuota(mem'[k])]_checkerVars
  BY NextTyped DEF Revived
<1>. QED BY <1>1, <1>2, InitTyped, PTL DEF CheckerSpec, ExhaustedHonoured

-----------------------------------------------------------------------------
(* The manual checks.                                                      *)

\* What is needed of the types: what the keys and counters are plays no part.
Shape ==
  /\ \E S : runs \in Seq(S)
  /\ \A j \in DOMAIN runs : "pc" \in DOMAIN runs[j]
  /\ "running" \in DOMAIN job
  /\ job.running \in BOOLEAN

\* The goroutine that s.cancel cancels is the only one alive, and it is as
\* long as the job runs.
Serial ==
  /\ cancel \in Alive \cup {0}
  /\ \A j \in Alive : j = cancel
  /\ job.running <=> cancel # 0

Service == Shape /\ Serial

-----------------------------------------------------------------------------
LEMMA RunsDomain == ASSUME Shape
                    PROVE  Len(runs) \in Nat /\ DOMAIN runs = 1 .. Len(runs)
  BY DEF Shape

\* A step that changes one goroutine's record, but does not end it.
LEMMA OneRunMoves ==
  ASSUME Service, NEW j \in DOMAIN runs, NEW r,
         runs' = [runs EXCEPT ![j] = r],
         "pc" \in DOMAIN r, r.pc = "over" <=> runs[j].pc = "over",
         cancel' = cancel, "running" \in DOMAIN job', job'.running = job.running
  PROVE  Service'
<1>1. PICK S : runs \in Seq(S)
  BY DEF Service, Shape
<1>2. runs \in Seq(S \cup {r})
  BY <1>1
<1>3. runs' \in Seq(S \cup {r})
  BY <1>2, ExceptSeq
<1>4. DOMAIN runs' = DOMAIN runs /\ \A i \in DOMAIN runs : runs'[i] = IF i = j THEN r ELSE runs[i]
  OBVIOUS
<1>5. Shape'
  BY <1>3, <1>4 DEF Service, Shape
<1>6. Alive' = Alive
  BY <1>4 DEF Alive
<1>. QED BY <1>5, <1>6 DEF Service, Serial

LEMMA RunEnds ==
  ASSUME Service, NEW j \in DOMAIN runs, Finish(j)
  PROVE  Service'
<1> DEFINE r == [runs[j] EXCEPT !.pc = "over"]
<1>1. /\ runs[j].pc = "loop" /\ runs' = [runs EXCEPT ![j] = r]
      /\ job' = [job EXCEPT !.running = FALSE] /\ cancel' = 0
  BY DEF Finish, At
<1>2. "pc" \in DOMAIN r /\ r.pc = "over"
  BY DEF Service, Shape
<1> HIDE DEF r
<1>3. PICK S : runs \in Seq(S)
  BY DEF Service, Shape
<1>4. runs' \in Seq(S \cup {r})
  BY <1>1, <1>3, ExceptSeq
<1>5. DOMAIN runs' = DOMAIN runs /\ \A i \in DOMAIN runs : runs'[i] = IF i = j THEN r ELSE runs[i]
  BY <1>1
<1>6. Shape'
  BY <1>1, <1>2, <1>4, <1>5 DEF Service, Shape
<1>7. Alive = {j}
  BY <1>1 DEF Service, Serial, Alive
<1>8. Alive' = {}
  BY <1>2, <1>5, <1>7 DEF Alive
<1>. QED BY <1>1, <1>6, <1>8 DEF Service, Serial, Shape

LEMMA RunBegins ==
  ASSUME Service, NEW mode, Start(mode)
  PROVE  Service'
<1>1. ~job.running /\ cancel = 0 /\ Alive = {}
  <2>1. Len(runs) \in Nat /\ DOMAIN runs = 1 .. Len(runs)
    BY RunsDomain DEF Service
  <2>. QED BY <2>1 DEF Start, Service, Serial, Alive
<1>2. CASE Enabled = {}
  <2>1. job' = NoJob /\ cancel' = 0 /\ runs' = runs
    BY <1>2 DEF Start, Launch
  <2>2. Alive' = Alive
    BY <2>1 DEF Alive
  <2>. QED BY <1>1, <2>1, <2>2 DEF Service, Shape, Serial, NoJob
<1>3. CASE Enabled # {}
  <2>0. PICK keys \in InPoolOrder : runs' = Append(runs, NewRun(mode, keys))
    BY <1>3 DEF Start, Launch
  <2> DEFINE r == NewRun(mode, keys)
  <2>1. /\ job' = [NoJob EXCEPT !.running = TRUE, !.total = Cardinality(Enabled)]
        /\ runs' = Append(runs, r)
        /\ cancel' = Len(runs) + 1
    BY <1>3, <2>0 DEF Start, Launch
  <2>2. "pc" \in DOMAIN r /\ r.pc = "loop"
    BY DEF NewRun
  <2>3. "running" \in DOMAIN job' /\ job'.running = TRUE
    BY <2>1 DEF NoJob
  <2> HIDE DEF r
  <2>4. PICK S : runs \in Seq(S)
    BY DEF Service, Shape
  <2>5. runs \in Seq(S \cup {r}) /\ r \in S \cup {r}
    BY <2>4
  <2>6. /\ runs' \in Seq(S \cup {r}) /\ Len(runs) \in Nat
        /\ DOMAIN runs = 1 .. Len(runs) /\ DOMAIN runs' = 1 .. Len(runs) + 1
        /\ \A i \in 1 .. Len(runs) : runs'[i] = runs[i]
        /\ runs'[Len(runs) + 1] = r
    BY <2>1, <2>5
  <2>7. Shape'
    <3>1. \A i \in DOMAIN runs : "pc" \in DOMAIN runs[i]
      BY DEF Service, Shape
    <3>2. \A i \in DOMAIN runs' : i \in DOMAIN runs \/ i = Len(runs) + 1
      BY <2>6
    <3>3. \A i \in DOMAIN runs' : "pc" \in DOMAIN runs'[i]
      BY <2>2, <2>6, <3>1, <3>2
    <3>. QED BY <2>3, <2>6, <3>3 DEF Shape
  <2>8. Alive' = {Len(runs) + 1}
    BY <1>1, <2>2, <2>6 DEF Alive
  <2>. QED BY <2>1, <2>3, <2>6, <2>7, <2>8 DEF Service, Serial
<1>. QED BY <1>2, <1>3

LEMMA RunSteps ==
  ASSUME Service, NEW j \in 1 .. MaxJobs, Run(j)
  PROVE  Service'
<1>1. j \in DOMAIN runs /\ runs[j].pc # "over" /\ "pc" \in DOMAIN runs[j]
  BY DEF Run, TakeKey, Send, Skip, Record, Finish, Receive, At, Service, Shape
<1>2. CASE TakeKey(j)
  <2> DEFINE r == [runs[j] EXCEPT !.pc = "send", !.before = mem[Key(j)].status]
  <2>1. runs' = [runs EXCEPT ![j] = r] /\ r.pc = "send" /\ "pc" \in DOMAIN r
    BY <1>1, <1>2 DEF TakeKey
  <2>2. cancel' = cancel /\ job' = job
    BY <1>2 DEF TakeKey
  <2> HIDE DEF r
  <2>. QED BY <1>1, <2>1, <2>2, OneRunMoves DEF Service, Shape
<1>3. CASE Send(j)
  <2> DEFINE r == [runs[j] EXCEPT !.pc = "wait", !.now = clock]
  <2>1. runs' = [runs EXCEPT ![j] = r] /\ r.pc = "wait" /\ "pc" \in DOMAIN r
    BY <1>1, <1>3 DEF Send
  <2>2. cancel' = cancel /\ job' = job
    BY <1>3 DEF Send
  <2> HIDE DEF r
  <2>. QED BY <1>1, <2>1, <2>2, OneRunMoves DEF Service, Shape
<1>4. CASE Skip(j)
  <2> DEFINE r == [runs[j] EXCEPT !.pc = "record"]
  <2>1. runs' = [runs EXCEPT ![j] = r] /\ r.pc = "record" /\ "pc" \in DOMAIN r
    BY <1>1, <1>4 DEF Skip
  <2>2. cancel' = cancel /\ job' = job
    BY <1>4 DEF Skip
  <2> HIDE DEF r
  <2>. QED BY <1>1, <2>1, <2>2, OneRunMoves DEF Service, Shape
<1>5. ASSUME NEW verdict, Receive(j, verdict) PROVE Service'
  <2> DEFINE r == [runs[j] EXCEPT !.pc = "record", !.now = 0]
  <2>1. runs' = [runs EXCEPT ![j] = r] /\ r.pc = "record" /\ "pc" \in DOMAIN r
    BY <1>1, <1>5 DEF Receive
  <2>2. cancel' = cancel /\ job' = job
    BY <1>5 DEF Receive
  <2> HIDE DEF r
  <2>. QED BY <1>1, <2>1, <2>2, OneRunMoves DEF Service, Shape
<1>6. CASE Record(j)
  <2> DEFINE r == [runs[j] EXCEPT !.pc = "loop", !.todo = Tail(@), !.before = "unchecked"]
  <2>1. runs' = [runs EXCEPT ![j] = r] /\ r.pc = "loop" /\ "pc" \in DOMAIN r
    BY <1>1, <1>6 DEF Record
  <2>2. cancel' = cancel /\ "running" \in DOMAIN job' /\ job'.running = job.running
    BY <1>6 DEF Record, Service, Shape
  <2> HIDE DEF r
  <2>. QED BY <1>1, <2>1, <2>2, OneRunMoves
<1>7. CASE Finish(j)
  BY <1>1, <1>7, RunEnds
<1>. QED BY <1>2, <1>3, <1>4, <1>5, <1>6, <1>7 DEF Run

LEMMA CancelReaches == ASSUME Service, Cancel PROVE Service'
<1> DEFINE r == [runs[cancel] EXCEPT !.cancelled = TRUE]
<1>1. cancel \in DOMAIN runs
  BY DEF Cancel, Service, Serial, Alive
<1>2. runs' = [runs EXCEPT ![cancel] = r] /\ r.pc = runs[cancel].pc /\ "pc" \in DOMAIN r
  BY <1>1 DEF Cancel, Service, Shape
<1>3. cancel' = cancel /\ job' = job
  BY DEF Cancel
<1> HIDE DEF r
<1>. QED BY <1>1, <1>2, <1>3, OneRunMoves DEF Service, Shape

LEMMA ServiceInv == ServiceSpec => []Service
<1>1. ServiceInit => Service
  <2> SUFFICES ASSUME ServiceInit PROVE Service
    OBVIOUS
  <2>1. runs = <<>> /\ cancel = 0 /\ job = NoJob
    BY DEF ServiceInit
  <2>2. runs \in Seq({}) /\ DOMAIN runs = {}
    BY <2>1
  <2>. QED BY <2>1, <2>2 DEF Service, Shape, Serial, Alive, NoJob
<1>2. Service /\ [ServiceNext]_serviceVars => Service'
  <2> SUFFICES ASSUME Service, [ServiceNext]_serviceVars PROVE Service'
    OBVIOUS
  <2>1. ASSUME NEW mode \in {"keys", "limits"}, Start(mode) PROVE Service'
    BY <2>1, RunBegins
  <2>2. CASE Cancel
    BY <2>2, CancelReaches
  <2>3. ASSUME NEW j \in 1 .. MaxJobs, Run(j) PROVE Service'
    BY <2>3, RunSteps
  <2>4. CASE (\E k \in Keys, status \in Elsewhere : ServiceElsewhere(k, status)) \/ ServiceTick \/ UNCHANGED serviceVars
    <3>1. UNCHANGED <<job, cancel, runs>>
      BY <2>4 DEF ServiceElsewhere, ServiceTick, serviceVars
    <3>. QED BY <3>1 DEF Service, Shape, Serial, Alive
  <2>. QED BY <2>1, <2>2, <2>3, <2>4 DEF ServiceNext
<1>. QED BY <1>1, <1>2, PTL DEF ServiceSpec

\* At most one goroutine checks keys, the job says that it runs exactly as
\* long as it does, and Cancel reaches it (service.go, Start, Cancel, run).
THEOREM OneJob == ServiceSpec => []OneJobAtATime
<1>1. Service => OneJobAtATime
  <2> SUFFICES ASSUME Service PROVE OneJobAtATime
    OBVIOUS
  <2>1. 0 \notin Alive
    BY RunsDomain DEF Service, Alive
  <2>. QED BY <2>1 DEF Service, Serial, OneJobAtATime
<1>. QED BY <1>1, ServiceInv, PTL

(***************************************************************************)
(* What a check does to the counters of a key.                             *)
(***************************************************************************)
\* q is k with another status or cooldown.
SameCounter(q, k) == /\ q \in KeyRec /\ q.maxLimit = k.maxLimit
                     /\ q.usage = k.usage /\ q.day = k.day

LEMMA CooledSame ==
  ASSUME NEW k \in KeyRec, NEW until \in Nat, NEW status \in Status \cup {""}
  PROVE  SameCounter(SetCooldown(k, until, status), k)
  BY SetCooldownFacts DEF SameCounter

LEMMA PausedSame ==
  ASSUME NEW k \in KeyRec, NEW now \in Nat
  PROVE  /\ SameCounter(SetCooldown(k, now + 5 * Minute, "rate_limited"), k)
         /\ SameCounter(SetCooldown(k, now + Minute, ""), k)
<1>1. now + 5 * Minute \in Nat /\ now + Minute \in Nat
  BY CheckAssumption
<1>2. "rate_limited" \in Status
  BY DEF Status
<1>. QED BY <1>1, <1>2, CooledSame

\* The answer about a key leaves its counter alone (CheckKey).
LEMMA VerifiedSame ==
  ASSUME NEW k \in KeyRec, NEW verdict \in Verdicts, NEW now \in Nat, NEW wall \in Nat
  PROVE  SameCounter(Verified(k, "aihubmix", verdict, NoRow, now, wall), k)
<1>1. ASSUME NEW status \in Status PROVE SameCounter([k EXCEPT !.status = status], k)
  BY DEF SameCounter, KeyRec
<1>2. SameCounter(k, k)
  BY DEF SameCounter
<1>3. CASE verdict = "200"
  <2>1. (IF k.status = "day_exhausted" THEN k.status ELSE "active") \in Status
    BY DEF KeyRec, Status
  <2>2. Verified(k, "aihubmix", verdict, NoRow, now, wall)
          = [k EXCEPT !.status = IF k.status = "day_exhausted" THEN k.status ELSE "active"]
    BY <1>3 DEF Verified
  <2>. QED BY <1>1, <2>1, <2>2
<1>4. CASE verdict = "401"
  BY <1>1, <1>4 DEF Verified, Status
<1>5. CASE verdict \in {"429", "other"}
  <2>1. \/ Verified(k, "aihubmix", verdict, NoRow, now, wall) = SetCooldown(k, now + 5 * Minute, "rate_limited")
        \/ Verified(k, "aihubmix", verdict, NoRow, now, wall) = SetCooldown(k, now + Minute, "")
    BY <1>5 DEF Verified
  <2>. QED BY <2>1, PausedSame
<1>6. CASE verdict = "network"
  <2>1. Verified(k, "aihubmix", verdict, NoRow, now, wall) = SetCooldown(k, wall + Minute, "")
    BY <1>6 DEF Verified
  <2>. QED BY <2>1, PausedSame
<1>7. CASE verdict \in {"cancelled", "garbled"}
  <2>1. Verified(k, "aihubmix", verdict, NoRow, now, wall) = k
    BY <1>7 DEF Verified
  <2>. QED BY <1>2, <2>1
<1>. QED BY <1>3, <1>4, <1>5, <1>6, <1>7 DEF Verdicts

\* q is k without the request that the probe has cost.
OneLess(q, k) == /\ q \in KeyRec /\ q.maxLimit = k.maxLimit /\ q.day = k.day
                 /\ q.usage = IF k.usage > 0 THEN k.usage - 1 ELSE 0

LEMMA UncountedLess == ASSUME NEW k \in KeyRec PROVE OneLess(Uncounted(k), k)
<1> DEFINE u == IF k.usage > 0 THEN k.usage - 1 ELSE k.usage
<1>1. u \in Nat /\ u = IF k.usage > 0 THEN k.usage - 1 ELSE 0
  BY DEF KeyRec
<1>2. Uncounted(k) = [k EXCEPT !.usage = u]
  BY DEF Uncounted
<1> HIDE DEF u
<1>. QED BY <1>1, <1>2 DEF KeyRec, OneLess

\* A probe that the provider did not serve is given back.
LEMMA RefundedLess ==
  ASSUME NEW k \in KeyRec, NEW now \in Nat, NEW verdict \in {"429", "other", "network", "cancelled"}
  PROVE  OneLess(Probed(k, verdict, now), k)
<1>1. OneLess(Uncounted(k), k) /\ OneLess(RollbackUsage(k), k)
  BY UncountedLess, RollbackFacts DEF OneLess
<1>2. ASSUME NEW q, OneLess(q, k)
      PROVE  /\ OneLess(SetCooldown(q, now + 5 * Minute, "rate_limited"), k)
             /\ OneLess(SetCooldown(q, now + Minute, ""), k)
  BY <1>2, PausedSame DEF OneLess, SameCounter
<1>3. \/ Probed(k, verdict, now) = SetCooldown(Uncounted(k), now + 5 * Minute, "rate_limited")
      \/ Probed(k, verdict, now) = SetCooldown(Uncounted(k), now + Minute, "")
      \/ Probed(k, verdict, now) = SetCooldown(RollbackUsage(k), now + Minute, "")
      \/ Probed(k, verdict, now) = RollbackUsage(k)
  BY DEF Probed
<1>. QED BY <1>1, <1>2, <1>3

\* One that it served is not, and one that it calls the last costs the whole limit.
LEMMA ServedKept ==
  ASSUME NEW k \in KeyRec, NEW now \in Nat
  PROVE  /\ SameCounter(Probed(k, "200", now), k) /\ SameCounter(Probed(k, "401", now), k)
         /\ Probed(k, "marker", now) \in KeyRec
         /\ Probed(k, "marker", now).maxLimit = k.maxLimit
         /\ Probed(k, "marker", now).usage = IF k.maxLimit > 0 THEN k.maxLimit ELSE k.usage
         /\ Probed(k, "marker", now).day = UTCDay(now)
<1>1. Probed(k, "marker", now) = MarkDayExhausted(k, UTCDay(now)) /\ UTCDay(now) \in Nat
  BY DayType DEF Probed
<1>2. SameCounter(Probed(k, "200", now), k) /\ SameCounter(Probed(k, "401", now), k)
  BY DEF Probed, SameCounter, KeyRec, Status
<1>. QED BY <1>1, <1>2, MarkFacts

(***************************************************************************)
(* Progress and charges.  The limit of a key is that of the pool, and on   *)
(* the first day every counter is of that day; a goroutine that is not at  *)
(* the top of its loop has a key in hand.                                  *)
(***************************************************************************)
Served ==
  /\ ServiceTypeOK
  /\ \A k \in Keys : mem[k].maxLimit = DailyLimit
  /\ Today = 0 => \A k \in Keys : mem[k].day = 0
  /\ \A j \in Alive : runs[j].pc # "loop" => runs[j].todo # <<>>
  /\ ProgressAddsUp
  /\ ProbesAccounted

\* Is r a probe of k that waits for its answer?
Waits(r, k) == r.pc = "wait" /\ r.mode = "limits" /\ Head(r.todo) = k

LEMMA SingleCount ==
  ASSUME NEW S, NEW j, S \subseteq {j}
  PROVE  Cardinality(S) = IF j \in S THEN 1 ELSE 0
<1>1. CASE j \in S
  <2>1. S = {j}
    BY <1>1
  <2>. QED BY <2>1, FS_Singleton
<1>2. CASE j \notin S
  <2>1. S = {}
    BY <1>2
  <2>. QED BY <2>1, FS_EmptySet
<1>. QED BY <1>1, <1>2

LEMMA ClockFacts == ASSUME ServiceTypeOK PROVE clock \in Nat /\ Today \in Nat
<1>1. clock \in Nat
  BY ServiceAssumption, CheckAssumption DEF ServiceTypeOK
<1>. QED BY <1>1, DayType DEF Today

\* A step that changes the record of the one goroutine that is alive.
LEMMA RunMoves ==
  ASSUME Service, Served, NEW j \in Alive, NEW r \in RunRec, runs' = [runs EXCEPT ![j] = r]
  PROVE  /\ runs' \in Seq(RunRec) /\ Len(runs') = Len(runs)
         /\ DOMAIN runs = 1 .. Len(runs) /\ DOMAIN runs' = 1 .. Len(runs)
         /\ runs'[j] = r /\ \A i \in DOMAIN runs : i # j => runs'[i] = runs[i]
         /\ Alive = {j} /\ j = cancel
         /\ Alive' = IF r.pc = "over" THEN {} ELSE {j}
         /\ \A k : Cardinality(InFlight(k)) = IF Waits(runs[j], k) THEN 1 ELSE 0
         /\ \A k : Cardinality(InFlight(k)') = IF Waits(r, k) THEN 1 ELSE 0
<1>1. runs \in Seq(RunRec) /\ Len(runs) \in Nat /\ DOMAIN runs = 1 .. Len(runs)
  BY DEF Served, ServiceTypeOK
<1>2. j \in DOMAIN runs /\ runs[j].pc # "over"
  BY DEF Alive
<1>3. /\ runs' \in Seq(RunRec) /\ Len(runs') = Len(runs) /\ DOMAIN runs' = 1 .. Len(runs)
      /\ runs'[j] = r /\ \A i \in DOMAIN runs : i # j => runs'[i] = runs[i]
  BY <1>1, <1>2, ExceptSeq
<1>4. Alive = {j} /\ j = cancel
  BY DEF Service, Serial
<1>5. Alive' = IF r.pc = "over" THEN {} ELSE {j}
  BY <1>1, <1>2, <1>3, <1>4 DEF Alive
<1>6. ASSUME NEW k PROVE Cardinality(InFlight(k)) = IF Waits(runs[j], k) THEN 1 ELSE 0
  <2>1. InFlight(k) \subseteq {j} /\ (j \in InFlight(k) <=> Waits(runs[j], k))
    BY <1>4 DEF InFlight, Waits, Key
  <2>. QED BY <2>1, SingleCount
<1>7. ASSUME NEW k PROVE Cardinality(InFlight(k)') = IF Waits(r, k) THEN 1 ELSE 0
  <2>1. InFlight(k)' \subseteq {j} /\ (j \in InFlight(k)' <=> Waits(r, k))
    BY <1>3, <1>5 DEF InFlight, Waits, Key
  <2>. QED BY <2>1, SingleCount
<1>. QED BY <1>1, <1>3, <1>4, <1>5, <1>6, <1>7

LEMMA ServedFacts ==
  ASSUME Service, Served, NEW j \in Alive
  PROVE  /\ j \in DOMAIN runs /\ runs[j] \in RunRec /\ runs[j].pc # "over"
         /\ job \in JobRec /\ job.completed + Len(runs[j].todo) = job.total
         /\ Classified(job) <= job.completed
         /\ runs[j].pc # "loop" => runs[j].todo # <<>>
         /\ runs[j].todo # <<>> => Key(j) \in Keys
<1>1. j \in DOMAIN runs /\ runs[j].pc # "over"
  BY DEF Alive
<1>2. runs[j] \in RunRec
  BY <1>1 DEF Served, ServiceTypeOK
<1>3. runs[j].todo # <<>> => Key(j) \in Keys
  BY <1>2 DEF RunRec, Key
<1>. QED BY <1>1, <1>2, <1>3 DEF Served, ServiceTypeOK, ProgressAddsUp

\* What a step of the goroutine has to see to.
LEMMA ServedAfter ==
  ASSUME Service, Served, NEW j \in Alive, NEW r \in RunRec, runs' = [runs EXCEPT ![j] = r],
         clock' = clock, cancel' \in {0, cancel},
         mem' \in [Keys -> KeyRec], row' \in [Keys -> RowRec], spent' \in [Keys -> Nat],
         \A k \in Keys : mem'[k].maxLimit = DailyLimit,
         Today = 0 => \A k \in Keys :
           /\ mem'[k].day = 0
           /\ mem'[k].usage = spent'[k] + (IF Waits(r, k) THEN 1 ELSE 0),
         job' \in JobRec, Classified(job') <= job'.completed,
         r.pc # "over" => job'.completed + Len(r.todo) = job'.total,
         r.pc \notin {"loop", "over"} => r.todo # <<>>,
         r.pc = "over" /\ ~r.cancelled => r.todo = <<>>
  PROVE  Served'
<1>1. /\ runs' \in Seq(RunRec) /\ Len(runs') = Len(runs)
      /\ DOMAIN runs = 1 .. Len(runs) /\ DOMAIN runs' = 1 .. Len(runs)
      /\ runs'[j] = r /\ \A i \in DOMAIN runs : i # j => runs'[i] = runs[i]
      /\ Alive = {j} /\ Alive' = IF r.pc = "over" THEN {} ELSE {j}
      /\ \A k : Cardinality(InFlight(k)') = IF Waits(r, k) THEN 1 ELSE 0
  BY RunMoves
<1>2. Today' = Today
  BY DEF Today
<1>3. ServiceTypeOK'
  BY <1>1 DEF Served, ServiceTypeOK
<1>4. \A i \in Alive' : runs'[i].pc # "loop" => runs'[i].todo # <<>>
  BY <1>1
<1>5. ProgressAddsUp'
  <2>1. \A i \in Alive' : job'.completed + Len(runs'[i].todo) = job'.total
    BY <1>1
  <2>2. ASSUME NEW i \in DOMAIN runs', i = Len(runs'), i \notin Alive', ~runs'[i].cancelled
        PROVE  runs'[i].todo = <<>>
    <3>1. CASE i = j
      BY <1>1, <2>2, <3>1
    <3>2. CASE i # j
      BY <1>1, <2>2, <3>2 DEF Served, ProgressAddsUp
    <3>. QED BY <3>1, <3>2
  <2>. QED BY <2>1, <2>2 DEF ProgressAddsUp, Classified
<1>6. ProbesAccounted'
  BY <1>1, <1>2 DEF ProbesAccounted
<1>. QED BY <1>2, <1>3, <1>4, <1>5, <1>6 DEF Served

\* A step that touches no key: the probe on its way, if any, stays the same.
LEMMA QuietStep ==
  ASSUME Service, Served, NEW j \in Alive, NEW r \in RunRec, runs' = [runs EXCEPT ![j] = r],
         UNCHANGED <<clock, mem, row, spent>>, cancel' \in {0, cancel},
         \A k : Waits(r, k) <=> Waits(runs[j], k),
         job' \in JobRec, Classified(job') <= job'.completed,
         r.pc # "over" => job'.completed + Len(r.todo) = job'.total,
         r.pc \notin {"loop", "over"} => r.todo # <<>>,
         r.pc = "over" /\ ~r.cancelled => r.todo = <<>>
  PROVE  Served'
<1>1. \A k : Cardinality(InFlight(k)) = IF Waits(runs[j], k) THEN 1 ELSE 0
  BY RunMoves
<1>2. Today = 0 => \A k \in Keys :
        mem[k].day = 0 /\ mem[k].usage = spent[k] + (IF Waits(r, k) THEN 1 ELSE 0)
  BY <1>1 DEF Served, ProbesAccounted
<1>. QED BY <1>2, ServedAfter DEF Served, ServiceTypeOK

LEMMA TakeServed == ASSUME Service, Served, NEW j \in Alive, TakeKey(j) PROVE Served'
<1> DEFINE r == [runs[j] EXCEPT !.pc = "send", !.before = mem[Key(j)].status]
<1>0. /\ runs' = [runs EXCEPT ![j] = r] /\ UNCHANGED <<clock, mem, row, job, cancel, spent>>
      /\ runs[j].pc = "loop" /\ runs[j].todo # <<>>
  BY DEF TakeKey, At, Ends
<1>1. mem[Key(j)].status \in Status
  BY <1>0, ServedFacts DEF Served, ServiceTypeOK, KeyRec
<1>2. r \in RunRec /\ r.pc = "send" /\ r.todo = runs[j].todo
  BY <1>1, ServedFacts DEF RunRec
<1> HIDE DEF r
<1>3. \A k : ~Waits(r, k) /\ ~Waits(runs[j], k)
  BY <1>0, <1>2 DEF Waits
<1>. QED BY <1>0, <1>2, <1>3, ServedFacts, QuietStep

LEMMA SkipServed == ASSUME Service, Served, NEW j \in Alive, Skip(j) PROVE Served'
<1> DEFINE r == [runs[j] EXCEPT !.pc = "record"]
<1>0. /\ runs' = [runs EXCEPT ![j] = r] /\ UNCHANGED <<clock, mem, row, job, cancel, spent>>
      /\ runs[j].pc = "send"
  BY DEF Skip, At
<1>2. r \in RunRec /\ r.pc = "record" /\ r.todo = runs[j].todo
  BY ServedFacts DEF RunRec
<1> HIDE DEF r
<1>3. \A k : ~Waits(r, k) /\ ~Waits(runs[j], k)
  BY <1>0, <1>2 DEF Waits
<1>. QED BY <1>0, <1>2, <1>3, ServedFacts, QuietStep

LEMMA FinishServed == ASSUME Service, Served, NEW j \in Alive, Finish(j) PROVE Served'
<1> DEFINE r == [runs[j] EXCEPT !.pc = "over"]
<1>0. /\ runs' = [runs EXCEPT ![j] = r] /\ UNCHANGED <<clock, mem, row, spent>>
      /\ job' = [job EXCEPT !.running = FALSE] /\ cancel' = 0
      /\ runs[j].pc = "loop" /\ (runs[j].todo = <<>> \/ runs[j].cancelled)
  BY DEF Finish, At, Ends
<1>1. job' \in JobRec /\ Classified(job') <= job'.completed
  BY <1>0, ServedFacts DEF JobRec, Classified
<1>2. r \in RunRec /\ r.pc = "over" /\ r.todo = runs[j].todo /\ r.cancelled = runs[j].cancelled
  BY ServedFacts DEF RunRec
<1> HIDE DEF r
<1>3. \A k : ~Waits(r, k) /\ ~Waits(runs[j], k)
  BY <1>0, <1>2 DEF Waits
<1>. QED BY <1>0, <1>1, <1>2, <1>3, QuietStep

\* Each key is counted in one class at most.
LEMMA RecordServed == ASSUME Service, Served, NEW j \in Alive, Record(j) PROVE Served'
<1> DEFINE r == [runs[j] EXCEPT !.pc = "loop", !.todo = Tail(@), !.before = "unchecked"]
           count == [s \in Counters |-> job.count[s] + IF s \in Class(j) THEN 1 ELSE 0]
<1>0. /\ runs' = [runs EXCEPT ![j] = r] /\ UNCHANGED <<clock, mem, row, cancel, spent>>
      /\ job' = [job EXCEPT !.completed = @ + 1, !.count = count]
      /\ runs[j].pc = "record"
  BY DEF Record, At
<1>1. runs[j].todo # <<>> /\ runs[j].todo \in Seq(Keys)
  BY <1>0, ServedFacts DEF RunRec
<1>2. /\ Tail(runs[j].todo) \in Seq(Keys) /\ Len(Tail(runs[j].todo)) = Len(runs[j].todo) - 1
      /\ Len(runs[j].todo) \in Nat
  BY <1>1
<1>3. r \in RunRec /\ r.pc = "loop" /\ r.todo = Tail(runs[j].todo)
  BY <1>2, ServedFacts DEF RunRec, Status
<1>4. job.count \in [Counters -> Nat] /\ job.completed \in Nat /\ job.total \in Nat
  BY ServedFacts DEF JobRec
<1>5. \A s, t \in Class(j) : s = t
  BY DEF Class
<1>6. count \in [Counters -> Nat] /\ \A s \in Counters : count[s] = job.count[s] + IF s \in Class(j) THEN 1 ELSE 0
  BY <1>4
<1> HIDE DEF r, count
<1>7. /\ job' \in JobRec /\ job'.completed = job.completed + 1 /\ job'.total = job.total
      /\ job'.count = count
  <2>1. job \in JobRec
    BY ServedFacts
  <2>2. job' = [job EXCEPT !.completed = job.completed + 1, !.count = count]
    BY <1>0
  <2>3. ASSUME NEW c \in Nat, NEW x \in [Counters -> Nat]
        PROVE  LET n == [job EXCEPT !.completed = c, !.count = x]
               IN  n \in JobRec /\ n.completed = c /\ n.total = job.total /\ n.count = x
    BY <2>1 DEF JobRec
  <2>4. job.completed + 1 \in Nat
    BY <1>4
  <2>. QED BY <1>6, <2>2, <2>3, <2>4
<1>8. Classified(job') <= Classified(job) + 1
  <2>1. /\ count["active"] = job.count["active"] + IF "active" \in Class(j) THEN 1 ELSE 0
        /\ count["invalid"] = job.count["invalid"] + IF "invalid" \in Class(j) THEN 1 ELSE 0
        /\ count["day_exhausted"] = job.count["day_exhausted"] + IF "day_exhausted" \in Class(j) THEN 1 ELSE 0
        /\ count["rate_limited"] = job.count["rate_limited"] + IF "rate_limited" \in Class(j) THEN 1 ELSE 0
        /\ count["errors"] = job.count["errors"] + IF "errors" \in Class(j) THEN 1 ELSE 0
    BY <1>6 DEF Counters
  <2>2. /\ job.count["active"] \in Nat /\ job.count["invalid"] \in Nat /\ job.count["day_exhausted"] \in Nat
        /\ job.count["rate_limited"] \in Nat /\ job.count["errors"] \in Nat
    BY <1>4 DEF Counters
  <2>. QED BY <1>5, <1>7, <2>1, <2>2 DEF Classified
<1>9. Classified(job') <= job'.completed
  <2>1. Classified(job) \in Nat /\ Classified(job') \in Nat
    BY <1>4, <1>6, <1>7 DEF Classified, Counters
  <2>. QED BY <1>4, <1>7, <1>8, <2>1, ServedFacts
<1>10. \A k : ~Waits(r, k) /\ ~Waits(runs[j], k)
  BY <1>0, <1>3 DEF Waits
<1>11. job'.completed + Len(r.todo) = job'.total
  BY <1>2, <1>3, <1>4, <1>7, ServedFacts
<1>. QED BY <1>0, <1>3, <1>7, <1>9, <1>10, <1>11, QuietStep

\* A probe is charged before it is sent.
LEMMA SendServed == ASSUME Service, Served, NEW j \in Alive, Send(j) PROVE Served'
<1> DEFINE r == [runs[j] EXCEPT !.pc = "wait", !.now = clock]
<1>0. /\ runs' = [runs EXCEPT ![j] = r] /\ UNCHANGED <<clock, job, cancel, spent>>
      /\ runs[j].pc = "send"
  BY DEF Send, At
<1>1. clock \in Nat /\ Today \in Nat
  BY ClockFacts DEF Served
<1>2. r \in RunRec /\ r.pc = "wait" /\ r.todo = runs[j].todo /\ r.mode = runs[j].mode
  BY <1>1, ServedFacts DEF RunRec
<1> HIDE DEF r
<1>3. runs[j].todo # <<>> /\ Key(j) \in Keys
  BY <1>0, ServedFacts
<1>4. CASE runs[j].mode = "keys"
  <2>1. UNCHANGED <<mem, row>>
    BY <1>4 DEF Send
  <2>2. \A k : ~Waits(r, k) /\ ~Waits(runs[j], k)
    BY <1>0, <1>2, <1>4 DEF Waits
  <2>. QED BY <1>0, <1>2, <1>3, <2>1, <2>2, ServedFacts, QuietStep
<1>5. CASE runs[j].mode # "keys"
  <2> DEFINE k == Key(j)
             q == Register(mem[k], clock, Today)
  <2>1. mem' = [mem EXCEPT ![k] = q] /\ row' = [row EXCEPT ![k] = ToDB(q)]
    BY <1>5 DEF Send
  <2>2. mem[k] \in KeyRec
    BY <1>3 DEF Served, ServiceTypeOK
  <2>3. /\ q \in KeyRec /\ q.maxLimit = mem[k].maxLimit /\ q.day = Today
        /\ q.usage = 1 + (IF mem[k].day = Today THEN mem[k].usage ELSE 0)
    BY <1>1, <2>2, RegisterFacts DEF Today
  <2> HIDE DEF q
  <2>4. ToDB(q) \in RowRec
    BY <2>3, ToDBFacts
  <2>5. mem' \in [Keys -> KeyRec] /\ row' \in [Keys -> RowRec]
    BY <1>3, <2>1, <2>3, <2>4 DEF Served, ServiceTypeOK
  <2>6. \A i \in Keys : mem'[i] = IF i = k THEN q ELSE mem[i]
    BY <1>3, <2>1 DEF Served, ServiceTypeOK
  <2>7. \A i \in Keys : mem'[i].maxLimit = DailyLimit
    BY <2>3, <2>6 DEF Served
  <2>8. runs[j].mode = "limits"
    BY <1>5, ServedFacts DEF RunRec
  <2>9. \A i : (Waits(r, i) <=> i = k) /\ ~Waits(runs[j], i)
    BY <1>0, <1>2, <2>8 DEF Waits, Key
  <2>10. ASSUME Today = 0, NEW i \in Keys
         PROVE  mem'[i].day = 0 /\ mem'[i].usage = spent'[i] + (IF Waits(r, i) THEN 1 ELSE 0)
    <3>0. Cardinality(InFlight(i)) = IF Waits(runs[j], i) THEN 1 ELSE 0
      BY <1>0, <1>2, RunMoves
    <3>1. mem[i].usage = spent[i] + 0 /\ mem[i].day = 0
      BY <2>9, <2>10, <3>0 DEF Served, ProbesAccounted
    <3>2. mem[i].usage \in Nat /\ spent[i] \in Nat
      BY DEF Served, ServiceTypeOK, KeyRec
    <3>. QED BY <1>0, <2>3, <2>6, <2>9, <2>10, <3>1, <3>2
  <2>11. spent' \in [Keys -> Nat]
    BY <1>0 DEF Served, ServiceTypeOK
  <2>. QED BY <1>0, <1>2, <1>3, <2>5, <2>7, <2>10, <2>11, ServedFacts, ServedAfter
<1>. QED BY <1>4, <1>5

\* The provider answers about the key: its counter is left alone.
LEMMA KeyAnswerServed ==
  ASSUME Service, Served, NEW j \in Alive, NEW verdict, Receive(j, verdict), runs[j].mode = "keys"
  PROVE  Served'
<1> DEFINE r == [runs[j] EXCEPT !.pc = "record", !.now = 0]
           k == Key(j)
           q == Verified(mem[k], "aihubmix", verdict, NoRow, runs[j].now, clock)
<1>0. /\ runs' = [runs EXCEPT ![j] = r] /\ UNCHANGED <<clock, job, cancel, spent>>
      /\ runs[j].pc = "wait" /\ verdict \in Verdicts
      /\ mem' = [mem EXCEPT ![k] = q]
      /\ row' = row \/ row' = [row EXCEPT ![k] = ToDB(q)]
  BY DEF Receive, At, Put
<1>1. clock \in Nat /\ runs[j].now \in Nat
  BY ClockFacts, ServedFacts DEF Served, RunRec
<1>2. r \in RunRec /\ r.pc = "record" /\ r.todo = runs[j].todo
  BY ServedFacts DEF RunRec
<1> HIDE DEF r
<1>3. runs[j].todo # <<>> /\ k \in Keys
  BY <1>0, ServedFacts
<1>4. mem[k] \in KeyRec
  BY <1>3 DEF Served, ServiceTypeOK
<1>5. SameCounter(q, mem[k])
  BY <1>0, <1>1, <1>4, VerifiedSame
<1> HIDE DEF q
<1>6. q \in KeyRec /\ ToDB(q) \in RowRec
  BY <1>5, ToDBFacts DEF SameCounter
<1>7. mem' \in [Keys -> KeyRec] /\ row' \in [Keys -> RowRec] /\ spent' \in [Keys -> Nat]
  BY <1>0, <1>3, <1>6 DEF Served, ServiceTypeOK
<1>8. \A i \in Keys : mem'[i].maxLimit = mem[i].maxLimit /\ mem'[i].usage = mem[i].usage
                      /\ mem'[i].day = mem[i].day
  BY <1>0, <1>3, <1>5 DEF Served, ServiceTypeOK, SameCounter
<1>9. \A i : ~Waits(r, i) /\ ~Waits(runs[j], i)
  BY <1>2 DEF Waits
<1>10. ASSUME Today = 0, NEW i \in Keys
       PROVE  mem'[i].day = 0 /\ mem'[i].usage = spent'[i] + (IF Waits(r, i) THEN 1 ELSE 0)
  <2>1. Cardinality(InFlight(i)) = IF Waits(runs[j], i) THEN 1 ELSE 0
    BY <1>0, <1>2, RunMoves
  <2>. QED BY <1>0, <1>8, <1>9, <1>10, <2>1 DEF Served, ProbesAccounted
<1>11. \A i \in Keys : mem'[i].maxLimit = DailyLimit
  BY <1>8 DEF Served
<1>. QED BY <1>0, <1>2, <1>3, <1>7, <1>10, <1>11, ServedFacts, ServedAfter

\* The provider answers a probe.
LEMMA ProbeAnswerServed ==
  ASSUME Service, Served, NEW j \in Alive, NEW verdict, Receive(j, verdict), runs[j].mode = "limits"
  PROVE  Served'
<1> DEFINE r == [runs[j] EXCEPT !.pc = "record", !.now = 0]
           k == Key(j)
           q == Probed(mem[k], verdict, clock)
           s == CASE verdict \in {"200", "401"} -> spent[k] + 1
                  [] verdict = "marker"         -> Exhausting(spent[k] + 1, 0)
                  [] OTHER                      -> spent[k]
<1>0. /\ runs' = [runs EXCEPT ![j] = r] /\ UNCHANGED <<clock, job, cancel>>
      /\ runs[j].pc = "wait" /\ verdict \in LimitVerdicts
      /\ mem' = [mem EXCEPT ![k] = q]
      /\ row' = [row EXCEPT ![k] = ToDB(q)]
  BY DEF Receive, At, Put
<1>1. clock \in Nat /\ Today \in Nat
  BY ClockFacts DEF Served
<1>2. r \in RunRec /\ r.pc = "record" /\ r.todo = runs[j].todo
  BY ServedFacts DEF RunRec
<1> HIDE DEF r
<1>3. runs[j].todo # <<>> /\ k \in Keys
  BY <1>0, ServedFacts
<1>4. mem[k] \in KeyRec /\ spent[k] \in Nat /\ spent \in [Keys -> Nat] /\ mem[k].maxLimit = DailyLimit
  BY <1>3 DEF Served, ServiceTypeOK
<1>5. spent' = [spent EXCEPT ![k] = s]
  BY DEF Receive
<1>6. s \in Nat
  BY <1>4, ServiceAssumption, CheckAssumption DEF Exhausting
<1>s. verdict \in {"200", "401"} => SameCounter(q, mem[k])
  <2>1. /\ SameCounter(Probed(mem[k], "200", clock), mem[k])
        /\ SameCounter(Probed(mem[k], "401", clock), mem[k])
    BY <1>1, <1>4, ServedKept
  <2>. QED BY <2>1
<1>7. q \in KeyRec /\ q.maxLimit = DailyLimit
  <2>0. CASE verdict \in {"200", "401"}
    BY <1>4, <1>s, <2>0 DEF SameCounter
  <2>1. CASE verdict = "marker"
    BY <1>1, <1>4, <2>1, ServedKept
  <2>2. CASE verdict \in {"429", "other", "network", "cancelled"}
    BY <1>1, <1>4, <2>2, RefundedLess DEF OneLess
  <2>. QED BY <1>0, <2>0, <2>1, <2>2 DEF LimitVerdicts
<1>8. ASSUME Today = 0, mem[k].day = 0, mem[k].usage = spent[k] + 1 PROVE q.day = 0 /\ q.usage = s
  <2>1. CASE verdict \in {"200", "401"}
    <3>1. SameCounter(q, mem[k]) /\ s = spent[k] + 1
      BY <1>s, <2>1
    <3>. QED BY <1>8, <3>1 DEF SameCounter
  <2>2. CASE verdict = "marker"
    <3>1. q.day = 0 /\ q.usage = IF DailyLimit > 0 THEN DailyLimit ELSE spent[k] + 1
      BY <1>1, <1>4, <1>8, <2>2, ServedKept DEF Today
    <3>2. s = Exhausting(spent[k] + 1, 0)
      BY <2>2
    <3>. QED BY <3>1, <3>2, ServiceAssumption, CheckAssumption DEF Exhausting
  <2>3. CASE verdict \in {"429", "other", "network", "cancelled"}
    <3>1. OneLess(q, mem[k]) /\ s = spent[k]
      BY <1>1, <1>4, <2>3, RefundedLess
    <3>. QED BY <1>4, <1>8, <3>1 DEF OneLess
  <2>. QED BY <1>0, <2>1, <2>2, <2>3 DEF LimitVerdicts
<1> HIDE DEF q, s
<1>9. ToDB(q) \in RowRec
  BY <1>7, ToDBFacts
<1>10. mem' \in [Keys -> KeyRec] /\ row' \in [Keys -> RowRec] /\ spent' \in [Keys -> Nat]
  BY <1>0, <1>3, <1>5, <1>6, <1>7, <1>9 DEF Served, ServiceTypeOK
<1>11. \A i \in Keys : /\ mem'[i] = IF i = k THEN q ELSE mem[i]
                       /\ spent'[i] = IF i = k THEN s ELSE spent[i]
  BY <1>0, <1>3, <1>5 DEF Served, ServiceTypeOK
<1>12. \A i \in Keys : mem'[i].maxLimit = DailyLimit
  BY <1>7, <1>11 DEF Served
<1>13. \A i : ~Waits(r, i) /\ (Waits(runs[j], i) <=> i = k)
  BY <1>0, <1>2 DEF Waits, Key
<1>14. ASSUME Today = 0, NEW i \in Keys
       PROVE  mem'[i].day = 0 /\ mem'[i].usage = spent'[i] + (IF Waits(r, i) THEN 1 ELSE 0)
  <2>1. Cardinality(InFlight(i)) = IF Waits(runs[j], i) THEN 1 ELSE 0
    BY <1>0, <1>2, RunMoves
  <2>2. mem[i].day = 0 /\ mem[i].usage = spent[i] + (IF i = k THEN 1 ELSE 0)
    BY <1>13, <1>14, <2>1 DEF Served, ProbesAccounted
  <2>3. CASE i = k
    BY <1>6, <1>8, <1>11, <1>13, <1>14, <2>2, <2>3
  <2>4. CASE i # k
    BY <1>11, <1>13, <2>2, <2>4
  <2>. QED BY <2>3, <2>4
<1>. QED BY <1>0, <1>2, <1>3, <1>10, <1>12, <1>14, ServedFacts, ServedAfter

LEMMA RunServed == ASSUME Service, Served, NEW j \in 1 .. MaxJobs, Run(j) PROVE Served'
<1>1. j \in Alive
  BY DEF Run, TakeKey, Send, Skip, Record, Finish, Receive, At, Alive
<1>2. ASSUME NEW verdict, Receive(j, verdict) PROVE Served'
  <2>1. runs[j].mode \in {"keys", "limits"}
    BY <1>2 DEF Receive
  <2>. QED BY <1>1, <1>2, <2>1, KeyAnswerServed, ProbeAnswerServed
<1>. QED BY <1>1, <1>2, TakeServed, SendServed, SkipServed, RecordServed, FinishServed DEF Run

LEMMA CancelServed == ASSUME Service, Served, Cancel PROVE Served'
<1> DEFINE r == [runs[cancel] EXCEPT !.cancelled = TRUE]
<1>0. /\ runs' = [runs EXCEPT ![cancel] = r] /\ UNCHANGED <<clock, mem, row, job, cancel, spent>>
  BY DEF Cancel
<1>1. cancel \in Alive
  BY DEF Cancel, Service, Serial
<1>2. r \in RunRec /\ r.pc = runs[cancel].pc /\ r.todo = runs[cancel].todo /\ r.mode = runs[cancel].mode
  BY <1>1, ServedFacts DEF RunRec
<1>3. PICK j \in Alive : j = cancel
  BY <1>1
<1> HIDE DEF r
<1>4. \A k : Waits(r, k) <=> Waits(runs[cancel], k)
  BY <1>2 DEF Waits
<1>. QED BY <1>0, <1>2, <1>3, <1>4, ServedFacts, QuietStep

\* A new job begins with nothing done and as many keys as there are to do.
LEMMA StartServed ==
  ASSUME Service, Served, NEW mode \in {"keys", "limits"}, Start(mode)
  PROVE  Served'
<1>0. Alive = {} /\ UNCHANGED <<clock, mem, row, spent>>
  <2>1. cancel = 0 /\ Alive \subseteq {0}
    BY DEF Start, Service, Serial
  <2>2. 0 \notin Alive
    BY RunsDomain DEF Service, Alive
  <2>. QED BY <2>1, <2>2 DEF Start
<1>1. runs \in Seq(RunRec) /\ Len(runs) \in Nat /\ DOMAIN runs = 1 .. Len(runs)
  BY DEF Served, ServiceTypeOK
<1>2. Classified(NoJob) = 0 /\ NoJob \in JobRec /\ NoJob.completed = 0
  BY DEF NoJob, Classified, Counters, JobRec
<1>3. CASE Enabled = {}
  <2>1. job' = NoJob /\ cancel' = 0 /\ runs' = runs
    BY <1>3 DEF Start, Launch
  <2>2. Alive' = {}
    BY <1>0, <2>1 DEF Alive
  <2>3. ServiceTypeOK'
    BY <1>0, <1>1, <1>2, <2>1 DEF Served, ServiceTypeOK
  <2>4. ProgressAddsUp'
    BY <1>0, <1>2, <2>1, <2>2 DEF Served, ProgressAddsUp, Classified
  <2>5. ProbesAccounted'
    BY <1>0, <2>1, <2>2 DEF Served, ProbesAccounted, Today, InFlight
  <2>. QED BY <1>0, <2>2, <2>3, <2>4, <2>5 DEF Served, Today
<1>4. CASE Enabled # {}
  <2>0. PICK keys \in InPoolOrder : runs' = Append(runs, NewRun(mode, keys))
    BY <1>4 DEF Start, Launch
  <2> DEFINE r == NewRun(mode, keys)
             n == Cardinality(Enabled)
  <2>1. job' = [NoJob EXCEPT !.running = TRUE, !.total = n] /\ cancel' = Len(runs) + 1
    BY <1>4 DEF Start, Launch
  <2>2. n \in Nat /\ keys \in Seq(Keys) /\ Len(keys) = n
    <3>1. IsFiniteSet(Enabled) /\ Enabled \subseteq Keys
      BY ServiceAssumption, CheckAssumption, FS_Subset DEF Enabled
    <3>2. n \in Nat
      BY <3>1, FS_CardinalityType
    <3>3. keys \in [1 .. n -> Keys]
      BY <3>1 DEF InPoolOrder
    <3> HIDE DEF n
    <3>. QED BY <3>2, <3>3
  <2> HIDE DEF n
  <2>3. r \in RunRec /\ r.pc = "loop" /\ r.todo = keys
    BY <2>2 DEF NewRun, RunRec, Status
  <2>4. runs' = Append(runs, r)
    BY <2>0
  <2> HIDE DEF r
  <2>5. /\ runs' \in Seq(RunRec) /\ Len(runs') = Len(runs) + 1
        /\ DOMAIN runs' = 1 .. Len(runs) + 1 /\ runs'[Len(runs) + 1] = r
        /\ \A i \in 1 .. Len(runs) : runs'[i] = runs[i]
    BY <1>1, <2>3, <2>4
  <2>6. Alive' = {Len(runs) + 1}
    BY <1>0, <1>1, <2>3, <2>5 DEF Alive
  <2>7. /\ job' \in JobRec /\ job'.completed = 0 /\ job'.total = n /\ job'.count = NoJob.count
    BY <1>2, <2>1, <2>2 DEF JobRec, NoJob
  <2>8. Classified(job') <= job'.completed
    BY <1>2, <2>7 DEF Classified
  <2>9. ServiceTypeOK'
    <3>1. Len(runs') <= MaxJobs
      BY <1>1, <2>5, ServiceAssumption, CheckAssumption DEF Start
    <3>2. cancel' \in 0 .. Len(runs')
      BY <1>1, <2>1, <2>5
    <3>. QED BY <1>0, <2>5, <2>7, <3>1, <3>2 DEF Served, ServiceTypeOK
  <2>10. ProgressAddsUp'
    <3>1. \A i \in Alive' : job'.completed + Len(runs'[i].todo) = job'.total
      BY <2>2, <2>3, <2>5, <2>6, <2>7
    <3>. QED BY <2>5, <2>6, <2>8, <3>1 DEF ProgressAddsUp, Classified
  <2>11. \A k : InFlight(k) = {} /\ InFlight(k)' = {}
    BY <1>0, <2>3, <2>5, <2>6 DEF InFlight
  <2>12. ProbesAccounted'
    BY <1>0, <2>11 DEF Served, ProbesAccounted, Today
  <2>. QED BY <1>0, <2>3, <2>5, <2>6, <2>9, <2>10, <2>12 DEF Served, Today
<1>. QED BY <1>3, <1>4

\* Others change a key: its counter, too, when they declare it exhausted.
LEMMA ElsewhereServed ==
  ASSUME Service, Served, NEW k \in Keys, NEW status \in Elsewhere, ServiceElsewhere(k, status)
  PROVE  Served'
<1> DEFINE q == SetStatus(mem[k], status, Today)
           s == IF status = "day_exhausted" THEN Exhausting(spent[k], Cardinality(InFlight(k))) ELSE spent[k]
<1>0. /\ UNCHANGED <<clock, job, cancel, runs>>
      /\ mem' = [mem EXCEPT ![k] = q] /\ row' = [row EXCEPT ![k] = ToDB(q)]
      /\ spent' = [spent EXCEPT ![k] = s]
  BY DEF ServiceElsewhere, Put
<1>1. clock \in Nat /\ Today \in Nat /\ Today' = Today
  BY <1>0, ClockFacts DEF Served, Today
<1>2. /\ mem[k] \in KeyRec /\ mem[k].usage \in Nat /\ spent[k] \in Nat /\ mem[k].maxLimit = DailyLimit
  BY DEF Served, ServiceTypeOK, KeyRec
<1>3. /\ q \in KeyRec /\ q.maxLimit = DailyLimit /\ q.day = Today
      /\ q.usage = IF status = "day_exhausted" /\ DailyLimit > 0 THEN DailyLimit
                   ELSE IF mem[k].day = Today THEN mem[k].usage ELSE 0
  <2>1. status \in Status
    BY ServiceAssumption, CheckAssumption
  <2>. QED BY <1>1, <1>2, <2>1, AnyStatusFacts
<1>4. Cardinality(InFlight(k)) \in 0 .. 1
  <2>1. InFlight(k) \subseteq {cancel}
    BY DEF InFlight, Service, Serial
  <2>. QED BY <2>1, SingleCount
<1>5. s \in Nat
  BY <1>2, <1>4, ServiceAssumption, CheckAssumption DEF Exhausting
<1>6. Today = 0 => q.day = 0 /\ q.usage = s + Cardinality(InFlight(k))
  <2> SUFFICES ASSUME Today = 0 PROVE q.day = 0 /\ q.usage = s + Cardinality(InFlight(k))
    OBVIOUS
  <2>1. mem[k].day = 0 /\ mem[k].usage = spent[k] + Cardinality(InFlight(k))
    BY DEF Served, ProbesAccounted
  <2>. QED BY <1>2, <1>3, <1>4, <2>1, ServiceAssumption, CheckAssumption DEF Exhausting
<1>7. ToDB(q) \in RowRec
  BY <1>3, ToDBFacts
<1> HIDE DEF q, s
<1>8. /\ \A i \in Keys : mem'[i] = IF i = k THEN q ELSE mem[i]
      /\ \A i \in Keys : spent'[i] = IF i = k THEN s ELSE spent[i]
  BY <1>0 DEF Served, ServiceTypeOK
<1>9. ServiceTypeOK'
  BY <1>0, <1>3, <1>5, <1>7 DEF Served, ServiceTypeOK
<1>10. Alive' = Alive /\ \A i : InFlight(i)' = InFlight(i)
  BY <1>0 DEF Alive, InFlight, Key
<1>11. ProgressAddsUp'
  BY <1>0, <1>10 DEF Served, ProgressAddsUp, Classified
<1>12. ProbesAccounted'
  BY <1>1, <1>6, <1>8, <1>10 DEF Served, ProbesAccounted
<1>13. \A i \in Keys : mem'[i].maxLimit = DailyLimit
  BY <1>3, <1>8 DEF Served
<1>14. Today' = 0 => \A i \in Keys : mem'[i].day = 0
  BY <1>1, <1>6, <1>8 DEF Served
<1>. QED BY <1>0, <1>9, <1>10, <1>11, <1>12, <1>13, <1>14 DEF Served

LEMMA TickServed == ASSUME Service, Served, ServiceTick PROVE Served'
<1>0. UNCHANGED <<mem, row, job, cancel, runs, spent>> /\ clock' = clock + 1 /\ clock < MaxTime
  BY DEF ServiceTick
<1>1. Today' = 0 => Today = 0
  <2>1. clock \in Nat /\ DayLength \in Nat \ {0}
    BY ClockFacts, TimeAssumption DEF Served
  <2>2. (clock + 1) \div DayLength = 0 => clock \div DayLength = 0
    BY <2>1, Z3
  <2>. QED BY <1>0, <2>2 DEF Today, UTCDay
<1>2. ServiceTypeOK'
  BY <1>0, ServiceAssumption, CheckAssumption DEF Served, ServiceTypeOK
<1>3. Alive' = Alive /\ \A i : InFlight(i)' = InFlight(i)
  BY <1>0 DEF Alive, InFlight, Key
<1>. QED BY <1>0, <1>1, <1>2, <1>3 DEF Served, ProgressAddsUp, ProbesAccounted, Classified

LEMMA InitServed == ASSUME ServiceInit PROVE Served
<1>1. NewKey \in KeyRec /\ NewKey.usage = 0 /\ NewKey.day = 0 /\ NewKey.maxLimit = DailyLimit
  <2> DEFINE w == AddRow(NoRow, DailyLimit, KeyRPM, 0)
  <2>1. w \in RowRec /\ w.usage = 0 /\ w.day = 0 /\ w.maxLimit = DailyLimit
    BY ServiceAssumption, CheckAssumption DEF AddRow, RowRec, Status
  <2>2. NewKey = NewKeyState(w)
    BY DEF NewKey
  <2> HIDE DEF w
  <2>. QED BY <2>1, <2>2, LoadFacts DEF NewKeyState
<1>2. ToDB(NewKey) \in RowRec
  BY <1>1, ToDBFacts
<1> HIDE DEF NewKey
<1>3. runs = <<>> /\ runs \in Seq(RunRec) /\ Len(runs) = 0 /\ DOMAIN runs = {}
  BY DEF ServiceInit
<1>4. NoJob \in JobRec /\ Classified(NoJob) = 0 /\ NoJob.completed = 0
  BY DEF NoJob, Classified, Counters, JobRec
<1>5. ServiceTypeOK
  BY <1>1, <1>2, <1>3, <1>4, ServiceAssumption, CheckAssumption DEF ServiceInit, ServiceTypeOK
<1>6. Alive = {} /\ \A k : InFlight(k) = {}
  BY <1>3 DEF Alive, InFlight
<1>7. \A k \in Keys : mem[k] = NewKey /\ spent[k] = 0
  BY DEF ServiceInit
<1>8. ProgressAddsUp
  BY <1>3, <1>4, <1>6 DEF ServiceInit, ProgressAddsUp
<1>9. ProbesAccounted
  BY <1>1, <1>6, <1>7, FS_EmptySet DEF ProbesAccounted
<1>. QED BY <1>1, <1>5, <1>6, <1>7, <1>8, <1>9 DEF Served

LEMMA ServedInv == ServiceSpec => [](Service /\ Served)
<1>1. ServiceInit => Served
  BY InitServed
<1>2. Service /\ Served /\ [ServiceNext]_serviceVars => Served'
  <2> SUFFICES ASSUME Service, Served, [ServiceNext]_serviceVars PROVE Served'
    OBVIOUS
  <2>1. CASE UNCHANGED serviceVars
    BY <2>1 DEF serviceVars, Served, ServiceTypeOK, ProgressAddsUp, ProbesAccounted, Today, Alive, InFlight, Key, Classified
  <2>. QED BY <2>1, StartServed, CancelServed, RunServed, ElsewhereServed, TickServed DEF ServiceNext
<1>. QED BY <1>1, <1>2, ServiceInv, PTL DEF ServiceSpec

-----------------------------------------------------------------------------
\* What the service, its goroutines and the keys hold keeps to its type.
THEOREM ServiceTyped == ServiceSpec => []ServiceTypeOK
  BY ServedInv, PTL DEF Served

\* The numbers that the UI polls add up at any moment, also of a job that was
\* cancelled (service.go, record, Snapshot).
THEOREM ProgressCounted == ServiceSpec => []ProgressAddsUp
  BY ServedInv, PTL DEF Served

\* A manual probe costs its key one request exactly if the provider served it,
\* whatever others do to the key meanwhile (service.go, checkLimit).
THEOREM ProbesCounted == ServiceSpec => []ProbesAccounted
  BY ServedInv, PTL DEF Served
=============================================================================
