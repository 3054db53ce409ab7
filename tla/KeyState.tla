------------------------------ MODULE KeyState ------------------------------
(***************************************************************************)
(* One upstream API key as the gateway holds it in memory                  *)
(* (internal/keys/state.go).  Every method of KeyState takes the key's     *)
(* mutex, so each one is an operator from a key record to a key record:    *)
(* the modules that use them decide who calls what and in which order.     *)
(*                                                                         *)
(* Time is a natural number of ticks.  A method has two clocks: `now', the *)
(* instant its caller passes in (captured earlier, perhaps long ago), and  *)
(* `today', the UTC day that ResetDailyUsageIfNewDay reads from the wall   *)
(* clock while the method runs.                                            *)
(*                                                                         *)
(* A list of request times is a multiset: a set of <<time, n>> in which    *)
(* the requests of one instant are numbered 1, 2, ...                      *)
(***************************************************************************)
EXTENDS Integers, FiniteSets

CONSTANTS
  DayLength,     \* ticks in a UTC day
  Window,        \* ticks in the sliding window of a rate limit (one minute)
  Models,        \* the models a provider limits one by one; {} if it does not
  NoModel,       \* a request that is not bound to a model
  ModelRPM       \* requests per window of a key and a model

ASSUME TimeAssumption == /\ DayLength \in Nat \ {0}
                         /\ Window \in Nat \ {0}

ASSUME ModelAssumption == /\ NoModel \notin Models
                          /\ ModelRPM \in Nat \ {0}

(***************************************************************************)
(* The statuses the code writes.  The comment on KeyState.Status lists the *)
(* first six; "disabled" comes from the administrator and the last three   *)
(* from the 1min.AI handler.                                               *)
(***************************************************************************)
Status == {"unchecked", "active", "rate_limited", "day_exhausted",
           "credit_exhausted", "invalid", "disabled",
           "asset_upload_error", "stream_error", "stream_incomplete"}

\* The statuses that keep a key out of rotation.
Blocked == {"invalid", "day_exhausted", "credit_exhausted", "disabled"}

Multiset == {ts \in SUBSET (Nat \X Nat) : IsFiniteSet(ts)}

KeyRec == [status        : Status,
           usage         : Nat,                 \* UsageToday
           day           : Nat,                 \* UsageDay
           maxLimit      : Nat,                 \* 0: no daily limit
           remaining     : Int,                 \* LimitRemaining
           rpm           : Nat,                 \* RateLimitReq in force
           cooldown      : Nat,                 \* CooldownUntil
           times         : Multiset,            \* RequestTimes
           modelTimes    : [Models -> Multiset],
           modelCooldown : [Models -> Nat]]

UTCDay(t) == t \div DayLength

NextMidnight(t) == (UTCDay(t) + 1) * DayLength

-----------------------------------------------------------------------------
(* Multisets of request times.                                             *)

\* cleanOldRequests, cleanTimes: drop what is a window old or older.  The
\* mutant drops the oldest instant of the window too.
CleanTimesEarly(ts, now) == {x \in ts : x[1] > now - Window + 1}

CleanTimes(ts, now) == {x \in ts : x[1] > now - Window}

AddTime(ts, now) ==
  ts \cup {<<now, 1 + Cardinality({x \in ts : x[1] = now})>>}

-----------------------------------------------------------------------------
(* The daily counter.                                                      *)

ResetDailyUsageIfNewDay(k, today) ==
  IF k.day = today THEN k
  ELSE [k EXCEPT !.day           = today,
                 !.usage         = 0,
                 !.modelCooldown = [m \in Models |-> 0],
                 !.status        = IF @ = "day_exhausted" THEN "active" ELSE @]

\* A mutant of HasQuota: the last request twice.
HasQuotaOffByOne(k) == k.maxLimit = 0 \/ k.usage <= k.maxLimit

HasQuota(k) == k.maxLimit = 0 \/ k.usage < k.maxLimit

\* The status of a key that has just been charged.
ChargedStatus(k) ==
  IF ~HasQuota(k) THEN "day_exhausted"
  ELSE IF k.status \in {"unchecked", "rate_limited"} THEN "active"
  ELSE k.status

-----------------------------------------------------------------------------
(* Reservation against the key's own limits: usable, CanUse, TryReserve.   *)

\* The state `usable' leaves behind, whatever it answers: it resets the
\* counter first and trims the window only if it gets that far.
AllowedNow(k, now) ==
  k.status \notin Blocked /\ HasQuota(k) /\ k.cooldown <= now

AfterUsable(k, now, today) ==
  LET r == ResetDailyUsageIfNewDay(k, today)
  IN  IF AllowedNow(r, now) THEN [r EXCEPT !.times = CleanTimes(@, now)] ELSE r

Usable(k, now, today) ==
  LET r == AfterUsable(k, now, today)
  IN  AllowedNow(r, now) /\ Cardinality(r.times) < r.rpm

\* registerLocked: the reset runs on the wall clock, the stamps on `now'.
Register(k, now, today) ==
  LET r == ResetDailyUsageIfNewDay(k, today)
      c == [r EXCEPT !.usage     = @ + 1,
                     !.remaining = IF @ > 0 THEN @ - 1 ELSE @,
                     !.day       = UTCDay(now),
                     !.times     = AddTime(@, now)]
  IN  [c EXCEPT !.status = ChargedStatus(c)]

-----------------------------------------------------------------------------
(* Reservation against a model's limit: CanUseModel, TryReserveModel.      *)

UsableForModel(k, now, today, m) ==
  LET r == ResetDailyUsageIfNewDay(k, today)
  IN  AllowedNow(r, now) /\ r.modelCooldown[m] <= now

ModelSlotFree(k, now, m, rpm) ==
  Cardinality(CleanTimes(k.modelTimes[m], now)) < rpm

\* The state a refused TryReserveModel leaves behind.
AfterModelRefusal(k, now, today, m) ==
  LET r == ResetDailyUsageIfNewDay(k, today)
  IN  IF UsableForModel(k, now, today, m)
      THEN [r EXCEPT !.modelTimes[m] = CleanTimes(@, now)] ELSE r

RegisterModel(k, now, today, m) ==
  LET r == ResetDailyUsageIfNewDay(k, today)
      c == [r EXCEPT !.usage         = @ + 1,
                     !.day           = UTCDay(now),
                     !.modelTimes[m] = AddTime(CleanTimes(@, now), now)]
  IN  [c EXCEPT !.status = ChargedStatus(c)]

-----------------------------------------------------------------------------
(* A request r has a model and the instant `now' its caller captured; the  *)
(* pool asks one question of a key and charges it one way for either kind. *)

\* CanUse or CanUseModel.
UsableFor(k, r, today) ==
  IF r.model = NoModel THEN Usable(k, r.now, today)
  ELSE UsableForModel(k, r.now, today, r.model)

\* What the question leaves behind.
Looked(k, r, today) ==
  IF r.model = NoModel THEN AfterUsable(k, r.now, today)
  ELSE ResetDailyUsageIfNewDay(k, today)

\* Would TryReserve or TryReserveModel succeed?
Reservable(k, r, today) ==
  /\ UsableFor(k, r, today)
  /\ r.model # NoModel => ModelSlotFree(k, r.now, r.model, ModelRPM)

Charge(k, r, today) ==
  IF r.model = NoModel THEN Register(AfterUsable(k, r.now, today), r.now, today)
  ELSE RegisterModel(k, r.now, today, r.model)

Refused(k, r, today) ==
  IF r.model = NoModel THEN AfterUsable(k, r.now, today)
  ELSE AfterModelRefusal(k, r.now, today, r.model)

-----------------------------------------------------------------------------
(* What a handler does to the key once the upstream has answered.          *)

\* A mutant of RollbackUsage: without the floor.
RollbackBelowZero(k) == [k EXCEPT !.usage = @ - 1]

RollbackUsage(k) ==
  LET r == [k EXCEPT !.usage = IF @ > 0 THEN @ - 1 ELSE @]
  IN  IF r.status = "day_exhausted" /\ HasQuota(r)
      THEN [r EXCEPT !.status = "active"] ELSE r

\* A mutant of SetCooldown: an empty status is stored as it is.
SetCooldownBlank(k, until, status) == [k EXCEPT !.cooldown = until, !.status = status]

\* SetCooldown: an empty status leaves the key's status alone.
SetCooldown(k, until, status) ==
  [k EXCEPT !.cooldown = until, !.status = IF status = "" THEN @ ELSE status]

\* A mutant of MarkDayExhausted: the counter is cleared, not filled.
MarkDayCleared(k, today) ==
  [k EXCEPT !.day = today, !.status = "day_exhausted", !.usage = 0]

MarkDayExhausted(k, today) ==
  [k EXCEPT !.day    = today,
            !.status = "day_exhausted",
            !.usage  = IF k.maxLimit > 0 THEN k.maxLimit ELSE @]

SetStatus(k, status, today) ==
  LET r == ResetDailyUsageIfNewDay(k, today)
  IN  IF status = "day_exhausted" THEN MarkDayExhausted(r, today)
      ELSE [r EXCEPT !.status = status]

SetModelCooldown(k, m, until) == [k EXCEPT !.modelCooldown[m] = until]

UpdateLimitRemaining(k, val) == [k EXCEPT !.remaining = val]
=============================================================================
