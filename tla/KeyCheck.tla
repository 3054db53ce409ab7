------------------------------ MODULE KeyCheck ------------------------------
(***************************************************************************)
(* What a check does to a key: CheckKey of the key checker, which asks the *)
(* provider about the key, and checkLimit of the check service, which sends*)
(* a tiny request and so spends one of the key's free requests.  Each      *)
(* operator is the part that runs under the key's mutex once the provider  *)
(* has answered; `now' was captured before the call (CheckKey) or after it *)
(* (checkLimit).  A check saves the key afterwards, but for a CheckKey that*)
(* got no usable answer.                                                   *)
(***************************************************************************)
EXTENDS KeyRow

CONSTANTS
  Keys,        \* the keys of a pool, in the pool's order
  DailyLimit,  \* their MaxLimit
  KeyRPM,      \* their requests per window
  Minute,      \* ticks of the pauses: one minute, and five after a 429
  Elsewhere,   \* the statuses that others set meanwhile
  MaxTime      \* bound: the last instant

ASSUME CheckAssumption ==
  /\ Keys \subseteq Nat \ {0} /\ IsFiniteSet(Keys)
  /\ DailyLimit \in Nat /\ KeyRPM \in Nat \ {0} /\ Minute \in Nat
  /\ Elsewhere \subseteq Status /\ MaxTime \in Nat

\* What the background checker and the manual checks have in common.
VARIABLES
  clock,
  mem,         \* the KeyState of every key
  row          \* the keys table

Today == UTCDay(clock)

Provider == {"openrouter", "aihubmix", "google", "1minai"}

(***************************************************************************)
(* The answers: none at all ("network"), none because the check was        *)
(* cancelled, a body that cannot be decoded, the statuses the code tells   *)
(* apart, and 200 with AIHubMix's text about free resources ("marker").    *)
(***************************************************************************)
Verdicts == {"network", "cancelled", "garbled", "200", "401", "429", "other"}
LimitVerdicts == {"network", "cancelled", "marker", "200", "401", "429", "other"}

\* CheckKey: the answers after which the key counts as checked and is saved.
Conclusive(verdict) == verdict \in {"200", "401", "429", "other"}

\* What a 200 of OpenRouter says of a key (the two limits; its rate limit and tier,
\* which nothing here tells apart, are left out): they replace ours, and an
\* exhausted key that has something left again takes over their counter.
Informed(k, info, now) ==
  LET told == [k EXCEPT !.maxLimit = info.maxLimit, !.remaining = info.remaining]
      used == told.maxLimit - told.remaining
  IN  IF told.remaining <= 0 /\ told.maxLimit > 0
      THEN MarkDayExhausted(told, UTCDay(now))
      ELSE [told EXCEPT !.usage  = IF k.status # "day_exhausted" THEN @
                                   ELSE IF used < 0 THEN 0 ELSE used,
                        !.status = "active"]

\* A mutant of Verified: a good answer makes every key active.
VerifiedRevives(k, provider, verdict, info, now, wall) ==
  CASE verdict = "200"     -> [k EXCEPT !.status = "active"]
    [] verdict = "401"     -> [k EXCEPT !.status = "invalid"]
    [] verdict = "429"     -> SetCooldown(k, now + 5 * Minute, "rate_limited")
    [] verdict = "other"   -> SetCooldown(k, now + Minute, "")
    [] verdict = "network" -> SetCooldown(k, wall + Minute, "")
    [] OTHER               -> k

\* CheckKey, with the answer at the instant `wall'.  Only OpenRouter tells
\* about quotas; the others' answer does not revive an exhausted key.
Verified(k, provider, verdict, info, now, wall) ==
  CASE verdict = "200" /\ provider = "openrouter" -> Informed(k, info, now)
    [] verdict = "200" /\ provider # "openrouter" ->
         [k EXCEPT !.status = IF @ = "day_exhausted" THEN @ ELSE "active"]
    [] verdict = "401"     -> [k EXCEPT !.status = "invalid"]
    [] verdict = "429"     -> SetCooldown(k, now + 5 * Minute, "rate_limited")
    [] verdict = "other"   -> SetCooldown(k, now + Minute, "")
    [] verdict = "network" -> SetCooldown(k, wall + Minute, "")
    [] OTHER               -> k

\* CheckKey on a 1min.AI key, which asks nobody.
Trusted(k) == [k EXCEPT !.status = IF @ = "unchecked" THEN "active" ELSE @]

\* The counter of a probe that the provider did not serve; the status stays.
Uncounted(k) == [k EXCEPT !.usage = IF @ > 0 THEN @ - 1 ELSE @]

\* A mutant of Probed: a cancelled probe is not given back.
ProbedCancelKept(k, verdict, now) ==
  CASE verdict = "marker"    -> MarkDayExhausted(k, UTCDay(now))
    [] verdict = "200"       -> [k EXCEPT !.status = "active"]
    [] verdict = "401"       -> [k EXCEPT !.status = "invalid"]
    [] verdict = "429"       -> SetCooldown(Uncounted(k), now + 5 * Minute, "rate_limited")
    [] verdict = "other"     -> SetCooldown(Uncounted(k), now + Minute, "")
    [] verdict = "network"   -> SetCooldown(RollbackUsage(k), now + Minute, "")
    [] verdict = "cancelled" -> k

\* checkLimit.
Probed(k, verdict, now) ==
  CASE verdict = "marker"    -> MarkDayExhausted(k, UTCDay(now))
    [] verdict = "200"       -> [k EXCEPT !.status = "active"]
    [] verdict = "401"       -> [k EXCEPT !.status = "invalid"]
    [] verdict = "429"       -> SetCooldown(Uncounted(k), now + 5 * Minute, "rate_limited")
    [] verdict = "other"     -> SetCooldown(Uncounted(k), now + Minute, "")
    [] verdict = "network"   -> SetCooldown(RollbackUsage(k), now + Minute, "")
    [] verdict = "cancelled" -> RollbackUsage(k)
=============================================================================
