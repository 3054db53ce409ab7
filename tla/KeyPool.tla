------------------------------ MODULE KeyPool -------------------------------
(***************************************************************************)
(* The key pool of one provider (internal/keys/pool.go) with the goroutines*)
(* that use it at the same time.  A caller asks for the least used key that*)
(* may serve a request now; the pool looks at the keys one by one, each    *)
(* under its own mutex, and then reserves the best one, which may have     *)
(* become unusable meanwhile.  The caller sends its request, and afterwards*)
(* keeps the charge or gives it back, and may put the key on cooldown, mark*)
(* it exhausted or invalid.  What a given provider's handler does at which *)
(* answer is in the handler's own module; here it may do any of it.        *)
(*                                                                         *)
(* counted, kept and late are history variables: they only observe.        *)
(***************************************************************************)
EXTENDS KeyState

CONSTANTS
  NumKeys,       \* keys in the pool
  Callers,       \* request goroutines
  DailyLimit,    \* MaxLimit of every key; 0: none
  KeyRPM,        \* requests per window of a key
  Durations,     \* the cooldowns a handler imposes
  Exclusions,    \* the sets of keys that requests exclude
  CoolStatuses,  \* the statuses it sets with them; "": it leaves the status
  MaxTime        \* bound: the last instant

Keys == 1 .. NumKeys

ASSUME PoolAssumption ==
  /\ NumKeys \in Nat
  /\ IsFiniteSet(Callers)
  /\ DailyLimit \in Nat /\ KeyRPM \in Nat \ {0}
  /\ Exclusions \subseteq SUBSET Keys
  /\ Durations \subseteq Nat /\ CoolStatuses \subseteq Status \cup {""}
  /\ MaxTime \in Nat

VARIABLES
  clock,    \* the wall clock
  mem,      \* the KeyState of every key
  sel,      \* what every caller is doing
  counted,  \* the callers whose charge is in their key's current count
  kept,     \* charges in the current count that were kept
  late      \* callers that gave back a charge of an earlier count

vars == <<clock, mem, sel, counted, kept, late>>
ledger == <<counted, kept, late>>

Today == UTCDay(clock)

Idle == [pc |-> "idle", now |-> 0, model |-> NoModel, excl |-> {},
         tried |-> {}, pos |-> 0, best |-> 0, bestUsage |-> 0]

SelRec == [pc        : {"idle", "scan", "reserve", "held", "settled", "none"},
           now       : Nat,
           model     : Models \cup {NoModel},
           excl      : SUBSET Keys,
           tried     : SUBSET Keys,
           pos       : 0 .. NumKeys,
           best      : 0 .. NumKeys,
           bestUsage : Nat]

NewKey(today) ==
  [status |-> "unchecked", usage |-> 0, day |-> today, maxLimit |-> DailyLimit,
   remaining |-> 0, rpm |-> KeyRPM, cooldown |-> 0, times |-> {},
   modelTimes |-> [m \in Models |-> {}], modelCooldown |-> [m \in Models |-> 0]]

Init ==
  /\ clock = 0
  /\ mem = [k \in Keys |-> NewKey(0)]
  /\ sel = [c \in Callers |-> Idle]
  /\ counted = {}
  /\ kept = [k \in Keys |-> 0]
  /\ late = [k \in Keys |-> {}]

-----------------------------------------------------------------------------
(* The history of the daily count.                                         *)

\* The callers whose charge is in the current count of key k.
OpenCharges(k) == {c \in counted : sel[c].best = k}

\* Does a method that starts with the daily reset start a new count of k?
NewCount(k) == mem[k].day # Today

\* A new count forgets the charges of the old one.
Recount(k) ==
  /\ counted' = IF NewCount(k) THEN counted \ OpenCharges(k) ELSE counted
  /\ kept' = IF NewCount(k) THEN [kept EXCEPT ![k] = 0] ELSE kept
  /\ late' = IF NewCount(k) THEN [late EXCEPT ![k] = {}] ELSE late

-----------------------------------------------------------------------------
(* Selection: GetBestKeyExcluding and GetBestKeyForModelExcluding.         *)

Begin(c, excl, model) ==
  /\ sel[c].pc = "idle"
  /\ sel' = [sel EXCEPT ![c] = [Idle EXCEPT !.pc    = "scan",
                                            !.now   = clock,
                                            !.model = model,
                                            !.excl  = excl]]
  /\ UNCHANGED <<clock, mem, ledger>>

\* ReserveKeyByHash: the one key of a conversation, never another.
BeginByHash(c, k) ==
  /\ sel[c].pc = "idle"
  /\ sel' = [sel EXCEPT ![c] = [Idle EXCEPT !.pc   = "reserve",
                                            !.now  = clock,
                                            !.excl = Keys \ {k},
                                            !.best = k]]
  /\ UNCHANGED <<clock, mem, ledger>>

\* The keys the scan of c has still to look at; the next one (a set of one,
\* or of none when the scan is over).
Unseen(c) == {k \in Keys : k > sel[c].pos} \ (sel[c].excl \cup sel[c].tried)
NextUnseen(c) == {k \in Unseen(c) : \A j \in Unseen(c) : k <= j}

\* CanUse or CanUseModel on the next key, and its usage.  The usage is read
\* under a second lock; it only ranks the key, and the reservation rechecks.
ScanKey(c) ==
  /\ sel[c].pc = "scan"
  /\ \E k \in NextUnseen(c) :
       LET seen   == Looked(mem[k], sel[c], Today)
           better == /\ UsableFor(mem[k], sel[c], Today)
                     /\ sel[c].best = 0 \/ seen.usage < sel[c].bestUsage
       IN  /\ mem' = [mem EXCEPT ![k] = seen]
           /\ sel' = [sel EXCEPT ![c].pos       = k,
                                 ![c].best      = IF better THEN k ELSE @,
                                 ![c].bestUsage = IF better THEN seen.usage ELSE @]
           /\ Recount(k)
  /\ UNCHANGED clock

EndScan(c) ==
  /\ sel[c].pc = "scan"
  /\ Unseen(c) = {}
  /\ sel' = [sel EXCEPT ![c].pc = IF sel[c].best = 0 THEN "none" ELSE "reserve"]
  /\ UNCHANGED <<clock, mem, ledger>>

\* TryReserve or TryReserveModel succeeds: the key is charged.
Reserve(c) ==
  LET k == sel[c].best
  IN  /\ sel[c].pc = "reserve"
      /\ Reservable(mem[k], sel[c], Today)
      /\ mem' = [mem EXCEPT ![k] = Charge(@, sel[c], Today)]
      /\ sel' = [sel EXCEPT ![c].pc = "held"]
      /\ counted' = (IF NewCount(k) THEN counted \ OpenCharges(k) ELSE counted) \cup {c}
      /\ kept' = IF NewCount(k) THEN [kept EXCEPT ![k] = 0] ELSE kept
      /\ late' = IF NewCount(k) THEN [late EXCEPT ![k] = {}] ELSE late
      /\ UNCHANGED clock

\* What becomes of a selection that lost the race for key k.  Two mutants: one
\* that gives up, and one that tries the same key again.
GiveUp(s, k) == [s EXCEPT !.pc = "none"]

ReserveAgain(s, k) == s

ScanAgain(s, k) ==
  [s EXCEPT !.pc = "scan", !.tried = @ \cup {k}, !.pos = 0, !.best = 0, !.bestUsage = 0]

\* The race was lost: leave the key out and scan again with the same `now'.
LoseRace(c) ==
  LET k == sel[c].best
  IN  /\ sel[c].pc = "reserve"
      /\ ~Reservable(mem[k], sel[c], Today)
      /\ mem' = [mem EXCEPT ![k] = Refused(@, sel[c], Today)]
      /\ sel' = [sel EXCEPT ![c] = ScanAgain(@, k)]
      /\ Recount(k)
      /\ UNCHANGED clock

-----------------------------------------------------------------------------
(* What a caller does with the key it holds.                               *)

\* The request ends and its charge stays.
Keep(c) ==
  LET k == sel[c].best
  IN  /\ sel[c].pc = "held"
      /\ sel' = [sel EXCEPT ![c] = Idle]
      /\ kept' = [kept EXCEPT ![k] = IF c \in counted THEN @ + 1 ELSE @]
      /\ counted' = counted \ {c}
      /\ UNCHANGED <<clock, mem, late>>

\* RollbackUsage.
Refund(c) ==
  LET k == sel[c].best
  IN  /\ sel[c].pc = "held"
      /\ mem' = [mem EXCEPT ![k] = RollbackUsage(@)]
      /\ sel' = [sel EXCEPT ![c].pc = "settled"]
      /\ counted' = counted \ {c}
      /\ late' = IF c \in counted THEN late ELSE [late EXCEPT ![k] = @ \cup {c}]
      /\ UNCHANGED <<clock, kept>>

Leave(c) ==
  /\ sel[c].pc \in {"settled", "none"}
  /\ sel' = [sel EXCEPT ![c] = Idle]
  /\ UNCHANGED <<clock, mem, ledger>>

Using(c) == sel[c].pc \in {"held", "settled"}

\* SetCooldown, with the statuses the handlers pass.
Cool(c, d, status) ==
  /\ Using(c)
  /\ mem' = [mem EXCEPT ![sel[c].best] = SetCooldown(@, clock + d, status)]
  /\ UNCHANGED <<clock, sel, ledger>>

Exhaust(c) ==
  /\ Using(c)
  /\ mem' = [mem EXCEPT ![sel[c].best] = MarkDayExhausted(@, Today)]
  /\ UNCHANGED <<clock, sel, ledger>>

Invalidate(c) ==
  /\ Using(c)
  /\ mem' = [mem EXCEPT ![sel[c].best] = SetStatus(@, "invalid", Today)]
  /\ Recount(sel[c].best)
  /\ UNCHANGED <<clock, sel>>

CoolModel(c, until) ==
  /\ Using(c)
  /\ sel[c].model # NoModel
  /\ mem' = [mem EXCEPT ![sel[c].best] = SetModelCooldown(@, sel[c].model, until)]
  /\ UNCHANGED <<clock, sel, ledger>>

-----------------------------------------------------------------------------
(* The clock, and the worker that resets expired counters once a minute    *)
(* (ResetExpiredDailyUsage takes the keys one at a time).                  *)

Tick ==
  /\ clock < MaxTime
  /\ clock' = clock + 1
  /\ UNCHANGED <<mem, sel, ledger>>

ResetExpired(k) ==
  /\ NewCount(k)
  /\ mem' = [mem EXCEPT ![k] = ResetDailyUsageIfNewDay(@, Today)]
  /\ Recount(k)
  /\ UNCHANGED <<clock, sel>>

Punish(c) ==
  \/ \E d \in Durations, s \in CoolStatuses : Cool(c, d, s)
  \/ Exhaust(c)
  \/ Invalidate(c)
  \/ CoolModel(c, NextMidnight(clock))

Select(c) ==
  \/ \E excl \in Exclusions, model \in Models \cup {NoModel} : Begin(c, excl, model)
  \/ \E k \in Keys : BeginByHash(c, k)
  \/ ScanKey(c)
  \/ EndScan(c)
  \/ Reserve(c)
  \/ LoseRace(c)

Next ==
  \/ \E c \in Callers : Select(c) \/ Keep(c) \/ Refund(c) \/ Leave(c) \/ Punish(c)
  \/ \E k \in Keys : ResetExpired(k)
  \/ Tick

Spec == Init /\ [][Next]_vars

-----------------------------------------------------------------------------
TypeOK ==
  /\ clock \in 0 .. MaxTime
  /\ mem \in [Keys -> KeyRec]
  /\ sel \in [Callers -> SelRec]
  /\ counted \in SUBSET Callers
  /\ kept \in [Keys -> Nat]
  /\ late \in [Keys -> SUBSET Callers]

(***************************************************************************)
(* Charges of the current count of k: those of callers still waiting for   *)
(* the upstream, and those that were kept.                                 *)
(***************************************************************************)
Charged(k) == Cardinality(OpenCharges(k)) + kept[k]

\* A key's counter never runs ahead of its limit, whoever charges, refunds,
\* exhausts or resets it (TryReserve, RollbackUsage, MarkDayExhausted).
UsageWithinLimit == \A k \in Keys : DailyLimit > 0 => mem[k].usage <= DailyLimit

\* The daily quota (MaxLimit) as the upstream sees it: in one count, the
\* requests sent on a key exceed the limit by no more than the refunds of
\* requests that were sent before that count began.
QuotaKept ==
  \A k \in Keys : DailyLimit > 0 => Charged(k) <= DailyLimit + Cardinality(late[k])

\* A reservation belongs to one key, and a caller that gave a charge back
\* late holds no other charge that the count has forgotten.
HolderOK ==
  /\ \A c \in Callers :
       sel[c].pc \in {"reserve", "held", "settled"} => sel[c].best \in Keys
  /\ \A c \in counted : sel[c].pc = "held"
  /\ \A c \in Callers :
       sel[c].pc = "held" /\ c \in late[sel[c].best] => c \in counted

LimitFixed == \A k \in Keys : mem[k].maxLimit = DailyLimit

\* Nobody's refund hides another request's charge: the counter covers every
\* charge of the current count but those that late refunds cancelled.
CounterCoversCharges ==
  \A k \in Keys : Charged(k) <= mem[k].usage + Cardinality(late[k])

\* The inductive invariant behind the quota.
PoolInv == TypeOK /\ HolderOK /\ LimitFixed /\ UsageWithinLimit /\ CounterCoversCharges
=============================================================================
