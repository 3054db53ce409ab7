---------------------------- MODULE KeyDispenser ----------------------------
(***************************************************************************)
(* What the key pool promises its callers, without the scan: a request that*)
(* asks for a key is either granted one it may use, charged in the same    *)
(* step, or refused, and it is refused only if no key it may take stayed   *)
(* reservable from the moment it asked.  The pool of module KeyPool        *)
(* implements this (module KeySelection); the request handlers are built   *)
(* on it.                                                                  *)
(***************************************************************************)
EXTENDS KeyState

CONSTANTS
  Keys,      \* the keys of the pool
  Callers,   \* request goroutines
  MaxTime    \* bound: the last instant

VARIABLES
  clock,     \* the wall clock
  mem,       \* the KeyState of every key
  ask,       \* what every caller asked for and got
  steady     \* the keys a caller could have had ever since it asked

Today == UTCDay(clock)

NotAsking == [pc |-> "idle", now |-> 0, model |-> NoModel, excl |-> {}, key |-> 0]

AskRec == [pc    : {"idle", "asking", "held", "settled", "none"},
           now   : Nat,
           model : Models \cup {NoModel},
           excl  : SUBSET Keys,
           key   : Keys \cup {0}]

\* The keys that c could reserve now.
FreeFor(c) == {k \in Keys \ ask[c].excl : Reservable(mem[k], ask[c], Today)}

\* A conjunct of every step: keep track of the keys that stay free.
Watched ==
  steady' = [c \in Callers |->
               IF ask[c].pc # "asking" THEN FreeFor(c)' ELSE steady[c] \cap FreeFor(c)']

-----------------------------------------------------------------------------
Ask(c, excl, model) ==
  /\ ask[c].pc = "idle"
  /\ ask' = [ask EXCEPT ![c] = [pc |-> "asking", now |-> clock, model |-> model,
                                excl |-> excl, key |-> 0]]
  /\ UNCHANGED <<clock, mem>>

Grant(c, k) ==
  /\ ask[c].pc = "asking"
  /\ k \notin ask[c].excl
  /\ Reservable(mem[k], ask[c], Today)
  /\ mem' = [mem EXCEPT ![k] = Charge(@, ask[c], Today)]
  /\ ask' = [ask EXCEPT ![c].pc = "held", ![c].key = k]
  /\ UNCHANGED clock

Refuse(c) ==
  /\ ask[c].pc = "asking"
  /\ steady[c] = {}
  /\ ask' = [ask EXCEPT ![c].pc = "none"]
  /\ UNCHANGED <<clock, mem>>

\* Looking at a key may start its new count or forget old request times.
Look(c, k) ==
  /\ ask[c].pc = "asking"
  /\ \E r \in {Looked(mem[k], ask[c], Today), Refused(mem[k], ask[c], Today)} :
       mem' = [mem EXCEPT ![k] = r]
  /\ UNCHANGED <<clock, ask>>

\* The search goes on without having changed anything.
Search(c) ==
  /\ ask[c].pc = "asking"
  /\ UNCHANGED <<clock, mem, ask>>

Tick ==
  /\ clock < MaxTime
  /\ clock' = clock + 1
  /\ UNCHANGED <<mem, ask>>

ResetExpired(k) ==
  /\ mem[k].day # Today
  /\ mem' = [mem EXCEPT ![k] = ResetDailyUsageIfNewDay(@, Today)]
  /\ UNCHANGED <<clock, ask>>

-----------------------------------------------------------------------------
(* What callers do with a key that they hold.                              *)

Refund(c) ==
  /\ ask[c].pc = "held"
  /\ mem' = [mem EXCEPT ![ask[c].key] = RollbackUsage(@)]
  /\ ask' = [ask EXCEPT ![c].pc = "settled"]
  /\ UNCHANGED clock

Leave(c) ==
  /\ ask[c].pc \in {"held", "settled", "none"}
  /\ ask' = [ask EXCEPT ![c] = NotAsking]
  /\ UNCHANGED <<clock, mem>>

\* What a penalty may leave of a key that served model m.
Penalised(k, m, durations, statuses) ==
  {SetCooldown(k, clock + d, s) : d \in durations, s \in statuses}
    \cup {MarkDayExhausted(k, Today), SetStatus(k, "invalid", Today)}
    \cup (IF m = NoModel THEN {} ELSE {SetModelCooldown(k, m, NextMidnight(clock))})

Punish(c, durations, statuses) ==
  /\ ask[c].pc \in {"held", "settled"}
  /\ \E r \in Penalised(mem[ask[c].key], ask[c].model, durations, statuses) :
       mem' = [mem EXCEPT ![ask[c].key] = r]
  /\ UNCHANGED <<clock, ask>>
=============================================================================
