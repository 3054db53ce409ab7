---------------------------- MODULE KeySelection ----------------------------
(***************************************************************************)
(* The key pool implements the key dispenser.  The pool's scan, which reads*)
(* one key at a time while other callers charge, punish and refund the     *)
(* keys it has read or has still to read, never refuses a caller a key that*)
(* was free all the time, and it ends.  steady is a history variable.      *)
(***************************************************************************)
EXTENDS KeyPool

VARIABLE steady

allvars == <<vars, steady>>

FreeFor(c) == {k \in Keys \ sel[c].excl : Reservable(mem[k], sel[c], Today)}

Asking(c) == sel[c].pc \in {"scan", "reserve"}

Watched ==
  steady' = [c \in Callers |->
               IF ~Asking(c) THEN FreeFor(c)' ELSE steady[c] \cap FreeFor(c)']

SelectionInit == Init /\ steady = [c \in Callers |-> FreeFor(c)]

SelectionNext == Next /\ Watched

\* A goroutine in GetBestKeyExcluding runs on: nothing it does there waits
\* for anything but the mutex of one key.
Proceed(c) == ScanKey(c) \/ EndScan(c) \/ Reserve(c) \/ LoseRace(c)

SelectionSpec ==
  /\ SelectionInit
  /\ [][SelectionNext]_allvars
  /\ \A c \in Callers : WF_allvars(Proceed(c) /\ Watched)

-----------------------------------------------------------------------------
(* The refinement: a caller that scans or reserves is asking.              *)

asked ==
  [c \in Callers |->
     [pc    |-> IF Asking(c) THEN "asking" ELSE sel[c].pc,
      now   |-> sel[c].now,
      model |-> sel[c].model,
      excl  |-> sel[c].excl,
      key   |-> IF sel[c].pc \in {"held", "settled"} THEN sel[c].best ELSE 0]]

Promise == INSTANCE KeyDispenser WITH ask <- asked

PromiseNext ==
  /\ \/ \E c \in Callers :
          \/ \E excl \in SUBSET Keys, model \in Models \cup {NoModel} :
               Promise!Ask(c, excl, model)
          \/ \E k \in Keys : Promise!Grant(c, k) \/ Promise!Look(c, k)
          \/ Promise!Search(c)
          \/ Promise!Refuse(c)
          \/ Promise!Refund(c)
          \/ Promise!Leave(c)
          \/ Promise!Punish(c, Durations, CoolStatuses)
     \/ \E k \in Keys : Promise!ResetExpired(k)
     \/ Promise!Tick
  /\ Promise!Watched

\* The pool keeps its promise (GetBestKeyExcluding, GetBestKeyForModelExcluding
\* and ReserveKeyByHash): a key is handed out only when it may be used, with
\* its charge, and a caller is refused only if every key it may take was
\* unusable at some moment of its search, whatever races it lost.
KeepsPromise == [][PromiseNext]_<<clock, mem, asked, steady>>

\* A search ends, with a key or with a refusal: a lost race excludes its key,
\* so it cannot be lost for ever (the `tried' map of the selection loop).
SearchEnds ==
  \A c \in Callers : Asking(c) ~> sel[c].pc \in {"held", "none"}
=============================================================================
