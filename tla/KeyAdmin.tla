------------------------------ MODULE KeyAdmin ------------------------------
(***************************************************************************)
(* The life of one API key in a pool and in the keys table: administrators *)
(* add, remove, disable, enable it and reset its cooldown (bulk actions of *)
(* the Web UI), requests and the daily reset worker save it, and the       *)
(* gateway is killed and started again.                                    *)
(*                                                                         *)
(* An administrator's operation is a statement of the store followed by    *)
(* Load, which reads the whole table and then rebuilds the pool; Load holds*)
(* the pool's lock all along, but the requests that already hold a key, and*)
(* their writes to the table, do not wait for it.  A key that is removed   *)
(* and added again is a new KeyState object; requests may still hold the   *)
(* old one.  served and barred are history variables.                      *)
(***************************************************************************)
EXTENDS KeyRow, Sequences

CONSTANTS
  Workers,      \* request goroutines, and the reset worker when it is busy
  Admins,       \* administrator requests
  Operations,   \* the operations they may ask for
  Outcomes,     \* what a request does with the key after the answer
  DailyLimit,   \* MaxLimit; 0: none
  KeyRPM,       \* requests per window
  MaxObjects,   \* bound: objects the key may have in one run of the gateway
  MaxTime       \* bound: the last instant

ASSUME AdminAssumption ==
  /\ Operations \subseteq {"add", "remove", "disable", "enable", "reset_cooldown"}
  /\ Outcomes \subseteq {"keep", "refund", "limit", "invalid"}
  /\ DailyLimit \in Nat /\ KeyRPM \in Nat \ {0}
  /\ MaxObjects \in Nat \ {0} /\ MaxTime \in Nat

VARIABLES
  clock,
  row,       \* the key's row
  objs,      \* its KeyState objects, oldest first
  current,   \* the one the pool hands out, 0: none
  adm,       \* what every administrator's request is doing
  work,      \* what every worker has to do, and its snapshot
  served,    \* requests charged to the current object today
  barred     \* was the key disabled while nobody held it, and not yet enabled?

vars == <<clock, row, objs, current, adm, work, served, barred>>

Today == UTCDay(clock)

Objects == 0 .. MaxObjects

AdmRec == [pc : {"idle", "stored", "loading"}, op : Operations \cup {""}, read : RowRec \cup {NoRow}]

WorkRec == [obj : Objects, todo : Seq({"refund", "limit", "invalid", "snap", "write", "answer"}),
            snap : RowRec \cup {NoRow}]

NoWork == [obj |-> 0, todo |-> <<>>, snap |-> NoRow]
NoOp   == [pc |-> "idle", op |-> "", read |-> NoRow]

\* The pool right after NewKeyPool: an object for a key that has a row.
Loaded(r) == IF r = NoRow THEN <<>> ELSE <<NewKeyState(r)>>

Init ==
  /\ clock = 0
  /\ row = AddRow(NoRow, DailyLimit, KeyRPM, 0)
  /\ objs = Loaded(row)
  /\ current = 1
  /\ adm = [a \in Admins |-> NoOp]
  /\ work = [w \in Workers |-> NoWork]
  /\ served = 0
  /\ barred = FALSE

-----------------------------------------------------------------------------
(* The administrators.                                                     *)

\* The statement of the store.
Stored(op) ==
  CASE op = "add"            -> AddRow(row, DailyLimit, KeyRPM, Today)
    [] op = "remove"         -> NoRow
    [] op = "disable"        -> UpdateStatus(row, "disabled")
    [] op = "enable"         -> UpdateStatus(row, "unchecked")
    [] op = "reset_cooldown" -> ResetCooldown(row)

StoreOp(a, op) ==
  /\ adm[a].pc = "idle"
  /\ row' = Stored(op)
  /\ adm' = [adm EXCEPT ![a] = [NoOp EXCEPT !.pc = "stored", !.op = op]]
  /\ barred' = (barred /\ op \notin {"enable", "remove"})
  /\ UNCHANGED <<clock, objs, current, work, served>>

\* kp.mu is held by the one who loads.
Locked == \E a \in Admins : adm[a].pc = "loading"

\* GetKeys.  The mutant reads the table before it takes the lock.
LoadReadUnlocked(a) ==
  /\ adm[a].pc = "stored"
  /\ adm' = [adm EXCEPT ![a].pc = "loading", ![a].read = row]
  /\ UNCHANGED <<clock, row, objs, current, work, served, barred>>

LoadRead(a) ==
  /\ adm[a].pc = "stored"
  /\ ~Locked
  /\ adm' = [adm EXCEPT ![a].pc = "loading", ![a].read = row]
  /\ UNCHANGED <<clock, row, objs, current, work, served, barred>>

\* The rest of Load: the key is dropped, updated or created.
LoadApply(a) ==
  LET read == adm[a].read
  IN  /\ adm[a].pc = "loading"
      /\ \/ /\ read = NoRow
            /\ current' = 0
            /\ UNCHANGED objs
         \/ /\ read # NoRow /\ current # 0
            /\ objs' = [objs EXCEPT ![current] = LoadInto(@, read)]
            /\ UNCHANGED current
         \/ /\ read # NoRow /\ current = 0
            /\ Len(objs) < MaxObjects
            /\ objs' = Append(objs, NewKeyState(read))
            /\ current' = Len(objs) + 1
      /\ adm' = [adm EXCEPT ![a] = NoOp]
      /\ served' = IF current = 0 THEN 0 ELSE served
      /\ barred' = (barred \/ ( /\ read = row /\ row # NoRow /\ row.status = "disabled"
                               /\ \A w \in Workers : work[w].obj = 0))
      /\ UNCHANGED <<clock, row, work>>

-----------------------------------------------------------------------------
(* Requests, and the reset worker.                                         *)

Sync == <<"snap", "write">>

\* A selection finds the key usable and charges it.
Take(w) ==
  /\ work[w].obj = 0
  /\ current # 0 /\ ~Locked
  /\ Usable(objs[current], clock, Today)
  /\ objs' = [objs EXCEPT ![current] =
                Register(AfterUsable(@, clock, Today), clock, Today)]
  /\ work' = [work EXCEPT ![w] = [NoWork EXCEPT !.obj = current, !.todo = Sync \o <<"answer">>]]
  /\ served' = served + 1
  /\ UNCHANGED <<clock, row, current, adm, barred>>

\* A selection looks at the key and leaves it.
Look ==
  /\ current # 0 /\ ~Locked
  /\ objs' = [objs EXCEPT ![current] = AfterUsable(@, clock, Today)]
  /\ UNCHANGED <<clock, row, current, adm, work, served, barred>>

\* ResetExpiredDailyUsage comes to the key.
ResetExpired(w) ==
  /\ work[w].obj = 0
  /\ current # 0
  /\ objs[current].day # Today
  /\ objs' = [objs EXCEPT ![current] = ResetDailyUsageIfNewDay(@, Today)]
  /\ work' = [work EXCEPT ![w] = [NoWork EXCEPT !.obj = current, !.todo = Sync]]
  /\ UNCHANGED <<clock, row, current, adm, served, barred>>

Doing(w, step) == work[w].todo # <<>> /\ Head(work[w].todo) = step

\* A worker whose list is empty is free again.
Done(w) ==
  IF Len(work[w].todo) = 1 THEN [work EXCEPT ![w] = NoWork]
  ELSE [work EXCEPT ![w].todo = Tail(@)]

Answer(w, outcome) ==
  /\ Doing(w, "answer")
  /\ work' = [work EXCEPT ![w].todo = (IF outcome = "keep" THEN <<>> ELSE <<outcome>>) \o Sync]
  /\ UNCHANGED <<clock, row, objs, current, adm, served, barred>>

Settle(w, step) ==
  /\ Doing(w, step)
  /\ objs' = [objs EXCEPT ![work[w].obj] =
                CASE step = "refund"  -> RollbackUsage(@)
                  [] step = "limit"   -> SetCooldown(@, clock + 1, "rate_limited")
                  [] step = "invalid" -> SetStatus(@, "invalid", Today)]
  /\ work' = Done(w)
  /\ served' = IF step = "refund" /\ served > 0 THEN served - 1 ELSE served
  /\ UNCHANGED <<clock, row, current, adm, barred>>

\* SyncKeyToDB: ToDB under the key's mutex, then UpdateKey without it.
Snap(w) ==
  /\ Doing(w, "snap")
  /\ work' = [Done(w) EXCEPT ![w].snap = ToDB(objs[work[w].obj])]
  /\ UNCHANGED <<clock, row, objs, current, adm, served, barred>>

Write(w) ==
  /\ Doing(w, "write")
  /\ row' = UpdateKey(row, work[w].snap)
  /\ work' = Done(w)
  /\ UNCHANGED <<clock, objs, current, adm, served, barred>>

-----------------------------------------------------------------------------
Tick ==
  /\ clock < MaxTime
  /\ clock' = clock + 1
  /\ served' = IF UTCDay(clock + 1) = Today THEN served ELSE 0
  /\ UNCHANGED <<row, objs, current, adm, work, barred>>

\* The process is killed at any point and started again.
Restart ==
  /\ row' = ResetStaleDay(row, Today)
  /\ objs' = Loaded(row')
  /\ current' = Len(objs')
  /\ adm' = [a \in Admins |-> NoOp]
  /\ work' = [w \in Workers |-> NoWork]
  /\ served' = 0
  /\ UNCHANGED <<clock, barred>>

AdminNext ==
  \E a \in Admins : (\E op \in Operations : StoreOp(a, op)) \/ LoadRead(a) \/ LoadApply(a)

WorkerNext ==
  \E w \in Workers :
    \/ Take(w)
    \/ ResetExpired(w)
    \/ \E outcome \in Outcomes : Answer(w, outcome)
    \/ \E step \in {"refund", "limit", "invalid"} : Settle(w, step)
    \/ Snap(w)
    \/ Write(w)

Next == AdminNext \/ WorkerNext \/ Look \/ Tick \/ Restart

Spec == Init /\ [][Next]_vars

-----------------------------------------------------------------------------
TypeOK ==
  /\ clock \in 0 .. MaxTime
  /\ row \in RowRec \cup {NoRow}
  /\ objs \in Seq(KeyRec) /\ Len(objs) <= MaxObjects
  /\ current \in 0 .. Len(objs)
  /\ adm \in [Admins -> AdmRec]
  /\ work \in [Workers -> WorkRec]
  /\ served \in Nat
  /\ barred \in BOOLEAN

\* When no operation is under way, the pool holds the key exactly when the
\* table does: operations may overlap, and a request that still saves a removed
\* key brings neither the row nor the key back (Load under kp.mu, UpdateKey).
PoolMatchesTable ==
  (\A a \in Admins : adm[a].pc = "idle") => (current # 0 <=> row # NoRow)

\* A key that was disabled while no request held it stays out of use until it
\* is enabled again, whatever happens to it: a new day, the reset worker's late
\* write, a reset of cooldowns, its being added once more, a restart
\* (UpdateKeysStatus, ResetKeysCooldown, migrate, ResetDailyUsageIfNewDay).
DisabledStays ==
  barred => /\ row # NoRow => row.status = "disabled"
            /\ current # 0 => objs[current].status = "disabled"

\* What the comment on the store's ResetKeysCooldown says of the operation: it
\* does not re-enable permanent blocks.
Permanent == {"invalid", "disabled"}

ResetKeepsBlocks ==
  [][\A a \in Admins :
       (/\ adm[a].pc = "loading" /\ adm[a].op = "reset_cooldown" /\ adm'[a].pc = "idle"
        /\ current # 0 /\ current' = current)
          => (objs[current].status \in Permanent => objs'[current].status \in Permanent)]_vars

\* What the comment in Load says: it preserves the counters in memory.  Then a
\* key's counter covers the requests it was charged for today.
LoadPreservesCounter == current # 0 => served <= objs[current].usage
=============================================================================
