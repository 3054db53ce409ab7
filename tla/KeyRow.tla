------------------------------- MODULE KeyRow -------------------------------
(***************************************************************************)
(* The row of a key in the `keys' table (internal/store/sqlite.go) and the *)
(* conversions between the row and the KeyState in memory.  Every statement*)
(* on a row is atomic; the request times and the cooldowns of single models*)
(* are never stored.                                                       *)
(***************************************************************************)
EXTENDS KeyState

NoRow == [status |-> "none"]

RowRec == [status : Status, usage : Nat, day : Nat, maxLimit : Nat,
           remaining : Int, rpm : Nat, cooldown : Nat]

\* ToDB: the snapshot that UpdateKey writes.
ToDB(k) ==
  [status |-> k.status, usage |-> k.usage, day |-> k.day, maxLimit |-> k.maxLimit,
   remaining |-> k.remaining, rpm |-> k.rpm, cooldown |-> k.cooldown]

\* A mutant of UpdateKey: an upsert.
UpsertKey(row, snap) == snap

\* UpdateKey: an UPDATE, which leaves a table without the row as it is.
UpdateKey(row, snap) == IF row = NoRow THEN NoRow ELSE snap

\* NewKeyState: a key that the pool does not know yet.
NewKeyState(row) ==
  [status |-> row.status, usage |-> row.usage, day |-> row.day,
   maxLimit |-> row.maxLimit, remaining |-> row.remaining, rpm |-> row.rpm,
   cooldown |-> row.cooldown, times |-> {},
   modelTimes |-> [m \in Models |-> {}], modelCooldown |-> [m \in Models |-> 0]]

\* Load on a key that the pool knows: everything but the counter and the windows.
LoadInto(k, row) ==
  [k EXCEPT !.status = row.status, !.day = row.day, !.maxLimit = row.maxLimit,
            !.remaining = row.remaining, !.rpm = row.rpm, !.cooldown = row.cooldown]

\* AddKeys: a new row; an old one keeps everything that the pool looks at.
AddRow(row, maxLimit, rpm, today) ==
  IF row = NoRow
  THEN [status |-> "unchecked", usage |-> 0, day |-> today, maxLimit |-> maxLimit,
        remaining |-> 0, rpm |-> rpm, cooldown |-> 0]
  ELSE [row EXCEPT !.maxLimit = maxLimit]

\* UpdateKeysStatus on one row.
UpdateStatus(row, status) == IF row = NoRow THEN NoRow ELSE [row EXCEPT !.status = status]

\* ResetKeysCooldown on one row: only a rate limit is lifted.
ResetCooldown(row) ==
  IF row = NoRow THEN NoRow
  ELSE [row EXCEPT !.cooldown = 0,
                   !.status = IF @ = "rate_limited" THEN "unchecked" ELSE @]

\* A mutant of ResetStaleDay: the new day revives every key.
ReviveStaleDay(row, today) ==
  IF row = NoRow \/ row.day = today THEN row
  ELSE [row EXCEPT !.usage = 0, !.day = today, !.status = "active"]

\* What migrate does to the row when the gateway starts.
ResetStaleDay(row, today) ==
  IF row = NoRow \/ row.day = today THEN row
  ELSE [row EXCEPT !.usage = 0, !.day = today,
                   !.status = IF @ = "day_exhausted" THEN "active" ELSE @]
=============================================================================
