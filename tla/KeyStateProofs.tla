--------------------------- MODULE KeyStateProofs ---------------------------
(* Lemmas about the operators of KeyState and KeyRow: each maps key records*)
(* to key records, or rows to rows, and says what it does to the daily     *)
(* counter, its limit and the status.                                      *)
EXTENDS KeyRow, FiniteSetTheorems, TLAPS

\* A day number and the next midnight are natural numbers.
LEMMA DayType ==
  ASSUME NEW t \in Nat
  PROVE  UTCDay(t) \in Nat /\ NextMidnight(t) \in Nat
  BY TimeAssumption, SMT DEF UTCDay, NextMidnight

\* Trimming a multiset of request times leaves a multiset.
LEMMA CleanTimesType ==
  ASSUME NEW ts \in Multiset, NEW now \in Nat
  PROVE  CleanTimes(ts, now) \in Multiset
<1>1. CleanTimes(ts, now) \in SUBSET ts
  BY DEF CleanTimes
<1>2. IsFiniteSet(CleanTimes(ts, now))
  BY <1>1, FS_Subset DEF Multiset
<1>3. QED
  BY <1>1, <1>2 DEF Multiset

\* So does adding a time.
LEMMA AddTimeType ==
  ASSUME NEW ts \in Multiset, NEW now \in Nat
  PROVE  AddTime(ts, now) \in Multiset
<1> DEFINE same == {x \in ts : x[1] = now}
           new  == <<now, 1 + Cardinality(same)>>
<1>1. same \in SUBSET ts /\ IsFiniteSet(ts)
  BY DEF Multiset
<1>2. IsFiniteSet(same)
  BY <1>1, FS_Subset
<1>3. Cardinality(same) \in Nat
  BY <1>2, FS_CardinalityType
<1>4. new \in Nat \X Nat
  BY <1>3
<1>5. IsFiniteSet(ts \cup {new})
  BY <1>1, FS_AddElement
<1>6. ts \cup {new} \in Multiset
  BY <1>4, <1>5 DEF Multiset
<1>7. QED
  BY <1>6 DEF AddTime

\* The daily reset clears the counter exactly when the key's day is over.
LEMMA ResetFacts ==
  ASSUME NEW k \in KeyRec, NEW today \in Nat
  PROVE  LET r == ResetDailyUsageIfNewDay(k, today)
         IN  /\ r \in KeyRec
             /\ r.maxLimit = k.maxLimit
             /\ r.usage = IF k.day = today THEN k.usage ELSE 0
             /\ r.day = today
  BY DEF ResetDailyUsageIfNewDay, KeyRec, Status

\* Looking at a key costs it no more than the daily reset.
LEMMA AfterUsableFacts ==
  ASSUME NEW k \in KeyRec, NEW today \in Nat, NEW now \in Nat
  PROVE  LET r == AfterUsable(k, now, today)
         IN  /\ r \in KeyRec
             /\ r.maxLimit = k.maxLimit
             /\ r.usage = IF k.day = today THEN k.usage ELSE 0
             /\ r.day = today
<1> DEFINE r == ResetDailyUsageIfNewDay(k, today)
<1>1. /\ r \in KeyRec /\ r.maxLimit = k.maxLimit /\ r.day = today
      /\ r.usage = IF k.day = today THEN k.usage ELSE 0
  BY ResetFacts
<1>2. r.times \in Multiset
  BY <1>1 DEF KeyRec
<1>3. CleanTimes(r.times, now) \in Multiset
  BY <1>2, CleanTimesType
<1>4. /\ [r EXCEPT !.times = CleanTimes(@, now)] \in KeyRec
      /\ [r EXCEPT !.times = CleanTimes(@, now)].maxLimit = r.maxLimit
      /\ [r EXCEPT !.times = CleanTimes(@, now)].usage = r.usage
      /\ [r EXCEPT !.times = CleanTimes(@, now)].day = r.day
  BY <1>1, <1>3 DEF KeyRec
<1>5. QED
  BY <1>1, <1>4 DEF AfterUsable

\* The status a charge leaves is a status, and touches nothing else.
LEMMA ChargedFacts ==
  ASSUME NEW c \in KeyRec
  PROVE  LET r == [c EXCEPT !.status = ChargedStatus(c)]
         IN  /\ r \in KeyRec /\ r.maxLimit = c.maxLimit
             /\ r.usage = c.usage /\ r.day = c.day
<1>1. ChargedStatus(c) \in Status
  BY DEF ChargedStatus, KeyRec, Status
<1>2. QED
  BY <1>1 DEF KeyRec

\* A charge adds one to the counter of the current day.
LEMMA RegisterFacts ==
  ASSUME NEW k \in KeyRec, NEW today \in Nat, NEW now \in Nat
  PROVE  LET r == Register(k, now, today)
         IN  /\ r \in KeyRec
             /\ r.maxLimit = k.maxLimit
             /\ r.usage = 1 + (IF k.day = today THEN k.usage ELSE 0)
             /\ r.day = UTCDay(now)
<1> DEFINE r   == ResetDailyUsageIfNewDay(k, today)
           u   == r.usage + 1
           rem == IF r.remaining > 0 THEN r.remaining - 1 ELSE r.remaining
           d   == UTCDay(now)
           ts  == AddTime(r.times, now)
           c   == [r EXCEPT !.usage = u, !.remaining = rem, !.day = d, !.times = ts]
<1>1. /\ r \in KeyRec /\ r.maxLimit = k.maxLimit
      /\ r.usage = IF k.day = today THEN k.usage ELSE 0
  BY ResetFacts
<1>2. /\ r.times \in Multiset
      /\ r.usage \in Nat
      /\ r.remaining \in Int
  BY <1>1 DEF KeyRec
<1>3. ts \in Multiset /\ d \in Nat
  BY <1>2, AddTimeType, DayType
<1>4. u \in Nat /\ rem \in Int
  BY <1>2
<1>5. Register(k, now, today) = [c EXCEPT !.status = ChargedStatus(c)]
  BY DEF Register
<1>6. u = 1 + (IF k.day = today THEN k.usage ELSE 0)
  BY <1>1, <1>2
<1>7. c \in KeyRec /\ c.maxLimit = k.maxLimit /\ c.usage = u /\ c.day = d
  <2> HIDE DEF r, u, rem, d, ts
  <2>1. QED
    BY <1>1, <1>3, <1>4 DEF KeyRec
<1>8. QED
  <2> HIDE DEF c, u
  <2>1. QED
    BY <1>5, <1>6, <1>7, ChargedFacts

\* So does a charge against a model's limit.
LEMMA RegisterModelFacts ==
  ASSUME NEW k \in KeyRec, NEW today \in Nat, NEW now \in Nat, NEW m \in Models
  PROVE  LET r == RegisterModel(k, now, today, m)
         IN  /\ r \in KeyRec
             /\ r.maxLimit = k.maxLimit
             /\ r.usage = 1 + (IF k.day = today THEN k.usage ELSE 0)
             /\ r.day = UTCDay(now)
<1> DEFINE r   == ResetDailyUsageIfNewDay(k, today)
           u   == r.usage + 1
           d   == UTCDay(now)
           mts == [r.modelTimes EXCEPT ![m] = AddTime(CleanTimes(@, now), now)]
           c   == [r EXCEPT !.usage = u, !.day = d, !.modelTimes = mts]
<1>1. /\ r \in KeyRec /\ r.maxLimit = k.maxLimit
      /\ r.usage = IF k.day = today THEN k.usage ELSE 0
  BY ResetFacts
<1>2. /\ r.modelTimes \in [Models -> Multiset] /\ r.modelTimes[m] \in Multiset
      /\ r.usage \in Nat
  BY <1>1 DEF KeyRec
<1>3. AddTime(CleanTimes(r.modelTimes[m], now), now) \in Multiset /\ d \in Nat
  BY <1>2, CleanTimesType, AddTimeType, DayType
<1>4. u \in Nat /\ mts \in [Models -> Multiset]
  BY <1>2, <1>3
<1>5. RegisterModel(k, now, today, m) = [c EXCEPT !.status = ChargedStatus(c)]
  BY DEF RegisterModel
<1>6. u = 1 + (IF k.day = today THEN k.usage ELSE 0)
  BY <1>1, <1>2
<1>7. c \in KeyRec /\ c.maxLimit = k.maxLimit /\ c.usage = u /\ c.day = d
  <2> HIDE DEF r, u, d, mts
  <2>1. QED
    BY <1>1, <1>3, <1>4 DEF KeyRec
<1>8. QED
  <2> HIDE DEF c, u
  <2>1. QED
    BY <1>5, <1>6, <1>7, ChargedFacts

\* A refused reservation of a model's slot costs the key nothing.
LEMMA ModelRefusalFacts ==
  ASSUME NEW k \in KeyRec, NEW today \in Nat, NEW now \in Nat, NEW m \in Models
  PROVE  LET r == AfterModelRefusal(k, now, today, m)
         IN  /\ r \in KeyRec
             /\ r.maxLimit = k.maxLimit
             /\ r.usage = IF k.day = today THEN k.usage ELSE 0
             /\ r.day = today
<1> DEFINE r == ResetDailyUsageIfNewDay(k, today)
           c == [r EXCEPT !.modelTimes[m] = CleanTimes(@, now)]
<1>1. /\ r \in KeyRec /\ r.maxLimit = k.maxLimit /\ r.day = today
      /\ r.usage = IF k.day = today THEN k.usage ELSE 0
  BY ResetFacts
<1>2. r.modelTimes \in [Models -> Multiset] /\ r.modelTimes[m] \in Multiset
  BY <1>1 DEF KeyRec
<1>3. [r.modelTimes EXCEPT ![m] = CleanTimes(@, now)] \in [Models -> Multiset]
  BY <1>2, CleanTimesType
<1>4. c \in KeyRec /\ c.maxLimit = r.maxLimit /\ c.usage = r.usage /\ c.day = r.day
  BY <1>1, <1>3 DEF KeyRec
<1>5. QED
  BY <1>1, <1>4 DEF AfterModelRefusal

\* A refund takes one off the counter unless the counter is already zero.
LEMMA RollbackFacts ==
  ASSUME NEW k \in KeyRec
  PROVE  LET r == RollbackUsage(k)
         IN  /\ r \in KeyRec
             /\ r.maxLimit = k.maxLimit
             /\ r.usage = IF k.usage > 0 THEN k.usage - 1 ELSE 0
             /\ r.day = k.day
<1> DEFINE u == IF k.usage > 0 THEN k.usage - 1 ELSE k.usage
           r == [k EXCEPT !.usage = u]
<1>1. u \in Nat /\ u = IF k.usage > 0 THEN k.usage - 1 ELSE 0
  BY DEF KeyRec
<1>2. RollbackUsage(k) = IF r.status = "day_exhausted" /\ HasQuota(r)
                         THEN [r EXCEPT !.status = "active"] ELSE r
  BY DEF RollbackUsage
<1>3. r \in KeyRec /\ r.maxLimit = k.maxLimit /\ r.usage = u /\ r.day = k.day
  <2> HIDE DEF u
  <2>1. QED
    BY <1>1 DEF KeyRec
<1>4. LET a == [r EXCEPT !.status = "active"]
      IN  a \in KeyRec /\ a.maxLimit = r.maxLimit /\ a.usage = r.usage /\ a.day = r.day
  <2> HIDE DEF r
  <2>1. QED
    BY <1>3 DEF KeyRec, Status
<1>5. QED
  <2> HIDE DEF r, u
  <2>1. QED
    BY <1>1, <1>2, <1>3, <1>4

LEMMA SetCooldownFacts ==
  ASSUME NEW k \in KeyRec, NEW until \in Nat, NEW status \in Status \cup {""}
  PROVE  LET r == SetCooldown(k, until, status)
         IN  /\ r \in KeyRec
             /\ r.maxLimit = k.maxLimit
             /\ r.usage = k.usage
             /\ r.day = k.day
  BY DEF SetCooldown, KeyRec, Status

\* Exhausting a key raises its counter to the limit, if it has one.
LEMMA MarkFacts ==
  ASSUME NEW k \in KeyRec, NEW today \in Nat
  PROVE  LET r == MarkDayExhausted(k, today)
         IN  /\ r \in KeyRec
             /\ r.maxLimit = k.maxLimit
             /\ r.usage = IF k.maxLimit > 0 THEN k.maxLimit ELSE k.usage
             /\ r.day = today
  BY DEF MarkDayExhausted, KeyRec, Status

LEMMA SetStatusFacts ==
  ASSUME NEW k \in KeyRec, NEW today \in Nat
  PROVE  LET r == SetStatus(k, "invalid", today)
         IN  /\ r \in KeyRec
             /\ r.maxLimit = k.maxLimit
             /\ r.usage = IF k.day = today THEN k.usage ELSE 0
             /\ r.day = today
<1> DEFINE r == ResetDailyUsageIfNewDay(k, today)
<1>1. /\ r \in KeyRec /\ r.maxLimit = k.maxLimit /\ r.day = today
      /\ r.usage = IF k.day = today THEN k.usage ELSE 0
  BY ResetFacts
<1>2. /\ [r EXCEPT !.status = "invalid"] \in KeyRec
      /\ [r EXCEPT !.status = "invalid"].maxLimit = r.maxLimit
      /\ [r EXCEPT !.status = "invalid"].usage = r.usage
      /\ [r EXCEPT !.status = "invalid"].day = r.day
  BY <1>1 DEF KeyRec, Status
<1>3. QED
  BY <1>1, <1>2 DEF SetStatus

LEMMA AnyStatusFacts ==
  ASSUME NEW k \in KeyRec, NEW status \in Status, NEW today \in Nat
  PROVE  LET r == SetStatus(k, status, today)
             u == IF k.day = today THEN k.usage ELSE 0
         IN  /\ r \in KeyRec
             /\ r.maxLimit = k.maxLimit
             /\ r.usage = IF status = "day_exhausted" /\ k.maxLimit > 0 THEN k.maxLimit ELSE u
             /\ r.day = today
             /\ r.status = status
<1> DEFINE r == ResetDailyUsageIfNewDay(k, today)
<1>1. /\ r \in KeyRec /\ r.maxLimit = k.maxLimit /\ r.day = today
      /\ r.usage = IF k.day = today THEN k.usage ELSE 0
  BY ResetFacts
<1>2. SetStatus(k, status, today) = IF status = "day_exhausted" THEN MarkDayExhausted(r, today)
                                   ELSE [r EXCEPT !.status = status]
  BY DEF SetStatus
<1> HIDE DEF r
<1>3. CASE status = "day_exhausted"
  <2>1. MarkDayExhausted(r, today).status = "day_exhausted"
    BY <1>1 DEF MarkDayExhausted, KeyRec
  <2>2. QED
    BY <1>1, <1>2, <1>3, <2>1, MarkFacts
<1>4. CASE status # "day_exhausted"
  BY <1>1, <1>2, <1>4 DEF KeyRec
<1>5. QED
  BY <1>3, <1>4

LEMMA SetModelCooldownFacts ==
  ASSUME NEW k \in KeyRec, NEW m \in Models, NEW until \in Nat
  PROVE  LET r == SetModelCooldown(k, m, until)
         IN  /\ r \in KeyRec
             /\ r.maxLimit = k.maxLimit
             /\ r.usage = k.usage
             /\ r.day = k.day
  BY DEF SetModelCooldown, KeyRec

(***************************************************************************)
(* Blocked keys.                                                           *)
(***************************************************************************)
\* Nobody gets a disabled key, and neither a new day nor a look at it changes
\* that.
LEMMA DisabledFacts ==
  ASSUME NEW k \in KeyRec, k.status = "disabled", NEW today \in Nat, NEW now \in Nat
  PROVE  /\ ResetDailyUsageIfNewDay(k, today).status = "disabled"
         /\ AfterUsable(k, now, today).status = "disabled"
         /\ ~Usable(k, now, today)
<1> DEFINE r == ResetDailyUsageIfNewDay(k, today)
<1>1. r.status = "disabled"
  BY DEF ResetDailyUsageIfNewDay, KeyRec
<1>2. ~AllowedNow(r, now)
  BY <1>1 DEF AllowedNow, Blocked
<1>3. AfterUsable(k, now, today) = r
  BY <1>2 DEF AfterUsable
<1>4. QED
  BY <1>1, <1>2, <1>3 DEF Usable

(***************************************************************************)
(* Rows.                                                                   *)
(***************************************************************************)
\* The absence of a row is told from a row.
LEMMA NoRowIsNone == NoRow \notin RowRec
<1>1. \A r \in RowRec : r.status # NoRow.status
  BY DEF RowRec, NoRow, Status
<1>2. QED
  BY <1>1

\* The snapshot that is written has the status and the counter of the key.
LEMMA ToDBFacts ==
  ASSUME NEW k \in KeyRec
  PROVE  /\ ToDB(k) \in RowRec /\ ToDB(k).day = k.day /\ ToDB(k).status = k.status
         /\ ToDB(k).usage = k.usage /\ ToDB(k).cooldown = k.cooldown
  BY DEF ToDB, KeyRec, RowRec

\* A key made from a row, and a key that Load brings up to date.
LEMMA LoadFacts ==
  ASSUME NEW r \in RowRec
  PROVE  /\ NewKeyState(r) \in KeyRec /\ NewKeyState(r).status = r.status
         /\ \A k \in KeyRec : LoadInto(k, r) \in KeyRec /\ LoadInto(k, r).status = r.status
<1>1. {} \in Multiset
  BY FS_EmptySet DEF Multiset
<1>2. NewKeyState(r) \in KeyRec /\ NewKeyState(r).status = r.status
  BY <1>1 DEF NewKeyState, KeyRec, RowRec
<1>3. ASSUME NEW k \in KeyRec
      PROVE  LoadInto(k, r) \in KeyRec /\ LoadInto(k, r).status = r.status
  BY DEF LoadInto, KeyRec, RowRec
<1>4. QED
  BY <1>2, <1>3

\* A key that is added for the first time.
LEMMA NewRowFacts ==
  ASSUME NEW maxLimit \in Nat, NEW rpm \in Nat, NEW today \in Nat
  PROVE  LET r == AddRow(NoRow, maxLimit, rpm, today)
         IN  r \in RowRec /\ r.usage = 0 /\ r.status = "unchecked"
  BY DEF AddRow, RowRec, Status

\* The statements of the administrators keep a row a row.
LEMMA RowFacts ==
  ASSUME NEW r \in RowRec, NEW maxLimit \in Nat, NEW rpm \in Nat, NEW today \in Nat,
         NEW status \in Status
  PROVE  /\ AddRow(r, maxLimit, rpm, today) \in RowRec
         /\ AddRow(r, maxLimit, rpm, today).status = r.status
         /\ UpdateStatus(r, status) \in RowRec /\ UpdateStatus(r, status).status = status
         /\ ResetCooldown(r) \in RowRec
         /\ r.status # "rate_limited" => ResetCooldown(r).status = r.status
<1>1. r # NoRow
  BY NoRowIsNone
<1>2. AddRow(r, maxLimit, rpm, today) \in RowRec /\ AddRow(r, maxLimit, rpm, today).status = r.status
  BY <1>1 DEF AddRow, RowRec
<1>3. UpdateStatus(r, status) \in RowRec /\ UpdateStatus(r, status).status = status
  BY <1>1 DEF UpdateStatus, RowRec
<1>4. /\ ResetCooldown(r) \in RowRec
      /\ r.status # "rate_limited" => ResetCooldown(r).status = r.status
  BY <1>1 DEF ResetCooldown, RowRec, Status
<1>5. QED
  BY <1>2, <1>3, <1>4

\* So does the start, which revives exhausted keys only.
LEMMA StaleRowFacts ==
  ASSUME NEW r \in RowRec, NEW today \in Nat
  PROVE  /\ ResetStaleDay(r, today) \in RowRec
         /\ r.status # "day_exhausted" => ResetStaleDay(r, today).status = r.status
<1>1. r # NoRow
  BY NoRowIsNone
<1>2. QED
  BY <1>1 DEF ResetStaleDay, RowRec, Status

-----------------------------------------------------------------------------
(* The lists of request times: what a method leaves of them.               *)

\* The times of the requests for m, or of those bound to no model.
Lane(k, m) == IF m = NoModel THEN k.times ELSE k.modelTimes[m]

\* r is k with no time of the last window gone, and none added.
Trims(k, r, now) ==
  /\ r.rpm = k.rpm
  /\ \A m \in Models \cup {NoModel} :
       Lane(r, m) \subseteq Lane(k, m) /\ CleanTimes(Lane(k, m), now) \subseteq Lane(r, m)

\* r is k with one more time in the lane of m, which is trimmed first.
Stamps(k, r, m, now) ==
  /\ r.rpm = k.rpm
  /\ Lane(r, m) = AddTime(CleanTimes(Lane(k, m), now), now)
  /\ \A o \in (Models \cup {NoModel}) \ {m} : Lane(r, o) = Lane(k, o)

LEMMA LaneType ==
  ASSUME NEW k \in KeyRec, NEW m \in Models \cup {NoModel}
  PROVE  Lane(k, m) \in Multiset
  BY DEF Lane, KeyRec

LEMMA SameLanes ==
  ASSUME NEW k, NEW r, NEW now, r.rpm = k.rpm, r.times = k.times, r.modelTimes = k.modelTimes
  PROVE  Trims(k, r, now)
  BY DEF Trims, Lane, CleanTimes

\* The methods that take no times away.
LEMMA PenaltiesTrim ==
  ASSUME NEW k \in KeyRec, NEW today \in Nat, NEW now
  PROVE  /\ Trims(k, ResetDailyUsageIfNewDay(k, today), now)
         /\ Trims(k, RollbackUsage(k), now)
         /\ \A until, status : Trims(k, SetCooldown(k, until, status), now)
         /\ Trims(k, MarkDayExhausted(k, today), now)
         /\ Trims(k, SetStatus(k, "invalid", today), now)
         /\ \A m, until : Trims(k, SetModelCooldown(k, m, until), now)
<1> DEFINE Same(r) == r.rpm = k.rpm /\ r.times = k.times /\ r.modelTimes = k.modelTimes
<1>1. Same(ResetDailyUsageIfNewDay(k, today))
  BY DEF ResetDailyUsageIfNewDay, KeyRec
<1>2. Same(RollbackUsage(k))
  BY DEF RollbackUsage, KeyRec
<1>3. ASSUME NEW until, NEW status PROVE Same(SetCooldown(k, until, status))
  BY DEF SetCooldown, KeyRec
<1>4. Same(MarkDayExhausted(k, today))
  BY DEF MarkDayExhausted, KeyRec
<1>5. Same(SetStatus(k, "invalid", today))
  BY <1>1, ResetFacts DEF SetStatus, KeyRec
<1>6. ASSUME NEW m, NEW until PROVE Same(SetModelCooldown(k, m, until))
  BY DEF SetModelCooldown, KeyRec
<1>. QED BY <1>1, <1>2, <1>3, <1>4, <1>5, <1>6, SameLanes

\* What the question whether a key may serve leaves of its times.
LEMMA AfterUsableTrims ==
  ASSUME NEW k \in KeyRec, NEW today \in Nat, NEW now \in Nat
  PROVE  /\ Trims(k, AfterUsable(k, now, today), now)
         /\ Usable(k, now, today) => AfterUsable(k, now, today).times = CleanTimes(k.times, now)
         /\ AfterUsable(k, now, today).rpm = k.rpm
         /\ AfterUsable(k, now, today).modelTimes = k.modelTimes
<1> DEFINE r == ResetDailyUsageIfNewDay(k, today)
           c == [r EXCEPT !.times = CleanTimes(r.times, now)]
           a == AfterUsable(k, now, today)
<1>1. r \in KeyRec /\ r.rpm = k.rpm /\ r.times = k.times /\ r.modelTimes = k.modelTimes
  BY ResetFacts DEF ResetDailyUsageIfNewDay, KeyRec
<1>2. a = IF AllowedNow(r, now) THEN c ELSE r
  BY DEF AfterUsable
<1> HIDE DEF r
<1>3. c.times = CleanTimes(k.times, now) /\ c.rpm = k.rpm /\ c.modelTimes = k.modelTimes
  BY <1>1 DEF KeyRec
<1>4. Trims(k, c, now)
  BY <1>3 DEF Trims, Lane, CleanTimes
<1>5. Trims(k, r, now)
  BY <1>1, SameLanes
<1>6. Usable(k, now, today) => AllowedNow(a, now)
  BY DEF Usable
<1>7. Usable(k, now, today) => a = c
  BY <1>2, <1>6
<1> HIDE DEF c, a
<1>. QED BY <1>1, <1>2, <1>3, <1>4, <1>5, <1>7 DEF a

LEMMA ModelRefusalTrims ==
  ASSUME NEW k \in KeyRec, NEW today \in Nat, NEW now \in Nat, NEW m \in Models
  PROVE  Trims(k, AfterModelRefusal(k, now, today, m), now)
<1> DEFINE r == ResetDailyUsageIfNewDay(k, today)
           c == [r EXCEPT !.modelTimes = [r.modelTimes EXCEPT ![m] = CleanTimes(r.modelTimes[m], now)]]
<1>1. r \in KeyRec /\ r.rpm = k.rpm /\ r.times = k.times /\ r.modelTimes = k.modelTimes
  BY ResetFacts DEF ResetDailyUsageIfNewDay, KeyRec
<1>2. AfterModelRefusal(k, now, today, m) = IF UsableForModel(k, now, today, m) THEN c ELSE r
  BY DEF AfterModelRefusal
<1> HIDE DEF r
<1>3. k.modelTimes \in [Models -> Multiset]
  BY DEF KeyRec
<1>4. /\ c.times = k.times /\ c.rpm = k.rpm
      /\ \A o \in Models : c.modelTimes[o] = IF o = m THEN CleanTimes(k.modelTimes[m], now) ELSE k.modelTimes[o]
  BY <1>1, <1>3 DEF KeyRec
<1> HIDE DEF c
<1>5. Trims(k, c, now)
  BY <1>4 DEF Trims, Lane, CleanTimes
<1>6. Trims(k, r, now)
  BY <1>1, SameLanes
<1>. QED BY <1>2, <1>5, <1>6

\* What a request s leaves behind when it looks at a key or is refused by it.
LEMMA RequestTrims ==
  ASSUME NEW k \in KeyRec, NEW today \in Nat, NEW s, s.now \in Nat, s.model \in Models \cup {NoModel}
  PROVE  Trims(k, Looked(k, s, today), s.now) /\ Trims(k, Refused(k, s, today), s.now)
<1>1. CASE s.model = NoModel
  BY <1>1, AfterUsableTrims DEF Looked, Refused
<1>2. CASE s.model # NoModel
  BY <1>2, PenaltiesTrim, ModelRefusalTrims DEF Looked, Refused
<1>. QED BY <1>1, <1>2

\* A charge stamps its own lane, and only if there is room in the window.
LEMMA ChargeStamps ==
  ASSUME NEW k \in KeyRec, NEW today \in Nat, NEW s, s.now \in Nat, s.model \in Models \cup {NoModel},
         Reservable(k, s, today)
  PROVE  /\ Stamps(k, Charge(k, s, today), s.model, s.now)
         /\ Cardinality(CleanTimes(Lane(k, s.model), s.now))
              < IF s.model = NoModel THEN k.rpm ELSE ModelRPM
<1> DEFINE now == s.now
           m   == s.model
<1>1. now \in Nat /\ m \in Models \cup {NoModel}
  OBVIOUS
<1>2. CASE m = NoModel
  <2> DEFINE a == AfterUsable(k, now, today)
             r == ResetDailyUsageIfNewDay(a, today)
             ts == AddTime(r.times, now)
             c == [r EXCEPT !.usage = r.usage + 1,
                            !.remaining = IF r.remaining > 0 THEN r.remaining - 1 ELSE r.remaining,
                            !.day = UTCDay(now), !.times = ts]
             g == [c EXCEPT !.status = ChargedStatus(c)]
  <2>1. Usable(k, now, today) /\ Charge(k, s, today) = Register(a, now, today)
    BY <1>2 DEF Reservable, UsableFor, Charge
  <2>2. a \in KeyRec /\ a.times = CleanTimes(k.times, now) /\ a.rpm = k.rpm /\ a.modelTimes = k.modelTimes
    BY <1>1, <2>1, AfterUsableTrims, AfterUsableFacts
  <2>3. Cardinality(a.times) < a.rpm
    BY <2>1 DEF Usable
  <2>4. Register(a, now, today) = g
    BY DEF Register
  <2> HIDE DEF a
  <2>5. r \in KeyRec
    BY <2>2, ResetFacts
  <2>8. r.times = a.times /\ r.rpm = a.rpm /\ r.modelTimes = a.modelTimes
    BY <2>2 DEF ResetDailyUsageIfNewDay, KeyRec
  <2> HIDE DEF r, ts
  <2>6. g.times = ts /\ g.rpm = r.rpm /\ g.modelTimes = r.modelTimes
    BY <2>5 DEF KeyRec
  <2> HIDE DEF g
  <2>7. Stamps(k, g, NoModel, now)
    BY <2>2, <2>6, <2>8 DEF Stamps, Lane, ts
  <2>. QED BY <1>2, <2>1, <2>2, <2>3, <2>4, <2>7 DEF Lane
<1>3. CASE m # NoModel
  <2> DEFINE r == ResetDailyUsageIfNewDay(k, today)
             mts == [r.modelTimes EXCEPT ![m] = AddTime(CleanTimes(r.modelTimes[m], now), now)]
             c == [r EXCEPT !.usage = r.usage + 1, !.day = UTCDay(now), !.modelTimes = mts]
             g == [c EXCEPT !.status = ChargedStatus(c)]
  <2>1. m \in Models /\ Charge(k, s, today) = g
    BY <1>1, <1>3 DEF Charge, RegisterModel
  <2>2. Cardinality(CleanTimes(k.modelTimes[m], now)) < ModelRPM
    BY <1>3 DEF Reservable, ModelSlotFree
  <2>3. r \in KeyRec /\ r.times = k.times /\ r.rpm = k.rpm /\ r.modelTimes = k.modelTimes
    BY ResetFacts DEF ResetDailyUsageIfNewDay, KeyRec
  <2> HIDE DEF r
  <2>4. k.modelTimes \in [Models -> Multiset]
    BY DEF KeyRec
  <2>5. \A o \in Models : mts[o] = IF o = m THEN AddTime(CleanTimes(k.modelTimes[m], now), now)
                                   ELSE k.modelTimes[o]
    BY <2>1, <2>3, <2>4
  <2> HIDE DEF mts
  <2>6. g.times = r.times /\ g.rpm = r.rpm /\ g.modelTimes = mts
    BY <2>3 DEF KeyRec
  <2> HIDE DEF g
  <2>7. Stamps(k, g, m, now)
    BY <1>3, <2>1, <2>3, <2>5, <2>6 DEF Stamps, Lane
  <2>. QED BY <1>3, <2>1, <2>2, <2>7 DEF Lane
<1>. QED BY <1>2, <1>3
=============================================================================
