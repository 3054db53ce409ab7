--------------------------- MODULE KeyPoolProofs ----------------------------
(* PoolInv is an inductive invariant of the key pool, and bounds what one  *)
(* count of a key can charge: the daily quota.                             *)
(*                                                                         *)
(* The pool implements the dispenser: the steps of its scan map to steps of*)
(* the dispenser or to nothing, under the mapping `asked'.  The one step   *)
(* that could break the promise is a refusal.  It is allowed because a key *)
(* that the scan has left behind, or that was lost in a race, was unusable *)
(* when the scan looked at it and so did not stay free (Behind, Lost): what*)
(* is still free lies ahead of the scan.                                   *)
(*                                                                         *)
(* The minute windows: the lists of times that a key keeps are tied to the *)
(* history of what it was charged promptly (LaneOK).                       *)
EXTENDS KeySelection, KeyWindow, KeyStateProofs

\* The numbers among the constants.
LEMMA NumberConstants ==
  NumKeys \in Nat /\ DailyLimit \in Nat /\ MaxTime \in Nat /\ Durations \subseteq Nat
  BY PoolAssumption

(***************************************************************************)
(* Facts about the sets the ledger counts.                                 *)
(***************************************************************************)
LEMMA LedgerFinite ==
  ASSUME TypeOK, NEW k \in Keys
  PROVE  /\ IsFiniteSet(OpenCharges(k)) /\ Cardinality(OpenCharges(k)) \in Nat
         /\ IsFiniteSet(late[k]) /\ Cardinality(late[k]) \in Nat
<1>1. OpenCharges(k) \in SUBSET Callers /\ late[k] \in SUBSET Callers
  BY DEF TypeOK, OpenCharges
<1>2. IsFiniteSet(OpenCharges(k)) /\ IsFiniteSet(late[k])
  BY <1>1, PoolAssumption, FS_Subset
<1>3. QED
  BY <1>2, FS_CardinalityType

LEMMA TodayType ==
  ASSUME TypeOK
  PROVE  clock \in Nat /\ Today \in Nat
<1>1. clock \in Nat
  <2>1. clock \in 0 .. MaxTime
    BY DEF TypeOK
  <2>2. QED
    BY <2>1, NumberConstants
<1>2. UTCDay(clock) \in Nat
  BY <1>1, DayType
<1>3. QED
  BY <1>1, <1>2 DEF Today

\* A step that moves no charge and lowers no counter keeps the books balanced.
LEMMA BooksSame ==
  ASSUME PoolInv, UNCHANGED ledger,
         \A c \in counted : sel'[c].best = sel[c].best,
         \A k \in Keys : mem'[k].usage \in Nat /\ mem'[k].usage >= mem[k].usage
  PROVE  CounterCoversCharges'
<1> SUFFICES ASSUME NEW k \in Keys
             PROVE  (Charged(k) <= mem[k].usage + Cardinality(late[k]))'
  BY DEF CounterCoversCharges
<1>1. OpenCharges(k)' = OpenCharges(k)
  BY DEF OpenCharges, ledger
<1>2. late'[k] = late[k] /\ kept'[k] = kept[k]
  BY DEF ledger
<1>3. Charged(k) <= mem[k].usage + Cardinality(late[k])
  BY DEF PoolInv, CounterCoversCharges
<1>4. /\ Cardinality(OpenCharges(k)) \in Nat /\ Cardinality(late[k]) \in Nat
      /\ kept[k] \in Nat /\ mem[k].usage \in Nat
  BY LedgerFinite DEF PoolInv, TypeOK, KeyRec
<1>5. QED
  BY <1>1, <1>2, <1>3, <1>4 DEF Charged

\* A method of key k that starts with the daily reset, and the recount that
\* goes with it, keep the books balanced.
LEMMA BooksRecount ==
  ASSUME PoolInv, NEW k \in Keys, Recount(k), NEW r \in KeyRec,
         mem' = [mem EXCEPT ![k] = r],
         r.usage = IF mem[k].day = Today THEN mem[k].usage ELSE 0,
         \A c \in counted : sel'[c].best = sel[c].best
  PROVE  CounterCoversCharges'
<1> SUFFICES ASSUME NEW j \in Keys
             PROVE  (Charged(j) <= mem[j].usage + Cardinality(late[j]))'
  BY DEF CounterCoversCharges
<1>1. Charged(j) <= mem[j].usage + Cardinality(late[j])
  BY DEF PoolInv, CounterCoversCharges
<1>2. mem \in [Keys -> KeyRec] /\ late \in [Keys -> SUBSET Callers] /\ kept \in [Keys -> Nat]
  BY DEF PoolInv, TypeOK
<1>3. CASE ~NewCount(k)
  <2>1. UNCHANGED ledger
    BY <1>3 DEF Recount, ledger
  <2>2. \A i \in Keys : mem'[i].usage \in Nat /\ mem'[i].usage >= mem[i].usage
    BY <1>2, <1>3 DEF NewCount, KeyRec
  <2>3. QED
    BY <2>1, <2>2, BooksSame DEF CounterCoversCharges
<1>4. CASE NewCount(k) /\ j = k
  <2>1. OpenCharges(j)' = {}
    BY <1>4 DEF Recount, OpenCharges
  <2>2. kept'[j] = 0 /\ late'[j] = {}
    BY <1>2, <1>4 DEF Recount
  <2>3. mem'[j].usage = 0
    BY <1>2, <1>4 DEF NewCount
  <2>4. QED
    BY <2>1, <2>2, <2>3, FS_EmptySet DEF Charged
<1>5. CASE NewCount(k) /\ j # k
  <2>1. OpenCharges(j)' = OpenCharges(j)
    BY <1>5 DEF Recount, OpenCharges
  <2>2. kept'[j] = kept[j] /\ late'[j] = late[j] /\ mem'[j] = mem[j]
    BY <1>2, <1>5 DEF Recount
  <2>3. QED
    BY <1>1, <2>1, <2>2 DEF Charged
<1>6. QED
  BY <1>3, <1>4, <1>5

(***************************************************************************)
(* Steps that share a shape.                                               *)
(***************************************************************************)

\* One key changes, its limit stays, its counter stays within it.
LEMMA KeyStep ==
  ASSUME PoolInv, NEW k \in Keys, NEW r \in KeyRec,
         mem' = [mem EXCEPT ![k] = r],
         r.maxLimit = mem[k].maxLimit,
         DailyLimit > 0 => r.usage <= DailyLimit
  PROVE  mem' \in [Keys -> KeyRec] /\ LimitFixed' /\ UsageWithinLimit'
<1>1. mem \in [Keys -> KeyRec]
  BY DEF PoolInv, TypeOK
<1>2. mem' \in [Keys -> KeyRec]
  BY <1>1
<1>3. \A j \in Keys : mem'[j] = IF j = k THEN r ELSE mem[j]
  BY <1>1
<1>4. LimitFixed'
  BY <1>3 DEF PoolInv, LimitFixed
<1>5. UsageWithinLimit'
  BY <1>3 DEF PoolInv, UsageWithinLimit
<1>6. QED
  BY <1>2, <1>4, <1>5

\* A caller moves on without touching a key.
LEMMA SelStep ==
  ASSUME PoolInv, UNCHANGED <<clock, mem, ledger>>,
         NEW c \in Callers, NEW s \in SelRec,
         sel' = [sel EXCEPT ![c] = s],
         sel[c].pc # "held", s.pc # "held",
         s.pc \in {"reserve", "settled"} => s.best \in Keys
  PROVE  PoolInv'
<1>1. sel \in [Callers -> SelRec] /\ counted \in SUBSET Callers
  BY DEF PoolInv, TypeOK
<1>2. sel' \in [Callers -> SelRec] /\ \A d \in Callers : sel'[d] = IF d = c THEN s ELSE sel[d]
  BY <1>1
<1>3. TypeOK'
  BY <1>2 DEF PoolInv, TypeOK, ledger
<1>4. c \notin counted
  BY DEF PoolInv, HolderOK
<1>5. HolderOK'
  BY <1>1, <1>2, <1>4 DEF PoolInv, HolderOK, ledger
<1>6. LimitFixed' /\ UsageWithinLimit'
  BY DEF PoolInv, LimitFixed, UsageWithinLimit
<1>7. \A d \in counted : sel'[d].best = sel[d].best
  BY <1>1, <1>2, <1>4
<1>8. \A k \in Keys : mem'[k].usage \in Nat /\ mem'[k].usage >= mem[k].usage
  BY DEF PoolInv, TypeOK, KeyRec
<1>9. CounterCoversCharges'
  BY <1>7, <1>8, BooksSame
<1>10. QED
  BY <1>3, <1>5, <1>6, <1>9 DEF PoolInv

\* A method that starts with the daily reset and charges nothing.
LEMMA ResetStep ==
  ASSUME PoolInv, NEW k \in Keys, NEW r \in KeyRec, Recount(k), clock' = clock,
         mem' = [mem EXCEPT ![k] = r],
         r.maxLimit = mem[k].maxLimit,
         r.usage = IF mem[k].day = Today THEN mem[k].usage ELSE 0,
         sel' \in [Callers -> SelRec],
         \A c \in Callers : \/ sel'[c] = sel[c]
                            \/ /\ sel[c].pc # "held"
                               /\ sel'[c].pc = "scan"
  PROVE  PoolInv'
<1>1. /\ mem \in [Keys -> KeyRec] /\ counted \in SUBSET Callers
      /\ kept \in [Keys -> Nat] /\ late \in [Keys -> SUBSET Callers]
      /\ clock \in 0 .. MaxTime
  BY DEF PoolInv, TypeOK
<1>2. DailyLimit > 0 => r.usage <= DailyLimit
  <2>1. DailyLimit > 0 => mem[k].usage <= DailyLimit
    BY DEF PoolInv, UsageWithinLimit
  <2>2. DailyLimit \in Nat /\ mem[k].usage \in Nat
    BY <1>1, NumberConstants DEF KeyRec
  <2>3. QED
    BY <2>1, <2>2
<1>3. mem' \in [Keys -> KeyRec] /\ LimitFixed' /\ UsageWithinLimit'
  BY <1>2, KeyStep
<1>4. counted' \in SUBSET counted /\ kept' \in [Keys -> Nat]
  BY <1>1 DEF Recount
<1>5. /\ late' \in [Keys -> SUBSET Callers]
      /\ \A j \in Keys : late'[j] = IF NewCount(k) /\ j = k THEN {} ELSE late[j]
  BY <1>1 DEF Recount
<1>6. TypeOK'
  BY <1>1, <1>3, <1>4, <1>5 DEF TypeOK
<1>7. \A c \in counted : sel'[c] = sel[c]
  BY <1>1 DEF PoolInv, HolderOK
<1>8. HolderOK'
  <2>1. \A c \in Callers : sel'[c].pc \in {"reserve", "held", "settled"} => sel'[c].best \in Keys
    BY DEF PoolInv, HolderOK
  <2>2. \A c \in counted' : sel'[c].pc = "held"
    BY <1>4, <1>7 DEF PoolInv, HolderOK
  <2>3. ASSUME NEW c \in Callers, sel'[c].pc = "held", c \in late'[sel'[c].best]
        PROVE  c \in counted'
    <3>1. sel'[c] = sel[c]
      BY <2>3
    <3>2. sel[c].best \in Keys
      BY <2>3, <3>1 DEF PoolInv, HolderOK
    <3>3. c \in late[sel[c].best] /\ ~(NewCount(k) /\ sel[c].best = k)
      BY <1>5, <2>3, <3>1, <3>2
    <3>4. c \in counted
      BY <2>3, <3>1, <3>3 DEF PoolInv, HolderOK
    <3>5. QED
      BY <3>3, <3>4 DEF Recount, OpenCharges
  <2>4. QED
    BY <2>1, <2>2, <2>3 DEF HolderOK
<1>9. CounterCoversCharges'
  BY <1>7, BooksRecount
<1>10. QED
  BY <1>3, <1>6, <1>8, <1>9 DEF PoolInv

\* A penalty: one key changes and its counter does not go down.
LEMMA PenaltyStep ==
  ASSUME PoolInv, NEW k \in Keys, NEW r \in KeyRec, UNCHANGED <<clock, sel, ledger>>,
         mem' = [mem EXCEPT ![k] = r],
         r.maxLimit = mem[k].maxLimit,
         r.usage = mem[k].usage \/ (mem[k].maxLimit > 0 /\ r.usage = mem[k].maxLimit)
  PROVE  PoolInv'
<1>1. mem \in [Keys -> KeyRec]
  BY DEF PoolInv, TypeOK
<1>2. mem[k].maxLimit = DailyLimit /\ (DailyLimit > 0 => mem[k].usage <= DailyLimit)
  BY DEF PoolInv, LimitFixed, UsageWithinLimit
<1>3. /\ mem[k].usage \in Nat /\ DailyLimit \in Nat
      /\ r.usage \in Nat /\ r.usage >= mem[k].usage
      /\ DailyLimit > 0 => r.usage <= DailyLimit
  BY <1>1, <1>2, NumberConstants DEF KeyRec
<1>4. mem' \in [Keys -> KeyRec] /\ LimitFixed' /\ UsageWithinLimit'
  BY <1>3, KeyStep
<1>5. TypeOK' /\ HolderOK'
  BY <1>4 DEF PoolInv, TypeOK, HolderOK, ledger
<1>6. \A j \in Keys : mem'[j].usage \in Nat /\ mem'[j].usage >= mem[j].usage
  BY <1>1, <1>3 DEF KeyRec
<1>7. CounterCoversCharges'
  BY <1>6, BooksSame
<1>8. QED
  BY <1>4, <1>5, <1>7 DEF PoolInv

(***************************************************************************)
(* The steps.                                                              *)
(***************************************************************************)
LEMMA InitInv == Init => PoolInv
<1> SUFFICES ASSUME Init PROVE PoolInv
  OBVIOUS
<1>1. clock \in 0 .. MaxTime
  BY NumberConstants DEF Init
<1>2. {} \in Multiset
  BY FS_EmptySet DEF Multiset
<1>3. KeyRPM \in Nat
  BY PoolAssumption
<1>4. NewKey(0) \in KeyRec /\ NewKey(0).maxLimit = DailyLimit /\ NewKey(0).usage = 0
  BY <1>2, <1>3, NumberConstants DEF NewKey, KeyRec, Status
<1>5. mem \in [Keys -> KeyRec]
  BY <1>4 DEF Init
<1>6. NumKeys \in Nat
  BY PoolAssumption
<1>7. Idle \in SelRec
  BY <1>6 DEF Idle, SelRec
<1>8. TypeOK
  BY <1>1, <1>5, <1>7 DEF Init, TypeOK
<1>9. HolderOK
  BY DEF Init, HolderOK, Idle
<1>10. LimitFixed /\ UsageWithinLimit
  BY <1>4, NumberConstants DEF Init, LimitFixed, UsageWithinLimit
<1>11. CounterCoversCharges
  <2>1. \A k \in Keys : OpenCharges(k) = {}
    BY DEF Init, OpenCharges
  <2>2. QED
    BY <1>4, <2>1, FS_EmptySet DEF Init, CounterCoversCharges, Charged
<1>12. QED
  BY <1>8, <1>9, <1>10, <1>11 DEF PoolInv

LEMMA BeginInv ==
  ASSUME PoolInv, NEW c \in Callers, NEW excl \in SUBSET Keys,
         NEW model \in Models \cup {NoModel}, Begin(c, excl, model)
  PROVE  PoolInv'
<1> DEFINE s == [Idle EXCEPT !.pc = "scan", !.now = clock, !.model = model, !.excl = excl]
<1>1. clock \in Nat
  BY TodayType DEF PoolInv
<1>2. NumKeys \in Nat
  BY PoolAssumption
<1>3. s \in SelRec
  <2>1. 0 \in 0 .. NumKeys /\ excl \in SUBSET Keys /\ {} \in SUBSET Keys
    BY <1>2
  <2>2. QED
    BY <1>1, <2>1 DEF Idle, SelRec
<1>4. s.pc = "scan"
  BY DEF Idle
<1>5. QED
  BY <1>3, <1>4, SelStep DEF Begin

LEMMA BeginByHashInv ==
  ASSUME PoolInv, NEW c \in Callers, NEW k \in Keys, BeginByHash(c, k)
  PROVE  PoolInv'
<1> DEFINE s == [Idle EXCEPT !.pc = "reserve", !.now = clock, !.excl = Keys \ {k}, !.best = k]
<1>1. clock \in Nat
  BY TodayType DEF PoolInv
<1>2. NumKeys \in Nat /\ k \in 0 .. NumKeys
  BY NumberConstants DEF Keys
<1>3. s \in SelRec
  <2>1. 0 \in 0 .. NumKeys /\ Keys \ {k} \in SUBSET Keys /\ {} \in SUBSET Keys
    BY <1>2
  <2>2. QED
    BY <1>1, <1>2, <2>1 DEF Idle, SelRec
<1>4. s.pc = "reserve" /\ s.best = k
  BY DEF Idle
<1>5. QED
  BY <1>3, <1>4, SelStep DEF BeginByHash

LEMMA EndScanInv ==
  ASSUME PoolInv, NEW c \in Callers, EndScan(c)
  PROVE  PoolInv'
<1> DEFINE s == [sel[c] EXCEPT !.pc = IF sel[c].best = 0 THEN "none" ELSE "reserve"]
<1>1. sel \in [Callers -> SelRec]
  BY DEF PoolInv, TypeOK
<1>2. s \in SelRec /\ sel' = [sel EXCEPT ![c] = s]
  BY <1>1 DEF EndScan, SelRec
<1>3. sel[c].best \in 0 .. NumKeys
  BY <1>1 DEF SelRec
<1>4. s.pc \in {"reserve", "settled"} => s.best \in Keys
  BY <1>1, <1>3, NumberConstants DEF SelRec, Keys
<1>5. sel[c].pc # "held" /\ s.pc # "held"
  BY <1>1 DEF EndScan, SelRec
<1>6. QED
  BY <1>2, <1>4, <1>5, SelStep DEF EndScan

LEMMA LeaveInv ==
  ASSUME PoolInv, NEW c \in Callers, Leave(c)
  PROVE  PoolInv'
<1>1. NumKeys \in Nat
  BY PoolAssumption
<1>2. Idle \in SelRec /\ Idle.pc = "idle"
  BY <1>1 DEF Idle, SelRec
<1>3. QED
  BY <1>2, SelStep DEF Leave

LEMMA TickInv ==
  ASSUME PoolInv, Tick
  PROVE  PoolInv'
<1>1. clock' \in 0 .. MaxTime
  BY NumberConstants DEF Tick, PoolInv, TypeOK
<1>2. TypeOK' /\ HolderOK' /\ LimitFixed' /\ UsageWithinLimit'
  BY <1>1 DEF Tick, PoolInv, TypeOK, HolderOK, LimitFixed, UsageWithinLimit, ledger
<1>3. \A k \in Keys : mem'[k].usage \in Nat /\ mem'[k].usage >= mem[k].usage
  BY DEF Tick, PoolInv, TypeOK, KeyRec
<1>4. CounterCoversCharges'
  BY <1>3, BooksSame DEF Tick
<1>5. QED
  BY <1>2, <1>4 DEF PoolInv

\* What a look at a key does, whichever limit it is for.
LEMMA LookedFacts ==
  ASSUME TypeOK, NEW k \in KeyRec, NEW s \in SelRec
  PROVE  LET r == Looked(k, s, Today)
         IN  /\ r \in KeyRec
             /\ r.maxLimit = k.maxLimit
             /\ r.usage = IF k.day = Today THEN k.usage ELSE 0
<1>1. s.now \in Nat /\ Today \in Nat
  BY TodayType DEF SelRec
<1>2. CASE s.model = NoModel
  <2>1. Looked(k, s, Today) = AfterUsable(k, s.now, Today)
    BY <1>2 DEF Looked
  <2> DEFINE r == AfterUsable(k, s.now, Today)
  <2>2. /\ r \in KeyRec /\ r.maxLimit = k.maxLimit
        /\ r.usage = IF k.day = Today THEN k.usage ELSE 0
    BY <1>1, AfterUsableFacts
  <2> HIDE DEF r
  <2>3. Looked(k, s, Today) = r
    BY <2>1 DEF r
  <2>4. QED
    BY <2>2, <2>3
<1>3. CASE s.model # NoModel
  <2>1. Looked(k, s, Today) = ResetDailyUsageIfNewDay(k, Today)
    BY <1>3 DEF Looked
  <2> DEFINE r == ResetDailyUsageIfNewDay(k, Today)
  <2>2. /\ r \in KeyRec /\ r.maxLimit = k.maxLimit
        /\ r.usage = IF k.day = Today THEN k.usage ELSE 0
    BY <1>1, ResetFacts
  <2> HIDE DEF r
  <2>3. Looked(k, s, Today) = r
    BY <2>1 DEF r
  <2>4. QED
    BY <2>2, <2>3
<1>4. QED
  BY <1>2, <1>3

LEMMA ScanKeyInv ==
  ASSUME PoolInv, NEW c \in Callers, ScanKey(c)
  PROVE  PoolInv'
<1>1. PICK k \in NextUnseen(c) :
        \E better \in BOOLEAN :
          /\ mem' = [mem EXCEPT ![k] = Looked(mem[k], sel[c], Today)]
          /\ sel' = [sel EXCEPT ![c].pos       = k,
                                ![c].best      = IF better THEN k ELSE @,
                                ![c].bestUsage = IF better
                                                 THEN Looked(mem[k], sel[c], Today).usage
                                                 ELSE @]
          /\ Recount(k)
  BY DEF ScanKey
<1>2. PICK better \in BOOLEAN :
        sel' = [sel EXCEPT ![c].pos       = k,
                           ![c].best      = IF better THEN k ELSE @,
                           ![c].bestUsage = IF better
                                            THEN Looked(mem[k], sel[c], Today).usage
                                            ELSE @]
  BY <1>1
<1> DEFINE r == Looked(mem[k], sel[c], Today)
           b == IF better THEN k ELSE sel[c].best
           u == IF better THEN r.usage ELSE sel[c].bestUsage
           s == [sel[c] EXCEPT !.pos = k, !.best = b, !.bestUsage = u]
<1>3. k \in Keys /\ k \in 0 .. NumKeys
  BY NumberConstants DEF NextUnseen, Unseen, Keys
<1>4. mem[k] \in KeyRec /\ sel \in [Callers -> SelRec]
  BY <1>3 DEF PoolInv, TypeOK
<1>5. /\ r \in KeyRec /\ r.maxLimit = mem[k].maxLimit
      /\ r.usage = IF mem[k].day = Today THEN mem[k].usage ELSE 0
  BY <1>4, LookedFacts DEF PoolInv
<1>6. sel[c].pc = "scan" /\ sel[c] \in SelRec
  BY <1>4 DEF ScanKey
<1>7. s \in SelRec /\ s.pc = "scan"
  <2>1. r.usage \in Nat
    BY <1>5 DEF KeyRec
  <2>2. b \in 0 .. NumKeys /\ u \in Nat
    BY <1>3, <1>6, <2>1 DEF SelRec
  <2> HIDE DEF b, u
  <2>3. QED
    BY <1>3, <1>6, <2>2 DEF SelRec
<1>8. sel' = [sel EXCEPT ![c] = s]
  <2>1. sel[c] \in SelRec
    BY <1>4
  <2>2. QED
    BY <1>2, <1>4, <2>1 DEF SelRec
<1>9. sel' \in [Callers -> SelRec]
  BY <1>4, <1>7, <1>8
<1>10. \A d \in Callers : sel'[d] = sel[d] \/ (sel[d].pc # "held" /\ sel'[d].pc = "scan")
  <2> HIDE DEF s
  <2>1. ASSUME NEW d \in Callers PROVE sel'[d] = IF d = c THEN s ELSE sel[d]
    BY <1>4, <1>8
  <2>2. sel[c].pc # "held" /\ sel'[c].pc = "scan"
    BY <1>6, <1>7, <2>1
  <2>3. \A d \in Callers : d # c => sel'[d] = sel[d]
    BY <2>1
  <2>4. QED
    BY <2>2, <2>3
<1>11. QED
  <2> HIDE DEF r, s
  <2>1. mem' = [mem EXCEPT ![k] = r] /\ Recount(k)
    BY <1>1 DEF r
  <2>2. QED
    BY <1>3, <1>5, <1>9, <1>10, <2>1, ResetStep DEF ScanKey

LEMMA LoseRaceInv ==
  ASSUME PoolInv, NEW c \in Callers, LoseRace(c)
  PROVE  PoolInv'
<1> DEFINE k == sel[c].best
           r == Refused(mem[k], sel[c], Today)
           s == [sel[c] EXCEPT !.pc = "scan", !.tried = @ \cup {k},
                               !.pos = 0, !.best = 0, !.bestUsage = 0]
<1>0. sel[c].pc = "reserve"
  BY DEF LoseRace
<1>1. k \in Keys
  BY DEF LoseRace, PoolInv, HolderOK
<1>2. mem[k] \in KeyRec /\ sel \in [Callers -> SelRec] /\ sel[c] \in SelRec
  BY <1>1 DEF PoolInv, TypeOK
<1>3. sel[c].now \in Nat /\ sel[c].model \in Models \cup {NoModel} /\ Today \in Nat
  BY <1>2, TodayType DEF PoolInv, SelRec
<1>4. /\ r \in KeyRec /\ r.maxLimit = mem[k].maxLimit
      /\ r.usage = IF mem[k].day = Today THEN mem[k].usage ELSE 0
  <2> HIDE DEF k
  <2>1. CASE sel[c].model = NoModel
    BY <1>2, <1>3, <2>1, AfterUsableFacts DEF Refused
  <2>2. CASE sel[c].model # NoModel
    <3> DEFINE a == AfterModelRefusal(mem[k], sel[c].now, Today, sel[c].model)
    <3>1. sel[c].model \in Models
      BY <1>3, <2>2
    <3>2. /\ a \in KeyRec /\ a.maxLimit = mem[k].maxLimit
          /\ a.usage = IF mem[k].day = Today THEN mem[k].usage ELSE 0
      BY <1>2, <1>3, <3>1, ModelRefusalFacts
    <3>3. r = a
      BY <2>2 DEF Refused
    <3> HIDE DEF a, r
    <3>4. QED
      BY <3>2, <3>3
  <2>3. QED
    BY <2>1, <2>2
<1>5. s \in SelRec /\ s.pc = "scan"
  <2>1. 0 \in 0 .. NumKeys /\ sel[c].tried \cup {k} \in SUBSET Keys
    BY <1>1, <1>2, NumberConstants DEF SelRec
  <2> HIDE DEF k
  <2>2. QED
    BY <1>2, <2>1 DEF SelRec
<1>6. sel' = [sel EXCEPT ![c] = s]
  BY <1>2 DEF LoseRace, ScanAgain, SelRec
<1>7. sel' \in [Callers -> SelRec]
  BY <1>2, <1>5, <1>6
<1>8. \A d \in Callers : sel'[d] = sel[d] \/ (sel[d].pc # "held" /\ sel'[d].pc = "scan")
  <2> HIDE DEF s
  <2>1. ASSUME NEW d \in Callers PROVE sel'[d] = IF d = c THEN s ELSE sel[d]
    BY <1>2, <1>6
  <2>2. sel[c].pc # "held" /\ sel'[c].pc = "scan"
    BY <1>0, <1>5, <2>1
  <2>3. \A d \in Callers : d # c => sel'[d] = sel[d]
    BY <2>1
  <2>4. QED
    BY <2>2, <2>3
<1>9. mem' = [mem EXCEPT ![k] = r] /\ Recount(k) /\ clock' = clock
  BY DEF LoseRace
<1>10. QED
  <2> HIDE DEF k, r, s
  <2>1. QED
    BY <1>1, <1>4, <1>7, <1>8, <1>9, ResetStep

LEMMA InvalidateInv ==
  ASSUME PoolInv, NEW c \in Callers, Invalidate(c)
  PROVE  PoolInv'
<1> DEFINE k == sel[c].best
           r == SetStatus(mem[k], "invalid", Today)
<1>1. k \in Keys
  BY DEF Invalidate, Using, PoolInv, HolderOK
<1>2. mem[k] \in KeyRec /\ sel \in [Callers -> SelRec] /\ Today \in Nat
  BY <1>1, TodayType DEF PoolInv, TypeOK
<1>3. /\ r \in KeyRec /\ r.maxLimit = mem[k].maxLimit
      /\ r.usage = IF mem[k].day = Today THEN mem[k].usage ELSE 0
  BY <1>2, SetStatusFacts
<1>4. mem' = [mem EXCEPT ![k] = r] /\ Recount(k) /\ clock' = clock /\ sel' = sel
  BY DEF Invalidate
<1>5. QED
  <2> HIDE DEF k, r
  <2>1. QED
    BY <1>1, <1>2, <1>3, <1>4, ResetStep

LEMMA ResetExpiredInv ==
  ASSUME PoolInv, NEW k \in Keys, ResetExpired(k)
  PROVE  PoolInv'
<1> DEFINE r == ResetDailyUsageIfNewDay(mem[k], Today)
<1>1. mem[k] \in KeyRec /\ sel \in [Callers -> SelRec] /\ Today \in Nat
  BY TodayType DEF PoolInv, TypeOK
<1>2. /\ r \in KeyRec /\ r.maxLimit = mem[k].maxLimit
      /\ r.usage = IF mem[k].day = Today THEN mem[k].usage ELSE 0
  BY <1>1, ResetFacts
<1>3. mem' = [mem EXCEPT ![k] = r] /\ Recount(k) /\ clock' = clock /\ sel' = sel
  BY DEF ResetExpired
<1>4. QED
  <2> HIDE DEF r
  <2>1. QED
    BY <1>1, <1>2, <1>3, ResetStep

LEMMA CoolInv ==
  ASSUME PoolInv, NEW c \in Callers, NEW d \in Durations, NEW status \in CoolStatuses,
         Cool(c, d, status)
  PROVE  PoolInv'
<1>1. sel[c].best \in Keys
  BY DEF Cool, Using, PoolInv, HolderOK
<1>2. mem[sel[c].best] \in KeyRec /\ clock + d \in Nat
  BY <1>1, TodayType, NumberConstants DEF PoolInv, TypeOK
<1>3. status \in Status \cup {""}
  BY PoolAssumption
<1>4. QED
  BY <1>1, <1>2, <1>3, SetCooldownFacts, PenaltyStep DEF Cool

LEMMA ExhaustInv ==
  ASSUME PoolInv, NEW c \in Callers, Exhaust(c)
  PROVE  PoolInv'
<1> DEFINE k == sel[c].best
           r == MarkDayExhausted(mem[k], Today)
<1>1. k \in Keys
  BY DEF Exhaust, Using, PoolInv, HolderOK
<1>2. mem[k] \in KeyRec /\ Today \in Nat
  BY <1>1, TodayType DEF PoolInv, TypeOK
<1>3. /\ r \in KeyRec /\ r.maxLimit = mem[k].maxLimit
      /\ r.usage = IF mem[k].maxLimit > 0 THEN mem[k].maxLimit ELSE mem[k].usage
  BY <1>2, MarkFacts
<1>4. mem' = [mem EXCEPT ![k] = r] /\ UNCHANGED <<clock, sel, ledger>>
  BY DEF Exhaust
<1>5. QED
  <2> HIDE DEF k, r
  <2>1. QED
    BY <1>1, <1>3, <1>4, PenaltyStep

LEMMA CoolModelInv ==
  ASSUME PoolInv, NEW c \in Callers, CoolModel(c, NextMidnight(clock))
  PROVE  PoolInv'
<1> DEFINE k == sel[c].best
           m == sel[c].model
           r == SetModelCooldown(mem[k], m, NextMidnight(clock))
<1>1. k \in Keys
  BY DEF CoolModel, Using, PoolInv, HolderOK
<1>2. mem[k] \in KeyRec /\ NextMidnight(clock) \in Nat
  BY <1>1, TodayType, DayType DEF PoolInv, TypeOK
<1>3. m \in Models
  BY DEF CoolModel, PoolInv, TypeOK, SelRec
<1>4. r \in KeyRec /\ r.maxLimit = mem[k].maxLimit /\ r.usage = mem[k].usage
  BY <1>2, <1>3, SetModelCooldownFacts
<1>5. mem' = [mem EXCEPT ![k] = r] /\ UNCHANGED <<clock, sel, ledger>>
  BY DEF CoolModel
<1>6. QED
  <2> HIDE DEF k, r
  <2>1. QED
    BY <1>1, <1>4, <1>5, PenaltyStep

\* A successful reservation costs one, and the key had it to spend.
LEMMA ReserveFacts ==
  ASSUME TypeOK, NEW c \in Callers, NEW k \in KeyRec, sel[c].pc = "reserve",
         UsableFor(k, sel[c], Today)
  PROVE  LET r == Charge(k, sel[c], Today)
         IN  /\ r \in KeyRec
             /\ r.maxLimit = k.maxLimit
             /\ r.usage = 1 + (IF k.day = Today THEN k.usage ELSE 0)
             /\ k.maxLimit > 0 => r.usage <= k.maxLimit
<1> DEFINE u == IF k.day = Today THEN k.usage ELSE 0
           good(r) == /\ r \in KeyRec /\ r.maxLimit = k.maxLimit /\ r.usage = 1 + u
           reset == ResetDailyUsageIfNewDay(k, Today)
           after == AfterUsable(k, sel[c].now, Today)
<1>1. /\ sel[c].now \in Nat /\ sel[c].model \in Models \cup {NoModel}
      /\ Today \in Nat /\ u \in Nat /\ k.maxLimit \in Nat
  BY TodayType DEF TypeOK, SelRec, KeyRec
<1>2. reset.usage = u /\ reset.maxLimit = k.maxLimit
  BY <1>1, ResetFacts
<1>3. after \in KeyRec /\ after.usage = u /\ after.maxLimit = k.maxLimit /\ after.day = Today
  <2> DEFINE n == sel[c].now
  <2>1. n \in Nat /\ Today \in Nat
    BY <1>1
  <2> HIDE DEF n
  <2>2. LET a == AfterUsable(k, n, Today)
        IN  /\ a \in KeyRec /\ a.maxLimit = k.maxLimit /\ a.day = Today
            /\ a.usage = IF k.day = Today THEN k.usage ELSE 0
    BY <2>1, AfterUsableFacts
  <2>3. QED
    BY <2>2 DEF n
<1>4. k.maxLimit > 0 => u < k.maxLimit
  <2>1. CASE sel[c].model = NoModel
    <3>1. HasQuota(after)
      BY <2>1 DEF UsableFor, Usable, AllowedNow
    <3> HIDE DEF after, u
    <3>2. QED
      BY <1>1, <1>3, <3>1 DEF HasQuota
  <2>2. CASE sel[c].model # NoModel
    <3>1. HasQuota(reset)
      BY <2>2 DEF UsableFor, UsableForModel, AllowedNow
    <3> HIDE DEF reset, u
    <3>2. QED
      BY <1>1, <1>2, <3>1 DEF HasQuota
  <2>3. QED
    BY <2>1, <2>2
<1>5. CASE sel[c].model = NoModel
  <2> DEFINE r == Register(after, sel[c].now, Today)
  <2> HIDE DEF after, u
  <2>1. good(r)
    BY <1>1, <1>3, RegisterFacts
  <2>2. r = Register(AfterUsable(k, sel[c].now, Today), sel[c].now, Today)
    BY DEF after
  <2> HIDE DEF r
  <2>3. k.maxLimit > 0 => r.usage <= k.maxLimit
    BY <1>1, <1>4, <2>1
  <2>4. QED
    BY <1>5, <2>1, <2>2, <2>3 DEF u, Charge
<1>6. CASE sel[c].model # NoModel
  <2> DEFINE r == RegisterModel(k, sel[c].now, Today, sel[c].model)
  <2>1. good(r)
    <3> DEFINE n == sel[c].now
               m == sel[c].model
    <3>1. n \in Nat /\ m \in Models /\ Today \in Nat
      BY <1>1, <1>6
    <3> HIDE DEF n, m
    <3>2. good(RegisterModel(k, n, Today, m))
      BY <3>1, RegisterModelFacts
    <3>3. QED
      BY <3>2 DEF n, m
  <2>2. r = RegisterModel(k, sel[c].now, Today, sel[c].model)
    OBVIOUS
  <2> HIDE DEF r, u
  <2>3. k.maxLimit > 0 => r.usage <= k.maxLimit
    BY <1>1, <1>4, <2>1
  <2>4. QED
    BY <1>6, <2>1, <2>2, <2>3 DEF u, Charge
<1>7. QED
  BY <1>5, <1>6

LEMMA ReserveInv ==
  ASSUME PoolInv, NEW c \in Callers, Reserve(c)
  PROVE  PoolInv'
<1> DEFINE k == sel[c].best
           r == Charge(mem[k], sel[c], Today)
           s == [sel[c] EXCEPT !.pc = "held"]
<1>1. sel[c].pc = "reserve" /\ UsableFor(mem[k], sel[c], Today)
  BY DEF Reserve, Reservable
<1>2. k \in Keys
  BY <1>1 DEF PoolInv, HolderOK
<1>3. /\ mem \in [Keys -> KeyRec] /\ sel \in [Callers -> SelRec]
      /\ counted \in SUBSET Callers /\ kept \in [Keys -> Nat]
      /\ late \in [Keys -> SUBSET Callers] /\ clock \in 0 .. MaxTime
  BY DEF PoolInv, TypeOK
<1>4. mem[k].maxLimit = DailyLimit /\ mem[k] \in KeyRec
  BY <1>2, <1>3 DEF PoolInv, LimitFixed
<1>5. /\ r \in KeyRec /\ r.maxLimit = mem[k].maxLimit
      /\ r.usage = 1 + (IF mem[k].day = Today THEN mem[k].usage ELSE 0)
      /\ DailyLimit > 0 => r.usage <= DailyLimit
  <2> HIDE DEF k
  <2>1. QED
    BY <1>1, <1>4, ReserveFacts DEF PoolInv
<1>6. /\ clock' = clock /\ mem' = [mem EXCEPT ![k] = r]
      /\ counted' = (IF NewCount(k) THEN counted \ OpenCharges(k) ELSE counted) \cup {c}
      /\ kept' = IF NewCount(k) THEN [kept EXCEPT ![k] = 0] ELSE kept
      /\ late' = IF NewCount(k) THEN [late EXCEPT ![k] = {}] ELSE late
  BY DEF Reserve
<1>7. s \in SelRec /\ s.pc = "held" /\ s.best = k /\ sel' = [sel EXCEPT ![c] = s]
  BY <1>3 DEF Reserve, SelRec
<1> HIDE DEF k, r, s
<1>8. \A d \in Callers : sel'[d] = IF d = c THEN s ELSE sel[d]
  BY <1>3, <1>7
<1>9. c \notin counted
  BY <1>1 DEF PoolInv, HolderOK
<1>10. mem' \in [Keys -> KeyRec] /\ LimitFixed' /\ UsageWithinLimit'
  BY <1>2, <1>5, <1>6, KeyStep
<1>11. counted' \in SUBSET Callers /\ kept' \in [Keys -> Nat]
  BY <1>3, <1>6
<1>12. /\ late' \in [Keys -> SUBSET Callers]
       /\ \A j \in Keys : late'[j] = IF NewCount(k) /\ j = k THEN {} ELSE late[j]
  BY <1>3, <1>6
<1>13. TypeOK'
  BY <1>3, <1>6, <1>7, <1>10, <1>11, <1>12 DEF TypeOK
<1>14. HolderOK'
  <2>1. \A d \in Callers : sel'[d].pc \in {"reserve", "held", "settled"} => sel'[d].best \in Keys
    BY <1>2, <1>7, <1>8 DEF PoolInv, HolderOK
  <2>2. \A d \in counted' : sel'[d].pc = "held"
    BY <1>3, <1>6, <1>7, <1>8 DEF PoolInv, HolderOK
  <2>3. ASSUME NEW d \in Callers, d # c, sel'[d].pc = "held", d \in late'[sel'[d].best]
        PROVE  d \in counted'
    <3>1. sel'[d] = sel[d]
      BY <1>8, <2>3
    <3>2. sel[d].best \in Keys
      BY <2>3, <3>1 DEF PoolInv, HolderOK
    <3>3. d \in late[sel[d].best] /\ ~(NewCount(k) /\ sel[d].best = k)
      BY <1>12, <2>3, <3>1, <3>2
    <3>4. d \in counted
      BY <2>3, <3>1, <3>3 DEF PoolInv, HolderOK
    <3>5. QED
      BY <1>6, <3>3, <3>4 DEF OpenCharges
  <2>4. QED
    BY <1>6, <2>1, <2>2, <2>3 DEF HolderOK
<1>15. CounterCoversCharges'
  <2> SUFFICES ASSUME NEW j \in Keys
               PROVE  (Charged(j) <= mem[j].usage + Cardinality(late[j]))'
    BY DEF CounterCoversCharges
  <2>1. Charged(j) <= mem[j].usage + Cardinality(late[j])
    BY DEF PoolInv, CounterCoversCharges
  <2>2. /\ IsFiniteSet(OpenCharges(j)) /\ Cardinality(OpenCharges(j)) \in Nat
        /\ Cardinality(late[j]) \in Nat
    BY LedgerFinite DEF PoolInv
  <2>3. kept[j] \in Nat /\ mem[j].usage \in Nat
    BY <1>3 DEF KeyRec
  <2>4. CASE j # k
    <3>1. OpenCharges(j)' = OpenCharges(j)
      BY <1>3, <1>6, <1>7, <1>8, <1>9, <2>4 DEF OpenCharges
    <3>2. kept'[j] = kept[j] /\ late'[j] = late[j] /\ mem'[j] = mem[j]
      BY <1>3, <1>6, <2>4
    <3>3. QED
      BY <2>1, <3>1, <3>2 DEF Charged
  <2>5. CASE j = k /\ NewCount(k)
    <3>1. OpenCharges(j)' = {c}
      BY <1>3, <1>6, <1>7, <1>8, <1>9, <2>5 DEF OpenCharges
    <3>2. kept'[j] = 0 /\ late'[j] = {} /\ mem'[j].usage = 1
      BY <1>3, <1>5, <1>6, <2>5 DEF NewCount
    <3>3. Cardinality(OpenCharges(j)') = 1 /\ Cardinality(late'[j]) = 0
      BY <3>1, <3>2, FS_EmptySet, FS_Singleton
    <3>4. QED
      BY <3>2, <3>3 DEF Charged
  <2>6. CASE j = k /\ ~NewCount(k)
    <3>1. OpenCharges(j)' = OpenCharges(j) \cup {c} /\ c \notin OpenCharges(j)
      BY <1>3, <1>6, <1>7, <1>8, <1>9, <2>6 DEF OpenCharges
    <3>2. Cardinality(OpenCharges(j)') = Cardinality(OpenCharges(j)) + 1
      BY <2>2, <3>1, FS_AddElement
    <3>3. kept'[j] = kept[j] /\ late'[j] = late[j] /\ mem'[j].usage = mem[j].usage + 1
      BY <1>3, <1>5, <1>6, <2>3, <2>6 DEF NewCount
    <3>4. QED
      BY <2>1, <2>2, <2>3, <3>2, <3>3 DEF Charged
  <2>7. QED
    BY <2>4, <2>5, <2>6
<1>16. QED
  BY <1>10, <1>13, <1>14, <1>15 DEF PoolInv

LEMMA KeepInv ==
  ASSUME PoolInv, NEW c \in Callers, Keep(c)
  PROVE  PoolInv'
<1> DEFINE k == sel[c].best
<1>1. /\ mem \in [Keys -> KeyRec] /\ sel \in [Callers -> SelRec]
      /\ counted \in SUBSET Callers /\ kept \in [Keys -> Nat]
      /\ late \in [Keys -> SUBSET Callers] /\ clock \in 0 .. MaxTime
  BY DEF PoolInv, TypeOK
<1>2. sel[c].pc = "held" /\ k \in Keys
  BY DEF Keep, PoolInv, HolderOK
<1>3. /\ UNCHANGED <<clock, mem, late>>
      /\ sel' = [sel EXCEPT ![c] = Idle]
      /\ kept' = [kept EXCEPT ![k] = IF c \in counted THEN @ + 1 ELSE @]
      /\ counted' = counted \ {c}
  BY DEF Keep
<1>4. Idle \in SelRec /\ Idle.pc = "idle"
  BY NumberConstants DEF Idle, SelRec
<1>5. \A d \in Callers : sel'[d] = IF d = c THEN Idle ELSE sel[d]
  BY <1>1, <1>3
<1>6. kept' \in [Keys -> Nat]
  BY <1>1, <1>2, <1>3
<1>7. TypeOK'
  BY <1>1, <1>3, <1>4, <1>6 DEF TypeOK
<1>8. HolderOK'
  BY <1>1, <1>3, <1>4, <1>5 DEF PoolInv, HolderOK
<1>9. LimitFixed' /\ UsageWithinLimit'
  BY <1>3 DEF PoolInv, LimitFixed, UsageWithinLimit
<1>10. CounterCoversCharges'
  <2> HIDE DEF k
  <2> SUFFICES ASSUME NEW j \in Keys
               PROVE  (Charged(j) <= mem[j].usage + Cardinality(late[j]))'
    BY DEF CounterCoversCharges
  <2>1. Charged(j) <= mem[j].usage + Cardinality(late[j])
    BY DEF PoolInv, CounterCoversCharges
  <2>2. /\ IsFiniteSet(OpenCharges(j)) /\ Cardinality(OpenCharges(j)) \in Nat
        /\ Cardinality(late[j]) \in Nat /\ kept[j] \in Nat /\ mem[j].usage \in Nat
    BY <1>1, LedgerFinite DEF PoolInv, KeyRec
  <2>3. OpenCharges(j)' = OpenCharges(j) \ {c}
    BY <1>1, <1>3, <1>5 DEF OpenCharges
  <2>4. c \in OpenCharges(j) <=> c \in counted /\ j = k
    BY DEF OpenCharges, k
  <2>5. kept'[j] = IF c \in OpenCharges(j) THEN kept[j] + 1 ELSE kept[j]
    BY <1>1, <1>3, <2>4
  <2>6. Cardinality(OpenCharges(j)') =
          IF c \in OpenCharges(j) THEN Cardinality(OpenCharges(j)) - 1
          ELSE Cardinality(OpenCharges(j))
    BY <2>2, <2>3, FS_RemoveElement
  <2>7. QED
    BY <1>3, <2>1, <2>2, <2>5, <2>6 DEF Charged
<1>11. QED
  BY <1>7, <1>8, <1>9, <1>10 DEF PoolInv

LEMMA RefundInv ==
  ASSUME PoolInv, NEW c \in Callers, Refund(c)
  PROVE  PoolInv'
<1> DEFINE k == sel[c].best
           r == RollbackUsage(mem[k])
           s == [sel[c] EXCEPT !.pc = "settled"]
<1>1. /\ mem \in [Keys -> KeyRec] /\ sel \in [Callers -> SelRec]
      /\ counted \in SUBSET Callers /\ kept \in [Keys -> Nat]
      /\ late \in [Keys -> SUBSET Callers] /\ clock \in 0 .. MaxTime
  BY DEF PoolInv, TypeOK
<1>2. sel[c].pc = "held" /\ k \in Keys
  BY DEF Refund, PoolInv, HolderOK
<1>3. mem[k] \in KeyRec /\ mem[k].usage \in Nat /\ mem[k].maxLimit = DailyLimit
  BY <1>1, <1>2 DEF PoolInv, LimitFixed, KeyRec
<1>4. /\ r \in KeyRec /\ r.maxLimit = mem[k].maxLimit
      /\ r.usage = IF mem[k].usage > 0 THEN mem[k].usage - 1 ELSE 0
  BY <1>3, RollbackFacts
<1>5. /\ UNCHANGED <<clock, kept>> /\ mem' = [mem EXCEPT ![k] = r]
      /\ counted' = counted \ {c}
      /\ late' = IF c \in counted THEN late ELSE [late EXCEPT ![k] = @ \cup {c}]
  BY DEF Refund
<1>6. s \in SelRec /\ s.pc = "settled" /\ s.best = k /\ sel' = [sel EXCEPT ![c] = s]
  BY <1>1 DEF Refund, SelRec
<1> HIDE DEF k, r, s
<1>7. \A d \in Callers : sel'[d] = IF d = c THEN s ELSE sel[d]
  BY <1>1, <1>6
<1>8. DailyLimit > 0 => r.usage <= DailyLimit
  <2>1. DailyLimit > 0 => mem[k].usage <= DailyLimit
    BY <1>2 DEF PoolInv, UsageWithinLimit
  <2>2. QED
    BY <1>3, <1>4, <2>1, NumberConstants
<1>9. mem' \in [Keys -> KeyRec] /\ LimitFixed' /\ UsageWithinLimit'
  BY <1>2, <1>4, <1>5, <1>8, KeyStep
<1>10. /\ late' \in [Keys -> SUBSET Callers]
       /\ \A j \in Keys : late'[j] = IF j = k /\ c \notin counted
                                     THEN late[j] \cup {c} ELSE late[j]
  BY <1>1, <1>2, <1>5
<1>11. TypeOK'
  BY <1>1, <1>5, <1>6, <1>9, <1>10 DEF TypeOK
<1>12. HolderOK'
  <2>1. \A d \in Callers : sel'[d].pc \in {"reserve", "held", "settled"} => sel'[d].best \in Keys
    BY <1>2, <1>6, <1>7 DEF PoolInv, HolderOK
  <2>2. \A d \in counted' : sel'[d].pc = "held"
    BY <1>1, <1>5, <1>7 DEF PoolInv, HolderOK
  <2>3. ASSUME NEW d \in Callers, sel'[d].pc = "held", d \in late'[sel'[d].best]
        PROVE  d \in counted'
    <3>1. d # c /\ sel'[d] = sel[d]
      BY <1>6, <1>7, <2>3
    <3>2. sel[d].best \in Keys
      BY <2>3, <3>1 DEF PoolInv, HolderOK
    <3>3. d \in late[sel[d].best]
      BY <1>10, <2>3, <3>1, <3>2
    <3>4. d \in counted
      BY <2>3, <3>1, <3>3 DEF PoolInv, HolderOK
    <3>5. QED
      BY <1>5, <3>1, <3>4
  <2>4. QED
    BY <2>1, <2>2, <2>3 DEF HolderOK
<1>13. CounterCoversCharges'
  <2> SUFFICES ASSUME NEW j \in Keys
               PROVE  (Charged(j) <= mem[j].usage + Cardinality(late[j]))'
    BY DEF CounterCoversCharges
  <2>1. Charged(j) <= mem[j].usage + Cardinality(late[j])
    BY DEF PoolInv, CounterCoversCharges
  <2>2. /\ IsFiniteSet(OpenCharges(j)) /\ Cardinality(OpenCharges(j)) \in Nat
        /\ IsFiniteSet(late[j]) /\ Cardinality(late[j]) \in Nat
        /\ kept[j] \in Nat /\ mem[j].usage \in Nat
    BY <1>1, LedgerFinite DEF PoolInv, KeyRec
  <2>3. OpenCharges(j)' = OpenCharges(j) \ {c}
    BY <1>1, <1>5, <1>6, <1>7, <1>2 DEF OpenCharges, k
  <2>4. Cardinality(OpenCharges(j)') =
          IF c \in OpenCharges(j) THEN Cardinality(OpenCharges(j)) - 1
          ELSE Cardinality(OpenCharges(j))
    BY <2>2, <2>3, FS_RemoveElement
  <2>5. CASE j # k
    <3>1. c \notin OpenCharges(j)
      BY <2>5 DEF OpenCharges, k
    <3>2. mem'[j] = mem[j] /\ late'[j] = late[j] /\ kept'[j] = kept[j]
      BY <1>1, <1>5, <1>10, <2>5
    <3>3. QED
      BY <2>1, <2>4, <3>1, <3>2 DEF Charged
  <2>6. CASE j = k /\ c \in counted
    <3>1. c \in OpenCharges(j)
      BY <2>6 DEF OpenCharges, k
    <3>2. mem'[j].usage = r.usage /\ late'[j] = late[j] /\ kept'[j] = kept[j]
      BY <1>1, <1>5, <1>10, <2>6
    <3>3. QED
      BY <1>4, <2>1, <2>2, <2>4, <2>6, <3>1, <3>2 DEF Charged
  <2>7. CASE j = k /\ c \notin counted
    <3>1. c \notin OpenCharges(j)
      BY <2>7 DEF OpenCharges
    <3>2. c \notin late[j]
      BY <1>2, <2>7 DEF PoolInv, HolderOK, k
    <3>3. Cardinality(late'[j]) = Cardinality(late[j]) + 1
      BY <1>10, <2>2, <2>7, <3>2, FS_AddElement
    <3>4. mem'[j].usage = r.usage /\ kept'[j] = kept[j]
      BY <1>1, <1>5, <2>7
    <3>5. QED
      BY <1>4, <2>1, <2>2, <2>4, <2>7, <3>1, <3>3, <3>4 DEF Charged
  <2>8. QED
    BY <2>5, <2>6, <2>7
<1>14. QED
  BY <1>9, <1>11, <1>12, <1>13 DEF PoolInv

(***************************************************************************)
(* The theorems.                                                           *)
(***************************************************************************)

\* PoolInv is inductive: no step of any caller, of the reset worker or of the
\* clock breaks it, for any number of keys and callers and any limit.
LEMMA StepInv == PoolInv /\ [Next]_vars => PoolInv'
<1> SUFFICES ASSUME PoolInv, [Next]_vars PROVE PoolInv'
  OBVIOUS
<1>1. ASSUME NEW c \in Callers, Select(c) PROVE PoolInv'
  <2>1. ASSUME NEW excl \in Exclusions, NEW model \in Models \cup {NoModel},
               Begin(c, excl, model)
        PROVE  PoolInv'
    <3>1. excl \in SUBSET Keys
      BY PoolAssumption
    <3>2. QED
      BY <2>1, <3>1, BeginInv
  <2>2. QED
    BY <1>1, <2>1, BeginByHashInv, ScanKeyInv, EndScanInv, ReserveInv, LoseRaceInv
    DEF Select
<1>2. ASSUME NEW c \in Callers, Punish(c) PROVE PoolInv'
  BY <1>2, CoolInv, ExhaustInv, InvalidateInv, CoolModelInv DEF Punish
<1>3. ASSUME NEW c \in Callers, Keep(c) \/ Refund(c) \/ Leave(c) PROVE PoolInv'
  BY <1>3, KeepInv, RefundInv, LeaveInv
<1>4. ASSUME NEW k \in Keys, ResetExpired(k) PROVE PoolInv'
  BY <1>4, ResetExpiredInv
<1>5. CASE Tick
  BY <1>5, TickInv
<1>6. CASE UNCHANGED vars
  BY <1>6 DEF vars, PoolInv, TypeOK, HolderOK, LimitFixed, UsageWithinLimit,
              CounterCoversCharges, Charged, OpenCharges
<1>7. QED
  BY <1>1, <1>2, <1>3, <1>4, <1>5, <1>6 DEF Next

\* The pool's books are type-correct and balanced in every reachable state.
THEOREM PoolInvariant == Spec => []PoolInv
<1>1. QED
  BY InitInv, StepInv, PTL DEF Spec

\* The counter a key is judged by never exceeds its daily limit.
THEOREM UsageTheorem == Spec => []UsageWithinLimit
<1>1. PoolInv => UsageWithinLimit
  BY DEF PoolInv
<1>2. QED
  BY <1>1, PoolInvariant, PTL

\* The daily quota: the requests sent on a key in one count exceed its limit
\* by no more than the late refunds of requests of an earlier count.
THEOREM QuotaTheorem == Spec => []QuotaKept
<1>1. PoolInv => QuotaKept
  <2> SUFFICES ASSUME PoolInv, NEW k \in Keys, DailyLimit > 0
               PROVE  Charged(k) <= DailyLimit + Cardinality(late[k])
    BY DEF QuotaKept
  <2>1. Charged(k) <= mem[k].usage + Cardinality(late[k])
    BY DEF PoolInv, CounterCoversCharges
  <2>2. mem[k].usage <= DailyLimit
    BY DEF PoolInv, UsageWithinLimit
  <2>3. /\ Cardinality(OpenCharges(k)) \in Nat /\ Cardinality(late[k]) \in Nat
        /\ kept[k] \in Nat /\ mem[k].usage \in Nat
    BY LedgerFinite DEF PoolInv, TypeOK, KeyRec
  <2>4. QED
    BY <2>1, <2>2, <2>3, NumberConstants DEF Charged
<1>2. QED
  BY <1>1, PoolInvariant, PTL

(***************************************************************************)
(* The dispenser speaks of keys as the pool does.                          *)
(***************************************************************************)

LEMMA SameReset ==
  ASSUME NEW k, NEW today
  PROVE  Promise!ResetDailyUsageIfNewDay(k, today) = ResetDailyUsageIfNewDay(k, today)
  BY DEF Promise!ResetDailyUsageIfNewDay, ResetDailyUsageIfNewDay

LEMMA SameQuota ==
  ASSUME NEW k
  PROVE  Promise!HasQuota(k) <=> HasQuota(k)
  BY DEF Promise!HasQuota, HasQuota

LEMMA SameCardinality ==
  ASSUME NEW S
  PROVE  Promise!Cardinality(S) = Cardinality(S)
  BY DEF Promise!Cardinality, Cardinality

LEMMA SameClean ==
  ASSUME NEW ts, NEW now
  PROVE  /\ Promise!CleanTimes(ts, now) = CleanTimes(ts, now)
         /\ Promise!AddTime(ts, now) = AddTime(ts, now)
  BY SameCardinality DEF Promise!CleanTimes, CleanTimes, Promise!AddTime, AddTime

LEMMA SameAllowed ==
  ASSUME NEW k, NEW now
  PROVE  Promise!AllowedNow(k, now) <=> AllowedNow(k, now)
  BY SameQuota DEF Promise!AllowedNow, AllowedNow, Promise!Blocked, Blocked

LEMMA SameAfterUsable ==
  ASSUME NEW k, NEW now, NEW today
  PROVE  Promise!AfterUsable(k, now, today) = AfterUsable(k, now, today)
  BY SameReset, SameAllowed, SameClean DEF Promise!AfterUsable, AfterUsable

LEMMA SameUsable ==
  ASSUME NEW k, NEW now, NEW today
  PROVE  Promise!Usable(k, now, today) <=> Usable(k, now, today)
  BY SameAfterUsable, SameAllowed, SameCardinality DEF Promise!Usable, Usable

LEMMA SameRegister ==
  ASSUME NEW k, NEW now, NEW today
  PROVE  Promise!Register(k, now, today) = Register(k, now, today)
<1>1. \A q : Promise!ChargedStatus(q) = ChargedStatus(q)
  BY SameQuota DEF Promise!ChargedStatus, ChargedStatus
<1>2. Promise!UTCDay(now) = UTCDay(now)
  BY DEF Promise!UTCDay, UTCDay
<1>3. QED
  BY <1>1, <1>2, SameReset, SameClean DEF Promise!Register, Register

LEMMA SameModel ==
  ASSUME NEW k, NEW now, NEW today, NEW m, NEW n
  PROVE  /\ Promise!UsableForModel(k, now, today, m) <=> UsableForModel(k, now, today, m)
         /\ Promise!ModelSlotFree(k, now, m, n) <=> ModelSlotFree(k, now, m, n)
<1>1. Promise!UsableForModel(k, now, today, m) <=> UsableForModel(k, now, today, m)
  BY SameReset, SameAllowed DEF Promise!UsableForModel, UsableForModel
<1>2. Promise!ModelSlotFree(k, now, m, n) <=> ModelSlotFree(k, now, m, n)
  BY SameCardinality, SameClean DEF Promise!ModelSlotFree, ModelSlotFree
<1>3. QED
  BY <1>1, <1>2

LEMMA SameModelCharge ==
  ASSUME NEW k, NEW now, NEW today, NEW m
  PROVE  /\ Promise!AfterModelRefusal(k, now, today, m) = AfterModelRefusal(k, now, today, m)
         /\ Promise!RegisterModel(k, now, today, m) = RegisterModel(k, now, today, m)
<1>1. Promise!AfterModelRefusal(k, now, today, m) = AfterModelRefusal(k, now, today, m)
  BY SameReset, SameModel, SameClean DEF Promise!AfterModelRefusal, AfterModelRefusal
<1>2. \A q : Promise!ChargedStatus(q) = ChargedStatus(q)
  BY SameQuota DEF Promise!ChargedStatus, ChargedStatus
<1>3. Promise!UTCDay(now) = UTCDay(now)
  BY DEF Promise!UTCDay, UTCDay
<1>4. Promise!RegisterModel(k, now, today, m) = RegisterModel(k, now, today, m)
  BY <1>2, <1>3, SameReset, SameClean DEF Promise!RegisterModel, RegisterModel
<1>5. QED
  BY <1>1, <1>4

\* A question about a key depends on the instant and the model of a request.
LEMMA SameRequest ==
  ASSUME NEW k, NEW r, NEW s, NEW today, r.now = s.now, r.model = s.model
  PROVE  /\ Promise!Reservable(k, r, today) <=> Reservable(k, s, today)
         /\ Promise!Looked(k, r, today) = Looked(k, s, today)
         /\ Promise!Refused(k, r, today) = Refused(k, s, today)
         /\ Promise!Charge(k, r, today) = Charge(k, s, today)
<1>1. Promise!UsableFor(k, r, today) <=> UsableFor(k, s, today)
  BY SameUsable, SameModel DEF Promise!UsableFor, UsableFor
<1>2. Promise!Reservable(k, r, today) <=> Reservable(k, s, today)
  BY <1>1, SameModel DEF Promise!Reservable, Reservable
<1>3. Promise!Looked(k, r, today) = Looked(k, s, today)
  BY SameAfterUsable, SameReset DEF Promise!Looked, Looked
<1>4. Promise!Refused(k, r, today) = Refused(k, s, today)
  BY SameAfterUsable, SameModelCharge DEF Promise!Refused, Refused
<1>5. Promise!Charge(k, r, today) = Charge(k, s, today)
  BY SameAfterUsable, SameRegister, SameModelCharge DEF Promise!Charge, Charge
<1>6. QED
  BY <1>2, <1>3, <1>4, <1>5

LEMMA SamePenalty ==
  ASSUME NEW k, NEW today, NEW until, NEW status, NEW m
  PROVE  /\ Promise!RollbackUsage(k) = RollbackUsage(k)
         /\ Promise!SetCooldown(k, until, status) = SetCooldown(k, until, status)
         /\ Promise!MarkDayExhausted(k, today) = MarkDayExhausted(k, today)
         /\ Promise!SetStatus(k, status, today) = SetStatus(k, status, today)
         /\ Promise!SetModelCooldown(k, m, until) = SetModelCooldown(k, m, until)
<1>1. Promise!RollbackUsage(k) = RollbackUsage(k)
  BY SameQuota DEF Promise!RollbackUsage, RollbackUsage
<1>2. Promise!SetCooldown(k, until, status) = SetCooldown(k, until, status)
  BY DEF Promise!SetCooldown, SetCooldown
<1>3. \A q : Promise!MarkDayExhausted(q, today) = MarkDayExhausted(q, today)
  BY DEF Promise!MarkDayExhausted, MarkDayExhausted
<1>4. Promise!SetStatus(k, status, today) = SetStatus(k, status, today)
  BY <1>3, SameReset DEF Promise!SetStatus, SetStatus
<1>5. Promise!SetModelCooldown(k, m, until) = SetModelCooldown(k, m, until)
  BY DEF Promise!SetModelCooldown, SetModelCooldown
<1>6. QED
  BY <1>1, <1>2, <1>3, <1>4, <1>5

LEMMA SameTime ==
  /\ Promise!Today = Today
  /\ \A t : Promise!NextMidnight(t) = NextMidnight(t)
  BY DEF Promise!Today, Today, Promise!UTCDay, UTCDay, Promise!NextMidnight, NextMidnight

(***************************************************************************)
(* A question about a key does not make it usable.                         *)
(***************************************************************************)

LEMMA ResetTwice ==
  ASSUME NEW k \in KeyRec, NEW today \in Nat
  PROVE  LET r == ResetDailyUsageIfNewDay(k, today)
         IN  /\ r \in KeyRec
             /\ ResetDailyUsageIfNewDay(r, today) = r
             /\ r.modelTimes = k.modelTimes
<1>1. ResetDailyUsageIfNewDay(k, today) \in KeyRec
  BY ResetFacts
<1>2. QED
  BY <1>1 DEF ResetDailyUsageIfNewDay, KeyRec

LEMMA CleanTwice ==
  ASSUME NEW ts, NEW now
  PROVE  CleanTimes(CleanTimes(ts, now), now) = CleanTimes(ts, now)
  BY DEF CleanTimes

LEMMA UsableTwice ==
  ASSUME NEW k \in KeyRec, NEW now \in Nat, NEW today \in Nat
  PROVE  AfterUsable(AfterUsable(k, now, today), now, today) = AfterUsable(k, now, today)
<1> DEFINE r == ResetDailyUsageIfNewDay(k, today)
           a == AfterUsable(k, now, today)
           t == CleanTimes(r.times, now)
<1>1. r \in KeyRec /\ ResetDailyUsageIfNewDay(r, today) = r
  BY ResetTwice
<1>2. r.day = today
  BY ResetFacts
<1>3. a = IF AllowedNow(r, now) THEN [r EXCEPT !.times = t] ELSE r
  BY DEF AfterUsable
<1>4. CleanTimes(t, now) = t
  BY CleanTwice
<1>5. CASE ~AllowedNow(r, now)
  BY <1>1, <1>3, <1>5 DEF AfterUsable
<1>6. CASE AllowedNow(r, now)
  <2> HIDE DEF r, t
  <2>1. a.day = today /\ a.times = t
    BY <1>1, <1>2, <1>3, <1>6 DEF KeyRec
  <2>2. ResetDailyUsageIfNewDay(a, today) = a
    BY <2>1 DEF ResetDailyUsageIfNewDay
  <2>3. [a EXCEPT !.times = CleanTimes(@, now)] = a
    BY <1>1, <1>3, <1>4, <1>6 DEF KeyRec
  <2>4. QED
    BY <2>2, <2>3 DEF AfterUsable
<1>7. QED
  BY <1>5, <1>6

\* CanUse: a key that it turns down is not reservable right after.
LEMMA TurnedDown ==
  ASSUME NEW k \in KeyRec, NEW s, s.now \in Nat, NEW today \in Nat,
         ~UsableFor(k, s, today)
  PROVE  ~Reservable(Looked(k, s, today), s, today)
<1>1. UsableFor(Looked(k, s, today), s, today) <=> UsableFor(k, s, today)
  BY UsableTwice, ResetTwice DEF UsableFor, Looked, Usable, UsableForModel
<1>2. QED
  BY <1>1 DEF Reservable

\* TryReserve: nor is a key that it refuses.
LEMMA RefusedAgain ==
  ASSUME NEW k \in KeyRec, NEW s, s.now \in Nat, s.model \in Models \cup {NoModel},
         NEW today \in Nat, ~Reservable(k, s, today)
  PROVE  ~Reservable(Refused(k, s, today), s, today)
<1>1. CASE s.model = NoModel
  BY <1>1, UsableTwice DEF Reservable, Refused, UsableFor, Usable
<1>2. CASE s.model # NoModel
  <2> DEFINE n == s.now
             m == s.model
             r == ResetDailyUsageIfNewDay(k, today)
             c == [r EXCEPT !.modelTimes[m] = CleanTimes(@, n)]
  <2>1. r \in KeyRec /\ ResetDailyUsageIfNewDay(r, today) = r /\ r.day = today
        /\ r.modelTimes = k.modelTimes
    BY ResetTwice, ResetFacts
  <2>2. CASE ~UsableForModel(k, n, today, m)
    BY <1>2, <2>1, <2>2 DEF Reservable, Refused, UsableFor, UsableForModel, AfterModelRefusal
  <2>3. CASE UsableForModel(k, n, today, m)
    <3>1. Refused(k, s, today) = c
      BY <1>2, <2>3 DEF Refused, AfterModelRefusal
    <3>2. ~ModelSlotFree(k, n, m, ModelRPM)
      BY <1>2, <2>3 DEF Reservable, UsableFor
    <3>3. c.modelTimes[m] = CleanTimes(k.modelTimes[m], n)
      <4> HIDE DEF r
      <4>1. QED
        BY <1>2, <2>1 DEF KeyRec
    <3>4. ~ModelSlotFree(c, n, m, ModelRPM)
      <4> HIDE DEF c
      <4>1. QED
        BY <3>2, <3>3, CleanTwice DEF ModelSlotFree
    <3>5. QED
      BY <1>2, <3>1, <3>4 DEF Reservable
  <2>4. QED
    BY <2>2, <2>3
<1>3. QED
  BY <1>1, <1>2

(***************************************************************************)
(* What a search knows of the keys that stayed free: the scan has not      *)
(* reached them yet, unless it has found a candidate.                      *)
(***************************************************************************)
Ahead(s, free) ==
  /\ s.pc \in {"scan", "reserve"} => free \cap (s.excl \cup s.tried) = {}
  /\ s.pc = "scan" /\ s.best = 0 => \A k \in free : k > s.pos
  /\ s.pc = "scan" /\ s.best # 0 => s.best \in Keys \ s.excl
  /\ s.pc = "reserve" => s.best \in Keys \ s.excl

SearchInv ==
  /\ PoolInv
  /\ steady \in [Callers -> SUBSET Keys]
  /\ \A c \in Callers : Ahead(sel[c], steady[c])

LEMMA FewerAhead ==
  ASSUME NEW s, NEW free, NEW fewer, fewer \subseteq free, Ahead(s, free)
  PROVE  Ahead(s, fewer)
  BY DEF Ahead

\* What Watched says of one caller.
LEMMA SteadyStep ==
  ASSUME SearchInv, Watched
  PROVE  /\ steady' \in [Callers -> SUBSET Keys]
         /\ \A c \in Callers :
              /\ steady'[c] \subseteq FreeFor(c)'
              /\ Asking(c) => steady'[c] \subseteq steady[c]
<1>1. \A c \in Callers : FreeFor(c)' \subseteq Keys
  BY DEF FreeFor
<1>2. \A c \in Callers : steady'[c] = IF ~Asking(c) THEN FreeFor(c)'
                                     ELSE steady[c] \cap FreeFor(c)'
  BY DEF Watched
<1>3. steady' \in [Callers -> SUBSET Keys]
  BY <1>1 DEF Watched, SearchInv
<1>4. QED
  BY <1>2, <1>3

\* The other callers' searches stay ahead.
LEMMA OthersAhead ==
  ASSUME SearchInv, Watched, NEW d \in Callers, sel'[d] = sel[d]
  PROVE  Ahead(sel'[d], steady'[d])
<1>1. CASE Asking(d)
  BY <1>1, SteadyStep, FewerAhead DEF SearchInv
<1>2. CASE ~Asking(d)
  BY <1>2 DEF Ahead, Asking
<1>3. QED
  BY <1>1, <1>2

LEMMA OneMoves ==
  ASSUME SearchInv, PoolInv', Watched, NEW c \in Callers, NEW s,
         sel' = [sel EXCEPT ![c] = s], Ahead(s, steady'[c])
  PROVE  SearchInv'
<1>1. sel \in [Callers -> SelRec]
  BY DEF SearchInv, PoolInv, TypeOK
<1>2. \A d \in Callers : Ahead(sel'[d], steady'[d])
  <2> TAKE d \in Callers
  <2>1. CASE d = c
    BY <1>1, <2>1
  <2>2. CASE d # c
    BY <1>1, <2>2, OthersAhead
  <2>3. QED
    BY <2>1, <2>2
<1>3. QED
  BY <1>2, SteadyStep DEF SearchInv

LEMMA NobodyMoves ==
  ASSUME SearchInv, PoolInv', Watched, sel' = sel
  PROVE  SearchInv'
  BY OthersAhead, SteadyStep DEF SearchInv

\* Begin and BeginByHash: nothing is behind the scan.
LEMMA BeginAhead ==
  ASSUME SearchInv, PoolInv', Watched, NEW c \in Callers, NEW s,
         sel' = [sel EXCEPT ![c] = s], s.tried = {}, s.pos = 0,
         \/ s.pc = "scan" /\ s.best = 0
         \/ s.pc = "reserve" /\ s.best \in Keys \ s.excl
  PROVE  SearchInv'
<1>1. sel \in [Callers -> SelRec]
  BY DEF SearchInv, PoolInv, TypeOK
<1>2. steady'[c] \subseteq Keys \ s.excl
  BY <1>1, SteadyStep DEF FreeFor
<1>3. \A k \in Keys : k > 0
  BY NumberConstants DEF Keys
<1>4. Ahead(s, steady'[c])
  BY <1>2, <1>3 DEF Ahead
<1>5. QED
  BY <1>4, OneMoves

\* A key that is not reservable after the step did not stay free.
LEMMA NotSteady ==
  ASSUME SearchInv, Watched, NEW c \in Callers, NEW k \in Keys, NEW r, NEW s,
         clock' = clock, mem' = [mem EXCEPT ![k] = r], sel' = [sel EXCEPT ![c] = s],
         s.now = sel[c].now, s.model = sel[c].model, ~Reservable(r, sel[c], Today)
  PROVE  k \notin steady'[c]
<1>1. sel \in [Callers -> SelRec] /\ mem \in [Keys -> KeyRec]
  BY DEF SearchInv, PoolInv, TypeOK
<1>2. sel'[c] = s /\ mem'[k] = r
  BY <1>1
<1>3. Today' = Today
  BY DEF Today
<1>4. ~Reservable(r, s, Today)
  BY SameRequest
<1>5. k \notin FreeFor(c)'
  BY <1>2, <1>3, <1>4 DEF FreeFor
<1>6. QED
  BY <1>5, SteadyStep

\* What a step of the scan does: it looks at the next key, and passes it over
\* without a candidate only if the key is not usable.
LEMMA ScanKeyStep ==
  ASSUME PoolInv, NEW c \in Callers, ScanKey(c)
  PROVE  \E k \in NextUnseen(c), s \in SelRec :
           /\ k \in Keys /\ clock' = clock /\ sel[c].pc = "scan"
           /\ mem' = [mem EXCEPT ![k] = Looked(mem[k], sel[c], Today)]
           /\ sel' = [sel EXCEPT ![c] = s]
           /\ s.pc = "scan" /\ s.now = sel[c].now /\ s.model = sel[c].model
           /\ s.excl = sel[c].excl /\ s.tried = sel[c].tried /\ s.pos = k
           /\ s.best = k \/ s.best = sel[c].best
           /\ s.best = 0 => ~UsableFor(mem[k], sel[c], Today)
<1>1. PICK k \in NextUnseen(c) :
        LET seen   == Looked(mem[k], sel[c], Today)
            better == /\ UsableFor(mem[k], sel[c], Today)
                      /\ sel[c].best = 0 \/ seen.usage < sel[c].bestUsage
        IN  /\ mem' = [mem EXCEPT ![k] = seen]
            /\ sel' = [sel EXCEPT ![c].pos       = k,
                                  ![c].best      = IF better THEN k ELSE @,
                                  ![c].bestUsage = IF better THEN seen.usage ELSE @]
  BY DEF ScanKey
<1> DEFINE r == Looked(mem[k], sel[c], Today)
           better == /\ UsableFor(mem[k], sel[c], Today)
                     /\ sel[c].best = 0 \/ r.usage < sel[c].bestUsage
           b == IF better THEN k ELSE sel[c].best
           u == IF better THEN r.usage ELSE sel[c].bestUsage
           s == [sel[c] EXCEPT !.pos = k, !.best = b, !.bestUsage = u]
<1>2. sel \in [Callers -> SelRec] /\ sel[c] \in SelRec
  BY DEF PoolInv, TypeOK
<1>3. k \in Keys /\ k # 0
  BY DEF NextUnseen, Unseen, Keys
<1>4. clock' = clock /\ sel[c].pc = "scan" /\ sel' \in [Callers -> SelRec]
  BY ScanKeyInv DEF ScanKey, PoolInv, TypeOK
<1>5. mem' = [mem EXCEPT ![k] = r]
  BY <1>1
<1>6. sel' = [sel EXCEPT ![c].pos = k, ![c].best = b, ![c].bestUsage = u]
  BY <1>1
<1>7. b = 0 => ~UsableFor(mem[k], sel[c], Today)
  BY <1>3
<1>8. b = k \/ b = sel[c].best
  OBVIOUS
<1> HIDE DEF b, u, r, better
<1>9. sel' = [sel EXCEPT ![c] = s]
  BY <1>2, <1>6 DEF SelRec
<1>10. s \in SelRec
  BY <1>2, <1>4, <1>9
<1>11. /\ s.pc = "scan" /\ s.now = sel[c].now /\ s.model = sel[c].model
       /\ s.excl = sel[c].excl /\ s.tried = sel[c].tried /\ s.pos = k /\ s.best = b
  BY <1>2, <1>4 DEF SelRec
<1> HIDE DEF s
<1>12. QED
  BY <1>3, <1>4, <1>5, <1>7, <1>8, <1>9, <1>10, <1>11 DEF r

LEMMA ScanKeyAhead ==
  ASSUME SearchInv, PoolInv', Watched, NEW c \in Callers, ScanKey(c)
  PROVE  SearchInv'
<1>1. PICK k \in NextUnseen(c), s \in SelRec :
        /\ k \in Keys /\ clock' = clock /\ sel[c].pc = "scan"
        /\ mem' = [mem EXCEPT ![k] = Looked(mem[k], sel[c], Today)]
        /\ sel' = [sel EXCEPT ![c] = s]
        /\ s.pc = "scan" /\ s.now = sel[c].now /\ s.model = sel[c].model
        /\ s.excl = sel[c].excl /\ s.tried = sel[c].tried /\ s.pos = k
        /\ s.best = k \/ s.best = sel[c].best
        /\ s.best = 0 => ~UsableFor(mem[k], sel[c], Today)
  BY ScanKeyStep DEF SearchInv
<1>2. /\ Ahead(sel[c], steady[c]) /\ steady'[c] \subseteq steady[c]
      /\ steady[c] \subseteq Keys
  BY <1>1, SteadyStep DEF Asking, SearchInv
<1>3. k \notin sel[c].excl
  BY DEF NextUnseen, Unseen
<1>4. k # 0
  BY <1>1 DEF Keys
<1>5. ASSUME s.best = 0 PROVE \A j \in steady'[c] : j > s.pos
  <2>1. sel[c].best = 0 /\ ~UsableFor(mem[k], sel[c], Today)
    BY <1>1, <1>4, <1>5
  <2>2. mem[k] \in KeyRec /\ sel[c].now \in Nat /\ Today \in Nat
    BY <1>1, TodayType DEF SearchInv, PoolInv, TypeOK, SelRec
  <2>3. ~Reservable(Looked(mem[k], sel[c], Today), sel[c], Today)
    BY <2>1, <2>2, TurnedDown
  <2>4. k \notin steady'[c]
    BY <1>1, <2>3, NotSteady
  <2>5. \A j \in steady'[c] : j \in Unseen(c)
    BY <1>1, <1>2, <2>1 DEF Ahead, Unseen
  <2>6. \A j \in steady'[c] : k <= j /\ j # k
    BY <2>4, <2>5 DEF NextUnseen
  <2>7. QED
    BY <1>1, <1>2, <2>6 DEF Keys
<1>6. Ahead(s, steady'[c])
  BY <1>1, <1>2, <1>3, <1>5 DEF Ahead
<1>7. QED
  BY <1>1, <1>6, OneMoves

LEMMA EndScanAhead ==
  ASSUME SearchInv, PoolInv', Watched, NEW c \in Callers, EndScan(c)
  PROVE  SearchInv'
<1> DEFINE s == [sel[c] EXCEPT !.pc = IF sel[c].best = 0 THEN "none" ELSE "reserve"]
<1>1. sel \in [Callers -> SelRec] /\ sel[c] \in SelRec /\ sel[c].pc = "scan"
  BY DEF EndScan, SearchInv, PoolInv, TypeOK
<1>2. sel' = [sel EXCEPT ![c] = s]
  BY <1>1 DEF EndScan, SelRec
<1>3. Ahead(sel[c], steady'[c])
  BY <1>1, SteadyStep, FewerAhead DEF SearchInv, Asking
<1>4. Ahead(s, steady'[c])
  BY <1>1, <1>3 DEF Ahead, SelRec
<1>5. QED
  BY <1>2, <1>4, OneMoves

LEMMA LoseRaceAhead ==
  ASSUME SearchInv, PoolInv', Watched, NEW c \in Callers, LoseRace(c)
  PROVE  SearchInv'
<1> DEFINE k == sel[c].best
           s == ScanAgain(sel[c], k)
<1>1. sel \in [Callers -> SelRec] /\ sel[c] \in SelRec /\ sel[c].pc = "reserve"
  BY DEF LoseRace, SearchInv, PoolInv, TypeOK
<1>2. k \in Keys
  BY <1>1 DEF SearchInv, PoolInv, HolderOK
<1>3. /\ sel' = [sel EXCEPT ![c] = s] /\ clock' = clock
      /\ mem' = [mem EXCEPT ![k] = Refused(mem[k], sel[c], Today)]
      /\ ~Reservable(mem[k], sel[c], Today)
  BY DEF LoseRace
<1>4. /\ s.pc = "scan" /\ s.now = sel[c].now /\ s.model = sel[c].model
      /\ s.excl = sel[c].excl /\ s.tried = sel[c].tried \cup {k}
      /\ s.pos = 0 /\ s.best = 0
  BY <1>1 DEF ScanAgain, SelRec
<1>5. /\ mem[k] \in KeyRec /\ sel[c].now \in Nat /\ Today \in Nat
      /\ sel[c].model \in Models \cup {NoModel}
  BY <1>1, <1>2, TodayType DEF SearchInv, PoolInv, TypeOK, SelRec
<1> HIDE DEF k, s
<1>6. ~Reservable(Refused(mem[k], sel[c], Today), sel[c], Today)
  BY <1>3, <1>5, RefusedAgain
<1>7. k \notin steady'[c]
  BY <1>2, <1>3, <1>4, <1>6, NotSteady
<1>8. /\ Ahead(sel[c], steady[c]) /\ steady'[c] \subseteq steady[c]
      /\ steady[c] \subseteq Keys
  BY <1>1, SteadyStep DEF Asking, SearchInv
<1>9. \A j \in Keys : j > 0
  BY NumberConstants DEF Keys
<1>10. Ahead(s, steady'[c])
  BY <1>1, <1>4, <1>7, <1>8, <1>9 DEF Ahead
<1>11. QED
  BY <1>3, <1>10, OneMoves

\* A caller's search that is over, or that moves from asking to holding, says
\* nothing of the keys that stayed free.
LEMMA EndAhead ==
  ASSUME SearchInv, PoolInv', Watched, NEW c \in Callers, NEW s,
         sel' = [sel EXCEPT ![c] = s], s.pc \notin {"scan", "reserve"}
  PROVE  SearchInv'
<1>1. Ahead(s, steady'[c])
  BY DEF Ahead
<1>2. QED
  BY <1>1, OneMoves

LEMMA SearchStep == SearchInv /\ [SelectionNext]_allvars => SearchInv'
<1> SUFFICES ASSUME SearchInv, [SelectionNext]_allvars PROVE SearchInv'
  OBVIOUS
<1>1. PoolInv'
  BY StepInv DEF SearchInv, SelectionNext, allvars
<1>2. CASE UNCHANGED allvars
  BY <1>1, <1>2 DEF SearchInv, allvars, vars
<1>3. CASE SelectionNext
  <2>1. Watched
    BY <1>3 DEF SelectionNext
  <2>2. sel \in [Callers -> SelRec]
    BY DEF SearchInv, PoolInv, TypeOK
  <2>3. ASSUME NEW c \in Callers, NEW excl, NEW model, Begin(c, excl, model)
        PROVE  SearchInv'
    <3> DEFINE s == [Idle EXCEPT !.pc = "scan", !.now = clock, !.model = model, !.excl = excl]
    <3>1. s.pc = "scan" /\ s.best = 0 /\ s.tried = {} /\ s.pos = 0
      BY DEF Idle
    <3>2. sel' = [sel EXCEPT ![c] = s]
      BY <2>3 DEF Begin
    <3>3. QED
      BY <1>1, <2>1, <3>1, <3>2, BeginAhead
  <2>4. ASSUME NEW c \in Callers, NEW k \in Keys, BeginByHash(c, k)
        PROVE  SearchInv'
    <3> DEFINE s == [Idle EXCEPT !.pc = "reserve", !.now = clock, !.excl = Keys \ {k},
                                 !.best = k]
    <3>1. s.pc = "reserve" /\ s.best \in Keys \ s.excl /\ s.tried = {} /\ s.pos = 0
      BY DEF Idle
    <3>2. sel' = [sel EXCEPT ![c] = s]
      BY <2>4 DEF BeginByHash
    <3>3. QED
      BY <1>1, <2>1, <3>1, <3>2, BeginAhead
  <2>5. ASSUME NEW c \in Callers, Reserve(c) PROVE SearchInv'
    <3>1. sel' = [sel EXCEPT ![c] = [sel[c] EXCEPT !.pc = "held"]]
      BY <2>2, <2>5 DEF Reserve
    <3>2. [sel[c] EXCEPT !.pc = "held"].pc = "held"
      BY <2>2 DEF SelRec
    <3>3. QED
      BY <1>1, <2>1, <3>1, <3>2, EndAhead
  <2>6. ASSUME NEW c \in Callers, Refund(c) PROVE SearchInv'
    <3>1. sel' = [sel EXCEPT ![c] = [sel[c] EXCEPT !.pc = "settled"]]
      BY <2>2, <2>6 DEF Refund
    <3>2. [sel[c] EXCEPT !.pc = "settled"].pc = "settled"
      BY <2>2 DEF SelRec
    <3>3. QED
      BY <1>1, <2>1, <3>1, <3>2, EndAhead
  <2>7. ASSUME NEW c \in Callers, Keep(c) \/ Leave(c) PROVE SearchInv'
    <3>1. sel' = [sel EXCEPT ![c] = Idle] /\ Idle.pc = "idle"
      BY <2>7 DEF Keep, Leave, Idle
    <3>2. QED
      BY <1>1, <2>1, <3>1, EndAhead
  <2>8. ASSUME NEW c \in Callers, Punish(c) PROVE SearchInv'
    <3>1. sel' = sel
      BY <2>8 DEF Punish, Cool, Exhaust, Invalidate, CoolModel
    <3>2. QED
      BY <1>1, <2>1, <3>1, NobodyMoves
  <2>9. ASSUME NEW c \in Callers, Select(c) PROVE SearchInv'
    BY <1>1, <2>1, <2>3, <2>4, <2>5, <2>9, ScanKeyAhead, EndScanAhead, LoseRaceAhead
    DEF Select
  <2>10. CASE (\E k \in Keys : ResetExpired(k)) \/ Tick
    <3>1. sel' = sel
      BY <2>10 DEF ResetExpired, Tick
    <3>2. QED
      BY <1>1, <2>1, <3>1, NobodyMoves
  <2>11. Next
    BY <1>3 DEF SelectionNext
  <2>12. QED
    BY <2>6, <2>7, <2>8, <2>9, <2>10, <2>11 DEF Next
<1>4. QED
  BY <1>2, <1>3

LEMMA SearchStart == SelectionInit => SearchInv
<1> SUFFICES ASSUME SelectionInit PROVE SearchInv
  OBVIOUS
<1>1. PoolInv
  BY InitInv DEF SelectionInit
<1>2. steady \in [Callers -> SUBSET Keys]
  BY DEF SelectionInit, FreeFor
<1>3. \A c \in Callers : Ahead(sel[c], steady[c])
  BY DEF SelectionInit, Init, Idle, Ahead
<1>4. QED
  BY <1>1, <1>2, <1>3 DEF SearchInv

(***************************************************************************)
(* The mapping, one step at a time.                                        *)
(***************************************************************************)
AskOf(s) ==
  [pc    |-> IF s.pc \in {"scan", "reserve"} THEN "asking" ELSE s.pc,
   now   |-> s.now,
   model |-> s.model,
   excl  |-> s.excl,
   key   |-> IF s.pc \in {"held", "settled"} THEN s.best ELSE 0]

LEMMA AskedNow ==
  /\ asked = [c \in Callers |-> AskOf(sel[c])]
  /\ \A c \in Callers : asked[c] = AskOf(sel[c])
  BY DEF asked, AskOf, Asking

LEMMA AskedMoves ==
  ASSUME PoolInv, NEW c \in Callers, NEW s, sel' = [sel EXCEPT ![c] = s]
  PROVE  asked' = [asked EXCEPT ![c] = AskOf(s)]
<1>1. sel \in [Callers -> SelRec]
  BY DEF PoolInv, TypeOK
<1>2. asked' = [d \in Callers |-> AskOf(sel'[d])]
  BY DEF asked, AskOf, Asking
<1>3. \A d \in Callers : sel'[d] = IF d = c THEN s ELSE sel[d]
  BY <1>1
<1>4. QED
  BY <1>2, <1>3, AskedNow

LEMMA AskedSame ==
  ASSUME sel' = sel
  PROVE  asked' = asked
  BY DEF asked, Asking

LEMMA FreeSame == \A c \in Callers : Promise!FreeFor(c) = FreeFor(c)
<1> TAKE c \in Callers
<1>1. asked[c].now = sel[c].now /\ asked[c].model = sel[c].model /\ asked[c].excl = sel[c].excl
  BY DEF asked
<1>2. \A k : Promise!Reservable(mem[k], asked[c], Today) <=> Reservable(mem[k], sel[c], Today)
  BY <1>1, SameRequest
<1>3. QED
  BY <1>1, <1>2, SameTime DEF Promise!FreeFor, FreeFor

LEMMA WatchedSame == PoolInv /\ Watched => Promise!Watched
<1>1. (\A c \in Callers : Promise!FreeFor(c) = FreeFor(c))'
  BY FreeSame, PTL
<1> SUFFICES ASSUME PoolInv, Watched PROVE Promise!Watched
  OBVIOUS
<1>2. \A c \in Callers : asked[c].pc # "asking" <=> ~Asking(c)
  <2> TAKE c \in Callers
  <2>1. sel[c] \in SelRec
    BY DEF PoolInv, TypeOK
  <2>2. QED
    BY <2>1, AskedNow DEF AskOf, Asking, SelRec
<1>3. QED
  BY <1>1, <1>2 DEF Watched, Promise!Watched

LEMMA BeginAsks ==
  ASSUME PoolInv, NEW c \in Callers, NEW excl, NEW model, Begin(c, excl, model)
  PROVE  Promise!Ask(c, excl, model)
<1> DEFINE s == [Idle EXCEPT !.pc = "scan", !.now = clock, !.model = model, !.excl = excl]
           a == [pc |-> "asking", now |-> clock, model |-> model, excl |-> excl, key |-> 0]
<1>1. s.pc = "scan" /\ s.now = clock
  BY DEF Idle
<1>2. s.model = model /\ s.excl = excl
  BY DEF Idle
<1>3. sel[c].pc = "idle" /\ sel' = [sel EXCEPT ![c] = s] /\ UNCHANGED <<clock, mem>>
  BY DEF Begin
<1> HIDE DEF s
<1>4. AskOf(s) = a
  BY <1>1, <1>2 DEF AskOf
<1>5. asked' = [asked EXCEPT ![c] = AskOf(s)]
  BY <1>3, AskedMoves
<1>6. asked[c].pc = "idle"
  BY <1>3, AskedNow DEF AskOf
<1>7. QED
  BY <1>3, <1>4, <1>5, <1>6 DEF Promise!Ask

LEMMA BeginByHashAsks ==
  ASSUME PoolInv, NEW c \in Callers, NEW k \in Keys, BeginByHash(c, k)
  PROVE  Promise!Ask(c, Keys \ {k}, NoModel)
<1> DEFINE s == [Idle EXCEPT !.pc = "reserve", !.now = clock, !.excl = Keys \ {k}, !.best = k]
           a == [pc |-> "asking", now |-> clock, model |-> NoModel, excl |-> Keys \ {k}, key |-> 0]
<1>1. s.pc = "reserve" /\ s.now = clock
  BY DEF Idle
<1>2. s.model = NoModel /\ s.excl = Keys \ {k}
  BY DEF Idle
<1>3. sel[c].pc = "idle" /\ sel' = [sel EXCEPT ![c] = s] /\ UNCHANGED <<clock, mem>>
  BY DEF BeginByHash
<1> HIDE DEF s
<1>4. AskOf(s) = a
  BY <1>1, <1>2 DEF AskOf
<1>5. asked' = [asked EXCEPT ![c] = AskOf(s)]
  BY <1>3, AskedMoves
<1>6. asked[c].pc = "idle"
  BY <1>3, AskedNow DEF AskOf
<1>7. QED
  BY <1>3, <1>4, <1>5, <1>6 DEF Promise!Ask

LEMMA ScanLooks ==
  ASSUME PoolInv, NEW c \in Callers, ScanKey(c)
  PROVE  \E k \in Keys : Promise!Look(c, k)
<1>1. PICK k \in NextUnseen(c), s \in SelRec :
        /\ k \in Keys /\ clock' = clock /\ sel[c].pc = "scan"
        /\ mem' = [mem EXCEPT ![k] = Looked(mem[k], sel[c], Today)]
        /\ sel' = [sel EXCEPT ![c] = s]
        /\ s.pc = "scan" /\ s.now = sel[c].now /\ s.model = sel[c].model
        /\ s.excl = sel[c].excl
  BY ScanKeyStep
<1>2. asked' = [asked EXCEPT ![c] = AskOf(s)]
  BY <1>1, AskedMoves
<1>3. AskOf(s) = AskOf(sel[c]) /\ asked[c] = AskOf(sel[c]) /\ asked[c].pc = "asking"
  BY <1>1, AskedNow DEF AskOf
<1>4. asked' = asked
  BY <1>2, <1>3, AskedNow
<1>5. asked[c].now = sel[c].now /\ asked[c].model = sel[c].model
  BY AskedNow DEF AskOf
<1>6. Promise!Looked(mem[k], asked[c], Promise!Today) = Looked(mem[k], sel[c], Today)
  BY <1>5, SameRequest, SameTime
<1>7. Promise!Look(c, k)
  BY <1>1, <1>3, <1>4, <1>6 DEF Promise!Look
<1>8. QED
  BY <1>1, <1>7

LEMMA LoseLooks ==
  ASSUME PoolInv, NEW c \in Callers, LoseRace(c)
  PROVE  \E k \in Keys : Promise!Look(c, k)
<1> DEFINE k == sel[c].best
           s == ScanAgain(sel[c], k)
<1>1. sel[c] \in SelRec /\ sel[c].pc = "reserve" /\ k \in Keys
  BY DEF LoseRace, PoolInv, TypeOK, HolderOK
<1>2. /\ s.pc = "scan" /\ s.now = sel[c].now /\ s.model = sel[c].model
      /\ s.excl = sel[c].excl
  BY <1>1 DEF ScanAgain, SelRec
<1>3. /\ sel' = [sel EXCEPT ![c] = s] /\ clock' = clock
      /\ mem' = [mem EXCEPT ![k] = Refused(mem[k], sel[c], Today)]
  BY DEF LoseRace
<1> HIDE DEF k, s
<1>4. asked' = [asked EXCEPT ![c] = AskOf(s)]
  BY <1>3, AskedMoves
<1>5. AskOf(s) = AskOf(sel[c]) /\ asked[c] = AskOf(sel[c]) /\ asked[c].pc = "asking"
  BY <1>1, <1>2, AskedNow DEF AskOf
<1>6. asked' = asked
  BY <1>4, <1>5, AskedNow
<1>7. asked[c].now = sel[c].now /\ asked[c].model = sel[c].model
  BY AskedNow DEF AskOf
<1>8. Promise!Refused(mem[k], asked[c], Promise!Today) = Refused(mem[k], sel[c], Today)
  BY <1>7, SameRequest, SameTime
<1>9. Promise!Look(c, k)
  BY <1>3, <1>5, <1>6, <1>8 DEF Promise!Look
<1>10. QED
  BY <1>1, <1>9

\* The scan ends: with a candidate the search goes on, without one no key
\* stayed free.
LEMMA EndRefuses ==
  ASSUME SearchInv, NEW c \in Callers, EndScan(c)
  PROVE  Promise!Search(c) \/ Promise!Refuse(c)
<1> DEFINE s == [sel[c] EXCEPT !.pc = IF sel[c].best = 0 THEN "none" ELSE "reserve"]
<1>1. /\ sel \in [Callers -> SelRec] /\ sel[c] \in SelRec /\ sel[c].pc = "scan"
      /\ Unseen(c) = {} /\ clock' = clock /\ mem' = mem
  BY DEF EndScan, SearchInv, PoolInv, TypeOK
<1>2. sel' = [sel EXCEPT ![c] = s]
  BY <1>1 DEF EndScan, SelRec
<1>3. asked' = [asked EXCEPT ![c] = AskOf(s)]
  BY <1>2, AskedMoves DEF SearchInv
<1>4. asked[c] = AskOf(sel[c]) /\ asked[c].pc = "asking"
  BY <1>1, AskedNow DEF AskOf
<1>5. CASE sel[c].best # 0
  <2>1. AskOf(s) = AskOf(sel[c])
    BY <1>1, <1>5 DEF AskOf, SelRec
  <2>2. asked' = asked
    BY <1>3, <1>4, <2>1, AskedNow
  <2>3. QED
    BY <1>1, <1>4, <2>2 DEF Promise!Search
<1>6. CASE sel[c].best = 0
  <2>1. AskOf(s) = [asked[c] EXCEPT !.pc = "none"]
    BY <1>1, <1>4, <1>6 DEF AskOf, SelRec
  <2>2. asked' = [asked EXCEPT ![c].pc = "none"]
    BY <1>3, <2>1, AskedNow
  <2>3. \A j \in steady[c] : j \in Unseen(c)
    BY <1>1, <1>6 DEF SearchInv, Ahead, Unseen
  <2>4. steady[c] = {}
    BY <1>1, <2>3
  <2>5. QED
    BY <1>1, <1>4, <2>2, <2>4 DEF Promise!Refuse
<1>7. QED
  BY <1>5, <1>6

\* The reservation is the grant, of a key that was not excluded.
LEMMA ReserveGrants ==
  ASSUME SearchInv, NEW c \in Callers, Reserve(c)
  PROVE  \E k \in Keys : Promise!Grant(c, k)
<1> DEFINE k == sel[c].best
           s == [sel[c] EXCEPT !.pc = "held"]
<1>1. /\ sel \in [Callers -> SelRec] /\ sel[c] \in SelRec /\ sel[c].pc = "reserve"
      /\ Reservable(mem[k], sel[c], Today) /\ clock' = clock
      /\ mem' = [mem EXCEPT ![k] = Charge(mem[k], sel[c], Today)]
  BY DEF Reserve, SearchInv, PoolInv, TypeOK
<1>2. k \in Keys \ sel[c].excl
  BY <1>1 DEF SearchInv, Ahead
<1>3. sel' = [sel EXCEPT ![c] = s]
  BY <1>1 DEF Reserve
<1>4. asked' = [asked EXCEPT ![c] = AskOf(s)]
  BY <1>3, AskedMoves DEF SearchInv
<1>5. asked[c] = AskOf(sel[c])
  BY AskedNow
<1>6. /\ asked[c].pc = "asking" /\ asked[c].now = sel[c].now
      /\ asked[c].model = sel[c].model /\ asked[c].excl = sel[c].excl
  BY <1>1, <1>5 DEF AskOf
<1>7. AskOf(s) = [asked[c] EXCEPT !.pc = "held", !.key = k]
  <2> DEFINE a == [pc |-> "held", now |-> sel[c].now, model |-> sel[c].model,
                   excl |-> sel[c].excl, key |-> k]
  <2>1. AskOf(s) = a
    BY <1>1 DEF AskOf, SelRec
  <2> DEFINE b == [asked[c] EXCEPT !.pc = "held"]
  <2>2. b = [pc |-> "held", now |-> sel[c].now, model |-> sel[c].model,
             excl |-> sel[c].excl, key |-> 0]
    BY <1>1, <1>5 DEF AskOf
  <2>3. [asked[c] EXCEPT !.pc = "held", !.key = k] = [b EXCEPT !.key = k]
    OBVIOUS
  <2> HIDE DEF b, k
  <2>4. [b EXCEPT !.key = k] = a
    BY <2>2
  <2>5. QED
    BY <2>1, <2>3, <2>4
<1>8. asked' = [asked EXCEPT ![c].pc = "held", ![c].key = k]
  BY <1>4, <1>7, AskedNow
<1> HIDE DEF k, s
<1>9. /\ Promise!Reservable(mem[k], asked[c], Promise!Today)
      /\ Promise!Charge(mem[k], asked[c], Promise!Today) = Charge(mem[k], sel[c], Today)
  BY <1>1, <1>6, SameRequest, SameTime
<1>10. Promise!Grant(c, k)
  BY <1>1, <1>2, <1>6, <1>8, <1>9 DEF Promise!Grant
<1>11. QED
  BY <1>2, <1>10

\* What a caller does with the key it holds.
LEMMA RefundRefunds ==
  ASSUME PoolInv, NEW c \in Callers, Refund(c)
  PROVE  Promise!Refund(c)
<1> DEFINE k == sel[c].best
           s == [sel[c] EXCEPT !.pc = "settled"]
<1>1. /\ sel \in [Callers -> SelRec] /\ sel[c] \in SelRec /\ sel[c].pc = "held"
      /\ clock' = clock /\ mem' = [mem EXCEPT ![k] = RollbackUsage(mem[k])]
  BY DEF Refund, PoolInv, TypeOK
<1>2. sel' = [sel EXCEPT ![c] = s]
  BY <1>1 DEF Refund
<1>3. asked' = [asked EXCEPT ![c] = AskOf(s)]
  BY <1>2, AskedMoves
<1>4. asked[c] = AskOf(sel[c]) /\ asked[c].pc = "held" /\ asked[c].key = k
  BY <1>1, AskedNow DEF AskOf
<1>5. AskOf(s) = [asked[c] EXCEPT !.pc = "settled"]
  BY <1>1, <1>4 DEF AskOf, SelRec
<1>6. asked' = [asked EXCEPT ![c].pc = "settled"]
  BY <1>3, <1>5, AskedNow
<1>7. Promise!RollbackUsage(mem[k]) = RollbackUsage(mem[k])
  BY SamePenalty
<1>8. QED
  BY <1>1, <1>4, <1>6, <1>7 DEF Promise!Refund

LEMMA LeaveLeaves ==
  ASSUME PoolInv, NEW c \in Callers, Keep(c) \/ Leave(c)
  PROVE  Promise!Leave(c)
<1>1. /\ sel[c].pc \in {"held", "settled", "none"}
      /\ UNCHANGED <<clock, mem>> /\ sel' = [sel EXCEPT ![c] = Idle]
  BY DEF Keep, Leave
<1>2. AskOf(Idle) = Promise!NotAsking
  BY DEF AskOf, Idle, Promise!NotAsking
<1>3. asked' = [asked EXCEPT ![c] = Promise!NotAsking]
  BY <1>1, <1>2, AskedMoves
<1>4. asked[c].pc \in {"held", "settled", "none"}
  BY <1>1, AskedNow DEF AskOf
<1>5. QED
  BY <1>1, <1>3, <1>4 DEF Promise!Leave

LEMMA PunishPunishes ==
  ASSUME PoolInv, NEW c \in Callers, Punish(c)
  PROVE  Promise!Punish(c, Durations, CoolStatuses)
<1> DEFINE k == sel[c].best
           m == sel[c].model
<1>1. sel[c].pc \in {"held", "settled"} /\ sel' = sel /\ clock' = clock
  BY DEF Punish, Cool, Exhaust, Invalidate, CoolModel, Using
<1>2. asked' = asked
  BY <1>1, AskedSame
<1>3. /\ asked[c].pc \in {"held", "settled"} /\ asked[c].key = k /\ asked[c].model = m
  BY <1>1, AskedNow DEF AskOf
<1> DEFINE p == Promise!Penalised(mem[k], m, Durations, CoolStatuses)
<1>4. \E r \in p : mem' = [mem EXCEPT ![k] = r]
  <2>1. ASSUME NEW d \in Durations, NEW st \in CoolStatuses, Cool(c, d, st)
        PROVE  \E r \in p : mem' = [mem EXCEPT ![k] = r]
    <3>1. mem' = [mem EXCEPT ![k] = SetCooldown(mem[k], clock + d, st)]
      BY <2>1 DEF Cool
    <3>2. SetCooldown(mem[k], clock + d, st) = Promise!SetCooldown(mem[k], clock + d, st)
      BY SamePenalty
    <3>3. Promise!SetCooldown(mem[k], clock + d, st) \in p
      BY DEF Promise!Penalised
    <3> HIDE DEF p, k
    <3>4. QED
      BY <3>1, <3>2, <3>3
  <2>2. CASE Exhaust(c)
    <3>1. mem' = [mem EXCEPT ![k] = MarkDayExhausted(mem[k], Today)]
      BY <2>2 DEF Exhaust
    <3>2. MarkDayExhausted(mem[k], Today) = Promise!MarkDayExhausted(mem[k], Promise!Today)
      BY SamePenalty, SameTime
    <3>3. Promise!MarkDayExhausted(mem[k], Promise!Today) \in p
      BY DEF Promise!Penalised
    <3> HIDE DEF p, k
    <3>4. QED
      BY <3>1, <3>2, <3>3
  <2>3. CASE Invalidate(c)
    <3>1. mem' = [mem EXCEPT ![k] = SetStatus(mem[k], "invalid", Today)]
      BY <2>3 DEF Invalidate
    <3>2. SetStatus(mem[k], "invalid", Today) = Promise!SetStatus(mem[k], "invalid", Promise!Today)
      BY SamePenalty, SameTime
    <3>3. Promise!SetStatus(mem[k], "invalid", Promise!Today) \in p
      BY DEF Promise!Penalised
    <3> HIDE DEF p, k
    <3>4. QED
      BY <3>1, <3>2, <3>3
  <2>4. CASE CoolModel(c, NextMidnight(clock))
    <3> DEFINE r == SetModelCooldown(mem[k], m, NextMidnight(clock))
    <3>1. m # NoModel /\ mem' = [mem EXCEPT ![k] = r]
      BY <2>4 DEF CoolModel
    <3>2. r = Promise!SetModelCooldown(mem[k], m, Promise!NextMidnight(clock))
      BY SamePenalty, SameTime
    <3>3. Promise!SetModelCooldown(mem[k], m, Promise!NextMidnight(clock)) \in p
      BY <3>1 DEF Promise!Penalised
    <3> HIDE DEF p, k, r, m
    <3>4. QED
      BY <3>1, <3>2, <3>3
  <2>5. QED
    BY <2>1, <2>2, <2>3, <2>4 DEF Punish
<1>5. QED
  BY <1>1, <1>2, <1>3, <1>4 DEF Promise!Punish

LEMMA ResetResets ==
  ASSUME NEW k \in Keys, ResetExpired(k)
  PROVE  Promise!ResetExpired(k)
<1>1. sel' = sel /\ mem[k].day # Today /\ clock' = clock
      /\ mem' = [mem EXCEPT ![k] = ResetDailyUsageIfNewDay(mem[k], Today)]
  BY DEF ResetExpired, NewCount
<1>2. ResetDailyUsageIfNewDay(mem[k], Today)
        = Promise!ResetDailyUsageIfNewDay(mem[k], Promise!Today)
  BY SameReset, SameTime
<1>3. QED
  BY <1>1, <1>2, AskedSame, SameTime DEF Promise!ResetExpired

(***************************************************************************)
(* The theorem.                                                            *)
(***************************************************************************)
LEMMA StepKept ==
  SearchInv /\ [SelectionNext]_allvars => [PromiseNext]_<<clock, mem, asked, steady>>
<1> SUFFICES ASSUME SearchInv, [SelectionNext]_allvars
             PROVE  [PromiseNext]_<<clock, mem, asked, steady>>
  OBVIOUS
<1>1. CASE UNCHANGED allvars
  BY <1>1, AskedSame DEF allvars, vars
<1>2. CASE SelectionNext
  <2>1. PoolInv
    BY DEF SearchInv
  <2>2. Promise!Watched
    BY <1>2, <2>1, WatchedSame DEF SelectionNext
  <2>3. ASSUME NEW c \in Callers, Select(c) PROVE PromiseNext
    <3>1. ASSUME NEW excl \in Exclusions, NEW model \in Models \cup {NoModel},
                 Begin(c, excl, model)
          PROVE  PromiseNext
      <4>1. excl \in SUBSET Keys
        BY PoolAssumption
      <4>2. QED
        BY <2>1, <2>2, <3>1, <4>1, BeginAsks DEF PromiseNext
    <3>2. ASSUME NEW k \in Keys, BeginByHash(c, k) PROVE PromiseNext
      <4>1. Keys \ {k} \in SUBSET Keys /\ NoModel \in Models \cup {NoModel}
        OBVIOUS
      <4>2. QED
        BY <2>1, <2>2, <3>2, <4>1, BeginByHashAsks DEF PromiseNext
    <3>3. CASE ScanKey(c)
      BY <2>1, <2>2, <3>3, ScanLooks DEF PromiseNext
    <3>4. CASE EndScan(c)
      BY <2>2, <3>4, EndRefuses DEF PromiseNext
    <3>5. CASE Reserve(c)
      BY <2>2, <3>5, ReserveGrants DEF PromiseNext
    <3>6. CASE LoseRace(c)
      BY <2>1, <2>2, <3>6, LoseLooks DEF PromiseNext
    <3>7. QED
      BY <2>3, <3>1, <3>2, <3>3, <3>4, <3>5, <3>6 DEF Select
  <2>4. ASSUME NEW c \in Callers, Keep(c) \/ Leave(c) PROVE PromiseNext
    BY <2>1, <2>2, <2>4, LeaveLeaves DEF PromiseNext
  <2>5. ASSUME NEW c \in Callers, Refund(c) PROVE PromiseNext
    BY <2>1, <2>2, <2>5, RefundRefunds DEF PromiseNext
  <2>6. ASSUME NEW c \in Callers, Punish(c) PROVE PromiseNext
    BY <2>1, <2>2, <2>6, PunishPunishes DEF PromiseNext
  <2>7. ASSUME NEW k \in Keys, ResetExpired(k) PROVE PromiseNext
    BY <2>2, <2>7, ResetResets DEF PromiseNext
  <2>8. CASE Tick
    <3>1. Promise!Tick
      BY <2>8, AskedSame DEF Tick, Promise!Tick
    <3>2. QED
      BY <2>2, <3>1 DEF PromiseNext
  <2>9. QED
    BY <1>2, <2>3, <2>4, <2>5, <2>6, <2>7, <2>8 DEF SelectionNext, Next
<1>3. QED
  BY <1>1, <1>2

\* The pool implements the dispenser: whatever races it loses, it hands out
\* only a key that may be used, charged in the same step, and refuses a caller
\* only when no key it may take stayed free since it asked.
THEOREM PromiseTheorem == SelectionSpec => KeepsPromise
<1>1. SelectionSpec => []SearchInv
  BY SearchStart, SearchStep, PTL DEF SelectionSpec
<1>2. QED
  BY <1>1, StepKept, PTL DEF SelectionSpec, KeepsPromise
(***************************************************************************)
(* The windows: the list a key keeps against what it was charged.          *)
(***************************************************************************)

\* The list T of a key against the requests P it was charged promptly: what
\* was charged in the last window is in the list, the list knows nothing of
\* the future, and what it holds of this instant was charged promptly.
LaneOK(T, P, now) ==
  /\ \A x \in T \cup P : x[1] <= now
  /\ CleanTimes(P, now) \subseteq T
  /\ {x \in T : x[1] = now} \subseteq P

\* The books of the windows, which the limits follow from.
WindowBooks ==
  /\ prompt \in [Keys -> [Lanes -> Multiset]]
  /\ \A k \in Keys : mem[k].rpm = KeyRPM
  /\ \A c \in Callers : sel[c].now <= clock
  /\ \A k \in Keys, m \in Lanes : LaneOK(Lane(mem[k], m), prompt[k][m], clock)

WindowInv == PoolInv /\ WindowBooks /\ WindowKept

\* A list that is trimmed by a caller with an older clock still remembers.
LEMMA TrimmedLane ==
  ASSUME NEW T \in Multiset, NEW P \in Multiset, NEW R, NEW c \in Nat, NEW now \in Nat, now <= c,
         LaneOK(T, P, c), R \subseteq T, CleanTimes(T, now) \subseteq R
  PROVE  LaneOK(R, P, c)
<1>1. \A x \in T \cup P : x[1] \in Nat
  BY DEF Multiset
<1>2. Window \in Nat \ {0}
  BY TimeAssumption
<1>3. CleanTimes(P, c) \subseteq R
  BY <1>1, <1>2 DEF LaneOK, CleanTimes
<1>. QED BY <1>3 DEF LaneOK

\* A stamp of the past is not one of this instant.
LEMMA LateLane ==
  ASSUME NEW T \in Multiset, NEW P \in Multiset, NEW c \in Nat, NEW now \in Nat, now < c,
         LaneOK(T, P, c)
  PROVE  LaneOK(AddTime(CleanTimes(T, now), now), P, c)
<1> DEFINE R == CleanTimes(T, now)
           n == 1 + Cardinality({x \in R : x[1] = now})
<1>1. LaneOK(R, P, c)
  BY TrimmedLane DEF CleanTimes
<1>2. AddTime(R, now) = R \cup {<<now, n>>}
  BY DEF AddTime
<1> HIDE DEF R, n
<1>3. CleanTimes(P, c) \subseteq R \cup {<<now, n>>}
  BY <1>1 DEF LaneOK
<1>4. \A x \in (R \cup {<<now, n>>}) \cup P : x[1] <= c
  BY <1>1 DEF LaneOK
<1>5. {x \in R \cup {<<now, n>>} : x[1] = c} \subseteq P
  BY <1>1 DEF LaneOK
<1>6. LaneOK(R \cup {<<now, n>>}, P, c)
  BY <1>3, <1>4, <1>5 DEF LaneOK
<1>. QED BY <1>2, <1>6 DEF R

\* A prompt charge enters the list and the history under the same number.
LEMMA PromptLane ==
  ASSUME NEW T \in Multiset, NEW P \in Multiset, NEW c \in Nat, LaneOK(T, P, c)
  PROVE  LaneOK(AddTime(CleanTimes(T, c), c), AddTime(P, c), c)
<1> DEFINE R == CleanTimes(T, c)
           new == <<c, 1 + Cardinality({x \in P : x[1] = c})>>
<1>1. LaneOK(R, P, c)
  BY TrimmedLane DEF CleanTimes
<1>2. \A x \in P : x[1] = c => x \in R
  BY <1>1, TimeAssumption DEF LaneOK, CleanTimes
<1>3. {x \in R : x[1] = c} = {x \in P : x[1] = c}
  BY <1>1, <1>2 DEF LaneOK
<1>4. AddTime(R, c) = R \cup {new} /\ AddTime(P, c) = P \cup {new}
  BY <1>3 DEF AddTime
<1>5. new[1] = c
  OBVIOUS
<1> HIDE DEF R, new
<1>6. CleanTimes(P \cup {new}, c) \subseteq R \cup {new}
  BY <1>1 DEF LaneOK, CleanTimes
<1>7. \A x \in (R \cup {new}) \cup (P \cup {new}) : x[1] <= c
  BY <1>1, <1>5 DEF LaneOK
<1>8. {x \in R \cup {new} : x[1] = c} \subseteq P \cup {new}
  BY <1>1 DEF LaneOK
<1>9. LaneOK(R \cup {new}, P \cup {new}, c)
  BY <1>6, <1>7, <1>8 DEF LaneOK
<1>. QED BY <1>4, <1>9 DEF R

\* Time passes: the window slides, and nothing is of the new instant yet.
LEMMA TickLane ==
  ASSUME NEW T \in Multiset, NEW P \in Multiset, NEW c \in Nat, LaneOK(T, P, c)
  PROVE  LaneOK(T, P, c + 1)
<1>1. \A x \in T \cup P : x[1] \in Nat /\ x[1] <= c
  BY DEF Multiset, LaneOK
<1>2. CleanTimes(P, c + 1) \subseteq CleanTimes(P, c)
  BY <1>1, TimeAssumption DEF CleanTimes
<1>3. {x \in T : x[1] = c + 1} = {}
  BY <1>1
<1>. QED BY <1>1, <1>2, <1>3 DEF LaneOK

\* Room in the list is room in every window that the new request falls into.
LEMMA PromptCount ==
  ASSUME NEW T \in Multiset, NEW P \in Multiset, NEW c \in Nat, LaneOK(T, P, c),
         NEW n \in Nat, Cardinality(CleanTimes(T, c)) < n,
         NEW t \in Nat, t >= c
  PROVE  Cardinality({x \in AddTime(P, c) : t - Window < x[1] /\ x[1] <= t}) <= n
<1> DEFINE R == CleanTimes(T, c)
           new == <<c, 1 + Cardinality({x \in P : x[1] = c})>>
           W == {x \in AddTime(P, c) : t - Window < x[1] /\ x[1] <= t}
<1>1. AddTime(P, c) = P \cup {new} /\ new[1] = c
  BY DEF AddTime
<1> HIDE DEF new
<1>2. \A x \in P : x[1] \in Nat
  BY DEF Multiset
<1>3. CleanTimes(P, c) \subseteq R
  BY <1>2, TimeAssumption DEF LaneOK, CleanTimes
<1>4. \A x \in P : t - Window < x[1] => x \in CleanTimes(P, c)
  BY <1>2, TimeAssumption DEF CleanTimes
<1>5. W \subseteq R \cup {new}
  BY <1>1, <1>3, <1>4
<1>6. IsFiniteSet(R) /\ Cardinality(R) \in Nat
  BY CleanTimesType, FS_CardinalityType DEF Multiset
<1> HIDE DEF R, W
<1>7. /\ IsFiniteSet(R \cup {new})
      /\ Cardinality(R \cup {new}) <= Cardinality(R) + 1
  <2>1. /\ IsFiniteSet(R \cup {new})
        /\ Cardinality(R \cup {new}) = Cardinality(R) \/ Cardinality(R \cup {new}) = Cardinality(R) + 1
    BY <1>6, FS_AddElement
  <2>. QED BY <1>6, <2>1
<1>8. IsFiniteSet(W) /\ Cardinality(W) <= Cardinality(R \cup {new})
  BY <1>5, <1>7, FS_Subset
<1>9. Cardinality(R) < n
  BY DEF R
<1>10. Cardinality(W) \in Nat /\ Cardinality(R \cup {new}) \in Nat
  BY <1>7, <1>8, FS_CardinalityType
<1>11. Cardinality(W) <= n
  BY <1>6, <1>7, <1>8, <1>9, <1>10
<1>. QED BY <1>11 DEF W

\* A step that charges nobody leaves the history as it is.
LEMMA NoCharge ==
  ASSUME WindowBooks, [WindowNext]_windowvars,
         \A c \in Callers : sel[c].pc = "reserve" => sel'[c].pc # "held"
  PROVE  prompt' = prompt
<1>1. prompt \in [Keys -> [Lanes -> Multiset]]
  BY DEF WindowBooks
<1>2. ASSUME NEW k \in Keys, NEW m \in Lanes
      PROVE  ~\E c \in Callers : ChargesNow(c, k, m)
  BY DEF ChargesNow
<1>3. CASE WindowNext
  <2>1. prompt' = [k \in Keys |-> [m \in Lanes |-> prompt[k][m]]]
    BY <1>2, <1>3 DEF WindowNext
  <2>. QED BY <1>1, <2>1
<1>4. CASE UNCHANGED windowvars
  BY <1>4 DEF windowvars
<1>. QED BY <1>3, <1>4

\* While the history stays, so does what WindowKept says of it.
LEMMA SameWindows ==
  ASSUME WindowKept, prompt' = prompt
  PROVE  WindowKept'
  BY DEF WindowKept, InWindow

\* A step that charges nobody and only trims lists.
LEMMA TrimStep ==
  ASSUME WindowInv, prompt' = prompt, clock' = clock,
         \A k \in Keys : \/ mem'[k] = mem[k]
                         \/ \E now \in Nat : now <= clock /\ Trims(mem[k], mem'[k], now),
         \A k \in Keys : mem'[k] \in KeyRec,
         \A c \in Callers : sel'[c].now <= clock
  PROVE  WindowBooks' /\ WindowKept'
<1>1. clock \in Nat
  BY TodayType DEF WindowInv, PoolInv
<1>2. ASSUME NEW k \in Keys
      PROVE  mem'[k].rpm = KeyRPM
  BY DEF Trims, WindowInv, WindowBooks
<1>3. ASSUME NEW k \in Keys, NEW m \in Lanes
      PROVE  LaneOK(Lane(mem'[k], m), prompt[k][m], clock)
  <2> DEFINE T == Lane(mem[k], m)
             R == Lane(mem'[k], m)
             P == prompt[k][m]
  <2>1. T \in Multiset /\ P \in Multiset
    BY LaneType DEF WindowInv, WindowBooks, PoolInv, TypeOK, Lanes
  <2>2. LaneOK(T, P, clock)
    BY DEF WindowInv, WindowBooks
  <2>3. CASE mem'[k] = mem[k]
    BY <2>2, <2>3
  <2>4. CASE \E now \in Nat : now <= clock /\ Trims(mem[k], mem'[k], now)
    <3>1. PICK now \in Nat : now <= clock /\ Trims(mem[k], mem'[k], now)
      BY <2>4
    <3>2. R \subseteq T /\ CleanTimes(T, now) \subseteq R
      BY <3>1 DEF Trims, Lanes
    <3> HIDE DEF T, R, P
    <3>3. LaneOK(R, P, clock)
      BY <1>1, <2>1, <2>2, <3>1, <3>2, TrimmedLane
    <3>. QED BY <3>3 DEF R, P
  <2>. QED BY <2>3, <2>4
<1>4. WindowBooks'
  BY <1>2, <1>3 DEF WindowInv, WindowBooks
<1>. QED BY <1>4, SameWindows DEF WindowInv

\* Time passes.
LEMMA TickStep ==
  ASSUME WindowInv, Tick, prompt' = prompt
  PROVE  WindowBooks' /\ WindowKept'
<1>1. clock \in Nat /\ clock' = clock + 1 /\ mem' = mem /\ sel' = sel
  BY TodayType DEF WindowInv, PoolInv, Tick
<1>2. ASSUME NEW k \in Keys, NEW m \in Lanes
      PROVE  LaneOK(Lane(mem[k], m), prompt[k][m], clock + 1)
  <2> DEFINE T == Lane(mem[k], m)
             P == prompt[k][m]
  <2>1. T \in Multiset /\ P \in Multiset
    BY LaneType DEF WindowInv, WindowBooks, PoolInv, TypeOK, Lanes
  <2>2. LaneOK(T, P, clock)
    BY DEF WindowInv, WindowBooks
  <2> HIDE DEF T, P
  <2>3. LaneOK(T, P, clock + 1)
    BY <1>1, <2>1, <2>2, TickLane
  <2>. QED BY <2>3 DEF T, P
<1>3. \A c \in Callers : sel[c].now \in Nat
  BY DEF WindowInv, PoolInv, TypeOK, SelRec
<1>4. WindowBooks'
  BY <1>1, <1>2, <1>3 DEF WindowInv, WindowBooks
<1>. QED BY <1>4, SameWindows DEF WindowInv

\* One caller moves, and not from its reservation to the key.
LEMMA OneCaller ==
  ASSUME WindowInv, NEW c \in Callers, NEW s, sel' = [sel EXCEPT ![c] = s],
         s.now <= clock, sel[c].pc = "reserve" => s.pc # "held"
  PROVE  /\ \A d \in Callers : sel'[d].now <= clock
         /\ \A d \in Callers : sel[d].pc = "reserve" => sel'[d].pc # "held"
<1>1. \A d \in Callers : sel'[d] = IF d = c THEN s ELSE sel[d]
  BY DEF WindowInv, PoolInv, TypeOK
<1>2. \A d \in Callers : sel[d].now <= clock
  BY DEF WindowInv, WindowBooks
<1>. QED BY <1>1, <1>2

\* A caller that moves while the keys stay as they are.
LEMMA CallerMoves ==
  ASSUME WindowInv, [WindowNext]_windowvars, clock' = clock, mem' = mem,
         NEW c \in Callers, NEW s, sel' = [sel EXCEPT ![c] = s],
         s.now <= clock, sel[c].pc = "reserve" => s.pc # "held"
  PROVE  WindowBooks' /\ WindowKept'
<1>1. /\ \A d \in Callers : sel'[d].now <= clock
      /\ \A d \in Callers : sel[d].pc = "reserve" => sel'[d].pc # "held"
  BY OneCaller
<1>2. prompt' = prompt
  BY <1>1, NoCharge DEF WindowInv
<1>3. \A k \in Keys : mem'[k] \in KeyRec
  BY DEF WindowInv, PoolInv, TypeOK
<1>. QED BY <1>1, <1>2, <1>3, TrimStep

\* A method of one key that takes nothing of the last window away.
LEMMA KeyTrimmed ==
  ASSUME WindowInv, PoolInv', [WindowNext]_windowvars, clock' = clock,
         NEW k \in Keys, NEW r, mem' = [mem EXCEPT ![k] = r],
         NEW now \in Nat, now <= clock, Trims(mem[k], r, now),
         \A d \in Callers : sel'[d].now <= clock,
         \A d \in Callers : sel[d].pc = "reserve" => sel'[d].pc # "held"
  PROVE  WindowBooks' /\ WindowKept'
<1>1. prompt' = prompt
  BY NoCharge DEF WindowInv
<1>2. \A j \in Keys : mem'[j] = IF j = k THEN r ELSE mem[j]
  BY DEF WindowInv, PoolInv, TypeOK
<1>3. \A j \in Keys : \/ mem'[j] = mem[j]
                      \/ \E n \in Nat : n <= clock /\ Trims(mem[j], mem'[j], n)
  BY <1>2
<1>4. \A j \in Keys : mem'[j] \in KeyRec
  BY DEF PoolInv, TypeOK
<1>. QED BY <1>1, <1>3, <1>4, TrimStep

\* A penalty, a refund or a reset of one key.
LEMMA PenaltyTrims ==
  ASSUME WindowInv, PoolInv', [WindowNext]_windowvars, clock' = clock,
         NEW k \in Keys, NEW r, mem' = [mem EXCEPT ![k] = r], Trims(mem[k], r, clock),
         \A d \in Callers : sel'[d].now = sel[d].now,
         \A d \in Callers : sel[d].pc = "reserve" => sel'[d].pc = "reserve"
  PROVE  WindowBooks' /\ WindowKept'
<1>1. clock \in Nat /\ clock <= clock
  BY TodayType DEF WindowInv, PoolInv
<1>2. /\ \A d \in Callers : sel'[d].now <= clock
      /\ \A d \in Callers : sel[d].pc = "reserve" => sel'[d].pc # "held"
  BY DEF WindowInv, WindowBooks
<1>. QED BY <1>1, <1>2, KeyTrimmed

LEMMA PunishWindows ==
  ASSUME WindowInv, PoolInv', [WindowNext]_windowvars, NEW c \in Callers, Punish(c)
  PROVE  WindowBooks' /\ WindowKept'
<1> DEFINE k == sel[c].best
<1>1. k \in Keys /\ mem[k] \in KeyRec /\ Today \in Nat
  BY TodayType DEF WindowInv, PoolInv, TypeOK, HolderOK, Punish, Cool, Exhaust, Invalidate,
     CoolModel, Using
<1>2. sel' = sel /\ clock' = clock
  BY DEF Punish, Cool, Exhaust, Invalidate, CoolModel
<1>3. PICK r : mem' = [mem EXCEPT ![k] = r] /\ Trims(mem[k], r, clock)
  <2>1. ASSUME NEW d \in Durations, NEW st \in CoolStatuses, Cool(c, d, st)
        PROVE  \E r : mem' = [mem EXCEPT ![k] = r] /\ Trims(mem[k], r, clock)
    <3>1. Trims(mem[k], SetCooldown(mem[k], clock + d, st), clock)
      BY <1>1, PenaltiesTrim
    <3>. QED BY <2>1, <3>1 DEF Cool
  <2>2. ASSUME Exhaust(c)
        PROVE  \E r : mem' = [mem EXCEPT ![k] = r] /\ Trims(mem[k], r, clock)
    <3>1. Trims(mem[k], MarkDayExhausted(mem[k], Today), clock)
      BY <1>1, PenaltiesTrim
    <3>. QED BY <2>2, <3>1 DEF Exhaust
  <2>3. ASSUME Invalidate(c)
        PROVE  \E r : mem' = [mem EXCEPT ![k] = r] /\ Trims(mem[k], r, clock)
    <3>1. Trims(mem[k], SetStatus(mem[k], "invalid", Today), clock)
      BY <1>1, PenaltiesTrim
    <3>. QED BY <2>3, <3>1 DEF Invalidate
  <2>4. ASSUME CoolModel(c, NextMidnight(clock))
        PROVE  \E r : mem' = [mem EXCEPT ![k] = r] /\ Trims(mem[k], r, clock)
    <3>1. Trims(mem[k], SetModelCooldown(mem[k], sel[c].model, NextMidnight(clock)), clock)
      BY <1>1, PenaltiesTrim
    <3>. QED BY <2>4, <3>1 DEF CoolModel
  <2>. QED BY <2>1, <2>2, <2>3, <2>4 DEF Punish
<1> HIDE DEF k
<1>. QED BY <1>1, <1>2, <1>3, PenaltyTrims

LEMMA ResetWindows ==
  ASSUME WindowInv, PoolInv', [WindowNext]_windowvars, NEW k \in Keys, ResetExpired(k)
  PROVE  WindowBooks' /\ WindowKept'
<1>1. mem[k] \in KeyRec /\ Today \in Nat
  BY TodayType DEF WindowInv, PoolInv, TypeOK
<1>2. Trims(mem[k], ResetDailyUsageIfNewDay(mem[k], Today), clock)
  BY <1>1, PenaltiesTrim
<1>. QED BY <1>2, PenaltyTrims DEF ResetExpired

LEMMA RefundWindows ==
  ASSUME WindowInv, PoolInv', [WindowNext]_windowvars, NEW c \in Callers, Refund(c)
  PROVE  WindowBooks' /\ WindowKept'
<1> DEFINE k == sel[c].best
           r == RollbackUsage(mem[k])
<1>1. k \in Keys /\ mem[k] \in KeyRec /\ Today \in Nat /\ sel \in [Callers -> SelRec]
  BY TodayType DEF WindowInv, PoolInv, TypeOK, HolderOK, Refund
<1>2. Trims(mem[k], r, clock)
  BY <1>1, PenaltiesTrim
<1>3. sel' = [sel EXCEPT ![c].pc = "settled"] /\ sel[c].pc = "held"
      /\ clock' = clock /\ mem' = [mem EXCEPT ![k] = r]
  BY DEF Refund
<1>4. /\ \A d \in Callers : sel'[d].now = sel[d].now
      /\ \A d \in Callers : sel[d].pc = "reserve" => sel'[d].pc = "reserve"
  <2>1. \A d \in Callers : sel[d] \in SelRec
    BY <1>1
  <2>. QED BY <1>1, <1>3, <2>1 DEF SelRec
<1> HIDE DEF k, r
<1>. QED BY <1>1, <1>2, <1>3, <1>4, PenaltyTrims

LEMMA ScanWindows ==
  ASSUME WindowInv, PoolInv', [WindowNext]_windowvars, NEW c \in Callers, ScanKey(c)
  PROVE  WindowBooks' /\ WindowKept'
<1>1. PICK k \in NextUnseen(c) : mem' = [mem EXCEPT ![k] = Looked(mem[k], sel[c], Today)]
  BY DEF ScanKey
<1>2. k \in Keys
  BY DEF NextUnseen, Unseen
<1>3. mem[k] \in KeyRec /\ Today \in Nat /\ sel \in [Callers -> SelRec]
  BY <1>2, TodayType DEF WindowInv, PoolInv, TypeOK
<1>4. sel[c].now \in Nat /\ sel[c].now <= clock /\ sel[c].model \in Models \cup {NoModel}
  BY <1>3 DEF WindowInv, WindowBooks, SelRec
<1>5. Trims(mem[k], Looked(mem[k], sel[c], Today), sel[c].now)
  BY <1>3, <1>4, RequestTrims
<1>6. \A d \in Callers : sel'[d].now = sel[d].now /\ sel'[d].pc = sel[d].pc
  <2>1. \A d \in Callers : sel[d] \in SelRec
    BY <1>3
  <2>2. PICK p \in NextUnseen(c), better \in BOOLEAN :
          sel' = [sel EXCEPT ![c].pos       = p,
                             ![c].best      = IF better THEN p ELSE @,
                             ![c].bestUsage = IF better
                                              THEN Looked(mem[p], sel[c], Today).usage ELSE @]
    BY DEF ScanKey
  <2> DEFINE b == IF better THEN p ELSE sel[c].best
             u == IF better THEN Looked(mem[p], sel[c], Today).usage ELSE sel[c].bestUsage
             s == [sel[c] EXCEPT !.pos = p, !.best = b, !.bestUsage = u]
  <2>3. sel' = [sel EXCEPT ![c] = s]
    BY <1>3, <2>1, <2>2 DEF SelRec
  <2>4. s.now = sel[c].now /\ s.pc = sel[c].pc
    BY <2>1 DEF SelRec
  <2> HIDE DEF s
  <2>. QED BY <1>3, <2>3, <2>4
<1>7. sel[c].pc = "scan" /\ clock' = clock
  BY DEF ScanKey
<1>8. /\ \A d \in Callers : sel'[d].now <= clock
      /\ \A d \in Callers : sel[d].pc = "reserve" => sel'[d].pc # "held"
  BY <1>6 DEF WindowInv, WindowBooks
<1>. QED BY <1>1, <1>2, <1>4, <1>5, <1>7, <1>8, KeyTrimmed

LEMMA LoseWindows ==
  ASSUME WindowInv, PoolInv', [WindowNext]_windowvars, NEW c \in Callers, LoseRace(c)
  PROVE  WindowBooks' /\ WindowKept'
<1> DEFINE k == sel[c].best
           s == ScanAgain(sel[c], k)
<1>1. k \in Keys /\ mem[k] \in KeyRec /\ Today \in Nat /\ sel \in [Callers -> SelRec]
  BY TodayType DEF WindowInv, PoolInv, TypeOK, HolderOK, LoseRace
<1>2. sel[c].now \in Nat /\ sel[c].now <= clock /\ sel[c].model \in Models \cup {NoModel}
  BY <1>1 DEF WindowInv, WindowBooks, SelRec
<1>3. Trims(mem[k], Refused(mem[k], sel[c], Today), sel[c].now)
  BY <1>1, <1>2, RequestTrims
<1>4. /\ sel' = [sel EXCEPT ![c] = s] /\ clock' = clock
      /\ mem' = [mem EXCEPT ![k] = Refused(mem[k], sel[c], Today)]
  BY DEF LoseRace
<1>5. s.now = sel[c].now /\ s.pc = "scan"
  <2>1. sel[c] \in SelRec
    BY <1>1
  <2>. QED BY <2>1 DEF ScanAgain, SelRec
<1> HIDE DEF k, s
<1>6. /\ \A d \in Callers : sel'[d].now <= clock
      /\ \A d \in Callers : sel[d].pc = "reserve" => sel'[d].pc # "held"
  BY <1>2, <1>4, <1>5, OneCaller
<1>. QED BY <1>1, <1>2, <1>3, <1>4, <1>6, KeyTrimmed

\* A caller that begins, ends its scan, keeps its charge or leaves.
LEMMA MoveWindows ==
  ASSUME WindowInv, [WindowNext]_windowvars, NEW c \in Callers,
         \/ \E excl \in Exclusions, model \in Models \cup {NoModel} : Begin(c, excl, model)
         \/ \E k \in Keys : BeginByHash(c, k)
         \/ EndScan(c) \/ Keep(c) \/ Leave(c)
  PROVE  WindowBooks' /\ WindowKept'
<1>1. sel[c] \in SelRec /\ sel[c].now <= clock /\ clock \in Nat
  BY TodayType DEF WindowInv, WindowBooks, PoolInv, TypeOK
<1>2. clock' = clock /\ mem' = mem
  BY DEF Begin, BeginByHash, EndScan, Keep, Leave
<1>3. PICK s : sel' = [sel EXCEPT ![c] = s] /\ s.now <= clock /\ s.pc # "held"
  <2>1. ASSUME NEW excl, NEW model, Begin(c, excl, model)
        PROVE  \E s : sel' = [sel EXCEPT ![c] = s] /\ s.now <= clock /\ s.pc # "held"
    <3> DEFINE s == [Idle EXCEPT !.pc = "scan", !.now = clock, !.model = model, !.excl = excl]
    <3>1. sel' = [sel EXCEPT ![c] = s]
      BY <2>1 DEF Begin
    <3>2. s.now <= clock /\ s.pc # "held"
      BY <1>1 DEF Idle
    <3>. QED BY <3>1, <3>2
  <2>2. ASSUME NEW k, BeginByHash(c, k)
        PROVE  \E s : sel' = [sel EXCEPT ![c] = s] /\ s.now <= clock /\ s.pc # "held"
    <3> DEFINE s == [Idle EXCEPT !.pc = "reserve", !.now = clock, !.excl = Keys \ {k}, !.best = k]
    <3>1. sel' = [sel EXCEPT ![c] = s]
      BY <2>2 DEF BeginByHash
    <3>2. s.now <= clock /\ s.pc # "held"
      BY <1>1 DEF Idle
    <3>. QED BY <3>1, <3>2
  <2>3. ASSUME EndScan(c)
        PROVE  \E s : sel' = [sel EXCEPT ![c] = s] /\ s.now <= clock /\ s.pc # "held"
    <3> DEFINE p == IF sel[c].best = 0 THEN "none" ELSE "reserve"
               s == [sel[c] EXCEPT !.pc = p]
    <3>1. sel' = [sel EXCEPT ![c] = s]
      BY <2>3 DEF EndScan
    <3>2. s.now <= clock /\ s.pc # "held"
      BY <1>1 DEF SelRec
    <3>. QED BY <3>1, <3>2
  <2>4. ASSUME Keep(c) \/ Leave(c)
        PROVE  \E s : sel' = [sel EXCEPT ![c] = s] /\ s.now <= clock /\ s.pc # "held"
    <3>1. sel' = [sel EXCEPT ![c] = Idle]
      BY <2>4 DEF Keep, Leave
    <3>2. Idle.now <= clock /\ Idle.pc # "held"
      BY <1>1 DEF Idle
    <3>. QED BY <3>1, <3>2
  <2>. QED BY <2>1, <2>2, <2>3, <2>4
<1>. QED BY <1>2, <1>3, CallerMoves

\* What a reservation writes: the time it began at, into one list, and the same
\* into the history when that time is now.
LEMMA ReserveWrites ==
  ASSUME WindowInv, [WindowNext]_windowvars, NEW c \in Callers, Reserve(c)
  PROVE  LET k == sel[c].best
             m == sel[c].model
             now == sel[c].now
         IN  /\ k \in Keys /\ m \in Lanes /\ now \in Nat /\ now <= clock
             /\ Stamps(mem[k], mem'[k], m, now)
             /\ Cardinality(CleanTimes(Lane(mem[k], m), now)) < IF m = NoModel THEN KeyRPM ELSE ModelRPM
             /\ \A j \in Keys \ {k} : mem'[j] = mem[j]
             /\ \A j \in Keys, o \in Lanes :
                  prompt'[j][o] = IF j = k /\ o = m /\ now = clock
                                  THEN AddTime(prompt[j][o], clock) ELSE prompt[j][o]
<1> DEFINE k == sel[c].best
           m == sel[c].model
           now == sel[c].now
           r == Charge(mem[k], sel[c], Today)
<1>1. /\ k \in Keys /\ mem \in [Keys -> KeyRec] /\ mem[k] \in KeyRec /\ Today \in Nat
      /\ sel \in [Callers -> SelRec]
  BY TodayType DEF WindowInv, PoolInv, TypeOK, HolderOK, Reserve
<1>2. now \in Nat /\ now <= clock /\ m \in Lanes /\ m \in Models \cup {NoModel}
  BY <1>1 DEF WindowInv, WindowBooks, SelRec, Lanes
<1>3. /\ sel[c].pc = "reserve" /\ Reservable(mem[k], sel[c], Today)
      /\ mem' = [mem EXCEPT ![k] = r]
      /\ sel' = [sel EXCEPT ![c].pc = "held"]
  BY DEF Reserve
<1>4. /\ Stamps(mem[k], r, m, now)
      /\ Cardinality(CleanTimes(Lane(mem[k], m), now)) < IF m = NoModel THEN mem[k].rpm ELSE ModelRPM
  BY <1>1, <1>2, <1>3, ChargeStamps
<1>5. mem[k].rpm = KeyRPM
  BY <1>1 DEF WindowInv, WindowBooks
<1>6. mem'[k] = r /\ \A j \in Keys \ {k} : mem'[j] = mem[j]
  BY <1>1, <1>3
<1>7. \A d \in Callers : sel'[d].pc = IF d = c THEN "held" ELSE sel[d].pc
  <2>1. \A d \in Callers : sel[d] \in SelRec
    BY <1>1
  <2>. QED BY <1>1, <1>3, <2>1 DEF SelRec
<1>8. ASSUME NEW j \in Keys, NEW o \in Lanes
      PROVE  (\E d \in Callers : ChargesNow(d, j, o)) <=> (j = k /\ o = m /\ now = clock)
  BY <1>3, <1>7 DEF ChargesNow
<1>9. WindowNext
  <2>1. sel'[c].pc = "held" /\ sel[c].pc = "reserve"
    BY <1>3, <1>7
  <2>. QED BY <2>1 DEF windowvars, vars
<1>10. ASSUME NEW j \in Keys, NEW o \in Lanes
       PROVE  prompt'[j][o] = IF j = k /\ o = m /\ now = clock
                              THEN AddTime(prompt[j][o], clock) ELSE prompt[j][o]
  <2>1. prompt'[j][o] = IF \E d \in Callers : ChargesNow(d, j, o)
                        THEN AddTime(prompt[j][o], clock) ELSE prompt[j][o]
    BY <1>9 DEF WindowNext
  <2> HIDE DEF k, m, now
  <2>. QED BY <1>8, <2>1
<1> HIDE DEF k, m, now, r
<1>11. Cardinality(CleanTimes(Lane(mem[k], m), now)) < IF m = NoModel THEN KeyRPM ELSE ModelRPM
  BY <1>4, <1>5
<1>12. Stamps(mem[k], mem'[k], m, now)
  BY <1>4, <1>6
<1>13. /\ k \in Keys /\ m \in Lanes /\ now \in Nat /\ now <= clock
       /\ Stamps(mem[k], mem'[k], m, now)
       /\ Cardinality(CleanTimes(Lane(mem[k], m), now)) < IF m = NoModel THEN KeyRPM ELSE ModelRPM
       /\ \A j \in Keys \ {k} : mem'[j] = mem[j]
       /\ \A j \in Keys, o \in Lanes :
            prompt'[j][o] = IF j = k /\ o = m /\ now = clock
                            THEN AddTime(prompt[j][o], clock) ELSE prompt[j][o]
  BY <1>1, <1>2, <1>6, <1>10, <1>11, <1>12
<1>. QED BY <1>13 DEF k, m, now

LEMMA ReserveWindows ==
  ASSUME WindowInv, PoolInv', [WindowNext]_windowvars, NEW c \in Callers, Reserve(c)
  PROVE  WindowBooks' /\ WindowKept'
<1> DEFINE k == sel[c].best
           m == sel[c].model
           now == sel[c].now
           T == Lane(mem[k], m)
           P == prompt[k][m]
           limit == IF m = NoModel THEN KeyRPM ELSE ModelRPM
<1>1. /\ k \in Keys /\ m \in Lanes /\ now \in Nat /\ now <= clock
      /\ Stamps(mem[k], mem'[k], m, now)
      /\ Cardinality(CleanTimes(T, now)) < limit
      /\ \A j \in Keys \ {k} : mem'[j] = mem[j]
      /\ \A j \in Keys, o \in Lanes :
           prompt'[j][o] = IF j = k /\ o = m /\ now = clock
                           THEN AddTime(prompt[j][o], clock) ELSE prompt[j][o]
  BY ReserveWrites
<1>2. clock \in Nat /\ clock' = clock
  BY TodayType DEF WindowInv, PoolInv, Reserve
<1>3. T \in Multiset /\ P \in Multiset /\ LaneOK(T, P, clock)
  BY <1>1, LaneType DEF WindowInv, WindowBooks, PoolInv, TypeOK, Lanes
<1>4. limit \in Nat
  BY PoolAssumption, ModelAssumption
<1>5. Lane(mem'[k], m) = AddTime(CleanTimes(T, now), now) /\ mem'[k].rpm = mem[k].rpm
  BY <1>1 DEF Stamps
<1>6. ASSUME NEW j \in Keys, NEW o \in Lanes, j # k \/ o # m
      PROVE  Lane(mem'[j], o) = Lane(mem[j], o) /\ prompt'[j][o] = prompt[j][o]
  <2>1. prompt'[j][o] = prompt[j][o]
    BY <1>1, <1>6
  <2>2. Lane(mem'[j], o) = Lane(mem[j], o)
    BY <1>1, <1>6 DEF Stamps, Lanes
  <2>. QED BY <2>1, <2>2
<1>7. prompt'[k][m] = IF now = clock THEN AddTime(P, clock) ELSE P
  BY <1>1
<1> HIDE DEF T, P, limit, k, m, now
<1>8. LaneOK(Lane(mem'[k], m), prompt'[k][m], clock)
  <2>1. CASE now = clock
    BY <1>2, <1>3, <1>5, <1>7, <2>1, PromptLane
  <2>2. CASE now < clock
    <3>1. LaneOK(AddTime(CleanTimes(T, now), now), P, clock)
      BY <1>1, <1>2, <1>3, <2>2, LateLane
    <3>. QED BY <1>1, <1>2, <1>5, <1>7, <2>2, <3>1
  <2>. QED BY <1>1, <1>2, <2>1, <2>2
<1>9. prompt' \in [Keys -> [Lanes -> Multiset]]
  <2>1. prompt \in [Keys -> [Lanes -> Multiset]]
    BY DEF WindowInv, WindowBooks
  <2>2. prompt' = [j \in Keys |-> [o \in Lanes |-> prompt'[j][o]]]
    <3>1. CASE WindowNext
      BY <3>1 DEF WindowNext
    <3>2. CASE UNCHANGED windowvars
      BY <2>1, <3>2 DEF windowvars
    <3>. QED BY <3>1, <3>2
  <2>3. ASSUME NEW j \in Keys, NEW o \in Lanes PROVE prompt'[j][o] \in Multiset
    BY <1>1, <1>2, <2>1, AddTimeType
  <2>. QED BY <2>2, <2>3
<1>10. \A j \in Keys : mem'[j].rpm = KeyRPM
  BY <1>1, <1>5 DEF WindowInv, WindowBooks
<1>11. \A d \in Callers : sel'[d].now <= clock
  <2>1. sel \in [Callers -> SelRec] /\ sel' = [sel EXCEPT ![c].pc = "held"]
    BY DEF WindowInv, PoolInv, TypeOK, Reserve
  <2>2. \A d \in Callers : sel'[d].now = sel[d].now
    <3>1. \A d \in Callers : sel[d] \in SelRec
      BY <2>1
    <3>. QED BY <2>1, <3>1 DEF SelRec
  <2>. QED BY <2>2 DEF WindowInv, WindowBooks
<1>12. \A j \in Keys, o \in Lanes : LaneOK(Lane(mem'[j], o), prompt'[j][o], clock)
  <2> SUFFICES ASSUME NEW j \in Keys, NEW o \in Lanes
               PROVE  LaneOK(Lane(mem'[j], o), prompt'[j][o], clock)
    OBVIOUS
  <2>1. CASE j = k /\ o = m
    BY <1>8, <2>1
  <2>2. CASE j # k \/ o # m
    <3>1. LaneOK(Lane(mem[j], o), prompt[j][o], clock)
      BY DEF WindowInv, WindowBooks
    <3>. QED BY <1>6, <2>2, <3>1
  <2>. QED BY <2>1, <2>2
<1>13. WindowBooks'
  BY <1>2, <1>9, <1>10, <1>11, <1>12 DEF WindowBooks
<1>14. WindowKept'
  <2> DEFINE In(Q, t) == {x \in Q : t - Window < x[1] /\ x[1] <= t}
             bound(o) == IF o = NoModel THEN KeyRPM ELSE ModelRPM
  <2>1. ASSUME NEW j \in Keys, NEW o \in Lanes, NEW t \in 0 .. MaxTime
        PROVE  Cardinality(In(prompt'[j][o], t)) <= bound(o)
    <3>1. Cardinality(In(prompt[j][o], t)) <= bound(o)
      BY DEF WindowInv, WindowKept, InWindow
    <3>2. CASE prompt'[j][o] = prompt[j][o]
      BY <3>1, <3>2
    <3>3. CASE j = k /\ o = m /\ now = clock /\ t < clock
      <4>1. prompt[j][o] = P /\ prompt'[j][o] = AddTime(P, clock)
        BY <1>7, <3>3 DEF P
      <4>2. In(AddTime(P, clock), t) = In(P, t)
        <5> DEFINE new == <<clock, 1 + Cardinality({x \in P : x[1] = clock})>>
        <5>1. AddTime(P, clock) = P \cup {new} /\ new[1] = clock
          BY DEF AddTime
        <5> HIDE DEF new
        <5>2. ~(new[1] <= t)
          BY <1>2, <3>3, <5>1, NumberConstants
        <5>. QED BY <5>1, <5>2
      <4> HIDE DEF In
      <4>. QED BY <3>1, <4>1, <4>2
    <3>4. CASE j = k /\ o = m /\ now = clock /\ t >= clock
      <4>1. prompt'[j][o] = AddTime(P, clock) /\ bound(o) = limit
        BY <1>7, <3>4 DEF limit
      <4>2. Cardinality(CleanTimes(T, clock)) < limit /\ t \in Nat
        BY <1>1, <3>4, NumberConstants DEF T
      <4>3. Cardinality(In(AddTime(P, clock), t)) <= limit
        BY <1>2, <1>3, <1>4, <3>4, <4>2, PromptCount
      <4> HIDE DEF In
      <4>. QED BY <4>1, <4>3
    <3>5. prompt'[j][o] = prompt[j][o] \/ (j = k /\ o = m /\ now = clock)
      BY <1>6, <1>7 DEF P
    <3>. QED BY <1>2, <3>2, <3>3, <3>4, <3>5, NumberConstants
  <2>. QED BY <2>1 DEF WindowKept, InWindow
<1>. QED BY <1>13, <1>14

\* No step of any caller, of the reset worker or of the clock breaks them.
LEMMA WindowStep == WindowInv /\ [WindowNext]_windowvars => WindowInv'
<1> SUFFICES ASSUME WindowInv, [WindowNext]_windowvars PROVE WindowInv'
  OBVIOUS
<1>1. [Next]_vars
  BY DEF WindowNext, windowvars
<1>2. PoolInv'
  BY <1>1, StepInv DEF WindowInv
<1>3. ASSUME NEW c \in Callers, Select(c) PROVE WindowBooks' /\ WindowKept'
  BY <1>2, <1>3, MoveWindows, ScanWindows, ReserveWindows, LoseWindows DEF Select
<1>4. ASSUME NEW c \in Callers, Keep(c) \/ Refund(c) \/ Leave(c) \/ Punish(c)
      PROVE  WindowBooks' /\ WindowKept'
  BY <1>2, <1>4, MoveWindows, RefundWindows, PunishWindows
<1>5. ASSUME NEW k \in Keys, ResetExpired(k) PROVE WindowBooks' /\ WindowKept'
  BY <1>2, <1>5, ResetWindows
<1>6. ASSUME Tick PROVE WindowBooks' /\ WindowKept'
  <2>1. prompt' = prompt
    BY <1>6, NoCharge DEF WindowInv, Tick
  <2>. QED BY <1>6, <2>1, TickStep
<1>7. ASSUME UNCHANGED vars PROVE WindowBooks' /\ WindowKept'
  <2>1. prompt' = prompt
    BY <1>7, NoCharge DEF WindowInv, vars
  <2>2. \A k \in Keys : mem'[k] = mem[k] /\ mem'[k] \in KeyRec
    BY <1>7 DEF WindowInv, PoolInv, TypeOK, vars
  <2>. QED BY <1>7, <2>1, <2>2, TrimStep DEF WindowInv, WindowBooks, vars
<1>8. WindowBooks' /\ WindowKept'
  BY <1>1, <1>3, <1>4, <1>5, <1>6, <1>7 DEF Next
<1>. QED BY <1>2, <1>8 DEF WindowInv

\* The empty lists, and nobody charged yet.
LEMMA WindowStart == WindowInit => WindowInv
<1> SUFFICES ASSUME WindowInit PROVE WindowInv
  OBVIOUS
<1>1. PoolInv /\ clock = 0
  BY InitInv DEF WindowInit, Init
<1>2. \A k \in Keys, m \in Lanes : prompt[k][m] = {} /\ Lane(mem[k], m) = {}
  BY DEF WindowInit, Init, NewKey, Lane, Lanes
<1>3. {} \in Multiset
  BY FS_EmptySet DEF Multiset
<1>4. prompt \in [Keys -> [Lanes -> Multiset]]
  BY <1>3 DEF WindowInit
<1>5. \A k \in Keys, m \in Lanes : LaneOK(Lane(mem[k], m), prompt[k][m], clock)
  BY <1>2 DEF LaneOK, CleanTimes
<1>6. /\ \A k \in Keys : mem[k].rpm = KeyRPM
      /\ \A c \in Callers : sel[c].now <= clock
  BY <1>1 DEF WindowInit, Init, NewKey, Idle
<1>7. WindowKept
  <2> SUFFICES ASSUME NEW k \in Keys, NEW m \in Lanes, NEW t \in 0 .. MaxTime
               PROVE  Cardinality(InWindow(k, m, t)) <= IF m = NoModel THEN KeyRPM ELSE ModelRPM
    BY DEF WindowKept
  <2>1. InWindow(k, m, t) = {}
    BY <1>2 DEF InWindow
  <2>2. Cardinality(InWindow(k, m, t)) = 0
    BY <2>1, FS_EmptySet
  <2>3. KeyRPM \in Nat /\ ModelRPM \in Nat
    BY PoolAssumption, ModelAssumption
  <2> DEFINE size == Cardinality(InWindow(k, m, t))
  <2>4. size = 0
    BY <2>2
  <2> HIDE DEF size
  <2>5. size <= IF m = NoModel THEN KeyRPM ELSE ModelRPM
    BY <2>3, <2>4
  <2>. QED BY <2>5 DEF size
<1>. QED BY <1>1, <1>4, <1>5, <1>6, <1>7 DEF WindowInv, WindowBooks

\* The minute limits of a key and of its models, as the upstream counts them:
\* no window of the wall clock holds more prompt requests than the limit,
\* whatever callers trim the lists, race for the key or return to it late.
THEOREM WindowTheorem == WindowSpec => []WindowKept
<1>1. WindowInv => WindowKept
  BY DEF WindowInv
<1>. QED BY <1>1, WindowStart, WindowStep, PTL DEF WindowSpec
=============================================================================
