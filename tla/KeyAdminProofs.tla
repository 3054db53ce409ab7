--------------------------- MODULE KeyAdminProofs ---------------------------
(* One key's life, however many administrators, requests and objects there *)
(* are: pool and table hold the key together, and a key that was disabled  *)
(* while nobody held it stays so.                                          *)
EXTENDS KeyAdmin, KeyStateProofs, SequenceTheorems

(***************************************************************************)
(* The inductive invariant.                                                *)
(***************************************************************************)

\* What a worker may have before it.
Lists == {<<>>, <<"write">>, Sync, <<"answer">>, <<"write", "answer">>, Sync \o <<"answer">>,
          <<"refund">> \o Sync, <<"limit">> \o Sync, <<"invalid">> \o Sync}

\* A worker with something to do holds an object, and has a snapshot to write.
WorkOK ==
  \A w \in Workers :
    /\ work[w].todo \in Lists
    /\ work[w].todo = <<>> <=> work[w].obj = 0
    /\ work[w].obj <= Len(objs)
    /\ Doing(w, "write") => work[w].snap \in RowRec

\* Load holds the pool's lock.
OneLoads ==
  \A a, b \in Admins : adm[a].pc = "loading" /\ adm[b].pc = "loading" => a = b

\* A Load that read the table before the key came or went is followed by
\* another one.
AnotherLoad ==
  \A a \in Admins : adm[a].pc = "loading" =>
    \/ adm[a].read # NoRow <=> row # NoRow
    \/ \E b \in Admins : adm[b].pc = "stored"

\* A key that is barred is disabled wherever it is kept, and whoever may still
\* write it writes that.
Barred ==
  /\ row # NoRow /\ row.status = "disabled"
  /\ current # 0 /\ objs[current].status = "disabled"
  /\ \A a \in Admins : adm[a].pc = "loading" =>
       adm[a].read # NoRow /\ adm[a].read.status = "disabled"
  /\ \A w \in Workers : work[w].obj # 0 =>
       /\ work[w].obj = current
       /\ work[w].todo \in {Sync, <<"write">>}
       /\ work[w].todo = <<"write">> => work[w].snap.status = "disabled"

AdminInv ==
  /\ TypeOK
  /\ WorkOK
  /\ OneLoads
  /\ AnotherLoad
  /\ PoolMatchesTable
  /\ barred => Barred

(***************************************************************************)
(* Facts about the state.                                                  *)
(***************************************************************************)
LEMMA Types ==
  ASSUME AdminInv
  PROVE  /\ clock \in Nat /\ Today \in Nat /\ row \in RowRec \cup {NoRow}
         /\ objs \in Seq(KeyRec) /\ Len(objs) \in Nat
         /\ \A i \in 1 .. Len(objs) : objs[i] \in KeyRec
         /\ current \in 0 .. Len(objs)
         /\ adm \in [Admins -> AdmRec] /\ work \in [Workers -> WorkRec]
         /\ served \in Nat /\ barred \in BOOLEAN
<1>1. clock \in Nat
  BY AdminAssumption DEF AdminInv, TypeOK
<1>2. Today \in Nat
  BY <1>1, DayType DEF Today
<1>3. QED
  BY <1>1, <1>2 DEF AdminInv, TypeOK

\* The lists that are put together, spelled out.
LEMMA ListsJoined ==
  ASSUME NEW x \in {"refund", "limit", "invalid", "answer"}
  PROVE  <<x>> \o Sync = <<x, "snap", "write">> /\ Sync \o <<x>> = <<"snap", "write", x>>
<1> DEFINE S == {"refund", "limit", "invalid", "answer", "snap", "write"}
           o == <<x>>
           t == o \o Sync
           u == Sync \o o
<1>1. /\ o \in Seq(S) /\ Len(o) = 1 /\ o[1] = x
      /\ Sync \in Seq(S) /\ Len(Sync) = 2 /\ Sync[1] = "snap" /\ Sync[2] = "write"
  BY DEF Sync
<1> HIDE DEF S, o
<1>2. t \in Seq(S) /\ Len(t) = 3 /\ \A i \in 1 .. 3 : t[i] = IF i <= 1 THEN o[i] ELSE Sync[i - 1]
  <2>1. /\ t \in Seq(S) /\ Len(t) = Len(o) + Len(Sync)
        /\ \A i \in 1 .. Len(o) + Len(Sync) : t[i] = IF i <= Len(o) THEN o[i] ELSE Sync[i - Len(o)]
    BY <1>1, ConcatProperties
  <2> HIDE DEF t
  <2>2. QED
    BY <1>1, <2>1
<1>3. u \in Seq(S) /\ Len(u) = 3 /\ \A i \in 1 .. 3 : u[i] = IF i <= 2 THEN Sync[i] ELSE o[i - 2]
  <2>1. /\ u \in Seq(S) /\ Len(u) = Len(Sync) + Len(o)
        /\ \A i \in 1 .. Len(Sync) + Len(o) : u[i] = IF i <= Len(Sync) THEN Sync[i] ELSE o[i - Len(Sync)]
    BY <1>1, ConcatProperties
  <2> HIDE DEF u
  <2>2. QED
    BY <1>1, <2>1
<1> HIDE DEF t, u
<1>4. t = <<x, "snap", "write">> /\ u = <<"snap", "write", x>>
  BY <1>1, <1>2, <1>3
<1>5. QED
  BY <1>4 DEF t, u, o

\* What is left of a worker's list after its first step.
LEMMA ListFacts ==
  ASSUME NEW s \in Lists
  PROVE  /\ s \in Seq({"refund", "limit", "invalid", "snap", "write", "answer"})
         /\ s # <<>> => /\ Tail(s) \in Lists
                        /\ Len(s) = 1 <=> Tail(s) = <<>>
                        /\ Head(s) = "answer" => Tail(s) = <<>>
                        /\ Head(s) = "snap" <=> Tail(s) # <<>> /\ Head(Tail(s)) = "write"
         /\ s = Sync => Tail(s) = <<"write">>
         /\ s = <<"write">> => Tail(s) = <<>>
<1>1. \A x \in {"refund", "limit", "invalid", "answer"} :
        <<x>> \o Sync = <<x, "snap", "write">> /\ Sync \o <<x>> = <<"snap", "write", x>>
  BY ListsJoined
<1>2. s \in {<<>>, <<"write">>, <<"snap", "write">>, <<"answer">>, <<"write", "answer">>,
             <<"snap", "write", "answer">>, <<"refund", "snap", "write">>,
             <<"limit", "snap", "write">>, <<"invalid", "snap", "write">>}
  BY <1>1 DEF Lists, Sync
<1>3. Lists = {<<>>, <<"write">>, <<"snap", "write">>, <<"answer">>, <<"write", "answer">>,
               <<"snap", "write", "answer">>, <<"refund", "snap", "write">>,
               <<"limit", "snap", "write">>, <<"invalid", "snap", "write">>}
  BY <1>1 DEF Lists, Sync
<1>4. CASE s = <<>>
  BY <1>4 DEF Sync
<1>5. CASE s = <<"write">>
  BY <1>3, <1>5 DEF Sync
<1>6. CASE s = <<"snap", "write">>
  BY <1>3, <1>6 DEF Sync
<1>7. CASE s = <<"answer">>
  BY <1>3, <1>7 DEF Sync
<1>8. CASE s = <<"write", "answer">>
  BY <1>3, <1>8 DEF Sync
<1>9. CASE s = <<"snap", "write", "answer">>
  BY <1>3, <1>9 DEF Sync
<1>10. ASSUME NEW x \in {"refund", "limit", "invalid"}, s = <<x, "snap", "write">>
       PROVE  /\ s \in Seq({"refund", "limit", "invalid", "snap", "write", "answer"})
              /\ s # <<>> => /\ Tail(s) \in Lists
                             /\ Len(s) = 1 <=> Tail(s) = <<>>
                             /\ Head(s) = "answer" => Tail(s) = <<>>
                             /\ Head(s) = "snap" <=> Tail(s) # <<>> /\ Head(Tail(s)) = "write"
              /\ s = Sync => Tail(s) = <<"write">>
              /\ s = <<"write">> => Tail(s) = <<>>
  <2>1. Tail(s) = <<"snap", "write">> /\ Head(s) = x /\ Len(s) = 3
    BY <1>10
  <2>2. QED
    BY <1>3, <1>10, <2>1 DEF Sync
<1>11. QED
  BY <1>2, <1>4, <1>5, <1>6, <1>7, <1>8, <1>9, <1>10

\* A worker that has done a step has the rest of its list, or is free.
LEMMA DoneFacts ==
  ASSUME AdminInv, NEW w \in Workers, NEW step, Doing(w, step)
  PROVE  LET r == Done(w)[w]
         IN  /\ Done(w) \in [Workers -> WorkRec]
             /\ \A v \in Workers \ {w} : Done(w)[v] = work[v]
             /\ r.todo = Tail(work[w].todo) /\ r.todo \in Lists
             /\ r.todo = <<>> <=> r.obj = 0
             /\ r.obj # 0 => r.obj = work[w].obj
             /\ work[w].obj \in 1 .. Len(objs)
<1> DEFINE s == work[w].todo
           r == IF Len(s) = 1 THEN NoWork ELSE [work[w] EXCEPT !.todo = Tail(@)]
<1>1. work \in [Workers -> WorkRec] /\ work[w] \in WorkRec
  BY Types
<1>2. s \in Lists /\ s # <<>> /\ work[w].obj # 0 /\ work[w].obj <= Len(objs)
  BY DEF AdminInv, WorkOK, Doing
<1>3. /\ Tail(s) \in Lists
      /\ Len(s) = 1 <=> Tail(s) = <<>>
      /\ Tail(s) \in Seq({"refund", "limit", "invalid", "snap", "write", "answer"})
  BY <1>2, ListFacts
<1>4. NoWork \in WorkRec /\ NoWork.todo = <<>> /\ NoWork.obj = 0
  BY AdminAssumption DEF NoWork, WorkRec, Objects
<1>5. r \in WorkRec /\ r.todo = Tail(s) /\ (r.obj # 0 => r.obj = work[w].obj)
  BY <1>1, <1>3, <1>4 DEF WorkRec
<1>6. r.todo = <<>> <=> r.obj = 0
  BY <1>1, <1>2, <1>3, <1>4 DEF WorkRec
<1>7. Done(w) = [work EXCEPT ![w] = r]
  BY <1>1 DEF Done
<1>8. work[w].obj \in 1 .. Len(objs)
  BY <1>1, <1>2, Types DEF WorkRec, Objects
<1> HIDE DEF r, s
<1>9. QED
  BY <1>1, <1>3, <1>5, <1>6, <1>7, <1>8 DEF s

\* A step of a worker.
LEMMA WorkerStep ==
  ASSUME AdminInv, NEW w \in Workers, UNCHANGED <<clock, current, adm, barred>>,
         work' \in [Workers -> WorkRec], \A v \in Workers \ {w} : work'[v] = work[v],
         objs' \in Seq(KeyRec), Len(objs') = Len(objs),
         row' \in RowRec \cup {NoRow}, row' = NoRow <=> row = NoRow, served' \in Nat,
         work'[w].todo \in Lists, work'[w].todo = <<>> <=> work'[w].obj = 0,
         work'[w].obj <= Len(objs), Doing(w, "write")' => work'[w].snap \in RowRec,
         barred => Barred'
  PROVE  AdminInv'
<1>1. TypeOK'
  BY DEF AdminInv, TypeOK
<1>2. WorkOK'
  BY DEF AdminInv, WorkOK, Doing
<1>3. OneLoads' /\ AnotherLoad' /\ PoolMatchesTable'
  BY DEF AdminInv, OneLoads, AnotherLoad, PoolMatchesTable
<1>4. QED
  BY <1>1, <1>2, <1>3 DEF AdminInv

(***************************************************************************)
(* The administrators.                                                     *)
(***************************************************************************)
LEMMA StoreOpInv ==
  ASSUME AdminInv, NEW a \in Admins, NEW op \in Operations, StoreOp(a, op)
  PROVE  AdminInv'
<1>1. /\ row \in RowRec \cup {NoRow} /\ Today \in Nat /\ DailyLimit \in Nat /\ KeyRPM \in Nat
      /\ op \in {"add", "remove", "disable", "enable", "reset_cooldown"}
  BY Types, AdminAssumption
<1>2. /\ row' = Stored(op)
      /\ adm' = [adm EXCEPT ![a] = [NoOp EXCEPT !.pc = "stored", !.op = op]]
      /\ barred' = (barred /\ op \notin {"enable", "remove"})
      /\ UNCHANGED <<clock, objs, current, work, served>>
  BY DEF StoreOp
<1>3. row' \in RowRec \cup {NoRow}
  <2>1. CASE row = NoRow
    BY <1>1, <1>2, <2>1, NewRowFacts DEF Stored, UpdateStatus, ResetCooldown
  <2>2. CASE row \in RowRec
    BY <1>1, <1>2, <2>2, RowFacts DEF Stored, Status
  <2>3. QED
    BY <1>1, <2>1, <2>2
<1>4. adm' \in [Admins -> AdmRec] /\ adm'[a].pc = "stored" /\ \A b \in Admins \ {a} : adm'[b] = adm[b]
  <2>1. [NoOp EXCEPT !.pc = "stored", !.op = op] \in AdmRec
    BY DEF NoOp, AdmRec
  <2>2. QED
    BY <1>2, <2>1, Types
<1>5. TypeOK'
  BY <1>2, <1>3, <1>4 DEF AdminInv, TypeOK
<1>6. WorkOK'
  BY <1>2 DEF AdminInv, WorkOK, Doing
<1>7. OneLoads' /\ AnotherLoad' /\ PoolMatchesTable'
  BY <1>4 DEF AdminInv, OneLoads, AnotherLoad, PoolMatchesTable
<1>8. ASSUME barred' PROVE Barred'
  <2>1. barred /\ Barred /\ op \in {"add", "disable", "reset_cooldown"}
    BY <1>1, <1>2, <1>8 DEF AdminInv
  <2>2. row \in RowRec /\ row.status = "disabled"
    BY <1>1, <2>1 DEF Barred
  <2>3. row' \in RowRec /\ row'.status = "disabled"
    BY <1>1, <1>2, <2>1, <2>2, RowFacts DEF Stored, Status
  <2>4. row' # NoRow
    BY <2>3, NoRowIsNone
  <2>5. QED
    BY <1>2, <1>4, <2>1, <2>3, <2>4 DEF Barred
<1>9. QED
  BY <1>5, <1>6, <1>7, <1>8 DEF AdminInv

LEMMA LoadReadInv ==
  ASSUME AdminInv, NEW a \in Admins, LoadRead(a)
  PROVE  AdminInv'
<1>1. /\ adm' = [adm EXCEPT ![a].pc = "loading", ![a].read = row]
      /\ ~Locked /\ UNCHANGED <<clock, row, objs, current, work, served, barred>>
  BY DEF LoadRead
<1>2. /\ adm' \in [Admins -> AdmRec] /\ adm'[a].pc = "loading" /\ adm'[a].read = row
      /\ \A b \in Admins \ {a} : adm'[b] = adm[b]
  BY <1>1, Types DEF AdmRec
<1>3. \A b \in Admins : adm'[b].pc = "loading" => b = a
  BY <1>1, <1>2 DEF Locked
<1>4. TypeOK' /\ WorkOK'
  BY <1>1, <1>2 DEF AdminInv, TypeOK, WorkOK, Doing
<1>5. OneLoads' /\ AnotherLoad' /\ PoolMatchesTable'
  BY <1>1, <1>2, <1>3 DEF OneLoads, AnotherLoad, PoolMatchesTable
<1>6. barred' => Barred'
  BY <1>1, <1>2, <1>3 DEF AdminInv, Barred
<1>7. QED
  BY <1>4, <1>5, <1>6 DEF AdminInv

LEMMA LoadApplyInv ==
  ASSUME AdminInv, NEW a \in Admins, LoadApply(a)
  PROVE  AdminInv'
<1> DEFINE read == adm[a].read
<1>1. /\ adm[a].pc = "loading" /\ adm' = [adm EXCEPT ![a] = NoOp]
      /\ served' = IF current = 0 THEN 0 ELSE served
      /\ barred' = (barred \/ (/\ read = row /\ row # NoRow /\ row.status = "disabled"
                               /\ \A w \in Workers : work[w].obj = 0))
      /\ UNCHANGED <<clock, row, work>>
  BY DEF LoadApply
<1>2. /\ adm \in [Admins -> AdmRec] /\ read \in RowRec \cup {NoRow} /\ NoOp \in AdmRec
      /\ NoOp.pc = "idle"
  BY Types DEF AdmRec, NoOp
<1>3. /\ adm' \in [Admins -> AdmRec] /\ adm'[a].pc = "idle" /\ \A b \in Admins \ {a} : adm'[b] = adm[b]
  BY <1>1, <1>2
<1>4. \A b \in Admins : adm'[b].pc # "loading"
  BY <1>1, <1>3 DEF AdminInv, OneLoads
<1> DEFINE LoadedOK == /\ objs' \in Seq(KeyRec) /\ Len(objs') <= MaxObjects
                       /\ current' \in 0 .. Len(objs') /\ Len(objs) <= Len(objs')
                       /\ current' # 0 <=> read # NoRow
                       /\ current' # 0 => objs'[current'].status = read.status
                       /\ current # 0 /\ current' # 0 => current' = current
<1>5. /\ objs \in Seq(KeyRec) /\ Len(objs) \in Nat /\ current \in 0 .. Len(objs)
      /\ Len(objs) <= MaxObjects /\ MaxObjects \in Nat
      /\ \A i \in 1 .. Len(objs) : objs[i] \in KeyRec
  BY Types, AdminAssumption DEF AdminInv, TypeOK
<1>6. LoadedOK
  <2>1. CASE read = NoRow /\ current' = 0 /\ UNCHANGED objs
    BY <1>5, <2>1
  <2>2. CASE read # NoRow /\ current # 0 /\ objs' = [objs EXCEPT ![current] = LoadInto(@, read)]
             /\ UNCHANGED current
    <3>1. /\ LoadInto(objs[current], read) \in KeyRec
          /\ LoadInto(objs[current], read).status = read.status
      BY <1>2, <1>5, <2>2, LoadFacts
    <3>2. /\ objs' \in Seq(KeyRec) /\ Len(objs') = Len(objs)
          /\ objs'[current] = LoadInto(objs[current], read)
      BY <1>5, <2>2, <3>1
    <3>3. QED
      BY <1>5, <2>2, <3>1, <3>2
  <2>3. CASE read # NoRow /\ current = 0 /\ Len(objs) < MaxObjects
             /\ objs' = Append(objs, NewKeyState(read)) /\ current' = Len(objs) + 1
    <3>1. NewKeyState(read) \in KeyRec /\ NewKeyState(read).status = read.status
      BY <1>2, <2>3, LoadFacts
    <3>2. /\ objs' \in Seq(KeyRec) /\ Len(objs') = Len(objs) + 1
          /\ objs'[Len(objs) + 1] = NewKeyState(read)
      BY <1>5, <2>3, <3>1
    <3>3. QED
      BY <1>5, <2>3, <3>1, <3>2
  <2>4. QED
    BY <2>1, <2>2, <2>3 DEF LoadApply
<1> HIDE DEF LoadedOK
<1>7. TypeOK'
  BY <1>1, <1>3, <1>6, Types DEF AdminInv, TypeOK, LoadedOK
<1>8. WorkOK'
  <2>1. \A w \in Workers : work[w].obj \in Nat
    BY Types DEF WorkRec, Objects
  <2>2. QED
    BY <1>1, <1>5, <1>6, <2>1 DEF AdminInv, WorkOK, Doing, LoadedOK
<1>9. OneLoads' /\ AnotherLoad'
  BY <1>4 DEF OneLoads, AnotherLoad
<1>10. PoolMatchesTable'
  <2>1. ASSUME \A b \in Admins : adm'[b].pc = "idle" PROVE read # NoRow <=> row # NoRow
    BY <1>1, <1>3, <2>1 DEF AdminInv, AnotherLoad
  <2>2. QED
    BY <1>1, <1>6, <2>1 DEF PoolMatchesTable, LoadedOK
<1>11. ASSUME barred' PROVE Barred'
  <2>1. row # NoRow /\ row.status = "disabled" /\ read # NoRow /\ read.status = "disabled"
    BY <1>1, <1>11 DEF AdminInv, Barred
  <2>2. current' # 0 /\ objs'[current'].status = "disabled"
    BY <1>6, <2>1 DEF LoadedOK
  <2>3. CASE barred
    <3>1. current # 0 /\ current' = current
      BY <1>6, <2>2, <2>3 DEF AdminInv, Barred, LoadedOK
    <3>2. QED
      BY <1>1, <1>4, <2>1, <2>2, <2>3, <3>1 DEF AdminInv, Barred
  <2>4. CASE \A w \in Workers : work[w].obj = 0
    BY <1>1, <1>4, <2>1, <2>2, <2>4 DEF Barred
  <2>5. QED
    BY <1>1, <1>11, <2>3, <2>4
<1>12. QED
  BY <1>7, <1>8, <1>9, <1>10, <1>11 DEF AdminInv

(***************************************************************************)
(* Requests, and the reset worker.                                         *)
(***************************************************************************)
\* A worker that holds nothing may take up the current object, in whatever
\* state it leaves it.
LEMMA TakeUp ==
  ASSUME AdminInv, NEW w \in Workers, work[w].obj = 0, current # 0,
         UNCHANGED <<clock, row, current, adm, barred>>, served' \in Nat,
         NEW k \in KeyRec, objs' = [objs EXCEPT ![current] = k],
         NEW todo \in {Sync, Sync \o <<"answer">>},
         work' = [work EXCEPT ![w] = [NoWork EXCEPT !.obj = current, !.todo = todo]],
         barred => k.status = "disabled" /\ todo = Sync
  PROVE  AdminInv'
<1> DEFINE r == [NoWork EXCEPT !.obj = current, !.todo = todo]
<1>1. /\ objs \in Seq(KeyRec) /\ Len(objs) \in Nat /\ current \in 1 .. Len(objs)
      /\ Len(objs) <= MaxObjects /\ MaxObjects \in Nat
      /\ work \in [Workers -> WorkRec]
  BY Types, AdminAssumption DEF AdminInv, TypeOK
<1>2. /\ objs' \in Seq(KeyRec) /\ Len(objs') = Len(objs) /\ objs'[current] = k
  BY <1>1
<1>3. /\ todo \in Lists
      /\ todo \in Seq({"refund", "limit", "invalid", "snap", "write", "answer"})
      /\ todo # <<>> /\ Head(todo) = "snap" /\ todo # <<"write">>
  <2>1. \A x \in {"answer"} : Sync \o <<x>> = <<"snap", "write", x>>
    BY ListsJoined
  <2>2. todo \in {<<"snap", "write">>, <<"snap", "write", "answer">>}
    BY <2>1 DEF Sync
  <2>3. todo \in Lists
    BY DEF Lists
  <2>4. QED
    BY <2>2, <2>3, ListFacts
<1>4. r \in WorkRec /\ r.obj = current /\ r.todo = todo
  <2>1. current \in Objects
    BY <1>1 DEF Objects
  <2>2. \A o \in Objects :
          \A t \in Seq({"refund", "limit", "invalid", "snap", "write", "answer"}) :
            LET q == [NoWork EXCEPT !.obj = o, !.todo = t]
            IN  q \in WorkRec /\ q.obj = o /\ q.todo = t
    BY DEF NoWork, WorkRec
  <2>3. QED
    BY <1>3, <2>1, <2>2
<1> HIDE DEF r
<1>5. work' \in [Workers -> WorkRec] /\ work'[w] = r /\ \A v \in Workers \ {w} : work'[v] = work[v]
  BY <1>1, <1>4 DEF r
<1>6. ~Doing(w, "write")'
  BY <1>3, <1>4, <1>5 DEF Doing
<1>7. barred => Barred'
  BY <1>1, <1>2, <1>3, <1>4, <1>5 DEF AdminInv, Barred
<1>8. r.todo = <<>> <=> r.obj = 0
  BY <1>1, <1>3, <1>4
<1>9. work'[w].obj <= Len(objs)
  BY <1>1, <1>4, <1>5
<1>10. QED
  BY <1>1, <1>2, <1>3, <1>4, <1>5, <1>6, <1>7, <1>8, <1>9, WorkerStep, Types

LEMMA TakeInv ==
  ASSUME AdminInv, NEW w \in Workers, Take(w)
  PROVE  AdminInv'
<1> DEFINE k == Register(AfterUsable(objs[current], clock, Today), clock, Today)
<1>1. objs[current] \in KeyRec /\ clock \in Nat /\ Today \in Nat /\ served + 1 \in Nat
  BY Types DEF Take
<1>2. k \in KeyRec
  BY <1>1, AfterUsableFacts, RegisterFacts
<1>3. ~barred
  BY <1>1, DisabledFacts DEF Take, AdminInv, Barred
<1>4. /\ objs' = [objs EXCEPT ![current] = k]
      /\ work' = [work EXCEPT ![w] = [NoWork EXCEPT !.obj = current, !.todo = Sync \o <<"answer">>]]
      /\ served' = served + 1 /\ UNCHANGED <<clock, row, current, adm, barred>>
      /\ work[w].obj = 0 /\ current # 0
  BY DEF Take
<1> HIDE DEF k
<1>5. QED
  BY <1>1, <1>2, <1>3, <1>4, TakeUp

LEMMA ResetExpiredInv ==
  ASSUME AdminInv, NEW w \in Workers, ResetExpired(w)
  PROVE  AdminInv'
<1> DEFINE k == ResetDailyUsageIfNewDay(objs[current], Today)
<1>1. objs[current] \in KeyRec /\ clock \in Nat /\ Today \in Nat /\ served \in Nat
  BY Types DEF ResetExpired
<1>2. k \in KeyRec
  BY <1>1, ResetFacts
<1>3. barred => k.status = "disabled"
  BY <1>1, DisabledFacts DEF AdminInv, Barred
<1>4. /\ objs' = [objs EXCEPT ![current] = k]
      /\ work' = [work EXCEPT ![w] = [NoWork EXCEPT !.obj = current, !.todo = Sync]]
      /\ UNCHANGED <<clock, row, current, adm, served, barred>>
      /\ work[w].obj = 0 /\ current # 0
  BY DEF ResetExpired
<1> HIDE DEF k
<1>5. QED
  BY <1>1, <1>2, <1>3, <1>4, TakeUp

LEMMA LookInv ==
  ASSUME AdminInv, Look
  PROVE  AdminInv'
<1> DEFINE k == AfterUsable(objs[current], clock, Today)
<1>1. objs[current] \in KeyRec /\ clock \in Nat /\ Today \in Nat
  BY Types DEF Look
<1>2. k \in KeyRec /\ (barred => k.status = "disabled")
  BY <1>1, AfterUsableFacts, DisabledFacts DEF AdminInv, Barred
<1>3. /\ objs' = [objs EXCEPT ![current] = k] /\ current # 0
      /\ UNCHANGED <<clock, row, current, adm, work, served, barred>>
  BY DEF Look
<1> HIDE DEF k
<1>4. /\ objs' \in Seq(KeyRec) /\ Len(objs') = Len(objs) /\ objs'[current] = k
  BY <1>2, <1>3, Types
<1>5. TypeOK' /\ WorkOK'
  BY <1>3, <1>4 DEF AdminInv, TypeOK, WorkOK, Doing
<1>6. OneLoads' /\ AnotherLoad' /\ PoolMatchesTable'
  BY <1>3 DEF AdminInv, OneLoads, AnotherLoad, PoolMatchesTable
<1>7. barred' => Barred'
  BY <1>2, <1>3, <1>4 DEF AdminInv, Barred
<1>8. QED
  BY <1>5, <1>6, <1>7 DEF AdminInv

LEMMA AnswerInv ==
  ASSUME AdminInv, NEW w \in Workers, NEW outcome \in Outcomes, Answer(w, outcome)
  PROVE  AdminInv'
<1> DEFINE todo == (IF outcome = "keep" THEN <<>> ELSE <<outcome>>) \o Sync
<1>1. /\ work \in [Workers -> WorkRec] /\ work[w].todo # <<>> /\ Head(work[w].todo) = "answer"
      /\ work' = [work EXCEPT ![w].todo = todo]
      /\ UNCHANGED <<clock, row, objs, current, adm, served, barred>>
  BY Types DEF Answer, Doing
<1>2. todo \in Lists
  <2>1. CASE outcome = "keep"
    <3>1. <<>> \o Sync = Sync
      BY DEF Sync
    <3>2. QED
      BY <2>1, <3>1 DEF Lists
  <2>2. CASE outcome \in {"refund", "limit", "invalid"}
    BY <2>2 DEF Lists
  <2>3. QED
    BY <2>1, <2>2, AdminAssumption
<1>3. todo # <<>> /\ Head(todo) # "write"
  <2>1. CASE outcome = "keep"
    <3>1. <<>> \o Sync = Sync
      BY DEF Sync
    <3>2. todo = Sync
      BY <2>1, <3>1
    <3> HIDE DEF todo
    <3>3. QED
      BY <3>2 DEF Sync
  <2>2. CASE outcome \in {"refund", "limit", "invalid"}
    <3>1. todo = <<outcome, "snap", "write">>
      BY <2>2, ListsJoined
    <3>2. QED
      BY <2>2, <3>1
  <2>3. QED
    BY <2>1, <2>2, AdminAssumption
<1>4. todo \in Seq({"refund", "limit", "invalid", "snap", "write", "answer"})
  BY <1>2, ListFacts
<1> HIDE DEF todo
<1>5. /\ work' \in [Workers -> WorkRec] /\ work'[w].todo = todo /\ work'[w].obj = work[w].obj
      /\ \A v \in Workers \ {w} : work'[v] = work[v]
  BY <1>1, <1>4 DEF WorkRec
<1>6. work[w].obj # 0 /\ work[w].obj <= Len(objs)
  BY <1>1 DEF AdminInv, WorkOK
<1>7. ~Doing(w, "write")'
  BY <1>3, <1>5 DEF Doing
<1>8. ~barred
  <2>1. ASSUME barred PROVE FALSE
    <3>1. work[w].todo \in {Sync, <<"write">>}
      BY <1>6, <2>1 DEF AdminInv, Barred
    <3>2. QED
      BY <1>1, <3>1 DEF Sync
  <2>2. QED
    BY <2>1
<1>9. QED
  BY <1>1, <1>2, <1>3, <1>5, <1>6, <1>7, <1>8, WorkerStep, Types

LEMMA SettleInv ==
  ASSUME AdminInv, NEW w \in Workers, NEW step \in {"refund", "limit", "invalid"}, Settle(w, step)
  PROVE  AdminInv'
<1> DEFINE i == work[w].obj
           k == CASE step = "refund"  -> RollbackUsage(objs[i])
                  [] step = "limit"   -> SetCooldown(objs[i], clock + 1, "rate_limited")
                  [] step = "invalid" -> SetStatus(objs[i], "invalid", Today)
<1>1. /\ Doing(w, step) /\ objs' = [objs EXCEPT ![i] = k] /\ work' = Done(w)
      /\ served' \in {served, served - 1} /\ (served' # served => served > 0)
      /\ UNCHANGED <<clock, row, current, adm, barred>>
  BY DEF Settle
<1>2. /\ objs \in Seq(KeyRec) /\ Len(objs) \in Nat /\ i \in 1 .. Len(objs) /\ objs[i] \in KeyRec
      /\ clock + 1 \in Nat /\ Today \in Nat /\ served' \in Nat
  BY <1>1, DoneFacts, Types
<1>3. k \in KeyRec
  BY <1>2, RollbackFacts, SetCooldownFacts, SetStatusFacts DEF Status
<1> HIDE DEF k
<1>4. objs' \in Seq(KeyRec) /\ Len(objs') = Len(objs)
  BY <1>1, <1>2, <1>3
<1>5. ~barred
  <2>1. ASSUME barred PROVE FALSE
    <3>1. work[w].todo \in {Sync, <<"write">>}
      BY <1>2, <2>1 DEF AdminInv, Barred
    <3>2. QED
      BY <1>1, <3>1 DEF Sync, Doing
  <2>2. QED
    BY <2>1
<1>6. ~Doing(w, "write")'
  <2>1. work[w].todo \in Lists /\ work[w].todo # <<>> /\ Head(work[w].todo) # "snap"
    BY <1>1 DEF AdminInv, WorkOK, Doing
  <2>2. QED
    BY <1>1, <2>1, DoneFacts, ListFacts DEF Doing
<1>7. i \in Nat /\ work'[w].obj \in {0, i}
  BY <1>1, <1>2, DoneFacts
<1>8. QED
  BY <1>1, <1>2, <1>4, <1>5, <1>6, <1>7, DoneFacts, WorkerStep, Types

LEMMA SnapInv ==
  ASSUME AdminInv, NEW w \in Workers, Snap(w)
  PROVE  AdminInv'
<1> DEFINE i == work[w].obj
           k == ToDB(objs[i])
<1>1. /\ Doing(w, "snap") /\ work' = [Done(w) EXCEPT ![w].snap = k]
      /\ UNCHANGED <<clock, row, objs, current, adm, served, barred>>
  BY DEF Snap
<1>2. /\ Done(w) \in [Workers -> WorkRec] /\ \A v \in Workers \ {w} : Done(w)[v] = work[v]
      /\ Done(w)[w].todo = Tail(work[w].todo) /\ Done(w)[w].todo \in Lists
      /\ Done(w)[w].todo = <<>> <=> Done(w)[w].obj = 0
      /\ Done(w)[w].obj # 0 => Done(w)[w].obj = i
      /\ i \in 1 .. Len(objs)
  BY <1>1, DoneFacts
<1>3. objs[i] \in KeyRec /\ Len(objs) \in Nat
  BY <1>2, Types
<1>4. k \in RowRec /\ k.status = objs[i].status
  BY <1>3, ToDBFacts
<1> HIDE DEF k
<1>5. /\ work' \in [Workers -> WorkRec] /\ \A v \in Workers \ {w} : work'[v] = work[v]
      /\ work'[w].todo = Done(w)[w].todo /\ work'[w].obj = Done(w)[w].obj /\ work'[w].snap = k
  BY <1>1, <1>2, <1>4 DEF WorkRec
<1>6. barred => Barred'
  <2>1. ASSUME barred PROVE Barred'
    <3>1. i = current /\ work[w].todo \in {Sync, <<"write">>} /\ objs[i].status = "disabled"
      BY <1>2, <1>3, <2>1 DEF AdminInv, Barred
    <3>2. work[w].todo = Sync
      BY <1>1, <3>1 DEF Doing
    <3>3. work'[w].todo = <<"write">>
      BY <1>2, <1>5, <3>2 DEF Sync
    <3>4. QED
      BY <1>1, <1>2, <1>4, <1>5, <2>1, <3>1, <3>3 DEF AdminInv, Barred
  <2>2. QED
    BY <2>1
<1>7. work'[w].obj <= Len(objs)
  BY <1>2, <1>3, <1>5
<1>8. QED
  BY <1>1, <1>2, <1>4, <1>5, <1>6, <1>7, WorkerStep, Types

LEMMA WriteInv ==
  ASSUME AdminInv, NEW w \in Workers, Write(w)
  PROVE  AdminInv'
<1>1. /\ Doing(w, "write") /\ work' = Done(w) /\ row' = UpdateKey(row, work[w].snap)
      /\ UNCHANGED <<clock, objs, current, adm, served, barred>>
  BY DEF Write
<1>2. work[w].snap \in RowRec /\ work[w].snap # NoRow
  BY <1>1, NoRowIsNone DEF AdminInv, WorkOK
<1>3. /\ row' \in RowRec \cup {NoRow}
      /\ row' = NoRow <=> row = NoRow
      /\ row # NoRow => row' = work[w].snap
  BY <1>1, <1>2, Types DEF UpdateKey
<1>4. /\ Done(w) \in [Workers -> WorkRec] /\ \A v \in Workers \ {w} : Done(w)[v] = work[v]
      /\ Done(w)[w].todo = Tail(work[w].todo) /\ Done(w)[w].todo \in Lists
      /\ Done(w)[w].todo = <<>> <=> Done(w)[w].obj = 0
      /\ Done(w)[w].obj # 0 => Done(w)[w].obj = work[w].obj
      /\ work[w].obj \in 1 .. Len(objs)
  BY <1>1, DoneFacts
<1>5. ~Doing(w, "write")'
  <2>1. work[w].todo \in Lists /\ work[w].todo # <<>> /\ Head(work[w].todo) # "snap"
    BY <1>1 DEF AdminInv, WorkOK, Doing
  <2>2. QED
    BY <1>1, <1>4, <2>1, ListFacts DEF Doing
<1>6. barred => Barred'
  <2>1. ASSUME barred PROVE Barred'
    <3>1. work[w].todo \in {Sync, <<"write">>}
      BY <1>4, <2>1 DEF AdminInv, Barred
    <3>2. work[w].todo = <<"write">> /\ work[w].snap.status = "disabled"
      BY <1>1, <1>4, <2>1, <3>1 DEF AdminInv, Barred, Doing, Sync
    <3>3. Done(w)[w].obj = 0
      BY <1>4, <3>2, ListFacts
    <3>4. QED
      BY <1>1, <1>2, <1>3, <1>4, <2>1, <3>2, <3>3 DEF AdminInv, Barred
  <2>2. QED
    BY <2>1
<1>7. Len(objs) \in Nat /\ work'[w].obj <= Len(objs) /\ served' \in Nat
  BY <1>1, <1>4, Types
<1>8. QED
  BY <1>1, <1>3, <1>4, <1>5, <1>6, <1>7, WorkerStep, Types

(***************************************************************************)
(* The clock, the end of the process, and every step.                      *)
(***************************************************************************)
LEMMA TickInv == ASSUME AdminInv, Tick PROVE AdminInv'
<1>1. /\ clock < MaxTime /\ clock' = clock + 1 /\ served' \in {0, served}
      /\ UNCHANGED <<row, objs, current, adm, work, barred>>
  BY DEF Tick
<1>2. clock' \in 0 .. MaxTime /\ served' \in Nat
  BY <1>1, AdminAssumption, Types DEF AdminInv, TypeOK
<1>3. TypeOK' /\ WorkOK'
  BY <1>1, <1>2 DEF AdminInv, TypeOK, WorkOK, Doing
<1>4. OneLoads' /\ AnotherLoad' /\ PoolMatchesTable'
  BY <1>1 DEF AdminInv, OneLoads, AnotherLoad, PoolMatchesTable
<1>5. barred' => Barred'
  BY <1>1 DEF AdminInv, Barred
<1>6. QED
  BY <1>3, <1>4, <1>5 DEF AdminInv

\* A pool that is made from the table: nobody has anything to do.
LEMMA Fresh ==
  ASSUME NEW r \in RowRec \cup {NoRow}
  PROVE  /\ Loaded(r) \in Seq(KeyRec) /\ Len(Loaded(r)) \in {0, 1}
         /\ Len(Loaded(r)) # 0 <=> r # NoRow
         /\ r # NoRow => Loaded(r)[1].status = r.status
         /\ NoOp \in AdmRec /\ NoOp.pc = "idle"
         /\ NoWork \in WorkRec /\ NoWork.todo = <<>> /\ NoWork.obj = 0
<1>1. NoOp \in AdmRec /\ NoOp.pc = "idle"
  BY DEF NoOp, AdmRec
<1>2. NoWork \in WorkRec /\ NoWork.todo = <<>> /\ NoWork.obj = 0
  BY AdminAssumption DEF NoWork, WorkRec, Objects
<1>3. CASE r = NoRow
  BY <1>1, <1>2, <1>3 DEF Loaded
<1>4. CASE r \in RowRec
  <2>1. NewKeyState(r) \in KeyRec /\ NewKeyState(r).status = r.status /\ r # NoRow
    BY <1>4, LoadFacts, NoRowIsNone
  <2>2. Loaded(r) = <<NewKeyState(r)>>
    BY <2>1 DEF Loaded
  <2>3. QED
    BY <1>1, <1>2, <2>1, <2>2
<1>5. QED
  BY <1>3, <1>4

LEMMA RestartInv == ASSUME AdminInv, Restart PROVE AdminInv'
<1>1. /\ row' = ResetStaleDay(row, Today) /\ objs' = Loaded(row') /\ current' = Len(objs')
      /\ adm' = [a \in Admins |-> NoOp] /\ work' = [w \in Workers |-> NoWork]
      /\ served' = 0 /\ UNCHANGED <<clock, barred>>
  BY DEF Restart
<1>2. /\ row' \in RowRec \cup {NoRow}
      /\ row # NoRow /\ row.status = "disabled" => row' \in RowRec /\ row'.status = "disabled"
  <2>1. CASE row = NoRow
    BY <1>1, <2>1 DEF ResetStaleDay
  <2>2. CASE row \in RowRec
    BY <1>1, <2>2, StaleRowFacts, Types
  <2>3. QED
    BY <2>1, <2>2, Types
<1>3. /\ objs' \in Seq(KeyRec) /\ Len(objs') \in {0, 1}
      /\ current' # 0 <=> row' # NoRow
      /\ row' # NoRow => objs'[1].status = row'.status
      /\ NoOp \in AdmRec /\ NoOp.pc = "idle"
      /\ NoWork \in WorkRec /\ NoWork.todo = <<>> /\ NoWork.obj = 0
  BY <1>1, <1>2, Fresh
<1>4. TypeOK'
  BY <1>1, <1>2, <1>3, AdminAssumption DEF AdminInv, TypeOK
<1>5. WorkOK'
  BY <1>1, <1>3 DEF WorkOK, Doing, Lists
<1>6. OneLoads' /\ AnotherLoad' /\ PoolMatchesTable'
  BY <1>1, <1>3 DEF OneLoads, AnotherLoad, PoolMatchesTable
<1>7. ASSUME barred' PROVE Barred'
  <2>1. row' \in RowRec /\ row'.status = "disabled"
    BY <1>1, <1>2, <1>7 DEF AdminInv, Barred
  <2>2. row' # NoRow
    BY <2>1, NoRowIsNone
  <2>3. current' = 1 /\ objs'[current'].status = "disabled"
    BY <1>1, <1>3, <2>1, <2>2
  <2>4. QED
    BY <1>1, <1>3, <2>1, <2>2, <2>3 DEF Barred
<1>8. QED
  BY <1>4, <1>5, <1>6, <1>7 DEF AdminInv

LEMMA AdminStart == Init => AdminInv
<1> SUFFICES ASSUME Init PROVE AdminInv
  OBVIOUS
<1>1. row \in RowRec /\ row # NoRow
  BY NewRowFacts, NoRowIsNone, AdminAssumption DEF Init
<1>2. /\ objs \in Seq(KeyRec) /\ Len(objs) = 1
      /\ NoOp \in AdmRec /\ NoOp.pc = "idle"
      /\ NoWork \in WorkRec /\ NoWork.todo = <<>> /\ NoWork.obj = 0
  BY <1>1, Fresh DEF Init
<1>3. TypeOK
  <2>0. clock = 0 /\ current = 1 /\ served = 0
    BY DEF Init
  <2>1. clock \in 0 .. MaxTime /\ Len(objs) <= MaxObjects /\ current \in 0 .. Len(objs) /\ served \in Nat
    BY <1>2, <2>0, AdminAssumption
  <2>2. adm \in [Admins -> AdmRec] /\ work \in [Workers -> WorkRec] /\ barred \in BOOLEAN
    BY <1>2 DEF Init
  <2>3. QED
    BY <1>1, <1>2, <2>1, <2>2 DEF TypeOK
<1>4. WorkOK
  BY <1>2 DEF Init, WorkOK, Doing, Lists
<1>5. OneLoads /\ AnotherLoad /\ PoolMatchesTable /\ ~barred
  BY <1>1, <1>2 DEF Init, OneLoads, AnotherLoad, PoolMatchesTable
<1>6. QED
  BY <1>3, <1>4, <1>5 DEF AdminInv

LEMMA AdminStep == AdminInv /\ [Next]_vars => AdminInv'
<1> SUFFICES ASSUME AdminInv, [Next]_vars PROVE AdminInv'
  OBVIOUS
<1>1. CASE AdminNext
  BY <1>1, StoreOpInv, LoadReadInv, LoadApplyInv DEF AdminNext
<1>2. CASE WorkerNext
  BY <1>2, TakeInv, ResetExpiredInv, AnswerInv, SettleInv, SnapInv, WriteInv DEF WorkerNext
<1>3. CASE UNCHANGED vars
  <2>1. UNCHANGED <<clock, row, objs, current, adm, work, served, barred>>
    BY <1>3 DEF vars
  <2>2. TypeOK' /\ WorkOK'
    BY <2>1 DEF AdminInv, TypeOK, WorkOK, Doing
  <2>3. OneLoads' /\ AnotherLoad' /\ PoolMatchesTable' /\ (barred' => Barred')
    BY <2>1 DEF AdminInv, OneLoads, AnotherLoad, PoolMatchesTable, Barred
  <2>4. QED
    BY <2>2, <2>3 DEF AdminInv
<1>4. QED
  BY <1>1, <1>2, <1>3, LookInv, TickInv, RestartInv DEF Next

LEMMA AdminInvariant == Spec => []AdminInv
  BY AdminStart, AdminStep, PTL DEF Spec

\* Row, objects and what everybody has to do keep to their types: no worker
\* touches an object that does not exist or writes a snapshot it has not taken.
THEOREM AdminTyped == Spec => []TypeOK
<1>1. AdminInv => TypeOK
  BY DEF AdminInv
<1>2. QED
  BY <1>1, AdminInvariant, PTL

\* However statements of the store, Loads and late writes of requests overlap,
\* the pool holds the key when the table does once the last operation is over
\* (Load reads the table under the pool's lock; UpdateKey makes no row).
THEOREM PoolFollowsTable == Spec => []PoolMatchesTable
<1>1. AdminInv => PoolMatchesTable
  BY DEF AdminInv
<1>2. QED
  BY <1>1, AdminInvariant, PTL

\* A key that was disabled while nobody held it stays disabled, in the table
\* and in memory, over days, resets, restarts and late writes, until an
\* administrator enables or removes it.
THEOREM BlockSurvives == Spec => []DisabledStays
<1>1. AdminInv => DisabledStays
  BY DEF AdminInv, Barred, DisabledStays
<1>2. QED
  BY <1>1, AdminInvariant, PTL
=============================================================================
