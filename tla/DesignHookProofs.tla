--------------------------- MODULE DesignHookProofs --------------------------
(* What the user was told is ignored stays ignored, whatever commands follow  *)
(* and whatever hooks run meanwhile; and what the hooks keep of a session     *)
(* stands by what it was told and did, whatever runs overwrite each other.    *)
(*                                                                            *)
(* IgnoresKept says nothing of the moments at which a command has truncated a *)
(* file, so it is not inductive: Inv adds that the text which the command     *)
(* then writes holds what the file held (Writing), that only one file is torn *)
(* at a time, and that nothing is promised any more once a reset has begun    *)
(* (Forgotten).                                                               *)
(*                                                                            *)
(* The properties of the cache say nothing of the copies that runs hold and   *)
(* have yet to write: HookInv adds that every copy stands by them too, with   *)
(* the help of what its own run is about to say (CopyOK), and that a run says *)
(* what it has found (SaysOK).  What the loop over the files of a call makes  *)
(* of a copy (ScannedOK) is by induction over the prefixes of the list, which *)
(* UpTo has from the finiteness of 0 .. n.                                    *)
EXTENDS DesignHook, FiniteSetTheorems, SequenceTheorems, TLAPS

Clears(task) == task.op \in {"remove", "forget"}

\* What a command has still to do: a reset does nothing but clear, the others
\* never do.
Jobs == {todo \in Seq(Task) :
           \A i \in DOMAIN todo :
             /\ todo[i].op = "ignore" => todo[i].what \in Ignorable
             /\ \A j \in DOMAIN todo : Clears(todo[i]) <=> Clears(todo[j])}

Shape == config \in [Places -> ConfigFile] /\ admin \in [todo : Jobs, open : BOOLEAN, next : ConfigFile]

Forgotten == admin.todo # <<>> /\ Clears(Task1) => confirmed = {}

Whole(w) == config[w].is # "torn"

Settled ==
  ~admin.open => /\ \A w \in Places : Whole(w)
                 /\ \A x \in confirmed : \E w \in Places : x \in Filters(config[w])

Writing ==
  admin.open =>
    /\ admin.todo # <<>> /\ ~Clears(Task1) /\ ~Whole(Task1.where)
    /\ admin.next.is # "torn"
    /\ Task1.op = "ignore" => Task1.what \in admin.next.ignored
    /\ \A w \in Places \ {Task1.where} : Whole(w)
    /\ \A x \in confirmed : \/ x \in Filters(admin.next)
                            \/ \E w \in Places \ {Task1.where} : x \in Filters(config[w])

Inv == Shape /\ Forgotten /\ Settled /\ Writing

-----------------------------------------------------------------------------
(* What the operators on a file and on a list of jobs return.              *)

\* The text that a command writes holds what the file held, but for the
\* filters of an older release.
LEMMA EditKeeps ==
  ASSUME NEW task \in Task, NEW file \in ConfigFile, ~Clears(task),
         task.op = "ignore" => task.what \in Ignorable
  PROVE  /\ Edited(task, file) \in ConfigFile
         /\ Edited(task, file).is = "json"
         /\ file.ignored \subseteq Edited(task, file).ignored
         /\ task.op = "ignore" => /\ Filters(file) \subseteq Edited(task, file).ignored
                                  /\ task.what \in Edited(task, file).ignored
<1>1. CASE task.op = "ignore"
  BY <1>1 DEF Edited, ConfigFile, Filters
<1>2. CASE task.op = "consent"
  BY <1>2 DEF Edited, ConfigFile
<1>3. CASE task.op \in {"on", "off"}
  BY <1>3 DEF Edited, ConfigFile
<1> QED BY <1>1, <1>2, <1>3 DEF Task, Clears

\* The rest of a list of jobs is one, and does the same.
LEMMA RestOfJobs ==
  ASSUME NEW todo \in Jobs, todo # <<>>
  PROVE  /\ Head(todo) \in Task
         /\ Head(todo).op = "ignore" => Head(todo).what \in Ignorable
         /\ Tail(todo) \in Jobs
         /\ Tail(todo) # <<>> => (Clears(Head(Tail(todo))) <=> Clears(Head(todo)))
<1>1. todo \in Seq(Task) /\ Len(todo) \in Nat /\ Len(todo) > 0 /\ 1 \in DOMAIN todo
  BY DEF Jobs
<1>2. Head(todo) = todo[1] /\ todo[1] \in Task
  BY <1>1
<1>3. Tail(todo) \in Seq(Task) /\ DOMAIN Tail(todo) = 1 .. (Len(todo) - 1)
  BY <1>1
<1>4. \A i \in DOMAIN Tail(todo) : i + 1 \in DOMAIN todo /\ Tail(todo)[i] = todo[i + 1]
  BY <1>1, <1>3
<1>5. Tail(todo) \in Jobs
  BY <1>3, <1>4 DEF Jobs
<1>6. ASSUME Tail(todo) # <<>>
      PROVE  Clears(Head(Tail(todo))) <=> Clears(Head(todo))
  <2>1. 1 \in DOMAIN Tail(todo) /\ Head(Tail(todo)) = Tail(todo)[1]
    BY <1>3, <1>6
  <2>2. 2 \in DOMAIN todo /\ Head(Tail(todo)) = todo[2]
    BY <1>4, <2>1
  <2> QED BY <1>1, <1>2, <2>2 DEF Jobs
<1> QED BY <1>1, <1>2, <1>5, <1>6 DEF Jobs

\* A command of one job, and the two of more.
LEMMA JobsOfCommands ==
  /\ \A t \in Task : (t.op = "ignore" => t.what \in Ignorable) => <<t>> \in Jobs
  /\ \A t, u \in Task : t.op # "ignore" /\ u.op # "ignore" /\ (Clears(t) <=> Clears(u))
       => <<t, u>> \in Jobs
  /\ \A t, u, v \in Task : Clears(t) /\ Clears(u) /\ Clears(v) => <<t, u, v>> \in Jobs
  BY DEF Jobs, Clears

-----------------------------------------------------------------------------
(* The steps.                                                              *)

LEMMA InitInv == HookInit => Inv
<1> SUFFICES ASSUME ConfigInit PROVE Inv
  BY DEF HookInit
<1>1. PICK old \in {{}} \cup {{r} : r \in Rules} :
        /\ config = [w \in Places |->
             IF w = "shared" /\ old # {} THEN [NoFile EXCEPT !.is = "json", !.legacy = old]
             ELSE NoFile]
        /\ confirmed = old
  BY DEF ConfigInit
<1>2. old \subseteq Ignorable
  BY <1>1 DEF Ignorable
<1>3. NoFile \in ConfigFile /\ NoFile.is = "none"
  BY DEF NoFile, ConfigFile
<1>4. [NoFile EXCEPT !.is = "json", !.legacy = old] \in ConfigFile
  BY <1>2 DEF NoFile, ConfigFile
<1>5. config \in [Places -> ConfigFile]
  BY <1>1, <1>3, <1>4
<1>6. <<>> \in Jobs
  BY DEF Jobs
<1>7. admin = Resting /\ admin.todo = <<>> /\ admin.open = FALSE
      /\ admin \in [todo : Jobs, open : BOOLEAN, next : ConfigFile]
  BY <1>3, <1>6 DEF ConfigInit, Resting
<1>8. \A w \in Places : Whole(w)
  BY <1>1, <1>3 DEF Whole, NoFile
<1>9. \A x \in confirmed : x \in Filters(config["shared"])
  BY <1>1 DEF Places, Filters, NoFile
<1> QED BY <1>5, <1>7, <1>8, <1>9 DEF Inv, Shape, Forgotten, Settled, Writing, Places

\* The hooks leave all of it alone.
LEMMA OtherSteps == Inv /\ UNCHANGED settings => Inv'
  BY DEF Inv, Shape, Forgotten, Settled, Writing, Whole, Task1, settings

LEMMA CommandStep == Inv /\ Command => Inv'
<1> SUFFICES ASSUME Inv, Command PROVE Inv'
  OBVIOUS
<1>1. PICK todo \in {<<Job("on", "shared", "-"), Job("consent", "local", "-")>>,
                     <<Job("off", "shared", "-")>>,
                     <<Job("remove", "shared", "-"), Job("remove", "local", "-"),
                       Job("forget", "shared", "-")>>}
                    \cup {<<Job("ignore", "shared", x)>> : x \in Ignorable}
                    \cup {<<Job("ignore", "local", r)>> : r \in Rules} :
        /\ admin' = [admin EXCEPT !.todo = todo]
        /\ confirmed' = IF todo[1].op = "remove" THEN {} ELSE confirmed
  BY DEF Command
<1>2. admin = Resting /\ ~admin.open /\ config' = config
  BY DEF Command, Resting
<1>3. \A op \in {"on", "off", "consent", "ignore", "remove", "forget"}, w \in Places,
         x \in Ignorable \cup {"-"} : /\ Job(op, w, x) \in Task
                                      /\ Job(op, w, x).op = op /\ Job(op, w, x).what = x
  BY DEF Job, Task
<1>4. todo \in Jobs /\ (Clears(Head(todo)) => todo[1].op = "remove")
  BY <1>1, <1>3, JobsOfCommands DEF Clears, Places, Ignorable
<1>5. admin' \in [todo : Jobs, open : BOOLEAN, next : ConfigFile] /\ admin'.todo = todo /\ ~admin'.open
  BY <1>1, <1>2, <1>4 DEF Inv, Shape
<1>6. confirmed' = {} \/ confirmed' = confirmed
  BY <1>1
<1> QED BY <1>1, <1>2, <1>4, <1>5, <1>6 DEF Inv, Shape, Forgotten, Settled, Writing, Whole, Task1

\* The file is truncated; its filters are in what is written next.
LEMMA OpenStep == Inv /\ OpenConfig => Inv'
<1> SUFFICES ASSUME Inv, OpenConfig PROVE Inv'
  OBVIOUS
<1> DEFINE w    == Task1.where
           file == config[w]
           next == Edited(Task1, file)
<1>1. /\ admin.todo \in Jobs /\ admin.todo # <<>> /\ ~admin.open
      /\ config \in [Places -> ConfigFile]
  BY DEF Inv, Shape, OpenConfig
<1>2. Task1 \in Task /\ ~Clears(Task1) /\ (Task1.op = "ignore" => Task1.what \in Ignorable)
  BY <1>1, RestOfJobs DEF OpenConfig, Task1, Clears
<1>3. w \in Places /\ file \in ConfigFile
  BY <1>1, <1>2 DEF Task
<1>4. /\ next \in ConfigFile /\ next.is = "json" /\ file.ignored \subseteq next.ignored
      /\ Task1.op = "ignore" => Filters(file) \subseteq next.ignored /\ Task1.what \in next.ignored
  BY <1>2, <1>3, EditKeeps
<1>5. /\ admin'.todo = admin.todo /\ admin'.open /\ admin'.next = next
      /\ admin' \in [todo : Jobs, open : BOOLEAN, next : ConfigFile]
      /\ Task1' = Task1
  BY <1>1, <1>4 DEF OpenConfig, Inv, Shape, Task1
<1>6. TornFile \in ConfigFile /\ TornFile.is = "torn"
  BY DEF TornFile, NoFile, ConfigFile
<1>7. /\ config' \in [Places -> ConfigFile]
      /\ config'[w].is = "torn"
      /\ \A v \in Places \ {w} : config'[v] = config[v]
  BY <1>1, <1>3, <1>6 DEF OpenConfig
<1>8. \A v \in Places \ {w} : Whole(v)'
  BY <1>1, <1>7 DEF Inv, Settled, Whole
<1>9. ASSUME NEW x \in confirmed'
      PROVE  x \in Filters(next) \/ \E v \in Places \ {w} : x \in Filters(config'[v])
  <2>1. x \in confirmed /\ \E v \in Places : x \in Filters(config[v])
    BY <1>1, <1>9 DEF OpenConfig, Inv, Settled
  <2>2. CASE \E v \in Places \ {w} : x \in Filters(config[v])
    BY <1>7, <2>2
  <2>3. CASE x \in Filters(file) /\ Task1.op = "ignore"
    BY <1>4, <2>3 DEF Filters
  <2>4. CASE x \in Filters(file) /\ Task1.op # "ignore"
    <3>1. x \in UNION {config[v].ignored : v \in Places}
      BY <1>3, <1>9, <2>4 DEF OpenConfig, Filters
    <3>2. PICK v \in Places : x \in config[v].ignored
      BY <3>1
    <3>3. CASE v = w
      BY <1>4, <3>2, <3>3 DEF Filters
    <3>4. CASE v # w
      BY <1>7, <3>2, <3>4 DEF Filters
    <3> QED BY <3>3, <3>4
  <2> QED BY <1>3, <2>1, <2>2, <2>3, <2>4
<1>10. ~Whole(w)' /\ admin'.next.is # "torn"
  BY <1>4, <1>5, <1>7 DEF Whole
<1>11. Forgotten'
  BY <1>2, <1>5 DEF Forgotten
<1>12. Writing'
  BY <1>2, <1>1, <1>4, <1>5, <1>8, <1>9, <1>10 DEF Writing, Whole
<1> QED BY <1>5, <1>7, <1>11, <1>12 DEF Inv, Shape, Settled

\* The text is written.
LEMMA WriteStep == Inv /\ WriteConfig => Inv'
<1> SUFFICES ASSUME Inv, WriteConfig PROVE Inv'
  OBVIOUS
<1> DEFINE w == Task1.where
<1>1. /\ admin.todo \in Jobs /\ admin.todo # <<>> /\ admin.open /\ ~Clears(Task1)
      /\ config \in [Places -> ConfigFile] /\ admin.next \in ConfigFile
  BY DEF Inv, Shape, WriteConfig, Writing
<1>2. Task1 \in Task /\ w \in Places /\ Tail(admin.todo) \in Jobs
      /\ (Tail(admin.todo) # <<>> => ~Clears(Head(Tail(admin.todo))))
  BY <1>1, RestOfJobs DEF Task1, Task
<1>3. NoFile \in ConfigFile
  BY DEF NoFile, ConfigFile
<1>4. /\ admin'.todo = Tail(admin.todo) /\ ~admin'.open
      /\ admin' \in [todo : Jobs, open : BOOLEAN, next : ConfigFile]
  BY <1>2, <1>3 DEF WriteConfig, Resting
<1>5. /\ config' \in [Places -> ConfigFile]
      /\ config'[w] = admin.next
      /\ \A v \in Places \ {w} : config'[v] = config[v]
  BY <1>1, <1>2 DEF WriteConfig
<1>6. \A v \in Places : Whole(v)'
  BY <1>1, <1>5 DEF Inv, Writing, Whole
<1>7. ASSUME NEW x \in confirmed'
      PROVE  \E v \in Places : x \in Filters(config'[v])
  <2>1. CASE x \in confirmed
    BY <1>1, <1>2, <1>5, <2>1 DEF Inv, Writing
  <2>2. CASE x \notin confirmed
    <3>1. Task1.op = "ignore" /\ x = Task1.what
      BY <1>7, <2>2 DEF WriteConfig
    <3>2. x \in admin.next.ignored
      BY <1>1, <3>1 DEF Inv, Writing
    <3> QED BY <1>2, <1>5, <3>2 DEF Filters
  <2> QED BY <2>1, <2>2
<1> QED BY <1>2, <1>4, <1>5, <1>6, <1>7 DEF Inv, Shape, Forgotten, Settled, Writing, Task1

\* A step of a reset: nothing is promised any more.
LEMMA ResetStep == Inv /\ (RemoveConfig \/ ForgetCache) => Inv'
<1> SUFFICES ASSUME Inv, RemoveConfig \/ ForgetCache PROVE Inv'
  OBVIOUS
<1>1. /\ admin.todo \in Jobs /\ admin.todo # <<>> /\ Clears(Task1)
      /\ config \in [Places -> ConfigFile]
      /\ admin \in [todo : Jobs, open : BOOLEAN, next : ConfigFile]
  BY DEF Inv, Shape, RemoveConfig, ForgetCache, Clears
<1>2. Task1 \in Task /\ Tail(admin.todo) \in Jobs
  BY <1>1, RestOfJobs DEF Task1
<1>3. ~admin.open /\ confirmed = {} /\ confirmed' = {}
  BY <1>1 DEF Inv, Forgotten, Writing, RemoveConfig, ForgetCache
<1>4. admin'.todo = Tail(admin.todo) /\ ~admin'.open
      /\ admin' \in [todo : Jobs, open : BOOLEAN, next : ConfigFile]
  BY <1>1, <1>2, <1>3 DEF RemoveConfig, ForgetCache
<1>5. NoFile \in ConfigFile /\ NoFile.is = "none"
  BY DEF NoFile, ConfigFile
<1>6. config' \in [Places -> ConfigFile] /\ \A v \in Places : config'[v] = config[v] \/ config'[v] = NoFile
  BY <1>1, <1>5 DEF RemoveConfig, ForgetCache
<1>7. \A v \in Places : Whole(v)'
  BY <1>3, <1>5, <1>6 DEF Inv, Settled, Whole
<1> QED BY <1>3, <1>4, <1>6, <1>7 DEF Inv, Shape, Forgotten, Settled, Writing

LEMMA NextInv == Inv /\ [Next]_vars => Inv'
<1> SUFFICES ASSUME Inv, [Next]_vars PROVE Inv'
  OBVIOUS
<1>1. CASE ConfigNext
  BY <1>1, CommandStep, OpenStep, WriteStep, ResetStep DEF ConfigNext
<1>2. CASE ForgetCache
  BY <1>2, ResetStep
<1>3. CASE \E h \in Hooks : AfterEdit(h)
  BY <1>3, OtherSteps DEF AfterEdit
<1>4. CASE \E g \in Gates : Ask(g)
  BY <1>4, OtherSteps DEF Ask
<1>5. ASSUME NEW p \in Procs, Run(p) \/ CannotWrite(p) \/ Kill(p)
      PROVE  UNCHANGED settings
  BY <1>5 DEF Run, OpenCache, WriteCache, Answer, LoadAndBump, Decide, CannotWrite, Kill,
              configvars, settings
<1>6. CASE \E p \in Procs : Run(p) \/ CannotWrite(p) \/ Kill(p)
  BY <1>5, <1>6, OtherSteps
<1>7. CASE UNCHANGED vars
  BY <1>7, OtherSteps DEF vars, configvars, settings
<1> QED BY <1>1, <1>2, <1>3, <1>4, <1>6, <1>7 DEF Next

LEMMA InvKeeps == Inv => IgnoresKept
<1> SUFFICES ASSUME Inv, \A w \in Places : Whole(w) PROVE confirmed \subseteq Ignored
  BY DEF IgnoresKept, Whole
<1>1. ~admin.open
  <2>1. SUFFICES ASSUME admin.open PROVE FALSE
    OBVIOUS
  <2>2. Task1 \in Task /\ ~Whole(Task1.where)
    BY <2>1, RestOfJobs DEF Inv, Shape, Writing, Task1
  <2> QED BY <2>2 DEF Task
<1>2. \A x \in confirmed : \E w \in Places : x \in Filters(config[w])
  BY <1>1 DEF Inv, Settled
<1> QED BY <1>2 DEF Ignored, Filters

\* What the user was told is ignored stays ignored until a reset, whatever
\* commands follow, in whichever section of whichever file it was recorded, for
\* any number of hooks, gates, files and rules: a command reads both sections of
\* the file that it rewrites, and no hook writes one.
THEOREM IgnoredTheorem == Spec => []IgnoresKept
<1>1. HookInit => Inv
  BY InitInv
<1>2. Inv /\ [Next]_vars => Inv'
  BY NextInv
<1>3. Inv => IgnoresKept
  BY InvKeeps
<1> QED BY <1>1, <1>2, <1>3, PTL DEF Spec

-----------------------------------------------------------------------------
(* Induction up to a number, for a set of numbers.                         *)

\* A nonempty set of numbers up to N has a least one.
LEMMA LeastNumber ==
  ASSUME NEW N \in Nat, NEW B \in SUBSET (0 .. N), B # {}
  PROVE  \E m \in B : \A n \in B : m <= n
<1> DEFINE T == {0 .. n : n \in B}
           R == StrictSubsetOrdering(0 .. N)
<1>1. IsFiniteSet(0 .. N)
  BY FS_Interval
<1>2. T \subseteq FiniteSubsetsOf(0 .. N) /\ T # {}
  <2>1. ASSUME NEW n \in B PROVE 0 .. n \in FiniteSubsetsOf(0 .. N)
    <3>1. 0 .. n \subseteq 0 .. N
      OBVIOUS
    <3>. QED BY <1>1, <3>1, FS_Subset DEF FiniteSubsetsOf
  <2>2. PICK n \in B : TRUE
    OBVIOUS
  <2>3. 0 .. n \in T
    OBVIOUS
  <2>. QED BY <2>1, <2>3
<1>3. IsWellFoundedOn(R, FiniteSubsetsOf(0 .. N))
  BY FS_StrictSubsetOrderingWellFounded
<1> HIDE DEF T, R
<1>4. PICK x \in T : \A y \in T : ~(<<y, x>> \in R)
  BY <1>2, <1>3, WFMin
<1>5. PICK m \in B : x = 0 .. m
  BY <1>4 DEF T
<1>6. ASSUME NEW n \in B, ~(m <= n) PROVE FALSE
  <2>1. m \in Nat /\ n \in Nat /\ n < m /\ m <= N
    BY <1>6
  <2>2. 0 .. n \in T
    BY DEF T
  <2>3. 0 .. n \subseteq 0 .. m /\ 0 .. m \subseteq 0 .. N
    BY <2>1
  <2>4. m \in 0 .. m /\ m \notin 0 .. n
    BY <2>1
  <2>5. <<0 .. n, 0 .. m>> \in R
    BY <2>3, <2>4 DEF R, StrictSubsetOrdering
  <2>. QED BY <1>4, <1>5, <2>2, <2>5
<1>. QED BY <1>6

\* What holds of 0, and of the next number when it holds of one, holds up to N.
LEMMA UpTo ==
  ASSUME NEW N \in Nat, NEW A, 0 \in A, \A n \in 0 .. N : n \in A /\ n < N => n + 1 \in A
  PROVE  0 .. N \subseteq A
<1> DEFINE B == {n \in 0 .. N : n \notin A}
<1>1. SUFFICES ASSUME B # {} PROVE FALSE
  OBVIOUS
<1>2. PICK m \in B : \A n \in B : m <= n
  <2> HIDE DEF B
  <2>1. B \in SUBSET (0 .. N)
    BY DEF B
  <2>. QED BY <1>1, <2>1, LeastNumber
<1>3. m # 0 /\ m \in 1 .. N
  BY <1>2
<1>4. m - 1 \in 0 .. N /\ m - 1 \notin B
  BY <1>2, <1>3
<1>5. m - 1 \in A
  BY <1>4
<1>. QED BY <1>2, <1>3, <1>4, <1>5

-----------------------------------------------------------------------------
(* The cache and what a run does to its copy.                              *)

\* A cache, or a copy: every session once, and nothing for a session that is
\* not in it.
Caches ==
  {c \in [is : {"none", "torn", "json"}, order : Seq(Sessions), entry : [Slots -> EntryRec]] :
     IsInjective(c.order) /\ \A x \in Slots : c.entry[x] # NewEntry => Contains(c.order, x[1])}

LEMMA NewEntryOK == NewEntry \in EntryRec /\ NewEntry.editCount = 0 /\ NewEntry.findings = {}
  BY HookAssumption DEF NewEntry, EntryRec

LEMMA WithoutFacts ==
  ASSUME NEW order \in Seq(Sessions), IsInjective(order), NEW s
  PROVE  /\ Without(order, s) \in Seq(Sessions) /\ IsInjective(Without(order, s))
         /\ \A u : Contains(Without(order, s), u) <=> u # s /\ Contains(order, u)
<1>1. CASE ~Contains(order, s)
  BY <1>1 DEF Without
<1>2. CASE Contains(order, s)
  <2> DEFINE N == Len(order)
             i == CHOOSE a \in DOMAIN order : order[a] = s
             r == RemoveAt(order, i)
  <2>1. N \in Nat /\ DOMAIN order = 1 .. N
    OBVIOUS
  <2>2. i \in 1 .. N /\ order[i] = s
    BY <1>2, <2>1 DEF Contains
  <2>3. Without(order, s) = r
    BY <1>2 DEF Without
  <2> HIDE DEF i
  <2> DEFINE one == SubSeq(order, 1, i - 1)
             two == SubSeq(order, i + 1, N)
  <2>4. /\ one \in Seq(Sessions) /\ Len(one) = i - 1
        /\ \A a \in 1 .. i - 1 : one[a] = order[a]
    BY <2>1, <2>2
  <2>5. /\ two \in Seq(Sessions) /\ Len(two) = N - i
        /\ \A a \in 1 .. N - i : two[a] = order[i + a]
    <3>1. i + 1 \in Int /\ N \in Int /\ \A a \in i + 1 .. N : order[a] \in Sessions
      BY <2>1, <2>2
    <3>2. /\ two \in Seq(Sessions)
          /\ Len(two) = IF i + 1 <= N THEN N - (i + 1) + 1 ELSE 0
          /\ \A a \in 1 .. N - (i + 1) + 1 : two[a] = order[(i + 1) + a - 1]
      BY <3>1, SubSeqProperties
    <3>0. i \in Int /\ N \in Int /\ i <= N
      BY <2>1, <2>2
    <3> HIDE DEF two, N
    <3>3. Len(two) = N - i
      <4>1. CASE i + 1 <= N
        BY <3>0, <3>2, <4>1
      <4>2. CASE i = N
        <5>1. ~(i + 1 <= N) /\ N - i = 0
          BY <3>0, <4>2
        <5>. QED BY <3>2, <5>1
      <4>3. i + 1 <= N \/ i = N
        BY <3>0
      <4>. QED BY <4>1, <4>2, <4>3
    <3>4. ASSUME NEW a \in 1 .. N - i PROVE two[a] = order[i + a]
      <4>1. a \in 1 .. N - (i + 1) + 1 /\ (i + 1) + a - 1 = i + a
        BY <2>1, <2>2
      <4>2. two[a] = order[(i + 1) + a - 1]
        BY <3>2, <4>1
      <4>. QED BY <4>1, <4>2
    <3>. QED BY <3>2, <3>3, <3>4
  <2>6. /\ r \in Seq(Sessions) /\ Len(r) = N - 1
        /\ \A a \in 1 .. N - 1 : r[a] = IF a < i THEN order[a] ELSE order[a + 1]
    <3>1. r = one \o two
      BY DEF RemoveAt
    <3> HIDE DEF one, two, r
    <3>2. r \in Seq(Sessions) /\ Len(r) = N - 1
      <4>1. r \in Seq(Sessions) /\ Len(r) = Len(one) + Len(two)
        BY <2>4, <2>5, <3>1, ConcatProperties
      <4>. QED BY <2>1, <2>2, <2>4, <2>5, <4>1
    <3>3. \A a \in 1 .. Len(one) + Len(two) : r[a] = IF a <= Len(one) THEN one[a] ELSE two[a - Len(one)]
      BY <2>4, <2>5, <3>1, ConcatProperties
    <3>4. Len(one) + Len(two) = N - 1
      BY <2>1, <2>2, <2>4, <2>5
    <3>5. ASSUME NEW a \in 1 .. N - 1 PROVE r[a] = IF a < i THEN order[a] ELSE order[a + 1]
      <4>0. r[a] = IF a <= Len(one) THEN one[a] ELSE two[a - Len(one)]
        BY <3>3, <3>4
      <4>1. CASE a < i
        <5>1. a \in 1 .. i - 1 /\ a <= Len(one)
          BY <2>1, <2>2, <2>4, <4>1
        <5>. QED BY <2>4, <4>0, <4>1, <5>1
      <4>2. CASE ~(a < i)
        <5>1. /\ ~(a <= Len(one)) /\ a - Len(one) \in 1 .. N - i
              /\ i + (a - Len(one)) = a + 1
          BY <2>1, <2>2, <2>4, <4>2
        <5>. QED BY <2>5, <4>0, <4>2, <5>1
      <4>. QED BY <4>1, <4>2
    <3>. QED BY <3>2, <3>5
  <2> HIDE DEF r
  <2>7. DOMAIN r = 1 .. N - 1
    BY <2>1, <2>6
  <2>8. \A a, b \in 1 .. N : order[a] = order[b] => a = b
    BY <2>1 DEF IsInjective
  <2>9. IsInjective(r)
    BY <2>1, <2>2, <2>6, <2>7, <2>8 DEF IsInjective
  <2>10. ASSUME NEW u PROVE Contains(r, u) <=> u # s /\ Contains(order, u)
    <3>1. ASSUME NEW a \in 1 .. N - 1, r[a] = u PROVE u # s /\ Contains(order, u)
      BY <2>1, <2>2, <2>6, <2>8, <3>1 DEF Contains
    <3>2. ASSUME NEW a \in 1 .. N, order[a] = u, u # s PROVE Contains(r, u)
      <4>1. a # i
        BY <2>2, <3>2
      <4>2. CASE a < i
        <5>1. a \in 1 .. N - 1 /\ r[a] = u
          BY <2>1, <2>2, <2>6, <3>2, <4>2
        <5>. QED BY <2>6, <5>1 DEF Contains
      <4>3. CASE a > i
        <5>1. a - 1 \in 1 .. N - 1 /\ r[a - 1] = u
          BY <2>1, <2>2, <2>6, <3>2, <4>3
        <5>. QED BY <2>6, <5>1 DEF Contains
      <4>. QED BY <2>1, <2>2, <4>1, <4>2, <4>3
    <3>. QED BY <2>1, <2>6, <3>1, <3>2 DEF Contains
  <2>. QED BY <2>3, <2>6, <2>9, <2>10
<1>. QED BY <1>1, <1>2

\* A session comes last, and is there from now on.
LEMMA AppendFacts ==
  ASSUME NEW order \in Seq(Sessions), IsInjective(order), NEW s \in Sessions, ~Contains(order, s)
  PROVE  /\ Append(order, s) \in Seq(Sessions) /\ IsInjective(Append(order, s))
         /\ \A u : Contains(Append(order, s), u) <=> u = s \/ Contains(order, u)
<1> DEFINE r == Append(order, s)
<1>1. /\ r \in Seq(Sessions) /\ Len(r) = Len(order) + 1 /\ Len(order) \in Nat
      /\ \A a \in 1 .. Len(order) : r[a] = order[a]
      /\ r[Len(order) + 1] = s
  OBVIOUS
<1>2. DOMAIN r = 1 .. Len(order) + 1 /\ DOMAIN order = 1 .. Len(order)
  BY <1>1
<1> HIDE DEF r
<1>3. IsInjective(r)
  BY <1>1, <1>2 DEF IsInjective, Contains
<1>4. ASSUME NEW u PROVE Contains(r, u) <=> u = s \/ Contains(order, u)
  BY <1>1 DEF Contains
<1>. QED BY <1>1, <1>3, <1>4 DEF r

LEMMA TouchedFacts ==
  ASSUME NEW c \in Caches, NEW s \in Sessions
  PROVE  /\ Touched(c, s) \in Caches /\ Contains(Touched(c, s).order, s)
         /\ Touched(c, s).entry = c.entry /\ Touched(c, s).is = c.is
<1> DEFINE order == Append(Without(c.order, s), s)
<1>1. c.order \in Seq(Sessions) /\ IsInjective(c.order)
  BY DEF Caches
<1>2. /\ Without(c.order, s) \in Seq(Sessions) /\ IsInjective(Without(c.order, s))
      /\ ~Contains(Without(c.order, s), s)
      /\ \A u : Contains(Without(c.order, s), u) <=> u # s /\ Contains(c.order, u)
  BY <1>1, WithoutFacts
<1>3. /\ order \in Seq(Sessions) /\ IsInjective(order)
      /\ \A u : Contains(order, u) <=> u = s \/ Contains(Without(c.order, s), u)
  BY <1>2, AppendFacts
<1>4. Touched(c, s) = [c EXCEPT !.order = order]
  BY DEF Touched
<1> HIDE DEF order
<1>5. Touched(c, s).order = order /\ Touched(c, s).entry = c.entry /\ Touched(c, s).is = c.is
  BY <1>4 DEF Caches
<1>6. Touched(c, s) \in Caches
  <2>1. Touched(c, s) \in [is : {"none", "torn", "json"}, order : Seq(Sessions), entry : [Slots -> EntryRec]]
    BY <1>3, <1>4 DEF Caches
  <2>2. \A x \in Slots : c.entry[x] # NewEntry => Contains(order, x[1])
    BY <1>2, <1>3 DEF Caches
  <2>. QED BY <1>3, <1>5, <2>1, <2>2 DEF Caches
<1>. QED BY <1>3, <1>5, <1>6

LEMMA EnsuredFacts ==
  ASSUME NEW c \in Caches, NEW s \in Sessions
  PROVE  /\ Ensured(c, s) \in Caches
         /\ Ensured(c, s).entry = c.entry /\ Ensured(c, s).is = c.is
<1>1. CASE Contains(c.order, s)
  BY <1>1 DEF Ensured
<1>2. CASE ~Contains(c.order, s)
  BY <1>2, TouchedFacts DEF Ensured
<1>. QED BY <1>1, <1>2

\* r is c but for the entry x, which is e.
Replaces(r, c, x, e) ==
  /\ r \in Caches /\ r.is = c.is
  /\ r.entry[x] = e /\ \A y \in Slots : y # x => r.entry[y] = c.entry[y]

\* The entry of a session that is in the order may change.
LEMMA EntryReplaced ==
  ASSUME NEW c \in Caches, NEW x \in Slots, Contains(c.order, x[1]), NEW e \in EntryRec
  PROVE  Replaces([c EXCEPT !.entry = [c.entry EXCEPT ![x] = e]], c, x, e)
<1> DEFINE r == [c EXCEPT !.entry = [c.entry EXCEPT ![x] = e]]
<1>1. c.entry \in [Slots -> EntryRec]
  BY DEF Caches
<1>2. r.entry = [c.entry EXCEPT ![x] = e] /\ r.order = c.order /\ r.is = c.is
  BY DEF Caches
<1>3. r \in [is : {"none", "torn", "json"}, order : Seq(Sessions), entry : [Slots -> EntryRec]]
  BY <1>1 DEF Caches
<1> HIDE DEF r
<1>4. r.entry[x] = e /\ \A y \in Slots : y # x => r.entry[y] = c.entry[y]
  BY <1>1, <1>2
<1>5. IsInjective(r.order) /\ \A y \in Slots : r.entry[y] # NewEntry => Contains(r.order, y[1])
  BY <1>2, <1>4 DEF Caches
<1>6. r \in Caches
  BY <1>3, <1>5 DEF Caches
<1>7. Replaces(r, c, x, e)
  BY <1>2, <1>4, <1>6 DEF Replaces
<1>. QED BY <1>7 DEF r

LEMMA SlotOf == ASSUME NEW s \in Sessions, NEW f \in Files
  PROVE <<s, f>> \in Slots /\ <<s, f>>[1] = s /\ <<s, f>>[2] = f
  BY DEF Slots

LEMMA BumpedFacts ==
  ASSUME NEW c \in Caches, NEW s \in Sessions, NEW f \in Files
  PROVE  LET was == c.entry[<<s, f>>]
         IN  Replaces(Bumped(c, s, f), c, <<s, f>>, [was EXCEPT !.editCount = was.editCount + 1])
<1> DEFINE x == <<s, f>>
           q == Touched(c, s)
           e == [c.entry[x] EXCEPT !.editCount = c.entry[x].editCount + 1]
<1>1. x \in Slots /\ x[1] = s
  BY SlotOf
<1>2. q \in Caches /\ Contains(q.order, s) /\ q.entry = c.entry /\ q.is = c.is
  BY TouchedFacts
<1>3. e \in EntryRec
  <2>1. c.entry[x] \in EntryRec
    BY <1>1 DEF Caches
  <2>. QED BY <2>1 DEF EntryRec
<1>4. Bumped(c, s, f) = [q EXCEPT !.entry = [q.entry EXCEPT ![x] =
                             [q.entry[x] EXCEPT !.editCount = q.entry[x].editCount + 1]]]
  BY DEF Bumped
<1> HIDE DEF q, x
<1>5. Bumped(c, s, f) = [q EXCEPT !.entry = [q.entry EXCEPT ![x] = e]]
  BY <1>2, <1>4
<1> HIDE DEF e
<1>6. Contains(q.order, x[1])
  BY <1>1, <1>2
<1>7. Replaces(Bumped(c, s, f), q, x, e)
  BY <1>1, <1>2, <1>3, <1>5, <1>6, EntryReplaced
<1>. QED BY <1>2, <1>7 DEF Replaces, e, x

LEMMA RememberedFacts ==
  ASSUME NEW c \in Caches, NEW s \in Sessions, NEW f \in Files, NEW found \in SUBSET Rules
  PROVE  LET was == c.entry[<<s, f>>]
         IN  Replaces(Remembered(c, s, f, found), c, <<s, f>>, [was EXCEPT !.findings = was.findings \cup found])
<1> DEFINE x == <<s, f>>
           q == Touched(c, s)
           e == [c.entry[x] EXCEPT !.findings = c.entry[x].findings \cup found]
           r == Remembered(c, s, f, found)
<1>1. x \in Slots /\ x[1] = s
  BY SlotOf
<1>2. q \in Caches /\ Contains(q.order, s) /\ q.entry = c.entry /\ q.is = c.is
  BY TouchedFacts
<1>3. e \in EntryRec
  <2>1. c.entry[x] \in EntryRec
    BY <1>1 DEF Caches
  <2>. QED BY <2>1 DEF EntryRec
<1>4. r = [q EXCEPT !.entry = [q.entry EXCEPT ![x] =
             [q.entry[x] EXCEPT !.findings = q.entry[x].findings \cup found]]]
  BY DEF Remembered
<1> HIDE DEF q, x, r
<1>5. r = [q EXCEPT !.entry = [q.entry EXCEPT ![x] = e]]
  BY <1>2, <1>4
<1> HIDE DEF e
<1>6. Contains(q.order, x[1])
  BY <1>1, <1>2
<1>7. Replaces(r, q, x, e)
  BY <1>1, <1>2, <1>3, <1>5, <1>6, EntryReplaced
<1>. QED BY <1>2, <1>7 DEF Replaces, e, x, r

LEMMA CappedFacts == ASSUME NEW n \in 0 .. Threshold + 1
  PROVE Capped(n + 1) \in 0 .. Threshold + 1
  BY HookAssumption DEF Capped

LEMMA DenialBumpedFacts ==
  ASSUME NEW c \in Caches, NEW s \in Sessions, NEW f \in Files, NEW sig \in Signatures
  PROVE  LET was == c.entry[<<s, f>>]
         IN  Replaces(DenialBumped(c, s, f, sig), c, <<s, f>>,
                      [was EXCEPT !.denials = [was.denials EXCEPT ![sig] = Capped(was.denials[sig] + 1)]])
<1> DEFINE x == <<s, f>>
           q == Touched(c, s)
           d == [c.entry[x].denials EXCEPT ![sig] = Capped(c.entry[x].denials[sig] + 1)]
           e == [c.entry[x] EXCEPT !.denials = d]
           r == DenialBumped(c, s, f, sig)
<1>1. x \in Slots /\ x[1] = s
  BY SlotOf
<1>2. q \in Caches /\ Contains(q.order, s) /\ q.entry = c.entry /\ q.is = c.is
  BY TouchedFacts
<1>3. e \in EntryRec
  <2>1. c.entry[x] \in EntryRec
    BY <1>1 DEF Caches
  <2>2. c.entry[x].denials \in [Signatures -> 0 .. Threshold + 1]
    BY <2>1 DEF EntryRec
  <2>3. d \in [Signatures -> 0 .. Threshold + 1]
    BY <2>2, CappedFacts
  <2> HIDE DEF d
  <2>. QED BY <2>1, <2>3 DEF EntryRec
<1>4. r = [q EXCEPT !.entry = [q.entry EXCEPT ![x] = [q.entry[x] EXCEPT !.denials =
             [q.entry[x].denials EXCEPT ![sig] = Capped(q.entry[x].denials[sig] + 1)]]]]
  BY DEF DenialBumped
<1> HIDE DEF q, x, r
<1>5. r = [q EXCEPT !.entry = [q.entry EXCEPT ![x] = e]]
  BY <1>2, <1>4
<1> HIDE DEF e
<1>6. Contains(q.order, x[1])
  BY <1>1, <1>2
<1>7. Replaces(r, q, x, e)
  BY <1>1, <1>2, <1>3, <1>5, <1>6, EntryReplaced
<1>. QED BY <1>2, <1>7 DEF Replaces, e, x, r

\* What is written: the last sessions, with what the copy has for them.
LEMMA KeptFacts ==
  ASSUME NEW c \in Caches
  PROVE  /\ Kept(c) \in Caches /\ Kept(c).is = c.is
         /\ Len(Kept(c).order) <= MaxSessions
         /\ \A x \in Slots : Kept(c).entry[x] = c.entry[x] \/ Kept(c).entry[x] = NewEntry
<1>1. /\ c.order \in Seq(Sessions) /\ Len(c.order) \in Nat /\ MaxSessions \in Nat
      /\ IsInjective(c.order) /\ DOMAIN c.order = 1 .. Len(c.order)
  BY HookAssumption DEF Caches
<1>2. CASE Len(c.order) <= MaxSessions
  BY <1>2 DEF Kept
<1>3. CASE ~(Len(c.order) <= MaxSessions)
  <2> DEFINE order == LastSessions(c.order)
             entry == [x \in Slots |-> IF Contains(order, x[1]) THEN c.entry[x] ELSE NewEntry]
             m == Len(c.order) - MaxSessions + 1
             N == Len(c.order)
  <2>1. Kept(c) = [c EXCEPT !.order = order, !.entry = entry]
    BY <1>3 DEF Kept
  <2>2. m \in Int /\ N \in Int /\ m <= N + 1 /\ N - m + 1 = MaxSessions /\ m \in 1 .. N + 1
    BY <1>1, <1>3
  <2>3. \A a \in m .. N : c.order[a] \in Sessions
    BY <1>1, <2>2
  <2>4. order = SubSeq(c.order, m, N)
    BY DEF LastSessions
  <2> HIDE DEF m, N
  <2>5. /\ order \in Seq(Sessions) /\ Len(order) = (IF m <= N THEN N - m + 1 ELSE 0)
        /\ \A a \in 1 .. N - m + 1 : order[a] = c.order[m + a - 1]
    BY <2>2, <2>3, <2>4, SubSeqProperties
  <2> HIDE DEF order
  <2>6. Len(order) \in Nat /\ DOMAIN order = 1 .. Len(order) /\ Len(order) <= MaxSessions
    BY <1>1, <2>2, <2>5
  <2>7. IsInjective(order)
    <3>1. ASSUME NEW a \in DOMAIN order, NEW b \in DOMAIN order, order[a] = order[b] PROVE a = b
      <4>1. a \in 1 .. N - m + 1 /\ b \in 1 .. N - m + 1
        BY <1>1, <2>2, <2>6
      <4>2. c.order[m + a - 1] = c.order[m + b - 1]
        BY <2>5, <3>1, <4>1
      <4>3. m + a - 1 \in DOMAIN c.order /\ m + b - 1 \in DOMAIN c.order
        BY <1>1, <2>2, <4>1 DEF N
      <4>4. m + a - 1 = m + b - 1
        BY <1>1, <4>2, <4>3 DEF IsInjective
      <4>. QED BY <2>2, <4>1, <4>4
    <3>. QED BY <3>1 DEF IsInjective
  <2>8. entry \in [Slots -> EntryRec] /\ \A x \in Slots : entry[x] = IF Contains(order, x[1]) THEN c.entry[x] ELSE NewEntry
    BY NewEntryOK DEF Caches
  <2> HIDE DEF entry
  <2>9. Kept(c).order = order /\ Kept(c).entry = entry /\ Kept(c).is = c.is
        /\ Kept(c) \in [is : {"none", "torn", "json"}, order : Seq(Sessions), entry : [Slots -> EntryRec]]
    BY <2>1, <2>5, <2>8 DEF Caches
  <2>. QED BY <2>6, <2>7, <2>8, <2>9 DEF Caches
<1>. QED BY <1>2, <1>3

LEMMA NoCacheOK ==
  /\ NoCache \in Caches /\ TornCache \in Caches
  /\ \A x \in Slots : NoCache.entry[x] = NewEntry /\ TornCache.entry[x] = NewEntry
  /\ Len(NoCache.order) = 0 /\ Len(TornCache.order) = 0
  /\ NoCache.is = "none" /\ TornCache.is = "torn"
<1>1. <<>> \in Seq(Sessions) /\ IsInjective(<<>>) /\ Len(<<>>) = 0
  BY DEF IsInjective
<1>2. [x \in Slots |-> NewEntry] \in [Slots -> EntryRec]
  BY NewEntryOK
<1>. QED BY <1>1, <1>2 DEF Caches, NoCache, TornCache

LEMMA ReadFacts ==
  ASSUME cache \in Caches
  PROVE  /\ ReadCache \in Caches /\ ReadCache.is = "json"
         /\ \A x \in Slots : ReadCache.entry[x] = cache.entry[x] \/ ReadCache.entry[x] = NewEntry
<1>1. CASE cache.is = "json"
  BY <1>1 DEF ReadCache
<1>2. CASE cache.is # "json"
  <2> DEFINE r == [NoCache EXCEPT !.is = "json"]
  <2>1. r \in Caches /\ r.is = "json" /\ r.entry = NoCache.entry
    BY NoCacheOK DEF Caches
  <2>. QED BY <1>2, <2>1, NoCacheOK DEF ReadCache
<1>. QED BY <1>1, <1>2

-----------------------------------------------------------------------------
(* The loop over the files.                                                *)

LookRec == [cache : Caches, fresh : SUBSET (Files \X Rules), crossed : SUBSET Files,
            pending : SUBSET Files, clean : SUBSET Files, threw : BOOLEAN]

\* What the copy has for x, compared with what was read: no edit is counted but
\* those of the files in `done`, once each; no count passes the threshold but
\* in `crossed`, and nothing is remembered but what is in `fresh`.
SlotOK(l, s, done, x) ==
  LET new == l.cache.entry[x]
      old == ReadCache.entry[x]
  IN  /\ new.denials = old.denials
      /\ new.editCount <= old.editCount + (IF x[1] = s /\ x[2] \in done THEN 1 ELSE 0)
      /\ new.editCount > Threshold => old.editCount > Threshold \/ (x[1] = s /\ x[2] \in l.crossed)
      /\ \A r \in new.findings : r \in old.findings \/ (x[1] = s /\ <<x[2], r>> \in l.fresh)

ScanOK(l, s, done) ==
  /\ l \in LookRec /\ l.cache.is = "json"
  /\ \A x \in Slots : SlotOK(l, s, done, x)

LEMMA EntryFacts ==
  ASSUME NEW c \in Caches, NEW x \in Slots
  PROVE  /\ c.entry[x] \in EntryRec /\ c.entry[x].editCount \in Nat /\ c.entry[x].findings \in SUBSET Rules
         /\ c.entry[x].denials \in [Signatures -> 0 .. Threshold + 1]
<1>1. c.entry[x] \in EntryRec
  BY DEF Caches
<1>. QED BY <1>1 DEF EntryRec

LEMMA CountedFacts ==
  ASSUME NEW l \in LookRec, NEW s \in Sessions, NEW f \in Files, NEW t, l.cache.is = "json"
  PROVE  LET c == Counted(l, s, t, f)
             x == <<s, f>>
         IN  /\ c \in Caches /\ c.is = "json"
             /\ \A y \in Slots : y # x => c.entry[y] = l.cache.entry[y]
             /\ c.entry[x].editCount = l.cache.entry[x].editCount + (IF f \in t.primary THEN 1 ELSE 0)
             /\ c.entry[x].denials = l.cache.entry[x].denials
             /\ c.entry[x].findings = l.cache.entry[x].findings
<1> DEFINE x == <<s, f>>
<1>1. l.cache \in Caches /\ x \in Slots
  BY SlotOf DEF LookRec
<1>2. l.cache.entry[x] \in EntryRec /\ l.cache.entry[x].editCount \in Nat
  BY <1>1, EntryFacts
<1>3. CASE f \in t.primary
  <2> DEFINE was == l.cache.entry[x]
             e == [was EXCEPT !.editCount = was.editCount + 1]
             c == Bumped(l.cache, s, f)
  <2>1. Replaces(c, l.cache, x, e)
    BY <1>1, BumpedFacts
  <2>2. e.editCount = was.editCount + 1 /\ e.denials = was.denials /\ e.findings = was.findings
    BY <1>2 DEF EntryRec
  <2>3. Counted(l, s, t, f) = c
    BY <1>3 DEF Counted
  <2> HIDE DEF c, e, was
  <2>4. c \in Caches /\ c.is = l.cache.is /\ c.entry[x] = e /\ \A y \in Slots : y # x => c.entry[y] = l.cache.entry[y]
    BY <2>1 DEF Replaces
  <2>. QED BY <1>3, <2>2, <2>3, <2>4 DEF was
<1>4. CASE f \notin t.primary
  BY <1>1, <1>2, <1>4 DEF Counted
<1>. QED BY <1>3, <1>4

\* q is c, but that x has new findings.
Learns(q, c, x, new) ==
  /\ q \in Caches /\ q.is = "json"
  /\ \A y \in Slots : y # x => q.entry[y] = c.entry[y]
  /\ q.entry[x].editCount = c.entry[x].editCount
  /\ q.entry[x].denials = c.entry[x].denials
  /\ q.entry[x].findings = c.entry[x].findings \cup new

\* The copy after one more file.
LEMMA LookCache ==
  ASSUME NEW c \in Caches, NEW s \in Sessions, NEW f \in Files,
         NEW filtered, NEW new \in SUBSET Rules, c.is = "json"
  PROVE  Learns(IF new # {} THEN Remembered(c, s, f, new)
                ELSE IF filtered # {} THEN Ensured(c, s) ELSE c, c, <<s, f>>, new)
<1> DEFINE x == <<s, f>>
<1>1. x \in Slots
  BY SlotOf
<1>2. c.entry[x] \in EntryRec
  BY <1>1, EntryFacts
<1>3. CASE new # {}
  <2> DEFINE was == c.entry[x]
             e == [was EXCEPT !.findings = was.findings \cup new]
             q == Remembered(c, s, f, new)
  <2>1. Replaces(q, c, x, e)
    BY RememberedFacts
  <2>2. e.editCount = was.editCount /\ e.denials = was.denials /\ e.findings = was.findings \cup new
    BY <1>2 DEF EntryRec
  <2> HIDE DEF q, e, was
  <2>3. q \in Caches /\ q.is = c.is /\ q.entry[x] = e /\ \A y \in Slots : y # x => q.entry[y] = c.entry[y]
    BY <2>1 DEF Replaces
  <2>. QED BY <1>3, <2>2, <2>3 DEF was, q, Learns
<1>4. CASE new = {}
  <2>1. Ensured(c, s) \in Caches /\ Ensured(c, s).entry = c.entry /\ Ensured(c, s).is = c.is
    BY EnsuredFacts
  <2>. QED BY <1>4, <2>1 DEF Learns
<1>. QED BY <1>3, <1>4

LEMMA LookStep ==
  ASSUME cache \in Caches, NEW s \in Sessions, NEW f \in Files, NEW t, NEW done, f \notin done,
         NEW found \in (SUBSET Rules) \cup {Threw}, NEW l, ScanOK(l, s, done)
  PROVE  ScanOK(Look(l, s, t, f, found), s, done \cup ({f} \cap t.primary))
<1> DEFINE x == <<s, f>>
           cnt == Counted(l, s, t, f)
           n == cnt.entry[x].editCount
           filtered == found \ (Ignored \cup Threw)
           new == filtered \ cnt.entry[x].findings
           after == done \cup ({f} \cap t.primary)
           r == Look(l, s, t, f, found)
<1>1. /\ l \in LookRec /\ l.cache \in Caches /\ l.cache.is = "json" /\ x \in Slots
      /\ x[1] = s /\ x[2] = f /\ \A y \in Slots : SlotOK(l, s, done, y)
  BY SlotOf DEF ScanOK, LookRec
<1>2. /\ cnt \in Caches /\ cnt.is = "json"
      /\ \A y \in Slots : y # x => cnt.entry[y] = l.cache.entry[y]
      /\ cnt.entry[x].editCount = l.cache.entry[x].editCount + (IF f \in t.primary THEN 1 ELSE 0)
      /\ cnt.entry[x].denials = l.cache.entry[x].denials
      /\ cnt.entry[x].findings = l.cache.entry[x].findings
  BY <1>1, CountedFacts
<1>3. filtered \in SUBSET Rules /\ new \in SUBSET Rules
  <2>1. found \subseteq Rules \cup Threw
    OBVIOUS
  <2>. QED BY <2>1
<1>4. ReadCache \in Caches
  BY ReadFacts
<1>5. /\ ReadCache.entry[x].editCount \in Nat /\ l.cache.entry[x].editCount \in Nat /\ Threshold \in Nat
  BY <1>1, <1>4, EntryFacts, HookAssumption
<1>7. CASE f \in Ignored
  <2>1. r = l
    BY <1>7 DEF Look
  <2>2. ASSUME NEW y \in Slots PROVE SlotOK(l, s, after, y)
    <3>1. SlotOK(l, s, done, y)
      BY <1>1
    <3>2. l.cache.entry[y].editCount \in Nat /\ ReadCache.entry[y].editCount \in Nat
      BY <1>1, <1>4, EntryFacts
    <3>. QED BY <3>1, <3>2 DEF SlotOK
  <2>. QED BY <1>1, <2>1, <2>2 DEF ScanOK
<1>8. CASE f \notin Ignored /\ f \in t.primary /\ n > Threshold
  <2> DEFINE crossed == IF JustCrossed(n) THEN l.crossed \cup {f} ELSE l.crossed
  <2>1. r = [l EXCEPT !.cache = cnt, !.crossed = crossed]
    BY <1>8 DEF Look
  <2>2. crossed \in SUBSET Files /\ l.crossed \subseteq crossed /\ (n = Threshold + 1 => f \in crossed)
    BY <1>1 DEF LookRec, JustCrossed
  <2> HIDE DEF cnt, crossed, r
  <2>3. r \in LookRec /\ r.cache = cnt /\ r.crossed = crossed /\ r.fresh = l.fresh
    BY <1>1, <1>2, <2>1, <2>2 DEF LookRec
  <2>4. ASSUME NEW y \in Slots, y # x PROVE SlotOK(r, s, after, y)
    <3>1. SlotOK(l, s, done, y) /\ r.cache.entry[y] = l.cache.entry[y]
      BY <1>1, <1>2, <2>3, <2>4
    <3>2. y[2] \in done => y[2] \in after
      OBVIOUS
    <3>3. l.cache.entry[y].editCount \in Nat /\ ReadCache.entry[y].editCount \in Nat
      BY <1>1, <1>4, EntryFacts
    <3> HIDE DEF after
    <3>. QED BY <2>2, <2>3, <3>1, <3>2, <3>3 DEF SlotOK
  <2>5. SlotOK(r, s, after, x)
    <3>1. SlotOK(l, s, done, x)
      BY <1>1
    <3>2. n = l.cache.entry[x].editCount + 1 /\ f \in after
      BY <1>2, <1>8
    <3>3. n > Threshold => n = Threshold + 1 \/ l.cache.entry[x].editCount > Threshold
      BY <1>5, <3>2
    <3> HIDE DEF after
    <3>. QED BY <1>1, <1>2, <1>5, <2>2, <2>3, <3>1, <3>2, <3>3 DEF SlotOK, n
  <2>. QED BY <1>2, <2>3, <2>4, <2>5 DEF ScanOK, r
<1>9. CASE f \notin Ignored /\ ~(f \in t.primary /\ n > Threshold)
  <2> DEFINE q == IF new # {} THEN Remembered(cnt, s, f, new)
                  ELSE IF filtered # {} THEN Ensured(cnt, s) ELSE cnt
             fresh == l.fresh \cup ({f} \X new)
             threw == l.threw \/ found = Threw
             pending == IF new = {} /\ filtered # {} THEN First(l.pending, f) ELSE l.pending
             clean == IF filtered = {} /\ found # Threw THEN First(l.clean, f) ELSE l.clean
  <2>1. r = [l EXCEPT !.cache = q, !.fresh = fresh, !.threw = threw, !.pending = pending, !.clean = clean]
    BY <1>9 DEF Look
  <2>2. /\ q \in Caches /\ q.is = "json"
        /\ \A y \in Slots : y # x => q.entry[y] = cnt.entry[y]
        /\ q.entry[x].editCount = cnt.entry[x].editCount
        /\ q.entry[x].denials = cnt.entry[x].denials
        /\ q.entry[x].findings = cnt.entry[x].findings \cup new
    <3>1. cnt \in Caches /\ cnt.is = "json"
      BY <1>2
    <3> HIDE DEF cnt, filtered, new
    <3>2. Learns(q, cnt, x, new)
      BY <1>3, <3>1, LookCache
    <3> HIDE DEF q, x
    <3>. QED BY <3>2 DEF Learns
  <2>3. /\ fresh \in SUBSET (Files \X Rules) /\ threw \in BOOLEAN
        /\ pending \in SUBSET Files /\ clean \in SUBSET Files
    <3> HIDE DEF cnt, filtered, new
    <3>1. l.fresh \in SUBSET (Files \X Rules) /\ l.threw \in BOOLEAN /\ l.pending \in SUBSET Files
          /\ l.clean \in SUBSET Files
      BY <1>1 DEF LookRec
    <3>2. {f} \X new \in SUBSET (Files \X Rules)
      BY <1>3
    <3>. QED BY <3>1, <3>2 DEF First
  <2>4. \A y \in new : <<f, y>> \in fresh
    OBVIOUS
  <2>5. l.fresh \subseteq fresh
    OBVIOUS
  <2> HIDE DEF cnt, filtered, new, q, fresh, threw, pending, clean, r
  <2>6. r \in LookRec /\ r.cache = q /\ r.crossed = l.crossed /\ r.fresh = fresh
    BY <1>1, <2>1, <2>2, <2>3 DEF LookRec
  <2>7. ASSUME NEW y \in Slots, y # x PROVE SlotOK(r, s, after, y)
    <3>1. SlotOK(l, s, done, y) /\ r.cache.entry[y] = l.cache.entry[y]
      BY <1>1, <1>2, <2>2, <2>6, <2>7
    <3>2. y[2] \in done => y[2] \in after
      OBVIOUS
    <3>3. l.cache.entry[y].editCount \in Nat /\ ReadCache.entry[y].editCount \in Nat
      BY <1>1, <1>4, EntryFacts
    <3> HIDE DEF after
    <3>. QED BY <2>5, <2>6, <3>1, <3>2, <3>3 DEF SlotOK
  <2>8. SlotOK(r, s, after, x)
    <3>1. SlotOK(l, s, done, x)
      BY <1>1
    <3>2. q.entry[x].editCount = l.cache.entry[x].editCount + (IF f \in t.primary THEN 1 ELSE 0)
      BY <1>2, <2>2
    <3>3. f \in after <=> f \in t.primary
      OBVIOUS
    <3>4. q.entry[x].editCount > Threshold => f \notin t.primary
      BY <1>9, <2>2 DEF n
    <3>5. \A y \in q.entry[x].findings : y \in l.cache.entry[x].findings \/ <<f, y>> \in fresh
      BY <1>2, <2>2, <2>4
    <3> HIDE DEF after
    <3>. QED BY <1>1, <1>2, <1>5, <2>2, <2>5, <2>6, <3>1, <3>2, <3>3, <3>4, <3>5 DEF SlotOK
  <2>. QED BY <2>2, <2>6, <2>7, <2>8 DEF ScanOK, r
<1>. QED BY <1>7, <1>8, <1>9

LEMMA LookedOK == ASSUME cache \in Caches, NEW s PROVE ScanOK(Looked, s, {})
<1>1. ReadCache \in Caches /\ ReadCache.is = "json"
  BY ReadFacts
<1>2. Looked \in LookRec /\ Looked.cache = ReadCache
  BY <1>1 DEF Looked, LookRec
<1>3. ASSUME NEW x \in Slots PROVE SlotOK(Looked, s, {}, x)
  <2>1. ReadCache.entry[x].editCount \in Nat
    BY <1>1, EntryFacts
  <2>. QED BY <1>2, <2>1 DEF SlotOK
<1>. QED BY <1>1, <1>2, <1>3 DEF ScanOK

\* Every prefix of the list of files can be looked at, one file after another.
LEMMA ScanDefined ==
  ASSUME NEW s, NEW t, NEW found, Len(t.scan) \in Nat
  PROVE  \E look :
           /\ look = [n \in 0 .. Len(t.scan) |->
                        IF n = 0 THEN Looked
                        ELSE Look(look[n - 1], s, t, t.scan[n], found[t.scan[n]])]
           /\ Scanned(s, t, found) = look[Len(t.scan)]
<1> DEFINE N == Len(t.scan)
           Next1(l, n) == Look(l, s, t, t.scan[n], found[t.scan[n]])
           Is(g, n) == g = [i \in 0 .. n |-> IF i = 0 THEN Looked ELSE Next1(g[i - 1], i)]
           A == {n \in 0 .. N : \E g : Is(g, n)}
<1> HIDE DEF Next1
<1>1. 0 \in A
  <2> DEFINE g == [i \in 0 .. 0 |-> Looked]
  <2>1. \A i \in 0 .. 0 : i = 0
    OBVIOUS
  <2>2. Is(g, 0)
    BY <2>1
  <2>3. 0 \in 0 .. N
    OBVIOUS
  <2> HIDE DEF g
  <2>. QED BY <2>2, <2>3
<1>2. ASSUME NEW n \in 0 .. N, n \in A, n < N PROVE n + 1 \in A
  <2>1. PICK g : Is(g, n)
    BY <1>2
  <2> DEFINE h == [i \in 0 .. n + 1 |-> IF i = 0 THEN Looked ELSE Next1(g[i - 1], i)]
  <2>2. \A i \in 0 .. n : h[i] = g[i]
    <3>1. ASSUME NEW i \in 0 .. n PROVE h[i] = g[i]
      <4>1. i \in 0 .. n + 1
        OBVIOUS
      <4>2. h[i] = IF i = 0 THEN Looked ELSE Next1(g[i - 1], i)
        BY <4>1
      <4>3. g[i] = IF i = 0 THEN Looked ELSE Next1(g[i - 1], i)
        BY <2>1
      <4>. QED BY <4>2, <4>3
    <3>. QED BY <3>1
  <2>3. \A i \in 0 .. n + 1 : i # 0 => i - 1 \in 0 .. n
    OBVIOUS
  <2>4. \A i \in 0 .. n + 1 : h[i] = IF i = 0 THEN Looked ELSE Next1(h[i - 1], i)
    BY <2>2, <2>3
  <2>5. h = [i \in 0 .. n + 1 |-> h[i]]
    OBVIOUS
  <2> HIDE DEF h
  <2>6. Is(h, n + 1)
    BY <2>4, <2>5
  <2>7. n + 1 \in 0 .. N
    BY <1>2
  <2>. QED BY <2>6, <2>7
<1>3. 0 .. N \subseteq A
  <2> HIDE DEF A
  <2>. QED BY <1>1, <1>2, UpTo
<1>4. PICK g : Is(g, N)
  <2>1. N \in A
    BY <1>3
  <2>. QED BY <2>1
<1> DEFINE look == CHOOSE look : look = [n \in 0 .. Len(t.scan) |->
             IF n = 0 THEN Looked ELSE Look(look[n - 1], s, t, t.scan[n], found[t.scan[n]])]
<1>5. look = [n \in 0 .. Len(t.scan) |->
                IF n = 0 THEN Looked ELSE Look(look[n - 1], s, t, t.scan[n], found[t.scan[n]])]
  BY <1>4, Zenon DEF Next1
<1>6. Scanned(s, t, found) = look[Len(t.scan)]
  BY DEF Scanned
<1> HIDE DEF look
<1>. QED BY <1>5, <1>6

\* What the loop comes to, whatever the detector finds.
LEMMA ScannedOK ==
  ASSUME cache \in Caches, NEW s \in Sessions, NEW t, t.scan \in Seq(Files), IsInjective(t.scan),
         NEW found \in [Range(t.scan) -> (SUBSET Rules) \cup {Threw}]
  PROVE  ScanOK(Scanned(s, t, found), s, t.primary)
<1> DEFINE N == Len(t.scan)
           Done(n) == {t.scan[i] : i \in 1 .. n} \cap t.primary
<1>1. N \in Nat /\ DOMAIN t.scan = 1 .. N /\ \A i \in 1 .. N : t.scan[i] \in Files /\ t.scan[i] \in Range(t.scan)
  BY DEF Range
<1>2. PICK look :
        /\ look = [n \in 0 .. N |-> IF n = 0 THEN Looked
                                    ELSE Look(look[n - 1], s, t, t.scan[n], found[t.scan[n]])]
        /\ Scanned(s, t, found) = look[N]
  BY <1>1, ScanDefined
<1> DEFINE A == {n \in 0 .. N : ScanOK(look[n], s, Done(n))}
<1>3. 0 \in A
  <2>1. look[0] = Looked
    BY <1>1, <1>2
  <2>2. Done(0) = {} /\ 0 \in 0 .. N
    BY <1>1
  <2> HIDE DEF Done
  <2>3. ScanOK(look[0], s, Done(0))
    BY <2>1, <2>2, LookedOK
  <2>. QED BY <2>2, <2>3
<1>4. ASSUME NEW n \in 0 .. N, n \in A, n < N PROVE n + 1 \in A
  <2> DEFINE f == t.scan[n + 1]
  <2>1. n + 1 \in 1 .. N /\ n + 1 \in 0 .. N /\ n + 1 # 0 /\ (n + 1) - 1 = n
    BY <1>1, <1>4
  <2>2. look[n + 1] = Look(look[n], s, t, f, found[f])
    BY <1>2, <2>1
  <2>3. f \in Files /\ found[f] \in (SUBSET Rules) \cup {Threw}
    BY <1>1, <2>1
  <2>4. f \notin {t.scan[i] : i \in 1 .. n}
    <3>1. ASSUME NEW i \in 1 .. n, t.scan[i] = f PROVE FALSE
      <4>1. i \in 1 .. N
        BY <1>1
      <4>2. i = n + 1
        BY <1>1, <2>1, <3>1, <4>1 DEF IsInjective
      <4>. QED BY <1>1, <4>2
    <3>. QED BY <3>1
  <2>5. {t.scan[i] : i \in 1 .. n + 1} = {t.scan[i] : i \in 1 .. n} \cup {f}
    <3>1. \A i \in 1 .. n + 1 : i \in 1 .. n \/ i = n + 1
      BY <1>1
    <3>2. \A i \in 1 .. n : i \in 1 .. n + 1
      BY <1>1
    <3>3. n + 1 \in 1 .. n + 1
      BY <1>1
    <3>. QED BY <3>1, <3>2, <3>3
  <2>6. Done(n + 1) = Done(n) \cup ({f} \cap t.primary) /\ f \notin Done(n)
    BY <2>4, <2>5
  <2>7. ScanOK(look[n], s, Done(n))
    BY <1>4
  <2> HIDE DEF Done, f
  <2>8. ScanOK(look[n + 1], s, Done(n + 1))
    BY <2>2, <2>3, <2>6, <2>7, LookStep
  <2>. QED BY <2>1, <2>8
<1>5. N \in A
  <2> HIDE DEF A
  <2>1. 0 .. N \subseteq A
    BY <1>1, <1>3, <1>4, UpTo
  <2>. QED BY <1>1, <2>1
<1>6. ScanOK(look[N], s, Done(N)) /\ Done(N) \subseteq t.primary
  BY <1>5
<1> HIDE DEF Done
<1>7. ASSUME NEW x \in Slots PROVE SlotOK(look[N], s, t.primary, x)
  <2>1. SlotOK(look[N], s, Done(N), x) /\ look[N].cache \in Caches
    BY <1>6 DEF ScanOK, LookRec
  <2>2. look[N].cache.entry[x].editCount \in Nat /\ ReadCache.entry[x].editCount \in Nat
    BY <2>1, ReadFacts, EntryFacts
  <2>. QED BY <1>6, <2>1, <2>2 DEF SlotOK
<1>. QED BY <1>2, <1>6, <1>7 DEF ScanOK

-----------------------------------------------------------------------------
(* What is told, counted and hidden.  The cache, and every copy that may yet  *)
(* be written, must stand by what the three properties say of it: a copy with *)
(* the help of what its own run is about to say.                              *)

Saves(p) == proc[p].pc \in {"open", "write", "mixed"}

CopyOK(p) ==
  LET r == proc[p]
  IN  /\ ~r.spans /\ ~revived => Honest(r.cache)
      /\ \A s \in Sessions, f \in Files : \A x \in r.cache.entry[<<s, f>>].findings :
           Told(s, f, x) \/ (r.s = s /\ <<f, x>> \in r.fresh)
      /\ \A x \in Slots : r.cache.entry[x].editCount > Threshold =>
           Announced(x) \/ (r.s = x[1] /\ x[2] \in r.crossed)

\* A run says what it has found, and that a file is hidden if it has the chance.
SaysOK(r) ==
  /\ r.fresh # {} => r.says = "fresh"
  /\ r.crossed # {} => r.says = "suppression" \/ r.excused

RunOK(p) ==
  LET r == proc[p]
  IN  /\ r \in RunRec /\ r.cache \in Caches /\ SaysOK(r)
      /\ r.saved => r.pc = "answer"
      /\ p \in Gates => r.fresh = {} /\ r.crossed = {}
      /\ p \in Gates /\ r.pc # "idle" => r.s \in Sessions /\ r.f \in Files /\ r.sig \in Signatures
      /\ p \in Hooks /\ r.pc # "idle" => r.s \in Sessions
      /\ Saves(p) => CopyOK(p)

\* Everything but the cache and the runs.
RestOK ==
  /\ ConfigTypeOK
  /\ write \in [Gates -> [is : {"none", "asking", "landed"}, s : Sessions \cup {Nobody},
                          f : Files \cup {"-"}, sig : SUBSET Rules]]
  /\ made \in [Slots -> EntryRec]
  /\ heard \in [Sessions -> SUBSET (Files \X Rules)] /\ noticed \subseteq Slots
  /\ revived \in BOOLEAN

CacheInv ==
  /\ cache \in Caches /\ Len(cache.order) <= MaxSessions
  /\ NothingSwallowed /\ CountsHonest /\ SuppressionAnnounced

HookInv ==
  /\ RestOK /\ CacheInv
  /\ DOMAIN proc = Procs /\ proc = [p \in Procs |-> proc[p]]
  /\ \A p \in Procs : RunOK(p)

\* Counts of what there was only grow.
Grows ==
  /\ \A x \in Slots : /\ made[x].editCount <= made'[x].editCount
                      /\ \A sig \in Signatures : made[x].denials[sig] <= made'[x].denials[sig]
  /\ revived => revived'

\* A run that has saved goes on being about to say what it found, or says it.
TellsOn ==
  /\ \A s \in Sessions : heard[s] \subseteq heard'[s]
  /\ noticed \subseteq noticed'
  /\ \A h \in Hooks : proc[h].saved =>
       \/ /\ proc'[h].saved /\ proc'[h].s = proc[h].s
          /\ proc'[h].fresh = proc[h].fresh /\ proc'[h].crossed = proc[h].crossed
       \/ /\ proc[h].fresh \subseteq heard'[proc[h].s]
          /\ {proc[h].s} \X proc[h].crossed \subseteq noticed'

LEMMA ToldOn ==
  ASSUME TellsOn, NEW s \in Sessions, NEW f \in Files, NEW x, Told(s, f, x)
  PROVE  Told(s, f, x)'
  BY DEF TellsOn, Told

LEMMA AnnouncedOn ==
  ASSUME TellsOn, NEW x \in Slots, Announced(x)
  PROVE  Announced(x)'
<1>1. CASE x \in noticed
  BY <1>1 DEF TellsOn, Announced
<1>2. CASE \E h \in Hooks : proc[h].s = x[1] /\ proc[h].saved /\ x[2] \in proc[h].crossed
  <2>1. PICK h \in Hooks : proc[h].s = x[1] /\ proc[h].saved /\ x[2] \in proc[h].crossed
    BY <1>2
  <2>2. x = <<x[1], x[2]>>
    BY DEF Slots
  <2>. QED BY <2>1, <2>2 DEF TellsOn, Announced
<1>. QED BY <1>1, <1>2 DEF Announced

\* A copy that counts no more than there was still does.
LEMMA HonestOn ==
  ASSUME NEW c \in Caches, RestOK, RestOK', Grows, Honest(c), NEW x \in Slots
  PROVE  /\ c.entry[x].editCount <= made'[x].editCount
         /\ \A sig \in Signatures : c.entry[x].denials[sig] <= made'[x].denials[sig]
<1>1. /\ c.entry[x].editCount \in Nat /\ c.entry[x].denials \in [Signatures -> 0 .. Threshold + 1]
  BY EntryFacts
<1>2. /\ made[x] \in EntryRec /\ made'[x] \in EntryRec
  BY DEF RestOK
<1>3. /\ made[x].editCount \in Nat /\ made'[x].editCount \in Nat
      /\ made[x].denials \in [Signatures -> 0 .. Threshold + 1]
      /\ made'[x].denials \in [Signatures -> 0 .. Threshold + 1]
  BY <1>2 DEF EntryRec
<1>4. c.entry[x].editCount <= made'[x].editCount
  BY <1>1, <1>3 DEF Grows, Honest
<1>5. ASSUME NEW sig \in Signatures PROVE c.entry[x].denials[sig] <= made'[x].denials[sig]
  <2>1. c.entry[x].denials[sig] <= made[x].denials[sig] /\ made[x].denials[sig] <= made'[x].denials[sig]
    BY DEF Grows, Honest
  <2>2. /\ c.entry[x].denials[sig] \in Int /\ made[x].denials[sig] \in Int /\ made'[x].denials[sig] \in Int
    BY <1>1, <1>3, HookAssumption
  <2>. QED BY <2>1, <2>2
<1>. QED BY <1>4, <1>5

\* A run that a step leaves alone, but for the moment at which another one
\* wrote into the file it has open.
LEMMA RunKept ==
  ASSUME HookInv, RestOK', Grows, TellsOn, NEW q \in Procs,
         \/ proc'[q] = proc[q]
         \/ proc[q].pc = "write" /\ proc'[q] = [proc[q] EXCEPT !.pc = "mixed"]
  PROVE  RunOK(q)'
<1> DEFINE r == proc[q]
           n == proc'[q]
<1>1. RunOK(q)
  BY DEF HookInv
<1>2. /\ n \in RunRec /\ n.s = r.s /\ n.cache = r.cache /\ n.fresh = r.fresh /\ n.crossed = r.crossed
      /\ n.says = r.says /\ n.excused = r.excused /\ n.f = r.f /\ n.sig = r.sig /\ n.saved = r.saved
      /\ n.spans = r.spans
      /\ n.pc = r.pc \/ (r.pc = "write" /\ n.pc = "mixed")
  BY <1>1 DEF RunOK, RunRec
<1> HIDE DEF r, n
<1>3. /\ n.cache \in Caches /\ SaysOK(n) /\ (n.saved => n.pc = "answer")
      /\ q \in Gates => n.fresh = {} /\ n.crossed = {}
      /\ q \in Gates /\ n.pc # "idle" => n.s \in Sessions /\ n.f \in Files /\ n.sig \in Signatures
      /\ q \in Hooks /\ n.pc # "idle" => n.s \in Sessions
  BY <1>1, <1>2 DEF RunOK, SaysOK, r
<1>4. ASSUME Saves(q)' PROVE CopyOK(q)'
  <2>1. CopyOK(q)
    BY <1>1, <1>2, <1>4 DEF Saves, RunOK, r, n
  <2>2. ASSUME ~n.spans, ~revived', NEW x \in Slots
        PROVE  /\ n.cache.entry[x].editCount <= made'[x].editCount
               /\ \A sig \in Signatures : n.cache.entry[x].denials[sig] <= made'[x].denials[sig]
    <3>1. Honest(r.cache)
      BY <1>2, <2>1, <2>2 DEF CopyOK, Grows, r
    <3>2. RestOK /\ r.cache \in Caches
      BY <1>2, <1>3 DEF HookInv
    <3>. QED BY <1>2, <3>1, <3>2, HonestOn
  <2>3. ASSUME NEW s \in Sessions, NEW f \in Files, NEW x \in n.cache.entry[<<s, f>>].findings
        PROVE  Told(s, f, x)' \/ (n.s = s /\ <<f, x>> \in n.fresh)
    <3>1. Told(s, f, x) \/ (n.s = s /\ <<f, x>> \in n.fresh)
      BY <1>2, <2>1, <2>3 DEF CopyOK, r
    <3>. QED BY <3>1, ToldOn
  <2>4. ASSUME NEW x \in Slots, n.cache.entry[x].editCount > Threshold
        PROVE  Announced(x)' \/ (n.s = x[1] /\ x[2] \in n.crossed)
    <3>1. Announced(x) \/ (n.s = x[1] /\ x[2] \in n.crossed)
      BY <1>2, <2>1, <2>4 DEF CopyOK, r
    <3>. QED BY <3>1, AnnouncedOn
  <2>. QED BY <2>2, <2>3, <2>4 DEF CopyOK, Honest, n
<1>. QED BY <1>2, <1>3, <1>4 DEF RunOK, n

LEMMA CacheKept ==
  ASSUME HookInv, RestOK', Grows, TellsOn, cache' = cache
  PROVE  CacheInv'
<1>1. RestOK /\ cache \in Caches /\ Len(cache.order) <= MaxSessions
      /\ NothingSwallowed /\ CountsHonest /\ SuppressionAnnounced
  BY DEF HookInv, CacheInv
<1>2. ASSUME ~revived', NEW x \in Slots
      PROVE  /\ cache.entry[x].editCount <= made'[x].editCount
             /\ \A sig \in Signatures : cache.entry[x].denials[sig] <= made'[x].denials[sig]
  <2>1. Honest(cache)
    BY <1>1, <1>2 DEF CountsHonest, Grows
  <2>. QED BY <1>1, <2>1, HonestOn
<1>3. CountsHonest'
  BY <1>2 DEF CountsHonest, Honest
<1>4. NothingSwallowed'
  BY <1>1, ToldOn DEF NothingSwallowed
<1>5. SuppressionAnnounced'
  BY <1>1, AnnouncedOn DEF SuppressionAnnounced
<1>. QED BY <1>1, <1>3, <1>4, <1>5 DEF CacheInv

LEMMA CacheEmptied ==
  ASSUME RestOK', cache' = TornCache \/ cache' = NoCache
  PROVE  CacheInv'
<1>1. /\ cache' \in Caches /\ Len(cache'.order) = 0
      /\ \A x \in Slots : cache'.entry[x] = NewEntry
  BY NoCacheOK
<1>2. NewEntry.editCount = 0 /\ NewEntry.findings = {} /\ \A sig \in Signatures : NewEntry.denials[sig] = 0
  BY DEF NewEntry
<1>3. Threshold \in Nat /\ MaxSessions \in Nat
  BY HookAssumption
<1>4. ASSUME NEW x \in Slots
      PROVE  /\ 0 <= made'[x].editCount
             /\ \A sig \in Signatures : 0 <= made'[x].denials[sig]
  <2>1. made'[x] \in EntryRec
    BY DEF RestOK
  <2>2. made'[x].editCount \in Nat /\ made'[x].denials \in [Signatures -> 0 .. Threshold + 1]
    BY <2>1 DEF EntryRec
  <2>3. ASSUME NEW sig \in Signatures PROVE 0 <= made'[x].denials[sig]
    <3>1. made'[x].denials[sig] \in 0 .. Threshold + 1
      BY <2>2
    <3>. QED BY <3>1
  <2>. QED BY <2>2, <2>3
<1>5. CountsHonest'
  BY <1>1, <1>2, <1>4 DEF CountsHonest, Honest
<1>6. NothingSwallowed'
  BY <1>1, <1>2, SlotOf DEF NothingSwallowed
<1>7. SuppressionAnnounced'
  BY <1>1, <1>2, <1>3 DEF SuppressionAnnounced
<1>. QED BY <1>1, <1>3, <1>5, <1>6, <1>7 DEF CacheInv

\* Nothing is counted.
LEMMA SameCounts ==
  ASSUME RestOK, made' = made, revived => revived'
  PROVE  Grows
<1>1. ASSUME NEW x \in Slots
      PROVE  /\ made[x].editCount <= made'[x].editCount
             /\ \A sig \in Signatures : made[x].denials[sig] <= made'[x].denials[sig]
  <2>1. made[x] \in EntryRec
    BY DEF RestOK
  <2>2. made[x].editCount \in Nat /\ made[x].denials \in [Signatures -> 0 .. Threshold + 1]
    BY <2>1 DEF EntryRec
  <2>3. ASSUME NEW sig \in Signatures PROVE made[x].denials[sig] <= made[x].denials[sig]
    <3>1. made[x].denials[sig] \in 0 .. Threshold + 1
      BY <2>2
    <3>. QED BY <3>1, HookAssumption
  <2>. QED BY <2>2, <2>3
<1>. QED BY <1>1 DEF Grows

LEMMA IdleOK == Idle \in RunRec /\ Idle.cache \in Caches /\ SaysOK(Idle) /\ Idle.pc = "idle"
                /\ ~Idle.saved /\ Idle.fresh = {} /\ Idle.crossed = {} /\ ~Idle.spans
<1>1. NoCache \in Caches /\ NoCache.is = "none"
  BY NoCacheOK
<1>2. NoCache \in [is : {"none", "json"}, order : Seq(Sessions), entry : [Slots -> EntryRec]]
  BY <1>1 DEF Caches
<1> HIDE DEF NoCache
<1>. QED BY <1>1, <1>2 DEF Idle, RunRec, SaysOK, Says

\* A place where no run is.
LEMMA IdleRunOK == ASSUME NEW p \in Procs, proc'[p] = Idle PROVE RunOK(p)'
  BY IdleOK DEF RunOK, Saves

\* A step of one run that neither counts nor writes the cache.
LEMMA QuietRun ==
  ASSUME HookInv, RestOK', made' = made, revived' = revived, cache' = cache,
         NEW p \in Procs, NEW r, proc' = [proc EXCEPT ![p] = r], TellsOn, RunOK(p)'
  PROVE  HookInv'
<1>1. DOMAIN proc' = Procs /\ proc' = [q \in Procs |-> proc'[q]] /\ \A q \in Procs : q # p => proc'[q] = proc[q]
  BY DEF HookInv
<1>2. Grows
  BY SameCounts DEF HookInv
<1>3. \A q \in Procs : RunOK(q)'
  <2>1. ASSUME NEW q \in Procs, q # p PROVE RunOK(q)'
    BY <1>1, <1>2, <2>1, RunKept
  <2>. QED BY <2>1
<1>4. CacheInv'
  BY <1>2, CacheKept
<1>. QED BY <1>1, <1>3, <1>4 DEF HookInv

-----------------------------------------------------------------------------
(* The steps of the runs.                                                  *)

LEMMA OpenCacheStep == ASSUME HookInv, NEW p \in Procs, OpenCache(p) PROVE HookInv'
<1> DEFINE r == [proc[p] EXCEPT !.pc = "write"]
<1>1. /\ proc[p].pc = "open" /\ cache' = TornCache /\ proc' = [proc EXCEPT ![p] = r]
      /\ UNCHANGED <<configvars, write, ghosts>>
  BY DEF OpenCache
<1>2. RestOK' /\ Grows
  <2>1. RestOK'
    BY <1>1 DEF HookInv, RestOK, ConfigTypeOK, configvars, ghosts
  <2>2. made' = made /\ revived' = revived
    BY <1>1 DEF ghosts
  <2>. QED BY <2>1, <2>2, SameCounts DEF HookInv
<1>3. RunOK(p)
  BY DEF HookInv
<1>4. /\ r \in RunRec /\ r.s = proc[p].s /\ r.cache = proc[p].cache /\ r.fresh = proc[p].fresh
      /\ r.crossed = proc[p].crossed /\ r.says = proc[p].says /\ r.excused = proc[p].excused
      /\ r.f = proc[p].f /\ r.sig = proc[p].sig /\ r.saved = proc[p].saved /\ r.spans = proc[p].spans
      /\ r.pc = "write"
  BY <1>3 DEF RunOK, RunRec
<1> HIDE DEF r
<1>5. /\ DOMAIN proc' = Procs /\ proc' = [q \in Procs |-> proc'[q]]
      /\ proc'[p] = r /\ \A q \in Procs : q # p => proc'[q] = proc[q]
  BY <1>1 DEF HookInv
<1>6. TellsOn
  BY <1>1, <1>4, <1>5 DEF TellsOn, ghosts, Procs, HookInv, RestOK
<1>7. CopyOK(p)
  BY <1>1, <1>3 DEF RunOK, Saves
<1>8. CopyOK(p)'
  BY <1>1, <1>4, <1>5, <1>6, <1>7, ToldOn, AnnouncedOn DEF CopyOK, ghosts, Honest
<1>9. RunOK(p)'
  BY <1>1, <1>3, <1>4, <1>5, <1>8 DEF RunOK, SaysOK
<1>10. \A q \in Procs : RunOK(q)'
  <2>1. ASSUME NEW q \in Procs, q # p PROVE RunOK(q)'
    BY <1>2, <1>5, <1>6, <2>1, RunKept
  <2>. QED BY <1>9, <2>1
<1>11. CacheInv'
  BY <1>1, <1>2, CacheEmptied
<1>. QED BY <1>2, <1>5, <1>10, <1>11 DEF HookInv

\* The copy of p is written: what it remembers p is now about to say.
LEMMA WriteCacheStep == ASSUME HookInv, NEW p \in Procs, WriteCache(p) PROVE HookInv'
<1> DEFINE r == [proc[p] EXCEPT !.pc = "answer", !.saved = TRUE]
<1>1. /\ proc[p].pc \in {"write", "mixed"}
      /\ cache' = Kept(proc[p].cache) \/ cache' = TornCache
      /\ proc' = [q \in Procs |->
           IF q = p THEN r
           ELSE IF proc[q].pc = "write" THEN [proc[q] EXCEPT !.pc = "mixed"]
           ELSE proc[q]]
      /\ revived' = (revived \/ proc[p].spans)
      /\ UNCHANGED <<configvars, write, made, heard, noticed>>
  BY DEF WriteCache
<1>2. RunOK(p)
  BY DEF HookInv
<1>3. RestOK'
  <2>1. revived' \in BOOLEAN
    BY <1>1, <1>2 DEF HookInv, RestOK, RunOK, RunRec
  <2>. QED BY <1>1, <2>1 DEF HookInv, RestOK, ConfigTypeOK, configvars
<1>4. Grows
  BY <1>1, SameCounts DEF HookInv
<1>5. /\ r \in RunRec /\ r.s = proc[p].s /\ r.cache = proc[p].cache /\ r.fresh = proc[p].fresh
      /\ r.crossed = proc[p].crossed /\ r.says = proc[p].says /\ r.excused = proc[p].excused
      /\ r.f = proc[p].f /\ r.sig = proc[p].sig /\ r.saved = TRUE /\ r.pc = "answer"
  BY <1>2 DEF RunOK, RunRec
<1> HIDE DEF r
<1>6. /\ DOMAIN proc' = Procs /\ proc' = [q \in Procs |-> proc'[q]] /\ proc'[p] = r
      /\ \A q \in Procs : q # p =>
           \/ proc'[q] = proc[q]
           \/ proc[q].pc = "write" /\ proc'[q] = [proc[q] EXCEPT !.pc = "mixed"]
  BY <1>1
<1>7. TellsOn
  <2>1. ASSUME NEW h \in Hooks, proc[h].saved
        PROVE  /\ proc'[h].saved /\ proc'[h].s = proc[h].s
               /\ proc'[h].fresh = proc[h].fresh /\ proc'[h].crossed = proc[h].crossed
    <3>1. h \in Procs /\ RunOK(h)
      BY DEF Procs, HookInv
    <3>2. proc[h].pc = "answer"
      BY <2>1, <3>1 DEF RunOK
    <3>3. h # p /\ proc'[h] = proc[h]
      BY <1>1, <1>6, <3>1, <3>2
    <3>. QED BY <2>1, <3>3
  <2>. QED BY <1>1, <2>1 DEF TellsOn
<1>8. CopyOK(p)
  <2>1. Saves(p)
    BY <1>1 DEF Saves
  <2>. QED BY <1>2, <2>1 DEF RunOK
<1>9. RunOK(p)'
  <2>1. ~(proc'[p].pc \in {"open", "write", "mixed"}) /\ proc'[p].pc # "idle"
    BY <1>5, <1>6
  <2>2. /\ r.cache \in Caches /\ SaysOK(r)
        /\ p \in Gates => r.fresh = {} /\ r.crossed = {}
        /\ p \in Gates => r.s \in Sessions /\ r.f \in Files /\ r.sig \in Signatures
        /\ p \in Hooks => r.s \in Sessions
    BY <1>1, <1>2, <1>5 DEF RunOK, SaysOK
  <2>. QED BY <1>5, <1>6, <2>1, <2>2 DEF RunOK, Saves
<1>10. \A q \in Procs : RunOK(q)'
  <2>1. ASSUME NEW q \in Procs, q # p PROVE RunOK(q)'
    BY <1>3, <1>4, <1>6, <1>7, <2>1, RunKept
  <2>. QED BY <1>9, <2>1
<1>11. ASSUME cache' = Kept(proc[p].cache) PROVE CacheInv'
  <2> DEFINE c == proc[p].cache
             k == Kept(c)
  <2>1. c \in Caches
    BY <1>2 DEF RunOK
  <2>2. /\ k \in Caches /\ Len(k.order) <= MaxSessions
        /\ \A x \in Slots : k.entry[x] = c.entry[x] \/ k.entry[x] = NewEntry
    BY <2>1, KeptFacts
  <2>3. NewEntry.editCount = 0 /\ NewEntry.findings = {} /\ \A sig \in Signatures : NewEntry.denials[sig] = 0
    BY DEF NewEntry
  <2>4. Threshold \in Nat
    BY HookAssumption
  <2>k. cache' = k
    BY <1>11
  <2> HIDE DEF k
  <2>5. ASSUME ~revived', NEW x \in Slots
        PROVE  /\ k.entry[x].editCount <= made'[x].editCount
               /\ \A sig \in Signatures : k.entry[x].denials[sig] <= made'[x].denials[sig]
    <3>1. Honest(c)
      BY <1>1, <1>8, <2>5 DEF CopyOK
    <3>2. CASE k.entry[x] = c.entry[x]
      BY <1>1, <3>1, <3>2 DEF Honest
    <3>3. CASE k.entry[x] = NewEntry
      <4>1. made'[x] \in EntryRec
        BY <1>3 DEF RestOK
      <4>2. made'[x].editCount \in Nat /\ made'[x].denials \in [Signatures -> 0 .. Threshold + 1]
        BY <4>1 DEF EntryRec
      <4>3. ASSUME NEW sig \in Signatures PROVE 0 <= made'[x].denials[sig]
        <5>1. made'[x].denials[sig] \in 0 .. Threshold + 1
          BY <4>2
        <5>. QED BY <5>1
      <4>. QED BY <2>3, <3>3, <4>2, <4>3
    <3>. QED BY <2>2, <3>2, <3>3
  <2>6. CountsHonest'
    BY <2>k, <2>5 DEF CountsHonest, Honest
  <2>7. \A f \in Files : p \in Hooks \/ (proc[p].fresh = {} /\ proc[p].crossed = {})
    BY <1>2 DEF RunOK, Procs
  <2>8. NothingSwallowed'
    <3>1. ASSUME NEW s \in Sessions, NEW f \in Files, NEW x \in k.entry[<<s, f>>].findings
          PROVE  Told(s, f, x)'
      <4>1. x \in c.entry[<<s, f>>].findings
        BY <2>2, <2>3, <3>1, SlotOf
      <4>2. Told(s, f, x) \/ (proc[p].s = s /\ <<f, x>> \in proc[p].fresh)
        BY <1>8, <4>1 DEF CopyOK
      <4>3. CASE proc[p].s = s /\ <<f, x>> \in proc[p].fresh
        <5>1. p \in Hooks
          BY <2>7, <4>3
        <5>. QED BY <1>5, <1>6, <4>3, <5>1 DEF Told
      <4>. QED BY <1>7, <4>2, <4>3, ToldOn
    <3>2. SUFFICES ASSUME NEW s \in Sessions, NEW f \in Files, NEW x \in cache'.entry[<<s, f>>].findings
                   PROVE  Told(s, f, x)'
      BY DEF NothingSwallowed
    <3>3. x \in k.entry[<<s, f>>].findings
      BY <2>k, <3>2
    <3>. QED BY <3>1, <3>3
  <2>9. SuppressionAnnounced'
    <3>1. ASSUME NEW x \in Slots, k.entry[x].editCount > Threshold
          PROVE  Announced(x)'
      <4>1. c.entry[x].editCount > Threshold
        BY <2>2, <2>3, <2>4, <3>1
      <4>2. Announced(x) \/ (proc[p].s = x[1] /\ x[2] \in proc[p].crossed)
        BY <1>8, <4>1 DEF CopyOK
      <4>3. CASE proc[p].s = x[1] /\ x[2] \in proc[p].crossed
        <5>1. p \in Hooks
          BY <2>7, <4>3 DEF Slots
        <5>. QED BY <1>5, <1>6, <4>3, <5>1 DEF Announced
      <4>. QED BY <1>7, <4>2, <4>3, AnnouncedOn
    <3>2. SUFFICES ASSUME NEW x \in Slots, cache'.entry[x].editCount > Threshold
                   PROVE  Announced(x)'
      BY DEF SuppressionAnnounced
    <3>3. k.entry[x].editCount > Threshold
      BY <2>k, <3>2
    <3>. QED BY <3>1, <3>3
  <2>10. cache' \in Caches /\ Len(cache'.order) <= MaxSessions
    BY <2>k, <2>2
  <2>. QED BY <2>6, <2>8, <2>9, <2>10 DEF CacheInv
<1>12. cache' = TornCache => CacheInv'
  BY <1>3, CacheEmptied
<1>13. cache' = Kept(proc[p].cache) \/ cache' = TornCache
  BY <1>1
<1>14. CacheInv'
  BY <1>11, <1>12, <1>13
<1>. QED BY <1>3, <1>6, <1>10, <1>14 DEF HookInv

LEMMA CannotWriteStep == ASSUME HookInv, NEW p \in Procs, CannotWrite(p) PROVE HookInv'
<1> DEFINE r == [proc[p] EXCEPT !.pc = "answer"]
<1>1. /\ proc[p].pc = "open" /\ proc' = [proc EXCEPT ![p] = r] /\ left' = Spent("faults") /\ left.faults > 0
      /\ UNCHANGED <<settings, cache, write, ghosts>>
  BY DEF CannotWrite
<1>2. RunOK(p)
  BY DEF HookInv
<1>3. RestOK'
  <2>1. left' \in [edits : Nat, commands : Nat, faults : Nat, asks : Nat]
    BY <1>1 DEF HookInv, RestOK, ConfigTypeOK, Spent
  <2>. QED BY <1>1, <2>1 DEF HookInv, RestOK, ConfigTypeOK, settings, ghosts
<1>4. /\ r \in RunRec /\ r.s = proc[p].s /\ r.cache = proc[p].cache /\ r.fresh = proc[p].fresh
      /\ r.crossed = proc[p].crossed /\ r.says = proc[p].says /\ r.excused = proc[p].excused
      /\ r.f = proc[p].f /\ r.sig = proc[p].sig /\ r.saved = proc[p].saved /\ r.pc = "answer"
  BY <1>2 DEF RunOK, RunRec
<1> HIDE DEF r
<1>5. proc'[p] = r /\ \A q \in Procs : q # p => proc'[q] = proc[q]
  BY <1>1 DEF HookInv
<1>6. TellsOn
  BY <1>1, <1>4, <1>5 DEF TellsOn, ghosts, Procs, HookInv, RestOK
<1>7. RunOK(p)'
  BY <1>1, <1>2, <1>4, <1>5 DEF RunOK, SaysOK, Saves
<1>. QED BY <1>1, <1>3, <1>6, <1>7, QuietRun DEF ghosts

\* What was found is said, and a hidden file is announced, or excused.
LEMMA AnswerStep == ASSUME HookInv, NEW h \in Procs, Answer(h) PROVE HookInv'
<1> DEFINE r == proc[h]
<1>1. /\ h \in Hooks /\ r.pc = "answer" /\ proc' = [proc EXCEPT ![h] = Idle]
      /\ heard' = [heard EXCEPT ![r.s] = IF r.says = "fresh" THEN heard[r.s] \cup r.fresh ELSE heard[r.s]]
      /\ noticed' = IF r.says = "suppression" \/ r.excused
                    THEN noticed \cup ({r.s} \X r.crossed) ELSE noticed
      /\ UNCHANGED <<configvars, cache, write, made, revived>>
  BY DEF Answer
<1>2. RunOK(h)
  BY DEF HookInv
<1>3. r.s \in Sessions /\ r.fresh \in SUBSET (Files \X Rules) /\ r.crossed \in SUBSET Files /\ SaysOK(r)
  BY <1>1, <1>2 DEF RunOK, RunRec
<1> HIDE DEF r
<1>4. heard \in [Sessions -> SUBSET (Files \X Rules)] /\ noticed \subseteq Slots
  BY DEF HookInv, RestOK
<1>5. heard' \in [Sessions -> SUBSET (Files \X Rules)] /\ noticed' \subseteq Slots
  BY <1>1, <1>3, <1>4 DEF Slots
<1>6. RestOK'
  BY <1>1, <1>5 DEF HookInv, RestOK, ConfigTypeOK, configvars
<1>7. proc'[h] = Idle /\ \A q \in Procs : q # h => proc'[q] = proc[q]
  BY <1>1 DEF HookInv
<1>8. TellsOn
  <2>1. \A s \in Sessions : heard[s] \subseteq heard'[s]
    BY <1>1, <1>4
  <2>2. noticed \subseteq noticed'
    BY <1>1
  <2>3. r.fresh \subseteq heard'[r.s]
    BY <1>1, <1>3, <1>4 DEF SaysOK
  <2>4. {r.s} \X r.crossed \subseteq noticed'
    BY <1>1, <1>3 DEF SaysOK
  <2>. QED BY <1>7, <2>1, <2>2, <2>3, <2>4 DEF TellsOn, Procs, r
<1>9. RunOK(h)'
  BY <1>7, IdleRunOK
<1>. QED BY <1>1, <1>6, <1>8, <1>9, QuietRun

LEMMA DecideStep == ASSUME HookInv, NEW g \in Procs, Decide(g) PROVE HookInv'
<1>1. /\ g \in Gates /\ proc' = [proc EXCEPT ![g] = Idle]
      /\ \E is \in {"asking", "landed"} : write' = [write EXCEPT ![g].is = is]
      /\ UNCHANGED <<configvars, cache, ghosts>>
  BY DEF Decide
<1>2. RestOK'
  <2>1. write' \in [Gates -> [is : {"none", "asking", "landed"}, s : Sessions \cup {Nobody},
                               f : Files \cup {"-"}, sig : SUBSET Rules]]
    BY <1>1 DEF HookInv, RestOK
  <2>. QED BY <1>1, <2>1 DEF HookInv, RestOK, ConfigTypeOK, configvars, ghosts
<1>3. proc'[g] = Idle /\ \A q \in Procs : q # g => proc'[q] = proc[q]
  BY <1>1 DEF HookInv
<1>4. TellsOn
  <2>1. \A h \in Hooks : h \in Procs /\ h # g
    BY <1>1, HookAssumption DEF Procs
  <2>2. \A h \in Hooks : proc'[h] = proc[h]
    BY <1>3, <2>1
  <2>3. heard' = heard /\ noticed' = noticed
    BY <1>1 DEF ghosts
  <2>. QED BY <2>2, <2>3 DEF TellsOn
<1>5. RunOK(g)'
  BY <1>3, IdleRunOK
<1>. QED BY <1>1, <1>2, <1>4, <1>5, QuietRun DEF ghosts

\* What a killed run has saved and not said counts as said; the rest is not
\* in the cache.
LEMMA KillStep == ASSUME HookInv, NEW p \in Procs, Kill(p) PROVE HookInv'
<1> DEFINE r == proc[p]
<1>1. /\ proc' = [proc EXCEPT ![p] = Idle] /\ left' = Spent("faults") /\ left.faults > 0 /\ r.pc # "idle"
      /\ UNCHANGED <<settings, cache, made, revived>>
  BY DEF Kill
<1>2. RunOK(p)
  BY DEF HookInv
<1>3. proc'[p] = Idle /\ \A q \in Procs : q # p => proc'[q] = proc[q]
  BY <1>1 DEF HookInv
<1>4. left' \in [edits : Nat, commands : Nat, faults : Nat, asks : Nat]
  BY <1>1 DEF HookInv, RestOK, ConfigTypeOK, Spent
<1>5. heard \in [Sessions -> SUBSET (Files \X Rules)] /\ noticed \subseteq Slots
  BY DEF HookInv, RestOK
<1>6. CASE p \in Hooks
  <2>1. /\ heard' = [heard EXCEPT ![r.s] = IF r.saved THEN heard[r.s] \cup r.fresh ELSE heard[r.s]]
        /\ noticed' = IF r.saved THEN noticed \cup ({r.s} \X r.crossed) ELSE noticed
        /\ write' = write
    BY <1>6 DEF Kill
  <2>2. r.s \in Sessions /\ r.fresh \in SUBSET (Files \X Rules) /\ r.crossed \in SUBSET Files
    BY <1>1, <1>2, <1>6 DEF RunOK, RunRec
  <2> HIDE DEF r
  <2>3. heard' \in [Sessions -> SUBSET (Files \X Rules)] /\ noticed' \subseteq Slots
    BY <1>5, <2>1, <2>2 DEF Slots
  <2>4. RestOK'
    BY <1>1, <1>4, <2>1, <2>3 DEF HookInv, RestOK, ConfigTypeOK, settings
  <2>5. TellsOn
    <3>1. \A s \in Sessions : heard[s] \subseteq heard'[s]
      BY <1>5, <2>1
    <3>2. noticed \subseteq noticed'
      BY <2>1
    <3>3. r.saved => r.fresh \subseteq heard'[r.s] /\ {r.s} \X r.crossed \subseteq noticed'
      BY <1>5, <2>1, <2>2
    <3>. QED BY <1>3, <3>1, <3>2, <3>3 DEF TellsOn, Procs, r
  <2>. QED BY <1>1, <1>3, <2>4, <2>5, IdleRunOK, QuietRun
<1>7. CASE p \notin Hooks
  <2>1. p \in Gates
    BY <1>7 DEF Procs
  <2>2. /\ \E is \in {"asking", "landed"} : write' = [write EXCEPT ![p].is = is]
        /\ heard' = heard /\ noticed' = noticed
    BY <1>7 DEF Kill
  <2>3. write' \in [Gates -> [is : {"none", "asking", "landed"}, s : Sessions \cup {Nobody},
                               f : Files \cup {"-"}, sig : SUBSET Rules]]
    BY <2>1, <2>2 DEF HookInv, RestOK
  <2>4. RestOK'
    BY <1>1, <1>4, <2>2, <2>3 DEF HookInv, RestOK, ConfigTypeOK, settings
  <2>5. TellsOn
    <3>1. \A h \in Hooks : h \in Procs /\ h # p
      BY <1>7 DEF Procs
    <3>2. \A h \in Hooks : proc'[h] = proc[h]
      BY <1>3, <3>1
    <3>. QED BY <2>2, <3>2 DEF TellsOn
  <2>. QED BY <1>1, <1>3, <2>4, <2>5, IdleRunOK, QuietRun
<1>. QED BY <1>6, <1>7

\* A step that leaves the runs, the cache and what was said alone.
LEMMA RunsKept ==
  ASSUME HookInv, RestOK', Grows, UNCHANGED <<cache, proc, heard, noticed>>
  PROVE  HookInv'
<1>1. TellsOn
  BY DEF TellsOn
<1>2. \A q \in Procs : RunOK(q)'
  BY <1>1, RunKept
<1>3. CacheInv'
  BY <1>1, CacheKept
<1>4. DOMAIN proc' = Procs /\ proc' = [q \in Procs |-> proc'[q]]
  BY DEF HookInv
<1>. QED BY <1>2, <1>3, <1>4 DEF HookInv

LEMMA AskStep == ASSUME HookInv, NEW g \in Gates, Ask(g) PROVE HookInv'
<1> DEFINE Fresh(w) == [Idle EXCEPT !.pc = "load", !.s = w.s, !.f = w.f, !.sig = w.sig \ Ignored]
<1>1. PICK w \in Writes :
        /\ \/ write[g] = w /\ UNCHANGED left
           \/ write[g] = NoWrite /\ left.asks > 0 /\ left' = Spent("asks")
        /\ \/ /\ Fresh(w).sig # {} /\ write' = [write EXCEPT ![g] = w]
              /\ proc' = [proc EXCEPT ![g] = Fresh(w)]
           \/ write' = [write EXCEPT ![g] = [w EXCEPT !.is = "landed"]] /\ UNCHANGED proc
  BY DEF Ask
<1>2. UNCHANGED <<settings, cache, ghosts>>
  BY DEF Ask
<1> DEFINE r == Fresh(w)
<1>3. w \in [is : {"asking"}, s : Sessions, f : Files, sig : (SUBSET Rules) \ {{}}]
  BY HookAssumption
<1>4. left' \in [edits : Nat, commands : Nat, faults : Nat, asks : Nat]
  BY <1>1 DEF HookInv, RestOK, ConfigTypeOK, Spent
<1>5. write' \in [Gates -> [is : {"none", "asking", "landed"}, s : Sessions \cup {Nobody},
                            f : Files \cup {"-"}, sig : SUBSET Rules]]
  <2>1. /\ w \in [is : {"none", "asking", "landed"}, s : Sessions \cup {Nobody},
                  f : Files \cup {"-"}, sig : SUBSET Rules]
        /\ [w EXCEPT !.is = "landed"] \in [is : {"none", "asking", "landed"}, s : Sessions \cup {Nobody},
                                           f : Files \cup {"-"}, sig : SUBSET Rules]
    BY <1>3
  <2>. QED BY <1>1, <2>1 DEF HookInv, RestOK
<1>6. RestOK'
  BY <1>2, <1>4, <1>5 DEF HookInv, RestOK, ConfigTypeOK, settings, ghosts
<1>7. CASE UNCHANGED proc
  <2>1. Grows
    BY <1>2, SameCounts DEF HookInv, ghosts
  <2>. QED BY <1>2, <1>6, <1>7, <2>1, RunsKept DEF ghosts
<1>8. CASE r.sig # {} /\ proc' = [proc EXCEPT ![g] = r]
  <2>1. g \in Procs /\ g \notin Hooks
    BY HookAssumption DEF Procs
  <2>2. proc'[g] = r /\ \A q \in Procs : q # g => proc'[q] = proc[q]
    BY <1>8, <2>1 DEF HookInv
  <2>3. /\ r \in RunRec /\ r.cache \in Caches /\ r.fresh = {} /\ r.crossed = {} /\ ~r.saved
        /\ r.pc = "load" /\ r.s \in Sessions /\ r.f \in Files /\ r.sig \in SUBSET Rules
    BY <1>3, IdleOK DEF RunRec
  <2>4. r.sig \in Signatures
    BY <1>8, <2>3 DEF Signatures
  <2> HIDE DEF r, Fresh
  <2>5. RunOK(g)'
    BY <2>1, <2>2, <2>3, <2>4 DEF RunOK, SaysOK, Saves
  <2>6. TellsOn
    <3>1. \A h \in Hooks : h \in Procs /\ h # g
      BY <2>1 DEF Procs
    <3>2. \A h \in Hooks : proc'[h] = proc[h]
      BY <2>2, <3>1
    <3>3. heard' = heard /\ noticed' = noticed
      BY <1>2 DEF ghosts
    <3>. QED BY <3>2, <3>3 DEF TellsOn
  <2>. QED BY <1>2, <1>6, <1>8, <2>1, <2>5, <2>6, QuietRun DEF ghosts
<1>. QED BY <1>1, <1>7, <1>8

-----------------------------------------------------------------------------
(* The steps that count: a gate's denial and a session's edit.  A run reads   *)
(* the cache, which stands by the properties, and goes on with a copy.        *)

LEMMA MadeFacts ==
  ASSUME RestOK, NEW x \in Slots
  PROVE  /\ made[x] \in EntryRec /\ made[x].editCount \in Nat
         /\ made[x].denials \in [Signatures -> 0 .. Threshold + 1]
<1>1. made[x] \in EntryRec
  BY DEF RestOK
<1>. QED BY <1>1 DEF EntryRec

LEMMA ReadHonest ==
  ASSUME HookInv, ~revived, NEW x \in Slots
  PROVE  /\ ReadCache.entry[x].editCount <= made[x].editCount
         /\ \A sig \in Signatures : ReadCache.entry[x].denials[sig] <= made[x].denials[sig]
<1>1. cache \in Caches /\ Honest(cache) /\ RestOK
  BY DEF HookInv, CacheInv, CountsHonest
<1>2. ReadCache.entry[x] = cache.entry[x] \/ ReadCache.entry[x] = NewEntry
  BY <1>1, ReadFacts
<1>3. CASE ReadCache.entry[x] = cache.entry[x]
  BY <1>1, <1>3 DEF Honest
<1>4. CASE ReadCache.entry[x] = NewEntry
  <2>1. NewEntry.editCount = 0 /\ \A sig \in Signatures : NewEntry.denials[sig] = 0
    BY DEF NewEntry
  <2>2. made[x].editCount \in Nat /\ made[x].denials \in [Signatures -> 0 .. Threshold + 1]
    BY <1>1, MadeFacts
  <2>3. ASSUME NEW sig \in Signatures PROVE 0 <= made[x].denials[sig]
    <3>1. made[x].denials[sig] \in 0 .. Threshold + 1
      BY <2>2
    <3>. QED BY <3>1
  <2>. QED BY <1>4, <2>1, <2>2, <2>3
<1>. QED BY <1>2, <1>3, <1>4

LEMMA ReadTold ==
  ASSUME HookInv, NEW s \in Sessions, NEW f \in Files, NEW x \in ReadCache.entry[<<s, f>>].findings
  PROVE  Told(s, f, x)
<1>1. cache \in Caches /\ NothingSwallowed
  BY DEF HookInv, CacheInv
<1>2. ReadCache.entry[<<s, f>>] = cache.entry[<<s, f>>] \/ ReadCache.entry[<<s, f>>] = NewEntry
  BY <1>1, ReadFacts, SlotOf
<1>3. x \in cache.entry[<<s, f>>].findings
  BY <1>2, NewEntryOK
<1>. QED BY <1>1, <1>3 DEF NothingSwallowed

LEMMA ReadAnnounced ==
  ASSUME HookInv, NEW x \in Slots, ReadCache.entry[x].editCount > Threshold
  PROVE  Announced(x)
<1>1. cache \in Caches /\ SuppressionAnnounced
  BY DEF HookInv, CacheInv
<1>2. ReadCache.entry[x] = cache.entry[x] \/ ReadCache.entry[x] = NewEntry
  BY <1>1, ReadFacts
<1>3. cache.entry[x].editCount > Threshold
  BY <1>2, NewEntryOK, HookAssumption
<1>. QED BY <1>1, <1>3 DEF SuppressionAnnounced

LEMMA CappedGrows ==
  ASSUME NEW m \in 0 .. Threshold + 1, NEW n \in 0 .. Threshold + 1, m <= n
  PROVE  Capped(m + 1) <= Capped(n + 1) /\ n <= Capped(n + 1)
  BY HookAssumption DEF Capped

\* A denial is counted in the copy and, at the same moment, in truth.
LEMMA LoadAndBumpStep == ASSUME HookInv, NEW g \in Procs, LoadAndBump(g) PROVE HookInv'
<1> DEFINE s == proc[g].s
           f == proc[g].f
           sig == proc[g].sig
           x == <<s, f>>
           c == DenialBumped(ReadCache, s, f, sig)
           r == [proc[g] EXCEPT !.pc = "open", !.cache = c]
           d == [made[x].denials EXCEPT ![sig] = Capped(made[x].denials[sig] + 1)]
           m == [made[x] EXCEPT !.denials = d]
<1>1. /\ g \in Gates /\ proc[g].pc = "load" /\ proc' = [proc EXCEPT ![g] = r]
      /\ UNCHANGED <<configvars, cache, write, heard, noticed, revived>>
  BY DEF LoadAndBump, HookInv
<1>2. made' = [made EXCEPT ![x] = m]
  BY DEF LoadAndBump, HookInv, RestOK, EntryRec
<1>3. RunOK(g) /\ RestOK /\ cache \in Caches
  BY DEF HookInv, CacheInv
<1>4. s \in Sessions /\ f \in Files /\ sig \in Signatures /\ proc[g].fresh = {} /\ proc[g].crossed = {}
      /\ ~proc[g].saved
  BY <1>1, <1>3 DEF RunOK
<1>5. x \in Slots
  BY <1>4, SlotOf
<1>6. ReadCache \in Caches /\ ReadCache.is = "json"
  BY <1>3, ReadFacts
<1> DEFINE was == ReadCache.entry[x]
           e == [was EXCEPT !.denials = [was.denials EXCEPT ![sig] = Capped(was.denials[sig] + 1)]]
<1>7. Replaces(c, ReadCache, x, e)
  BY <1>4, <1>6, DenialBumpedFacts
<1>8. /\ c \in Caches /\ c.is = "json" /\ c.entry[x] = e
      /\ \A y \in Slots : y # x => c.entry[y] = ReadCache.entry[y]
  BY <1>6, <1>7 DEF Replaces
<1>9. /\ e.editCount = was.editCount /\ e.findings = was.findings
      /\ e.denials = [was.denials EXCEPT ![sig] = Capped(was.denials[sig] + 1)]
      /\ was.denials \in [Signatures -> 0 .. Threshold + 1]
  <2>1. was \in EntryRec
    BY <1>5, <1>6, EntryFacts
  <2>. QED BY <2>1 DEF EntryRec
<1>10. /\ made[x] \in EntryRec /\ made[x].denials \in [Signatures -> 0 .. Threshold + 1]
  BY <1>3, <1>5, MadeFacts
<1>11. d \in [Signatures -> 0 .. Threshold + 1] /\ d[sig] = Capped(made[x].denials[sig] + 1)
       /\ \A u \in Signatures : u # sig => d[u] = made[x].denials[u]
  BY <1>4, <1>10, CappedFacts
<1> HIDE DEF d
<1>12. m \in EntryRec /\ m.denials = d /\ m.editCount = made[x].editCount
  BY <1>10, <1>11 DEF EntryRec
<1> HIDE DEF m
<1>13. /\ made' \in [Slots -> EntryRec] /\ made'[x] = m
       /\ \A y \in Slots : y # x => made'[y] = made[y]
  BY <1>2, <1>3, <1>5, <1>12 DEF RestOK
<1>14. RestOK'
  BY <1>1, <1>3, <1>13 DEF RestOK, ConfigTypeOK, configvars
<1>15. Grows
  <2>1. ASSUME NEW y \in Slots
        PROVE  /\ made[y].editCount <= made'[y].editCount
               /\ \A u \in Signatures : made[y].denials[u] <= made'[y].denials[u]
    <3>1. made[y].editCount \in Nat /\ made[y].denials \in [Signatures -> 0 .. Threshold + 1]
      BY <1>3, MadeFacts
    <3>2. made'[y].editCount = made[y].editCount
      BY <1>12, <1>13
    <3>3. ASSUME NEW u \in Signatures PROVE made[y].denials[u] <= made'[y].denials[u]
      <4>1. made[y].denials[u] \in 0 .. Threshold + 1
        BY <3>1
      <4>2. CASE y = x /\ u = sig
        <5>1. made'[y].denials[u] = Capped(made[y].denials[u] + 1)
          BY <1>11, <1>12, <1>13, <4>2
        <5>2. made[y].denials[u] <= made[y].denials[u]
          BY <4>1, HookAssumption
        <5>3. made[y].denials[u] <= Capped(made[y].denials[u] + 1)
          BY <4>1, <5>2, CappedGrows
        <5>. QED BY <5>1, <5>3
      <4>3. CASE ~(y = x /\ u = sig)
        <5>1. made'[y].denials[u] = made[y].denials[u]
          BY <1>11, <1>12, <1>13, <4>3
        <5>. QED BY <4>1, <5>1, HookAssumption
      <4>. QED BY <4>2, <4>3
    <3>. QED BY <3>1, <3>2, <3>3
  <2>. QED BY <1>1, <2>1 DEF Grows
<1>16. /\ r \in RunRec /\ r.s = s /\ r.cache = c /\ r.f = f /\ r.sig = sig /\ r.pc = "open"
       /\ r.fresh = {} /\ r.crossed = {} /\ ~r.saved
  <2>1. c \in [is : {"none", "json"}, order : Seq(Sessions), entry : [Slots -> EntryRec]]
    BY <1>8 DEF Caches
  <2> HIDE DEF c
  <2>. QED BY <1>3, <1>4, <2>1 DEF RunOK, RunRec
<1> HIDE DEF r, c, e, was, x
<1>17. proc'[g] = r /\ \A q \in Procs : q # g => proc'[q] = proc[q]
  BY <1>1 DEF HookInv
<1>18. TellsOn
  <2>1. \A h \in Hooks : h \in Procs /\ h # g
    BY <1>1, HookAssumption DEF Procs
  <2>2. \A h \in Hooks : proc'[h] = proc[h]
    BY <1>17, <2>1
  <2>. QED BY <1>1, <2>2 DEF TellsOn
<1>19. ASSUME ~revived', NEW y \in Slots
       PROVE  /\ c.entry[y].editCount <= made'[y].editCount
              /\ \A u \in Signatures : c.entry[y].denials[u] <= made'[y].denials[u]
  <2>1. /\ ReadCache.entry[y].editCount <= made[y].editCount
        /\ \A u \in Signatures : ReadCache.entry[y].denials[u] <= made[y].denials[u]
    BY <1>1, <1>19, ReadHonest
  <2>2. CASE y # x
    BY <1>8, <1>13, <2>1, <2>2
  <2>3. CASE y = x
    <3>1. c.entry[y].editCount <= made'[y].editCount
      BY <1>8, <1>9, <1>12, <1>13, <2>1, <2>3 DEF was
    <3>2. ASSUME NEW u \in Signatures PROVE c.entry[y].denials[u] <= made'[y].denials[u]
      <4>1. was.denials[u] <= made[x].denials[u]
        BY <2>1, <2>3 DEF was
      <4>2. was.denials[u] \in 0 .. Threshold + 1 /\ made[x].denials[u] \in 0 .. Threshold + 1
        BY <1>9, <1>10
      <4>3. CASE u = sig
        <5>1. e.denials[u] = Capped(was.denials[u] + 1) /\ d[u] = Capped(made[x].denials[u] + 1)
          BY <1>9, <1>11, <4>3
        <5>2. Capped(was.denials[u] + 1) <= Capped(made[x].denials[u] + 1)
          BY <4>1, <4>2, CappedGrows
        <5>. QED BY <1>8, <1>12, <1>13, <2>3, <5>1, <5>2
      <4>4. CASE u # sig
        <5>1. e.denials[u] = was.denials[u] /\ d[u] = made[x].denials[u]
          BY <1>9, <1>11, <4>4
        <5>. QED BY <1>8, <1>12, <1>13, <2>3, <4>1, <5>1
      <4>. QED BY <4>3, <4>4
    <3>. QED BY <3>1, <3>2
  <2>. QED BY <2>2, <2>3
<1>20. \A y \in Slots : c.entry[y].findings = ReadCache.entry[y].findings
                        /\ c.entry[y].editCount = ReadCache.entry[y].editCount
  BY <1>8, <1>9 DEF was
<1>21. ASSUME NEW u \in Sessions, NEW k \in Files, NEW y \in c.entry[<<u, k>>].findings
       PROVE  Told(u, k, y)'
  <2>1. y \in ReadCache.entry[<<u, k>>].findings
    BY <1>20, <1>21, SlotOf
  <2>2. Told(u, k, y)
    BY <2>1, ReadTold
  <2>. QED BY <1>18, <2>2, ToldOn
<1>22. ASSUME NEW y \in Slots, c.entry[y].editCount > Threshold PROVE Announced(y)'
  <2>1. Announced(y)
    BY <1>20, <1>22, ReadAnnounced
  <2>. QED BY <1>18, <2>1, AnnouncedOn
<1>23. CopyOK(g)'
  BY <1>16, <1>17, <1>19, <1>21, <1>22 DEF CopyOK, Honest
<1>24. RunOK(g)'
  <2>1. SaysOK(r) /\ c \in Caches
    BY <1>8, <1>16 DEF SaysOK
  <2>. QED BY <1>4, <1>16, <1>17, <1>23, <2>1 DEF RunOK
<1>25. \A q \in Procs : RunOK(q)'
  <2>1. ASSUME NEW q \in Procs, q # g PROVE RunOK(q)'
    BY <1>14, <1>15, <1>17, <1>18, <2>1, RunKept
  <2>. QED BY <1>24, <2>1
<1>26. CacheInv'
  BY <1>1, <1>14, <1>15, <1>18, CacheKept
<1>27. DOMAIN proc' = Procs /\ proc' = [q \in Procs |-> proc'[q]]
  BY <1>1 DEF HookInv
<1>. QED BY <1>14, <1>25, <1>26, <1>27 DEF HookInv

LEMMA EmissionFacts ==
  ASSUME NEW l \in LookRec, NEW quiet \in BOOLEAN
  PROVE  /\ Emission(l, quiet) \in Says
         /\ l.fresh # {} => Emission(l, quiet) = "fresh"
         /\ l.crossed # {} => Emission(l, quiet) = "suppression" \/ NoChance(l, quiet)
<1>1. CASE l.fresh # {}
  BY <1>1 DEF Emission, NoChance, Says
<1>2. CASE l.fresh = {} /\ (quiet \/ (l.threw /\ l.pending \cup l.clean = {}))
  BY <1>2 DEF Emission, NoChance, Says
<1>3. CASE l.fresh = {} /\ ~(quiet \/ (l.threw /\ l.pending \cup l.clean = {}))
  <2>1. Emission(l, quiet) = IF l.pending \cap AckFiles # {} THEN "ack"
                             ELSE IF l.crossed # {} THEN "suppression"
                             ELSE IF l.clean \cap AckFiles # {} THEN "ack" ELSE "silent"
    BY <1>3 DEF Emission
  <2>. QED BY <1>3, <2>1 DEF NoChance, Says
<1>. QED BY <1>1, <1>2, <1>3

\* An edit is counted in the copy, once for every file that was edited, and, at
\* the same moment, in truth.
LEMMA AfterEditStep == ASSUME HookInv, NEW h \in Hooks, AfterEdit(h) PROVE HookInv'
<1>1. PICK s \in Sessions, t \in Targets :
        /\ made' = [x \in Slots |-> IF x[1] = s /\ x[2] \in t.primary
                                    THEN [made[x] EXCEPT !.editCount = made[x].editCount + 1] ELSE made[x]]
        /\ IF ~Enabled THEN UNCHANGED proc
           ELSE \E found \in [Range(t.scan) -> (SUBSET Rules) \cup {Threw}], quiet \in Quiets :
                  LET l == Scanned(s, t, found)
                  IN  proc' = [proc EXCEPT ![h] =
                        [Idle EXCEPT !.pc = "open", !.s = s, !.cache = l.cache, !.fresh = l.fresh,
                                     !.crossed = l.crossed, !.says = Emission(l, quiet),
                                     !.excused = NoChance(l, quiet) /\ l.crossed # {}]]
  BY DEF AfterEdit
<1>2. /\ proc[h].pc = "idle" /\ left.edits > 0 /\ left' = Spent("edits")
      /\ UNCHANGED <<settings, cache, write, heard, noticed, revived>>
  BY DEF AfterEdit
<1> DEFINE Edited1(x) == x[1] = s /\ x[2] \in t.primary
<1>3. RestOK /\ cache \in Caches /\ h \in Procs
  BY DEF HookInv, CacheInv, Procs
<1>4. ASSUME NEW x \in Slots
      PROVE  /\ made'[x] \in EntryRec /\ made'[x].denials = made[x].denials
             /\ made'[x].editCount = made[x].editCount + (IF Edited1(x) THEN 1 ELSE 0)
  <2>1. made[x] \in EntryRec /\ made[x].editCount \in Nat
    BY <1>3, MadeFacts
  <2>2. made'[x] = IF Edited1(x) THEN [made[x] EXCEPT !.editCount = made[x].editCount + 1] ELSE made[x]
    BY <1>1
  <2> HIDE DEF Edited1
  <2>. QED BY <2>1, <2>2 DEF EntryRec
<1>5. left' \in [edits : Nat, commands : Nat, faults : Nat, asks : Nat]
  BY <1>2, <1>3 DEF RestOK, ConfigTypeOK, Spent
<1>6. RestOK'
  <2>1. made' \in [Slots -> EntryRec]
    BY <1>1, <1>4
  <2>. QED BY <1>2, <1>3, <1>5, <2>1 DEF RestOK, ConfigTypeOK, settings
<1> HIDE DEF Edited1
<1>7. Grows
  <2>1. ASSUME NEW x \in Slots
        PROVE  /\ made[x].editCount <= made'[x].editCount
               /\ \A sig \in Signatures : made[x].denials[sig] <= made'[x].denials[sig]
    <3>1. made[x].editCount \in Nat /\ made[x].denials \in [Signatures -> 0 .. Threshold + 1]
      BY <1>3, MadeFacts
    <3>2. made[x].editCount <= made'[x].editCount
      BY <1>4, <3>1
    <3>3. ASSUME NEW sig \in Signatures PROVE made[x].denials[sig] <= made'[x].denials[sig]
      <4>1. made[x].denials[sig] \in 0 .. Threshold + 1
        BY <3>1
      <4>. QED BY <1>4, <4>1, HookAssumption
    <3>. QED BY <3>2, <3>3
  <2>. QED BY <1>2, <2>1 DEF Grows
<1>8. CASE ~Enabled
  BY <1>1, <1>2, <1>6, <1>7, <1>8, RunsKept
<1>9. CASE Enabled
  <2>1. PICK found \in [Range(t.scan) -> (SUBSET Rules) \cup {Threw}], quiet \in Quiets :
          LET l == Scanned(s, t, found)
          IN  proc' = [proc EXCEPT ![h] =
                [Idle EXCEPT !.pc = "open", !.s = s, !.cache = l.cache, !.fresh = l.fresh,
                             !.crossed = l.crossed, !.says = Emission(l, quiet),
                             !.excused = NoChance(l, quiet) /\ l.crossed # {}]]
    BY <1>1, <1>9
  <2> DEFINE l == Scanned(s, t, found)
             excused == NoChance(l, quiet) /\ l.crossed # {}
             says == Emission(l, quiet)
             r == [Idle EXCEPT !.pc = "open", !.s = s, !.cache = l.cache, !.fresh = l.fresh,
                               !.crossed = l.crossed, !.says = says, !.excused = excused]
  <2>2. proc' = [proc EXCEPT ![h] = r]
    BY <2>1
  <2>3. t.scan \in Seq(Files) /\ IsInjective(t.scan) /\ quiet \in BOOLEAN
    BY HookAssumption
  <2>4. ScanOK(l, s, t.primary)
    BY <1>3, <2>3, ScannedOK
  <2> HIDE DEF l
  <2>5. /\ l \in LookRec /\ l.cache \in Caches /\ l.cache.is = "json"
        /\ l.fresh \in SUBSET (Files \X Rules) /\ l.crossed \in SUBSET Files
        /\ \A x \in Slots : SlotOK(l, s, t.primary, x)
    BY <2>4 DEF ScanOK, LookRec
  <2>6. /\ says \in Says /\ (l.fresh # {} => says = "fresh")
        /\ l.crossed # {} => says = "suppression" \/ NoChance(l, quiet)
    BY <2>3, <2>5, EmissionFacts
  <2>7. excused \in BOOLEAN /\ (l.crossed # {} => says = "suppression" \/ excused)
    BY <2>6
  <2> HIDE DEF excused, says
  <2>8. l.cache \in [is : {"none", "json"}, order : Seq(Sessions), entry : [Slots -> EntryRec]]
    BY <2>5 DEF Caches
  <2>9. /\ r \in RunRec /\ r.pc = "open" /\ r.s = s /\ r.cache = l.cache /\ r.fresh = l.fresh
        /\ r.crossed = l.crossed /\ r.says = says /\ r.excused = excused /\ ~r.saved
    BY <2>5, <2>6, <2>7, <2>8, IdleOK DEF RunRec
  <2> HIDE DEF r
  <2>10. /\ proc'[h] = r /\ \A q \in Procs : q # h => proc'[q] = proc[q]
         /\ DOMAIN proc' = Procs /\ proc' = [q \in Procs |-> proc'[q]]
    BY <1>3, <2>2 DEF HookInv
  <2>11. TellsOn
    <3>1. ~proc[h].saved
      BY <1>2, <1>3 DEF HookInv, RunOK
    <3>2. \A k \in Hooks : proc[k].saved => proc'[k] = proc[k]
      BY <2>10, <3>1 DEF Procs
    <3>. QED BY <1>2, <3>2 DEF TellsOn
  <2>12. ASSUME ~revived', NEW x \in Slots
         PROVE  /\ l.cache.entry[x].editCount <= made'[x].editCount
                /\ \A sig \in Signatures : l.cache.entry[x].denials[sig] <= made'[x].denials[sig]
    <3>1. /\ ReadCache.entry[x].editCount <= made[x].editCount
          /\ \A sig \in Signatures : ReadCache.entry[x].denials[sig] <= made[x].denials[sig]
      BY <1>2, <2>12, ReadHonest
    <3>2. /\ l.cache.entry[x].denials = ReadCache.entry[x].denials
          /\ l.cache.entry[x].editCount <= ReadCache.entry[x].editCount + (IF Edited1(x) THEN 1 ELSE 0)
      BY <2>5 DEF SlotOK, Edited1
    <3>3. /\ l.cache.entry[x].editCount \in Nat /\ ReadCache.entry[x].editCount \in Nat
          /\ made[x].editCount \in Nat
      BY <1>3, <2>5, ReadFacts, EntryFacts, MadeFacts
    <3>. QED BY <1>4, <3>1, <3>2, <3>3
  <2>13. ASSUME NEW u \in Sessions, NEW f \in Files, NEW y \in l.cache.entry[<<u, f>>].findings
         PROVE  Told(u, f, y)' \/ (r.s = u /\ <<f, y>> \in r.fresh)
    <3>1. y \in ReadCache.entry[<<u, f>>].findings \/ (u = s /\ <<f, y>> \in l.fresh)
      BY <2>5, <2>13, SlotOf DEF SlotOK
    <3>2. CASE y \in ReadCache.entry[<<u, f>>].findings
      <4>1. Told(u, f, y)
        BY <3>2, ReadTold
      <4>. QED BY <2>11, <4>1, ToldOn
    <3>. QED BY <2>9, <3>1, <3>2
  <2>14. ASSUME NEW x \in Slots, l.cache.entry[x].editCount > Threshold
         PROVE  Announced(x)' \/ (r.s = x[1] /\ x[2] \in r.crossed)
    <3>1. ReadCache.entry[x].editCount > Threshold \/ (x[1] = s /\ x[2] \in l.crossed)
      BY <2>5, <2>14 DEF SlotOK
    <3>2. CASE ReadCache.entry[x].editCount > Threshold
      <4>1. Announced(x)
        BY <3>2, ReadAnnounced
      <4>. QED BY <2>11, <4>1, AnnouncedOn
    <3>. QED BY <2>9, <3>1, <3>2
  <2>15. CopyOK(h)'
    BY <2>9, <2>10, <2>12, <2>13, <2>14 DEF CopyOK, Honest
  <2>16. RunOK(h)'
    <3>1. SaysOK(r) /\ h \notin Gates
      BY <2>6, <2>7, <2>9, HookAssumption DEF SaysOK
    <3>. QED BY <2>5, <2>9, <2>10, <2>15, <3>1 DEF RunOK
  <2>17. \A q \in Procs : RunOK(q)'
    <3>1. ASSUME NEW q \in Procs, q # h PROVE RunOK(q)'
      BY <1>6, <1>7, <2>10, <2>11, <3>1, RunKept
    <3>. QED BY <2>16, <3>1
  <2>18. CacheInv'
    BY <1>2, <1>6, <1>7, <2>11, CacheKept
  <2>. QED BY <1>6, <2>10, <2>17, <2>18 DEF HookInv
<1>. QED BY <1>8, <1>9

\* The cache is removed.  A run that has it open writes into the removed one; a
\* run that holds a copy may yet write counts of before, which is what `revived`
\* is for.
LEMMA ForgetCacheStep == ASSUME HookInv, Inv', ForgetCache PROVE HookInv'
<1>1. /\ cache' = NoCache /\ revived' = FALSE
      /\ made' = [x \in Slots |-> NewEntry]
      /\ proc' = [p \in Procs |->
           IF proc[p].pc \in {"write", "mixed"} THEN [proc[p] EXCEPT !.pc = "answer"]
           ELSE IF proc[p].pc = "open" THEN [proc[p] EXCEPT !.spans = TRUE]
           ELSE proc[p]]
      /\ UNCHANGED <<config, left, confirmed, write, heard, noticed>>
  BY DEF ForgetCache
<1>2. admin' \in [todo : Seq(Task), open : BOOLEAN, next : ConfigFile]
  BY DEF Inv, Shape, Jobs
<1>3. made' \in [Slots -> EntryRec]
  BY <1>1, NewEntryOK
<1>4. RestOK'
  BY <1>1, <1>2, <1>3 DEF HookInv, RestOK, ConfigTypeOK
<1>5. CacheInv'
  BY <1>1, <1>4, CacheEmptied
<1>6. ASSUME NEW p \in Procs
      PROVE  /\ proc'[p] \in RunRec /\ proc'[p].s = proc[p].s /\ proc'[p].cache = proc[p].cache
             /\ proc'[p].fresh = proc[p].fresh /\ proc'[p].crossed = proc[p].crossed
             /\ proc'[p].says = proc[p].says /\ proc'[p].excused = proc[p].excused
             /\ proc'[p].f = proc[p].f /\ proc'[p].sig = proc[p].sig /\ proc'[p].saved = proc[p].saved
             /\ proc[p].pc = "idle" => proc'[p].pc = "idle"
             /\ proc[p].pc = "answer" => proc'[p].pc = "answer"
             /\ proc'[p].pc \in {"open", "write", "mixed"} => proc[p].pc = "open" /\ proc'[p].spans
  <2>1. proc[p] \in RunRec
    BY DEF HookInv, RunOK
  <2>2. proc'[p] = IF proc[p].pc \in {"write", "mixed"} THEN [proc[p] EXCEPT !.pc = "answer"]
                   ELSE IF proc[p].pc = "open" THEN [proc[p] EXCEPT !.spans = TRUE]
                   ELSE proc[p]
    BY <1>1
  <2>3. CASE proc[p].pc \in {"write", "mixed"}
    <3>1. proc'[p] = [proc[p] EXCEPT !.pc = "answer"]
      BY <2>2, <2>3
    <3>2. proc'[p] \in RunRec
      BY <2>1, <3>1 DEF RunRec
    <3>. QED BY <2>1, <2>3, <3>1, <3>2 DEF RunRec
  <2>4. CASE proc[p].pc = "open"
    <3>1. proc'[p] = [proc[p] EXCEPT !.spans = TRUE]
      BY <2>2, <2>4
    <3>2. proc'[p] \in RunRec
      BY <2>1, <3>1 DEF RunRec
    <3>. QED BY <2>1, <2>4, <3>1, <3>2 DEF RunRec
  <2>5. CASE proc[p].pc \notin {"open", "write", "mixed"}
    BY <2>1, <2>2, <2>5
  <2>. QED BY <2>3, <2>4, <2>5
<1>7. TellsOn
  BY <1>1, <1>6 DEF TellsOn, Procs
<1>8. ASSUME NEW p \in Procs PROVE RunOK(p)'
  <2> DEFINE r == proc[p]
             n == proc'[p]
  <2>1. RunOK(p) /\ n \in RunRec
    BY <1>6 DEF HookInv
  <2>2. /\ n.s = r.s /\ n.cache = r.cache /\ n.fresh = r.fresh /\ n.crossed = r.crossed
        /\ n.says = r.says /\ n.excused = r.excused /\ n.f = r.f /\ n.sig = r.sig /\ n.saved = r.saved
        /\ (r.pc = "idle" => n.pc = "idle") /\ (r.pc = "answer" => n.pc = "answer")
        /\ n.pc \in {"open", "write", "mixed"} => r.pc = "open" /\ n.spans
    BY <1>6
  <2>3. n.pc # "idle" => r.pc # "idle"
    BY <2>2
  <2> HIDE DEF r, n
  <2>4. /\ n.cache \in Caches /\ SaysOK(n) /\ (n.saved => n.pc = "answer")
        /\ p \in Gates => n.fresh = {} /\ n.crossed = {}
        /\ p \in Gates /\ n.pc # "idle" => n.s \in Sessions /\ n.f \in Files /\ n.sig \in Signatures
        /\ p \in Hooks /\ n.pc # "idle" => n.s \in Sessions
    BY <2>1, <2>2, <2>3 DEF RunOK, SaysOK, r
  <2>5. ASSUME Saves(p)' PROVE CopyOK(p)'
    <3>1. r.pc = "open" /\ n.spans
      BY <2>2, <2>5 DEF Saves, n
    <3>2. CopyOK(p)
      BY <2>1, <3>1 DEF RunOK, Saves, r
    <3>3. ASSUME NEW s \in Sessions, NEW f \in Files, NEW x \in n.cache.entry[<<s, f>>].findings
          PROVE  Told(s, f, x)' \/ (n.s = s /\ <<f, x>> \in n.fresh)
      <4>1. Told(s, f, x) \/ (n.s = s /\ <<f, x>> \in n.fresh)
        BY <2>2, <3>2, <3>3 DEF CopyOK, r
      <4>. QED BY <1>7, <4>1, ToldOn
    <3>4. ASSUME NEW x \in Slots, n.cache.entry[x].editCount > Threshold
          PROVE  Announced(x)' \/ (n.s = x[1] /\ x[2] \in n.crossed)
      <4>1. Announced(x) \/ (n.s = x[1] /\ x[2] \in n.crossed)
        BY <2>2, <3>2, <3>4 DEF CopyOK, r
      <4>. QED BY <1>7, <4>1, AnnouncedOn
    <3>. QED BY <3>1, <3>3, <3>4 DEF CopyOK, n
  <2>. QED BY <2>1, <2>4, <2>5 DEF RunOK, n
<1>9. DOMAIN proc' = Procs /\ proc' = [q \in Procs |-> proc'[q]]
  BY <1>1
<1>. QED BY <1>4, <1>5, <1>8, <1>9 DEF HookInv

\* The commands that change the configuration.
LEMMA ConfigStep == ASSUME HookInv, Inv, Inv', ConfigNext, UNCHANGED hookvars PROVE HookInv'
<1>1. config' \in [Places -> ConfigFile] /\ admin' \in [todo : Seq(Task), open : BOOLEAN, next : ConfigFile]
  BY DEF Inv, Shape, Jobs
<1>2. left' \in [edits : Nat, commands : Nat, faults : Nat, asks : Nat]
  BY DEF HookInv, RestOK, ConfigTypeOK, ConfigNext, Command, OpenConfig, WriteConfig, RemoveConfig, Spent
<1>3. confirmed' \subseteq Ignorable
  <2>1. confirmed \subseteq Ignorable
    BY DEF HookInv, RestOK, ConfigTypeOK
  <2>2. CASE WriteConfig
    <3>1. admin.todo \in Jobs /\ admin.todo # <<>>
      BY <2>2 DEF Inv, Shape, Writing, WriteConfig
    <3>2. Task1.op = "ignore" => Task1.what \in Ignorable
      BY <3>1, RestOfJobs DEF Task1
    <3>. QED BY <2>1, <2>2, <3>2 DEF WriteConfig
  <2>3. CASE Command \/ OpenConfig \/ RemoveConfig
    <3>1. confirmed' \subseteq confirmed
      BY <2>3 DEF Command, OpenConfig, RemoveConfig
    <3>. QED BY <2>1, <3>1
  <2>. QED BY <2>2, <2>3 DEF ConfigNext
<1>4. UNCHANGED <<cache, proc, write, made, heard, noticed, revived>>
  BY DEF hookvars
<1>5. RestOK'
  BY <1>1, <1>2, <1>3, <1>4 DEF HookInv, RestOK, ConfigTypeOK
<1>6. Grows
  BY <1>4, SameCounts DEF HookInv
<1>. QED BY <1>4, <1>5, <1>6, RunsKept

LEMMA InitHookInv == HookInit => HookInv
<1> SUFFICES ASSUME HookInit PROVE HookInv
  OBVIOUS
<1>1. /\ cache = NoCache /\ proc = [p \in Procs |-> Idle] /\ write = [g \in Gates |-> NoWrite]
      /\ made = [x \in Slots |-> NewEntry] /\ heard = [s \in Sessions |-> {}] /\ noticed = {}
      /\ revived = FALSE /\ ConfigInit
  BY DEF HookInit
<1>2. ConfigTypeOK
  <2>1. config \in [Places -> ConfigFile] /\ admin \in [todo : Seq(Task), open : BOOLEAN, next : ConfigFile]
    BY InitInv DEF Inv, Shape, Jobs
  <2>2. confirmed \subseteq Ignorable /\ left \in Budgets
    BY <1>1 DEF ConfigInit, Ignorable
  <2>. QED BY <2>1, <2>2, BudgetAssumption DEF ConfigTypeOK
<1>3. RestOK
  <2>1. write \in [Gates -> [is : {"none", "asking", "landed"}, s : Sessions \cup {Nobody},
                             f : Files \cup {"-"}, sig : SUBSET Rules]]
    BY <1>1 DEF NoWrite
  <2>2. made \in [Slots -> EntryRec]
    BY <1>1, NewEntryOK
  <2>. QED BY <1>1, <1>2, <2>1, <2>2 DEF RestOK
<1>4. NoCache \in Caches /\ Len(NoCache.order) = 0 /\ \A x \in Slots : NoCache.entry[x] = NewEntry
  BY NoCacheOK
<1>5. CacheInv
  <2>1. Threshold \in Nat /\ MaxSessions \in Nat
    BY HookAssumption
  <2>2. NothingSwallowed
    BY <1>1, <1>4, NewEntryOK, SlotOf DEF NothingSwallowed
  <2>3. Honest(cache)
    <3>1. \A x \in Slots : cache.entry[x] = NewEntry /\ made[x] = NewEntry
      BY <1>1, <1>4
    <3>2. \A sig \in Signatures : NewEntry.denials[sig] = 0
      BY DEF NewEntry
    <3>. QED BY <3>1, <3>2, NewEntryOK DEF Honest
  <2>4. SuppressionAnnounced
    BY <1>1, <1>4, <2>1, NewEntryOK DEF SuppressionAnnounced
  <2>. QED BY <1>1, <1>4, <2>1, <2>2, <2>3, <2>4 DEF CacheInv, CountsHonest
<1>6. \A p \in Procs : RunOK(p)
  BY <1>1, IdleOK DEF RunOK, Saves
<1>. QED BY <1>1, <1>3, <1>5, <1>6 DEF HookInv

LEMMA NextHookInv == Inv /\ HookInv /\ [Next]_vars => HookInv'
<1> SUFFICES ASSUME Inv, HookInv, [Next]_vars PROVE HookInv'
  OBVIOUS
<1>1. Inv'
  BY NextInv
<1>2. CASE ConfigNext /\ UNCHANGED hookvars
  BY <1>1, <1>2, ConfigStep
<1>3. CASE ForgetCache
  BY <1>1, <1>3, ForgetCacheStep
<1>4. CASE \E h \in Hooks : AfterEdit(h)
  BY <1>4, AfterEditStep
<1>5. CASE \E g \in Gates : Ask(g)
  BY <1>5, AskStep
<1>6. ASSUME NEW p \in Procs, Run(p) \/ CannotWrite(p) \/ Kill(p) PROVE HookInv'
  BY <1>6, OpenCacheStep, WriteCacheStep, AnswerStep, LoadAndBumpStep, DecideStep,
     CannotWriteStep, KillStep DEF Run
<1>7. CASE UNCHANGED vars
  <2>1. UNCHANGED <<cache, proc, write, made, heard, noticed, revived, config, admin, left, confirmed>>
    BY <1>7 DEF vars, hookvars, configvars
  <2>2. RestOK' /\ Grows
    BY <2>1, SameCounts DEF HookInv, RestOK, ConfigTypeOK
  <2>. QED BY <2>1, <2>2, RunsKept
<1>. QED BY <1>2, <1>3, <1>4, <1>5, <1>6, <1>7 DEF Next

LEMMA HookInvTyped == HookInv => HookTypeOK
<1> SUFFICES ASSUME HookInv PROVE HookTypeOK
  OBVIOUS
<1>1. RestOK /\ cache \in Caches /\ Len(cache.order) <= MaxSessions
  BY DEF HookInv, CacheInv
<1>2. \A p \in Procs : proc[p] \in RunRec
  BY DEF HookInv, RunOK
<1>3. proc \in [Procs -> RunRec]
  BY <1>2 DEF HookInv
<1>. QED BY <1>1, <1>3 DEF RestOK, Caches, HookTypeOK

LEMMA HookInvHolds == Spec => []HookInv
<1>1. HookInit => Inv /\ HookInv
  BY InitInv, InitHookInv
<1>2. Inv /\ HookInv /\ [Next]_vars => (Inv /\ HookInv)'
  BY NextInv, NextHookInv
<1>. QED BY <1>1, <1>2, PTL DEF Spec

\* What the cache, the runs and the configuration may hold: no more sessions
\* than the cache keeps, each of them once, and nothing for a session that it
\* has dropped; whatever runs overwrite each other's text, are killed, or have
\* the cache removed under them.
THEOREM HookTyped == Spec => []HookTypeOK
<1>1. HookInv => HookTypeOK
  BY HookInvTyped
<1>. QED BY <1>1, HookInvHolds, PTL

\* No finding is held back as an old one from a session that was never told it,
\* for any number of sessions, runs, files and rules: a run says what it has
\* remembered, and the copies that other runs hold remember nothing that no run
\* is about to say (dedupeAgainstCache, rememberFindings).
THEOREM NothingHeldBack == Spec => []NothingSwallowed
<1>1. HookInv => NothingSwallowed
  BY DEF HookInv, CacheInv
<1>. QED BY <1>1, HookInvHolds, PTL

\* The counts by which hints are hidden and writes let through are never above
\* what there was since the last reset, but after a run that spans the reset:
\* runs that overwrite each other lose counts and invent none.
THEOREM CountsTrue == Spec => []CountsHonest
<1>1. HookInv => CountsHonest
  BY DEF HookInv, CacheInv
<1>. QED BY <1>1, HookInvHolds, PTL

\* A session whose hints on a file are hidden was told so, is about to be, or
\* had a run that could not tell it: the run that brings the count over the
\* threshold is the one that tells, and no other run can have brought it there.
THEOREM HidingAnnounced == Spec => []SuppressionAnnounced
<1>1. HookInv => SuppressionAnnounced
  BY DEF HookInv, CacheInv
<1>. QED BY <1>1, HookInvHolds, PTL
=============================================================================
