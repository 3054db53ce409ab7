---------------------------- MODULE LiveModeProofs ---------------------------
(* Proofs about live mode.  LiveNext is made of the helper's own steps, so   *)
(* what the helper promises to anybody who calls it is proved once, of       *)
(* LiveServer!Next, and holds of live mode because LiveSteps shows that      *)
(* every step of the agents, the pages and the network is one of them, or    *)
(* the exit of a user who asked for it.                                      *)
(*                                                                           *)
(* PendingQueued is not inductive: a restart restores the sessions that are  *)
(* active, so a session that is over must have nothing pending (SettledEnds), *)
(* and the queue and the journal must hold records of the shape that the     *)
(* updates assume (QueueShape, JournalShape).  The types of the helper need  *)
(* that it numbers the queue's entries apart and that finitely many sessions *)
(* are known (Fresh, Few); those of the pages, that an agent at work has a   *)
(* request, and that a page that is gone has nothing under way (AgentInv,    *)
(* TabInv, CallInv).  ExitMeansGone needs that an exit is in the queue only  *)
(* when no page is connected or the user has asked (ExitInv).                *)
EXTENDS LiveMode, FiniteSetTheorems, SequenceTheorems, WellFoundedInduction, TLAPS

QueueShape(q) ==
  \A e \in q : e = [id |-> e.id, type |-> e.type, leased |-> e.leased, seq |-> e.seq]

JournalShape(j) == j \in [Sessions -> Snapshot]

\* A session that is over has nothing pending.
SettledEnds(j) == \A s \in Sessions : j[s].phase \in Terminal => j[s].pending = None

Holds(q, s, type) == \E e \in q : Key(e) = <<s, type>>

\* The queue q holds what is pending in j, but for the sessions of m.
Covered(q, j, m) ==
  \A s \in Sessions : (j[s].pending # None /\ s \notin m) => Holds(q, s, j[s].pending)

Inv ==
  /\ QueueShape(queue) /\ JournalShape(journal) /\ SettledEnds(journal)
  /\ up => Covered(queue, journal, missed)

-----------------------------------------------------------------------------
(* What the helper keeps.                                                  *)

Fresh(q) == \A e, f \in q : e.seq = f.seq \/ (Key(e) = Key(f) /\ e.id # NoId) => e = f

QueueOK(q) ==
  /\ IsFiniteSet(q) /\ q \subseteq Entry
  /\ \A e \in q : e.id = NoId <=> e.type = "exit"
  /\ \A e \in q : e.leased => e.id # NoId
  /\ Fresh(q)

PollsOK(p) == p \in Seq(Agents) /\ IsInjective(p)

\* An answer to a poll: none, an exit, or the request of a session.
Letters == {NoMail} \cup [id : {NoId}, type : {"exit"}] \cup [id : Sessions, type : Requests]

\* The sessions with an entry in the journal are finitely many.
Few(j) == IsFiniteSet({s \in Sessions : Known(j[s])})

Hellos == UNION {[S -> [phase : Phases, file : BOOLEAN]] : S \in SUBSET Sessions}

\* What a tab can be told.
News == [type : ReplyTypes, id : Sessions, sessions : {<<>>}]
          \cup [type : {"connected"}, id : {NoId}, sessions : Hellos]

ServerInv ==
  /\ up \in BOOLEAN /\ exitTimer \in BOOLEAN
  /\ QueueOK(queue) /\ PollsOK(polls)
  /\ mail \in [Agents -> Letters]
  /\ clients \in SUBSET Tabs /\ missed \in SUBSET Sessions
  /\ told \in [Tabs -> Seq(News)]
  /\ Few(journal)

-----------------------------------------------------------------------------
(* The agents and the pages.                                               *)

Working == {"script", "edit", "reply", "cleanup", "finish"}

AgentInv(r) ==
  /\ r \in Agent
  /\ r.pc \in Working => r.id \in Sessions /\ r.type \in Requests
  /\ r.pc = "script" => r.type \in {"accept", "discard"}
  /\ r.pc = "reply" => r.reply \in ReplyTypes

Revisions == 0 .. MaxRevision

\* A page that is gone does nothing more.
TabInv(r) ==
  /\ r \in Tab /\ r.revision \in Revisions
  /\ r.ui = "gone" => /\ r.sess = NoId /\ r.watch = NoId /\ r.settling = NoId /\ r.steer = NoId
                      /\ r.inject = {} /\ ~r.scout /\ ~r.dirty

SavedInv(r) == r \in [id : Ids, ui : Ui, arrived : BOOLEAN, file : BOOLEAN, revision : Revisions]

\* A request of a page: an event of a session, a checkpoint, or an exit that the
\* user has asked for.
Posts == [tab : Tabs, type : Requests \cup {"checkpoint", "exit"}, id : Ids,
          phase : Overlay \cup {None}, revision : Revisions,
          at : {"capture", "sent", "ok", "failed"}, await : BOOLEAN]

CallInv(c) ==
  /\ c \in Posts
  /\ c.type # "exit" => c.id \in Sessions
  /\ c.type = "checkpoint" => c.phase \in Overlay
  /\ c.at = "capture" => c.type = "generate"
  /\ c.await => c.type \in {"accept", "discard", "steer"} /\ tab[c.tab].ui # "gone"
  /\ c.type = "exit" => asked

AgentsInv ==
  /\ agent \in [Agents -> Agent] /\ \A a \in Agents : AgentInv(agent[a])
  /\ src \in [Sessions -> SourceStates]

TabsInv == tab \in [Tabs -> Tab] /\ \A t \in Tabs : TabInv(tab[t])

CallsInv == \A c \in calls : CallInv(c)

BrowserInv ==
  TabsInv /\ SavedInv(saved) /\ handled \in Ids /\ used \in SUBSET Sessions /\ CallsInv

CountsInv == faults \in 0 .. MaxFaults /\ decided \in BOOLEAN /\ asked \in BOOLEAN

PagesInv == AgentsInv /\ BrowserInv /\ CountsInv

\* An exit is queued only while no page is connected, or for a user who asked.
HasExit(q) == \E e \in q : e.type = "exit"

ExitInv == up /\ HasExit(queue) => clients = {} \/ asked

LiveInv == Inv /\ ServerInv /\ PagesInv /\ ExitInv

-----------------------------------------------------------------------------
(* The queue.                                                              *)

\* leaseEvent keeps every entry of a session.
LEMMA LeasedKeeps ==
  ASSUME NEW q, NEW out, out \subseteq q, QueueShape(q)
  PROVE  /\ QueueShape(Leased(q, out))
         /\ \A s, type : s # NoId /\ Holds(q, s, type) => Holds(Leased(q, out), s, type)
<1>1. QueueShape(Leased(q, out))
  BY DEF QueueShape, Leased
<1>2. ASSUME NEW s, NEW type, s # NoId, Holds(q, s, type)
      PROVE  Holds(Leased(q, out), s, type)
  <2>1. PICK e \in q : Key(e) = <<s, type>>
    BY <1>2 DEF Holds
  <2>2. CASE e \in out
    <3> DEFINE f == [e EXCEPT !.leased = TRUE]
    <3>1. f \in Leased(q, out)
      BY <1>2, <2>1, <2>2 DEF Leased, Key
    <3>2. Key(f) = <<s, type>>
      BY <2>1 DEF Key, QueueShape
    <3> QED BY <3>1, <3>2 DEF Holds
  <2>3. CASE e \notin out
    BY <2>1, <2>3 DEF Leased, Holds
  <2> QED BY <2>2, <2>3
<1> QED BY <1>1, <1>2

\* flushPendingPolls leases some of the entries.
LEMMA FlushKeeps ==
  ASSUME NEW q, QueueShape(q), Flush(q)
  PROVE  /\ QueueShape(queue')
         /\ \A s, type : s # NoId /\ Holds(q, s, type) => Holds(queue', s, type)
<1> DEFINE n   == Min({Len(polls), Cardinality(Available(q))})
           out == {e \in Available(q) : Rank(q, e) <= n}
<1>1. queue' = Leased(q, out)
  BY DEF Flush
<1>2. out \subseteq q
  BY DEF Available
<1> HIDE DEF out
<1> QED BY <1>1, <1>2, LeasedKeeps

\* enqueueEvent keeps what is queued, and queues the event.
LEMMA EnqueueKeeps ==
  ASSUME NEW id, NEW type, QueueShape(queue), Enqueue(id, type)
  PROVE  /\ QueueShape(queue')
         /\ \A s, t : s # NoId /\ Holds(queue, s, t) => Holds(queue', s, t)
         /\ id # NoId => Holds(queue', id, type)
<1> DEFINE new == [id |-> id, type |-> type, leased |-> FALSE, seq |-> NextSeq(queue)]
           q   == queue \cup {new}
<1>1. CASE IsQueued(id, type)
  BY <1>1 DEF Enqueue, IsQueued, Holds
<1>2. CASE ~IsQueued(id, type)
  <2>1. Flush(q)
    BY <1>2 DEF Enqueue
  <2>2. QueueShape(q)
    BY DEF QueueShape
  <2>3. Holds(q, id, type)
    <3>1. new \in q /\ new.id = id /\ new.type = type
      OBVIOUS
    <3> HIDE DEF q, new
    <3> QED BY <3>1 DEF Holds, Key
  <2>4. \A s, t : Holds(queue, s, t) => Holds(q, s, t)
    BY DEF Holds
  <2> HIDE DEF q
  <2> QED BY <2>1, <2>2, <2>3, <2>4, FlushKeeps
<1> QED BY <1>1, <1>2

\* acknowledgePendingEvent takes nothing from another session.
LEMMA AcknowledgedKeeps ==
  ASSUME NEW id, QueueShape(queue)
  PROVE  /\ QueueShape(Acknowledged(queue, id))
         /\ \A s, t : s # id /\ Holds(queue, s, t) => Holds(Acknowledged(queue, id), s, t)
         /\ ~Queued(id) => Acknowledged(queue, id) = queue
BY DEF QueueShape, Acknowledged, Holds, Key, Queued

-----------------------------------------------------------------------------
(* The journal.                                                            *)

\* appendEvent for one session keeps the shape of the journal, and that what is
\* over is settled, if it does so for the session's snapshot.
LEMMA JournalUpdate ==
  ASSUME NEW id \in Sessions, NEW snap, JournalShape(journal), SettledEnds(journal),
         journal' = [journal EXCEPT ![id] = snap],
         snap \in Snapshot,
         snap.phase \in Terminal => snap.pending = None
  PROVE  /\ JournalShape(journal') /\ SettledEnds(journal')
         /\ journal'[id] = snap
         /\ \A s \in Sessions : s # id => journal'[s] = journal[s]
BY DEF JournalShape, SettledEnds

LEMMA PhaseFacts ==
  /\ \A type \in Requests : RequestedPhase(type) \in Phases \ Terminal
  /\ \A type \in Answers, c \in BOOLEAN : AnsweredPhase(type, c) \in Phases
  /\ Overlay \subseteq Phases \ Terminal
  /\ \A type : RecordedAs(type) \in Answers
<1>1. ASSUME NEW type \in Requests
      PROVE  RequestedPhase(type) \in Phases \ Terminal
  <2>1. CASE type = "generate"
    BY <2>1 DEF RequestedPhase, Phases, Terminal
  <2>2. CASE type = "accept"
    BY <2>2 DEF RequestedPhase, Phases, Terminal
  <2>3. CASE type = "discard"
    BY <2>3 DEF RequestedPhase, Phases, Terminal
  <2>4. CASE type = "steer"
    BY <2>4 DEF RequestedPhase, Phases, Terminal
  <2> QED BY <2>1, <2>2, <2>3, <2>4 DEF Requests
<1>2. ASSUME NEW type \in Answers, NEW c \in BOOLEAN
      PROVE  AnsweredPhase(type, c) \in Phases
  <2>1. CASE type = "agent_done"
    BY <2>1 DEF AnsweredPhase, Phases
  <2>2. CASE type = "steer_done"
    BY <2>2 DEF AnsweredPhase, Phases
  <2>3. CASE type = "discarded"
    BY <2>3 DEF AnsweredPhase, Phases, Terminal
  <2>4. CASE type = "complete"
    BY <2>4 DEF AnsweredPhase, Phases, Terminal
  <2>5. CASE type = "agent_error"
    BY <2>5 DEF AnsweredPhase, Phases
  <2> QED BY <2>1, <2>2, <2>3, <2>4, <2>5 DEF Answers
<1>3. Overlay \subseteq Phases \ Terminal
  BY DEF Overlay, Phases, Terminal
<1>4. ASSUME NEW type
      PROVE  RecordedAs(type) \in Answers
  BY DEF RecordedAs, Answers
<1> QED BY <1>1, <1>2, <1>3, <1>4

LEMMA RequestedSnap ==
  ASSUME NEW id \in Sessions, NEW type \in Requests, JournalShape(journal)
  PROVE  LET snap == Requested(journal[id], type)
         IN  snap \in Snapshot /\ snap.pending = type /\ snap.phase \notin Terminal
<1>1. RequestedPhase(type) \in Phases \ Terminal
  BY PhaseFacts
<1>2. journal[id] \in Snapshot
  BY DEF JournalShape
<1> QED BY <1>1, <1>2 DEF Requested, Snapshot

LEMMA AnsweredSnap ==
  ASSUME NEW id \in Sessions, NEW type \in Answers, NEW carbonize \in BOOLEAN,
         JournalShape(journal)
  PROVE  LET snap == Answered(journal[id], type, carbonize)
         IN  snap \in Snapshot /\ snap.pending = None
<1>1. AnsweredPhase(type, carbonize) \in Phases
  BY PhaseFacts
<1>2. journal[id] \in Snapshot
  BY DEF JournalShape
<1>3. (journal[id].file \/ type \in {"agent_done", "complete"}) \in BOOLEAN
  OBVIOUS
<1> QED BY <1>1, <1>2, <1>3 DEF Answered, Snapshot

LEMMA CheckpointedSnap ==
  ASSUME NEW id \in Sessions, NEW phase \in Overlay, NEW revision \in Nat,
         JournalShape(journal), SettledEnds(journal)
  PROVE  LET snap == Checkpointed(journal[id], phase, revision)
         IN  /\ snap \in Snapshot
             /\ snap.pending = journal[id].pending
             /\ snap.phase \in Terminal => snap.pending = None
<1>1. phase \in Phases \ Terminal
  BY PhaseFacts
<1>2. journal[id] \in Snapshot
  BY DEF JournalShape
<1> QED BY <1>1, <1>2 DEF Checkpointed, Snapshot, SettledEnds

-----------------------------------------------------------------------------
(* The handlers.                                                           *)

LEMMA SessionsAreIds == NoId \notin Sessions
BY LiveAssumption

LEMMA StartedInv ==
  ASSUME NEW open, Started(open)
  PROVE  Inv
<1>1. BaseSnapshot \in Snapshot /\ BaseSnapshot.pending = None
  BY DEF BaseSnapshot, Snapshot, Phases
<1>2. queue = {} /\ journal = [s \in Sessions |-> BaseSnapshot]
  BY DEF Started
<1> QED BY <1>1, <1>2 DEF Inv, QueueShape, JournalShape, SettledEnds, Covered

LEMMA PostInv ==
  ASSUME Inv, NEW id \in Sessions, NEW type \in Requests, Post(id, type)
  PROVE  Inv'
<1> DEFINE snap == Requested(journal[id], type)
<1>1. journal' = [journal EXCEPT ![id] = snap] /\ Enqueue(id, type) /\ missed' = missed /\ up
  BY DEF Post
<1>2. /\ JournalShape(journal') /\ SettledEnds(journal') /\ journal'[id] = snap
      /\ \A s \in Sessions : s # id => journal'[s] = journal[s]
  <2>1. /\ snap \in Snapshot
        /\ snap.pending = type /\ snap.phase \notin Terminal
    BY RequestedSnap DEF Inv
  <2> HIDE DEF snap
  <2> QED BY <1>1, <2>1, JournalUpdate DEF Inv
<1>3. snap.pending = type
  BY RequestedSnap DEF Inv
<1>4. /\ QueueShape(queue')
      /\ \A s, t : s # NoId /\ Holds(queue, s, t) => Holds(queue', s, t)
      /\ id # NoId => Holds(queue', id, type)
  BY <1>1, EnqueueKeeps DEF Inv
<1> HIDE DEF snap
<1>5. Covered(queue', journal', missed')
  BY <1>1, <1>2, <1>3, <1>4, SessionsAreIds DEF Inv, Covered
<1> QED BY <1>2, <1>4, <1>5 DEF Inv

LEMMA CheckpointInv ==
  ASSUME Inv, NEW id \in Sessions, NEW phase \in Overlay, NEW revision \in Nat,
         PostCheckpoint(id, phase, revision)
  PROVE  Inv'
<1> DEFINE snap == Checkpointed(journal[id], phase, revision)
<1>1. journal' = [journal EXCEPT ![id] = snap] /\ queue' = queue /\ missed' = missed /\ up
  BY DEF PostCheckpoint
<1>2. /\ snap \in Snapshot
      /\ snap.pending = journal[id].pending
      /\ snap.phase \in Terminal => snap.pending = None
  BY CheckpointedSnap DEF Inv
<1> HIDE DEF snap
<1>3. /\ JournalShape(journal') /\ SettledEnds(journal') /\ journal'[id] = snap
      /\ \A s \in Sessions : s # id => journal'[s] = journal[s]
  BY <1>1, <1>2, JournalUpdate DEF Inv
<1>4. Covered(queue', journal', missed')
  BY <1>1, <1>2, <1>3 DEF Inv, Covered
<1> QED BY <1>1, <1>3, <1>4 DEF Inv

LEMMA ReplyInv ==
  ASSUME Inv, NEW id \in Sessions, NEW type, NEW carbonize \in BOOLEAN,
         Reply(id, type, carbonize)
  PROVE  Inv'
<1> DEFINE snap == Answered(journal[id], RecordedAs(type), carbonize)
           skip == ~Queued(id) /\ journal[id].phase \in Terminal
           q    == Acknowledged(queue, id)
<1>1. /\ journal' = IF skip THEN journal ELSE [journal EXCEPT ![id] = snap]
      /\ Flush(q) /\ missed' = missed /\ up
  BY DEF Reply
<1>2. /\ QueueShape(q)
      /\ \A s, t : s # id /\ Holds(queue, s, t) => Holds(q, s, t)
      /\ ~Queued(id) => q = queue
  BY AcknowledgedKeeps DEF Inv
<1>3. /\ snap \in Snapshot
      /\ snap.pending = None
  BY AnsweredSnap, PhaseFacts DEF Inv
<1> HIDE DEF q, snap
<1>4. /\ QueueShape(queue')
      /\ \A s, t : s # NoId /\ Holds(q, s, t) => Holds(queue', s, t)
  BY <1>1, <1>2, FlushKeeps
<1>5. CASE skip
  <2>1. Covered(queue', journal', missed')
    BY <1>1, <1>2, <1>4, <1>5, SessionsAreIds DEF Inv, Covered
  <2> QED BY <1>1, <1>4, <1>5, <2>1 DEF Inv
<1>6. CASE ~skip
  <2>1. journal' = [journal EXCEPT ![id] = snap]
    BY <1>1, <1>6
  <2>2. /\ JournalShape(journal') /\ SettledEnds(journal') /\ journal'[id] = snap
        /\ \A s \in Sessions : s # id => journal'[s] = journal[s]
    BY <2>1, <1>3, JournalUpdate DEF Inv
  <2>3. Covered(queue', journal', missed')
    BY <1>1, <1>2, <1>3, <1>4, <2>2, SessionsAreIds DEF Inv, Covered
  <2> QED BY <1>4, <2>2, <2>3 DEF Inv
<1> QED BY <1>5, <1>6

LEMMA ReplyUnrecordedInv ==
  ASSUME Inv, NEW id \in Sessions, NEW type, ReplyUnrecorded(id, type)
  PROVE  Inv'
<1> DEFINE q == Acknowledged(queue, id)
<1>1. journal' = journal /\ Flush(q) /\ missed' = missed \cup {id} /\ up
  BY DEF ReplyUnrecorded
<1>2. QueueShape(q) /\ \A s, t : s # id /\ Holds(queue, s, t) => Holds(q, s, t)
  BY AcknowledgedKeeps DEF Inv
<1> HIDE DEF q
<1>3. /\ QueueShape(queue')
      /\ \A s, t : s # NoId /\ Holds(q, s, t) => Holds(queue', s, t)
  BY <1>1, <1>2, FlushKeeps
<1>4. Covered(queue', journal', missed')
  BY <1>1, <1>2, <1>3, SessionsAreIds DEF Inv, Covered
<1> QED BY <1>1, <1>3, <1>4 DEF Inv

LEMMA CompleteOfflineInv ==
  ASSUME Inv, NEW id \in Sessions, NEW type, CompleteOffline(id, type)
  PROVE  Inv'
<1> DEFINE snap == Answered(journal[id], RecordedAs(type), FALSE)
<1>1. journal' = [journal EXCEPT ![id] = snap] /\ queue' = queue /\ ~up'
  BY DEF CompleteOffline
<1>2. /\ snap \in Snapshot
      /\ snap.pending = None
  BY AnsweredSnap, PhaseFacts DEF Inv
<1> HIDE DEF snap
<1>3. JournalShape(journal') /\ SettledEnds(journal')
  BY <1>1, <1>2, JournalUpdate DEF Inv
<1> QED BY <1>1, <1>3 DEF Inv

\* Leases, polls, streams and exits leave the journal alone, and the queue keeps
\* what it holds of every session.
LEMMA SameSessions ==
  ASSUME Inv, journal' = journal, missed' = missed, up' = up, QueueShape(queue'),
         \A s, t : s # NoId /\ Holds(queue, s, t) => Holds(queue', s, t)
  PROVE  Inv'
<1>1. \A s \in Sessions : s # NoId
  BY SessionsAreIds
<1> QED BY <1>1 DEF Inv, Covered

LEMMA SameQueue ==
  ASSUME Inv, journal' = journal, missed' = missed, up' = up, queue' = queue
  PROVE  Inv'
BY DEF Inv

LEMMA PostExitInv == Inv /\ PostExit => Inv'
<1> SUFFICES ASSUME Inv, PostExit PROVE Inv'
  OBVIOUS
<1>1. Enqueue(NoId, "exit") /\ journal' = journal /\ missed' = missed /\ up' = up
  BY DEF PostExit
<1> QED BY <1>1, EnqueueKeeps, SameSessions DEF Inv

LEMMA ExitTimerInv == Inv /\ ExitTimerFires => Inv'
<1> SUFFICES ASSUME Inv, ExitTimerFires PROVE Inv'
  OBVIOUS
<1>1. journal' = journal /\ missed' = missed /\ up' = up
  BY DEF ExitTimerFires
<1>2. CASE clients = {}
  <2>1. Enqueue(NoId, "exit")
    BY <1>2 DEF ExitTimerFires
  <2> QED BY <1>1, <2>1, EnqueueKeeps, SameSessions DEF Inv
<1>3. CASE clients # {}
  <2>1. queue' = queue
    BY <1>3 DEF ExitTimerFires
  <2> QED BY <1>1, <2>1, SameQueue
<1> QED BY <1>2, <1>3

LEMMA ConnectInv ==
  ASSUME Inv, NEW t \in Tabs, Connect(t)
  PROVE  Inv'
<1>1. /\ queue' = WithoutExits(queue)
      /\ journal' = journal /\ missed' = missed /\ up' = up
  BY DEF Connect
<1>2. QueueShape(queue') /\ \A s, p : s # NoId /\ Holds(queue, s, p) => Holds(queue', s, p)
  BY <1>1 DEF Inv, QueueShape, Holds, Key, WithoutExits
<1> QED BY <1>1, <1>2, SameSessions

LEMMA PollGetInv ==
  ASSUME Inv, NEW a \in Agents, PollGet(a)
  PROVE  Inv'
<1>1. journal' = journal /\ missed' = missed /\ up' = up
  BY DEF PollGet
<1>2. CASE \E e \in Available(queue) : queue' = Leased(queue, {e})
  <2>1. PICK e \in Available(queue) : queue' = Leased(queue, {e})
    BY <1>2
  <2>2. {e} \subseteq queue
    BY DEF Available
  <2> QED BY <1>1, <2>1, <2>2, LeasedKeeps, SameSessions DEF Inv
<1>3. CASE queue' = queue
  BY <1>1, <1>3, SameQueue
<1> QED BY <1>2, <1>3 DEF PollGet

LEMMA LeaseRunsOutInv ==
  ASSUME Inv, NEW e \in queue, LeaseRunsOut(e)
  PROVE  Inv'
<1> DEFINE f == [e EXCEPT !.leased = FALSE]
<1>1. /\ queue' = (queue \ {e}) \cup {f}
      /\ journal' = journal /\ missed' = missed /\ up' = up
  BY DEF LeaseRunsOut
<1>2. e = [id |-> e.id, type |-> e.type, leased |-> e.leased, seq |-> e.seq]
  BY DEF Inv, QueueShape
<1>3. e \in [id : {e.id}, type : {e.type}, leased : {e.leased}, seq : {e.seq}]
  BY <1>2
<1>4. Key(f) = Key(e)
  BY <1>3 DEF Key
<1>5. QueueShape(queue')
  <2>1. f \in [id : {e.id}, type : {e.type}, leased : {FALSE}, seq : {e.seq}]
    BY <1>3
  <2> HIDE DEF f
  <2>2. f = [id |-> f.id, type |-> f.type, leased |-> f.leased, seq |-> f.seq]
    BY <2>1
  <2> QED BY <1>1, <2>2 DEF Inv, QueueShape
<1> HIDE DEF f
<1>6. \A s, t : s # NoId /\ Holds(queue, s, t) => Holds(queue', s, t)
  BY <1>1, <1>4 DEF Holds
<1> QED BY <1>1, <1>5, <1>6, SameSessions

LEMMA LeaseTimerInv == Inv /\ LeaseTimerFires => Inv'
<1> SUFFICES ASSUME Inv, LeaseTimerFires PROVE Inv'
  OBVIOUS
<1>1. Flush(queue) /\ journal' = journal /\ missed' = missed /\ up' = up
  BY DEF LeaseTimerFires
<1> QED BY <1>1, FlushKeeps, SameSessions DEF Inv

LEMMA EndInv == Inv /\ (Crash \/ Stop) => Inv'
BY DEF Inv, Crash, Stop, QueueShape

\* What is pending is of a session that is active, so it is restored.
LEMMA RestartInv == Inv /\ Restart => Inv'
<1> SUFFICES ASSUME Inv, Restart PROVE Inv'
  OBVIOUS
<1> DEFINE Entry0(s) == [id |-> s, type |-> journal[s].pending, leased |-> FALSE, seq |-> s]
<1>1. queue' = {Entry0(s) : s \in Restored} /\ journal' = journal /\ missed' = missed
  BY DEF Restart
<1>2. QueueShape(queue')
  BY <1>1 DEF QueueShape
<1>3. \A s : Key(Entry0(s)) = <<s, journal[s].pending>>
  BY DEF Key
<1>4. ASSUME NEW s \in Sessions, journal[s].pending # None
      PROVE  s \in Restored
  <2>1. journal[s] # BaseSnapshot
    BY <1>4 DEF BaseSnapshot
  <2>2. journal[s].phase \notin Terminal
    BY <1>4 DEF Inv, SettledEnds
  <2> QED BY <1>4, <2>1, <2>2 DEF Restored, Active, Known
<1> HIDE DEF Entry0
<1>5. Covered(queue', journal', missed')
  BY <1>1, <1>3, <1>4 DEF Covered, Holds
<1> QED BY <1>1, <1>2, <1>5 DEF Inv

-----------------------------------------------------------------------------
\* Every step of the helper, whoever calls it.
LEMMA NextInv == Inv /\ [Next]_server => Inv'
<1> SUFFICES ASSUME Inv, [Next]_server PROVE Inv'
  OBVIOUS
<1>1. CASE \E s \in Sessions, type \in Requests : Post(s, type)
  BY <1>1, PostInv
<1>2. CASE \E s \in Sessions, phase \in Overlay, revision \in 0 .. MaxRevision :
             PostCheckpoint(s, phase, revision)
  <2>1. 0 .. MaxRevision \subseteq Nat
    BY LiveAssumption
  <2> QED BY <1>2, <2>1, CheckpointInv
<1>3. CASE \E s \in Sessions, type \in ReplyTypes, carbonize \in BOOLEAN :
             Reply(s, type, carbonize)
  BY <1>3, ReplyInv
<1>4. CASE \E s \in Sessions, type \in ReplyTypes :
             ReplyUnrecorded(s, type) \/ CompleteOffline(s, type)
  BY <1>4, ReplyUnrecordedInv, CompleteOfflineInv
<1>5. CASE \E s \in Sessions :
             \/ \E type \in Requests : Post(s, type)
             \/ \E phase \in Overlay, revision \in 0 .. MaxRevision :
                  PostCheckpoint(s, phase, revision)
             \/ \E type \in ReplyTypes :
                  \/ \E carbonize \in BOOLEAN : Reply(s, type, carbonize)
                  \/ ReplyUnrecorded(s, type)
                  \/ CompleteOffline(s, type)
  BY <1>1, <1>2, <1>3, <1>4, <1>5
<1>6. CASE PostExit
  BY <1>6, PostExitInv
<1>7. CASE \E t \in Tabs : Connect(t)
  BY <1>7, ConnectInv
<1>8. CASE \E t \in Tabs : Disconnect(t) \/ Hear(t)
  BY <1>8, SameQueue DEF Disconnect, Hear
<1>9. CASE \E a \in Agents : PollGet(a)
  BY <1>9, PollGetInv
<1>10. CASE \E a \in Agents : PollTimesOut(a) \/ PollCloses(a) \/ PollRead(a)
  BY <1>10, SameQueue DEF PollTimesOut, PollCloses, PollRead
<1>11. CASE \E e \in queue : LeaseRunsOut(e)
  BY <1>11, LeaseRunsOutInv
<1>12. CASE LeaseTimerFires \/ ExitTimerFires
  BY <1>12, LeaseTimerInv, ExitTimerInv
<1>13. CASE Crash \/ Stop \/ Restart
  BY <1>13, EndInv, RestartInv
<1>14. CASE UNCHANGED server
  BY <1>14, SameQueue DEF server
<1> QED BY <1>5, <1>6, <1>7, <1>8, <1>9, <1>10, <1>11, <1>12,
           <1>13, <1>14 DEF Next

LEMMA InvImplies == Inv => PendingQueued
BY DEF Inv, Covered, Holds, PendingQueued

\* Whatever the pages, the agents and the clock do with the helper, and whenever
\* it ends and is started again, a request that the journal has as pending is in
\* the queue while the helper runs, unless a reply to the session could not be
\* recorded.
THEOREM PendingTheorem == Spec => []PendingQueued
<1>1. Init => Inv
  BY StartedInv DEF Init
<1>2. Inv /\ [Next]_server => Inv'
  BY NextInv
<1> QED BY <1>1, <1>2, InvImplies, PTL DEF Spec

-----------------------------------------------------------------------------
(* The order of the queue.                                                 *)

\* A finite set of numbers has a greatest one.
LEMMA Greatest ==
  ASSUME NEW S \in SUBSET Nat, IsFiniteSet(S), S # {}
  PROVE  \E m \in S : \A n \in S : m >= n
<1> DEFINE Up(x) == {y \in S : y >= x}
           T     == {Up(x) : x \in S}
           R     == StrictSubsetOrdering(S)
<1>1. \A x \in S : Up(x) \in SUBSET S /\ x \in Up(x)
  OBVIOUS
<1>2. T \subseteq FiniteSubsetsOf(S) /\ T # {}
  <2>1. ASSUME NEW x \in S PROVE Up(x) \in FiniteSubsetsOf(S)
    BY <1>1, FS_Subset DEF FiniteSubsetsOf
  <2> QED BY <2>1
<1>3. IsWellFoundedOn(R, FiniteSubsetsOf(S))
  BY FS_StrictSubsetOrderingWellFounded
<1> HIDE DEF T, R
<1>4. PICK x \in T : \A y \in T : ~(<<y, x>> \in R)
  BY <1>2, <1>3, WFMin
<1>5. PICK m \in S : x = Up(m)
  BY <1>4 DEF T
<1>6. ASSUME NEW n \in S, ~(m >= n) PROVE FALSE
  <2>1. Up(n) \in T
    BY DEF T
  <2>2. m \in Nat /\ n \in Nat /\ m < n /\ \A y \in S : y \in Nat
    BY <1>6
  <2>3. \A y \in S : y >= n => y >= m
    BY <2>2
  <2>5. Up(n) \subseteq Up(m) /\ m \in Up(m) /\ m \notin Up(n)
    BY <1>1, <1>6, <2>3
  <2>4. <<Up(n), Up(m)>> \in R
    BY <1>1, <2>5 DEF R, StrictSubsetOrdering
  <2> QED BY <1>4, <1>5, <2>1, <2>4
<1> QED BY <1>6

\* A new entry is numbered after all others.
LEMMA NextSeqFacts ==
  ASSUME NEW q, IsFiniteSet(q), q \subseteq Entry
  PROVE  NextSeq(q) \in Nat /\ \A e \in q : e.seq < NextSeq(q)
<1> DEFINE S == {e.seq : e \in q}
           f == [e \in q |-> e.seq]
<1>1. CASE q = {}
  BY <1>1 DEF NextSeq
<1>2. CASE q # {}
  <2>1. S \in SUBSET Nat /\ S # {}
    BY <1>2 DEF Entry
  <2>2. f \in Surjection(q, S)
    BY DEF Surjection
  <2>3. IsFiniteSet(S)
    BY <2>2, FS_Surjection
  <2>4. PICK m \in S : \A n \in S : m >= n
    BY <2>1, <2>3, Greatest
  <2>5. Max(S) \in S /\ \A n \in S : Max(S) >= n
    BY <2>4 DEF Max
  <2>6. NextSeq(q) = 1 + Max(S)
    BY <1>2 DEF NextSeq
  <2>7. \A e \in q : e.seq \in S
    OBVIOUS
  <2> HIDE DEF S
  <2>8. \A n \in S : n \in Nat
    BY <2>1
  <2>9. Max(S) \in Nat /\ \A n \in S : n < 1 + Max(S)
    BY <2>5, <2>8
  <2> QED BY <2>6, <2>7, <2>9
<1> QED BY <1>1, <1>2

\* The rank of an entry that is available numbers the available ones from 1 on.
LEMMA RankFacts ==
  ASSUME NEW q, QueueOK(q)
  PROVE  /\ Cardinality(Available(q)) \in Nat
         /\ \A e \in Available(q) : Rank(q, e) \in 1 .. Cardinality(Available(q))
         /\ \A k \in 1 .. Cardinality(Available(q)) : \E e \in Available(q) : Rank(q, e) = k
<1> DEFINE S == Available(q)
           N == Cardinality(S)
           D(e) == {f \in S : f.seq <= e.seq}
           g == [e \in S |-> Rank(q, e)]
<1>1. IsFiniteSet(S) /\ S \subseteq q
  <2>1. S \in SUBSET q
    BY DEF Available
  <2> QED BY <2>1, FS_Subset DEF QueueOK
<1>2. N \in Nat
  BY <1>1, FS_CardinalityType
<1>3. \A e \in S : e.seq \in Nat
  BY <1>1 DEF QueueOK, Entry
<1>4. \A e, f \in S : e.seq = f.seq => e = f
  BY <1>1 DEF QueueOK, Fresh
<1>5. \A e : Rank(q, e) = Cardinality(D(e))
  BY DEF Rank
<1> HIDE DEF S
<1>6. ASSUME NEW e \in S
      PROVE  IsFiniteSet(D(e)) /\ Cardinality(D(e)) \in 1 .. N
  <2>1. D(e) \in SUBSET S /\ e \in D(e)
    BY <1>3
  <2>2. IsFiniteSet(D(e)) /\ Cardinality(D(e)) <= N
    BY <1>1, <2>1, FS_Subset
  <2>3. Cardinality(D(e)) \in Nat /\ Cardinality(D(e)) # 0
    BY <2>1, <2>2, FS_CardinalityType, FS_EmptySet
  <2> QED BY <1>2, <2>2, <2>3
<1>7. ASSUME NEW e \in S, NEW f \in S, e.seq < f.seq
      PROVE  Cardinality(D(e)) # Cardinality(D(f))
  <2>1. D(e) \in SUBSET D(f) /\ f \in D(f) /\ f \notin D(e)
    BY <1>3, <1>7
  <2> HIDE DEF D
  <2> QED BY <1>6, <2>1, FS_Subset
<1>8. g \in Injection(S, 1 .. N)
  <2>1. \A e \in S : g[e] = Cardinality(D(e))
    BY <1>5
  <2>2. g \in [S -> 1 .. N]
    BY <1>5, <1>6
  <2>3. ASSUME NEW e \in S, NEW f \in S, e # f
        PROVE  g[e] # g[f]
    <3>1. e.seq < f.seq \/ f.seq < e.seq
      BY <1>3, <1>4, <2>3
    <3> QED BY <1>7, <2>1, <3>1
  <2> HIDE DEF g
  <2> QED BY <2>2, <2>3 DEF Injection, IsInjective
<1>9. IsFiniteSet(1 .. N) /\ Cardinality(1 .. N) = N
  BY <1>2, FS_Interval
<1>10. g \in Surjection(S, 1 .. N)
  BY <1>8, <1>9, FS_Injection
<1>11. \A k \in 1 .. N : \E e \in S : g[e] = k
  BY <1>10 DEF Surjection
<1>12. \A e \in S : Rank(q, e) \in 1 .. N
  BY <1>5, <1>6
<1>13. \A k \in 1 .. N : \E e \in S : Rank(q, e) = k
  BY <1>11
<1> QED BY <1>2, <1>12, <1>13 DEF S

-----------------------------------------------------------------------------
(* What becomes of the queue.                                              *)

LEMMA SmallerQueue ==
  ASSUME NEW q, QueueOK(q), NEW r \in SUBSET q
  PROVE  QueueOK(r)
<1>1. IsFiniteSet(r)
  BY FS_Subset DEF QueueOK
<1> QED BY <1>1 DEF QueueOK, Fresh

\* leaseEvent and a lease that runs out change only who has the entry.
LEMMA Marked ==
  ASSUME NEW e \in Entry, NEW l \in BOOLEAN
  PROVE  LET f == [e EXCEPT !.leased = l]
         IN  /\ f \in Entry /\ f.id = e.id /\ f.type = e.type /\ f.seq = e.seq /\ f.leased = l
             /\ Key(f) = Key(e)
BY DEF Entry, Key

LEMMA LeasedOK ==
  ASSUME NEW q, QueueOK(q), NEW out \in SUBSET q
  PROVE  /\ QueueOK(Leased(q, out))
         /\ HasExit(Leased(q, out)) => HasExit(q)
<1> DEFINE S    == {f \in out : f.id # NoId}
           M(e) == [e EXCEPT !.leased = TRUE]
           T    == {M(e) : e \in S}
           g    == [e \in S |-> M(e)]
           r    == Leased(q, out)
<1>1. r = (q \ out) \cup T
  BY DEF Leased
<1>2. S \in SUBSET q /\ S \subseteq out
  OBVIOUS
<1>3. IsFiniteSet(r)
  <2>1. g \in Surjection(S, T)
    BY DEF Surjection
  <2>2. IsFiniteSet(T)
    BY <1>2, <2>1, FS_Surjection, FS_Subset DEF QueueOK
  <2>3. IsFiniteSet(q \ out)
    BY FS_Difference DEF QueueOK
  <2>4. IsFiniteSet((q \ out) \cup T)
    BY <2>2, <2>3, FS_Union
  <2> QED BY <1>1, <2>4
<1>4. ASSUME NEW x \in r
      PROVE  \E e \in q : /\ x \in Entry /\ x.id = e.id /\ x.type = e.type /\ x.seq = e.seq
                          /\ Key(x) = Key(e)
                          /\ x.leased => x.id # NoId
                          /\ \/ x = e /\ e \notin out
                             \/ x = M(e) /\ e \in S
  <2>1. CASE x \in q \ out
    BY <2>1 DEF QueueOK
  <2>2. CASE x \in T
    <3>1. PICK e \in S : x = M(e)
      BY <2>2
    <3>2. e \in q /\ e \in Entry /\ e.id # NoId
      BY <3>1 DEF QueueOK
    <3>3. M(e) \in Entry /\ M(e).id = e.id /\ M(e).type = e.type /\ M(e).seq = e.seq
          /\ Key(M(e)) = Key(e)
      BY <3>2, Marked
    <3> HIDE DEF M
    <3> QED BY <3>1, <3>2, <3>3
  <2> QED BY <1>1, <2>1, <2>2
<1> HIDE DEF r, T, S, M
<1>5. \A x \in r : /\ x \in Entry /\ (x.id = NoId <=> x.type = "exit")
                   /\ x.leased => x.id # NoId
  BY <1>4 DEF QueueOK
<1>6. ASSUME NEW x \in r, NEW y \in r, x.seq = y.seq \/ (Key(x) = Key(y) /\ x.id # NoId)
      PROVE  x = y
  <2>1. PICK e \in q : /\ x.id = e.id /\ x.seq = e.seq /\ Key(x) = Key(e)
                       /\ \/ x = e /\ e \notin out
                          \/ x = M(e) /\ e \in S
    BY <1>4
  <2>2. PICK f \in q : /\ y.seq = f.seq /\ Key(y) = Key(f)
                       /\ \/ y = f /\ f \notin out
                          \/ y = M(f) /\ f \in S
    BY <1>4
  <2>3. e = f
    BY <1>6, <2>1, <2>2 DEF QueueOK, Fresh
  <2> QED BY <1>2, <2>1, <2>2, <2>3
<1>7. HasExit(r) => HasExit(q)
  BY <1>4 DEF HasExit
<1>8. QueueOK(r)
  BY <1>3, <1>5, <1>6 DEF QueueOK, Fresh
<1> QED BY <1>7, <1>8 DEF r

LEMMA LesserOfTwo ==
  ASSUME NEW a \in Nat, NEW b \in Nat
  PROVE  Min({a, b}) \in Nat /\ Min({a, b}) <= a /\ Min({a, b}) <= b
<1>1. \E x \in {a, b} : \A y \in {a, b} : x =< y
  <2>1. CASE a <= b
    BY <2>1
  <2>2. CASE b <= a
    BY <2>2
  <2> QED BY <2>1, <2>2
<1>2. Min({a, b}) \in {a, b} /\ \A y \in {a, b} : Min({a, b}) =< y
  BY <1>1 DEF Min
<1> QED BY <1>2

LEMMA LetterOf ==
  ASSUME NEW q, QueueOK(q), NEW e \in q
  PROVE  /\ [id |-> e.id, type |-> e.type] \in Letters
         /\ e.type = "exit" => HasExit(q)
<1>1. e \in Entry /\ (e.id = NoId <=> e.type = "exit")
  BY DEF QueueOK
<1>2. CASE e.id = NoId
  BY <1>1, <1>2 DEF Letters, HasExit
<1>3. CASE e.id # NoId
  <2>1. e.id \in Sessions /\ e.type \in Requests
    BY <1>1, <1>3 DEF Entry
  <2> QED BY <1>1, <1>3, <2>1 DEF Letters
<1> QED BY <1>2, <1>3

\* What an answer to a poll is that a step has sent.
NewLetters(q) ==
  \A a \in Agents : mail'[a] = mail[a]
                      \/ (mail'[a] \in Letters /\ (mail'[a].type = "exit" => HasExit(q)))

MailOK == mail \in [Agents -> Letters]

\* flushPendingPolls answers the parked polls with entries of the queue.
LEMMA FlushOK ==
  ASSUME NEW q, QueueOK(q), PollsOK(polls), MailOK, Flush(q)
  PROVE  /\ QueueOK(queue') /\ PollsOK(polls') /\ MailOK'
         /\ HasExit(queue') => HasExit(q)
         /\ NewLetters(q)
<1> DEFINE L   == Len(polls)
           C   == Cardinality(Available(q))
           n   == Min({L, C})
           out == {e \in Available(q) : Rank(q, e) <= n}
           at(a) == CHOOSE e \in out : polls[Rank(q, e)] = a
<1>1. /\ queue' = Leased(q, out)
      /\ polls' = SubSeq(polls, n + 1, L)
      /\ mail' = [a \in Agents |-> IF \E i \in 1 .. n : polls[i] = a
                                   THEN [id |-> at(a).id, type |-> at(a).type]
                                   ELSE mail[a]]
  BY DEF Flush
<1>2. L \in Nat /\ C \in Nat
  BY RankFacts DEF PollsOK
<1>3. n \in Nat /\ n <= L /\ n <= C
  BY <1>2, LesserOfTwo
<1>4. out \in SUBSET q
  BY DEF Available
<1>5. \A i \in 1 .. n : \E e \in out : Rank(q, e) = i
  <2>1. \A i \in 1 .. n : i \in 1 .. C /\ i <= n
    BY <1>2, <1>3
  <2> HIDE DEF n
  <2> QED BY <2>1, RankFacts
<1> HIDE DEF n, out
<1>6. QueueOK(queue') /\ (HasExit(queue') => HasExit(q))
  BY <1>1, <1>4, LeasedOK
<1>7. PollsOK(polls')
  <2>1. \A i \in 1 .. L : polls[i] \in Agents
    BY DEF PollsOK
  <2>2. \A i, j \in 1 .. L : polls[i] = polls[j] => i = j
    BY DEF PollsOK, IsInjective
  <2> HIDE DEF L
  <2>3. \A i \in n + 1 .. L : polls[i] \in Agents
    BY <1>2, <1>3, <2>1
  <2>4. /\ polls' \in Seq(Agents)
        /\ Len(polls') = IF n + 1 <= L THEN L - (n + 1) + 1 ELSE 0
        /\ \A i \in 1 .. L - (n + 1) + 1 : polls'[i] = polls[n + 1 + i - 1]
    BY <1>1, <1>2, <1>3, <2>3, SubSeqProperties
  <2>5. ASSUME NEW i \in DOMAIN polls', NEW j \in DOMAIN polls', polls'[i] = polls'[j]
        PROVE  i = j
    <3>1. DOMAIN polls' = 1 .. Len(polls')
      BY <2>4
    <3>2. i \in 1 .. L - (n + 1) + 1 /\ j \in 1 .. L - (n + 1) + 1
      BY <1>2, <1>3, <2>4, <3>1
    <3>3. n + 1 + i - 1 \in 1 .. L /\ n + 1 + j - 1 \in 1 .. L
      BY <1>2, <1>3, <3>2
    <3>4. n + 1 + i - 1 = n + 1 + j - 1
      BY <2>2, <2>4, <2>5, <3>2, <3>3
    <3> QED BY <1>3, <3>2, <3>4
  <2> QED BY <2>4, <2>5 DEF PollsOK, IsInjective
<1>8. ASSUME NEW a \in Agents
      PROVE  \/ mail'[a] = mail[a]
             \/ mail'[a] \in Letters /\ (mail'[a].type = "exit" => HasExit(q))
  <2>1. CASE \E i \in 1 .. n : polls[i] = a
    <3>1. PICK i \in 1 .. n : polls[i] = a
      BY <2>1
    <3>2. \E e \in out : polls[Rank(q, e)] = a
      BY <1>5, <3>1
    <3>3. at(a) \in out
      BY <3>2
    <3>4. mail'[a] = [id |-> at(a).id, type |-> at(a).type]
      BY <1>1, <2>1
    <3> HIDE DEF at
    <3>5. at(a) \in q
      BY <1>4, <3>3
    <3> QED BY <3>4, <3>5, LetterOf
  <2>2. CASE ~ \E i \in 1 .. n : polls[i] = a
    BY <1>1, <2>2
  <2> QED BY <2>1, <2>2
<1> HIDE DEF at
<1>9. MailOK'
  <2>1. \A a \in Agents : mail'[a] \in Letters
    BY <1>8 DEF MailOK
  <2>2. DOMAIN mail' = Agents
    BY <1>1
  <2>3. mail' = [a \in Agents |-> mail'[a]]
    BY <1>1, <2>2
  <2> QED BY <2>1, <2>3 DEF MailOK
<1> QED BY <1>6, <1>7, <1>8, <1>9 DEF NewLetters

\* enqueueEvent.
LEMMA EnqueueOK ==
  ASSUME QueueOK(queue), PollsOK(polls), MailOK, NEW id, NEW type, Enqueue(id, type),
         (id = NoId /\ type = "exit") \/ (id \in Sessions /\ type \in Requests)
  PROVE  /\ QueueOK(queue') /\ PollsOK(polls') /\ MailOK'
         /\ HasExit(queue') => HasExit(queue) \/ type = "exit"
         /\ \A a \in Agents : \/ mail'[a] = mail[a]
                              \/ mail'[a].type = "exit" => HasExit(queue) \/ type = "exit"
<1> DEFINE new == [id |-> id, type |-> type, leased |-> FALSE, seq |-> NextSeq(queue)]
           q   == queue \cup {new}
<1>1. CASE IsQueued(id, type)
  BY <1>1 DEF Enqueue, MailOK
<1>2. CASE ~IsQueued(id, type)
  <2>1. Flush(q)
    BY <1>2 DEF Enqueue
  <2>2. IsFiniteSet(queue) /\ queue \subseteq Entry
    BY DEF QueueOK
  <2>3. NextSeq(queue) \in Nat /\ \A e \in queue : e.seq < NextSeq(queue)
    BY <2>2, NextSeqFacts
  <2>4. \A e \in queue : e.seq \in Nat
    BY <2>2 DEF Entry
  <2>5. NoId \notin Sessions /\ "exit" \notin Requests
    BY SessionsAreIds DEF Requests
  <2>6. /\ new \in Entry /\ new.id = id /\ new.type = type /\ ~new.leased
        /\ new.seq = NextSeq(queue) /\ Key(new) = <<id, type>>
    BY <2>3 DEF Entry, Key
  <2>7. \A e \in queue : e.seq # new.seq
    BY <2>3, <2>4, <2>6
  <2>8. \A e \in queue : id # NoId => Key(e) # Key(new)
    BY <1>2, <2>6 DEF IsQueued
  <2>9. \A e \in Entry : Key(e) = Key(new) => e.id = id
    BY <2>6 DEF Key
  <2>10. IsFiniteSet(q)
    BY <2>2, FS_AddElement
  <2> HIDE DEF new
  <2>11. Fresh(q)
    <3>1. \A e \in queue : ~(Key(e) = Key(new) /\ e.id # NoId)
      BY <2>2, <2>8, <2>9
    <3>2. \A e \in queue : ~(Key(new) = Key(e) /\ new.id # NoId)
      BY <2>6, <2>8
    <3> QED BY <2>7, <3>1, <3>2 DEF QueueOK, Fresh
  <2>12. QueueOK(q)
    BY <2>2, <2>5, <2>6, <2>10, <2>11 DEF QueueOK
  <2>13. HasExit(q) => HasExit(queue) \/ type = "exit"
    BY <2>6 DEF HasExit
  <2> HIDE DEF q
  <2> QED BY <2>1, <2>12, <2>13, FlushOK DEF NewLetters
<1> QED BY <1>1, <1>2

LEMMA AcknowledgedOK ==
  ASSUME QueueOK(queue), NEW id
  PROVE  /\ QueueOK(Acknowledged(queue, id))
         /\ HasExit(Acknowledged(queue, id)) => HasExit(queue)
<1>1. Acknowledged(queue, id) \in SUBSET queue
  BY DEF Acknowledged
<1> QED BY <1>1, SmallerQueue DEF HasExit

LEMMA UnparkOK ==
  ASSUME PollsOK(polls), NEW a, Unpark(a)
  PROVE  PollsOK(polls')
<1>1. CASE polls' = polls
  BY <1>1 DEF PollsOK
<1>2. CASE \E i \in 1 .. Len(polls) : polls' = RemoveAt(polls, i)
  <2>1. PICK i \in 1 .. Len(polls) : polls' = RemoveAt(polls, i)
    BY <1>2
  <2> DEFINE L == Len(polls)
             s == SubSeq(polls, 1, i - 1)
             t == SubSeq(polls, i + 1, L)
  <2>2. L \in Nat /\ i \in Nat /\ 1 <= i /\ i <= L
    BY DEF PollsOK
  <2>3. \A k \in 1 .. L : polls[k] \in Agents
    BY DEF PollsOK
  <2>4. \A k, m \in 1 .. L : polls[k] = polls[m] => k = m
    BY DEF PollsOK, IsInjective
  <2>5. polls' = s \o t
    BY <2>1 DEF RemoveAt
  <2> HIDE DEF L
  <2>6. /\ s \in Seq(Agents) /\ Len(s) = i - 1
        /\ \A k \in 1 .. i - 1 : s[k] = polls[k]
    <3>1. \A k \in 1 .. i - 1 : polls[k] \in Agents
      BY <2>2, <2>3
    <3>2. /\ s \in Seq(Agents)
          /\ Len(s) = IF 1 <= i - 1 THEN i - 1 - 1 + 1 ELSE 0
          /\ \A k \in 1 .. i - 1 - 1 + 1 : s[k] = polls[1 + k - 1]
      BY <2>2, <3>1, SubSeqProperties
    <3> HIDE DEF s
    <3> QED BY <2>2, <3>2
  <2>7. /\ t \in Seq(Agents) /\ Len(t) = L - i
        /\ \A k \in 1 .. L - i : t[k] = polls[i + k]
    <3>1. \A k \in i + 1 .. L : polls[k] \in Agents
      BY <2>2, <2>3
    <3>2. /\ t \in Seq(Agents)
          /\ Len(t) = IF i + 1 <= L THEN L - (i + 1) + 1 ELSE 0
          /\ \A k \in 1 .. L - (i + 1) + 1 : t[k] = polls[i + 1 + k - 1]
      BY <2>2, <3>1, SubSeqProperties
    <3> HIDE DEF t
    <3> QED BY <2>2, <3>2
  <2> HIDE DEF s, t
  <2>8. /\ s \o t \in Seq(Agents) /\ Len(s \o t) = L - 1
        /\ \A k \in 1 .. L - 1 : (s \o t)[k] = IF k <= i - 1 THEN s[k] ELSE t[k - (i - 1)]
    <3>1. Len(s) + Len(t) = L - 1
      BY <2>2, <2>6, <2>7
    <3>2. /\ s \o t \in Seq(Agents) /\ Len(s \o t) = Len(s) + Len(t)
          /\ \A k \in 1 .. Len(s) + Len(t) :
               (s \o t)[k] = IF k <= Len(s) THEN s[k] ELSE t[k - Len(s)]
      BY <2>6, <2>7, ConcatProperties
    <3> QED BY <2>6, <3>1, <3>2
  <2>9. ASSUME NEW k \in 1 .. L - 1
        PROVE  (s \o t)[k] = polls[IF k <= i - 1 THEN k ELSE k + 1]
    <3>1. CASE k <= i - 1
      BY <2>2, <2>6, <2>8, <3>1
    <3>2. CASE ~(k <= i - 1)
      <4>1. k - (i - 1) \in 1 .. L - i /\ i + (k - (i - 1)) = k + 1
        BY <2>2, <3>2
      <4>2. t[k - (i - 1)] = polls[k + 1]
        BY <2>7, <4>1
      <4> QED BY <2>8, <3>2, <4>2
    <3> QED BY <3>1, <3>2
  <2>10. ASSUME NEW k \in 1 .. L - 1, NEW m \in 1 .. L - 1, (s \o t)[k] = (s \o t)[m]
         PROVE  k = m
    <3> DEFINE pos(x) == IF x <= i - 1 THEN x ELSE x + 1
    <3>1. pos(k) \in 1 .. L /\ pos(m) \in 1 .. L
      BY <2>2
    <3>2. polls[pos(k)] = polls[pos(m)]
      BY <2>9, <2>10
    <3>3. pos(k) = pos(m)
      <4> HIDE DEF pos
      <4> QED BY <2>4, <3>1, <3>2
    <3> QED BY <2>2, <3>3
  <2>11. DOMAIN polls' = 1 .. L - 1
    BY <2>5, <2>8
  <2> QED BY <2>5, <2>8, <2>10, <2>11 DEF PollsOK, IsInjective
<1> QED BY <1>1, <1>2 DEF Unpark

LEMMA ParkOK ==
  ASSUME PollsOK(polls), NEW a \in Agents, ~Contains(polls, a)
  PROVE  PollsOK(Append(polls, a))
<1> DEFINE L == Len(polls)
           p == Append(polls, a)
<1>1. L \in Nat /\ \A i \in 1 .. L : polls[i] # a
  BY DEF PollsOK, Contains
<1>2. \A k, m \in 1 .. L : polls[k] = polls[m] => k = m
  BY DEF PollsOK, IsInjective
<1>3. /\ p \in Seq(Agents) /\ Len(p) = L + 1
      /\ \A i \in 1 .. L : p[i] = polls[i]
      /\ p[L + 1] = a
  BY AppendProperties DEF PollsOK
<1> HIDE DEF L, p
<1>4. ASSUME NEW k \in 1 .. L + 1, NEW m \in 1 .. L + 1, p[k] = p[m]
      PROVE  k = m
  <2>1. k \in 1 .. L \/ k = L + 1
    BY <1>1
  <2>2. m \in 1 .. L \/ m = L + 1
    BY <1>1
  <2> QED BY <1>1, <1>2, <1>3, <1>4, <2>1, <2>2
<1>5. DOMAIN p = 1 .. L + 1
  BY <1>3
<1>6. PollsOK(p)
  BY <1>3, <1>4, <1>5 DEF PollsOK, IsInjective
<1> QED BY <1>6 DEF p

-----------------------------------------------------------------------------
(* Every handler keeps what the helper keeps.                              *)

\* Who is told to leave, and what of it stays in the queue: an exit is handed
\* out, or left in the queue, only if it was there while no more pages were
\* connected than before, or when no page is connected.
ExitsKept ==
  /\ up' /\ HasExit(queue') => \/ clients' = {}
                               \/ up /\ HasExit(queue) /\ clients' \subseteq clients
  /\ \A a \in Agents :
       mail'[a].type = "exit" /\ mail[a].type # "exit"
         => \/ ~up' \/ clients' = {}
            \/ up /\ HasExit(queue) /\ clients' \subseteq clients

\* The parts that most handlers leave alone.
Rest == <<up, clients, exitTimer, told, journal, missed>>

LEMMA SameTypes ==
  ASSUME ServerInv, QueueOK(queue'), PollsOK(polls'), MailOK', UNCHANGED Rest
  PROVE  ServerInv'
BY DEF ServerInv, Rest, MailOK

LEMMA SameJournal ==
  ASSUME NEW id \in Sessions, NEW snap, JournalShape(journal), Few(journal),
         journal' = [journal EXCEPT ![id] = snap]
  PROVE  Few(journal')
<1> DEFINE K == {s \in Sessions : Known(journal[s])}
           M == {s \in Sessions : Known(journal'[s])}
<1>1. IsFiniteSet(K \cup {id})
  BY FS_AddElement DEF Few
<1>2. \A s \in Sessions : s # id => journal'[s] = journal[s]
  BY DEF JournalShape
<1>3. M \in SUBSET (K \cup {id})
  BY <1>2
<1> HIDE DEF K, M
<1>4. IsFiniteSet(M)
  BY <1>1, <1>3, FS_Subset
<1> QED BY <1>4 DEF Few, M

LEMMA PostTypes ==
  ASSUME Inv, ServerInv, NEW id \in Sessions, NEW type \in Requests, Post(id, type)
  PROVE  ServerInv' /\ ExitsKept
<1>1. /\ up /\ Enqueue(id, type)
      /\ journal' = [journal EXCEPT ![id] = Requested(@, type)]
      /\ UNCHANGED <<up, clients, exitTimer, told, missed>>
  BY DEF Post
<1>2. Few(journal')
  BY <1>1, SameJournal DEF Inv, ServerInv
<1>3. QueueOK(queue) /\ PollsOK(polls) /\ MailOK /\ type # "exit"
  BY DEF ServerInv, MailOK, Requests
<1>4. /\ QueueOK(queue') /\ PollsOK(polls') /\ MailOK'
      /\ HasExit(queue') => HasExit(queue)
      /\ \A a \in Agents : \/ mail'[a] = mail[a]
                           \/ mail'[a].type = "exit" => HasExit(queue)
  BY <1>1, <1>3, EnqueueOK
<1>5. ServerInv'
  BY <1>1, <1>2, <1>4 DEF ServerInv, MailOK
<1>6. ExitsKept
  BY <1>1, <1>4 DEF ExitsKept
<1> QED BY <1>5, <1>6

\* The exit of a user, or of the timer: whether anybody is there does not matter
\* to the types.
LEMMA ExitTypes ==
  ASSUME ServerInv, Enqueue(NoId, "exit")
  PROVE  QueueOK(queue') /\ PollsOK(polls') /\ MailOK'
BY EnqueueOK DEF ServerInv, MailOK

LEMMA PostExitTypes ==
  ASSUME ServerInv, PostExit
  PROVE  ServerInv' /\ up /\ UNCHANGED Rest
<1>1. Enqueue(NoId, "exit") /\ up /\ UNCHANGED Rest
  BY DEF PostExit, Rest
<1> QED BY <1>1, ExitTypes, SameTypes

LEMMA ExitTimerTypes ==
  ASSUME ServerInv, ExitTimerFires
  PROVE  ServerInv' /\ ExitsKept
<1>1. /\ up /\ exitTimer' = FALSE
      /\ UNCHANGED <<up, clients, told, journal, missed>>
  BY DEF ExitTimerFires
<1>2. CASE clients = {}
  <2>1. QueueOK(queue') /\ PollsOK(polls') /\ MailOK'
    BY <1>2, ExitTypes DEF ExitTimerFires
  <2> QED BY <1>1, <1>2, <2>1 DEF ServerInv, MailOK, ExitsKept
<1>3. CASE clients # {}
  <2>1. UNCHANGED <<queue, polls, mail>>
    BY <1>3 DEF ExitTimerFires
  <2> QED BY <1>1, <2>1 DEF ServerInv, ExitsKept
<1> QED BY <1>2, <1>3

LEMMA CheckpointTypes ==
  ASSUME Inv, ServerInv, NEW id \in Sessions, NEW phase, NEW revision,
         PostCheckpoint(id, phase, revision)
  PROVE  ServerInv' /\ ExitsKept
<1>1. /\ up /\ journal' = [journal EXCEPT ![id] = Checkpointed(@, phase, revision)]
      /\ UNCHANGED <<up, queue, polls, mail, clients, exitTimer, told, missed>>
  BY DEF PostCheckpoint
<1>2. Few(journal')
  BY <1>1, SameJournal DEF Inv, ServerInv
<1> QED BY <1>1, <1>2 DEF ServerInv, ExitsKept

LEMMA BroadcastTypes ==
  ASSUME told \in [Tabs -> Seq(News)], NEW type \in ReplyTypes, NEW id \in Sessions,
         Broadcast(type, id)
  PROVE  told' \in [Tabs -> Seq(News)]
<1>1. Message(type, id) \in News
  BY DEF Message, News
<1>2. \A t \in Tabs : Append(told[t], Message(type, id)) \in Seq(News)
  BY <1>1, AppendProperties
<1> HIDE DEF News
<1> QED BY <1>2 DEF Broadcast

LEMMA ReplyTypesOK ==
  ASSUME Inv, ServerInv, NEW id \in Sessions, NEW type \in ReplyTypes, NEW carbonize \in BOOLEAN,
         Reply(id, type, carbonize)
  PROVE  ServerInv' /\ ExitsKept
<1> DEFINE q    == Acknowledged(queue, id)
           skip == ~Queued(id) /\ journal[id].phase \in Terminal
<1>1. /\ up /\ Flush(q) /\ Broadcast(type, id)
      /\ journal' = IF skip THEN journal
                    ELSE [journal EXCEPT ![id] = Answered(@, RecordedAs(type), carbonize)]
      /\ UNCHANGED <<up, clients, exitTimer, missed>>
  BY DEF Reply
<1>2. Few(journal')
  <2>1. CASE skip
    BY <1>1, <2>1 DEF ServerInv
  <2>2. CASE ~skip
    <3>1. journal' = [journal EXCEPT ![id] = Answered(@, RecordedAs(type), carbonize)]
      BY <1>1, <2>2
    <3> QED BY <3>1, SameJournal DEF Inv, ServerInv
  <2> QED BY <2>1, <2>2
<1>3. QueueOK(q) /\ (HasExit(q) => HasExit(queue))
  BY AcknowledgedOK DEF ServerInv
<1>4. /\ QueueOK(queue') /\ PollsOK(polls') /\ MailOK'
      /\ HasExit(queue') => HasExit(q)
      /\ NewLetters(q)
  <2> HIDE DEF q
  <2> QED BY <1>1, <1>3, FlushOK DEF ServerInv, MailOK
<1>5. told' \in [Tabs -> Seq(News)]
  BY <1>1, BroadcastTypes DEF ServerInv
<1> HIDE DEF q, skip
<1>6. ServerInv'
  BY <1>1, <1>2, <1>4, <1>5 DEF ServerInv, MailOK
<1>7. ExitsKept
  BY <1>1, <1>3, <1>4 DEF ExitsKept, NewLetters
<1> QED BY <1>6, <1>7

LEMMA ReplyUnrecordedTypes ==
  ASSUME ServerInv, NEW id \in Sessions, NEW type \in ReplyTypes, ReplyUnrecorded(id, type)
  PROVE  ServerInv' /\ ExitsKept
<1> DEFINE q == Acknowledged(queue, id)
<1>1. /\ up /\ Flush(q) /\ Broadcast(type, id) /\ missed' = missed \cup {id}
      /\ UNCHANGED <<up, clients, exitTimer, journal>>
  BY DEF ReplyUnrecorded
<1>2. QueueOK(q) /\ (HasExit(q) => HasExit(queue))
  BY AcknowledgedOK DEF ServerInv
<1> HIDE DEF q
<1>3. /\ QueueOK(queue') /\ PollsOK(polls') /\ MailOK'
      /\ HasExit(queue') => HasExit(q)
      /\ NewLetters(q)
  BY <1>1, <1>2, FlushOK DEF ServerInv, MailOK
<1>4. told' \in [Tabs -> Seq(News)]
  BY <1>1, BroadcastTypes DEF ServerInv
<1>5. missed' \in SUBSET Sessions
  BY <1>1 DEF ServerInv
<1>6. ServerInv'
  BY <1>1, <1>3, <1>4, <1>5 DEF ServerInv, MailOK
<1>7. ExitsKept
  BY <1>1, <1>2, <1>3 DEF ExitsKept, NewLetters
<1> QED BY <1>6, <1>7

LEMMA CompleteOfflineTypes ==
  ASSUME Inv, ServerInv, NEW id \in Sessions, NEW type, CompleteOffline(id, type)
  PROVE  ServerInv' /\ ExitsKept
<1>1. /\ ~up /\ journal' = [journal EXCEPT ![id] = Answered(@, RecordedAs(type), FALSE)]
      /\ UNCHANGED <<up, queue, polls, mail, clients, exitTimer, told, missed>>
  BY DEF CompleteOffline
<1>2. Few(journal')
  BY <1>1, SameJournal DEF Inv, ServerInv
<1> QED BY <1>1, <1>2 DEF ServerInv, ExitsKept

LEMMA HelloTypes ==
  ASSUME JournalShape(journal)
  PROVE  Hello \in News
<1> DEFINE S == {s \in Sessions : Active(journal[s])}
           f == [s \in S |-> [phase |-> journal[s].phase, file |-> journal[s].file]]
<1>1. Hello = [type |-> "connected", id |-> NoId, sessions |-> f]
  BY DEF Hello
<1>2. S \in SUBSET Sessions
  OBVIOUS
<1>3. \A s \in S : journal[s].phase \in Phases /\ journal[s].file \in BOOLEAN
  BY DEF JournalShape, Snapshot
<1> HIDE DEF S
<1>4. f \in [S -> [phase : Phases, file : BOOLEAN]]
  BY <1>3
<1> HIDE DEF f
<1>5. f \in Hellos
  BY <1>2, <1>4 DEF Hellos
<1> QED BY <1>1, <1>5 DEF News

LEMMA ConnectTypes ==
  ASSUME Inv, ServerInv, NEW t \in Tabs, Connect(t)
  PROVE  ServerInv' /\ ExitsKept
<1>1. /\ up /\ exitTimer' = FALSE /\ queue' = WithoutExits(queue)
      /\ clients' = clients \cup {t} /\ told' = [told EXCEPT ![t] = <<Hello>>]
      /\ UNCHANGED <<up, polls, mail, journal, missed>>
  BY DEF Connect
<1>2. queue' \in SUBSET queue
  BY <1>1 DEF WithoutExits
<1>3. QueueOK(queue')
  BY <1>2, SmallerQueue DEF ServerInv
<1>4. ~HasExit(queue')
  BY <1>1 DEF WithoutExits, HasExit, ServerInv, QueueOK
<1>5. <<Hello>> \in Seq(News)
  BY HelloTypes DEF Inv
<1>6. told' \in [Tabs -> Seq(News)]
  <2> HIDE DEF News
  <2> QED BY <1>1, <1>5 DEF ServerInv
<1>7. clients' \in SUBSET Tabs
  BY <1>1 DEF ServerInv
<1> QED BY <1>1, <1>3, <1>4, <1>6, <1>7 DEF ServerInv, ExitsKept

LEMMA DisconnectTypes ==
  ASSUME ServerInv, NEW t \in Tabs, Disconnect(t)
  PROVE  ServerInv' /\ ExitsKept
<1>1. /\ up /\ clients' = clients \ {t}
      /\ exitTimer' = (exitTimer \/ clients' = {})
      /\ told' = [told EXCEPT ![t] = <<>>]
      /\ UNCHANGED <<up, queue, polls, mail, journal, missed>>
  BY DEF Disconnect
<1>2. told' \in [Tabs -> Seq(News)]
  BY <1>1 DEF ServerInv
<1>3. clients' \in SUBSET Tabs /\ clients' \subseteq clients /\ exitTimer' \in BOOLEAN
  BY <1>1 DEF ServerInv
<1> QED BY <1>1, <1>2, <1>3 DEF ServerInv, ExitsKept

LEMMA HearTypes ==
  ASSUME ServerInv, NEW t \in Tabs, Hear(t)
  PROVE  ServerInv' /\ ExitsKept
<1>1. /\ told[t] # <<>> /\ told' = [told EXCEPT ![t] = Tail(@)]
      /\ UNCHANGED <<up, queue, polls, mail, clients, exitTimer, journal, missed>>
  BY DEF Hear
<1>2. Tail(told[t]) \in Seq(News)
  BY <1>1, HeadTailProperties DEF ServerInv
<1>3. told' \in [Tabs -> Seq(News)]
  BY <1>1, <1>2 DEF ServerInv
<1> QED BY <1>1, <1>3 DEF ServerInv, ExitsKept

LEMMA PollGetTypes ==
  ASSUME ServerInv, NEW a \in Agents, PollGet(a)
  PROVE  ServerInv' /\ ExitsKept
<1>1. up /\ ~Contains(polls, a) /\ UNCHANGED Rest
  BY DEF PollGet, Rest
<1>2. CASE \E e \in Available(queue) :
             /\ queue' = Leased(queue, {e})
             /\ mail' = [mail EXCEPT ![a] = [id |-> e.id, type |-> e.type]]
             /\ UNCHANGED polls
  <2>1. PICK e \in Available(queue) :
             /\ queue' = Leased(queue, {e})
             /\ mail' = [mail EXCEPT ![a] = [id |-> e.id, type |-> e.type]]
             /\ UNCHANGED polls
    BY <1>2
  <2>2. e \in queue
    BY DEF Available
  <2>3. QueueOK(queue') /\ (HasExit(queue') => HasExit(queue))
    BY <2>1, <2>2, LeasedOK DEF ServerInv
  <2>4. /\ [id |-> e.id, type |-> e.type] \in Letters
        /\ e.type = "exit" => HasExit(queue)
    BY <2>2, LetterOf DEF ServerInv
  <2>5. MailOK'
    BY <2>1, <2>4 DEF MailOK, ServerInv
  <2>6. PollsOK(polls')
    BY <2>1 DEF ServerInv, PollsOK
  <2>7. ServerInv'
    BY <1>1, <2>3, <2>5, <2>6, SameTypes
  <2>8. \A b \in Agents : mail'[b].type = "exit" => mail[b].type = "exit" \/ HasExit(queue)
    BY <2>1, <2>4 DEF ServerInv
  <2> QED BY <1>1, <2>3, <2>7, <2>8 DEF ExitsKept, Rest
<1>3. CASE polls' = Append(polls, a) /\ UNCHANGED <<queue, mail>>
  <2>1. PollsOK(polls')
    BY <1>1, <1>3, ParkOK DEF ServerInv
  <2>2. QueueOK(queue') /\ MailOK'
    BY <1>3 DEF ServerInv, MailOK
  <2> QED BY <1>1, <1>3, <2>1, <2>2, SameTypes DEF ExitsKept, Rest
<1> QED BY <1>2, <1>3 DEF PollGet

LEMMA PollEndsTypes ==
  ASSUME ServerInv, NEW a \in Agents, PollTimesOut(a) \/ PollCloses(a) \/ PollRead(a)
  PROVE  ServerInv' /\ ExitsKept
<1>1. UNCHANGED Rest /\ UNCHANGED queue
  BY DEF PollTimesOut, PollCloses, PollRead, Rest
<1>2. PollsOK(polls')
  BY UnparkOK DEF PollTimesOut, PollCloses, PollRead, ServerInv, PollsOK
<1>3. \/ mail' = mail
      \/ mail' = [mail EXCEPT ![a] = NoMail]
  BY DEF PollTimesOut, PollCloses, PollRead
<1>4. MailOK'
  BY <1>3 DEF MailOK, ServerInv, Letters
<1>5. \A b \in Agents : mail'[b] = mail[b] \/ mail'[b].type = None
  BY <1>3 DEF ServerInv, NoMail
<1>6. QueueOK(queue')
  BY <1>1 DEF ServerInv
<1>7. ServerInv'
  BY <1>1, <1>2, <1>4, <1>6, SameTypes
<1> QED BY <1>1, <1>5, <1>7 DEF ExitsKept, Rest, None

LEMMA LeaseRunsOutTypes ==
  ASSUME ServerInv, NEW e \in queue, LeaseRunsOut(e)
  PROVE  ServerInv' /\ ExitsKept
<1> DEFINE f == [e EXCEPT !.leased = FALSE]
<1>1. /\ queue' = (queue \ {e}) \cup {f}
      /\ UNCHANGED Rest /\ UNCHANGED <<polls, mail>>
  BY DEF LeaseRunsOut, Rest
<1>2. e \in Entry
  BY DEF ServerInv, QueueOK
<1>3. /\ f \in Entry /\ f.id = e.id /\ f.type = e.type /\ f.seq = e.seq /\ f.leased = FALSE
      /\ Key(f) = Key(e)
  BY <1>2, Marked
<1>4. IsFiniteSet(queue')
  BY <1>1, FS_RemoveElement, FS_AddElement DEF ServerInv, QueueOK
<1> HIDE DEF f
<1>5. Fresh(queue')
  <2>1. SUFFICES ASSUME NEW x \in queue', NEW y \in queue',
                        x.seq = y.seq \/ (Key(x) = Key(y) /\ x.id # NoId)
                 PROVE  x = y
    BY DEF Fresh
  <2>2. x = f \/ (x \in queue /\ x # e)
    BY <1>1
  <2>3. y = f \/ (y \in queue /\ y # e)
    BY <1>1
  <2> QED BY <1>3, <2>1, <2>2, <2>3 DEF ServerInv, QueueOK, Fresh
<1>6. QueueOK(queue')
  BY <1>1, <1>3, <1>4, <1>5 DEF ServerInv, QueueOK
<1>7. HasExit(queue') => HasExit(queue)
  BY <1>1, <1>3 DEF HasExit
<1>8. ServerInv'
  BY <1>1, <1>6, SameTypes DEF ServerInv, MailOK
<1> QED BY <1>1, <1>7, <1>8 DEF ExitsKept, Rest, LeaseRunsOut

LEMMA LeaseTimerTypes ==
  ASSUME ServerInv, LeaseTimerFires
  PROVE  ServerInv' /\ ExitsKept
<1>1. up /\ Flush(queue) /\ UNCHANGED Rest
  BY DEF LeaseTimerFires, Rest
<1>2. /\ QueueOK(queue') /\ PollsOK(polls') /\ MailOK'
      /\ HasExit(queue') => HasExit(queue)
      /\ NewLetters(queue)
  BY <1>1, FlushOK DEF ServerInv, MailOK
<1>3. ServerInv'
  BY <1>1, <1>2, SameTypes
<1> QED BY <1>1, <1>2, <1>3 DEF ExitsKept, NewLetters, Rest

LEMMA EmptyTypes ==
  ASSUME ServerInv, up' = FALSE, queue' = {}, polls' = <<>>, MailOK', clients' = {},
         exitTimer' = FALSE, told' = [t \in Tabs |-> <<>>], missed' = {}, journal' = journal
  PROVE  ServerInv' /\ ExitsKept
<1>1. QueueOK(queue')
  BY FS_EmptySet DEF QueueOK, Fresh
<1>2. PollsOK(polls')
  BY DEF PollsOK, IsInjective
<1>3. told' \in [Tabs -> Seq(News)]
  OBVIOUS
<1> QED BY <1>1, <1>2, <1>3 DEF ServerInv, MailOK, ExitsKept

LEMMA EndTypes ==
  ASSUME ServerInv, Crash \/ Stop
  PROVE  ServerInv' /\ ExitsKept
<1>1. NoMail \in Letters /\ [id |-> NoId, type |-> "exit"] \in Letters
  BY DEF Letters
<1>2. CASE Crash
  <2>1. MailOK'
    BY <1>1, <1>2 DEF Crash, MailOK
  <2> QED BY <1>2, <2>1, EmptyTypes DEF Crash
<1>3. CASE Stop
  <2>1. MailOK'
    BY <1>1, <1>3 DEF Stop, MailOK, ServerInv
  <2> QED BY <1>3, <2>1, EmptyTypes DEF Stop
<1> QED BY <1>2, <1>3

\* What is restored are the requests of known sessions, which are finitely many.
LEMMA RestartTypes ==
  ASSUME Inv, ServerInv, Restart
  PROVE  ServerInv' /\ ExitsKept
<1> DEFINE E(s) == [id |-> s, type |-> journal[s].pending, leased |-> FALSE, seq |-> s]
           g    == [s \in Restored |-> E(s)]
<1>1. /\ up' = TRUE /\ queue' = {E(s) : s \in Restored}
      /\ UNCHANGED <<polls, mail, clients, exitTimer, told, journal, missed>>
  BY DEF Restart
<1>2. IsFiniteSet(queue')
  <2>1. Restored \in SUBSET {s \in Sessions : Known(journal[s])}
    BY DEF Restored, Active
  <2>2. IsFiniteSet(Restored)
    BY <2>1, FS_Subset DEF ServerInv, Few
  <2>3. g \in Surjection(Restored, queue')
    BY <1>1 DEF Surjection
  <2> QED BY <2>2, <2>3, FS_Surjection
<1>3. ASSUME NEW s \in Restored
      PROVE  /\ s \in Sessions /\ E(s) \in Entry /\ s # NoId
             /\ E(s).type # "exit"
  <2>1. s \in Sessions /\ journal[s].pending # None
    BY DEF Restored
  <2>2. journal[s].pending \in Requests
    BY <2>1 DEF Inv, JournalShape, Snapshot
  <2>3. s \in Nat /\ s # NoId
    BY <2>1, LiveAssumption
  <2> QED BY <2>1, <2>2, <2>3 DEF Entry, Requests
<1>4. \A s : E(s).id = s /\ E(s).seq = s /\ Key(E(s)) = <<s, E(s).type>> /\ E(s).leased = FALSE
  BY DEF Key
<1> HIDE DEF E
<1>5. \A s : Key(E(s)) = <<s, E(s).type>>
  BY <1>4
<1>6. Fresh(queue')
  <2>1. SUFFICES ASSUME NEW s \in Restored, NEW r \in Restored,
                        E(s).seq = E(r).seq \/ Key(E(s)) = Key(E(r))
                 PROVE  E(s) = E(r)
    BY <1>1 DEF Fresh
  <2>2. s = r
    BY <1>4, <1>5, <2>1
  <2> QED BY <2>2
<1>7. QueueOK(queue')
  BY <1>1, <1>2, <1>3, <1>4, <1>6 DEF QueueOK
<1>8. ~HasExit(queue')
  BY <1>1, <1>3 DEF HasExit
<1> QED BY <1>1, <1>7, <1>8 DEF ServerInv, ExitsKept

LEMMA IdleTypes ==
  ASSUME ServerInv, UNCHANGED server
  PROVE  ServerInv' /\ ExitsKept
BY DEF ServerInv, ExitsKept, server

\* A step of the helper other than the exit of a user.
OtherNext ==
  \/ \E s \in Sessions :
       \/ \E type \in Requests : Post(s, type)
       \/ \E phase \in Overlay, revision \in 0 .. MaxRevision : PostCheckpoint(s, phase, revision)
       \/ \E type \in ReplyTypes :
            \/ \E carbonize \in BOOLEAN : Reply(s, type, carbonize)
            \/ ReplyUnrecorded(s, type)
            \/ CompleteOffline(s, type)
  \/ \E t \in Tabs : Connect(t) \/ Disconnect(t) \/ Hear(t)
  \/ \E a \in Agents : PollGet(a) \/ PollTimesOut(a) \/ PollCloses(a) \/ PollRead(a)
  \/ \E e \in queue : LeaseRunsOut(e)
  \/ LeaseTimerFires \/ ExitTimerFires
  \/ Crash \/ Stop \/ Restart

LEMMA OtherNextTypes ==
  ASSUME Inv, ServerInv, [OtherNext]_server
  PROVE  ServerInv' /\ ExitsKept
<1>1. CASE \E s \in Sessions, type \in Requests : Post(s, type)
  BY <1>1, PostTypes
<1>2. CASE \E s \in Sessions, phase \in Overlay, revision \in 0 .. MaxRevision :
             PostCheckpoint(s, phase, revision)
  BY <1>2, CheckpointTypes
<1>3. CASE \E s \in Sessions, type \in ReplyTypes, carbonize \in BOOLEAN :
             Reply(s, type, carbonize)
  BY <1>3, ReplyTypesOK
<1>4. CASE \E s \in Sessions, type \in ReplyTypes :
             ReplyUnrecorded(s, type) \/ CompleteOffline(s, type)
  BY <1>4, ReplyUnrecordedTypes, CompleteOfflineTypes
<1>5. CASE \E t \in Tabs : Connect(t) \/ Disconnect(t) \/ Hear(t)
  BY <1>5, ConnectTypes, DisconnectTypes, HearTypes
<1>6. CASE \E a \in Agents : PollGet(a) \/ PollTimesOut(a) \/ PollCloses(a) \/ PollRead(a)
  BY <1>6, PollGetTypes, PollEndsTypes
<1>7. CASE \E e \in queue : LeaseRunsOut(e)
  BY <1>7, LeaseRunsOutTypes
<1>8. CASE LeaseTimerFires \/ ExitTimerFires
  BY <1>8, LeaseTimerTypes, ExitTimerTypes
<1>9. CASE Crash \/ Stop \/ Restart
  BY <1>9, EndTypes, RestartTypes
<1>10. CASE UNCHANGED server
  BY <1>10, IdleTypes
<1>11. CASE OtherNext
  BY <1>1, <1>2, <1>3, <1>4, <1>5, <1>6, <1>7, <1>8, <1>9, <1>11 DEF OtherNext
<1> QED BY <1>10, <1>11

LEMMA ServerNext == Inv /\ ServerInv /\ [Next]_server => ServerInv'
<1>1. [Next]_server => [OtherNext]_server \/ PostExit
  BY DEF Next, OtherNext
<1> QED BY <1>1, OtherNextTypes, PostExitTypes

LEMMA ServerImplies == Inv /\ ServerInv => TypeOK
<1> SUFFICES ASSUME Inv, ServerInv PROVE TypeOK
  OBVIOUS
<1>1. Letters \subseteq Mail
  BY DEF Letters, Mail, NoMail
<1>2. mail \in [Agents -> Mail]
  BY <1>1 DEF ServerInv
<1> QED BY <1>2 DEF Inv, ServerInv, QueueOK, Fresh, PollsOK, JournalShape, TypeOK

LEMMA StartedTypes ==
  ASSUME NEW open \in SUBSET Tabs, Started(open)
  PROVE  ServerInv
<1>1. QueueOK({}) /\ PollsOK(<<>>)
  BY FS_EmptySet DEF QueueOK, Fresh, PollsOK, IsInjective
<1>2. Few(journal)
  <2>1. {s \in Sessions : Known(journal[s])} = {}
    BY DEF Started, Known
  <2> QED BY <2>1, FS_EmptySet DEF Few
<1>3. mail \in [Agents -> Letters]
  BY DEF Started, Letters
<1>4. told \in [Tabs -> Seq(News)]
  BY DEF Started
<1> QED BY <1>1, <1>2, <1>3, <1>4 DEF Started, ServerInv

\* The state is of its types, each event is queued once, exits are never leased
\* and each poll is parked once, whatever the pages, the agents and the clock do
\* with the helper.
THEOREM HelperTyped == Spec => []TypeOK
<1>1. Init => Inv /\ ServerInv
  BY StartedInv, StartedTypes DEF Init
<1>2. Inv /\ ServerInv /\ [Next]_server => Inv' /\ ServerInv'
  BY NextInv, ServerNext
<1> QED BY <1>1, <1>2, ServerImplies, PTL DEF Spec

-----------------------------------------------------------------------------
(* Live mode takes the helper's own steps.                                 *)

LEMMA AgentSteps ==
  ASSUME PagesInv, NEW a \in Agents, AgentStep(a)
  PROVE  [OtherNext]_server
<1>1. CASE Ask(a) \/ AskTimesOut(a) \/ Receive(a)
  BY <1>1 DEF Ask, AskTimesOut, Receive, OtherNext
<1>2. CASE Script(a) \/ Edit(a) \/ Cleanup(a) \/ ReplyRefused(a)
  BY <1>2 DEF Script, Edit, Cleanup, ReplyRefused
<1>3. CASE PostReply(a)
  <2>1. agent[a].id \in Sessions /\ agent[a].reply \in ReplyTypes /\ agent[a].carbonize \in BOOLEAN
    BY <1>3 DEF PostReply, PagesInv, AgentsInv, AgentInv, Working, Agent
  <2> QED BY <1>3, <2>1 DEF PostReply, OtherNext
<1>4. CASE Finish(a)
  <2>1. agent[a].id \in Sessions
    BY <1>4 DEF Finish, PagesInv, AgentsInv, AgentInv, Working
  <2>2. "discarded" \in ReplyTypes /\ "complete" \in ReplyTypes
    BY DEF ReplyTypes
  <2>3. \E type \in ReplyTypes : \/ Reply(agent[a].id, type, FALSE)
                                 \/ CompleteOffline(agent[a].id, type)
    BY <1>4, <2>2 DEF Finish
  <2> QED BY <2>1, <2>3 DEF OtherNext
<1> QED BY <1>1, <1>2, <1>3, <1>4 DEF AgentStep

LEMMA OverlaySteps ==
  ASSUME NEW t \in Tabs, Overlays(t)
  PROVE  [OtherNext]_server
<1>1. CASE Hears(t)
  BY <1>1 DEF Hears, OtherNext
<1>2. CASE StreamOpens(t) \/ StreamCloses(t)
  BY <1>2 DEF StreamOpens, StreamCloses, OtherNext
<1>3. CASE Settles(t) \/ CheckpointDue(t) \/ SteerTimesOut(t)
  BY <1>3 DEF Settles, CheckpointDue, SteerTimesOut
<1>4. CASE \E s \in Sessions : Injects(t, s)
  BY <1>4 DEF Injects
<1> QED BY <1>1, <1>2, <1>3, <1>4 DEF Overlays

LEMMA UserSteps == User \/ Hmr => UNCHANGED server
BY DEF User, Go, Steer, Accept, Discard, Exit, Hmr, HmrAdds, HmrRemoves

LEMMA CarrySteps ==
  ASSUME PagesInv, Carries
  PROVE  [OtherNext]_server \/ (PostExit /\ asked /\ UNCHANGED asked)
<1>1. CASE \E c \in calls : Captured(c) \/ Returns(c)
  BY <1>1 DEF Captured, Returns
<1>2. CASE \E c \in calls : Arrives(c)
  <2>1. PICK c \in calls : Arrives(c)
    BY <1>2
  <2>2. CallInv(c)
    BY DEF PagesInv, BrowserInv, CallsInv
  <2>3. CASE c.type = "checkpoint"
    <3>1. PostCheckpoint(c.id, c.phase, c.revision)
      BY <2>1, <2>3 DEF Arrives
    <3>2. c.id \in Sessions /\ c.phase \in Overlay /\ c.revision \in 0 .. MaxRevision
      BY <2>2, <2>3 DEF CallInv, Posts, Revisions
    <3> QED BY <3>1, <3>2 DEF OtherNext
  <2>4. CASE c.type = "exit"
    BY <2>1, <2>2, <2>4 DEF Arrives, CallInv, Carries
  <2>5. CASE c.type \notin {"checkpoint", "exit"}
    <3>1. Post(c.id, c.type)
      BY <2>1, <2>5 DEF Arrives
    <3>2. c.id \in Sessions /\ c.type \in Requests
      BY <2>2, <2>5 DEF CallInv, Posts
    <3> QED BY <3>1, <3>2 DEF OtherNext
  <2> QED BY <2>3, <2>4, <2>5
<1> QED BY <1>1, <1>2 DEF Carries

LEMMA BreakSteps ==
  ASSUME PagesInv, Breaks
  PROVE  [OtherNext]_server
<1>1. CASE HelperEnds
  BY <1>1 DEF HelperEnds, OtherNext
<1>2. CASE \E a \in Agents : Die(a)
  BY <1>2 DEF Die, OtherNext
<1>3. CASE \E a \in Agents : ScriptFails(a) \/ GivesUp(a)
  BY <1>3 DEF ScriptFails, GivesUp
<1>4. CASE \E a \in Agents : PostReplyUnrecorded(a)
  <2>1. PICK a \in Agents : PostReplyUnrecorded(a)
    BY <1>4
  <2>2. agent[a].id \in Sessions /\ agent[a].reply \in ReplyTypes
    BY <2>1 DEF PostReplyUnrecorded, PagesInv, AgentsInv, AgentInv, Working
  <2> QED BY <2>1, <2>2 DEF PostReplyUnrecorded, OtherNext
<1>5. CASE \E t \in Tabs : StreamDrops(t) \/ Reload(t)
  BY <1>5 DEF StreamDrops, Reload, OtherNext
<1>6. CASE \E c \in calls : Refused(c)
  BY <1>6 DEF Refused, PostFails
<1> QED BY <1>1, <1>2, <1>3, <1>4, <1>5, <1>6 DEF Breaks

LEMMA LiveSteps ==
  ASSUME PagesInv, [LiveNext]_vars
  PROVE  [OtherNext]_server \/ (PostExit /\ asked /\ UNCHANGED asked)
<1>1. CASE UNCHANGED vars
  BY <1>1 DEF vars
<1>2. CASE \E a \in Agents : Works(a)
  BY <1>2, AgentSteps DEF Works
<1>3. CASE \E t \in Tabs : Overlays(t)
  BY <1>3, OverlaySteps
<1>4. CASE User \/ Hmr
  BY <1>4, UserSteps
<1>5. CASE Carries
  BY <1>5, CarrySteps
<1>6. CASE Timers \/ HelperStarts
  BY <1>6 DEF Timers, HelperStarts, OtherNext
<1>7. CASE Breaks
  BY <1>7, BreakSteps
<1> QED BY <1>1, <1>2, <1>3, <1>4, <1>5, <1>6, <1>7 DEF LiveNext

-----------------------------------------------------------------------------
(* The overlay.                                                            *)

LEMMA NewTabOK == TabInv(NewTab) /\ TabInv([NewTab EXCEPT !.ui = "gone"])
<1>1. 0 \in Revisions /\ NoId \in Ids
  BY LiveAssumption DEF Ids, Revisions
<1>2. NewTab \in Tab /\ [NewTab EXCEPT !.ui = "gone"] \in Tab
  BY <1>1 DEF NewTab, Tab, Ui
<1> QED BY <1>1, <1>2 DEF NewTab, TabInv

LEMMA NoneSavedOK == SavedInv(NoneSaved)
BY LiveAssumption DEF NoneSaved, SavedInv, Ui, Ids, Revisions

LEMMA SetsOK ==
  ASSUME TabsInv, NEW t \in Tabs, NEW r, TabInv(r), Sets(t, r)
  PROVE  TabsInv' /\ tab'[t] = r /\ \A u \in Tabs : u # t => tab'[u] = tab[u]
<1>1. r \in Tab
  BY DEF TabInv
<1>2. tab' = [tab EXCEPT ![t] = r]
  BY DEF Sets
<1> HIDE DEF Tab
<1>3. /\ tab' \in [Tabs -> Tab] /\ tab'[t] = r
      /\ \A u \in Tabs : u # t => tab'[u] = tab[u]
  BY <1>1, <1>2 DEF TabsInv
<1>4. \A u \in Tabs : TabInv(tab'[u])
  BY <1>3 DEF TabsInv
<1> QED BY <1>3, <1>4 DEF TabsInv

LEMMA SavedOK ==
  ASSUME SavedInv(saved), NEW r, TabInv(r)
  PROVE  SavedInv(Saved(r))
<1>1. CASE r.sess = NoId
  BY <1>1 DEF Saved
<1>2. CASE r.sess # NoId
  BY <1>2 DEF Saved, SavedInv, TabInv, Tab
<1> QED BY <1>1, <1>2

LEMMA RecountedOK ==
  ASSUME SavedInv(saved), NEW r, TabInv(r)
  PROVE  SavedInv(Recounted(saved, r))
BY DEF Recounted, SavedInv, TabInv

LEMMA CountedOK ==
  ASSUME NEW r, TabInv(r)
  PROVE  TabInv(Counted(r)) /\ Counted(r).ui = r.ui
<1>1. CASE r.revision < MaxRevision
  <2>1. r.revision + 1 \in Revisions
    BY <1>1, LiveAssumption DEF TabInv, Revisions
  <2>2. r.revision + 1 \in Nat
    BY LiveAssumption DEF TabInv, Revisions
  <2> QED BY <1>1, <2>1, <2>2 DEF Counted, TabInv, Tab
<1>2. CASE ~(r.revision < MaxRevision)
  BY <1>2 DEF Counted
<1> QED BY <1>1, <1>2

LEMMA DueOK ==
  ASSUME NEW r, TabInv(r), r.ui # "gone"
  PROVE  TabInv(Due(r)) /\ Due(r).ui = r.ui
<1>1. (r.sess # NoId /\ r.revision < MaxRevision) \in BOOLEAN
  OBVIOUS
<1> QED BY <1>1 DEF Due, TabInv, Tab

LEMMA ShownOK ==
  ASSUME NEW r, TabInv(r)
  PROVE  TabInv(Shown(r)) /\ Shown(r).ui = "cycling"
BY DEF Shown, TabInv, Tab, Ui

LEMMA CleanedOK ==
  ASSUME NEW r, TabInv(r)
  PROVE  TabInv(Cleaned(r)) /\ Cleaned(r).ui = "picking"
BY SessionsAreIds DEF Cleaned, TabInv, Tab, Ui, Ids

LEMMA GreaterRevision ==
  ASSUME NEW a \in Revisions, NEW b \in Revisions
  PROVE  Max({a, b}) \in Revisions /\ Max({a, b}) \in Nat
<1>1. a \in Nat /\ b \in Nat
  BY LiveAssumption DEF Revisions
<1>2. \E x \in {a, b} : \A y \in {a, b} : x >= y
  <2>1. CASE a <= b
    BY <1>1, <2>1
  <2>2. CASE b <= a
    BY <1>1, <2>2
  <2> QED BY <1>1, <2>1, <2>2
<1>3. Max({a, b}) \in {a, b}
  BY <1>2 DEF Max
<1> QED BY <1>1, <1>3

LEMMA ResumedOK ==
  ASSUME NEW r, TabInv(r), NEW s \in Sessions, SavedInv(saved)
  PROVE  TabInv(Resumed(r, s)) /\ Resumed(r, s).ui = "cycling"
<1> DEFINE q == [r EXCEPT !.ui = "cycling", !.sess = s, !.arrived = TRUE, !.watch = s,
                          !.file = @ \/ (saved.id = s /\ saved.file),
                          !.revision = Max({@, saved.revision})]
<1>1. Max({r.revision, saved.revision}) \in Revisions /\ Max({r.revision, saved.revision}) \in Nat
  BY GreaterRevision DEF TabInv, SavedInv
<1>2. (r.file \/ (saved.id = s /\ saved.file)) \in BOOLEAN
  OBVIOUS
<1>3. TabInv(q) /\ q.ui = "cycling"
  BY <1>1, <1>2 DEF TabInv, Tab, Ui, Ids
<1>4. Resumed(r, s) = Due(q)
  BY DEF Resumed
<1> HIDE DEF q
<1> QED BY <1>3, <1>4, DueOK

LEMMA RestoredFromOK ==
  ASSUME NEW r, TabInv(r), NEW active, SavedInv(saved), saved.id # NoId
  PROVE  TabInv(RestoredFrom(r, active)) /\ RestoredFrom(r, active).ui = "generating"
<1> DEFINE s    == saved.id
           file == r.file \/ saved.file \/ (s \in DOMAIN active /\ active[s].file)
           q    == [r EXCEPT !.ui = "generating", !.sess = s, !.arrived = saved.arrived,
                             !.watch = s, !.file = file, !.revision = Max({@, saved.revision}),
                             !.inject = IF file THEN @ \cup {s} ELSE @]
<1>1. Max({r.revision, saved.revision}) \in Revisions /\ Max({r.revision, saved.revision}) \in Nat
  BY GreaterRevision DEF TabInv, SavedInv
<1>2. file \in BOOLEAN
  OBVIOUS
<1>3. s \in Sessions /\ saved.arrived \in BOOLEAN
  BY DEF SavedInv, Ids
<1>4. RestoredFrom(r, active) = Due(q)
  BY DEF RestoredFrom
<1> HIDE DEF file
<1>5. (IF file THEN r.inject \cup {s} ELSE r.inject) \in SUBSET Sessions
  BY <1>3 DEF TabInv, Tab
<1>6. TabInv(q) /\ q.ui = "generating"
  BY <1>1, <1>2, <1>3, <1>5 DEF TabInv, Tab, Ui, Ids
<1> HIDE DEF q
<1> QED BY <1>4, <1>6, DueOK

-----------------------------------------------------------------------------
(* Requests under way.                                                     *)

\* A request stays what it is while its page is there and nobody takes back
\* that he asked to exit.
LEMMA CallKept ==
  ASSUME NEW c, CallInv(c), asked => asked', c.await => tab'[c.tab].ui # "gone"
  PROVE  CallInv(c)'
BY DEF CallInv

LEMMA CallMoved ==
  ASSUME NEW c, CallInv(c), NEW at \in {"sent", "ok", "failed"}
  PROVE  CallInv([c EXCEPT !.at = at])
BY DEF CallInv, Posts

LEMMA CallShape ==
  ASSUME NEW t \in Tabs, NEW id \in Ids, NEW type \in Requests \cup {"exit"},
         NEW at \in {"capture", "sent", "ok", "failed"}
  PROVE  LET c == Call(t, type, id, at)
         IN  /\ c \in Posts
             /\ c.tab = t /\ c.type = type /\ c.id = id /\ c.at = at
             /\ c.await => type \in {"accept", "discard", "steer"}
<1>1. /\ type \in Requests \cup {"checkpoint", "exit"}
      /\ 0 \in Revisions /\ None \in Overlay \cup {None}
      /\ (type \in {"accept", "discard", "steer"}) \in BOOLEAN
  BY LiveAssumption DEF Revisions
<1>2. Call(t, type, id, at) \in Posts
  BY <1>1 DEF Call, Posts
<1> QED BY <1>2 DEF Call

LEMMA CallOf ==
  ASSUME NEW t \in Tabs, NEW id \in Sessions, NEW type \in Requests,
         NEW at \in {"capture", "sent", "ok", "failed"},
         at = "capture" => type = "generate",
         tab[t].ui # "gone" \/ type \notin {"accept", "discard", "steer"}
  PROVE  CallInv(Call(t, type, id, at))
<1> DEFINE c == Call(t, type, id, at)
<1>1. /\ c \in Posts
      /\ c.tab = t /\ c.type = type /\ c.id = id /\ c.at = at
      /\ c.await => type \in {"accept", "discard", "steer"}
  BY CallShape DEF Ids
<1>2. type # "checkpoint" /\ type # "exit"
  BY DEF Requests
<1> HIDE DEF c
<1>3. CallInv(c)
  BY <1>1, <1>2 DEF CallInv
<1> QED BY <1>3 DEF c

LEMMA CheckpointOf ==
  ASSUME NEW t \in Tabs, NEW r, TabInv(r), NEW id \in Sessions, NEW phase \in Overlay
  PROVE  \A c \in Checkpoint(t, r, id, phase) : CallInv(c)
<1> DEFINE k == Call(t, "checkpoint", id, "sent")
           c == [k EXCEPT !.phase = phase, !.revision = r.revision + 1]
<1>1. CASE r.revision = MaxRevision \/ ~r.fresh
  BY <1>1 DEF Checkpoint
<1>2. CASE ~(r.revision = MaxRevision \/ ~r.fresh)
  <2>1. r.revision + 1 \in Revisions
    BY <1>2, LiveAssumption DEF TabInv, Revisions
  <2>2. Checkpoint(t, r, id, phase) = {c}
    BY <1>2 DEF Checkpoint
  <2>3. k \in [tab : {t}, type : {"checkpoint"}, id : {id}, phase : {None}, revision : {0},
                at : {"sent"}, await : BOOLEAN]
    <3>1. ("checkpoint" \in {"accept", "discard", "steer"}) \in BOOLEAN
      OBVIOUS
    <3> QED BY <3>1 DEF Call
  <2>4. ~k.await
    BY DEF Call
  <2> HIDE DEF k
  <2>5. c \in [tab : {t}, type : {"checkpoint"}, id : {id}, phase : {phase},
                revision : {r.revision + 1}, at : {"sent"}, await : BOOLEAN]
    BY <2>3
  <2>6. ~c.await
    BY <2>3, <2>4
  <2> HIDE DEF c
  <2>7. c \in Posts
    BY <2>1, <2>5 DEF Posts, Ids
  <2>8. CallInv(c)
    BY <2>5, <2>6, <2>7 DEF CallInv
  <2> QED BY <2>2, <2>8
<1> QED BY <1>1, <1>2

-----------------------------------------------------------------------------
(* What the pages do.                                                      *)

LEMMA CallsKept ==
  ASSUME CallsInv, asked => asked',
         \A u \in Tabs : tab[u].ui # "gone" => tab'[u].ui # "gone",
         NEW new, \A c \in new : CallInv(c), calls' \subseteq calls \cup new
  PROVE  CallsInv'
<1> SUFFICES ASSUME NEW c \in calls' PROVE CallInv(c)'
  BY DEF CallsInv
<1>1. CallInv(c)
  BY DEF CallsInv
<1>2. c.await => tab'[c.tab].ui # "gone"
  BY <1>1 DEF CallInv, Posts
<1> QED BY <1>1, <1>2, CallKept

\* The overlay of one page changes and the page stays, or is there again.
LEMMA OneTab ==
  ASSUME BrowserInv, NEW t \in Tabs, NEW r, TabInv(r), Sets(t, r), r.ui # "gone",
         asked => asked', SavedInv(saved'), handled' \in Ids, used' \in SUBSET Sessions,
         NEW new, \A c \in new : CallInv(c), calls' \subseteq calls \cup new
  PROVE  BrowserInv'
<1>1. TabsInv' /\ tab'[t] = r /\ \A u \in Tabs : u # t => tab'[u] = tab[u]
  BY SetsOK DEF BrowserInv
<1>2. \A u \in Tabs : tab[u].ui # "gone" => tab'[u].ui # "gone"
  BY <1>1
<1>3. CallsInv'
  BY <1>2, CallsKept DEF BrowserInv
<1> QED BY <1>1, <1>3 DEF BrowserInv

LEMMA OneTabOnly ==
  ASSUME BrowserInv, NEW t \in Tabs, NEW r, TabInv(r), Sets(t, r), r.ui # "gone",
         asked => asked', SavedInv(saved'), handled' \in Ids, used' \in SUBSET Sessions,
         calls' \subseteq calls
  PROVE  BrowserInv'
<1> DEFINE new == {}
<1>1. (\A c \in new : CallInv(c)) /\ calls' \subseteq calls \cup new
  OBVIOUS
<1> HIDE DEF new
<1> QED BY <1>1, OneTab

\* The same when its gone-ness is what it was.
LEMMA SameTabs ==
  ASSUME BrowserInv, NEW t \in Tabs, NEW r, TabInv(r), Sets(t, r), r.ui = tab[t].ui,
         asked => asked', SavedInv(saved'), handled' \in Ids, used' \in SUBSET Sessions,
         calls' \subseteq calls
  PROVE  BrowserInv'
<1>1. TabsInv' /\ tab'[t] = r /\ \A u \in Tabs : u # t => tab'[u] = tab[u]
  BY SetsOK DEF BrowserInv
<1>2. \A u \in Tabs : tab[u].ui # "gone" => tab'[u].ui # "gone"
  BY <1>1
<1>3. CallsInv'
  <2> DEFINE new == {}
  <2>1. (\A c \in new : CallInv(c)) /\ calls' \subseteq calls \cup new
    OBVIOUS
  <2> HIDE DEF new
  <2> QED BY <1>2, <2>1, CallsKept DEF BrowserInv
<1> QED BY <1>1, <1>3 DEF BrowserInv

LEMMA NoTab ==
  ASSUME BrowserInv, tab' = tab, asked => asked', SavedInv(saved'), handled' \in Ids,
         used' \in SUBSET Sessions,
         NEW new, \A c \in new : CallInv(c), calls' \subseteq calls \cup new
  PROVE  BrowserInv'
<1>1. CallsInv'
  BY CallsKept DEF BrowserInv
<1> QED BY <1>1 DEF BrowserInv, TabsInv

LEMMA SentOK ==
  ASSUME NEW t \in Tabs, NEW id \in Sessions, NEW type \in Requests, tab[t].ui # "gone"
  PROVE  CallInv(Sent(t, type, id))
BY CallOf DEF Sent

LEMMA GoOK ==
  ASSUME BrowserInv, NEW t \in Tabs, NEW s \in Sessions, Go(t, s), asked => asked'
  PROVE  BrowserInv'
<1> DEFINE r == [tab[t] EXCEPT !.ui = "generating", !.sess = s, !.arrived = FALSE,
                               !.accepting = NoId, !.file = FALSE, !.watch = s]
           new == Checkpoint(t, r, s, "generating") \cup {Call(t, "generate", s, "capture")}
<1>1. TabInv(r) /\ r.ui = "generating"
  BY DEF BrowserInv, TabsInv, TabInv, Tab, Ui, Ids
<1>2. /\ Sets(t, Counted(r)) /\ saved' = Saved(Counted(r))
      /\ calls' = calls \cup new
      /\ used' = used \cup {s} /\ handled' = handled
  BY DEF Go
<1>3. CallInv(Call(t, "generate", s, "capture"))
  BY CallOf DEF Requests
<1> HIDE DEF r
<1>4. \A c \in Checkpoint(t, r, s, "generating") : CallInv(c)
  BY <1>1, CheckpointOf DEF Overlay
<1>5. TabInv(Counted(r)) /\ Counted(r).ui # "gone" /\ SavedInv(saved')
  BY <1>1, <1>2, CountedOK, SavedOK DEF BrowserInv
<1>6. \A c \in new : CallInv(c)
  BY <1>3, <1>4
<1>7. used' \in SUBSET Sessions /\ handled' \in Ids
  BY <1>2 DEF BrowserInv
<1>8. calls' \subseteq calls \cup new
  BY <1>2
<1> HIDE DEF new
<1> QED BY <1>2, <1>5, <1>6, <1>7, <1>8, OneTab

LEMMA AcceptOK ==
  ASSUME BrowserInv, NEW t \in Tabs, Accept(t), asked => asked'
  PROVE  BrowserInv'
<1> DEFINE r == [tab[t] EXCEPT !.ui = "saving", !.accepting = tab[t].sess]
           new == {Sent(t, "accept", tab[t].sess)}
<1>1. /\ tab[t].ui = "cycling" /\ tab[t].sess # NoId
      /\ Sets(t, r) /\ saved' = Saved(r)
      /\ calls' = calls \cup new
      /\ handled' = handled /\ used' = used
  BY DEF Accept, BrowserInv, TabsInv, Tab
<1>2. TabInv(r) /\ r.ui # "gone"
  BY DEF BrowserInv, TabsInv, TabInv, Tab, Ui
<1>3. tab[t].sess \in Sessions
  BY <1>1 DEF BrowserInv, TabsInv, Tab, Ids
<1>4. \A c \in new : CallInv(c)
  BY <1>1, <1>3, SentOK DEF Requests
<1> HIDE DEF r
<1>5. SavedInv(saved')
  BY <1>1, <1>2, SavedOK DEF BrowserInv
<1> HIDE DEF new
<1>6. handled' \in Ids /\ used' \in SUBSET Sessions /\ calls' \subseteq calls \cup new
  BY <1>1 DEF BrowserInv
<1> QED BY <1>1, <1>2, <1>4, <1>5, <1>6, OneTab

LEMMA DiscardOK ==
  ASSUME BrowserInv, NEW t \in Tabs, Discard(t), asked => asked'
  PROVE  BrowserInv'
<1> DEFINE new == {Sent(t, "discard", tab[t].sess)}
<1>1. /\ tab[t].ui = "cycling" /\ tab[t].sess # NoId
      /\ calls' = calls \cup new
      /\ UNCHANGED <<tab, saved, handled, used>>
  BY DEF Discard
<1>2. tab[t].sess \in Sessions
  BY <1>1 DEF BrowserInv, TabsInv, Tab, Ids
<1>3. \A c \in new : CallInv(c)
  BY <1>1, <1>2, SentOK DEF Requests
<1> HIDE DEF new
<1>4. /\ SavedInv(saved') /\ handled' \in Ids /\ used' \in SUBSET Sessions
      /\ calls' \subseteq calls \cup new /\ tab' = tab
  BY <1>1 DEF BrowserInv
<1> QED BY <1>3, <1>4, NoTab

LEMMA SteerOK ==
  ASSUME BrowserInv, NEW t \in Tabs, NEW s \in Sessions, Steer(t, s), asked => asked'
  PROVE  BrowserInv'
<1> DEFINE r == [tab[t] EXCEPT !.steer = s]
           new == Checkpoint(t, tab[t], s, "steer") \cup {Sent(t, "steer", s)}
<1>1. /\ tab[t].ui # "gone" /\ Sets(t, Counted(r))
      /\ saved' = Recounted(saved, Counted(tab[t]))
      /\ calls' = calls \cup new
      /\ used' = used \cup {s} /\ handled' = handled
  BY DEF Steer
<1>2. TabInv(tab[t])
  BY DEF BrowserInv, TabsInv
<1>3. TabInv(r) /\ r.ui # "gone"
  BY <1>1, <1>2 DEF TabInv, Tab, Ids
<1> HIDE DEF r
<1>4. TabInv(Counted(r)) /\ Counted(r).ui # "gone"
  BY <1>3, CountedOK
<1>5. SavedInv(saved')
  BY <1>1, <1>2, CountedOK, RecountedOK DEF BrowserInv
<1>6. \A c \in new : CallInv(c)
  BY <1>1, <1>2, CheckpointOf, SentOK DEF Overlay, Requests
<1>7. used' \in SUBSET Sessions /\ handled' \in Ids
  BY <1>1 DEF BrowserInv
<1>8. calls' \subseteq calls \cup new
  BY <1>1
<1> HIDE DEF new
<1> QED BY <1>1, <1>4, <1>5, <1>6, <1>7, <1>8, OneTab

\* What a page that leaves has sent.
LEMMA AbandonedOK ==
  ASSUME CallsInv, NEW t
  PROVE  \A c \in Abandoned(t) : CallInv(c) /\ (c.tab = t => ~c.await)
<1> SUFFICES ASSUME NEW c \in Abandoned(t) PROVE CallInv(c) /\ (c.tab = t => ~c.await)
  OBVIOUS
<1>1. CASE c \in calls /\ c.tab # t
  BY <1>1 DEF CallsInv
<1>2. CASE \E d \in calls : c = [d EXCEPT !.await = FALSE]
  <2>1. PICK d \in calls : c = [d EXCEPT !.await = FALSE]
    BY <1>2
  <2>2. CallInv(d)
    BY DEF CallsInv
  <2>3. /\ c \in Posts /\ c.type = d.type /\ c.id = d.id /\ c.phase = d.phase /\ c.at = d.at
        /\ ~c.await
    BY <2>1, <2>2 DEF CallInv, Posts
  <2> QED BY <2>2, <2>3 DEF CallInv
<1> QED BY <1>1, <1>2 DEF Abandoned

LEMMA ExitOK ==
  ASSUME BrowserInv, NEW t \in Tabs, Exit(t), asked'
  PROVE  BrowserInv'
<1> DEFINE r == [NewTab EXCEPT !.ui = "gone"]
           x == Sent(t, "exit", NoId)
<1>1. /\ Sets(t, r) /\ saved' = NoneSaved
      /\ calls' = Under(Abandoned(t) \cup {x})
      /\ handled' = handled /\ used' = used
  BY DEF Exit
<1>2. /\ x \in Posts /\ x.tab = t /\ x.type = "exit" /\ x.at \in {"sent", "failed"} /\ ~x.await
  BY CallShape DEF Sent, Ids
<1>3. TabInv(r)
  BY NewTabOK
<1> HIDE DEF r, x
<1>4. TabsInv' /\ \A u \in Tabs : u # t => tab'[u] = tab[u]
  BY <1>1, <1>3, SetsOK DEF BrowserInv
<1>5. ASSUME NEW c \in calls' PROVE CallInv(c)'
  <2>1. CASE c = x
    BY <1>2, <2>1 DEF CallInv
  <2>2. CASE c \in Abandoned(t)
    <3>1. CallInv(c) /\ (c.tab = t => ~c.await)
      BY <2>2, AbandonedOK DEF BrowserInv
    <3>2. c.await => tab'[c.tab].ui # "gone"
      BY <1>4, <3>1 DEF CallInv, Posts
    <3> QED BY <3>1, <3>2, CallKept
  <2> QED BY <1>1, <2>1, <2>2 DEF Under
<1>6. SavedInv(saved')
  BY <1>1, NoneSavedOK
<1> QED BY <1>1, <1>4, <1>5, <1>6 DEF BrowserInv, CallsInv

-----------------------------------------------------------------------------
(* What becomes of the requests, and what the pages are told.              *)

\* A request that moves on leaves the pages alone.
LEMMA Moved ==
  ASSUME BrowserInv, UNCHANGED <<tab, saved, handled, used>>, asked => asked',
         NEW new, \A c \in new : CallInv(c), calls' \subseteq calls \cup new
  PROVE  BrowserInv'
BY NoTab DEF BrowserInv

LEMMA CapturedOK ==
  ASSUME BrowserInv, NEW c \in calls, Captured(c), asked => asked'
  PROVE  BrowserInv'
<1> DEFINE new == {Sent(c.tab, c.type, c.id)}
<1>1. /\ c.at = "capture"
      /\ calls' \subseteq calls \cup new
      /\ UNCHANGED <<tab, saved, handled, used>>
  BY DEF Captured, Under
<1>2. CallInv(c)
  BY DEF BrowserInv, CallsInv
<1>3. c.tab \in Tabs /\ c.type = "generate" /\ c.id \in Sessions
  BY <1>1, <1>2 DEF CallInv, Posts
<1>4. CallInv(Sent(c.tab, c.type, c.id))
  BY <1>3, CallOf DEF Sent, Requests
<1>5. \A d \in new : CallInv(d)
  BY <1>4
<1> HIDE DEF new
<1> QED BY <1>1, <1>5, Moved

LEMMA ArrivesOK ==
  ASSUME BrowserInv, NEW c \in calls, Arrives(c) \/ Refused(c), asked => asked'
  PROVE  BrowserInv'
<1> DEFINE new == {[c EXCEPT !.at = "ok"], [c EXCEPT !.at = "failed"]}
<1>1. /\ calls' \subseteq calls \cup new
      /\ UNCHANGED <<tab, saved, handled, used>>
  BY DEF Arrives, Refused, Under
<1>2. CallInv(c)
  BY DEF BrowserInv, CallsInv
<1>3. \A d \in new : CallInv(d)
  BY <1>2, CallMoved
<1> HIDE DEF new
<1> QED BY <1>1, <1>3, Moved

LEMMA ReturnsOK ==
  ASSUME BrowserInv, NEW c \in calls, Returns(c), asked => asked'
  PROVE  BrowserInv'
<1> DEFINE t == c.tab
           r == tab[t]
<1>1. CallInv(c) /\ c.await
  BY DEF BrowserInv, CallsInv, Returns
<1>2. t \in Tabs /\ r.ui # "gone" /\ c.id \in Sessions
  BY <1>1 DEF CallInv, Posts
<1>3. TabInv(r)
  BY <1>2 DEF BrowserInv, TabsInv
<1>4. used' = used
  BY DEF Returns
<1>5. CASE /\ Sets(t, [r EXCEPT !.ui = "cycling",
                                !.accepting = IF @ = c.id THEN NoId ELSE @])
           /\ calls' = calls \ {c} /\ UNCHANGED <<saved, handled>>
  <2> DEFINE q == [r EXCEPT !.ui = "cycling", !.accepting = IF @ = c.id THEN NoId ELSE @]
  <2>1. TabInv(q) /\ q.ui # "gone"
    BY <1>3 DEF TabInv, Tab, Ui, Ids
  <2>2. Sets(t, q)
    BY <1>5
  <2> HIDE DEF q
  <2>3. calls' \subseteq calls /\ SavedInv(saved') /\ handled' \in Ids
        /\ used' \in SUBSET Sessions
    BY <1>4, <1>5 DEF BrowserInv
  <2> QED BY <1>2, <2>1, <2>2, <2>3, OneTabOnly
<1>6. CASE /\ Sets(t, Cleaned(r)) /\ saved' = NoneSaved
           /\ handled' = IF r.sess = NoId THEN handled ELSE r.sess
           /\ calls' = calls \ {c}
  <2>1. TabInv(Cleaned(r)) /\ Cleaned(r).ui # "gone"
    BY <1>3, CleanedOK
  <2>2. calls' \subseteq calls /\ SavedInv(saved') /\ used' \in SUBSET Sessions
    BY <1>4, <1>6, NoneSavedOK DEF BrowserInv
  <2>3. handled' \in Ids
    BY <1>3, <1>6 DEF BrowserInv, TabInv, Tab
  <2> QED BY <1>2, <1>6, <2>1, <2>2, <2>3, OneTabOnly
<1>7. CASE /\ Sets(t, Counted([r EXCEPT !.steer = NoId]))
           /\ saved' = Recounted(saved, Counted(r))
           /\ calls' = (calls \ {c}) \cup Checkpoint(t, r, c.id, "steer")
           /\ UNCHANGED handled
  <2> DEFINE q   == [r EXCEPT !.steer = NoId]
             new == Checkpoint(t, r, c.id, "steer")
  <2>1. TabInv(q) /\ q.ui # "gone"
    BY <1>2, <1>3 DEF TabInv, Tab, Ids
  <2>2. Sets(t, Counted(q)) /\ calls' \subseteq calls \cup new
    BY <1>7
  <2> HIDE DEF q
  <2>3. TabInv(Counted(q)) /\ Counted(q).ui # "gone"
    BY <2>1, CountedOK
  <2>4. \A d \in new : CallInv(d)
    BY <1>2, <1>3, CheckpointOf DEF Overlay
  <2>5. SavedInv(saved')
    BY <1>3, <1>7, CountedOK, RecountedOK DEF BrowserInv
  <2>6. handled' \in Ids /\ used' \in SUBSET Sessions
    BY <1>4, <1>7 DEF BrowserInv
  <2> HIDE DEF new
  <2> QED BY <1>2, <2>2, <2>3, <2>4, <2>5, <2>6, OneTab
<1>8. CASE calls' = calls \ {c} /\ UNCHANGED <<tab, saved, handled>>
  <2> DEFINE new == {}
  <2>1. (\A d \in new : CallInv(d)) /\ calls' \subseteq calls \cup new
    BY <1>8
  <2> HIDE DEF new
  <2> QED BY <1>4, <1>8, <2>1, Moved
<1> QED BY <1>5, <1>6, <1>7, <1>8 DEF Returns

LEMMA CheckpointDueOK ==
  ASSUME BrowserInv, NEW t \in Tabs, CheckpointDue(t), asked => asked'
  PROVE  BrowserInv'
<1> DEFINE r   == [tab[t] EXCEPT !.dirty = FALSE]
           new == Checkpoint(t, r, r.sess, r.ui)
<1>1. TabInv(tab[t]) /\ tab[t].dirty
  BY DEF BrowserInv, TabsInv, CheckpointDue
<1>2. TabInv(r) /\ r.ui = tab[t].ui /\ r.ui # "gone"
  BY <1>1 DEF TabInv, Tab
<1>3. handled' \in Ids /\ used' \in SUBSET Sessions
  BY DEF CheckpointDue, BrowserInv
<1>4. CASE r.sess = NoId
  <2>1. Sets(t, r) /\ UNCHANGED <<saved, calls>>
    BY <1>4 DEF CheckpointDue
  <2> HIDE DEF r
  <2>2. calls' \subseteq calls /\ SavedInv(saved')
    BY <2>1 DEF BrowserInv
  <2> QED BY <1>2, <1>3, <2>1, <2>2, OneTabOnly
<1>5. CASE r.sess # NoId
  <2>1. /\ Sets(t, Counted(r)) /\ saved' = Recounted(saved, Counted(r))
        /\ calls' = calls \cup new
    BY <1>5 DEF CheckpointDue
  <2> HIDE DEF r
  <2>2. r.sess \in Sessions /\ r.ui \in Overlay
    BY <1>2, <1>5 DEF TabInv, Tab, Ids, Ui, Overlay
  <2>3. \A d \in new : CallInv(d)
    BY <1>2, <2>2, CheckpointOf
  <2>4. TabInv(Counted(r)) /\ Counted(r).ui # "gone" /\ SavedInv(saved')
    BY <1>2, <2>1, CountedOK, RecountedOK DEF BrowserInv
  <2>5. calls' \subseteq calls \cup new
    BY <2>1
  <2> HIDE DEF new
  <2> QED BY <1>3, <2>1, <2>3, <2>4, <2>5, OneTab
<1> QED BY <1>4, <1>5

LEMMA SteerTimesOutOK ==
  ASSUME BrowserInv, NEW t \in Tabs, SteerTimesOut(t), asked => asked'
  PROVE  BrowserInv'
<1> DEFINE r == [tab[t] EXCEPT !.steer = NoId]
<1>1. TabInv(tab[t])
  BY DEF BrowserInv, TabsInv
<1>2. TabInv(r) /\ r.ui = tab[t].ui
  BY <1>1 DEF TabInv, Tab, Ids
<1>3. /\ Sets(t, r) /\ SavedInv(saved') /\ handled' \in Ids /\ used' \in SUBSET Sessions
      /\ calls' \subseteq calls
  BY DEF SteerTimesOut, BrowserInv
<1> HIDE DEF r
<1> QED BY <1>2, <1>3, SameTabs

-----------------------------------------------------------------------------
(* What comes into a page, and what it is told.                            *)

LEMMA HmrAddsOK ==
  ASSUME BrowserInv, NEW t \in Tabs, NEW s \in Sessions, HmrAdds(t, s), asked => asked'
  PROVE  BrowserInv'
<1> DEFINE q == [tab[t] EXCEPT !.dom = @ \cup {s}, !.scout = FALSE]
<1>1. TabInv(tab[t])
  BY DEF BrowserInv, TabsInv
<1>2. TabInv(q) /\ q.ui = tab[t].ui /\ q.watch = tab[t].watch /\ q.dom \in SUBSET Sessions
  BY <1>1 DEF TabInv, Tab
<1>3. handled' \in Ids /\ used' \in SUBSET Sessions /\ calls' \subseteq calls
  BY DEF HmrAdds, BrowserInv
<1>4. CASE q.watch = s /\ Sets(t, Due(Shown(q))) /\ saved' = Saved(Shown(q))
  <2>1. TabInv(Shown(q)) /\ Shown(q).ui # "gone"
    BY <1>2, ShownOK
  <2>2. TabInv(Due(Shown(q))) /\ Due(Shown(q)).ui # "gone"
    BY <2>1, DueOK
  <2>3. SavedInv(saved')
    BY <1>4, <2>1, SavedOK DEF BrowserInv
  <2> HIDE DEF q
  <2> QED BY <1>3, <1>4, <2>2, <2>3, OneTabOnly
<1>5. CASE \E first \in q.dom \ {handled} :
             Sets(t, Resumed(q, first)) /\ saved' = Saved(Resumed(q, first))
  <2>1. PICK first \in q.dom : Sets(t, Resumed(q, first)) /\ saved' = Saved(Resumed(q, first))
    BY <1>5
  <2>2. first \in Sessions
    BY <1>2
  <2>3. TabInv(Resumed(q, first)) /\ Resumed(q, first).ui # "gone"
    BY <1>2, <2>2, ResumedOK DEF BrowserInv
  <2>4. SavedInv(saved')
    BY <2>1, <2>3, SavedOK DEF BrowserInv
  <2> HIDE DEF q
  <2> QED BY <1>3, <2>1, <2>3, <2>4, OneTabOnly
<1>6. CASE Sets(t, q) /\ UNCHANGED saved
  <2>1. SavedInv(saved')
    BY <1>6 DEF BrowserInv
  <2> HIDE DEF q
  <2> QED BY <1>2, <1>3, <1>6, <2>1, SameTabs
<1> QED BY <1>4, <1>5, <1>6 DEF HmrAdds

LEMMA HmrRemovesOK ==
  ASSUME BrowserInv, NEW t \in Tabs, NEW s \in Sessions, HmrRemoves(t, s), asked => asked'
  PROVE  BrowserInv'
<1> DEFINE r == [tab[t] EXCEPT !.dom = @ \ {s}]
<1>1. TabInv(tab[t])
  BY DEF BrowserInv, TabsInv
<1>2. TabInv(r) /\ r.ui = tab[t].ui
  BY <1>1 DEF TabInv, Tab
<1>3. /\ Sets(t, r) /\ SavedInv(saved') /\ handled' \in Ids /\ used' \in SUBSET Sessions
      /\ calls' \subseteq calls
  BY DEF HmrRemoves, BrowserInv
<1> HIDE DEF r
<1> QED BY <1>2, <1>3, SameTabs

LEMMA InjectsOK ==
  ASSUME BrowserInv, NEW t \in Tabs, NEW s \in Sessions, Injects(t, s), asked => asked'
  PROVE  BrowserInv'
<1> DEFINE q == [tab[t] EXCEPT !.inject = @ \ {s}]
           p == [q EXCEPT !.dom = @ \cup {s}]
<1>1. TabInv(tab[t]) /\ s \in tab[t].inject
  BY DEF BrowserInv, TabsInv, Injects
<1>2. TabInv(q) /\ q.ui # "gone"
  BY <1>1 DEF TabInv, Tab
<1>3. handled' \in Ids /\ used' \in SUBSET Sessions /\ calls' \subseteq calls
  BY DEF Injects, BrowserInv
<1>4. \/ Sets(t, Shown(p)) /\ saved' = Saved(Shown(p))
      \/ Sets(t, q) /\ UNCHANGED saved
  BY DEF Injects
<1> HIDE DEF q
<1>5. TabInv(p) /\ p.ui = q.ui
  BY <1>2 DEF TabInv, Tab
<1> HIDE DEF p
<1>6. TabInv(Shown(p)) /\ Shown(p).ui # "gone"
  BY <1>5, ShownOK
<1>7. CASE Sets(t, Shown(p)) /\ saved' = Saved(Shown(p))
  <2>1. SavedInv(saved')
    BY <1>6, <1>7, SavedOK DEF BrowserInv
  <2> QED BY <1>3, <1>6, <1>7, <2>1, OneTabOnly
<1>8. CASE Sets(t, q) /\ UNCHANGED saved
  <2>1. SavedInv(saved')
    BY <1>8 DEF BrowserInv
  <2> QED BY <1>2, <1>3, <1>8, <2>1, OneTabOnly
<1> QED BY <1>4, <1>7, <1>8

LEMMA SettlesOK ==
  ASSUME BrowserInv, NEW t \in Tabs, Settles(t), asked => asked'
  PROVE  BrowserInv'
<1> DEFINE s == tab[t].settling
           r == [tab[t] EXCEPT !.settling = NoId]
           w == [Cleaned(r) EXCEPT !.accepting = NoId, !.dom = r.dom \ {s}]
<1>1. TabInv(tab[t]) /\ s # NoId
  BY DEF BrowserInv, TabsInv, Settles
<1>2. TabInv(r) /\ r.ui # "gone"
  BY <1>1 DEF TabInv, Tab, Ids
<1>3. handled' \in Ids /\ used' \in SUBSET Sessions /\ calls' \subseteq calls
  BY DEF Settles, BrowserInv
<1>4. \/ Sets(t, w) /\ saved' = NoneSaved
      \/ Sets(t, r) /\ UNCHANGED saved
  BY DEF Settles
<1> HIDE DEF r, s
<1>5. TabInv(Cleaned(r)) /\ Cleaned(r).ui = "picking"
  BY <1>2, CleanedOK
<1>6. TabInv(w) /\ w.ui # "gone"
  BY <1>2, <1>5 DEF TabInv, Tab, Ids
<1> HIDE DEF w
<1>7. SavedInv(saved')
  BY <1>4, NoneSavedOK DEF BrowserInv
<1> QED BY <1>2, <1>3, <1>4, <1>6, <1>7, OneTabOnly

LEMMA ReloadOK ==
  ASSUME BrowserInv, NEW t \in Tabs, Reload(t), asked => asked'
  PROVE  BrowserInv'
<1> DEFINE dom == {s \in Sessions : src[s] = "wrapped"}
           new == [NewTab EXCEPT !.dom = dom]
           w   == [new EXCEPT !.scout = TRUE]
<1>1. dom \in SUBSET Sessions
  OBVIOUS
<1>2. /\ calls' = Abandoned(t) /\ used' = used
      /\ \/ \E first \in dom : /\ Sets(t, Resumed(new, first))
                               /\ saved' = Saved(Resumed(new, first))
                               /\ handled' = handled
         \/ Sets(t, w) /\ saved' = saved /\ handled' = handled
         \/ /\ saved.id # NoId
            /\ Sets(t, RestoredFrom(new, <<>>))
            /\ saved' = Saved(RestoredFrom(new, <<>>))
            /\ handled' = handled
         \/ Sets(t, w) /\ saved' = NoneSaved /\ handled' = NoId
  BY DEF Reload, RestorableFrom
<1> HIDE DEF dom
<1>3. TabInv(new) /\ TabInv(w) /\ w.ui # "gone"
  <2>1. NewTab \in Tab /\ NewTab.revision \in Revisions /\ NewTab.ui = "picking"
    BY NewTabOK DEF TabInv, NewTab
  <2>2. new \in Tab /\ new.revision \in Revisions /\ new.ui = "picking"
    BY <1>1, <2>1 DEF Tab
  <2> HIDE DEF new
  <2>3. w \in Tab /\ w.revision \in Revisions /\ w.ui = "picking"
    BY <2>2 DEF Tab
  <2> QED BY <2>2, <2>3 DEF TabInv
<1> HIDE DEF new, w
<1>4. SavedInv(saved) /\ handled \in Ids /\ NoId \in Ids /\ used' \in SUBSET Sessions
  BY <1>2 DEF BrowserInv, Ids
<1>5. \E r : TabInv(r) /\ Sets(t, r) /\ r.ui # "gone" /\ SavedInv(saved') /\ handled' \in Ids
  <2>1. CASE \E first \in dom : /\ Sets(t, Resumed(new, first))
                                /\ saved' = Saved(Resumed(new, first))
                                /\ handled' = handled
    <3>1. PICK first \in dom : /\ Sets(t, Resumed(new, first))
                               /\ saved' = Saved(Resumed(new, first))
                               /\ handled' = handled
      BY <2>1
    <3>2. first \in Sessions
      BY <1>1
    <3>3. TabInv(Resumed(new, first)) /\ Resumed(new, first).ui # "gone"
      BY <1>3, <1>4, <3>2, ResumedOK
    <3> QED BY <1>4, <3>1, <3>3, SavedOK
  <2>2. CASE Sets(t, w) /\ saved' = saved /\ handled' = handled
    BY <1>3, <1>4, <2>2
  <2>3. CASE /\ saved.id # NoId
             /\ Sets(t, RestoredFrom(new, <<>>))
             /\ saved' = Saved(RestoredFrom(new, <<>>))
             /\ handled' = handled
    <3>1. /\ TabInv(RestoredFrom(new, <<>>))
          /\ RestoredFrom(new, <<>>).ui # "gone"
      BY <1>3, <1>4, <2>3, RestoredFromOK
    <3> QED BY <1>4, <2>3, <3>1, SavedOK
  <2>4. CASE Sets(t, w) /\ saved' = NoneSaved /\ handled' = NoId
    BY <1>3, <1>4, <2>4, NoneSavedOK
  <2> QED BY <1>2, <2>1, <2>2, <2>3, <2>4
<1>6. PICK r : TabInv(r) /\ Sets(t, r) /\ r.ui # "gone" /\ SavedInv(saved') /\ handled' \in Ids
  BY <1>5
<1>7. TabsInv' /\ tab'[t] = r /\ \A u \in Tabs : u # t => tab'[u] = tab[u]
  BY <1>6, SetsOK DEF BrowserInv
<1>8. ASSUME NEW c \in calls' PROVE CallInv(c)'
  <2>1. CallInv(c)
    BY <1>2, AbandonedOK DEF BrowserInv
  <2>2. c.await => tab'[c.tab].ui # "gone"
    <3>1. CASE c.tab = t
      BY <1>6, <1>7, <3>1
    <3>2. CASE c.tab # t
      BY <1>7, <2>1, <3>2 DEF CallInv, Posts
    <3> QED BY <3>1, <3>2
  <2> QED BY <2>1, <2>2, CallKept
<1> QED BY <1>4, <1>6, <1>7, <1>8 DEF BrowserInv, CallsInv

\* What is on its way to a page is an answer for a session, or the greeting.
LEMMA HearsOK ==
  ASSUME BrowserInv, ServerInv, NEW t \in Tabs, Hears(t), asked => asked'
  PROVE  BrowserInv'
<1> DEFINE m == Head(told[t])
           r == tab[t]
<1>1. TabInv(r) /\ r.ui # "gone" /\ told[t] # <<>>
  BY DEF BrowserInv, TabsInv, Hears
<1>2. m \in News
  BY <1>1, HeadTailProperties DEF ServerInv
<1>3. \/ m.type = "connected"
      \/ m.type \in ReplyTypes /\ m.id \in Sessions
  BY <1>2 DEF News
<1>4. used' \in SUBSET Sessions /\ calls' \subseteq calls
  BY DEF Hears, BrowserInv
<1>5. SavedInv(saved) /\ handled \in Ids /\ SavedInv(NoneSaved)
  BY NoneSavedOK DEF BrowserInv
<1>6. CASE UNCHANGED <<tab, saved, handled>>
  <2> DEFINE new == {}
  <2>1. (\A c \in new : CallInv(c)) /\ calls' \subseteq calls \cup new
    BY <1>4
  <2> HIDE DEF new
  <2> QED BY <1>4, <1>5, <1>6, <2>1, NoTab
<1> DEFINE Becomes(w) == /\ Sets(t, w) /\ TabInv(w) /\ w.ui # "gone"
                         /\ SavedInv(saved') /\ handled' \in Ids
<1>7. CASE \E w : Becomes(w)
  BY <1>4, <1>7, OneTabOnly
<1>8. CASE m.type = "connected"
  <2>1. Connected(t, m)
    BY <1>8 DEF Hears
  <2>2. CASE tab[t].dom = {} /\ RestorableFrom(m.sessions)
    <3> DEFINE w == RestoredFrom(tab[t], m.sessions)
    <3>1. Sets(t, w) /\ saved' = Saved(w) /\ UNCHANGED handled
      BY <2>1, <2>2 DEF Connected
    <3>2. saved.id # NoId
      BY <2>2 DEF RestorableFrom
    <3>3. TabInv(w) /\ w.ui # "gone"
      BY <1>1, <1>5, <3>2, RestoredFromOK
    <3> HIDE DEF w
    <3>4. Becomes(w)
      BY <1>5, <3>1, <3>3, SavedOK
    <3> QED BY <1>7, <3>4
  <2>3. CASE ~(tab[t].dom = {} /\ RestorableFrom(m.sessions))
    BY <1>6, <2>1, <2>3 DEF Connected
  <2> QED BY <2>2, <2>3
<1>9. CASE m.type = "done"
  <2>1. Done(t, m) /\ m.id \in Sessions
    BY <1>3, <1>9 DEF Hears
  <2> DEFINE q == [r EXCEPT !.file = TRUE]
             u == [q EXCEPT !.ui = "cycling"]
             v == [q EXCEPT !.inject = @ \cup {m.id}]
  <2>2. (Sets(t, u) \/ Sets(t, v) \/ Sets(t, q)) /\ UNCHANGED <<saved, handled>>
    BY <2>1 DEF Done
  <2>3. TabInv(q) /\ q.ui # "gone"
    BY <1>1 DEF TabInv, Tab
  <2> HIDE DEF q
  <2>4. TabInv(u) /\ u.ui # "gone" /\ TabInv(v) /\ v.ui # "gone"
    BY <2>1, <2>3 DEF TabInv, Tab, Ui
  <2> HIDE DEF u, v
  <2>5. Becomes(q) \/ Becomes(u) \/ Becomes(v)
    BY <1>5, <2>2, <2>3, <2>4
  <2> QED BY <1>7, <2>5
<1>10. CASE m.type = "complete"
  <2>1. Completed(t, m) /\ m.id \in Sessions
    BY <1>3, <1>10 DEF Hears, ReplyTypes
  <2> DEFINE u == [r EXCEPT !.accepting = NoId]
             v == [r EXCEPT !.ui = "confirmed", !.settling = m.id]
  <2>2. TabInv(u) /\ u.ui # "gone" /\ TabInv(v) /\ v.ui # "gone"
    BY <1>1, <2>1 DEF TabInv, Tab, Ui, Ids
  <2>3. \/ UNCHANGED <<tab, saved, handled>>
        \/ Sets(t, u) /\ UNCHANGED <<saved, handled>>
        \/ /\ Sets(t, v) /\ UNCHANGED saved
           /\ handled' = IF r.sess = NoId THEN handled ELSE r.sess
    BY <2>1 DEF Completed
  <2>4. r.sess \in Ids
    BY <1>1 DEF TabInv, Tab
  <2> HIDE DEF u, v
  <2>5. UNCHANGED <<tab, saved, handled>> \/ Becomes(u) \/ Becomes(v)
    BY <1>5, <2>2, <2>3, <2>4
  <2> QED BY <1>6, <1>7, <2>5
<1>11. CASE m.type = "discarded"
  <2>1. Discarded(t, m) /\ m.id \in Ids
    BY <1>3, <1>11 DEF Hears, ReplyTypes, Ids
  <2> DEFINE w == Cleaned(r)
  <2>2. \/ UNCHANGED <<tab, saved, handled>>
        \/ Sets(t, w) /\ saved' = NoneSaved /\ handled' = m.id
    BY <2>1 DEF Discarded
  <2>3. TabInv(w) /\ w.ui # "gone"
    BY <1>1, CleanedOK
  <2> HIDE DEF w
  <2>4. UNCHANGED <<tab, saved, handled>> \/ Becomes(w)
    BY <1>5, <2>1, <2>2, <2>3
  <2> QED BY <1>6, <1>7, <2>4
<1>12. CASE m.type = "error"
  <2>1. Failed(t, m)
    BY <1>12 DEF Hears
  <2> DEFINE u == [r EXCEPT !.accepting = NoId, !.ui = "cycling"]
             v == [r EXCEPT !.steer = NoId]
             w == [r EXCEPT !.ui = "picking"]
  <2>2. (Sets(t, u) \/ Sets(t, v) \/ Sets(t, w)) /\ UNCHANGED <<saved, handled>>
    BY <2>1 DEF Failed
  <2>3. TabInv(u) /\ u.ui # "gone"
    BY <1>1 DEF TabInv, Tab, Ui, Ids
  <2>4. TabInv(v) /\ v.ui # "gone"
    BY <1>1 DEF TabInv, Tab, Ui, Ids
  <2>5. TabInv(w) /\ w.ui # "gone"
    BY <1>1 DEF TabInv, Tab, Ui, Ids
  <2> HIDE DEF u, v, w
  <2>6. Becomes(u) \/ Becomes(v) \/ Becomes(w)
    BY <1>5, <2>2, <2>3, <2>4, <2>5
  <2> QED BY <1>7, <2>6
<1>13. CASE m.type = "agent_done"
  BY <1>6, <1>13 DEF Hears
<1>14. CASE m.type = "steer_done"
  <2> DEFINE w == [r EXCEPT !.steer = IF @ = m.id THEN NoId ELSE @]
  <2>1. Sets(t, w) /\ UNCHANGED <<saved, handled>>
    BY <1>14 DEF Hears
  <2>2. TabInv(w) /\ w.ui # "gone"
    BY <1>1 DEF TabInv, Tab, Ids
  <2> HIDE DEF w
  <2>3. Becomes(w)
    BY <1>5, <2>1, <2>2
  <2> QED BY <1>7, <2>3
<1> QED BY <1>3, <1>8, <1>9, <1>10, <1>11, <1>12, <1>13, <1>14 DEF ReplyTypes

LEMMA HelperEndsOK ==
  ASSUME BrowserInv, HelperEnds, asked => asked'
  PROVE  BrowserInv'
<1>1. PICK lost \in SUBSET {c \in calls : c.at = "ok"} :
        /\ tab' = [t \in Tabs |-> [tab[t] EXCEPT !.fresh = FALSE]]
        /\ calls' = Under({IF c.at = "sent" \/ c \in lost THEN [c EXCEPT !.at = "failed"] ELSE c
                             : c \in calls})
        /\ UNCHANGED <<saved, handled, used>>
  BY DEF HelperEnds
<1>2. \A t \in Tabs : TabInv(tab[t])
  BY DEF BrowserInv, TabsInv
<1>3. ASSUME NEW t \in Tabs PROVE TabInv(tab'[t]) /\ tab'[t] \in Tab /\ tab'[t].ui = tab[t].ui
  BY <1>1, <1>2 DEF TabInv, Tab
<1>4. TabsInv'
  <2>1. tab' \in [Tabs -> Tab]
    <3> HIDE DEF Tab
    <3> QED BY <1>1, <1>3
  <2> QED BY <1>3, <2>1 DEF TabsInv
<1> DEFINE new == {[c EXCEPT !.at = "failed"] : c \in calls}
<1>5. \A c \in new : CallInv(c)
  BY CallMoved DEF BrowserInv, CallsInv
<1>6. calls' \subseteq calls \cup new
  BY <1>1 DEF Under
<1> HIDE DEF new
<1>7. CallsInv'
  BY <1>3, <1>5, <1>6, CallsKept DEF BrowserInv
<1> QED BY <1>1, <1>4, <1>7 DEF BrowserInv

-----------------------------------------------------------------------------
(* What the agents do.                                                     *)

LEMMA GoesOK ==
  ASSUME AgentsInv, NEW a \in Agents, NEW r, AgentInv(r), Goes(a, r),
         src' \in [Sessions -> SourceStates]
  PROVE  AgentsInv'
<1>1. r \in Agent
  BY DEF AgentInv
<1>2. agent' = [agent EXCEPT ![a] = r]
  BY DEF Goes
<1> HIDE DEF Agent
<1>3. /\ agent' \in [Agents -> Agent] /\ agent'[a] = r
      /\ \A b \in Agents : b # a => agent'[b] = agent[b]
  BY <1>1, <1>2 DEF AgentsInv
<1>4. \A b \in Agents : AgentInv(agent'[b])
  BY <1>3 DEF AgentsInv
<1> QED BY <1>3, <1>4 DEF AgentsInv

LEMMA IdleOK == /\ AgentInv(Idle) /\ AgentInv([Idle EXCEPT !.pc = "ask"])
                /\ AgentInv([Idle EXCEPT !.pc = "gone"])
BY DEF Idle, AgentInv, Agent, Working

LEMMA SourceOK ==
  ASSUME AgentsInv, NEW s, NEW v \in SourceStates
  PROVE  [src EXCEPT ![s] = v] \in [Sessions -> SourceStates]
BY DEF AgentsInv

LEMMA ReceiveOK ==
  ASSUME AgentsInv, ServerInv, NEW a \in Agents, Receive(a)
  PROVE  AgentsInv'
<1> DEFINE m == mail[a]
           r == [agent[a] EXCEPT !.id = m.id, !.type = m.type,
                   !.pc = IF m.type \in {"accept", "discard"} THEN "script" ELSE "edit"]
           w == [Idle EXCEPT !.pc = "gone"]
<1>1. m \in Letters /\ m # NoMail /\ agent[a] \in Agent /\ src' = src
  BY DEF Receive, PollRead, ServerInv, AgentsInv
<1>2. CASE m.type = "exit"
  <2>1. Goes(a, w)
    BY <1>2 DEF Receive
  <2> HIDE DEF w
  <2> QED BY <1>1, <2>1, GoesOK, IdleOK DEF AgentsInv, w
<1>3. CASE m.type # "exit"
  <2>1. m.id \in Sessions /\ m.type \in Requests
    BY <1>1, <1>3 DEF Letters
  <2>2. Goes(a, r)
    BY <1>3 DEF Receive
  <2> HIDE DEF m
  <2>3. AgentInv(r)
    BY <1>1, <2>1 DEF AgentInv, Agent, Working
  <2> HIDE DEF r
  <2> QED BY <1>1, <2>2, <2>3, GoesOK DEF AgentsInv
<1> QED BY <1>2, <1>3

LEMMA ScriptOK ==
  ASSUME AgentsInv, NEW a \in Agents, Script(a)
  PROVE  AgentsInv'
<1> DEFINE s     == agent[a].id
           type  == agent[a].type
           found == src[s] = "wrapped"
<1>1. AgentInv(agent[a]) /\ type \in {"accept", "discard"}
  BY DEF AgentsInv, AgentInv, Script
<1>2. PICK carbonize \in BOOLEAN :
        /\ src' = IF ~found THEN src
                  ELSE [src EXCEPT ![s] = IF type = "discard" THEN "plain"
                                          ELSE IF carbonize THEN "carbonize" ELSE "accepted"]
        /\ Goes(a, [agent[a] EXCEPT !.pc = "reply", !.carbonize = carbonize,
                                   !.reply = Completion(type, found, carbonize)])
  BY DEF Script
<1> DEFINE reply == Completion(type, found, carbonize)
           r     == [agent[a] EXCEPT !.pc = "reply", !.carbonize = carbonize, !.reply = reply]
<1>3. src' \in [Sessions -> SourceStates]
  BY <1>2, SourceOK DEF AgentsInv, SourceStates
<1>4. reply \in ReplyTypes
  BY <1>1 DEF Completion, ReplyTypes
<1>5. agent[a].id \in Sessions /\ agent[a].type \in Requests
  BY DEF AgentsInv, AgentInv, Working, Script
<1> HIDE DEF reply, type, found, s
<1>6. AgentInv(r)
  BY <1>1, <1>4, <1>5 DEF AgentInv, Agent
<1>7. Goes(a, r)
  BY <1>2 DEF reply
<1> HIDE DEF r
<1> QED BY <1>3, <1>6, <1>7, GoesOK

\* An agent at work goes on with the same request.
LEMMA NextStepOK ==
  ASSUME NEW r, AgentInv(r), r.pc \in Working, NEW reply \in ReplyTypes
  PROVE  /\ AgentInv([r EXCEPT !.pc = "reply", !.reply = reply])
         /\ AgentInv([r EXCEPT !.pc = "cleanup"])
         /\ AgentInv([r EXCEPT !.pc = "finish"])
<1>1. r.id \in Sessions /\ r.type \in Requests
  BY DEF AgentInv
<1> QED BY <1>1 DEF AgentInv, Agent, Working

LEMMA ReplyStepsOK ==
  ASSUME AgentsInv, NEW a \in Agents,
         \/ Edit(a) \/ GivesUp(a) \/ ScriptFails(a) \/ Cleanup(a) \/ ReplyRefused(a)
         \/ PostReply(a) \/ PostReplyUnrecorded(a) \/ Finish(a)
  PROVE  AgentsInv'
<1> DEFINE r == agent[a]
           Replies(type) == [r EXCEPT !.pc = "reply", !.reply = type]
<1>1. AgentInv(r)
  BY DEF AgentsInv
<1>2. CASE Edit(a) \/ GivesUp(a) \/ ScriptFails(a)
  <2>1. r.pc \in Working
    BY <1>2 DEF Edit, GivesUp, ScriptFails, Working
  <2>2. \E type \in {"done", "steer_done", "error"} : Goes(a, Replies(type))
    BY <1>2 DEF Edit, GivesUp, ScriptFails
  <2>3. PICK type \in ReplyTypes : Goes(a, Replies(type))
    BY <2>2 DEF ReplyTypes
  <2>4. AgentInv(Replies(type))
    BY <1>1, <2>1, NextStepOK
  <2>5. src' \in [Sessions -> SourceStates]
    BY <1>2, SourceOK DEF Edit, GivesUp, ScriptFails, AgentsInv, SourceStates
  <2> HIDE DEF Replies
  <2> QED BY <2>3, <2>4, <2>5, GoesOK
<1>3. CASE Cleanup(a) \/ ReplyRefused(a)
  <2> DEFINE u == [r EXCEPT !.pc = "cleanup"]
             v == [r EXCEPT !.pc = "finish"]
  <2>1. r.pc \in Working /\ "done" \in ReplyTypes
    BY <1>3 DEF Cleanup, ReplyRefused, Working, ReplyTypes
  <2>2. AgentInv(u) /\ AgentInv(v)
    BY <1>1, <2>1, NextStepOK
  <2>3. Goes(a, u) \/ Goes(a, v)
    BY <1>3 DEF Cleanup, ReplyRefused
  <2>4. src' \in [Sessions -> SourceStates]
    <3>1. CASE Cleanup(a)
      <4>1. (IF src[r.id] = "carbonize" THEN "accepted" ELSE src[r.id]) \in SourceStates
        BY <1>1, <2>1 DEF AgentsInv, AgentInv, SourceStates
      <4> QED BY <3>1, <4>1, SourceOK DEF Cleanup
    <3>2. CASE ReplyRefused(a)
      BY <3>2 DEF ReplyRefused, AgentsInv
    <3> QED BY <1>3, <3>1, <3>2
  <2> HIDE DEF u, v
  <2> QED BY <2>2, <2>3, <2>4, GoesOK
<1>4. CASE PostReply(a) \/ PostReplyUnrecorded(a) \/ Finish(a)
  <2> DEFINE u == [r EXCEPT !.pc = "cleanup"]
  <2>1. r.pc \in Working /\ "done" \in ReplyTypes
    BY <1>4 DEF PostReply, PostReplyUnrecorded, Finish, Working, ReplyTypes
  <2>2. AgentInv(u) /\ AgentInv(Idle)
    BY <1>1, <2>1, NextStepOK, IdleOK
  <2>3. Goes(a, u) \/ Goes(a, Idle)
    BY <1>4 DEF PostReply, PostReplyUnrecorded, Finish, AfterReply
  <2>4. src' \in [Sessions -> SourceStates]
    BY <1>4 DEF PostReply, PostReplyUnrecorded, Finish, AgentsInv
  <2> HIDE DEF u
  <2> QED BY <2>2, <2>3, <2>4, GoesOK
<1> QED BY <1>2, <1>3, <1>4

LEMMA AskOK ==
  ASSUME AgentsInv, NEW a \in Agents, Ask(a) \/ AskTimesOut(a) \/ Die(a)
  PROVE  AgentsInv'
<1> DEFINE u == [Idle EXCEPT !.pc = "ask"]
<1>1. src' \in [Sessions -> SourceStates]
  BY DEF Ask, AskTimesOut, Die, AgentsInv
<1>2. Goes(a, u) \/ Goes(a, Idle)
  BY DEF Ask, AskTimesOut, Die
<1>3. AgentInv(u) /\ AgentInv(Idle)
  BY IdleOK
<1> HIDE DEF u
<1> QED BY <1>1, <1>2, <1>3, GoesOK

LEMMA OrphanedOK ==
  ASSUME AgentsInv, Orphaned, src' = src
  PROVE  AgentsInv'
<1>1. ASSUME NEW a \in Agents PROVE AgentInv(agent'[a])
  <2>1. AgentInv(agent[a])
    BY DEF AgentsInv
  <2>2. AgentInv([agent[a] EXCEPT !.fresh = FALSE])
    BY <2>1 DEF AgentInv, Agent
  <2>3. \/ agent'[a] = Idle
        \/ agent'[a] = [agent[a] EXCEPT !.fresh = FALSE]
        \/ agent'[a] = agent[a]
    BY DEF Orphaned
  <2> QED BY <2>1, <2>2, <2>3, IdleOK
<1>2. \A a \in Agents : agent'[a] \in Agent
  BY <1>1 DEF AgentInv
<1> HIDE DEF Agent
<1>3. agent' \in [Agents -> Agent]
  BY <1>2 DEF Orphaned
<1> QED BY <1>1, <1>3 DEF AgentsInv

-----------------------------------------------------------------------------
(* Live mode.                                                              *)

\* The user: only he asks to exit, and he does not take it back.
LEMMA UserInv == PagesInv /\ User => PagesInv' /\ (asked => asked')
<1> SUFFICES ASSUME PagesInv, User PROVE PagesInv' /\ (asked => asked')
  OBVIOUS
<1>1. PICK t \in Tabs :
        \/ /\ \E s \in Sessions : Go(t, s) \/ Steer(t, s)
           /\ UNCHANGED <<faults, decided, asked>>
        \/ /\ Accept(t) \/ Discard(t)
           /\ decided' = TRUE
           /\ decided => faults < MaxFaults
           /\ faults' = IF decided THEN faults + 1 ELSE faults
           /\ UNCHANGED asked
        \/ /\ Exit(t) /\ faults < MaxFaults /\ faults' = faults + 1 /\ asked' = TRUE
           /\ UNCHANGED decided
  BY DEF User
<1>2. CountsInv'
  <2>1. faults \in 0 .. MaxFaults /\ decided \in BOOLEAN /\ asked \in BOOLEAN
    BY DEF PagesInv, CountsInv
  <2>2. decided' \in BOOLEAN /\ asked' \in BOOLEAN
    BY <1>1, <2>1, Zenon
  <2>3. faults' = faults \/ (faults < MaxFaults /\ faults' = faults + 1)
    <3>1. decided \/ ~decided
      OBVIOUS
    <3> QED BY <1>1, <3>1
  <2>4. faults' \in 0 .. MaxFaults
    BY <2>1, <2>3, FaultsAssumption DEF FaultsAssumption
  <2> QED BY <2>2, <2>4 DEF CountsInv
<1>3. asked => asked'
  BY <1>1
<1>4. BrowserInv'
  BY <1>1, <1>3, GoOK, SteerOK, AcceptOK, DiscardOK, ExitOK DEF PagesInv
<1>5. UNCHANGED <<agent, src>>
  BY <1>1 DEF Go, Steer, Accept, Discard, Exit
<1>6. AgentsInv'
  BY <1>5 DEF PagesInv, AgentsInv
<1> QED BY <1>2, <1>3, <1>4, <1>6 DEF PagesInv

LEMMA BrowserSame ==
  ASSUME BrowserInv, UNCHANGED browser, UNCHANGED asked
  PROVE  BrowserInv'
BY DEF BrowserInv, TabsInv, CallsInv, CallInv, browser

LEMMA WorksInv ==
  ASSUME PagesInv, ServerInv, NEW a \in Agents, Works(a)
  PROVE  PagesInv'
<1>1. AgentStep(a) /\ UNCHANGED browser /\ UNCHANGED <<faults, decided, asked>>
  BY DEF Works
<1>2. AgentsInv'
  BY <1>1, ReceiveOK, ScriptOK, ReplyStepsOK, AskOK DEF PagesInv, AgentStep
<1>3. BrowserInv'
  BY <1>1, BrowserSame DEF PagesInv
<1> QED BY <1>1, <1>2, <1>3 DEF PagesInv, CountsInv

LEMMA OverlaysInv ==
  ASSUME PagesInv, ServerInv, NEW t \in Tabs, Overlays(t)
  PROVE  PagesInv'
<1>1. UNCHANGED <<faults, decided, asked>>
  BY DEF Overlays
<1>2. UNCHANGED <<agent, src>>
  BY DEF Overlays, Hears, Settles, CheckpointDue, SteerTimesOut, StreamOpens, StreamCloses, Injects
<1>3. CASE StreamOpens(t) \/ StreamCloses(t)
  <2>1. UNCHANGED browser
    BY <1>3 DEF StreamOpens, StreamCloses
  <2> QED BY <1>1, <1>2, <2>1, BrowserSame DEF PagesInv, AgentsInv, CountsInv
<1>4. CASE ~(StreamOpens(t) \/ StreamCloses(t))
  <2>1. BrowserInv'
    BY <1>1, <1>4, HearsOK, SettlesOK, CheckpointDueOK, SteerTimesOutOK, InjectsOK
       DEF Overlays, PagesInv
  <2> QED BY <1>1, <1>2, <2>1 DEF PagesInv, AgentsInv, CountsInv
<1> QED BY <1>3, <1>4

LEMMA HmrInv == PagesInv /\ Hmr => PagesInv'
<1> SUFFICES ASSUME PagesInv, Hmr PROVE PagesInv'
  OBVIOUS
<1>1. UNCHANGED <<faults, decided, asked>> /\ UNCHANGED <<agent, src>>
  BY DEF Hmr, HmrAdds, HmrRemoves
<1>2. BrowserInv'
  BY <1>1, HmrAddsOK, HmrRemovesOK DEF Hmr, PagesInv
<1> QED BY <1>1, <1>2 DEF PagesInv, AgentsInv, CountsInv

LEMMA CarriesInv == PagesInv /\ Carries => PagesInv'
<1> SUFFICES ASSUME PagesInv, Carries PROVE PagesInv'
  OBVIOUS
<1>1. UNCHANGED <<faults, decided, asked>> /\ UNCHANGED <<agent, src>>
  BY DEF Carries, Captured, Arrives, Returns
<1>2. BrowserInv'
  BY <1>1, CapturedOK, ArrivesOK, ReturnsOK DEF Carries, PagesInv
<1> QED BY <1>1, <1>2 DEF PagesInv, AgentsInv, CountsInv

LEMMA IdlePages ==
  ASSUME PagesInv, UNCHANGED <<agent, src>>, UNCHANGED browser, UNCHANGED <<faults, decided, asked>>
  PROVE  PagesInv'
BY BrowserSame DEF PagesInv, AgentsInv, CountsInv

LEMMA BreaksInv == PagesInv /\ Breaks => PagesInv' /\ UNCHANGED asked
<1> SUFFICES ASSUME PagesInv, Breaks PROVE PagesInv' /\ UNCHANGED asked
  OBVIOUS
<1>1. \E kind : Fault(kind)
  BY DEF Breaks, HelperEnds
<1>2. CountsInv' /\ UNCHANGED asked
  BY <1>1, FaultsAssumption DEF FaultsAssumption, PagesInv, CountsInv, Fault
<1>3. CASE HelperEnds
  <2>1. src' = src /\ Orphaned
    BY <1>3 DEF HelperEnds
  <2>2. AgentsInv'
    BY <2>1, OrphanedOK DEF PagesInv
  <2>3. BrowserInv'
    BY <1>2, <1>3, HelperEndsOK DEF PagesInv
  <2> QED BY <1>2, <2>2, <2>3 DEF PagesInv
<1>4. CASE \E a \in Agents : /\ \/ Die(a) \/ ScriptFails(a) \/ GivesUp(a)
                                \/ PostReplyUnrecorded(a)
                             /\ UNCHANGED browser
  <2>1. AgentsInv'
    BY <1>4, AskOK, ReplyStepsOK DEF PagesInv
  <2>2. BrowserInv'
    BY <1>2, <1>4, BrowserSame DEF PagesInv
  <2> QED BY <1>2, <2>1, <2>2 DEF PagesInv
<1>5. CASE \E t \in Tabs : StreamDrops(t)
  <2>1. UNCHANGED browser /\ UNCHANGED <<agent, src>>
    BY <1>5 DEF StreamDrops
  <2> QED BY <1>2, <2>1, BrowserSame DEF PagesInv, AgentsInv
<1>6. CASE \E t \in Tabs : Reload(t)
  <2>1. UNCHANGED <<agent, src>>
    BY <1>6 DEF Reload
  <2>2. BrowserInv'
    BY <1>2, <1>6, ReloadOK DEF PagesInv
  <2> QED BY <1>2, <2>1, <2>2 DEF PagesInv, AgentsInv
<1>7. CASE \E c \in calls : Refused(c)
  <2>1. UNCHANGED <<agent, src>>
    BY <1>7 DEF Refused
  <2>2. BrowserInv'
    BY <1>2, <1>7, ArrivesOK DEF PagesInv
  <2> QED BY <1>2, <2>1, <2>2 DEF PagesInv, AgentsInv
<1> QED BY <1>3, <1>4, <1>5, <1>6, <1>7 DEF Breaks

LEMMA PagesNext ==
  ASSUME PagesInv, ServerInv, [LiveNext]_vars
  PROVE  PagesInv' /\ (asked => asked')
<1>1. CASE UNCHANGED vars
  BY <1>1, IdlePages DEF vars
<1>2. CASE \E a \in Agents : Works(a)
  BY <1>2, WorksInv DEF Works
<1>3. CASE \E t \in Tabs : Overlays(t)
  BY <1>3, OverlaysInv DEF Overlays
<1>4. CASE User
  BY <1>4, UserInv
<1>5. CASE Hmr
  BY <1>5, HmrInv DEF Hmr
<1>6. CASE Carries
  BY <1>6, CarriesInv DEF Carries
<1>7. CASE Timers \/ HelperStarts
  BY <1>7, IdlePages DEF Timers, HelperStarts
<1>8. CASE Breaks
  BY <1>8, BreaksInv
<1> QED BY <1>1, <1>2, <1>3, <1>4, <1>5, <1>6, <1>7, <1>8 DEF LiveNext

\* Who may be told to leave: nobody, while a page is connected and no user has
\* asked to exit.
LEMMA LiveStep ==
  ASSUME LiveInv, [LiveNext]_vars
  PROVE  /\ LiveInv'
         /\ \A a \in Agents : mail'[a].type = "exit" /\ mail[a].type # "exit"
                                => clients' = {} \/ asked' \/ ~up'
<1>1. PagesInv' /\ (asked => asked')
  BY PagesNext DEF LiveInv
<1>2. [OtherNext]_server \/ (PostExit /\ asked /\ UNCHANGED asked)
  BY LiveSteps DEF LiveInv
<1>3. CASE [OtherNext]_server
  <2>1. ServerInv' /\ ExitsKept
    BY <1>3, OtherNextTypes DEF LiveInv
  <2>2. [Next]_server
    BY <1>3 DEF Next, OtherNext
  <2>3. Inv'
    BY <2>2, NextInv DEF LiveInv
  <2>4. up /\ HasExit(queue) /\ clients' \subseteq clients => clients' = {} \/ asked'
    BY <1>1 DEF LiveInv, ExitInv
  <2>5. ExitInv'
    BY <2>1, <2>4 DEF ExitsKept, ExitInv
  <2> QED BY <1>1, <2>1, <2>3, <2>4, <2>5 DEF LiveInv, ExitsKept
<1>4. CASE PostExit /\ asked /\ UNCHANGED asked
  <2>1. ServerInv'
    BY <1>4, PostExitTypes DEF LiveInv
  <2>2. Inv'
    BY <1>4, NextInv DEF LiveInv, Next
  <2>3. ExitInv'
    BY <1>4 DEF ExitInv
  <2> QED BY <1>1, <1>4, <2>1, <2>2, <2>3 DEF LiveInv
<1> QED BY <1>2, <1>3, <1>4

LEMMA LiveStart == LiveInit => LiveInv
<1> SUFFICES ASSUME LiveInit PROVE LiveInv
  OBVIOUS
<1>1. Inv /\ ServerInv /\ ~HasExit(queue)
  BY StartedInv, StartedTypes DEF LiveInit, Started, HasExit
<1>2. AgentsInv
  <2>1. Idle \in Agent /\ AgentInv(Idle) /\ "plain" \in SourceStates
    BY IdleOK DEF AgentInv, SourceStates
  <2> HIDE DEF Agent, SourceStates
  <2> QED BY <2>1 DEF LiveInit, AgentInit, AgentsInv
<1>3. TabsInv
  <2>1. NewTab \in Tab /\ TabInv(NewTab)
    BY NewTabOK DEF TabInv
  <2> HIDE DEF Tab
  <2> QED BY <2>1 DEF LiveInit, TabsInv
<1>4. BrowserInv
  BY <1>3, NoneSavedOK DEF LiveInit, BrowserInv, CallsInv, Ids
<1>5. CountsInv
  <2>1. faults = 0 /\ decided = FALSE /\ asked = FALSE
    BY DEF LiveInit
  <2>2. 0 \in 0 .. MaxFaults
    BY FaultsAssumption DEF FaultsAssumption
  <2> QED BY <2>1, <2>2 DEF CountsInv
<1> QED BY <1>1, <1>2, <1>4, <1>5 DEF LiveInv, PagesInv, ExitInv

LEMMA LiveImplies == LiveInv => LiveTypeOK /\ PendingQueued
<1>1. LiveInv => TypeOK /\ PendingQueued
  BY ServerImplies, InvImplies DEF LiveInv
<1> QED BY <1>1 DEF LiveInv, PagesInv, AgentsInv, BrowserInv, TabsInv, CountsInv, LiveTypeOK

\* The helper, the agents and the pages are of their types together, whatever
\* of them ends, drops, fails or is reloaded.
THEOREM LiveTyped == LiveSpec => []LiveTypeOK
<1>1. LiveInv /\ [LiveNext]_vars => LiveInv'
  BY LiveStep
<1> QED BY <1>1, LiveStart, LiveImplies, PTL DEF LiveSpec

\* What PendingTheorem says of any callers holds of live mode: its agents, pages
\* and faults do nothing to the helper that its handlers do not.
THEOREM LivePending == LiveSpec => []PendingQueued
<1>1. LiveInv /\ [LiveNext]_vars => LiveInv'
  BY LiveStep
<1> QED BY <1>1, LiveStart, LiveImplies, PTL DEF LiveSpec

\* The agent is told to leave only by a user who exits, by a helper that ends,
\* or when no page is connected.
THEOREM ExitTheorem == LiveSpec => ExitMeansGone
<1>1. LiveInv /\ [LiveNext]_vars => LiveInv'
  BY LiveStep
<1>2. LiveInv /\ [LiveNext]_vars
        => [\A a \in Agents : mail'[a].type = "exit" /\ mail[a].type # "exit"
                                => clients' = {} \/ asked' \/ ~up']_vars
  BY LiveStep
<1> QED BY <1>1, <1>2, LiveStart, PTL DEF LiveSpec, ExitMeansGone
=============================================================================
