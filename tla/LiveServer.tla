----------------------------- MODULE LiveServer ------------------------------
(* The live helper (live-server.mjs): the queue of browser events that the   *)
(* agent's long polls lease and its replies acknowledge, the journal they    *)
(* are recorded in, the event stream to the tabs and the timer that tells    *)
(* the agent to leave when the last tab is gone.                             *)
(*                                                                          *)
(* One action per handler; who calls them is left open here (Spec allows     *)
(* every call at any time) and closed in LiveMode.                           *)
EXTENDS LiveJournal, Sequences, FiniteSets, SequencesExt

CONSTANTS
  Sessions,   \* ids of sessions, in their lexical order
  Agents,     \* poll processes
  Tabs,       \* pages with the overlay
  MaxRevision \* bound: checkpoints of one session

NoId == 0     \* the id of an `exit' event

ASSUME LiveAssumption == /\ Sessions \subseteq Nat \ {NoId}
                         /\ MaxRevision \in Nat

VARIABLES
  up,        \* is the process running?
  queue,     \* pendingEvents
  polls,     \* pendingPolls: the agents whose poll is parked, oldest first
  mail,      \* the answer to an agent's poll that is on its way
  clients,   \* sseClients
  exitTimer, \* is exitTimer armed?
  told,      \* what a tab has been sent and has not handled yet
  journal,   \* the snapshot of every session
  missed     \* sessions with a reply that could not be recorded

server == <<up, queue, polls, mail, clients, exitTimer, told, journal, missed>>

\* An entry of the queue.  seq orders the queue; leased: leaseUntil lies ahead.
Entry == [id : Sessions \cup {NoId}, type : Requests \cup {"exit"}, leased : BOOLEAN, seq : Nat]

\* The answer to a poll: what is leased to it.
Mail == [id : Sessions \cup {NoId}, type : Requests \cup {"exit", None}]

Key(e) == <<e.id, e.type>>

NoMail == [id |-> NoId, type |-> None]

\* The helper has just started, with the streams of some tabs open.
Started(open) ==
  /\ up = TRUE
  /\ queue = {} /\ polls = <<>>
  /\ mail = [a \in Agents |-> NoMail]
  /\ clients = open /\ exitTimer = FALSE
  /\ told = [t \in Tabs |-> <<>>]
  /\ journal = [s \in Sessions |-> BaseSnapshot]
  /\ missed = {}

Init == Started({})

-----------------------------------------------------------------------------
(* The queue.                                                              *)

NextSeq(q) == IF q = {} THEN 1 ELSE 1 + Max({e.seq : e \in q})

\* findAvailablePendingEvent finds the first of them.
Available(q) == {e \in q : ~e.leased}

Rank(q, e) == Cardinality({f \in Available(q) : f.seq <= e.seq})

\* leaseEvent for every entry of a set: an event without id is gone at once.
\* The mutant leases it like any other.
LeasedExits(q, out) == (q \ out) \cup {[e EXCEPT !.leased = TRUE] : e \in out}

Leased(q, out) == (q \ out) \cup {[e EXCEPT !.leased = TRUE] : e \in {f \in out : f.id # NoId}}

\* acknowledgePendingEvent: the first entry with the id, whatever its type.
Acknowledged(q, id) ==
  {e \in q : e.id = id => \E f \in q : f.id = id /\ f.seq < e.seq}

Queued(id) == \E e \in queue : e.id = id

\* flushPendingPolls: the parked polls take what is available, oldest first.
Flush(q) ==
  LET n   == Min({Len(polls), Cardinality(Available(q))})
      out == {e \in Available(q) : Rank(q, e) <= n}
  IN  /\ queue' = Leased(q, out)
      /\ polls' = SubSeq(polls, n + 1, Len(polls))
      /\ mail' = [a \in Agents |->
                    IF \E i \in 1 .. n : polls[i] = a
                    THEN LET e == CHOOSE e \in out : polls[Rank(q, e)] = a
                         IN  [id |-> e.id, type |-> e.type]
                    ELSE mail[a]]

\* enqueueEvent: the same event twice is queued once.  The mutant takes every
\* event of a session for the same.
IsQueuedById(id, type) == id # NoId /\ \E e \in queue : e.id = id

IsQueued(id, type) == id # NoId /\ \E e \in queue : Key(e) = <<id, type>>

Enqueue(id, type) ==
  IF IsQueued(id, type) THEN UNCHANGED <<queue, polls, mail>>
  ELSE Flush(queue \cup {[id |-> id, type |-> type, leased |-> FALSE, seq |-> NextSeq(queue)]})

\* What a stream tells its tab: an answer, or, first of all, the sessions that
\* are active and what the journal knows of them (activeSessionSummaries).
Message(type, id) == [type |-> type, id |-> id, sessions |-> <<>>]

Hello == [type |-> "connected", id |-> NoId,
          sessions |-> [s \in {s \in Sessions : Active(journal[s])} |->
                          [phase |-> journal[s].phase, file |-> journal[s].file]]]

\* broadcast.
Broadcast(type, id) ==
  told' = [t \in Tabs |-> IF t \in clients THEN Append(told[t], Message(type, id))
                          ELSE told[t]]

-----------------------------------------------------------------------------
(* POST /events.                                                           *)

Post(id, type) ==
  /\ up
  /\ journal' = [journal EXCEPT ![id] = Requested(@, type)]
  /\ Enqueue(id, type)
  /\ UNCHANGED <<up, clients, exitTimer, told, missed>>

\* The entry cannot be written: 500, and nothing is queued.
PostFails == up /\ UNCHANGED server

PostExit ==
  /\ up
  /\ Enqueue(NoId, "exit")
  /\ UNCHANGED <<up, clients, exitTimer, told, journal, missed>>

PostCheckpoint(id, phase, revision) ==
  /\ up
  /\ journal' = [journal EXCEPT ![id] = Checkpointed(@, phase, revision)]
  /\ UNCHANGED <<up, queue, polls, mail, clients, exitTimer, told, missed>>

-----------------------------------------------------------------------------
(* GET /events: a tab's stream opens and closes.                           *)

\* cancelQueuedAnonymousExitEvents.  The mutant leaves them in the queue.
KeepExits(q) == q

WithoutExits(q) == {e \in q : e.id # NoId}

Connect(t) ==
  /\ up /\ t \notin clients
  /\ exitTimer' = FALSE
  /\ queue' = WithoutExits(queue)
  /\ clients' = clients \cup {t}
  /\ told' = [told EXCEPT ![t] = <<Hello>>]
  /\ UNCHANGED <<up, polls, mail, journal, missed>>

Disconnect(t) ==
  /\ up /\ t \in clients
  /\ clients' = clients \ {t}
  /\ exitTimer' = (exitTimer \/ clients' = {})
  /\ told' = [told EXCEPT ![t] = <<>>]
  /\ UNCHANGED <<up, queue, polls, mail, journal, missed>>

\* Eight seconds after the last tab has gone.
ExitTimerFires ==
  /\ up /\ exitTimer
  /\ exitTimer' = FALSE
  /\ IF clients = {} THEN Enqueue(NoId, "exit") ELSE UNCHANGED <<queue, polls, mail>>
  /\ UNCHANGED <<up, clients, told, journal, missed>>

-----------------------------------------------------------------------------
(* GET /poll.                                                              *)

\* handlePollGet: the first available event is leased at once, or the poll is
\* parked.
PollGet(a) ==
  /\ up /\ mail[a] = NoMail /\ ~Contains(polls, a)
  /\ \/ \E e \in Available(queue) :
          /\ Rank(queue, e) = 1
          /\ queue' = Leased(queue, {e})
          /\ mail' = [mail EXCEPT ![a] = [id |-> e.id, type |-> e.type]]
          /\ UNCHANGED polls
     \/ /\ Available(queue) = {}
        /\ polls' = Append(polls, a)
        /\ UNCHANGED <<queue, mail>>
  /\ UNCHANGED <<up, clients, exitTimer, told, journal, missed>>

\* The poll is taken out of the list, if it is still there.
Unpark(a) ==
  \/ \E i \in 1 .. Len(polls) : polls[i] = a /\ polls' = RemoveAt(polls, i)
  \/ ~Contains(polls, a) /\ UNCHANGED polls

\* The poll's own timeout answers it, and the agent asks again.
PollTimesOut(a) ==
  /\ up /\ Contains(polls, a)
  /\ Unpark(a)
  /\ UNCHANGED <<up, queue, mail, clients, exitTimer, told, journal, missed>>

\* The agent's process ends: its connection closes, and what was on its way
\* to it is lost.
PollCloses(a) ==
  /\ Unpark(a)
  /\ mail' = [mail EXCEPT ![a] = NoMail]
  /\ UNCHANGED <<up, queue, clients, exitTimer, told, journal, missed>>

\* The agent has read the answer to its poll.
PollRead(a) ==
  /\ mail[a] # NoMail
  /\ mail' = [mail EXCEPT ![a] = NoMail]
  /\ UNCHANGED <<up, queue, polls, clients, exitTimer, told, journal, missed>>

LeaseRunsOut(e) ==
  /\ up /\ e \in queue /\ e.leased
  /\ queue' = (queue \ {e}) \cup {[e EXCEPT !.leased = FALSE]}
  /\ UNCHANGED <<up, polls, mail, clients, exitTimer, told, journal, missed>>

\* scheduleLeaseFlush's which goes off just after a lease has run out.
LeaseTimerFires ==
  /\ up /\ polls # <<>> /\ Available(queue) # {}
  /\ Flush(queue)
  /\ UNCHANGED <<up, clients, exitTimer, told, journal, missed>>

-----------------------------------------------------------------------------
(* POST /poll: a reply acknowledges the event and is recorded.             *)

\* The journal's entry for a reply.
RecordedAs(type) ==
  CASE type = "steer_done" -> "steer_done"
    [] type = "discarded"  -> "discarded"
    [] type = "complete"   -> "complete"
    [] type = "error"      -> "agent_error"
    [] OTHER               -> "agent_done"

ReplyTypes == {"done", "steer_done", "discarded", "complete", "agent_done", "error"}

\* A reply that acknowledges nothing is for a session that is unknown (404) or
\* over (not recorded), or arrives late.
ReplyRejected(id) == ~Queued(id) /\ ~Known(journal[id])

Reply(id, type, carbonize) ==
  /\ up /\ ~ReplyRejected(id)
  /\ LET q    == Acknowledged(queue, id)
         skip == ~Queued(id) /\ journal[id].phase \in Terminal
     IN  /\ journal' = IF skip THEN journal
                       ELSE [journal EXCEPT ![id] = Answered(@, RecordedAs(type), carbonize)]
         /\ Flush(q)
  /\ Broadcast(type, id)
  /\ UNCHANGED <<up, clients, exitTimer, missed>>

\* The journal cannot be written: the reply is taken all the same.
ReplyUnrecorded(id, type) ==
  /\ up /\ ~ReplyRejected(id)
  /\ Flush(Acknowledged(queue, id))
  /\ missed' = missed \cup {id}
  /\ Broadcast(type, id)
  /\ UNCHANGED <<up, clients, exitTimer, journal>>

-----------------------------------------------------------------------------
(* The process ends, at any point, and is started again.                   *)

Crash ==
  /\ up
  /\ up' = FALSE
  /\ queue' = {} /\ polls' = <<>>
  /\ mail' = [a \in Agents |-> NoMail]
  /\ clients' = {} /\ exitTimer' = FALSE
  /\ told' = [t \in Tabs |-> <<>>]
  /\ missed' = {}
  /\ UNCHANGED journal

\* shutdown, when somebody stops it: the parked polls are told to exit.
Stop ==
  /\ up
  /\ up' = FALSE
  /\ mail' = [a \in Agents |-> IF Contains(polls, a) THEN [id |-> NoId, type |-> "exit"]
                               ELSE mail[a]]
  /\ queue' = {} /\ polls' = <<>>
  /\ clients' = {} /\ exitTimer' = FALSE
  /\ told' = [t \in Tabs |-> <<>>]
  /\ missed' = {}
  /\ UNCHANGED journal

\* restorePendingEventsFromStore.  The mutant takes the phase for the request.
RestoredByPhase == {s \in Sessions : journal[s].phase \in {RequestedPhase(r) : r \in Requests}}

Restored == {s \in Sessions : Active(journal[s]) /\ journal[s].pending # None}

Restart ==
  /\ ~up
  /\ up' = TRUE
  /\ queue' = {[id |-> s, type |-> journal[s].pending, leased |-> FALSE, seq |-> s] :
                 s \in Restored}
  /\ UNCHANGED <<polls, mail, clients, exitTimer, told, journal, missed>>

\* live-complete.mjs without a server writes the journal itself.
CompleteOffline(id, type) ==
  /\ ~up
  /\ journal' = [journal EXCEPT ![id] = Answered(@, RecordedAs(type), FALSE)]
  /\ UNCHANGED <<up, queue, polls, mail, clients, exitTimer, told, missed>>

\* The tab has handled the first thing it was sent.
Hear(t) ==
  /\ told[t] # <<>>
  /\ told' = [told EXCEPT ![t] = Tail(@)]
  /\ UNCHANGED <<up, queue, polls, mail, clients, exitTimer, journal, missed>>

-----------------------------------------------------------------------------
Next ==
  \/ \E s \in Sessions :
       \/ \E type \in Requests : Post(s, type)
       \/ \E phase \in Overlay, revision \in 0 .. MaxRevision : PostCheckpoint(s, phase, revision)
       \/ \E type \in ReplyTypes :
            \/ \E carbonize \in BOOLEAN : Reply(s, type, carbonize)
            \/ ReplyUnrecorded(s, type)
            \/ CompleteOffline(s, type)
  \/ PostExit
  \/ \E t \in Tabs : Connect(t) \/ Disconnect(t) \/ Hear(t)
  \/ \E a \in Agents : PollGet(a) \/ PollTimesOut(a) \/ PollCloses(a) \/ PollRead(a)
  \/ \E e \in queue : LeaseRunsOut(e)
  \/ LeaseTimerFires \/ ExitTimerFires
  \/ Crash \/ Stop \/ Restart

Spec == Init /\ [][Next]_server

-----------------------------------------------------------------------------
\* The types, and the shape of the queue: an event is in it once, an exit is
\* never leased, as nobody could acknowledge it (enqueueEvent, leaseEvent), and
\* a poll is parked once.
TypeOK ==
  /\ up \in BOOLEAN /\ exitTimer \in BOOLEAN
  /\ queue \subseteq Entry
  /\ \A e \in queue : e.id = NoId <=> e.type = "exit"
  /\ \A e \in queue : e.leased => e.id # NoId
  /\ \A e, f \in queue : e.seq = f.seq \/ (Key(e) = Key(f) /\ e.id # NoId) => e = f
  /\ polls \in Seq(Agents) /\ IsInjective(polls)
  /\ mail \in [Agents -> Mail]
  /\ clients \subseteq Tabs /\ missed \subseteq Sessions
  /\ journal \in [Sessions -> Snapshot]

\* A request that the journal records as pending is in the queue while the
\* helper runs, unless the reply to it could not be recorded: nothing that
\* happens (replies by id, cancelled exits, restarts) loses the last request
\* of a session (enqueueEvent, acknowledgePendingEvent, applyEvent,
\* restorePendingEventsFromStore).
PendingQueued ==
  up => \A s \in Sessions :
          (journal[s].pending # None /\ s \notin missed)
             => \E e \in queue : Key(e) = <<s, journal[s].pending>>
=============================================================================
