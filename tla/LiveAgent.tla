------------------------------ MODULE LiveAgent ------------------------------
(* The coding agent at the other end of the helper: it polls for one event   *)
(* at a time (live-poll.mjs, one-shot mode), runs live-accept.mjs on the     *)
(* source for an accept or a discard, edits the source itself for a generate *)
(* or a steer, replies, and closes what needs it with live-complete.mjs.     *)
EXTENDS LiveServer

VARIABLES
  agent,  \* what each agent is doing
  src     \* src[s]: what the source file holds for session s

\* plain: the original; wrapped: the wrapper with its variants; carbonize: the
\* accepted variant with markers left to clean up; accepted: nothing else.
SourceStates == {"plain", "wrapped", "carbonize", "accepted"}

\* carbonize: the script's result says so.  fresh: the token of the process is
\* that of the helper that runs.
Agent == [pc : {"idle", "ask", "script", "edit", "reply", "cleanup", "finish", "gone"},
          id : Sessions \cup {NoId}, type : Requests \cup {None},
          reply : ReplyTypes \cup {None}, carbonize : BOOLEAN, fresh : BOOLEAN]

Idle == [pc |-> "idle", id |-> NoId, type |-> None, reply |-> None,
         carbonize |-> FALSE, fresh |-> TRUE]

AgentInit ==
  /\ agent = [a \in Agents |-> Idle]
  /\ src = [s \in Sessions |-> "plain"]

Goes(a, rec) == agent' = [agent EXCEPT ![a] = rec]

-----------------------------------------------------------------------------
(* The poll.                                                               *)

\* runPollOnce reads the helper's address and token and asks for an event.
Ask(a) ==
  /\ agent[a].pc = "idle"
  /\ PollGet(a)
  /\ Goes(a, [Idle EXCEPT !.pc = "ask"])
  /\ UNCHANGED src

\* Nothing came in time: the agent polls again.
AskTimesOut(a) ==
  /\ agent[a].pc = "ask"
  /\ PollTimesOut(a)
  /\ Goes(a, Idle)
  /\ UNCHANGED src

\* The event decides what is done with it; `exit' ends the agent's loop.
Receive(a) ==
  /\ agent[a].pc = "ask"
  /\ PollRead(a)
  /\ LET m == mail[a] IN
       Goes(a, IF m.type = "exit" THEN [Idle EXCEPT !.pc = "gone"]
               ELSE [agent[a] EXCEPT !.id = m.id, !.type = m.type,
                       !.pc = IF m.type \in {"accept", "discard"} THEN "script" ELSE "edit"])
  /\ UNCHANGED src

-----------------------------------------------------------------------------
(* live-accept.mjs, which the poll process runs before it prints the event. *)

\* completionTypeForAcceptResult for what acceptCli can find and do.
Completion(type, found, carbonize) ==
  CASE type = "discard" -> IF found THEN "discarded" ELSE "error"
    [] type = "accept"  -> IF found /\ ~carbonize THEN "complete" ELSE "agent_done"

Script(a) ==
  LET s     == agent[a].id
      type  == agent[a].type
      found == src[s] = "wrapped"   \* findSessionFile: the start marker
  IN  /\ agent[a].pc = "script"
      /\ \E carbonize \in BOOLEAN :
           /\ carbonize => found /\ type = "accept"
           /\ src' = IF ~found THEN src
                     ELSE [src EXCEPT ![s] = IF type = "discard" THEN "plain"
                                             ELSE IF carbonize THEN "carbonize" ELSE "accepted"]
           /\ Goes(a, [agent[a] EXCEPT !.pc = "reply", !.carbonize = carbonize,
                                      !.reply = Completion(type, found, carbonize)])
      /\ UNCHANGED server

\* The script throws or is killed, before it writes the file.
ScriptFails(a) ==
  /\ agent[a].pc = "script"
  /\ Goes(a, [agent[a] EXCEPT !.pc = "reply", !.reply = "error"])
  /\ UNCHANGED <<server, src>>

-----------------------------------------------------------------------------
(* What the agent does itself, by its instructions (reference/live.md).    *)

Edit(a) ==
  LET s == agent[a].id IN
  /\ agent[a].pc = "edit"
  /\ \/ /\ agent[a].type = "generate"
        /\ src' = IF src[s] = "plain" THEN [src EXCEPT ![s] = "wrapped"] ELSE src
        /\ Goes(a, [agent[a] EXCEPT !.pc = "reply", !.reply = "done"])
     \/ /\ agent[a].type = "steer"
        /\ Goes(a, [agent[a] EXCEPT !.pc = "reply", !.reply = "steer_done"])
        /\ UNCHANGED src
  /\ UNCHANGED server

\* The agent cannot do what it is asked to, and replies so.
GivesUp(a) ==
  /\ agent[a].pc = "edit"
  /\ Goes(a, [agent[a] EXCEPT !.pc = "reply", !.reply = "error"])
  /\ UNCHANGED <<server, src>>

\* Carbonize cleanup, required before the next poll.
Cleanup(a) ==
  /\ agent[a].pc = "cleanup"
  /\ src' = [src EXCEPT ![agent[a].id] = IF @ = "carbonize" THEN "accepted" ELSE @]
  /\ Goes(a, [agent[a] EXCEPT !.pc = "finish"])
  /\ UNCHANGED server

-----------------------------------------------------------------------------
(* The reply.                                                              *)

ByScript(a) == agent[a].type \in {"accept", "discard"}

\* A carbonize accept is not final.
AfterReply(a) ==
  IF agent[a].carbonize THEN [agent[a] EXCEPT !.pc = "cleanup"] ELSE Idle

\* postReply.  The poll process replies for the script with the token it began
\* with; the agent's own reply comes from a process that reads the new one.
PostReply(a) ==
  /\ agent[a].pc = "reply"
  /\ ByScript(a) => agent[a].fresh
  /\ Reply(agent[a].id, agent[a].reply, agent[a].carbonize)
  /\ Goes(a, AfterReply(a))
  /\ UNCHANGED src

\* The same when the helper cannot write the journal.
PostReplyUnrecorded(a) ==
  /\ agent[a].pc = "reply"
  /\ ByScript(a) => agent[a].fresh
  /\ ReplyUnrecorded(agent[a].id, agent[a].reply)
  /\ Goes(a, AfterReply(a))
  /\ UNCHANGED src

\* _completionAck is not ok: the agent finishes the session by hand.
ReplyRefused(a) ==
  /\ agent[a].pc = "reply" /\ ByScript(a) /\ ~agent[a].fresh
  /\ Goes(a, [agent[a] EXCEPT !.pc = "cleanup"])
  /\ UNCHANGED <<server, src>>

\* live-complete.mjs: through the helper, or else into the journal itself.
Finish(a) ==
  LET id   == agent[a].id
      type == IF agent[a].type = "discard" THEN "discarded" ELSE "complete"
  IN  /\ agent[a].pc = "finish"
      /\ IF up THEN Reply(id, type, FALSE) ELSE CompleteOffline(id, type)
      /\ Goes(a, Idle)
      /\ UNCHANGED src

-----------------------------------------------------------------------------
\* The agent's process or its turn ends half way; it starts to poll anew.
Die(a) ==
  /\ agent[a].pc \notin {"idle", "gone"}
  /\ PollCloses(a)
  /\ Goes(a, Idle)
  /\ UNCHANGED src

\* What the end of the helper does to the agents: a poll without its answer
\* fails and is made again, and tokens are stale.
Orphaned ==
  agent' = [a \in Agents |->
              IF agent[a].pc = "ask" /\ mail'[a] = NoMail THEN Idle
              ELSE IF agent[a].pc \in {"script", "reply"} THEN [agent[a] EXCEPT !.fresh = FALSE]
              ELSE agent[a]]

AgentStep(a) ==
  \/ Ask(a) \/ AskTimesOut(a) \/ Receive(a)
  \/ Script(a) \/ Edit(a) \/ Cleanup(a)
  \/ PostReply(a) \/ ReplyRefused(a) \/ Finish(a)
=============================================================================
