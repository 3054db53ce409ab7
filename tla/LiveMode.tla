------------------------------- MODULE LiveMode ------------------------------
(* Live mode: the overlay in the pages, the helper and the agent together,   *)
(* with the faults the code handles: the helper ends and is started again,   *)
(* the agent dies, a stream drops, a page is reloaded, the journal cannot be *)
(* written, the accept script fails.                                         *)
EXTENDS LiveBrowser

CONSTANTS
  Faults,   \* the faults that happen
  MaxFaults \* bound: how many of them

ASSUME FaultsAssumption == MaxFaults \in Nat

VARIABLES
  faults,  \* faults so far
  decided, \* has the user accepted or discarded?
  asked    \* has the user asked to exit?

vars == <<server, agent, src, browser, faults, decided, asked>>

LiveInit ==
  /\ Started(Tabs) /\ AgentInit
  /\ tab = [t \in Tabs |-> NewTab]
  /\ saved = NoneSaved /\ handled = NoId
  /\ calls = {} /\ used = {}
  /\ faults = 0 /\ decided = FALSE /\ asked = FALSE

Fault(kind) ==
  /\ kind \in Faults /\ faults < MaxFaults
  /\ faults' = faults + 1
  /\ UNCHANGED <<decided, asked>>

-----------------------------------------------------------------------------
\* The helper ends: its token is worth nothing, requests that have not arrived
\* fail, and so may those whose answer is on its way.
HelperEnds ==
  /\ Fault("crash")
  /\ Crash \/ Stop
  /\ Orphaned
  /\ tab' = [t \in Tabs |-> [tab[t] EXCEPT !.fresh = FALSE]]
  /\ \E lost \in SUBSET {c \in calls : c.at = "ok"} :
       calls' = Under({IF c.at = "sent" \/ c \in lost THEN [c EXCEPT !.at = "failed"] ELSE c : c \in calls})
  /\ UNCHANGED <<src, saved, handled, used>>

Breaks ==
  \/ HelperEnds
  \/ \E a \in Agents :
       \/ Die(a) /\ Fault("die") /\ UNCHANGED browser
       \/ ScriptFails(a) /\ Fault("script") /\ UNCHANGED browser
       \/ GivesUp(a) /\ Fault("error") /\ UNCHANGED browser
       \/ PostReplyUnrecorded(a) /\ Fault("disk") /\ UNCHANGED browser
  \/ \E t \in Tabs :
       \/ StreamDrops(t) /\ Fault("drop")
       \/ Reload(t) /\ Fault("reload")
  \/ \E c \in calls : Refused(c) /\ Fault("disk")

-----------------------------------------------------------------------------
(* What works.                                                             *)

\* The user; a second decision is made within the same bound as the faults.
User ==
  \E t \in Tabs :
    \/ /\ \E s \in Sessions : Go(t, s) \/ Steer(t, s)
       /\ UNCHANGED <<faults, decided, asked>>
    \/ /\ Accept(t) \/ Discard(t)
       /\ decided' = TRUE
       /\ decided => faults < MaxFaults
       /\ faults' = IF decided THEN faults + 1 ELSE faults
       /\ UNCHANGED asked
    \/ Exit(t) /\ faults < MaxFaults /\ faults' = faults + 1 /\ asked' = TRUE /\ UNCHANGED decided

Works(a) == AgentStep(a) /\ UNCHANGED <<browser, faults, decided, asked>>

Overlays(t) ==
  /\ \/ Hears(t) \/ Settles(t) \/ CheckpointDue(t) \/ SteerTimesOut(t)
     \/ StreamOpens(t) \/ StreamCloses(t)
     \/ \E s \in Sessions : Injects(t, s)
  /\ UNCHANGED <<faults, decided, asked>>

Hmr ==
  /\ \E t \in Tabs, s \in Sessions : HmrAdds(t, s) \/ HmrRemoves(t, s)
  /\ UNCHANGED <<faults, decided, asked>>

Carries ==
  /\ \E c \in calls : Captured(c) \/ Arrives(c) \/ Returns(c)
  /\ UNCHANGED <<faults, decided, asked>>

Timers ==
  /\ \/ ExitTimerFires \/ LeaseTimerFires
     \/ \E e \in queue : LeaseRunsOut(e)
  /\ UNCHANGED <<agent, src, browser, faults, decided, asked>>

HelperStarts ==
  /\ Restart
  /\ UNCHANGED <<agent, src, browser, faults, decided, asked>>

LiveNext ==
  \/ User \/ Hmr \/ Carries \/ Timers
  \/ \E a \in Agents : Works(a)
  \/ \E t \in Tabs : Overlays(t)
  \/ HelperStarts \/ Breaks

\* The helper, the pages and the network go on, the agent goes on polling and
\* handles what it is given, and somebody starts the helper again; the user
\* need not do anything and HMR need not happen.
LiveSpec ==
  /\ LiveInit /\ [][LiveNext]_vars
  /\ WF_vars(Carries) /\ WF_vars(Timers) /\ WF_vars(HelperStarts)
  /\ \A a \in Agents : WF_vars(Works(a))
  /\ \A t \in Tabs : WF_vars(Overlays(t))

-----------------------------------------------------------------------------
(* What must hold.                                                         *)

\* The types of the helper, the agents and the pages.
LiveTypeOK ==
  /\ TypeOK
  /\ agent \in [Agents -> Agent] /\ src \in [Sessions -> SourceStates]
  /\ tab \in [Tabs -> Tab] /\ handled \in Ids /\ used \subseteq Sessions
  /\ faults \in 0 .. MaxFaults /\ decided \in BOOLEAN /\ asked \in BOOLEAN

\* The agent has been told to leave.
Left == \E a \in Agents : agent[a].pc = "gone"

\* The agent is told to leave only by a user who exits, by a helper that ends,
\* or when no page has been connected for a while: the timer's or an older
\* exit does not outlive a page that comes back (connect clears exitTimer and
\* cancelQueuedAnonymousExitEvents, ExitTimerFires looks again).
ExitMeansGone ==
  [][\A a \in Agents :
       (mail'[a].type = "exit" /\ mail[a].type # "exit")
          => (clients' = {} \/ asked' \/ ~up')]_vars

\* The journal records an accept, the queue has nothing else for the session
\* and no agent is busy with another of its events.
AcceptPending(s) ==
  /\ journal[s].pending = "accept"
  /\ \A e \in queue : e.id = s => e.type = "accept"
  /\ \A a \in Agents : agent[a].id = s => agent[a].type = "accept"

\* An accepted variant is written into the source, or the session ends in an
\* error that the user is shown, whatever ends in between: the helper, the
\* agent half way through, the page (restorePendingEventsFromStore, leases,
\* _completionAck).
RequestSurvives ==
  \A s \in Sessions :
    AcceptPending(s) ~> (src[s] # "wrapped" \/ journal[s].phase = "agent_error" \/ Left)

\* The overlay shows that it waits, for variants that are in the source and
\* journalled as done, or for an accept that nothing has gone wrong with.
Waits(t) ==
  \/ /\ tab[t].ui = "generating" /\ tab[t].fresh
     /\ \E s \in Sessions : /\ tab[t].sess = s
                            /\ journal[s].file /\ journal[s].pending = None
                            /\ src[s] = "wrapped"
  \/ tab[t].ui = "saving" /\ faults = 0 /\ ~Left

\* The overlay does not wait for ever, although HMR need not happen and the
\* stream may drop before or after the answer (the done handler's fetch from
\* the source, restoreFromActiveSessions, maybeCompleteAcceptedSession).
OverlayMoves == \A t \in Tabs : []<>~Waits(t)
=============================================================================
