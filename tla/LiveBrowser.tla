----------------------------- MODULE LiveBrowser -----------------------------
(* The overlay in the page (live-browser.js) and what it keeps in the        *)
(* browser's storage (live-browser-session.js): one session at a time, from  *)
(* Go through generating, cycling and saving back to picking; the requests   *)
(* it has under way, the observer that sees the variants arrive by HMR, the  *)
(* fetch that gets them from the source instead, and what survives a reload. *)
(*                                                                          *)
(* Variants arrive all at once: how many and which one is shown is left out. *)
EXTENDS LiveAgent

VARIABLES
  tab,     \* the overlay of each page
  saved,   \* localStorage: the session that a new page resumes
  handled, \* localStorage: the session that it must not resume
  calls,   \* requests of the pages to the helper, not answered yet
  used     \* ids that id8 has given out

browser == <<tab, saved, handled, calls, used>>

Ids == Sessions \cup {NoId}

\* state is IDLE only until a page is ready, and CONFIGURING counts as picking.
Ui == {"picking", "generating", "cycling", "saving", "confirmed", "gone"}

Tab == [ui        : Ui,
        sess      : Ids,             \* currentSessionId
        arrived   : BOOLEAN,         \* arrivedVariants >= expectedVariants
        accepting : Ids,             \* pendingAcceptedSession
        settling  : Ids,             \* scheduleAcceptCleanup's timer
        watch     : Ids,             \* what variantObserver waits for
        scout     : BOOLEAN,         \* init's observer for a late wrapper
        inject    : SUBSET Sessions, \* injectVariantsFromSource, fetching
        file      : BOOLEAN,         \* currentSourceFile is known
        dirty     : BOOLEAN,         \* checkpointTimer
        revision  : Nat,             \* checkpointRevision
        steer     : Ids,             \* steerRequestId while steerLocked
        dom       : SUBSET Sessions, \* wrappers in the page
        fresh     : BOOLEAN]         \* TOKEN is that of the helper that runs

NewTab == [ui |-> "picking", sess |-> NoId, arrived |-> FALSE, accepting |-> NoId,
           settling |-> NoId, watch |-> NoId, scout |-> FALSE, inject |-> {}, file |-> FALSE,
           dirty |-> FALSE, revision |-> 0, steer |-> NoId, dom |-> {}, fresh |-> TRUE]

NoneSaved == [id |-> NoId, ui |-> "picking", arrived |-> FALSE, file |-> FALSE, revision |-> 0]

Sets(t, r) == tab' = [tab EXCEPT ![t] = r]

\* saveSession.
Saved(r) == IF r.sess = NoId THEN saved
            ELSE [id |-> r.sess, ui |-> r.ui, arrived |-> r.arrived, file |-> r.file,
                  revision |-> r.revision]

-----------------------------------------------------------------------------
(* sendEvent.  at: "capture" before it is sent, "sent", and "ok" or "failed" *)
(* on the way back; await: the page that asked still waits for the answer.   *)

Call(t, type, id, at) ==
  [tab |-> t, type |-> type, id |-> id, phase |-> None, revision |-> 0, at |-> at,
   await |-> type \in {"accept", "discard", "steer"}]

\* With a stale token the helper answers 401.
Sent(t, type, id) == Call(t, type, id, IF tab[t].fresh THEN "sent" ELSE "failed")

\* checkpointPayload, with the state the overlay is in; MaxRevision bounds how
\* many checkpoints a page sends.
Counted(r) == IF r.revision < MaxRevision THEN [r EXCEPT !.revision = @ + 1] ELSE r

Checkpoint(t, r, id, phase) ==
  IF r.revision = MaxRevision \/ ~r.fresh THEN {}
  ELSE {[Call(t, "checkpoint", id, "sent") EXCEPT !.phase = phase, !.revision = r.revision + 1]}

\* nextCheckpointRevision also goes to the saved session.
Recounted(store, r) == IF store.id = NoId THEN store ELSE [store EXCEPT !.revision = r.revision]

\* queueCheckpoint.
Due(r) == [r EXCEPT !.dirty = r.sess # NoId /\ r.revision < MaxRevision]

\* Requests that nobody waits for are forgotten when they fail.
Under(cs) == {c \in cs : c.at # "failed" \/ c.await}

-----------------------------------------------------------------------------
(* What the user does.                                                     *)

\* handleGo, up to the capture of the picked element.
Go(t, s) ==
  /\ tab[t].ui = "picking" /\ s \notin used
  /\ LET r == [tab[t] EXCEPT !.ui = "generating", !.sess = s, !.arrived = FALSE,
                             !.accepting = NoId, !.file = FALSE, !.watch = s]
     IN  /\ Sets(t, Counted(r))
         /\ saved' = Saved(Counted(r))
         /\ calls' = calls \cup Checkpoint(t, r, s, "generating")
                           \cup {Call(t, "generate", s, "capture")}
  /\ used' = used \cup {s}
  /\ UNCHANGED <<server, agent, src, handled>>

\* handleAccept.
Accept(t) ==
  LET r == [tab[t] EXCEPT !.ui = "saving", !.accepting = tab[t].sess] IN
  /\ tab[t].ui = "cycling" /\ tab[t].accepting = NoId
  /\ tab[t].sess # NoId /\ tab[t].arrived
  /\ Sets(t, r)
  /\ saved' = Saved(r)
  /\ calls' = calls \cup {Sent(t, "accept", r.sess)}
  /\ UNCHANGED <<server, agent, src, handled, used>>

\* handleDiscard: nothing changes until the helper has confirmed.  Bound: the
\* user does not click again while the request is under way.
Discard(t) ==
  /\ tab[t].ui = "cycling" /\ tab[t].sess # NoId
  /\ \A c \in calls : c.tab = t => c.type # "discard"
  /\ calls' = calls \cup {Sent(t, "discard", tab[t].sess)}
  /\ UNCHANGED <<server, agent, src, tab, saved, handled, used>>

\* submitSteerMessage.
Steer(t, s) ==
  /\ tab[t].ui # "gone" /\ tab[t].steer = NoId /\ s \notin used
  /\ Sets(t, Counted([tab[t] EXCEPT !.steer = s]))
  /\ saved' = Recounted(saved, Counted(tab[t]))
  /\ calls' = calls \cup Checkpoint(t, tab[t], s, "steer") \cup {Sent(t, "steer", s)}
  /\ used' = used \cup {s}
  /\ UNCHANGED <<server, agent, src, handled>>

\* cleanup.  The wrapper leaves the page at once, as it is hidden.
Cleaned(r) ==
  [r EXCEPT !.ui = "picking", !.sess = NoId, !.watch = NoId, !.file = FALSE, !.dom = @ \ {r.sess}]

\* What a page had sent goes on without it.
Abandoned(t) ==
  {c \in calls : c.tab # t} \cup {[c EXCEPT !.await = FALSE] : c \in {c \in calls : c.tab = t /\ c.at = "sent"}}

\* The exit button: the request, teardown, and the stream that closes with it.
Exit(t) ==
  /\ tab[t].ui # "gone"
  /\ Sets(t, [NewTab EXCEPT !.ui = "gone"])
  /\ saved' = NoneSaved
  /\ calls' = Under(Abandoned(t) \cup {Sent(t, "exit", NoId)})
  /\ UNCHANGED <<server, agent, src, handled, used>>

-----------------------------------------------------------------------------
(* Requests under way.                                                     *)

\* captureAndEmit, when the capture is done.
Captured(c) ==
  /\ c.at = "capture"
  /\ calls' = Under((calls \ {c}) \cup {Sent(c.tab, c.type, c.id)})
  /\ UNCHANGED <<server, agent, src, tab, saved, handled, used>>

Arrives(c) ==
  /\ c.at = "sent"
  /\ CASE c.type = "checkpoint" -> PostCheckpoint(c.id, c.phase, c.revision)
       [] c.type = "exit"       -> PostExit
       [] OTHER                 -> Post(c.id, c.type)
  /\ calls' = (calls \ {c}) \cup (IF c.await THEN {[c EXCEPT !.at = "ok"]} ELSE {})
  /\ UNCHANGED <<agent, src, tab, saved, handled, used>>

\* The helper cannot write the journal, and answers 500.
Refused(c) ==
  /\ c.at = "sent" /\ c.type # "exit"
  /\ PostFails
  /\ calls' = Under((calls \ {c}) \cup {[c EXCEPT !.at = "failed"]})
  /\ UNCHANGED <<agent, src, tab, saved, handled, used>>

\* The promise of the request settles, in the state the page is in by then.
Returns(c) ==
  LET t == c.tab
      r == tab[t]
  IN  /\ c.await /\ c.at \in {"ok", "failed"}
      /\ \/ /\ c.type = "accept" /\ c.at = "failed"
            /\ Sets(t, [r EXCEPT !.ui = "cycling", !.accepting = IF @ = c.id THEN NoId ELSE @])
            /\ calls' = calls \ {c}
            /\ UNCHANGED <<saved, handled>>
         \/ /\ c.type = "discard" /\ c.at = "ok"
            /\ Sets(t, Cleaned(r))
            /\ saved' = NoneSaved
            /\ handled' = IF r.sess = NoId THEN handled ELSE r.sess
            /\ calls' = calls \ {c}
         \/ /\ c.type = "steer" /\ c.at = "failed"
            /\ Sets(t, Counted([r EXCEPT !.steer = NoId]))
            /\ saved' = Recounted(saved, Counted(r))
            /\ calls' = (calls \ {c}) \cup Checkpoint(t, r, c.id, "steer")
            /\ UNCHANGED handled
         \/ /\ <<c.type, c.at>> \in {<<"accept", "ok">>, <<"discard", "failed">>, <<"steer", "ok">>}
            /\ calls' = calls \ {c}
            /\ UNCHANGED <<tab, saved, handled>>
      /\ UNCHANGED <<server, agent, src, used>>

\* queueCheckpoint's timer.
CheckpointDue(t) ==
  /\ tab[t].dirty
  /\ LET r == [tab[t] EXCEPT !.dirty = FALSE] IN
       IF r.sess = NoId THEN Sets(t, r) /\ UNCHANGED <<saved, calls>>
       ELSE /\ Sets(t, Counted(r))
            /\ saved' = Recounted(saved, Counted(r))
            /\ calls' = calls \cup Checkpoint(t, r, r.sess, r.ui)
  /\ UNCHANGED <<server, agent, src, handled, used>>

\* scheduleSteerAwaitTimeout.
SteerTimesOut(t) ==
  /\ tab[t].steer # NoId
  /\ Sets(t, [tab[t] EXCEPT !.steer = NoId])
  /\ UNCHANGED <<server, agent, src, saved, handled, calls, used>>

-----------------------------------------------------------------------------
(* Variants that come into the page.                                       *)

\* The variants of the session are in the page.
Shown(r) == [r EXCEPT !.ui = "cycling", !.arrived = TRUE]

\* resumeSession with a wrapper in the page.
Resumed(r, s) ==
  Due([r EXCEPT !.ui = "cycling", !.sess = s, !.arrived = TRUE, !.watch = s,
                !.file = @ \/ (saved.id = s /\ saved.file),
                !.revision = Max({@, saved.revision})])

\* The dev server patches a page to what the source holds.  The observer takes
\* variants it has not seen; init's scout resumes the first wrapper's session.
HmrAdds(t, s) ==
  /\ src[s] = "wrapped" /\ s \notin tab[t].dom
  /\ LET q == [tab[t] EXCEPT !.dom = @ \cup {s}, !.scout = FALSE] IN
       \/ /\ q.watch = s /\ ~q.arrived
          /\ Sets(t, Due(Shown(q)))
          /\ saved' = Saved(Shown(q))
       \/ \E first \in q.dom \ {handled} :
            /\ tab[t].scout
            /\ Sets(t, Resumed(q, first))
            /\ saved' = Saved(Resumed(q, first))
       \/ /\ q.watch # s \/ q.arrived
          /\ tab[t].scout => handled \in q.dom
          /\ Sets(t, q)
          /\ UNCHANGED saved
  /\ UNCHANGED <<server, agent, src, handled, calls, used>>

HmrRemoves(t, s) ==
  /\ src[s] # "wrapped" /\ s \in tab[t].dom
  /\ Sets(t, [tab[t] EXCEPT !.dom = @ \ {s}])
  /\ UNCHANGED <<server, agent, src, saved, handled, calls, used>>

\* injectVariantsFromSource, when the source has come.
Injects(t, s) ==
  /\ s \in tab[t].inject
  /\ LET q == [tab[t] EXCEPT !.inject = @ \ {s}]
         r == Shown([q EXCEPT !.dom = @ \cup {s}])
     IN  IF tab[t].fresh /\ src[s] = "wrapped"
         THEN Sets(t, r) /\ saved' = Saved(r)
         ELSE Sets(t, q) /\ UNCHANGED saved
  /\ UNCHANGED <<server, agent, src, handled, calls, used>>

-----------------------------------------------------------------------------
(* What the helper tells a page.                                           *)

\* restoreSessionWithoutWrapper; active is what the helper says of the sessions
\* that are active, an empty function when it has not said anything.
RestorableFrom(active) ==
  /\ saved.id # NoId /\ saved.id # handled /\ saved.ui \in {"generating", "cycling"}
  /\ active = <<>> \/ (saved.id \in DOMAIN active
                        /\ active[saved.id].phase \notin {"accept_requested", "discard_requested"})

\* A mutant of RestoredFrom: what the helper knows of the file is not taken.
RestoredFromSaved(r, active) ==
  Due([r EXCEPT !.ui = "generating", !.sess = saved.id, !.arrived = saved.arrived,
                !.watch = saved.id, !.file = @ \/ saved.file,
                !.revision = Max({@, saved.revision}),
                !.inject = IF r.file \/ saved.file THEN @ \cup {saved.id} ELSE @])

RestoredFrom(r, active) ==
  LET s    == saved.id
      file == r.file \/ saved.file \/ (s \in DOMAIN active /\ active[s].file)
  IN  Due([r EXCEPT !.ui = "generating", !.sess = s, !.arrived = saved.arrived, !.watch = s,
                    !.file = file, !.revision = Max({@, saved.revision}),
                    !.inject = IF file THEN @ \cup {s} ELSE @])

\* connected: restoreFromActiveSessions.
Connected(t, m) ==
  LET r == RestoredFrom(tab[t], m.sessions) IN
  IF tab[t].dom = {} /\ RestorableFrom(m.sessions)
  THEN Sets(t, r) /\ saved' = Saved(r) /\ UNCHANGED handled
  ELSE UNCHANGED <<tab, saved, handled>>

\* done: the variants are there already, or they are fetched.
Done(t, m) ==
  LET r == [tab[t] EXCEPT !.file = TRUE] IN
  /\ Sets(t, CASE r.arrived /\ r.ui = "generating" -> [r EXCEPT !.ui = "cycling"]
               [] ~r.arrived /\ r.ui = "generating" /\ m.id = r.sess ->
                    [r EXCEPT !.inject = @ \cup {m.id}]
               [] OTHER -> r)
  /\ UNCHANGED <<saved, handled>>

\* complete: maybeCompleteAcceptedSession.
Completed(t, m) ==
  LET r == tab[t] IN
  IF m.id # r.accepting \/ r.settling = m.id THEN UNCHANGED <<tab, saved, handled>>
  ELSE IF r.sess \notin {NoId, m.id} THEN Sets(t, [r EXCEPT !.accepting = NoId]) /\ UNCHANGED <<saved, handled>>
  ELSE /\ Sets(t, [r EXCEPT !.ui = "confirmed", !.settling = m.id])
       /\ handled' = IF r.sess = NoId THEN handled ELSE r.sess
       /\ UNCHANGED saved

Discarded(t, m) ==
  IF m.id # tab[t].sess THEN UNCHANGED <<tab, saved, handled>>
  ELSE Sets(t, Cleaned(tab[t])) /\ saved' = NoneSaved /\ handled' = m.id

\* error: of the accept, of the steer, or of whatever session the page is in.
Failed(t, m) ==
  LET r == tab[t] IN
  /\ Sets(t, CASE m.id = r.accepting -> [r EXCEPT !.accepting = NoId, !.ui = "cycling"]
               [] m.id = r.steer     -> [r EXCEPT !.steer = NoId]
               [] OTHER              -> [r EXCEPT !.ui = "picking"])
  /\ UNCHANGED <<saved, handled>>

Hears(t) ==
  /\ told[t] # <<>> /\ tab[t].ui # "gone"
  /\ LET m == Head(told[t]) IN
       CASE m.type = "connected"  -> Connected(t, m)
         [] m.type = "done"       -> Done(t, m)
         [] m.type = "complete"   -> Completed(t, m)
         [] m.type = "discarded"  -> Discarded(t, m)
         [] m.type = "error"      -> Failed(t, m)
         [] m.type = "agent_done" -> UNCHANGED <<tab, saved, handled>>
         [] m.type = "steer_done" ->
              /\ Sets(t, [tab[t] EXCEPT !.steer = IF @ = m.id THEN NoId ELSE @])
              /\ UNCHANGED <<saved, handled>>
  /\ Hear(t)
  /\ UNCHANGED <<agent, src, calls, used>>

\* scheduleAcceptCleanup: cleanupAcceptedSession, at once when the page shows no
\* wrapper any more, and later only if the page still waits for this accept.
Settles(t) ==
  LET s == tab[t].settling
      r == [tab[t] EXCEPT !.settling = NoId]
  IN  /\ s # NoId
      /\ \/ /\ s \notin r.dom \/ r.accepting = s
            /\ Sets(t, [Cleaned(r) EXCEPT !.accepting = NoId, !.dom = r.dom \ {s}])
            /\ saved' = NoneSaved
         \/ /\ r.accepting # s
            /\ Sets(t, r)
            /\ UNCHANGED saved
      /\ UNCHANGED <<server, agent, src, handled, calls, used>>

-----------------------------------------------------------------------------
(* The stream and the page.                                                *)

\* EventSource reconnects by itself as long as the token is good.
StreamOpens(t) ==
  /\ tab[t].ui # "gone" /\ tab[t].fresh
  /\ Connect(t)
  /\ UNCHANGED <<agent, src, browser>>

StreamCloses(t) ==
  /\ tab[t].ui = "gone"
  /\ Disconnect(t)
  /\ UNCHANGED <<agent, src, browser>>

StreamDrops(t) ==
  /\ tab[t].ui # "gone"
  /\ Disconnect(t)
  /\ UNCHANGED <<agent, src, browser>>

\* A new page: init resumes the session of the first wrapper in it, or the saved
\* one, or waits for a wrapper.
Reload(t) ==
  /\ up
  /\ LET dom == {s \in Sessions : src[s] = "wrapped"}
         new == [NewTab EXCEPT !.dom = dom]
     IN  \/ \E first \in dom \ {handled} :
              /\ Sets(t, Resumed(new, first))
              /\ saved' = Saved(Resumed(new, first))
              /\ UNCHANGED handled
         \/ /\ handled \in dom
            /\ Sets(t, [new EXCEPT !.scout = TRUE])
            /\ UNCHANGED <<saved, handled>>
         \/ /\ dom = {} /\ RestorableFrom(<<>>)
            /\ Sets(t, RestoredFrom(new, <<>>))
            /\ saved' = Saved(RestoredFrom(new, <<>>))
            /\ UNCHANGED handled
         \/ /\ dom = {} /\ ~RestorableFrom(<<>>)
            /\ Sets(t, [new EXCEPT !.scout = TRUE])
            /\ saved' = NoneSaved
            /\ handled' = NoId
  /\ calls' = Abandoned(t)
  /\ IF t \in clients THEN Disconnect(t) ELSE UNCHANGED server
  /\ UNCHANGED <<agent, src, used>>
=============================================================================
