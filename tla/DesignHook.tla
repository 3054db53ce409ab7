----------------------------- MODULE DesignHook -------------------------------
(* The design hooks of the editors.  After an edit, hook.mjs looks at the     *)
(* edited files and tells the session what is new in them (hook-lib.mjs,      *)
(* runHook); before a write, Cursor's hook-before-edit.mjs denies it while it *)
(* has findings, a bounded number of times.  Every run is a process of its    *)
(* own; what a session was told, how often it edited a file and how often it  *)
(* was denied are in one cache file, which a run reads whole, changes in      *)
(* memory and writes back without a lock.  A harness kills a run after 5 s.   *)
(*                                                                            *)
(* Files change at any time, so a scan finds anything.  The time stamps of    *)
(* two sessions differ.  Counts of denials stop above the threshold.          *)
EXTENDS HookConfig, FiniteSets, SequencesExt

CONSTANTS
  Hooks,       \* places of runs of hook.mjs: how many there are at once
  Gates,       \* Cursor agents, each with one write it insists on
  Writes,      \* the writes they may insist on
  Sessions,    \* session_id
  AckFiles,    \* shouldEmitAckForFile
  Targets,     \* what one tool call touches, and what else it makes a hook scan
  Quiets,      \* the values of hook.quiet
  Threshold,   \* EDIT_COUNT_THRESHOLD
  MaxSessions  \* CACHE_MAX_SESSIONS

\* expandScanTargets lists no file twice.
ASSUME HookAssumption ==
  /\ Threshold \in Nat /\ MaxSessions \in Nat \ {0}
  /\ Hooks \subseteq Nat /\ "threw" \notin Rules /\ AckFiles \subseteq Files /\ Quiets \subseteq BOOLEAN
  /\ Writes \subseteq [is : {"asking"}, s : Sessions, f : Files, sig : (SUBSET Rules) \ {{}}]
  /\ Hooks \cap Gates = {}
  /\ \A t \in Targets :
       t.scan \in Seq(Files) /\ IsInjective(t.scan) /\ t.primary \subseteq Range(t.scan)

VARIABLES
  cache,       \* .impeccable/hook.cache.json
  proc,        \* proc[p]: a run
  write,       \* write[g]: what became of the write of a Cursor agent
  made,        \* ghost: the edits and denials there really were since the last reset
  heard,       \* ghost: what a session was told, or would have been but for a kill
  noticed,     \* ghost: suppressed files the session was told of, or had no chance to
  revived      \* ghost: has a run that spans the last reset written since?

hookvars == <<cache, proc, write, made, heard, noticed, revived>>
vars == <<configvars, hookvars>>

Procs      == Hooks \cup Gates
Signatures == (SUBSET Rules) \ {{}}
Slots      == Sessions \X Files
Nobody     == "nobody"

EntryRec == [editCount : Nat, findings : SUBSET Rules,
             denials : [Signatures -> 0 .. Threshold + 1]]

NewEntry == [editCount |-> 0, findings |-> {}, denials |-> [g \in Signatures |-> 0]]

\* sessions in the order of updatedAt, and what is kept for each.
NoCache   == [is |-> "none", order |-> <<>>, entry |-> [x \in Slots |-> NewEntry]]
TornCache == [NoCache EXCEPT !.is = "torn"]

\* readCache.
ReadCache == IF cache.is = "json" THEN cache ELSE [NoCache EXCEPT !.is = "json"]

Without(order, s) ==
  IF Contains(order, s) THEN RemoveAt(order, CHOOSE i \in DOMAIN order : order[i] = s) ELSE order

\* updatedAt = Date.now(), and ensureSession.
Touched(c, s) == [c EXCEPT !.order = Append(Without(@, s), s)]
Ensured(c, s) == IF Contains(c.order, s) THEN c ELSE Touched(c, s)

\* bumpEditCount, rememberFindings, bumpCursorDenial.
Bumped(c, s, f) == [Touched(c, s) EXCEPT !.entry[<<s, f>>].editCount = @ + 1]
Remembered(c, s, f, found) == [Touched(c, s) EXCEPT !.entry[<<s, f>>].findings = @ \cup found]

Capped(n) == IF n > Threshold THEN Threshold + 1 ELSE n

\* The mutant forgets the denial.
DenialForgotten(c, s, f, sig) == Touched(c, s)
DenialBumped(c, s, f, sig) == [Touched(c, s) EXCEPT !.entry[<<s, f>>].denials[sig] = Capped(@ + 1)]

\* persistCache: the sessions that were updated last.  The mutant keeps one more.
KeepsOneMore(order) == SubSeq(order, Len(order) - MaxSessions, Len(order))
LastSessions(order) == SubSeq(order, Len(order) - MaxSessions + 1, Len(order))

Kept(c) ==
  IF Len(c.order) <= MaxSessions THEN c
  ELSE LET order == LastSessions(c.order)
       IN  [c EXCEPT !.order = order,
                     !.entry = [x \in Slots |-> IF Contains(order, x[1]) THEN c.entry[x] ELSE NewEntry]]

-----------------------------------------------------------------------------
(* A run.                                                                  *)

Says == {"fresh", "ack", "suppression", "silent"}

RunRec == [pc      : {"idle", "load", "open", "write", "mixed", "answer"},
           s       : Sessions \cup {Nobody},
           cache   : [is : {"none", "json"}, order : Seq(Sessions), entry : [Slots -> EntryRec]],
           fresh   : SUBSET (Files \X Rules),    \* freshGroups, with "... and N more"
           crossed : SUBSET Files,               \* files that have just been suppressed
           says    : Says,
           excused : BOOLEAN,                    \* ghost: has it no way to tell of them?
           f       : Files \cup {"-"},           \* a gate: the file of the write
           sig     : SUBSET Rules,               \* and what is wrong with the text
           saved   : BOOLEAN,
           spans   : BOOLEAN]                    \* ghost: has a reset come since it read?

Idle == [pc |-> "idle", s |-> Nobody, cache |-> NoCache, fresh |-> {}, crossed |-> {},
         says |-> "silent", excused |-> FALSE, f |-> "-", sig |-> {}, saved |-> FALSE,
         spans |-> FALSE]

NoWrite == [is |-> "none", s |-> Nobody, f |-> "-", sig |-> {}]

HookInit ==
  /\ ConfigInit
  /\ cache = NoCache
  /\ proc = [p \in Procs |-> Idle]
  /\ write = [g \in Gates |-> NoWrite]
  /\ made = [x \in Slots |-> NewEntry]
  /\ heard = [s \in Sessions |-> {}]
  /\ noticed = {}
  /\ revived = FALSE

settings == <<config, admin, confirmed>>
ghosts == <<made, heard, noticed, revived>>

\* What the loop over the files has found so far.
Looked == [cache |-> ReadCache, fresh |-> {}, crossed |-> {}, pending |-> {}, clean |-> {}, threw |-> FALSE]

\* Only a file that was edited counts, one that is scanned with it (the mutant:
\* that one too) does not.
CountsAll(l, s, t, f) == Bumped(l.cache, s, f)
Counted(l, s, t, f)   == IF f \in t.primary THEN Bumped(l.cache, s, f) ELSE l.cache

\* wasJustCrossed, and a mutant off by one.
JustCrossedLate(n) == n = Threshold + 2
JustCrossed(n)     == n = Threshold + 1

Threw == {"threw"}

First(winner, f) == IF winner = {} THEN {f} ELSE winner

\* One file of the loop, which awaits nothing but the detector and works on this
\* run's own copies.  The file is hidden when it was edited too often; otherwise what the
\* detector finds is new, pending or nothing, if it does not throw.
Look(l, s, t, f, found) ==
  LET cnt      == Counted(l, s, t, f)
      n        == cnt.entry[<<s, f>>].editCount
      filtered == found \ (Ignored \cup Threw)
      new      == filtered \ cnt.entry[<<s, f>>].findings
  IN  CASE f \in Ignored -> l
        [] f \notin Ignored /\ f \in t.primary /\ n > Threshold ->
             [l EXCEPT !.cache = cnt, !.crossed = IF JustCrossed(n) THEN @ \cup {f} ELSE @]
        [] OTHER ->
             [l EXCEPT !.cache   = IF new # {} THEN Remembered(cnt, s, f, new)
                                   ELSE IF filtered # {} THEN Ensured(cnt, s) ELSE cnt,
                       !.fresh   = @ \cup ({f} \X new),
                       !.threw   = @ \/ found = Threw,
                       !.pending = IF new = {} /\ filtered # {} THEN First(@, f) ELSE @,
                       !.clean   = IF filtered = {} /\ found # Threw THEN First(@, f) ELSE @]

\* The run says one thing only.  The mutant lets hook.quiet silence new findings.
QuietFirst(l, quiet) ==
  CASE quiet -> "silent"
    [] ~quiet /\ l.fresh # {} -> "fresh"
    [] OTHER -> "ack"

Emission(l, quiet) ==
  CASE l.fresh # {} -> "fresh"
    [] l.fresh = {} /\ (quiet \/ (l.threw /\ l.pending \cup l.clean = {})) -> "silent"
    [] OTHER -> IF l.pending \cap AckFiles # {} THEN "ack"
                ELSE IF l.crossed # {} THEN "suppression"
                ELSE IF l.clean \cap AckFiles # {} THEN "ack" ELSE "silent"

\* Something else comes first, and of two files suppressed at once it names one.
NoChance(l, quiet) ==
  \/ l.fresh # {} \/ l.pending \cap AckFiles # {} \/ quiet
  \/ l.threw /\ l.pending \cup l.clean = {}
  \/ Cardinality(l.crossed) > 1

\* The loop over the files of the call.
Scanned(s, t, found) ==
  LET look[n \in 0 .. Len(t.scan)] ==
        IF n = 0 THEN Looked ELSE Look(look[n - 1], s, t, t.scan[n], found[t.scan[n]])
  IN  look[Len(t.scan)]

\* A session has edited files, and the run for it has read the configuration
\* and the cache, and has scanned.
AfterEdit(h) ==
  /\ proc[h].pc = "idle" /\ \A i \in Hooks : i < h => proc[i].pc # "idle"
  /\ left.edits > 0
  /\ \E s \in Sessions, t \in Targets :
       /\ made' = [x \in Slots |-> IF x[1] = s /\ x[2] \in t.primary
                                   THEN [made[x] EXCEPT !.editCount = @ + 1] ELSE made[x]]
       /\ IF ~Enabled THEN UNCHANGED proc
          ELSE \E found \in [Range(t.scan) -> (SUBSET Rules) \cup {Threw}], quiet \in Quiets :
                 LET l == Scanned(s, t, found)
                 IN  proc' = [proc EXCEPT ![h] =
                       [Idle EXCEPT !.pc = "open", !.s = s, !.cache = l.cache, !.fresh = l.fresh,
                                    !.crossed = l.crossed, !.says = Emission(l, quiet),
                                    !.excused = NoChance(l, quiet) /\ l.crossed # {}]]
  /\ left' = Spent("edits")
  /\ UNCHANGED <<settings, cache, write, heard, noticed, revived>>

-----------------------------------------------------------------------------
(* persistCache.                                                           *)

OpenCache(p) ==
  /\ proc[p].pc = "open"
  /\ cache' = TornCache
  /\ proc' = [proc EXCEPT ![p].pc = "write"]
  /\ UNCHANGED <<configvars, write, ghosts>>

\* A run that opened the file meanwhile writes over this text, and leaves the
\* end of it if it is the longer one.
WriteCache(p) ==
  /\ proc[p].pc \in {"write", "mixed"}
  /\ cache' \in {Kept(proc[p].cache)} \cup (IF proc[p].pc = "mixed" THEN {TornCache} ELSE {})
  /\ proc' = [q \in Procs |->
       IF q = p THEN [proc[p] EXCEPT !.pc = "answer", !.saved = TRUE]
       ELSE IF proc[q].pc = "write" THEN [proc[q] EXCEPT !.pc = "mixed"]
       ELSE proc[q]]
  /\ revived' = (revived \/ proc[p].spans)
  /\ UNCHANGED <<configvars, write, made, heard, noticed>>

\* persistCache returns false, and nobody asks.
CannotWrite(p) ==
  /\ proc[p].pc = "open" /\ left.faults > 0
  /\ proc' = [proc EXCEPT ![p].pc = "answer"]
  /\ left' = Spent("faults")
  /\ UNCHANGED <<settings, cache, write, ghosts>>

-----------------------------------------------------------------------------
(* What the session is told.                                               *)

Answer(h) ==
  /\ h \in Hooks /\ proc[h].pc = "answer"
  /\ LET r == proc[h]
     IN  /\ heard' = [heard EXCEPT ![r.s] = IF r.says = "fresh" THEN @ \cup r.fresh ELSE @]
         /\ noticed' = IF r.says = "suppression" \/ r.excused
                       THEN noticed \cup ({r.s} \X r.crossed) ELSE noticed
  /\ proc' = [proc EXCEPT ![h] = Idle]
  /\ UNCHANGED <<configvars, cache, write, made, revived>>

-----------------------------------------------------------------------------
(* The gate before a write.                                                *)

\* The agent asks for a write, or asks again after a denial.  What is wrong
\* with the proposed text does not depend on the attempt.
Ask(g) ==
  /\ proc[g].pc = "idle"
  /\ \E w \in Writes :
       LET r == [Idle EXCEPT !.pc = "load", !.s = w.s, !.f = w.f, !.sig = w.sig \ Ignored]
       IN  /\ \/ write[g] = w /\ UNCHANGED left
              \/ write[g] = NoWrite /\ left.asks > 0 /\ left' = Spent("asks")
           /\ IF Enabled /\ w.f \notin Ignored /\ r.sig # {}
              THEN /\ write' = [write EXCEPT ![g] = w]
                   /\ proc' = [proc EXCEPT ![g] = r]
              ELSE /\ write' = [write EXCEPT ![g] = [w EXCEPT !.is = "landed"]]
                   /\ UNCHANGED proc
  /\ UNCHANGED <<settings, cache, ghosts>>

LoadAndBump(g) ==
  /\ g \in Gates /\ proc[g].pc = "load"
  /\ LET r == proc[g]
     IN  /\ proc' = [proc EXCEPT ![g].pc = "open",
                                 ![g].cache = DenialBumped(ReadCache, r.s, r.f, r.sig)]
         /\ made' = [made EXCEPT ![<<r.s, r.f>>].denials[r.sig] = Capped(@ + 1)]
  /\ UNCHANGED <<configvars, cache, write, heard, noticed, revived>>

Denials(r) == r.cache.entry[<<r.s, r.f>>].denials[r.sig]

Decide(g) ==
  /\ g \in Gates /\ proc[g].pc = "answer"
  /\ write' = [write EXCEPT ![g].is = IF Denials(proc[g]) > Threshold THEN "landed" ELSE "asking"]
  /\ proc' = [proc EXCEPT ![g] = Idle]
  /\ UNCHANGED <<configvars, cache, ghosts>>

-----------------------------------------------------------------------------
(* The harness kills a run; a reset removes the cache.                     *)

\* What a killed run has saved and not said is lost; so ends, silently and with
\* nothing saved, a run that throws.  What becomes of a write
\* whose gate does not answer is the harness's business.
Kill(p) ==
  /\ proc[p].pc # "idle" /\ left.faults > 0
  /\ LET r == proc[p]
     IN  IF p \in Hooks
         THEN /\ heard' = [heard EXCEPT ![r.s] = IF r.saved THEN @ \cup r.fresh ELSE @]
              /\ noticed' = IF r.saved THEN noticed \cup ({r.s} \X r.crossed) ELSE noticed
              /\ UNCHANGED write
         ELSE /\ \E is \in {"asking", "landed"} : write' = [write EXCEPT ![p].is = is]
              /\ UNCHANGED <<heard, noticed>>
  /\ proc' = [proc EXCEPT ![p] = Idle]
  /\ left' = Spent("faults")
  /\ UNCHANGED <<settings, cache, made, revived>>

\* A run that has the file open writes into the one that was removed.
ForgetCache ==
  /\ admin.todo # <<>> /\ Task1.op = "forget"
  /\ cache' = NoCache
  /\ proc' = [p \in Procs |->
       IF proc[p].pc \in {"write", "mixed"} THEN [proc[p] EXCEPT !.pc = "answer"]
       ELSE IF proc[p].pc = "open" THEN [proc[p] EXCEPT !.spans = TRUE]
       ELSE proc[p]]
  /\ made' = [x \in Slots |-> NewEntry]
  /\ revived' = FALSE
  /\ admin' = [admin EXCEPT !.todo = Tail(admin.todo)]
  /\ UNCHANGED <<config, left, confirmed, write, heard, noticed>>

-----------------------------------------------------------------------------
Run(p) ==
  OpenCache(p) \/ WriteCache(p) \/ Answer(p) \/ LoadAndBump(p) \/ Decide(p)

Next ==
  \/ ConfigNext /\ UNCHANGED hookvars
  \/ ForgetCache
  \/ \E h \in Hooks : AfterEdit(h)
  \/ \E g \in Gates : Ask(g)
  \/ \E p \in Procs : Run(p) \/ CannotWrite(p) \/ Kill(p)

\* The runs of a gate are processes that the operating system goes on with, and
\* its agent does not give up.  Nothing is assumed of the other runs.
Spec ==
  /\ HookInit /\ [][Next]_vars
  /\ \A g \in Gates : WF_vars(Run(g)) /\ WF_vars(Ask(g))

-----------------------------------------------------------------------------
(* Properties.                                                             *)

HookTypeOK ==
  /\ ConfigTypeOK
  /\ cache.is \in {"none", "torn", "json"} /\ cache.entry \in [Slots -> EntryRec]
  /\ Len(cache.order) <= MaxSessions /\ IsInjective(cache.order)
  /\ \A x \in Slots : cache.entry[x] # NewEntry => Contains(cache.order, x[1])
  /\ proc \in [Procs -> RunRec]
  /\ write \in [Gates -> [is : {"none", "asking", "landed"}, s : Sessions \cup {Nobody},
                          f : Files \cup {"-"}, sig : SUBSET Rules]]
  /\ made \in [Slots -> EntryRec]
  /\ heard \in [Sessions -> SUBSET (Files \X Rules)] /\ noticed \subseteq Slots
  /\ revived \in BOOLEAN

\* Was x in f said to session s?  Or its run is about to say it.
Told(s, f, x) ==
  \/ <<f, x>> \in heard[s]
  \/ \E h \in Hooks : proc[h].s = s /\ proc[h].saved /\ <<f, x>> \in proc[h].fresh

\* No finding is held back as an old one from a session that was never told it:
\* what the cache remembers for a session was said to it, or its run is about to
\* say it, or was killed before it could.  (dedupeAgainstCache.)
NothingSwallowed ==
  \A s \in Sessions, f \in Files : \A x \in cache.entry[<<s, f>>].findings : Told(s, f, x)

\* c counts no more edits and denials than there were.
Honest(c) ==
  \A x \in Slots :
    /\ c.entry[x].editCount <= made[x].editCount
    /\ \A sig \in Signatures : c.entry[x].denials[sig] <= made[x].denials[sig]

\* Hints are hidden, and a write with findings let through, only after as many
\* edits and denials as the threshold says: whatever runs overwrite each other,
\* the cache never counts more than there were since the last reset.  (A run
\* that spans the reset brings the old counts back.)
CountsHonest == ~revived => Honest(cache)

\* Was session x[1] told that hints on file x[2] are hidden?  Or its run is about to.
Announced(x) ==
  \/ x \in noticed
  \/ \E h \in Hooks : proc[h].s = x[1] /\ proc[h].saved /\ x[2] \in proc[h].crossed

\* A session whose hints on a file are hidden has been told so, or is about to
\* be.  (Or the run had something else to say, was to be quiet, could not scan
\* another file, hid two files at once, or was killed.)
SuppressionAnnounced ==
  \A x \in Slots : cache.entry[x].editCount > Threshold => Announced(x)

\* An agent that insists on a write gets it through in the end: the gate's
\* denials are no endless loop, whatever other sessions do to the cache
\* meanwhile, as long as they stop and the cache can be written.
WriteLands == \A g \in Gates : write[g].is = "asking" ~> write[g].is = "landed"
=============================================================================
