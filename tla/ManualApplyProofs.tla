--------------------------- MODULE ManualApplyProofs ---------------------------
(***************************************************************************)
(* No copy edit of a user is lost, and an apply that fails leaves nothing  *)
(* of itself in the source, for any number of pages, elements, saves,      *)
(* decisions and faults, and chunks and repairs of any length.             *)
(*                                                                         *)
(* An apply runs without interruption from one answer to the next.  Such a *)
(* turn takes a world to another one, in which the apply has ended, goes on*)
(* or has accepted some entries; the invariant is one of worlds, and of    *)
(* what a turn leaves alone.                                               *)
(***************************************************************************)
EXTENDS ManualApply, FiniteSetTheorems, TLAPS

-----------------------------------------------------------------------------
(* The inductive invariant.                                                *)

\* What a turn of an apply leaves alone.
Others == [wanted |-> wanted, exempt |-> exempt, saves |-> saves, stale |-> stale, agent |-> agent]

\* The elements whose last text is in the source and nowhere else.
Settled(w, g) == {r \in Refs : g.wanted[r] # 0 /\ r \notin g.exempt /\ ~IsStaged(r, w.buf)}

Agrees(content, w, g) == \A r \in Settled(w, g) : r \in DOMAIN content => content[r] = g.wanted[r]

RefsIn(ops) == {o.ref : o \in ops}

\* Late, in a world.
LateIn(w, g) ==
  IF g.agent.pc = "idle" \/ g.agent.id \in Ids(w.ev) THEN {}
  ELSE RefsIn(g.agent.ops) \cup UNION {DOMAIN d.content : d \in g.stale}

WorldTyped(w) ==
  /\ w.src \in [Refs -> Texts]
  /\ w.buf \subseteq Entry /\ \A e, f \in w.buf : e.id = f.id => e = f
  /\ w.tx \in {NoTransaction} \cup
       [id : Nat, page : Pages, ids : SUBSET (1 .. MaxSaves), content : Contents]
  /\ w.ev \subseteq [id : Nat, page : Pages, ops : SUBSET Op, content : Contents]
  /\ IsFiniteSet(w.ev)
  /\ w.cm \in [Pages -> Commit \cup {NoCommit}]
  /\ w.ask \subseteq Pages

OthersTyped(g) ==
  /\ g.stale \subseteq [id : Nat, content : Contents] /\ IsFiniteSet(g.stale)
  /\ g.agent \in [pc : {"idle", "edit", "reply"}, id : Nat, ops : SUBSET Op]
  /\ g.exempt \subseteq Refs /\ g.saves \in 0 .. MaxSaves /\ g.wanted \in [Refs -> 0 .. MaxSaves]

\* The buffer has the last texts, each once.
BufferInv(w, g) ==
  \A e \in w.buf :
    /\ DOMAIN e.ops \subseteq RefsOf(e.page) /\ e.id <= g.saves
    /\ \A r \in DOMAIN e.ops : e.ops[r] = g.wanted[r]
    /\ \A f \in w.buf, r \in Refs : r \in DOMAIN e.ops /\ r \in DOMAIN f.ops => e = f

\* No copy of the source has another text for a settled element than the last.
SourceInv(w, g) ==
  /\ Agrees(w.src, w, g)
  /\ w.tx # NoTransaction => w.tx.content \in [RefsOf(w.tx.page) -> Texts] /\ Agrees(w.tx.content, w, g)

BatchOK(batch, p, w, g) ==
  /\ \A e \in batch : /\ e.page = p /\ DOMAIN e.ops \subseteq RefsOf(p) /\ e.id <= g.saves
                      /\ DOMAIN e.ops \cap Settled(w, g) = {}
  /\ \A e, f \in batch : e.id = f.id => e = f
  /\ \A e, f \in batch, r \in Refs : r \in DOMAIN e.ops /\ r \in DOMAIN f.ops => e = f
  /\ \A e \in w.buf, f \in batch : e.id = f.id =>
       /\ e.page = p
       /\ \A r \in DOMAIN e.ops : r \in g.exempt \/ (r \in DOMAIN f.ops /\ f.ops[r] = e.ops[r])

CommitOK(c, p, w, g) ==
  /\ BatchOK(c.batch, p, w, g)
  /\ c.before \in [RefsOf(p) -> Texts] /\ Agrees(c.before, w, g)
  /\ c.rest \subseteq AllOps(c.batch) /\ c.sent \subseteq AllOps(c.batch) /\ c.done \subseteq AllOps(c.batch)
  /\ c.rest \cap (c.sent \cup c.done) = {}
  /\ c.claimed \subseteq Ids(c.batch)
  /\ w.tx.page = p => w.tx.id = c.tx

CommitsInv(w, g) == \A p \in Pages : w.cm[p].active => CommitOK(w.cm[p], p, w, g)

EventOK(e, w, g) ==
  /\ e.id # NoEvent /\ w.cm[e.page].active /\ w.cm[e.page].event = e.id
  /\ e.ops \subseteq AllOps(w.cm[e.page].batch)
  /\ e.content \in [RefsOf(e.page) -> Texts] /\ Agrees(e.content, w, g)
  /\ w.cm[e.page].attempt = 0 =>
       /\ e.page \notin w.ask
       /\ \A o \in w.cm[e.page].done :
            o \notin e.ops /\ e.content[o.ref] = w.src[o.ref] /\ o.ref \notin LateIn(w, g)

EventsInv(w, g) ==
  /\ \A e, f \in w.ev : e.id = f.id => e = f
  /\ \A e \in w.ev : EventOK(e, w, g)

AgentInv(w, g) ==
  /\ g.agent.pc = "idle" => g.agent.id = NoEvent
  /\ g.agent.pc # "idle" => RefsIn(g.agent.ops) \cap Settled(w, g) = {}
  /\ \A e \in w.ev : e.id = g.agent.id => g.agent.ops = e.ops
  /\ \A d \in g.stale : /\ d.id = g.agent.id /\ g.agent.pc # "idle" /\ d.id \notin Ids(w.ev)
                        /\ Agrees(d.content, w, g)
  /\ \A d, f \in g.stale : d = f

Safe(w, g) ==
  /\ WorldTyped(w) /\ OthersTyped(g)
  /\ BufferInv(w, g) /\ SourceInv(w, g) /\ CommitsInv(w, g) /\ EventsInv(w, g) /\ AgentInv(w, g)

\* Every apply under way waits for an event, but for the pages of S.
Awaited(w, S) == \A p \in Pages \ S : w.cm[p].active => \E e \in w.ev : e.page = p

ApplyInv ==
  /\ Safe(World, Others) /\ Awaited(World, {})
  /\ up \in BOOLEAN /\ decided \in Nat /\ (~up => events = {})

-----------------------------------------------------------------------------
(* Elements, entries and what is sent.                                     *)

LEMMA PagesApart ==
  ASSUME NEW p, NEW q, NEW r, r \in RefsOf(p), r \in RefsOf(q)
  PROVE  p = q
  BY DEF RefsOf

LEMMA EntryFacts ==
  ASSUME NEW e \in Entry
  PROVE  /\ e.id \in 1 .. MaxSaves /\ e.page \in Pages
         /\ DOMAIN e.ops \subseteq Refs
         /\ \A r \in DOMAIN e.ops : e.ops[r] \in 1 .. MaxSaves
         /\ e = [id |-> e.id, page |-> e.page, ops |-> e.ops]
         /\ e.ops \in [DOMAIN e.ops -> 1 .. MaxSaves]
<1>1. e \in [id : 1 .. MaxSaves, page : Pages, ops : UNION {[D -> 1 .. MaxSaves] : D \in SUBSET Refs}]
  BY DEF Entry
<1>2. PICK D \in SUBSET Refs : e.ops \in [D -> 1 .. MaxSaves]
  BY <1>1
<1>. QED BY <1>1, <1>2

LEMMA EntryIs ==
  ASSUME NEW id \in 1 .. MaxSaves, NEW p \in Pages, NEW D \in SUBSET Refs, NEW ops \in [D -> 1 .. MaxSaves]
  PROVE  [id |-> id, page |-> p, ops |-> ops] \in Entry
<1>1. ops \in UNION {[E -> 1 .. MaxSaves] : E \in SUBSET Refs}
  OBVIOUS
<1>. QED BY <1>1 DEF Entry

LEMMA AllOpsFacts ==
  ASSUME NEW batch, batch \subseteq Entry, NEW o \in AllOps(batch)
  PROVE  /\ o \in Op
         /\ \E e \in batch : e.id = o.id /\ o.ref \in DOMAIN e.ops /\ e.ops[o.ref] = o.text
<1>1. PICK e \in batch : \E r \in DOMAIN e.ops : o = [id |-> e.id, ref |-> r, text |-> e.ops[r]]
  BY DEF AllOps
<1>2. PICK r \in DOMAIN e.ops : o = [id |-> e.id, ref |-> r, text |-> e.ops[r]]
  BY <1>1
<1>3. e.id \in 1 .. MaxSaves /\ r \in Refs /\ e.ops[r] \in 1 .. MaxSaves
  BY EntryFacts
<1>4. o.id = e.id /\ o.ref = r /\ o.text = e.ops[r]
  BY <1>2
<1>5. o \in Op
  BY <1>2, <1>3 DEF Op
<1>. QED BY <1>4, <1>5

LEMMA ContentsIs ==
  ASSUME NEW p \in Pages, NEW content \in [RefsOf(p) -> Texts]
  PROVE  content \in Contents
  BY DEF Contents

LEMMA ContentFacts ==
  ASSUME NEW src \in [Refs -> Texts], NEW p
  PROVE  /\ Content(src, p) \in [RefsOf(p) -> Texts]
         /\ \A r \in RefsOf(p) : r \in Refs /\ Content(src, p)[r] = src[r]
  BY DEF Content, RefsOf

\* The copy of a page replaces the texts of this page.
LEMMA RestoredFacts ==
  ASSUME NEW src \in [Refs -> Texts], NEW p, NEW content \in [RefsOf(p) -> Texts]
  PROVE  /\ Restored(src, content) \in [Refs -> Texts]
         /\ \A r \in RefsOf(p) : Restored(src, content)[r] = content[r]
         /\ \A r \in Refs : r \notin RefsOf(p) => Restored(src, content)[r] = src[r]
         /\ \A r \in Refs : Restored(src, content)[r] \in {src[r]} \cup {content[s] : s \in RefsOf(p) \cap {r}}
  BY DEF Restored, RefsOf

LEMMA ChunkPart == ASSUME NEW batch, NEW rest PROVE Chunk(batch, rest) \subseteq rest
  BY DEF Chunk

LEMMA TextTypes == ASSUME NEW n \in 0 .. MaxSaves PROVE n \in Texts /\ Garbled \in Texts
  BY ApplyAssumption DEF Texts, Garbled, ApplyAssumption

-----------------------------------------------------------------------------
(* There is always an id that nobody uses.                                 *)

LEMMA SmallIds ==
  ASSUME NEW S, IsFiniteSet(S), NEW n \in Nat, Cardinality(S) < n
  PROVE  \E i \in 1 .. n : i \notin S
<1> SUFFICES ASSUME 1 .. n \subseteq S PROVE FALSE
  OBVIOUS
<1>1. Cardinality(1 .. n) <= Cardinality(S)
  BY FS_Subset
<1>2. Cardinality(1 .. n) = n
  BY FS_Interval
<1>3. Cardinality(S) \in Nat
  BY FS_CardinalityType
<1>. QED BY <1>1, <1>2, <1>3

LEMMA IdsFinite ==
  ASSUME NEW es, IsFiniteSet(es)
  PROVE  /\ IsFiniteSet(Ids(es)) /\ Cardinality(Ids(es)) \in Nat /\ Cardinality(es) \in Nat
         /\ Cardinality(Ids(es)) <= Cardinality(es)
<1> DEFINE id == [e \in es |-> e.id]
<1>1. id \in Surjection(es, Ids(es))
  BY DEF Ids, Surjection
<1>2. IsFiniteSet(Ids(es)) /\ Cardinality(Ids(es)) <= Cardinality(es)
  BY <1>1, FS_Surjection
<1>. QED BY <1>2, FS_CardinalityType

LEMMA NewIdFresh ==
  ASSUME IsFiniteSet(events), IsFiniteSet(stale)
  PROVE  NewId \in Nat \ {0} /\ NewId \notin Ids(events) /\ NewId \notin Ids(stale) /\ NewId # agent.id
<1> DEFINE S == Ids(events) \cup Ids(stale) \cup {agent.id}
           n == Cardinality(events) + Cardinality(stale) + 2
<1>1. /\ IsFiniteSet(Ids(events)) /\ IsFiniteSet(Ids(stale))
      /\ Cardinality(Ids(events)) \in Nat /\ Cardinality(events) \in Nat
      /\ Cardinality(Ids(events)) <= Cardinality(events)
      /\ Cardinality(Ids(stale)) \in Nat /\ Cardinality(stale) \in Nat
      /\ Cardinality(Ids(stale)) <= Cardinality(stale)
  BY IdsFinite
<1>2. /\ IsFiniteSet(Ids(events) \cup Ids(stale))
      /\ Cardinality(Ids(events) \cup Ids(stale)) <= Cardinality(events) + Cardinality(stale)
  <2>1. /\ IsFiniteSet(Ids(events) \cup Ids(stale))
        /\ Cardinality(Ids(events) \cup Ids(stale)) = Cardinality(Ids(events)) + Cardinality(Ids(stale))
                                                        - Cardinality(Ids(events) \cap Ids(stale))
    BY <1>1, FS_Union
  <2>2. Cardinality(Ids(events) \cap Ids(stale)) \in Nat
    BY <1>1, FS_Subset, FS_CardinalityType
  <2>. QED BY <1>1, <2>1, <2>2
<1>3. IsFiniteSet(S) /\ Cardinality(S) < n
  <2>1. /\ IsFiniteSet(S)
        /\ Cardinality(S) = IF agent.id \in Ids(events) \cup Ids(stale) THEN Cardinality(Ids(events) \cup Ids(stale))
                            ELSE Cardinality(Ids(events) \cup Ids(stale)) + 1
    BY <1>2, FS_AddElement
  <2>2. Cardinality(Ids(events) \cup Ids(stale)) \in Nat
    BY <1>2, FS_CardinalityType
  <2>. QED BY <1>1, <1>2, <2>1, <2>2
<1>4. \E i \in 1 .. n : i \notin S
  <2>1. n \in Nat
    BY <1>1
  <2> HIDE DEF S, n
  <2>. QED BY <1>3, <2>1, SmallIds
<1>5. NewId \in 1 .. n /\ NewId \notin S
  BY <1>4 DEF NewId
<1>. QED BY <1>1, <1>5

-----------------------------------------------------------------------------
(* What a turn of page p's apply comes to.                                 *)

IsWorld(w) == {"src", "buf", "tx", "ev", "cm", "ask"} \subseteq DOMAIN w /\ DOMAIN w.cm = Pages

\* It ends, with the source as it was or as it is, which the user is told.
Ends(w, v, p) ==
  /\ v.cm = [w.cm EXCEPT ![p] = NoCommit]
  /\ v.ev = w.ev /\ v.buf = w.buf /\ v.tx \in {w.tx, NoTransaction}
  /\ v.ask \in {w.ask \ {p}, w.ask \cup {p}}
  /\ \/ v.src = w.src /\ p \in v.ask
     \/ v.src = Restored(w.src, w.cm[p].before)

\* It goes on as d, and waits for an event with ops.
GoesOn(w, v, p, d, ops) ==
  /\ v.cm = [w.cm EXCEPT ![p] = [d EXCEPT !.event = NewId]]
  /\ v.ev = w.ev \cup {Event(p, ops, w.src)}
  /\ v.src = w.src /\ v.buf = w.buf /\ v.tx = w.tx /\ v.ask = w.ask

\* It ends with the entries of ids out of the buffer, which the source shows; of
\* the others it has put nothing into the source, unless it was a repair.
Accepts(w, v, p, ids) ==
  /\ v.cm = [w.cm EXCEPT ![p] = NoCommit]
  /\ v.ev = w.ev /\ v.src = w.src /\ v.ask = w.ask \ {p}
  /\ v.tx = IF w.tx.id = w.cm[p].tx THEN NoTransaction ELSE w.tx
  /\ v.buf = Cleared(w.buf, w.cm[p].batch, ids)
  /\ ids \subseteq Ids(w.cm[p].batch)
  /\ \A e \in w.cm[p].batch : e.id \in ids => Shows(w.src, e)
  /\ w.cm[p].attempt = 0 => ~Leaks(w.src, w.cm[p], ids)

\* The numbers and the lists of a commit fit its batch.
Fits(c) ==
  /\ c \in Commit
  /\ c.rest \subseteq AllOps(c.batch) /\ c.sent \subseteq AllOps(c.batch) /\ c.done \subseteq AllOps(c.batch)
  /\ c.rest \cap (c.sent \cup c.done) = {}
  /\ c.claimed \subseteq Ids(c.batch)
  /\ \A e, f \in c.batch : e.id = f.id => e = f

\* d is c after some answers, and ops what it asks for next.
Onward(c, d, ops) ==
  /\ Fits(d) /\ d.batch = c.batch /\ d.before = c.before /\ d.tx = c.tx
  /\ ops \subseteq AllOps(c.batch)
  /\ d.attempt = 0 => c.attempt = 0 /\ d.done \cap ops = {}

Turns(w, v, p) ==
  \/ Ends(w, v, p)
  \/ \E d, ops : GoesOn(w, v, p, d, ops) /\ Onward(w.cm[p], d, ops)
  \/ \E ids : Accepts(w, v, p, ids)

LEMMA CommitFields ==
  ASSUME NEW c \in Commit
  PROVE  /\ c.active = TRUE /\ c.batch \subseteq Entry /\ c.before \in Contents
         /\ c.sent \subseteq Op /\ c.rest \subseteq Op /\ c.done \subseteq Op
         /\ c.failed \subseteq 1 .. MaxSaves /\ c.files \in BOOLEAN /\ c.attempt \in 0 .. MaxAttempts
         /\ c.claimed \subseteq 1 .. MaxSaves /\ c.event \in Nat /\ c.tx \in Nat
  BY DEF Commit

LEMMA EndedIs ==
  ASSUME NEW w, IsWorld(w), NEW p \in Pages
  PROVE  LET v == Ended(w, p)
         IN  /\ v.cm = [w.cm EXCEPT ![p] = NoCommit]
             /\ v.ev = w.ev /\ v.src = w.src /\ v.buf = w.buf /\ v.ask = w.ask \ {p}
             /\ v.tx = IF w.tx.id = w.cm[p].tx THEN NoTransaction ELSE w.tx
  BY DEF Ended, IsWorld

LEMMA FailedEnds ==
  ASSUME NEW w, IsWorld(w), NEW p \in Pages
  PROVE  Ends(w, Failed(w, p), p) /\ Failed(w, p).src = Restored(w.src, w.cm[p].before)
<1> DEFINE u == [w EXCEPT !.src = Restored(@, w.cm[p].before)]
<1>1. /\ IsWorld(u) /\ u.cm = w.cm /\ u.ev = w.ev /\ u.buf = w.buf /\ u.ask = w.ask /\ u.tx = w.tx
      /\ u.src = Restored(w.src, w.cm[p].before)
  BY DEF IsWorld
<1>2. Failed(w, p) = Ended(u, p)
  BY DEF Failed
<1> HIDE DEF u
<1>3. /\ Ended(u, p).cm = [w.cm EXCEPT ![p] = NoCommit]
      /\ Ended(u, p).ev = w.ev /\ Ended(u, p).src = u.src /\ Ended(u, p).buf = w.buf
      /\ Ended(u, p).ask = w.ask \ {p} /\ Ended(u, p).tx \in {w.tx, NoTransaction}
  BY <1>1, EndedIs
<1>. QED BY <1>1, <1>2, <1>3 DEF Ends

LEMMA UndecidedEnds ==
  ASSUME NEW w, IsWorld(w), NEW p \in Pages
  PROVE  Ends(w, Undecided(w, p), p)
  BY DEF Undecided, IsWorld, Ends

LEMMA DispatchedGoesOn ==
  ASSUME NEW w, IsWorld(w), NEW p \in Pages, NEW ops, NEW d
  PROVE  GoesOn(w, Dispatched(w, p, ops, d), p, d, ops)
<1>1. Event(p, ops, w.src).id = NewId
  BY DEF Event
<1>. QED BY <1>1 DEF Dispatched, IsWorld, GoesOn

LEMMA RepairingTurns ==
  ASSUME NEW w, IsWorld(w), NEW p \in Pages, NEW c, Fits(c),
         c.batch = w.cm[p].batch, c.before = w.cm[p].before, c.tx = w.cm[p].tx
  PROVE  \/ Ends(w, Repairing(w, p, c), p)
         \/ \E d, ops : /\ GoesOn(w, Repairing(w, p, c), p, d, ops)
                        /\ Onward(w.cm[p], d, ops) /\ d.attempt # 0
<1>1. CASE c.attempt = MaxAttempts
  BY <1>1, UndecidedEnds DEF Repairing
<1>2. CASE c.attempt # MaxAttempts
  <2> DEFINE d == [c EXCEPT !.attempt = @ + 1, !.sent = {}, !.rest = {}]
  <2>1. Repairing(w, p, c) = Dispatched(w, p, AllOps(c.batch), d)
    BY <1>2 DEF Repairing
  <2>2. d.attempt \in 0 .. MaxAttempts /\ d.attempt # 0
    BY <1>2, ApplyAssumption, CommitFields DEF Fits, ApplyAssumption, Commit
  <2>3. /\ d.batch = c.batch /\ d.before = c.before /\ d.tx = c.tx /\ d.done = c.done
        /\ d.claimed = c.claimed /\ d.rest = {} /\ d.sent = {}
    BY DEF Fits, Commit
  <2>4. d \in Commit
    BY <2>2 DEF Fits, Commit
  <2>5. Fits(d)
    BY <2>3, <2>4 DEF Fits
  <2> HIDE DEF d
  <2>6. Onward(w.cm[p], d, AllOps(c.batch))
    BY <2>2, <2>3, <2>5 DEF Onward
  <2>7. GoesOn(w, Repairing(w, p, c), p, d, AllOps(c.batch))
    BY <2>1, DispatchedGoesOn
  <2>. QED BY <2>2, <2>6, <2>7
<1>. QED BY <1>1, <1>2

LEMMA VerifiedAccepts ==
  ASSUME NEW w, IsWorld(w), NEW p \in Pages, NEW ids, ids \subseteq Ids(w.cm[p].batch),
         \A e \in w.cm[p].batch : e.id \in ids => Shows(w.src, e),
         w.cm[p].attempt = 0 => ~Leaks(w.src, w.cm[p], ids)
  PROVE  Accepts(w, Verified(w, p, ids), p, ids)
<1> DEFINE u == [w EXCEPT !.buf = Cleared(@, w.cm[p].batch, ids)]
<1>1. /\ IsWorld(u) /\ u.cm = w.cm /\ u.ev = w.ev /\ u.src = w.src /\ u.ask = w.ask /\ u.tx = w.tx
      /\ u.buf = Cleared(w.buf, w.cm[p].batch, ids)
  BY DEF IsWorld
<1>2. Verified(w, p, ids) = Ended(u, p)
  BY DEF Verified
<1> HIDE DEF u
<1>3. /\ Ended(u, p).cm = [w.cm EXCEPT ![p] = NoCommit]
      /\ Ended(u, p).ev = w.ev /\ Ended(u, p).src = w.src /\ Ended(u, p).buf = u.buf
      /\ Ended(u, p).ask = w.ask \ {p}
      /\ Ended(u, p).tx = IF w.tx.id = w.cm[p].tx THEN NoTransaction ELSE w.tx
  BY <1>1, EndedIs
<1>. QED BY <1>1, <1>2, <1>3 DEF Accepts

\* What the agent's result can come to: no more is accepted than it claims.
Concludes(w, v, p, ids) ==
  \/ Ends(w, v, p)
  \/ \E d, ops : GoesOn(w, v, p, d, ops) /\ Onward(w.cm[p], d, ops) /\ d.attempt # 0
  \/ Accepts(w, v, p, ids)

LEMMA ClaimFits ==
  ASSUME NEW c, Fits(c), NEW ids, ids \subseteq Ids(c.batch)
  PROVE  /\ Fits([c EXCEPT !.claimed = ids])
         /\ [c EXCEPT !.claimed = ids].batch = c.batch /\ [c EXCEPT !.claimed = ids].before = c.before
         /\ [c EXCEPT !.claimed = ids].tx = c.tx /\ [c EXCEPT !.claimed = ids].claimed = ids
         /\ [c EXCEPT !.claimed = ids].attempt = c.attempt
<1> DEFINE d == [c EXCEPT !.claimed = ids]
<1>1. /\ d.batch = c.batch /\ d.before = c.before /\ d.tx = c.tx /\ d.claimed = ids
      /\ d.attempt = c.attempt /\ d.rest = c.rest /\ d.sent = c.sent /\ d.done = c.done
  BY DEF Fits, Commit
<1>2. ids \subseteq 1 .. MaxSaves
  <2>1. c.batch \subseteq Entry
    BY CommitFields DEF Fits
  <2>. QED BY <2>1, EntryFacts DEF Ids
<1>3. d \in Commit
  BY <1>2 DEF Fits, Commit
<1> HIDE DEF d
<1>4. Fits(d)
  BY <1>1, <1>3 DEF Fits
<1>. QED BY <1>1, <1>4 DEF d

LEMMA ConcludedTurns ==
  ASSUME NEW w, IsWorld(w), NEW p \in Pages, Fits(w.cm[p]),
         NEW r, r.applied \subseteq Ids(w.cm[p].batch), NEW v \in Concluded(w, p, r)
  PROVE  /\ Concludes(w, v, p, r.applied)
         /\ r.status = "rejected" => Ends(w, v, p)
<1> DEFINE c        == w.cm[p]
           changed  == Content(w.src, p) # c.before
           repaired == Repairing(w, p, [c EXCEPT !.claimed = r.applied])
           verified == {e.id : e \in {e \in c.batch : e.id \in r.applied /\ Shows(w.src, e)}}
           claimed  == IF verified = {} THEN Ids(c.batch) ELSE verified
           failing  == \/ r.status \in {"error", "rejected"} \/ r.applied \cap r.failed # {}
                       \/ changed /\ ~r.files
                       \/ r.status = "done" /\ r.applied = {}
<1>1. v \in IF failing THEN {Failed(w, p)}
            ELSE IF r.applied # {} /\ ~r.files THEN {repaired}
            ELSE IF Leaks(w.src, c, r.applied) THEN {Failed(w, p)}
            ELSE IF verified # r.applied THEN {repaired}
            ELSE {Verified(w, p, verified), Repairing(w, p, [c EXCEPT !.claimed = claimed])}
  BY DEF Concluded
<1>2. verified \subseteq Ids(c.batch) /\ claimed \subseteq Ids(c.batch)
  BY DEF Ids
<1>3. \A e \in c.batch : e.id \in verified => Shows(w.src, e)
  BY DEF Fits
<1>4. Concludes(w, Failed(w, p), p, r.applied)
  BY FailedEnds DEF Concludes
<1>5. ASSUME NEW ids, ids \subseteq Ids(c.batch)
      PROVE  Concludes(w, Repairing(w, p, [c EXCEPT !.claimed = ids]), p, r.applied)
  <2> DEFINE d == [c EXCEPT !.claimed = ids]
  <2>1. Fits(d) /\ d.batch = c.batch /\ d.before = c.before /\ d.tx = c.tx
    BY <1>5, ClaimFits
  <2> HIDE DEF d
  <2>2. Concludes(w, Repairing(w, p, d), p, r.applied)
    BY <2>1, RepairingTurns DEF Concludes
  <2>. QED BY <2>2 DEF d
<1>6. CASE failing
  <2>1. v = Failed(w, p)
    BY <1>1, <1>6
  <2>. QED BY <1>4, <2>1, FailedEnds
<1>7. CASE ~failing
  <2>1. r.status # "rejected"
    BY <1>7
  <2>2. CASE v = Verified(w, p, verified) /\ verified = r.applied /\ ~Leaks(w.src, c, r.applied)
    <3> HIDE DEF verified
    <3>1. Accepts(w, v, p, r.applied)
      BY <1>2, <1>3, <2>2, VerifiedAccepts
    <3>. QED BY <2>1, <3>1 DEF Concludes
  <2>3. v \in {Failed(w, p), repaired, Repairing(w, p, [c EXCEPT !.claimed = claimed])} \/
          (v = Verified(w, p, verified) /\ verified = r.applied /\ ~Leaks(w.src, c, r.applied))
    <3> HIDE DEF failing, verified, claimed, repaired, c
    <3>. QED BY <1>1, <1>7
  <2>. QED BY <1>2, <1>4, <1>5, <2>1, <2>2, <2>3
<1>. QED BY <1>6, <1>7

LEMMA RepairConcludedTurns ==
  ASSUME NEW w, IsWorld(w), NEW p \in Pages, Fits(w.cm[p]), w.cm[p].attempt # 0,
         NEW r, r.applied \subseteq Ids(w.cm[p].batch), NEW v \in RepairConcluded(w, p, r)
  PROVE  \/ Ends(w, v, p)
         \/ \E d, ops : GoesOn(w, v, p, d, ops) /\ Onward(w.cm[p], d, ops) /\ d.attempt # 0
         \/ r.status # "rejected" /\ \E ids : Accepts(w, v, p, ids)
<1> DEFINE ids == w.cm[p].claimed \cup r.applied
           c   == [w.cm[p] EXCEPT !.claimed = ids]
           fixed == r.status # "rejected" /\ \A e \in c.batch : e.id \in c.claimed => Shows(w.src, e)
<1>1. v \in {Repairing(w, p, c)} \cup (IF fixed THEN {Verified(w, p, c.claimed)} ELSE {})
  BY DEF RepairConcluded
<1>2. ids \subseteq Ids(w.cm[p].batch)
  BY DEF Fits
<1>3. Fits(c) /\ c.batch = w.cm[p].batch /\ c.before = w.cm[p].before /\ c.tx = w.cm[p].tx /\ c.claimed = ids
  <2> HIDE DEF ids
  <2>. QED BY <1>2, ClaimFits
<1>4. CASE v = Repairing(w, p, c)
  <2> HIDE DEF c
  <2>. QED BY <1>3, <1>4, RepairingTurns
<1>5. CASE fixed /\ v = Verified(w, p, c.claimed)
  <2>1. \A e \in w.cm[p].batch : e.id \in ids => Shows(w.src, e)
    BY <1>3, <1>5
  <2>2. v = Verified(w, p, ids)
    BY <1>3, <1>5
  <2> HIDE DEF ids, c
  <2>3. Accepts(w, v, p, ids)
    BY <1>2, <2>1, <2>2, VerifiedAccepts
  <2>. QED BY <1>5, <2>3
<1>6. v = Repairing(w, p, c) \/ (fixed /\ v = Verified(w, p, c.claimed))
  <2> HIDE DEF c, fixed
  <2>. QED BY <1>1
<1>. QED BY <1>4, <1>5, <1>6

LEMMA SummaryFacts ==
  ASSUME NEW c
  PROVE  /\ Summary(c).applied \subseteq Ids(c.batch)
         /\ Summary(c).status # "rejected"
         /\ \A id \in Summary(c).applied : \E e \in c.batch : e.id = id /\ AllOps({e}) \subseteq c.done
  BY DEF Summary, Ids

\* What the absence of an answer can come to: only what was done before it is
\* accepted.
Cut(w, v, p) ==
  \/ Ends(w, v, p)
  \/ \E d, ops : GoesOn(w, v, p, d, ops) /\ Onward(w.cm[p], d, ops) /\ d.attempt # 0
  \/ /\ w.cm[p].attempt = 0
     /\ \E ids : /\ Accepts(w, v, p, ids)
                 /\ \A e \in w.cm[p].batch : e.id \in ids => AllOps({e}) \subseteq w.cm[p].done

\* A world in which c has only learnt something turns into the same.
LEMMA LearntTurns ==
  ASSUME NEW w, IsWorld(w), NEW p \in Pages, NEW d, NEW v, NEW ids,
         d.batch = w.cm[p].batch, d.before = w.cm[p].before, d.tx = w.cm[p].tx, d.attempt = w.cm[p].attempt,
         Concludes([w EXCEPT !.cm[p] = d], v, p, ids)
  PROVE  Concludes(w, v, p, ids)
<1> DEFINE u == [w EXCEPT !.cm[p] = d]
<1>1. /\ u.src = w.src /\ u.buf = w.buf /\ u.tx = w.tx /\ u.ev = w.ev /\ u.ask = w.ask /\ u.cm[p] = d
      /\ \A x : [u.cm EXCEPT ![p] = x] = [w.cm EXCEPT ![p] = x]
  BY DEF IsWorld
<1> HIDE DEF u
<1>2. Concludes(u, v, p, ids)
  BY DEF u
<1>3. CASE Ends(u, v, p)
  BY <1>1, <1>3 DEF Ends, Concludes
<1>4. CASE \E e, ops : GoesOn(u, v, p, e, ops) /\ Onward(u.cm[p], e, ops) /\ e.attempt # 0
  <2>1. PICK e, ops : GoesOn(u, v, p, e, ops) /\ Onward(u.cm[p], e, ops) /\ e.attempt # 0
    BY <1>4
  <2>2. GoesOn(w, v, p, e, ops)
    BY <1>1, <2>1 DEF GoesOn
  <2>3. Onward(w.cm[p], e, ops)
    BY <1>1, <2>1 DEF Onward
  <2>. QED BY <2>1, <2>2, <2>3 DEF Concludes
<1>5. CASE Accepts(u, v, p, ids)
  <2>1. Leaks(u.src, u.cm[p], ids) <=> Leaks(w.src, w.cm[p], ids)
    BY <1>1 DEF Leaks
  <2>2. Accepts(w, v, p, ids)
    BY <1>1, <1>5, <2>1 DEF Accepts
  <2>. QED BY <2>2 DEF Concludes
<1>. QED BY <1>2, <1>3, <1>4, <1>5 DEF Concludes

LEMMA OpIds ==
  ASSUME NEW ops, ops \subseteq Op
  PROVE  {o.id : o \in ops} \subseteq 1 .. MaxSaves
  BY DEF Op

LEMMA NextChunkGoesOn ==
  ASSUME NEW w, IsWorld(w), NEW p \in Pages, NEW d, Fits(d), d.attempt = 0
  PROVE  \E n, ops : GoesOn(w, NextChunk(w, p, d), p, n, ops) /\ Onward(d, n, ops) /\ n.done = d.done
<1> DEFINE ops == Chunk(d.batch, d.rest)
           n   == [d EXCEPT !.sent = ops, !.rest = @ \ ops]
<1>1. NextChunk(w, p, d) = Dispatched(w, p, ops, n)
  BY DEF NextChunk
<1>2. ops \subseteq d.rest
  BY ChunkPart
<1> HIDE DEF ops
<1>3. /\ n.batch = d.batch /\ n.before = d.before /\ n.tx = d.tx /\ n.attempt = 0 /\ n.done = d.done
      /\ n.claimed = d.claimed /\ n.sent = ops /\ n.rest = d.rest \ ops
  BY DEF Fits, Commit
<1>4. n \in Commit
  BY <1>2 DEF Fits, Commit
<1> HIDE DEF n
<1>5. Fits(n)
  BY <1>2, <1>3, <1>4 DEF Fits
<1>6. Onward(d, n, ops)
  BY <1>2, <1>3, <1>5 DEF Onward, Fits
<1>7. GoesOn(w, NextChunk(w, p, d), p, n, ops)
  BY <1>1, DispatchedGoesOn
<1>. QED BY <1>3, <1>6, <1>7

LEMMA CollectedTurns ==
  ASSUME NEW w, IsWorld(w), NEW p \in Pages, Fits(w.cm[p]), w.cm[p].attempt = 0,
         NEW r, r.failed \subseteq 1 .. MaxSaves, r.files \in BOOLEAN, NEW v \in Collected(w, p, r)
  PROVE  /\ Turns(w, v, p)
         /\ r.status = "rejected" => Cut(w, v, p)
<1> DEFINE c      == w.cm[p]
           ok     == r.status \in {"done", "partial"}
           done   == {o \in c.sent : ok /\ o.id \in r.applied \ r.failed}
           failed == c.failed \cup (r.failed \cup ({o.id : o \in c.sent} \ {o.id : o \in done}))
           files  == c.files \/ r.files
           rest   == IF ok THEN c.rest ELSE {}
           d      == [c EXCEPT !.done = @ \cup done, !.files = @ \/ r.files,
                               !.failed = @ \cup r.failed \cup ({o.id : o \in c.sent} \ {o.id : o \in done}),
                               !.rest = IF ok THEN @ ELSE {}]
<1>1. v \in IF d.rest # {} THEN {NextChunk(w, p, d)}
            ELSE Concluded([w EXCEPT !.cm[p] = d], p, Summary(d))
  BY DEF Collected
<1>2. /\ d.batch = c.batch /\ d.before = c.before /\ d.tx = c.tx /\ d.attempt = 0 /\ d.sent = c.sent
      /\ d.done = c.done \cup done /\ d.rest = rest /\ d.claimed = c.claimed
  BY DEF Fits, Commit
<1>3. d \in Commit
  <2>1. failed \subseteq 1 .. MaxSaves
    BY CommitFields, OpIds DEF Fits
  <2>2. c.done \cup done \subseteq Op /\ rest \subseteq Op /\ files \in BOOLEAN
    BY CommitFields DEF Fits
  <2>3. d = [c EXCEPT !.done = c.done \cup done, !.files = files, !.failed = failed, !.rest = rest]
    OBVIOUS
  <2> HIDE DEF failed, done, rest, files, d
  <2>. QED BY <2>1, <2>2, <2>3 DEF Fits, Commit
<1>4. Fits(d)
  <2>1. done \subseteq c.sent /\ rest \subseteq c.rest
    OBVIOUS
  <2> HIDE DEF done, rest, d
  <2>. QED BY <1>2, <1>3, <2>1 DEF Fits
<1>5. r.status = "rejected" => done = {} /\ rest = {}
  OBVIOUS
<1> HIDE DEF d, done, rest, files, failed
<1>6. CASE d.rest # {}
  <2>1. v = NextChunk(w, p, d)
    BY <1>1, <1>6
  <2>2. PICK n, ops : GoesOn(w, v, p, n, ops) /\ Onward(d, n, ops)
    BY <1>2, <1>4, <2>1, NextChunkGoesOn
  <2>3. Onward(c, n, ops)
    BY <1>2, <2>2 DEF Onward
  <2>4. r.status # "rejected"
    BY <1>2, <1>5, <1>6
  <2>. QED BY <2>2, <2>3, <2>4 DEF Turns
<1>7. CASE d.rest = {}
  <2> DEFINE u   == [w EXCEPT !.cm[p] = d]
             ids == Summary(d).applied
  <2>1. IsWorld(u) /\ u.cm[p] = d
    BY DEF IsWorld
  <2>2. v \in Concluded(u, p, Summary(d))
    BY <1>1, <1>7
  <2>3. ids \subseteq Ids(d.batch)
    BY SummaryFacts
  <2>4. Concludes(u, v, p, ids)
    <3> HIDE DEF u
    <3>. QED BY <1>4, <2>1, <2>2, <2>3, ConcludedTurns
  <2>5. Concludes(w, v, p, ids)
    BY <1>2, <2>4, LearntTurns
  <2>6. \A e \in c.batch : r.status = "rejected" /\ e.id \in ids => AllOps({e}) \subseteq c.done
    <3>1. SUFFICES ASSUME NEW e \in c.batch, r.status = "rejected", e.id \in ids
                   PROVE  AllOps({e}) \subseteq c.done
      OBVIOUS
    <3>2. PICK f \in d.batch : f.id = e.id /\ AllOps({f}) \subseteq d.done
      BY <3>1, SummaryFacts
    <3>3. f = e
      BY <1>2, <3>2 DEF Fits
    <3>. QED BY <1>2, <1>5, <3>1, <3>2, <3>3
  <2>. QED BY <2>5, <2>6 DEF Concludes, Turns, Cut
<1>. QED BY <1>6, <1>7

LEMMA ResumedTurns ==
  ASSUME NEW w, IsWorld(w), NEW p \in Pages, Fits(w.cm[p]),
         NEW r, r.applied \subseteq Ids(w.cm[p].batch), r.failed \subseteq 1 .. MaxSaves, r.files \in BOOLEAN,
         NEW v \in Resumed(w, p, r)
  PROVE  /\ Turns(w, v, p)
         /\ r.status = "rejected" => Cut(w, v, p)
<1>1. w.cm[p].attempt \in 0 .. MaxAttempts
  BY CommitFields DEF Fits
<1>2. CASE w.cm[p].attempt > 0
  <2>1. v \in RepairConcluded(w, p, r)
    BY <1>2 DEF Resumed
  <2>2. \/ Ends(w, v, p)
        \/ \E d, ops : GoesOn(w, v, p, d, ops) /\ Onward(w.cm[p], d, ops) /\ d.attempt # 0
        \/ r.status # "rejected" /\ \E ids : Accepts(w, v, p, ids)
    BY <1>1, <1>2, <2>1, RepairConcludedTurns
  <2>. QED BY <2>2 DEF Turns, Cut
<1>3. CASE ~(w.cm[p].attempt > 0) /\ ~InOneChunk(w.cm[p].batch)
  <2>1. v \in Collected(w, p, r)
    BY <1>3 DEF Resumed
  <2>. QED BY <1>1, <1>3, <2>1, CollectedTurns
<1>4. CASE ~(w.cm[p].attempt > 0) /\ InOneChunk(w.cm[p].batch)
  <2>1. v \in Concluded(w, p, r)
    BY <1>4 DEF Resumed
  <2>2. Concludes(w, v, p, r.applied) /\ (r.status = "rejected" => Ends(w, v, p))
    BY <2>1, ConcludedTurns
  <2>. QED BY <2>2 DEF Concludes, Turns, Cut
<1>. QED BY <1>2, <1>3, <1>4

-----------------------------------------------------------------------------
(* What the invariant says of an apply, and what carries it over a step.   *)

LEMMA SafeFits ==
  ASSUME NEW w, NEW g, Safe(w, g), NEW p \in Pages, w.cm[p].active
  PROVE  /\ Fits(w.cm[p]) /\ CommitOK(w.cm[p], p, w, g)
         /\ w.cm[p].batch \subseteq Entry
<1>1. w.cm[p] \in Commit \cup {NoCommit}
  BY DEF Safe, WorldTyped
<1>2. w.cm[p] \in Commit
  BY <1>1 DEF NoCommit
<1>3. CommitOK(w.cm[p], p, w, g)
  BY DEF Safe, CommitsInv
<1>4. w.cm[p].batch \subseteq Entry
  BY <1>2, CommitFields
<1>5. Fits(w.cm[p])
  BY <1>2, <1>3 DEF Fits, CommitOK, BatchOK
<1>. QED BY <1>3, <1>4, <1>5

LEMMA BatchOps ==
  ASSUME NEW w, NEW g, NEW p, NEW batch, batch \subseteq Entry, BatchOK(batch, p, w, g),
         NEW o \in AllOps(batch)
  PROVE  /\ o \in Op /\ o.ref \in RefsOf(p) /\ o.ref \in Refs /\ o.id \in Ids(batch)
         /\ o.ref \notin Settled(w, g)
         /\ \A q \in AllOps(batch) : q.ref = o.ref => q = o
<1>1. PICK e \in batch : \E r \in DOMAIN e.ops : o = [id |-> e.id, ref |-> r, text |-> e.ops[r]]
  BY DEF AllOps
<1>2. PICK r \in DOMAIN e.ops : o = [id |-> e.id, ref |-> r, text |-> e.ops[r]]
  BY <1>1
<1>3. /\ r \in RefsOf(p) /\ r \notin Settled(w, g)
  BY DEF BatchOK
<1>4. r \in Refs
  BY <1>3 DEF RefsOf
<1>5. ASSUME NEW q \in AllOps(batch), q.ref = o.ref PROVE q = o
  <2>1. PICK f \in batch : \E s \in DOMAIN f.ops : q = [id |-> f.id, ref |-> s, text |-> f.ops[s]]
    BY DEF AllOps
  <2>2. PICK s \in DOMAIN f.ops : q = [id |-> f.id, ref |-> s, text |-> f.ops[s]]
    BY <2>1
  <2>3. s = r
    BY <1>2, <1>5, <2>2
  <2>4. f = e
    BY <1>4, <2>3 DEF BatchOK
  <2>. QED BY <1>2, <2>2, <2>3, <2>4
<1>6. o \in Op
  BY AllOpsFacts
<1>. QED BY <1>2, <1>3, <1>4, <1>5, <1>6 DEF Ids

\* An element of a page that is settled now was so before, with the same text.
Carries(q, w, g, v, h) ==
  \A r \in RefsOf(q) : r \in Settled(v, h) => r \in Settled(w, g) /\ h.wanted[r] = g.wanted[r]

LEMMA AgreesCarries ==
  ASSUME NEW q, NEW w, NEW g, NEW v, NEW h, Carries(q, w, g, v, h),
         NEW content \in [RefsOf(q) -> Texts], Agrees(content, w, g)
  PROVE  Agrees(content, v, h)
  BY DEF Agrees, Carries

\* Nothing is settled that was not.
LEMMA NoneSettled ==
  ASSUME NEW w, NEW g, NEW v, NEW h, Settled(v, h) \subseteq Settled(w, g),
         \A r \in Settled(v, h) : h.wanted[r] = g.wanted[r]
  PROVE  /\ \A q : Carries(q, w, g, v, h)
         /\ \A content : Agrees(content, w, g) => Agrees(content, v, h)
  BY DEF Carries, Agrees

\* What is left of a batch in the buffer is what was sent, or exempt.
StillSent(c, p, v, h) ==
  \A e \in v.buf, f \in c.batch : e.id = f.id =>
    /\ e.page = p
    /\ \A r \in DOMAIN e.ops : r \in h.exempt \/ (r \in DOMAIN f.ops /\ f.ops[r] = e.ops[r])

LEMMA LessSent ==
  ASSUME NEW c, NEW p, NEW w, NEW g, CommitOK(c, p, w, g), NEW v, NEW h,
         v.buf \subseteq w.buf, g.exempt \subseteq h.exempt
  PROVE  StillSent(c, p, v, h)
  BY DEF StillSent, CommitOK, BatchOK

LEMMA CommitKept ==
  ASSUME NEW c, NEW q, NEW w, NEW g, CommitOK(c, q, w, g), c.batch \subseteq Entry, NEW v, NEW h,
         g.saves \in Nat, h.saves \in Nat, g.saves <= h.saves,
         Carries(q, w, g, v, h), StillSent(c, q, v, h),
         v.tx.page = q => v.tx.id = c.tx
  PROVE  CommitOK(c, q, v, h)
<1>1. ASSUME NEW e \in c.batch
      PROVE  e.page = q /\ DOMAIN e.ops \subseteq RefsOf(q) /\ e.id <= h.saves /\ DOMAIN e.ops \cap Settled(v, h) = {}
  <2>1. /\ e.page = q /\ DOMAIN e.ops \subseteq RefsOf(q) /\ e.id <= g.saves
        /\ DOMAIN e.ops \cap Settled(w, g) = {}
    BY DEF CommitOK, BatchOK
  <2>2. e.id \in Nat
    BY EntryFacts, ApplyAssumption DEF ApplyAssumption
  <2>3. DOMAIN e.ops \cap Settled(v, h) = {}
    BY <2>1 DEF Carries
  <2>4. e.id <= h.saves
    BY <2>1, <2>2
  <2>. QED BY <2>1, <2>3, <2>4
<1>2. /\ \A e, f \in c.batch : e.id = f.id => e = f
      /\ \A e, f \in c.batch, r \in Refs : r \in DOMAIN e.ops /\ r \in DOMAIN f.ops => e = f
  BY DEF CommitOK, BatchOK
<1>3. BatchOK(c.batch, q, v, h)
  BY <1>1, <1>2 DEF BatchOK, StillSent
<1>4. c.before \in [RefsOf(q) -> Texts] /\ Agrees(c.before, v, h)
  BY AgreesCarries DEF CommitOK
<1>. QED BY <1>3, <1>4 DEF CommitOK

LEMMA EventKept ==
  ASSUME NEW w, NEW g, Safe(w, g), NEW e \in w.ev, NEW v, NEW h,
         v.cm[e.page] = w.cm[e.page], Carries(e.page, w, g, v, h),
         e.page \in v.ask => e.page \in w.ask,
         \A o \in w.cm[e.page].done : w.cm[e.page].attempt = 0 =>
           v.src[o.ref] = w.src[o.ref] /\ (o.ref \in LateIn(v, h) => o.ref \in LateIn(w, g))
  PROVE  EventOK(e, v, h)
<1>1. EventOK(e, w, g)
  BY DEF Safe, EventsInv
<1>2. e.content \in [RefsOf(e.page) -> Texts] /\ Agrees(e.content, v, h)
  BY <1>1, AgreesCarries DEF EventOK
<1>. QED BY <1>1, <1>2 DEF EventOK

\* The event of a page that a step does not concern.
LEMMA EventApart ==
  ASSUME NEW w, NEW g, Safe(w, g), NEW e \in w.ev, NEW v, NEW h,
         v.cm[e.page] = w.cm[e.page], Carries(e.page, w, g, v, h),
         e.page \in v.ask => e.page \in w.ask,
         \A r \in RefsOf(e.page) : v.src[r] = w.src[r] /\ (r \in LateIn(v, h) => r \in LateIn(w, g))
  PROVE  EventOK(e, v, h)
<1>1. e.page \in Pages /\ w.cm[e.page].active
  BY DEF Safe, WorldTyped, EventsInv, EventOK
<1>2. \A o \in w.cm[e.page].done : o.ref \in RefsOf(e.page)
  <2>1. CommitOK(w.cm[e.page], e.page, w, g) /\ w.cm[e.page].batch \subseteq Entry
    BY <1>1, SafeFits
  <2>2. w.cm[e.page].done \subseteq AllOps(w.cm[e.page].batch) /\ BatchOK(w.cm[e.page].batch, e.page, w, g)
    BY <2>1 DEF CommitOK
  <2>. QED BY <2>1, <2>2, BatchOps
<1>. QED BY <1>2, EventKept

-----------------------------------------------------------------------------
(* The three ways in which a turn ends keep the invariant.                 *)

LEMMA TxPage ==
  ASSUME NEW w, WorldTyped(w)
  PROVE  NoTransaction.page \notin Pages /\ NoTransaction.id = 0
  BY ApplyAssumption DEF NoTransaction, ApplyAssumption

LEMMA CopiesTyped ==
  ASSUME NEW w, NEW g, Safe(w, g), NEW p \in Pages, w.cm[p].active
  PROVE  w.cm[p].before \in [RefsOf(p) -> Texts] /\ w.src \in [Refs -> Texts]
  BY SafeFits DEF CommitOK, Safe, WorldTyped

LEMMA EndsKeeps ==
  ASSUME NEW w, NEW g, Safe(w, g), NEW p \in Pages, w.cm[p].active,
         \A e \in w.ev : e.page # p, NEW v, Ends(w, v, p)
  PROVE  Safe(v, g)
<1>1. /\ v.ev = w.ev /\ v.buf = w.buf /\ v.tx \in {w.tx, NoTransaction}
      /\ v.cm = [w.cm EXCEPT ![p] = NoCommit] /\ v.ask \in {w.ask \ {p}, w.ask \cup {p}}
      /\ v.src = w.src \/ v.src = Restored(w.src, w.cm[p].before)
  BY DEF Ends
<1>2. WorldTyped(w) /\ w.cm \in [Pages -> Commit \cup {NoCommit}]
  BY DEF Safe, WorldTyped
<1>3. /\ v.cm[p] = NoCommit
      /\ \A q \in Pages : q # p => v.cm[q] = w.cm[q]
  BY <1>1, <1>2
<1>4. /\ w.cm[p].before \in [RefsOf(p) -> Texts] /\ w.src \in [Refs -> Texts]
      /\ Agrees(w.cm[p].before, w, g)
  BY CopiesTyped, SafeFits DEF CommitOK
<1>5. Settled(v, g) = Settled(w, g) /\ LateIn(v, g) = LateIn(w, g)
  BY <1>1 DEF Settled, LateIn
<1>6. /\ \A q : Carries(q, w, g, v, g)
      /\ \A content : Agrees(content, w, g) => Agrees(content, v, g)
  BY <1>5, NoneSettled
<1>7. /\ v.src \in [Refs -> Texts]
      /\ \A r \in Refs : r \notin RefsOf(p) => v.src[r] = w.src[r]
      /\ \A r \in RefsOf(p) : v.src[r] \in {w.src[r], w.cm[p].before[r]}
  BY <1>1, <1>4, RestoredFacts
<1>8. WorldTyped(v)
  <2>1. v.cm \in [Pages -> Commit \cup {NoCommit}]
    BY <1>1, <1>2
  <2>2. v.ask \subseteq Pages
    BY <1>1, <1>2 DEF WorldTyped
  <2>. QED BY <1>1, <1>2, <1>7, <2>1, <2>2 DEF WorldTyped
<1>9. SourceInv(v, g)
  <2>1. Agrees(w.src, w, g) /\ SourceInv(w, g)
    BY DEF Safe, SourceInv
  <2>2. Agrees(v.src, v, g)
    <3> SUFFICES ASSUME NEW r \in Settled(v, g) PROVE v.src[r] = g.wanted[r]
      BY DEF Agrees
    <3>1. r \in Settled(w, g) /\ r \in Refs
      BY <1>5 DEF Settled
    <3>2. w.src[r] = g.wanted[r] /\ (r \in RefsOf(p) => w.cm[p].before[r] = g.wanted[r])
      BY <1>4, <2>1, <3>1 DEF Agrees
    <3>. QED BY <1>7, <3>1, <3>2
  <2>3. v.tx # NoTransaction => v.tx = w.tx
    BY <1>1
  <2>. QED BY <1>6, <2>1, <2>2, <2>3 DEF SourceInv
<1>10. CommitsInv(v, g)
  <2> SUFFICES ASSUME NEW q \in Pages, v.cm[q].active PROVE CommitOK(v.cm[q], q, v, g)
    BY DEF CommitsInv
  <2>1. q # p /\ v.cm[q] = w.cm[q]
    BY <1>3 DEF NoCommit
  <2>2. CommitOK(w.cm[q], q, w, g) /\ w.cm[q].batch \subseteq Entry
    BY <2>1, SafeFits
  <2>3. StillSent(w.cm[q], q, v, g)
    BY <1>1, <2>2, LessSent
  <2>4. v.tx.page = q => v.tx.id = w.cm[q].tx
    BY <1>1, <1>2, <2>2, TxPage DEF CommitOK
  <2>5. g.saves \in Nat
    BY ApplyAssumption DEF Safe, OthersTyped, ApplyAssumption
  <2>. QED BY <1>6, <2>1, <2>2, <2>3, <2>4, <2>5, CommitKept
<1>11. EventsInv(v, g)
  <2>1. \A e, f \in v.ev : e.id = f.id => e = f
    BY <1>1 DEF Safe, EventsInv
  <2>2. ASSUME NEW e \in v.ev PROVE EventOK(e, v, g)
    <3>1. e \in w.ev /\ e.page # p /\ e.page \in Pages
      BY <1>1, <1>2 DEF WorldTyped
    <3>2. v.cm[e.page] = w.cm[e.page] /\ (e.page \in v.ask => e.page \in w.ask)
      BY <1>1, <1>3, <3>1
    <3>3. \A r \in RefsOf(e.page) : v.src[r] = w.src[r]
      BY <1>7, <3>1, PagesApart DEF RefsOf
    <3>. QED BY <1>5, <1>6, <3>1, <3>2, <3>3, EventApart
  <2>. QED BY <2>1, <2>2 DEF EventsInv
<1>12. AgentInv(v, g)
  BY <1>1, <1>5, <1>6 DEF Safe, AgentInv
<1>13. BufferInv(v, g)
  BY <1>1 DEF Safe, BufferInv
<1>. QED BY <1>8, <1>9, <1>10, <1>11, <1>12, <1>13 DEF Safe

\* An id for the next event.
Fresh(w, g) == /\ NewId \in Nat \ {0} /\ NewId \notin Ids(w.ev)
               /\ NewId \notin Ids(g.stale) /\ NewId # g.agent.id

LEMMA GoesOnKeeps ==
  ASSUME NEW w, NEW g, Safe(w, g), NEW p \in Pages, w.cm[p].active,
         \A e \in w.ev : e.page # p, NEW v, NEW d, NEW ops,
         GoesOn(w, v, p, d, ops), Onward(w.cm[p], d, ops), Fresh(w, g),
         d.attempt = 0 => p \notin w.ask /\ \A o \in d.done : o.ref \notin LateIn(w, g)
  PROVE  Safe(v, g)
<1> DEFINE n == [d EXCEPT !.event = NewId]
           new == Event(p, ops, w.src)
<1>1. /\ v.ev = w.ev \cup {new} /\ v.buf = w.buf /\ v.tx = w.tx
      /\ v.cm = [w.cm EXCEPT ![p] = n] /\ v.ask = w.ask /\ v.src = w.src
  BY DEF GoesOn
<1>2. WorldTyped(w) /\ w.cm \in [Pages -> Commit \cup {NoCommit}]
  BY DEF Safe, WorldTyped
<1>3. d \in Commit /\ w.cm[p].batch \subseteq Entry /\ CommitOK(w.cm[p], p, w, g)
  BY SafeFits DEF Onward, Fits
<1>4. /\ n \in Commit /\ n.active = TRUE /\ n.event = NewId /\ n.batch = w.cm[p].batch /\ n.before = w.cm[p].before
      /\ n.tx = w.cm[p].tx /\ n.rest = d.rest /\ n.sent = d.sent /\ n.done = d.done
      /\ n.claimed = d.claimed /\ n.attempt = d.attempt
  BY <1>3 DEF Commit, Onward, Fresh
<1>5. new = [id |-> NewId, page |-> p, ops |-> ops, content |-> Content(w.src, p)]
  BY DEF Event
<1> HIDE DEF n
<1>6. /\ v.cm[p] = n
      /\ \A q \in Pages : q # p => v.cm[q] = w.cm[q]
  BY <1>1, <1>2
<1>7. w.src \in [Refs -> Texts] /\ Content(w.src, p) \in [RefsOf(p) -> Texts]
  BY <1>2, ContentFacts DEF WorldTyped
<1>8. ops \subseteq AllOps(w.cm[p].batch) /\ ops \subseteq Op
  <2>1. ops \subseteq AllOps(w.cm[p].batch)
    BY DEF Onward
  <2>. QED BY <1>3, <2>1, AllOpsFacts
<1>9. /\ new \in [id : Nat, page : Pages, ops : SUBSET Op, content : Contents]
      /\ new.id = NewId /\ new.page = p /\ new.ops = ops /\ new.content = Content(w.src, p)
  BY <1>5, <1>7, <1>8, ContentsIs DEF Fresh
<1> HIDE DEF new
<1>10. /\ g.agent.id \in Ids(v.ev) <=> g.agent.id \in Ids(w.ev)
       /\ \A e \in v.ev : e.id = g.agent.id => e \in w.ev
  BY <1>1, <1>9 DEF Ids, Fresh
<1>11. Settled(v, g) = Settled(w, g) /\ LateIn(v, g) = LateIn(w, g)
  BY <1>1, <1>10 DEF Settled, LateIn
<1>12. /\ \A q : Carries(q, w, g, v, g)
       /\ \A content : Agrees(content, w, g) => Agrees(content, v, g)
  BY <1>11, NoneSettled
<1>13. WorldTyped(v)
  <2>1. v.cm \in [Pages -> Commit \cup {NoCommit}]
    BY <1>1, <1>2, <1>4
  <2>2. v.ev \subseteq [id : Nat, page : Pages, ops : SUBSET Op, content : Contents]
    BY <1>1, <1>2, <1>9 DEF WorldTyped
  <2>3. IsFiniteSet(v.ev)
    BY <1>1, <1>2, FS_AddElement DEF WorldTyped
  <2>. QED BY <1>1, <1>2, <2>1, <2>2, <2>3 DEF WorldTyped
<1>14. SourceInv(v, g)
  BY <1>1, <1>12 DEF Safe, SourceInv
<1>15. CommitsInv(v, g)
  <2> SUFFICES ASSUME NEW q \in Pages, v.cm[q].active PROVE CommitOK(v.cm[q], q, v, g)
    BY DEF CommitsInv
  <2>1. w.cm[q].active
    BY <1>6
  <2>2. CommitOK(w.cm[q], q, w, g) /\ w.cm[q].batch \subseteq Entry
    BY <2>1, SafeFits
  <2>3. StillSent(w.cm[q], q, v, g)
    BY <1>1, <2>2, LessSent
  <2>4. v.tx.page = q => v.tx.id = w.cm[q].tx
    BY <1>1, <2>2 DEF CommitOK
  <2>5. g.saves \in Nat
    BY ApplyAssumption DEF Safe, OthersTyped, ApplyAssumption
  <2>6. CommitOK(w.cm[q], q, v, g)
    BY <1>12, <2>2, <2>3, <2>4, <2>5, CommitKept
  <2>7. CASE q # p
    BY <1>6, <2>6, <2>7
  <2>8. CASE q = p
    <3>1. n.rest \subseteq AllOps(n.batch) /\ n.sent \subseteq AllOps(n.batch) /\ n.done \subseteq AllOps(n.batch)
      BY <1>4 DEF Onward, Fits
    <3>2. n.rest \cap (n.sent \cup n.done) = {} /\ n.claimed \subseteq Ids(n.batch)
      BY <1>4 DEF Onward, Fits
    <3>. QED BY <1>4, <1>6, <2>6, <2>8, <3>1, <3>2 DEF CommitOK
  <2>. QED BY <2>7, <2>8
<1>16. EventsInv(v, g)
  <2>1. \A e, f \in v.ev : e.id = f.id => e = f
    BY <1>1, <1>9 DEF Safe, EventsInv, Fresh, Ids
  <2>2. ASSUME NEW e \in w.ev PROVE EventOK(e, v, g)
    <3>1. e.page # p /\ e.page \in Pages
      BY <1>2 DEF WorldTyped
    <3>. QED BY <1>1, <1>6, <1>11, <1>12, <3>1, EventApart
  <2>3. EventOK(new, v, g)
    <3>1. Agrees(new.content, v, g)
      <4>1. Agrees(w.src, v, g)
        BY <1>12 DEF Safe, SourceInv
      <4>. QED BY <1>7, <1>9, <4>1, ContentFacts DEF Agrees
    <3>2. v.cm[new.page].attempt = 0 =>
            /\ new.page \notin v.ask
            /\ \A o \in v.cm[new.page].done :
                 o \notin new.ops /\ new.content[o.ref] = v.src[o.ref] /\ o.ref \notin LateIn(v, g)
      <4>1. \A o \in d.done : o.ref \in RefsOf(p)
        <5>1. d.done \subseteq AllOps(w.cm[p].batch)
          BY DEF Onward, Fits
        <5>. QED BY <1>3, <5>1, BatchOps DEF CommitOK
      <4>2. \A o \in d.done : new.content[o.ref] = v.src[o.ref]
        BY <1>1, <1>7, <1>9, <4>1, ContentFacts
      <4>3. d.attempt = 0 => d.done \cap ops = {}
        BY DEF Onward
      <4>. QED BY <1>1, <1>4, <1>6, <1>9, <1>11, <4>2, <4>3
    <3>3. new.id # NoEvent
      BY <1>9 DEF Fresh, NoEvent
    <3>. QED BY <1>4, <1>6, <1>7, <1>8, <1>9, <3>1, <3>2, <3>3 DEF EventOK
  <2>. QED BY <1>1, <2>1, <2>2, <2>3 DEF EventsInv
<1>17. AgentInv(v, g)
  <2>1. \A x \in g.stale : x.id \notin Ids(v.ev)
    BY <1>1, <1>9 DEF Safe, AgentInv, Fresh, Ids
  <2>. QED BY <1>10, <1>11, <1>12, <2>1 DEF Safe, AgentInv
<1>18. BufferInv(v, g)
  BY <1>1 DEF Safe, BufferInv
<1>. QED BY <1>13, <1>14, <1>15, <1>16, <1>17, <1>18 DEF Safe

\* What an acceptance settles is not what an agent nobody waits for works on,
\* and its late answer would put nothing else in its place.
Unhampered(w, g, v) ==
  \A r \in Settled(v, g) \ Settled(w, g) :
    /\ g.agent.pc # "idle" /\ g.agent.id \notin Ids(w.ev) => r \notin RefsIn(g.agent.ops)
    /\ \A d \in g.stale : r \in DOMAIN d.content => d.content[r] = w.src[r]

LEMMA NewlySettled ==
  ASSUME NEW w, NEW g, Safe(w, g), NEW p \in Pages, w.cm[p].active, NEW v, NEW ids,
         Accepts(w, v, p, ids), NEW r \in Settled(v, g), r \notin Settled(w, g)
  PROVE  /\ r \in RefsOf(p) /\ w.src[r] = g.wanted[r]
         /\ \E f \in w.cm[p].batch : f.id \in ids /\ r \in DOMAIN f.ops
         /\ \E e \in w.buf : e.page = p /\ r \in DOMAIN e.ops
<1>1. v.buf = {e \in w.buf : e.id \notin ids}
  BY DEF Accepts, Cleared
<1>2. PICK e \in w.buf : r \in DOMAIN e.ops
  BY DEF Settled, IsStaged
<1>3. e.id \in ids /\ r \notin g.exempt
  BY <1>1, <1>2 DEF Settled, IsStaged
<1>4. PICK f \in w.cm[p].batch : f.id = e.id
  BY <1>3 DEF Accepts, Ids
<1>5. CommitOK(w.cm[p], p, w, g)
  BY SafeFits
<1>6. e.page = p /\ r \in DOMAIN f.ops /\ f.ops[r] = e.ops[r]
  BY <1>2, <1>3, <1>4, <1>5 DEF CommitOK, BatchOK
<1>7. Shows(w.src, f)
  BY <1>3, <1>4 DEF Accepts
<1>8. e.ops[r] = g.wanted[r] /\ r \in RefsOf(e.page)
  BY <1>2 DEF Safe, BufferInv
<1>. QED BY <1>2, <1>3, <1>4, <1>6, <1>7, <1>8 DEF Shows

\* The agent works on the elements of the page of its event.
LEMMA AgentsPage ==
  ASSUME NEW w, NEW g, Safe(w, g), NEW e \in w.ev, e.id = g.agent.id
  PROVE  e.page \in Pages /\ g.agent.ops = e.ops /\ RefsIn(g.agent.ops) \subseteq RefsOf(e.page)
<1>1. e.page \in Pages /\ g.agent.ops = e.ops
  BY DEF Safe, WorldTyped, AgentInv
<1>2. w.cm[e.page].active /\ e.ops \subseteq AllOps(w.cm[e.page].batch)
  BY DEF Safe, EventsInv, EventOK
<1>3. CommitOK(w.cm[e.page], e.page, w, g) /\ w.cm[e.page].batch \subseteq Entry
  BY <1>1, <1>2, SafeFits
<1>4. \A o \in e.ops : o.ref \in RefsOf(e.page)
  BY <1>2, <1>3, BatchOps DEF CommitOK
<1>. QED BY <1>1, <1>4 DEF RefsIn

LEMMA AcceptsKeeps ==
  ASSUME NEW w, NEW g, Safe(w, g), NEW p \in Pages, w.cm[p].active,
         \A e \in w.ev : e.page # p, NEW v, NEW ids,
         Accepts(w, v, p, ids), Unhampered(w, g, v)
  PROVE  Safe(v, g)
<1>1. /\ v.ev = w.ev /\ v.src = w.src /\ v.ask = w.ask \ {p}
      /\ v.tx = IF w.tx.id = w.cm[p].tx THEN NoTransaction ELSE w.tx
      /\ v.cm = [w.cm EXCEPT ![p] = NoCommit] /\ v.buf \subseteq w.buf
  BY DEF Accepts, Cleared
<1>2. WorldTyped(w) /\ w.cm \in [Pages -> Commit \cup {NoCommit}]
  BY DEF Safe, WorldTyped
<1>3. /\ v.cm[p] = NoCommit
      /\ \A q \in Pages : q # p => v.cm[q] = w.cm[q]
  BY <1>1, <1>2
<1>4. \A r \in Settled(v, g) : r \notin Settled(w, g) => r \in RefsOf(p) /\ w.src[r] = g.wanted[r]
  BY NewlySettled
<1>5. LateIn(v, g) = LateIn(w, g)
  BY <1>1 DEF LateIn
<1>6. \A q \in Pages : q # p => Carries(q, w, g, v, g)
  BY <1>4, PagesApart DEF Carries
<1>7. WorldTyped(v)
  <2>1. v.cm \in [Pages -> Commit \cup {NoCommit}]
    BY <1>1, <1>2
  <2>. QED BY <1>1, <1>2, <2>1 DEF WorldTyped
<1>8. SourceInv(v, g)
  <2>1. Agrees(v.src, v, g)
    BY <1>1, <1>4 DEF Safe, SourceInv, Agrees
  <2>2. ASSUME v.tx # NoTransaction
        PROVE  v.tx.content \in [RefsOf(v.tx.page) -> Texts] /\ Agrees(v.tx.content, v, g)
    <3>1. v.tx = w.tx /\ w.tx.id # w.cm[p].tx
      BY <1>1, <2>2
    <3>2. w.tx.page # p
      BY <3>1, SafeFits DEF CommitOK
    <3>3. w.tx.page \in Pages
      BY <1>2, <2>2, <3>1 DEF WorldTyped
    <3>4. w.tx.content \in [RefsOf(w.tx.page) -> Texts] /\ Agrees(w.tx.content, w, g)
      BY <2>2, <3>1 DEF Safe, SourceInv
    <3>. QED BY <1>6, <3>1, <3>2, <3>3, <3>4, AgreesCarries
  <2>. QED BY <2>1, <2>2 DEF SourceInv
<1>9. CommitsInv(v, g)
  <2> SUFFICES ASSUME NEW q \in Pages, v.cm[q].active PROVE CommitOK(v.cm[q], q, v, g)
    BY DEF CommitsInv
  <2>1. q # p /\ v.cm[q] = w.cm[q]
    BY <1>3 DEF NoCommit
  <2>2. CommitOK(w.cm[q], q, w, g) /\ w.cm[q].batch \subseteq Entry
    BY <2>1, SafeFits
  <2>3. StillSent(w.cm[q], q, v, g)
    BY <1>1, <2>2, LessSent
  <2>4. v.tx.page = q => v.tx.id = w.cm[q].tx
    BY <1>1, <1>2, <2>2, TxPage DEF CommitOK
  <2>5. g.saves \in Nat
    BY ApplyAssumption DEF Safe, OthersTyped, ApplyAssumption
  <2>. QED BY <1>6, <2>1, <2>2, <2>3, <2>4, <2>5, CommitKept
<1>10. EventsInv(v, g)
  <2>1. \A e, f \in v.ev : e.id = f.id => e = f
    BY <1>1 DEF Safe, EventsInv
  <2>2. ASSUME NEW e \in v.ev PROVE EventOK(e, v, g)
    <3>1. e \in w.ev /\ e.page # p /\ e.page \in Pages
      BY <1>1, <1>2 DEF WorldTyped
    <3>2. v.cm[e.page] = w.cm[e.page] /\ (e.page \in v.ask => e.page \in w.ask)
      BY <1>1, <1>3, <3>1
    <3>. QED BY <1>1, <1>5, <1>6, <3>1, <3>2, EventApart
  <2>. QED BY <2>1, <2>2 DEF EventsInv
<1>11. AgentInv(v, g)
  <2>1. AgentInv(w, g)
    BY DEF Safe
  <2>2. ASSUME g.agent.pc # "idle", NEW r \in RefsIn(g.agent.ops) PROVE r \notin Settled(v, g)
    <3>1. r \notin Settled(w, g)
      BY <2>1, <2>2 DEF AgentInv
    <3>2. CASE g.agent.id \notin Ids(w.ev)
      BY <2>2, <3>1, <3>2 DEF Unhampered
    <3>3. CASE g.agent.id \in Ids(w.ev)
      <4>1. PICK e \in w.ev : e.id = g.agent.id
        BY <3>3 DEF Ids
      <4>2. e.page # p /\ r \in RefsOf(e.page)
        BY <2>2, <4>1, AgentsPage
      <4>. QED BY <1>4, <3>1, <4>2, PagesApart
    <3>. QED BY <3>2, <3>3
  <2>3. ASSUME NEW d \in g.stale PROVE Agrees(d.content, v, g)
    BY <1>4, <2>1 DEF AgentInv, Unhampered, Agrees
  <2>. QED BY <1>1, <2>1, <2>2, <2>3 DEF AgentInv
<1>12. BufferInv(v, g)
  BY <1>1 DEF Safe, BufferInv
<1>. QED BY <1>7, <1>8, <1>9, <1>10, <1>11, <1>12 DEF Safe

-----------------------------------------------------------------------------
(* From a turn to a step.                                                  *)

\* Page p's apply has got its answer, or knows that there is none.
Turning(w, g, p) ==
  /\ Safe(w, g) /\ Awaited(w, {p}) /\ Fresh(w, g)
  /\ p \in Pages /\ w.cm[p].active
  /\ \A e \in w.ev : e.page # p

LEMMA EndsAwaited ==
  ASSUME NEW w, NEW g, NEW p, Turning(w, g, p), NEW v, v.ev = w.ev, v.cm = [w.cm EXCEPT ![p] = NoCommit]
  PROVE  Awaited(v, {})
<1>1. w.cm \in [Pages -> Commit \cup {NoCommit}] /\ p \in Pages
  BY DEF Turning, Safe, WorldTyped
<1>2. /\ \A q \in Pages \ {p} : v.cm[q] = w.cm[q]
      /\ v.cm[p] = NoCommit
  BY <1>1
<1>. QED BY <1>2 DEF Turning, Awaited, NoCommit

LEMMA GoesOnAwaited ==
  ASSUME NEW w, NEW g, NEW p, Turning(w, g, p), NEW v, NEW d, NEW ops, GoesOn(w, v, p, d, ops)
  PROVE  Awaited(v, {})
<1>1. w.cm \in [Pages -> Commit \cup {NoCommit}] /\ p \in Pages
  BY DEF Turning, Safe, WorldTyped
<1>2. \A q \in Pages \ {p} : v.cm[q] = w.cm[q]
  BY <1>1 DEF GoesOn
<1>3. Event(p, ops, w.src).page = p /\ v.ev = w.ev \cup {Event(p, ops, w.src)}
  BY DEF Event, GoesOn
<1>. QED BY <1>2, <1>3 DEF Turning, Awaited

LEMMA EndsTurn ==
  ASSUME NEW w, NEW g, NEW p, Turning(w, g, p), NEW v, Ends(w, v, p)
  PROVE  Safe(v, g) /\ Awaited(v, {})
<1>1. Safe(v, g)
  BY EndsKeeps DEF Turning
<1>2. Awaited(v, {})
  BY EndsAwaited DEF Ends
<1>. QED BY <1>1, <1>2

LEMMA GoesOnTurn ==
  ASSUME NEW w, NEW g, NEW p, Turning(w, g, p), NEW v, NEW d, NEW ops,
         GoesOn(w, v, p, d, ops), Onward(w.cm[p], d, ops),
         d.attempt = 0 => p \notin w.ask /\ \A o \in d.done : o.ref \notin LateIn(w, g)
  PROVE  Safe(v, g) /\ Awaited(v, {})
<1>1. Safe(v, g)
  BY GoesOnKeeps DEF Turning
<1>. QED BY <1>1, GoesOnAwaited

LEMMA AcceptsTurn ==
  ASSUME NEW w, NEW g, NEW p, Turning(w, g, p), NEW v, NEW ids, Accepts(w, v, p, ids), Unhampered(w, g, v)
  PROVE  Safe(v, g) /\ Awaited(v, {})
<1>1. Safe(v, g)
  BY AcceptsKeeps DEF Turning
<1>2. Awaited(v, {})
  BY EndsAwaited DEF Accepts
<1>. QED BY <1>1, <1>2

LEMMA WorldBecomes ==
  ASSUME NEW v, Becomes(v), Safe(v, Others'), Awaited(v, {})
  PROVE  Safe(World', Others') /\ Awaited(World', {})
<1>1. /\ World'.src = v.src /\ World'.buf = v.buf /\ World'.tx = v.tx
      /\ World'.ev = v.ev /\ World'.cm = v.cm /\ World'.ask = v.ask
  BY DEF Becomes, World
<1> DEFINE u == World'
           g == Others'
<1> HIDE DEF u
<1>2. u.src = v.src /\ u.buf = v.buf /\ u.tx = v.tx /\ u.ev = v.ev /\ u.cm = v.cm /\ u.ask = v.ask
  BY <1>1 DEF u
<1> HIDE DEF g
<1>3. Safe(v, g)
  BY DEF g
<1>4. Settled(u, g) = Settled(v, g) /\ LateIn(u, g) = LateIn(v, g)
  BY <1>2 DEF Settled, LateIn
<1>5. \A content : Agrees(content, u, g) <=> Agrees(content, v, g)
  BY <1>4 DEF Agrees
<1>6. WorldTyped(u) /\ OthersTyped(g)
  BY <1>2, <1>3 DEF Safe, WorldTyped
<1>7. BufferInv(u, g) /\ SourceInv(u, g)
  BY <1>2, <1>3, <1>5 DEF Safe, BufferInv, SourceInv
<1>8. CommitsInv(u, g)
  BY <1>2, <1>3, <1>4, <1>5 DEF Safe, CommitsInv, CommitOK, BatchOK
<1>9. EventsInv(u, g)
  BY <1>2, <1>3, <1>4, <1>5 DEF Safe, EventsInv, EventOK
<1>10. AgentInv(u, g)
  BY <1>2, <1>3, <1>4, <1>5 DEF Safe, AgentInv
<1>11. Awaited(u, {})
  BY <1>2 DEF Awaited
<1>. QED BY <1>6, <1>7, <1>8, <1>9, <1>10, <1>11 DEF Safe, u, g

\* What FailuresUndone says of a turn.
LEMMA TurnUndone ==
  ASSUME NEW w, NEW g, Safe(w, g), NEW p \in Pages, w.cm[p].active, NEW v, Turns(w, v, p),
         w.cm[p].attempt = 0, ~v.cm[p].active, p \notin v.ask,
         NEW e \in w.cm[p].batch, NEW r \in Refs, r \in DOMAIN e.ops, e.id \in Ids(v.buf), v.src[r] = e.ops[r]
  PROVE  w.cm[p].before[r] = e.ops[r]
<1>1. CommitOK(w.cm[p], p, w, g) /\ w.cm \in [Pages -> Commit \cup {NoCommit}]
  BY SafeFits DEF Safe, WorldTyped
<1>2. r \in RefsOf(p) /\ w.src \in [Refs -> Texts] /\ w.cm[p].before \in [RefsOf(p) -> Texts]
  BY <1>1, CopiesTyped DEF CommitOK, BatchOK
<1>3. CASE Ends(w, v, p)
  <2>1. v.src = Restored(w.src, w.cm[p].before)
    BY <1>3 DEF Ends
  <2>. QED BY <1>2, <2>1, RestoredFacts
<1>4. CASE \E d, ops : GoesOn(w, v, p, d, ops) /\ Onward(w.cm[p], d, ops)
  <2>1. PICK d, ops : GoesOn(w, v, p, d, ops) /\ Onward(w.cm[p], d, ops)
    BY <1>4
  <2>2. v.cm[p] = [d EXCEPT !.event = NewId] /\ d \in Commit
    BY <1>1, <2>1 DEF GoesOn, Onward, Fits
  <2>3. v.cm[p].active
    BY <2>2, CommitFields DEF Commit
  <2>. QED BY <2>3
<1>5. CASE \E ids : Accepts(w, v, p, ids)
  <2>1. PICK ids : Accepts(w, v, p, ids)
    BY <1>5
  <2>2. e.id \notin ids
    BY <2>1 DEF Accepts, Cleared, Ids
  <2>3. ~Leaks(w.src, w.cm[p], ids) /\ w.src[r] = e.ops[r]
    BY <2>1 DEF Accepts
  <2>. QED BY <2>2, <2>3 DEF Leaks
<1>. QED BY <1>3, <1>4, <1>5 DEF Turns

\* A step under which applies go on as they were, or lose their event.
LEMMA QuietKeeps ==
  ASSUME NEW w, NEW g, Safe(w, g), NEW v, NEW h,
         v.cm = w.cm, v.ev \subseteq w.ev, v.ask \subseteq w.ask,
         v.tx \in {w.tx, NoTransaction}, v.buf \subseteq w.buf,
         Settled(v, h) \subseteq Settled(w, g), \A r \in Settled(v, h) : h.wanted[r] = g.wanted[r],
         g.exempt \subseteq h.exempt, h.saves = g.saves,
         OthersTyped(h), BufferInv(v, h), AgentInv(v, h),
         v.src \in [Refs -> Texts], Agrees(v.src, v, h),
         \A e \in v.ev : \A o \in w.cm[e.page].done : w.cm[e.page].attempt = 0 =>
           v.src[o.ref] = w.src[o.ref] /\ (o.ref \in LateIn(v, h) => o.ref \in LateIn(w, g))
  PROVE  Safe(v, h)
<1>1. WorldTyped(w) /\ g.saves \in Nat
  BY ApplyAssumption DEF Safe, OthersTyped, ApplyAssumption
<1>2. /\ \A q : Carries(q, w, g, v, h)
      /\ \A content : Agrees(content, w, g) => Agrees(content, v, h)
  BY NoneSettled
<1>3. WorldTyped(v)
  <2>1. IsFiniteSet(v.ev)
    BY <1>1, FS_Subset DEF WorldTyped
  <2>. QED BY <1>1, <2>1 DEF WorldTyped
<1>4. SourceInv(v, h)
  BY <1>2 DEF Safe, SourceInv
<1>5. CommitsInv(v, h)
  <2> SUFFICES ASSUME NEW q \in Pages, w.cm[q].active PROVE CommitOK(w.cm[q], q, v, h)
    BY DEF CommitsInv
  <2>1. CommitOK(w.cm[q], q, w, g) /\ w.cm[q].batch \subseteq Entry
    BY SafeFits
  <2>2. StillSent(w.cm[q], q, v, h)
    BY <2>1, LessSent
  <2>3. v.tx.page = q => v.tx.id = w.cm[q].tx
    BY <1>1, <2>1, TxPage DEF CommitOK
  <2>. QED BY <1>1, <1>2, <2>1, <2>2, <2>3, CommitKept
<1>6. EventsInv(v, h)
  <2>1. \A e, f \in v.ev : e.id = f.id => e = f
    BY DEF Safe, EventsInv
  <2>2. ASSUME NEW e \in v.ev PROVE EventOK(e, v, h)
    <3>1. e \in w.ev /\ v.cm[e.page] = w.cm[e.page] /\ (e.page \in v.ask => e.page \in w.ask)
      OBVIOUS
    <3>. QED BY <1>2, <3>1, EventKept
  <2>. QED BY <2>1, <2>2 DEF EventsInv
<1>. QED BY <1>3, <1>4, <1>5, <1>6 DEF Safe

-----------------------------------------------------------------------------
(* The steps that are no turn of an apply.                                 *)

LEMMA WorldFields ==
  /\ World.src = source /\ World.buf = buffer /\ World.tx = transaction
  /\ World.ev = events /\ World.cm = commits /\ World.ask = decision
  /\ IsWorld(World) <=> DOMAIN commits = Pages
  BY DEF World, IsWorld

LEMMA WorldFieldsAfter ==
  /\ World'.src = source' /\ World'.buf = buffer' /\ World'.tx = transaction'
  /\ World'.ev = events' /\ World'.cm = commits' /\ World'.ask = decision'
  BY DEF World

LEMMA OthersFields ==
  /\ Others.wanted = wanted /\ Others.exempt = exempt /\ Others.saves = saves
  /\ Others.stale = stale /\ Others.agent = agent
  BY DEF Others

LEMMA OthersFieldsAfter ==
  /\ Others'.wanted = wanted' /\ Others'.exempt = exempt' /\ Others'.saves = saves'
  /\ Others'.stale = stale' /\ Others'.agent = agent'
  BY DEF Others

LEMMA AwaitedSame ==
  ASSUME NEW w, NEW v, NEW S, Awaited(w, S), v.cm = w.cm, v.ev = w.ev
  PROVE  Awaited(v, S)
  BY DEF Awaited

\* The elements that apply p has done are the agent's no more.
LEMMA DoneApart ==
  ASSUME NEW w, NEW g, Safe(w, g), NEW e \in w.ev, w.cm[e.page].attempt = 0, NEW o \in w.cm[e.page].done
  PROVE  /\ o.ref \in RefsOf(e.page) /\ o.ref \in Refs
         /\ o.ref \notin RefsIn(e.ops) /\ o.ref \notin LateIn(w, g)
         /\ e.page \notin w.ask /\ e.content[o.ref] = w.src[o.ref]
<1>1. EventOK(e, w, g) /\ e.page \in Pages
  BY DEF Safe, EventsInv, WorldTyped
<1>2. /\ o \notin e.ops /\ e.content[o.ref] = w.src[o.ref] /\ o.ref \notin LateIn(w, g)
      /\ e.page \notin w.ask /\ w.cm[e.page].active /\ e.ops \subseteq AllOps(w.cm[e.page].batch)
  BY <1>1 DEF EventOK
<1>3. CommitOK(w.cm[e.page], e.page, w, g) /\ w.cm[e.page].batch \subseteq Entry
  BY <1>1, <1>2, SafeFits
<1>4. o \in AllOps(w.cm[e.page].batch) /\ BatchOK(w.cm[e.page].batch, e.page, w, g)
  BY <1>3 DEF CommitOK
<1>5. /\ o.ref \in RefsOf(e.page) /\ o.ref \in Refs
      /\ \A q \in AllOps(w.cm[e.page].batch) : q.ref = o.ref => q = o
  BY <1>3, <1>4, BatchOps
<1>6. o.ref \notin RefsIn(e.ops)
  BY <1>2, <1>5 DEF RefsIn
<1>. QED BY <1>2, <1>5, <1>6

\* A step that only moves the agent or rolls the source back.
LEMMA QuietStep ==
  ASSUME ApplyInv, UNCHANGED <<commits, events, buffer, wanted, exempt, saves>>,
         decision' \subseteq decision, transaction' \in {transaction, NoTransaction},
         up' \in BOOLEAN, decided' \in Nat, ~up' => events = {},
         stale' \subseteq stale, agent' \in [pc : {"idle", "edit", "reply"}, id : Nat, ops : SUBSET Op],
         AgentInv(World', Others'),
         source' \in [Refs -> Texts], Agrees(source', World, Others),
         \A e \in events : \A o \in commits[e.page].done : commits[e.page].attempt = 0 =>
           /\ source'[o.ref] = source[o.ref]
           /\ o.ref \in LateIn(World', Others') => o.ref \in LateIn(World, Others)
  PROVE  ApplyInv'
<1> DEFINE w == World
           g == Others
           v == World'
           h == Others'
<1>1. /\ w.src = source /\ w.buf = buffer /\ w.tx = transaction
      /\ w.ev = events /\ w.cm = commits /\ w.ask = decision
  BY WorldFields
<1>2. /\ v.src = source' /\ v.buf = buffer /\ v.tx = transaction'
      /\ v.ev = events /\ v.cm = commits /\ v.ask = decision'
  BY WorldFieldsAfter
<1>3. /\ g.wanted = wanted /\ g.exempt = exempt /\ g.saves = saves /\ g.stale = stale /\ g.agent = agent
  BY OthersFields
<1>4. /\ h.wanted = wanted /\ h.exempt = exempt /\ h.saves = saves /\ h.stale = stale' /\ h.agent = agent'
  BY OthersFieldsAfter
<1>5. Safe(w, g) /\ Awaited(w, {})
  BY DEF ApplyInv
<1>6. AgentInv(v, h) /\ Agrees(source', w, g)
  OBVIOUS
<1>7. \A e \in v.ev : \A o \in w.cm[e.page].done : w.cm[e.page].attempt = 0 =>
        v.src[o.ref] = w.src[o.ref] /\ (o.ref \in LateIn(v, h) => o.ref \in LateIn(w, g))
  BY <1>1, <1>2
<1> HIDE DEF w, g, v, h
<1>8. Settled(v, h) = Settled(w, g)
  BY <1>1, <1>2, <1>3, <1>4 DEF Settled
<1>9. Agrees(v.src, v, h)
  BY <1>2, <1>3, <1>4, <1>6, <1>8 DEF Agrees
<1>10. OthersTyped(h)
  <2>1. IsFiniteSet(stale')
    BY <1>3, <1>5, FS_Subset DEF Safe, OthersTyped
  <2>. QED BY <1>3, <1>4, <1>5, <2>1 DEF Safe, OthersTyped
<1>11. BufferInv(v, h)
  BY <1>1, <1>2, <1>3, <1>4, <1>5 DEF Safe, BufferInv
<1>12. /\ v.cm = w.cm /\ v.ev \subseteq w.ev /\ v.ask \subseteq w.ask
       /\ v.tx \in {w.tx, NoTransaction} /\ v.buf \subseteq w.buf
       /\ Settled(v, h) \subseteq Settled(w, g) /\ \A r \in Settled(v, h) : h.wanted[r] = g.wanted[r]
       /\ g.exempt \subseteq h.exempt /\ h.saves = g.saves /\ v.src \in [Refs -> Texts]
  BY <1>1, <1>2, <1>3, <1>4, <1>8
<1>13. Safe(v, h)
  BY <1>5, <1>6, <1>7, <1>9, <1>10, <1>11, <1>12, QuietKeeps
<1>14. Awaited(v, {})
  BY <1>1, <1>2, <1>5, AwaitedSame
<1>15. Safe(World', Others') /\ Awaited(World', {})
  BY <1>13, <1>14 DEF v, h
<1>. QED BY <1>15 DEF ApplyInv

LEMMA TakeSafe ==
  ASSUME ApplyInv, NEW e \in events, Take(e)
  PROVE  ApplyInv'
<1>1. /\ up /\ agent.pc = "idle"
      /\ agent' = [pc |-> "edit", id |-> e.id, ops |-> e.ops]
      /\ UNCHANGED <<up, source, buffer, transaction, events, commits, stale, decision, saves, decided, wanted, exempt>>
  BY DEF Take, disk, user, Resting
<1>2. Safe(World, Others) /\ Awaited(World, {})
  BY DEF ApplyInv
<1>3. /\ e \in [id : Nat, page : Pages, ops : SUBSET Op, content : Contents]
      /\ source \in [Refs -> Texts] /\ Agrees(source, World, Others)
      /\ \A f \in events : f.id = e.id => f = e
  BY <1>2, WorldFields DEF Safe, WorldTyped, SourceInv, EventsInv
<1>4. agent' \in [pc : {"idle", "edit", "reply"}, id : Nat, ops : SUBSET Op] /\ agent'.id \in Ids(events)
  BY <1>1, <1>3 DEF Ids
<1>5. LateIn(World', Others') = {}
  BY <1>1, <1>4, WorldFieldsAfter, OthersFieldsAfter DEF LateIn
<1>6. stale = {}
  BY <1>1, <1>2, OthersFields DEF Safe, AgentInv
<1>7. \A o \in e.ops : o.ref \notin Settled(World, Others)
  <2>1. commits[e.page].active /\ e.ops \subseteq AllOps(commits[e.page].batch) /\ e.page \in Pages
    BY <1>2, <1>3, WorldFields DEF Safe, EventsInv, EventOK
  <2>2. BatchOK(commits[e.page].batch, e.page, World, Others) /\ commits[e.page].batch \subseteq Entry
    BY <1>2, <2>1, SafeFits, WorldFields DEF CommitOK
  <2>. QED BY <2>1, <2>2, BatchOps
<1>8. Settled(World', Others') = Settled(World, Others)
  BY <1>1, WorldFieldsAfter, OthersFieldsAfter, WorldFields, OthersFields DEF Settled
<1>9. AgentInv(World', Others')
  <2>1. agent'.pc # "idle" /\ RefsIn(agent'.ops) \cap Settled(World', Others') = {}
    BY <1>1, <1>7, <1>8 DEF RefsIn
  <2>2. \A f \in events' : f.id = agent'.id => agent'.ops = f.ops
    BY <1>1, <1>3
  <2>3. stale' = {}
    BY <1>1, <1>6
  <2>. QED BY <2>1, <2>2, <2>3, WorldFieldsAfter, OthersFieldsAfter DEF AgentInv
<1>10. up \in BOOLEAN /\ decided \in Nat /\ (~up => events = {})
  BY DEF ApplyInv
<1>. QED BY <1>1, <1>3, <1>4, <1>5, <1>9, <1>10, QuietStep

LEMMA SettledSame ==
  ASSUME UNCHANGED <<wanted, exempt, buffer>>
  PROVE  Settled(World', Others') = Settled(World, Others)
  BY WorldFieldsAfter, OthersFieldsAfter, WorldFields, OthersFields DEF Settled

\* The agent does not touch what an apply has done.
LEMMA AgentApart ==
  ASSUME NEW w, NEW g, Safe(w, g), g.agent.pc # "idle",
         NEW e \in w.ev, w.cm[e.page].attempt = 0, NEW o \in w.cm[e.page].done
  PROVE  o.ref \notin RefsIn(g.agent.ops)
<1>1. /\ o.ref \in RefsOf(e.page) /\ o.ref \notin RefsIn(e.ops) /\ o.ref \notin LateIn(w, g)
  BY DoneApart
<1>2. CASE g.agent.id \notin Ids(w.ev)
  BY <1>1, <1>2 DEF LateIn
<1>3. CASE g.agent.id \in Ids(w.ev)
  <2>1. PICK f \in w.ev : f.id = g.agent.id
    BY <1>3 DEF Ids
  <2>2. g.agent.ops = f.ops /\ RefsIn(g.agent.ops) \subseteq RefsOf(f.page)
    BY <2>1, AgentsPage
  <2>3. f.page = e.page => f = e
    BY DEF Safe, EventsInv, EventOK
  <2>. QED BY <1>1, <2>2, <2>3, PagesApart
<1>. QED BY <1>2, <1>3

LEMMA EditSafe ==
  ASSUME ApplyInv, Edit
  PROVE  ApplyInv'
<1>1. /\ agent.pc = "edit" /\ agent' = [agent EXCEPT !.pc = "reply"]
      /\ UNCHANGED <<up, buffer, transaction, events, commits, stale, decision, saves, decided, wanted, exempt>>
  BY DEF Edit, user
<1>2. PICK right, wrong \in SUBSET agent.ops :
        source' = [r \in Refs |->
            IF \E o \in wrong : o.ref = r THEN Garbled
            ELSE IF \E o \in right : o.ref = r THEN (CHOOSE o \in right : o.ref = r).text
            ELSE source[r]]
  BY DEF Edit
<1>3. Safe(World, Others) /\ Awaited(World, {})
  BY DEF ApplyInv
<1>4. /\ source \in [Refs -> Texts] /\ Agrees(source, World, Others)
      /\ agent \in [pc : {"idle", "edit", "reply"}, id : Nat, ops : SUBSET Op]
  BY <1>3, WorldFields, OthersFields DEF Safe, WorldTyped, OthersTyped, SourceInv
<1>5. \A r \in Refs : r \notin RefsIn(agent.ops) => source'[r] = source[r]
  BY <1>2 DEF RefsIn
<1>6. source' \in [Refs -> Texts]
  <2>1. ASSUME NEW r \in Refs PROVE source'[r] \in Texts
    <3>1. \A o \in agent.ops : o.text \in Texts
      BY <1>4, TextTypes, ApplyAssumption DEF Op, ApplyAssumption
    <3>2. Garbled \in Texts
      BY TextTypes, ApplyAssumption DEF ApplyAssumption
    <3>3. (\E o \in right : o.ref = r) => (CHOOSE o \in right : o.ref = r) \in agent.ops
      OBVIOUS
    <3>. QED BY <1>2, <1>4, <3>1, <3>2, <3>3
  <2>2. source' = [r \in Refs |-> source'[r]]
    BY <1>2
  <2>. QED BY <2>1, <2>2
<1>7. agent' \in [pc : {"idle", "edit", "reply"}, id : Nat, ops : SUBSET Op]
      /\ agent'.pc = "reply" /\ agent'.id = agent.id /\ agent'.ops = agent.ops
  BY <1>1, <1>4
<1>8. LateIn(World', Others') = LateIn(World, Others)
  BY <1>1, <1>7, WorldFields, WorldFieldsAfter, OthersFields, OthersFieldsAfter DEF LateIn
<1>9. Settled(World', Others') = Settled(World, Others)
  BY <1>1, SettledSame
<1>10. AgentInv(World, Others)
  BY <1>3 DEF Safe
<1>11. AgentInv(World', Others')
  <2>1. \A content : Agrees(content, World, Others) => Agrees(content, World', Others')
    BY <1>1, <1>9, OthersFields, OthersFieldsAfter DEF Agrees
  <2>2. events' = events /\ stale' = stale
    BY <1>1
  <2>. QED BY <1>1, <1>7, <1>9, <1>10, <2>1, <2>2, WorldFields, WorldFieldsAfter, OthersFields, OthersFieldsAfter
           DEF AgentInv
<1>12. Agrees(source', World, Others)
  <2>1. \A r \in Settled(World, Others) : r \in Refs /\ r \notin RefsIn(agent.ops)
    BY <1>1, <1>10, OthersFields DEF AgentInv, Settled
  <2>. QED BY <1>4, <1>5, <2>1 DEF Agrees
<1>13. \A e \in events : \A o \in commits[e.page].done : commits[e.page].attempt = 0 =>
          source'[o.ref] = source[o.ref] /\ (o.ref \in LateIn(World', Others') => o.ref \in LateIn(World, Others))
  <2>1. SUFFICES ASSUME NEW e \in events, NEW o \in commits[e.page].done, commits[e.page].attempt = 0
                 PROVE  source'[o.ref] = source[o.ref]
    BY <1>8
  <2>2. o.ref \in Refs /\ o.ref \notin RefsIn(agent.ops)
    BY <1>1, <1>3, <2>1, WorldFields, OthersFields, DoneApart, AgentApart
  <2>. QED BY <1>5, <2>2
<1>14. up \in BOOLEAN /\ decided \in Nat /\ (~up => events = {})
  BY DEF ApplyInv
<1>. QED BY <1>1, <1>6, <1>7, <1>11, <1>12, <1>13, <1>14, QuietStep

\* The agent has nothing left to do.
LEMMA RestsSafe ==
  ASSUME ApplyInv, agent' = Resting, stale' = {},
         UNCHANGED <<up, buffer, transaction, events, commits, decision, saves, decided, wanted, exempt>>,
         source' \in [Refs -> Texts], Agrees(source', World, Others),
         \A e \in events : \A o \in commits[e.page].done : commits[e.page].attempt = 0 => source'[o.ref] = source[o.ref]
  PROVE  ApplyInv'
<1>1. /\ agent' \in [pc : {"idle", "edit", "reply"}, id : Nat, ops : SUBSET Op]
      /\ agent'.pc = "idle" /\ agent'.id = NoEvent
  BY DEF Resting, NoEvent
<1>2. LateIn(World', Others') = {}
  BY <1>1, OthersFieldsAfter DEF LateIn
<1>3. \A e \in events : e.id # NoEvent
  BY WorldFields DEF ApplyInv, Safe, EventsInv, EventOK
<1>4. AgentInv(World', Others')
  BY <1>1, <1>3, WorldFieldsAfter, OthersFieldsAfter DEF AgentInv
<1>5. up \in BOOLEAN /\ decided \in Nat /\ (~up => events = {})
  BY DEF ApplyInv
<1>. QED BY <1>1, <1>2, <1>4, <1>5, QuietStep

LEMMA SourceFacts ==
  ASSUME ApplyInv
  PROVE  /\ source \in [Refs -> Texts] /\ Agrees(source, World, Others)
         /\ commits \in [Pages -> Commit \cup {NoCommit}] /\ IsWorld(World)
         /\ AgentInv(World, Others) /\ Safe(World, Others)
<1>1. Safe(World, Others)
  BY DEF ApplyInv
<1>2. commits \in [Pages -> Commit \cup {NoCommit}]
  BY <1>1, WorldFields DEF Safe, WorldTyped
<1>. QED BY <1>1, <1>2, WorldFields DEF Safe, WorldTyped, SourceInv

LEMMA DiesSafe == ASSUME ApplyInv, AgentDies PROVE ApplyInv'
  BY SourceFacts, RestsSafe DEF AgentDies, disk, user

LEMMA ReplyToNobodySafe ==
  ASSUME ApplyInv, agent' = Resting, agent.id \notin Ids(events) \cup Ids(stale),
         UNCHANGED <<up, source, buffer, transaction, events, commits, stale, decision, saves, decided, wanted, exempt>>
  PROVE  ApplyInv'
<1>1. stale = {}
  BY SourceFacts, OthersFields DEF AgentInv, Ids
<1>. QED BY <1>1, SourceFacts, RestsSafe

LEMMA LateReplySafe ==
  ASSUME ApplyInv, agent' = Resting, NEW d \in stale, d.id = agent.id,
         source' = Restored(source, d.content), stale' = stale \ {d},
         UNCHANGED <<up, buffer, transaction, events, commits, decision, saves, decided, wanted, exempt>>
  PROVE  ApplyInv'
<1>1. stale' = {} /\ agent.pc # "idle" /\ agent.id \notin Ids(events) /\ Agrees(d.content, World, Others)
  BY SourceFacts, OthersFields, WorldFields DEF AgentInv
<1>2. PICK q \in Pages : d.content \in [RefsOf(q) -> Texts]
  <2>1. d.content \in Contents
    BY OthersFields DEF ApplyInv, Safe, OthersTyped
  <2>. QED BY <2>1 DEF Contents
<1>3. /\ source' \in [Refs -> Texts]
      /\ \A r \in RefsOf(q) : source'[r] = d.content[r]
      /\ \A r \in Refs : r \notin RefsOf(q) => source'[r] = source[r]
  BY <1>2, SourceFacts, RestoredFacts
<1>4. Agrees(source', World, Others)
  <2>1. Settled(World, Others) \subseteq Refs
    BY DEF Settled
  <2>. QED BY <1>1, <1>2, <1>3, <2>1, SourceFacts DEF Agrees
<1>5. RefsOf(q) \subseteq LateIn(World, Others)
  BY <1>1, <1>2, WorldFields, OthersFields DEF LateIn
<1>6. \A e \in events : \A o \in commits[e.page].done : commits[e.page].attempt = 0 => source'[o.ref] = source[o.ref]
  BY <1>3, <1>5, SourceFacts, WorldFields, DoneApart
<1>. QED BY <1>1, <1>3, <1>4, <1>6, RestsSafe

LEMMA RolledBackFacts ==
  ASSUME ApplyInv, NEW p
  PROVE  /\ RolledBack(p) \in [Refs -> Texts] /\ Agrees(RolledBack(p), World, Others)
         /\ \A r \in Refs : p \in Pages /\ r \notin RefsOf(p) => RolledBack(p)[r] = source[r]
         /\ TransactionAfter(p) \in {transaction, NoTransaction}
         /\ p \in Pages => TransactionAfter(p).page # p
<1>1. /\ source \in [Refs -> Texts] /\ Agrees(source, World, Others)
      /\ Safe(World, Others)
  BY SourceFacts
<1>2. /\ transaction # NoTransaction => /\ transaction.content \in [RefsOf(transaction.page) -> Texts]
                                        /\ Agrees(transaction.content, World, Others)
  BY <1>1, WorldFields DEF Safe, SourceInv
<1>3. CASE RollsBack(p) /\ transaction.ids \cap Ids(buffer) # {}
  <2>1. RolledBack(p) = Restored(source, transaction.content)
    BY <1>3 DEF RolledBack
  <2>2. transaction # NoTransaction /\ (p \in Pages => transaction.page = p)
    BY <1>3, ApplyAssumption DEF RollsBack, ApplyAssumption
  <2>3. /\ RolledBack(p) \in [Refs -> Texts]
        /\ \A r \in RefsOf(transaction.page) : RolledBack(p)[r] = transaction.content[r]
        /\ \A r \in Refs : r \notin RefsOf(transaction.page) => RolledBack(p)[r] = source[r]
    BY <1>1, <1>2, <2>1, <2>2, RestoredFacts
  <2>4. Agrees(RolledBack(p), World, Others)
    <3>1. Settled(World, Others) \subseteq Refs
      BY DEF Settled
    <3>. QED BY <1>1, <1>2, <2>2, <2>3, <3>1 DEF Agrees
  <2>5. TransactionAfter(p) = NoTransaction
    BY <1>3 DEF TransactionAfter
  <2>. QED BY <1>1, <2>2, <2>3, <2>4, <2>5, TxPage DEF Safe
<1>4. CASE ~(RollsBack(p) /\ transaction.ids \cap Ids(buffer) # {})
  <2>1. RolledBack(p) = source
    BY <1>4 DEF RolledBack
  <2>2. TransactionAfter(p) \in {transaction, NoTransaction}
    BY DEF TransactionAfter
  <2>3. p \in Pages => TransactionAfter(p).page # p
    BY <1>1, TxPage DEF TransactionAfter, RollsBack, Safe
  <2>. QED BY <1>1, <2>1, <2>2, <2>3
<1>. QED BY <1>3, <1>4

LEMMA AgentSame ==
  ASSUME ApplyInv, UNCHANGED <<agent, stale, events, wanted, exempt, buffer>>
  PROVE  AgentInv(World', Others') /\ LateIn(World', Others') = LateIn(World, Others)
<1>1. Settled(World', Others') = Settled(World, Others)
  BY SettledSame
<1>2. \A content : Agrees(content, World, Others) => Agrees(content, World', Others')
  BY <1>1, OthersFields, OthersFieldsAfter DEF Agrees
<1>3. AgentInv(World, Others)
  BY SourceFacts
<1>4. AgentInv(World', Others')
  BY <1>1, <1>2, <1>3, WorldFields, WorldFieldsAfter, OthersFields, OthersFieldsAfter DEF AgentInv
<1>5. LateIn(World', Others') = LateIn(World, Others)
  BY WorldFields, WorldFieldsAfter, OthersFields, OthersFieldsAfter DEF LateIn
<1>. QED BY <1>4, <1>5

LEMMA AgentTyped ==
  ASSUME ApplyInv
  PROVE  /\ agent \in [pc : {"idle", "edit", "reply"}, id : Nat, ops : SUBSET Op]
         /\ stale \subseteq [id : Nat, content : Contents] /\ IsFiniteSet(stale)
         /\ saves \in 0 .. MaxSaves /\ wanted \in [Refs -> 0 .. MaxSaves] /\ exempt \subseteq Refs
         /\ up \in BOOLEAN /\ decided \in Nat /\ (~up => events = {})
  BY OthersFields DEF ApplyInv, Safe, OthersTyped

LEMMA RollBackSafe ==
  ASSUME ApplyInv, NEW p \in Pages, RollBack(p)
  PROVE  ApplyInv'
<1>1. /\ up /\ decided' = decided + 1 /\ p \in decision
      /\ source' = RolledBack(p) /\ transaction' = TransactionAfter(p) /\ decision' = decision \ {p}
      /\ UNCHANGED <<up, buffer, events, commits, stale, agent, saves, wanted, exempt>>
  BY DEF RollBack, Decides
<1>2. AgentInv(World', Others') /\ LateIn(World', Others') = LateIn(World, Others)
  BY <1>1, AgentSame
<1>3. \A e \in events : \A o \in commits[e.page].done : commits[e.page].attempt = 0 => source'[o.ref] = source[o.ref]
  <2>1. SUFFICES ASSUME NEW e \in events, NEW o \in commits[e.page].done, commits[e.page].attempt = 0
                 PROVE  source'[o.ref] = source[o.ref]
    OBVIOUS
  <2>2. o.ref \in Refs /\ o.ref \in RefsOf(e.page) /\ e.page # p
    BY <1>1, <2>1, SourceFacts, WorldFields, DoneApart
  <2>. QED BY <1>1, <2>2, RolledBackFacts, PagesApart
<1>4. /\ source' \in [Refs -> Texts] /\ Agrees(source', World, Others)
      /\ transaction' \in {transaction, NoTransaction}
  BY <1>1, RolledBackFacts
<1>. QED BY <1>1, <1>2, <1>3, <1>4, AgentTyped, QuietStep

LEMMA RestartSafe ==
  ASSUME ApplyInv, Restart
  PROVE  ApplyInv'
<1>1. /\ ~up /\ up' = TRUE
      /\ source' = RolledBack(NoPage) /\ transaction' = TransactionAfter(NoPage)
      /\ UNCHANGED <<buffer, events, commits, stale, agent, decision, saves, decided, wanted, exempt>>
  BY DEF Restart, user
<1>2. AgentInv(World', Others') /\ LateIn(World', Others') = LateIn(World, Others)
  BY <1>1, AgentSame
<1>3. /\ source' \in [Refs -> Texts] /\ Agrees(source', World, Others)
      /\ transaction' \in {transaction, NoTransaction}
  BY <1>1, RolledBackFacts
<1>4. events = {}
  BY <1>1, AgentTyped
<1>. QED BY <1>1, <1>2, <1>3, <1>4, AgentTyped, QuietStep

LEMMA CrashSafe ==
  ASSUME ApplyInv, Crash
  PROVE  ApplyInv'
<1>1. /\ up' = FALSE /\ events' = {} /\ commits' = [p \in Pages |-> NoCommit] /\ stale' = {}
      /\ UNCHANGED <<source, buffer, transaction, agent, decision, saves, decided, wanted, exempt>>
  BY DEF Crash, disk, user
<1> DEFINE w == World
           g == Others
           v == World'
           h == Others'
<1>2. /\ v.src = w.src /\ v.buf = w.buf /\ v.tx = w.tx /\ v.ask = w.ask
      /\ v.ev = {} /\ v.cm = [p \in Pages |-> NoCommit]
  BY <1>1, WorldFields, WorldFieldsAfter
<1>3. /\ h.wanted = g.wanted /\ h.exempt = g.exempt /\ h.saves = g.saves /\ h.agent = g.agent /\ h.stale = {}
  BY <1>1, OthersFields, OthersFieldsAfter
<1>4. Safe(w, g)
  BY DEF ApplyInv
<1>5. Settled(v, h) = Settled(w, g)
  BY <1>1, SettledSame
<1> HIDE DEF w, g, v, h
<1>6. \A content : Agrees(content, w, g) => Agrees(content, v, h)
  BY <1>3, <1>5 DEF Agrees
<1>7. WorldTyped(v)
  <2>1. IsFiniteSet({})
    BY FS_EmptySet
  <2>. QED BY <1>2, <1>4, <2>1 DEF Safe, WorldTyped
<1>8. OthersTyped(h)
  <2>1. IsFiniteSet({})
    BY FS_EmptySet
  <2>. QED BY <1>3, <1>4, <2>1 DEF Safe, OthersTyped
<1>9. BufferInv(v, h) /\ SourceInv(v, h)
  BY <1>2, <1>3, <1>4, <1>6 DEF Safe, BufferInv, SourceInv
<1>10. CommitsInv(v, h) /\ EventsInv(v, h) /\ Awaited(v, {})
  BY <1>2 DEF CommitsInv, EventsInv, Awaited, NoCommit
<1>11. AgentInv(v, h)
  BY <1>2, <1>3, <1>4, <1>5 DEF Safe, AgentInv
<1>12. Safe(World', Others') /\ Awaited(World', {})
  BY <1>7, <1>8, <1>9, <1>10, <1>11 DEF Safe, v, h
<1>. QED BY <1>1, <1>12, AgentTyped DEF ApplyInv

-----------------------------------------------------------------------------
(* A save.                                                                 *)

\* An entry of the buffer after save n of refs on page p.
Updated(e, p, refs, n) ==
  [id |-> e.id, page |-> e.page,
   ops |-> [r \in DOMAIN e.ops |-> IF e.page = p /\ r \in refs THEN n ELSE e.ops[r]]]

SavedNow(p, refs, n) == [id |-> n, page |-> p, ops |-> [r \in refs |-> n]]

\* Those of refs that were not staged, and their entry.
Unstaged(buf, p, refs) == {r \in refs : ~\E e \in buf : e.page = p /\ r \in DOMAIN e.ops}

LastEntry(buf, p, refs, n) == [id |-> n, page |-> p, ops |-> [r \in Unstaged(buf, p, refs) |-> n]]

LEMMA UpdatedFacts ==
  ASSUME NEW e \in Entry, NEW p, NEW refs, NEW n \in 1 .. MaxSaves
  PROVE  LET u == Updated(e, p, refs, n)
         IN  /\ u \in Entry /\ u.id = e.id /\ u.page = e.page /\ DOMAIN u.ops = DOMAIN e.ops
             /\ \A r \in DOMAIN e.ops : u.ops[r] = IF e.page = p /\ r \in refs THEN n ELSE e.ops[r]
<1> DEFINE ops == [r \in DOMAIN e.ops |-> IF e.page = p /\ r \in refs THEN n ELSE e.ops[r]]
<1>1. ops \in [DOMAIN e.ops -> 1 .. MaxSaves] /\ DOMAIN e.ops \in SUBSET Refs
  BY EntryFacts
<1>2. e.id \in 1 .. MaxSaves /\ e.page \in Pages
  BY EntryFacts
<1>3. Updated(e, p, refs, n) = [id |-> e.id, page |-> e.page, ops |-> ops]
  BY DEF Updated
<1>4. ops = [r \in DOMAIN e.ops |-> ops[r]] /\ DOMAIN ops = DOMAIN e.ops
      /\ \A r \in DOMAIN e.ops : ops[r] = IF e.page = p /\ r \in refs THEN n ELSE e.ops[r]
  OBVIOUS
<1> HIDE DEF ops
<1>5. Updated(e, p, refs, n) \in Entry
  BY <1>1, <1>2, <1>3, EntryIs
<1>. QED BY <1>3, <1>4, <1>5

LEMMA MergedFacts ==
  ASSUME NEW buf, buf \subseteq Entry, NEW p \in Pages, NEW refs, refs \subseteq Refs, NEW n \in 1 .. MaxSaves
  PROVE  /\ \A e \in Merged(buf, SavedNow(p, refs, n)) :
              \/ \E f \in buf : e = Updated(f, p, refs, n)
              \/ e = LastEntry(buf, p, refs, n) /\ Unstaged(buf, p, refs) # {}
         /\ \A f \in buf : Updated(f, p, refs, n) \in Merged(buf, SavedNow(p, refs, n))
         /\ Unstaged(buf, p, refs) # {} => LastEntry(buf, p, refs, n) \in Merged(buf, SavedNow(p, refs, n))
<1> DEFINE new   == SavedNow(p, refs, n)
           fresh == Unstaged(buf, p, refs)
           last  == LastEntry(buf, p, refs, n)
           upd(e) == [e EXCEPT !.ops = [r \in DOMAIN e.ops |->
                        IF e.page = new.page /\ r \in DOMAIN new.ops THEN new.ops[r] ELSE e.ops[r]]]
           has(r) == \E e \in buf : e.page = new.page /\ r \in DOMAIN e.ops
           most  == {r \in DOMAIN new.ops : ~has(r)}
<1>1. new.page = p /\ new.id = n /\ DOMAIN new.ops = refs /\ \A r \in refs : new.ops[r] = n
  BY DEF SavedNow
<1>2. most = fresh
  <2>1. ASSUME NEW r PROVE has(r) <=> \E e \in buf : e.page = p /\ r \in DOMAIN e.ops
    BY <1>1
  <2>2. most = {r \in refs : ~has(r)}
    BY <1>1
  <2>. HIDE DEF most, new
  <2>. QED BY <2>1, <2>2 DEF Unstaged
<1>3. [new EXCEPT !.ops = [r \in fresh |-> new.ops[r]]] = last
  <2>1. [r \in fresh |-> new.ops[r]] = [r \in fresh |-> n]
    <3>1. fresh \subseteq refs
      BY DEF Unstaged
    <3>. HIDE DEF fresh, new
    <3>. QED BY <1>1, <3>1
  <2>2. new = [id |-> n, page |-> p, ops |-> new.ops]
    BY DEF SavedNow
  <2>3. [new EXCEPT !.ops = [r \in fresh |-> n]] = last
    BY <2>2 DEF LastEntry
  <2>. QED BY <2>1, <2>3
<1>4. ASSUME NEW e \in buf PROVE upd(e) = Updated(e, p, refs, n)
  <2>1. e = [id |-> e.id, page |-> e.page, ops |-> e.ops]
    BY EntryFacts
  <2>2. [r \in DOMAIN e.ops |-> IF e.page = new.page /\ r \in DOMAIN new.ops THEN new.ops[r] ELSE e.ops[r]]
          = [r \in DOMAIN e.ops |-> IF e.page = p /\ r \in refs THEN n ELSE e.ops[r]]
    BY <1>1
  <2>3. upd(e) = [e EXCEPT !.ops = [r \in DOMAIN e.ops |-> IF e.page = p /\ r \in refs THEN n ELSE e.ops[r]]]
    BY <2>2
  <2>. QED BY <2>1, <2>3 DEF Updated
<1>5. Merged(buf, new) = {upd(e) : e \in buf}
                           \cup (IF most = {} THEN {} ELSE {[new EXCEPT !.ops = [r \in most |-> new.ops[r]]]})
  BY DEF Merged
<1>6. Merged(buf, new) = {upd(e) : e \in buf} \cup (IF fresh = {} THEN {} ELSE {last})
  BY <1>2, <1>3, <1>5
<1> HIDE DEF new, fresh, last, upd, most
<1>7. \A e \in Merged(buf, new) : (\E f \in buf : e = Updated(f, p, refs, n)) \/ (e = last /\ fresh # {})
  BY <1>4, <1>6
<1>8. \A f \in buf : Updated(f, p, refs, n) \in Merged(buf, new)
  BY <1>4, <1>6
<1>9. fresh # {} => last \in Merged(buf, new)
  BY <1>6
<1>. QED BY <1>7, <1>8, <1>9 DEF new, fresh, last

\* The entries that commit c has sent, after a save.
LEMMA SavedSent ==
  ASSUME ApplyInv, NEW p \in Pages, NEW refs, refs \subseteq RefsOf(p), saves < MaxSaves,
         NEW q \in Pages, commits[q].active, NEW f \in commits[q].batch,
         NEW e, e \in Merged(buffer, SavedNow(p, refs, saves + 1)), e.id = f.id,
         NEW ex,
         \A r \in Refs : r \notin refs /\ r \in exempt => r \in ex,
         \A r \in refs : (\E d \in Staged(p, buffer) :
                            r \in DOMAIN d.ops /\ commits[p].active /\ d.id \in Ids(commits[p].batch)) => r \in ex
  PROVE  /\ e.page = q
         /\ \A r \in DOMAIN e.ops : r \in ex \/ (r \in DOMAIN f.ops /\ f.ops[r] = e.ops[r])
<1> DEFINE n == saves + 1
<1>1. /\ buffer \subseteq Entry /\ BufferInv(World, Others) /\ saves \in Nat /\ n \in 1 .. MaxSaves
  BY SourceFacts, AgentTyped, WorldFields, ApplyAssumption DEF Safe, WorldTyped, ApplyAssumption
<1>2. CommitOK(commits[q], q, World, Others) /\ commits[q].batch \subseteq Entry
  BY SourceFacts, WorldFields, SafeFits
<1>3. /\ f.id <= saves /\ f.id \in Nat
      /\ \A d \in buffer : d.id = f.id =>
           d.page = q /\ \A r \in DOMAIN d.ops : r \in exempt \/ (r \in DOMAIN f.ops /\ f.ops[r] = d.ops[r])
  BY <1>1, <1>2, WorldFields, OthersFields, EntryFacts DEF CommitOK, BatchOK
<1>4. \/ \E d \in buffer : e = Updated(d, p, refs, n)
      \/ e.id = n
  <2>1. refs \subseteq Refs
    BY DEF RefsOf
  <2>2. (\E d \in buffer : e = Updated(d, p, refs, n)) \/ e = LastEntry(buffer, p, refs, n)
    BY <1>1, <2>1, MergedFacts
  <2>. QED BY <2>2 DEF LastEntry
<1>5. PICK d \in buffer : e = Updated(d, p, refs, n)
  BY <1>1, <1>3, <1>4
<1>6. /\ e.id = d.id /\ e.page = d.page /\ DOMAIN e.ops = DOMAIN d.ops
      /\ \A r \in DOMAIN d.ops : e.ops[r] = IF d.page = p /\ r \in refs THEN n ELSE d.ops[r]
  BY <1>1, <1>5, UpdatedFacts
<1>7. /\ d.page = q
      /\ \A r \in DOMAIN d.ops : r \in exempt \/ (r \in DOMAIN f.ops /\ f.ops[r] = d.ops[r])
  BY <1>3, <1>6
<1>8. ASSUME NEW r \in DOMAIN e.ops PROVE r \in ex \/ (r \in DOMAIN f.ops /\ f.ops[r] = e.ops[r])
  <2>1. r \in RefsOf(d.page) /\ r \in Refs /\ r \in DOMAIN d.ops
    BY <1>1, <1>6, WorldFields DEF BufferInv, RefsOf
  <2>2. CASE r \notin refs
    BY <1>6, <1>7, <2>1, <2>2
  <2>3. CASE r \in refs
    <3>1. d.page = p
      BY <2>1, <2>3, PagesApart
    <3>2. d \in Staged(p, buffer) /\ d.id \in Ids(commits[p].batch) /\ commits[p].active
      BY <1>6, <1>7, <3>1 DEF Staged, Ids
    <3>. QED BY <2>1, <2>3, <3>2
  <2>. QED BY <2>2, <2>3
<1>. QED BY <1>6, <1>7, <1>8

LEMMA SaveSafe ==
  ASSUME ApplyInv, NEW p \in Pages, NEW refs \in SUBSET RefsOf(p), Save(p, refs)
  PROVE  ApplyInv'
<1> DEFINE n == saves + 1
           fresh == Unstaged(buffer, p, refs)
           last == LastEntry(buffer, p, refs, n)
           inApply == {r \in refs : \E e \in Staged(p, buffer) :
                         r \in DOMAIN e.ops /\ commits[p].active /\ e.id \in Ids(commits[p].batch)}
           w == World
           g == Others
           v == World'
           h == Others'
<1>1. /\ saves < MaxSaves /\ saves' = n /\ buffer' = Merged(buffer, SavedNow(p, refs, n))
      /\ wanted' = [r \in Refs |-> IF r \in refs THEN n ELSE wanted[r]]
      /\ exempt' = (exempt \ refs) \cup inApply
      /\ UNCHANGED <<up, source, transaction, events, commits, stale, agent, decision, decided>>
  BY DEF Save, SavedNow
<1>2. /\ saves \in Nat /\ n \in 1 .. MaxSaves /\ refs \subseteq Refs
      /\ wanted \in [Refs -> 0 .. MaxSaves] /\ exempt \subseteq Refs
  BY <1>1, AgentTyped, ApplyAssumption DEF ApplyAssumption, RefsOf
<1>3. /\ Safe(w, g) /\ buffer \subseteq Entry /\ \A e, f \in buffer : e.id = f.id => e = f
  BY SourceFacts, WorldFields DEF Safe, WorldTyped
<1>4. \A e \in buffer : /\ DOMAIN e.ops \subseteq RefsOf(e.page) /\ e.id <= saves
                        /\ \A r \in DOMAIN e.ops : e.ops[r] = wanted[r]
                        /\ \A f \in buffer, r \in Refs : r \in DOMAIN e.ops /\ r \in DOMAIN f.ops => e = f
  BY <1>3, WorldFields, OthersFields DEF Safe, BufferInv
<1>5. /\ \A e \in buffer' : (\E f \in buffer : e = Updated(f, p, refs, n)) \/ (e = last /\ fresh # {})
      /\ \A f \in buffer : Updated(f, p, refs, n) \in buffer'
      /\ fresh # {} => last \in buffer'
  BY <1>1, <1>2, <1>3, MergedFacts
<1>6. \A f \in buffer :
        LET u == Updated(f, p, refs, n)
        IN  /\ u \in Entry /\ u.id = f.id /\ u.page = f.page /\ DOMAIN u.ops = DOMAIN f.ops
            /\ \A r \in DOMAIN f.ops : u.ops[r] = IF f.page = p /\ r \in refs THEN n ELSE f.ops[r]
  BY <1>2, <1>3, UpdatedFacts
<1>7. /\ last \in Entry /\ last.id = n /\ last.page = p /\ DOMAIN last.ops = fresh /\ fresh \subseteq refs
      /\ \A r \in fresh : last.ops[r] = n
  <2>1. fresh \in SUBSET Refs /\ [r \in fresh |-> n] \in [fresh -> 1 .. MaxSaves] /\ fresh \subseteq refs
    BY <1>2 DEF Unstaged
  <2>2. last = [id |-> n, page |-> p, ops |-> [r \in fresh |-> n]]
    BY DEF LastEntry
  <2> HIDE DEF fresh, last
  <2>. QED BY <1>2, <2>1, <2>2, EntryIs
<1>8. /\ v.src = w.src /\ v.tx = w.tx /\ v.ev = w.ev /\ v.cm = w.cm /\ v.ask = w.ask
      /\ v.buf = buffer' /\ w.buf = buffer
      /\ h.wanted = wanted' /\ h.exempt = exempt' /\ h.saves = n /\ h.stale = g.stale /\ h.agent = g.agent
      /\ g.wanted = wanted /\ g.exempt = exempt /\ g.saves = saves
  BY <1>1, WorldFields, WorldFieldsAfter, OthersFields, OthersFieldsAfter
<1> HIDE DEF fresh, last
<1>9. \A r \in Refs : r \in refs \/ IsStaged(r, buffer) => IsStaged(r, buffer')
  <2>1. ASSUME NEW r \in Refs, IsStaged(r, buffer) PROVE IsStaged(r, buffer')
    BY <1>5, <1>6, <2>1 DEF IsStaged
  <2>2. ASSUME NEW r \in refs, ~IsStaged(r, buffer) PROVE IsStaged(r, buffer')
    <3>1. r \in fresh
      BY <2>2 DEF fresh, Unstaged, IsStaged
    <3>. QED BY <1>5, <1>7, <3>1 DEF IsStaged
  <2>. QED BY <1>2, <2>1, <2>2
<1>10. /\ Settled(v, h) \subseteq Settled(w, g)
       /\ \A r \in Settled(v, h) : h.wanted[r] = g.wanted[r]
  BY <1>1, <1>8, <1>9 DEF Settled
<1>11. BufferInv(v, h)
  <2> SUFFICES ASSUME NEW e \in buffer'
               PROVE  /\ DOMAIN e.ops \subseteq RefsOf(e.page) /\ e.id <= n
                      /\ \A r \in DOMAIN e.ops : e.ops[r] = wanted'[r]
                      /\ \A f \in buffer', r \in Refs : r \in DOMAIN e.ops /\ r \in DOMAIN f.ops => e = f
    BY <1>8 DEF BufferInv
  <2>1. CASE \E d \in buffer : e = Updated(d, p, refs, n)
    <3>1. PICK d \in buffer : e = Updated(d, p, refs, n)
      BY <2>1
    <3>2. DOMAIN e.ops \subseteq RefsOf(e.page) /\ d.id <= saves /\ e.id = d.id /\ d.id \in Nat
      BY <1>3, <1>4, <1>6, <3>1, EntryFacts
    <3>3. \A r \in DOMAIN e.ops : e.ops[r] = wanted'[r]
      <4> SUFFICES ASSUME NEW r \in DOMAIN e.ops PROVE e.ops[r] = wanted'[r]
        OBVIOUS
      <4>1. r \in DOMAIN d.ops /\ r \in RefsOf(d.page) /\ r \in Refs
        BY <1>4, <1>6, <3>1 DEF RefsOf
      <4>2. r \in refs => d.page = p
        BY <4>1, PagesApart
      <4>. QED BY <1>1, <1>4, <1>6, <3>1, <4>1, <4>2
    <3>4. ASSUME NEW f \in buffer', NEW r \in Refs, r \in DOMAIN e.ops, r \in DOMAIN f.ops PROVE e = f
      <4>1. r \in DOMAIN d.ops /\ r \in RefsOf(d.page)
        BY <1>4, <1>6, <3>1, <3>4
      <4>2. ASSUME f = last PROVE FALSE
        <5>1. r \in fresh /\ r \in refs
          BY <1>7, <3>4, <4>2
        <5>2. d.page = p
          BY <4>1, <5>1, PagesApart
        <5>. QED BY <4>1, <5>1, <5>2 DEF fresh, Unstaged
      <4>3. PICK d2 \in buffer : f = Updated(d2, p, refs, n)
        BY <1>5, <4>2
      <4>4. d2 = d
        BY <1>4, <1>6, <3>4, <4>1, <4>3
      <4>. QED BY <3>1, <4>3, <4>4
    <3>. QED BY <1>2, <3>2, <3>3, <3>4
  <2>2. CASE e = last
    <3>1. DOMAIN e.ops \subseteq RefsOf(e.page) /\ e.id <= n /\ \A r \in DOMAIN e.ops : e.ops[r] = wanted'[r]
      BY <1>1, <1>2, <1>7, <2>2
    <3>2. ASSUME NEW f \in buffer', NEW r \in Refs, r \in DOMAIN e.ops, r \in DOMAIN f.ops PROVE e = f
      <4>1. r \in fresh /\ r \in refs
        BY <1>7, <2>2, <3>2
      <4>2. ASSUME NEW d \in buffer, f = Updated(d, p, refs, n) PROVE FALSE
        <5>1. r \in DOMAIN d.ops /\ r \in RefsOf(d.page)
          BY <1>4, <1>6, <3>2, <4>2
        <5>2. d.page = p
          BY <4>1, <5>1, PagesApart
        <5>. QED BY <4>1, <5>1, <5>2 DEF fresh, Unstaged
      <4>. QED BY <1>5, <2>2, <4>2
    <3>. QED BY <3>1, <3>2
  <2>. QED BY <1>5, <2>1, <2>2
<1>12. WorldTyped(v)
  <2>1. buffer' \subseteq Entry
    BY <1>5, <1>6, <1>7
  <2>2. ASSUME NEW e \in buffer', NEW f \in buffer', e.id = f.id PROVE e = f
    <3>1. \A d \in buffer : Updated(d, p, refs, n).id # n
      BY <1>2, <1>3, <1>4, <1>6, EntryFacts
    <3>. QED BY <1>3, <1>5, <1>6, <1>7, <2>2, <3>1
  <2>. QED BY <1>3, <1>8, <2>1, <2>2 DEF Safe, WorldTyped
<1>13. OthersTyped(h)
  <2>1. wanted' \in [Refs -> 0 .. MaxSaves] /\ exempt' \subseteq Refs /\ n \in 0 .. MaxSaves
    BY <1>1, <1>2
  <2>. QED BY <1>3, <1>8, <2>1 DEF Safe, OthersTyped
<1>14. /\ \A q : Carries(q, w, g, v, h)
       /\ \A content : Agrees(content, w, g) => Agrees(content, v, h)
  BY <1>10, NoneSettled
<1>15. SourceInv(v, h)
  BY <1>3, <1>8, <1>14 DEF Safe, SourceInv
<1>16. CommitsInv(v, h)
  <2> SUFFICES ASSUME NEW q \in Pages, commits[q].active PROVE CommitOK(commits[q], q, v, h)
    BY <1>8, WorldFields DEF CommitsInv
  <2>1. CommitOK(commits[q], q, w, g) /\ commits[q].batch \subseteq Entry
    BY <1>3, WorldFields, SafeFits
  <2>2. StillSent(commits[q], q, v, h)
    <3> SUFFICES ASSUME NEW e \in buffer', NEW f \in commits[q].batch, e.id = f.id
                 PROVE  /\ e.page = q
                        /\ \A r \in DOMAIN e.ops : r \in exempt' \/ (r \in DOMAIN f.ops /\ f.ops[r] = e.ops[r])
      BY <1>8 DEF StillSent
    <3>1. /\ \A r \in Refs : r \notin refs /\ r \in exempt => r \in exempt'
          /\ \A r \in refs : (\E d \in Staged(p, buffer) :
               r \in DOMAIN d.ops /\ commits[p].active /\ d.id \in Ids(commits[p].batch)) => r \in exempt'
      BY <1>1
    <3>. QED BY <1>1, <3>1, SavedSent
  <2>3. v.tx.page = q => v.tx.id = commits[q].tx
    BY <1>8, <2>1 DEF CommitOK
  <2>. QED BY <1>2, <1>8, <1>14, <2>1, <2>2, <2>3, CommitKept
<1>17. LateIn(v, h) = LateIn(w, g)
  BY <1>8 DEF LateIn
<1>18. EventsInv(v, h)
  <2>1. \A e, f \in v.ev : e.id = f.id => e = f
    BY <1>3, <1>8 DEF Safe, EventsInv
  <2>2. ASSUME NEW e \in v.ev PROVE EventOK(e, v, h)
    BY <1>3, <1>8, <1>14, <1>17, EventApart
  <2>. QED BY <2>1, <2>2 DEF EventsInv
<1>19. AgentInv(v, h)
  <2> HIDE DEF v, h, w, g
  <2>. QED BY <1>3, <1>8, <1>10, <1>14 DEF Safe, AgentInv
<1>20. Awaited(v, {})
  BY <1>8, AwaitedSame DEF ApplyInv
<1>21. Safe(v, h)
  BY <1>11, <1>12, <1>13, <1>15, <1>16, <1>18, <1>19 DEF Safe
<1>. QED BY <1>1, <1>20, <1>21, AgentTyped DEF ApplyInv

-----------------------------------------------------------------------------
(* The steps that are a turn of an apply: the world that the turn starts    *)
(* from is as safe as the state, and so is the one that it ends in.         *)

\* FailuresUndone, of one step.
Undone ==
  \A p \in Pages :
    commits[p].active /\ commits[p].attempt = 0 /\ ~commits'[p].active /\ p \notin decision' /\ up'
    => \A e \in commits[p].batch, r \in Refs :
         (r \in DOMAIN e.ops /\ e.id \in Ids(buffer') /\ source'[r] = e.ops[r])
         => commits[p].before[r] = e.ops[r]

LEMMA TurnSafe ==
  ASSUME ApplyInv, NEW v, Becomes(v), Safe(v, Others'), Awaited(v, {}), up, up' = up, decided' \in Nat
  PROVE  ApplyInv'
<1>1. Safe(World', Others') /\ Awaited(World', {})
  BY WorldBecomes
<1>. QED BY <1>1 DEF ApplyInv

LEMMA OtherPagesKept ==
  ASSUME NEW w, NEW p, DOMAIN w.cm = Pages, NEW v, Turns(w, v, p), NEW q \in Pages, q # p
  PROVE  v.cm[q] = w.cm[q]
<1>1. \E x : v.cm = [w.cm EXCEPT ![p] = x]
  BY DEF Turns, Ends, GoesOn, Accepts
<1>. QED BY <1>1

LEMMA PageTurnUndone ==
  ASSUME NEW w, NEW g, Safe(w, g), NEW p \in Pages, w.cm[p].active, w.cm = commits,
         NEW v, Turns(w, v, p), Becomes(v)
  PROVE  Undone
<1> SUFFICES ASSUME NEW q \in Pages, commits[q].active, commits[q].attempt = 0, ~commits'[q].active, q \notin decision',
                    NEW e \in commits[q].batch, NEW r \in Refs,
                    r \in DOMAIN e.ops, e.id \in Ids(buffer'), source'[r] = e.ops[r]
             PROVE  commits[q].before[r] = e.ops[r]
  BY DEF Undone
<1>1. commits' = v.cm /\ decision' = v.ask /\ buffer' = v.buf /\ source' = v.src
  BY DEF Becomes
<1>2. DOMAIN w.cm = Pages
  BY DEF Safe, WorldTyped
<1>3. q = p
  BY <1>1, <1>2, OtherPagesKept
<1>4. ~v.cm[p].active /\ p \notin v.ask /\ e.id \in Ids(v.buf) /\ v.src[r] = e.ops[r]
  BY <1>1, <1>3
<1>5. w.cm[p].attempt = 0 /\ e \in w.cm[p].batch
  BY <1>3
<1>6. w.cm[p].before[r] = e.ops[r]
  BY <1>4, <1>5, TurnUndone
<1>. QED BY <1>3, <1>6

LEMMA IdleUndone == ASSUME UNCHANGED commits PROVE Undone
  BY DEF Undone

\* A page waits for one event.
LEMMA OneEvent ==
  ASSUME NEW w, NEW g, Safe(w, g), NEW e \in w.ev
  PROVE  {f \in w.ev : f.page = e.page} = {e}
<1>1. \A f \in w.ev : f.page = e.page => f = e
  BY DEF Safe, EventsInv, EventOK
<1>. QED BY <1>1

LEMMA StateFresh ==
  ASSUME ApplyInv
  PROVE  NewId \in Nat \ {0} /\ NewId \notin Ids(events) /\ NewId \notin Ids(stale) /\ NewId # agent.id
<1>1. IsFiniteSet(events) /\ IsFiniteSet(stale)
  BY SourceFacts, AgentTyped, WorldFields DEF Safe, WorldTyped
<1>. QED BY <1>1, NewIdFresh

\* What page p's apply waits for.
EventsOf(p) == {e \in events : e.page = p}

\* What is kept of an event that the agent may still answer.
LEMMA TombstoneFacts ==
  ASSUME ApplyInv, NEW p \in Pages
  PROVE  \/ /\ Tombstones(EventsOf(p)) = stale
            /\ agent.id \in Ids(events) <=> agent.id \in Ids(events \ EventsOf(p))
         \/ \E e \in EventsOf(p) :
              /\ e.id = agent.id /\ stale = {} /\ agent.id \notin Ids(events \ EventsOf(p))
              /\ Tombstones(EventsOf(p)) = {[id |-> e.id, content |-> e.content]}
<1> DEFINE es == EventsOf(p)
<1>1. Safe(World, Others) /\ \A e, f \in events : e.id = f.id => e = f
  BY SourceFacts, WorldFields DEF Safe, EventsInv
<1>2. CASE \E e \in es : e.id = agent.id
  <2>1. PICK e \in es : e.id = agent.id
    BY <1>2
  <2>2. es = {e}
    BY <1>1, <2>1, WorldFields, OneEvent DEF EventsOf
  <2>3. {f \in es : f.id = agent.id} = {e}
    BY <2>1, <2>2
  <2>4. stale = {}
    <3>1. e \in events
      BY <2>1 DEF EventsOf
    <3>2. \A d \in stale : d.id = agent.id /\ d.id \notin Ids(events)
      BY SourceFacts, WorldFields, OthersFields DEF AgentInv
    <3>. QED BY <2>1, <3>1, <3>2 DEF Ids
  <2>5. Tombstones(es) = {[id |-> e.id, content |-> e.content]}
    BY <2>3, <2>4 DEF Tombstones
  <2>6. agent.id \notin Ids(events \ es)
    BY <1>1, <2>1, <2>2 DEF Ids, EventsOf
  <2>. QED BY <2>1, <2>2, <2>4, <2>5, <2>6
<1>3. CASE ~\E e \in es : e.id = agent.id
  <2>1. {f \in es : f.id = agent.id} = {}
    BY <1>3
  <2>2. Tombstones(es) = stale
    BY <2>1 DEF Tombstones
  <2>3. agent.id \in Ids(events) <=> agent.id \in Ids(events \ es)
    BY <1>3 DEF Ids
  <2>. QED BY <2>2, <2>3
<1>. QED BY <1>2, <1>3

\* The answer has come, and the agent has nothing else to do.
LEMMA AnsweredTurn ==
  ASSUME NEW w, NEW g, NEW p, Turning(w, g, p), NEW v, Turns(w, v, p),
         g.agent.pc = "idle", g.stale = {}, w.cm[p].attempt = 0 => p \notin w.ask
  PROVE  Safe(v, g) /\ Awaited(v, {})
<1>1. LateIn(w, g) = {}
  BY DEF LateIn
<1>2. CASE Ends(w, v, p)
  BY <1>2, EndsTurn
<1>3. CASE \E d, ops : GoesOn(w, v, p, d, ops) /\ Onward(w.cm[p], d, ops)
  <2>1. PICK d, ops : GoesOn(w, v, p, d, ops) /\ Onward(w.cm[p], d, ops)
    BY <1>3
  <2>2. d.attempt = 0 => p \notin w.ask /\ \A o \in d.done : o.ref \notin LateIn(w, g)
    BY <1>1, <2>1 DEF Onward
  <2>. QED BY <2>1, <2>2, GoesOnTurn
<1>4. CASE \E ids : Accepts(w, v, p, ids)
  <2>1. PICK ids : Accepts(w, v, p, ids)
    BY <1>4
  <2>2. Unhampered(w, g, v)
    BY DEF Unhampered
  <2>. QED BY <2>1, <2>2, AcceptsTurn
<1>. QED BY <1>2, <1>3, <1>4 DEF Turns

\* There is no answer.
LEMMA CutTurn ==
  ASSUME NEW w, NEW g, NEW p, Turning(w, g, p), NEW v, Cut(w, v, p),
         \A ids : /\ w.cm[p].attempt = 0 /\ Accepts(w, v, p, ids)
                  /\ \A e \in w.cm[p].batch : e.id \in ids => AllOps({e}) \subseteq w.cm[p].done
                  => Unhampered(w, g, v)
  PROVE  Safe(v, g) /\ Awaited(v, {})
<1>1. CASE Ends(w, v, p)
  BY <1>1, EndsTurn
<1>2. CASE \E d, ops : GoesOn(w, v, p, d, ops) /\ Onward(w.cm[p], d, ops) /\ d.attempt # 0
  BY <1>2, GoesOnTurn
<1>3. CASE /\ w.cm[p].attempt = 0
           /\ \E ids : /\ Accepts(w, v, p, ids)
                       /\ \A e \in w.cm[p].batch : e.id \in ids => AllOps({e}) \subseteq w.cm[p].done
  BY <1>3, AcceptsTurn
<1>. QED BY <1>1, <1>2, <1>3 DEF Cut

\* A page's event is withdrawn, and perhaps its entries and its transaction: the
\* world that its apply finds.
LEMMA Withdrawn ==
  ASSUME ApplyInv, NEW p \in Pages, NEW u, NEW h,
         u.ev = events \ EventsOf(p), u.cm = commits, u.ask \subseteq decision, u.buf \subseteq buffer,
         u.tx \in {transaction, NoTransaction}, u.src \in [Refs -> Texts], Agrees(u.src, World, Others),
         \A r \in Refs : r \notin RefsOf(p) => u.src[r] = source[r],
         h.stale = Tombstones(EventsOf(p)), h.agent = agent, h.exempt = exempt, h.saves = saves,
         h.wanted \in [Refs -> 0 .. MaxSaves],
         Settled(u, h) \subseteq Settled(World, Others), \A r \in Settled(u, h) : h.wanted[r] = wanted[r],
         BufferInv(u, h)
  PROVE  Safe(u, h) /\ Awaited(u, {p}) /\ Fresh(u, h) /\ \A e \in u.ev : e.page # p
<1> DEFINE w == World
           g == Others
<1>1. /\ w.src = source /\ w.buf = buffer /\ w.tx = transaction
      /\ w.ev = events /\ w.cm = commits /\ w.ask = decision
      /\ g.wanted = wanted /\ g.exempt = exempt /\ g.saves = saves /\ g.stale = stale /\ g.agent = agent
  BY WorldFields, OthersFields
<1>2. Safe(w, g) /\ Awaited(w, {}) /\ AgentInv(w, g)
  BY SourceFacts DEF ApplyInv
<1>3. Settled(u, h) \subseteq Settled(w, g) /\ Agrees(u.src, w, g)
  OBVIOUS
<1> HIDE DEF w, g
<1>4. /\ \A content : Agrees(content, w, g) => Agrees(content, u, h)
  BY <1>1, <1>3, NoneSettled
<1>5. \/ /\ h.stale = stale
         /\ agent.id \in Ids(events) <=> agent.id \in Ids(u.ev)
      \/ \E e \in EventsOf(p) : /\ e.id = agent.id /\ stale = {} /\ agent.id \notin Ids(u.ev)
                       /\ h.stale = {[id |-> e.id, content |-> e.content]}
  <2>1. \/ /\ Tombstones(EventsOf(p)) = stale
           /\ agent.id \in Ids(events) <=> agent.id \in Ids(events \ EventsOf(p))
        \/ \E e \in EventsOf(p) : /\ e.id = agent.id /\ stale = {} /\ agent.id \notin Ids(events \ EventsOf(p))
                         /\ Tombstones(EventsOf(p)) = {[id |-> e.id, content |-> e.content]}
    BY TombstoneFacts
  <2>2. u.ev = events \ EventsOf(p) /\ h.stale = Tombstones(EventsOf(p))
    OBVIOUS
  <2>. QED BY <2>1, <2>2
<1>6. ASSUME NEW e \in EventsOf(p)
      PROVE  /\ e.id \in Nat /\ e.id # NoEvent /\ e.content \in [RefsOf(p) -> Texts] /\ e.content \in Contents
             /\ Agrees(e.content, w, g)
             /\ e.id = agent.id => RefsIn(agent.ops) \subseteq RefsOf(p)
  <2>1. e \in w.ev /\ e.page = p
    BY <1>1 DEF EventsOf
  <2>2. EventOK(e, w, g) /\ e.id \in Nat
    BY <1>2, <2>1 DEF Safe, EventsInv, WorldTyped
  <2>3. e.id = agent.id => RefsIn(agent.ops) \subseteq RefsOf(p)
    BY <1>1, <1>2, <2>1, AgentsPage
  <2>. QED BY <2>1, <2>2, <2>3, ContentsIs DEF EventOK
<1>7. \A r : r \in LateIn(u, h) => r \in LateIn(w, g) \/ r \in RefsOf(p)
  <2>1. CASE h.stale = stale /\ (agent.id \in Ids(events) <=> agent.id \in Ids(u.ev))
    BY <1>1, <2>1 DEF LateIn
  <2>2. CASE \E e \in EventsOf(p) : e.id = agent.id /\ h.stale = {[id |-> e.id, content |-> e.content]}
    <3>1. PICK e \in EventsOf(p) : e.id = agent.id /\ h.stale = {[id |-> e.id, content |-> e.content]}
      BY <2>2
    <3>2. DOMAIN e.content = RefsOf(p) /\ RefsIn(agent.ops) \subseteq RefsOf(p)
      BY <1>6, <3>1
    <3>. QED BY <3>1, <3>2 DEF LateIn
  <2>. QED BY <1>5, <2>1, <2>2
<1>8. OthersTyped(h)
  <2>1. h.stale \subseteq [id : Nat, content : Contents] /\ IsFiniteSet(h.stale)
    <3>1. CASE h.stale = stale
      BY <3>1, AgentTyped
    <3>2. CASE \E e \in EventsOf(p) : h.stale = {[id |-> e.id, content |-> e.content]}
      <4>1. PICK e \in EventsOf(p) : h.stale = {[id |-> e.id, content |-> e.content]}
        BY <3>2
      <4>2. [id |-> e.id, content |-> e.content] \in [id : Nat, content : Contents]
        BY <1>6
      <4>3. IsFiniteSet({[id |-> e.id, content |-> e.content]})
        BY FS_Singleton
      <4>. QED BY <4>1, <4>2, <4>3
    <3>. QED BY <1>5, <3>1, <3>2
  <2>. QED BY <2>1, AgentTyped DEF OthersTyped
<1>9. AgentInv(u, h)
  <2>1. \A f, d \in h.stale : d = f
    BY <1>1, <1>2, <1>5 DEF AgentInv
  <2>2. ASSUME NEW d \in h.stale
        PROVE  d.id = agent.id /\ agent.pc # "idle" /\ d.id \notin Ids(u.ev) /\ Agrees(d.content, u, h)
    <3>1. CASE h.stale = stale /\ (agent.id \in Ids(events) <=> agent.id \in Ids(u.ev))
      BY <1>1, <1>2, <1>4, <2>2, <3>1 DEF AgentInv
    <3>2. CASE \E e \in EventsOf(p) : /\ e.id = agent.id /\ agent.id \notin Ids(u.ev)
                             /\ h.stale = {[id |-> e.id, content |-> e.content]}
      <4>1. PICK e \in EventsOf(p) : /\ e.id = agent.id /\ agent.id \notin Ids(u.ev)
                                     /\ h.stale = {[id |-> e.id, content |-> e.content]}
        BY <3>2
      <4>2. d.id = e.id /\ d.content = e.content
        BY <2>2, <4>1
      <4>3. agent.pc # "idle"
        BY <1>1, <1>2, <1>6, <4>1 DEF AgentInv
      <4>4. Agrees(e.content, u, h)
        BY <1>4, <1>6
      <4>5. d.id = agent.id /\ d.id \notin Ids(u.ev)
        BY <4>1, <4>2
      <4>6. Agrees(d.content, u, h)
        BY <4>2, <4>4
      <4>. QED BY <4>3, <4>5, <4>6
    <3>. QED BY <1>5, <3>1, <3>2
  <2>3. /\ agent.pc = "idle" => agent.id = NoEvent
        /\ agent.pc # "idle" => RefsIn(agent.ops) \cap Settled(u, h) = {}
    BY <1>1, <1>2, <1>3 DEF AgentInv
  <2>4. \A e \in u.ev : e.id = agent.id => agent.ops = e.ops
    BY <1>1, <1>2 DEF AgentInv
  <2>5. h.agent = agent
    OBVIOUS
  <2>. QED BY <2>1, <2>2, <2>3, <2>4, <2>5 DEF AgentInv
<1>10. \A e \in u.ev : e.page # p
  BY DEF EventsOf
<1>11. \A e \in u.ev : \A o \in w.cm[e.page].done : w.cm[e.page].attempt = 0 =>
         u.src[o.ref] = w.src[o.ref] /\ (o.ref \in LateIn(u, h) => o.ref \in LateIn(w, g))
  <2> SUFFICES ASSUME NEW e \in u.ev, NEW o \in w.cm[e.page].done, w.cm[e.page].attempt = 0
               PROVE  u.src[o.ref] = w.src[o.ref] /\ (o.ref \in LateIn(u, h) => o.ref \in LateIn(w, g))
    OBVIOUS
  <2>1. o.ref \in RefsOf(e.page) /\ o.ref \in Refs
    BY <1>1, <1>2, DoneApart
  <2>2. o.ref \notin RefsOf(p)
    BY <1>10, <2>1, PagesApart
  <2>. QED BY <1>1, <1>7, <2>1, <2>2
<1>12. Safe(u, h)
  <2>1. /\ u.cm = w.cm /\ u.ev \subseteq w.ev /\ u.ask \subseteq w.ask
        /\ u.tx \in {w.tx, NoTransaction} /\ u.buf \subseteq w.buf
        /\ \A r \in Settled(u, h) : h.wanted[r] = g.wanted[r]
        /\ g.exempt \subseteq h.exempt /\ h.saves = g.saves /\ Agrees(u.src, u, h)
    BY <1>1, <1>3, <1>4
  <2>. QED BY <1>2, <1>3, <1>8, <1>9, <1>11, <2>1, QuietKeeps
<1>13. Awaited(u, {p})
  BY <1>1, <1>2 DEF Awaited, EventsOf
<1>14. Fresh(u, h)
  <2>1. NewId \in Nat \ {0} /\ NewId \notin Ids(events) /\ NewId \notin Ids(stale) /\ NewId # agent.id
    BY StateFresh
  <2>2. NewId \notin Ids(h.stale)
    BY <1>5, <2>1 DEF Ids
  <2>3. NewId \notin Ids(u.ev)
    BY <2>1 DEF Ids
  <2>. QED BY <2>1, <2>2, <2>3 DEF Fresh
<1>. QED BY <1>10, <1>12, <1>13, <1>14

\* An apply that waits for an event is under way.
LEMMA EventFacts ==
  ASSUME ApplyInv, NEW e \in events
  PROVE  /\ e.page \in Pages /\ e.id \in Nat /\ e.id # NoEvent /\ e.ops \subseteq Op
         /\ commits[e.page].active /\ EventOK(e, World, Others)
         /\ Fits(commits[e.page]) /\ EventsOf(e.page) = {e}
<1>1. Safe(World, Others) /\ e \in World.ev /\ World.cm = commits
  BY SourceFacts, WorldFields
<1>2. EventOK(e, World, Others) /\ e.page \in Pages /\ e.id \in Nat /\ e.ops \subseteq Op
  BY <1>1 DEF Safe, EventsInv, WorldTyped
<1>3. commits[e.page].active /\ e.id # NoEvent
  BY <1>1, <1>2 DEF EventOK
<1>4. Fits(commits[e.page])
  BY <1>1, <1>2, <1>3, SafeFits
<1>5. {f \in World.ev : f.page = e.page} = {e}
  BY <1>1, OneEvent
<1>. QED BY <1>2, <1>3, <1>4, <1>5, WorldFields DEF EventsOf

LEMMA WithoutEvent ==
  ASSUME ApplyInv, NEW es
  PROVE  LET u == [World EXCEPT !.ev = @ \ es]
         IN  /\ u.src = source /\ u.buf = buffer /\ u.tx = transaction /\ u.ev = events \ es
             /\ u.cm = commits /\ u.ask = decision /\ IsWorld(u)
  BY SourceFacts DEF World, IsWorld

LEMMA AnswerSafe ==
  ASSUME ApplyInv, up, agent.pc = "reply", agent' = Resting, NEW e \in events, e.id = agent.id,
         NEW r \in Results({o.id : o \in agent.ops}),
         NEW v \in Resumed([World EXCEPT !.ev = @ \ {e}], e.page, r), Becomes(v),
         UNCHANGED <<up, stale, saves, decided, wanted, exempt>>
  PROVE  ApplyInv' /\ Undone
<1> DEFINE p == e.page
           u == [World EXCEPT !.ev = @ \ {e}]
           w == World
           g == Others
           h == Others'
<1>1. /\ w.src = source /\ w.buf = buffer /\ w.tx = transaction
      /\ w.ev = events /\ w.cm = commits /\ w.ask = decision
      /\ g.wanted = wanted /\ g.exempt = exempt /\ g.saves = saves /\ g.stale = stale /\ g.agent = agent
  BY WorldFields, OthersFields
<1>2. /\ h.wanted = wanted /\ h.exempt = exempt /\ h.saves = saves /\ h.stale = stale /\ h.agent = Resting
  BY OthersFieldsAfter
<1>3. /\ u.src = source /\ u.buf = buffer /\ u.tx = transaction /\ u.ev = events \ {e}
      /\ u.cm = commits /\ u.ask = decision /\ IsWorld(u)
  BY WithoutEvent
<1>4. /\ p \in Pages /\ e.id \in Nat /\ e.id # NoEvent /\ e.ops \subseteq Op
      /\ commits[p].active /\ EventOK(e, w, g) /\ Fits(commits[p]) /\ EventsOf(p) = {e}
  BY EventFacts
<1>5. Safe(w, g) /\ Awaited(w, {}) /\ AgentInv(w, g)
  BY SourceFacts DEF ApplyInv
<1>6. v \in Resumed(u, p, r)
  OBVIOUS
<1> HIDE DEF u, w, g, h
<1>7. /\ Resting.pc = "idle" /\ Resting.id = NoEvent /\ Resting.ops = {}
      /\ Resting \in [pc : {"idle", "edit", "reply"}, id : Nat, ops : SUBSET Op]
  BY DEF Resting, NoEvent
<1>8. stale = {}
  BY <1>1, <1>5 DEF AgentInv, Ids
<1>9. LateIn(u, h) = {}
  BY <1>2, <1>7 DEF LateIn
<1>10. Settled(u, h) = Settled(w, g)
  BY <1>1, <1>2, <1>3 DEF Settled
<1>11. OthersTyped(h) /\ BufferInv(u, h)
  BY <1>1, <1>2, <1>3, <1>5, <1>7 DEF Safe, OthersTyped, BufferInv
<1>12. AgentInv(u, h)
  <2>1. \A f \in u.ev : f.id # NoEvent
    BY <1>3, EventFacts
  <2>. QED BY <1>2, <1>7, <1>8, <2>1 DEF AgentInv
<1>13. Safe(u, h)
  <2>1. Agrees(u.src, u, h) /\ u.src \in [Refs -> Texts]
    BY <1>1, <1>2, <1>3, <1>5, <1>10 DEF Safe, SourceInv, WorldTyped, Agrees
  <2>2. /\ u.cm = w.cm /\ u.ev \subseteq w.ev /\ u.ask \subseteq w.ask
        /\ u.tx \in {w.tx, NoTransaction} /\ u.buf \subseteq w.buf
        /\ \A s \in Settled(u, h) : h.wanted[s] = g.wanted[s]
        /\ g.exempt \subseteq h.exempt /\ h.saves = g.saves /\ Settled(u, h) \subseteq Settled(w, g)
    BY <1>1, <1>2, <1>3, <1>10
  <2>3. \A f \in u.ev : \A o \in w.cm[f.page].done : w.cm[f.page].attempt = 0 =>
          u.src[o.ref] = w.src[o.ref] /\ (o.ref \in LateIn(u, h) => o.ref \in LateIn(w, g))
    BY <1>1, <1>3, <1>9
  <2>. QED BY <1>5, <1>11, <1>12, <2>1, <2>2, <2>3, QuietKeeps
<1>14. Turning(u, h, p)
  <2>1. Awaited(u, {p})
    BY <1>1, <1>3, <1>5 DEF Awaited
  <2>2. \A f \in u.ev : f.page # p
    BY <1>3, <1>4 DEF EventsOf
  <2>3. Fresh(u, h)
    <3>1. NewId \in Nat \ {0} /\ NewId \notin Ids(events)
      BY StateFresh
    <3>. QED BY <1>2, <1>3, <1>7, <1>8, <3>1 DEF Fresh, Ids, NoEvent
  <2>. QED BY <1>3, <1>4, <1>13, <2>1, <2>2, <2>3 DEF Turning
<1>15. /\ r.applied \subseteq Ids(u.cm[p].batch)
       /\ r.failed \subseteq 1 .. MaxSaves /\ r.files \in BOOLEAN
  <2>1. agent.ops = e.ops /\ e.ops \subseteq AllOps(commits[p].batch)
    BY <1>1, <1>4, <1>5 DEF AgentInv, EventOK
  <2>2. /\ r.applied \subseteq {o.id : o \in e.ops} /\ r.failed \subseteq {o.id : o \in e.ops}
        /\ r.files \in BOOLEAN
    BY <2>1 DEF Results
  <2>3. \A o \in e.ops : o.id \in Ids(commits[p].batch)
    <3>1. commits[p].batch \subseteq Entry
      BY <1>4, CommitFields DEF Fits
    <3>. QED BY <2>1, <3>1, AllOpsFacts DEF Ids
  <2>4. {o.id : o \in e.ops} \subseteq 1 .. MaxSaves
    BY <1>4, OpIds
  <2>. QED BY <1>3, <2>2, <2>3, <2>4
<1>16. Turns(u, v, p)
  BY <1>3, <1>4, <1>6, <1>15, ResumedTurns
<1>17. u.cm[p].attempt = 0 => p \notin u.ask
  BY <1>1, <1>3, <1>4 DEF EventOK
<1>18. Safe(v, h) /\ Awaited(v, {})
  BY <1>2, <1>7, <1>8, <1>14, <1>16, <1>17, AnsweredTurn
<1>19. ApplyInv'
  BY <1>18, AgentTyped, TurnSafe DEF h
<1>20. Undone
  BY <1>3, <1>4, <1>13, <1>16, PageTurnUndone
<1>. QED BY <1>19, <1>20

LEMMA ReplySafe ==
  ASSUME ApplyInv, Reply
  PROVE  ApplyInv' /\ Undone
<1>1. /\ up /\ agent.pc = "reply" /\ agent' = Resting
      /\ UNCHANGED <<up, saves, decided, wanted, exempt>>
  BY DEF Reply, user
<1>2. CASE \E e \in events :
             /\ e.id = agent.id
             /\ \E r \in Results({o.id : o \in agent.ops}) :
                  \E v \in Resumed([World EXCEPT !.ev = @ \ {e}], e.page, r) : Becomes(v)
             /\ UNCHANGED stale
  BY <1>1, <1>2, AnswerSafe
<1>3. CASE \E d \in stale :
             /\ d.id = agent.id
             /\ source' = Restored(source, d.content)
             /\ stale' = stale \ {d}
             /\ UNCHANGED <<buffer, transaction, events, commits, decision>>
  BY <1>1, <1>3, LateReplySafe, IdleUndone
<1>4. CASE /\ agent.id \notin Ids(events) \cup Ids(stale)
           /\ UNCHANGED <<disk, events, commits, stale, decision>>
  BY <1>1, <1>4, ReplyToNobodySafe, IdleUndone DEF disk
<1>. QED BY <1>2, <1>3, <1>4 DEF Reply

LEMMA ExpireSafe ==
  ASSUME ApplyInv, NEW e \in events, Expire(e)
  PROVE  ApplyInv' /\ Undone
<1> DEFINE p == e.page
           u == [World EXCEPT !.ev = @ \ {e}]
           w == World
           g == Others
           h == Others'
<1>1. /\ w.src = source /\ w.buf = buffer /\ w.tx = transaction
      /\ w.ev = events /\ w.cm = commits /\ w.ask = decision
      /\ g.wanted = wanted /\ g.exempt = exempt /\ g.saves = saves /\ g.stale = stale /\ g.agent = agent
  BY WorldFields, OthersFields
<1>2. /\ p \in Pages /\ e.id # NoEvent /\ commits[p].active /\ EventOK(e, w, g) /\ Fits(commits[p])
      /\ EventsOf(p) = {e}
  BY EventFacts
<1>3. /\ up /\ stale' = Tombstones(EventsOf(p))
      /\ UNCHANGED <<up, agent, saves, decided, wanted, exempt>>
  BY <1>2 DEF Expire, user
<1>4. PICK v \in Resumed(u, p, Rejected) : Becomes(v)
  BY DEF Expire
<1>5. /\ h.wanted = wanted /\ h.exempt = exempt /\ h.saves = saves /\ h.agent = agent
      /\ h.stale = Tombstones(EventsOf(p))
  BY <1>3, OthersFieldsAfter
<1>6. /\ u.src = source /\ u.buf = buffer /\ u.tx = transaction /\ u.ev = events \ {e}
      /\ u.cm = commits /\ u.ask = decision /\ IsWorld(u)
  BY WithoutEvent
<1>7. Safe(w, g) /\ AgentInv(w, g) /\ source \in [Refs -> Texts] /\ Agrees(source, w, g)
  BY SourceFacts
<1> HIDE DEF u, w, g, h
<1>8. Settled(u, h) = Settled(w, g)
  BY <1>1, <1>5, <1>6 DEF Settled
<1>9. BufferInv(u, h)
  BY <1>1, <1>5, <1>6, <1>7 DEF Safe, BufferInv
<1>10. Safe(u, h) /\ Turning(u, h, p)
  <2>1. /\ u.ev = events \ EventsOf(p) /\ u.ask \subseteq decision /\ u.buf \subseteq buffer
        /\ u.tx \in {transaction, NoTransaction} /\ u.src \in [Refs -> Texts]
        /\ \A r \in Refs : r \notin RefsOf(p) => u.src[r] = source[r]
        /\ h.wanted \in [Refs -> 0 .. MaxSaves] /\ \A r \in Settled(u, h) : h.wanted[r] = wanted[r]
    BY <1>2, <1>5, <1>6, <1>7, AgentTyped
  <2>2. Settled(u, h) \subseteq Settled(World, Others) /\ Agrees(u.src, World, Others)
    BY <1>6, <1>7, <1>8 DEF w, g
  <2>3. Safe(u, h) /\ Awaited(u, {p}) /\ Fresh(u, h) /\ \A f \in u.ev : f.page # p
    BY <1>2, <1>5, <1>6, <1>9, <2>1, <2>2, Withdrawn
  <2>. QED BY <1>2, <1>6, <2>3 DEF Turning
<1>11. Turns(u, v, p) /\ Cut(u, v, p)
  <2>1. /\ Rejected.status = "rejected" /\ Rejected.applied = {} /\ Rejected.failed = {} /\ Rejected.files = FALSE
    BY DEF Rejected
  <2>. QED BY <1>2, <1>4, <1>6, <2>1, ResumedTurns
<1>12. ASSUME NEW ids, u.cm[p].attempt = 0, Accepts(u, v, p, ids),
              \A f \in u.cm[p].batch : f.id \in ids => AllOps({f}) \subseteq u.cm[p].done
       PROVE  Unhampered(u, h, v)
  <2> SUFFICES ASSUME NEW r \in Settled(v, h), r \notin Settled(u, h)
               PROVE  /\ h.agent.pc # "idle" /\ h.agent.id \notin Ids(u.ev) => r \notin RefsIn(h.agent.ops)
                      /\ \A d \in h.stale : r \in DOMAIN d.content => d.content[r] = u.src[r]
    BY DEF Unhampered
  <2>1. PICK f \in commits[p].batch : f.id \in ids /\ r \in DOMAIN f.ops
    BY <1>2, <1>6, <1>10, <1>12, NewlySettled
  <2>2. PICK o \in commits[p].done : o.ref = r
    <3>1. [id |-> f.id, ref |-> r, text |-> f.ops[r]] \in AllOps({f})
      BY <2>1 DEF AllOps
    <3>. QED BY <1>6, <1>12, <2>1, <3>1
  <2>3. r \notin LateIn(w, g) /\ e.content[r] = source[r]
    BY <1>1, <1>6, <1>7, <1>12, <2>2, DoneApart
  <2>4. agent.pc # "idle" => r \notin RefsIn(agent.ops)
    BY <1>1, <1>6, <1>7, <1>12, <2>2, AgentApart
  <2>5. ASSUME NEW d \in h.stale, r \in DOMAIN d.content PROVE d.content[r] = source[r]
    <3>1. CASE d \in stale
      <4>1. agent.pc # "idle" /\ agent.id \notin Ids(events)
        BY <1>1, <1>7, <3>1 DEF AgentInv
      <4>2. r \in LateIn(w, g)
        BY <1>1, <2>5, <3>1, <4>1 DEF LateIn
      <4>. QED BY <2>3, <4>2
    <3>2. CASE d \notin stale
      <4>1. d.content = e.content
        BY <1>2, <1>5, <2>5, <3>2 DEF Tombstones
      <4>. QED BY <2>3, <4>1
    <3>. QED BY <3>1, <3>2
  <2>. QED BY <1>5, <1>6, <2>4, <2>5
<1>13. Safe(v, h) /\ Awaited(v, {})
  BY <1>10, <1>11, <1>12, CutTurn
<1>14. ApplyInv'
  BY <1>3, <1>4, <1>13, AgentTyped, TurnSafe DEF h
<1>15. Undone
  BY <1>2, <1>4, <1>6, <1>10, <1>11, PageTurnUndone
<1>. QED BY <1>14, <1>15

\* A discard: the entries of page p leave the buffer.
LEMMA DiscardedWorld ==
  ASSUME ApplyInv, NEW p \in Pages, NEW u,
         u.ev = events \ EventsOf(p), u.cm = commits, u.ask = decision \ {p},
         u.buf = buffer \ Staged(p, buffer), u.tx = TransactionAfter(p),
         u.src \in [Refs -> Texts], Agrees(u.src, World, Others),
         \A r \in Refs : r \notin RefsOf(p) => u.src[r] = source[r],
         wanted' = [r \in Refs |-> IF \E e \in Staged(p, buffer) : r \in DOMAIN e.ops THEN 0 ELSE wanted[r]],
         stale' = Tombstones(EventsOf(p)), UNCHANGED <<agent, exempt, saves>>
  PROVE  Safe(u, Others') /\ Awaited(u, {p}) /\ Fresh(u, Others') /\ \A e \in u.ev : e.page # p
<1> DEFINE h == Others'
           w == World
           g == Others
<1>1. /\ h.wanted = wanted' /\ h.exempt = exempt /\ h.saves = saves /\ h.agent = agent
      /\ h.stale = Tombstones(EventsOf(p))
  BY OthersFieldsAfter
<1>2. /\ w.buf = buffer /\ g.wanted = wanted /\ g.exempt = exempt /\ g.saves = saves
  BY WorldFields, OthersFields
<1>3. BufferInv(w, g)
  BY SourceFacts DEF Safe
<1> HIDE DEF w, g, h
<1>4. \A r \in Refs : IsStaged(r, buffer) => IsStaged(r, u.buf) \/ wanted'[r] = 0
  BY DEF IsStaged
<1>5. Settled(u, h) \subseteq Settled(w, g) /\ \A r \in Settled(u, h) : h.wanted[r] = wanted[r]
  <2> SUFFICES ASSUME NEW r \in Settled(u, h) PROVE r \in Settled(w, g) /\ h.wanted[r] = wanted[r]
    OBVIOUS
  <2>1. r \in Refs /\ wanted'[r] # 0 /\ r \notin exempt /\ ~IsStaged(r, u.buf)
    BY <1>1 DEF Settled
  <2>2. ~IsStaged(r, buffer) /\ wanted'[r] = wanted[r]
    BY <1>4, <2>1
  <2>. QED BY <1>1, <1>2, <2>1, <2>2 DEF Settled
<1>6. BufferInv(u, h)
  <2> SUFFICES ASSUME NEW e \in u.buf
               PROVE  /\ DOMAIN e.ops \subseteq RefsOf(e.page) /\ e.id <= saves
                      /\ \A r \in DOMAIN e.ops : e.ops[r] = wanted'[r]
                      /\ \A f \in u.buf, r \in Refs : r \in DOMAIN e.ops /\ r \in DOMAIN f.ops => e = f
    BY <1>1 DEF BufferInv
  <2>1. /\ e \in buffer /\ e \notin Staged(p, buffer)
        /\ DOMAIN e.ops \subseteq RefsOf(e.page) /\ e.id <= saves
        /\ \A r \in DOMAIN e.ops : e.ops[r] = wanted[r]
        /\ \A f \in buffer, r \in Refs : r \in DOMAIN e.ops /\ r \in DOMAIN f.ops => e = f
    BY <1>2, <1>3 DEF BufferInv
  <2>2. ASSUME NEW r \in DOMAIN e.ops PROVE e.ops[r] = wanted'[r]
    <3>1. r \in Refs
      BY <2>1 DEF RefsOf
    <3>2. ~\E f \in Staged(p, buffer) : r \in DOMAIN f.ops
      BY <2>1, <3>1 DEF Staged
    <3>. QED BY <2>1, <3>1, <3>2
  <2>. QED BY <2>1, <2>2
<1>7. h.wanted \in [Refs -> 0 .. MaxSaves]
  BY <1>1, AgentTyped, ApplyAssumption DEF ApplyAssumption
<1>8. u.ask \subseteq decision /\ u.buf \subseteq buffer /\ u.tx \in {transaction, NoTransaction}
  BY RolledBackFacts
<1>9. Settled(u, h) \subseteq Settled(World, Others)
  BY <1>5 DEF w, g
<1>10. Safe(u, h) /\ Awaited(u, {p}) /\ Fresh(u, h) /\ \A e \in u.ev : e.page # p
  BY <1>1, <1>5, <1>6, <1>7, <1>8, <1>9, Withdrawn
<1>. QED BY <1>10 DEF h

LEMMA DiscardSafe ==
  ASSUME ApplyInv, NEW p \in Pages, Discard(p)
  PROVE  ApplyInv' /\ Undone
<1> DEFINE src  == RolledBack(p)
           w    == [World EXCEPT !.src = RolledBack(p), !.tx = TransactionAfter(p),
                                 !.buf = @ \ Staged(p, @), !.ask = @ \ {p}]
           es   == {e \in w.ev : e.page = p}
           u    == [w EXCEPT !.ev = @ \ es,
                             !.src = IF es = {} THEN @ ELSE Restored(@, (CHOOSE e \in es : TRUE).content)]
           h    == Others'
<1>1. /\ up /\ UNCHANGED <<up, agent, saves, exempt>> /\ decided' = decided + 1
      /\ wanted' = [r \in Refs |-> IF \E e \in Staged(p, buffer) : r \in DOMAIN e.ops THEN 0 ELSE wanted[r]]
      /\ stale' = Tombstones(EventsOf(p))
  BY DEF Discard, EventsOf
<1>2. PICK v \in Canceled(w, p) : Becomes(v)
  BY DEF Discard
<1>3. /\ w.src = src /\ w.buf = buffer \ Staged(p, buffer) /\ w.tx = TransactionAfter(p) /\ w.ev = events
      /\ w.cm = commits /\ w.ask = decision \ {p}
  BY DEF World
<1>4. /\ es = EventsOf(p)
      /\ u.src = (IF es = {} THEN src ELSE Restored(src, (CHOOSE e \in es : TRUE).content))
      /\ u.buf = buffer \ Staged(p, buffer)
      /\ u.tx = TransactionAfter(p) /\ u.ev = events \ es
      /\ u.cm = commits /\ u.ask = decision \ {p} /\ IsWorld(u)
  BY SourceFacts DEF World, IsWorld, EventsOf
<1>5. v \in IF es = {} THEN {w} ELSE Resumed(u, p, Rejected)
  BY <1>2 DEF Canceled
<1>6. /\ src \in [Refs -> Texts] /\ Agrees(src, World, Others)
      /\ \A r \in Refs : r \notin RefsOf(p) => src[r] = source[r]
  BY RolledBackFacts
<1> HIDE DEF w, u, src, es
<1>7. CASE es = {}
  <2>1. v = w /\ w.ev = events \ EventsOf(p)
    BY <1>3, <1>4, <1>5, <1>7
  <2>2. Safe(w, h) /\ Awaited(w, {p})
    BY <1>1, <1>3, <1>6, <2>1, DiscardedWorld
  <2>3. Awaited(w, {})
    <3>1. ~commits[p].active
      BY <1>4, <1>7, WorldFields DEF ApplyInv, Awaited, EventsOf
    <3>. QED BY <1>3, <2>2, <3>1 DEF Awaited
  <2>4. ApplyInv'
    BY <1>1, <1>2, <2>1, <2>2, <2>3, AgentTyped, TurnSafe
  <2>5. Undone
    BY <1>2, <1>3, <2>1, IdleUndone DEF Becomes
  <2>. QED BY <2>4, <2>5
<1>8. CASE es # {}
  <2>1. PICK e \in events : e.page = p
    BY <1>4, <1>8 DEF EventsOf
  <2>2. /\ es = {e} /\ commits[p].active /\ Fits(commits[p]) /\ EventOK(e, World, Others)
    BY <1>4, <2>1, EventFacts
  <2>3. u.src = Restored(src, e.content)
    BY <1>4, <2>2
  <2>4. e.content \in [RefsOf(p) -> Texts] /\ Agrees(e.content, World, Others)
    BY <2>1, <2>2 DEF EventOK
  <2>5. /\ u.src \in [Refs -> Texts]
        /\ \A r \in RefsOf(p) : u.src[r] = e.content[r]
        /\ \A r \in Refs : r \notin RefsOf(p) => u.src[r] = src[r]
    BY <1>6, <2>3, <2>4, RestoredFacts
  <2>6. Agrees(u.src, World, Others)
    <3>1. Settled(World, Others) \subseteq Refs
      BY DEF Settled
    <3>. QED BY <1>6, <2>4, <2>5, <3>1 DEF Agrees
  <2>7. Safe(u, h) /\ Awaited(u, {p}) /\ Fresh(u, h) /\ \A f \in u.ev : f.page # p
    <3>1. \A r \in Refs : r \notin RefsOf(p) => u.src[r] = source[r]
      BY <1>6, <2>5
    <3>2. u.ev = events \ EventsOf(p) /\ u.src \in [Refs -> Texts]
      BY <1>4, <2>5
    <3>. QED BY <1>1, <1>4, <2>6, <3>1, <3>2, DiscardedWorld
  <2>8. Turning(u, h, p)
    BY <1>4, <2>2, <2>7 DEF Turning
  <2>9. Turns(u, v, p) /\ Cut(u, v, p)
    <3>1. /\ Rejected.status = "rejected" /\ Rejected.applied = {} /\ Rejected.failed = {} /\ Rejected.files = FALSE
      BY DEF Rejected
    <3>2. v \in Resumed(u, p, Rejected)
      BY <1>5, <1>8
    <3>. QED BY <1>4, <2>2, <3>1, <3>2, ResumedTurns
  <2>10. ASSUME NEW ids, Accepts(u, v, p, ids) PROVE Unhampered(u, h, v)
    <3>1. ASSUME NEW r \in Settled(v, h), r \notin Settled(u, h) PROVE FALSE
      <4>1. \E f \in u.buf : f.page = p
        BY <1>4, <2>2, <2>7, <2>10, <3>1, NewlySettled
      <4>. QED BY <1>4, <4>1 DEF Staged
    <3>. QED BY <3>1 DEF Unhampered
  <2>11. Safe(v, h) /\ Awaited(v, {})
    BY <2>8, <2>9, <2>10, CutTurn
  <2>12. ApplyInv'
    BY <1>1, <1>2, <2>11, AgentTyped, TurnSafe
  <2>13. Undone
    BY <1>2, <1>4, <2>2, <2>7, <2>9, PageTurnUndone
  <2>. QED BY <2>12, <2>13
<1>. QED BY <1>7, <1>8

\* An apply begins with what is staged on its page, and with the source as it
\* is then, which is in the transaction.
LEMMA BeginsFits ==
  ASSUME ApplyInv, NEW p \in Pages, NEW src \in [Refs -> Texts], NEW t \in Nat
  PROVE  LET c == Commit0(Staged(p, buffer), src, p, t)
         IN  /\ Fits(c) /\ c.active /\ c.batch = Staged(p, buffer) /\ c.before = Content(src, p) /\ c.tx = t
             /\ c.rest = AllOps(c.batch) /\ c.sent = {} /\ c.done = {} /\ c.claimed = {} /\ c.attempt = 0
<1> DEFINE batch == Staged(p, buffer)
           c     == Commit0(batch, src, p, t)
<1>1. /\ c.active = TRUE /\ c.batch = batch /\ c.before = Content(src, p) /\ c.tx = t
      /\ c.rest = AllOps(batch) /\ c.sent = {} /\ c.done = {} /\ c.claimed = {} /\ c.attempt = 0
  BY DEF Commit0
<1>2. batch \subseteq Entry /\ \A e, f \in batch : e.id = f.id => e = f
  BY SourceFacts, WorldFields DEF Safe, WorldTyped, Staged
<1>3. AllOps(batch) \subseteq Op
  BY <1>2, AllOpsFacts
<1>4. Content(src, p) \in Contents
  BY ContentFacts, ContentsIs
<1>5. 0 \in 0 .. MaxAttempts /\ NoEvent \in Nat
  BY ApplyAssumption DEF ApplyAssumption, NoEvent
<1> HIDE DEF batch
<1>6. c \in Commit
  BY <1>2, <1>3, <1>4, <1>5 DEF Commit, Commit0
<1>7. Fits(c)
  <2> HIDE DEF c
  <2>. QED BY <1>1, <1>2, <1>6 DEF Fits
<1>. QED BY <1>1, <1>7 DEF batch

LEMMA Begins ==
  ASSUME ApplyInv, NEW p \in Pages, ~commits[p].active, NEW t \in Nat, NEW u, NEW h,
         u.src \in [Refs -> Texts], Agrees(u.src, World, Others),
         \A r \in Refs : r \notin RefsOf(p) => u.src[r] = source[r],
         u.buf = buffer, u.ev = events, u.ask \subseteq decision,
         u.cm = [commits EXCEPT ![p] = Commit0(Staged(p, buffer), u.src, p, t)],
         \/ u.tx = transaction /\ t = transaction.id
         \/ u.tx = [id |-> t, page |-> p, ids |-> Ids(Staged(p, buffer)), content |-> Content(u.src, p)],
         h.wanted = wanted, h.saves = saves, h.stale = stale, h.agent = agent,
         exempt \subseteq h.exempt, h.exempt \subseteq Refs
  PROVE  Turning(u, h, p)
<1> DEFINE w == World
           g == Others
           batch == Staged(p, buffer)
           c == Commit0(batch, u.src, p, t)
<1>1. /\ w.src = source /\ w.buf = buffer /\ w.tx = transaction
      /\ w.ev = events /\ w.cm = commits /\ w.ask = decision
      /\ g.wanted = wanted /\ g.exempt = exempt /\ g.saves = saves /\ g.stale = stale /\ g.agent = agent
  BY WorldFields, OthersFields
<1>2. /\ Safe(w, g) /\ Awaited(w, {}) /\ Agrees(u.src, w, g) /\ AgentInv(w, g)
      /\ WorldTyped(w) /\ BufferInv(w, g) /\ saves \in Nat
  BY SourceFacts, AgentTyped, ApplyAssumption DEF ApplyInv, Safe, ApplyAssumption
<1>3. /\ Fits(c) /\ c.active /\ c.batch = batch /\ c.before = Content(u.src, p) /\ c.tx = t
      /\ c.rest = AllOps(c.batch) /\ c.sent = {} /\ c.done = {} /\ c.claimed = {} /\ c.attempt = 0
  BY BeginsFits
<1>4. u.cm = [commits EXCEPT ![p] = c]
  OBVIOUS
<1> HIDE DEF w, g, c
<1>5. /\ commits \in [Pages -> Commit \cup {NoCommit}] /\ c \in Commit
      /\ u.cm[p] = c /\ \A q \in Pages \ {p} : u.cm[q] = commits[q]
      /\ u.cm \in [Pages -> Commit \cup {NoCommit}]
  BY <1>3, <1>4, SourceFacts DEF Fits
<1>6. Settled(u, h) \subseteq Settled(w, g) /\ \A r \in Settled(u, h) : h.wanted[r] = g.wanted[r]
  BY <1>1 DEF Settled
<1>7. /\ \A q : Carries(q, w, g, u, h)
      /\ \A content : Agrees(content, w, g) => Agrees(content, u, h)
  BY <1>6, NoneSettled
<1>8. Content(u.src, p) \in [RefsOf(p) -> Texts] /\ Agrees(Content(u.src, p), u, h)
  <2>1. /\ Content(u.src, p) \in [RefsOf(p) -> Texts]
        /\ \A r \in RefsOf(p) : Content(u.src, p)[r] = u.src[r]
    BY ContentFacts
  <2>2. \A r \in Settled(u, h) : u.src[r] = h.wanted[r]
    BY <1>2, <1>7 DEF Agrees, Settled
  <2>. QED BY <2>1, <2>2 DEF Agrees
<1>9. batch \subseteq buffer /\ \A e \in batch : e.page = p
  BY DEF Staged
<1>10. Ids(batch) \subseteq 1 .. MaxSaves
  BY <1>1, <1>2, <1>9, EntryFacts DEF Ids, WorldTyped
<1> HIDE DEF batch
<1>11. WorldTyped(u)
  <2>1. u.tx \in {NoTransaction} \cup
          [id : Nat, page : Pages, ids : SUBSET (1 .. MaxSaves), content : Contents]
    <3>1. CASE u.tx = transaction
      BY <1>1, <1>2, <3>1 DEF WorldTyped
    <3>2. CASE u.tx = [id |-> t, page |-> p, ids |-> Ids(batch), content |-> Content(u.src, p)]
      BY <1>8, <1>10, <3>2, ContentsIs
    <3>. QED BY <3>1, <3>2 DEF batch
  <2>. QED BY <1>1, <1>2, <1>5, <2>1 DEF WorldTyped
<1>12. OthersTyped(h)
  BY AgentTyped DEF OthersTyped
<1>13. BufferInv(u, h)
  BY <1>1, <1>2 DEF BufferInv
<1>14. SourceInv(u, h)
  <2>1. Agrees(u.src, u, h)
    BY <1>2, <1>7
  <2>2. u.tx # NoTransaction => u.tx.content \in [RefsOf(u.tx.page) -> Texts] /\ Agrees(u.tx.content, u, h)
    <3>1. CASE u.tx = transaction
      BY <1>1, <1>2, <1>7, <3>1 DEF Safe, SourceInv
    <3>2. CASE u.tx = [id |-> t, page |-> p, ids |-> Ids(batch), content |-> Content(u.src, p)]
      BY <1>8, <3>2
    <3>. QED BY <3>1, <3>2 DEF batch
  <2>. QED BY <2>1, <2>2 DEF SourceInv
<1>15. ASSUME NEW q \in Pages, u.cm[q].active PROVE CommitOK(u.cm[q], q, u, h)
  <2>1. CASE q # p
    <3>1. commits[q].active /\ u.cm[q] = commits[q]
      BY <1>5, <1>15, <2>1
    <3>2. CommitOK(commits[q], q, w, g) /\ commits[q].batch \subseteq Entry
      BY <1>1, <1>2, <3>1, SafeFits
    <3>3. StillSent(commits[q], q, u, h)
      BY <1>1, <3>2, LessSent
    <3>4. u.tx.page = q => u.tx.id = commits[q].tx
      BY <1>1, <2>1, <3>2 DEF CommitOK
    <3>5. CommitOK(commits[q], q, u, h)
      BY <1>1, <1>2, <1>7, <3>2, <3>3, <3>4, CommitKept
    <3>. QED BY <3>1, <3>5
  <2>2. CASE q = p
    <3>1. BatchOK(batch, p, u, h)
      <4>1. \A e \in batch : /\ DOMAIN e.ops \subseteq RefsOf(p) /\ e.id <= h.saves
                             /\ DOMAIN e.ops \cap Settled(u, h) = {}
        BY <1>1, <1>2, <1>9 DEF BufferInv, Settled, IsStaged
      <4>2. \A e, f \in buffer : e.id = f.id => e = f
        BY <1>1, <1>2 DEF WorldTyped
      <4>3. \A e, f \in batch, r \in Refs : r \in DOMAIN e.ops /\ r \in DOMAIN f.ops => e = f
        BY <1>1, <1>2, <1>9 DEF BufferInv
      <4>. QED BY <1>9, <4>1, <4>2, <4>3 DEF BatchOK
    <3>2. u.tx.page = p => u.tx.id = c.tx
      BY <1>3
    <3>. QED BY <1>3, <1>5, <1>8, <2>2, <3>1, <3>2 DEF CommitOK
  <2>. QED BY <2>1, <2>2
<1>16. CommitsInv(u, h)
  BY <1>15 DEF CommitsInv
<1>17. LateIn(u, h) = LateIn(w, g)
  BY <1>1 DEF LateIn
<1>18. \A e \in events : e.page \in Pages /\ e.page # p
  BY EventFacts
<1>19. EventsInv(u, h)
  <2>1. \A e, f \in u.ev : e.id = f.id => e = f
    BY <1>1, <1>2 DEF Safe, EventsInv
  <2>2. ASSUME NEW e \in u.ev PROVE EventOK(e, u, h)
    <3>1. u.cm[e.page] = w.cm[e.page] /\ e \in w.ev
      BY <1>1, <1>5, <1>18
    <3>2. \A r \in RefsOf(e.page) : u.src[r] = w.src[r]
      <4>1. \A r \in RefsOf(e.page) : r \in Refs /\ r \notin RefsOf(p)
        BY <1>18, PagesApart DEF RefsOf
      <4>. QED BY <1>1, <4>1
    <3>3. \A r \in RefsOf(e.page) : u.src[r] = w.src[r] /\ (r \in LateIn(u, h) => r \in LateIn(w, g))
      BY <1>17, <3>2
    <3>4. e.page \in u.ask => e.page \in w.ask
      BY <1>1
    <3>5. Carries(e.page, w, g, u, h)
      BY <1>7
    <3>. QED BY <1>2, <3>1, <3>3, <3>4, <3>5, EventApart
  <2>. QED BY <2>1, <2>2 DEF EventsInv
<1>20. AgentInv(u, h)
  <2>1. /\ \A content : Agrees(content, w, g) => Agrees(content, u, h)
        /\ Settled(u, h) \subseteq Settled(w, g) /\ u.ev = w.ev /\ h.stale = g.stale /\ h.agent = g.agent
    BY <1>1, <1>6, <1>7
  <2>. QED BY <1>2, <2>1 DEF AgentInv
<1>21. Safe(u, h)
  BY <1>11, <1>12, <1>13, <1>14, <1>16, <1>19, <1>20 DEF Safe
<1>22. Awaited(u, {p})
  BY <1>1, <1>2, <1>5 DEF Awaited
<1>23. Fresh(u, h)
  BY StateFresh DEF Fresh
<1>. QED BY <1>3, <1>5, <1>18, <1>21, <1>22, <1>23 DEF Turning

LEMMA ApplySafe ==
  ASSUME ApplyInv, NEW p \in Pages, Apply(p)
  PROVE  ApplyInv' /\ Undone
<1> DEFINE batch == Staged(p, buffer)
           src   == RolledBack(p)
           t     == decided + 1
           c     == Commit0(batch, src, p, t)
           tx    == [id |-> t, page |-> p, ids |-> Ids(batch), content |-> Content(src, p)]
           w     == [World EXCEPT !.src = src, !.tx = tx, !.ask = @ \ {p}]
           u     == [w EXCEPT !.cm[p] = c]
           v     == NextChunk(w, p, c)
           h     == Others'
<1>1. /\ up /\ decided' = t /\ ~commits[p].active /\ Becomes(v)
      /\ UNCHANGED <<up, stale, agent, saves, wanted, exempt>>
  BY DEF Apply, Decides
<1>2. t \in Nat
  BY AgentTyped
<1>3. /\ src \in [Refs -> Texts] /\ Agrees(src, World, Others)
      /\ \A r \in Refs : r \notin RefsOf(p) => src[r] = source[r]
  BY RolledBackFacts
<1>4. /\ w.src = src /\ w.tx = tx /\ w.ask = decision \ {p} /\ w.buf = buffer /\ w.ev = events
      /\ w.cm = commits /\ IsWorld(w)
      /\ u.src = src /\ u.tx = tx /\ u.ask = decision \ {p} /\ u.buf = buffer /\ u.ev = events
      /\ u.cm = [commits EXCEPT ![p] = c]
  BY SourceFacts DEF World, IsWorld
<1>5. /\ h.wanted = wanted /\ h.exempt = exempt /\ h.saves = saves /\ h.agent = agent /\ h.stale = stale
  BY <1>1, OthersFieldsAfter
<1>6. Fits(c) /\ c.attempt = 0 /\ c.done = {}
  <2> HIDE DEF src, t
  <2>. QED BY <1>2, <1>3, BeginsFits
<1>7. tx = [id |-> t, page |-> p, ids |-> Ids(Staged(p, buffer)), content |-> Content(src, p)]
  OBVIOUS
<1>8. c = Commit0(Staged(p, buffer), src, p, t)
  OBVIOUS
<1> HIDE DEF w, u, v, h, src, tx, c, t, batch
<1>9. Turning(u, h, p)
  <2>1. u.ask \subseteq decision /\ u.src \in [Refs -> Texts] /\ Agrees(u.src, World, Others)
    BY <1>3, <1>4
  <2>2. \A r \in Refs : r \notin RefsOf(p) => u.src[r] = source[r]
    BY <1>3, <1>4
  <2>3. u.cm = [commits EXCEPT ![p] = Commit0(Staged(p, buffer), u.src, p, t)]
    BY <1>4, <1>8
  <2>4. u.tx = [id |-> t, page |-> p, ids |-> Ids(Staged(p, buffer)), content |-> Content(u.src, p)]
    BY <1>4, <1>7
  <2>5. exempt \subseteq h.exempt /\ h.exempt \subseteq Refs
    BY <1>5, AgentTyped
  <2>. QED BY <1>1, <1>2, <1>4, <1>5, <2>1, <2>2, <2>3, <2>4, <2>5, Begins
<1>10. PICK d, ops : GoesOn(w, v, p, d, ops) /\ Onward(c, d, ops) /\ d.done = {}
  BY <1>4, <1>6, NextChunkGoesOn DEF v
<1>11. GoesOn(u, v, p, d, ops)
  <2>1. \A x : [u.cm EXCEPT ![p] = x] = [w.cm EXCEPT ![p] = x]
    BY <1>4
  <2>. QED BY <1>4, <1>10, <2>1 DEF GoesOn
<1>12. u.cm[p] = c
  BY <1>4, SourceFacts
<1>13. Safe(v, h) /\ Awaited(v, {})
  <2>1. p \notin u.ask
    BY <1>4
  <2>. QED BY <1>9, <1>10, <1>11, <1>12, <2>1, GoesOnTurn
<1>14. ApplyInv'
  BY <1>1, <1>2, <1>13, TurnSafe DEF h
<1>15. Undone
  <2>1. commits' = [commits EXCEPT ![p] = [d EXCEPT !.event = NewId]]
    BY <1>1, <1>4, <1>10 DEF Becomes, GoesOn
  <2>2. \A q \in Pages : q # p => commits'[q] = commits[q]
    BY <2>1, SourceFacts
  <2>. QED BY <1>1, <2>2 DEF Undone
<1>. QED BY <1>14, <1>15

LEMMA KeepFixingSafe ==
  ASSUME ApplyInv, NEW p \in Pages, KeepFixing(p)
  PROVE  ApplyInv' /\ Undone
<1> DEFINE batch == Staged(p, buffer)
           t     == transaction.id
           c     == Commit0(batch, source, p, t)
           all   == [status |-> "done", applied |-> Ids(batch), failed |-> {}, files |-> TRUE]
           u     == [World EXCEPT !.cm[p] = c]
           h     == Others'
<1>1. /\ up /\ decided' = decided + 1 /\ ~commits[p].active /\ transaction # NoTransaction
      /\ UNCHANGED <<up, stale, agent, saves, wanted>>
      /\ exempt' = exempt \cup {r \in Late : IsStaged(r, buffer) /\ ~IsStaged(r, buffer')}
  BY DEF KeepFixing, Decides
<1>2. PICK v \in Concluded(u, p, all) : Becomes(v)
  BY DEF KeepFixing
<1>3. t \in Nat /\ source \in [Refs -> Texts] /\ Agrees(source, World, Others)
      /\ AgentInv(World, Others) /\ BufferInv(World, Others)
  BY <1>1, SourceFacts, WorldFields DEF Safe, WorldTyped
<1>4. /\ u.src = source /\ u.tx = transaction /\ u.ask = decision /\ u.buf = buffer /\ u.ev = events
      /\ u.cm = [commits EXCEPT ![p] = c] /\ IsWorld(u)
  BY SourceFacts DEF World, IsWorld
<1>5. /\ h.wanted = wanted /\ h.exempt = exempt' /\ h.saves = saves /\ h.agent = agent /\ h.stale = stale
  BY <1>1, OthersFieldsAfter
<1>6. Fits(c) /\ c.batch = batch
  <2> HIDE DEF t
  <2>. QED BY <1>3, BeginsFits
<1>7. c = Commit0(Staged(p, buffer), source, p, t) /\ all.applied = Ids(batch)
  OBVIOUS
<1> HIDE DEF u, h, c, t, batch, all
<1>8. Turning(u, h, p)
  <2>1. u.cm = [commits EXCEPT ![p] = Commit0(Staged(p, buffer), u.src, p, t)]
    BY <1>4, <1>7
  <2>2. u.tx = transaction /\ t = transaction.id
    BY <1>4 DEF t
  <2>3. exempt \subseteq h.exempt /\ h.exempt \subseteq Refs
    <3>1. \A r : IsStaged(r, buffer) => r \in Refs
      BY <1>3, WorldFields DEF BufferInv, IsStaged, RefsOf
    <3>. QED BY <1>1, <1>5, <3>1, AgentTyped
  <2>4. u.ask \subseteq decision /\ \A r \in Refs : r \notin RefsOf(p) => u.src[r] = source[r]
    BY <1>4
  <2>. QED BY <1>1, <1>3, <1>4, <1>5, <2>1, <2>2, <2>3, <2>4, Begins
<1>9. u.cm[p] = c
  BY <1>4, SourceFacts
<1>10. Concludes(u, v, p, all.applied)
  BY <1>2, <1>4, <1>6, <1>7, <1>9, ConcludedTurns
<1>11. ASSUME Accepts(u, v, p, all.applied) PROVE Unhampered(u, h, v)
  <2> SUFFICES ASSUME NEW r \in Settled(v, h), r \notin Settled(u, h)
               PROVE  /\ h.agent.pc # "idle" /\ h.agent.id \notin Ids(u.ev) => r \notin RefsIn(h.agent.ops)
                      /\ \A d \in h.stale : r \in DOMAIN d.content => d.content[r] = u.src[r]
    BY DEF Unhampered
  <2>1. r \in Refs /\ r \notin exempt' /\ ~IsStaged(r, v.buf) /\ IsStaged(r, u.buf)
    BY <1>5 DEF Settled
  <2>2. buffer' = v.buf
    BY <1>2 DEF Becomes
  <2>3. r \notin Late
    BY <1>1, <1>4, <2>1, <2>2
  <2>4. agent.pc # "idle" /\ agent.id \notin Ids(events) => r \notin RefsIn(agent.ops)
    BY <2>3 DEF Late, RefsIn
  <2>5. \A d \in stale : r \notin DOMAIN d.content
    <3>1. \A d \in stale : agent.pc # "idle" /\ agent.id \notin Ids(events)
      BY <1>3, WorldFields, OthersFields DEF AgentInv
    <3>. QED BY <2>3, <3>1 DEF Late
  <2>. QED BY <1>4, <1>5, <2>4, <2>5
<1>12. Safe(v, h) /\ Awaited(v, {})
  BY <1>8, <1>10, <1>11, EndsTurn, GoesOnTurn, AcceptsTurn DEF Concludes
<1>13. ApplyInv'
  BY <1>1, <1>2, <1>12, AgentTyped, TurnSafe DEF h
<1>14. Undone
  <2>1. Turns(u, v, p)
    BY <1>10 DEF Concludes, Turns
  <2>2. \A q \in Pages : q # p => v.cm[q] = u.cm[q]
    BY <1>4, <2>1, OtherPagesKept DEF IsWorld
  <2>3. \A q \in Pages : q # p => commits'[q] = commits[q]
    BY <1>2, <1>4, <2>2, SourceFacts DEF Becomes
  <2>. QED BY <1>1, <2>3 DEF Undone
<1>. QED BY <1>13, <1>14

-----------------------------------------------------------------------------
(* The invariant.                                                          *)

LEMMA InitSafe == Init => ApplyInv
<1> SUFFICES ASSUME Init PROVE ApplyInv
  OBVIOUS
<1> DEFINE w == World
           g == Others
<1>1. /\ w.src = [r \in Refs |-> 0] /\ w.buf = {} /\ w.tx = NoTransaction
      /\ w.ev = {} /\ w.cm = [p \in Pages |-> NoCommit] /\ w.ask = {}
      /\ g.wanted = [r \in Refs |-> 0] /\ g.exempt = {} /\ g.saves = 0 /\ g.stale = {} /\ g.agent = Resting
  BY WorldFields, OthersFields DEF Init
<1>2. 0 \in Texts /\ 0 \in 0 .. MaxSaves
  BY TextTypes, ApplyAssumption DEF ApplyAssumption
<1>3. IsFiniteSet({})
  BY FS_EmptySet
<1>4. /\ Resting.pc = "idle" /\ Resting.id = NoEvent
      /\ Resting \in [pc : {"idle", "edit", "reply"}, id : Nat, ops : SUBSET Op]
  BY DEF Resting, NoEvent
<1> HIDE DEF w, g
<1>5. Settled(w, g) = {}
  BY <1>1 DEF Settled
<1>6. WorldTyped(w) /\ OthersTyped(g)
  BY <1>1, <1>2, <1>3, <1>4 DEF WorldTyped, OthersTyped
<1>7. BufferInv(w, g) /\ SourceInv(w, g) /\ EventsInv(w, g)
  BY <1>1, <1>5 DEF BufferInv, SourceInv, Agrees, EventsInv
<1>8. CommitsInv(w, g) /\ Awaited(w, {})
  BY <1>1 DEF CommitsInv, Awaited, NoCommit
<1>9. AgentInv(w, g)
  BY <1>1, <1>4 DEF AgentInv
<1>10. Safe(World, Others) /\ Awaited(World, {})
  BY <1>6, <1>7, <1>8, <1>9 DEF Safe, w, g
<1>. QED BY <1>10 DEF Init, ApplyInv

LEMMA StandsSafe == ASSUME ApplyInv, UNCHANGED vars PROVE ApplyInv' /\ Undone
<1>1. /\ World' = World /\ Others' = Others
      /\ UNCHANGED <<up, decided, events, commits>>
  BY DEF vars, World, Others
<1>. QED BY <1>1, IdleUndone DEF ApplyInv

LEMMA NextSafe == ASSUME ApplyInv, Next PROVE ApplyInv' /\ Undone
<1>1. ASSUME NEW p \in Pages, NEW refs \in SUBSET RefsOf(p) \ {{}}, Save(p, refs) PROVE ApplyInv' /\ Undone
  BY <1>1, SaveSafe, IdleUndone DEF Save
<1>2. ASSUME NEW p \in Pages, Apply(p) PROVE ApplyInv' /\ Undone
  BY <1>2, ApplySafe
<1>3. ASSUME NEW p \in Pages, KeepFixing(p) PROVE ApplyInv' /\ Undone
  BY <1>3, KeepFixingSafe
<1>4. ASSUME NEW p \in Pages, RollBack(p) PROVE ApplyInv' /\ Undone
  BY <1>4, RollBackSafe, IdleUndone DEF RollBack
<1>5. ASSUME NEW p \in Pages, Discard(p) PROVE ApplyInv' /\ Undone
  BY <1>5, DiscardSafe
<1>6. ASSUME NEW e \in events, Take(e) PROVE ApplyInv' /\ Undone
  BY <1>6, TakeSafe, IdleUndone DEF Take
<1>7. ASSUME NEW e \in events, Expire(e) PROVE ApplyInv' /\ Undone
  BY <1>7, ExpireSafe
<1>8. CASE Edit
  BY <1>8, EditSafe, IdleUndone DEF Edit
<1>9. CASE Reply
  BY <1>9, ReplySafe
<1>10. CASE AgentDies
  BY <1>10, DiesSafe, IdleUndone DEF AgentDies
<1>11. CASE Crash
  <2>1. Undone
    BY <1>11 DEF Crash, Undone
  <2>. QED BY <1>11, <2>1, CrashSafe
<1>12. CASE Restart
  BY <1>12, RestartSafe, IdleUndone DEF Restart
<1>. QED BY <1>1, <1>2, <1>3, <1>4, <1>5, <1>6, <1>7, <1>8, <1>9, <1>10, <1>11, <1>12 DEF Next

\* The inductive invariant holds in every state: each copy of the source, each
\* event and each batch that an apply works with fits the buffer, what the user
\* last saved and what the agent may still do.
THEOREM ApplyInvariant == Spec => []ApplyInv
<1>1. ApplyInv /\ [Next]_vars => ApplyInv'
  BY NextSafe, StandsSafe
<1>. QED BY <1>1, InitSafe, PTL DEF Spec

-----------------------------------------------------------------------------
(* What it comes to.                                                       *)

\* Every variable has its type, and the queue and the applies fit: an event is
\* what one apply waits for, and an apply under way waits for one
\* (resolveDeferred, the timeout, cancelPendingEvents).
THEOREM ApplyTyped == Spec => []TypeOK
<1>1. ApplyInv => TypeOK
  <2> SUFFICES ASSUME ApplyInv PROVE TypeOK
    OBVIOUS
  <2>1. WorldTyped(World) /\ OthersTyped(Others) /\ EventsInv(World, Others) /\ Awaited(World, {}) /\ up \in BOOLEAN
    BY DEF ApplyInv, Safe
  <2>2. EventsAwaited
    BY <2>1, WorldFields DEF EventsAwaited, EventsInv, EventOK, Awaited
  <2>3. /\ source \in [Refs -> Texts]
        /\ buffer \subseteq Entry /\ \A e, f \in buffer : e.id = f.id => e = f
        /\ transaction \in {NoTransaction} \cup
             [id : Nat, page : Pages, ids : SUBSET (1 .. MaxSaves), content : Contents]
        /\ events \subseteq [id : Nat, page : Pages, ops : SUBSET Op, content : Contents]
        /\ commits \in [Pages -> Commit \cup {NoCommit}] /\ decision \subseteq Pages
    BY <2>1, WorldFields DEF WorldTyped
  <2>4. /\ stale \subseteq [id : Nat, content : Contents]
        /\ agent \in [pc : {"idle", "edit", "reply"}, id : Nat, ops : SUBSET Op]
        /\ exempt \subseteq Refs /\ saves \in 0 .. MaxSaves /\ wanted \in [Refs -> 0 .. MaxSaves]
    BY <2>1, OthersFields DEF OthersTyped
  <2>. QED BY <2>1, <2>2, <2>3, <2>4 DEF TypeOK
<1>. QED BY <1>1, ApplyInvariant, PTL

\* No edit is lost: the text that the user saved last for an element is in the
\* source or still staged until it is discarded, whatever applies, repairs,
\* rollbacks, deadlines and crashes do meanwhile, and in whatever order
\* (commitManualEdits, clearAppliedEntries, the rollbacks).
THEOREM EditsTheorem == Spec => []EditsKept
<1>1. ApplyInv => EditsKept
  <2> SUFFICES ASSUME ApplyInv, NEW r \in Refs, r \notin exempt PROVE Agreed(r)
    BY DEF EditsKept
  <2>1. Agrees(source, World, Others) /\ source \in [Refs -> Texts] /\ BufferInv(World, Others)
    BY SourceFacts DEF Safe
  <2>2. CASE r \in Settled(World, Others)
    BY <2>1, <2>2, OthersFields DEF Agrees, Agreed
  <2>3. CASE IsStaged(r, buffer)
    BY <2>1, <2>3, WorldFields, OthersFields DEF BufferInv, IsStaged, Agreed
  <2>4. wanted[r] = 0 \/ r \in Settled(World, Others) \/ IsStaged(r, buffer)
    BY WorldFields, OthersFields DEF Settled
  <2>. QED BY <2>2, <2>3, <2>4 DEF Agreed
<1>. QED BY <1>1, ApplyInvariant, PTL

\* An apply that ends without a repair and without a question to the user leaves
\* nothing of an entry that is still staged in the source (commitManualEdits'
\* error path and findUnappliedEntrySourceChanges): it put the source back, or
\* it found that nothing was there.
THEOREM FailuresTheorem == Spec => FailuresUndone
<1>1. ApplyInv /\ [Next]_vars => [Undone]_vars
  BY NextSafe, StandsSafe
<1>2. Spec => [][Undone]_vars
  BY <1>1, ApplyInvariant, PTL DEF Spec
<1>. QED BY <1>2 DEF FailuresUndone, Undone
=============================================================================
