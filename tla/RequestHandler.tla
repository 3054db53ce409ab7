--------------------------- MODULE RequestHandler ---------------------------
(***************************************************************************)
(* What the request handlers of OpenRouter, AIHubMix and Google have in    *)
(* common, on top of the key dispenser and the keys table.  A request tries*)
(* some keys; each attempt reserves a key, saves it, calls the upstream,   *)
(* and then works off a short list of steps that the answer calls for.     *)
(* Every step takes the key's mutex by itself, or is one statement of the  *)
(* store, so requests interleave between any two of them: SyncKeyToDB is   *)
(* two steps, the snapshot and the write.                                  *)
(*                                                                         *)
(* fate, stale and crossed are history variables.                          *)
(***************************************************************************)
EXTENDS KeyDispenser, KeyRow, SequencesExt

CONSTANTS
  MaxKeyRetries,   \* -max-retries, below what the provider caps it at
  DailyLimit,      \* MaxLimit of every key; 0: none
  KeyRPM,          \* requests per window of a key
  AfterProxy,      \* are 429s of a model retried through a proxy? (mode after_429)
  Pause            \* the cooldown after a 5xx (OpenRouter: a network error too)

ASSUME HandlerAssumption ==
  /\ MaxKeyRetries \in Nat /\ DailyLimit \in Nat /\ KeyRPM \in Nat \ {0}
  /\ AfterProxy \in BOOLEAN /\ Pause \in Nat

VARIABLES
  req,       \* every request: where it is, its attempts, what it has to do
  row,       \* the keys table
  fate,      \* what became of the charge of a request on a key
  stale,     \* requests whose snapshot is older than a change to the same key
  crossed    \* keys whose row holds such an old snapshot

history == <<fate, stale, crossed>>

Requests == Callers

Sync == <<"snap", "write">>

StepNames == {"reserve", "snap", "write", "send", "rollback", "unreserve",
              "pause", "limit", "invalid", "exhaust", "block"}

ReqRec == [pc       : {"new", "select", "work", "done"},
           model    : Models \cup {NoModel},
           attempt  : 0 .. MaxKeyRetries,
           tried    : SUBSET Keys,
           proxied  : BOOLEAN,             \* proxyAfter429
           backoffs : Nat,                 \* provider429Retries
           todo     : Seq(StepNames),
           wait     : Nat,                 \* the cooldown that "limit" sets
           then     : {"retry", "answer"},
           snap     : RowRec \cup {NoRow}]

Fates == {"none", "charged", "leaked", "unserved", "kept", "exhausted"}

NewRequest == [pc |-> "new", model |-> NoModel, attempt |-> 0, tried |-> {},
               proxied |-> FALSE, backoffs |-> 0, todo |-> <<>>, wait |-> 0,
               then |-> "retry", snap |-> NoRow]

NewRow == AddRow(NoRow, DailyLimit, KeyRPM, 0)

HandlerInit ==
  /\ clock = 0
  /\ mem = [k \in Keys |-> NewKeyState(NewRow)]
  /\ row = [k \in Keys |-> NewRow]
  /\ ask = [c \in Requests |-> NotAsking]
  /\ steady = [c \in Requests |-> FreeFor(c)]
  /\ req = [c \in Requests |-> NewRequest]
  /\ fate = [c \in Requests |-> [k \in Keys |-> "none"]]
  /\ stale = {}
  /\ crossed = {}

-----------------------------------------------------------------------------
(* The attempts.                                                           *)

\* The request has been read, its model may be used and the firewall let it pass.
Start(c, m) ==
  /\ req[c].pc = "new"
  /\ req' = [req EXCEPT ![c].pc = "select", ![c].model = m]
  /\ UNCHANGED <<clock, mem, ask, row, history>>

AskKey(c) ==
  /\ req[c].pc = "select"
  /\ req[c].attempt < MaxKeyRetries
  /\ Ask(c, req[c].tried, req[c].model)
  /\ UNCHANGED <<req, row, history>>

\* The attempt begins with the steps of `todo'.
GetKey(c, k, todo) ==
  /\ Grant(c, k)
  /\ req' = [req EXCEPT ![c].pc      = "work",
                        ![c].attempt = @ + 1,
                        ![c].tried   = @ \cup {k},
                        ![c].todo    = todo]
  /\ fate' = [fate EXCEPT ![c][k] = "charged"]
  /\ UNCHANGED <<row, stale, crossed>>

\* The client has its answer: of the upstream, or 503 or 502 of the gateway.
Answered(c) == [req EXCEPT ![c].pc = "done"]

\* A mutant: a selection that failed is tried again.
NoKeyWaits(c) ==
  /\ Refuse(c)
  /\ req' = [req EXCEPT ![c].pc = "work", ![c].then = "retry"]
  /\ UNCHANGED <<row, history>>

NoKey(c) ==
  /\ Refuse(c)
  /\ req' = Answered(c)
  /\ UNCHANGED <<row, history>>

RetriesExhausted(c) ==
  /\ req[c].pc = "select"
  /\ req[c].attempt = MaxKeyRetries
  /\ ask[c].pc = "idle"
  /\ req' = Answered(c)
  /\ UNCHANGED <<clock, mem, ask, row, history>>

-----------------------------------------------------------------------------
(* The steps of an attempt.                                                *)

Doing(c, step) ==
  /\ req[c].pc = "work"
  /\ req[c].todo # <<>>
  /\ Head(req[c].todo) = step

Done(c) == [req EXCEPT ![c].todo = Tail(@)]

\* The key of c's attempt.
Held(c) == mem[ask[c].key]

\* What happened to the charge of c's attempt.
Fate(c, f) == [fate EXCEPT ![c][ask[c].key] = f]

\* One step on the key, under its mutex, which leaves it as r.
Touch(c, step, r) ==
  /\ Doing(c, step)
  /\ mem' = [mem EXCEPT ![ask[c].key] = r]
  /\ req' = Done(c)
  /\ UNCHANGED <<clock, ask, row, history>>

Settle(c) ==
  \/ Touch(c, "rollback", RollbackUsage(Held(c)))
  \/ Touch(c, "pause", SetCooldown(Held(c), clock + Pause, ""))
  \/ Touch(c, "limit", SetCooldown(Held(c), clock + req[c].wait, "rate_limited"))
  \/ Touch(c, "invalid", SetStatus(Held(c), "invalid", Today))
  \/ Touch(c, "exhaust", MarkDayExhausted(Held(c), Today))

Snap(c) ==
  /\ Doing(c, "snap")
  /\ req' = [Done(c) EXCEPT ![c].snap = ToDB(Held(c))]
  /\ stale' = stale \ {c}
  /\ UNCHANGED <<clock, mem, ask, row, fate, crossed>>

\* Requests that have taken a snapshot of key k and have still to write it.
Writing(k) == {c \in Requests : Doing(c, "write") /\ ask[c].key = k}

Write(c) ==
  LET k == ask[c].key
  IN  /\ Doing(c, "write")
      /\ row' = [row EXCEPT ![k] = UpdateKey(@, req[c].snap)]
      /\ req' = [Done(c) EXCEPT ![c].snap = NoRow]
      /\ stale' = (stale \cup Writing(k)) \ {c}
      /\ crossed' = IF c \in stale THEN crossed \cup {k} ELSE crossed \ {k}
      /\ UNCHANGED <<clock, mem, ask, fate>>

\* The list is done: answer the client, or try another key.
Conclude(c) ==
  /\ req[c].pc = "work"
  /\ req[c].todo = <<>>
  /\ Leave(c)
  /\ req' = IF req[c].then = "answer" THEN Answered(c)
            ELSE [req EXCEPT ![c].pc = "select"]
  /\ UNCHANGED <<row, history>>

\* The steps that do not depend on the provider.
HandlerStep(c) ==
  \/ AskKey(c)
  \/ NoKey(c)
  \/ RetriesExhausted(c)
  \/ Settle(c)
  \/ Snap(c)
  \/ Write(c)
  \/ Conclude(c)

\* The clock, the reset worker, and what the search of a request does to keys.
Background ==
  /\ \/ Tick
     \/ \E k \in Keys : ResetExpired(k) \/ \E c \in Requests : Look(c, k)
  /\ UNCHANGED <<req, row, history>>
=============================================================================
