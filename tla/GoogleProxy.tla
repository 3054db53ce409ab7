----------------------------- MODULE GoogleProxy -----------------------------
(***************************************************************************)
(* The Google request handler, handleChatCompletions of                    *)
(* internal/proxy/google.go, and the statements on `model_usage' it calls  *)
(* (ReserveModelUsage and RollbackModelUsage of internal/store).  A request*)
(* is charged twice: the pool charges the key in memory, then the handler  *)
(* claims one of the day's requests for the model in the table.  The second*)
(* may be refused, or fail, when the first is made.                        *)
(*                                                                         *)
(* slot is a history variable.                                             *)
(***************************************************************************)
EXTENDS RequestHandler

CONSTANTS
  GoogleCodes,     \* the answers the upstream may give
  ModelDaily,      \* limits.GoogleFree: requests of a key and a model a day
  FiveMinutes      \* the cooldown after a 429

ASSUME GoogleAssumption ==
  /\ GoogleCodes \subseteq {"network", "200", "401", "429", "unavailable", "400", "503"}
  /\ ModelDaily \in Nat \ {0} /\ FiveMinutes \in Nat

VARIABLES
  used,      \* model_usage.requests of every key, model and day
  slot       \* on what day a request claimed a place with a key, and gave it back

Days == 0 .. UTCDay(MaxTime)

Never == -1

NoSlot == [on |-> Never, off |-> Never]

SlotRec == [on : Days \cup {Never}, off : Days \cup {Never}]

GoogleInit ==
  /\ used = [k \in Keys |-> [m \in Models |-> [d \in Days |-> 0]]]
  /\ slot = [c \in Requests |-> [k \in Keys |-> NoSlot]]

\* The requests of today that c's attempt is counted with.
UsedToday(c) == used[ask[c].key][req[c].model][Today]

UseToday(c, n) == [used EXCEPT ![ask[c].key][req[c].model][Today] = n]

-----------------------------------------------------------------------------
(* ReserveModelUsage.                                                      *)

\* A mutant of the statement's WHERE: one request too many.
PlaceOrOneMore(n) == n <= ModelDaily

PlaceLeft(n) == n < ModelDaily

ReserveSlot(c) ==
  /\ Doing(c, "reserve")
  /\ PlaceLeft(UsedToday(c))
  /\ used' = UseToday(c, UsedToday(c) + 1)
  /\ slot' = [slot EXCEPT ![c][ask[c].key] = [on |-> Today, off |-> Never]]
  /\ req' = [req EXCEPT ![c].todo = Sync \o <<"send">>]
  /\ UNCHANGED <<clock, mem, ask, row, history>>

\* The key stays charged in memory, and nothing saves it: the next request that
\* saves the key saves this charge too.
GiveUpSlot(c, then) ==
  LET k == ask[c].key
  IN  /\ Doing(c, "reserve")
      /\ req' = [req EXCEPT ![c].todo = <<>>, ![c].then = then]
      /\ fate' = Fate(c, "leaked")
      /\ stale' = stale \cup Writing(k)
      /\ crossed' = crossed \cup {k}
      /\ UNCHANGED <<clock, mem, ask, row, used, slot>>

\* The table is full for today: another key.
SlotRefused(c) ==
  /\ GiveUpSlot(c, "retry")
  /\ ~PlaceLeft(UsedToday(c))

\* The statement fails: the client is answered 500.
ReserveFails(c) == GiveUpSlot(c, "answer")

\* RollbackModelUsage, on the day of the refund.
Unreserve(c) ==
  /\ Doing(c, "unreserve")
  /\ used' = UseToday(c, IF UsedToday(c) > 0 THEN UsedToday(c) - 1 ELSE 0)
  /\ slot' = [slot EXCEPT ![c][ask[c].key].off = Today]
  /\ req' = Done(c)
  /\ UNCHANGED <<clock, mem, ask, row, history>>

\* Its error is ignored.
UnreserveFails(c) ==
  /\ Doing(c, "unreserve")
  /\ fate' = Fate(c, "kept")
  /\ req' = Done(c)
  /\ UNCHANGED <<clock, mem, ask, row, stale, crossed, used, slot>>

-----------------------------------------------------------------------------
(* The answer of the upstream.  "network" also stands for a body that      *)
(* cannot be read or decoded, "401" for 403, "503" for everything from 500 *)
(* on, "unavailable" for a 400 that says the key may not use the model,    *)
(* "400" for the other answers from 400 on and for a request that cannot be*)
(* built.                                                                  *)

Refund2 == <<"rollback", "unreserve">>

\* A mutant: a 5xx gives back the charge in memory only.
GoogleStepsHalfRefunded(code) ==
  CASE code = "200"              -> <<>>
    [] code = "401"              -> Refund2 \o <<"invalid">> \o Sync
    [] code = "429"              -> Refund2 \o <<"limit">> \o Sync
    [] code = "unavailable"      -> Refund2 \o <<"block">> \o Sync
    [] code = "503"              -> <<"rollback", "pause">> \o Sync
    [] code \in {"network", "400"} -> Refund2 \o Sync

GoogleSteps(code) ==
  CASE code = "200"                -> <<>>
    [] code = "401"                -> Refund2 \o <<"invalid">> \o Sync
    [] code = "429"                -> Refund2 \o <<"limit">> \o Sync
    [] code = "unavailable"        -> Refund2 \o <<"block">> \o Sync
    [] code = "503"                -> Refund2 \o <<"pause">> \o Sync
    [] code \in {"network", "400"} -> Refund2 \o Sync

GoogleAnswer(c, code) ==
  /\ Doing(c, "send")
  /\ req' = [req EXCEPT ![c].todo = GoogleSteps(code),
                        ![c].wait = IF code = "429" THEN FiveMinutes ELSE 0,
                        ![c].then = IF code \in {"200", "400"} THEN "answer" ELSE "retry"]
  /\ fate' = IF code = "200" THEN fate ELSE Fate(c, "unserved")
  /\ UNCHANGED <<clock, mem, ask, row, stale, crossed, used, slot>>

\* The key may not serve the model for 24 hours.
BlockForADay(c) ==
  Touch(c, "block", SetModelCooldown(Held(c), req[c].model, clock + DayLength))

GoogleHandle(c) ==
  \/ ReserveSlot(c)
  \/ SlotRefused(c)
  \/ ReserveFails(c)
  \/ Unreserve(c)
  \/ UnreserveFails(c)
  \/ \E code \in GoogleCodes : GoogleAnswer(c, code)
  \/ /\ \/ \E m \in Models : Start(c, m)
        \/ \E k \in Keys : GetKey(c, k, <<"reserve">>)
        \/ BlockForADay(c)
        \/ HandlerStep(c)
     /\ UNCHANGED <<used, slot>>
=============================================================================
