---------------------------- MODULE AihubmixProxy ----------------------------
(***************************************************************************)
(* The AIHubMix request handler, proxyWithRetry of                         *)
(* internal/proxy/aihubmix.go.  Errors are told apart by their bodies.  A  *)
(* 429 of the model's provider is retried, through a proxy or after a      *)
(* backoff, each time with another key; a key that is limited itself waits *)
(* for a minute, then for an hour, then until midnight.                    *)
(***************************************************************************)
EXTENDS RequestHandler

CONSTANTS
  AihubmixCodes,   \* what may become of a request: the classes of classifyAIHubMixError,
                   \* "network", "200", "quota" (a 200 that tells of an empty account),
                   \* and "unsendable" (its path makes no URL)
  MaxBackoffs,     \* backoffs of a request (3 in the code)
  Ladder           \* the first cooldowns of a key that is limited: a minute, an hour

ASSUME AihubmixAssumption ==
  /\ AihubmixCodes \subseteq {"network", "200", "unsendable", "quota", "invalidKey", "accountLimit",
                              "keyRate", "providerOnce", "keyModel", "transient", "return"}
  /\ MaxBackoffs \in Nat
  /\ Ladder \in Seq(Nat)

VARIABLE
  rate429    \* the 429s of every key, and the day they are counted for

\* More 429s than the ladder has steps are all alike.
Rate429Rec == [day : Nat, count : [Keys -> 0 .. Len(Ladder)]]

AihubmixInit == rate429 = [day |-> 0, count |-> [k \in Keys |-> 0]]

\* The counts of today.
Counts429 == IF rate429.day = Today THEN rate429.count ELSE [k \in Keys |-> 0]

\* nextAIHubMix429Cooldown.
NextCooldown(k) ==
  IF Counts429[k] < Len(Ladder) THEN Ladder[Counts429[k] + 1] ELSE NextMidnight(clock) - clock

Count429(k) ==
  [day |-> Today, count |-> [Counts429 EXCEPT ![k] = IF @ < Len(Ladder) THEN @ + 1 ELSE @]]

\* A mutant: the refund before a backoff is not saved.
AihubmixStepsUnsaved(code, model) ==
  CASE code \in {"quota", "accountLimit"}       -> <<"exhaust">> \o Sync
    [] code = "invalidKey"                      -> <<"invalid">> \o Sync
    [] code = "keyRate"                         -> <<"rollback", "limit">> \o Sync
    [] code = "keyModel"                        -> IF model = NoModel THEN Sync
                                                   ELSE <<"block">> \o Sync
    [] code = "transient"                       -> <<"rollback", "pause">> \o Sync
    [] code \in {"network", "return"}           -> <<"rollback">> \o Sync
    [] code = "providerOnce"                    -> <<"rollback">>
    [] code \in {"200", "unsendable"}           -> <<>>

AihubmixSteps(code, model) ==
  CASE code \in {"quota", "accountLimit"}                 -> <<"exhaust">> \o Sync
    [] code = "invalidKey"                                -> <<"invalid">> \o Sync
    [] code = "keyRate"                                   -> <<"rollback", "limit">> \o Sync
    [] code = "keyModel"                                  -> IF model = NoModel THEN Sync
                                                             ELSE <<"block">> \o Sync
    [] code = "transient"                                 -> <<"rollback", "pause">> \o Sync
    [] code \in {"network", "return", "providerOnce"}     -> <<"rollback">> \o Sync
    [] code \in {"200", "unsendable"}                     -> <<>>

\* The answer to the third backoff goes to the client, and so do answers that
\* no other key would change.
AihubmixAnswer(c, code) ==
  LET viaProxy == code = "providerOnce" /\ AfterProxy /\ ~req[c].proxied
      backsOff == code = "providerOnce" /\ ~viaProxy /\ req[c].backoffs < MaxBackoffs
  IN  /\ Doing(c, "send")
      /\ req' = [req EXCEPT
                   ![c].todo     = AihubmixSteps(code, req[c].model),
                   ![c].wait     = IF code = "keyRate" THEN NextCooldown(ask[c].key) ELSE 0,
                   ![c].then     = IF code \in {"200", "unsendable", "return"}
                                      \/ (code = "providerOnce" /\ ~viaProxy /\ ~backsOff)
                                   THEN "answer" ELSE "retry",
                   ![c].proxied  = @ \/ viaProxy,
                   ![c].backoffs = IF backsOff THEN @ + 1 ELSE @]
      /\ rate429' = IF code = "keyRate" THEN Count429(ask[c].key) ELSE rate429
      /\ fate' = IF code \in {"quota", "accountLimit"} THEN Fate(c, "exhausted")
                 ELSE IF code \in {"200", "unsendable", "invalidKey", "keyModel"} THEN fate
                 ELSE Fate(c, "unserved")
      /\ UNCHANGED <<clock, mem, ask, row, stale, crossed>>

\* The key may not serve the model until midnight.
BlockModel(c) ==
  Touch(c, "block", SetModelCooldown(Held(c), req[c].model, NextMidnight(clock)))

\* A chat has a model; requests to other paths have none.
AihubmixHandle(c) ==
  \/ \E code \in AihubmixCodes : AihubmixAnswer(c, code)
  \/ /\ \/ \E m \in Models \cup {NoModel} : Start(c, m)
        \/ \E k \in Keys : GetKey(c, k, Sync \o <<"send">>)
        \/ BlockModel(c)
        \/ HandlerStep(c)
     /\ UNCHANGED rate429
=============================================================================
