-------------------------- MODULE OpenRouterProxy ---------------------------
(***************************************************************************)
(* The OpenRouter request handler, handleChatCompletions of                *)
(* internal/proxy/handler.go: what it makes of the answers of the upstream.*)
(***************************************************************************)
EXTENDS RequestHandler

CONSTANTS
  OpenRouterCodes, \* the answers the upstream may give
  Backoff,         \* the cooldowns a 429 may ask for
  Remaining        \* values of X-RateLimit-Remaining

ASSUME OpenRouterAssumption ==
  /\ OpenRouterCodes \subseteq {"network", "200", "upstream429", "429", "401", "503", "501", "400"}
  /\ Backoff \subseteq Nat /\ Remaining \subseteq Int

-----------------------------------------------------------------------------
(* The answer of the upstream, and the steps it calls for.  "upstream429"  *)
(* is a 429 of the model's provider (IsUpstreamRateLimit), "401" also      *)
(* stands for 403, "503" for 500, 502 and 504, "501" for the other answers *)
(* from 500 on, and "400" for the other answers from 400 on.               *)

\* HandleProxyError.
Penalty(code) ==
  CASE code = "429" -> <<"limit">>
    [] code = "401" -> <<"invalid">>
    [] code = "503" -> <<"pause">>
    [] OTHER        -> <<>>

\* The quota check on the body, or the refund of a 5xx.
Settlement(code, quota) ==
  IF quota THEN <<"exhaust">>
  ELSE IF code \in {"503", "501"} THEN <<"rollback">> ELSE <<>>

\* A mutant: a network error is not refunded.
StepsUnrefunded(code, quota, viaProxy) ==
  CASE code = "200"         -> Sync
    [] code = "network"     -> <<"pause">> \o Sync
    [] code = "upstream429" -> IF viaProxy THEN <<"rollback">> \o Sync ELSE <<>>
    [] OTHER                -> Penalty(code) \o Settlement(code, quota) \o Sync

Steps(code, quota, viaProxy) ==
  CASE code = "200"         -> Sync
    [] code = "network"     -> <<"rollback", "pause">> \o Sync
    [] code = "upstream429" -> IF viaProxy THEN <<"rollback">> \o Sync ELSE <<>>
    [] OTHER                -> Penalty(code) \o Settlement(code, quota) \o Sync

\* The attempts that do not count against a key's daily limit.
Unserved(code, viaProxy) ==
  code \in {"network", "503", "501"} \/ (code = "upstream429" /\ viaProxy)

\* ParseRateLimits: an answer may tell what remains of the key's limit.
Told(k, code) ==
  IF code = "network" THEN {k}
  ELSE {k} \cup {UpdateLimitRemaining(k, n) : n \in Remaining}

\* The upstream answers, or the connection fails or times out.  An upstream
\* 429 goes to the client, unless it is the first and proxies are in use.
Answer(c, code, quota) ==
  LET viaProxy == AfterProxy /\ ~req[c].proxied
  IN  /\ Doing(c, "send")
      /\ quota => code \in {"429", "401", "503", "501", "400"}
      /\ \E d \in IF code = "429" THEN Backoff ELSE {0} :
           req' = [req EXCEPT
                     ![c].todo    = Steps(code, quota, viaProxy),
                     ![c].wait    = d,
                     ![c].then    = IF code = "200" \/ (code = "upstream429" /\ ~viaProxy)
                                    THEN "answer" ELSE "retry",
                     ![c].proxied = @ \/ (code = "upstream429" /\ viaProxy)]
      /\ \E k \in Told(Held(c), code) : mem' = [mem EXCEPT ![ask[c].key] = k]
      /\ fate' = IF quota THEN Fate(c, "exhausted")
                 ELSE IF Unserved(code, viaProxy) THEN Fate(c, "unserved") ELSE fate
      /\ UNCHANGED <<clock, ask, row, stale, crossed>>

OpenRouterHandle(c) ==
  \/ Start(c, NoModel)
  \/ \E k \in Keys : GetKey(c, k, Sync \o <<"send">>)
  \/ \E code \in OpenRouterCodes, quota \in BOOLEAN : Answer(c, code, quota)
  \/ HandlerStep(c)
=============================================================================
