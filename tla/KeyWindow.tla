----------------------------- MODULE KeyWindow ------------------------------
(***************************************************************************)
(* The sliding windows of a key (RequestTimes, ModelRequestTimes) seen from*)
(* outside: how many requests the pool charged to a key in any window of   *)
(* the wall clock.  A caller stamps its request with the instant at which  *)
(* its search began, so a search that took time stamps it too early; those *)
(* requests are not counted here.  prompt is a history variable.           *)
(***************************************************************************)
EXTENDS KeyPool

VARIABLE prompt   \* prompt[k][m]: the requests for m charged to k when they were stamped

Lanes == Models \cup {NoModel}

\* Is this step the end of a search of c for m, begun at the same instant,
\* with a charge on k?
ChargesNow(c, k, m) ==
  /\ sel[c].pc = "reserve" /\ sel'[c].pc = "held"
  /\ sel[c].best = k /\ sel[c].model = m /\ sel[c].now = clock

WindowInit == Init /\ prompt = [k \in Keys |-> [m \in Lanes |-> {}]]

WindowNext ==
  /\ Next
  /\ prompt' = [k \in Keys |-> [m \in Lanes |->
                  IF \E c \in Callers : ChargesNow(c, k, m)
                  THEN AddTime(prompt[k][m], clock) ELSE prompt[k][m]]]

windowvars == <<vars, prompt>>

WindowSpec == WindowInit /\ [][WindowNext]_windowvars

-----------------------------------------------------------------------------
InWindow(k, m, t) == {x \in prompt[k][m] : t - Window < x[1] /\ x[1] <= t}

\* The minute limits of a key and of each of its models (cleanOldRequests,
\* cleanTimes, TryReserve, TryReserveModel): no window of the wall clock holds
\* more prompt requests than the limit, whoever trims the lists of times and
\* resets the key's day in between.
WindowKept ==
  \A k \in Keys, m \in Lanes, t \in 0 .. MaxTime :
    Cardinality(InWindow(k, m, t)) <= IF m = NoModel THEN KeyRPM ELSE ModelRPM
=============================================================================
