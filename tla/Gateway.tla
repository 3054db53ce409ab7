------------------------------- MODULE Gateway -------------------------------
(***************************************************************************)
(* The three request handlers that share a design.  Each provider has a    *)
(* listener, a pool and a handler of its own (cmd/gateway/main.go), and    *)
(* they share nothing that a property here is about: a behaviour is that   *)
(* of one provider's pool.                                                 *)
(***************************************************************************)
EXTENDS OpenRouterProxy, AihubmixProxy, GoogleProxy

CONSTANT Providers     \* the providers whose handlers are looked at

ASSUME GatewayAssumption ==
  /\ Providers \subseteq {"openrouter", "aihubmix", "google"}
  /\ "google" \in Providers => Models # {}
  /\ MaxTime \in Nat /\ IsFiniteSet(Requests)

VARIABLE provider      \* whose pool it is

gatewayvars == <<clock, mem, ask, steady, provider, req, row, fate, stale, crossed,
                 rate429, used, slot>>

GatewayInit ==
  /\ provider \in Providers
  /\ HandlerInit
  /\ AihubmixInit
  /\ GoogleInit

\* A step of the handler of request c.
Handle(c) ==
  \/ provider = "openrouter" /\ OpenRouterHandle(c) /\ UNCHANGED <<rate429, used, slot>>
  \/ provider = "aihubmix" /\ AihubmixHandle(c) /\ UNCHANGED <<used, slot>>
  \/ provider = "google" /\ GoogleHandle(c) /\ UNCHANGED rate429

GatewayNext ==
  /\ \/ \E c \in Requests : Handle(c)
     \/ Background /\ UNCHANGED <<rate429, used, slot>>
  /\ Watched
  /\ UNCHANGED provider

\* A handler's goroutine runs on, and the upstream client answers or times out.
GatewaySpec ==
  /\ GatewayInit
  /\ [][GatewayNext]_gatewayvars
  /\ \A c \in Requests : WF_gatewayvars(Handle(c) /\ Watched /\ UNCHANGED provider)

-----------------------------------------------------------------------------
GatewayTypeOK ==
  /\ clock \in 0 .. MaxTime
  /\ mem \in [Keys -> KeyRec]
  /\ ask \in [Requests -> AskRec]
  /\ row \in [Keys -> RowRec]
  /\ req \in [Requests -> ReqRec]
  /\ rate429 \in Rate429Rec
  /\ used \in [Keys -> [Models -> [Days -> Nat]]]
  /\ slot \in [Requests -> [Keys -> SlotRec]]
  /\ fate \in [Requests -> [Keys -> Fates]] /\ stale \subseteq Requests /\ crossed \subseteq Keys

(***************************************************************************)
(* The counter of a key tells exactly the requests it served.              *)
(***************************************************************************)
\* The requests whose charges of key k had the fate f.
Fated(k, f) == {c \in Requests : fate[c][k] = f}

\* The charge of c on k has still to be given back.
Refunding(c, k) == ask[c].key = k /\ "rollback" \in Range(req[c].todo)

\* The requests that key k counts.
Counted(c, k) == fate[c][k] \in {"charged", "leaked"} \/ Refunding(c, k)

\* On the first day, a key that no answer declared exhausted counts every
\* request sent on it once, and no longer those that do not count against it:
\* however the retries, backoffs, refunds and penalties of several requests
\* interleave, no refund is lost or made twice (RollbackUsage).  Google's
\* handler leaks a charge when the table refuses a request (google.go:399).
CounterExact ==
  \A k \in Keys :
    (Today = 0 /\ Fated(k, "exhausted") = {})
      => mem[k].usage = Cardinality({c \in Requests : Counted(c, k)})

(***************************************************************************)
(* A restart loses nothing but what is on its way to the table.            *)
(***************************************************************************)
AtRest(k) == \A c \in Requests : ask[c].pc # "held" \/ ask[c].key # k

\* What a key counts and whether it may serve, today.
Standing(k) == LET r == ResetStaleDay(k, Today)
               IN  [status |-> r.status, usage |-> r.usage, cooldown |-> r.cooldown]

\* When no request holds a key, its row says what memory says, unless the last
\* write to the row was overtaken by a later one, or a charge leaked since:
\* every other change a handler makes to a key is followed by a SyncKeyToDB of
\* the same handler.
RowUpToDate ==
  \A k \in Keys : AtRest(k) /\ k \notin crossed => Standing(row[k]) = Standing(ToDB(mem[k]))

(***************************************************************************)
(* Google: the two charges of a request.                                   *)
(***************************************************************************)
\* The requests of a key of Google that the table counts on day d: the sum of
\* its counts for the models, each request with its model and a number.
TableCount(k, d) == Cardinality(UNION {{m} \X (1 .. used[k][m][d]) : m \in Models})

\* On the first day, when no request holds a key, the key counts in memory what
\* the table counts for its models, but for the charges that leaked when the
\* table refused or failed, and for those the table kept because the refund
\* failed (google.go: RollbackUsage, then RollbackModelUsage).
LedgersAgree ==
  \A k \in Keys :
    (provider = "google" /\ Today = 0 /\ AtRest(k))
      => mem[k].usage + Cardinality(Fated(k, "kept"))
           = TableCount(k, 0) + Cardinality(Fated(k, "leaked"))

\* Requests for model m that hold a place of day d with key k.
Places(k, m, d) == {c \in Requests : req[c].model = m /\ slot[c][k] = [on |-> d, off |-> Never]}

\* Refunds of another day's request that were booked on day d.
Misbooked(k, m, d) ==
  {c \in Requests : req[c].model = m /\ slot[c][k].off = d /\ slot[c][k].on # d}

\* A key serves no more requests for a model in a day than the table allows,
\* but for the refunds of requests that began on another day, which
\* RollbackModelUsage books on the day they are made.
ModelQuotaKept ==
  \A k \in Keys, m \in Models, d \in Days :
    Cardinality(Places(k, m, d)) <= ModelDaily + Cardinality(Misbooked(k, m, d))

\* Every request is answered (the retry loops, the backoffs and the selection
\* are bounded, and nothing in a handler waits for another request).
EveryRequestAnswered == \A c \in Requests : req[c].pc = "select" ~> req[c].pc = "done"
=============================================================================
