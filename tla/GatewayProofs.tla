---------------------------- MODULE GatewayProofs ----------------------------
(* The request handlers of OpenRouter, AIHubMix and Google, however many   *)
(* requests, keys and models there are: keys count exactly the requests    *)
(* they served, the table has what memory has once nobody holds a key, no  *)
(* model of Google serves more than its day's requests, and memory and     *)
(* model_usage agree about them.                                           *)
EXTENDS Gateway, KeyStateProofs, SequenceTheorems, FunctionTheorems

(***************************************************************************)
(* The inductive invariant.                                                *)
(***************************************************************************)

\* Where a request is, and whether it holds a key.
ControlOK ==
  \A c \in Requests :
    /\ ask[c].pc \in {"idle", "asking", "held", "none"}
    /\ ask[c].pc = "asking" => /\ req[c].pc = "select"
                               /\ req[c].attempt < MaxKeyRetries
                               /\ ask[c].excl = req[c].tried
                               /\ ask[c].now <= clock
    /\ ask[c].pc = "held" <=> req[c].pc = "work"
    /\ ask[c].pc = "none" => req[c].pc = "done"
    /\ req[c].pc = "work" => ask[c].key \in req[c].tried
    /\ req[c].pc # "work" => req[c].todo = <<>>
    /\ req[c].pc = "new" => req[c].tried = {}
    /\ \A k \in Keys \ req[c].tried : fate[c][k] = "none" /\ slot[c][k] = NoSlot
    /\ provider = "google" /\ req[c].pc # "new" => req[c].model \in Models

\* The steps that change what the table stores of a key.
Touches == {"rollback", "pause", "limit", "invalid", "exhaust", "block"}

\* What every list of steps keeps to, and so does what is left of it: a change
\* of the key is followed by a snapshot, a snapshot by its write, and the charge
\* of memory and that of the table are given back once, in this order.  Nothing
\* is planned beyond a request to the table or to the upstream.
ListOK(s) ==
  /\ \A i \in 1 .. Len(s) : s[i] \in Touches => \E j \in i + 1 .. Len(s) : s[j] = "snap"
  /\ \A i \in 1 .. Len(s) : s[i] = "snap" => i < Len(s) /\ s[i + 1] = "write"
  /\ \A i \in 2 .. Len(s) : s[i] = "write" => s[i - 1] = "snap"
  /\ \A i, j \in 1 .. Len(s) : i < j /\ s[i] = "rollback" => s[j] # "rollback"
  /\ \A i, j \in 1 .. Len(s) : i < j /\ s[i] = "unreserve" => s[j] \notin {"rollback", "unreserve"}
  /\ \A i \in 1 .. Len(s) : s[i] \in {"reserve", "send"} => i = Len(s)

\* What c has still to do on its key.
Due(c) == Range(req[c].todo)

\* The steps a request has before it fit what happened to its charges.
RequestOK(c) ==
  LET k == ask[c].key
  IN  /\ ListOK(req[c].todo)
      /\ Due(c) \cap {"reserve", "send"} # {} => fate[c][k] = "charged"
      /\ Due(c) \cap {"rollback", "unreserve"} # {} => fate[c][k] = "unserved"
      /\ "exhaust" \in Due(c) => fate[c][k] = "exhausted"
      /\ "reserve" \in Due(c) => slot[c][k] = NoSlot
      /\ Due(c) \cap {"send", "unreserve"} # {} => slot[c][k].off = Never
      /\ "block" \in Due(c) => req[c].model \in Models
      /\ Doing(c, "write") => req[c].snap \in RowRec /\ req[c].snap.day <= Today

TodoOK == \A c \in Requests : RequestOK(c)

\* No record is of a day to come.
DaysOK == \A k \in Keys : mem[k].day <= Today /\ row[k].day <= Today

\* Somebody who holds key k has still to take a snapshot of it, or may give it
\* up without one.
Pending(k) == \E c \in Requests : ask[c].key = k /\ Due(c) \cap {"snap", "reserve"} # {}

\* The last snapshot of a key says what memory says, and so does the row once it
\* is written, unless another write came in between.
SavedOK ==
  \A k \in Keys : ~Pending(k) =>
    /\ \A c \in Requests :
         Writing(k) = {c} /\ c \notin stale => Standing(req[c].snap) = Standing(ToDB(mem[k]))
    /\ Writing(k) = {} /\ k \notin crossed => Standing(row[k]) = Standing(ToDB(mem[k]))

\* The table covers the places that are taken.
PlacesCounted ==
  \A k \in Keys, m \in Models, d \in Days :
    /\ used[k][m][d] <= ModelDaily
    /\ Cardinality(Places(k, m, d)) <= used[k][m][d] + Cardinality(Misbooked(k, m, d))

GatewayInv ==
  /\ provider \in Providers
  /\ GatewayTypeOK
  /\ ControlOK
  /\ TodoOK
  /\ DaysOK
  /\ CounterExact
  /\ SavedOK
  /\ PlacesCounted

(***************************************************************************)
(* Lists of steps.                                                         *)
(***************************************************************************)
\* What is left of a list of steps.
LEMMA TailFacts ==
  ASSUME NEW S, NEW s \in Seq(S), s # <<>>
  PROVE  /\ Tail(s) \in Seq(S) /\ Head(s) = s[1] /\ Head(s) \in S
         /\ Len(s) \in Nat /\ Len(s) > 0 /\ Len(Tail(s)) = Len(s) - 1
         /\ \A i \in 1 .. Len(s) - 1 : Tail(s)[i] = s[i + 1]
  OBVIOUS

\* The steps of a list, by their places and as a set.
LEMMA RangeOfList ==
  ASSUME NEW S, NEW s \in Seq(S)
  PROVE  /\ \A i \in 1 .. Len(s) : s[i] \in Range(s)
         /\ \A x \in Range(s) : \E i \in 1 .. Len(s) : s[i] = x
         /\ Range(s) \subseteq S
  BY DEF Range

LEMMA RangeTail ==
  ASSUME NEW S, NEW s \in Seq(S), s # <<>>
  PROVE  Head(s) \in Range(s) /\ Range(Tail(s)) \subseteq Range(s)
<1>1. ASSUME NEW x \in Range(Tail(s)) PROVE x \in Range(s)
  <2>1. PICK i \in 1 .. Len(Tail(s)) : Tail(s)[i] = x
    BY TailFacts, RangeOfList
  <2>2. i + 1 \in 1 .. Len(s) /\ s[i + 1] = x
    BY <2>1, TailFacts
  <2>3. QED
    BY <2>2, RangeOfList
<1>2. 1 \in 1 .. Len(s) /\ Head(s) = s[1]
  BY TailFacts
<1>3. QED
  BY <1>1, <1>2, RangeOfList

LEMMA ListTail ==
  ASSUME NEW S, NEW s \in Seq(S), s # <<>>, ListOK(s)
  PROVE  ListOK(Tail(s))
<1> DEFINE t == Tail(s)
           n == Len(s) - 1
<1>1. /\ Len(s) = n + 1 /\ n \in Nat /\ Len(t) = n
      /\ \A i \in 1 .. n : t[i] = s[i + 1]
  BY TailFacts
<1> HIDE DEF t, n
<1>2. ASSUME NEW i \in 1 .. n, t[i] \in Touches
      PROVE  \E j \in i + 1 .. n : t[j] = "snap"
  <2>0. i + 1 \in 1 .. Len(s) /\ s[i + 1] \in Touches
    BY <1>1, <1>2
  <2>1. PICK j \in (i + 1) + 1 .. Len(s) : s[j] = "snap"
    BY <2>0 DEF ListOK
  <2>2. j - 1 \in i + 1 .. n /\ t[j - 1] = s[j - 1 + 1] /\ j - 1 + 1 = j
    BY <1>1
  <2>3. QED
    BY <2>1, <2>2
<1>3. \A i \in 1 .. n : t[i] = "snap" => i < n /\ t[i + 1] = "write"
  BY <1>1 DEF ListOK
<1>4. ASSUME NEW i \in 2 .. n, t[i] = "write"
      PROVE  t[i - 1] = "snap"
  <2>1. i \in 1 .. n /\ i - 1 \in 1 .. n /\ i - 1 + 1 = i /\ i + 1 \in 2 .. Len(s) /\ i + 1 - 1 = i
    BY <1>1
  <2>2. t[i] = s[i + 1] /\ t[i - 1] = s[i]
    BY <1>1, <2>1
  <2>3. QED
    BY <1>4, <2>1, <2>2 DEF ListOK
<1>5. ASSUME NEW i \in 1 .. n, NEW j \in 1 .. n, i < j
      PROVE  /\ t[i] = "rollback" => t[j] # "rollback"
             /\ t[i] = "unreserve" => t[j] \notin {"rollback", "unreserve"}
  <2>1. i + 1 \in 1 .. Len(s) /\ j + 1 \in 1 .. Len(s) /\ i + 1 < j + 1
    BY <1>1, <1>5
  <2>2. QED
    BY <1>1, <2>1 DEF ListOK
<1>6. \A i \in 1 .. n : t[i] \in {"reserve", "send"} => i = n
  BY <1>1 DEF ListOK
<1>7. QED
  BY <1>1, <1>2, <1>3, <1>4, <1>5, <1>6 DEF ListOK, t

\* What the first step of a list says of those that follow.
LEMMA HeadFacts ==
  ASSUME NEW S, NEW s \in Seq(S), s # <<>>, ListOK(s)
  PROVE  /\ Head(s) \in Touches => "snap" \in Range(Tail(s))
         /\ Head(s) = "snap" => Tail(s) # <<>> /\ Head(Tail(s)) = "write"
         /\ Head(s) # "snap" /\ Tail(s) # <<>> => Head(Tail(s)) # "write"
         /\ Head(s) = "rollback" => "rollback" \notin Range(Tail(s))
         /\ Head(s) = "unreserve" => Range(Tail(s)) \cap {"rollback", "unreserve"} = {}
         /\ Head(s) \in {"reserve", "send"} => Range(Tail(s)) = {}
<1> DEFINE t == Tail(s)
           n == Len(s) - 1
<1>1. /\ Len(s) = n + 1 /\ n \in Nat /\ Len(t) = n /\ Head(s) = s[1]
      /\ \A i \in 1 .. n : t[i] = s[i + 1]
      /\ t \in Seq(S)
  BY TailFacts
<1>2. t # <<>> => Head(t) = t[1] /\ n > 0
  BY <1>1, TailFacts
<1>3. \A x : x \in Range(t) <=> \E i \in 1 .. n : t[i] = x
  <2>1. /\ \A i \in 1 .. Len(t) : t[i] \in Range(t)
        /\ \A x \in Range(t) : \E i \in 1 .. Len(t) : t[i] = x
    BY <1>1, RangeOfList
  <2>2. QED
    BY <1>1, <2>1
<1> HIDE DEF t, n
<1>4. ASSUME s[1] \in Touches PROVE "snap" \in Range(t)
  <2>1. PICK j \in 1 + 1 .. Len(s) : s[j] = "snap"
    BY <1>1, <1>4 DEF ListOK
  <2>2. j - 1 \in 1 .. n /\ t[j - 1] = s[j - 1 + 1] /\ j - 1 + 1 = j
    BY <1>1
  <2>3. QED
    BY <1>3, <2>1, <2>2
<1>5. ASSUME s[1] = "snap" PROVE t # <<>> /\ Head(t) = "write"
  <2>1. 1 \in 1 .. Len(s)
    BY <1>1
  <2>2. 1 < Len(s) /\ s[1 + 1] = "write"
    BY <1>5, <2>1 DEF ListOK
  <2>3. n > 0 /\ 1 \in 1 .. n /\ t[1] = s[1 + 1]
    BY <1>1, <2>2
  <2>4. t # <<>>
    BY <1>1, <2>3
  <2>5. QED
    BY <1>2, <2>2, <2>3, <2>4
<1>6. ASSUME s[1] # "snap", t # <<>> PROVE Head(t) # "write"
  <2>1. 1 \in 1 .. n /\ t[1] = s[1 + 1] /\ 2 \in 2 .. Len(s)
    BY <1>1, <1>2, <1>6
  <2>2. s[2] = "write" => s[2 - 1] = "snap"
    BY <2>1 DEF ListOK
  <2>3. QED
    BY <1>2, <1>6, <2>1, <2>2
<1>7. ASSUME NEW i \in 1 .. n
      PROVE  /\ s[1] = "rollback" => t[i] # "rollback"
             /\ s[1] = "unreserve" => t[i] \notin {"rollback", "unreserve"}
  <2>1. 1 \in 1 .. Len(s) /\ i + 1 \in 1 .. Len(s) /\ 1 < i + 1 /\ t[i] = s[i + 1]
    BY <1>1
  <2>2. QED
    BY <2>1 DEF ListOK
<1>8. ASSUME s[1] \in {"reserve", "send"} PROVE Range(t) = {}
  <2>1. 1 \in 1 .. Len(s)
    BY <1>1
  <2>2. n = 0
    BY <1>1, <1>8, <2>1 DEF ListOK
  <2>3. QED
    BY <1>3, <2>2
<1>9. QED
  BY <1>1, <1>3, <1>4, <1>5, <1>6, <1>7, <1>8 DEF t

\* Steps that settle what the answer calls for.
Settling == Touches \cup {"unreserve"}

\* Nothing is given back twice.
Once(p) ==
  \A i, j \in 1 .. Len(p) : i < j =>
    /\ p[i] = "rollback" => p[j] # "rollback"
    /\ p[i] = "unreserve" => p[j] \notin {"rollback", "unreserve"}

LEMMA JoinFacts ==
  ASSUME NEW p \in Seq(Settling), NEW q \in Seq(Settling), Once(p), Once(q),
         Range(p) \cap {"rollback", "unreserve"} = {} \/ Range(q) \cap {"rollback", "unreserve"} = {}
  PROVE  p \o q \in Seq(Settling) /\ Once(p \o q) /\ Range(p \o q) = Range(p) \cup Range(q)
<1> DEFINE s == p \o q
           m == Len(p)
           n == Len(q)
<1>1. /\ s \in Seq(Settling) /\ Len(s) = m + n /\ m \in Nat /\ n \in Nat
      /\ \A i \in 1 .. m + n : s[i] = IF i <= m THEN p[i] ELSE q[i - m]
  BY ConcatProperties
<1>2. /\ \A i \in 1 .. m : p[i] \in Range(p)
      /\ \A x \in Range(p) : \E i \in 1 .. m : p[i] = x
      /\ \A i \in 1 .. n : q[i] \in Range(q)
      /\ \A x \in Range(q) : \E i \in 1 .. n : q[i] = x
  BY RangeOfList
<1>3. /\ \A i \in 1 .. m + n : s[i] \in Range(s)
      /\ \A x \in Range(s) : \E i \in 1 .. m + n : s[i] = x
  BY <1>1, RangeOfList
<1>0. Once(p) /\ Once(q)
  OBVIOUS
<1> HIDE DEF s, m, n
<1>4. ASSUME NEW i \in 1 .. m + n, NEW j \in 1 .. m + n, i < j
      PROVE  /\ s[i] = "rollback" => s[j] # "rollback"
             /\ s[i] = "unreserve" => s[j] \notin {"rollback", "unreserve"}
  <2>1. CASE j <= m
    <3>1. i \in 1 .. m /\ j \in 1 .. m /\ s[i] = p[i] /\ s[j] = p[j]
      BY <1>1, <1>4, <2>1
    <3>2. QED
      BY <1>0, <1>4, <3>1 DEF Once, m
  <2>2. CASE i > m
    <3>1. /\ i - m \in 1 .. n /\ j - m \in 1 .. n /\ i - m < j - m
          /\ s[i] = q[i - m] /\ s[j] = q[j - m]
      BY <1>1, <1>4, <2>2
    <3>2. QED
      BY <1>0, <3>1 DEF Once, n
  <2>3. CASE i <= m /\ j > m
    <3>1. i \in 1 .. m /\ j - m \in 1 .. n /\ s[i] = p[i] /\ s[j] = q[j - m]
      BY <1>1, <2>3
    <3>2. s[i] \in Range(p) /\ s[j] \in Range(q)
      BY <1>2, <3>1
    <3>3. QED
      BY <3>2
  <2>4. QED
    BY <1>1, <2>1, <2>2, <2>3
<1>5. ASSUME NEW x \in Range(p) PROVE x \in Range(s)
  <2>1. PICK i \in 1 .. m : p[i] = x
    BY <1>2
  <2>2. i \in 1 .. m + n /\ s[i] = x
    BY <1>1, <2>1
  <2>3. QED
    BY <1>3, <2>2
<1>6. ASSUME NEW x \in Range(q) PROVE x \in Range(s)
  <2>1. PICK i \in 1 .. n : q[i] = x
    BY <1>2
  <2>2. i + m \in 1 .. m + n /\ s[i + m] = q[i + m - m] /\ i + m - m = i
    BY <1>1
  <2>3. QED
    BY <1>3, <2>1, <2>2
<1>7. ASSUME NEW x \in Range(s) PROVE x \in Range(p) \cup Range(q)
  <2>1. PICK i \in 1 .. m + n : s[i] = x
    BY <1>3
  <2>2. CASE i <= m
    <3>1. i \in 1 .. m /\ p[i] = x
      BY <1>1, <2>1, <2>2
    <3>2. QED
      BY <1>2, <3>1
  <2>3. CASE i > m
    <3>1. i - m \in 1 .. n /\ q[i - m] = x
      BY <1>1, <2>1, <2>3
    <3>2. QED
      BY <1>2, <3>1
  <2>4. QED
    BY <1>1, <2>2, <2>3
<1>8. QED
  BY <1>1, <1>4, <1>5, <1>6, <1>7 DEF Once, s

\* Settle, then save.
LEMMA SettleAndSync ==
  ASSUME NEW p \in Seq(Settling), Once(p)
  PROVE  LET s == p \o Sync
         IN  /\ s \in Seq(Settling \cup {"snap", "write"})
             /\ ListOK(s)
             /\ s # <<>> /\ Head(s) # "write"
             /\ Range(s) = Range(p) \cup {"snap", "write"}
<1> DEFINE S == Settling \cup {"snap", "write"}
           s == p \o Sync
           m == Len(p)
<1>1. p \in Seq(S) /\ Sync \in Seq(S) /\ Len(Sync) = 2 /\ Sync[1] = "snap" /\ Sync[2] = "write"
  BY DEF Sync
<1>2. /\ s \in Seq(S) /\ Len(s) = m + 2 /\ m \in Nat
      /\ \A i \in 1 .. m + 2 : s[i] = IF i <= m THEN p[i] ELSE Sync[i - m]
  BY <1>1, ConcatProperties
<1>3. /\ \A i \in 1 .. m : s[i] = p[i] /\ p[i] \in Settling
      /\ s[m + 1] = "snap" /\ s[m + 2] = "write"
  <2>1. m + 1 \in 1 .. m + 2 /\ m + 2 \in 1 .. m + 2 /\ (m + 1) - m = 1 /\ (m + 2) - m = 2
    BY <1>2
  <2>2. ASSUME NEW i \in 1 .. m PROVE i \in 1 .. m + 2 /\ i <= m /\ p[i] \in Settling
    BY <1>2
  <2>3. s[m + 1] = Sync[1] /\ s[m + 2] = Sync[2]
    BY <1>2, <2>1
  <2>4. QED
    BY <1>1, <1>2, <2>2, <2>3
<1>4. /\ \A i \in 1 .. m : p[i] \in Range(p)
      /\ \A x \in Range(p) : \E i \in 1 .. m : p[i] = x
      /\ \A i \in 1 .. m + 2 : s[i] \in Range(s)
      /\ \A x \in Range(s) : \E i \in 1 .. m + 2 : s[i] = x
  BY <1>2, RangeOfList
<1>0. Once(p)
  OBVIOUS
<1> HIDE DEF s, m
<1>9. \A i \in 1 .. m + 2 : i \in 1 .. m \/ i = m + 1 \/ i = m + 2
  BY <1>2
<1>10. "snap" \notin Settling /\ "write" \notin Settling
  BY DEF Settling, Touches
<1>5. Range(s) = Range(p) \cup {"snap", "write"}
  <2>1. ASSUME NEW x \in Range(s) PROVE x \in Range(p) \cup {"snap", "write"}
    <3>1. PICK i \in 1 .. m + 2 : s[i] = x
      BY <1>4
    <3>2. QED
      BY <1>3, <1>4, <1>9, <3>1
  <2>2. ASSUME NEW x \in Range(p) PROVE x \in Range(s)
    <3>1. PICK i \in 1 .. m : p[i] = x
      BY <1>4
    <3>2. i \in 1 .. m + 2 /\ s[i] = x
      BY <1>2, <1>3, <3>1
    <3>3. QED
      BY <1>4, <3>2
  <2>3. m + 1 \in 1 .. m + 2 /\ m + 2 \in 1 .. m + 2
    BY <1>2
  <2>4. QED
    BY <1>3, <1>4, <2>1, <2>2, <2>3
<1>6. ListOK(s)
  <2>1. ASSUME NEW i \in 1 .. m + 2, s[i] \in Touches
        PROVE  \E j \in i + 1 .. m + 2 : s[j] = "snap"
    <3>1. i \in 1 .. m
      BY <1>3, <1>9, <1>10, <2>1 DEF Settling
    <3>2. m + 1 \in i + 1 .. m + 2
      BY <1>2, <3>1
    <3>3. QED
      BY <1>3, <3>2
  <2>2. ASSUME NEW i \in 1 .. m + 2, s[i] = "snap"
        PROVE  i < m + 2 /\ s[i + 1] = "write"
    <3>1. i = m + 1
      BY <1>3, <1>9, <1>10, <2>2
    <3>2. i + 1 = m + 2 /\ i < m + 2
      BY <1>2, <3>1
    <3>3. QED
      BY <1>3, <3>2
  <2>3. ASSUME NEW i \in 2 .. m + 2, s[i] = "write"
        PROVE  s[i - 1] = "snap"
    <3>1. i \in 1 .. m + 2
      BY <1>2
    <3>2. i = m + 2
      BY <1>3, <1>9, <1>10, <2>3, <3>1
    <3>3. i - 1 = m + 1
      BY <1>2, <3>2
    <3>4. QED
      BY <1>3, <3>3
  <2>4. ASSUME NEW i \in 1 .. m + 2, NEW j \in 1 .. m + 2, i < j
        PROVE  /\ s[i] = "rollback" => s[j] # "rollback"
               /\ s[i] = "unreserve" => s[j] \notin {"rollback", "unreserve"}
    <3>1. CASE j \in 1 .. m
      <4>1. i \in 1 .. m
        BY <1>2, <2>4, <3>1
      <4>2. QED
        BY <1>0, <1>3, <2>4, <3>1, <4>1 DEF Once, m
    <3>2. CASE j = m + 1 \/ j = m + 2
      BY <1>3, <3>2
    <3>3. QED
      BY <1>9, <3>1, <3>2
  <2>5. \A i \in 1 .. m + 2 : s[i] \notin {"reserve", "send"}
    BY <1>3, <1>9, <1>10 DEF Settling, Touches
  <2>6. QED
    BY <1>2, <2>1, <2>2, <2>3, <2>4, <2>5 DEF ListOK
<1>7. s # <<>> /\ Head(s) # "write"
  <2>1. s # <<>> /\ Head(s) = s[1]
    BY <1>2, TailFacts
  <2>2. 1 \in 1 .. m \/ 1 = m + 1
    BY <1>2
  <2>3. QED
    BY <1>3, <1>10, <2>1, <2>2
<1>8. QED
  BY <1>2, <1>5, <1>6, <1>7 DEF s

\* The lists of one, two and three steps.
LEMMA ShortLists ==
  /\ <<>> \in Seq(Settling) /\ Once(<<>>) /\ Range(<<>>) = {}
  /\ \A a \in Settling : <<a>> \in Seq(Settling) /\ Once(<<a>>) /\ Range(<<a>>) = {a}
<1>1. Range(<<>>) = {}
  BY DEF Range
<1>2. ASSUME NEW a \in Settling PROVE Range(<<a>>) = {a}
  BY DEF Range
<1>3. QED
  BY <1>1, <1>2 DEF Once

LEMMA PairLists ==
  ASSUME NEW a \in Settling, NEW b \in Settling,
         a = "rollback" => b # "rollback",
         a = "unreserve" => b \notin {"rollback", "unreserve"}
  PROVE  <<a, b>> \in Seq(Settling) /\ Once(<<a, b>>) /\ Range(<<a, b>>) = {a, b}
<1>1. Range(<<a, b>>) = {a, b}
  BY DEF Range
<1>2. \A i, j \in 1 .. Len(<<a, b>>) : i < j => i = 1 /\ j = 2
  OBVIOUS
<1>3. Once(<<a, b>>)
  BY <1>2 DEF Once
<1>4. QED
  BY <1>1, <1>3

(***************************************************************************)
(* The lists the handlers make.                                            *)
(***************************************************************************)
Fresh(s) == s \in Seq(StepNames) /\ ListOK(s) /\ (s # <<>> => Head(s) # "write")

LEMMA FreshEmpty == Fresh(<<>>) /\ Range(<<>>) = {}
  BY ShortLists DEF Fresh, ListOK

LEMMA FreshSync ==
  ASSUME NEW p \in Seq(Settling), Once(p), NEW s, s = p \o Sync
  PROVE  Fresh(s) /\ Range(s) = Range(p) \cup {"snap", "write"}
<1>1. Settling \cup {"snap", "write"} \subseteq StepNames
  BY DEF Settling, Touches, StepNames
<1>2. Seq(Settling \cup {"snap", "write"}) \subseteq Seq(StepNames)
  BY <1>1
<1>3. QED
  BY <1>2, SettleAndSync DEF Fresh

\* One or two steps, then save.
LEMMA FreshOne ==
  ASSUME NEW a \in Settling, NEW s, s = <<a>> \o Sync
  PROVE  Fresh(s) /\ Range(s) = {a, "snap", "write"}
<1> DEFINE p == <<a>>
<1>1. p \in Seq(Settling) /\ Once(p) /\ Range(p) = {a}
  BY ShortLists
<1>2. s = p \o Sync
  OBVIOUS
<1> HIDE DEF p
<1>3. QED
  BY <1>1, <1>2, FreshSync

LEMMA FreshTwo ==
  ASSUME NEW a \in Settling \ {"rollback", "unreserve"}, NEW s, s = <<"rollback", a>> \o Sync
  PROVE  Fresh(s) /\ Range(s) = {"rollback", a, "snap", "write"}
<1> DEFINE p == <<"rollback", a>>
<1>1. p \in Seq(Settling) /\ Once(p) /\ Range(p) = {"rollback", a}
  BY PairLists DEF Settling, Touches
<1>2. s = p \o Sync
  OBVIOUS
<1> HIDE DEF p
<1>3. QED
  BY <1>1, <1>2, FreshSync

LEMMA FreshPlain == Fresh(Sync) /\ Range(Sync) = {"snap", "write"}
<1>1. Range(Sync) = {"snap", "write"}
  BY DEF Range, Sync
<1>2. Sync \in Seq(StepNames) /\ Sync # <<>> /\ Head(Sync) # "write"
  BY DEF Sync, StepNames
<1>3. ListOK(Sync)
  BY DEF Sync, ListOK, Touches
<1>4. QED
  BY <1>1, <1>2, <1>3 DEF Fresh

LEMMA FreshSend ==
  /\ Fresh(Sync \o <<"send">>) /\ Range(Sync \o <<"send">>) = {"snap", "write", "send"}
  /\ Fresh(<<"reserve">>) /\ Range(<<"reserve">>) = {"reserve"}
<1>1. Range(<<"reserve">>) = {"reserve"}
  BY DEF Range
<1>2. Fresh(<<"reserve">>)
  BY DEF Fresh, StepNames, ListOK, Touches
<1> DEFINE u == <<"send">>
           s == Sync \o u
<1>3. /\ Sync \in Seq(StepNames) /\ Len(Sync) = 2 /\ Sync[1] = "snap" /\ Sync[2] = "write"
      /\ u \in Seq(StepNames) /\ Len(u) = 1 /\ u[1] = "send"
  BY DEF Sync, StepNames
<1>4. s \in Seq(StepNames) /\ Len(s) = 3 /\ s[1] = "snap" /\ s[2] = "write" /\ s[3] = "send"
  <2> HIDE DEF u
  <2>1. /\ s \in Seq(StepNames) /\ Len(s) = Len(Sync) + Len(u)
        /\ \A i \in 1 .. Len(Sync) + Len(u) :
             s[i] = IF i <= Len(Sync) THEN Sync[i] ELSE u[i - Len(Sync)]
    BY <1>3, ConcatProperties
  <2> HIDE DEF s
  <2>2. s[1] = Sync[1] /\ s[2] = Sync[2] /\ s[3] = u[1]
    BY <1>3, <2>1
  <2>3. QED
    BY <1>3, <2>1, <2>2
<1> HIDE DEF s
<1>5. \A i \in 1 .. 3 : i = 1 \/ i = 2 \/ i = 3
  OBVIOUS
<1>6. Range(s) = {"snap", "write", "send"}
  <2>1. DOMAIN s = 1 .. 3
    BY <1>4
  <2>2. QED
    BY <1>4, <1>5, <2>1 DEF Range
<1>7. ListOK(s)
  BY <1>4, <1>5 DEF ListOK, Touches
<1>8. s # <<>> /\ Head(s) = "snap"
  BY <1>4, TailFacts
<1>9. QED
  BY <1>1, <1>2, <1>4, <1>6, <1>7, <1>8 DEF Fresh, s

\* What OpenRouter's handler does about an answer: it refunds what was not
\* served, and exhausts a key whose quota is spent.
LEMMA OpenRouterLists ==
  ASSUME NEW code \in OpenRouterCodes, NEW quota \in BOOLEAN, NEW viaProxy \in BOOLEAN,
         quota => code \in {"429", "401", "503", "501", "400"}
  PROVE  LET s == Steps(code, quota, viaProxy)
         IN  /\ Fresh(s)
             /\ Range(s) \cap {"reserve", "send", "unreserve", "block"} = {}
             /\ "rollback" \in Range(s) <=> ~quota /\ Unserved(code, viaProxy)
             /\ "exhaust" \in Range(s) => quota
<1> DEFINE s == Steps(code, quota, viaProxy)
<1>1. code \in {"network", "200", "upstream429", "429", "401", "503", "501", "400"}
  BY OpenRouterAssumption
<1>2. {"rollback", "pause", "limit", "invalid", "exhaust"} \subseteq Settling
  BY DEF Settling, Touches
<1>3. CASE code = "200"
  BY <1>3, FreshPlain DEF Steps, Unserved
<1>4. CASE code = "network"
  <2>1. s = <<"rollback", "pause">> \o Sync
    BY <1>4 DEF Steps
  <2> HIDE DEF s
  <2>2. Fresh(s) /\ Range(s) = {"rollback", "pause", "snap", "write"}
    BY <1>2, <2>1, FreshTwo
  <2>3. QED
    BY <1>4, <2>2 DEF Unserved, s
<1>5. CASE code = "upstream429" /\ viaProxy
  <2>1. s = <<"rollback">> \o Sync
    BY <1>5 DEF Steps
  <2> HIDE DEF s
  <2>2. Fresh(s) /\ Range(s) = {"rollback", "snap", "write"}
    BY <1>2, <2>1, FreshOne
  <2>3. QED
    BY <1>5, <2>2 DEF Unserved, s
<1>6. CASE code = "upstream429" /\ ~viaProxy
  <2>1. s = <<>>
    BY <1>6 DEF Steps
  <2>2. QED
    BY <1>6, <2>1, FreshEmpty DEF Unserved
<1>7. CASE code \in {"429", "401", "503", "501", "400"}
  <2> DEFINE p == Penalty(code)
             q == Settlement(code, quota)
             r == p \o q
  <2>1. /\ p \in Seq(Settling) /\ Once(p)
        /\ Range(p) \subseteq {"limit", "invalid", "pause"}
    <3>1. p \in {<<"limit">>, <<"invalid">>, <<"pause">>, <<>>}
      BY <1>7 DEF Penalty
    <3> HIDE DEF p
    <3>2. QED
      BY <1>2, <3>1, ShortLists
  <2>2. /\ q \in Seq(Settling) /\ Once(q)
        /\ Range(q) = IF quota THEN {"exhaust"}
                      ELSE IF code \in {"503", "501"} THEN {"rollback"} ELSE {}
    <3>1. q = IF quota THEN <<"exhaust">>
              ELSE IF code \in {"503", "501"} THEN <<"rollback">> ELSE <<>>
      BY DEF Settlement
    <3> HIDE DEF q
    <3>2. QED
      BY <1>2, <3>1, ShortLists
  <2>3. s = r \o Sync
    <3>1. s = p \o q \o Sync
      BY <1>7 DEF Steps
    <3>2. QED
      BY <3>1
  <2> HIDE DEF s, p, q
  <2>4. r \in Seq(Settling) /\ Once(r) /\ Range(r) = Range(p) \cup Range(q)
    BY <2>1, <2>2, JoinFacts
  <2> HIDE DEF r
  <2>5. Fresh(s) /\ Range(s) = Range(r) \cup {"snap", "write"}
    BY <2>3, <2>4, FreshSync
  <2>6. Unserved(code, viaProxy) <=> code \in {"503", "501"}
    BY <1>7 DEF Unserved
  <2>7. QED
    BY <2>1, <2>2, <2>4, <2>5, <2>6 DEF s
<1>8. QED
  BY <1>1, <1>3, <1>4, <1>5, <1>6, <1>7

\* What AIHubMix's handler does about an answer.
AihubmixExhausts(code) == code \in {"quota", "accountLimit"}

AihubmixUnserved(code) == code \in {"network", "return", "providerOnce", "keyRate", "transient"}

LEMMA AihubmixLists ==
  ASSUME NEW code \in AihubmixCodes, NEW model \in Models \cup {NoModel}
  PROVE  LET s == AihubmixSteps(code, model)
         IN  /\ Fresh(s)
             /\ Range(s) \cap {"reserve", "send", "unreserve"} = {}
             /\ "rollback" \in Range(s) <=> AihubmixUnserved(code)
             /\ "exhaust" \in Range(s) => AihubmixExhausts(code)
             /\ "block" \in Range(s) => model \in Models
<1> DEFINE s == AihubmixSteps(code, model)
<1>1. code \in {"network", "200", "unsendable", "quota", "invalidKey", "accountLimit",
                "keyRate", "providerOnce", "keyModel", "transient", "return"}
  BY AihubmixAssumption
<1> USE DEF AihubmixUnserved, AihubmixExhausts
<1>2. {"rollback", "pause", "limit", "invalid", "exhaust", "block"} \subseteq Settling
  BY DEF Settling, Touches
<1>3. CASE code \in {"quota", "accountLimit", "invalidKey", "network", "return", "providerOnce"}
  <2> DEFINE a == IF code = "invalidKey" THEN "invalid"
                  ELSE IF AihubmixExhausts(code) THEN "exhaust" ELSE "rollback"
  <2>1. s = <<a>> \o Sync /\ a \in Settling
    BY <1>2, <1>3 DEF AihubmixSteps
  <2>2. a = "rollback" <=> AihubmixUnserved(code)
    BY <1>3
  <2>3. a = "exhaust" => AihubmixExhausts(code)
    BY <1>3
  <2>4. a # "reserve" /\ a # "send" /\ a # "unreserve" /\ a # "block"
    OBVIOUS
  <2> HIDE DEF a, s
  <2>5. Fresh(s) /\ Range(s) = {a, "snap", "write"}
    BY <2>1, FreshOne
  <2>6. QED
    BY <2>2, <2>3, <2>4, <2>5 DEF s
<1>4. CASE code \in {"keyRate", "transient"}
  <2> DEFINE a == IF code = "keyRate" THEN "limit" ELSE "pause"
  <2>1. s = <<"rollback", a>> \o Sync /\ a \in {"limit", "pause"}
    BY <1>4 DEF AihubmixSteps
  <2> HIDE DEF a, s
  <2>2. Fresh(s) /\ Range(s) = {"rollback", a, "snap", "write"}
    BY <1>2, <2>1, FreshTwo
  <2>3. QED
    BY <1>4, <2>1, <2>2 DEF s
<1>5. CASE code = "keyModel" /\ model = NoModel
  <2>1. s = Sync
    BY <1>5 DEF AihubmixSteps
  <2>2. QED
    BY <1>5, <2>1, FreshPlain
<1>6. CASE code = "keyModel" /\ model # NoModel
  <2>1. s = <<"block">> \o Sync /\ model \in Models
    BY <1>6 DEF AihubmixSteps
  <2> HIDE DEF s
  <2>2. Fresh(s) /\ Range(s) = {"block", "snap", "write"}
    BY <1>2, <2>1, FreshOne
  <2>3. QED
    BY <1>6, <2>1, <2>2 DEF s
<1>7. CASE code \in {"200", "unsendable"}
  <2>1. s = <<>>
    BY <1>7 DEF AihubmixSteps
  <2>2. QED
    BY <1>7, <2>1, FreshEmpty
<1>8. QED
  BY <1>1, <1>3, <1>4, <1>5, <1>6, <1>7

\* What Google's handler does about an answer: both charges go back together.
LEMMA GoogleLists ==
  ASSUME NEW code \in GoogleCodes
  PROVE  LET s == GoogleSteps(code)
         IN  /\ Fresh(s)
             /\ Range(s) \cap {"reserve", "send", "exhaust"} = {}
             /\ "rollback" \in Range(s) <=> code # "200"
             /\ "unreserve" \in Range(s) <=> code # "200"
<1> DEFINE s == GoogleSteps(code)
<1>1. code \in {"network", "200", "401", "429", "unavailable", "400", "503"}
  BY GoogleAssumption
<1>2. CASE code = "200"
  <2>1. s = <<>>
    BY <1>2 DEF GoogleSteps
  <2>2. QED
    BY <1>2, <2>1, FreshEmpty
<1>3. Refund2 \in Seq(Settling) /\ Once(Refund2) /\ Range(Refund2) = {"rollback", "unreserve"}
  BY PairLists DEF Refund2, Settling, Touches
<1>4. CASE code \in {"401", "429", "unavailable", "503"}
  <2> DEFINE a == CASE code = "401" -> "invalid" [] code = "429" -> "limit"
                    [] code = "unavailable" -> "block" [] code = "503" -> "pause"
             q == <<a>>
             r == Refund2 \o q
  <2>1. s = r \o Sync
    <3>1. s = Refund2 \o <<a>> \o Sync
      BY <1>4 DEF GoogleSteps
    <3>2. QED
      BY <3>1
  <2>2. a \in {"invalid", "limit", "block", "pause"} /\ a \in Settling
    BY <1>4 DEF Settling, Touches
  <2> HIDE DEF s, a
  <2>3. q \in Seq(Settling) /\ Once(q) /\ Range(q) = {a}
    BY <2>2, ShortLists
  <2> HIDE DEF q
  <2>4. r \in Seq(Settling) /\ Once(r) /\ Range(r) = {"rollback", "unreserve", a}
    BY <1>3, <2>2, <2>3, JoinFacts
  <2> HIDE DEF r
  <2>5. Fresh(s) /\ Range(s) = {"rollback", "unreserve", a, "snap", "write"}
    BY <2>1, <2>4, FreshSync
  <2>6. QED
    BY <1>4, <2>2, <2>5 DEF s
<1>5. CASE code \in {"network", "400"}
  <2>1. s = Refund2 \o Sync
    BY <1>5 DEF GoogleSteps
  <2> HIDE DEF s
  <2>2. Fresh(s) /\ Range(s) = {"rollback", "unreserve", "snap", "write"}
    BY <1>3, <2>1, FreshSync
  <2>3. QED
    BY <1>5, <2>2 DEF s
<1>6. QED
  BY <1>1, <1>2, <1>4, <1>5

(***************************************************************************)
(* Numbers, days and keys.                                                 *)
(***************************************************************************)
LEMMA DayOrder ==
  /\ UTCDay(0) = 0
  /\ \A t, u \in Nat : t <= u => UTCDay(t) <= UTCDay(u)
  /\ \A t \in Nat : t <= NextMidnight(t)
<1>1. UTCDay(0) = 0
  BY TimeAssumption DEF UTCDay
<1>2. ASSUME NEW t \in Nat, NEW u \in Nat, t <= u
      PROVE  UTCDay(t) <= UTCDay(u)
  BY <1>2, TimeAssumption DEF UTCDay
<1>3. ASSUME NEW t \in Nat
      PROVE  t <= NextMidnight(t)
  BY TimeAssumption DEF NextMidnight, UTCDay
<1>4. QED
  BY <1>1, <1>2, <1>3

\* The types of what a step reads.
LEMMA StateTypes ==
  ASSUME GatewayInv
  PROVE  /\ clock \in Nat /\ clock <= MaxTime /\ Today \in Days /\ Today \in Nat
         /\ mem \in [Keys -> KeyRec] /\ row \in [Keys -> RowRec]
         /\ ask \in [Requests -> AskRec] /\ req \in [Requests -> ReqRec]
         /\ fate \in [Requests -> [Keys -> Fates]]
         /\ slot \in [Requests -> [Keys -> SlotRec]]
         /\ used \in [Keys -> [Models -> [Days -> Nat]]]
         /\ stale \subseteq Requests /\ crossed \subseteq Keys
<1>1. MaxTime \in Nat
  BY GatewayAssumption
<1>2. clock \in 0 .. MaxTime
  BY DEF GatewayInv, GatewayTypeOK
<1>3. clock \in Nat /\ clock <= MaxTime
  BY <1>1, <1>2
<1>4. UTCDay(clock) \in Nat /\ UTCDay(MaxTime) \in Nat
  BY <1>1, <1>3, DayType
<1>5. UTCDay(clock) <= UTCDay(MaxTime)
  BY <1>1, <1>3, DayOrder
<1>6. Today \in Nat /\ Today \in Days
  BY <1>4, <1>5 DEF Today, Days
<1>7. QED
  BY <1>3, <1>6 DEF GatewayInv, GatewayTypeOK

\* A request that works on an attempt holds its key.
LEMMA Holding ==
  ASSUME GatewayInv, NEW c \in Requests, req[c].pc = "work"
  PROVE  /\ ask[c].pc = "held" /\ ask[c].key \in Keys /\ ask[c].key \in req[c].tried
         /\ mem[ask[c].key] \in KeyRec
         /\ req[c] \in ReqRec /\ req[c].todo \in Seq(StepNames)
<1>1. ask[c].pc = "held" /\ ask[c].key \in req[c].tried
  BY DEF GatewayInv, ControlOK
<1>2. req[c] \in ReqRec
  BY StateTypes
<1>3. req[c].tried \subseteq Keys /\ req[c].todo \in Seq(StepNames)
  BY <1>2 DEF ReqRec
<1>4. QED
  BY <1>1, <1>2, <1>3, StateTypes

\* A request that has something to do works on an attempt.
LEMMA DueWorks ==
  ASSUME GatewayInv, NEW c \in Requests, Due(c) # {}
  PROVE  req[c].pc = "work" /\ ask[c].key \in Keys
<1>1. req[c].todo # <<>>
  BY FreshEmpty DEF Due
<1>2. QED
  BY <1>1, Holding DEF GatewayInv, ControlOK

\* What a row says of today.
LEMMA StandingIs ==
  ASSUME NEW r \in RowRec
  PROVE  Standing(r) = IF r.day = Today
                       THEN [status |-> r.status, usage |-> r.usage, cooldown |-> r.cooldown]
                       ELSE [status |-> IF r.status = "day_exhausted" THEN "active" ELSE r.status,
                             usage |-> 0, cooldown |-> r.cooldown]
<1>1. r.status # NoRow.status
  BY DEF RowRec, Status, NoRow
<1>2. r # NoRow
  BY <1>1
<1>3. ResetStaleDay(r, Today) =
        IF r.day = Today THEN r
        ELSE [r EXCEPT !.usage = 0, !.day = Today,
                       !.status = IF @ = "day_exhausted" THEN "active" ELSE @]
  BY <1>2 DEF ResetStaleDay
<1>4. QED
  BY <1>3 DEF Standing, RowRec

\* The daily reset changes nothing of what a key is today, nor does a look.
LEMMA StandingReset ==
  ASSUME NEW k \in KeyRec, NEW r \in KeyRec, Today \in Nat,
         r.day = Today, r.cooldown = k.cooldown,
         r.usage = (IF k.day = Today THEN k.usage ELSE 0),
         r.status = (IF k.day # Today /\ k.status = "day_exhausted" THEN "active" ELSE k.status)
  PROVE  Standing(ToDB(r)) = Standing(ToDB(k))
  BY ToDBFacts, StandingIs

LEMMA LookFacts ==
  ASSUME NEW k \in KeyRec, NEW q \in AskRec, Today \in Nat,
         NEW r \in {ResetDailyUsageIfNewDay(k, Today), Looked(k, q, Today), Refused(k, q, Today)}
  PROVE  /\ r \in KeyRec /\ r.day = Today
         /\ r.usage = IF k.day = Today THEN k.usage ELSE 0
         /\ Standing(ToDB(r)) = Standing(ToDB(k))
<1>1. q.now \in Nat /\ (q.model = NoModel \/ q.model \in Models)
  BY DEF AskRec
<1> DEFINE z == ResetDailyUsageIfNewDay(k, Today)
<1>2. /\ z \in KeyRec /\ z.cooldown = k.cooldown
      /\ z.status = IF k.day # Today /\ k.status = "day_exhausted" THEN "active" ELSE k.status
  BY DEF ResetDailyUsageIfNewDay, KeyRec, Status
<1>6. \/ r = z
      \/ r = AfterUsable(k, q.now, Today)
      \/ q.model \in Models /\ r = AfterModelRefusal(k, q.now, Today, q.model)
  BY <1>1 DEF Looked, Refused
<1>3. r \in KeyRec /\ r.day = Today /\ r.usage = IF k.day = Today THEN k.usage ELSE 0
  <2>1. CASE r = z
    BY <2>1, ResetFacts
  <2>2. CASE r = AfterUsable(k, q.now, Today)
    BY <1>1, <2>2, AfterUsableFacts
  <2>3. CASE q.model \in Models /\ r = AfterModelRefusal(k, q.now, Today, q.model)
    BY <1>1, <2>3, ModelRefusalFacts
  <2>4. QED
    BY <1>6, <2>1, <2>2, <2>3
<1>4. r.cooldown = z.cooldown /\ r.status = z.status
  <2>2. AfterUsable(k, q.now, Today).cooldown = z.cooldown /\ AfterUsable(k, q.now, Today).status = z.status
    BY <1>2 DEF AfterUsable, KeyRec
  <2>3. ASSUME NEW m \in Models
        PROVE  /\ AfterModelRefusal(k, q.now, Today, m).cooldown = z.cooldown
               /\ AfterModelRefusal(k, q.now, Today, m).status = z.status
    BY <1>2 DEF AfterModelRefusal, KeyRec
  <2>4. QED
    BY <1>6, <2>2, <2>3
<1>5. QED
  BY <1>2, <1>3, <1>4, StandingReset

\* A charge counts one request more.
LEMMA ChargeFacts ==
  ASSUME NEW k \in KeyRec, NEW q \in AskRec, NEW today \in Nat
  PROVE  LET r == Charge(k, q, today)
         IN  /\ r \in KeyRec
             /\ r.usage = 1 + (IF k.day = today THEN k.usage ELSE 0)
             /\ r.day = UTCDay(q.now)
<1>1. q.now \in Nat /\ (q.model = NoModel \/ q.model \in Models)
  BY DEF AskRec
<1>2. CASE q.model = NoModel
  <2> DEFINE u == AfterUsable(k, q.now, today)
  <2>1. u \in KeyRec /\ u.day = today /\ u.usage = IF k.day = today THEN k.usage ELSE 0
    BY <1>1, AfterUsableFacts
  <2>2. Charge(k, q, today) = Register(u, q.now, today)
    BY <1>2 DEF Charge
  <2> HIDE DEF u
  <2>3. /\ Register(u, q.now, today) \in KeyRec
        /\ Register(u, q.now, today).usage = 1 + (IF u.day = today THEN u.usage ELSE 0)
        /\ Register(u, q.now, today).day = UTCDay(q.now)
    BY <1>1, <2>1, RegisterFacts
  <2>4. QED
    BY <2>1, <2>2, <2>3
<1>3. CASE q.model # NoModel
  <2>1. Charge(k, q, today) = RegisterModel(k, q.now, today, q.model)
    BY <1>3 DEF Charge
  <2>2. /\ RegisterModel(k, q.now, today, q.model) \in KeyRec
        /\ RegisterModel(k, q.now, today, q.model).usage = 1 + (IF k.day = today THEN k.usage ELSE 0)
        /\ RegisterModel(k, q.now, today, q.model).day = UTCDay(q.now)
    BY <1>1, <1>3, RegisterModelFacts
  <2>3. QED
    BY <2>1, <2>2
<1>4. QED
  BY <1>2, <1>3

(***************************************************************************)
(* What a step leaves alone.  Each part of the invariant survives a step   *)
(* that keeps still what the part looks at.                                *)
(***************************************************************************)

\* c does something on the key it holds, and keeps it.
Works(c) ==
  /\ req[c].pc = "work"
  /\ UNCHANGED <<clock, ask, provider>>
  /\ req' \in [Requests -> ReqRec]
  /\ \A d \in Requests \ {c} : req'[d] = req[d]
  /\ req'[c].pc = "work" /\ req'[c].model = req[c].model
  /\ req'[c].tried = req[c].tried /\ req'[c].attempt = req[c].attempt

\* Only what c did with its key is written down.
Elsewhere(c) ==
  \A d \in Requests, k \in Keys : d # c \/ k # ask[c].key =>
    fate'[d][k] = fate[d][k] /\ slot'[d][k] = slot[d][k]

LEMMA WorksControl ==
  ASSUME GatewayInv, NEW c \in Requests, Works(c), Elsewhere(c)
  PROVE  ControlOK'
<1>1. ask[c].key \in req[c].tried
  BY Holding DEF Works
<1>2. ControlOK
  BY DEF GatewayInv
<1>3. \A d \in Requests : req'[d].pc = req[d].pc /\ req'[d].model = req[d].model
                          /\ req'[d].tried = req[d].tried /\ req'[d].attempt = req[d].attempt
  BY DEF Works
<1>4. \A d \in Requests : req'[d].pc # "work" => req'[d].todo = <<>>
  BY <1>2 DEF Works, ControlOK
<1>5. \A d \in Requests : \A k \in Keys \ req[d].tried :
        fate'[d][k] = fate[d][k] /\ slot'[d][k] = slot[d][k]
  BY <1>1 DEF Elsewhere
<1>6. QED
  BY <1>2, <1>3, <1>4, <1>5 DEF ControlOK, Works

LEMMA WorksTodo ==
  ASSUME GatewayInv, NEW c \in Requests, Works(c), Elsewhere(c), RequestOK(c)'
  PROVE  TodoOK'
<1> SUFFICES ASSUME NEW d \in Requests, d # c
             PROVE  RequestOK(d)'
  BY DEF TodoOK
<1>1. RequestOK(d)
  BY DEF GatewayInv, TodoOK
<1>2. req'[d] = req[d] /\ ask'[d] = ask[d] /\ Today' = Today
  BY DEF Works, Today
<1>3. Due(d)' = Due(d) /\ (Doing(d, "write")' <=> Doing(d, "write"))
  BY <1>2 DEF Due, Doing
<1>4. CASE Due(d) = {}
  <2>1. ~Doing(d, "write")
    BY <1>4, StateTypes, RangeTail DEF Doing, Due, ReqRec
  <2>2. QED
    BY <1>1, <1>2, <1>3, <1>4, <2>1 DEF RequestOK
<1>5. CASE Due(d) # {}
  <2>1. ask[d].key \in Keys
    BY <1>5, DueWorks
  <2>2. fate'[d][ask[d].key] = fate[d][ask[d].key] /\ slot'[d][ask[d].key] = slot[d][ask[d].key]
    BY <2>1 DEF Elsewhere
  <2>3. QED
    BY <1>1, <1>2, <1>3, <2>2 DEF RequestOK
<1>6. QED
  BY <1>4, <1>5

\* The counter of a key stays exact when neither it nor who it counts changes.
LEMMA CountSame ==
  ASSUME GatewayInv, clock' = clock,
         \A k \in Keys :
           (Today = 0 /\ \A d \in Requests : fate'[d][k] # "exhausted") =>
             /\ \A d \in Requests : fate[d][k] # "exhausted"
             /\ mem'[k].usage = mem[k].usage
             /\ \A d \in Requests : Counted(d, k)' <=> Counted(d, k)
  PROVE  CounterExact'
<1> SUFFICES ASSUME NEW k \in Keys, Today' = 0, Fated(k, "exhausted")' = {}
             PROVE  mem'[k].usage = Cardinality({d \in Requests : Counted(d, k)})'
  BY DEF CounterExact
<1>1. Today = 0 /\ \A d \in Requests : fate'[d][k] # "exhausted"
  BY DEF Today, Fated
<1>2. {d \in Requests : Counted(d, k)}' = {d \in Requests : Counted(d, k)}
  BY <1>1
<1>3. mem[k].usage = Cardinality({d \in Requests : Counted(d, k)})
  BY <1>1 DEF GatewayInv, CounterExact, Fated
<1>4. QED
  BY <1>1, <1>2, <1>3

LEMMA WorksCount ==
  ASSUME GatewayInv, NEW c \in Requests, NEW k \in Keys, Works(c), Elsewhere(c), ask[c].key = k,
         Today = 0 => \A j \in Keys : mem'[j].usage = mem[j].usage,
         fate[c][k] = "exhausted" => fate'[c][k] = "exhausted",
         fate'[c][k] # "exhausted" => (Counted(c, k)' <=> Counted(c, k))
  PROVE  CounterExact'
<1>1. ASSUME NEW j \in Keys, NEW d \in Requests, d # c \/ j # k
      PROVE  fate'[d][j] = fate[d][j] /\ (Counted(d, j)' <=> Counted(d, j))
  BY <1>1 DEF Elsewhere, Works, Counted, Refunding
<1>2. ASSUME NEW j \in Keys, Today = 0, \A d \in Requests : fate'[d][j] # "exhausted"
      PROVE  /\ \A d \in Requests : fate[d][j] # "exhausted"
             /\ mem'[j].usage = mem[j].usage
             /\ \A d \in Requests : Counted(d, j)' <=> Counted(d, j)
  BY <1>1, <1>2
<1>3. clock' = clock
  BY DEF Works
<1>4. QED
  BY <1>2, <1>3, CountSame

\* The table stays behind no further when nobody's savings change.
LEMMA SavedSame ==
  ASSUME GatewayInv, UNCHANGED <<clock, row, stale, crossed>>,
         \A k \in Keys : ~Pending(k)' =>
           /\ ~Pending(k)
           /\ Writing(k)' = Writing(k)
           /\ Standing(ToDB(mem[k]))' = Standing(ToDB(mem[k])),
         \A k \in Keys : \A d \in Writing(k) : req'[d].snap = req[d].snap
  PROVE  SavedOK'
<1> SUFFICES ASSUME NEW k \in Keys, ~Pending(k)'
             PROVE  /\ \A d \in Requests :
                         (Writing(k) = {d} /\ d \notin stale
                            => Standing(req[d].snap) = Standing(ToDB(mem[k])))'
                    /\ (Writing(k) = {} /\ k \notin crossed
                          => Standing(row[k]) = Standing(ToDB(mem[k])))'
  BY DEF SavedOK
<1>1. ~Pending(k) /\ Writing(k)' = Writing(k)
  OBVIOUS
<1>2. Today' = Today
  BY DEF Today
<1>3. /\ \A d \in Requests :
           Writing(k) = {d} /\ d \notin stale => Standing(req[d].snap) = Standing(ToDB(mem[k]))
      /\ Writing(k) = {} /\ k \notin crossed => Standing(row[k]) = Standing(ToDB(mem[k]))
  BY <1>1 DEF GatewayInv, SavedOK
<1>4. Standing(row[k])' = Standing(row[k])
  BY <1>2 DEF Standing
<1>5. ASSUME NEW d \in Requests, Writing(k) = {d}
      PROVE  Standing(req[d].snap)' = Standing(req[d].snap)
  <2>1. req'[d].snap = req[d].snap
    BY <1>5
  <2>2. QED
    BY <1>2, <2>1 DEF Standing
<1>6. QED
  BY <1>1, <1>3, <1>4, <1>5

LEMMA WorksSaved ==
  ASSUME GatewayInv, NEW c \in Requests, NEW j \in Keys, Works(c), ask[c].key = j,
         UNCHANGED <<row, stale, crossed>>,
         ~Doing(c, "write"), ~Doing(c, "write")',
         \A k \in Keys \ {j} : mem'[k] = mem[k],
         Due(c)' \cap {"snap", "reserve"} = {} =>
           /\ Due(c) \cap {"snap", "reserve"} = {}
           /\ Standing(ToDB(mem[j]))' = Standing(ToDB(mem[j]))
  PROVE  SavedOK'
<1>1. \A d \in Requests \ {c} : Due(d)' = Due(d) /\ (Doing(d, "write")' <=> Doing(d, "write"))
  BY DEF Works, Due, Doing
<1>2. \A k \in Keys : Writing(k)' = Writing(k)
  BY <1>1 DEF Writing, Works
<1>3. ASSUME NEW k \in Keys, ~Pending(k)'
      PROVE  ~Pending(k) /\ Standing(ToDB(mem[k]))' = Standing(ToDB(mem[k]))
  <2>1. \A d \in Requests : ask[d].key = k => Due(d)' \cap {"snap", "reserve"} = {}
    BY <1>3 DEF Pending, Works
  <2>2. ~Pending(k)
    BY <1>1, <2>1 DEF Pending
  <2>3. CASE k = j
    BY <2>1, <2>2, <2>3
  <2>4. CASE k # j
    <3>1. mem'[k] = mem[k] /\ Today' = Today
      BY <2>4 DEF Works, Today
    <3>2. QED
      BY <2>2, <3>1 DEF Standing
  <2>5. QED
    BY <2>3, <2>4
<1>4. \A k \in Keys : \A d \in Writing(k) : req'[d].snap = req[d].snap
  BY DEF Writing, Works
<1>5. clock' = clock
  BY DEF Works
<1>6. QED
  BY <1>2, <1>3, <1>4, <1>5, SavedSame

\* The places of the table.
LEMMA PlacesSame ==
  ASSUME GatewayInv, UNCHANGED <<used, slot>>,
         \A d \in Requests : req'[d].model = req[d].model \/ \A k \in Keys : slot[d][k] = NoSlot
  PROVE  PlacesCounted'
<1> SUFFICES ASSUME NEW k \in Keys, NEW m \in Models, NEW d \in Days
             PROVE  /\ used'[k][m][d] <= ModelDaily
                    /\ (Cardinality(Places(k, m, d))
                          <= used[k][m][d] + Cardinality(Misbooked(k, m, d)))'
  BY DEF PlacesCounted
<1>1. /\ used[k][m][d] <= ModelDaily
      /\ Cardinality(Places(k, m, d)) <= used[k][m][d] + Cardinality(Misbooked(k, m, d))
  BY DEF GatewayInv, PlacesCounted
<1>2. d # Never
  <2>1. UTCDay(MaxTime) \in Nat
    BY GatewayAssumption, DayType
  <2>2. QED
    BY <2>1 DEF Days, Never
<1>3. Places(k, m, d)' = Places(k, m, d) /\ Misbooked(k, m, d)' = Misbooked(k, m, d)
  BY <1>2 DEF Places, Misbooked, NoSlot
<1>4. QED
  BY <1>1, <1>3

(***************************************************************************)
(* Steps that leave the keys as they are today.                            *)
(***************************************************************************)

\* A request that has nothing to do on a key moves on.
LEMMA MoveStep ==
  ASSUME GatewayInv, NEW c \in Requests,
         UNCHANGED <<clock, mem, row, history, provider, rate429, used, slot>>,
         ask' \in [Requests -> AskRec], req' \in [Requests -> ReqRec],
         \A d \in Requests \ {c} : ask'[d] = ask[d] /\ req'[d] = req[d],
         req[c].todo = <<>>, req'[c].todo = <<>>,
         req'[c].model = req[c].model \/ req[c].tried = {},
         ControlOK'
  PROVE  GatewayInv'
<1>1. GatewayTypeOK'
  BY DEF GatewayInv, GatewayTypeOK, history
<1>2. Due(c) = {} /\ Due(c)' = {} /\ ~Doing(c, "write") /\ ~Doing(c, "write")'
  BY FreshEmpty DEF Due, Doing
<1>3. \A d \in Requests \ {c} : Due(d)' = Due(d) /\ (Doing(d, "write")' <=> Doing(d, "write"))
  BY DEF Due, Doing
<1>4. Today' = Today
  BY DEF Today
<1>5. TodoOK'
  <2>1. RequestOK(c)'
    BY <1>2, FreshEmpty DEF RequestOK, Fresh
  <2>2. \A d \in Requests \ {c} : RequestOK(d)'
    BY <1>3, <1>4 DEF GatewayInv, TodoOK, RequestOK, history
  <2>3. QED
    BY <2>1, <2>2 DEF TodoOK
<1>6. DaysOK'
  BY <1>4 DEF GatewayInv, DaysOK
<1>7. CounterExact'
  <2>1. \A k \in Keys, d \in Requests : Counted(d, k)' <=> Counted(d, k)
    BY <1>2, <1>3 DEF Counted, Refunding, Due, history
  <2>2. QED
    BY <2>1, CountSame DEF history
<1>8. SavedOK'
  <2>1. \A k \in Keys : Writing(k)' = Writing(k)
    BY <1>2, <1>3 DEF Writing
  <2>2. \A k \in Keys : Pending(k)' <=> Pending(k)
    BY <1>2, <1>3 DEF Pending
  <2>3. \A k \in Keys : Standing(ToDB(mem[k]))' = Standing(ToDB(mem[k]))
    BY <1>4 DEF Standing
  <2>4. \A k \in Keys : \A d \in Writing(k) : req'[d].snap = req[d].snap
    BY <1>2 DEF Writing
  <2>5. QED
    BY <2>1, <2>2, <2>3, <2>4, SavedSame DEF history
<1>9. PlacesCounted'
  <2>1. req[c].tried = {} => \A k \in Keys : slot[c][k] = NoSlot
    BY DEF GatewayInv, ControlOK
  <2>2. QED
    BY <2>1, PlacesSame
<1>10. provider' \in Providers
  BY DEF GatewayInv
<1>11. QED
  BY <1>1, <1>5, <1>6, <1>7, <1>8, <1>9, <1>10 DEF GatewayInv

\* The daily reset of a key, or a look at it.
LEMMA LookStep ==
  ASSUME GatewayInv, NEW k \in Keys, NEW r \in KeyRec, mem' = [mem EXCEPT ![k] = r],
         r.day = Today, r.usage = (IF mem[k].day = Today THEN mem[k].usage ELSE 0),
         Standing(ToDB(r)) = Standing(ToDB(mem[k])),
         UNCHANGED <<clock, ask, req, row, history, provider, rate429, used, slot>>
  PROVE  GatewayInv'
<1>1. mem \in [Keys -> KeyRec] /\ Today \in Nat
  BY StateTypes
<1>2. mem' \in [Keys -> KeyRec] /\ \A j \in Keys : mem'[j] = IF j = k THEN r ELSE mem[j]
  BY <1>1
<1>3. Today' = Today
  BY DEF Today
<1>4. GatewayTypeOK'
  BY <1>2 DEF GatewayInv, GatewayTypeOK, history
<1>5. ControlOK'
  BY DEF GatewayInv, ControlOK, history
<1>6. TodoOK'
  BY <1>3 DEF GatewayInv, TodoOK, RequestOK, Due, Doing, history
<1>7. DaysOK'
  BY <1>1, <1>2, <1>3 DEF GatewayInv, DaysOK
<1>8. CounterExact'
  <2>1. ASSUME Today = 0, NEW j \in Keys PROVE mem'[j].usage = mem[j].usage
    <3>1. mem[k].day \in Nat /\ mem[k].day <= Today
      BY <1>1 DEF GatewayInv, DaysOK, KeyRec
    <3>2. mem[k].day = Today
      BY <2>1, <3>1
    <3>3. QED
      BY <1>2, <3>2
  <2>2. \A j \in Keys, d \in Requests : Counted(d, j)' <=> Counted(d, j)
    BY DEF Counted, Refunding, history
  <2>3. QED
    BY <2>1, <2>2, CountSame DEF history
<1>9. SavedOK'
  <2>1. \A j \in Keys : Writing(j)' = Writing(j) /\ (Pending(j)' <=> Pending(j))
    BY DEF Writing, Pending, Due, Doing
  <2>2. \A j \in Keys : Standing(ToDB(mem[j]))' = Standing(ToDB(mem'[j]))
    BY <1>3 DEF Standing
  <2>3. \A j \in Keys : Standing(ToDB(mem'[j])) = Standing(ToDB(mem[j]))
    BY <1>2
  <2>4. QED
    BY <2>1, <2>2, <2>3, SavedSame DEF history
<1>10. PlacesCounted'
  BY PlacesSame
<1>11. QED
  BY <1>4, <1>5, <1>6, <1>7, <1>8, <1>9, <1>10 DEF GatewayInv

\* Records of a day that is not over today say the same tomorrow when they do
\* so today.
LEMMA StandingLater ==
  ASSUME NEW r \in RowRec, NEW s \in RowRec, Today \in Nat, Today' \in Nat, Today <= Today',
         r.day <= Today, s.day <= Today, Standing(r) = Standing(s)
  PROVE  Standing(r)' = Standing(s)'
<1>1. r.day \in Nat /\ s.day \in Nat
  BY DEF RowRec
<1>2. \A x \in RowRec :
        Standing(x)' = IF x.day = Today'
                       THEN [status |-> x.status, usage |-> x.usage, cooldown |-> x.cooldown]
                       ELSE [status |-> IF x.status = "day_exhausted" THEN "active" ELSE x.status,
                             usage |-> 0, cooldown |-> x.cooldown]
  <2>1. ASSUME NEW x \in RowRec
        PROVE  Standing(x)' = IF x.day = Today'
                 THEN [status |-> x.status, usage |-> x.usage, cooldown |-> x.cooldown]
                 ELSE [status |-> IF x.status = "day_exhausted" THEN "active" ELSE x.status,
                       usage |-> 0, cooldown |-> x.cooldown]
    <3>1. x.status # NoRow.status
      BY DEF RowRec, Status, NoRow
    <3>2. x # NoRow
      BY <3>1
    <3>3. ResetStaleDay(x, Today') =
            IF x.day = Today' THEN x
            ELSE [x EXCEPT !.usage = 0, !.day = Today',
                           !.status = IF @ = "day_exhausted" THEN "active" ELSE @]
      BY <3>2 DEF ResetStaleDay
    <3>4. QED
      BY <3>3 DEF Standing, RowRec
  <2>2. QED
    BY <2>1
<1>3. ASSUME NEW x \in RowRec
      PROVE  /\ Standing(x).cooldown = x.cooldown
             /\ Standing(x).status = IF x.day # Today /\ x.status = "day_exhausted"
                                     THEN "active" ELSE x.status
  <2>1. CASE x.day = Today
    <3>1. Standing(x) = [status |-> x.status, usage |-> x.usage, cooldown |-> x.cooldown]
      BY <2>1, StandingIs
    <3>2. QED
      BY <2>1, <3>1
  <2>2. CASE x.day # Today
    <3>1. Standing(x) = [status |-> IF x.status = "day_exhausted" THEN "active" ELSE x.status,
                         usage |-> 0, cooldown |-> x.cooldown]
      BY <2>2, StandingIs
    <3>2. QED
      BY <2>2, <3>1
  <2>3. QED
    BY <2>1, <2>2
<1>4. r.cooldown = s.cooldown /\ Standing(r).status = Standing(s).status
  BY <1>3
<1>5. CASE Today' = Today
  <2>1. Standing(r)' = Standing(r) /\ Standing(s)' = Standing(s)
    BY <1>5 DEF Standing
  <2>2. QED
    BY <2>1
<1>6. CASE Today' # Today
  <2>1. r.day # Today' /\ s.day # Today'
    BY <1>1, <1>6
  <2>2. (IF r.status = "day_exhausted" THEN "active" ELSE r.status)
          = (IF s.status = "day_exhausted" THEN "active" ELSE s.status)
    BY <1>3, <1>4
  <2>3. QED
    BY <1>2, <1>4, <2>1, <2>2
<1>7. QED
  BY <1>5, <1>6

\* The clock goes on.
LEMMA TickStep ==
  ASSUME GatewayInv, Tick, UNCHANGED <<req, row, history, provider, rate429, used, slot>>
  PROVE  GatewayInv'
<1>1. /\ clock \in Nat /\ MaxTime \in Nat /\ clock < MaxTime /\ clock' = clock + 1
      /\ mem' = mem /\ ask' = ask
      /\ mem \in [Keys -> KeyRec] /\ row \in [Keys -> RowRec]
  BY StateTypes, GatewayAssumption DEF Tick
<1>2. Today \in Nat /\ Today' \in Nat /\ Today <= Today'
  <2>1. clock + 1 \in Nat /\ clock <= clock + 1
    BY <1>1
  <2>2. QED
    BY <1>1, <2>1, DayType, DayOrder DEF Today
<1>3. GatewayTypeOK'
  <2>1. clock' \in 0 .. MaxTime
    BY <1>1
  <2>2. QED
    BY <1>1, <2>1 DEF GatewayInv, GatewayTypeOK, history
<1>4. ControlOK'
  <2>1. \A c \in Requests : ask[c].now \in Nat
    BY StateTypes DEF AskRec
  <2>2. \A c \in Requests : ask[c].now <= clock => ask[c].now <= clock'
    BY <1>1, <2>1
  <2>3. QED
    BY <1>1, <2>2 DEF GatewayInv, ControlOK, history
<1>5. TodoOK'
  <2>1. ASSUME NEW c \in Requests PROVE RequestOK(c)'
    <3>1. RequestOK(c) /\ Due(c)' = Due(c) /\ (Doing(c, "write")' <=> Doing(c, "write"))
      BY DEF GatewayInv, TodoOK, Due, Doing
    <3>2. Doing(c, "write") => req[c].snap \in RowRec /\ req[c].snap.day <= Today'
      <4>1. req[c].snap \in RowRec => req[c].snap.day \in Nat
        BY DEF RowRec
      <4>2. QED
        BY <1>2, <3>1, <4>1 DEF RequestOK
    <3>3. QED
      BY <1>1, <3>1, <3>2 DEF RequestOK, history
  <2>2. QED
    BY <2>1 DEF TodoOK
<1>6. DaysOK'
  <2>1. \A k \in Keys : mem[k].day \in Nat /\ row[k].day \in Nat
    BY <1>1 DEF KeyRec, RowRec
  <2>2. QED
    BY <1>1, <1>2, <2>1 DEF GatewayInv, DaysOK
<1>7. CounterExact'
  <2>1. Today' = 0 => Today = 0
    BY <1>2
  <2>2. \A k \in Keys, c \in Requests : Counted(c, k)' <=> Counted(c, k)
    BY <1>1 DEF Counted, Refunding, history
  <2>3. \A k \in Keys : {c \in Requests : Counted(c, k)}' = {c \in Requests : Counted(c, k)}
    BY <2>2
  <2>4. \A k \in Keys : \A f \in Fates : Fated(k, f)' = Fated(k, f)
    BY DEF Fated, history
  <2>5. QED
    BY <1>1, <2>1, <2>3, <2>4 DEF GatewayInv, CounterExact, Fates
<1>8. SavedOK'
  <2> SUFFICES ASSUME NEW k \in Keys, ~Pending(k)'
               PROVE  /\ \A c \in Requests :
                           (Writing(k) = {c} /\ c \notin stale
                              => Standing(req[c].snap) = Standing(ToDB(mem[k])))'
                      /\ (Writing(k) = {} /\ k \notin crossed
                            => Standing(row[k]) = Standing(ToDB(mem[k])))'
    BY DEF SavedOK
  <2>1. ~Pending(k) /\ Writing(k)' = Writing(k)
    BY <1>1 DEF Pending, Writing, Due, Doing
  <2>2. /\ \A c \in Requests :
             Writing(k) = {c} /\ c \notin stale => Standing(req[c].snap) = Standing(ToDB(mem[k]))
        /\ Writing(k) = {} /\ k \notin crossed => Standing(row[k]) = Standing(ToDB(mem[k]))
    BY <2>1 DEF GatewayInv, SavedOK
  <2>3. ToDB(mem[k]) \in RowRec /\ ToDB(mem[k]).day <= Today
    BY <1>1, ToDBFacts DEF GatewayInv, DaysOK
  <2>4. row[k] \in RowRec /\ row[k].day <= Today
    BY <1>1 DEF GatewayInv, DaysOK
  <2>5. ASSUME NEW c \in Requests, Writing(k) = {c}, c \notin stale
        PROVE  Standing(req[c].snap)' = Standing(ToDB(mem[k]))'
    <3>1. req[c].snap \in RowRec /\ req[c].snap.day <= Today
      BY <2>5 DEF Writing, GatewayInv, TodoOK, RequestOK
    <3>2. Standing(req[c].snap) = Standing(ToDB(mem[k]))
      BY <2>2, <2>5
    <3> DEFINE s == req[c].snap
               t == ToDB(mem[k])
    <3>3. s' = s /\ t' = t
      BY <1>1
    <3>4. QED
      BY <1>2, <1>1, <2>3, <3>1, <3>2, <3>3, StandingLater DEF Standing
  <2>6. ASSUME Writing(k) = {}, k \notin crossed
        PROVE  Standing(row[k])' = Standing(ToDB(mem[k]))'
    BY <1>1, <1>2, <2>2, <2>3, <2>4, <2>6, StandingLater DEF Standing
  <2>7. QED
    BY <2>1, <2>5, <2>6 DEF history
<1>9. PlacesCounted'
  BY PlacesSame
<1>10. QED
  BY <1>3, <1>4, <1>5, <1>6, <1>7, <1>8, <1>9 DEF GatewayInv

(***************************************************************************)
(* A request gets a key, charged in the same step.                         *)
(***************************************************************************)
LEMMA GrantStep ==
  ASSUME GatewayInv, NEW c \in Requests, NEW k \in Keys, NEW todo,
         todo \in {Sync \o <<"send">>, <<"reserve">>},
         GetKey(c, k, todo), UNCHANGED <<provider, rate429, used, slot>>
  PROVE  GatewayInv'
<1> DEFINE r == Charge(mem[k], ask[c], Today)
<1>1. /\ mem \in [Keys -> KeyRec] /\ ask \in [Requests -> AskRec] /\ req \in [Requests -> ReqRec]
      /\ fate \in [Requests -> [Keys -> Fates]] /\ Today \in Nat /\ clock \in Nat
  BY StateTypes
<1>2. /\ ask[c].pc = "asking" /\ k \notin ask[c].excl
      /\ mem' = [mem EXCEPT ![k] = r]
      /\ ask' = [ask EXCEPT ![c].pc = "held", ![c].key = k]
      /\ clock' = clock /\ row' = row /\ stale' = stale /\ crossed' = crossed
  BY DEF GetKey, Grant
<1>3. /\ req' = [req EXCEPT ![c].pc = "work", ![c].attempt = @ + 1,
                            ![c].tried = @ \cup {k}, ![c].todo = todo]
      /\ fate' = [fate EXCEPT ![c][k] = "charged"]
  BY DEF GetKey
<1>4. /\ req[c].pc = "select" /\ req[c].attempt < MaxKeyRetries /\ ask[c].excl = req[c].tried
      /\ ask[c].now <= clock /\ req[c].todo = <<>>
  BY <1>2 DEF GatewayInv, ControlOK
<1>5. fate[c][k] = "none" /\ slot[c][k] = NoSlot
  BY <1>2, <1>4 DEF GatewayInv, ControlOK
<1>6. /\ Fresh(todo)
      /\ Range(todo) = {"snap", "write", "send"} \/ Range(todo) = {"reserve"}
  BY FreshSend
<1>7. /\ r \in KeyRec /\ r.day = UTCDay(ask[c].now)
      /\ r.usage = 1 + (IF mem[k].day = Today THEN mem[k].usage ELSE 0)
  BY <1>1, ChargeFacts
<1>8. r.day <= Today
  <2>1. ask[c].now \in Nat
    BY <1>1 DEF AskRec
  <2>2. QED
    BY <1>1, <1>4, <1>7, <2>1, DayOrder DEF Today
<1> HIDE DEF r
<1>9. mem' \in [Keys -> KeyRec] /\ \A j \in Keys : mem'[j] = IF j = k THEN r ELSE mem[j]
  BY <1>1, <1>2, <1>7
<1>10. /\ ask' \in [Requests -> AskRec]
       /\ \A d \in Requests \ {c} : ask'[d] = ask[d]
       /\ ask'[c].pc = "held" /\ ask'[c].key = k
  <2> DEFINE a == [ask[c] EXCEPT !.pc = "held", !.key = k]
  <2>1. ask[c] \in AskRec
    BY <1>1
  <2>2. a \in AskRec /\ a.pc = "held" /\ a.key = k
    BY <2>1 DEF AskRec
  <2>3. ask' = [ask EXCEPT ![c] = a]
    BY <1>2
  <2> HIDE DEF a
  <2>4. QED
    BY <1>1, <2>2, <2>3
<1>11. /\ \A d \in Requests \ {c} : req'[d] = req[d]
       /\ req'[c].pc = "work" /\ req'[c].tried = req[c].tried \cup {k} /\ req'[c].todo = todo
       /\ req'[c].model = req[c].model
  BY <1>1, <1>3
<1>12. req' \in [Requests -> ReqRec]
  <2>1. req[c] \in ReqRec
    BY <1>1
  <2>2. req[c].attempt + 1 \in 0 .. MaxKeyRetries
    BY <1>4, <2>1, HandlerAssumption DEF ReqRec
  <2>3. todo \in Seq(StepNames)
    BY <1>6 DEF Fresh
  <2>4. [req[c] EXCEPT !.pc = "work", !.attempt = @ + 1, !.tried = @ \cup {k}, !.todo = todo] \in ReqRec
    BY <2>1, <2>2, <2>3 DEF ReqRec
  <2>5. QED
    BY <1>1, <1>3, <2>4
<1>13. /\ fate' \in [Requests -> [Keys -> Fates]] /\ fate'[c][k] = "charged"
       /\ \A d \in Requests, j \in Keys : d # c \/ j # k => fate'[d][j] = fate[d][j]
  BY <1>1, <1>3 DEF Fates
<1>14. GatewayTypeOK'
  BY <1>2, <1>9, <1>10, <1>12, <1>13 DEF GatewayInv, GatewayTypeOK
<1>15. ControlOK'
  <2>1. \A d \in Requests \ {c} : \A j \in Keys : fate'[d][j] = fate[d][j]
    BY <1>13
  <2>2. \A j \in Keys \ req'[c].tried : fate'[c][j] = "none" /\ slot[c][j] = NoSlot
    BY <1>11, <1>13 DEF GatewayInv, ControlOK
  <2>3. provider = "google" => req[c].model \in Models
    BY <1>4 DEF GatewayInv, ControlOK
  <2>4. QED
    BY <1>2, <1>10, <1>11, <2>1, <2>2, <2>3 DEF GatewayInv, ControlOK
<1>16. Today' = Today
  BY <1>2 DEF Today
<1>17. \A d \in Requests \ {c} : Due(d)' = Due(d) /\ (Doing(d, "write")' <=> Doing(d, "write"))
  BY <1>11 DEF Due, Doing
<1>18. /\ Due(c) = {} /\ ~Doing(c, "write") /\ ~Doing(c, "write")'
       /\ Due(c)' = {"snap", "write", "send"} \/ Due(c)' = {"reserve"}
  BY <1>4, <1>6, <1>11, FreshEmpty DEF Due, Doing, Fresh
<1>19. TodoOK'
  <2>1. RequestOK(c)'
    <3>1. ListOK(req'[c].todo)
      BY <1>6, <1>11 DEF Fresh
    <3>2. fate'[c][ask'[c].key] = "charged" /\ slot'[c][ask'[c].key] = NoSlot
      BY <1>5, <1>10, <1>13
    <3>3. slot'[c][ask'[c].key].off = Never
      BY <3>2 DEF NoSlot
    <3>4. Due(c)' \cap {"rollback", "unreserve", "exhaust", "block"} = {}
      BY <1>18
    <3>5. ~Doing(c, "write")'
      BY <1>18
    <3> DEFINE D == Due(c)'
               w == Doing(c, "write")'
               f == fate'[c][ask'[c].key]
               o == slot'[c][ask'[c].key]
    <3> HIDE DEF D, w, f, o
    <3>6. /\ D \cap {"reserve", "send"} # {} => f = "charged"
          /\ D \cap {"rollback", "unreserve"} # {} => f = "unserved"
          /\ "exhaust" \in D => f = "exhausted"
          /\ "reserve" \in D => o = NoSlot
          /\ D \cap {"send", "unreserve"} # {} => o.off = Never
          /\ "block" \notin D /\ ~w
      BY <3>2, <3>3, <3>4, <3>5 DEF D, w, f, o
    <3>7. QED
      BY <3>1, <3>6 DEF RequestOK, D, w, f, o
  <2>2. ASSUME NEW d \in Requests \ {c} PROVE RequestOK(d)'
    <3>1. RequestOK(d) /\ ask'[d] = ask[d] /\ req'[d] = req[d]
      BY <1>10, <1>11 DEF GatewayInv, TodoOK
    <3>2. fate'[d] = fate[d]
      BY <1>1, <1>3
    <3>3. QED
      BY <1>16, <1>17, <3>1, <3>2 DEF RequestOK
  <2>3. QED
    BY <2>1, <2>2 DEF TodoOK
<1>20. DaysOK'
  BY <1>2, <1>8, <1>9, <1>16 DEF GatewayInv, DaysOK
<1>21. CounterExact'
  <2> SUFFICES ASSUME NEW j \in Keys, Today' = 0, Fated(j, "exhausted")' = {}
               PROVE  mem'[j].usage = Cardinality({d \in Requests : Counted(d, j)})'
    BY DEF CounterExact
  <2> DEFINE old == {d \in Requests : Counted(d, j)}
  <2>1. Fated(j, "exhausted") = {}
    BY <1>5, <1>13 DEF Fated
  <2>2. mem[j].usage = Cardinality(old)
    BY <1>16, <2>1 DEF GatewayInv, CounterExact
  <2>3. \A d \in Requests : d # c \/ j # k => (Counted(d, j)' <=> Counted(d, j))
    BY <1>10, <1>11, <1>13, <1>17, <1>18 DEF Counted, Refunding, Due
  <2>4. CASE j # k
    <3>1. {d \in Requests : Counted(d, j)}' = old
      BY <2>3, <2>4
    <3>2. QED
      BY <1>9, <2>2, <2>4, <3>1
  <2>5. CASE j = k
    <3>1. c \notin old
      BY <1>5, <1>18, <2>5 DEF Counted, Refunding, Due
    <3>2. Counted(c, j)'
      BY <1>13, <2>5 DEF Counted
    <3>3. {d \in Requests : Counted(d, j)}' = old \cup {c}
      BY <2>3, <3>2
    <3>4. IsFiniteSet(old)
      BY GatewayAssumption, FS_Subset
    <3>5. Cardinality(old \cup {c}) = Cardinality(old) + 1 /\ Cardinality(old) \in Nat
      BY <3>1, <3>4, FS_AddElement, FS_CardinalityType
    <3>6. mem[k].day = Today
      <4>1. mem[k].day \in Nat /\ mem[k].day <= Today
        BY <1>1 DEF GatewayInv, DaysOK, KeyRec
      <4>2. Today = 0
        BY <1>16
      <4>3. QED
        BY <4>1, <4>2
    <3>7. mem'[j].usage = 1 + mem[j].usage
      BY <1>7, <1>9, <2>5, <3>6
    <3> HIDE DEF old
    <3>8. Cardinality({d \in Requests : Counted(d, j)})' = Cardinality(old) + 1
      BY <3>3, <3>5
    <3>9. QED
      BY <2>2, <3>5, <3>7, <3>8
  <2>6. QED
    BY <2>4, <2>5
<1>22. SavedOK'
  <2>1. Pending(k)'
    BY <1>10, <1>18 DEF Pending
  <2>2. \A j \in Keys : Writing(j)' = Writing(j)
    BY <1>10, <1>17, <1>18 DEF Writing
  <2>3. ASSUME NEW j \in Keys, ~Pending(j)'
        PROVE  ~Pending(j) /\ Standing(ToDB(mem[j]))' = Standing(ToDB(mem[j]))
    <3>1. j # k
      BY <2>1, <2>3
    <3>2. ~Pending(j)
      BY <1>10, <1>17, <1>18, <2>3 DEF Pending
    <3>3. mem'[j] = mem[j]
      BY <1>9, <3>1
    <3>4. QED
      BY <1>16, <3>2, <3>3 DEF Standing
  <2>4. \A j \in Keys : \A d \in Writing(j) : req'[d].snap = req[d].snap
    BY <1>11, <1>18 DEF Writing
  <2>5. QED
    BY <1>2, <2>2, <2>3, <2>4, SavedSame
<1>23. PlacesCounted'
  BY <1>11, PlacesSame
<1>24. QED
  BY <1>14, <1>15, <1>19, <1>20, <1>21, <1>22, <1>23 DEF GatewayInv

(***************************************************************************)
(* The steps of an attempt.                                                *)
(***************************************************************************)

\* c takes the first step of its list.
LEMMA DoneFacts ==
  ASSUME GatewayInv, NEW c \in Requests, NEW step, Doing(c, step)
  PROVE  LET q == Done(c)
         IN  /\ req[c].pc = "work" /\ step \in Due(c) /\ step \in StepNames
             /\ q \in [Requests -> ReqRec]
             /\ \A d \in Requests \ {c} : q[d] = req[d]
             /\ q[c] = [req[c] EXCEPT !.todo = Tail(req[c].todo)]
             /\ q[c].pc = "work" /\ q[c].model = req[c].model
             /\ q[c].tried = req[c].tried /\ q[c].attempt = req[c].attempt
             /\ q[c].snap = req[c].snap
             /\ ListOK(q[c].todo) /\ Range(q[c].todo) \subseteq Due(c)
             /\ step \in Touches => "snap" \in Range(q[c].todo)
             /\ step = "snap" => q[c].todo # <<>> /\ Head(q[c].todo) = "write"
             /\ step # "snap" /\ q[c].todo # <<>> => Head(q[c].todo) # "write"
             /\ step = "rollback" => "rollback" \notin Range(q[c].todo)
             /\ step = "unreserve" => Range(q[c].todo) \cap {"rollback", "unreserve"} = {}
<1>1. req[c].pc = "work" /\ req[c].todo # <<>> /\ Head(req[c].todo) = step
  BY DEF Doing
<1>2. req \in [Requests -> ReqRec] /\ req[c].todo \in Seq(StepNames)
  BY <1>1, Holding, StateTypes
<1>3. ListOK(req[c].todo)
  BY DEF GatewayInv, TodoOK, RequestOK
<1> DEFINE t == Tail(req[c].todo)
<1>4. /\ t \in Seq(StepNames) /\ step \in StepNames /\ ListOK(t)
      /\ Range(t) \subseteq Due(c) /\ step \in Due(c)
  BY <1>1, <1>2, <1>3, TailFacts, ListTail, RangeTail DEF Due
<1>5. /\ step \in Touches => "snap" \in Range(t)
      /\ step = "snap" => t # <<>> /\ Head(t) = "write"
      /\ step # "snap" /\ t # <<>> => Head(t) # "write"
      /\ step = "rollback" => "rollback" \notin Range(t)
      /\ step = "unreserve" => Range(t) \cap {"rollback", "unreserve"} = {}
  BY <1>1, <1>2, <1>3, HeadFacts
<1> HIDE DEF t
<1>6. Done(c) = [req EXCEPT ![c].todo = t]
  BY DEF Done, t
<1>7. [req[c] EXCEPT !.todo = t] \in ReqRec
  BY <1>2, <1>4 DEF ReqRec
<1>8. /\ Done(c) \in [Requests -> ReqRec]
      /\ \A d \in Requests \ {c} : Done(c)[d] = req[d]
      /\ Done(c)[c] = [req[c] EXCEPT !.todo = t]
  BY <1>2, <1>6, <1>7
<1>9. req[c] \in ReqRec
  BY <1>2
<1>10. /\ Done(c)[c].pc = "work" /\ Done(c)[c].model = req[c].model /\ Done(c)[c].todo = t
       /\ Done(c)[c].tried = req[c].tried /\ Done(c)[c].attempt = req[c].attempt
       /\ Done(c)[c].snap = req[c].snap
  BY <1>1, <1>8, <1>9 DEF ReqRec
<1>11. QED
  BY <1>1, <1>4, <1>5, <1>8, <1>10 DEF t

\* A step leaves the list with the other ones.
LEMMA RangeSplit ==
  ASSUME NEW S, NEW s \in Seq(S), s # <<>>
  PROVE  Range(s) \subseteq {Head(s)} \cup Range(Tail(s))
<1>1. ASSUME NEW x \in Range(s), x # Head(s) PROVE x \in Range(Tail(s))
  <2>1. PICK i \in 1 .. Len(s) : s[i] = x
    BY RangeOfList
  <2>2. /\ i # 1 /\ Tail(s) \in Seq(S) /\ Len(s) \in Nat /\ Len(Tail(s)) = Len(s) - 1
        /\ \A j \in 1 .. Len(s) - 1 : Tail(s)[j] = s[j + 1]
    BY <1>1, <2>1, TailFacts
  <2>3. i - 1 \in 1 .. Len(Tail(s)) /\ Tail(s)[i - 1] = s[i - 1 + 1] /\ i - 1 + 1 = i
    BY <2>2
  <2> DEFINE t == Tail(s)
  <2> HIDE DEF t
  <2>4. \A j \in 1 .. Len(t) : t[j] \in Range(t)
    BY <2>2, RangeOfList DEF t
  <2>5. QED
    BY <2>1, <2>3, <2>4 DEF t
<1>2. QED
  BY <1>1

LEMMA DoneTodo ==
  ASSUME GatewayInv, NEW c \in Requests
  PROVE  Done(c)[c].todo = Tail(req[c].todo)
<1>1. req \in [Requests -> ReqRec] /\ req[c] \in ReqRec
  BY StateTypes
<1> DEFINE t == Tail(req[c].todo)
<1> HIDE DEF t
<1>2. Done(c) = [req EXCEPT ![c].todo = t]
  BY DEF Done, t
<1>3. QED
  BY <1>1, <1>2 DEF ReqRec, t

\* What is left of a request's list fits its charges as long as they do not
\* change under it.
LEMMA DoneRequest ==
  ASSUME GatewayInv, NEW c \in Requests, NEW k \in Keys, ask[c].key = k, ask' = ask,
         NEW step, Doing(c, step), step # "snap", req'[c].todo = Tail(req[c].todo),
         req'[c].model = req[c].model,
         Due(c)' \cap {"reserve", "send", "rollback", "unreserve", "exhaust"} # {}
           => fate'[c][k] = fate[c][k],
         Due(c)' \cap {"reserve", "send", "unreserve"} # {} => slot'[c][k] = slot[c][k]
  PROVE  RequestOK(c)'
<1>1. RequestOK(c) /\ req[c] \in ReqRec
  BY StateTypes DEF GatewayInv, TodoOK
<1>2. ListOK(req'[c].todo) /\ Due(c)' \subseteq Due(c)
  <2>1. ListOK(Done(c)[c].todo) /\ Range(Done(c)[c].todo) \subseteq Due(c)
    BY DoneFacts
  <2>2. Done(c)[c].todo = Tail(req[c].todo)
    BY DoneTodo
  <2>3. QED
    BY <2>1, <2>2 DEF Due
<1>3. ~Doing(c, "write")'
  <2> DEFINE s == req[c].todo
  <2>1. s \in Seq(StepNames) /\ s # <<>> /\ Head(s) # "snap" /\ ListOK(s)
    BY <1>1 DEF Doing, RequestOK, ReqRec
  <2> HIDE DEF s
  <2>2. Tail(s) # <<>> => Head(Tail(s)) # "write"
    BY <2>1, HeadFacts
  <2>3. QED
    BY <2>2 DEF Doing, s
<1> DEFINE D == Due(c)
           E == Due(c)'
           w == Doing(c, "write")'
           f == fate[c][k]
           g == fate'[c][k]
           o == slot[c][k]
           p == slot'[c][k]
           m == req[c].model
<1>4. /\ D \cap {"reserve", "send"} # {} => f = "charged"
      /\ D \cap {"rollback", "unreserve"} # {} => f = "unserved"
      /\ "exhaust" \in D => f = "exhausted"
      /\ "reserve" \in D => o = NoSlot
      /\ D \cap {"send", "unreserve"} # {} => o.off = Never
      /\ "block" \in D => m \in Models
  BY <1>1 DEF RequestOK
<1>5. /\ E \subseteq D /\ ~w
      /\ E \cap {"reserve", "send", "rollback", "unreserve", "exhaust"} # {} => g = f
      /\ E \cap {"reserve", "send", "unreserve"} # {} => p = o
  BY <1>2, <1>3
<1> HIDE DEF D, E, w, f, g, o, p, m
<1>6. /\ E \cap {"reserve", "send"} # {} => g = "charged"
      /\ E \cap {"rollback", "unreserve"} # {} => g = "unserved"
      /\ "exhaust" \in E => g = "exhausted"
      /\ "reserve" \in E => p = NoSlot
      /\ E \cap {"send", "unreserve"} # {} => p.off = Never
      /\ "block" \in E => m \in Models
      /\ ~w
  BY <1>4, <1>5
<1>7. QED
  BY <1>2, <1>6 DEF RequestOK, E, w, g, p, m

\* A step under the key's mutex that the table has still to be told of.
LEMMA TouchStep ==
  ASSUME GatewayInv, NEW c \in Requests, NEW k \in Keys, ask[c].key = k,
         NEW step \in Touches, Doing(c, step), NEW r \in KeyRec,
         mem' = [mem EXCEPT ![k] = r], req' = Done(c),
         UNCHANGED <<clock, ask, row, history, provider, rate429, used, slot>>,
         r.day <= Today,
         step = "rollback" => r.usage = (IF mem[k].usage > 0 THEN mem[k].usage - 1 ELSE 0),
         Today = 0 /\ step \notin {"rollback", "exhaust"} => r.usage = mem[k].usage
  PROVE  GatewayInv'
<1>1. /\ mem \in [Keys -> KeyRec] /\ Today \in Nat /\ Today' = Today
      /\ mem' \in [Keys -> KeyRec] /\ \A j \in Keys : mem'[j] = IF j = k THEN r ELSE mem[j]
  BY StateTypes DEF Today
<1>2. /\ Works(c) /\ Elsewhere(c)
      /\ req[c].pc = "work" /\ step \in Due(c)
      /\ Range(req'[c].todo) \subseteq Due(c) /\ "snap" \in Range(req'[c].todo)
      /\ step = "rollback" => "rollback" \notin Range(req'[c].todo)
      /\ req'[c].todo # <<>> => Head(req'[c].todo) # "write"
  BY DoneFacts DEF Works, Elsewhere, history, Touches
<1>3. ~Doing(c, "write") /\ ~Doing(c, "write")' /\ Due(c)' = Range(req'[c].todo)
  BY <1>2 DEF Doing, Touches, Due
<1>4. RequestOK(c)
  BY DEF GatewayInv, TodoOK
<1>5. req'[c].todo = Tail(req[c].todo) /\ Due(c) \subseteq {step} \cup Due(c)'
  <2>1. req[c].todo \in Seq(StepNames)
    BY <1>2, Holding
  <2>2. req'[c].todo = Tail(req[c].todo)
    BY DoneTodo
  <2>3. QED
    BY <2>1, <2>2, RangeSplit DEF Doing, Due
<1>6. GatewayTypeOK'
  BY <1>1, <1>2 DEF GatewayInv, GatewayTypeOK, history, Works
<1>7. ControlOK'
  BY <1>2, WorksControl
<1>8. TodoOK'
  <2>1. RequestOK(c)'
    BY <1>2, <1>5, DoneRequest DEF Works, history, Touches
  <2>2. QED
    BY <1>2, <2>1, WorksTodo
<1>9. DaysOK'
  BY <1>1 DEF GatewayInv, DaysOK
<1>10. CounterExact'
  <2>1. CASE step = "rollback"
    <3>1. fate[c][k] = "unserved" /\ Counted(c, k) /\ ~Counted(c, k)'
      BY <1>2, <1>3, <1>4, <2>1 DEF RequestOK, Counted, Refunding, Due, history
    <3>2. \A d \in Requests, j \in Keys : d # c \/ j # k => (Counted(d, j)' <=> Counted(d, j))
      BY <1>2 DEF Works, Counted, Refunding, history
    <3> SUFFICES ASSUME NEW j \in Keys, Today' = 0, Fated(j, "exhausted")' = {}
                 PROVE  mem'[j].usage = Cardinality({d \in Requests : Counted(d, j)})'
      BY DEF CounterExact
    <3> DEFINE old == {d \in Requests : Counted(d, j)}
               new == {d \in Requests : Counted(d, j)}'
    <3>3. mem[j].usage = Cardinality(old)
      BY <1>1 DEF GatewayInv, CounterExact, Fated, history
    <3>4. CASE j # k
      <4>1. new = old
        BY <3>2, <3>4
      <4>2. QED
        BY <1>1, <3>3, <3>4, <4>1
    <3>5. CASE j = k
      <4>1. c \in old /\ new = old \ {c}
        BY <3>1, <3>2, <3>5
      <4>2. IsFiniteSet(old)
        BY GatewayAssumption, FS_Subset
      <4> HIDE DEF old, new
      <4>3. Cardinality(new) = Cardinality(old) - 1 /\ Cardinality(old) \in Nat
        BY <4>1, <4>2, FS_RemoveElement, FS_CardinalityType
      <4>4. Cardinality(new) \in Nat
        BY <4>1, <4>2, FS_RemoveElement, FS_CardinalityType
      <4>5. r.usage = Cardinality(new)
        BY <2>1, <3>3, <3>5, <4>3, <4>4
      <4>6. QED
        BY <1>1, <3>5, <4>5 DEF new
    <3>6. QED
      BY <3>4, <3>5
  <2>2. CASE step = "exhaust"
    <3>1. fate'[c][k] = "exhausted"
      BY <1>2, <1>4, <2>2 DEF RequestOK, history
    <3>2. \A d \in Requests, j \in Keys : j # k => (Counted(d, j)' <=> Counted(d, j))
      BY <1>2 DEF Works, Counted, Refunding, history
    <3>3. QED
      BY <1>1, <3>1, <3>2, CountSame DEF history
  <2>3. CASE step \notin {"rollback", "exhaust"}
    <3>1. Counted(c, k)' <=> Counted(c, k)
      BY <1>2, <1>3, <1>5, <2>3 DEF Counted, Refunding, Due, history
    <3>2. Today = 0 => \A j \in Keys : mem'[j].usage = mem[j].usage
      BY <1>1, <2>3
    <3>3. QED
      BY <1>2, <3>1, <3>2, WorksCount DEF history
  <2>4. QED
    BY <2>1, <2>2, <2>3
<1>11. SavedOK'
  BY <1>1, <1>2, <1>3, WorksSaved DEF history
<1>12. PlacesCounted'
  BY <1>2, PlacesSame DEF Works
<1>13. QED
  BY <1>6, <1>7, <1>8, <1>9, <1>10, <1>11, <1>12 DEF GatewayInv

\* The steps that settle an attempt.
LEMMA SettleStep ==
  ASSUME GatewayInv, NEW c \in Requests, UNCHANGED <<provider, rate429, used, slot>>,
         Settle(c) \/ BlockModel(c) \/ BlockForADay(c)
  PROVE  GatewayInv'
<1>0. PICK step \in Touches : Doing(c, step)
  BY DEF Settle, BlockModel, BlockForADay, Touch, Touches
<1>1. PICK k \in Keys : ask[c].key = k
  BY <1>0, DoneFacts, Holding
<1>2. /\ mem[k] \in KeyRec /\ Held(c) = mem[k] /\ req[c] \in ReqRec
      /\ Today \in Nat /\ clock \in Nat /\ NextMidnight(clock) \in Nat /\ clock + DayLength \in Nat
  BY <1>1, StateTypes, DayType, TimeAssumption DEF Held
<1>3. mem[k].day \in Nat /\ mem[k].day <= Today
  BY <1>2 DEF GatewayInv, DaysOK, KeyRec
<1>4. ASSUME NEW s \in Touches, NEW r \in KeyRec, Touch(c, s, r), r.day <= Today,
             s = "rollback" => r.usage = (IF mem[k].usage > 0 THEN mem[k].usage - 1 ELSE 0),
             Today = 0 /\ s \notin {"rollback", "exhaust"} => r.usage = mem[k].usage
      PROVE  GatewayInv'
  <2>1. /\ Doing(c, s) /\ mem' = [mem EXCEPT ![k] = r] /\ req' = Done(c)
        /\ UNCHANGED <<clock, ask, row, history, provider, rate429, used, slot>>
    BY <1>1, <1>4 DEF Touch
  <2>2. QED
    BY <1>1, <1>4, <2>1, TouchStep
<1>5. CASE Touch(c, "rollback", RollbackUsage(Held(c)))
  <2> DEFINE r == RollbackUsage(mem[k])
  <2>1. /\ r \in KeyRec /\ r.day = mem[k].day
        /\ r.usage = IF mem[k].usage > 0 THEN mem[k].usage - 1 ELSE 0
    BY <1>2, RollbackFacts
  <2>2. Touch(c, "rollback", r)
    BY <1>2, <1>5
  <2> HIDE DEF r
  <2>3. QED
    BY <1>3, <1>4, <2>1, <2>2 DEF Touches
<1>6. ASSUME NEW s \in {"pause", "limit"}, NEW t \in Nat, NEW status \in {"", "rate_limited"},
             Touch(c, s, SetCooldown(Held(c), t, status))
      PROVE  GatewayInv'
  <2> DEFINE r == SetCooldown(mem[k], t, status)
  <2>0. status \in Status \cup {""}
    BY DEF Status
  <2>1. r \in KeyRec /\ r.day = mem[k].day /\ r.usage = mem[k].usage
    BY <1>2, <2>0, SetCooldownFacts
  <2>2. Touch(c, s, r)
    BY <1>2, <1>6
  <2> HIDE DEF r
  <2>3. QED
    BY <1>3, <1>4, <2>1, <2>2 DEF Touches
<1>7. CASE Touch(c, "pause", SetCooldown(Held(c), clock + Pause, ""))
  <2>1. clock + Pause \in Nat
    BY <1>2, HandlerAssumption
  <2>2. QED
    BY <1>6, <1>7, <2>1
<1>8. CASE Touch(c, "limit", SetCooldown(Held(c), clock + req[c].wait, "rate_limited"))
  <2>1. clock + req[c].wait \in Nat
    BY <1>2 DEF ReqRec
  <2>2. QED
    BY <1>6, <1>8, <2>1
<1>9. CASE Touch(c, "invalid", SetStatus(Held(c), "invalid", Today))
  <2> DEFINE r == SetStatus(mem[k], "invalid", Today)
  <2>1. r \in KeyRec /\ r.day = Today /\ r.usage = IF mem[k].day = Today THEN mem[k].usage ELSE 0
    BY <1>2, SetStatusFacts
  <2>2. Touch(c, "invalid", r)
    BY <1>2, <1>9
  <2> HIDE DEF r
  <2>3. r.day <= Today /\ (Today = 0 => r.usage = mem[k].usage)
    BY <1>2, <1>3, <2>1
  <2>4. QED
    BY <1>4, <2>1, <2>2, <2>3 DEF Touches
<1>10. CASE Touch(c, "exhaust", MarkDayExhausted(Held(c), Today))
  <2> DEFINE r == MarkDayExhausted(mem[k], Today)
  <2>1. r \in KeyRec /\ r.day = Today
    BY <1>2, MarkFacts
  <2>2. Touch(c, "exhaust", r)
    BY <1>2, <1>10
  <2> HIDE DEF r
  <2>3. r.day <= Today
    BY <1>2, <2>1
  <2>4. QED
    BY <1>4, <2>1, <2>2, <2>3 DEF Touches
<1>11. ASSUME NEW t \in Nat, Touch(c, "block", SetModelCooldown(Held(c), req[c].model, t))
       PROVE  GatewayInv'
  <2>1. Doing(c, "block") /\ RequestOK(c)
    BY <1>11 DEF Touch, GatewayInv, TodoOK
  <2>2. PICK m \in Models : m = req[c].model
    BY <2>1, DoneFacts DEF RequestOK
  <2> DEFINE r == SetModelCooldown(mem[k], m, t)
  <2>3. r \in KeyRec /\ r.day = mem[k].day /\ r.usage = mem[k].usage
    BY <1>2, SetModelCooldownFacts
  <2>4. Touch(c, "block", r)
    BY <1>2, <1>11, <2>2
  <2> HIDE DEF r
  <2>5. QED
    BY <1>3, <1>4, <2>3, <2>4 DEF Touches
<1>12. CASE BlockModel(c)
  BY <1>2, <1>11, <1>12 DEF BlockModel
<1>13. CASE BlockForADay(c)
  BY <1>2, <1>11, <1>13 DEF BlockForADay
<1>14. QED
  BY <1>5, <1>7, <1>8, <1>9, <1>10, <1>12, <1>13 DEF Settle

\* SyncKeyToDB takes its snapshot.
LEMMA SnapStep ==
  ASSUME GatewayInv, NEW c \in Requests, Snap(c), UNCHANGED <<provider, rate429, used, slot>>
  PROVE  GatewayInv'
<1>0. Doing(c, "snap")
  BY DEF Snap
<1>1. PICK k \in Keys : ask[c].key = k
  BY <1>0, DoneFacts, Holding
<1> DEFINE s == ToDB(mem[k])
<1>2. /\ req' = [Done(c) EXCEPT ![c].snap = s] /\ stale' = stale \ {c}
      /\ UNCHANGED <<clock, mem, ask, row, fate, crossed>>
  BY <1>1 DEF Snap, Held
<1>3. /\ mem \in [Keys -> KeyRec] /\ row \in [Keys -> RowRec] /\ req \in [Requests -> ReqRec]
      /\ Today \in Nat /\ Today' = Today /\ stale \subseteq Requests
  BY <1>2, StateTypes DEF Today
<1>4. s \in RowRec /\ s.day <= Today
  BY <1>3, ToDBFacts DEF GatewayInv, DaysOK
<1>5. /\ Done(c) \in [Requests -> ReqRec] /\ Done(c)[c] \in ReqRec
      /\ \A d \in Requests \ {c} : Done(c)[d] = req[d]
      /\ Done(c)[c].pc = "work" /\ Done(c)[c].model = req[c].model
      /\ Done(c)[c].tried = req[c].tried /\ Done(c)[c].attempt = req[c].attempt
  BY <1>0, DoneFacts
<1> DEFINE t == Done(c)[c].todo
<1>6. ListOK(t) /\ Range(t) \subseteq Due(c) /\ t # <<>> /\ Head(t) = "write" /\ req[c].pc = "work"
  BY <1>0, DoneFacts
<1>7. t = Tail(req[c].todo) /\ Due(c) \subseteq {"snap"} \cup Range(t)
  <2>1. req[c].todo \in Seq(StepNames)
    BY <1>6, Holding
  <2>2. t = Tail(req[c].todo)
    BY DoneTodo
  <2>3. QED
    BY <1>0, <2>1, <2>2, RangeSplit DEF Doing, Due
<1> HIDE DEF s
<1>8. /\ req' \in [Requests -> ReqRec]
      /\ \A d \in Requests \ {c} : req'[d] = req[d]
      /\ req'[c].pc = "work" /\ req'[c].model = req[c].model
      /\ req'[c].tried = req[c].tried /\ req'[c].attempt = req[c].attempt
      /\ req'[c].todo = t /\ req'[c].snap = s
  <2>1. [Done(c)[c] EXCEPT !.snap = s] \in ReqRec
    BY <1>4, <1>5 DEF ReqRec
  <2>2. QED
    BY <1>2, <1>5, <2>1 DEF ReqRec
<1> HIDE DEF t
<1>9. Works(c) /\ Elsewhere(c)
  BY <1>2, <1>6, <1>8 DEF Works, Elsewhere
<1>10. Doing(c, "write")' /\ ~Doing(c, "write") /\ Due(c)' = Range(t)
  BY <1>0, <1>6, <1>8 DEF Doing, Due
<1>11. GatewayTypeOK'
  BY <1>2, <1>3, <1>8 DEF GatewayInv, GatewayTypeOK
<1>12. ControlOK'
  BY <1>9, WorksControl
<1>13. TodoOK'
  <2>1. RequestOK(c)
    BY DEF GatewayInv, TodoOK
  <2>2. ListOK(req'[c].todo) /\ Due(c)' \subseteq Due(c)
    BY <1>6, <1>8, <1>10
  <2>3. req'[c].snap \in RowRec /\ req'[c].snap.day <= Today'
    BY <1>3, <1>4, <1>8
  <2>4. fate' = fate /\ slot' = slot /\ ask' = ask /\ req'[c].model = req[c].model
    BY <1>2, <1>8
  <2> DEFINE D == Due(c)
             E == Due(c)'
  <2> HIDE DEF D, E
  <2>5. RequestOK(c)'
    BY <2>1, <2>2, <2>3, <2>4 DEF RequestOK
  <2>6. QED
    BY <1>9, <2>5, WorksTodo
<1>14. DaysOK'
  BY <1>2, <1>3 DEF GatewayInv, DaysOK
<1>15. CounterExact'
  <2>1. Counted(c, k)' <=> Counted(c, k)
    BY <1>2, <1>6, <1>7, <1>10 DEF Counted, Refunding, Due
  <2>2. QED
    BY <1>1, <1>2, <1>9, <2>1, WorksCount
<1>16. SavedOK'
  <2> SUFFICES ASSUME NEW j \in Keys, ~Pending(j)'
               PROVE  /\ \A d \in Requests :
                           (Writing(j) = {d} /\ d \notin stale
                              => Standing(req[d].snap) = Standing(ToDB(mem[j])))'
                      /\ (Writing(j) = {} /\ j \notin crossed
                            => Standing(row[j]) = Standing(ToDB(mem[j])))'
    BY DEF SavedOK
  <2>1. \A d \in Requests \ {c} : Due(d)' = Due(d) /\ (Doing(d, "write")' <=> Doing(d, "write"))
    BY <1>8 DEF Due, Doing
  <2>2. Writing(k)' = Writing(k) \cup {c}
    BY <1>1, <1>2, <1>10, <2>1 DEF Writing
  <2>4. CASE j = k
    <3>1. ASSUME NEW d \in Requests, Writing(j)' = {d}
          PROVE  Standing(req[d].snap)' = Standing(ToDB(mem[j]))'
      <4>1. d = c
        BY <2>2, <2>4, <3>1
      <4>2. req'[d].snap = s /\ s = ToDB(mem'[j])
        BY <1>2, <1>8, <2>4, <4>1 DEF s
      <4>3. QED
        BY <1>3, <4>2 DEF Standing
    <3>2. Writing(j)' # {}
      BY <2>2, <2>4
    <3>3. QED
      BY <3>1, <3>2
  <2>5. CASE j # k
    <3>1. Writing(j)' = Writing(j) /\ ~Pending(j)
      BY <1>1, <1>2, <2>1, <2>5 DEF Writing, Pending
    <3>2. c \notin Writing(j)
      BY <1>1, <2>5 DEF Writing
    <3>3. /\ \A d \in Requests :
               Writing(j) = {d} /\ d \notin stale => Standing(req[d].snap) = Standing(ToDB(mem[j]))
          /\ Writing(j) = {} /\ j \notin crossed => Standing(row[j]) = Standing(ToDB(mem[j]))
      BY <3>1 DEF GatewayInv, SavedOK
    <3>4. Standing(row[j])' = Standing(row[j]) /\ Standing(ToDB(mem[j]))' = Standing(ToDB(mem[j]))
      BY <1>2, <1>3 DEF Standing
    <3>5. ASSUME NEW d \in Requests, Writing(j) = {d}
          PROVE  /\ Standing(req[d].snap)' = Standing(req[d].snap)
                 /\ d \notin stale' => d \notin stale
      <4>1. d # c
        BY <3>2, <3>5
      <4>2. req'[d].snap = req[d].snap
        BY <1>8, <4>1
      <4>3. QED
        BY <1>2, <1>3, <4>1, <4>2 DEF Standing
    <3>6. QED
      BY <1>2, <3>1, <3>3, <3>4, <3>5
  <2>6. QED
    BY <2>4, <2>5
<1>17. PlacesCounted'
  BY <1>8, PlacesSame
<1>18. QED
  BY <1>11, <1>12, <1>13, <1>14, <1>15, <1>16, <1>17 DEF GatewayInv

\* SyncKeyToDB writes it.  The last of several writers is the one that counts:
\* the others are stale from then on, for its row is later than theirs.
LEMMA WriteStep ==
  ASSUME GatewayInv, NEW c \in Requests, Write(c), UNCHANGED <<provider, rate429, used, slot>>
  PROVE  GatewayInv'
<1>0. Doing(c, "write")
  BY DEF Write
<1>1. PICK k \in Keys : ask[c].key = k
  BY <1>0, DoneFacts, Holding
<1> DEFINE s == req[c].snap
<1>3. /\ mem \in [Keys -> KeyRec] /\ row \in [Keys -> RowRec] /\ req \in [Requests -> ReqRec]
      /\ Today \in Nat /\ stale \subseteq Requests /\ crossed \subseteq Keys
  BY StateTypes
<1>4. s \in RowRec /\ s.day <= Today
  BY <1>0 DEF GatewayInv, TodoOK, RequestOK
<1>2. /\ req' = [Done(c) EXCEPT ![c].snap = NoRow]
      /\ row' = [row EXCEPT ![k] = s]
      /\ stale' = (stale \cup Writing(k)) \ {c}
      /\ crossed' = IF c \in stale THEN crossed \cup {k} ELSE crossed \ {k}
      /\ UNCHANGED <<clock, mem, ask, fate>> /\ Today' = Today
  <2>1. row[k] # NoRow
    BY <1>3 DEF RowRec, Status, NoRow
  <2>2. UpdateKey(row[k], s) = s
    BY <2>1 DEF UpdateKey
  <2>3. row' = [row EXCEPT ![k] = UpdateKey(@, s)]
    BY <1>1 DEF Write
  <2>4. row' = [row EXCEPT ![k] = s]
    BY <2>2, <2>3
  <2>5. QED
    BY <1>1, <2>4 DEF Write, Today
<1> HIDE DEF s
<1>5. /\ Done(c) \in [Requests -> ReqRec] /\ Done(c)[c] \in ReqRec
      /\ \A d \in Requests \ {c} : Done(c)[d] = req[d]
      /\ Done(c)[c].pc = "work" /\ Done(c)[c].model = req[c].model
      /\ Done(c)[c].tried = req[c].tried /\ Done(c)[c].attempt = req[c].attempt
      /\ req[c].pc = "work"
  BY <1>0, DoneFacts
<1> DEFINE t == Done(c)[c].todo
<1>7. t = Tail(req[c].todo) /\ Due(c) \subseteq {"write"} \cup Range(t) /\ Range(t) \subseteq Due(c)
  <2>1. req[c].todo \in Seq(StepNames)
    BY <1>5, Holding
  <2>2. t = Tail(req[c].todo)
    BY DoneTodo
  <2>3. QED
    BY <1>0, <2>1, <2>2, RangeSplit, RangeTail DEF Doing, Due
<1>8. /\ req' \in [Requests -> ReqRec]
      /\ \A d \in Requests \ {c} : req'[d] = req[d]
      /\ req'[c].pc = "work" /\ req'[c].model = req[c].model
      /\ req'[c].tried = req[c].tried /\ req'[c].attempt = req[c].attempt
      /\ req'[c].todo = t
  <2>1. [Done(c)[c] EXCEPT !.snap = NoRow] \in ReqRec
    BY <1>5 DEF ReqRec
  <2>2. QED
    BY <1>2, <1>5, <2>1 DEF ReqRec
<1> HIDE DEF t
<1>9. Works(c) /\ Elsewhere(c) /\ Due(c)' = Range(t)
  BY <1>2, <1>5, <1>8 DEF Works, Elsewhere, Due
<1>10. RequestOK(c)'
  BY <1>0, <1>1, <1>2, <1>7, <1>8, DoneRequest
<1>11. ~Doing(c, "write")'
  <2>1. req[c].todo \in Seq(StepNames) /\ ListOK(req[c].todo) /\ req[c].todo # <<>>
    BY <1>0, <1>5, Holding DEF GatewayInv, TodoOK, RequestOK, Doing
  <2> DEFINE u == req[c].todo
  <2>2. Head(u) = "write"
    BY <1>0 DEF Doing
  <2> HIDE DEF u
  <2>3. Tail(u) # <<>> => Head(Tail(u)) # "write"
    BY <2>1, <2>2, HeadFacts DEF u
  <2>4. QED
    BY <1>7, <1>8, <2>3 DEF Doing, u
<1>12. GatewayTypeOK'
  <2>1. row' \in [Keys -> RowRec] /\ stale' \subseteq Requests /\ crossed' \subseteq Keys
    BY <1>2, <1>3, <1>4 DEF Writing
  <2>2. QED
    BY <1>2, <1>8, <2>1 DEF GatewayInv, GatewayTypeOK
<1>13. ControlOK'
  BY <1>9, WorksControl
<1>14. TodoOK'
  BY <1>9, <1>10, WorksTodo
<1>15. DaysOK'
  BY <1>2, <1>3, <1>4 DEF GatewayInv, DaysOK
<1>16. CounterExact'
  <2>1. Counted(c, k)' <=> Counted(c, k)
    BY <1>2, <1>7, <1>9 DEF Counted, Refunding, Due
  <2>2. QED
    BY <1>1, <1>2, <1>9, <2>1, WorksCount
<1>17. SavedOK'
  <2> SUFFICES ASSUME NEW j \in Keys, ~Pending(j)'
               PROVE  /\ \A d \in Requests :
                           (Writing(j) = {d} /\ d \notin stale
                              => Standing(req[d].snap) = Standing(ToDB(mem[j])))'
                      /\ (Writing(j) = {} /\ j \notin crossed
                            => Standing(row[j]) = Standing(ToDB(mem[j])))'
    BY DEF SavedOK
  <2>1. \A d \in Requests \ {c} : Due(d)' = Due(d) /\ (Doing(d, "write")' <=> Doing(d, "write"))
    BY <1>8 DEF Due, Doing
  <2>2. Writing(k)' = Writing(k) \ {c} /\ c \in Writing(k)
    BY <1>0, <1>1, <1>2, <1>11, <2>1 DEF Writing
  <2>3. ~Pending(j)
    BY <1>2, <1>7, <1>9, <2>1 DEF Pending
  <2>4. /\ \A d \in Requests :
             Writing(j) = {d} /\ d \notin stale => Standing(req[d].snap) = Standing(ToDB(mem[j]))
        /\ Writing(j) = {} /\ j \notin crossed => Standing(row[j]) = Standing(ToDB(mem[j]))
    BY <2>3 DEF GatewayInv, SavedOK
  <2>5. CASE j = k
    <3>1. \A d \in Writing(j)' : d \in stale'
      BY <1>2, <2>2, <2>5
    <3>2. ASSUME Writing(j)' = {}, j \notin crossed'
          PROVE  Standing(row[j])' = Standing(ToDB(mem[j]))'
      <4>1. Writing(j) = {c} /\ c \notin stale
        BY <1>2, <1>3, <2>2, <2>5, <3>2
      <4>2. Standing(s) = Standing(ToDB(mem[j]))
        BY <2>4, <4>1 DEF s
      <4>3. row'[j] = s
        BY <1>2, <1>3, <2>5
      <4>4. QED
        BY <1>2, <4>2, <4>3 DEF Standing
    <3>3. QED
      BY <3>1, <3>2
  <2>6. CASE j # k
    <3>1. Writing(j)' = Writing(j) /\ c \notin Writing(j)
      BY <1>1, <1>2, <2>1, <2>6 DEF Writing
    <3>2. Standing(row[j])' = Standing(row[j]) /\ Standing(ToDB(mem[j]))' = Standing(ToDB(mem[j]))
      BY <1>2, <1>3, <2>6 DEF Standing
    <3>3. ASSUME NEW d \in Requests, Writing(j) = {d}
          PROVE  /\ Standing(req[d].snap)' = Standing(req[d].snap)
                 /\ d \notin stale' => d \notin stale
      <4>1. d # c
        BY <3>1, <3>3
      <4>2. req'[d].snap = req[d].snap
        BY <1>8, <4>1
      <4>3. QED
        BY <1>2, <1>3, <4>1, <4>2 DEF Standing
    <3>4. j \notin crossed' => j \notin crossed
      BY <1>2, <2>6
    <3>5. QED
      BY <2>4, <3>1, <3>2, <3>3, <3>4
  <2>7. QED
    BY <2>5, <2>6
<1>18. PlacesCounted'
  BY <1>8, PlacesSame
<1>19. QED
  BY <1>12, <1>13, <1>14, <1>15, <1>16, <1>17, <1>18 DEF GatewayInv

\* A request waits for the table, or for the upstream, with nothing else to do.
LEMMA LastStep ==
  ASSUME GatewayInv, NEW c \in Requests, NEW step \in {"reserve", "send"}, Doing(c, step)
  PROVE  Due(c) = {step} /\ RequestOK(c) /\ fate[c][ask[c].key] = "charged"
<1>1. req[c].todo \in Seq(StepNames) /\ req[c].todo # <<>> /\ Head(req[c].todo) = step
  BY Holding DEF Doing
<1>2. RequestOK(c) /\ ListOK(req[c].todo)
  BY DEF GatewayInv, TodoOK, RequestOK
<1> DEFINE s == req[c].todo
<1> HIDE DEF s
<1>3. Range(Tail(s)) = {} /\ Head(s) \in Range(s) /\ Range(s) \subseteq {Head(s)} \cup Range(Tail(s))
  BY <1>1, <1>2, HeadFacts, RangeSplit, RangeTail DEF s
<1>4. Due(c) = {step}
  BY <1>1, <1>3 DEF Due, s
<1>5. QED
  BY <1>2, <1>4 DEF RequestOK

(***************************************************************************)
(* The answers.                                                            *)
(***************************************************************************)

\* The upstream has answered: the charge counts, or is to be given back, or the
\* key is exhausted, and the steps that follow agree with that.
LEMMA AnswerStep ==
  ASSUME GatewayInv, NEW c \in Requests, NEW k \in Keys, ask[c].key = k, Doing(c, "send"),
         NEW f \in {"charged", "unserved", "exhausted"},
         fate' = (IF f = "charged" THEN fate ELSE Fate(c, f)),
         NEW q \in ReqRec, req' = [req EXCEPT ![c] = q],
         q.pc = "work", q.model = req[c].model, q.tried = req[c].tried, q.attempt = req[c].attempt,
         Fresh(q.todo), Range(q.todo) \cap {"reserve", "send"} = {},
         "rollback" \in Range(q.todo) <=> f = "unserved",
         "unreserve" \in Range(q.todo) => f = "unserved",
         "exhaust" \in Range(q.todo) => f = "exhausted",
         "block" \in Range(q.todo) => q.model \in Models,
         NEW r \in KeyRec, mem' = [mem EXCEPT ![k] = r],
         r.usage = mem[k].usage, r.day = mem[k].day,
         r.status = mem[k].status, r.cooldown = mem[k].cooldown,
         rate429' \in Rate429Rec,
         UNCHANGED <<clock, ask, row, stale, crossed, provider, used, slot>>
  PROVE  GatewayInv'
<1>1. /\ mem \in [Keys -> KeyRec] /\ req \in [Requests -> ReqRec]
      /\ fate \in [Requests -> [Keys -> Fates]] /\ Today' = Today
  BY StateTypes DEF Today
<1>2. /\ Due(c) = {"send"} /\ RequestOK(c) /\ fate[c][k] = "charged" /\ req[c].pc = "work"
  BY LastStep DEF Doing
<1>3. /\ mem' \in [Keys -> KeyRec] /\ mem'[k] = r /\ \A j \in Keys \ {k} : mem'[j] = mem[j]
  BY <1>1
<1>4. /\ req' \in [Requests -> ReqRec] /\ req'[c] = q /\ \A d \in Requests \ {c} : req'[d] = req[d]
  BY <1>1
<1>5. /\ fate' \in [Requests -> [Keys -> Fates]] /\ fate'[c][k] = f
      /\ \A d \in Requests, j \in Keys : d # c \/ j # k => fate'[d][j] = fate[d][j]
  <2>1. CASE f = "charged"
    BY <1>1, <1>2, <2>1
  <2>2. CASE f # "charged"
    <3>1. fate' = [fate EXCEPT ![c][k] = f] /\ f \in Fates
      BY <2>2 DEF Fate, Fates
    <3>2. QED
      BY <1>1, <3>1
  <2>3. QED
    BY <2>1, <2>2
<1>6. Works(c) /\ Elsewhere(c) /\ Due(c)' = Range(q.todo)
  BY <1>2, <1>4, <1>5 DEF Works, Elsewhere, Due
<1>7. ~Doing(c, "write") /\ ~Doing(c, "write")'
  BY <1>4 DEF Doing, Fresh
<1>8. GatewayTypeOK'
  BY <1>3, <1>4, <1>5 DEF GatewayInv, GatewayTypeOK
<1>9. ControlOK'
  BY <1>6, WorksControl
<1>10. TodoOK'
  <2> DEFINE E == Due(c)'
  <2>1. slot'[c][k].off = Never /\ ListOK(req'[c].todo) /\ req'[c].model = q.model
    BY <1>2, <1>4 DEF RequestOK, Fresh
  <2>2. /\ E \cap {"reserve", "send"} = {}
        /\ "rollback" \in E <=> f = "unserved"
        /\ "unreserve" \in E => f = "unserved"
        /\ "exhaust" \in E => f = "exhausted"
        /\ "block" \in E => q.model \in Models
    BY <1>6
  <2> HIDE DEF E
  <2>3. /\ E \cap {"rollback", "unreserve"} # {} => f = "unserved"
        /\ "reserve" \notin E
    BY <2>2
  <2>4. RequestOK(c)'
    BY <1>5, <1>7, <2>1, <2>2, <2>3 DEF RequestOK, E
  <2>5. QED
    BY <1>6, <2>4, WorksTodo
<1>11. DaysOK'
  BY <1>1, <1>3 DEF GatewayInv, DaysOK
<1>12. CounterExact'
  <2>1. f # "exhausted" => Counted(c, k) /\ Counted(c, k)'
    BY <1>2, <1>5, <1>6 DEF Counted, Refunding, Due
  <2>2. \A j \in Keys : mem'[j].usage = mem[j].usage
    BY <1>3
  <2>3. QED
    BY <1>2, <1>5, <1>6, <2>1, <2>2, WorksCount
<1>13. SavedOK'
  <2>1. Standing(ToDB(mem[k]))' = Standing(ToDB(mem[k]))
    <3>1. mem[k] \in KeyRec /\ Today' = Today
      BY <1>1
    <3>2. Standing(ToDB(r)) = Standing(ToDB(mem[k]))
      BY <3>1, ToDBFacts, StandingIs
    <3>3. Standing(ToDB(mem[k]))' = Standing(ToDB(r))
      BY <1>3, <3>1 DEF Standing
    <3>4. QED
      BY <3>2, <3>3
  <2>2. QED
    BY <1>2, <1>3, <1>6, <1>7, <2>1, WorksSaved
<1>14. PlacesCounted'
  BY <1>6, PlacesSame DEF Works
<1>15. QED
  BY <1>8, <1>9, <1>10, <1>11, <1>12, <1>13, <1>14 DEF GatewayInv

\* What OpenRouter's handler does with an answer.
LEMMA OpenRouterAnswerStep ==
  ASSUME GatewayInv, NEW c \in Requests, NEW code \in OpenRouterCodes, NEW quota \in BOOLEAN,
         Answer(c, code, quota), UNCHANGED <<provider, rate429, used, slot>>
  PROVE  GatewayInv'
<1>1. Doing(c, "send") /\ (quota => code \in {"429", "401", "503", "501", "400"})
  BY DEF Answer
<1>2. PICK k \in Keys : ask[c].key = k
  BY <1>1, DoneFacts, Holding
<1>3. /\ mem[k] \in KeyRec /\ req \in [Requests -> ReqRec] /\ req[c] \in ReqRec /\ req[c].pc = "work"
      /\ rate429 \in Rate429Rec
  BY <1>1, StateTypes DEF Doing, GatewayInv, GatewayTypeOK
<1>4. PICK viaProxy \in BOOLEAN : viaProxy = (AfterProxy /\ ~req[c].proxied)
  BY <1>3, HandlerAssumption DEF ReqRec
<1> DEFINE s == Steps(code, quota, viaProxy)
           f == IF quota THEN "exhausted" ELSE IF Unserved(code, viaProxy) THEN "unserved" ELSE "charged"
           then == IF code = "200" \/ (code = "upstream429" /\ ~viaProxy) THEN "answer" ELSE "retry"
           proxied == req[c].proxied \/ (code = "upstream429" /\ viaProxy)
<1>5. PICK d \in Nat : req' = [req EXCEPT ![c].todo = s, ![c].wait = d, ![c].then = then,
                                          ![c].proxied = proxied]
  <2>1. PICK d \in IF code = "429" THEN Backoff ELSE {0} :
          req' = [req EXCEPT ![c].todo = s, ![c].wait = d, ![c].then = then,
                             ![c].proxied = @ \/ (code = "upstream429" /\ viaProxy)]
    BY <1>4 DEF Answer
  <2>2. d \in Nat
    BY OpenRouterAssumption
  <2> HIDE DEF s, then
  <2>3. req' = [req EXCEPT ![c].todo = s, ![c].wait = d, ![c].then = then, ![c].proxied = proxied]
    BY <2>1, <1>3
  <2>4. QED
    BY <2>2, <2>3
<1>6. PICK r \in Told(mem[k], code) : mem' = [mem EXCEPT ![k] = r]
  BY <1>2 DEF Answer, Held
<1>7. /\ r \in KeyRec /\ r.usage = mem[k].usage /\ r.day = mem[k].day
      /\ r.status = mem[k].status /\ r.cooldown = mem[k].cooldown
  <2>1. r = mem[k] \/ \E n \in Remaining : r = UpdateLimitRemaining(mem[k], n)
    BY DEF Told
  <2>2. \A n \in Int : /\ UpdateLimitRemaining(mem[k], n) \in KeyRec
                       /\ UpdateLimitRemaining(mem[k], n).usage = mem[k].usage
                       /\ UpdateLimitRemaining(mem[k], n).day = mem[k].day
                       /\ UpdateLimitRemaining(mem[k], n).status = mem[k].status
                       /\ UpdateLimitRemaining(mem[k], n).cooldown = mem[k].cooldown
    BY <1>3 DEF UpdateLimitRemaining, KeyRec
  <2>3. QED
    BY <1>3, <2>1, <2>2, OpenRouterAssumption
<1>8. /\ Fresh(s)
      /\ Range(s) \cap {"reserve", "send", "unreserve", "block"} = {}
      /\ "rollback" \in Range(s) <=> ~quota /\ Unserved(code, viaProxy)
      /\ "exhaust" \in Range(s) => quota
  BY <1>1, OpenRouterLists
<1>9. /\ "rollback" \in Range(s) <=> f = "unserved"
      /\ "exhaust" \in Range(s) => f = "exhausted"
      /\ f \in {"charged", "unserved", "exhausted"}
  BY <1>8
<1>10. fate' = IF f = "charged" THEN fate ELSE Fate(c, f)
  BY <1>4 DEF Answer
<1>11. then \in {"retry", "answer"} /\ proxied \in BOOLEAN
  OBVIOUS
<1> HIDE DEF s, f, then, proxied
<1> DEFINE q == [req[c] EXCEPT !.todo = s, !.wait = d, !.then = then, !.proxied = proxied]
<1>12. /\ q \in ReqRec /\ q.todo = s
       /\ q.pc = "work" /\ q.model = req[c].model /\ q.tried = req[c].tried /\ q.attempt = req[c].attempt
  BY <1>3, <1>8, <1>11 DEF ReqRec, Fresh
<1>13. req' = [req EXCEPT ![c] = q]
  BY <1>5
<1> HIDE DEF q
<1>14. UNCHANGED <<clock, ask, row, stale, crossed>> /\ rate429' \in Rate429Rec
  BY <1>3 DEF Answer
<1>15. /\ Fresh(q.todo) /\ Range(q.todo) \cap {"reserve", "send"} = {}
       /\ "unreserve" \notin Range(q.todo) /\ "block" \notin Range(q.todo)
  BY <1>8, <1>12
<1>16. /\ "rollback" \in Range(q.todo) <=> f = "unserved"
       /\ "exhaust" \in Range(q.todo) => f = "exhausted"
       /\ f \in {"charged", "unserved", "exhausted"}
  BY <1>9, <1>12
<1>17. UNCHANGED <<provider, used, slot>>
  OBVIOUS
<1>18. QED
  BY <1>1, <1>2, <1>6, <1>7, <1>10, <1>12, <1>13, <1>14, <1>15, <1>16, <1>17, AnswerStep

\* What AIHubMix's does.
LEMMA Count429Type ==
  ASSUME GatewayInv, NEW k \in Keys
  PROVE  Count429(k) \in Rate429Rec /\ NextCooldown(k) \in Nat
<1>1. /\ rate429 \in Rate429Rec /\ Today \in Nat /\ clock \in Nat /\ Ladder \in Seq(Nat)
      /\ Len(Ladder) \in Nat
  BY StateTypes, AihubmixAssumption DEF GatewayInv, GatewayTypeOK
<1>2. Counts429 \in [Keys -> 0 .. Len(Ladder)]
  BY <1>1 DEF Counts429, Rate429Rec
<1> DEFINE a == Counts429
           n == IF a[k] < Len(Ladder) THEN a[k] + 1 ELSE a[k]
<1> HIDE DEF a
<1>3. a \in [Keys -> 0 .. Len(Ladder)] /\ a[k] \in 0 .. Len(Ladder)
  BY <1>2 DEF a
<1>4. n \in 0 .. Len(Ladder)
  BY <1>1, <1>3
<1>5. Count429(k) = [day |-> Today, count |-> [a EXCEPT ![k] = n]]
  BY DEF Count429, a
<1> HIDE DEF n
<1>6. Count429(k) \in Rate429Rec
  BY <1>1, <1>3, <1>4, <1>5 DEF Rate429Rec
<1>7. NextMidnight(clock) \in Nat /\ clock <= NextMidnight(clock)
  BY <1>1, DayType, DayOrder
<1>8. NextMidnight(clock) - clock \in Nat
  BY <1>1, <1>7
<1>9. a[k] < Len(Ladder) => Ladder[a[k] + 1] \in Nat
  BY <1>1, <1>3
<1>10. NextCooldown(k) \in Nat
  BY <1>8, <1>9 DEF NextCooldown, a
<1>11. QED
  BY <1>6, <1>10

LEMMA AihubmixAnswerStep ==
  ASSUME GatewayInv, NEW c \in Requests, NEW code \in AihubmixCodes,
         AihubmixAnswer(c, code), UNCHANGED <<provider, used, slot>>
  PROVE  GatewayInv'
<1>1. Doing(c, "send")
  BY DEF AihubmixAnswer
<1>2. PICK k \in Keys : ask[c].key = k
  BY <1>1, DoneFacts, Holding
<1>3. /\ mem \in [Keys -> KeyRec] /\ mem[k] \in KeyRec
      /\ req \in [Requests -> ReqRec] /\ req[c] \in ReqRec /\ req[c].pc = "work"
      /\ rate429 \in Rate429Rec
  BY <1>1, StateTypes DEF Doing, GatewayInv, GatewayTypeOK
<1> DEFINE viaProxy == code = "providerOnce" /\ AfterProxy /\ ~req[c].proxied
           backsOff == code = "providerOnce" /\ ~viaProxy /\ req[c].backoffs < MaxBackoffs
           s == AihubmixSteps(code, req[c].model)
           d == IF code = "keyRate" THEN NextCooldown(k) ELSE 0
           then == IF \/ code \in {"200", "unsendable", "return"}
                      \/ (code = "providerOnce" /\ ~viaProxy /\ ~backsOff)
                   THEN "answer" ELSE "retry"
           proxied == req[c].proxied \/ viaProxy
           backoffs == IF backsOff THEN req[c].backoffs + 1 ELSE req[c].backoffs
           f == IF AihubmixExhausts(code) THEN "exhausted"
                ELSE IF AihubmixUnserved(code) THEN "unserved" ELSE "charged"
<1>4. code \in {"network", "200", "unsendable", "quota", "invalidKey", "accountLimit",
                "keyRate", "providerOnce", "keyModel", "transient", "return"}
  BY AihubmixAssumption
<1>5. req' = [req EXCEPT ![c].todo = s, ![c].wait = d, ![c].then = then,
                         ![c].proxied = proxied, ![c].backoffs = backoffs]
  BY <1>2, <1>3 DEF AihubmixAnswer
<1>6. req[c].model \in Models \cup {NoModel}
  BY <1>3 DEF ReqRec
<1>7. /\ Fresh(s)
      /\ Range(s) \cap {"reserve", "send", "unreserve"} = {}
      /\ "rollback" \in Range(s) <=> AihubmixUnserved(code)
      /\ "exhaust" \in Range(s) => AihubmixExhausts(code)
      /\ "block" \in Range(s) => req[c].model \in Models
  BY <1>6, AihubmixLists
<1>8. f = "unserved" <=> AihubmixUnserved(code)
  BY DEF AihubmixExhausts, AihubmixUnserved
<1>9. AihubmixExhausts(code) => f = "exhausted"
  OBVIOUS
<1>10. f \in {"charged", "unserved", "exhausted"}
  OBVIOUS
<1>11. fate' = IF f = "charged" THEN fate ELSE Fate(c, f)
  <2>1. fate' = IF code \in {"quota", "accountLimit"} THEN Fate(c, "exhausted")
                ELSE IF code \in {"200", "unsendable", "invalidKey", "keyModel"} THEN fate
                ELSE Fate(c, "unserved")
    BY DEF AihubmixAnswer
  <2>2. QED
    BY <1>4, <2>1 DEF AihubmixExhausts, AihubmixUnserved
<1>12. then \in {"retry", "answer"}
  OBVIOUS
<1>13. proxied \in BOOLEAN
  BY <1>3 DEF ReqRec
<1>14. backoffs \in Nat
  BY <1>3 DEF ReqRec
<1>15. d \in Nat
  BY Count429Type
<1> HIDE DEF s, f, then, proxied, backoffs, d
<1> DEFINE q == [req[c] EXCEPT !.todo = s, !.wait = d, !.then = then,
                               !.proxied = proxied, !.backoffs = backoffs]
<1>16. /\ q \in ReqRec /\ q.todo = s
       /\ q.pc = "work" /\ q.model = req[c].model /\ q.tried = req[c].tried /\ q.attempt = req[c].attempt
  BY <1>3, <1>7, <1>12, <1>13, <1>14, <1>15 DEF ReqRec, Fresh
<1>17. req' = [req EXCEPT ![c] = q]
  BY <1>5
<1> HIDE DEF q
<1>18. rate429' \in Rate429Rec
  BY <1>2, <1>3, Count429Type DEF AihubmixAnswer
<1>19. UNCHANGED <<clock, ask, row, stale, crossed>> /\ mem' = [mem EXCEPT ![k] = mem[k]]
  BY <1>3 DEF AihubmixAnswer
<1>20. QED
  BY <1>1, <1>2, <1>3, <1>7, <1>8, <1>9, <1>10, <1>11, <1>16, <1>17, <1>18, <1>19, AnswerStep

\* And what Google's does.
LEMMA GoogleAnswerStep ==
  ASSUME GatewayInv, provider = "google", NEW c \in Requests, NEW code \in GoogleCodes,
         GoogleAnswer(c, code), UNCHANGED <<provider, rate429>>
  PROVE  GatewayInv'
<1>1. Doing(c, "send")
  BY DEF GoogleAnswer
<1>2. PICK k \in Keys : ask[c].key = k
  BY <1>1, DoneFacts, Holding
<1>3. /\ mem \in [Keys -> KeyRec] /\ mem[k] \in KeyRec
      /\ req \in [Requests -> ReqRec] /\ req[c] \in ReqRec /\ req[c].pc = "work"
      /\ rate429 \in Rate429Rec /\ req[c].model \in Models
  BY <1>1, StateTypes DEF Doing, GatewayInv, GatewayTypeOK, ControlOK
<1> DEFINE s == GoogleSteps(code)
           d == IF code = "429" THEN FiveMinutes ELSE 0
           then == IF code \in {"200", "400"} THEN "answer" ELSE "retry"
           f == IF code = "200" THEN "charged" ELSE "unserved"
<1>4. req' = [req EXCEPT ![c].todo = s, ![c].wait = d, ![c].then = then]
  BY DEF GoogleAnswer
<1>5. /\ Fresh(s)
      /\ Range(s) \cap {"reserve", "send", "exhaust"} = {}
      /\ "rollback" \in Range(s) <=> code # "200"
      /\ "unreserve" \in Range(s) => code # "200"
  BY GoogleLists
<1>6. /\ f \in {"charged", "unserved", "exhausted"}
      /\ f = "unserved" <=> code # "200"
      /\ fate' = IF f = "charged" THEN fate ELSE Fate(c, f)
  BY DEF GoogleAnswer
<1>7. d \in Nat /\ then \in {"retry", "answer"}
  BY GoogleAssumption
<1> HIDE DEF s, f, then, d
<1> DEFINE q == [req[c] EXCEPT !.todo = s, !.wait = d, !.then = then]
<1>8. /\ q \in ReqRec /\ q.todo = s
      /\ q.pc = "work" /\ q.model = req[c].model /\ q.tried = req[c].tried /\ q.attempt = req[c].attempt
  BY <1>3, <1>5, <1>7 DEF ReqRec, Fresh
<1>9. req' = [req EXCEPT ![c] = q]
  BY <1>4
<1> HIDE DEF q
<1>10. UNCHANGED <<clock, ask, row, stale, crossed, used, slot>> /\ mem' = [mem EXCEPT ![k] = mem[k]]
  BY <1>3 DEF GoogleAnswer
<1>11. QED
  BY <1>1, <1>2, <1>3, <1>5, <1>6, <1>8, <1>9, <1>10, AnswerStep

(***************************************************************************)
(* Google's places.                                                        *)
(***************************************************************************)

\* One count of the table changes.
LEMMA UsedUpdate ==
  ASSUME used \in [Keys -> [Models -> [Days -> Nat]]],
         NEW k \in Keys, NEW m \in Models, NEW t \in Days, NEW n \in Nat,
         used' = [used EXCEPT ![k][m][t] = n]
  PROVE  /\ used' \in [Keys -> [Models -> [Days -> Nat]]]
         /\ used'[k][m][t] = n
         /\ \A j \in Keys, l \in Models, d \in Days :
              j # k \/ l # m \/ d # t => used'[j][l][d] = used[j][l][d]
<1> DEFINE u == [used[k][m] EXCEPT ![t] = n]
           v == [used[k] EXCEPT ![m] = u]
<1>1. u \in [Days -> Nat] /\ u[t] = n /\ \A d \in Days : d # t => u[d] = used[k][m][d]
  OBVIOUS
<1>2. used' = [used EXCEPT ![k] = v]
  OBVIOUS
<1> HIDE DEF u
<1>3. v \in [Models -> [Days -> Nat]] /\ v[m] = u /\ \A l \in Models : l # m => v[l] = used[k][l]
  BY <1>1
<1> HIDE DEF v
<1>4. used' \in [Keys -> [Models -> [Days -> Nat]]] /\ used'[k] = v
      /\ \A j \in Keys : j # k => used'[j] = used[j]
  BY <1>2, <1>3
<1>5. QED
  BY <1>1, <1>3, <1>4

\* A step of c on the table's count of the day for its key and model, which
\* leaves n.
LEMMA PlacesStep ==
  ASSUME GatewayInv, NEW c \in Requests, NEW k \in Keys, NEW m \in Models, req[c].model = m,
         NEW t \in Days, t = Today,
         \A d \in Requests : req'[d].model = req[d].model,
         NEW z \in SlotRec, slot' = [slot EXCEPT ![c][k] = z],
         NEW n \in Nat, used' = [used EXCEPT ![k][m][t] = n], n <= ModelDaily,
         slot[c][k].off = Never, z.off \in {Never, t},
         z.on = slot[c][k].on \/ z = [on |-> t, off |-> Never],
         Cardinality(Places(k, m, t)') <= n + Cardinality(Misbooked(k, m, t)')
  PROVE  PlacesCounted' /\ used' \in [Keys -> [Models -> [Days -> Nat]]]
         /\ slot' \in [Requests -> [Keys -> SlotRec]]
<1>1. /\ used \in [Keys -> [Models -> [Days -> Nat]]] /\ t = Today
      /\ slot \in [Requests -> [Keys -> SlotRec]]
  BY StateTypes
<1>2. /\ used' \in [Keys -> [Models -> [Days -> Nat]]]
      /\ used'[k][m][t] = n
      /\ \A j \in Keys, l \in Models, d \in Days :
           j # k \/ l # m \/ d # t => used'[j][l][d] = used[j][l][d]
  BY <1>1, UsedUpdate
<1>3. /\ slot' \in [Requests -> [Keys -> SlotRec]] /\ slot'[c][k] = z
      /\ \A e \in Requests, j \in Keys : e # c \/ j # k => slot'[e][j] = slot[e][j]
  BY <1>1
<1>4. ASSUME NEW j \in Keys, NEW l \in Models, NEW d \in Days
      PROVE  /\ used'[j][l][d] <= ModelDaily
             /\ (Cardinality(Places(j, l, d)) <= used[j][l][d] + Cardinality(Misbooked(j, l, d)))'
  <2>1. CASE j = k /\ l = m /\ d = t
    BY <1>2, <2>1
  <2>2. CASE j # k \/ l # m \/ d # t
    <3>1. used'[j][l][d] = used[j][l][d] /\ used[j][l][d] <= ModelDaily
      BY <1>2, <2>2 DEF GatewayInv, PlacesCounted
    <3>2. Cardinality(Places(j, l, d)) <= used[j][l][d] + Cardinality(Misbooked(j, l, d))
      BY DEF GatewayInv, PlacesCounted
    <3>3. d # Never
      <4>1. UTCDay(MaxTime) \in Nat
        BY GatewayAssumption, DayType
      <4>2. QED
        BY <4>1 DEF Days, Never
    <3>4. Places(j, l, d)' \subseteq Places(j, l, d)
      <4> SUFFICES ASSUME NEW e \in Places(j, l, d)' PROVE e \in Places(j, l, d)
        OBVIOUS
      <4>1. e \in Requests /\ req'[e].model = l /\ slot'[e][j] = [on |-> d, off |-> Never]
        BY DEF Places
      <4>2. CASE e # c \/ j # k
        BY <1>3, <4>1, <4>2 DEF Places
      <4>3. CASE e = c /\ j = k
        <5>1. l = m /\ z = [on |-> d, off |-> Never] /\ d # t
          BY <1>3, <2>2, <4>1, <4>3
        <5>2. slot[c][k].on = d /\ slot[c][k] \in SlotRec
          BY <1>1, <5>1
        <5>3. slot[c][k] = [on |-> d, off |-> Never]
          BY <5>2 DEF SlotRec
        <5>4. QED
          BY <4>3, <5>1, <5>3 DEF Places
      <4>4. QED
        BY <4>2, <4>3
    <3>5. Misbooked(j, l, d)' = Misbooked(j, l, d)
      <4>1. ASSUME NEW e \in Requests
            PROVE  e \in Misbooked(j, l, d)' <=> e \in Misbooked(j, l, d)
        <5>1. CASE e # c \/ j # k
          BY <1>3, <5>1 DEF Misbooked
        <5>2. CASE e = c /\ j = k
          <6>1. l # m \/ d # t
            BY <2>2, <5>2
          <6>2. req[c].model # l \/ (slot[c][k].off # d /\ z.off # d)
            BY <3>3, <6>1
          <6>3. QED
            BY <1>3, <5>2, <6>2 DEF Misbooked
        <5>3. QED
          BY <5>1, <5>2
      <4>2. QED
        BY <4>1 DEF Misbooked
    <3>6. IsFiniteSet(Places(j, l, d)) /\ IsFiniteSet(Misbooked(j, l, d))
      BY GatewayAssumption, FS_Subset DEF Places, Misbooked
    <3> DEFINE a == Cardinality(Places(j, l, d)')
               b == Cardinality(Places(j, l, d))
               e == Cardinality(Misbooked(j, l, d))
    <3>7. a <= b /\ a \in Nat /\ b \in Nat /\ e \in Nat
      BY <3>4, <3>6, FS_Subset, FS_CardinalityType
    <3>8. used[j][l][d] \in Nat
      BY <1>1
    <3> HIDE DEF a, b, e
    <3>9. a <= used[j][l][d] + e
      BY <3>2, <3>7, <3>8 DEF b, e
    <3>10. QED
      BY <3>1, <3>5, <3>9 DEF a, e
  <2>3. QED
    BY <2>1, <2>2
<1>5. QED
  BY <1>2, <1>3, <1>4 DEF PlacesCounted

\* A place is claimed.
LEMMA ReserveStep ==
  ASSUME GatewayInv, provider = "google", NEW c \in Requests, ReserveSlot(c),
         UNCHANGED <<provider, rate429>>
  PROVE  GatewayInv'
<1>1. Doing(c, "reserve")
  BY DEF ReserveSlot
<1>2. PICK k \in Keys : ask[c].key = k
  BY <1>1, DoneFacts, Holding
<1>3. /\ req \in [Requests -> ReqRec] /\ req[c] \in ReqRec /\ req[c].pc = "work"
      /\ mem \in [Keys -> KeyRec] /\ fate \in [Requests -> [Keys -> Fates]]
      /\ used \in [Keys -> [Models -> [Days -> Nat]]]
      /\ slot \in [Requests -> [Keys -> SlotRec]] /\ Today \in Days
  BY <1>1, StateTypes DEF Doing
<1>4. PICK m \in Models : req[c].model = m
  BY <1>3 DEF GatewayInv, ControlOK
<1>5. PICK t \in Days : t = Today
  BY <1>3
<1>6. Due(c) = {"reserve"} /\ RequestOK(c) /\ fate[c][k] = "charged"
  BY <1>1, <1>2, LastStep
<1>7. slot[c][k] = NoSlot
  BY <1>2, <1>6 DEF RequestOK
<1> DEFINE s == Sync \o <<"send">>
           n == used[k][m][t] + 1
           z == [on |-> t, off |-> Never]
           q == [req[c] EXCEPT !.todo = s]
<1>8. Fresh(s) /\ Range(s) = {"snap", "write", "send"}
  BY FreshSend
<1>9. /\ req' = [req EXCEPT ![c].todo = s] /\ slot' = [slot EXCEPT ![c][k] = z]
      /\ used' = [used EXCEPT ![k][m][t] = n] /\ used[k][m][t] < ModelDaily
      /\ UNCHANGED <<clock, mem, ask, row, history>>
  BY <1>2, <1>4, <1>5 DEF ReserveSlot, UseToday, UsedToday, PlaceLeft
<1> HIDE DEF s
<1>10. /\ q \in ReqRec /\ q.todo = s
       /\ q.pc = "work" /\ q.model = m /\ q.tried = req[c].tried /\ q.attempt = req[c].attempt
  BY <1>3, <1>4, <1>8 DEF ReqRec, Fresh
<1>11. req' = [req EXCEPT ![c] = q]
  BY <1>9
<1> HIDE DEF q
<1>12. /\ req' \in [Requests -> ReqRec] /\ req'[c] = q /\ \A d \in Requests \ {c} : req'[d] = req[d]
  BY <1>3, <1>10, <1>11
<1>13. n \in Nat /\ n <= ModelDaily /\ z \in SlotRec
  <2>1. used[k][m][t] \in Nat /\ ModelDaily \in Nat
    BY <1>3, GoogleAssumption
  <2>2. QED
    BY <1>9, <2>1 DEF SlotRec
<1>14. t # Never
  <2>1. UTCDay(MaxTime) \in Nat
    BY GatewayAssumption, DayType
  <2>2. QED
    BY <2>1 DEF Days, Never
<1> HIDE DEF n, z
<1>15. slot'[c][k] = z /\ \A d \in Requests, j \in Keys : d # c \/ j # k => slot'[d][j] = slot[d][j]
  BY <1>3, <1>9
<1>16. Works(c) /\ Elsewhere(c) /\ Due(c)' = Range(s)
  BY <1>2, <1>3, <1>4, <1>9, <1>10, <1>12, <1>15 DEF Works, Elsewhere, Due, history
<1>17. ~Doing(c, "write") /\ ~Doing(c, "write")'
  BY <1>1, <1>8, <1>10, <1>12 DEF Doing, Fresh
<1>18. Cardinality(Places(k, m, t)') <= n + Cardinality(Misbooked(k, m, t)')
  <2> DEFINE P == Places(k, m, t)
             P1 == Places(k, m, t)'
             M == Misbooked(k, m, t)
  <2>1. c \notin P /\ P1 = P \cup {c}
    <3>1. c \notin P
      BY <1>7, <1>14 DEF Places, NoSlot
    <3>2. ASSUME NEW d \in Requests PROVE d \in P1 <=> d \in P \cup {c}
      <4>1. CASE d = c
        BY <1>10, <1>12, <1>15, <4>1 DEF Places, z
      <4>2. CASE d # c
        BY <1>12, <1>15, <4>2 DEF Places
      <4>3. QED
        BY <4>1, <4>2
    <3>3. P \subseteq Requests /\ P1 \subseteq Requests
      BY DEF Places
    <3>4. QED
      BY <3>1, <3>2, <3>3
  <2>2. Misbooked(k, m, t)' = M
    <3>1. ASSUME NEW d \in Requests PROVE d \in Misbooked(k, m, t)' <=> d \in M
      <4>1. CASE d = c
        BY <1>7, <1>14, <1>15, <4>1 DEF Misbooked, z, NoSlot
      <4>2. CASE d # c
        BY <1>12, <1>15, <4>2 DEF Misbooked
      <4>3. QED
        BY <4>1, <4>2
    <3>2. QED
      BY <3>1 DEF Misbooked
  <2>3. Cardinality(P) <= used[k][m][t] + Cardinality(M) /\ used[k][m][t] \in Nat
    BY <1>3 DEF GatewayInv, PlacesCounted
  <2>4. IsFiniteSet(P) /\ IsFiniteSet(M)
    BY GatewayAssumption, FS_Subset DEF Places, Misbooked
  <2> HIDE DEF P, P1, M
  <2>5. Cardinality(P1) = Cardinality(P) + 1 /\ Cardinality(P) \in Nat /\ Cardinality(M) \in Nat
    BY <2>1, <2>4, FS_AddElement, FS_CardinalityType
  <2>6. Cardinality(P1) <= n + Cardinality(M)
    BY <2>3, <2>5 DEF n
  <2>7. QED
    BY <2>2, <2>6 DEF P1
<1>19. /\ PlacesCounted' /\ used' \in [Keys -> [Models -> [Days -> Nat]]]
       /\ slot' \in [Requests -> [Keys -> SlotRec]]
  <2>1. slot[c][k].off = Never /\ z.off = Never /\ z = [on |-> t, off |-> Never]
    BY <1>7 DEF NoSlot, z
  <2>2. \A d \in Requests : req'[d].model = req[d].model
    BY <1>4, <1>10, <1>12
  <2>3. QED
    BY <1>4, <1>5, <1>9, <1>13, <1>18, <2>1, <2>2, PlacesStep
<1>20. GatewayTypeOK'
  BY <1>9, <1>12, <1>19 DEF GatewayInv, GatewayTypeOK, history
<1>21. ControlOK'
  BY <1>16, WorksControl
<1>22. TodoOK'
  <2>1. fate'[c][k] = "charged" /\ slot'[c][k].off = Never
    BY <1>6, <1>9, <1>15 DEF z, history
  <2>2. ListOK(req'[c].todo)
    BY <1>8, <1>10, <1>12 DEF Fresh
  <2> DEFINE E == Due(c)'
  <2>3. E = {"snap", "write", "send"}
    BY <1>8, <1>16
  <2> HIDE DEF E
  <2>4. /\ E \cap {"rollback", "unreserve"} = {}
        /\ "exhaust" \notin E /\ "reserve" \notin E /\ "block" \notin E
    BY <2>3
  <2>5. ask'[c].key = k
    BY <1>2, <1>9
  <2>6. RequestOK(c)'
    BY <1>17, <2>1, <2>2, <2>4, <2>5 DEF RequestOK, E
  <2>7. QED
    BY <1>16, <2>6, WorksTodo
<1>23. DaysOK'
  BY <1>9 DEF GatewayInv, DaysOK, Today
<1>24. CounterExact'
  <2>1. Counted(c, k) /\ Counted(c, k)'
    BY <1>6, <1>9 DEF Counted, history
  <2>2. QED
    BY <1>2, <1>9, <1>16, <2>1, WorksCount DEF history
<1>25. SavedOK'
  BY <1>2, <1>8, <1>9, <1>16, <1>17, WorksSaved DEF history
<1>26. QED
  BY <1>19, <1>20, <1>21, <1>22, <1>23, <1>24, <1>25 DEF GatewayInv

\* The table refuses, or fails: the charge leaks.
LEMMA GiveUpStep ==
  ASSUME GatewayInv, NEW c \in Requests, NEW then \in {"retry", "answer"}, GiveUpSlot(c, then),
         UNCHANGED <<provider, rate429>>
  PROVE  GatewayInv'
<1>1. Doing(c, "reserve")
  BY DEF GiveUpSlot
<1>2. PICK k \in Keys : ask[c].key = k
  BY <1>1, DoneFacts, Holding
<1>3. /\ req \in [Requests -> ReqRec] /\ req[c] \in ReqRec /\ req[c].pc = "work"
      /\ mem \in [Keys -> KeyRec] /\ fate \in [Requests -> [Keys -> Fates]]
      /\ stale \subseteq Requests /\ crossed \subseteq Keys /\ Today' = Today
  BY <1>1, StateTypes DEF Doing, GiveUpSlot, Today
<1>4. Due(c) = {"reserve"} /\ fate[c][k] = "charged"
  BY <1>1, <1>2, LastStep
<1>5. /\ req' = [req EXCEPT ![c].todo = <<>>, ![c].then = then]
      /\ fate' = [fate EXCEPT ![c][k] = "leaked"]
      /\ stale' = stale \cup Writing(k) /\ crossed' = crossed \cup {k}
      /\ UNCHANGED <<clock, mem, ask, row, used, slot>>
  BY <1>2 DEF GiveUpSlot, Fate
<1> DEFINE q == [req[c] EXCEPT !.todo = <<>>, !.then = then]
<1>6. /\ q \in ReqRec /\ q.todo = <<>> /\ q.model = req[c].model
      /\ q.pc = "work" /\ q.tried = req[c].tried /\ q.attempt = req[c].attempt
  <2>1. PICK e \in Seq(StepNames) : e = <<>>
    BY FreshEmpty DEF Fresh
  <2>2. q = [req[c] EXCEPT !.todo = e, !.then = then]
    BY <2>1
  <2> HIDE DEF q
  <2>3. /\ q \in ReqRec /\ q.todo = e /\ q.model = req[c].model
        /\ q.pc = "work" /\ q.tried = req[c].tried /\ q.attempt = req[c].attempt
    BY <1>3, <2>2 DEF ReqRec
  <2>4. QED
    BY <2>1, <2>3
<1>7. req' = [req EXCEPT ![c] = q]
  BY <1>5
<1> HIDE DEF q
<1>8. /\ req' \in [Requests -> ReqRec] /\ req'[c] = q /\ \A d \in Requests \ {c} : req'[d] = req[d]
  BY <1>3, <1>6, <1>7
<1>9. /\ fate' \in [Requests -> [Keys -> Fates]] /\ fate'[c][k] = "leaked"
      /\ \A d \in Requests, j \in Keys : d # c \/ j # k => fate'[d][j] = fate[d][j]
  BY <1>3, <1>5 DEF Fates
<1>10. Works(c) /\ Elsewhere(c) /\ Due(c)' = {}
  BY <1>2, <1>3, <1>5, <1>6, <1>8, <1>9, FreshEmpty DEF Works, Elsewhere, Due
<1>11. ~Doing(c, "write") /\ ~Doing(c, "write")'
  BY <1>1, <1>6, <1>8 DEF Doing
<1>12. GatewayTypeOK'
  <2>1. stale' \subseteq Requests /\ crossed' \subseteq Keys
    BY <1>3, <1>5 DEF Writing
  <2>2. QED
    BY <1>5, <1>8, <1>9, <2>1 DEF GatewayInv, GatewayTypeOK
<1>13. ControlOK'
  BY <1>10, WorksControl
<1>14. TodoOK'
  <2>1. ListOK(req'[c].todo)
    BY <1>6, <1>8, FreshEmpty DEF Fresh
  <2>2. RequestOK(c)'
    BY <1>10, <1>11, <2>1 DEF RequestOK
  <2>3. QED
    BY <1>10, <2>2, WorksTodo
<1>15. DaysOK'
  BY <1>3, <1>5 DEF GatewayInv, DaysOK
<1>16. CounterExact'
  <2>1. Counted(c, k) /\ Counted(c, k)'
    BY <1>4, <1>9 DEF Counted
  <2>2. QED
    BY <1>2, <1>4, <1>5, <1>10, <2>1, WorksCount
<1>17. SavedOK'
  <2> SUFFICES ASSUME NEW j \in Keys, ~Pending(j)'
               PROVE  /\ \A d \in Requests :
                           (Writing(j) = {d} /\ d \notin stale
                              => Standing(req[d].snap) = Standing(ToDB(mem[j])))'
                      /\ (Writing(j) = {} /\ j \notin crossed
                            => Standing(row[j]) = Standing(ToDB(mem[j])))'
    BY DEF SavedOK
  <2>1. \A d \in Requests \ {c} : Due(d)' = Due(d) /\ (Doing(d, "write")' <=> Doing(d, "write"))
    BY <1>8 DEF Due, Doing
  <2>2. \A i \in Keys : Writing(i)' = Writing(i)
    BY <1>5, <1>11, <2>1 DEF Writing
  <2>3. CASE j = k
    BY <1>5, <2>2, <2>3
  <2>4. CASE j # k
    <3>1. ~Pending(j)
      BY <1>2, <1>5, <2>1, <2>4 DEF Pending
    <3>2. /\ \A d \in Requests :
               Writing(j) = {d} /\ d \notin stale => Standing(req[d].snap) = Standing(ToDB(mem[j]))
          /\ Writing(j) = {} /\ j \notin crossed => Standing(row[j]) = Standing(ToDB(mem[j]))
      BY <3>1 DEF GatewayInv, SavedOK
    <3>3. Standing(row[j])' = Standing(row[j]) /\ Standing(ToDB(mem[j]))' = Standing(ToDB(mem[j]))
      BY <1>3, <1>5 DEF Standing
    <3>4. ASSUME NEW d \in Requests, Writing(j) = {d}
          PROVE  Standing(req[d].snap)' = Standing(req[d].snap)
      <4>1. d # c
        BY <1>11, <3>4 DEF Writing
      <4>2. req'[d].snap = req[d].snap
        BY <1>8, <4>1
      <4>3. QED
        BY <1>3, <4>2 DEF Standing
    <3>5. QED
      BY <1>5, <2>2, <2>4, <3>2, <3>3, <3>4
  <2>5. QED
    BY <2>3, <2>4
<1>18. PlacesCounted'
  BY <1>5, <1>10, PlacesSame DEF Works
<1>19. QED
  BY <1>12, <1>13, <1>14, <1>15, <1>16, <1>17, <1>18 DEF GatewayInv

\* The refund of a place was due, and is no longer.
LEMMA UnreserveFacts ==
  ASSUME GatewayInv, NEW c \in Requests, NEW k \in Keys, ask[c].key = k, Doing(c, "unreserve"),
         req' = Done(c), UNCHANGED <<clock, ask, provider, row, mem, stale, crossed>>, Elsewhere(c)
  PROVE  /\ Works(c) /\ req' \in [Requests -> ReqRec]
         /\ fate[c][k] = "unserved" /\ slot[c][k].off = Never /\ ~Counted(c, k)
         /\ Due(c)' \cap {"reserve", "send", "rollback", "unreserve", "exhaust"} = {}
         /\ RequestOK(c)'
         /\ SavedOK'
         /\ \A d \in Requests : req'[d].model = req[d].model
<1>1. /\ Works(c) /\ "unreserve" \in Due(c) /\ req[c].pc = "work"
      /\ Range(req'[c].todo) \subseteq Due(c)
      /\ req'[c].todo # <<>> => Head(req'[c].todo) # "write"
      /\ Range(req'[c].todo) \cap {"rollback", "unreserve"} = {}
  BY DoneFacts DEF Works
<1>2. fate[c][k] = "unserved" /\ slot[c][k].off = Never /\ RequestOK(c)
  BY <1>1 DEF GatewayInv, TodoOK, RequestOK
<1>3. Due(c) \cap {"reserve", "send", "exhaust"} = {}
  <2> DEFINE D == Due(c)
             f == fate[c][k]
  <2>1. /\ D \cap {"reserve", "send"} # {} => f = "charged"
        /\ "exhaust" \in D => f = "exhausted"
        /\ f = "unserved"
    BY <1>2 DEF RequestOK
  <2> HIDE DEF D, f
  <2>2. D \cap {"reserve", "send", "exhaust"} = {}
    BY <2>1
  <2>3. QED
    BY <2>2 DEF D
<1>4. Due(c)' \cap {"reserve", "send", "rollback", "unreserve", "exhaust"} = {}
  BY <1>1, <1>3 DEF Due
<1>5. req'[c].todo = Tail(req[c].todo) /\ req'[c].model = req[c].model
  BY <1>1, DoneTodo DEF Works
<1>6. Due(c) \subseteq {"unreserve"} \cup Due(c)'
  BY <1>1, <1>5, Holding, RangeSplit DEF Doing, Due
<1>7. ~Counted(c, k)
  <2>1. "rollback" \notin Due(c)
    BY <1>4, <1>6
  <2>2. QED
    BY <1>2, <2>1 DEF Counted, Refunding, Due
<1>8. RequestOK(c)'
  BY <1>4, <1>5, DoneRequest
<1>9. ~Doing(c, "write") /\ ~Doing(c, "write")'
  BY <1>1 DEF Doing
<1>10. SavedOK'
  <2>1. Standing(ToDB(mem[k]))' = Standing(ToDB(mem[k]))
    BY DEF Standing, Today
  <2>2. \A j \in Keys \ {k} : mem'[j] = mem[j]
    OBVIOUS
  <2>3. Due(c)' \cap {"snap", "reserve"} = {} => Due(c) \cap {"snap", "reserve"} = {}
    BY <1>6
  <2>4. QED
    BY <1>1, <1>9, <2>1, <2>2, <2>3, WorksSaved
<1>11. req' \in [Requests -> ReqRec] /\ \A d \in Requests : req'[d].model = req[d].model
  BY <1>1 DEF Works
<1>12. QED
  BY <1>1, <1>2, <1>4, <1>7, <1>8, <1>10, <1>11

LEMMA UnreserveFailsStep ==
  ASSUME GatewayInv, NEW c \in Requests, UnreserveFails(c), UNCHANGED <<provider, rate429>>
  PROVE  GatewayInv'
<1>1. Doing(c, "unreserve")
  BY DEF UnreserveFails
<1>2. PICK k \in Keys : ask[c].key = k
  BY <1>1, DoneFacts, Holding
<1>3. /\ req' = Done(c) /\ fate' = [fate EXCEPT ![c][k] = "kept"]
      /\ UNCHANGED <<clock, mem, ask, row, stale, crossed, used, slot>>
  BY <1>2 DEF UnreserveFails, Fate
<1>4. /\ fate' \in [Requests -> [Keys -> Fates]] /\ fate'[c][k] = "kept"
      /\ \A d \in Requests, j \in Keys : d # c \/ j # k => fate'[d][j] = fate[d][j]
  BY <1>3, StateTypes DEF Fates
<1>5. Elsewhere(c)
  BY <1>2, <1>3, <1>4 DEF Elsewhere
<1>6. /\ Works(c) /\ req' \in [Requests -> ReqRec]
      /\ fate[c][k] = "unserved" /\ ~Counted(c, k)
      /\ "rollback" \notin Due(c)'
      /\ RequestOK(c)'
      /\ SavedOK'
      /\ \A d \in Requests : req'[d].model = req[d].model
  <2>1. Due(c)' \cap {"reserve", "send", "rollback", "unreserve", "exhaust"} = {}
    BY <1>1, <1>2, <1>3, <1>5, UnreserveFacts
  <2>2. QED
    BY <1>1, <1>2, <1>3, <1>5, <2>1, UnreserveFacts
<1>7. GatewayTypeOK'
  BY <1>3, <1>4, <1>6 DEF GatewayInv, GatewayTypeOK
<1>8. ControlOK'
  BY <1>5, <1>6, WorksControl
<1>9. TodoOK'
  BY <1>5, <1>6, WorksTodo
<1>10. DaysOK'
  BY <1>3 DEF GatewayInv, DaysOK, Today
<1>11. CounterExact'
  <2>1. ~Counted(c, k)'
    BY <1>4, <1>6 DEF Counted, Refunding, Due
  <2>2. QED
    BY <1>2, <1>3, <1>5, <1>6, <2>1, WorksCount
<1>12. PlacesCounted'
  BY <1>3, <1>6, PlacesSame
<1>13. QED
  BY <1>6, <1>7, <1>8, <1>9, <1>10, <1>11, <1>12 DEF GatewayInv

\* A place is given back, on the day of the refund.
LEMMA UnreserveStep ==
  ASSUME GatewayInv, provider = "google", NEW c \in Requests, Unreserve(c),
         UNCHANGED <<provider, rate429>>
  PROVE  GatewayInv'
<1>1. Doing(c, "unreserve")
  BY DEF Unreserve
<1>2. PICK k \in Keys : ask[c].key = k
  BY <1>1, DoneFacts, Holding
<1>3. /\ req[c].pc = "work" /\ Today \in Days
      /\ used \in [Keys -> [Models -> [Days -> Nat]]]
      /\ slot \in [Requests -> [Keys -> SlotRec]] /\ slot[c][k] \in SlotRec
  BY <1>1, StateTypes DEF Doing
<1>4. PICK m \in Models : req[c].model = m
  BY <1>3 DEF GatewayInv, ControlOK
<1>5. PICK t \in Days : t = Today
  BY <1>3
<1> DEFINE u == used[k][m][t]
           n == IF u > 0 THEN u - 1 ELSE 0
           o == slot[c][k].on
           z == [on |-> o, off |-> t]
<1>6. u \in Nat /\ n \in Nat /\ n <= u /\ u <= n + 1 /\ u <= ModelDaily /\ ModelDaily \in Nat
  <2>1. u \in Nat /\ u <= ModelDaily /\ ModelDaily \in Nat
    BY <1>3, GoogleAssumption DEF GatewayInv, PlacesCounted
  <2> HIDE DEF u
  <2>2. QED
    BY <2>1
<1>7. z \in SlotRec /\ [slot[c][k] EXCEPT !.off = t] = z
  BY <1>3 DEF SlotRec
<1>8. /\ req' = Done(c) /\ slot' = [slot EXCEPT ![c][k] = z]
      /\ used' = [used EXCEPT ![k][m][t] = n]
      /\ UNCHANGED <<clock, mem, ask, row, history>>
  <2>1. slot' = [slot EXCEPT ![c][k].off = t]
    BY <1>2, <1>5 DEF Unreserve
  <2>2. slot' = [slot EXCEPT ![c][k] = z]
    BY <1>7, <2>1
  <2>3. QED
    BY <1>2, <1>4, <1>5, <2>2 DEF Unreserve, UseToday, UsedToday
<1> HIDE DEF n, u, z
<1>9. slot'[c][k] = z /\ \A d \in Requests, j \in Keys : d # c \/ j # k => slot'[d][j] = slot[d][j]
  BY <1>3, <1>8
<1>10. Elsewhere(c)
  BY <1>2, <1>8, <1>9 DEF Elsewhere, history
<1>11. /\ Works(c) /\ req' \in [Requests -> ReqRec]
       /\ slot[c][k].off = Never /\ ~Counted(c, k) /\ fate[c][k] = "unserved"
       /\ "rollback" \notin Due(c)'
       /\ RequestOK(c)'
       /\ SavedOK'
       /\ \A d \in Requests : req'[d].model = req[d].model
  <2>1. Due(c)' \cap {"reserve", "send", "rollback", "unreserve", "exhaust"} = {}
    BY <1>1, <1>2, <1>8, <1>10, UnreserveFacts DEF history
  <2>2. QED
    BY <1>1, <1>2, <1>8, <1>10, <2>1, UnreserveFacts DEF history
<1>12. t # Never
  <2>1. UTCDay(MaxTime) \in Nat
    BY GatewayAssumption, DayType
  <2>2. QED
    BY <2>1 DEF Days, Never
<1>13. slot[c][k] = [on |-> o, off |-> Never]
  BY <1>3, <1>11 DEF SlotRec
<1>14. Cardinality(Places(k, m, t)') <= n + Cardinality(Misbooked(k, m, t)')
  <2> DEFINE P == Places(k, m, t)
             P1 == Places(k, m, t)'
             M == Misbooked(k, m, t)
             M1 == Misbooked(k, m, t)'
  <2>1. Cardinality(P) <= u + Cardinality(M)
    BY DEF GatewayInv, PlacesCounted, u
  <2>2. IsFiniteSet(P) /\ IsFiniteSet(M)
    BY GatewayAssumption, FS_Subset DEF Places, Misbooked
  <2>3. \A d \in Requests \ {c} : (d \in P1 <=> d \in P) /\ (d \in M1 <=> d \in M)
    BY <1>9, <1>11 DEF Places, Misbooked
  <2>4. P \subseteq Requests /\ P1 \subseteq Requests /\ M \subseteq Requests /\ M1 \subseteq Requests
    BY DEF Places, Misbooked
  <2>5. c \notin P1 /\ c \notin M /\ (c \in P <=> o = t) /\ (c \in M1 <=> o # t)
    <3>1. z.off = t /\ z.on = o /\ z # [on |-> t, off |-> Never]
      BY <1>12 DEF z
    <3>2. c \notin P1 /\ (c \in M1 <=> o # t)
      BY <1>4, <1>9, <1>11, <3>1 DEF Places, Misbooked
    <3>3. c \notin M
      BY <1>11, <1>12 DEF Misbooked
    <3>4. c \in P <=> o = t
      BY <1>4, <1>13 DEF Places
    <3>5. QED
      BY <3>2, <3>3, <3>4
  <2> HIDE DEF P, P1, M, M1, o
  <2>6. Cardinality(P) \in Nat /\ Cardinality(M) \in Nat
    BY <2>2, FS_CardinalityType
  <2>7. CASE o = t
    <3>1. c \in P /\ P1 = P \ {c} /\ M1 = M
      BY <2>3, <2>4, <2>5, <2>7
    <3>2. Cardinality(P1) = Cardinality(P) - 1
      BY <2>2, <3>1, FS_RemoveElement
    <3>3. Cardinality(P1) <= n + Cardinality(M)
      BY <1>6, <2>1, <2>6, <3>2
    <3>4. QED
      BY <3>1, <3>3 DEF P1, M1
  <2>8. CASE o # t
    <3>1. c \notin M /\ P1 = P /\ M1 = M \cup {c}
      BY <2>3, <2>4, <2>5, <2>8
    <3>2. Cardinality(M1) = Cardinality(M) + 1
      BY <2>2, <3>1, FS_AddElement
    <3>3. Cardinality(P) <= n + Cardinality(M1)
      BY <1>6, <2>1, <2>6, <3>2
    <3>4. QED
      BY <3>1, <3>3 DEF P1, M1
  <2>9. QED
    BY <2>7, <2>8
<1>15. /\ PlacesCounted' /\ used' \in [Keys -> [Models -> [Days -> Nat]]]
       /\ slot' \in [Requests -> [Keys -> SlotRec]]
  <2>1. n <= ModelDaily /\ z.off \in {Never, t} /\ z.on = slot[c][k].on
    BY <1>6 DEF z
  <2>2. QED
    BY <1>4, <1>5, <1>6, <1>7, <1>8, <1>11, <1>14, <2>1, PlacesStep
<1>16. GatewayTypeOK'
  BY <1>8, <1>11, <1>15 DEF GatewayInv, GatewayTypeOK, history
<1>17. ControlOK'
  BY <1>10, <1>11, WorksControl
<1>18. TodoOK'
  BY <1>10, <1>11, WorksTodo
<1>19. DaysOK'
  BY <1>8 DEF GatewayInv, DaysOK, Today
<1>20. CounterExact'
  <2>1. ~Counted(c, k)'
    BY <1>8, <1>11 DEF Counted, Refunding, Due, history
  <2>2. QED
    BY <1>2, <1>8, <1>10, <1>11, <2>1, WorksCount DEF history
<1>21. QED
  BY <1>11, <1>15, <1>16, <1>17, <1>18, <1>19, <1>20 DEF GatewayInv

(***************************************************************************)
(* The moves of a request that has nothing to do on a key.                 *)
(***************************************************************************)

\* The part of ControlOK that a move of c is about.
LEMMA MoveControl ==
  ASSUME GatewayInv, NEW c \in Requests, NEW a \in AskRec, NEW q \in ReqRec,
         ask' = [ask EXCEPT ![c] = a], req' = [req EXCEPT ![c] = q],
         req[c].todo = <<>>, q.todo = <<>>,
         q.tried = req[c].tried,
         q.model = req[c].model \/ req[c].tried = {},
         a.pc \in {"idle", "asking", "none"}, q.pc \in {"select", "done"},
         a.pc = "asking" => /\ q.pc = "select" /\ q.attempt < MaxKeyRetries
                            /\ a.excl = q.tried /\ a.now <= clock,
         a.pc = "none" => q.pc = "done",
         provider = "google" => q.model \in Models,
         UNCHANGED <<clock, mem, row, history, provider, rate429, used, slot>>
  PROVE  GatewayInv'
<1>1. /\ ask' \in [Requests -> AskRec] /\ ask'[c] = a
      /\ req' \in [Requests -> ReqRec] /\ req'[c] = q
      /\ \A d \in Requests \ {c} : ask'[d] = ask[d] /\ req'[d] = req[d]
  BY StateTypes
<1>2. ControlOK'
  BY <1>1 DEF GatewayInv, ControlOK, history
<1>3. QED
  BY <1>1, <1>2, MoveStep

LEMMA MovesStep ==
  ASSUME GatewayInv, NEW c \in Requests, UNCHANGED <<provider, rate429, used, slot>>,
         \/ \E m \in Models \cup {NoModel} : Start(c, m) /\ (provider = "google" => m \in Models)
         \/ AskKey(c)
         \/ NoKey(c)
         \/ RetriesExhausted(c)
         \/ Conclude(c)
  PROVE  GatewayInv'
<1>1. /\ ask \in [Requests -> AskRec] /\ req \in [Requests -> ReqRec]
      /\ ask[c] \in AskRec /\ req[c] \in ReqRec /\ clock \in Nat
  BY StateTypes
<1>2. /\ ask[c].pc \in {"idle", "asking", "held", "none"}
      /\ ask[c].pc = "asking" => req[c].pc = "select"
      /\ ask[c].pc = "held" <=> req[c].pc = "work"
      /\ ask[c].pc = "none" => req[c].pc = "done"
      /\ req[c].pc # "work" => req[c].todo = <<>>
      /\ req[c].pc = "new" => req[c].tried = {}
      /\ provider = "google" /\ req[c].pc # "new" => req[c].model \in Models
  BY DEF GatewayInv, ControlOK
<1> DEFINE ended == [req[c] EXCEPT !.pc = "done"]
<1>3. /\ ended \in ReqRec /\ ended.pc = "done" /\ ended.todo = req[c].todo
      /\ ended.tried = req[c].tried /\ ended.model = req[c].model
      /\ Answered(c) = [req EXCEPT ![c] = ended]
  BY <1>1 DEF ReqRec, Answered
<1> HIDE DEF ended
<1>4. ASSUME NEW m \in Models \cup {NoModel}, Start(c, m), provider = "google" => m \in Models
      PROVE  GatewayInv'
  <2> DEFINE q == [req[c] EXCEPT !.pc = "select", !.model = m]
  <2>1. /\ q \in ReqRec /\ q.pc = "select" /\ q.todo = req[c].todo
        /\ q.tried = req[c].tried /\ q.model = m
    BY <1>1 DEF ReqRec
  <2>2. req' = [req EXCEPT ![c] = q] /\ req[c].pc = "new"
    BY <1>4 DEF Start
  <2> HIDE DEF q
  <2>3. ask[c].pc = "idle" /\ req[c].tried = {} /\ req[c].todo = <<>>
    BY <1>2, <2>2
  <2>4. ask' = [ask EXCEPT ![c] = ask[c]] /\ UNCHANGED <<clock, mem, row, history>>
    BY <1>1, <1>4 DEF Start
  <2>5. QED
    BY <1>1, <1>4, <2>1, <2>2, <2>3, <2>4, MoveControl
<1>5. CASE AskKey(c)
  <2> DEFINE a == [pc |-> "asking", now |-> clock, model |-> req[c].model,
                   excl |-> req[c].tried, key |-> 0]
  <2>1. a \in AskRec /\ a.pc = "asking" /\ a.now = clock /\ a.excl = req[c].tried
    BY <1>1 DEF AskRec, ReqRec
  <2>2. ask' = [ask EXCEPT ![c] = a] /\ UNCHANGED <<clock, mem, row, history>>
    BY <1>5 DEF AskKey, Ask
  <2> HIDE DEF a
  <2>3. req[c].pc = "select" /\ req[c].attempt < MaxKeyRetries /\ req' = [req EXCEPT ![c] = req[c]]
    BY <1>1, <1>5 DEF AskKey
  <2>4. clock <= clock
    BY <1>1
  <2>5. QED
    BY <1>1, <1>2, <2>1, <2>2, <2>3, <2>4, MoveControl
<1>6. CASE NoKey(c)
  <2> DEFINE a == [ask[c] EXCEPT !.pc = "none"]
  <2>1. a \in AskRec /\ a.pc = "none"
    BY <1>1 DEF AskRec
  <2>2. /\ ask' = [ask EXCEPT ![c] = a] /\ ask[c].pc = "asking"
        /\ UNCHANGED <<clock, mem, row, history>> /\ req' = Answered(c)
    BY <1>6 DEF NoKey, Refuse
  <2> HIDE DEF a
  <2>3. QED
    BY <1>2, <1>3, <2>1, <2>2, MoveControl
<1>7. CASE RetriesExhausted(c)
  <2>1. /\ req[c].pc = "select" /\ ask[c].pc = "idle" /\ req' = Answered(c)
        /\ ask' = [ask EXCEPT ![c] = ask[c]] /\ UNCHANGED <<clock, mem, row, history>>
    BY <1>1, <1>7 DEF RetriesExhausted
  <2>2. QED
    BY <1>1, <1>2, <1>3, <2>1, MoveControl
<1>8. CASE Conclude(c)
  <2>1. NotAsking \in AskRec /\ NotAsking.pc = "idle"
    BY DEF NotAsking, AskRec
  <2>2. /\ req[c].pc = "work" /\ req[c].todo = <<>>
        /\ ask' = [ask EXCEPT ![c] = NotAsking] /\ UNCHANGED <<clock, mem, row, history>>
    BY <1>8 DEF Conclude, Leave
  <2> DEFINE q == [req[c] EXCEPT !.pc = "select"]
  <2>3. /\ q \in ReqRec /\ q.pc = "select" /\ q.todo = req[c].todo
        /\ q.tried = req[c].tried /\ q.model = req[c].model
    BY <1>1 DEF ReqRec
  <2>4. req' = Answered(c) \/ req' = [req EXCEPT ![c] = q]
    BY <1>8 DEF Conclude
  <2> HIDE DEF q
  <2>5. provider = "google" => req[c].model \in Models
    BY <1>2, <2>2
  <2>6. CASE req' = Answered(c)
    BY <1>2, <1>3, <2>1, <2>2, <2>5, <2>6, MoveControl
  <2>7. CASE req' = [req EXCEPT ![c] = q]
    BY <1>2, <2>1, <2>2, <2>3, <2>5, <2>7, MoveControl
  <2>8. QED
    BY <2>4, <2>6, <2>7
<1>9. QED
  BY <1>4, <1>5, <1>6, <1>7, <1>8

\* The clock, the reset worker and the searches.
LEMMA BackgroundStep ==
  ASSUME GatewayInv, Background, UNCHANGED <<provider, rate429, used, slot>>
  PROVE  GatewayInv'
<1>1. mem \in [Keys -> KeyRec] /\ Today \in Nat /\ ask \in [Requests -> AskRec]
  BY StateTypes
<1>2. CASE Tick
  BY <1>2, TickStep DEF Background
<1>3. ASSUME NEW k \in Keys, NEW r \in KeyRec, mem' = [mem EXCEPT ![k] = r],
             r.day = Today, r.usage = IF mem[k].day = Today THEN mem[k].usage ELSE 0,
             Standing(ToDB(r)) = Standing(ToDB(mem[k])), UNCHANGED <<clock, ask>>
      PROVE  GatewayInv'
  BY <1>3, LookStep DEF Background
<1>4. ASSUME NEW k \in Keys, ResetExpired(k)
      PROVE  GatewayInv'
  <2> DEFINE r == ResetDailyUsageIfNewDay(mem[k], Today)
  <2>1. mem' = [mem EXCEPT ![k] = r] /\ UNCHANGED <<clock, ask>>
    BY <1>4 DEF ResetExpired
  <2>2. NotAsking \in AskRec /\ mem[k] \in KeyRec
    BY <1>1 DEF NotAsking, AskRec
  <2>3. /\ r \in KeyRec /\ r.day = Today
        /\ r.usage = IF mem[k].day = Today THEN mem[k].usage ELSE 0
        /\ Standing(ToDB(r)) = Standing(ToDB(mem[k]))
    BY <1>1, <2>2, LookFacts
  <2> HIDE DEF r
  <2>4. QED
    BY <1>3, <2>1, <2>3
<1>5. ASSUME NEW k \in Keys, NEW c \in Requests, Look(c, k)
      PROVE  GatewayInv'
  <2>1. PICK r \in {Looked(mem[k], ask[c], Today), Refused(mem[k], ask[c], Today)} :
          mem' = [mem EXCEPT ![k] = r]
    BY <1>5 DEF Look
  <2>2. ask[c] \in AskRec /\ mem[k] \in KeyRec
    BY <1>1 DEF Requests
  <2>3. /\ r \in KeyRec /\ r.day = Today
        /\ r.usage = IF mem[k].day = Today THEN mem[k].usage ELSE 0
        /\ Standing(ToDB(r)) = Standing(ToDB(mem[k]))
    BY <1>1, <2>1, <2>2, LookFacts
  <2>4. UNCHANGED <<clock, ask>>
    BY <1>5 DEF Look
  <2>5. QED
    BY <1>3, <2>1, <2>3, <2>4
<1>6. QED
  BY <1>2, <1>4, <1>5 DEF Background

(***************************************************************************)
(* The invariant holds from the start and for ever.                        *)
(***************************************************************************)
LEMMA InitInv == GatewayInit => GatewayInv
<1> SUFFICES ASSUME GatewayInit PROVE GatewayInv
  OBVIOUS
<1>1. /\ clock = 0 /\ mem = [k \in Keys |-> NewKeyState(NewRow)] /\ row = [k \in Keys |-> NewRow]
      /\ ask = [c \in Requests |-> NotAsking] /\ req = [c \in Requests |-> NewRequest]
      /\ fate = [c \in Requests |-> [k \in Keys |-> "none"]] /\ stale = {} /\ crossed = {}
      /\ rate429 = [day |-> 0, count |-> [k \in Keys |-> 0]]
      /\ used = [k \in Keys |-> [m \in Models |-> [d \in Days |-> 0]]]
      /\ slot = [c \in Requests |-> [k \in Keys |-> NoSlot]]
      /\ provider \in Providers
  BY DEF GatewayInit, HandlerInit, AihubmixInit, GoogleInit
<1>2. Today = 0
  BY <1>1, DayOrder DEF Today
<1>3. /\ NewRow = [status |-> "unchecked", usage |-> 0, day |-> 0, maxLimit |-> DailyLimit,
                   remaining |-> 0, rpm |-> KeyRPM, cooldown |-> 0]
      /\ NewRow \in RowRec /\ NewRow.day = 0
  <2>1. NewRow = [status |-> "unchecked", usage |-> 0, day |-> 0, maxLimit |-> DailyLimit,
                  remaining |-> 0, rpm |-> KeyRPM, cooldown |-> 0]
    BY DEF NewRow, AddRow
  <2>2. QED
    BY <2>1, HandlerAssumption DEF RowRec, Status
<1> DEFINE n == NewKeyState(NewRow)
<1>4. n \in KeyRec /\ n.day = 0 /\ n.usage = 0 /\ ToDB(n) = NewRow
  <2>1. [m \in Models |-> {}] \in [Models -> Multiset] /\ {} \in Multiset
    BY FS_EmptySet DEF Multiset
  <2>2. n = [status |-> "unchecked", usage |-> 0, day |-> 0, maxLimit |-> DailyLimit,
             remaining |-> 0, rpm |-> KeyRPM, cooldown |-> 0, times |-> {},
             modelTimes |-> [m \in Models |-> {}], modelCooldown |-> [m \in Models |-> 0]]
    BY <1>3 DEF NewKeyState
  <2>3. QED
    BY <1>3, <2>1, <2>2, HandlerAssumption DEF KeyRec, Status, ToDB
<1> HIDE DEF n
<1>5. mem = [k \in Keys |-> n]
  BY <1>1 DEF n
<1>6. NewRequest \in ReqRec
  <2>1. PICK e \in Seq(StepNames) : e = <<>>
    BY FreshEmpty DEF Fresh
  <2>2. NewRequest = [pc |-> "new", model |-> NoModel, attempt |-> 0, tried |-> {},
                      proxied |-> FALSE, backoffs |-> 0, todo |-> e, wait |-> 0,
                      then |-> "retry", snap |-> NoRow]
    BY <2>1 DEF NewRequest
  <2>3. QED
    BY <2>2, HandlerAssumption DEF ReqRec
<1>7. NotAsking \in AskRec
  BY DEF NotAsking, AskRec
<1>8. \A c \in Requests : req[c].todo = <<>> /\ Due(c) = {} /\ ~Doing(c, "write")
  BY <1>1, FreshEmpty DEF Due, Doing, NewRequest
<1>9. UTCDay(MaxTime) \in Nat
  BY GatewayAssumption, DayType
<1>10. GatewayTypeOK
  <2>1. clock \in 0 .. MaxTime
    BY <1>1, GatewayAssumption
  <2>2. rate429 \in Rate429Rec
    <3>1. Len(Ladder) \in Nat
      BY AihubmixAssumption
    <3>2. QED
      BY <1>1, <3>1 DEF Rate429Rec
  <2>3. used \in [Keys -> [Models -> [Days -> Nat]]]
    BY <1>1
  <2>4. slot \in [Requests -> [Keys -> SlotRec]]
    BY <1>1 DEF SlotRec, NoSlot
  <2>5. fate \in [Requests -> [Keys -> Fates]] /\ stale \subseteq Requests /\ crossed \subseteq Keys
    BY <1>1 DEF Fates
  <2>6. mem \in [Keys -> KeyRec] /\ row \in [Keys -> RowRec]
    BY <1>1, <1>3, <1>4, <1>5
  <2>7. ask \in [Requests -> AskRec] /\ req \in [Requests -> ReqRec]
    BY <1>1, <1>6, <1>7
  <2>8. QED
    BY <2>1, <2>2, <2>3, <2>4, <2>5, <2>6, <2>7 DEF GatewayTypeOK
<1>11. ControlOK
  BY <1>1 DEF ControlOK, NotAsking, NewRequest
<1>12. TodoOK
  <2>1. ListOK(<<>>)
    BY FreshEmpty DEF Fresh
  <2>2. QED
    BY <1>8, <2>1 DEF TodoOK, RequestOK
<1>13. DaysOK
  BY <1>1, <1>2, <1>3, <1>4, <1>5 DEF DaysOK
<1>14. CounterExact
  <2>1. \A k \in Keys, c \in Requests : ~Counted(c, k)
    BY <1>1, <1>8 DEF Counted, Refunding, Due
  <2>2. \A k \in Keys : {c \in Requests : Counted(c, k)} = {}
    BY <2>1
  <2>3. QED
    BY <1>4, <1>5, <2>2, FS_EmptySet DEF CounterExact
<1>15. SavedOK
  <2>1. \A k \in Keys : Writing(k) = {} /\ row[k] = ToDB(mem[k])
    BY <1>1, <1>4, <1>5, <1>8 DEF Writing
  <2>2. QED
    BY <2>1 DEF SavedOK
<1>16. PlacesCounted
  <2> SUFFICES ASSUME NEW k \in Keys, NEW m \in Models, NEW d \in Days
               PROVE  /\ used[k][m][d] <= ModelDaily
                      /\ Cardinality(Places(k, m, d)) <= used[k][m][d] + Cardinality(Misbooked(k, m, d))
    BY DEF PlacesCounted
  <2>1. d # Never
    BY <1>9 DEF Days, Never
  <2>2. Places(k, m, d) = {} /\ Misbooked(k, m, d) = {}
    BY <1>1, <2>1 DEF Places, Misbooked, NoSlot
  <2>3. used[k][m][d] = 0 /\ ModelDaily \in Nat
    BY <1>1, GoogleAssumption
  <2>4. QED
    BY <2>2, <2>3, FS_EmptySet
<1>17. QED
  BY <1>1, <1>10, <1>11, <1>12, <1>13, <1>14, <1>15, <1>16 DEF GatewayInv

LEMMA NextInv == GatewayInv /\ [GatewayNext]_gatewayvars => GatewayInv'
<1> SUFFICES ASSUME GatewayInv, [GatewayNext]_gatewayvars PROVE GatewayInv'
  OBVIOUS
<1>1. ASSUME NEW c \in Requests, HandlerStep(c), UNCHANGED <<provider, rate429, used, slot>>
      PROVE  GatewayInv'
  BY <1>1, MovesStep, SettleStep, SnapStep, WriteStep DEF HandlerStep
<1>2. ASSUME NEW c \in Requests, NEW m \in Models \cup {NoModel}, Start(c, m),
             provider = "google" => m \in Models, UNCHANGED <<provider, rate429, used, slot>>
      PROVE  GatewayInv'
  BY <1>2, MovesStep
<1>3. ASSUME NEW c \in Requests, provider = "openrouter", OpenRouterHandle(c),
             UNCHANGED <<provider, rate429, used, slot>>
      PROVE  GatewayInv'
  <2>1. CASE Start(c, NoModel)
    BY <1>2, <1>3, <2>1
  <2>2. ASSUME NEW k \in Keys, GetKey(c, k, Sync \o <<"send">>) PROVE GatewayInv'
    BY <1>3, <2>2, GrantStep
  <2>3. ASSUME NEW code \in OpenRouterCodes, NEW quota \in BOOLEAN, Answer(c, code, quota)
        PROVE  GatewayInv'
    BY <1>3, <2>3, OpenRouterAnswerStep
  <2>4. CASE HandlerStep(c)
    BY <1>1, <1>3, <2>4
  <2>5. QED
    BY <1>3, <2>1, <2>2, <2>3, <2>4 DEF OpenRouterHandle
<1>4. ASSUME NEW c \in Requests, provider = "aihubmix", AihubmixHandle(c),
             UNCHANGED <<provider, used, slot>>
      PROVE  GatewayInv'
  <2>1. ASSUME NEW code \in AihubmixCodes, AihubmixAnswer(c, code) PROVE GatewayInv'
    BY <1>4, <2>1, AihubmixAnswerStep
  <2>2. ASSUME NEW m \in Models \cup {NoModel}, Start(c, m), UNCHANGED rate429 PROVE GatewayInv'
    BY <1>2, <1>4, <2>2
  <2>3. ASSUME NEW k \in Keys, GetKey(c, k, Sync \o <<"send">>), UNCHANGED rate429
        PROVE  GatewayInv'
    BY <1>4, <2>3, GrantStep
  <2>4. CASE BlockModel(c) /\ UNCHANGED rate429
    BY <1>4, <2>4, SettleStep
  <2>5. CASE HandlerStep(c) /\ UNCHANGED rate429
    BY <1>1, <1>4, <2>5
  <2>6. QED
    BY <1>4, <2>1, <2>2, <2>3, <2>4, <2>5 DEF AihubmixHandle
<1>5. ASSUME NEW c \in Requests, provider = "google", GoogleHandle(c),
             UNCHANGED <<provider, rate429>>
      PROVE  GatewayInv'
  <2>1. CASE ReserveSlot(c)
    BY <1>5, <2>1, ReserveStep
  <2>2. CASE SlotRefused(c) \/ ReserveFails(c)
    BY <1>5, <2>2, GiveUpStep DEF SlotRefused, ReserveFails
  <2>3. CASE Unreserve(c)
    BY <1>5, <2>3, UnreserveStep
  <2>4. CASE UnreserveFails(c)
    BY <1>5, <2>4, UnreserveFailsStep
  <2>5. ASSUME NEW code \in GoogleCodes, GoogleAnswer(c, code) PROVE GatewayInv'
    BY <1>5, <2>5, GoogleAnswerStep
  <2>6. ASSUME NEW m \in Models, Start(c, m), UNCHANGED <<used, slot>> PROVE GatewayInv'
    BY <1>2, <1>5, <2>6
  <2>7. ASSUME NEW k \in Keys, GetKey(c, k, <<"reserve">>), UNCHANGED <<used, slot>>
        PROVE  GatewayInv'
    BY <1>5, <2>7, GrantStep
  <2>8. CASE BlockForADay(c) /\ UNCHANGED <<used, slot>>
    BY <1>5, <2>8, SettleStep
  <2>9. CASE HandlerStep(c) /\ UNCHANGED <<used, slot>>
    BY <1>1, <1>5, <2>9
  <2>10. QED
    BY <1>5, <2>1, <2>2, <2>3, <2>4, <2>5, <2>6, <2>7, <2>8, <2>9 DEF GoogleHandle
<1>6. CASE Background /\ UNCHANGED <<provider, rate429, used, slot>>
  BY <1>6, BackgroundStep
<1>7. CASE UNCHANGED gatewayvars
  <2>1. UNCHANGED <<clock, mem, ask, provider, req, row, fate, stale, crossed, rate429, used, slot>>
    BY <1>7 DEF gatewayvars
  <2>2. GatewayTypeOK'
    BY <2>1 DEF GatewayInv, GatewayTypeOK
  <2>3. ControlOK' /\ DaysOK' /\ PlacesCounted'
    BY <2>1, PlacesSame DEF GatewayInv, ControlOK, DaysOK, Today
  <2>4. TodoOK'
    BY <2>1 DEF GatewayInv, TodoOK, RequestOK, Due, Doing, Today
  <2>5. CounterExact'
    <3>1. \A k \in Keys, d \in Requests : Counted(d, k)' <=> Counted(d, k)
      BY <2>1 DEF Counted, Refunding
    <3>2. QED
      BY <2>1, <3>1, CountSame
  <2>6. SavedOK'
    <3>1. \A k \in Keys : Writing(k)' = Writing(k) /\ (Pending(k)' <=> Pending(k))
      BY <2>1 DEF Writing, Pending, Due, Doing
    <3>2. \A k \in Keys : Standing(ToDB(mem[k]))' = Standing(ToDB(mem[k]))
      BY <2>1 DEF Standing, Today
    <3>3. QED
      BY <2>1, <3>1, <3>2, SavedSame
  <2>7. QED
    BY <2>1, <2>2, <2>3, <2>4, <2>5, <2>6 DEF GatewayInv
<1>8. ASSUME GatewayNext PROVE GatewayInv'
  <2>1. ASSUME NEW c \in Requests, Handle(c), UNCHANGED provider PROVE GatewayInv'
    BY <1>3, <1>4, <1>5, <2>1 DEF Handle
  <2>2. QED
    BY <1>6, <1>8, <2>1 DEF GatewayNext
<1>9. QED
  BY <1>7, <1>8

\* In every reachable state a request has the steps before it that its charges
\* call for, and the tables trail memory by exactly those steps.
THEOREM GatewayInvariant == GatewaySpec => []GatewayInv
  BY InitInv, NextInv, PTL DEF GatewaySpec

\* Every part of the state keeps to its type: what the handlers write to a key,
\* to its row, to model_usage and to the count of 429s.
THEOREM GatewayTyped == GatewaySpec => []GatewayTypeOK
<1>1. GatewayInv => GatewayTypeOK
  BY DEF GatewayInv
<1>2. QED
  BY <1>1, GatewayInvariant, PTL

\* However many requests share a key, and however their charges, refunds,
\* penalties and retries interleave, the key counts the requests it served:
\* RollbackUsage gives every charge back that is to be given back, and once.
THEOREM ChargesCounted == GatewaySpec => []CounterExact
<1>1. GatewayInv => CounterExact
  BY DEF GatewayInv
<1>2. QED
  BY <1>1, GatewayInvariant, PTL

\* Once nobody holds a key, its row has what memory has, but for a snapshot that
\* an older one overtook and for a charge that leaked: no handler of the three
\* forgets a SyncKeyToDB.
THEOREM RowsSaved == GatewaySpec => []RowUpToDate
<1>1. ASSUME GatewayInv PROVE RowUpToDate
  <2> SUFFICES ASSUME NEW k \in Keys, AtRest(k), k \notin crossed
               PROVE  Standing(row[k]) = Standing(ToDB(mem[k]))
    BY DEF RowUpToDate
  <2>1. \A c \in Requests : ask[c].key = k => req[c].pc # "work" /\ req[c].todo = <<>>
    BY <1>1 DEF AtRest, GatewayInv, ControlOK
  <2>2. ~Pending(k)
    BY <2>1, FreshEmpty DEF Pending, Due
  <2>3. Writing(k) = {}
    BY <2>1 DEF Writing, Doing
  <2>4. QED
    BY <1>1, <2>2, <2>3 DEF GatewayInv, SavedOK
<1>2. QED
  BY <1>1, GatewayInvariant, PTL

\* ReserveModelUsage and RollbackModelUsage keep a key of Google within its
\* requests a day for every model, but for the refunds booked on another day.
THEOREM QuotaOfModelsKept == GatewaySpec => []ModelQuotaKept
<1>1. ASSUME GatewayInv PROVE ModelQuotaKept
  <2> SUFFICES ASSUME NEW k \in Keys, NEW m \in Models, NEW d \in Days
               PROVE  Cardinality(Places(k, m, d)) <= ModelDaily + Cardinality(Misbooked(k, m, d))
    BY DEF ModelQuotaKept
  <2>1. /\ used[k][m][d] <= ModelDaily
        /\ Cardinality(Places(k, m, d)) <= used[k][m][d] + Cardinality(Misbooked(k, m, d))
    BY <1>1 DEF GatewayInv, PlacesCounted
  <2>2. used[k][m][d] \in Nat /\ ModelDaily \in Nat
    BY <1>1, StateTypes, GoogleAssumption
  <2>3. IsFiniteSet(Places(k, m, d)) /\ IsFiniteSet(Misbooked(k, m, d))
    BY GatewayAssumption, FS_Subset DEF Places, Misbooked
  <2> DEFINE p == Cardinality(Places(k, m, d))
             w == Cardinality(Misbooked(k, m, d))
  <2>4. p \in Nat /\ w \in Nat
    BY <2>3, FS_CardinalityType
  <2> HIDE DEF p, w
  <2>5. p <= used[k][m][d] + w
    BY <2>1 DEF p, w
  <2>6. p <= ModelDaily + w
    BY <2>1, <2>2, <2>4, <2>5
  <2>7. QED
    BY <2>6 DEF p, w
<1>2. QED
  BY <1>1, GatewayInvariant, PTL

(***************************************************************************)
(* Google: memory and model_usage.                                         *)
(***************************************************************************)

\* The table counts the attempt of c on k: it claimed its place, and has not
\* given it back.
Claimed(c, k) ==
  \/ fate[c][k] = "kept"
  \/ fate[c][k] = "charged" /\ ~(ask[c].key = k /\ "reserve" \in Due(c))
  \/ ask[c].key = k /\ "unreserve" \in Due(c)

\* The requests for m that the table counts for k.
Claimants(k, m) == {c \in Requests : req[c].model = m /\ Claimed(c, k)}

\* On the first day model_usage counts every request for a model that claimed a
\* place and kept it, and no other.
TableExact ==
  provider = "google" => \A k \in Keys :
    /\ \A c \in Requests : fate[c][k] # "exhausted"
    /\ Today = 0 => \A m \in Models : used[k][m][0] = Cardinality(Claimants(k, m))

LedgerInv == GatewayInv /\ TableExact

\* The sum of the sizes of the parts of a set is its size.
LEMMA SumOfParts ==
  ASSUME NEW S, IsFiniteSet(S), NEW M, NEW part \in [S -> M], NEW n,
         \A m \in M : n[m] = Cardinality({x \in S : part[x] = m})
  PROVE  Cardinality(UNION {{m} \X (1 .. n[m]) : m \in M}) = Cardinality(S)
<1> DEFINE Part(m) == {x \in S : part[x] = m}
           pairs == UNION {{m} \X (1 .. n[m]) : m \in M}
           number == [m \in M |-> CHOOSE f : f \in Bijection(1 .. n[m], Part(m))]
           h == [p \in pairs |-> number[p[1]][p[2]]]
<1>1. ASSUME NEW m \in M PROVE number[m] \in Bijection(1 .. n[m], Part(m))
  <2>1. IsFiniteSet(Part(m)) /\ n[m] = Cardinality(Part(m))
    BY FS_Subset
  <2>2. ExistsBijection(1 .. n[m], Part(m))
    BY <2>1, FS_CardinalityType
  <2>. QED BY <2>2 DEF ExistsBijection
<1> HIDE DEF number
<1>2. ASSUME NEW m \in M
      PROVE  /\ \A i \in 1 .. n[m] : number[m][i] \in S /\ part[number[m][i]] = m
             /\ \A i, j \in 1 .. n[m] : number[m][i] = number[m][j] => i = j
             /\ \A x \in S : part[x] = m => \E i \in 1 .. n[m] : number[m][i] = x
  <2> DEFINE f == number[m]
             I == 1 .. n[m]
             P == Part(m)
  <2>1. f \in Bijection(I, P)
    BY <1>1
  <2> HIDE DEF f, I, P
  <2>2. /\ f \in [I -> P]
        /\ \A a, b \in I : f[a] = f[b] => a = b
        /\ \A t \in P : \E i \in I : f[i] = t
    BY <2>1, Fun_BijectionProperties
  <2>. QED BY <2>2 DEF f, I, P
<1>3. \A p \in pairs : /\ p[1] \in M /\ p[2] \in 1 .. n[p[1]]
                       /\ p = <<p[1], p[2]>>
  OBVIOUS
<1>4. \A m \in M : \A i \in 1 .. n[m] : <<m, i>> \in pairs
  OBVIOUS
<1> HIDE DEF pairs
<1>5. h \in [pairs -> S]
  BY <1>2, <1>3
<1>6. ASSUME NEW p \in pairs, NEW q \in pairs, h[p] = h[q] PROVE p = q
  <2>1. p[1] = q[1]
    BY <1>2, <1>3, <1>6
  <2>2. p[2] = q[2]
    BY <1>2, <1>3, <1>6, <2>1
  <2>. QED BY <1>3, <2>1, <2>2
<1>7. ASSUME NEW x \in S PROVE \E p \in pairs : h[p] = x
  <2>1. PICK i \in 1 .. n[part[x]] : number[part[x]][i] = x
    BY <1>2
  <2>2. <<part[x], i>> \in pairs
    BY <1>4
  <2>. QED BY <2>1, <2>2
<1> HIDE DEF h
<1>8. h \in Bijection(pairs, S)
  BY <1>5, <1>6, <1>7, Fun_IsBij
<1>9. ExistsBijection(S, pairs)
  BY <1>8, Fun_BijInverse DEF ExistsBijection
<1>10. Cardinality(pairs) = Cardinality(S)
  BY <1>9, FS_Bijection
<1>. QED BY <1>10 DEF pairs

\* A step that changes neither the table nor who is counted in it.
LEMMA TableSame ==
  ASSUME GatewayInv, TableExact, provider' = provider, used' = used,
         Today' = 0 => Today = 0,
         provider = "google" => \A k \in Keys, c \in Requests :
           /\ fate'[c][k] = "exhausted" => fate[c][k] = "exhausted"
           /\ Claimed(c, k)' <=> Claimed(c, k)
           /\ req'[c].model = req[c].model \/ ~Claimed(c, k)
  PROVE  TableExact'
<1> SUFFICES ASSUME provider = "google", NEW k \in Keys
             PROVE  /\ \A c \in Requests : fate'[c][k] # "exhausted"
                    /\ Today' = 0 => \A m \in Models :
                         used'[k][m][0] = Cardinality(Claimants(k, m))'
  BY DEF TableExact
<1>1. \A m \in Models : Claimants(k, m)' = Claimants(k, m)
  BY DEF Claimants
<1>. QED BY <1>1 DEF TableExact

\* A step of c after which the table has n for its key and its model today.
LEMMA TableStep ==
  ASSUME GatewayInv, TableExact, provider = "google", clock' = clock, provider' = provider,
         NEW c \in Requests, NEW k \in Keys, NEW m \in Models, req[c].model = m,
         \A d \in Requests : req'[d].model = req[d].model,
         NEW n \in Nat, used' = [used EXCEPT ![k][m][Today] = n],
         \A d \in Requests, j \in Keys : fate'[d][j] # "exhausted",
         \A d \in Requests, j \in Keys : d # c \/ j # k => (Claimed(d, j)' <=> Claimed(d, j)),
         Today = 0 => n = Cardinality(Claimants(k, m)')
  PROVE  TableExact'
<1>1. Today \in Days /\ Today' = Today /\ used \in [Keys -> [Models -> [Days -> Nat]]]
  BY StateTypes DEF Today
<1> SUFFICES ASSUME NEW j \in Keys, Today = 0, NEW l \in Models
             PROVE  used'[j][l][0] = Cardinality(Claimants(j, l)')
  BY <1>1 DEF TableExact
<1>2. CASE j = k /\ l = m
  <2>1. used'[k][m][Today] = n
    BY <1>1, UsedUpdate
  <2>. QED BY <1>2, <2>1
<1>3. CASE j # k \/ l # m
  <2>1. used'[j][l][Today] = used[j][l][Today]
    BY <1>1, <1>3, UsedUpdate
  <2>2. Claimants(j, l)' = Claimants(j, l)
    BY <1>3 DEF Claimants
  <2>3. used[j][l][0] = Cardinality(Claimants(j, l))
    BY DEF TableExact
  <2>. QED BY <2>1, <2>2, <2>3
<1>. QED BY <1>2, <1>3

\* What c has to do with the table when it takes another step.
LEMMA DueSame ==
  ASSUME GatewayInv, NEW c \in Requests, NEW step \in StepNames \ {"reserve", "unreserve"},
         Doing(c, step), req'[c].todo = Tail(req[c].todo), ask' = ask, fate' = fate,
         NEW k \in Keys
  PROVE  Claimed(c, k)' <=> Claimed(c, k)
<1>1. req[c].todo \in Seq(StepNames) /\ req[c].todo # <<>> /\ Head(req[c].todo) = step
  BY Holding DEF Doing
<1>2. Due(c)' \subseteq Due(c)
  BY <1>1, RangeTail DEF Due
<1>3. Due(c) \subseteq {step} \cup Due(c)'
  BY <1>1, RangeSplit DEF Due
<1>4. "reserve" \in Due(c)' <=> "reserve" \in Due(c)
  BY <1>2, <1>3
<1>5. "unreserve" \in Due(c)' <=> "unreserve" \in Due(c)
  BY <1>2, <1>3
<1>. QED BY <1>4, <1>5 DEF Claimed

\* The others are counted as before.
LEMMA OthersClaimed ==
  ASSUME NEW d \in Requests, NEW k \in Keys, ask'[d] = ask[d], req'[d] = req[d],
         fate'[d][k] = fate[d][k]
  PROVE  Claimed(d, k)' <=> Claimed(d, k)
  BY DEF Claimed, Due

\* A step of c that changes neither the table nor what c is counted for.
LEMMA LocalTable ==
  ASSUME GatewayInv, TableExact, provider' = provider, used' = used, clock' = clock,
         NEW c \in Requests,
         \A d \in Requests \ {c} : ask'[d] = ask[d] /\ req'[d] = req[d] /\ fate'[d] = fate[d],
         \A k \in Keys : /\ fate'[c][k] = "exhausted" => fate[c][k] = "exhausted"
                         /\ Claimed(c, k)' <=> Claimed(c, k)
                         /\ req'[c].model = req[c].model \/ ~Claimed(c, k)
  PROVE  TableExact'
<1>1. Today' = Today
  BY DEF Today
<1>2. ASSUME NEW k \in Keys, NEW d \in Requests, d # c
      PROVE  /\ fate'[d][k] = "exhausted" => fate[d][k] = "exhausted"
             /\ Claimed(d, k)' <=> Claimed(d, k)
             /\ req'[d].model = req[d].model
  BY <1>2, OthersClaimed
<1>. QED BY <1>1, <1>2, TableSame

\* A request that has nothing to do on a key moves on.
LEMMA MovesTable ==
  ASSUME GatewayInv, TableExact, provider' = provider, used' = used, NEW c \in Requests,
         \/ \E m \in Models : Start(c, m)
         \/ AskKey(c)
         \/ NoKey(c)
         \/ RetriesExhausted(c)
         \/ Conclude(c)
  PROVE  TableExact'
<1>1. ask \in [Requests -> AskRec] /\ req \in [Requests -> ReqRec] /\ req[c] \in ReqRec
  BY StateTypes
<1>2. /\ ask[c].pc = "asking" => req[c].pc = "select"
      /\ req[c].pc # "work" => req[c].todo = <<>>
      /\ req[c].pc = "new" => \A k \in Keys : fate[c][k] = "none"
  BY DEF GatewayInv, ControlOK
<1>3. fate' = fate /\ clock' = clock
  BY DEF Start, AskKey, Ask, NoKey, Refuse, RetriesExhausted, Conclude, Leave, history
<1>4. \A d \in Requests \ {c} : ask'[d] = ask[d] /\ req'[d] = req[d]
  BY <1>1 DEF Start, AskKey, Ask, NoKey, Refuse, RetriesExhausted, Conclude, Leave, Answered
<1>5. req[c].todo = <<>>
  BY <1>2 DEF Start, AskKey, NoKey, Refuse, RetriesExhausted, Conclude
<1>6. req'[c].todo = req[c].todo
  BY <1>1 DEF Start, AskKey, NoKey, RetriesExhausted, Conclude, Answered, ReqRec
<1>7. req'[c].model = req[c].model \/ req[c].pc = "new"
  BY <1>1 DEF Start, AskKey, NoKey, RetriesExhausted, Conclude, Answered, ReqRec
<1>8. Due(c) = {} /\ Due(c)' = {}
  BY <1>5, <1>6, FreshEmpty DEF Due
<1>9. \A k \in Keys : Claimed(c, k)' <=> Claimed(c, k)
  BY <1>3, <1>8 DEF Claimed
<1>10. req[c].pc = "new" => \A k \in Keys : ~Claimed(c, k)
  BY <1>2, <1>8 DEF Claimed
<1>. QED BY <1>3, <1>4, <1>7, <1>9, <1>10, LocalTable

\* A key that has just been granted is not yet counted in the table.
LEMMA GrantTable ==
  ASSUME GatewayInv, TableExact, provider' = provider, used' = used,
         NEW c \in Requests, NEW k \in Keys, GetKey(c, k, <<"reserve">>)
  PROVE  TableExact'
<1>1. /\ ask \in [Requests -> AskRec] /\ ask[c] \in AskRec
      /\ req \in [Requests -> ReqRec] /\ req[c] \in ReqRec
      /\ fate \in [Requests -> [Keys -> Fates]]
  BY StateTypes
<1>2. /\ ask[c].pc = "asking" /\ k \notin ask[c].excl
      /\ ask' = [ask EXCEPT ![c].pc = "held", ![c].key = k] /\ clock' = clock
      /\ req' = [req EXCEPT ![c].pc = "work", ![c].attempt = @ + 1,
                            ![c].tried = @ \cup {k}, ![c].todo = <<"reserve">>]
      /\ fate' = [fate EXCEPT ![c][k] = "charged"]
  BY DEF GetKey, Grant
<1>3. req[c].todo = <<>> /\ fate[c][k] = "none"
  BY <1>2 DEF GatewayInv, ControlOK
<1>4. /\ ask'[c].key = k /\ req'[c].todo = <<"reserve">> /\ req'[c].model = req[c].model
      /\ fate'[c][k] = "charged" /\ \A j \in Keys \ {k} : fate'[c][j] = fate[c][j]
      /\ \A d \in Requests \ {c} : ask'[d] = ask[d] /\ req'[d] = req[d] /\ fate'[d] = fate[d]
  BY <1>1, <1>2 DEF AskRec, ReqRec
<1>5. Due(c) = {} /\ Due(c)' = {"reserve"}
  BY <1>3, <1>4, FreshEmpty, FreshSend DEF Due
<1>6. ASSUME NEW j \in Keys
      PROVE  /\ fate'[c][j] = "exhausted" => fate[c][j] = "exhausted"
             /\ Claimed(c, j)' <=> Claimed(c, j)
  BY <1>3, <1>4, <1>5 DEF Claimed
<1>. QED BY <1>2, <1>4, <1>6, LocalTable

\* The other steps on a key and its row leave the table alone.
LEMMA TouchTable ==
  ASSUME GatewayInv, TableExact, provider' = provider, used' = used, NEW c \in Requests,
         Settle(c) \/ BlockForADay(c) \/ Snap(c) \/ Write(c)
  PROVE  TableExact'
<1>1. req \in [Requests -> ReqRec] /\ req[c] \in ReqRec
  BY StateTypes
<1>2. PICK step \in StepNames \ {"reserve", "unreserve"} : Doing(c, step)
  BY DEF Settle, BlockForADay, Touch, Snap, Write, StepNames
<1>3. clock' = clock /\ ask' = ask /\ fate' = fate
  BY DEF Settle, BlockForADay, Touch, Snap, Write, history
<1>4. \/ req' = Done(c)
      \/ \E s : req' = [Done(c) EXCEPT ![c].snap = s]
  BY DEF Settle, BlockForADay, Touch, Snap, Write
<1>5. /\ Done(c) \in [Requests -> ReqRec] /\ Done(c)[c] \in ReqRec
      /\ Done(c)[c].todo = Tail(req[c].todo) /\ Done(c)[c].model = req[c].model
      /\ \A d \in Requests \ {c} : Done(c)[d] = req[d]
  BY <1>2, DoneFacts, DoneTodo
<1> DEFINE q == Done(c)
<1> HIDE DEF q
<1>6. /\ q \in [Requests -> ReqRec] /\ q[c] \in ReqRec
      /\ q[c].todo = Tail(req[c].todo) /\ q[c].model = req[c].model
      /\ \A d \in Requests \ {c} : q[d] = req[d]
      /\ req' = q \/ \E s : req' = [q EXCEPT ![c].snap = s]
  BY <1>4, <1>5 DEF q
<1> DEFINE Moved == /\ req'[c].todo = Tail(req[c].todo) /\ req'[c].model = req[c].model
                    /\ \A d \in Requests \ {c} : req'[d] = req[d]
<1>7. Moved
  <2>1. CASE req' = q
    BY <1>6, <2>1
  <2>2. ASSUME NEW s, req' = [q EXCEPT ![c].snap = s] PROVE Moved
    <3>1. req'[c] = [q[c] EXCEPT !.snap = s] /\ \A d \in Requests \ {c} : req'[d] = q[d]
      BY <1>6, <2>2
    <3>. QED BY <1>6, <3>1 DEF ReqRec
  <2>. QED BY <1>6, <2>1, <2>2
<1>8. \A k \in Keys : Claimed(c, k)' <=> Claimed(c, k)
  BY <1>2, <1>3, <1>7, DueSame
<1>. QED BY <1>3, <1>7, <1>8, LocalTable

\* The table counts the request from when it claims its place.
LEMMA ReserveTable ==
  ASSUME GatewayInv, TableExact, provider = "google", provider' = provider,
         NEW c \in Requests, ReserveSlot(c)
  PROVE  TableExact'
<1>1. Doing(c, "reserve")
  BY DEF ReserveSlot
<1>2. PICK k \in Keys : ask[c].key = k
  BY <1>1, DoneFacts, Holding
<1>3. /\ req \in [Requests -> ReqRec] /\ req[c] \in ReqRec /\ req[c].pc = "work"
      /\ used \in [Keys -> [Models -> [Days -> Nat]]] /\ Today \in Days
      /\ ask' = ask /\ fate' = fate /\ clock' = clock
  BY <1>1, StateTypes DEF Doing, ReserveSlot, history
<1>4. PICK m \in Models : req[c].model = m
  BY <1>3 DEF GatewayInv, ControlOK
<1> DEFINE s == Sync \o <<"send">>
           n == used[k][m][Today] + 1
<1>5. /\ used' = [used EXCEPT ![k][m][Today] = n]
      /\ req' = [req EXCEPT ![c].todo = s]
  BY <1>2, <1>4 DEF ReserveSlot, UseToday, UsedToday
<1>6. Range(s) = {"snap", "write", "send"}
  BY FreshSend
<1>7. n \in Nat
  BY <1>3
<1> HIDE DEF s, n
<1>8. /\ req'[c].todo = s /\ \A d \in Requests \ {c} : req'[d] = req[d]
      /\ \A d \in Requests : req'[d].model = req[d].model
  BY <1>3, <1>5 DEF ReqRec
<1>9. Due(c) = {"reserve"} /\ fate[c][k] = "charged" /\ Due(c)' = {"snap", "write", "send"}
  BY <1>1, <1>2, <1>6, <1>8, LastStep DEF Due
<1>10. ~Claimed(c, k) /\ Claimed(c, k)'
  BY <1>2, <1>3, <1>9 DEF Claimed
<1>11. ASSUME NEW d \in Requests, NEW j \in Keys, d # c \/ j # k
       PROVE  Claimed(d, j)' <=> Claimed(d, j)
  BY <1>2, <1>3, <1>8, <1>11 DEF Claimed, Due
<1>12. Claimants(k, m)' = Claimants(k, m) \cup {c} /\ c \notin Claimants(k, m)
  BY <1>4, <1>8, <1>10, <1>11 DEF Claimants
<1>13. ASSUME Today = 0 PROVE n = Cardinality(Claimants(k, m)')
  <2>1. IsFiniteSet(Claimants(k, m))
    BY GatewayAssumption, FS_Subset DEF Claimants
  <2>2. used[k][m][Today] = Cardinality(Claimants(k, m))
    BY <1>13 DEF TableExact
  <2> DEFINE K == Claimants(k, m)
  <2>3. IsFiniteSet(K) /\ Claimants(k, m)' = K \cup {c} /\ c \notin K
    BY <1>12, <2>1
  <2> HIDE DEF K
  <2>4. Cardinality(K \cup {c}) = Cardinality(K) + 1
    BY <2>3, FS_AddElement
  <2>. QED BY <2>2, <2>3, <2>4 DEF n, K
<1>14. \A d \in Requests, j \in Keys : fate'[d][j] # "exhausted"
  BY <1>3 DEF TableExact
<1>15. clock' = clock /\ \A d \in Requests : req'[d].model = req[d].model
  BY <1>3, <1>8
<1>16. used' = [used EXCEPT ![k][m][Today] = n]
  BY <1>5
<1>17. Today = 0 => n = Cardinality(Claimants(k, m)')
  BY <1>13
<1>. QED BY <1>4, <1>7, <1>11, <1>14, <1>15, <1>16, <1>17, TableStep, Zenon

\* A place that was refused is not counted.
LEMMA GiveUpTable ==
  ASSUME GatewayInv, TableExact, provider' = provider,
         NEW c \in Requests, NEW then, GiveUpSlot(c, then)
  PROVE  TableExact'
<1>1. Doing(c, "reserve")
  BY DEF GiveUpSlot
<1>2. PICK k \in Keys : ask[c].key = k
  BY <1>1, DoneFacts, Holding
<1>3. /\ req \in [Requests -> ReqRec] /\ req[c] \in ReqRec /\ fate \in [Requests -> [Keys -> Fates]]
      /\ ask' = ask /\ clock' = clock /\ used' = used
      /\ req' = [req EXCEPT ![c].todo = <<>>, ![c].then = then]
      /\ fate' = [fate EXCEPT ![c][k] = "leaked"]
  BY <1>2, StateTypes DEF GiveUpSlot, Fate
<1>4. /\ req'[c].todo = <<>> /\ req'[c].model = req[c].model /\ fate'[c][k] = "leaked"
      /\ \A j \in Keys \ {k} : fate'[c][j] = fate[c][j]
      /\ \A d \in Requests \ {c} : req'[d] = req[d] /\ fate'[d] = fate[d]
  BY <1>3 DEF ReqRec
<1>5. Due(c) = {"reserve"} /\ Due(c)' = {} /\ fate[c][k] = "charged"
  BY <1>1, <1>2, <1>4, LastStep, FreshEmpty DEF Due
<1>6. ASSUME NEW j \in Keys
      PROVE  /\ fate'[c][j] = "exhausted" => fate[c][j] = "exhausted"
             /\ Claimed(c, j)' <=> Claimed(c, j)
  BY <1>2, <1>3, <1>4, <1>5 DEF Claimed
<1>. QED BY <1>3, <1>4, <1>6, LocalTable

\* The table counts the request until its place is given back.
LEMMA UnreserveTable ==
  ASSUME GatewayInv, TableExact, provider = "google", provider' = provider,
         NEW c \in Requests, Unreserve(c)
  PROVE  TableExact'
<1>1. Doing(c, "unreserve")
  BY DEF Unreserve
<1>2. PICK k \in Keys : ask[c].key = k
  BY <1>1, DoneFacts, Holding
<1>3. /\ req[c].pc = "work" /\ Today \in Days
      /\ used \in [Keys -> [Models -> [Days -> Nat]]]
      /\ ask' = ask /\ fate' = fate /\ clock' = clock /\ req' = Done(c)
  BY <1>1, StateTypes DEF Doing, Unreserve, history
<1>4. PICK m \in Models : req[c].model = m
  BY <1>3 DEF GatewayInv, ControlOK
<1> DEFINE u == used[k][m][Today]
           n == IF u > 0 THEN u - 1 ELSE 0
<1>5. used' = [used EXCEPT ![k][m][Today] = n]
  BY <1>2, <1>3, <1>4 DEF Unreserve, UseToday, UsedToday
<1>6. u \in Nat
  BY <1>3
<1> HIDE DEF u
<1>7. n \in Nat
  BY <1>6
<1>8. /\ "unreserve" \in Due(c) /\ "unreserve" \notin Due(c)'
      /\ \A d \in Requests \ {c} : req'[d] = req[d]
      /\ \A d \in Requests : req'[d].model = req[d].model
  <2>1. /\ "unreserve" \in Due(c) /\ Range(req'[c].todo) \cap {"rollback", "unreserve"} = {}
        /\ \A d \in Requests \ {c} : req'[d] = req[d]
        /\ req'[c].model = req[c].model
    BY <1>1, <1>3, DoneFacts
  <2>. QED BY <2>1 DEF Due
<1>9. fate[c][k] = "unserved"
  BY <1>2, <1>8 DEF GatewayInv, TodoOK, RequestOK
<1>10. Claimed(c, k) /\ ~Claimed(c, k)'
  BY <1>2, <1>3, <1>8, <1>9 DEF Claimed
<1>11. ASSUME NEW d \in Requests, NEW j \in Keys, d # c \/ j # k
       PROVE  Claimed(d, j)' <=> Claimed(d, j)
  BY <1>2, <1>3, <1>8, <1>11 DEF Claimed, Due
<1>12. Claimants(k, m)' = Claimants(k, m) \ {c} /\ c \in Claimants(k, m)
  BY <1>4, <1>8, <1>10, <1>11 DEF Claimants
<1>13. ASSUME Today = 0 PROVE n = Cardinality(Claimants(k, m)')
  <2> DEFINE K == Claimants(k, m)
  <2>1. IsFiniteSet(K)
    BY GatewayAssumption, FS_Subset DEF Claimants
  <2>2. u = Cardinality(K)
    BY <1>13 DEF TableExact, u
  <2>3. c \in K /\ Claimants(k, m)' = K \ {c}
    BY <1>12
  <2> HIDE DEF K
  <2>4. /\ Cardinality(K \ {c}) = Cardinality(K) - 1
        /\ Cardinality(K) \in Nat /\ Cardinality(K \ {c}) \in Nat
    BY <2>1, <2>3, FS_RemoveElement, FS_CardinalityType
  <2>5. n = Cardinality(K \ {c})
    BY <2>2, <2>4
  <2> HIDE DEF n
  <2>. QED BY <2>3, <2>5
<1>14. \A d \in Requests, j \in Keys : fate'[d][j] # "exhausted"
  BY <1>3 DEF TableExact
<1> HIDE DEF n
<1>15. clock' = clock /\ \A d \in Requests : req'[d].model = req[d].model
  BY <1>3, <1>8
<1>16. used' = [used EXCEPT ![k][m][Today] = n]
  BY <1>5
<1>17. Today = 0 => n = Cardinality(Claimants(k, m)')
  BY <1>13
<1>. QED BY <1>4, <1>7, <1>11, <1>14, <1>15, <1>16, <1>17, TableStep, Zenon

\* A place whose refund failed stays counted.
LEMMA UnreserveFailsTable ==
  ASSUME GatewayInv, TableExact, provider' = provider, NEW c \in Requests, UnreserveFails(c)
  PROVE  TableExact'
<1>1. Doing(c, "unreserve")
  BY DEF UnreserveFails
<1>2. PICK k \in Keys : ask[c].key = k
  BY <1>1, DoneFacts, Holding
<1>3. /\ fate \in [Requests -> [Keys -> Fates]]
      /\ ask' = ask /\ clock' = clock /\ used' = used /\ req' = Done(c)
      /\ fate' = [fate EXCEPT ![c][k] = "kept"]
  BY <1>2, StateTypes DEF UnreserveFails, Fate
<1>4. /\ fate'[c][k] = "kept" /\ \A j \in Keys \ {k} : fate'[c][j] = fate[c][j]
      /\ \A d \in Requests \ {c} : fate'[d] = fate[d]
  BY <1>3
<1>5. /\ "unreserve" \in Due(c) /\ req'[c].model = req[c].model
      /\ \A d \in Requests \ {c} : req'[d] = req[d]
  BY <1>1, <1>3, DoneFacts
<1>6. ASSUME NEW j \in Keys
      PROVE  /\ fate'[c][j] = "exhausted" => fate[c][j] = "exhausted"
             /\ Claimed(c, j)' <=> Claimed(c, j)
  BY <1>2, <1>3, <1>4, <1>5 DEF Claimed
<1>. QED BY <1>3, <1>4, <1>5, <1>6, LocalTable

\* Whatever the answer, the request stays counted: it was served, or its place
\* has still to be given back.
LEMMA AnswerTable ==
  ASSUME GatewayInv, TableExact, provider' = provider,
         NEW c \in Requests, NEW code \in GoogleCodes, GoogleAnswer(c, code)
  PROVE  TableExact'
<1>1. Doing(c, "send")
  BY DEF GoogleAnswer
<1>2. PICK k \in Keys : ask[c].key = k
  BY <1>1, DoneFacts, Holding
<1> DEFINE s == GoogleSteps(code)
<1>3. /\ req \in [Requests -> ReqRec] /\ req[c] \in ReqRec /\ fate \in [Requests -> [Keys -> Fates]]
      /\ ask' = ask /\ clock' = clock /\ used' = used
      /\ fate' = IF code = "200" THEN fate ELSE [fate EXCEPT ![c][k] = "unserved"]
  BY <1>2, StateTypes DEF GoogleAnswer, Fate
<1>4. \E d, t : req' = [req EXCEPT ![c].todo = s, ![c].wait = d, ![c].then = t]
  BY DEF GoogleAnswer
<1>5. "reserve" \notin Range(s) /\ ("unreserve" \in Range(s) <=> code # "200")
  BY GoogleLists
<1> HIDE DEF s
<1>6. /\ req'[c].todo = s /\ req'[c].model = req[c].model
      /\ \A d \in Requests \ {c} : req'[d] = req[d]
  BY <1>3, <1>4 DEF ReqRec
<1>7. /\ fate'[c][k] = IF code = "200" THEN fate[c][k] ELSE "unserved"
      /\ \A j \in Keys \ {k} : fate'[c][j] = fate[c][j]
      /\ \A d \in Requests \ {c} : fate'[d] = fate[d]
  BY <1>3
<1>8. Due(c) = {"send"} /\ fate[c][k] = "charged"
  BY <1>1, <1>2, LastStep
<1>9. "reserve" \notin Due(c)' /\ ("unreserve" \in Due(c)' <=> code # "200")
  BY <1>5, <1>6 DEF Due
<1>10. ASSUME NEW j \in Keys
       PROVE  /\ fate'[c][j] = "exhausted" => fate[c][j] = "exhausted"
              /\ Claimed(c, j)' <=> Claimed(c, j)
  <2>1. CASE j = k
    BY <1>2, <1>3, <1>7, <1>8, <1>9, <2>1 DEF Claimed
  <2>2. CASE j # k
    BY <1>2, <1>3, <1>7, <2>2 DEF Claimed
  <2>. QED BY <2>1, <2>2
<1>. QED BY <1>3, <1>6, <1>7, <1>10, LocalTable

\* The clock, the reset worker and the searches have no part in it.
LEMMA BackgroundTable ==
  ASSUME GatewayInv, TableExact, provider' = provider, used' = used, Background
  PROVE  TableExact'
<1>1. fate' = fate /\ req' = req
  BY DEF Background, history
<1>2. ask' = ask /\ (clock' = clock \/ Tick)
  BY DEF Background, Tick, ResetExpired, Look
<1>3. Today' = 0 => Today = 0
  <2>1. CASE clock' = clock
    BY <2>1 DEF Today
  <2>2. CASE Tick
    <3>1. clock \in Nat /\ clock' \in Nat /\ clock <= clock'
      BY <2>2, StateTypes DEF Tick
    <3>2. Today \in Nat /\ Today' \in Nat /\ Today <= Today'
      BY <3>1, DayOrder, DayType DEF Today
    <3>. QED BY <3>2
  <2>. QED BY <1>2, <2>1, <2>2
<1>4. \A k \in Keys, d \in Requests : Claimed(d, k)' <=> Claimed(d, k)
  BY <1>1, <1>2 DEF Claimed, Due
<1>. QED BY <1>1, <1>3, <1>4, TableSame

LEMMA LedgerStart == GatewayInit => LedgerInv
<1> SUFFICES ASSUME GatewayInit PROVE TableExact
  BY InitInv DEF LedgerInv
<1>1. /\ fate = [c \in Requests |-> [k \in Keys |-> "none"]]
      /\ req = [c \in Requests |-> NewRequest]
      /\ used = [k \in Keys |-> [m \in Models |-> [d \in Days |-> 0]]]
      /\ clock = 0
  BY DEF GatewayInit, HandlerInit, GoogleInit
<1>2. Today = 0 /\ Today \in Days
  BY <1>1, DayOrder, InitInv, StateTypes DEF Today
<1>3. \A c \in Requests : Due(c) = {}
  BY <1>1, FreshEmpty DEF Due, NewRequest
<1>4. \A c \in Requests, k \in Keys : fate[c][k] = "none" /\ ~Claimed(c, k)
  BY <1>1, <1>3 DEF Claimed
<1>5. \A k \in Keys, m \in Models : Claimants(k, m) = {} /\ used[k][m][0] = 0
  BY <1>1, <1>2, <1>4 DEF Claimants
<1>. QED BY <1>4, <1>5, FS_EmptySet DEF TableExact

LEMMA LedgerNext == LedgerInv /\ [GatewayNext]_gatewayvars => LedgerInv'
<1> SUFFICES ASSUME GatewayInv, TableExact, [GatewayNext]_gatewayvars PROVE TableExact'
  BY NextInv DEF LedgerInv
<1>1. CASE UNCHANGED gatewayvars
  <2>1. UNCHANGED <<clock, ask, provider, req, fate, used>>
    BY <1>1 DEF gatewayvars
  <2>2. Today' = Today /\ \A k \in Keys, c \in Requests : Claimed(c, k)' <=> Claimed(c, k)
    BY <2>1 DEF Today, Claimed, Due
  <2>. QED BY <2>1, <2>2, TableSame
<1>2. CASE GatewayNext /\ provider # "google"
  BY <1>2 DEF GatewayNext, TableExact
<1>3. CASE provider = "google" /\ provider' = provider /\ Background /\ used' = used
  BY <1>3, BackgroundTable
<1>4. ASSUME NEW c \in Requests, provider = "google", provider' = provider, GoogleHandle(c)
      PROVE  TableExact'
  <2>1. CASE ReserveSlot(c)
    BY <1>4, <2>1, ReserveTable
  <2>2. CASE SlotRefused(c) \/ ReserveFails(c)
    BY <1>4, <2>2, GiveUpTable DEF SlotRefused, ReserveFails
  <2>3. CASE Unreserve(c)
    BY <1>4, <2>3, UnreserveTable
  <2>4. CASE UnreserveFails(c)
    BY <1>4, <2>4, UnreserveFailsTable
  <2>5. ASSUME NEW code \in GoogleCodes, GoogleAnswer(c, code) PROVE TableExact'
    BY <1>4, <2>5, AnswerTable
  <2>6. ASSUME NEW k \in Keys, GetKey(c, k, <<"reserve">>), used' = used PROVE TableExact'
    BY <1>4, <2>6, GrantTable
  <2>7. CASE BlockForADay(c) /\ used' = used
    BY <1>4, <2>7, TouchTable
  <2>8. CASE HandlerStep(c) /\ used' = used
    BY <1>4, <2>8, MovesTable, TouchTable DEF HandlerStep
  <2>9. CASE (\E m \in Models : Start(c, m)) /\ used' = used
    BY <1>4, <2>9, MovesTable
  <2>. QED BY <1>4, <2>1, <2>2, <2>3, <2>4, <2>5, <2>6, <2>7, <2>8, <2>9 DEF GoogleHandle
<1>5. CASE GatewayNext /\ provider = "google"
  <2>1. provider' = provider
    BY <1>5 DEF GatewayNext
  <2>2. (\E c \in Requests : GoogleHandle(c)) \/ (Background /\ used' = used)
    BY <1>5 DEF GatewayNext, Handle
  <2>. QED BY <1>3, <1>4, <1>5, <2>1, <2>2
<1>. QED BY <1>1, <1>2, <1>5

\* Once nobody holds a key of Google, memory and model_usage count the same
\* requests for it, whatever was retried, refused or refunded, but for what the
\* table refused after memory charged it, and for the refunds that failed.
THEOREM BothLedgersAgree == GatewaySpec => []LedgersAgree
<1>1. ASSUME LedgerInv PROVE LedgersAgree
  <2> SUFFICES ASSUME NEW k \in Keys, provider = "google", Today = 0, AtRest(k)
               PROVE  mem[k].usage + Cardinality(Fated(k, "kept"))
                        = TableCount(k, 0) + Cardinality(Fated(k, "leaked"))
    BY DEF LedgersAgree
  <2>1. GatewayInv /\ TableExact
    BY <1>1 DEF LedgerInv
  <2>2. ASSUME NEW c \in Requests, ask[c].key = k PROVE Due(c) = {}
    BY <2>1, <2>2, FreshEmpty DEF AtRest, GatewayInv, ControlOK, Due
  <2>3. ASSUME NEW c \in Requests
        PROVE  /\ Counted(c, k) <=> fate[c][k] \in {"charged", "leaked"}
               /\ Claimed(c, k) <=> fate[c][k] \in {"charged", "kept"}
    BY <2>2 DEF Counted, Refunding, Claimed, Due
  <2> DEFINE C == Fated(k, "charged")
             L == Fated(k, "leaked")
             K == Fated(k, "kept")
             S == {c \in Requests : Claimed(c, k)}
  <2>4. {c \in Requests : Counted(c, k)} = C \cup L /\ S = C \cup K /\ C \cap L = {} /\ C \cap K = {}
    BY <2>3 DEF Fated
  <2>5. mem[k].usage = Cardinality({c \in Requests : Counted(c, k)})
    BY <2>1 DEF GatewayInv, CounterExact, TableExact, Fated
  <2>6. IsFiniteSet(C) /\ IsFiniteSet(L) /\ IsFiniteSet(K) /\ IsFiniteSet(S)
    BY GatewayAssumption, FS_Subset DEF Fated
  <2>7. TableCount(k, 0) = Cardinality(S)
    <3> DEFINE part == [c \in S |-> req[c].model]
               n == [m \in Models |-> used[k][m][0]]
    <3>1. part \in [S -> Models]
      <4>1. \A c \in S : fate[c][k] # "none"
        BY <2>3
      <4>. QED BY <2>1, <4>1 DEF GatewayInv, ControlOK
    <3>2. \A m \in Models : {c \in S : part[c] = m} = Claimants(k, m)
      BY DEF Claimants
    <3>3. \A m \in Models : n[m] = Cardinality({c \in S : part[c] = m})
      BY <2>1, <3>2 DEF TableExact
    <3>4. TableCount(k, 0) = Cardinality(UNION {{m} \X (1 .. n[m]) : m \in Models})
      <4>1. \A m \in Models : {m} \X (1 .. n[m]) = {m} \X (1 .. used[k][m][0])
        OBVIOUS
      <4>2. {{m} \X (1 .. n[m]) : m \in Models} = {{m} \X (1 .. used[k][m][0]) : m \in Models}
        BY <4>1
      <4>. QED BY <4>2 DEF TableCount
    <3> HIDE DEF part, n, S
    <3>. QED BY <2>6, <3>1, <3>3, <3>4, SumOfParts
  <2>8. mem[k].usage = Cardinality(C \cup L) /\ TableCount(k, 0) = Cardinality(C \cup K)
    BY <2>4, <2>5, <2>7
  <2> HIDE DEF C, L, K, S
  <2>9. /\ Cardinality(C) \in Nat /\ Cardinality(L) \in Nat /\ Cardinality(K) \in Nat
        /\ Cardinality(C \cap L) = 0 /\ Cardinality(C \cap K) = 0
    BY <2>4, <2>6, FS_EmptySet, FS_CardinalityType
  <2>10. /\ Cardinality(C \cup L) = Cardinality(C) + Cardinality(L) - Cardinality(C \cap L)
         /\ Cardinality(C \cup K) = Cardinality(C) + Cardinality(K) - Cardinality(C \cap K)
    BY <2>6, FS_Union
  <2>11. mem[k].usage + Cardinality(K) = TableCount(k, 0) + Cardinality(L)
    BY <2>8, <2>9, <2>10
  <2>. QED BY <2>11 DEF K, L
<1>. QED BY <1>1, LedgerStart, LedgerNext, PTL DEF GatewaySpec
=============================================================================
