------------------------- MODULE AgentSessionProofs -------------------------
(***************************************************************************)
(* Everyone is in one queue, answers go where they were asked for, and at  *)
(* most one connection brings new requests: for any number of requests and *)
(* connections, with every interleaving of dispatchers, pings, reports and *)
(* breaks.                                                                 *)
(***************************************************************************)
EXTENDS AgentSession, FiniteSetTheorems, TLAPS

(***************************************************************************)
(* Queues: what an operation does to who is in them.                       *)
(***************************************************************************)
LEMMA AppendQueue ==
  ASSUME NEW S, NEW q \in Seq(S), NEW w \in S
  PROVE  /\ Append(q, w) \in Seq(S)
         /\ \A x : Has(Append(q, w), x) <=> Has(q, x) \/ x = w
         /\ Distinct(q) /\ ~Has(q, w) => Distinct(Append(q, w))
<1> DEFINE a == Append(q, w)
<1>1. /\ a \in Seq(S) /\ Len(a) = Len(q) + 1 /\ Len(q) \in Nat
      /\ \A i \in 1..Len(q) : a[i] = q[i]
      /\ a[Len(q) + 1] = w
  OBVIOUS
<1> HIDE DEF a
<1>2. \A i \in 1..Len(a) : i \in 1..Len(q) \/ i = Len(q) + 1
  BY <1>1
<1>3. \A i \in 1..Len(q) : i \in 1..Len(a)
  BY <1>1
<1>4. Len(q) + 1 \in 1..Len(a)
  BY <1>1
<1>5. \A x : Has(a, x) <=> Has(q, x) \/ x = w
  BY <1>1, <1>2, <1>3, <1>4 DEF Has
<1>6. Distinct(q) /\ ~Has(q, w) => Distinct(a)
  BY <1>1, <1>2 DEF Distinct, Has
<1> QED BY <1>1, <1>5, <1>6 DEF a

LEMMA TailQueue ==
  ASSUME NEW S, NEW q \in Seq(S), q # <<>>, Distinct(q)
  PROVE  /\ Tail(q) \in Seq(S) /\ Head(q) \in S /\ Has(q, Head(q))
         /\ \A x : Has(Tail(q), x) <=> Has(q, x) /\ x # Head(q)
         /\ Distinct(Tail(q))
<1> DEFINE t == Tail(q)
<1>1. /\ t \in Seq(S) /\ Len(t) = Len(q) - 1 /\ Len(q) \in Nat /\ Len(q) >= 1
      /\ \A i \in 1..Len(t) : t[i] = q[i + 1]
      /\ Head(q) = q[1] /\ q[1] \in S
  OBVIOUS
<1> HIDE DEF t
<1>2. \A i \in 1..Len(t) : i + 1 \in 1..Len(q) /\ i + 1 # 1
  BY <1>1
<1>3. \A i \in 1..Len(q) : i = 1 \/ (i - 1 \in 1..Len(t) /\ t[i - 1] = q[i])
  BY <1>1
<1>4. 1 \in 1..Len(q)
  BY <1>1
<1>5. \A x : Has(t, x) => Has(q, x) /\ x # Head(q)
  BY <1>1, <1>2, <1>4 DEF Has, Distinct
<1>6. \A x : Has(q, x) /\ x # Head(q) => Has(t, x)
  BY <1>1, <1>3 DEF Has
<1>7. Distinct(t)
  <2> SUFFICES ASSUME NEW i \in 1..Len(t), NEW j \in 1..Len(t), t[i] = t[j]
               PROVE  i = j
    BY DEF Distinct
  <2>1. q[i + 1] = q[j + 1]
    BY <1>1
  <2>2. i + 1 = j + 1
    BY <1>2, <2>1 DEF Distinct
  <2> QED BY <2>2
<1> QED BY <1>1, <1>4, <1>5, <1>6, <1>7 DEF t, Has

LEMMA SubSeqQueue ==
  ASSUME NEW S, NEW q \in Seq(S), NEW n \in 0..Len(q), Distinct(q)
  PROVE  /\ SubSeq(q, 1, n) \in Seq(S)
         /\ \A x : Has(SubSeq(q, 1, n), x)
                     <=> Has(q, x) /\ ~\E i \in n + 1..Len(q) : q[i] = x
         /\ Distinct(SubSeq(q, 1, n))
<1> DEFINE u == SubSeq(q, 1, n)
<1>1. /\ u \in Seq(S) /\ Len(u) = n /\ Len(q) \in Nat
      /\ \A i \in 1..n : u[i] = q[i]
  OBVIOUS
<1> HIDE DEF u
<1>2. \A i \in 1..n : i \in 1..Len(q) /\ i \notin n + 1..Len(q)
  BY <1>1
<1>3. \A i \in 1..Len(q) : i \in 1..n \/ i \in n + 1..Len(q)
  BY <1>1
<1>4. \A i \in n + 1..Len(q) : i \in 1..Len(q)
  BY <1>1
<1>5. \A x : Has(u, x) <=> Has(q, x) /\ ~\E i \in n + 1..Len(q) : q[i] = x
  BY <1>1, <1>2, <1>3, <1>4 DEF Has, Distinct
<1>6. Distinct(u)
  BY <1>1, <1>2 DEF Distinct
<1> QED BY <1>1, <1>5, <1>6 DEF u

LEMMA EmptyQueue == \A x : ~Has(<<>>, x) /\ Distinct(<<>>)
BY DEF Has, Distinct

-----------------------------------------------------------------------------
(***************************************************************************)
(* Types.                                                                  *)
(***************************************************************************)
Waiters == Requests \union {Main}

LEMMA TypesInit == Init => Types
BY MaxConnsAssumption DEF Init, Types, Conns

\* The state of the whole while only one queue at a lock changes.
LEMMA LockType ==
  ASSUME Types, NEW c, NEW queue, c \in Conns => queue \in Seq(Waiters),
         lock' = [lock EXCEPT ![c] = queue]
  PROVE  lock' \in [Conns -> Seq(Waiters)]
BY DEF Types, Waiters

LEMMA TypesMain ==
  Types /\ (Connect \/ MainStep) => Types'
<1> SUFFICES ASSUME Types, Connect \/ MainStep PROVE Types'
  OBVIOUS
<1>1. CASE Connect
  <2>1. conn + 1 \in Conns /\ conn' \in 0..MaxConns
    BY <1>1, MaxConnsAssumption DEF Connect, Types, Conns
  <2> QED BY <1>1, <2>1 DEF Connect, Types, requests
<1>2. CASE ConnectFails \/ Retry
  BY <1>2 DEF ConnectFails, Retry, Types, requests
<1>3. CASE Report
  <2>1. conn \in Conns => Waiting(lock[conn], Main) \in Seq(Waiters)
    BY DEF Waiting, Types, Waiters
  <2>2. lock' \in [Conns -> Seq(Waiters)]
    BY <1>3, <2>1, LockType DEF Report
  <2> QED BY <1>3, <2>2 DEF Report, Types, requests, Waiters
<1>4. CASE SendReport
  <2>1. conn \in Conns => Released(conn) \in Seq(Waiters)
    BY <1>4 DEF SendReport, Holds, Released, Types, Waiters
  <2>2. lock' \in [Conns -> Seq(Waiters)]
    BY <1>4, <2>1, LockType DEF SendReport
  <2> QED BY <1>4, <2>2 DEF SendReport, Types, requests, Waiters
<1> QED BY <1>1, <1>2, <1>3, <1>4 DEF MainStep

LEMMA TypesPing ==
  ASSUME Types, NEW r \in Requests, PingResult(r) \/ PingError(r) \/ OtherEnds(r)
  PROVE  Types'
<1>1. CASE PingResult(r)
  <2>1. ReplyConn(r) \in Conns => Waiting(lock[ReplyConn(r)], r) \in Seq(Waiters)
    BY DEF Waiting, Types, Waiters
  <2>2. lock' \in [Conns -> Seq(Waiters)]
    BY <1>1, <2>1, LockType DEF PingResult
  <2> QED BY <1>1, <2>2 DEF PingResult, Types, conns, Waiters
<1>2. CASE PingError(r) \/ OtherEnds(r)
  BY <1>2 DEF PingError, OtherEnds, Types, conns
<1> QED BY <1>1, <1>2

LEMMA TypesResult ==
  ASSUME Types, NEW r \in Requests, NEW c \in Conns, SendResult(c, r)
  PROVE  Types'
<1>1. Released(c) \in Seq(Waiters)
  BY DEF SendResult, Holds, Released, Types, Waiters
<1>2. lock' \in [Conns -> Seq(Waiters)]
  BY <1>1, LockType DEF SendResult
<1>3. Append(answers[r], c) \in Seq(Conns)
  BY DEF Types
<1>4. answers' \in [Requests -> Seq(Conns)]
  BY <1>3 DEF SendResult, Types
<1> QED BY <1>2, <1>4 DEF SendResult, Types, conns, Waiters

LEMMA TypesListeners ==
  ASSUME Types, NEW c \in Conns, Listener(c) \/ Break(c) \/ \E r \in Requests : Ask(c, r)
  PROVE  Types'
<1>1. CASE Dispatch(c)
  <2>1. Tail(inbox[c]) \in Seq(Requests)
    BY <1>1 DEF Dispatch, Types
  <2>2. inbox' \in [Conns -> Seq(Requests)]
    BY <1>1, <2>1 DEF Dispatch, Types
  <2>3. stage' \in [Requests -> {"idle", "inbox", "running", "queued"}]
    BY <1>1 DEF Dispatch, Types
  <2> QED BY <1>1, <2>2, <2>3 DEF Dispatch, Types
<1>2. CASE ListenerEnds(c)
  BY <1>2 DEF ListenerEnds, AtEnd, Types, requests
<1>3. CASE Break(c)
  <2> PICK n \in 0..Len(inbox[c]) :
        /\ inbox' = [inbox EXCEPT ![c] = SubSeq(@, 1, n)]
        /\ stage' = [r \in Requests |->
                       IF \E i \in n + 1..Len(inbox[c]) : inbox[c][i] = r
                         THEN "idle" ELSE stage[r]]
    BY <1>3 DEF Break
  <2>1. SubSeq(inbox[c], 1, n) \in Seq(Requests)
    BY DEF Types
  <2>2. inbox' \in [Conns -> Seq(Requests)]
    BY <2>1 DEF Types
  <2>3. stage' \in [Requests -> {"idle", "inbox", "running", "queued"}]
    BY DEF Types
  <2> QED BY <1>3, <2>2, <2>3 DEF Break, Types
<1>4. ASSUME NEW r \in Requests, Ask(c, r) PROVE Types'
  <2>1. Append(inbox[c], r) \in Seq(Requests)
    BY DEF Types
  <2>2. inbox' \in [Conns -> Seq(Requests)] /\ answers' \in [Requests -> Seq(Conns)]
    BY <1>4, <2>1 DEF Ask, Types
  <2> QED BY <1>4, <2>2 DEF Ask, Types
<1> QED BY <1>1, <1>2, <1>3, <1>4 DEF Listener

LEMMA TypesNext == Types /\ [Next]_vars => Types'
<1> SUFFICES ASSUME Types, [Next]_vars PROVE Types'
  OBVIOUS
<1>1. CASE UNCHANGED vars
  BY <1>1 DEF Types, vars
<1> QED BY <1>1, TypesMain, TypesPing, TypesResult, TypesListeners
        DEF Next, Target, Result

-----------------------------------------------------------------------------
(***************************************************************************)
(* Who waits where.                                                        *)
(***************************************************************************)
LEMMA TaskInit == Init => TaskInv
BY EmptyQueue DEF Init, TaskInv

\* Someone who waits nowhere queues at the lock of c.
LEMMA Joins ==
  ASSUME Types, TaskInv, NEW c, NEW w \in Waiters, \A d \in Conns : ~Has(lock[d], w),
         lock' = [lock EXCEPT ![c] = Waiting(@, w)]
  PROVE  \A d \in Conns :
           /\ Distinct(lock'[d])
           /\ \A x : Has(lock'[d], x) <=> Has(lock[d], x) \/ (d = c /\ x = w)
<1> SUFFICES ASSUME NEW d \in Conns
             PROVE  /\ Distinct(lock'[d])
                    /\ \A x : Has(lock'[d], x) <=> Has(lock[d], x) \/ (d = c /\ x = w)
  OBVIOUS
<1>1. CASE d = c
  <2>1. lock'[d] = Append(lock[d], w) /\ lock[d] \in Seq(Waiters)
    BY <1>1 DEF Types, Waiting, Waiters
  <2>2. Distinct(lock[d]) /\ ~Has(lock[d], w)
    BY DEF TaskInv
  <2>3. /\ Distinct(Append(lock[d], w))
        /\ \A x : Has(Append(lock[d], w), x) <=> Has(lock[d], x) \/ x = w
    BY <2>1, <2>2, AppendQueue
  <2> QED BY <1>1, <2>1, <2>3
<1>2. CASE d # c
  BY <1>2 DEF Types, TaskInv
<1> QED BY <1>1, <1>2

\* The holder of the lock of c leaves.
LEMMA Leaves ==
  ASSUME Types, TaskInv, NEW c, NEW w, Holds(c, w),
         lock' = [lock EXCEPT ![c] = Released(c)]
  PROVE  \A d \in Conns :
           /\ Distinct(lock'[d])
           /\ \A x : Has(lock'[d], x) <=> Has(lock[d], x) /\ ~(d = c /\ x = w)
           /\ d = c => Has(lock[d], w)
<1> SUFFICES ASSUME NEW d \in Conns
             PROVE  /\ Distinct(lock'[d])
                    /\ \A x : Has(lock'[d], x) <=> Has(lock[d], x) /\ ~(d = c /\ x = w)
                    /\ d = c => Has(lock[d], w)
  OBVIOUS
<1>1. CASE d = c
  <2>1. lock'[d] = Tail(lock[d]) /\ lock[d] \in Seq(Waiters) /\ lock[d] # <<>>
          /\ Head(lock[d]) = w
    BY <1>1 DEF Types, Released, Holds, Waiters
  <2> QED BY <1>1, <2>1, TailQueue DEF TaskInv
<1>2. CASE d # c
  BY <1>2 DEF Types, TaskInv
<1> QED BY <1>1, <1>2

LEMMA TaskMain ==
  ASSUME Types, TaskInv, Connect \/ MainStep
  PROVE  TaskInv'
<1>1. CASE Connect \/ ConnectFails \/ Retry
  BY <1>1 DEF Connect, ConnectFails, Retry, requests, TaskInv
<1>2. CASE Report
  <2>1. \A d \in Conns : ~Has(lock[d], Main)
    BY <1>2 DEF Report, TaskInv
  <2>2. \A d \in Conns :
          /\ Distinct(lock'[d])
          /\ \A x : Has(lock'[d], x) <=> Has(lock[d], x) \/ (d = conn /\ x = Main)
    BY <1>2, <2>1, Joins DEF Report, Waiters
  <2> QED BY <1>2, <2>1, <2>2, MainAssumption DEF Report, requests, TaskInv
<1>3. CASE SendReport
  <2>1. \A d \in Conns :
          /\ Distinct(lock'[d])
          /\ \A x : Has(lock'[d], x) <=> Has(lock[d], x) /\ ~(d = conn /\ x = Main)
    BY <1>3, Leaves DEF SendReport
  <2> QED BY <1>3, <2>1, MainAssumption DEF SendReport, requests, TaskInv
<1> QED BY <1>1, <1>2, <1>3 DEF MainStep

LEMMA TaskPing ==
  ASSUME Types, TaskInv, NEW r \in Requests,
         PingResult(r) \/ PingError(r) \/ OtherEnds(r)
  PROVE  TaskInv'
<1>1. CASE PingResult(r)
  <2>1. \A d \in Conns : ~Has(lock[d], r)
    BY <1>1 DEF PingResult, TaskInv
  <2>2. \A d \in Conns :
          /\ Distinct(lock'[d])
          /\ \A x : Has(lock'[d], x) <=> Has(lock[d], x) \/ (d = asked[r] /\ x = r)
    BY <1>1, <2>1, Joins DEF PingResult, Waiters, ReplyConn
  <2>3. \A q \in Requests : stage'[q] = IF q = r THEN "queued" ELSE stage[q]
    BY <1>1 DEF PingResult, Types
  <2>4. /\ inbox' = inbox /\ main' = main /\ conn' = conn
        /\ asked' = asked /\ answers' = answers
    BY <1>1 DEF PingResult, conns
  <2>5. stage[r] = "running" /\ Main # r
    BY <1>1, MainAssumption DEF PingResult
  <2>6. \A q \in Requests, d \in Conns :
          Has(lock'[d], q) <=> stage'[q] = "queued" /\ asked'[q] = d
    BY <2>2, <2>3, <2>4, <2>5 DEF TaskInv
  <2>7. \A q \in Requests, d \in Conns :
          Has(inbox'[d], q) <=> stage'[q] = "inbox" /\ asked'[q] = d
    BY <2>3, <2>4, <2>5 DEF TaskInv
  <2>8. \A d \in Conns : Has(lock'[d], Main) <=> main' = "queued" /\ conn' = d
    BY <2>2, <2>4, <2>5 DEF TaskInv
  <2> QED BY <2>2, <2>3, <2>4, <2>5, <2>6, <2>7, <2>8 DEF TaskInv
<1>2. CASE PingError(r) \/ OtherEnds(r)
  <2>1. \A q \in Requests : stage'[q] = IF q = r THEN "idle" ELSE stage[q]
    BY <1>2 DEF PingError, OtherEnds, Types
  <2>2. stage[r] = "running" /\ UNCHANGED <<conns, lock, asked, answers>>
    BY <1>2 DEF PingError, OtherEnds
  <2> QED BY <2>1, <2>2 DEF conns, TaskInv
<1> QED BY <1>1, <1>2

LEMMA TaskResult ==
  ASSUME Types, TaskInv, NEW r \in Requests, NEW c \in Conns, SendResult(c, r)
  PROVE  TaskInv'
<1>1. \A d \in Conns :
        /\ Distinct(lock'[d])
        /\ \A x : Has(lock'[d], x) <=> Has(lock[d], x) /\ ~(d = c /\ x = r)
  BY Leaves DEF SendResult
<1>2. Has(lock[c], r)
  BY Leaves DEF SendResult
<1>3. asked[r] = c /\ stage[r] = "queued"
  BY <1>2 DEF TaskInv
<1>4. \A q \in Requests : /\ stage'[q] = IF q = r THEN "idle" ELSE stage[q]
                          /\ q # r => answers'[q] = answers[q]
  BY DEF SendResult, Types
<1> QED BY <1>1, <1>3, <1>4, MainAssumption DEF SendResult, conns, TaskInv

LEMMA TaskListeners ==
  ASSUME Types, TaskInv, NEW c \in Conns,
         Listener(c) \/ Break(c) \/ \E r \in Requests : Ask(c, r)
  PROVE  TaskInv'
<1>1. CASE Dispatch(c)
  <2> DEFINE r == Head(inbox[c])
  <2>1. /\ r \in Requests /\ Has(inbox[c], r) /\ Distinct(Tail(inbox[c]))
        /\ \A x : Has(Tail(inbox[c]), x) <=> Has(inbox[c], x) /\ x # r
    BY <1>1, TailQueue DEF Dispatch, Types, TaskInv
  <2>2. stage[r] = "inbox" /\ asked[r] = c
    BY <2>1 DEF TaskInv
  <2>3. \A d \in Conns : inbox'[d] = IF d = c THEN Tail(inbox[c]) ELSE inbox[d]
    BY <1>1 DEF Dispatch, Types
  <2>4. \A q \in Requests :
          stage'[q] = IF q = r THEN (IF Accepted(r) THEN "running" ELSE "idle") ELSE stage[q]
    BY <1>1 DEF Dispatch, Types
  <2> HIDE DEF r
  <2>5. \A d \in Conns : /\ Distinct(inbox'[d])
                         /\ \A x : Has(inbox'[d], x) <=> Has(inbox[d], x) /\ ~(d = c /\ x = r)
    BY <2>1, <2>3 DEF TaskInv
  <2> QED BY <1>1, <2>1, <2>2, <2>4, <2>5 DEF Dispatch, TaskInv
<1>2. CASE ListenerEnds(c)
  BY <1>2 DEF ListenerEnds, requests, TaskInv
<1>3. CASE Break(c)
  <2> PICK n \in 0..Len(inbox[c]) :
        /\ inbox' = [inbox EXCEPT ![c] = SubSeq(@, 1, n)]
        /\ stage' = [r \in Requests |->
                       IF \E i \in n + 1..Len(inbox[c]) : inbox[c][i] = r
                         THEN "idle" ELSE stage[r]]
    BY <1>3 DEF Break
  <2> DEFINE Gone(x) == \E i \in n + 1..Len(inbox[c]) : inbox[c][i] = x
  <2>1. /\ Distinct(SubSeq(inbox[c], 1, n))
        /\ \A x : Has(SubSeq(inbox[c], 1, n), x) <=> Has(inbox[c], x) /\ ~Gone(x)
    BY SubSeqQueue DEF Types, TaskInv
  <2>2. \A d \in Conns : inbox'[d] = IF d = c THEN SubSeq(inbox[c], 1, n) ELSE inbox[d]
    BY DEF Types
  <2>3. \A q \in Requests : stage'[q] = IF Gone(q) THEN "idle" ELSE stage[q]
    OBVIOUS
  <2>4. \A q : Gone(q) => Has(inbox[c], q)
    BY DEF Has, Types
  <2> HIDE DEF Gone
  <2>5. \A q \in Requests : Gone(q) => stage[q] = "inbox" /\ asked[q] = c
    BY <2>4 DEF TaskInv
  <2>6. \A d \in Conns :
          /\ Distinct(inbox'[d])
          /\ \A x : Has(inbox'[d], x) <=> Has(inbox[d], x) /\ ~(d = c /\ Gone(x))
    BY <2>1, <2>2 DEF TaskInv
  <2>7. main' = main /\ conn' = conn /\ lock' = lock /\ asked' = asked /\ answers' = answers
    BY <1>3 DEF Break
  <2> QED BY <2>3, <2>5, <2>6, <2>7 DEF TaskInv
<1>4. ASSUME NEW r \in Requests, Ask(c, r) PROVE TaskInv'
  <2>1. \A d \in Conns : ~Has(inbox[d], r) /\ ~Has(lock[d], r)
    BY <1>4 DEF Ask, TaskInv
  <2>2. /\ Distinct(Append(inbox[c], r))
        /\ \A x : Has(Append(inbox[c], r), x) <=> Has(inbox[c], x) \/ x = r
    BY <2>1, AppendQueue DEF Types, TaskInv
  <2>3. \A d \in Conns : inbox'[d] = IF d = c THEN Append(inbox[c], r) ELSE inbox[d]
    BY <1>4 DEF Ask, Types
  <2>4. \A d \in Conns : /\ Distinct(inbox'[d])
                         /\ \A x : Has(inbox'[d], x) <=> Has(inbox[d], x) \/ (d = c /\ x = r)
    BY <2>2, <2>3 DEF TaskInv
  <2>5. \A q \in Requests : /\ stage'[q] = IF q = r THEN "inbox" ELSE stage[q]
                            /\ asked'[q] = IF q = r THEN c ELSE asked[q]
                            /\ answers'[q] = IF q = r THEN <<>> ELSE answers[q]
    BY <1>4 DEF Ask, Types
  <2>6. main' = main /\ conn' = conn /\ lock' = lock
    BY <1>4 DEF Ask
  <2>7. stage[r] = "idle"
    BY <1>4 DEF Ask
  <2>8. \A q \in Requests, d \in Conns :
          Has(inbox'[d], q) <=> stage'[q] = "inbox" /\ asked'[q] = d
    BY <2>1, <2>4, <2>5 DEF TaskInv
  <2>9. \A q \in Requests, d \in Conns :
          Has(lock'[d], q) <=> stage'[q] = "queued" /\ asked'[q] = d
    BY <2>1, <2>5, <2>6 DEF TaskInv
  <2> QED BY <2>4, <2>5, <2>6, <2>8, <2>9 DEF TaskInv
<1> QED BY <1>1, <1>2, <1>3, <1>4 DEF Listener

LEMMA TaskNext == Types /\ TaskInv /\ [Next]_vars => TaskInv'
<1> SUFFICES ASSUME Types, TaskInv, [Next]_vars PROVE TaskInv'
  OBVIOUS
<1>1. CASE UNCHANGED vars
  BY <1>1 DEF TaskInv, vars
<1> QED BY <1>1, TaskMain, TaskPing, TaskResult, TaskListeners DEF Next, Target, Result

(***************************************************************************)
(* Every request, and main, is at one place only: in the inbox or at the   *)
(* lock that its stage names, and nowhere twice.                           *)
(***************************************************************************)
THEOREM TasksWhereTheyBelong == Spec => [](Types /\ TaskInv)
<1>1. Init => Types /\ TaskInv
  BY TypesInit, TaskInit
<1>2. Types /\ TaskInv /\ [Next]_vars => Types' /\ TaskInv'
  BY TypesNext, TaskNext
<1> QED BY <1>1, <1>2, PTL DEF Spec

\* A queue in which nobody is twice has room for everyone once.
LEMMA DistinctFits ==
  ASSUME NEW S, IsFiniteSet(S), NEW q \in Seq(S), Distinct(q)
  PROVE  Len(q) <= Cardinality(S)
<1>1. Len(q) \in Nat /\ q \in [1..Len(q) -> S]
  OBVIOUS
<1>2. q \in Injection(1..Len(q), S)
  BY <1>1 DEF Distinct, Injection, IsInjective
<1>3. Cardinality(1..Len(q)) <= Cardinality(S)
  BY <1>2, FS_Injection
<1>4. Cardinality(1..Len(q)) = IF 1 > Len(q) THEN 0 ELSE Len(q) - 1 + 1
  BY <1>1, FS_Interval
<1> QED BY <1>1, <1>3, <1>4

(***************************************************************************)
(* TypeOK: with finitely many requests no more wait at the lock of a       *)
(* connection than there are requests, and main: nobody asks for it twice, *)
(* and nobody who has gone is left in it.                                  *)
(***************************************************************************)
THEOREM SessionTypeCorrect ==
  ASSUME IsFiniteSet(Requests)
  PROVE  Spec => []TypeOK
<1>1. ASSUME Types, TaskInv
      PROVE  TypeOK
  <2>1. IsFiniteSet(Waiters) /\ Cardinality(Waiters) = Cardinality(Requests) + 1
    BY FS_AddElement, MainAssumption DEF Waiters
  <2>2. \A c \in Conns : lock[c] \in Seq(Waiters) /\ Distinct(lock[c])
    BY <1>1 DEF Types, TaskInv, Waiters
  <2>3. \A c \in Conns : Len(lock[c]) <= Cardinality(Waiters)
    BY <2>1, <2>2, DistinctFits
  <2> QED BY <1>1, <2>1, <2>3 DEF TypeOK
<1> QED BY <1>1, TasksWhereTheyBelong, PTL

-----------------------------------------------------------------------------
LEMMA AnswersStay ==
  ASSUME Types, AnsweredOnceWhereAsked, UNCHANGED <<asked, answers>>
  PROVE  AnsweredOnceWhereAsked'
BY DEF AnsweredOnceWhereAsked

LEMMA AnswersNext ==
  Types /\ TaskInv /\ AnsweredOnceWhereAsked /\ [Next]_vars => AnsweredOnceWhereAsked'
<1> SUFFICES ASSUME Types, TaskInv, AnsweredOnceWhereAsked, [Next]_vars
             PROVE  AnsweredOnceWhereAsked'
  OBVIOUS
<1>1. ASSUME NEW r \in Requests, NEW c \in Conns, SendResult(c, r)
      PROVE  AnsweredOnceWhereAsked'
  <2>1. asked[r] = c /\ answers[r] = <<>>
    <3>1. Has(lock[c], r)
      BY <1>1, Leaves DEF SendResult
    <3> QED BY <3>1 DEF TaskInv
  <2>2. Append(<<>>, c) = <<c>>
    OBVIOUS
  <2>3. \A q \in Requests :
          answers'[q] = answers[q] \/ (q = r /\ answers'[q] = <<c>>)
    BY <1>1, <2>1, <2>2 DEF SendResult, Types
  <2>4. Len(<<c>>) = 1 /\ <<c>>[1] = c
    OBVIOUS
  <2> QED BY <1>1, <2>1, <2>3, <2>4 DEF AnsweredOnceWhereAsked, SendResult
<1>2. ASSUME NEW r \in Requests, NEW c \in Conns, Ask(c, r)
      PROVE  AnsweredOnceWhereAsked'
  <2>1. \A q \in Requests : \/ q = r /\ answers'[q] = <<>>
                            \/ answers'[q] = answers[q] /\ asked'[q] = asked[q]
    BY <1>2 DEF Ask, Types
  <2> QED BY <2>1 DEF AnsweredOnceWhereAsked
<1>3. ASSUME UNCHANGED <<asked, answers>> PROVE AnsweredOnceWhereAsked'
  BY <1>3, AnswersStay
<1>4. CASE Connect \/ MainStep
  BY <1>3, <1>4 DEF Connect, MainStep, ConnectFails, Retry, Report, SendReport, requests
<1>5. ASSUME NEW c \in Conns, Listener(c) \/ Break(c) PROVE AnsweredOnceWhereAsked'
  BY <1>3, <1>5, Zenon DEF Listener, Dispatch, ListenerEnds, Break, requests
<1>6. ASSUME NEW r \in Requests, Target(r) \/ OtherEnds(r) PROVE AnsweredOnceWhereAsked'
  BY <1>3, <1>6 DEF Target, PingResult, PingError, OtherEnds
<1>7. CASE UNCHANGED vars
  BY <1>3, <1>7 DEF vars
<1> QED BY <1>1, <1>2, <1>4, <1>5, <1>6, <1>7 DEF Next, Result

(***************************************************************************)
(* A ping is answered at most once, and only on the connection on which it *)
(* was asked for: the task's clone of the writer outlives the connection.  *)
(***************************************************************************)
THEOREM AnsweredOnceWhereAskedAlways == Spec => []AnsweredOnceWhereAsked
<1>1. Init => AnsweredOnceWhereAsked
  BY DEF Init, AnsweredOnceWhereAsked
<1>2. Types /\ TaskInv /\ AnsweredOnceWhereAsked /\ [Next]_vars => AnsweredOnceWhereAsked'
  BY AnswersNext
<1> QED BY <1>1, <1>2, TasksWhereTheyBelong, PTL DEF Spec

LEMMA LinksNext == Types /\ OneConnectionUp /\ [Next]_vars => OneConnectionUp'
<1> SUFFICES ASSUME Types, OneConnectionUp, [Next]_vars PROVE OneConnectionUp'
  OBVIOUS
<1>1. CASE Connect
  BY <1>1 DEF Connect, Types, OneConnectionUp
<1>2. CASE ConnectFails \/ Retry \/ Report
  BY <1>2 DEF ConnectFails, Retry, Report, OneConnectionUp
<1>3. CASE SendReport
  BY <1>3 DEF SendReport, MayFail, OneConnectionUp
<1>4. ASSUME NEW c \in Conns, Break(c) PROVE OneConnectionUp'
  <2>1. link' = [link EXCEPT ![c] = "broken"] /\ main' = main /\ conn' = conn
    BY <1>4 DEF Break
  <2> QED BY <2>1 DEF Types, OneConnectionUp
<1>5. ASSUME UNCHANGED <<main, conn, link>> PROVE OneConnectionUp'
  BY <1>5 DEF OneConnectionUp
<1>6. ASSUME NEW c \in Conns, NEW r \in Requests,
             Listener(c) \/ SendResult(c, r) \/ Ask(c, r)
      PROVE  OneConnectionUp'
  BY <1>5, <1>6 DEF Listener, Dispatch, ListenerEnds, SendResult, Ask, conns
<1>7. ASSUME NEW r \in Requests, Target(r) \/ OtherEnds(r) PROVE OneConnectionUp'
  BY <1>5, <1>7 DEF Target, PingResult, PingError, OtherEnds, conns
<1>8. ASSUME NEW c \in Conns, Listener(c) PROVE OneConnectionUp'
  BY <1>5, <1>8 DEF Listener, Dispatch, ListenerEnds
<1>9. CASE UNCHANGED vars
  BY <1>5, <1>9 DEF vars
<1> QED BY <1>1, <1>2, <1>3, <1>4, <1>6, <1>7, <1>8, <1>9 DEF Next, MainStep, Result

(***************************************************************************)
(* However many connections have been left with their dispatchers running, *)
(* at most one of them still brings requests: the one main reports on.     *)
(***************************************************************************)
THEOREM OneConnectionUpAlways == Spec => []OneConnectionUp
<1>1. Init => OneConnectionUp
  BY DEF Init, OneConnectionUp
<1>2. Types /\ OneConnectionUp /\ [Next]_vars => OneConnectionUp'
  BY LinksNext
<1> QED BY <1>1, <1>2, TasksWhereTheyBelong, PTL DEF Spec

=============================================================================
