------------------------- MODULE BlockingCallsProofs -------------------------
(***************************************************************************)
(* Whose reply a ping takes, when it is given up, and how long the others  *)
(* make the first report and a TCP ping wait: for any number of pings,     *)
(* threads and identifiers, and every interleaving.                        *)
(***************************************************************************)
EXTENDS BlockingCalls, FiniteSetTheorems, TLAPS

(***************************************************************************)
(* Identifiers: the counter wraps, and two positions share an identifier   *)
(* only when they are a multiple of the number of identifiers apart.       *)
(***************************************************************************)
LEMMA IdsWrap ==
  ASSUME NEW n \in Nat
  PROVE  n % IdSpace \in Ids
BY IdSpaceAssumption DEF Ids

LEMMA NextId ==
  ASSUME NEW n \in Nat
  PROVE  Following(n % IdSpace) = (n + 1) % IdSpace
<1> DEFINE r == n % IdSpace
           q == n \div IdSpace
<1>1. /\ r \in 0..IdSpace - 1 /\ q \in Int /\ IdSpace \in Nat \ {0}
      /\ n = IdSpace * q + r
  BY IdSpaceAssumption
<1>2. (n + 1) % IdSpace = (r + 1) % IdSpace
  <2>1. n + 1 = IdSpace * q + (r + 1)
    BY <1>1
  <2> HIDE DEF q, r
  <2> QED BY <1>1, <2>1
<1> QED BY <1>2 DEF Following

LEMMA SameIdentifier ==
  ASSUME NEW a \in Int, NEW b \in Int, a % IdSpace = b % IdSpace
  PROVE  (a - b) % IdSpace = 0
BY IdSpaceAssumption

-----------------------------------------------------------------------------
(***************************************************************************)
(* The parts of TypeOK that several actions change.                        *)
(***************************************************************************)
Stages  == {"idle", "ready", "connecting", "waiting", "woken",
            "receiving", "calling", "done"}
Results == Requests \union {None, Lost, Other, Refused, Up}

LEMMA Numbers ==
  /\ Requests \subseteq Nat \ {0} /\ Requests \subseteq Tasks /\ Lookups \subseteq Tasks
  /\ Main \notin Tasks /\ Requests \cap Lookups = {}
  /\ Requests \cap {None, Lost, Other, Refused, Up} = {}
BY NRequestsAssumption DEF Requests, Tasks, Lookups, Main, None, Lost, Other, Refused, Up

LEMMA FinitePings == IsFiniteSet(Requests) /\ Cardinality(Requests) \in Nat
BY NRequestsAssumption, FS_Interval, FS_CardinalityType DEF Requests

LEMMA MoveType ==
  ASSUME TypeOK, NEW t \in Tasks, NEW to \in Stages, Move(t, to)
  PROVE  /\ stage' \in [Tasks -> Stages]
         /\ stage'[t] = to /\ \A u \in Tasks \ {t} : stage'[u] = stage[u]
BY DEF TypeOK, Move, Stages

LEMMA SpentType ==
  ASSUME TypeOK, NEW t \in Tasks \union {Main}, spent' = [spent EXCEPT ![t] = 0]
  PROVE  /\ spent' \in [Tasks \union {Main} -> 0..MaxDelay]
         /\ \A u \in Tasks \ {t} : spent'[u] = spent[u]
<1>1. spent \in [Tasks \union {Main} -> 0..MaxDelay] /\ 0 \in 0..MaxDelay
  BY TimesAssumption DEF TypeOK
<1> QED BY <1>1

LEMMA EndType ==
  ASSUME TypeOK, NEW p \in Requests, NEW res \in Results, End(p, res)
  PROVE  /\ stage' \in [Tasks -> Stages] /\ stage'[p] = "done"
         /\ \A u \in Tasks \ {p} : stage'[u] = stage[u]
         /\ result' \in [Requests -> Results] /\ result'[p] = res
         /\ \A q \in Requests \ {p} : result'[q] = result[q]
<1>1. p \in Tasks /\ Move(p, "done") /\ result' = [result EXCEPT ![p] = res]
  BY Numbers DEF End
<1>2. result \in [Requests -> Results]
  BY DEF TypeOK, Results
<1>3. "done" \in Stages
  BY DEF Stages
<1> QED BY <1>1, <1>2, <1>3, MoveType

\* The types of everything, from those of what has changed.
LEMMA TypeFrame ==
  ASSUME TypeOK, kind' = kind,
         stage' \in [Tasks -> Stages], spent' \in [Tasks \union {Main} -> 0..MaxDelay],
         left' \in [Requests -> 0..IcmpTimeout],
         ident' \in [Requests -> Ids], next_id' \in Ids,
         result' \in [Requests -> Results], replies' \subseteq Requests,
         tcp' \in [Requests -> [is : {"none", "up", "refused"}, at : 0..MaxDelay]],
         main' \in {"connecting", "lookup", "push", "sending", "asleep", "due"},
         foreign' \in 0..MaxForeign, order' \in [Requests -> 0..Cardinality(Requests)],
         delay' \in 0..MaxDelay
  PROVE  TypeOK'
BY DEF TypeOK, Stages, Results

(***************************************************************************)
(* A step that neither sends a request nor hears a packet.                 *)
(***************************************************************************)
LEMMA CallFrame ==
  ASSUME TypeOK, CallInv, UNCHANGED <<left, ident, next_id, replies, order>>,
         \A p \in Requests :
           /\ stage'[p] # "done" => result'[p] = None
           /\ stage'[p] \in {"idle", "ready"}
                => stage[p] \in {"idle", "ready"} /\ spent'[p] = spent[p]
           /\ stage'[p] = "receiving" => stage[p] = "receiving" /\ spent'[p] = spent[p]
           /\ result'[p] \in Requests => result'[p] = result[p]
  PROVE  CallInv'
<1>1. Sent' = Sent
  BY DEF Sent
<1>2. next_id' = Cardinality(Sent') % IdSpace /\ replies' \subseteq Sent'
  BY <1>1 DEF CallInv
<1> SUFFICES ASSUME NEW p \in Requests
             PROVE  /\ stage'[p] # "done" => result'[p] = None
                    /\ stage'[p] \in {"idle", "ready"} => order'[p] = 0 /\ spent'[p] = 0
                    /\ stage'[p] = "receiving"
                         => order'[p] > 0 /\ spent'[p] + left'[p] = IcmpTimeout
                    /\ order'[p] > 0 => ident'[p] = (order'[p] - 1) % IdSpace
                    /\ result'[p] \in Requests =>
                         /\ order'[p] > 0 /\ order'[result'[p]] > 0
                         /\ ident'[p] = ident'[result'[p]]
  BY <1>2 DEF CallInv
<1> QED BY DEF CallInv

LEMMA CallInit == Init => TypeOK /\ CallInv
<1> SUFFICES ASSUME Init PROVE TypeOK /\ CallInv
  OBVIOUS
<1>1. 0 \in Ids /\ 0 \in 0..IcmpTimeout /\ 0 \in 0..MaxDelay /\ 0 \in 0..MaxForeign
  BY IdSpaceAssumption, TimesAssumption DEF Ids
<1>2. IsFiniteSet(Requests) /\ Cardinality(Requests) \in Nat
  BY FinitePings
<1>3. TypeOK
  BY <1>1, <1>2 DEF Init, TypeOK, None
<1>4. Sent = {}
  BY DEF Init, Sent
<1>5. Cardinality(Sent) % IdSpace = 0
  BY <1>4, FS_EmptySet, IdSpaceAssumption
<1> QED BY <1>3, <1>5, Numbers DEF Init, CallInv, None

\* The runtime and main: threads, the driver, connections, reports.
LEMMA RuntimeStep ==
  ASSUME TypeOK, CallInv,
         DriverStep \/ MainStep \/ Arrival \/ PushEnds \/ \E t \in Tasks : Call(t)
  PROVE  TypeOK' /\ CallInv'
<1>0. stage \in [Tasks -> Stages] /\ result \in [Requests -> Results] /\ 0 \in 0..MaxDelay
  BY TimesAssumption DEF TypeOK, Stages, Results
<1>1. ASSUME NEW S \in SUBSET In({"waiting"}), Turn(S) PROVE TypeOK' /\ CallInv'
  <2>1. /\ \A t \in TcpDue : stage[t] = "connecting"
        /\ \A t \in S : stage[t] = "waiting"
    BY DEF TcpDue, In
  <2>2. stage' \in [Tasks -> Stages]
    BY <1>0, <1>1 DEF Turn, Stages
  <2>3. \A p \in Requests : \/ stage[p] \in {"connecting", "waiting"} /\ stage'[p] = "woken"
                            \/ stage'[p] = stage[p]
    BY <1>1, <2>1, Numbers DEF Turn
  <2>4. TypeOK'
    BY <1>1, <2>2, TypeFrame DEF Turn, pingVars, TypeOK, Stages, Results
  <2>5. CallInv'
    <3>1. UNCHANGED <<left, ident, next_id, replies, order, result, spent>>
      BY <1>1 DEF Turn, pingVars
    <3> QED BY <2>3, <3>1, CallFrame DEF CallInv
  <2> QED BY <2>4, <2>5
<1>2. ASSUME NEW p \in Requests, Ask(p) PROVE TypeOK' /\ CallInv'
  <2>1. stage' \in [Tasks -> Stages]
    BY <1>0, <1>2 DEF Ask, Stages
  <2>2. \A q \in Requests : \/ stage'[q] = stage[q]
                            \/ stage[q] = "idle" /\ stage'[q] = "ready"
    BY <1>2, Numbers DEF Ask
  <2>3. UNCHANGED <<left, ident, next_id, replies, order, result, spent>>
    BY <1>2 DEF Ask, pingVars
  <2>4. TypeOK'
    BY <1>2, <2>1, TypeFrame DEF Ask, pingVars, TypeOK, Stages, Results
  <2>5. CallInv'
    BY <2>2, <2>3, CallFrame DEF CallInv
  <2> QED BY <2>4, <2>5
<1>3. ASSUME NEW t \in Tasks, Call(t) PROVE TypeOK' /\ CallInv'
  <2>1. /\ stage' \in [Tasks -> Stages] /\ stage'[t] = "calling"
        /\ \A u \in Tasks \ {t} : stage'[u] = stage[u]
    BY <1>3, MoveType DEF Call, Stages
  <2>2. UNCHANGED <<left, ident, next_id, replies, order, result, spent>>
    BY <1>3 DEF Call, pingVars
  <2>3. TypeOK'
    BY <1>3, <2>1, TypeFrame DEF Call, pingVars, TypeOK, Stages, Results
  <2>4. \A p \in Requests : \/ stage'[p] = "calling" /\ stage[p] \in {"ready", "woken"}
                            \/ stage'[p] = stage[p]
    BY <1>3, <2>1, Numbers DEF Call
  <2>5. CallInv'
    BY <2>2, <2>4, CallFrame DEF CallInv
  <2> QED BY <2>3, <2>5
<1>4. CASE ConnectWs
  <2>1. stage' \in [Tasks -> Stages]
    BY <1>0, <1>4 DEF ConnectWs, Stages
  <2>2. \A p \in Requests : stage'[p] = stage[p]
    BY <1>4, Numbers DEF ConnectWs
  <2>3. UNCHANGED <<left, ident, next_id, replies, order, result, spent>>
    BY <1>4 DEF ConnectWs, pingVars
  <2>4. TypeOK'
    BY <1>4, <2>1, TypeFrame DEF ConnectWs, pingVars, TypeOK, Stages, Results
  <2>5. CallInv'
    BY <2>2, <2>3, CallFrame DEF CallInv
  <2> QED BY <2>4, <2>5
<1>5. CASE MainStep
  <2>1. UNCHANGED <<stage, left, ident, next_id, replies, order, result, spent>>
    BY <1>5 DEF MainStep, StartPush, Send, pingVars
  <2>2. TypeOK'
    BY <1>5, <2>1 DEF MainStep, StartPush, Send, pingVars, TypeOK
  <2>3. CallInv'
    BY <2>1, CallFrame DEF CallInv
  <2> QED BY <2>2, <2>3
<1>6. CASE PushEnds
  <2>1. /\ UNCHANGED <<stage, left, ident, next_id, replies, order, result>>
        /\ spent' = [spent EXCEPT ![Main] = 0]
    BY <1>6 DEF PushEnds, pingVars
  <2>2. \A p \in Requests : spent'[p] = spent[p]
    BY <2>1, Numbers DEF TypeOK
  <2>3. spent' \in [Tasks \union {Main} -> 0..MaxDelay]
    BY <1>0, <2>1 DEF TypeOK
  <2>4. TypeOK'
    BY <1>0, <1>6, <2>3 DEF PushEnds, pingVars, TypeOK
  <2>5. CallInv'
    BY <2>1, <2>2, CallFrame DEF CallInv
  <2> QED BY <2>4, <2>5
<1> QED BY <1>1, <1>2, <1>3, <1>4, <1>5, <1>6 DEF DriverStep, Turns, Arrival

\* A task starts, goes on or ends without a packet.
LEMMA TaskStep ==
  ASSUME TypeOK, CallInv, NEW p \in Requests,
         \/ Refuse(p) \/ Expire(p) \/ Connect(p) \/ TcpEnd(p)
         \/ TcpAnswer(p) \/ HttpPingEnds(p) \/ Begin(p) \/ TerminalGoesOn(p)
  PROVE  TypeOK' /\ CallInv'
<1>0. /\ stage \in [Tasks -> Stages] /\ result \in [Requests -> Results] /\ 0 \in 0..MaxDelay
      /\ p \in Tasks
  BY TimesAssumption, Numbers DEF TypeOK, Stages, Results
<1>1. ASSUME NEW res \in Results \ Requests, End(p, res),
             UNCHANGED <<kind, left, ident, next_id, replies, tcp, main, foreign, order, delay>>,
             spent' = spent \/ spent' = [spent EXCEPT ![p] = 0]
      PROVE  TypeOK' /\ CallInv'
  <2>1. /\ stage' \in [Tasks -> Stages] /\ result' \in [Requests -> Results]
        /\ stage'[p] = "done" /\ result'[p] = res
        /\ \A q \in Requests \ {p} : stage'[q] = stage[q] /\ result'[q] = result[q]
    BY <1>1, EndType, Numbers
  <2>2. /\ spent' \in [Tasks \union {Main} -> 0..MaxDelay]
        /\ \A q \in Requests \ {p} : spent'[q] = spent[q]
    <3>1. CASE spent' = spent
      BY <3>1 DEF TypeOK
    <3>2. CASE spent' = [spent EXCEPT ![p] = 0]
      BY <1>0, <3>2, SpentType, Numbers
    <3> QED BY <1>1, <3>1, <3>2
  <2>3. TypeOK'
    BY <1>1, <2>1, <2>2, TypeFrame DEF TypeOK, Stages, Results
  <2>4. CallInv'
    BY <1>1, <2>1, <2>2, CallFrame DEF CallInv
  <2> QED BY <2>3, <2>4
<1>2. CASE Refuse(p)
  BY <1>1, <1>2, Numbers DEF Refuse, Results
<1>3. CASE Expire(p)
  BY <1>1, <1>3, Numbers DEF Expire, Results
<1>4. CASE TcpEnd(p)
  <2>1. TcpResult(p) \in Results \ Requests
    BY Numbers DEF TcpResult, Results
  <2> QED BY <1>1, <1>4, <2>1 DEF TcpEnd
<1>5. CASE HttpPingEnds(p)
  BY <1>1, <1>5, Numbers DEF HttpPingEnds, Results
<1>6. CASE Connect(p)
  <2>1. /\ stage' \in [Tasks -> Stages] /\ stage'[p] = "connecting"
        /\ \A q \in Requests \ {p} : stage'[q] = stage[q]
    BY <1>0, <1>6, MoveType, Numbers DEF Connect, Stages
  <2>2. UNCHANGED <<left, ident, next_id, replies, order, result, spent>> /\ stage[p] = "ready"
    BY <1>6 DEF Connect, pingVars
  <2>3. TypeOK'
    BY <1>6, <2>1, TypeFrame DEF Connect, pingVars, TypeOK, Stages, Results
  <2>4. CallInv'
    BY <2>1, <2>2, CallFrame DEF CallInv
  <2> QED BY <2>3, <2>4
<1>7. CASE TcpAnswer(p)
  <2>1. UNCHANGED <<stage, left, ident, next_id, replies, order, result, spent>>
    BY <1>7 DEF TcpAnswer
  <2>2. spent[p] \in 0..MaxDelay
    BY Numbers DEF TypeOK
  <2>3. tcp' \in [Requests -> [is : {"none", "up", "refused"}, at : 0..MaxDelay]]
    BY <1>7, <2>2 DEF TcpAnswer, TypeOK
  <2>4. TypeOK'
    BY <1>7, <2>3 DEF TcpAnswer, TypeOK
  <2>5. CallInv'
    BY <2>1, CallFrame DEF CallInv
  <2> QED BY <2>4, <2>5
<1>8. CASE Begin(p) \/ TerminalGoesOn(p)
  <2>1. PICK to \in {"waiting", "done"} : Move(p, to)
    BY <1>8 DEF Begin, TerminalGoesOn
  <2>2. /\ stage' \in [Tasks -> Stages] /\ stage'[p] = to
        /\ \A q \in Requests \ {p} : stage'[q] = stage[q]
    BY <1>0, <2>1, MoveType, Numbers DEF Stages
  <2>3. /\ UNCHANGED <<left, ident, next_id, replies, order, result, spent>>
        /\ stage[p] \in {"ready", "calling"}
    BY <1>8 DEF Begin, TerminalGoesOn, pingVars
  <2>4. TypeOK'
    BY <1>8, <2>2, TypeFrame DEF Begin, TerminalGoesOn, pingVars, TypeOK, Stages, Results
  <2>5. CallInv'
    BY <2>2, <2>3, CallFrame DEF CallInv
  <2> QED BY <2>4, <2>5
<1> QED BY <1>2, <1>3, <1>4, <1>5, <1>6, <1>7, <1>8

LEMMA CallEndStep ==
  ASSUME TypeOK, CallInv, NEW t \in Tasks, CallEnds(t)
  PROVE  TypeOK' /\ CallInv'
<1>1. /\ stage' \in [Tasks -> Stages] /\ stage'[t] = "done" /\ stage[t] = "calling"
      /\ \A u \in Tasks \ {t} : stage'[u] = stage[u]
  BY MoveType DEF CallEnds, Timed, In, Stages
<1>2. /\ spent' \in [Tasks \union {Main} -> 0..MaxDelay]
      /\ \A u \in Tasks \ {t} : spent'[u] = spent[u]
  BY SpentType DEF CallEnds
<1>3. \A p \in Requests : \/ stage'[p] = stage[p] /\ spent'[p] = spent[p]
                          \/ stage[p] = "calling" /\ stage'[p] = "done"
  BY <1>1, <1>2, Numbers
<1>4. UNCHANGED <<left, ident, next_id, replies, order, result>>
  BY DEF CallEnds, pingVars
<1>5. TypeOK'
  BY <1>1, <1>2, TypeFrame DEF CallEnds, pingVars, TypeOK, Stages, Results
<1>6. CallInv'
  BY <1>3, <1>4, CallFrame DEF CallInv
<1> QED BY <1>5, <1>6

-----------------------------------------------------------------------------
(***************************************************************************)
(* An echo request gets the next identifier, and the next place.           *)
(***************************************************************************)
LEMMA OneMoreSent ==
  ASSUME TypeOK, NEW p \in Requests, p \notin Sent
  PROVE  /\ IsFiniteSet(Sent) /\ Cardinality(Sent) \in Nat
         /\ Cardinality(Sent \union {p}) = Cardinality(Sent) + 1
         /\ Cardinality(Sent) + 1 <= Cardinality(Requests)
         /\ Cardinality(Requests) \in Nat
<1>1. IsFiniteSet(Requests) /\ Cardinality(Requests) \in Nat
  BY FinitePings
<1>2. IsFiniteSet(Sent) /\ Cardinality(Sent) \in Nat
  BY <1>1, FS_Subset, FS_CardinalityType DEF Sent
<1>3. Cardinality(Sent \union {p}) = Cardinality(Sent) + 1
  BY <1>2, FS_AddElement
<1>4. Sent \union {p} \in SUBSET Requests
  BY DEF Sent
<1>5. Cardinality(Sent \union {p}) <= Cardinality(Requests)
  BY <1>1, <1>4, FS_Subset
<1> QED BY <1>1, <1>2, <1>3, <1>5

LEMMA SendStep ==
  ASSUME TypeOK, CallInv, NEW p \in Requests, SendRequest(p)
  PROVE  TypeOK' /\ CallInv'
<1> DEFINE n == Cardinality(Sent)
<1>1. /\ stage[p] = "ready" /\ order[p] = 0 /\ spent[p] = 0 /\ p \in Tasks
      /\ result[p] = None /\ p \notin Sent /\ next_id = n % IdSpace
  BY Numbers DEF SendRequest, CallInv, Sent
<1>2. n \in Nat /\ n + 1 <= Cardinality(Requests) /\ Cardinality(Sent \union {p}) = n + 1
      /\ Cardinality(Requests) \in Nat
  BY <1>1, OneMoreSent
<1>3. /\ order' = [order EXCEPT ![p] = n + 1] /\ ident' = [ident EXCEPT ![p] = next_id]
      /\ next_id' = Following(next_id)
      /\ UNCHANGED <<kind, spent, tcp, main, foreign, delay>>
  <2>1. order' = [order EXCEPT ![p] = 1 + n]
    BY DEF SendRequest, Sent
  <2>2. 1 + n = n + 1
    BY <1>2
  <2> HIDE DEF n
  <2> QED BY <2>1, <2>2 DEF SendRequest
<1>4. /\ order' \in [Requests -> 0..Cardinality(Requests)] /\ order'[p] = n + 1
      /\ \A q \in Requests \ {p} : order'[q] = order[q] /\ ident'[q] = ident[q]
      /\ ident'[p] = next_id /\ ident' \in [Requests -> Ids]
  BY <1>2, <1>3 DEF TypeOK
<1>5. Sent' = Sent \union {p}
  BY <1>2, <1>4 DEF Sent
<1>6. next_id' = Cardinality(Sent') % IdSpace /\ next_id' \in Ids
  BY <1>1, <1>2, <1>3, <1>5, NextId, IdsWrap
<1>7. /\ stage' \in [Tasks -> Stages] /\ result' \in [Requests -> Results]
      /\ left' \in [Requests -> 0..IcmpTimeout] /\ replies' \subseteq Requests
      /\ \A q \in Requests \ {p} :
           stage'[q] = stage[q] /\ left'[q] = left[q] /\ result'[q] = result[q]
      /\ \/ stage'[p] = "receiving" /\ left'[p] = IcmpTimeout /\ result'[p] = None
         \/ stage'[p] = "done" /\ result'[p] \notin Requests
      /\ replies' \subseteq replies \union {p}
  <2>1. /\ left \in [Requests -> 0..IcmpTimeout] /\ result \in [Requests -> Results]
        /\ replies \subseteq Requests /\ IcmpTimeout \in 0..IcmpTimeout
        /\ Lost \in Results \ Requests
    BY TimesAssumption, Numbers DEF TypeOK, Results
  <2>2. CASE /\ Move(p, "receiving") /\ left' = [left EXCEPT ![p] = IcmpTimeout]
             /\ replies' = replies \union {p} /\ UNCHANGED result
    <3>1. /\ stage' \in [Tasks -> Stages] /\ stage'[p] = "receiving"
          /\ \A q \in Requests \ {p} : stage'[q] = stage[q]
      BY <1>1, <2>2, MoveType, Numbers DEF Stages
    <3> QED BY <1>1, <2>1, <2>2, <3>1
  <2>3. CASE End(p, Lost) /\ UNCHANGED <<left, replies>>
    <3>1. /\ stage' \in [Tasks -> Stages] /\ stage'[p] = "done"
          /\ result' \in [Requests -> Results] /\ result'[p] = Lost
          /\ \A q \in Requests \ {p} : stage'[q] = stage[q] /\ result'[q] = result[q]
      BY <2>1, <2>3, EndType, Numbers
    <3> QED BY <2>1, <2>3, <3>1
  <2> QED BY <2>2, <2>3 DEF SendRequest
<1>8. TypeOK'
  BY <1>3, <1>4, <1>6, <1>7, TypeFrame DEF TypeOK
<1>9. CallInv'
  <2>1. replies' \subseteq Sent'
    BY <1>5, <1>7 DEF CallInv
  <2> SUFFICES ASSUME NEW q \in Requests
               PROVE  /\ stage'[q] # "done" => result'[q] = None
                      /\ stage'[q] \in {"idle", "ready"} => order'[q] = 0 /\ spent'[q] = 0
                      /\ stage'[q] = "receiving"
                           => order'[q] > 0 /\ spent'[q] + left'[q] = IcmpTimeout
                      /\ order'[q] > 0 => ident'[q] = (order'[q] - 1) % IdSpace
                      /\ result'[q] \in Requests =>
                           /\ order'[q] > 0 /\ order'[result'[q]] > 0
                           /\ ident'[q] = ident'[result'[q]]
    BY <1>6, <2>1 DEF CallInv
  <2>2. CASE q = p
    <3>1. result'[p] \notin Requests
      BY <1>7, Numbers
    <3>2. IcmpTimeout \in Nat
      BY TimesAssumption
    <3> QED BY <1>1, <1>2, <1>3, <1>4, <1>7, <2>2, <3>1, <3>2
  <2>3. CASE q # p
    <3>1. result[q] \in Requests => result[q] # p
      BY <1>1 DEF CallInv
    <3> QED BY <1>3, <1>4, <1>7, <2>3, <3>1 DEF CallInv
  <2> QED BY <2>2, <2>3
<1> QED BY <1>8, <1>9

-----------------------------------------------------------------------------
(***************************************************************************)
(* A packet: each ping that listens ends with it, or goes on as it was.    *)
(***************************************************************************)
IsPacket(packet) ==
  \/ packet = Unreadable
  \/ \E id \in Ids : packet = Reply(id, Other)
  \/ \E p \in replies : packet = Reply(ident[p], p)

LEMMA PacketIs ==
  ASSUME TypeOK, CallInv, NEW packet, IsPacket(packet)
  PROVE  packet.type = "reply" =>
           /\ packet.to \in Requests \union {Other}
           /\ packet.to \in Requests => packet.to \in Sent /\ packet.id = ident[packet.to]
<1>1. CASE packet = Unreadable
  BY <1>1 DEF Unreadable
<1>2. CASE \E id \in Ids : packet = Reply(id, Other)
  BY <1>2, Numbers DEF Reply
<1>3. ASSUME NEW p \in replies, packet = Reply(ident[p], p)
      PROVE  packet.to = p /\ packet.id = ident[p]
  BY <1>3 DEF Reply
<1>4. \A p \in replies : p \in Requests /\ p \in Sent
  BY DEF TypeOK, CallInv
<1> QED BY <1>1, <1>2, <1>3, <1>4 DEF IsPacket

LEMMA Listens ==
  ASSUME NEW p \in Requests
  PROVE  p \in Listening <=> stage[p] = "receiving"
BY Numbers DEF Listening, In

LEMMA LeftIsRemaining ==
  ASSUME TypeOK, CallInv, NEW p \in Requests, stage[p] = "receiving"
  PROVE  /\ left[p] \in 0..IcmpTimeout /\ spent[p] \in 0..MaxDelay
         /\ Remaining(p) = left[p] /\ spent[p] + left[p] = IcmpTimeout
<1>1. left[p] \in 0..IcmpTimeout /\ spent[p] \in 0..MaxDelay
  BY Numbers DEF TypeOK
<1>2. spent[p] + left[p] = IcmpTimeout /\ IcmpTimeout \in Nat
  BY TimesAssumption DEF CallInv
<1> QED BY <1>1, <1>2 DEF Remaining

LEMMA Heard ==
  ASSUME TypeOK, CallInv, NEW packet, IsPacket(packet), Hear(packet)
  PROVE  /\ stage' \in [Tasks -> Stages] /\ result' \in [Requests -> Results]
         /\ left' \in [Requests -> 0..IcmpTimeout]
         /\ spent' \in [Tasks \union {Main} -> 0..MaxDelay]
         /\ \A p \in Requests :
              \/ /\ stage[p] # "receiving"
                 /\ stage'[p] = stage[p] /\ spent'[p] = spent[p] /\ result'[p] = result[p]
              \/ /\ stage[p] = "receiving" /\ ~Ends(packet, p)
                 /\ stage'[p] = stage[p] /\ spent'[p] = spent[p] /\ result'[p] = result[p]
                 /\ left'[p] = left[p]
              \/ /\ stage[p] = "receiving" /\ Ends(packet, p) /\ stage'[p] = "done"
                 /\ result'[p] = IF IsAnswer(packet, p) THEN packet.to ELSE Lost
<1> DEFINE ended == {p \in Listening : Ends(packet, p)}
<1>0. /\ stage \in [Tasks -> Stages] /\ result \in [Requests -> Results]
      /\ spent \in [Tasks \union {Main} -> 0..MaxDelay]
      /\ 0 \in 0..IcmpTimeout /\ 0 \in 0..MaxDelay /\ Requests \subseteq Tasks
  BY TimesAssumption, Numbers DEF TypeOK, Stages, Results
<1>1. /\ stage' = [t \in Tasks |-> IF t \in ended THEN "done" ELSE stage[t]]
      /\ result' = [p \in Requests |-> IF p \notin ended THEN result[p]
                                    ELSE IF IsAnswer(packet, p) THEN packet.to ELSE Lost]
      /\ left' = [p \in Requests |-> IF p \in ended THEN 0
                                  ELSE IF p \in Listening THEN Remaining(p) ELSE 0]
      /\ spent' = [t \in Tasks \union {Main} |-> IF t \in ended THEN 0 ELSE spent[t]]
  BY <1>0 DEF Hear
<1>2. \A p \in Requests : p \in ended <=> stage[p] = "receiving" /\ Ends(packet, p)
  BY Listens
<1> HIDE DEF ended
<1>3. stage' \in [Tasks -> Stages] /\ spent' \in [Tasks \union {Main} -> 0..MaxDelay]
  BY <1>0, <1>1 DEF Stages
<1>4. \A p \in Requests : IsAnswer(packet, p) => packet.to \in Results
  BY PacketIs DEF IsAnswer, Results
<1>5. result' \in [Requests -> Results]
  BY <1>0, <1>1, <1>4 DEF Results
<1>6. \A p \in Requests : p \in Listening => Remaining(p) = left[p] /\ left[p] \in 0..IcmpTimeout
  BY Listens, LeftIsRemaining
<1>7. left' \in [Requests -> 0..IcmpTimeout]
  BY <1>0, <1>1, <1>6
<1>8. ASSUME NEW p \in Requests
      PROVE  \/ /\ stage[p] # "receiving"
                /\ stage'[p] = stage[p] /\ spent'[p] = spent[p] /\ result'[p] = result[p]
             \/ /\ stage[p] = "receiving" /\ ~Ends(packet, p)
                /\ stage'[p] = stage[p] /\ spent'[p] = spent[p] /\ result'[p] = result[p]
                /\ left'[p] = left[p]
             \/ /\ stage[p] = "receiving" /\ Ends(packet, p) /\ stage'[p] = "done"
                /\ result'[p] = IF IsAnswer(packet, p) THEN packet.to ELSE Lost
  <2>1. p \in Tasks
    BY <1>0
  <2>2. CASE p \notin ended
    <3>1. stage'[p] = stage[p] /\ spent'[p] = spent[p] /\ result'[p] = result[p]
      BY <1>1, <2>1, <2>2
    <3>2. stage[p] = "receiving" => left'[p] = left[p]
      BY <1>1, <1>6, <2>2, Listens
    <3> QED BY <1>2, <2>2, <3>1, <3>2
  <2>3. CASE p \in ended
    BY <1>1, <1>2, <2>1, <2>3
  <2> QED BY <2>2, <2>3
<1> QED BY <1>3, <1>5, <1>7, <1>8

LEMMA HearStep ==
  ASSUME TypeOK, CallInv, NEW packet, IsPacket(packet), Hear(packet),
         UNCHANGED <<kind, ident, next_id, tcp, main, order, delay>>,
         foreign' \in 0..MaxForeign, replies' \subseteq replies
  PROVE  TypeOK' /\ CallInv'
<1>1. TypeOK'
  BY Heard, TypeFrame DEF TypeOK
<1>2. Sent' = Sent
  BY DEF Sent
<1>3. next_id' = Cardinality(Sent') % IdSpace /\ replies' \subseteq Sent'
  BY <1>2 DEF CallInv
<1> SUFFICES ASSUME NEW p \in Requests
             PROVE  /\ stage'[p] # "done" => result'[p] = None
                    /\ stage'[p] \in {"idle", "ready"} => order'[p] = 0 /\ spent'[p] = 0
                    /\ stage'[p] = "receiving"
                         => order'[p] > 0 /\ spent'[p] + left'[p] = IcmpTimeout
                    /\ order'[p] > 0 => ident'[p] = (order'[p] - 1) % IdSpace
                    /\ result'[p] \in Requests =>
                         /\ order'[p] > 0 /\ order'[result'[p]] > 0
                         /\ ident'[p] = ident'[result'[p]]
  BY <1>1, <1>3 DEF CallInv
<1>4. CASE /\ stage'[p] = stage[p] /\ spent'[p] = spent[p] /\ result'[p] = result[p]
           /\ stage[p] = "receiving" => left'[p] = left[p]
  BY <1>4 DEF CallInv
<1>5. CASE /\ stage[p] = "receiving" /\ stage'[p] = "done"
           /\ result'[p] = IF IsAnswer(packet, p) THEN packet.to ELSE Lost
  <2>1. order[p] > 0
    BY <1>5 DEF CallInv
  <2>2. result'[p] \in Requests =>
          IsAnswer(packet, p) /\ result'[p] = packet.to
    BY <1>5, Numbers
  <2>3. result'[p] \in Requests => result'[p] \in Sent /\ ident[p] = ident[result'[p]]
    BY <2>2, PacketIs DEF IsAnswer
  <2> QED BY <1>5, <2>1, <2>3 DEF CallInv, Sent
<1> QED BY <1>4, <1>5, Heard

(***************************************************************************)
(* Time: what listens has some of its limit left, or would have ended.     *)
(***************************************************************************)
LEMMA TickStep ==
  ASSUME TypeOK, CallInv, Tick, IcmpTimeout <= MaxDelay
  PROVE  TypeOK' /\ CallInv'
<1>0. IcmpTimeout \in Nat /\ MaxDelay \in Nat
  BY TimesAssumption
<1>1. \A n \in 0..MaxDelay : Later(n) \in 0..MaxDelay
  BY <1>0 DEF Later
<1>2. /\ spent \in [Tasks \union {Main} -> 0..MaxDelay] /\ left \in [Requests -> 0..IcmpTimeout]
      /\ delay \in 0..MaxDelay
      /\ main \in {"connecting", "lookup", "push", "sending", "asleep", "due"}
  BY DEF TypeOK
<1>3. spent' = [t \in Tasks \union {Main} |-> IF t \in Running THEN Later(spent[t]) ELSE spent[t]]
  BY <1>2 DEF Tick
<1>4. left' = [p \in Requests |-> IF p \in Listening THEN left[p] - 1 ELSE left[p]]
  BY DEF Tick
<1>5. \A p \in Requests : p \in Listening => left[p] > 0
  BY <1>0, <1>2 DEF Tick, Busy
<1>6. spent' \in [Tasks \union {Main} -> 0..MaxDelay] /\ left' \in [Requests -> 0..IcmpTimeout]
  BY <1>0, <1>1, <1>2, <1>3, <1>4, <1>5
<1>7. /\ delay' \in 0..MaxDelay
      /\ main' \in {"connecting", "lookup", "push", "sending", "asleep", "due"}
      /\ UNCHANGED <<kind, stage, ident, next_id, result, replies, tcp, foreign, order>>
  BY <1>1, <1>2 DEF Tick
<1>8. TypeOK'
  BY <1>6, <1>7 DEF TypeOK
<1>9. CallInv'
  <2>1. Sent' = Sent
    BY <1>7 DEF Sent
  <2>2. next_id' = Cardinality(Sent') % IdSpace /\ replies' \subseteq Sent'
    BY <1>7, <2>1 DEF CallInv
  <2> SUFFICES ASSUME NEW p \in Requests
               PROVE  /\ stage[p] \in {"idle", "ready"} => spent'[p] = spent[p]
                      /\ stage[p] = "receiving" => spent'[p] + left'[p] = IcmpTimeout
    BY <1>7, <2>2 DEF CallInv
  <2>3. p \in Tasks /\ p \in Requests /\ p \notin Lookups /\ p # Main
    BY Numbers
  <2>4. CASE stage[p] \in {"idle", "ready"}
    <3>1. p \notin Running
      BY <2>3, <2>4, Listens DEF Running, Timed, In, TcpPings
    <3> QED BY <1>3, <2>3, <2>4, <3>1
  <2>5. CASE stage[p] = "receiving"
    <3>1. p \in Listening /\ p \in Running
      BY <2>5, Listens DEF Running
    <3>2. /\ left[p] \in 0..IcmpTimeout /\ spent[p] \in 0..MaxDelay
          /\ spent[p] + left[p] = IcmpTimeout /\ left[p] > 0
      BY <1>5, <2>5, <3>1, LeftIsRemaining
    <3>3. Later(spent[p]) = spent[p] + 1
      BY <1>0, <3>2 DEF Later
    <3>4. spent'[p] = spent[p] + 1 /\ left'[p] = left[p] - 1
      BY <1>3, <1>4, <2>3, <3>1, <3>3
    <3> QED BY <1>0, <2>5, <3>2, <3>4
  <2> QED BY <2>4, <2>5
<1> QED BY <1>8, <1>9

LEMMA PacketStep ==
  ASSUME TypeOK, CallInv,
         \/ \E p \in Requests : Answer(p)
         \/ Foreign(Unreadable) \/ \E id \in Ids : Foreign(Reply(id, Other))
  PROVE  TypeOK' /\ CallInv'
<1>0. foreign \in 0..MaxForeign /\ MaxForeign \in Nat
  BY TimesAssumption DEF TypeOK
<1>1. ASSUME NEW p \in Requests, Answer(p) PROVE TypeOK' /\ CallInv'
  <2>1. IsPacket(Reply(ident[p], p)) /\ Hear(Reply(ident[p], p))
    BY <1>1 DEF Answer, IsPacket
  <2> QED BY <1>0, <1>1, <2>1, HearStep DEF Answer
<1>2. ASSUME NEW packet, IsPacket(packet), Foreign(packet) PROVE TypeOK' /\ CallInv'
  <2>1. foreign' \in 0..MaxForeign
    BY <1>0, <1>2 DEF Foreign
  <2> QED BY <1>2, <2>1, HearStep DEF Foreign
<1>3. IsPacket(Unreadable) /\ \A id \in Ids : IsPacket(Reply(id, Other))
  BY DEF IsPacket
<1> QED BY <1>1, <1>2, <1>3

(***************************************************************************)
(* The history variables measure up to MaxDelay: enough for a time limit.  *)
(***************************************************************************)
LimitIsMeasured == IcmpTimeout <= MaxDelay

LEMMA CallNext ==
  ASSUME TypeOK, CallInv, [Next]_vars, LimitIsMeasured
  PROVE  TypeOK' /\ CallInv'
<1>1. CASE UNCHANGED vars
  <2>1. TypeOK'
    BY <1>1 DEF vars, TypeOK
  <2>2. CallInv'
    BY <1>1, CallFrame DEF vars, CallInv
  <2> QED BY <2>1, <2>2
<1>2. CASE \E t \in Tasks : ThreadStep(t)
  BY <1>2, TaskStep, SendStep, RuntimeStep DEF ThreadStep, PingStep
<1>3. CASE CallEnd
  BY <1>3, RuntimeStep, CallEndStep DEF CallEnd
<1>4. CASE DriverStep \/ MainStep \/ Arrival
  BY <1>4, RuntimeStep
<1>5. CASE Network
  BY <1>5, TaskStep, PacketStep DEF Network
<1>6. CASE Tick
  BY <1>6, TickStep DEF LimitIsMeasured
<1> QED BY <1>1, <1>2, <1>3, <1>4, <1>5, <1>6 DEF Next

(***************************************************************************)
(* The types of the blocking calls: identifiers stay below 2^16 when the   *)
(* counter wraps, no receive is armed with a negative time, and a ping     *)
(* ends at most once with one of the results there are.                    *)
(***************************************************************************)
THEOREM CallsTypeCorrect ==
  ASSUME LimitIsMeasured
  PROVE  Spec => [](TypeOK /\ CallInv)
<1>1. Init => TypeOK /\ CallInv
  BY CallInit
<1>2. TypeOK /\ CallInv /\ [Next]_vars => TypeOK' /\ CallInv'
  BY CallNext
<1> QED BY <1>1, <1>2, PTL DEF Spec

(***************************************************************************)
(* OwnReply: the answer a ping accepts by its identifier alone is its own, *)
(* or that to an echo request a multiple of IdSpace before or after it, or *)
(* one to another program.                                                 *)
(***************************************************************************)
THEOREM OwnReplyAlways ==
  ASSUME LimitIsMeasured
  PROVE  Spec => []OwnReply
<1>1. ASSUME TypeOK, CallInv
      PROVE  OwnReply
  <2> SUFFICES ASSUME NEW p \in Requests, NEW q \in Requests, result[p] = q
               PROVE  (order[p] - order[q]) % IdSpace = 0
    BY DEF OwnReply
  <2>1. order[p] \in Nat /\ order[q] \in Nat
    BY <1>1, FinitePings DEF TypeOK
  <2>2. (order[p] - 1) % IdSpace = (order[q] - 1) % IdSpace
    BY <1>1 DEF CallInv
  <2>3. ((order[p] - 1) - (order[q] - 1)) % IdSpace = 0
    BY <2>1, <2>2, SameIdentifier
  <2>4. (order[p] - 1) - (order[q] - 1) = order[p] - order[q]
    BY <2>1
  <2> QED BY <2>3, <2>4
<1> QED BY <1>1, CallsTypeCorrect, PTL

(***************************************************************************)
(* Whatever packets it passes over, a ping holds its thread no longer than *)
(* its time limit.                                                         *)
(***************************************************************************)
THEOREM ThreadHeldNoLonger ==
  ASSUME LimitIsMeasured
  PROVE  Spec => [](\A p \in Requests : stage[p] = "receiving" => spent[p] <= IcmpTimeout)
<1>1. ASSUME TypeOK, CallInv
      PROVE  \A p \in Requests : stage[p] = "receiving" => spent[p] <= IcmpTimeout
  <2> SUFFICES ASSUME NEW p \in Requests, stage[p] = "receiving"
               PROVE  spent[p] <= IcmpTimeout
    OBVIOUS
  <2>1. /\ left[p] \in 0..IcmpTimeout /\ spent[p] \in 0..MaxDelay
        /\ spent[p] + left[p] = IcmpTimeout /\ IcmpTimeout \in Nat
    BY <1>1, LeftIsRemaining, TimesAssumption
  <2> QED BY <2>1
<1> QED BY <1>1, CallsTypeCorrect, PTL

(***************************************************************************)
(* GivenUpAtLimit: a ping that listens is given up at its time limit or at *)
(* a packet that cannot be parsed, whatever else is heard.                 *)
(***************************************************************************)
THEOREM GivenUpAtLimitAlways ==
  ASSUME LimitIsMeasured
  PROVE  Spec => GivenUpAtLimit
<1> DEFINE Kept == \A p \in Requests :
                     (stage[p] = "receiving" /\ result'[p] = Lost)
                       => (spent[p] = IcmpTimeout \/ Foreign(Unreadable))
<1>1. ASSUME TypeOK, CallInv, [Next]_vars
      PROVE  [Kept]_vars
  <2> SUFFICES ASSUME Next, NEW p \in Requests, stage[p] = "receiving", result'[p] = Lost,
                      ~Foreign(Unreadable)
               PROVE  spent[p] = IcmpTimeout
    BY <1>1
  <2>1. /\ result[p] # Lost /\ p \in Tasks
        /\ left[p] \in 0..IcmpTimeout /\ spent[p] \in 0..MaxDelay
        /\ Remaining(p) = left[p] /\ spent[p] + left[p] = IcmpTimeout
        /\ IcmpTimeout \in Nat
    BY <1>1, LeftIsRemaining, Numbers, TimesAssumption DEF CallInv, None, Lost
  <2>2. ASSUME NEW packet, IsPacket(packet), Hear(packet), packet.type # "unreadable"
        PROVE  spent[p] = IcmpTimeout
    <3>1. Ends(packet, p) /\ ~IsAnswer(packet, p)
      <4>1. IsAnswer(packet, p) => packet.to # Lost
        BY <1>1, <2>2, PacketIs, Numbers DEF IsAnswer, Lost, Other
      <4> QED BY <1>1, <2>1, <2>2, <4>1, Heard
    <3> QED BY <2>1, <2>2, <3>1 DEF Ends
  <2>3. CASE \E q \in Requests : Answer(q)
    <3>1. PICK q \in Requests : Answer(q)
      BY <2>3
    <3>2. IsPacket(Reply(ident[q], q)) /\ Hear(Reply(ident[q], q))
      BY <3>1 DEF Answer, IsPacket
    <3>3. Reply(ident[q], q).type # "unreadable"
      BY DEF Reply
    <3> QED BY <2>2, <3>2, <3>3
  <2>4. CASE \E id \in Ids : Foreign(Reply(id, Other))
    <3>1. PICK id \in Ids : Foreign(Reply(id, Other))
      BY <2>4
    <3>2. IsPacket(Reply(id, Other)) /\ Hear(Reply(id, Other))
      BY <3>1 DEF Foreign, IsPacket
    <3>3. Reply(id, Other).type # "unreadable"
      BY DEF Reply
    <3> QED BY <2>2, <3>2, <3>3
  <2>5. ASSUME NEW q \in Requests, NEW res \in Results, End(q, res), stage[q] # "receiving"
        PROVE  FALSE
    <3>1. result'[p] = result[p]
      BY <1>1, <2>5, EndType
    <3> QED BY <2>1, <3>1
  <2>6. CASE \E q \in Requests : Expire(q)
    <3>1. PICK q \in Requests : Expire(q)
      BY <2>6
    <3>2. CASE q = p
      BY <2>1, <3>1, <3>2 DEF Expire
    <3>3. CASE q # p
      <4>1. Lost \in Results
        BY DEF Results
      <4>2. result'[p] = result[p]
        BY <1>1, <3>1, <3>3, <4>1, EndType DEF Expire
      <4> QED BY <2>1, <4>2
    <3> QED BY <3>2, <3>3
  <2>7. ASSUME NEW q \in Requests, Refuse(q) \/ TcpEnd(q) \/ HttpPingEnds(q)
        PROVE  FALSE
    <3>1. TcpResult(q) \in Results /\ {Refused, Up, Lost} \subseteq Results
      BY DEF TcpResult, Results
    <3> QED BY <2>5, <2>7, <3>1 DEF Refuse, TcpEnd, HttpPingEnds
  <2>8. ASSUME NEW q \in Requests, SendRequest(q)
        PROVE  FALSE
    <3>1. Lost \in Results
      BY DEF Results
    <3>2. UNCHANGED result \/ End(q, Lost)
      BY <2>8 DEF SendRequest
    <3> QED BY <2>1, <2>5, <2>8, <3>1, <3>2 DEF SendRequest
  <2>9. ASSUME UNCHANGED result
        PROVE  FALSE
    BY <2>1, <2>9
  <2>10. CASE \E t \in Tasks : ThreadStep(t)
    BY <2>6, <2>7, <2>8, <2>9, <2>10
    DEF ThreadStep, PingStep, Connect, Begin, Call, pingVars
  <2>11. CASE CallEnd \/ DriverStep \/ MainStep \/ Arrival
    BY <2>9, <2>11 DEF CallEnd, PushEnds, CallEnds, DriverStep, ConnectWs, Turns, Turn,
                       MainStep, StartPush, Send, Arrival, Ask, pingVars
  <2>12. CASE Network
    BY <2>3, <2>4, <2>7, <2>9, <2>12 DEF Network, TcpAnswer, TerminalGoesOn, pingVars
  <2>13. CASE Tick
    BY <2>9, <2>13 DEF Tick
  <2> QED BY <2>10, <2>11, <2>12, <2>13 DEF Next
<1> QED BY <1>1, CallsTypeCorrect, PTL DEF Spec, GivenUpAtLimit

-----------------------------------------------------------------------------
(***************************************************************************)
(* Counting the time that tasks have held a thread.                        *)
(***************************************************************************)
LEMMA WorkFinite ==
  ASSUME NEW S, IsFiniteSet(S), NEW held
  PROVE  IsFiniteSet(Work(S, held)) /\ Cardinality(Work(S, held)) \in Nat
<1>1. IsFiniteSet(1..MaxDelay)
  BY TimesAssumption, FS_Interval
<1>2. IsFiniteSet(S \X (1..MaxDelay))
  BY <1>1, FS_Product
<1>3. Work(S, held) \in SUBSET (S \X (1..MaxDelay))
  BY DEF Work
<1> QED BY <1>2, <1>3, FS_Subset, FS_CardinalityType

LEMMA WorkGrows ==
  ASSUME NEW S, IsFiniteSet(S), NEW h, NEW g,
         \A t \in S : h[t] \in Int /\ g[t] \in Int /\ h[t] <= g[t]
  PROVE  Cardinality(Work(S, h)) <= Cardinality(Work(S, g))
<1>1. Work(S, h) \in SUBSET Work(S, g)
  <2> SUFFICES ASSUME NEW w \in Work(S, h) PROVE w \in Work(S, g)
    OBVIOUS
  <2>1. w \in S \X (1..MaxDelay) /\ w[1] \in S /\ w[2] \in Int /\ w[2] <= h[w[1]]
    BY DEF Work
  <2>2. w[2] <= g[w[1]]
    BY <2>1
  <2> QED BY <2>1, <2>2 DEF Work
<1> QED BY <1>1, WorkFinite, FS_Subset

\* When everyone in T holds a thread for one tick more, that is |T| ticks more.
LEMMA WorkAdds ==
  ASSUME NEW S, IsFiniteSet(S), NEW T \in SUBSET S, NEW h, NEW g,
         \A t \in S : h[t] \in Nat /\ g[t] \in 0..MaxDelay /\ h[t] <= g[t],
         \A t \in T : g[t] = h[t] + 1
  PROVE  Cardinality(Work(S, h)) + Cardinality(T) <= Cardinality(Work(S, g))
<1> DEFINE W == Work(S, h)
           V == Work(S, g)
           f == [t \in T |-> <<t, g[t]>>]
<1>1. IsFiniteSet(W) /\ IsFiniteSet(V) /\ Cardinality(W) \in Nat /\ Cardinality(V) \in Nat
  BY WorkFinite
<1>2. V \cap W = W
  <2> SUFFICES ASSUME NEW w \in W PROVE w \in V
    OBVIOUS
  <2>1. w \in S \X (1..MaxDelay) /\ w[1] \in S /\ w[2] \in Int /\ w[2] <= h[w[1]]
    BY DEF Work
  <2>2. w[2] <= g[w[1]]
    BY <2>1, TimesAssumption
  <2> QED BY <2>1, <2>2 DEF Work
<1> HIDE DEF W, V
<1>3. IsFiniteSet(V \ W) /\ Cardinality(V \ W) = Cardinality(V) - Cardinality(W)
  <2>1. IsFiniteSet(V \ W) /\ Cardinality(V \ W) = Cardinality(V) - Cardinality(V \cap W)
    BY <1>1, FS_Difference
  <2> QED BY <1>2, <2>1
<1>4. \A t \in T : <<t, g[t]>> \in V \ W
  <2> SUFFICES ASSUME NEW t \in T PROVE <<t, g[t]>> \in V \ W
    OBVIOUS
  <2>1. t \in S /\ g[t] \in 1..MaxDelay /\ h[t] \in Nat /\ g[t] = h[t] + 1
    BY TimesAssumption
  <2>2. <<t, g[t]>> \in S \X (1..MaxDelay)
    BY <2>1
  <2>3. <<t, g[t]>>[1] = t /\ <<t, g[t]>>[2] = g[t] /\ g[t] <= g[t] /\ ~(g[t] <= h[t])
    BY <2>1
  <2> QED BY <2>2, <2>3 DEF W, V, Work
<1>5. f \in Injection(T, V \ W)
  <2>1. f \in [T -> V \ W]
    BY <1>4
  <2>2. \A a, b \in T : f[a] = f[b] => a = b
    OBVIOUS
  <2> QED BY <2>1, <2>2 DEF Injection, IsInjective
<1>6. IsFiniteSet(T) /\ Cardinality(T) <= Cardinality(V \ W)
  BY <1>3, <1>5, FS_Injection
<1>7. Cardinality(T) \in Nat
  BY <1>6, FS_CardinalityType
<1>8. Cardinality(W) + Cardinality(T) <= Cardinality(V)
  BY <1>1, <1>3, <1>6, <1>7
<1> QED BY <1>8 DEF W, V

\* Those in A have held a thread for at most a ticks each, those in B for b.
LEMMA WorkShared ==
  ASSUME NEW S, NEW A, NEW B, IsFiniteSet(S), IsFiniteSet(A), IsFiniteSet(B),
         NEW a \in Nat, NEW b \in Nat, NEW h,
         \A t \in S : /\ h[t] \in Int
                      /\ h[t] <= 0 \/ (t \in A /\ h[t] <= a) \/ (t \in B /\ h[t] <= b)
  PROVE  Cardinality(Work(S, h)) <= a * Cardinality(A) + b * Cardinality(B)
<1> DEFINE P == A \X (1..a)
           Q == B \X (1..b)
<1>1. /\ IsFiniteSet(1..a) /\ Cardinality(1..a) = a
      /\ IsFiniteSet(1..b) /\ Cardinality(1..b) = b
  BY FS_Interval
<1>2. /\ IsFiniteSet(P) /\ Cardinality(P) = Cardinality(A) * a
      /\ IsFiniteSet(Q) /\ Cardinality(Q) = Cardinality(B) * b
  BY <1>1, FS_Product
<1>3. Work(S, h) \in SUBSET (P \union Q)
  <2> SUFFICES ASSUME NEW w \in Work(S, h) PROVE w \in P \union Q
    OBVIOUS
  <2>1. /\ w \in S \X (1..MaxDelay) /\ w = <<w[1], w[2]>> /\ w[1] \in S
        /\ w[2] \in 1..MaxDelay /\ w[2] <= h[w[1]]
    BY DEF Work
  <2>2. h[w[1]] \in Int /\ w[2] \in Int /\ w[2] >= 1
    BY <2>1, TimesAssumption
  <2>3. ~(h[w[1]] <= 0)
    BY <2>1, <2>2
  <2>4. CASE w[1] \in A /\ h[w[1]] <= a
    <3>1. w[2] \in 1..a
      BY <2>1, <2>2, <2>4
    <3> QED BY <2>1, <2>4, <3>1
  <2>5. CASE w[1] \in B /\ h[w[1]] <= b
    <3>1. w[2] \in 1..b
      BY <2>1, <2>2, <2>5
    <3> QED BY <2>1, <2>5, <3>1
  <2> QED BY <2>1, <2>3, <2>4, <2>5
<1> HIDE DEF P, Q
<1>4. /\ Cardinality(A) \in Nat /\ Cardinality(B) \in Nat
      /\ Cardinality(P \cap Q) \in Nat /\ IsFiniteSet(P \union Q)
      /\ Cardinality(P \union Q) = Cardinality(P) + Cardinality(Q) - Cardinality(P \cap Q)
      /\ Cardinality(P) \in Nat /\ Cardinality(Q) \in Nat
  <2>1. IsFiniteSet(P \cap Q)
    <3>1. P \cap Q \in SUBSET P
      OBVIOUS
    <3> QED BY <1>2, <3>1, FS_Subset
  <2> QED BY <1>2, <2>1, FS_Union, FS_CardinalityType
<1>5. Cardinality(Work(S, h)) <= Cardinality(P \union Q) /\ Cardinality(Work(S, h)) \in Nat
  BY <1>3, <1>4, FS_Subset, WorkFinite
<1>6. Cardinality(Work(S, h)) <= Cardinality(P) + Cardinality(Q)
  BY <1>4, <1>5
<1>7. Cardinality(P) = a * Cardinality(A) /\ Cardinality(Q) = b * Cardinality(B)
  BY <1>2, <1>4
<1> QED BY <1>6, <1>7

\* What is shared by the threads.
LEMMA Shares ==
  ASSUME NEW a \in Int, NEW b \in Int
  PROVE  /\ Workers * a \in Int
         /\ a <= b => Workers * a <= Workers * b
         /\ a <= b + 1 => Workers * a <= Workers * b + Workers
BY WorkersAssumption

LEMMA ShareIsWait ==
  ASSUME NEW a \in Int, NEW x \in Nat, Workers * a <= x
  PROVE  a <= x \div Workers
<1> DEFINE q == x \div Workers
<1>1. Workers \in Nat \ {0} /\ q \in Nat /\ x < Workers * q + Workers
  BY WorkersAssumption
<1> HIDE DEF q
<1>2. a > q => Workers * a >= Workers * q + Workers
  <2>1. a > q => q + 1 <= a
    BY <1>1
  <2> QED BY <1>1, <2>1
<1>3. a <= q
  BY <1>1, <1>2
<1> QED BY <1>3 DEF q

-----------------------------------------------------------------------------
(***************************************************************************)
(* How a task moves in a step in which no time passes and no connection is *)
(* made.                                                                   *)
(***************************************************************************)
Goes(t, from, to) == stage[t] = from /\ stage'[t] = to

PingMoves(p) ==
  \/ /\ spent'[p] = spent[p]
     /\ \/ Goes(p, "idle", "ready")
        \/ kind[p] = "tcp" /\ Goes(p, "ready", "connecting")
        \/ Goes(p, "connecting", "woken") \/ Goes(p, "waiting", "woken")
        \/ kind[p] = "tcp" /\ Goes(p, "woken", "done") /\ result'[p] = TcpResult(p)
        \/ kind[p] = "icmp" /\ Goes(p, "ready", "receiving")
        \/ kind[p] = "http" /\ Goes(p, "ready", "calling")
        \/ kind[p] \in Shells /\ (Goes(p, "woken", "calling") \/ Goes(p, "ready", "waiting"))
        \/ kind[p] \in Shells /\ Goes(p, "ready", "done")
        \/ kind[p] = "terminal" /\ Goes(p, "calling", "waiting")
  \/ kind[p] = "icmp" /\ Goes(p, "ready", "done")
  \/ kind[p] # "exec" /\ Goes(p, "receiving", "done")
  \/ kind[p] # "exec" /\ Goes(p, "calling", "done")
  \/ Goes(p, "calling", "done") /\ spent'[p] = 0

LookupMoves(t) ==
  \/ Goes(t, "ready", "calling") /\ spent'[t] = spent[t]
  \/ Goes(t, "calling", "done") /\ spent'[t] = 0

Moves(t) ==
  \/ stage'[t] = stage[t] /\ spent'[t] = spent[t]
  \/ t \in Requests /\ PingMoves(t)
  \/ t \in Lookups /\ LookupMoves(t)

OnlyTasks ==
  /\ UNCHANGED <<kind, tcp, delay>> /\ spent'[Main] = spent[Main]
  /\ \/ main' = main
     \/ main = "due" /\ main' = "sending"
  /\ \A t \in Tasks : Moves(t)
  /\ \A p \in Requests : stage[p] = "done" => result'[p] = result[p]

LEMMA OnePingMoves ==
  ASSUME TypeOK, NEW p \in Requests, NEW to \in Stages, Move(p, to), PingMoves(p),
         UNCHANGED <<kind, tcp, main, delay>>,
         spent' = spent \/ spent' = [spent EXCEPT ![p] = 0],
         \A q \in Requests \ {p} : result'[q] = result[q],
         stage[p] # "done"
  PROVE  OnlyTasks
<1>1. p \in Tasks /\ Main \notin Tasks
  BY Numbers
<1>2. \A t \in Tasks \ {p} : stage'[t] = stage[t]
  BY <1>1, MoveType
<1>3. \A t \in (Tasks \union {Main}) \ {p} : spent'[t] = spent[t]
  BY <1>1 DEF TypeOK
<1>4. \A t \in Tasks : Moves(t)
  BY <1>2, <1>3 DEF Moves
<1> QED BY <1>1, <1>3, <1>4 DEF OnlyTasks

LEMMA PingEndMoves ==
  ASSUME TypeOK, NEW p \in Requests, NEW res \in Results, End(p, res), PingMoves(p),
         UNCHANGED <<kind, tcp, main, delay>>,
         spent' = spent \/ spent' = [spent EXCEPT ![p] = 0],
         stage[p] # "done"
  PROVE  OnlyTasks
<1>1. Move(p, "done") /\ "done" \in Stages
  BY DEF End, Stages
<1>2. \A q \in Requests \ {p} : result'[q] = result[q]
  BY EndType
<1> QED BY <1>1, <1>2, OnePingMoves

LEMMA PingStepMoves ==
  ASSUME TypeOK, StageInv, NEW p \in Requests,
         \/ Refuse(p) \/ SendRequest(p) \/ Expire(p) \/ Connect(p) \/ TcpEnd(p)
         \/ HttpPingEnds(p) \/ Call(p) \/ Begin(p) \/ TerminalGoesOn(p)
  PROVE  OnlyTasks
<1>0. p \in Tasks /\ p \notin Lookups /\ stage \in [Tasks -> Stages]
  BY Numbers DEF TypeOK, Stages
<1>e. ASSUME NEW res \in Results, End(p, res)
      PROVE  stage'[p] = "done" /\ result'[p] = res
  BY <1>e, EndType
<1>r. {Refused, Lost, Up} \subseteq Results /\ TcpResult(p) \in Results
  BY DEF Results, TcpResult
<1>k. stage[p] = "receiving" => kind[p] = "icmp"
  BY DEF StageInv
<1>1. CASE Refuse(p)
  <2>1. PingMoves(p)
    BY <1>e, <1>r, <1>1 DEF Refuse, PingMoves, Goes
  <2> QED BY <1>r, <1>1, <2>1, PingEndMoves DEF Refuse
<1>2. CASE Expire(p)
  <2>1. PingMoves(p)
    BY <1>e, <1>r, <1>k, <1>2 DEF Expire, PingMoves, Goes
  <2> QED BY <1>r, <1>2, <2>1, PingEndMoves DEF Expire
<1>3. CASE TcpEnd(p)
  <2>1. PingMoves(p)
    BY <1>e, <1>r, <1>3 DEF TcpEnd, PingMoves, Goes
  <2> QED BY <1>r, <1>3, <2>1, PingEndMoves DEF TcpEnd
<1>4. CASE HttpPingEnds(p)
  <2>1. PICK res \in {Up, Lost} : End(p, res)
    BY <1>4 DEF HttpPingEnds
  <2>2. PingMoves(p)
    BY <1>e, <1>r, <1>4, <2>1 DEF HttpPingEnds, PingMoves, Goes
  <2> QED BY <1>r, <1>4, <2>1, <2>2, PingEndMoves DEF HttpPingEnds
<1>5. CASE Connect(p)
  <2>1. Move(p, "connecting") /\ "connecting" \in Stages
    BY <1>5 DEF Connect, Stages
  <2>2. PingMoves(p)
    BY <1>0, <1>5, <2>1, MoveType DEF Connect, PingMoves, Goes, pingVars
  <2> QED BY <1>5, <2>1, <2>2, OnePingMoves DEF Connect, pingVars
<1>6. CASE Call(p)
  <2>1. Move(p, "calling") /\ "calling" \in Stages
    BY <1>6 DEF Call, Stages
  <2>2. PingMoves(p)
    BY <1>0, <1>6, <2>1, MoveType DEF Call, PingMoves, Goes, pingVars
  <2> QED BY <1>6, <2>1, <2>2, OnePingMoves DEF Call, pingVars
<1>7. CASE SendRequest(p)
  <2>1. CASE End(p, Lost)
    <3>1. PingMoves(p)
      BY <1>e, <1>r, <1>7, <2>1 DEF SendRequest, PingMoves, Goes
    <3> QED BY <1>r, <1>7, <2>1, <3>1, PingEndMoves DEF SendRequest
  <2>2. CASE Move(p, "receiving") /\ UNCHANGED result
    <3>1. "receiving" \in Stages
      BY DEF Stages
    <3>2. PingMoves(p)
      BY <1>0, <1>7, <2>2, <3>1, MoveType DEF SendRequest, PingMoves, Goes
    <3> QED BY <1>7, <2>2, <3>1, <3>2, OnePingMoves DEF SendRequest
  <2> QED BY <1>7, <2>1, <2>2 DEF SendRequest
<1>8. CASE Begin(p) \/ TerminalGoesOn(p)
  <2>1. PICK to \in {"waiting", "done"} : Move(p, to)
    BY <1>8 DEF Begin, TerminalGoesOn
  <2>2. to \in Stages
    BY DEF Stages
  <2>3. /\ stage'[p] = to /\ UNCHANGED <<kind, tcp, main, delay, spent, result>>
        /\ \/ stage[p] = "ready" /\ kind[p] \in Shells
           \/ stage[p] = "calling" /\ kind[p] = "terminal"
    BY <1>0, <1>8, <2>1, <2>2, MoveType DEF Begin, TerminalGoesOn, pingVars
  <2>4. PingMoves(p)
    BY <2>3 DEF PingMoves, Goes
  <2> QED BY <2>1, <2>2, <2>3, <2>4, OnePingMoves
<1> QED BY <1>1, <1>2, <1>3, <1>4, <1>5, <1>6, <1>7, <1>8

LEMMA CallStepMoves ==
  ASSUME TypeOK, StageInv, NEW t \in Tasks,
         CallEnds(t) \/ (t \in Lookups /\ Call(t))
  PROVE  OnlyTasks
<1>0. /\ Main \notin Tasks /\ {"done", "calling"} \subseteq Stages
      /\ t \in Requests \/ t \in Lookups
  BY Numbers DEF Stages, Tasks
<1>1. /\ \A u \in Tasks \ {t} : stage'[u] = stage[u]
      /\ stage'[t] = IF CallEnds(t) THEN "done" ELSE "calling"
  BY <1>0, MoveType DEF CallEnds, Call
<1>2. /\ \A u \in (Tasks \union {Main}) \ {t} : spent'[u] = spent[u]
      /\ spent'[t] = IF CallEnds(t) THEN 0 ELSE spent[t]
  BY <1>0, TimesAssumption DEF CallEnds, Call, TypeOK
<1>3. Moves(t)
  <2>1. CASE CallEnds(t)
    <3>1. stage[t] = "calling"
      BY <2>1 DEF CallEnds, Timed, In
    <3> QED BY <1>0, <1>1, <1>2, <2>1, <3>1 DEF Moves, PingMoves, LookupMoves, Goes
  <2>2. CASE ~CallEnds(t)
    <3>1. t \in Lookups /\ stage[t] \in {"ready", "woken"}
      BY <2>2 DEF Call
    <3>2. stage[t] = "ready"
      BY <3>1 DEF StageInv
    <3> QED BY <1>1, <1>2, <2>2, <3>1, <3>2 DEF Moves, LookupMoves, Goes
  <2> QED BY <2>1, <2>2
<1>4. \A u \in Tasks : Moves(u)
  BY <1>1, <1>2, <1>3 DEF Moves
<1>5. UNCHANGED <<kind, tcp, delay, main, result>>
  BY DEF CallEnds, Call, pingVars
<1> QED BY <1>0, <1>2, <1>4, <1>5 DEF OnlyTasks

LEMMA RuntimeStepMoves ==
  ASSUME TypeOK, StageInv, Turns \/ Arrival
  PROVE  OnlyTasks
<1>0. \A t \in Tasks : t \in Requests \/ t \in Lookups
  BY DEF Tasks
<1>1. CASE Turns
  <2>0. PICK S \in SUBSET In({"waiting"}) : Turn(S)
    BY <1>1 DEF Turns
  <2>1. /\ \A t \in TcpDue : stage[t] = "connecting"
        /\ \A t \in S : stage[t] = "waiting"
    BY DEF TcpDue, In
  <2>2. \A t \in Lookups : stage[t] \notin {"connecting", "waiting"}
    BY DEF StageInv
  <2>3. \A t \in Tasks : Moves(t)
    BY <1>0, <2>0, <2>1, <2>2 DEF Turn, Moves, PingMoves, Goes
  <2> QED BY <2>0, <2>3 DEF Turn, OnlyTasks, pingVars
<1>2. CASE Arrival
  <2>1. PICK p \in Requests : Ask(p)
    BY <1>2 DEF Arrival
  <2>2. \A t \in 1..p : t \in Requests
    BY NRequestsAssumption DEF Requests
  <2>3. \A t \in Tasks : Moves(t)
    BY <2>1, <2>2 DEF Ask, Moves, PingMoves, Goes
  <2> QED BY <2>1, <2>3 DEF Ask, OnlyTasks, pingVars
<1> QED BY <1>1, <1>2

LEMMA PacketMoves ==
  ASSUME TypeOK, CallInv, StageInv,
         \/ \E p \in Requests : Answer(p)
         \/ Foreign(Unreadable) \/ \E id \in Ids : Foreign(Reply(id, Other))
  PROVE  OnlyTasks
<1>1. ASSUME NEW packet, IsPacket(packet), Hear(packet), UNCHANGED <<kind, tcp, main, delay>>
      PROVE  OnlyTasks
  <2>1. \A p \in Requests :
          /\ \/ stage'[p] = stage[p] /\ spent'[p] = spent[p]
             \/ kind[p] # "exec" /\ Goes(p, "receiving", "done")
          /\ stage[p] = "done" => result'[p] = result[p]
    <3>1. \A p \in Requests : stage[p] = "receiving" => kind[p] # "exec"
      BY DEF StageInv
    <3> QED BY <1>1, <3>1, Heard DEF Goes
  <2>2. \A t \in Lookups \union {Main} : t \notin Listening
    BY Numbers DEF StageInv, Listening, In
  <2>3. \A t \in Lookups : stage'[t] = stage[t] /\ spent'[t] = spent[t]
    BY <1>1, <2>2, Numbers DEF Hear, TypeOK
  <2>4. spent'[Main] = spent[Main]
    BY <1>1, <2>2 DEF Hear, TypeOK
  <2>5. \A t \in Tasks : Moves(t)
    BY <2>1, <2>3 DEF Moves, PingMoves, Tasks
  <2> QED BY <1>1, <2>1, <2>4, <2>5 DEF OnlyTasks
<1>2. ASSUME NEW p \in Requests, Answer(p) PROVE OnlyTasks
  <2>1. IsPacket(Reply(ident[p], p)) /\ Hear(Reply(ident[p], p))
    BY <1>2 DEF Answer, IsPacket
  <2> QED BY <1>1, <1>2, <2>1 DEF Answer
<1>3. ASSUME NEW packet, IsPacket(packet), Foreign(packet) PROVE OnlyTasks
  BY <1>1, <1>3 DEF Foreign
<1>4. IsPacket(Unreadable) /\ \A id \in Ids : IsPacket(Reply(id, Other))
  BY DEF IsPacket
<1> QED BY <1>2, <1>3, <1>4

\* Every other step but those of the network, of main and of time.
LEMMA Steps ==
  ASSUME TypeOK, CallInv, StageInv, Next
  PROVE  \/ OnlyTasks
         \/ \E p \in Requests : TcpAnswer(p)
         \/ ConnectWs \/ PushEnds \/ MainStep
         \/ Tick
<1>1. CASE \E t \in Tasks : ThreadStep(t)
  <2>1. \A t \in Tasks : t \in Requests \/ t \in Lookups
    BY DEF Tasks
  <2> QED BY <1>1, <2>1, PingStepMoves, CallStepMoves DEF ThreadStep, PingStep
<1>2. CASE CallEnd
  BY <1>2, CallStepMoves DEF CallEnd
<1>3. CASE Network
  BY <1>3, PacketMoves, PingStepMoves DEF Network
<1>4. CASE DriverStep \/ Arrival
  BY <1>4, RuntimeStepMoves DEF DriverStep
<1> QED BY <1>1, <1>2, <1>3, <1>4 DEF Next

-----------------------------------------------------------------------------
(***************************************************************************)
(* Where tasks and main can be.                                            *)
(***************************************************************************)
PingStage(p) ==
  /\ stage[p] = "connecting" => kind[p] = "tcp"
  /\ stage[p] = "waiting" => kind[p] \in Shells
  /\ stage[p] = "woken" => kind[p] \in {"tcp"} \union Shells
  /\ stage[p] = "receiving" => kind[p] = "icmp"
  /\ stage[p] = "calling" => kind[p] \in {"http"} \union Shells
  /\ kind[p] = "exec" => spent[p] <= IF stage[p] = "calling" THEN HttpTimeout ELSE 0
  /\ tcp[p].is # "none" => kind[p] = "tcp" /\ stage[p] \in {"connecting", "woken", "done"}
  /\ stage[p] = "done" /\ tcp[p].is = "up" => result[p] = Up

MainStage ==
  /\ \A t \in Lookups :
       /\ stage[t] \in IF main = "lookup" THEN {"ready", "calling", "done"} ELSE {"idle", "done"}
       /\ main = "push" => stage[t] = "done"
       /\ spent[t] <= IF stage[t] = "calling" THEN HttpTimeout ELSE 0
  /\ spent[Main] <= IF main = "push" THEN HttpTimeout ELSE 0
  /\ main \notin {"lookup", "push"} => delay = 0

LEMMA StageParts == StageInv <=> (\A p \in Requests : PingStage(p)) /\ MainStage
BY DEF StageInv, PingStage, MainStage

LEMMA StagePartsNext == StageInv' <=> (\A p \in Requests : PingStage(p)') /\ MainStage'
BY DEF StageInv, PingStage, MainStage

LEMMA SpentTypes ==
  ASSUME TypeOK
  PROVE  /\ \A t \in Tasks \union {Main} : spent[t] \in Nat /\ spent[t] <= MaxDelay
         /\ \A p \in Requests : spent[p] \in Nat
         /\ \A t \in Lookups : spent[t] \in Nat
         /\ spent[Main] \in Nat /\ delay \in Nat
         /\ HttpTimeout \in Nat \ {0} /\ IcmpTimeout \in Nat \ {0} /\ MaxDelay \in Nat
<1>1. spent \in [Tasks \union {Main} -> 0..MaxDelay] /\ delay \in 0..MaxDelay
  BY DEF TypeOK
<1>2. HttpTimeout \in Nat \ {0} /\ IcmpTimeout \in Nat \ {0} /\ MaxDelay \in Nat
  BY TimesAssumption
<1>3. \A t \in Tasks \union {Main} : spent[t] \in Nat /\ spent[t] <= MaxDelay
  BY <1>1, <1>2
<1> QED BY <1>1, <1>2, <1>3, Numbers

LEMMA StageInit == Init => StageInv
<1> SUFFICES ASSUME Init PROVE StageInv
  OBVIOUS
<1>1. \A p \in Requests : PingStage(p)
  BY Numbers, TimesAssumption DEF Init, PingStage
<1>2. MainStage
  BY Numbers, TimesAssumption DEF Init, MainStage
<1> QED BY <1>1, <1>2, StageParts

LEMMA OnlyTasksStage ==
  ASSUME TypeOK, StageInv, OnlyTasks
  PROVE  StageInv'
<1>1. ASSUME NEW p \in Requests
      PROVE  PingStage(p)'
  <2>1. /\ PingStage(p) /\ Moves(p) /\ kind'[p] = kind[p] /\ tcp'[p] = tcp[p]
        /\ stage[p] = "done" => result'[p] = result[p]
        /\ p \notin Lookups
    BY StageParts, Numbers DEF OnlyTasks
  <2>2. CASE stage'[p] = stage[p] /\ spent'[p] = spent[p]
    BY <2>1, <2>2 DEF PingStage
  <2>3. CASE PingMoves(p)
    <3>1. kind[p] = "tcp" /\ tcp[p].is = "up" => TcpResult(p) = Up
      BY DEF TcpResult
    <3>2. stage'[p] = "done" =>
            \/ stage[p] = "woken" /\ result'[p] = TcpResult(p)
            \/ kind[p] # "tcp"
      BY <2>1, <2>3 DEF PingMoves, Goes, PingStage, Shells
    <3>3. kind[p] = "exec" =>
            spent'[p] <= IF stage'[p] = "calling" THEN HttpTimeout ELSE 0
      <4>1. kind[p] = "exec" =>
              \/ spent'[p] = spent[p] /\ stage[p] # "calling"
              \/ spent'[p] = 0 /\ stage'[p] = "done"
        BY <2>3 DEF PingMoves, Goes
      <4> QED BY <2>1, <4>1, SpentTypes DEF PingStage
    <3> QED BY <2>1, <2>3, <3>1, <3>2, <3>3 DEF PingStage, PingMoves, Goes, Shells
  <2> QED BY <2>1, <2>2, <2>3 DEF Moves
<1>2. MainStage'
  <2>1. MainStage
    BY StageParts
  <2>2. ASSUME NEW t \in Lookups
        PROVE  \/ stage'[t] = stage[t] /\ spent'[t] = spent[t]
               \/ main = "lookup" /\ LookupMoves(t)
    <3>1. Moves(t) /\ t \notin Requests
      BY Numbers DEF OnlyTasks
    <3> QED BY <2>1, <3>1 DEF Moves, LookupMoves, Goes, MainStage
  <2>3. ASSUME NEW t \in Lookups
        PROVE  /\ stage'[t] \in IF main' = "lookup" THEN {"ready", "calling", "done"}
                                ELSE {"idle", "done"}
               /\ main' = "push" => stage'[t] = "done"
               /\ spent'[t] <= IF stage'[t] = "calling" THEN HttpTimeout ELSE 0
    BY <2>1, <2>2, SpentTypes DEF OnlyTasks, MainStage, LookupMoves, Goes
  <2> QED BY <2>1, <2>3, SpentTypes DEF OnlyTasks, MainStage
<1> QED BY <1>1, <1>2, StagePartsNext

LEMMA MainStepStage ==
  ASSUME TypeOK, StageInv, ConnectWs \/ PushEnds \/ MainStep
  PROVE  StageInv'
<1>0. (\A p \in Requests : PingStage(p)) /\ MainStage
  BY StageParts
<1>1. \A p \in Requests : PingStage(p)'
  <2>1. \A p \in Requests : stage'[p] = stage[p] /\ spent'[p] = spent[p]
    BY Numbers DEF ConnectWs, PushEnds, MainStep, StartPush, Send, TypeOK
  <2>2. UNCHANGED <<kind, tcp, result>>
    BY DEF ConnectWs, PushEnds, MainStep, StartPush, Send, pingVars
  <2> QED BY <1>0, <2>1, <2>2 DEF PingStage
<1>2. MainStage'
  <2>1. CASE ConnectWs
    <3>1. \A t \in Lookups : stage'[t] = "ready" /\ spent[t] <= 0
      BY <1>0, <2>1, Numbers DEF ConnectWs, MainStage
    <3> QED BY <1>0, <2>1, <3>1, SpentTypes DEF ConnectWs, MainStage
  <2>2. CASE PushEnds
    <3>1. /\ \A t \in Lookups : spent'[t] = spent[t] /\ stage'[t] = "done"
          /\ spent'[Main] = 0 /\ delay' = 0 /\ main' = "sending"
      BY <1>0, <2>2, Numbers DEF PushEnds, MainStage, TypeOK
    <3> QED BY <1>0, <2>2, <3>1, SpentTypes DEF PushEnds, MainStage
  <2>3. CASE MainStep
    BY <1>0, <2>3, SpentTypes DEF MainStep, StartPush, Send, MainStage
  <2> QED BY <2>1, <2>2, <2>3
<1> QED BY <1>1, <1>2, StagePartsNext

LEMMA TcpAnswerStage ==
  ASSUME TypeOK, StageInv, NEW p \in Requests, TcpAnswer(p)
  PROVE  StageInv'
<1>1. \A q \in Requests \ {p} : tcp'[q] = tcp[q]
  BY DEF TcpAnswer, TypeOK
<1>2. (\A q \in Requests : PingStage(q)) /\ MainStage
  BY StageParts
<1>3. \A q \in Requests : PingStage(q)'
  BY <1>1, <1>2 DEF TcpAnswer, PingStage
<1>4. MainStage'
  BY <1>2 DEF TcpAnswer, MainStage
<1> QED BY <1>3, <1>4, StagePartsNext

LEMMA TickStage ==
  ASSUME TypeOK, StageInv, Tick
  PROVE  StageInv'
<1>0. (\A p \in Requests : PingStage(p)) /\ MainStage
  BY StageParts
<1>2. \A t \in Tasks \union {Main} :
        /\ t \notin Running => spent'[t] = spent[t]
        /\ spent'[t] <= spent[t] + 1
  BY SpentTypes DEF Tick, TypeOK, Later
<1>t. ASSUME NEW t \in Tasks, t \in Lookups \/ kind[t] = "exec", stage[t] = "calling"
      PROVE  spent'[t] <= HttpTimeout
  <2>1. t \in Timed
    BY <1>t DEF Timed, In
  <2>2. spent[t] < HttpTimeout
    BY <1>t, <2>1, SpentTypes DEF Tick, Busy, TimeUp
  <2>3. spent'[t] \in Nat
    BY <1>t, SpentTypes DEF Tick, TypeOK, Later
  <2> QED BY <1>2, <1>t, <2>2, <2>3, SpentTypes
<1>3. ASSUME NEW t \in Lookups
      PROVE  spent'[t] <= IF stage[t] = "calling" THEN HttpTimeout ELSE 0
  <2>0. t \in Tasks /\ t \notin Requests /\ t # Main
    BY Numbers DEF Lookups, Main
  <2>1. CASE stage[t] = "calling"
    BY <1>t, <2>0, <2>1
  <2>2. CASE stage[t] # "calling"
    <3>1. t \notin Running
      BY <1>0, <2>0, <2>2 DEF Running, Timed, Listening, In, TcpPings, MainStage
    <3> QED BY <1>0, <1>2, <2>0, <2>2, <3>1 DEF MainStage
  <2> QED BY <2>1, <2>2
<1>4. spent'[Main] <= IF main' = "push" THEN HttpTimeout ELSE 0
  <2>1. CASE main = "push"
    <3>1. spent[Main] < HttpTimeout /\ main' = "push"
      BY <2>1, SpentTypes DEF Tick, Busy, TimeUp
    <3>2. spent'[Main] \in Nat
      BY SpentTypes DEF Tick, TypeOK, Later
    <3> QED BY <1>2, <3>1, <3>2, SpentTypes
  <2>2. CASE main # "push"
    <3>1. Main \notin Running /\ main' # "push"
      BY <2>2, Numbers DEF Running, Timed, Listening, In, TcpPings, Tick
    <3> QED BY <1>0, <1>2, <2>2, <3>1 DEF MainStage
  <2> QED BY <2>1, <2>2
<1>5. MainStage'
  BY <1>0, <1>3, <1>4 DEF MainStage, Tick
<1>6. ASSUME NEW p \in Requests, kind[p] = "exec"
      PROVE  spent'[p] <= IF stage[p] = "calling" THEN HttpTimeout ELSE 0
  <2>0. p \in Tasks /\ p \notin Lookups /\ p # Main
    BY Numbers
  <2>1. CASE stage[p] = "calling"
    BY <1>6, <1>t, <2>0, <2>1
  <2>2. CASE stage[p] # "calling"
    <3>1. p \notin Running
      BY <1>0, <1>6, <2>0, <2>2 DEF Running, Timed, Listening, In, TcpPings, PingStage
    <3> QED BY <1>0, <1>2, <1>6, <2>0, <2>2, <3>1 DEF PingStage
  <2> QED BY <2>1, <2>2
<1>7. \A p \in Requests : PingStage(p)'
  BY <1>0, <1>6 DEF Tick, PingStage
<1> QED BY <1>5, <1>7, StagePartsNext

LEMMA StageNext ==
  ASSUME TypeOK, CallInv, StageInv, [Next]_vars
  PROVE  StageInv'
<1>1. CASE UNCHANGED vars
  BY <1>1 DEF vars, StageInv
<1>2. CASE Next
  BY <1>2, Steps, OnlyTasksStage, MainStepStage, TcpAnswerStage, TickStage
<1> QED BY <1>1, <1>2

-----------------------------------------------------------------------------
(***************************************************************************)
(* The time for which threads are held.                                    *)
(***************************************************************************)
AllTimed == Endless = {}
\* The clocks of the model reach the limits of both kinds of call.
LimitsAreMeasured == IcmpTimeout <= MaxDelay /\ HttpTimeout <= MaxDelay

LEMMA FiniteTasks ==
  /\ IsFiniteSet(Tasks) /\ IsFiniteSet(Lookups) /\ Cardinality(Lookups) = 2
  /\ \A t \in Lookups : IsFiniteSet(Lookups \ {t}) /\ Cardinality(Lookups \ {t}) = 1
  /\ \A S \in SUBSET Tasks : IsFiniteSet(S) /\ Cardinality(S) \in Nat
<1>1. /\ IsFiniteSet({-4}) /\ Cardinality({-4}) = 1
  BY FS_Singleton
<1>2. -6 \notin {-4} /\ Lookups = {-4} \union {-6}
  BY DEF Lookups
<1>3. IsFiniteSet(Lookups) /\ Cardinality(Lookups) = 2
  <2>1. IsFiniteSet({-4} \union {-6}) /\ Cardinality({-4} \union {-6}) = Cardinality({-4}) + 1
    BY <1>1, <1>2, FS_AddElement
  <2> QED BY <1>1, <1>2, <2>1
<1>4. \A t \in Lookups : IsFiniteSet(Lookups \ {t}) /\ Cardinality(Lookups \ {t}) = 1
  <2> SUFFICES ASSUME NEW t \in Lookups
               PROVE  IsFiniteSet(Lookups \ {t}) /\ Cardinality(Lookups \ {t}) = 1
    OBVIOUS
  <2>1. /\ IsFiniteSet(Lookups \ {t})
        /\ Cardinality(Lookups \ {t}) = Cardinality(Lookups) - 1
    BY <1>3, FS_RemoveElement
  <2> QED BY <1>3, <2>1
<1>5. IsFiniteSet(Tasks)
  BY <1>3, FinitePings, FS_Union DEF Tasks
<1>6. \A S \in SUBSET Tasks : IsFiniteSet(S) /\ Cardinality(S) \in Nat
  BY <1>5, FS_Subset, FS_CardinalityType
<1> QED BY <1>3, <1>4, <1>5, <1>6

LEMMA HeldIs ==
  ASSUME NEW t \in Tasks
  PROVE  /\ stage[t] = "done" => Held[t] = Limit(t)
         /\ stage[t] \in {"receiving", "calling"} => Held[t] = spent[t]
         /\ stage[t] \notin {"done", "receiving", "calling"} => Held[t] = 0
BY DEF Held, OnThread, In

LEMMA HeldIsNext ==
  ASSUME NEW t \in Tasks, kind' = kind
  PROVE  /\ stage'[t] = "done" => Held'[t] = Limit(t)
         /\ stage'[t] \in {"receiving", "calling"} => Held'[t] = spent'[t]
         /\ stage'[t] \notin {"done", "receiving", "calling"} => Held'[t] = 0
BY DEF Held, OnThread, In, Limit

LEMMA HeldType ==
  ASSUME TypeOK, LimitsAreMeasured, NEW t \in Tasks
  PROVE  /\ Held[t] \in 0..MaxDelay /\ Held[t] \in Nat
         /\ Limit(t) \in 0..MaxDelay /\ Limit(t) \in Nat
<1>1. spent[t] \in 0..MaxDelay /\ MaxDelay \in Nat
  BY TimesAssumption DEF TypeOK
<1>2. Limit(t) \in 0..MaxDelay
  BY TimesAssumption DEF Limit, LimitsAreMeasured
<1> QED BY <1>1, <1>2, HeldIs

LEMMA HeldTypeNext ==
  ASSUME TypeOK', LimitsAreMeasured, kind' = kind, NEW t \in Tasks
  PROVE  Held'[t] \in 0..MaxDelay /\ Held'[t] \in Nat
<1>1. spent'[t] \in 0..MaxDelay /\ MaxDelay \in Nat
  BY TimesAssumption DEF TypeOK
<1>2. Limit(t) \in 0..MaxDelay
  BY TimesAssumption DEF Limit, LimitsAreMeasured
<1> QED BY <1>1, <1>2, HeldIsNext

\* A call is over when its limit is.
LEMMA HeldWithin ==
  ASSUME TypeOK, CallInv, StageInv, AllTimed, NEW t \in Tasks
  PROVE  Held[t] <= Limit(t)
<1>1. CASE t \in Lookups
  <2>1. Limit(t) = HttpTimeout /\ spent[t] <= IF stage[t] = "calling" THEN HttpTimeout ELSE 0
    BY <1>1 DEF Limit, StageInv
  <2> QED BY <2>1, HeldIs, SpentTypes
<1>2. CASE t \in Requests
  <2>1. t \notin Lookups
    BY <1>2, Numbers
  <2>2. stage[t] = "calling" => kind[t] = "exec"
    BY <1>2 DEF AllTimed, Endless, Asked, StageInv, Shells
  <2>3. CASE stage[t] = "receiving"
    <3>1. kind[t] = "icmp" /\ Limit(t) = IcmpTimeout
      BY <1>2, <2>1, <2>3 DEF StageInv, Limit
    <3>2. spent[t] <= IcmpTimeout
      BY <1>2, <2>3, LeftIsRemaining, TimesAssumption
    <3> QED BY <2>3, <3>1, <3>2, HeldIs
  <2>4. Limit(t) \in Nat
    BY TimesAssumption DEF Limit
  <2>5. CASE stage[t] = "calling"
    BY <1>2, <2>1, <2>2, <2>5, HeldIs DEF StageInv, Limit
  <2> QED BY <2>3, <2>4, <2>5, HeldIs
<1> QED BY <1>1, <1>2 DEF Tasks

LEMMA WorkWithin ==
  ASSUME TypeOK, CallInv, StageInv, AllTimed, LimitsAreMeasured, NEW S \in SUBSET Tasks
  PROVE  /\ Cardinality(Work(S, Held)) \in Nat
         /\ Cardinality(Work(S, Held)) <= CallTime(Cardinality(S \cap Lookups))
<1> DEFINE B == Asked("exec") \union (S \cap Lookups)
<1>1. /\ IsFiniteSet(S) /\ IsFiniteSet(Asked("icmp")) /\ IsFiniteSet(B)
      /\ Cardinality(B) = Cardinality(Asked("exec")) + Cardinality(S \cap Lookups)
  <2>1. /\ S \cap Lookups \in SUBSET Tasks /\ Asked("icmp") \in SUBSET Tasks
        /\ Asked("exec") \in SUBSET Tasks /\ B \in SUBSET Tasks
    BY Numbers DEF Asked
  <2>2. Asked("exec") \cap (S \cap Lookups) = {}
    BY Numbers DEF Asked
  <2>3. /\ IsFiniteSet(Asked("exec")) /\ IsFiniteSet(S \cap Lookups)
        /\ Cardinality(Asked("exec")) \in Nat /\ Cardinality(S \cap Lookups) \in Nat
    BY <2>1, FiniteTasks
  <2>4. Cardinality(B) = Cardinality(Asked("exec")) + Cardinality(S \cap Lookups)
                           - Cardinality(Asked("exec") \cap (S \cap Lookups))
    BY <2>3, FS_Union
  <2> QED BY <2>1, <2>2, <2>3, <2>4, FiniteTasks, FS_EmptySet
<1>2. ASSUME NEW t \in S
      PROVE  /\ Held[t] \in Int
             /\ \/ Held[t] <= 0
                \/ t \in Asked("icmp") /\ Held[t] <= IcmpTimeout
                \/ t \in B /\ Held[t] <= HttpTimeout
  <2>1. t \in Tasks /\ Held[t] \in Int /\ Held[t] <= Limit(t)
    BY HeldType, HeldWithin
  <2>2. CASE t \in Requests /\ kind[t] = "icmp" /\ stage[t] # "idle"
    <3>1. t \in Asked("icmp") /\ Limit(t) = IcmpTimeout
      BY <2>2, Numbers DEF Asked, Limit
    <3> QED BY <2>1, <3>1
  <2>3. CASE t \in Requests /\ kind[t] = "exec" /\ stage[t] # "idle"
    <3>1. t \in B /\ Limit(t) = HttpTimeout
      BY <2>3, Numbers DEF Asked, Limit
    <3> QED BY <2>1, <3>1
  <2>4. CASE t \in Requests /\ kind[t] \notin {"icmp", "exec"}
    <3>1. Limit(t) = 0
      BY <2>4, Numbers DEF Limit
    <3> QED BY <2>1, <3>1
  <2>5. CASE t \in Requests /\ stage[t] = "idle"
    BY <2>1, <2>5, HeldIs
  <2>6. CASE t \in Lookups
    BY <2>1, <2>6 DEF Limit
  <2> QED BY <2>1, <2>2, <2>3, <2>4, <2>5, <2>6 DEF Tasks
<1>3. IcmpTimeout \in Nat /\ HttpTimeout \in Nat
  BY TimesAssumption
<1> HIDE DEF B
<1>4. Cardinality(Work(S, Held))
        <= IcmpTimeout * Cardinality(Asked("icmp")) + HttpTimeout * Cardinality(B)
  BY <1>1, <1>2, <1>3, WorkShared
<1> QED BY <1>1, <1>4, WorkFinite DEF CallTime

\* No step but a new connection takes any of that time back.
LEMMA HeldGrows ==
  ASSUME TypeOK, TypeOK', CallInv, StageInv, AllTimed, LimitsAreMeasured,
         kind' = kind, NEW t \in Tasks, Moves(t)
  PROVE  Held[t] <= Held'[t]
<1>1. Held[t] \in Nat /\ Held'[t] \in Nat /\ Held[t] <= Limit(t) /\ Limit(t) \in Nat
  BY HeldType, HeldTypeNext, HeldWithin
<1>2. CASE stage'[t] = "done"
  BY <1>1, <1>2, HeldIsNext
<1>3. CASE stage'[t] = stage[t] /\ spent'[t] = spent[t]
  <2>1. Held'[t] = Held[t]
    BY <1>3, HeldIs, HeldIsNext
  <2> QED BY <1>1, <2>1
<1>4. CASE stage[t] \in {"idle", "ready", "connecting", "waiting", "woken"}
  BY <1>1, <1>4, HeldIs
<1>5. ~(t \in Requests /\ kind[t] = "terminal" /\ Goes(t, "calling", "waiting"))
  BY DEF AllTimed, Endless, Asked, Goes
<1> QED BY <1>2, <1>3, <1>4, <1>5 DEF Moves, PingMoves, LookupMoves, Goes

LEMMA AskedGrows ==
  ASSUME kind' = kind, \A t \in Tasks : Moves(t), NEW k
  PROVE  Asked(k) \subseteq Asked(k)'
<1>1. \A t \in Requests : stage[t] # "idle" => stage'[t] # "idle"
  <2> SUFFICES ASSUME NEW t \in Requests, stage[t] # "idle" PROVE stage'[t] # "idle"
    OBVIOUS
  <2>1. Moves(t)
    BY Numbers
  <2> QED BY <2>1 DEF Moves, PingMoves, LookupMoves, Goes
<1> QED BY <1>1 DEF Asked

(***************************************************************************)
(* A tick: whoever is on a thread holds it for one tick more, and whoever  *)
(* waits for one finds all of them held.                                   *)
(***************************************************************************)
LEMMA TickHolds ==
  ASSUME TypeOK, TypeOK', CallInv, StageInv, AllTimed, LimitsAreMeasured, Tick
  PROVE  /\ \A t \in OnThread : Held'[t] = Held[t] + 1
         /\ \A t \in Tasks \ OnThread : Held'[t] = Held[t]
<1>0. kind' = kind /\ stage' = stage
  BY DEF Tick
<1>1. ASSUME NEW t \in OnThread
      PROVE  Held'[t] = Held[t] + 1
  <2>1. t \in Tasks /\ stage[t] \in {"receiving", "calling"}
    BY <1>1 DEF OnThread, In
  <2>2. t \in Running /\ spent[t] < MaxDelay
    <3>1. CASE t \in Requests /\ stage[t] = "receiving"
      <4>2. t \in Running /\ left[t] # 0
        BY <2>1, <3>1 DEF Running, Listening, In, Tick, Busy
      <4>3. /\ left[t] \in 0..IcmpTimeout /\ spent[t] \in 0..MaxDelay
            /\ spent[t] + left[t] = IcmpTimeout
        BY <3>1, LeftIsRemaining
      <4> QED BY <4>2, <4>3, SpentTypes DEF LimitsAreMeasured
    <3>2. CASE t \in Timed
      <4>1. t \in Running /\ spent[t] < HttpTimeout
        BY <2>1, <3>2, SpentTypes DEF Running, Tick, Busy, TimeUp
      <4> QED BY <2>1, <4>1, SpentTypes DEF LimitsAreMeasured
    <3>3. \/ t \in Requests /\ stage[t] = "receiving"
          \/ t \in Timed
      <4>1. CASE t \in Requests
        <5>1. stage[t] = "calling" => kind[t] = "exec"
          BY <4>1 DEF AllTimed, Endless, Asked, StageInv, Shells
        <5> QED BY <2>1, <4>1, <5>1 DEF Timed, In
      <4>2. CASE t \in Lookups
        BY <2>1, <4>2 DEF StageInv, Timed, In
      <4> QED BY <2>1, <4>1, <4>2 DEF Tasks
    <3> QED BY <3>1, <3>2, <3>3
  <2>3. spent'[t] = spent[t] + 1
    BY <2>1, <2>2 DEF Tick, TypeOK, Later
  <2> QED BY <1>0, <2>1, <2>3, HeldIs, HeldIsNext
<1>2. ASSUME NEW t \in Tasks \ OnThread
      PROVE  Held'[t] = Held[t]
  <2>1. stage[t] \notin {"receiving", "calling"}
    BY <1>2 DEF OnThread, In
  <2> QED BY <1>0, <2>1, HeldIs, HeldIsNext
<1> QED BY <1>1, <1>2

LEMMA TickGrows ==
  ASSUME TypeOK, TypeOK', CallInv, StageInv, AllTimed, LimitsAreMeasured, Tick
  PROVE  \A t \in Tasks : Held[t] <= Held'[t]
<1> SUFFICES ASSUME NEW t \in Tasks PROVE Held[t] <= Held'[t]
  OBVIOUS
<1>1. Held[t] \in Nat
  BY HeldType
<1> QED BY <1>1, TickHolds

LEMMA TickAdds ==
  ASSUME TypeOK, TypeOK', CallInv, StageInv, AllTimed, LimitsAreMeasured, Tick,
         NEW S \in SUBSET Tasks, OnThread \subseteq S
  PROVE  /\ Cardinality(OnThread) \in Nat
         /\ Cardinality(Work(S, Held)) + Cardinality(OnThread)
              <= Cardinality(Work(S, Held'))
<1>1. OnThread \in SUBSET Tasks
  BY DEF OnThread, In
<1>2. IsFiniteSet(S)
  BY FiniteTasks
<1>3. \A t \in S : Held[t] \in Nat /\ Held'[t] \in 0..MaxDelay /\ Held[t] <= Held'[t]
  <2>1. kind' = kind
    BY DEF Tick
  <2> QED BY <2>1, HeldType, HeldTypeNext, TickGrows
<1>4. \A t \in OnThread : Held'[t] = Held[t] + 1
  BY TickHolds
<1> QED BY <1>1, <1>2, <1>3, <1>4, FiniteTasks, WorkAdds

-----------------------------------------------------------------------------
(***************************************************************************)
(* How late the first report is.                                           *)
(***************************************************************************)
LEMMA SpentTypesNext ==
  ASSUME TypeOK'
  PROVE  /\ \A t \in Tasks \union {Main} : spent'[t] \in Nat /\ spent'[t] <= MaxDelay
         /\ \A p \in Requests : spent'[p] \in Nat
         /\ spent'[Main] \in Nat /\ delay' \in Nat
BY TimesAssumption, Numbers DEF TypeOK

LEMMA LateStays ==
  ASSUME TypeOK, TypeOK', LimitsAreMeasured, kind' = kind,
         \A u \in Tasks : Held[u] <= Held'[u], NEW t \in Lookups, Late(t),
         delay' - Held'[t] - spent'[Main] <= delay - Held[t] - spent[Main]
  PROVE  Late(t)'
<1> DEFINE S == Tasks \ {t}
<1>1. t \in Tasks /\ S \in SUBSET Tasks
  BY Numbers
<1>2. /\ Held[t] \in Nat /\ Held'[t] \in Nat
      /\ delay \in Nat /\ delay' \in Nat /\ spent[Main] \in Nat /\ spent'[Main] \in Nat
  BY <1>1, HeldType, HeldTypeNext, SpentTypes, SpentTypesNext
<1>3. /\ Cardinality(Work(S, Held)) \in Nat /\ Cardinality(Work(S, Held')) \in Nat
      /\ Cardinality(Work(S, Held)) <= Cardinality(Work(S, Held'))
  <2>1. IsFiniteSet(S)
    BY <1>1, FiniteTasks
  <2>2. \A u \in S : Held[u] \in Int /\ Held'[u] \in Int /\ Held[u] <= Held'[u]
    BY HeldType, HeldTypeNext
  <2> QED BY <2>1, <2>2, WorkFinite, WorkGrows
<1> DEFINE a == delay' - Held'[t] - spent'[Main]
           b == delay - Held[t] - spent[Main]
<1>4. a \in Int /\ b \in Int /\ a <= b
  BY <1>2
<1>5. Workers * b <= Cardinality(Work(S, Held))
  BY DEF Late
<1> SUFFICES Workers * a <= Cardinality(Work(S, Held'))
  BY DEF Late
<1> HIDE DEF a, b, S
<1> QED BY <1>3, <1>4, <1>5, Shares

\* One that waits for a thread falls behind by a tick while all are held.
LEMMA LateWaits ==
  ASSUME TypeOK, TypeOK', CallInv, StageInv, AllTimed, LimitsAreMeasured, Tick, ~FreeThread,
         NEW t \in Lookups, stage[t] = "ready", Late(t), spent'[Main] = spent[Main]
  PROVE  Late(t)'
<1> DEFINE S == Tasks \ {t}
           a == delay' - Held'[t] - spent'[Main]
           b == delay - Held[t] - spent[Main]
<1>1. t \in Tasks /\ t \notin OnThread /\ S \in SUBSET Tasks /\ OnThread \subseteq S
  BY Numbers DEF OnThread, In
<1>2. /\ Held[t] \in Nat /\ Held'[t] = Held[t]
      /\ delay \in Nat /\ delay' \in Nat /\ spent[Main] \in Nat
  BY <1>1, HeldType, TickHolds, SpentTypes, SpentTypesNext
<1>3. delay' <= delay + 1
  BY <1>2 DEF Tick, Later
<1>4. a \in Int /\ b \in Int /\ a <= b + 1
  BY <1>2, <1>3
<1>6. Cardinality(Work(S, Held)) \in Nat /\ Cardinality(Work(S, Held')) \in Nat
  BY <1>1, FiniteTasks, WorkFinite
<1>5. Cardinality(Work(S, Held)) + Workers <= Cardinality(Work(S, Held'))
  <2>1. /\ Cardinality(OnThread) \in Nat
        /\ Cardinality(Work(S, Held)) + Cardinality(OnThread) <= Cardinality(Work(S, Held'))
    BY <1>1, TickAdds
  <2>2. Workers <= Cardinality(OnThread)
    BY <2>1, WorkersAssumption DEF FreeThread
  <2> QED BY <1>6, <2>1, <2>2, WorkersAssumption
<1>7. Workers * b <= Cardinality(Work(S, Held))
  BY DEF Late
<1> SUFFICES Workers * a <= Cardinality(Work(S, Held'))
  BY DEF Late
<1> HIDE DEF a, b, S
<1> QED BY <1>4, <1>5, <1>6, <1>7, Shares, WorkersAssumption

LEMMA TickDelay ==
  ASSUME TypeOK, TypeOK', CallInv, StageInv, AllTimed, LimitsAreMeasured, Tick, DelayShare
  PROVE  DelayShare'
<1>0. kind' = kind /\ stage' = stage
  BY DEF Tick
<1>1. \A u \in Tasks : Held[u] <= Held'[u]
  BY TickGrows
<1>2. CASE main = "lookup"
  <2>1. Main \notin Running /\ main' = "lookup"
    BY <1>2, Numbers DEF Running, Timed, Listening, In, TcpPings, Tick
  <2>2. spent'[Main] = spent[Main]
    BY <2>1 DEF Tick, TypeOK
  <2>3. ASSUME NEW t \in Lookups, stage[t] # "done"
        PROVE  Late(t)'
    <3>1. t \in Tasks /\ Late(t) /\ stage[t] \in {"ready", "calling"}
      BY <1>2, <2>3, Numbers DEF DelayShare, StageInv
    <3>2. CASE stage[t] = "ready"
      <4>1. Ready # {}
        BY <3>1, <3>2 DEF Ready, In
      <4>2. ~FreeThread
        BY <4>1 DEF Tick, Busy
      <4> QED BY <2>2, <3>1, <3>2, <4>2, LateWaits
    <3>3. CASE stage[t] = "calling"
      <4>1. Held'[t] = Held[t] + 1
        BY <3>1, <3>3, TickHolds DEF OnThread, In
      <4>2. delay' <= delay + 1
        BY SpentTypes DEF Tick, Later
      <4>3. Held[t] \in Nat
        BY <3>1, HeldType
      <4>4. delay' - Held'[t] - spent'[Main] <= delay - Held[t] - spent[Main]
        BY <2>2, <4>1, <4>2, <4>3, SpentTypes, SpentTypesNext
      <4> QED BY <1>0, <1>1, <3>1, <4>4, LateStays
    <3> QED BY <3>1, <3>2, <3>3
  <2>4. \E t \in Lookups : stage[t] # "done"
    BY <1>2 DEF Tick, Busy
  <2> QED BY <1>0, <2>3, <2>4 DEF DelayShare
<1>3. CASE main = "push"
  <2>1. Main \in Running /\ main' = "push" /\ spent[Main] < HttpTimeout
    BY <1>3, SpentTypes DEF Running, Tick, Busy, TimeUp
  <2>2. spent'[Main] = spent[Main] + 1
    BY <2>1, SpentTypes DEF Tick, TypeOK, Later, LimitsAreMeasured
  <2>3. delay' <= delay + 1
    BY SpentTypes DEF Tick, Later
  <2>4. PICK t \in Lookups : Late(t)
    BY <1>3 DEF DelayShare
  <2>5. t \in Tasks /\ stage[t] = "done" /\ Held'[t] = Held[t] /\ Held[t] \in Nat
    <3>1. t \in Tasks /\ stage[t] = "done"
      BY <1>3, <2>4, Numbers DEF StageInv
    <3> QED BY <3>1, TickHolds, HeldType DEF OnThread, In
  <2>6. delay' - Held'[t] - spent'[Main] <= delay - Held[t] - spent[Main]
    BY <2>2, <2>3, <2>5, SpentTypes, SpentTypesNext
  <2>7. Late(t)'
    BY <1>0, <1>1, <2>4, <2>6, LateStays
  <2>8. \A u \in Lookups : stage'[u] = "done"
    BY <1>0, <1>3 DEF StageInv
  <2> QED BY <2>4, <2>7, <2>8 DEF DelayShare
<1>4. CASE main \notin {"lookup", "push"}
  BY <1>4 DEF Tick, DelayShare
<1> QED BY <1>2, <1>3, <1>4

LEMMA DelayFrame ==
  ASSUME TypeOK, TypeOK', LimitsAreMeasured, kind' = kind, DelayShare,
         \A u \in Tasks : Held[u] <= Held'[u],
         main' \in {"lookup", "push"} =>
           /\ main \in {"lookup", "push"}
           /\ delay' = delay /\ spent'[Main] = spent[Main],
         \A t \in Lookups : stage[t] = "done" => stage'[t] = "done"
  PROVE  DelayShare'
<1> SUFFICES ASSUME main' \in {"lookup", "push"}
             PROVE  /\ \E t \in Lookups : Late(t)'
                    /\ \A t \in Lookups : stage'[t] # "done" => Late(t)'
  BY DEF DelayShare
<1>1. ASSUME NEW t \in Lookups, Late(t) PROVE Late(t)'
  <2>1. t \in Tasks /\ Held[t] \in Nat /\ Held'[t] \in Nat /\ Held[t] <= Held'[t]
    BY HeldType, HeldTypeNext, Numbers
  <2>2. delay' - Held'[t] - spent'[Main] <= delay - Held[t] - spent[Main]
    BY <2>1, SpentTypes
  <2> QED BY <1>1, <2>2, LateStays
<1> QED BY <1>1 DEF DelayShare

-----------------------------------------------------------------------------
(***************************************************************************)
(* How long a TCP ping waits that has its connection.                      *)
(***************************************************************************)
LEMMA CallTimes ==
  ASSUME NEW n \in Nat
  PROVE  CallTime(n) \in Nat
<1>1. Asked("icmp") \in SUBSET Tasks /\ Asked("exec") \in SUBSET Tasks
  BY Numbers DEF Asked
<1>2. Cardinality(Asked("icmp")) \in Nat /\ Cardinality(Asked("exec")) \in Nat
  BY <1>1, FiniteTasks
<1>3. IcmpTimeout \in Nat /\ HttpTimeout \in Nat
  BY TimesAssumption
<1>4. IcmpTimeout * Cardinality(Asked("icmp")) \in Nat
  BY <1>2, <1>3
<1>5. HttpTimeout * (Cardinality(Asked("exec")) + n) \in Nat
  BY <1>2, <1>3
<1> QED BY <1>4, <1>5 DEF CallTime

\* The more is asked for, the longer one may wait.
LEMMA CallTimeGrows ==
  ASSUME Asked("icmp") \subseteq Asked("icmp")', Asked("exec") \subseteq Asked("exec")'
  PROVE  CallTime(2) \in Nat /\ CallTime(2)' \in Nat /\ CallTime(2) <= CallTime(2)'
<1> DEFINE a == Cardinality(Asked("icmp"))
           b == Cardinality(Asked("icmp")')
           c == Cardinality(Asked("exec"))
           d == Cardinality(Asked("exec")')
<1>1. /\ Asked("icmp") \in SUBSET Tasks /\ Asked("icmp")' \in SUBSET Tasks
      /\ Asked("exec") \in SUBSET Tasks /\ Asked("exec")' \in SUBSET Tasks
  BY Numbers DEF Asked
<1>2. IsFiniteSet(Asked("icmp")') /\ IsFiniteSet(Asked("exec")')
  BY <1>1, FiniteTasks
<1>3. a \in Nat /\ b \in Nat /\ c \in Nat /\ d \in Nat
  BY <1>1, FiniteTasks
<1>4. a <= b /\ c <= d
  BY <1>2, FS_Subset
<1>5. /\ CallTime(2) = IcmpTimeout * a + HttpTimeout * (c + 2)
      /\ CallTime(2)' = IcmpTimeout * b + HttpTimeout * (d + 2)
  BY DEF CallTime
<1> HIDE DEF a, b, c, d
<1>6. IcmpTimeout \in Nat /\ HttpTimeout \in Nat
  BY TimesAssumption
<1>7. IcmpTimeout * a \in Nat /\ IcmpTimeout * b \in Nat /\ IcmpTimeout * a <= IcmpTimeout * b
  BY <1>3, <1>4, <1>6
<1>8. /\ HttpTimeout * (c + 2) \in Nat /\ HttpTimeout * (d + 2) \in Nat
      /\ HttpTimeout * (c + 2) <= HttpTimeout * (d + 2)
  BY <1>3, <1>4, <1>6
<1> QED BY <1>5, <1>7, <1>8

LEMMA WorkOfAll ==
  ASSUME TypeOK, CallInv, StageInv, AllTimed, LimitsAreMeasured
  PROVE  /\ Cardinality(Work(Tasks, Held)) \in Nat
         /\ Cardinality(Work(Tasks, Held)) <= CallTime(2)
<1>1. Tasks \cap Lookups = Lookups
  BY Numbers
<1> QED BY <1>1, WorkWithin, FiniteTasks

\* Nothing but time makes a ping wait.
LEMMA WaitsFrame ==
  ASSUME TypeOK, TypeOK', CallInv, StageInv, AllTimed, LimitsAreMeasured, kind' = kind,
         \A u \in Tasks : Held[u] <= Held'[u],
         Asked("icmp") \subseteq Asked("icmp")', Asked("exec") \subseteq Asked("exec")',
         NEW p \in Requests, TcpWaits(p), tcp'[p] = tcp[p], spent'[p] = spent[p],
         stage[p] = "done" => stage'[p] = "done"
  PROVE  TcpWaits(p)'
<1> DEFINE w == Cardinality(Work(Tasks, Held))
           v == Cardinality(Work(Tasks, Held'))
           n == CallTime(2)
           m == CallTime(2)'
           x == spent[p] - tcp[p].at
<1>1. w <= v /\ w \in Nat /\ v \in Nat
  <2>1. \A u \in Tasks : Held[u] \in Int /\ Held'[u] \in Int /\ Held[u] <= Held'[u]
    BY HeldType, HeldTypeNext
  <2> QED BY <2>1, FiniteTasks, WorkFinite, WorkGrows
<1>2. w <= n
  BY WorkOfAll
<1>3. n <= m /\ n \in Nat /\ m \in Nat
  BY CallTimeGrows
<1>4. x \in Int
  <2>1. spent[p] \in Nat /\ tcp[p].at \in Nat
    BY TimesAssumption, Numbers DEF TypeOK
  <2> QED BY <2>1
<1>5. x <= IF stage[p] = "done" THEN n ELSE w
  BY DEF TcpWaits
<1> SUFFICES x <= IF stage'[p] = "done" THEN m ELSE v
  BY DEF TcpWaits
<1> HIDE DEF w, v, n, m, x
<1> QED BY <1>1, <1>2, <1>3, <1>4, <1>5

LEMMA TickWaits ==
  ASSUME TypeOK, TypeOK', CallInv, StageInv, AllTimed, LimitsAreMeasured, Tick,
         NEW p \in Requests, TcpWaits(p), tcp[p].is # "none"
  PROVE  TcpWaits(p)'
<1>0. /\ kind' = kind /\ stage' = stage /\ tcp' = tcp /\ Asked("icmp")' = Asked("icmp")
      /\ Asked("exec")' = Asked("exec")
      /\ p \in Tasks /\ p \notin Lookups /\ p # Main
  BY Numbers DEF Tick, Asked
<1>1. kind[p] = "tcp" /\ stage[p] \in {"connecting", "woken", "done"}
  BY DEF StageInv
<1>2. CASE stage[p] = "done"
  <2>1. p \notin Running
    BY <1>0, <1>2 DEF Running, Timed, Listening, In, TcpPings
  <2>2. spent'[p] = spent[p]
    BY <1>0, <2>1 DEF Tick, TypeOK
  <2> QED BY <1>0, <2>2, TickGrows, WaitsFrame
<1>3. CASE stage[p] \in {"connecting", "woken"}
  <2>1. OnThread # {}
    <3>0. OnThread = {} => FreeThread
      BY FS_EmptySet, WorkersAssumption DEF FreeThread
    <3>1. CASE stage[p] = "woken"
      <4>1. Ready # {}
        BY <1>0, <3>1 DEF Ready, In
      <4> QED BY <3>0, <4>1 DEF Tick, Busy
    <3>2. CASE stage[p] = "connecting"
      <4>1. TcpDue # {}
        BY <1>0, <3>2 DEF TcpDue, In
      <4>2. OnThread # {} \/ Ready # {}
        BY <4>1 DEF Tick, Busy, TimersDue
      <4> QED BY <3>0, <4>2 DEF Tick, Busy
    <3> QED BY <1>3, <3>1, <3>2
  <2> DEFINE a == spent'[p] - tcp[p].at
             b == spent[p] - tcp[p].at
             w == Cardinality(Work(Tasks, Held))
             v == Cardinality(Work(Tasks, Held'))
  <2>2. a \in Int /\ b \in Int /\ a <= b + 1
    <3>1. spent[p] \in Nat /\ spent'[p] \in Nat /\ tcp[p].at \in Nat
      BY TimesAssumption, SpentTypes, SpentTypesNext DEF TypeOK
    <3>2. spent'[p] <= spent[p] + 1
      BY <1>0, <3>1 DEF Tick, TypeOK, Later
    <3> QED BY <3>1, <3>2
  <2>4. w \in Nat /\ v \in Nat
    BY FiniteTasks, WorkFinite
  <2>3. w + 1 <= v
    <3>1. OnThread \subseteq Tasks
      BY DEF OnThread, In
    <3>2. Cardinality(OnThread) \in Nat /\ w + Cardinality(OnThread) <= v
      BY <3>1, TickAdds
    <3>3. Cardinality(OnThread) # 0
      BY <2>1, <3>1, FiniteTasks, FS_EmptySet
    <3> HIDE DEF w, v
    <3> QED BY <2>4, <3>2, <3>3
  <2>5. b <= w
    BY <1>3 DEF TcpWaits
  <2> SUFFICES a <= v
    BY <1>0, <1>3 DEF TcpWaits
  <2> HIDE DEF a, b, w, v
  <2> QED BY <2>2, <2>3, <2>4, <2>5
<1> QED BY <1>1, <1>2, <1>3

LEMMA TcpShareIs ==
  /\ TcpShare <=> \A p \in Asked("tcp") : tcp[p].is # "none" => TcpWaits(p)
  /\ TcpShare' <=> \A p \in Asked("tcp")' : tcp'[p].is # "none" => TcpWaits(p)'
BY DEF TcpShare

LEMMA OnlyTasksShare ==
  ASSUME TypeOK, TypeOK', CallInv, StageInv, AllTimed, LimitsAreMeasured, OnlyTasks,
         DelayShare, TcpShare
  PROVE  DelayShare' /\ TcpShare'
<1>1. /\ kind' = kind /\ tcp' = tcp /\ delay' = delay /\ spent'[Main] = spent[Main]
      /\ main' \in {"lookup", "push"} => main \in {"lookup", "push"}
      /\ \A t \in Tasks : Moves(t)
  BY DEF OnlyTasks
<1>2. \A t \in Tasks : Held[t] <= Held'[t]
  BY <1>1, HeldGrows
<1>3. DelayShare'
  <2>1. \A t \in Lookups : stage[t] = "done" => stage'[t] = "done"
    BY <1>1, Numbers DEF Moves, LookupMoves, Goes
  <2> QED BY <1>1, <1>2, <2>1, DelayFrame
<1>4. Asked("icmp") \subseteq Asked("icmp")' /\ Asked("exec") \subseteq Asked("exec")'
  BY <1>1, AskedGrows
<1>5. ASSUME NEW p \in Asked("tcp")', tcp'[p].is # "none"
      PROVE  TcpWaits(p)'
  <2>1. p \in Requests /\ p \in Tasks /\ p \notin Lookups /\ kind[p] = "tcp" /\ tcp[p].is # "none"
    BY <1>1, <1>5, Numbers DEF Asked
  <2>2. stage[p] \in {"connecting", "woken", "done"}
    BY <2>1 DEF StageInv
  <2>3. p \in Asked("tcp") /\ TcpWaits(p)
    BY <2>1, <2>2, TcpShareIs DEF Asked
  <2>4. spent'[p] = spent[p] /\ (stage[p] = "done" => stage'[p] = "done")
    <3>1. Moves(p)
      BY <1>1, <2>1
    <3> QED BY <2>1, <2>2, <3>1 DEF Moves, PingMoves, Goes
  <2> QED BY <1>1, <1>2, <1>4, <2>1, <2>3, <2>4, WaitsFrame
<1> QED BY <1>3, <1>5, TcpShareIs

LEMMA MainShare ==
  ASSUME TypeOK, TypeOK', CallInv, StageInv, AllTimed, LimitsAreMeasured,
         PushEnds \/ MainStep, DelayShare, TcpShare
  PROVE  DelayShare' /\ TcpShare'
<1>1. /\ kind' = kind /\ tcp' = tcp /\ stage' = stage
      /\ \A t \in Tasks : spent'[t] = spent[t]
  BY Numbers DEF PushEnds, MainStep, StartPush, Send, pingVars, TypeOK
<1>2. main' \in {"lookup", "push"} =>
        /\ main \in {"lookup", "push"} /\ delay' = delay /\ spent'[Main] = spent[Main]
  BY DEF PushEnds, MainStep, StartPush, Send
<1>3. \A t \in Tasks : Held[t] <= Held'[t]
  <2> SUFFICES ASSUME NEW t \in Tasks PROVE Held[t] <= Held'[t]
    OBVIOUS
  <2>1. Held'[t] = Held[t] /\ Held[t] \in Nat
    BY <1>1, HeldIs, HeldIsNext, HeldType
  <2> QED BY <2>1
<1>4. DelayShare'
  BY <1>1, <1>2, <1>3, DelayFrame
<1>5. UNCHANGED <<Asked("icmp"), Asked("exec"), Asked("tcp")>>
  BY <1>1 DEF Asked
<1>6. \A p \in Asked("tcp") : tcp[p].is # "none" => TcpWaits(p)'
  BY <1>1, <1>3, <1>5, WaitsFrame, TcpShareIs, Numbers DEF Asked
<1> QED BY <1>1, <1>4, <1>5, <1>6, TcpShareIs

LEMMA TcpAnswerShare ==
  ASSUME TypeOK, TypeOK', CallInv, StageInv, AllTimed, LimitsAreMeasured,
         NEW p \in Requests, TcpAnswer(p), DelayShare, TcpShare
  PROVE  DelayShare' /\ TcpShare'
<1>1. /\ UNCHANGED <<kind, stage, spent, main, delay>>
      /\ \A q \in Requests \ {p} : tcp'[q] = tcp[q]
      /\ tcp'[p].at = spent[p] /\ stage[p] # "done"
  BY DEF TcpAnswer, TypeOK
<1>2. \A t \in Tasks : Held[t] <= Held'[t]
  <2> SUFFICES ASSUME NEW t \in Tasks PROVE Held[t] <= Held'[t]
    OBVIOUS
  <2>1. Held'[t] = Held[t] /\ Held[t] \in Nat
    BY <1>1, HeldIs, HeldIsNext, HeldType
  <2> QED BY <2>1
<1>3. DelayShare'
  BY <1>1, <1>2, DelayFrame
<1>4. UNCHANGED <<Asked("icmp"), Asked("exec"), Asked("tcp")>>
  BY <1>1 DEF Asked
<1>5. TcpWaits(p)'
  <2>1. spent[p] \in Nat /\ Cardinality(Work(Tasks, Held')) \in Nat
    BY SpentTypes, FiniteTasks, WorkFinite
  <2>2. spent'[p] - tcp'[p].at = 0 /\ stage'[p] # "done"
    BY <1>1, <2>1
  <2> QED BY <2>1, <2>2 DEF TcpWaits
<1>6. \A q \in Asked("tcp") \ {p} : tcp[q].is # "none" => TcpWaits(q)'
  BY <1>1, <1>2, <1>4, WaitsFrame, TcpShareIs DEF Asked
<1> QED BY <1>1, <1>3, <1>4, <1>5, <1>6, TcpShareIs DEF Asked

\* Whoever has its connection has been woken and served before main connects.
LEMMA ConnectShare ==
  ASSUME TypeOK, TypeOK', CallInv, StageInv, AllTimed, LimitsAreMeasured,
         ConnectWs, DelayShare, TcpShare
  PROVE  DelayShare' /\ TcpShare'
<1>1. /\ UNCHANGED <<kind, tcp, spent, delay>> /\ delay = 0 /\ main' = "lookup"
      /\ \A p \in Requests : stage'[p] = stage[p]
      /\ \A t \in Lookups : stage'[t] = "ready"
      /\ spent[Main] = 0
  <2>1. main = "connecting" /\ UNCHANGED <<kind, tcp, spent, delay>> /\ main' = "lookup"
    BY DEF ConnectWs, pingVars
  <2>2. delay = 0 /\ spent[Main] <= 0
    BY <2>1 DEF StageInv
  <2>3. spent[Main] = 0
    BY <2>2, SpentTypes
  <2>4. \A t \in Tasks : stage'[t] = IF t \in Lookups THEN "ready" ELSE stage[t]
    BY DEF ConnectWs
  <2>5. /\ \A p \in Requests : stage'[p] = stage[p]
        /\ \A t \in Lookups : stage'[t] = "ready"
    BY <2>4, Numbers
  <2> QED BY <2>1, <2>2, <2>3, <2>5
<1>2. DelayShare'
  <2>1. ASSUME NEW t \in Lookups PROVE Late(t)'
    <3>1. t \in Tasks /\ Held'[t] = 0
      BY <1>1, <2>1, HeldIsNext, Numbers
    <3>2. delay' - Held'[t] - spent'[Main] = 0
      BY <1>1, <3>1
    <3>3. Workers * 0 = 0
      BY WorkersAssumption
    <3>4. Cardinality(Work(Tasks \ {t}, Held')) \in Nat
      BY FiniteTasks, WorkFinite
    <3> QED BY <3>2, <3>3, <3>4 DEF Late
  <2>2. Lookups # {}
    BY DEF Lookups
  <2> QED BY <2>1, <2>2 DEF DelayShare
<1>3. UNCHANGED <<Asked("icmp"), Asked("exec"), Asked("tcp")>>
  BY <1>1 DEF Asked
<1>4. ASSUME NEW p \in Asked("tcp"), tcp[p].is # "none"
      PROVE  TcpWaits(p)'
  <2>1. p \in Requests /\ p \in Tasks /\ stage[p] \in {"connecting", "woken", "done"}
    BY <1>4, Numbers DEF Asked, StageInv
  <2>2. stage[p] # "connecting" /\ stage[p] # "woken"
    BY <1>4, <2>1 DEF ConnectWs, DriverTurns, TcpDue, Ready, In
  <2>3. stage[p] = "done" /\ stage'[p] = "done" /\ TcpWaits(p)
    BY <1>1, <1>4, <2>1, <2>2, TcpShareIs
  <2>4. CallTime(2)' = CallTime(2)
    BY <1>3 DEF CallTime
  <2> QED BY <1>1, <2>3, <2>4 DEF TcpWaits
<1> QED BY <1>1, <1>2, <1>3, <1>4, TcpShareIs

LEMMA TickShare ==
  ASSUME TypeOK, TypeOK', CallInv, StageInv, AllTimed, LimitsAreMeasured, Tick,
         DelayShare, TcpShare
  PROVE  DelayShare' /\ TcpShare'
<1>1. tcp' = tcp /\ Asked("tcp")' = Asked("tcp")
  BY DEF Tick, Asked
<1>2. \A p \in Asked("tcp") : tcp[p].is # "none" => TcpWaits(p)'
  BY TickWaits, TcpShareIs DEF Asked
<1> QED BY <1>1, <1>2, TickDelay, TcpShareIs

LEMMA WaitNext ==
  ASSUME TypeOK, TypeOK', CallInv, WaitInv, [Next]_vars, LimitsAreMeasured
  PROVE  WaitInv'
<1>1. StageInv /\ StageInv'
  BY StageNext DEF WaitInv
<1> SUFFICES ASSUME AllTimed' PROVE DelayShare' /\ TcpShare'
  BY <1>1 DEF WaitInv, AllTimed
<1>2. CASE UNCHANGED vars
  <2>1. AllTimed' <=> AllTimed
    BY <1>2 DEF AllTimed, Endless, Asked, vars
  <2>2. DelayShare /\ TcpShare
    BY <2>1 DEF WaitInv, AllTimed
  <2>3. OnlyTasks
    BY <1>2 DEF vars, OnlyTasks, Moves
  <2> QED BY <1>1, <2>1, <2>2, <2>3, OnlyTasksShare
<1>3. CASE Next
  <2>1. AllTimed
    <3>1. CASE OnlyTasks
      BY <3>1, AskedGrows DEF OnlyTasks, AllTimed, Endless
    <3>2. CASE (\E p \in Requests : TcpAnswer(p)) \/ ConnectWs \/ PushEnds \/ MainStep \/ Tick
      <4>1. kind' = kind
        BY <3>2 DEF TcpAnswer, ConnectWs, PushEnds, MainStep, StartPush, Send, Tick, pingVars
      <4>2. \A p \in Requests : stage'[p] = stage[p]
        BY <3>2, Numbers
        DEF TcpAnswer, ConnectWs, PushEnds, MainStep, StartPush, Send, Tick
      <4> QED BY <4>1, <4>2 DEF AllTimed, Endless, Asked
    <3> QED BY <1>1, <1>3, <3>1, <3>2, Steps
  <2>2. DelayShare /\ TcpShare
    BY <2>1 DEF WaitInv, AllTimed
  <2> QED BY <1>1, <1>3, <2>1, <2>2, Steps, OnlyTasksShare, TcpAnswerShare, ConnectShare,
             MainShare, TickShare
<1> QED BY <1>2, <1>3

(***************************************************************************)
(* As long as every call has a time limit, a lookup that waits for a       *)
(* thread has waited no longer than the others have held all of them, and  *)
(* a ping whose connection is made no longer than any thread was held.     *)
(***************************************************************************)
THEOREM WaitsAreShared ==
  ASSUME LimitsAreMeasured
  PROVE  Spec => []WaitInv
<1>1. Init => WaitInv
  <2> SUFFICES ASSUME Init PROVE WaitInv
    OBVIOUS
  <2>1. DelayShare
    BY DEF Init, DelayShare
  <2>2. \A p \in Requests : tcp[p].is = "none"
    BY DEF Init
  <2>3. TcpShare
    BY <2>2 DEF TcpShare, Asked
  <2> QED BY <2>1, <2>3, StageInit DEF WaitInv
<1>2. TypeOK /\ CallInv /\ TypeOK' /\ WaitInv /\ [Next]_vars => WaitInv'
  BY WaitNext
<1>3. Spec => [](TypeOK /\ CallInv)
  BY CallsTypeCorrect DEF LimitsAreMeasured, LimitIsMeasured
<1> QED BY <1>1, <1>2, <1>3, PTL DEF Spec

(***************************************************************************)
(* FirstReportDelay: without HTTP pings and terminals the first report of  *)
(* a connection comes after the two calls of basic information and, at     *)
(* most, the share of one thread in the time for which pings, the posts of *)
(* commands and one lookup hold the threads.                               *)
(***************************************************************************)
THEOREM FirstReportDelayAlways ==
  ASSUME LimitsAreMeasured
  PROVE  Spec => []FirstReportDelay
<1>1. ASSUME TypeOK, CallInv, WaitInv
      PROVE  FirstReportDelay
  <2> DEFINE x == CallTime(1)
  <2>0. x \in Nat /\ x \div Workers \in Nat
    <3>1. x \in Nat
      BY CallTimes
    <3> HIDE DEF x
    <3> QED BY <3>1, WorkersAssumption
  <2>1. \A p \in Listening : spent[p] + left[p] <= IcmpTimeout
    <3> SUFFICES ASSUME NEW p \in Listening PROVE spent[p] + left[p] <= IcmpTimeout
      OBVIOUS
    <3>1. p \in Requests /\ stage[p] = "receiving"
      BY <1>1, Numbers DEF Listening, In, WaitInv, StageInv, Tasks
    <3> QED BY <1>1, <3>1, LeftIsRemaining, TimesAssumption
  <2>2. ASSUME AllTimed
        PROVE  delay <= x \div Workers + 2 * HttpTimeout
    <3>1. CASE main \notin {"lookup", "push"}
      <4>1. delay = 0
        BY <1>1, <3>1 DEF WaitInv, StageInv
      <4> HIDE DEF x
      <4> QED BY <2>0, <4>1, TimesAssumption
    <3>2. CASE main \in {"lookup", "push"}
      <4>1. PICK t \in Lookups : Late(t)
        BY <1>1, <2>2, <3>2 DEF WaitInv, AllTimed, DelayShare
      <4>2. /\ t \in Tasks /\ Held[t] \in Nat /\ Held[t] <= HttpTimeout
            /\ spent[Main] \in Nat /\ spent[Main] <= HttpTimeout /\ delay \in Nat
            /\ HttpTimeout \in Nat
        <5>1. t \in Tasks /\ Limit(t) = HttpTimeout
          BY Numbers DEF Limit
        <5>2. spent[Main] <= HttpTimeout
          BY <1>1, SpentTypes DEF WaitInv, StageInv
        <5> QED BY <1>1, <2>2, <5>1, <5>2, HeldType, HeldWithin, SpentTypes DEF WaitInv
      <4> DEFINE a == delay - Held[t] - spent[Main]
                 S == Tasks \ {t}
      <4>3. S \cap Lookups = Lookups \ {t} /\ S \in SUBSET Tasks
        BY Numbers
      <4>4. Cardinality(Work(S, Held)) <= x /\ Cardinality(Work(S, Held)) \in Nat
        BY <1>1, <2>2, <4>3, WorkWithin, FiniteTasks DEF WaitInv
      <4>5. a \in Int
        BY <4>2
      <4>6. Workers * a <= Cardinality(Work(S, Held))
        BY <4>1 DEF Late
      <4> HIDE DEF x, S
      <4>7. Workers * a <= x
        <5> HIDE DEF a
        <5> QED BY <2>0, <4>4, <4>5, <4>6, Shares
      <4>8. a <= x \div Workers
        BY <2>0, <4>5, <4>7, ShareIsWait
      <4> QED BY <2>0, <4>2, <4>8
    <3> QED BY <3>1, <3>2
  <2> QED BY <2>1, <2>2 DEF FirstReportDelay, AllTimed
<1> QED BY <1>1, WaitsAreShared, CallsTypeCorrect, PTL DEF LimitsAreMeasured, LimitIsMeasured

(***************************************************************************)
(* TcpTruthful: a connection made in time is reported as made, however     *)
(* late the task looks at it, and the time that is reported with it is too *)
(* long by no more than the time for which any thread is held, by pings,   *)
(* the posts of commands and the lookups.                                  *)
(***************************************************************************)
THEOREM TcpTruthfulAlways ==
  ASSUME LimitsAreMeasured
  PROVE  Spec => []TcpTruthful
<1>1. ASSUME TypeOK, CallInv, WaitInv
      PROVE  TcpTruthful
  <2> SUFFICES ASSUME NEW p \in Asked("tcp"), stage[p] = "done", tcp[p].is = "up"
               PROVE  /\ result[p] = Up
                      /\ AllTimed => spent[p] - tcp[p].at <= CallTime(2)
    BY DEF TcpTruthful, AllTimed
  <2>1. p \in Requests /\ result[p] = Up
    BY <1>1 DEF Asked, WaitInv, StageInv
  <2>2. AllTimed => spent[p] - tcp[p].at <= CallTime(2)
    BY <1>1 DEF WaitInv, AllTimed, TcpShare, TcpWaits
  <2> QED BY <2>1, <2>2
<1> QED BY <1>1, WaitsAreShared, CallsTypeCorrect, PTL DEF LimitsAreMeasured, LimitIsMeasured
=============================================================================
