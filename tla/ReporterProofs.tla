--------------------------- MODULE ReporterProofs ---------------------------
(***************************************************************************)
(* For every capacity of the channel: the types, the refinement of the     *)
(* abstract feed, and that no report is older than one before it.          *)
(***************************************************************************)
EXTENDS Reporter, SequenceTheorems, TLAPS

USE CapacityAssumption

(***************************************************************************)
(* Multiplied by the factor, a number stays one and the order stays.       *)
(***************************************************************************)
LEMMA TimesMonotone ==
  ASSUME NEW m \in Int, NEW n \in Int, NEW f \in Nat, m <= n
  PROVE  m * f <= n * f
<1>1. (n - m) * f >= 0
  OBVIOUS
<1> QED BY <1>1

LEMMA FakedMonotone ==
  ASSUME NEW m \in Int, NEW n \in Int, m <= n
  PROVE  Faked(m) <= Faked(n)
<1>1. m * FakeNum <= n * FakeNum
  BY TimesMonotone, FakeAssumption
<1>2. m * FakeNum \in Int /\ n * FakeNum \in Int
  BY FakeAssumption
<1>3. \A x, y \in Int : x <= y => x \div FakeDen <= y \div FakeDen
  BY FakeAssumption
<1> QED BY <1>1, <1>2, <1>3 DEF Faked

LEMMA FakedInt ==
  ASSUME NEW n \in Int PROVE Faked(n) \in Int
<1>1. n * FakeNum \in Int
  BY FakeAssumption
<1>2. \A x \in Int : x \div FakeDen \in Int
  BY FakeAssumption
<1> QED BY <1>1, <1>2 DEF Faked

LEMMA FakedType ==
  ASSUME NEW n \in Nat PROVE Faked(n) \in Nat
<1>1. n * FakeNum \in Nat
  BY FakeAssumption
<1>2. \A x \in Nat : x \div FakeDen \in Nat
  BY FakeAssumption
<1> QED BY <1>1, <1>2 DEF Faked

LEMMA FakedZero == Faked(0) = 0
<1>1. 0 * FakeNum = 0
  BY FakeAssumption
<1>2. 0 \div FakeDen = 0
  BY FakeAssumption
<1> QED BY <1>1, <1>2 DEF Faked

-----------------------------------------------------------------------------
LEMMA ReporterTypeInit == Init => TypeOK
BY DEF Init, TypeOK, Value, Report

LEMMA SaverType == TypeOK /\ Saver => TypeOK'
<1> SUFFICES ASSUME TypeOK, Saver PROVE TypeOK'
  OBVIOUS
<1>1. CASE SaverReady \/ SaverReturns
  BY <1>1 DEF SaverReady, SaverReturns, TypeOK, loop
<1>2. CASE TakeSample
  BY <1>2 DEF TakeSample, TypeOK, loop, Value
<1>3. CASE Put
  <2>1. channel' \in Seq(Value) /\ Len(channel') = Len(channel) + 1
    BY <1>3, AppendProperties DEF Put, TypeOK
  <2>2. Len(channel') <= Capacity
    BY <1>3, <2>1, LenProperties DEF Put, TypeOK, HasRoom
  <2> QED BY <1>3, <2>1, <2>2 DEF Put, TypeOK, loop
<1> QED BY <1>1, <1>2, <1>3 DEF Saver

LEMMA LoopType == TypeOK /\ (Connect \/ Main \/ SendFails) => TypeOK'
<1> SUFFICES ASSUME TypeOK, Connect \/ Main \/ SendFails PROVE TypeOK'
  OBVIOUS
<1>1. CASE Connect \/ ConnectFails \/ Retry \/ PushBasicInfo
  BY <1>1 DEF Connect, ConnectFails, Retry, PushBasicInfo, TypeOK, agent
<1>2. CASE BuildReport
  <2>1. channel' \in Seq(Value) /\ Len(channel') <= Capacity
    BY <1>2, HeadTailProperties, LenProperties DEF BuildReport, TypeOK
  <2>2. last' \in Value
    BY <1>2, HeadTailProperties DEF BuildReport, Received, TypeOK, Value
  <2>3. report' \in Report
    <3>1. Faked(last'.total) \in Nat
      BY <2>2, FakedType DEF Value
    <3> QED BY <1>2, <2>2, <3>1 DEF BuildReport, TypeOK, Value, Report
  <2> QED BY <1>2, <2>1, <2>2, <2>3 DEF BuildReport, TypeOK
<1>3. CASE Deliver \/ SendLost \/ SendFails
  BY <1>3 DEF Deliver, SendLost, SendFails, AfterFailure, TypeOK, agent
<1> QED BY <1>1, <1>2, <1>3 DEF Main

LEMMA ReporterTypeWorld == TypeOK /\ (World \/ UNCHANGED vars) => TypeOK'
<1> SUFFICES ASSUME TypeOK, World \/ UNCHANGED vars PROVE TypeOK'
  OBVIOUS
<1>1. CASE Traffic
  BY <1>1 DEF Traffic, TypeOK, agent, loop
<1>2. CASE Outage
  <2>1. server_up' \in BOOLEAN
    BY <1>2, Zenon DEF Outage, TypeOK
  <2>2. link' \in {"none", "up", "broken"} /\ outages' \in Nat
    BY <1>2 DEF Outage, TypeOK
  <2> QED BY <1>2, <2>1, <2>2 DEF Outage, TypeOK, agent, loop
<1>3. CASE ServerBack
  BY <1>3 DEF ServerBack, TypeOK, agent, loop
<1>4. CASE UNCHANGED vars
  BY <1>4 DEF vars, TypeOK
<1> QED BY <1>1, <1>2, <1>3, <1>4 DEF World

LEMMA ReporterTypeNext == TypeOK /\ [Next]_vars => TypeOK'
BY SaverType, LoopType, ReporterTypeWorld DEF Next

(***************************************************************************)
(* Every variable of the reporter keeps its type, and the channel never    *)
(* holds more than its capacity.                                           *)
(***************************************************************************)
THEOREM ReporterTypeCorrect == Spec => []TypeOK
BY ReporterTypeInit, ReporterTypeNext, PTL DEF Spec

-----------------------------------------------------------------------------
LEMMA FeedInit == Init => FeedInv /\ Feed!Init
BY DEF Init, FeedInv, InFlight, Feed!Init

\* What one step does to the invariant and, seen as the feed, to the feed.
FeedStep == FeedInv' /\ [Feed!Take \/ Feed!Show]_<<sampled, last.n>>

LEMMA FeedTakeSample ==
  ASSUME TypeOK, FeedInv, TakeSample
  PROVE  FeedStep
<1>1. saver = "sample" /\ saver' = "send" /\ sampled' = sampled + 1
      /\ holding'.n = sampled + 1 /\ UNCHANGED <<channel, last, enabled>>
  BY DEF TakeSample, loop
<1>2. sampled = last.n + Len(channel) /\ sampled' = last.n + Len(channel) + 1
  BY <1>1, LenProperties DEF FeedInv, InFlight, TypeOK, Value
<1>3. FeedInv'
  BY <1>1, <1>2 DEF FeedInv, InFlight
<1>4. sampled < last.n + (Capacity + 1)
  BY <1>2, LenProperties DEF TypeOK, Value
<1> QED BY <1>1, <1>3, <1>4 DEF FeedStep, Feed!Take

LEMMA FeedPut ==
  ASSUME TypeOK, FeedInv, Put
  PROVE  FeedStep
<1>1. saver = "send" /\ saver' = "sample" /\ channel' = Append(channel, holding)
      /\ UNCHANGED <<sampled, last, enabled, holding>>
  BY DEF Put, loop
<1>2. /\ Len(channel') = Len(channel) + 1 /\ channel'[Len(channel) + 1] = holding
      /\ \A i \in 1..Len(channel) : channel'[i] = channel[i]
  BY <1>1, AppendProperties DEF TypeOK
<1>3. holding.n = last.n + (Len(channel) + 1) /\ sampled = last.n + Len(channel) + 1
  BY <1>1, LenProperties DEF FeedInv, InFlight, TypeOK, Value
<1>4. \A i \in 1..Len(channel') : channel'[i].n = last.n + i
  <2> SUFFICES ASSUME NEW i \in 1..Len(channel') PROVE channel'[i].n = last.n + i
    OBVIOUS
  <2>1. i \in 1..Len(channel) \/ i = Len(channel) + 1
    BY <1>2, LenProperties DEF TypeOK
  <2> QED BY <1>2, <1>3, <2>1 DEF FeedInv
<1>5. FeedInv'
  BY <1>1, <1>2, <1>3, <1>4, LenProperties DEF FeedInv, InFlight, TypeOK, Value
<1> QED BY <1>1, <1>5 DEF FeedStep

LEMMA FeedBuild ==
  ASSUME TypeOK, FeedInv, BuildReport
  PROVE  FeedStep
<1>1. UNCHANGED <<enabled, saver, holding, sampled>>
  BY DEF BuildReport
<1>2. CASE enabled /\ channel # <<>>
  <2>1. last' = channel[1] /\ channel' = Tail(channel)
    BY <1>2 DEF BuildReport, Received
  <2>2. Len(channel) >= 1 /\ Len(channel') = Len(channel) - 1
        /\ \A i \in 1..Len(channel') : channel'[i] = channel[i + 1]
    BY <1>2, <2>1, HeadTailProperties, EmptySeq, LenProperties DEF TypeOK
  <2>3. last'.n = last.n + 1
    BY <2>1, <2>2, LenProperties DEF FeedInv, TypeOK
  <2>4. \A i \in 1..Len(channel') : channel'[i].n = last'.n + i
    <3> SUFFICES ASSUME NEW i \in 1..Len(channel') PROVE channel'[i].n = last'.n + i
      OBVIOUS
    <3>1. i + 1 \in 1..Len(channel)
      BY <2>2, LenProperties DEF TypeOK
    <3>2. channel[i + 1].n = last.n + (i + 1)
      BY <3>1 DEF FeedInv
    <3>3. i \in Nat /\ last.n \in Nat
      BY DEF TypeOK, Value
    <3>4. channel'[i] = channel[i + 1]
      BY <2>2
    <3>5. last.n + (i + 1) = (last.n + 1) + i
      BY <3>3
    <3> QED BY <2>3, <3>2, <3>4, <3>5
  <2>5. sampled' = last'.n + Len(channel') + InFlight /\ InFlight' = InFlight
    BY <1>1, <2>2, <2>3, LenProperties DEF FeedInv, InFlight, TypeOK, Value
  <2>6. FeedInv'
    BY <1>1, <2>4, <2>5 DEF FeedInv
  <2>7. last.n < sampled
    BY <2>2, LenProperties DEF FeedInv, InFlight, TypeOK, Value
  <2> QED BY <1>1, <2>3, <2>6, <2>7 DEF FeedStep, Feed!Show
<1>3. CASE enabled /\ channel = <<>>
  BY <1>1, <1>3 DEF BuildReport, Received, FeedInv, FeedStep, InFlight
<1>4. CASE ~enabled
  <2>1. last.n = 0
    BY <1>4, LenProperties DEF FeedInv, InFlight, TypeOK, Value
  <2>2. last'.n = 0 /\ channel' = channel
    BY <1>4 DEF BuildReport, Received
  <2> QED BY <1>1, <2>1, <2>2 DEF FeedInv, FeedStep, InFlight
<1> QED BY <1>2, <1>3, <1>4

LEMMA FeedOther ==
  ASSUME TypeOK, FeedInv, [Next]_vars, ~TakeSample, ~Put, ~BuildReport
  PROVE  FeedStep
<1>1. UNCHANGED <<enabled, holding, sampled, channel, last>>
  BY DEF Next, Saver, SaverReady, SaverReturns, Connect, Main, ConnectFails, Retry,
         PushBasicInfo, Deliver, SendLost, SendFails, World, Traffic, Outage, ServerBack,
         agent, loop, vars
<1>2. CASE UNCHANGED saver
  BY <1>1, <1>2 DEF FeedInv, FeedStep, InFlight
<1>3. CASE ~UNCHANGED saver
  <2>1. saver = "init" /\ saver' \in {"sample", "returned"}
    BY <1>3 DEF Next, Saver, SaverReady, SaverReturns, Connect, Main, ConnectFails, Retry,
         PushBasicInfo, Deliver, SendLost, SendFails, World, Traffic, Outage, ServerBack,
         agent, loop, vars
  <2> QED BY <1>1, <2>1 DEF FeedInv, FeedStep, InFlight
<1> QED BY <1>2, <1>3

(***************************************************************************)
(* The channel and the two loops around it implement the feed: whatever    *)
(* the capacity and the outages, the reports show every sample once and in *)
(* order, and the saver is never more than Capacity + 1 samples ahead.     *)
(***************************************************************************)
THEOREM ReporterImplementsFeed == Spec => FeedSpec
<1>1. Init => FeedInv /\ Feed!Init
  BY FeedInit
<1>2. TypeOK /\ FeedInv /\ [Next]_vars => FeedInv' /\ [Feed!Take \/ Feed!Show]_<<sampled, last.n>>
  BY FeedTakeSample, FeedPut, FeedBuild, FeedOther DEF FeedStep
<1> QED BY <1>1, <1>2, ReporterTypeCorrect, PTL DEF Spec, FeedSpec, Feed!Spec

-----------------------------------------------------------------------------
(***************************************************************************)
(* From the interfaces back to the server nothing is out of order.         *)
(***************************************************************************)
LEMMA AgeInit == Init => AgeInv
BY FakedZero DEF Init, AgeInv

LEMMA ValueType ==
  ASSUME TypeOK
  PROVE  /\ last.n \in Nat /\ last.total \in Nat /\ shown.n \in Nat /\ shown.total \in Nat
         /\ holding.total \in Nat /\ total \in Nat /\ Len(channel) \in Nat
         /\ \A i \in 1..Len(channel) : channel[i].total \in Nat
<1>1. \A i \in 1..Len(channel) : channel[i] \in Value
  BY ElementOfSeq DEF TypeOK
<1>2. Len(channel) \in Nat
  BY LenProperties DEF TypeOK
<1> QED BY <1>1, <1>2 DEF TypeOK, Value, Report

LEMMA AgeSample ==
  ASSUME TypeOK, AgeInv, TakeSample
  PROVE  AgeInv'
<1>1. /\ saver' = "send" /\ holding'.total = total
      /\ UNCHANGED <<total, channel, last, shown, main, report>>
  BY DEF TakeSample, loop
<1> QED BY <1>1, ValueType DEF AgeInv

LEMMA AgePut ==
  ASSUME TypeOK, AgeInv, Put
  PROVE  AgeInv'
<1>1. /\ saver = "send" /\ saver' = "sample"
      /\ UNCHANGED <<total, last, shown, main, report>>
  BY DEF Put, loop
<1>2. /\ Len(channel') = Len(channel) + 1 /\ channel'[Len(channel) + 1] = holding
      /\ \A i \in 1..Len(channel) : channel'[i] = channel[i]
  BY AppendProperties DEF Put, TypeOK
<1>3. \A i \in 1..Len(channel') : i \in 1..Len(channel) \/ i = Len(channel) + 1
  BY <1>2, ValueType
<1>4. \A i \in 1..Len(channel') :
        last.total <= channel'[i].total /\ channel'[i].total <= total
  BY <1>1, <1>2, <1>3 DEF AgeInv
<1>5. ASSUME NEW i \in 1..Len(channel'), NEW j \in 1..Len(channel'), i < j
      PROVE  channel'[i].total <= channel'[j].total
  <2>1. i \in 1..Len(channel)
    BY <1>2, <1>5, ValueType
  <2>2. CASE j \in 1..Len(channel)
    BY <1>2, <1>5, <2>1, <2>2 DEF AgeInv
  <2>3. CASE j = Len(channel) + 1
    BY <1>1, <1>2, <2>1, <2>3 DEF AgeInv
  <2> QED BY <1>3, <2>2, <2>3
<1> QED BY <1>1, <1>4, <1>5 DEF AgeInv

LEMMA AgeBuild ==
  ASSUME TypeOK, FeedInv, AgeInv, BuildReport
  PROVE  AgeInv'
<1>1. /\ UNCHANGED <<enabled, total, saver, holding, shown>>
      /\ report'.n = last'.n /\ report'.total = Faked(last'.total)
  BY DEF BuildReport
<1>2. CASE enabled /\ channel # <<>>
  <2>1. last' = channel[1] /\ channel' = Tail(channel)
    BY <1>2 DEF BuildReport, Received
  <2>2. Len(channel) >= 1 /\ Len(channel') = Len(channel) - 1
        /\ \A i \in 1..Len(channel') : channel'[i] = channel[i + 1]
    BY <1>2, <2>1, HeadTailProperties, EmptySeq, LenProperties DEF TypeOK
  <2>3. 1 \in 1..Len(channel)
          /\ \A i \in 1..Len(channel') : i \in Nat /\ i >= 1 /\ i + 1 \in 1..Len(channel)
    BY <2>2, ValueType
  <2>4. last'.n = last.n + 1 /\ last.total <= last'.total /\ last'.total <= total
    BY <2>1, <2>3 DEF FeedInv, AgeInv
  <2>5. shown.n <= last'.n /\ shown.total <= Faked(last'.total)
    <3>1. last'.total \in Nat
      BY <2>1, <2>3, ValueType
    <3>2. Faked(last.total) <= Faked(last'.total)
      BY <2>4, <3>1, ValueType, FakedMonotone
    <3>3. Faked(last.total) \in Nat /\ Faked(last'.total) \in Nat
      BY <3>1, ValueType, FakedType
    <3> QED BY <2>4, <3>2, <3>3, ValueType DEF AgeInv
  <2>6. \A i \in 1..Len(channel') :
          last'.total <= channel'[i].total /\ channel'[i].total <= total
    BY <2>1, <2>2, <2>3 DEF AgeInv
  <2>7. \A i, j \in 1..Len(channel') : i < j => channel'[i].total <= channel'[j].total
    BY <2>2, <2>3 DEF AgeInv
  <2>8. saver = "send" =>
          /\ last'.total <= holding.total /\ holding.total <= total
          /\ \A i \in 1..Len(channel') : channel'[i].total <= holding.total
    BY <2>1, <2>2, <2>3 DEF AgeInv
  <2> QED BY <1>1, <2>4, <2>5, <2>6, <2>7, <2>8 DEF AgeInv
<1>3. CASE enabled /\ channel = <<>>
  <2>1. UNCHANGED <<last, channel>>
    BY <1>3 DEF BuildReport, Received
  <2> QED BY <1>1, <2>1 DEF AgeInv
<1>4. CASE ~enabled
  <2>1. saver = "off" /\ last.n = 0 /\ Len(channel) = 0
    BY <1>4, ValueType DEF FeedInv, InFlight
  <2>2. last'.n = 0 /\ last'.total = total /\ channel' = channel
    BY <1>4 DEF BuildReport, Received
  <2>3. \A i : i \notin 1..Len(channel)
    BY <2>1
  <2>4. Faked(last.total) <= Faked(total)
    BY ValueType, FakedMonotone DEF AgeInv
  <2>5. Faked(last.total) \in Nat /\ Faked(total) \in Nat
    BY ValueType, FakedType
  <2> QED BY <1>1, <2>1, <2>2, <2>3, <2>4, <2>5, ValueType DEF AgeInv
<1> QED BY <1>2, <1>3, <1>4

LEMMA AgeOther ==
  ASSUME TypeOK, AgeInv, [Next]_vars, ~TakeSample, ~Put, ~BuildReport
  PROVE  AgeInv'
<1>1. UNCHANGED <<holding, channel, last, report>>
  BY DEF Next, Saver, SaverReady, SaverReturns, Connect, Main, ConnectFails, Retry,
         PushBasicInfo, Deliver, SendLost, SendFails, World, Traffic, Outage, ServerBack,
         agent, loop, vars
<1>2. total' \in {total, total + 1}
  BY DEF Next, Saver, SaverReady, SaverReturns, Connect, Main, ConnectFails, Retry,
         PushBasicInfo, Deliver, SendLost, SendFails, World, Traffic, Outage, ServerBack,
         vars
<1>3. (saver' = "send" => saver = "send") /\ (main' = "send" => main = "send")
  BY DEF Next, Saver, SaverReady, SaverReturns, Connect, Main, ConnectFails, Retry,
         PushBasicInfo, Deliver, SendLost, SendFails, AfterFailure, World, Traffic, Outage,
         ServerBack, agent, loop, vars
<1>4. shown' = shown \/ (main = "send" /\ shown' = report)
  BY DEF Next, Saver, SaverReady, SaverReturns, Connect, Main, ConnectFails, Retry,
         PushBasicInfo, Deliver, SendLost, SendFails, World, Traffic, Outage, ServerBack, vars
<1>5. Faked(last.total) \in Nat
  BY ValueType, FakedType
<1> QED BY <1>1, <1>2, <1>3, <1>4, <1>5, ValueType DEF AgeInv

(***************************************************************************)
(* Whatever the capacity of the channel and however often the connection   *)
(* breaks, the server is never shown an older sample than before, nor less *)
(* traffic.                                                                *)
(***************************************************************************)
THEOREM NeverOlderAlways == Spec => NeverOlder
<1>1. TypeOK /\ FeedInv /\ AgeInv /\ [Next]_vars => AgeInv'
  BY AgeSample, AgePut, AgeBuild, AgeOther
<1>2. TypeOK /\ FeedInv /\ [Next]_vars => FeedInv'
  BY FeedTakeSample, FeedPut, FeedBuild, FeedOther DEF FeedStep
<1>3. TypeOK /\ AgeInv /\ [Next]_vars
        => [shown'.n >= shown.n /\ shown'.total >= shown.total]_shown
  <2> SUFFICES ASSUME TypeOK, AgeInv, [Next]_vars, shown' # shown
               PROVE  shown'.n >= shown.n /\ shown'.total >= shown.total
    OBVIOUS
  <2>1. main = "send" /\ shown' = report
    BY DEF Next, Saver, SaverReady, SaverReturns, TakeSample, Put, Connect, Main,
         ConnectFails, Retry, PushBasicInfo, BuildReport, Deliver, SendLost, SendFails,
         World, Traffic, Outage, ServerBack, vars
  <2> QED BY <2>1, ValueType DEF AgeInv
<1> QED BY <1>1, <1>2, <1>3, AgeInit, FeedInit, ReporterTypeCorrect, PTL DEF Spec, NeverOlder

=============================================================================
