------------------------- MODULE MeterSystemProofs -------------------------
(***************************************************************************)
(* The meter among its surroundings is still the meter: every behaviour of *)
(* MeterSystem is one of NetworkSaver, so what is proved of the latter     *)
(* holds of the whole.  The full channel only takes steps away, and the    *)
(* report loop changes nothing the meter keeps.  And what holds only of    *)
(* both together: what the server is shown is honest and never goes down.  *)
(***************************************************************************)
EXTENDS MeterSystem, NetworkSaverProofs

LEMMA SystemStepIsMeterStep == SystemNext => [Next]_vars
<1> SUFFICES ASSUME SystemNext PROVE [Next]_vars
  OBVIOUS
<1>1. CASE StartStep
  BY <1>1 DEF StartStep, Next
<1>2. CASE SaverStep
  BY <1>2 DEF SaverStep, Next
<1>3. CASE WorldStep
  BY <1>3 DEF WorldStep, Next
<1>4. CASE FaultStep
  BY <1>4 DEF FaultStep, Next
<1>5. CASE MainStep
  BY <1>5 DEF MainStep, Report, ReportLost, ReportFails, Build, Connect
<1>6. CASE Outage \/ ServerBack
  BY <1>6 DEF Outage, ServerBack
<1> QED BY <1>1, <1>2, <1>3, <1>4, <1>5, <1>6 DEF SystemNext

(***************************************************************************)
(* With channel, reports and outages around it network_saver still behaves *)
(* as NetworkSaver says, whatever the capacity of the channel.             *)
(***************************************************************************)
THEOREM SystemImplementsMeter == SystemSpec => Spec
<1>1. SystemInit => Init
  BY DEF SystemInit
<1>2. [SystemNext]_systemVars => [Next]_vars
  BY SystemStepIsMeterStep DEF systemVars
<1> QED BY <1>1, <1>2, PTL DEF SystemSpec, Spec

(***************************************************************************)
(* On Linux the whole of meter, channel, reports and outages counts no     *)
(* byte twice in one record, counts from before its period only when a     *)
(* record was lost, and never goes back to a period whose end is on        *)
(* record.                                                                 *)
(***************************************************************************)
THEOREM SystemMeterCorrect ==
  ASSUME Platform = "linux"
  PROVE  SystemSpec => [](OvercountNeedsLostRecord /\ PeriodStaysClosed)
<1>1. Spec => []OvercountNeedsLostRecord
  BY OvercountNeedsLostRecordOnLinux
<1> QED BY <1>1, SystemImplementsMeter, PeriodStaysClosedAlways, PTL

(***************************************************************************)
(* CalibrationEndsInOneRun holds of the whole, on every platform.          *)
(***************************************************************************)
THEOREM SystemCalibrationEnds == SystemSpec => []CalibrationEndsInOneRun
BY SystemImplementsMeter, CalibrationEndsInOneRunAlways, PTL

-----------------------------------------------------------------------------
(***************************************************************************)
(* Multiplied by the factor, a number stays one and the order stays.       *)
(***************************************************************************)
LEMMA TimesMonotone ==
  ASSUME NEW m \in Int, NEW n \in Int, NEW f \in Nat, m <= n
  PROVE  m * f <= n * f
<1>1. (n - m) * f >= 0
  OBVIOUS
<1> QED BY <1>1

LEMMA FakedMonotone ==
  ASSUME NEW m \in Int, NEW n \in Int, m <= n
  PROVE  Faked(m) <= Faked(n)
<1>1. m * FakeNum <= n * FakeNum
  BY TimesMonotone, FakeAssumption
<1>2. m * FakeNum \in Int /\ n * FakeNum \in Int
  BY FakeAssumption
<1>3. \A x, y \in Int : x <= y => x \div FakeDen <= y \div FakeDen
  BY FakeAssumption
<1> QED BY <1>1, <1>2, <1>3 DEF Faked

LEMMA FakedInt ==
  ASSUME NEW n \in Int PROVE Faked(n) \in Int
<1>1. n * FakeNum \in Int
  BY FakeAssumption
<1>2. \A x \in Int : x \div FakeDen \in Int
  BY FakeAssumption
<1> QED BY <1>1, <1>2 DEF Faked

LEMMA FakedType ==
  ASSUME NEW n \in Nat PROVE Faked(n) \in Nat
<1>1. n * FakeNum \in Nat
  BY FakeAssumption
<1>2. \A x \in Nat : x \div FakeDen \in Nat
  BY FakeAssumption
<1> QED BY <1>1, <1>2 DEF Faked

LEMMA ReportedValue ==
  ASSUME NEW v \in Shown
  PROVE  /\ Reported(v) \in Shown
         /\ \A d \in Dirs : Reported(v).value[d] = Faked(v.value[d])
         /\ Reported(v).since = v.since /\ Reported(v).opened = v.opened
         /\ Reported(v).net = v.net /\ Reported(v).boot = v.boot
<1>1. [d \in Dirs |-> Faked(v.value[d])] \in [Dirs -> Nat]
  BY FakedType DEF Shown
<1> QED BY <1>1 DEF Reported, Shown

-----------------------------------------------------------------------------
(***************************************************************************)
(* Types: the meter's are known, those of the reports follow.              *)
(***************************************************************************)
LEMMA SystemTypeInit == SystemInit => SystemTypeOK
<1> SUFFICES ASSUME SystemInit PROVE SystemTypeOK
  OBVIOUS
<1>1. TypeOK
  BY TypeInit DEF SystemInit
<1>2. conf.data.net \in NetworkSettings
  BY <1>1 DEF TypeOK, ConfigFile, Config
<1> QED BY <1>1, <1>2, BlankType, CapacityAssumption DEF SystemInit, SystemTypeOK

LEMMA TakenType == SystemTypeOK => Taken \in Shown
BY DEF SystemTypeOK, Taken

LEMMA BuildType ==
  ASSUME SystemTypeOK, Build
  PROVE  /\ TypeOK' /\ last' \in Shown /\ outages' \in Nat /\ server_up' \in BOOLEAN
         /\ channel' \in Seq(Shown) /\ Len(channel') <= Capacity /\ wish' = wish
<1>1. TypeOK'
  BY TypeStutter DEF Build, SystemTypeOK
<1>2. last' \in Shown
  BY TakenType DEF Build
<1>3. channel' \in Seq(Shown) /\ Len(channel') <= Capacity
  <2>1. CASE channel = <<>>
    BY <2>1 DEF Build, SystemTypeOK
  <2>2. CASE channel # <<>>
    <3>1. Tail(channel) \in Seq(Shown) /\ Len(Tail(channel)) = Len(channel) - 1
      BY <2>2 DEF SystemTypeOK
    <3> QED BY <2>2, <3>1, CapacityAssumption DEF Build, SystemTypeOK
  <2> QED BY <2>1, <2>2
<1> QED BY <1>1, <1>2, <1>3 DEF Build, SystemTypeOK

LEMMA SystemTypeNext ==
  SystemTypeOK /\ [SystemNext]_systemVars => SystemTypeOK'
<1> SUFFICES ASSUME SystemTypeOK, [SystemNext]_systemVars PROVE SystemTypeOK'
  OBVIOUS
<1>1. TypeOK'
  BY TypeNext, SystemStepIsMeterStep DEF SystemTypeOK, systemVars
<1>2. CASE StartStep
  BY <1>1, <1>2 DEF SystemTypeOK, StartStep, reports
<1>10. CASE WorldStep
  <2>1. conf'.data.net \in NetworkSettings
    BY <1>1 DEF TypeOK, ConfigFile, Config
  <2>2. (~Rewriting) \in BOOLEAN
    BY DEF Rewriting
  <2>3. wish' \in [net: NetworkSettings, due: BOOLEAN]
    <3>1. CASE edits' # edits /\ conf'.ok
      <4>1. wish' = [net |-> conf'.data.net, due |-> ~Rewriting]
        BY <1>10, <3>1, Zenon DEF WorldStep
      <4> QED BY <2>1, <2>2, <4>1
    <3>2. CASE ~(edits' # edits /\ conf'.ok)
      <4>1. wish' = wish
        BY <1>10, <3>2, Zenon DEF WorldStep
      <4> QED BY <4>1 DEF SystemTypeOK
    <3> QED BY <3>1, <3>2
  <2> QED BY <1>1, <1>10, <2>3 DEF SystemTypeOK, WorldStep, reports
<1>3. CASE SaverStep
  <2>1. channel' \in Seq(Shown) /\ Len(channel') <= Capacity
    <3>1. CASE pc = "send"
      <4>1. sent' \in Shown
        BY <1>1 DEF TypeOK, Shown
      <4>2. Append(channel, sent') \in Seq(Shown)
              /\ Len(Append(channel, sent')) = Len(channel) + 1
        BY <4>1 DEF SystemTypeOK
      <4>3. Len(channel) \in Nat /\ Len(channel) < Capacity
              /\ channel' = Append(channel, sent')
        BY <1>3, <3>1 DEF SaverStep, Room, SystemTypeOK
      <4> QED BY <4>2, <4>3, CapacityAssumption
    <3>2. CASE pc # "send"
      BY <1>3, <3>2 DEF SaverStep, SystemTypeOK
    <3> QED BY <3>1, <3>2
  <2>2. wish' \in [net: NetworkSettings, due: BOOLEAN]
    BY <1>3, ZeroType DEF SystemTypeOK, SaverStep, NetworkSettings
  <2> QED BY <1>1, <1>3, <2>1, <2>2 DEF SystemTypeOK, SaverStep
<1>4. CASE FaultStep
  <2>1. CASE pc' = "down"
    <3>1. channel' = <<>> /\ last' = Blank /\ link' = "none"
      BY <1>4, <2>1 DEF FaultStep
    <3>2. channel' \in Seq(Shown) /\ Len(channel') = 0
      BY <3>1
    <3> QED BY <1>1, <1>4, <3>1, <3>2, BlankType, CapacityAssumption
            DEF SystemTypeOK, FaultStep
  <2>2. CASE pc' # "down"
    BY <1>1, <1>4, <2>2 DEF SystemTypeOK, FaultStep
  <2> QED BY <2>1, <2>2
<1>5. CASE Report
  BY <1>5, BuildType, ReportedValue DEF SystemTypeOK, Report
<1>6. CASE ReportLost \/ ReportFails
  BY <1>6, BuildType DEF SystemTypeOK, ReportLost, ReportFails
<1>7. CASE Connect \/ ServerBack
  BY <1>1, <1>7 DEF SystemTypeOK, Connect, ServerBack
<1>8. CASE Outage
  <2>1. link' \in {"none", "up", "broken"}
    BY <1>8 DEF SystemTypeOK, Outage
  <2>2. outages' \in Nat
    BY <1>8 DEF SystemTypeOK, Outage
  <2>3. server_up' \in BOOLEAN
    BY <1>8, Zenon DEF Outage
  <2>4. /\ channel' = channel /\ last' = last /\ shown' = shown /\ best' = best
        /\ wish' = wish
    BY <1>8 DEF Outage
  <2> QED BY <1>1, <2>1, <2>2, <2>3, <2>4 DEF SystemTypeOK
<1>9. CASE UNCHANGED systemVars
  BY <1>1, <1>9 DEF SystemTypeOK, systemVars, reports
<1> QED BY <1>2, <1>10, <1>3, <1>4, <1>5, <1>6, <1>7, <1>8, <1>9 DEF SystemNext, MainStep

(***************************************************************************)
(* The types of meter and reports; the channel never holds more than its   *)
(* capacity, so the saver has waited whenever it was full.                 *)
(***************************************************************************)
THEOREM SystemTypeCorrect == SystemSpec => []SystemTypeOK
<1>1. SystemInit => SystemTypeOK
  BY SystemTypeInit
<1>2. SystemTypeOK /\ [SystemNext]_systemVars => SystemTypeOK'
  BY SystemTypeNext
<1> QED BY <1>1, <1>2, PTL DEF SystemSpec

-----------------------------------------------------------------------------
(***************************************************************************)
(* A value is honest when it is made, and time can only make it more so.   *)
(***************************************************************************)
LEMMA EverGrows ==
  ASSUME TypeOK, [Next]_vars, NEW d \in Dirs
  PROVE  ever[d] \in Nat /\ ever'[d] \in Nat /\ ever[d] <= ever'[d]
<1>1. ever \in [Dirs -> Nat] /\ ever' \in [Dirs -> Nat]
  BY TypeNext DEF TypeOK
<1>2. CASE Traffic
  BY <1>1, <1>2 DEF Traffic
<1>3. CASE Start \/ Saver
  <2>1. CASE Start \/ OpenExisting \/ OpenFresh \/ Merge \/ KeepRecord
    BY <1>1, <2>1 DEF host, Start, OpenExisting, OpenFresh, Merge, KeepRecord
  <2>2. CASE Truncate \/ Write \/ Sample \/ Reset \/ NoCalibration \/ LoadCalibration
    BY <1>1, <2>2 DEF host, Truncate, Write, Sample, Reset, NoCalibration, LoadCalibration
  <2>3. CASE TruncateConfig
    <3>1. ever' = ever
      BY <2>3, Zenon DEF host, TruncateConfig
    <3> QED BY <1>1, <3>1
  <2>4. CASE WriteConfig \/ CountSample \/ SaveSample \/ Send
    BY <1>1, <2>4 DEF host, WriteConfig, CountSample, SaveSample, Send
  <2> QED BY <1>3, <2>1, <2>2, <2>3, <2>4 DEF Saver
<1>4. CASE InterfaceGone \/ Tick \/ Writeback
  BY <1>1, <1>4 DEF host, InterfaceGone, Tick, Writeback
<1>5. CASE EditConfig
  <2>1. ever' = ever
    BY <1>5, Zenon DEF host, EditConfig
  <2> QED BY <1>1, <2>1
<1>6. CASE Fault
  <2>1. ever' = ever
    BY <1>6, Zenon DEF host, Fault, Crash, Reboot, LosePower, Stop, OpenFails,
       RewriteFails, ConfigFails
  <2> QED BY <1>1, <2>1
<1>7. CASE UNCHANGED vars
  BY <1>1, <1>7 DEF vars
<1> QED BY <1>2, <1>3, <1>4, <1>5, <1>6, <1>7 DEF Next, World

LEMMA ShownFields ==
  ASSUME NEW v \in Shown, NEW d \in Dirs
  PROVE  /\ v.value[d] \in Nat /\ v.since[d] \in Nat
         /\ v.net.calibration[d] \in Nat
BY DEF Shown, NetworkSettings

LEMMA DamagedForGood ==
  ASSUME [Next]_vars, damaged PROVE damaged'
<1>1. CASE Start \/ Saver \/ World
  <2>1. damaged' = damaged
    BY <1>1, Zenon DEF hist, Start, Saver, OpenExisting, OpenFresh, Merge, KeepRecord,
       Truncate, Write, Sample, Reset, NoCalibration, LoadCalibration, TruncateConfig,
       WriteConfig, CountSample, SaveSample, Send, World, Traffic, InterfaceGone, Tick,
       EditConfig, Writeback
  <2> QED BY <2>1
<1>2. CASE Crash \/ Reboot \/ LosePower
  BY <1>2 DEF Crash, Reboot, LosePower
<1>3. CASE OpenFails \/ RewriteFails \/ ConfigFails
  <2>1. damaged' = damaged
    BY <1>3, Zenon DEF hist, OpenFails, RewriteFails, ConfigFails
  <2> QED BY <2>1
<1>4. CASE UNCHANGED vars
  BY <1>4 DEF vars
<1> QED BY <1>1, <1>2, <1>3, <1>4 DEF Next, Fault

LEMMA BoundGrows ==
  ASSUME TypeOK, [Next]_vars, NEW v \in Shown, NEW d \in Dirs
  PROVE  Bound(v, d) \in Int /\ Bound(v, d)' \in Int /\ Bound(v, d) <= Bound(v, d)'
BY EverGrows, ShownFields DEF Bound

LEMMA HonestLater ==
  ASSUME TypeOK, [Next]_vars, NEW v \in Shown, Honest(v)
  PROVE  Honest(v)'
<1>1. OfItsPeriod(v)'
  BY DamagedForGood DEF Honest, OfItsPeriod
<1>2. ASSUME NEW d \in Dirs PROVE v.value[d] <= Bound(v, d)'
  BY BoundGrows, ShownFields DEF Honest
<1> QED BY <1>1, <1>2 DEF Honest

LEMMA HonestReportLater ==
  ASSUME TypeOK, [Next]_vars, NEW v \in Shown, HonestReport(v)
  PROVE  HonestReport(v)'
<1>1. OfItsPeriod(v)'
  BY DamagedForGood DEF HonestReport, OfItsPeriod
<1>2. ASSUME NEW d \in Dirs PROVE v.value[d] <= Faked(Bound(v, d)')
  <2>1. v.value[d] <= Faked(Bound(v, d))
    BY DEF HonestReport
  <2>2. Faked(Bound(v, d)) <= Faked(Bound(v, d)')
    BY BoundGrows, FakedMonotone
  <2>3. Faked(Bound(v, d)) \in Int /\ Faked(Bound(v, d)') \in Int
    BY BoundGrows, FakedInt
  <2> QED BY <2>1, <2>2, <2>3, ShownFields
<1>3. \A d \in Dirs : Faked(Bound(v, d)') = Faked(Bound(v, d))'
  BY DEF Faked
<1> QED BY <1>1, <1>2, <1>3 DEF HonestReport

LEMMA ReportedHonest ==
  ASSUME TypeOK, NEW v \in Shown, Honest(v)
  PROVE  HonestReport(Reported(v))
<1>1. OfItsPeriod(Reported(v))
  BY ReportedValue DEF Honest, OfItsPeriod
<1>2. ASSUME NEW d \in Dirs
      PROVE  Reported(v).value[d] <= Faked(Bound(Reported(v), d))
  <2>1. Bound(Reported(v), d) = Bound(v, d) /\ Reported(v).value[d] = Faked(v.value[d])
    BY ReportedValue DEF Bound
  <2>2. Bound(v, d) \in Int /\ v.value[d] \in Int /\ v.value[d] <= Bound(v, d)
    BY ShownFields, HostType DEF Honest, Bound
  <2> QED BY <2>1, <2>2, FakedMonotone
<1> QED BY <1>1, <1>2 DEF HonestReport

LEMMA SendStep == Saver /\ pc = "send" => Send
BY DEF Saver, OpenExisting, OpenFresh, Merge, KeepRecord, Truncate, Write, Sample, Reset,
       NoCalibration, LoadCalibration, TruncateConfig, WriteConfig, CountSample, SaveSample

LEMMA BlankHonest ==
  ASSUME TypeOK PROVE Honest(Blank) /\ HonestReport(Blank)
<1>1. \A d \in Dirs : Bound(Blank, d) = ever[d] /\ Blank.value[d] = 0
  BY HostType DEF Bound, Blank, Zero, NoConfig
<1>2. \A d \in Dirs : 0 <= Faked(ever[d])
  BY HostType, FakedType
<1>3. OfItsPeriod(Blank)
  BY DEF OfItsPeriod, Blank
<1> QED BY <1>1, <1>2, <1>3, HostType DEF Honest, HonestReport

LEMMA SentHonest ==
  ASSUME TypeOK, MeterInv, PeriodInv, Send
  PROVE  Honest(sent')
<1>1. /\ sent'.since = rt.since /\ sent'.opened = rt.opened
      /\ sent'.value = Display /\ sent'.net = cur.net
  BY DEF Send
<1>2. OfItsPeriod(sent')
  BY <1>1 DEF OfItsPeriod, PeriodInv
<1>3. SeenSound
  BY DEF Send, MeterInv, HasSeen
<1>4. ASSUME NEW d \in Dirs
      PROVE  sent'.value[d] <= ever[d] - sent'.since[d] + sent'.net.calibration[d]
  <2>1. /\ cur.net.calibration[d] \in Nat /\ rt.since[d] \in Nat
        /\ seen_ever[d] \in Nat /\ ever[d] \in Nat
    BY DEF TypeOK, Config, NetworkSettings, RuntimeData
  <2>2. Counted(rt, seen)[d] <= seen_ever[d] - rt.since[d] /\ seen_ever[d] <= ever[d]
    BY <1>3, CountedWithinSeen DEF SeenSound
  <2>3. Counted(rt, seen)[d] \in Nat
    BY MonusType, PlusType DEF Counted, TypeOK, RuntimeData
  <2>4. Display[d] = IF d \in cur.net.traffic_mode
                       THEN Counted(rt, seen)[d] + cur.net.calibration[d] ELSE 0
    BY DEF Display
  <2>5. 0 <= seen_ever[d] - rt.since[d]
    BY <2>1, <2>2, <2>3
  <2> QED BY <1>1, <2>1, <2>2, <2>3, <2>4, <2>5
<1> QED BY <1>2, <1>4 DEF Honest, Bound

LEMMA BuildHonest ==
  ASSUME SystemTypeOK, ShownHonest, Build
  PROVE  /\ ever' = ever /\ damaged' = damaged /\ Honest(last')
         /\ \A i \in 1..Len(channel') : Honest(channel'[i])
<1>1. ever' = ever /\ damaged' = damaged
  BY DEF Build, vars
<1>2. CASE channel = <<>>
  BY <1>1, <1>2 DEF Build, Taken, ShownHonest
<1>3. CASE channel # <<>>
  <2>1. channel \in Seq(Shown) /\ Len(channel) \in Nat /\ Len(channel) >= 1
    BY <1>3 DEF SystemTypeOK
  <2>2. last' = channel[1] /\ channel' = Tail(channel)
    BY <1>3 DEF Build, Taken
  <2>3. Len(channel') = Len(channel) - 1
          /\ \A i \in 1..Len(channel') : channel'[i] = channel[i + 1]
    BY <1>3, <2>1, <2>2
  <2> QED BY <1>1, <2>1, <2>2, <2>3 DEF ShownHonest
<1> QED BY <1>2, <1>3

LEMMA HonestInit == SystemInit /\ TypeOK => ShownHonest
BY BlankHonest DEF SystemInit, ShownHonest

LEMMA HonestNext ==
  ASSUME SystemTypeOK, MeterInv, PeriodInv, ShownHonest, [SystemNext]_systemVars
  PROVE  ShownHonest'
<1> USE DEF ShownHonest
<1>1. TypeOK /\ TypeOK' /\ [Next]_vars
  BY TypeNext, SystemStepIsMeterStep DEF SystemTypeOK, systemVars
<1>2. /\ last' = last => Honest(last)'
      /\ shown' = shown => HonestReport(shown)'
  <2>1. PICK v \in Shown : v = last
    BY DEF SystemTypeOK
  <2>2. PICK w \in Shown : w = shown
    BY DEF SystemTypeOK
  <2>3. Honest(v)' /\ HonestReport(w)'
    BY <1>1, <2>1, <2>2, HonestLater, HonestReportLater
  <2> QED BY <2>1, <2>2, <2>3 DEF Honest, HonestReport, OfItsPeriod, Bound, Faked
<1>3. \A i \in 1..Len(channel) : channel'[i] = channel[i] => Honest(channel[i])'
  <2> SUFFICES ASSUME NEW i \in 1..Len(channel), channel'[i] = channel[i]
               PROVE  Honest(channel[i])'
    OBVIOUS
  <2>1. PICK v \in Shown : v = channel[i]
    BY DEF SystemTypeOK
  <2>2. Honest(v)'
    BY <1>1, <2>1, HonestLater
  <2> QED BY <2>1, <2>2 DEF Honest, OfItsPeriod, Bound
<1>4. CASE StartStep \/ WorldStep \/ Connect \/ Outage \/ ServerBack
           \/ UNCHANGED systemVars
  <2>1. UNCHANGED <<last, shown, channel>>
    BY <1>4 DEF StartStep, WorldStep, Connect, Outage, ServerBack, systemVars, reports
  <2> QED BY <1>2, <1>3, <2>1
<1>5. CASE SaverStep
  <2>1. CASE pc = "send"
    <3>1. Send
      BY <1>5, <2>1, SendStep DEF SaverStep
    <3>2. PICK w \in Shown : w = sent'
      BY <1>1 DEF TypeOK
    <3>3. Honest(w)'
      BY <1>1, <3>1, <3>2, SentHonest, HonestLater
    <3>4. channel' = Append(channel, w) /\ last' = last /\ shown' = shown
      BY <1>5, <2>1, <3>2 DEF SaverStep
    <3>5. /\ Len(channel') = Len(channel) + 1 /\ Len(channel) \in Nat
          /\ \A i \in 1..Len(channel) : channel'[i] = channel[i]
          /\ channel'[Len(channel) + 1] = w
      BY <3>4 DEF SystemTypeOK
    <3>6. \A i \in 1..Len(channel') : i \in 1..Len(channel) \/ i = Len(channel) + 1
      BY <3>5
    <3>7. ASSUME NEW i \in 1..Len(channel') PROVE Honest(channel[i])'
      <4>1. CASE i \in 1..Len(channel)
        BY <1>3, <3>5, <4>1
      <4>2. CASE i = Len(channel) + 1
        <5>1. channel'[i] = w
          BY <3>5, <4>2
        <5> QED BY <3>3, <5>1 DEF Honest, OfItsPeriod, Bound
      <4> QED BY <3>6, <4>1, <4>2
    <3> QED BY <1>2, <3>4, <3>7
  <2>2. CASE pc # "send"
    BY <1>2, <1>3, <1>5, <2>2 DEF SaverStep
  <2> QED BY <2>1, <2>2
<1>6. CASE FaultStep
  <2>1. CASE pc' = "down"
    <3>1. /\ channel' = <<>> /\ last' = Blank /\ shown' = shown
      BY <1>6, <2>1 DEF FaultStep
    <3>2. PICK v \in Shown : v = Blank
      BY BlankType
    <3>3. Honest(v)'
      BY <1>1, <3>2, BlankHonest, HonestLater
    <3>4. Honest(last)'
      BY <3>1, <3>2, <3>3 DEF Honest, OfItsPeriod, Bound
    <3> QED BY <1>2, <3>1, <3>4
  <2>2. CASE pc' # "down"
    BY <1>2, <1>3, <1>6, <2>2 DEF FaultStep
  <2> QED BY <2>1, <2>2
<1>7. CASE Report \/ ReportLost \/ ReportFails
  <2>1. Build
    BY <1>7 DEF Report, ReportLost, ReportFails
  <2>2. /\ UNCHANGED <<ever, damaged>> /\ Honest(last') /\ last' \in Shown
        /\ \A i \in 1..Len(channel') : Honest(channel'[i])
    BY <2>1, BuildHonest, BuildType
  <2>3. Honest(last)' /\ \A i \in 1..Len(channel') : Honest(channel[i])'
    BY <2>2 DEF Honest, OfItsPeriod, Bound
  <2>4. HonestReport(shown)'
    <3>1. CASE shown' = Reported(last')
      <4>1. PICK v \in Shown : v = last'
        BY <2>2
      <4>2. HonestReport(Reported(v))
        BY <1>1, <2>2, <4>1, ReportedHonest
      <4>3. PICK w : w = shown'
        OBVIOUS
      <4>4. HonestReport(w)
        BY <3>1, <4>1, <4>2, <4>3
      <4> QED BY <2>2, <4>3, <4>4 DEF HonestReport, OfItsPeriod, Bound, Faked
    <3>2. CASE shown' = shown
      BY <1>2, <3>2
    <3> QED BY <1>7, <3>1, <3>2 DEF Report, ReportLost, ReportFails
  <2> QED BY <2>3, <2>4
<1> QED BY <1>4, <1>5, <1>6, <1>7 DEF SystemNext, MainStep

(***************************************************************************)
(* NETWORK_RESET_GUIDE.md:61, from end to end: on Linux no value on its    *)
(* way to the server or (faked) shown there exceeds the traffic it counts  *)
(* and its calibration, and that traffic is of its period unless a record  *)
(* was lost - for every capacity and any faults.                           *)
(***************************************************************************)
THEOREM ShownHonestOnLinux ==
  ASSUME Platform = "linux"
  PROVE  SystemSpec => []ShownHonest
<1>1. SystemInit /\ SystemTypeOK => ShownHonest
  BY HonestInit DEF SystemTypeOK
<1>2. SystemTypeOK /\ MeterInv /\ PeriodInv /\ ShownHonest /\ [SystemNext]_systemVars
        => ShownHonest'
  BY HonestNext
<1>3. Spec => []MeterInv /\ []PeriodInv
  BY MeterCorrect, PeriodCorrect
<1> QED BY <1>1, <1>2, <1>3, SystemImplementsMeter, SystemTypeCorrect, PTL DEF SystemSpec

-----------------------------------------------------------------------------
(***************************************************************************)
(* What the server is shown never goes down: ReportsInv.                   *)
(***************************************************************************)
LEMMA ReachedAgain ==
  ASSUME Platform = "linux", SystemTypeOK, MeterInv, BootInv, [Next]_vars,
         NEW v \in Shown, StaysReached(v)
  PROVE  StaysReached(v)'
BY ReachedNext DEF SystemTypeOK

LEMMA ShrunkForGood ==
  ASSUME [Next]_vars, ~shrunk' PROVE ~shrunk
<1>1. CASE Saver \/ Start
  <2>1. shrunk' = shrunk
    BY <1>1, Zenon DEF host, Saver, Start, OpenExisting, OpenFresh, Merge, KeepRecord,
       Truncate, Write, Sample, Reset, NoCalibration, LoadCalibration, TruncateConfig,
       WriteConfig, CountSample, SaveSample, Send
  <2> QED BY <2>1
<1>2. CASE World
  BY <1>2 DEF host, World, Traffic, InterfaceGone, Tick, EditConfig, Writeback
<1>3. CASE Fault
  <2>1. shrunk' = shrunk
    BY <1>3, Zenon DEF host, Fault, Crash, Reboot, LosePower, Stop, OpenFails,
       RewriteFails, ConfigFails
  <2> QED BY <2>1
<1>4. CASE UNCHANGED vars
  BY <1>4 DEF vars
<1> QED BY <1>1, <1>2, <1>3, <1>4 DEF Next

LEMMA BlankReached == TypeOK /\ MeterInv => StaysReached(Blank)
<1> SUFFICES ASSUME TypeOK, MeterInv PROVE StaysReached(Blank)
  OBVIOUS
<1>1. Blank.boot = 0 /\ boot >= 1 /\ boot \in Nat
  BY DEF Blank, MeterInv, TypeOK
<1>2. Within(Blank, Minus(ever, Blank.since)) /\ Within(Blank, Minus(seen_ever, Blank.since))
  BY HostType DEF Within, Blank, Minus, Zero, NoConfig
<1> QED BY <1>1, <1>2 DEF StaysReached

LEMMA ReportsInit == SystemInit => ReportsInv
<1> SUFFICES ASSUME SystemInit PROVE ReportsInv
  OBVIOUS
<1>1. TypeOK
  BY TypeInit DEF SystemInit
<1>2. boot = 1 /\ pc = "down"
  BY DEF SystemInit, Init
<1>3. Within(Blank, Minus(ever, Blank.since))
  BY <1>1, HostType DEF Within, Blank, Minus, Zero, NoConfig
<1>4. StaysReached(Blank)
  BY <1>2, <1>3 DEF StaysReached, Blank, HasSeen
<1> QED BY <1>4 DEF SystemInit, ReportsInv

LEMMA ReachedStill ==
  ASSUME Platform = "linux", SystemTypeOK, MeterInv, BootInv, [Next]_vars
  PROVE  /\ StaysReached(best) /\ best' = best => StaysReached(best)'
         /\ StaysReached(last) /\ last' = last => StaysReached(last)'
         /\ \A i \in 1..Len(channel) :
              StaysReached(channel[i]) /\ channel'[i] = channel[i]
                => StaysReached(channel[i])'
<1>1. ASSUME StaysReached(best), best' = best PROVE StaysReached(best)'
  <2>1. PICK v \in Shown : v = best
    BY DEF SystemTypeOK
  <2>2. StaysReached(v)'
    BY <1>1, <2>1, ReachedAgain
  <2> QED BY <1>1, <2>1, <2>2 DEF StaysReached, Within
<1>2. ASSUME StaysReached(last), last' = last PROVE StaysReached(last)'
  <2>1. PICK v \in Shown : v = last
    BY DEF SystemTypeOK
  <2>2. StaysReached(v)'
    BY <1>2, <2>1, ReachedAgain
  <2> QED BY <1>2, <2>1, <2>2 DEF StaysReached, Within
<1>3. ASSUME NEW i \in 1..Len(channel), StaysReached(channel[i]), channel'[i] = channel[i]
      PROVE  StaysReached(channel[i])'
  <2>1. PICK v \in Shown : v = channel[i]
    BY DEF SystemTypeOK
  <2>2. StaysReached(v)'
    BY <1>3, <2>1, ReachedAgain
  <2> QED BY <1>3, <2>1, <2>2 DEF StaysReached, Within
<1> QED BY <1>1, <1>2, <1>3

LEMMA ReportsQuiet ==
  ASSUME Platform = "linux", SystemTypeOK, MeterInv, BootInv, ReportsInv, [Next]_vars,
         UNCHANGED <<best, last, channel>>
  PROVE  ReportsInv'
<1>1. /\ StaysReached(best)' /\ StaysReached(last)'
      /\ \A i \in 1..Len(channel) : StaysReached(channel[i])'
  BY ReachedStill DEF ReportsInv
<1>2. ~shrunk' => ~shrunk
  BY ShrunkForGood
<1> QED BY <1>1, <1>2 DEF ReportsInv, Ordered, Blank

LEMMA ReportsSend ==
  ASSUME Platform = "linux", SystemTypeOK, MeterInv, BootInv, ReportsInv, Send,
         channel' = Append(channel, sent'), UNCHANGED <<best, last>>
  PROVE  ReportsInv'
<1>1. [Next]_vars /\ TypeOK
  BY DEF Next, Saver, SystemTypeOK
<1>2. PICK w \in Shown : w = sent'
  BY <1>1, TypeNext DEF TypeOK, Shown
<1>3. StaysReached(w)' /\ w.boot >= 1
  BY <1>1, <1>2, SentReached, SentValue DEF MeterInv
<1>4. /\ Len(channel) \in Nat /\ Len(channel') = Len(channel) + 1
      /\ \A i \in 1..Len(channel) : channel'[i] = channel[i] /\ channel[i] \in Shown
      /\ channel'[Len(channel) + 1] = w
  BY <1>2 DEF SystemTypeOK
<1>5. \A i \in 1..Len(channel') : i \in 1..Len(channel) \/ i = Len(channel) + 1
  BY <1>4
<1>6. StaysReached(best)' /\ StaysReached(last)'
  BY <1>1, ReachedStill DEF ReportsInv
<1>7. ASSUME NEW i \in 1..Len(channel')
      PROVE  StaysReached(channel[i])' /\ channel'[i].boot >= 1
  <2>1. CASE i \in 1..Len(channel)
    BY <1>1, <1>4, <2>1, ReachedStill DEF ReportsInv
  <2>2. CASE i = Len(channel) + 1
    <3>1. channel'[i] = w
      BY <1>4, <2>2
    <3> QED BY <1>3, <3>1 DEF StaysReached, Within
  <2> QED BY <1>5, <2>1, <2>2
<1>8. ASSUME ~shrunk
      PROVE  Ordered(best, w) /\ \A i \in 1..Len(channel) : Ordered(channel[i], w)
  <2>1. \A v \in Shown : StaysReached(v) => Ordered(v, w)
    BY <1>1, <1>2, <1>8, SentOrdered
  <2> QED BY <1>4, <2>1 DEF ReportsInv, SystemTypeOK
<1>9. shrunk' = shrunk
  BY DEF Send, host
<1>10. ASSUME ~shrunk
       PROVE  /\ last # Blank => Ordered(best, last)
              /\ \A i \in 1..Len(channel') : Ordered(best, channel'[i])
              /\ \A i, j \in 1..Len(channel') : i < j => Ordered(channel'[i], channel'[j])
  <2>1. /\ last # Blank => Ordered(best, last)
        /\ \A i \in 1..Len(channel) : Ordered(best, channel[i])
        /\ \A i, j \in 1..Len(channel) : i < j => Ordered(channel[i], channel[j])
    BY <1>10 DEF ReportsInv
  <2>2. \A i \in 1..Len(channel') : Ordered(best, channel'[i])
    BY <1>4, <1>5, <1>8, <1>10, <2>1
  <2>3. ASSUME NEW i \in 1..Len(channel'), NEW j \in 1..Len(channel'), i < j
        PROVE  Ordered(channel'[i], channel'[j])
    <3>1. i \in 1..Len(channel)
      BY <1>4, <2>3
    <3>2. CASE j \in 1..Len(channel)
      BY <1>4, <2>1, <2>3, <3>1, <3>2
    <3>3. CASE j = Len(channel) + 1
      BY <1>4, <1>8, <1>10, <3>1, <3>3
    <3> QED BY <1>5, <3>2, <3>3
  <2> QED BY <2>1, <2>2, <2>3
<1> QED BY <1>6, <1>7, <1>9, <1>10 DEF ReportsInv, Ordered, Blank

LEMMA ReportsDown ==
  ASSUME Platform = "linux", SystemTypeOK, MeterInv, BootInv, ReportsInv, [Next]_vars,
         channel' = <<>>, last' = Blank, UNCHANGED best
  PROVE  ReportsInv'
<1>1. StaysReached(best)'
  BY ReachedStill DEF ReportsInv
<1>2. StaysReached(Blank)
  BY BlankReached DEF SystemTypeOK
<1>3. StaysReached(last)'
  <2>1. PICK v \in Shown : v = Blank
    BY BlankType
  <2>2. StaysReached(v)'
    BY <1>2, <2>1, ReachedAgain
  <2> QED BY <2>1, <2>2 DEF StaysReached, Within
<1>4. 1..Len(<<>>) = {} /\ Blank' = Blank
  BY DEF Blank, Zero, NoConfig
<1> QED BY <1>1, <1>3, <1>4 DEF ReportsInv

(***************************************************************************)
(* A report takes the first value of the channel, if there is one.         *)
(***************************************************************************)
LEMMA BuildTakes ==
  ASSUME SystemTypeOK, Build
  PROVE  \/ channel = <<>> /\ channel' = <<>> /\ last' = last
         \/ /\ Len(channel) \in Nat /\ Len(channel) >= 1 /\ last' = channel[1]
            /\ Len(channel') = Len(channel) - 1
            /\ \A i \in 1..Len(channel') : /\ i + 1 \in 1..Len(channel)
                                           /\ channel'[i] = channel[i + 1]
<1>1. CASE channel = <<>>
  BY <1>1 DEF Build, Taken
<1>2. CASE channel # <<>>
  <2>1. channel \in Seq(Shown) /\ Len(channel) \in Nat /\ Len(channel) >= 1
    BY <1>2 DEF SystemTypeOK
  <2>2. last' = channel[1] /\ channel' = Tail(channel)
    BY <1>2 DEF Build, Taken
  <2>3. Len(channel') = Len(channel) - 1
          /\ \A i \in 1..Len(channel') : channel'[i] = channel[i + 1]
    BY <1>2, <2>1, <2>2
  <2>4. \A i \in 1..Len(channel') : i + 1 \in 1..Len(channel)
    BY <2>1, <2>3
  <2> QED BY <2>1, <2>2, <2>3, <2>4
<1> QED BY <1>1, <1>2

LEMMA ReportsBuild ==
  ASSUME SystemTypeOK, ReportsInv, Build, best' = best \/ (best' = last' /\ last' # Blank)
  PROVE  ReportsInv'
<1>1. UNCHANGED <<boot, total, ever, shrunk, rt, file, seen, seen_ever, pc, site>>
  BY DEF Build, vars
<1>2. ASSUME NEW v, StaysReached(v) PROVE StaysReached(v)'
  BY <1>1, <1>2 DEF StaysReached, Within, Counted, Monus, Plus, Minus, HasSeen, HasRecord
<1>3. StaysReached(best) /\ StaysReached(last)
        /\ \A i \in 1..Len(channel) : StaysReached(channel[i]) /\ channel[i].boot >= 1
  BY DEF ReportsInv
<1>4. ASSUME NEW v, v = last' PROVE StaysReached(v)
  BY <1>3, <1>4, BuildTakes
<1>5. StaysReached(last)'
  <2>1. PICK v : v = last'
    OBVIOUS
  <2> QED BY <1>2, <1>4, <2>1 DEF StaysReached, Within
<1>6. StaysReached(best)'
  <2>1. PICK v : v = best'
    OBVIOUS
  <2>2. StaysReached(v)
    BY <1>3, <1>4, <2>1
  <2> QED BY <1>2, <2>1, <2>2 DEF StaysReached, Within
<1>7. ASSUME NEW i \in 1..Len(channel')
      PROVE  StaysReached(channel[i])' /\ channel'[i].boot >= 1
  <2>1. PICK v : v = channel'[i]
    OBVIOUS
  <2>2. i + 1 \in 1..Len(channel) /\ channel'[i] = channel[i + 1]
    BY <1>7, BuildTakes
  <2>3. StaysReached(v) /\ v.boot >= 1
    BY <1>3, <2>1, <2>2
  <2> QED BY <1>2, <2>1, <2>3 DEF StaysReached, Within
<1>8. ASSUME ~shrunk
      PROVE  /\ last' # Blank => Ordered(best', last')
             /\ \A i \in 1..Len(channel') : Ordered(best', channel'[i])
             /\ \A i, j \in 1..Len(channel') : i < j => Ordered(channel'[i], channel'[j])
  <2>1. /\ last # Blank => Ordered(best, last)
        /\ \A i \in 1..Len(channel) : Ordered(best, channel[i])
        /\ \A i, j \in 1..Len(channel) : i < j => Ordered(channel[i], channel[j])
    BY <1>8 DEF ReportsInv
  <2>2. Ordered(last', last')
    <3>1. last' \in Shown
      BY BuildType
    <3> QED BY <3>1, ShownFields DEF Ordered
  <2>3. CASE channel = <<>> /\ channel' = <<>> /\ last' = last
    BY <2>1, <2>2, <2>3
  <2>4. CASE /\ Len(channel) \in Nat /\ Len(channel) >= 1 /\ last' = channel[1]
             /\ Len(channel') = Len(channel) - 1
             /\ \A i \in 1..Len(channel') : /\ i + 1 \in 1..Len(channel)
                                            /\ channel'[i] = channel[i + 1]
    <3>1. 1 \in 1..Len(channel) /\ Ordered(best, last')
      BY <2>1, <2>4
    <3>2. \A i \in 1..Len(channel') : Ordered(best, channel'[i]) /\ Ordered(last', channel'[i])
      BY <2>1, <2>4, <3>1
    <3>3. \A i, j \in 1..Len(channel') : i < j => Ordered(channel'[i], channel'[j])
      BY <2>1, <2>4
    <3> QED BY <2>2, <3>1, <3>2, <3>3
  <2> QED BY <2>3, <2>4, BuildTakes
<1>9. Blank' = Blank
  BY DEF Blank, Zero, NoConfig
<1>10. last' = Blank \/ last'.boot >= 1
  BY <1>3, BuildTakes DEF ReportsInv
<1> QED BY <1>1, <1>5, <1>6, <1>7, <1>8, <1>9, <1>10 DEF ReportsInv, Ordered, SameMeter, SamePeriod

LEMMA ReportsNext ==
  ASSUME Platform = "linux", SystemTypeOK, MeterInv, BootInv, ReportsInv,
         [SystemNext]_systemVars
  PROVE  ReportsInv'
<1>1. [Next]_vars
  BY SystemStepIsMeterStep DEF systemVars
<1>2. CASE StartStep \/ WorldStep \/ Connect \/ Outage \/ ServerBack \/ UNCHANGED systemVars
  BY <1>1, <1>2, ReportsQuiet DEF StartStep, WorldStep, Connect, Outage, ServerBack,
     systemVars, reports
<1>3. CASE SaverStep
  <2>1. CASE pc = "send"
    BY <1>3, <2>1, SendStep, ReportsSend DEF SaverStep
  <2>2. CASE pc # "send"
    BY <1>1, <1>3, <2>2, ReportsQuiet DEF SaverStep
  <2> QED BY <2>1, <2>2
<1>4. CASE FaultStep
  <2>1. CASE pc' = "down"
    BY <1>1, <1>4, <2>1, ReportsDown DEF FaultStep
  <2>2. CASE pc' # "down"
    BY <1>1, <1>4, <2>2, ReportsQuiet DEF FaultStep
  <2> QED BY <2>1, <2>2
<1>5. CASE Report
  BY <1>5, ReportsBuild DEF Report
<1>6. CASE ReportLost \/ ReportFails
  BY <1>6, ReportsBuild DEF ReportLost, ReportFails
<1> QED BY <1>2, <1>3, <1>4, <1>5, <1>6 DEF SystemNext, MainStep

(***************************************************************************)
(* End to end on Linux: within one boot, one period and one configuration  *)
(* what the server is shown never goes down, through restarts and outages  *)
(* and with a channel of any capacity, but for the (0, 0) of a process     *)
(* that has not reported a sample yet.                                     *)
(***************************************************************************)
THEOREM ShownMonotoneOnLinux ==
  ASSUME Platform = "linux"
  PROVE  SystemSpec => ShownMonotone
<1>1. SystemTypeOK /\ MeterInv /\ BootInv /\ ReportsInv /\ [SystemNext]_systemVars
        => ReportsInv'
  BY ReportsNext
<1>2. SystemTypeOK /\ ReportsInv /\ [SystemNext]_systemVars
        => [Report =>
              /\ shown' = Blank => last = Blank
              /\ ~shrunk /\ SameMeter(best', best)
                   => \A d \in Dirs :
                        Reported(best').value[d] >= Reported(best).value[d]]_systemVars
  <2> SUFFICES ASSUME SystemTypeOK, ReportsInv, Report
               PROVE  /\ shown' = Blank => last = Blank
                      /\ ~shrunk /\ SameMeter(best', best)
                           => \A d \in Dirs :
                                Reported(best').value[d] >= Reported(best).value[d]
    OBVIOUS
  <2>1. Build /\ shown' = Reported(last') /\ best' = IF last' = Blank THEN best ELSE last'
    BY DEF Report
  <2>2. last' \in Shown /\ best \in Shown /\ best' \in Shown
    BY <2>1, BuildType DEF SystemTypeOK
  <2>3. shown' = Blank => last = Blank
    <3> SUFFICES ASSUME shown' = Blank PROVE last = Blank
      OBVIOUS
    <3>1. last'.boot = 0
      BY <2>1, <2>2, ReportedValue DEF Blank
    <3>2. last' = last
      BY <2>1, <3>1, BuildTakes DEF ReportsInv
    <3> QED BY <3>1, <3>2 DEF ReportsInv
  <2>4. Ordered(best, best)
    BY ShownFields DEF SystemTypeOK, Ordered
  <2>5. ASSUME ~shrunk, last' # Blank PROVE Ordered(best, last')
    BY <2>1, <2>5, BuildTakes DEF ReportsInv
  <2>6. ASSUME ~shrunk, SameMeter(best', best), NEW d \in Dirs
        PROVE  Reported(best').value[d] >= Reported(best).value[d]
    <3>1. Ordered(best, best') /\ SameMeter(best, best')
      BY <2>1, <2>4, <2>5, <2>6 DEF SameMeter, SamePeriod
    <3>2. best.value[d] <= best'.value[d]
      BY <2>2, <3>1, ShownFields DEF Ordered
    <3>3. Faked(best.value[d]) <= Faked(best'.value[d])
      BY <2>2, <3>2, ShownFields, FakedMonotone
    <3>4. Faked(best.value[d]) \in Nat /\ Faked(best'.value[d]) \in Nat
      BY <2>2, ShownFields, FakedType
    <3> QED BY <2>2, <3>3, <3>4, ReportedValue
  <2> QED BY <2>3, <2>6
<1>3. Spec => []MeterInv /\ []BootInv
  BY MeterCorrect, BootCorrect
<1> QED BY <1>1, <1>2, <1>3, ReportsInit, SystemImplementsMeter, SystemTypeCorrect, PTL
        DEF SystemSpec, ShownMonotone

=============================================================================
