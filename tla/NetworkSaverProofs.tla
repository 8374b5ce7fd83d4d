------------------------- MODULE NetworkSaverProofs -------------------------
(***************************************************************************)
(* Proofs about the traffic meter, for every set of directions, dates and  *)
(* settings, every save interval and all bounds, with every fault the      *)
(* model has: its types; that closed periods stay closed; when calibration *)
(* ends; and, on Linux, that it counts exactly and never goes down.        *)
(***************************************************************************)
EXTENDS NetworkSaver, TLAPS

LEMMA MonusType ==
  ASSUME NEW a \in [Dirs -> Nat], NEW b \in [Dirs -> Nat]
  PROVE  Monus(a, b) \in [Dirs -> Nat]
BY DEF Monus

LEMMA PlusType ==
  ASSUME NEW a \in [Dirs -> Nat], NEW b \in [Dirs -> Nat]
  PROVE  Plus(a, b) \in [Dirs -> Nat]
BY DEF Plus

LEMMA LaterType ==
  ASSUME NEW a \in [Dirs -> Nat], NEW b \in [Dirs -> Nat]
  PROVE  Later(a, b) \in [Dirs -> Nat]
BY DEF Later

LEMMA ZeroType == Zero \in [Dirs -> Nat]
BY DEF Zero

LEMMA NoRuntimeDataType == NoRuntimeData \in RuntimeData
BY ZeroType DEF NoRuntimeData, RuntimeData, Months

LEMMA NoConfigType == NoConfig \in Config
BY ZeroType DEF NoConfig, Config, NetworkSettings, ResetDays

LEMMA BlankType == Blank \in Shown
BY ZeroType, NoConfigType DEF Blank, Shown, Config

LEMMA FileType ==
  /\ \A kind \in {"absent", "empty", "corrupt", "data"} : NoData(kind) \in RuntimeFile
  /\ \A record \in RuntimeData : Data(record) \in RuntimeFile
BY NoRuntimeDataType DEF NoData, Data, RuntimeFile

LEMMA InitialMonthType ==
  ASSUME NEW reset_day \in ResetDays, NEW date \in Dates
  PROVE  InitialLastResetMonth(reset_day, date) \in Months /\ date.month \in Months
BY DatesAssumption DEF IsDate, Date, InitialLastResetMonth, PreviousMonth, Months

LEMMA ClearedConfigType ==
  ASSUME NEW config \in Config
  PROVE  ClearedConfig(config) \in Config
BY ZeroType DEF ClearedConfig, Config, NetworkSettings

LEMMA MergedType ==
  ASSUME NEW record \in RuntimeData, boot \in Nat
  PROVE  Merged(record) \in RuntimeData
<1>1. Plus(record.accumulated, record.current_boot) \in [Dirs -> Nat]
  BY PlusType DEF RuntimeData
<1> QED BY <1>1, ZeroType DEF Merged, RuntimeData

LEMMA FreshRecordType ==
  ASSUME TypeOK PROVE FreshRecord \in RuntimeData
<1>1. InitialLastResetMonth(cur.net.reset_day, today) \in Months
  BY InitialMonthType DEF TypeOK, Config, NetworkSettings
<1> QED BY <1>1, ZeroType, LaterType DEF TypeOK, FreshRecord, RuntimeData

LEMMA ResetRecordType ==
  ASSUME TypeOK PROVE ResetRecord \in RuntimeData
<1>1. today.month \in Months
  BY DatesAssumption DEF TypeOK, IsDate, Date
<1> QED BY <1>1, ZeroType DEF TypeOK, ResetRecord, RuntimeData

LEMMA SavedRecordType ==
  ASSUME TypeOK PROVE SavedRecord \in RuntimeData
<1>1. Monus(seen, rt.boot_source) \in [Dirs -> Nat]
  BY MonusType DEF TypeOK, RuntimeData
<1> QED BY <1>1 DEF TypeOK, SavedRecord, RuntimeData

LEMMA DisplayType ==
  ASSUME TypeOK PROVE Display \in [Dirs -> Nat]
<1>1. Counted(rt, seen) \in [Dirs -> Nat]
  BY MonusType, PlusType DEF TypeOK, RuntimeData, Counted
<1>2. cur.net.calibration \in [Dirs -> Nat]
  BY DEF TypeOK, Config, NetworkSettings
<1> QED BY <1>1, <1>2 DEF Display

LEMMA TypeInit == Init => TypeOK
<1> SUFFICES ASSUME Init PROVE TypeOK
  OBVIOUS
<1>1. total \in [Dirs -> Nat]
  BY DEF Init
<1>2. PICK net \in Settings :
        /\ conf = [ok |-> TRUE, data |-> [net |-> net, rev |-> 0]]
        /\ \/ file = NoData("absent")
           \/ \E extra \in [Dirs -> 0..MaxUncounted] :
                file = Data(InstalledRecord(net.reset_day, extra))
  BY DEF Init
<1>3. net \in NetworkSettings
  BY SettingsAssumption
<1>4. conf \in ConfigFile
  BY <1>2, <1>3 DEF ConfigFile, Config
<1>5. InitialLastResetMonth(net.reset_day, today) \in Months
  BY <1>3, InitialMonthType DEF Init, NetworkSettings
<1>6. \A extra \in [Dirs -> 0..MaxUncounted] :
        InstalledRecord(net.reset_day, extra) \in RuntimeData
  <2> SUFFICES ASSUME NEW extra \in [Dirs -> 0..MaxUncounted]
               PROVE  InstalledRecord(net.reset_day, extra) \in RuntimeData
    OBVIOUS
  <2>1. extra \in [Dirs -> Nat]
    BY BoundsAssumption
  <2>2. Plus(total, extra) \in [Dirs -> Nat]
    BY <1>1, <2>1, PlusType
  <2> QED BY <1>1, <1>5, <2>1, <2>2, ZeroType DEF Init, InstalledRecord, RuntimeData
<1>7. file \in RuntimeFile /\ disk \in RuntimeFile
  BY <1>2, <1>6, FileType DEF Init
<1>8. sent \in Shown
  BY BlankType DEF Init
<1>9. /\ ever \in [Dirs -> Nat] /\ boot_ever \in [Dirs -> Nat]
      /\ seen_ever \in [Dirs -> Nat] /\ seen \in [Dirs -> Nat] /\ epoch \in [Dirs -> Nat]
      /\ closed_ever \in [Dirs -> Nat]
  BY <1>1, ZeroType DEF Init
<1>10. rt \in RuntimeData /\ cur \in Config /\ loaded \in Config
  BY NoRuntimeDataType, NoConfigType DEF Init
<1>11. save_counter \in 0..SaveEvery - 1
  BY BoundsAssumption DEF Init
<1>12. today \in Dates /\ pc \in Pcs /\ site \in Sites
  BY DEF Init, Pcs, Sites
<1>13. damaged \in BOOLEAN /\ shrunk \in BOOLEAN
  BY DEF Init
<1>14. boot \in Nat /\ closed_rev \in Int /\ starts \in Nat /\ edits \in Nat
  <2>1. boot = 1 /\ closed_rev = -1 /\ starts = 0 /\ edits = 0
    BY DEF Init
  <2> QED BY <2>1
<1> QED
  BY <1>1, <1>4, <1>7, <1>8, <1>9, <1>10, <1>11, <1>12, <1>13, <1>14 DEF TypeOK

LEMMA TypeStart == TypeOK /\ Start => TypeOK'
<1> SUFFICES ASSUME TypeOK, Start PROVE TypeOK'
  OBVIOUS
<1>1. cur' \in Config
  BY DEF TypeOK, Start, ConfigFile
<1> QED BY <1>1 DEF TypeOK, Start, host, files, Pcs

LEMMA TypeOpen == TypeOK /\ (OpenExisting \/ OpenFresh \/ OpenFails) => TypeOK'
<1> SUFFICES ASSUME TypeOK, OpenExisting \/ OpenFresh \/ OpenFails PROVE TypeOK'
  OBVIOUS
<1>1. CASE OpenExisting
  <2>1. rt' \in RuntimeData
    BY <1>1, FileType DEF TypeOK, OpenExisting, Opened, RuntimeFile
  <2> QED BY <1>1, <2>1 DEF TypeOK, OpenExisting, host, files, hist, Pcs
<1>2. CASE OpenFresh
  <2>1. rt' \in RuntimeData
    BY <1>2, FreshRecordType DEF OpenFresh
  <2>2. file' \in RuntimeFile
    BY <1>2, FileType DEF OpenFresh, Opened, NoData
  <2> QED BY <1>2, <2>1, <2>2 DEF TypeOK, OpenFresh, host, hist, Pcs, Sites
<1>3. CASE OpenFails
  <2>1. file' \in RuntimeFile
    BY <1>3, FileType DEF TypeOK, OpenFails
  <2> QED BY <1>3, <2>1 DEF TypeOK, OpenFails, host, mem, hist, Pcs
<1> QED BY <1>1, <1>2, <1>3

LEMMA TypeMerge == TypeOK /\ (Merge \/ KeepRecord) => TypeOK'
<1> SUFFICES ASSUME TypeOK, Merge \/ KeepRecord PROVE TypeOK'
  OBVIOUS
<1>1. CASE Merge
  <2>1. rt' \in RuntimeData
    BY <1>1, MergedType DEF TypeOK, Merge
  <2> QED BY <1>1, <2>1 DEF TypeOK, Merge, host, files, hist, Pcs, Sites
<1>2. CASE KeepRecord
  BY <1>2 DEF TypeOK, KeepRecord, host, files, mem, hist, Pcs
<1> QED BY <1>1, <1>2

LEMMA TypeRewrite == TypeOK /\ (Truncate \/ Write \/ RewriteFails) => TypeOK'
<1> SUFFICES ASSUME TypeOK, Truncate \/ Write \/ RewriteFails PROVE TypeOK'
  OBVIOUS
<1>0. Continue[site] \in Pcs
  BY DEF TypeOK, Continue, Sites, Pcs
<1>1. CASE Truncate
  <2>1. file' \in RuntimeFile
    BY <1>1, FileType DEF Truncate
  <2> QED BY <1>1, <2>1 DEF TypeOK, Truncate, host, mem, hist, Pcs
<1>2. CASE Write
  <2>1. file' \in RuntimeFile
    BY <1>2, FileType DEF TypeOK, Write
  <2>2. epoch' \in [Dirs -> Nat]
    BY <1>2, LaterType DEF TypeOK, Write, RuntimeData
  <2> QED BY <1>0, <1>2, <2>1, <2>2 DEF TypeOK, Write, host, mem, Sites
<1>3. CASE RewriteFails
  <2>1. pc' \in Pcs
    BY <1>0, <1>3 DEF RewriteFails, Pcs
  <2> QED BY <1>3, <2>1 DEF TypeOK, RewriteFails, host, files, mem, hist
<1> QED BY <1>1, <1>2, <1>3

LEMMA TypeReset == TypeOK /\ (Sample \/ Reset) => TypeOK'
<1> SUFFICES ASSUME TypeOK, Sample \/ Reset PROVE TypeOK'
  OBVIOUS
<1>1. CASE Sample
  <2>1. cur' \in Config
    BY <1>1 DEF TypeOK, Sample, Reloaded, ConfigFile
  <2>2. pc' \in Pcs
    BY <1>1 DEF Sample, Pcs
  <2> QED BY <1>1, <2>1, <2>2 DEF TypeOK, Sample, host, files, hist
<1>2. CASE Reset
  <2>1. rt' \in RuntimeData
    BY <1>2, ResetRecordType DEF Reset
  <2> QED BY <1>2, <2>1 DEF TypeOK, Reset, host, files, Pcs, Sites
<1> QED BY <1>1, <1>2

LEMMA TypeCalibration ==
  TypeOK /\ (NoCalibration \/ LoadCalibration \/ TruncateConfig \/ WriteConfig \/ ConfigFails)
    => TypeOK'
<1> SUFFICES ASSUME TypeOK,
                    NoCalibration \/ LoadCalibration \/ TruncateConfig \/ WriteConfig
                      \/ ConfigFails
             PROVE TypeOK'
  OBVIOUS
<1>1. CASE NoCalibration
  BY <1>1 DEF TypeOK, NoCalibration, host, files, mem, hist, Pcs
<1>2. CASE LoadCalibration
  <2>1. loaded' \in Config
    BY <1>2, ClearedConfigType DEF TypeOK, LoadCalibration, ConfigFile
  <2>2. pc' \in Pcs
    BY <1>2 DEF LoadCalibration, Pcs
  <2> QED BY <1>2, <2>1, <2>2 DEF TypeOK, LoadCalibration, host, files, hist
<1>3. CASE TruncateConfig
  <2>1. conf' \in ConfigFile
    BY <1>3 DEF TypeOK, TruncateConfig, ConfigFile
  <2> QED BY <1>3, <2>1 DEF TypeOK, TruncateConfig, host, mem, hist, Pcs
<1>4. CASE WriteConfig
  <2>1. conf' \in ConfigFile
    BY <1>4 DEF TypeOK, WriteConfig, ConfigFile
  <2>2. cur' \in Config /\ loaded' \in Config
    BY <1>4, ClearedConfigType, NoConfigType DEF TypeOK, WriteConfig
  <2> QED BY <1>4, <2>1, <2>2 DEF TypeOK, WriteConfig, host, hist, Pcs
<1>5. CASE ConfigFails
  <2>1. loaded' \in Config
    BY <1>5, NoConfigType DEF ConfigFails
  <2> QED BY <1>5, <2>1 DEF TypeOK, ConfigFails, host, files, hist, Pcs
<1> QED BY <1>1, <1>2, <1>3, <1>4, <1>5

LEMMA TypeCount == TypeOK /\ (CountSample \/ SaveSample \/ Send) => TypeOK'
<1> SUFFICES ASSUME TypeOK, CountSample \/ SaveSample \/ Send PROVE TypeOK'
  OBVIOUS
<1>1. CASE CountSample
  <2>1. save_counter' \in 0..SaveEvery - 1
    BY <1>1, BoundsAssumption DEF TypeOK, CountSample
  <2> QED BY <1>1, <2>1 DEF TypeOK, CountSample, host, files, hist, Pcs
<1>2. CASE SaveSample
  <2>1. save_counter' \in 0..SaveEvery - 1
    BY <1>2, BoundsAssumption DEF SaveSample
  <2>2. rt' \in RuntimeData
    BY <1>2, SavedRecordType DEF SaveSample
  <2> QED BY <1>2, <2>1, <2>2 DEF TypeOK, SaveSample, host, files, hist, Pcs, Sites
<1>3. CASE Send
  <2>1. sent' \in Shown
    BY <1>3, DisplayType DEF TypeOK, Send, RuntimeData, Config, Shown
  <2> QED BY <1>3, <2>1, ZeroType DEF TypeOK, Send, host, files, hist, Pcs
<1> QED BY <1>1, <1>2, <1>3

LEMMA TypeStop ==
  ASSUME TypeOK, Stop,
         boot' \in Nat, total' \in [Dirs -> Nat], boot_ever' \in [Dirs -> Nat],
         file' \in RuntimeFile, disk' \in RuntimeFile, conf' = conf, damaged' \in BOOLEAN
  PROVE  TypeOK'
<1>1. /\ rt' \in RuntimeData /\ cur' \in Config /\ loaded' \in Config
      /\ seen' \in [Dirs -> Nat] /\ seen_ever' \in [Dirs -> Nat]
  BY NoRuntimeDataType, NoConfigType, ZeroType DEF Stop
<1>2. save_counter' \in 0..SaveEvery - 1
  BY BoundsAssumption DEF Stop
<1>3. pc' \in Pcs /\ site' \in Sites
  BY DEF Stop, Pcs, Sites
<1> QED BY <1>1, <1>2, <1>3 DEF TypeOK, Stop

LEMMA TypeFault == TypeOK /\ (Crash \/ Reboot \/ LosePower) => TypeOK'
<1> SUFFICES ASSUME TypeOK, Crash \/ Reboot \/ LosePower PROVE TypeOK'
  OBVIOUS
<1>0. RecordLost \in BOOLEAN
  BY DEF RecordLost
<1>1. CASE Crash
  <2>1. damaged' \in BOOLEAN
    BY <1>0, <1>1 DEF TypeOK, Crash
  <2> QED BY <1>1, <2>1, TypeStop DEF TypeOK, Crash
<1>2. CASE Reboot
  <2>1. damaged' \in BOOLEAN
    BY <1>0, <1>2 DEF TypeOK, Reboot
  <2> QED BY <1>2, <2>1, TypeStop, ZeroType DEF TypeOK, Reboot
<1>3. CASE LosePower
  <2>1. damaged' \in BOOLEAN
    BY <1>0, <1>3 DEF TypeOK, LosePower
  <2>2. file' \in RuntimeFile /\ disk' \in RuntimeFile
    BY <1>3, FileType DEF TypeOK, LosePower
  <2> QED BY <1>3, <2>1, <2>2, TypeStop, ZeroType DEF TypeOK, LosePower
<1> QED BY <1>1, <1>2, <1>3

LEMMA TypeWorld == TypeOK /\ World => TypeOK'
<1> SUFFICES ASSUME TypeOK, World PROVE TypeOK'
  OBVIOUS
<1>1. CASE Traffic
  <2>1. total' \in [Dirs -> Nat] /\ ever' \in [Dirs -> Nat]
    BY <1>1 DEF TypeOK, Traffic
  <2> QED BY <1>1, <2>1 DEF TypeOK, Traffic, files, mem, hist
<1>2. CASE InterfaceGone
  <2>1. total' \in [Dirs -> Nat]
    BY <1>2 DEF TypeOK, InterfaceGone
  <2>2. shrunk' \in BOOLEAN
    BY <1>2 DEF InterfaceGone
  <2> QED BY <1>2, <2>1, <2>2 DEF TypeOK, InterfaceGone, files, mem, hist
<1>3. CASE Tick
  BY <1>3 DEF TypeOK, Tick, files, mem, hist
<1>4. CASE EditConfig
  <2>1. edits' \in Nat /\ edits + 1 \in Nat
    BY <1>4 DEF TypeOK, EditConfig
  <2>2. conf' \in ConfigFile
    <3>1. CASE conf' = [conf EXCEPT !.ok = FALSE]
      BY <3>1 DEF TypeOK, ConfigFile
    <3>2. ASSUME NEW net \in Settings,
                 conf' = [ok |-> TRUE, data |-> [net |-> net, rev |-> edits + 1]]
          PROVE  conf' \in ConfigFile
      <4>1. [net |-> net, rev |-> edits + 1] \in Config
        BY <2>1, SettingsAssumption DEF Config
      <4> QED BY <3>2, <4>1 DEF ConfigFile
    <3> QED BY <1>4, <3>1, <3>2 DEF EditConfig
  <2> QED BY <1>4, <2>1, <2>2 DEF TypeOK, EditConfig, host, mem
<1>5. CASE Writeback
  BY <1>5 DEF TypeOK, Writeback, host, mem, hist
<1> QED BY <1>1, <1>2, <1>3, <1>4, <1>5 DEF World

LEMMA TypeStutter == TypeOK /\ UNCHANGED vars => TypeOK'
BY DEF TypeOK, vars

LEMMA TypeNext == TypeOK /\ [Next]_vars => TypeOK'
BY TypeStart, TypeOpen, TypeMerge, TypeRewrite, TypeReset, TypeCalibration, TypeCount,
   TypeFault, TypeWorld, TypeStutter
DEF Next, Saver, Fault

(***************************************************************************)
(* Every reachable state is well typed: in particular the record in memory *)
(* and the one in the file are always complete RuntimeData, and            *)
(* saturating_sub keeps every counter a natural number.                    *)
(***************************************************************************)
THEOREM TypeCorrect == Spec => []TypeOK
<1>1. Init => TypeOK
  BY TypeInit
<1>2. TypeOK /\ [Next]_vars => TypeOK'
  BY TypeNext
<1> QED BY <1>1, <1>2, PTL DEF Spec

-----------------------------------------------------------------------------
(***************************************************************************)
(* A period closed on disk stays closed unless a record was lost: on every *)
(* platform, PeriodInv is inductive and implies PeriodStaysClosed.         *)
(***************************************************************************)
LEMMA SinceType ==
  ASSUME TypeOK
  PROVE  /\ rt.since \in [Dirs -> Nat] /\ file.data.since \in [Dirs -> Nat]
         /\ disk.data.since \in [Dirs -> Nat] /\ ever \in [Dirs -> Nat]
         /\ boot_ever \in [Dirs -> Nat] /\ seen_ever \in [Dirs -> Nat]
         /\ epoch \in [Dirs -> Nat] /\ NoRuntimeData.since = Zero
         /\ rt.opened \in [Dirs -> Nat] /\ file.data.opened \in [Dirs -> Nat]
         /\ disk.data.opened \in [Dirs -> Nat] /\ closed_ever \in [Dirs -> Nat]
         /\ NoRuntimeData.opened = Zero
BY DEF TypeOK, RuntimeFile, RuntimeData, NoRuntimeData

LEMMA NotBeforeOrder ==
  ASSUME NEW f \in [Dirs -> Nat]
  PROVE  /\ NotBefore(f, f)
         /\ NotBefore(f, Zero)
         /\ \A g \in [Dirs -> Nat], h \in [Dirs -> Nat] :
              NotBefore(f, g) /\ NotBefore(g, h) => NotBefore(f, h)
BY DEF NotBefore, Zero

LEMMA PeriodInit == Init => PeriodInv
<1> SUFFICES ASSUME Init PROVE PeriodInv
  OBVIOUS
<1>1. TypeOK
  BY TypeInit
<1>2. /\ boot_ever = Zero /\ epoch = Zero /\ disk = file /\ rt = NoRuntimeData
      /\ pc = "down" /\ site = "none" /\ closed_ever = Zero
  BY DEF Init
<1>3. NotBefore(ever, Zero) /\ NotBefore(ever, ever)
  BY <1>1, SinceType, NotBeforeOrder
<1>4. NotBefore(ever, file.data.since) /\ file.data.since = file.data.opened
  <2>1. CASE file = NoData("absent")
    BY <1>1, <1>3, <2>1, SinceType DEF NoData
  <2>2. ASSUME NEW net \in Settings, NEW extra \in [Dirs -> 0..MaxUncounted],
               file = Data(InstalledRecord(net.reset_day, extra))
        PROVE  NotBefore(ever, file.data.since) /\ file.data.since = file.data.opened
    BY <1>3, <2>2 DEF Data, InstalledRecord
  <2> QED BY <2>1, <2>2 DEF Init
<1>5. NotBefore(file.data.since, Zero) /\ NotBefore(file.data.opened, file.data.since)
  BY <1>1, <1>4, SinceType, NotBeforeOrder
<1>6. NotBefore(Zero, Zero)
  BY ZeroType, NotBeforeOrder
<1> QED BY <1>1, <1>2, <1>3, <1>4, <1>5, <1>6, SinceType DEF PeriodInv, HasSeen

LEMMA PeriodOpen ==
  ASSUME TypeOK, PeriodInv,
         Start \/ OpenExisting \/ OpenFresh \/ OpenFails \/ Merge \/ KeepRecord
  PROVE  PeriodInv'
<1>1. CASE Start
  BY <1>1 DEF Start, host, files, PeriodInv, NotBefore, HasSeen
<1>2. CASE OpenExisting
  BY <1>2 DEF OpenExisting, Opened, NoData, host, files, hist, PeriodInv, NotBefore, HasSeen
<1>3. CASE OpenFresh
  <2>1. file.kind # "data" /\ site = "none"
    BY <1>3 DEF OpenFresh, Opened, PeriodInv
  <2>2. ~damaged => epoch = Zero /\ closed_ever = Zero
    BY <2>1 DEF PeriodInv
  <2>3. /\ rt'.since = boot_ever /\ rt'.opened = Later(boot_ever, closed_ever)
        /\ file'.kind = "empty" /\ file'.data.since = Zero /\ file'.data.opened = Zero
    BY <1>3, <2>1, SinceType DEF OpenFresh, Opened, NoData, FreshRecord
  <2>4. NotBefore(boot_ever, Zero) /\ NotBefore(ever, Zero) /\ NotBefore(Zero, Zero)
    BY SinceType, ZeroType, NotBeforeOrder
  <2>5. NotBefore(Later(boot_ever, closed_ever), boot_ever)
    BY SinceType DEF NotBefore, Later
  <2>6. Later(boot_ever, Zero) = boot_ever
    BY SinceType DEF Later, Zero
  <2> QED BY <1>3, <2>2, <2>3, <2>4, <2>5, <2>6 DEF OpenFresh, host, hist, PeriodInv, NotBefore, HasSeen
<1>4. CASE OpenFails
  <2>1. \/ file' = file
        \/ /\ file.kind = "corrupt" /\ file'.kind = "absent"
           /\ file'.data.since = Zero /\ file'.data.opened = Zero
    BY <1>4, SinceType DEF OpenFails, NoData
  <2>2. NotBefore(ever, Zero) /\ NotBefore(Zero, Zero)
    BY SinceType, ZeroType, NotBeforeOrder
  <2> QED BY <1>4, <2>1, <2>2 DEF OpenFails, host, mem, hist, PeriodInv, NotBefore, HasSeen
<1>5. CASE Merge
  <2>1. rt'.since = rt.since /\ rt'.opened = rt.opened
    BY <1>5 DEF Merge, Merged, TypeOK, RuntimeData
  <2> QED BY <1>5, <2>1 DEF Merge, host, files, hist, PeriodInv, NotBefore, HasSeen
<1>6. CASE KeepRecord
  BY <1>6 DEF KeepRecord, host, files, mem, hist, PeriodInv, NotBefore, HasSeen
<1> QED BY <1>1, <1>2, <1>3, <1>4, <1>5, <1>6

LEMMA PeriodRewrite ==
  ASSUME TypeOK, PeriodInv, Truncate \/ Write \/ RewriteFails
  PROVE  PeriodInv'
<1>0. NotBefore(ever, Zero) /\ NotBefore(Zero, Zero)
  BY SinceType, ZeroType, NotBeforeOrder
<1>1. CASE Truncate
  <2>1. file'.kind = "empty" /\ file'.data.since = Zero /\ file'.data.opened = Zero
    BY <1>1, SinceType DEF Truncate, NoData
  <2>2. HasSeen' => HasSeen
    BY <1>1 DEF Truncate, mem, HasSeen
  <2>3. ~damaged /\ site \notin {"merge", "reset", "save"} => epoch = Zero /\ closed_ever = Zero
    <3>1. site \notin {"merge", "reset", "save"} => site = "fresh"
      BY <1>1 DEF Truncate, PeriodInv, TypeOK, Sites
    <3> QED BY <1>1, <3>1 DEF Truncate, PeriodInv
  <2> QED BY <1>0, <1>1, <2>1, <2>2, <2>3 DEF Truncate, host, mem, hist, PeriodInv, NotBefore
<1>2. CASE Write
  <2>1. /\ file'.kind = "data" /\ file'.data.since = rt.since
        /\ file'.data.opened = rt.opened /\ site' = "none"
    BY <1>2 DEF Write, Data
  <2>2. HasSeen' => HasSeen
    BY <1>2 DEF Write, HasSeen, Continue, TypeOK, Sites
  <2>3. pc' \notin {"down", "open", "truncate", "write"}
    <3>1. site # "none"
      BY <1>2 DEF Write, PeriodInv
    <3> QED BY <1>2, <3>1 DEF Write, Continue, TypeOK, Sites
  <2>4. ~damaged => NotBefore(rt.since, epoch')
    BY <1>2, SinceType DEF Write, PeriodInv, NotBefore, Later
  <2> QED BY <1>2, <2>1, <2>2, <2>3, <2>4 DEF Write, host, mem, PeriodInv, NotBefore
<1>3. CASE RewriteFails
  <2>1. HasSeen' => HasSeen
    BY <1>3 DEF RewriteFails, HasSeen, Continue, TypeOK, Sites
  <2> QED BY <1>3, <2>1 DEF RewriteFails, Continue, host, files, mem, hist, PeriodInv, NotBefore,
                            TypeOK, Sites
<1> QED BY <1>1, <1>2, <1>3

LEMMA PeriodLoop ==
  ASSUME TypeOK, PeriodInv,
         Sample \/ Reset \/ NoCalibration \/ LoadCalibration \/ TruncateConfig
           \/ WriteConfig \/ ConfigFails \/ CountSample \/ SaveSample \/ Send
  PROVE  PeriodInv'
<1>1. CASE Sample
  <2>1. NotBefore(ever, ever)
    BY SinceType, NotBeforeOrder
  <2> QED BY <1>1, <2>1 DEF Sample, host, files, hist, PeriodInv, NotBefore, HasSeen
<1>2. CASE Reset
  <2>1. HasSeen
    BY <1>2 DEF Reset, HasSeen
  <2>2. rt'.since = seen_ever /\ rt'.opened = seen_ever
    BY <1>2 DEF Reset, ResetRecord, TypeOK, RuntimeData
  <2>3. NotBefore(seen_ever, rt.since) /\ NotBefore(ever, seen_ever)
    BY <2>1 DEF PeriodInv
  <2>4. NotBefore(seen_ever, seen_ever)
    BY SinceType, NotBeforeOrder
  <2>5. ~damaged => NotBefore(seen_ever, epoch)
    BY <1>2, <2>3, SinceType, NotBeforeOrder DEF Reset, PeriodInv
  <2>6. ~damaged => NotBefore(rt.since, epoch)
    BY <1>2 DEF Reset, PeriodInv
  <2> QED BY <1>2, <2>2, <2>3, <2>4, <2>5
      DEF Reset, host, files, PeriodInv, NotBefore, HasSeen
<1>3. CASE NoCalibration \/ LoadCalibration \/ TruncateConfig \/ WriteConfig \/ ConfigFails
  <2>1. UNCHANGED <<ever, boot_ever, rt, file, disk, seen_ever, site, epoch, damaged, closed_ever>>
    BY <1>3 DEF NoCalibration, LoadCalibration, TruncateConfig, WriteConfig, ConfigFails,
                host, files, mem, hist
  <2>2. /\ pc \notin {"down", "open", "returned"} /\ pc' \notin {"down", "open", "returned"}
        /\ pc' \notin {"truncate", "write"} /\ HasSeen
    BY <1>3 DEF NoCalibration, LoadCalibration, TruncateConfig, WriteConfig, ConfigFails,
                HasSeen
  <2> QED BY <2>1, <2>2 DEF PeriodInv, NotBefore
<1>4. CASE CountSample
  BY <1>4 DEF CountSample, host, files, hist, PeriodInv, NotBefore, HasSeen
<1>5. CASE SaveSample
  <2>1. rt'.since = rt.since /\ rt'.opened = rt.opened
    BY <1>5 DEF SaveSample, SavedRecord, TypeOK, RuntimeData
  <2>2. HasSeen
    BY <1>5 DEF SaveSample, HasSeen
  <2> QED BY <1>5, <2>1, <2>2 DEF SaveSample, host, files, hist, PeriodInv, NotBefore
<1>6. CASE Send
  BY <1>6 DEF Send, host, files, hist, PeriodInv, NotBefore, HasSeen
<1> QED BY <1>1, <1>2, <1>3, <1>4, <1>5, <1>6

LEMMA PeriodStop ==
  ASSUME TypeOK, PeriodInv, Crash \/ Reboot \/ LosePower
  PROVE  PeriodInv'
<1>1. /\ pc' = "down" /\ site' = "none" /\ rt'.since = Zero /\ rt'.opened = Zero
      /\ UNCHANGED <<ever, epoch, closed_ever>>
  BY SinceType DEF Crash, Reboot, LosePower, Stop
<1>2. NotBefore(ever, Zero) /\ NotBefore(ever, ever) /\ NotBefore(Zero, Zero)
  BY SinceType, ZeroType, NotBeforeOrder
<1>3. boot_ever' \in {boot_ever, ever}
  BY DEF Crash, Reboot, LosePower
<1>4. /\ file'.data.since \in {file.data.since, disk.data.since, Zero}
      /\ disk'.data.since \in {file.data.since, disk.data.since, Zero}
  BY SinceType DEF Crash, Reboot, LosePower, NoData
<1>8. /\ NotBefore(file'.data.opened, file'.data.since)
      /\ NotBefore(disk'.data.opened, disk'.data.since)
  BY <1>2, SinceType DEF Crash, Reboot, LosePower, NoData, PeriodInv
<1>5. ~damaged' => ~damaged /\ ~RecordLost /\ file' = file
  BY DEF Crash, Reboot, LosePower
<1>6. ~damaged' /\ file.kind # "data" => epoch = Zero /\ closed_ever = Zero
  BY <1>5 DEF RecordLost, PeriodInv
<1>7. /\ ~damaged' /\ file.kind = "data" => NotBefore(file.data.since, epoch)
      /\ ~damaged' => file.data.since = file.data.opened
  BY <1>5 DEF PeriodInv
<1> QED BY <1>1, <1>2, <1>3, <1>4, <1>5, <1>6, <1>7, <1>8 DEF PeriodInv, NotBefore, HasSeen

LEMMA PeriodWorld ==
  ASSUME TypeOK, PeriodInv, World \/ UNCHANGED vars
  PROVE  PeriodInv'
<1>1. UNCHANGED <<boot_ever, rt, file, seen_ever, pc, site, epoch, damaged>>
      /\ disk' \in {disk, file} /\ UNCHANGED closed_ever
  BY DEF World, Traffic, InterfaceGone, Tick, EditConfig, Writeback,
         host, files, mem, hist, vars
<1>2. NotBefore(ever', ever)
  <2>1. CASE Traffic
    BY <2>1, SinceType DEF Traffic, NotBefore
  <2>2. CASE ~Traffic
    <3>1. ever' = ever
      BY <2>2 DEF World, InterfaceGone, Tick, EditConfig, Writeback, host, vars
    <3> QED BY <3>1, SinceType, NotBeforeOrder
  <2> QED BY <2>1, <2>2
<1>3. ever' \in [Dirs -> Nat]
  BY TypeWorld, TypeStutter DEF TypeOK
<1>4. \A g \in [Dirs -> Nat] : NotBefore(ever, g) => NotBefore(ever', g)
  BY <1>2, <1>3, SinceType, NotBeforeOrder
<1>5. /\ NotBefore(ever', boot_ever) /\ NotBefore(ever', rt.since)
      /\ NotBefore(ever', file.data.since) /\ NotBefore(ever', disk.data.since)
      /\ HasSeen => NotBefore(ever', seen_ever)
  BY <1>4, SinceType DEF PeriodInv
<1>6. HasSeen' <=> HasSeen
  BY <1>1 DEF HasSeen
<1> QED BY <1>1, <1>5, <1>6 DEF PeriodInv, NotBefore

LEMMA PeriodNext == TypeOK /\ PeriodInv /\ [Next]_vars => PeriodInv'
BY PeriodOpen, PeriodRewrite, PeriodLoop, PeriodStop, PeriodWorld DEF Next, Saver, Fault

\* PeriodInv is an invariant, on every platform.
LEMMA PeriodCorrect == Spec => []PeriodInv
<1>1. Init => PeriodInv
  BY PeriodInit
<1>2. TypeOK /\ PeriodInv /\ [Next]_vars => PeriodInv'
  BY PeriodNext
<1> QED BY <1>1, <1>2, TypeCorrect, PTL DEF Spec

(***************************************************************************)
(* Once the record of a new period has reached the file, the saver never   *)
(* works on an older period again, unless a stop fell into a rewrite or    *)
(* the host lost the file.                                                 *)
(***************************************************************************)
THEOREM PeriodStaysClosedAlways == Spec => []PeriodStaysClosed
<1>1. PeriodInv => PeriodStaysClosed
  BY DEF PeriodInv, PeriodStaysClosed, InLoop, NotBefore
<1> QED BY <1>1, PeriodCorrect, PTL

-----------------------------------------------------------------------------
(***************************************************************************)
(* The calibration of a period ends with it, in a run without a stop.      *)
(***************************************************************************)
LEMMA ClearedIsZero ==
  ASSUME NEW config \in Config
  PROVE  ClearedConfig(config).net.calibration = Zero
BY DEF ClearedConfig, Config, NetworkSettings

LEMMA OneRunInit == Init => OneRunInv
BY DEF Init, OneRunInv

LEMMA OneRunStart == TypeOK /\ OneRunInv /\ Start => OneRunInv'
<1> SUFFICES ASSUME TypeOK, OneRunInv, Start PROVE OneRunInv'
  OBVIOUS
<1>1. /\ starts \in Nat /\ starts' = starts + 1 /\ pc' = "open" /\ cur' = conf.data
      /\ conf.ok /\ UNCHANGED <<conf, loaded, closed_rev, edits>>
  BY DEF Start, TypeOK, files
<1>2. conf = [ok |-> TRUE, data |-> conf.data]
  BY <1>1 DEF TypeOK, ConfigFile
<1>3. starts' = 1 => starts = 0
  BY <1>1
<1>4. starts' # 0
  BY <1>1
<1>5. starts = 0 => ~(closed_rev' >= 0)
  BY <1>1 DEF OneRunInv, TypeOK
<1> QED BY <1>1, <1>2, <1>3, <1>4, <1>5 DEF OneRunInv

\* The saver before its loop, and every rewrite of the runtime file.
LEMMA OneRunOpen ==
  TypeOK /\ OneRunInv
    /\ (OpenExisting \/ OpenFresh \/ OpenFails \/ Merge \/ KeepRecord
          \/ Truncate \/ Write \/ RewriteFails)
  => OneRunInv'
<1> SUFFICES ASSUME TypeOK, OneRunInv,
                    \/ OpenExisting \/ OpenFresh \/ OpenFails \/ Merge \/ KeepRecord
                    \/ Truncate \/ Write \/ RewriteFails
             PROVE  OneRunInv'
  OBVIOUS
<1>1. UNCHANGED <<conf, cur, loaded, closed_rev, starts, edits>>
  BY DEF OpenExisting, OpenFresh, OpenFails, Merge, KeepRecord, Truncate, Write,
         RewriteFails, files, mem, hist
<1>2. pc \in {"open", "merge", "truncate", "write"}
  BY DEF OpenExisting, OpenFresh, OpenFails, Merge, KeepRecord, Truncate, Write,
         RewriteFails
<1>3. CASE ~IOErrors /\ pc' # "down"
  <2>1. pc' \notin {"conf_write", "conf_truncate"}
    BY <1>3 DEF OpenExisting, OpenFresh, OpenFails, Merge, KeepRecord, Truncate, Write,
                RewriteFails, Continue, TypeOK, Sites
  <2>2. ~Clearing' => ~Clearing
    BY <1>3 DEF OpenExisting, OpenFresh, OpenFails, Merge, KeepRecord, Truncate, Write,
                RewriteFails, Continue, TypeOK, Sites, Clearing
  <2> QED BY <1>1, <1>2, <2>1, <2>2 DEF OneRunInv
<1>4. CASE ~(~IOErrors /\ pc' # "down")
  BY <1>1, <1>2, <1>4 DEF OneRunInv
<1> QED BY <1>3, <1>4

LEMMA OneRunLoop ==
  TypeOK /\ OneRunInv /\ (Sample \/ Reset \/ CountSample \/ SaveSample \/ Send)
  => OneRunInv'
<1> SUFFICES ASSUME TypeOK, OneRunInv,
                    Sample \/ Reset \/ CountSample \/ SaveSample \/ Send
             PROVE  OneRunInv'
  OBVIOUS
<1>1. UNCHANGED <<conf, loaded, starts, edits>>
  BY DEF Sample, Reset, CountSample, SaveSample, Send, files, mem, hist
<1>2. pc \in {"sample", "reset", "count", "send"}
  BY DEF Sample, Reset, CountSample, SaveSample, Send
<1>3. CASE Sample
  <2>1. starts = 1 /\ edits = 0 /\ ~IOErrors => cur' = cur
    BY <1>2, <1>3 DEF Sample, Reloaded, OneRunInv
  <2>2. pc' \in {"reset", "count"} /\ closed_rev' = closed_rev
    BY <1>3 DEF Sample, hist
  <2> QED BY <1>1, <1>2, <2>1, <2>2 DEF OneRunInv, Clearing
<1>4. CASE Reset
  <2>1. cur' = cur /\ pc' = "truncate" /\ Clearing'
    BY <1>4 DEF Reset, Clearing
  <2> QED BY <1>1, <1>2, <2>1 DEF OneRunInv
<1>5. CASE CountSample \/ SaveSample \/ Send
  <2>1. /\ UNCHANGED <<cur, closed_rev>>
        /\ pc' \in {"send", "sample"} \/ (pc' = "truncate" /\ site' = "save")
    BY <1>5 DEF CountSample, SaveSample, Send, mem, hist
  <2> QED BY <1>1, <1>2, <2>1 DEF OneRunInv, Clearing
<1> QED BY <1>3, <1>4, <1>5

LEMMA OneRunCalibration ==
  TypeOK /\ OneRunInv
    /\ (NoCalibration \/ LoadCalibration \/ TruncateConfig \/ WriteConfig \/ ConfigFails)
  => OneRunInv'
<1> SUFFICES ASSUME TypeOK, OneRunInv,
                    \/ NoCalibration \/ LoadCalibration \/ TruncateConfig
                    \/ WriteConfig \/ ConfigFails
             PROVE  OneRunInv'
  OBVIOUS
<1>1. UNCHANGED <<closed_rev, starts, edits>>
  BY DEF NoCalibration, LoadCalibration, TruncateConfig, WriteConfig, ConfigFails, hist
<1>2. starts # 0
  BY DEF OneRunInv, NoCalibration, LoadCalibration, TruncateConfig, WriteConfig,
         ConfigFails
<1>3. CASE ~(starts = 1 /\ edits = 0 /\ ~IOErrors)
  BY <1>1, <1>2, <1>3 DEF OneRunInv
<1>4. CASE starts = 1 /\ edits = 0 /\ ~IOErrors
  <2>1. CASE NoCalibration
    BY <1>1, <1>2, <1>4, <2>1 DEF NoCalibration, OneRunInv, files, mem
  <2>2. CASE LoadCalibration
    <3>1. conf = [ok |-> TRUE, data |-> cur]
      BY <1>4, <2>2 DEF LoadCalibration, OneRunInv
    <3>2. /\ loaded' = ClearedConfig(cur) /\ pc' = "conf_truncate"
          /\ UNCHANGED <<conf, cur>>
      BY <2>2, <3>1 DEF LoadCalibration, files
    <3> QED BY <1>1, <1>2, <3>1, <3>2 DEF OneRunInv, Clearing
  <2>3. CASE TruncateConfig
    <3>1. conf = [ok |-> TRUE, data |-> cur] /\ loaded = ClearedConfig(cur)
      BY <1>4, <2>3 DEF TruncateConfig, OneRunInv
    <3>2. conf' = [ok |-> FALSE, data |-> cur]
      BY <2>3, <3>1 DEF TruncateConfig
    <3>3. pc' = "conf_write" /\ UNCHANGED <<loaded, cur>>
      BY <2>3 DEF TruncateConfig, mem
    <3> QED BY <1>1, <1>2, <3>1, <3>2, <3>3 DEF OneRunInv, Clearing
  <2>4. CASE WriteConfig
    <3>1. /\ conf' = [ok |-> TRUE, data |-> cur'] /\ cur' = ClearedConfig(cur)
          /\ pc' = "count"
      BY <1>4, <2>4 DEF WriteConfig, OneRunInv
    <3>2. cur'.net.calibration = Zero
      BY <3>1, ClearedIsZero DEF TypeOK
    <3> QED BY <1>1, <1>2, <3>1, <3>2 DEF OneRunInv
  <2>5. CASE ConfigFails
    BY <1>4, <2>5 DEF ConfigFails
  <2> QED BY <2>1, <2>2, <2>3, <2>4, <2>5
<1> QED BY <1>3, <1>4

LEMMA OneRunElse ==
  TypeOK /\ OneRunInv /\ (Crash \/ Reboot \/ LosePower \/ World \/ UNCHANGED vars)
  => OneRunInv'
<1> SUFFICES ASSUME TypeOK, OneRunInv,
                    Crash \/ Reboot \/ LosePower \/ World \/ UNCHANGED vars
             PROVE  OneRunInv'
  OBVIOUS
<1>1. CASE Crash \/ Reboot \/ LosePower
  <2>1. pc' = "down" /\ UNCHANGED <<starts, closed_rev>>
    BY <1>1 DEF Crash, Reboot, LosePower, Stop
  <2> QED BY <2>1 DEF OneRunInv
<1>2. CASE EditConfig
  <2>1. edits' # 0 /\ UNCHANGED <<pc, starts, closed_rev>>
    BY <1>2 DEF EditConfig, TypeOK
  <2> QED BY <2>1 DEF OneRunInv
<1>3. CASE (World /\ ~EditConfig) \/ UNCHANGED vars
  <2>1. UNCHANGED <<conf, cur, loaded, closed_rev, starts, edits, pc, site>>
    BY <1>3 DEF World, Traffic, InterfaceGone, Tick, Writeback, vars, files, mem, hist
  <2> QED BY <2>1 DEF OneRunInv, Clearing
<1> QED BY <1>1, <1>2, <1>3

LEMMA OneRunNext == TypeOK /\ OneRunInv /\ [Next]_vars => OneRunInv'
BY OneRunStart, OneRunOpen, OneRunLoop, OneRunCalibration, OneRunElse
   DEF Next, Saver, Fault

(***************************************************************************)
(* CalibrationEndsInOneRun: an agent that has run without a stop or an I/O *)
(* error never adds the calibration of a period that is over.              *)
(***************************************************************************)
THEOREM CalibrationEndsInOneRunAlways == Spec => []CalibrationEndsInOneRun
<1>1. TypeOK /\ OneRunInv => CalibrationEndsInOneRun
  <2> SUFFICES ASSUME TypeOK, OneRunInv, starts = 1, edits = 0, ~IOErrors,
                      pc = "send", cur.rev <= closed_rev
               PROVE  cur.net.calibration = Zero
    BY DEF CalibrationEndsInOneRun, CalibrationEndsWithPeriod
  <2>1. closed_rev >= 0
    BY DEF TypeOK, Config
  <2> QED BY <2>1 DEF OneRunInv, Clearing
<1> QED BY <1>1, TypeCorrect, OneRunInit, OneRunNext, PTL DEF Spec

-----------------------------------------------------------------------------
(***************************************************************************)
(* On Linux no record of the traffic meter counts a byte twice: MeterInv   *)
(* is inductive, and with PeriodInv implies OvercountNeedsLostRecord.      *)
(* Within a boot nothing is lost (BootInv), and what has been shown stays  *)
(* reached (SentStaysReached).                                             *)
(***************************************************************************)
LEMMA RecordFields ==
  ASSUME NEW record \in RuntimeData, NEW d \in Dirs
  PROVE  /\ record.accumulated[d] \in Nat /\ record.current_boot[d] \in Nat
         /\ record.boot_source[d] \in Nat /\ record.since[d] \in Nat
         /\ record.boot_id \in Nat
BY DEF RuntimeData

LEMMA MonusValue ==
  ASSUME NEW a \in [Dirs -> Nat], NEW b \in [Dirs -> Nat], NEW d \in Dirs
  PROVE  Monus(a, b)[d] = IF a[d] >= b[d] THEN a[d] - b[d] ELSE 0
BY DEF Monus

(***************************************************************************)
(* How Sound fares under the steps of the world.                           *)
(***************************************************************************)
LEMMA SoundFlow ==
  ASSUME NEW record \in RuntimeData, NEW now \in Nat,
         NEW t \in [Dirs -> Nat], NEW e \in [Dirs -> Nat],
         NEW u \in [Dirs -> Nat], NEW f \in [Dirs -> Nat],
         SoundAt(record, now, t, e),
         \A d \in Dirs : e[d] <= f[d] /\ u[d] - t[d] <= f[d] - e[d]
  PROVE  SoundAt(record, now, u, f)
<1> SUFFICES ASSUME NEW d \in Dirs
             PROVE  /\ record.accumulated[d] + record.current_boot[d] <= f[d] - record.since[d]
                    /\ record.boot_id = now =>
                         record.accumulated[d] + u[d] - record.boot_source[d]
                           <= f[d] - record.since[d]
                    /\ record.boot_id # now =>
                         record.accumulated[d] + record.current_boot[d] + u[d]
                           <= f[d] - record.since[d]
  BY DEF SoundAt
<1>1. t[d] \in Nat /\ e[d] \in Nat /\ u[d] \in Nat /\ f[d] \in Nat
  OBVIOUS
<1>2. e[d] <= f[d] /\ u[d] - t[d] <= f[d] - e[d]
  OBVIOUS
<1>3. /\ record.accumulated[d] + record.current_boot[d] <= e[d] - record.since[d]
      /\ record.boot_id = now =>
           record.accumulated[d] + t[d] - record.boot_source[d] <= e[d] - record.since[d]
      /\ record.boot_id # now =>
           record.accumulated[d] + record.current_boot[d] + t[d] <= e[d] - record.since[d]
  BY DEF SoundAt
<1> QED BY <1>1, <1>2, <1>3, RecordFields

LEMMA SoundReboot ==
  ASSUME NEW record \in RuntimeData, NEW now \in Nat,
         NEW t \in [Dirs -> Nat], NEW e \in [Dirs -> Nat],
         SoundAt(record, now, t, e), record.boot_id <= now
  PROVE  SoundAt(record, now + 1, Zero, e)
<1>1. record.boot_id # now + 1
  BY DEF RuntimeData
<1> SUFFICES ASSUME NEW d \in Dirs
             PROVE  /\ record.accumulated[d] + record.current_boot[d] <= e[d] - record.since[d]
                    /\ record.accumulated[d] + record.current_boot[d] + Zero[d]
                         <= e[d] - record.since[d]
  BY <1>1 DEF SoundAt
<1>2. Zero[d] = 0
  BY DEF Zero
<1>3. record.accumulated[d] + record.current_boot[d] <= e[d] - record.since[d]
  BY DEF SoundAt
<1> QED BY <1>2, <1>3, RecordFields

LEMMA SoundNoRecord ==
  ASSUME NEW now \in Nat, now >= 1, NEW t \in [Dirs -> Nat], NEW e \in [Dirs -> Nat],
         \A d \in Dirs : t[d] <= e[d]
  PROVE  SoundAt(NoRuntimeData, now, t, e) /\ NoRuntimeData.boot_id <= now
BY DEF SoundAt, NoRuntimeData, Zero

LEMMA SoundMerged ==
  ASSUME Platform = "linux", TypeOK, Sound(rt), rt.boot_id # boot
  PROVE  Sound(Merged(rt)) /\ Merged(rt).boot_id = boot
<1> DEFINE m == Merged(rt)
<1>1. /\ m.boot_id = boot /\ m.boot_source = Zero /\ m.current_boot = Zero
      /\ m.accumulated = Plus(rt.accumulated, rt.current_boot) /\ m.since = rt.since
  BY DEF TypeOK, RuntimeData, Merged
<1> SUFFICES ASSUME NEW d \in Dirs
             PROVE  /\ m.accumulated[d] + m.current_boot[d] <= ever[d] - m.since[d]
                    /\ m.accumulated[d] + total[d] - m.boot_source[d] <= ever[d] - m.since[d]
  BY <1>1 DEF Sound, SoundAt
<1>2. /\ rt.accumulated[d] + rt.current_boot[d] <= ever[d] - rt.since[d]
      /\ rt.accumulated[d] + rt.current_boot[d] + total[d] <= ever[d] - rt.since[d]
  BY DEF Sound, SoundAt
<1>3. /\ m.accumulated[d] = rt.accumulated[d] + rt.current_boot[d]
      /\ m.current_boot[d] = 0 /\ m.boot_source[d] = 0 /\ m.since[d] = rt.since[d]
  BY <1>1 DEF Plus, Zero
<1>4. total[d] \in Nat /\ ever[d] \in Nat /\ rt \in RuntimeData
  BY DEF TypeOK
<1> HIDE DEF m
<1> QED BY <1>2, <1>3, <1>4, RecordFields

LEMMA SoundFresh ==
  ASSUME Platform = "linux", TypeOK, \A d \in Dirs : total[d] <= ever[d] - boot_ever[d]
  PROVE  Sound(FreshRecord) /\ FreshRecord.boot_id = boot
<1>1. \A d \in Dirs : total[d] \in Nat /\ ever[d] \in Nat /\ boot_ever[d] \in Nat
  BY DEF TypeOK
<1> QED BY <1>1 DEF Sound, SoundAt, FreshRecord, Zero

(***************************************************************************)
(* How the record and the counters of a round fit together.                *)
(***************************************************************************)
LEMMA SeenAtSample ==
  ASSUME TypeOK, Sound(rt), rt.boot_id = boot, NEW d \in Dirs
  PROVE  /\ rt.accumulated[d] <= ever[d] - rt.since[d]
         /\ rt.accumulated[d] + total[d] - rt.boot_source[d] <= ever[d] - rt.since[d]
<1>1. rt \in RuntimeData /\ total[d] \in Nat /\ ever[d] \in Nat
  BY DEF TypeOK
<1>2. /\ rt.accumulated[d] + rt.current_boot[d] <= ever[d] - rt.since[d]
      /\ rt.accumulated[d] + total[d] - rt.boot_source[d] <= ever[d] - rt.since[d]
  BY DEF Sound, SoundAt
<1> QED BY <1>1, <1>2, RecordFields

LEMMA CountedWithinSeen ==
  ASSUME TypeOK, SeenSound, NEW d \in Dirs
  PROVE  Counted(rt, seen)[d] <= seen_ever[d] - rt.since[d]
<1>1. /\ rt \in RuntimeData /\ seen \in [Dirs -> Nat] /\ seen_ever[d] \in Nat
      /\ rt.boot_source \in [Dirs -> Nat]
  BY DEF TypeOK, RuntimeData
<1>2. /\ rt.accumulated[d] <= seen_ever[d] - rt.since[d]
      /\ rt.accumulated[d] + seen[d] - rt.boot_source[d] <= seen_ever[d] - rt.since[d]
  BY DEF SeenSound
<1>3. Counted(rt, seen)[d] = rt.accumulated[d] + Monus(seen, rt.boot_source)[d]
  BY DEF Counted, Plus
<1>4. Monus(seen, rt.boot_source)[d]
        = IF seen[d] >= rt.boot_source[d] THEN seen[d] - rt.boot_source[d] ELSE 0
  BY <1>1, MonusValue
<1>5. seen[d] \in Nat
  BY <1>1
<1> QED BY <1>1, <1>2, <1>3, <1>4, <1>5, RecordFields

LEMMA SoundReset ==
  ASSUME TypeOK, SeenSound, rt.boot_id = boot
  PROVE  /\ Sound(ResetRecord) /\ ResetRecord.boot_id = boot
         /\ \A d \in Dirs :
              /\ ResetRecord.accumulated[d] <= seen_ever[d] - ResetRecord.since[d]
              /\ ResetRecord.accumulated[d] + seen[d] - ResetRecord.boot_source[d]
                   <= seen_ever[d] - ResetRecord.since[d]
<1> DEFINE r == ResetRecord
<1>1. /\ r.boot_id = boot /\ r.boot_source = seen /\ r.current_boot = Zero
      /\ r.accumulated = Zero /\ r.since = seen_ever
  BY DEF TypeOK, RuntimeData, ResetRecord
<1>2. \A d \in Dirs : /\ seen[d] \in Nat /\ seen_ever[d] \in Nat
                      /\ total[d] \in Nat /\ ever[d] \in Nat /\ Zero[d] = 0
                      /\ seen_ever[d] <= ever[d]
                      /\ total[d] - seen[d] <= ever[d] - seen_ever[d]
  BY DEF TypeOK, Zero, SeenSound
<1>3. Sound(r)
  BY <1>1, <1>2 DEF Sound, SoundAt
<1>4. \A d \in Dirs : /\ r.accumulated[d] <= seen_ever[d] - r.since[d]
                      /\ r.accumulated[d] + seen[d] - r.boot_source[d]
                           <= seen_ever[d] - r.since[d]
  BY <1>1, <1>2
<1> QED BY <1>1, <1>3, <1>4

LEMMA SoundSaved ==
  ASSUME TypeOK, Sound(rt), SeenSound, rt.boot_id = boot
  PROVE  /\ Sound(SavedRecord) /\ SavedRecord.boot_id = boot
         /\ SavedRecord.accumulated = rt.accumulated
         /\ SavedRecord.boot_source = rt.boot_source
         /\ SavedRecord.since = rt.since
<1> DEFINE s == SavedRecord
<1>1. /\ s.boot_id = boot /\ s.boot_source = rt.boot_source /\ s.since = rt.since
      /\ s.accumulated = rt.accumulated
      /\ s.current_boot = Monus(seen, rt.boot_source)
  BY DEF TypeOK, RuntimeData, SavedRecord
<1>2. ASSUME NEW d \in Dirs
      PROVE  /\ s.accumulated[d] + s.current_boot[d] <= ever[d] - s.since[d]
             /\ s.accumulated[d] + total[d] - s.boot_source[d] <= ever[d] - s.since[d]
  <2>1. s.accumulated[d] + s.current_boot[d] = Counted(rt, seen)[d]
    BY <1>1 DEF Counted, Plus
  <2>2. Counted(rt, seen)[d] <= seen_ever[d] - rt.since[d]
    BY CountedWithinSeen
  <2>3. seen_ever[d] <= ever[d] /\ seen_ever[d] \in Nat /\ ever[d] \in Nat
    BY DEF SeenSound, TypeOK
  <2>4. rt.accumulated[d] + total[d] - rt.boot_source[d] <= ever[d] - rt.since[d]
    BY DEF Sound, SoundAt
  <2>5. rt \in RuntimeData /\ SavedRecord \in RuntimeData
    BY SavedRecordType DEF TypeOK
  <2>6. s.current_boot[d] \in Nat
    BY <2>5, RecordFields
  <2>7. s.accumulated[d] = rt.accumulated[d] /\ s.boot_source[d] = rt.boot_source[d]
          /\ s.since[d] = rt.since[d]
    BY <1>1
  <2> HIDE DEF s
  <2> QED BY <2>1, <2>2, <2>3, <2>4, <2>5, <2>6, <2>7, RecordFields
<1> QED BY <1>1, <1>2 DEF Sound, SoundAt

-----------------------------------------------------------------------------
LEMMA MeterInit == ASSUME Platform = "linux" PROVE Init => MeterInv
<1> SUFFICES ASSUME Init PROVE MeterInv
  OBVIOUS
<1>1. TypeOK
  BY TypeInit
<1>2. boot = 1 /\ ever = total /\ boot_ever = Zero
  BY DEF Init
<1>3. \A d \in Dirs : total[d] \in Nat /\ Zero[d] = 0
  BY <1>1 DEF TypeOK, Zero
<1>4. \A d \in Dirs : total[d] <= ever[d] - boot_ever[d]
  BY <1>2, <1>3
<1>5. Sound(NoRuntimeData) /\ NoRuntimeData.boot_id <= boot
  BY <1>1, <1>2, <1>3, SoundNoRecord DEF Sound, TypeOK
<1>6. Sound(file.data) /\ file.data.boot_id <= boot
  <2>1. CASE file = NoData("absent")
    BY <1>5, <2>1 DEF NoData
  <2>2. ASSUME NEW net \in Settings, NEW extra \in [Dirs -> 0..MaxUncounted],
               file = Data(InstalledRecord(net.reset_day, extra))
        PROVE  Sound(file.data) /\ file.data.boot_id <= boot
    <3>1. /\ file.data.boot_id = boot /\ file.data.boot_source = Plus(total, extra)
          /\ file.data.accumulated = Zero /\ file.data.current_boot = Zero
          /\ file.data.since = ever
      BY <2>2 DEF Data, InstalledRecord
    <3>2. \A d \in Dirs : extra[d] \in Nat /\ Plus(total, extra)[d] = total[d] + extra[d]
      BY BoundsAssumption DEF Plus
    <3> QED BY <1>2, <1>3, <3>1, <3>2 DEF Sound, SoundAt
  <2> QED BY <2>1, <2>2 DEF Init
<1>7. disk = file /\ rt = NoRuntimeData /\ pc = "down"
  BY DEF Init
<1> QED BY <1>2, <1>4, <1>5, <1>6, <1>7 DEF MeterInv, HasMerged, HasSeen

(***************************************************************************)
(* The steps of the saver leave the host alone.                            *)
(***************************************************************************)
LEMMA MeterOpen ==
  ASSUME Platform = "linux", TypeOK, MeterInv,
         Start \/ OpenExisting \/ OpenFresh \/ OpenFails \/ Merge \/ KeepRecord
  PROVE  MeterInv'
<1>0. Sound(NoRuntimeData) /\ NoRuntimeData.boot_id <= boot
  <2>1. \A d \in Dirs : total[d] <= ever[d]
    BY DEF MeterInv, TypeOK
  <2> QED BY <2>1, SoundNoRecord DEF MeterInv, TypeOK, Sound
<1>1. CASE Start
  BY <1>1 DEF Start, host, files, MeterInv, Sound, HasMerged, HasSeen
<1>2. CASE OpenExisting
  BY <1>2 DEF OpenExisting, Opened, NoData, host, files, MeterInv, Sound, HasMerged, HasSeen
<1>3. CASE OpenFresh
  <2>1. Sound(FreshRecord) /\ FreshRecord.boot_id = boot
    BY SoundFresh DEF MeterInv
  <2>2. file'.data = NoRuntimeData \/ file' = file
    BY <1>3 DEF OpenFresh, Opened, NoData
  <2>3. boot \in Nat
    BY DEF TypeOK
  <2> QED BY <1>3, <1>0, <2>1, <2>2, <2>3
      DEF OpenFresh, host, MeterInv, Sound, HasMerged, HasSeen
<1>6. CASE OpenFails
  <2>1. file'.data = NoRuntimeData \/ file' = file
    BY <1>6 DEF OpenFails, NoData
  <2> QED BY <1>6, <1>0, <2>1 DEF OpenFails, host, mem, MeterInv, Sound, HasMerged, HasSeen
<1>4. CASE Merge
  <2>1. Sound(Merged(rt)) /\ Merged(rt).boot_id = boot
    BY <1>4, SoundMerged DEF Merge, RebootAssumed, MeterInv
  <2>2. boot \in Nat
    BY DEF TypeOK
  <2> QED BY <1>4, <2>1, <2>2 DEF Merge, host, files, MeterInv, Sound, HasMerged, HasSeen
<1>5. CASE KeepRecord
  BY <1>5 DEF KeepRecord, RebootAssumed, host, files, mem, MeterInv, Sound, HasMerged, HasSeen
<1> QED BY <1>1, <1>2, <1>3, <1>4, <1>5, <1>6

LEMMA MeterRewrite ==
  ASSUME TypeOK, MeterInv, Truncate \/ Write \/ RewriteFails
  PROVE  MeterInv'
<1>1. CASE Truncate
  <2>1. Sound(NoRuntimeData) /\ NoRuntimeData.boot_id <= boot
    <3>1. \A d \in Dirs : total[d] <= ever[d]
      BY DEF MeterInv, TypeOK
    <3> QED BY <3>1, SoundNoRecord DEF MeterInv, TypeOK, Sound
  <2>2. HasSeen' => HasSeen /\ SeenSound'
    BY <1>1 DEF Truncate, host, mem, HasSeen, MeterInv, SeenSound
  <2> QED BY <1>1, <2>1, <2>2 DEF Truncate, host, mem, NoData, MeterInv, Sound, HasMerged
<1>2. CASE Write
  <2>1. HasSeen' => HasSeen
    BY <1>2 DEF Write, HasSeen, Continue, TypeOK, Sites
  <2>2. HasSeen' => SeenSound'
    BY <1>2, <2>1 DEF Write, host, mem, MeterInv, SeenSound
  <2>3. HasMerged
    BY <1>2 DEF Write, HasMerged
  <2> QED BY <1>2, <2>2, <2>3 DEF Write, host, mem, Data, MeterInv, Sound
<1>3. CASE RewriteFails
  <2>1. HasSeen' => HasSeen
    BY <1>3 DEF RewriteFails, HasSeen, Continue, TypeOK, Sites
  <2>2. HasSeen' => SeenSound'
    BY <1>3, <2>1 DEF RewriteFails, host, mem, MeterInv, SeenSound
  <2>3. HasMerged
    BY <1>3 DEF RewriteFails, HasMerged
  <2> QED BY <1>3, <2>2, <2>3 DEF RewriteFails, host, files, mem, MeterInv, Sound
<1> QED BY <1>1, <1>2, <1>3

LEMMA MeterReset ==
  ASSUME TypeOK, MeterInv, Sample \/ Reset
  PROVE  MeterInv'
<1>1. CASE Sample
  <2>1. rt.boot_id = boot
    BY <1>1 DEF Sample, MeterInv, HasMerged
  <2>2. SeenSound'
    <3>1. \A d \in Dirs : total[d] \in Nat /\ ever[d] \in Nat
      BY DEF TypeOK
    <3>2. \A d \in Dirs :
            /\ rt.accumulated[d] <= ever[d] - rt.since[d]
            /\ rt.accumulated[d] + total[d] - rt.boot_source[d] <= ever[d] - rt.since[d]
      BY <2>1, SeenAtSample DEF MeterInv
    <3> QED BY <1>1, <3>1, <3>2 DEF Sample, host, SeenSound
  <2> QED BY <1>1, <2>1, <2>2 DEF Sample, host, files, MeterInv, Sound
<1>2. CASE Reset
  <2>1. HasSeen /\ HasMerged
    BY <1>2 DEF Reset, HasSeen, HasMerged
  <2>2. SeenSound /\ rt.boot_id = boot
    BY <2>1 DEF MeterInv
  <2>3. Sound(ResetRecord) /\ ResetRecord.boot_id = boot
    BY <2>2, SoundReset
  <2>4. SeenSound'
    <3>1. \A d \in Dirs :
            /\ ResetRecord.accumulated[d] <= seen_ever[d] - ResetRecord.since[d]
            /\ ResetRecord.accumulated[d] + seen[d] - ResetRecord.boot_source[d]
                 <= seen_ever[d] - ResetRecord.since[d]
      BY <2>2, SoundReset
    <3> QED BY <1>2, <2>2, <3>1 DEF Reset, host, SeenSound
  <2>5. boot \in Nat
    BY DEF TypeOK
  <2> QED BY <1>2, <2>3, <2>4, <2>5 DEF Reset, host, files, MeterInv, Sound
<1> QED BY <1>1, <1>2

LEMMA MeterCalibration ==
  ASSUME TypeOK, MeterInv,
         NoCalibration \/ LoadCalibration \/ TruncateConfig \/ WriteConfig \/ ConfigFails
  PROVE  MeterInv'
<1>1. HasSeen /\ HasMerged
  BY DEF NoCalibration, LoadCalibration, TruncateConfig, WriteConfig, ConfigFails,
         HasSeen, HasMerged
<1>2. UNCHANGED <<boot, total, ever, boot_ever, rt, file, disk, seen, seen_ever>>
  BY DEF NoCalibration, LoadCalibration, TruncateConfig, WriteConfig, ConfigFails,
         host, files, mem
<1> QED BY <1>1, <1>2 DEF MeterInv, Sound, SeenSound

LEMMA MeterCount ==
  ASSUME TypeOK, MeterInv, CountSample \/ SaveSample \/ Send
  PROVE  MeterInv'
<1>1. HasSeen /\ HasMerged
  BY DEF CountSample, SaveSample, Send, HasSeen, HasMerged
<1>2. SeenSound /\ rt.boot_id = boot
  BY <1>1 DEF MeterInv
<1>3. CASE CountSample
  BY <1>2, <1>3 DEF CountSample, host, files, MeterInv, Sound, SeenSound
<1>4. CASE SaveSample
  <2>1. /\ Sound(SavedRecord) /\ SavedRecord.boot_id = boot
        /\ SavedRecord.accumulated = rt.accumulated
        /\ SavedRecord.boot_source = rt.boot_source
        /\ SavedRecord.since = rt.since
    BY <1>2, SoundSaved DEF MeterInv
  <2>2. SeenSound'
    BY <1>2, <1>4, <2>1 DEF SaveSample, host, SeenSound
  <2>3. boot \in Nat
    BY DEF TypeOK
  <2> QED BY <1>4, <2>1, <2>2, <2>3 DEF SaveSample, host, files, MeterInv, Sound
<1>5. CASE Send
  BY <1>2, <1>5 DEF Send, host, files, MeterInv, Sound, HasMerged, HasSeen
<1> QED BY <1>3, <1>4, <1>5

(***************************************************************************)
(* The steps of the world move the host; the records stay sound.           *)
(***************************************************************************)
LEMMA MeterTraffic ==
  ASSUME TypeOK, MeterInv, Traffic \/ InterfaceGone
  PROVE  MeterInv'
<1>1. /\ total \in [Dirs -> Nat] /\ ever \in [Dirs -> Nat] /\ boot_ever \in [Dirs -> Nat]
      /\ total' \in [Dirs -> Nat] /\ ever' \in [Dirs -> Nat] /\ boot \in Nat
      /\ rt \in RuntimeData /\ file.data \in RuntimeData /\ disk.data \in RuntimeData
  BY TypeWorld DEF World, TypeOK, RuntimeFile
<1>2. \A d \in Dirs : ever[d] <= ever'[d] /\ total'[d] - total[d] <= ever'[d] - ever[d]
  BY <1>1 DEF Traffic, InterfaceGone
<1>3. UNCHANGED <<boot, boot_ever, file, disk, rt, pc, site, seen, seen_ever>>
  BY DEF Traffic, InterfaceGone, files, mem
<1>4. \A d \in Dirs : total'[d] <= ever'[d] - boot_ever[d]
  BY <1>1, <1>2 DEF MeterInv
<1>5. /\ SoundAt(rt, boot, total', ever')
      /\ SoundAt(file.data, boot, total', ever')
      /\ SoundAt(disk.data, boot, total', ever')
  BY <1>1, <1>2, SoundFlow DEF MeterInv, Sound
<1>6. HasSeen' => SeenSound'
  <2> SUFFICES ASSUME HasSeen' PROVE SeenSound'
    OBVIOUS
  <2>1. SeenSound
    BY <1>3 DEF HasSeen, MeterInv
  <2>2. \A d \in Dirs : seen[d] \in Nat /\ seen_ever[d] \in Nat
    BY DEF TypeOK
  <2> QED BY <1>1, <1>2, <1>3, <2>1, <2>2 DEF SeenSound
<1> QED BY <1>3, <1>4, <1>5, <1>6 DEF MeterInv, Sound, HasMerged

LEMMA MeterStop ==
  ASSUME TypeOK, MeterInv, Crash \/ Reboot \/ LosePower
  PROVE  MeterInv'
<1>1. /\ total \in [Dirs -> Nat] /\ ever \in [Dirs -> Nat] /\ boot_ever \in [Dirs -> Nat]
      /\ file.data \in RuntimeData /\ disk.data \in RuntimeData /\ boot \in Nat
      /\ NoRuntimeData \in RuntimeData /\ Zero \in [Dirs -> Nat]
  BY NoRuntimeDataType, ZeroType DEF TypeOK, RuntimeFile
<1>2. pc' = "down" /\ rt' = NoRuntimeData /\ ever' = ever
  BY DEF Crash, Reboot, LosePower, Stop
<1>3. \A d \in Dirs : total[d] <= ever[d]
  BY <1>1 DEF MeterInv
<1>4. Sound(NoRuntimeData) /\ NoRuntimeData.boot_id <= boot
  BY <1>1, <1>3, SoundNoRecord DEF MeterInv, Sound
<1>5. CASE Crash
  BY <1>2, <1>4, <1>5 DEF Crash, MeterInv, Sound, HasMerged, HasSeen
<1>6. CASE Reboot \/ LosePower
  <2>1. boot' = boot + 1 /\ total' = Zero /\ boot_ever' = ever
    BY <1>6 DEF Reboot, LosePower
  <2>2. /\ file'.data \in {file.data, disk.data, NoRuntimeData}
        /\ disk'.data \in {file.data, disk.data, NoRuntimeData}
    BY <1>6 DEF Reboot, LosePower, NoData
  <2>3. \A record \in {file.data, disk.data, NoRuntimeData} :
          SoundAt(record, boot + 1, Zero, ever) /\ record.boot_id <= boot + 1
    <3>1. \A record \in {file.data, disk.data, NoRuntimeData} :
            /\ record \in RuntimeData /\ SoundAt(record, boot, total, ever)
            /\ record.boot_id <= boot /\ record.boot_id \in Nat
      BY <1>1, <1>4 DEF MeterInv, Sound, RuntimeData
    <3>2. \A record \in {file.data, disk.data, NoRuntimeData} :
            SoundAt(record, boot + 1, Zero, ever)
      BY <1>1, <3>1, SoundReboot
    <3> QED BY <1>1, <3>1, <3>2
  <2>4. \A d \in Dirs : Zero[d] <= ever[d] - ever[d]
    BY <1>1 DEF Zero
  <2>5. boot + 1 >= 1
    BY <1>1
  <2> QED BY <1>2, <2>1, <2>2, <2>3, <2>4, <2>5 DEF MeterInv, Sound, HasMerged, HasSeen
<1> QED BY <1>5, <1>6

LEMMA MeterElse ==
  ASSUME TypeOK, MeterInv, Tick \/ EditConfig \/ Writeback \/ UNCHANGED vars
  PROVE  MeterInv'
<1>1. UNCHANGED <<boot, total, ever, boot_ever, rt, file, pc, site, seen, seen_ever>>
      /\ disk' \in {disk, file}
  BY DEF Tick, EditConfig, Writeback, host, files, mem, vars
<1> QED BY <1>1 DEF MeterInv, Sound, SeenSound, HasSeen, HasMerged

LEMMA MeterNext ==
  ASSUME Platform = "linux"
  PROVE  TypeOK /\ MeterInv /\ [Next]_vars => MeterInv'
BY MeterOpen, MeterRewrite, MeterReset, MeterCalibration, MeterCount, MeterTraffic,
   MeterStop, MeterElse
DEF Next, Saver, World, Fault

(***************************************************************************)
(* Every record in memory, in the file and on disk is sound on Linux.      *)
(***************************************************************************)
THEOREM MeterCorrect ==
  ASSUME Platform = "linux"
  PROVE  Spec => []MeterInv
<1>1. Init => MeterInv
  BY MeterInit
<1>2. TypeOK /\ MeterInv /\ [Next]_vars => MeterInv'
  BY MeterNext
<1> QED BY <1>1, <1>2, TypeCorrect, PTL DEF Spec

(***************************************************************************)
(* What the Linux agent is about to show never exceeds (before             *)
(* calibration) the traffic since the start of the count; and that is the  *)
(* traffic of the period unless a record was lost, by a stop inside a      *)
(* rewrite or with the power.                                              *)
(***************************************************************************)
THEOREM OvercountNeedsLostRecordOnLinux ==
  ASSUME Platform = "linux"
  PROVE  Spec => []OvercountNeedsLostRecord
<1>1. TypeOK /\ MeterInv /\ PeriodInv => OvercountNeedsLostRecord
  BY CountedWithinSeen DEF MeterInv, PeriodInv, HasSeen, OvercountNeedsLostRecord
<1> QED BY <1>1, TypeCorrect, MeterCorrect, PeriodCorrect, PTL

-----------------------------------------------------------------------------
(***************************************************************************)
(* Within a boot: BootInv.                                                 *)
(***************************************************************************)
LEMMA HostType ==
  ASSUME TypeOK, NEW d \in Dirs
  PROVE  /\ total[d] \in Nat /\ ever[d] \in Nat /\ boot_ever[d] \in Nat
         /\ seen[d] \in Nat /\ seen_ever[d] \in Nat /\ boot \in Nat
BY DEF TypeOK

LEMMA RecordTypes ==
  ASSUME TypeOK
  PROVE  rt \in RuntimeData /\ file.data \in RuntimeData /\ disk.data \in RuntimeData
BY DEF TypeOK, RuntimeFile

LEMMA ExactOther ==
  ASSUME NEW record, record.boot_id # boot PROVE Exact(record)
BY DEF Exact

LEMMA ExactNoRecord ==
  ASSUME TypeOK, MeterInv PROVE Exact(NoRuntimeData) /\ NoRuntimeData.boot_id # boot
<1>1. NoRuntimeData.boot_id # boot
  BY DEF NoRuntimeData, MeterInv, TypeOK
<1> QED BY <1>1, ExactOther

LEMMA BootInit == Init => BootInv
<1> SUFFICES ASSUME Init PROVE BootInv
  OBVIOUS
<1>1. TypeOK
  BY TypeInit
<1>2. /\ boot = 1 /\ ever = total /\ boot_ever = Zero /\ rt = NoRuntimeData
      /\ pc = "down"
  BY DEF Init
<1>3. \A d \in Dirs : total[d] = ever[d] - boot_ever[d]
  BY <1>1, <1>2, HostType DEF Zero
<1>4. Exact(NoRuntimeData)
  BY <1>2, ExactOther DEF NoRuntimeData
<1>5. Exact(file.data)
  <2>1. CASE file = NoData("absent")
    BY <1>4, <2>1 DEF NoData
  <2>2. ASSUME NEW net \in Settings, NEW extra \in [Dirs -> 0..MaxUncounted],
               file = Data(InstalledRecord(net.reset_day, extra))
        PROVE  Exact(file.data)
    <3>1. /\ file.data.since = ever /\ file.data.boot_source = Plus(total, extra)
          /\ file.data.accumulated = Zero /\ file.data.ahead = extra
      BY <2>2 DEF Data, InstalledRecord
    <3>2. \A d \in Dirs : Plus(total, extra)[d] = total[d] + extra[d]
      BY DEF Plus
    <3>3. \A d \in Dirs : ever[d] >= boot_ever[d]
      BY <1>1, <1>3, HostType
    <3> QED BY <1>3, <3>1, <3>2, <3>3 DEF Exact, Zero
  <2> QED BY <2>1, <2>2 DEF Init
<1> QED BY <1>2, <1>3, <1>4, <1>5 DEF BootInv, InLoop, HasMerged, HasSeen

LEMMA ExactMerged ==
  ASSUME Platform = "linux", TypeOK, MeterInv, BootInv, ~shrunk, rt.boot_id # boot
  PROVE  Exact(Merged(rt))
<1> SUFFICES ASSUME NEW d \in Dirs
             PROVE  IF Merged(rt).since[d] >= boot_ever[d]
                      THEN /\ Merged(rt).accumulated[d] = 0
                           /\ Merged(rt).boot_source[d]
                                = Merged(rt).since[d] - boot_ever[d] + Merged(rt).ahead[d]
                      ELSE Merged(rt).boot_source[d] = 0
  BY DEF Exact
<1>1. /\ Merged(rt).boot_source = Zero /\ Merged(rt).since = rt.since
      /\ Merged(rt).ahead = Zero
      /\ Merged(rt).accumulated = Plus(rt.accumulated, rt.current_boot)
  BY RecordTypes DEF RuntimeData, Merged
<1>2. Plus(rt.accumulated, rt.current_boot)[d] = rt.accumulated[d] + rt.current_boot[d]
  BY DEF Plus
<1>3. rt.accumulated[d] + rt.current_boot[d] + total[d] <= ever[d] - rt.since[d]
  BY DEF MeterInv, Sound, SoundAt
<1>4. total[d] = ever[d] - boot_ever[d]
  BY DEF BootInv
<1>5. Zero[d] = 0
  BY DEF Zero
<1>6. CASE rt.since[d] >= boot_ever[d]
  <2>1. rt.accumulated[d] + rt.current_boot[d] = 0 /\ rt.since[d] = boot_ever[d]
    BY <1>3, <1>4, <1>6, HostType, RecordFields, RecordTypes
  <2> QED BY <1>1, <1>2, <1>5, <2>1, HostType
<1>7. CASE ~(rt.since[d] >= boot_ever[d])
  BY <1>1, <1>5, <1>7
<1> QED BY <1>6, <1>7

LEMMA BootOpen ==
  ASSUME Platform = "linux", TypeOK, MeterInv, BootInv,
         Start \/ OpenExisting \/ OpenFresh \/ OpenFails \/ Merge \/ KeepRecord
  PROVE  BootInv'
<1> USE DEF HasMerged, HasSeen, InLoop
<1>1. UNCHANGED <<boot, total, ever, boot_ever, shrunk>>
  BY DEF Start, OpenExisting, OpenFresh, OpenFails, Merge, KeepRecord, host
<1>2. ~shrunk => \A d \in Dirs : total[d] = ever[d] - boot_ever[d]
  BY DEF BootInv
<1>3. CASE Start
  BY <1>1, <1>3 DEF Start, files, BootInv, Exact
<1>4. CASE OpenExisting
  <2>1. file = Data(file.data)
    BY <1>4 DEF OpenExisting, Opened, NoData, Data, TypeOK, RuntimeFile
  <2>2. rt' = file.data /\ file' = file /\ pc' = "merge"
    BY <1>4 DEF OpenExisting, Opened, NoData, files
  <2> QED BY <1>1, <2>1, <2>2 DEF BootInv, Exact
<1>5. CASE OpenFresh
  <2>1. Exact(FreshRecord)
    BY HostType DEF FreshRecord, Exact, Zero
  <2>2. /\ file' = NoData("empty") /\ rt' = FreshRecord
        /\ pc' = "truncate" /\ site' = "fresh"
    BY <1>5 DEF OpenFresh, Opened
  <2> QED BY <1>1, <1>2, <2>1, <2>2, ExactNoRecord DEF BootInv, Exact, NoData
<1>6. CASE OpenFails
  <2>1. file'.data = NoRuntimeData \/ file' = file
    BY <1>6 DEF OpenFails, NoData
  <2>2. pc' = "returned" /\ rt' = rt
    BY <1>6 DEF OpenFails, mem
  <2> QED BY <1>1, <2>1, <2>2, ExactNoRecord DEF BootInv, Exact
<1>7. CASE Merge
  <2>1. rt.boot_id # boot /\ file = Data(rt)
    BY <1>7 DEF Merge, RebootAssumed, BootInv
  <2>2. file.data.boot_id # boot
    BY <2>1 DEF Data
  <2>3. ~shrunk => Exact(Merged(rt))
    BY <2>1, ExactMerged
  <2>4. rt' = Merged(rt) /\ pc' = "truncate" /\ site' = "merge" /\ file' = file
    BY <1>7 DEF Merge, files
  <2> QED BY <1>1, <1>2, <2>2, <2>3, <2>4 DEF BootInv, Exact
<1>8. CASE KeepRecord
  <2>1. file = Data(rt) /\ rt.boot_id = boot
    BY <1>8 DEF KeepRecord, RebootAssumed, BootInv
  <2>2. file.data = rt
    BY <2>1 DEF Data
  <2>3. rt' = rt /\ file' = file /\ pc' = "sample"
    BY <1>8 DEF KeepRecord, mem, files
  <2> QED BY <1>1, <1>2, <2>1, <2>2, <2>3 DEF BootInv, Exact, SameBaseline
<1> QED BY <1>3, <1>4, <1>5, <1>6, <1>7, <1>8

LEMMA BootRewrite ==
  ASSUME TypeOK, MeterInv, BootInv, Truncate \/ Write \/ RewriteFails
  PROVE  BootInv'
<1> USE DEF HasMerged, HasSeen, InLoop
<1>1. UNCHANGED <<boot, total, ever, boot_ever, shrunk, rt, seen, seen_ever>>
  BY DEF Truncate, Write, RewriteFails, host, mem
<1>2. rt.boot_id = boot
  BY DEF Truncate, Write, RewriteFails, MeterInv
<1>3. CASE Truncate
  <2>1. file' = NoData("empty") /\ pc' = "write" /\ site' = site /\ pc = "truncate"
    BY <1>3 DEF Truncate
  <2> QED BY <1>1, <2>1, ExactNoRecord DEF BootInv, Exact, NoData
<1>4. CASE Write
  <2>1. /\ file' = Data(rt) /\ pc = "write" /\ site' = "none"
        /\ pc' \in {"down", "merge", "sample", "calibration", "send"}
        /\ pc' \in {"calibration", "send"} => site \in {"reset", "save"}
    BY <1>4 DEF Write, Continue, TypeOK, Sites
  <2>2. file'.data = rt
    BY <2>1 DEF Data
  <2> QED BY <1>1, <1>2, <2>1, <2>2 DEF BootInv, Exact, SameBaseline
<1>5. CASE RewriteFails
  <2>1. /\ file' = file /\ site' = site /\ pc \in {"truncate", "write"}
        /\ pc' \in {"returned", "calibration", "send", "down"}
        /\ pc' \in {"calibration", "send"} => site \in {"reset", "save"}
    BY <1>5 DEF RewriteFails, files, Continue, TypeOK, Sites
  <2> QED BY <1>1, <1>2, <2>1 DEF BootInv, Exact, SameBaseline
<1> QED BY <1>3, <1>4, <1>5

LEMMA BootReset ==
  ASSUME TypeOK, MeterInv, BootInv, Sample \/ Reset
  PROVE  BootInv'
<1> USE DEF HasMerged, HasSeen, InLoop
<1>1. CASE Sample
  <2>1. /\ UNCHANGED <<boot, total, ever, boot_ever, shrunk, rt, file>>
        /\ seen' = total /\ seen_ever' = ever
        /\ pc = "sample" /\ pc' \in {"reset", "count"}
    BY <1>1 DEF Sample, host, files
  <2> QED BY <2>1 DEF BootInv, Exact, SameBaseline
<1>2. CASE Reset
  <2>1. /\ UNCHANGED <<boot, total, ever, boot_ever, shrunk, file, seen, seen_ever>>
        /\ rt' = ResetRecord
        /\ pc = "reset" /\ pc' = "truncate" /\ site' = "reset"
    BY <1>2 DEF Reset, host, files
  <2>2. /\ ResetRecord.boot_source = seen /\ ResetRecord.accumulated = Zero
        /\ ResetRecord.since = seen_ever /\ ResetRecord.ahead = Zero
    BY RecordTypes DEF RuntimeData, ResetRecord
  <2>3. ~shrunk => \A d \in Dirs : seen[d] = seen_ever[d] - boot_ever[d]
    BY <2>1 DEF BootInv
  <2>4. ~shrunk => Exact(ResetRecord)
    BY <2>2, <2>3, HostType DEF Exact, Zero
  <2>5. ~shrunk /\ file.kind = "data" /\ file.data.boot_id = boot
          => SameBaseline(file.data, ResetRecord)
    <3> SUFFICES ASSUME ~shrunk, file.data.boot_id = boot,
                        NEW d \in Dirs, file.data.since[d] = seen_ever[d],
                        file.data.ahead[d] = 0
                 PROVE  file.data.accumulated[d] = 0 /\ file.data.boot_source[d] = seen[d]
      BY <2>2 DEF SameBaseline, Zero
    <3>1. file.data.since[d] >= boot_ever[d]
      BY <2>3, HostType
    <3>2. file.data.accumulated[d] = 0
            /\ file.data.boot_source[d] = file.data.since[d] - boot_ever[d] + 0
      BY <3>1 DEF BootInv, Exact
    <3> QED BY <2>3, <3>2, HostType
  <2> QED BY <2>1, <2>3, <2>4, <2>5 DEF BootInv, Exact, SameBaseline
<1> QED BY <1>1, <1>2

LEMMA BootCount ==
  ASSUME TypeOK, MeterInv, BootInv,
         CountSample \/ SaveSample \/ Send \/ NoCalibration \/ LoadCalibration
           \/ TruncateConfig \/ WriteConfig \/ ConfigFails
  PROVE  BootInv'
<1> USE DEF HasMerged, HasSeen, InLoop
<1>1. UNCHANGED <<boot, total, ever, boot_ever, shrunk, file>>
  BY DEF CountSample, SaveSample, Send, NoCalibration, LoadCalibration,
         TruncateConfig, WriteConfig, ConfigFails, host, files
<1>2. CASE CountSample \/ NoCalibration \/ LoadCalibration \/ TruncateConfig
           \/ WriteConfig \/ ConfigFails
  <2>1. UNCHANGED <<rt, seen, seen_ever>>
    BY <1>2 DEF CountSample, NoCalibration, LoadCalibration, TruncateConfig,
                WriteConfig, ConfigFails, mem
  <2>2. /\ pc \in {"count", "calibration", "conf_truncate", "conf_write"}
        /\ pc' \in {"send", "count", "conf_truncate", "conf_write"}
    BY <1>2 DEF CountSample, NoCalibration, LoadCalibration, TruncateConfig,
                WriteConfig, ConfigFails
  <2> QED BY <1>1, <2>1, <2>2 DEF BootInv, Exact, SameBaseline
<1>3. CASE SaveSample
  <2>1. /\ rt' = SavedRecord /\ UNCHANGED <<seen, seen_ever>>
        /\ pc = "count" /\ pc' = "truncate" /\ site' = "save"
    BY <1>3 DEF SaveSample
  <2>2. /\ SavedRecord.boot_id = rt.boot_id
        /\ SavedRecord.accumulated = rt.accumulated
        /\ SavedRecord.boot_source = rt.boot_source /\ SavedRecord.since = rt.since
        /\ SavedRecord.ahead = rt.ahead
    BY RecordTypes DEF RuntimeData, SavedRecord
  <2> QED BY <1>1, <2>1, <2>2 DEF BootInv, Exact, SameBaseline
<1>4. CASE Send
  <2>1. rt' = rt /\ pc = "send" /\ pc' = "sample"
    BY <1>4 DEF Send
  <2> QED BY <1>1, <2>1 DEF BootInv, Exact, SameBaseline
<1> QED BY <1>2, <1>3, <1>4

LEMMA BootWorld ==
  ASSUME TypeOK, BootInv, World \/ UNCHANGED vars
  PROVE  BootInv'
<1> USE DEF HasMerged, HasSeen, InLoop
<1>1. UNCHANGED <<boot, boot_ever, rt, file, seen, seen_ever, pc, site>>
  BY DEF World, Traffic, InterfaceGone, Tick, EditConfig, Writeback,
         host, files, mem, vars
<1>2. ~shrunk' => ~shrunk /\ \A d \in Dirs : total'[d] = ever'[d] - boot_ever[d]
  <2>1. CASE Traffic
    <3>1. \A d \in Dirs : total'[d] - total[d] = ever'[d] - ever[d]
                        /\ total'[d] \in Nat /\ ever'[d] \in Nat
      BY <2>1, HostType DEF Traffic, TypeOK
    <3> QED BY <2>1, <3>1, HostType DEF Traffic, BootInv
  <2>2. CASE InterfaceGone
    BY <2>2 DEF InterfaceGone
  <2>3. CASE ~Traffic /\ ~InterfaceGone
    <3>1. UNCHANGED <<total, ever, shrunk>>
      BY <2>3 DEF World, Tick, EditConfig, Writeback, host, vars
    <3> QED BY <3>1 DEF BootInv
  <2> QED BY <2>1, <2>2, <2>3
<1> QED BY <1>1, <1>2 DEF BootInv, Exact, SameBaseline

LEMMA BootStop ==
  ASSUME TypeOK, MeterInv, BootInv, Crash \/ Reboot \/ LosePower
  PROVE  BootInv'
<1> USE DEF HasMerged, HasSeen, InLoop
<1>1. pc' = "down" /\ rt' = NoRuntimeData /\ UNCHANGED <<ever, shrunk>>
  BY DEF Crash, Reboot, LosePower, Stop
<1>2. CASE Crash
  BY <1>1, <1>2, ExactNoRecord DEF Crash, BootInv, Exact
<1>3. CASE Reboot \/ LosePower
  <2>1. boot' = boot + 1 /\ total' = Zero /\ boot_ever' = ever
    BY <1>3 DEF Reboot, LosePower
  <2>2. file'.data \in {file.data, disk.data, NoRuntimeData}
    BY <1>3 DEF Reboot, LosePower, NoData
  <2>3. \A r \in {file.data, disk.data, NoRuntimeData} : r.boot_id # boot + 1
    <3>1. \A r \in {file.data, disk.data, NoRuntimeData} :
            r.boot_id \in Nat /\ r.boot_id <= boot
      BY RecordTypes, NoRuntimeDataType DEF MeterInv, RuntimeData, NoRuntimeData, TypeOK
    <3> QED BY <3>1 DEF TypeOK
  <2>4. \A d \in Dirs : Zero[d] = ever[d] - ever[d]
    BY HostType DEF Zero
  <2> QED BY <1>1, <2>1, <2>2, <2>3, <2>4 DEF BootInv, Exact
<1> QED BY <1>2, <1>3

LEMMA BootNext ==
  ASSUME Platform = "linux"
  PROVE  TypeOK /\ MeterInv /\ BootInv /\ [Next]_vars => BootInv'
BY BootOpen, BootRewrite, BootReset, BootCount, BootWorld, BootStop
DEF Next, Saver, Fault

(***************************************************************************)
(* Within a boot every record that the Linux saver works with has the      *)
(* baseline of the moment it counts from, plus what kagent.sh has put on   *)
(* top of it, the one in the file included.                                *)
(***************************************************************************)
THEOREM BootCorrect ==
  ASSUME Platform = "linux"
  PROVE  Spec => []BootInv
<1>1. Init => BootInv
  BY BootInit
<1>2. TypeOK /\ MeterInv /\ BootInv /\ [Next]_vars => BootInv'
  BY BootNext
<1> QED BY <1>1, <1>2, TypeCorrect, MeterCorrect, PTL DEF Spec

LEMMA AheadType ==
  ASSUME NEW record \in RuntimeData, NEW d \in Dirs
  PROVE  record.ahead[d] \in Nat /\ record.opened[d] \in Nat
BY DEF RuntimeData

LEMMA NothingLost ==
  ASSUME TypeOK, BootInv, PeriodInv, HasSeen, HasMerged, ~shrunk, rt.boot_id = boot,
         NEW d \in Dirs, rt.opened[d] >= boot_ever[d]
  PROVE  Counted(rt, seen)[d] + rt.ahead[d] >= seen_ever[d] - rt.opened[d]
<1>1. IF rt.since[d] >= boot_ever[d]
        THEN rt.boot_source[d] = rt.since[d] - boot_ever[d] + rt.ahead[d]
        ELSE rt.boot_source[d] = 0
  BY DEF BootInv, Exact
<1>2. seen[d] = seen_ever[d] - boot_ever[d]
  BY DEF BootInv
<1>3. rt.since[d] <= rt.opened[d]
  BY HostType, AheadType, RecordFields, RecordTypes DEF PeriodInv, NotBefore
<1>4. rt.boot_source[d] <= rt.opened[d] - boot_ever[d] + rt.ahead[d]
  BY <1>1, <1>3, HostType, AheadType, RecordFields, RecordTypes
<1>5. Counted(rt, seen)[d] = rt.accumulated[d] + Monus(seen, rt.boot_source)[d]
  BY DEF Counted, Plus
<1>6. Monus(seen, rt.boot_source)[d]
        = IF seen[d] >= rt.boot_source[d] THEN seen[d] - rt.boot_source[d] ELSE 0
  BY DEF Monus
<1> QED BY <1>2, <1>4, <1>5, <1>6, HostType, AheadType, RecordFields, RecordTypes

(***************************************************************************)
(* On Linux a period that began in this boot is counted in full while no   *)
(* interface goes, but for what the installer's baseline was ahead: no     *)
(* stop, failed save or torn file takes a byte from it.                    *)
(***************************************************************************)
THEOREM NothingLostWithinBootOnLinux ==
  ASSUME Platform = "linux"
  PROVE  Spec => []NothingLostWithinBoot
<1>1. TypeOK /\ MeterInv /\ BootInv /\ PeriodInv => NothingLostWithinBoot
  BY NothingLost DEF NothingLostWithinBoot, MeterInv, HasSeen, HasMerged
<1> QED BY <1>1, TypeCorrect, MeterCorrect, BootCorrect, PeriodCorrect, PTL

-----------------------------------------------------------------------------
(***************************************************************************)
(* What has been shown stays reached: StaysReached(v) for one value v, on  *)
(* its way through all that follows.                                       *)
(***************************************************************************)
LEMMA ValueFields ==
  ASSUME NEW v \in Shown
  PROVE  /\ v.boot \in Nat /\ v.since \in [Dirs -> Nat]
         /\ \A d \in Dirs : /\ v.value[d] \in Nat /\ v.since[d] \in Nat
                            /\ v.net.calibration[d] \in Nat
BY DEF Shown, NetworkSettings

LEMMA WithinMore ==
  ASSUME NEW v \in Shown, NEW a, NEW b, Within(v, a),
         \A d \in Dirs : a[d] \in Int /\ b[d] \in Int /\ a[d] <= b[d]
  PROVE  Within(v, b)
BY ValueFields DEF Within

LEMMA MinusValue ==
  ASSUME NEW a, NEW b, NEW d \in Dirs PROVE Minus(a, b)[d] = a[d] - b[d]
BY DEF Minus

LEMMA CountedValue ==
  ASSUME NEW record \in RuntimeData, NEW t \in [Dirs -> Nat], NEW d \in Dirs
  PROVE  /\ Counted(record, t)[d]
              = record.accumulated[d]
                  + (IF t[d] >= record.boot_source[d] THEN t[d] - record.boot_source[d] ELSE 0)
         /\ Counted(record, t)[d] \in Nat
<1>1. Counted(record, t)[d] = record.accumulated[d] + Monus(t, record.boot_source)[d]
  BY DEF Counted, Plus
<1>2. Monus(t, record.boot_source)[d]
        = IF t[d] >= record.boot_source[d] THEN t[d] - record.boot_source[d] ELSE 0
  BY MonusValue DEF RuntimeData
<1> QED BY <1>1, <1>2, RecordFields

LEMMA CountedGrows ==
  ASSUME NEW record \in RuntimeData, NEW t \in [Dirs -> Nat], NEW u \in [Dirs -> Nat],
         \A d \in Dirs : t[d] <= u[d], NEW v \in Shown, Within(v, Counted(record, t))
  PROVE  Within(v, Counted(record, u))
<1>1. ASSUME NEW d \in Dirs
      PROVE  /\ Counted(record, t)[d] \in Int /\ Counted(record, u)[d] \in Int
             /\ Counted(record, t)[d] <= Counted(record, u)[d]
  <2>1. t[d] <= u[d] /\ t[d] \in Nat /\ u[d] \in Nat
    OBVIOUS
  <2> QED BY <2>1, CountedValue, RecordFields
<1> QED BY <1>1, WithinMore

(***************************************************************************)
(* The steps that leave the record, the counters and the file as they are, *)
(* or empty the file.                                                      *)
(***************************************************************************)
LEMMA ReachedSame ==
  ASSUME NEW v, StaysReached(v), UNCHANGED <<boot, total, ever, shrunk>>,
         /\ rt'.boot_id = rt.boot_id /\ rt'.since = rt.since /\ rt'.ahead = rt.ahead
         /\ rt'.accumulated = rt.accumulated /\ rt'.boot_source = rt.boot_source,
         HasRecord' => HasRecord,
         HasSeen' => HasSeen /\ UNCHANGED <<seen, seen_ever>>,
         file' = file \/ file'.kind # "data"
  PROVE  StaysReached(v)'
<1>1. \A t : Counted(rt', t) = Counted(rt, t)
  BY DEF Counted
<1> QED BY <1>1 DEF StaysReached, Within, Counted, SamePeriod

LEMMA ReachedQuiet ==
  ASSUME TypeOK, NEW v, StaysReached(v),
         \/ Start \/ OpenFails \/ KeepRecord \/ Truncate \/ RewriteFails
         \/ NoCalibration \/ LoadCalibration \/ TruncateConfig \/ WriteConfig \/ ConfigFails
         \/ CountSample \/ SaveSample \/ Send
         \/ Tick \/ EditConfig \/ Writeback \/ UNCHANGED vars
  PROVE  StaysReached(v)'
<1> USE DEF HasRecord, HasSeen
<1>1. CASE Start \/ OpenFails \/ KeepRecord
  BY <1>1, ReachedSame DEF Start, OpenFails, KeepRecord, host, files, mem, NoData
<1>2. CASE Truncate
  BY <1>2, ReachedSame DEF Truncate, host, files, mem, NoData
<1>3. CASE RewriteFails
  BY <1>3, ReachedSame DEF RewriteFails, Continue, TypeOK, Sites, host, files, mem
<1>4. CASE NoCalibration \/ LoadCalibration \/ TruncateConfig \/ WriteConfig \/ ConfigFails
  BY <1>4, ReachedSame DEF NoCalibration, LoadCalibration, TruncateConfig, WriteConfig,
     ConfigFails, host, files, mem
<1>5. CASE CountSample \/ Send
  BY <1>5, ReachedSame DEF CountSample, Send, host, files, mem
<1>6. CASE SaveSample
  <2>1. /\ SavedRecord.boot_id = rt.boot_id /\ SavedRecord.since = rt.since
        /\ SavedRecord.ahead = rt.ahead
        /\ SavedRecord.accumulated = rt.accumulated
        /\ SavedRecord.boot_source = rt.boot_source
    BY RecordTypes DEF RuntimeData, SavedRecord
  <2> QED BY <1>6, <2>1, ReachedSame DEF SaveSample, host, files
<1>7. CASE Tick \/ EditConfig \/ Writeback \/ UNCHANGED vars
  BY <1>7, ReachedSame DEF Tick, EditConfig, Writeback, host, files, mem, vars
<1> QED BY <1>1, <1>2, <1>3, <1>4, <1>5, <1>6, <1>7

LEMMA ReachedOpen ==
  ASSUME Platform = "linux", TypeOK, MeterInv, BootInv, NEW v \in Shown, StaysReached(v),
         OpenExisting \/ OpenFresh
  PROVE  StaysReached(v)'
<1> USE DEF HasSeen
<1>1. CASE OpenExisting
  <2>1. /\ UNCHANGED <<boot, total, ever, shrunk, file>> /\ pc' = "merge"
        /\ file.kind = "data" /\ rt' = file.data
    BY <1>1 DEF OpenExisting, Opened, NoData, host, files
  <2> QED BY <2>1 DEF StaysReached, Within, Counted, SamePeriod
<1>2. CASE OpenFresh
  <2>1. /\ UNCHANGED <<boot, total, ever, shrunk, boot_ever>>
        /\ pc' = "truncate" /\ site' = "fresh"
        /\ rt' = FreshRecord /\ file'.kind # "data"
    BY <1>2 DEF OpenFresh, Opened, NoData, host
  <2>2. ASSUME v.boot = boot, ~shrunk, v.since = boot_ever
        PROVE  Within(v, Counted(FreshRecord, total))
    <3>1. Within(v, Minus(ever, v.since))
      BY DEF StaysReached
    <3>2. ASSUME NEW d \in Dirs
          PROVE  /\ Minus(ever, v.since)[d] = total[d]
                 /\ Counted(FreshRecord, total)[d] = total[d] /\ total[d] \in Int
      <4>1. total[d] = ever[d] - boot_ever[d] /\ total[d] \in Nat
        BY <2>2, HostType DEF BootInv
      <4>2. Minus(ever, v.since)[d] = total[d]
        BY <2>2, <4>1, MinusValue
      <4>3. FreshRecord.accumulated[d] = 0 /\ FreshRecord.boot_source[d] = 0
        BY DEF FreshRecord, Zero
      <4>4. Counted(FreshRecord, total)[d] = total[d]
        BY <4>1, <4>3, CountedValue, FreshRecordType DEF TypeOK
      <4> QED BY <4>1, <4>2, <4>4
    <3> QED BY <3>1, <3>2, WithinMore
  <2>3. FreshRecord.since = boot_ever
    BY DEF FreshRecord
  <2>4. FreshRecord.boot_id = boot
    BY DEF FreshRecord
  <2> QED BY <2>1, <2>2, <2>3, <2>4 DEF StaysReached, Within, Counted, SamePeriod
<1> QED BY <1>1, <1>2

LEMMA ReachedMerge ==
  ASSUME Platform = "linux", NEW v, StaysReached(v), Merge
  PROVE  StaysReached(v)'
<1>1. /\ UNCHANGED <<boot, total, ever, shrunk, file>>
      /\ rt.boot_id # boot /\ pc = "merge" /\ pc' = "truncate" /\ site' = "merge"
  BY DEF Merge, RebootAssumed, host, files
<1>2. v.boot = boot => shrunk
  BY <1>1 DEF StaysReached, HasRecord
<1> QED BY <1>1, <1>2 DEF StaysReached, Within, HasSeen

LEMMA ReachedWrite ==
  ASSUME TypeOK, NEW v, StaysReached(v), Write
  PROVE  StaysReached(v)'
<1>1. /\ UNCHANGED <<boot, total, ever, shrunk, rt, seen, seen_ever>>
      /\ pc = "write" /\ file'.kind = "data" /\ file'.data = rt
  BY DEF Write, Data, host, mem
<1>2. HasRecord /\ (HasSeen' => HasSeen)
  BY DEF Write, HasRecord, HasSeen, Continue, TypeOK, Sites
<1> QED BY <1>1, <1>2 DEF StaysReached, Within, Counted, SamePeriod

LEMMA ReachedSample ==
  ASSUME TypeOK, NEW v, StaysReached(v), Sample
  PROVE  StaysReached(v)'
<1>1. /\ UNCHANGED <<boot, total, ever, shrunk, rt, file>>
      /\ pc = "sample" /\ seen' = total /\ seen_ever' = ever
  BY DEF Sample, host, files
<1>2. HasRecord
  BY <1>1 DEF HasRecord
<1> QED BY <1>1, <1>2 DEF StaysReached, Within, Counted, SamePeriod

LEMMA ReachedReset ==
  ASSUME TypeOK, NEW v \in Shown, StaysReached(v), Reset
  PROVE  StaysReached(v)'
<1>1. /\ UNCHANGED <<boot, total, ever, shrunk, file, seen, seen_ever>>
      /\ pc = "reset" /\ rt' = ResetRecord
  BY DEF Reset, host, files
<1>2. HasRecord /\ HasSeen
  BY <1>1 DEF HasRecord, HasSeen
<1>3. ResetRecord.boot_id = rt.boot_id /\ ResetRecord.since = seen_ever
  BY RecordTypes DEF RuntimeData, ResetRecord
<1>4. ASSUME v.since = seen_ever, NEW t \in [Dirs -> Nat]
      PROVE  Within(v, Counted(ResetRecord, t))
  <2>1. Within(v, Minus(seen_ever, v.since))
    BY <1>2 DEF StaysReached
  <2>2. \A d \in Dirs : Minus(seen_ever, v.since)[d] = 0
    BY <1>4, MinusValue, HostType
  <2>3. \A d \in Dirs : Counted(ResetRecord, t)[d] \in Nat
    BY CountedValue, ResetRecordType
  <2> QED BY <2>1, <2>2, <2>3, WithinMore
<1>5. seen \in [Dirs -> Nat] /\ total \in [Dirs -> Nat]
  BY DEF TypeOK
<1> QED BY <1>1, <1>2, <1>3, <1>4, <1>5 DEF StaysReached, Within, Counted, SamePeriod

LEMMA ReachedTraffic ==
  ASSUME TypeOK, NEW v \in Shown, StaysReached(v), Traffic \/ InterfaceGone
  PROVE  StaysReached(v)'
<1>1. UNCHANGED <<boot, rt, file, seen, seen_ever, pc, site>>
  BY DEF Traffic, InterfaceGone, files, mem
<1>2. total' \in [Dirs -> Nat] /\ ever' \in [Dirs -> Nat]
  BY TypeWorld DEF World, TypeOK
<1>3. /\ \A d \in Dirs : ever[d] <= ever'[d]
      /\ ~shrunk' => ~shrunk /\ \A d \in Dirs : total[d] <= total'[d]
  BY <1>2, HostType DEF Traffic, InterfaceGone, TypeOK
<1>4. Within(v, Minus(ever', v.since))
  <2>1. Within(v, Minus(ever, v.since))
    BY DEF StaysReached
  <2>2. \A d \in Dirs : /\ Minus(ever, v.since)[d] \in Int
                        /\ Minus(ever', v.since)[d] \in Int
                        /\ Minus(ever, v.since)[d] <= Minus(ever', v.since)[d]
    BY <1>2, <1>3, MinusValue, HostType, ValueFields
  <2> QED BY <2>1, <2>2, WithinMore
<1>5. ASSUME ~shrunk', NEW record \in RuntimeData, Within(v, Counted(record, total))
      PROVE  Within(v, Counted(record, total'))
  BY <1>2, <1>3, <1>5, CountedGrows DEF TypeOK
<1>6. rt \in RuntimeData /\ file.data \in RuntimeData
  BY RecordTypes
<1>7. v.boot = boot /\ ~shrunk' =>
        /\ HasRecord => rt.boot_id = boot
        /\ file.kind = "data" => file.data.boot_id = boot
        /\ HasRecord /\ SamePeriod(rt, v) => Within(v, Counted(rt, total'))
        /\ HasSeen /\ SamePeriod(rt, v) => Within(v, Counted(rt, seen))
        /\ file.kind = "data" /\ SamePeriod(file.data, v)
             => Within(v, Counted(file.data, total'))
  BY <1>3, <1>5, <1>6 DEF StaysReached
<1> QED BY <1>1, <1>4, <1>7 DEF StaysReached, Within, Counted, SamePeriod, HasRecord, HasSeen

LEMMA ReachedStop ==
  ASSUME TypeOK, NEW v \in Shown, StaysReached(v), Crash \/ Reboot \/ LosePower
  PROVE  StaysReached(v)'
<1> USE DEF HasRecord, HasSeen
<1>1. pc' = "down" /\ UNCHANGED <<ever, shrunk>>
  BY DEF Crash, Reboot, LosePower, Stop
<1>2. CASE Crash
  BY <1>1, <1>2 DEF Crash, StaysReached, Within, Counted
<1>3. CASE Reboot \/ LosePower
  <2>1. boot' = boot + 1 /\ boot \in Nat /\ v.boot \in Nat
    BY <1>3, ValueFields DEF Reboot, LosePower, TypeOK
  <2>2. v.boot <= boot' /\ v.boot # boot'
    BY <2>1 DEF StaysReached
  <2> QED BY <1>1, <2>2 DEF StaysReached, Within
<1> QED BY <1>2, <1>3

LEMMA ReachedNext ==
  ASSUME Platform = "linux", TypeOK, MeterInv, BootInv, [Next]_vars,
         NEW v \in Shown, StaysReached(v)
  PROVE  StaysReached(v)'
BY ReachedQuiet, ReachedOpen, ReachedMerge, ReachedWrite, ReachedSample, ReachedReset,
   ReachedTraffic, ReachedStop
DEF Next, Saver, World, Fault

(***************************************************************************)
(* The value that is sent: it is reached by what will be shown, and itself *)
(* reaches what has been.                                                  *)
(***************************************************************************)
LEMMA SentValue ==
  ASSUME TypeOK, MeterInv, Send
  PROVE  /\ HasSeen /\ HasRecord /\ InLoop /\ HasMerged /\ SeenSound /\ rt.boot_id = boot
         /\ SamePeriod(sent', rt) /\ sent'.boot = boot /\ sent'.net = cur.net
         /\ \A d \in Dirs : sent'.value[d] = IF d \in cur.net.traffic_mode
                              THEN Counted(rt, seen)[d] + cur.net.calibration[d] ELSE 0
         /\ \A d \in Dirs : cur.net.calibration[d] \in Nat
BY DEF Send, HasSeen, HasRecord, InLoop, HasMerged, MeterInv, Display, SamePeriod,
       TypeOK, Config, NetworkSettings

LEMMA SentOrdered ==
  ASSUME TypeOK, MeterInv, Send, ~shrunk, NEW v \in Shown, StaysReached(v)
  PROVE  Ordered(v, sent')
<1> SUFFICES ASSUME SamePeriod(v, rt), v.boot = boot, v.net = cur.net, NEW d \in Dirs
             PROVE  sent'.value[d] >= v.value[d]
  BY SentValue DEF Ordered, SameMeter, SamePeriod
<1>1. Within(v, Counted(rt, seen))
  BY SentValue DEF StaysReached, SamePeriod
<1>2. Counted(rt, seen)[d] \in Nat /\ cur.net.calibration[d] \in Nat
  BY SentValue, CountedValue, RecordTypes DEF TypeOK
<1> QED BY <1>1, <1>2, SentValue, ValueFields DEF Within

LEMMA SentReached ==
  ASSUME TypeOK, MeterInv, BootInv, Send, NEW w \in Shown, w = sent'
  PROVE  StaysReached(w)'
<1>1. /\ UNCHANGED <<boot, total, ever, shrunk, file, rt>>
      /\ ~HasSeen'
  BY DEF Send, host, files, HasSeen
<1>2. /\ w.since = rt.since /\ w.ahead = rt.ahead /\ w.boot = boot /\ boot \in Nat
      /\ Within(w, Counted(rt, seen))
  BY SentValue, CountedValue, RecordTypes DEF Within, TypeOK, SamePeriod
<1>3. \A d \in Dirs : Counted(rt, seen)[d] \in Nat /\ Counted(rt, total)[d] \in Nat
  BY CountedValue, RecordTypes DEF TypeOK
<1>4. Within(w, Minus(ever, w.since))
  <2>1. ASSUME NEW d \in Dirs
        PROVE  /\ Minus(ever, w.since)[d] \in Int
               /\ Counted(rt, seen)[d] <= Minus(ever, w.since)[d]
    <3>1. Counted(rt, seen)[d] <= seen_ever[d] - rt.since[d]
      BY SentValue, CountedWithinSeen
    <3>2. seen_ever[d] <= ever[d]
      BY SentValue DEF SeenSound
    <3>3. Minus(ever, w.since)[d] = ever[d] - rt.since[d]
      BY <1>2, MinusValue
    <3> QED BY <1>3, <3>1, <3>2, <3>3, HostType, RecordFields, RecordTypes
  <2> QED BY <1>2, <1>3, <2>1, WithinMore
<1>5. ASSUME ~shrunk PROVE Within(w, Counted(rt, total))
  <2>1. ASSUME NEW d \in Dirs PROVE seen[d] <= total[d]
    <3>1. total[d] = ever[d] - boot_ever[d] /\ seen[d] = seen_ever[d] - boot_ever[d]
      BY <1>5, SentValue DEF BootInv
    <3>2. seen_ever[d] <= ever[d]
      BY SentValue DEF SeenSound
    <3> QED BY <3>1, <3>2, HostType
  <2> QED BY <1>2, <2>1, CountedGrows, RecordTypes DEF TypeOK
<1>6. file.kind = "data" => file.data.boot_id = boot
  BY SentValue DEF BootInv
<1>7. ASSUME ~shrunk, file.kind = "data", SamePeriod(file.data, w)
      PROVE  Within(w, Counted(file.data, total))
  <2>1. SameBaseline(file.data, rt)
    BY <1>6, <1>7, SentValue DEF BootInv
  <2>2. \A d \in Dirs : file.data.accumulated[d] = rt.accumulated[d]
                       /\ file.data.boot_source[d] = rt.boot_source[d]
    BY <1>2, <1>7, <2>1 DEF SameBaseline, SamePeriod
  <2>3. \A d \in Dirs : Counted(file.data, total)[d] = Counted(rt, total)[d]
    BY <2>2, CountedValue, RecordTypes DEF TypeOK
  <2> QED BY <1>3, <1>5, <1>7, <2>3, WithinMore
<1> QED BY <1>1, <1>2, <1>4, <1>5, <1>6, <1>7, SentValue DEF StaysReached, Within, Counted, SamePeriod

LEMMA SentInit == Init => SentStaysReached
<1> SUFFICES ASSUME Init PROVE SentStaysReached
  OBVIOUS
<1>1. TypeOK
  BY TypeInit
<1>2. /\ boot = 1 /\ pc = "down" /\ sent.boot = 0 /\ sent.value = Zero
      /\ sent.since = Zero /\ sent.net.calibration = Zero
  BY DEF Init, Blank, NoConfig
<1>3. Within(sent, Minus(ever, sent.since))
  BY <1>1, <1>2, HostType DEF Within, Minus, Zero
<1> QED BY <1>2, <1>3 DEF SentStaysReached, StaysReached, HasSeen

LEMMA SentUnchanged ==
  ASSUME [Next]_vars, ~Send PROVE UNCHANGED sent
<1>1. CASE Start \/ OpenExisting \/ OpenFresh \/ Merge \/ KeepRecord
  BY <1>1 DEF Start, OpenExisting, OpenFresh, Merge, KeepRecord
<1>2. CASE Truncate \/ Write \/ Sample \/ Reset
  BY <1>2 DEF Truncate, Write, Sample, Reset
<1>3. CASE NoCalibration \/ LoadCalibration \/ TruncateConfig \/ WriteConfig
  BY <1>3, Zenon DEF NoCalibration, LoadCalibration, TruncateConfig, WriteConfig
<1>4. CASE CountSample \/ SaveSample
  BY <1>4 DEF CountSample, SaveSample
<1>5. CASE World
  BY <1>5, Zenon DEF World, Traffic, InterfaceGone, Tick, EditConfig, Writeback
<1>6. CASE Fault
  BY <1>6, Zenon DEF Fault, Crash, Reboot, LosePower, Stop, OpenFails, RewriteFails,
     ConfigFails
<1>7. CASE UNCHANGED vars
  BY <1>7 DEF vars
<1> QED BY <1>1, <1>2, <1>3, <1>4, <1>5, <1>6, <1>7 DEF Next, Saver

LEMMA SentNext ==
  ASSUME Platform = "linux", TypeOK, MeterInv, BootInv, SentStaysReached, [Next]_vars
  PROVE  SentStaysReached'
<1>1. PICK v \in Shown : v = sent'
  BY TypeNext DEF TypeOK
<1>2. CASE Send
  <2>1. StaysReached(v)'
    BY <1>1, <1>2, SentReached
  <2> QED BY <1>1, <2>1 DEF SentStaysReached, StaysReached, Within
<1>3. CASE ~Send
  <2>1. StaysReached(v)
    BY <1>1, <1>3, SentUnchanged DEF SentStaysReached
  <2>2. StaysReached(v)'
    BY <2>1, ReachedNext
  <2> QED BY <1>1, <2>2 DEF SentStaysReached, StaysReached, Within
<1> QED BY <1>2, <1>3

(***************************************************************************)
(* On Linux the value shown never goes down within one boot, one period    *)
(* and one configuration, whatever stops, torn files and failed saves lie  *)
(* between two samples, as long as no interface goes.                      *)
(***************************************************************************)
THEOREM DisplayMonotoneOnLinux ==
  ASSUME Platform = "linux"
  PROVE  Spec => DisplayMonotone
<1>1. TypeOK /\ MeterInv /\ BootInv /\ SentStaysReached /\ [Next]_vars => SentStaysReached'
  BY SentNext
<1>2. TypeOK /\ MeterInv /\ SentStaysReached /\ [Next]_vars
        => [ ~shrunk /\ SameMeter(sent', sent)
             => \A d \in Dirs : sent'.value[d] >= sent.value[d] ]_sent
  <2> SUFFICES ASSUME TypeOK, MeterInv, SentStaysReached, [Next]_vars, ~shrunk, sent' # sent
               PROVE  Ordered(sent, sent')
    BY DEF Ordered, SameMeter, SamePeriod
  <2>1. Send
    BY SentUnchanged
  <2>2. PICK v \in Shown : v = sent
    BY DEF TypeOK
  <2> QED BY <2>1, <2>2, SentOrdered DEF SentStaysReached
<1> QED BY <1>1, <1>2, SentInit, TypeCorrect, MeterCorrect, BootCorrect, PTL
        DEF Spec, DisplayMonotone

=============================================================================
