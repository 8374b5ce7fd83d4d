---------------------------- MODULE NetworkSaver ----------------------------
(***************************************************************************)
(* The traffic meter of the agent: get_or_init_runtime_data and the loop   *)
(* of network_saver (get_info/network/network_saver.rs), with the two      *)
(* files it shares with the rest of the world.                             *)
(*                                                                         *)
(*   - The host counts bytes since its boot (`total'); a reboot clears the *)
(*     counters and changes the boot id.                                   *)
(*   - The saver keeps RuntimeData in memory (`rt') and now and then in    *)
(*     the runtime file.  A rewrite truncates the file and then writes it: *)
(*     two steps, and the process or the host may stop between them.       *)
(*   - The user edits the configuration file at any time; the saver reads  *)
(*     it at every sample and itself rewrites it, again in two steps, when *)
(*     a monthly reset clears the calibration.                             *)
(*                                                                         *)
(* Sizes are counted in units of traffic.  The code treats the upload (tx) *)
(* and the download (rx) counter alike: pairs of fields are functions on   *)
(* Dirs.  A boot id is the number of the boot.                             *)
(***************************************************************************)
EXTENDS ResetCalendar

CONSTANTS Dirs,       \* the directions that are counted: tx, rx
          Platform,   \* target_os of the build
          Dates,      \* the dates the clock shows
          Settings,   \* the network settings a user may write to the file
          SaveEvery,  \* samples between two periodic saves (10 in the code)
          IOErrors,   \* may file operations fail?
          PowerLoss,  \* may the host lose power, with writes not yet on disk?
          IfaceLoss,  \* may interfaces go, and their counters with them?
          MaxEver,    \* bound of the exploration: traffic
          MaxBoots,   \* bound: boots and edits together
          MaxStarts,  \* bound: starts and edits together
          MaxEdits,   \* bound: edits of the configuration by the user
          MaxUncounted \* bound: traffic on interfaces that only the installer counts

NetworkSettings ==
  [reset_day: ResetDays, calibration: [Dirs -> Nat], traffic_mode: SUBSET Dirs]

ASSUME DatesAssumption    == \A date \in Dates : IsDate(date)
ASSUME SettingsAssumption == Settings \subseteq NetworkSettings
ASSUME PlatformAssumption == Platform \in {"linux", "windows", "other"}
ASSUME BoundsAssumption   ==
  /\ SaveEvery \in Nat \ {0}
  /\ MaxEver \in Nat /\ MaxBoots \in Nat /\ MaxStarts \in Nat /\ MaxEdits \in Nat
  /\ MaxUncounted \in Nat
  /\ IOErrors \in BOOLEAN /\ PowerLoss \in BOOLEAN /\ IfaceLoss \in BOOLEAN

VARIABLES
  today, boot, total,      \* the host: clock, boot id, interface counters
  file, disk,              \* the runtime file as read, and as last synced
  conf,                    \* the configuration file
  pc, site,                \* where the saver is; which rewrite it is in
  rt, cur, save_counter,   \* its runtime_data, current_config, save_counter
  seen, loaded,            \* totals of this sample; config about to be saved
  sent,                    \* the last value handed to the channel
  ever, boot_ever, seen_ever, \* history: traffic since installation, until
                           \*   the last boot, until the last sample
  epoch, damaged,          \* history: start of the last period whose record
                           \*   reached the file; has a record been lost?
  closed_ever, closed_rev, \* history: `ever' and edits when a period was last closed
  shrunk,                  \* history: the sum of the counters has gone down
  starts, edits            \* history: process starts, edits of the config

host  == <<today, boot, total, ever, boot_ever, shrunk>>
files == <<file, disk, conf>>
mem   == <<rt, cur, save_counter, seen, seen_ever, loaded>>
hist  == <<epoch, damaged, closed_ever, closed_rev, starts, edits>>
vars  == <<today, boot, total, file, disk, conf, pc, site, rt, cur, save_counter,
           seen, loaded, sent, ever, boot_ever, seen_ever, epoch, damaged,
           closed_ever, closed_rev, shrunk, starts, edits>>

Zero == [d \in Dirs |-> 0]

\* A subtraction that does not stop at zero.
Minus(a, b) == [d \in Dirs |-> a[d] - b[d]]

\* u64::saturating_sub, for each direction.
Monus(a, b) == [d \in Dirs |-> IF a[d] >= b[d] THEN a[d] - b[d] ELSE 0]
Plus(a, b)  == [d \in Dirs |-> a[d] + b[d]]
Later(a, b) == [d \in Dirs |-> IF a[d] >= b[d] THEN a[d] ELSE b[d]]

-----------------------------------------------------------------------------
(***************************************************************************)
(* RuntimeData, and three fields of history: `opened' is the value of      *)
(* `ever' at which the period of the record began; `since' is the one from *)
(* which the record counts, which is earlier when the record of a period   *)
(* was lost and made anew; `ahead' is by how much its baseline exceeds the *)
(* counters of that moment.                                                *)
(***************************************************************************)
RuntimeData ==
  [boot_id: Nat, boot_source: [Dirs -> Nat], current_boot: [Dirs -> Nat],
   accumulated: [Dirs -> Nat], last_reset_month: Months,
   opened: [Dirs -> Nat], since: [Dirs -> Nat], ahead: [Dirs -> Nat]]

\* RuntimeData::default(), in memory before the file has been read.
NoRuntimeData ==
  [boot_id |-> 0, boot_source |-> Zero, current_boot |-> Zero,
   accumulated |-> Zero, last_reset_month |-> 1,
   opened |-> Zero, since |-> Zero, ahead |-> Zero]

\* What a file can hold.  "corrupt" is content that decode rejects.
RuntimeFile == [kind: {"absent", "empty", "corrupt", "data"}, data: RuntimeData]

NoData(kind) == [kind |-> kind, data |-> NoRuntimeData]
Data(record) == [kind |-> "data", data |-> record]

\* The configuration: its network settings, and in `rev' all the rest of it,
\* which is as old as the edit it comes from.
Config == [net: NetworkSettings, rev: Nat]
ConfigFile == [ok: BOOLEAN, data: Config]

NoConfig == [net |-> [reset_day |-> 1, calibration |-> Zero, traffic_mode |-> Dirs],
             rev |-> 0]

\* What the saver hands to the channel, with history: the record it is from,
\* the boot and the settings.
Shown ==
  [value: [Dirs -> Nat], opened: [Dirs -> Nat], since: [Dirs -> Nat],
   ahead: [Dirs -> Nat], boot: Nat, net: NetworkSettings]

\* Before the first sample: (0, 0).
Blank ==
  [value |-> Zero, opened |-> Zero, since |-> Zero, ahead |-> Zero, boot |-> 0,
   net |-> NoConfig.net]

\* Mutant: the configuration is written back with its calibration.
ClearedConfigKept(config) == config

\* Mutant: the cached configuration is written back, not the one in the file.
ClearedConfigCached(config) == [cur EXCEPT !.net.calibration = Zero]

\* Calibration values of 0 in both directions.
ClearedConfig(config) == [config EXCEPT !.net.calibration = Zero]

Pcs == {"down", "open", "merge", "sample", "reset", "truncate", "write",
        "calibration", "conf_truncate", "conf_write", "count", "send", "returned"}
Sites == {"none", "fresh", "merge", "reset", "save"}

\* Where network_saver continues after rewrite_runtime_data_file at a site.
Continue ==
  [none |-> "down", fresh |-> "merge", merge |-> "sample",
   reset |-> "calibration", save |-> "send"]

TypeOK ==
  /\ today \in Dates /\ boot \in Nat /\ total \in [Dirs -> Nat]
  /\ file \in RuntimeFile /\ disk \in RuntimeFile /\ conf \in ConfigFile
  /\ pc \in Pcs /\ site \in Sites
  /\ rt \in RuntimeData /\ cur \in Config /\ save_counter \in 0..SaveEvery - 1
  /\ seen \in [Dirs -> Nat] /\ loaded \in Config
  /\ sent \in Shown
  /\ ever \in [Dirs -> Nat] /\ boot_ever \in [Dirs -> Nat]
  /\ seen_ever \in [Dirs -> Nat] /\ epoch \in [Dirs -> Nat]
  /\ closed_ever \in [Dirs -> Nat] /\ closed_rev \in Int
  /\ damaged \in BOOLEAN /\ shrunk \in BOOLEAN /\ starts \in Nat /\ edits \in Nat

-----------------------------------------------------------------------------
\* RuntimeData as written for a new or unreadable file: it counts everything
\* since the boot of the host, also what belongs to a period that was closed in
\* this boot and whose successor's record is lost.
FreshRecord ==
  [boot_id            |-> IF Platform = "linux" THEN boot ELSE 0,
   boot_source        |-> Zero,
   current_boot       |-> Zero,
   accumulated        |-> Zero,
   last_reset_month   |-> InitialLastResetMonth(cur.net.reset_day, today),
   opened             |-> Later(boot_ever, closed_ever),
   since              |-> boot_ever,
   ahead              |-> Zero]

\* kagent.sh init_network_data: the installer starts counting at this moment.
\* It tells the interfaces by their names and so also sums those without a MAC
\* address (wg0, ppp0, ...), which filter_network leaves out: `extra'.
InstalledRecord(reset_day, extra) ==
  [boot_id            |-> boot,
   boot_source        |-> Plus(total, extra),
   current_boot       |-> Zero,
   accumulated        |-> Zero,
   last_reset_month   |-> InitialLastResetMonth(reset_day, today),
   opened             |-> ever,
   since              |-> ever,
   ahead              |-> extra]

\* The agent has just been installed on a host that is already up, with or
\* without the runtime file that kagent.sh writes.
Init ==
  /\ today \in Dates
  /\ boot = 1
  /\ total \in {t \in [Dirs -> 0..1] : \A d \in Dirs : t[d] <= MaxEver}
  /\ ever = total
  /\ boot_ever = Zero
  /\ \E net \in Settings :
       /\ conf = [ok |-> TRUE, data |-> [net |-> net, rev |-> 0]]
       /\ \/ file = NoData("absent")
          \/ /\ Platform = "linux"
             /\ \E extra \in [Dirs -> 0..MaxUncounted] :
                  file = Data(InstalledRecord(net.reset_day, extra))
  /\ disk = file
  /\ pc = "down" /\ site = "none"
  /\ rt = NoRuntimeData /\ cur = NoConfig /\ save_counter = 0
  /\ seen = Zero /\ seen_ever = Zero /\ loaded = NoConfig
  /\ sent = Blank
  /\ epoch = Zero /\ damaged = FALSE /\ closed_ever = Zero /\ closed_rev = -1
  /\ shrunk = FALSE
  /\ starts = 0 /\ edits = 0

-----------------------------------------------------------------------------
(***************************************************************************)
(* The program starts: main loads the configuration (and exits when it     *)
(* cannot), then spawns the saver.                                         *)
(***************************************************************************)
Start ==
  /\ pc = "down"
  /\ conf.ok
  /\ starts + edits < MaxStarts
  /\ starts' = starts + 1
  /\ cur' = conf.data
  /\ pc' = "open"
  /\ UNCHANGED <<host, files, site, rt, save_counter, seen, seen_ever, loaded,
                 sent, epoch, damaged, closed_ever, closed_rev, edits>>

(***************************************************************************)
(* get_or_init_runtime_data, up to the reboot check.                       *)
(***************************************************************************)
\* Mutant: the file is opened with truncate(true).
OpenedTruncated == NoData("empty")

\* The file once it is open: it is created if absent and never truncated; one
\* that cannot be decoded is removed after three seconds and created anew.
Opened == IF file.kind = "data" THEN file ELSE NoData("empty")

OpenExisting ==
  /\ pc = "open"
  /\ Opened.kind = "data"
  /\ rt' = Opened.data
  /\ pc' = "merge"
  /\ UNCHANGED <<host, files, site, cur, save_counter, seen, seen_ever, loaded,
                 sent, hist>>

OpenFresh ==
  /\ pc = "open"
  /\ Opened.kind # "data"
  /\ file' = Opened
  /\ rt' = FreshRecord
  /\ pc' = "truncate" /\ site' = "fresh"
  /\ UNCHANGED <<host, disk, conf, cur, save_counter, seen, seen_ever, loaded,
                 sent, hist>>

\* Opening, reading or removing fails: the saver returns and is never restarted
\* while the program runs.
OpenFails ==
  /\ IOErrors
  /\ pc = "open"
  /\ \/ UNCHANGED file
     \/ file.kind = "corrupt" /\ file' = NoData("absent")
  /\ pc' = "returned"
  /\ UNCHANGED <<host, disk, conf, mem, site, sent, hist>>

\* Mutant: current_boot is merged but not cleared.
MergedTwice(record) ==
  [record EXCEPT !.boot_id = boot, !.boot_source = Zero,
                 !.accumulated = Plus(record.accumulated, record.current_boot)]

\* What was counted under the previous boot becomes `accumulated'.
Merged(record) ==
  [record EXCEPT !.boot_id      = IF Platform = "linux" THEN boot ELSE 0,
                 !.boot_source  = Zero,
                 !.current_boot = Zero,
                 !.accumulated  = Plus(record.accumulated, record.current_boot),
                 !.ahead        = Zero]

\* Linux compares boot ids; Windows takes every program start for a reboot.
RebootAssumed ==
  \/ Platform = "linux" /\ rt.boot_id # boot
  \/ Platform = "windows"

Merge ==
  /\ pc = "merge"
  /\ RebootAssumed
  /\ rt' = Merged(rt)
  /\ pc' = "truncate" /\ site' = "merge"
  /\ UNCHANGED <<host, files, cur, save_counter, seen, seen_ever, loaded, sent, hist>>

KeepRecord ==
  /\ pc = "merge"
  /\ ~RebootAssumed
  /\ pc' = "sample"
  /\ UNCHANGED <<host, files, mem, site, sent, hist>>

-----------------------------------------------------------------------------
(***************************************************************************)
(* rewrite_runtime_data_file: set_len(0) and seek, then write_all.  When a *)
(* step fails the caller goes on in the loop, while during initialisation  *)
(* the saver returns for good.                                             *)
(***************************************************************************)
Truncate ==
  /\ pc = "truncate"
  /\ file' = NoData("empty")
  /\ pc' = "write"
  /\ UNCHANGED <<host, disk, conf, mem, site, sent, hist>>

Write ==
  /\ pc = "write"
  /\ file' = Data(rt)
  /\ epoch' = Later(rt.since, epoch)
  /\ pc' = Continue[site] /\ site' = "none"
  /\ UNCHANGED <<host, disk, conf, mem, sent, damaged, closed_ever, closed_rev, starts,
                 edits>>

RewriteFails ==
  /\ IOErrors
  /\ pc \in {"truncate", "write"}
  /\ pc' = IF site \in {"fresh", "merge"} THEN "returned" ELSE Continue[site]
  /\ UNCHANGED <<host, files, mem, site, sent, hist>>

-----------------------------------------------------------------------------
\* Hot reload: the whole configuration is replaced, but only when one of the
\* network settings differs; an unreadable file leaves the cached one.
Reloaded ==
  IF conf.ok /\ conf.data.net # cur.net THEN conf.data ELSE cur

(***************************************************************************)
(* The head of the loop: reload the configuration, read the counters and   *)
(* decide whether the monthly reset is due.                                *)
(***************************************************************************)
Sample ==
  /\ pc = "sample"
  /\ cur' = Reloaded
  /\ seen' = total
  /\ seen_ever' = ever
  /\ pc' = IF ShouldReset(rt.last_reset_month, Reloaded.net.reset_day, today)
             THEN "reset" ELSE "count"
  /\ UNCHANGED <<host, files, site, rt, save_counter, loaded, sent, hist>>

\* Mutant: the baseline is forgotten, so the period counts from the boot.
ResetRecordNoBaseline ==
  [rt EXCEPT !.boot_source      = Zero,
             !.current_boot     = Zero,
             !.accumulated      = Zero,
             !.last_reset_month = today.month,
             !.opened           = seen_ever,
             !.since            = seen_ever,
             !.ahead            = Zero]

\* Mutant: the month of the reset is not recorded.
ResetRecordSameMonth ==
  [rt EXCEPT !.boot_source      = seen,
             !.current_boot     = Zero,
             !.accumulated      = Zero,
             !.opened           = seen_ever,
             !.since            = seen_ever,
             !.ahead            = Zero]

\* A new period starts from the counters of this sample.
ResetRecord ==
  [rt EXCEPT !.boot_source      = seen,
             !.current_boot     = Zero,
             !.accumulated      = Zero,
             !.last_reset_month = today.month,
             !.opened           = seen_ever,
             !.since            = seen_ever,
             !.ahead            = Zero]

\* The reset reads the clock again; midnight may have passed since Sample.
Reset ==
  /\ pc = "reset"
  /\ rt' = ResetRecord
  /\ closed_ever' = seen_ever /\ closed_rev' = edits
  /\ pc' = "truncate" /\ site' = "reset"
  /\ UNCHANGED <<host, files, cur, save_counter, seen, seen_ever, loaded, sent, epoch,
                 damaged, starts, edits>>

(***************************************************************************)
(* After a reset, the calibration is cleared: the configuration file is    *)
(* read again, and fs::write truncates it and writes the decoded settings  *)
(* back.  The cached configuration follows only when that succeeded.       *)
(***************************************************************************)
NoCalibration ==
  /\ pc = "calibration"
  /\ cur.net.calibration = Zero
  /\ pc' = "count"
  /\ UNCHANGED <<host, files, mem, site, sent, hist>>

LoadCalibration ==
  /\ pc = "calibration"
  /\ cur.net.calibration # Zero
  /\ IF conf.ok
       THEN /\ loaded' = ClearedConfig(conf.data)
            /\ pc' = "conf_truncate"
       ELSE /\ pc' = "count"
            /\ UNCHANGED loaded
  /\ UNCHANGED <<host, files, site, rt, cur, save_counter, seen, seen_ever, sent, hist>>

TruncateConfig ==
  /\ pc = "conf_truncate"
  /\ conf' = [conf EXCEPT !.ok = FALSE]
  /\ pc' = "conf_write"
  /\ UNCHANGED <<host, file, disk, mem, site, sent, hist>>

WriteConfig ==
  /\ pc = "conf_write"
  /\ conf' = [ok |-> TRUE, data |-> loaded]
  /\ cur' = ClearedConfig(cur)
  /\ loaded' = NoConfig
  /\ pc' = "count"
  /\ UNCHANGED <<host, file, disk, site, rt, save_counter, seen, seen_ever, sent, hist>>

ConfigFails ==
  /\ IOErrors
  /\ pc \in {"conf_truncate", "conf_write"}
  /\ loaded' = NoConfig
  /\ pc' = "count"
  /\ UNCHANGED <<host, files, rt, cur, save_counter, seen, seen_ever, site, sent, hist>>

\* Mutant: the save moves the baseline as well, as if it opened a new boot.
SavedRecordRebased ==
  [rt EXCEPT !.current_boot = Monus(seen, rt.boot_source), !.boot_source = seen]

SavedRecord == [rt EXCEPT !.current_boot = Monus(seen, rt.boot_source)]

\* Every SaveEvery-th sample puts the traffic of this boot on record.
CountSample ==
  /\ pc = "count"
  /\ save_counter + 1 < SaveEvery
  /\ save_counter' = save_counter + 1
  /\ pc' = "send"
  /\ UNCHANGED <<host, files, site, rt, cur, seen, seen_ever, loaded, sent, hist>>

SaveSample ==
  /\ pc = "count"
  /\ save_counter + 1 >= SaveEvery
  /\ save_counter' = 0
  /\ rt' = SavedRecord
  /\ pc' = "truncate" /\ site' = "save"
  /\ UNCHANGED <<host, files, cur, seen, seen_ever, loaded, sent, hist>>

\* Mutant: what was already saved is subtracted from what is shown.
CountedSinceSave(record, counters) ==
  Plus(record.accumulated, Monus(counters, Plus(record.boot_source, record.current_boot)))

\* The traffic of the period that a record and the counters account for.
Counted(record, counters) ==
  Plus(record.accumulated, Monus(counters, record.boot_source))

\* What the server is shown: counted and calibrated, for the directions that
\* the traffic mode lets count.
Display ==
  [d \in Dirs |-> IF d \in cur.net.traffic_mode
                    THEN Counted(rt, seen)[d] + cur.net.calibration[d]
                    ELSE 0]

\* The channel takes the value; then the saver sleeps until the next sample
\* (the locals of this round are dropped).
Send ==
  /\ pc = "send"
  /\ sent' = [value |-> Display, opened |-> rt.opened, since |-> rt.since,
              ahead |-> rt.ahead, boot |-> boot, net |-> cur.net]
  /\ seen' = Zero /\ seen_ever' = Zero
  /\ pc' = "sample"
  /\ UNCHANGED <<host, files, rt, cur, save_counter, loaded, site, hist>>

Saver ==
  \/ OpenExisting \/ OpenFresh \/ Merge \/ KeepRecord
  \/ Truncate \/ Write
  \/ Sample \/ Reset
  \/ NoCalibration \/ LoadCalibration \/ TruncateConfig \/ WriteConfig
  \/ CountSample \/ SaveSample \/ Send

-----------------------------------------------------------------------------
\* The loop holds a record it has read or made and keeps on sampling.
InLoop ==
  \/ pc \in {"sample", "reset", "calibration", "conf_truncate", "conf_write",
             "count", "send"}
  \/ pc \in {"truncate", "write"} /\ site \in {"reset", "save"}

\* The process is gone, and with it what it kept in memory.  A record is lost
\* when the file holds none although the saver had one to rewrite.
Stop ==
  /\ pc' = "down" /\ site' = "none"
  /\ rt' = NoRuntimeData /\ cur' = NoConfig /\ save_counter' = 0
  /\ seen' = Zero /\ seen_ever' = Zero /\ loaded' = NoConfig
  /\ UNCHANGED <<today, sent, ever, epoch, closed_ever, closed_rev, shrunk, starts, edits>>

RecordLost == file.kind # "data" /\ site \in {"merge", "reset", "save"}

\* The process is killed, or the service is restarted.
Crash ==
  /\ pc # "down"
  /\ Stop
  /\ damaged' = (damaged \/ RecordLost)
  /\ UNCHANGED <<boot, total, boot_ever, file, disk, conf>>

\* The host goes down in order: what was written is on disk.
Reboot ==
  /\ boot + edits < MaxBoots
  /\ Stop
  /\ boot' = boot + 1 /\ total' = Zero /\ boot_ever' = ever
  /\ damaged' = (damaged \/ RecordLost)
  /\ UNCHANGED <<file, disk, conf>>

\* The host loses power: nothing is ever fsynced, so the file may come back as
\* it was at the last writeback, as it is, empty, or full of zero bytes.
LosePower ==
  /\ PowerLoss
  /\ boot + edits < MaxBoots
  /\ Stop
  /\ boot' = boot + 1 /\ total' = Zero /\ boot_ever' = ever
  /\ file' \in {disk, file, NoData("empty"), NoData("corrupt")}
  /\ disk' = file'
  /\ damaged' = (damaged \/ RecordLost \/ file' # file)
  /\ UNCHANGED conf

\* The kernel writes the file back (which matters while power may yet be lost).
Writeback ==
  /\ PowerLoss
  /\ boot + edits < MaxBoots
  /\ disk # file
  /\ disk' = file
  /\ UNCHANGED <<host, file, conf, pc, site, mem, sent, hist>>

Traffic ==
  /\ \E d \in Dirs :
       /\ ever[d] < MaxEver
       /\ total' = [total EXCEPT ![d] = @ + 1]
       /\ ever' = [ever EXCEPT ![d] = @ + 1]
  /\ UNCHANGED <<today, boot, boot_ever, shrunk, files, pc, site, mem, sent, hist>>

\* An interface disappears; its bytes are no longer part of the sum (explored
\* while a boot or an edit is still to come).
InterfaceGone ==
  /\ IfaceLoss /\ ~shrunk
  /\ boot + edits < MaxBoots
  /\ shrunk' = TRUE
  /\ \E d \in Dirs : \E rest \in 0..total[d] - 1 :
       total' = [total EXCEPT ![d] = rest]
  /\ UNCHANGED <<today, boot, boot_ever, ever, files, pc, site, mem, sent, hist>>

Tick ==
  /\ \E date \in Dates : Earlier(today, date) /\ today' = date
  /\ UNCHANGED <<boot, total, boot_ever, ever, shrunk, files, pc, site, mem, sent, hist>>

\* The user saves another configuration, or one that cannot be decoded.
EditConfig ==
  /\ edits < MaxEdits
  /\ starts + edits < MaxStarts /\ boot + edits < MaxBoots
  /\ edits' = edits + 1
  /\ \/ \E net \in Settings :
          conf' = [ok |-> TRUE, data |-> [net |-> net, rev |-> edits + 1]]
     \/ conf' = [conf EXCEPT !.ok = FALSE]
  /\ UNCHANGED <<host, file, disk, pc, site, mem, sent, epoch, damaged,
                 closed_ever, closed_rev, starts>>

World == Traffic \/ InterfaceGone \/ Tick \/ EditConfig \/ Writeback
Fault == Crash \/ Reboot \/ LosePower \/ OpenFails \/ RewriteFails \/ ConfigFails

Next == Start \/ Saver \/ World \/ Fault

Spec == Init /\ [][Next]_vars

-----------------------------------------------------------------------------
(***************************************************************************)
(* NETWORK_RESET_GUIDE.md:61: from one reset to the next every byte counts *)
(* once.  What is about to be shown (before calibration) is at most the    *)
(* traffic since the period began.  Two things break it: on Windows the    *)
(* merge at every start; everywhere a stop inside a rewrite, after which a *)
(* record is made anew and counts again what a closed period has counted.  *)
(***************************************************************************)
NoOvercount ==
  pc = "send" =>
    \A d \in Dirs : Counted(rt, seen)[d] <= seen_ever[d] - rt.opened[d]

(***************************************************************************)
(* On Linux that is all that breaks it, through program restarts, reboots, *)
(* power loss, failed rewrites, vanishing interfaces and resets in any     *)
(* order: no byte counts twice in what one record counts, and it counts    *)
(* from where its period began unless a record was lost before.  (Then it  *)
(* counts from the boot in which it was made, until the next reset.)       *)
(***************************************************************************)
OvercountNeedsLostRecord ==
  pc = "send" =>
    /\ \A d \in Dirs : Counted(rt, seen)[d] <= seen_ever[d] - rt.since[d]
    /\ rt.since # rt.opened => damaged

(***************************************************************************)
(* Within one boot nothing is lost: however often the program stops, and   *)
(* whether or not its saves and its record reached the file, a period that *)
(* began in this boot is counted in full (on a host whose interfaces stay) *)
(* but for what the installer's baseline was ahead of the counters.        *)
(***************************************************************************)
NothingLostWithinBoot ==
  pc = "send" /\ ~shrunk =>
    \A d \in Dirs :
      rt.opened[d] >= boot_ever[d]
        => Counted(rt, seen)[d] + rt.ahead[d] >= seen_ever[d] - rt.opened[d]

(***************************************************************************)
(* Why no record counts a byte twice on Linux: the strengthening that is   *)
(* inductive.  A record is sound when what it says was counted, plus what  *)
(* its next reader will add, fits into the traffic since it counts.        *)
(* A reader of the same boot adds the counters above the baseline; one of  *)
(* a later boot merges current_boot and adds the counters as they are.     *)
(***************************************************************************)
SoundAt(record, now, counters, sofar) ==
  \A d \in Dirs :
    /\ record.accumulated[d] + record.current_boot[d] <= sofar[d] - record.since[d]
    /\ record.boot_id = now =>
         record.accumulated[d] + counters[d] - record.boot_source[d]
           <= sofar[d] - record.since[d]
    /\ record.boot_id # now =>
         record.accumulated[d] + record.current_boot[d] + counters[d]
           <= sofar[d] - record.since[d]

Sound(record) == SoundAt(record, boot, total, ever)

\* The reboot check is behind the saver: its record is of this boot.
HasMerged == pc \notin {"down", "open", "merge", "returned"}

\* The counters of this round have been read.
HasSeen ==
  \/ pc \in {"reset", "calibration", "conf_truncate", "conf_write", "count", "send"}
  \/ pc \in {"truncate", "write"} /\ site \in {"reset", "save"}

\* The round's counters agree with the world and with the record.
SeenSound ==
  \A d \in Dirs :
    /\ seen_ever[d] <= ever[d]
    /\ total[d] - seen[d] <= ever[d] - seen_ever[d]
    /\ rt.accumulated[d] <= seen_ever[d] - rt.since[d]
    /\ rt.accumulated[d] + seen[d] - rt.boot_source[d] <= seen_ever[d] - rt.since[d]

MeterInv ==
  /\ boot >= 1
  /\ \A d \in Dirs : total[d] <= ever[d] - boot_ever[d]
  /\ rt.boot_id <= boot /\ file.data.boot_id <= boot /\ disk.data.boot_id <= boot
  /\ Sound(rt) /\ Sound(file.data) /\ Sound(disk.data)
  /\ HasMerged => rt.boot_id = boot
  /\ HasSeen => SeenSound

(***************************************************************************)
(* Why NothingLostWithinBoot holds on Linux.  As long as no interface went *)
(* the counters are the traffic since the boot, and so (but for what it is *)
(* ahead) is the baseline of every record that counts from this boot on,   *)
(* in memory and in the file; such a record has nothing accumulated, and   *)
(* one that counts from before has no baseline.  The file is of this boot  *)
(* once the loop runs, and a period has one baseline in a boot.            *)
(***************************************************************************)
Exact(record) ==
  record.boot_id = boot =>
    \A d \in Dirs :
      IF record.since[d] >= boot_ever[d]
        THEN /\ record.accumulated[d] = 0
             /\ record.boot_source[d] = record.since[d] - boot_ever[d] + record.ahead[d]
        ELSE record.boot_source[d] = 0

SameBaseline(a, b) ==
  \A d \in Dirs :
    a.since[d] = b.since[d] /\ a.ahead[d] = b.ahead[d]
      => a.accumulated[d] = b.accumulated[d] /\ a.boot_source[d] = b.boot_source[d]

BootInv ==
  /\ pc = "merge" => file = Data(rt)
  /\ pc \in {"truncate", "write"} /\ site = "fresh" => file.kind # "data"
  /\ InLoop /\ file.kind = "data" => file.data.boot_id = boot
  /\ ~shrunk =>
       /\ \A d \in Dirs : total[d] = ever[d] - boot_ever[d]
       /\ Exact(rt) /\ Exact(file.data)
       /\ HasSeen => \A d \in Dirs : seen[d] = seen_ever[d] - boot_ever[d]
       /\ HasMerged /\ file.kind = "data" /\ file.data.boot_id = boot
            => SameBaseline(file.data, rt)

(***************************************************************************)
(* A period that was closed on disk stays closed: as long as no record was *)
(* lost by a rewrite cut in two, the loop works on a period no older than  *)
(* the last one written, whatever crashes and failed writes came between.  *)
(***************************************************************************)
PeriodStaysClosed ==
  InLoop /\ ~damaged => \A d \in Dirs : rt.since[d] >= epoch[d]

(***************************************************************************)
(* Why PeriodStaysClosed holds: a whole file is never older than the last  *)
(* period on record, and a file without a record has never had one unless  *)
(* a rewrite is under way (or one has failed and the saver still has it).  *)
(***************************************************************************)
NotBefore(f, g) == \A d \in Dirs : f[d] >= g[d]

PeriodInv ==
  /\ NotBefore(ever, boot_ever)
  /\ NotBefore(ever, rt.since) /\ NotBefore(ever, file.data.since)
  /\ NotBefore(ever, disk.data.since)
  /\ NotBefore(rt.opened, rt.since) /\ NotBefore(file.data.opened, file.data.since)
  /\ NotBefore(disk.data.opened, disk.data.since)
  /\ HasSeen => NotBefore(seen_ever, rt.since) /\ NotBefore(ever, seen_ever)
  /\ pc \in {"down", "open"} => site = "none"
  /\ pc \in {"truncate", "write"} => site # "none"
  /\ pc \in {"truncate", "write"} /\ site = "fresh" => file.kind # "data"
  /\ ~damaged =>
       /\ file.kind = "data" => NotBefore(file.data.since, epoch)
       /\ file.kind # "data" /\ site \notin {"merge", "reset", "save"}
            => epoch = Zero /\ closed_ever = Zero
       /\ rt.since = rt.opened /\ file.data.since = file.data.opened
       /\ pc \notin {"down", "open", "returned"} => NotBefore(rt.since, epoch)

\* Of one period: with one start and one baseline.
SamePeriod(a, b) == a.since = b.since /\ a.ahead = b.ahead

\* Two values of one period, one boot and one configuration.
SameMeter(u, w) == SamePeriod(u, w) /\ u.boot = w.boot /\ u.net = w.net

(***************************************************************************)
(* Within one boot, one period and one configuration the value the server  *)
(* is shown never goes down, even when the program stops and starts again  *)
(* between two values.                                                     *)
(***************************************************************************)
DisplayMonotone ==
  [][ ~shrunk /\ SameMeter(sent', sent)
      => \A d \in Dirs : sent'.value[d] >= sent.value[d] ]_sent

(***************************************************************************)
(* Why DisplayMonotone holds on Linux: what has been shown stays reached.  *)
(* A value v is within what the meter would now show for its period, from  *)
(* the record in memory or, after a stop, from the one in the file.  It is *)
(* within the traffic of its period, so a record that is made anew reaches *)
(* it too; and no record is merged again in the boot in which v was sent.  *)
(***************************************************************************)
Within(v, amount) ==
  \A d \in Dirs :
    v.value[d] <= IF d \in v.net.traffic_mode THEN amount[d] + v.net.calibration[d] ELSE 0

HasRecord == pc \notin {"down", "open", "returned"}

StaysReached(v) ==
  /\ v.boot <= boot
  /\ Within(v, Minus(ever, v.since))
  /\ HasSeen => Within(v, Minus(seen_ever, v.since))
  /\ v.boot = boot /\ ~shrunk =>
       /\ HasRecord => rt.boot_id = boot
       /\ file.kind = "data" => file.data.boot_id = boot
       /\ HasRecord /\ SamePeriod(rt, v) => Within(v, Counted(rt, total))
       /\ HasSeen /\ SamePeriod(rt, v) => Within(v, Counted(rt, seen))
       /\ file.kind = "data" /\ SamePeriod(file.data, v)
            => Within(v, Counted(file.data, total))

SentStaysReached == StaysReached(sent)

\* Of two values of one boot, period and configuration the later is no less.
Ordered(u, w) ==
  SameMeter(u, w)
    => \A d \in Dirs : w.value[d] >= u.value[d]

(***************************************************************************)
(* komari-agent.conf.example:74: a calibration value is reset to 0 on the  *)
(* monthly reset day.  No value shown in a period includes a calibration   *)
(* that the user wrote before the period began.                            *)
(***************************************************************************)
CalibrationEndsWithPeriod ==
  pc = "send" /\ cur.rev <= closed_rev => cur.net.calibration = Zero

(***************************************************************************)
(* NETWORK_RESET_GUIDE.md:354: overwriting makes the update of the         *)
(* configuration file atomic.  When the program is down and the user has   *)
(* touched nothing, the file can be read (without it main exits at once).  *)
(***************************************************************************)
ConfigWrittenWhole == pc = "down" /\ edits = 0 => conf.ok

(***************************************************************************)
(* The same for a program that has run without a stop and without an I/O   *)
(* error since it was started, on a file the user leaves alone.            *)
(***************************************************************************)
CalibrationEndsInOneRun ==
  starts = 1 /\ edits = 0 /\ ~IOErrors => CalibrationEndsWithPeriod

(***************************************************************************)
(* Why that holds: on a file the user leaves alone the settings at work    *)
(* are those of the file, except while they are rewritten, and once a      *)
(* period has been closed they have no calibration.                        *)
(***************************************************************************)
Clearing ==
  \/ pc \in {"calibration", "conf_truncate", "conf_write"}
  \/ pc \in {"truncate", "write"} /\ site = "reset"

OneRunInv ==
  /\ starts = 0 => pc = "down" /\ closed_rev < 0
  /\ starts = 1 /\ edits = 0 /\ ~IOErrors /\ pc # "down" =>
       /\ conf = [ok |-> pc # "conf_write", data |-> cur]
       /\ pc \in {"conf_truncate", "conf_write"} => loaded = ClearedConfig(cur)
       /\ closed_rev >= 0 /\ ~Clearing => cur.net.calibration = Zero

=============================================================================
