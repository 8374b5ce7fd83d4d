----------------------------- MODULE MeterSystem -----------------------------
(***************************************************************************)
(* The traffic meter and the reports together: what NetworkSaver hands to  *)
(* the channel is what main takes out of it, one value per report, and     *)
(* shows to the server (main.rs, get_info/network/mod.rs).                 *)
(*                                                                         *)
(* A stop of the process takes the channel, LAST_NETWORK and the           *)
(* connection with it; an outage stops the reports and, once the channel   *)
(* is full, the saver, its resets and its saves.                           *)
(***************************************************************************)
EXTENDS NetworkSaver, Fake, Sequences

CONSTANTS Capacity,    \* of the channel (15 in the code)
          MaxTroubles  \* bound of the exploration: starts and outages together

ASSUME CapacityAssumption == Capacity \in Nat \ {0}
ASSUME TroublesAssumption == MaxTroubles \in Nat

VARIABLES
  channel,             \* network_saver_tx -> network_saver_rx
  last,                \* LAST_NETWORK
  link,                \* the WebSocket connection
  server_up,           \* can the server be reached?
  shown,               \* what the last report that arrived has shown
  best,                \* history: the sample of the last report that showed one
  outages,             \* history: outages so far
  wish                 \* history: the settings the user wants; are they due?

reports == <<channel, last, link, server_up, shown, best, outages>>

SystemTypeOK ==
  /\ TypeOK
  /\ channel \in Seq(Shown) /\ Len(channel) <= Capacity
  /\ last \in Shown /\ shown \in Shown /\ best \in Shown
  /\ link \in {"none", "up", "broken"}
  /\ server_up \in BOOLEAN /\ outages \in Nat
  /\ wish \in [net: NetworkSettings, due: BOOLEAN]

SystemInit ==
  /\ Init
  /\ channel = <<>> /\ last = Blank /\ link = "none"
  /\ server_up = TRUE /\ outages = 0
  /\ shown = Blank /\ best = Blank
  /\ wish = [net |-> conf.data.net, due |-> TRUE]

-----------------------------------------------------------------------------
(***************************************************************************)
(* The steps of NetworkSaver in their surroundings.                        *)
(***************************************************************************)
\* Mutant: the saver sends without waiting for room.
AlwaysRoom == TRUE

\* tx.send(..).await is pending as long as the channel is full.
Room == Len(channel) < Capacity

SaverStep ==
  /\ Saver
  /\ IF pc = "send" THEN Room /\ channel' = Append(channel, sent')
                    ELSE UNCHANGED channel
  /\ wish' = IF pc = "conf_write" THEN [wish EXCEPT !.net.calibration = Zero] ELSE wish
  /\ UNCHANGED <<last, link, server_up, shown, best, outages>>

StartStep == Start /\ starts + outages < MaxTroubles /\ UNCHANGED <<reports, wish>>

\* Between load_user_config and save_user_config of a reset.
Rewriting == pc \in {"conf_truncate", "conf_write"}

\* What the user writes (so that it can be read) is what the user wants from
\* then on; while the saver is rewriting the file it is overwritten.
WorldStep ==
  /\ World
  /\ wish' = IF edits' # edits /\ conf'.ok
               THEN [net |-> conf'.data.net, due |-> ~Rewriting]
               ELSE wish
  /\ UNCHANGED reports

\* The process takes its channel, its statics and its connection with it.
FaultStep ==
  /\ Fault
  /\ IF pc' = "down"
       THEN channel' = <<>> /\ last' = Blank /\ link' = "none"
       ELSE UNCHANGED <<channel, last, link>>
  /\ UNCHANGED <<server_up, shown, best, outages, wish>>

-----------------------------------------------------------------------------
(***************************************************************************)
(* main: a report takes at most one value out of the channel.              *)
(***************************************************************************)
\* Mutant: an empty channel counts as no traffic.
TakenOrNothing == IF channel = <<>> THEN Blank ELSE Head(channel)

\* Mutant: the value is taken, but LAST_NETWORK is not set.
TakenUnset == last

Taken == IF channel = <<>> THEN last ELSE Head(channel)

\* The totals of a report are multiplied by the factor of the configuration.
Reported(v) == [v EXCEPT !.value = [d \in Dirs |-> Faked(v.value[d])]]

Build ==
  /\ pc # "down"
  /\ last' = Taken
  /\ channel' = IF channel = <<>> THEN <<>> ELSE Tail(channel)
  /\ UNCHANGED <<vars, server_up, outages, wish>>

Report ==
  /\ link = "up" /\ Build
  /\ shown' = Reported(last')
  /\ best' = IF last' = Blank THEN best ELSE last'
  /\ UNCHANGED link

\* The socket of a broken connection still takes it, or the send fails and main
\* leaves the connection.
ReportLost  == link = "broken" /\ Build /\ UNCHANGED <<link, shown, best>>
ReportFails == link = "broken" /\ Build /\ link' = "none" /\ UNCHANGED <<shown, best>>

Connect ==
  /\ pc # "down" /\ link = "none" /\ server_up
  /\ link' = "up"
  /\ UNCHANGED <<vars, channel, last, server_up, shown, best, outages, wish>>

\* The server, or the way to it, fails (or just this connection does: then the
\* server is back at once).
Outage ==
  /\ starts + outages < MaxTroubles
  /\ outages' = outages + 1
  /\ link' = IF link = "up" THEN "broken" ELSE link
  /\ server_up' = FALSE
  /\ UNCHANGED <<vars, channel, last, shown, best, wish>>

ServerBack ==
  /\ ~server_up
  /\ server_up' = TRUE
  /\ UNCHANGED <<vars, channel, last, link, shown, best, outages, wish>>

MainStep == Report \/ ReportLost \/ ReportFails \/ Connect

SystemNext ==
  \/ StartStep \/ SaverStep \/ WorldStep \/ FaultStep
  \/ MainStep \/ Outage \/ ServerBack

systemVars == <<vars, reports, wish>>

SystemSpec == SystemInit /\ [][SystemNext]_systemVars

\* systemd restarts the service (Restart=always in kagent.sh), both tasks are
\* run, a connection that can be made again and again is made some time, and a
\* broken one fails some time.
SystemFairness ==
  /\ WF_systemVars(StartStep) /\ WF_systemVars(SaverStep)
  /\ WF_systemVars(MainStep) /\ SF_systemVars(Connect) /\ SF_systemVars(ReportFails)

SystemFairSpec == SystemSpec /\ SystemFairness

-----------------------------------------------------------------------------
(***************************************************************************)
(* NETWORK_RESET_GUIDE.md:61: what is shown is the traffic of the period   *)
(* and the calibration (times the factor), never more - neither on the     *)
(* server nor in the values on their way to it, which may have been        *)
(* measured a period ago.  What a closed period has counted is shown again *)
(* in the next one only after a record was lost in a rewrite cut in two.   *)
(***************************************************************************)
OfItsPeriod(v) == v.since # v.opened => damaged

Bound(v, d) == ever[d] - v.since[d] + v.net.calibration[d]

Honest(v) == OfItsPeriod(v) /\ \A d \in Dirs : v.value[d] <= Bound(v, d)

HonestReport(v) == OfItsPeriod(v) /\ \A d \in Dirs : v.value[d] <= Faked(Bound(v, d))

ShownHonest ==
  /\ Honest(last) /\ HonestReport(shown)
  /\ \A i \in 1..Len(channel) : Honest(channel[i])

(***************************************************************************)
(* From some moment on the program runs and its server can be reached.     *)
(***************************************************************************)
InService == <>[](pc # "down" /\ server_up)

(***************************************************************************)
(* A reset that is due is in the end on record, and so is the traffic once *)
(* it pauses.  Without a server neither is promised: the saver waits for   *)
(* room in the channel, and a reset can fall into an outage of any length. *)
(***************************************************************************)
FileCatchesUp ==
  InService
    => []<>( /\ file.kind = "data"
             /\ ~ShouldReset(file.data.last_reset_month, conf.data.net.reset_day, today)
             /\ file.data.current_boot = Monus(total, file.data.boot_source) )

(***************************************************************************)
(* NETWORK_RESET_GUIDE.md:66: changes of the network settings take effect  *)
(* without a restart.  What the user has last written is at work some time *)
(* (or the file has become unreadable), through crashes, resets and the    *)
(* saver's own rewrites, with two exceptions.  What is written between     *)
(* load_user_config and save_user_config of a reset (network_saver.rs:361, *)
(* 368) is overwritten and never takes effect: it is not `due'.  And of    *)
(* what is written during a reset, but before that, the calibration is     *)
(* cleared with the old one.                                               *)
(***************************************************************************)
HotReload == InService => []<>(wish.due /\ conf.ok => cur.net = wish.net)

(***************************************************************************)
(* What the server sees follows the interfaces, through all of it: the     *)
(* samples queued in an outage are worked off, and the traffic the host    *)
(* has then is shown, counted in its period, calibrated and faked.         *)
(***************************************************************************)
ServerShowsTraffic ==
  InService
    => []<>(\A d \in cur.net.traffic_mode :
              shown.value[d] = Faked(Counted(rt, total)[d] + cur.net.calibration[d]))

(***************************************************************************)
(* Within one boot, one period and one configuration what the server is    *)
(* shown never goes down, through restarts of the program and outages -    *)
(* but for the (0, 0) of a new process, and that only until the process    *)
(* has reported its first sample.                                          *)
(***************************************************************************)
ShownMonotone ==
  [][Report =>
       /\ shown' = Blank => last = Blank
       /\ ~shrunk /\ SameMeter(best', best)
            => \A d \in Dirs : Reported(best').value[d] >= Reported(best).value[d]]_systemVars

(***************************************************************************)
(* Why ShownMonotone holds on Linux: what was last shown, what main keeps  *)
(* and what is on its way stay reached by the meter, and each of them is   *)
(* reached by those behind it.  What main keeps counts only when it is     *)
(* from a sample, and a value in the channel always is.                    *)
(***************************************************************************)
ReportsInv ==
  /\ StaysReached(best) /\ StaysReached(last)
  /\ last = Blank \/ last.boot >= 1
  /\ \A i \in 1..Len(channel) : StaysReached(channel[i]) /\ channel[i].boot >= 1
  /\ ~shrunk =>
       /\ last # Blank => Ordered(best, last)
       /\ \A i \in 1..Len(channel) : Ordered(best, channel[i])
       /\ \A i, j \in 1..Len(channel) : i < j => Ordered(channel[i], channel[j])

=============================================================================
