------------------------------ MODULE Reporter ------------------------------
(***************************************************************************)
(* How the traffic gets from the saver to the server: the task that        *)
(* network_saver runs in, the bounded channel, and the loop of main that   *)
(* connects, takes at most one value per report out of the channel and     *)
(* sends it (main.rs and get_info/network/mod.rs).                         *)
(*                                                                         *)
(* The channel is only looked into while a connection stands, so a server  *)
(* that cannot be reached stops the saver as soon as the channel is full.  *)
(***************************************************************************)
EXTENDS Fake, Sequences

CONSTANTS Capacity,   \* of the channel (15 in the code)
          MaxTotal, MaxSamples, MaxOutages  \* bounds of the exploration

ASSUME CapacityAssumption == Capacity \in Nat \ {0}

VARIABLES
  enabled,            \* ~config.disable_network_statistics
  total,              \* the interface counters
  saver, holding,     \* where network_saver is; the value it is sending
  sampled,            \* history: the samples it has taken
  channel,            \* network_saver_tx -> network_saver_rx
  main, report,       \* where main is; the report it has built
  last,               \* LAST_NETWORK
  link,               \* the WebSocket connection
  server_up, shown,   \* the server, and the last report it got
  outages             \* history: outages so far

agent == <<saver, holding, sampled, channel>>
loop  == <<main, report, last>>
vars  == <<enabled, total, saver, holding, sampled, channel, main, report, last,
           link, server_up, shown, outages>>

\* A value on its way to the server.  `n' is history: the number of the
\* sample it comes from, 0 for LAST_NETWORK's initial value and for values
\* that come from no sample.  A report has the total times the factor, and
\* as history what the interfaces counted when it was built.
Value  == [n: Nat, total: Nat]
Report == [n: Nat, total: Nat, interfaces: Nat]

TypeOK ==
  /\ enabled \in BOOLEAN /\ total \in Nat
  /\ saver \in {"off", "init", "sample", "send", "returned"}
  /\ holding \in Value /\ sampled \in Nat
  /\ channel \in Seq(Value) /\ Len(channel) <= Capacity
  /\ main \in {"connect", "wait", "basic", "build", "send"}
  /\ report \in Report /\ last \in Value
  /\ link \in {"none", "up", "broken"}
  /\ server_up \in BOOLEAN /\ shown \in Report /\ outages \in Nat

Init ==
  /\ enabled \in BOOLEAN
  /\ total = 0
  /\ saver = IF enabled THEN "init" ELSE "off"
  /\ holding = [n |-> 0, total |-> 0] /\ sampled = 0
  /\ channel = <<>>
  /\ main = "connect"
  /\ report = [n |-> 0, total |-> 0, interfaces |-> 0]
  /\ last = [n |-> 0, total |-> 0]
  /\ link = "none"
  /\ server_up \in BOOLEAN
  /\ shown = report
  /\ outages = 0

-----------------------------------------------------------------------------
(***************************************************************************)
(* The saver, as far as the channel is concerned.                          *)
(***************************************************************************)
\* get_or_init_runtime_data succeeds.
SaverReady ==
  /\ saver = "init"
  /\ saver' = "sample"
  /\ UNCHANGED <<enabled, total, holding, sampled, channel, loop, link,
                 server_up, shown, outages>>

\* It fails: network_saver returns, and its end of the channel is dropped.
SaverReturns ==
  /\ saver = "init"
  /\ saver' = "returned"
  /\ UNCHANGED <<enabled, total, holding, sampled, channel, loop, link,
                 server_up, shown, outages>>

TakeSample ==
  /\ saver = "sample"
  /\ sampled < MaxSamples
  /\ sampled' = sampled + 1
  /\ holding' = [n |-> sampled + 1, total |-> total]
  /\ saver' = "send"
  /\ UNCHANGED <<enabled, total, channel, loop, link, server_up, shown, outages>>

\* Mutant: the channel holds one value more than it has room for.
HasRoomForOneMore == Len(channel) <= Capacity

HasRoom == Len(channel) < Capacity

\* tx.send(..).await is pending as long as the channel is full.
Put ==
  /\ saver = "send"
  /\ HasRoom
  /\ channel' = Append(channel, holding)
  /\ saver' = "sample"
  /\ UNCHANGED <<enabled, total, holding, sampled, loop, link, server_up,
                 shown, outages>>

-----------------------------------------------------------------------------
(***************************************************************************)
(* The loop of main.                                                       *)
(***************************************************************************)
Connect ==
  /\ main = "connect"
  /\ server_up
  /\ link' = "up"
  /\ main' = "basic"
  /\ UNCHANGED <<enabled, total, agent, report, last, server_up, shown, outages>>

\* Refused, or not done within ten seconds; main sleeps for five.
ConnectFails ==
  /\ main = "connect"
  /\ main' = "wait"
  /\ UNCHANGED <<enabled, total, agent, report, last, link, server_up, shown, outages>>

Retry ==
  /\ main = "wait"
  /\ main' = "connect"
  /\ UNCHANGED <<enabled, total, agent, report, last, link, server_up, shown, outages>>

\* BasicInfo::build looks up addresses on the network before the reports begin.
PushBasicInfo ==
  /\ main = "basic"
  /\ main' = "build"
  /\ UNCHANGED <<enabled, total, agent, report, last, link, server_up, shown, outages>>

\* Mutant: the newest value is reported first.
ReceivedNewest ==
  IF ~enabled THEN [n |-> 0, total |-> total]
  ELSE IF channel = <<>> THEN last
  ELSE channel[Len(channel)]

\* Mutant: no value in the channel counts as no traffic.
ReceivedOrNothing ==
  IF enabled /\ channel # <<>> THEN Head(channel) ELSE [n |-> 0, total |-> 0]

\* LAST_NETWORK after realtime_network: with statistics disabled, the
\* interface counters; otherwise the next value of the channel, or what it was
\* when the channel is empty (or closed).
Received ==
  IF ~enabled THEN [n |-> 0, total |-> total]
  ELSE IF channel = <<>> THEN last
  ELSE Head(channel)

BuildReport ==
  /\ main = "build"
  /\ last' = Received
  /\ channel' = IF enabled /\ channel # <<>> THEN Tail(channel) ELSE channel
  /\ report' = [n |-> last'.n, total |-> Faked(last'.total), interfaces |-> total]
  /\ main' = "send"
  /\ UNCHANGED <<enabled, total, saver, holding, sampled, link, server_up, shown, outages>>

Deliver ==
  /\ main = "send"
  /\ link = "up"
  /\ shown' = report
  /\ main' = "build"
  /\ UNCHANGED <<enabled, total, agent, report, last, link, server_up, outages>>

\* The connection is broken, but the socket still takes the message.
SendLost ==
  /\ main = "send"
  /\ link = "broken"
  /\ main' = "build"
  /\ UNCHANGED <<enabled, total, agent, report, last, link, server_up, shown, outages>>

\* Mutant: main does not leave the report loop when a report cannot be sent.
AfterFailureStay == "build"

AfterFailure == "connect"

SendFails ==
  /\ main = "send"
  /\ link = "broken"
  /\ main' = AfterFailure
  /\ UNCHANGED <<enabled, total, agent, report, last, link, server_up, shown, outages>>

-----------------------------------------------------------------------------
Traffic ==
  /\ total < MaxTotal
  /\ total' = total + 1
  /\ UNCHANGED <<enabled, agent, loop, link, server_up, shown, outages>>

\* The server, or the way to it, fails; or just this connection does.
Outage ==
  /\ outages < MaxOutages
  /\ outages' = outages + 1
  /\ link' = IF link = "up" THEN "broken" ELSE link
  /\ server_up' \in {FALSE, server_up}
  /\ UNCHANGED <<enabled, total, agent, loop, shown>>

ServerBack ==
  /\ ~server_up
  /\ server_up' = TRUE
  /\ UNCHANGED <<enabled, total, agent, loop, link, shown, outages>>

Saver == SaverReady \/ SaverReturns \/ TakeSample \/ Put
Main  == ConnectFails \/ Retry \/ PushBasicInfo \/ BuildReport \/ Deliver \/ SendLost
World == Traffic \/ Outage \/ ServerBack

Next == Saver \/ Connect \/ Main \/ SendFails \/ World

Spec == Init /\ [][Next]_vars

\* tokio runs both tasks; a connection that can be made again and again is
\* made some time, and writing to a broken one fails some time (TCP gives up).
Fairness ==
  /\ WF_vars(Saver)
  /\ WF_vars(Connect \/ Main \/ SendFails)
  /\ SF_vars(Connect)
  /\ SF_vars(SendFails)

FairSpec == Spec /\ Fairness

-----------------------------------------------------------------------------
(***************************************************************************)
(* The reports show every sample once and in order, and the saver is at    *)
(* most Capacity + 1 samples ahead of them: what network_saver and the     *)
(* report loop do through the channel is the abstract feed.                *)
(***************************************************************************)
Feed == INSTANCE TrafficFeed WITH Lag <- Capacity + 1, shown <- last.n

FeedSpec == Feed!Spec

(***************************************************************************)
(* Why that holds: between the value shown and the one the saver holds,    *)
(* the channel has all others, in order.                                   *)
(***************************************************************************)
InFlight == IF saver = "send" THEN 1 ELSE 0

FeedInv ==
  /\ \A i \in 1..Len(channel) : channel[i].n = last.n + i
  /\ sampled = last.n + Len(channel) + InFlight
  /\ saver = "send" => holding.n = sampled
  /\ ~enabled => saver = "off"
  /\ saver \in {"off", "init", "returned"} => sampled = 0

(***************************************************************************)
(* The traffic the server is shown never goes back to an older sample,     *)
(* however often connections break and whatever was lost with them.        *)
(***************************************************************************)
NeverOlder == [][shown'.n >= shown.n /\ shown'.total >= shown.total]_shown

(***************************************************************************)
(* Why that holds: shown, LAST_NETWORK, the channel and the value in the   *)
(* saver's hands are in this order, and none of them is ahead of the       *)
(* interfaces.  (The factor keeps the order.)                              *)
(***************************************************************************)
AgeInv ==
  /\ shown.n <= last.n /\ shown.total <= Faked(last.total) /\ last.total <= total
  /\ main = "send" => report.n = last.n /\ report.total = Faked(last.total)
  /\ \A i \in 1..Len(channel) :
       last.total <= channel[i].total /\ channel[i].total <= total
  /\ \A i, j \in 1..Len(channel) : i < j => channel[i].total <= channel[j].total
  /\ saver = "send" =>
       /\ last.total <= holding.total /\ holding.total <= total
       /\ \A i \in 1..Len(channel) : channel[i].total <= holding.total

(***************************************************************************)
(* Every sample, or a later one, reaches the server if it stays reachable  *)
(* from some time on: the queue that has built up while it was not is      *)
(* worked off, and the saver runs again.                                   *)
(***************************************************************************)
CatchesUp ==
  <>[]server_up =>
    \A n \in 1..MaxSamples : [](sampled >= n => <>(shown.n >= n))

(***************************************************************************)
(* network_saver.rs:275: when the runtime data cannot be read or made, the *)
(* statistics show the traffic of the interfaces (times the factor), as if *)
(* they had been disabled in the configuration.                            *)
(***************************************************************************)
FallsBackToInterfaces ==
  [][BuildReport /\ saver \in {"off", "returned"}
       => report'.total = Faked(report'.interfaces)]_vars

=============================================================================
