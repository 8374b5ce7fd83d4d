# komari-monitor-rs: TLA+ models, checks and proofs

`komari-monitor-rs` is a monitoring agent. It keeps a WebSocket to a server,
sends a report every second, answers the server's requests (ping, remote
command, terminal), and meters the traffic of the host per month, across
restarts and reboots. This directory holds TLA+ modules of its stateful parts,
TLC configurations that check them on small instances, and proofs for TLAPS.

## 1. Inventory

| Component | State | Operations | Hard about it |
|---|---|---|---|
| Reset calendar, `get_info/network/network_saver.rs` 13-112 | none (the clock; a month number without a year) | effective reset day, initial month, is a reset due | turn of the year, short months, outages of months |
| Traffic meter, `network_saver.rs` 114-464, `config.rs` 277-465 | `RuntimeData` in memory and in a file, cached configuration, `save_counter` | open or create, merge after a reboot, sample, monthly reset, clear the calibration, periodic save, send | two files, rewrites in two steps, crash or power loss at any point, reboots, no fsync, edits by the user |
| Traffic reports, `main.rs` 122-225, `network/mod.rs` 10-41 | channel of 15 values, `LAST_NETWORK`, the connection | connect, retry, basic info, build a report, send | the channel is drained only while connected; the saver blocks; connections break with reports on their way |
| Terminal session, `callbacks/pty.rs` | pseudo terminal handles, unbounded channel, three tasks, the shell | read, push, send, receive, write, select, kill, wait | who keeps which handle open, blocking calls (which hold a thread of the runtime), the task that loses the select |
| Callback dispatcher, `callbacks/mod.rs`, `exec.rs` | one listener per connection, the writer behind a lock | dispatch; spawn ping, exec, terminal | listeners of old connections, the lock, no time limits; the post of a command's output blocks a thread of the runtime |
| Ping, `callbacks/ping.rs` | a 16-bit identifier counter, a raw socket per ICMP ping | ICMP, TCP, HTTP ping | matching of replies, deadlines, wrapping; ICMP and HTTP block a thread of the runtime |
| Basic information, `get_info/ip.rs`, `data_struct.rs` | none | two lookups, a push | blocking calls in async tasks; main waits for them before it reports |
| Connection counts, `network/netlink.rs` | a netlink socket per query | query, count the messages | which messages count |
| Configuration, `config.rs` | the configuration file | load, save, parse, encode | rewritten by agent and user |
| Information (`data_struct.rs`, `get_info/*`), dry run, command line, TLS verifier, URLs | none | reads of the system, formatting | - |
| `kagent.sh` | service, configuration and first runtime file | install, configure, uninstall | its first runtime file is an initial state of the meter |

How they interact. `main` loads the configuration, spawns the saver and loops
over connections. The saver writes to the bounded channel; `main` takes at most
one value out of it per report. For every connection `main` spawns a dispatcher,
which spawns a task per request; ping results and reports share the writer of
the connection. Pings of ICMP and HTTP, the lookups of the addresses, the posts
of commands' outputs and the terminals share the threads of the runtime, which
they hold while they wait, and with them whatever needs a thread: timers,
sockets, main. A terminal session has a
WebSocket of its own. The saver, the
user and `kagent.sh` share the configuration file; the saver and `kagent.sh`
share the runtime file.

What makes each part correct: the calendar resets each month once, at the
configured day; the meter counts no byte in two periods unless a record was
lost, loses nothing within a boot, never reopens a closed period and gets resets
and traffic to the disk; the
reports are in order, complete, and catch up after an outage; a terminal
delivers in order, ends with its connection and leaves nothing behind; a ping
result belongs to the ping that was asked for and goes out at most once, on the
connection it was asked on; no sender starves at the writer's lock; no ICMP ping
holds a thread longer than its limit, and calls with a limit delay the first
report by no more than the work they share among the threads.

## 2. Modules

| Module | Models | Uses |
|---|---|---|
| `ResetCalendar` | the date functions, and a reference definition in real months | |
| `ResetSchedule`, `MCResetSchedule` | the decision of every day, over years | `ResetCalendar` |
| `ResetCalendarProofs` | proofs about both | `ResetSchedule` |
| `NetworkSaver`, `MCNetworkSaver` | the meter with its files, host, user and faults | `ResetCalendar` |
| `NetworkSaverProofs` | its types; periods stay closed; calibration ends; exactness within a boot; overcount only after a lost record; what is shown never goes down | `NetworkSaver` |
| `Fake` | the factor on the totals of a report | |
| `TrafficFeed` | abstract: what reports promise of the samples | |
| `Reporter`, `MCReporter`, `ReporterProofs` | saver task, channel, report loop, connections | `Fake`; refines `TrafficFeed` |
| `MeterSystem`, `MCMeterSystem`, `MeterSystemProofs` | the meter, the channel, the reports and the outages as one system | `Fake`; extends and refines `NetworkSaver` |
| `BlockingCalls`, `MCBlockingCalls`, `BlockingCallsProofs` | pings, lookups, posts, terminals and the threads they hold, in time | |
| `NetlinkCount`, `NetlinkCountProofs` | the connection counts of a report | |
| `AgentSession`, `MCAgentSession`, `AgentSessionProofs` | connections, dispatchers, the tasks of requests, the writer's lock | |
| `PtySession`, `MCPtySession`, `PtySessionProofs` | one terminal session | |

### ResetCalendar and ResetSchedule

The functions of the code, one operator each, take the date as an argument.
`ScheduledReset` says, in absolute months, when the next reset is due;
`ResetIsDue` is the reference that `ShouldReset` is compared with. The state
machine polls once a day (the answer is the same all day), jumps while the agent
is down, and lets the user move `reset_day`. The code reads the clock four times
for one decision: the month and the day of `should_reset_traffic`, the length of
the month inside `calculate_effective_reset_day`, and the month that is recorded.
`Midnight` is a sample with midnight between any two of these; `torn` remembers
it.

### NetworkSaver

`pc` is the place in `network_saver`; `site` tells which of its four callers is
inside `rewrite_runtime_data_file`, and `Continue` where that caller goes on.
One action is what the code does between two points at which it can be
interrupted with a visible difference: the truncation and the write of a file
are separate, a computation in memory belongs to the action before the next file
operation. `rt`, `cur`, `save_counter` are `runtime_data`, `current_config`
and `save_counter`; `file` is the runtime file as a reader sees it and `disk` as
the last writeback left it; `conf` is the configuration file. Upload and
download are one function on `Dirs`, since the code treats them alike; the
traffic mode is the set of directions that count.

The rest is history, read by properties only: `ever` counts all traffic since
the installation, `boot_ever` and `seen_ever` are its values at the last boot
and the last sample, `closed_ever` the one when a period was last closed. In a
record, `opened` is the value of `ever` when its period began and `since` the
one from which it counts. The two are the same until a rewrite is torn: the
record that is then made anew (`FreshRecord`, `boot_source` 0) counts from the
boot, although a period may have been closed in this boot; so `since` is the
boot and `opened` the end of the closed period. `epoch` is the latest `since`
that reached the file, `damaged` says whether a record was lost, and
`closed_rev` is the age of the configuration when the last period was closed.

`kagent.sh` sums the interfaces by name and so counts some (those without a
MAC address) that `filter_network` leaves out. `InstalledRecord` therefore has
a baseline that may be above the counters, by up to `MaxUncounted`; a record's
`ahead` remembers by how much. That traffic is missing from the first period.

Faults: `Crash` (the process ends anywhere), `Reboot`, `LosePower` (the file
comes back old, current, empty or undecodable), failing opens, rewrites and
configuration writes, `InterfaceGone` (the counters shrink). `EditConfig` is the
user. `write_all` is taken to have written when it returns; tokio hands the
buffer to a thread, and a stop before that thread has written is the stop before
`Write`, except that the saver may by then have started on the configuration.
A file that is cut in the middle of a line is `corrupt` or, if decode accepts the
rest, not modelled. Boot ids are numbers, and the boot id file is always readable.
`network_interval` only changes the pace.

### Reporter and TrafficFeed

The saver is reduced to sampling and sending (its other steps are
`NetworkSaver`'s). `Fake` has the factor `fake` of the configuration, by which
`RealTimeInfo::build` multiplies the totals before it cuts them off to integers
(data_struct.rs:208-209): a fraction, in exact arithmetic. `Value.n` is the
number of the sample, history that orders the values. A report takes the head of
the channel if there is one (`try_recv`), else `LAST_NETWORK` as it is. An
outage breaks the connection; sending on a broken one may seem to succeed or
fail. `TrafficFeed` promises that reports show every sample once and in order
while the meter is at most `Lag` samples ahead; `Reporter` implements it with
`Lag = Capacity + 1`.

### MeterSystem

`Reporter` orders the samples but does not say what they hold, and
`NetworkSaver!Send` assumes room in the channel. `MeterSystem` puts the two
together: the saver's `Send` waits for room, its value is what a report takes
out, a stop of the process takes channel, `LAST_NETWORK` and connection with it,
and an outage stops the reports and, through the full channel, the saver with
its resets and saves. `shown` is what the server saw last, which is multiplied
by the factor, as what is queued and kept is not. `wish` is what the user has
last written to the configuration, as far as it can be read; it is `due` unless
it was written between `load_user_config` and `save_user_config` of a reset
(network_saver.rs:361 and 368), where it is overwritten. A value carries its
record's history (`opened`, `since`, `ahead`), boot and settings, so that the
properties can compare it with the world it was measured in; `best` is the last
value shown that came from a sample, since a new process shows (0, 0) until its
first one. That the composition implements `NetworkSaver` is proved, so all that
holds of the meter alone holds here.

### BlockingCalls

`icmp_ipv4`, `icmp_ipv6`, the HTTP ping, the lookups of `get_info/ip.rs`, the
post of a command's output (`exec.rs` 74) and, in a terminal, `write_all`,
`kill` and `wait` (`pty.rs` 136-141, 177, 184) are blocking calls inside async
functions: each holds the worker thread that polls it. A TCP ping, a command that
runs and a terminal that is idle wait off the threads. The two tasks of a
terminal that may block are two requests here. `main` runs in `block_on`, on a
thread that is not a worker; `basic_info.push` blocks that one. Time is a number
of ticks, and a tick passes only when no thread has anything left to do. `spent`
is how long a call has lasted, `left` the receive timeout that the loop sets
again after every packet it passes over. Every open raw socket hears every packet:
replies to other pings, to other programs, and packets that the library cannot
parse, which end the ping. `next_id` starts at 0 without loss, since only
differences matter, and wraps at `IdSpace`. Lookups, posts and push have the 5
seconds of `timeout_global`; an HTTP ping and a terminal have no limit.

Timers and sockets are looked at by the I/O driver, which an idle worker thread
turns (`Turn`). When every thread is held none does. When some are, one of the
others MAY: a thread that wakes a single task in its turn puts it into its own
LIFO slot, runs it itself and calls nobody; if that task blocks, the driver stays
where it is, however many threads are parked, until somebody else's push to
a queue wakes one. The model therefore lets the driver turn whenever a thread is free
and demands it only when none is held (see Fairness). Tasks that are spawned or
woken together go to a queue and do call other threads; `ThreadStep` runs them as
soon as one is free. One case is left out: a single task that is woken while the
thread that woke it goes on to block in the same poll (a terminal's reader and
writer share a lock, `split` of the WebSocket) may wait in that thread's slot.

### NetlinkCount

The four queries behind a report's `Connections`, datagram by datagram. A
datagram holds entries and perhaps the message that ends the dump, an error or a
message of an impossible length. That an error comes alone, as the answer to a
refused request, is an assumption on the kernel. The module has no run: the one
thing worth stating, how far the count is off, is proved for every dump.

### AgentSession

`main` is the place in the loop of `main.rs`; `conn` its current connection.
Each connection has a socket (`link`), a dispatcher (`listener`, the loop of
`handle_callbacks`), the requests that have arrived (`inbox`) and the lock of
its writer. tokio's `Mutex` is fair, so `lock[c]` is a sequence: its head holds
the lock, the others wait in the order they came. `stage` follows a request from
the socket to its answer, and `asked` is the connection whose writer its task
has cloned. The module presumes that a worker thread is free to run what it
schedules; what may hold them all is `BlockingCalls`' matter. Nothing is aborted
when a connection is left: old dispatchers and tasks run on beside the new ones,
and a late result is written to the old socket. `answers` is history. A request
is a ping over ICMP or TCP, a ping over HTTP (which need not end), a command or
a terminal. What a report contains is `Reporter`'s matter; what a terminal does,
`PtySession`'s; how a ping is measured, `BlockingCalls`' (here it ends with a
result or with an error that is only logged).

### PtySession

The four actors of `handle_pty_session`. A read from the master ends only when
all handles to the slave are closed: the shell's, those of processes it left
behind, and `pair.slave`, which lives in the frame of the function until it
returns (only `pair.master` moves into the task). Hence the end of the shell
does not end the session: this is stated, as `EndsWithWebSocket`. When the input
task leaves its loop it drops the writer, and portable-pty's writer then writes a
newline and an end of file, which may block as any other input (`DropWriter`).
`child.kill` looks a few times whether the shell has ended, and reaps it if so;
`wait` reaps it otherwise, or reports an error, with which the function returns
while the shell may run on (`WaitFails`).

## 3. Runs

All runs are complete explorations of their bounded state spaces.

| Run | Shows |
|---|---|
| `reset_schedule` | `ShouldReset` agrees with the real calendar in every reachable state; no month is reset twice; none is missed by an agent that stays up, not even if midnight falls into the decision |
| `saver` | `OvercountNeedsLostRecord`, `NothingLostWithinBoot`, `PeriodStaysClosed`, `DisplayMonotone` and the inductive `MeterInv`, on Linux with all faults and an edit by the user |
| `meter_system` | nothing on its way to the server or shown there is too much, unless a record was lost; what is shown never goes down within a period; with a server in reach resets and traffic get to the file, edited settings (those that are not overwritten) to work, and the traffic to the server, times the factor; a run without stops clears the calibration |
| `blocking` | whose reply a ping can accept; how early, how late and how truthfully a ping ends; how late the first report can be; reports go on unless from some moment an HTTP ping or a terminal always holds a thread |
| `saver_torn` (violation) | on Linux, overcount after a stop inside a rewrite that follows a reset |
| `saver_windows` (violation) | overcount after a restart of the agent without a reboot |
| `saver_calibration` (violation) | a calibration survives the reset that should clear it |
| `saver_config_torn` (violation) | the configuration file is lost by a stop inside its rewrite |
| `reporter` | refinement of `TrafficFeed`, order across reconnections, catching up |
| `reporter_fallback` (violation) | the announced fallback to interface counters does not happen |
| `session` | a ping is answered at most once and where it was asked; only one connection is up; reports are not starved by pings; pings and dispatchers end |
| `pty` | order, end of the session with the shell reaped or an error of `wait`, nothing left behind, with the exceptions stated |

Bounds. `ResetSchedule`: two years (one a leap year) and reset days at, below
and above the length of the months; away for at most `MaxAway` = 11 months after
a reset, the longest time that a month number can tell (at 12 the same number
means "no reset": a limit of the code). `NetworkSaver`: one direction (the two
never meet), two units of traffic, two boots, three starts, a save at every
second sample, two dates with one reset between them: enough for a reset before
and after a reboot, for every rewrite to be cut, and for a period that spans a
boot; one unit of traffic that only the installer counts (`MaxUncounted`).
`saver_torn` needs one boot, two starts and no other fault. An edit takes the
place of a start and of a boot: `edits` counts against `MaxStarts` and
`MaxBoots` too. Writebacks and lost interfaces are explored as long as one more
boot or edit is left; the proofs need none of these bounds. `MeterSystem`:
capacity 1 (a full and an empty channel), one unit of traffic, a factor of 3/2
(which is cut off at one unit), no uncounted traffic, no lost interfaces (the
proofs have them), settings with a calibration that differ in the traffic mode,
so that an edit is told from what a reset does, a save at every sample, one
reset, and, of crash, reboot, outage and edit, as many as two starts and two
boots leave room for: a reset or a save behind a full channel, a stop with a
value in it, a record of another boot. `BlockingCalls`: two threads and three
requests, so that they can hold all threads while one more waits and a lookup
with it; two identifiers, so that they wrap; limits of 2, 1 and 1 ticks; mixes
of three ICMP pings, of a TCP and two ICMP, of two HTTP with an ICMP one between
them, of a TCP ping, a command and an ICMP one, and of a terminal, an ICMP ping
and a command; one packet of another program. `MaxDelay` = 8 is above every
delay that is asserted. `Reporter`: capacity 2, four samples (one more than the
channel and the saver hold), two outages. `AgentSession`: two connections, so
that the first can be left with work unfinished; two pings, which meet at the
lock with a report between them, one of which (HTTP) may never end, and a
command; every request can be asked again. `PtySession`: a terminal buffer of
one chunk, three chunks of output, two of input. Deadlock is checked in
`reporter`, `session` and `blocking`; elsewhere the exploration stops at its
bounds.

Fairness. `MeterSystem`: weak fairness of the saver's and of main's steps (a
runnable tokio task runs) and of the start (`Restart=always` in `kagent.sh`),
strong fairness of connecting and of the failure of a broken connection; none of
faults, failures, outages, the user or the clock; what needs a server says so
(`InService`). `BlockingCalls`: weak fairness of every task that a free thread
can run, of main and of the ends of calls that have a limit, strong fairness of
time; of the driver only that it does what is due, if again and again no thread
is held at all (then every worker has run dry, and one of them parks on the
driver); none of the network, the shells, nor of HTTP pings. `Reporter`: weak
fairness of both tasks, strong fairness of connecting (retried every five
seconds) and of a failing write on a broken connection (TCP gives up).
`AgentSession`: weak fairness of main, of each dispatcher and of each ping over
TCP or ICMP (the code stops them after ten and three seconds), all of which
presumes that a worker thread is free again and again: HTTP pings and terminals
that hold them for ever stop the rest; none of HTTP pings, commands and
terminals, which have no time limit, nor of the server and the network. A write
is taken to return: into the buffer of a working socket, with an error from a
broken one. `PtySession`: weak fairness of the thread, the two tasks and the
session; none of the shell, the client or an error of `wait`.

## 4. Proofs

Every theorem holds for all constants that satisfy the named assumptions of the
modules. A few have one more, named in the theorem: `Platform = "linux"`;
`BackInTime` (`MaxAway <= 11`, see Bounds); `LimitIsMeasured`
(`IcmpTimeout <= MaxDelay`: the clocks of the model do not stop before the limit)
and `LimitsAreMeasured` (the same of `HttpTimeout` too); and that the set of requests
is finite.

Calendar (`ResetCalendarProofs`).

- `ShouldResetIsDue`, `InitialMonthNotDue`: the month-number arithmetic is right
  about real months if fewer than twelve have passed since the last reset.
- `AgreesWithScheduleAlways`, `OneResetPerMonthAlways`,
  `NoMonthMissedWhileUpAlways`: the same along behaviours. What they need is in
  `ScheduleInv`: the recorded number stands for a real month less than a year
  back, and an agent that stays up is at most one month `Behind` - or two, on the
  first day after a sample that midnight has torn.

Meter (`NetworkSaverProofs`), with all faults.

- `TypeCorrect`: types of `NetworkSaver`; one lemma per group of actions.
- `PeriodStaysClosedAlways`, on every platform: `PeriodInv` adds that a whole
  file is never older than `epoch` and that a file without a record never had
  one, except while a rewrite is under way.
- `CalibrationEndsInOneRunAlways`, on every platform: `OneRunInv` says that the
  settings at work are those of the file except while that is rewritten, and
  have no calibration once a period has been closed. It fails for a second start,
  as `saver_calibration` shows.
- `OvercountNeedsLostRecordOnLinux`. That no byte counts twice in one record is not
  inductive: what is shown depends on records that a stop, a power loss or a reboot
  may bring back. `MeterInv` says of every record (in memory, in the file, on disk)
  that it is `Sound`: what it has counted plus what its next reader will add, which
  differs between a reader of the same boot and of a later one, fits into the traffic
  since it counts; and of the counters read in this round that they agree with world
  and record. Every action moves or makes sound records only. On Windows the merge
  breaks exactly this. That a record counts from where its period began, unless a
  record was lost, is in `PeriodInv`: without a loss, a file without a record is one
  that never had any, so no period has been closed yet when a record is made anew.
- `NothingLostWithinBootOnLinux` is the bound from below. `BootInv`: while no
  interface goes, the counters are the traffic since the boot; a record that
  counts from this boot on has accumulated nothing and starts at what the boot had
  counted then, plus what the installer was ahead (`Exact`); and the record in the
  file differs from the one in memory in nothing that counts (`SameBaseline`), so it
  does not matter which of them a restart goes on with. A record made anew counts
  from earlier than its period, which loses nothing.
- `DisplayMonotoneOnLinux` compares a value with one sent before it, perhaps by
  another process. `StaysReached(v)` says of any value `v` that was once shown what
  the meter keeps as long as the boot lasts: whatever it may show for the period of
  `v`, from memory, from the file after a stop or from a record made anew, is no
  less. It is proved to hold of `v` in the next state for every `v` that does not
  change, then for the one that is sent, so `sent` has it always.

Reports (`ReporterProofs`, `MeterSystemProofs`).

- `ReporterImplementsFeed`: `FeedInv` says that the channel holds exactly the
  samples between the one shown and the one the saver holds.
- `NeverOlderAlways`: by `AgeInv` shown, `LAST_NETWORK`, channel and the saver's
  value are in this order, in samples and in traffic.
- `SystemImplementsMeter`: every step of `MeterSystem` is one of `NetworkSaver` or
  leaves it alone. `SystemMeterCorrect` and `SystemCalibrationEnds` carry over what
  is proved of the meter.
- `SystemTypeCorrect`: in particular the channel never exceeds its capacity.
- `ShownHonestOnLinux`: `ShownHonest` is inductive relative to `MeterInv` and
  `PeriodInv`. A value is honest when it is sent, because the records it was made from
  are sound and, without a loss, of their period; the factor keeps the order;
  from then on the traffic only grows while the value, its period and its
  settings travel with it unchanged.
- `ShownMonotoneOnLinux`: by `ReportsInv` every value on its way, kept or shown has
  `StaysReached`, and is `Ordered` before those behind it. A value that is sent
  joins the end of the channel; it is no less than those in front of it because
  they stay reached.

Connections (`AgentSessionProofs`).

- `TasksWhereTheyBelong`: `TaskInv` is inductive with the types: a request stands in
  the inbox or the lock that its stage names, once, and nowhere else; main likewise.
  `AnsweredOnceWhereAskedAlways` follows from it, since an answer is written by the
  head of the lock of the asking connection; `OneConnectionUp` is inductive
  with the types alone.
- `SessionTypeCorrect`: since nobody is in a queue twice, no queue is longer than
  there are requests, and main (`DistinctFits`).

Terminal (`PtySessionProofs`), for every size of the buffers.

- `SessionTyped`, `EndsWithWebSocketAlways`: `SessionInv` says that a task ends only
  with the connection or after the session, and that the session gives up its handle
  to the slave in the step that ends it, with or without an error of `wait`.
- `OutputArrivesInOrder`: what has arrived, what the pusher carries, the channel and
  what the thread has in hand are together 1, 2, 3 ... as long as the
  connection stands.

Pings and other calls (`BlockingCallsProofs`), for any number of them, of threads and
of identifiers.

- `CallsTypeCorrect`: with `CallInv`, which says that a ping gets its identifier and
  its place among the requests together, that whoever is answered has asked, and
  that a receive is armed with exactly what is left of the limit.
- `OwnReplyAlways`: equal identifiers are those of requests a multiple of `IdSpace`
  apart. `ThreadHeldNoLonger`, `GivenUpAtLimitAlways`: from the last part of `CallInv`.

- `FirstReportDelayAlways`, `TcpTruthfulAlways`: both bound a wait by the work that
  others do meanwhile: pings over ICMP, posts of commands, lookups. Both ask that
  no HTTP ping and no terminal has been asked for (`Endless`), since these have no
  limit. `WaitInv` (`WaitsAreShared`) counts the work as the pairs of a task and a
  tick for which it has held a thread (`Work`), so that a sum over the tasks needs no
  induction; a call that is over counts as its whole limit, so the work never
  shrinks. A tick passes with a lookup waiting only when every thread is held, and
  then adds one pair per thread: `Workers` times its wait is at most the work of the
  others; its own call is taken off its delay. A TCP ping waits for the driver, which
  one held thread may keep from turning: a tick adds at least one pair, and the
  bound is the whole work, not a share of it. `StageInv` says where tasks can be while
  `main` is where it is.

Connection counts (`NetlinkCountProofs`).

- `DumpCountsOneTooMany`: `CountInv` says that counted and uncounted entries together
  are those delivered, wherever the kernel cuts its answer. Every answered query is
  one too high, every refused one counts as one connection.

`MeterInv` is checked by the run `saver` beside its proof. The other invariants named
here are in no run, since the proofs cover them for every instance.

Only model-checked: everything under fairness, which is out of the prover's reach
together with ENABLED: `CatchesUp`, `ReportNotStarved`, `PingEnds`, `ListenersEnd`,
`SessionEnds`, `NoTaskLeft`, `FileCatchesUp`, `HotReload`, `ServerShowsTraffic`,
`ReportsGoOn`. Statements by induction over recursive definitions would be too; there
are none here.

## 5. Disagreements between code and documents

Shown by runs:

1. `network_saver.rs:446` (`saver_torn`): a stop inside a rewrite of the runtime file,
   after a reset in the same boot, loses the record; the next start counts from the
   boot, the closed period included. NETWORK_RESET_GUIDE.md:61 promises the actual
   traffic of the period.
2. `network_saver.rs:226` (`saver_windows`): on Windows a restart of the agent counts
   the traffic of the boot twice; the same line of the guide.
3. `network_saver.rs:350` (`saver_calibration`): a stop between the reset record and the
   configuration keeps the calibration for another period;
   komari-agent.conf.example:74 says it is reset to 0.
4. `config.rs:460` (`saver_config_torn`): the rewrite of the configuration is not
   atomic; NETWORK_RESET_GUIDE.md:354 says it is.
5. `network/mod.rs:19` (`reporter_fallback`): when the saver gives up, the reports keep
   (0, 0); network_saver.rs:275 announces the interface counters.

Named by a property as an exception, without a run of their own:

6. `network_saver.rs:361-368` (`HotReload`): an edit of the configuration between the load
   and the save of a reset is overwritten, and a calibration written during a reset,
   but before that, is cleared with the old one; NETWORK_RESET_GUIDE.md:66-79 says that
   edits take effect.
7. `kagent.sh:132-175` (`NothingLostWithinBoot`): the installer sums interfaces that
   `filter_network` (network/mod.rs:119) leaves out. Its comment says that the filter
   is that of the Rust code; the first traffic after the installation is lost, as much
   as the baseline is ahead.
8. `network_saver.rs:111` (`AgreesWithSchedule`): after more than a month away a reset is
   done before the configured day, since the last one is overdue;
   NETWORK_RESET_GUIDE.md:150-152 requires the day.

## 6. Plan and what is not modelled

Every safety property of a passing run is proved for all constants. What the
plan has left is to carry a bound of one module into another: the delay of the first
report (`BlockingCalls`) as the age of the samples that it shows (`MeterSystem`).

Limits of the models, and of the code:

- `last_reset_month` has no year. After twelve months away a reset is not
  done; `MaxAway` stays below.
- What the prose calls a limit is a number of ticks in `BlockingCalls`: a remaining
  receive time below the resolution of the socket is not represented.
- The factor of a report is a fraction in exact arithmetic; the rounding of `f64` (above
  2^53) and factors below zero are left out.
- The traffic is saved at every tenth sample counted from the start: an agent that is
  restarted more often saves none, and a reboot then loses it.
- The channel of a terminal's output is unbounded; no bounded model exhausts
  memory.
- A remote command has no time limit. No document promises one, so
  nothing is stated about its end.

Not modelled: reads of CPU, memory, disks and the operating system and the rates
of the interfaces, JSON and text formats (those of the configuration included),
URLs, TLS, logging, the dry run, the command line, the Windows toast, build
files, and `kagent.sh` beyond the runtime file it writes and the restart policy
it installs: they keep no state, or none that another part reads.
