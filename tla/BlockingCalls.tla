---------------------------- MODULE BlockingCalls ----------------------------
(***************************************************************************)
(* The worker threads of the tokio runtime and the calls that block them.  *)
(*                                                                         *)
(* icmp_ipv4/icmp_ipv6, an HTTP ping, the two lookups of get_info/ip.rs,   *)
(* the post of a command's output, and a terminal that writes to its shell *)
(* or waits for its end are called from async functions and hold the       *)
(* thread that polls them; a TCP ping, a running command and an idle       *)
(* terminal wait off the threads.  main is not such a task: its thread     *)
(* belongs to block_on, and basic_info.push holds that one.  A timer or a  *)
(* socket wakes its waiter only when an idle thread turns the I/O driver.  *)
(*                                                                         *)
(* Time is counted in ticks, and a thread that has something to do does it *)
(* within the tick.  A raw socket hears every ICMP packet of the host, the *)
(* replies to other pings included (all pings here are of one family).     *)
(* Requests are numbered in the order in which they are made.              *)
(***************************************************************************)
EXTENDS Integers, FiniteSets, Sequences

CONSTANTS NRequests,    \* bound: requests of the server
          Mixes,        \* bound: what they ask for
          Workers,      \* worker threads of the runtime
          IdSpace,      \* identifiers of echo requests: 2^16
          IcmpTimeout,  \* the time limit of icmp_ipv4 and icmp_ipv6 (3 s)
          TcpTimeout,   \* of a TCP ping (10 s)
          HttpTimeout,  \* of lookups, push and the post of a result (5 s)
          MaxForeign,   \* bound: ICMP packets of other programs
          MaxDelay      \* bound: the longest time that is measured

Requests == 1..NRequests

ASSUME NRequestsAssumption == NRequests \in Nat
(* A terminal has two tasks that block, its session (kill, wait) and its   *)
(* input (write_all): each is a request of its own here.                   *)
ASSUME MixesAssumption ==
  Mixes \subseteq [Requests -> {"icmp", "tcp", "http", "exec", "terminal", "none"}]
ASSUME WorkersAssumption == Workers \in Nat \ {0}
ASSUME IdSpaceAssumption == IdSpace \in Nat \ {0}
ASSUME TimesAssumption ==
  /\ {IcmpTimeout, TcpTimeout, HttpTimeout} \subseteq Nat \ {0}
  /\ MaxDelay \in Nat /\ MaxForeign \in Nat

Lookups == {-4, -6}                 \* of the IPv4 and of the IPv6 address
Main    == 0                        \* main, as one that makes a call
Tasks   == Requests \union Lookups
Ids     == 0..(IdSpace - 1)

(* What a raw socket hears: an echo reply with its identifier and the ping *)
(* it answers, or a packet the library cannot parse.                       *)
Reply(id, p) == [type |-> "reply", id |-> id, to |-> p]
Unreadable   == [type |-> "unreadable"]

(* What a ping ends with: the ping whose reply it accepted, or             *)
None == 0       \* nothing yet
Lost == -1      \* the value reported for a ping without an answer
Other == -2     \* the reply to a program that is not the agent
Refused == -3   \* an error instead of a result
Up == -4        \* a connection or a page

VARIABLES
  kind,        \* of each request: what was asked for
  stage,       \* of each task: where its future is
  spent,       \* how long a task has been at its call; main at its push
  left,        \* what remains of the receive timeout of a raw socket
  ident,       \* the identifier of a ping's echo request
  next_id,     \* GENERATOR
  result,      \* what a ping answers
  replies,     \* the echo requests the network may still answer
  tcp,         \* what became of a TCP connection attempt, and when
  main,        \* where main is
  foreign,     \* packets of other programs so far
  order,       \* history: the position of a ping among the echo requests
  delay        \* history: time from the connection to the first report

pingVars == <<kind, left, ident, next_id, result, replies, tcp, order>>
vars == <<kind, stage, spent, left, ident, next_id, result, replies,
          tcp, main, foreign, order, delay>>

TypeOK ==
  /\ kind \in Mixes
  /\ stage \in [Tasks -> {"idle", "ready", "connecting", "waiting", "woken",
                          "receiving", "calling", "done"}]
  /\ spent \in [Tasks \union {Main} -> 0..MaxDelay]
  /\ left \in [Requests -> 0..IcmpTimeout]
  /\ ident \in [Requests -> Ids] /\ next_id \in Ids
  /\ result \in [Requests -> Requests \union {None, Lost, Other, Refused, Up}]
  /\ replies \subseteq Requests
  /\ tcp \in [Requests -> [is : {"none", "up", "refused"}, at : 0..MaxDelay]]
  /\ main \in {"connecting", "lookup", "push", "sending", "asleep", "due"}
  /\ foreign \in 0..MaxForeign
  /\ order \in [Requests -> 0..Cardinality(Requests)]
  /\ delay \in 0..MaxDelay

Init ==
  /\ kind \in Mixes
  /\ stage = [t \in Tasks |-> "idle"]
  /\ spent = [t \in Tasks \union {Main} |-> 0]
  /\ left = [p \in Requests |-> 0]
  /\ ident = [p \in Requests |-> 0] /\ next_id = 0
  /\ result = [p \in Requests |-> None]
  /\ replies = {}
  /\ tcp = [p \in Requests |-> [is |-> "none", at |-> 0]]
  /\ main = "connecting" /\ foreign = 0
  /\ order = [p \in Requests |-> 0] /\ delay = 0

-----------------------------------------------------------------------------
(***************************************************************************)
(* The runtime.  The driver turns when a thread has nothing to run.  It    *)
(* MAY turn while other threads are held, but only when none is held is it *)
(* certain to: a thread that wakes one task in its turn runs that task     *)
(* itself and tells no other, and when the task blocks, the driver stands  *)
(* still with it, however many threads are parked.  Tasks that are spawned *)
(* or woken together do call other threads.                                *)
(***************************************************************************)
In(S)       == {t \in Tasks : stage[t] \in S}
OnThread    == In({"receiving", "calling"})
Ready       == In({"ready", "woken"})
FreeThread  == Cardinality(OnThread) < Workers
DriverTurns == FreeThread /\ Ready = {}

Listening == In({"receiving"})
TcpDue    == {p \in In({"connecting"}) : tcp[p].is # "none" \/ spent[p] >= TcpTimeout}
Connected == stage[-4] # "idle"    \* there has been a connection

TimersDue == main = "due" \/ TcpDue # {}

(* A turn of the driver wakes all whose timer or socket is due, and the    *)
(* commands that have ended and terminals that are to block.               *)
Turn(S) ==
  /\ DriverTurns /\ (TimersDue \/ S # {})
  /\ main' = IF main = "due" THEN "sending" ELSE main
  /\ stage' = [t \in Tasks |-> IF t \in TcpDue \union S THEN "woken" ELSE stage[t]]
  /\ UNCHANGED <<pingVars, spent, foreign, delay>>

(* The dispatcher reads what has arrived and spawns a task for everything  *)
(* asked for in it, in one poll: the threads see them together.            *)
Ask(last) ==
  /\ DriverTurns /\ Connected /\ stage[last] = "idle" /\ kind[last] # "none"
  /\ stage' = [t \in Tasks |-> IF t \in 1..last /\ stage[t] = "idle" THEN "ready"
                               ELSE stage[t]]
  /\ UNCHANGED <<pingVars, spent, main, foreign, delay>>

Move(t, to) == stage' = [stage EXCEPT ![t] = to]
End(p, res) == Move(p, "done") /\ result' = [result EXCEPT ![p] = res]

-----------------------------------------------------------------------------
(***************************************************************************)
(* ICMP pings.                                                             *)
(***************************************************************************)
\* Mutant: the counter does not wrap.
Incremented(id) == id + 1

\* fetch_add of an AtomicU16
Following(id) == (id + 1) % IdSpace

\* Mutant: every receive waits for the whole time limit.
WholeLimit(p) == IcmpTimeout

Remaining(p) == IcmpTimeout - spent[p]

\* Mutant: any echo reply is taken for the answer.
AnyReply(packet, p) == packet.type = "reply"

IsAnswer(packet, p) == packet.type = "reply" /\ packet.id = ident[p]

(* An ICMP ping without a root user or a raw socket, or whose target could *)
(* not be resolved (off the threads, before the task is ready).            *)
Refuse(p) ==
  /\ stage[p] = "ready" /\ kind[p] = "icmp" /\ FreeThread
  /\ End(p, Refused)
  /\ UNCHANGED <<kind, spent, left, ident, next_id, replies, tcp,
                 main, foreign, order, delay>>

(* The socket is opened, the request sent, and the first receive armed; a  *)
(* request that cannot be sent is answered as lost.                        *)
SendRequest(p) ==
  /\ kind[p] = "icmp" /\ stage[p] = "ready" /\ FreeThread
  /\ ident' = [ident EXCEPT ![p] = next_id]
  /\ next_id' = Following(next_id)
  /\ order' = [order EXCEPT ![p] = 1 + Cardinality({q \in Requests : order[q] > 0})]
  /\ \/ /\ Move(p, "receiving")
        /\ left' = [left EXCEPT ![p] = IcmpTimeout]
        /\ replies' = replies \union {p}
        /\ UNCHANGED result
     \/ End(p, Lost) /\ UNCHANGED <<left, replies>>
  /\ UNCHANGED <<kind, spent, tcp, main, foreign, delay>>

Expire(p) ==
  /\ stage[p] = "receiving" /\ left[p] = 0
  /\ End(p, Lost) /\ spent' = [spent EXCEPT ![p] = 0]
  /\ UNCHANGED <<kind, left, ident, next_id, replies, tcp, main, foreign,
                 order, delay>>

\* Mutant: a packet that is not the answer ends the loop.
EndsAlways(packet, p) == TRUE

(* A packet arrives, at every raw socket that is open.  Each receive takes *)
(* it for the answer, leaves the loop with its error, or passes over it    *)
(* with the time that remains.                                             *)
Ends(packet, p) == \/ IsAnswer(packet, p)
                   \/ packet.type = "unreadable"
                   \/ Remaining(p) <= 0

Hear(packet) ==
  LET ended == {p \in Listening : Ends(packet, p)} IN
  /\ stage' = [t \in Tasks |-> IF t \in ended THEN "done" ELSE stage[t]]
  /\ result' = [p \in Requests |-> IF p \notin ended THEN result[p]
                                ELSE IF IsAnswer(packet, p) THEN packet.to ELSE Lost]
  /\ left' = [p \in Requests |-> IF p \in ended THEN 0
                              ELSE IF p \in Listening THEN Remaining(p) ELSE 0]
  /\ spent' = [t \in DOMAIN spent |-> IF t \in ended THEN 0 ELSE spent[t]]

Answer(p) ==
  /\ p \in replies
  /\ replies' = replies \ {p}
  /\ Hear(Reply(ident[p], p))
  /\ UNCHANGED <<kind, ident, next_id, tcp, main, foreign, order, delay>>

Foreign(packet) ==
  /\ foreign < MaxForeign /\ Listening # {}
  /\ foreign' = foreign + 1
  /\ Hear(packet)
  /\ UNCHANGED <<kind, ident, next_id, replies, tcp, main, order, delay>>

-----------------------------------------------------------------------------
(***************************************************************************)
(* TCP pings: a connection attempt under tokio's timeout, which looks at   *)
(* the attempt first and at the timer second whenever it is polled.        *)
(***************************************************************************)
Connect(p) ==
  /\ stage[p] = "ready" /\ kind[p] = "tcp" /\ FreeThread
  /\ Move(p, "connecting")
  /\ UNCHANGED <<pingVars, spent, main, foreign, delay>>

TcpAnswer(p) ==
  /\ kind[p] = "tcp" /\ stage[p] \in {"connecting", "woken"} /\ tcp[p].is = "none"
  /\ \E is \in {"up", "refused"} : tcp' = [tcp EXCEPT ![p] = [is |-> is, at |-> spent[p]]]
  /\ UNCHANGED <<kind, stage, spent, left, ident, next_id, result,
                 replies, main, foreign, order, delay>>

\* Mutant: the timer is looked at first.
TimerFirst(p) == IF tcp[p].is = "up" /\ spent[p] < TcpTimeout THEN Up ELSE Lost

TcpResult(p) == IF tcp[p].is = "up" THEN Up ELSE Lost

TcpEnd(p) ==
  /\ stage[p] = "woken" /\ kind[p] = "tcp" /\ FreeThread
  /\ End(p, TcpResult(p))
  /\ UNCHANGED <<kind, spent, left, ident, next_id, replies, tcp,
                 main, foreign, order, delay>>

-----------------------------------------------------------------------------
(***************************************************************************)
(* Calls on a worker thread: of an HTTP ping and of a lookup as soon as    *)
(* they run, of a command when it has ended (the post of its output), of a *)
(* terminal whenever there is something to write, or its shell to end.     *)
(***************************************************************************)
Shells == {"exec", "terminal"}

\* One that ends without such a call (no shell, no output) is over at once.
Begin(p) ==
  /\ stage[p] = "ready" /\ kind[p] \in Shells /\ FreeThread
  /\ Move(p, "waiting") \/ Move(p, "done")
  /\ UNCHANGED <<pingVars, spent, main, foreign, delay>>

Call(t) ==
  /\ FreeThread
  /\ \/ stage[t] = "ready" /\ (t \in Requests => kind[t] = "http")
     \/ stage[t] = "woken" /\ kind[t] \in Shells
  /\ Move(t, "calling")
  /\ UNCHANGED <<pingVars, spent, main, foreign, delay>>

\* Calls of an agent made by create_ureq_agent, which has timeout_global.
Timed == {t \in In({"calling"}) : t \in Lookups \/ kind[t] = "exec"}

\* Mutant: a call has no time limit.
NoTimeUp(t) == FALSE

TimeUp(t) == spent[t] >= HttpTimeout

CallEnds(t) ==
  /\ t \in Timed
  /\ Move(t, "done") /\ spent' = [spent EXCEPT ![t] = 0]
  /\ UNCHANGED <<pingVars, main, foreign, delay>>

HttpPingEnds(p) ==
  /\ stage[p] = "calling" /\ kind[p] = "http"
  /\ \E res \in {Up, Lost} : End(p, res)
  /\ UNCHANGED <<kind, spent, left, ident, next_id, replies, tcp,
                 main, foreign, order, delay>>

\* What was typed is written, or the shell has ended.
TerminalGoesOn(p) ==
  /\ stage[p] = "calling" /\ kind[p] = "terminal"
  /\ Move(p, "waiting") \/ Move(p, "done")
  /\ UNCHANGED <<pingVars, spent, main, foreign, delay>>

-----------------------------------------------------------------------------
(***************************************************************************)
(* main: a connection, the basic information, then the reports.            *)
(***************************************************************************)
ConnectWs ==
  /\ main = "connecting" /\ DriverTurns /\ TcpDue = {}
  /\ main' = "lookup"
  /\ stage' = [t \in Tasks |-> IF t \in Lookups THEN "ready" ELSE stage[t]]
  /\ UNCHANGED <<pingVars, spent, foreign, delay>>

StartPush ==
  /\ main = "lookup" /\ \A t \in Lookups : stage[t] = "done"
  /\ main' = "push"
  /\ UNCHANGED <<pingVars, stage, spent, foreign, delay>>

PushEnds ==
  /\ main = "push" /\ main' = "sending"
  /\ spent' = [spent EXCEPT ![Main] = 0] /\ delay' = 0
  /\ UNCHANGED <<pingVars, stage, foreign>>

Send ==
  /\ main = "sending" /\ main' \in {"asleep", "connecting"}
  /\ UNCHANGED <<pingVars, stage, spent, foreign, delay>>

-----------------------------------------------------------------------------
(***************************************************************************)
(* Time passes when no thread can do anything before.                      *)
(***************************************************************************)
Busy ==
  \/ Ready # {} /\ FreeThread
  \/ \E p \in Listening : left[p] = 0
  \/ \E t \in Timed : TimeUp(t)
  \/ OnThread = {} /\ Ready = {} /\ (main = "connecting" \/ TimersDue)
  \/ main = "lookup" /\ \A t \in Lookups : stage[t] = "done"
  \/ main = "push" /\ TimeUp(Main)
  \/ main = "sending"

TcpPings == {p \in Requests : kind[p] = "tcp" /\ stage[p] \in {"connecting", "woken"}}

Running == Listening \union Timed \union TcpPings
             \union (IF main = "push" THEN {Main} ELSE {})

Later(n) == IF n < MaxDelay THEN n + 1 ELSE n

Tick ==
  /\ ~Busy
  /\ spent' = [t \in DOMAIN spent |-> IF t \in Running THEN Later(spent[t]) ELSE spent[t]]
  /\ left' = [p \in Requests |-> IF p \in Listening THEN left[p] - 1 ELSE left[p]]
  /\ main' = IF main = "asleep" THEN "due" ELSE main
  /\ delay' = IF main \in {"lookup", "push"} THEN Later(delay) ELSE delay
  /\ UNCHANGED <<kind, stage, ident, next_id, result, replies, tcp,
                 foreign, order>>

-----------------------------------------------------------------------------
PingStep(p)   == \/ Refuse(p) \/ SendRequest(p) \/ Expire(p)
                 \/ Connect(p) \/ TcpEnd(p) \/ Begin(p)
ThreadStep(t) == Call(t) \/ (t \in Requests /\ PingStep(t))
CallEnd    == PushEnds \/ \E t \in Tasks : CallEnds(t)
CallExpiry == \/ TimeUp(Main) /\ PushEnds
              \/ \E t \in Tasks : TimeUp(t) /\ CallEnds(t)
Turns      == \E S \in SUBSET In({"waiting"}) : Turn(S)
DriverStep == ConnectWs \/ Turns
MainStep   == StartPush \/ Send
Network ==
  \/ \E p \in Requests : \/ Answer(p) \/ TcpAnswer(p)
                         \/ HttpPingEnds(p) \/ TerminalGoesOn(p)
  \/ Foreign(Unreadable) \/ \E id \in Ids : Foreign(Reply(id, Other))
Arrival == \E p \in Requests : Ask(p)

Next ==
  \/ \E t \in Tasks : ThreadStep(t)
  \/ CallEnd \/ DriverStep \/ MainStep \/ Network \/ Arrival \/ Tick

(* A thread runs what it can, a call with a time limit ends, the driver    *)
(* turns if something is due again and again while no thread is held, and  *)
(* time goes on.  The network and the shells owe nothing: an HTTP ping or  *)
(* a terminal may hold its thread for ever, a command may never end.       *)
Fairness ==
  /\ \A t \in Tasks : WF_vars(ThreadStep(t))
  /\ WF_vars(CallExpiry)
  /\ SF_vars(OnThread = {} /\ ConnectWs)
  /\ SF_vars(OnThread = {} /\ TimersDue /\ Turns)
  /\ WF_vars(MainStep) /\ SF_vars(Tick)

Spec     == Init /\ [][Next]_vars
FairSpec == Spec /\ Fairness

-----------------------------------------------------------------------------
(***************************************************************************)
(* Properties.                                                             *)
(***************************************************************************)
(* Whose reply a ping accepts, by the identifier alone: its own, or that   *)
(* of a ping a multiple of IdSpace requests away, or another program's.    *)
OwnReply ==
  \A p \in Requests : \A q \in Requests \ {p} :
    result[p] = q => (order[p] - order[q]) % IdSpace = 0

(* A ping is given up before its limit only for a packet that could not be *)
(* parsed: no packet of another program, and no reply to another ping,     *)
(* makes it miss the reply it waits for.                                   *)
GivenUpAtLimit ==
  [][\A p \in Requests :
       (stage[p] = "receiving" /\ result'[p] = Lost)
         => (spent[p] = IcmpTimeout \/ Foreign(Unreadable))]_vars

(* Why these two hold: a ping gets its identifier and its place among the  *)
(* echo requests together, once; who hears a reply has sent its request,   *)
(* as has the ping that the reply answers; and of the time limit of a ping *)
(* that listens there is always left what has not been spent.              *)
Sent == {p \in Requests : order[p] > 0}

CallInv ==
  /\ next_id = Cardinality(Sent) % IdSpace
  /\ replies \subseteq Sent
  /\ \A p \in Requests :
       /\ stage[p] # "done" => result[p] = None
       /\ stage[p] \in {"idle", "ready"} => order[p] = 0 /\ spent[p] = 0
       /\ stage[p] = "receiving" => order[p] > 0 /\ spent[p] + left[p] = IcmpTimeout
       /\ order[p] > 0 => ident[p] = (order[p] - 1) % IdSpace
       /\ result[p] \in Requests =>
            order[p] > 0 /\ order[result[p]] > 0 /\ ident[p] = ident[result[p]]

(* For how long the calls that have a time limit hold threads, when so     *)
(* many lookups are among them; Endless are those who may call without.    *)
Asked(k) == {p \in Requests : kind[p] = k /\ stage[p] # "idle"}
Endless  == Asked("http") \union Asked("terminal")
CallTime(lookups) ==
  IcmpTimeout * Cardinality(Asked("icmp"))
    + HttpTimeout * (Cardinality(Asked("exec")) + lookups)

(* However many packets a ping passes over, it holds its thread no longer  *)
(* than its time limit; without HTTP pings and terminals, therefore, the   *)
(* first report of a connection is late by no more than the two calls of   *)
(* basic information and a share of the time for which the pings, the      *)
(* posts of commands and the other lookup hold the threads: a lookup is    *)
(* spawned, so every thread that is free may take it.                      *)
FirstReportDelay ==
  /\ \A p \in Listening : spent[p] + left[p] <= IcmpTimeout
  /\ Endless = {} => delay <= CallTime(1) \div Workers + 2 * HttpTimeout

(* A connection a TCP ping makes in time is reported as made, and the time *)
(* it reports exceeds the true one by at most the time for which threads   *)
(* are held.  That time is not shared by the threads: a single held one    *)
(* may keep the driver from turning for all of it.                         *)
TcpTruthful ==
  \A p \in Asked("tcp") :
    (stage[p] = "done" /\ tcp[p].is = "up" /\ tcp[p].at <= TcpTimeout)
      => /\ result[p] = Up
         /\ Endless = {} => spent[p] - tcp[p].at <= CallTime(2)

(* Why these two hold: where tasks and main can be; and, as long as every  *)
(* call has a time limit, that a lookup that waits for a thread has waited *)
(* no longer than the others have held all threads, and a ping whose       *)
(* connection is made no longer than some thread has been held.  A call    *)
(* that is over counts as one of its whole limit, and the time held is     *)
(* counted in pairs of a task and a tick.  A lookup is late, its own call  *)
(* and the push apart, by such a wait.                                     *)
Limit(t) == IF t \in Lookups THEN HttpTimeout
            ELSE IF kind[t] = "icmp" THEN IcmpTimeout
            ELSE IF kind[t] = "exec" THEN HttpTimeout ELSE 0
Held == [t \in Tasks |-> IF stage[t] = "done" THEN Limit(t)
                         ELSE IF t \in OnThread THEN spent[t] ELSE 0]
Work(S, held) == {w \in S \X (1..MaxDelay) : w[2] <= held[w[1]]}

StageInv ==
  /\ \A p \in Requests :
       /\ stage[p] = "connecting" => kind[p] = "tcp"
       /\ stage[p] = "waiting" => kind[p] \in Shells
       /\ stage[p] = "woken" => kind[p] \in {"tcp"} \union Shells
       /\ stage[p] = "receiving" => kind[p] = "icmp"
       /\ stage[p] = "calling" => kind[p] \in {"http"} \union Shells
       /\ kind[p] = "exec" => spent[p] <= IF stage[p] = "calling" THEN HttpTimeout ELSE 0
       /\ tcp[p].is # "none" =>
            kind[p] = "tcp" /\ stage[p] \in {"connecting", "woken", "done"}
       /\ stage[p] = "done" /\ tcp[p].is = "up" => result[p] = Up
  /\ \A t \in Lookups :
       /\ stage[t] \in IF main = "lookup" THEN {"ready", "calling", "done"} ELSE {"idle", "done"}
       /\ main = "push" => stage[t] = "done"
       /\ spent[t] <= IF stage[t] = "calling" THEN HttpTimeout ELSE 0
  /\ spent[Main] <= IF main = "push" THEN HttpTimeout ELSE 0
  /\ main \notin {"lookup", "push"} => delay = 0

Late(t) ==
  Workers * (delay - Held[t] - spent[Main]) <= Cardinality(Work(Tasks \ {t}, Held))

DelayShare ==
  main \in {"lookup", "push"} =>
    /\ \E t \in Lookups : Late(t)
    /\ \A t \in Lookups : stage[t] # "done" => Late(t)

TcpWaits(p) ==
  spent[p] - tcp[p].at <=
    IF stage[p] = "done" THEN CallTime(2) ELSE Cardinality(Work(Tasks, Held))

TcpShare == \A p \in Asked("tcp") : tcp[p].is # "none" => TcpWaits(p)

WaitInv == StageInv /\ (Endless = {} => DelayShare /\ TcpShare)

(* main reports again and again, unless from some moment on an HTTP ping   *)
(* or a terminal always holds a thread: one that hangs may keep the driver *)
(* from ever turning again.                                                *)
Hung == \E p \in Endless : stage[p] = "calling"
ReportsGoOn == <>[]Hung \/ []<>(main = "sending")
=============================================================================
