---------------------------- MODULE AgentSession ----------------------------
(***************************************************************************)
(* The tasks around a connection: main, which reports on the current one;  *)
(* the dispatcher of each connection (handle_callbacks), which reads the   *)
(* server's requests; the tasks it spawns for them (callbacks/mod.rs).     *)
(*                                                                         *)
(* Reports and ping results share the writing half of a connection behind  *)
(* a tokio Mutex, which is granted in the order of the requests for it.    *)
(* Nothing is aborted: when main leaves a connection, its dispatcher and   *)
(* its tasks go on until they end by themselves.                           *)
(***************************************************************************)
EXTENDS Naturals, Sequences, FiniteSets

CONSTANTS Requests,   \* identities of requests; one can be asked again
          Kind,       \* what each of them is; "ping" is a ping over ICMP or TCP
          Main,       \* main, as one that waits for a lock
          MaxConns    \* bound of the exploration: connections

ASSUME KindAssumption == Kind \in [Requests -> {"ping", "http", "exec", "terminal"}]
ASSUME MainAssumption == Main \notin Requests
ASSUME MaxConnsAssumption == MaxConns \in Nat

Conns == 1..MaxConns

VARIABLES
  terminal,           \* config.terminal
  main, conn,         \* where main is; its current connection (0: none yet)
  link, listener,     \* of each connection: the socket, the dispatcher
  inbox, lock,        \* requests to read; who waits for the writer, in order
  asked, stage,       \* of each request: its connection; how far it has come
  answers             \* history: the connections its answers arrived on

conns    == <<main, conn, link, listener, inbox>>
requests == <<asked, stage, answers>>
vars     == <<terminal, main, conn, link, listener, inbox, lock, asked, stage, answers>>

Types ==
  /\ terminal \in BOOLEAN
  /\ main \in {"connect", "wait", "idle", "queued"}
  /\ conn \in 0..MaxConns
  /\ link \in [Conns -> {"none", "up", "broken"}]
  /\ listener \in [Conns -> {"none", "next", "done"}]
  /\ inbox \in [Conns -> Seq(Requests)]
  /\ lock \in [Conns -> Seq(Requests \union {Main})]
  /\ asked \in [Requests -> Conns \union {0}]
  /\ stage \in [Requests -> {"idle", "inbox", "running", "queued"}]
  /\ answers \in [Requests -> Seq(Conns)]

TypeOK ==
  /\ Types
  /\ \A c \in Conns : Len(lock[c]) <= Cardinality(Requests) + 1

Init ==
  /\ terminal \in BOOLEAN
  /\ main = "connect" /\ conn = 0
  /\ link = [c \in Conns |-> "none"] /\ listener = [c \in Conns |-> "none"]
  /\ inbox = [c \in Conns |-> <<>>] /\ lock = [c \in Conns |-> <<>>]
  /\ asked = [r \in Requests |-> 0] /\ stage = [r \in Requests |-> "idle"]
  /\ answers = [r \in Requests |-> <<>>]

-----------------------------------------------------------------------------
(***************************************************************************)
(* main.                                                                   *)
(***************************************************************************)
\* A connection with its own dispatcher and writer.
Connect ==
  /\ main = "connect"
  /\ conn < MaxConns
  /\ conn' = conn + 1
  /\ link' = [link EXCEPT ![conn + 1] = "up"]
  /\ listener' = [listener EXCEPT ![conn + 1] = "next"]
  /\ main' = "idle"
  /\ UNCHANGED <<terminal, inbox, lock, requests>>

ConnectFails ==
  /\ main = "connect"
  /\ main' = "wait"
  /\ UNCHANGED <<terminal, conn, link, listener, inbox, lock, requests>>

Retry ==
  /\ main = "wait"
  /\ main' = "connect"
  /\ UNCHANGED <<terminal, conn, link, listener, inbox, lock, requests>>

\* Mutant: the newest request for the lock is served first.
WaitingFirst(queue, who) ==
  IF queue = <<>> THEN <<who>> ELSE <<Head(queue), who>> \o Tail(queue)

\* Mutant: the lock is asked for twice.
WaitingTwice(queue, who) == queue \o <<who, who>>

\* The lock of a writer: its holder, and the others in the order they came.
Waiting(queue, who) == Append(queue, who)

\* A report is built, and the lock asked for.
Report ==
  /\ main = "idle"
  /\ lock' = [lock EXCEPT ![conn] = Waiting(@, Main)]
  /\ main' = "queued"
  /\ UNCHANGED <<terminal, conn, link, listener, inbox, requests>>

\* Mutant: the guard outlives a write that fails.
KeptOnFailure(c) == IF link[c] = "broken" THEN lock[c] ELSE Tail(lock[c])

\* The guard is dropped at the end of the block that writes.
Released(c) == Tail(lock[c])

Holds(c, who) == lock[c] # <<>> /\ Head(lock[c]) = who

\* Mutant: main also gives up a connection that still works.
MayFailAlways(c) == TRUE

\* Writing to a socket that works succeeds; on a broken one it may seem to.
MayFail(c) == link[c] = "broken"

SendReport ==
  /\ main = "queued"
  /\ Holds(conn, Main)
  /\ \/ main' = "idle"
     \/ MayFail(conn) /\ main' = "connect"
  /\ lock' = [lock EXCEPT ![conn] = Released(conn)]
  /\ UNCHANGED <<terminal, conn, link, listener, inbox, requests>>

-----------------------------------------------------------------------------
(***************************************************************************)
(* The dispatcher of connection c.                                         *)
(***************************************************************************)
IsPing(r) == Kind[r] \in {"ping", "http"}

\* Remote commands and terminals only where the configuration allows them.
Accepted(r) == IsPing(r) \/ terminal

Dispatch(c) ==
  /\ listener[c] = "next"
  /\ inbox[c] # <<>>
  /\ LET r == Head(inbox[c]) IN
       stage' = [stage EXCEPT ![r] = IF Accepted(r) THEN "running" ELSE "idle"]
  /\ inbox' = [inbox EXCEPT ![c] = Tail(@)]
  /\ UNCHANGED <<terminal, main, conn, link, listener, lock, asked, answers>>

\* Mutant: a broken connection is read again and again.
AfterError == "next"

\* After an error, which is skipped, the stream ends.
AtEnd == "done"

ListenerEnds(c) ==
  /\ listener[c] = "next"
  /\ link[c] = "broken"
  /\ inbox[c] = <<>>
  /\ listener' = [listener EXCEPT ![c] = AtEnd]
  /\ UNCHANGED <<terminal, main, conn, link, inbox, lock, requests>>

(***************************************************************************)
(* The task of request r.                                                  *)
(***************************************************************************)
\* Mutant: the result of a ping goes to the connection of the day.
CurrentConn(r) == conn

\* The task has a clone of the writer of the connection it was asked on.
ReplyConn(r) == asked[r]

\* The ping is done, in one way or another, or the target timed out: both have
\* a result.
PingResult(r) ==
  /\ IsPing(r)
  /\ stage[r] = "running"
  /\ lock' = [lock EXCEPT ![ReplyConn(r)] = Waiting(@, r)]
  /\ stage' = [stage EXCEPT ![r] = "queued"]
  /\ UNCHANGED <<terminal, conns, asked, answers>>

\* Not privileged, not resolved, not supported: only a line in the log.
PingError(r) ==
  /\ IsPing(r)
  /\ stage[r] = "running"
  /\ stage' = [stage EXCEPT ![r] = "idle"]
  /\ UNCHANGED <<terminal, conns, lock, asked, answers>>

SendResult(c, r) ==
  /\ stage[r] = "queued"
  /\ Holds(c, r)
  /\ answers' = IF link[c] = "up" THEN [answers EXCEPT ![r] = Append(@, c)] ELSE answers
  /\ lock' = [lock EXCEPT ![c] = Released(c)]
  /\ stage' = [stage EXCEPT ![r] = "idle"]
  /\ UNCHANGED <<terminal, conns, asked>>

\* The command ends and its output is posted over HTTP, once; the terminal
\* session is over.  Neither uses the writer, and neither has a time limit.
OtherEnds(r) ==
  /\ ~IsPing(r)
  /\ stage[r] = "running"
  /\ stage' = [stage EXCEPT ![r] = "idle"]
  /\ UNCHANGED <<terminal, conns, lock, asked, answers>>

-----------------------------------------------------------------------------
(***************************************************************************)
(* The server and the network.                                             *)
(***************************************************************************)
Ask(c, r) ==
  /\ link[c] = "up"
  /\ stage[r] = "idle"
  /\ stage' = [stage EXCEPT ![r] = "inbox"]
  /\ asked' = [asked EXCEPT ![r] = c]
  /\ answers' = [answers EXCEPT ![r] = <<>>]
  /\ inbox' = [inbox EXCEPT ![c] = Append(@, r)]
  /\ UNCHANGED <<terminal, main, conn, link, listener, lock>>

\* The connection breaks; requests that had not arrived are lost.
Break(c) ==
  /\ link[c] = "up"
  /\ link' = [link EXCEPT ![c] = "broken"]
  /\ \E n \in 0..Len(inbox[c]) :
       /\ inbox' = [inbox EXCEPT ![c] = SubSeq(@, 1, n)]
       /\ stage' = [r \in Requests |->
                      IF \E i \in n + 1..Len(inbox[c]) : inbox[c][i] = r
                        THEN "idle" ELSE stage[r]]
  /\ UNCHANGED <<terminal, main, conn, listener, lock, asked, answers>>

MainStep    == ConnectFails \/ Retry \/ Report \/ SendReport
Listener(c) == Dispatch(c) \/ ListenerEnds(c)
Target(r)   == PingResult(r) \/ PingError(r)
Result(r)   == \E c \in Conns : SendResult(c, r)

Next ==
  \/ Connect \/ MainStep
  \/ \E c \in Conns : Listener(c) \/ Break(c)
  \/ \E r \in Requests : Target(r) \/ Result(r) \/ OtherEnds(r) \/ \E c \in Conns : Ask(c, r)

Spec == Init /\ [][Next]_vars

\* tokio runs what can run, and pings end: TCP after ten seconds, ICMP after
\* three.  Nothing is assumed of HTTP pings, which are sent without a limit, of
\* commands, terminals, the server and the network.
Fairness ==
  /\ WF_vars(Connect \/ MainStep)
  /\ \A c \in Conns : WF_vars(Listener(c))
  /\ \A r \in Requests : WF_vars(Result(r)) /\ (Kind[r] = "ping" => WF_vars(Target(r)))

FairSpec == Spec /\ Fairness

-----------------------------------------------------------------------------
(***************************************************************************)
(* A request is answered at most once, and only on the connection it was   *)
(* asked on: a result that comes late is lost with its connection and does *)
(* not turn up on the next one.                                            *)
(***************************************************************************)
AnsweredOnceWhereAsked ==
  \A r \in Requests :
    /\ Len(answers[r]) <= 1
    /\ \A i \in 1..Len(answers[r]) : answers[r][i] = asked[r]

(***************************************************************************)
(* Why that holds: who waits at which lock, and which request is where.    *)
(***************************************************************************)
Has(queue, who) == \E i \in 1..Len(queue) : queue[i] = who
Distinct(queue) == \A i, j \in 1..Len(queue) : queue[i] = queue[j] => i = j

TaskInv ==
  /\ \A c \in Conns : Distinct(inbox[c]) /\ Distinct(lock[c])
  /\ \A r \in Requests, c \in Conns :
       /\ Has(inbox[c], r) <=> stage[r] = "inbox" /\ asked[r] = c
       /\ Has(lock[c], r) <=> stage[r] = "queued" /\ asked[r] = c
  /\ \A c \in Conns : Has(lock[c], Main) <=> main = "queued" /\ conn = c
  /\ \A r \in Requests : stage[r] # "idle" => answers[r] = <<>>

(***************************************************************************)
(* Main leaves a connection only when it is broken, so although old        *)
(* dispatchers may still be working, at most one connection brings new     *)
(* requests.                                                               *)
(***************************************************************************)
OneConnectionUp ==
  \A c \in Conns : link[c] = "up" => c = conn /\ main \in {"idle", "queued"}

(***************************************************************************)
(* Ping results never keep a report from being sent, however many there    *)
(* are: the lock is fair.                                                  *)
(***************************************************************************)
ReportNotStarved == main = "queued" ~> main # "queued"

(***************************************************************************)
(* Every ping comes to an end, also when its connection has gone: over     *)
(* HTTP, once the server of the page has answered.                         *)
(***************************************************************************)
PingEnds ==
  \A r \in Requests :
    (Kind[r] = "ping" /\ stage[r] = "running") \/ stage[r] = "queued"
      ~> stage[r] = "idle"

(***************************************************************************)
(* The dispatcher of a broken connection ends, after what had arrived.     *)
(***************************************************************************)
ListenersEnd ==
  \A c \in Conns : link[c] = "broken" ~> listener[c] = "done"

=============================================================================
