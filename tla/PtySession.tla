----------------------------- MODULE PtySession -----------------------------
(***************************************************************************)
(* One remote terminal: handle_pty_session (callbacks/pty.rs) once the     *)
(* shell has been spawned.  Four actors share the pseudo terminal and the  *)
(* WebSocket:                                                              *)
(*                                                                         *)
(*   reader   a blocking thread: terminal output -> unbounded channel;     *)
(*   pusher   pty_to_ws_task: channel -> WebSocket;                        *)
(*   puller   ws_to_pty_task: WebSocket -> terminal input (a blocking      *)
(*            write); it owns the master and its writer, which writes once *)
(*            more, an end of file, when it is dropped;                    *)
(*   session  the function itself: waits until pusher or puller ends,      *)
(*            kills the shell, waits for it and returns.  It owns a handle *)
(*            to the slave until then.  The other task is not aborted.     *)
(*                                                                         *)
(* Output is cut into chunks, numbered as the shell writes them.  Resizes  *)
(* and heartbeats from the client change nothing here.                     *)
(***************************************************************************)
EXTENDS Naturals, Sequences

CONSTANTS Buffer,               \* chunks the kernel buffers, either way
          MaxOutput, MaxInput   \* bounds of the exploration

ASSUME BufferAssumption == Buffer \in Nat \ {0}

VARIABLES
  shell, background,    \* the child; a process it left behind in the terminal
  slave,                \* does the session still hold its handle to the slave?
  written, read,        \* chunks of output written to, read from the terminal
  typed, input,         \* chunks of input from the client; in the terminal
  queue,                \* pty_to_ws_tx -> pty_to_ws_rx
  reader, pusher, carried, puller, session,
  ws,                   \* the WebSocket
  received              \* what the client got

terminal == <<shell, background, slave, written, read, input>>
tasks    == <<reader, pusher, carried, puller, session>>
vars     == <<shell, background, slave, written, read, typed, input, queue,
              reader, pusher, carried, puller, session, ws, received>>

TypeOK ==
  /\ shell \in {"running", "exited", "reaped"}
  /\ background \in BOOLEAN /\ slave \in BOOLEAN
  /\ written \in Nat /\ read \in 0..written /\ written - read <= Buffer
  /\ typed \in Nat /\ input \in 0..Buffer
  /\ queue \in Seq(1..read) /\ received \in Seq(1..read)
  /\ reader \in {"read", "push", "done"}
  /\ pusher \in {"recv", "send", "done"} /\ carried \in 0..read
  /\ puller \in {"next", "write", "drop", "done"}
  /\ session \in {"open", "kill", "wait", "returned", "failed"}
  /\ ws \in {"open", "closed"}

Init ==
  /\ shell = "running" /\ background = FALSE /\ slave = TRUE
  /\ written = 0 /\ read = 0 /\ typed = 0 /\ input = 0
  /\ queue = <<>> /\ received = <<>>
  /\ reader = "read" /\ pusher = "recv" /\ carried = 0 /\ puller = "next"
  /\ session = "open"
  /\ ws = "open"

-----------------------------------------------------------------------------
(***************************************************************************)
(* The shell and what it starts, in the terminal; the client.              *)
(***************************************************************************)
\* Mutant: the session gives its handle to the slave away when it has spawned
\* the shell.
SlaveOpenElsewhere == shell = "running" \/ background

\* A read from the master ends only when every handle to the slave is closed.
SlaveOpen == slave \/ shell = "running" \/ background

\* Mutant: one chunk more than there is room for.
HasRoomForOneMore == input <= Buffer

HasRoom == input < Buffer

Output ==
  /\ shell = "running" \/ background
  /\ written < MaxOutput
  /\ written - read < Buffer
  /\ written' = written + 1
  /\ UNCHANGED <<shell, background, slave, read, typed, input, queue, tasks, ws, received>>

ShellReads ==
  /\ shell = "running"
  /\ input > 0
  /\ input' = input - 1
  /\ UNCHANGED <<shell, background, slave, written, read, typed, queue, tasks, ws, received>>

\* The user leaves a process in the background that ignores SIGHUP; it ends
\* when it wants to.
Background ==
  /\ \/ shell = "running" /\ background' = TRUE
     \/ background' = FALSE
  /\ UNCHANGED <<shell, slave, written, read, typed, input, queue, tasks, ws, received>>

ShellExits ==
  /\ shell = "running"
  /\ shell' = "exited"
  /\ UNCHANGED <<background, slave, written, read, typed, input, queue, tasks, ws, received>>

\* The client closes the terminal, or the connection is lost.
Close ==
  /\ ws = "open"
  /\ ws' = "closed"
  /\ UNCHANGED <<terminal, typed, queue, tasks, received>>

-----------------------------------------------------------------------------
(***************************************************************************)
(* The reader thread.                                                      *)
(***************************************************************************)
Read ==
  /\ reader = "read"
  /\ read < written
  /\ read' = read + 1
  /\ reader' = "push"
  /\ UNCHANGED <<shell, background, slave, written, typed, input, queue, pusher,
                 carried, puller, session, ws, received>>

ReadEof ==
  /\ reader = "read"
  /\ read = written
  /\ ~SlaveOpen
  /\ reader' = "done"
  /\ UNCHANGED <<terminal, typed, queue, pusher, carried, puller, session, ws, received>>

\* Mutant: the channel hands out the newest chunk first.
QueuedFirst == <<read>> \o queue

Queued == Append(queue, read)

\* The channel takes any number of chunks, until its receiver is dropped.
Push ==
  /\ reader = "push"
  /\ IF pusher # "done"
       THEN queue' = Queued /\ reader' = "read"
       ELSE reader' = "done" /\ UNCHANGED queue
  /\ UNCHANGED <<terminal, typed, pusher, carried, puller, session, ws, received>>

(***************************************************************************)
(* pty_to_ws_task.                                                         *)
(***************************************************************************)
Recv ==
  /\ pusher = "recv"
  /\ queue # <<>>
  /\ carried' = Head(queue) /\ queue' = Tail(queue)
  /\ pusher' = "send"
  /\ UNCHANGED <<terminal, typed, reader, puller, session, ws, received>>

RecvEnds ==
  /\ pusher = "recv"
  /\ queue = <<>> /\ reader = "done"
  /\ pusher' = "done"
  /\ UNCHANGED <<terminal, typed, queue, reader, carried, puller, session, ws, received>>

\* On a connection that is lost a send may still succeed, or it fails and the
\* task ends, dropping the receiver and what is in the channel.
Send ==
  /\ pusher = "send"
  /\ \/ ws = "open" /\ received' = Append(received, carried) /\ pusher' = "recv"
                    /\ UNCHANGED queue
     \/ ws = "closed" /\ pusher' = "recv" /\ UNCHANGED <<queue, received>>
     \/ ws = "closed" /\ pusher' = "done" /\ queue' = <<>> /\ UNCHANGED received
  /\ carried' = 0
  /\ UNCHANGED <<terminal, typed, reader, puller, session, ws>>

(***************************************************************************)
(* ws_to_pty_task.                                                         *)
(***************************************************************************)
NextInput ==
  /\ puller = "next"
  /\ ws = "open"
  /\ typed < MaxInput
  /\ typed' = typed + 1
  /\ puller' = "write"
  /\ UNCHANGED <<terminal, queue, reader, pusher, carried, session, ws, received>>

\* A close frame, an error, or the end of the stream.
NextClosed ==
  /\ puller = "next"
  /\ ws = "closed"
  /\ puller' = "drop"
  /\ UNCHANGED <<terminal, typed, queue, reader, pusher, carried, session, ws, received>>

\* write_all blocks while the terminal has no room; it fails when the last
\* handle to the slave is closed.
WriteInput ==
  /\ puller = "write"
  /\ \/ SlaveOpen /\ HasRoom /\ input' = input + 1 /\ puller' = "next"
     \/ ~SlaveOpen /\ puller' = "drop" /\ UNCHANGED input
  /\ UNCHANGED <<shell, background, slave, written, read, typed, queue, reader,
                 pusher, carried, session, ws, received>>

\* The task has left its loop; it is finished when the writer has been dropped,
\* which writes a newline and an end of file as any other input.
DropWriter ==
  /\ puller = "drop" /\ puller' = "done"
  /\ \/ SlaveOpen /\ HasRoom /\ input' = input + 1
     \/ ~SlaveOpen /\ UNCHANGED input
  /\ UNCHANGED <<shell, background, slave, written, read, typed, queue, reader,
                 pusher, carried, session, ws, received>>

-----------------------------------------------------------------------------
(***************************************************************************)
(* handle_pty_session after the spawns.                                    *)
(***************************************************************************)
\* Mutant: join! instead of select!.
BothTasksFinished == pusher = "done" /\ puller = "done"

TaskFinished == pusher = "done" \/ puller = "done"

Select ==
  /\ session = "open"
  /\ TaskFinished
  /\ session' = "kill"
  /\ UNCHANGED <<terminal, typed, queue, reader, pusher, carried, puller, ws, received>>

\* SIGHUP, a few looks whether the shell has ended, which reap it if so, and
\* then SIGKILL; the result is only logged, and the shell may survive (it runs
\* as another user by now) or end later.
Kill ==
  /\ session = "kill"
  /\ shell' \in {shell, "exited", "reaped"}
  /\ session' = "wait"
  /\ UNCHANGED <<background, slave, written, read, typed, input, queue, reader,
                 pusher, carried, puller, ws, received>>

\* Mutant: something keeps the handle to the slave.
SlaveKept == slave

SlaveAtReturn == FALSE

Return(how) ==
  /\ session = "wait"
  /\ session' = how /\ slave' = SlaveAtReturn
  /\ UNCHANGED <<background, written, read, typed, input, queue, reader, pusher,
                 carried, puller, ws, received>>

\* wait blocks until the shell has ended.
Wait == shell # "running" /\ shell' = "reaped" /\ Return("returned")

\* An error of wait: the function returns it, whatever has become of the shell.
WaitFails == UNCHANGED shell /\ Return("failed")

Over == session \in {"returned", "failed"}

Reader  == Read \/ ReadEof \/ Push
Pusher  == Recv \/ RecvEnds \/ Send
Puller  == NextInput \/ NextClosed \/ WriteInput \/ DropWriter
Session == Select \/ Kill \/ Wait
World   == Output \/ ShellReads \/ Background \/ ShellExits \/ Close \/ WaitFails

Next == Reader \/ Pusher \/ Puller \/ Session \/ World

Spec == Init /\ [][Next]_vars

\* The thread and the tasks are scheduled; nothing is assumed of the shell,
\* the processes in the terminal, or the client.
Fairness == WF_vars(Reader) /\ WF_vars(Pusher) /\ WF_vars(Puller) /\ WF_vars(Session)

FairSpec == Spec /\ Fairness

-----------------------------------------------------------------------------
(***************************************************************************)
(* While the connection stands, the client has exactly a prefix of what    *)
(* was written to the terminal, and the rest is on its way: in the pusher, *)
(* the channel and the reader, in this order.                              *)
(***************************************************************************)
OutputInOrder ==
  ws = "open" =>
    received \o (IF pusher = "send" THEN <<carried>> ELSE <<>>) \o queue
             \o (IF reader = "push" THEN <<read>> ELSE <<>>)
      = [i \in 1..read |-> i]

(***************************************************************************)
(* The end of the shell does not end the session: the session's own handle *)
(* to the slave keeps the terminal open, so the reader thread sees the end *)
(* of the output only after the session has returned, or when nobody takes *)
(* its chunks any more.  It is the WebSocket that ends a session.          *)
(***************************************************************************)
EndsWithWebSocket ==
  /\ reader = "done" => Over \/ pusher = "done"
  /\ session # "open" => ws = "closed"

(***************************************************************************)
(* Why these hold: a chunk in hand is one that was read, either task ends  *)
(* only with the connection or after the session, and the session gives up *)
(* its handle to the slave in the step that ends it.                       *)
(***************************************************************************)
SessionInv ==
  /\ reader = "push" => read >= 1
  /\ pusher = "send" => carried >= 1
  /\ slave <=> ~Over
  /\ TaskFinished \/ puller = "drop" => ws = "closed"
  /\ EndsWithWebSocket

(***************************************************************************)
(* When the connection ends, so does the session, and it has reaped the    *)
(* shell unless wait reports an error; with two exceptions that the code   *)
(* leaves to the shell: the puller is in a blocking write, that of what    *)
(* was typed or that of its writer's end, because the shell does not read  *)
(* its input (or is gone), or the shell has survived the kill.             *)
(***************************************************************************)
StuckInWrite == puller \in {"write", "drop"} /\ ~HasRoom
StuckInWait  == session = "wait" /\ shell = "running"

SessionEnds ==
  ws = "closed" ~> \/ session = "returned" /\ shell = "reaped"
                   \/ session = "failed"
                   \/ StuckInWrite \/ StuckInWait

(***************************************************************************)
(* Nothing of a session that is over stays behind: the task that was not   *)
(* waited for and the reader thread end too, unless a process left in the  *)
(* background holds the terminal open, or a shell for which wait failed.   *)
(***************************************************************************)
NoTaskLeft ==
  Over
    ~> \/ reader = "done" /\ pusher = "done" /\ puller = "done"
       \/ background \/ shell = "running"

=============================================================================
