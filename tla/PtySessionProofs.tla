-------------------------- MODULE PtySessionProofs --------------------------
(***************************************************************************)
(* Proofs about a remote terminal, for every size of the kernel's buffers  *)
(* and any amount of input and output.                                     *)
(***************************************************************************)
EXTENDS PtySession, SequenceTheorems, TLAPS

USE BufferAssumption

LEMMA SmallSeqs ==
  ASSUME NEW m \in Nat, NEW n \in Nat, m <= n, NEW s \in Seq(1..m)
  PROVE  s \in Seq(1..n) /\ s \in Seq(Nat)
BY SeqMonotonic

LEMMA AppendType ==
  ASSUME NEW S, NEW s \in Seq(S), NEW e \in S
  PROVE  Append(s, e) \in Seq(S)
OBVIOUS

-----------------------------------------------------------------------------
(***************************************************************************)
(* Types, and what the chunks in hand are.                                 *)
(***************************************************************************)
TypeInv == TypeOK /\ SessionInv

LEMMA SessionInit == Init => TypeInv
<1> SUFFICES ASSUME Init PROVE TypeInv
  OBVIOUS
<1>1. queue \in Seq(1..read) /\ received \in Seq(1..read)
  BY EmptySeq DEF Init
<1>2. TypeOK
  <2>1. written \in Nat /\ read \in 0..written /\ carried \in 0..read
    BY DEF Init
  <2>2. written - read <= Buffer /\ typed \in Nat /\ input \in 0..Buffer
    BY DEF Init
  <2> QED BY <1>1, <2>1, <2>2 DEF Init, TypeOK
<1>3. SessionInv
  BY DEF Init, SessionInv, TaskFinished, Over, EndsWithWebSocket
<1> QED BY <1>2, <1>3 DEF TypeInv

LEMMA SessionReader == TypeInv /\ Reader => TypeInv'
<1> SUFFICES ASSUME TypeInv, Reader PROVE TypeInv'
  OBVIOUS
<1>1. CASE Read
  <2>1. /\ read' = read + 1 /\ read' \in 0..written /\ written - read' <= Buffer
        /\ read \in Nat /\ read' \in Nat /\ read <= read'
    BY <1>1 DEF Read, TypeInv, TypeOK
  <2>2. queue \in Seq(1..read') /\ received \in Seq(1..read')
    BY <2>1, SmallSeqs DEF TypeInv, TypeOK
  <2>3. carried \in 0..read'
    BY <2>1 DEF TypeInv, TypeOK
  <2> QED BY <1>1, <2>1, <2>2, <2>3 DEF Read, TypeInv, TypeOK, SessionInv, TaskFinished,
                                        Over, EndsWithWebSocket
<1>2. CASE ReadEof
  BY <1>2 DEF ReadEof, SlaveOpen, terminal, TypeInv, TypeOK, SessionInv, TaskFinished,
              Over, EndsWithWebSocket
<1>3. CASE Push
  <2>1. Queued \in Seq(1..read)
    <3>1. read \in 1..read
      BY <1>3 DEF Push, TypeInv, TypeOK, SessionInv
    <3> QED BY <3>1, AppendType DEF Queued, TypeInv, TypeOK
  <2>2. queue' \in Seq(1..read) /\ reader' \in {"read", "done"}
          /\ (reader' = "done" => pusher = "done")
    BY <1>3, <2>1 DEF Push, TypeInv, TypeOK
  <2>3. UNCHANGED <<terminal, typed, pusher, carried, puller, session, ws, received>>
    BY <1>3 DEF Push
  <2> QED BY <2>2, <2>3 DEF terminal, TypeInv, TypeOK, SessionInv, TaskFinished,
                            Over, EndsWithWebSocket
<1> QED BY <1>1, <1>2, <1>3 DEF Reader

LEMMA SessionPusher == TypeInv /\ Pusher => TypeInv'
<1> SUFFICES ASSUME TypeInv, Pusher PROVE TypeInv'
  OBVIOUS
<1>1. CASE Recv
  <2>1. Head(queue) \in 1..read /\ Tail(queue) \in Seq(1..read)
    BY <1>1, HeadTailProperties DEF Recv, TypeInv, TypeOK
  <2>2. Head(queue) \in 0..read /\ Head(queue) >= 1
    BY <2>1 DEF TypeInv, TypeOK
  <2>3. /\ carried' = Head(queue) /\ queue' = Tail(queue) /\ pusher' = "send"
        /\ pusher = "recv"
        /\ UNCHANGED <<terminal, typed, reader, puller, session, ws, received>>
    BY <1>1 DEF Recv
  <2> QED BY <2>1, <2>2, <2>3 DEF terminal, TypeInv, TypeOK, SessionInv, TaskFinished,
                                  Over, EndsWithWebSocket
<1>2. CASE RecvEnds
  BY <1>2 DEF RecvEnds, terminal, TypeInv, TypeOK, SessionInv, TaskFinished,
              Over, EndsWithWebSocket
<1>3. CASE Send
  <2>1. received' \in Seq(1..read)
    <3>1. carried \in 1..read
      BY <1>3 DEF Send, TypeInv, TypeOK, SessionInv
    <3>2. Append(received, carried) \in Seq(1..read)
      BY <3>1, AppendType DEF TypeInv, TypeOK
    <3> QED BY <1>3, <3>2 DEF Send, TypeInv, TypeOK
  <2>2. queue' \in Seq(1..read)
    <3>1. <<>> \in Seq(1..read)
      BY EmptySeq
    <3> QED BY <1>3, <3>1 DEF Send, TypeInv, TypeOK
  <2>3. /\ pusher = "send" /\ carried' = 0 /\ pusher' \in {"recv", "done"} /\ (pusher' = "done" => ws = "closed")
        /\ UNCHANGED <<terminal, typed, reader, puller, session, ws>>
    BY <1>3 DEF Send
  <2>4. TypeOK'
    BY <2>1, <2>2, <2>3 DEF terminal, TypeInv, TypeOK
  <2>5. SessionInv'
    BY <2>3 DEF terminal, TypeInv, TypeOK, SessionInv, TaskFinished, Over, EndsWithWebSocket
  <2> QED BY <2>4, <2>5 DEF TypeInv
<1> QED BY <1>1, <1>2, <1>3 DEF Pusher

LEMMA SessionPuller == TypeInv /\ Puller => TypeInv'
<1> SUFFICES ASSUME TypeInv, Puller PROVE TypeInv'
  OBVIOUS
<1> USE DEF TypeInv, TypeOK, SessionInv, TaskFinished, Over, EndsWithWebSocket, terminal
<1>1. CASE NextInput
  BY <1>1 DEF NextInput
<1>2. CASE NextClosed
  BY <1>2 DEF NextClosed
<1>3. CASE WriteInput
  <2>1. /\ input' \in 0..Buffer /\ puller' \in {"next", "drop"}
        /\ (puller' = "drop" => ~SlaveOpen)
    BY <1>3 DEF WriteInput, HasRoom
  <2>2. puller' = "drop" => ws = "closed"
    BY <2>1 DEF SlaveOpen
  <2>3. UNCHANGED <<shell, background, slave, written, read, typed, queue, reader,
                    pusher, carried, session, ws, received>>
    BY <1>3 DEF WriteInput
  <2> QED BY <2>1, <2>2, <2>3
<1>4. CASE DropWriter
  BY <1>4 DEF DropWriter, HasRoom
<1> QED BY <1>1, <1>2, <1>3, <1>4 DEF Puller

LEMMA SessionSession == TypeInv /\ Session => TypeInv'
<1> SUFFICES ASSUME TypeInv, Session PROVE TypeInv'
  OBVIOUS
<1> USE DEF TypeInv, TypeOK, SessionInv, TaskFinished, Over, EndsWithWebSocket, terminal
<1>1. CASE Select
  BY <1>1 DEF Select
<1>2. CASE Kill
  BY <1>2 DEF Kill
<1>3. CASE Wait
  BY <1>3 DEF Wait, Return, SlaveAtReturn
<1> QED BY <1>1, <1>2, <1>3 DEF Session

LEMMA SessionWorld == TypeInv /\ (World \/ UNCHANGED vars) => TypeInv'
<1> SUFFICES ASSUME TypeInv, World \/ UNCHANGED vars PROVE TypeInv'
  OBVIOUS
<1> USE DEF TypeInv, TypeOK, SessionInv, TaskFinished, Over, EndsWithWebSocket,
            terminal, tasks
<1>1. CASE Output
  BY <1>1 DEF Output
<1>2. CASE ShellReads
  BY <1>2 DEF ShellReads
<1>3. CASE Background
  BY <1>3 DEF Background
<1>4. CASE ShellExits
  BY <1>4 DEF ShellExits
<1>5. CASE Close
  BY <1>5 DEF Close
<1>6. CASE WaitFails
  BY <1>6 DEF WaitFails, Return, SlaveAtReturn
<1>7. CASE UNCHANGED vars
  BY <1>7 DEF vars
<1> QED BY <1>1, <1>2, <1>3, <1>4, <1>5, <1>6, <1>7 DEF World

LEMMA SessionNext == TypeInv /\ [Next]_vars => TypeInv'
BY SessionReader, SessionPusher, SessionPuller, SessionSession, SessionWorld DEF Next

\* The invariant holds whatever the order in which the thread, the tasks, the
\* shell and the client act.
LEMMA SessionAlways == Spec => []TypeInv
BY SessionInit, SessionNext, PTL DEF Spec

(***************************************************************************)
(* Every variable of a session keeps its type: the terminal never holds    *)
(* more than the kernel's buffers do, and every chunk that is queued or    *)
(* has arrived is one that the thread has read.                            *)
(***************************************************************************)
THEOREM SessionTyped == Spec => []TypeOK
<1>1. TypeInv => TypeOK
  BY DEF TypeInv
<1> QED BY <1>1, SessionAlways, PTL

(***************************************************************************)
(* handle_pty_session selects over its tasks: only the client, by closing  *)
(* its WebSocket, can end it, and never the end of the shell.              *)
(***************************************************************************)
THEOREM EndsWithWebSocketAlways == Spec => []EndsWithWebSocket
<1>1. TypeInv => EndsWithWebSocket
  BY DEF TypeInv, SessionInv
<1> QED BY <1>1, SessionAlways, PTL

-----------------------------------------------------------------------------
(***************************************************************************)
(* The chunks between the terminal and the client: those that arrived, the *)
(* one in the pusher, the channel, the one in the reader.                  *)
(***************************************************************************)
InPusher == IF pusher = "send" THEN <<carried>> ELSE <<>>
InReader == IF reader = "push" THEN <<read>> ELSE <<>>
InTransit == received \o InPusher \o queue \o InReader
Numbered(n) == [i \in 1..n |-> i]

LEMMA TransitType ==
  ASSUME TypeInv
  PROVE  /\ received \in Seq(Nat) /\ queue \in Seq(Nat) /\ read \in Nat /\ carried \in Nat
         /\ InPusher \in Seq(Nat) /\ InReader \in Seq(Nat)
<1>1. received \in Seq(Nat) /\ queue \in Seq(Nat)
  BY SeqMonotonic DEF TypeInv, TypeOK
<1>2. read \in Nat /\ carried \in Nat
  BY DEF TypeInv, TypeOK
<1>3. <<>> \in Seq(Nat) /\ <<carried>> \in Seq(Nat) /\ <<read>> \in Seq(Nat)
  BY <1>2
<1> QED BY <1>1, <1>2, <1>3 DEF InPusher, InReader

\* A sequence is its head and its tail.
LEMMA HeadAndTail ==
  ASSUME NEW s \in Seq(Nat), s # <<>>
  PROVE  s = <<Head(s)>> \o Tail(s) /\ Head(s) \in Nat /\ Tail(s) \in Seq(Nat)
<1>1. /\ Head(s) \in Nat /\ Tail(s) \in Seq(Nat) /\ Len(Tail(s)) = Len(s) - 1
      /\ \A i \in 1 .. Len(Tail(s)) : Tail(s)[i] = s[i + 1]
      /\ Head(s) = s[1]
  BY HeadTailProperties
<1>2. Len(s) \in Nat /\ Len(s) >= 1
  BY EmptySeq
<1>3. <<Head(s)>> \in Seq(Nat) /\ Len(<<Head(s)>>) = 1 /\ <<Head(s)>>[1] = Head(s)
  BY <1>1
<1>4. /\ <<Head(s)>> \o Tail(s) \in Seq(Nat)
      /\ Len(<<Head(s)>> \o Tail(s)) = Len(s)
      /\ \A i \in 1 .. Len(s) : (<<Head(s)>> \o Tail(s))[i]
                               = IF i <= 1 THEN <<Head(s)>>[i] ELSE Tail(s)[i - 1]
  BY <1>1, <1>2, <1>3, ConcatProperties
<1>5. \A i \in 1 .. Len(s) : (<<Head(s)>> \o Tail(s))[i] = s[i]
  <2> SUFFICES ASSUME NEW i \in 1 .. Len(s) PROVE (<<Head(s)>> \o Tail(s))[i] = s[i]
    OBVIOUS
  <2>1. CASE i = 1
    BY <1>1, <1>3, <1>4, <2>1
  <2>2. CASE i # 1
    <3>1. i - 1 \in 1 .. Len(Tail(s)) /\ ~(i <= 1) /\ (i - 1) + 1 = i
      BY <1>1, <1>2, <2>2
    <3> QED BY <1>1, <1>4, <3>1
  <2> QED BY <2>1, <2>2
<1> QED BY <1>1, <1>4, <1>5, SeqEqual

LEMMA NumberedNext ==
  ASSUME NEW n \in Nat
  PROVE  Numbered(n + 1) = Numbered(n) \o <<n + 1>>
<1>1. Numbered(n) \in Seq(Nat) /\ Numbered(n + 1) \in Seq(Nat)
        /\ Len(Numbered(n)) = n /\ Len(Numbered(n + 1)) = n + 1
  BY DEF Numbered
<1>2. /\ Append(Numbered(n), n + 1) \in Seq(Nat)
      /\ Len(Append(Numbered(n), n + 1)) = n + 1
      /\ \A i \in 1 .. n + 1 :
           Append(Numbered(n), n + 1)[i] = IF i <= n THEN Numbered(n)[i] ELSE n + 1
  BY <1>1
<1>3. \A i \in 1 .. n + 1 : Append(Numbered(n), n + 1)[i] = Numbered(n + 1)[i]
  BY <1>2 DEF Numbered
<1>4. Append(Numbered(n), n + 1) = Numbered(n + 1)
  BY <1>1, <1>2, <1>3, SeqEqual
<1>5. n + 1 \in Nat
  OBVIOUS
<1> QED BY <1>1, <1>4, <1>5, AppendIsConcat

LEMMA OrderRead ==
  ASSUME TypeInv, InTransit = Numbered(read), Read
  PROVE  InTransit' = Numbered(read')
<1> DEFINE before == received \o InPusher \o queue
<1>1. /\ InReader = <<>> /\ InReader' = <<read + 1>> /\ InPusher' = InPusher
      /\ UNCHANGED <<received, queue>> /\ read' = read + 1
  BY DEF Read, InReader, InPusher
<1>2. before \in Seq(Nat)
  BY TransitType, ConcatProperties
<1>3. InTransit = before
  BY <1>1, <1>2, ConcatEmptySeq DEF InTransit
<1>4. InTransit' = before \o <<read + 1>>
  BY <1>1 DEF InTransit
<1> QED BY <1>1, <1>3, <1>4, TransitType, NumberedNext

LEMMA OrderPush ==
  ASSUME TypeInv, Push, pusher # "done"
  PROVE  InTransit' = InTransit
<1> DEFINE before == received \o InPusher
<1>1. /\ InReader = <<read>> /\ InReader' = <<>> /\ InPusher' = InPusher
      /\ received' = received /\ queue' = Append(queue, read)
  BY DEF Push, Queued, terminal, InReader, InPusher
<1>2. before \in Seq(Nat) /\ queue \in Seq(Nat) /\ <<read>> \in Seq(Nat)
  BY TransitType, ConcatProperties
<1>3. queue' = queue \o <<read>> /\ queue' \in Seq(Nat)
  BY <1>1, <1>2, TransitType, AppendIsConcat, ConcatProperties
<1>4. before \o queue' \in Seq(Nat)
  BY <1>2, <1>3, ConcatProperties
<1>5. InTransit' = before \o queue'
  BY <1>1, <1>4, ConcatEmptySeq DEF InTransit
<1>6. InTransit = (before \o queue) \o <<read>>
  BY <1>1 DEF InTransit
<1> HIDE DEF before
<1> QED BY <1>2, <1>3, <1>5, <1>6, ConcatAssociative

LEMMA OrderRecv ==
  ASSUME TypeInv, Recv
  PROVE  InTransit' = InTransit
<1>1. /\ queue # <<>> /\ queue' = Tail(queue) /\ received' = received
      /\ InPusher = <<>> /\ InPusher' = <<Head(queue)>> /\ InReader' = InReader
  BY DEF Recv, terminal, InPusher, InReader
<1>2. /\ queue = <<Head(queue)>> \o Tail(queue) /\ Tail(queue) \in Seq(Nat)
      /\ <<Head(queue)>> \in Seq(Nat)
  BY <1>1, TransitType, HeadAndTail
<1>3. received \o <<>> = received
  BY TransitType, ConcatEmptySeq
<1>4. (received \o <<Head(queue)>>) \o Tail(queue)
        = received \o (<<Head(queue)>> \o Tail(queue))
  <2>1. received \in Seq(Nat)
    BY TransitType
  <2> QED BY <1>2, <2>1, ConcatAssociative
<1> QED BY <1>1, <1>2, <1>3, <1>4 DEF InTransit

LEMMA OrderSend ==
  ASSUME TypeInv, Send, ws = "open"
  PROVE  InTransit' = InTransit
<1>1. /\ received' = Append(received, carried) /\ queue' = queue
      /\ InPusher = <<carried>> /\ InPusher' = <<>> /\ InReader' = InReader
  BY DEF Send, terminal, InPusher, InReader
<1>2. received' = received \o <<carried>> /\ <<carried>> \in Seq(Nat)
  BY <1>1, TransitType, AppendIsConcat
<1>3. received' \in Seq(Nat)
  BY <1>2, TransitType, ConcatProperties
<1>4. received' \o <<>> = received'
  BY <1>3, ConcatEmptySeq
<1> QED BY <1>1, <1>2, <1>4 DEF InTransit

LEMMA OrderElse ==
  ASSUME TypeInv, InTransit = Numbered(read),
         ReadEof \/ RecvEnds \/ Puller \/ Session \/ World \/ UNCHANGED vars
  PROVE  InTransit' = Numbered(read')
<1> USE DEF InTransit, InPusher, InReader, terminal
<1>1. CASE ReadEof
  BY <1>1 DEF ReadEof
<1>2. CASE RecvEnds
  BY <1>2 DEF RecvEnds
<1>3. CASE Puller
  BY <1>3 DEF Puller, NextInput, NextClosed, WriteInput, DropWriter
<1>4. CASE Session
  BY <1>4 DEF Session, Select, Kill, Wait, Return
<1>5. CASE World
  BY <1>5 DEF World, Output, ShellReads, Background, ShellExits, Close, WaitFails,
              Return, tasks
<1>6. CASE UNCHANGED vars
  BY <1>6 DEF vars
<1> QED BY <1>1, <1>2, <1>3, <1>4, <1>5, <1>6

LEMMA OrderNext ==
  ASSUME TypeInv, OutputInOrder, [Next]_vars
  PROVE  OutputInOrder'
<1>1. OutputInOrder <=> (ws = "open" => InTransit = Numbered(read))
  BY DEF OutputInOrder, InTransit, InPusher, InReader, Numbered
<1>2. OutputInOrder' <=> (ws' = "open" => InTransit' = Numbered(read'))
  BY DEF OutputInOrder, InTransit, InPusher, InReader, Numbered
<1> SUFFICES ASSUME ws' = "open" PROVE InTransit' = Numbered(read')
  BY <1>2
<1>3. ws = "open"
  BY DEF Next, Reader, Read, ReadEof, Push, Pusher, Recv, RecvEnds, Send, Puller, NextInput,
         NextClosed, WriteInput, DropWriter, Session, Select, Kill, Wait, Return, World,
         Output, ShellReads, Background, ShellExits, Close, WaitFails, vars, TypeInv, TypeOK
<1>4. InTransit = Numbered(read) /\ pusher # "done"
  BY <1>1, <1>3 DEF TypeInv, SessionInv, TaskFinished
<1>5. Push \/ Recv \/ Send => read' = read
  BY DEF Push, Recv, Send, terminal
<1> QED BY <1>3, <1>4, <1>5, OrderRead, OrderPush, OrderRecv, OrderSend, OrderElse
        DEF Next, Reader, Pusher

(***************************************************************************)
(* As long as the connection stands the client has a prefix of what the    *)
(* shell has written, and the rest is on its way in order: nothing is      *)
(* lost, repeated or overtaken between thread, channel and task.           *)
(***************************************************************************)
THEOREM OutputArrivesInOrder == Spec => []OutputInOrder
<1>1. Init => OutputInOrder
  <2> SUFFICES ASSUME Init
               PROVE  <<>> \o <<>> \o <<>> \o <<>> = [i \in 1..0 |-> i]
    BY DEF Init, OutputInOrder
  <2>1. <<>> \in Seq(Nat)
    OBVIOUS
  <2>2. <<>> \o <<>> = <<>>
    BY <2>1, ConcatEmptySeq
  <2>3. [i \in 1..0 |-> i] \in Seq(Nat) /\ Len([i \in 1..0 |-> i]) = 0
    OBVIOUS
  <2>4. [i \in 1..0 |-> i] = <<>>
    BY <2>3, EmptySeq
  <2> QED BY <2>2, <2>4
<1>2. TypeInv /\ OutputInOrder /\ [Next]_vars => OutputInOrder'
  BY OrderNext
<1> QED BY <1>1, <1>2, SessionInit, SessionNext, PTL DEF Spec

=============================================================================
