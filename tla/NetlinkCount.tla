---------------------------- MODULE NetlinkCount ----------------------------
(***************************************************************************)
(* The connection counts of a Linux report: realtime_connections asks the  *)
(* kernel for four dumps, TCP and UDP over IPv4 and IPv6, one after the    *)
(* other, and counts the messages of each answer                           *)
(* (get_info/network/mod.rs, get_info/network/netlink.rs).                 *)
(*                                                                         *)
(* The kernel answers in datagrams of at most a page: some entries, one    *)
(* per connection, and in the last one the message that ends the dump.  An *)
(* answer to a request it refuses is a single NLMSG_ERROR.                 *)
(***************************************************************************)
EXTENDS Naturals

CONSTANTS PerPage,        \* entries that fit into the buffer
          MaxConnections  \* bound of the exploration: entries of one dump

Queries == {"tcp4", "tcp6", "udp4", "udp6"}
Order   == [none |-> "tcp4", tcp4 |-> "tcp6", tcp6 |-> "udp4", udp4 |-> "udp6",
            udp6 |-> "none"]

(* What follows the entries of a datagram: nothing, the end of the dump,   *)
(* an error, or a message whose length cannot be right.                    *)
Endings   == {"nothing", "done", "error", "malformed"}
Datagrams == [entries: Nat, ending: Endings]
NoData    == [entries |-> 0, ending |-> "nothing"]

VARIABLES
  query,     \* which of the four is under way
  pc,        \* where it is
  buf,       \* what has not yet been counted of the last datagram
  msgs,      \* count_netlink_messages: of this datagram
  total,     \* netlink_inet_diag_only_count: of the datagrams before
  count,     \* what the queries have returned; a failed one counts as 0
  tcp, udp,  \* the Connections of the last report
  delivered, \* history: entries the kernel has handed over for this query
  ended,     \* history: how the answer to each query ended
  found      \* history: entries of each answer

vars == <<query, pc, buf, msgs, total, count, tcp, udp, delivered, ended, found>>

TypeOK ==
  /\ query \in Queries \union {"none"}
  /\ pc \in {"ready", "receive", "count"}
  /\ buf \in Datagrams
  /\ msgs \in Nat /\ total \in Nat /\ delivered \in Nat
  /\ count \in [Queries -> Nat] /\ found \in [Queries -> Nat]
  /\ ended \in [Queries -> {"none", "done", "error", "failed"}]
  /\ tcp \in Nat /\ udp \in Nat

Init ==
  /\ query = "none" /\ pc = "ready"
  /\ buf = NoData /\ msgs = 0 /\ total = 0 /\ delivered = 0
  /\ count = [q \in Queries |-> 0] /\ found = [q \in Queries |-> 0]
  /\ ended = [q \in Queries |-> "none"]
  /\ tcp = 0 /\ udp = 0

-----------------------------------------------------------------------------
\* The next of the four queries: a socket of its own, and its request.
Ask ==
  /\ pc = "ready"
  /\ Order[query] # "none"
  /\ query' = Order[query]
  /\ pc' = "receive"
  /\ buf' = NoData /\ msgs' = 0 /\ total' = 0 /\ delivered' = 0
  /\ UNCHANGED <<count, tcp, udp, ended, found>>

\* A query returns: Ok with its count, or Err, which unwrap_or makes 0.
Return(result, how) ==
  /\ count' = [count EXCEPT ![query] = result]
  /\ ended' = [ended EXCEPT ![query] = how]
  /\ found' = [found EXCEPT ![query] = delivered]
  /\ pc' = "ready"
  /\ UNCHANGED <<query, buf, msgs, total, tcp, udp, delivered>>

\* socket, sendto or recvfrom fails, or what is received has no whole header.
CallFails == pc = "receive" /\ Return(0, "failed")

\* The next datagram of the kernel's answer.
Receive ==
  /\ pc = "receive"
  /\ \E n \in 0..PerPage, ending \in Endings :
       /\ n > 0 \/ ending # "nothing"
       /\ delivered + n <= MaxConnections
       /\ ending = "error" => delivered + n = 0
       /\ buf' = [entries |-> n, ending |-> ending]
       /\ delivered' = delivered + n
  /\ pc' = "count"
  /\ msgs' = 0
  /\ UNCHANGED <<query, total, count, tcp, udp, ended, found>>

CountEntry ==
  /\ pc = "count"
  /\ buf.entries > 0
  /\ buf' = [buf EXCEPT !.entries = @ - 1]
  /\ msgs' = msgs + 1
  /\ UNCHANGED <<query, pc, total, count, tcp, udp, delivered, ended, found>>

\* The datagram is read to its end without an end of the dump.
NextDatagram ==
  /\ pc = "count"
  /\ buf = NoData
  /\ total' = total + msgs
  /\ pc' = "receive"
  /\ UNCHANGED <<query, buf, msgs, count, tcp, udp, delivered, ended, found>>

\* NLMSG_DONE or NLMSG_ERROR ends the loop; it has been counted by then.
CountEnding ==
  /\ pc = "count"
  /\ buf.entries = 0
  /\ buf.ending \in {"done", "error"}
  /\ Return(total + msgs + 1, buf.ending)

\* A header whose length is too small, or beyond the buffer: EINVAL.
Malformed ==
  /\ pc = "count"
  /\ buf.entries = 0
  /\ buf.ending = "malformed"
  /\ Return(0, "failed")

\* All four are back: the numbers of the report.
Report ==
  /\ pc = "ready"
  /\ query = "udp6"
  /\ query' = "none"
  /\ tcp' = count["tcp4"] + count["tcp6"]
  /\ udp' = count["udp4"] + count["udp6"]
  /\ UNCHANGED <<pc, buf, msgs, total, count, delivered, ended, found>>

Next ==
  \/ Ask \/ CallFails \/ Receive \/ CountEntry \/ NextDatagram
  \/ CountEnding \/ Malformed \/ Report

Spec == Init /\ [][Next]_vars

-----------------------------------------------------------------------------
(***************************************************************************)
(* What a query returns does not depend on how the kernel cuts its answer  *)
(* into datagrams: it is the connections and one more, for the message     *)
(* that ends the dump is counted too.  A refused query (a protocol the     *)
(* kernel does not have) so counts as one connection, a failed one as 0,   *)
(* and either number of a report is too high by up to two.                 *)
(***************************************************************************)
CountsOneTooMany ==
  \A q \in Queries :
    /\ ended[q] \in {"done", "error"} => count[q] = found[q] + 1
    /\ ended[q] = "error" => count[q] = 1
    /\ ended[q] = "failed" => count[q] = 0

(***************************************************************************)
(* Why: nothing that was delivered is counted twice or left out.           *)
(***************************************************************************)
CountInv ==
  /\ pc = "receive" => total = delivered
  /\ pc = "count" =>
       /\ total + msgs + buf.entries = delivered
       /\ buf.ending = "error" => delivered = 0
  /\ pc # "ready" => query \in Queries

=============================================================================
