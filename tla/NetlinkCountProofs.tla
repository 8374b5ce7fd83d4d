------------------------- MODULE NetlinkCountProofs -------------------------
(***************************************************************************)
(* The count of a netlink dump, for every number of connections and every  *)
(* way to cut the answer into datagrams.                                   *)
(***************************************************************************)
EXTENDS NetlinkCount, TLAPS

LEMMA CountTypeInit == Init => TypeOK
BY DEF Init, TypeOK, Queries, Datagrams, Endings, NoData

LEMMA ReturnType ==
  ASSUME TypeOK, query \in Queries, NEW result \in Nat,
         NEW how \in {"done", "error", "failed"}, Return(result, how)
  PROVE  TypeOK'
BY DEF Return, TypeOK

LEMMA CountTypeNext == TypeOK /\ CountInv /\ [Next]_vars => TypeOK'
<1> SUFFICES ASSUME TypeOK, CountInv, [Next]_vars PROVE TypeOK'
  OBVIOUS
<1>1. CASE Ask
  BY <1>1 DEF Ask, TypeOK, Queries, Order, Datagrams, Endings, NoData
<1>2. CASE CallFails
  BY <1>2, ReturnType DEF CallFails, CountInv
<1>3. CASE Receive
  BY <1>3 DEF Receive, TypeOK, Datagrams
<1>4. CASE CountEntry
  BY <1>4 DEF CountEntry, TypeOK, Datagrams
<1>5. CASE NextDatagram
  BY <1>5 DEF NextDatagram, TypeOK
<1>6. CASE CountEnding
  BY <1>6, ReturnType DEF CountEnding, CountInv, TypeOK
<1>7. CASE Malformed
  BY <1>7, ReturnType DEF Malformed, CountInv
<1>8. CASE Report
  BY <1>8 DEF Report, TypeOK, Queries
<1>9. CASE UNCHANGED vars
  BY <1>9 DEF TypeOK, vars
<1> QED BY <1>1, <1>2, <1>3, <1>4, <1>5, <1>6, <1>7, <1>8, <1>9 DEF Next

LEMMA CountInvNext == TypeOK /\ CountInv /\ [Next]_vars => CountInv'
<1> SUFFICES ASSUME TypeOK, CountInv, [Next]_vars PROVE CountInv'
  OBVIOUS
<1>1. CASE Ask
  BY <1>1 DEF Ask, CountInv, TypeOK, Queries, Order
<1>2. CASE CallFails \/ CountEnding \/ Malformed
  BY <1>2 DEF CallFails, CountEnding, Malformed, Return, CountInv
<1>3. CASE Receive
  BY <1>3 DEF Receive, CountInv, TypeOK
<1>4. CASE CountEntry
  BY <1>4 DEF CountEntry, CountInv, TypeOK, Datagrams
<1>5. CASE NextDatagram
  BY <1>5 DEF NextDatagram, CountInv, TypeOK, NoData
<1>6. CASE Report
  BY <1>6 DEF Report, CountInv
<1>7. CASE UNCHANGED vars
  BY <1>7 DEF CountInv, vars
<1> QED BY <1>1, <1>2, <1>3, <1>4, <1>5, <1>6, <1>7 DEF Next

LEMMA ReturnCounts ==
  ASSUME TypeOK, CountsOneTooMany, query \in Queries, NEW result, NEW how,
         Return(result, how),
         how \in {"done", "error"} => result = delivered + 1,
         how = "error" => result = 1,
         how = "failed" => result = 0
  PROVE  CountsOneTooMany'
BY DEF Return, TypeOK, CountsOneTooMany

LEMMA CountsNext ==
  TypeOK /\ CountInv /\ CountsOneTooMany /\ [Next]_vars => CountsOneTooMany'
<1> SUFFICES ASSUME TypeOK, CountInv, CountsOneTooMany, [Next]_vars
             PROVE  CountsOneTooMany'
  OBVIOUS
<1>1. CASE CallFails
  BY <1>1, ReturnCounts DEF CallFails, CountInv
<1>2. CASE CountEnding
  <2>1. total + msgs + 1 = delivered + 1 /\ (buf.ending = "error" => delivered = 0)
    BY <1>2 DEF CountEnding, CountInv, TypeOK
  <2>2. /\ Return(total + msgs + 1, buf.ending) /\ query \in Queries
        /\ buf.ending = "error" => total + msgs + 1 = 1
    BY <1>2, <2>1 DEF CountEnding, CountInv, TypeOK
  <2> QED BY <1>2, <2>1, <2>2, ReturnCounts DEF CountEnding
<1>3. CASE Malformed
  BY <1>3, ReturnCounts DEF Malformed, CountInv
<1>4. CASE Ask \/ Receive \/ CountEntry \/ NextDatagram \/ Report \/ UNCHANGED vars
  BY <1>4 DEF Ask, Receive, CountEntry, NextDatagram, Report, vars, CountsOneTooMany
<1> QED BY <1>1, <1>2, <1>3, <1>4 DEF Next

(***************************************************************************)
(* Every query that the kernel answers returns its connections plus one,   *)
(* however many datagrams the answer takes.                                *)
(***************************************************************************)
THEOREM DumpCountsOneTooMany == Spec => []CountsOneTooMany
<1>1. Init => TypeOK /\ CountInv /\ CountsOneTooMany
  BY CountTypeInit DEF Init, CountInv, CountsOneTooMany
<1>2. TypeOK /\ CountInv /\ CountsOneTooMany /\ [Next]_vars
        => TypeOK' /\ CountInv' /\ CountsOneTooMany'
  BY CountTypeNext, CountInvNext, CountsNext
<1> QED BY <1>1, <1>2, PTL DEF Spec

=============================================================================
