--------------------------- MODULE MCAgentSession ---------------------------
(***************************************************************************)
(* Two pings, one of them over HTTP, that can meet at the lock and be      *)
(* asked again and again, and a command; two connections, so that the      *)
(* first can end with work left.                                           *)
(***************************************************************************)
EXTENDS AgentSession

CONSTANTS p1, p2, e1

MCRequests == {p1, p2, e1}
MCKind == [r \in MCRequests |-> CASE r = p1 -> "ping" [] r = p2 -> "http" [] r = e1 -> "exec"]
MCMaxConns == 2
=============================================================================
