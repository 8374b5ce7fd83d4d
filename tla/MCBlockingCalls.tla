--------------------------- MODULE MCBlockingCalls ---------------------------
(***************************************************************************)
(* BlockingCalls with two threads, three requests and two identifiers: the *)
(* third echo request has the identifier of the first.                     *)
(***************************************************************************)
EXTENDS BlockingCalls

MCMixes == {<<"icmp", "icmp", "icmp">>, <<"tcp", "icmp", "icmp">>,
            <<"http", "icmp", "http">>, <<"tcp", "exec", "icmp">>,
            <<"terminal", "icmp", "exec">>}
=============================================================================
