---------------------------- MODULE MCPtySession ----------------------------
(***************************************************************************)
(* Two chunks of input on a buffer of one, so that the terminal can be     *)
(* full; three of output, so that all places on their way can be taken.    *)
(***************************************************************************)
EXTENDS PtySession

MCBuffer == 1
MCMaxOutput == 3
MCMaxInput == 2
=============================================================================
