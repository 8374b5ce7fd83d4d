----------------------------- MODULE MCReporter -----------------------------
(***************************************************************************)
(* The channel has room for two values; four samples fill it, block the    *)
(* saver and let it go on after a reconnection.                            *)
(***************************************************************************)
EXTENDS Reporter

MCCapacity == 2
MCMaxTotal == 2
MCMaxSamples == 4
MCMaxOutages == 2
=============================================================================
