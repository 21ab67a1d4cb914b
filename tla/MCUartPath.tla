----------------------------- MODULE MCUartPath -----------------------------
(* Distinct characters: a lost, doubled or overtaken one shows. *)
EXTENDS UartPath

MCRxText == <<"a", "b", "c">>
MCTxText == <<"x", "y">>
=============================================================================
