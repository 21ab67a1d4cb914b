----------------------------- MODULE MCMmioPath -----------------------------
(* Two BARs of which the second begins one register above the first. *)
EXTENDS MmioPath

MCBarOffset == [b \in Bar |-> b]
=============================================================================
