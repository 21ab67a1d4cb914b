---------------------------- MODULE MCPcieBridge ----------------------------
(* One BAR whose registers follow its base. *)
EXTENDS PcieBridge

MCBarOffset == [b \in Bar |-> b]
=============================================================================
