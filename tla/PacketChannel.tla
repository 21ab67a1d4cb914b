---------------------------- MODULE PacketChannel ---------------------------
(***************************************************************************)
(* What each direction of the NIC bridge promises, and of the UART, whose  *)
(* packets are characters: whole packets, each once, in the order in which *)
(* they were given to it.                                                  *)
(***************************************************************************)
EXTENDS Sequences

CONSTANT Packet

VARIABLES
  q,    \* the packets on their way
  got   \* the packet that was delivered last, <<>> if none was

vars == <<q, got>>

Init == q = <<>> /\ got = <<>>

Put(p) == q' = Append(q, p) /\ UNCHANGED got

Get == /\ q # <<>>
       /\ got' = Head(q) /\ q' = Tail(q)

Next == (\E p \in Packet : Put(p)) \/ Get

Spec == Init /\ [][Next]_vars
=============================================================================
