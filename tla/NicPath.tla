------------------------------- MODULE NicPath ------------------------------
(***************************************************************************)
(* The way of network packets between QEMU's network and the simulated     *)
(* device:                                                                 *)
(*                                                                         *)
(*   net_rx_packet -> nic_req -> C_nic_poll -> axis_m -> the device        *)
(*   the device -> axis_s -> C_send_packet -> nic_resp -> net_tx_packet    *)
(*                                                                         *)
(* A packet is the sequence of its bytes, which the stream carries in      *)
(* words of BUSW lanes; tkeep tells the lanes that have a byte.            *)
(* net_rx_packet and net_tx_packet run in QEMU's main loop and everything  *)
(* of the HDL in the simulator's thread; a send to a full socket blocks    *)
(* the thread that makes it.  The device takes a word whenever tvalid is   *)
(* 1: axis_m does not look at its tready.                                  *)
(***************************************************************************)
EXTENDS Naturals, Sequences, FiniteSets

CONSTANTS
  Packet,       \* the packets, sequences of bytes
  ZeroByte,     \* a byte of no packet: what pads the last word
  BUSW,         \* bytes of a word of the stream
  NullBeats,    \* the device sends words without bytes: none, inner, last
  Hwm,          \* frames a socket holds before a send blocks (ZeroMQ's HWM)
  Light,        \* packets one way while any number goes the other way
  MaxRx, MaxTx  \* bounds: packets to the device and from it

Byte == {ZeroByte} \cup UNION {{p[i] : i \in DOMAIN p} : p \in Packet}

ASSUME NicConstants ==
  /\ Packet # {} /\ Packet \subseteq Seq(Byte) \ {<<>>}
  /\ BUSW \in Nat \ {0}
  /\ NullBeats \in {"none", "inner", "last"} /\ Light \in Nat
  /\ Hwm \in Nat \ {0} /\ MaxRx \in Nat /\ MaxTx \in Nat

VARIABLES
  up, rst_n,    \* C_setup_nic_connection was called; tx_axis_aresetn
  nic_req, nic_resp,       \* the sockets
  blocked_rx,   \* the packet net_rx_packet is blocked with, if it is
  blocked_tx,   \* the packet C_send_packet is blocked with, if it is
  m_i_req, m_i_data,       \* of qemu_nic_bridge: what C_nic_poll found
  m_state, r_count, r_data, tvalid, tdata, tkeep, tlast,  \* axis_m
  s_state, r_data_tmp,     \* axis_s
  rxbuf, rxgot, rxput, rxn,   \* the device's receiver; packets sent, received
  src, sent, txgot, txput, txn  \* its sender; QEMU's network

masterVars == <<m_i_req, m_i_data, m_state, r_count, r_data, tvalid, tdata,
                tkeep, tlast>>
slaveVars  == <<s_state, r_data_tmp>>
rxVars     == <<rxbuf, rxgot, rxn>>
vars == <<up, rst_n, nic_req, nic_resp, blocked_rx, blocked_tx, m_i_req, m_i_data,
          m_state, r_count, r_data, tvalid, tdata, tkeep, tlast, s_state, r_data_tmp,
          rxbuf, rxgot, rxput, rxn, src, sent, txgot, txput, txn>>

Bit   == {0, 1}
Lanes == 1..BUSW
aPacket == CHOOSE p \in Packet : TRUE

(* Word n, counted from 0, of a packet in its zeroed frame; the bytes of a *)
(* word that its keep names, in their order.                               *)
Word(p, n) == [i \in Lanes |-> IF n * BUSW + i <= Len(p) THEN p[n * BUSW + i] ELSE ZeroByte]
Kept(word, keep) ==
  LET nth(k) == CHOOSE i \in keep : Cardinality({j \in keep : j <= i}) = k
  IN  [k \in 1..Cardinality(keep) |-> word[nth(k)]]

Init ==
  /\ up = 0 /\ rst_n = 0
  /\ nic_req = <<>> /\ nic_resp = <<>> /\ blocked_rx = <<>> /\ blocked_tx = <<>>
  /\ m_i_req = 0 /\ m_i_data = aPacket
  /\ m_state = "IDLE" /\ r_count = 0 /\ r_data = aPacket
  /\ tvalid = 0 /\ tdata = Word(<<>>, 0) /\ tkeep = {} /\ tlast = 0
  /\ s_state = "IDLE" /\ r_data_tmp = <<>>
  /\ rxbuf = <<>> /\ rxgot = <<>> /\ rxput = 0 /\ rxn = 0
  /\ src = <<>> /\ sent = 0 /\ txgot = <<>> /\ txput = 0 /\ txn = 0

(* The packets on their way in each direction, those half on the stream    *)
(* included.                                                               *)
rxq == (IF m_state = "DATA" THEN <<r_data>>
        ELSE IF m_i_req = 1 THEN <<m_i_data>> ELSE <<>>)
       \o nic_req \o (IF blocked_rx = <<>> THEN <<>> ELSE <<blocked_rx>>)
txq == nic_resp \o (IF blocked_tx = <<>> THEN <<>> ELSE <<blocked_tx>>)
       \o (IF src = <<>> THEN <<>> ELSE <<src>>)

-----------------------------------------------------------------------------
(* QEMU's main loop *)

net_rx_packet(p) ==
  /\ blocked_rx = <<>> /\ rxput < MaxRx /\ Len(txq) <= Light
  /\ rxput' = rxput + 1
  /\ IF up = 1 /\ Len(nic_req) < Hwm
     THEN nic_req' = Append(nic_req, p) /\ UNCHANGED blocked_rx
     ELSE blocked_rx' = p /\ UNCHANGED nic_req
  /\ UNCHANGED <<up, rst_n, nic_resp, blocked_tx, masterVars, slaveVars, rxVars,
                 src, sent, txgot, txput, txn>>

net_rx_sent ==
  /\ blocked_rx # <<>> /\ up = 1 /\ Len(nic_req) < Hwm
  /\ nic_req' = Append(nic_req, blocked_rx) /\ blocked_rx' = <<>>
  /\ UNCHANGED <<up, rst_n, nic_resp, blocked_tx, masterVars, slaveVars, rxVars,
                 rxput, src, sent, txgot, txput, txn>>

(* One turn of its loop. *)
net_tx_packet ==
  /\ blocked_rx = <<>> /\ nic_resp # <<>>
  /\ nic_resp' = Tail(nic_resp)
  /\ txgot' = Head(nic_resp) /\ txn' = txn + 1
  /\ UNCHANGED <<up, rst_n, nic_req, blocked_rx, blocked_tx, masterVars, slaveVars,
                 rxVars, rxput, src, sent, txput>>

-----------------------------------------------------------------------------
(* HDL: what happens at one rising edge of the clock *)

(* C_nic_poll: the words but one, and the lanes of the last word. *)
vlen(size) == IF size % BUSW # 0 THEN size \div BUSW ELSE size \div BUSW - 1
vkeepNone(size) == 1..(size % BUSW)  \* mutant: a full last word has no lanes
vkeep(size) == IF size % BUSW # 0 THEN 1..(size % BUSW) ELSE Lanes

r_len == vlen(Len(r_data))
busy == \/ m_state = "IDLE" /\ m_i_req = 1
        \/ m_state = "DATA" /\ r_count # r_len + 1

(* qemu_nic_bridge and C_nic_poll: also in reset, when what is found stays. *)
Poll ==
  IF busy THEN UNCHANGED <<m_i_req, m_i_data, nic_req>>
  ELSE IF nic_req = <<>> THEN m_i_req' = 0 /\ UNCHANGED <<m_i_data, nic_req>>
  ELSE m_i_req' = 1 /\ m_i_data' = Head(nic_req) /\ nic_req' = Tail(nic_req)

(* axis_m.  The first word goes out whole and without tlast, whatever the  *)
(* length.  Poll assigns m_i_req with a blocking assignment: the edge may  *)
(* see it.                                                                 *)
MasterIdle(req, pkt) ==
  /\ m_state = "IDLE"
  /\ IF req = 1
     THEN /\ m_state' = "DATA" /\ r_data' = pkt /\ r_count' = 1
          /\ tvalid' = 1 /\ tdata' = Word(pkt, 0) /\ tkeep' = Lanes /\ tlast' = 0
     ELSE UNCHANGED <<m_state, r_data, r_count, tvalid, tdata, tkeep, tlast>>

MasterData ==
  /\ m_state = "DATA"
  /\ tdata' = Word(r_data, r_count)
  /\ IF r_count = r_len + 1
     THEN m_state' = "IDLE" /\ tvalid' = 0 /\ UNCHANGED <<r_count, tkeep, tlast>>
     ELSE /\ tvalid' = 1 /\ r_count' = r_count + 1
          /\ tlast' = IF r_count = r_len THEN 1 ELSE 0
          /\ tkeep' = IF r_count = r_len THEN vkeep(Len(r_data)) ELSE Lanes
          /\ UNCHANGED m_state
  /\ UNCHANGED r_data

Master ==
  \/ rst_n = 0 /\ UNCHANGED <<m_state, r_count, r_data, tvalid, tdata, tkeep, tlast>>
  \/ rst_n = 1 /\ MasterIdle(m_i_req, m_i_data)
  \/ rst_n = 1 /\ MasterIdle(m_i_req', m_i_data')
  \/ rst_n = 1 /\ MasterData

(* The device's receiver: external. *)
Receive ==
  LET got == rxbuf \o Kept(tdata, tkeep) IN
  /\ rxbuf' = IF tvalid = 0 THEN rxbuf ELSE IF tlast = 1 THEN <<>> ELSE got
  /\ IF tvalid = 1 /\ tlast = 1
     THEN rxgot' = got /\ rxn' = rxn + 1
     ELSE UNCHANGED <<rxgot, rxn>>

(* What the device's sender may put on the stream: external.  It may leave *)
(* lanes out, anywhere in a packet; a lane left out carries a zero here.   *)
Offer ==
  LET left == Len(src) - sent
      some == {k \in SUBSET Lanes : Cardinality(k) <= left}
      ends(k) == Cardinality(k) = left /\ (k = {} <=> NullBeats = "last")
      keeps == IF NullBeats = "none" THEN some \ {{}} ELSE some
  IN  {[valid |-> 0, keep |-> {}, last |-> FALSE]}
      \cup (IF src = <<>> THEN {}
            ELSE {[valid |-> 1, keep |-> k, last |-> ends(k)] : k \in keeps})
OfferWord(o) ==
  [i \in Lanes |-> IF i \in o.keep
                   THEN src[sent + Cardinality({j \in o.keep : j <= i})] ELSE ZeroByte]
Send(o) ==
  /\ sent' = sent + Cardinality(o.keep)
  /\ src' = IF o.valid = 1 /\ o.last THEN <<>> ELSE src

(* axis_s.  A word without bytes is passed over, its tlast too. *)
n_data_tmpKept(o) ==  \* mutant: n_size is not cleared in IDLE
  r_data_tmp \o Kept(OfferWord(o), o.keep)
n_data_tmp(o) ==
  (IF s_state = "IDLE" THEN <<>> ELSE r_data_tmp) \o Kept(OfferWord(o), o.keep)
send_pkt(o) == o.valid = 1 /\ o.keep # {} /\ o.last
Slave(o) ==
  IF rst_n = 0 THEN s_state' = "IDLE" /\ r_data_tmp' = <<>>
  ELSE /\ r_data_tmp' = n_data_tmp(o)
       /\ s_state' = IF o.valid = 0 \/ o.keep = {} THEN s_state
                     ELSE IF o.last THEN "IDLE" ELSE "DATA"

C_send_packetNow(o) ==  \* mutant: a full socket is written to all the same
  IF send_pkt(o)
  THEN nic_resp' = Append(nic_resp, n_data_tmp(o)) /\ UNCHANGED blocked_tx
  ELSE UNCHANGED <<nic_resp, blocked_tx>>
C_send_packetDrop(o) ==  \* mutant: a full socket drops the packet
  IF send_pkt(o) /\ Len(nic_resp) < Hwm
  THEN nic_resp' = Append(nic_resp, n_data_tmp(o)) /\ UNCHANGED blocked_tx
  ELSE UNCHANGED <<nic_resp, blocked_tx>>
(* The thread waits while nic_resp is full. *)
C_send_packet(o) ==
  IF ~send_pkt(o) THEN UNCHANGED <<nic_resp, blocked_tx>>
  ELSE IF Len(nic_resp) < Hwm
  THEN nic_resp' = Append(nic_resp, n_data_tmp(o)) /\ UNCHANGED blocked_tx
  ELSE blocked_tx' = n_data_tmp(o) /\ UNCHANGED nic_resp

posedge(o) ==
  /\ up = 1 /\ blocked_tx = <<>>
  /\ Poll /\ Master /\ Receive
  /\ Send(o) /\ Slave(o) /\ C_send_packet(o)
  /\ UNCHANGED <<up, rst_n, blocked_rx, rxput, txgot, txput, txn>>

Tick == \E o \in Offer : posedge(o)

C_send_sent ==
  /\ blocked_tx # <<>> /\ Len(nic_resp) < Hwm
  /\ nic_resp' = Append(nic_resp, blocked_tx) /\ blocked_tx' = <<>>
  /\ UNCHANGED <<up, rst_n, nic_req, blocked_rx, masterVars, slaveVars, rxVars,
                 rxput, src, sent, txgot, txput, txn>>

(* The initial block of qemu_nic_bridge; until then a send has no peer.    *)
C_setup_nic_connection ==
  /\ up = 0 /\ up' = 1
  /\ UNCHANGED <<rst_n, nic_req, nic_resp, blocked_rx, blocked_tx, masterVars,
                 slaveVars, rxVars, rxput, src, sent, txgot, txput, txn>>

(* The reset ends, the device has a packet to send: external. *)
ResetRelease ==
  /\ up = 1 /\ rst_n = 0 /\ rst_n' = 1
  /\ UNCHANGED <<up, nic_req, nic_resp, blocked_rx, blocked_tx, masterVars,
                 slaveVars, rxVars, rxput, src, sent, txgot, txput, txn>>

StartSend(p) ==
  /\ rst_n = 1 /\ src = <<>> /\ txput < MaxTx /\ Len(rxq) <= Light
  /\ src' = p /\ sent' = 0 /\ txput' = txput + 1
  /\ UNCHANGED <<up, rst_n, nic_req, nic_resp, blocked_rx, blocked_tx, masterVars,
                 slaveVars, rxVars, rxput, txgot, txn>>

Next ==
  \/ \E p \in Packet : net_rx_packet(p)
  \/ net_rx_sent
  \/ net_tx_packet
  \/ Tick
  \/ C_send_sent
  \/ C_setup_nic_connection
  \/ ResetRelease
  \/ \E p \in Packet : StartSend(p)

Spec == Init /\ [][Next]_vars

(* The clock runs and the reset ends, QEMU's main loop serves its sockets, *)
(* a send goes through when there is room, the device sends the words of a *)
(* packet it has begun.                                                    *)
Offers == \E o \in Offer : o.keep # {} /\ posedge(o)
FairSpec ==
  /\ Spec
  /\ WF_vars(Tick) /\ WF_vars(C_setup_nic_connection) /\ WF_vars(ResetRelease)
  /\ WF_vars(net_tx_packet)
  /\ WF_vars(net_rx_sent) /\ WF_vars(C_send_sent) /\ SF_vars(Offers)

-----------------------------------------------------------------------------
(* The values every variable may have. *)
TypeOK ==
  /\ up \in Bit /\ rst_n \in Bit
  /\ nic_req \in Seq(Packet) /\ nic_resp \in Seq(Seq(Byte))
  /\ Len(nic_req) <= Hwm /\ Len(nic_resp) <= Hwm
  /\ blocked_rx \in Packet \cup {<<>>} /\ blocked_tx \in Seq(Byte)
  /\ m_i_req \in Bit /\ m_i_data \in Packet
  /\ m_state \in {"IDLE", "DATA"} /\ r_data \in Packet /\ r_count \in 0..(r_len + 1)
  /\ tvalid \in Bit /\ tdata \in [Lanes -> Byte] /\ tkeep \subseteq Lanes /\ tlast \in Bit
  /\ s_state \in {"IDLE", "DATA"} /\ r_data_tmp \in Seq(Byte)
  /\ rxbuf \in Seq(Byte) /\ rxgot \in Seq(Byte) /\ src \in Packet \cup {<<>>}
  /\ sent \in Nat /\ txgot \in Seq(Byte)
  /\ rxput \in 0..MaxRx /\ txput \in 0..MaxTx /\ rxn \in Nat /\ txn \in Nat

(* Packets from QEMU reach the device whole, once and in order, although   *)
(* one is polled while the one before is still on the stream, and the end  *)
(* of a packet within its last word is known from its size only.           *)
Rx == INSTANCE PacketChannel WITH q <- rxq, got <- rxgot
RxSpec == Rx!Spec

(* Packets of the device reach QEMU's network whole, once and in order,    *)
(* although axis_s gathers a packet byte by byte in one register, from     *)
(* words with lanes left out and words without bytes in between.           *)
Tx == INSTANCE PacketChannel WITH q <- txq, got <- txgot
TxSpec == Tx!Spec

(* Every packet given to either side arrives at the other, although a full *)
(* nic_req stops QEMU's main loop and a full nic_resp the simulator.       *)
NicDelivers ==
  /\ \A n \in 1..MaxRx : (rxput >= n) ~> (rxn >= n)
  /\ \A n \in 1..MaxTx : (txput >= n) ~> (txn >= n)
=============================================================================
