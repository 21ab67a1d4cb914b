------------------------------ MODULE UartPath ------------------------------
(***************************************************************************)
(* The way of characters between QEMU's serial backend and the registers   *)
(* of the simulated UART:                                                  *)
(*                                                                         *)
(*   serial_rx -> uart_rx -> C_uart_rx -> axilite_s_r -> a driver          *)
(*   a driver -> axilite_s_w -> C_uart_tx -> uart_tx -> serial_tx          *)
(*                                                                         *)
(* The driver, whatever is the AXI-Lite master, reads and writes the       *)
(* registers at word addresses.  The state is that right after a clock     *)
(* edge: registers, the signals m the master drives, and the outputs of    *)
(* COMBO_READ and COMBO_WRITE that depend on when these blocks ran last.   *)
(* They run when one of their inputs changes, and all inputs are registers *)
(* of one clock.  wready and bvalid are 1 exactly in WRITE_DATA and        *)
(* WRITE_RESPONSE, arready always.  Of STAT_REG only bit 0, data to read,  *)
(* is kept.  A value read is the character in its low byte, <<>> if        *)
(* C_uart_rx left it unset, and bit 0 of STAT_REG.                         *)
(***************************************************************************)
EXTENDS Naturals, Sequences

CONSTANTS
  RxText, TxText,  \* the characters for the driver and those from it
  Polls,         \* the driver reads RX_FIFO only when STAT_REG told it to
  MaxReads,      \* reads the master has in progress at once
  Evals,         \* how often COMBO_READ may run for one change of its inputs
  Hwm,           \* frames a socket holds before a send blocks (ZeroMQ's HWM)
  Light          \* characters one way while any number goes the other way

Char  == {RxText[i] : i \in DOMAIN RxText} \cup {TxText[i] : i \in DOMAIN TxText}
Text  == {<<c>> : c \in Char}

ASSUME UartConstants ==
  /\ RxText \in Seq(Char) \ {<<>>} /\ TxText \in Seq(Char) \ {<<>>} /\ Polls \in BOOLEAN /\ MaxReads \in Nat \ {0}
  /\ Evals # {} /\ Evals \subseteq Nat \ {0}
  /\ Hwm \in Nat \ {0} /\ Light \in Nat

VARIABLES
  up, rst_n,          \* C_setup_uart_connection was called; i_rst_n
  uart_rx, uart_tx,   \* the sockets
  blocked_rx,         \* the frame serial_rx is blocked with, if it is
  blocked_tx,         \* the frame C_uart_tx is blocked with, if it is
  m, asked, writing, told,              \* the master and its driver
  rvalid, rdata, s_rvalid, s_rdata,     \* axilite_s_r
  w_state, awready, awaddr,             \* axilite_s_w
  stat_r, o_stat,                       \* axilite_uart: STAT_REG
  rxgot, rxput, rxn, txgot, txput, txn  \* what was delivered last; counts

regVars == <<rvalid, rdata, w_state, awready, awaddr, stat_r>>
combVars == <<s_rvalid, s_rdata, o_stat>>
driverVars == <<m, asked, writing, told, rxgot, rxn, txput>>
vars == <<up, rst_n, uart_rx, uart_tx, blocked_rx, blocked_tx, m, asked, writing,
          told, rvalid, rdata, s_rvalid, s_rdata, w_state, awready, awaddr,
          stat_r, o_stat, rxgot, rxput, rxn, txgot, txput, txn>>

Bit   == {0, 1}
Reg   == {"RX_FIFO", "TX_FIFO", "STAT_REG", "CTRL_REG"}
Value == [char : {<<>>} \cup Text, stat : Bit]
Unset == [char |-> <<>>, stat |-> 0]

Write == [reg : {"TX_FIFO", "CTRL_REG"}, char : Text, done : BOOLEAN]

Init ==
  /\ up = 0 /\ rst_n = 0
  /\ uart_rx = <<>> /\ uart_tx = <<>> /\ blocked_rx = <<>> /\ blocked_tx = <<>>
  /\ m = [ar |-> 0, araddr |-> "STAT_REG", r |-> 0, aw |-> 0, w |-> 0]
  /\ asked = <<>> /\ writing = <<>> /\ told = FALSE
  /\ rvalid = 0 /\ rdata = Unset /\ s_rvalid = 0 /\ s_rdata = Unset
  /\ w_state = "X" /\ awready = 0 /\ awaddr = "RX_FIFO"
  /\ stat_r = 0 /\ o_stat = 0
  /\ rxgot = <<>> /\ rxput = 0 /\ rxn = 0 /\ txgot = <<>> /\ txput = 0 /\ txn = 0

(* The characters on their way in each direction; a frame is a character.  *)
Popped == IF asked # <<>> /\ Head(asked) = "RX_FIFO" /\ s_rdata.char # <<>>
          THEN <<s_rdata.char>> ELSE <<>>
Unsent == IF writing # <<>> /\ writing[1].reg = "TX_FIFO" /\ ~writing[1].done
          THEN <<writing[1].char>> ELSE <<>>
rxq == Popped \o uart_rx \o (IF blocked_rx = <<>> THEN <<>> ELSE <<blocked_rx>>)
txq == uart_tx \o (IF blocked_tx = <<>> THEN <<>> ELSE <<blocked_tx>>) \o Unsent

-----------------------------------------------------------------------------
(* QEMU's main loop *)

serial_can_rxTwo == 2  \* mutant
serial_can_rx == 1

(* The backend gives up to serial_can_rx characters; they become a frame.  *)
serial_rx(n) ==
  LET buf == SubSeq(RxText, rxput + 1, rxput + n) IN
  /\ blocked_rx = <<>> /\ rxput + n <= Len(RxText) /\ Len(txq) <= Light
  /\ rxput' = rxput + n
  /\ IF up = 1 /\ Len(uart_rx) < Hwm
     THEN uart_rx' = Append(uart_rx, buf) /\ UNCHANGED blocked_rx
     ELSE blocked_rx' = buf /\ UNCHANGED uart_rx
  /\ UNCHANGED <<up, rst_n, uart_tx, blocked_tx, driverVars, regVars, combVars, txgot, txn>>

serial_rx_sent ==
  /\ blocked_rx # <<>> /\ up = 1 /\ Len(uart_rx) < Hwm
  /\ uart_rx' = Append(uart_rx, blocked_rx) /\ blocked_rx' = <<>>
  /\ UNCHANGED <<up, rst_n, uart_tx, blocked_tx, driverVars, regVars, combVars,
                 rxput, txgot, txn>>

(* One turn of its loop.  The backend takes the character. *)
serial_tx ==
  /\ blocked_rx = <<>> /\ uart_tx # <<>>
  /\ uart_tx' = Tail(uart_tx)
  /\ txgot' = Head(uart_tx) /\ txn' = txn + 1
  /\ UNCHANGED <<up, rst_n, uart_rx, blocked_rx, blocked_tx, driverVars, regVars,
                 combVars, rxput>>

-----------------------------------------------------------------------------
(* The AXI-Lite master and its driver: external.  At an edge they see the  *)
(* handshakes of the cycle before and set m, the signals of the next one.  *)

bvalid == IF w_state = "RESPONSE" THEN 1 ELSE 0
wready == IF w_state = "DATA" THEN 1 ELSE 0

TakesR == rvalid = 1 /\ m.r = 1 /\ asked # <<>>
Left == IF TakesR THEN Tail(asked) ELSE asked
Told == IF TakesR /\ Head(asked) = "STAT_REG" THEN rdata.stat = 1
        ELSE told /\ ~(TakesR /\ Head(asked) = "RX_FIFO")
DriverRead(ar, reg) ==
  /\ \/ ar = 0 /\ reg = "STAT_REG" /\ asked' = Left
     \/ /\ ar = 1 /\ rst_n = 1 /\ Len(Left) < MaxReads
        /\ Polls /\ reg = "RX_FIFO" => Told
        /\ asked' = Append(Left, reg)
  /\ told' = Told
  /\ IF TakesR /\ Head(asked) = "RX_FIFO" /\ rdata.char # <<>>
     THEN rxgot' = rdata.char /\ rxn' = rxn + 1
     ELSE UNCHANGED <<rxgot, rxn>>

(* A write to CTRL_REG stands for the writes that print nothing. *)
TakesW == m.w = 1 /\ wready = 1
Begin(reg) ==
  /\ writing = <<>> /\ rst_n = 1
  /\ reg = "TX_FIFO" => txput < Len(TxText) /\ Len(rxq) <= Light
  /\ txput' = IF reg = "TX_FIFO" THEN txput + 1 ELSE txput
  /\ writing' = <<[reg |-> reg, done |-> FALSE,
                   char |-> <<TxText[IF reg = "TX_FIFO" THEN txput + 1 ELSE 1]>>]>>
Carry(aw, w, b) ==
  /\ writing # <<>>
  /\ aw = IF m.aw = 1 /\ awready = 1 THEN 0 ELSE m.aw
  /\ (m.w = 1 /\ ~TakesW => w = 1) /\ (TakesW \/ writing[1].done => w = 0)
  /\ writing' = IF bvalid = 1 /\ b = 1 THEN <<>>
                ELSE <<[writing[1] EXCEPT !.done = @ \/ TakesW]>>
  /\ UNCHANGED txput
DriverWrite(aw, w, b) ==
  \/ writing = <<>> /\ aw = 0 /\ w = 0 /\ UNCHANGED <<writing, txput>>
  \/ aw = 1 /\ \E reg \in {"TX_FIFO", "CTRL_REG"} : Begin(reg)
  \/ Carry(aw, w, b)

-----------------------------------------------------------------------------
(* HDL: what happens at one rising edge of the clock *)

(* The registers of axilite_uart, axilite_s_r and axilite_s_w. *)
Registers(b) ==
  IF rst_n = 0
  THEN /\ rvalid' = 0 /\ rdata' = Unset /\ stat_r' = 0
       /\ w_state' = "IDLE" /\ awready' = 0 /\ awaddr' = "RX_FIFO"
  ELSE /\ rvalid' = s_rvalid /\ rdata' = s_rdata /\ stat_r' = o_stat
       /\ \/ /\ w_state = "IDLE"
             /\ IF m.aw = 1 /\ awready = 1
                THEN w_state' = "DATA" /\ awready' = 0 /\ awaddr' = writing[1].reg
                ELSE awready' = 1 /\ UNCHANGED <<w_state, awaddr>>
          \/ /\ w_state = "DATA"
             /\ w_state' = IF m.w = 1 THEN "RESPONSE" ELSE "DATA"
             /\ awready' = 0 /\ UNCHANGED awaddr
          \/ /\ w_state = "RESPONSE"
             /\ w_state' = IF b = 1 THEN "IDLE" ELSE "RESPONSE"
             /\ awready' = b /\ UNCHANGED awaddr

(* C_uart_rx, called k times: each call takes a frame, if there is one, of *)
(* which the low byte is the first.                                        *)
C_uart_rxPeek(k) ==  \* mutant: the frame stays in the socket
  /\ UNCHANGED uart_rx
  /\ s_rdata' = [Unset EXCEPT !.char = IF uart_rx = <<>> THEN <<>> ELSE <<uart_rx[1][1]>>]
C_uart_rx(k) ==
  /\ uart_rx' = SubSeq(uart_rx, k + 1, Len(uart_rx))
  /\ s_rdata' = [Unset EXCEPT !.char = IF Len(uart_rx) < k THEN <<>> ELSE <<uart_rx[k][1]>>]

(* COMBO_READ.  RX_FIFO is popped when the block runs, not at an edge. *)
ReadInputs == <<rvalid, m.r, m.ar, m.araddr, stat_r>>
COMBO_READ ==
  IF ReadInputs' = ReadInputs THEN UNCHANGED <<s_rvalid, s_rdata, uart_rx>>
  ELSE /\ s_rvalid' = IF m'.ar = 1 THEN 1 ELSE IF m'.r = 1 THEN 0 ELSE rvalid'
       /\ \/ m'.ar = 1 /\ m'.araddr = "RX_FIFO" /\ \E k \in Evals : C_uart_rx(k)
          \/ m'.ar = 1 /\ m'.araddr = "STAT_REG"
             /\ s_rdata' = [Unset EXCEPT !.stat = stat_r'] /\ UNCHANGED uart_rx
          \/ m'.ar = 1 /\ m'.araddr \in {"TX_FIFO", "CTRL_REG"}
             /\ s_rdata' = Unset /\ UNCHANGED uart_rx
          \/ m'.ar = 0 /\ UNCHANGED <<s_rdata, uart_rx>>

(* C_uart_poll: true when there is nothing. *)
C_uart_poll(sock) == sock = <<>>

(* COMBO_WRITE.  It may run at any edge, for a change of bready.  Bit 0,   *)
(* once set, comes back through stat_r.                                    *)
WriteInputs == <<w_state, awready, awaddr, stat_r, m.aw, m.w, writing>>
COMBO_WRITE ==
  \/ WriteInputs' = WriteInputs /\ UNCHANGED o_stat
  \/ \E sock \in {uart_rx, uart_rx'} :
       o_stat' = IF C_uart_poll(sock) THEN 1 ELSE stat_r'

(* C_uart_tx.  The thread waits while uart_tx is full. *)
print == w_state = "DATA" /\ m.w = 1 /\ awaddr = "TX_FIFO"
C_uart_txNow(c) ==  \* mutant: the send does not wait
  uart_tx' = Append(uart_tx, c) /\ UNCHANGED blocked_tx
C_uart_txDrop(c) ==  \* mutant: a full socket drops the character
  /\ uart_tx' = IF Len(uart_tx) < Hwm THEN Append(uart_tx, c) ELSE uart_tx
  /\ UNCHANGED blocked_tx
C_uart_tx(c) ==
  IF Len(uart_tx) < Hwm
  THEN uart_tx' = Append(uart_tx, c) /\ UNCHANGED blocked_tx
  ELSE blocked_tx' = c /\ UNCHANGED uart_tx

posedge(ar, reg, r, aw, w, b) ==
  /\ up = 1 /\ blocked_tx = <<>>
  /\ m' = [ar |-> ar, araddr |-> reg, r |-> r, aw |-> aw, w |-> w]
  /\ DriverRead(ar, reg) /\ DriverWrite(aw, w, b)
  /\ r = 1 => asked' # <<>>
  /\ Registers(b)
  /\ COMBO_READ /\ COMBO_WRITE
  /\ IF print THEN C_uart_tx(writing[1].char) ELSE UNCHANGED <<uart_tx, blocked_tx>>
  /\ UNCHANGED <<up, rst_n, blocked_rx, rxput, txgot, txn>>

(* A signal that cannot matter in a state has one value only. *)
Seen(c) == IF c THEN Bit ELSE {0}
Tick == \E ar, r, aw \in Bit, w \in Seen(writing # <<>>), b \in Seen(bvalid = 1),
           reg \in Reg : posedge(ar, reg, r, aw, w, b)

C_uart_tx_sent ==
  /\ blocked_tx # <<>> /\ Len(uart_tx) < Hwm
  /\ uart_tx' = Append(uart_tx, blocked_tx) /\ blocked_tx' = <<>>
  /\ UNCHANGED <<up, rst_n, uart_rx, blocked_rx, driverVars, regVars, combVars,
                 rxput, txgot, txn>>

(* The initial block of axilite_uart; until then a send has no peer. *)
C_setup_uart_connection ==
  /\ up = 0 /\ up' = 1
  /\ UNCHANGED <<rst_n, uart_rx, uart_tx, blocked_rx, blocked_tx, driverVars,
                 regVars, combVars, rxput, txgot, txn>>

(* The end of the reset, which lasts an edge at least: external. *)
ResetRelease ==
  /\ up = 1 /\ rst_n = 0 /\ w_state = "IDLE" /\ rst_n' = 1
  /\ UNCHANGED <<up, uart_rx, uart_tx, blocked_rx, blocked_tx, driverVars,
                 regVars, combVars, rxput, txgot, txn>>

Next ==
  \/ \E n \in 1..serial_can_rx : serial_rx(n)
  \/ serial_rx_sent
  \/ serial_tx
  \/ Tick
  \/ C_uart_tx_sent
  \/ C_setup_uart_connection
  \/ ResetRelease

Spec == Init /\ [][Next]_vars

(* Fairness.  The clock runs, the reset ends, QEMU's main loop serves its  *)
(* sockets, a send goes through when there is room.  Again and again the   *)
(* master is ready for all it has asked for, offers what it has begun to   *)
(* send, and asks for the next character, or whether there is one; a       *)
(* driver that reads other registers comes back to these.                  *)
asks == rst_n = 1 /\ Len(Left) < MaxReads
Served ==
  LET w   == writing # <<>> /\ ~TakesW /\ ~writing[1].done
      reg == IF asks /\ (Told \/ ~Polls) THEN "RX_FIFO" ELSE "STAT_REG"
      one(c) == IF c THEN 1 ELSE 0
  IN  \E aw \in Bit : posedge(one(asks), reg, rst_n, aw, one(w), bvalid)
FairSpec ==
  /\ Spec
  /\ WF_vars(Served) /\ SF_vars(asks /\ Served)
  /\ WF_vars(C_setup_uart_connection) /\ WF_vars(ResetRelease)
  /\ WF_vars(serial_rx_sent) /\ WF_vars(serial_tx) /\ WF_vars(C_uart_tx_sent)

-----------------------------------------------------------------------------
(* The values every variable may have. *)
TypeOK ==
  /\ up \in Bit /\ rst_n \in Bit
  /\ uart_rx \in Seq(Text) /\ uart_tx \in Seq(Text)
  /\ Len(uart_rx) <= Hwm /\ Len(uart_tx) <= Hwm
  /\ blocked_rx \in {<<>>} \cup Text /\ blocked_tx \in {<<>>} \cup Text
  /\ m \in [ar : Bit, araddr : Reg, r : Bit, aw : Bit, w : Bit]
  /\ asked \in Seq(Reg) /\ Len(asked) <= MaxReads /\ told \in BOOLEAN
  /\ writing \in {<<>>} \cup {<<x>> : x \in Write}
  /\ rvalid \in Bit /\ rdata \in Value /\ s_rvalid \in Bit /\ s_rdata \in Value
  /\ w_state \in {"X", "IDLE", "DATA", "RESPONSE"} /\ awready \in Bit /\ awaddr \in Reg
  /\ stat_r \in Bit /\ o_stat \in Bit
  /\ rxgot \in {<<>>} \cup Text /\ txgot \in {<<>>} \cup Text
  /\ rxput \in 0..Len(RxText) /\ txput \in 0..Len(TxText) /\ rxn \in Nat /\ txn \in Nat

(* Characters of the backend reach the driver once and in order, although  *)
(* they are popped whenever a combinational block runs; reads that find    *)
(* nothing may come in between.                                            *)
Rx == INSTANCE PacketChannel WITH Packet <- Text, q <- rxq, got <- rxgot
RxSpec == Rx!Spec

(* Characters of the driver reach the backend once and in order: a write   *)
(* to TX_FIFO that takes several cycles prints once.                       *)
Tx == INSTANCE PacketChannel WITH Packet <- Text, q <- txq, got <- txgot
TxSpec == Tx!Spec

(* Every character arrives at the other side, although a full uart_rx      *)
(* stops QEMU's main loop and a full uart_tx the simulator.                *)
UartDelivers ==
  /\ \A n \in 1..Len(RxText) : (rxput >= n) ~> (rxn >= n)
  /\ \A n \in 1..Len(TxText) : (txput >= n) ~> (txn >= n)
=============================================================================
