------------------------------ MODULE MmioPath ------------------------------
(***************************************************************************)
(* The way of one MMIO access from a vCPU to a register of the simulated   *)
(* device and back:                                                        *)
(*                                                                         *)
(*   mmio_read_bar / mmio_write_bar          accelerator_pcie.c            *)
(*     -> qemu_req (ZeroMQ) -> C_poll        dpi-pcie.c, axi4_ip_mod.sv    *)
(*       -> axi4_m_r / axi4_m_w              the two AXI4 masters          *)
(*         -> an AXI slave                   the user's design (external)  *)
(*       -> C_resp_read / C_resp_write       dpi-pcie.c                    *)
(*     -> qemu_resp (ZeroMQ) -> the blocked vCPU                           *)
(*                                                                         *)
(* An access is at most 8 bytes and the bus is at least as wide, so        *)
(* axi_len = 0: every access is one beat.  A vCPU holds QEMU's big lock    *)
(* for the whole access, so that one record, guest, stands for all vCPUs.  *)
(* Neither side looks at ACCData.id: requests and responses carry none.    *)
(* Signals are 0 or 1; a register of the HDL has the name it has there,    *)
(* without r_ and with the master's name where both have one.              *)
(***************************************************************************)
EXTENDS Naturals, Sequences

CONSTANTS
  Bar, Off,      \* the BARs in use and the offsets the guest uses in them
  BarOffset,     \* conf.bar[b].offset, the bus address of the BAR's base
  Data, Zero,    \* values of a register; the value of all-zero bytes
  SlaveKinds,    \* how the slave may handle its ready signals, see Slave
  Others,        \* what else C_poll may find: responses for DmaPath
  MaxIntr,       \* bound: how many receives are interrupted
  MmioInReset    \* whether the guest may access a BAR during the reset

ASSUME MmioConstants ==
  /\ Bar # {} /\ Off # {} /\ Off \subseteq Nat
  /\ BarOffset \in [Bar -> Nat]
  /\ Zero \in Data
  /\ SlaveKinds \subseteq {"eager", "lazy", "legal"}
  /\ Others \subseteq {"S_RD"} /\ MaxIntr \in Nat
  /\ MmioInReset \in BOOLEAN

VARIABLES
  guest,         \* what the vCPU is doing: its last access, and whether it waits
  qemu_req,      \* frames sent by QEMU and not yet polled by HDL
  qemu_resp,     \* frames sent by HDL and not yet received by QEMU
  intr,          \* how many receives have been interrupted
  rst_n,         \* rst_n_out
  bus,           \* addr and data of axi4_ip_mod, which C_poll writes
  req_m_rvalid, req_m_wvalid,
  read_state, r_addr, arvalid,              \* axi4_m_r
  write_state, w_addr, w_data, awvalid, wvalid,  \* axi4_m_w
  kind,          \* the kind of the slave
  s_aw, s_w, s_ar,  \* what the slave has accepted and not yet answered
  mem            \* the registers of the slave

qemuVars  == <<guest, intr>>
readVars  == <<read_state, r_addr, arvalid>>
writeVars == <<write_state, w_addr, w_data, awvalid, wvalid>>
reqVars   == <<bus, req_m_rvalid, req_m_wvalid>>
slaveVars == <<s_aw, s_w, s_ar, mem>>
hdlVars   == <<readVars, writeVars, reqVars, slaveVars>>
vars == <<guest, intr, qemu_req, qemu_resp, rst_n, kind, bus, req_m_rvalid,
          req_m_wvalid, read_state, r_addr, arvalid, write_state, w_addr,
          w_data, awvalid, wvalid, s_aw, s_w, s_ar, mem>>

(* C_poll: addr = acc_data->address + conf.bar[acc_data->bar_num].offset *)
BusAddr(b, o) == BarOffset[b] + o
Register == {BusAddr(b, o) : b \in Bar, o \in Off}

Op  == {"READ", "WRITE"}
Bit == {0, 1}

Init ==
  /\ guest \in [pc : {"run"}, op : Op, bar : Bar, off : Off, val : {Zero}]
  /\ qemu_req = <<>> /\ qemu_resp = <<>>
  /\ intr = 0
  /\ rst_n = 0
  /\ bus = [addr |-> 0, val |-> Zero]
  /\ req_m_rvalid = 0 /\ req_m_wvalid = 0
  /\ read_state = "IDLE" /\ r_addr = 0 /\ arvalid = 0
  /\ write_state = "IDLE" /\ w_addr = 0 /\ w_data = Zero
  /\ awvalid = 0 /\ wvalid = 0
  /\ kind \in SlaveKinds
  /\ s_aw = <<>> /\ s_w = <<>> /\ s_ar = <<>>
  /\ mem = [a \in Register |-> Zero]

-----------------------------------------------------------------------------
(* QEMU *)

(* mmio_read_bar and mmio_write_bar up to the blocking receive: the frame  *)
(* is sent whatever responses are still waiting in qemu_resp.              *)
mmio_send(op, b, o, v) ==
  /\ guest.pc = "run"
  /\ rst_n = 1 \/ MmioInReset
  /\ guest' = [pc |-> "wait", op |-> op, bar |-> b, off |-> o, val |-> v]
  /\ qemu_req' = Append(qemu_req, [op |-> op, bar |-> b, off |-> o, val |-> v])
  /\ UNCHANGED <<qemu_resp, intr, rst_n, kind, hdlVars>>

mmio_read_bar(b, o)     == mmio_send("READ", b, o, Zero)
mmio_write_bar(b, o, v) == mmio_send("WRITE", b, o, v)

(* The access is over; v is what a read returns. *)
Returned(v) == [pc |-> "run", op |-> guest.op, bar |-> guest.bar, off |-> guest.off,
                val |-> IF guest.op = "READ" THEN v ELSE guest.val]

(* acc_zframe_recv_logged returns a frame: the first one, its id and kind  *)
(* unchecked.  A read returns its data, a write drops it.                  *)
mmio_returnKeep ==  \* mutant: a write leaves its response in the socket
  /\ guest.pc = "wait" /\ qemu_resp # <<>>
  /\ guest' = Returned(Head(qemu_resp))
  /\ qemu_resp' = IF guest.op = "READ" THEN Tail(qemu_resp) ELSE qemu_resp
  /\ UNCHANGED <<qemu_req, intr, rst_n, kind, hdlVars>>
mmio_return ==
  /\ guest.pc = "wait" /\ qemu_resp # <<>>
  /\ guest' = Returned(Head(qemu_resp))
  /\ qemu_resp' = Tail(qemu_resp)
  /\ UNCHANGED <<qemu_req, intr, rst_n, kind, hdlVars>>

(* It returns NULL: a signal interrupted the receive, or the poller was    *)
(* terminated.  The request is not withdrawn; a read returns 0.            *)
mmio_interrupted ==
  /\ guest.pc = "wait" /\ intr < MaxIntr
  /\ guest' = Returned(Zero)
  /\ intr' = intr + 1
  /\ UNCHANGED <<qemu_req, qemu_resp, rst_n, kind, hdlVars>>

-----------------------------------------------------------------------------
(* HDL: what happens at one rising edge of the clock *)

(* What C_poll takes from a request: the bus address, and the data of a    *)
(* write; a read leaves the data of the last write where it is.            *)
PollAddrTwice(r) == BusAddr(r.bar, r.off) + BarOffset[r.bar]  \* mutant
PollAddrNoBar(r) == r.off                                     \* mutant
PollAddr(r) == BusAddr(r.bar, r.off)

PollDataStale(r) == bus.val                                   \* mutant
PollData(r) == IF r.op = "READ" THEN bus.val ELSE r.val

(* C_poll and the always block that calls it: one frame per edge, in reset *)
(* too.  It finds what there is in qemu_req,                               *)
Poll ==
  IF qemu_req = <<>>
  THEN /\ req_m_rvalid' = 0 /\ req_m_wvalid' = 0
       /\ UNCHANGED <<bus, qemu_req>>
  ELSE LET r == Head(qemu_req) IN
       /\ qemu_req' = Tail(qemu_req)
       /\ req_m_rvalid' = IF r.op = "READ" THEN 1 ELSE 0
       /\ req_m_wvalid' = IF r.op = "READ" THEN 0 ELSE 1
       /\ bus' = [addr |-> PollAddr(r), val |-> PollData(r)]

(* or the response to a DMA read, which it copies to data.                 *)
PollOther ==
  /\ "S_RD" \in Others
  /\ req_m_rvalid' = 0 /\ req_m_wvalid' = 0
  /\ \E v \in Data : bus' = [addr |-> bus.addr, val |-> v]
  /\ UNCHANGED qemu_req

C_poll == Poll \/ PollOther

(* The masters latch bus at the edge after the one that raised req_valid;  *)
(* C_poll assigns it at that same edge with blocking assignments, so they  *)
(* may see the old or the new value.                                       *)
Latched == {bus, bus'}

(* axi4_m_r.  Its rready is 1 exactly in READ_DATA. *)
MasterRead(arready, rvalid) ==
  \/ /\ rst_n = 0
     /\ read_state' = "IDLE" /\ r_addr' = 0 /\ arvalid' = 0
  \/ /\ rst_n = 1 /\ read_state = "IDLE" /\ req_m_rvalid = 0
     /\ UNCHANGED readVars
  \/ /\ rst_n = 1 /\ read_state = "IDLE" /\ req_m_rvalid = 1
     /\ read_state' = "DATA" /\ arvalid' = 1
     /\ \E b \in Latched : r_addr' = b.addr
  \/ /\ rst_n = 1 /\ read_state = "DATA"
     /\ arvalid' = IF arready = 1 THEN 0 ELSE arvalid
     /\ read_state' = IF rvalid = 1 THEN "IDLE" ELSE "DATA"
     /\ UNCHANGED r_addr

(* axi4_m_w.  r_m_wdata is w_data whenever wvalid is 1.  WRITE_DATA ends   *)
(* when wready is 1, whatever wvalid is; awvalid is only cleared there.    *)
MasterWrite(awready, wready, bvalid) ==
  \/ /\ rst_n = 0
     /\ write_state' = "IDLE" /\ w_addr' = 0 /\ w_data' = Zero
     /\ awvalid' = 0 /\ wvalid' = 0
  \/ /\ rst_n = 1 /\ write_state = "IDLE" /\ req_m_wvalid = 0
     /\ UNCHANGED writeVars
  \/ /\ rst_n = 1 /\ write_state = "IDLE" /\ req_m_wvalid = 1
     /\ write_state' = "DATA" /\ awvalid' = 1
     /\ \E b \in Latched : w_addr' = b.addr /\ w_data' = b.val
     /\ UNCHANGED wvalid
  \/ /\ rst_n = 1 /\ write_state = "DATA"
     /\ awvalid' = IF awready = 1 THEN 0 ELSE awvalid
     /\ wvalid' = 1
     /\ write_state' = IF wready = 1 THEN "RESPONSE" ELSE "DATA"
     /\ UNCHANGED <<w_addr, w_data>>
  \/ /\ rst_n = 1 /\ write_state = "RESPONSE"
     /\ wvalid' = 0
     /\ write_state' = IF bvalid = 1 THEN "IDLE" ELSE "RESPONSE"
     /\ UNCHANGED <<w_addr, w_data, awvalid>>

(* C_resp_read sends the data of the R beat; C_resp_write, which runs on   *)
(* any bvalid, sends an uninitialised frame.  Two calls at one edge are in *)
(* separate always blocks: their order is the simulator's.                 *)
RData == mem[Head(s_ar)]
RespondNoWrite(bvalid, rvalid) ==  \* mutant: no C_resp_write
  qemu_resp' = IF rvalid = 1 THEN Append(qemu_resp, RData) ELSE qemu_resp
RespondNoRead(bvalid, rvalid) ==   \* mutant: C_resp_read asks for n_read_state
  qemu_resp' = IF bvalid = 1 THEN Append(qemu_resp, Zero) ELSE qemu_resp
Respond(bvalid, rvalid) ==
  \/ /\ bvalid = 0 /\ rvalid = 0 /\ UNCHANGED qemu_resp
  \/ /\ bvalid = 0 /\ rvalid = 1 /\ qemu_resp' = Append(qemu_resp, RData)
  \/ /\ bvalid = 1 /\ rvalid = 0
     /\ \E junk \in Data : qemu_resp' = Append(qemu_resp, junk)
  \/ /\ bvalid = 1 /\ rvalid = 1
     /\ \E junk \in Data : \/ qemu_resp' = Append(Append(qemu_resp, junk), RData)
                           \/ qemu_resp' = Append(Append(qemu_resp, RData), junk)

(* The slave.  It takes a beat when valid and ready are both 1, answers a  *)
(* write it has both parts of and a read it has the address of, and        *)
(* performs each when it answers.  Its ready signals:                      *)
(*   eager  are 1 in every cycle;                                          *)
(*   lazy   wready only for a W beat that is there and whose address it    *)
(*          has or is taking, one write at a time; the others at will;     *)
(*   legal  at will, as the AXI protocol allows.                           *)
ReadyRule(awready, wready, arready) ==
  CASE kind = "eager" -> awready = 1 /\ wready = 1 /\ arready = 1
    [] kind = "lazy"  -> wready = 1 =>
                           /\ wvalid = 1 /\ s_w = <<>>
                           /\ s_aw # <<>> \/ (awvalid = 1 /\ awready = 1)
    [] kind = "legal" -> TRUE

Taken(q, c, x) == IF c THEN Append(q, x) ELSE q
Answered(q, c) == IF c THEN Tail(q) ELSE q

Slave(awready, wready, arready, bvalid, rvalid) ==
  /\ ReadyRule(awready, wready, arready)
  /\ bvalid = 1 => s_aw # <<>> /\ s_w # <<>>
  /\ rvalid = 1 => s_ar # <<>> /\ read_state = "DATA"
  /\ s_aw' = Taken(Answered(s_aw, bvalid = 1), awvalid = 1 /\ awready = 1, w_addr)
  /\ s_w'  = Taken(Answered(s_w, bvalid = 1), wvalid = 1 /\ wready = 1, w_data)
  /\ s_ar' = Taken(Answered(s_ar, rvalid = 1), arvalid = 1 /\ arready = 1, r_addr)
  /\ mem'  = IF bvalid = 1 THEN [mem EXCEPT ![Head(s_aw)] = Head(s_w)] ELSE mem

posedge(awready, wready, arready, bvalid, rvalid) ==
  /\ C_poll
  /\ MasterRead(arready, rvalid)
  /\ MasterWrite(awready, wready, bvalid)
  /\ Slave(awready, wready, arready, bvalid, rvalid)
  /\ Respond(bvalid, rvalid)
  /\ UNCHANGED <<guest, intr, rst_n, kind>>

Tick == \E aw, w, ar, b, r \in Bit : posedge(aw, w, ar, b, r)

(* The initial block of axi4_ip_mod that ends the reset. *)
ResetRelease ==
  /\ rst_n = 0
  /\ rst_n' = 1
  /\ UNCHANGED <<guest, intr, qemu_req, qemu_resp, kind, hdlVars>>

(* The user's design changes one of its registers by itself. *)
DeviceStep(a, v) ==
  /\ mem' = [mem EXCEPT ![a] = v]
  /\ UNCHANGED <<guest, intr, qemu_req, qemu_resp, rst_n, kind, readVars,
                 writeVars, reqVars, s_aw, s_w, s_ar>>

Next ==
  \/ \E b \in Bar, o \in Off : mmio_read_bar(b, o)
  \/ \E b \in Bar, o \in Off, v \in Data : mmio_write_bar(b, o, v)
  \/ mmio_return
  \/ mmio_interrupted
  \/ Tick
  \/ ResetRelease
  \/ \E a \in Register, v \in Data : DeviceStep(a, v)

Spec == Init /\ [][Next]_vars

(* Fairness.  The simulator's clock runs, its reset ends, a vCPU whose     *)
(* frame has arrived is scheduled.  The slave, on each channel by itself,  *)
(* eventually takes what is offered and answers what it has taken.         *)
TakesAW == awvalid = 1 /\ \E w, ar, b, r \in Bit : posedge(1, w, ar, b, r)
TakesW  == wvalid = 1 /\ \E aw, ar, b, r \in Bit : posedge(aw, 1, ar, b, r)
TakesAR == arvalid = 1 /\ \E aw, w, b, r \in Bit : posedge(aw, w, 1, b, r)
GivesB  == \E aw, w, ar, r \in Bit : posedge(aw, w, ar, 1, r)
GivesR  == \E aw, w, ar, b \in Bit : posedge(aw, w, ar, b, 1)

FairSpec ==
  /\ Spec
  /\ WF_vars(Tick) /\ WF_vars(ResetRelease) /\ WF_vars(mmio_return)
  /\ WF_vars(TakesAW) /\ WF_vars(TakesW) /\ WF_vars(TakesAR)
  /\ WF_vars(GivesB) /\ WF_vars(GivesR)

-----------------------------------------------------------------------------
(* Properties *)

Frame == [op : Op, bar : Bar, off : Off, val : Data]

(* The values every variable may have. *)
TypeOK ==
  /\ guest \in [pc : {"run", "wait"}, op : Op, bar : Bar, off : Off, val : Data]
  /\ qemu_req \in Seq(Frame) /\ qemu_resp \in Seq(Data)
  /\ intr \in 0..MaxIntr
  /\ rst_n \in Bit /\ req_m_rvalid \in Bit /\ req_m_wvalid \in Bit
  /\ bus \in [addr : Register \cup {0}, val : Data]
  /\ read_state \in {"IDLE", "DATA"} /\ r_addr \in Register \cup {0} /\ arvalid \in Bit
  /\ write_state \in {"IDLE", "DATA", "RESPONSE"}
  /\ w_addr \in Register \cup {0} /\ w_data \in Data /\ awvalid \in Bit /\ wvalid \in Bit
  /\ kind \in SlaveKinds
  /\ s_aw \in Seq(Register) /\ s_ar \in Seq(Register) /\ s_w \in Seq(Data)
  /\ mem \in [Register -> Data]

(* The accesses between the two sockets of QEMU: queued, polled, in one of *)
(* the masters, answered.                                                  *)
InRead  == IF read_state = "IDLE" THEN 0 ELSE 1
InWrite == IF write_state = "IDLE" THEN 0 ELSE 1
Outstanding == Len(qemu_req) + req_m_rvalid + req_m_wvalid + InRead + InWrite
               + Len(qemu_resp)
Waiting == IF guest.pc = "wait" THEN 1 ELSE 0

(* A vCPU blocked in the receive of mmio_read_bar or mmio_write_bar has    *)
(* something to wait for, although a master drops a request that is polled *)
(* while it is busy.                                                       *)
AnswerComing == Waiting <= Outstanding

(* HDL sends one response per request: what is on its way is what is being *)
(* waited for and what interrupted receives have left behind.              *)
OneAnswerEach == Outstanding <= Waiting + intr

(* An access that returns with a response returns after HDL has polled its *)
(* request, not with a response to an earlier one.                         *)
ReturnsAfterPoll ==
  [][mmio_return => qemu_req = <<>>]_vars

(* Every access comes back. *)
MmioReturns == guest.pc = "wait" ~> guest.pc = "run"

(* Where the one access in progress is. *)
PollIdle  == qemu_req = <<>> /\ req_m_rvalid = 0 /\ req_m_wvalid = 0
ReadIdle  == read_state = "IDLE" /\ arvalid = 0 /\ s_ar = <<>>
WriteIdle == write_state = "IDLE" /\ awvalid = 0 /\ wvalid = 0
             /\ s_aw = <<>> /\ s_w = <<>>
Idle == PollIdle /\ ReadIdle /\ WriteIdle

Request == [op |-> guest.op, bar |-> guest.bar, off |-> guest.off, val |-> guest.val]
Target  == BusAddr(guest.bar, guest.off)

AtQueue ==
  /\ qemu_req = <<Request>> /\ req_m_rvalid = 0 /\ req_m_wvalid = 0
  /\ ReadIdle /\ WriteIdle /\ qemu_resp = <<>>
AtPoll ==
  /\ qemu_req = <<>> /\ ReadIdle /\ WriteIdle /\ qemu_resp = <<>>
  /\ bus.addr = Target
  /\ \/ guest.op = "READ" /\ req_m_rvalid = 1 /\ req_m_wvalid = 0
     \/ guest.op = "WRITE" /\ req_m_rvalid = 0 /\ req_m_wvalid = 1
        /\ bus.val = guest.val
AtRead ==
  /\ PollIdle /\ WriteIdle /\ qemu_resp = <<>>
  /\ guest.op = "READ" /\ read_state = "DATA" /\ r_addr = Target
  /\ \/ arvalid = 1 /\ s_ar = <<>>
     \/ arvalid = 0 /\ s_ar = <<Target>>
AtWrite ==
  /\ PollIdle /\ ReadIdle /\ qemu_resp = <<>>
  /\ guest.op = "WRITE" /\ w_addr = Target /\ w_data = guest.val
  /\ \/ /\ write_state = "DATA" /\ s_w = <<>>
        /\ \/ awvalid = 1 /\ s_aw = <<>>
           \/ awvalid = 0 /\ s_aw = <<Target>> /\ kind = "lazy"
        /\ kind = "eager" => wvalid = 0
     \/ /\ write_state = "RESPONSE" /\ awvalid = 0 /\ s_aw = <<Target>>
        /\ \/ s_w = <<guest.val>> /\ (kind = "eager" => wvalid = 0)
           \/ s_w = <<>> /\ wvalid = 1 /\ kind = "eager"
AtAnswer ==
  /\ Idle /\ \E v \in Data : qemu_resp = <<v>>

(* When no receive is interrupted, an access is always at exactly one      *)
(* place between the vCPU that waits for it and the slave, its address and *)
(* value intact, and everything else is idle; between accesses nothing is  *)
(* left anywhere.                                                          *)
OnePlace ==
  /\ guest.pc = "run" => Idle /\ qemu_resp = <<>>
  /\ guest.pc = "wait" =>
       /\ rst_n = 1
       /\ AtQueue \/ AtPoll \/ AtRead \/ AtWrite \/ AtAnswer

(* The bridge implements the memory the guest expects: every access is     *)
(* performed once, on the register it names, between its call and its      *)
(* return, and a read returns that register's value.                       *)
Memory == INSTANCE MmioMemory WITH
            done <- qemu_resp # <<>>,
            res  <- IF qemu_resp # <<>> THEN Head(qemu_resp) ELSE Zero
MemorySpec == Memory!Spec
=============================================================================
