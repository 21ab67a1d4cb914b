------------------------------ MODULE DmaPath -------------------------------
(***************************************************************************)
(* The way of the simulated device's accesses to host memory and of its    *)
(* interrupts:                                                             *)
(*                                                                         *)
(*   an AXI master                           the user's design (external)  *)
(*     -> axi4_s_w, axi4_s_r, axi4_s_i       the bridge's slaves           *)
(*       -> C_req_write / _read / _interrupt dpi-pcie.c                    *)
(*     -> hdl_req (ZeroMQ) -> handle_hdl_request  accelerator_pcie.c       *)
(*       -> host memory, MSI-X                                             *)
(*     -> hdl_resp (ZeroMQ) -> C_poll -> axi4_s_r -> the master            *)
(*                                                                         *)
(* Host memory is counted in beats of the bus: a burst of len + 1 beats    *)
(* writes or reads len + 1 words, all their strobes set.  The model begins *)
(* after the reset.  Of the registers, awready, wready, bvalid and arready *)
(* are left out: they are 1 exactly in WRITE_IDLE, WRITE_DATA,             *)
(* WRITE_RESPONSE and READ_IDLE.  The master has one write and one read in *)
(* progress at a time, as the slaves do.                                   *)
(***************************************************************************)
EXTENDS Naturals, Sequences

CONSTANTS
  Addr,         \* words of host memory
  Data, Zero,   \* what a word can hold; the word of zero bytes
  MaxBeats,     \* beats of the longest burst
  Vector,       \* MSI-X vectors
  MasterKinds,  \* how the master may handle its rready, see RreadyRule
  Others,       \* what else C_poll may find: requests of MmioPath
  Hwm,          \* frames hdl_req holds before a send blocks (ZeroMQ's HWM)
  MaxWrites,    \* bound: how many writes the master makes
  MaxPending    \* bound: interrupts in hdl_req at once

ASSUME DmaConstants ==
  /\ Addr \subseteq Nat /\ Addr # {} /\ Zero \in Data
  /\ MaxBeats \in Nat \ {0} /\ Hwm \in Nat \ {0} /\ MaxWrites \in Nat
  /\ MaxPending \in Nat
  /\ MasterKinds \subseteq {"steady", "pausing", "legal"}
  /\ Others \subseteq {"M_RD", "M_WR"}

VARIABLES
  mw, aw, wsent,         \* the master's write: burst, awvalid, beats sent
  mr, ar, beats,         \* its read: span, arvalid, beats received
  kind,                  \* the kind of the master
  write_state, w_addr, w_len, w_cnt, w_data,               \* axi4_s_w
  read_state, r_len, r_cnt, r_data, rvalid, rlast, rdata,  \* axi4_s_r
  data, req_s_rvalid,    \* of axi4_ip_mod: the buffer C_poll writes
  hdl_req, hdl_resp,     \* the sockets
  host, msix,            \* host memory; vectors notified to the guest
  acked, landed          \* writes acknowledged to the master, and in memory

writeVars  == <<write_state, w_addr, w_len, w_cnt, w_data>>
readVars   == <<read_state, r_len, r_cnt, r_data, rvalid, rlast, rdata>>
masterVars == <<mw, aw, wsent, mr, ar, beats>>
vars == <<mw, aw, wsent, mr, ar, beats, kind, write_state, w_addr, w_len, w_cnt,
          w_data, read_state, r_len, r_cnt, r_data, rvalid, rlast, rdata, data,
          req_s_rvalid, hdl_req, hdl_resp, host, msix, acked, landed>>

Bit == {0, 1}
Buffer == [1..MaxBeats -> Data]
Words(buf, n) == [i \in 1..n |-> buf[i]]

(* Bursts stay inside host memory. *)
Span  == {s \in [addr : Addr, len : 0..(MaxBeats - 1)] :
            s.addr .. (s.addr + s.len) \subseteq Addr}
Burst == UNION {[addr : {s.addr}, data : [1..(s.len + 1) -> Data]] : s \in Span}

Init ==
  /\ mw = [pc |-> "idle", burst |-> CHOOSE b \in Burst : TRUE] /\ aw = 0 /\ wsent = 0
  /\ mr = [pc |-> "idle", span |-> CHOOSE s \in Span : TRUE, data |-> <<>>]
  /\ ar = 0 /\ beats = <<>>
  /\ kind \in MasterKinds
  /\ write_state = "IDLE" /\ w_addr = 0 /\ w_len = 0 /\ w_cnt = 0
  /\ read_state = "IDLE" /\ r_len = 0 /\ r_cnt = 0
  /\ rvalid = 0 /\ rlast = 0 /\ rdata = Zero
  /\ w_data = [i \in 1..MaxBeats |-> Zero]
  /\ r_data = [i \in 1..MaxBeats |-> Zero]
  /\ data = [i \in 1..MaxBeats |-> Zero] /\ req_s_rvalid = 0
  /\ hdl_req = <<>> /\ hdl_resp = <<>>
  /\ host = [a \in Addr |-> Zero] /\ msix = {}
  /\ acked = 0 /\ landed = 0

-----------------------------------------------------------------------------
(* The AXI master: external *)

StartWrite(b) ==
  /\ mw.pc = "idle" /\ acked < MaxWrites
  /\ mw' = [pc |-> "busy", burst |-> b]
  /\ aw' = 1 /\ wsent' = 0
  /\ UNCHANGED <<mr, ar, beats, kind, writeVars, readVars, data, req_s_rvalid,
                 hdl_req, hdl_resp, host, msix, acked, landed>>

StartRead(s) ==
  /\ mr.pc = "idle"
  /\ mr' = [pc |-> "busy", span |-> s, data |-> <<>>]
  /\ ar' = 1 /\ beats' = <<>>
  /\ UNCHANGED <<mw, aw, wsent, kind, writeVars, readVars, data, req_s_rvalid,
                 hdl_req, hdl_resp, host, msix, acked, landed>>

(* steady: ready for every beat; pausing: at will, but ready for the last  *)
(* beat when it is there; legal: at will, as the AXI protocol allows.      *)
RreadyRule(rready) ==
  /\ kind = "steady" => rready = 1
  /\ kind = "pausing" /\ rlast = 1 => rready = 1

(* It offers the beats of its burst, and takes the acknowledgement and the *)
(* beats of its read, when valid and ready are both 1.                     *)
MasterWrite(wvalid, bready) ==
  /\ wvalid = 1 => mw.pc = "busy" /\ wsent < Len(mw.burst.data)
  /\ aw' = IF write_state = "IDLE" THEN 0 ELSE aw
  /\ wsent' = IF write_state = "DATA" /\ wvalid = 1 THEN wsent + 1 ELSE wsent
  /\ IF write_state = "RESPONSE" /\ bready = 1
     THEN mw' = [mw EXCEPT !.pc = "idle"] /\ acked' = acked + 1
     ELSE UNCHANGED <<mw, acked>>

MasterRead(rready) ==
  /\ RreadyRule(rready)
  /\ ar' = IF read_state = "IDLE" THEN 0 ELSE ar
  /\ IF mr.pc = "busy" /\ rvalid = 1 /\ rready = 1
     THEN /\ beats' = Append(beats, rdata)
          /\ mr' = IF rlast = 1 THEN [pc |-> "idle", span |-> mr.span, data |-> beats']
                   ELSE mr
     ELSE UNCHANGED <<beats, mr>>

-----------------------------------------------------------------------------
(* HDL: what happens at one rising edge of the clock *)

(* axi4_s_w.  The burst ends when len + 1 beats have come; wlast is not    *)
(* looked at.                                                              *)
Beat    == mw.burst.data[wsent + 1]
WBufferOld == w_data  \* mutant: r_data_tmp is sent instead of n_data_tmp
WBuffer == [w_data EXCEPT ![w_cnt + 1] = Beat]
send_to_qemu(wvalid) == write_state = "DATA" /\ wvalid = 1 /\ w_cnt = w_len

SlaveWrite(wvalid, bready) ==
  \/ /\ write_state = "IDLE" /\ aw = 0
     /\ UNCHANGED writeVars
  \/ /\ write_state = "IDLE" /\ aw = 1
     /\ write_state' = "DATA" /\ w_cnt' = 0
     /\ w_addr' = mw.burst.addr /\ w_len' = Len(mw.burst.data) - 1
     /\ UNCHANGED w_data
  \/ /\ write_state = "DATA" /\ wvalid = 0
     /\ UNCHANGED writeVars
  \/ /\ write_state = "DATA" /\ wvalid = 1
     /\ w_data' = WBuffer
     /\ w_cnt' = IF w_cnt # w_len THEN w_cnt + 1 ELSE w_cnt
     /\ write_state' = IF w_cnt # w_len THEN "DATA" ELSE "RESPONSE"
     /\ UNCHANGED <<w_addr, w_len>>
  \/ /\ write_state = "RESPONSE"
     /\ write_state' = IF bready = 1 THEN "IDLE" ELSE "RESPONSE"
     /\ UNCHANGED <<w_addr, w_len, w_cnt, w_data>>

(* C_poll and the always block that calls it.  A response is copied over   *)
(* the first words of data; a write request of MmioPath, whose frame was   *)
(* cleared before its one value was put in, over all of them.              *)
PollRespSilent ==  \* mutant: send_s_read is not set
  /\ hdl_resp # <<>> /\ hdl_resp' = Tail(hdl_resp)
  /\ req_s_rvalid' = 0
  /\ UNCHANGED data
PollResp ==
  /\ hdl_resp # <<>>
  /\ hdl_resp' = Tail(hdl_resp)
  /\ req_s_rvalid' = 1
  /\ data' = [i \in 1..MaxBeats |-> IF i <= Len(Head(hdl_resp)) THEN Head(hdl_resp)[i]
                                                                ELSE data[i]]
PollOther ==
  /\ hdl_resp = <<>> \/ Others # {}
  /\ req_s_rvalid' = 0
  /\ \/ UNCHANGED data
     \/ /\ "M_WR" \in Others
        /\ \E v \in Data : data' = [i \in 1..MaxBeats |-> IF i = 1 THEN v ELSE Zero]
  /\ UNCHANGED hdl_resp

(* axi4_s_r.  It latches data at the edge after the one that raised        *)
(* req_s_rvalid, at which C_poll may already have changed it.  It puts a   *)
(* beat on the bus only when rready is 1, and in READ_IDLE it takes the    *)
(* last beat away again, whatever rready is.                               *)
ReadIdle ==
  /\ read_state = "IDLE"
  /\ rvalid' = 0 /\ rlast' = 0
  /\ IF ar = 1
     THEN read_state' = "DATA" /\ r_len' = mr.span.len /\ r_cnt' = 0
     ELSE UNCHANGED <<read_state, r_len, r_cnt>>
  /\ UNCHANGED <<r_data, rdata>>

ReadData ==
  /\ read_state = "DATA"
  /\ \/ req_s_rvalid = 0 /\ UNCHANGED <<read_state, r_data>>
     \/ req_s_rvalid = 1 /\ read_state' = "RESPONSE" /\ r_data' \in {data, data'}
  /\ UNCHANGED <<r_len, r_cnt, rvalid, rlast, rdata>>

ReadResponseNoValid(rready) ==  \* mutant: the last beat is not made valid
  /\ read_state = "RESPONSE" /\ rready = 1
  /\ rdata' = r_data[r_cnt + 1]
  /\ IF r_cnt = r_len
     THEN rvalid' = 0 /\ rlast' = 1 /\ read_state' = "IDLE" /\ UNCHANGED r_cnt
     ELSE rvalid' = 1 /\ r_cnt' = r_cnt + 1 /\ UNCHANGED <<rlast, read_state>>
  /\ UNCHANGED <<r_len, r_data>>
ReadResponse(rready) ==
  /\ read_state = "RESPONSE"
  /\ \/ rready = 0 /\ UNCHANGED <<read_state, r_cnt, rvalid, rlast, rdata>>
     \/ /\ rready = 1
        /\ rvalid' = 1 /\ rdata' = r_data[r_cnt + 1]
        /\ IF r_cnt = r_len
           THEN rlast' = 1 /\ read_state' = "IDLE" /\ UNCHANGED r_cnt
           ELSE r_cnt' = r_cnt + 1 /\ UNCHANGED <<rlast, read_state>>
  /\ UNCHANGED <<r_len, r_data>>

SlaveRead(rready) == ReadIdle \/ ReadData \/ ReadResponse(rready)

(* C_req_write, C_req_read and C_req_interrupt send a frame each.  after,  *)
(* which the code does not have, is what the master knew when it asked.    *)
WriteFrameShort ==  \* mutant: len is taken for the number of beats
  [op |-> "WRITE", burst |-> [addr |-> w_addr, data |-> Words(WBuffer, w_len)]]
WriteFrame == [op |-> "WRITE", burst |-> [addr |-> w_addr, data |-> Words(WBuffer, w_len + 1)]]
ReadFrame  == [op |-> "READ", span |-> mr.span, after |-> acked]

(* Calls made at one edge are made in either order.  A send to a full      *)
(* socket blocks: the frames beyond Hwm are those the simulator, which has *)
(* one thread, is still sending, and until they are in it does nothing.    *)
Running == Len(hdl_req) <= Hwm
C_req(wvalid) ==
  LET W == IF send_to_qemu(wvalid) THEN <<WriteFrame>> ELSE <<>>
      R == IF read_state = "IDLE" /\ ar = 1 THEN <<ReadFrame>> ELSE <<>>
  IN  hdl_req' \in {hdl_req \o W \o R, hdl_req \o R \o W}

posedge(wvalid, bready, rready) ==
  /\ Running
  /\ PollResp \/ PollOther
  /\ MasterWrite(wvalid, bready) /\ MasterRead(rready)
  /\ C_req(wvalid)
  /\ SlaveWrite(wvalid, bready) /\ SlaveRead(rready)
  /\ UNCHANGED <<kind, host, msix, landed>>

(* A signal the slave does not look at in its state has one value only. *)
Seen(c) == IF c THEN Bit ELSE {0}
Rready == IF rvalid = 1 \/ read_state = "RESPONSE" THEN Bit ELSE {1}
Tick == \E w \in Seen(write_state = "DATA"), b \in Seen(write_state = "RESPONSE"),
           r \in Rready : posedge(w, b, r)

(* axi4_s_i: a pulse of the interrupt line, with one bit of the vector set.*)
Pending == Len(SelectSeq(hdl_req, LAMBDA f : f.op = "INTR"))
interruptAhead(v) ==  \* mutant: interrupts do not queue behind writes
  /\ Running /\ Pending < MaxPending
  /\ hdl_req' = <<[op |-> "INTR", vector |-> v, after |-> acked]>> \o hdl_req
  /\ UNCHANGED <<masterVars, kind, writeVars, readVars, data, req_s_rvalid,
                 hdl_resp, host, msix, acked, landed>>
interrupt(v) ==
  /\ Running /\ Pending < MaxPending
  /\ hdl_req' = Append(hdl_req, [op |-> "INTR", vector |-> v, after |-> acked])
  /\ UNCHANGED <<masterVars, kind, writeVars, readVars, data, req_s_rvalid,
                 hdl_resp, host, msix, acked, landed>>

-----------------------------------------------------------------------------
(* QEMU *)

Store(mem, b) == [a \in Addr |-> IF a \in b.addr .. (b.addr + Len(b.data) - 1)
                                 THEN b.data[a - b.addr + 1] ELSE mem[a]]
Load(mem, s)  == [i \in 1..(s.len + 1) |-> mem[s.addr + i - 1]]

(* One turn of the loop of handle_hdl_request. *)
handle_hdl_request ==
  /\ hdl_req # <<>>
  /\ hdl_req' = Tail(hdl_req)
  /\ LET f == Head(hdl_req) IN
     \/ /\ f.op = "READ"
        /\ hdl_resp' = Append(hdl_resp, Load(host, f.span))
        /\ UNCHANGED <<host, msix, landed>>
     \/ /\ f.op = "WRITE"
        /\ host' = Store(host, f.burst)
        /\ landed' = landed + 1
        /\ UNCHANGED <<hdl_resp, msix>>
     \/ /\ f.op = "INTR"
        /\ msix' = msix \cup {f.vector}
        /\ UNCHANGED <<hdl_resp, host, landed>>
  /\ UNCHANGED <<masterVars, kind, writeVars, readVars, data, req_s_rvalid, acked>>

(* The guest writes its memory and takes an interrupt: external. *)
GuestStore(a, v) ==
  /\ host' = [host EXCEPT ![a] = v]
  /\ UNCHANGED <<masterVars, kind, writeVars, readVars, data, req_s_rvalid,
                 hdl_req, hdl_resp, msix, acked, landed>>

GuestTakes(v) ==
  /\ v \in msix /\ msix' = msix \ {v}
  /\ UNCHANGED <<masterVars, kind, writeVars, readVars, data, req_s_rvalid,
                 hdl_req, hdl_resp, host, acked, landed>>

Next ==
  \/ \E b \in Burst : StartWrite(b)
  \/ \E s \in Span : StartRead(s)
  \/ Tick
  \/ \E v \in Vector : interrupt(v)
  \/ handle_hdl_request
  \/ \E a \in Addr, v \in Data : GuestStore(a, v)
  \/ \E v \in Vector : GuestTakes(v)

Spec == Init /\ [][Next]_vars

(* Fairness.  QEMU's main loop serves its sockets.  The clock runs, and    *)
(* again and again at an edge the master offers what it has begun, takes   *)
(* what it is given, and C_poll, which finds at most one MMIO request at a *)
(* time, comes to the response.  Fairness is strong as every send may make *)
(* the clock wait for room in hdl_req.                                     *)
one(c) == IF c THEN 1 ELSE 0
offers == write_state = "DATA" /\ mw.pc = "busy" /\ wsent < Len(mw.burst.data)
Served ==
  /\ posedge(one(offers), one(write_state = "RESPONSE"), 1)
  /\ hdl_resp # <<>> => hdl_resp' = Tail(hdl_resp)

FairSpec ==
  /\ Spec
  /\ WF_vars(handle_hdl_request) /\ WF_vars(Tick) /\ SF_vars(Served)

-----------------------------------------------------------------------------
(* Properties *)

HdlFrame == [op : {"WRITE"}, burst : Burst]
            \cup [op : {"READ"}, span : Span, after : Nat]
            \cup [op : {"INTR"}, vector : Vector, after : Nat]

(* The values every variable may have. *)
TypeOK ==
  /\ mw \in [pc : {"idle", "busy"}, burst : Burst] /\ aw \in Bit /\ wsent \in 0..MaxBeats
  /\ mr \in [pc : {"idle", "busy"}, span : Span, data : Seq(Data)]
  /\ ar \in Bit /\ beats \in Seq(Data) /\ kind \in MasterKinds
  /\ write_state \in {"IDLE", "DATA", "RESPONSE"} /\ w_addr \in Addr \cup {0}
  /\ w_len \in 0..(MaxBeats - 1) /\ w_cnt \in 0..(MaxBeats - 1) /\ w_data \in Buffer
  /\ read_state \in {"IDLE", "DATA", "RESPONSE"}
  /\ r_len \in 0..(MaxBeats - 1) /\ r_cnt \in 0..(MaxBeats - 1) /\ r_data \in Buffer
  /\ rvalid \in Bit /\ rlast \in Bit /\ rdata \in Data
  /\ data \in Buffer /\ req_s_rvalid \in Bit
  /\ hdl_req \in Seq(HdlFrame) /\ hdl_resp \in Seq(Seq(Data))
  /\ host \in [Addr -> Data] /\ msix \subseteq Vector
  /\ acked \in Nat /\ landed \in Nat

(* When QEMU notifies an interrupt or reads host memory for the device,    *)
(* every write whose BRESP the device had before it asked is in host       *)
(* memory, although axi4_s_w gives BRESP before QEMU has seen the write.   *)
FlushedFirst ==
  hdl_req # <<>> /\ Head(hdl_req).op # "WRITE" => Head(hdl_req).after <= landed

(* A read that the slave has accepted is somewhere: asked, answered, or on *)
(* the bus.  Its last beat is not taken away before the master has it.     *)
ReadSomewhere ==
  mr.pc = "busy" /\ ar = 0 => read_state # "IDLE" \/ rvalid = 1

(* Every write is acknowledged, every read gets all its beats, and every   *)
(* interrupt reaches the guest, even though full sockets stop the clock.   *)
DmaEnds ==
  /\ mw.pc = "busy" ~> mw.pc = "idle"
  /\ mr.pc = "busy" ~> mr.pc = "idle"
  /\ (\E i \in DOMAIN hdl_req : hdl_req[i].op = "INTR") ~> msix # {}

(* The bridge implements the posted memory the device expects.  The answer *)
(* to a read is in the socket, in data, or in the slave's buffer.          *)
Answered == hdl_resp # <<>> \/ req_s_rvalid = 1 \/ read_state = "RESPONSE" \/ rvalid = 1
Answer   == IF hdl_resp # <<>> THEN Head(hdl_resp)
            ELSE IF req_s_rvalid = 1 THEN Words(data, r_len + 1)
            ELSE Words(r_data, r_len + 1)
wr == [pc |-> IF mw.pc = "busy" /\ write_state = "RESPONSE" THEN "sent" ELSE mw.pc,
       burst |-> mw.burst]
rd == IF mr.pc = "idle" \/ ar = 1 THEN mr
      ELSE [pc |-> IF Answered THEN "answered" ELSE "sent", span |-> mr.span,
            data |-> IF Answered THEN Answer ELSE <<>>]
Posted == INSTANCE PostedMemory WITH posted <- hdl_req
PostedSpec == Posted!Spec
=============================================================================
