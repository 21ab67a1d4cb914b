----------------------------- MODULE PcieBridge -----------------------------
(***************************************************************************)
(* The PCIe bridge as a whole: MmioPath and DmaPath at one clock.  What    *)
(* they share is here and in neither of them:                              *)
(*                                                                         *)
(*   - C_poll takes one frame an edge, from qemu_req or from hdl_resp;     *)
(*   - both put their data into the array data of axi4_ip_mod;             *)
(*   - a vCPU in an access holds QEMU's big lock, without which QEMU's     *)
(*     main loop cannot run handle_hdl_request;                            *)
(*   - a send to a full hdl_req stops the one clock.                       *)
(*                                                                         *)
(* The variables of DmaPath keep their names.  A clock edge is an edge of  *)
(* both paths at once; each sees what the other polled as Others.          *)
(***************************************************************************)
EXTENDS DmaPath

CONSTANTS
  Bar, Off, BarOffset, SlaveKinds, MaxIntr,  \* of MmioPath
  Needs         \* the design answers no read of a register while it waits
                \* for host memory itself

ASSUME BridgeConstants ==
  /\ Bar # {} /\ Off # {} /\ Off \subseteq Nat /\ BarOffset \in [Bar -> Nat]
  /\ SlaveKinds \subseteq {"eager", "lazy", "legal"} /\ MaxIntr \in Nat
  /\ Needs \in BOOLEAN
  /\ Others = {"M_RD", "M_WR"}

VARIABLES
  guest, intr, qemu_req, qemu_resp, rst_n, slave_kind,
  addr, req_m_rvalid, req_m_wvalid,
  m_read_state, r_addr, arvalid,
  m_write_state, m_w_addr, m_w_data, awvalid, wvalid,
  s_aw, s_w, s_ar, mem

dmaVars == <<mw, aw, wsent, mr, ar, beats, kind, writeVars, readVars, data,
             req_s_rvalid, hdl_req, hdl_resp, host, msix, acked, landed>>
mmioVars == <<guest, intr, qemu_req, qemu_resp, rst_n, slave_kind, addr,
              req_m_rvalid, req_m_wvalid, m_read_state, r_addr, arvalid,
              m_write_state, m_w_addr, m_w_data, awvalid, wvalid, s_aw, s_w,
              s_ar, mem>>
bridgeVars == <<mw, aw, wsent, mr, ar, beats, kind, write_state, w_addr, w_len,
                w_cnt, w_data, read_state, r_len, r_cnt, r_data, rvalid, rlast,
                rdata, data, req_s_rvalid, hdl_req, hdl_resp, host, msix, acked,
                landed, guest, intr, qemu_req, qemu_resp, rst_n, slave_kind, addr,
                req_m_rvalid, req_m_wvalid, m_read_state, r_addr, arvalid,
                m_write_state, m_w_addr, m_w_data, awvalid, wvalid, s_aw, s_w,
                s_ar, mem>>

(* An MMIO value is the first word of data. *)
M == INSTANCE MmioPath WITH
       Others <- {"S_RD"}, MmioInReset <- FALSE,
       kind <- slave_kind, bus <- [addr |-> addr, val |-> data[1]],
       read_state <- m_read_state, write_state <- m_write_state,
       w_addr <- m_w_addr, w_data <- m_w_data

BridgeInit ==
  /\ Init
  /\ guest \in [pc : {"run"}, op : {"READ"}, bar : Bar, off : Off, val : {Zero}]
  /\ qemu_req = <<>> /\ qemu_resp = <<>> /\ intr = 0 /\ rst_n = 0
  /\ slave_kind \in SlaveKinds
  /\ addr = 0 /\ req_m_rvalid = 0 /\ req_m_wvalid = 0
  /\ m_read_state = "IDLE" /\ r_addr = 0 /\ arvalid = 0
  /\ m_write_state = "IDLE" /\ m_w_addr = 0 /\ m_w_data = Zero
  /\ awvalid = 0 /\ wvalid = 0
  /\ s_aw = <<>> /\ s_w = <<>> /\ s_ar = <<>>
  /\ mem = [a \in M!Register |-> Zero]

-----------------------------------------------------------------------------
(* HDL *)

(* C_poll: which of the two sockets it serves when both have a frame is    *)
(* zpoller's choice.  The effect of each on the two paths is theirs.       *)
PollMmio ==
  /\ qemu_req # <<>> /\ qemu_req' = Tail(qemu_req)
  /\ LET f == Head(qemu_req) IN
     /\ addr' = M!PollAddr(f)
     /\ data' = [i \in 1..MaxBeats |-> IF f.op = "READ" THEN data[i]
                                       ELSE IF i = 1 THEN f.val ELSE Zero]
  /\ UNCHANGED hdl_resp
PollDma ==
  /\ PollResp
  /\ UNCHANGED <<qemu_req, addr>>
PollNothing ==
  /\ qemu_req = <<>> /\ hdl_resp = <<>>
  /\ UNCHANGED <<qemu_req, hdl_resp, addr, data>>

edge(s_awready, s_wready, s_arready, s_bvalid, s_rvalid, m_wvalid, m_bready, m_rready) ==
  /\ s_rvalid = 1 /\ Needs => mr.pc = "idle"
  /\ PollMmio \/ PollDma \/ PollNothing
  /\ posedge(m_wvalid, m_bready, m_rready)
  /\ M!posedge(s_awready, s_wready, s_arready, s_bvalid, s_rvalid)

(* A signal that is not looked at, or is fixed, has one value only. *)
Ready == IF slave_kind = "eager" THEN {1} ELSE Bit
Edge == \E s_aw1, s_w1, s_ar1 \in Ready, s_b1 \in Seen(s_aw # <<>> /\ s_w # <<>>),
           s_r1 \in Seen(s_ar # <<>>), m_w1 \in Seen(write_state = "DATA"),
           m_b1 \in Seen(write_state = "RESPONSE"), m_r1 \in Rready :
          edge(s_aw1, s_w1, s_ar1, s_b1, s_r1, m_w1, m_b1, m_r1)

(* The other actions of the two paths; the design does nothing in reset.   *)
Device ==
  /\ rst_n = 1
  /\ \/ \E b \in Burst : StartWrite(b)
     \/ \E s \in Span : StartRead(s)
     \/ \E v \in Vector : interrupt(v)
  /\ UNCHANGED mmioVars

ResetRelease ==
  /\ UNCHANGED <<addr, dmaVars>>
  /\ M!ResetRelease

-----------------------------------------------------------------------------
(* QEMU *)

Access ==
  /\ UNCHANGED <<addr, dmaVars>>
  /\ \/ \E b \in Bar, o \in Off : M!mmio_read_bar(b, o)
     \/ \E b \in Bar, o \in Off, v \in Data : M!mmio_write_bar(b, o, v)

Return ==
  /\ UNCHANGED <<addr, dmaVars>>
  /\ M!mmio_return

Interrupted ==
  /\ UNCHANGED <<addr, dmaVars>>
  /\ M!mmio_interrupted

(* The main loop has the big lock. *)
MainLoop ==
  /\ guest.pc = "run"
  /\ handle_hdl_request
  /\ UNCHANGED mmioVars

(* Other vCPUs go on: external. *)
Guest ==
  /\ \/ \E a \in Addr, v \in Data : GuestStore(a, v)
     \/ \E v \in Vector : GuestTakes(v)
  /\ UNCHANGED mmioVars

BridgeNext == Access \/ Return \/ Interrupted \/ MainLoop \/ Guest \/ Edge
              \/ Device \/ ResetRelease

BridgeSpec == BridgeInit /\ [][BridgeNext]_bridgeVars

(* Fairness.  The clock runs, and again and again the design is ready for  *)
(* whatever it may take, offers what it has begun and answers what it can. *)
(* A vCPU whose answer has come is scheduled; between two accesses of the  *)
(* vCPUs the main loop gets the big lock.                                  *)
AllServed ==
  LET canW == slave_kind = "eager"
              \/ (wvalid = 1 /\ s_w = <<>> /\ (s_aw # <<>> \/ awvalid = 1))
      canB == s_aw # <<>> /\ s_w # <<>>
      canR == s_ar # <<>> /\ m_read_state = "DATA" /\ (Needs => mr.pc = "idle")
  IN  edge(1, one(canW), 1, one(canB), one(canR), one(offers),
           one(write_state = "RESPONSE"), 1)
BridgeFairSpec ==
  /\ BridgeSpec
  /\ WF_bridgeVars(AllServed) /\ WF_bridgeVars(ResetRelease) /\ WF_bridgeVars(Return)
  /\ SF_bridgeVars(MainLoop)

-----------------------------------------------------------------------------
(* Properties *)

(* The values every variable may have. *)
BridgeTypeOK == TypeOK /\ M!TypeOK

(* With everything going on at once, a vCPU that waits has an answer       *)
(* coming, and nothing is answered twice, although C_poll serves two       *)
(* sockets and MMIO and DMA requests meet in it.                           *)
AnswersMatch == M!AnswerComing /\ M!OneAnswerEach

(* Every access returns, although the vCPU holds the big lock meanwhile:   *)
(* as long as hdl_req has room for what the device sends until then, and   *)
(* the design can answer without host memory (Hwm and Needs).              *)
MmioReturns == guest.pc = "wait" ~> guest.pc = "run"
=============================================================================
