-------------------------- MODULE PcieBridgeProofs --------------------------
(* Theorems about the PCIe bridge as a whole. *)
EXTENDS PcieBridge, DmaPathProofs

-----------------------------------------------------------------------------
(* The bridge does with DMA what DmaPath says *)

(* Every step of the bridge is one of DmaPath, or one it does not see. *)
LEMMA DmaStep == [BridgeNext]_bridgeVars => [Next]_vars
<1> SUFFICES ASSUME [BridgeNext]_bridgeVars PROVE [Next]_vars
  OBVIOUS
<1>1. CASE UNCHANGED dmaVars
  BY <1>1 DEF dmaVars, vars, writeVars, readVars
<1>2. CASE Access \/ Return \/ Interrupted \/ ResetRelease
  BY <1>1, <1>2 DEF Access, Return, Interrupted, ResetRelease
<1>3. CASE MainLoop
  BY <1>3 DEF MainLoop, Next
<1>4. CASE Guest
  BY <1>4 DEF Guest, Next
<1>5. CASE Edge
  <2>1. \E w \in Seen(write_state = "DATA"), b \in Seen(write_state = "RESPONSE"),
           r \in Rready : posedge(w, b, r)
    BY <1>5 DEF Edge, edge
  <2> QED
    BY <2>1 DEF Next, Tick
<1>6. CASE Device
  BY <1>6 DEF Device, Next
<1>7. CASE UNCHANGED bridgeVars
  BY <1>7 DEF bridgeVars, vars
<1> QED
  BY <1>2, <1>3, <1>4, <1>5, <1>6, <1>7 DEF BridgeNext

(* Sharing C_poll and its buffer with MMIO, and QEMU's main loop with the  *)
(* vCPUs, adds nothing to what DmaPath allows: what holds of it holds of   *)
(* the bridge.                                                             *)
THEOREM BridgeIsDmaPath == BridgeSpec => Spec
<1>1. BridgeInit => Init
  BY DEF BridgeInit
<1> QED
  BY <1>1, DmaStep, PTL DEF BridgeSpec, Spec

(* What is proved of DMA on its own, of the bridge: every variable keeps   *)
(* its type; nothing the device asks for overtakes a write it has BRESP    *)
(* for; and no read that was accepted is lost, if the master takes its     *)
(* last beat when it is there.                                             *)
THEOREM BridgeDma ==
  /\ BridgeSpec => []TypeOK
  /\ BridgeSpec => []FlushedFirst
  /\ Patient => (BridgeSpec => []ReadSomewhere)
<1>1. BridgeSpec => []TypeOK
  BY BridgeIsDmaPath, TypeCorrect, PTL
<1>2. BridgeSpec => []FlushedFirst
  BY BridgeIsDmaPath, AlwaysFlushedFirst, PTL
<1>3. ASSUME Patient PROVE BridgeSpec => []ReadSomewhere
  <2>1. Spec => []ReadSomewhere
    BY <1>3, AlwaysReadSomewhere
  <2> QED
    BY <2>1, BridgeIsDmaPath, PTL
<1> QED
  BY <1>1, <1>2, <1>3

-----------------------------------------------------------------------------
(* and with MMIO what MmioPath says *)

(* The theorems about MmioPath, read with the bridge's variables. *)
MP == INSTANCE MmioPathProofs WITH
        Others <- {"S_RD"}, MmioInReset <- FALSE,
        kind <- slave_kind, bus <- [addr |-> addr, val |-> data[1]],
        read_state <- m_read_state, write_state <- m_write_state,
        w_addr <- m_w_addr, w_data <- m_w_data

(* The bridge starts as MmioPath does, its bus idle and zero. *)
LEMMA MmioInit == BridgeInit => MP!Init
<1> SUFFICES ASSUME BridgeInit PROVE MP!Init
  OBVIOUS
<1>1. data[1] = Zero
  BY DmaConstants DEF BridgeInit, Init
<1>2. guest \in [pc : {"run"}, op : MP!Op, bar : Bar, off : Off, val : {Zero}]
  BY DEF BridgeInit, MP!Op
<1>3. mem = [a \in MP!Register |-> Zero]
  BY DEF BridgeInit, M!Register, M!BusAddr, MP!Register, MP!BusAddr
<1> QED
  BY <1>1, <1>2, <1>3 DEF BridgeInit, MP!Init

(* One edge of the bridge's clock is an edge for the MMIO side. *)
LEMMA MmioEdge ==
  ASSUME NEW saw, NEW sw, NEW sar, NEW sb, NEW sr, M!posedge(saw, sw, sar, sb, sr)
  PROVE  MP!posedge(saw, sw, sar, sb, sr)
<1>1. MP!C_poll
  BY DEF M!posedge, M!C_poll, M!Poll, M!PollOther, M!PollAddr, M!PollData, M!BusAddr,
         MP!C_poll, MP!Poll, MP!PollOther, MP!PollAddr, MP!PollData, MP!BusAddr
<1>2. MP!MasterRead(sar, sr)
  BY DEF M!posedge, M!MasterRead, M!Latched, M!readVars,
         MP!MasterRead, MP!Latched, MP!readVars
<1>3. MP!MasterWrite(saw, sw, sb)
  BY DEF M!posedge, M!MasterWrite, M!Latched, M!writeVars,
         MP!MasterWrite, MP!Latched, MP!writeVars
<1>4. MP!Slave(saw, sw, sar, sb, sr)
  BY DEF M!posedge, M!Slave, M!ReadyRule, M!Taken, M!Answered,
         MP!Slave, MP!ReadyRule, MP!Taken, MP!Answered
<1>5. MP!Respond(sb, sr)
  BY DEF M!posedge, M!Respond, M!RData, MP!Respond, MP!RData
<1> QED
  BY <1>1, <1>2, <1>3, <1>4, <1>5 DEF M!posedge, MP!posedge

(* Every step of the bridge is one of MmioPath, or one it does not see. *)
LEMMA MmioStep == [BridgeNext]_bridgeVars => [MP!Next]_(MP!vars)
<1> SUFFICES ASSUME [BridgeNext]_bridgeVars PROVE [MP!Next]_(MP!vars)
  OBVIOUS
<1> USE DEF M!hdlVars, M!readVars, M!writeVars, M!reqVars, M!slaveVars,
            MP!hdlVars, MP!readVars, MP!writeVars, MP!reqVars, MP!slaveVars
<1>1. ASSUME UNCHANGED mmioVars, UNCHANGED data PROVE UNCHANGED MP!vars
  BY <1>1 DEF mmioVars, MP!vars
<1>2. CASE Access
  <2>1. ASSUME NEW op, NEW b, NEW o, NEW v, M!mmio_send(op, b, o, v)
        PROVE  MP!mmio_send(op, b, o, v)
    BY <2>1 DEF M!mmio_send, MP!mmio_send
  <2> QED
    BY <1>2, <2>1 DEF Access, M!mmio_read_bar, M!mmio_write_bar,
       MP!mmio_read_bar, MP!mmio_write_bar, MP!Next
<1>3. CASE Return
  BY <1>3 DEF Return, M!mmio_return, M!Returned, MP!mmio_return, MP!Returned, MP!Next
<1>4. CASE Interrupted
  BY <1>4 DEF Interrupted, M!mmio_interrupted, M!Returned, MP!mmio_interrupted,
     MP!Returned, MP!Next
<1>5. CASE ResetRelease
  BY <1>5 DEF ResetRelease, M!ResetRelease, MP!ResetRelease, MP!Next
<1>6. CASE Edge
  <2>1. PICK saw \in Ready, sw \in Ready, sar \in Ready,
             sb \in Seen(s_aw # <<>> /\ s_w # <<>>), sr \in Seen(s_ar # <<>>) :
          M!posedge(saw, sw, sar, sb, sr)
    BY <1>6 DEF Edge, edge
  <2>2. saw \in MP!Bit /\ sw \in MP!Bit /\ sar \in MP!Bit /\ sb \in MP!Bit /\ sr \in MP!Bit
    BY DEF Ready, Seen, Bit, MP!Bit
  <2>3. MP!posedge(saw, sw, sar, sb, sr)
    BY <2>1, MmioEdge
  <2> QED
    BY <2>2, <2>3 DEF MP!Tick, MP!Next
<1>7. CASE MainLoop
  BY <1>1, <1>7 DEF MainLoop, handle_hdl_request
<1>8. CASE Guest
  BY <1>1, <1>8 DEF Guest, GuestStore, GuestTakes
<1>9. CASE Device
  BY <1>1, <1>9 DEF Device, StartWrite, StartRead, interrupt
<1>10. CASE UNCHANGED bridgeVars
  BY <1>1, <1>10 DEF bridgeVars, mmioVars
<1> QED
  BY <1>2, <1>3, <1>4, <1>5, <1>6, <1>7, <1>8, <1>9, <1>10 DEF BridgeNext

(* Sharing C_poll with the responses to DMA, which it may take first, and  *)
(* whose data overwrites the word an MMIO value is in, adds nothing to     *)
(* what MmioPath allows.                                                   *)
THEOREM BridgeIsMmioPath == BridgeSpec => MP!Spec
BY MmioInit, MmioStep, PTL DEF BridgeSpec, MP!Spec

(* Every variable of the bridge keeps its type, those of both sides of the *)
(* shared buffer included.                                                 *)
THEOREM BridgeTypeCorrect == BridgeSpec => []BridgeTypeOK
<1>1. MP!Spec => []MP!TypeOK
  BY BridgeConstants, DmaConstants, MP!TypeCorrect
<1>2. MP!TypeOK => M!TypeOK
  BY DEF M!TypeOK, M!Op, M!Bit, M!Frame, M!Register, M!BusAddr,
         MP!TypeOK, MP!Op, MP!Bit, MP!Frame, MP!Register, MP!BusAddr
<1>3. TypeOK /\ M!TypeOK => BridgeTypeOK
  BY DEF BridgeTypeOK
<1> QED
  BY <1>1, <1>2, <1>3, BridgeDma, BridgeIsMmioPath, PTL

(* With DMA, interrupts, the big lock and full sockets around it, a vCPU   *)
(* that waits still has an answer coming, and nothing is answered twice.   *)
THEOREM BridgeAnswers == MP!Orderly => (BridgeSpec => []AnswersMatch)
<1> SUFFICES ASSUME MP!Orderly PROVE BridgeSpec => []AnswersMatch
  OBVIOUS
<1>1. MP!Spec => []MP!AnswerComing
  <2>1. MP!AfterReset
    BY DEF MP!AfterReset
  <2> QED
    BY <2>1, BridgeConstants, DmaConstants, MP!AlwaysAnswerComing
<1>2. MP!Spec => []MP!OneAnswerEach
  BY BridgeConstants, DmaConstants, MP!AlwaysOneAnswerEach
<1>3. MP!AnswerComing /\ MP!OneAnswerEach => AnswersMatch
  BY DEF AnswersMatch, M!AnswerComing, M!OneAnswerEach, M!Outstanding, M!Waiting,
         M!InRead, M!InWrite, MP!AnswerComing, MP!OneAnswerEach, MP!Outstanding,
         MP!Waiting, MP!InRead, MP!InWrite
<1> QED
  BY <1>1, <1>2, <1>3, BridgeIsMmioPath, PTL
=============================================================================
