--------------------------- MODULE MmioPathProofs ---------------------------
(* Theorems about MmioPath, for every set of BARs, offsets and data. *)
EXTENDS MmioPath, TLAPS

-----------------------------------------------------------------------------
(* Type correctness *)

(* What is polled, and what a master offers, is an address of the device. *)
OfferOK ==
  /\ req_m_rvalid = 1 \/ req_m_wvalid = 1 => bus.addr \in Register
  /\ arvalid = 1 => r_addr \in Register
  /\ awvalid = 1 => w_addr \in Register

TypeInv == TypeOK /\ OfferOK

(* The sum of a BAR's base and an offset is a bus address of the device. *)
LEMMA BusAddrType ==
  ASSUME NEW b \in Bar, NEW o \in Off
  PROVE  BusAddr(b, o) \in Register
BY DEF Register

(* Frames and accepted beats keep their type as queues grow and shrink. *)
LEMMA QueueType ==
  ASSUME NEW S, NEW q \in Seq(S)
  PROVE  /\ \A x \in S : Append(q, x) \in Seq(S)
         /\ q # <<>> => Head(q) \in S /\ Tail(q) \in Seq(S)
OBVIOUS

(* The program starts with its variables in their types. *)
LEMMA TypeInit == Init => TypeInv
<1> SUFFICES ASSUME Init PROVE TypeInv
  OBVIOUS
<1> USE MmioConstants
<1>1. mem \in [Register -> Data]
  BY DEF Init
<1>2. guest \in [pc : {"run", "wait"}, op : Op, bar : Bar, off : Off, val : Data]
  BY DEF Init
<1>3. TypeOK
  BY <1>1, <1>2 DEF Init, TypeOK, Bit
<1>4. OfferOK
  BY DEF Init, OfferOK
<1> QED
  BY <1>3, <1>4 DEF TypeInv

(* C_poll keeps bus an address and a value, valid with the request. *)
LEMMA PollType ==
  ASSUME TypeInv, C_poll
  PROVE  /\ qemu_req' \in Seq(Frame)
         /\ req_m_rvalid' \in Bit /\ req_m_wvalid' \in Bit
         /\ bus' \in [addr : Register \cup {0}, val : Data]
         /\ req_m_rvalid' = 1 \/ req_m_wvalid' = 1 => bus'.addr \in Register
         /\ bus.addr \in Register => bus'.addr \in Register
<1>1. CASE Poll /\ qemu_req = <<>>
  BY <1>1 DEF TypeInv, TypeOK, OfferOK, Poll, Bit
<1>2. CASE Poll /\ qemu_req # <<>>
  <2> DEFINE r == Head(qemu_req)
  <2>1. r \in Frame /\ Tail(qemu_req) \in Seq(Frame)
    BY <1>2, QueueType DEF TypeInv, TypeOK
  <2>2. BusAddr(r.bar, r.off) \in Register
    BY <2>1, BusAddrType DEF Frame
  <2>3. bus.val \in Data /\ r.val \in Data
    BY <2>1 DEF TypeInv, TypeOK, Frame
  <2>4. /\ qemu_req' = Tail(qemu_req)
        /\ req_m_rvalid' = IF r.op = "READ" THEN 1 ELSE 0
        /\ req_m_wvalid' = IF r.op = "READ" THEN 0 ELSE 1
        /\ bus' = [addr |-> BusAddr(r.bar, r.off),
                   val |-> IF r.op = "READ" THEN bus.val ELSE r.val]
    BY <1>2 DEF Poll, PollAddr, PollData
  <2> HIDE DEF r
  <2> QED
    BY <2>1, <2>2, <2>3, <2>4 DEF Bit
<1>3. CASE PollOther
  <2>1. PICK v \in Data : bus' = [addr |-> bus.addr, val |-> v]
    BY <1>3 DEF PollOther
  <2> QED
    BY <1>3, <2>1 DEF PollOther, TypeInv, TypeOK, OfferOK, Bit
<1> QED
  BY <1>1, <1>2, <1>3 DEF C_poll

(* axi4_m_r and axi4_m_w offer addresses of the device only: the one they  *)
(* latch, before or after C_poll changed it, was polled.                   *)
LEMMA MasterType ==
  ASSUME TypeInv, C_poll, NEW aw, NEW w, NEW ar, NEW b, NEW r,
         MasterRead(ar, r), MasterWrite(aw, w, b)
  PROVE  /\ read_state' \in {"IDLE", "DATA"} /\ arvalid' \in Bit
         /\ r_addr' \in Register \cup {0} /\ (arvalid' = 1 => r_addr' \in Register)
         /\ write_state' \in {"IDLE", "DATA", "RESPONSE"}
         /\ awvalid' \in Bit /\ wvalid' \in Bit /\ w_data' \in Data
         /\ w_addr' \in Register \cup {0} /\ (awvalid' = 1 => w_addr' \in Register)
<1>1. \A x \in Latched : /\ x.addr \in Register \cup {0} /\ x.val \in Data
                         /\ req_m_rvalid = 1 \/ req_m_wvalid = 1 => x.addr \in Register
  BY PollType DEF TypeInv, TypeOK, OfferOK, Latched
<1>2. /\ read_state' \in {"IDLE", "DATA"} /\ arvalid' \in Bit
      /\ r_addr' \in Register \cup {0} /\ (arvalid' = 1 => r_addr' \in Register)
  BY <1>1 DEF MasterRead, TypeInv, TypeOK, OfferOK, Bit, readVars
<1>3. /\ write_state' \in {"IDLE", "DATA", "RESPONSE"}
      /\ awvalid' \in Bit /\ wvalid' \in Bit /\ w_data' \in Data
      /\ w_addr' \in Register \cup {0} /\ (awvalid' = 1 => w_addr' \in Register)
  BY <1>1, MmioConstants DEF MasterWrite, TypeInv, TypeOK, OfferOK, Bit, writeVars
<1> QED
  BY <1>2, <1>3

(* The queues of the slave hold what the masters offered. *)
LEMMA SlaveType ==
  ASSUME TypeInv, NEW aw, NEW w, NEW ar, NEW b, NEW r, Slave(aw, w, ar, b, r)
  PROVE  /\ s_aw' \in Seq(Register) /\ s_ar' \in Seq(Register) /\ s_w' \in Seq(Data)
         /\ mem' \in [Register -> Data]
<1>1. /\ Answered(s_aw, b = 1) \in Seq(Register)
      /\ Answered(s_w, b = 1) \in Seq(Data)
      /\ Answered(s_ar, r = 1) \in Seq(Register)
  BY QueueType DEF Slave, TypeInv, TypeOK, Answered
<1>2. s_aw' \in Seq(Register)
  BY <1>1, QueueType DEF Slave, Taken, TypeInv, OfferOK
<1>3. s_w' \in Seq(Data)
  BY <1>1, QueueType DEF Slave, Taken, TypeInv, TypeOK
<1>4. s_ar' \in Seq(Register)
  BY <1>1, QueueType DEF Slave, Taken, TypeInv, OfferOK
<1>5. mem' \in [Register -> Data]
  <2>1. CASE b = 1
    <3>1. Head(s_w) \in Data
      BY <2>1, QueueType DEF Slave, TypeInv, TypeOK
    <3>2. mem' = [mem EXCEPT ![Head(s_aw)] = Head(s_w)]
      BY <2>1 DEF Slave
    <3> QED
      BY <3>1, <3>2 DEF TypeInv, TypeOK
  <2>2. CASE b # 1
    BY <2>2 DEF Slave, TypeInv, TypeOK
  <2> QED
    BY <2>1, <2>2
<1> QED
  BY <1>2, <1>3, <1>4, <1>5

(* A response carries a register's value, or the bytes of an uninitialised *)
(* frame.                                                                  *)
LEMMA RespondType ==
  ASSUME TypeInv, NEW b, NEW r, Respond(b, r), r = 1 => s_ar # <<>>
  PROVE  qemu_resp' \in Seq(Data)
<1>1. r = 1 => RData \in Data
  BY QueueType DEF RData, TypeInv, TypeOK
<1>2. \A x \in Data : /\ Append(qemu_resp, x) \in Seq(Data)
                      /\ \A y \in Data : Append(Append(qemu_resp, x), y) \in Seq(Data)
  BY QueueType DEF TypeInv, TypeOK
<1>3. CASE r = 1 /\ b = 1
  <2>1. PICK junk \in Data : \/ qemu_resp' = Append(Append(qemu_resp, junk), RData)
                             \/ qemu_resp' = Append(Append(qemu_resp, RData), junk)
    BY <1>3 DEF Respond
  <2> QED
    BY <1>1, <1>2, <1>3, <2>1
<1>4. CASE r = 1 /\ b = 0
  BY <1>1, <1>2, <1>4 DEF Respond
<1>5. CASE r = 0 /\ b = 1
  BY <1>2, <1>5 DEF Respond
<1>6. CASE r = 0 /\ b = 0
  BY <1>6 DEF Respond, TypeInv, TypeOK
<1> QED
  BY <1>3, <1>4, <1>5, <1>6 DEF Respond

(* No action of the guest, the bridge or the slave leaves the types. *)
LEMMA TypeStep == TypeInv /\ [Next]_vars => TypeInv'
<1> SUFFICES ASSUME TypeInv, [Next]_vars PROVE TypeInv'
  OBVIOUS
<1> USE MmioConstants
<1>1. ASSUME NEW op \in Op, NEW b \in Bar, NEW o \in Off, NEW v \in Data,
             mmio_send(op, b, o, v)
      PROVE  TypeInv'
  <2>1. [op |-> op, bar |-> b, off |-> o, val |-> v] \in Frame
    BY DEF Frame
  <2>2. qemu_req' \in Seq(Frame)
    BY <1>1, <2>1, QueueType DEF mmio_send, TypeInv, TypeOK
  <2>3. guest' \in [pc : {"run", "wait"}, op : Op, bar : Bar, off : Off, val : Data]
    BY <1>1 DEF mmio_send
  <2> QED
    BY <1>1, <2>2, <2>3 DEF mmio_send, TypeInv, TypeOK, OfferOK, hdlVars,
       readVars, writeVars, reqVars, slaveVars
<1>2. CASE mmio_return
  <2>1. Head(qemu_resp) \in Data /\ Tail(qemu_resp) \in Seq(Data)
    BY <1>2, QueueType DEF mmio_return, TypeInv, TypeOK
  <2>2. guest' \in [pc : {"run", "wait"}, op : Op, bar : Bar, off : Off, val : Data]
    BY <1>2, <2>1 DEF mmio_return, Returned, TypeInv, TypeOK
  <2> QED
    BY <1>2, <2>1, <2>2 DEF mmio_return, TypeInv, TypeOK, OfferOK, hdlVars,
       readVars, writeVars, reqVars, slaveVars
<1>3. CASE mmio_interrupted
  <2>1. guest' \in [pc : {"run", "wait"}, op : Op, bar : Bar, off : Off, val : Data]
    BY <1>3 DEF mmio_interrupted, Returned, TypeInv, TypeOK
  <2>2. intr' \in 0..MaxIntr
    BY <1>3 DEF mmio_interrupted, TypeInv, TypeOK
  <2> QED
    BY <1>3, <2>1, <2>2 DEF mmio_interrupted, TypeInv, TypeOK, OfferOK, hdlVars,
       readVars, writeVars, reqVars, slaveVars
<1>4. ASSUME NEW aw \in Bit, NEW w \in Bit, NEW ar \in Bit, NEW b \in Bit,
             NEW r \in Bit, posedge(aw, w, ar, b, r)
      PROVE  TypeInv'
  <2>1. /\ C_poll /\ MasterRead(ar, r) /\ MasterWrite(aw, w, b)
        /\ Slave(aw, w, ar, b, r) /\ Respond(b, r)
        /\ UNCHANGED <<guest, intr, rst_n, kind>>
    BY <1>4 DEF posedge
  <2>2. r = 1 => s_ar # <<>>
    BY <2>1 DEF Slave
  <2>3. qemu_resp' \in Seq(Data)
    BY <2>1, <2>2, RespondType
  <2> QED
    BY <2>1, <2>3, PollType, MasterType, SlaveType DEF TypeInv, TypeOK, OfferOK
<1>5. CASE ResetRelease
  BY <1>5 DEF ResetRelease, TypeInv, TypeOK, OfferOK, hdlVars, readVars,
     writeVars, reqVars, slaveVars, Bit
<1>6. ASSUME NEW a \in Register, NEW v \in Data, DeviceStep(a, v)
      PROVE  TypeInv'
  <2>1. mem' \in [Register -> Data]
    BY <1>6 DEF DeviceStep, TypeInv, TypeOK
  <2> QED
    BY <1>6, <2>1 DEF DeviceStep, TypeInv, TypeOK, OfferOK, readVars, writeVars,
       reqVars
<1>7. CASE UNCHANGED vars
  BY <1>7 DEF vars, TypeInv, TypeOK, OfferOK
<1> QED
  BY <1>1, <1>2, <1>3, <1>4, <1>5, <1>6, <1>7
     DEF Next, Tick, mmio_read_bar, mmio_write_bar, Op

(* Every variable keeps its type whatever the slave does and however often *)
(* a receive is interrupted; the address a master offers on its bus is one *)
(* of the device's.                                                        *)
THEOREM TypeCorrect == Spec => []TypeOK
<1>1. TypeInv => TypeOK
  BY DEF TypeInv
<1> QED
  BY <1>1, TypeInit, TypeStep, PTL DEF Spec

-----------------------------------------------------------------------------
(* One access at a time *)

(* What the rest assumes of the bridge's surroundings: no receive is       *)
(* interrupted, no access is made during the reset, no DMA response is     *)
(* polled, and the slave is one of the two kinds axi4_m_w can talk to.     *)
Undisturbed ==
  /\ MaxIntr = 0 /\ MmioInReset = FALSE /\ Others = {}
  /\ SlaveKinds \subseteq {"eager", "lazy"}

(* A queue that is empty or holds one frame. *)
LEMMA Singleton ==
  ASSUME NEW x
  PROVE  /\ Append(<<>>, x) = <<x>> /\ <<x>> # <<>>
         /\ Head(<<x>>) = x /\ Tail(<<x>>) = <<>>
OBVIOUS

(* Parts that have nothing to do keep doing nothing. *)
LEMMA PollStaysIdle ==
  ASSUME Others = {}, qemu_req = <<>>, C_poll
  PROVE  PollIdle' /\ bus' = bus
BY DEF C_poll, Poll, PollOther, PollIdle

(* axi4_m_r with no request and no transfer stays where it is. *)
LEMMA ReadStaysIdle ==
  ASSUME ReadIdle, req_m_rvalid = 0, rst_n \in Bit,
         NEW aw, NEW w, NEW ar, NEW b, NEW r,
         MasterRead(ar, r), Slave(aw, w, ar, b, r)
  PROVE  r # 1 /\ ReadIdle'
<1>1. r # 1 /\ s_ar' = <<>>
  BY DEF ReadIdle, Slave, Taken, Answered
<1> QED
  BY <1>1 DEF ReadIdle, MasterRead, readVars, Bit

(* axi4_m_w with no request and no transfer stays where it is. *)
LEMMA WriteStaysIdle ==
  ASSUME WriteIdle, req_m_wvalid = 0, rst_n \in Bit,
         NEW aw, NEW w, NEW ar, NEW b, NEW r,
         MasterWrite(aw, w, b), Slave(aw, w, ar, b, r)
  PROVE  b # 1 /\ WriteIdle' /\ mem' = mem
<1>1. b # 1 /\ s_aw' = <<>> /\ s_w' = <<>> /\ mem' = mem
  BY DEF WriteIdle, Slave, Taken, Answered
<1> QED
  BY <1>1 DEF WriteIdle, MasterWrite, writeVars, Bit

(* C_response sends nothing on an edge without an R or B handshake. *)
LEMMA SilentStep ==
  ASSUME NEW b, NEW r, b # 1, r # 1, Respond(b, r)
  PROVE  qemu_resp' = qemu_resp
BY DEF Respond

(* What one edge of the clock does to an access, place by place.  Nothing  *)
(* but the last step of a read or write touches qemu_resp or a register.   *)
Quietly == qemu_resp' = qemu_resp /\ mem' = mem
ReadDone ==
  /\ guest.op = "READ" /\ qemu_resp = <<>>
  /\ qemu_resp' = <<mem[Target]>> /\ mem' = mem
WriteDone ==
  /\ guest.op = "WRITE" /\ qemu_resp = <<>>
  /\ \E junk \in Data : qemu_resp' = <<junk>>
  /\ mem' = [mem EXCEPT ![Target] = guest.val]

(* C_poll takes the queued request on the next edge, and nothing else moves. *)
LEMMA EdgeAtQueue ==
  ASSUME Others = {}, TypeInv, rst_n = 1, AtQueue,
         NEW aw, NEW w, NEW ar, NEW b, NEW r, posedge(aw, w, ar, b, r)
  PROVE  AtPoll' /\ Quietly
<1>1. ReadIdle' /\ WriteIdle' /\ r # 1 /\ b # 1 /\ mem' = mem
  BY ReadStaysIdle, WriteStaysIdle DEF AtQueue, posedge, Bit
<1>2. qemu_resp' = qemu_resp
  BY <1>1, SilentStep DEF posedge
<1>3. qemu_req # <<>> /\ Head(qemu_req) = Request /\ Tail(qemu_req) = <<>>
  BY Singleton DEF AtQueue
<1>4. /\ qemu_req' = <<>>
      /\ req_m_rvalid' = IF guest.op = "READ" THEN 1 ELSE 0
      /\ req_m_wvalid' = IF guest.op = "READ" THEN 0 ELSE 1
      /\ bus' = [addr |-> Target, val |-> IF guest.op = "READ" THEN bus.val ELSE guest.val]
  <2>1. /\ Request.op = guest.op /\ Request.val = guest.val
        /\ Request.bar = guest.bar /\ Request.off = guest.off
    BY DEF Request
  <2>2. Poll
    BY DEF posedge, C_poll, PollOther
  <2> QED
    BY <1>3, <2>1, <2>2 DEF Poll, PollAddr, PollData, Target
<1>5. guest.op = "READ" \/ guest.op = "WRITE"
  BY DEF TypeInv, TypeOK, Op
<1>6. guest' = guest /\ Target' = Target
  BY DEF posedge, Target, BusAddr
<1> QED
  BY <1>1, <1>2, <1>4, <1>5, <1>6 DEF AtPoll, AtQueue, Quietly

(* A request C_poll holds moves to the master of its kind. *)
LEMMA EdgeAtPoll ==
  ASSUME Others = {}, TypeInv, rst_n = 1, AtPoll, kind \in {"eager", "lazy"},
         NEW aw, NEW w, NEW ar, NEW b, NEW r, posedge(aw, w, ar, b, r)
  PROVE  (AtRead' \/ AtWrite') /\ Quietly
<1>1. PollIdle' /\ bus' = bus
  BY PollStaysIdle DEF AtPoll, posedge
<1>2. guest' = guest /\ Target' = Target /\ kind' = kind
  BY DEF posedge, Target, BusAddr
<1>3. CASE guest.op = "READ"
  <2>1. req_m_rvalid = 1 /\ req_m_wvalid = 0
    BY <1>3 DEF AtPoll
  <2>2. WriteIdle' /\ b # 1 /\ mem' = mem
    BY <2>1, WriteStaysIdle DEF AtPoll, posedge, Bit
  <2>3. r # 1 /\ s_ar' = <<>>
    BY DEF AtPoll, ReadIdle, posedge, Slave, Taken, Answered
  <2>4. read_state' = "DATA" /\ arvalid' = 1 /\ r_addr' = Target
    BY <1>1, <2>1 DEF AtPoll, ReadIdle, posedge, MasterRead, Latched
  <2>5. qemu_resp' = qemu_resp
    BY <2>2, <2>3, SilentStep DEF posedge
  <2> QED
    BY <1>1, <1>2, <1>3, <2>2, <2>3, <2>4, <2>5 DEF AtPoll, AtRead, Quietly
<1>4. CASE guest.op = "WRITE"
  <2>1. req_m_rvalid = 0 /\ req_m_wvalid = 1 /\ bus.val = guest.val
    BY <1>4 DEF AtPoll
  <2>2. ReadIdle' /\ r # 1
    BY <2>1, ReadStaysIdle DEF AtPoll, posedge, Bit
  <2>3. b # 1 /\ s_aw' = <<>> /\ s_w' = <<>> /\ mem' = mem
    BY DEF AtPoll, WriteIdle, posedge, Slave, Taken, Answered
  <2>4. /\ write_state' = "DATA" /\ awvalid' = 1 /\ wvalid' = 0
        /\ w_addr' = Target /\ w_data' = guest.val
    BY <1>1, <2>1 DEF AtPoll, WriteIdle, posedge, MasterWrite, Latched
  <2>5. qemu_resp' = qemu_resp
    BY <2>2, <2>3, SilentStep DEF posedge
  <2> QED
    BY <1>1, <1>2, <1>4, <2>2, <2>3, <2>4, <2>5 DEF AtPoll, AtWrite, Quietly
<1> QED
  BY <1>3, <1>4 DEF AtPoll

(* A read goes through axi4_m_r, and comes back as one answer. *)
LEMMA EdgeAtRead ==
  ASSUME Others = {}, TypeInv, rst_n = 1, AtRead,
         NEW aw, NEW w, NEW ar, NEW b, NEW r \in Bit, posedge(aw, w, ar, b, r)
  PROVE  \/ AtRead' /\ Quietly
         \/ AtAnswer' /\ ReadDone
<1>1. PollIdle'
  BY PollStaysIdle DEF AtRead, PollIdle, posedge
<1>2. guest' = guest /\ Target' = Target
  BY DEF posedge, Target, BusAddr
<1>3. WriteIdle' /\ b # 1 /\ mem' = mem
  BY WriteStaysIdle DEF AtRead, PollIdle, posedge, Bit
<1>4. CASE r = 0
  <2>1. read_state' = "DATA" /\ r_addr' = Target
    BY <1>4 DEF AtRead, posedge, MasterRead
  <2>2. \/ arvalid' = 1 /\ s_ar' = <<>>
        \/ arvalid' = 0 /\ s_ar' = <<Target>>
    BY <1>4, Singleton DEF AtRead, posedge, MasterRead, Slave, Taken, Answered
  <2>3. qemu_resp' = qemu_resp
    BY <1>3, <1>4, SilentStep DEF posedge
  <2> QED
    BY <1>1, <1>2, <1>3, <2>1, <2>2, <2>3 DEF AtRead, Quietly
<1>5. CASE r = 1
  <2>1. arvalid = 0 /\ s_ar = <<Target>>
    BY <1>5 DEF AtRead, posedge, Slave
  <2>2. s_ar' = <<>>
    BY <1>5, <2>1, Singleton DEF posedge, Slave, Taken, Answered
  <2>3. read_state' = "IDLE" /\ arvalid' = 0
    BY <1>5, <2>1 DEF AtRead, posedge, MasterRead
  <2>4. qemu_resp' = <<mem[Target]>>
    BY <1>3, <1>5, <2>1, Singleton DEF AtRead, posedge, Respond, RData
  <2>5. mem[Target] \in Data
    <3>1. Target \in Register
      BY BusAddrType DEF TypeInv, TypeOK, Target
    <3> QED
      BY <3>1 DEF TypeInv, TypeOK
  <2> QED
    BY <1>1, <1>2, <1>3, <2>2, <2>3, <2>4, <2>5
       DEF AtRead, AtAnswer, Idle, ReadIdle, ReadDone
<1> QED
  BY <1>4, <1>5 DEF Bit

(* A write goes through axi4_m_w, and reaches memory once. *)
LEMMA EdgeAtWrite ==
  ASSUME Others = {}, TypeInv, rst_n = 1, AtWrite, kind \in {"eager", "lazy"},
         NEW aw \in Bit, NEW w \in Bit, NEW ar, NEW b \in Bit, NEW r,
         posedge(aw, w, ar, b, r)
  PROVE  \/ AtWrite' /\ Quietly
         \/ AtAnswer' /\ WriteDone
<1>1. PollIdle'
  BY PollStaysIdle DEF AtWrite, PollIdle, posedge
<1>2. guest' = guest /\ Target' = Target /\ kind' = kind
  BY DEF posedge, Target, BusAddr
<1>3. ReadIdle' /\ r # 1
  BY ReadStaysIdle DEF AtWrite, PollIdle, posedge, Bit
<1>4. /\ MasterWrite(aw, w, b) /\ Slave(aw, w, ar, b, r) /\ Respond(b, r)
      /\ qemu_resp = <<>> /\ guest.op = "WRITE"
      /\ w_addr = Target /\ w_data = guest.val
  BY DEF posedge, AtWrite
<1>5. CASE b = 0
  <2>1. qemu_resp' = qemu_resp
    BY <1>3, <1>4, <1>5, SilentStep
  <2>2. mem' = mem
    BY <1>4, <1>5 DEF Slave
  <2>3. /\ s_aw' = Taken(s_aw, awvalid = 1 /\ aw = 1, Target)
        /\ s_w' = Taken(s_w, wvalid = 1 /\ w = 1, guest.val)
    BY <1>4, <1>5 DEF Slave, Answered
  <2>4. w_addr' = Target /\ w_data' = guest.val
    BY <1>4 DEF AtWrite, MasterWrite
  <2>5. /\ kind = "eager" => aw = 1 /\ w = 1
        /\ kind = "lazy" /\ w = 1 => /\ wvalid = 1 /\ s_w = <<>>
                                     /\ s_aw # <<>> \/ (awvalid = 1 /\ aw = 1)
    BY <1>4 DEF Slave, ReadyRule
  <2>6. CASE write_state = "DATA"
    <3>1. /\ awvalid' = IF aw = 1 THEN 0 ELSE awvalid
          /\ wvalid' = 1
          /\ write_state' = IF w = 1 THEN "RESPONSE" ELSE "DATA"
      BY <1>4, <2>6 DEF MasterWrite
    <3>2. /\ s_w = <<>>
          /\ \/ awvalid = 1 /\ s_aw = <<>>
             \/ awvalid = 0 /\ s_aw = <<Target>> /\ kind = "lazy"
          /\ kind = "eager" => wvalid = 0
      BY <2>6 DEF AtWrite
    <3>3. \/ awvalid' = 1 /\ s_aw' = <<>> /\ aw # 1
          \/ awvalid' = 0 /\ s_aw' = <<Target>>
      <4>1. CASE aw = 1
        <5>1. CASE awvalid = 1
          <6>1. s_aw' = Append(<<>>, Target)
            BY <2>3, <3>2, <4>1, <5>1 DEF Taken
          <6> QED
            BY <3>1, <4>1, <6>1, Singleton
        <5>2. CASE awvalid = 0
          BY <2>3, <3>1, <3>2, <4>1, <5>2 DEF Taken
        <5> QED
          BY <3>2, <5>1, <5>2
      <4>2. CASE aw = 0
        BY <2>3, <3>1, <3>2, <4>2 DEF Taken
      <4> QED
        BY <4>1, <4>2 DEF Bit
    <3>4. CASE w = 1
      <4>1. awvalid' = 0 /\ s_aw' = <<Target>>
        BY <2>5, <3>1, <3>2, <3>3, <3>4, Singleton
      <4>2. \/ kind = "lazy" /\ s_w' = <<guest.val>>
            \/ kind = "eager" /\ s_w' = <<>>
        BY <2>3, <2>5, <3>2, <3>4, Singleton DEF Taken
      <4> QED
        BY <1>1, <1>2, <1>3, <1>4, <2>1, <2>2, <2>4, <3>1, <3>4, <4>1, <4>2
           DEF AtWrite, Quietly
    <3>5. CASE w = 0
      <4>1. kind = "lazy" /\ s_w' = <<>>
        BY <2>3, <2>5, <3>2, <3>5 DEF Taken
      <4> QED
        BY <1>1, <1>2, <1>3, <1>4, <2>1, <2>2, <2>4, <3>1, <3>3, <3>5, <4>1
           DEF AtWrite, Quietly
    <3> QED
      BY <3>4, <3>5 DEF Bit
  <2>7. CASE write_state = "RESPONSE"
    <3>1. wvalid' = 0 /\ write_state' = "RESPONSE" /\ awvalid' = awvalid
      BY <1>4, <1>5, <2>7 DEF MasterWrite
    <3>2. /\ awvalid = 0 /\ s_aw = <<Target>>
          /\ \/ s_w = <<guest.val>> /\ (kind = "eager" => wvalid = 0)
             \/ s_w = <<>> /\ wvalid = 1 /\ kind = "eager"
      BY <2>7 DEF AtWrite
    <3>3. s_aw' = <<Target>>
      BY <2>3, <3>2 DEF Taken
    <3>4. s_w' = <<guest.val>>
      <4>1. CASE s_w = <<>>
        BY <2>3, <2>5, <3>2, <4>1, Singleton DEF Taken
      <4>2. CASE s_w = <<guest.val>>
        <5>1. ~ (wvalid = 1 /\ w = 1)
          BY <2>5, <3>2, <4>2, Singleton
        <5> QED
          BY <2>3, <4>2, <5>1 DEF Taken
      <4> QED
        BY <3>2, <4>1, <4>2
    <3> QED
      BY <1>1, <1>2, <1>3, <1>4, <2>1, <2>2, <2>4, <3>1, <3>2, <3>3, <3>4
         DEF AtWrite, Quietly
  <2> QED
    BY <2>6, <2>7 DEF AtWrite
<1>6. CASE b = 1
  <2>1. s_aw # <<>> /\ s_w # <<>>
    BY <1>4, <1>6 DEF Slave
  <2>2. /\ write_state = "RESPONSE" /\ awvalid = 0
        /\ s_aw = <<Target>> /\ s_w = <<guest.val>>
        /\ kind = "eager" => wvalid = 0
    BY <2>1 DEF AtWrite
  <2>3. kind = "lazy" => w # 1
    BY <1>4, <2>1 DEF Slave, ReadyRule
  <2>4. write_state' = "IDLE" /\ wvalid' = 0 /\ awvalid' = 0
    BY <1>4, <1>6, <2>2 DEF MasterWrite
  <2>5. Answered(s_aw, b = 1) = <<>> /\ Answered(s_w, b = 1) = <<>>
    BY <1>6, <2>2, Singleton DEF Answered
  <2>6. s_aw' = <<>> /\ s_w' = <<>>
    BY <1>4, <2>2, <2>3, <2>5 DEF Slave, Taken
  <2>7. mem' = [mem EXCEPT ![Target] = guest.val]
    BY <1>4, <1>6, <2>2, Singleton DEF Slave
  <2>8. \E junk \in Data : qemu_resp' = <<junk>>
    BY <1>3, <1>4, <1>6, Singleton DEF Respond
  <2> QED
    BY <1>1, <1>3, <1>4, <2>4, <2>6, <2>7, <2>8
       DEF AtAnswer, Idle, WriteIdle, WriteDone
<1> QED
  BY <1>5, <1>6 DEF Bit

(* Nothing moves while the bridge is idle, in the reset and out of it. *)
LEMMA EdgeIdle ==
  ASSUME Others = {}, TypeInv, Idle,
         NEW aw, NEW w, NEW ar, NEW b, NEW r, posedge(aw, w, ar, b, r)
  PROVE  Idle' /\ Quietly
<1>1. PollIdle'
  BY PollStaysIdle DEF Idle, PollIdle, posedge
<1>2. rst_n \in Bit /\ req_m_rvalid = 0 /\ req_m_wvalid = 0 /\ ReadIdle /\ WriteIdle
  BY DEF TypeInv, TypeOK, Idle, PollIdle
<1>3. ReadIdle' /\ r # 1
  BY <1>2, ReadStaysIdle DEF posedge
<1>4. WriteIdle' /\ b # 1 /\ mem' = mem
  BY <1>2, WriteStaysIdle DEF posedge
<1>5. qemu_resp' = qemu_resp
  BY <1>3, <1>4, SilentStep DEF posedge
<1> QED
  BY <1>1, <1>3, <1>4, <1>5 DEF Idle, Quietly

(* One edge of the clock, wherever the access is. *)
LEMMA Edge ==
  ASSUME Undisturbed, TypeInv, OnePlace, Tick
  PROVE  /\ OnePlace'
         /\ Quietly \/ (guest.pc = "wait" /\ (ReadDone \/ WriteDone))
<1>1. PICK aw \in Bit, w \in Bit, ar \in Bit, b \in Bit, r \in Bit :
        posedge(aw, w, ar, b, r)
  BY DEF Tick
<1>2. guest' = guest /\ rst_n' = rst_n
  BY <1>1 DEF posedge
<1>3. kind \in {"eager", "lazy"} /\ Others = {}
  BY DEF Undisturbed, TypeInv, TypeOK
<1>4. CASE guest.pc = "run"
  <2>1. Idle' /\ Quietly
    BY <1>1, <1>3, <1>4, EdgeIdle DEF OnePlace
  <2> QED
    BY <1>2, <1>4, <2>1 DEF OnePlace, Quietly
<1>5. CASE guest.pc = "wait"
  <2>1. rst_n = 1 /\ (AtQueue \/ AtPoll \/ AtRead \/ AtWrite \/ AtAnswer)
    BY <1>5 DEF OnePlace
  <2>2. CASE AtQueue
    BY <1>1, <1>2, <1>3, <1>5, <2>1, <2>2, EdgeAtQueue DEF OnePlace
  <2>3. CASE AtPoll
    BY <1>1, <1>2, <1>3, <1>5, <2>1, <2>3, EdgeAtPoll DEF OnePlace
  <2>4. CASE AtRead
    BY <1>1, <1>2, <1>3, <1>5, <2>1, <2>4, EdgeAtRead DEF OnePlace
  <2>5. CASE AtWrite
    BY <1>1, <1>2, <1>3, <1>5, <2>1, <2>5, EdgeAtWrite DEF OnePlace
  <2>6. CASE AtAnswer
    <3>1. Idle' /\ Quietly
      BY <1>1, <1>3, <2>6, EdgeIdle DEF AtAnswer
    <3> QED
      BY <1>2, <1>5, <2>1, <2>6, <3>1 DEF OnePlace, AtAnswer, Quietly
  <2> QED
    BY <2>1, <2>2, <2>3, <2>4, <2>5, <2>6
<1> QED
  BY <1>4, <1>5 DEF TypeInv, TypeOK

(* A vCPU starts an access: the request joins an idle bridge. *)
LEMMA Send ==
  ASSUME Undisturbed, OnePlace,
         NEW op, NEW b, NEW o, NEW v, mmio_send(op, b, o, v)
  PROVE  OnePlace' /\ Quietly
<1>1. Idle /\ qemu_resp = <<>> /\ rst_n = 1
  BY DEF mmio_send, OnePlace, Undisturbed
<1>2. /\ guest' = [pc |-> "wait", op |-> op, bar |-> b, off |-> o, val |-> v]
      /\ UNCHANGED <<qemu_resp, rst_n, read_state, arvalid, write_state, awvalid,
                     wvalid, req_m_rvalid, req_m_wvalid, s_aw, s_w, s_ar, mem>>
  BY DEF mmio_send, hdlVars, readVars, writeVars, reqVars, slaveVars
<1>3. Request' = [op |-> op, bar |-> b, off |-> o, val |-> v]
  BY <1>2 DEF Request
<1>4. qemu_req' = <<Request'>>
  BY <1>1, <1>3, Singleton DEF mmio_send, Idle, PollIdle
<1>5. AtQueue'
  BY <1>1, <1>2, <1>4 DEF AtQueue, Idle, PollIdle, ReadIdle, WriteIdle
<1> QED
  BY <1>1, <1>2, <1>5 DEF OnePlace, Quietly

(* A vCPU takes the one response there is: nothing is left behind. *)
LEMMA Receive ==
  ASSUME OnePlace, mmio_return
  PROVE  OnePlace' /\ qemu_resp' = <<>> /\ mem' = mem
<1>1. AtAnswer
  BY DEF mmio_return, OnePlace, AtQueue, AtPoll, AtRead, AtWrite
<1>2. qemu_resp' = <<>>
  BY <1>1, Singleton DEF mmio_return, AtAnswer
<1>3. UNCHANGED <<qemu_req, read_state, arvalid, write_state, awvalid, wvalid,
                  req_m_rvalid, req_m_wvalid, s_aw, s_w, s_ar, mem>>
  BY DEF mmio_return, hdlVars, readVars, writeVars, reqVars, slaveVars
<1>4. Idle'
  BY <1>1, <1>3 DEF AtAnswer, Idle, PollIdle, ReadIdle, WriteIdle
<1>5. guest'.pc = "run"
  BY DEF mmio_return, Returned
<1> QED
  BY <1>2, <1>3, <1>4, <1>5 DEF OnePlace

(* The device and the end of the reset move no access. *)
LEMMA Aside ==
  ASSUME OnePlace,
         UNCHANGED <<guest, qemu_req, qemu_resp, kind, bus, req_m_rvalid, req_m_wvalid,
                     readVars, writeVars, s_aw, s_w, s_ar>>,
         rst_n' = rst_n \/ rst_n' = 1
  PROVE  OnePlace'
BY DEF OnePlace, Idle, PollIdle, ReadIdle, WriteIdle, AtQueue, AtPoll, AtRead,
       AtWrite, AtAnswer, Request, Target, BusAddr, readVars, writeVars

(* At the start no access is under way anywhere. *)
LEMMA OnePlaceInit == Init => OnePlace
BY DEF Init, OnePlace, Idle, PollIdle, ReadIdle, WriteIdle

(* Every action moves the access from one place to the next, or not at all. *)
LEMMA OnePlaceStep ==
  ASSUME Undisturbed, TypeInv, OnePlace, [Next]_vars
  PROVE  OnePlace'
<1>1. ASSUME NEW op, NEW b, NEW o, NEW v, mmio_send(op, b, o, v)
      PROVE  OnePlace'
  BY <1>1, Send
<1>2. CASE mmio_return
  BY <1>2, Receive
<1>3. CASE mmio_interrupted
  BY <1>3 DEF mmio_interrupted, Undisturbed, TypeInv, TypeOK
<1>4. CASE Tick
  BY <1>4, Edge
<1>5. CASE ResetRelease
  BY <1>5, Aside DEF ResetRelease, hdlVars, reqVars, slaveVars
<1>6. ASSUME NEW a \in Register, NEW v \in Data, DeviceStep(a, v)
      PROVE  OnePlace'
  BY <1>6, Aside DEF DeviceStep, reqVars
<1>7. CASE UNCHANGED vars
  BY <1>7, Aside DEF vars, readVars, writeVars
<1> QED
  BY <1>1, <1>2, <1>3, <1>4, <1>5, <1>6, <1>7
     DEF Next, mmio_read_bar, mmio_write_bar

(* No access is lost, duplicated or mixed with another one anywhere        *)
(* between the vCPU and the slave.  Proved from the type invariant; it is  *)
(* inductive with it.                                                      *)
THEOREM AlwaysOnePlace ==
  ASSUME Undisturbed
  PROVE  Spec => []OnePlace
<1>1. Init => TypeInv /\ OnePlace
  BY TypeInit, OnePlaceInit
<1>2. TypeInv /\ OnePlace /\ [Next]_vars => (TypeInv /\ OnePlace)'
  BY TypeStep, OnePlaceStep
<1> QED
  BY <1>1, <1>2, PTL DEF Spec

-----------------------------------------------------------------------------
(* Refinement *)

(* The initial states map to initial states of the memory. *)
LEMMA MemoryInit == Init => Memory!Init
<1> SUFFICES ASSUME Init PROVE Memory!Init
  OBVIOUS
<1>1. guest \in [pc : {"run"}, op : Op, bar : Bar, off : Off, val : Data]
  BY MmioConstants DEF Init
<1> QED
  BY <1>1 DEF Init, Memory!Init, Memory!Op, Op

(* Every step is a step of the memory, or changes nothing it can see. *)
LEMMA MemoryStep ==
  ASSUME Undisturbed, TypeInv, OnePlace, [Next]_vars
  PROVE  [Memory!Next]_Memory!vars
<1> DEFINE done == qemu_resp # <<>>
           res  == IF qemu_resp # <<>> THEN Head(qemu_resp) ELSE Zero
<1>1. ASSUME NEW op \in Op, NEW b \in Bar, NEW o \in Off, NEW v \in Data,
             mmio_send(op, b, o, v)
      PROVE  Memory!Next
  <2>1. Quietly
    BY <1>1, Send
  <2>2. Memory!Invoke(op, b, o, v)
    BY <1>1, <2>1 DEF mmio_send, Memory!Invoke, Quietly
  <2> QED
    BY <2>2 DEF Memory!Next, Memory!Op, Op
<1>2. CASE mmio_return
  <2>1. qemu_resp' = <<>> /\ mem' = mem
    BY <1>2, Receive
  <2>2. Memory!Return
    BY <1>2, <2>1 DEF mmio_return, Returned, Memory!Return
  <2> QED
    BY <2>2 DEF Memory!Next
<1>3. CASE mmio_interrupted
  BY <1>3 DEF mmio_interrupted, Undisturbed, TypeInv, TypeOK
<1>4. CASE Tick
  <2>1. guest' = guest
    BY <1>4 DEF Tick, posedge
  <2>2. CASE Quietly
    BY <2>1, <2>2 DEF Quietly, Memory!vars
  <2>3. CASE guest.pc = "wait" /\ ReadDone
    <3>1. res' = mem[Target] /\ done' = TRUE /\ done = FALSE /\ mem' = mem
      BY <2>3, Singleton DEF ReadDone
    <3>2. Memory!Perform
      BY <2>1, <2>3, <3>1 DEF ReadDone, Memory!Perform, Target
    <3> QED
      BY <3>2 DEF Memory!Next
  <2>4. CASE guest.pc = "wait" /\ WriteDone
    <3>1. res' \in Data /\ done' = TRUE /\ done = FALSE
      BY <2>4, Singleton DEF WriteDone
    <3>2. Memory!Perform
      BY <2>1, <2>4, <3>1 DEF WriteDone, Memory!Perform, Target
    <3> QED
      BY <3>2 DEF Memory!Next
  <2> QED
    BY <1>4, <2>2, <2>3, <2>4, Edge
<1>5. CASE ResetRelease
  BY <1>5 DEF ResetRelease, hdlVars, slaveVars, Memory!vars
<1>6. ASSUME NEW a \in Register, NEW v \in Data, DeviceStep(a, v)
      PROVE  Memory!Next
  <2>1. Memory!DeviceStep(a, v)
    BY <1>6 DEF DeviceStep, Memory!DeviceStep
  <2> QED
    BY <2>1 DEF Memory!Next
<1>7. CASE UNCHANGED vars
  BY <1>7 DEF vars, Memory!vars
<1> QED
  BY <1>1, <1>2, <1>3, <1>4, <1>5, <1>6, <1>7, MmioConstants
     DEF Next, mmio_read_bar, mmio_write_bar, Op

(* For the guest, the two sockets, C_poll, the AXI masters and the slave   *)
(* are one memory: each access is performed once, between its call and its *)
(* return, on the register its BAR and offset name, and a read returns     *)
(* what that register holds.                                               *)
THEOREM ImplementsMemory ==
  ASSUME Undisturbed
  PROVE  Spec => MemorySpec
<1>1. Init => Memory!Init /\ TypeInv /\ OnePlace
  BY MemoryInit, TypeInit, OnePlaceInit
<1>2. TypeInv /\ OnePlace /\ [Next]_vars => (TypeInv /\ OnePlace)'
  BY TypeStep, OnePlaceStep
<1>3. TypeInv /\ OnePlace /\ [Next]_vars => [Memory!Next]_Memory!vars
  BY MemoryStep
<1> QED
  BY <1>1, <1>2, <1>3, PTL DEF Spec, MemorySpec, Memory!Spec

-----------------------------------------------------------------------------
(* Receives that may be interrupted: what is on its way is counted, as the *)
(* accesses can no longer be told apart.                                   *)

(* What one edge of the clock does to the counts *)


(* C_poll takes a frame out of qemu_req and raises one valid for it. *)
LEMMA PollFlow ==
  ASSUME TypeInv, C_poll
  PROVE  /\ qemu_req' \in Seq(Frame) /\ req_m_rvalid' \in Bit /\ req_m_wvalid' \in Bit
         /\ Len(qemu_req') + req_m_rvalid' + req_m_wvalid' = Len(qemu_req)
<1>1. /\ qemu_req' \in Seq(Frame) /\ req_m_rvalid' \in Bit /\ req_m_wvalid' \in Bit
  BY PollType
<1>2. qemu_req \in Seq(Frame)
  BY DEF TypeInv, TypeOK
<1> SUFFICES Len(qemu_req') + req_m_rvalid' + req_m_wvalid' = Len(qemu_req)
  BY <1>1
<1>3. ASSUME qemu_req' = qemu_req, req_m_rvalid' = 0, req_m_wvalid' = 0
      PROVE  Len(qemu_req') + req_m_rvalid' + req_m_wvalid' = Len(qemu_req)
  BY <1>2, <1>3
<1>4. CASE Poll /\ qemu_req = <<>>
  BY <1>3, <1>4 DEF Poll
<1>5. CASE Poll /\ qemu_req # <<>>
  <2>1. /\ qemu_req' = Tail(qemu_req)
        /\ \/ req_m_rvalid' = 1 /\ req_m_wvalid' = 0
           \/ req_m_rvalid' = 0 /\ req_m_wvalid' = 1
    BY <1>5 DEF Poll
  <2>2. Len(qemu_req') = Len(qemu_req) - 1 /\ Len(qemu_req) \in Nat \ {0}
    BY <1>2, <1>5, <2>1
  <2> QED
    BY <2>1, <2>2
<1>6. CASE PollOther
  BY <1>3, <1>6 DEF PollOther
<1> QED
  BY <1>4, <1>5, <1>6 DEF C_poll

(* axi4_m_r, outside the reset, has or answers the read it had or was      *)
(* asked for.  The request it ignores while it is busy is the only loss.   *)
LEMMA ReadFlow ==
  ASSUME TypeInv, NEW aw, NEW w, NEW ar, NEW b, NEW r \in Bit,
         MasterRead(ar, r), Slave(aw, w, ar, b, r)
  PROVE  /\ InRead \in Bit /\ InRead' \in Bit
         /\ rst_n = 1 /\ InRead = 0 => InRead' + r = req_m_rvalid
         /\ rst_n = 1 /\ InRead = 1 => InRead' + r = 1
         /\ rst_n = 0 => InRead' + r <= InRead
<1>1. r = 1 => read_state = "DATA"
  BY DEF Slave
<1>2. read_state \in {"IDLE", "DATA"} /\ req_m_rvalid \in Bit
  BY DEF TypeInv, TypeOK
<1> QED
  BY <1>1, <1>2 DEF MasterRead, readVars, InRead, Bit

(* So does axi4_m_w.  C_resp_write is called on any bvalid, which may be   *)
(* one too many unless the master is waiting for it.                       *)
LEMMA WriteFlow ==
  ASSUME TypeInv, NEW aw, NEW w, NEW b \in Bit, MasterWrite(aw, w, b)
  PROVE  /\ InWrite \in Bit /\ InWrite' \in Bit
         /\ rst_n = 1 => InWrite' + b >= InWrite /\ InWrite' + b >= req_m_wvalid
         /\ (b = 1 => write_state = "RESPONSE") => InWrite' + b <= InWrite + req_m_wvalid
<1>1. write_state \in {"IDLE", "DATA", "RESPONSE"} /\ req_m_wvalid \in Bit
  BY DEF TypeInv, TypeOK
<1> QED
  BY <1>1 DEF MasterWrite, writeVars, InWrite, Bit

(* C_resp_read and C_resp_write send one frame for each handshake. *)
LEMMA RespondFlow ==
  ASSUME TypeInv, NEW b \in Bit, NEW r \in Bit, Respond(b, r), r = 1 => s_ar # <<>>
  PROVE  /\ qemu_resp' \in Seq(Data)
         /\ Len(qemu_resp') = Len(qemu_resp) + b + r
<1>1. qemu_resp' \in Seq(Data)
  BY RespondType
<1>2. qemu_resp \in Seq(Data)
  BY DEF TypeInv, TypeOK
<1>3. r = 1 => RData \in Data
  BY QueueType DEF RData, TypeInv, TypeOK
<1>4. \A x \in Data : /\ Len(Append(qemu_resp, x)) = Len(qemu_resp) + 1
                      /\ \A y \in Data : Len(Append(Append(qemu_resp, x), y))
                                           = Len(qemu_resp) + 2
  BY <1>2
<1>5. Len(qemu_resp) \in Nat
  BY <1>2
<1>6. CASE r = 1 /\ b = 1
  <2>1. PICK junk \in Data : \/ qemu_resp' = Append(Append(qemu_resp, junk), RData)
                             \/ qemu_resp' = Append(Append(qemu_resp, RData), junk)
    BY <1>6 DEF Respond
  <2>2. Len(qemu_resp') = Len(qemu_resp) + 2
    BY <1>3, <1>4, <1>6, <2>1
  <2> QED
    BY <1>1, <1>5, <1>6, <2>2
<1>7. CASE r = 1 /\ b = 0
  <2>1. Len(qemu_resp') = Len(qemu_resp) + 1
    BY <1>3, <1>4, <1>7 DEF Respond
  <2> QED
    BY <1>1, <1>5, <1>7, <2>1
<1>8. CASE r = 0 /\ b = 1
  <2>1. Len(qemu_resp') = Len(qemu_resp) + 1
    BY <1>4, <1>8 DEF Respond
  <2> QED
    BY <1>1, <1>5, <1>8, <2>1
<1>9. CASE r = 0 /\ b = 0
  BY <1>1, <1>5, <1>9 DEF Respond
<1> QED
  BY <1>6, <1>7, <1>8, <1>9 DEF Bit

(* Outside the reset an edge loses an access only while another one is     *)
(* left; it never adds one, if B comes only when axi4_m_w waits for it.    *)
LEMMA EdgeFlow ==
  ASSUME TypeInv, NEW aw \in Bit, NEW w \in Bit, NEW ar \in Bit, NEW b \in Bit,
         NEW r \in Bit, posedge(aw, w, ar, b, r)
  PROVE  /\ Outstanding \in Nat /\ Outstanding' \in Nat
         /\ rst_n = 1 /\ Outstanding > 0 => Outstanding' > 0
         /\ (b = 1 => write_state = "RESPONSE") => Outstanding' <= Outstanding
<1> DEFINE q == Len(qemu_req)     q1 == Len(qemu_req')
           p == Len(qemu_resp)    p1 == Len(qemu_resp')
           rv == req_m_rvalid     rv1 == req_m_rvalid'
           wv == req_m_wvalid     wv1 == req_m_wvalid'
           i == InRead            i1 == InRead'
           j == InWrite           j1 == InWrite'
           o == Outstanding       o1 == Outstanding'
<1>1. /\ qemu_req \in Seq(Frame) /\ qemu_resp \in Seq(Data)
      /\ rst_n \in Bit /\ rv \in Bit /\ wv \in Bit
  BY DEF TypeInv, TypeOK
<1>2. q \in Nat /\ p \in Nat
  BY <1>1
<1>3. qemu_req' \in Seq(Frame) /\ rv1 \in Bit /\ wv1 \in Bit /\ q1 + rv1 + wv1 = q
  BY PollFlow DEF posedge
<1>4. /\ i \in Bit /\ i1 \in Bit
      /\ rst_n = 1 /\ i = 0 => i1 + r = rv
      /\ rst_n = 1 /\ i = 1 => i1 + r = 1
      /\ rst_n = 0 => i1 + r <= i
  BY ReadFlow DEF posedge
<1>5. /\ j \in Bit /\ j1 \in Bit
      /\ rst_n = 1 => j1 + b >= j /\ j1 + b >= wv
      /\ (b = 1 => write_state = "RESPONSE") => j1 + b <= j + wv
  BY WriteFlow DEF posedge
<1>6. qemu_resp' \in Seq(Data) /\ p1 = p + b + r
  BY RespondFlow DEF posedge, Slave
<1>7. q1 \in Nat /\ p1 \in Nat
  BY <1>3, <1>6
<1>8. o = q + rv + wv + i + j + p /\ o1 = q1 + rv1 + wv1 + i1 + j1 + p1
  BY DEF Outstanding
<1> HIDE DEF q, q1, p, p1, rv, rv1, wv, wv1, i, i1, j, j1, o, o1
<1>9. o \in Nat /\ o1 \in Nat
  BY <1>1, <1>2, <1>3, <1>4, <1>5, <1>7, <1>8 DEF Bit
<1>10. ASSUME rst_n = 1, o > 0 PROVE o1 > 0
  BY <1>1, <1>2, <1>3, <1>4, <1>5, <1>6, <1>7, <1>8, <1>10 DEF Bit
<1>11. ASSUME b = 1 => write_state = "RESPONSE" PROVE o1 <= o
  <2>1. j1 + b <= j + wv
    BY <1>5, <1>11
  <2>2. i1 + r <= i + rv
    BY <1>1, <1>4 DEF Bit
  <2> QED
    BY <1>1, <1>2, <1>3, <1>4, <1>5, <1>6, <1>7, <1>8, <2>1, <2>2 DEF Bit
<1> QED
  BY <1>9, <1>10, <1>11 DEF o, o1

(* Sending a frame adds one to what is on its way. *)
LEMMA SendFlow ==
  ASSUME TypeInv, NEW op \in Op, NEW b \in Bar, NEW o \in Off, NEW v \in Data,
         mmio_send(op, b, o, v)
  PROVE  /\ Outstanding \in Nat /\ Outstanding' = Outstanding + 1
         /\ Waiting = 0 /\ Waiting' = 1
<1>1. /\ qemu_req \in Seq(Frame) /\ qemu_resp \in Seq(Data)
      /\ req_m_rvalid \in Bit /\ req_m_wvalid \in Bit
  BY DEF TypeInv, TypeOK
<1>2. [op |-> op, bar |-> b, off |-> o, val |-> v] \in Frame
  BY DEF Frame
<1>3. Len(qemu_req') = Len(qemu_req) + 1
  BY <1>1, <1>2 DEF mmio_send
<1>4. /\ UNCHANGED <<req_m_rvalid, req_m_wvalid, read_state, write_state, qemu_resp>>
      /\ guest.pc = "run" /\ guest'.pc = "wait"
  BY DEF mmio_send, hdlVars, readVars, writeVars, reqVars
<1>5. /\ Len(qemu_req) \in Nat /\ Len(qemu_resp) \in Nat
      /\ InRead \in Bit /\ InWrite \in Bit /\ InRead' = InRead /\ InWrite' = InWrite
      /\ Len(qemu_resp') = Len(qemu_resp)
  BY <1>1, <1>4 DEF InRead, InWrite, Bit
<1> QED
  BY <1>1, <1>3, <1>4, <1>5 DEF Outstanding, Waiting, Bit

(* A receive that gets a frame takes one away. *)
LEMMA ReturnFlow ==
  ASSUME TypeInv, mmio_return
  PROVE  /\ Outstanding \in Nat /\ Outstanding' = Outstanding - 1
         /\ Waiting = 1 /\ Waiting' = 0
<1>1. /\ qemu_req \in Seq(Frame) /\ qemu_resp \in Seq(Data)
      /\ req_m_rvalid \in Bit /\ req_m_wvalid \in Bit
  BY DEF TypeInv, TypeOK
<1>2. Len(qemu_resp') = Len(qemu_resp) - 1
  BY <1>1 DEF mmio_return
<1>3. /\ UNCHANGED <<req_m_rvalid, req_m_wvalid, read_state, write_state, qemu_req>>
      /\ guest.pc = "wait" /\ guest'.pc = "run"
  BY DEF mmio_return, Returned, hdlVars, readVars, writeVars, reqVars
<1>4. /\ Len(qemu_req) \in Nat /\ Len(qemu_resp) \in Nat
      /\ InRead \in Bit /\ InWrite \in Bit /\ InRead' = InRead /\ InWrite' = InWrite
      /\ Len(qemu_req') = Len(qemu_req)
  BY <1>1, <1>3 DEF InRead, InWrite, Bit
<1> QED
  BY <1>1, <1>2, <1>3, <1>4 DEF Outstanding, Waiting, Bit

(* The actions that move no access leave the counts alone. *)
LEMMA StillFlow ==
  ASSUME UNCHANGED <<guest, qemu_req, qemu_resp, req_m_rvalid, req_m_wvalid,
                     read_state, write_state>>
  PROVE  Outstanding' = Outstanding /\ Waiting' = Waiting
BY DEF Outstanding, Waiting, InRead, InWrite

(* What is on its way is a number. *)
LEMMA OutstandingType == TypeInv => Outstanding \in Nat /\ Waiting \in Bit
<1> SUFFICES ASSUME TypeInv PROVE Outstanding \in Nat /\ Waiting \in Bit
  OBVIOUS
<1>1. /\ qemu_req \in Seq(Frame) /\ qemu_resp \in Seq(Data)
      /\ req_m_rvalid \in Bit /\ req_m_wvalid \in Bit
  BY DEF TypeInv, TypeOK
<1>2. Len(qemu_req) \in Nat /\ Len(qemu_resp) \in Nat
  BY <1>1
<1> QED
  BY <1>1, <1>2 DEF Outstanding, Waiting, InRead, InWrite, Bit

-----------------------------------------------------------------------------
(* Somebody who waits has something to wait for *)

(* The guest does not use the bridge before the reset is over: nothing is  *)
(* polled into masters that forget it.                                     *)
AfterReset == MmioInReset = FALSE

(* During the reset no vCPU waits. *)
NoneInReset == rst_n = 0 => guest.pc = "run"

AnswerInv == TypeInv /\ NoneInReset /\ AnswerComing

(* At the start nobody waits. *)
LEMMA AnswerInit == Init => AnswerInv
<1> SUFFICES ASSUME Init PROVE AnswerInv
  OBVIOUS
<1>1. TypeInv
  BY TypeInit
<1>2. guest.pc = "run"
  BY DEF Init
<1>3. Waiting = 0 /\ Outstanding \in Nat
  BY <1>1, <1>2, OutstandingType DEF Waiting
<1> QED
  BY <1>1, <1>2, <1>3 DEF AnswerInv, NoneInReset, AnswerComing

(* No action takes the last answer away from a vCPU that waits. *)
LEMMA AnswerStep ==
  ASSUME AfterReset, AnswerInv, [Next]_vars
  PROVE  AnswerInv'
<1>1. TypeInv /\ NoneInReset /\ AnswerComing
  BY DEF AnswerInv
<1>2. TypeInv'
  BY <1>1, TypeStep
<1>3. Outstanding' \in Nat /\ Waiting' \in Bit
  <2>1. (TypeInv => Outstanding \in Nat /\ Waiting \in Bit)'
    BY OutstandingType, PTL
  <2> QED
    BY <1>2, <2>1
<1> SUFFICES NoneInReset' /\ Waiting' <= Outstanding'
  BY <1>2 DEF AnswerInv, AnswerComing
<1>4. ASSUME NEW op \in Op, NEW b \in Bar, NEW o \in Off, NEW v \in Data,
             mmio_send(op, b, o, v)
      PROVE  NoneInReset' /\ Waiting' <= Outstanding'
  <2>1. rst_n' # 0
    BY <1>4 DEF mmio_send, AfterReset
  <2> QED
    BY <1>1, <1>4, <2>1, SendFlow DEF NoneInReset
<1>5. ASSUME guest'.pc = "run"
      PROVE  NoneInReset' /\ Waiting' <= Outstanding'
  BY <1>3, <1>5 DEF NoneInReset, Waiting
<1>6. CASE mmio_return \/ mmio_interrupted
  BY <1>5, <1>6 DEF mmio_return, mmio_interrupted, Returned
<1>7. CASE Tick
  <2>1. PICK aw \in Bit, w \in Bit, ar \in Bit, b \in Bit, r \in Bit :
          posedge(aw, w, ar, b, r)
    BY <1>7 DEF Tick
  <2>2. guest' = guest /\ rst_n' = rst_n
    BY <2>1 DEF posedge
  <2>3. CASE guest.pc = "wait"
    <3>1. rst_n = 1 /\ Outstanding > 0
      BY <1>1, <2>3, OutstandingType
         DEF NoneInReset, AnswerComing, Waiting, TypeInv, TypeOK, Bit
    <3>2. Outstanding' > 0
      BY <1>1, <2>1, <3>1, EdgeFlow
    <3> QED
      BY <1>3, <2>2, <3>1, <3>2 DEF NoneInReset, Bit
  <2>4. CASE guest.pc = "run"
    BY <1>5, <2>2, <2>4
  <2> QED
    BY <1>1, <2>3, <2>4 DEF TypeInv, TypeOK
<1>8. ASSUME UNCHANGED <<guest, qemu_req, qemu_resp, req_m_rvalid, req_m_wvalid,
                         read_state, write_state>>,
             rst_n' = rst_n \/ rst_n' = 1
      PROVE  NoneInReset' /\ Waiting' <= Outstanding'
  BY <1>1, <1>8, StillFlow DEF NoneInReset, AnswerComing
<1>9. CASE ResetRelease
  BY <1>8, <1>9 DEF ResetRelease, hdlVars, readVars, writeVars, reqVars
<1>10. ASSUME NEW a \in Register, NEW v \in Data, DeviceStep(a, v)
       PROVE  NoneInReset' /\ Waiting' <= Outstanding'
  BY <1>8, <1>10 DEF DeviceStep, readVars, writeVars, reqVars
<1>11. CASE UNCHANGED vars
  BY <1>8, <1>11 DEF vars
<1> QED
  BY <1>4, <1>6, <1>7, <1>9, <1>10, <1>11, MmioConstants
     DEF Next, mmio_read_bar, mmio_write_bar, Op

(* However often receives are interrupted, whatever the slave does with    *)
(* its ready signals and whatever else C_poll finds: a vCPU blocked in     *)
(* mmio_read_bar or mmio_write_bar always has a request or a response on   *)
(* its way, although a busy master ignores what is polled meanwhile.       *)
THEOREM AlwaysAnswerComing == AfterReset => (Spec => []AnswerComing)
<1> SUFFICES ASSUME AfterReset PROVE Spec => []AnswerComing
  OBVIOUS
<1>1. AnswerInv /\ [Next]_vars => AnswerInv'
  BY AnswerStep
<1>2. AnswerInv => AnswerComing
  BY DEF AnswerInv
<1> QED
  BY <1>1, <1>2, AnswerInit, PTL DEF Spec

-----------------------------------------------------------------------------
(* Nothing is answered twice *)

(* The slave is one of the two kinds axi4_m_w can talk to: with a slave    *)
(* that is ready for data before it has the address, the master leaves an  *)
(* address or a beat behind, which some later write is then answered for.  *)
Orderly == SlaveKinds \subseteq {"eager", "lazy"}

(* Exactly one beat has been accepted. *)
Single(q) == q # <<>> /\ Tail(q) = <<>>

(* How far axi4_m_w and the slave are with the one write they share. *)
WriteBegun ==
  /\ write_state = "DATA" /\ s_w = <<>>
  /\ \/ awvalid = 1 /\ s_aw = <<>>
     \/ awvalid = 0 /\ Single(s_aw) /\ kind = "lazy"
  /\ kind = "eager" => wvalid = 0
WriteSent ==
  /\ write_state = "RESPONSE" /\ awvalid = 0 /\ Single(s_aw)
  /\ \/ Single(s_w) /\ (kind = "eager" => wvalid = 0)
     \/ s_w = <<>> /\ wvalid = 1 /\ kind = "eager"

(* The slave holds nothing of any other write.  In the reset it holds      *)
(* nothing at all.                                                         *)
OneWrite ==
  /\ WriteIdle \/ WriteBegun \/ WriteSent
  /\ rst_n = 0 => WriteIdle

CountInv == TypeInv /\ OneWrite /\ OneAnswerEach

(* A queue that takes its first beat holds one. *)
LEMMA FirstBeat ==
  ASSUME NEW x
  PROVE  Single(Append(<<>>, x))
BY Singleton DEF Single

(* One edge of the clock at axi4_m_w: B comes only when it waits for it. *)
LEMMA EdgeOneWrite ==
  ASSUME OneWrite, kind \in {"eager", "lazy"}, rst_n \in Bit, req_m_wvalid \in Bit,
         NEW aw \in Bit, NEW w \in Bit, NEW ar \in Bit, NEW b \in Bit,
         NEW r \in Bit, posedge(aw, w, ar, b, r)
  PROVE  OneWrite' /\ (b = 1 => write_state = "RESPONSE")
<1>1. /\ MasterWrite(aw, w, b) /\ Slave(aw, w, ar, b, r)
      /\ kind' = kind /\ rst_n' = rst_n
  BY DEF posedge
<1>2. /\ b = 1 => s_aw # <<>> /\ s_w # <<>>
      /\ s_aw' = Taken(Answered(s_aw, b = 1), awvalid = 1 /\ aw = 1, w_addr)
      /\ s_w' = Taken(Answered(s_w, b = 1), wvalid = 1 /\ w = 1, w_data)
  BY <1>1 DEF Slave
<1>3. /\ kind = "eager" => aw = 1 /\ w = 1
      /\ kind = "lazy" /\ w = 1 => /\ wvalid = 1 /\ s_w = <<>>
                                   /\ s_aw # <<>> \/ (awvalid = 1 /\ aw = 1)
  BY <1>1 DEF Slave, ReadyRule
<1>4. b = 1 => write_state = "RESPONSE"
  BY <1>2 DEF OneWrite, WriteIdle, WriteBegun, WriteSent
<1>5. CASE WriteIdle
  <2>1. b = 0 /\ s_aw' = <<>> /\ s_w' = <<>>
    BY <1>2, <1>5 DEF WriteIdle, Taken, Answered, Bit
  <2>2. CASE rst_n = 0 \/ req_m_wvalid = 0
    <3>1. write_state' = "IDLE" /\ awvalid' = 0 /\ wvalid' = 0
      BY <1>1, <1>5, <2>2 DEF WriteIdle, MasterWrite, writeVars
    <3> QED
      BY <1>4, <2>1, <3>1 DEF OneWrite, WriteIdle
  <2>3. CASE rst_n = 1 /\ req_m_wvalid = 1
    <3>1. write_state' = "DATA" /\ awvalid' = 1 /\ wvalid' = 0
      BY <1>1, <1>5, <2>3 DEF WriteIdle, MasterWrite
    <3> QED
      BY <1>1, <1>4, <2>1, <2>3, <3>1 DEF OneWrite, WriteBegun
  <2> QED
    BY <2>2, <2>3 DEF Bit
<1>6. CASE WriteBegun
  <2>1. rst_n = 1 /\ b = 0
    BY <1>2, <1>6 DEF OneWrite, WriteIdle, WriteBegun, Bit
  <2>2. /\ awvalid' = IF aw = 1 THEN 0 ELSE awvalid
        /\ wvalid' = 1
        /\ write_state' = IF w = 1 THEN "RESPONSE" ELSE "DATA"
    BY <1>1, <1>6, <2>1 DEF MasterWrite, WriteBegun
  <2>3. /\ s_aw' = IF awvalid = 1 /\ aw = 1 THEN Append(s_aw, w_addr) ELSE s_aw
        /\ s_w' = IF wvalid = 1 /\ w = 1 THEN Append(<<>>, w_data) ELSE <<>>
    BY <1>2, <1>6, <2>1 DEF WriteBegun, Taken, Answered
  <2>4. \/ awvalid' = 1 /\ s_aw' = <<>> /\ aw # 1
        \/ awvalid' = 0 /\ Single(s_aw')
    <3>1. CASE awvalid = 1 /\ s_aw = <<>> /\ aw = 1
      <4>1. s_aw' = Append(<<>>, w_addr) /\ awvalid' = 0
        BY <2>2, <2>3, <3>1
      <4> QED
        BY <4>1, FirstBeat
    <3>2. CASE awvalid = 1 /\ s_aw = <<>> /\ aw = 0
      BY <2>2, <2>3, <3>2
    <3>3. CASE awvalid = 0 /\ Single(s_aw)
      BY <2>2, <2>3, <3>3 DEF Single
    <3> QED
      BY <1>6, <3>1, <3>2, <3>3 DEF WriteBegun, Bit
  <2>5. CASE w = 1
    <3>1. awvalid' = 0 /\ Single(s_aw')
      BY <1>3, <1>6, <2>2, <2>3, <2>4, <2>5 DEF WriteBegun, Single
    <3>2. \/ kind = "lazy" /\ Single(s_w')
          \/ kind = "eager" /\ s_w' = <<>>
      BY <1>3, <1>6, <2>3, <2>5, FirstBeat DEF WriteBegun
    <3> QED
      BY <1>1, <1>4, <2>1, <2>2, <2>5, <3>1, <3>2 DEF OneWrite, WriteSent, Single
  <2>6. CASE w = 0
    <3>1. kind = "lazy" /\ s_w' = <<>>
      BY <1>3, <2>3, <2>6
    <3> QED
      BY <1>1, <1>4, <2>1, <2>2, <2>4, <2>6, <3>1 DEF OneWrite, WriteBegun, Single
  <2> QED
    BY <2>5, <2>6 DEF Bit
<1>7. CASE WriteSent
  <2>1. rst_n = 1
    BY <1>7 DEF OneWrite, WriteIdle, WriteSent, Bit
  <2>2. /\ wvalid' = 0 /\ awvalid' = 0
        /\ write_state' = IF b = 1 THEN "IDLE" ELSE "RESPONSE"
    BY <1>1, <1>7, <2>1 DEF MasterWrite, WriteSent
  <2>3. CASE b = 1
    <3>1. Answered(s_aw, b = 1) = <<>> /\ Answered(s_w, b = 1) = <<>>
      BY <1>2, <1>7, <2>3 DEF WriteSent, Single, Answered
    <3>2. s_aw' = <<>> /\ s_w' = <<>>
      BY <1>2, <1>3, <1>7, <2>3, <3>1 DEF WriteSent, Single, Taken
    <3> QED
      BY <1>4, <2>2, <2>3, <3>2 DEF OneWrite, WriteIdle
  <2>4. CASE b = 0
    <3>1. s_aw' = s_aw
      BY <1>2, <1>7, <2>4 DEF WriteSent, Taken, Answered
    <3>2. Single(s_w')
      <4>1. s_w' = Taken(s_w, wvalid = 1 /\ w = 1, w_data)
        BY <1>2, <2>4 DEF Answered
      <4>2. CASE s_w = <<>>
        BY <1>3, <1>7, <4>1, <4>2, FirstBeat DEF WriteSent, Single, Taken
      <4>3. CASE Single(s_w)
        BY <1>3, <1>7, <4>1, <4>3 DEF WriteSent, Single, Taken
      <4> QED
        BY <1>7, <4>2, <4>3 DEF WriteSent
    <3> QED
      BY <1>1, <1>4, <1>7, <2>1, <2>2, <2>4, <3>1, <3>2 DEF OneWrite, WriteSent, Single
  <2> QED
    BY <2>3, <2>4 DEF Bit
<1> QED
  BY <1>5, <1>6, <1>7 DEF OneWrite

(* The actions of QEMU, and the slave's own, do not touch the write. *)
LEMMA StillOneWrite ==
  ASSUME OneWrite, UNCHANGED <<write_state, awvalid, wvalid, s_aw, s_w, kind>>,
         rst_n' = rst_n \/ rst_n' = 1
  PROVE  OneWrite'
BY DEF OneWrite, WriteIdle, WriteBegun, WriteSent, Single

(* At the start there is nothing to answer. *)
LEMMA CountInit == Init => CountInv
<1> SUFFICES ASSUME Init PROVE CountInv
  OBVIOUS
<1>1. TypeInv
  BY TypeInit
<1>2. OneWrite
  BY DEF Init, OneWrite, WriteIdle
<1>3. Outstanding = 0 /\ Waiting = 0 /\ intr = 0
  BY DEF Init, Outstanding, Waiting, InRead, InWrite
<1> QED
  BY <1>1, <1>2, <1>3 DEF CountInv, OneAnswerEach

(* Each action that adds an answer adds one that is waited for, and each   *)
(* that gives up waiting is counted.                                       *)
LEMMA CountStep ==
  ASSUME Orderly, CountInv, [Next]_vars
  PROVE  CountInv'
<1>1. TypeInv /\ OneWrite /\ Outstanding <= Waiting + intr
  BY DEF CountInv, OneAnswerEach
<1>2. TypeInv'
  BY <1>1, TypeStep
<1>3. Outstanding \in Nat /\ Waiting \in Bit /\ intr \in Nat
  BY <1>1, OutstandingType, MmioConstants DEF TypeInv, TypeOK
<1> SUFFICES OneWrite' /\ Outstanding' <= Waiting' + intr'
  BY <1>2 DEF CountInv, OneAnswerEach
<1>4. ASSUME NEW op \in Op, NEW b \in Bar, NEW o \in Off, NEW v \in Data,
             mmio_send(op, b, o, v)
      PROVE  OneWrite' /\ Outstanding' <= Waiting' + intr'
  <2>1. OneWrite'
    BY <1>1, <1>4, StillOneWrite DEF mmio_send, hdlVars, writeVars, slaveVars
  <2>2. intr' = intr
    BY <1>4 DEF mmio_send
  <2> QED
    BY <1>1, <1>3, <1>4, <2>1, <2>2, SendFlow
<1>5. CASE mmio_return
  <2>1. OneWrite'
    BY <1>1, <1>5, StillOneWrite DEF mmio_return, hdlVars, writeVars, slaveVars
  <2>2. intr' = intr
    BY <1>5 DEF mmio_return
  <2> QED
    BY <1>1, <1>3, <1>5, <2>1, <2>2, ReturnFlow
<1>6. CASE mmio_interrupted
  <2>1. OneWrite'
    BY <1>1, <1>6, StillOneWrite DEF mmio_interrupted, hdlVars, writeVars, slaveVars
  <2>2. intr' = intr + 1 /\ guest'.pc = "run"
    BY <1>6 DEF mmio_interrupted, Returned
  <2>3. Waiting' = 0
    BY <2>2 DEF Waiting
  <2>4. Outstanding' = Outstanding
    BY <1>6 DEF mmio_interrupted, hdlVars, readVars, writeVars, reqVars,
       Outstanding, InRead, InWrite
  <2> QED
    BY <1>1, <1>3, <2>1, <2>2, <2>3, <2>4 DEF Bit
<1>7. CASE Tick
  <2>1. PICK aw \in Bit, w \in Bit, ar \in Bit, b \in Bit, r \in Bit :
          posedge(aw, w, ar, b, r)
    BY <1>7 DEF Tick
  <2>2. OneWrite' /\ (b = 1 => write_state = "RESPONSE")
    <3>1. kind \in {"eager", "lazy"} /\ rst_n \in Bit /\ req_m_wvalid \in Bit
      BY <1>1 DEF Orderly, TypeInv, TypeOK
    <3> QED
      BY <1>1, <2>1, <3>1, EdgeOneWrite
  <2>3. Outstanding' <= Outstanding /\ Outstanding' \in Nat
    BY <1>1, <2>1, <2>2, EdgeFlow
  <2>4. intr' = intr /\ Waiting' = Waiting
    BY <2>1 DEF posedge, Waiting
  <2> QED
    BY <1>1, <1>3, <2>2, <2>3, <2>4 DEF Bit
<1>8. ASSUME UNCHANGED <<guest, qemu_req, qemu_resp, req_m_rvalid, req_m_wvalid, intr,
                         read_state, write_state, awvalid, wvalid, s_aw, s_w, kind>>,
             rst_n' = rst_n \/ rst_n' = 1
      PROVE  OneWrite' /\ Outstanding' <= Waiting' + intr'
  BY <1>1, <1>8, StillFlow, StillOneWrite
<1>9. CASE ResetRelease
  BY <1>8, <1>9 DEF ResetRelease, hdlVars, readVars, writeVars, reqVars, slaveVars
<1>10. ASSUME NEW a \in Register, NEW v \in Data, DeviceStep(a, v)
       PROVE  OneWrite' /\ Outstanding' <= Waiting' + intr'
  BY <1>8, <1>10 DEF DeviceStep, readVars, writeVars, reqVars
<1>11. CASE UNCHANGED vars
  BY <1>8, <1>11 DEF vars
<1> QED
  BY <1>4, <1>5, <1>6, <1>7, <1>9, <1>10, <1>11, MmioConstants
     DEF Next, mmio_read_bar, mmio_write_bar, Op

(* HDL answers no request twice, in the reset or out of it: there is never *)
(* more on its way than the one vCPU waits for and the interrupted         *)
(* receives have left behind.                                              *)
THEOREM AlwaysOneAnswerEach == Orderly => (Spec => []OneAnswerEach)
<1> SUFFICES ASSUME Orderly PROVE Spec => []OneAnswerEach
  OBVIOUS
<1>1. CountInv /\ [Next]_vars => CountInv'
  BY CountStep
<1>2. CountInv => OneAnswerEach
  BY DEF CountInv
<1> QED
  BY <1>1, <1>2, CountInit, PTL DEF Spec

-----------------------------------------------------------------------------
(* Whose answer it is *)

(* When no receive is interrupted, an access returns with the response to  *)
(* its own request, which HDL has polled by then; run mmio_stale_answer    *)
(* shows that one interrupted receive is enough to lose this.              *)
THEOREM AnswersAreOwn == Undisturbed => (Spec => ReturnsAfterPoll)
<1> SUFFICES ASSUME Undisturbed PROVE Spec => ReturnsAfterPoll
  OBVIOUS
<1>1. Init => TypeInv /\ OnePlace
  BY TypeInit, OnePlaceInit
<1>2. TypeInv /\ OnePlace /\ [Next]_vars => (TypeInv /\ OnePlace)'
  BY TypeStep, OnePlaceStep
<1>3. OnePlace => [mmio_return => qemu_req = <<>>]_vars
  BY DEF mmio_return, OnePlace, AtQueue, AtPoll, AtRead, AtWrite, AtAnswer,
         Idle, PollIdle
<1> QED
  BY <1>1, <1>2, <1>3, PTL DEF Spec, ReturnsAfterPoll
=============================================================================
