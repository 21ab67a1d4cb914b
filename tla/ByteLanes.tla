----------------------------- MODULE ByteLanes ------------------------------
(***************************************************************************)
(* Where each byte of a transfer goes: from the registers of a vCPU or the *)
(* lanes of the device's bus into the bytes of an ACCData frame, and back. *)
(* MmioPath and DmaPath move whole words; this module is about the         *)
(* arithmetic of dpi-pcie.c below them, and a behaviour is one transfer:   *)
(*                                                                         *)
(*   M_WR, M_RD   an access of a vCPU to a register                        *)
(*   S_WR, S_RD   a burst of the device to host memory                     *)
(*   INTR         an interrupt of the device                               *)
(*                                                                         *)
(* Bytes are symbols that tell where they come from, so that one transfer  *)
(* of each shape stands for all contents.  The memory written or read,     *)
(* device registers or host memory, is mem; the byte array of the engine   *)
(* that serves the transfer is buf.                                        *)
(***************************************************************************)
EXTENDS Integers, FiniteSets

CONSTANTS
  BUSW,       \* bytes of a bus word
  BUFF_SIZE,  \* bytes of a buffer; 4096, which is also AXI's page
  MaxLen,     \* a burst has at most MaxLen + 1 beats
  Reads,      \* the shapes of S_RD bursts, see Shape
  Writes,     \* the shapes of S_WR bursts
  SlaveKinds, \* the slaves an access may meet, see Slaves
  WideKinds,  \* those of them that are accessed wider than the bus
  VecNum,     \* MSI-X vectors
  Lines,      \* what the device puts on msix_data: sets of bits
  Settled     \* msix_data is stable when the interrupt line rises

Shapes == {"full", "single", "narrow", "unaligned", "sparse"}

(* The slaves of axi4_m_w and axi4_m_r, as in MmioPath.  dpi-pcie.c gives  *)
(* an access wider than the bus an AxSIZE beyond the bus, which AXI does   *)
(* not have, so what it means is the slave's choice.                       *)
(*   eager     wready is always 1; AxSIZE beyond the bus counts as the bus *)
(*   lazy      as eager, but wready is 1 only for a beat that is there and *)
(*             that the slave waits for                                    *)
(*   stepping  as eager, but AxSIZE is how far the beats are apart         *)
Slaves == {"eager", "lazy", "stepping"}

ASSUME LaneConstants ==
  /\ BUSW \in {1, 2, 4, 8, 16, 32, 64} /\ BUFF_SIZE \in Nat /\ BUFF_SIZE % BUSW = 0
  /\ MaxLen \in Nat /\ VecNum \in Nat \ {0} /\ Settled \in BOOLEAN
  /\ Reads \subseteq Shapes /\ Writes \subseteq Shapes
  /\ SlaveKinds \subseteq Slaves /\ WideKinds \subseteq SlaveKinds
  /\ Lines \subseteq SUBSET (0..31)

VARIABLES
  t,       \* the transfer
  pc,      \* where it is
  frame,   \* the frame between the two programs
  ax,      \* len, size and strb of axi4_ip_mod
  buf,     \* the byte array of the engine
  strb,    \* strb_tmp of axi4_s_w: for each beat the lanes with a strobe
  cnt,     \* beats transferred; r_len_cnt of axi4_m_w, which runs ahead of them
  offer,   \* the word on o_m_wdata of axi4_m_w while o_m_wvalid is 1
  taken,   \* W beats the slave has taken
  mem,     \* the memory accessed
  got      \* the bytes a read has returned

vars == <<t, pc, frame, ax, buf, strb, cnt, offer, taken, mem, got>>

Page  == 0..(BUFF_SIZE - 1)
Buf   == 0..(BUFF_SIZE - 1)
Mem   == 0..(2 * BUFF_SIZE - 1)
Lanes == 0..(BUSW - 1)

(* The byte of memory at x before the transfer; the byte written to x;     *)
(* zero; a byte nobody has set.                                            *)
Old(x) == <<"old", x>>
New(x) == <<"new", x>>
ZeroByte == <<"zero", 0>>
Junk     == <<"junk", 0>>
Byte == ({"old", "new"} \X Mem) \cup {ZeroByte, Junk}

-----------------------------------------------------------------------------
(* The arithmetic of dpi-pcie.c *)

FloorLog[x \in 1..64] == IF x = 1 THEN 0 ELSE 1 + FloorLog[x \div 2]
log2cUp(x) == FloorLog[x] + 1  \* mutant: x & x - 1 is taken for x
log2c(x) == FloorLog[x] + (IF x = 2 ^ FloorLog[x] THEN 0 ELSE 1)

axi_lenUp(size) == size \div BUSW  \* mutant: a full last word is counted twice
axi_len(size) == IF size <= BUSW THEN 0
                 ELSE IF size % BUSW # 0 THEN size \div BUSW ELSE size \div BUSW - 1

align_offset(a) == a % BUSW

burst_sizeLong(width, len) == (len + 2) * 2 ^ width  \* mutant
burst_size(width, len) == (len + 1) * 2 ^ width

(* axi4_s_i: the number of the one bit that is set. *)
NoVector == -1
vectorShort(bits) ==  \* mutant: the case of bit 0 is missing
  IF \E k \in 1..31 : bits = {k} THEN CHOOSE k \in bits : TRUE ELSE NoVector
vector(bits) == IF \E k \in 0..31 : bits = {k} THEN CHOOSE k \in bits : TRUE ELSE NoVector

-----------------------------------------------------------------------------
(* AXI: external.  The bytes of beat n of an incrementing burst; a byte is *)
(* on the lane of its address.  The cap is for accesses wider than the bus *)
(* (see Slaves, and Slip for the slave that does not cap).                 *)
BeatBytes(a, width, n) ==
  LET b == IF 2 ^ width > BUSW THEN BUSW ELSE 2 ^ width
      base == (a \div b) * b + n * b
  IN  (IF n = 0 THEN a ELSE base) .. (base + b - 1)
Bytes(a, width, len) == UNION {BeatBytes(a, width, n) : n \in 0..len}

(* A lane of beat n that has no byte of the transfer carries junk. *)
Beat(a, width, n, Val(_)) ==
  [j \in Lanes |-> IF \E x \in BeatBytes(a, width, n) : x % BUSW = j
                   THEN Val(CHOOSE x \in BeatBytes(a, width, n) : x % BUSW = j)
                   ELSE Junk]

(* Accesses of vCPUs are aligned: QEMU passes no others.  The bursts of    *)
(* the device stay in a page; a sparse one leaves out the strobe of skip.  *)
Accesses ==
  {x \in [op : {"M_WR", "M_RD"}, addr : Page, size : {1, 2, 4, 8}, slave : SlaveKinds] :
     /\ x.addr % x.size = 0 /\ x.addr + x.size - 1 \in Page
     /\ x.size > BUSW => x.slave \in WideKinds}
Bursts ==
  {x \in [op : {"S_WR", "S_RD"}, addr : Page, width : 0..FloorLog[BUSW],
          len : 0..MaxLen, skip : SUBSET {BUFF_SIZE \div 2}] :
     /\ Bytes(x.addr, x.width, x.len) \subseteq Page
     /\ x.skip \subseteq Bytes(x.addr, x.width, x.len)
     /\ x.op = "S_RD" => x.skip = {}}
Shape(x) == IF x.skip # {} THEN "sparse"
            ELSE IF x.addr % 2 ^ x.width # 0 THEN "unaligned"
            ELSE IF 2 ^ x.width = BUSW THEN "full"
            ELSE IF x.len = 0 THEN "single" ELSE "narrow"

NoOffer == -1

Init ==
  /\ \/ t \in Accesses
     \/ t \in {x \in Bursts : Shape(x) \in IF x.op = "S_RD" THEN Reads ELSE Writes}
     \/ t \in [op : {"INTR"}, bits : Lines]
  /\ pc = "begin"
  /\ frame = [size |-> 0, vector |-> 0, data |-> [k \in Buf |-> Junk]]
  /\ ax = [len |-> 0, size |-> 0, strb |-> {}]
  /\ buf = [i \in Buf |-> Junk] /\ strb = [n \in 0..MaxLen |-> {}] /\ cnt = 0
  /\ offer = NoOffer /\ taken = 0
  /\ mem = [x \in Mem |-> Old(x)]
  /\ got = [x \in Mem |-> Junk]

-----------------------------------------------------------------------------
(* Accesses of a vCPU *)

(* The frame was cleared, and has the eight bytes of the value. *)
mmio_bar ==
  /\ pc = "begin" /\ t.op \in {"M_WR", "M_RD"}
  /\ pc' = "qemu_req"
  /\ frame' = [size |-> t.size, vector |-> 0,
               data |-> [k \in Buf |-> IF t.op = "M_WR" /\ k < t.size
                                       THEN New(t.addr + k) ELSE ZeroByte]]
  /\ UNCHANGED <<t, ax, buf, strb, cnt, mem, got, offer, taken>>

C_poll_req ==
  /\ pc = "qemu_req"
  /\ pc' = "m_beat" /\ cnt' = 0
  /\ LET o == align_offset(t.addr) IN
     /\ ax' = [len |-> axi_len(frame.size), size |-> log2c(frame.size),
               strb |-> {o + i : i \in 0..(frame.size - 1)}]
     /\ buf' = IF t.op = "M_RD" THEN buf
               ELSE [i \in Buf |-> IF i >= o THEN frame.data[i - o] ELSE buf[i]]
  /\ UNCHANGED <<t, frame, strb, mem, got, offer, taken>>

(* How far beyond its place a stepping slave has beat n. *)
Slip(n) == IF t.slave = "stepping" THEN n * (2 ^ ax.size - BUSW) ELSE 0

(* The slave at an edge of axi4_m_w.  It takes the word that is offered    *)
(* when it is ready, as its next beat; all strobes but with the last word. *)
SlaveEdge(wready) ==
  /\ IF t.slave = "lazy" THEN wready = 1 => offer # NoOffer /\ taken <= ax.len
                         ELSE wready = 1
  /\ IF offer # NoOffer /\ wready = 1
     THEN LET wstrb == IF offer = ax.len THEN ax.strb \cap Lanes ELSE Lanes
              word  == (t.addr + Slip(taken)) \div BUSW + taken
          IN  /\ mem' = [x \in Mem |-> IF x \div BUSW = word /\ x % BUSW \in wstrb
                                       THEN buf[BUSW * offer + (x % BUSW)] ELSE mem[x]]
              /\ taken' = taken + 1
     ELSE UNCHANGED <<mem, taken>>

(* WRITE_DATA of axi4_m_w.  A word is offered from the next edge on, and   *)
(* the count goes on when wready is 1, whatever wvalid is.                 *)
MasterWriteData ==
  /\ pc = "m_beat" /\ t.op = "M_WR"
  /\ \E wready \in {0, 1} :
       /\ SlaveEdge(wready)
       /\ pc' = IF wready = 1 /\ cnt = ax.len THEN "m_response" ELSE pc
       /\ cnt' = IF wready = 1 /\ cnt # ax.len THEN cnt + 1 ELSE cnt
  /\ offer' = cnt
  /\ UNCHANGED <<t, frame, ax, buf, strb, got>>

(* WRITE_RESPONSE.  The slave answers when it has its beats. *)
MasterWriteResponse ==
  /\ pc = "m_response"
  /\ \E wready \in {0, 1} : SlaveEdge(wready)
  /\ \E bvalid \in {0, 1} : /\ bvalid = 1 => taken = ax.len + 1
                            /\ pc' = IF bvalid = 1 THEN "done" ELSE pc
  /\ offer' = NoOffer
  /\ UNCHANGED <<t, frame, ax, buf, strb, cnt, got>>

(* What the slave has for byte x in beat cnt of a read. *)
Found(x) == IF x + Slip(cnt) \in Mem THEN mem[x + Slip(cnt)] ELSE Junk

(* axi4_m_r and the slave; after the last beat C_resp_read.  rready is 1   *)
(* all the time, so every beat is taken when it comes.                     *)
MasterReadBeat ==
  /\ pc = "m_beat" /\ t.op = "M_RD"
  /\ LET rdata == Beat(t.addr, ax.size, cnt, Found)
     IN  buf' = [i \in Buf |-> IF i \div BUSW = cnt THEN rdata[i % BUSW] ELSE buf[i]]
  /\ cnt' = cnt + 1
  /\ IF cnt = ax.len
     THEN LET o == align_offset(t.addr) IN
          /\ pc' = "qemu_resp"
          /\ frame' = [frame EXCEPT !.data = [k \in Buf |->
                         IF k + o \in Buf THEN buf'[k + o] ELSE Junk]]
     ELSE UNCHANGED <<pc, frame>>
  /\ UNCHANGED <<t, ax, strb, mem, got, offer, taken>>

mmio_read_bar ==
  /\ pc = "qemu_resp"
  /\ pc' = "done"
  /\ got' = [x \in Mem |-> IF x \in t.addr..(t.addr + t.size - 1)
                           THEN frame.data[x - t.addr] ELSE got[x]]
  /\ UNCHANGED <<t, frame, ax, buf, strb, cnt, mem, offer, taken>>

-----------------------------------------------------------------------------
(* Bursts and interrupts of the device *)

C_req_read ==
  /\ pc = "begin" /\ t.op = "S_RD"
  /\ pc' = "hdl_req"
  /\ frame' = [frame EXCEPT !.size = burst_size(t.width, t.len)]
  /\ UNCHANGED <<t, ax, buf, strb, cnt, mem, got, offer, taken>>

(* C_req_write packs the bytes with a strobe, in their order; the rest of  *)
(* the frame is what was on the stack.                                     *)
Strobed(s) == UNION {{i * BUSW + j : j \in s[i] \cap Lanes} : i \in 0..t.len}
Pack(b, s) ==
  LET nth(k) == CHOOSE p \in Strobed(s) : Cardinality({q \in Strobed(s) : q < p}) = k
  IN  [k \in Buf |-> IF k < Cardinality(Strobed(s)) THEN b[nth(k)] ELSE Junk]

(* axi4_s_w; the last beat goes to C_req_write with it. *)
SlaveWriteBeat ==
  /\ (pc = "begin" /\ t.op = "S_WR") \/ pc = "w_beat"
  /\ LET wdata == Beat(t.addr, t.width, cnt, New) IN
     /\ buf' = [i \in Buf |-> IF i \div BUSW = cnt THEN wdata[i % BUSW] ELSE buf[i]]
     /\ strb' = [strb EXCEPT ![cnt] =
                   {x % BUSW : x \in BeatBytes(t.addr, t.width, cnt) \ t.skip}]
  /\ cnt' = cnt + 1
  /\ IF cnt = t.len
     THEN /\ pc' = "hdl_req"
          /\ frame' = [size |-> burst_size(t.width, t.len), vector |-> 0,
                       data |-> Pack(buf', strb')]
     ELSE pc' = "w_beat" /\ UNCHANGED frame
  /\ UNCHANGED <<t, ax, mem, got, offer, taken>>

(* axi4_s_i: vector follows msix_data in a block of its own, which may run *)
(* after the one that sends it when both change at once.                   *)
C_req_interrupt ==
  /\ pc = "begin" /\ t.op = "INTR"
  /\ pc' = "hdl_req"
  /\ \E bits \in IF Settled THEN {t.bits} ELSE Lines :
       frame' = [frame EXCEPT !.vector = vector(bits)]
  /\ UNCHANGED <<t, ax, buf, strb, cnt, mem, got, offer, taken>>

(* QEMU.  msix_notify is given the vector of the frame as it is. *)
handle_hdl_request ==
  /\ pc = "hdl_req"
  /\ \/ /\ t.op = "S_WR"
        /\ pc' = "done"
        /\ mem' = [x \in Mem |-> IF x \in t.addr..(t.addr + frame.size - 1)
                                 THEN frame.data[x - t.addr] ELSE mem[x]]
        /\ UNCHANGED frame
     \/ /\ t.op = "S_RD"
        /\ pc' = "hdl_resp"
        /\ frame' = [frame EXCEPT !.data = [k \in Buf |->
                       IF k < frame.size THEN mem[t.addr + k] ELSE frame.data[k]]]
        /\ UNCHANGED mem
     \/ /\ t.op = "INTR"
        /\ pc' = "done"
        /\ UNCHANGED <<mem, frame>>
  /\ UNCHANGED <<t, ax, buf, strb, cnt, got, offer, taken>>

C_poll_resp ==
  /\ pc = "hdl_resp"
  /\ pc' = "r_beat" /\ cnt' = 0
  /\ LET o == align_offset(t.addr)
     IN  buf' = [i \in Buf |-> IF i \in o..(o + frame.size - 1)
                               THEN frame.data[i - o] ELSE buf[i]]
  /\ UNCHANGED <<t, frame, ax, strb, mem, got, offer, taken>>

(* axi4_s_r, and the master, which takes the lanes of its beat; DmaPath    *)
(* has the handshake between them, edge by edge.                           *)
SlaveReadBeat ==
  /\ pc = "r_beat"
  /\ got' = [x \in Mem |-> IF x \in BeatBytes(t.addr, t.width, cnt)
                           THEN buf[BUSW * cnt + (x % BUSW)] ELSE got[x]]
  /\ cnt' = cnt + 1
  /\ pc' = IF cnt = t.len THEN "done" ELSE pc
  /\ UNCHANGED <<t, frame, ax, buf, strb, mem, offer, taken>>

Next == \/ mmio_bar \/ C_poll_req \/ MasterWriteData \/ MasterWriteResponse
        \/ MasterReadBeat \/ mmio_read_bar
        \/ C_req_read \/ SlaveWriteBeat \/ C_req_interrupt \/ handle_hdl_request
        \/ C_poll_resp \/ SlaveReadBeat

Spec == Init /\ [][Next]_vars

-----------------------------------------------------------------------------
(* Properties *)

(* The values every variable may have. *)
TypeOK ==
  /\ pc \in {"begin", "qemu_req", "m_beat", "m_response", "qemu_resp", "w_beat",
             "hdl_req", "hdl_resp", "r_beat", "done"}
  /\ frame \in [size : Nat, vector : {NoVector} \cup 0..31, data : [Buf -> Byte]]
  /\ buf \in [Buf -> Byte]
  /\ ax \in [len : 0..8, size : 0..3, strb : SUBSET (0..(BUSW + 7))]
  /\ strb \in [0..MaxLen -> SUBSET Lanes]
  /\ cnt \in 0..(BUFF_SIZE + 1) /\ offer \in NoOffer..8 /\ taken \in Nat
  /\ mem \in [Mem -> Byte] /\ got \in [Mem -> Byte]

Asked == IF t.op \in {"M_WR", "M_RD"} THEN t.addr..(t.addr + t.size - 1)
         ELSE Bytes(t.addr, t.width, t.len)
Written == [x \in Mem |-> IF x \in Asked THEN New(x) ELSE Old(x)]

(* An access of any size and address writes the bytes it names and no      *)
(* others, or returns them in their order, whatever words and lanes C_poll *)
(* and C_resp_read had to make of it and however late axi4_m_w offers them *)
(* to the slave.  An access wider than the bus needs an eager slave: a     *)
(* lazy one may get the first word twice.  The header of axi4_m_w.sv warns *)
(* of it ("up to one full bus of data at a time").                         *)
MmioExact ==
  /\ pc = "done" /\ t.op = "M_WR" => mem = Written
  /\ pc = "done" /\ t.op = "M_RD" => \A x \in Asked : got[x] = Old(x)

(* A burst writes to host memory exactly the bytes whose strobes are set,  *)
(* or brings each byte on its lane, although frames have no strobes and no *)
(* lanes; and an interrupt notifies the vector of its line, which is one   *)
(* the device has.  Reads have as many beats as they ask for: the header   *)
(* of axi4_s_r.sv, "up to one full bus of data at a time", is older than   *)
(* the count of beats in its READ_RESPONSE.                                *)
DmaExact ==
  /\ pc = "done" /\ t.op = "S_WR" =>
       mem = [x \in Mem |-> IF x \in t.skip THEN Old(x) ELSE Written[x]]
  /\ pc = "done" /\ t.op = "S_RD" => \A x \in Asked : got[x] = Old(x)
  /\ pc = "done" /\ t.op = "INTR" => t.bits = {frame.vector} /\ frame.vector < VecNum

(* No copy leaves its buffer: neither QEMU's read of host memory into the  *)
(* frame, nor the copy of the response to v_data + align_offset, nor the   *)
(* beats of a burst; none of the three is checked in the code.             *)
InBuffer ==
  /\ pc \in {"hdl_req", "hdl_resp"} => frame.size <= BUFF_SIZE
  /\ pc = "hdl_resp" => align_offset(t.addr) + frame.size <= BUFF_SIZE
  /\ pc \in {"w_beat", "r_beat"} => (cnt + 1) * BUSW <= BUFF_SIZE
=============================================================================
