--------------------------- MODULE DmaPathProofs ----------------------------
(* Theorems about DmaPath, for every host memory, burst length and number  *)
(* of frames the sockets hold.                                             *)
EXTENDS DmaPath, TLAPS

-----------------------------------------------------------------------------
(* Sequences and bursts *)

(* Frames keep their type as the sockets' queues grow and shrink. *)
LEMMA QueueType ==
  ASSUME NEW S, NEW q \in Seq(S)
  PROVE  /\ Len(q) \in Nat
         /\ \A i \in 1..Len(q) : q[i] \in S
         /\ \A x \in S : /\ Append(q, x) \in Seq(S)
                         /\ q \o <<x>> = Append(q, x)
         /\ q \o <<>> = q
         /\ q # <<>> => /\ Head(q) \in S /\ Tail(q) \in Seq(S)
                        /\ Len(q) # 0 /\ Head(q) = q[1] /\ Len(Tail(q)) = Len(q) - 1
                        /\ \A i \in 1..Len(Tail(q)) : Tail(q)[i] = q[i + 1]
OBVIOUS

(* The words of a buffer, in order, are a sequence of words. *)
LEMMA WordsType ==
  ASSUME NEW n \in Nat, NEW f, \A i \in 1..n : f[i] \in Data
  PROVE  Words(f, n) \in Seq(Data) /\ Len(Words(f, n)) = n
BY DEF Words

(* A burst has an address of host memory and between 1 and MaxBeats words. *)
LEMMA BurstShape ==
  ASSUME NEW b \in Burst
  PROVE  /\ b = [addr |-> b.addr, data |-> b.data]
         /\ b.addr \in Addr
         /\ b.data \in Seq(Data) /\ Len(b.data) \in 1..MaxBeats
         /\ b.data = Words(b.data, Len(b.data))
<1>1. PICK s \in Span : b \in [addr : {s.addr}, data : [1..(s.len + 1) -> Data]]
  BY DEF Burst
<1>2. s.addr \in Addr /\ s.len \in 0..(MaxBeats - 1)
  BY DEF Span
<1>3. b.data \in Seq(Data) /\ Len(b.data) = s.len + 1
  BY <1>1, <1>2, DmaConstants
<1> QED
  BY <1>1, <1>2, <1>3, DmaConstants DEF Words

(* There is host memory, so there are bursts and reads to make. *)
LEMMA SomeBurst == Burst # {} /\ Span # {}
<1>1. PICK a \in Addr : TRUE
  BY DmaConstants
<1> DEFINE s == [addr |-> a, len |-> 0]
<1>2. s \in Span
  BY DmaConstants DEF Span
<1>3. [addr |-> a, data |-> [i \in 1..1 |-> Zero]]
        \in [addr : {s.addr}, data : [1..(s.len + 1) -> Data]]
  BY DmaConstants
<1> HIDE DEF s
<1>4. [addr |-> a, data |-> [i \in 1..1 |-> Zero]] \in Burst
  BY <1>2, <1>3 DEF Burst
<1> QED
  BY <1>2, <1>4

(* A read gets as many words of host memory as it asks for. *)
LEMMA LoadType ==
  ASSUME NEW mem \in [Addr -> Data], NEW s \in Span
  PROVE  Load(mem, s) \in Seq(Data) /\ Len(Load(mem, s)) = s.len + 1
<1>1. s.addr \in Addr /\ s.len \in 0..(MaxBeats - 1)
  BY DEF Span
<1>2. \A a \in s.addr .. (s.addr + s.len) : a \in Addr
  BY Zenon DEF Span
<1>3. s.addr \in Nat /\ s.len \in Nat
  <2>1. s.addr \in Nat
    BY <1>1, DmaConstants
  <2>2. s.len \in Nat
    BY <1>1, DmaConstants
  <2> QED
    BY <2>1, <2>2
<1>4. \A i \in 1..(s.len + 1) : s.addr + i - 1 \in s.addr .. (s.addr + s.len)
  BY <1>3
<1>5. \A i \in 1..(s.len + 1) : mem[s.addr + i - 1] \in Data
  BY <1>2, <1>4
<1> QED
  BY <1>3, <1>5 DEF Load

(* A write leaves words in host memory. *)
LEMMA StoreType ==
  ASSUME NEW mem \in [Addr -> Data], NEW b \in Burst
  PROVE  Store(mem, b) \in [Addr -> Data]
<1>1. \A a \in b.addr .. (b.addr + Len(b.data) - 1) : b.data[a - b.addr + 1] \in Data
  BY BurstShape, DmaConstants
<1> QED
  BY <1>1 DEF Store

-----------------------------------------------------------------------------
(* Type correctness *)

(* axi4_s_w has counted the beats the master has sent, and holds them; it  *)
(* is in WRITE_DATA or WRITE_RESPONSE only for a write of the master.      *)
WriteInv ==
  /\ aw = 1 <=> mw.pc = "busy" /\ write_state = "IDLE"
  /\ mw.pc = "idle" => write_state = "IDLE"
  /\ aw = 1 => wsent = 0
  /\ write_state = "DATA" =>
       /\ w_addr = mw.burst.addr /\ w_len + 1 = Len(mw.burst.data)
       /\ w_cnt = wsent /\ w_cnt <= w_len
       /\ \A i \in 1..w_cnt : w_data[i] = mw.burst.data[i]

(* axi4_s_r counts beats up to the length it was given. *)
ReadCount == r_cnt <= r_len

TypeInv == TypeOK /\ WriteInv /\ ReadCount

(* The program starts in a state of its types. *)
LEMMA TypeInit == Init => TypeInv
<1> SUFFICES ASSUME Init PROVE TypeInv
  OBVIOUS
<1>1. (CHOOSE b \in Burst : TRUE) \in Burst /\ (CHOOSE s \in Span : TRUE) \in Span
  BY SomeBurst
<1>2. [i \in 1..MaxBeats |-> Zero] \in Buffer
  BY DmaConstants DEF Buffer
<1>3. <<>> \in Seq(Data) /\ <<>> \in Seq(HdlFrame) /\ <<>> \in Seq(Seq(Data))
  OBVIOUS
<1>4. mw \in [pc : {"idle", "busy"}, burst : Burst]
  BY <1>1 DEF Init
<1>5. mr \in [pc : {"idle", "busy"}, span : Span, data : Seq(Data)]
  BY <1>1, <1>3 DEF Init
<1>6. TypeOK
  BY <1>2, <1>3, <1>4, <1>5, DmaConstants DEF Init, TypeOK, Bit
<1>7. WriteInv /\ ReadCount
  BY DEF Init, WriteInv, ReadCount
<1> QED
  BY <1>6, <1>7 DEF TypeInv

(* The frame C_req_write sends is the burst the master has written: all    *)
(* its beats, in their order, at its address.                              *)
LEMMA WholeBurst ==
  ASSUME TypeInv, NEW wvalid, NEW bready,
         MasterWrite(wvalid, bready), send_to_qemu(wvalid)
  PROVE  WriteFrame = [op |-> "WRITE", burst |-> mw.burst]
<1> DEFINE b == mw.burst
<1>1. b \in Burst /\ w_data \in [1..MaxBeats -> Data]
  BY DEF TypeInv, TypeOK, Buffer
<1>2. /\ w_addr = b.addr /\ w_len + 1 = Len(b.data) /\ wsent = w_len /\ w_cnt = w_len
      /\ \A i \in 1..w_len : w_data[i] = b.data[i]
      /\ w_len \in Nat
  BY DEF TypeInv, TypeOK, WriteInv, send_to_qemu
<1>3. \A i \in 1..(w_len + 1) : WBuffer[i] = b.data[i]
  BY <1>1, <1>2, BurstShape DEF WBuffer, Beat
<1>4. Words(WBuffer, w_len + 1) = Words(b.data, Len(b.data))
  BY <1>2, <1>3 DEF Words
<1> QED
  BY <1>1, <1>2, <1>4, BurstShape DEF WriteFrame

(* axi4_s_w takes one beat after the other, and no more than there are. *)
LEMMA WriteEdge ==
  ASSUME TypeInv, NEW wvalid \in Bit, NEW bready \in Bit,
         MasterWrite(wvalid, bready), SlaveWrite(wvalid, bready)
  PROVE  /\ mw' \in [pc : {"idle", "busy"}, burst : Burst] /\ aw' \in Bit
         /\ wsent' \in 0..MaxBeats /\ acked' \in Nat
         /\ write_state' \in {"IDLE", "DATA", "RESPONSE"} /\ w_addr' \in Addr \cup {0}
         /\ w_len' \in 0..(MaxBeats - 1) /\ w_cnt' \in 0..(MaxBeats - 1)
         /\ w_data' \in Buffer
         /\ WriteInv'
<1> DEFINE b == mw.burst
<1>1. /\ b \in Burst /\ b.addr \in Addr /\ b.data \in Seq(Data)
      /\ Len(b.data) \in 1..MaxBeats
  BY BurstShape DEF TypeInv, TypeOK
<1>2. CASE write_state = "IDLE" /\ aw = 0
  BY <1>2 DEF TypeInv, TypeOK, WriteInv, MasterWrite, SlaveWrite, writeVars, Bit
<1>3. CASE write_state = "IDLE" /\ aw = 1
  <2>1. /\ write_state' = "DATA" /\ w_cnt' = 0 /\ w_addr' = b.addr
        /\ w_len' = Len(b.data) - 1 /\ w_data' = w_data
        /\ aw' = 0 /\ wsent' = wsent /\ mw' = mw /\ acked' = acked
    BY <1>3 DEF MasterWrite, SlaveWrite
  <2>2. wsent = 0 /\ mw.pc = "busy"
    BY <1>3 DEF TypeInv, WriteInv
  <2>3. WriteInv'
    BY <1>1, <2>1, <2>2 DEF WriteInv
  <2> QED
    BY <1>1, <2>1, <2>3, DmaConstants DEF TypeInv, TypeOK, Bit
<1>4. CASE write_state = "DATA" /\ wvalid = 0
  BY <1>4 DEF TypeInv, TypeOK, WriteInv, MasterWrite, SlaveWrite, writeVars, Bit
<1>5. CASE write_state = "DATA" /\ wvalid = 1
  <2>1. /\ w_data' = WBuffer /\ w_addr' = w_addr /\ w_len' = w_len
        /\ w_cnt' = IF w_cnt # w_len THEN w_cnt + 1 ELSE w_cnt
        /\ write_state' = IF w_cnt # w_len THEN "DATA" ELSE "RESPONSE"
        /\ aw' = aw /\ wsent' = wsent + 1 /\ mw' = mw /\ acked' = acked
        /\ wsent < Len(b.data)
    BY <1>5 DEF MasterWrite, SlaveWrite
  <2>2. /\ w_cnt = wsent /\ w_cnt <= w_len /\ w_len \in 0..(MaxBeats - 1)
        /\ w_addr = b.addr /\ w_len + 1 = Len(b.data) /\ w_cnt \in Nat
        /\ mw.pc = "busy" /\ aw = 0
        /\ \A i \in 1..w_cnt : w_data[i] = b.data[i]
        /\ w_data \in [1..MaxBeats -> Data]
    BY <1>5 DEF TypeInv, TypeOK, WriteInv, Bit, Buffer
  <2>3. WBuffer \in Buffer /\ \A i \in 1..(w_cnt + 1) : WBuffer[i] = b.data[i]
    <3>1. w_cnt + 1 \in 1..MaxBeats /\ Beat = b.data[w_cnt + 1] /\ Beat \in Data
      BY <1>1, <2>1, <2>2, DmaConstants DEF Beat
    <3> QED
      BY <2>2, <3>1 DEF WBuffer, Buffer
  <2>4. WriteInv'
    BY <2>1, <2>2, <2>3 DEF WriteInv
  <2> QED
    BY <1>1, <2>1, <2>2, <2>3, <2>4, DmaConstants DEF TypeInv, TypeOK, Bit
<1>6. CASE write_state = "RESPONSE"
  <2>1. /\ write_state' = IF bready = 1 THEN "IDLE" ELSE "RESPONSE"
        /\ UNCHANGED <<w_addr, w_len, w_cnt, w_data, aw, wsent>>
    BY <1>6 DEF MasterWrite, SlaveWrite
  <2>2. \/ bready = 1 /\ mw' = [mw EXCEPT !.pc = "idle"] /\ acked' = acked + 1
        \/ bready # 1 /\ mw' = mw /\ acked' = acked
    BY <1>6 DEF MasterWrite
  <2>3. mw.pc = "busy" /\ aw = 0
    BY <1>6 DEF TypeInv, TypeOK, WriteInv, Bit
  <2>4. /\ mw' \in [pc : {"idle", "busy"}, burst : Burst] /\ acked' \in Nat
        /\ mw'.pc = IF bready = 1 THEN "idle" ELSE "busy"
    BY <2>2, <2>3 DEF TypeInv, TypeOK
  <2> QED
    BY <2>1, <2>3, <2>4 DEF TypeInv, TypeOK, WriteInv, Bit
<1> QED
  BY <1>2, <1>3, <1>4, <1>5, <1>6 DEF TypeInv, TypeOK, Bit

(* C_poll puts words into data. *)
LEMMA PollType ==
  ASSUME TypeInv, PollResp \/ PollOther
  PROVE  data' \in Buffer /\ req_s_rvalid' \in Bit /\ hdl_resp' \in Seq(Seq(Data))
<1>1. data \in [1..MaxBeats -> Data] /\ hdl_resp \in Seq(Seq(Data))
  BY DEF TypeInv, TypeOK, Buffer
<1>2. CASE PollResp
  <2>1. Head(hdl_resp) \in Seq(Data) /\ Tail(hdl_resp) \in Seq(Seq(Data))
    BY <1>1, <1>2, QueueType DEF PollResp
  <2>2. \A i \in 1..MaxBeats : i <= Len(Head(hdl_resp)) => Head(hdl_resp)[i] \in Data
    BY <2>1, QueueType, DmaConstants
  <2>3. data' \in [1..MaxBeats -> Data]
    BY <1>1, <1>2, <2>2 DEF PollResp
  <2> QED
    BY <1>2, <2>1, <2>3 DEF PollResp, Buffer, Bit
<1>3. CASE PollOther
  BY <1>1, <1>3, DmaConstants DEF PollOther, Buffer, Bit
<1> QED
  BY <1>2, <1>3

(* axi4_s_r puts words of its buffer on the bus, and the master takes them.*)
LEMMA ReadEdge ==
  ASSUME TypeInv, PollResp \/ PollOther, NEW rready \in Bit,
         MasterRead(rready), SlaveRead(rready)
  PROVE  /\ mr' \in [pc : {"idle", "busy"}, span : Span, data : Seq(Data)]
         /\ ar' \in Bit /\ beats' \in Seq(Data)
         /\ read_state' \in {"IDLE", "DATA", "RESPONSE"}
         /\ r_len' \in 0..(MaxBeats - 1) /\ r_cnt' \in 0..(MaxBeats - 1)
         /\ r_data' \in Buffer
         /\ rvalid' \in Bit /\ rlast' \in Bit /\ rdata' \in Data
         /\ ReadCount'
<1>1. mr.span \in Span /\ mr.span.len \in 0..(MaxBeats - 1)
  BY DEF TypeInv, TypeOK, Span
<1>2. /\ mr' \in [pc : {"idle", "busy"}, span : Span, data : Seq(Data)]
      /\ ar' \in Bit /\ beats' \in Seq(Data)
  <2>1. beats' = beats \/ beats' = Append(beats, rdata)
    BY DEF MasterRead
  <2>2. beats' \in Seq(Data)
    <3>1. beats \in Seq(Data) /\ rdata \in Data
      BY DEF TypeInv, TypeOK
    <3> QED
      BY <2>1, <3>1, QueueType
  <2>3. mr' = mr \/ mr' = [pc |-> "idle", span |-> mr.span, data |-> beats']
    BY DEF MasterRead
  <2>4. ar' \in Bit
    BY DEF MasterRead, TypeInv, TypeOK, Bit
  <2> QED
    BY <1>1, <2>2, <2>3, <2>4 DEF TypeInv, TypeOK
<1>3. CASE ReadIdle
  <2>1. \/ read_state' = "DATA" /\ r_len' = mr.span.len /\ r_cnt' = 0
        \/ UNCHANGED <<read_state, r_len, r_cnt>>
    BY <1>3 DEF ReadIdle
  <2>2. /\ read_state' \in {"IDLE", "DATA", "RESPONSE"}
        /\ r_len' \in 0..(MaxBeats - 1) /\ r_cnt' \in 0..(MaxBeats - 1)
        /\ r_cnt' <= r_len'
    BY <1>1, <2>1, DmaConstants DEF TypeInv, TypeOK, ReadCount
  <2> QED
    BY <1>2, <1>3, <2>2 DEF ReadIdle, TypeInv, TypeOK, ReadCount, Bit
<1>4. CASE ReadData
  BY <1>2, <1>4, PollType DEF ReadData, TypeInv, TypeOK, ReadCount, Bit
<1>5. CASE ReadResponse(rready)
  <2>1. r_data[r_cnt + 1] \in Data
    BY DmaConstants DEF TypeInv, TypeOK, Buffer
  <2>2. /\ r_len' = r_len /\ r_data' = r_data
        /\ r_cnt' = r_cnt \/ (r_cnt # r_len /\ r_cnt' = r_cnt + 1)
        /\ read_state' \in {"IDLE", "RESPONSE"}
        /\ rvalid' = rvalid \/ rvalid' = 1
        /\ rlast' = rlast \/ rlast' = 1
        /\ rdata' = rdata \/ rdata' = r_data[r_cnt + 1]
    BY <1>5 DEF ReadResponse
  <2>3. r_cnt' \in 0..(MaxBeats - 1) /\ r_cnt' <= r_len'
    BY <2>2, DmaConstants DEF TypeInv, TypeOK, ReadCount
  <2> QED
    BY <1>2, <2>1, <2>2, <2>3 DEF TypeInv, TypeOK, ReadCount, Bit
<1> QED
  BY <1>3, <1>4, <1>5 DEF SlaveRead

(* C_req sends what axi4_s_w and axi4_s_r have to send at an edge: the     *)
(* write, the read, or both, in either order.                              *)
WritePosted == [op |-> "WRITE", burst |-> mw.burst]
Sends(wvalid) ==
  LET w == send_to_qemu(wvalid)
      r == read_state = "IDLE" /\ ar = 1
  IN  \/ ~w /\ ~r /\ hdl_req' = hdl_req
      \/ w /\ ~r /\ hdl_req' = Append(hdl_req, WritePosted)
      \/ ~w /\ r /\ hdl_req' = Append(hdl_req, ReadFrame)
      \/ w /\ r /\ hdl_req' = Append(Append(hdl_req, WritePosted), ReadFrame)
      \/ w /\ r /\ hdl_req' = Append(Append(hdl_req, ReadFrame), WritePosted)

(* Frames are of their types. *)
LEMMA FrameType ==
  ASSUME TypeInv
  PROVE  /\ WritePosted \in HdlFrame /\ ReadFrame \in HdlFrame
         /\ \A v \in Vector : [op |-> "INTR", vector |-> v, after |-> acked] \in HdlFrame
<1>1. mw.burst \in Burst /\ mr.span \in Span /\ acked \in Nat
  BY DEF TypeInv, TypeOK
<1> QED
  BY <1>1 DEF HdlFrame, WritePosted, ReadFrame

(* What is in the socket after an edge. *)
LEMMA SendEdge ==
  ASSUME TypeInv, NEW wvalid, NEW bready, MasterWrite(wvalid, bready), C_req(wvalid)
  PROVE  Sends(wvalid) /\ hdl_req' \in Seq(HdlFrame)
<1> DEFINE w == send_to_qemu(wvalid)
           r == read_state = "IDLE" /\ ar = 1
<1>1. hdl_req \in Seq(HdlFrame) /\ WritePosted \in HdlFrame /\ ReadFrame \in HdlFrame
  BY FrameType DEF TypeInv, TypeOK
<1>2. w => WriteFrame = WritePosted
  BY WholeBurst DEF WritePosted
<1>3. /\ Append(hdl_req, WritePosted) \in Seq(HdlFrame)
      /\ Append(hdl_req, ReadFrame) \in Seq(HdlFrame)
      /\ Append(Append(hdl_req, WritePosted), ReadFrame) \in Seq(HdlFrame)
      /\ Append(Append(hdl_req, ReadFrame), WritePosted) \in Seq(HdlFrame)
  BY <1>1, QueueType
<1>4. /\ hdl_req \o <<>> = hdl_req
      /\ hdl_req \o <<WritePosted>> = Append(hdl_req, WritePosted)
      /\ hdl_req \o <<ReadFrame>> = Append(hdl_req, ReadFrame)
      /\ hdl_req \o <<WritePosted>> \o <<>> = Append(hdl_req, WritePosted)
      /\ hdl_req \o <<ReadFrame>> \o <<>> = Append(hdl_req, ReadFrame)
      /\ hdl_req \o <<WritePosted>> \o <<ReadFrame>> = Append(Append(hdl_req, WritePosted), ReadFrame)
      /\ hdl_req \o <<ReadFrame>> \o <<WritePosted>> = Append(Append(hdl_req, ReadFrame), WritePosted)
  BY <1>1, <1>3, QueueType
<1>5. hdl_req' \in {hdl_req \o (IF w THEN <<WriteFrame>> ELSE <<>>)
                              \o (IF r THEN <<ReadFrame>> ELSE <<>>),
                    hdl_req \o (IF r THEN <<ReadFrame>> ELSE <<>>)
                              \o (IF w THEN <<WriteFrame>> ELSE <<>>)}
  BY DEF C_req
<1> HIDE DEF w, r
<1>6. \/ ~w /\ ~r /\ hdl_req' = hdl_req
      \/ w /\ ~r /\ hdl_req' = Append(hdl_req, WritePosted)
      \/ ~w /\ r /\ hdl_req' = Append(hdl_req, ReadFrame)
      \/ w /\ r /\ hdl_req' = Append(Append(hdl_req, WritePosted), ReadFrame)
      \/ w /\ r /\ hdl_req' = Append(Append(hdl_req, ReadFrame), WritePosted)
  BY <1>2, <1>4, <1>5
<1> USE DEF w, r
<1> QED
  BY <1>1, <1>3, <1>6 DEF Sends

(* QEMU serves the first frame, and puts words into memory and sockets. *)
LEMMA ServeType ==
  ASSUME TypeInv, handle_hdl_request
  PROVE  /\ hdl_req' \in Seq(HdlFrame) /\ hdl_resp' \in Seq(Seq(Data))
         /\ host' \in [Addr -> Data] /\ msix' \subseteq Vector /\ landed' \in Nat
<1> DEFINE f == Head(hdl_req)
<1>1. /\ f \in HdlFrame /\ Tail(hdl_req) \in Seq(HdlFrame)
      /\ hdl_resp \in Seq(Seq(Data)) /\ host \in [Addr -> Data]
      /\ msix \subseteq Vector /\ landed \in Nat
  BY QueueType DEF TypeInv, TypeOK, handle_hdl_request
<1>2. /\ f.op = "READ"  => f.span \in Span
      /\ f.op = "WRITE" => f.burst \in Burst
      /\ f.op = "INTR"  => f.vector \in Vector
  BY <1>1 DEF HdlFrame
<1>3. hdl_req' = Tail(hdl_req)
  BY DEF handle_hdl_request
<1>4. CASE f.op = "READ"
  <2>1. /\ hdl_resp' = Append(hdl_resp, Load(host, f.span))
        /\ UNCHANGED <<host, msix, landed>>
    BY <1>4 DEF handle_hdl_request
  <2>2. Load(host, f.span) \in Seq(Data)
    BY <1>1, <1>2, <1>4, LoadType
  <2>3. hdl_resp' \in Seq(Seq(Data))
    BY <1>1, <2>1, <2>2, QueueType
  <2> QED
    BY <1>1, <1>3, <2>1, <2>3
<1>5. CASE f.op = "WRITE"
  <2>1. /\ host' = Store(host, f.burst) /\ landed' = landed + 1
        /\ UNCHANGED <<hdl_resp, msix>>
    BY <1>5 DEF handle_hdl_request
  <2>2. host' \in [Addr -> Data]
    BY <1>1, <1>2, <1>5, <2>1, StoreType
  <2> QED
    BY <1>1, <1>3, <2>1, <2>2
<1>6. CASE f.op = "INTR"
  <2>1. msix' = msix \cup {f.vector} /\ UNCHANGED <<hdl_resp, host, landed>>
    BY <1>6 DEF handle_hdl_request
  <2> QED
    BY <1>1, <1>2, <1>3, <1>6, <2>1
<1> QED
  BY <1>4, <1>5, <1>6 DEF handle_hdl_request

(* A step of the device, the bridge, QEMU or the guest keeps the types. *)
LEMMA TypeStep == TypeInv /\ [Next]_vars => TypeInv'
<1> SUFFICES ASSUME TypeInv, [Next]_vars PROVE TypeInv'
  OBVIOUS
<1>1. ASSUME NEW b \in Burst, StartWrite(b) PROVE TypeInv'
  <2>1. write_state = "IDLE" /\ write_state' = "IDLE"
    BY <1>1 DEF StartWrite, TypeInv, WriteInv, writeVars
  <2>2. mw' \in [pc : {"idle", "busy"}, burst : Burst] /\ mw'.pc = "busy"
    BY <1>1 DEF StartWrite
  <2> QED
    BY <1>1, <2>1, <2>2, DmaConstants DEF StartWrite, TypeInv, TypeOK, WriteInv, ReadCount, writeVars, readVars, Bit
<1>2. ASSUME NEW s \in Span, StartRead(s) PROVE TypeInv'
  <2>1. <<>> \in Seq(Data)
    OBVIOUS
  <2>2. mr' \in [pc : {"idle", "busy"}, span : Span, data : Seq(Data)]
    BY <1>2, <2>1 DEF StartRead
  <2> QED
    BY <1>2, <2>1, <2>2 DEF StartRead, TypeInv, TypeOK, WriteInv, ReadCount, writeVars, readVars, Bit
<1>3. CASE Tick
  <2>1. PICK w \in Bit, b \in Bit, r \in Bit : posedge(w, b, r)
    BY <1>3 DEF Tick, Seen, Rready, Bit
  <2>2. /\ PollResp \/ PollOther
        /\ MasterWrite(w, b) /\ SlaveWrite(w, b) /\ MasterRead(r) /\ SlaveRead(r)
        /\ C_req(w) /\ UNCHANGED <<kind, host, msix, landed>>
    BY <2>1 DEF posedge
  <2>3. hdl_req' \in Seq(HdlFrame)
    BY <2>2, SendEdge
  <2>4. kind' \in MasterKinds /\ host' \in [Addr -> Data] /\ msix' \subseteq Vector
        /\ landed' \in Nat
    BY <2>2 DEF TypeInv, TypeOK
  <2> QED
    BY <2>2, <2>3, <2>4, WriteEdge, ReadEdge, PollType DEF TypeInv, TypeOK
<1>4. ASSUME NEW v \in Vector, interrupt(v) PROVE TypeInv'
  <2>1. hdl_req' \in Seq(HdlFrame)
    BY <1>4, FrameType, QueueType DEF interrupt, TypeInv, TypeOK
  <2> QED
    BY <1>4, <2>1 DEF interrupt, TypeInv, TypeOK, WriteInv, ReadCount, masterVars, writeVars, readVars
<1>5. CASE handle_hdl_request
  BY <1>5, ServeType DEF handle_hdl_request, TypeInv, TypeOK, WriteInv, ReadCount,
                         masterVars, writeVars, readVars
<1>6. ASSUME NEW a \in Addr, NEW v \in Data, GuestStore(a, v) PROVE TypeInv'
  BY <1>6 DEF GuestStore, TypeInv, TypeOK, WriteInv, ReadCount, masterVars, writeVars, readVars
<1>7. ASSUME NEW v \in Vector, GuestTakes(v) PROVE TypeInv'
  BY <1>7 DEF GuestTakes, TypeInv, TypeOK, WriteInv, ReadCount, masterVars, writeVars, readVars
<1>8. CASE UNCHANGED vars
  BY <1>8 DEF vars, TypeInv, TypeOK, WriteInv, ReadCount
<1> QED
  BY <1>1, <1>2, <1>3, <1>4, <1>5, <1>6, <1>7, <1>8 DEF Next

(* Every variable of the bridge's slaves, the sockets and host memory has  *)
(* a value of its type: no beat is stored outside the buffer, and no frame *)
(* names memory the master did not.                                        *)
THEOREM TypeCorrect == Spec => []TypeOK
<1>1. TypeInv => TypeOK
  BY DEF TypeInv
<1> QED
  BY <1>1, TypeInit, TypeStep, PTL DEF Spec

-----------------------------------------------------------------------------
(* Reads and interrupts push the writes before them *)

(* The frames of queue q are served after "from" writes and leave "to"     *)
(* writes in memory; n[i] is how many are there when frame i is served,    *)
(* and no read or interrupt comes before the writes it has to follow.      *)
IsTally(n, q, from, to) ==
  /\ n[1] = from /\ n[Len(q) + 1] = to
  /\ \A i \in 1..Len(q) :
       /\ n[i + 1] = n[i] + one(q[i].op = "WRITE")
       /\ q[i].op # "WRITE" => q[i].after <= n[i]
InOrder(q, from, to) == \E n \in [1..(Len(q) + 1) -> Nat] : IsTally(n, q, from, to)

(* What follows the writes sent so far may be sent now. *)
LEMMA InOrderAppend ==
  ASSUME NEW q \in Seq(HdlFrame), NEW from \in Nat, NEW to \in Nat,
         InOrder(q, from, to), NEW f \in HdlFrame,
         f.op # "WRITE" => f.after <= to
  PROVE  InOrder(Append(q, f), from, to + one(f.op = "WRITE"))
<1>1. PICK n \in [1..(Len(q) + 1) -> Nat] : IsTally(n, q, from, to)
  BY DEF InOrder
<1> DEFINE k == to + one(f.op = "WRITE")
           p == Append(q, f)
           m == [i \in 1..(Len(p) + 1) |-> IF i <= Len(q) + 1 THEN n[i] ELSE k]
<1>2. /\ Len(q) \in Nat /\ Len(p) = Len(q) + 1 /\ p[Len(q) + 1] = f
      /\ \A i \in 1..Len(q) : p[i] = q[i]
  OBVIOUS
<1>3. k \in Nat
  BY DEF one
<1> HIDE DEF p, k
<1>4. m \in [1..(Len(p) + 1) -> Nat]
  BY <1>2, <1>3
<1>5. m[1] = from /\ m[Len(p) + 1] = k
  BY <1>1, <1>2 DEF IsTally
<1>6. ASSUME NEW i \in 1..Len(p)
      PROVE  /\ m[i + 1] = m[i] + one(p[i].op = "WRITE")
             /\ p[i].op # "WRITE" => p[i].after <= m[i]
  <2>1. CASE i \in 1..Len(q)
    BY <1>1, <1>2, <2>1 DEF IsTally
  <2>2. CASE i = Len(q) + 1
    <3>1. m[i] = to /\ m[i + 1] = k /\ p[i] = f
      BY <1>1, <1>2, <2>2 DEF IsTally
    <3> QED
      BY <3>1 DEF k
  <2> QED
    BY <1>2, <2>1, <2>2
<1>7. IsTally(m, p, from, k)
  BY <1>5, <1>6 DEF IsTally
<1> QED
  BY <1>4, <1>7 DEF InOrder, p, k

(* The first frame has waited long enough, and the others wait for it. *)
LEMMA InOrderTail ==
  ASSUME NEW q \in Seq(HdlFrame), NEW from \in Nat, NEW to \in Nat,
         InOrder(q, from, to), q # <<>>
  PROVE  /\ InOrder(Tail(q), from + one(Head(q).op = "WRITE"), to)
         /\ Head(q).op # "WRITE" => Head(q).after <= from
<1>1. PICK n \in [1..(Len(q) + 1) -> Nat] : IsTally(n, q, from, to)
  BY DEF InOrder
<1> DEFINE p == Tail(q)
           m == [i \in 1..(Len(p) + 1) |-> n[i + 1]]
<1>2. /\ Len(q) \in Nat /\ Len(q) # 0 /\ Len(p) = Len(q) - 1 /\ Head(q) = q[1]
      /\ \A i \in 1..Len(p) : p[i] = q[i + 1]
  BY QueueType
<1> HIDE DEF p
<1>3. m \in [1..(Len(p) + 1) -> Nat]
  BY <1>2
<1>4. /\ m[1] = from + one(Head(q).op = "WRITE") /\ m[Len(p) + 1] = to
      /\ Head(q).op # "WRITE" => Head(q).after <= from
  BY <1>1, <1>2 DEF IsTally
<1>5. ASSUME NEW i \in 1..Len(p)
      PROVE  /\ m[i + 1] = m[i] + one(p[i].op = "WRITE")
             /\ p[i].op # "WRITE" => p[i].after <= m[i]
  <2>1. i + 1 \in 1..Len(q) /\ m[i] = n[i + 1] /\ m[i + 1] = n[i + 2] /\ p[i] = q[i + 1]
    BY <1>2
  <2>2. /\ n[(i + 1) + 1] = n[i + 1] + one(q[i + 1].op = "WRITE")
        /\ q[i + 1].op # "WRITE" => q[i + 1].after <= n[i + 1]
    BY <1>1, <2>1 DEF IsTally
  <2>3. (i + 1) + 1 = i + 2
    OBVIOUS
  <2> QED
    BY <2>1, <2>2, <2>3
<1>6. IsTally(m, p, from + one(Head(q).op = "WRITE"), to)
  BY <1>4, <1>5 DEF IsTally
<1> QED
  BY <1>3, <1>4, <1>6 DEF InOrder, p

(* Writes are counted from when they are sent: one that the master has no  *)
(* BRESP for yet is ahead of what is sent after it all the same.           *)
SentWrites == acked + one(write_state = "RESPONSE")
Ordered == InOrder(hdl_req, landed, SentWrites)

(* At an edge a write is sent as axi4_s_w goes to WRITE_RESPONSE, and the  *)
(* BRESP is counted as it leaves it.                                       *)
LEMMA SentCount ==
  ASSUME TypeInv, NEW wvalid \in Bit, NEW bready \in Bit,
         MasterWrite(wvalid, bready), SlaveWrite(wvalid, bready)
  PROVE  /\ SentWrites \in Nat /\ acked <= SentWrites
         /\ SentWrites' = SentWrites + one(send_to_qemu(wvalid))
<1>1. acked \in Nat
  BY DEF TypeInv, TypeOK
<1>2. CASE write_state = "IDLE"
  BY <1>1, <1>2 DEF MasterWrite, SlaveWrite, writeVars, send_to_qemu, SentWrites, one
<1>3. CASE write_state = "DATA"
  BY <1>1, <1>3 DEF MasterWrite, SlaveWrite, writeVars, send_to_qemu, SentWrites, one, Bit
<1>4. CASE write_state = "RESPONSE"
  BY <1>1, <1>4 DEF MasterWrite, SlaveWrite, writeVars, send_to_qemu, SentWrites, one
<1> QED
  BY <1>2, <1>3, <1>4 DEF TypeInv, TypeOK

(* The order is kept at an edge, in whichever order C_req_write and        *)
(* C_req_read are called at it.                                            *)
LEMMA OrderedEdge ==
  ASSUME TypeInv, Ordered, NEW w \in Bit, NEW b \in Bit, NEW r, posedge(w, b, r)
  PROVE  Ordered'
<1> DEFINE n == SentWrites
<1>1. /\ MasterWrite(w, b) /\ SlaveWrite(w, b) /\ C_req(w) /\ landed' = landed
  BY DEF posedge
<1>2. /\ n \in Nat /\ acked <= n /\ landed \in Nat /\ acked \in Nat
      /\ SentWrites' = n + one(send_to_qemu(w))
      /\ hdl_req \in Seq(HdlFrame) /\ InOrder(hdl_req, landed, n)
  BY <1>1, SentCount DEF TypeInv, TypeOK, Ordered
<1>3. /\ WritePosted \in HdlFrame /\ ReadFrame \in HdlFrame
      /\ WritePosted.op = "WRITE" /\ ReadFrame.op = "READ" /\ ReadFrame.after = acked
  BY FrameType DEF WritePosted, ReadFrame
<1> HIDE DEF n
<1>4. /\ InOrder(Append(hdl_req, WritePosted), landed, n + 1)
      /\ InOrder(Append(hdl_req, ReadFrame), landed, n)
  <2>1. InOrder(Append(hdl_req, WritePosted), landed, n + one(WritePosted.op = "WRITE"))
    BY <1>2, <1>3, InOrderAppend
  <2>2. InOrder(Append(hdl_req, ReadFrame), landed, n + one(ReadFrame.op = "WRITE"))
    BY <1>2, <1>3, InOrderAppend
  <2> QED
    BY <1>2, <1>3, <2>1, <2>2 DEF one
<1>5. /\ Append(hdl_req, WritePosted) \in Seq(HdlFrame)
      /\ Append(hdl_req, ReadFrame) \in Seq(HdlFrame)
  BY <1>2, <1>3, QueueType
<1>6. /\ InOrder(Append(Append(hdl_req, WritePosted), ReadFrame), landed, n + 1)
      /\ InOrder(Append(Append(hdl_req, ReadFrame), WritePosted), landed, n + 1)
  <2>1. InOrder(Append(Append(hdl_req, WritePosted), ReadFrame), landed,
                (n + 1) + one(ReadFrame.op = "WRITE"))
    <3>1. n + 1 \in Nat /\ acked <= n + 1
      BY <1>2
    <3> QED
      BY <1>2, <1>3, <1>4, <1>5, <3>1, InOrderAppend
  <2>2. InOrder(Append(Append(hdl_req, ReadFrame), WritePosted), landed,
                n + one(WritePosted.op = "WRITE"))
    BY <1>2, <1>3, <1>4, <1>5, InOrderAppend
  <2> QED
    BY <1>2, <1>3, <2>1, <2>2 DEF one
<1>7. SentWrites' = IF send_to_qemu(w) THEN n + 1 ELSE n
  BY <1>2 DEF one
<1>8. Sends(w)
  BY <1>1, SendEdge
<1> QED
  BY <1>1, <1>2, <1>4, <1>6, <1>7, <1>8 DEF Sends, Ordered

(* Every step keeps the order. *)
LEMMA OrderedStep ==
  ASSUME TypeInv, Ordered, [Next]_vars
  PROVE  Ordered'
<1>1. /\ hdl_req \in Seq(HdlFrame) /\ landed \in Nat /\ acked \in Nat
      /\ SentWrites \in Nat /\ acked <= SentWrites
  BY DEF TypeInv, TypeOK, SentWrites, one
<1>2. CASE Tick
  <2>1. PICK w \in Bit, b \in Bit, r \in Bit : posedge(w, b, r)
    BY <1>2 DEF Tick, Seen, Rready, Bit
  <2> QED
    BY <2>1, OrderedEdge
<1>3. ASSUME NEW v \in Vector, interrupt(v) PROVE Ordered'
  <2> DEFINE f == [op |-> "INTR", vector |-> v, after |-> acked]
  <2>1. hdl_req' = Append(hdl_req, f) /\ landed' = landed /\ SentWrites' = SentWrites
    BY <1>3 DEF interrupt, SentWrites, writeVars
  <2>2. f \in HdlFrame /\ f.op = "INTR" /\ f.after = acked
    BY FrameType
  <2> HIDE DEF f
  <2>3. InOrder(Append(hdl_req, f), landed, SentWrites + one(f.op = "WRITE"))
    BY <1>1, <2>2, InOrderAppend DEF Ordered
  <2> QED
    BY <1>1, <2>1, <2>2, <2>3 DEF Ordered, one
<1>4. CASE handle_hdl_request
  <2>1. /\ hdl_req # <<>> /\ hdl_req' = Tail(hdl_req) /\ SentWrites' = SentWrites
        /\ landed' = landed + one(Head(hdl_req).op = "WRITE")
    BY <1>1, <1>4 DEF handle_hdl_request, SentWrites, writeVars, one
  <2> QED
    BY <1>1, <2>1, InOrderTail DEF Ordered
<1>5. CASE UNCHANGED <<hdl_req, landed, acked, write_state>>
  BY <1>5 DEF Ordered, InOrder, IsTally, SentWrites
<1> QED
  BY <1>2, <1>3, <1>4, <1>5 DEF Next, StartWrite, StartRead, GuestStore, GuestTakes,
                               writeVars, vars

(* QEMU does not notify an interrupt, nor read memory for the device,      *)
(* before every write the device had a BRESP for when it asked is in host  *)
(* memory, whatever is in the socket and however often the clock stops.    *)
THEOREM AlwaysFlushedFirst == Spec => []FlushedFirst
<1>1. Init => Ordered
  <2> SUFFICES ASSUME Init PROVE Ordered
    OBVIOUS
  <2> DEFINE n == [i \in 1..1 |-> 0]
  <2>1. /\ hdl_req = <<>> /\ Len(hdl_req) = 0 /\ landed = 0 /\ SentWrites = 0
    BY DEF Init, SentWrites, one
  <2>2. n \in [1..(Len(hdl_req) + 1) -> Nat] /\ IsTally(n, hdl_req, landed, SentWrites)
    BY <2>1 DEF IsTally
  <2> QED
    BY <2>2 DEF Ordered, InOrder
<1>2. TypeInv /\ Ordered /\ [Next]_vars => (TypeInv /\ Ordered)'
  BY TypeStep, OrderedStep
<1>3. TypeInv /\ Ordered => FlushedFirst
  <2> SUFFICES ASSUME TypeInv, Ordered, hdl_req # <<>>, Head(hdl_req).op # "WRITE"
               PROVE  Head(hdl_req).after <= landed
    BY DEF FlushedFirst
  <2>1. hdl_req \in Seq(HdlFrame) /\ landed \in Nat /\ SentWrites \in Nat
    BY DEF TypeInv, TypeOK, SentWrites, one
  <2> QED
    BY <2>1, InOrderTail DEF Ordered
<1> QED
  BY <1>1, <1>2, <1>3, TypeInit, PTL DEF Spec

-----------------------------------------------------------------------------
(* A read is not lost on its way back *)

(* A master that is ready for the last beat when it is there. *)
Patient == MasterKinds \subseteq {"steady", "pausing"}

(* In READ_IDLE only the last beat of a read can be on the bus. *)
OnlyLast == read_state = "IDLE" /\ rvalid = 1 => rlast = 1

(* Every step keeps the read of the device in a place. *)
LEMMA ReadStep ==
  ASSUME Patient, TypeInv, ReadSomewhere, OnlyLast, [Next]_vars
  PROVE  ReadSomewhere' /\ OnlyLast'
<1>1. CASE Tick
  <2>1. PICK w \in Bit, b \in Bit, r \in Bit : posedge(w, b, r)
    BY <1>1 DEF Tick, Seen, Rready, Bit
  <2>2. MasterRead(r) /\ SlaveRead(r)
    BY <2>1 DEF posedge
  <2>3. CASE ReadIdle
    <3>1. rvalid' = 0 /\ ar' = 0
      BY <2>2, <2>3 DEF ReadIdle, MasterRead
    <3>2. CASE ar = 1
      BY <2>3, <3>1, <3>2 DEF ReadIdle, ReadSomewhere, OnlyLast
    <3>3. CASE ar = 0 /\ mr.pc = "busy"
      <4>1. rvalid = 1 /\ rlast = 1
        BY <2>3, <3>3 DEF ReadIdle, ReadSomewhere, OnlyLast
      <4>2. r = 1
        BY <2>2, <4>1 DEF MasterRead, RreadyRule, Patient, TypeInv, TypeOK
      <4>3. mr'.pc = "idle"
        BY <2>2, <3>3, <4>1, <4>2 DEF MasterRead
      <4> QED
        BY <3>1, <4>3 DEF ReadSomewhere, OnlyLast
    <3>4. CASE ar = 0 /\ mr.pc = "idle"
      BY <2>2, <3>1, <3>4 DEF MasterRead, ReadSomewhere, OnlyLast
    <3> QED
      BY <3>2, <3>3, <3>4 DEF TypeInv, TypeOK, Bit
  <2>4. CASE ReadData
    BY <2>4 DEF ReadData, ReadSomewhere, OnlyLast
  <2>5. CASE ReadResponse(r)
    BY <2>5 DEF ReadResponse, ReadSomewhere, OnlyLast
  <2> QED
    BY <2>2, <2>3, <2>4, <2>5 DEF SlaveRead
<1>2. ASSUME NEW s \in Span, StartRead(s) PROVE ReadSomewhere' /\ OnlyLast'
  BY <1>2 DEF StartRead, ReadSomewhere, OnlyLast, readVars
<1>3. CASE UNCHANGED <<mr, ar, read_state, rvalid, rlast>>
  BY <1>3 DEF ReadSomewhere, OnlyLast
<1> QED
  BY <1>1, <1>2, <1>3 DEF Next, StartWrite, interrupt, handle_hdl_request, GuestStore,
                          GuestTakes, masterVars, readVars, vars

(* A read that axi4_s_r has accepted is under way until the master has its *)
(* last beat: axi4_s_r, which takes that beat off the bus after one edge,  *)
(* does not take it away from a master that is ready for it.               *)
THEOREM AlwaysReadSomewhere == Patient => (Spec => []ReadSomewhere)
<1> SUFFICES ASSUME Patient PROVE Spec => []ReadSomewhere
  OBVIOUS
<1>1. Init => ReadSomewhere /\ OnlyLast
  BY DEF Init, ReadSomewhere, OnlyLast
<1>2. TypeInv /\ ReadSomewhere /\ OnlyLast /\ [Next]_vars
        => (TypeInv /\ ReadSomewhere /\ OnlyLast)'
  BY TypeStep, ReadStep
<1> QED
  BY <1>1, <1>2, TypeInit, PTL DEF Spec
=============================================================================
