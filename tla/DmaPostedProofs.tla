-------------------------- MODULE DmaPostedProofs ---------------------------
(* DmaPath implements PostedMemory, for every host memory, burst length    *)
(* and number of frames the sockets hold.                                  *)
EXTENDS DmaPathProofs

-----------------------------------------------------------------------------
(* Where a read is *)

(* The patient master, and no write request of MmioPath that C_poll would  *)
(* copy over the answer in data.                                           *)
Undisturbed == Patient /\ "M_WR" \notin Others

(* The reads in a queue: none, or one, of span s. *)
NoRead(q) == \A i \in 1..Len(q) : q[i].op # "READ"
OneRead(q, s) == \E k \in 1..Len(q) :
                   /\ q[k].op = "READ" /\ q[k].span = s
                   /\ \A i \in 1..Len(q) : q[i].op = "READ" => i = k

(* The read is on its way in one place at a time: not begun, in hdl_req,   *)
(* its answer in hdl_resp, in data, in the slave's buffer, and its last    *)
(* beat on the bus.  Beats come in order: n are out, all but the last of   *)
(* them received.                                                          *)
Waiting   == read_state = "DATA" /\ r_len = mr.span.len /\ r_cnt = 0
             /\ rvalid = 0 /\ rlast = 0 /\ beats = <<>>
Out(n)    == /\ Len(beats) = n - 1 /\ rdata = r_data[n]
             /\ \A i \in 1..(n - 1) : beats[i] = r_data[i]
NoAnswer  == hdl_resp = <<>> /\ req_s_rvalid = 0

AtRest    == NoRead(hdl_req) /\ NoAnswer /\ read_state = "IDLE" /\ rvalid = 0
             /\ ar = one(mr.pc = "busy") /\ (mr.pc = "busy" => beats = <<>>)
AtQemu    == OneRead(hdl_req, mr.span) /\ NoAnswer /\ Waiting
AtSocket  == /\ NoRead(hdl_req) /\ req_s_rvalid = 0 /\ Waiting
             /\ hdl_resp = <<Head(hdl_resp)>> /\ Len(Head(hdl_resp)) = r_len + 1
AtPoll    == NoRead(hdl_req) /\ hdl_resp = <<>> /\ req_s_rvalid = 1 /\ Waiting
AtSlave   == /\ NoRead(hdl_req) /\ NoAnswer /\ read_state = "RESPONSE"
             /\ r_len = mr.span.len /\ rlast = 0
             /\ rvalid = 0 => r_cnt = 0 /\ beats = <<>>
             /\ rvalid = 1 => r_cnt # 0 /\ Out(r_cnt)
AtLast    == /\ NoRead(hdl_req) /\ NoAnswer /\ read_state = "IDLE"
             /\ r_len = mr.span.len /\ rvalid = 1 /\ rlast = 1 /\ Out(r_len + 1)

UnderWay  == AtQemu \/ AtSocket \/ AtPoll \/ AtSlave \/ AtLast
ReadPlace == /\ AtRest \/ (mr.pc = "busy" /\ ar = 0 /\ UnderWay)
             /\ mr.pc = "busy" => mr.data = <<>>

(* The reads in a queue that grows, and in one whose head is served. *)
LEMMA ReadsAppend ==
  ASSUME NEW q \in Seq(HdlFrame), NEW f \in HdlFrame
  PROVE  /\ NoRead(q) /\ f.op # "READ" => NoRead(Append(q, f))
         /\ NoRead(q) /\ f.op = "READ" => OneRead(Append(q, f), f.span)
         /\ \A s : OneRead(q, s) /\ f.op # "READ" => OneRead(Append(q, f), s)
<1> DEFINE p == Append(q, f)
<1>1. /\ Len(q) \in Nat /\ Len(p) = Len(q) + 1 /\ p[Len(q) + 1] = f
      /\ \A i \in 1..Len(q) : p[i] = q[i]
  OBVIOUS
<1> HIDE DEF p
<1>2. \A i \in 1..Len(p) : i \in 1..Len(q) \/ i = Len(q) + 1
  BY <1>1
<1>3. NoRead(q) /\ f.op # "READ" => NoRead(p)
  BY <1>1, <1>2 DEF NoRead
<1>4. ASSUME NoRead(q), f.op = "READ" PROVE OneRead(p, f.span)
  <2>1. Len(q) + 1 \in 1..Len(p)
    BY <1>1
  <2>2. \A i \in 1..Len(p) : p[i].op = "READ" => i = Len(q) + 1
    BY <1>1, <1>2, <1>4 DEF NoRead
  <2> QED
    BY <1>1, <1>4, <2>1, <2>2 DEF OneRead
<1>5. ASSUME NEW s, OneRead(q, s), f.op # "READ" PROVE OneRead(p, s)
  <2>1. PICK k \in 1..Len(q) : /\ q[k].op = "READ" /\ q[k].span = s
                               /\ \A i \in 1..Len(q) : q[i].op = "READ" => i = k
    BY <1>5 DEF OneRead
  <2>2. k \in 1..Len(p) /\ p[k] = q[k]
    BY <1>1, <2>1
  <2>3. \A i \in 1..Len(p) : p[i].op = "READ" => i = k
    BY <1>1, <1>2, <1>5, <2>1
  <2> QED
    BY <2>1, <2>2, <2>3 DEF OneRead
<1> QED
  BY <1>3, <1>4, <1>5 DEF p

(* Taking a frame out of hdl_req: its read, if it had one, goes or stays. *)
LEMMA ReadsTail ==
  ASSUME NEW q \in Seq(HdlFrame), q # <<>>
  PROVE  /\ NoRead(q) => NoRead(Tail(q)) /\ Head(q).op # "READ"
         /\ \A s : OneRead(q, s) =>
              IF Head(q).op = "READ" THEN Head(q).span = s /\ NoRead(Tail(q))
                                     ELSE OneRead(Tail(q), s)
<1> DEFINE p == Tail(q)
<1>1. /\ Len(q) \in Nat /\ Len(q) # 0 /\ Len(p) = Len(q) - 1 /\ Head(q) = q[1]
      /\ \A i \in 1..Len(p) : p[i] = q[i + 1]
  BY QueueType
<1> HIDE DEF p
<1>2. /\ 1 \in 1..Len(q)
      /\ \A i \in 1..Len(p) : i + 1 \in 1..Len(q) /\ i + 1 # 1
      /\ \A i \in 1..Len(q) : i # 1 => i - 1 \in 1..Len(p) /\ (i - 1) + 1 = i
  BY <1>1
<1>3. NoRead(q) => NoRead(p) /\ Head(q).op # "READ"
  BY <1>1, <1>2 DEF NoRead
<1>4. ASSUME NEW s, OneRead(q, s)
      PROVE  IF Head(q).op = "READ" THEN Head(q).span = s /\ NoRead(p) ELSE OneRead(p, s)
  <2>1. PICK k \in 1..Len(q) : /\ q[k].op = "READ" /\ q[k].span = s
                               /\ \A i \in 1..Len(q) : q[i].op = "READ" => i = k
    BY <1>4 DEF OneRead
  <2>2. CASE k = 1
    BY <1>1, <1>2, <2>1, <2>2 DEF NoRead
  <2>3. CASE k # 1
    <3>1. /\ k - 1 \in 1..Len(p) /\ p[k - 1] = q[k]
      BY <1>1, <1>2, <2>3
    <3>2. \A i \in 1..Len(p) : p[i].op = "READ" => i = k - 1
      BY <1>1, <1>2, <2>1
    <3>3. Head(q).op # "READ"
      BY <1>1, <1>2, <2>1, <2>3
    <3> QED
      BY <2>1, <3>1, <3>2, <3>3 DEF OneRead
  <2> QED
    BY <2>2, <2>3
<1> QED
  BY <1>3, <1>4 DEF p

(* One frame in a socket. *)
LEMMA Singleton ==
  ASSUME NEW x
  PROVE  /\ <<x>> # <<>> /\ Head(<<x>>) = x /\ Tail(<<x>>) = <<>>
         /\ Append(<<>>, x) = <<x>>
OBVIOUS

(* What the device sees of its read, in each of the places. *)
View ==
  /\ AtRest => rd = mr
  /\ mr.pc = "busy" /\ ar = 0 =>
       /\ AtQemu => rd = [pc |-> "sent", span |-> mr.span, data |-> <<>>]
       /\ AtSocket => rd = [pc |-> "answered", span |-> mr.span, data |-> Head(hdl_resp)]
       /\ AtPoll => rd = [pc |-> "answered", span |-> mr.span,
                          data |-> Words(data, r_len + 1)]
       /\ AtSlave \/ AtLast => rd = [pc |-> "answered", span |-> mr.span,
                                     data |-> Words(r_data, r_len + 1)]

(* The place of the read tells what the abstract memory sees of it. *)
LEMMA Viewed == TypeInv /\ ReadPlace => View
<1> SUFFICES ASSUME TypeInv, ReadPlace PROVE View
  OBVIOUS
<1>1. AtRest => rd = mr
  BY DEF AtRest, TypeInv, TypeOK, one, rd
<1>2. CASE mr.pc = "busy" /\ ar = 0
  <2>1. rd = [pc |-> IF Answered THEN "answered" ELSE "sent", span |-> mr.span,
              data |-> IF Answered THEN Answer ELSE <<>>]
    BY <1>2 DEF rd
  <2>2. AtQemu => ~ Answered
    BY DEF AtQemu, Waiting, NoAnswer, Answered
  <2>3. AtSocket => Answered /\ Answer = Head(hdl_resp)
    BY Singleton DEF AtSocket, Answered, Answer
  <2>4. AtPoll => Answered /\ Answer = Words(data, r_len + 1)
    BY DEF AtPoll, Answered, Answer
  <2>5. AtSlave \/ AtLast => Answered /\ Answer = Words(r_data, r_len + 1)
    BY DEF AtSlave, AtLast, NoAnswer, Answered, Answer
  <2> QED
    BY <1>1, <2>1, <2>2, <2>3, <2>4, <2>5 DEF View
<1> QED
  BY <1>1, <1>2 DEF View

-----------------------------------------------------------------------------
(* An edge of the clock moves the read from one place to the next *)

Asks == read_state = "IDLE" /\ ar = 1

(* The reads in hdl_req: the one that axi4_s_r sends joins the others. *)
LEMMA ReadsEdge ==
  ASSUME TypeInv, NEW w, NEW b, NEW r, posedge(w, b, r)
  PROVE  /\ ~ Asks /\ NoRead(hdl_req) => NoRead(hdl_req')
         /\ \A s : ~ Asks /\ OneRead(hdl_req, s) => OneRead(hdl_req', s)
         /\ Asks /\ NoRead(hdl_req) => OneRead(hdl_req', mr.span)
<1> DEFINE qw == Append(hdl_req, WritePosted)
           qr == Append(hdl_req, ReadFrame)
<1>1. Sends(w)
  BY SendEdge DEF posedge
<1>2. /\ hdl_req \in Seq(HdlFrame) /\ WritePosted \in HdlFrame /\ ReadFrame \in HdlFrame
      /\ WritePosted.op = "WRITE" /\ ReadFrame.op = "READ" /\ ReadFrame.span = mr.span
  BY FrameType DEF TypeInv, TypeOK, WritePosted, ReadFrame
<1>3. qw \in Seq(HdlFrame) /\ qr \in Seq(HdlFrame)
  BY <1>2, QueueType
<1>4. /\ NoRead(hdl_req) => NoRead(qw) /\ OneRead(qr, mr.span)
      /\ \A s : OneRead(hdl_req, s) => OneRead(qw, s)
  BY <1>2, ReadsAppend
<1> HIDE DEF qw, qr
<1>5. /\ NoRead(qw) => OneRead(Append(qw, ReadFrame), mr.span)
      /\ OneRead(qr, mr.span) => OneRead(Append(qr, WritePosted), mr.span)
  BY <1>2, <1>3, ReadsAppend
<1> QED
  BY <1>1, <1>4, <1>5 DEF Sends, Asks, qw, qr

(* With no answer in the socket C_poll leaves data alone. *)
LEMMA PollsNothing ==
  ASSUME Undisturbed, hdl_resp = <<>>, PollResp \/ PollOther
  PROVE  hdl_resp' = <<>> /\ req_s_rvalid' = 0 /\ data' = data
BY DEF Undisturbed, PollResp, PollOther

(* A master that sees no beat takes none. *)
LEMMA TakesNothing ==
  ASSUME NEW r, MasterRead(r), rvalid = 0
  PROVE  beats' = beats /\ mr' = mr /\ ar' = IF read_state = "IDLE" THEN 0 ELSE ar
BY DEF MasterRead

(* In READ_IDLE with nothing asked, nothing happens; a read that is asked  *)
(* for is sent to QEMU.                                                    *)
LEMMA EdgeAtRest ==
  ASSUME Undisturbed, TypeInv, ReadPlace, AtRest, NEW w, NEW b, NEW r, posedge(w, b, r)
  PROVE  /\ mr' = mr /\ ar' = 0
         /\ mr.pc = "idle" => AtRest' /\ ~ Asks
         /\ mr.pc = "busy" => AtQemu' /\ Asks
<1>1. /\ PollResp \/ PollOther
      /\ MasterRead(r) /\ SlaveRead(r)
  BY DEF posedge
<1>2. /\ hdl_resp = <<>> /\ rvalid = 0 /\ read_state = "IDLE" /\ NoRead(hdl_req)
      /\ ar = one(mr.pc = "busy") /\ (mr.pc = "busy" => beats = <<>>)
  BY DEF AtRest, NoAnswer
<1>3. NoAnswer' /\ mr' = mr /\ ar' = 0 /\ beats' = beats
  BY <1>1, <1>2, PollsNothing, TakesNothing DEF NoAnswer
<1>4. ReadIdle
  BY <1>1, <1>2 DEF SlaveRead, ReadData, ReadResponse
<1>5. CASE mr.pc = "idle"
  <2>1. ar = 0 /\ ~ Asks
    BY <1>2, <1>5 DEF one, Asks
  <2>2. NoRead(hdl_req')
    BY <1>2, <2>1, ReadsEdge
  <2> QED
    BY <1>2, <1>3, <1>4, <1>5, <2>1, <2>2 DEF AtRest, ReadIdle, one
<1>6. CASE mr.pc = "busy"
  <2>1. ar = 1 /\ Asks
    BY <1>2, <1>6 DEF one, Asks
  <2>2. OneRead(hdl_req', mr.span)
    BY <1>2, <2>1, ReadsEdge
  <2> QED
    BY <1>2, <1>3, <1>4, <1>6, <2>1, <2>2 DEF AtQemu, Waiting, ReadIdle
<1> QED
  BY <1>3, <1>5, <1>6 DEF TypeInv, TypeOK

(* Until its answer comes the slave waits. *)
LEMMA EdgeAtQemu ==
  ASSUME Undisturbed, TypeInv, AtQemu, mr.pc = "busy", ar = 0,
         NEW w, NEW b, NEW r, posedge(w, b, r)
  PROVE  AtQemu' /\ mr' = mr /\ ar' = 0
<1>1. /\ PollResp \/ PollOther
      /\ MasterRead(r) /\ SlaveRead(r)
  BY DEF posedge
<1>2. /\ hdl_resp = <<>> /\ req_s_rvalid = 0 /\ Waiting /\ OneRead(hdl_req, mr.span)
      /\ read_state = "DATA" /\ rvalid = 0 /\ ~ Asks
  BY DEF AtQemu, NoAnswer, Waiting, Asks
<1>3. NoAnswer' /\ mr' = mr /\ ar' = 0 /\ beats' = beats
  BY <1>1, <1>2, PollsNothing, TakesNothing DEF NoAnswer
<1>4. ReadData
  BY <1>1, <1>2 DEF SlaveRead, ReadIdle, ReadResponse
<1>5. OneRead(hdl_req', mr.span)
  BY <1>2, ReadsEdge
<1>6. Waiting'
  BY <1>2, <1>3, <1>4 DEF Waiting, ReadData
<1> QED
  BY <1>3, <1>5, <1>6 DEF AtQemu

(* C_poll takes the answer, or something else; all its words are copied. *)
LEMMA EdgeAtSocket ==
  ASSUME Undisturbed, TypeInv, AtSocket, mr.pc = "busy", ar = 0,
         NEW w, NEW b, NEW r, posedge(w, b, r)
  PROVE  /\ mr' = mr /\ ar' = 0
         /\ \/ AtSocket' /\ hdl_resp' = hdl_resp
            \/ AtPoll' /\ Words(data, r_len + 1)' = Head(hdl_resp)
<1>1. /\ PollResp \/ PollOther
      /\ MasterRead(r) /\ SlaveRead(r)
  BY DEF posedge
<1>2. /\ req_s_rvalid = 0 /\ Waiting /\ NoRead(hdl_req) /\ ~ Asks
      /\ read_state = "DATA" /\ rvalid = 0
      /\ hdl_resp = <<Head(hdl_resp)>> /\ Len(Head(hdl_resp)) = r_len + 1
  BY DEF AtSocket, Waiting, Asks
<1>3. mr' = mr /\ ar' = 0 /\ beats' = beats
  BY <1>1, <1>2, TakesNothing
<1>4. ReadData
  BY <1>1, <1>2 DEF SlaveRead, ReadIdle, ReadResponse
<1>5. NoRead(hdl_req') /\ Waiting' /\ r_len' = r_len
  BY <1>2, <1>3, <1>4, ReadsEdge DEF Waiting, ReadData
<1>6. CASE PollOther
  BY <1>2, <1>3, <1>5, <1>6 DEF PollOther, AtSocket
<1>7. CASE PollResp
  <2> DEFINE h == Head(hdl_resp)
  <2>1. hdl_resp' = <<>> /\ req_s_rvalid' = 1
    BY <1>2, <1>7, Singleton DEF PollResp
  <2>2. h \in Seq(Data) /\ r_len \in 0..(MaxBeats - 1)
    BY <1>2, Singleton, QueueType DEF TypeInv, TypeOK
  <2>3. \A i \in 1..(r_len + 1) : data'[i] = h[i]
    BY <1>2, <1>7, <2>2, DmaConstants DEF PollResp
  <2>4. Words(data', r_len + 1) = h
    BY <1>2, <2>2, <2>3 DEF Words
  <2> QED
    BY <1>3, <1>5, <2>1, <2>4 DEF AtPoll
<1> QED
  BY <1>1, <1>6, <1>7

(* The slave latches the answer before anything is copied over it. *)
LEMMA EdgeAtPoll ==
  ASSUME Undisturbed, TypeInv, AtPoll, mr.pc = "busy", ar = 0,
         NEW w, NEW b, NEW r, posedge(w, b, r)
  PROVE  AtSlave' /\ mr' = mr /\ ar' = 0 /\ r_data' = data /\ r_len' = r_len
<1>1. /\ PollResp \/ PollOther
      /\ MasterRead(r) /\ SlaveRead(r)
  BY DEF posedge
<1>2. /\ hdl_resp = <<>> /\ req_s_rvalid = 1 /\ Waiting /\ NoRead(hdl_req)
      /\ read_state = "DATA" /\ rvalid = 0 /\ ~ Asks
  BY DEF AtPoll, Waiting, Asks
<1>3. /\ NoAnswer' /\ data' = data /\ mr' = mr /\ ar' = 0 /\ beats' = beats
      /\ NoRead(hdl_req')
  BY <1>1, <1>2, PollsNothing, TakesNothing, ReadsEdge DEF NoAnswer
<1>4. ReadData
  BY <1>1, <1>2 DEF SlaveRead, ReadIdle, ReadResponse
<1>5. /\ read_state' = "RESPONSE" /\ r_data' = data
      /\ UNCHANGED <<r_len, r_cnt, rvalid, rlast>>
  BY <1>2, <1>3, <1>4 DEF ReadData
<1> QED
  BY <1>2, <1>3, <1>5 DEF AtSlave, Waiting

(* A beat a ready master is given: the n-th goes out, those before it are  *)
(* received.                                                               *)
LEMMA BeatOut ==
  ASSUME TypeInv, NEW r, MasterRead(r), r = 1, mr.pc = "busy", NEW n \in Nat,
         rvalid = 0 => n = 0 /\ beats = <<>>, rvalid = 1 => n # 0 /\ Out(n),
         r_data' = r_data, rdata' = r_data[n + 1]
  PROVE  Out(n + 1)'
<1>1. CASE rvalid = 0
  <2>1. beats' = <<>>
    BY <1>1, TakesNothing
  <2> QED
    BY <1>1, <2>1 DEF Out
<1>2. CASE rvalid = 1
  <2>1. /\ beats' = Append(beats, rdata) /\ beats \in Seq(Data)
        /\ Len(beats) = n - 1 /\ rdata = r_data[n] /\ n # 0
        /\ \A i \in 1..(n - 1) : beats[i] = r_data[i]
    BY <1>2 DEF MasterRead, Out, TypeInv, TypeOK
  <2>2. /\ Len(beats') = n /\ beats'[n] = r_data[n]
        /\ \A i \in 1..(n - 1) : beats'[i] = r_data[i]
    BY <2>1
  <2>3. \A i \in 1..n : beats'[i] = r_data[i]
    BY <2>1, <2>2
  <2> QED
    BY <2>2, <2>3 DEF Out
<1> QED
  BY <1>1, <1>2 DEF TypeInv, TypeOK, Bit

(* The beats go out one after the other, as the master is ready for them. *)
LEMMA EdgeAtSlave ==
  ASSUME Undisturbed, TypeInv, AtSlave, mr.pc = "busy", ar = 0,
         NEW w, NEW b, NEW r \in Bit, posedge(w, b, r)
  PROVE  /\ AtSlave' \/ AtLast'
         /\ mr' = mr /\ ar' = 0 /\ r_data' = r_data /\ r_len' = r_len
<1>1. /\ PollResp \/ PollOther
      /\ MasterRead(r) /\ SlaveRead(r)
  BY DEF posedge
<1>2. /\ hdl_resp = <<>> /\ NoRead(hdl_req) /\ read_state = "RESPONSE"
      /\ r_len = mr.span.len /\ rlast = 0 /\ ~ Asks
      /\ rvalid = 0 => r_cnt = 0 /\ beats = <<>>
      /\ rvalid = 1 => r_cnt # 0 /\ Out(r_cnt)
      /\ r_cnt \in Nat
  BY DEF AtSlave, NoAnswer, Asks, TypeInv, TypeOK
<1>3. NoAnswer' /\ NoRead(hdl_req') /\ mr' = mr /\ ar' = 0
  BY <1>1, <1>2, PollsNothing, ReadsEdge DEF NoAnswer, MasterRead
<1>4. ReadResponse(r) /\ r_len' = r_len /\ r_data' = r_data
  BY <1>1, <1>2 DEF SlaveRead, ReadIdle, ReadData, ReadResponse
<1>5. CASE r = 0
  <2>1. beats' = beats /\ UNCHANGED <<read_state, r_cnt, rvalid, rlast, rdata>>
    BY <1>1, <1>4, <1>5 DEF MasterRead, ReadResponse
  <2> QED
    BY <1>2, <1>3, <1>4, <2>1 DEF AtSlave, Out
<1>6. CASE r = 1
  <2>1. /\ rvalid' = 1 /\ rdata' = r_data[r_cnt + 1]
        /\ \/ r_cnt = r_len /\ rlast' = 1 /\ read_state' = "IDLE"
           \/ r_cnt' = r_cnt + 1 /\ UNCHANGED <<rlast, read_state>>
    BY <1>4, <1>6 DEF ReadResponse
  <2>2. PICK n \in Nat : n = r_cnt
    BY <1>2
  <2>3. Out(n + 1)'
    BY <1>1, <1>2, <1>4, <1>6, <2>1, <2>2, BeatOut
  <2>4. CASE r_cnt = r_len /\ rlast' = 1 /\ read_state' = "IDLE"
    <3>1. Out(r_len + 1)'
      BY <1>4, <2>2, <2>3, <2>4 DEF Out
    <3> QED
      BY <1>2, <1>3, <1>4, <2>1, <2>4, <3>1 DEF AtLast
  <2>5. CASE r_cnt' = r_cnt + 1 /\ UNCHANGED <<rlast, read_state>>
    <3>1. Out(r_cnt)'
      BY <2>2, <2>3, <2>5 DEF Out
    <3> QED
      BY <1>2, <1>3, <1>4, <2>1, <2>5, <3>1 DEF AtSlave
  <2> QED
    BY <1>3, <1>4, <2>1, <2>4, <2>5
<1> QED
  BY <1>5, <1>6 DEF Bit

(* The last beat is received before it is taken away, and then the master  *)
(* has them all.                                                           *)
LEMMA EdgeAtLast ==
  ASSUME Undisturbed, TypeInv, AtLast, mr.pc = "busy", ar = 0,
         NEW w, NEW b, NEW r \in Bit, posedge(w, b, r)
  PROVE  /\ AtRest' /\ ~ Asks
         /\ mr' = [pc |-> "idle", span |-> mr.span, data |-> Words(r_data, r_len + 1)]
<1>1. /\ PollResp \/ PollOther
      /\ MasterRead(r) /\ SlaveRead(r)
  BY DEF posedge
<1>2. /\ hdl_resp = <<>> /\ NoRead(hdl_req) /\ read_state = "IDLE"
      /\ r_len = mr.span.len /\ rvalid = 1 /\ rlast = 1 /\ ~ Asks
      /\ Out(r_len + 1)
  BY DEF AtLast, NoAnswer, Asks
<1>3. r = 1
  BY <1>1, <1>2 DEF MasterRead, RreadyRule, Undisturbed, Patient, TypeInv, TypeOK
<1>4. /\ beats' = Append(beats, rdata)
      /\ mr' = [pc |-> "idle", span |-> mr.span, data |-> beats'] /\ ar' = 0
  BY <1>1, <1>2, <1>3 DEF MasterRead
<1>5. beats' = Words(r_data, r_len + 1)
  <2>1. /\ beats \in Seq(Data) /\ r_len \in Nat /\ Len(beats) = r_len
        /\ \A i \in 1..r_len : beats[i] = r_data[i]
        /\ rdata = r_data[r_len + 1]
    <3>1. beats \in Seq(Data) /\ r_len \in Nat
      BY DEF TypeInv, TypeOK
    <3> QED
      BY <1>2, <3>1 DEF Out
  <2>2. Append(beats, rdata) = [i \in 1..(r_len + 1) |-> Append(beats, rdata)[i]]
    BY <2>1
  <2>3. \A i \in 1..(r_len + 1) : Append(beats, rdata)[i] = r_data[i]
    BY <2>1
  <2> QED
    BY <1>4, <2>2, <2>3 DEF Words
<1>6. NoAnswer' /\ NoRead(hdl_req')
  BY <1>1, <1>2, PollsNothing, ReadsEdge DEF NoAnswer
<1>7. rvalid' = 0 /\ read_state' = "IDLE"
  BY <1>1, <1>2 DEF SlaveRead, ReadIdle, ReadData, ReadResponse, Asks
<1> QED
  BY <1>2, <1>4, <1>5, <1>6, <1>7 DEF AtRest, one

(* At an edge the device sees its read stay, be sent or end. *)
ReadStays == ~ Asks /\ rd' = rd
ReadSent  == Asks /\ rd.pc = "busy" /\ rd.span = mr.span
             /\ rd' = [pc |-> "sent", span |-> rd.span, data |-> rd.data]
ReadEnds  == ~ Asks /\ rd.pc = "answered"
             /\ rd' = [pc |-> "idle", span |-> rd.span, data |-> rd.data]

(* An edge leaves the read alone, sends it or ends it. *)
LEMMA ReadCycle ==
  ASSUME Undisturbed, TypeInv, TypeInv', ReadPlace, NEW w, NEW b, NEW r \in Bit, posedge(w, b, r)
  PROVE  ReadPlace' /\ (ReadStays \/ ReadSent \/ ReadEnds)
<1>1. View
  BY Viewed
<1>2. ReadPlace' => View'
  BY Viewed, PTL
<1>3. CASE AtRest
  <2>1. rd = mr /\ mr' = mr /\ ar' = 0
    BY <1>1, <1>3, EdgeAtRest DEF View
  <2>2. CASE mr.pc = "idle"
    <3>1. AtRest' /\ ~ Asks
      BY <1>3, <2>2, EdgeAtRest
    <3>2. ReadPlace'
      BY <2>1, <3>1 DEF ReadPlace
    <3> QED
      BY <1>2, <2>1, <3>1, <3>2 DEF View, ReadStays
  <2>3. CASE mr.pc = "busy"
    <3>1. AtQemu' /\ Asks
      BY <1>3, <2>3, EdgeAtRest
    <3>2. ReadPlace'
      BY <2>1, <2>3, <3>1 DEF ReadPlace, UnderWay
    <3>3. rd' = [pc |-> "sent", span |-> mr.span, data |-> <<>>]
      BY <1>2, <2>1, <2>3, <3>1, <3>2 DEF View
    <3> QED
      BY <2>1, <2>3, <3>1, <3>2, <3>3 DEF ReadPlace, ReadSent
  <2> QED
    BY <2>2, <2>3 DEF TypeInv, TypeOK
<1>4. CASE mr.pc = "busy" /\ ar = 0 /\ UnderWay
  <2>1. ~ Asks
    BY <1>4 DEF Asks
  <2>2. CASE AtQemu
    <3>1. AtQemu' /\ mr' = mr /\ ar' = 0
      BY <1>4, <2>2, EdgeAtQemu
    <3>2. ReadPlace'
      BY <1>4, <3>1 DEF ReadPlace, UnderWay
    <3> QED
      BY <1>1, <1>2, <1>4, <2>1, <2>2, <3>1, <3>2 DEF View, ReadStays
  <2>3. CASE AtSocket
    <3>1. /\ mr' = mr /\ ar' = 0
          /\ \/ AtSocket' /\ hdl_resp' = hdl_resp
             \/ AtPoll' /\ Words(data, r_len + 1)' = Head(hdl_resp)
      BY <1>4, <2>3, EdgeAtSocket
    <3>2. ReadPlace'
      BY <1>4, <3>1 DEF ReadPlace, UnderWay
    <3>3. rd' = rd
      BY <1>1, <1>2, <1>4, <2>3, <3>1, <3>2 DEF View
    <3> QED
      BY <2>1, <3>2, <3>3 DEF ReadStays
  <2>4. CASE AtPoll
    <3>1. AtSlave' /\ mr' = mr /\ ar' = 0 /\ r_data' = data /\ r_len' = r_len
      BY <1>4, <2>4, EdgeAtPoll
    <3>2. ReadPlace'
      BY <1>4, <3>1 DEF ReadPlace, UnderWay
    <3>3. rd' = rd
      BY <1>1, <1>2, <1>4, <2>4, <3>1, <3>2 DEF View, Words
    <3> QED
      BY <2>1, <3>2, <3>3 DEF ReadStays
  <2>5. CASE AtSlave
    <3>1. (AtSlave' \/ AtLast') /\ mr' = mr /\ ar' = 0 /\ r_data' = r_data /\ r_len' = r_len
      BY <1>4, <2>5, EdgeAtSlave
    <3>2. ReadPlace'
      BY <1>4, <3>1 DEF ReadPlace, UnderWay
    <3>3. rd' = rd
      BY <1>1, <1>2, <1>4, <2>5, <3>1, <3>2 DEF View, Words
    <3> QED
      BY <2>1, <3>2, <3>3 DEF ReadStays
  <2>6. CASE AtLast
    <3>1. /\ AtRest'
          /\ mr' = [pc |-> "idle", span |-> mr.span, data |-> Words(r_data, r_len + 1)]
      BY <1>4, <2>6, EdgeAtLast
    <3>2. ReadPlace'
      BY <3>1 DEF ReadPlace
    <3>3. rd' = mr'
      BY <1>2, <3>1, <3>2 DEF View
    <3>4. rd = [pc |-> "answered", span |-> mr.span, data |-> Words(r_data, r_len + 1)]
      BY <1>1, <1>4, <2>6 DEF View
    <3> QED
      BY <2>1, <3>1, <3>2, <3>3, <3>4 DEF ReadEnds
  <2> QED
    BY <1>4, <2>2, <2>3, <2>4, <2>5, <2>6 DEF UnderWay
<1> QED
  BY <1>3, <1>4 DEF ReadPlace

-----------------------------------------------------------------------------
(* The other steps move the read, or leave it where it is *)

(* A read begins where the last one ended. *)
LEMMA ReadBegins ==
  ASSUME TypeInv, TypeInv', ReadPlace, NEW s, StartRead(s)
  PROVE  /\ ReadPlace' /\ rd.pc = "idle"
         /\ rd' = [pc |-> "busy", span |-> s, data |-> <<>>]
<1>1. AtRest /\ mr.pc = "idle"
  BY DEF StartRead, ReadPlace
<1>2. /\ mr' = [pc |-> "busy", span |-> s, data |-> <<>>] /\ ar' = 1 /\ beats' = <<>>
      /\ UNCHANGED <<hdl_req, hdl_resp, req_s_rvalid, read_state, rvalid>>
  BY DEF StartRead, readVars
<1>3. AtRest'
  BY <1>1, <1>2 DEF AtRest, NoAnswer, NoRead, one
<1>4. ReadPlace'
  BY <1>2, <1>3 DEF ReadPlace
<1>5. View /\ View'
  BY <1>4, Viewed, PTL
<1> QED
  BY <1>1, <1>2, <1>3, <1>4, <1>5 DEF View

(* A step that touches neither the slave nor the answer. *)
LEMMA ReadAside ==
  ASSUME ReadPlace, UNCHANGED <<mr, ar, beats, readVars, data, req_s_rvalid, hdl_resp>>,
         NoRead(hdl_req) => NoRead(hdl_req)',
         OneRead(hdl_req, mr.span) => OneRead(hdl_req, mr.span)'
  PROVE  ReadPlace' /\ rd' = rd
<1>1. rd' = rd
  BY DEF rd, Answered, Answer, Words, readVars
<1>2. /\ Waiting' = Waiting /\ NoAnswer' = NoAnswer
      /\ AtRest => AtRest'
      /\ AtQemu => AtQemu'
  BY DEF AtRest, AtQemu, Waiting, NoAnswer, readVars
<1>3. /\ AtSocket => AtSocket'
      /\ AtPoll => AtPoll'
  BY DEF AtSocket, AtPoll, Waiting, readVars
<1>4. /\ AtSlave => AtSlave'
      /\ AtLast => AtLast'
  BY DEF AtSlave, AtLast, NoAnswer, Out, readVars
<1> QED
  BY <1>1, <1>2, <1>3, <1>4 DEF ReadPlace, UnderWay

(* handle_hdl_request answers the one read there is, with what memory      *)
(* holds now, and serves the other frames without touching it.             *)
LEMMA ReadServed ==
  ASSUME TypeInv, TypeInv', ReadPlace, handle_hdl_request
  PROVE  /\ ReadPlace'
         /\ Head(hdl_req).op = "READ" =>
              rd' = [pc |-> "answered", span |-> rd.span,
                     data |-> Load(host, Head(hdl_req).span)]
         /\ Head(hdl_req).op # "READ" => rd' = rd
<1> DEFINE f == Head(hdl_req)
<1>1. /\ hdl_req # <<>> /\ hdl_req' = Tail(hdl_req) /\ hdl_req \in Seq(HdlFrame)
      /\ UNCHANGED <<mr, ar, beats, readVars, data, req_s_rvalid>>
  BY DEF handle_hdl_request, masterVars, TypeInv, TypeOK
<1>2. CASE f.op # "READ"
  <2>1. hdl_resp' = hdl_resp
    BY <1>2 DEF handle_hdl_request
  <2>2. /\ NoRead(hdl_req) => NoRead(hdl_req')
        /\ \A s : OneRead(hdl_req, s) => OneRead(hdl_req', s)
    BY <1>1, <1>2, ReadsTail
  <2>3. /\ NoRead(hdl_req) => NoRead(hdl_req)'
        /\ OneRead(hdl_req, mr.span) => OneRead(hdl_req, mr.span)'
    BY <1>1, <2>2 DEF NoRead, OneRead
  <2> QED
    BY <1>1, <1>2, <2>1, <2>3, ReadAside
<1>3. CASE f.op = "READ"
  <2>1. ~ NoRead(hdl_req)
    BY <1>1, <1>3, ReadsTail
  <2>2. mr.pc = "busy" /\ ar = 0 /\ AtQemu
    BY <2>1 DEF ReadPlace, UnderWay, AtRest, AtSocket, AtPoll, AtSlave, AtLast
  <2>3. OneRead(hdl_req, mr.span) /\ hdl_resp = <<>> /\ req_s_rvalid = 0 /\ Waiting
    BY <2>2 DEF AtQemu, NoAnswer
  <2>4. f.span = mr.span /\ NoRead(hdl_req')
    BY <1>1, <1>3, <2>3, ReadsTail
  <2> DEFINE x == Load(host, f.span)
  <2>5. hdl_resp' = <<x>>
    BY <1>3, <2>3, Singleton DEF handle_hdl_request
  <2>6. Len(x) = r_len + 1
    BY <2>3, <2>4, LoadType DEF TypeInv, TypeOK, Waiting
  <2> HIDE DEF x, f
  <2>7. AtSocket'
    BY <1>1, <2>3, <2>4, <2>5, <2>6, Singleton DEF AtSocket, Waiting, readVars, NoRead
  <2>8. ReadPlace'
    BY <1>1, <2>2, <2>7 DEF ReadPlace, UnderWay
  <2>9. View /\ View'
    BY <2>8, Viewed, PTL
  <2>10. rd.span = mr.span /\ rd' = [pc |-> "answered", span |-> mr.span, data |-> x]
    BY <1>1, <2>2, <2>5, <2>7, <2>9, Singleton DEF View
  <2> QED
    BY <1>3, <2>8, <2>10 DEF x, f
<1> QED
  BY <1>2, <1>3

-----------------------------------------------------------------------------
(* Refinement *)

(* At an edge the device sees its write stay, be posted or acknowledged. *)
WriteStays(w) == ~ send_to_qemu(w) /\ wr' = wr /\ acked' = acked
WriteSent(w)  == send_to_qemu(w) /\ wr.pc = "busy" /\ wr.burst = mw.burst
                 /\ wr' = [pc |-> "sent", burst |-> wr.burst] /\ acked' = acked
WriteAcked(w) == ~ send_to_qemu(w) /\ wr.pc = "sent"
                 /\ wr' = [pc |-> "idle", burst |-> wr.burst] /\ acked' = acked + 1

(* An edge leaves the write alone, sends it or acknowledges it. *)
LEMMA WriteCycle ==
  ASSUME TypeInv, NEW w \in Bit, NEW b \in Bit, NEW r, posedge(w, b, r)
  PROVE  WriteStays(w) \/ WriteSent(w) \/ WriteAcked(w)
<1>1. MasterWrite(w, b) /\ SlaveWrite(w, b)
  BY DEF posedge
<1>2. /\ mw \in [pc : {"idle", "busy"}, burst : Burst] /\ WriteInv
      /\ write_state \in {"IDLE", "DATA", "RESPONSE"}
  BY DEF TypeInv, TypeOK
<1>3. CASE write_state = "IDLE"
  <2>1. mw' = mw /\ acked' = acked /\ write_state' \in {"IDLE", "DATA"}
    BY <1>1, <1>3 DEF MasterWrite, SlaveWrite, writeVars
  <2> QED
    BY <1>3, <2>1 DEF wr, WriteStays, send_to_qemu
<1>4. CASE write_state = "DATA"
  <2>1. mw' = mw /\ acked' = acked /\ mw.pc = "busy"
    BY <1>1, <1>2, <1>4 DEF MasterWrite, WriteInv
  <2>2. write_state' = IF send_to_qemu(w) THEN "RESPONSE" ELSE "DATA"
    BY <1>1, <1>4 DEF SlaveWrite, send_to_qemu, writeVars, Bit
  <2> QED
    BY <1>4, <2>1, <2>2 DEF wr, WriteStays, WriteSent
<1>5. CASE write_state = "RESPONSE"
  <2>1. mw.pc = "busy" /\ ~ send_to_qemu(w)
    BY <1>2, <1>5 DEF WriteInv, send_to_qemu
  <2>2. CASE b = 1
    <3>1. /\ mw' = [mw EXCEPT !.pc = "idle"] /\ acked' = acked + 1 /\ write_state' = "IDLE"
      BY <1>1, <1>5, <2>2 DEF MasterWrite, SlaveWrite
    <3>2. mw'.pc = "idle" /\ mw'.burst = mw.burst
      BY <1>2, <3>1
    <3> QED
      BY <1>5, <2>1, <3>1, <3>2 DEF wr, WriteAcked
  <2>3. CASE b = 0
    <3>1. mw' = mw /\ acked' = acked /\ write_state' = "RESPONSE"
      BY <1>1, <1>5, <2>3 DEF MasterWrite, SlaveWrite
    <3> QED
      BY <1>5, <2>1, <3>1 DEF wr, WriteStays
  <2> QED
    BY <2>2, <2>3 DEF Bit
<1> QED
  BY <1>2, <1>3, <1>4, <1>5

(* What the device sees of its read and its write are records. *)
LEMMA ViewType ==
  ASSUME TypeInv, ReadPlace
  PROVE  /\ wr = [pc |-> wr.pc, burst |-> wr.burst]
         /\ rd = [pc |-> rd.pc, span |-> rd.span, data |-> rd.data]
<1>1. mr = [pc |-> mr.pc, span |-> mr.span, data |-> mr.data]
  BY DEF TypeInv, TypeOK
<1>2. rd = [pc |-> rd.pc, span |-> rd.span, data |-> rd.data]
  BY <1>1 DEF rd
<1> QED
  BY <1>2 DEF wr

(* An edge is a cycle of the posted memory. *)
LEMMA EdgeIsCycle ==
  ASSUME Undisturbed, TypeInv, TypeInv', ReadPlace, NEW w \in Bit, NEW b \in Bit, NEW r \in Bit,
         posedge(w, b, r)
  PROVE  Posted!Cycle
<1>1. /\ WriteStays(w) \/ WriteSent(w) \/ WriteAcked(w)
      /\ ReadStays \/ ReadSent \/ ReadEnds
  BY WriteCycle, ReadCycle
<1>2. Sends(w) /\ UNCHANGED <<host, msix, landed>>
  BY SendEdge DEF posedge
<1>3. /\ wr = [pc |-> wr.pc, burst |-> wr.burst]
      /\ rd = [pc |-> rd.pc, span |-> rd.span, data |-> rd.data]
  BY ViewType
<1>4. PICK ws \in {"stay", "post", "ack"} :
        /\ ws = "post" => wr.pc = "busy"
        /\ ws = "ack" => wr.pc = "sent"
        /\ wr' = [wr EXCEPT !.pc = Posted!Moved(ws, wr.pc)]
        /\ acked' = IF ws = "ack" THEN acked + 1 ELSE acked
        /\ send_to_qemu(w) <=> ws = "post"
        /\ ws = "post" => wr.burst = mw.burst
  <2>1. CASE WriteStays(w)
    <3> WITNESS "stay" \in {"stay", "post", "ack"}
    <3> QED
      BY <1>3, <2>1 DEF WriteStays, Posted!Moved
  <2>2. CASE WriteSent(w)
    <3> WITNESS "post" \in {"stay", "post", "ack"}
    <3> QED
      BY <1>3, <2>2 DEF WriteSent, Posted!Moved
  <2>3. CASE WriteAcked(w)
    <3> WITNESS "ack" \in {"stay", "post", "ack"}
    <3> QED
      BY <1>3, <2>3 DEF WriteAcked, Posted!Moved
  <2> QED
    BY <1>1, <2>1, <2>2, <2>3
<1>5. PICK rs \in {"stay", "post", "end"} :
        /\ rs = "post" => rd.pc = "busy"
        /\ rs = "end" => rd.pc = "answered"
        /\ rd' = [rd EXCEPT !.pc = Posted!Moved(rs, rd.pc)]
        /\ Asks <=> rs = "post"
        /\ rs = "post" => rd.span = mr.span
  <2>1. CASE ReadStays
    <3> WITNESS "stay" \in {"stay", "post", "end"}
    <3> QED
      BY <1>3, <2>1 DEF ReadStays, Posted!Moved
  <2>2. CASE ReadSent
    <3> WITNESS "post" \in {"stay", "post", "end"}
    <3> QED
      BY <1>3, <2>2 DEF ReadSent, Posted!Moved
  <2>3. CASE ReadEnds
    <3> WITNESS "end" \in {"stay", "post", "end"}
    <3> QED
      BY <1>3, <2>3 DEF ReadEnds, Posted!Moved
  <2> QED
    BY <1>1, <2>1, <2>2, <2>3
<1> DEFINE W == IF ws = "post" THEN <<Posted!WriteOp(wr.burst)>> ELSE <<>>
           R == IF rs = "post" THEN <<Posted!ReadOp(rd.span)>> ELSE <<>>
<1>6. hdl_req' \in {hdl_req \o W \o R, hdl_req \o R \o W}
  <2>1. /\ ws = "post" => Posted!WriteOp(wr.burst) = WritePosted
        /\ rs = "post" => Posted!ReadOp(rd.span) = ReadFrame
    BY <1>4, <1>5 DEF Posted!WriteOp, Posted!ReadOp, WritePosted, ReadFrame
  <2>2. /\ hdl_req \in Seq(HdlFrame) /\ WritePosted \in HdlFrame /\ ReadFrame \in HdlFrame
    BY FrameType DEF TypeInv, TypeOK
  <2>3. /\ Append(hdl_req, WritePosted) \in Seq(HdlFrame)
        /\ Append(hdl_req, ReadFrame) \in Seq(HdlFrame)
    BY <2>2, QueueType
  <2>4. /\ hdl_req \o <<>> = hdl_req
        /\ hdl_req \o <<WritePosted>> = Append(hdl_req, WritePosted)
        /\ hdl_req \o <<ReadFrame>> = Append(hdl_req, ReadFrame)
        /\ Append(hdl_req, WritePosted) \o <<>> = Append(hdl_req, WritePosted)
        /\ Append(hdl_req, ReadFrame) \o <<>> = Append(hdl_req, ReadFrame)
        /\ Append(hdl_req, WritePosted) \o <<ReadFrame>>
             = Append(Append(hdl_req, WritePosted), ReadFrame)
        /\ Append(hdl_req, ReadFrame) \o <<WritePosted>>
             = Append(Append(hdl_req, ReadFrame), WritePosted)
    BY <2>2, <2>3, QueueType
  <2>5. /\ W = IF send_to_qemu(w) THEN <<WritePosted>> ELSE <<>>
        /\ R = IF Asks THEN <<ReadFrame>> ELSE <<>>
    BY <1>4, <1>5, <2>1
  <2> HIDE DEF W, R
  <2> QED
    BY <1>2, <2>4, <2>5 DEF Sends, Asks
<1> QED
  BY <1>2, <1>4, <1>5, <1>6 DEF Posted!Cycle

(* The initial states map to initial states of the posted memory. *)
LEMMA PostedInit == Init => ReadPlace /\ Posted!Init
<1> SUFFICES ASSUME Init PROVE ReadPlace /\ Posted!Init
  OBVIOUS
<1>1. TypeInv
  BY TypeInit
<1>2. /\ mr.pc = "idle" /\ mr.data = <<>> /\ hdl_req = <<>> /\ hdl_resp = <<>>
      /\ read_state = "IDLE" /\ rvalid = 0 /\ ar = 0 /\ req_s_rvalid = 0
      /\ mw.pc = "idle" /\ write_state = "IDLE" /\ Len(hdl_req) = 0
  BY DEF Init
<1>3. ReadPlace
  BY <1>2 DEF ReadPlace, AtRest, NoRead, NoAnswer, one
<1>4. mw.burst \in Burst /\ mr.span \in Span /\ host \in [Addr -> Data]
  BY <1>1 DEF TypeInv, TypeOK
<1>5. wr \in [pc : {"idle"}, burst : Burst]
  BY <1>2, <1>4 DEF wr
<1>6. rd = mr /\ mr \in [pc : {"idle"}, span : Span, data : {<<>>}]
  BY <1>1, <1>2, <1>4 DEF rd, TypeInv, TypeOK
<1>7. msix = {} /\ acked = 0 /\ landed = 0
  BY DEF Init
<1> QED
  BY <1>2, <1>3, <1>4, <1>5, <1>6, <1>7 DEF Posted!Init

(* Every step is a step of the posted memory, or changes nothing that the  *)
(* device, the host and the guest can see.                                 *)
LEMMA PostedStep ==
  ASSUME Undisturbed, TypeInv, ReadPlace, [Next]_vars
  PROVE  ReadPlace' /\ [Posted!Next]_Posted!vars
<1>0. TypeInv'
  BY TypeStep
<1>1. ASSUME NEW x \in Burst, StartWrite(x)
      PROVE  ReadPlace' /\ Posted!Next
  <2>1. UNCHANGED <<mr, ar, beats, readVars, data, req_s_rvalid, hdl_resp, hdl_req>>
    BY <1>1 DEF StartWrite
  <2>2. ReadPlace' /\ rd' = rd
    BY <2>1, ReadAside DEF NoRead, OneRead
  <2>3. write_state = "IDLE" /\ write_state' = "IDLE" /\ mw.pc = "idle"
    BY <1>1 DEF StartWrite, TypeInv, WriteInv, writeVars
  <2>4. wr.pc = "idle" /\ wr' = [pc |-> "busy", burst |-> x]
    BY <1>1, <2>3 DEF StartWrite, wr
  <2>5. Posted!StartWrite(x)
    BY <1>1, <2>2, <2>4 DEF StartWrite, Posted!StartWrite
  <2> QED
    BY <2>2, <2>5 DEF Posted!Next
<1>2. ASSUME NEW s \in Span, StartRead(s)
      PROVE  ReadPlace' /\ Posted!Next
  <2>1. /\ ReadPlace' /\ rd.pc = "idle"
        /\ rd' = [pc |-> "busy", span |-> s, data |-> <<>>]
    BY <1>0, <1>2, ReadBegins
  <2>2. wr' = wr
    BY <1>2 DEF StartRead, wr, writeVars
  <2>3. Posted!StartRead(s)
    BY <1>2, <2>1, <2>2 DEF StartRead, Posted!StartRead
  <2> QED
    BY <2>1, <2>3 DEF Posted!Next
<1>3. CASE Tick
  <2>1. PICK w \in Bit, b \in Bit, r \in Bit : posedge(w, b, r)
    BY <1>3 DEF Tick, Seen, Rready, Bit
  <2>2. ReadPlace' /\ Posted!Cycle
    BY <1>0, <2>1, ReadCycle, EdgeIsCycle
  <2> QED
    BY <2>2 DEF Posted!Next
<1>4. ASSUME NEW v \in Vector, interrupt(v)
      PROVE  ReadPlace' /\ Posted!Next
  <2> DEFINE f == [op |-> "INTR", vector |-> v, after |-> acked]
  <2>1. /\ UNCHANGED <<mr, ar, beats, readVars, data, req_s_rvalid, hdl_resp>>
        /\ hdl_req' = Append(hdl_req, f) /\ UNCHANGED <<wr, host, msix, acked, landed>>
    BY <1>4 DEF interrupt, masterVars, writeVars, wr
  <2>2. f \in HdlFrame /\ f.op # "READ" /\ hdl_req \in Seq(HdlFrame)
    BY FrameType DEF TypeInv, TypeOK
  <2> HIDE DEF f
  <2>3. /\ NoRead(hdl_req) => NoRead(hdl_req')
        /\ \A s : OneRead(hdl_req, s) => OneRead(hdl_req', s)
    BY <2>1, <2>2, ReadsAppend
  <2>4. /\ NoRead(hdl_req) => NoRead(hdl_req)'
        /\ OneRead(hdl_req, mr.span) => OneRead(hdl_req, mr.span)'
    BY <2>1, <2>3 DEF NoRead, OneRead
  <2>5. ReadPlace' /\ rd' = rd
    BY <2>1, <2>4, ReadAside
  <2>6. Posted!Interrupt(v)
    BY <2>1, <2>5 DEF Posted!Interrupt, Posted!IntrOp, f
  <2> QED
    BY <2>5, <2>6 DEF Posted!Next
<1>5. CASE handle_hdl_request
  <2> DEFINE f == Head(hdl_req)
  <2>1. /\ ReadPlace'
        /\ f.op = "READ" => rd' = [pc |-> "answered", span |-> rd.span,
                                   data |-> Load(host, f.span)]
        /\ f.op # "READ" => rd' = rd
    BY <1>0, <1>5, ReadServed
  <2>2. /\ hdl_req # <<>> /\ hdl_req' = Tail(hdl_req) /\ wr' = wr /\ acked' = acked
    BY <1>5 DEF handle_hdl_request, masterVars, writeVars, wr
  <2>3. \/ f.op = "READ" /\ UNCHANGED <<host, msix, landed>>
        \/ f.op = "WRITE" /\ host' = Store(host, f.burst) /\ landed' = landed + 1
           /\ UNCHANGED msix
        \/ f.op = "INTR" /\ msix' = msix \cup {f.vector} /\ UNCHANGED <<host, landed>>
    BY <1>5 DEF handle_hdl_request
  <2>4. /\ Posted!Store(host, f.burst) = Store(host, f.burst)
        /\ Posted!Load(host, f.span) = Load(host, f.span)
    BY DEF Posted!Store, Store, Posted!Load, Load
  <2>5. Posted!Do
    BY <2>1, <2>2, <2>3, <2>4 DEF Posted!Do
  <2> QED
    BY <2>1, <2>5 DEF Posted!Next
<1>6. ASSUME NEW a \in Addr, NEW v \in Data, GuestStore(a, v)
      PROVE  ReadPlace' /\ Posted!Next
  <2>1. /\ UNCHANGED <<mr, ar, beats, readVars, data, req_s_rvalid, hdl_resp, hdl_req, wr>>
    BY <1>6 DEF GuestStore, masterVars, writeVars, wr
  <2>2. ReadPlace' /\ rd' = rd
    BY <2>1, ReadAside DEF NoRead, OneRead
  <2>3. Posted!GuestStore(a, v)
    BY <1>6, <2>1, <2>2 DEF GuestStore, Posted!GuestStore
  <2> QED
    BY <2>2, <2>3 DEF Posted!Next
<1>7. ASSUME NEW v \in Vector, GuestTakes(v)
      PROVE  ReadPlace' /\ Posted!Next
  <2>1. /\ UNCHANGED <<mr, ar, beats, readVars, data, req_s_rvalid, hdl_resp, hdl_req, wr>>
    BY <1>7 DEF GuestTakes, masterVars, writeVars, wr
  <2>2. ReadPlace' /\ rd' = rd
    BY <2>1, ReadAside DEF NoRead, OneRead
  <2>3. Posted!GuestTakes(v)
    BY <1>7, <2>1, <2>2 DEF GuestTakes, Posted!GuestTakes
  <2> QED
    BY <2>2, <2>3 DEF Posted!Next
<1>8. CASE UNCHANGED vars
  <2>1. /\ UNCHANGED <<mr, ar, beats, readVars, data, req_s_rvalid, hdl_resp, hdl_req, wr>>
        /\ UNCHANGED <<host, msix, acked, landed>>
    BY <1>8 DEF vars, readVars, wr
  <2>2. ReadPlace' /\ rd' = rd
    BY <2>1, ReadAside DEF NoRead, OneRead
  <2> QED
    BY <2>1, <2>2 DEF Posted!vars
<1> QED
  BY <1>1, <1>2, <1>3, <1>4, <1>5, <1>6, <1>7, <1>8 DEF Next

(* For the device, axi4_s_w, axi4_s_r and axi4_s_i, the sockets, C_poll    *)
(* and handle_hdl_request are one posted memory: what it posts is done in  *)
(* order, once and whole, and a read returns, beat by beat, what host      *)
(* memory held when the writes before it were done.                        *)
THEOREM ImplementsPosted == Undisturbed => (Spec => PostedSpec)
<1> SUFFICES ASSUME Undisturbed PROVE Spec => PostedSpec
  OBVIOUS
<1>1. Init => TypeInv /\ ReadPlace /\ Posted!Init
  BY TypeInit, PostedInit
<1>2. TypeInv /\ ReadPlace /\ [Next]_vars => (TypeInv /\ ReadPlace)'
  BY TypeStep, PostedStep
<1>3. TypeInv /\ ReadPlace /\ [Next]_vars => [Posted!Next]_Posted!vars
  BY PostedStep
<1> QED
  BY <1>1, <1>2, <1>3, PTL DEF Spec, PostedSpec, Posted!Spec
=============================================================================
