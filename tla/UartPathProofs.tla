--------------------------- MODULE UartPathProofs ---------------------------
(* Theorems about UartPath, for texts, sockets and drivers of any size. *)
EXTENDS UartPath, SequenceTheorems, TLAPS

-----------------------------------------------------------------------------
(* Type correctness *)

(* How far the driver's write and axilite_s_w are: they go through its     *)
(* states together, and what is latched is the register that is written.   *)
Offering(x) == w_state = "IDLE" /\ m.aw = 1 /\ ~ x.done
Accepted(x) == w_state = "DATA" /\ m.aw = 0 /\ ~ x.done /\ awaddr = x.reg
Finished(x) == w_state = "RESPONSE" /\ m.aw = 0 /\ m.w = 0 /\ x.done
WritePlace ==
  /\ writing = <<>> => /\ w_state \in {"X", "IDLE"} /\ m.aw = 0 /\ m.w = 0
                       /\ w_state = "X" => rst_n = 0
  /\ writing # <<>> => /\ rst_n = 1
                       /\ Offering(writing[1]) \/ Accepted(writing[1]) \/ Finished(writing[1])

TypeInv == TypeOK /\ WritePlace

(* Frames keep their type as sockets fill and are emptied. *)
LEMMA QueueType ==
  ASSUME NEW S, NEW q \in Seq(S)
  PROVE  /\ Len(q) \in Nat
         /\ \A x \in S : Append(q, x) \in Seq(S) /\ Len(Append(q, x)) = Len(q) + 1
         /\ q # <<>> => /\ Head(q) \in S /\ Tail(q) \in Seq(S)
                        /\ Len(q) > 0 /\ Len(Tail(q)) = Len(q) - 1 /\ Head(q) = q[1]
OBVIOUS

(* A socket that is not full may take a frame. *)
LEMMA Grows ==
  ASSUME NEW q \in Seq(Text), NEW x \in Text, Len(q) < Hwm
  PROVE  Append(q, x) \in Seq(Text) /\ Len(Append(q, x)) <= Hwm
<1>1. /\ Len(q) \in Nat /\ Hwm \in Nat
      /\ Append(q, x) \in Seq(Text) /\ Len(Append(q, x)) = Len(q) + 1
  BY QueueType, UartConstants
<1> QED
  BY <1>1

(* One element of a sequence, cut out of it. *)
LEMMA CutOne ==
  ASSUME NEW S, NEW s \in Seq(S), NEW i \in 1..Len(s)
  PROVE  SubSeq(s, i, i) = <<s[i]>>
<1>1. i \in Nat /\ Len(s) \in Nat
  OBVIOUS
<1>2. /\ SubSeq(s, i, i) \in Seq(S) /\ Len(SubSeq(s, i, i)) = 1
      /\ SubSeq(s, i, i)[1] = s[i]
  BY <1>1, SubSeqProperties
<1>3. s[i] \in S
  OBVIOUS
<1>4. <<s[i]>> \in Seq(S) /\ Len(<<s[i]>>) = 1 /\ <<s[i]>>[1] = s[i]
  BY <1>3
<1> DEFINE a == SubSeq(s, i, i)
           b == <<s[i]>>
<1>5. a \in Seq(S) /\ b \in Seq(S) /\ Len(a) = 1 /\ Len(b) = 1 /\ a[1] = b[1]
  BY <1>2, <1>4
<1> HIDE DEF a, b
<1>6. Len(a) = Len(b) /\ \A j \in 1..Len(a) : a[j] = b[j]
  BY <1>5
<1>7. a = b
  BY <1>5, <1>6, SeqEqual
<1> QED
  BY <1>7 DEF a, b

(* A sequence of one. *)
LEMMA Singleton ==
  ASSUME NEW x
  PROVE  /\ <<x>> # <<>> /\ <<x>>[1] = x /\ Len(<<x>>) = 1
         /\ Head(<<x>>) = x /\ Tail(<<x>>) = <<>> /\ Append(<<>>, x) = <<x>>
OBVIOUS

(* The characters of the two texts, one by one, are text. *)
LEMMA TextType ==
  /\ \A i \in 1..Len(RxText) : <<RxText[i]>> \in Text
  /\ \A i \in 1..Len(TxText) : <<TxText[i]>> \in Text
  /\ Len(RxText) \in Nat /\ Len(TxText) \in Nat \ {0}
  /\ <<>> \notin Text
<1>1. /\ RxText \in Seq(Char) /\ TxText \in Seq(Char)
      /\ Len(TxText) \in Nat \ {0} /\ Len(RxText) \in Nat
  BY UartConstants
<1>2. \A i \in 1..Len(RxText) : RxText[i] \in Char
  BY <1>1
<1>3. \A i \in 1..Len(TxText) : TxText[i] \in Char
  BY <1>1
<1> QED
  BY <1>1, <1>2, <1>3, Singleton DEF Text

(* A character in its frame is the frame. *)
LEMMA WholeFrame ==
  ASSUME NEW f \in Text
  PROVE  <<f[1]>> = f
BY DEF Text

(* Being empty or a write in progress, it is one write. *)
LEMMA OneWriting ==
  ASSUME TypeInv
  PROVE  /\ writing # <<>> => writing[1] \in Write /\ writing = <<writing[1]>>
         /\ writing = <<>> \/ writing # <<>>
<1>1. writing \in {<<>>} \cup {<<x>> : x \in Write}
  BY DEF TypeInv, TypeOK
<1> QED
  BY <1>1, Singleton

(* The UART starts with its variables in their types. *)
LEMMA TypeInit == Init => TypeInv
<1> SUFFICES ASSUME Init PROVE TypeInv
  OBVIOUS
<1>1. /\ uart_rx \in Seq(Text) /\ uart_tx \in Seq(Text) /\ asked \in Seq(Reg)
      /\ Len(uart_rx) = 0 /\ Len(uart_tx) = 0 /\ Len(asked) = 0
  BY DEF Init
<1>2. rdata \in Value /\ s_rdata \in Value
  BY DEF Init, Value, Unset, Bit
<1>3. m \in [ar : Bit, araddr : Reg, r : Bit, aw : Bit, w : Bit]
  BY DEF Init, Reg, Bit
<1>4. TypeOK
  <2>1. told \in BOOLEAN /\ writing \in {<<>>} \cup {<<x>> : x \in Write}
    BY Zenon DEF Init
  <2>2. Len(uart_rx) <= Hwm /\ Len(uart_tx) <= Hwm /\ Len(asked) <= MaxReads
    BY <1>1, UartConstants
  <2>3. rxput \in 0..Len(RxText) /\ txput \in 0..Len(TxText)
    <3>1. Len(RxText) \in Nat /\ Len(TxText) \in Nat
      BY TextType
    <3> QED
      BY <3>1 DEF Init
  <2> QED
    BY <1>1, <1>2, <1>3, <2>1, <2>2, <2>3 DEF Init, TypeOK, Bit, Reg
<1>5. WritePlace
  BY DEF Init, WritePlace
<1> QED
  BY <1>4, <1>5 DEF TypeInv

(* The reads of the driver: it never has more in progress than MaxReads. *)
LEMMA DriverReadType ==
  ASSUME TypeInv, NEW ar \in Bit, NEW reg \in Reg, DriverRead(ar, reg)
  PROVE  /\ asked' \in Seq(Reg) /\ Len(asked') <= MaxReads /\ told' \in BOOLEAN
         /\ rxgot' \in {<<>>} \cup Text /\ rxn' \in Nat
<1>1. asked \in Seq(Reg) /\ Len(asked) <= MaxReads /\ MaxReads \in Nat
  BY UartConstants DEF TypeInv, TypeOK
<1>2. Left \in Seq(Reg) /\ Len(Left) <= MaxReads
  BY <1>1, QueueType DEF Left, TakesR
<1>3. asked' \in Seq(Reg) /\ Len(asked') <= MaxReads
  <2>1. CASE asked' = Left
    BY <1>2, <2>1
  <2>2. CASE asked' = Append(Left, reg) /\ Len(Left) < MaxReads
    BY <1>1, <1>2, <2>2, QueueType
  <2> QED
    BY <2>1, <2>2 DEF DriverRead
<1>4. told' \in BOOLEAN
  <2>1. Told \in BOOLEAN
    BY Zenon DEF Told, TypeInv, TypeOK
  <2> QED
    BY <2>1 DEF DriverRead
<1>5. rxgot' \in {<<>>} \cup Text /\ rxn' \in Nat
  BY DEF DriverRead, TypeInv, TypeOK, Value
<1> QED
  BY <1>3, <1>4, <1>5

(* The registers of axilite_s_r and STAT_REG latch what they are given. *)
LEMMA RegisterType ==
  ASSUME TypeInv, NEW b, Registers(b)
  PROVE  rvalid' \in Bit /\ rdata' \in Value /\ stat_r' \in Bit
<1>1. Unset \in Value
  BY DEF Unset, Value, Bit
<1> QED
  BY <1>1 DEF Registers, TypeInv, TypeOK, Bit

(* One edge of the clock at the driver's write and axilite_s_w.  prints    *)
(* says what print may depend on: the write that is under way, which is    *)
(* then done, so that it prints once.                                      *)
LEMMA WriteEdge ==
  ASSUME TypeInv, NEW ar, NEW reg, NEW r, NEW aw \in Bit,
         NEW w \in Seen(writing # <<>>), NEW b \in Bit,
         DriverWrite(aw, w, b), Registers(b), rst_n' = rst_n,
         m' = [ar |-> ar, araddr |-> reg, r |-> r, aw |-> aw, w |-> w]
  PROVE  /\ WritePlace'
         /\ writing' \in {<<>>} \cup {<<x>> : x \in Write}
         /\ w_state' \in {"X", "IDLE", "DATA", "RESPONSE"} /\ awready' \in Bit
         /\ awaddr' \in Reg /\ txput' \in 0..Len(TxText)
         /\ print => Unsent = <<writing[1].char>> /\ Unsent' = <<>>
         /\ ~ print => \/ Unsent' = Unsent
                       \/ Unsent = <<>> /\ \E c \in Text : Unsent' = <<c>>
<1>1. m'.aw = aw /\ m'.w = w /\ w \in Bit
  BY DEF Seen, Bit
<1>2. /\ txput \in 0..Len(TxText) /\ awaddr \in Reg /\ awready \in Bit /\ rst_n \in Bit
      /\ w_state \in {"X", "IDLE", "DATA", "RESPONSE"}
      /\ writing \in {<<>>} \cup {<<x>> : x \in Write}
  BY DEF TypeInv, TypeOK
<1>3. CASE writing = <<>> /\ writing' = <<>> /\ txput' = txput /\ aw = 0 /\ w = 0
  <2>1. /\ w_state \in {"X", "IDLE"} /\ m.aw = 0 /\ m.w = 0
        /\ w_state = "X" => rst_n = 0
    BY <1>3 DEF TypeInv, WritePlace
  <2>2. w_state' = "IDLE" /\ awready' \in Bit /\ awaddr' \in Reg
    BY <1>2, <2>1 DEF Registers, Bit, Reg
  <2>3. WritePlace'
    BY <1>1, <1>3, <2>2 DEF WritePlace
  <2>4. ~ print /\ Unsent' = Unsent
    BY <1>3, <2>1 DEF print, Unsent
  <2> QED
    BY <1>2, <1>3, <2>2, <2>3, <2>4
<1>4. ASSUME aw = 1, NEW k \in {"TX_FIFO", "CTRL_REG"}, Begin(k)
      PROVE  /\ WritePlace'
             /\ writing' \in {<<x>> : x \in Write}
             /\ w_state' = "IDLE" /\ awready' \in Bit
             /\ awaddr' \in Reg /\ txput' \in 0..Len(TxText)
             /\ ~ print /\ Unsent = <<>>
             /\ Unsent' = <<>> \/ \E c \in Text : Unsent' = <<c>>
  <2>1. /\ w_state = "IDLE" /\ m.aw = 0 /\ m.w = 0 /\ rst_n = 1 /\ writing = <<>>
    BY <1>4 DEF Begin, TypeInv, WritePlace
  <2>2. w_state' = "IDLE" /\ awready' \in Bit /\ awaddr' \in Reg
    BY <1>2, <2>1 DEF Registers, Bit
  <2> DEFINE c == <<TxText[IF k = "TX_FIFO" THEN txput + 1 ELSE 1]>>
             x == [reg |-> k, done |-> FALSE, char |-> c]
  <2>3. c \in Text /\ txput' \in 0..Len(TxText)
    <3>1. Len(TxText) \in Nat \ {0} /\ \A i \in 1..Len(TxText) : <<TxText[i]>> \in Text
      BY TextType
    <3>2. k = "TX_FIFO" => txput + 1 \in 1..Len(TxText)
      BY <1>2, <1>4, <3>1 DEF Begin
    <3>3. txput' \in 0..Len(TxText)
      BY <1>2, <1>4, <3>1, <3>2 DEF Begin
    <3>4. 1 \in 1..Len(TxText)
      BY <3>1
    <3> QED
      BY <3>1, <3>2, <3>3, <3>4
  <2>4. writing' = <<x>>
    BY <1>4 DEF Begin
  <2> HIDE DEF c
  <2>5. x \in Write /\ x.reg = k /\ x.done = FALSE /\ x.char = c
    BY <2>3 DEF Write
  <2> HIDE DEF x
  <2>6. writing'[1] = x /\ writing' # <<>>
    BY <2>4, Singleton
  <2>7. WritePlace'
    BY <1>1, <1>4, <2>1, <2>2, <2>5, <2>6 DEF WritePlace, Offering
  <2>8. ~ print /\ Unsent = <<>>
    BY <2>1 DEF print, Unsent
  <2>9. Unsent' = <<>> \/ Unsent' = <<c>>
    BY <2>5, <2>6 DEF Unsent
  <2> QED
    BY <2>2, <2>3, <2>4, <2>5, <2>7, <2>8, <2>9
<1>5. CASE Carry(aw, w, b)
  <2> DEFINE x == writing[1]
             y == [x EXCEPT !.done = @ \/ TakesW]
  <2>1. writing # <<>> /\ x \in Write /\ rst_n = 1
    BY <1>5, OneWriting DEF Carry, TypeInv, WritePlace
  <2>2. /\ aw = IF m.aw = 1 /\ awready = 1 THEN 0 ELSE m.aw
        /\ m.w = 1 /\ ~ TakesW => w = 1
        /\ TakesW \/ x.done => w = 0
        /\ writing' = IF bvalid = 1 /\ b = 1 THEN <<>> ELSE <<y>>
        /\ txput' = txput
    BY <1>5 DEF Carry
  <2>3. y \in Write /\ y.reg = x.reg /\ y.char = x.char /\ (y.done <=> x.done \/ TakesW)
    BY <2>1 DEF Write
  <2>4. x.reg \in Reg
    BY <2>1 DEF Write, Reg
  <2>5. Offering(x) \/ Accepted(x) \/ Finished(x)
    BY <2>1 DEF TypeInv, WritePlace
  <2>6. Unsent = IF x.reg = "TX_FIFO" /\ ~ x.done THEN <<x.char>> ELSE <<>>
    BY <2>1 DEF Unsent
  <2> HIDE DEF y
  <2>7. ASSUME writing' = <<y>>
        PROVE  /\ writing' # <<>> /\ writing'[1] = y
               /\ writing' \in {<<z>> : z \in Write}
               /\ Unsent' = IF y.reg = "TX_FIFO" /\ ~ y.done THEN <<y.char>> ELSE <<>>
    <3>1. writing' # <<>> /\ writing'[1] = y
      BY <2>7, Singleton
    <3> QED
      BY <2>3, <2>7, <3>1 DEF Unsent
  <2>8. CASE Offering(x)
    <3>1. w_state = "IDLE" /\ m.aw = 1 /\ ~ x.done /\ ~ TakesW /\ ~ print
      BY <2>8 DEF Offering, TakesW, wready, print
    <3>2. writing' = <<y>>
      BY <2>2, <3>1 DEF bvalid
    <3>3. \/ w_state' = "DATA" /\ awaddr' = x.reg /\ aw = 0
          \/ w_state' = "IDLE" /\ awaddr' = awaddr /\ aw = 1
      BY <2>1, <2>2, <3>1 DEF Registers
    <3>4. awready' \in Bit
      BY <2>1, <3>1 DEF Registers, Bit
    <3>5. WritePlace'
      BY <1>1, <2>1, <2>3, <2>7, <3>1, <3>2, <3>3 DEF WritePlace, Offering, Accepted
    <3>6. Unsent' = Unsent
      BY <2>3, <2>6, <2>7, <3>1, <3>2
    <3> QED
      BY <1>2, <2>2, <2>4, <2>7, <3>1, <3>2, <3>3, <3>4, <3>5, <3>6
  <2>9. CASE Accepted(x)
    <3>1. w_state = "DATA" /\ m.aw = 0 /\ ~ x.done /\ awaddr = x.reg
      BY <2>9 DEF Accepted
    <3>2. writing' = <<y>> /\ aw = 0 /\ (TakesW <=> m.w = 1)
      BY <2>2, <3>1 DEF bvalid, TakesW, wready
    <3>3. /\ w_state' = IF m.w = 1 THEN "RESPONSE" ELSE "DATA"
          /\ awready' \in Bit /\ awaddr' = awaddr
      BY <2>1, <3>1 DEF Registers, Bit
    <3>4. WritePlace'
      BY <1>1, <2>1, <2>2, <2>3, <2>7, <3>1, <3>2, <3>3 DEF WritePlace, Accepted, Finished
    <3>5. /\ print => Unsent = <<x.char>> /\ Unsent' = <<>>
          /\ ~ print => Unsent' = Unsent
      BY <2>3, <2>6, <2>7, <3>1, <3>2 DEF print
    <3> QED
      BY <1>2, <2>2, <2>7, <3>2, <3>3, <3>4, <3>5
  <2>10. CASE Finished(x)
    <3>1. w_state = "RESPONSE" /\ m.aw = 0 /\ m.w = 0 /\ x.done /\ ~ print
      BY <2>10 DEF Finished, print
    <3>2. aw = 0 /\ w = 0 /\ ~ TakesW /\ bvalid = 1
      BY <2>2, <3>1 DEF TakesW, bvalid
    <3>3. /\ w_state' = IF b = 1 THEN "IDLE" ELSE "RESPONSE"
          /\ awready' = b /\ awaddr' = awaddr
      BY <2>1, <3>1 DEF Registers
    <3>4. CASE b = 1
      <4>1. writing' = <<>>
        BY <2>2, <3>2, <3>4
      <4>2. WritePlace' /\ Unsent' = Unsent
        BY <1>1, <2>6, <3>1, <3>2, <3>3, <3>4, <4>1 DEF WritePlace, Unsent
      <4> QED
        BY <1>2, <2>2, <3>1, <3>3, <3>4, <4>1, <4>2
    <3>5. CASE b = 0
      <4>1. writing' = <<y>> /\ y.done
        BY <2>2, <2>3, <3>1, <3>5
      <4>2. WritePlace'
        BY <1>1, <2>1, <2>7, <3>2, <3>3, <3>5, <4>1 DEF WritePlace, Finished
      <4>3. Unsent' = Unsent
        BY <2>6, <2>7, <3>1, <4>1
      <4> QED
        BY <1>2, <2>2, <2>7, <3>1, <3>3, <3>5, <4>1, <4>2, <4>3
    <3> QED
      BY <3>4, <3>5 DEF Bit
  <2> QED
    BY <2>5, <2>8, <2>9, <2>10
<1> QED
  BY <1>3, <1>4, <1>5 DEF DriverWrite

(* COMBO_READ, however often it runs, takes frames off the front of the    *)
(* socket and shows the first character of one.                            *)
LEMMA ComboReadType ==
  ASSUME TypeInv, COMBO_READ, stat_r' \in Bit, rvalid' \in Bit
  PROVE  /\ uart_rx' \in Seq(Text) /\ Len(uart_rx') <= Hwm
         /\ s_rvalid' \in Bit /\ s_rdata' \in Value
<1>1. uart_rx \in Seq(Text) /\ Len(uart_rx) <= Hwm /\ s_rdata \in Value /\ s_rvalid \in Bit
  BY DEF TypeInv, TypeOK
<1>2. s_rvalid' \in Bit
  BY <1>1 DEF COMBO_READ, Bit
<1>3. ASSUME NEW k \in Evals, C_uart_rx(k)
      PROVE  uart_rx' \in Seq(Text) /\ Len(uart_rx') <= Hwm /\ s_rdata' \in Value
  <2>1. k \in Nat \ {0} /\ Hwm \in Nat /\ Len(uart_rx) \in Nat
    BY <1>1, UartConstants
  <2>2. uart_rx' \in Seq(Text) /\ Len(uart_rx') <= Len(uart_rx)
    <3>1. uart_rx' = SubSeq(uart_rx, k + 1, Len(uart_rx))
      BY <1>3 DEF C_uart_rx
    <3>2. CASE k <= Len(uart_rx)
      BY <1>1, <2>1, <3>1, <3>2, SubSeqProperties
    <3>3. CASE k > Len(uart_rx)
      BY <1>1, <2>1, <3>1, <3>3, SubSeqProperties
    <3> QED
      BY <2>1, <3>2, <3>3
  <2>3. s_rdata' \in Value
    <3> DEFINE c == IF Len(uart_rx) < k THEN <<>> ELSE <<uart_rx[k][1]>>
    <3>1. c \in {<<>>} \cup Text
      <4>1. k <= Len(uart_rx) => uart_rx[k] \in Text
        BY <1>1, <2>1
      <4> QED
        BY <2>1, <4>1, WholeFrame
    <3>2. s_rdata' = [char |-> c, stat |-> 0]
      BY <1>3 DEF C_uart_rx, Unset
    <3> QED
      BY <3>1, <3>2 DEF Value, Bit
  <2> QED
    BY <1>1, <2>1, <2>2, <2>3
<1>4. ASSUME uart_rx' = uart_rx,
             \/ s_rdata' = s_rdata \/ s_rdata' = Unset
             \/ s_rdata' = [Unset EXCEPT !.stat = stat_r']
      PROVE  uart_rx' \in Seq(Text) /\ Len(uart_rx') <= Hwm /\ s_rdata' \in Value
  BY <1>1, <1>4 DEF Unset, Value, Bit
<1> QED
  BY <1>2, <1>3, <1>4 DEF COMBO_READ

(* What serial_rx sends is the next character of the backend's. *)
LEMMA NextCharacter ==
  ASSUME TypeInv, NEW n \in 1..serial_can_rx, serial_rx(n)
  PROVE  /\ SubSeq(RxText, rxput + 1, rxput + n) \in Text
         /\ rxput' \in 0..Len(RxText)
<1> DEFINE buf == SubSeq(RxText, rxput + 1, rxput + n)
<1>1. /\ n = 1 /\ rxput + 1 \in 1..Len(RxText) /\ rxput' = rxput + 1
      /\ RxText \in Seq(Char)
  <2>1. n = 1
    BY DEF serial_can_rx
  <2>2. Len(RxText) \in Nat /\ RxText \in Seq(Char)
    BY TextType, UartConstants
  <2>3. rxput \in 0..Len(RxText) /\ rxput + n <= Len(RxText) /\ rxput' = rxput + n
    BY DEF serial_rx, TypeInv, TypeOK
  <2> QED
    BY <2>1, <2>2, <2>3
<1>2. buf = <<RxText[rxput + 1]>>
  BY <1>1, CutOne
<1>3. buf \in Text /\ rxput' \in 0..Len(RxText)
  <2>1. Len(RxText) \in Nat /\ \A i \in 1..Len(RxText) : <<RxText[i]>> \in Text
    BY TextType
  <2>2. <<RxText[rxput + 1]>> \in Text
    BY <1>1, <2>1
  <2>3. rxput + 1 \in 0..Len(RxText)
    BY <1>1, <2>1
  <2> QED
    BY <1>1, <1>2, <2>2, <2>3
<1> QED
  BY <1>3

(* No action of QEMU, the driver or the UART leaves the types. *)
LEMMA TypeStep == TypeInv /\ [Next]_vars => TypeInv'
<1> SUFFICES ASSUME TypeInv, [Next]_vars PROVE TypeInv'
  OBVIOUS
<1> USE DEF TypeInv
<1>1. /\ Hwm \in Nat \ {0} /\ uart_rx \in Seq(Text) /\ uart_tx \in Seq(Text)
      /\ blocked_rx \in {<<>>} \cup Text /\ blocked_tx \in {<<>>} \cup Text
  BY UartConstants DEF TypeOK
<1> DEFINE Aside == UNCHANGED <<driverVars, regVars, combVars>>
<1>2. ASSUME Aside, rst_n' = rst_n \/ (rst_n' = 1 /\ w_state = "IDLE")
      PROVE  WritePlace'
  BY <1>2 DEF WritePlace, Offering, Accepted, Finished, driverVars, regVars
<1>3. ASSUME NEW n \in 1..serial_can_rx, serial_rx(n) PROVE TypeInv'
  <2> DEFINE buf == SubSeq(RxText, rxput + 1, rxput + n)
  <2>3. buf \in Text /\ rxput' \in 0..Len(RxText)
    BY <1>3, NextCharacter
  <2>4. /\ \/ uart_rx' = Append(uart_rx, buf) /\ Len(uart_rx) < Hwm /\ blocked_rx' = blocked_rx
           \/ blocked_rx' = buf /\ uart_rx' = uart_rx
        /\ UNCHANGED <<up, rst_n, uart_tx, blocked_tx, txgot, txn>> /\ Aside
    BY <1>3 DEF serial_rx
  <2> HIDE DEF buf
  <2>5. uart_rx' \in Seq(Text) /\ Len(uart_rx') <= Hwm /\ blocked_rx' \in {<<>>} \cup Text
    <3>1. CASE uart_rx' = Append(uart_rx, buf) /\ Len(uart_rx) < Hwm /\ blocked_rx' = blocked_rx
      BY <1>1, <2>3, <3>1, Grows
    <3>2. CASE blocked_rx' = buf /\ uart_rx' = uart_rx
      BY <1>1, <2>3, <3>2 DEF TypeOK
    <3> QED
      BY <2>4, <3>1, <3>2
  <2> QED
    BY <1>2, <2>3, <2>4, <2>5 DEF TypeOK, driverVars, regVars, combVars
<1>4. CASE serial_rx_sent
  <2>1. uart_rx' \in Seq(Text) /\ Len(uart_rx') <= Hwm /\ blocked_rx' = <<>>
    BY <1>1, <1>4, QueueType DEF serial_rx_sent
  <2> QED
    BY <1>2, <1>4, <2>1 DEF serial_rx_sent, TypeOK, driverVars, regVars, combVars
<1>5. CASE serial_tx
  <2>1. uart_tx' \in Seq(Text) /\ Len(uart_tx') <= Hwm /\ txgot' \in Text /\ txn' \in Nat
    BY <1>1, <1>5, QueueType DEF serial_tx, TypeOK
  <2> QED
    BY <1>2, <1>5, <2>1 DEF serial_tx, TypeOK, driverVars, regVars, combVars
<1>6. CASE C_uart_tx_sent
  <2>1. uart_tx' \in Seq(Text) /\ Len(uart_tx') <= Hwm /\ blocked_tx' = <<>>
    BY <1>1, <1>6, QueueType DEF C_uart_tx_sent
  <2> QED
    BY <1>2, <1>6, <2>1 DEF C_uart_tx_sent, TypeOK, driverVars, regVars, combVars
<1>7. CASE C_setup_uart_connection
  BY <1>2, <1>7 DEF C_setup_uart_connection, TypeOK, Bit, driverVars, regVars, combVars
<1>8. CASE ResetRelease
  BY <1>2, <1>8 DEF ResetRelease, TypeOK, Bit, driverVars, regVars, combVars
<1>9. CASE Tick
  <2>1. PICK ar \in Bit, r \in Bit, aw \in Bit, w \in Seen(writing # <<>>),
             b \in Seen(bvalid = 1), reg \in Reg : posedge(ar, reg, r, aw, w, b)
    BY <1>9 DEF Tick
  <2>2. /\ m' = [ar |-> ar, araddr |-> reg, r |-> r, aw |-> aw, w |-> w]
        /\ DriverRead(ar, reg) /\ DriverWrite(aw, w, b) /\ Registers(b)
        /\ COMBO_READ /\ COMBO_WRITE /\ blocked_tx = <<>>
        /\ UNCHANGED <<up, rst_n, blocked_rx, rxput, txgot, txn>>
        /\ IF print THEN C_uart_tx(writing[1].char) ELSE UNCHANGED <<uart_tx, blocked_tx>>
    BY <2>1 DEF posedge
  <2>3. b \in Bit /\ w \in Bit
    BY DEF Seen, Bit
  <2>4. m' \in [ar : Bit, araddr : Reg, r : Bit, aw : Bit, w : Bit]
    BY <2>2, <2>3
  <2>5. rvalid' \in Bit /\ rdata' \in Value /\ stat_r' \in Bit
    BY <2>2, RegisterType
  <2>6. /\ asked' \in Seq(Reg) /\ Len(asked') <= MaxReads /\ told' \in BOOLEAN
        /\ rxgot' \in {<<>>} \cup Text /\ rxn' \in Nat
    BY <2>2, DriverReadType
  <2>7. /\ uart_rx' \in Seq(Text) /\ Len(uart_rx') <= Hwm
        /\ s_rvalid' \in Bit /\ s_rdata' \in Value
    BY <2>2, <2>5, ComboReadType
  <2>8. o_stat' \in Bit
    BY <2>2, <2>5 DEF COMBO_WRITE, TypeOK, Bit
  <2>9. /\ WritePlace'
        /\ writing' \in {<<>>} \cup {<<x>> : x \in Write}
        /\ w_state' \in {"X", "IDLE", "DATA", "RESPONSE"} /\ awready' \in Bit
        /\ awaddr' \in Reg /\ txput' \in 0..Len(TxText)
    BY <2>2, <2>3, WriteEdge
  <2>10. uart_tx' \in Seq(Text) /\ Len(uart_tx') <= Hwm /\ blocked_tx' \in {<<>>} \cup Text
    <3>1. print => writing[1].char \in Text
      BY OneWriting DEF print, WritePlace, Write
    <3>2. CASE print /\ Len(uart_tx) < Hwm
      <4>1. uart_tx' = Append(uart_tx, writing[1].char) /\ blocked_tx' = blocked_tx
        BY <2>2, <3>2 DEF C_uart_tx
      <4> QED
        BY <1>1, <3>1, <3>2, <4>1, Grows
    <3>3. CASE print /\ ~ (Len(uart_tx) < Hwm)
      <4>1. uart_tx' = uart_tx /\ blocked_tx' = writing[1].char
        BY <2>2, <3>3 DEF C_uart_tx
      <4> QED
        BY <1>1, <3>1, <3>3, <4>1 DEF TypeOK
    <3>4. CASE ~ print
      BY <1>1, <2>2, <3>4 DEF TypeOK
    <3> QED
      BY <3>2, <3>3, <3>4
  <2> QED
    BY <2>2, <2>4, <2>5, <2>6, <2>7, <2>8, <2>9, <2>10 DEF TypeOK
<1>10. CASE UNCHANGED vars
  BY <1>10 DEF vars, TypeOK, WritePlace, Offering, Accepted, Finished
<1> QED
  BY <1>3, <1>4, <1>5, <1>6, <1>7, <1>8, <1>9, <1>10 DEF Next

(* Every variable keeps its type, and a socket is never filled beyond its  *)
(* limit, however the driver reads and writes.                             *)
THEOREM TypeCorrect == Spec => []TypeOK
<1>1. TypeInv => TypeOK
  BY DEF TypeInv
<1> QED
  BY <1>1, TypeInit, TypeStep, PTL DEF Spec

-----------------------------------------------------------------------------
(* From the driver to the backend *)

(* Nothing, or one frame, put behind the frames of a socket. *)
LEMMA Joined ==
  ASSUME NEW S, NEW q \in Seq(S), NEW x \in S
  PROVE  /\ q \o <<>> = q /\ <<>> \o q = q
         /\ <<x>> \in Seq(S) /\ <<>> \in Seq(S)
         /\ q \o <<x>> = Append(q, x)
<1>1. <<x>> \in Seq(S) /\ <<>> \in Seq(S)
  OBVIOUS
<1>2. q \o <<>> = q /\ <<>> \o q = q
  BY ConcatEmptySeq
<1> QED
  BY <1>1, <1>2, AppendIsConcat

(* What is taken from the front leaves what is behind where it is. *)
LEMMA FirstOut ==
  ASSUME NEW S, NEW q \in Seq(S), NEW r \in Seq(S), q # <<>>
  PROVE  q \o r # <<>> /\ Head(q \o r) = Head(q) /\ Tail(q \o r) = Tail(q) \o r
<1> DEFINE p == q \o r
           a == Tail(p)
           t == Tail(q)
           b == t \o r
<1>1. /\ Len(q) \in Nat \ {0} /\ Len(r) \in Nat /\ p \in Seq(S) /\ Len(p) = Len(q) + Len(r)
      /\ \A i \in 1..Len(q) + Len(r) : p[i] = IF i <= Len(q) THEN q[i] ELSE r[i - Len(q)]
  BY ConcatProperties, EmptySeq, LenProperties
<1>2. /\ t \in Seq(S) /\ Len(t) = Len(q) - 1 /\ \A i \in 1..Len(t) : t[i] = q[i + 1]
  BY HeadTailProperties
<1>3. /\ b \in Seq(S) /\ Len(b) = Len(t) + Len(r)
      /\ \A i \in 1..Len(t) + Len(r) : b[i] = IF i <= Len(t) THEN t[i] ELSE r[i - Len(t)]
  BY <1>2, ConcatProperties
<1> HIDE DEF p, b, t
<1>4. p # <<>> /\ Head(p) = Head(q)
  <2>1. p # <<>>
    BY <1>1, EmptySeq
  <2>2. Head(p) = p[1] /\ Head(q) = q[1]
    BY <1>1, <2>1
  <2> QED
    BY <1>1, <2>1, <2>2
<1>5. /\ a \in Seq(S) /\ Len(a) = Len(p) - 1 /\ \A i \in 1..Len(a) : a[i] = p[i + 1]
  BY <1>1, <1>4, HeadTailProperties
<1> HIDE DEF a
<1>6. Len(a) = Len(b) /\ \A i \in 1..Len(a) : a[i] = b[i]
  <2>1. Len(a) = Len(b)
    BY <1>1, <1>2, <1>3, <1>5
  <2>2. ASSUME NEW i \in 1..Len(a) PROVE a[i] = b[i]
    <3>1. i \in Nat /\ i >= 1 /\ i <= Len(q) + Len(r) - 1
      BY <1>1, <1>5
    <3>2. a[i] = IF i + 1 <= Len(q) THEN q[i + 1] ELSE r[(i + 1) - Len(q)]
      BY <1>1, <1>5, <3>1
    <3>3. b[i] = IF i <= Len(t) THEN t[i] ELSE r[i - Len(t)]
      <4>1. i \in 1..Len(t) + Len(r)
        BY <1>1, <1>2, <3>1
      <4> QED
        BY <1>3, <4>1
    <3>4. i <= Len(t) => t[i] = q[i + 1]
      BY <1>1, <1>2, <3>1
    <3>5. (i + 1) - Len(q) = i - Len(t) /\ (i <= Len(t) <=> i + 1 <= Len(q))
      BY <1>1, <1>2, <3>1
    <3> QED
      BY <3>2, <3>3, <3>4, <3>5
  <2> QED
    BY <2>1, <2>2
<1>7. a = b
  BY <1>3, <1>5, <1>6, SeqEqual
<1> QED
  BY <1>4, <1>7 DEF p, a, b, t

(* What is still to be printed is nothing or a character. *)
LEMMA UnsentType == TypeInv => Unsent \in {<<>>} \cup {<<c>> : c \in Text}
<1> SUFFICES ASSUME TypeInv PROVE Unsent \in {<<>>} \cup {<<c>> : c \in Text}
  OBVIOUS
<1>1. writing # <<>> => writing[1].char \in Text
  BY OneWriting DEF Write
<1> QED
  BY <1>1 DEF Unsent

(* Each step gives the channel a character, takes its first one, or leaves *)
(* it alone: print and a send that waited only move one.                   *)
LEMMA TxStep == TypeInv /\ [Next]_vars => [Tx!Next]_(Tx!vars)
<1> SUFFICES ASSUME TypeInv, [Next]_vars PROVE [Tx!Next]_(Tx!vars)
  OBVIOUS
<1> DEFINE B == IF blocked_tx = <<>> THEN <<>> ELSE <<blocked_tx>>
<1>1. /\ uart_tx \in Seq(Text) /\ blocked_tx \in {<<>>} \cup Text
      /\ uart_rx \in Seq(Text) /\ blocked_rx \in {<<>>} \cup Text
  BY DEF TypeInv, TypeOK
<1>2. B \in Seq(Text) /\ Unsent \in Seq(Text) /\ uart_tx \o B \in Seq(Text)
  <2>1. B \in Seq(Text) /\ Unsent \in Seq(Text)
    <3>1. <<>> \in Seq(Text) /\ \A x \in Text : <<x>> \in Seq(Text)
      OBVIOUS
    <3> QED
      BY <1>1, <3>1, UnsentType
  <2> QED
    BY <1>1, <2>1, ConcatProperties
<1>3. txq = (uart_tx \o B) \o Unsent
  BY DEF txq
<1>4. ASSUME uart_tx' = uart_tx, blocked_tx' = blocked_tx, Unsent' = Unsent, txgot' = txgot
      PROVE  UNCHANGED Tx!vars
  BY <1>4 DEF Tx!vars, txq
<1>5. ASSUME UNCHANGED driverVars PROVE Unsent' = Unsent
  BY <1>5 DEF driverVars, Unsent
<1>6. CASE serial_tx
  <2>1. /\ uart_tx # <<>> /\ uart_tx' = Tail(uart_tx) /\ txgot' = Head(uart_tx)
        /\ blocked_tx' = blocked_tx /\ Unsent' = Unsent
    BY <1>5, <1>6 DEF serial_tx
  <2>2. txq' = (Tail(uart_tx) \o B) \o Unsent
    BY <2>1 DEF txq
  <2> HIDE DEF B
  <2>3. /\ uart_tx \o B # <<>> /\ Head(uart_tx \o B) = Head(uart_tx)
        /\ Tail(uart_tx \o B) = Tail(uart_tx) \o B
    BY <1>1, <1>2, <2>1, FirstOut
  <2> DEFINE q == uart_tx \o B
  <2>4. q \o Unsent # <<>> /\ Head(q \o Unsent) = Head(q) /\ Tail(q \o Unsent) = Tail(q) \o Unsent
    <3> HIDE DEF q
    <3>1. q \in Seq(Text) /\ q # <<>> /\ Unsent \in Seq(Text)
      BY <1>2, <2>3 DEF q
    <3> QED
      BY <3>1, FirstOut
  <2>5. txq # <<>> /\ txgot' = Head(txq) /\ txq' = Tail(txq)
    BY <1>3, <2>1, <2>2, <2>3, <2>4
  <2> QED
    BY <2>5 DEF Tx!Next, Tx!Get
<1>7. CASE C_uart_tx_sent
  <2>1. /\ blocked_tx # <<>> /\ uart_tx' = Append(uart_tx, blocked_tx) /\ blocked_tx' = <<>>
        /\ txgot' = txgot /\ Unsent' = Unsent
    BY <1>5, <1>7 DEF C_uart_tx_sent
  <2>2. txq' = (Append(uart_tx, blocked_tx) \o <<>>) \o Unsent
    BY <2>1 DEF txq
  <2>3. B = <<blocked_tx>> /\ blocked_tx \in Text
    BY <1>1, <2>1
  <2>4. /\ uart_tx \o <<blocked_tx>> = Append(uart_tx, blocked_tx)
        /\ Append(uart_tx, blocked_tx) \in Seq(Text)
    BY <1>1, <2>3, Joined, QueueType
  <2>5. Append(uart_tx, blocked_tx) \o <<>> = Append(uart_tx, blocked_tx)
    BY <2>4, ConcatEmptySeq
  <2> QED
    BY <1>3, <2>1, <2>2, <2>3, <2>4, <2>5 DEF Tx!vars
<1>8. CASE Tick
  <2>1. PICK ar \in Bit, r \in Bit, aw \in Bit, w \in Seen(writing # <<>>),
             b \in Seen(bvalid = 1), reg \in Reg : posedge(ar, reg, r, aw, w, b)
    BY <1>8 DEF Tick
  <2>2. /\ m' = [ar |-> ar, araddr |-> reg, r |-> r, aw |-> aw, w |-> w]
        /\ DriverWrite(aw, w, b) /\ Registers(b) /\ rst_n' = rst_n
        /\ blocked_tx = <<>> /\ txgot' = txgot
        /\ IF print THEN C_uart_tx(writing[1].char) ELSE UNCHANGED <<uart_tx, blocked_tx>>
    BY <2>1 DEF posedge
  <2>3. b \in Bit
    BY DEF Seen, Bit
  <2>4. /\ print => Unsent = <<writing[1].char>> /\ Unsent' = <<>>
        /\ ~ print => \/ Unsent' = Unsent
                      \/ Unsent = <<>> /\ \E c \in Text : Unsent' = <<c>>
    BY <2>2, <2>3, WriteEdge
  <2>5. txq = uart_tx \o Unsent /\ uart_tx \o <<>> = uart_tx
    BY <1>1, <1>3, <2>2, ConcatEmptySeq
  <2>6. CASE print
    <3> DEFINE c == writing[1].char
    <3>1. c \in Text /\ c # <<>>
      BY <2>6, OneWriting, TextType DEF print, TypeInv, WritePlace, Write
    <3>2. Unsent = <<c>> /\ Unsent' = <<>>
      BY <2>4, <2>6
    <3>3. C_uart_tx(c)
      BY <2>2, <2>6
    <3> HIDE DEF c
    <3>4. Append(uart_tx, c) \in Seq(Text) /\ uart_tx \o <<c>> = Append(uart_tx, c)
      BY <1>1, <3>1, Joined, QueueType
    <3>5. txq' = Append(uart_tx, c)
      <4>1. /\ Append(uart_tx, c) \o <<>> = Append(uart_tx, c)
        BY <3>4, ConcatEmptySeq
      <4>2. CASE uart_tx' = Append(uart_tx, c) /\ blocked_tx' = <<>>
        BY <3>2, <4>1, <4>2 DEF txq
      <4>3. CASE uart_tx' = uart_tx /\ blocked_tx' = c
        BY <3>1, <3>2, <3>4, <4>1, <4>3 DEF txq
      <4> QED
        BY <2>2, <3>3, <4>2, <4>3 DEF C_uart_tx
    <3> QED
      BY <2>2, <2>5, <3>2, <3>4, <3>5 DEF Tx!vars
  <2>7. CASE ~ print
    <3>1. uart_tx' = uart_tx /\ blocked_tx' = blocked_tx
      BY <2>2, <2>7
    <3>2. CASE Unsent' = Unsent
      BY <1>4, <2>2, <3>1, <3>2
    <3>3. ASSUME Unsent = <<>>, NEW c \in Text, Unsent' = <<c>> PROVE Tx!Next
      <4>1. txq' = uart_tx \o <<c>> /\ txq = uart_tx
        BY <2>2, <2>5, <3>1, <3>3 DEF txq
      <4>2. uart_tx \o <<c>> = Append(uart_tx, c)
        BY <1>1, Joined
      <4> QED
        BY <2>2, <4>1, <4>2 DEF Tx!Next, Tx!Put
    <3> QED
      BY <2>4, <2>7, <3>2, <3>3
  <2> QED
    BY <2>6, <2>7
<1>9. CASE \/ \E n \in 1..serial_can_rx : serial_rx(n)
           \/ serial_rx_sent \/ C_setup_uart_connection \/ ResetRelease
  <2>1. UNCHANGED <<uart_tx, blocked_tx, txgot, driverVars>>
    BY <1>9 DEF serial_rx, serial_rx_sent, C_setup_uart_connection, ResetRelease
  <2> QED
    BY <1>4, <1>5, <2>1
<1>10. CASE UNCHANGED vars
  <2>1. UNCHANGED <<uart_tx, blocked_tx, txgot, driverVars>>
    BY <1>10 DEF vars, driverVars
  <2> QED
    BY <1>4, <1>5, <2>1
<1> QED
  BY <1>6, <1>7, <1>8, <1>9, <1>10 DEF Next

(* What the driver writes to TX_FIFO reaches the backend once and in       *)
(* order, whatever else it reads and writes: axilite_s_w, C_uart_tx and    *)
(* serial_tx are a channel of characters, a full socket included.          *)
THEOREM ImplementsTx == Spec => TxSpec
<1>1. Init => Tx!Init
  <2> SUFFICES ASSUME Init PROVE Tx!Init
    OBVIOUS
  <2>1. uart_tx = <<>> /\ blocked_tx = <<>> /\ Unsent = <<>> /\ txgot = <<>>
    BY DEF Init, Unsent
  <2>2. txq = <<>> \o <<>> \o <<>>
    BY <2>1 DEF txq
  <2>3. <<>> \in Seq(Text) /\ <<>> \o <<>> = <<>>
    BY ConcatEmptySeq
  <2> QED
    BY <2>1, <2>2, <2>3 DEF Tx!Init
<1> QED
  BY <1>1, TypeInit, TypeStep, TxStep, PTL DEF Spec, TxSpec, Tx!Spec

-----------------------------------------------------------------------------
(* From the backend to the driver *)

(* COMBO_READ runs once for a change of its inputs, and a read ends before *)
(* the next begins.  Without this a character can be popped and lost, or   *)
(* two reads be given one.                                                 *)
OneRead == Evals = {1} /\ MaxReads = 1

(* Where the driver's read is: not begun; asked for, and popped by         *)
(* COMBO_READ, in the cycle before rvalid; or answered, rdata being what   *)
(* was popped.                                                             *)
Idle     == asked = <<>> /\ m.ar = 0 /\ m.r = 0 /\ rvalid = 0
Asking   == /\ asked # <<>> /\ Tail(asked) = <<>> /\ rst_n = 1
            /\ m.ar = 1 /\ m.araddr = Head(asked) /\ rvalid = 0
Answered == /\ asked # <<>> /\ Tail(asked) = <<>> /\ rst_n = 1
            /\ m.ar = 0 /\ rvalid = 1 /\ rdata = s_rdata
ReadPlace ==
  /\ s_rvalid = IF m.ar = 1 THEN 1 ELSE IF m.r = 1 THEN 0 ELSE rvalid
  /\ Idle \/ Asking \/ Answered

(* A popped character is at the front of the way, once. *)
LEMMA PoppedType == TypeInv => Popped \in {<<>>} \cup {<<c>> : c \in Text}
<1> SUFFICES ASSUME TypeInv PROVE Popped \in {<<>>} \cup {<<c>> : c \in Text}
  OBVIOUS
<1>1. s_rdata.char \in {<<>>} \cup Text
  BY DEF TypeInv, TypeOK, Value
<1> QED
  BY <1>1 DEF Popped

(* COMBO_READ as a new read begins: what it shows and what it leaves in    *)
(* the socket are together what was there.                                 *)
LEMMA PopOne ==
  ASSUME TypeInv, OneRead, NEW reg \in Reg, COMBO_READ, ReadInputs' # ReadInputs,
         m'.ar = 1, m'.araddr = reg, asked' = <<reg>>
  PROVE  Popped' \o uart_rx' = uart_rx
<1>1. asked' # <<>> /\ Head(asked') = reg
  BY Singleton
<1>2. uart_rx \in Seq(Text) /\ Len(uart_rx) \in Nat
  BY DEF TypeInv, TypeOK
<1>3. CASE reg # "RX_FIFO"
  <2>1. uart_rx' = uart_rx /\ Popped' = <<>>
    BY <1>1, <1>3 DEF COMBO_READ, Popped
  <2> QED
    BY <1>2, <2>1, ConcatEmptySeq
<1>4. CASE reg = "RX_FIFO"
  <2>1. C_uart_rx(1)
    <3>1. \E k \in Evals : C_uart_rx(k)
      BY <1>4 DEF COMBO_READ
    <3> QED
      BY <3>1 DEF OneRead
  <2>2. /\ uart_rx' = SubSeq(uart_rx, 2, Len(uart_rx))
        /\ s_rdata'.char = IF Len(uart_rx) < 1 THEN <<>> ELSE <<uart_rx[1][1]>>
    BY <2>1 DEF C_uart_rx, Unset
  <2>3. CASE uart_rx = <<>>
    <3>1. s_rdata'.char = <<>> /\ uart_rx' = <<>>
      <4>1. Len(uart_rx) = 0
        BY <2>3
      <4>2. SubSeq(uart_rx, 2, 0) = <<>>
        BY SubSeqEmpty
      <4> QED
        BY <2>2, <4>1, <4>2
    <3>2. Popped' = <<>>
      BY <3>1 DEF Popped
    <3> QED
      BY <1>2, <2>3, <3>1, <3>2, ConcatEmptySeq
  <2>4. CASE uart_rx # <<>>
    <3>1. Len(uart_rx) > 0 /\ Head(uart_rx) \in Text /\ Head(uart_rx) = uart_rx[1]
      BY <1>2, <2>4, QueueType
    <3>2. uart_rx' = Tail(uart_rx)
      BY <1>2, <2>2, <2>4, TailIsSubSeq
    <3>3. s_rdata'.char = Head(uart_rx)
      BY <1>2, <2>2, <3>1, WholeFrame
    <3>4. Popped' = <<Head(uart_rx)>>
      BY <1>1, <1>4, <3>1, <3>3, TextType DEF Popped
    <3>5. <<Head(uart_rx)>> \o Tail(uart_rx) = uart_rx
      <4>1. /\ SubSeq(uart_rx, 1, Len(uart_rx)) = <<uart_rx[1]>> \o SubSeq(uart_rx, 2, Len(uart_rx))
        <5>1. 1 \in 1..Len(uart_rx) /\ Len(uart_rx) \in 1..Len(uart_rx)
          BY <1>2, <3>1
        <5>2. SubSeq(uart_rx, 1, Len(uart_rx)) = <<uart_rx[1]>> \o SubSeq(uart_rx, 1 + 1, Len(uart_rx))
          BY <1>2, <5>1, SubSeqRecursiveFirst
        <5> QED
          BY <5>2
      <4>2. SubSeq(uart_rx, 1, Len(uart_rx)) = uart_rx
        BY <1>2, SubSeqFull
      <4>3. Tail(uart_rx) = SubSeq(uart_rx, 2, Len(uart_rx))
        BY <1>2, <2>4, TailIsSubSeq
      <4> QED
        BY <3>1, <4>1, <4>2, <4>3
    <3> QED
      BY <3>2, <3>4, <3>5
  <2> QED
    BY <2>3, <2>4
<1> QED
  BY <1>3, <1>4

(* One edge of the clock at the driver's read and axilite_s_r: what was    *)
(* popped stays, or it is taken, and what is popped next comes from the    *)
(* front of the socket.                                                    *)
LEMMA ReadEdge ==
  ASSUME TypeInv, ReadPlace, OneRead,
         NEW ar \in Bit, NEW r \in Bit, NEW reg \in Reg, NEW aw, NEW w, NEW b,
         m' = [ar |-> ar, araddr |-> reg, r |-> r, aw |-> aw, w |-> w],
         DriverRead(ar, reg), r = 1 => asked' # <<>>,
         Registers(b), COMBO_READ, rst_n' = rst_n
  PROVE  /\ ReadPlace'
         /\ \/ Popped' = Popped /\ uart_rx' = uart_rx /\ rxgot' = rxgot
            \/ /\ Popped' \o uart_rx' = uart_rx
               /\ \/ Popped = <<>> /\ rxgot' = rxgot
                  \/ Popped = <<rxgot'>>
<1>1. m'.ar = ar /\ m'.araddr = reg /\ m'.r = r
  OBVIOUS
<1>2. /\ asked \in Seq(Reg) /\ MaxReads = 1 /\ rst_n \in Bit /\ rvalid \in Bit
      /\ s_rvalid \in Bit /\ m.ar \in Bit /\ m.r \in Bit
  BY DEF TypeInv, TypeOK, OneRead
<1>3. s_rvalid' = IF m'.ar = 1 THEN 1 ELSE IF m'.r = 1 THEN 0 ELSE rvalid'
  <2>1. CASE ReadInputs' = ReadInputs
    <3>1. s_rvalid' = s_rvalid /\ rvalid' = rvalid /\ m'.ar = m.ar /\ m'.r = m.r
      BY <2>1 DEF COMBO_READ, ReadInputs
    <3> QED
      BY <3>1 DEF ReadPlace
  <2>2. CASE ReadInputs' # ReadInputs
    BY <2>2 DEF COMBO_READ
  <2> QED
    BY <2>1, <2>2
<1>4. ASSUME ar = 0 PROVE s_rdata' = s_rdata /\ uart_rx' = uart_rx
  BY <1>1, <1>4 DEF COMBO_READ
<1>5. ASSUME m.ar = 0, Left = <<>>, rvalid' = 0
      PROVE  ReadPlace' /\ Popped' \o uart_rx' = uart_rx
  <2>1. CASE ar = 0
    <3>1. asked' = <<>> /\ r = 0
      BY <1>5, <2>1 DEF DriverRead, Bit
    <3>2. Popped' = <<>> /\ uart_rx' = uart_rx
      BY <1>4, <2>1, <3>1 DEF Popped
    <3>3. Popped' \o uart_rx' = uart_rx
      BY <3>2, ConcatEmptySeq DEF TypeInv, TypeOK
    <3> QED
      BY <1>1, <1>3, <1>5, <2>1, <3>1, <3>3 DEF ReadPlace, Idle
  <2>2. CASE ar = 1
    <3>1. asked' = <<reg>> /\ rst_n = 1
      BY <1>5, <2>2, Singleton DEF DriverRead
    <3>2. ReadInputs' # ReadInputs
      BY <1>1, <1>5, <2>2 DEF ReadInputs
    <3>3. Popped' \o uart_rx' = uart_rx
      BY <1>1, <2>2, <3>1, <3>2, PopOne
    <3>4. asked' # <<>> /\ Tail(asked') = <<>> /\ Head(asked') = reg
      BY <3>1, Singleton
    <3> QED
      BY <1>1, <1>3, <1>5, <2>2, <3>1, <3>3, <3>4 DEF ReadPlace, Asking
  <2> QED
    BY <2>1, <2>2 DEF Bit
<1>6. ASSUME Left = asked, Len(asked) = 1
      PROVE  ar = 0 /\ asked' = asked /\ Popped' = Popped /\ uart_rx' = uart_rx
  <2>1. ar = 0 /\ asked' = asked
    BY <1>2, <1>6 DEF DriverRead
  <2> QED
    BY <1>4, <2>1 DEF Popped
<1>7. asked # <<>> /\ Tail(asked) = <<>> => Len(asked) = 1
  <2>1. /\ Len(asked) \in Nat
        /\ asked # <<>> => Len(Tail(asked)) = Len(asked) - 1
    BY <1>2, QueueType
  <2>2. Tail(asked) = <<>> => Len(Tail(asked)) = 0
    BY EmptySeq, Zenon
  <2> QED
    BY <2>1, <2>2
<1>8. CASE Idle
  <2>1. /\ asked = <<>> /\ m.ar = 0 /\ m.r = 0 /\ rvalid = 0 /\ s_rvalid = 0
    BY <1>8 DEF Idle, ReadPlace
  <2>2. ~ TakesR /\ Left = <<>> /\ Popped = <<>>
    BY <2>1 DEF TakesR, Left, Popped
  <2>3. rvalid' = 0
    BY <1>2, <2>1 DEF Registers, Bit
  <2>4. rxgot' = rxgot
    BY <2>2 DEF DriverRead
  <2> QED
    BY <1>5, <2>1, <2>2, <2>3, <2>4
<1>9. CASE Asking
  <2>1. /\ asked # <<>> /\ Tail(asked) = <<>> /\ rst_n = 1 /\ rvalid = 0 /\ s_rvalid = 1
    BY <1>9 DEF Asking, ReadPlace
  <2>2. ~ TakesR /\ Left = asked
    BY <2>1 DEF TakesR, Left
  <2>3. ar = 0 /\ asked' = asked /\ Popped' = Popped /\ uart_rx' = uart_rx /\ s_rdata' = s_rdata
    BY <1>4, <1>6, <1>7, <2>1, <2>2
  <2>4. rvalid' = 1 /\ rdata' = s_rdata /\ rxgot' = rxgot
    BY <2>1, <2>2 DEF Registers, DriverRead
  <2> QED
    BY <1>1, <1>3, <2>1, <2>3, <2>4 DEF ReadPlace, Answered
<1>10. CASE Answered
  <2>1. /\ asked # <<>> /\ Tail(asked) = <<>> /\ rst_n = 1 /\ m.ar = 0 /\ rvalid = 1
        /\ rdata = s_rdata /\ s_rvalid = IF m.r = 1 THEN 0 ELSE 1
    BY <1>10 DEF Answered, ReadPlace
  <2>2. rvalid' = s_rvalid /\ rdata' = s_rdata
    BY <2>1 DEF Registers
  <2>3. CASE m.r = 1
    <3>1. TakesR /\ Left = <<>> /\ rvalid' = 0
      BY <2>1, <2>2, <2>3 DEF TakesR, Left
    <3>2. ReadPlace' /\ Popped' \o uart_rx' = uart_rx
      BY <1>5, <2>1, <3>1
    <3>3. \/ Popped = <<>> /\ rxgot' = rxgot
          \/ Popped = <<rxgot'>>
      BY <2>1, <3>1 DEF DriverRead, Popped
    <3> QED
      BY <3>2, <3>3
  <2>4. CASE m.r = 0
    <3>1. ~ TakesR /\ Left = asked /\ rvalid' = 1
      BY <2>1, <2>2, <2>4 DEF TakesR, Left
    <3>2. ar = 0 /\ asked' = asked /\ Popped' = Popped /\ uart_rx' = uart_rx /\ s_rdata' = s_rdata
      BY <1>4, <1>6, <1>7, <2>1, <3>1
    <3>3. rxgot' = rxgot
      BY <3>1 DEF DriverRead
    <3> QED
      BY <1>1, <1>3, <2>1, <2>2, <3>1, <3>2, <3>3 DEF ReadPlace, Answered
  <2> QED
    BY <1>2, <2>3, <2>4 DEF Bit
<1> QED
  BY <1>8, <1>9, <1>10 DEF ReadPlace

(* Each step gives the channel a character, takes its first one, or leaves *)
(* it alone: C_uart_rx and a send that waited only move one.               *)
LEMMA RxStep ==
  ASSUME OneRead, TypeInv, ReadPlace, [Next]_vars
  PROVE  ReadPlace' /\ [Rx!Next]_(Rx!vars)
<1> DEFINE B == IF blocked_rx = <<>> THEN <<>> ELSE <<blocked_rx>>
           q == Popped \o uart_rx
<1>1. uart_rx \in Seq(Text) /\ blocked_rx \in {<<>>} \cup Text
  BY DEF TypeInv, TypeOK
<1>2. B \in Seq(Text) /\ Popped \in Seq(Text) /\ q \in Seq(Text)
  <2>1. <<>> \in Seq(Text) /\ \A x \in Text : <<x>> \in Seq(Text)
    OBVIOUS
  <2>2. B \in Seq(Text) /\ Popped \in Seq(Text)
    BY <1>1, <2>1, PoppedType
  <2> QED
    BY <1>1, <2>2, ConcatProperties
<1>3. rxq = q \o B
  BY DEF rxq
<1>4. ASSUME UNCHANGED <<driverVars, regVars, combVars>>, rst_n' = rst_n \/ rst_n' = 1
      PROVE  ReadPlace' /\ Popped' = Popped /\ rxgot' = rxgot
  BY <1>4 DEF ReadPlace, Idle, Asking, Answered, Popped, driverVars, regVars, combVars
<1>5. ASSUME NEW x \in Text
      PROVE  /\ Popped \o Append(uart_rx, x) = Append(q, x)
             /\ Append(q, x) \in Seq(Text) /\ Append(q, x) \o <<>> = Append(q, x)
             /\ q \o <<x>> = Append(q, x) /\ q \o <<>> = q
  <2>1. Append(uart_rx, x) = uart_rx \o <<x>> /\ <<x>> \in Seq(Text)
    BY <1>1, Joined
  <2>2. (Popped \o uart_rx) \o <<x>> = Popped \o (uart_rx \o <<x>>)
    BY <1>1, <1>2, <2>1, ConcatAssociative
  <2> HIDE DEF q
  <2>3. q \o <<x>> = Append(q, x) /\ q \o <<>> = q /\ Append(q, x) \in Seq(Text)
    BY <1>2, Joined, QueueType
  <2>4. Append(q, x) \o <<>> = Append(q, x)
    BY <2>3, ConcatEmptySeq
  <2> QED
    BY <2>1, <2>2, <2>3, <2>4 DEF q
<1>6. ASSUME NEW n \in 1..serial_can_rx, serial_rx(n)
      PROVE  ReadPlace' /\ Rx!Next
  <2> DEFINE buf == SubSeq(RxText, rxput + 1, rxput + n)
  <2>1. buf \in Text
    BY <1>6, NextCharacter
  <2>2. /\ blocked_rx = <<>>
        /\ \/ uart_rx' = Append(uart_rx, buf) /\ blocked_rx' = <<>>
           \/ uart_rx' = uart_rx /\ blocked_rx' = buf
        /\ UNCHANGED <<driverVars, regVars, combVars>> /\ rst_n' = rst_n
    BY <1>6 DEF serial_rx
  <2>3. buf # <<>>
    BY <2>1, TextType
  <2>4. ReadPlace' /\ Popped' = Popped /\ rxgot' = rxgot
    BY <1>4, <2>2
  <2> HIDE DEF buf
  <2>5. rxq = q
    BY <1>3, <1>5, <2>1, <2>2
  <2>6. rxq' = Append(q, buf)
    <3>1. CASE uart_rx' = Append(uart_rx, buf) /\ blocked_rx' = <<>>
      <4>1. rxq' = (Popped \o Append(uart_rx, buf)) \o <<>>
        BY <2>4, <3>1 DEF rxq
      <4> QED
        BY <1>5, <2>1, <4>1
    <3>2. CASE uart_rx' = uart_rx /\ blocked_rx' = buf
      <4>1. rxq' = q \o <<buf>>
        BY <2>3, <2>4, <3>2 DEF rxq
      <4> QED
        BY <1>5, <2>1, <4>1
    <3> QED
      BY <2>2, <3>1, <3>2
  <2> QED
    BY <2>1, <2>4, <2>5, <2>6 DEF Rx!Next, Rx!Put
<1>7. CASE serial_rx_sent
  <2>1. /\ blocked_rx # <<>> /\ uart_rx' = Append(uart_rx, blocked_rx) /\ blocked_rx' = <<>>
        /\ UNCHANGED <<driverVars, regVars, combVars>> /\ rst_n' = rst_n
    BY <1>7 DEF serial_rx_sent
  <2>2. ReadPlace' /\ Popped' = Popped /\ rxgot' = rxgot
    BY <1>4, <2>1
  <2>3. blocked_rx \in Text /\ rxq = q \o <<blocked_rx>>
    BY <1>1, <1>3, <2>1
  <2>4. rxq' = (Popped \o Append(uart_rx, blocked_rx)) \o <<>>
    BY <2>1, <2>2 DEF rxq
  <2>5. rxq' = rxq
    BY <1>5, <2>3, <2>4
  <2> QED
    BY <2>2, <2>5 DEF Rx!vars
<1>8. CASE Tick
  <2>1. PICK ar \in Bit, r \in Bit, aw \in Bit, w \in Seen(writing # <<>>),
             b \in Seen(bvalid = 1), reg \in Reg : posedge(ar, reg, r, aw, w, b)
    BY <1>8 DEF Tick
  <2>2. /\ m' = [ar |-> ar, araddr |-> reg, r |-> r, aw |-> aw, w |-> w]
        /\ DriverRead(ar, reg) /\ (r = 1 => asked' # <<>>) /\ Registers(b)
        /\ COMBO_READ /\ rst_n' = rst_n /\ blocked_rx' = blocked_rx
    BY <2>1 DEF posedge
  <2>3. /\ ReadPlace'
        /\ \/ Popped' = Popped /\ uart_rx' = uart_rx /\ rxgot' = rxgot
           \/ /\ Popped' \o uart_rx' = uart_rx
              /\ \/ Popped = <<>> /\ rxgot' = rxgot
                 \/ Popped = <<rxgot'>>
    BY <2>2, ReadEdge
  <2>4. CASE Popped' = Popped /\ uart_rx' = uart_rx /\ rxgot' = rxgot
    BY <2>2, <2>3, <2>4 DEF rxq, Rx!vars
  <2>5. CASE Popped' \o uart_rx' = uart_rx
    <3>1. rxq' = uart_rx \o B
      BY <2>2, <2>5 DEF rxq
    <3>2. CASE Popped = <<>> /\ rxgot' = rxgot
      <4>1. q = uart_rx
        BY <1>1, <3>2, ConcatEmptySeq
      <4> QED
        BY <1>3, <2>3, <3>1, <3>2, <4>1 DEF Rx!vars
    <3>3. CASE Popped = <<rxgot'>>
      <4>1. Popped # <<>> /\ Head(Popped) = rxgot' /\ Tail(Popped) = <<>>
        BY <3>3, Singleton
      <4>2. q # <<>> /\ Head(q) = rxgot' /\ Tail(q) = uart_rx
        <5>1. q # <<>> /\ Head(q) = Head(Popped) /\ Tail(q) = Tail(Popped) \o uart_rx
          BY <1>1, <1>2, <4>1, FirstOut
        <5>2. <<>> \o uart_rx = uart_rx
          BY <1>1, ConcatEmptySeq
        <5> QED
          BY <4>1, <5>1, <5>2
      <4> HIDE DEF q, B
      <4>3. q \o B # <<>> /\ Head(q \o B) = Head(q) /\ Tail(q \o B) = Tail(q) \o B
        BY <1>2, <4>2, FirstOut
      <4>4. rxq # <<>> /\ rxgot' = Head(rxq) /\ rxq' = Tail(rxq)
        BY <1>3, <3>1, <4>2, <4>3
      <4> QED
        BY <2>3, <4>4 DEF Rx!Next, Rx!Get
    <3> QED
      BY <2>3, <2>4, <3>2, <3>3
  <2> QED
    BY <2>3, <2>4, <2>5
<1>9. CASE serial_tx \/ C_uart_tx_sent \/ C_setup_uart_connection \/ ResetRelease
  <2>1. /\ UNCHANGED <<uart_rx, blocked_rx, driverVars, regVars, combVars>>
        /\ rst_n' = rst_n \/ rst_n' = 1
    BY <1>9 DEF serial_tx, C_uart_tx_sent, C_setup_uart_connection, ResetRelease
  <2>2. ReadPlace' /\ Popped' = Popped /\ rxgot' = rxgot
    BY <1>4, <2>1
  <2> QED
    BY <2>1, <2>2 DEF rxq, Rx!vars
<1>10. CASE UNCHANGED vars
  <2>1. UNCHANGED <<uart_rx, blocked_rx, driverVars, regVars, combVars, rst_n>>
    BY <1>10 DEF vars, driverVars, regVars, combVars
  <2>2. ReadPlace' /\ Popped' = Popped /\ rxgot' = rxgot
    BY <1>4, <2>1
  <2> QED
    BY <2>1, <2>2 DEF rxq, Rx!vars
<1> QED
  BY <1>6, <1>7, <1>8, <1>9, <1>10 DEF Next

(* Characters of the backend reach a driver that reads once at a time:     *)
(* serial_rx, C_uart_rx and axilite_s_r are a channel of characters,       *)
(* although a combinational block pops them, cycles before they are taken. *)
THEOREM ImplementsRx == OneRead => (Spec => RxSpec)
<1> SUFFICES ASSUME OneRead PROVE Spec => RxSpec
  OBVIOUS
<1>1. Init => ReadPlace /\ Rx!Init
  <2> SUFFICES ASSUME Init PROVE ReadPlace /\ Rx!Init
    OBVIOUS
  <2>1. ReadPlace
    BY DEF Init, ReadPlace, Idle
  <2>2. uart_rx = <<>> /\ blocked_rx = <<>> /\ Popped = <<>> /\ rxgot = <<>>
    BY DEF Init, Popped
  <2>3. rxq = <<>> \o <<>> \o <<>>
    BY <2>2 DEF rxq
  <2>4. <<>> \in Seq(Text) /\ <<>> \o <<>> = <<>>
    BY ConcatEmptySeq
  <2> QED
    BY <2>1, <2>2, <2>3, <2>4 DEF Rx!Init
<1>2. TypeInv /\ ReadPlace /\ [Next]_vars => (TypeInv /\ ReadPlace)'
  BY TypeStep, RxStep
<1>3. TypeInv /\ ReadPlace /\ [Next]_vars => [Rx!Next]_(Rx!vars)
  BY RxStep
<1> QED
  BY <1>1, <1>2, <1>3, TypeInit, PTL DEF Spec, RxSpec, Rx!Spec
=============================================================================
