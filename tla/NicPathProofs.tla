---------------------------- MODULE NicPathProofs ---------------------------
(* Theorems about NicPath, for words, packets and sockets of any size. *)
EXTENDS NicPath, SequenceTheorems, FiniteSetTheorems, FunctionTheorems, TLAPS

-----------------------------------------------------------------------------
(* The lanes of a word *)

(* The lanes of keep up to i: the place of i among them is their number.   *)
Upto(keep, i) == {j \in keep : j <= i}

(* A set of lanes is finite. *)
LEMMA KeepFinite ==
  ASSUME NEW keep \in SUBSET Lanes
  PROVE  IsFiniteSet(keep) /\ Cardinality(keep) \in Nat
<1>1. IsFiniteSet(Lanes)
  BY NicConstants, FS_Interval DEF Lanes
<1> QED
  BY <1>1, FS_Subset, FS_CardinalityType

(* A later lane has a larger place. *)
LEMMA PlaceGrows ==
  ASSUME NEW keep \in SUBSET Lanes, NEW i \in keep, NEW j \in keep, i < j
  PROVE  Cardinality(Upto(keep, i)) < Cardinality(Upto(keep, j))
<1> DEFINE A == Upto(keep, i)
           B == Upto(keep, j)
<1>1. i \in Nat /\ j \in Nat /\ \A x \in keep : x \in Nat
  BY NicConstants DEF Lanes
<1>2. A \in SUBSET B /\ j \in B /\ j \notin A
  <2>1. \A x \in keep : x <= i => x <= j
    BY <1>1
  <2>2. j <= j /\ ~ (j <= i)
    BY <1>1
  <2> QED
    BY <2>1, <2>2 DEF Upto
<1>3. A \in SUBSET Lanes /\ B \in SUBSET Lanes
  BY DEF Upto
<1> HIDE DEF A, B
<1>4. /\ Cardinality(A) \in Nat /\ Cardinality(B) \in Nat
      /\ Cardinality(A) <= Cardinality(B) /\ (Cardinality(B) = Cardinality(A) => B = A)
  BY <1>2, <1>3, KeepFinite, FS_Subset
<1>5. Cardinality(A) < Cardinality(B)
  BY <1>2, <1>4
<1> QED
  BY <1>5 DEF A, B

(* Every place up to their number is that of exactly one of the lanes. *)
LEMMA PlaceOfOne ==
  ASSUME NEW keep \in SUBSET Lanes
  PROVE  /\ \A i \in keep : Cardinality(Upto(keep, i)) \in 1..Cardinality(keep)
         /\ \A i, j \in keep :
              Cardinality(Upto(keep, i)) = Cardinality(Upto(keep, j)) => i = j
         /\ \A k \in 1..Cardinality(keep) :
              \E i \in keep : Cardinality(Upto(keep, i)) = k
<1> DEFINE C == Cardinality(keep)
           f == [i \in keep |-> Cardinality(Upto(keep, i))]
<1>1. IsFiniteSet(keep) /\ C \in Nat
  BY KeepFinite
<1>2. ASSUME NEW i \in keep PROVE Cardinality(Upto(keep, i)) \in 1..C
  <2> DEFINE A == Upto(keep, i)
  <2>1. A \in SUBSET keep /\ i \in A
    BY NicConstants DEF Upto, Lanes
  <2> HIDE DEF A
  <2>2. IsFiniteSet(A) /\ Cardinality(A) <= C
    BY <1>1, <2>1, FS_Subset
  <2>3. Cardinality(A) \in Nat /\ Cardinality(A) # 0
    BY <2>1, <2>2, FS_CardinalityType, FS_EmptySet
  <2>4. Cardinality(A) \in 1..C
    BY <1>1, <2>2, <2>3
  <2> QED
    BY <2>4 DEF A
<1>3. ASSUME NEW i \in keep, NEW j \in keep,
             Cardinality(Upto(keep, i)) = Cardinality(Upto(keep, j))
      PROVE  i = j
  <2>1. i \in Nat /\ j \in Nat
    BY NicConstants DEF Lanes
  <2>2. Cardinality(Upto(keep, i)) \in Nat /\ Cardinality(Upto(keep, j)) \in Nat
    BY <1>1, <1>2
  <2>3. ~ (i < j) /\ ~ (j < i)
    BY <1>3, <2>2, PlaceGrows
  <2> QED
    BY <2>1, <2>3
<1>4. f \in Injection(keep, 1..C)
  <2>1. f \in [keep -> 1..C]
    BY <1>2
  <2>2. \A i, j \in keep : f[i] = f[j] => i = j
    BY <1>3
  <2> QED
    BY <2>1, <2>2, Fun_IsInj
<1>5. IsFiniteSet(1..C) /\ Cardinality(1..C) = C
  BY <1>1, FS_Interval
<1>6. \A k \in 1..C : \E i \in keep : f[i] = k
  <2> HIDE DEF f
  <2>1. f \in Surjection(keep, 1..C)
    BY <1>4, <1>5, FS_Injection
  <2> QED
    BY <2>1, Fun_SurjectionProperties
<1>7. \A k \in 1..C : \E i \in keep : Cardinality(Upto(keep, i)) = k
  BY <1>6
<1> QED
  BY <1>2, <1>3, <1>7

(* The bytes of a word that are kept: as many as lanes, each that of the   *)
(* lane at its place.                                                      *)
LEMMA KeptIs ==
  ASSUME NEW S, NEW word \in [Lanes -> S], NEW keep \in SUBSET Lanes
  PROVE  /\ Kept(word, keep) \in Seq(S) /\ Len(Kept(word, keep)) = Cardinality(keep)
         /\ \A i \in keep : Kept(word, keep)[Cardinality(Upto(keep, i))] = word[i]
<1> DEFINE C == Cardinality(keep)
           nth(k) == CHOOSE i \in keep : Cardinality({j \in keep : j <= i}) = k
           s == [k \in 1..C |-> word[nth(k)]]
<1>1. C \in Nat
  BY KeepFinite
<1>2. Kept(word, keep) = s
  BY DEF Kept
<1>3. ASSUME NEW k \in 1..C
      PROVE  nth(k) \in keep /\ Cardinality(Upto(keep, nth(k))) = k
  <2>1. \E i \in keep : Cardinality({j \in keep : j <= i}) = k
    BY PlaceOfOne DEF Upto
  <2> QED
    BY <2>1 DEF Upto
<1> HIDE DEF nth
<1>4. s \in [1..C -> S]
  BY <1>3
<1>5. ASSUME NEW i \in keep PROVE s[Cardinality(Upto(keep, i))] = word[i]
  <2>1. Cardinality(Upto(keep, i)) \in 1..C
    BY PlaceOfOne
  <2>2. nth(Cardinality(Upto(keep, i))) = i
    BY <1>3, <2>1, PlaceOfOne
  <2> QED
    BY <2>1, <2>2
<1> HIDE DEF s
<1>6. s \in Seq(S) /\ Len(s) = C
  BY <1>1, <1>4, SeqDef
<1> QED
  BY <1>2, <1>5, <1>6

(* A word of a packet has a byte on each lane. *)
LEMMA WordType ==
  ASSUME NEW p \in Seq(Byte), NEW n \in Nat
  PROVE  Word(p, n) \in [Lanes -> Byte]
<1>1. ASSUME NEW i \in Lanes, n * BUSW + i <= Len(p)
      PROVE  p[n * BUSW + i] \in Byte
  <2>1. BUSW \in Nat /\ i \in Nat \ {0} /\ Len(p) \in Nat
    BY NicConstants DEF Lanes
  <2>2. n * BUSW \in Nat
    BY <2>1
  <2> DEFINE b == n * BUSW
  <2> HIDE DEF b
  <2>3. b \in Nat /\ b + i <= Len(p)
    BY <1>1, <2>2 DEF b
  <2>4. b + i \in 1..Len(p)
    BY <2>1, <2>3
  <2>5. p[b + i] \in Byte
    BY <2>4
  <2> QED
    BY <2>5 DEF b
<1>2. ZeroByte \in Byte
  BY DEF Byte
<1> QED
  BY <1>1, <1>2 DEF Word

(* The lanes 1..k of word n keep the bytes of the packet from there on. *)
LEMMA KeptFirst ==
  ASSUME NEW p \in Seq(Byte), NEW n \in Nat, NEW k \in Lanes, n * BUSW + k <= Len(p)
  PROVE  Kept(Word(p, n), 1..k) = SubSeq(p, n * BUSW + 1, n * BUSW + k)
<1> DEFINE b == n * BUSW
           word == Word(p, n)
           x == Kept(word, 1..k)
           y == SubSeq(p, b + 1, b + k)
<1>1. BUSW \in Nat /\ k \in Nat \ {0} /\ Len(p) \in Nat /\ 1..k \subseteq Lanes
  BY NicConstants DEF Lanes
<1>2. b \in Nat /\ b + k <= Len(p)
  BY <1>1
<1>3. \A i \in 1..k : word[i] = p[b + i]
  <2>1. \A i \in 1..k : i \in Lanes /\ b + i <= Len(p)
    <3> HIDE DEF b
    <3> QED
      BY <1>1, <1>2
  <2> QED
    BY <2>1 DEF Word
<1>4. /\ x \in Seq(Byte) /\ Len(x) = Cardinality(1..k)
      /\ \A i \in 1..k : x[Cardinality(Upto(1..k, i))] = word[i]
  <2>1. word \in [Lanes -> Byte] /\ 1..k \in SUBSET Lanes
    BY <1>1, WordType
  <2> HIDE DEF word
  <2> QED
    BY <2>1, KeptIs
<1>5. \A i \in 1..k : Cardinality(Upto(1..k, i)) = i
  <2> TAKE i \in 1..k
  <2>1. Upto(1..k, i) = 1..i
    BY <1>1 DEF Upto
  <2>2. Cardinality(1..i) = i
    BY <1>1, FS_Interval
  <2> QED
    BY <2>1, <2>2
<1>6. Cardinality(1..k) = k
  BY <1>1, FS_Interval
<1> HIDE DEF b, word, x
<1>7. x \in Seq(Byte) /\ Len(x) = k /\ \A i \in 1..k : x[i] = p[b + i]
  BY <1>3, <1>4, <1>5, <1>6
<1>8. y \in Seq(Byte) /\ Len(y) = k /\ \A i \in 1..k : y[i] = p[b + i]
  <2> DEFINE lo == b + 1
             hi == b + k
  <2>1. lo \in Int /\ hi \in Int /\ lo <= hi /\ hi - lo + 1 = k
    BY <1>1, <1>2
  <2>2. \A i \in lo..hi : p[i] \in Byte
    BY <1>1, <1>2
  <2>3. \A i \in 1..k : lo + i - 1 = b + i
    BY <1>1, <1>2
  <2> HIDE DEF lo, hi
  <2>4. /\ SubSeq(p, lo, hi) \in Seq(Byte)
        /\ Len(SubSeq(p, lo, hi)) = k
        /\ \A i \in 1..k : SubSeq(p, lo, hi)[i] = p[lo + i - 1]
    BY <2>1, <2>2, SubSeqProperties
  <2>5. \A i \in 1..k : SubSeq(p, lo, hi)[i] = p[b + i]
    BY <2>3, <2>4
  <2> QED
    BY <2>4, <2>5 DEF lo, hi
<1> HIDE DEF y
<1>9. x = y
  <2>1. Len(x) = Len(y) /\ \A i \in 1..Len(x) : x[i] = y[i]
    BY <1>7, <1>8
  <2> QED
    BY <1>7, <1>8, <2>1, SeqEqual
<1> QED
  BY <1>9 DEF x, y, b, word

(* C_nic_poll divides a packet into full words and one that is not empty.  *)
LEMMA Sizes ==
  ASSUME NEW size \in Nat \ {0}
  PROVE  /\ vlen(size) \in Nat /\ vlen(size) * BUSW \in Nat
         /\ size - vlen(size) * BUSW \in Lanes
         /\ vkeep(size) = 1..(size - vlen(size) * BUSW)
         /\ size > BUSW => vlen(size) >= 1
<1> DEFINE d == size \div BUSW
           r == size % BUSW
<1>1. BUSW \in Nat \ {0}
  BY NicConstants
<1>2. d \in Nat /\ r \in 0..(BUSW - 1) /\ size = d * BUSW + r
  BY <1>1
<1> HIDE DEF d, r
<1>3. CASE r # 0
  <2>1. vlen(size) = d /\ vkeep(size) = 1..r
    BY <1>3 DEF vlen, vkeep, d, r
  <2>2. d * BUSW \in Nat
    BY <1>1, <1>2
  <2>3. size - d * BUSW = r /\ r \in Lanes
    BY <1>1, <1>2, <1>3, <2>2 DEF Lanes
  <2>4. size > BUSW => d >= 1
    BY <1>1, <1>2
  <2> QED
    BY <1>2, <2>1, <2>2, <2>3, <2>4
<1>4. CASE r = 0
  <2>1. vlen(size) = d - 1 /\ vkeep(size) = Lanes
    BY <1>4 DEF vlen, vkeep, d, r
  <2>2. d >= 1 /\ d - 1 \in Nat
    BY <1>1, <1>2, <1>4
  <2>3. (d - 1) * BUSW = d * BUSW - BUSW /\ (d - 1) * BUSW \in Nat
    BY <1>1, <1>2, <2>2
  <2>4. size - (d - 1) * BUSW = BUSW
    BY <1>1, <1>2, <1>4, <2>3
  <2>5. size > BUSW => d - 1 >= 1
    BY <1>1, <1>2, <1>4, <2>2
  <2>6. Lanes = 1..BUSW /\ BUSW \in Lanes
    BY <1>1 DEF Lanes
  <2>7. /\ vlen(size) \in Nat /\ vlen(size) * BUSW \in Nat
        /\ size - vlen(size) * BUSW = BUSW /\ vkeep(size) = 1..BUSW
        /\ size > BUSW => vlen(size) >= 1
    BY <2>1, <2>2, <2>3, <2>4, <2>5, <2>6, Zenon
  <2> QED
    BY <2>6, <2>7, Zenon
<1> QED
  BY <1>3, <1>4

-----------------------------------------------------------------------------
(* Type correctness *)

(* The device never has sent more of a packet than there is. *)
SentIn == src # <<>> => sent <= Len(src)
TypeInv == TypeOK /\ SentIn

(* A packet is bytes, and not none. *)
LEMMA PacketType ==
  /\ \A p \in Packet : p \in Seq(Byte) /\ p # <<>> /\ Len(p) \in Nat \ {0}
  /\ aPacket \in Packet
<1>1. \A p \in Packet : p \in Seq(Byte) /\ p # <<>>
  BY NicConstants
<1>2. \A p \in Packet : Len(p) \in Nat \ {0}
  BY <1>1, EmptySeq
<1>3. aPacket \in Packet
  BY NicConstants DEF aPacket
<1> QED
  BY <1>1, <1>2, <1>3

(* Frames keep their type as sockets fill and are emptied. *)
LEMMA QueueType ==
  ASSUME NEW S, NEW q \in Seq(S)
  PROVE  /\ Len(q) \in Nat
         /\ \A x \in S : Append(q, x) \in Seq(S) /\ Len(Append(q, x)) = Len(q) + 1
         /\ q # <<>> => /\ Head(q) \in S /\ Tail(q) \in Seq(S)
                        /\ Len(q) > 0 /\ Len(Tail(q)) = Len(q) - 1
OBVIOUS

(* A socket that is not full may take a frame. *)
LEMMA Grows ==
  ASSUME NEW S, NEW q \in Seq(S), NEW x \in S, Len(q) < Hwm
  PROVE  Append(q, x) \in Seq(S) /\ Len(Append(q, x)) <= Hwm
<1>1. /\ Len(q) \in Nat /\ Hwm \in Nat
      /\ Append(q, x) \in Seq(S) /\ Len(Append(q, x)) = Len(q) + 1
  BY QueueType, NicConstants
<1> QED
  BY <1>1

(* What the device may offer: bytes of its packet that are left. *)
LEMMA OfferIs ==
  ASSUME TypeInv, NEW o \in Offer
  PROVE  /\ o.valid \in Bit /\ o.keep \in SUBSET Lanes
         /\ o.valid = 0 => o.keep = {} /\ ~ o.last
         /\ o.valid = 1 =>
              /\ src # <<>> /\ Cardinality(o.keep) <= Len(src) - sent
              /\ o.last <=> /\ Cardinality(o.keep) = Len(src) - sent
                            /\ (o.keep = {} <=> NullBeats = "last")
<1> DEFINE left == Len(src) - sent
           some == {k \in SUBSET Lanes : Cardinality(k) <= left}
           ends(k) == Cardinality(k) = left /\ (k = {} <=> NullBeats = "last")
           keeps == IF NullBeats = "none" THEN some \ {{}} ELSE some
           none == [valid |-> 0, keep |-> {}, last |-> FALSE]
           word(k) == [valid |-> 1, keep |-> k, last |-> ends(k)]
<1>1. o \in {none} \cup (IF src = <<>> THEN {} ELSE {word(k) : k \in keeps})
  BY DEF Offer
<1>2. CASE o = none
  BY <1>2 DEF Bit
<1>3. CASE src # <<>> /\ \E k \in keeps : o = word(k)
  <2>1. PICK k \in keeps : o = word(k)
    BY <1>3
  <2>2. k \in SUBSET Lanes /\ Cardinality(k) <= left
    OBVIOUS
  <2>3. o.valid = 1 /\ o.keep = k /\ (o.last <=> ends(k))
    BY <2>1
  <2> QED
    BY <1>3, <2>2, <2>3 DEF Bit
<1> QED
  BY <1>1, <1>2, <1>3

(* The bytes it offers are the next ones of its packet. *)
LEMMA OfferKept ==
  ASSUME TypeInv, NEW o \in Offer
  PROVE  /\ Cardinality(o.keep) \in Nat
         /\ Kept(OfferWord(o), o.keep) \in Seq(Byte)
         /\ o.keep = {} => Cardinality(o.keep) = 0 /\ Kept(OfferWord(o), o.keep) = <<>>
         /\ src # <<>> => /\ sent + Cardinality(o.keep) <= Len(src)
                          /\ Kept(OfferWord(o), o.keep)
                               = SubSeq(src, sent + 1, sent + Cardinality(o.keep))
<1> DEFINE keep == o.keep
           word == OfferWord(o)
           n == Cardinality(keep)
           x == Kept(word, keep)
<1>1. keep \in SUBSET Lanes /\ n \in Nat /\ IsFiniteSet(keep)
  BY OfferIs, KeepFinite
<1>2. keep = {} => n = 0
  BY FS_EmptySet
<1>3. src \in Packet \cup {<<>>} /\ sent \in Nat /\ (src # <<>> => sent <= Len(src))
  BY DEF TypeInv, TypeOK, SentIn
<1>4. src # <<>> => src \in Seq(Byte) /\ Len(src) \in Nat
  BY <1>3, PacketType
<1>5. src # <<>> => sent + n <= Len(src)
  <2>1. o.valid = 1 /\ src # <<>> => n <= Len(src) - sent
    BY OfferIs
  <2>2. o.valid = 0 => n = 0
    BY <1>2, OfferIs
  <2>3. o.valid \in Bit
    BY OfferIs
  <2> HIDE DEF n
  <2> QED
    BY <1>1, <1>3, <1>4, <2>1, <2>2, <2>3 DEF Bit
<1>6. src = <<>> => keep = {}
  BY OfferIs DEF Bit
<1>7. word \in [Lanes -> Byte] /\ \A i \in keep : word[i] = src[sent + Cardinality(Upto(keep, i))]
  <2>1. ASSUME NEW i \in keep
        PROVE  src[sent + Cardinality(Upto(keep, i))] \in Byte
    <3> DEFINE c == Cardinality(Upto(keep, i))
    <3>1. c \in 1..n
      BY <1>1, PlaceOfOne
    <3> HIDE DEF c, n
    <3>2. src # <<>>
      BY <1>6
    <3>3. sent + c \in 1..Len(src)
      BY <1>1, <1>3, <1>4, <1>5, <3>1, <3>2
    <3>4. src[sent + c] \in Byte
      BY <1>4, <3>2, <3>3
    <3> QED
      BY <3>4 DEF c
  <2>2. ZeroByte \in Byte
    BY DEF Byte
  <2>3. word = [i \in Lanes |-> IF i \in keep THEN src[sent + Cardinality(Upto(keep, i))]
                                ELSE ZeroByte]
    BY DEF OfferWord, Upto
  <2> QED
    BY <1>1, <2>1, <2>2, <2>3
<1> HIDE DEF word
<1>8. /\ x \in Seq(Byte) /\ Len(x) = n
      /\ \A i \in keep : x[Cardinality(Upto(keep, i))] = word[i]
  BY <1>1, <1>7, KeptIs
<1>9. \A k \in 1..n : x[k] = src[sent + k]
  <2> TAKE k \in 1..n
  <2>1. PICK i \in keep : Cardinality(Upto(keep, i)) = k
    BY <1>1, PlaceOfOne
  <2> QED
    BY <1>7, <1>8, <2>1
<1> HIDE DEF x, n
<1>10. keep = {} => x = <<>>
  <2>1. keep = {} => Len(x) = 0
    BY <1>2, <1>8
  <2> QED
    BY <1>8, <2>1, EmptySeq
<1>11. ASSUME src # <<>> PROVE x = SubSeq(src, sent + 1, sent + n)
  <2> DEFINE lo == sent + 1
             hi == sent + n
             y == SubSeq(src, lo, hi)
  <2>1. lo \in Int /\ hi \in Int /\ hi - lo + 1 = n /\ (lo <= hi <=> n > 0)
    BY <1>1, <1>3
  <2>2. \A i \in lo..hi : src[i] \in Byte
    BY <1>1, <1>3, <1>4, <1>5, <1>11
  <2>3. \A i \in 1..n : lo + i - 1 = sent + i
    BY <1>1, <1>3
  <2> HIDE DEF lo, hi
  <2>4. /\ y \in Seq(Byte) /\ Len(y) = IF lo <= hi THEN hi - lo + 1 ELSE 0
        /\ \A i \in 1..hi - lo + 1 : y[i] = src[lo + i - 1]
    BY <2>1, <2>2, SubSeqProperties
  <2> HIDE DEF y
  <2>5. Len(y) = n /\ \A i \in 1..n : y[i] = src[sent + i]
    BY <1>1, <2>1, <2>3, <2>4
  <2>6. Len(x) = Len(y) /\ \A i \in 1..Len(x) : x[i] = y[i]
    BY <1>8, <1>9, <2>5
  <2>7. x = y
    BY <1>8, <2>4, <2>6, SeqEqual
  <2> QED
    BY <2>7 DEF y, lo, hi
<1> QED
  BY <1>1, <1>2, <1>5, <1>8, <1>10, <1>11 DEF x, n, word

(* The bridge starts with its variables in their types. *)
LEMMA TypeInit == Init => TypeInv
<1> SUFFICES ASSUME Init PROVE TypeInv
  OBVIOUS
<1>1. /\ <<>> \in Seq(Byte) /\ <<>> \in Seq(Packet) /\ <<>> \in Seq(Seq(Byte)) /\ Len(<<>>) = 0
  BY EmptySeq
<1>2. r_data \in Packet /\ m_i_data \in Packet
  BY PacketType DEF Init
<1>3. r_len \in Nat
  BY <1>2, PacketType, Sizes DEF r_len
<1>4. tdata \in [Lanes -> Byte]
  BY <1>1, WordType DEF Init
<1>5. Len(nic_req) <= Hwm /\ Len(nic_resp) <= Hwm
  BY <1>1, NicConstants DEF Init
<1>6. r_count \in 0..(r_len + 1) /\ rxput \in 0..MaxRx /\ txput \in 0..MaxTx
  BY <1>3, NicConstants DEF Init
<1> QED
  BY <1>1, <1>2, <1>4, <1>5, <1>6 DEF Init, TypeInv, TypeOK, SentIn, Bit

(* C_nic_poll takes a frame of the socket or none. *)
LEMMA PollType ==
  ASSUME TypeInv, Poll
  PROVE  /\ m_i_req' \in Bit /\ m_i_data' \in Packet
         /\ nic_req' \in Seq(Packet) /\ Len(nic_req') <= Hwm
<1>1. /\ nic_req \in Seq(Packet) /\ Len(nic_req) <= Hwm /\ Hwm \in Nat
      /\ m_i_req \in Bit /\ m_i_data \in Packet
  BY NicConstants DEF TypeInv, TypeOK
<1>2. CASE UNCHANGED <<m_i_data, nic_req>> /\ (m_i_req' = m_i_req \/ m_i_req' = 0)
  BY <1>1, <1>2 DEF Bit
<1>3. CASE /\ nic_req # <<>> /\ m_i_req' = 1 /\ m_i_data' = Head(nic_req)
           /\ nic_req' = Tail(nic_req)
  <2>1. /\ Head(nic_req) \in Packet /\ Tail(nic_req) \in Seq(Packet)
        /\ Len(nic_req) \in Nat /\ Len(Tail(nic_req)) = Len(nic_req) - 1
    BY <1>1, <1>3, QueueType
  <2> QED
    BY <1>1, <1>3, <2>1 DEF Bit
<1> QED
  BY <1>2, <1>3 DEF Poll

(* axis_m counts the words of its packet and no further. *)
LEMMA MasterType ==
  ASSUME TypeInv, Master, m_i_data' \in Packet
  PROVE  /\ m_state' \in {"IDLE", "DATA"} /\ r_data' \in Packet
         /\ r_count' \in 0..(r_len' + 1) /\ tvalid' \in Bit
         /\ tdata' \in [Lanes -> Byte] /\ tkeep' \in SUBSET Lanes /\ tlast' \in Bit
<1>1. /\ m_state \in {"IDLE", "DATA"} /\ r_data \in Packet /\ r_count \in 0..(r_len + 1)
      /\ tvalid \in Bit /\ tdata \in [Lanes -> Byte] /\ tkeep \in SUBSET Lanes /\ tlast \in Bit
      /\ m_i_data \in Packet
  BY DEF TypeInv, TypeOK
<1>2. \A p \in Packet : vlen(Len(p)) \in Nat
  BY PacketType, Sizes
<1>3. r_len \in Nat /\ r_count \in Nat
  BY <1>1, <1>2 DEF r_len
<1>4. CASE UNCHANGED <<m_state, r_count, r_data, tvalid, tdata, tkeep, tlast>>
  BY <1>1, <1>4 DEF r_len
<1>5. ASSUME NEW req, NEW pkt \in Packet, req = 1, MasterIdle(req, pkt)
      PROVE  /\ m_state' \in {"IDLE", "DATA"} /\ r_data' \in Packet
             /\ r_count' \in 0..(r_len' + 1) /\ tvalid' \in Bit
             /\ tdata' \in [Lanes -> Byte] /\ tkeep' \in SUBSET Lanes /\ tlast' \in Bit
  <2>1. /\ m_state' = "DATA" /\ r_data' = pkt /\ r_count' = 1
        /\ tvalid' = 1 /\ tdata' = Word(pkt, 0) /\ tkeep' = Lanes /\ tlast' = 0
    BY <1>5 DEF MasterIdle
  <2>2. r_len' \in Nat
    BY <1>2, <2>1 DEF r_len
  <2>3. Word(pkt, 0) \in [Lanes -> Byte]
    BY PacketType, WordType
  <2>4. 1 \in 0..(r_len' + 1)
    <3> DEFINE l == r_len'
    <3> HIDE DEF l
    <3>1. l \in Nat
      BY <2>2 DEF l
    <3>2. 1 \in 0..(l + 1)
      BY <3>1
    <3> QED
      BY <3>2 DEF l
  <2> QED
    BY <2>1, <2>3, <2>4 DEF Bit
<1>6. CASE MasterData
  <2>1. /\ r_data' = r_data /\ tdata' = Word(r_data, r_count)
        /\ m_state' \in {"IDLE", "DATA"} /\ tvalid' \in Bit /\ tlast' \in Bit
        /\ tkeep' = tkeep \/ tkeep' = vkeep(Len(r_data)) \/ tkeep' = Lanes
    BY <1>1, <1>6 DEF MasterData, Bit
  <2>2. r_len' = r_len
    BY <2>1 DEF r_len
  <2>3. r_count' \in 0..(r_len + 1)
    <3>1. \/ r_count' = r_count
          \/ r_count' = r_count + 1 /\ r_count # r_len + 1
      BY <1>6 DEF MasterData
    <3> HIDE DEF r_len
    <3> QED
      BY <1>1, <1>3, <3>1
  <2>4. tdata' \in [Lanes -> Byte]
    BY <1>1, <1>3, <2>1, PacketType, WordType
  <2>5. vkeep(Len(r_data)) \in SUBSET Lanes
    <3>1. PICK k \in Lanes : vkeep(Len(r_data)) = 1..k
      <4>1. Len(r_data) \in Nat \ {0}
        BY <1>1, PacketType
      <4> QED
        BY <4>1, Sizes
    <3>2. 1..k \subseteq Lanes
      BY NicConstants DEF Lanes
    <3> QED
      BY <3>1, <3>2
  <2> QED
    BY <1>1, <2>1, <2>2, <2>3, <2>4, <2>5
<1> QED
  BY <1>1, <1>4, <1>5, <1>6 DEF Master, MasterIdle

(* The device gathers bytes. *)
LEMMA ReceiveType ==
  ASSUME TypeInv, Receive
  PROVE  rxbuf' \in Seq(Byte) /\ rxgot' \in Seq(Byte) /\ rxn' \in Nat
<1> DEFINE got == rxbuf \o Kept(tdata, tkeep)
<1>1. /\ rxbuf \in Seq(Byte) /\ rxgot \in Seq(Byte) /\ rxn \in Nat
      /\ tdata \in [Lanes -> Byte] /\ tkeep \in SUBSET Lanes
  BY DEF TypeInv, TypeOK
<1>2. got \in Seq(Byte) /\ <<>> \in Seq(Byte)
  <2>1. Kept(tdata, tkeep) \in Seq(Byte)
    BY <1>1, KeptIs
  <2> QED
    BY <1>1, <2>1, ConcatProperties
<1>3. /\ rxbuf' = IF tvalid = 0 THEN rxbuf ELSE IF tlast = 1 THEN <<>> ELSE got
      /\ IF tvalid = 1 /\ tlast = 1
         THEN rxgot' = got /\ rxn' = rxn + 1
         ELSE UNCHANGED <<rxgot, rxn>>
  BY DEF Receive
<1> HIDE DEF got
<1> QED
  BY <1>1, <1>2, <1>3

(* axis_s gathers the packet the device sends, and sends it on. *)
LEMMA SlaveType ==
  ASSUME TypeInv, NEW o \in Offer, Send(o), Slave(o), C_send_packet(o), blocked_tx = <<>>
  PROVE  /\ sent' \in Nat /\ src' \in Packet \cup {<<>>} /\ SentIn'
         /\ s_state' \in {"IDLE", "DATA"} /\ r_data_tmp' \in Seq(Byte)
         /\ nic_resp' \in Seq(Seq(Byte)) /\ Len(nic_resp') <= Hwm /\ blocked_tx' \in Seq(Byte)
<1> DEFINE n == Cardinality(o.keep)
<1>1. /\ src \in Packet \cup {<<>>} /\ sent \in Nat /\ s_state \in {"IDLE", "DATA"}
      /\ r_data_tmp \in Seq(Byte) /\ nic_resp \in Seq(Seq(Byte)) /\ Len(nic_resp) <= Hwm
      /\ blocked_tx \in Seq(Byte)
  BY DEF TypeInv, TypeOK
<1>2. /\ n \in Nat /\ Kept(OfferWord(o), o.keep) \in Seq(Byte)
      /\ src # <<>> => sent + n <= Len(src)
  BY OfferKept
<1>3. /\ sent' = sent + n /\ (src' = src \/ src' = <<>>)
  BY DEF Send
<1> HIDE DEF n
<1>4. sent' \in Nat /\ src' \in Packet \cup {<<>>} /\ SentIn'
  <2>1. sent' \in Nat
    BY <1>1, <1>2, <1>3
  <2> QED
    BY <1>1, <1>2, <1>3, <2>1 DEF SentIn
<1>5. n_data_tmp(o) \in Seq(Byte) /\ <<>> \in Seq(Byte)
  <2>1. (IF s_state = "IDLE" THEN <<>> ELSE r_data_tmp) \in Seq(Byte) /\ <<>> \in Seq(Byte)
    BY <1>1
  <2> DEFINE a == IF s_state = "IDLE" THEN <<>> ELSE r_data_tmp
             b == Kept(OfferWord(o), o.keep)
  <2>2. a \in Seq(Byte) /\ b \in Seq(Byte) /\ n_data_tmp(o) = a \o b
    BY <1>2, <2>1 DEF n_data_tmp
  <2> HIDE DEF a, b
  <2> QED
    BY <2>1, <2>2, ConcatProperties
<1>6. s_state' \in {"IDLE", "DATA"} /\ r_data_tmp' \in Seq(Byte)
  BY <1>1, <1>5 DEF Slave
<1>7. nic_resp' \in Seq(Seq(Byte)) /\ Len(nic_resp') <= Hwm /\ blocked_tx' \in Seq(Byte)
  <2>1. CASE nic_resp' = nic_resp /\ (blocked_tx' = blocked_tx \/ blocked_tx' = n_data_tmp(o))
    BY <1>1, <1>5, <2>1
  <2>2. CASE /\ Len(nic_resp) < Hwm /\ nic_resp' = Append(nic_resp, n_data_tmp(o))
             /\ blocked_tx' = blocked_tx
    BY <1>1, <1>5, <2>2, Grows
  <2> QED
    BY <2>1, <2>2 DEF C_send_packet
<1> QED
  BY <1>4, <1>6, <1>7

(* No action of QEMU, the bridge or the device leaves the types. *)
LEMMA TypeStep == TypeInv /\ [Next]_vars => TypeInv'
<1> SUFFICES ASSUME TypeInv, [Next]_vars PROVE TypeInv'
  OBVIOUS
<1> USE DEF TypeInv
<1>1. /\ nic_req \in Seq(Packet) /\ nic_resp \in Seq(Seq(Byte)) /\ Len(nic_resp) <= Hwm
      /\ blocked_rx \in Packet \cup {<<>>} /\ blocked_tx \in Seq(Byte) /\ <<>> \in Seq(Byte)
      /\ Hwm \in Nat /\ MaxRx \in Nat /\ MaxTx \in Nat
  BY NicConstants DEF TypeOK
<1>2. ASSUME NEW p \in Packet, net_rx_packet(p) PROVE TypeInv'
  <2>1. rxput' \in 0..MaxRx
    BY <1>1, <1>2 DEF net_rx_packet, TypeOK
  <2>2. nic_req' \in Seq(Packet) /\ Len(nic_req') <= Hwm /\ blocked_rx' \in Packet \cup {<<>>}
    <3>1. CASE /\ Len(nic_req) < Hwm /\ nic_req' = Append(nic_req, p)
               /\ blocked_rx' = blocked_rx
      BY <1>1, <3>1, Grows
    <3>2. CASE nic_req' = nic_req /\ blocked_rx' = p
      BY <3>2 DEF TypeOK
    <3> QED
      BY <1>2, <3>1, <3>2 DEF net_rx_packet
  <2> QED
    BY <1>2, <2>1, <2>2
       DEF net_rx_packet, TypeOK, SentIn, masterVars, slaveVars, rxVars, r_len
<1>3. CASE net_rx_sent
  <2>1. nic_req' \in Seq(Packet) /\ Len(nic_req') <= Hwm /\ blocked_rx' = <<>>
    BY <1>1, <1>3, Grows DEF net_rx_sent
  <2> QED
    BY <1>3, <2>1 DEF net_rx_sent, TypeOK, SentIn, masterVars, slaveVars, rxVars, r_len
<1>4. CASE net_tx_packet
  <2>1. /\ nic_resp' \in Seq(Seq(Byte)) /\ Len(nic_resp') <= Hwm
        /\ txgot' \in Seq(Byte) /\ txn' \in Nat
    <3>1. nic_resp # <<>> /\ nic_resp' = Tail(nic_resp) /\ txgot' = Head(nic_resp) /\ txn' = txn + 1
      BY <1>4 DEF net_tx_packet
    <3>2. /\ Head(nic_resp) \in Seq(Byte) /\ Tail(nic_resp) \in Seq(Seq(Byte))
          /\ Len(nic_resp) \in Nat /\ Len(Tail(nic_resp)) = Len(nic_resp) - 1
      BY <1>1, <3>1, QueueType
    <3> QED
      BY <1>1, <3>1, <3>2 DEF TypeOK
  <2> QED
    BY <1>4, <2>1 DEF net_tx_packet, TypeOK, SentIn, masterVars, slaveVars, rxVars, r_len
<1>5. CASE Tick
  <2>1. PICK o \in Offer : posedge(o)
    BY <1>5 DEF Tick
  <2>2. /\ Poll /\ Master /\ Receive /\ Send(o) /\ Slave(o) /\ C_send_packet(o)
        /\ blocked_tx = <<>> /\ UNCHANGED <<up, rst_n, blocked_rx, rxput, txgot, txput, txn>>
    BY <2>1 DEF posedge
  <2>3. /\ m_i_req' \in Bit /\ m_i_data' \in Packet
        /\ nic_req' \in Seq(Packet) /\ Len(nic_req') <= Hwm
    BY <2>2, PollType
  <2>4. /\ m_state' \in {"IDLE", "DATA"} /\ r_data' \in Packet
        /\ r_count' \in 0..(r_len' + 1) /\ tvalid' \in Bit
        /\ tdata' \in [Lanes -> Byte] /\ tkeep' \in SUBSET Lanes /\ tlast' \in Bit
    BY <2>2, <2>3, MasterType
  <2>5. rxbuf' \in Seq(Byte) /\ rxgot' \in Seq(Byte) /\ rxn' \in Nat
    BY <2>2, ReceiveType
  <2>6. /\ sent' \in Nat /\ src' \in Packet \cup {<<>>} /\ SentIn'
        /\ s_state' \in {"IDLE", "DATA"} /\ r_data_tmp' \in Seq(Byte)
        /\ nic_resp' \in Seq(Seq(Byte)) /\ Len(nic_resp') <= Hwm /\ blocked_tx' \in Seq(Byte)
    BY <2>2, SlaveType
  <2> QED
    BY <2>2, <2>3, <2>4, <2>5, <2>6 DEF TypeOK
<1>6. CASE C_send_sent
  <2>1. nic_resp' \in Seq(Seq(Byte)) /\ Len(nic_resp') <= Hwm /\ blocked_tx' = <<>>
    BY <1>1, <1>6, Grows DEF C_send_sent
  <2> QED
    BY <1>1, <1>6, <2>1 DEF C_send_sent, TypeOK, SentIn, masterVars, slaveVars, rxVars, r_len
<1>7. CASE C_setup_nic_connection
  BY <1>7 DEF C_setup_nic_connection, TypeOK, SentIn, Bit, masterVars, slaveVars, rxVars, r_len
<1>8. CASE ResetRelease
  BY <1>8 DEF ResetRelease, TypeOK, SentIn, Bit, masterVars, slaveVars, rxVars, r_len
<1>9. ASSUME NEW p \in Packet, StartSend(p) PROVE TypeInv'
  <2>1. sent' = 0 /\ src' = p /\ Len(p) \in Nat
    BY <1>9, PacketType DEF StartSend
  <2>2. SentIn' /\ sent' \in Nat
    BY <2>1 DEF SentIn
  <2>3. txput' \in 0..MaxTx
    BY <1>1, <1>9 DEF StartSend, TypeOK
  <2> QED
    BY <1>9, <2>1, <2>2, <2>3 DEF StartSend, TypeOK, masterVars, slaveVars, rxVars, r_len
<1>10. CASE UNCHANGED vars
  BY <1>10 DEF vars, TypeOK, SentIn, r_len
<1> QED
  BY <1>2, <1>3, <1>4, <1>5, <1>6, <1>7, <1>8, <1>9, <1>10 DEF Next

(* Every variable keeps its type: no socket is filled beyond its limit,    *)
(* axis_m counts no further than its packet, the frame of axis_s has       *)
(* bytes of a packet only.                                                 *)
THEOREM TypeCorrect == Spec => []TypeOK
<1>1. TypeInv => TypeOK
  BY DEF TypeInv
<1> QED
  BY <1>1, TypeInit, TypeStep, PTL DEF Spec

-----------------------------------------------------------------------------
(* From the device to QEMU's network *)

(* The device marks the last byte of a packet with tlast, not a word after *)
(* it: axis_s passes over such a word.                                     *)
LastByteLast == NullBeats # "last"

(* What axis_s has gathered is what the device has sent of its packet. *)
Gathered == IF s_state = "IDLE" THEN <<>> ELSE r_data_tmp
SendPlace ==
  /\ src = <<>> => s_state = "IDLE"
  /\ src # <<>> => rst_n = 1 /\ sent < Len(src) /\ Gathered = SubSeq(src, 1, sent)

(* Nothing, or one frame, put behind the frames of a socket. *)
LEMMA Joined ==
  ASSUME NEW S, NEW q \in Seq(S), NEW x \in S
  PROVE  /\ q \o <<>> = q /\ <<>> \o q = q
         /\ <<x>> \in Seq(S) /\ <<>> \in Seq(S)
         /\ q \o <<x>> = Append(q, x)
<1>1. <<x>> \in Seq(S) /\ <<>> \in Seq(S)
  OBVIOUS
<1>2. q \o <<>> = q /\ <<>> \o q = q
  BY ConcatEmptySeq
<1> QED
  BY <1>1, <1>2, AppendIsConcat

(* What is taken from the front leaves what is behind where it is. *)
LEMMA FirstOut ==
  ASSUME NEW S, NEW q \in Seq(S), NEW r \in Seq(S), q # <<>>
  PROVE  q \o r # <<>> /\ Head(q \o r) = Head(q) /\ Tail(q \o r) = Tail(q) \o r
<1> DEFINE p == q \o r
           a == Tail(p)
           t == Tail(q)
           b == t \o r
<1>1. /\ Len(q) \in Nat \ {0} /\ Len(r) \in Nat /\ p \in Seq(S) /\ Len(p) = Len(q) + Len(r)
      /\ \A i \in 1..Len(q) + Len(r) : p[i] = IF i <= Len(q) THEN q[i] ELSE r[i - Len(q)]
  BY ConcatProperties, EmptySeq, LenProperties
<1>2. /\ t \in Seq(S) /\ Len(t) = Len(q) - 1 /\ \A i \in 1..Len(t) : t[i] = q[i + 1]
  BY HeadTailProperties
<1>3. /\ b \in Seq(S) /\ Len(b) = Len(t) + Len(r)
      /\ \A i \in 1..Len(t) + Len(r) : b[i] = IF i <= Len(t) THEN t[i] ELSE r[i - Len(t)]
  BY <1>2, ConcatProperties
<1> HIDE DEF p, b, t
<1>4. p # <<>> /\ Head(p) = Head(q)
  <2>1. p # <<>>
    BY <1>1, EmptySeq
  <2>2. Head(p) = p[1] /\ Head(q) = q[1]
    BY <1>1, <2>1
  <2> QED
    BY <1>1, <2>1, <2>2
<1>5. /\ a \in Seq(S) /\ Len(a) = Len(p) - 1 /\ \A i \in 1..Len(a) : a[i] = p[i + 1]
  BY <1>1, <1>4, HeadTailProperties
<1> HIDE DEF a
<1>6. Len(a) = Len(b) /\ \A i \in 1..Len(a) : a[i] = b[i]
  <2>1. Len(a) = Len(b)
    BY <1>1, <1>2, <1>3, <1>5
  <2>2. ASSUME NEW i \in 1..Len(a) PROVE a[i] = b[i]
    <3>1. i \in Nat /\ i >= 1 /\ i <= Len(q) + Len(r) - 1
      BY <1>1, <1>5
    <3>2. a[i] = IF i + 1 <= Len(q) THEN q[i + 1] ELSE r[(i + 1) - Len(q)]
      BY <1>1, <1>5, <3>1
    <3>3. b[i] = IF i <= Len(t) THEN t[i] ELSE r[i - Len(t)]
      BY <1>1, <1>2, <1>3, <3>1
    <3>4. i <= Len(t) => t[i] = q[i + 1]
      BY <1>1, <1>2, <3>1
    <3>5. (i + 1) - Len(q) = i - Len(t) /\ (i <= Len(t) <=> i + 1 <= Len(q))
      BY <1>1, <1>2, <3>1
    <3> QED
      BY <3>2, <3>3, <3>4, <3>5
  <2> QED
    BY <2>1, <2>2
<1>7. a = b
  BY <1>3, <1>5, <1>6, SeqEqual
<1> QED
  BY <1>4, <1>7 DEF p, a, b, t

(* A sequence is its first element and the rest. *)
LEMMA HeadAndTail ==
  ASSUME NEW S, NEW q \in Seq(S), q # <<>>
  PROVE  <<Head(q)>> \o Tail(q) = q
<1>1. Len(q) \in Nat \ {0} /\ Head(q) = q[1] /\ 1 \in 1..Len(q) /\ Len(q) \in 1..Len(q)
  BY EmptySeq
<1>2. SubSeq(q, 1, Len(q)) = <<q[1]>> \o SubSeq(q, 1 + 1, Len(q))
  BY <1>1, SubSeqRecursiveFirst
<1>3. SubSeq(q, 1, Len(q)) = q /\ Tail(q) = SubSeq(q, 2, Len(q))
  BY SubSeqFull, TailIsSubSeq
<1> QED
  BY <1>1, <1>2, <1>3

(* One edge of the clock at axis_s: it has the packet, whole, when the     *)
(* device has sent the last byte, and no sooner.                           *)
LEMMA SendEdge ==
  ASSUME LastByteLast, TypeInv, SendPlace, NEW o \in Offer, Send(o), Slave(o), rst_n' = rst_n
  PROVE  /\ SendPlace'
         /\ send_pkt(o) => src # <<>> /\ n_data_tmp(o) = src /\ src' = <<>>
         /\ ~ send_pkt(o) => src' = src
<1> DEFINE n == Cardinality(o.keep)
<1>1. /\ o.valid \in Bit
      /\ o.valid = 0 => o.keep = {} /\ ~ o.last
      /\ o.valid = 1 => src # <<>> /\ (o.last <=> n = Len(src) - sent /\ o.keep # {})
  BY OfferIs DEF LastByteLast
<1>2. /\ n \in Nat
      /\ o.keep = {} => n = 0 /\ Kept(OfferWord(o), o.keep) = <<>>
      /\ src # <<>> => /\ sent + n <= Len(src)
                       /\ Kept(OfferWord(o), o.keep) = SubSeq(src, sent + 1, sent + n)
  BY OfferKept
<1>3. sent' = sent + n /\ src' = IF o.valid = 1 /\ o.last THEN <<>> ELSE src
  BY DEF Send
<1> HIDE DEF n
<1>4. CASE src = <<>>
  <2>1. o.valid = 0 /\ ~ send_pkt(o) /\ src' = src /\ s_state = "IDLE"
    BY <1>1, <1>3, <1>4 DEF Bit, send_pkt, SendPlace
  <2>2. s_state' = "IDLE"
    BY <2>1 DEF Slave
  <2> QED
    BY <1>4, <2>1, <2>2 DEF SendPlace
<1>5. CASE src # <<>>
  <2>1. /\ rst_n = 1 /\ sent < Len(src) /\ Gathered = SubSeq(src, 1, sent) /\ sent \in Nat
        /\ src \in Seq(Byte) /\ Len(src) \in Nat \ {0}
    BY <1>5, PacketType DEF SendPlace, TypeInv, TypeOK
  <2>2. sent + n <= Len(src) /\ sent + n \in Nat
    BY <1>2, <1>5, <2>1
  <2>3. n_data_tmp(o) = SubSeq(src, 1, sent + n)
    <3>1. n_data_tmp(o) = SubSeq(src, 1, sent) \o SubSeq(src, sent + 1, sent + n)
      BY <1>2, <1>5, <2>1 DEF n_data_tmp, Gathered
    <3>2. 1 \in 1..Len(src) + 1 /\ sent \in 1 - 1..Len(src) /\ sent + n \in sent..Len(src)
      BY <1>2, <2>1, <2>2
    <3> QED
      BY <2>1, <3>1, <3>2, ConcatAdjacentSubSeq
  <2>4. /\ r_data_tmp' = n_data_tmp(o)
        /\ s_state' = IF o.valid = 0 \/ o.keep = {} THEN s_state
                      ELSE IF o.last THEN "IDLE" ELSE "DATA"
    BY <2>1 DEF Slave
  <2>5. CASE send_pkt(o)
    <3>1. o.valid = 1 /\ o.keep # {} /\ o.last /\ n = Len(src) - sent
      BY <1>1, <2>5 DEF send_pkt
    <3>2. sent + n = Len(src)
      BY <1>2, <2>1, <3>1
    <3>3. n_data_tmp(o) = src
      BY <2>1, <2>3, <3>2, SubSeqFull
    <3>4. src' = <<>> /\ s_state' = "IDLE"
      BY <1>3, <2>4, <3>1
    <3> QED
      BY <1>5, <2>5, <3>3, <3>4 DEF SendPlace
  <2>6. CASE ~ send_pkt(o) /\ o.keep = {}
    <3>1. src' = src /\ s_state' = s_state /\ sent' = sent
      BY <1>1, <1>2, <1>3, <2>1, <2>4, <2>6 DEF Bit
    <3>2. n_data_tmp(o) = SubSeq(src, 1, sent)
      BY <1>2, <2>1, <2>3, <2>6
    <3>3. Gathered' = SubSeq(src, 1, sent)
      BY <2>1, <2>4, <3>1, <3>2 DEF Gathered
    <3> QED
      BY <1>5, <2>1, <2>6, <3>1, <3>3 DEF SendPlace
  <2>7. CASE ~ send_pkt(o) /\ o.keep # {}
    <3>1. o.valid = 1 /\ ~ o.last /\ n # Len(src) - sent
      BY <1>1, <2>7 DEF send_pkt, Bit
    <3>2. src' = src /\ s_state' = "DATA"
      BY <1>3, <2>4, <2>7, <3>1
    <3>3. sent' < Len(src)
      BY <1>2, <1>3, <2>1, <2>2, <3>1
    <3>4. Gathered' = SubSeq(src, 1, sent')
      BY <1>3, <2>3, <2>4, <3>2 DEF Gathered
    <3> QED
      BY <1>5, <2>1, <2>7, <3>2, <3>3, <3>4 DEF SendPlace
  <2> QED
    BY <2>5, <2>6, <2>7
<1> QED
  BY <1>4, <1>5

(* Each step gives the channel a packet, takes its first one, or leaves it *)
(* alone: axis_s and a send that waited only move one.                     *)
LEMMA TxStep ==
  ASSUME LastByteLast, TypeInv, SendPlace, [Next]_vars
  PROVE  SendPlace' /\ [Tx!Next]_(Tx!vars)
<1> DEFINE B == IF blocked_tx = <<>> THEN <<>> ELSE <<blocked_tx>>
           D == IF src = <<>> THEN <<>> ELSE <<src>>
           Frames == Seq(Seq(Byte))
<1>1. /\ nic_resp \in Frames /\ blocked_tx \in Seq(Byte) /\ src \in Packet \cup {<<>>}
      /\ src # <<>> => src \in Seq(Byte)
  BY PacketType DEF TypeInv, TypeOK
<1>2. B \in Frames /\ D \in Frames /\ nic_resp \o B \in Frames
  <2>1. <<>> \in Frames /\ \A x \in Seq(Byte) : <<x>> \in Frames
    OBVIOUS
  <2>2. B \in Frames /\ D \in Frames
    BY <1>1, <2>1
  <2> HIDE DEF B, D
  <2> QED
    BY <1>1, <2>2, ConcatProperties
<1>3. txq = (nic_resp \o B) \o D
  BY DEF txq
<1>4. ASSUME UNCHANGED <<src, sent, slaveVars>>, rst_n' = rst_n \/ rst_n' = 1
      PROVE  SendPlace'
  BY <1>4 DEF SendPlace, Gathered, slaveVars
<1>5. ASSUME UNCHANGED <<nic_resp, blocked_tx, src, txgot>>
      PROVE  UNCHANGED Tx!vars
  BY <1>5 DEF Tx!vars, txq
<1>6. CASE net_tx_packet
  <2>1. /\ nic_resp # <<>> /\ nic_resp' = Tail(nic_resp) /\ txgot' = Head(nic_resp)
        /\ UNCHANGED <<blocked_tx, src, sent, slaveVars, rst_n>>
    BY <1>6 DEF net_tx_packet
  <2>2. txq' = (Tail(nic_resp) \o B) \o D
    BY <2>1 DEF txq
  <2> HIDE DEF B, D
  <2> DEFINE q == nic_resp \o B
  <2>3. q # <<>> /\ Head(q) = Head(nic_resp) /\ Tail(q) = Tail(nic_resp) \o B
    BY <1>1, <1>2, <2>1, FirstOut
  <2>4. q \o D # <<>> /\ Head(q \o D) = Head(q) /\ Tail(q \o D) = Tail(q) \o D
    <3> HIDE DEF q
    <3>1. q \in Frames /\ q # <<>> /\ D \in Frames
      BY <1>2, <2>3 DEF q
    <3> QED
      BY <3>1, FirstOut
  <2>5. txq # <<>> /\ txgot' = Head(txq) /\ txq' = Tail(txq)
    BY <1>3, <2>1, <2>2, <2>3, <2>4
  <2> QED
    BY <1>4, <2>1, <2>5 DEF Tx!Next, Tx!Get
<1>7. CASE C_send_sent
  <2>1. /\ blocked_tx # <<>> /\ nic_resp' = Append(nic_resp, blocked_tx) /\ blocked_tx' = <<>>
        /\ UNCHANGED <<txgot, src, sent, slaveVars, rst_n>>
    BY <1>7 DEF C_send_sent
  <2>2. txq' = (Append(nic_resp, blocked_tx) \o <<>>) \o D
    BY <2>1 DEF txq
  <2>3. /\ nic_resp \o <<blocked_tx>> = Append(nic_resp, blocked_tx)
        /\ Append(nic_resp, blocked_tx) \in Frames
    BY <1>1, Joined, QueueType
  <2>4. Append(nic_resp, blocked_tx) \o <<>> = Append(nic_resp, blocked_tx)
    BY <2>3, ConcatEmptySeq
  <2>5. txq' = txq
    BY <1>3, <2>1, <2>2, <2>3, <2>4
  <2> QED
    BY <1>4, <2>1, <2>5 DEF Tx!vars
<1>8. ASSUME NEW p \in Packet, StartSend(p) PROVE SendPlace' /\ Tx!Next
  <2>1. /\ rst_n' = 1 /\ src = <<>> /\ src' = p /\ sent' = 0
        /\ UNCHANGED <<nic_resp, blocked_tx, slaveVars, txgot>>
    BY <1>8 DEF StartSend
  <2>2. p # <<>> /\ p \in Seq(Byte) /\ Len(p) \in Nat \ {0}
    BY PacketType
  <2>3. SendPlace'
    <3>1. s_state' = "IDLE" /\ Gathered' = <<>>
      BY <2>1 DEF SendPlace, Gathered, slaveVars
    <3>2. SubSeq(p, 1, 0) = <<>>
      BY SubSeqEmpty
    <3> QED
      BY <2>1, <2>2, <3>1, <3>2 DEF SendPlace
  <2>4. txq = (nic_resp \o B) \o <<>> /\ txq' = (nic_resp \o B) \o <<p>>
    BY <1>3, <2>1, <2>2 DEF txq
  <2> DEFINE q == nic_resp \o B
  <2>5. q \o <<>> = q /\ q \o <<p>> = Append(q, p)
    <3> HIDE DEF q
    <3>1. q \in Frames
      BY <1>2 DEF q
    <3> QED
      BY <2>2, <3>1, Joined
  <2> QED
    BY <2>1, <2>3, <2>4, <2>5 DEF Tx!Next, Tx!Put
<1>9. CASE Tick
  <2>1. PICK o \in Offer : posedge(o)
    BY <1>9 DEF Tick
  <2>2. /\ Send(o) /\ Slave(o) /\ C_send_packet(o) /\ blocked_tx = <<>>
        /\ rst_n' = rst_n /\ txgot' = txgot
    BY <2>1 DEF posedge
  <2>3. /\ SendPlace'
        /\ send_pkt(o) => src # <<>> /\ n_data_tmp(o) = src /\ src' = <<>>
        /\ ~ send_pkt(o) => src' = src
    BY <2>2, SendEdge
  <2>4. CASE ~ send_pkt(o)
    <3>1. UNCHANGED <<nic_resp, blocked_tx>>
      BY <2>2, <2>4 DEF C_send_packet
    <3> QED
      BY <1>5, <2>2, <2>3, <2>4, <3>1
  <2>5. CASE send_pkt(o)
    <3>1. src # <<>> /\ src' = <<>> /\ src \in Seq(Byte)
      BY <1>1, <2>3, <2>5
    <3>2. \/ nic_resp' = Append(nic_resp, src) /\ blocked_tx' = <<>>
          \/ nic_resp' = nic_resp /\ blocked_tx' = src
      BY <2>2, <2>3, <2>5 DEF C_send_packet
    <3>3. /\ nic_resp \o <<>> = nic_resp /\ nic_resp \o <<src>> = Append(nic_resp, src)
          /\ Append(nic_resp, src) \in Frames
      BY <1>1, <3>1, Joined, QueueType
    <3>4. Append(nic_resp, src) \o <<>> = Append(nic_resp, src)
      BY <3>3, ConcatEmptySeq
    <3>5. txq = Append(nic_resp, src)
      BY <1>3, <2>2, <3>1, <3>3
    <3>6. txq' = Append(nic_resp, src)
      BY <3>1, <3>2, <3>3, <3>4 DEF txq
    <3> QED
      BY <2>2, <2>3, <3>5, <3>6 DEF Tx!vars
  <2> QED
    BY <2>4, <2>5
<1>10. CASE \/ \E p \in Packet : net_rx_packet(p)
            \/ net_rx_sent \/ C_setup_nic_connection \/ ResetRelease
  <2>1. /\ UNCHANGED <<nic_resp, blocked_tx, src, sent, slaveVars, txgot>>
        /\ rst_n' = rst_n \/ rst_n' = 1
    BY <1>10 DEF net_rx_packet, net_rx_sent, C_setup_nic_connection, ResetRelease
  <2> QED
    BY <1>4, <1>5, <2>1
<1>11. CASE UNCHANGED vars
  <2>1. UNCHANGED <<nic_resp, blocked_tx, src, sent, slaveVars, txgot, rst_n>>
    BY <1>11 DEF vars, slaveVars
  <2> QED
    BY <1>4, <1>5, <2>1
<1> QED
  BY <1>6, <1>7, <1>8, <1>9, <1>10, <1>11 DEF Next

(* The packets of a device that marks their last byte reach QEMU's network *)
(* whole, once and in order, whatever lanes and words it leaves out, and   *)
(* whether or not C_send_packet has to wait.                               *)
THEOREM ImplementsTx == LastByteLast => (Spec => TxSpec)
<1> SUFFICES ASSUME LastByteLast PROVE Spec => TxSpec
  OBVIOUS
<1>1. Init => SendPlace /\ Tx!Init
  <2> SUFFICES ASSUME Init PROVE SendPlace /\ Tx!Init
    OBVIOUS
  <2>1. SendPlace
    BY DEF Init, SendPlace
  <2>2. txq = <<>> \o <<>> \o <<>> /\ txgot = <<>>
    BY DEF Init, txq
  <2>3. <<>> \in Seq(Byte) /\ <<>> \o <<>> = <<>>
    BY ConcatEmptySeq
  <2> QED
    BY <2>1, <2>2, <2>3 DEF Tx!Init
<1>2. TypeInv /\ SendPlace /\ [Next]_vars => (TypeInv /\ SendPlace)'
  BY TypeStep, TxStep
<1>3. TypeInv /\ SendPlace /\ [Next]_vars => [Tx!Next]_(Tx!vars)
  BY TxStep
<1> QED
  BY <1>1, <1>2, <1>3, TypeInit, PTL DEF Spec, TxSpec, Tx!Spec

-----------------------------------------------------------------------------
(* From QEMU's network to the device *)

(* Packets have more than one word: the first one goes out whole and       *)
(* without tlast.                                                          *)
LongPackets == \A p \in Packet : Len(p) > BUSW

(* Where axis_m is in its packet: the words before the one on the stream   *)
(* are with the device, which knows the last one when it comes.            *)
StreamPlace ==
  /\ m_state = "IDLE" => tvalid = 0 /\ rxbuf = <<>>
  /\ m_state = "DATA" =>
       /\ rst_n = 1 /\ r_count >= 1 /\ tvalid = 1
       /\ tdata = Word(r_data, r_count - 1)
       /\ rxbuf = SubSeq(r_data, 1, (r_count - 1) * BUSW)
       /\ tlast = IF r_count = r_len + 1 THEN 1 ELSE 0
       /\ tkeep = IF r_count = r_len + 1 THEN vkeep(Len(r_data)) ELSE Lanes

(* The packet that has left the socket: in axis_m, or found by C_nic_poll. *)
Found == IF m_i_req = 1 THEN <<m_i_data>> ELSE <<>>
Front == IF m_state = "DATA" THEN <<r_data>> ELSE Found

(* The words of the stream, put behind each other, are the packet.         *)
LEMMA WordsJoin ==
  ASSUME NEW p \in Seq(Byte), NEW n \in Nat, NEW k \in Lanes, n * BUSW + k <= Len(p)
  PROVE  SubSeq(p, 1, n * BUSW) \o Kept(Word(p, n), 1..k) = SubSeq(p, 1, n * BUSW + k)
<1> DEFINE b == n * BUSW
<1>1. BUSW \in Nat /\ k \in Nat \ {0} /\ Len(p) \in Nat
  BY NicConstants DEF Lanes
<1>2. b \in Nat /\ b + k <= Len(p) /\ Kept(Word(p, n), 1..k) = SubSeq(p, b + 1, b + k)
  BY <1>1, KeptFirst
<1> HIDE DEF b
<1>3. 1 \in 1..Len(p) + 1 /\ b \in 1 - 1..Len(p) /\ b + k \in b..Len(p)
  BY <1>1, <1>2
<1>4. SubSeq(p, 1, b) \o SubSeq(p, b + 1, b + k) = SubSeq(p, 1, b + k)
  BY <1>3, ConcatAdjacentSubSeq
<1> QED
  BY <1>2, <1>4 DEF b

(* The device takes the word of the cycle: it has the packet with the last *)
(* one, and before that as many words as were sent.                        *)
LEMMA ReceiveEdge ==
  ASSUME TypeInv, StreamPlace, m_state = "DATA", Receive
  PROVE  /\ r_count = r_len + 1 => rxgot' = r_data /\ rxbuf' = <<>>
         /\ r_count # r_len + 1 => rxgot' = rxgot /\ rxbuf' = SubSeq(r_data, 1, r_count * BUSW)
<1> DEFINE c == r_count - 1
           size == Len(r_data)
           got == rxbuf \o Kept(tdata, tkeep)
<1>1. /\ r_data \in Seq(Byte) /\ size \in Nat \ {0} /\ BUSW \in Nat \ {0}
      /\ r_count \in 0..(r_len + 1)
  BY PacketType, NicConstants DEF TypeInv, TypeOK
<1>2. /\ r_len \in Nat /\ r_len * BUSW \in Nat
      /\ size - r_len * BUSW \in Lanes /\ vkeep(size) = 1..(size - r_len * BUSW)
  BY <1>1, Sizes DEF r_len
<1>3. /\ r_count >= 1 /\ tvalid = 1 /\ tdata = Word(r_data, c)
      /\ rxbuf = SubSeq(r_data, 1, c * BUSW)
      /\ tlast = IF r_count = r_len + 1 THEN 1 ELSE 0
      /\ tkeep = IF r_count = r_len + 1 THEN vkeep(size) ELSE Lanes
  BY DEF StreamPlace
<1>4. /\ tlast = 1 => rxgot' = got /\ rxbuf' = <<>>
      /\ tlast = 0 => rxgot' = rxgot /\ rxbuf' = got
  <2>1. /\ rxbuf' = IF tvalid = 0 THEN rxbuf ELSE IF tlast = 1 THEN <<>> ELSE got
        /\ IF tvalid = 1 /\ tlast = 1
           THEN rxgot' = got /\ rxn' = rxn + 1
           ELSE UNCHANGED <<rxgot, rxn>>
    BY DEF Receive
  <2>2. tvalid = 1
    BY <1>3
  <2> HIDE DEF got
  <2> QED
    BY <2>1, <2>2
<1> HIDE DEF size, r_len
<1>5. c \in Nat /\ c <= r_len
  <2>1. r_len \in Nat /\ r_count \in 0..(r_len + 1) /\ r_count >= 1
    BY <1>1, <1>2, <1>3
  <2> QED
    BY <2>1
<1>6. CASE r_count = r_len + 1
  <2> DEFINE k == size - r_len * BUSW
  <2>1. c = r_len
    BY <1>1, <1>2, <1>6
  <2>2. r_len * BUSW + k = size
    BY <1>1, <1>2
  <2>3. k \in Lanes
    BY <1>2
  <2> HIDE DEF k
  <2>4. SubSeq(r_data, 1, r_len * BUSW) \o Kept(Word(r_data, r_len), 1..k)
          = SubSeq(r_data, 1, r_len * BUSW + k)
    <3>1. r_len * BUSW + k <= Len(r_data)
      BY <1>1, <2>2 DEF size
    <3> QED
      BY <1>1, <1>2, <2>3, <3>1, WordsJoin
  <2>5. tkeep = 1..k /\ tlast = 1
    BY <1>2, <1>3, <1>6 DEF k
  <2>6. got = SubSeq(r_data, 1, size)
    BY <1>3, <2>1, <2>2, <2>4, <2>5
  <2>7. SubSeq(r_data, 1, Len(r_data)) = r_data
    BY <1>1, SubSeqFull
  <2>8. got = r_data
    BY <2>6, <2>7 DEF size
  <2> HIDE DEF got
  <2> QED
    BY <1>4, <1>6, <2>5, <2>8
<1>7. CASE r_count # r_len + 1
  <2>1. c + 1 <= r_len /\ r_count = c + 1
    BY <1>1, <1>2, <1>5, <1>7
  <2>2. (c + 1) * BUSW <= r_len * BUSW /\ (c + 1) * BUSW = c * BUSW + BUSW
    <3> HIDE DEF c
    <3> QED
      BY <1>1, <1>2, <1>5, <2>1
  <2>3. BUSW \in Lanes /\ Lanes = 1..BUSW
    BY <1>1 DEF Lanes
  <2>4. c * BUSW + BUSW <= Len(r_data)
    <3> DEFINE x == c * BUSW + BUSW
               y == r_len * BUSW
    <3>1. x <= y /\ x \in Nat /\ y \in Nat /\ size - y \in Nat
      <4>1. x \in Nat
        BY <1>1, <1>5
      <4>2. size - y \in Nat
        BY <1>1, <1>2 DEF Lanes
      <4> QED
        BY <1>2, <2>2, <4>1, <4>2
    <3> HIDE DEF x, y
    <3>2. x <= size
      BY <1>1, <3>1
    <3> QED
      BY <3>2 DEF x, size
  <2>5. SubSeq(r_data, 1, c * BUSW) \o Kept(Word(r_data, c), 1..BUSW)
          = SubSeq(r_data, 1, c * BUSW + BUSW)
    BY <1>1, <1>5, <2>3, <2>4, WordsJoin
  <2>6. got = SubSeq(r_data, 1, r_count * BUSW) /\ tlast = 0
    BY <1>3, <1>7, <2>1, <2>2, <2>3, <2>5
  <2> QED
    BY <1>4, <1>7, <2>6
<1> QED
  BY <1>6, <1>7

(* What C_nic_poll finds was first in the socket. *)
LEMMA PollEdge ==
  ASSUME TypeInv, Poll
  PROVE  /\ busy => UNCHANGED <<m_i_req, m_i_data, nic_req>>
         /\ ~ busy => Found' \o nic_req' = nic_req
<1>1. nic_req \in Seq(Packet)
  BY DEF TypeInv, TypeOK
<1>2. CASE busy
  BY <1>2 DEF Poll
<1>3. CASE ~ busy /\ nic_req = <<>>
  <2>1. m_i_req' = 0 /\ nic_req' = <<>>
    BY <1>3 DEF Poll
  <2>2. Found' = <<>>
    BY <2>1 DEF Found
  <2> QED
    BY <1>1, <1>3, <2>1, <2>2, ConcatEmptySeq
<1>4. CASE ~ busy /\ nic_req # <<>>
  <2>1. m_i_req' = 1 /\ m_i_data' = Head(nic_req) /\ nic_req' = Tail(nic_req)
    BY <1>4 DEF Poll
  <2>2. Found' = <<Head(nic_req)>>
    BY <2>1 DEF Found
  <2>3. <<Head(nic_req)>> \o Tail(nic_req) = nic_req
    BY <1>1, <1>4, HeadAndTail
  <2>4. Found' \o nic_req' = nic_req
    BY <2>1, <2>2, <2>3
  <2> QED
    BY <1>4, <2>4
<1> QED
  BY <1>2, <1>3, <1>4

(* One edge of the clock at qemu_nic_bridge, axis_m and the device: the    *)
(* device gets the packet that was at the front, or the way stays the same *)
(* although a packet is found, or begun, or both.                          *)
LEMMA StreamEdge ==
  ASSUME LongPackets, TypeInv, StreamPlace, Poll, Master, Receive, rst_n' = rst_n
  PROVE  /\ StreamPlace'
         /\ \/ Front' \o nic_req' = Front \o nic_req /\ rxgot' = rxgot
            \/ Front' \o nic_req' = nic_req /\ Front = <<rxgot'>>
<1>1. /\ m_state \in {"IDLE", "DATA"} /\ nic_req \in Seq(Packet) /\ m_i_req \in Bit
      /\ r_data \in Packet /\ m_i_data \in Packet /\ rst_n \in Bit /\ r_count \in 0..(r_len + 1)
  BY DEF TypeInv, TypeOK
<1>2. m_i_data' \in Packet
  BY PollType
<1>3. CASE m_state = "IDLE"
  <2>1. tvalid = 0 /\ rxbuf = <<>> /\ rxbuf' = <<>> /\ rxgot' = rxgot
    BY <1>3 DEF StreamPlace, Receive
  <2>2. ASSUME UNCHANGED <<m_state, r_count, r_data, tvalid, tdata, tkeep, tlast>>
        PROVE  StreamPlace' /\ Front' = Found'
    BY <1>3, <2>1, <2>2 DEF StreamPlace, Front
  <2>3. ASSUME NEW pkt \in Packet, MasterIdle(1, pkt), rst_n = 1
        PROVE  StreamPlace' /\ Front' = <<pkt>>
    <3>1. /\ m_state' = "DATA" /\ r_data' = pkt /\ r_count' = 1
          /\ tvalid' = 1 /\ tdata' = Word(pkt, 0) /\ tkeep' = Lanes /\ tlast' = 0
      BY <2>3 DEF MasterIdle
    <3>2. r_len' \in Nat /\ r_len' >= 1
      <4>1. Len(pkt) \in Nat \ {0} /\ Len(pkt) > BUSW
        BY PacketType DEF LongPackets
      <4>2. vlen(Len(pkt)) \in Nat /\ vlen(Len(pkt)) >= 1
        BY <4>1, Sizes
      <4> QED
        BY <3>1, <4>2 DEF r_len
    <3>3. r_count' # r_len' + 1
      <4> DEFINE l == r_len'
      <4> HIDE DEF l
      <4>1. l \in Nat /\ l >= 1
        BY <3>2 DEF l
      <4>2. 1 # l + 1
        BY <4>1
      <4> QED
        BY <3>1, <4>2 DEF l
    <3>4. r_count' - 1 = 0 /\ r_count' >= 1 /\ (r_count' - 1) * BUSW = 0
      BY <3>1, NicConstants
    <3>5. SubSeq(pkt, 1, 0) = <<>>
      BY SubSeqEmpty
    <3> HIDE DEF r_len
    <3> QED
      BY <2>1, <2>3, <3>1, <3>3, <3>4, <3>5 DEF StreamPlace, Front
  <2>4. CASE m_i_req = 1
    <3>1. UNCHANGED <<m_i_req, m_i_data, nic_req>> /\ Front = <<m_i_data>> /\ Found' = <<m_i_data>>
      BY <1>3, <2>4, PollEdge DEF busy, Front, Found
    <3>2. \/ UNCHANGED <<m_state, r_count, r_data, tvalid, tdata, tkeep, tlast>>
          \/ rst_n = 1 /\ MasterIdle(1, m_i_data)
      BY <1>3, <2>4, <3>1 DEF Master, MasterData
    <3>3. StreamPlace' /\ Front' = <<m_i_data>>
      BY <1>1, <2>2, <2>3, <3>1, <3>2
    <3> QED
      BY <2>1, <3>1, <3>3
  <2>5. CASE m_i_req = 0
    <3>1. Found' \o nic_req' = nic_req /\ Front = <<>>
      BY <1>3, <2>5, PollEdge DEF busy, Front, Found
    <3>2. \/ UNCHANGED <<m_state, r_count, r_data, tvalid, tdata, tkeep, tlast>>
          \/ rst_n = 1 /\ m_i_req' = 1 /\ MasterIdle(1, m_i_data')
      BY <1>3, <2>5 DEF Master, MasterIdle, MasterData
    <3>3. StreamPlace' /\ Front' = Found'
      <4>1. CASE UNCHANGED <<m_state, r_count, r_data, tvalid, tdata, tkeep, tlast>>
        BY <2>2, <4>1
      <4>2. CASE rst_n = 1 /\ m_i_req' = 1 /\ MasterIdle(1, m_i_data')
        BY <1>2, <2>3, <4>2 DEF Found
      <4> QED
        BY <3>2, <4>1, <4>2
    <3>4. Front \o nic_req = nic_req
      BY <1>1, <3>1, ConcatEmptySeq
    <3> QED
      BY <2>1, <3>1, <3>3, <3>4
  <2> QED
    BY <1>1, <2>4, <2>5 DEF Bit
<1>4. CASE m_state = "DATA"
  <2>1. rst_n = 1 /\ r_count >= 1 /\ Front = <<r_data>>
    BY <1>4 DEF StreamPlace, Front
  <2>2. MasterData
    BY <1>4, <2>1 DEF Master, MasterIdle
  <2>3. r_data' = r_data /\ r_len' = r_len /\ tdata' = Word(r_data, r_count)
    BY <2>2 DEF MasterData, r_len
  <2>4. r_len \in Nat /\ r_count \in Nat
    BY <1>1, PacketType, Sizes DEF r_len
  <2>5. CASE r_count = r_len + 1
    <3>1. m_state' = "IDLE" /\ tvalid' = 0
      BY <2>2, <2>5 DEF MasterData
    <3>2. rxgot' = r_data /\ rxbuf' = <<>>
      BY <1>4, <2>5, ReceiveEdge
    <3>3. Found' \o nic_req' = nic_req /\ Front' = Found'
      BY <1>4, <2>5, <3>1, PollEdge DEF busy, Front
    <3> QED
      BY <2>1, <3>1, <3>2, <3>3 DEF StreamPlace
  <2>6. CASE r_count # r_len + 1
    <3>1. /\ m_state' = "DATA" /\ tvalid' = 1 /\ r_count' = r_count + 1
          /\ tlast' = IF r_count = r_len THEN 1 ELSE 0
          /\ tkeep' = IF r_count = r_len THEN vkeep(Len(r_data)) ELSE Lanes
      BY <1>4, <2>2, <2>6 DEF MasterData
    <3>2. rxgot' = rxgot /\ rxbuf' = SubSeq(r_data, 1, r_count * BUSW)
      BY <1>4, <2>6, ReceiveEdge
    <3>3. nic_req' = nic_req /\ Front' = Front
      BY <1>4, <2>3, <2>6, <3>1, PollEdge DEF busy, Front
    <3>4. StreamPlace'
      <4> HIDE DEF r_len
      <4>1. r_count' >= 1 /\ r_count' - 1 = r_count /\ (r_count' = r_len' + 1 <=> r_count = r_len)
        BY <2>3, <2>4, <3>1
      <4> QED
        BY <2>1, <2>3, <3>1, <3>2, <4>1 DEF StreamPlace
    <3> QED
      BY <3>2, <3>3, <3>4
  <2> QED
    BY <2>5, <2>6
<1> QED
  BY <1>1, <1>3, <1>4

(* Each step gives the channel a packet, takes its first one, or leaves it *)
(* alone: the bridge and a send that waited only move one.                 *)
LEMMA RxStep ==
  ASSUME LongPackets, TypeInv, StreamPlace, [Next]_vars
  PROVE  StreamPlace' /\ [Rx!Next]_(Rx!vars)
<1> DEFINE B == IF blocked_rx = <<>> THEN <<>> ELSE <<blocked_rx>>
           q == Front \o nic_req
<1>1. nic_req \in Seq(Packet) /\ blocked_rx \in Packet \cup {<<>>}
  BY DEF TypeInv, TypeOK
<1>2. B \in Seq(Packet) /\ Front \in Seq(Packet) /\ q \in Seq(Packet)
  <2>1. <<>> \in Seq(Packet) /\ \A x \in Packet : <<x>> \in Seq(Packet)
    OBVIOUS
  <2>2. B \in Seq(Packet) /\ Front \in Seq(Packet)
    BY <1>1, <2>1 DEF Front, Found, TypeInv, TypeOK
  <2> HIDE DEF B
  <2> QED
    BY <1>1, <2>2, ConcatProperties
<1>3. rxq = q \o B
  BY DEF rxq, Front, Found
<1>4. rxq' = (Front' \o nic_req') \o (IF blocked_rx' = <<>> THEN <<>> ELSE <<blocked_rx'>>)
  BY DEF rxq, Front, Found
<1>5. ASSUME UNCHANGED <<masterVars, rxVars>>, rst_n' = rst_n \/ rst_n' = 1
      PROVE  StreamPlace' /\ Front' = Front /\ rxgot' = rxgot
  BY <1>5 DEF StreamPlace, Front, Found, r_len, masterVars, rxVars
<1>6. ASSUME NEW x \in Packet
      PROVE  /\ Front \o Append(nic_req, x) = Append(q, x)
             /\ Append(q, x) \o <<>> = Append(q, x)
             /\ q \o <<x>> = Append(q, x) /\ q \o <<>> = q
  <2>1. Append(nic_req, x) = nic_req \o <<x>> /\ <<x>> \in Seq(Packet)
    BY <1>1, Joined
  <2>2. (Front \o nic_req) \o <<x>> = Front \o (nic_req \o <<x>>)
    BY <1>1, <1>2, <2>1, ConcatAssociative
  <2> HIDE DEF q
  <2>3. q \o <<x>> = Append(q, x) /\ q \o <<>> = q /\ Append(q, x) \in Seq(Packet)
    BY <1>2, Joined, QueueType
  <2>4. Append(q, x) \o <<>> = Append(q, x)
    BY <2>3, ConcatEmptySeq
  <2> QED
    BY <2>1, <2>2, <2>3, <2>4 DEF q
<1>7. ASSUME NEW p \in Packet, net_rx_packet(p) PROVE StreamPlace' /\ Rx!Next
  <2>1. /\ blocked_rx = <<>>
        /\ \/ nic_req' = Append(nic_req, p) /\ blocked_rx' = <<>>
           \/ nic_req' = nic_req /\ blocked_rx' = p
        /\ UNCHANGED <<masterVars, rxVars, rst_n>>
    BY <1>7 DEF net_rx_packet
  <2>2. StreamPlace' /\ Front' = Front /\ rxgot' = rxgot /\ p # <<>>
    BY <1>5, <2>1, PacketType
  <2>3. rxq = q
    BY <1>3, <1>6, <2>1
  <2>4. rxq' = Append(q, p)
    BY <1>4, <1>6, <2>1, <2>2
  <2> QED
    BY <2>2, <2>3, <2>4 DEF Rx!Next, Rx!Put
<1>8. CASE net_rx_sent
  <2>1. /\ blocked_rx # <<>> /\ nic_req' = Append(nic_req, blocked_rx) /\ blocked_rx' = <<>>
        /\ UNCHANGED <<masterVars, rxVars, rst_n>>
    BY <1>8 DEF net_rx_sent
  <2>2. StreamPlace' /\ Front' = Front /\ rxgot' = rxgot
    BY <1>5, <2>1
  <2>3. blocked_rx \in Packet /\ rxq = q \o <<blocked_rx>>
    BY <1>1, <1>3, <2>1
  <2>4. rxq' = (Front \o Append(nic_req, blocked_rx)) \o <<>>
    BY <1>4, <2>1, <2>2
  <2>5. rxq' = rxq
    BY <1>6, <2>3, <2>4
  <2> QED
    BY <2>2, <2>5 DEF Rx!vars
<1>9. CASE Tick
  <2>1. PICK o \in Offer : posedge(o)
    BY <1>9 DEF Tick
  <2>2. Poll /\ Master /\ Receive /\ rst_n' = rst_n /\ blocked_rx' = blocked_rx
    BY <2>1 DEF posedge
  <2>3. /\ StreamPlace'
        /\ \/ Front' \o nic_req' = Front \o nic_req /\ rxgot' = rxgot
           \/ Front' \o nic_req' = nic_req /\ Front = <<rxgot'>>
    BY <2>2, StreamEdge
  <2>4. CASE Front' \o nic_req' = Front \o nic_req /\ rxgot' = rxgot
    BY <1>3, <1>4, <2>2, <2>3, <2>4 DEF Rx!vars
  <2>5. CASE Front' \o nic_req' = nic_req /\ Front = <<rxgot'>>
    <3>1. rxq' = nic_req \o B
      BY <1>4, <2>2, <2>5
    <3>2. Front # <<>> /\ Head(Front) = rxgot' /\ Tail(Front) = <<>>
      BY <2>5
    <3>3. q # <<>> /\ Head(q) = rxgot' /\ Tail(q) = nic_req
      <4>1. q # <<>> /\ Head(q) = Head(Front) /\ Tail(q) = Tail(Front) \o nic_req
        BY <1>1, <1>2, <3>2, FirstOut
      <4>2. <<>> \o nic_req = nic_req
        BY <1>1, ConcatEmptySeq
      <4> QED
        BY <3>2, <4>1, <4>2
    <3> HIDE DEF q, B
    <3>4. q \o B # <<>> /\ Head(q \o B) = Head(q) /\ Tail(q \o B) = Tail(q) \o B
      BY <1>2, <3>3, FirstOut
    <3>5. rxq # <<>> /\ rxgot' = Head(rxq) /\ rxq' = Tail(rxq)
      BY <1>3, <3>1, <3>3, <3>4
    <3> QED
      BY <2>3, <3>5 DEF Rx!Next, Rx!Get
  <2> QED
    BY <2>3, <2>4, <2>5
<1>10. CASE \/ net_tx_packet \/ C_send_sent \/ C_setup_nic_connection \/ ResetRelease
            \/ \E p \in Packet : StartSend(p)
  <2>1. /\ UNCHANGED <<nic_req, blocked_rx, masterVars, rxVars>>
        /\ rst_n' = rst_n \/ rst_n' = 1
    BY <1>10 DEF net_tx_packet, C_send_sent, C_setup_nic_connection, ResetRelease, StartSend
  <2>2. StreamPlace' /\ Front' = Front /\ rxgot' = rxgot
    BY <1>5, <2>1
  <2> QED
    BY <1>3, <1>4, <2>1, <2>2 DEF Rx!vars
<1>11. CASE UNCHANGED vars
  <2>1. UNCHANGED <<nic_req, blocked_rx, masterVars, rxVars, rst_n>>
    BY <1>11 DEF vars, masterVars, rxVars
  <2>2. StreamPlace' /\ Front' = Front /\ rxgot' = rxgot
    BY <1>5, <2>1
  <2> QED
    BY <1>3, <1>4, <2>1, <2>2 DEF Rx!vars
<1> QED
  BY <1>7, <1>8, <1>9, <1>10, <1>11 DEF Next

(* Packets of more than one word reach the device whole, once and in       *)
(* order, although one is found while the one before is on the stream, and *)
(* however C_nic_poll's assignment and the edge of axis_m are ordered.     *)
THEOREM ImplementsRx == LongPackets => (Spec => RxSpec)
<1> SUFFICES ASSUME LongPackets PROVE Spec => RxSpec
  OBVIOUS
<1>1. Init => StreamPlace /\ Rx!Init
  <2> SUFFICES ASSUME Init PROVE StreamPlace /\ Rx!Init
    OBVIOUS
  <2>1. StreamPlace
    BY DEF Init, StreamPlace
  <2>2. rxq = <<>> \o <<>> \o <<>> /\ rxgot = <<>>
    BY DEF Init, rxq
  <2>3. <<>> \in Seq(Byte) /\ <<>> \o <<>> = <<>>
    BY ConcatEmptySeq
  <2> QED
    BY <2>1, <2>2, <2>3 DEF Rx!Init
<1>2. TypeInv /\ StreamPlace /\ [Next]_vars => (TypeInv /\ StreamPlace)'
  BY TypeStep, RxStep
<1>3. TypeInv /\ StreamPlace /\ [Next]_vars => [Rx!Next]_(Rx!vars)
  BY RxStep
<1> QED
  BY <1>1, <1>2, <1>3, TypeInit, PTL DEF Spec, RxSpec, Rx!Spec
=============================================================================
