-------------------------- MODULE ByteLanesProofs ---------------------------
(***************************************************************************)
(* Theorems about the bytes of a transfer: where the indices of            *)
(* dpi-pcie.c put them, for a bus of any width, any address, any size of   *)
(* an access and any width and length of a burst, as far as the AXI        *)
(* masters and slaves can carry them.                                      *)
(***************************************************************************)
EXTENDS ByteLanes, FiniteSetTheorems, FunctionTheorems, TLAPS

-----------------------------------------------------------------------------
(* Logarithms, powers of two and words *)

(* The loop of log2c halves until it is at 1: the function that counts the *)
(* halvings exists, so the definition says what it seems to say.           *)
LEMMA Halving ==
  \A x \in 1..64 : FloorLog[x] = IF x = 1 THEN 0 ELSE 1 + FloorLog[x \div 2]
<1> DEFINE S == 1..64
           G(f) == [x \in S |-> IF x = 1 THEN 0 ELSE 1 + f[x \div 2]]
           g == [x \in S |-> IF x < 2 THEN 0 ELSE IF x < 4 THEN 1 ELSE IF x < 8 THEN 2
                             ELSE IF x < 16 THEN 3 ELSE IF x < 32 THEN 4
                             ELSE IF x < 64 THEN 5 ELSE 6]
<1>1. ASSUME NEW x \in S PROVE g[x] = IF x = 1 THEN 0 ELSE 1 + g[x \div 2]
  <2>1. x \in Nat /\ x >= 1 /\ x <= 64
    OBVIOUS
  <2>2. CASE x = 1
    BY <2>2
  <2>3. CASE x # 1
    <3>1. x \div 2 \in S
      BY <2>1, <2>3
    <3> QED
      BY <2>1, <2>3, <3>1
  <2> QED
    BY <2>2, <2>3
<1>2. g = G(g)
  BY <1>1
<1>3. FloorLog = CHOOSE f : f = G(f)
  BY DEF FloorLog
<1> HIDE DEF g, G
<1>4. FloorLog = G(FloorLog)
  BY <1>2, <1>3
<1> QED
  BY <1>4 DEF G

(* log2c on the widths of a bus and the sizes of an access. *)
LEMMA Logs ==
  /\ FloorLog[1] = 0 /\ FloorLog[2] = 1 /\ FloorLog[4] = 2 /\ FloorLog[8] = 3
  /\ FloorLog[16] = 4 /\ FloorLog[32] = 5 /\ FloorLog[64] = 6
<1>1. FloorLog[1] = 0
  BY Halving
<1>2. FloorLog[2] = 1
  BY <1>1, Halving
<1>3. FloorLog[4] = 2
  BY <1>2, Halving
<1>4. FloorLog[8] = 3
  BY <1>3, Halving
<1>5. FloorLog[16] = 4
  BY <1>4, Halving
<1>6. FloorLog[32] = 5
  BY <1>5, Halving
<1>7. FloorLog[64] = 6
  BY <1>6, Halving
<1> QED
  BY <1>1, <1>2, <1>3, <1>4, <1>5, <1>6, <1>7

(* A beat is at most a word, and words are divided into beats. *)
LEMMA Powers ==
  ASSUME NEW w \in 0..FloorLog[BUSW]
  PROVE  /\ 2 ^ w \in {1, 2, 4, 8, 16, 32, 64} /\ 2 ^ w <= BUSW
         /\ \E m \in Nat \ {0} : BUSW = m * 2 ^ w
<1>1. BUSW \in {1, 2, 4, 8, 16, 32, 64}
  BY LaneConstants
<1>2. w \in Nat /\ w <= FloorLog[BUSW]
  BY <1>1, Logs
<1>3. 2 ^ 0 = 1 /\ 2 ^ 1 = 2 /\ 2 ^ 2 = 4 /\ 2 ^ 3 = 8 /\ 2 ^ 4 = 16 /\ 2 ^ 5 = 32 /\ 2 ^ 6 = 64
  OBVIOUS
<1>4. \/ w = 0 /\ BUSW >= 1
      \/ w = 1 /\ BUSW >= 2
      \/ w = 2 /\ BUSW >= 4
      \/ w = 3 /\ BUSW >= 8
      \/ w = 4 /\ BUSW >= 16
      \/ w = 5 /\ BUSW >= 32
      \/ w = 6 /\ BUSW >= 64
  BY <1>1, <1>2, Logs
<1>5. 2 ^ w \in {1, 2, 4, 8, 16, 32, 64} /\ 2 ^ w <= BUSW
  <2>1. \E p \in {1, 2, 4, 8, 16, 32, 64} : 2 ^ w = p /\ BUSW >= p
    BY <1>3, <1>4, Zenon
  <2>2. \A p \in {1, 2, 4, 8, 16, 32, 64} : BUSW >= p => p <= BUSW
    BY <1>1
  <2> QED
    BY <2>1, <2>2, Zenon
<1>6. ASSUME NEW p \in {1, 2, 4, 8, 16, 32, 64}, p <= BUSW
      PROVE  \E m \in Nat \ {0} : BUSW = m * p
  <2>1. \E m \in {1, 2, 4, 8, 16, 32, 64} : BUSW = m * p
    BY <1>1, <1>6
  <2> QED
    BY <2>1
<1> QED
  BY <1>5, <1>6

(* An address is a word and a lane, in one way. *)
LEMMA Division ==
  ASSUME NEW a \in Nat, NEW b \in Nat \ {0}
  PROVE  a \div b \in Nat /\ a % b \in 0..(b - 1) /\ a = b * (a \div b) + (a % b)
OBVIOUS

(* The word and the lane of an index built from them are those. *)
LEMMA Quotient ==
  ASSUME NEW a \in Nat, NEW b \in Nat \ {0}, NEW q \in Nat, NEW r \in 0..(b - 1),
         a = b * q + r
  PROVE  a \div b = q /\ a % b = r
OBVIOUS

(* A multiple of the width has no offset. *)
LEMMA Multiple ==
  ASSUME NEW a \in Nat, NEW b \in Nat \ {0}, NEW q \in Nat, a = b * q
  PROVE  a % b = 0
OBVIOUS

(* An address that is a multiple of the size of a beat: the beat does not  *)
(* leave its word.                                                         *)
LEMMA Aligned ==
  ASSUME NEW a \in Nat, NEW b \in Nat \ {0}, NEW m \in Nat \ {0}, a % b = 0
  PROVE  (a % (m * b)) + b <= m * b
<1> DEFINE k == a \div b
           q == k \div m
           r == k % m
           W == m * b
<1>1. k \in Nat /\ a = b * k
  BY Division
<1>2. q \in Nat /\ r \in 0..(m - 1) /\ k = m * q + r
  BY <1>1, Division
<1> HIDE DEF k, q, r
<1>3. W \in Nat \ {0}
  OBVIOUS
<1>4. b * r \in Nat /\ b * (r + 1) <= b * m /\ b * (r + 1) = b * r + b
  BY <1>2
<1>5. a = W * q + b * r
  <2>1. a = b * (m * q + r)
    BY <1>1, <1>2
  <2> QED
    BY <1>2, <2>1
<1>6. b * r \in 0..(W - 1)
  BY <1>4
<1> HIDE DEF W
<1>7. a % W = b * r
  BY <1>2, <1>3, <1>5, <1>6, Quotient
<1> QED
  BY <1>4, <1>7 DEF W

(* axi_len and log2c of an access: either it fits in a word, or it is so   *)
(* many words.                                                             *)
LEMMA AccessShape ==
  ASSUME NEW s \in {1, 2, 4, 8}
  PROVE  /\ log2c(s) \in 0..3 /\ 2 ^ log2c(s) = s
         /\ axi_len(s) \in 0..7
         /\ s <= BUSW => axi_len(s) = 0
         /\ s > BUSW => (axi_len(s) + 1) * BUSW = s
<1>1. BUSW \in {1, 2, 4, 8, 16, 32, 64}
  BY LaneConstants
<1>2. /\ 2 ^ 0 = 1 /\ 2 ^ 1 = 2 /\ 2 ^ 2 = 4 /\ 2 ^ 3 = 8
      /\ log2c(1) = 0 /\ log2c(2) = 1 /\ log2c(4) = 2 /\ log2c(8) = 3
  BY Logs DEF log2c
<1>3. log2c(s) \in 0..3 /\ 2 ^ log2c(s) = s
  <2>1. \/ s = 1 /\ log2c(s) = 0
        \/ s = 2 /\ log2c(s) = 1
        \/ s = 4 /\ log2c(s) = 2
        \/ s = 8 /\ log2c(s) = 3
    BY <1>2
  <2>2. 2 ^ log2c(s) = s
    BY <1>2, <2>1, Zenon
  <2> QED
    BY <2>1, <2>2
<1>4. s <= BUSW => axi_len(s) = 0
  BY DEF axi_len
<1>5. ASSUME s > BUSW PROVE axi_len(s) \in 0..7 /\ (axi_len(s) + 1) * BUSW = s
  <2>1. CASE BUSW = 1
    BY <1>5, <2>1 DEF axi_len
  <2>2. CASE BUSW = 2
    BY <1>5, <2>2 DEF axi_len
  <2>3. CASE BUSW = 4
    BY <1>5, <2>3 DEF axi_len
  <2> QED
    BY <1>1, <1>5, <2>1, <2>2, <2>3
<1> QED
  BY <1>1, <1>3, <1>4, <1>5

(* The words of an access: a small one stays in its word, a large one      *)
(* begins with one.                                                        *)
LEMMA AccessAligned ==
  ASSUME NEW a \in Nat, NEW s \in {1, 2, 4, 8}, a % s = 0
  PROVE  /\ s <= BUSW => (a % BUSW) + s <= BUSW
         /\ s > BUSW => a % BUSW = 0
<1>1. BUSW \in {1, 2, 4, 8, 16, 32, 64}
  BY LaneConstants
<1>2. ASSUME s <= BUSW PROVE (a % BUSW) + s <= BUSW
  <2>1. \E m \in {1, 2, 4, 8, 16, 32, 64} : BUSW = m * s
    BY <1>1, <1>2
  <2> QED
    BY <2>1, Aligned
<1>3. ASSUME s > BUSW PROVE a % BUSW = 0
  <2>1. PICK m \in {1, 2, 4, 8} : s = m * BUSW
    BY <1>1, <1>3
  <2>2. a \div s \in Nat /\ a = s * (a \div s)
    BY Division
  <2> DEFINE k == a \div s
             q == m * k
  <2> HIDE DEF k
  <2>3. q \in Nat /\ a = BUSW * q /\ BUSW \in Nat \ {0}
    BY <1>1, <2>1, <2>2 DEF k
  <2> HIDE DEF q
  <2> QED
    BY <2>3, Multiple
<1> QED
  BY <1>2, <1>3

-----------------------------------------------------------------------------
(* The bytes of beats and bursts *)

(* Beat n of a burst with beats of b bytes. *)
BeatOf(a, b, n) ==
  (IF n = 0 THEN a ELSE (a \div b) * b + n * b) .. ((a \div b) * b + n * b + b - 1)

(* A beat of the device is at most a word wide; an access that is wider    *)
(* than the bus is made in beats of a word.                                *)
LEMMA BeatWidth ==
  /\ \A a, n : \A w \in 0..FloorLog[BUSW] : BeatBytes(a, w, n) = BeatOf(a, 2 ^ w, n)
  /\ \A a, n : \A s \in {1, 2, 4, 8} :
       BeatBytes(a, log2c(s), n) = BeatOf(a, IF s > BUSW THEN BUSW ELSE s, n)
<1>1. ASSUME NEW a, NEW n, NEW w \in 0..FloorLog[BUSW]
      PROVE  BeatBytes(a, w, n) = BeatOf(a, 2 ^ w, n)
  <2>1. ~ (2 ^ w > BUSW)
    BY Powers, LaneConstants
  <2> QED
    BY <2>1, Zenon DEF BeatBytes, BeatOf
<1>2. ASSUME NEW a, NEW n, NEW s \in {1, 2, 4, 8}
      PROVE  BeatBytes(a, log2c(s), n) = BeatOf(a, IF s > BUSW THEN BUSW ELSE s, n)
  <2>1. 2 ^ log2c(s) = s
    BY AccessShape
  <2> QED
    BY <2>1, Zenon DEF BeatBytes, BeatOf
<1> QED
  BY <1>1, <1>2

(* The fields of a burst; it ends in its page, counted from the address    *)
(* its first beat is aligned to.                                           *)
LEMMA BurstShape ==
  ASSUME NEW x \in Bursts
  PROVE  /\ x.op \in {"S_WR", "S_RD"} /\ x.addr \in Page /\ x.width \in 0..FloorLog[BUSW]
         /\ x.len \in 0..MaxLen /\ 2 ^ x.width \in Nat \ {0} /\ 2 ^ x.width <= BUSW
         /\ burst_size(x.width, x.len) \in Nat
         /\ (x.addr \div 2 ^ x.width) * 2 ^ x.width + burst_size(x.width, x.len) <= BUFF_SIZE
         /\ burst_size(x.width, x.len) <= BUFF_SIZE
         /\ \A n \in 0..x.len : BeatBytes(x.addr, x.width, n) \subseteq Page
<1> DEFINE b == 2 ^ x.width
           base == (x.addr \div b) * b
           n == x.len
<1>1. /\ x.op \in {"S_WR", "S_RD"} /\ x.addr \in Page /\ x.width \in 0..FloorLog[BUSW]
      /\ n \in 0..MaxLen /\ Bytes(x.addr, x.width, n) \subseteq Page
  BY DEF Bursts
<1>2. b \in Nat \ {0} /\ b <= BUSW
  BY <1>1, Powers
<1>3. x.addr \in Nat /\ n \in Nat /\ BUFF_SIZE \in Nat
  BY <1>1, LaneConstants DEF Page
<1>4. \A k \in 0..n : BeatBytes(x.addr, x.width, k) \subseteq Page
  BY <1>1 DEF Bytes
<1> HIDE DEF b
<1>5. x.addr \div b \in Nat /\ base \in Nat /\ x.addr <= base + b - 1
  <2>1. x.addr \div b \in Nat /\ x.addr = b * (x.addr \div b) + (x.addr % b)
        /\ x.addr % b \in 0..(b - 1)
    BY <1>2, <1>3, Division
  <2> QED
    BY <1>2, <1>3, <2>1
<1> HIDE DEF base
<1>6. base + n * b + b - 1 \in Page
  <2> DEFINE last == base + n * b + b - 1
  <2>1. last \in BeatOf(x.addr, b, n)
    <3>1. n * b \in Nat /\ (n = 0 => n * b = 0)
      BY <1>2, <1>3
    <3> QED
      BY <1>2, <1>3, <1>5, <3>1 DEF BeatOf, base
  <2>2. BeatBytes(x.addr, x.width, n) = BeatOf(x.addr, b, n)
    BY <1>1, BeatWidth DEF b
  <2>3. n \in 0..n
    BY <1>3
  <2> HIDE DEF last
  <2> QED
    BY <1>4, <2>1, <2>2, <2>3 DEF last
<1>7. burst_size(x.width, x.len) = n * b + b
  <2>1. (n + 1) * b = n * b + b
    BY <1>2, <1>3
  <2> QED
    BY <2>1 DEF burst_size, b
<1>8. /\ n * b + b \in Nat /\ base + (n * b + b) <= BUFF_SIZE
      /\ n * b + b <= BUFF_SIZE
  <2>1. n * b \in Nat
    BY <1>2, <1>3
  <2> QED
    BY <1>2, <1>3, <1>5, <1>6, <2>1 DEF Page
<1> QED
  BY <1>1, <1>2, <1>4, <1>7, <1>8 DEF b, base

(* The fields of an access; it ends in its page. *)
LEMMA AccessIs ==
  ASSUME NEW x \in Accesses
  PROVE  /\ x.op \in {"M_WR", "M_RD"} /\ x.addr \in Page /\ x.size \in {1, 2, 4, 8}
         /\ x.addr % x.size = 0 /\ x.addr + x.size <= BUFF_SIZE
         /\ x.slave \in SlaveKinds /\ (x.size > BUSW => x.slave \in WideKinds)
         /\ (axi_len(x.size) + 1) * BUSW <= BUFF_SIZE
<1>1. /\ x.op \in {"M_WR", "M_RD"} /\ x.addr \in Page /\ x.size \in {1, 2, 4, 8}
      /\ x.addr % x.size = 0 /\ x.addr + x.size - 1 \in Page
      /\ x.slave \in SlaveKinds /\ (x.size > BUSW => x.slave \in WideKinds)
  BY DEF Accesses
<1>2. x.addr \in Nat /\ BUFF_SIZE \in Nat /\ x.addr + x.size <= BUFF_SIZE
  BY <1>1, LaneConstants DEF Page
<1>3. (axi_len(x.size) + 1) * BUSW <= BUFF_SIZE
  <2>1. CASE x.size > BUSW
    BY <1>1, <1>2, <2>1, AccessShape
  <2>2. CASE ~ (x.size > BUSW)
    <3>1. BUSW \in Nat \ {0} /\ BUFF_SIZE % BUSW = 0 /\ BUFF_SIZE >= 1
      BY <1>1, <1>2, LaneConstants
    <3>2. BUFF_SIZE \div BUSW \in Nat /\ BUFF_SIZE = BUSW * (BUFF_SIZE \div BUSW)
      BY <1>2, <3>1, Division
    <3>3. BUFF_SIZE \div BUSW >= 1
      BY <3>1, <3>2
    <3>4. BUSW <= BUFF_SIZE
      BY <3>1, <3>2, <3>3
    <3>5. axi_len(x.size) = 0
      BY <1>1, <2>2, <3>1, AccessShape
    <3> QED
      BY <3>1, <3>4, <3>5
  <2> QED
    BY <2>1, <2>2
<1> QED
  BY <1>1, <1>2, <1>3

-----------------------------------------------------------------------------
(* The n-th byte with a strobe *)

Below(S, p) == {q \in S : q < p}

(* There are n numbers below n. *)
LEMMA FirstNumbers ==
  ASSUME NEW n \in Nat
  PROVE  IsFiniteSet(0..(n - 1)) /\ Cardinality(0..(n - 1)) = n
<1>1. n - 1 \in Int /\ (0 > n - 1 <=> n = 0) /\ (n - 1) - 0 + 1 = n
  OBVIOUS
<1>2. IsFiniteSet(0..(n - 1)) /\ Cardinality(0..(n - 1)) = IF 0 > n - 1 THEN 0 ELSE (n - 1) - 0 + 1
  BY <1>1, FS_Interval
<1> QED
  BY <1>1, <1>2

(* A greater element has more elements below it. *)
LEMMA RankGrows ==
  ASSUME NEW S \in SUBSET Nat, IsFiniteSet(S), NEW p \in S, NEW q \in S, p < q
  PROVE  Cardinality(Below(S, p)) < Cardinality(Below(S, q))
<1> DEFINE A == Below(S, p)
           B == Below(S, q)
<1>1. A \in SUBSET B /\ p \in B /\ p \notin A /\ B \in SUBSET S
  <2>1. p \in Nat /\ q \in Nat /\ ~ (p < p)
    OBVIOUS
  <2>2. \A z \in S : z < p => z < q
    BY <2>1
  <2> QED
    BY <2>1, <2>2, Zenon DEF Below
<1> HIDE DEF A, B
<1>2. IsFiniteSet(B)
  BY <1>1, FS_Subset
<1>3. A \in SUBSET (B \ {p}) /\ IsFiniteSet(B \ {p}) /\ Cardinality(B \ {p}) = Cardinality(B) - 1
  BY <1>1, <1>2, FS_RemoveElement
<1>4. IsFiniteSet(A) /\ Cardinality(A) <= Cardinality(B \ {p})
  BY <1>3, FS_Subset
<1>5. Cardinality(A) \in Nat /\ Cardinality(B) \in Nat
  BY <1>2, <1>4, FS_CardinalityType
<1>6. Cardinality(A) < Cardinality(B)
  BY <1>3, <1>4, <1>5
<1> QED
  BY <1>6 DEF A, B

(* There is one n-th element for each n less than their number. *)
LEMMA RankOfOne ==
  ASSUME NEW S \in SUBSET Nat, IsFiniteSet(S)
  PROVE  /\ \A p, q \in S : Cardinality(Below(S, p)) = Cardinality(Below(S, q)) => p = q
         /\ \A k \in 0..(Cardinality(S) - 1) : \E p \in S : Cardinality(Below(S, p)) = k
<1> DEFINE C == Cardinality(S)
           f == [p \in S |-> Cardinality(Below(S, p))]
<1>1. C \in Nat
  BY FS_CardinalityType
<1>2. ASSUME NEW p \in S PROVE Cardinality(Below(S, p)) \in 0..(C - 1)
  <2> DEFINE A == Below(S, p)
  <2>1. A \in SUBSET (S \ {p})
    BY DEF Below
  <2> HIDE DEF A
  <2>2. IsFiniteSet(S \ {p}) /\ Cardinality(S \ {p}) = C - 1
    BY FS_RemoveElement
  <2>3. IsFiniteSet(A) /\ Cardinality(A) <= C - 1
    BY <2>1, <2>2, FS_Subset
  <2>4. Cardinality(A) \in Nat
    BY <2>3, FS_CardinalityType
  <2>5. Cardinality(A) \in 0..(C - 1)
    BY <1>1, <2>3, <2>4
  <2> QED
    BY <2>5 DEF A
<1>3. ASSUME NEW p \in S, NEW q \in S, Cardinality(Below(S, p)) = Cardinality(Below(S, q))
      PROVE  p = q
  <2>1. p \in Nat /\ q \in Nat
    OBVIOUS
  <2>2. Cardinality(Below(S, p)) \in Nat /\ Cardinality(Below(S, q)) \in Nat
    BY <1>1, <1>2
  <2>3. ~ (p < q) /\ ~ (q < p)
    BY <1>3, <2>2, RankGrows
  <2> QED
    BY <2>1, <2>3
<1> DEFINE T == 0..(C - 1)
<1>4. IsFiniteSet(T) /\ Cardinality(T) = C
  BY <1>1, FirstNumbers
<1>5. f \in [S -> T] /\ \A p, q \in S : f[p] = f[q] => p = q
  BY <1>2, <1>3
<1> HIDE DEF T
<1>6. \A k \in T : \E p \in S : f[p] = k
  <2> HIDE DEF f
  <2>1. f \in Injection(S, T)
    BY <1>5, Fun_IsInj
  <2>2. f \in Surjection(S, T)
    BY <1>4, <2>1, FS_Injection
  <2> QED
    BY <2>2, Fun_SurjectionProperties
<1>7. \A k \in T : \E p \in S : Cardinality(Below(S, p)) = k
  BY <1>6
<1> QED
  BY <1>3, <1>7 DEF T

(* C_req_write: byte k of the frame is the k-th with a strobe. *)
LEMMA Packed ==
  ASSUME NEW b \in [Buf -> Byte], NEW s, Strobed(s) \in SUBSET Buf
  PROVE  /\ IsFiniteSet(Strobed(s))
         /\ Pack(b, s) \in [Buf -> Byte]
         /\ \A p \in Strobed(s) : Pack(b, s)[Cardinality(Below(Strobed(s), p))] = b[p]
<1> DEFINE S == Strobed(s)
           C == Cardinality(S)
           nth(k) == CHOOSE p \in S : Cardinality({q \in S : q < p}) = k
           P == [k \in Buf |-> IF k < C THEN b[nth(k)] ELSE Junk]
<1>1. Buf \in SUBSET Nat /\ IsFiniteSet(Buf) /\ Cardinality(Buf) = BUFF_SIZE
  BY LaneConstants, FS_Interval DEF Buf
<1>2. IsFiniteSet(S) /\ S \in SUBSET Nat /\ C \in Nat /\ C <= BUFF_SIZE
  BY <1>1, FS_Subset, FS_CardinalityType
<1>3. Pack(b, s) = P
  BY DEF Pack
<1>4. Junk \in Byte
  BY DEF Byte
<1> HIDE DEF S
<1>5. ASSUME NEW k \in Nat, k < C
      PROVE  nth(k) \in S /\ Cardinality(Below(S, nth(k))) = k
  <2>1. k \in 0..(C - 1)
    BY <1>2, <1>5
  <2>2. \E p \in S : Cardinality({q \in S : q < p}) = k
    BY <1>2, <2>1, RankOfOne DEF Below
  <2> QED
    BY <2>2 DEF Below
<1> HIDE DEF nth
<1>6. P \in [Buf -> Byte]
  <2>1. ASSUME NEW k \in Buf, k < C PROVE b[nth(k)] \in Byte
    BY <1>1, <1>5, <2>1 DEF S
  <2> QED
    BY <1>4, <2>1
<1>7. ASSUME NEW p \in S PROVE P[Cardinality(Below(S, p))] = b[p]
  <2> DEFINE k == Cardinality(Below(S, p))
  <2>1. k \in 0..(C - 1)
    <3>1. Below(S, p) \in SUBSET (S \ {p})
      BY <1>2 DEF Below
    <3>2. IsFiniteSet(S \ {p}) /\ Cardinality(S \ {p}) = C - 1
      BY <1>2, FS_RemoveElement
    <3>3. k \in Nat /\ k <= C - 1
      BY <3>1, <3>2, FS_Subset, FS_CardinalityType
    <3> QED
      BY <1>2, <3>3
  <2> HIDE DEF k
  <2>2. k \in Nat /\ k < C /\ k \in Buf
    BY <1>2, <2>1, LaneConstants DEF Buf
  <2>3. nth(k) \in S /\ Cardinality(Below(S, nth(k))) = k
    BY <1>5, <2>2
  <2>4. nth(k) = p
    <3>1. \A x, y \in S : Cardinality(Below(S, x)) = Cardinality(Below(S, y)) => x = y
      BY <1>2, RankOfOne
    <3> QED
      BY <2>3, <3>1, Zenon DEF k
  <2> QED
    BY <2>2, <2>4 DEF k
<1> QED
  BY <1>2, <1>3, <1>6, <1>7 DEF S

-----------------------------------------------------------------------------
(* Types, and buffers that hold *)

(* No burst has more words than a buffer: 256 beats of 16 bytes, say.      *)
Fits == (MaxLen + 1) * BUSW <= BUFF_SIZE

(* The transfer is one the program is given, and stays so. *)
Given ==
  \/ t \in Accesses
  \/ t \in Bursts /\ Shape(t) \in IF t.op = "S_RD" THEN Reads ELSE Writes
  \/ t \in [op : {"INTR"}, bits : Lines]

(* How far it is: which programs handle it, the sizes they have computed,  *)
(* and the beats that are left.                                            *)
Access == t.op \in {"M_WR", "M_RD"}
Burst  == t.op \in {"S_WR", "S_RD"}
Stage ==
  /\ pc = "begin" => cnt = 0 /\ frame.size = 0 /\ offer = NoOffer
  /\ pc = "qemu_req" => Access /\ frame.size = t.size /\ offer = NoOffer
  /\ pc = "m_beat" => /\ Access /\ cnt <= ax.len /\ offer <= ax.len
                      /\ ax.len = axi_len(t.size) /\ ax.size = log2c(t.size)
  /\ pc = "m_response" => /\ t.op = "M_WR" /\ offer <= ax.len
                          /\ ax.len = axi_len(t.size)
  /\ pc = "qemu_resp" => t.op = "M_RD"
  /\ pc = "w_beat" => t.op = "S_WR" /\ cnt <= t.len
  /\ pc = "hdl_req" => \/ t.op = "INTR" /\ frame.size = 0
                       \/ Burst /\ frame.size = burst_size(t.width, t.len)
  /\ pc = "hdl_resp" => t.op = "S_RD" /\ frame.size = burst_size(t.width, t.len)
  /\ pc = "r_beat" => t.op = "S_RD" /\ cnt <= t.len

TypeInv == TypeOK /\ Given /\ Stage

(* The operation tells which kind of transfer it is. *)
LEMMA Kinds ==
  ASSUME Given
  PROVE  /\ Access => t \in Accesses
         /\ Burst => t \in Bursts /\ Shape(t) \in IF t.op = "S_RD" THEN Reads ELSE Writes
         /\ t.op = "INTR" => t.bits \in Lines
<1>1. t \in Accesses => t.op \in {"M_WR", "M_RD"}
  BY AccessIs
<1>2. t \in Bursts => t.op \in {"S_WR", "S_RD"}
  BY BurstShape
<1>3. t \in [op : {"INTR"}, bits : Lines] => t.op = "INTR" /\ t.bits \in Lines
  OBVIOUS
<1> QED
  BY <1>1, <1>2, <1>3 DEF Given, Access, Burst

(* The constants are numbers; addresses of a page index a buffer. *)
LEMMA Numbers ==
  /\ BUSW \in Nat \ {0} /\ BUFF_SIZE \in Nat /\ MaxLen \in Nat
  /\ Page = Buf /\ Page \subseteq Mem /\ Mem \subseteq Nat
BY LaneConstants DEF Page, Buf, Mem

(* The symbols are bytes. *)
LEMMA Symbols ==
  /\ ZeroByte \in Byte /\ Junk \in Byte
  /\ \A x \in Mem : Old(x) \in Byte /\ New(x) \in Byte
BY DEF Byte, Old, New

(* A word that ends in the buffer has its bytes there. *)
LEMMA WordFits ==
  ASSUME NEW n \in Nat, (n + 1) * BUSW <= BUFF_SIZE, NEW j \in Lanes
  PROVE  BUSW * n + j \in Buf
<1>1. (n + 1) * BUSW = BUSW * n + BUSW /\ BUSW * n \in Nat
  BY Numbers
<1> DEFINE m == BUSW * n
<1> HIDE DEF m
<1>2. m + BUSW <= BUFF_SIZE /\ m \in Nat
  BY <1>1 DEF m
<1>3. m + j \in Buf
  BY <1>2, Numbers DEF Buf, Lanes
<1> QED
  BY <1>3 DEF m

(* When bursts fit, every beat has its word in the buffer. *)
LEMMA BeatFits ==
  ASSUME Fits, NEW n \in 0..MaxLen
  PROVE  (n + 1) * BUSW <= BUFF_SIZE /\ n + 1 <= BUFF_SIZE
<1>1. (n + 1) * BUSW <= (MaxLen + 1) * BUSW /\ n + 1 <= (n + 1) * BUSW
  BY Numbers
<1>2. (n + 1) * BUSW \in Nat /\ (MaxLen + 1) * BUSW \in Nat /\ n + 1 \in Nat
  BY Numbers
<1> QED
  BY <1>1, <1>2, Numbers DEF Fits

(* The beats of an access are parts of it, in its order. *)
BeatSize(s) == IF s > BUSW THEN BUSW ELSE s

(* Each beat of an access is the next of its bytes, none beyond them. *)
LEMMA AccessBeats ==
  ASSUME NEW x \in Accesses, NEW n \in 0..axi_len(x.size)
  PROVE  LET b == BeatSize(x.size) IN
         /\ BeatBytes(x.addr, log2c(x.size), n)
              = (x.addr + n * b) .. (x.addr + n * b + b - 1)
         /\ n * b \in Nat /\ b \in Nat \ {0} /\ n * b + b <= x.size
<1> DEFINE b == BeatSize(x.size)
           len == axi_len(x.size)
<1>1. /\ x.addr \in Nat /\ x.size \in {1, 2, 4, 8} /\ x.addr % x.size = 0
  BY AccessIs, Numbers
<1>2. /\ b \in Nat \ {0} /\ len \in Nat /\ x.addr % b = 0 /\ (len + 1) * b = x.size
  <2>1. CASE x.size > BUSW
    <3>1. b = BUSW /\ len \in 0..7 /\ (len + 1) * BUSW = x.size
      BY <1>1, <2>1, AccessShape DEF BeatSize
    <3>2. x.addr % BUSW = 0
      BY <1>1, <2>1, AccessAligned
    <3> QED
      BY <3>1, <3>2, Numbers
  <2>2. CASE ~ (x.size > BUSW)
    <3>1. b = x.size /\ len = 0
      BY <1>1, <2>2, AccessShape, Numbers DEF BeatSize
    <3> QED
      BY <1>1, <3>1
  <2> QED
    BY <2>1, <2>2
<1>3. n \in Nat /\ n <= len
  BY <1>2
<1>4. BeatBytes(x.addr, log2c(x.size), n) = BeatOf(x.addr, b, n)
  BY <1>1, BeatWidth DEF BeatSize
<1> HIDE DEF b, len
<1>5. (x.addr \div b) * b = x.addr
  <2>1. x.addr \div b \in Nat /\ x.addr = b * (x.addr \div b) + (x.addr % b)
    BY <1>1, <1>2, Division
  <2> QED
    BY <1>1, <1>2, <2>1
<1>6. n * b \in Nat /\ n * b + b <= (len + 1) * b /\ (n = 0 => n * b = 0)
  <2>1. n * b + b = (n + 1) * b
    BY <1>2, <1>3
  <2>2. (n + 1) * b <= (len + 1) * b
    BY <1>2, <1>3
  <2> QED
    BY <1>2, <1>3, <2>1, <2>2
<1>7. BeatOf(x.addr, b, n) = (x.addr + n * b) .. (x.addr + n * b + b - 1)
  BY <1>1, <1>5, <1>6 DEF BeatOf
<1> QED
  BY <1>2, <1>4, <1>6, <1>7 DEF b

(* What a beat carries is bytes, from where it may be. *)
LEMMA BeatType ==
  ASSUME NEW a, NEW w, NEW n
  PROVE  /\ BeatBytes(a, w, n) \subseteq Mem => Beat(a, w, n, New) \in [Lanes -> Byte]
         /\ mem \in [Mem -> Byte] => Beat(a, w, n, Found) \in [Lanes -> Byte]
<1>1. ASSUME BeatBytes(a, w, n) \subseteq Mem PROVE Beat(a, w, n, New) \in [Lanes -> Byte]
  <2>1. ASSUME NEW j \in Lanes, \E x \in BeatBytes(a, w, n) : x % BUSW = j
        PROVE  (CHOOSE x \in BeatBytes(a, w, n) : x % BUSW = j) \in Mem
    BY <1>1, <2>1
  <2> QED
    BY <2>1, Symbols DEF Beat
<1>2. ASSUME mem \in [Mem -> Byte] PROVE Beat(a, w, n, Found) \in [Lanes -> Byte]
  <2>1. \A x : Found(x) \in Byte
    BY <1>2, Symbols DEF Found
  <2> QED
    BY <2>1, Symbols DEF Beat
<1> QED
  BY <1>1, <1>2

(* The steps of an access keep types and stage. *)
LEMMA AccessTypes ==
  ASSUME TypeInv, mmio_bar \/ C_poll_req \/ mmio_read_bar
  PROVE  TypeOK' /\ Stage'
<1>1. TypeOK /\ Stage
  BY DEF TypeInv
<1>2. Access => /\ t.addr \in Nat /\ t.addr < BUFF_SIZE /\ t.size \in {1, 2, 4, 8}
                /\ t.addr + t.size <= BUFF_SIZE
  BY Kinds, AccessIs, Numbers DEF TypeInv, Page
<1>3. CASE mmio_bar
  <2>1. Access /\ t' = t /\ pc' = "qemu_req" /\ offer = NoOffer
        /\ UNCHANGED <<ax, buf, strb, cnt, mem, got, offer, taken>>
    BY <1>1, <1>3 DEF mmio_bar, Access, Stage
  <2> DEFINE d == [k \in Buf |-> IF t.op = "M_WR" /\ k < t.size
                                 THEN New(t.addr + k) ELSE ZeroByte]
  <2>2. frame' = [size |-> t.size, vector |-> 0, data |-> d]
    BY <1>3 DEF mmio_bar
  <2>3. d \in [Buf -> Byte]
    <3>1. ASSUME NEW k \in Buf PROVE t.addr + k \in Mem
      BY <1>2, <2>1, Numbers DEF Buf, Mem
    <3> QED
      BY <3>1, Symbols
  <2> HIDE DEF d
  <2>4. frame' \in [size : Nat, vector : {NoVector} \cup 0..31, data : [Buf -> Byte]]
        /\ frame'.size = t.size
    BY <1>2, <2>1, <2>2, <2>3
  <2>5. TypeOK'
    BY <1>1, <2>1, <2>4 DEF TypeOK
  <2>6. Stage'
    BY <2>1, <2>4 DEF Stage, Access
  <2> QED
    BY <2>5, <2>6
<1>4. CASE C_poll_req
  <2> DEFINE o == align_offset(t.addr)
             d == [i \in Buf |-> IF i >= o THEN frame.data[i - o] ELSE buf[i]]
             v == {o + i : i \in 0..(frame.size - 1)}
  <2>1. /\ Access /\ frame.size = t.size /\ t' = t /\ pc' = "m_beat" /\ cnt' = 0
        /\ offer = NoOffer /\ UNCHANGED <<frame, strb, mem, got, offer, taken>>
    BY <1>1, <1>4 DEF C_poll_req, Stage
  <2>2. /\ ax' = [len |-> axi_len(t.size), size |-> log2c(t.size), strb |-> v]
        /\ buf' = IF t.op = "M_RD" THEN buf ELSE d
    BY <1>4, <2>1 DEF C_poll_req
  <2>3. o \in 0..(BUSW - 1)
    BY <1>2, <2>1, Numbers, Division DEF align_offset
  <2> HIDE DEF o
  <2>4. d \in [Buf -> Byte]
    <3>1. frame.data \in [Buf -> Byte] /\ buf \in [Buf -> Byte]
      BY <1>1 DEF TypeOK
    <3>2. ASSUME NEW i \in Buf, i >= o PROVE i - o \in Buf
      BY <2>3, <3>2, Numbers DEF Buf
    <3> QED
      BY <3>1, <3>2
  <2>5. v \in SUBSET (0..(BUSW + 7))
    BY <1>2, <2>1, <2>3, Numbers
  <2> HIDE DEF d, v
  <2>6. /\ axi_len(t.size) \in 0..8 /\ log2c(t.size) \in 0..3 /\ 0 <= axi_len(t.size)
        /\ NoOffer <= axi_len(t.size)
    BY <1>2, <2>1, AccessShape DEF NoOffer
  <2>7. /\ ax' \in [len : 0..8, size : 0..3, strb : SUBSET (0..(BUSW + 7))]
        /\ ax'.len = axi_len(t.size) /\ ax'.size = log2c(t.size)
        /\ buf' \in [Buf -> Byte]
    BY <1>1, <2>2, <2>4, <2>5, <2>6 DEF TypeOK
  <2>8. TypeOK'
    BY <1>1, <2>1, <2>7, Numbers DEF TypeOK
  <2>9. Stage'
    BY <2>1, <2>6, <2>7 DEF Stage, Access
  <2> QED
    BY <2>8, <2>9
<1>5. CASE mmio_read_bar
  <2>1. Access /\ pc' = "done" /\ UNCHANGED <<t, frame, ax, buf, strb, cnt, mem, offer, taken>>
    BY <1>1, <1>5 DEF mmio_read_bar, Stage, Access
  <2>2. got' \in [Mem -> Byte]
    <3>1. frame.data \in [Buf -> Byte] /\ got \in [Mem -> Byte]
      BY <1>1 DEF TypeOK
    <3>2. ASSUME NEW x \in t.addr..(t.addr + t.size - 1) PROVE x - t.addr \in Buf
      BY <1>2, <2>1, Numbers DEF Buf
    <3> QED
      BY <1>5, <3>1, <3>2 DEF mmio_read_bar
  <2>3. TypeOK'
    BY <1>1, <2>1, <2>2 DEF TypeOK
  <2>4. Stage'
    BY <2>1 DEF Stage
  <2> QED
    BY <2>3, <2>4
<1> QED
  BY <1>3, <1>4, <1>5

(* A word of an access is in the buffer. *)
LEMMA AccessWordFits ==
  ASSUME TypeOK, t \in Accesses, ax.len = axi_len(t.size), NEW n \in Nat, n <= ax.len
  PROVE  /\ (n + 1) * BUSW <= BUFF_SIZE /\ n + 1 <= BUFF_SIZE
         /\ \A x \in Mem : buf[BUSW * n + (x % BUSW)] \in Byte
<1>1. ax.len \in Nat /\ (ax.len + 1) * BUSW <= BUFF_SIZE
  BY AccessIs DEF TypeOK
<1>2. (n + 1) * BUSW <= BUFF_SIZE /\ n + 1 <= BUFF_SIZE
  <2>1. (n + 1) * BUSW <= (ax.len + 1) * BUSW /\ n + 1 <= (n + 1) * BUSW
    BY <1>1, Numbers
  <2>2. (n + 1) * BUSW \in Nat /\ (ax.len + 1) * BUSW \in Nat
    BY <1>1, Numbers
  <2> QED
    BY <1>1, <2>1, <2>2, Numbers
<1>3. ASSUME NEW x \in Mem PROVE buf[BUSW * n + (x % BUSW)] \in Byte
  <2>1. x % BUSW \in Lanes
    BY Numbers, Division DEF Lanes
  <2> QED
    BY <1>2, <2>1, WordFits DEF TypeOK
<1> QED
  BY <1>2, <1>3

(* The slave takes bytes of the buffer. *)
LEMMA EdgeTypes ==
  ASSUME TypeOK, t \in Accesses, ax.len = axi_len(t.size), offer <= ax.len,
         NEW r \in {0, 1}, SlaveEdge(r)
  PROVE  mem' \in [Mem -> Byte] /\ taken' \in Nat
<1>1. mem \in [Mem -> Byte] /\ taken \in Nat /\ offer \in NoOffer..8
  BY DEF TypeOK
<1>2. CASE offer # NoOffer /\ r = 1
  <2>1. offer \in Nat
    BY <1>1, <1>2 DEF NoOffer
  <2>2. \A x \in Mem : buf[BUSW * offer + (x % BUSW)] \in Byte
    BY <2>1, AccessWordFits
  <2> DEFINE In(x) == /\ x \div BUSW = (t.addr + Slip(taken)) \div BUSW + taken
                      /\ x % BUSW \in IF offer = ax.len THEN ax.strb \cap Lanes ELSE Lanes
  <2>3. /\ mem' = [x \in Mem |-> IF In(x) THEN buf[BUSW * offer + (x % BUSW)] ELSE mem[x]]
        /\ taken' = taken + 1
    BY <1>2 DEF SlaveEdge
  <2> HIDE DEF In
  <2> QED
    BY <1>1, <2>2, <2>3
<1>3. CASE ~ (offer # NoOffer /\ r = 1)
  BY <1>1, <1>3 DEF SlaveEdge
<1> QED
  BY <1>2, <1>3

(* So do the edges of a write. *)
LEMMA WriteEdgeTypes ==
  ASSUME TypeInv, MasterWriteData \/ MasterWriteResponse
  PROVE  TypeOK' /\ Stage'
<1>1. TypeOK /\ Stage
  BY DEF TypeInv
<1>2. /\ t.op = "M_WR" /\ ax.len = axi_len(t.size) /\ offer <= ax.len
      /\ pc = "m_beat" => cnt <= ax.len /\ ax.size = log2c(t.size)
  BY <1>1 DEF MasterWriteData, MasterWriteResponse, Stage
<1>3. t \in Accesses
  BY <1>2, Kinds DEF TypeInv, Access
<1>4. PICK r \in {0, 1} : SlaveEdge(r) /\ (MasterWriteData =>
        /\ pc' = IF r = 1 /\ cnt = ax.len THEN "m_response" ELSE pc
        /\ cnt' = IF r = 1 /\ cnt # ax.len THEN cnt + 1 ELSE cnt)
  <2>1. CASE MasterWriteData
    BY <2>1 DEF MasterWriteData
  <2>2. CASE MasterWriteResponse /\ ~ MasterWriteData
    BY <2>2 DEF MasterWriteResponse
  <2> QED
    BY <2>1, <2>2
<1>5. mem' \in [Mem -> Byte] /\ taken' \in Nat
  BY <1>1, <1>2, <1>3, <1>4, EdgeTypes
<1>6. UNCHANGED <<t, frame, ax, buf, strb, got>>
  BY DEF MasterWriteData, MasterWriteResponse
<1>7. ax.len \in 0..8 /\ cnt \in Nat
  BY <1>1, Numbers DEF TypeOK
<1>8. CASE MasterWriteData
  <2>1. pc = "m_beat" /\ offer' = cnt /\ cnt <= ax.len
    BY <1>2, <1>8 DEF MasterWriteData
  <2>2. cnt + 1 <= BUFF_SIZE
    BY <1>1, <1>2, <1>3, <1>7, <2>1, AccessWordFits
  <2>3. /\ cnt' \in 0..(BUFF_SIZE + 1) /\ offer' \in NoOffer..8
        /\ pc' \in {"m_beat", "m_response"} /\ (pc' = "m_beat" => cnt' <= ax.len)
    BY <1>4, <1>7, <1>8, <2>1, <2>2, Numbers DEF NoOffer
  <2>4. TypeOK'
    BY <1>1, <1>5, <1>6, <2>3 DEF TypeOK
  <2>5. Stage'
    BY <1>2, <1>6, <2>1, <2>3 DEF Stage, Access
  <2> QED
    BY <2>4, <2>5
<1>9. CASE MasterWriteResponse
  <2>1. pc' \in {"m_response", "done"} /\ offer' = NoOffer /\ cnt' = cnt
    BY <1>9 DEF MasterWriteResponse
  <2>2. offer' \in NoOffer..8 /\ offer' <= ax.len
    BY <1>7, <2>1 DEF NoOffer
  <2>3. TypeOK'
    BY <1>1, <1>5, <1>6, <2>1, <2>2 DEF TypeOK
  <2>4. Stage'
    BY <1>2, <1>6, <2>1, <2>2 DEF Stage
  <2> QED
    BY <2>3, <2>4
<1> QED
  BY <1>8, <1>9

(* And the beats of a read. *)
LEMMA ReadBeatTypes ==
  ASSUME TypeInv, MasterReadBeat
  PROVE  TypeOK' /\ Stage'
<1>1. TypeOK /\ Stage
  BY DEF TypeInv
<1>2. /\ Access /\ pc = "m_beat" /\ cnt <= ax.len /\ ax.len = axi_len(t.size)
      /\ ax.size = log2c(t.size) /\ offer <= ax.len
  BY <1>1 DEF MasterReadBeat, Stage
<1>3. t \in Accesses
  BY <1>2, Kinds DEF TypeInv
<1>4. cnt \in Nat /\ ax.len \in Nat
  BY <1>1, Numbers DEF TypeOK
<1>5. cnt + 1 <= BUFF_SIZE
  BY <1>1, <1>2, <1>3, <1>4, AccessWordFits
<1>6. /\ t' = t /\ cnt' = cnt + 1 /\ UNCHANGED <<ax, strb, got, mem, offer, taken>>
      /\ cnt' \in 0..(BUFF_SIZE + 1) /\ (cnt # ax.len => cnt' <= ax.len)
  <2>1. t' = t /\ cnt' = cnt + 1 /\ UNCHANGED <<ax, strb, got, mem, offer, taken>>
    BY DEF MasterReadBeat
  <2> QED
    BY <1>2, <1>4, <1>5, <2>1, Numbers
<1>7. ASSUME NEW x \in Nat PROVE x % BUSW \in Lanes
  BY Numbers, Division DEF Lanes
<1> DEFINE rdata == Beat(t.addr, ax.size, cnt, Found)
           o == align_offset(t.addr)
           d == [k \in Buf |-> IF k + o \in Buf THEN buf'[k + o] ELSE Junk]
<1>8. /\ t.op = "M_RD"
      /\ buf' = [i \in Buf |-> IF i \div BUSW = cnt THEN rdata[i % BUSW] ELSE buf[i]]
      /\ IF cnt = ax.len THEN pc' = "qemu_resp" /\ frame' = [frame EXCEPT !.data = d]
                         ELSE UNCHANGED <<pc, frame>>
  BY DEF MasterReadBeat
<1>9. rdata \in [Lanes -> Byte]
  BY <1>1, BeatType DEF TypeOK
<1> HIDE DEF rdata
<1>10. buf' \in [Buf -> Byte]
  BY <1>1, <1>7, <1>8, <1>9, Numbers DEF TypeOK, Buf
<1>11. d \in [Buf -> Byte]
  BY <1>10, Symbols
<1> HIDE DEF d, o
<1>12. frame' \in [size : Nat, vector : {NoVector} \cup 0..31, data : [Buf -> Byte]]
  BY <1>1, <1>8, <1>11 DEF TypeOK
<1>13. TypeOK'
  BY <1>1, <1>2, <1>6, <1>8, <1>10, <1>12 DEF TypeOK
<1>14. Stage'
  BY <1>2, <1>6, <1>8 DEF Stage, Access
<1> QED
  BY <1>13, <1>14

(* Strobes are kept for places of the buffer. *)
LEMMA StrobesFit ==
  ASSUME Fits, t.len \in 0..MaxLen, NEW s
  PROVE  Strobed(s) \in SUBSET Buf
<1>1. ASSUME NEW i \in 0..t.len, NEW j \in Lanes PROVE i * BUSW + j \in Buf
  <2>1. i \in Nat /\ i \in 0..MaxLen
    BY Numbers
  <2>2. BUSW * i + j \in Buf /\ BUSW * i = i * BUSW
    BY <2>1, BeatFits, WordFits, Numbers
  <2> QED
    BY <2>2
<1> QED
  BY <1>1 DEF Strobed

(* A word of the burst goes into the buffer of axi4_s_w, and with the last *)
(* one C_req_write sends the frame.                                        *)
LEMMA WriteBeatTypes ==
  ASSUME Fits, TypeInv, SlaveWriteBeat
  PROVE  TypeOK' /\ Stage'
<1>1. TypeOK /\ Stage
  BY DEF TypeInv
<1>2. t.op = "S_WR" /\ cnt <= t.len /\ t \in Bursts
  <2>1. (pc = "begin" /\ t.op = "S_WR") \/ pc = "w_beat"
    BY DEF SlaveWriteBeat
  <2>2. t.op = "S_WR" /\ (pc = "begin" => cnt = 0) /\ (pc # "begin" => cnt <= t.len)
    BY <1>1, <2>1 DEF Stage
  <2>3. t \in Bursts
    BY <2>2, Kinds DEF TypeInv, Burst
  <2>4. t.len \in Nat
    BY <2>3, BurstShape
  <2> QED
    BY <2>2, <2>3, <2>4
<1>3. /\ t.len \in 0..MaxLen /\ burst_size(t.width, t.len) \in Nat
      /\ \A n \in 0..t.len : BeatBytes(t.addr, t.width, n) \subseteq Page
  BY <1>2, BurstShape
<1>4. cnt \in 0..t.len /\ cnt \in 0..MaxLen /\ cnt \in Nat /\ cnt + 1 <= BUFF_SIZE
  <2>1. cnt \in Nat
    BY <1>1, Numbers DEF TypeOK
  <2>2. cnt \in 0..t.len /\ cnt \in 0..MaxLen
    BY <1>2, <1>3, <2>1, Numbers
  <2> QED
    BY <2>1, <2>2, BeatFits
<1>5. ASSUME NEW x \in Nat PROVE x % BUSW \in Lanes
  BY Numbers, Division DEF Lanes
<1> DEFINE wdata == Beat(t.addr, t.width, cnt, New)
           v == {x % BUSW : x \in BeatBytes(t.addr, t.width, cnt) \ t.skip}
           size == burst_size(t.width, t.len)
<1>6. /\ t' = t /\ cnt' = cnt + 1 /\ UNCHANGED <<ax, mem, got, offer, taken>>
      /\ buf' = [i \in Buf |-> IF i \div BUSW = cnt THEN wdata[i % BUSW] ELSE buf[i]]
      /\ strb' = [strb EXCEPT ![cnt] = v]
      /\ IF cnt = t.len
         THEN pc' = "hdl_req"
              /\ frame' = [size |-> size, vector |-> 0, data |-> Pack(buf', strb')]
         ELSE pc' = "w_beat" /\ frame' = frame
  BY DEF SlaveWriteBeat
<1>7. BeatBytes(t.addr, t.width, cnt) \subseteq Mem
  BY <1>3, <1>4, Numbers
<1>8. wdata \in [Lanes -> Byte] /\ v \in SUBSET Lanes
  <2>1. wdata \in [Lanes -> Byte]
    BY <1>7, BeatType
  <2>2. v \in SUBSET Lanes
    BY <1>5, <1>7, Numbers
  <2> QED
    BY <2>1, <2>2
<1> HIDE DEF wdata, v, size
<1>9. buf' \in [Buf -> Byte] /\ strb' \in [0..MaxLen -> SUBSET Lanes]
  <2>1. buf \in [Buf -> Byte] /\ strb \in [0..MaxLen -> SUBSET Lanes]
    BY <1>1 DEF TypeOK
  <2>2. buf' \in [Buf -> Byte]
    BY <1>5, <1>6, <1>8, <2>1, Numbers DEF Buf
  <2>3. strb' \in [0..MaxLen -> SUBSET Lanes]
    BY <1>4, <1>6, <1>8, <2>1
  <2> QED
    BY <2>2, <2>3
<1>10. Pack(buf', strb') \in [Buf -> Byte]
  <2>1. Strobed(strb') \in SUBSET Buf
    BY <1>3, StrobesFit
  <2> QED
    BY <1>9, <2>1, Packed
<1>11. /\ frame' \in [size : Nat, vector : {NoVector} \cup 0..31, data : [Buf -> Byte]]
       /\ cnt = t.len => frame'.size = burst_size(t.width, t.len)
  <2>1. CASE cnt = t.len
    <3> DEFINE P == Pack(buf', strb')
    <3>1. frame' = [size |-> size, vector |-> 0, data |-> P]
      BY <1>6, <2>1, Zenon
    <3>2. P \in [Buf -> Byte] /\ size \in Nat
      BY <1>3, <1>10 DEF size
    <3> HIDE DEF P
    <3>3. /\ frame' \in [size : Nat, vector : {NoVector} \cup 0..31, data : [Buf -> Byte]]
          /\ frame'.size = size
      BY <3>1, <3>2
    <3> QED
      BY <3>3 DEF size
  <2>2. CASE cnt # t.len
    BY <1>1, <1>6, <2>2 DEF TypeOK
  <2> QED
    BY <2>1, <2>2
<1>12. cnt' \in 0..(BUFF_SIZE + 1) /\ (cnt # t.len => cnt' <= t.len)
  BY <1>3, <1>4, <1>6, Numbers
<1>13. TypeOK'
  <2>1. pc' \in {"hdl_req", "w_beat"}
    BY <1>6
  <2> QED
    BY <1>1, <1>6, <1>9, <1>11, <1>12, <2>1 DEF TypeOK
<1>14. Stage'
  BY <1>2, <1>6, <1>11, <1>12 DEF Stage, Burst
<1> QED
  BY <1>13, <1>14

(* The vector of an interrupt is that of its one line, if there is one. *)
LEMMA VectorIs ==
  ASSUME NEW bits
  PROVE  /\ vector(bits) \in {NoVector} \cup 0..31
         /\ \A k \in 0..31 : bits = {k} => vector(bits) = k
<1>1. ASSUME NEW k \in 0..31, bits = {k} PROVE vector(bits) = k
  BY <1>1 DEF vector
<1>2. CASE \E k \in 0..31 : bits = {k}
  BY <1>1, <1>2
<1>3. CASE ~ \E k \in 0..31 : bits = {k}
  BY <1>3 DEF vector
<1> QED
  BY <1>1, <1>2, <1>3

(* The other steps of bursts and interrupts. *)
LEMMA DeviceTypes ==
  ASSUME Fits, TypeInv,
         C_req_read \/ C_req_interrupt \/ handle_hdl_request \/ C_poll_resp \/ SlaveReadBeat
  PROVE  TypeOK' /\ Stage'
<1>1. TypeOK /\ Stage
  BY DEF TypeInv
<1>2. Burst => /\ t.addr \in Nat /\ t.addr < BUFF_SIZE /\ t.len \in 0..MaxLen
               /\ burst_size(t.width, t.len) \in Nat
               /\ burst_size(t.width, t.len) <= BUFF_SIZE
               /\ \A n \in 0..t.len : BeatBytes(t.addr, t.width, n) \subseteq Page
  BY Kinds, BurstShape, Numbers DEF TypeInv, Page
<1>3. /\ frame \in [size : Nat, vector : {NoVector} \cup 0..31, data : [Buf -> Byte]]
      /\ frame.data \in [Buf -> Byte] /\ buf \in [Buf -> Byte]
      /\ mem \in [Mem -> Byte] /\ got \in [Mem -> Byte] /\ frame.size \in Nat
  BY <1>1 DEF TypeOK
<1>4. CASE C_req_read
  <2>1. /\ t.op = "S_RD" /\ pc' = "hdl_req"
        /\ UNCHANGED <<t, ax, buf, strb, cnt, mem, got, offer, taken>>
        /\ frame' = [frame EXCEPT !.size = burst_size(t.width, t.len)]
    BY <1>4 DEF C_req_read
  <2>2. /\ frame' \in [size : Nat, vector : {NoVector} \cup 0..31, data : [Buf -> Byte]]
        /\ frame'.size = burst_size(t.width, t.len)
    BY <1>2, <1>3, <2>1 DEF Burst
  <2>3. TypeOK'
    BY <1>1, <2>1, <2>2 DEF TypeOK
  <2>4. Stage'
    BY <2>1, <2>2 DEF Stage, Burst
  <2> QED
    BY <2>3, <2>4
<1>5. CASE C_req_interrupt
  <2>1. /\ t.op = "INTR" /\ pc' = "hdl_req"
        /\ UNCHANGED <<t, ax, buf, strb, cnt, mem, got, offer, taken>>
        /\ frame.size = 0
        /\ \E bits : frame' = [frame EXCEPT !.vector = vector(bits)]
    BY <1>1, <1>5 DEF C_req_interrupt, Stage
  <2>2. /\ frame' \in [size : Nat, vector : {NoVector} \cup 0..31, data : [Buf -> Byte]]
        /\ frame'.size = 0
    BY <1>3, <2>1, VectorIs
  <2>3. TypeOK'
    BY <1>1, <2>1, <2>2 DEF TypeOK
  <2>4. Stage'
    BY <2>1, <2>2 DEF Stage
  <2> QED
    BY <2>3, <2>4
<1>6. CASE handle_hdl_request
  <2>1. /\ UNCHANGED <<t, ax, buf, strb, cnt, got, offer, taken>>
        /\ pc' \in {"done", "hdl_resp"} /\ (pc' = "hdl_resp" => t.op = "S_RD")
        /\ t.op # "INTR" => Burst /\ frame.size = burst_size(t.width, t.len)
    BY <1>1, <1>6 DEF handle_hdl_request, Stage, Burst
  <2>2. mem' \in [Mem -> Byte] /\ (t.op = "S_WR" => frame' = frame)
    <3>1. CASE t.op = "S_WR"
      <4>1. frame' = frame
            /\ mem' = [x \in Mem |-> IF x \in t.addr..(t.addr + frame.size - 1)
                                     THEN frame.data[x - t.addr] ELSE mem[x]]
        BY <1>6, <3>1 DEF handle_hdl_request
      <4>2. ASSUME NEW x \in t.addr..(t.addr + frame.size - 1) PROVE x - t.addr \in Buf
        BY <1>2, <1>3, <2>1, <3>1, Numbers DEF Buf
      <4> QED
        BY <1>3, <4>1, <4>2
    <3>2. CASE t.op # "S_WR"
      <4>1. mem' = mem
        BY <1>6, <3>2 DEF handle_hdl_request
      <4> QED
        BY <1>3, <3>2, <4>1
    <3> QED
      BY <3>1, <3>2
  <2>3. /\ frame' \in [size : Nat, vector : {NoVector} \cup 0..31, data : [Buf -> Byte]]
        /\ frame'.size = frame.size
    <3>1. CASE t.op = "S_RD"
      <4> DEFINE d == [k \in Buf |-> IF k < frame.size THEN mem[t.addr + k] ELSE frame.data[k]]
      <4>1. frame' = [frame EXCEPT !.data = d]
        BY <1>6, <3>1 DEF handle_hdl_request
      <4>2. ASSUME NEW k \in Buf PROVE t.addr + k \in Mem
        BY <1>2, <2>1, <3>1, Numbers DEF Buf, Mem
      <4>3. d \in [Buf -> Byte]
        BY <1>3, <4>2
      <4> HIDE DEF d
      <4> QED
        BY <1>3, <4>1, <4>3
    <3>2. CASE t.op # "S_RD"
      <4>1. frame' = frame
        BY <1>6, <3>2 DEF handle_hdl_request
      <4> QED
        BY <1>3, <4>1
    <3> QED
      BY <3>1, <3>2
  <2>4. TypeOK'
    BY <1>1, <2>1, <2>2, <2>3 DEF TypeOK
  <2>5. Stage'
    BY <2>1, <2>3 DEF Stage
  <2> QED
    BY <2>4, <2>5
<1>7. CASE C_poll_resp
  <2> DEFINE o == align_offset(t.addr)
  <2>1. /\ t.op = "S_RD" /\ frame.size = burst_size(t.width, t.len) /\ pc' = "r_beat"
        /\ cnt' = 0 /\ UNCHANGED <<t, frame, ax, strb, mem, got, offer, taken>>
        /\ buf' = [i \in Buf |-> IF i \in o..(o + frame.size - 1)
                                 THEN frame.data[i - o] ELSE buf[i]]
    BY <1>1, <1>7 DEF C_poll_resp, Stage
  <2>2. o \in Nat
    <3>1. t.addr \in Nat
      BY <1>2, <2>1 DEF Burst
    <3> QED
      BY <3>1, Numbers, Division DEF align_offset
  <2> HIDE DEF o
  <2>3. ASSUME NEW i \in Buf, i \in o..(o + frame.size - 1) PROVE i - o \in Buf
    BY <1>2, <1>3, <2>1, <2>2, <2>3, Numbers DEF Buf, Burst
  <2>4. buf' \in [Buf -> Byte]
    BY <1>3, <2>1, <2>3
  <2>5. TypeOK'
    BY <1>1, <2>1, <2>4, Numbers DEF TypeOK
  <2>6. 0 <= t.len
    BY <1>2, <2>1 DEF Burst
  <2>7. Stage'
    BY <2>1, <2>6 DEF Stage
  <2> QED
    BY <2>5, <2>7
<1>8. CASE SlaveReadBeat
  <2>1. /\ t.op = "S_RD" /\ cnt <= t.len /\ pc' = (IF cnt = t.len THEN "done" ELSE pc)
        /\ pc = "r_beat" /\ cnt' = cnt + 1
        /\ UNCHANGED <<t, frame, ax, buf, strb, mem, offer, taken>>
    BY <1>1, <1>8 DEF SlaveReadBeat, Stage
  <2>2. cnt \in Nat /\ t.len \in Nat /\ cnt \in 0..MaxLen
    <3>1. cnt \in Nat
      BY <1>1, Numbers DEF TypeOK
    <3> QED
      BY <1>2, <2>1, <3>1, Numbers DEF Burst
  <2>3. (cnt + 1) * BUSW <= BUFF_SIZE /\ cnt + 1 <= BUFF_SIZE
    BY <2>2, BeatFits
  <2>4. got' \in [Mem -> Byte]
    <3>1. ASSUME NEW x \in Mem PROVE buf[BUSW * cnt + (x % BUSW)] \in Byte
      <4>1. x % BUSW \in Lanes
        BY Numbers, Division DEF Lanes
      <4> QED
        BY <1>3, <2>2, <2>3, <4>1, WordFits
    <3> QED
      BY <1>3, <1>8, <3>1 DEF SlaveReadBeat
  <2>5. cnt' \in 0..(BUFF_SIZE + 1) /\ (cnt # t.len => cnt' <= t.len)
    BY <2>1, <2>2, <2>3, Numbers
  <2>6. TypeOK'
    BY <1>1, <2>1, <2>4, <2>5 DEF TypeOK
  <2>7. Stage'
    BY <2>1, <2>5 DEF Stage
  <2> QED
    BY <2>6, <2>7
<1> QED
  BY <1>4, <1>5, <1>6, <1>7, <1>8

(* A transfer begins in a state of its types. *)
LEMMA TypesAtStart == Init => TypeInv
<1> SUFFICES ASSUME Init PROVE TypeInv
  OBVIOUS
<1>1. Given
  BY DEF Init, Given
<1>2. Stage
  BY DEF Init, Stage
<1>3. TypeOK
  <2>1. [k \in Buf |-> Junk] \in [Buf -> Byte] /\ [x \in Mem |-> Junk] \in [Mem -> Byte]
        /\ [x \in Mem |-> Old(x)] \in [Mem -> Byte]
    BY Symbols
  <2>2. frame \in [size : Nat, vector : {NoVector} \cup 0..31, data : [Buf -> Byte]]
    BY <2>1 DEF Init
  <2>3. offer \in NoOffer..8
    BY DEF Init, NoOffer
  <2> QED
    BY <2>1, <2>2, <2>3, Numbers DEF Init, TypeOK
<1> QED
  BY <1>1, <1>2, <1>3 DEF TypeInv

(* Every step keeps types, transfer and stage. *)
LEMMA TypeStep == Fits /\ TypeInv /\ [Next]_vars => TypeInv'
<1> SUFFICES ASSUME Fits, TypeInv, [Next]_vars PROVE TypeInv'
  OBVIOUS
<1>1. t' = t
  BY DEF Next, vars, mmio_bar, C_poll_req, MasterWriteData, MasterWriteResponse, MasterReadBeat, mmio_read_bar,
         C_req_read, SlaveWriteBeat, C_req_interrupt, handle_hdl_request, C_poll_resp,
         SlaveReadBeat
<1>2. Given'
  BY <1>1 DEF TypeInv, Given, Shape
<1>3. TypeOK' /\ Stage'
  <2>1. CASE Next
    BY <2>1, AccessTypes, WriteEdgeTypes, ReadBeatTypes, WriteBeatTypes, DeviceTypes DEF Next
  <2>2. CASE UNCHANGED vars
    BY <2>2 DEF vars, TypeInv, TypeOK, Stage, Access, Burst
  <2> QED
    BY <2>1, <2>2
<1> QED
  BY <1>2, <1>3 DEF TypeInv

(* So they hold throughout, when bursts fit. *)
LEMMA TypeInvariant == Fits => (Spec => []TypeInv)
<1>1. ASSUME Fits PROVE Spec => []TypeInv
  <2>1. TypeInv /\ [Next]_vars => TypeInv'
    BY <1>1, TypeStep
  <2> QED
    BY <2>1, TypesAtStart, PTL DEF Spec
<1> QED
  BY <1>1

(* Whatever the shape of a burst, every byte of a buffer, a frame or a     *)
(* memory is one somebody has put there or nobody has touched; no index of *)
(* the loops of dpi-pcie.c leaves its array, as long as bursts fit.        *)
THEOREM TypeCorrect == Fits => (Spec => []TypeOK)
<1>1. TypeInv => TypeOK
  BY DEF TypeInv
<1>2. ASSUME Fits PROVE Spec => []TypeOK
  <2>1. Spec => []TypeInv
    BY <1>2, TypeInvariant
  <2> QED
    BY <1>1, <2>1, PTL
<1> QED
  BY <1>2

(* Reads begin at a multiple of the size of their beats, as the copy to    *)
(* v_data + align_offset needs.                                            *)
AlignedReads == "unaligned" \notin Reads

(* Every read the device makes is then aligned. *)
LEMMA ReadAligned ==
  ASSUME AlignedReads, Given, t.op = "S_RD"
  PROVE  t.addr % 2 ^ t.width = 0
<1>1. t \in Bursts /\ Shape(t) \in Reads
  BY Kinds DEF Burst
<1>2. t.skip = {}
  BY <1>1 DEF Bursts
<1>3. Shape(t) # "unaligned"
  BY <1>1 DEF AlignedReads
<1> QED
  BY <1>2, <1>3 DEF Shape

(* The response to an aligned read fits behind align_offset. *)
LEMMA ReadFits ==
  ASSUME NEW x \in Bursts, x.addr % 2 ^ x.width = 0
  PROVE  (x.addr % BUSW) + burst_size(x.width, x.len) <= BUFF_SIZE
<1> DEFINE b == 2 ^ x.width
           size == burst_size(x.width, x.len)
           o == x.addr % BUSW
           a == x.addr
<1>1. a \in Nat /\ b \in Nat \ {0} /\ size \in Nat /\ (a \div b) * b + size <= BUFF_SIZE
  <2>1. /\ a \in Page /\ b \in Nat \ {0} /\ size \in Nat
        /\ (a \div b) * b + size <= BUFF_SIZE
    BY BurstShape
  <2>2. a \in Nat
    BY <2>1, Numbers, Zenon
  <2> QED
    BY <2>1, <2>2
<1>2. a % b = 0
  OBVIOUS
<1> HIDE DEF b, size, a
<1>3. (a \div b) * b = a
  <2>1. a \div b \in Nat /\ a = b * (a \div b) + (a % b)
    BY <1>1, Division
  <2> QED
    BY <1>1, <1>2, <2>1
<1>4. o \in Nat /\ o <= a
  <2>1. a \div BUSW \in Nat /\ o \in 0..(BUSW - 1) /\ a = BUSW * (a \div BUSW) + o
    BY <1>1, Numbers, Division DEF a
  <2>2. BUSW * (a \div BUSW) \in Nat
    BY <2>1, Numbers
  <2> QED
    BY <1>1, <2>1, <2>2
<1> HIDE DEF o
<1>5. o + size <= BUFF_SIZE
  BY <1>1, <1>3, <1>4, Numbers
<1> QED
  BY <1>5 DEF o, size

(* No copy leaves its buffer, although none is checked: host memory is     *)
(* read into the frame, the response copied behind align_offset, and every *)
(* beat finds its word, for all widths of the bus and all bursts of a      *)
(* page.                                                                   *)
THEOREM AlwaysInBuffer == Fits /\ AlignedReads => (Spec => []InBuffer)
<1> SUFFICES ASSUME Fits, AlignedReads PROVE Spec => []InBuffer
  OBVIOUS
<1>1. TypeInv => InBuffer
  <2> SUFFICES ASSUME TypeInv PROVE InBuffer
    OBVIOUS
  <2>1. Given /\ Stage /\ cnt \in Nat
    BY Numbers DEF TypeInv, TypeOK
  <2>2. Burst => /\ t.len \in 0..MaxLen /\ burst_size(t.width, t.len) \in Nat
                 /\ burst_size(t.width, t.len) <= BUFF_SIZE
    BY <2>1, Kinds, BurstShape
  <2>3. pc \in {"hdl_req", "hdl_resp"} => frame.size <= BUFF_SIZE
    <3>1. pc \in {"hdl_req", "hdl_resp"} =>
            frame.size = 0 \/ (Burst /\ frame.size = burst_size(t.width, t.len))
      BY <2>1 DEF Stage, Burst
    <3> QED
      BY <2>2, <3>1, Numbers
  <2>4. ASSUME pc = "hdl_resp" PROVE align_offset(t.addr) + frame.size <= BUFF_SIZE
    <3>1. t.op = "S_RD" /\ frame.size = burst_size(t.width, t.len) /\ Burst
      BY <2>1, <2>4 DEF Stage, Burst
    <3>2. t \in Bursts /\ t.addr % 2 ^ t.width = 0
      BY <2>1, <3>1, ReadAligned, Kinds
    <3> QED
      BY <3>1, <3>2, ReadFits DEF align_offset
  <2>5. ASSUME pc \in {"w_beat", "r_beat"} PROVE (cnt + 1) * BUSW <= BUFF_SIZE
    <3>1. Burst /\ cnt <= t.len
      BY <2>1, <2>5 DEF Stage, Burst
    <3>2. cnt \in 0..MaxLen
      BY <2>1, <2>2, <3>1, Numbers
    <3> QED
      BY <3>2, BeatFits
  <2> QED
    BY <2>3, <2>4, <2>5 DEF InBuffer
<1>2. Spec => []TypeInv
  BY TypeInvariant
<1> QED
  BY <1>1, <1>2, PTL

-----------------------------------------------------------------------------
(* The bytes of an access *)

(* The first word and lane of an access, and the words it takes. *)
LEMMA AccessWords ==
  ASSUME NEW x \in Accesses
  PROVE  LET o == x.addr % BUSW
             q == x.addr \div BUSW
             n == axi_len(x.size)
         IN  /\ o \in 0..(BUSW - 1) /\ q \in Nat /\ n \in Nat /\ x.addr = BUSW * q + o
             /\ o + x.size <= (n + 1) * BUSW
             /\ x.size <= BUSW => n = 0
             /\ x.size > BUSW => o = 0 /\ (n + 1) * BUSW = x.size
<1> DEFINE o == x.addr % BUSW
           q == x.addr \div BUSW
           n == axi_len(x.size)
<1>1. x.addr \in Nat /\ x.size \in {1, 2, 4, 8} /\ x.addr % x.size = 0
  BY AccessIs, Numbers
<1>2. o \in 0..(BUSW - 1) /\ q \in Nat /\ x.addr = BUSW * q + o
  BY <1>1, Numbers, Division
<1>3. /\ n \in 0..7 /\ (x.size <= BUSW => n = 0 /\ o + x.size <= BUSW)
      /\ x.size > BUSW => (n + 1) * BUSW = x.size /\ o = 0
  BY <1>1, AccessShape, AccessAligned
<1> HIDE DEF o, q, n
<1>4. o + x.size <= (n + 1) * BUSW
  <2>1. CASE x.size <= BUSW
    BY <1>1, <1>2, <1>3, <2>1, Numbers
  <2>2. CASE x.size > BUSW
    BY <1>1, <1>2, <1>3, <2>2, Numbers
  <2> QED
    BY <1>1, <2>1, <2>2, Numbers
<1>5. n \in Nat
  BY <1>3
<1> QED
  BY <1>2, <1>3, <1>4, <1>5 DEF o, q, n

(* Byte y in word c of an access: where the buffer has it. *)
LEMMA PlaceInBuffer ==
  ASSUME NEW x \in Accesses, NEW c \in Nat, NEW y \in Nat,
         y \div BUSW = (x.addr \div BUSW) + c
  PROVE  BUSW * c + (y % BUSW) = (x.addr % BUSW) + (y - x.addr)
<1> DEFINE q == x.addr \div BUSW
           o == x.addr % BUSW
           r == y % BUSW
<1>1. q \in Nat /\ o \in Nat /\ x.addr = BUSW * q + o
  BY AccessWords, Numbers
<1>2. r \in Nat /\ y = BUSW * (q + c) + r
  <2>1. r \in 0..(BUSW - 1) /\ y = BUSW * (y \div BUSW) + r
    BY Numbers, Division
  <2> QED
    BY <2>1, Numbers
<1> HIDE DEF q, o, r
<1>3. BUSW * (q + c) = BUSW * q + BUSW * c /\ BUSW * q \in Nat /\ BUSW * c \in Nat
  BY <1>1, Numbers
<1>4. BUSW * c + r = o + (y - x.addr)
  BY <1>1, <1>2, <1>3, Numbers
<1> QED
  BY <1>4 DEF o, r

(* The strobes of beat c are those of the bytes the access names. *)
LEMMA WriteLanes ==
  ASSUME NEW x \in Accesses, NEW c \in 0..axi_len(x.size), NEW y \in Nat,
         y \div BUSW = (x.addr \div BUSW) + c, NEW strobes,
         strobes = {(x.addr % BUSW) + i : i \in 0..(x.size - 1)}
  PROVE  y % BUSW \in (IF c = axi_len(x.size) THEN strobes \cap Lanes ELSE Lanes)
           <=> y \in x.addr..(x.addr + x.size - 1)
<1> DEFINE o == x.addr % BUSW
           r == y % BUSW
           n == axi_len(x.size)
           m == BUSW * c
<1>1. /\ o \in 0..(BUSW - 1) /\ n \in Nat
      /\ x.size <= BUSW => n = 0
      /\ x.size > BUSW => o = 0 /\ (n + 1) * BUSW = x.size
  BY AccessWords
<1>2. x.addr \in Nat /\ x.size \in Nat \ {0}
  <2>1. x.addr \in Page /\ x.size \in {1, 2, 4, 8}
    BY AccessIs
  <2>2. x.addr \in Nat
    BY <2>1, Numbers, Zenon
  <2> QED
    BY <2>1, <2>2
<1>3. r \in Lanes /\ r \in 0..(BUSW - 1)
  BY Numbers, Division DEF Lanes
<1>4. c \in Nat /\ c <= n /\ m + r = o + (y - x.addr)
  BY <1>1, PlaceInBuffer
<1> HIDE DEF o, r, n
<1>5. m \in Nat /\ (c = 0 => m = 0) /\ m + BUSW <= (n + 1) * BUSW
  <2>1. (c + 1) * BUSW <= (n + 1) * BUSW
    BY <1>1, <1>4, Numbers
  <2>2. (c + 1) * BUSW = m + BUSW
    BY <1>4, Numbers
  <2> QED
    BY <1>4, <2>1, <2>2, Numbers
<1> HIDE DEF m
<1>6. r \in strobes <=> r - o \in 0..(x.size - 1)
  <2>1. r \in strobes <=> \E i \in 0..(x.size - 1) : r = o + i
    BY DEF o
  <2> QED
    BY <1>1, <1>2, <1>3, <2>1, Numbers
<1>7. CASE x.size <= BUSW
  <2>1. c = n /\ m = 0
    BY <1>1, <1>4, <1>5, <1>7
  <2>2. y = x.addr + (r - o)
    BY <1>1, <1>2, <1>3, <1>4, <2>1, Numbers
  <2>3. r - o \in 0..(x.size - 1) <=> y \in x.addr..(x.addr + x.size - 1)
    BY <1>1, <1>2, <1>3, <2>2, Numbers
  <2> QED
    BY <1>3, <1>6, <2>1, <2>3 DEF r, n
<1>8. CASE x.size > BUSW
  <2>1. o = 0 /\ m + BUSW <= x.size
    BY <1>1, <1>5, <1>8
  <2>2. y \in x.addr..(x.addr + x.size - 1)
    BY <1>2, <1>3, <1>4, <1>5, <2>1, Numbers
  <2>3. r \in strobes
    BY <1>2, <1>3, <1>6, <1>8, <2>1, Numbers
  <2> QED
    BY <1>3, <2>2, <2>3 DEF r
<1> QED
  BY <1>2, <1>7, <1>8, Numbers

(* Two bytes on the same lane less than a word apart are one. *)
LEMMA SameLane ==
  ASSUME NEW x \in Nat, NEW y \in Nat, x % BUSW = y % BUSW, x - y < BUSW, y - x < BUSW
  PROVE  x = y
<1> DEFINE a == x \div BUSW
           b == y \div BUSW
           r == x % BUSW
<1>1. a \in Nat /\ b \in Nat /\ r \in Nat /\ x = BUSW * a + r /\ y = BUSW * b + r
  <2>1. a \in Nat /\ r \in 0..(BUSW - 1) /\ x = BUSW * a + r
    BY Numbers, Division
  <2>2. b \in Nat /\ y = BUSW * b + (y % BUSW)
    BY Numbers, Division
  <2>3. y % BUSW = r
    OBVIOUS
  <2> QED
    BY <2>1, <2>2, <2>3, Numbers
<1> HIDE DEF a, b, r
<1>2. CASE a < b
  <2>1. BUSW * (a + 1) <= BUSW * b
    BY <1>1, <1>2, Numbers
  <2>2. BUSW * (a + 1) = BUSW * a + BUSW /\ BUSW * a \in Nat /\ BUSW * b \in Nat
    BY <1>1, Numbers
  <2> QED
    BY <1>1, <2>1, <2>2, Numbers
<1>3. CASE b < a
  <2>1. BUSW * (b + 1) <= BUSW * a
    BY <1>1, <1>3, Numbers
  <2>2. BUSW * (b + 1) = BUSW * b + BUSW /\ BUSW * a \in Nat /\ BUSW * b \in Nat
    BY <1>1, Numbers
  <2> QED
    BY <1>1, <2>1, <2>2, Numbers
<1>4. CASE a = b
  BY <1>1, <1>4
<1> QED
  BY <1>1, <1>2, <1>3, <1>4

(* Words, and beats of b bytes, are in the order of their bytes. *)
LEMMA WordBefore ==
  ASSUME NEW x \in Nat, NEW b \in Nat \ {0}, NEW n \in Nat, x < n * b
  PROVE  x \div b < n
<1> DEFINE c == x \div b
           r == x % b
<1>1. c \in Nat /\ r \in 0..(b - 1) /\ x = b * c + r
  BY Division
<1> HIDE DEF c, r
<1>2. ASSUME c >= n PROVE FALSE
  <2>1. b * c >= n * b /\ b * c \in Nat /\ n * b \in Nat
    BY <1>1, <1>2
  <2> QED
    BY <1>1, <2>1
<1> QED
  BY <1>1, <1>2 DEF c

(* A byte at or behind the start of word n is not in an earlier one. *)
LEMMA WordFrom ==
  ASSUME NEW x \in Nat, NEW b \in Nat \ {0}, NEW n \in Nat, x >= n * b
  PROVE  x \div b >= n
<1> DEFINE c == x \div b
           r == x % b
<1>1. c \in Nat /\ r \in 0..(b - 1) /\ x = b * c + r
  BY Division
<1> HIDE DEF c, r
<1>2. ASSUME c < n PROVE FALSE
  <2>1. b * (c + 1) <= n * b /\ b * (c + 1) = b * c + b
        /\ b * c \in Nat /\ n * b \in Nat
    BY <1>1, <1>2
  <2> QED
    BY <1>1, <2>1
<1> QED
  BY <1>1, <1>2 DEF c

(* What has been done of an access: a write has its bytes in the frame,    *)
(* then at their place of the buffer, then in the words that were sent; a  *)
(* read has those of the words received, then all of them in the frame.    *)
Before == [x \in Mem |-> Old(x)]
Offset == t.addr % BUSW
WrittenTo(c) == [x \in Mem |-> IF x \in Asked /\ x \div BUSW < (t.addr \div BUSW) + c
                               THEN New(x) ELSE Old(x)]

(* How axi4_m_w and its slave are together: the word that is offered is    *)
(* the one the slave takes next, unless it has taken all of them.  The     *)
(* count is ahead by the word on offer when wready is always 1.            *)
Handshake ==
  /\ pc = "m_beat" =>
       /\ taken = (IF offer = NoOffer THEN 0 ELSE offer)
       /\ IF t.slave = "lazy" THEN cnt = 0 /\ offer \in {NoOffer, 0} ELSE cnt = offer + 1
  /\ pc = "m_response" =>
       IF t.slave = "lazy" THEN taken = ax.len + 1
       ELSE \/ offer = taken /\ taken = ax.len
            \/ offer = NoOffer /\ taken = ax.len + 1

WriteBytes ==
  /\ pc \in {"begin", "qemu_req"} => mem = Before /\ taken = 0
  /\ pc = "qemu_req" => \A k \in 0..(t.size - 1) : frame.data[k] = New(t.addr + k)
  /\ pc \in {"m_beat", "m_response"} =>
       /\ ax.strb = {Offset + i : i \in 0..(t.size - 1)}
       /\ \A k \in 0..(t.size - 1) : buf[Offset + k] = New(t.addr + k)
       /\ mem = WrittenTo(taken) /\ Handshake
  /\ pc = "done" => mem = Written
ReadBytes ==
  /\ mem = Before
  /\ pc = "m_beat" => \A k \in 0..(t.size - 1) :
                        (Offset + k) \div BUSW < cnt => buf[Offset + k] = Old(t.addr + k)
  /\ pc = "qemu_resp" => \A k \in 0..(t.size - 1) : frame.data[k] = Old(t.addr + k)
  /\ pc = "done" => \A x \in Asked : got[x] = Old(x)
AccessBytes == (t.op = "M_WR" => WriteBytes) /\ (t.op = "M_RD" => ReadBytes)

(* Accesses wider than the bus are made to eager slaves.  There are none   *)
(* when the bus has eight bytes or more; those of the platforms have 64    *)
(* and 32.                                                                 *)
EagerIfWide == WideKinds \subseteq {"eager"} \/ BUSW >= 8

AccessInv == Given /\ (Access => TypeInv /\ AccessBytes)

(* The bytes an access names are in the buffer from its offset on, and in  *)
(* the words its beats are for.                                            *)
LEMMA AskedIs ==
  ASSUME t \in Accesses
  PROVE  /\ Asked = t.addr..(t.addr + t.size - 1)
         /\ t.addr \in Nat /\ t.size \in Nat \ {0} /\ Offset \in Nat
         /\ \A k \in 0..(t.size - 1) :
              /\ k \in Buf /\ Offset + k \in Buf /\ t.addr + k \in Mem
              /\ (Offset + k) \div BUSW < axi_len(t.size) + 1
         /\ \A x \in Asked : /\ x \in Mem /\ x - t.addr \in 0..(t.size - 1)
                             /\ x \div BUSW >= t.addr \div BUSW
                             /\ x \div BUSW < (t.addr \div BUSW) + axi_len(t.size) + 1
<1> DEFINE o == Offset
           q == t.addr \div BUSW
           n == axi_len(t.size)
<1>1. Asked = t.addr..(t.addr + t.size - 1)
  BY AccessIs DEF Asked
<1>2. t.addr \in Nat /\ t.size \in Nat \ {0} /\ t.addr + t.size <= BUFF_SIZE
  <2>1. t.addr \in Page /\ t.size \in {1, 2, 4, 8} /\ t.addr + t.size <= BUFF_SIZE
    BY AccessIs
  <2> QED
    BY <2>1 DEF Page
<1>3. /\ o \in Nat /\ q \in Nat /\ n \in Nat /\ t.addr = BUSW * q + o
      /\ o + t.size <= (n + 1) * BUSW
  <2>1. /\ o \in 0..(BUSW - 1) /\ q \in Nat /\ n \in Nat /\ t.addr = BUSW * q + o
        /\ o + t.size <= (n + 1) * BUSW
    BY AccessWords DEF Offset
  <2> QED
    BY <2>1, Numbers
<1> HIDE DEF o, q, n
<1>4. BUSW * q \in Nat /\ o <= t.addr
  BY <1>2, <1>3, Numbers
<1>5. ASSUME NEW k \in 0..(t.size - 1)
      PROVE  /\ k \in Buf /\ o + k \in Buf /\ t.addr + k \in Mem
             /\ (o + k) \div BUSW < n + 1
  <2>1. k \in Buf /\ o + k \in Buf /\ t.addr + k \in Mem
    BY <1>2, <1>3, <1>4, Numbers DEF Buf, Mem
  <2>2. o + k \in Nat /\ o + k < (n + 1) * BUSW
    <3>1. (n + 1) * BUSW \in Nat
      BY <1>3, Numbers
    <3> QED
      BY <1>2, <1>3, <3>1
  <2>3. (o + k) \div BUSW < n + 1
    <3> DEFINE e == n + 1
    <3>1. o + k < e * BUSW /\ e \in Nat
      BY <1>3, <2>2
    <3> HIDE DEF e
    <3>2. (o + k) \div BUSW < e
      BY <2>2, <3>1, WordBefore, Numbers
    <3> QED
      BY <3>2 DEF e
  <2> QED
    BY <2>1, <2>3
<1>6. ASSUME NEW x \in Asked
      PROVE  /\ x \in Mem /\ x - t.addr \in 0..(t.size - 1)
             /\ x \div BUSW >= q /\ x \div BUSW < q + n + 1
  <2>1. /\ x \in Nat /\ x >= t.addr /\ x < t.addr + t.size /\ x \in Mem
        /\ x - t.addr \in 0..(t.size - 1)
    BY <1>1, <1>2, Numbers DEF Mem
  <2>2. x < (q + n + 1) * BUSW
    <3>1. (q + n + 1) * BUSW = BUSW * q + (n + 1) * BUSW /\ (n + 1) * BUSW \in Nat
      BY <1>3, Numbers
    <3>2. x < t.addr + t.size /\ t.addr + t.size <= BUSW * q + (n + 1) * BUSW
      BY <1>2, <1>3, <1>4, <2>1, <3>1
    <3>3. t.addr + t.size \in Nat
      BY <1>2
    <3> DEFINE z == (q + n + 1) * BUSW
               w == BUSW * q + (n + 1) * BUSW
               e == t.addr + t.size
    <3>4. x < e /\ e <= w /\ z = w /\ e \in Nat /\ w \in Nat
      BY <1>4, <3>1, <3>2, <3>3
    <3> HIDE DEF z, w, e
    <3>5. x < z
      BY <2>1, <3>4
    <3> QED
      BY <3>5 DEF z
  <2>3. x \div BUSW < q + n + 1
    <3> DEFINE e == q + n + 1
    <3>1. e \in Nat /\ x < e * BUSW
      BY <1>3, <2>2
    <3> HIDE DEF e
    <3>2. x \div BUSW < e
      BY <2>1, <3>1, WordBefore, Numbers
    <3> QED
      BY <3>2 DEF e
  <2>4. x >= q * BUSW
    BY <1>3, <1>4, <2>1, Numbers
  <2> QED
    BY <1>3, <2>1, <2>3, <2>4, WordFrom, Numbers
<1> QED
  BY <1>1, <1>2, <1>3, <1>5, <1>6 DEF o, q, n

(* The frame of a write, and where C_poll copies it. *)
LEMMA AccessBegins ==
  ASSUME AccessInv, Access, mmio_bar \/ C_poll_req \/ mmio_read_bar
  PROVE  AccessBytes'
<1>1. TypeOK /\ Stage /\ AccessBytes /\ t \in Accesses
  BY Kinds DEF AccessInv, TypeInv
<1>2. t.op \in {"M_WR", "M_RD"}
  BY DEF Access
<1>3. CASE mmio_bar
  <2>1. /\ t' = t /\ mem' = mem /\ taken' = taken /\ pc = "begin" /\ pc' = "qemu_req"
        /\ frame'.data = [k \in Buf |-> IF t.op = "M_WR" /\ k < t.size
                                        THEN New(t.addr + k) ELSE ZeroByte]
    BY <1>3 DEF mmio_bar
  <2>2. mem = Before /\ (t.op = "M_WR" => taken = 0)
    BY <1>1, <1>2, <2>1 DEF AccessBytes, WriteBytes, ReadBytes
  <2>3. ASSUME t.op = "M_WR", NEW k \in 0..(t.size - 1) PROVE frame'.data[k] = New(t.addr + k)
    <3>1. k \in Buf /\ k < t.size
      BY <1>1, AskedIs
    <3> QED
      BY <2>1, <2>3, <3>1
  <2> QED
    BY <2>1, <2>2, <2>3 DEF AccessBytes, WriteBytes, ReadBytes, Before
<1>4. CASE C_poll_req
  <2>1. /\ t' = t /\ mem' = mem /\ pc = "qemu_req" /\ pc' = "m_beat" /\ cnt' = 0
        /\ frame.size = t.size /\ offer = NoOffer /\ UNCHANGED <<offer, taken>>
    BY <1>1, <1>4 DEF C_poll_req, Stage
  <2>2. mem = Before /\ (t.op = "M_WR" => taken = 0)
    BY <1>1, <1>2, <2>1 DEF AccessBytes, WriteBytes, ReadBytes
  <2>3. ASSUME t.op = "M_WR" PROVE WriteBytes'
    <3>1. /\ ax'.strb = {Offset + i : i \in 0..(t.size - 1)}
          /\ buf' = [i \in Buf |-> IF i >= Offset THEN frame.data[i - Offset] ELSE buf[i]]
      BY <1>4, <2>1, <2>3 DEF C_poll_req, align_offset, Offset
    <3>2. ASSUME NEW k \in 0..(t.size - 1) PROVE buf'[Offset + k] = New(t.addr + k)
      <4>1. Offset + k \in Buf /\ Offset + k >= Offset /\ (Offset + k) - Offset = k
        BY <1>1, AskedIs
      <4>2. frame.data[k] = New(t.addr + k)
        BY <1>1, <2>1, <2>3 DEF AccessBytes, WriteBytes
      <4> QED
        BY <3>1, <4>1, <4>2
    <3>3. Before = WrittenTo(0)
      <4>1. ASSUME NEW x \in Mem PROVE ~ (x \in Asked /\ x \div BUSW < (t.addr \div BUSW) + 0)
        <5>1. x \in Nat /\ x \div BUSW \in Nat /\ t.addr \div BUSW \in Nat
          BY <1>1, AskedIs, Numbers, Division
        <5>2. x \in Asked => x \div BUSW >= t.addr \div BUSW
          BY <1>1, AskedIs
        <5> QED
          BY <5>1, <5>2
      <4> QED
        BY <4>1 DEF Before, WrittenTo
    <3>4. Handshake'
      BY <2>1, <2>2, <2>3 DEF Handshake, NoOffer
    <3> QED
      BY <2>1, <2>2, <2>3, <3>1, <3>2, <3>3, <3>4 DEF WriteBytes, WrittenTo, Offset, Asked
  <2>4. ASSUME t.op = "M_RD" PROVE ReadBytes'
    <3>1. ASSUME NEW k \in 0..(t.size - 1) PROVE ~ ((Offset + k) \div BUSW < 0)
      <4>1. Offset + k \in Nat
        BY <1>1, AskedIs
      <4>2. (Offset + k) \div BUSW \in Nat
        BY <4>1, Numbers, Division
      <4> QED
        BY <4>2
    <3> QED
      BY <2>1, <2>2, <3>1 DEF ReadBytes, Before, Offset
  <2> QED
    BY <2>1, <2>3, <2>4 DEF AccessBytes
<1>5. CASE mmio_read_bar
  <2>1. /\ t' = t /\ mem' = mem /\ pc = "qemu_resp" /\ pc' = "done"
        /\ got' = [x \in Mem |-> IF x \in t.addr..(t.addr + t.size - 1)
                                 THEN frame.data[x - t.addr] ELSE got[x]]
    BY <1>5 DEF mmio_read_bar
  <2>2. t.op = "M_RD" /\ ReadBytes
    BY <1>1, <2>1 DEF Stage, AccessBytes
  <2>3. ASSUME NEW x \in Asked PROVE got'[x] = Old(x)
    <3>1. /\ x \in Mem /\ x - t.addr \in 0..(t.size - 1) /\ x \in t.addr..(t.addr + t.size - 1)
          /\ t.addr + (x - t.addr) = x
      BY <1>1, AskedIs, Numbers
    <3>2. frame.data[x - t.addr] = Old(t.addr + (x - t.addr))
      BY <2>1, <2>2, <3>1 DEF ReadBytes
    <3> QED
      BY <2>1, <3>1, <3>2
  <2> QED
    BY <2>1, <2>2, <2>3 DEF AccessBytes, ReadBytes, Before, Asked
<1> QED
  BY <1>3, <1>4, <1>5

(* No slave that is accessed wider than the bus is lazy or stepping. *)
LEMMA WideIsEager ==
  ASSUME EagerIfWide, t \in Accesses, t.slave # "eager"
  PROVE  t.size <= BUSW /\ axi_len(t.size) = 0
<1>1. t.size \in {1, 2, 4, 8} /\ (t.size > BUSW => t.slave \in WideKinds)
  BY AccessIs
<1>2. ~ (t.size > BUSW)
  BY <1>1, Numbers DEF EagerIfWide
<1>3. t.size <= BUSW
  BY <1>1, <1>2, Numbers
<1> QED
  BY <1>1, <1>3, AccessShape

(* So every beat is where it should be. *)
LEMMA NoSlip ==
  ASSUME EagerIfWide, TypeOK, t \in Accesses, ax.len = axi_len(t.size),
         NEW n \in Nat, n <= ax.len
  PROVE  Slip(n) = 0
<1>1. CASE t.slave = "stepping"
  <2>1. n = 0
    BY <1>1, WideIsEager
  <2>2. 2 ^ ax.size - BUSW \in Int
    <3>1. ax.size \in Nat
      BY DEF TypeOK
    <3>2. 2 ^ ax.size \in Int
      BY <3>1
    <3> QED
      BY <3>2, Numbers
  <2> QED
    BY <2>1, <2>2 DEF Slip
<1>2. CASE t.slave # "stepping"
  BY <1>2 DEF Slip
<1> QED
  BY <1>1, <1>2

(* A word the slave takes in its turn reaches the bytes the access names   *)
(* in it.                                                                  *)
LEMMA WordTaken ==
  ASSUME EagerIfWide, TypeOK, t \in Accesses, ax.len = axi_len(t.size),
         ax.strb = {Offset + i : i \in 0..(t.size - 1)},
         \A k \in 0..(t.size - 1) : buf[Offset + k] = New(t.addr + k),
         mem = WrittenTo(taken), offer # NoOffer, offer = taken, taken <= ax.len,
         SlaveEdge(1)
  PROVE  mem' = WrittenTo(taken + 1) /\ taken' = taken + 1
<1> DEFINE n == axi_len(t.size)
           q == t.addr \div BUSW
           wstrb == IF taken = n THEN ax.strb \cap Lanes ELSE Lanes
<1>1. taken \in Nat /\ n \in Nat /\ taken \in 0..n /\ q \in Nat /\ t.addr \in Nat
  <2>1. taken \in Nat
    BY DEF TypeOK
  <2>2. n \in Nat /\ q \in Nat /\ t.addr \in Nat
    BY AccessWords, AskedIs
  <2> QED
    BY <2>1, <2>2
<1>2. (t.addr + Slip(taken)) \div BUSW + taken = q + taken
  <2>1. Slip(taken) = 0
    BY <1>1, NoSlip
  <2>2. t.addr + 0 = t.addr
    BY <1>1
  <2> QED
    BY <2>1, <2>2
<1>3. /\ taken' = taken + 1
      /\ mem' = [x \in Mem |-> IF x \div BUSW = q + taken /\ x % BUSW \in wstrb
                               THEN buf[BUSW * taken + (x % BUSW)] ELSE mem[x]]
  BY <1>2 DEF SlaveEdge
<1>4. ASSUME NEW x \in Mem, x \div BUSW = q + taken
      PROVE  /\ x % BUSW \in wstrb <=> x \in Asked
             /\ x \in Asked => buf[BUSW * taken + (x % BUSW)] = New(x)
  <2>1. x \in Nat
    BY Numbers
  <2>2. x % BUSW \in wstrb <=> x \in t.addr..(t.addr + t.size - 1)
    BY <1>1, <1>4, <2>1, WriteLanes DEF Offset
  <2>3. BUSW * taken + (x % BUSW) = Offset + (x - t.addr)
    BY <1>1, <1>4, <2>1, PlaceInBuffer DEF Offset
  <2>4. x \in Asked => x - t.addr \in 0..(t.size - 1)
    BY AskedIs
  <2>5. t.addr + (x - t.addr) = x
    BY <1>1, <2>1
  <2>6. Asked = t.addr..(t.addr + t.size - 1)
    BY AskedIs
  <2> QED
    BY <2>2, <2>3, <2>4, <2>5, <2>6
<1> HIDE DEF n, q, wstrb
<1>5. ASSUME NEW x \in Mem
      PROVE  mem'[x] = IF x \in Asked /\ x \div BUSW < q + (taken + 1) THEN New(x) ELSE Old(x)
  <2>1. x \div BUSW \in Nat
    BY Numbers, Division
  <2>2. mem[x] = IF x \in Asked /\ x \div BUSW < q + taken THEN New(x) ELSE Old(x)
    BY DEF WrittenTo, q
  <2>3. CASE x \div BUSW = q + taken
    <3>1. x \div BUSW < q + (taken + 1) /\ ~ (x \div BUSW < q + taken)
      BY <1>1, <2>1, <2>3
    <3> QED
      BY <1>3, <1>4, <2>2, <2>3, <3>1
  <2>4. CASE x \div BUSW # q + taken
    <3>1. x \div BUSW < q + (taken + 1) <=> x \div BUSW < q + taken
      BY <1>1, <2>1, <2>4
    <3> QED
      BY <1>3, <2>2, <2>4, <3>1
  <2> QED
    BY <2>3, <2>4
<1>6. mem' = [x \in Mem |-> mem'[x]]
  BY <1>3
<1>7. mem' = WrittenTo(taken + 1)
  BY <1>5, <1>6, Zenon DEF WrittenTo, q
<1> QED
  BY <1>3, <1>7

(* When the last word is written, so is everything. *)
LEMMA AllWritten ==
  ASSUME t \in Accesses
  PROVE  WrittenTo(axi_len(t.size) + 1) = Written
<1> DEFINE n == axi_len(t.size)
           q == t.addr \div BUSW
<1>1. n \in Nat /\ q \in Nat
  BY AccessWords
<1>2. ASSUME NEW x \in Asked PROVE x \div BUSW < q + (n + 1)
  <2>1. x \div BUSW < q + n + 1
    BY AskedIs
  <2> HIDE DEF n, q
  <2> QED
    BY <1>1, <2>1
<1> HIDE DEF n
<1>3. WrittenTo(n + 1) = Written
  BY <1>2 DEF WrittenTo, Written
<1> QED
  BY <1>3 DEF n

(* Whatever the edge, the slave has the words it took at their places, and *)
(* is offered the one that is next.                                        *)
LEMMA WriteEdge ==
  ASSUME EagerIfWide, AccessInv, Access, MasterWriteData \/ MasterWriteResponse
  PROVE  AccessBytes'
<1>1. TypeOK /\ Stage /\ AccessBytes /\ t \in Accesses
  BY Kinds DEF AccessInv, TypeInv
<1>2. /\ t.op = "M_WR" /\ pc \in {"m_beat", "m_response"} /\ ax.len = axi_len(t.size)
      /\ (pc = "m_beat" => cnt <= ax.len) /\ WriteBytes
  BY <1>1 DEF MasterWriteData, MasterWriteResponse, Stage, AccessBytes
<1>3. /\ ax.strb = {Offset + i : i \in 0..(t.size - 1)} /\ mem = WrittenTo(taken)
      /\ \A k \in 0..(t.size - 1) : buf[Offset + k] = New(t.addr + k)
      /\ Handshake
  BY <1>2 DEF WriteBytes
<1>4. /\ ax.len \in Nat /\ cnt \in Nat /\ taken \in Nat
      /\ offer \in Int /\ (offer # NoOffer => offer \in Nat) /\ NoOffer = -1
  BY <1>1, Numbers DEF TypeOK, NoOffer
<1>5. UNCHANGED <<t, ax, buf>>
  BY DEF MasterWriteData, MasterWriteResponse
<1>6. t.slave = "lazy" => ax.len = 0
  BY <1>1, <1>2, WideIsEager
<1>7. ASSUME NEW r \in {0, 1}, SlaveEdge(r)
      PROVE  /\ offer # NoOffer /\ r = 1 /\ offer = taken /\ taken <= ax.len
                  => mem' = WrittenTo(taken + 1) /\ taken' = taken + 1
             /\ offer = NoOffer \/ r = 0 => mem' = mem /\ taken' = taken
             /\ t.slave = "lazy" /\ r = 1 => offer # NoOffer /\ taken <= ax.len
             /\ t.slave # "lazy" => r = 1
  <2>1. ASSUME offer # NoOffer, r = 1, offer = taken, taken <= ax.len
        PROVE  mem' = WrittenTo(taken + 1) /\ taken' = taken + 1
    <3>1. SlaveEdge(1)
      BY <1>7, <2>1
    <3> QED
      BY <1>1, <1>2, <1>3, <2>1, <3>1, WordTaken
  <2>2. offer = NoOffer \/ r = 0 => mem' = mem /\ taken' = taken
    BY <1>7 DEF SlaveEdge
  <2>3. /\ t.slave = "lazy" /\ r = 1 => offer # NoOffer /\ taken <= ax.len
        /\ t.slave # "lazy" => r = 1
    BY <1>7 DEF SlaveEdge
  <2> QED
    BY <2>1, <2>2, <2>3
<1>8. CASE MasterWriteData
  <2>1. PICK r \in {0, 1} :
          /\ SlaveEdge(r)
          /\ pc' = IF r = 1 /\ cnt = ax.len THEN "m_response" ELSE pc
          /\ cnt' = IF r = 1 /\ cnt # ax.len THEN cnt + 1 ELSE cnt
    BY <1>8 DEF MasterWriteData
  <2>2. /\ pc = "m_beat" /\ offer' = cnt /\ cnt <= ax.len
        /\ taken = (IF offer = NoOffer THEN 0 ELSE offer)
        /\ IF t.slave = "lazy" THEN cnt = 0 /\ offer \in {NoOffer, 0} ELSE cnt = offer + 1
    BY <1>2, <1>3, <1>8 DEF MasterWriteData, Handshake
  <2>3. mem' = WrittenTo(taken') /\ taken' \in Nat
        /\ taken' = IF offer # NoOffer /\ r = 1 THEN taken + 1 ELSE taken
    <3>1. CASE offer # NoOffer /\ r = 1
      <4>1. offer = taken /\ taken <= ax.len
        BY <1>4, <2>2, <3>1
      <4>2. mem' = WrittenTo(taken + 1) /\ taken' = taken + 1
        BY <1>7, <2>1, <3>1, <4>1
      <4> QED
        BY <1>4, <3>1, <4>2
    <3>2. CASE ~ (offer # NoOffer /\ r = 1)
      <4>1. mem' = mem /\ taken' = taken
        BY <1>7, <2>1, <3>2
      <4> QED
        BY <1>3, <1>4, <3>2, <4>1
    <3> QED
      BY <3>1, <3>2
  <2>4. Handshake'
    <3>1. /\ t.slave = "lazy" /\ r = 1 => offer # NoOffer
          /\ t.slave # "lazy" => r = 1
      BY <1>7, <2>1
    <3>2. offer' # NoOffer
      BY <1>4, <2>2 DEF NoOffer
    <3>3. CASE t.slave = "lazy"
      <4>1. cnt = 0 /\ ax.len = 0 /\ taken = 0 /\ cnt' = 0 /\ offer' = 0
        BY <1>4, <1>6, <2>1, <2>2, <3>3
      <4>2. IF r = 1 THEN pc' = "m_response" /\ taken' = 1 ELSE pc' = "m_beat" /\ taken' = 0
        BY <2>1, <2>2, <2>3, <3>1, <3>3, <4>1
      <4> QED
        BY <1>5, <3>2, <3>3, <4>1, <4>2 DEF Handshake, NoOffer
    <3>4. CASE t.slave # "lazy"
      <4>1. r = 1 /\ cnt = offer + 1 /\ offer' = cnt
        BY <2>2, <3>1, <3>4
      <4>2. taken' = cnt
        BY <1>4, <2>2, <2>3, <4>1
      <4>3. IF cnt = ax.len THEN pc' = "m_response" ELSE pc' = "m_beat" /\ cnt' = cnt + 1
        BY <2>1, <2>2, <4>1
      <4> QED
        BY <1>5, <3>2, <3>4, <4>1, <4>2, <4>3 DEF Handshake
    <3> QED
      BY <3>3, <3>4
  <2>5. pc' \in {"m_beat", "m_response"}
    BY <2>1, <2>2
  <2>6. WriteBytes'
    <3>1. mem' = WrittenTo(taken)'
      BY <1>5, <2>3 DEF WrittenTo, Asked
    <3> QED
      BY <1>3, <1>5, <2>4, <2>5, <3>1 DEF WriteBytes, Offset
  <2> QED
    BY <1>2, <1>5, <2>6 DEF AccessBytes
<1>9. CASE MasterWriteResponse
  <2>1. PICK r \in {0, 1} : SlaveEdge(r)
    BY <1>9 DEF MasterWriteResponse
  <2>2. /\ pc = "m_response" /\ offer' = NoOffer /\ pc' \in {"m_response", "done"}
        /\ pc' = "done" => taken = ax.len + 1
    BY <1>9 DEF MasterWriteResponse
  <2>3. mem' = WrittenTo(ax.len + 1) /\ taken' = ax.len + 1
    <3>1. CASE taken = ax.len + 1
      <4>1. r = 0 \/ offer = NoOffer
        BY <1>3, <1>4, <1>7, <2>1, <2>2, <3>1 DEF Handshake
      <4> QED
        BY <1>3, <1>7, <2>1, <3>1, <4>1
    <3>2. CASE taken # ax.len + 1
      <4>1. offer = taken /\ taken = ax.len /\ t.slave # "lazy"
        BY <1>3, <2>2, <3>2 DEF Handshake
      <4>2. r = 1 /\ offer # NoOffer /\ taken <= ax.len
        BY <1>4, <1>7, <2>1, <4>1
      <4> QED
        BY <1>7, <2>1, <4>1, <4>2
    <3> QED
      BY <3>1, <3>2
  <2>4. CASE pc' = "m_response"
    <3>1. mem' = WrittenTo(taken)'
      BY <1>5, <2>3 DEF WrittenTo, Asked
    <3>2. Handshake'
      BY <1>5, <2>2, <2>3, <2>4 DEF Handshake
    <3> QED
      BY <1>2, <1>3, <1>5, <2>4, <3>1, <3>2 DEF AccessBytes, WriteBytes, Offset
  <2>5. CASE pc' = "done"
    <3>1. mem' = Written
      BY <1>1, <1>2, <2>3, AllWritten
    <3>2. Written' = Written
      BY <1>5 DEF Written, Asked
    <3> QED
      BY <1>2, <1>5, <2>5, <3>1, <3>2 DEF AccessBytes, WriteBytes
  <2> QED
    BY <2>2, <2>4, <2>5
<1> QED
  BY <1>8, <1>9

(* Every beat of a read brings the bytes the access names in its word. *)
LEMMA ReadBeat ==
  ASSUME EagerIfWide, AccessInv, Access, MasterReadBeat
  PROVE  AccessBytes'
<1>1. TypeOK /\ Stage /\ AccessBytes /\ t \in Accesses
  BY Kinds DEF AccessInv, TypeInv
<1>2. pc = "m_beat" /\ t.op = "M_RD"
  BY DEF MasterReadBeat
<1> DEFINE n == axi_len(t.size)
           q == t.addr \div BUSW
           o == Offset
           rdata == Beat(t.addr, ax.size, cnt, Found)
<1>3. /\ ax.len = n /\ ax.size = log2c(t.size) /\ cnt <= n /\ ReadBytes
  BY <1>1, <1>2 DEF Stage, AccessBytes
<1>4. /\ cnt \in Nat /\ n \in Nat /\ cnt \in 0..n /\ q \in Nat /\ o \in 0..(BUSW - 1)
      /\ t.addr = BUSW * q + o /\ t.addr \in Nat /\ t.size \in Nat \ {0}
  <2>1. cnt \in Nat
    BY <1>1, Numbers DEF TypeOK
  <2>2. n \in Nat /\ q \in Nat /\ o \in 0..(BUSW - 1) /\ t.addr = BUSW * q + o
    BY <1>1, AccessWords DEF Offset
  <2> QED
    BY <1>1, <1>3, <2>1, <2>2, AskedIs
<1>5. /\ t' = t /\ cnt' = cnt + 1 /\ mem' = mem
      /\ buf' = [i \in Buf |-> IF i \div BUSW = cnt THEN rdata[i % BUSW] ELSE buf[i]]
      /\ cnt # n => pc' = "m_beat"
      /\ cnt = n => /\ pc' = "qemu_resp"
                    /\ frame'.data = [k \in Buf |-> IF k + o \in Buf THEN buf'[k + o] ELSE Junk]
  <2>1. frame \in [size : Nat, vector : {NoVector} \cup 0..31, data : [Buf -> Byte]]
    BY <1>1 DEF TypeOK
  <2> QED
    BY <1>2, <1>3, <2>1 DEF MasterReadBeat, align_offset, Offset
<1>6. ASSUME NEW k \in 0..(t.size - 1), (o + k) \div BUSW = cnt
      PROVE  rdata[(o + k) % BUSW] = Old(t.addr + k)
  <2> DEFINE b == BeatSize(t.size)
             m == cnt * b
             x == t.addr + k
             j == (o + k) % BUSW
             B == BeatBytes(t.addr, ax.size, cnt)
             P(y) == y % BUSW = j
  <2>1. /\ B = (t.addr + m) .. (t.addr + m + b - 1)
        /\ m \in Nat /\ b \in Nat \ {0} /\ m + b <= t.size
    BY <1>1, <1>3, <1>4, AccessBeats
  <2>2. b <= BUSW /\ (t.size <= BUSW => m = 0 /\ b = t.size)
        /\ (t.size > BUSW => m = BUSW * cnt /\ b = BUSW /\ o = 0)
    <3>1. (t.size <= BUSW => n = 0) /\ (t.size > BUSW => o = 0)
      BY <1>1, AccessWords DEF Offset
    <3>2. t.size <= BUSW => cnt = 0 /\ b = t.size
      BY <1>4, <3>1, Numbers DEF BeatSize
    <3>3. t.size > BUSW => b = BUSW
      BY DEF BeatSize
    <3>4. b <= BUSW
      BY <1>4, <3>2, <3>3, Numbers
    <3>5. t.size <= BUSW => m = 0
      BY <2>1, <3>2
    <3>6. t.size > BUSW => m = BUSW * cnt
      BY <1>4, <3>3, Numbers
    <3> QED
      BY <3>1, <3>2, <3>3, <3>4, <3>5, <3>6
  <2>3. j \in 0..(BUSW - 1) /\ j \in Lanes /\ o + k = BUSW * cnt + j /\ k \in Nat
    <3>1. o + k \in Nat /\ k \in Nat
      BY <1>4
    <3>2. j \in 0..(BUSW - 1) /\ o + k = BUSW * ((o + k) \div BUSW) + j
      BY <3>1, Numbers, Division
    <3> QED
      BY <1>6, <3>1, <3>2 DEF Lanes
  <2> HIDE DEF b, m, j
  <2>4. x % BUSW = j
    <3>1. x = BUSW * (q + cnt) + j /\ x \in Nat /\ q + cnt \in Nat
      <4>1. BUSW * (q + cnt) = BUSW * q + BUSW * cnt /\ BUSW * q \in Nat /\ BUSW * cnt \in Nat
        BY <1>4, Numbers
      <4> QED
        BY <1>4, <2>3, <4>1
    <3> HIDE DEF x
    <3> QED
      BY <2>3, <3>1, Numbers, Quotient
  <2>5. x \in B
    <3>1. CASE t.size <= BUSW
      <4>1. m = 0 /\ b = t.size
        BY <2>2, <3>1
      <4>2. t.addr + k \in (t.addr + m) .. (t.addr + m + b - 1)
        BY <1>4, <4>1
      <4> QED
        BY <2>1, <4>2
    <3>2. CASE t.size > BUSW
      <4>1. k = m + j
        BY <2>2, <2>3, <3>2
      <4>2. j \in Nat /\ j <= b - 1
        BY <2>2, <2>3, <3>2, Numbers
      <4>3. t.addr + k \in (t.addr + m) .. (t.addr + m + b - 1)
        <5> DEFINE a == t.addr
        <5>1. a \in Nat /\ m \in Nat /\ b \in Nat
          BY <1>4, <2>1
        <5> HIDE DEF a
        <5>2. a + k \in (a + m) .. (a + m + b - 1)
          BY <4>1, <4>2, <5>1
        <5> QED
          BY <5>2 DEF a
      <4> QED
        BY <2>1, <4>3
    <3> QED
      BY <1>4, <3>1, <3>2, Numbers
  <2>6. x \in Mem
    BY <1>1, AskedIs
  <2> HIDE DEF x
  <2>7. ASSUME NEW y \in B, P(y) PROVE y = x
    <3>1. y \in Nat /\ x \in Nat /\ y - x < BUSW /\ x - y < BUSW
      <4>1. /\ y \in (t.addr + m) .. (t.addr + m + b - 1)
            /\ x \in (t.addr + m) .. (t.addr + m + b - 1)
        BY <2>1, <2>5
      <4>2. t.addr + m \in Nat /\ b \in Nat /\ b <= BUSW /\ BUSW \in Nat
        <5>1. t.addr \in Nat /\ m \in Nat /\ b \in Nat /\ BUSW \in Nat
          BY <1>4, <2>1, Numbers, Zenon
        <5>2. b <= BUSW
          BY <2>2, Zenon
        <5> QED
          BY <5>1, <5>2
      <4> QED
        BY <4>1, <4>2
    <3> QED
      BY <2>4, <2>7, <3>1, SameLane
  <2> HIDE DEF B
  <2>8. (CHOOSE y \in B : P(y)) = x
    <3> DEFINE c == CHOOSE y \in B : P(y)
    <3>1. \E y \in B : P(y)
      BY <2>4, <2>5
    <3>2. c \in B /\ P(c)
      BY <3>1, Zenon
    <3> HIDE DEF c, P
    <3>3. c = x
      BY <2>7, <3>2
    <3> QED
      BY <3>3 DEF c
  <2>9. rdata[j] = Found(CHOOSE y \in B : P(y))
    BY <2>3, <2>4, <2>5 DEF Beat, B
  <2>10. Found(x) = Old(x)
    <3>1. Slip(cnt) = 0
      BY <1>1, <1>3, <1>4, NoSlip
    <3>2. x + 0 = x
      BY <2>6, Numbers
    <3>3. Found(x) = mem[x]
      BY <2>6, <3>1, <3>2 DEF Found
    <3>4. mem[x] = Old(x)
      BY <1>3, <2>6 DEF ReadBytes, Before
    <3> QED
      BY <3>3, <3>4
  <2>11. rdata[j] = Old(x)
    BY <2>8, <2>9, <2>10
  <2> QED
    BY <2>11 DEF j, x
<1> HIDE DEF rdata, n, q, o
<1>7. ASSUME NEW k \in 0..(t.size - 1), (o + k) \div BUSW < cnt + 1
      PROVE  buf'[o + k] = Old(t.addr + k)
  <2>1. o + k \in Buf /\ (o + k) \div BUSW \in Nat
    <3>1. o + k \in Buf
      BY <1>1, AskedIs DEF o
    <3>2. o + k \in Nat
      BY <1>4
    <3> QED
      BY <3>1, <3>2, Numbers, Division
  <2>2. CASE (o + k) \div BUSW = cnt
    BY <1>5, <1>6, <2>1, <2>2
  <2>3. CASE (o + k) \div BUSW < cnt
    <3>1. buf[o + k] = Old(t.addr + k)
      BY <1>2, <1>3, <2>3 DEF ReadBytes, o
    <3>2. (o + k) \div BUSW # cnt
      BY <1>4, <2>1, <2>3
    <3> QED
      BY <1>5, <2>1, <3>1, <3>2
  <2> QED
    BY <1>4, <1>7, <2>1, <2>2, <2>3
<1>8. ASSUME cnt = n, NEW k \in 0..(t.size - 1) PROVE frame'.data[k] = Old(t.addr + k)
  <2>1. k \in Buf /\ o + k \in Buf /\ (o + k) \div BUSW < n + 1
    BY <1>1, AskedIs DEF o, n
  <2>2. k + o = o + k
    BY <1>4
  <2>3. frame'.data[k] = buf'[o + k]
    BY <1>5, <1>8, <2>1, <2>2
  <2> QED
    BY <1>7, <1>8, <2>1, <2>3
<1>9. ReadBytes'
  <2>1. mem' = Before
    BY <1>3, <1>5 DEF ReadBytes
  <2>2. CASE cnt = n
    BY <1>5, <1>8, <2>1, <2>2 DEF ReadBytes, Before
  <2>3. CASE cnt # n
    BY <1>5, <1>7, <2>1, <2>3 DEF ReadBytes, Before, Offset, o
  <2> QED
    BY <2>2, <2>3
<1> QED
  BY <1>2, <1>5, <1>9 DEF AccessBytes

(* Only the steps of an access are taken for one. *)
LEMMA AccessOnly ==
  ASSUME TypeInv, Access, Next
  PROVE  \/ mmio_bar \/ C_poll_req \/ MasterWriteData \/ MasterWriteResponse
         \/ MasterReadBeat \/ mmio_read_bar
<1>1. Stage /\ t.op \in {"M_WR", "M_RD"}
  BY DEF TypeInv, Access
<1>2. ~ C_req_read /\ ~ C_req_interrupt /\ ~ handle_hdl_request
  BY <1>1 DEF C_req_read, C_req_interrupt, handle_hdl_request
<1>3. ~ SlaveWriteBeat /\ ~ C_poll_resp /\ ~ SlaveReadBeat
  BY <1>1 DEF SlaveWriteBeat, C_poll_resp, SlaveReadBeat, Stage
<1> QED
  BY <1>2, <1>3 DEF Next

(* Every step keeps what has been done of an access. *)
LEMMA AccessStep == EagerIfWide /\ AccessInv /\ [Next]_vars => AccessInv'
<1> SUFFICES ASSUME EagerIfWide, AccessInv, [Next]_vars PROVE AccessInv'
  OBVIOUS
<1>1. t' = t
  BY DEF Next, vars, mmio_bar, C_poll_req, MasterWriteData, MasterWriteResponse, MasterReadBeat, mmio_read_bar,
         C_req_read, SlaveWriteBeat, C_req_interrupt, handle_hdl_request, C_poll_resp,
         SlaveReadBeat
<1>2. Given'
  BY <1>1 DEF AccessInv, Given, Shape
<1>3. ASSUME Access PROVE TypeOK' /\ Stage' /\ AccessBytes'
  <2>1. TypeInv /\ AccessBytes
    BY <1>3 DEF AccessInv
  <2>2. CASE Next
    <3>1. \/ mmio_bar \/ C_poll_req \/ MasterWriteData \/ MasterWriteResponse
          \/ MasterReadBeat \/ mmio_read_bar
      BY <1>3, <2>1, <2>2, AccessOnly
    <3>2. TypeOK' /\ Stage'
      BY <2>1, <3>1, AccessTypes, WriteEdgeTypes, ReadBeatTypes
    <3>3. AccessBytes'
      BY <1>3, <3>1, AccessBegins, WriteEdge, ReadBeat
    <3> QED
      BY <3>2, <3>3
  <2>3. CASE UNCHANGED vars
    <3>1. TypeOK' /\ Stage'
      BY <2>1, <2>3 DEF vars, TypeInv, TypeOK, Stage, Access, Burst
    <3>2. AccessBytes'
      BY <2>1, <2>3 DEF vars, AccessBytes, WriteBytes, ReadBytes, Before, WrittenTo,
                        Written, Asked, Offset, Handshake
    <3> QED
      BY <3>1, <3>2
  <2> QED
    BY <2>2, <2>3
<1>4. Access' => Access
  BY <1>1 DEF Access
<1> QED
  BY <1>2, <1>3, <1>4 DEF AccessInv, TypeInv

(* A vCPU's access writes or reads exactly the bytes it names, whatever    *)
(* words, lanes and strobes C_poll, the AXI masters and C_resp_read make   *)
(* of it: to a slave of any kind when it is no wider than the bus, and     *)
(* when it is wider to one that is always ready and counts its AxSIZE as   *)
(* the bus.                                                                *)
THEOREM AlwaysMmioExact == EagerIfWide => (Spec => []MmioExact)
<1> SUFFICES ASSUME EagerIfWide PROVE Spec => []MmioExact
  OBVIOUS
<1>1. Init => AccessInv
  <2> SUFFICES ASSUME Init PROVE AccessInv
    OBVIOUS
  <2>1. TypeInv /\ pc = "begin" /\ mem = Before /\ taken = 0
    BY TypesAtStart DEF Init, Before
  <2> QED
    BY <2>1 DEF AccessInv, TypeInv, AccessBytes, WriteBytes, ReadBytes
<1>2. AccessInv => MmioExact
  BY DEF AccessInv, Access, AccessBytes, WriteBytes, ReadBytes, MmioExact
<1>3. AccessInv /\ [Next]_vars => AccessInv'
  BY AccessStep
<1> QED
  BY <1>1, <1>2, <1>3, PTL DEF Spec

-----------------------------------------------------------------------------
(* The bytes of a burst *)

(* What the packing and the copies of dpi-pcie.c support: reads that are   *)
(* whole words or one beat, writes without holes, and one line of          *)
(* msix_data at a time, stable, that is a vector of the device.            *)
Supported ==
  /\ Fits
  /\ Reads \subseteq {"full", "single"} /\ Writes \subseteq {"full", "single", "narrow"}
  /\ Settled /\ Lines \subseteq {{k} : k \in 0..(VecNum - 1)}

(* An aligned burst is its bytes from the first to the last, beat by beat, *)
(* and no beat leaves its word.                                            *)
LEMMA BurstBeats ==
  ASSUME NEW x \in Bursts, x.addr % 2 ^ x.width = 0
  PROVE  LET b == 2 ^ x.width
             size == burst_size(x.width, x.len)
         IN  /\ b \in Nat \ {0} /\ b <= BUSW /\ size = (x.len + 1) * b /\ size \in Nat
             /\ x.addr \in Nat /\ x.len \in Nat /\ x.addr + size <= BUFF_SIZE
             /\ \A n \in 0..x.len :
                  BeatBytes(x.addr, x.width, n) = (x.addr + n * b) .. (x.addr + n * b + b - 1)
             /\ \A n \in 0..x.len : \A r \in 0..(b - 1) :
                  (x.addr + n * b + r) % BUSW = ((x.addr + n * b) % BUSW) + r
<1> DEFINE b == 2 ^ x.width
           size == burst_size(x.width, x.len)
<1>1. /\ b \in Nat \ {0} /\ b <= BUSW /\ x.addr \in Page /\ x.width \in 0..FloorLog[BUSW]
      /\ x.len \in 0..MaxLen /\ size \in Nat /\ (x.addr \div b) * b + size <= BUFF_SIZE
  BY BurstShape
<1>2. x.addr \in Nat /\ x.len \in Nat
  <2>1. x.addr \in Nat
    BY <1>1, Numbers, Zenon
  <2>2. x.len \in 0..MaxLen
    BY <1>1
  <2> QED
    BY <2>1, <2>2
<1>3. x.addr % b = 0
  OBVIOUS
<1>4. PICK m \in Nat \ {0} : BUSW = m * b
  BY <1>1, Powers
<1>5. size = (x.len + 1) * b
  BY DEF burst_size
<1>6. \A n : BeatBytes(x.addr, x.width, n) = BeatOf(x.addr, b, n)
  BY <1>1, BeatWidth
<1> HIDE DEF b, size
<1> DEFINE q == x.addr \div b
<1>7. q \in Nat /\ x.addr = b * q /\ q * b = x.addr
  <2>1. q \in Nat /\ x.addr = b * q + (x.addr % b)
    BY <1>1, <1>2, Division
  <2> HIDE DEF q
  <2> QED
    BY <1>1, <1>3, <2>1
<1> HIDE DEF q
<1>8. x.addr + size <= BUFF_SIZE
  BY <1>1, <1>7 DEF q
<1>9. ASSUME NEW n \in 0..x.len
      PROVE  BeatBytes(x.addr, x.width, n) = (x.addr + n * b) .. (x.addr + n * b + b - 1)
  <2>1. n * b \in Nat /\ (n = 0 => n * b = 0)
    BY <1>1, <1>2
  <2> DEFINE e == n * b
  <2> HIDE DEF e
  <2>2. BeatOf(x.addr, b, n) = (IF n = 0 THEN x.addr ELSE x.addr + e) .. (x.addr + e + b - 1)
    BY <1>7, Zenon DEF BeatOf, e, q
  <2>3. e \in Nat /\ (n = 0 => x.addr + e = x.addr)
    BY <1>2, <2>1 DEF e
  <2> QED
    BY <1>6, <2>2, <2>3 DEF e
<1>10. ASSUME NEW n \in 0..x.len, NEW r \in 0..(b - 1)
       PROVE  (x.addr + n * b + r) % BUSW = ((x.addr + n * b) % BUSW) + r
  <2> DEFINE a == x.addr + n * b
  <2>1. a \in Nat /\ a = b * (q + n) + 0 /\ q + n \in Nat /\ 0 \in 0..(b - 1)
    BY <1>1, <1>2, <1>7
  <2> HIDE DEF a
  <2>2. a % b = 0
    <3>1. \A z \in 0..(b - 1) : a = b * (q + n) + z => a % b = z
      BY <1>1, <2>1, Quotient
    <3> QED
      BY <2>1, <3>1
  <2>3. (a % BUSW) + b <= BUSW
    BY <1>1, <1>4, <2>1, <2>2, Aligned
  <2> DEFINE c == a \div BUSW
             o == a % BUSW
  <2>4. c \in Nat /\ o \in Nat /\ a = BUSW * c + o
    <3>1. c \in Nat /\ o \in 0..(BUSW - 1) /\ a = BUSW * c + o
      BY <2>1, Numbers, Division
    <3> QED
      BY <3>1
  <2> HIDE DEF c, o
  <2>5. o + r \in 0..(BUSW - 1) /\ a + r = BUSW * c + (o + r) /\ a + r \in Nat
    <3>1. BUSW * c \in Nat /\ o + b <= BUSW
      BY <2>3, <2>4, Numbers DEF o
    <3> QED
      BY <1>1, <2>1, <2>4, <3>1, Numbers
  <2> DEFINE d == a + r
             e == o + r
  <2> HIDE DEF d, e
  <2>6. d % BUSW = e
    BY <2>4, <2>5, Numbers, Quotient DEF d, e
  <2> QED
    BY <2>6 DEF d, e, o, a
<1> QED
  BY <1>1, <1>2, <1>5, <1>8, <1>9, <1>10 DEF b, size

(* The k-th of the values of an increasing function has k values below it. *)
LEMMA RankByOrder ==
  ASSUME NEW N \in Nat, NEW f \in [0..(N - 1) -> Nat], NEW k \in 0..(N - 1),
         \A i, j \in 0..(N - 1) : i < j => f[i] < f[j]
  PROVE  Cardinality(Below({f[i] : i \in 0..(N - 1)}, f[k])) = k
<1> DEFINE D == 0..(k - 1)
           T == Below({f[i] : i \in 0..(N - 1)}, f[k])
           g == [i \in D |-> f[i]]
<1>1. D \in SUBSET (0..(N - 1)) /\ k \in Nat /\ \A i \in D : i \in Nat /\ i < k
  OBVIOUS
<1>2. \A i \in 0..(N - 1) : f[i] < f[k] <=> i \in D
  <2>1. ASSUME NEW i \in 0..(N - 1) PROVE f[i] < f[k] <=> i \in D
    <3>1. i \in Nat /\ k \in Nat /\ f[i] \in Nat /\ f[k] \in Nat
      OBVIOUS
    <3>2. CASE i < k
      BY <3>1, <3>2
    <3>3. CASE i = k
      BY <3>1, <3>3
    <3>4. CASE k < i
      <4>1. f[k] < f[i]
        BY <3>4
      <4> QED
        BY <3>1, <3>4, <4>1
    <3> QED
      BY <3>1, <3>2, <3>3, <3>4
  <2> QED
    BY <2>1
<1>3. T = {f[i] : i \in D}
  BY <1>1, <1>2 DEF Below
<1>4. \A i, j \in D : f[i] = f[j] => i = j
  <2>1. ASSUME NEW i \in D, NEW j \in D, f[i] = f[j] PROVE i = j
    <3>1. /\ i \in 0..(N - 1) /\ j \in 0..(N - 1) /\ i \in Nat /\ j \in Nat
          /\ f[i] \in Nat /\ f[j] \in Nat
      BY <1>1
    <3>2. ~ (i < j) /\ ~ (j < i)
      BY <2>1, <3>1
    <3> QED
      BY <3>1, <3>2
  <2> QED
    BY <2>1
<1>5. IsFiniteSet(D) /\ Cardinality(D) = k
  BY <1>1, FirstNumbers
<1> HIDE DEF D, T
<1>6. g \in [D -> T] /\ (\A i, j \in D : g[i] = g[j] => i = j) /\ \A y \in T : \E i \in D : g[i] = y
  BY <1>3, <1>4
<1> HIDE DEF g
<1>7. g \in Bijection(D, T)
  BY <1>6, Fun_IsBij
<1>8. ExistsBijection(D, T)
  BY <1>7, Fun_ExistsBij
<1> QED
  BY <1>5, <1>8, FS_Bijection DEF T

(* Where axi4_s_w keeps byte i of a burst. *)
Spot(x, i) == (i \div 2 ^ x.width) * BUSW + ((x.addr + i) % BUSW)

(* The beat of byte i of a burst, and its place: word and lane. *)
LEMMA SpotOf ==
  ASSUME NEW x \in Bursts, x.addr % 2 ^ x.width = 0,
         NEW i \in 0..(burst_size(x.width, x.len) - 1)
  PROVE  LET n == i \div 2 ^ x.width IN
         /\ n \in 0..x.len /\ x.addr + i \in BeatBytes(x.addr, x.width, n)
         /\ Spot(x, i) = n * BUSW + ((x.addr + i) % BUSW) /\ (x.addr + i) % BUSW \in Lanes
         /\ Spot(x, i) \in Nat /\ x.addr + i \in Nat
<1> DEFINE b == 2 ^ x.width
           n == i \div b
           r == i % b
<1>1. /\ b \in Nat \ {0} /\ burst_size(x.width, x.len) = (x.len + 1) * b
      /\ x.addr \in Nat /\ x.len \in Nat
      /\ \A m \in 0..x.len :
           BeatBytes(x.addr, x.width, m) = (x.addr + m * b) .. (x.addr + m * b + b - 1)
  BY BurstBeats
<1>2. i \in Nat /\ i < (x.len + 1) * b
  <2>1. (x.len + 1) * b \in Nat
    BY <1>1
  <2> QED
    BY <1>1, <2>1
<1>3. Spot(x, i) = n * BUSW + ((x.addr + i) % BUSW)
  BY DEF Spot
<1> HIDE DEF b
<1>4. n \in Nat /\ r \in 0..(b - 1) /\ i = b * n + r
  BY <1>1, <1>2, Division
<1>5. n < x.len + 1
  <2> DEFINE e == x.len + 1
  <2>1. i < e * b /\ e \in Nat
    BY <1>1, <1>2
  <2> HIDE DEF e
  <2>2. i \div b < e
    BY <1>1, <1>2, <2>1, WordBefore
  <2> QED
    BY <2>2 DEF e
<1> HIDE DEF n, r
<1>6. n \in 0..x.len
  BY <1>1, <1>4, <1>5
<1>7. x.addr + i \in BeatBytes(x.addr, x.width, n)
  <2>1. b * n = n * b /\ n * b \in Nat
    BY <1>1, <1>4
  <2> DEFINE a == x.addr
             c == n * b
  <2>2. a \in Nat /\ b \in Nat /\ c \in Nat /\ i = c + r
    BY <1>1, <1>4, <2>1
  <2> HIDE DEF a, c
  <2>3. a + i \in (a + c) .. (a + c + b - 1)
    BY <1>4, <2>2
  <2> QED
    BY <1>1, <1>6, <2>3 DEF a, c
<1>8. x.addr + i \in Nat /\ (x.addr + i) % BUSW \in Lanes
  <2>1. x.addr + i \in Nat
    BY <1>1, <1>2
  <2> QED
    BY <2>1, Numbers, Division DEF Lanes
<1>9. Spot(x, i) \in Nat
  <2>1. (x.addr + i) % BUSW \in Nat /\ n * BUSW \in Nat
    BY <1>4, <1>8, Numbers DEF Lanes
  <2> QED
    BY <1>3, <2>1
<1> QED
  BY <1>3, <1>6, <1>7, <1>8, <1>9 DEF n, b

(* Bytes of the same beat and those of later beats come after each other:  *)
(* the order of the buffer is that of the burst.                           *)
LEMMA SpotGrows ==
  ASSUME NEW x \in Bursts, x.addr % 2 ^ x.width = 0,
         NEW i \in 0..(burst_size(x.width, x.len) - 1),
         NEW j \in 0..(burst_size(x.width, x.len) - 1), i < j
  PROVE  Spot(x, i) < Spot(x, j)
<1> DEFINE b == 2 ^ x.width
           n == i \div b
           m == j \div b
           k == (x.addr + i) % BUSW
           l == (x.addr + j) % BUSW
<1>1. /\ b \in Nat \ {0} /\ x.addr \in Nat /\ x.len \in Nat
      /\ \A c \in 0..x.len : \A r \in 0..(b - 1) :
           (x.addr + c * b + r) % BUSW = ((x.addr + c * b) % BUSW) + r
      /\ burst_size(x.width, x.len) \in Nat
  BY BurstBeats
<1>2. /\ n \in 0..x.len /\ k \in 0..(BUSW - 1) /\ Spot(x, i) = n * BUSW + k
  BY SpotOf DEF Lanes
<1>3. /\ m \in 0..x.len /\ l \in 0..(BUSW - 1) /\ Spot(x, j) = m * BUSW + l
  BY SpotOf DEF Lanes
<1> HIDE DEF b
<1>4. i \in Nat /\ j \in Nat
  BY <1>1
<1> DEFINE r == i % b
           s == j % b
<1>5. n \in Nat /\ r \in 0..(b - 1) /\ i = b * n + r
  BY <1>1, <1>4, Division
<1>6. m \in Nat /\ s \in 0..(b - 1) /\ j = b * m + s
  BY <1>1, <1>4, Division
<1>7. k = ((x.addr + n * b) % BUSW) + r
  <2>1. x.addr + i = x.addr + n * b + r
    <3> HIDE DEF n, r
    <3> QED
      BY <1>1, <1>4, <1>5
  <2>2. (x.addr + n * b + r) % BUSW = ((x.addr + n * b) % BUSW) + r
    <3> HIDE DEF n, r
    <3> QED
      BY <1>1, <1>2, <1>5
  <2> QED
    BY <2>1, <2>2, Zenon
<1>8. l = ((x.addr + m * b) % BUSW) + s
  <2>1. x.addr + j = x.addr + m * b + s
    <3> HIDE DEF m, s
    <3> QED
      BY <1>1, <1>4, <1>6
  <2>2. (x.addr + m * b + s) % BUSW = ((x.addr + m * b) % BUSW) + s
    <3> HIDE DEF m, s
    <3> QED
      BY <1>1, <1>3, <1>6
  <2> QED
    BY <2>1, <2>2, Zenon
<1> HIDE DEF n, m, k, l, r, s
<1>9. n <= m
  <2>1. ASSUME m < n PROVE FALSE
    <3>1. b * (m + 1) <= b * n /\ b * (m + 1) = b * m + b /\ b * m \in Nat /\ b * n \in Nat
      BY <1>1, <1>5, <1>6, <2>1
    <3> QED
      BY <1>1, <1>4, <1>5, <1>6, <3>1
  <2> QED
    BY <1>5, <1>6, <2>1
<1>10. CASE n = m
  <2>1. r < s
    <3>1. b * n \in Nat
      BY <1>1, <1>5
    <3> QED
      BY <1>1, <1>4, <1>5, <1>6, <1>10, <3>1
  <2> DEFINE z == (x.addr + n * b) % BUSW
  <2>2. z \in Nat
    <3>1. x.addr + n * b \in Nat
      BY <1>1, <1>5
    <3> QED
      BY <3>1, Numbers, Division
  <2>3. k = z + r /\ l = z + s
    BY <1>7, <1>8, <1>10, Zenon
  <2> HIDE DEF z
  <2>4. k < l
    BY <1>1, <1>5, <1>6, <2>1, <2>2, <2>3
  <2>5. n * BUSW \in Nat
    BY <1>5, Numbers
  <2> QED
    BY <1>2, <1>3, <1>10, <2>4, <2>5, Numbers
<1>11. CASE n < m
  <2>1. /\ (n + 1) * BUSW <= m * BUSW /\ (n + 1) * BUSW = n * BUSW + BUSW
        /\ n * BUSW \in Nat /\ m * BUSW \in Nat
    BY <1>5, <1>6, <1>11, Numbers
  <2> QED
    BY <1>2, <1>3, <2>1, Numbers
<1> QED
  BY <1>5, <1>6, <1>9, <1>10, <1>11

(* Beat n of a burst of l + 1 beats ends before the burst does. *)
LEMMA BeatInBurst ==
  ASSUME NEW b \in Nat \ {0}, NEW n \in Nat, NEW l \in Nat, n <= l
  PROVE  n * b \in Nat /\ (n * b) + b <= (l + 1) * b
<1>1. (n + 1) * b <= (l + 1) * b
  OBVIOUS
<1>2. (n + 1) * b = (n * b) + b /\ n * b \in Nat
  OBVIOUS
<1> QED
  BY <1>1, <1>2

(* Byte y of beat n, counted from the first of the burst. *)
LEMMA ByteOfBeat ==
  ASSUME NEW x \in Bursts, x.addr % 2 ^ x.width = 0, NEW n \in 0..x.len,
         NEW y \in BeatBytes(x.addr, x.width, n)
  PROVE  LET b == 2 ^ x.width
             i == y - x.addr
         IN  /\ y \in Nat /\ y \in Page /\ x.addr + i = y
             /\ i \in 0..(burst_size(x.width, x.len) - 1) /\ i \div b = n
             /\ \E r \in 0..(b - 1) : i = n * b + r /\ y = x.addr + n * b + r
<1> DEFINE b == 2 ^ x.width
           size == burst_size(x.width, x.len)
           i == y - x.addr
           m == n * b
           r == y - (x.addr + m)
<1>1. /\ b \in Nat \ {0} /\ size = (x.len + 1) * b /\ size \in Nat
      /\ x.addr \in Nat /\ x.len \in Nat /\ x.addr + size <= BUFF_SIZE
      /\ BeatBytes(x.addr, x.width, n) = (x.addr + m) .. (x.addr + m + b - 1)
  BY BurstBeats
<1> HIDE DEF b, size
<1>2. n \in Nat /\ m \in Nat /\ m + b <= size
  <2>1. n \in Nat /\ n <= x.len
    BY <1>1
  <2>2. n * b \in Nat /\ (n * b) + b <= (x.len + 1) * b
    BY <1>1, <2>1, BeatInBurst
  <2>3. (n * b) + b <= size
    BY <1>1, <2>2, Zenon
  <2> QED
    BY <2>1, <2>2, <2>3
<1>3. y \in (x.addr + m) .. (x.addr + m + b - 1)
  BY <1>1
<1>4. m = b * n
  BY <1>1, <1>2
<1> HIDE DEF m
<1>5. /\ y \in Nat /\ y < x.addr + size /\ i \in Nat /\ i < size /\ x.addr + i = y
      /\ r \in 0..(b - 1) /\ i = m + r /\ y = x.addr + m + r
  <2> DEFINE a == x.addr
  <2>1. a \in Nat /\ m \in Nat /\ b \in Nat /\ size \in Nat /\ m + b <= size
    BY <1>1, <1>2
  <2>2. y \in (a + m) .. (a + m + b - 1)
    BY <1>3
  <2> HIDE DEF a
  <2>3. y \in Int /\ y >= a + m /\ y <= a + m + b - 1
    BY <2>1, <2>2
  <2>4. /\ y \in Nat /\ y < a + size /\ y - a \in Nat /\ y - a < size /\ a + (y - a) = y
        /\ y - (a + m) \in 0..(b - 1) /\ y - a = m + (y - (a + m))
        /\ y = a + m + (y - (a + m))
    BY <2>1, <2>3
  <2> QED
    BY <2>4 DEF a
<1>6. y \in Page
  <2> DEFINE a == x.addr
  <2>1. a \in Nat /\ size \in Nat /\ a + size <= BUFF_SIZE /\ y \in Nat /\ y < a + size
    BY <1>1, <1>5, Zenon
  <2> HIDE DEF a
  <2> QED
    BY <2>1, Numbers DEF Page
<1> HIDE DEF i, r
<1>7. i \div b = n
  BY <1>1, <1>2, <1>4, <1>5, Quotient
<1>8. i \in 0..(size - 1)
  BY <1>1, <1>5
<1> QED
  BY <1>5, <1>6, <1>7, <1>8 DEF i, b, m, size

(* Every byte of a burst is in a beat, and every byte of a beat in it. *)
LEMMA BytesOfBurst ==
  ASSUME NEW x \in Bursts, x.addr % 2 ^ x.width = 0
  PROVE  Bytes(x.addr, x.width, x.len) =
           x.addr .. (x.addr + burst_size(x.width, x.len) - 1)
<1> DEFINE size == burst_size(x.width, x.len)
           S == x.addr .. (x.addr + size - 1)
<1>1. x.addr \in Nat /\ size \in Nat /\ x.len \in Nat
  BY BurstBeats
<1>2. ASSUME NEW n \in 0..x.len, NEW y \in BeatBytes(x.addr, x.width, n) PROVE y \in S
  <2>1. y \in Nat /\ y - x.addr \in 0..(size - 1)
    BY ByteOfBeat
  <2> HIDE DEF size
  <2> QED
    BY <1>1, <2>1
<1>3. ASSUME NEW y \in S PROVE \E n \in 0..x.len : y \in BeatBytes(x.addr, x.width, n)
  <2> DEFINE i == y - x.addr
  <2>1. i \in 0..(size - 1) /\ x.addr + i = y
    <3> HIDE DEF size
    <3> QED
      BY <1>1
  <2> HIDE DEF i
  <2>2. i \in 0..(burst_size(x.width, x.len) - 1)
    BY <2>1
  <2> HIDE DEF size
  <2>3. \E n \in 0..x.len : x.addr + i \in BeatBytes(x.addr, x.width, n)
    BY <2>2, SpotOf
  <2> QED
    BY <2>1, <2>3
<1> HIDE DEF S
<1>4. Bytes(x.addr, x.width, x.len) = S
  BY <1>2, <1>3 DEF Bytes
<1> QED
  BY <1>4 DEF S, size

(* A read of whole words, or of one beat: the response lies in v_data      *)
(* behind align_offset as its lanes have it.                               *)
LEMMA PlaceOfRead ==
  ASSUME NEW x \in Bursts, x.addr % 2 ^ x.width = 0, 2 ^ x.width = BUSW \/ x.len = 0,
         NEW n \in 0..x.len, NEW y \in BeatBytes(x.addr, x.width, n)
  PROVE  BUSW * n + (y % BUSW) = (x.addr % BUSW) + (y - x.addr)
<1> DEFINE b == 2 ^ x.width
           o == x.addr % BUSW
           m == n * b
           l == (x.addr + m) % BUSW
<1>1. /\ b \in Nat \ {0} /\ x.addr \in Nat /\ x.len \in Nat
      /\ \A r \in 0..(b - 1) : (x.addr + m + r) % BUSW = l + r
  BY BurstBeats
<1>2. y \in Nat /\ \E r \in 0..(b - 1) : y - x.addr = m + r /\ y = x.addr + m + r
  BY ByteOfBeat
<1> HIDE DEF b
<1>3. PICK r \in 0..(b - 1) : y - x.addr = m + r /\ y = x.addr + m + r
  BY <1>2
<1>4. y % BUSW = l + r
  BY <1>1, <1>3
<1>5. n \in Nat /\ m \in Nat /\ BUSW * n \in Nat
  BY <1>1, Numbers
<1>6. l \in Nat
  <2> DEFINE e == x.addr + m
  <2>1. e \in Nat
    BY <1>1, <1>5
  <2> HIDE DEF e
  <2>2. e % BUSW \in 0..(BUSW - 1)
    BY <2>1, Numbers, Division
  <2>3. e % BUSW \in Nat
    BY <2>2, Numbers
  <2> QED
    BY <2>3 DEF e
<1>7. CASE x.len = 0
  <2>1. n = 0
    BY <1>7
  <2>2. m = 0 /\ BUSW * n = 0
    BY <1>1, <2>1, Numbers
  <2>3. x.addr + m = x.addr
    BY <1>1, <2>2
  <2>4. l = o
    BY <2>3
  <2> HIDE DEF o, l, m
  <2> QED
    BY <1>1, <1>3, <1>4, <1>6, <2>2, <2>4 DEF o
<1>8. CASE b = BUSW
  <2>1. m = BUSW * n
    BY <1>5, <1>8, Numbers
  <2>2. o = 0
    BY <1>8 DEF b
  <2>3. l = 0
    <3> DEFINE e == x.addr + m + (b - 1)
    <3>1. e \in Nat /\ b - 1 \in 0..(b - 1)
      BY <1>1, <1>5
    <3>2. e % BUSW = l + (b - 1)
      BY <1>1, <3>1
    <3> HIDE DEF e
    <3>3. e % BUSW \in 0..(BUSW - 1)
      BY <3>1, Numbers, Division
    <3> HIDE DEF l
    <3> QED
      BY <1>6, <1>8, <3>2, <3>3, Numbers
  <2> HIDE DEF o, l, m
  <2> QED
    BY <1>1, <1>3, <1>4, <1>5, <2>1, <2>2, <2>3 DEF o
<1> QED
  BY <1>7, <1>8 DEF b

(* Each byte of a beat of axi4_s_w is on its own lane. *)
LEMMA LaneOfWrite ==
  ASSUME NEW x \in Bursts, x.addr % 2 ^ x.width = 0,
         NEW n \in 0..x.len, NEW y \in BeatBytes(x.addr, x.width, n)
  PROVE  Beat(x.addr, x.width, n, New)[y % BUSW] = New(y) /\ y % BUSW \in Lanes
<1> DEFINE b == 2 ^ x.width
           a == x.addr + n * b
           B == BeatBytes(x.addr, x.width, n)
           P(z) == z % BUSW = y % BUSW
           c == CHOOSE z \in B : P(z)
<1>1. b \in Nat \ {0} /\ b <= BUSW /\ x.addr \in Nat /\ B = a .. (a + b - 1)
  BY BurstBeats
<1>2. n \in Nat /\ n * b \in Nat
  <2> HIDE DEF b
  <2>1. n \in Nat
    BY BurstBeats
  <2> QED
    BY <1>1, <2>1
<1>3. a \in Nat
  <2> HIDE DEF b
  <2> QED
    BY <1>1, <1>2
<1>4. y \in Nat /\ y % BUSW \in Lanes
  <2>1. y \in Nat
    BY ByteOfBeat
  <2> QED
    BY <2>1, Numbers, Division DEF Lanes
<1>5. c \in B /\ P(c)
  <2>1. \E z \in B : P(z)
    OBVIOUS
  <2> QED
    BY <2>1, Zenon
<1> HIDE DEF a, b, c, B
<1>6. c = y
  <2>1. c \in a .. (a + b - 1) /\ y \in a .. (a + b - 1)
    BY <1>1, <1>5 DEF B
  <2>2. c \in Nat /\ c - y < BUSW /\ y - c < BUSW
    BY <1>1, <1>3, <2>1, Numbers
  <2> QED
    BY <1>4, <1>5, <2>2, SameLane
<1>7. Beat(x.addr, x.width, n, New)[y % BUSW] = New(c)
  BY <1>4 DEF Beat, c, B
<1> QED
  BY <1>4, <1>6, <1>7

(* The words of a burst, with their strobes, as axi4_s_w keeps them. *)
Kept(b, s, n) ==
  /\ s[n] = {y % BUSW : y \in BeatBytes(t.addr, t.width, n)}
  /\ \A y \in BeatBytes(t.addr, t.width, n) : b[BUSW * n + (y % BUSW)] = New(y)

(* C_req_write packs them in the order of their addresses. *)
LEMMA FrameOfWrite ==
  ASSUME Fits, t \in Bursts, t.addr % 2 ^ t.width = 0, NEW b \in [Buf -> Byte], NEW s,
         \A n \in 0..t.len : Kept(b, s, n),
         NEW k \in 0..(burst_size(t.width, t.len) - 1)
  PROVE  Pack(b, s)[k] = New(t.addr + k)
<1> DEFINE N == burst_size(t.width, t.len)
           I == 0..(N - 1)
           f == [i \in I |-> Spot(t, i)]
           S == Strobed(s)
<1>1. N \in Nat
  BY BurstBeats
<1>2. \A i \in I : Spot(t, i) \in Nat
  BY SpotOf
<1>3. \A i, j \in I : i < j => Spot(t, i) < Spot(t, j)
  BY SpotGrows
<1>4. ASSUME NEW i \in I PROVE Spot(t, i) \in S
  <2> DEFINE n == i \div 2 ^ t.width
             y == t.addr + i
  <2>1. /\ n \in 0..t.len /\ y \in BeatBytes(t.addr, t.width, n)
        /\ Spot(t, i) = n * BUSW + (y % BUSW) /\ y % BUSW \in Lanes
    BY SpotOf
  <2> HIDE DEF n, y
  <2>2. y % BUSW \in s[n] \cap Lanes
    BY <2>1 DEF Kept
  <2> QED
    BY <2>1, <2>2 DEF Strobed
<1>5. ASSUME NEW p \in S PROVE \E i \in I : p = Spot(t, i)
  <2>1. PICK n \in 0..t.len : \E j \in s[n] \cap Lanes : p = n * BUSW + j
    BY DEF Strobed
  <2>2. PICK j \in s[n] \cap Lanes : p = n * BUSW + j
    BY <2>1
  <2>3. PICK y \in BeatBytes(t.addr, t.width, n) : j = y % BUSW
    BY <2>2 DEF Kept
  <2> DEFINE i == y - t.addr
  <2>4. i \in I /\ i \div 2 ^ t.width = n /\ t.addr + i = y
    BY <2>3, ByteOfBeat
  <2> HIDE DEF i
  <2>5. p = Spot(t, i)
    BY <2>2, <2>3, <2>4, Zenon DEF Spot
  <2> QED
    BY <2>4, <2>5
<1>6. S = {f[i] : i \in I}
  BY <1>4, <1>5
<1>7. f \in [I -> Nat] /\ \A i, j \in I : i < j => f[i] < f[j]
  BY <1>2, <1>3
<1>8. f[k] = Spot(t, k) /\ f[k] \in S
  BY <1>4
<1>9. S \in SUBSET Buf
  BY BurstShape, StrobesFit
<1> HIDE DEF f, N
<1>10. Cardinality(Below({f[i] : i \in 0..(N - 1)}, f[k])) = k
  BY <1>1, <1>7, RankByOrder DEF N
<1>11. Cardinality(Below(S, f[k])) = k
  BY <1>6, <1>10
<1>12. Pack(b, s)[Cardinality(Below(S, f[k]))] = b[f[k]]
  BY <1>8, <1>9, Packed
<1>13. b[f[k]] = New(t.addr + k)
  <2> DEFINE n == k \div 2 ^ t.width
             y == t.addr + k
  <2>1. /\ n \in 0..t.len /\ y \in BeatBytes(t.addr, t.width, n)
        /\ Spot(t, k) = n * BUSW + (y % BUSW)
    BY SpotOf
  <2>2. t.len \in Nat
    BY BurstBeats
  <2> HIDE DEF n, y
  <2>3. n * BUSW = BUSW * n
    BY <2>1, <2>2, Numbers
  <2>4. b[BUSW * n + (y % BUSW)] = New(y)
    BY <2>1 DEF Kept
  <2>5. b[f[k]] = New(y)
    BY <1>8, <2>1, <2>3, <2>4, Zenon
  <2> QED
    BY <2>5 DEF y
<1> QED
  BY <1>11, <1>12, <1>13

(* What the shapes of Supported tell of a burst. *)
LEMMA SupportedBurst ==
  ASSUME Supported, Given, Burst
  PROVE  /\ t \in Bursts /\ t.addr % 2 ^ t.width = 0 /\ t.skip = {}
         /\ t.op = "S_RD" => 2 ^ t.width = BUSW \/ t.len = 0
         /\ Asked = t.addr .. (t.addr + burst_size(t.width, t.len) - 1)
<1>1. t \in Bursts /\ Shape(t) \in IF t.op = "S_RD" THEN Reads ELSE Writes
  BY Kinds
<1>2. Shape(t) \in {"full", "single", "narrow"} /\ (t.op = "S_RD" => Shape(t) # "narrow")
  BY <1>1 DEF Supported
<1>3. t.skip = {} /\ t.addr % 2 ^ t.width = 0
  BY <1>2 DEF Shape
<1>4. t.op = "S_RD" => 2 ^ t.width = BUSW \/ t.len = 0
  BY <1>2, <1>3 DEF Shape
<1>5. Asked = Bytes(t.addr, t.width, t.len)
  BY DEF Asked, Burst
<1> QED
  BY <1>1, <1>3, <1>4, <1>5, BytesOfBurst

(* What has been done of a transfer of the device: a read has its bytes in *)
(* the frame, then behind align_offset, then on the lanes of the beats     *)
(* sent; a write keeps words and strobes, then has its bytes in the frame, *)
(* then in host memory; an interrupt has found its line.                   *)
FetchBytes ==
  /\ mem = Before
  /\ pc = "hdl_resp" => \A k \in 0..(burst_size(t.width, t.len) - 1) :
                          frame.data[k] = Old(t.addr + k)
  /\ pc = "r_beat" => /\ \A k \in 0..(burst_size(t.width, t.len) - 1) :
                           buf[Offset + k] = Old(t.addr + k)
                      /\ \A n \in 0..t.len : n < cnt =>
                           \A x \in BeatBytes(t.addr, t.width, n) : got[x] = Old(x)
  /\ pc = "done" => \A x \in Asked : got[x] = Old(x)
StoreBytes ==
  /\ pc # "done" => mem = Before
  /\ pc \in {"begin", "w_beat"} => \A n \in 0..t.len : n < cnt => Kept(buf, strb, n)
  /\ pc = "hdl_req" => \A k \in 0..(burst_size(t.width, t.len) - 1) :
                         frame.data[k] = New(t.addr + k)
  /\ pc = "done" => mem = Written
LineFound ==
  pc \in {"hdl_req", "done"} => t.bits = {frame.vector} /\ frame.vector < VecNum
DeviceBytes ==
  /\ t.op = "S_RD" => FetchBytes
  /\ t.op = "S_WR" => StoreBytes
  /\ t.op = "INTR" => LineFound

DeviceInv == TypeInv /\ DeviceBytes

(* A burst and its buffers. *)
LEMMA BurstFits ==
  ASSUME Supported, Given, Burst
  PROVE  LET size == burst_size(t.width, t.len) IN
         /\ size \in Nat /\ size <= BUFF_SIZE /\ t.addr \in Nat /\ t.len \in 0..MaxLen
         /\ t.addr + size <= BUFF_SIZE /\ Offset \in Nat
         /\ \A k \in 0..(size - 1) : k \in Buf /\ t.addr + k \in Mem
         /\ \A n \in 0..t.len : BeatBytes(t.addr, t.width, n) \subseteq Mem
<1> DEFINE size == burst_size(t.width, t.len)
<1>1. /\ size \in Nat /\ size <= BUFF_SIZE /\ t.len \in 0..MaxLen
      /\ \A n \in 0..t.len : BeatBytes(t.addr, t.width, n) \subseteq Page
  BY SupportedBurst, BurstShape
<1>2. t.addr \in Nat /\ t.addr + size <= BUFF_SIZE
  BY SupportedBurst, BurstBeats
<1> HIDE DEF size
<1>3. Offset \in Nat
  <2>1. Offset \in 0..(BUSW - 1)
    BY <1>2, Numbers, Division DEF Offset
  <2> QED
    BY <2>1, Numbers
<1>4. ASSUME NEW k \in 0..(size - 1) PROVE k \in Buf /\ t.addr + k \in Mem
  BY <1>1, <1>2, Numbers DEF Buf, Mem
<1>5. \A n \in 0..t.len : BeatBytes(t.addr, t.width, n) \subseteq Mem
  BY <1>1, Numbers
<1> QED
  BY <1>1, <1>2, <1>3, <1>4, <1>5 DEF size

(* QEMU reads the bytes of a burst into the frame, C_poll copies them      *)
(* behind align_offset, and each beat takes those of its lanes.            *)
LEMMA FetchStep ==
  ASSUME Supported, DeviceInv, t.op = "S_RD",
         C_req_read \/ handle_hdl_request \/ C_poll_resp \/ SlaveReadBeat
  PROVE  FetchBytes'
<1>1. TypeOK /\ Stage /\ Given /\ FetchBytes /\ Burst
  BY DEF DeviceInv, TypeInv, DeviceBytes, Burst
<1> DEFINE size == burst_size(t.width, t.len)
<1>2. /\ size \in Nat /\ size <= BUFF_SIZE /\ t.addr \in Nat /\ t.len \in 0..MaxLen
      /\ \A k \in 0..(size - 1) : k \in Buf /\ t.addr + k \in Mem
      /\ \A n \in 0..t.len : BeatBytes(t.addr, t.width, n) \subseteq Mem
  BY <1>1, BurstFits
<1>3. /\ t \in Bursts /\ t.addr % 2 ^ t.width = 0 /\ (2 ^ t.width = BUSW \/ t.len = 0)
      /\ Asked = t.addr .. (t.addr + size - 1) /\ Asked = Bytes(t.addr, t.width, t.len)
  BY <1>1, SupportedBurst DEF Asked, Burst
<1>4. t' = t /\ mem' = Before /\ mem = Before
  BY <1>1 DEF FetchBytes, C_req_read, handle_hdl_request, C_poll_resp, SlaveReadBeat
<1>5. CASE C_req_read
  BY <1>4, <1>5 DEF C_req_read, FetchBytes, Before
<1>6. CASE handle_hdl_request
  <2> DEFINE d == [k \in Buf |-> IF k < frame.size THEN mem[t.addr + k] ELSE frame.data[k]]
  <2>1. /\ pc' = "hdl_resp" /\ frame.size = size /\ frame' = [frame EXCEPT !.data = d]
    BY <1>1, <1>6 DEF handle_hdl_request, Stage
  <2>2. frame \in [size : Nat, vector : {NoVector} \cup 0..31, data : [Buf -> Byte]]
    BY <1>1 DEF TypeOK
  <2>3. frame'.data = d
    BY <2>1, <2>2
  <2>4. ASSUME NEW k \in 0..(size - 1) PROVE frame'.data[k] = Old(t.addr + k)
    <3> HIDE DEF size
    <3>1. k \in Buf /\ k < size /\ t.addr + k \in Mem
      BY <1>2
    <3>2. d[k] = mem[t.addr + k]
      BY <2>1, <3>1
    <3> QED
      BY <1>4, <2>3, <3>1, <3>2 DEF Before
  <2> QED
    BY <1>4, <2>1, <2>4 DEF FetchBytes, Before
<1>7. CASE C_poll_resp
  <2>1. /\ pc = "hdl_resp" /\ pc' = "r_beat" /\ cnt' = 0 /\ frame.size = size
        /\ buf' = [i \in Buf |-> IF i \in Offset..(Offset + frame.size - 1)
                                 THEN frame.data[i - Offset] ELSE buf[i]]
    BY <1>1, <1>7 DEF C_poll_resp, Stage, align_offset, Offset
  <2>2. \A k \in 0..(size - 1) : frame.data[k] = Old(t.addr + k)
    BY <1>1, <2>1 DEF FetchBytes
  <2>3. Offset \in Nat /\ Offset + size <= BUFF_SIZE
    <3>1. Offset \in Nat
      BY <1>1, BurstFits
    <3>2. Offset + size <= BUFF_SIZE
      BY <1>3, ReadFits DEF Offset
    <3> QED
      BY <3>1, <3>2
  <2>4. ASSUME NEW k \in 0..(size - 1) PROVE buf'[Offset + k] = Old(t.addr + k)
    <3> HIDE DEF size
    <3> DEFINE o == Offset
    <3>1. o \in Nat /\ o + size <= BUFF_SIZE
      BY <2>3
    <3> HIDE DEF o
    <3>2. o + k \in Buf /\ o + k \in o..(o + size - 1) /\ (o + k) - o = k
      BY <1>2, <3>1, Numbers DEF Buf
    <3>3. buf'[o + k] = frame.data[k]
      BY <2>1, <3>2 DEF o
    <3> QED
      BY <2>2, <3>3 DEF o
  <2>5. \A n \in 0..t.len : ~ (n < 0)
    BY <1>2
  <2> QED
    BY <1>4, <2>1, <2>4, <2>5 DEF FetchBytes, Before, Offset
<1>8. CASE SlaveReadBeat
  <2>1. /\ pc = "r_beat" /\ cnt' = cnt + 1 /\ pc' = (IF cnt = t.len THEN "done" ELSE pc)
        /\ buf' = buf /\ cnt <= t.len
        /\ got' = [x \in Mem |-> IF x \in BeatBytes(t.addr, t.width, cnt)
                                 THEN buf[BUSW * cnt + (x % BUSW)] ELSE got[x]]
    BY <1>1, <1>8 DEF SlaveReadBeat, Stage
  <2>2. cnt \in Nat /\ cnt \in 0..t.len
    <3>1. cnt \in Nat
      BY <1>1, Numbers DEF TypeOK
    <3> QED
      BY <1>2, <2>1, <3>1
  <2>3. /\ \A k \in 0..(size - 1) : buf[Offset + k] = Old(t.addr + k)
        /\ \A n \in 0..t.len : n < cnt =>
             \A x \in BeatBytes(t.addr, t.width, n) : got[x] = Old(x)
    BY <1>1, <2>1 DEF FetchBytes
  <2>4. ASSUME NEW x \in BeatBytes(t.addr, t.width, cnt)
        PROVE  buf[BUSW * cnt + (x % BUSW)] = Old(x)
    <3>1. BUSW * cnt + (x % BUSW) = Offset + (x - t.addr)
      BY <1>3, <2>2, PlaceOfRead DEF Offset
    <3>2. x - t.addr \in 0..(size - 1) /\ t.addr + (x - t.addr) = x
      BY <1>3, <2>2, ByteOfBeat
    <3> HIDE DEF size
    <3> QED
      BY <2>3, <3>1, <3>2
  <2>5. ASSUME NEW n \in 0..t.len, n < cnt + 1, NEW x \in BeatBytes(t.addr, t.width, n)
        PROVE  got'[x] = Old(x)
    <3>1. x \in Mem /\ (n < cnt \/ n = cnt)
      BY <1>2, <2>2, <2>5
    <3>2. CASE x \in BeatBytes(t.addr, t.width, cnt)
      BY <2>1, <2>4, <3>1, <3>2
    <3>3. CASE x \notin BeatBytes(t.addr, t.width, cnt)
      <4>1. n < cnt
        BY <2>5, <3>1, <3>3
      <4>2. got[x] = Old(x)
        BY <2>3, <2>5, <4>1
      <4> QED
        BY <2>1, <3>1, <3>3, <4>2
    <3> QED
      BY <3>2, <3>3
  <2>6. CASE cnt = t.len
    <3>1. \A x \in Asked : got'[x] = Old(x)
      <4>1. \A n \in 0..t.len : n < cnt + 1
        BY <1>2, <2>2, <2>6
      <4> QED
        BY <1>3, <2>5, <4>1 DEF Bytes
    <3>2. Asked' = Asked
      BY <1>4 DEF Asked
    <3> QED
      BY <1>4, <2>1, <2>6, <3>1, <3>2 DEF FetchBytes, Before
  <2>7. CASE cnt # t.len
    BY <1>4, <2>1, <2>3, <2>5, <2>7 DEF FetchBytes, Before, Offset
  <2> QED
    BY <2>6, <2>7
<1> QED
  BY <1>5, <1>6, <1>7, <1>8

(* Each beat is kept as a word and its strobes; the last one is packed     *)
(* with all before it into the frame QEMU writes to memory.                *)
LEMMA StoreStep ==
  ASSUME Supported, DeviceInv, t.op = "S_WR", SlaveWriteBeat \/ handle_hdl_request
  PROVE  StoreBytes'
<1>1. TypeOK /\ Stage /\ Given /\ StoreBytes /\ Burst
  BY DEF DeviceInv, TypeInv, DeviceBytes, Burst
<1> DEFINE size == burst_size(t.width, t.len)
<1>2. /\ size \in Nat /\ size <= BUFF_SIZE /\ t.addr \in Nat /\ t.len \in 0..MaxLen
      /\ \A n \in 0..t.len : BeatBytes(t.addr, t.width, n) \subseteq Mem
  BY <1>1, BurstFits
<1>3. /\ t \in Bursts /\ t.addr % 2 ^ t.width = 0 /\ t.skip = {}
      /\ Asked = t.addr .. (t.addr + size - 1)
  BY <1>1, SupportedBurst
<1>4. Fits
  BY DEF Supported
<1>5. CASE SlaveWriteBeat
  <2> DEFINE B(n) == BeatBytes(t.addr, t.width, n)
             wdata == Beat(t.addr, t.width, cnt, New)
  <2>1. /\ pc \in {"begin", "w_beat"} /\ (pc = "begin" => cnt = 0)
        /\ pc = "w_beat" => cnt <= t.len
    BY <1>1, <1>5 DEF SlaveWriteBeat, Stage
  <2>2. cnt \in Nat /\ cnt \in 0..t.len /\ cnt \in 0..MaxLen
    <3>1. cnt \in Nat /\ t.len \in Nat
      BY <1>1, <1>2, Numbers DEF TypeOK
    <3> QED
      BY <1>2, <2>1, <3>1, Numbers
  <2>3. /\ t' = t /\ cnt' = cnt + 1 /\ mem' = mem
        /\ buf' = [i \in Buf |-> IF i \div BUSW = cnt THEN wdata[i % BUSW] ELSE buf[i]]
        /\ strb' = [strb EXCEPT ![cnt] = {x % BUSW : x \in B(cnt)}]
        /\ IF cnt = t.len
           THEN pc' = "hdl_req"
                /\ frame' = [size |-> size, vector |-> 0, data |-> Pack(buf', strb')]
           ELSE pc' = "w_beat"
    <3>1. B(cnt) \ t.skip = B(cnt)
      BY <1>3
    <3> QED
      BY <1>5, <3>1 DEF SlaveWriteBeat
  <2>4. /\ mem = Before /\ \A n \in 0..t.len : n < cnt => Kept(buf, strb, n)
    BY <1>1, <2>1 DEF StoreBytes
  <2>5. strb \in [0..MaxLen -> SUBSET Lanes]
    BY <1>1 DEF TypeOK
  <2>6. ASSUME NEW n \in 0..t.len, NEW y \in B(n)
        PROVE  LET i == BUSW * n + (y % BUSW)
               IN  i \in Buf /\ i \div BUSW = n /\ i % BUSW = y % BUSW
    <3> DEFINE j == y % BUSW
               i == BUSW * n + j
    <3>1. n \in Nat /\ n \in 0..MaxLen
      BY <1>2, Numbers
    <3>2. j \in Lanes
      BY <1>3, LaneOfWrite
    <3> HIDE DEF j
    <3>3. i \in Buf
      BY <1>4, <3>1, <3>2, BeatFits, WordFits
    <3>4. i \in Nat /\ j \in 0..(BUSW - 1)
      BY <3>2, <3>3, Numbers DEF Lanes
    <3>5. i = BUSW * n + j
      OBVIOUS
    <3> HIDE DEF i
    <3>6. i \div BUSW = n /\ i % BUSW = j
      BY <3>1, <3>4, <3>5, Numbers, Quotient
    <3> QED
      BY <3>3, <3>6 DEF i, j
  <2>7. ASSUME NEW n \in 0..t.len, n < cnt + 1 PROVE Kept(buf', strb', n)
    <3>1. n \in 0..MaxLen /\ (n < cnt \/ n = cnt)
      BY <1>2, <2>2, <2>7, Numbers
    <3>2. strb'[n] = {y % BUSW : y \in B(n)}
      <4>1. CASE n = cnt
        BY <2>2, <2>3, <2>5, <4>1
      <4>2. CASE n # cnt
        <5>1. strb[n] = {y % BUSW : y \in B(n)}
          BY <2>4, <3>1, <4>2 DEF Kept
        <5> QED
          BY <2>2, <2>3, <2>5, <3>1, <4>2, <5>1
      <4> QED
        BY <4>1, <4>2
    <3>3. ASSUME NEW y \in B(n) PROVE buf'[BUSW * n + (y % BUSW)] = New(y)
      <4> DEFINE i == BUSW * n + (y % BUSW)
      <4>1. i \in Buf /\ i \div BUSW = n /\ i % BUSW = y % BUSW
        BY <2>6
      <4>2. n = cnt => wdata[y % BUSW] = New(y)
        BY <1>3, LaneOfWrite
      <4>3. n # cnt => buf[i] = New(y)
        BY <2>4, <3>1 DEF Kept
      <4> HIDE DEF i, wdata
      <4>4. buf'[i] = IF n = cnt THEN wdata[y % BUSW] ELSE buf[i]
        BY <2>3, <4>1
      <4>5. buf'[i] = New(y)
        BY <4>2, <4>3, <4>4
      <4> QED
        BY <4>5 DEF i
    <3> QED
      BY <3>2, <3>3 DEF Kept
  <2>8. CASE cnt = t.len
    <3> DEFINE b == buf'
               s == strb'
               P == Pack(b, s)
    <3>1. buf' \in [Buf -> Byte]
      BY <1>4, <1>5, WriteBeatTypes DEF DeviceInv, TypeOK
    <3>2. \A n \in 0..t.len : Kept(buf', strb', n)
      <4>1. \A n \in 0..t.len : n < cnt + 1
        BY <1>2, <2>2, <2>8
      <4> QED
        BY <2>7, <4>1
    <3>3. b \in [Buf -> Byte] /\ \A n \in 0..t.len : Kept(b, s, n)
      BY <3>1, <3>2
    <3>4. frame' = [size |-> size, vector |-> 0, data |-> P]
      BY <2>3, <2>8, Zenon
    <3> HIDE DEF b, s
    <3>5. \A k \in 0..(size - 1) : P[k] = New(t.addr + k)
      BY <1>3, <1>4, <3>3, FrameOfWrite
    <3> HIDE DEF P
    <3>6. frame'.data = P
      BY <3>4
    <3> QED
      BY <2>3, <2>4, <2>8, <3>5, <3>6 DEF StoreBytes, Before
  <2>9. CASE cnt # t.len
    <3>1. \A n \in 0..t.len : n < cnt' => Kept(buf', strb', n)
      BY <2>3, <2>7
    <3>2. pc' = "w_beat" /\ mem' = Before
      BY <2>3, <2>4, <2>9
    <3> QED
      BY <2>3, <3>1, <3>2 DEF StoreBytes, Before, Kept
  <2> QED
    BY <2>8, <2>9
<1>6. CASE handle_hdl_request
  <2>1. /\ pc = "hdl_req" /\ pc' = "done" /\ frame.size = size /\ t' = t
        /\ mem' = [x \in Mem |-> IF x \in t.addr..(t.addr + frame.size - 1)
                                 THEN frame.data[x - t.addr] ELSE mem[x]]
    BY <1>1, <1>6 DEF handle_hdl_request, Stage
  <2>2. mem = Before /\ \A k \in 0..(size - 1) : frame.data[k] = New(t.addr + k)
    BY <1>1, <2>1 DEF StoreBytes
  <2>3. ASSUME NEW x \in Asked PROVE frame.data[x - t.addr] = New(x)
    <3> HIDE DEF size
    <3>1. x - t.addr \in 0..(size - 1) /\ t.addr + (x - t.addr) = x
      BY <1>2, <1>3
    <3> QED
      BY <2>2, <3>1
  <2>4. mem' = Written
    <3>1. mem' = [x \in Mem |-> IF x \in Asked THEN frame.data[x - t.addr] ELSE mem[x]]
      BY <1>3, <2>1
    <3> QED
      BY <2>2, <2>3, <3>1 DEF Written, Before
  <2>5. Written' = Written
    BY <2>1 DEF Written, Asked
  <2> QED
    BY <2>1, <2>4, <2>5 DEF StoreBytes
<1> QED
  BY <1>5, <1>6

(* axi4_s_i sends the number of the line, and QEMU notifies it. *)
LEMMA LineStep ==
  ASSUME Supported, DeviceInv, t.op = "INTR", C_req_interrupt \/ handle_hdl_request
  PROVE  LineFound'
<1>1. TypeOK /\ Given /\ LineFound
  BY DEF DeviceInv, TypeInv, DeviceBytes
<1>2. CASE C_req_interrupt
  <2>1. t' = t /\ frame' = [frame EXCEPT !.vector = vector(t.bits)]
    BY <1>2 DEF C_req_interrupt, Supported
  <2>2. frame \in [size : Nat, vector : {NoVector} \cup 0..31, data : [Buf -> Byte]]
    BY <1>1 DEF TypeOK
  <2>3. frame'.vector = vector(t.bits)
    BY <2>1, <2>2
  <2>4. t.bits \in Lines
    BY <1>1, Kinds
  <2>5. PICK k \in 0..(VecNum - 1) : t.bits = {k}
    BY <2>4 DEF Supported
  <2>6. k \in 0..31
    BY <2>4, <2>5, LaneConstants
  <2>7. vector(t.bits) = k /\ k < VecNum
    BY <2>5, <2>6, VectorIs, LaneConstants
  <2> QED
    BY <2>1, <2>3, <2>5, <2>7 DEF LineFound
<1>3. CASE handle_hdl_request
  BY <1>1, <1>3 DEF handle_hdl_request, LineFound
<1> QED
  BY <1>2, <1>3

(* Which steps are taken for which transfer. *)
LEMMA DeviceOnly ==
  ASSUME TypeInv, Next
  PROVE  /\ t.op = "S_RD" => C_req_read \/ handle_hdl_request \/ C_poll_resp \/ SlaveReadBeat
         /\ t.op = "S_WR" => SlaveWriteBeat \/ handle_hdl_request
         /\ t.op = "INTR" => C_req_interrupt \/ handle_hdl_request
<1>1. Stage
  BY DEF TypeInv
<1>2. ~ Access => ~ mmio_bar /\ ~ C_poll_req /\ ~ MasterWriteData
                  /\ ~ MasterWriteResponse /\ ~ MasterReadBeat /\ ~ mmio_read_bar
  BY <1>1 DEF Stage, Access, mmio_bar, C_poll_req, MasterWriteData, MasterWriteResponse, MasterReadBeat,
              mmio_read_bar
<1>3. /\ C_req_read \/ C_poll_resp \/ SlaveReadBeat => t.op = "S_RD"
      /\ SlaveWriteBeat => t.op = "S_WR"
      /\ C_req_interrupt => t.op = "INTR"
  BY <1>1 DEF Stage, C_req_read, C_poll_resp, SlaveReadBeat, SlaveWriteBeat, C_req_interrupt
<1> QED
  BY <1>2, <1>3 DEF Next, Access

(* Every step keeps what has been done of a transfer of the device. *)
LEMMA DeviceStep == Supported /\ DeviceInv /\ [Next]_vars => DeviceInv'
<1> SUFFICES ASSUME Supported, DeviceInv, [Next]_vars PROVE DeviceInv'
  OBVIOUS
<1>1. TypeInv /\ DeviceBytes
  BY DEF DeviceInv
<1>2. TypeInv'
  BY <1>1, TypeStep DEF Supported
<1>3. DeviceBytes'
  <2>1. CASE Next
    <3>1. t' = t
      BY <2>1 DEF Next, mmio_bar, C_poll_req, MasterWriteData, MasterWriteResponse, MasterReadBeat, mmio_read_bar,
                  C_req_read, SlaveWriteBeat, C_req_interrupt, handle_hdl_request, C_poll_resp,
                  SlaveReadBeat
    <3>2. t.op = "S_RD" => FetchBytes'
      BY <1>1, <2>1, DeviceOnly, FetchStep
    <3>3. t.op = "S_WR" => StoreBytes'
      BY <1>1, <2>1, DeviceOnly, StoreStep
    <3>4. t.op = "INTR" => LineFound'
      BY <1>1, <2>1, DeviceOnly, LineStep
    <3> QED
      BY <3>1, <3>2, <3>3, <3>4, Zenon DEF DeviceBytes
  <2>2. CASE UNCHANGED vars
    BY <1>1, <2>2 DEF vars, DeviceBytes, FetchBytes, StoreBytes, LineFound, Kept, Before,
                      Written, Asked, Offset
  <2> QED
    BY <2>1, <2>2
<1> QED
  BY <1>2, <1>3 DEF DeviceInv

(* A burst of a supported shape writes to host memory or fetches from it   *)
(* exactly its bytes, each from or to its own lane, although frames have   *)
(* no strobes and no lanes; and an interrupt notifies the vector of its    *)
(* line: on a bus of any width, for every address, width and length.       *)
THEOREM AlwaysDmaExact == Supported => (Spec => []DmaExact)
<1> SUFFICES ASSUME Supported PROVE Spec => []DmaExact
  OBVIOUS
<1>1. Init => DeviceInv
  <2> SUFFICES ASSUME Init PROVE DeviceInv
    OBVIOUS
  <2>1. TypeInv /\ pc = "begin" /\ cnt = 0 /\ mem = Before
    BY TypesAtStart DEF Init, Before
  <2>2. Burst => \A n \in 0..t.len : ~ (n < cnt)
    BY <2>1, Kinds, BurstShape DEF TypeInv
  <2> QED
    BY <2>1, <2>2 DEF DeviceInv, DeviceBytes, FetchBytes, StoreBytes, LineFound, Burst
<1>2. DeviceInv => DmaExact
  <2> SUFFICES ASSUME DeviceInv PROVE DmaExact
    OBVIOUS
  <2>1. Given /\ DeviceBytes
    BY DEF DeviceInv, TypeInv
  <2>2. ASSUME pc = "done", t.op = "S_WR"
        PROVE  mem = [x \in Mem |-> IF x \in t.skip THEN Old(x) ELSE Written[x]]
    <3>1. mem = Written /\ t.skip = {}
      BY <2>1, <2>2, SupportedBurst DEF DeviceBytes, StoreBytes, Burst
    <3> QED
      BY <3>1 DEF Written
  <2> QED
    BY <2>1, <2>2 DEF DmaExact, DeviceBytes, FetchBytes, LineFound
<1>3. DeviceInv /\ [Next]_vars => DeviceInv'
  BY DeviceStep
<1> QED
  BY <1>1, <1>2, <1>3, PTL DEF Spec
=============================================================================
