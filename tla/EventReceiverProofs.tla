------------------------- MODULE EventReceiverProofs --------------------------
(***************************************************************************)
(* Proofs about EventReceiver, for every number of bits, pause, delay,     *)
(* width, ratio of the clocks and number of seconds: a second that arrives *)
(* is the one sent, time stamps do not go backward, and each event gives   *)
(* one trigger, provided the next one is far enough.                       *)
(***************************************************************************)
EXTENDS EventReceiver, WellFoundedInduction, TLAPS

-----------------------------------------------------------------------------
(* Recursive functions on 0 .. n: the weights of bits and what the bits    *)
(* below one stand for.                                                    *)

\* Induction, over a set of numbers since the provers know no other.
LEMMA Induct == ASSUME NEW T \in SUBSET Nat, 0 \in T, \A n \in T : n + 1 \in T PROVE \A n \in Nat : n \in T
<1> SUFFICES ASSUME NEW n \in Nat, n \notin T PROVE FALSE  OBVIOUS
<1> DEFINE Less == {ss \in Nat \X Nat : ss[1] < ss[2]}
<1> DEFINE Rest == {k \in Nat : k \notin T}
<1>1. IsWellFoundedOn(Less, Nat)  BY NatLessThanWellFounded DEF OpToRel
<1>2. \A k, m \in Nat : k < m => <<k, m>> \in Less
  OBVIOUS
<1>3. Rest \in SUBSET Nat /\ Rest # {}  OBVIOUS
<1>. HIDE DEF Less, Rest
<1>4. PICK m \in Rest : \A k \in Rest : ~ (<<k, m>> \in Less)
  BY <1>1, <1>3, WFMin
<1>5. m \in Nat /\ m \notin T  BY <1>4 DEF Rest
<1>6. m # 0  BY <1>5
<1>7. m - 1 \in Nat /\ m - 1 < m /\ (m - 1) + 1 = m  BY <1>5, <1>6
<1>8. m - 1 \notin T  BY <1>5, <1>7
<1>9. m - 1 \in Rest  BY <1>7, <1>8 DEF Rest
<1>10. <<m - 1, m>> \in Less  BY <1>2, <1>5, <1>7
<1> QED BY <1>4, <1>9, <1>10

IsWeight(n, g) == g = [i \in 0 .. n |-> IF i = 0 THEN 1 ELSE 2 * g[i - 1]]
IsLow(b, n, g) == g = [i \in 0 .. n |-> IF i = 0 THEN 0 ELSE g[i - 1] + b[i - 1] * Weight[i - 1]]

LEMMA WeightExists == \A n \in Nat : \E g : IsWeight(n, g)
<1> DEFINE T == {n \in Nat : \E g : IsWeight(n, g)}
<1>1. 0 \in T
  <2>1. IsWeight(0, [i \in 0 .. 0 |-> 1])  BY DEF IsWeight
  <2> QED BY <2>1
<1>2. ASSUME NEW n \in T PROVE n + 1 \in T
  <2>1. PICK g : IsWeight(n, g)  BY <1>2
  <2> DEFINE h == [i \in 0 .. n + 1 |-> IF i = 0 THEN 1 ELSE 2 * g[i - 1]]
  <2>2. \A i \in 0 .. n : h[i] = g[i]  BY <2>1 DEF IsWeight
  <2>3. \A i \in 0 .. n + 1 : i # 0 => h[i] = 2 * h[i - 1]
    <3> SUFFICES ASSUME NEW i \in 0 .. n + 1, i # 0 PROVE h[i] = 2 * h[i - 1]  OBVIOUS
    <3>1. i - 1 \in 0 .. n  OBVIOUS
    <3>2. h[i - 1] = g[i - 1]  BY <2>2, <3>1
    <3>3. h[i] = 2 * g[i - 1]  OBVIOUS
    <3> QED BY <3>2, <3>3
  <2>4. h[0] = 1  OBVIOUS
  <2>5. h = [i \in 0 .. n + 1 |-> h[i]]  OBVIOUS
  <2> HIDE DEF h
  <2>6. IsWeight(n + 1, h)  BY <2>3, <2>4, <2>5 DEF IsWeight
  <2> QED BY <2>6
<1> HIDE DEF T
<1>3. \A n \in Nat : n \in T  BY <1>1, <1>2, Induct DEF T
<1> QED BY <1>3 DEF T

LEMMA LowExists == ASSUME NEW b PROVE \A n \in Nat : \E g : IsLow(b, n, g)
<1> DEFINE T == {n \in Nat : \E g : IsLow(b, n, g)}
<1>1. 0 \in T
  <2>1. IsLow(b, 0, [i \in 0 .. 0 |-> 0])  BY DEF IsLow
  <2> QED BY <2>1
<1>2. ASSUME NEW n \in T PROVE n + 1 \in T
  <2>1. PICK g : IsLow(b, n, g)  BY <1>2
  <2> DEFINE h == [i \in 0 .. n + 1 |-> IF i = 0 THEN 0 ELSE g[i - 1] + b[i - 1] * Weight[i - 1]]
  <2>2. \A i \in 0 .. n : h[i] = g[i]  BY <2>1 DEF IsLow
  <2>3. \A i \in 0 .. n + 1 : i # 0 => h[i] = h[i - 1] + b[i - 1] * Weight[i - 1]
    <3> SUFFICES ASSUME NEW i \in 0 .. n + 1, i # 0
                 PROVE  h[i] = h[i - 1] + b[i - 1] * Weight[i - 1]
      OBVIOUS
    <3>1. i - 1 \in 0 .. n  OBVIOUS
    <3>2. h[i - 1] = g[i - 1]  BY <2>2, <3>1
    <3>3. h[i] = g[i - 1] + b[i - 1] * Weight[i - 1]  OBVIOUS
    <3> QED BY <3>2, <3>3
  <2>4. h[0] = 0  OBVIOUS
  <2>5. h = [i \in 0 .. n + 1 |-> h[i]]  OBVIOUS
  <2> HIDE DEF h
  <2>6. IsLow(b, n + 1, h)  BY <2>3, <2>4, <2>5 DEF IsLow
  <2> QED BY <2>6
<1> HIDE DEF T
<1>3. \A n \in Nat : n \in T  BY <1>1, <1>2, Induct DEF T
<1> QED BY <1>3 DEF T

LEMMA WeightIs ==
  /\ Weight[0] = 1
  /\ \A i \in Index : Weight[i + 1] = 2 * Weight[i]
<1>0. Bits \in Nat  BY EventAssumption
<1>1. Weight = CHOOSE g : IsWeight(Bits, g)  BY DEF Weight, IsWeight
<1>2. IsWeight(Bits, Weight)  BY <1>0, <1>1, WeightExists
<1>3. Weight[0] = 1  BY <1>0, <1>2 DEF IsWeight
<1>4. ASSUME NEW i \in Index PROVE Weight[i + 1] = 2 * Weight[i]
  <2>1. i + 1 \in 0 .. Bits /\ i + 1 # 0 /\ (i + 1) - 1 = i  BY <1>0 DEF Index
  <2>2. \A j \in 0 .. Bits : j # 0 => Weight[j] = 2 * Weight[j - 1]  BY <1>2 DEF IsWeight
  <2> QED BY <2>1, <2>2
<1> QED BY <1>3, <1>4

\* What the bits below i stand for.
Low(b) == CHOOSE g : IsLow(b, Bits, g)

LEMMA LowIs ==
  ASSUME NEW b
  PROVE  /\ ValueOf(b) = Low(b)[Bits]
         /\ Low(b)[0] = 0
         /\ \A i \in Index : Low(b)[i + 1] = Low(b)[i] + b[i] * Weight[i]
<1>0. Bits \in Nat  BY EventAssumption
<1>1. ValueOf(b) = Low(b)[Bits]  BY DEF ValueOf, Low, IsLow
<1> DEFINE g == Low(b)
<1>2. IsLow(b, Bits, g)  BY <1>0, LowExists DEF Low
<1> HIDE DEF g
<1>3. g[0] = 0  BY <1>0, <1>2 DEF IsLow
<1>4. ASSUME NEW i \in Index PROVE g[i + 1] = g[i] + b[i] * Weight[i]
  <2>1. i + 1 \in 0 .. Bits /\ i + 1 # 0 /\ (i + 1) - 1 = i  BY <1>0 DEF Index
  <2>2. \A j \in 0 .. Bits : j # 0 => g[j] = g[j - 1] + b[j - 1] * Weight[j - 1]
    BY <1>2 DEF IsLow
  <2> QED BY <2>1, <2>2
<1> QED BY <1>1, <1>3, <1>4 DEF g

\* Induction up to Bits.
LEMMA Below ==
  ASSUME NEW T \in SUBSET Nat, 0 \in T, \A i \in Index : i \in T => i + 1 \in T
  PROVE  \A i \in 0 .. Bits : i \in T
<1> DEFINE U == {n \in Nat : n <= Bits => n \in T}
<1>0. Bits \in Nat  BY EventAssumption
<1>1. 0 \in U  OBVIOUS
<1>2. ASSUME NEW n \in U PROVE n + 1 \in U
  BY <1>0, <1>2 DEF Index
<1> HIDE DEF U
<1>3. \A n \in Nat : n \in U  BY <1>1, <1>2, Induct DEF U
<1> QED BY <1>0, <1>3 DEF U

LEMMA WeightType == \A i \in 0 .. Bits : Weight[i] \in Nat /\ Weight[i] >= 1
<1> DEFINE T == {n \in Nat : Weight[n] \in Nat /\ Weight[n] >= 1}
<1>1. 0 \in T  BY WeightIs
<1>2. ASSUME NEW i \in Index, i \in T PROVE i + 1 \in T
  <2>1. Weight[i + 1] = 2 * Weight[i]  BY WeightIs
  <2> QED BY <1>2, <2>1
<1> HIDE DEF T
<1>3. \A i \in 0 .. Bits : i \in T  BY <1>1, <1>2, Below DEF T
<1> QED BY <1>3 DEF T

LEMMA BoundType ==
  /\ Bits \in Nat /\ Bits >= 2
  /\ \A i \in Index : i \in Nat /\ i \in 0 .. Bits /\ i + 1 \in 0 .. Bits
BY EventAssumption DEF Index

\* A remainder is the one number below the divisor that leaves a multiple of it.
LEMMA Remainder ==
  ASSUME NEW h \in Nat, h > 0, NEW n \in Int, NEW p \in Int, NEW r \in 0 .. h - 1, n = h * p + r
  PROVE  n % h = r
<1>1. PICK o \in Int : n = h * o + (n % h) /\ n % h \in 0 .. h - 1
  <2>1. n \div h \in Int /\ n = h * (n \div h) + (n % h) /\ n % h \in 0 .. h - 1  OBVIOUS
  <2> QED BY <2>1
<1>2. PICK z \in Int, e \in Int : z = p - o /\ e = (n % h) - r  BY <1>1
<1>3. e = h * z /\ -h < e /\ e < h
  <2>1. h * z = h * p - h * o  BY <1>1, <1>2
  <2> QED BY <1>1, <1>2, <2>1
<1>4. z = 0
  <2>1. z >= 1 => h * z >= h  OBVIOUS
  <2>2. z <= -1 => h * z <= -h  OBVIOUS
  <2> QED BY <1>1, <1>2, <1>3, <2>1, <2>2
<1> QED BY <1>1, <1>2, <1>3, <1>4

LEMMA BitsType == ASSUME NEW n \in Nat PROVE BitsOf(n) \in [Index -> 0 .. 1]
<1> SUFFICES ASSUME NEW i \in Index PROVE (n \div Weight[i]) % 2 \in 0 .. 1
  BY DEF BitsOf
<1>1. PICK w \in Nat : w = Weight[i] /\ w >= 1  BY WeightType, BoundType
<1>2. n \div w \in Int  BY <1>1
<1> QED BY <1>1, <1>2

\* One more bit.
LEMMA TwiceRemainder ==
  ASSUME NEW n \in Nat, NEW w \in Nat, w >= 1
  PROVE  n % (2 * w) = (n % w) + ((n \div w) % 2) * w
<1>1. PICK q \in Int, r \in 0 .. w - 1 : n = w * q + r /\ r = n % w /\ q = n \div w
  <2>1. n \div w \in Int /\ n = w * (n \div w) + (n % w) /\ n % w \in 0 .. w - 1  OBVIOUS
  <2> QED BY <2>1
<1>2. PICK p \in Int, e \in 0 .. 1 : q = 2 * p + e /\ e = q % 2
  <2>1. q = 2 * (q \div 2) + (q % 2) /\ q \div 2 \in Int /\ q % 2 \in 0 .. 1  OBVIOUS
  <2> QED BY <2>1
<1>3. PICK s \in Int : s = r + e * w  BY <1>1, <1>2
<1>4. s \in 0 .. (2 * w) - 1
  <2>1. CASE e = 0  BY <1>1, <1>3, <2>1
  <2>2. CASE e = 1  BY <1>1, <1>3, <2>2
  <2> QED BY <1>2, <2>1, <2>2
<1>5. n = (2 * w) * p + s
  <2>1. PICK x \in Int, y \in Int, z \in Int : x = w * q /\ y = (2 * w) * p /\ z = e * w
    BY <1>1, <1>2
  <2>2. x = y + z
    <3>1. w * (2 * p) = (2 * w) * p  OBVIOUS
    <3>2. w * (2 * p + e) = w * (2 * p) + w * e  OBVIOUS
    <3>3. w * e = e * w  OBVIOUS
    <3> QED BY <1>2, <2>1, <3>1, <3>2, <3>3
  <2>3. n = x + r /\ s = r + z  BY <1>1, <1>3, <2>1
  <2>4. n = y + s  BY <2>2, <2>3
  <2> QED BY <2>1, <2>4
<1>6. n % (2 * w) = s  BY <1>4, <1>5, Remainder
<1> QED BY <1>1, <1>2, <1>3, <1>6

LEMMA LowBits == ASSUME NEW n \in Nat PROVE \A i \in 0 .. Bits : Low(BitsOf(n))[i] = n % Weight[i]
<1> DEFINE g == Low(BitsOf(n))
<1> DEFINE T == {i \in Nat : g[i] = n % Weight[i]}
<1> HIDE DEF g
<1>1. 0 \in T
  <2>1. g[0] = 0 /\ Weight[0] = 1  BY LowIs, WeightIs DEF g
  <2>2. n % 1 = 0  OBVIOUS
  <2> QED BY <2>1, <2>2
<1>2. ASSUME NEW i \in Index, i \in T PROVE i + 1 \in T
  <2>1. PICK w \in Nat : w = Weight[i] /\ w >= 1  BY WeightType, BoundType
  <2>2. g[i + 1] = g[i] + BitsOf(n)[i] * w  BY <2>1, LowIs DEF g
  <2>3. BitsOf(n)[i] = (n \div w) % 2  BY <2>1 DEF BitsOf
  <2>4. Weight[i + 1] = 2 * w  BY <2>1, WeightIs
  <2>5. g[i] = n % w  BY <1>2, <2>1
  <2>6. n % (2 * w) = (n % w) + ((n \div w) % 2) * w  BY <2>1, TwiceRemainder
  <2>7. i + 1 \in Nat  BY <1>2
  <2>8. g[i + 1] = n % Weight[i + 1]  BY <2>2, <2>3, <2>4, <2>5, <2>6
  <2> QED BY <2>7, <2>8
<1> HIDE DEF T
<1>3. \A i \in 0 .. Bits : i \in T  BY <1>1, <1>2, Below DEF T
<1> QED BY <1>3 DEF T, g

\* A second is what its bits stand for.
LEMMA ValueOfBits == ASSUME NEW n \in 0 .. Weight[Bits] - 1 PROVE ValueOf(BitsOf(n)) = n
<1>1. PICK w \in Nat : w = Weight[Bits] /\ w >= 1  BY WeightType, BoundType
<1>2. n \in Nat /\ n = w * 0 + n /\ n \in 0 .. w - 1  BY <1>1
<1>3. n % w = n  BY <1>1, <1>2, Remainder
<1>4. Low(BitsOf(n))[Bits] = n % w  BY <1>1, <1>2, LowBits, BoundType
<1> QED BY <1>3, <1>4, LowIs

LEMMA ValueType == ASSUME NEW b \in [Index -> 0 .. 1] PROVE ValueOf(b) \in 0 .. Weight[Bits] - 1
<1> DEFINE g == Low(b)
<1> DEFINE T == {i \in Nat : g[i] \in 0 .. Weight[i] - 1}
<1> HIDE DEF g
<1>1. 0 \in T  BY LowIs, WeightIs DEF g
<1>2. ASSUME NEW i \in Index, i \in T PROVE i + 1 \in T
  <2>1. PICK w \in Nat : w = Weight[i] /\ w >= 1  BY WeightType, BoundType
  <2>2. g[i + 1] = g[i] + b[i] * w  BY <2>1, LowIs DEF g
  <2>3. Weight[i + 1] = 2 * w  BY <2>1, WeightIs
  <2>4. g[i] \in 0 .. w - 1  BY <1>2, <2>1
  <2>5. b[i] * w = 0 \/ b[i] * w = w
    <3>1. b[i] = 0 \/ b[i] = 1  OBVIOUS
    <3> QED BY <2>1, <3>1
  <2>6. i + 1 \in Nat  BY <1>2
  <2>7. g[i + 1] \in 0 .. (2 * w) - 1  BY <2>1, <2>2, <2>4, <2>5
  <2> QED BY <2>3, <2>6, <2>7
<1> HIDE DEF T
<1>3. \A i \in 0 .. Bits : i \in T  BY <1>1, <1>2, Below DEF T
<1>4. g[Bits] \in 0 .. Weight[Bits] - 1  BY <1>3, BoundType DEF T
<1> QED BY <1>4, LowIs DEF g

-----------------------------------------------------------------------------
(* The second that arrives: where the transmission is and how far the      *)
(* receiver got with it.                                                   *)

\* Clock, with the code e that the receiver sees.
Takes(e) ==
  /\ gap > 0 /\ gap' = 0 /\ rst' = rst
  /\ TsGen /\ ReceiveTime(e) /\ Channel(e)
  /\ pending' = IF rst THEN 0 ELSE IF e = "event" THEN pending + 1 ELSE pending
  /\ good' = IF rst /\ Sending THEN FALSE
             ELSE e = "latch" \/ (good /\ (IsBit(code) => e = code))
  /\ known' = IF rst THEN FALSE ELSE IF e = "latch" THEN good
              ELSE known /\ offsetReg + 1 < OffMod
  /\ mono' = (~rst /\ known)
  /\ UNCHANGED <<sr, sync_dly>>

LEMMA ClockTakes == Clock => \E e \in {code, "none"} : Takes(e)
BY DEF Clock, Takes, syncVars

\* The sender, by each of its steps.
TsStep ==
  \/ rst /\ state' = "IDLE" /\ code' = "none" /\ epoch_time' = 0 /\ UNCHANGED <<idx, dlycnt>>
  \/ ~rst /\ (\/ Tick \/ Quiet \/ Send1Hz \/ SendBit \/ CheckIfLast \/ Update
              \/ Wait("PREPAUSE", "ACTIVE") \/ Wait("PAUSE", "CHECK_IF_LAST"))

\* The code for bit i of n.
BitOf(n, i) == BitCode[BitsOf(n)[i] + 1]

TxType ==
  /\ state \in {"IDLE", "SEND_1HZ", "PREPAUSE", "ACTIVE", "PAUSE", "CHECK_IF_LAST", "UPDATE"}
  /\ idx \in Index /\ dlycnt \in 0 .. PauseLen + 1 /\ epoch_time \in 0 .. Seconds
  /\ code \in Codes

TsType ==
  /\ pos \in Index
  /\ seconds_tmp \in [Index -> 0 .. 1] /\ secondsReg \in [Index -> 0 .. 1]
  /\ offsetReg \in 0 .. OffMod - 1
  /\ TimeStamp \in (0 .. Weight[Bits] - 1) \X (0 .. OffMod - 1)

FlagType ==
  /\ rst \in BOOLEAN /\ clear \in BOOLEAN /\ clear_reg \in BOOLEAN
  /\ good \in BOOLEAN /\ known \in BOOLEAN /\ mono \in BOOLEAN
  /\ gap \in 0 .. MaxGap

\* What is on the link in each state of the sender.
TxInv ==
  /\ state = "SEND_1HZ" => idx = Bits - 1 /\ code = "none" /\ dlycnt = 0
  /\ state = "PREPAUSE" => idx = Bits - 1 /\ code \in {"none", "event"} /\ dlycnt <= PauseLen
  /\ state = "ACTIVE" => code = "none" /\ dlycnt = 0
  /\ state = "PAUSE" => /\ code \in {"none", BitOf(epoch_time, idx)}
                        /\ dlycnt <= PauseLen
                        /\ code # "none" => dlycnt = 0
  /\ state = "CHECK_IF_LAST" => code = "none" /\ dlycnt = 0
  /\ state = "UPDATE" => code = "none" /\ idx = 0
  /\ state = "IDLE" => code \in {"none", "latch"}

\* The register of the bits is not cleared while bits are sent.
ClearInv == state # "IDLE" \/ code = "latch" => ~clear /\ ~clear_reg

\* The receiver took the bit of idx.
Ahead == state = "CHECK_IF_LAST" \/ (state = "PAUSE" /\ code = "none")

PosInv ==
  good => pos = IF state \in {"IDLE", "UPDATE"} THEN Bits - 1
                ELSE IF Ahead THEN (idx - 1) % Bits ELSE idx

\* t holds bits of n above i, and bit i too.
Above(t, n, i) == \A j \in Index : j > i => t[j] = BitsOf(n)[j]
Upward(t, n, i) == \A j \in Index : j >= i => t[j] = BitsOf(n)[j]

TmpInv ==
  good =>
    /\ state \in {"ACTIVE", "PAUSE"} => Above(seconds_tmp, epoch_time, idx)
    /\ Ahead => Upward(seconds_tmp, epoch_time, idx)
    /\ state = "UPDATE" \/ code = "latch" => seconds_tmp = BitsOf(epoch_time)

\* A register that is known holds a second that was sent, an earlier one while a
\* transmission is under way.
Earlier(s, n, b) == secondsReg = BitsOf(s) /\ (b => s < n)
KnownInv == known => \E s \in 0 .. epoch_time : Earlier(s, epoch_time, Sending)

StampInv == mono /\ known => Later(TimeStamp, <<ValueOf(secondsReg), offsetReg>>)

LinkInv == /\ TxType /\ TsType /\ FlagType /\ TxInv /\ ClearInv
           /\ PosInv /\ TmpInv /\ KnownInv /\ StampInv

LEMMA TsGenSteps == ASSUME rst \in BOOLEAN, TsGen PROVE TsStep
BY DEF TsGen, TsStep

LEMMA BitCodes ==
  ASSUME NEW n \in Nat, NEW i \in Index
  PROVE  \/ BitsOf(n)[i] = 0 /\ BitOf(n, i) = "zero"
         \/ BitsOf(n)[i] = 1 /\ BitOf(n, i) = "one"
<1>1. BitsOf(n)[i] \in 0 .. 1  BY BitsType
<1>2. BitsOf(n)[i] = 0 => BitOf(n, i) = "zero"  BY DEF BitOf, BitCode
<1>3. BitsOf(n)[i] = 1 => BitOf(n, i) = "one"  BY DEF BitOf, BitCode
<1> QED BY <1>1, <1>2, <1>3

\* The states in which each code is on the link.
LEMMA CodeState ==
  ASSUME TxType, TxInv
  PROVE  /\ code = "latch" => state = "IDLE"
         /\ code = "event" => state = "PREPAUSE"
         /\ IsBit(code) => state = "PAUSE" /\ code = BitOf(epoch_time, idx)
         /\ IsBit(code) \/ code \in {"none", "event", "latch"}
<1>1. epoch_time \in Nat /\ idx \in Index  BY DEF TxType
<1>2. BitOf(epoch_time, idx) \in {"zero", "one"}  BY <1>1, BitCodes
<1> QED BY <1>2 DEF TxType, TxInv, IsBit, Codes

\* The receiver's pointer wraps.
LEMMA PosStep ==
  ASSUME NEW i \in Index
  PROVE  (i - 1) % Bits = IF i = 0 THEN Bits - 1 ELSE i - 1
<1>1. Bits \in Nat /\ Bits >= 2 /\ i \in 0 .. Bits - 1  BY BoundType DEF Index
<1>2. i = 0 => (0 - 1) % Bits = Bits - 1
  <2>1. 0 - 1 = Bits * (-1) + (Bits - 1) /\ Bits - 1 \in 0 .. Bits - 1  BY <1>1
  <2> QED BY <1>1, <2>1, Remainder
<1>3. i # 0 => (i - 1) % Bits = i - 1
  <2>1. i # 0 => i - 1 = Bits * 0 + (i - 1) /\ i - 1 \in 0 .. Bits - 1  BY <1>1
  <2> QED BY <1>1, <2>1, Remainder
<1> QED BY <1>2, <1>3

LEMMA ConstType ==
  /\ PauseLen \in Nat /\ OffMod \in Nat /\ OffMod >= 2
  /\ MyDelay \in Nat /\ MyDelay >= 1 /\ MyWidth \in Nat /\ MyWidth >= 1
  /\ MaxGap \in Nat /\ MaxGap >= 1
  /\ Seconds \in Nat /\ Seconds \in 0 .. Weight[Bits] - 1
<1>1. Weight[Bits] \in Nat /\ Weight[Bits] >= 1  BY WeightType, BoundType
<1> QED BY <1>1, EventAssumption

LEMMA TxStep ==
  ASSUME TxType, TxInv, TsStep
  PROVE  TxType' /\ TxInv'
<1>0. /\ PauseLen \in Nat /\ Seconds \in Nat /\ Bits \in Nat /\ Bits >= 2
      /\ 0 \in Index /\ Bits - 1 \in Index
  BY ConstType, BoundType DEF Index
<1>1. CASE rst /\ state' = "IDLE" /\ code' = "none" /\ epoch_time' = 0 /\ UNCHANGED <<idx, dlycnt>>
  BY <1>0, <1>1 DEF TxType, TxInv, Codes
<1>2. CASE Tick
  <2>1. epoch_time \in 0 .. Seconds /\ epoch_time < Seconds  BY <1>2 DEF Tick, TxType
  <2>2. epoch_time + 1 \in 0 .. Seconds  BY <1>0, <2>1
  <2> QED BY <1>0, <1>2, <2>2 DEF Tick, Go, TxType, TxInv, Codes
<1>3. CASE Quiet  BY <1>0, <1>3 DEF Quiet, Go, TxType, TxInv, Codes
<1>4. CASE Send1Hz  BY <1>0, <1>4 DEF Send1Hz, Go, TxType, TxInv, Codes
<1>5. CASE SendBit
  <2>1. epoch_time \in Nat /\ idx \in Index  BY <1>0 DEF TxType
  <2>2. code' = BitOf(epoch_time, idx)  BY <1>5 DEF SendBit, Go, BitOf
  <2>3. code' \in {"zero", "one"}  BY <2>1, <2>2, BitCodes
  <2>4. state = "ACTIVE" /\ state' = "PAUSE" /\ UNCHANGED <<idx, dlycnt, epoch_time>>
    BY <1>5 DEF SendBit, Go
  <2>5. code' = BitOf(epoch_time', idx')  BY <2>2, <2>4
  <2>6. dlycnt' = 0  BY <2>4 DEF TxInv
  <2> QED BY <1>0, <2>3, <2>4, <2>5, <2>6 DEF TxType, TxInv, Codes
<1>6. CASE CheckIfLast
  <2>1. idx # 0 => idx - 1 \in Index  BY <1>0 DEF TxType, Index
  <2> QED BY <1>0, <1>6, <2>1 DEF CheckIfLast, Go, TxType, TxInv, Codes
<1>7. CASE Update  BY <1>0, <1>7 DEF Update, Go, TxType, TxInv, Codes
<1>8. ASSUME NEW from, NEW to, Wait(from, to), \/ from = "PREPAUSE" /\ to = "ACTIVE"
                                               \/ from = "PAUSE" /\ to = "CHECK_IF_LAST"
      PROVE TxType' /\ TxInv'
  <2>1. dlycnt \in 0 .. PauseLen + 1 /\ dlycnt <= PauseLen
    BY <1>8 DEF Wait, Go, TxType, TxInv
  <2>2. dlycnt = PauseLen => dlycnt' = 0 /\ state' = to
    BY <1>8 DEF Wait, Go
  <2>3. dlycnt # PauseLen => dlycnt' = dlycnt + 1 /\ state' = from
    BY <1>8 DEF Wait, Go
  <2>4. dlycnt # PauseLen => dlycnt' \in 0 .. PauseLen + 1 /\ dlycnt' <= PauseLen
    BY <1>0, <2>1, <2>3
  <2>5. code' = "none" /\ UNCHANGED <<idx, epoch_time>> /\ state = from
    BY <1>8 DEF Wait, Go
  <2>6. from = "PREPAUSE" => idx' = Bits - 1  BY <2>5 DEF TxInv
  <2>7. dlycnt' \in 0 .. PauseLen + 1  BY <1>0, <2>2, <2>4
  <2>8. TxType'  BY <1>8, <2>2, <2>3, <2>5, <2>7 DEF TxType, Codes
  <2>9. TxInv'
    <3>1. CASE dlycnt = PauseLen  BY <1>8, <2>2, <2>5, <3>1, <2>6 DEF TxInv
    <3>2. CASE dlycnt # PauseLen  BY <1>8, <2>3, <2>4, <2>5, <3>2, <2>6 DEF TxInv
    <3> QED BY <3>1, <3>2
  <2> QED BY <2>8, <2>9
<1>9. CASE Wait("PREPAUSE", "ACTIVE") \/ Wait("PAUSE", "CHECK_IF_LAST")  BY <1>8, <1>9
<1> QED BY <1>1, <1>2, <1>3, <1>4, <1>5, <1>6, <1>7, <1>9 DEF TsStep

LEMMA TsTypeStep ==
  ASSUME TsType, FlagType, NEW e, ReceiveTime(e)
  PROVE  TsType'
<1>0. /\ OffMod \in Nat /\ OffMod >= 2 /\ Bits \in Nat /\ Bits >= 2
      /\ Bits - 1 \in Index
      /\ BitsOf(0) \in [Index -> 0 .. 1]
      /\ Weight[Bits] \in Nat /\ Weight[Bits] >= 1
  BY ConstType, BoundType, BitsType, WeightType DEF Index
<1>1. pos' \in Index
  <2>1. (pos - 1) % Bits \in Index  BY <1>0, PosStep DEF TsType, Index
  <2> QED BY <1>0, <2>1 DEF TsType, ReceiveTime, Position
<1>2. seconds_tmp' \in [Index -> 0 .. 1]
  BY <1>0 DEF TsType, ReceiveTime, SecondsControl
<1>3. secondsReg' \in [Index -> 0 .. 1]
  BY DEF TsType, ReceiveTime, RegisterSeconds
<1>4. offsetReg' \in 0 .. OffMod - 1
  <2>1. offsetReg \in Nat  BY DEF TsType
  <2>2. (offsetReg + 1) % OffMod \in 0 .. OffMod - 1  BY <1>0, <2>1
  <2> QED BY <1>0, <2>2 DEF ReceiveTime, OffsetControl
<1>5. TimeStamp' \in (0 .. Weight[Bits] - 1) \X (0 .. OffMod - 1)
  <2>1. ValueOf(secondsReg) \in 0 .. Weight[Bits] - 1  BY ValueType DEF TsType
  <2>2. 0 \in 0 .. Weight[Bits] - 1 /\ 0 \in 0 .. OffMod - 1  BY <1>0
  <2>3. TimeStamp' = <<0, 0>> \/ TimeStamp' = <<ValueOf(secondsReg), offsetReg>>
    BY DEF ReceiveTime, TimestampControl
  <2> QED BY <2>1, <2>2, <2>3 DEF TsType
<1> QED BY <1>1, <1>2, <1>3, <1>4, <1>5 DEF TsType

LEMMA FlagTypeStep ==
  ASSUME FlagType, NEW e, Takes(e)
  PROVE  FlagType'
<1>1. clear' \in BOOLEAN /\ clear_reg' \in BOOLEAN  BY DEF FlagType, Takes, ReceiveTime, ClearControl
<1>2. rst' \in BOOLEAN /\ mono' \in BOOLEAN /\ known' \in BOOLEAN  BY DEF FlagType, Takes
<1>3. good' \in BOOLEAN  BY DEF FlagType, Takes
<1>4. gap' \in 0 .. MaxGap  BY ConstType DEF Takes
<1> QED BY <1>1, <1>2, <1>3, <1>4 DEF FlagType

LEMMA ClearStep ==
  ASSUME TxType, TxInv, ClearInv, TsStep, NEW e \in {code, "none"}, ReceiveTime(e)
  PROVE  ClearInv'
<1>1. clear' = (e = "latch") /\ clear_reg' = clear  BY DEF ReceiveTime, ClearControl
<1>2. ASSUME state' # "IDLE" \/ code' = "latch" PROVE code # "latch" /\ ~clear
  <2>1. CASE rst /\ state' = "IDLE" /\ code' = "none"  BY <1>2, <2>1
  <2>2. CASE Tick  BY <2>2 DEF Tick
  <2>3. CASE Quiet  BY <1>2, <2>3 DEF Quiet, Go
  <2>4. CASE state # "IDLE"  BY <2>4, CodeState DEF ClearInv
  <2> QED BY <2>1, <2>2, <2>3, <2>4 DEF TsStep, Send1Hz, SendBit, CheckIfLast, Update, Wait, Go
<1> QED BY <1>1, <1>2 DEF ClearInv

\* Where the sender goes on from, with the pointer and the bits of the receiver.
LEMMA LatchSent ==
  ASSUME TxType, TxInv, TsStep, code = "latch"
  PROVE  state = "IDLE" /\ state' = "IDLE" /\ code' = "none" /\ (~rst => UNCHANGED epoch_time)
<1>1. state = "IDLE"  BY CodeState
<1> QED BY <1>1 DEF TsStep, Tick, Quiet, Send1Hz, SendBit, CheckIfLast, Update, Wait, Go

LEMMA RestState ==
  ASSUME TsStep, rst \/ Tick \/ Quiet
  PROVE  state' \in {"IDLE", "SEND_1HZ"} /\ code' = "none"
BY DEF TsStep, Tick, Quiet, Send1Hz, SendBit, CheckIfLast, Update, Wait, Go

LEMMA PosInvStep ==
  ASSUME TxType, TsType, FlagType, TxInv, PosInv, TsStep, NEW e \in {code, "none"}, Takes(e)
  PROVE  PosInv'
<1> SUFFICES ASSUME good' PROVE PosInv'
  BY DEF PosInv
<1>0. idx \in Index /\ Bits \in Nat /\ Bits >= 2 /\ pos \in Index /\ idx \in Nat
  BY BoundType DEF TxType, TsType
<1>1. pos' = IF e = "latch" THEN Bits - 1 ELSE IF IsBit(e) THEN (pos - 1) % Bits ELSE pos
  BY DEF Takes, ReceiveTime, Position
<1>2. CASE e = "latch"
  <2>1. state' = "IDLE"  BY <1>2, LatchSent
  <2> QED BY <1>1, <1>2, <2>1 DEF PosInv
<1>3. CASE e # "latch"
  <2>1. good /\ ~(rst /\ Sending) /\ (IsBit(code) => e = code)  BY <1>3 DEF Takes
  <2>2. pos = IF state \in {"IDLE", "UPDATE"} THEN Bits - 1
              ELSE IF Ahead THEN (idx - 1) % Bits ELSE idx
    BY <2>1 DEF PosInv
  <2>3. ~IsBit(code) => ~IsBit(e)  BY DEF IsBit
  <2>4. state # "PAUSE" => ~IsBit(code)  BY CodeState
  <2>5. state # "PAUSE" => pos' = pos  BY <1>1, <1>3, <2>3, <2>4
  <2>6. CASE rst
    <3>1. state = "IDLE" /\ state' = "IDLE"  BY <2>1, <2>6 DEF Sending, TsStep
    <3> QED BY <2>2, <2>5, <3>1 DEF PosInv
  <2>7. CASE Tick
    <3>1. state = "IDLE" /\ state' = "SEND_1HZ" /\ idx' = Bits - 1  BY <2>7 DEF Tick, Go
    <3> QED BY <2>2, <2>5, <3>1 DEF PosInv, Ahead
  <2>8. CASE Quiet
    <3>1. state = "IDLE" /\ state' = "IDLE"  BY <2>8 DEF Quiet, Go
    <3> QED BY <2>2, <2>5, <3>1 DEF PosInv
  <2>9. CASE Send1Hz \/ Wait("PREPAUSE", "ACTIVE") \/ SendBit
    <3>1. state \in {"SEND_1HZ", "PREPAUSE", "ACTIVE"} /\ idx' = idx
      BY <2>9 DEF Send1Hz, Wait, SendBit, Go
    <3>2. pos = idx  BY <2>2, <3>1 DEF Ahead
    <3>3. state' \in {"PREPAUSE", "ACTIVE"} \/ (state' = "PAUSE" /\ code' # "none")
      <4>1. SendBit => state' = "PAUSE" /\ code' = BitOf(epoch_time, idx)
        BY DEF SendBit, Go, BitOf
      <4>2. BitOf(epoch_time, idx) \in {"zero", "one"}
        BY <1>0, BitCodes, ConstType DEF TxType
      <4> QED BY <2>9, <4>1, <4>2 DEF Send1Hz, Wait, Go
    <3>4. state' \notin {"IDLE", "UPDATE"} /\ ~Ahead'  BY <3>3 DEF Ahead
    <3>5. pos' = idx'  BY <2>5, <3>1, <3>2
    <3> QED BY <3>4, <3>5 DEF PosInv
  <2>10. CASE Wait("PAUSE", "CHECK_IF_LAST")
    <3>1. state = "PAUSE" /\ idx' = idx /\ code' = "none" /\ state' \in {"PAUSE", "CHECK_IF_LAST"}
      BY <2>10 DEF Wait, Go
    <3>2. Ahead' /\ state' \notin {"IDLE", "UPDATE"}  BY <3>1 DEF Ahead
    <3>3. pos' = (idx - 1) % Bits
      <4>1. CASE code = "none"
        <5>1. ~IsBit(e)  BY <4>1 DEF IsBit
        <5>2. Ahead  BY <3>1, <4>1 DEF Ahead
        <5> QED BY <1>1, <1>3, <2>2, <3>1, <5>1, <5>2
      <4>2. CASE code # "none"
        <5>1. IsBit(code)
          <6>1. code = BitOf(epoch_time, idx)  BY <3>1, <4>2 DEF TxInv
          <6>2. BitOf(epoch_time, idx) \in {"zero", "one"}
            BY <1>0, BitCodes, ConstType DEF TxType
          <6> QED BY <6>1, <6>2 DEF IsBit
        <5>2. IsBit(e)  BY <2>1, <5>1
        <5>3. ~Ahead  BY <3>1, <4>2 DEF Ahead
        <5> QED BY <1>1, <1>3, <2>2, <3>1, <5>2, <5>3
      <4> QED BY <4>1, <4>2
    <3> QED BY <3>1, <3>2, <3>3 DEF PosInv
  <2>11. CASE CheckIfLast
    <3>1. state = "CHECK_IF_LAST" /\ state' = (IF idx = 0 THEN "UPDATE" ELSE "ACTIVE")
          /\ idx' = IF idx = 0 THEN 0 ELSE idx - 1
      BY <2>11 DEF CheckIfLast, Go
    <3>2. pos = (idx - 1) % Bits  BY <2>2, <3>1 DEF Ahead
    <3>3. pos' = IF idx = 0 THEN Bits - 1 ELSE idx - 1  BY <1>0, <2>5, <3>1, <3>2, PosStep
    <3> QED BY <3>1, <3>3 DEF PosInv, Ahead
  <2>12. CASE Update
    <3>1. state = "UPDATE" /\ state' = "IDLE"  BY <2>12 DEF Update, Go
    <3> QED BY <2>2, <2>5, <3>1 DEF PosInv
  <2> QED BY <2>6, <2>7, <2>8, <2>9, <2>10, <2>11, <2>12 DEF TsStep
<1> QED BY <1>2, <1>3

LEMMA TmpInvStep ==
  ASSUME TxType, TsType, FlagType, TxInv, ClearInv, PosInv, TmpInv,
         TsStep, NEW e \in {code, "none"}, Takes(e)
  PROVE  TmpInv'
<1> SUFFICES ASSUME good' PROVE TmpInv'
  BY DEF TmpInv
<1>0. /\ idx \in Index /\ epoch_time \in Nat /\ Bits \in Nat /\ pos \in Index /\ idx \in Nat
      /\ seconds_tmp \in [Index -> 0 .. 1] /\ \A j \in Index : j \in Nat /\ j <= Bits - 1
  BY BoundType, ConstType DEF TxType, TsType, Index
<1>1. CASE rst \/ e = "latch" \/ Tick \/ Quiet
  <2>1. state' \in {"IDLE", "SEND_1HZ"} /\ code' = "none"  BY <1>1, LatchSent, RestState
  <2> QED BY <2>1 DEF TmpInv, Ahead
<1>2. ASSUME ~rst, e # "latch", state # "IDLE" PROVE TmpInv'
  <2>1. good /\ (IsBit(code) => e = code)  BY <1>2 DEF Takes
  <2>2. ~clear_reg  BY <1>2 DEF ClearInv
  <2>3. seconds_tmp' = IF IsBit(e) THEN [seconds_tmp EXCEPT ![pos] = IF e = "one" THEN 1 ELSE 0]
                       ELSE seconds_tmp
    BY <1>2, <2>2 DEF Takes, ReceiveTime, SecondsControl
  <2>4. ~IsBit(code) => ~IsBit(e)  BY DEF IsBit
  <2>5. state # "PAUSE" => ~IsBit(code)  BY CodeState
  <2>6. state # "PAUSE" => seconds_tmp' = seconds_tmp  BY <2>3, <2>4, <2>5
  <2>7. CASE Send1Hz
    <3>1. state' = "PREPAUSE" /\ code' = "event"  BY <2>7 DEF Send1Hz, Go
    <3> QED BY <3>1 DEF TmpInv, Ahead
  <2>8. CASE Wait("PREPAUSE", "ACTIVE")
    <3>1. state' \in {"PREPAUSE", "ACTIVE"} /\ code' = "none" /\ idx' = idx /\ state = "PREPAUSE"
      BY <2>8 DEF Wait, Go
    <3>2. idx = Bits - 1  BY <3>1 DEF TxInv
    <3>3. Above(seconds_tmp', epoch_time', idx')  BY <1>0, <3>1, <3>2 DEF Above
    <3> QED BY <3>1, <3>3 DEF TmpInv, Ahead
  <2>9. CASE SendBit
    <3>1. /\ state = "ACTIVE" /\ state' = "PAUSE" /\ code' = BitOf(epoch_time, idx)
          /\ idx' = idx /\ epoch_time' = epoch_time
      BY <2>9 DEF SendBit, Go, BitOf
    <3>2. code' \in {"zero", "one"}  BY <1>0, <3>1, BitCodes
    <3>3. Above(seconds_tmp, epoch_time, idx)  BY <2>1, <3>1 DEF TmpInv
    <3>4. Above(seconds_tmp', epoch_time', idx')  BY <2>6, <3>1, <3>3
    <3> QED BY <3>1, <3>2, <3>4 DEF TmpInv, Ahead
  <2>10. CASE Wait("PAUSE", "CHECK_IF_LAST")
    <3>1. /\ state = "PAUSE" /\ idx' = idx /\ epoch_time' = epoch_time
          /\ code' = "none" /\ state' \in {"PAUSE", "CHECK_IF_LAST"}
      BY <2>10 DEF Wait, Go
    <3>2. Upward(seconds_tmp', epoch_time, idx)
      <4>1. CASE code = "none"
        <5>1. ~IsBit(e)  BY <4>1 DEF IsBit
        <5>2. Ahead  BY <3>1, <4>1 DEF Ahead
        <5>3. Upward(seconds_tmp, epoch_time, idx)  BY <2>1, <5>2 DEF TmpInv
        <5> QED BY <2>3, <5>1, <5>3
      <4>2. CASE code # "none"
        <5>1. code = BitOf(epoch_time, idx)  BY <3>1, <4>2 DEF TxInv
        <5>2. \/ BitsOf(epoch_time)[idx] = 0 /\ code = "zero"
              \/ BitsOf(epoch_time)[idx] = 1 /\ code = "one"
          BY <1>0, <5>1, BitCodes
        <5>3. IsBit(code) /\ e = code  BY <2>1, <5>2 DEF IsBit
        <5>4. ~Ahead  BY <3>1, <4>2 DEF Ahead
        <5>5. pos = idx  BY <2>1, <3>1, <5>4 DEF PosInv
        <5>6. seconds_tmp' = [seconds_tmp EXCEPT ![idx] = IF code = "one" THEN 1 ELSE 0]
          BY <2>3, <5>3, <5>5
        <5>7. seconds_tmp'[idx] = BitsOf(epoch_time)[idx]  BY <1>0, <5>2, <5>6
        <5>8. Above(seconds_tmp, epoch_time, idx)  BY <2>1, <3>1 DEF TmpInv
        <5>9. ASSUME NEW j \in Index, j > idx PROVE seconds_tmp'[j] = BitsOf(epoch_time)[j]
          <6>1. j # idx  BY <1>0, <5>9
          <6>2. seconds_tmp'[j] = seconds_tmp[j]  BY <1>0, <5>6, <6>1
          <6> QED BY <5>8, <5>9, <6>2 DEF Above
        <5>10. \A j \in Index : j >= idx => j = idx \/ j > idx  BY <1>0
        <5> QED BY <5>7, <5>9, <5>10 DEF Upward
      <4> QED BY <4>1, <4>2
    <3>3. Above(seconds_tmp', epoch_time, idx)
      <4>1. \A j \in Index : j > idx => j >= idx  BY <1>0
      <4> QED BY <3>2, <4>1 DEF Above, Upward
    <3> QED BY <3>1, <3>2, <3>3 DEF TmpInv, Ahead
  <2>11. CASE CheckIfLast
    <3>1. /\ state = "CHECK_IF_LAST" /\ state' = (IF idx = 0 THEN "UPDATE" ELSE "ACTIVE")
          /\ idx' = (IF idx = 0 THEN 0 ELSE idx - 1) /\ code' = "none" /\ epoch_time' = epoch_time
      BY <2>11 DEF CheckIfLast, Go
    <3>2. Upward(seconds_tmp', epoch_time', idx)  BY <2>1, <2>6, <3>1 DEF TmpInv, Ahead
    <3>3. CASE idx = 0
      <4>1. \A j \in Index : seconds_tmp'[j] = BitsOf(epoch_time')[j]
        BY <1>0, <3>2, <3>3 DEF Upward
      <4>2. BitsOf(epoch_time') \in [Index -> 0 .. 1]  BY <1>0, <3>1, BitsType
      <4>3. seconds_tmp' \in [Index -> 0 .. 1]  BY <1>0, <2>6, <3>1
      <4>4. seconds_tmp' = BitsOf(epoch_time')  BY <4>1, <4>2, <4>3
      <4> QED BY <3>1, <3>3, <4>4 DEF TmpInv, Ahead
    <3>4. CASE idx # 0
      <4>1. \A j \in Index : j > idx - 1 => j >= idx  BY <1>0
      <4>2. Above(seconds_tmp', epoch_time', idx')  BY <3>1, <3>2, <3>4, <4>1 DEF Above, Upward
      <4> QED BY <3>1, <3>4, <4>2 DEF TmpInv, Ahead
    <3> QED BY <3>3, <3>4
  <2>12. CASE Update
    <3>1. state = "UPDATE" /\ state' = "IDLE" /\ code' = "latch" /\ epoch_time' = epoch_time
      BY <2>12 DEF Update, Go
    <3>2. seconds_tmp' = BitsOf(epoch_time')  BY <2>1, <2>6, <3>1 DEF TmpInv
    <3> QED BY <3>1, <3>2 DEF TmpInv, Ahead
  <2>13. ~Tick /\ ~Quiet  BY <1>2 DEF Tick, Quiet, Go
  <2> QED BY <1>2, <2>7, <2>8, <2>9, <2>10, <2>11, <2>12, <2>13 DEF TsStep
<1>3. state = "IDLE" => rst \/ Tick \/ Quiet
  BY DEF TsStep, Send1Hz, SendBit, CheckIfLast, Update, Wait, Go
<1> QED BY <1>1, <1>2, <1>3

\* A latch code registers the second that was sent.
LEMMA Latched ==
  ASSUME TxType, TsType, TmpInv, good, code = "latch", NEW e, ReceiveTime(e), e = "latch"
  PROVE  secondsReg' = BitsOf(epoch_time)
<1>1. secondsReg' = seconds_tmp  BY DEF ReceiveTime, RegisterSeconds
<1>2. seconds_tmp = BitsOf(epoch_time)  BY DEF TmpInv
<1> QED BY <1>1, <1>2

LEMMA KnownStep ==
  ASSUME TxType, TsType, FlagType, TxInv, TmpInv, KnownInv,
         TsStep, NEW e \in {code, "none"}, Takes(e)
  PROVE  KnownInv'
<1> SUFFICES ASSUME known' PROVE \E s \in 0 .. epoch_time' : Earlier(s, epoch_time, Sending)'
  BY DEF KnownInv
<1>0. ~rst /\ epoch_time \in Nat
  <2>1. rst => ~known'  BY DEF Takes
  <2>2. epoch_time \in Nat  BY ConstType DEF TxType
  <2> QED BY <2>1, <2>2
<1>1. CASE e = "latch"
  <2>1. state' = "IDLE" /\ code' = "none" /\ epoch_time' = epoch_time  BY <1>0, <1>1, LatchSent
  <2>2. good  BY <1>0, <1>1 DEF Takes
  <2>3. secondsReg' = BitsOf(epoch_time)  BY <1>1, <2>2, Latched DEF Takes
  <2>4. ~Sending'  BY <2>1 DEF Sending
  <2>5. epoch_time \in 0 .. epoch_time'  BY <1>0, <2>1
  <2> QED BY <2>3, <2>4, <2>5 DEF Earlier
<1>2. CASE e # "latch"
  <2>1. known  BY <1>0, <1>2 DEF Takes
  <2>2. PICK s \in 0 .. epoch_time : Earlier(s, epoch_time, Sending)  BY <2>1 DEF KnownInv
  <2>3. secondsReg' = secondsReg  BY <1>2 DEF Takes, ReceiveTime, RegisterSeconds
  <2>4. CASE Tick
    <3>1. epoch_time' = epoch_time + 1  BY <2>4 DEF Tick
    <3>2. s \in 0 .. epoch_time' /\ s < epoch_time'  BY <1>0, <3>1
    <3> QED BY <2>2, <2>3, <3>2 DEF Earlier
  <2>5. CASE ~Tick
    <3>1. epoch_time' = epoch_time
      BY <1>0, <2>5 DEF TsStep, Quiet, Send1Hz, SendBit, CheckIfLast, Update, Wait, Go
    <3>2. Sending' => Sending
      BY <1>0, <2>5 DEF TsStep, Quiet, Send1Hz, SendBit, CheckIfLast, Update, Wait, Go, Sending
    <3> QED BY <2>2, <2>3, <3>1, <3>2 DEF Earlier
  <2> QED BY <2>4, <2>5
<1> QED BY <1>1, <1>2

\* A register that is known stands for a second that was sent.
LEMMA KnownValue ==
  ASSUME TxType, NEW s \in 0 .. epoch_time, Earlier(s, epoch_time, Sending)
  PROVE  ValueOf(secondsReg) = s
<1>1. epoch_time \in Nat /\ epoch_time <= Seconds  BY ConstType DEF TxType
<1>2. PICK w \in Nat : w = Weight[Bits]  BY WeightType, BoundType
<1>3. Seconds \in 0 .. w - 1  BY <1>2, ConstType
<1>4. s \in 0 .. w - 1  BY <1>1, <1>2, <1>3
<1> QED BY <1>2, <1>4, ValueOfBits DEF Earlier

LEMMA StampStep ==
  ASSUME TxType, TsType, FlagType, TxInv, TmpInv, KnownInv,
         TsStep, NEW e \in {code, "none"}, Takes(e)
  PROVE  StampInv'
<1> SUFFICES ASSUME mono', known' PROVE Later(TimeStamp', <<ValueOf(secondsReg'), offsetReg'>>)
  BY DEF StampInv
<1>0. ~rst /\ known /\ epoch_time \in Nat /\ OffMod \in Nat /\ offsetReg \in Nat
  <2>1. ~rst /\ known  BY DEF Takes
  <2>2. epoch_time \in Nat /\ OffMod \in Nat /\ offsetReg \in Nat  BY ConstType DEF TxType, TsType
  <2> QED BY <2>1, <2>2
<1> DEFINE v == ValueOf(secondsReg)
<1>1. v \in Nat  BY ValueType, WeightType, BoundType DEF TsType
<1>2. TimeStamp' = <<v, offsetReg>>  BY <1>0 DEF Takes, ReceiveTime, TimestampControl
<1>3. CASE e = "latch"
  <2>1. code = "latch"  BY <1>3
  <2>2. PICK s \in 0 .. epoch_time : Earlier(s, epoch_time, Sending)  BY <1>0 DEF KnownInv
  <2>3. s < epoch_time  BY <2>1, <2>2 DEF Earlier, Sending
  <2>4. v = s  BY <2>2, KnownValue
  <2>5. good  BY <1>0, <1>3 DEF Takes
  <2>6. secondsReg' = BitsOf(epoch_time)  BY <1>3, <2>1, <2>5, Latched DEF Takes
  <2>7. epoch_time \in 0 .. Weight[Bits] - 1
    <3>1. PICK w \in Nat : w = Weight[Bits]  BY WeightType, BoundType
    <3>2. Seconds \in 0 .. w - 1 /\ epoch_time \in 0 .. Seconds  BY <3>1, ConstType DEF TxType
    <3> QED BY <3>1, <3>2
  <2>8. ValueOf(secondsReg') = epoch_time  BY <2>6, <2>7, ValueOfBits
  <2> QED BY <1>2, <2>3, <2>4, <2>8 DEF Later
<1>4. CASE e # "latch"
  <2>1. secondsReg' = secondsReg  BY <1>4 DEF Takes, ReceiveTime, RegisterSeconds
  <2>2. offsetReg + 1 < OffMod  BY <1>0, <1>4 DEF Takes
  <2>3. (offsetReg + 1) % OffMod = offsetReg + 1
    <3>1. offsetReg + 1 = OffMod * 0 + (offsetReg + 1) /\ offsetReg + 1 \in 0 .. OffMod - 1
      BY <1>0, <2>2
    <3> QED BY <1>0, <2>2, <3>1, Remainder
  <2>4. offsetReg' = offsetReg + 1  BY <1>4, <2>3 DEF Takes, ReceiveTime, OffsetControl
  <2>5. ValueOf(secondsReg') = v  BY <2>1
  <2>6. offsetReg <= offsetReg'  BY <1>0, <2>4
  <2> HIDE DEF v
  <2> QED BY <1>2, <2>5, <2>6 DEF Later
<1> QED BY <1>3, <1>4

LEMMA LinkClock == ASSUME LinkInv, Clock PROVE LinkInv'
<1>1. PICK e \in {code, "none"} : Takes(e)  BY ClockTakes
<1>2. TsStep /\ ReceiveTime(e)  BY <1>1, TsGenSteps DEF Takes, LinkInv, FlagType
<1>3. TxType' /\ TxInv'  BY <1>2, TxStep DEF LinkInv
<1>4. TsType' /\ FlagType'  BY <1>1, <1>2, TsTypeStep, FlagTypeStep DEF LinkInv
<1>5. ClearInv'  BY <1>2, ClearStep DEF LinkInv
<1>6. PosInv'  BY <1>1, <1>2, PosInvStep DEF LinkInv
<1>7. TmpInv'  BY <1>1, <1>2, TmpInvStep DEF LinkInv
<1>8. KnownInv'  BY <1>1, <1>2, KnownStep DEF LinkInv
<1>9. StampInv'  BY <1>1, <1>2, StampStep DEF LinkInv
<1> QED BY <1>3, <1>4, <1>5, <1>6, <1>7, <1>8, <1>9 DEF LinkInv

\* The other steps leave the link alone, and the invariant does not look at rst.
LEMMA LinkOthers ==
  ASSUME LinkInv, rst' \in BOOLEAN, gap' \in 0 .. MaxGap, UNCHANGED <<txVars, tsVars, good, known, mono>>
  PROVE  LinkInv'
<1>1. UNCHANGED <<state, idx, dlycnt, epoch_time, code, pos, seconds_tmp, secondsReg, offsetReg,
                  clear, clear_reg, TimeStamp, good, known, mono>>
  BY DEF txVars, tsVars
<1>2. TxType' /\ TsType' /\ FlagType'  BY <1>1 DEF LinkInv, TxType, TsType, FlagType
<1>3. TxInv' /\ ClearInv'  BY <1>1 DEF LinkInv, TxInv, ClearInv
<1>4. Ahead' = Ahead /\ Sending' = Sending  BY <1>1 DEF Ahead, Sending
<1>5. PosInv'  BY <1>1, <1>4 DEF LinkInv, PosInv
<1>6. TmpInv'  BY <1>1, <1>4 DEF LinkInv, TmpInv
<1>7. KnownInv'  BY <1>1, <1>4 DEF LinkInv, KnownInv, Earlier
<1>8. StampInv'  BY <1>1 DEF LinkInv, StampInv
<1> QED BY <1>2, <1>3, <1>5, <1>6, <1>7, <1>8 DEF LinkInv

LEMMA LinkInit == Init => LinkInv
<1> SUFFICES ASSUME Init PROVE LinkInv
  OBVIOUS
<1>0. /\ Seconds \in Nat /\ PauseLen \in Nat /\ OffMod \in Nat /\ OffMod >= 2
      /\ 0 \in Index /\ Bits - 1 \in Index /\ BitsOf(0) \in [Index -> 0 .. 1]
  BY ConstType, BoundType, BitsType DEF Index
<1>1. 0 \in 0 .. Weight[Bits] - 1  BY WeightType, BoundType
<1>2. TxType  BY <1>0 DEF Init, TxType, Codes
<1>3. TsType
  <2>1. <<0, 0>> \in (0 .. Weight[Bits] - 1) \X (0 .. OffMod - 1)  BY <1>0, <1>1
  <2> QED BY <1>0, <2>1 DEF Init, TsType
<1>4. FlagType
  <2>1. 0 \in 0 .. MaxGap  BY ConstType
  <2>2. gap = 0 /\ rst = TRUE /\ clear = FALSE /\ clear_reg = FALSE
        /\ good = TRUE /\ known = FALSE /\ mono = FALSE
    BY DEF Init
  <2> QED BY <2>1, <2>2 DEF FlagType
<1>5. TxInv /\ ClearInv  BY DEF Init, TxInv, ClearInv
<1>6. PosInv /\ TmpInv  BY DEF Init, PosInv, TmpInv, Ahead
<1>7. KnownInv /\ StampInv  BY DEF Init, KnownInv, StampInv
<1> QED BY <1>2, <1>3, <1>4, <1>5, <1>6, <1>7 DEF LinkInv

LEMMA LinkNext == LinkInv /\ [Next]_vars => LinkInv'
<1> SUFFICES ASSUME LinkInv, [Next]_vars PROVE LinkInv'
  OBVIOUS
<1>1. CASE Clock  BY <1>1, LinkClock
<1>2. CASE AdcClock \/ Reset \/ EndReset
  <2>1. rst' \in BOOLEAN  BY <1>2 DEF LinkInv, FlagType, AdcClock, Reset, EndReset
  <2>2. gap' \in 0 .. MaxGap
    <3>1. MaxGap \in Nat /\ gap \in 0 .. MaxGap  BY ConstType DEF LinkInv, FlagType
    <3>2. AdcClock => gap < MaxGap /\ gap' = gap + 1  BY DEF AdcClock
    <3>3. Reset \/ EndReset => gap' = gap  BY DEF Reset, EndReset
    <3>4. gap < MaxGap => gap + 1 \in 0 .. MaxGap  BY <3>1
    <3> QED BY <1>2, <3>1, <3>2, <3>3, <3>4
  <2> QED BY <1>2, <2>1, <2>2, LinkOthers DEF AdcClock, Reset, EndReset
<1>3. CASE UNCHANGED vars
  <2>1. rst' \in BOOLEAN /\ gap' \in 0 .. MaxGap  BY <1>3 DEF LinkInv, FlagType, vars
  <2> QED BY <1>3, <2>1, LinkOthers DEF vars
<1> QED BY <1>1, <1>2, <1>3 DEF Next

\* A latch code that arrives after all its bits did leaves the second that was
\* sent in secondsReg, for any second, losses and resets (ts_gen.vhd with the
\* pointer and the registers of event_rcv_ts.vhd).
THEOREM SecondsArrive == Spec => SecondRight
<1>1. LinkInv /\ [Next]_vars => [gap' < gap /\ clear' /\ good => secondsReg' = BitsOf(epoch_time)]_vars
  <2> SUFFICES ASSUME LinkInv, Next, gap' < gap, clear', good
               PROVE  secondsReg' = BitsOf(epoch_time)
    OBVIOUS
  <2>1. Clock
    <3>1. gap \in Int  BY ConstType DEF LinkInv, FlagType
    <3>2. AdcClock => gap' = gap + 1  BY DEF AdcClock
    <3>3. Reset \/ EndReset => gap' = gap  BY DEF Reset, EndReset
    <3> QED BY <3>1, <3>2, <3>3 DEF Next
  <2>2. PICK e \in {code, "none"} : Takes(e)  BY <2>1, ClockTakes
  <2>3. ReceiveTime(e)  BY <2>2 DEF Takes
  <2>4. e = "latch"  BY <2>3 DEF ReceiveTime, ClearControl
  <2> QED BY <2>3, <2>4, Latched DEF LinkInv
<1> QED BY <1>1, LinkInit, LinkNext, PTL DEF Spec, SecondRight

\* Time stamps do not go backward, for any second, losses and resets, once a
\* whole second arrived and unless the offset wraps (the registers of
\* event_rcv_ts.vhd, which are set by different processes).
THEOREM TimeRuns == Spec => Monotone
<1>1. LinkInv /\ [Next]_vars => [mono /\ mono' => Later(TimeStamp, TimeStamp')]_vars
  <2> SUFFICES ASSUME LinkInv, Next, mono, mono' PROVE Later(TimeStamp, TimeStamp')
    OBVIOUS
  <2>1. CASE Clock
    <3>1. PICK e \in {code, "none"} : Takes(e)  BY <2>1, ClockTakes
    <3>2. ~rst /\ known  BY <3>1 DEF Takes
    <3>3. TimeStamp' = <<ValueOf(secondsReg), offsetReg>>
      BY <3>1, <3>2 DEF Takes, ReceiveTime, TimestampControl
    <3> QED BY <3>2, <3>3 DEF LinkInv, StampInv
  <2>2. CASE AdcClock \/ Reset \/ EndReset
    <3>1. TimeStamp' = TimeStamp  BY <2>2 DEF AdcClock, Reset, EndReset, tsVars
    <3>2. PICK w \in Nat : w = Weight[Bits]  BY WeightType, BoundType
    <3>3. TimeStamp[1] \in Nat /\ TimeStamp[2] \in Nat  BY <3>2, ConstType DEF LinkInv, TsType
    <3> QED BY <3>1, <3>3 DEF Later
  <2> QED BY <2>1, <2>2 DEF Next
<1> QED BY <1>1, LinkInit, LinkNext, PTL DEF Spec, Monotone

-----------------------------------------------------------------------------
(* The trigger: the clocks since the last event tell where its pulse is.   *)

\* Clocks after which nothing is left of an event.
Drained == MyDelay + MyWidth + 6

\* Clocks from an event to its bit i, and hence to the next event at least: the
\* sender has work enough for the receiver to be done with an event.
Base(i) == PauseLen + 1 + (Bits - 1 - i) * (PauseLen + 3)
Spaced  == Drained <= PauseLen + 1 + Bits * (PauseLen + 3)

\* event_rcv_chan a clocks after an event.
ChanAt(a) ==
  /\ startDelay <=> a <= MyDelay + 1
  /\ delayCounter = IF a <= MyDelay + 2 THEN a - 1 ELSE 0
  /\ startWidth <=> MyDelay + 3 <= a /\ a <= MyDelay + 3 + MyWidth
  /\ widthCounter = IF MyDelay + 3 <= a /\ a <= MyDelay + 4 + MyWidth
                    THEN a - (MyDelay + 3) ELSE 0
  /\ wasWidth <=> MyDelay + 4 <= a /\ a <= MyDelay + 4 + MyWidth

\* The stages s0, s1, s2 of sync_cdc a clocks after an event, when its clock came
\* g times since that of the link, with p triggers due.
Unseen(a, s0) == a <= MyDelay + 2 \/ (a <= MyDelay + 4 /\ ~s0)
Due(a, s0, s1, s2) == Unseen(a, s0) \/ (s0 /\ ~s1) \/ (s1 /\ ~s2)
StagesAt(a, g, s0, s1, s2) ==
  /\ a <= MyDelay + 2 => ~s0
  /\ a <= MyDelay + 4 /\ ~s0 => ~(s1 /\ ~s2)
  /\ a = MyDelay + 3 /\ g = 0 => ~s0
  /\ a = MyDelay + 4 /\ g > 0 => s0
  /\ MyDelay + 5 <= a /\ a <= MyDelay + 3 + MyWidth => s0
  /\ a = MyDelay + 4 + MyWidth /\ g = 0 => s0
  /\ a = MyDelay + 5 /\ g > 0 => ~(s0 /\ ~s1)
  /\ a >= MyDelay + 6 => ~(s0 /\ ~s1)
  /\ a = MyDelay + 6 /\ g > 0 => ~(s1 /\ ~s2)
  /\ a >= MyDelay + 7 => ~(s1 /\ ~s2)
  /\ a = MyDelay + MyWidth + 5 /\ g > 0 => ~s0
  /\ a >= MyDelay + MyWidth + 6 => ~s0
SyncAt(a, g, s0, s1, s2, p) ==
  StagesAt(a, g, s0, s1, s2) /\ p = IF Due(a, s0, s1, s2) THEN 1 ELSE 0

\* The sender a clocks after an event at least.
SentAt(a) ==
  /\ state \in {"SEND_1HZ", "IDLE", "UPDATE"} => a >= Drained
  /\ state = "PREPAUSE" => \/ code = "event" /\ dlycnt = 0 /\ a >= Drained
                           \/ code = "none" /\ dlycnt >= 1 /\ a >= dlycnt
  /\ state = "ACTIVE" => a >= Base(idx)
  /\ state = "PAUSE" => a >= Base(idx) + 1 + dlycnt
  /\ state = "CHECK_IF_LAST" => a >= Base(idx) + PauseLen + 2

AgeInv ==
  ~rst => \E a \in Nat : /\ a >= 1 /\ ChanAt(a) /\ SentAt(a)
                         /\ SyncAt(a, gap, sr[0], sr[1], sr[2], pending)

\* What holds in a reset too.
Still == ~startDelay /\ ~startWidth /\ ~wasWidth /\ delayCounter = 0
RestInv ==
  /\ pending \in {0, 1} /\ delayCounter \in 0 .. MyDelay + 1 /\ widthCounter \in 0 .. MyWidth + 1
  /\ Still => widthCounter = 0
  /\ Still /\ ~sr[0] /\ ~sr[1] /\ ~sr[2] => pending = 0
  /\ state = "UPDATE" => pending = 0

ChanType ==
  /\ startDelay \in BOOLEAN /\ startWidth \in BOOLEAN /\ wasWidth \in BOOLEAN
  /\ sr \in [0 .. 2 -> BOOLEAN] /\ sync_dly \in BOOLEAN

TriggerInv == LinkInv /\ ChanType /\ RestInv /\ AgeInv

LEMMA BaseSteps ==
  /\ \A i \in Index : Base(i) \in Nat
  /\ Base(Bits - 1) = PauseLen + 1
  /\ \A i \in Index : i # 0 => Base(i - 1) = Base(i) + PauseLen + 3
  /\ Base(0) + PauseLen + 3 = PauseLen + 1 + Bits * (PauseLen + 3)
<1>1. PICK h \in Nat : h = PauseLen + 3  BY ConstType
<1>2. PauseLen \in Nat /\ Bits \in Nat /\ \A i \in Index : i \in Nat /\ i <= Bits - 1
  BY ConstType, BoundType DEF Index
<1>3. ASSUME NEW i \in Index PROVE Base(i) \in Nat
  <2>1. Bits - 1 - i \in Nat  BY <1>2
  <2>2. (Bits - 1 - i) * h \in Nat  BY <1>1, <2>1
  <2> QED BY <1>1, <1>2, <2>2 DEF Base
<1>4. Base(Bits - 1) = PauseLen + 1
  <2>1. Bits - 1 - (Bits - 1) = 0  BY <1>2
  <2>2. 0 * h = 0  BY <1>1
  <2> QED BY <1>1, <1>2, <2>1, <2>2 DEF Base
<1>5. ASSUME NEW i \in Index, i # 0 PROVE Base(i - 1) = Base(i) + PauseLen + 3
  <2>1. PICK k \in Nat : k = Bits - 1 - i  BY <1>2
  <2>2. Bits - 1 - (i - 1) = k + 1  BY <1>2, <2>1
  <2>3. (k + 1) * h = k * h + h  BY <1>1
  <2>4. k * h \in Nat  BY <1>1, <2>1
  <2> QED BY <1>1, <1>2, <2>1, <2>2, <2>3, <2>4 DEF Base
<1>6. Base(0) + PauseLen + 3 = PauseLen + 1 + Bits * (PauseLen + 3)
  <2>1. PICK k \in Int : k = Bits - 1 - 0  BY <1>2
  <2>2. Bits = k + 1  BY <1>2, <2>1
  <2>3. (k + 1) * h = k * h + h /\ k * h \in Int  BY <1>1
  <2> QED BY <1>1, <1>2, <2>1, <2>2, <2>3 DEF Base
<1> QED BY <1>3, <1>4, <1>5, <1>6

LEMMA SyncClock ==
  ASSUME NEW a \in Nat, NEW g \in Nat, NEW s0 \in BOOLEAN, NEW s1 \in BOOLEAN, NEW s2 \in BOOLEAN,
         NEW p, a >= 1, g > 0, SyncAt(a, g, s0, s1, s2, p)
  PROVE  SyncAt(a + 1, 0, s0, s1, s2, p)
<1>0. MyDelay \in Nat /\ MyWidth \in Nat /\ MyWidth >= 1  BY ConstType
<1>1. StagesAt(a + 1, 0, s0, s1, s2)
  BY <1>0 DEF SyncAt, StagesAt
<1>2. Due(a + 1, s0, s1, s2) <=> Due(a, s0, s1, s2)
  BY <1>0 DEF SyncAt, StagesAt, Due, Unseen
<1> QED BY <1>1, <1>2 DEF SyncAt

LEMMA SyncEvent ==
  ASSUME NEW a \in Nat, NEW g \in Nat, NEW s0 \in BOOLEAN, NEW s1 \in BOOLEAN, NEW s2 \in BOOLEAN,
         NEW p, a >= Drained, SyncAt(a, g, s0, s1, s2, p)
  PROVE  p = 0 /\ SyncAt(1, 0, s0, s1, s2, p + 1)
<1>0. /\ MyDelay \in Nat /\ MyWidth \in Nat /\ MyWidth >= 1 /\ MyDelay >= 1
      /\ a >= MyDelay + MyWidth + 6
  BY ConstType DEF Drained
<1>1. ~s0 /\ ~(s1 /\ ~s2)
  BY <1>0 DEF SyncAt, StagesAt
<1>2. ~Due(a, s0, s1, s2)
  BY <1>0, <1>1 DEF Due, Unseen
<1>3. p = 0  BY <1>2 DEF SyncAt
<1>4. StagesAt(1, 0, s0, s1, s2)  BY <1>0, <1>1 DEF StagesAt
<1>5. Due(1, s0, s1, s2)  BY <1>0 DEF Due, Unseen
<1> QED BY <1>3, <1>4, <1>5 DEF SyncAt

\* What the first stage may see.
Seen(a, g, v) ==
  /\ a <= MyDelay + 2 => ~v
  /\ a = MyDelay + 3 /\ g > 0 => v
  /\ MyDelay + 4 <= a /\ a <= MyDelay + 3 + MyWidth => v
  /\ a = MyDelay + 4 + MyWidth /\ g > 0 => ~v
  /\ a >= MyDelay + 5 + MyWidth => ~v

LEMMA SyncAdc ==
  ASSUME NEW a \in Nat, NEW g \in Nat, NEW s0 \in BOOLEAN, NEW s1 \in BOOLEAN, NEW s2 \in BOOLEAN,
         NEW v \in BOOLEAN, NEW p, NEW q, a >= 1, SyncAt(a, g, s0, s1, s2, p), Seen(a, g, v),
         q = IF s1 /\ ~s2 THEN p - 1 ELSE p
  PROVE  SyncAt(a, g + 1, v, s0, s1, q)
<1>0. MyDelay \in Nat /\ MyWidth \in Nat /\ MyWidth >= 1 /\ g + 1 > 0 /\ g + 1 # 0  BY ConstType
<1>1. StagesAt(a, g + 1, v, s0, s1)
  BY <1>0 DEF SyncAt, StagesAt, Seen
<1>2. s1 /\ ~s2 => p = 1 /\ ~Due(a, v, s0, s1)
  BY <1>0 DEF SyncAt, StagesAt, Seen, Due, Unseen
<1>3. ~(s1 /\ ~s2) => (Due(a, v, s0, s1) <=> Due(a, s0, s1, s2))
  BY <1>0 DEF SyncAt, StagesAt, Seen, Due, Unseen
<1> QED BY <1>1, <1>2, <1>3 DEF SyncAt

\* The clock in which an event is received, and the one after.
Next1(a, e) == IF e = "event" THEN 1 ELSE a + 1

LEMMA ChanStep ==
  ASSUME NEW a \in Nat, a >= 1, ChanType, ChanAt(a), NEW e, Channel(e), ~rst,
         e = "event" => a >= Drained, NEW b, b = Next1(a, e)
  PROVE  ChanAt(b)' /\ b \in Nat /\ b >= 1
<1>0. MyDelay \in Nat /\ MyWidth \in Nat /\ MyWidth >= 1 /\ MyDelay >= 1  BY ConstType
<1>1. /\ delayCounter' = IF startDelay THEN delayCounter + 1
                         ELSE IF delayCounter >= MyDelay THEN 0 ELSE delayCounter
      /\ widthCounter' = IF startWidth THEN widthCounter + 1
                         ELSE IF widthCounter >= MyWidth THEN 0 ELSE widthCounter
      /\ startDelay' <=> e = "event" \/ (startDelay /\ delayCounter < MyDelay)
      /\ startWidth' <=> delayCounter > MyDelay \/ (startWidth /\ widthCounter < MyWidth)
      /\ wasWidth' <=> startWidth
  BY DEF Channel, DelayCounter, WidthCounter, StartDelay, StartWidth
<1>2. CASE e = "event"
  <2>1. b = 1  BY <1>2 DEF Next1
  <2>2. a >= MyDelay + MyWidth + 6  BY <1>2 DEF Drained
  <2>3. ~startDelay /\ delayCounter = 0 /\ ~startWidth /\ widthCounter = 0 /\ ~wasWidth
    BY <1>0, <2>2 DEF ChanAt
  <2>4. startDelay' /\ delayCounter' = 0 /\ ~startWidth' /\ widthCounter' = 0 /\ ~wasWidth'
    BY <1>0, <1>1, <1>2, <2>3 DEF ChanType
  <2> QED BY <1>0, <2>1, <2>4 DEF ChanAt
<1>3. CASE e # "event"
  <2>1. b = a + 1 /\ b \in Nat /\ b >= 1  BY <1>3 DEF Next1
  <2>2. startDelay' <=> b <= MyDelay + 1
    BY <1>0, <1>1, <1>3, <2>1 DEF ChanAt
  <2>3. delayCounter' = IF b <= MyDelay + 2 THEN b - 1 ELSE 0
    BY <1>0, <1>1, <2>1 DEF ChanAt
  <2>4. startWidth' <=> MyDelay + 3 <= b /\ b <= MyDelay + 3 + MyWidth
    BY <1>0, <1>1, <2>1 DEF ChanAt
  <2>5. widthCounter' = IF MyDelay + 3 <= b /\ b <= MyDelay + 4 + MyWidth
                        THEN b - (MyDelay + 3) ELSE 0
    BY <1>0, <1>1, <2>1 DEF ChanAt
  <2>6. wasWidth' <=> MyDelay + 4 <= b /\ b <= MyDelay + 4 + MyWidth
    BY <1>0, <1>1, <2>1 DEF ChanAt
  <2> QED BY <2>1, <2>2, <2>3, <2>4, <2>5, <2>6 DEF ChanAt
<1> QED BY <1>2, <1>3

LEMMA SentStep ==
  ASSUME Spaced, TxType, TxInv, NEW a \in Nat, SentAt(a), TsStep, ~rst,
         NEW e \in {code, "none"}, NEW b, b = Next1(a, e), a >= 1
  PROVE  SentAt(b)' /\ (e = "event" => a >= Drained)
<1>0. /\ PauseLen \in Nat /\ Bits \in Nat /\ Drained \in Nat
      /\ idx \in Index /\ idx \in Nat /\ dlycnt \in Nat
  BY ConstType, BoundType DEF TxType, Drained
<1>1. Base(idx) \in Nat  BY <1>0, BaseSteps
<1>2. ASSUME state # "PREPAUSE" PROVE b = a + 1 /\ e # "event"
  BY <1>2, CodeState DEF Next1
<1>3. CASE Tick \/ Quiet \/ Send1Hz
  <2>1. state \in {"IDLE", "SEND_1HZ"}  BY <1>3 DEF Tick, Quiet, Send1Hz, Go
  <2>2. a >= Drained /\ b = a + 1 /\ e # "event"  BY <1>2, <2>1 DEF SentAt
  <2>3. b >= Drained  BY <1>0, <2>2
  <2>4. state' \in {"IDLE", "SEND_1HZ"} \/ (state' = "PREPAUSE" /\ code' = "event" /\ dlycnt' = 0)
    <3>1. state = "SEND_1HZ" => dlycnt = 0  BY DEF TxInv
    <3> QED BY <1>3, <3>1 DEF Tick, Quiet, Send1Hz, Go
  <2> QED BY <2>2, <2>3, <2>4 DEF SentAt
<1>4. CASE Wait("PREPAUSE", "ACTIVE")
  <2>1. state = "PREPAUSE" /\ code' = "none" /\ idx' = idx /\ idx = Bits - 1
    BY <1>4 DEF Wait, Go, TxInv
  <2>2. \/ code = "event" /\ dlycnt = 0 /\ a >= Drained
        \/ code = "none" /\ dlycnt >= 1 /\ a >= dlycnt
    BY <2>1 DEF SentAt
  <2>3. e = "event" => a >= Drained  BY <2>2
  <2>4. b \in Nat /\ b >= dlycnt + 1
    <3>1. CASE e = "event"
      <4>1. b = 1 /\ dlycnt = 0  BY <2>2, <3>1 DEF Next1
      <4> QED BY <4>1
    <3>2. CASE e # "event"
      <4>1. b = a + 1 /\ a >= dlycnt  BY <1>0, <2>2, <3>2 DEF Next1
      <4> QED BY <1>0, <4>1
    <3> QED BY <3>1, <3>2
  <2>5. CASE dlycnt = PauseLen
    <3>1. state' = "ACTIVE"  BY <1>4, <2>5 DEF Wait, Go
    <3>2. b >= Base(idx')  BY <1>0, <2>1, <2>4, <2>5, BaseSteps
    <3> QED BY <2>3, <3>1, <3>2 DEF SentAt
  <2>6. CASE dlycnt # PauseLen
    <3>1. state' = "PREPAUSE" /\ dlycnt' = dlycnt + 1  BY <1>4, <2>6 DEF Wait, Go
    <3>2. b >= dlycnt' /\ dlycnt' >= 1  BY <1>0, <2>4, <3>1
    <3> QED BY <2>1, <2>3, <3>1, <3>2 DEF SentAt
  <2> QED BY <2>5, <2>6
<1>5. CASE SendBit
  <2>1. state = "ACTIVE" /\ state' = "PAUSE" /\ idx' = idx /\ dlycnt' = dlycnt /\ dlycnt = 0
    BY <1>5 DEF SendBit, Go, TxInv
  <2>2. a >= Base(idx) /\ b = a + 1 /\ e # "event"  BY <1>2, <2>1 DEF SentAt
  <2>3. b >= Base(idx') + 1 + dlycnt'  BY <1>1, <2>1, <2>2
  <2> QED BY <2>1, <2>2, <2>3 DEF SentAt
<1>6. CASE Wait("PAUSE", "CHECK_IF_LAST")
  <2>1. state = "PAUSE" /\ idx' = idx  BY <1>6 DEF Wait, Go
  <2>2. a >= Base(idx) + 1 + dlycnt /\ b = a + 1 /\ e # "event"  BY <1>2, <2>1 DEF SentAt
  <2>3. CASE dlycnt = PauseLen
    <3>1. state' = "CHECK_IF_LAST"  BY <1>6, <2>3 DEF Wait, Go
    <3>2. b >= Base(idx') + PauseLen + 2  BY <1>0, <1>1, <2>1, <2>2, <2>3
    <3> QED BY <2>2, <3>1, <3>2 DEF SentAt
  <2>4. CASE dlycnt # PauseLen
    <3>1. state' = "PAUSE" /\ dlycnt' = dlycnt + 1  BY <1>6, <2>4 DEF Wait, Go
    <3>2. b >= Base(idx') + 1 + dlycnt'  BY <1>0, <1>1, <2>1, <2>2, <3>1
    <3> QED BY <2>2, <3>1, <3>2 DEF SentAt
  <2> QED BY <2>3, <2>4
<1>7. CASE CheckIfLast
  <2>1. state = "CHECK_IF_LAST"  BY <1>7 DEF CheckIfLast, Go
  <2>2. a >= Base(idx) + PauseLen + 2 /\ b = a + 1 /\ e # "event"  BY <1>2, <2>1 DEF SentAt
  <2>3. b >= Base(idx) + PauseLen + 3  BY <1>0, <1>1, <2>2
  <2>4. CASE idx = 0
    <3>1. state' = "UPDATE"  BY <1>7, <2>4 DEF CheckIfLast, Go
    <3>2. PICK k \in Nat : k = Base(idx) + PauseLen + 3  BY <1>0, <1>1
    <3>3. k = PauseLen + 1 + Bits * (PauseLen + 3)  BY <2>4, <3>2, BaseSteps
    <3>4. k >= Drained  BY <3>3 DEF Spaced
    <3>5. b >= Drained  BY <1>0, <2>2, <2>3, <3>2, <3>4
    <3> QED BY <2>2, <3>1, <3>5 DEF SentAt
  <2>5. CASE idx # 0
    <3>1. state' = "ACTIVE" /\ idx' = idx - 1  BY <1>7, <2>5 DEF CheckIfLast, Go
    <3>2. Base(idx - 1) = Base(idx) + PauseLen + 3  BY <1>0, <2>5, BaseSteps
    <3>3. b >= Base(idx')  BY <2>3, <3>1, <3>2
    <3> QED BY <2>2, <3>1, <3>3 DEF SentAt
  <2> QED BY <2>4, <2>5
<1>8. CASE Update
  <2>1. state = "UPDATE" /\ state' = "IDLE"  BY <1>8 DEF Update, Go
  <2>2. a >= Drained /\ b = a + 1 /\ e # "event"  BY <1>2, <2>1 DEF SentAt
  <2>3. b >= Drained  BY <1>0, <2>2
  <2> QED BY <2>1, <2>2, <2>3 DEF SentAt
<1> QED BY <1>3, <1>4, <1>5, <1>6, <1>7, <1>8 DEF TsStep

LEMMA AgeRest ==
  ASSUME NEW a \in Nat, a >= 1, ChanAt(a)', SentAt(a)', ChanType', gap' \in Nat,
         SyncAt(a, gap', sr'[0], sr'[1], sr'[2], pending')
  PROVE  RestInv'
<1>0. MyDelay \in Nat /\ MyWidth \in Nat /\ MyWidth >= 1 /\ MyDelay >= 1  BY ConstType
<1>1. pending' \in {0, 1}  BY DEF SyncAt
<1>2. delayCounter' \in 0 .. MyDelay + 1 /\ widthCounter' \in 0 .. MyWidth + 1
  BY <1>0 DEF ChanAt
<1>3. Still' => a >= MyDelay + 5 + MyWidth  BY <1>0 DEF Still, ChanAt
<1>4. Still' => widthCounter' = 0  BY <1>0, <1>3 DEF ChanAt
<1>5. Still' /\ ~sr'[0] /\ ~sr'[1] /\ ~sr'[2] => pending' = 0
  <2>1. Still' => ~(a <= MyDelay + 4) /\ ~(a <= MyDelay + 2)  BY <1>0, <1>3
  <2> QED BY <2>1 DEF SyncAt, Due, Unseen
<1>6. state' = "UPDATE" => pending' = 0
  <2> SUFFICES ASSUME state' = "UPDATE" PROVE pending' = 0  OBVIOUS
  <2>1. a >= Drained  BY DEF SentAt, Drained
  <2>2. sr'[0] \in BOOLEAN /\ sr'[1] \in BOOLEAN /\ sr'[2] \in BOOLEAN  BY DEF ChanType
  <2> QED BY <2>1, <2>2, SyncEvent
<1> QED BY <1>1, <1>2, <1>4, <1>5, <1>6 DEF RestInv

LEMMA ChanTypeClock == ASSUME ChanType, NEW e, Takes(e) PROVE ChanType'
<1>1. startDelay' = (~rst /\ (e = "event" \/ (startDelay /\ delayCounter < MyDelay)))
  BY DEF Takes, Channel, StartDelay
<1>2. startWidth' = (~rst /\ (delayCounter > MyDelay \/ (startWidth /\ widthCounter < MyWidth)))
  BY DEF Takes, Channel, StartWidth
<1>3. startDelay' \in BOOLEAN  BY <1>1
<1>4. startWidth' \in BOOLEAN  BY <1>2
<1>5. wasWidth' = startWidth /\ sr' = sr /\ sync_dly' = sync_dly  BY DEF Takes, Channel
<1> QED BY <1>3, <1>4, <1>5 DEF ChanType

\* The first stage, whichever way it settles.
Sampled(v) ==
  /\ v \in {startWidth} \cup IF gap = 0 THEN {wasWidth} ELSE {}
  /\ sr' = [i \in 0 .. 2 |-> IF i = 0 THEN v ELSE sr[i - 1]]
  /\ sync_dly' = sr[2]

LEMMA SampledStages ==
  ASSUME ChanType, NEW v, Sampled(v)
  PROVE  /\ v \in BOOLEAN /\ sr' \in [0 .. 2 -> BOOLEAN] /\ sync_dly' \in BOOLEAN
         /\ sr'[0] = v /\ sr'[1] = sr[0] /\ sr'[2] = sr[1]
<1>1. v \in BOOLEAN  BY DEF Sampled, ChanType
<1>2. sr[0] \in BOOLEAN /\ sr[1] \in BOOLEAN /\ sr[2] \in BOOLEAN  BY DEF ChanType
<1>3. sr'[0] = v /\ sr'[1] = sr[0] /\ sr'[2] = sr[1]  BY DEF Sampled
<1>4. DOMAIN sr' = 0 .. 2 /\ sr' = [i \in 0 .. 2 |-> sr'[i]]  BY DEF Sampled
<1>5. \A i \in 0 .. 2 : sr'[i] \in BOOLEAN
  <2>1. \A i \in 0 .. 2 : i = 0 \/ i = 1 \/ i = 2  OBVIOUS
  <2> QED BY <1>1, <1>2, <1>3, <2>1
<1> QED BY <1>1, <1>2, <1>3, <1>4, <1>5 DEF Sampled

LEMMA SeenRight ==
  ASSUME NEW a \in Nat, a >= 1, ChanType, ChanAt(a), gap \in Nat, NEW v, Sampled(v)
  PROVE  Seen(a, gap, v)
<1>0. MyDelay \in Nat /\ MyWidth \in Nat /\ MyWidth >= 1 /\ MyDelay >= 1  BY ConstType
<1>1. (v = startWidth) \/ (gap = 0 /\ v = wasWidth)  BY DEF Sampled
<1>2. v = startWidth => Seen(a, gap, v)
  <2>1. startWidth <=> MyDelay + 3 <= a /\ a <= MyDelay + 3 + MyWidth  BY DEF ChanAt
  <2>2. Seen(a, gap, startWidth)  BY <1>0, <2>1 DEF Seen
  <2> QED BY <2>2
<1>3. gap = 0 /\ v = wasWidth => Seen(a, gap, v)
  <2>1. wasWidth <=> MyDelay + 4 <= a /\ a <= MyDelay + 4 + MyWidth  BY DEF ChanAt
  <2>2. gap = 0 => Seen(a, gap, wasWidth)  BY <1>0, <2>1 DEF Seen
  <2> QED BY <2>2
<1> QED BY <1>1, <1>2, <1>3

LEMMA TriggerClock ==
  ASSUME Spaced, TriggerInv, Clock
  PROVE  ChanType' /\ RestInv' /\ AgeInv'
<1>0. LinkInv /\ ChanType /\ RestInv /\ AgeInv /\ gap \in Nat /\ MyDelay \in Nat /\ MyWidth \in Nat
  BY ConstType DEF TriggerInv, LinkInv, FlagType
<1>1. PICK e \in {code, "none"} : Takes(e)  BY ClockTakes
<1>2. TsStep /\ rst' = rst /\ gap' = 0 /\ gap > 0 /\ sr' = sr
  BY <1>0, <1>1, TsGenSteps DEF Takes, LinkInv, FlagType
<1>3. ChanType'  BY <1>0, <1>1, ChanTypeClock
<1>4. CASE rst
  <2>1. AgeInv'  BY <1>2, <1>4 DEF AgeInv
  <2>2. pending' = 0 /\ delayCounter' = 0 /\ widthCounter' = 0
    BY <1>1, <1>4 DEF Takes, Channel, DelayCounter, WidthCounter
  <2>3. 0 \in 0 .. MyDelay + 1 /\ 0 \in 0 .. MyWidth + 1  BY <1>0
  <2>4. RestInv'  BY <2>2, <2>3 DEF RestInv
  <2> QED BY <1>3, <2>1, <2>4
<1>5. CASE ~rst
  <2>1. PICK a \in Nat : /\ a >= 1 /\ ChanAt(a) /\ SentAt(a)
                         /\ SyncAt(a, gap, sr[0], sr[1], sr[2], pending)
    BY <1>0, <1>5 DEF AgeInv
  <2>2. PICK b : b = Next1(a, e)  OBVIOUS
  <2>3. SentAt(b)' /\ (e = "event" => a >= Drained)
    BY <1>0, <1>2, <1>5, <2>1, <2>2, SentStep DEF LinkInv
  <2>4. ChanAt(b)' /\ b \in Nat /\ b >= 1
    <3>1. Channel(e)  BY <1>1 DEF Takes
    <3> QED BY <1>0, <1>5, <2>1, <2>2, <2>3, <3>1, ChanStep
  <2>5. sr[0] \in BOOLEAN /\ sr[1] \in BOOLEAN /\ sr[2] \in BOOLEAN  BY <1>0 DEF ChanType
  <2>6. SyncAt(b, gap', sr'[0], sr'[1], sr'[2], pending')
    <3>1. CASE e = "event"
      <4>1. b = 1  BY <2>2, <3>1 DEF Next1
      <4>2. pending' = pending + 1  BY <1>1, <1>5, <3>1 DEF Takes
      <4>3. SyncAt(1, 0, sr[0], sr[1], sr[2], pending + 1)
        BY <1>0, <2>1, <2>3, <2>5, <3>1, SyncEvent
      <4> QED BY <1>2, <4>1, <4>2, <4>3
    <3>2. CASE e # "event"
      <4>1. b = a + 1  BY <2>2, <3>2 DEF Next1
      <4>2. pending' = pending  BY <1>1, <1>5, <3>2 DEF Takes
      <4>3. SyncAt(a + 1, 0, sr[0], sr[1], sr[2], pending)
        BY <1>0, <1>2, <2>1, <2>5, SyncClock
      <4> QED BY <1>2, <4>1, <4>2, <4>3
    <3> QED BY <3>1, <3>2
  <2>7. AgeInv'  BY <2>3, <2>4, <2>6 DEF AgeInv
  <2>8. gap' \in Nat  BY <1>2
  <2>9. RestInv'  BY <1>3, <2>3, <2>4, <2>6, <2>8, AgeRest
  <2> QED BY <1>3, <2>7, <2>9
<1> QED BY <1>4, <1>5

LEMMA TriggerAdc ==
  ASSUME TriggerInv, AdcClock
  PROVE  ChanType' /\ RestInv' /\ AgeInv'
<1>0. LinkInv /\ ChanType /\ RestInv /\ AgeInv /\ gap \in Nat
  BY ConstType DEF TriggerInv, LinkInv, FlagType
<1>1. /\ rst' = rst /\ gap' = gap + 1
      /\ UNCHANGED <<state, idx, dlycnt, epoch_time, code,
                     startDelay, delayCounter, startWidth, widthCounter, wasWidth>>
  BY DEF AdcClock, txVars, chanVars
<1>2. CASE rst
  <2>1. sr' = [i \in 0 .. 2 |-> FALSE] /\ sync_dly' = FALSE /\ pending' = 0
    BY <1>2 DEF AdcClock, Sync
  <2>2. ChanType'  BY <1>0, <1>1, <2>1 DEF ChanType
  <2>3. Still' = Still  BY <1>1 DEF Still
  <2>4. RestInv'  BY <1>0, <1>1, <2>1, <2>3 DEF RestInv
  <2>5. AgeInv'  BY <1>1, <1>2 DEF AgeInv
  <2> QED BY <2>2, <2>4, <2>5
<1>3. CASE ~rst
  <2>1. PICK v : Sampled(v)  BY <1>3 DEF AdcClock, Sync, Sampled
  <2>2. /\ v \in BOOLEAN /\ sr' \in [0 .. 2 -> BOOLEAN] /\ sync_dly' \in BOOLEAN
        /\ sr'[0] = v /\ sr'[1] = sr[0] /\ sr'[2] = sr[1]
    BY <1>0, <2>1, SampledStages
  <2>3. ChanType'  BY <1>0, <1>1, <2>2 DEF ChanType
  <2>4. PICK a \in Nat : /\ a >= 1 /\ ChanAt(a) /\ SentAt(a)
                         /\ SyncAt(a, gap, sr[0], sr[1], sr[2], pending)
    BY <1>0, <1>3 DEF AgeInv
  <2>5. Seen(a, gap, v)  BY <1>0, <2>1, <2>4, SeenRight
  <2>6. sr[0] \in BOOLEAN /\ sr[1] \in BOOLEAN /\ sr[2] \in BOOLEAN  BY <1>0 DEF ChanType
  <2>7. pending' = IF sr[1] /\ ~sr[2] THEN pending - 1 ELSE pending
    <3>1. Rise <=> sr'[2] /\ ~sr[2]  BY <2>1 DEF Rise, Sampled
    <3>2. pending' = IF Rise THEN pending - 1 ELSE pending  BY <1>3 DEF AdcClock
    <3> QED BY <2>2, <3>1, <3>2
  <2>8. SyncAt(a, gap + 1, v, sr[0], sr[1], pending')
    <3>1. PICK s0 \in BOOLEAN, s1 \in BOOLEAN, s2 \in BOOLEAN : s0 = sr[0] /\ s1 = sr[1] /\ s2 = sr[2]
      BY <2>6
    <3>2. PICK p, q : p = pending /\ q = pending'  OBVIOUS
    <3>3. SyncAt(a, gap, s0, s1, s2, p)  BY <2>4, <3>1, <3>2
    <3>4. q = IF s1 /\ ~s2 THEN p - 1 ELSE p  BY <2>7, <3>1, <3>2
    <3>5. SyncAt(a, gap + 1, v, s0, s1, q)
      <4>1. a \in Nat /\ a >= 1 /\ gap \in Nat /\ v \in BOOLEAN /\ Seen(a, gap, v)
        BY <1>0, <2>2, <2>4, <2>5
      <4> QED BY ONLY <3>3, <3>4, <4>1, s0 \in BOOLEAN, s1 \in BOOLEAN, s2 \in BOOLEAN, SyncAdc
    <3> QED BY <3>1, <3>2, <3>5
  <2>9. SyncAt(a, gap', sr'[0], sr'[1], sr'[2], pending')  BY <1>1, <2>2, <2>8
  <2>10. ChanAt(a)'  BY <1>1, <2>4 DEF ChanAt
  <2>11. SentAt(a)'  BY <1>1, <2>4 DEF SentAt
  <2>12. AgeInv'  BY <2>4, <2>9, <2>10, <2>11 DEF AgeInv
  <2>13. gap' \in Nat  BY <1>0, <1>1
  <2>14. RestInv'  BY <2>3, <2>4, <2>9, <2>10, <2>11, <2>13, AgeRest
  <2> QED BY <2>3, <2>12, <2>14
<1> QED BY <1>2, <1>3

LEMMA TriggerEndReset ==
  ASSUME TriggerInv, EndReset
  PROVE  ChanType' /\ RestInv' /\ AgeInv'
<1>0. /\ LinkInv /\ ChanType /\ RestInv /\ MyDelay \in Nat /\ MyWidth \in Nat /\ MyWidth >= 1
      /\ gap \in Nat /\ MyDelay >= 1
  BY ConstType DEF TriggerInv, LinkInv, FlagType
<1>1. UNCHANGED <<state, idx, dlycnt, code, startDelay, delayCounter, startWidth, widthCounter,
                  wasWidth, sr, sync_dly, gap, pending>>
  BY DEF EndReset, txVars, chanVars, syncVars
<1>2. ~Sending /\ ~startDelay /\ ~startWidth /\ ~wasWidth /\ delayCounter = 0
      /\ sr = [i \in 0 .. 2 |-> FALSE]
  BY DEF EndReset
<1>3. ~sr[0] /\ ~sr[1] /\ ~sr[2]  BY <1>2
<1>4. widthCounter = 0 /\ pending = 0  BY <1>0, <1>2, <1>3 DEF RestInv, Still
<1>5. ChanType'  BY <1>0, <1>1 DEF ChanType
<1>6. RestInv'
  <2>1. Still' = Still  BY <1>1 DEF Still
  <2> QED BY <1>0, <1>1, <2>1 DEF RestInv
<1>7. Drained \in Nat /\ Drained >= 1  BY <1>0 DEF Drained
<1>8. ChanAt(Drained)  BY <1>0, <1>2, <1>4 DEF ChanAt, Drained
<1>9. SentAt(Drained)
  <2>1. state = "IDLE"  BY <1>2 DEF Sending
  <2>2. Drained >= Drained  BY <1>7
  <2> QED BY <2>1, <2>2 DEF SentAt
<1>10. SyncAt(Drained, gap, sr[0], sr[1], sr[2], pending)
  <2>1. ~Due(Drained, sr[0], sr[1], sr[2])  BY <1>0, <1>3 DEF Due, Unseen, Drained
  <2>2. StagesAt(Drained, gap, sr[0], sr[1], sr[2])  BY <1>0, <1>3 DEF StagesAt, Drained
  <2> QED BY <1>4, <2>1, <2>2 DEF SyncAt
<1>11. ChanAt(Drained)' /\ SentAt(Drained)'
  <2>1. PICK a : a = Drained  OBVIOUS
  <2>2. ChanAt(a)' /\ SentAt(a)'  BY <1>1, <1>8, <1>9, <2>1 DEF ChanAt, SentAt
  <2>3. Drained' = Drained  BY DEF Drained
  <2> QED BY <2>1, <2>2, <2>3
<1>12. AgeInv'
  <2>1. PICK a : a = Drained  OBVIOUS
  <2>2. ChanAt(a)' /\ SentAt(a)'  BY <1>1, <1>8, <1>9, <2>1 DEF ChanAt, SentAt
  <2>3. SyncAt(a, gap', sr'[0], sr'[1], sr'[2], pending')  BY <1>1, <1>10, <2>1
  <2> QED BY <1>7, <2>1, <2>2, <2>3 DEF AgeInv
<1> QED BY <1>5, <1>6, <1>12

LEMMA TriggerSame ==
  ASSUME TriggerInv, rst' = rst \/ rst' = TRUE,
         UNCHANGED <<txVars, tsVars, chanVars, syncVars, gap, pending, good, known, mono>>
  PROVE  ChanType' /\ RestInv' /\ AgeInv'
<1>1. UNCHANGED <<state, idx, dlycnt, code, epoch_time, startDelay, delayCounter, startWidth,
                  widthCounter, wasWidth, sr, sync_dly, gap, pending>>
  BY DEF txVars, chanVars, syncVars
<1>2. ChanType'  BY <1>1 DEF TriggerInv, ChanType
<1>3. Still' = Still  BY <1>1 DEF Still
<1>4. RestInv'  BY <1>1, <1>3 DEF TriggerInv, RestInv
<1>5. ASSUME ~rst' PROVE AgeInv'
  <2>1. ~rst  BY <1>5
  <2>2. PICK a \in Nat : /\ a >= 1 /\ ChanAt(a) /\ SentAt(a)
                         /\ SyncAt(a, gap, sr[0], sr[1], sr[2], pending)
    BY <2>1 DEF TriggerInv, AgeInv
  <2>3. ChanAt(a)' /\ SentAt(a)'  BY <1>1, <2>2 DEF ChanAt, SentAt
  <2>4. SyncAt(a, gap', sr'[0], sr'[1], sr'[2], pending')  BY <1>1, <2>2
  <2> QED BY <2>2, <2>3, <2>4 DEF AgeInv
<1>6. rst' => AgeInv'  BY DEF AgeInv
<1> QED BY <1>2, <1>4, <1>5, <1>6

LEMMA TriggerInit == Init => TriggerInv
<1> SUFFICES ASSUME Init PROVE TriggerInv
  OBVIOUS
<1>1. LinkInv  BY LinkInit
<1>2. ChanType  BY DEF Init, ChanType
<1>3. RestInv
  <2>1. 0 \in 0 .. MyDelay + 1 /\ 0 \in 0 .. MyWidth + 1  BY ConstType
  <2> QED BY <2>1 DEF Init, RestInv
<1>4. AgeInv  BY DEF Init, AgeInv
<1> QED BY <1>1, <1>2, <1>3, <1>4 DEF TriggerInv

LEMMA TriggerNext == Spaced /\ TriggerInv /\ [Next]_vars => TriggerInv'
<1> SUFFICES ASSUME Spaced, TriggerInv, [Next]_vars PROVE TriggerInv'
  OBVIOUS
<1>1. LinkInv'  BY LinkNext DEF TriggerInv
<1>2. CASE Clock  BY <1>1, <1>2, TriggerClock DEF TriggerInv
<1>3. CASE AdcClock  BY <1>1, <1>3, TriggerAdc DEF TriggerInv
<1>4. CASE Reset
  <2>1. ChanType' /\ RestInv' /\ AgeInv'  BY <1>4, TriggerSame DEF Reset
  <2> QED BY <1>1, <2>1 DEF TriggerInv
<1>5. CASE EndReset  BY <1>1, <1>5, TriggerEndReset DEF TriggerInv
<1>6. CASE UNCHANGED vars
  <2>1. ChanType' /\ RestInv' /\ AgeInv'  BY <1>6, TriggerSame DEF vars
  <2> QED BY <1>1, <2>1 DEF TriggerInv
<1> QED BY <1>2, <1>3, <1>4, <1>5, <1>6 DEF Next

\* The registers stay in range; those of event_rcv_chan.vhd only if the events
\* are spaced.
THEOREM TypeCorrect == Spaced /\ Spec => []TypeOK
<1> SUFFICES ASSUME Spaced PROVE Spec => []TypeOK
  OBVIOUS
<1>1. TriggerInv => TypeOK
  BY DEF TriggerInv, LinkInv, TxType, TsType, FlagType, ChanType, RestInv, TypeOK
<1>2. TriggerInv /\ [Next]_vars => TriggerInv'  BY TriggerNext
<1> QED BY <1>1, <1>2, TriggerInit, PTL DEF Spec

\* Each event that arrives gives one trigger of the ADC's clock before the next,
\* for every ratio and phase of the clocks, settling of the first stage, loss and
\* reset, if the transmission of a second outlasts the pulse of its event
\* (event_rcv_chan.vhd and sync_cdc.vhd behind ts_gen.vhd).
THEOREM TriggerPerEvent == Spaced /\ Spec => []OneTrigger
<1> SUFFICES ASSUME Spaced PROVE Spec => []OneTrigger
  OBVIOUS
<1>1. TriggerInv => OneTrigger
  BY DEF TriggerInv, RestInv, OneTrigger
<1>2. TriggerInv /\ [Next]_vars => TriggerInv'  BY TriggerNext
<1> QED BY <1>1, <1>2, TriggerInit, PTL DEF Spec

=============================================================================
