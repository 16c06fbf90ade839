-------------------------- MODULE AccumulatorProofs ---------------------------
(***************************************************************************)
(* Proofs about Accumulator: its variables stay in range, and the          *)
(* accumulated charge is a sliding sum for every buffer size, word width   *)
(* and length.  Then about Startup: the accumulator is the one of          *)
(* Accumulator, so its sum is a sliding sum in the cycle as well, and the  *)
(* startup fault covers the filling of the buffer, for every length.       *)
(***************************************************************************)
EXTENDS Startup, TLAPS

\* The sum can be relied on.
Live == clean /\ accum_len > 0

\* The samples that are in the buffer or were, and the k-th sample of a history.
Written      == IF state = "IDLE" THEN Count ELSE Count - 1
Sample(t, k) == Wrap(t[k + 1] - t[k])

\* The cell written j samples before address w, for j in 1 .. n, n the length.
Back(w, n, j) == IF w >= j THEN w - j ELSE w - j + n + 1

\* Before the first sample everything is as after a reset.
StartInv ==
  clean /\ Count = 0 =>
    /\ state = "IDLE" /\ buffull = FALSE /\ bufcnt = 0
    /\ wraddr = 0 /\ rdaddr = 1 /\ accum = 0

WrenInv == wren <=> state = "UPDATE_PTRS"

\* The pointers chase each other around accum_len + 1 cells.
PtrInv == Live => /\ wraddr <= accum_len
                  /\ rdaddr = IF wraddr = accum_len THEN 0 ELSE wraddr + 1

\* The counters follow the samples.
CntInv == Live => /\ bufcnt = Least(Count, accum_len)
                  /\ (buffull <=> Count > accum_len)
                  /\ state # "IDLE" => Count > 0 /\ new_sample = Sample(totals, Count)

\* The cells behind wraddr hold the latest samples.
RamInv == Live => \A j \in 1 .. Least(Written, accum_len) :
                     dpram[Back(wraddr, accum_len, j)] = Sample(totals, Written + 1 - j)

\* The sum includes the latest sample from WAIT1 on.
SumInv ==
  Live => IF state = "CALC_ACCUM"
            THEN accum = Wrap(totals[Count] - totals[Count - Least(Count - 1, accum_len)])
            ELSE accum = Since(Count - Least(Count, accum_len))

Inv == /\ TypeOK /\ StartInv /\ WrenInv
       /\ PtrInv /\ CntInv /\ RamInv /\ SumInv

-----------------------------------------------------------------------------
(* Arithmetic on W values.                                                 *)

\* A value of three terms stays on 32 bits.
LEMMA WrapType ==
  ASSUME NEW x \in -(W - 1) .. 2 * W - 1
  PROVE  Wrap(x) \in 0 .. W - 1
BY AccumulatorAssumption DEF Wrap

\* Adding a difference to a difference gives the difference of the ends.
LEMMA WrapAdd ==
  ASSUME NEW a \in 0 .. W - 1, NEW b \in 0 .. W - 1, NEW c \in 0 .. W - 1
  PROVE  Wrap(Wrap(a - b) + Wrap(c - a) - 0) = Wrap(c - b)
BY AccumulatorAssumption DEF Wrap

\* And taking one off at the old end moves that end.
LEMMA WrapSlide ==
  ASSUME NEW a \in 0 .. W - 1, NEW b \in 0 .. W - 1, NEW c \in 0 .. W - 1,
         NEW d \in 0 .. W - 1
  PROVE  Wrap(Wrap(a - b) + Wrap(c - a) - Wrap(d - b)) = Wrap(c - d)
BY AccumulatorAssumption DEF Wrap

\* A sample is the difference of the running totals around it.
LEMMA WrapSample ==
  ASSUME NEW a \in 0 .. W - 1, NEW s \in 0 .. W - 1
  PROVE  Wrap(Wrap(a + s) - a) = s
BY AccumulatorAssumption DEF Wrap

-----------------------------------------------------------------------------
(* Type correctness.                                                       *)

LEMMA OneSeq ==
  ASSUME NEW S, NEW e \in S
  PROVE  <<e>> \in Seq(S) /\ <<e>> # << >>
OBVIOUS

LEMMA LastType ==
  ASSUME NEW S, NEW s \in Seq(S), s # << >>
  PROVE  Len(s) \in Nat \ {0} /\ s[Len(s)] \in S
OBVIOUS

LEMMA ZeroRange == 0 \in 0 .. W - 1 /\ 0 \in Addr /\ 1 \in Addr
BY AccumulatorAssumption DEF Addr

LEMMA InitType == Init => TypeOK
<1> SUFFICES ASSUME Init PROVE TypeOK
  OBVIOUS
<1>1. totals \in Seq(0 .. W - 1) /\ totals # << >>
  BY ZeroRange, OneSeq DEF Init
<1>2. dpram \in [Addr -> 0 .. W - 1]
  BY ZeroRange DEF Init
<1> QED BY <1>1, <1>2, ZeroRange DEF Init, TypeOK

LEMMA WriteType ==
  ASSUME TypeOK, Write
  PROVE  dpram' \in [Addr -> 0 .. W - 1]
BY DEF TypeOK, Write

LEMMA TrigType ==
  ASSUME TypeOK, Trig
  PROVE  TypeOK'
<1>1. new_sample' \in 0 .. W - 1
  BY AccumulatorAssumption DEF Trig, Larger, TypeOK
<1>2. Total \in 0 .. W - 1
  BY LastType DEF TypeOK, Total
<1>3. Wrap(Total + new_sample') \in 0 .. W - 1
  BY <1>1, <1>2, AccumulatorAssumption, WrapType
<1>4. totals' \in Seq(0 .. W - 1) /\ totals' # << >>
  BY <1>3 DEF Trig, TypeOK
<1>5. bufcnt' \in Addr /\ buffull' \in BOOLEAN
  <2>1. bufcnt \in 0 .. AddrMod - 1 /\ accum_len \in 0 .. AddrMod - 1 /\ buffull \in BOOLEAN
    BY DEF TypeOK, Addr
  <2>2. IF bufcnt >= accum_len THEN buffull' = TRUE /\ bufcnt' = bufcnt
                               ELSE bufcnt' = bufcnt + 1 /\ buffull' = buffull
    BY DEF Trig
  <2>3. CASE bufcnt >= accum_len
    BY <2>1, <2>2, <2>3 DEF Addr
  <2>4. CASE ~(bufcnt >= accum_len)
    <3>1. bufcnt' = bufcnt + 1 /\ buffull' = buffull
      BY <2>2, <2>4
    <3>2. bufcnt + 1 \in 0 .. AddrMod - 1
      BY <2>1, <2>4, AccumulatorAssumption
    <3> QED BY <2>1, <3>1, <3>2 DEF Addr
  <2> QED BY <2>3, <2>4
<1>6. dpram' \in [Addr -> 0 .. W - 1]
  BY WriteType DEF Trig
<1> QED BY <1>1, <1>4, <1>5, <1>6 DEF Trig, TypeOK, ptrVars

LEMMA CalcAccumType ==
  ASSUME TypeOK, CalcAccum
  PROVE  TypeOK'
<1>1. end_sample \in 0 .. W - 1
  BY DEF TypeOK, end_sample
<1>2. accum' \in 0 .. W - 1
  <2>1. CASE buffull
    BY <2>1, <1>1, AccumulatorAssumption, WrapType DEF CalcAccum, TypeOK
  <2>2. CASE ~buffull
    BY <2>2, AccumulatorAssumption, WrapType DEF CalcAccum, TypeOK
  <2> QED BY <2>1, <2>2
<1>3. dpram' \in [Addr -> 0 .. W - 1]
  BY WriteType DEF CalcAccum
<1> QED BY <1>2, <1>3 DEF CalcAccum, TypeOK, cntVars, ptrVars

LEMMA NextType ==
  ASSUME TypeOK, [Next]_vars
  PROVE  TypeOK'
<1>1. CASE Trig  BY <1>1, TrigType
<1>2. CASE CalcAccum  BY <1>2, CalcAccumType
<1>3. CASE Wait1
  BY <1>3, WriteType DEF Wait1, TypeOK, cntVars, ptrVars
<1>4. CASE UpdateDpram
  BY <1>4, WriteType DEF UpdateDpram, TypeOK, cntVars, ptrVars
<1>5. CASE UpdatePtrs
  <2>1. rdaddr' \in Addr
    BY <1>5, AccumulatorAssumption DEF UpdatePtrs, TypeOK, Addr
  <2> QED BY <1>5, <2>1, WriteType DEF UpdatePtrs, TypeOK, cntVars
<1>6. CASE Reset
  <2>1. dpram' \in [Addr -> 0 .. W - 1]
    BY <1>6, WriteType DEF Reset
  <2>2. totals' \in Seq(0 .. W - 1) /\ totals' # << >>
    BY <1>6, ZeroRange, OneSeq DEF Reset
  <2> QED BY <1>6, <2>1, <2>2, ZeroRange DEF Reset, TypeOK
<1>7. CASE SetLen
  <2>1. dpram' \in [Addr -> 0 .. W - 1]
    BY <1>7, WriteType DEF SetLen
  <2> QED BY <1>7, <2>1, AccumulatorAssumption DEF SetLen, TypeOK, Addr, cntVars, ptrVars, Count
<1>8. CASE UNCHANGED vars
  BY <1>8 DEF TypeOK, vars, cntVars, ptrVars
<1> QED BY <1>1, <1>2, <1>3, <1>4, <1>5, <1>6, <1>7, <1>8 DEF Next

\* The variables keep to the widths of their signals.
THEOREM TypeCorrect == Spec => []TypeOK
<1>1. Init => TypeOK  BY InitType
<1>2. TypeOK /\ [Next]_vars => TypeOK'  BY NextType
<1> QED BY <1>1, <1>2, PTL DEF Spec

-----------------------------------------------------------------------------
(* The sliding sum.                                                        *)

\* Basic facts about the history of running totals.
LEMMA TotalsType ==
  ASSUME TypeOK
  PROVE  /\ Len(totals) \in Nat \ {0} /\ Count \in Nat /\ Len(totals) = Count + 1
         /\ \A k \in 1 .. Len(totals) : totals[k] \in 0 .. W - 1
         /\ accum_len \in Nat /\ wraddr \in Nat /\ rdaddr \in Nat
BY AccumulatorAssumption DEF TypeOK, Count, Addr

\* With no sample yet the invariant says no more than StartInv.
LEMMA StartGood ==
  TypeOK /\ WrenInv /\ StartInv /\ clean /\ Count = 0 => Inv
<1> SUFFICES ASSUME TypeOK, WrenInv, StartInv, clean, Count = 0 PROVE Inv
  OBVIOUS
<1>1. PtrInv
  BY TotalsType DEF StartInv, PtrInv, Live
<1>2. CntInv
  BY TotalsType DEF StartInv, CntInv, Live, Least
<1>3. RamInv
  BY TotalsType DEF StartInv, RamInv, Live, Least, Written
<1>4. SumInv
  <2>1. totals[1] \in 0 .. W - 1 /\ Len(totals) = 1
    BY TotalsType
  <2>2. Wrap(totals[1] - totals[1]) = 0
    BY <2>1, AccumulatorAssumption DEF Wrap
  <2>3. Since(0) = 0
    BY <2>1, <2>2 DEF Since, Total
  <2> QED BY <2>3, TotalsType DEF StartInv, SumInv, Live, Least
<1> QED BY <1>1, <1>2, <1>3, <1>4 DEF Inv

LEMMA InitInv == Init => Inv
<1> SUFFICES ASSUME Init PROVE Inv
  OBVIOUS
<1>1. TypeOK  BY InitType
<1>2. Count = 0 /\ clean  BY DEF Init, Count
<1>3. StartInv /\ WrenInv  BY DEF Init, StartInv, WrenInv
<1> QED BY <1>1, <1>2, <1>3, StartGood

LEMMA ResetInv ==
  ASSUME TypeOK, Reset
  PROVE  Inv'
<1>1. TypeOK'  BY NextType DEF Next
<1>2. (Count = 0 /\ clean)'  BY DEF Reset, Count
<1>3. (StartInv /\ WrenInv)'  BY DEF Reset, StartInv, WrenInv
<1>4. (TypeOK /\ WrenInv /\ StartInv /\ clean /\ Count = 0 => Inv)'
  BY StartGood, PTL
<1> QED BY <1>1, <1>2, <1>3, <1>4

LEMMA SetLenInv ==
  ASSUME Inv, SetLen
  PROVE  Inv'
<1>1. TypeOK'  BY NextType DEF Next, Inv
<1>2. Count' = Count  BY DEF SetLen, Count
<1>3. (StartInv /\ WrenInv)'
  BY <1>2 DEF SetLen, StartInv, WrenInv, Inv, cntVars, ptrVars
<1>4. CASE clean /\ Count = 0
  <2>1. clean' /\ Count' = 0
    BY <1>2, <1>4 DEF SetLen
  <2>2. (TypeOK /\ WrenInv /\ StartInv /\ clean /\ Count = 0 => Inv)'
    BY StartGood, PTL
  <2> QED BY <1>1, <1>3, <2>1, <2>2
<1>5. CASE ~(clean /\ Count = 0)
  <2>1. ~Live'
    BY <1>5 DEF SetLen, Live
  <2> QED BY <1>1, <1>3, <2>1 DEF Inv, PtrInv, CntInv, RamInv, SumInv
<1> QED BY <1>4, <1>5

LEMMA TrigInv ==
  ASSUME Inv, Trig
  PROVE  Inv'
<1>0. TypeOK /\ StartInv /\ WrenInv /\ PtrInv /\ CntInv /\ RamInv /\ SumInv
  BY DEF Inv
<1>1. TypeOK'  BY <1>0, NextType DEF Next
<1>2. /\ Count \in Nat /\ Count' = Count + 1 /\ Len(totals) = Count + 1
      /\ \A k \in 1 .. Count + 1 : totals'[k] = totals[k]
      /\ totals'[Count + 2] = Wrap(Total + new_sample')
      /\ Len(totals') = Count + 2
  BY <1>0, TotalsType DEF Trig, TypeOK, Count
<1>3. /\ state = "IDLE" /\ state' = "CALC_ACCUM" /\ ~wren /\ wren' = wren /\ dpram' = dpram
      /\ accum' = accum /\ accum_len' = accum_len /\ clean' = clean
      /\ wraddr' = wraddr /\ rdaddr' = rdaddr
  BY <1>0 DEF Trig, Write, WrenInv, ptrVars
<1>4. Written = Count /\ Written' = Count
  BY <1>2, <1>3 DEF Written
<1>5. \A k \in 1 .. Count : Sample(totals', k) = Sample(totals, k)
  BY <1>2 DEF Sample
<1>6. (StartInv /\ WrenInv)'
  BY <1>2, <1>3 DEF StartInv, WrenInv
<1>7. PtrInv'
  BY <1>0, <1>3 DEF PtrInv, Live
<1>8. CntInv'
  <2>1. new_sample' = Sample(totals', Count + 1)
    <3>1. Total = totals'[Count + 1]
      BY <1>2 DEF Total
    <3>2. Total \in 0 .. W - 1
      BY <1>0, LastType DEF Total, TypeOK
    <3>3. new_sample' \in 0 .. W - 1
      BY <1>1 DEF TypeOK
    <3>4. Wrap(Wrap(Total + new_sample') - Total) = new_sample'
      BY <3>2, <3>3, WrapSample
    <3>5. totals'[(Count + 1) + 1] = Wrap(Total + new_sample')
      BY <1>2
    <3> QED BY <3>1, <3>4, <3>5 DEF Sample
  <2>2. ASSUME Live
        PROVE  bufcnt' = Least(Count + 1, accum_len) /\ (buffull' <=> Count + 1 > accum_len)
    <3>1. bufcnt = Least(Count, accum_len) /\ (buffull <=> Count > accum_len)
      BY <1>0, <2>2 DEF CntInv
    <3>2. accum_len \in Nat
      BY <1>0, TotalsType
    <3>3. IF bufcnt >= accum_len THEN buffull' = TRUE /\ bufcnt' = bufcnt
                                 ELSE bufcnt' = bufcnt + 1 /\ buffull' = buffull
      BY DEF Trig
    <3>4. CASE Count >= accum_len
      <4>1. bufcnt = accum_len /\ bufcnt >= accum_len
        BY <3>1, <3>2, <3>4, <1>2 DEF Least
      <4>2. bufcnt' = accum_len /\ buffull'
        BY <3>3, <4>1
      <4> QED BY <3>2, <3>4, <4>2, <1>2 DEF Least
    <3>5. CASE Count < accum_len
      <4>1. bufcnt = Count /\ ~buffull
        BY <3>1, <3>2, <3>5, <1>2 DEF Least
      <4>2. bufcnt' = Count + 1 /\ ~buffull'
        BY <3>2, <3>3, <3>5, <4>1, <1>2
      <4> QED BY <3>2, <3>5, <4>2, <1>2 DEF Least
    <3> QED BY <3>2, <3>4, <3>5, <1>2
  <2>3. Live' => Live
    BY <1>3 DEF Live
  <2> QED BY <1>2, <1>3, <2>1, <2>2, <2>3 DEF CntInv
<1>9. RamInv'
  <2>1. ASSUME Live, NEW j \in 1 .. Least(Count, accum_len)
        PROVE  dpram[Back(wraddr, accum_len, j)] = Sample(totals', Count + 1 - j)
    <3>1. Count + 1 - j \in 1 .. Count
      BY <1>0, <1>2, TotalsType DEF Least
    <3>2. dpram[Back(wraddr, accum_len, j)] = Sample(totals, Count + 1 - j)
      BY <1>0, <1>4, <2>1 DEF RamInv
    <3> QED BY <1>5, <3>1, <3>2
  <2>2. Live' => Live
    BY <1>3 DEF Live
  <2> QED BY <1>3, <1>4, <2>1, <2>2 DEF RamInv
<1>10. SumInv'
  <2>1. ASSUME Live
        PROVE  accum = Wrap(totals'[Count + 1] - totals'[Count + 1 - Least(Count, accum_len)])
    <3>1. accum = Since(Count - Least(Count, accum_len))
      BY <1>0, <1>3, <2>1 DEF SumInv
    <3>2. /\ Count + 1 - Least(Count, accum_len) \in 1 .. Count + 1
          /\ Count - Least(Count, accum_len) + 1 = Count + 1 - Least(Count, accum_len)
      BY <1>0, <1>2, TotalsType DEF Least
    <3>3. totals'[Count + 1] = Total
      BY <1>2 DEF Total
    <3> QED BY <1>2, <3>1, <3>2, <3>3 DEF Since
  <2>2. Live' => Live
    BY <1>3 DEF Live
  <2>3. Count' - 1 = Count
    BY <1>2
  <2>4. Count' - Least(Count' - 1, accum_len') = Count + 1 - Least(Count, accum_len)
    <3>1. Least(Count' - 1, accum_len') = Least(Count, accum_len)
      BY <1>3, <2>3
    <3>2. Least(Count, accum_len) \in Nat
      BY <1>0, <1>2, TotalsType DEF Least
    <3> QED BY <1>2, <3>1, <3>2
  <2>5. Live' => accum' = Wrap(totals'[Count'] - totals'[Count' - Least(Count' - 1, accum_len')])
    BY <1>2, <1>3, <2>1, <2>2, <2>4
  <2> QED BY <1>3, <2>5 DEF SumInv
<1> QED BY <1>1, <1>6, <1>7, <1>8, <1>9, <1>10 DEF Inv

\* The sum takes in the new sample, and lets go of the one the pointer is at.
LEMMA CalcAccumInv ==
  ASSUME Inv, CalcAccum
  PROVE  Inv'
<1>0. TypeOK /\ StartInv /\ WrenInv /\ PtrInv /\ CntInv /\ RamInv /\ SumInv
  BY DEF Inv
<1>1. TypeOK'  BY <1>0, NextType DEF Next
<1>2. /\ state = "CALC_ACCUM" /\ state' = "WAIT1" /\ ~wren /\ wren' = wren /\ dpram' = dpram
      /\ new_sample' = new_sample /\ accum_len' = accum_len /\ clean' = clean
      /\ totals' = totals /\ wraddr' = wraddr /\ rdaddr' = rdaddr
      /\ buffull' = buffull /\ bufcnt' = bufcnt
  BY <1>0 DEF CalcAccum, Write, WrenInv, ptrVars, cntVars
<1>3. /\ Count' = Count /\ Count \in Nat /\ Len(totals) = Count + 1
      /\ \A k \in 1 .. Count + 1 : totals[k] \in 0 .. W - 1
      /\ accum_len \in Nat /\ wraddr \in Nat
  BY <1>0, <1>2, TotalsType DEF Count
<1>4. Written = Count - 1 /\ Written' = Count - 1
  BY <1>2, <1>3 DEF Written
<1>5. (StartInv /\ WrenInv)'
  BY <1>0, <1>2, <1>3 DEF StartInv, WrenInv
<1>6. (PtrInv /\ CntInv)'
  BY <1>0, <1>2, <1>3 DEF PtrInv, CntInv, Live
<1>7. RamInv'
  BY <1>0, <1>2, <1>4 DEF RamInv, Live
<1>8. ASSUME Live
      PROVE  accum' = Wrap(totals[Count + 1] - totals[Count - Least(Count, accum_len) + 1])
  <2> DEFINE b == totals[Count - Least(Count - 1, accum_len)]
  <2>1. Count > 0 /\ new_sample = Wrap(totals[Count + 1] - totals[Count])
    BY <1>0, <1>2, <1>8 DEF CntInv, Sample
  <2>2. Count - Least(Count - 1, accum_len) \in 1 .. Count
    BY <1>3, <2>1 DEF Least
  <2>3. /\ b \in 0 .. W - 1 /\ totals[Count] \in 0 .. W - 1
        /\ totals[Count + 1] \in 0 .. W - 1
    BY <1>3, <2>1, <2>2
  <2>4. accum = Wrap(totals[Count] - b)
    BY <1>0, <1>2, <1>8 DEF SumInv
  <2> HIDE DEF b
  <2>5. CASE Count <= accum_len
    <3>1. ~buffull
      BY <1>0, <1>3, <1>8, <2>5 DEF CntInv
    <3>2. accum' = Wrap(accum + new_sample - 0)
      BY <3>1 DEF CalcAccum
    <3>3. accum' = Wrap(totals[Count + 1] - b)
      BY <2>1, <2>3, <2>4, <3>2, WrapAdd
    <3>4. Count - Least(Count - 1, accum_len) = Count - Least(Count, accum_len) + 1
      BY <1>3, <2>1, <2>5 DEF Least
    <3> QED BY <3>3, <3>4 DEF b
  <2>6. CASE Count > accum_len
    <3>1. buffull
      BY <1>0, <1>3, <1>8, <2>6 DEF CntInv
    <3>2. accum' = Wrap(accum + new_sample - end_sample)
      BY <3>1 DEF CalcAccum
    <3>3. accum_len > 0 /\ accum_len \in 1 .. Least(Written, accum_len)
      BY <1>3, <1>4, <1>8, <2>6 DEF Least, Live
    <3>4. rdaddr = Back(wraddr, accum_len, accum_len)
      BY <1>0, <1>3, <1>8, <3>3 DEF PtrInv, Back
    <3>5. end_sample = Sample(totals, Count - accum_len)
      <4>1. dpram[Back(wraddr, accum_len, accum_len)]
              = Sample(totals, Written + 1 - accum_len)
        BY <1>0, <1>8, <3>3 DEF RamInv
      <4>2. Written + 1 - accum_len = Count - accum_len
        BY <1>3, <1>4
      <4> QED BY <3>4, <4>1, <4>2 DEF end_sample
    <3>6. Least(Count - 1, accum_len) = accum_len /\ Least(Count, accum_len) = accum_len
      BY <1>3, <2>6 DEF Least
    <3>7. totals[Count - accum_len + 1] \in 0 .. W - 1
      BY <1>3, <2>6, <3>3
    <3>8. end_sample = Wrap(totals[Count - accum_len + 1] - b)
      BY <3>5, <3>6 DEF Sample, b
    <3>9. accum' = Wrap(totals[Count + 1] - totals[Count - accum_len + 1])
      BY <2>1, <2>3, <2>4, <3>2, <3>7, <3>8, WrapSlide
    <3> QED BY <3>6, <3>9
  <2> QED BY <1>3, <2>5, <2>6
<1>9. SumInv'
  <2>1. Live' => Live
    BY <1>2 DEF Live
  <2>2. Since(Count - Least(Count, accum_len))'
          = Wrap(totals[Count + 1] - totals[Count - Least(Count, accum_len) + 1])
    BY <1>2, <1>3 DEF Since, Total
  <2> QED BY <1>2, <1>3, <1>8, <2>1, <2>2 DEF SumInv
<1> QED BY <1>1, <1>5, <1>6, <1>7, <1>9 DEF Inv

\* WAIT1 and UPDATE_DPRAM: only the state and the write enable change.
LEMMA WaitInv ==
  ASSUME Inv, Wait1 \/ UpdateDpram
  PROVE  Inv'
<1>0. TypeOK /\ StartInv /\ WrenInv /\ PtrInv /\ CntInv /\ RamInv /\ SumInv
  BY DEF Inv
<1>1. TypeOK'  BY <1>0, NextType DEF Next
<1>2. /\ state \in {"WAIT1", "UPDATE_DPRAM"} /\ dpram' = dpram
      /\ new_sample' = new_sample /\ accum_len' = accum_len /\ clean' = clean
      /\ totals' = totals /\ wraddr' = wraddr /\ rdaddr' = rdaddr
      /\ buffull' = buffull /\ bufcnt' = bufcnt /\ accum' = accum
  BY <1>0 DEF Wait1, UpdateDpram, Write, WrenInv, ptrVars, cntVars
<1>3. state' \in {"UPDATE_DPRAM", "UPDATE_PTRS"} /\ (wren' <=> state' = "UPDATE_PTRS")
  BY <1>0 DEF Wait1, UpdateDpram, WrenInv
<1>4. Count' = Count
  BY <1>2 DEF Count
<1>5. Written' = Written
  BY <1>2, <1>3, <1>4 DEF Written
<1>6. (StartInv /\ WrenInv)'
  BY <1>0, <1>2, <1>3, <1>4 DEF StartInv, WrenInv
<1>7. (PtrInv /\ CntInv)'
  BY <1>0, <1>2, <1>3, <1>4 DEF PtrInv, CntInv, Live
<1>8. RamInv'
  BY <1>0, <1>2, <1>5 DEF RamInv, Live
<1>9. SumInv'
  <2>1. Live' => accum = Since(Count - Least(Count, accum_len))
    BY <1>0, <1>2 DEF SumInv, Live
  <2>2. \A m : Since(m)' = Since(m)
    BY <1>2 DEF Since, Total
  <2> QED BY <1>2, <1>3, <1>4, <2>1, <2>2 DEF SumInv, Since, Total
<1> QED BY <1>1, <1>6, <1>7, <1>8, <1>9 DEF Inv

\* The sample is written behind the pointer that moves on.
LEMMA UpdatePtrsInv ==
  ASSUME Inv, UpdatePtrs
  PROVE  Inv'
<1>0. TypeOK /\ StartInv /\ WrenInv /\ PtrInv /\ CntInv /\ RamInv /\ SumInv
  BY DEF Inv
<1>1. TypeOK'  BY <1>0, NextType DEF Next
<1>2. /\ state = "UPDATE_PTRS" /\ state' = "IDLE" /\ wren /\ ~wren'
      /\ dpram' = [dpram EXCEPT ![wraddr] = new_sample]
      /\ new_sample' = new_sample /\ accum_len' = accum_len /\ clean' = clean
      /\ totals' = totals /\ wraddr' = rdaddr
      /\ rdaddr' = IF rdaddr = accum_len THEN 0 ELSE (rdaddr + 1) % AddrMod
      /\ buffull' = buffull /\ bufcnt' = bufcnt /\ accum' = accum
  BY <1>0 DEF UpdatePtrs, Write, WrenInv, cntVars
<1>3. /\ Count' = Count /\ Count \in Nat
      /\ accum_len \in Nat /\ wraddr \in Nat /\ rdaddr \in Nat
  BY <1>0, <1>2, TotalsType DEF Count
<1>4. Written = Count - 1 /\ Written' = Count
  BY <1>2, <1>3 DEF Written
<1>5. (StartInv /\ WrenInv)'
  BY <1>0, <1>2, <1>3 DEF StartInv, WrenInv
<1>6. CntInv'
  BY <1>0, <1>2, <1>3 DEF CntInv, Live
<1>7. ASSUME Live
      PROVE  /\ wraddr <= accum_len /\ rdaddr <= accum_len
             /\ rdaddr = IF wraddr = accum_len THEN 0 ELSE wraddr + 1
             /\ rdaddr' = IF rdaddr = accum_len THEN 0 ELSE rdaddr + 1
  <2>1. wraddr <= accum_len /\ rdaddr = IF wraddr = accum_len THEN 0 ELSE wraddr + 1
    BY <1>0, <1>7 DEF PtrInv
  <2>2. rdaddr <= accum_len
    BY <1>3, <2>1
  <2>3. accum_len \in 0 .. AddrMod - 1 /\ AddrMod \in Nat
    BY <1>0, AccumulatorAssumption DEF TypeOK, Addr
  <2>4. rdaddr # accum_len => rdaddr + 1 \in 0 .. AddrMod - 1
    BY <1>3, <2>2, <2>3
  <2>5. rdaddr # accum_len => (rdaddr + 1) % AddrMod = rdaddr + 1
    BY <2>3, <2>4
  <2> QED BY <1>2, <2>1, <2>2, <2>5
<1>8. PtrInv'
  BY <1>2, <1>7 DEF PtrInv, Live
<1>9. RamInv'
  <2>1. SUFFICES ASSUME Live, NEW j \in 1 .. Least(Count, accum_len)
                 PROVE  dpram'[Back(rdaddr, accum_len, j)] = Sample(totals, Count + 1 - j)
    BY <1>2, <1>4 DEF RamInv, Live
  <2>2. j \in 1 .. Count /\ j <= accum_len
    BY <1>3, <2>1 DEF Least
  <2>3. Count > 0 /\ new_sample = Sample(totals, Count) /\ wraddr \in Addr
    BY <1>0, <1>2, <2>1 DEF CntInv, TypeOK
  <2>4. CASE j = 1
    <3>1. Back(rdaddr, accum_len, 1) = wraddr
      BY <1>3, <1>7, <2>1, <2>2, <2>4 DEF Back
    <3>2. dpram'[wraddr] = new_sample
      BY <1>0, <1>2, <2>3 DEF TypeOK
    <3>3. Count + 1 - j = Count
      BY <1>3, <2>4
    <3> QED BY <2>3, <2>4, <3>1, <3>2, <3>3
  <2>5. CASE j > 1
    <3>1. j - 1 \in 1 .. Least(Written, accum_len)
      BY <1>3, <1>4, <2>2, <2>5 DEF Least
    <3>2. dpram[Back(wraddr, accum_len, j - 1)] = Sample(totals, Written + 1 - (j - 1))
      BY <1>0, <2>1, <3>1 DEF RamInv
    <3>3. Written + 1 - (j - 1) = Count + 1 - j
      BY <1>3, <1>4, <2>2
    <3>4. /\ Back(rdaddr, accum_len, j) = Back(wraddr, accum_len, j - 1)
          /\ Back(wraddr, accum_len, j - 1) # wraddr
          /\ Back(wraddr, accum_len, j - 1) \in 0 .. accum_len
      BY <1>3, <1>7, <2>1, <2>2, <2>5 DEF Back
    <3>5. Back(wraddr, accum_len, j - 1) \in Addr
      BY <1>0, <3>4, AccumulatorAssumption DEF TypeOK, Addr
    <3>6. dpram'[Back(wraddr, accum_len, j - 1)] = dpram[Back(wraddr, accum_len, j - 1)]
      BY <1>0, <1>2, <3>4, <3>5 DEF TypeOK
    <3> QED BY <3>2, <3>3, <3>4, <3>6
  <2> QED BY <2>2, <2>4, <2>5
<1>10. SumInv'
  <2>1. Live' => accum = Since(Count - Least(Count, accum_len))
    BY <1>0, <1>2 DEF SumInv, Live
  <2>2. \A m : Since(m)' = Since(m)
    BY <1>2 DEF Since, Total
  <2> QED BY <1>2, <1>3, <2>1, <2>2 DEF SumInv, Since, Total
<1> QED BY <1>1, <1>5, <1>6, <1>8, <1>9, <1>10 DEF Inv

LEMMA NextInv ==
  ASSUME Inv, [Next]_vars
  PROVE  Inv'
<1>1. CASE Trig  BY <1>1, TrigInv
<1>2. CASE CalcAccum  BY <1>2, CalcAccumInv
<1>3. CASE Wait1 \/ UpdateDpram  BY <1>3, WaitInv
<1>4. CASE UpdatePtrs  BY <1>4, UpdatePtrsInv
<1>5. CASE Reset  BY <1>5, ResetInv DEF Inv
<1>6. CASE SetLen  BY <1>6, SetLenInv
<1>7. CASE UNCHANGED vars
  BY <1>7 DEF Inv, TypeOK, StartInv, WrenInv, PtrInv, CntInv, RamInv, SumInv, Live, Written,
              Count, Since, Total, vars, cntVars, ptrVars
<1> QED BY <1>1, <1>2, <1>3, <1>4, <1>5, <1>6, <1>7 DEF Next

\* The accumulated charge is the sum of the last accum_len samples, whatever the
\* size of the buffer, the width of the sum and the length, and whatever earlier
\* use left in the buffer.
THEOREM ChargeIsSlidingSum == Spec => []SlidingSum
<1>1. Init => Inv  BY InitInv
<1>2. Inv /\ [Next]_vars => Inv'  BY NextInv
<1>3. Inv => SlidingSum
  BY DEF Inv, SumInv, SlidingSum, Live
<1> QED BY <1>1, <1>2, <1>3, PTL DEF Spec

-----------------------------------------------------------------------------
(* Startup.                                                                *)

\* The window that is open will give one more sample.
Pending == IF beam_detect_window THEN 1 ELSE 0

StartupType ==
  /\ beam_detect_window \in BOOLEAN /\ keylock_last \in BOOLEAN /\ orderly \in BOOLEAN
  /\ startup_enb \in BOOLEAN /\ startup_fault \in BOOLEAN
  /\ startup_dly_cnt \in Nat /\ since \in Nat

\* While the delay counts, the samples taken and pending are at least the
\* triggers counted; when it is over they have all been taken.
DelayInv ==
  /\ startup_enb => startup_fault
  /\ orderly =>
       /\ since <= Count
       /\ startup_enb => Count - since + Pending >= accum_len - startup_dly_cnt
       /\ ~startup_enb => ~startup_fault /\ Count - since >= accum_len

CycleInv == TypeOK /\ StartupType /\ DelayInv

-----------------------------------------------------------------------------
(* The accumulator in the cycle.                                           *)

\* Every step of the cycle is one of the accumulator, or leaves it alone.
LEMMA StepRefines == [CycleNext]_cycleVars => [Next]_vars
BY DEF CycleNext, cycleVars, EventTrig, KeyTurned, WindowEnds, Accumulates, CycleReset,
       SetLength, Next

\* The cycle implements Accumulator (accumulator.vhd behind beam_detect_window).
THEOREM CycleRefines == CycleSpec => Spec
<1>1. CycleInit => Init  BY DEF CycleInit
<1> QED BY <1>1, StepRefines, PTL DEF CycleSpec, Spec

\* The accumulated charge is a sliding sum in the cycle.
THEOREM CycleSum == CycleSpec => []SlidingSum
BY CycleRefines, ChargeIsSlidingSum, PTL

-----------------------------------------------------------------------------
(* The startup delay.                                                      *)

\* How the steps count samples.
LEMMA CountStep ==
  ASSUME TypeOK
  PROVE  /\ Count \in Nat /\ accum_len \in Nat
         /\ totals' = totals => Count' = Count
         /\ Trig => Count' = Count + 1 /\ accum_len' = accum_len
         /\ Reset => Count' = 0
<1>1. Count \in Nat /\ accum_len \in Nat  BY TotalsType
<1>2. totals' = totals => Count' = Count  BY DEF Count
<1>3. ASSUME Trig PROVE Count' = Count + 1 /\ accum_len' = accum_len
  <2>1. accum_len' = accum_len  BY <1>3 DEF Trig
  <2>2. PICK v : totals' = Append(totals, v)  BY <1>3 DEF Trig
  <2>3. totals \in Seq(0 .. W - 1)  BY DEF TypeOK
  <2>4. Len(totals') = Len(totals) + 1  BY <2>2, <2>3
  <2> QED BY <2>1, <2>4, TotalsType DEF Count
<1>4. Reset => Count' = 0  BY DEF Reset, Count
<1> QED BY <1>1, <1>2, <1>3, <1>4

\* A clock with a trigger.
LEMMA EventTrigInv ==
  ASSUME CycleInv, NEW keylock \in BOOLEAN, EventTrig(keylock)
  PROVE  StartupType' /\ DelayInv'
<1> DEFINE late == IF TurnedToRun(keylock) THEN startup_enb ELSE beam_detect_window
<1>1. Count' = Count /\ accum_len' = accum_len /\ Count \in Nat /\ accum_len \in Nat
  BY CountStep DEF CycleInv, EventTrig, vars
<1>2. StartupDly(TRUE, keylock) /\ InStep(late, keylock) /\ beam_detect_window' = TRUE
  BY DEF EventTrig
<1>3. late \in BOOLEAN /\ TurnedToRun(keylock) \in BOOLEAN
  BY DEF CycleInv, StartupType, TurnedToRun
<1> HIDE DEF late
<1>4. StartupType'
  <2>1. startup_dly_cnt' \in Nat /\ startup_enb' \in BOOLEAN /\ startup_fault' \in BOOLEAN
    <3>1. /\ startup_dly_cnt \in Nat
          /\ startup_enb \in BOOLEAN /\ startup_fault \in BOOLEAN
      BY DEF CycleInv, StartupType
    <3>2. startup_dly_cnt' \in Nat
      BY <1>1, <1>2, <3>1 DEF StartupDly
    <3>3. startup_enb' \in BOOLEAN
      BY <1>2, <3>1, Zenon DEF StartupDly
    <3>4. startup_fault' \in BOOLEAN
      BY <1>2, <1>3, <3>1, Zenon DEF StartupDly
    <3> QED BY <3>2, <3>3, <3>4
  <2>2. keylock_last' \in BOOLEAN  BY <1>2 DEF StartupDly
  <2>3. orderly' \in BOOLEAN  BY <1>2, <1>3 DEF InStep
  <2>4. since' \in Nat  BY <1>1, <1>2 DEF InStep, CycleInv, StartupType
  <2> QED BY <1>2, <2>1, <2>2, <2>3, <2>4 DEF StartupType
<1>5. (startup_enb => startup_fault)'
  BY <1>2, <1>3 DEF CycleInv, StartupType, DelayInv, StartupDly
<1>6. ASSUME orderly'
      PROVE  /\ (since <= Count)'
             /\ (startup_enb => Count - since + Pending >= accum_len - startup_dly_cnt)'
             /\ (~startup_enb => ~startup_fault /\ Count - since >= accum_len)'
  <2>1. Pending' = 1  BY <1>2 DEF Pending
  <2>2. ~late /\ (orderly \/ TurnedToRun(keylock))  BY <1>2, <1>3, <1>6 DEF InStep
  <2>3. CASE TurnedToRun(keylock)
    <3>1. ~startup_enb  BY <2>2, <2>3 DEF late
    <3>2. startup_enb' /\ startup_dly_cnt' = accum_len  BY <1>2, <2>3, <3>1 DEF StartupDly
    <3>3. since' = Count  BY <1>2, <1>6, <2>3 DEF InStep
    <3> QED BY <1>1, <2>1, <3>2, <3>3
  <2>4. CASE ~TurnedToRun(keylock)
    <3>1. ~beam_detect_window /\ orderly  BY <2>2, <2>4 DEF late
    <3>2. Pending = 0  BY <3>1 DEF Pending
    <3>3. since' = since /\ since <= Count  BY <1>2, <1>6, <2>4, <3>1 DEF InStep, CycleInv, DelayInv
    <3>4. CASE startup_enb /\ startup_dly_cnt = 0
      <4>1. ~startup_enb' /\ ~startup_fault'  BY <1>2, <3>4 DEF StartupDly
      <4>2. Count - since >= accum_len
        BY <1>1, <3>1, <3>2, <3>4 DEF CycleInv, StartupType, DelayInv
      <4> QED BY <1>1, <3>3, <4>1, <4>2
    <3>5. CASE startup_enb /\ startup_dly_cnt > 0
      <4>1. startup_enb' /\ startup_dly_cnt' = startup_dly_cnt - 1
        BY <1>2, <3>5, ~(startup_dly_cnt = 0) DEF StartupDly
      <4>2. Count - since >= accum_len - startup_dly_cnt
        BY <1>1, <3>1, <3>2, <3>5 DEF CycleInv, StartupType, DelayInv
      <4> QED BY <1>1, <2>1, <3>3, <4>1, <4>2 DEF CycleInv, StartupType
    <3>6. CASE ~startup_enb
      <4>1. startup_enb' = startup_enb /\ startup_fault' = startup_fault
        BY <1>2, <2>4, <3>6 DEF StartupDly
      <4>2. ~startup_fault /\ Count - since >= accum_len  BY <3>1, <3>6 DEF CycleInv, DelayInv
      <4> QED BY <1>1, <3>3, <3>6, <4>1, <4>2
    <3> QED BY <3>4, <3>5, <3>6 DEF CycleInv, StartupType
  <2> QED BY <2>3, <2>4
<1> QED BY <1>4, <1>5, <1>6 DEF DelayInv

\* A clock that sees the key turned.
LEMMA KeyTurnedInv ==
  ASSUME CycleInv, KeyTurned
  PROVE  StartupType' /\ DelayInv'
<1>1. Count' = Count /\ accum_len' = accum_len /\ Count \in Nat /\ accum_len \in Nat
  BY CountStep DEF CycleInv, KeyTurned, vars
<1>2. keylock_last \in BOOLEAN /\ TurnedToRun(~keylock_last) = ~keylock_last
  BY DEF CycleInv, StartupType, TurnedToRun
<1>3. /\ StartupDly(FALSE, ~keylock_last) /\ InStep(FALSE, ~keylock_last)
      /\ beam_detect_window' = beam_detect_window
  BY DEF KeyTurned
<1>4. StartupType'
  BY <1>1, <1>2, <1>3 DEF CycleInv, StartupType, StartupDly, InStep
<1>5. Pending' = Pending /\ Pending \in {0, 1}  BY <1>3 DEF Pending
<1>6. CASE ~keylock_last
  <2>1. startup_enb' = TRUE /\ startup_fault' = TRUE /\ startup_dly_cnt' = accum_len
    BY <1>2, <1>3, <1>6 DEF StartupDly
  <2>2. orderly' => since' = Count  BY <1>2, <1>3, <1>6 DEF InStep
  <2> QED BY <1>1, <1>4, <1>5, <2>1, <2>2 DEF DelayInv
<1>7. CASE keylock_last
  <2>1. UNCHANGED <<startup_enb, startup_fault, startup_dly_cnt>>
    BY <1>2, <1>3, <1>7 DEF StartupDly
  <2>2. orderly' => orderly /\ since' = since  BY <1>2, <1>3, <1>7 DEF InStep
  <2> QED BY <1>1, <1>4, <1>5, <2>1, <2>2 DEF CycleInv, DelayInv
<1> QED BY <1>2, <1>6, <1>7

\* The end of the window: the pending sample is taken.
LEMMA WindowEndsInv ==
  ASSUME CycleInv, WindowEnds
  PROVE  StartupType' /\ DelayInv'
<1>1. Count' = Count + 1 /\ accum_len' = accum_len /\ Count \in Nat /\ accum_len \in Nat
  BY CountStep DEF CycleInv, WindowEnds
<1>2. /\ UNCHANGED <<keylock_last, startup_enb, startup_fault, startup_dly_cnt, since, orderly>>
      /\ beam_detect_window /\ beam_detect_window' = FALSE
  BY DEF WindowEnds, startupVars
<1>3. StartupType'  BY <1>2 DEF CycleInv, StartupType
<1>4. Pending = 1 /\ Pending' = 0  BY <1>2 DEF Pending
<1>5. ASSUME orderly'
      PROVE  /\ (since <= Count)'
             /\ (startup_enb => Count - since + Pending >= accum_len - startup_dly_cnt)'
             /\ (~startup_enb => ~startup_fault /\ Count - since >= accum_len)'
  <2>1. orderly  BY <1>2, <1>5
  <2>2. since \in Nat /\ startup_dly_cnt \in Nat /\ since <= Count
    BY <2>1 DEF CycleInv, StartupType, DelayInv
  <2>3. CASE startup_enb
    BY <1>1, <1>2, <1>4, <2>1, <2>2, <2>3 DEF CycleInv, DelayInv
  <2>4. CASE ~startup_enb
    BY <1>1, <1>2, <2>1, <2>2, <2>4 DEF CycleInv, DelayInv
  <2> QED BY <2>3, <2>4
<1>6. (startup_enb => startup_fault)'  BY <1>2 DEF CycleInv, DelayInv
<1> QED BY <1>3, <1>5, <1>6 DEF DelayInv

\* Steps of the accumulator that take no sample.
LEMMA AccumulatesInv ==
  ASSUME CycleInv, Accumulates
  PROVE  StartupType' /\ DelayInv'
<1>1. totals' = totals /\ accum_len' = accum_len
  BY DEF Accumulates, CalcAccum, Wait1, UpdateDpram, UpdatePtrs
<1> QED BY <1>1, CountStep DEF CycleInv, StartupType, DelayInv, Accumulates, startupVars, Pending

\* A reset, and a new length, put the delay and the samples out of step.
LEMMA OutOfStepInv ==
  ASSUME CycleInv, CycleReset \/ SetLength
  PROVE  StartupType' /\ DelayInv'
<1>1. orderly' = FALSE /\ since' = 0 /\ UNCHANGED <<beam_detect_window, keylock_last>>
  BY DEF CycleReset, SetLength, startupVars
<1>2. CASE CycleReset
  <2>1. startup_dly_cnt' = 0 /\ startup_fault' = TRUE /\ startup_enb' = FALSE
    BY <1>2 DEF CycleReset
  <2> QED BY <1>1, <2>1 DEF CycleInv, StartupType, DelayInv
<1>3. CASE SetLength
  <2>1. UNCHANGED <<startup_enb, startup_fault, startup_dly_cnt>>  BY <1>3 DEF SetLength, startupVars
  <2> QED BY <1>1, <2>1 DEF CycleInv, StartupType, DelayInv
<1> QED BY <1>2, <1>3

\* Every step keeps the invariant.
LEMMA CycleNextInv == CycleInv /\ [CycleNext]_cycleVars => CycleInv'
<1> SUFFICES ASSUME CycleInv, [CycleNext]_cycleVars PROVE CycleInv'
  OBVIOUS
<1>1. TypeOK'  BY StepRefines, NextType DEF CycleInv
<1>2. ASSUME NEW keylock \in BOOLEAN, EventTrig(keylock) PROVE CycleInv'
  BY <1>1, <1>2, EventTrigInv DEF CycleInv
<1>3. CASE KeyTurned  BY <1>1, <1>3, KeyTurnedInv DEF CycleInv
<1>4. CASE WindowEnds  BY <1>1, <1>4, WindowEndsInv DEF CycleInv
<1>5. CASE Accumulates  BY <1>1, <1>5, AccumulatesInv DEF CycleInv
<1>6. CASE CycleReset \/ SetLength  BY <1>1, <1>6, OutOfStepInv DEF CycleInv
<1>7. CASE UNCHANGED cycleVars
  <2>1. Count' = Count /\ accum_len' = accum_len  BY <1>7 DEF cycleVars, vars, Count
  <2> QED BY <1>1, <1>7, <2>1 DEF CycleInv, StartupType, DelayInv, cycleVars, startupVars, Pending
<1> QED BY <1>2, <1>3, <1>4, <1>5, <1>6, <1>7 DEF CycleNext

\* When the startup fault is gone the buffer holds samples of the whole length
\* (startup_dly.vhd and accumulator.vhd behind the same trigger).
THEOREM StartupCovers == CycleSpec => []StartupCovered
<1>1. CycleInit => CycleInv
  <2> SUFFICES ASSUME CycleInit PROVE CycleInv
    OBVIOUS
  <2>1. TypeOK  BY InitType DEF CycleInit
  <2> QED BY <2>1 DEF CycleInit, CycleInv, StartupType, DelayInv
<1>2. CycleInv => StartupCovered
  BY CountStep DEF CycleInv, StartupType, DelayInv, StartupCovered
<1> QED BY <1>1, <1>2, CycleNextInv, PTL DEF CycleSpec

=============================================================================
