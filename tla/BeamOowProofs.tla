---------------------------- MODULE BeamOowProofs -----------------------------
(***************************************************************************)
(* Proofs about PulseStats and BeamOow, for any lengths of gates, sums and *)
(* windows, any number of windows, any samples and triggers at any clock:  *)
(* the registers keep to their ranges; baseline, charge, peak and width    *)
(* are those of the event and stand still when they are read; what is      *)
(* found outside of the windows lies outside, and what is measured inside. *)
(*                                                                         *)
(* Everything rests on where the processes are n clocks after the gates    *)
(* opened (EventInv).  The sums need that a sum over a set does not depend *)
(* on the order in which its elements are taken, shown by the least size   *)
(* of a set for which it did.                                              *)
(***************************************************************************)
EXTENDS BeamOow, FiniteSetTheorems, WellFoundedInduction, TLAPS

Scale == -HalfScale .. HalfScale - 1

\* A gate generator.
Machine(len) == [state : {"IDLE", "TRIGGERED", "PULSE_HI"}, hicnt : 0 .. len]

GateRegs   == [state : {"IDLE", "TRIGGERED", "BASELINE_ACTIVE", "INTEGRAL_ACTIVE"},
               baseline_cnt : 0 .. BaselineLen, integral_cnt : 0 .. IntegralLen]
BaseRegs   == [state : {"IDLE", "START_ACCUM"}, accum_cnt : 0 .. BaselineAcc, accum : Scale,
               accum_lat : Scale, accum_val : BOOLEAN, last : BOOLEAN]
IntgRegs   == [state : {"IDLE", "START_ACCUM"}, accum_cnt : 0 .. IntegralAcc, accum : Nat,
               last : BOOLEAN, nzs : Int, bs : Nat]
FinderRegs == [state : {"IDLE", "GATE_ACTIVE"}, max_adc : Int, peak_val : BOOLEAN]
WidthRegs  == [state : {"IDLE", "START_FWHM", "FOUND_PULSE"}, nzs : Int, bs : Int]

\* Every register, those that TypeOK says nothing of included.
Registers ==
  /\ channel \in {"window", "outside"} /\ gates \in GateRegs
  /\ baseline_gate \in BOOLEAN /\ integral_gate \in BOOLEAN
  /\ samplenum \in 0 .. LastSample /\ peak_sampnum \in 0 .. LastSample
  /\ base \in BaseRegs /\ baseline \in Scale /\ baseline_val \in BOOLEAN
  /\ intg \in IntgRegs /\ integral \in Nat
  /\ finder \in FinderRegs
  /\ width \in WidthRegs /\ fwhm \in 0 .. WidthMod - 1

Histories ==
  /\ dly \in Seq(Int) /\ Len(dly) = Delay
  /\ win \in Seq(Int) /\ Len(win) <= Window
  /\ clean \in BOOLEAN /\ fresh \in BOOLEAN /\ armed \in BOOLEAN
  /\ masked \in Seq(BOOLEAN) /\ Len(masked) = IF channel = "window" THEN Len(win) ELSE 0
  /\ found \in {NoNumber} \cup 0 .. LastSample

Searchers ==
  /\ window \in [Windows -> Machine(WindowLen)] /\ peakfind \in Machine(PeakLen)
  /\ search \in {"SEARCHING", "WAITFORNEXTTRIGGER"} /\ pulse_found \in BOOLEAN
  /\ boow_dly \in Seq(Samples \cup {0}) /\ Len(boow_dly) = OowDelay

Types == Registers /\ Histories /\ Searchers

-----------------------------------------------------------------------------
(* Constants and arithmetic.                                               *)

LEMMA Constants ==
  /\ HalfScale \in Nat /\ HalfScale > 0 /\ Samples \subseteq Int /\ Floor \in Int
  /\ GateStart \in Nat /\ LastSample \in Nat
  /\ BaselineLen \in Nat /\ IntegralLen \in Nat
  /\ BaselineAcc \in Nat /\ BaselineAcc > 0 /\ IntegralAcc \in Nat /\ IntegralAcc > 0
  /\ BaselineDiv \in Nat /\ BaselineDiv > 0 /\ Delay \in Nat /\ Delay > 0
  /\ WidthMod \in Nat /\ WidthMod > 0
  /\ WindowLen \in Nat /\ PeakLen \in Nat /\ OowDelay \in Nat /\ OowDelay > 0
  /\ Threshold \in Int
BY PulseAssumption, OowAssumption

LEMMA WindowsAre ==
  /\ Window \in Nat /\ Window > 2 /\ 1 \in Windows /\ Starts[1] = GateStart
  /\ \A w \in Windows : Starts[w] \in Nat
<1>1. Window \in Nat /\ Window > 2  BY Constants DEF Window
<1>2. Starts \in Seq(Nat) /\ Starts # << >> /\ Starts[1] = GateStart  BY OowAssumption
<1>3. DOMAIN Starts = 1 .. Len(Starts) /\ Len(Starts) \in Nat /\ Len(Starts) # 0
  BY <1>2
<1> QED BY <1>1, <1>2, <1>3 DEF Windows

LEMMA SignedType == ASSUME NEW n \in Int PROVE Signed(n) \in Scale
<1> DEFINE m == n + HalfScale
           h == 2 * HalfScale
<1>1. m \in Int /\ h \in Nat /\ h > 0  BY Constants
<1> HIDE DEF m, h
<1>2. m % h \in 0 .. h - 1  BY <1>1
<1>3. Signed(n) = (m % h) - HalfScale  BY DEF Signed, m, h
<1> QED BY <1>2, <1>3, Constants DEF h, Scale

\* A value of the accumulator, divided, is one.
LEMMA QuotientType == ASSUME NEW n \in Scale PROVE n \div BaselineDiv \in Scale
<1> DEFINE q == n \div BaselineDiv
<1>1. n \in Int /\ BaselineDiv \in Nat /\ BaselineDiv > 0  BY Constants DEF Scale
<1>2. q \in Int /\ BaselineDiv * q <= n /\ n < BaselineDiv * (q + 1)
  BY <1>1
<1> HIDE DEF q
<1>3. q >= -HalfScale
  <2> SUFFICES ASSUME q < -HalfScale PROVE FALSE  BY <1>2, Constants
  <2>1. BaselineDiv * (q + 1) <= q + 1  BY <1>1, <1>2, Constants
  <2> QED BY <1>2, <2>1, Constants DEF Scale
<1>4. q <= HalfScale - 1
  <2> SUFFICES ASSUME q >= HalfScale PROVE FALSE  BY <1>2, Constants
  <2>1. BaselineDiv * q >= q  BY <1>1, <1>2, Constants
  <2> QED BY <1>2, <2>1, Constants DEF Scale
<1> QED BY <1>2, <1>3, <1>4, Constants DEF Scale, q

LEMMA MaxIs ==
  ASSUME NEW a \in Int, NEW b \in Int
  PROVE  Max({a, b}) = IF a > b THEN a ELSE b
<1>1. CASE a > b  BY <1>1 DEF Max
<1>2. CASE ~(a > b)  BY <1>2 DEF Max
<1> QED BY <1>1, <1>2

LEMMA MinIs ==
  ASSUME NEW a \in Int, NEW b \in Int
  PROVE  Min({a, b}) = IF a < b THEN a ELSE b
<1>1. CASE a < b  BY <1>1 DEF Min
<1>2. CASE ~(a < b)  BY <1>2 DEF Min
<1> QED BY <1>1, <1>2
LEMMA AppendType ==
  ASSUME NEW S, NEW s \in Seq(S), NEW x \in S
  PROVE  /\ Append(s, x) \in Seq(S) /\ Len(Append(s, x)) = Len(s) + 1 /\ Len(s) \in Nat
         /\ Append(s, x)[Len(s) + 1] = x
         /\ \A i \in 1 .. Len(s) : Append(s, x)[i] = s[i]
OBVIOUS

\* A shift register.
LEMMA ShiftType ==
  ASSUME NEW S, NEW s \in Seq(S), Len(s) > 0, NEW x \in S
  PROVE  /\ Append(Tail(s), x) \in Seq(S) /\ Len(Append(Tail(s), x)) = Len(s)
         /\ s[1] \in S
<1>1. s # << >> /\ Len(s) \in Nat
  <2>1. Len(<< >>) = 0  OBVIOUS
  <2> QED BY <2>1
<1>2. Tail(s) \in Seq(S) /\ Len(Tail(s)) = Len(s) - 1  BY <1>1
<1>3. Append(Tail(s), x) \in Seq(S) /\ Len(Append(Tail(s), x)) = Len(Tail(s)) + 1
  BY <1>2, AppendType
<1>4. s[1] \in S  BY <1>1
<1> QED BY <1>1, <1>2, <1>3, <1>4

-----------------------------------------------------------------------------
(* Types, process by process.                                              *)

LEMMA InitTypes == Init => Types
<1> SUFFICES ASSUME Init PROVE Types  OBVIOUS
<1> USE Constants
<1>1. PulseInit  BY DEF Init
<1>2. /\ 0 \in Scale /\ 0 \in 0 .. LastSample /\ 0 \in 0 .. WidthMod - 1
      /\ 0 \in 0 .. BaselineLen /\ 0 \in 0 .. IntegralLen
      /\ 0 \in 0 .. BaselineAcc /\ 0 \in 0 .. IntegralAcc
      /\ 0 \in 0 .. WindowLen /\ 0 \in 0 .. PeakLen
  BY DEF Scale
<1>3. gates \in GateRegs  BY <1>1, <1>2 DEF PulseInit, GateRegs
<1>4. base \in BaseRegs  BY <1>1, <1>2 DEF PulseInit, BaseRegs
<1>5. intg \in IntgRegs  BY <1>1, <1>2 DEF PulseInit, IntgRegs
<1>6. finder \in FinderRegs /\ width \in WidthRegs
  BY <1>1, <1>2 DEF PulseInit, FinderRegs, WidthRegs
<1>7. Registers
  BY <1>1, <1>2, <1>3, <1>4, <1>5, <1>6 DEF PulseInit, Registers
<1>8. << >> \in Seq(Int) /\ Len(<< >>) = 0 /\ << >> \in Seq(BOOLEAN)  OBVIOUS
<1>9. dly \in Seq(Int) /\ Len(dly) = Delay  BY <1>1 DEF PulseInit
<1>10. /\ win = << >> /\ masked = << >> /\ clean = FALSE /\ fresh = FALSE /\ armed = FALSE
       /\ found = NoNumber
  BY <1>1 DEF PulseInit, Init
<1>11. Histories
  <2>1. Len(win) = 0 /\ Len(masked) = 0 /\ 0 <= Window  BY <1>8, <1>10, WindowsAre
  <2> QED BY <1>8, <1>9, <1>10, <2>1 DEF Histories
<1>12. boow_dly \in Seq(Samples \cup {0}) /\ Len(boow_dly) = OowDelay  BY DEF Init
<1>13. IdleGate \in Machine(WindowLen) /\ IdleGate \in Machine(PeakLen)
  BY <1>2 DEF IdleGate, Machine
<1>14. Searchers  BY <1>12, <1>13 DEF Init, Searchers
<1> QED BY <1>7, <1>11, <1>14 DEF Types

LEMMA SampleNumType ==
  ASSUME Registers, NEW trig \in BOOLEAN, SampleNum(trig) PROVE samplenum' \in 0 .. LastSample
<1>1. samplenum \in 0 .. LastSample  BY DEF Registers
<1>2. Min({samplenum + 1, LastSample}) =
        IF samplenum + 1 < LastSample THEN samplenum + 1 ELSE LastSample
  BY <1>1, MinIs, Constants
<1> QED BY <1>1, <1>2, Constants DEF SampleNum

LEMMA GatesType ==
  ASSUME Registers, NEW trig \in BOOLEAN, NEW start \in Nat, GenGates(trig, start)
  PROVE  gates' \in GateRegs /\ baseline_gate' \in BOOLEAN /\ integral_gate' \in BOOLEAN
<1>1. gates \in GateRegs /\ baseline_gate \in BOOLEAN /\ integral_gate \in BOOLEAN
  BY DEF Registers
<1>2. baseline_gate' \in BOOLEAN /\ integral_gate' \in BOOLEAN  BY <1>1 DEF GenGates
<1>3. 0 \in 0 .. BaselineLen /\ 0 \in 0 .. IntegralLen  BY Constants
<1>4. BaselineLen \in 0 .. BaselineLen /\ IntegralLen \in 0 .. IntegralLen  BY Constants
<1>5. CASE GenGates(trig, start)!1 \/ GenGates(trig, start)!3  BY <1>1, <1>5
<1>6. CASE GenGates(trig, start)!2  BY <1>2, <1>3, <1>6 DEF GateRegs
<1>7. CASE GenGates(trig, start)!4  BY <1>2, <1>4, <1>7 DEF GateRegs
<1>8. CASE GenGates(trig, start)!5  BY <1>1, <1>8, Constants DEF GateRegs
<1>9. CASE GenGates(trig, start)!6  BY <1>1, <1>9, Constants DEF GateRegs
<1> QED BY <1>2, <1>5, <1>6, <1>7, <1>8, <1>9 DEF GenGates

LEMMA BaselineType ==
  ASSUME Registers, NEW trig \in BOOLEAN, NEW d \in Int, CalcBaseline(trig, d)
  PROVE  base' \in BaseRegs /\ baseline' \in Scale /\ baseline_val' \in BOOLEAN
<1>1. base \in BaseRegs /\ baseline_gate \in BOOLEAN  BY DEF Registers
<1>2. baseline' \in Scale /\ baseline_val' \in BOOLEAN  BY <1>1 DEF CalcBaseline, BaseRegs
<1>3. base.accum \div BaselineDiv \in Scale  BY <1>1, QuotientType DEF BaseRegs
<1>4. Signed(base.accum + d) \in Scale
  <2>1. base.accum + d \in Int  BY <1>1, Constants DEF BaseRegs, Scale
  <2> QED BY <2>1, SignedType
<1>5. 0 \in Scale /\ 0 \in 0 .. BaselineAcc  BY Constants DEF Scale
<1>6. base.accum_cnt \in Int /\ base.accum_cnt <= BaselineAcc
  BY <1>1, Constants DEF BaseRegs
<1>7. base.accum_cnt # BaselineAcc => base.accum_cnt + 1 \in 0 .. BaselineAcc
  BY <1>1, Constants DEF BaseRegs
<1>8. CASE trig /\ base' = [base EXCEPT !.accum = 0, !.accum_lat = 0]
  BY <1>1, <1>2, <1>5, <1>8 DEF BaseRegs
<1>9. CASE base' = [base EXCEPT !.accum_val = FALSE, !.last = baseline_gate,
                       !.accum_cnt = IF baseline_gate /\ ~base.last THEN 0 ELSE @,
                       !.state = IF baseline_gate /\ ~base.last THEN "START_ACCUM" ELSE @]
  BY <1>1, <1>2, <1>5, <1>9 DEF BaseRegs
<1>10. CASE base' = [base EXCEPT !.state = "IDLE", !.accum_cnt = 0, !.accum = 0,
                                 !.accum_val = TRUE, !.accum_lat = base.accum \div BaselineDiv]
  BY <1>1, <1>2, <1>3, <1>5, <1>10 DEF BaseRegs
<1>11. CASE /\ base.accum_cnt # BaselineAcc
            /\ base' = [base EXCEPT !.accum_cnt = @ + 1, !.accum = Signed(@ + d), !.accum_val = FALSE]
  BY <1>1, <1>2, <1>4, <1>7, <1>11 DEF BaseRegs
<1> QED BY <1>2, <1>8, <1>9, <1>10, <1>11 DEF CalcBaseline

LEMMA SubtractedIs ==
  ASSUME Registers, NEW d \in Int
  PROVE  /\ Subtracted(intg, d) \in IntgRegs
         /\ Subtracted(intg, d).state = intg.state /\ Subtracted(intg, d).last = intg.last
         /\ Subtracted(intg, d).accum = intg.accum
         /\ Subtracted(intg, d).accum_cnt = intg.accum_cnt
<1>1. intg \in IntgRegs /\ baseline \in Int  BY Constants DEF Registers, Scale
<1>2. intg.nzs \in Int  BY <1>1 DEF IntgRegs
<1>3. AboveZero(intg.nzs) \in Nat /\ d - baseline \in Int  BY <1>1, <1>2 DEF AboveZero
<1> QED BY <1>1, <1>3 DEF IntgRegs, Subtracted

LEMMA IntegralType ==
  ASSUME Registers, NEW trig \in BOOLEAN, NEW d \in Int, CalcIntegral(trig, d)
  PROVE  intg' \in IntgRegs /\ integral' \in Nat
<1> DEFINE r == Subtracted(intg, d)
<1>1. intg \in IntgRegs /\ integral_gate \in BOOLEAN /\ integral \in Nat  BY DEF Registers
<1>2. r \in IntgRegs /\ r.accum = intg.accum /\ r.accum_cnt = intg.accum_cnt
  BY SubtractedIs
<1> HIDE DEF r
<1>3. 0 \in 0 .. IntegralAcc /\ 0 \in Nat  BY Constants
<1>4. intg.accum_cnt # IntegralAcc => r.accum_cnt + 1 \in 0 .. IntegralAcc
  BY <1>1, <1>2, Constants DEF IntgRegs
<1>5. r.accum + intg.bs \in Nat /\ intg.accum \in Nat  BY <1>1, <1>2 DEF IntgRegs
<1>6. integral' \in Nat  BY <1>1, <1>5 DEF CalcIntegral
<1>7. CASE intg' = r  BY <1>2, <1>6, <1>7
<1>8. CASE intg' = [r EXCEPT !.last = TRUE, !.accum_cnt = 0, !.state = "START_ACCUM"]
  BY <1>2, <1>3, <1>6, <1>8 DEF IntgRegs
<1>9. CASE intg' = [r EXCEPT !.last = integral_gate]
  BY <1>1, <1>2, <1>6, <1>9 DEF IntgRegs
<1>10. CASE intg' = [r EXCEPT !.state = "IDLE", !.accum_cnt = 0, !.accum = 0]
  BY <1>2, <1>3, <1>6, <1>10 DEF IntgRegs
<1>11. CASE /\ intg.accum_cnt # IntegralAcc
            /\ intg' = [r EXCEPT !.accum_cnt = @ + 1, !.accum = @ + intg.bs]
  BY <1>2, <1>4, <1>5, <1>6, <1>11 DEF IntgRegs
<1> QED BY <1>7, <1>8, <1>9, <1>10, <1>11 DEF CalcIntegral, r

LEMMA PeakType ==
  ASSUME Registers, NEW trig \in BOOLEAN, NEW d \in Int, NEW gate \in BOOLEAN,
         FindPeak(trig, d, gate)
  PROVE  finder' \in FinderRegs /\ peak_sampnum' \in 0 .. LastSample
<1>1. /\ finder \in FinderRegs /\ finder.max_adc \in Int
      /\ peak_sampnum \in 0 .. LastSample /\ samplenum \in 0 .. LastSample
  BY DEF Registers, FinderRegs
<1>2. Max({d, finder.max_adc}) \in Int /\ Floor \in Int  BY <1>1, MaxIs, Constants
<1>3. 0 \in 0 .. LastSample  BY Constants
<1>4. peak_sampnum' \in 0 .. LastSample  BY <1>1, <1>3 DEF FindPeak
<1>5. CASE finder' = [finder EXCEPT !.state = "IDLE", !.max_adc = Floor]
  BY <1>1, <1>2, <1>4, <1>5 DEF FinderRegs
<1>6. CASE finder' = [finder EXCEPT !.peak_val = FALSE,
                                    !.state = IF gate THEN "GATE_ACTIVE" ELSE "IDLE"]
  BY <1>1, <1>4, <1>6 DEF FinderRegs
<1>7. CASE finder' = [state    |-> IF gate THEN "GATE_ACTIVE" ELSE "IDLE",
                      peak_val |-> finder.peak_val \/ ~gate,
                      max_adc  |-> Max({d, finder.max_adc})]
  <2>1. (finder.peak_val \/ ~gate) \in BOOLEAN  OBVIOUS
  <2> QED BY <1>2, <1>4, <1>7, <2>1 DEF FinderRegs
<1> QED BY <1>4, <1>5, <1>6, <1>7 DEF FindPeak

LEMMA WidthType ==
  ASSUME Registers, Histories, NEW trig \in BOOLEAN, NEW start_calc \in BOOLEAN,
         CalcFwhm(trig, start_calc)
  PROVE  width' \in WidthRegs /\ fwhm' \in 0 .. WidthMod - 1
<1> DEFINE r == [width EXCEPT !.nzs = dly[1] - baseline, !.bs = width.nzs]
<1>1. /\ width \in WidthRegs /\ fwhm \in 0 .. WidthMod - 1
      /\ baseline \in Int /\ dly[1] \in Int
  <2>1. dly[1] \in Int  BY ShiftType, Constants DEF Histories
  <2> QED BY <2>1, Constants DEF Registers, Scale
<1>2. Counted(fwhm) \in 0 .. WidthMod - 1 /\ 0 \in 0 .. WidthMod - 1
  BY <1>1, Constants DEF Counted
<1>3. r \in WidthRegs
  <2>1. dly[1] - baseline \in Int /\ width.nzs \in Int  BY <1>1 DEF WidthRegs
  <2> QED BY <1>1, <2>1 DEF WidthRegs
<1>4. \A s \in {"IDLE", "START_FWHM", "FOUND_PULSE"} : [r EXCEPT !.state = s] \in WidthRegs
  BY <1>3 DEF WidthRegs
<1>5. r.state \in {"IDLE", "START_FWHM", "FOUND_PULSE"}  BY <1>3 DEF WidthRegs
<1>6. fwhm' \in 0 .. WidthMod - 1  BY <1>1, <1>2 DEF CalcFwhm
<1>7. \/ width' = r
      \/ \E s \in {"IDLE", "START_FWHM", "FOUND_PULSE"} : width' = [r EXCEPT !.state = s]
  <2> HIDE DEF r
  <2> QED BY <1>5 DEF CalcFwhm, r
<1> QED BY <1>3, <1>4, <1>6, <1>7

LEMMA MachineType ==
  ASSUME NEW len \in Nat, NEW g \in Machine(len), NEW trig \in BOOLEAN, NEW start \in Nat
  PROVE  GenGate(g, trig, start, len) \in Machine(len)
BY DEF Machine, GenGate, GateOpens, IdleGate
\* What becomes of the history of samples.
LEMMA WinStep ==
  ASSUME Histories, NEW trig \in BOOLEAN, NEW d \in Int, NEW idle \in BOOLEAN,
         History(trig, d, idle)
  PROVE  /\ win' \in Seq(Int) /\ Len(win') <= Window /\ clean' \in BOOLEAN
         /\ \/ win' = << >> /\ Len(win') = 0
            \/ win' = win
            \/ win' = Append(win, d) /\ Len(win') = Len(win) + 1 /\ Len(win) < Window
<1>1. win \in Seq(Int) /\ Len(win) <= Window /\ clean \in BOOLEAN  BY DEF Histories
<1>2. << >> \in Seq(Int) /\ Len(<< >>) = 0 /\ 0 <= Window  BY WindowsAre
<1>3. clean' \in BOOLEAN  BY <1>1 DEF History
<1>4. Len(win) \in Nat /\ Window \in Nat  BY <1>1, WindowsAre
<1>5. CASE win' = << >>  BY <1>2, <1>3, <1>5
<1>6. CASE win' = win  BY <1>1, <1>3, <1>6
<1>7. CASE win' = Append(win, d) /\ Len(win) < Window
  <2>1. win' \in Seq(Int) /\ Len(win') = Len(win) + 1  BY <1>1, <1>7, AppendType
  <2> QED BY <1>3, <1>4, <1>7, <2>1
<1> QED BY <1>5, <1>6, <1>7 DEF History

LEMMA WindowMachine ==
  ASSUME Searchers, NEW w \in Windows, NEW trig \in BOOLEAN
  PROVE  GenGate(window[w], trig, Starts[w], WindowLen) \in Machine(WindowLen)
<1>1. window[w] \in Machine(WindowLen)  BY DEF Searchers
<1> QED BY <1>1, MachineType, Constants, WindowsAre

LEMMA ChannelTypes ==
  ASSUME Types, NEW trig \in BOOLEAN, NEW d \in Samples, InChannel(trig, d)
  PROVE  Types'
<1> DEFINE idle == AllIdle \/ (clean /\ gates.state = "TRIGGERED" /\ ~Opens(GateStart))
<1>1. Registers /\ Histories /\ Searchers  BY DEF Types
<1>2. d \in Int /\ GateStart \in Nat  BY Constants
<1>3. BeamStats(trig, d) /\ UNCHANGED <<peakfind, search, pulse_found, boow_dly, found>>
  BY DEF InChannel
<1>4. finder.peak_val \in BOOLEAN /\ integral_gate \in BOOLEAN
  BY <1>1 DEF Registers, FinderRegs
<1>5. Registers'
  <2>1. channel' \in {"window", "outside"}  BY <1>3 DEF BeamStats
  <2>2. samplenum' \in 0 .. LastSample  BY <1>1, <1>3, SampleNumType DEF BeamStats
  <2>3. gates' \in GateRegs /\ baseline_gate' \in BOOLEAN /\ integral_gate' \in BOOLEAN
    BY <1>1, <1>2, <1>3, GatesType DEF BeamStats
  <2>4. base' \in BaseRegs /\ baseline' \in Scale /\ baseline_val' \in BOOLEAN
    BY <1>1, <1>2, <1>3, BaselineType DEF BeamStats
  <2>5. intg' \in IntgRegs /\ integral' \in Nat
    BY <1>1, <1>2, <1>3, IntegralType DEF BeamStats
  <2>6. finder' \in FinderRegs /\ peak_sampnum' \in 0 .. LastSample
    BY <1>1, <1>2, <1>3, <1>4, PeakType DEF BeamStats
  <2>7. width' \in WidthRegs /\ fwhm' \in 0 .. WidthMod - 1
    BY <1>1, <1>3, <1>4, WidthType DEF BeamStats
  <2>8. (baseline \in Scale)' /\ (gates \in GateRegs)' /\ (base \in BaseRegs)'
        /\ (intg \in IntgRegs)' /\ (finder \in FinderRegs)' /\ (width \in WidthRegs)'
    BY <2>3, <2>4, <2>5, <2>6, <2>7
         DEF Scale, GateRegs, BaseRegs, IntgRegs, FinderRegs, WidthRegs
  <2> QED BY <2>1, <2>2, <2>3, <2>4, <2>5, <2>6, <2>7, <2>8 DEF Registers
<1>6. /\ win' \in Seq(Int) /\ Len(win') <= Window /\ clean' \in BOOLEAN
      /\ \/ win' = << >> /\ Len(win') = 0
         \/ win' = win
         \/ win' = Append(win, d) /\ Len(win') = Len(win) + 1 /\ Len(win) < Window
  <2>1. idle \in BOOLEAN  OBVIOUS
  <2>2. History(trig, d, idle)  BY <1>3 DEF BeamStats
  <2> HIDE DEF idle
  <2> QED BY <1>1, <1>2, <2>1, <2>2, WinStep
<1>7. masked' \in Seq(BOOLEAN) /\ Len(masked') = Len(win') /\ channel' = "window"
  <2>1. /\ masked \in Seq(BOOLEAN) /\ Len(masked) = Len(win) /\ channel' = "window"
        /\ Len(win) \in Nat
    BY <1>1, <1>3 DEF Histories, BeamStats
  <2>2. masked' = IF Len(win') > Len(win) THEN Append(masked, Open(window[1]))
                  ELSE IF win' = << >> THEN << >> ELSE masked
    BY DEF InChannel
  <2>3. << >> \in Seq(BOOLEAN) /\ Len(<< >>) = 0  OBVIOUS
  <2>4. Open(window[1]) \in BOOLEAN  BY DEF Open
  <2>5. CASE Len(win') > Len(win)
    <3>1. Len(win') = Len(win) + 1  BY <1>6, <2>1, <2>5
    <3>2. masked' = Append(masked, Open(window[1]))  BY <2>2, <2>5
    <3>3. masked' \in Seq(BOOLEAN) /\ Len(masked') = Len(masked) + 1
      BY <2>1, <2>4, <3>2, AppendType
    <3> QED BY <2>1, <3>1, <3>3
  <2>6. CASE ~(Len(win') > Len(win)) /\ win' = << >>
    BY <2>1, <2>2, <2>3, <2>6
  <2>7. CASE ~(Len(win') > Len(win)) /\ win' # << >>
    <3>1. win' = win  BY <1>6, <2>1, <2>7
    <3> QED BY <2>1, <2>2, <2>7, <3>1
  <2> QED BY <2>5, <2>6, <2>7
<1>8. Histories'
  <2>1. dly' \in Seq(Int) /\ Len(dly') = Delay
    BY <1>1, <1>2, <1>3, ShiftType, Constants DEF Histories, BeamStats
  <2>2. fresh' \in BOOLEAN  BY <1>1, <1>3 DEF BeamStats, Histories
  <2>3. armed' \in BOOLEAN  BY <1>1 DEF InChannel, Armed, Histories
  <2>4. found' \in {NoNumber} \cup 0 .. LastSample  BY <1>1, <1>3 DEF Histories
  <2> QED BY <1>6, <1>7, <2>1, <2>2, <2>3, <2>4 DEF Histories, Window, NoNumber
<1>9. Searchers'
  <2>1. window' \in [Windows -> Machine(WindowLen)]
    <3>1. window' = [window EXCEPT ![1] = GenGate(window[1], trig, Starts[1], WindowLen)]
      BY DEF InChannel
    <3>2. GenGate(window[1], trig, Starts[1], WindowLen) \in Machine(WindowLen)
      BY <1>1, WindowMachine, WindowsAre
    <3> QED BY <1>1, <3>1, <3>2 DEF Searchers
  <2> QED BY <1>1, <1>3, <2>1 DEF Searchers, Windows, Machine
<1> QED BY <1>5, <1>8, <1>9 DEF Types
LEMMA OutsideTypes ==
  ASSUME Types, NEW trig \in BOOLEAN, NEW d \in Samples, FindBeamOow(trig, d)
  PROVE  Types'
<1> DEFINE b    == BoowData(d)
           idle == AllIdle /\ peakfind.state = "IDLE" /\ ~pulse_found
<1>1. Registers /\ Histories /\ Searchers  BY DEF Types
<1>2. d \in Int /\ b \in Int /\ b \in Samples \cup {0} /\ 0 \in Nat
  BY Constants DEF BoowData
<1>3. dly[1] \in Int  BY <1>1, ShiftType, Constants DEF Histories
<1>4. /\ pulse_found \in BOOLEAN /\ baseline_val \in BOOLEAN /\ Open(peakfind) \in BOOLEAN
      /\ channel = "outside" /\ channel' = channel
  BY <1>1 DEF Registers, Searchers, Open, FindBeamOow
<1>5. /\ SampleNum(trig) /\ FindBoowPulse(trig, b) /\ GenGates(pulse_found, 0)
      /\ CalcBaseline(trig, dly[1]) /\ CalcIntegral(trig, dly[1])
      /\ FindPeak(trig, b, Open(peakfind)) /\ CalcFwhm(trig, baseline_val)
      /\ History(trig, dly[1], idle)
  BY DEF FindBeamOow
<1> HIDE DEF b, idle
<1>6. Registers'
  <2>1. samplenum' \in 0 .. LastSample  BY <1>1, <1>5, SampleNumType
  <2>2. gates' \in GateRegs /\ baseline_gate' \in BOOLEAN /\ integral_gate' \in BOOLEAN
    BY <1>1, <1>2, <1>4, <1>5, GatesType
  <2>3. base' \in BaseRegs /\ baseline' \in Scale /\ baseline_val' \in BOOLEAN
    BY <1>1, <1>3, <1>5, BaselineType
  <2>4. intg' \in IntgRegs /\ integral' \in Nat  BY <1>1, <1>3, <1>5, IntegralType
  <2>5. finder' \in FinderRegs /\ peak_sampnum' \in 0 .. LastSample
    BY <1>1, <1>2, <1>4, <1>5, PeakType
  <2>6. width' \in WidthRegs /\ fwhm' \in 0 .. WidthMod - 1
    BY <1>1, <1>4, <1>5, WidthType
  <2>7. (baseline \in Scale)' /\ (gates \in GateRegs)' /\ (base \in BaseRegs)'
        /\ (intg \in IntgRegs)' /\ (finder \in FinderRegs)' /\ (width \in WidthRegs)'
    BY <2>2, <2>3, <2>4, <2>5, <2>6 DEF Scale, GateRegs, BaseRegs, IntgRegs, FinderRegs, WidthRegs
  <2> QED BY <1>4, <2>1, <2>2, <2>3, <2>4, <2>5, <2>6, <2>7 DEF Registers
<1>7. Histories'
  <2>1. win' \in Seq(Int) /\ Len(win') <= Window /\ clean' \in BOOLEAN
    <3>1. idle \in BOOLEAN  BY DEF idle
    <3> QED BY <1>1, <1>3, <1>5, <3>1, WinStep
  <2>2. dly' \in Seq(Int) /\ Len(dly') = Delay
    BY <1>1, <1>2, ShiftType, Constants DEF Histories, FindBeamOow
  <2>3. fresh' \in BOOLEAN /\ masked' \in Seq(BOOLEAN) /\ Len(masked') = 0 /\ channel' = "outside"
    BY <1>1, <1>4 DEF FindBeamOow, Histories
  <2>4. armed' \in BOOLEAN  BY <1>1 DEF FindBeamOow, Armed, Histories
  <2>5. found' \in {NoNumber} \cup 0 .. LastSample
    BY <1>1 DEF Histories, Registers, FindBeamOow
  <2> QED BY <2>1, <2>2, <2>3, <2>4, <2>5 DEF Histories, Window, NoNumber
<1>8. Searchers'
  <2>1. window' \in [Windows -> Machine(WindowLen)]
    <3>1. window' = [w \in Windows |-> GenGate(window[w], trig, Starts[w], WindowLen)]
      BY DEF FindBeamOow
    <3> QED BY <1>1, <3>1, WindowMachine
  <2>2. peakfind' \in Machine(PeakLen)
    <3>1. peakfind' = GenGate(peakfind, pulse_found, 0, PeakLen)  BY DEF FindBeamOow
    <3>2. peakfind \in Machine(PeakLen)  BY <1>1 DEF Searchers
    <3> QED BY <1>2, <1>4, <3>1, <3>2, MachineType, Constants
  <2>3. search' \in {"SEARCHING", "WAITFORNEXTTRIGGER"} /\ pulse_found' \in BOOLEAN
    BY <1>1, <1>5 DEF FindBoowPulse, Searchers
  <2>4. boow_dly' \in Seq(Samples \cup {0}) /\ Len(boow_dly') = OowDelay
    <3>1. boow_dly' = Append(Tail(boow_dly), b)  BY <1>5 DEF FindBoowPulse
    <3>2. boow_dly \in Seq(Samples \cup {0}) /\ Len(boow_dly) = OowDelay
      BY <1>1 DEF Searchers
    <3> QED BY <1>2, <3>1, <3>2, ShiftType, Constants
  <2> QED BY <2>1, <2>2, <2>3, <2>4 DEF Searchers, Windows, Machine
<1> QED BY <1>6, <1>7, <1>8 DEF Types

LEMMA StutterTypes == Types /\ UNCHANGED vars => Types'
BY DEF Types, Registers, Histories, Searchers, Scale, GateRegs, BaseRegs, IntgRegs, FinderRegs,
       WidthRegs, Windows, Machine, Window, NoNumber, vars, pulseVars, gateVars, statVars, oowVars

LEMMA NextTypes == Types /\ [Next]_vars => Types'
BY ChannelTypes, OutsideTypes, StutterTypes DEF Next

LEMMA AlwaysTypes == Spec => []Types
BY InitTypes, NextTypes, PTL DEF Spec

\* The registers of the measurement and of the search keep to their ranges,
\* for every width of gates, sums and samples (calc_charge.vhd:96-156).
THEOREM TypeCorrect == Spec => []TypeOK
<1>1. Types => TypeOK
  <2> SUFFICES ASSUME Types PROVE TypeOK  OBVIOUS
  <2>1. Registers /\ Histories /\ Searchers  BY DEF Types
  <2>2. PulseTypeOK
    BY <2>1 DEF PulseTypeOK, Registers, Histories, Scale, GateRegs, BaseRegs, IntgRegs
  <2> QED BY <2>1, <2>2 DEF TypeOK, Histories, Searchers, Machine
<1> QED BY <1>1, AlwaysTypes, PTL

-----------------------------------------------------------------------------
(* What is found lies outside of the windows.                              *)

\* Neither the sample counter ends within a window nor the threshold, added to
\* a sample, leaves the width of one.
CounterFits   == \A w \in Windows : Starts[w] + 1 + WindowLen < LastSample
ThresholdFits == Threshold \in 0 .. HalfScale - 1 /\ \A d \in Samples : d + Threshold < HalfScale

\* A window counts down from its whole length, and opens and closes at numbers
\* of the sample counter.
Loaded == \A w \in Windows : window[w].state = "TRIGGERED" => window[w].hicnt = WindowLen

Place(w) ==
  /\ window[w].state = "TRIGGERED" => samplenum <= Starts[w]
  /\ window[w].state = "PULSE_HI"  => samplenum = Starts[w] + 1 + WindowLen - window[w].hicnt
  /\ window[w].state = "IDLE"      => samplenum > Starts[w] + 1 + WindowLen

OutsideInv ==
  /\ Loaded
  /\ channel = "window" => pulse_found = FALSE
  /\ channel = "outside" /\ armed => \A w \in Windows : Place(w)
  /\ OnlyOutside

LEMMA InitOutside == Init => OutsideInv
BY DEF Init, PulseInit, OutsideInv, Loaded, OnlyOutside, IdleGate

LEMMA LoadedStep ==
  ASSUME NEW g \in Machine(WindowLen), NEW trig \in BOOLEAN, NEW start \in Nat,
         g.state = "TRIGGERED" => g.hicnt = WindowLen,
         GenGate(g, trig, start, WindowLen).state = "TRIGGERED"
  PROVE  GenGate(g, trig, start, WindowLen).hicnt = WindowLen
BY DEF Machine, GenGate, GateOpens, IdleGate

LEMMA NextLoaded == Types /\ Loaded /\ Next => Loaded'
<1> SUFFICES ASSUME Types, Loaded, NEW trig \in BOOLEAN, NEW d \in Samples,
                    InChannel(trig, d) \/ FindBeamOow(trig, d),
                    NEW w \in Windows, window'[w].state = "TRIGGERED"
             PROVE  window'[w].hicnt = WindowLen
  BY DEF Next, Loaded, Windows
<1>1. window[w] \in Machine(WindowLen) /\ window \in [Windows -> Machine(WindowLen)]
  BY DEF Types, Searchers
<1>2. window'[w] = window[w] \/ window'[w] = GenGate(window[w], trig, Starts[w], WindowLen)
  <2>1. CASE InChannel(trig, d)  BY <1>1, <2>1, WindowsAre DEF InChannel
  <2>2. CASE FindBeamOow(trig, d)  BY <1>1, <2>2 DEF FindBeamOow
  <2> QED BY <2>1, <2>2
<1>3. window[w].state = "TRIGGERED" => window[w].hicnt = WindowLen  BY DEF Loaded
<1> QED BY <1>1, <1>2, <1>3, LoadedStep, WindowsAre

\* A window that the trigger found closed stays in step with the samples.
LEMMA PlaceStep ==
  ASSUME Types, Loaded, CounterFits, channel = "outside", armed => \A v \in Windows : Place(v),
         NEW trig \in BOOLEAN, NEW d \in Samples, FindBeamOow(trig, d), armed',
         NEW w \in Windows
  PROVE  Place(w)'
<1> DEFINE g == window[w]
<1> USE Constants
<1>1. /\ g \in Machine(WindowLen) /\ window'[w] = GenGate(g, trig, Starts[w], WindowLen)
      /\ samplenum \in 0 .. LastSample /\ Starts[w] \in Nat
      /\ Starts[w] + 1 + WindowLen < LastSample
  BY WindowsAre DEF Types, Searchers, Registers, FindBeamOow, CounterFits
<1>2. samplenum' = IF trig THEN 0 ELSE Min({samplenum + 1, LastSample})
  BY DEF FindBeamOow, SampleNum
<1>3. Min({samplenum + 1, LastSample}) =
        IF samplenum + 1 < LastSample THEN samplenum + 1 ELSE LastSample
  BY <1>1, MinIs
<1>4. g.state = "TRIGGERED" => g.hicnt = WindowLen  BY DEF Loaded
<1>5. CASE trig
  <2>1. WindowIdle(w)  BY <1>5 DEF FindBeamOow, Armed
  <2>2. GenGate(g, trig, Starts[w], WindowLen).state = "TRIGGERED"
    BY <1>1, <1>5, <2>1 DEF WindowIdle, GenGate, Machine
  <2>3. samplenum' = 0  BY <1>2, <1>5
  <2> QED BY <1>1, <2>2, <2>3 DEF Place
<1>6. CASE ~trig
  <2>1. Place(w)  BY <1>6 DEF FindBeamOow, Armed
  <2>2. samplenum' = IF samplenum + 1 < LastSample THEN samplenum + 1 ELSE LastSample
    BY <1>2, <1>3, <1>6
  <2>3. CASE g.state = "IDLE"
    <3>1. window'[w] = g  BY <1>1, <1>6, <2>3 DEF GenGate
    <3> QED BY <1>1, <2>1, <2>2, <2>3, <3>1 DEF Place
  <2>4. CASE g.state = "TRIGGERED" /\ GateOpens(g, Starts[w])
    <3>1. window'[w].state = "PULSE_HI" /\ window'[w].hicnt = WindowLen
      BY <1>1, <1>4, <2>4 DEF GenGate, Machine
    <3>2. samplenum = Starts[w]  BY <1>1, <2>1, <2>4 DEF Place, GateOpens
    <3> QED BY <1>1, <2>2, <3>1, <3>2 DEF Place
  <2>5. CASE g.state = "TRIGGERED" /\ ~GateOpens(g, Starts[w])
    <3>1. window'[w] = g  BY <1>1, <2>5 DEF GenGate
    <3>2. samplenum < Starts[w]  BY <1>1, <2>5 DEF GateOpens
    <3> QED BY <1>1, <2>2, <2>5, <3>1, <3>2 DEF Place
  <2>6. CASE g.state = "PULSE_HI" /\ g.hicnt = 0
    <3>1. window'[w].state = "IDLE"  BY <1>1, <2>6 DEF GenGate, IdleGate
    <3>2. samplenum = Starts[w] + 1 + WindowLen  BY <1>1, <2>1, <2>6 DEF Place
    <3> QED BY <1>1, <2>2, <3>1, <3>2 DEF Place
  <2>7. CASE g.state = "PULSE_HI" /\ g.hicnt # 0
    <3>1. window'[w].state = "PULSE_HI" /\ window'[w].hicnt = g.hicnt - 1
      BY <1>1, <2>7 DEF GenGate, Machine
    <3>2. samplenum = Starts[w] + 1 + WindowLen - g.hicnt /\ g.hicnt \in 1 .. WindowLen
      BY <1>1, <2>1, <2>7 DEF Place, Machine
    <3> QED BY <1>1, <2>2, <3>1, <3>2 DEF Place
  <2> QED BY <1>1, <2>3, <2>4, <2>5, <2>6, <2>7 DEF Machine
<1> QED BY <1>5, <1>6

\* The zero put for a sample in a window rises above nothing.
LEMMA ZeroFindsNothing ==
  ASSUME Types, ThresholdFits, \A d \in Samples : d + Threshold >= 0
  PROVE  ~Rises(0)
<1> DEFINE n == boow_dly[1] + Threshold
           h == 2 * HalfScale
<1>1. boow_dly[1] \in Samples \cup {0}
  BY ShiftType, Constants DEF Types, Searchers
<1>2. n \in 0 .. HalfScale - 1
  <2>1. CASE boow_dly[1] = 0  BY <2>1, Constants DEF ThresholdFits
  <2>2. CASE boow_dly[1] \in Samples
    <3>1. PICK e \in Samples : e = boow_dly[1]  BY <2>2
    <3>2. e + Threshold >= 0 /\ e + Threshold < HalfScale  BY DEF ThresholdFits
    <3>3. e \in Int /\ Threshold \in Int  BY Constants
    <3> QED BY <3>1, <3>2, <3>3, Constants
  <2> QED BY <1>1, <2>1, <2>2
<1>3. h \in Nat /\ h > 0 /\ n + HalfScale \in 0 .. h - 1  BY <1>2, Constants
<1> HIDE DEF n, h
<1>4. (n + HalfScale) % h = n + HalfScale  BY <1>3
<1>5. Signed(n) = n  BY <1>2, <1>4, Constants DEF Signed, h
<1> QED BY <1>2, <1>5, Constants DEF Rises, n

LEMMA FoundOutside ==
  ASSUME Types, OutsideInv, ThresholdFits, channel = "outside",
         NEW trig \in BOOLEAN, NEW d \in Samples, FindBeamOow(trig, d)
  PROVE  OnlyOutside'
<1> SUFFICES ASSUME pulse_found', found' # NoNumber,
                    \A e \in Samples : e + Threshold >= 0, NEW w \in Windows
             PROVE  found' \notin Starts[w] + 1 .. Starts[w] + 1 + WindowLen
  BY DEF OnlyOutside, NoNumber, Windows
<1>1. armed /\ found' = samplenum  BY DEF FindBeamOow
<1>2. Rises(BoowData(d))  BY DEF FindBeamOow, FindBoowPulse
<1>3. ~InWindow  BY <1>2, ZeroFindsNothing DEF BoowData
<1>4. window[w].state # "PULSE_HI"  BY <1>3 DEF InWindow, Open
<1>5. /\ window[w].state \in {"IDLE", "TRIGGERED"} /\ samplenum \in Nat /\ Starts[w] \in Nat
  BY <1>4, WindowsAre DEF Types, Searchers, Machine, Registers
<1>6. Place(w)  BY <1>1 DEF OutsideInv
<1> QED BY <1>1, <1>5, <1>6, Constants DEF Place

LEMMA NextOutside ==
  ASSUME CounterFits, ThresholdFits
  PROVE  Types /\ OutsideInv /\ [Next]_vars => OutsideInv'
<1> SUFFICES ASSUME Types, OutsideInv, [Next]_vars PROVE OutsideInv'  OBVIOUS
<1>1. CASE UNCHANGED vars
  BY <1>1 DEF OutsideInv, OnlyOutside, Loaded, Place, Windows, NoNumber, vars, pulseVars, gateVars,
              oowVars
<1>2. ASSUME NEW trig \in BOOLEAN, NEW d \in Samples, InChannel(trig, d) PROVE OutsideInv'
  <2>1. channel' = "window" /\ pulse_found = FALSE /\ pulse_found' = pulse_found
    BY <1>2 DEF InChannel, BeamStats, OutsideInv
  <2>2. Loaded'  BY <1>2, NextLoaded DEF Next, OutsideInv
  <2> QED BY <2>1, <2>2 DEF OutsideInv, OnlyOutside
<1>3. ASSUME NEW trig \in BOOLEAN, NEW d \in Samples, FindBeamOow(trig, d) PROVE OutsideInv'
  <2>1. channel = "outside" /\ channel' = "outside"  BY <1>3 DEF FindBeamOow
  <2>2. Loaded'  BY <1>3, NextLoaded DEF Next, OutsideInv
  <2>3. OnlyOutside'  BY <1>3, <2>1, FoundOutside
  <2>4. armed' => \A w \in Windows : Place(w)'
    BY <1>3, <2>1, PlaceStep DEF OutsideInv
  <2> QED BY <2>1, <2>2, <2>3, <2>4 DEF OutsideInv, Windows
<1> QED BY <1>1, <1>2, <1>3 DEF Next

\* What find_beam_oow reports as a pulse outside of the windows lies in none
\* (find_beam_oow.vhd, find_boow_pulse.vhd, gen_gate.vhd), for any number of
\* windows of any length at any starts, which may overlap.
THEOREM FoundOutsideOnly == ASSUME CounterFits, ThresholdFits PROVE Spec => []OnlyOutside
<1>1. Init => Types /\ OutsideInv  BY InitTypes, InitOutside
<1>2. Types /\ OutsideInv /\ [Next]_vars => (Types /\ OutsideInv)'
  BY NextTypes, NextOutside
<1>3. Types /\ OutsideInv => OnlyOutside  BY DEF OutsideInv
<1> QED BY <1>1, <1>2, <1>3, PTL DEF Spec

-----------------------------------------------------------------------------
(* The clocks of an event.  The gates set off one process after the other; *)
(* where each of them is follows from the number of clocks since, which is *)
(* the length of win until the event has been measured.                    *)

\* The sums and the search for the peak are over when their gates are.
InStep ==
  /\ BaselineAcc <= BaselineLen + IntegralLen
  /\ IntegralAcc < IntegralLen
  /\ PeakLen < BaselineLen + IntegralLen

GatesAt(n) ==
  /\ n <= BaselineLen =>
       gates.state = "BASELINE_ACTIVE" /\ gates.baseline_cnt = BaselineLen - n
         /\ gates.integral_cnt = IntegralLen
  /\ n \in BaselineLen + 1 .. BaselineLen + IntegralLen + 1 =>
       gates.state = "INTEGRAL_ACTIVE" /\ gates.integral_cnt = BaselineLen + IntegralLen + 1 - n
  /\ n > BaselineLen + IntegralLen + 1 => gates.state = "IDLE"
  /\ baseline_gate <=> n <= BaselineLen
  /\ integral_gate <=> n \in BaselineLen + 2 .. BaselineLen + IntegralLen + 1

BaseAt(n) ==
  /\ base.state = "START_ACCUM" <=> n \in 1 .. BaselineAcc + 1
  /\ n \in 1 .. BaselineAcc + 1 => base.accum_cnt = n - 1
  /\ n = 0 => base.last = FALSE
  /\ n > 0 => base.last = TRUE \/ baseline_gate = FALSE
  /\ n >= BaselineAcc + 3 => baseline = base.accum_lat

IntgAt(n) ==
  /\ intg.state = "START_ACCUM" <=> n \in BaselineLen + 3 .. BaselineLen + IntegralAcc + 3
  /\ n \in BaselineLen + 3 .. BaselineLen + IntegralAcc + 3 =>
       intg.accum_cnt = n - (BaselineLen + 3)
  /\ n <= BaselineLen + 2 => intg.last = FALSE
  /\ n > BaselineLen + 2 => intg.last = TRUE \/ integral_gate = FALSE

FinderAt(n) ==
  /\ channel = "window" =>
       (finder.state = "GATE_ACTIVE" <=> n \in BaselineLen + 3 .. BaselineLen + IntegralLen + 2)
  /\ channel = "outside" =>
       /\ finder.state = "GATE_ACTIVE" <=> n \in 1 .. PeakLen + 1
       /\ n <= PeakLen => peakfind.state = "PULSE_HI" /\ peakfind.hicnt = PeakLen - n
       /\ n > PeakLen => peakfind.state = "IDLE"

At(n) == n = Len(win) /\ GatesAt(n) /\ BaseAt(n) /\ IntgAt(n) /\ FinderAt(n)

\* The gates have opened.
Begun == Len(win) > 0 \/ gates.state = "BASELINE_ACTIVE"

Quiet == base.state = "IDLE" /\ intg.state = "IDLE" /\ finder.state = "IDLE"

\* No gate is open while the generators rest.
GateRest ==
  /\ gates.state # "BASELINE_ACTIVE" => baseline_gate = FALSE
  /\ gates.state # "INTEGRAL_ACTIVE" => integral_gate = FALSE
  /\ peakfind.state = "TRIGGERED" => peakfind.hicnt = PeakLen

\* The search is over for this event.
Searched == pulse_found = FALSE /\ search = "WAITFORNEXTTRIGGER"

EventInv ==
  /\ channel = "outside" /\ pulse_found => search = "WAITFORNEXTTRIGGER"
  /\ clean /\ Begun => \E n \in 0 .. Window : At(n)
  /\ clean /\ ~Begun =>
       /\ Quiet /\ gates.state \in {"IDLE", "TRIGGERED"}
       /\ channel = "window" => gates.state = "TRIGGERED"
       /\ channel = "outside" => peakfind.state = gates.state
  /\ clean /\ channel = "outside" /\ (Begun \/ gates.state = "TRIGGERED") => Searched

LEMMA InitEvent == Init => GateRest /\ EventInv
<1>1. Len(<< >>) = 0  OBVIOUS
<1> QED BY <1>1 DEF Init, PulseInit, GateRest, EventInv, Begun, IdleGate

LEMMA RestStep ==
  ASSUME Types, GateRest, NEW trig \in BOOLEAN, NEW start \in Nat, GenGates(trig, start)
  PROVE  /\ gates'.state # "BASELINE_ACTIVE" => baseline_gate' = FALSE
         /\ gates'.state # "INTEGRAL_ACTIVE" => integral_gate' = FALSE
<1>1. gates \in GateRegs /\ baseline_gate \in BOOLEAN /\ integral_gate \in BOOLEAN
  BY DEF Types, Registers
<1>2. CASE GenGates(trig, start)!1 \/ GenGates(trig, start)!3  BY <1>2 DEF GateRest
<1>3. CASE GenGates(trig, start)!2  BY <1>3
<1>4. CASE GenGates(trig, start)!4  BY <1>4 DEF GateRest, Opens
<1>5. CASE GenGates(trig, start)!5
  <2>1. integral_gate' = FALSE /\ baseline_gate' = (gates.baseline_cnt # 0)
    BY <1>5 DEF GateRest
  <2>2. CASE gates.baseline_cnt = 0  BY <1>1, <1>5, <2>1, <2>2 DEF GateRegs
  <2>3. CASE gates.baseline_cnt # 0
    <3>1. gates'.state = "BASELINE_ACTIVE"  BY <1>1, <1>5, <2>3 DEF GateRegs
    <3> QED BY <2>1, <3>1
  <2> QED BY <2>2, <2>3
<1>6. CASE GenGates(trig, start)!6
  <2>1. baseline_gate' = FALSE /\ integral_gate' = (gates.integral_cnt # 0)
    BY <1>6 DEF GateRest
  <2>2. CASE gates.integral_cnt = 0  BY <1>1, <1>6, <2>1, <2>2 DEF GateRegs
  <2>3. CASE gates.integral_cnt # 0
    <3>1. gates'.state = "INTEGRAL_ACTIVE"  BY <1>1, <1>6, <2>3 DEF GateRegs
    <3> QED BY <2>1, <3>1
  <2> QED BY <2>2, <2>3
<1> QED BY <1>2, <1>3, <1>4, <1>5, <1>6 DEF GenGates

LEMMA NextRest == Types /\ GateRest /\ [Next]_vars => GateRest'
<1> SUFFICES ASSUME Types, GateRest, [Next]_vars PROVE GateRest'  OBVIOUS
<1>1. CASE UNCHANGED vars
  BY <1>1 DEF GateRest, vars, pulseVars, gateVars, oowVars
<1>2. ASSUME NEW trig \in BOOLEAN, NEW d \in Samples, InChannel(trig, d) PROVE GateRest'
  <2>1. GenGates(trig, GateStart) /\ peakfind' = peakfind  BY <1>2 DEF InChannel, BeamStats
  <2> QED BY <2>1, RestStep, Constants DEF GateRest
<1>3. ASSUME NEW trig \in BOOLEAN, NEW d \in Samples, FindBeamOow(trig, d) PROVE GateRest'
  <2>1. GenGates(pulse_found, 0) /\ peakfind' = GenGate(peakfind, pulse_found, 0, PeakLen)
    BY <1>3 DEF FindBeamOow
  <2>2. pulse_found \in BOOLEAN /\ peakfind \in Machine(PeakLen) /\ 0 \in Nat
    BY DEF Types, Searchers
  <2>3. peakfind'.state = "TRIGGERED" => peakfind'.hicnt = PeakLen
    BY <2>1, <2>2, Constants DEF GateRest, GenGate, GateOpens, Machine, IdleGate
  <2> QED BY <2>1, <2>2, <2>3, RestStep DEF GateRest
<1> QED BY <1>1, <1>2, <1>3 DEF Next

\* The clock after the n-th.
After(n) == IF n < Window THEN n + 1 ELSE n

LEMMA GatesOpen ==
  ASSUME Types, GateRest, NEW trig \in BOOLEAN, NEW start \in Nat, GenGates(trig, start),
         gates.state = "TRIGGERED", Opens(start)
  PROVE  GatesAt(0)'
<1>1. /\ gates' = [state |-> "BASELINE_ACTIVE", baseline_cnt |-> BaselineLen,
                   integral_cnt |-> IntegralLen]
      /\ baseline_gate' = TRUE /\ integral_gate' = FALSE
  BY DEF GenGates, GateRest
<1> QED BY <1>1, Constants DEF GatesAt

LEMMA GatesStep ==
  ASSUME Types, GateRest, NEW trig \in BOOLEAN, ~trig, NEW start \in Nat, GenGates(trig, start),
         NEW n \in 0 .. Window, GatesAt(n)
  PROVE  GatesAt(After(n))'
<1> DEFINE m == After(n)
<1> USE Constants
<1>1. gates \in GateRegs /\ baseline_gate \in BOOLEAN /\ integral_gate \in BOOLEAN
  BY DEF Types, Registers
<1>2. n \in Nat /\ Window = BaselineLen + IntegralLen + 3 /\ n <= Window  BY WindowsAre DEF Window
<1>3. m = IF n < Window THEN n + 1 ELSE n  BY DEF After
<1> HIDE DEF m
<1>4. CASE n <= BaselineLen
  <2>1. /\ gates.state = "BASELINE_ACTIVE" /\ gates.baseline_cnt = BaselineLen - n
        /\ gates.integral_cnt = IntegralLen /\ integral_gate = FALSE /\ m = n + 1
    BY <1>1, <1>2, <1>3, <1>4 DEF GatesAt
  <2>2. /\ baseline_gate' = (gates.baseline_cnt # 0) /\ integral_gate' = FALSE
        /\ gates' = IF gates.baseline_cnt = 0 THEN [gates EXCEPT !.state = "INTEGRAL_ACTIVE"]
                    ELSE [gates EXCEPT !.baseline_cnt = @ - 1]
    BY <2>1 DEF GenGates, Opens
  <2>3. CASE n = BaselineLen
    <3>1. gates'.state = "INTEGRAL_ACTIVE" /\ gates'.integral_cnt = IntegralLen
      BY <1>1, <1>2, <2>1, <2>2, <2>3 DEF GateRegs
    <3>2. baseline_gate' = FALSE /\ m = BaselineLen + 1
      BY <1>2, <2>1, <2>2, <2>3
    <3> QED BY <2>2, <3>1, <3>2 DEF GatesAt, m
  <2>4. CASE n < BaselineLen
    <3>1. /\ gates'.state = "BASELINE_ACTIVE" /\ gates'.integral_cnt = IntegralLen
          /\ gates'.baseline_cnt = BaselineLen - m
      BY <1>1, <1>2, <2>1, <2>2, <2>4 DEF GateRegs
    <3>2. gates.baseline_cnt # 0 /\ m <= BaselineLen  BY <1>2, <2>1, <2>4
    <3>3. baseline_gate' = TRUE  BY <2>2, <3>2
    <3> QED BY <1>2, <2>1, <2>2, <3>1, <3>2, <3>3 DEF GatesAt, m
  <2> QED BY <1>2, <1>4, <2>3, <2>4
<1>5. CASE n \in BaselineLen + 1 .. BaselineLen + IntegralLen + 1
  <2>1. /\ gates.state = "INTEGRAL_ACTIVE" /\ baseline_gate = FALSE /\ m = n + 1
        /\ gates.integral_cnt = BaselineLen + IntegralLen + 1 - n
    BY <1>1, <1>2, <1>3, <1>5 DEF GatesAt
  <2>2. /\ integral_gate' = (gates.integral_cnt # 0) /\ baseline_gate' = FALSE
        /\ gates' = IF gates.integral_cnt = 0 THEN [gates EXCEPT !.state = "IDLE"]
                    ELSE [gates EXCEPT !.integral_cnt = @ - 1]
    BY <2>1 DEF GenGates, Opens
  <2>3. CASE n = BaselineLen + IntegralLen + 1
    <3>1. gates'.state = "IDLE"  BY <1>1, <1>2, <2>1, <2>2, <2>3 DEF GateRegs
    <3>2. integral_gate' = FALSE /\ m = BaselineLen + IntegralLen + 2
      BY <1>2, <2>1, <2>2, <2>3
    <3> QED BY <2>2, <3>1, <3>2 DEF GatesAt, m
  <2>4. CASE n # BaselineLen + IntegralLen + 1
    <3>1. /\ gates'.state = "INTEGRAL_ACTIVE"
          /\ gates'.integral_cnt = BaselineLen + IntegralLen + 1 - m
      BY <1>1, <1>2, <1>5, <2>1, <2>2, <2>4 DEF GateRegs
    <3>2. gates.integral_cnt # 0 /\ m \in BaselineLen + 2 .. BaselineLen + IntegralLen + 1
      BY <1>2, <1>5, <2>1, <2>4
    <3>3. integral_gate' = TRUE  BY <2>2, <3>2
    <3> QED BY <1>2, <2>2, <3>1, <3>2, <3>3 DEF GatesAt, m
  <2> QED BY <2>3, <2>4
<1>6. CASE n > BaselineLen + IntegralLen + 1
  <2>1. gates.state = "IDLE" /\ baseline_gate = FALSE /\ integral_gate = FALSE
    BY <1>1, <1>2, <1>6 DEF GatesAt
  <2>2. UNCHANGED <<gates, baseline_gate, integral_gate>>  BY <2>1 DEF GenGates, Opens
  <2>3. m > BaselineLen + IntegralLen + 1 /\ m \in Nat  BY <1>2, <1>3, <1>6
  <2> QED BY <2>1, <2>2, <2>3 DEF GatesAt, m
<1> QED BY <1>2, <1>4, <1>5, <1>6

LEMMA BaseOpen ==
  ASSUME Types, NEW trig \in BOOLEAN, ~trig, NEW d \in Int, CalcBaseline(trig, d),
         base.state = "IDLE", baseline_gate = FALSE
  PROVE  base'.state = "IDLE" /\ BaseAt(0)'
<1>1. base \in BaseRegs  BY DEF Types, Registers
<1>2. base'.state = "IDLE" /\ base'.last = FALSE
  BY <1>1 DEF CalcBaseline, BaseRegs
<1> QED BY <1>2, Constants DEF BaseAt

LEMMA BaseStep ==
  ASSUME Types, Types', InStep,
         NEW trig \in BOOLEAN, ~trig, NEW d \in Int, CalcBaseline(trig, d),
         NEW n \in 0 .. Window, GatesAt(n), BaseAt(n), GatesAt(After(n))'
  PROVE  /\ BaseAt(After(n))'
         /\ n = Window => baseline' = baseline
<1> DEFINE m == After(n)
<1> USE Constants
<1>1. base \in BaseRegs /\ baseline_gate \in BOOLEAN /\ baseline_gate' \in BOOLEAN
  BY DEF Types, Registers
<1>2. /\ n \in Nat /\ n <= Window /\ Window = BaselineLen + IntegralLen + 3
      /\ BaselineAcc + 3 <= Window /\ m = IF n < Window THEN n + 1 ELSE n
  BY WindowsAre DEF Window, InStep, After
<1>3. /\ baseline_gate <=> n <= BaselineLen
      /\ baseline_gate' <=> m <= BaselineLen
  BY DEF GatesAt, m
<1>4. baseline' = base.accum_lat  BY DEF CalcBaseline
<1> HIDE DEF m
<1>5. CASE n = 0
  <2>1. base.state = "IDLE" /\ base.last = FALSE /\ baseline_gate = TRUE
    BY <1>1, <1>2, <1>3, <1>5 DEF BaseAt, BaseRegs
  <2>2. base'.state = "START_ACCUM" /\ base'.accum_cnt = 0 /\ base'.last = TRUE
    BY <1>1, <2>1 DEF CalcBaseline, BaseRegs
  <2>3. m = 1 /\ n # Window  BY <1>2, <1>5, WindowsAre
  <2> QED BY <1>2, <2>2, <2>3 DEF BaseAt, m
<1>6. CASE n \in 1 .. BaselineAcc
  <2>1. base.state = "START_ACCUM" /\ base.accum_cnt = n - 1 /\ n # Window /\ m = n + 1
    BY <1>2, <1>6 DEF BaseAt
  <2>2. base'.state = "START_ACCUM" /\ base'.accum_cnt = n /\ base'.last = base.last
    <3>1. base.accum_cnt # BaselineAcc /\ base.accum_cnt + 1 = n  BY <1>2, <1>6, <2>1
    <3>2. base' = [base EXCEPT !.accum_cnt = @ + 1, !.accum = Signed(@ + d), !.accum_val = FALSE]
      BY <2>1, <3>1 DEF CalcBaseline
    <3> QED BY <1>1, <2>1, <3>1, <3>2 DEF BaseRegs
  <2>3. base.last = TRUE \/ baseline_gate' = FALSE
    BY <1>1, <1>2, <1>3, <1>6, <2>1 DEF BaseAt
  <2>4. m \in 1 .. BaselineAcc + 1 /\ m - 1 = n  BY <1>2, <1>6, <2>1
  <2> QED BY <1>2, <2>1, <2>2, <2>3, <2>4 DEF BaseAt, m
<1>7. CASE n = BaselineAcc + 1
  <2>1. base.state = "START_ACCUM" /\ base.accum_cnt = BaselineAcc /\ n # Window /\ m = n + 1
    BY <1>2, <1>7 DEF BaseAt
  <2>2. base'.state = "IDLE" /\ base'.last = base.last
    BY <1>1, <2>1 DEF CalcBaseline, BaseRegs
  <2>3. base.last = TRUE \/ baseline_gate' = FALSE
    BY <1>1, <1>2, <1>3, <1>7, <2>1 DEF BaseAt
  <2>4. m = BaselineAcc + 2  BY <1>2, <1>7, <2>1
  <2> QED BY <1>2, <2>1, <2>2, <2>3, <2>4 DEF BaseAt, m
<1>8. CASE n > BaselineAcc + 1
  <2>1. base.state = "IDLE" /\ (base.last = TRUE \/ baseline_gate = FALSE)
    BY <1>1, <1>2, <1>8 DEF BaseAt, BaseRegs
  <2>2. /\ base'.state = "IDLE" /\ base'.last = baseline_gate
        /\ base'.accum_lat = base.accum_lat
    BY <1>1, <2>1 DEF CalcBaseline, BaseRegs
  <2>3. baseline_gate = TRUE \/ baseline_gate' = FALSE  BY <1>1, <1>2, <1>3
  <2>4. n = Window => baseline' = baseline  BY <1>2, <1>4 DEF BaseAt
  <2>5. m > BaselineAcc + 1 /\ m \in Nat  BY <1>2, <1>8
  <2> QED BY <1>2, <1>4, <2>2, <2>3, <2>4, <2>5 DEF BaseAt, m
<1> QED BY <1>2, <1>5, <1>6, <1>7, <1>8

LEMMA IntgOpen ==
  ASSUME Types, NEW trig \in BOOLEAN, ~trig, NEW d \in Int, CalcIntegral(trig, d),
         intg.state = "IDLE", integral_gate = FALSE
  PROVE  intg'.state = "IDLE" /\ IntgAt(0)'
<1> DEFINE r == Subtracted(intg, d)
<1>1. r \in IntgRegs /\ r.state = "IDLE"  BY SubtractedIs DEF Types
<1> HIDE DEF r
<1>2. intg' = [r EXCEPT !.last = integral_gate]  BY DEF CalcIntegral, r
<1>3. intg'.state = "IDLE" /\ intg'.last = FALSE  BY <1>1, <1>2 DEF IntgRegs
<1> QED BY <1>3, Constants DEF IntgAt

LEMMA IntgStep ==
  ASSUME Types, Types', InStep,
         NEW trig \in BOOLEAN, ~trig, NEW d \in Int, CalcIntegral(trig, d),
         NEW n \in 0 .. Window, GatesAt(n), IntgAt(n), GatesAt(After(n))'
  PROVE  /\ IntgAt(After(n))'
         /\ n = Window => integral' = integral
<1> DEFINE m == After(n)
           r == Subtracted(intg, d)
           first == BaselineLen + 3
           last  == BaselineLen + IntegralAcc + 3
<1> USE Constants
<1>1. /\ intg \in IntgRegs /\ integral_gate \in BOOLEAN /\ integral_gate' \in BOOLEAN
      /\ r \in IntgRegs /\ r.state = intg.state /\ r.last = intg.last
      /\ r.accum_cnt = intg.accum_cnt
  BY SubtractedIs DEF Types, Registers
<1>2. /\ n \in Nat /\ n <= Window /\ Window = BaselineLen + IntegralLen + 3
      /\ last < Window /\ m = IF n < Window THEN n + 1 ELSE n
      /\ first \in Nat /\ last \in Nat /\ last = first + IntegralAcc
  BY WindowsAre DEF Window, InStep, After
<1>3. /\ integral_gate <=> n \in BaselineLen + 2 .. BaselineLen + IntegralLen + 1
      /\ integral_gate' <=> m \in BaselineLen + 2 .. BaselineLen + IntegralLen + 1
  BY DEF GatesAt, m
<1>4. /\ intg.state = "START_ACCUM" <=> n \in first .. last
      /\ n \in first .. last => intg.accum_cnt = n - first
      /\ n < first => intg.last = FALSE
      /\ n >= first => intg.last = TRUE \/ integral_gate = FALSE
  BY <1>2 DEF IntgAt
<1>5. ASSUME intg'.state = "START_ACCUM" <=> m \in first .. last,
             m \in first .. last => intg'.accum_cnt = m - first,
             m < first => intg'.last = FALSE,
             m >= first => intg'.last = TRUE \/ integral_gate' = FALSE
      PROVE  IntgAt(m)'
  BY <1>2, <1>5 DEF IntgAt, m
<1> HIDE DEF m, r, first, last
<1>6. CASE n < BaselineLen + 2
  <2>1. intg.state = "IDLE" /\ integral_gate = FALSE /\ n # Window /\ m = n + 1 /\ m < first
    BY <1>1, <1>2, <1>3, <1>4, <1>6 DEF IntgRegs, first
  <2>2. intg' = [r EXCEPT !.last = integral_gate]  BY <2>1 DEF CalcIntegral, r
  <2>3. intg'.state = "IDLE" /\ intg'.last = FALSE  BY <1>1, <2>1, <2>2 DEF IntgRegs
  <2>4. m \notin first .. last /\ ~(m >= first)  BY <1>2, <2>1
  <2> QED BY <1>5, <2>1, <2>3, <2>4 DEF m
<1>7. CASE n = BaselineLen + 2
  <2>1. n # Window /\ m = first  BY <1>2, <1>7 DEF first, InStep
  <2>2. intg.state = "IDLE" /\ intg.last = FALSE /\ n < first
    BY <1>1, <1>2, <1>4, <1>7 DEF IntgRegs, first
  <2>3. integral_gate = TRUE
    <3>1. n \in BaselineLen + 2 .. BaselineLen + IntegralLen + 1  BY <1>7 DEF InStep
    <3> QED BY <1>3, <1>1, <3>1
  <2>4. intg' = [r EXCEPT !.last = TRUE, !.accum_cnt = 0, !.state = "START_ACCUM"]
    BY <2>2, <2>3 DEF CalcIntegral, r
  <2>5. intg'.state = "START_ACCUM" /\ intg'.last = TRUE /\ intg'.accum_cnt = 0
    BY <1>1, <2>4 DEF IntgRegs
  <2>6. m \in first .. last /\ m - first = 0 /\ ~(m < first)  BY <1>2, <2>1
  <2> QED BY <1>5, <2>1, <2>5, <2>6 DEF m
<1>8. CASE n \in first .. last - 1
  <2>1. /\ intg.state = "START_ACCUM" /\ intg.accum_cnt # IntegralAcc /\ m = n + 1 /\ n # Window
        /\ intg.accum_cnt + 1 = m - first /\ m \in first .. last /\ ~(m < first)
    BY <1>2, <1>4, <1>8
  <2>2. intg' = [r EXCEPT !.accum_cnt = @ + 1, !.accum = @ + intg.bs]
    BY <2>1 DEF CalcIntegral, r
  <2>3. /\ intg'.state = "START_ACCUM" /\ intg'.accum_cnt = m - first
        /\ intg'.last = intg.last
    BY <1>1, <2>1, <2>2 DEF IntgRegs
  <2>4. n >= first /\ n >= BaselineLen + 2 /\ m >= BaselineLen + 2  BY <1>2, <1>8, <2>1 DEF first
  <2>5. integral_gate = FALSE => integral_gate' = FALSE
    BY <1>1, <1>2, <1>3, <2>1, <2>4
  <2> QED BY <1>4, <1>5, <2>1, <2>3, <2>4, <2>5 DEF m
<1>9. CASE n = last
  <2>1. /\ intg.state = "START_ACCUM" /\ intg.accum_cnt = IntegralAcc /\ m = n + 1 /\ n # Window
        /\ m \notin first .. last /\ ~(m < first)
    BY <1>2, <1>4, <1>9
  <2>2. intg' = [r EXCEPT !.state = "IDLE", !.accum_cnt = 0, !.accum = 0]
    BY <2>1 DEF CalcIntegral, r
  <2>3. intg'.state = "IDLE" /\ intg'.last = intg.last
    BY <1>1, <2>2 DEF IntgRegs
  <2>4. n >= first /\ n >= BaselineLen + 2 /\ m >= BaselineLen + 2  BY <1>2, <1>9, <2>1 DEF first
  <2>5. integral_gate = FALSE => integral_gate' = FALSE
    BY <1>1, <1>2, <1>3, <2>1, <2>4
  <2> QED BY <1>4, <1>5, <2>1, <2>3, <2>4, <2>5 DEF m
<1>10. CASE n > last
  <2>1. /\ intg.state = "IDLE" /\ m \notin first .. last /\ ~(m < first)
        /\ n >= first /\ n >= BaselineLen + 2 /\ m >= BaselineLen + 2
    BY <1>1, <1>2, <1>4, <1>10 DEF IntgRegs, first
  <2>2. intg.last = TRUE \/ integral_gate = FALSE  BY <1>4, <2>1
  <2>3. intg' = [r EXCEPT !.last = integral_gate] /\ integral' = integral
    BY <2>1, <2>2 DEF CalcIntegral, r
  <2>4. intg'.state = "IDLE" /\ intg'.last = integral_gate
    BY <1>1, <2>1, <2>3 DEF IntgRegs
  <2>5. integral_gate = FALSE => integral_gate' = FALSE
    BY <1>1, <1>2, <1>3, <2>1
  <2> QED BY <1>1, <1>5, <2>1, <2>3, <2>4, <2>5 DEF m
<1> QED BY <1>2, <1>6, <1>7, <1>8, <1>9, <1>10 DEF first

\* find_peak follows its gate by one clock.
LEMMA FinderStates ==
  ASSUME Types, NEW trig \in BOOLEAN, NEW d \in Int, NEW gate \in BOOLEAN, FindPeak(trig, d, gate)
  PROVE  /\ trig => finder'.state = "IDLE"
         /\ ~trig => finder'.state = IF gate THEN "GATE_ACTIVE" ELSE "IDLE"
         /\ finder.state = "IDLE" /\ ~trig =>
              finder'.max_adc = finder.max_adc /\ peak_sampnum' = peak_sampnum
<1>1. finder \in FinderRegs  BY DEF Types, Registers
<1>2. CASE trig
  <2>1. finder' = [finder EXCEPT !.state = "IDLE", !.max_adc = Floor]  BY <1>2 DEF FindPeak
  <2> QED BY <1>1, <1>2, <2>1 DEF FinderRegs
<1>3. CASE ~trig /\ finder.state = "IDLE"
  <2>1. /\ finder' = [finder EXCEPT !.peak_val = FALSE,
                                    !.state = IF gate THEN "GATE_ACTIVE" ELSE "IDLE"]
        /\ peak_sampnum' = peak_sampnum
    BY <1>3 DEF FindPeak
  <2> QED BY <1>1, <1>3, <2>1 DEF FinderRegs
<1>4. CASE ~trig /\ finder.state # "IDLE"
  <2>1. finder' = [state    |-> IF gate THEN "GATE_ACTIVE" ELSE "IDLE",
                   peak_val |-> finder.peak_val \/ ~gate,
                   max_adc  |-> Max({d, finder.max_adc})]
    BY <1>4 DEF FindPeak
  <2> QED BY <1>4, <2>1
<1> QED BY <1>2, <1>3, <1>4

LEMMA WindowFinderStep ==
  ASSUME Types, InStep, channel = "window", channel' = channel,
         NEW trig \in BOOLEAN, ~trig, NEW d \in Int, FindPeak(trig, d, integral_gate),
         NEW n \in 0 .. Window, GatesAt(n), FinderAt(n)
  PROVE  FinderAt(After(n))'
<1> DEFINE m == After(n)
<1> USE Constants
<1>1. /\ n \in Nat /\ n <= Window /\ Window = BaselineLen + IntegralLen + 3
      /\ m = IF n < Window THEN n + 1 ELSE n
  BY WindowsAre DEF Window, After
<1>2. integral_gate \in BOOLEAN  BY DEF Types, Registers
<1>3. finder'.state = IF integral_gate THEN "GATE_ACTIVE" ELSE "IDLE"  BY <1>2, FinderStates
<1>4. integral_gate <=> n \in BaselineLen + 2 .. BaselineLen + IntegralLen + 1
  BY DEF GatesAt
<1> HIDE DEF m
<1>5. n \in BaselineLen + 2 .. BaselineLen + IntegralLen + 1
        <=> m \in BaselineLen + 3 .. BaselineLen + IntegralLen + 2
  BY <1>1
<1>6. finder'.state = "GATE_ACTIVE" <=> m \in BaselineLen + 3 .. BaselineLen + IntegralLen + 2
  BY <1>3, <1>4, <1>5
<1> QED BY <1>6 DEF FinderAt, m

LEMMA OutsideFinderStep ==
  ASSUME Types, InStep, channel = "outside", channel' = channel, pulse_found = FALSE,
         NEW trig \in BOOLEAN, ~trig, NEW d \in Int, FindPeak(trig, d, Open(peakfind)),
         peakfind' = GenGate(peakfind, pulse_found, 0, PeakLen),
         NEW n \in 0 .. Window, FinderAt(n)
  PROVE  FinderAt(After(n))'
<1> DEFINE m == After(n)
<1> USE Constants
<1>1. /\ n \in Nat /\ n <= Window /\ m = IF n < Window THEN n + 1 ELSE n
      /\ PeakLen + 1 < Window /\ Window \in Nat
  BY WindowsAre DEF Window, After, InStep
<1>2. peakfind \in Machine(PeakLen) /\ Open(peakfind) \in BOOLEAN
  BY DEF Types, Searchers, Open
<1>3. finder'.state = IF Open(peakfind) THEN "GATE_ACTIVE" ELSE "IDLE"  BY <1>2, FinderStates
<1> HIDE DEF m
<1>4. CASE n <= PeakLen
  <2>1. peakfind.state = "PULSE_HI" /\ peakfind.hicnt = PeakLen - n /\ m = n + 1
    <3>1. m = n + 1  BY <1>1, <1>4
    <3>2. peakfind.state = "PULSE_HI" /\ peakfind.hicnt = PeakLen - n  BY <1>4 DEF FinderAt
    <3> QED BY <3>1, <3>2
  <2>2. finder'.state = "GATE_ACTIVE" /\ m \in 1 .. PeakLen + 1
    BY <1>1, <1>3, <1>4, <2>1 DEF Open
  <2>3. CASE n = PeakLen
    <3>1. peakfind'.state = "IDLE" /\ m = PeakLen + 1
      BY <1>1, <2>1, <2>3 DEF GenGate, IdleGate
    <3> QED BY <2>2, <3>1 DEF FinderAt, m
  <2>4. CASE n < PeakLen
    <3>1. peakfind.hicnt # 0 /\ peakfind.hicnt - 1 = PeakLen - m /\ m <= PeakLen
      BY <1>1, <2>1, <2>4
    <3>2. peakfind' = [peakfind EXCEPT !.hicnt = @ - 1]  BY <2>1, <3>1 DEF GenGate
    <3>3. peakfind'.state = "PULSE_HI" /\ peakfind'.hicnt = PeakLen - m
      BY <1>2, <2>1, <3>1, <3>2 DEF Machine
    <3> QED BY <1>1, <2>2, <3>1, <3>3 DEF FinderAt, m
  <2> QED BY <1>1, <1>4, <2>3, <2>4
<1>5. CASE n > PeakLen
  <2>1. peakfind.state = "IDLE"  BY <1>5 DEF FinderAt
  <2>2. peakfind' = peakfind  BY <2>1 DEF GenGate
  <2>3. finder'.state = "IDLE"  BY <1>3, <2>1 DEF Open
  <2>4. m > PeakLen /\ m \notin 1 .. PeakLen + 1 /\ m \in Nat  BY <1>1, <1>5
  <2> QED BY <2>1, <2>2, <2>3, <2>4 DEF FinderAt, m
<1> QED BY <1>1, <1>4, <1>5

-----------------------------------------------------------------------------
(* The invariant of the event.                                             *)

\* What the history of samples does in a clock without a trigger, and with one.
LEMMA WinCases ==
  ASSUME Types, NEW trig \in BOOLEAN, NEW d \in Int, NEW idle \in BOOLEAN, History(trig, d, idle)
  PROVE  /\ trig => clean' = idle /\ Len(win') = 0
         /\ ~trig => clean' = clean
         /\ ~trig /\ clean /\ Begun /\ Len(win) < Window =>
              win' = Append(win, d) /\ Len(win') = Len(win) + 1
         /\ ~trig /\ clean /\ Begun /\ Len(win) = Window => win' = win
         /\ ~trig /\ clean /\ ~Begun => win' = << >> /\ Len(win') = 0
<1>1. win \in Seq(Int) /\ Len(win) \in Nat /\ Len(<< >>) = 0  BY DEF Types, Histories
<1>2. win # << >> <=> Len(win) > 0
  <2>1. win = << >> \/ Len(win) > 0  BY <1>1
  <2> QED BY <1>1, <2>1
<1>3. CASE trig  BY <1>1, <1>3 DEF History
<1>4. CASE ~trig /\ ~clean  BY <1>4 DEF History
<1>5. CASE ~trig /\ clean /\ ~Begun
  <2>1. win' = win /\ win = << >> /\ clean' = clean  BY <1>1, <1>2, <1>5 DEF History, Begun
  <2> QED BY <1>1, <1>5, <2>1
<1>6. CASE ~trig /\ clean /\ Begun /\ Len(win) < Window
  <2>1. win' = Append(win, d) /\ clean' = clean  BY <1>2, <1>6 DEF History, Begun
  <2>2. Len(win') = Len(win) + 1  BY <1>1, <2>1, AppendType
  <2>3. Len(win) # Window  BY <1>1, <1>6, WindowsAre
  <2> QED BY <1>6, <2>1, <2>2, <2>3
<1>7. CASE ~trig /\ clean /\ Begun /\ ~(Len(win) < Window)
  <2>1. win' = win /\ clean' = clean  BY <1>7 DEF History
  <2> QED BY <1>7, <2>1
<1> QED BY <1>3, <1>4, <1>5, <1>6, <1>7

LEMMA AllIdleIs ==
  AllIdle <=> gates.state = "IDLE" /\ Quiet
<1>1. AllIdle => gates.state = "IDLE" /\ Quiet
  <2> SUFFICES ASSUME AllIdle PROVE gates.state = "IDLE" /\ Quiet  OBVIOUS
  <2>1. \A s \in {gates.state, base.state, intg.state, finder.state} : s \in {"IDLE"}
    BY DEF AllIdle
  <2> QED BY <2>1 DEF Quiet
<1>2. gates.state = "IDLE" /\ Quiet => AllIdle  BY DEF AllIdle, Quiet
<1> QED BY <1>1, <1>2

\* A trigger leaves a process that rests at rest.
LEMMA TriggerRests ==
  ASSUME Types, Quiet, NEW d \in Int, NEW e \in Int, NEW gate \in BOOLEAN,
         CalcBaseline(TRUE, d), CalcIntegral(TRUE, d), FindPeak(TRUE, e, gate)
  PROVE  Quiet'
<1>1. base \in BaseRegs /\ Registers  BY DEF Types, Registers
<1>2. base'.state = "IDLE"
  <2>1. base' = [base EXCEPT !.accum = 0, !.accum_lat = 0]  BY DEF CalcBaseline
  <2> QED BY <1>1, <2>1 DEF BaseRegs, Quiet
<1>3. intg'.state = "IDLE"
  <2>1. intg' = Subtracted(intg, d)  BY DEF CalcIntegral
  <2> QED BY <1>1, <2>1, SubtractedIs DEF Quiet
<1>4. finder'.state = "IDLE"  BY FinderStates
<1> QED BY <1>2, <1>3, <1>4 DEF Quiet

\* Before the gates open, a clock leaves the processes at rest, with their
\* inputs seen low.
LEMMA RestsOn ==
  ASSUME Types, GateRest, Quiet, gates.state \in {"IDLE", "TRIGGERED"},
         NEW trig \in BOOLEAN, ~trig, NEW d \in Int, NEW e \in Int,
         CalcBaseline(trig, d), CalcIntegral(trig, d), FindPeak(trig, e, FALSE)
  PROVE  Quiet' /\ BaseAt(0)' /\ IntgAt(0)'
<1>1. baseline_gate = FALSE /\ integral_gate = FALSE  BY DEF GateRest
<1>2. base'.state = "IDLE" /\ BaseAt(0)'  BY <1>1, BaseOpen DEF Quiet
<1>3. intg'.state = "IDLE" /\ IntgAt(0)'  BY <1>1, IntgOpen DEF Quiet
<1>4. finder'.state = "IDLE"  BY FinderStates
<1> QED BY <1>2, <1>3, <1>4 DEF Quiet

LEMMA NotTriggered ==
  ASSUME NEW n \in 0 .. Window, GatesAt(n) PROVE gates.state # "TRIGGERED"
<1>1. n \in Nat  BY WindowsAre
<1> QED BY <1>1, Constants DEF GatesAt

\* A witness for the invariant.
LEMMA AtBegun == ASSUME NEW n \in 0 .. Window, At(n)' PROVE \E k \in 0 .. Window : At(k)'
OBVIOUS

LEMMA ChannelEvent ==
  ASSUME Types, Types', GateRest, InStep, EventInv,
         NEW trig \in BOOLEAN, NEW d \in Samples, InChannel(trig, d)
  PROVE  EventInv'
<1> DEFINE idle == AllIdle \/ (clean /\ gates.state = "TRIGGERED" /\ ~Opens(GateStart))
<1>1. /\ channel = "window" /\ channel' = channel /\ channel' = "window"
      /\ GenGates(trig, GateStart) /\ CalcBaseline(trig, d) /\ CalcIntegral(trig, d)
      /\ FindPeak(trig, d, integral_gate) /\ History(trig, d, idle)
  BY DEF InChannel, BeamStats
<1>2. d \in Int /\ idle \in BOOLEAN /\ GateStart \in Nat /\ integral_gate \in BOOLEAN
  BY Constants DEF Types, Registers
<1>3. SUFFICES ASSUME clean'
               PROVE  /\ Begun' => \E n \in 0 .. Window : At(n)'
                      /\ ~Begun' => Quiet' /\ gates'.state = "TRIGGERED"
  BY <1>1 DEF EventInv, Window
<1> HIDE DEF idle
<1>4. /\ trig => clean' = idle /\ Len(win') = 0
      /\ ~trig => clean' = clean
      /\ ~trig /\ clean /\ Begun /\ Len(win) < Window =>
           win' = Append(win, d) /\ Len(win') = Len(win) + 1
      /\ ~trig /\ clean /\ Begun /\ Len(win) = Window => win' = win
      /\ ~trig /\ clean /\ ~Begun => win' = << >> /\ Len(win') = 0
  BY <1>1, <1>2, WinCases
<1>5. CASE trig
  <2>1. idle /\ Len(win') = 0  BY <1>3, <1>4, <1>5
  <2>2. Quiet /\ gates'.state = "TRIGGERED"
    <3>1. CASE AllIdle
      <4>1. Quiet /\ gates.state = "IDLE"  BY <3>1, AllIdleIs
      <4>2. gates'.state = "TRIGGERED"  BY <1>1, <1>5, <4>1 DEF GenGates, Opens
      <4> QED BY <4>1, <4>2
    <3>2. CASE clean /\ gates.state = "TRIGGERED" /\ ~Opens(GateStart)
      <4>1. ~Begun  BY <3>2, NotTriggered DEF EventInv, At
      <4>2. Quiet  BY <3>2, <4>1 DEF EventInv
      <4>3. gates' = gates  BY <1>1, <3>2 DEF GenGates
      <4> QED BY <3>2, <4>2, <4>3
    <3> QED BY <2>1, <3>1, <3>2 DEF idle
  <2>3. Quiet'
    <3>1. CalcBaseline(TRUE, d) /\ CalcIntegral(TRUE, d) /\ FindPeak(TRUE, d, integral_gate)
      <4>1. trig = TRUE  BY <1>5
      <4> QED BY <1>1, <4>1
    <3> QED BY <1>2, <2>2, <3>1, TriggerRests
  <2> QED BY <2>1, <2>2, <2>3 DEF Begun
<1>6. CASE ~trig /\ ~Begun
  <2>1. clean /\ Quiet /\ gates.state = "TRIGGERED" /\ Len(win') = 0
    BY <1>1, <1>3, <1>4, <1>6 DEF EventInv
  <2>2. integral_gate = FALSE  BY <2>1 DEF GateRest
  <2>3. Quiet' /\ BaseAt(0)' /\ IntgAt(0)'  BY <1>1, <1>2, <1>6, <2>1, <2>2, RestsOn
  <2>4. CASE Opens(GateStart)
    <3>1. GatesAt(0)'  BY <1>1, <1>2, <2>1, <2>4, GatesOpen
    <3>2. FinderAt(0)'  BY <1>1, <2>3, Constants DEF FinderAt, Quiet
    <3>3. At(0)'  BY <2>1, <2>3, <3>1, <3>2 DEF At
    <3>4. 0 \in 0 .. Window /\ gates'.state = "BASELINE_ACTIVE"
      BY <3>1, WindowsAre, Constants DEF GatesAt
    <3> QED BY <3>3, <3>4, AtBegun DEF Begun
  <2>5. CASE ~Opens(GateStart)
    <3>1. gates' = gates  BY <1>1, <2>1, <2>5 DEF GenGates
    <3> QED BY <2>1, <2>3, <3>1 DEF Begun
  <2> QED BY <2>4, <2>5
<1>7. CASE ~trig /\ Begun
  <2>1. clean  BY <1>3, <1>4, <1>7
  <2>2. PICK n \in 0 .. Window : At(n)  BY <1>7, <2>1 DEF EventInv
  <2>3. GatesAt(n) /\ BaseAt(n) /\ IntgAt(n) /\ FinderAt(n) /\ n = Len(win)  BY <2>2 DEF At
  <2>4. GatesAt(After(n))'  BY <1>1, <1>2, <1>7, <2>3, GatesStep
  <2>5. BaseAt(After(n))'  BY <1>1, <1>2, <1>7, <2>3, <2>4, BaseStep
  <2>6. IntgAt(After(n))'  BY <1>1, <1>2, <1>7, <2>3, <2>4, IntgStep
  <2>7. FinderAt(After(n))'  BY <1>1, <1>2, <1>7, <2>3, WindowFinderStep
  <2>8. Len(win') = After(n) /\ After(n) \in 0 .. Window /\ Len(win') > 0
    <3>1. n \in Nat /\ n <= Window /\ Window \in Nat /\ Window > 0  BY WindowsAre
    <3>2. CASE n < Window  BY <1>4, <1>7, <2>1, <2>3, <3>1, <3>2 DEF After
    <3>3. CASE n = Window  BY <1>4, <1>7, <2>1, <2>3, <3>1, <3>3 DEF After
    <3> QED BY <3>1, <3>2, <3>3
  <2>9. At(After(n))'  BY <2>4, <2>5, <2>6, <2>7, <2>8 DEF At, After, Window
  <2>10. Begun'  BY <2>8 DEF Begun
  <2> QED BY <2>8, <2>9, <2>10, AtBegun
<1> QED BY <1>5, <1>6, <1>7

LEMMA OutsideEvent ==
  ASSUME Types, Types', GateRest, InStep, EventInv,
         NEW trig \in BOOLEAN, NEW d \in Samples, FindBeamOow(trig, d)
  PROVE  EventInv'
<1> DEFINE b    == BoowData(d)
           idle == AllIdle /\ peakfind.state = "IDLE" /\ ~pulse_found
<1>1. /\ channel = "outside" /\ channel' = channel /\ channel' = "outside"
      /\ FindBoowPulse(trig, b) /\ GenGates(pulse_found, 0)
      /\ CalcBaseline(trig, dly[1]) /\ CalcIntegral(trig, dly[1])
      /\ FindPeak(trig, b, Open(peakfind)) /\ History(trig, dly[1], idle)
      /\ peakfind' = GenGate(peakfind, pulse_found, 0, PeakLen)
  BY DEF FindBeamOow
<1>2. /\ dly[1] \in Int /\ b \in Int /\ idle \in BOOLEAN /\ 0 \in Nat
      /\ pulse_found \in BOOLEAN /\ Open(peakfind) \in BOOLEAN
      /\ peakfind \in Machine(PeakLen) /\ samplenum \in Nat
  <2>1. dly[1] \in Int  BY ShiftType, Constants DEF Types, Histories
  <2> QED BY <2>1, Constants DEF Types, Searchers, Registers, BoowData, Open
<1> HIDE DEF idle, b
<1>3. pulse_found' => search' = "WAITFORNEXTTRIGGER"  BY <1>1 DEF FindBoowPulse
<1>4. Searched /\ ~trig => Searched'  BY <1>1 DEF FindBoowPulse, Searched
<1>5. SUFFICES ASSUME clean'
               PROVE  /\ Begun' => \E n \in 0 .. Window : At(n)'
                      /\ ~Begun' => /\ Quiet' /\ gates'.state \in {"IDLE", "TRIGGERED"}
                                    /\ peakfind'.state = gates'.state
                      /\ Begun' \/ gates'.state = "TRIGGERED" => Searched'
  BY <1>1, <1>3 DEF EventInv, Window
<1>6. /\ trig => clean' = idle /\ Len(win') = 0
      /\ ~trig => clean' = clean
      /\ ~trig /\ clean /\ Begun /\ Len(win) < Window =>
           win' = Append(win, dly[1]) /\ Len(win') = Len(win) + 1
      /\ ~trig /\ clean /\ Begun /\ Len(win) = Window => win' = win
      /\ ~trig /\ clean /\ ~Begun => win' = << >> /\ Len(win') = 0
  BY <1>1, <1>2, WinCases
<1>7. CASE trig
  <2>1. Len(win') = 0 /\ Quiet /\ gates.state = "IDLE" /\ peakfind.state = "IDLE" /\ ~pulse_found
    BY <1>5, <1>6, <1>7, AllIdleIs DEF idle
  <2>2. gates' = gates  BY <1>1, <2>1 DEF GenGates, Opens
  <2>3. peakfind' = peakfind  BY <1>1, <2>1 DEF GenGate
  <2>4. Quiet'
    <3>1. /\ CalcBaseline(TRUE, dly[1]) /\ CalcIntegral(TRUE, dly[1])
          /\ FindPeak(TRUE, b, Open(peakfind))
      <4>1. trig = TRUE  BY <1>7
      <4> QED BY <1>1, <4>1
    <3> QED BY <1>2, <2>1, <3>1, TriggerRests
  <2> QED BY <2>1, <2>2, <2>3, <2>4 DEF Begun
<1>8. CASE ~trig /\ ~Begun
  <2>1. /\ clean /\ Quiet /\ gates.state \in {"IDLE", "TRIGGERED"} /\ Len(win') = 0
        /\ peakfind.state = gates.state
    BY <1>1, <1>5, <1>6, <1>8 DEF EventInv
  <2>2. Open(peakfind) = FALSE  BY <2>1 DEF Open
  <2>3. Quiet' /\ BaseAt(0)' /\ IntgAt(0)'  BY <1>1, <1>2, <1>8, <2>1, <2>2, RestsOn
  <2>4. CASE gates.state = "IDLE" /\ ~pulse_found
    <3>1. gates' = gates /\ peakfind' = peakfind
      BY <1>1, <2>1, <2>4 DEF GenGates, GenGate, Opens
    <3> QED BY <2>1, <2>3, <2>4, <3>1 DEF Begun
  <2>5. CASE gates.state = "IDLE" /\ pulse_found
    <3>1. gates'.state = "TRIGGERED" /\ peakfind'.state = "TRIGGERED"
      BY <1>1, <1>2, <2>1, <2>5 DEF GenGates, GenGate, Opens, Machine
    <3>2. Searched'
      <4>1. search = "WAITFORNEXTTRIGGER"  BY <1>1, <2>5 DEF EventInv
      <4> QED BY <1>1, <1>8, <4>1 DEF FindBoowPulse, Searched
    <3> QED BY <2>1, <2>3, <3>1, <3>2 DEF Begun
  <2>6. CASE gates.state = "TRIGGERED"
    <3>1. Opens(0) /\ GateOpens(peakfind, 0)  BY <1>2, <2>1, <2>6 DEF Opens, GateOpens
    <3>2. GatesAt(0)'  BY <1>1, <1>2, <2>6, <3>1, GatesOpen
    <3>3. peakfind'.state = "PULSE_HI" /\ peakfind'.hicnt = PeakLen
      BY <1>1, <1>2, <2>1, <2>6, <3>1 DEF GenGate, Machine, GateRest
    <3>4. FinderAt(0)'  BY <1>1, <2>3, <3>3, Constants DEF FinderAt, Quiet
    <3>5. At(0)'  BY <2>1, <2>3, <3>2, <3>4 DEF At
    <3>6. 0 \in 0 .. Window /\ gates'.state = "BASELINE_ACTIVE"
      BY <3>2, WindowsAre, Constants DEF GatesAt
    <3>7. Searched'  BY <1>1, <1>4, <1>8, <2>1, <2>6 DEF EventInv
    <3> QED BY <3>5, <3>6, <3>7, AtBegun DEF Begun
  <2> QED BY <1>2, <2>1, <2>4, <2>5, <2>6
<1>9. CASE ~trig /\ Begun
  <2>1. clean /\ Searched  BY <1>1, <1>5, <1>6, <1>9 DEF EventInv
  <2>2. PICK n \in 0 .. Window : At(n)  BY <1>9, <2>1 DEF EventInv
  <2>3. /\ GatesAt(n) /\ BaseAt(n) /\ IntgAt(n) /\ FinderAt(n) /\ n = Len(win)
        /\ pulse_found = FALSE
    BY <2>1, <2>2 DEF At, Searched
  <2>4. GatesAt(After(n))'  BY <1>1, <1>2, <2>3, GatesStep
  <2>5. BaseAt(After(n))'  BY <1>1, <1>2, <1>9, <2>3, <2>4, BaseStep
  <2>6. IntgAt(After(n))'  BY <1>1, <1>2, <1>9, <2>3, <2>4, IntgStep
  <2>7. FinderAt(After(n))'  BY <1>1, <1>2, <1>9, <2>3, OutsideFinderStep
  <2>8. Len(win') = After(n) /\ After(n) \in 0 .. Window /\ Len(win') > 0
    <3>1. n \in Nat /\ n <= Window /\ Window \in Nat /\ Window > 0  BY WindowsAre
    <3>2. CASE n < Window  BY <1>6, <1>9, <2>1, <2>3, <3>1, <3>2 DEF After
    <3>3. CASE n = Window  BY <1>6, <1>9, <2>1, <2>3, <3>1, <3>3 DEF After
    <3> QED BY <3>1, <3>2, <3>3
  <2>9. At(After(n))'  BY <2>4, <2>5, <2>6, <2>7, <2>8 DEF At, After, Window
  <2>10. Begun' /\ Searched'  BY <1>4, <1>9, <2>1, <2>8 DEF Begun
  <2> QED BY <2>8, <2>9, <2>10, AtBegun
<1> QED BY <1>7, <1>8, <1>9

EventsInv == Types /\ GateRest /\ EventInv

LEMMA NextEvents == ASSUME InStep PROVE EventsInv /\ [Next]_vars => EventsInv'
<1> SUFFICES ASSUME EventsInv, [Next]_vars PROVE EventsInv'  OBVIOUS
<1>1. Types /\ GateRest /\ EventInv  BY DEF EventsInv
<1>2. Types' /\ GateRest'  BY <1>1, NextTypes, NextRest
<1>3. EventInv'
  <2>1. CASE UNCHANGED vars
    BY <1>1, <2>1 DEF EventInv, Begun, Searched, Quiet, At, GatesAt, BaseAt, IntgAt, FinderAt,
                      Window, vars, pulseVars, gateVars, statVars, oowVars
  <2>2. CASE Next  BY <1>1, <1>2, <2>2, ChannelEvent, OutsideEvent DEF Next
  <2> QED BY <2>1, <2>2
<1> QED BY <1>2, <1>3 DEF EventsInv

LEMMA AlwaysEvents == ASSUME InStep PROVE Spec => []EventsInv
<1>1. Init => EventsInv  BY InitTypes, InitEvent DEF EventsInv
<1> QED BY <1>1, NextEvents, PTL DEF Spec

LEMMA MeasuredAt ==
  ASSUME EventsInv, Measured
  PROVE  /\ clean /\ Begun /\ Window \in 0 .. Window /\ GatesAt(Window) /\ BaseAt(Window)
         /\ IntgAt(Window) /\ FinderAt(Window) /\ After(Window) = Window
<1>1. clean /\ Begun /\ Window \in 0 .. Window /\ After(Window) = Window
  BY WindowsAre DEF Measured, Begun, After
<1>2. PICK n \in 0 .. Window : At(n)  BY <1>1 DEF EventsInv, EventInv
<1>3. n = Window  BY <1>2 DEF At, Measured
<1> QED BY <1>1, <1>2, <1>3 DEF At

\* The finder is at rest in the last clock.
LEMMA FinderRests ==
  ASSUME InStep, EventsInv, Measured PROVE finder.state = "IDLE"
<1>1. FinderAt(Window) /\ Types  BY MeasuredAt DEF EventsInv
<1>2. channel \in {"window", "outside"} /\ finder \in FinderRegs  BY <1>1 DEF Types, Registers
<1>3. /\ Window \notin BaselineLen + 3 .. BaselineLen + IntegralLen + 2
      /\ Window \notin 1 .. PeakLen + 1
  BY Constants DEF Window, InStep
<1>4. finder.state # "GATE_ACTIVE"  BY <1>1, <1>2, <1>3 DEF FinderAt
<1> QED BY <1>2, <1>4 DEF FinderRegs

LEMMA StandsStill ==
  ASSUME InStep, EventsInv, EventsInv', Measured, Measured',
         NEW trig \in BOOLEAN, NEW d \in Int, NEW e \in Int, NEW gate \in BOOLEAN,
         NEW start \in Nat, NEW gtrig \in BOOLEAN, ~trig => ~gtrig,
         NEW idle \in BOOLEAN, History(trig, d, idle),
         GenGates(gtrig, start), CalcBaseline(trig, d), CalcIntegral(trig, d),
         FindPeak(trig, e, gate)
  PROVE  UNCHANGED <<baseline, integral, peak, peak_sampnum>>
<1>1. Types /\ Types' /\ GateRest  BY DEF EventsInv
<1>2. ~trig
  <2>1. Len(win') # 0  BY WindowsAre DEF Measured, Window
  <2> QED BY <1>1, <2>1, WinCases
<1>3. /\ Window \in 0 .. Window /\ GatesAt(Window) /\ BaseAt(Window)
      /\ IntgAt(Window) /\ FinderAt(Window) /\ After(Window) = Window
  BY MeasuredAt
<1>4. GatesAt(After(Window))'  BY <1>1, <1>2, <1>3, GatesStep
<1>5. baseline' = baseline  BY <1>1, <1>2, <1>3, <1>4, BaseStep
<1>6. integral' = integral  BY <1>1, <1>2, <1>3, <1>4, IntgStep
<1>7. finder'.max_adc = finder.max_adc /\ peak_sampnum' = peak_sampnum
  BY <1>1, <1>2, FinderRests, FinderStates
<1> QED BY <1>5, <1>6, <1>7 DEF peak

\* From the end of a measurement to the next trigger baseline, charge, peak and
\* its place stand still, in the windows and outside of them, whatever the
\* samples do (calc_beam_stats.vhd, find_beam_oow.vhd).
THEOREM ResultsStable == ASSUME InStep PROVE Spec => Stable
<1>1. EventsInv /\ EventsInv' /\ [Next]_vars =>
        [Measured /\ Measured' => UNCHANGED <<baseline, integral, peak, peak_sampnum>>]_pulseVars
  <2> SUFFICES ASSUME EventsInv, EventsInv', [Next]_vars, ~UNCHANGED pulseVars,
                      Measured, Measured'
               PROVE  UNCHANGED <<baseline, integral, peak, peak_sampnum>>
    OBVIOUS
  <2>1. Types  BY DEF EventsInv
  <2>2. PICK trig \in BOOLEAN, d \in Samples : InChannel(trig, d) \/ FindBeamOow(trig, d)
    BY DEF Next, vars
  <2>3. d \in Int  BY Constants
  <2>4. CASE InChannel(trig, d)
    <3> DEFINE idle == AllIdle \/ (clean /\ gates.state = "TRIGGERED" /\ ~Opens(GateStart))
    <3>1. /\ GenGates(trig, GateStart) /\ CalcBaseline(trig, d) /\ CalcIntegral(trig, d)
          /\ FindPeak(trig, d, integral_gate) /\ History(trig, d, idle)
      BY <2>4 DEF InChannel, BeamStats
    <3>2. idle \in BOOLEAN /\ integral_gate \in BOOLEAN /\ GateStart \in Nat
      BY <2>1, Constants DEF Types, Registers
    <3> HIDE DEF idle
    <3> QED BY <2>3, <3>1, <3>2, StandsStill
  <2>5. CASE FindBeamOow(trig, d)
    <3> DEFINE idle == AllIdle /\ peakfind.state = "IDLE" /\ ~pulse_found
               b    == BoowData(d)
    <3>1. /\ GenGates(pulse_found, 0) /\ channel = "outside"
          /\ CalcBaseline(trig, dly[1]) /\ CalcIntegral(trig, dly[1])
          /\ FindPeak(trig, b, Open(peakfind)) /\ History(trig, dly[1], idle)
      BY <2>5 DEF FindBeamOow
    <3>2. /\ idle \in BOOLEAN /\ Open(peakfind) \in BOOLEAN /\ pulse_found \in BOOLEAN
          /\ dly[1] \in Int /\ b \in Int /\ 0 \in Nat
      <4>1. dly[1] \in Int  BY <2>1, ShiftType, Constants DEF Types, Histories
      <4> QED BY <2>1, <2>3, <4>1 DEF Types, Searchers, Open, BoowData
    <3>3. ~pulse_found  BY <3>1, MeasuredAt DEF EventsInv, EventInv, Searched
    <3> HIDE DEF idle, b
    <3> QED BY <3>1, <3>2, <3>3, StandsStill
  <2> QED BY <2>2, <2>4, <2>5
<1> QED BY <1>1, AlwaysEvents, PTL DEF Spec, Stable

-----------------------------------------------------------------------------
(* What is measured is masked.                                             *)

\* A window is as long as the gates it stands for.
GatesCovered == BaselineLen + IntegralAcc <= WindowLen

\* The window of the channel, n clocks after it opened with the gates.
MaskAt(n) ==
  /\ n < Window /\ n <= WindowLen =>
       window[1].state = "PULSE_HI" /\ window[1].hicnt = WindowLen - n
  /\ \A i \in 1 .. n : i <= WindowLen + 1 => masked[i] = TRUE

MaskInv == channel = "window" /\ clean /\ armed =>
  /\ ~Begun => window[1].state = "TRIGGERED"
  /\ Begun => \E n \in 0 .. Window : n = Len(win) /\ MaskAt(n)

LEMMA InitMask == Init => MaskInv
BY DEF Init, MaskInv

\* A channel's window in a clock of its channel.
LEMMA WindowStep ==
  ASSUME Types, Loaded, NEW trig \in BOOLEAN, NEW d \in Samples, InChannel(trig, d)
  PROVE  /\ trig /\ armed' => window'[1].state = "TRIGGERED"
         /\ ~trig /\ window[1].state = "TRIGGERED" /\ ~Opens(GateStart) /\ gates.state = "TRIGGERED" =>
              window'[1].state = "TRIGGERED"
         /\ ~trig /\ window[1].state = "TRIGGERED" /\ Opens(GateStart) =>
              window'[1].state = "PULSE_HI" /\ window'[1].hicnt = WindowLen
         /\ ~trig /\ window[1].state = "PULSE_HI" /\ window[1].hicnt # 0 =>
              window'[1].state = "PULSE_HI" /\ window'[1].hicnt = window[1].hicnt - 1
<1> DEFINE g == window[1]
<1>1. /\ g \in Machine(WindowLen) /\ window'[1] = GenGate(g, trig, GateStart, WindowLen)
      /\ samplenum \in Nat /\ GateStart \in Nat /\ Starts[1] = GateStart /\ 1 \in Windows
  BY WindowsAre, Constants DEF Types, Searchers, Registers, InChannel
<1>2. g.state = "TRIGGERED" => g.hicnt = WindowLen  BY <1>1 DEF Loaded
<1>3. CASE g.state = "IDLE"
  <2>1. trig => window'[1].state = "TRIGGERED"  BY <1>1, <1>3 DEF GenGate
  <2> QED BY <1>3, <2>1
<1>4. CASE g.state = "TRIGGERED"
  <2>1. Opens(GateStart) => window'[1].state = "PULSE_HI" /\ window'[1].hicnt = WindowLen
    BY <1>1, <1>2, <1>4 DEF GenGate, GateOpens, Opens, Machine
  <2>2. ~GateOpens(g, GateStart) => window'[1].state = "TRIGGERED"
    BY <1>1, <1>4 DEF GenGate
  <2>3. ~Opens(GateStart) /\ gates.state = "TRIGGERED" => ~GateOpens(g, GateStart)
    BY DEF Opens, GateOpens
  <2>4. trig /\ armed' => ~GateOpens(g, GateStart)
    <3>1. trig /\ armed' => WindowIdle(1)  BY <1>1 DEF InChannel, Armed
    <3> QED BY <1>1, <1>4, <3>1 DEF WindowIdle
  <2> QED BY <1>4, <2>1, <2>2, <2>3, <2>4
<1>5. CASE g.state = "PULSE_HI"
  <2>1. g.hicnt # 0 => window'[1].state = "PULSE_HI" /\ window'[1].hicnt = g.hicnt - 1
    BY <1>1, <1>5 DEF GenGate, Machine
  <2>2. trig => ~armed'
    <3>1. trig /\ armed' => WindowIdle(1)  BY <1>1 DEF InChannel, Armed
    <3> QED BY <1>5, <3>1 DEF WindowIdle
  <2> QED BY <1>5, <2>1, <2>2
<1> QED BY <1>1, <1>3, <1>4, <1>5 DEF Machine

LEMMA ChannelMask ==
  ASSUME EventsInv, EventsInv', Loaded, MaskInv,
         NEW trig \in BOOLEAN, NEW d \in Samples, InChannel(trig, d)
  PROVE  MaskInv'
<1> DEFINE idle == AllIdle \/ (clean /\ gates.state = "TRIGGERED" /\ ~Opens(GateStart))
<1> USE Constants
<1>1. /\ channel = "window" /\ GenGates(trig, GateStart) /\ History(trig, d, idle)
      /\ armed' = IF trig THEN \A w \in Windows : WindowIdle(w) ELSE armed
      /\ masked' = IF Len(win') > Len(win) THEN Append(masked, Open(window[1]))
                   ELSE IF win' = << >> THEN << >> ELSE masked
  BY DEF InChannel, BeamStats, Armed
<1>2. /\ Types /\ EventInv /\ d \in Int /\ idle \in BOOLEAN /\ Window \in Nat /\ Window > 0
      /\ win \in Seq(Int) /\ Len(win) \in Nat /\ masked \in Seq(BOOLEAN) /\ Len(masked) = Len(win)
  BY <1>1, WindowsAre DEF EventsInv, Types, Histories
<1> HIDE DEF idle
<1>3. SUFFICES ASSUME clean', armed'
               PROVE  /\ ~Begun' => window'[1].state = "TRIGGERED"
                      /\ Begun' => \E n \in 0 .. Window : n = Len(win') /\ MaskAt(n)'
  BY DEF MaskInv, Window
<1>4. /\ trig => clean' = idle /\ Len(win') = 0
      /\ ~trig => clean' = clean
      /\ ~trig /\ clean /\ Begun /\ Len(win) < Window =>
           win' = Append(win, d) /\ Len(win') = Len(win) + 1
      /\ ~trig /\ clean /\ Begun /\ Len(win) = Window => win' = win
      /\ ~trig /\ clean /\ ~Begun => win' = << >> /\ Len(win') = 0
  BY <1>1, <1>2, WinCases
<1>5. CASE trig
  <2>1. window'[1].state = "TRIGGERED" /\ Len(win') = 0  BY <1>2, <1>3, <1>4, <1>5, WindowStep
  <2>2. gates'.state # "BASELINE_ACTIVE"
    <3>1. idle  BY <1>3, <1>4, <1>5
    <3>2. gates.state = "IDLE" \/ (gates.state = "TRIGGERED" /\ ~Opens(GateStart))
      BY <3>1, AllIdleIs DEF idle
    <3>3. CASE gates.state = "IDLE" /\ gates' = gates  BY <3>3
    <3>4. CASE gates.state = "IDLE" /\ gates' # gates
      <4>1. gates'.state = "TRIGGERED"  BY <1>1, <3>4 DEF GenGates, Opens
      <4> QED BY <4>1
    <3>5. CASE gates.state = "TRIGGERED" /\ ~Opens(GateStart)
      <4>1. gates' = gates  BY <1>1, <3>5 DEF GenGates
      <4> QED BY <3>5, <4>1
    <3> QED BY <3>2, <3>3, <3>4, <3>5
  <2> QED BY <2>1, <2>2 DEF Begun
<1>6. CASE ~trig /\ ~Begun
  <2>1. clean /\ armed  BY <1>1, <1>3, <1>4, <1>6
  <2>2. window[1].state = "TRIGGERED" /\ gates.state = "TRIGGERED" /\ Len(win') = 0
    BY <1>1, <1>2, <1>4, <1>6, <2>1 DEF MaskInv, EventInv
  <2>3. CASE Opens(GateStart)
    <3>1. window'[1].state = "PULSE_HI" /\ window'[1].hicnt = WindowLen
      BY <1>2, <1>6, <2>2, <2>3, WindowStep
    <3>2. MaskAt(0)'  BY <3>1 DEF MaskAt
    <3>3. gates'.state = "BASELINE_ACTIVE"  BY <1>1, <2>3 DEF GenGates, Opens
    <3> QED BY <1>2, <2>2, <3>2, <3>3 DEF Begun
  <2>4. CASE ~Opens(GateStart)
    <3>1. window'[1].state = "TRIGGERED"  BY <1>2, <1>6, <2>2, <2>4, WindowStep
    <3>2. gates' = gates  BY <1>1, <2>2, <2>4 DEF GenGates
    <3> QED BY <2>2, <3>1, <3>2 DEF Begun
  <2> QED BY <2>3, <2>4
<1>7. CASE ~trig /\ Begun /\ Len(win) < Window
  <2>1. clean /\ armed  BY <1>1, <1>3, <1>4, <1>7
  <2>2. PICK n \in 0 .. Window : n = Len(win) /\ MaskAt(n)
    BY <1>1, <1>7, <2>1 DEF MaskInv
  <2>3. Len(win') = n + 1 /\ n + 1 \in 0 .. Window /\ Len(masked) = n
    BY <1>2, <1>4, <1>7, <2>1, <2>2
  <2>4. masked' = Append(masked, Open(window[1])) /\ Open(window[1]) \in BOOLEAN
    BY <1>1, <1>2, <2>2, <2>3 DEF Open
  <2>5. masked'[n + 1] = Open(window[1]) /\ \A i \in 1 .. n : masked'[i] = masked[i]
    BY <1>2, <2>3, <2>4, AppendType
  <2>6. n <= WindowLen => window[1].state = "PULSE_HI" /\ window[1].hicnt = WindowLen - n
    BY <1>7, <2>2 DEF MaskAt
  <2>7. n + 1 <= WindowLen => window'[1].state = "PULSE_HI" /\ window'[1].hicnt = WindowLen - (n + 1)
    <3> SUFFICES ASSUME n + 1 <= WindowLen
                 PROVE  window'[1].state = "PULSE_HI" /\ window'[1].hicnt = WindowLen - (n + 1)
      OBVIOUS
    <3>1. window[1].state = "PULSE_HI" /\ window[1].hicnt = WindowLen - n  BY <2>6
    <3>2. window[1].hicnt # 0  BY <3>1
    <3>3. window'[1].state = "PULSE_HI" /\ window'[1].hicnt = window[1].hicnt - 1
      BY <1>2, <1>7, <3>1, <3>2, WindowStep
    <3> QED BY <3>1, <3>3
  <2>8. ASSUME NEW i \in 1 .. n + 1, i <= WindowLen + 1 PROVE masked'[i] = TRUE
    <3>1. CASE i = n + 1
      <4>1. Open(window[1]) = TRUE  BY <2>6, <2>8, <3>1 DEF Open
      <4> QED BY <2>5, <3>1, <4>1
    <3>2. CASE i # n + 1
      <4>1. i \in 1 .. n  BY <3>2
      <4> QED BY <2>2, <2>5, <2>8, <4>1 DEF MaskAt
    <3> QED BY <3>1, <3>2
  <2>9. MaskAt(n + 1)'  BY <2>7, <2>8 DEF MaskAt
  <2>10. Len(win') > 0  BY <2>3
  <2> QED BY <2>3, <2>9, <2>10 DEF Begun
<1>8. CASE ~trig /\ Begun /\ Len(win) = Window
  <2>1. clean /\ armed /\ win' = win  BY <1>1, <1>3, <1>4, <1>8
  <2>2. MaskAt(Window)
    <3>1. PICK n \in 0 .. Window : n = Len(win) /\ MaskAt(n)  BY <1>1, <1>8, <2>1 DEF MaskInv
    <3> QED BY <1>8, <3>1
  <2>3. masked' = masked
    <3>1. win # << >>  BY <1>2, <1>8
    <3> QED BY <1>1, <1>2, <2>1, <3>1
  <2>4. MaskAt(Window)'
    <3>1. \A i \in 1 .. Window : i <= WindowLen + 1 => masked[i] = TRUE  BY <2>2 DEF MaskAt
    <3>2. (1 .. Window)' = 1 .. Window /\ ~(Window < Window)  BY <1>2 DEF Window
    <3> QED BY <2>3, <3>1, <3>2 DEF MaskAt, Window
  <2>5. Window \in 0 .. Window /\ Len(win') = Window /\ Window' = Window
    BY <1>2, <1>8, <2>1 DEF Window
  <2> QED BY <1>2, <2>4, <2>5 DEF Begun
<1>9. Len(win) < Window \/ Len(win) = Window  BY <1>2 DEF Types, Histories
<1> QED BY <1>5, <1>6, <1>7, <1>8, <1>9

LEMMA NextMask ==
  ASSUME InStep PROVE EventsInv /\ Loaded /\ MaskInv /\ [Next]_vars => (EventsInv /\ Loaded /\ MaskInv)'
<1> SUFFICES ASSUME EventsInv, Loaded, MaskInv, [Next]_vars
             PROVE  EventsInv' /\ Loaded' /\ MaskInv'
  OBVIOUS
<1>1. EventsInv'  BY NextEvents
<1>2. CASE UNCHANGED vars
  BY <1>1, <1>2 DEF Loaded, MaskInv, MaskAt, Begun, Window, Windows, vars, pulseVars, gateVars, oowVars
<1>3. CASE Next
  <2>1. Loaded'  BY <1>3, NextLoaded DEF EventsInv
  <2>2. PICK trig \in BOOLEAN, d \in Samples : InChannel(trig, d) \/ FindBeamOow(trig, d)
    BY <1>3 DEF Next
  <2>3. CASE InChannel(trig, d)  BY <1>1, <2>1, <2>3, ChannelMask
  <2>4. CASE FindBeamOow(trig, d)
    <3>1. channel' = "outside"  BY <2>4 DEF FindBeamOow
    <3> QED BY <1>1, <2>1, <3>1 DEF MaskInv
  <2> QED BY <2>2, <2>3, <2>4
<1> QED BY <1>2, <1>3

\* No sample that is part of a channel's charge is searched for a pulse outside
\* of the windows (calc_charge.vhd, find_beam_oow.vhd): the two generators count
\* on their own and keep in step, for every length the window covers.
THEOREM ChargeIsMasked == ASSUME InStep, GatesCovered PROVE Spec => []ChargeMasked
<1>1. Init => EventsInv /\ Loaded /\ MaskInv
  BY InitTypes, InitEvent, InitMask, InitOutside DEF EventsInv, OutsideInv
<1>2. EventsInv /\ MaskInv => ChargeMasked
  <2> SUFFICES ASSUME EventsInv, MaskInv, Measured, channel = "window", armed,
                      NEW i \in IntegralWindow
               PROVE  masked[i]
    BY DEF ChargeMasked
  <2>1. clean /\ Begun /\ Len(win) = Window  BY MeasuredAt DEF Measured
  <2>2. MaskAt(Window)
    <3>1. PICK n \in 0 .. Window : n = Len(win) /\ MaskAt(n)  BY <2>1 DEF MaskInv
    <3> QED BY <2>1, <3>1
  <2>3. i \in 1 .. Window /\ i <= WindowLen + 1
    BY Constants DEF IntegralWindow, GatesCovered, InStep, Window
  <2> QED BY <2>2, <2>3 DEF MaskAt
<1> QED BY <1>1, <1>2, NextMask, PTL DEF Spec

-----------------------------------------------------------------------------
(* The peak of a window.                                                   *)

\* Every sample is higher than where the search starts, and the sample counter
\* runs as long as the gates.
SamplesAbove == \A d \in Samples : d > Floor
CounterRuns  == GateStart + Window <= LastSample

\* x is the highest of the first n samples of the second gate, and the first of
\* that height is number a.
Highest(s, n, a, x) ==
  /\ a \in BaselineLen + 4 .. n /\ s[a] = x
  /\ \A i \in BaselineLen + 4 .. n : s[i] <= x
  /\ \A i \in BaselineLen + 4 .. a - 1 : s[i] < x

PeakAt(n) ==
  /\ n < Window => samplenum = GateStart + 1 + n
  /\ n < BaselineLen + 4 => finder.max_adc = Floor /\ peak_sampnum = 0
  /\ n >= BaselineLen + 4 =>
       \E a \in Nat : Highest(win, n, a, finder.max_adc) /\ peak_sampnum = GateStart + a

PeakInv == channel = "window" /\ clean =>
  /\ ~Begun => samplenum <= GateStart /\ finder.max_adc = Floor /\ peak_sampnum = 0
  /\ Begun => \E n \in 0 .. Window : n = Len(win) /\ PeakAt(n)

LEMMA InitPeak == Init => PeakInv
BY DEF Init, PulseInit, PeakInv

LEMMA HighestFirst ==
  ASSUME NEW s \in Seq(Int), Len(s) = BaselineLen + 3, NEW d \in Int
  PROVE  Highest(Append(s, d), BaselineLen + 4, BaselineLen + 4, d)
<1>1. Append(s, d)[BaselineLen + 4] = d  BY AppendType, Constants
<1> QED BY <1>1, Constants DEF Highest

LEMMA HighestNext ==
  ASSUME NEW n \in Nat, NEW s \in Seq(Int), Len(s) = n, NEW a \in Nat, NEW x \in Int,
         Highest(s, n, a, x), NEW d \in Int
  PROVE  /\ d > x    => Highest(Append(s, d), n + 1, n + 1, d)
         /\ ~(d > x) => Highest(Append(s, d), n + 1, a, x)
<1> DEFINE t == Append(s, d)
<1> USE Constants
<1>1. /\ t[n + 1] = d /\ \A i \in 1 .. n : t[i] = s[i]
      /\ \A i \in 1 .. n : s[i] \in Int
  BY AppendType
<1>2. /\ a \in BaselineLen + 4 .. n /\ s[a] = x
      /\ \A i \in BaselineLen + 4 .. n : s[i] <= x
      /\ \A i \in BaselineLen + 4 .. a - 1 : s[i] < x
  BY DEF Highest
<1> HIDE DEF t
<1>3. \A i \in BaselineLen + 4 .. n : i \in 1 .. n /\ t[i] = s[i] /\ s[i] \in Int  BY <1>1
<1>4. CASE d > x
  <2>1. \A i \in BaselineLen + 4 .. n : t[i] < d  BY <1>2, <1>3, <1>4
  <2>2. \A i \in BaselineLen + 4 .. n + 1 : i = n + 1 \/ i \in BaselineLen + 4 .. n  OBVIOUS
  <2>3. \A i \in BaselineLen + 4 .. n + 1 : t[i] <= d  BY <1>1, <1>3, <2>1, <2>2
  <2>4. n + 1 \in BaselineLen + 4 .. n + 1 /\ (n + 1) - 1 = n  BY <1>2
  <2>5. Highest(t, n + 1, n + 1, d)  BY <1>1, <2>1, <2>3, <2>4 DEF Highest
  <2> QED BY <1>4, <2>5 DEF t
<1>5. CASE ~(d > x)
  <2>1. \A i \in BaselineLen + 4 .. n + 1 : i = n + 1 \/ i \in BaselineLen + 4 .. n  OBVIOUS
  <2>2. \A i \in BaselineLen + 4 .. n : t[i] <= x  BY <1>2, <1>3
  <2>3. t[n + 1] <= x  BY <1>1, <1>5
  <2>4. \A i \in BaselineLen + 4 .. n + 1 : t[i] <= x  BY <2>1, <2>2, <2>3
  <2>5. \A i \in BaselineLen + 4 .. a - 1 : t[i] < x
    <3>1. \A i \in BaselineLen + 4 .. a - 1 : i \in BaselineLen + 4 .. n  BY <1>2
    <3> QED BY <1>2, <1>3, <3>1
  <2>6. a \in BaselineLen + 4 .. n + 1 /\ t[a] = x  BY <1>2, <1>3
  <2>7. Highest(t, n + 1, a, x)  BY <2>4, <2>5, <2>6 DEF Highest
  <2> QED BY <1>5, <2>7 DEF t
<1> QED BY <1>4, <1>5

\* A clock of find_peak.
LEMMA FinderMoves ==
  ASSUME Types, NEW trig \in BOOLEAN, NEW d \in Int, NEW gate \in BOOLEAN, FindPeak(trig, d, gate)
  PROVE  /\ trig => finder'.max_adc = Floor /\ peak_sampnum' = 0
         /\ ~trig /\ finder.state = "IDLE" =>
              finder'.max_adc = finder.max_adc /\ peak_sampnum' = peak_sampnum
         /\ ~trig /\ finder.state = "GATE_ACTIVE" =>
              /\ finder'.max_adc = IF d > finder.max_adc THEN d ELSE finder.max_adc
              /\ peak_sampnum' = IF d > finder.max_adc THEN samplenum ELSE peak_sampnum
<1>1. finder \in FinderRegs /\ finder.max_adc \in Int  BY DEF Types, Registers, FinderRegs
<1>2. CASE trig
  <2>1. finder' = [finder EXCEPT !.state = "IDLE", !.max_adc = Floor] /\ peak_sampnum' = 0
    BY <1>2 DEF FindPeak
  <2> QED BY <1>1, <1>2, <2>1 DEF FinderRegs
<1>3. CASE ~trig /\ finder.state = "IDLE"  BY <1>3, FinderStates
<1>4. CASE ~trig /\ finder.state = "GATE_ACTIVE"
  <2>1. /\ finder'.max_adc = Max({d, finder.max_adc})
        /\ peak_sampnum' = IF d > finder.max_adc THEN samplenum ELSE peak_sampnum
    BY <1>4 DEF FindPeak
  <2>2. Max({d, finder.max_adc}) = IF d > finder.max_adc THEN d ELSE finder.max_adc
    BY <1>1, MaxIs
  <2> QED BY <1>4, <2>1, <2>2
<1> QED BY <1>1, <1>2, <1>3, <1>4 DEF FinderRegs

\* The counter of samples, until it stops.
LEMMA CounterMoves ==
  ASSUME Types, NEW trig \in BOOLEAN, SampleNum(trig)
  PROVE  /\ trig => samplenum' = 0
         /\ ~trig /\ samplenum + 1 <= LastSample => samplenum' = samplenum + 1
         /\ samplenum \in Nat
<1>1. samplenum \in Nat /\ LastSample \in Nat  BY Constants DEF Types, Registers
<1>2. Min({samplenum + 1, LastSample}) =
        IF samplenum + 1 < LastSample THEN samplenum + 1 ELSE LastSample
  BY <1>1, MinIs
<1> QED BY <1>1, <1>2 DEF SampleNum

LEMMA PeakStep ==
  ASSUME Types, SamplesAbove, CounterRuns, channel = "window",
         NEW trig \in BOOLEAN, ~trig, NEW d \in Samples, NEW gate \in BOOLEAN,
         FindPeak(trig, d, gate), SampleNum(trig),
         NEW n \in 0 .. Window, n = Len(win), FinderAt(n), PeakAt(n), n < Window,
         win' = Append(win, d)
  PROVE  PeakAt(n + 1)'
<1> USE Constants
<1>1. /\ n \in Nat /\ Window \in Nat /\ Window = BaselineLen + IntegralLen + 3
      /\ d \in Int /\ d > Floor /\ finder \in FinderRegs /\ finder.max_adc \in Int
      /\ win \in Seq(Int) /\ samplenum = GateStart + 1 + n
  BY WindowsAre DEF Window, Types, Registers, Histories, FinderRegs, SamplesAbove, PeakAt
<1>2. samplenum' = GateStart + 1 + (n + 1) \/ ~(n + 1 < Window)
  BY <1>1, CounterMoves DEF CounterRuns
<1>3. finder.state = "GATE_ACTIVE" <=> n \in BaselineLen + 3 .. BaselineLen + IntegralLen + 2
  BY DEF FinderAt
<1>4. finder.state \in {"IDLE", "GATE_ACTIVE"}  BY <1>1 DEF FinderRegs
<1>5. CASE n < BaselineLen + 3
  <2>1. n \notin BaselineLen + 3 .. BaselineLen + IntegralLen + 2  BY <1>1, <1>5
  <2>2. finder.state = "IDLE"  BY <1>3, <1>4, <2>1
  <2>3. finder'.max_adc = Floor /\ peak_sampnum' = 0
    BY <1>1, <1>5, <2>2, FinderMoves DEF PeakAt
  <2>4. n + 1 < BaselineLen + 4 /\ ~(n + 1 >= BaselineLen + 4)  BY <1>1, <1>5
  <2> QED BY <1>2, <2>3, <2>4 DEF PeakAt, Window
<1>6. CASE n >= BaselineLen + 3
  <2>1. n \in BaselineLen + 3 .. BaselineLen + IntegralLen + 2  BY <1>1, <1>6
  <2>2. /\ finder'.max_adc = IF d > finder.max_adc THEN d ELSE finder.max_adc
        /\ peak_sampnum' = IF d > finder.max_adc THEN samplenum ELSE peak_sampnum
    BY <1>1, <1>3, <2>1, FinderMoves
  <2>3. \E a \in Nat : Highest(win', n + 1, a, finder'.max_adc) /\ peak_sampnum' = GateStart + a
    <3>1. CASE n = BaselineLen + 3
      <4>1. finder.max_adc = Floor  BY <1>1, <3>1 DEF PeakAt
      <4>2. finder'.max_adc = d /\ peak_sampnum' = GateStart + (n + 1)
        BY <1>1, <2>2, <4>1
      <4>3. Highest(win', n + 1, n + 1, d)
        <5>1. Highest(Append(win, d), BaselineLen + 4, BaselineLen + 4, d)
          BY <1>1, <3>1, HighestFirst
        <5>2. n + 1 = BaselineLen + 4  BY <3>1
        <5> QED BY <5>1, <5>2
      <4> QED BY <1>1, <4>2, <4>3
    <3>2. CASE n # BaselineLen + 3
      <4>1. PICK a \in Nat : Highest(win, n, a, finder.max_adc) /\ peak_sampnum = GateStart + a
        <5>1. n >= BaselineLen + 4  BY <1>1, <1>6, <3>2
        <5> QED BY <5>1 DEF PeakAt
      <4>2. /\ d > finder.max_adc => Highest(Append(win, d), n + 1, n + 1, d)
            /\ ~(d > finder.max_adc) => Highest(Append(win, d), n + 1, a, finder.max_adc)
        BY <1>1, <4>1, HighestNext
      <4>3. CASE d > finder.max_adc
        <5>1. finder'.max_adc = d /\ peak_sampnum' = GateStart + (n + 1)  BY <1>1, <2>2, <4>3
        <5>2. n + 1 \in Nat /\ Highest(win', n + 1, n + 1, d)  BY <1>1, <4>2, <4>3
        <5> QED BY <5>1, <5>2
      <4>4. CASE ~(d > finder.max_adc)  BY <2>2, <4>1, <4>2, <4>4
      <4> QED BY <4>3, <4>4
    <3> QED BY <3>1, <3>2
  <2>4. ~(n + 1 < BaselineLen + 4)  BY <1>1, <1>6
  <2> QED BY <1>2, <2>3, <2>4 DEF PeakAt, Window, Highest
<1> QED BY <1>1, <1>5, <1>6

LEMMA ChannelPeak ==
  ASSUME EventsInv, EventsInv', InStep, SamplesAbove, CounterRuns, PeakInv,
         NEW trig \in BOOLEAN, NEW d \in Samples, InChannel(trig, d)
  PROVE  PeakInv'
<1> DEFINE idle == AllIdle \/ (clean /\ gates.state = "TRIGGERED" /\ ~Opens(GateStart))
<1> USE Constants
<1>1. /\ channel = "window" /\ GenGates(trig, GateStart) /\ History(trig, d, idle)
      /\ SampleNum(trig) /\ FindPeak(trig, d, integral_gate)
  BY DEF InChannel, BeamStats
<1>2. /\ Types /\ GateRest /\ EventInv /\ d \in Int /\ idle \in BOOLEAN /\ integral_gate \in BOOLEAN
      /\ Window \in Nat /\ Window > 0 /\ win \in Seq(Int) /\ Len(win) \in Nat /\ Len(win) <= Window
  BY WindowsAre DEF EventsInv, Types, Histories, Registers
<1> HIDE DEF idle
<1>3. SUFFICES ASSUME clean'
               PROVE  /\ ~Begun' => samplenum' <= GateStart /\ finder'.max_adc = Floor /\ peak_sampnum' = 0
                      /\ Begun' => \E n \in 0 .. Window : n = Len(win') /\ PeakAt(n)'
  BY DEF PeakInv, Window
<1>4. /\ trig => clean' = idle /\ Len(win') = 0
      /\ ~trig => clean' = clean
      /\ ~trig /\ clean /\ Begun /\ Len(win) < Window =>
           win' = Append(win, d) /\ Len(win') = Len(win) + 1
      /\ ~trig /\ clean /\ Begun /\ Len(win) = Window => win' = win
      /\ ~trig /\ clean /\ ~Begun => win' = << >> /\ Len(win') = 0
  BY <1>1, <1>2, WinCases
<1>5. CASE trig
  <2>1. samplenum' = 0 /\ finder'.max_adc = Floor /\ peak_sampnum' = 0
    BY <1>1, <1>2, <1>5, FinderMoves, CounterMoves
  <2>2. gates'.state # "BASELINE_ACTIVE"
    <3>1. idle  BY <1>3, <1>4, <1>5
    <3>2. gates.state = "IDLE" \/ (gates.state = "TRIGGERED" /\ ~Opens(GateStart))
      BY <3>1, AllIdleIs DEF idle
    <3>3. CASE gates.state = "IDLE" /\ gates' = gates  BY <3>3
    <3>4. CASE gates.state = "IDLE" /\ gates' # gates
      <4>1. gates'.state = "TRIGGERED"  BY <1>1, <3>4 DEF GenGates, Opens
      <4> QED BY <4>1
    <3>5. CASE gates.state = "TRIGGERED" /\ ~Opens(GateStart)
      <4>1. gates' = gates  BY <1>1, <3>5 DEF GenGates
      <4> QED BY <3>5, <4>1
    <3> QED BY <3>2, <3>3, <3>4, <3>5
  <2> QED BY <1>4, <1>5, <2>1, <2>2 DEF Begun
<1>6. CASE ~trig /\ ~Begun
  <2>1. /\ clean /\ gates.state = "TRIGGERED" /\ Quiet /\ Len(win') = 0
        /\ samplenum <= GateStart /\ finder.max_adc = Floor /\ peak_sampnum = 0
    BY <1>1, <1>2, <1>3, <1>4, <1>6 DEF EventInv, PeakInv
  <2>2. finder'.max_adc = Floor /\ peak_sampnum' = 0
    BY <1>1, <1>2, <1>6, <2>1, FinderMoves DEF Quiet
  <2>3. samplenum' = samplenum + 1 /\ samplenum \in Nat
    <3>1. samplenum + 1 <= LastSample
      BY <1>1, <1>2, <2>1, CounterMoves DEF CounterRuns
    <3> QED BY <1>1, <1>2, <1>6, <3>1, CounterMoves
  <2>4. CASE Opens(GateStart)
    <3>1. gates'.state = "BASELINE_ACTIVE" /\ samplenum' = GateStart + 1
      BY <1>1, <2>1, <2>3, <2>4 DEF GenGates, Opens
    <3>2. PeakAt(0)'  BY <2>2, <3>1 DEF PeakAt
    <3> QED BY <1>2, <2>1, <3>1, <3>2 DEF Begun
  <2>5. CASE ~Opens(GateStart)
    <3>1. gates' = gates /\ samplenum' <= GateStart
      BY <1>1, <2>1, <2>3, <2>5 DEF GenGates, Opens
    <3> QED BY <2>1, <2>2, <3>1 DEF Begun
  <2> QED BY <2>4, <2>5
<1>7. CASE ~trig /\ Begun
  <2>1. clean  BY <1>3, <1>4, <1>7
  <2>2. PICK n \in 0 .. Window : n = Len(win) /\ PeakAt(n)  BY <1>1, <1>7, <2>1 DEF PeakInv
  <2>3. FinderAt(n)
    <3>1. PICK k \in 0 .. Window : At(k)  BY <1>2, <1>7, <2>1 DEF EventInv
    <3> QED BY <2>2, <3>1 DEF At
  <2>4. CASE n < Window
    <3>1. win' = Append(win, d) /\ Len(win') = n + 1  BY <1>4, <1>7, <2>1, <2>2, <2>4
    <3>2. PeakAt(n + 1)'  BY <1>1, <1>2, <1>7, <2>2, <2>3, <2>4, <3>1, PeakStep
    <3>3. n + 1 \in 0 .. Window  BY <1>2, <2>4
    <3> QED BY <1>2, <2>2, <3>1, <3>2, <3>3 DEF Begun
  <2>5. CASE n = Window
    <3>1. win' = win  BY <1>4, <1>7, <2>1, <2>2, <2>5
    <3>2. finder.state = "IDLE"
      <4>1. Measured  BY <2>1, <2>2, <2>5 DEF Measured
      <4> QED BY <4>1, FinderRests
    <3>3. finder'.max_adc = finder.max_adc /\ peak_sampnum' = peak_sampnum
      BY <1>1, <1>2, <1>7, <3>2, FinderMoves
    <3>4. PeakAt(n)'
      <4>1. ~(n < Window)  BY <1>2, <2>5
      <4> QED BY <2>2, <3>1, <3>3, <4>1 DEF PeakAt, Window, Highest
    <3> QED BY <1>2, <2>2, <2>5, <3>1, <3>4 DEF Begun
  <2> QED BY <1>2, <2>4, <2>5
<1> QED BY <1>5, <1>6, <1>7

LEMMA NextPeak ==
  ASSUME InStep, SamplesAbove, CounterRuns
  PROVE  EventsInv /\ PeakInv /\ [Next]_vars => (EventsInv /\ PeakInv)'
<1> SUFFICES ASSUME EventsInv, PeakInv, [Next]_vars PROVE EventsInv' /\ PeakInv'  OBVIOUS
<1>1. EventsInv'  BY NextEvents
<1>2. CASE UNCHANGED vars
  BY <1>1, <1>2 DEF PeakInv, PeakAt, Highest, Begun, Window, vars, pulseVars, gateVars, statVars, oowVars
<1>3. CASE Next
  <2>1. PICK trig \in BOOLEAN, d \in Samples : InChannel(trig, d) \/ FindBeamOow(trig, d)
    BY <1>3 DEF Next
  <2>2. CASE InChannel(trig, d)  BY <1>1, <2>2, ChannelPeak
  <2>3. CASE FindBeamOow(trig, d)
    <3>1. channel' = "outside"  BY <2>3 DEF FindBeamOow
    <3> QED BY <1>1, <3>1 DEF PeakInv
  <2> QED BY <2>1, <2>2, <2>3
<1> QED BY <1>2, <1>3

\* The greatest and the first are what find_peak holds.
LEMMA HighestIs ==
  ASSUME NEW s \in Seq(Int), Len(s) = Window, NEW a \in Nat, NEW x \in Int, Highest(s, Window, a, x)
  PROVE  /\ Max({s[i] : i \in PeakWindow}) = x
         /\ Min({i \in PeakWindow : s[i] = x}) = a
<1> USE Constants, WindowsAre
<1>1. /\ a \in PeakWindow /\ s[a] = x
      /\ \A i \in PeakWindow : s[i] <= x /\ i \in 1 .. Window /\ s[i] \in Int
      /\ \A i \in BaselineLen + 4 .. a - 1 : s[i] < x
  BY DEF Highest, PeakWindow
<1>2. Max({s[i] : i \in PeakWindow}) = x
  <2> DEFINE S == {s[i] : i \in PeakWindow}
  <2>1. x \in S /\ \A y \in S : x >= y /\ y \in Int  BY <1>1
  <2> HIDE DEF S
  <2>2. \A z \in S : (\A y \in S : z >= y) => z = x  BY <2>1
  <2>3. Max(S) \in S /\ \A y \in S : Max(S) >= y  BY <2>1 DEF Max
  <2> QED BY <2>2, <2>3 DEF S
<1>3. Min({i \in PeakWindow : s[i] = x}) = a
  <2> DEFINE S == {i \in PeakWindow : s[i] = x}
  <2>1. a \in S /\ \A i \in S : i \in Int /\ a <= i
    <3> SUFFICES ASSUME NEW i \in S, i < a PROVE FALSE  BY <1>1 DEF PeakWindow
    <3>1. i \in BaselineLen + 4 .. a - 1 /\ s[i] = x  BY DEF PeakWindow
    <3>2. s[i] < x  BY <1>1, <3>1
    <3> QED BY <3>1, <3>2
  <2> HIDE DEF S
  <2>2. \A z \in S : (\A y \in S : z <= y) => z = a  BY <2>1
  <2>3. Min(S) \in S /\ \A y \in S : Min(S) <= y  BY <2>1 DEF Min
  <2> QED BY <2>2, <2>3 DEF S
<1> QED BY <1>2, <1>3

\* find_peak reports the highest of the samples of its event's second gate, less
\* the baseline, and the number of the first of that height (find_peak.vhd,
\* calc_beam_stats.vhd): nothing of an earlier event, nothing from outside of
\* the gate.
THEOREM PeakFound == ASSUME InStep, SamplesAbove, CounterRuns PROVE Spec => []PeakRight
<1>1. Init => EventsInv /\ PeakInv  BY InitTypes, InitEvent, InitPeak DEF EventsInv
<1>2. EventsInv /\ PeakInv => PeakRight
  <2> SUFFICES ASSUME EventsInv, PeakInv, Measured, channel = "window"
               PROVE  LET top == Max({win[i] : i \in PeakWindow})
                          at  == Min({i \in PeakWindow : win[i] = top})
                      IN  peak = top - baseline /\ peak_sampnum = GateStart + at
    BY DEF PeakRight
  <2>1. clean /\ Begun /\ Len(win) = Window  BY MeasuredAt DEF Measured
  <2>2. PeakAt(Window)
    <3>1. PICK n \in 0 .. Window : n = Len(win) /\ PeakAt(n)  BY <2>1 DEF PeakInv
    <3> QED BY <2>1, <3>1
  <2>3. PICK a \in Nat : Highest(win, Window, a, finder.max_adc) /\ peak_sampnum = GateStart + a
    <3>1. Window >= BaselineLen + 4  BY Constants DEF Window, InStep
    <3> QED BY <2>2, <3>1 DEF PeakAt
  <2>4. win \in Seq(Int) /\ finder.max_adc \in Int
    BY DEF EventsInv, Types, Registers, Histories, FinderRegs
  <2>5. /\ Max({win[i] : i \in PeakWindow}) = finder.max_adc
        /\ Min({i \in PeakWindow : win[i] = finder.max_adc}) = a
    BY <2>1, <2>3, <2>4, HighestIs
  <2> QED BY <2>3, <2>5 DEF peak
<1> QED BY <1>1, <1>2, NextPeak, PTL DEF Spec

-----------------------------------------------------------------------------
(* The width of a pulse.                                                   *)

\* The delay is shorter than the gates, the baseline is there before they end,
\* and fwhm counts the whole delay.
WidthInStep ==
  /\ Delay < Window
  /\ BaselineAcc < BaselineLen + IntegralLen
  /\ Delay + 1 < WidthMod

\* The first sample that calc_fwhm looks at.
From == Window - Delay

\* In the samples s less c: r is the first at the level l, and all after it up
\* to n lie above.
Riding(s, c, l, r, n) ==
  /\ \A i \in From .. r - 1 : s[i] - c < l
  /\ s[r] - c >= l
  /\ \A i \in r + 1 .. n : s[i] - c > l

Shape(s, c, l, r, f) == r < f /\ Riding(s, c, l, r, f - 1) /\ s[f] - c <= l

\* The states of calc_fwhm, with the count fw, when it has seen the samples up
\* to m.
Ended(st, fw, s, c, l) ==
  st = "IDLE" /\ \E r, f \in From .. Window : Shape(s, c, l, r, f) /\ fw = f - r
Climbs(st, fw, s, c, l, m) ==
  st = "START_FWHM" /\ fw = 0 /\ \A i \in From .. m : s[i] - c < l
Rides(st, fw, s, c, l, m) ==
  st = "FOUND_PULSE" /\ \E r \in From .. m : Riding(s, c, l, r, m) /\ fw = m + 1 - r
Phase(st, fw, s, c, l, m) ==
  Ended(st, fw, s, c, l) \/ Climbs(st, fw, s, c, l, m) \/ Rides(st, fw, s, c, l, m)
NoShape(s, c, l) == \A r, f \in From .. Window : ~Shape(s, c, l, r, f)

LEMMA FromIs == ASSUME WidthInStep PROVE From \in Nat /\ From >= 1 /\ From + Delay = Window
BY Constants, WindowsAre DEF WidthInStep, From

LEMMA ShapeUnique ==
  ASSUME WidthInStep, NEW s \in Seq(Int), Len(s) = Window, NEW c \in Int, NEW l \in Int,
         NEW r \in From .. Window, NEW f \in From .. Window,
         NEW p \in From .. Window, NEW g \in From .. Window,
         Shape(s, c, l, r, f), Shape(s, c, l, p, g)
  PROVE  f - r = g - p
<1>1. /\ From \in Nat /\ From >= 1 /\ Window \in Nat /\ r \in Nat /\ f \in Nat /\ p \in Nat /\ g \in Nat
      /\ \A i \in From .. Window : s[i] \in Int
  BY FromIs, WindowsAre
<1>2. r = p
  <2>1. CASE r < p
    <3>1. r \in From .. p - 1  BY <1>1, <2>1
    <3>2. s[r] - c < l /\ s[r] - c >= l  BY <3>1 DEF Shape, Riding
    <3> QED BY <1>1, <3>2
  <2>2. CASE p < r
    <3>1. p \in From .. r - 1  BY <1>1, <2>2
    <3>2. s[p] - c < l /\ s[p] - c >= l  BY <3>1 DEF Shape, Riding
    <3> QED BY <1>1, <3>2
  <2> QED BY <1>1, <2>1, <2>2
<1>3. f = g
  <2>1. CASE f < g
    <3>1. f \in p + 1 .. g - 1  BY <1>1, <1>2, <2>1 DEF Shape
    <3>2. s[f] - c > l /\ s[f] - c <= l  BY <3>1 DEF Shape, Riding
    <3> QED BY <1>1, <3>2
  <2>2. CASE g < f
    <3>1. g \in r + 1 .. f - 1  BY <1>1, <1>2, <2>2 DEF Shape
    <3>2. s[g] - c > l /\ s[g] - c <= l  BY <3>1 DEF Shape, Riding
    <3> QED BY <1>1, <3>2
  <2> QED BY <1>1, <2>1, <2>2
<1> QED BY <1>2, <1>3

\* Calc_fwhm has seen one more sample.
LEMMA PhaseNext ==
  ASSUME WidthInStep, NEW s \in Seq(Int), Len(s) = Window, NEW c \in Int, NEW l \in Int,
         NEW m \in From - 1 .. Window - 1, NEW st, NEW fw, NEW u, NEW fv,
         Phase(st, fw, s, c, l, m),
         st = "IDLE" => u = st /\ fv = fw,
         st = "START_FWHM" => IF s[m + 1] - c >= l THEN u = "FOUND_PULSE" /\ fv = Counted(fw)
                              ELSE u = st /\ fv = fw,
         st = "FOUND_PULSE" => IF s[m + 1] - c <= l THEN u = "IDLE" /\ fv = fw
                               ELSE u = st /\ fv = Counted(fw)
  PROVE  Phase(u, fv, s, c, l, m + 1)
<1> USE Constants
<1>1. /\ From \in Nat /\ From >= 1 /\ Window \in Nat /\ m \in Int /\ m + 1 \in From .. Window
      /\ From + Delay = Window /\ (m + 1) - 1 = m
      /\ \A i \in From .. Window : s[i] \in Int
  BY FromIs, WindowsAre
<1>2. s[m + 1] \in Int  BY <1>1
<1>3. CASE Ended(st, fw, s, c, l)  BY <1>3 DEF Ended, Phase
<1>4. CASE Climbs(st, fw, s, c, l, m)
  <2>1. st = "START_FWHM" /\ fw = 0 /\ \A i \in From .. m : s[i] - c < l  BY <1>4 DEF Climbs
  <2>2. CASE s[m + 1] - c >= l
    <3>1. u = "FOUND_PULSE" /\ fv = 1
      <4>1. Counted(0) = 1  BY DEF Counted, WidthInStep
      <4> QED BY <2>1, <2>2, <4>1
    <3>2. Riding(s, c, l, m + 1, m + 1)
      <4>1. \A i \in (m + 1) + 1 .. m + 1 : FALSE  BY <1>1
      <4> QED BY <1>1, <2>1, <2>2, <4>1 DEF Riding
    <3>3. m + 1 \in From .. m + 1 /\ fv = (m + 1) + 1 - (m + 1)  BY <1>1, <3>1
    <3>4. Rides(u, fv, s, c, l, m + 1)  BY <3>1, <3>2, <3>3 DEF Rides
    <3> QED BY <3>4 DEF Phase
  <2>3. CASE ~(s[m + 1] - c >= l)
    <3>1. u = "START_FWHM" /\ fv = 0  BY <2>1, <2>3
    <3>2. \A i \in From .. m + 1 : i \in From .. m \/ i = m + 1  BY <1>1
    <3>3. \A i \in From .. m + 1 : s[i] - c < l  BY <1>2, <2>1, <2>3, <3>2
    <3>4. Climbs(u, fv, s, c, l, m + 1)  BY <3>1, <3>3 DEF Climbs
    <3> QED BY <3>4 DEF Phase
  <2> QED BY <2>2, <2>3
<1>5. CASE Rides(st, fw, s, c, l, m)
  <2>1. st = "FOUND_PULSE"  BY <1>5 DEF Rides
  <2>2. PICK r \in From .. m : Riding(s, c, l, r, m) /\ fw = m + 1 - r  BY <1>5 DEF Rides
  <2>3. CASE s[m + 1] - c <= l
    <3>1. u = "IDLE" /\ fv = (m + 1) - r  BY <2>1, <2>2, <2>3
    <3>2. Shape(s, c, l, r, m + 1)  BY <1>1, <2>2, <2>3 DEF Shape
    <3>3. r \in From .. Window  BY <1>1
    <3>4. Ended(u, fv, s, c, l)  BY <1>1, <3>1, <3>2, <3>3 DEF Ended
    <3> QED BY <3>4 DEF Phase
  <2>4. CASE ~(s[m + 1] - c <= l)
    <3>1. u = "FOUND_PULSE" /\ fv = Counted(fw)  BY <2>1, <2>4
    <3>2. fw + 1 \in 0 .. WidthMod - 1  BY <1>1, <2>2 DEF WidthInStep
    <3>3. fv = (m + 1) + 1 - r
      <4>1. \A x \in 0 .. WidthMod - 1 : x % WidthMod = x  OBVIOUS
      <4>2. Counted(fw) = fw + 1  BY <3>2, <4>1 DEF Counted
      <4> QED BY <1>1, <2>2, <3>1, <4>2
    <3>4. Riding(s, c, l, r, m + 1)
      <4>1. \A i \in r + 1 .. m + 1 : i \in r + 1 .. m \/ i = m + 1  BY <1>1
      <4>2. s[m + 1] - c > l  BY <1>2, <2>4
      <4> QED BY <2>2, <4>1, <4>2 DEF Riding
    <3>5. r \in From .. m + 1  BY <1>1
    <3>6. Rides(u, fv, s, c, l, m + 1)  BY <3>1, <3>3, <3>4, <3>5 DEF Rides
    <3> QED BY <3>6 DEF Phase
  <2> QED BY <2>3, <2>4
<1> QED BY <1>3, <1>4, <1>5 DEF Phase

\* No width is seen in the samples when it is still at work at the end of them.
LEMMA PhaseLast ==
  ASSUME WidthInStep, NEW s \in Seq(Int), Len(s) = Window, NEW c \in Int, NEW l \in Int,
         NEW st, NEW fw, Phase(st, fw, s, c, l, Window)
  PROVE  Ended(st, fw, s, c, l) \/ NoShape(s, c, l)
<1>1. /\ From \in Nat /\ Window \in Nat /\ \A i \in From .. Window : s[i] \in Int
  BY FromIs, WindowsAre
<1>2. SUFFICES ASSUME NEW p \in From .. Window, NEW g \in From .. Window, Shape(s, c, l, p, g),
                      Climbs(st, fw, s, c, l, Window) \/ Rides(st, fw, s, c, l, Window)
               PROVE  FALSE
  BY DEF Phase, NoShape
<1>3. p < g /\ s[p] - c >= l /\ s[g] - c <= l /\ \A i \in From .. p - 1 : s[i] - c < l
  BY <1>2 DEF Shape, Riding
<1>4. s[p] \in Int /\ s[g] \in Int  BY <1>1
<1>5. CASE Climbs(st, fw, s, c, l, Window)
  <2>1. s[p] - c < l  BY <1>5 DEF Climbs
  <2> QED BY <1>3, <1>4, <2>1
<1>6. CASE Rides(st, fw, s, c, l, Window)
  <2>1. PICK r \in From .. Window : Riding(s, c, l, r, Window)  BY <1>6 DEF Rides
  <2>2. /\ s[r] - c >= l /\ s[r] \in Int /\ \A i \in r + 1 .. Window : s[i] - c > l
        /\ \A i \in From .. r - 1 : s[i] - c < l
    BY <1>1, <2>1 DEF Riding
  <2>3. ~(p < r)
    <3> SUFFICES ASSUME p < r PROVE FALSE  OBVIOUS
    <3>1. p \in From .. r - 1  BY <1>1
    <3> QED BY <1>3, <1>4, <2>2, <3>1
  <2>4. g \in r + 1 .. Window  BY <1>1, <1>3, <2>3
  <2> QED BY <1>3, <1>4, <2>2, <2>4
<1> QED BY <1>2, <1>5, <1>6

\* The delayed stream ends with the samples of the event.
DelayedAt(n) == \A i \in 1 .. Delay : Delay - i < n => dly[i] = win[n - Delay + i]

\* calc_fwhm, j clocks after the gates have ended; after Delay + 2 it has seen
\* all of the samples.
WidthAt(j) ==
  /\ \A i \in 1 .. Delay : i + j <= Delay => dly[i] = win[From + j + i]
  /\ j <= Delay => width.nzs = win[From + j] - baseline
  /\ j \in 1 .. Delay + 1 => width.bs = win[From + j - 1] - baseline
  /\ j = 0 => finder.peak_val = TRUE /\ width.state = "IDLE"
  /\ j >= 1 => finder.peak_val = FALSE
  /\ j \in 1 .. Delay + 1 => Phase(width.state, fwhm, win, baseline, peak \div 2, From + j - 2)
  /\ j = Delay + 2 => Ended(width.state, fwhm, win, baseline, peak \div 2)
                        \/ NoShape(win, baseline, peak \div 2)

WidthInv == channel = "window" =>
  /\ \A n \in Nat : n = Len(win) /\ n < Window => DelayedAt(n)
  /\ clean /\ fresh /\ Len(win) < Window => width.state = "IDLE" /\ finder.peak_val = FALSE
  /\ clean /\ fresh /\ Len(win) = Window => \E j \in 0 .. Delay + 2 : WidthAt(j)

LEMMA InitWidth == Init => WidthInv
<1> SUFFICES ASSUME Init PROVE WidthInv  OBVIOUS
<1>1. Len(win) = 0 /\ clean = FALSE  BY DEF Init, PulseInit
<1>2. \A i \in 1 .. Delay : ~(Delay - i < 0)  BY Constants
<1>3. DelayedAt(0)  BY <1>2 DEF DelayedAt
<1> QED BY <1>1, <1>3 DEF WidthInv

LEMMA WidthMoves ==
  ASSUME Types, NEW trig \in BOOLEAN, NEW start_calc \in BOOLEAN, CalcFwhm(trig, start_calc)
  PROVE  /\ trig => width'.state = width.state
         /\ width'.nzs = dly[1] - baseline /\ width'.bs = width.nzs
         /\ ~trig /\ width.state = "IDLE" /\ start_calc => width'.state = "START_FWHM" /\ fwhm' = 0
         /\ ~trig /\ width.state = "IDLE" /\ ~start_calc => width'.state = "IDLE" /\ fwhm' = fwhm
         /\ ~trig /\ width.state = "START_FWHM" =>
              IF width.bs >= peak \div 2 THEN width'.state = "FOUND_PULSE" /\ fwhm' = Counted(fwhm)
              ELSE width'.state = width.state /\ fwhm' = fwhm
         /\ ~trig /\ width.state = "FOUND_PULSE" =>
              IF width.bs <= peak \div 2 THEN width'.state = "IDLE" /\ fwhm' = fwhm
              ELSE width'.state = width.state /\ fwhm' = Counted(fwhm)
<1> DEFINE r == [width EXCEPT !.nzs = dly[1] - baseline, !.bs = width.nzs]
           level == peak \div 2
<1>1. width \in WidthRegs  BY DEF Types, Registers
<1>2. /\ r.state = width.state /\ r.nzs = dly[1] - baseline /\ r.bs = width.nzs
      /\ \A s \in {"IDLE", "START_FWHM", "FOUND_PULSE"} :
           /\ [r EXCEPT !.state = s].state = s
           /\ [r EXCEPT !.state = s].nzs = r.nzs /\ [r EXCEPT !.state = s].bs = r.bs
  BY <1>1 DEF WidthRegs
<1>3. \/ trig /\ fwhm' = 0 /\ width' = r
      \/ /\ ~trig /\ width.state = "IDLE"
         /\ fwhm' = IF start_calc THEN 0 ELSE fwhm
         /\ width' = [r EXCEPT !.state = IF start_calc THEN "START_FWHM" ELSE "IDLE"]
      \/ /\ ~trig /\ width.state = "START_FWHM"
         /\ fwhm' = IF width.bs >= level THEN Counted(fwhm) ELSE fwhm
         /\ width' = [r EXCEPT !.state = IF width.bs >= level THEN "FOUND_PULSE" ELSE @]
      \/ /\ ~trig /\ width.state = "FOUND_PULSE"
         /\ fwhm' = IF width.bs <= level THEN fwhm ELSE Counted(fwhm)
         /\ width' = [r EXCEPT !.state = IF width.bs <= level THEN "IDLE" ELSE @]
  BY DEF CalcFwhm
<1> HIDE DEF r, level
<1>4. CASE trig  BY <1>2, <1>3, <1>4
<1>5. CASE ~trig /\ width.state = "IDLE"
  <2>1. CASE start_calc  BY <1>2, <1>3, <1>5, <2>1
  <2>2. CASE ~start_calc  BY <1>2, <1>3, <1>5, <2>2
  <2> QED BY <2>1, <2>2
<1>6. CASE ~trig /\ width.state = "START_FWHM"
  <2>1. /\ fwhm' = IF width.bs >= level THEN Counted(fwhm) ELSE fwhm
        /\ width' = [r EXCEPT !.state = IF width.bs >= level THEN "FOUND_PULSE" ELSE "START_FWHM"]
    BY <1>2, <1>3, <1>6
  <2>2. CASE width.bs >= level  BY <1>2, <1>6, <2>1, <2>2 DEF level
  <2>3. CASE ~(width.bs >= level)  BY <1>2, <1>6, <2>1, <2>3 DEF level
  <2> QED BY <2>2, <2>3
<1>7. CASE ~trig /\ width.state = "FOUND_PULSE"
  <2>1. /\ fwhm' = IF width.bs <= level THEN fwhm ELSE Counted(fwhm)
        /\ width' = [r EXCEPT !.state = IF width.bs <= level THEN "IDLE" ELSE "FOUND_PULSE"]
    BY <1>2, <1>3, <1>7
  <2>2. CASE width.bs <= level  BY <1>2, <1>7, <2>1, <2>2 DEF level
  <2>3. CASE ~(width.bs <= level)  BY <1>2, <1>7, <2>1, <2>3 DEF level
  <2> QED BY <2>2, <2>3
<1> QED BY <1>1, <1>4, <1>5, <1>6, <1>7 DEF WidthRegs

\* What find_peak tells calc_fwhm.
LEMMA PeakValMoves ==
  ASSUME Types, NEW trig \in BOOLEAN, NEW d \in Int, NEW gate \in BOOLEAN, FindPeak(trig, d, gate)
  PROVE  /\ trig => finder'.peak_val = finder.peak_val
         /\ ~trig /\ finder.state = "IDLE" => finder'.peak_val = FALSE
         /\ ~trig /\ finder.state = "GATE_ACTIVE" => finder'.peak_val = (finder.peak_val \/ ~gate)
<1>1. finder \in FinderRegs  BY DEF Types, Registers
<1>2. CASE trig
  <2>1. finder' = [finder EXCEPT !.state = "IDLE", !.max_adc = Floor]  BY <1>2 DEF FindPeak
  <2> QED BY <1>1, <1>2, <2>1 DEF FinderRegs
<1>3. CASE ~trig /\ finder.state = "IDLE"
  <2>1. finder' = [finder EXCEPT !.peak_val = FALSE, !.state = IF gate THEN "GATE_ACTIVE" ELSE "IDLE"]
    BY <1>3 DEF FindPeak
  <2> QED BY <1>1, <1>3, <2>1 DEF FinderRegs
<1>4. CASE ~trig /\ finder.state = "GATE_ACTIVE"
  <2>1. finder' = [state    |-> IF gate THEN "GATE_ACTIVE" ELSE "IDLE",
                   peak_val |-> finder.peak_val \/ ~gate,
                   max_adc  |-> Max({d, finder.max_adc})]
    BY <1>4 DEF FindPeak
  <2> QED BY <1>4, <2>1
<1> QED BY <1>1, <1>2, <1>3, <1>4 DEF FinderRegs

LEMMA ShiftIndex ==
  ASSUME NEW S, NEW s \in Seq(S), Len(s) > 0, NEW x \in S
  PROVE  /\ \A i \in 1 .. Len(s) - 1 : Append(Tail(s), x)[i] = s[i + 1]
         /\ Append(Tail(s), x)[Len(s)] = x
<1>1. s # << >> /\ Len(s) \in Nat
  <2>1. Len(<< >>) = 0  OBVIOUS
  <2> QED BY <2>1
<1>2. /\ Tail(s) \in Seq(S) /\ Len(Tail(s)) = Len(s) - 1
      /\ \A i \in 1 .. Len(s) - 1 : Tail(s)[i] = s[i + 1]
  BY <1>1
<1>3. /\ Append(Tail(s), x)[Len(Tail(s)) + 1] = x
      /\ \A i \in 1 .. Len(Tail(s)) : Append(Tail(s), x)[i] = Tail(s)[i]
  BY <1>2, AppendType
<1> QED BY <1>1, <1>2, <1>3

LEMMA DelayedStep ==
  ASSUME Types, NEW d \in Int, dly' = Append(Tail(dly), d), win' = Append(win, d),
         NEW n \in Nat, n = Len(win), DelayedAt(n), NEW m \in Nat, m = n + 1
  PROVE  DelayedAt(m)'
<1>1. /\ dly \in Seq(Int) /\ Len(dly) = Delay /\ Delay > 0 /\ Delay \in Nat /\ win \in Seq(Int)
  BY Constants DEF Types, Histories
<1>2. /\ \A i \in 1 .. Delay - 1 : dly'[i] = dly[i + 1]
      /\ dly'[Delay] = d
  BY <1>1, ShiftIndex
<1>3. win'[m] = d /\ \A i \in 1 .. n : win'[i] = win[i]  BY <1>1, AppendType
<1>4. ASSUME NEW i \in 1 .. Delay, Delay - i < m
      PROVE  dly'[i] = win'[m - Delay + i]
  <2>1. CASE i = Delay
    <3>1. m - Delay + i = m  BY <1>1, <2>1
    <3> QED BY <1>2, <1>3, <2>1, <3>1
  <2>2. CASE i # Delay
    <3>1. /\ i \in 1 .. Delay - 1 /\ i + 1 \in 1 .. Delay /\ Delay - (i + 1) < n
          /\ n - Delay + (i + 1) = m - Delay + i /\ m - Delay + i \in 1 .. n
      BY <1>1, <1>4, <2>2
    <3>2. dly[i + 1] = win[n - Delay + (i + 1)]  BY <3>1 DEF DelayedAt
    <3> QED BY <1>2, <1>3, <3>1, <3>2
  <2> QED BY <2>1, <2>2
<1> QED BY <1>4 DEF DelayedAt

\* The clock in which the gates end.
LEMMA WidthBegins ==
  ASSUME Types, InStep, WidthInStep, channel = "window", NEW trig \in BOOLEAN, ~trig,
         NEW d \in Int, CalcBaseline(trig, d), FindPeak(trig, d, integral_gate),
         CalcFwhm(trig, finder.peak_val), dly' = Append(Tail(dly), d), win' = Append(win, d),
         NEW n \in Nat, n = Window - 1, n = Len(win), At(n), DelayedAt(n),
         width.state = "IDLE", finder.peak_val = FALSE
  PROVE  WidthAt(0)'
<1> USE Constants
<1>1. /\ From \in Nat /\ From >= 1 /\ From + Delay = Window /\ n + 1 = Window
      /\ Window = BaselineLen + IntegralLen + 3 /\ win \in Seq(Int)
      /\ integral_gate \in BOOLEAN /\ finder.peak_val \in BOOLEAN /\ finder \in FinderRegs
  BY FromIs DEF Window, Types, Histories, Registers, FinderRegs
<1>2. DelayedAt(Window)'
  <2>1. Window \in Nat /\ Window' = Window  BY WindowsAre DEF Window
  <2> QED BY <1>1, <2>1, DelayedStep
<1>3. \A i \in 1 .. Delay : dly'[i] = win'[From + 0 + i]
  <2> SUFFICES ASSUME NEW i \in 1 .. Delay PROVE dly'[i] = win'[From + 0 + i]  OBVIOUS
  <2>1. Delay - i < Window /\ Window - Delay + i = From + 0 + i /\ Window' = Window
    BY <1>1 DEF WidthInStep, Window
  <2>2. \A k \in 1 .. Delay : Delay - k < Window => dly'[k] = win'[Window - Delay + k]
    BY <1>2, <2>1 DEF DelayedAt
  <2> QED BY <2>1, <2>2
<1>4. finder'.peak_val = TRUE
  <2>1. n \in BaselineLen + 3 .. BaselineLen + IntegralLen + 2
    BY <1>1 DEF InStep
  <2>2. finder.state = "GATE_ACTIVE"  BY <2>1 DEF At, FinderAt
  <2>3. integral_gate = FALSE
    <3>1. n \notin BaselineLen + 2 .. BaselineLen + IntegralLen + 1  BY <1>1
    <3> QED BY <1>1, <3>1 DEF At, GatesAt
  <2>4. finder'.peak_val = (finder.peak_val \/ ~integral_gate)  BY <1>1, <2>2, PeakValMoves
  <2> QED BY <2>3, <2>4
<1>5. width'.state = "IDLE" /\ width'.nzs = dly[1] - baseline  BY <1>1, WidthMoves
<1>6. baseline' = baseline
  <2>1. n >= BaselineAcc + 3  BY <1>1 DEF WidthInStep
  <2> QED BY <2>1 DEF At, BaseAt, CalcBaseline
<1>7. dly[1] = win'[From + 0]
  <2>1. 1 \in 1 .. Delay /\ Delay - 1 < n /\ n - Delay + 1 = From /\ From \in 1 .. n /\ From + 0 = From
    BY <1>1 DEF WidthInStep
  <2>2. dly[1] = win[From]  BY <2>1 DEF DelayedAt
  <2>3. win'[From] = win[From]  BY <1>1, <2>1, AppendType
  <2> QED BY <2>1, <2>2, <2>3
<1>8. 0 \notin 1 .. Delay + 1 /\ ~(0 >= 1) /\ 0 # Delay + 2  OBVIOUS
<1> QED BY <1>3, <1>4, <1>5, <1>6, <1>7, <1>8 DEF WidthAt, From, Window

\* A clock after the gates have ended.
LEMMA WidthGoesOn ==
  ASSUME Types, Types', WidthInStep, NEW trig \in BOOLEAN, ~trig, NEW d \in Int, NEW gate \in BOOLEAN,
         FindPeak(trig, d, gate), CalcFwhm(trig, finder.peak_val), finder.state = "IDLE",
         dly' = Append(Tail(dly), d), win' = win, Len(win) = Window,
         UNCHANGED <<baseline, peak>>, NEW j \in 0 .. Delay + 2, WidthAt(j)
  PROVE  WidthAt(IF j <= Delay + 1 THEN j + 1 ELSE j)'
<1> DEFINE l == peak \div 2
<1> USE Constants
<1>1. /\ From \in Nat /\ From >= 1 /\ From + Delay = Window /\ win \in Seq(Int)
      /\ dly \in Seq(Int) /\ Len(dly) = Delay /\ Delay > 0 /\ Delay \in Nat
      /\ finder.peak_val \in BOOLEAN /\ baseline \in Int /\ finder.max_adc \in Int
      /\ width \in WidthRegs /\ fwhm \in Nat
  BY FromIs DEF Types, Histories, Registers, FinderRegs, Scale
<1>2. l \in Int  BY <1>1 DEF peak
<1>3. peak' \div 2 = l  OBVIOUS
<1>4. finder'.peak_val = FALSE  BY PeakValMoves
<1>5. width'.nzs = dly[1] - baseline /\ width'.bs = width.nzs  BY <1>1, WidthMoves
<1> HIDE DEF l
<1>6. CASE j <= Delay + 1
  <2>1. ASSUME NEW i \in 1 .. Delay, i + (j + 1) <= Delay PROVE dly'[i] = win[From + (j + 1) + i]
    <3>1. /\ i \in 1 .. Delay - 1 /\ i + 1 \in 1 .. Delay /\ (i + 1) + j <= Delay
          /\ From + j + (i + 1) = From + (j + 1) + i
      BY <1>1, <2>1
    <3>2. dly'[i] = dly[i + 1]  BY <1>1, <3>1, ShiftIndex
    <3> QED BY <3>1, <3>2 DEF WidthAt
  <2>2. j + 1 <= Delay => width'.nzs = win[From + (j + 1)] - baseline
    <3> SUFFICES ASSUME j + 1 <= Delay PROVE dly[1] = win[From + (j + 1)]  BY <1>5
    <3>1. 1 \in 1 .. Delay /\ 1 + j <= Delay /\ From + j + 1 = From + (j + 1)  BY <1>1
    <3> QED BY <3>1 DEF WidthAt
  <2>3. j + 1 \in 1 .. Delay + 1 => width'.bs = win[From + (j + 1) - 1] - baseline
    <3> SUFFICES ASSUME j + 1 \in 1 .. Delay + 1 PROVE width.nzs = win[From + (j + 1) - 1] - baseline
      BY <1>5
    <3>1. j <= Delay /\ From + (j + 1) - 1 = From + j  BY <1>1
    <3> QED BY <3>1 DEF WidthAt
  <2>4. Phase(width'.state, fwhm', win, baseline, l, From + (j + 1) - 2)
    <3>1. CASE j = 0
      <4>1. width'.state = "START_FWHM" /\ fwhm' = 0  BY <1>1, <3>1, WidthMoves DEF WidthAt
      <4>2. \A i \in From .. From + (j + 1) - 2 : FALSE  BY <1>1, <3>1
      <4> QED BY <4>1, <4>2 DEF Phase, Climbs
    <3>2. CASE j # 0
      <4> DEFINE m == From + j - 2
      <4>1. /\ m \in From - 1 .. Window - 1 /\ m + 1 = From + (j + 1) - 2 /\ m + 1 = From + j - 1
            /\ j \in 1 .. Delay + 1 /\ j >= 1
        BY <1>1, <1>6, <3>2
      <4>2. Phase(width.state, fwhm, win, baseline, l, m)  BY <4>1 DEF WidthAt, l
      <4>3. width.bs = win[m + 1] - baseline /\ finder.peak_val = FALSE  BY <4>1 DEF WidthAt
      <4> HIDE DEF m
      <4>4. /\ width.state = "IDLE" => width'.state = width.state /\ fwhm' = fwhm
            /\ width.state = "START_FWHM" =>
                 IF win[m + 1] - baseline >= l
                 THEN width'.state = "FOUND_PULSE" /\ fwhm' = Counted(fwhm)
                 ELSE width'.state = width.state /\ fwhm' = fwhm
            /\ width.state = "FOUND_PULSE" =>
                 IF win[m + 1] - baseline <= l
                 THEN width'.state = "IDLE" /\ fwhm' = fwhm
                 ELSE width'.state = width.state /\ fwhm' = Counted(fwhm)
        BY <1>1, <4>3, WidthMoves DEF l
      <4>5. Phase(width'.state, fwhm', win, baseline, l, m + 1)
        BY <1>1, <1>2, <4>1, <4>2, <4>4, PhaseNext
      <4> QED BY <4>1, <4>5
    <3> QED BY <3>1, <3>2
  <2>5. j + 1 = Delay + 2 =>
          Ended(width'.state, fwhm', win, baseline, l) \/ NoShape(win, baseline, l)
    <3> SUFFICES ASSUME j + 1 = Delay + 2
                 PROVE  Ended(width'.state, fwhm', win, baseline, l) \/ NoShape(win, baseline, l)
      OBVIOUS
    <3>1. From + (j + 1) - 2 = Window
      <4>1. From \in Nat /\ Delay \in Nat /\ From + Delay = Window  BY <1>1
      <4> QED BY <4>1
    <3>2. Phase(width'.state, fwhm', win, baseline, l, Window)  BY <2>4, <3>1
    <3> QED BY <1>1, <1>2, <3>2, PhaseLast
  <2>6. j + 1 # 0  OBVIOUS
  <2>7. WidthAt(j + 1)'
    BY <1>3, <1>4, <2>1, <2>2, <2>3, <2>4, <2>5, <2>6
       DEF WidthAt, From, Window, Phase, Ended, Climbs, Rides, Riding, Shape, NoShape
  <2> QED BY <1>6, <2>7
<1>7. CASE ~(j <= Delay + 1)
  <2>1. /\ j = Delay + 2 /\ j >= 1 /\ \A i \in 1 .. Delay : ~(i + j <= Delay)
        /\ ~(j <= Delay) /\ j \notin 1 .. Delay + 1 /\ j # 0
    BY <1>1, <1>7
  <2>2. finder.peak_val = FALSE  BY <2>1 DEF WidthAt
  <2>3. Ended(width.state, fwhm, win, baseline, l) \/ NoShape(win, baseline, l)
    BY <2>1 DEF WidthAt, l
  <2>4. width.state = "IDLE" => width'.state = "IDLE" /\ fwhm' = fwhm
    BY <1>1, <2>2, WidthMoves
  <2>5. Ended(width'.state, fwhm', win, baseline, l) \/ NoShape(win, baseline, l)
    BY <2>3, <2>4 DEF Ended
  <2>6. WidthAt(j)'
    BY <1>3, <1>4, <2>1, <2>5 DEF WidthAt, From, Window, Ended, Riding, Shape, NoShape
  <2> QED BY <1>7, <2>6
<1> QED BY <1>6, <1>7

LEMMA ChannelWidth ==
  ASSUME EventsInv, EventsInv', InStep, WidthInStep, WidthInv,
         NEW trig \in BOOLEAN, NEW d \in Samples, InChannel(trig, d)
  PROVE  WidthInv'
<1> DEFINE idle == AllIdle \/ (clean /\ gates.state = "TRIGGERED" /\ ~Opens(GateStart))
<1>1. /\ channel = "window" /\ channel' = "window"
      /\ GenGates(trig, GateStart) /\ History(trig, d, idle)
      /\ CalcBaseline(trig, d) /\ CalcIntegral(trig, d)
      /\ FindPeak(trig, d, integral_gate) /\ CalcFwhm(trig, finder.peak_val)
      /\ dly' = Append(Tail(dly), d)
      /\ fresh' = IF trig THEN width.state = "IDLE" /\ ~finder.peak_val ELSE fresh
  BY DEF InChannel, BeamStats
<1>2. /\ Types /\ Types' /\ GateRest /\ EventInv /\ d \in Int /\ idle \in BOOLEAN
      /\ integral_gate \in BOOLEAN /\ finder.peak_val \in BOOLEAN /\ GateStart \in Nat
      /\ Window \in Nat /\ Window > 2 /\ Window' = Window
      /\ win \in Seq(Int) /\ Len(win) \in Nat /\ Len(win) <= Window
      /\ fresh \in BOOLEAN /\ clean \in BOOLEAN
  BY <1>1, WindowsAre, Constants
     DEF EventsInv, Types, Histories, Registers, FinderRegs, Window
<1> HIDE DEF idle
<1>3. SUFFICES /\ \A n \in Nat : n = Len(win') /\ n < Window => DelayedAt(n)'
               /\ clean' /\ fresh' /\ Len(win') < Window =>
                    width'.state = "IDLE" /\ finder'.peak_val = FALSE
               /\ clean' /\ fresh' /\ Len(win') = Window => \E j \in 0 .. Delay + 2 : WidthAt(j)'
  BY <1>2 DEF WidthInv
<1>4. /\ trig => clean' = idle /\ Len(win') = 0
      /\ ~trig => clean' = clean
      /\ ~trig /\ clean /\ Begun /\ Len(win) < Window =>
           win' = Append(win, d) /\ Len(win') = Len(win) + 1
      /\ ~trig /\ clean /\ Begun /\ Len(win) = Window => win' = win
      /\ ~trig /\ clean /\ ~Begun => win' = << >> /\ Len(win') = 0
  BY <1>1, <1>2, WinCases
<1>5. ASSUME Len(win') = 0, NEW n \in Nat, n = Len(win') PROVE DelayedAt(n)'
  <2>1. \A i \in 1 .. Delay : ~(Delay - i < n)  BY <1>5, Constants
  <2> QED BY <2>1 DEF DelayedAt
<1>6. CASE trig
  <2>1. width'.state = width.state /\ finder'.peak_val = finder.peak_val
    BY <1>1, <1>2, <1>6, WidthMoves, PeakValMoves
  <2>2. Len(win') = 0 /\ Len(win') # Window  BY <1>2, <1>4, <1>6
  <2>3. fresh' => width.state = "IDLE" /\ finder.peak_val = FALSE  BY <1>1, <1>2, <1>6
  <2> QED BY <1>5, <2>1, <2>2, <2>3
<1>7. CASE ~trig /\ ~clean
  <2>1. win' = << >> /\ clean' = clean  BY <1>1, <1>7 DEF History
  <2>2. Len(win') = 0  BY <2>1
  <2> QED BY <1>5, <1>7, <2>1, <2>2
<1>8. CASE ~trig /\ clean /\ ~Begun
  <2>1. Len(win) = 0 /\ Len(win') = 0 /\ Len(win') # Window  BY <1>2, <1>4, <1>8 DEF Begun
  <2>2. Quiet  BY <1>2, <1>8 DEF EventInv
  <2>3. fresh' => width.state = "IDLE" /\ finder.peak_val = FALSE
    BY <1>1, <1>2, <1>8, <2>1 DEF WidthInv
  <2>4. finder'.peak_val = FALSE  BY <1>1, <1>2, <1>8, <2>2, PeakValMoves DEF Quiet
  <2>5. fresh' => width'.state = "IDLE"  BY <1>1, <1>2, <1>8, <2>3, WidthMoves
  <2> QED BY <1>5, <2>1, <2>4, <2>5
<1>9. CASE ~trig /\ clean /\ Begun /\ Len(win) < Window
  <2>1. PICK n \in 0 .. Window : At(n)  BY <1>2, <1>9 DEF EventInv
  <2>2. /\ n \in Nat /\ n = Len(win) /\ n < Window /\ DelayedAt(n) /\ win' = Append(win, d)
        /\ Len(win') = n + 1 /\ n + 1 \in Nat
    BY <1>1, <1>2, <1>4, <1>9, <2>1 DEF At, WidthInv
  <2>3. \A m \in Nat : m = Len(win') => DelayedAt(m)'  BY <1>1, <1>2, <2>2, DelayedStep
  <2>4. fresh' => fresh /\ width.state = "IDLE" /\ finder.peak_val = FALSE
    BY <1>1, <1>9 DEF WidthInv
  <2>5. CASE n + 1 < Window
    <3>1. finder.state = "GATE_ACTIVE" => integral_gate = TRUE
      <4>1. finder.state = "GATE_ACTIVE" => n \in BaselineLen + 3 .. BaselineLen + IntegralLen + 2
        BY <1>1, <2>1 DEF At, FinderAt
      <4>2. n \in BaselineLen + 3 .. BaselineLen + IntegralLen + 2 =>
              n \in BaselineLen + 2 .. BaselineLen + IntegralLen + 1
        BY <2>2, <2>5, Constants DEF Window
      <4> QED BY <1>2, <2>1, <4>1, <4>2 DEF At, GatesAt
    <3>2. finder.state \in {"IDLE", "GATE_ACTIVE"}  BY <1>2 DEF Types, Registers, FinderRegs
    <3>3. fresh' => finder'.peak_val = FALSE
      <4>1. CASE finder.state = "IDLE"  BY <1>1, <1>2, <1>9, <4>1, PeakValMoves
      <4>2. CASE finder.state = "GATE_ACTIVE"
        <5>1. finder'.peak_val = (finder.peak_val \/ ~integral_gate)
          BY <1>1, <1>2, <1>9, <4>2, PeakValMoves
        <5> QED BY <2>4, <3>1, <4>2, <5>1
      <4> QED BY <3>2, <4>1, <4>2
    <3>4. fresh' => width'.state = "IDLE"  BY <1>1, <1>2, <1>9, <2>4, WidthMoves
    <3> QED BY <1>2, <2>2, <2>3, <2>5, <3>3, <3>4
  <2>6. CASE n + 1 = Window
    <3>1. n = Window - 1  BY <1>2, <2>2, <2>6
    <3>2. fresh' => WidthAt(0)'  BY <1>1, <1>2, <1>9, <2>1, <2>2, <2>4, <3>1, WidthBegins
    <3>3. 0 \in 0 .. Delay + 2 /\ Len(win') = Window /\ ~(Len(win') < Window)
      BY <1>2, <2>2, <2>6, Constants
    <3> QED BY <3>2, <3>3
  <2> QED BY <1>2, <2>2, <2>5, <2>6
<1>10. CASE ~trig /\ clean /\ Begun /\ Len(win) = Window
  <2>1. win' = win /\ clean' = clean /\ fresh' = fresh /\ ~(Len(win') < Window)
    BY <1>1, <1>2, <1>4, <1>10
  <2>2. Measured /\ Measured'  BY <1>2, <1>10, <2>1 DEF Measured
  <2>3. baseline' = baseline /\ peak' = peak
    BY <1>1, <1>2, <1>10, <2>2, StandsStill
  <2>4. finder.state = "IDLE"  BY <2>2, FinderRests
  <2>5. ASSUME fresh' PROVE \E j \in 0 .. Delay + 2 : WidthAt(j)'
    <3>1. PICK j \in 0 .. Delay + 2 : WidthAt(j)  BY <1>1, <1>10, <2>1, <2>5 DEF WidthInv
    <3>2. WidthAt(IF j <= Delay + 1 THEN j + 1 ELSE j)'
      BY <1>1, <1>2, <1>10, <2>1, <2>3, <2>4, <3>1, WidthGoesOn
    <3>3. (IF j <= Delay + 1 THEN j + 1 ELSE j) \in 0 .. Delay + 2  BY Constants
    <3> QED BY <3>2, <3>3
  <2> QED BY <2>1, <2>5
<1>11. Len(win) < Window \/ Len(win) = Window  BY <1>2
<1> QED BY <1>6, <1>7, <1>8, <1>9, <1>10, <1>11

LEMMA NextWidth ==
  ASSUME InStep, WidthInStep
  PROVE  EventsInv /\ WidthInv /\ [Next]_vars => (EventsInv /\ WidthInv)'
<1> SUFFICES ASSUME EventsInv, WidthInv, [Next]_vars PROVE EventsInv' /\ WidthInv'  OBVIOUS
<1>1. EventsInv'  BY NextEvents
<1>2. CASE UNCHANGED vars
  BY <1>1, <1>2 DEF WidthInv, WidthAt, DelayedAt, Window, From, peak, Phase, Ended, Climbs, Rides,
                    Riding, Shape, NoShape, vars, pulseVars, gateVars, statVars, oowVars
<1>3. CASE Next
  <2>1. PICK trig \in BOOLEAN, d \in Samples : InChannel(trig, d) \/ FindBeamOow(trig, d)
    BY <1>3 DEF Next
  <2>2. CASE InChannel(trig, d)  BY <1>1, <2>2, ChannelWidth
  <2>3. CASE FindBeamOow(trig, d)
    <3>1. channel' = "outside"  BY <2>3 DEF FindBeamOow
    <3> QED BY <1>1, <3>1 DEF WidthInv
  <2> QED BY <2>1, <2>2, <2>3
<1> QED BY <1>2, <1>3

\* The width is the number of samples from the first at half of the peak to the
\* next at or below it (calc_fwhm.vhd, adc_shift_ram.vhd), in the samples of the
\* event and above its baseline: the delay makes up for the clocks in which the
\* peak was not known, and the results of the others stand still meanwhile.
THEOREM WidthMeasured == ASSUME InStep, WidthInStep PROVE Spec => []FwhmRight
<1>1. Init => EventsInv /\ WidthInv  BY InitTypes, InitEvent, InitWidth DEF EventsInv
<1>2. EventsInv /\ WidthInv => FwhmRight
  <2> DEFINE l == peak \div 2
  <2> SUFFICES ASSUME EventsInv, WidthInv, Measured, channel = "window", fresh,
                      ~finder.peak_val, width.state = "IDLE",
                      NEW rise \in From .. Window, NEW fall \in From .. Window,
                      rise < fall,
                      \A i \in From .. rise - 1 : win[i] - baseline < l,
                      win[rise] - baseline >= l,
                      \A i \in rise + 1 .. fall - 1 : win[i] - baseline > l,
                      win[fall] - baseline <= l
               PROVE  fwhm = fall - rise
    BY DEF FwhmRight, From
  <2>1. PICK j \in 0 .. Delay + 2 : WidthAt(j)  BY DEF WidthInv, Measured
  <2>2. Shape(win, baseline, l, rise, fall)  BY DEF Shape, Riding
  <2>3. /\ win \in Seq(Int) /\ Len(win) = Window /\ baseline \in Int /\ finder.max_adc \in Int
        /\ Delay \in Nat
    BY Constants DEF EventsInv, Types, Registers, Histories, FinderRegs, Scale, Measured
  <2>4. l \in Int  BY <2>3 DEF peak
  <2> HIDE DEF l
  <2>5. j # 0  BY <2>1 DEF WidthAt
  <2>6. Ended(width.state, fwhm, win, baseline, l)
    <3>1. CASE j = Delay + 2
      <4>1. ~NoShape(win, baseline, l)  BY <2>2 DEF NoShape
      <4> QED BY <2>1, <3>1, <4>1 DEF WidthAt, l
    <3>2. CASE j # Delay + 2
      <4>1. j \in 1 .. Delay + 1  BY <2>3, <2>5, <3>2
      <4>2. Phase(width.state, fwhm, win, baseline, l, From + j - 2)
        BY <2>1, <4>1 DEF WidthAt, l
      <4> QED BY <4>2 DEF Phase, Climbs, Rides
    <3> QED BY <3>1, <3>2
  <2>7. PICK r \in From .. Window, f \in From .. Window :
          Shape(win, baseline, l, r, f) /\ fwhm = f - r
    BY <2>6 DEF Ended
  <2>8. f - r = fall - rise  BY <2>2, <2>3, <2>4, <2>7, ShapeUnique
  <2> QED BY <2>7, <2>8
<1> QED BY <1>1, <1>2, NextWidth, PTL DEF Spec

-----------------------------------------------------------------------------
(* Sums.  SumFunctionOnSet takes the elements of a set in any order, one    *)
(* after the other; that it is their sum is shown by the least number of   *)
(* elements for which it would not be.                                     *)

LEMMA LeastNumber == ASSUME NEW T \in SUBSET Nat, T # {} PROVE \E m \in T : \A k \in T : m <= k
<1>. DEFINE Less == {ss \in Nat \X Nat : ss[1] < ss[2]}
<1>1. IsWellFoundedOn(Less, Nat)  BY NatLessThanWellFounded DEF OpToRel
<1>2. \A k, m \in Nat : k < m => <<k, m>> \in Less
  OBVIOUS
<1>. HIDE DEF Less
<1>3. PICK m \in T : \A k \in T : ~ (<<k, m>> \in Less)
  BY <1>1, WFMin
<1>4. \A k \in T : m <= k
  <2> SUFFICES ASSUME NEW k \in T, ~(m <= k) PROVE FALSE  OBVIOUS
  <2>1. k \in Nat /\ m \in Nat  OBVIOUS
  <2>2. k < m  BY <2>1
  <2>3. <<k, m>> \in Less  BY <1>2, <2>1, <2>2
  <2> QED BY <1>3, <2>3
<1> QED BY <1>4

Some(s) == CHOOSE x \in s : TRUE

\* An operator of its own, since the provers do not see into terms that stand for
\* sets when they are an operator's arguments.
Subsets(S) == SUBSET S

\* g gives the sum of f over each of the sets in D.
IsSum(f, D, g) == g = [s \in D |-> IF s = {} THEN 0 ELSE f[Some(s)] + g[s \ {Some(s)}]]

\* The subsets of S of at most n elements.
UpTo(S, n) == {s \in SUBSET S : Cardinality(s) <= n}

LEMMA SomeIn == ASSUME NEW s, s # {} PROVE Some(s) \in s
BY DEF Some

LEMMA SumIs == ASSUME NEW f, NEW S
               PROVE SumFunctionOnSet(f, S) = (CHOOSE g : IsSum(f, Subsets(S), g))[S]
BY DEF SumFunctionOnSet, FoldFunctionOnSet, MapThenFoldSet, IsSum, Some, Subsets

LEMMA Smaller ==
  ASSUME NEW S, IsFiniteSet(S), NEW s \in SUBSET S, s # {}
  PROVE  /\ s \ {Some(s)} \in SUBSET S
         /\ Cardinality(s) \in Nat /\ Cardinality(s \ {Some(s)}) = Cardinality(s) - 1
         /\ Cardinality(s) >= 1
<1>1. IsFiniteSet(s)  BY FS_Subset
<1>2. Cardinality(s) \in Nat  BY <1>1, FS_CardinalityType
<1>3. Some(s) \in s  BY SomeIn
<1>4. Cardinality(s \ {Some(s)}) = Cardinality(s) - 1  BY <1>1, <1>3, FS_RemoveElement
<1>5. Cardinality(s) # 0  BY <1>1, FS_EmptySet
<1> QED BY <1>2, <1>4, <1>5

LEMMA SumGrows ==
  ASSUME NEW S, IsFiniteSet(S), NEW f, NEW n \in Nat, NEW g, IsSum(f, UpTo(S, n), g)
  PROVE  \E h : IsSum(f, UpTo(S, n + 1), h)
<1> DEFINE h == [s \in UpTo(S, n + 1) |-> IF s = {} THEN 0 ELSE f[Some(s)] + g[s \ {Some(s)}]]
<1>1. ASSUME NEW s \in UpTo(S, n) PROVE h[s] = g[s]
  <2>1. s \in UpTo(S, n + 1)
    <3>1. IsFiniteSet(s)  BY <1>1, FS_Subset DEF UpTo
    <3> QED BY <1>1, <3>1, FS_CardinalityType DEF UpTo
  <2>2. g[s] = IF s = {} THEN 0 ELSE f[Some(s)] + g[s \ {Some(s)}]
    BY <1>1 DEF IsSum
  <2> QED BY <2>1, <2>2
<1>2. ASSUME NEW s \in UpTo(S, n + 1), s # {} PROVE s \ {Some(s)} \in UpTo(S, n)
  BY <1>2, Smaller DEF UpTo
<1>3. ASSUME NEW s \in UpTo(S, n + 1), s # {} PROVE g[s \ {Some(s)}] = h[s \ {Some(s)}]
  BY <1>1, <1>2, <1>3
<1>4. h = [s \in UpTo(S, n + 1) |-> IF s = {} THEN 0 ELSE f[Some(s)] + h[s \ {Some(s)}]]
  <2> HIDE DEF h
  <2>1. h = [s \in UpTo(S, n + 1) |-> IF s = {} THEN 0 ELSE f[Some(s)] + g[s \ {Some(s)}]]
    BY DEF h
  <2> QED BY <2>1, <1>3
<1> HIDE DEF h
<1> QED BY <1>4 DEF IsSum

LEMMA SumExists == ASSUME NEW S, IsFiniteSet(S), NEW f PROVE \E g : IsSum(f, Subsets(S), g)
<1> DEFINE Bad == {n \in Nat : ~ \E g : IsSum(f, UpTo(S, n), g)}
<1>1. Bad = {}
  <2> SUFFICES ASSUME Bad # {} PROVE FALSE  OBVIOUS
  <2>1. PICK m \in Bad : \A k \in Bad : m <= k  BY LeastNumber
  <2>2. CASE m = 0
    <3>1. UpTo(S, 0) = {{}}
      <4>1. ASSUME NEW s \in SUBSET S, Cardinality(s) <= 0 PROVE s = {}
        <5>1. IsFiniteSet(s)  BY FS_Subset
        <5>2. Cardinality(s) \in Nat  BY <5>1, FS_CardinalityType
        <5> QED BY <4>1, <5>1, <5>2, FS_EmptySet
      <4>2. Cardinality({}) = 0  BY FS_EmptySet
      <4>3. {} \in UpTo(S, 0)  BY <4>2 DEF UpTo
      <4>4. \A s \in UpTo(S, 0) : s = {}  BY <4>1 DEF UpTo
      <4> QED BY <4>3, <4>4
    <3>2. IsSum(f, UpTo(S, 0), [s \in {{}} |-> 0])  BY <3>1 DEF IsSum
    <3> QED BY <2>2, <3>2
  <2>3. CASE m # 0
    <3>1. m - 1 \in Nat /\ m - 1 \notin Bad  BY <2>1, <2>3
    <3>2. PICK g : IsSum(f, UpTo(S, m - 1), g)  BY <3>1
    <3>3. \E h : IsSum(f, UpTo(S, (m - 1) + 1), h)  BY <3>1, <3>2, SumGrows
    <3>4. (m - 1) + 1 = m  BY <2>1
    <3> QED BY <3>3, <3>4
  <2> QED BY <2>2, <2>3
<1>2. Cardinality(S) \in Nat  BY FS_CardinalityType
<1>3. UpTo(S, Cardinality(S)) = Subsets(S)  BY FS_Subset DEF UpTo, Subsets
<1>4. Cardinality(S) \notin Bad  BY <1>1
<1> QED BY <1>2, <1>3, <1>4

Agree(f, h, T) == \A x \in T : f[x] = h[x]

\* Two such functions agree where both have a value, if what is summed does.
LEMMA SumAgree ==
  ASSUME NEW S, IsFiniteSet(S), NEW T \in SUBSET S, NEW f, NEW h, Agree(f, h, T),
         NEW g, IsSum(f, Subsets(S), g), NEW k, IsSum(h, Subsets(T), k)
  PROVE  g[T] = k[T]
<1> DEFINE Bad == {n \in Nat : \E s \in SUBSET T : Cardinality(s) = n /\ g[s] # k[s]}
<1>1. Bad = {}
  <2> SUFFICES ASSUME Bad # {} PROVE FALSE  OBVIOUS
  <2>1. PICK m \in Bad : \A i \in Bad : m <= i  BY LeastNumber
  <2>2. PICK s \in SUBSET T : Cardinality(s) = m /\ g[s] # k[s]  BY <2>1
  <2> DEFINE r == s \ {Some(s)}
  <2>3. g[s] = IF s = {} THEN 0 ELSE f[Some(s)] + g[r]  BY DEF IsSum, Subsets
  <2>4. k[s] = IF s = {} THEN 0 ELSE h[Some(s)] + k[r]  BY DEF IsSum, Subsets
  <2>5. s # {}  BY <2>2, <2>3, <2>4
  <2>6. Some(s) \in T  BY <2>5, SomeIn
  <2>7. r \in SUBSET T /\ Cardinality(r) \in Nat /\ Cardinality(r) < m
    BY <2>1, <2>2, <2>5, Smaller
  <2>8. g[r] = k[r]  BY <2>1, <2>7
  <2> QED BY <2>2, <2>3, <2>4, <2>5, <2>6, <2>8 DEF Agree
<1>2. IsFiniteSet(T)  BY FS_Subset
<1>3. Cardinality(T) \in Nat  BY <1>2, FS_CardinalityType
<1> QED BY <1>1, <1>3

LEMMA SumSame ==
  ASSUME NEW S, IsFiniteSet(S), NEW f, NEW h, \A x \in S : f[x] = h[x]
  PROVE  SumFunctionOnSet(f, S) = SumFunctionOnSet(h, S)
<1> DEFINE g == CHOOSE v : IsSum(f, Subsets(S), v)
           k == CHOOSE v : IsSum(h, Subsets(S), v)
<1>1. IsSum(f, Subsets(S), g) /\ IsSum(h, Subsets(S), k)  BY SumExists
<1>2. SumFunctionOnSet(f, S) = g[S] /\ SumFunctionOnSet(h, S) = k[S]  BY SumIs
<1> HIDE DEF g, k
<1>3. S \in SUBSET S /\ Agree(f, h, S)  BY DEF Agree
<1>4. g[S] = k[S]  BY <1>1, <1>3, SumAgree
<1> QED BY <1>2, <1>4

LEMMA SumEmpty == ASSUME NEW f PROVE SumFunctionOnSet(f, {}) = 0
<1> DEFINE g == CHOOSE v : IsSum(f, Subsets({}), v)
<1>1. IsSum(f, Subsets({}), g)  BY SumExists, FS_EmptySet
<1>2. SumFunctionOnSet(f, {}) = g[{}]  BY SumIs
<1> HIDE DEF g
<1> QED BY <1>1, <1>2 DEF IsSum, Subsets

LEMMA SumStep ==
  ASSUME NEW S, IsFiniteSet(S), S # {}, NEW f, NEW r, r = S \ {Some(S)}
  PROVE  SumFunctionOnSet(f, S) = f[Some(S)] + SumFunctionOnSet(f, r)
<1> DEFINE g == CHOOSE v : IsSum(f, Subsets(S), v)
           k == CHOOSE v : IsSum(f, Subsets(r), v)
<1>1. IsFiniteSet(r)  BY FS_Subset
<1>2. IsSum(f, Subsets(S), g) /\ IsSum(f, Subsets(r), k)  BY <1>1, SumExists
<1>3. SumFunctionOnSet(f, S) = g[S] /\ SumFunctionOnSet(f, r) = k[r]  BY SumIs
<1> HIDE DEF g, k
<1>4. r \in SUBSET S /\ Agree(f, f, r)  BY DEF Agree
<1>5. g[r] = k[r]  BY <1>2, <1>4, SumAgree
<1>6. g[S] = f[Some(S)] + g[r]  BY <1>2 DEF IsSum, Subsets
<1> QED BY <1>3, <1>5, <1>6

LEMMA SumInt ==
  ASSUME NEW S, IsFiniteSet(S), NEW f, \A x \in S : f[x] \in Int
  PROVE  SumFunctionOnSet(f, S) \in Int
<1> DEFINE Bad == {n \in Nat : \E T \in SUBSET S : Cardinality(T) = n /\ SumFunctionOnSet(f, T) \notin Int}
<1>1. Bad = {}
  <2> SUFFICES ASSUME Bad # {} PROVE FALSE  OBVIOUS
  <2>1. PICK m \in Bad : \A i \in Bad : m <= i  BY LeastNumber
  <2>2. PICK T \in SUBSET S : Cardinality(T) = m /\ SumFunctionOnSet(f, T) \notin Int  BY <2>1
  <2>3. T # {}  BY <2>2, SumEmpty
  <2>4. PICK r \in SUBSET S : r = T \ {Some(T)}  OBVIOUS
  <2>5. Cardinality(r) \in Nat /\ Cardinality(r) < m  BY <2>1, <2>2, <2>3, <2>4, Smaller
  <2>6. SumFunctionOnSet(f, r) \in Int  BY <2>1, <2>5
  <2>7. IsFiniteSet(T)  BY FS_Subset
  <2>8. SumFunctionOnSet(f, T) = f[Some(T)] + SumFunctionOnSet(f, r)
    BY <2>3, <2>4, <2>7, SumStep
  <2>9. f[Some(T)] \in Int  BY <2>3, SomeIn
  <2> QED BY <2>2, <2>6, <2>8, <2>9
<1>2. Cardinality(S) \in Nat  BY FS_CardinalityType
<1> QED BY <1>1, <1>2

\* Any element may be taken first.
LEMMA SumTake ==
  ASSUME NEW S, IsFiniteSet(S), NEW f, \A x \in S : f[x] \in Int,
         NEW x \in S, NEW r, r = S \ {x}
  PROVE  SumFunctionOnSet(f, S) = f[x] + SumFunctionOnSet(f, r)
<1> DEFINE Differs(T, y, q) == q = T \ {y} /\ SumFunctionOnSet(f, T) # f[y] + SumFunctionOnSet(f, q)
           Bad == {n \in Nat : \E T, q \in SUBSET S : \E y \in T : Cardinality(T) = n /\ Differs(T, y, q)}
<1>1. Bad = {}
  <2> SUFFICES ASSUME Bad # {} PROVE FALSE  OBVIOUS
  <2>1. PICK m \in Bad : \A i \in Bad : m <= i  BY LeastNumber
  <2>2. PICK T \in SUBSET S, q \in SUBSET S, y \in S :
          y \in T /\ Cardinality(T) = m /\ Differs(T, y, q)
    BY <2>1
  <2>3. PICK c : c = Some(T)  OBVIOUS
  <2>4. c \in T
    <3>1. T # {}  BY <2>2
    <3> QED BY <2>3, <3>1, SomeIn
  <2>5. PICK p \in SUBSET S : p = T \ {c}  OBVIOUS
  <2>6. PICK o \in SUBSET S : o = p \ {y}  OBVIOUS
  <2>7. IsFiniteSet(T) /\ IsFiniteSet(p) /\ IsFiniteSet(q) /\ IsFiniteSet(o)
    <3>1. \A t \in SUBSET S : IsFiniteSet(t)  BY FS_Subset
    <3> QED BY <3>1
  <2>8. SumFunctionOnSet(f, T) = f[c] + SumFunctionOnSet(f, p)
    BY <2>2, <2>3, <2>5, <2>7, SumStep
  <2>9. c # y  BY <2>2, <2>5, <2>8
  <2>10. Cardinality(p) = m - 1 /\ Cardinality(q) = m - 1 /\ m - 1 \in Nat /\ m - 1 < m
    <3>1. Cardinality(p) = m - 1 /\ Cardinality(q) = m - 1
      BY <2>2, <2>4, <2>5, <2>7, FS_RemoveElement
    <3>2. Cardinality(p) \in Nat /\ m \in Nat  BY <2>1, <2>7, FS_CardinalityType
    <3> QED BY <3>1, <3>2
  <2>11. SumFunctionOnSet(f, p) = f[y] + SumFunctionOnSet(f, o)
    <3>1. y \in p  BY <2>2, <2>5, <2>9
    <3>2. ~ Differs(p, y, o)  BY <2>1, <2>10, <3>1
    <3> QED BY <2>6, <3>2
  <2>12. SumFunctionOnSet(f, q) = f[c] + SumFunctionOnSet(f, o)
    <3>1. c \in q /\ o = q \ {c}  BY <2>2, <2>4, <2>5, <2>6, <2>9
    <3>2. ~ Differs(q, c, o)  BY <2>1, <2>10, <3>1
    <3> QED BY <3>1, <3>2
  <2>13. f[c] \in Int /\ f[y] \in Int /\ SumFunctionOnSet(f, o) \in Int
    BY <2>2, <2>4, <2>7, SumInt
  <2> QED BY <2>2, <2>8, <2>11, <2>12, <2>13
<1>2. Cardinality(S) \in Nat  BY FS_CardinalityType
<1>3. ~ Differs(S, x, r)  BY <1>1, <1>2
<1> QED BY <1>3

LEMMA SumMore ==
  ASSUME NEW S, IsFiniteSet(S), NEW f, \A x \in S : f[x] \in Int,
         NEW x \in S, NEW r, r = S \ {x}
  PROVE  SumFunctionOnSet(f, S) = SumFunctionOnSet(f, r) + f[x]
<1>1. IsFiniteSet(r) /\ \A y \in r : f[y] \in Int  BY FS_Subset
<1>2. SumFunctionOnSet(f, S) = f[x] + SumFunctionOnSet(f, r)  BY SumTake
<1>3. f[x] \in Int /\ SumFunctionOnSet(f, r) \in Int  BY <1>1, SumInt
<1> QED BY <1>2, <1>3
-----------------------------------------------------------------------------
(* The baseline and the charge.                                            *)

\* The baseline is in its register just before the second sample of the charge.
BaselineInStep == BaselineLen = BaselineAcc + 1

\* The sum of the samples in the first gate up to the k-th and what becomes of
\* all of it, and of what those in the second gate add, measured against c.
BaseTo(s, k)      == SumFunctionOnSet(s, 2 .. k)
Average(s)        == Signed(BaseTo(s, BaselineAcc + 1)) \div BaselineDiv
Offset(s, c, i)   == IF i = BaselineLen + 2 THEN s[i] ELSE s[i] - c
Added(s, c, i)    == AboveZero(Offset(s, c, i))
Charges(s, c)     == [i \in IntegralWindow |-> Added(s, c, i)]
ChargeTo(s, c, k) == SumFunctionOnSet(Charges(s, c), BaselineLen + 2 .. k)

LEMMA BaseToEmpty == ASSUME NEW s, NEW k \in Int, k <= 1 PROVE BaseTo(s, k) = 0
<1>1. 2 .. k = {}  OBVIOUS
<1> QED BY <1>1, SumEmpty DEF BaseTo

LEMMA BaseToInt ==
  ASSUME NEW s \in Seq(Int), NEW k \in Int, k <= Len(s) PROVE BaseTo(s, k) \in Int
<1>1. IsFiniteSet(2 .. k)  BY FS_Interval
<1>2. \A i \in 2 .. k : s[i] \in Int  OBVIOUS
<1> QED BY <1>1, <1>2, SumInt DEF BaseTo

LEMMA BaseToSame ==
  ASSUME NEW s \in Seq(Int), NEW d \in Int, NEW t, t = Append(s, d), NEW k \in Int, k <= Len(s)
  PROVE  BaseTo(t, k) = BaseTo(s, k)
<1>1. IsFiniteSet(2 .. k)  BY FS_Interval
<1>2. \A i \in 2 .. k : t[i] = s[i]
  <2> SUFFICES ASSUME NEW i \in 2 .. k PROVE t[i] = s[i]  OBVIOUS
  <2>1. i \in 1 .. Len(s)  OBVIOUS
  <2> QED BY <2>1, AppendType
<1> QED BY <1>1, <1>2, SumSame DEF BaseTo

LEMMA BaseToNext ==
  ASSUME NEW s \in Seq(Int), NEW d \in Int, NEW t, t = Append(s, d), Len(s) >= 1
  PROVE  BaseTo(t, Len(s) + 1) = BaseTo(s, Len(s)) + d
<1>1. PICK n \in Nat, m \in Nat : n = Len(s) /\ m = n + 1  OBVIOUS
<1>2. t \in Seq(Int) /\ Len(t) = m /\ t[m] = d  BY <1>1, AppendType
<1>3. PICK S, r : S = 2 .. m /\ r = 2 .. n  OBVIOUS
<1>4. SumFunctionOnSet(t, S) = SumFunctionOnSet(t, r) + t[m]
  <2>1. IsFiniteSet(S)  BY <1>3, FS_Interval
  <2>2. m \in S /\ r = S \ {m}  BY <1>1, <1>3
  <2>3. \A i \in S : t[i] \in Int  BY <1>2, <1>3
  <2> QED BY <2>1, <2>2, <2>3, SumMore
<1>5. BaseTo(t, m) = SumFunctionOnSet(t, S) /\ BaseTo(t, n) = SumFunctionOnSet(t, r)
  BY <1>3 DEF BaseTo
<1>6. n \in Int /\ n <= Len(s)  BY <1>1
<1>7. BaseTo(t, n) = BaseTo(s, n)  BY <1>6, BaseToSame
<1> QED BY <1>1, <1>2, <1>4, <1>5, <1>7
\* The remainder is not changed by what was taken away to get another one.
LEMMA RemainderSum ==
  ASSUME NEW h \in Nat, h > 0, NEW x \in Int, NEW b \in Int
  PROVE  ((x % h) + b) % h = (x + b) % h
<1>1. PICK q \in Int : x = h * q + (x % h) /\ x % h \in Int
  <2>1. x \div h \in Int /\ x = h * (x \div h) + (x % h) /\ x % h \in Int  OBVIOUS
  <2> QED BY <2>1
<1>2. PICK y \in Int, w \in Int : y = (x % h) + b /\ w = x + b  BY <1>1
<1>3. w = y + h * q  BY <1>1, <1>2
<1>4. PICK p \in Int : y = h * p + (y % h) /\ y % h \in 0 .. h - 1
  <2>1. y \div h \in Int /\ y = h * (y \div h) + (y % h) /\ y % h \in 0 .. h - 1  OBVIOUS
  <2> QED BY <2>1
<1>5. PICK o \in Int : w = h * o + (w % h) /\ w % h \in 0 .. h - 1
  <2>1. w \div h \in Int /\ w = h * (w \div h) + (w % h) /\ w % h \in 0 .. h - 1  OBVIOUS
  <2> QED BY <2>1
<1>6. PICK z \in Int, e \in Int : z = p + q - o /\ e = (w % h) - (y % h)  BY <1>4, <1>5
<1>7. e = h * z /\ -h < e /\ e < h
  <2>1. h * z = h * p + h * q - h * o  BY <1>6
  <2> QED BY <1>3, <1>4, <1>5, <1>6, <2>1
<1>8. z = 0
  <2>1. z >= 1 => h * z >= h  OBVIOUS
  <2>2. z <= -1 => h * z <= -h  OBVIOUS
  <2> QED BY <1>7, <2>1, <2>2
<1> QED BY <1>2, <1>4, <1>5, <1>6, <1>7, <1>8

LEMMA SignedZero == Signed(0) = 0
<1>1. HalfScale % (2 * HalfScale) = HalfScale  BY Constants
<1> QED BY <1>1, Constants DEF Signed

\* Wrapping a part of a sum changes nothing of the sum, wrapped.
LEMMA SignedSum ==
  ASSUME NEW a \in Int, NEW b \in Int PROVE Signed(Signed(a) + b) = Signed(a + b)
<1>1. PICK h \in Nat : h = 2 * HalfScale /\ h > 0  BY Constants
<1>2. PICK x \in Int : x = a + HalfScale  BY Constants
<1>3. Signed(a) + b + HalfScale = (x % h) + b  BY <1>1, <1>2, Constants DEF Signed
<1>4. ((x % h) + b) % h = (x + b) % h  BY <1>1, <1>2, RemainderSum
<1>5. x + b = a + b + HalfScale  BY <1>2, Constants
<1> QED BY <1>1, <1>3, <1>4, <1>5 DEF Signed

LEMMA AverageSame ==
  ASSUME NEW s \in Seq(Int), NEW d \in Int, NEW t, t = Append(s, d), BaselineAcc + 1 <= Len(s)
  PROVE  Average(t) = Average(s)
<1>1. PICK k \in Int : k = BaselineAcc + 1  BY Constants
<1>2. BaseTo(t, k) = BaseTo(s, k)  BY <1>1, BaseToSame
<1> QED BY <1>1, <1>2 DEF Average

LEMMA AddedNat ==
  ASSUME NEW s \in Seq(Int), NEW c \in Int, NEW i \in 1 .. Len(s)
  PROVE  Offset(s, c, i) \in Int /\ Added(s, c, i) \in Nat
<1>1. Offset(s, c, i) \in Int  BY DEF Offset
<1> QED BY <1>1 DEF Added, AboveZero

LEMMA ChargeToEmpty ==
  ASSUME NEW s, NEW c, NEW k \in Int, k <= BaselineLen + 1 PROVE ChargeTo(s, c, k) = 0
<1>1. BaselineLen + 2 .. k = {}  BY Constants
<1> QED BY <1>1, SumEmpty DEF ChargeTo

LEMMA ChargeToSame ==
  ASSUME NEW s, NEW t, NEW c, NEW k \in Int, k <= BaselineLen + IntegralAcc + 1,
         \A i \in BaselineLen + 2 .. k : t[i] = s[i]
  PROVE  ChargeTo(t, c, k) = ChargeTo(s, c, k)
<1> DEFINE f == Charges(s, c)
           h == Charges(t, c)
<1>1. IsFiniteSet(BaselineLen + 2 .. k)  BY FS_Interval, Constants
<1>2. \A i \in BaselineLen + 2 .. k : h[i] = f[i]
  <2> SUFFICES ASSUME NEW i \in BaselineLen + 2 .. k PROVE h[i] = f[i]  OBVIOUS
  <2>1. i \in IntegralWindow  BY Constants DEF IntegralWindow
  <2>2. Added(t, c, i) = Added(s, c, i)  BY DEF Added, Offset
  <2> QED BY <2>1, <2>2 DEF Charges
<1> HIDE DEF f, h
<1>3. SumFunctionOnSet(h, BaselineLen + 2 .. k) = SumFunctionOnSet(f, BaselineLen + 2 .. k)
  BY <1>1, <1>2, SumSame
<1> QED BY <1>3 DEF ChargeTo, f, h

LEMMA ChargeToNext ==
  ASSUME NEW s \in Seq(Int), NEW c \in Int,
         NEW k \in BaselineLen + 2 .. BaselineLen + IntegralAcc + 1, k <= Len(s)
  PROVE  ChargeTo(s, c, k) = ChargeTo(s, c, k - 1) + Added(s, c, k)
<1>1. PICK f : f = Charges(s, c)  OBVIOUS
<1>2. PICK S, r : S = BaselineLen + 2 .. k /\ r = BaselineLen + 2 .. k - 1  OBVIOUS
<1>3. \A i \in S : f[i] \in Int /\ f[i] = Added(s, c, i)
  <2> SUFFICES ASSUME NEW i \in S PROVE f[i] \in Int /\ f[i] = Added(s, c, i)  OBVIOUS
  <2>1. i \in 1 .. Len(s) /\ i \in IntegralWindow  BY <1>2, Constants DEF IntegralWindow
  <2>2. Added(s, c, i) \in Nat  BY <2>1, AddedNat
  <2> QED BY <1>1, <2>1, <2>2 DEF Charges
<1>4. k \in S /\ r = S \ {k} /\ IsFiniteSet(S)
  <2>1. k \in S /\ r = S \ {k}  BY <1>2, Constants
  <2>2. IsFiniteSet(BaselineLen + 2 .. k)  BY FS_Interval, Constants
  <2> QED BY <1>2, <2>1, <2>2
<1>5. SumFunctionOnSet(f, S) = SumFunctionOnSet(f, r) + f[k]
  <2>1. \A i \in S : f[i] \in Int  BY <1>3
  <2> QED BY ONLY <1>4, <2>1, SumMore
<1>6. f[k] = Added(s, c, k)  BY <1>3, <1>4
<1>7. ChargeTo(s, c, k) = SumFunctionOnSet(f, S)
  BY ONLY <1>1, <1>2, Zenon DEF ChargeTo
<1>8. ChargeTo(s, c, k - 1) = SumFunctionOnSet(f, r)
  BY ONLY <1>1, <1>2, Zenon DEF ChargeTo
<1> QED BY <1>5, <1>6, <1>7, <1>8

\* The sums, n clocks after the gates opened.
BaseSumAt(n) ==
  /\ n <= BaselineAcc + 1 => base.accum = Signed(BaseTo(win, n)) /\ base.accum_lat = 0
  /\ n <= BaselineAcc + 2 => baseline = 0
  /\ n >= BaselineAcc + 2 => base.accum_lat = Average(win)

ChargeSumAt(n) ==
  /\ n \in BaselineLen + 2 .. BaselineLen + IntegralAcc + 1 => intg.nzs = Offset(win, baseline, n)
  /\ n \in BaselineLen + 3 .. BaselineLen + IntegralAcc + 2 => intg.bs = Added(win, baseline, n - 1)
  /\ n \in BaselineLen + 3 .. BaselineLen + IntegralAcc + 3 => intg.accum = ChargeTo(win, baseline, n - 2)
  /\ n >= BaselineLen + IntegralAcc + 4 =>
       integral = ChargeTo(win, baseline, BaselineLen + IntegralAcc + 1)

SumInv ==
  /\ intg.state = "IDLE" => intg.accum = 0
  /\ clean /\ ~Begun => base.accum = 0 /\ base.accum_lat = 0
  /\ clean /\ Begun => \E n \in 0 .. Window :
       n = Len(win) /\ BaseSumAt(n) /\ (BaselineInStep => ChargeSumAt(n))

LEMMA InitSums == Init => SumInv
BY DEF Init, PulseInit, SumInv

\* calc_baseline in a clock without a trigger.
LEMMA BaseMoves ==
  ASSUME Types, NEW trig \in BOOLEAN, ~trig, NEW e \in Int, CalcBaseline(trig, e)
  PROVE  /\ baseline' = base.accum_lat
         /\ base.state = "IDLE" => base'.accum = base.accum /\ base'.accum_lat = base.accum_lat
         /\ base.state = "START_ACCUM" /\ base.accum_cnt # BaselineAcc =>
              base'.accum = Signed(base.accum + e) /\ base'.accum_lat = base.accum_lat
         /\ base.state = "START_ACCUM" /\ base.accum_cnt = BaselineAcc =>
              base'.accum_lat = base.accum \div BaselineDiv
<1>1. base \in BaseRegs  BY DEF Types, Registers
<1>2. baseline' = base.accum_lat  BY DEF CalcBaseline
<1>3. CASE base.state = "IDLE"
  BY <1>1, <1>2, <1>3 DEF CalcBaseline, BaseRegs
<1>4. CASE base.state = "START_ACCUM" /\ base.accum_cnt # BaselineAcc
  <2>1. base' = [base EXCEPT !.accum_cnt = @ + 1, !.accum = Signed(@ + e), !.accum_val = FALSE]
    BY <1>4 DEF CalcBaseline
  <2> QED BY <1>1, <1>2, <1>4, <2>1 DEF BaseRegs
<1>5. CASE base.state = "START_ACCUM" /\ base.accum_cnt = BaselineAcc
  <2>1. base' = [base EXCEPT !.state = "IDLE", !.accum_cnt = 0, !.accum = 0, !.accum_val = TRUE,
                             !.accum_lat = base.accum \div BaselineDiv]
    BY <1>5 DEF CalcBaseline
  <2> QED BY <1>1, <1>2, <1>5, <2>1 DEF BaseRegs
<1> QED BY <1>1, <1>2, <1>3, <1>4, <1>5 DEF BaseRegs

\* The two registers before the sum, and the sum, in a clock without a trigger.
LEMMA IntgMoves ==
  ASSUME Types, NEW trig \in BOOLEAN, ~trig, NEW e \in Int, CalcIntegral(trig, e)
  PROVE  /\ intg'.nzs = e - baseline /\ intg'.bs = AboveZero(intg.nzs)
         /\ intg.state = "IDLE" => intg'.accum = intg.accum /\ integral' = integral
         /\ intg.state = "START_ACCUM" /\ intg.accum_cnt # IntegralAcc =>
              intg'.state = "START_ACCUM" /\ intg'.accum = intg.accum + intg.bs
         /\ intg.state = "START_ACCUM" /\ intg.accum_cnt = IntegralAcc =>
              intg'.accum = 0 /\ integral' = intg.accum
<1> DEFINE r == Subtracted(intg, e)
<1>1. /\ intg \in IntgRegs /\ r \in IntgRegs /\ r.state = intg.state
      /\ r.accum = intg.accum /\ r.accum_cnt = intg.accum_cnt
  BY SubtractedIs DEF Types, Registers
<1>2. r.nzs = e - baseline /\ r.bs = AboveZero(intg.nzs)
  BY <1>1 DEF Subtracted, IntgRegs
<1> HIDE DEF r
<1>3. CASE intg.state = "IDLE"
  <2>1. integral' = integral
        /\ \/ intg' = [r EXCEPT !.last = TRUE, !.accum_cnt = 0, !.state = "START_ACCUM"]
           \/ intg' = [r EXCEPT !.last = integral_gate]
    BY <1>3 DEF CalcIntegral, r
  <2>2. intg'.nzs = r.nzs /\ intg'.bs = r.bs /\ intg'.accum = r.accum
    <3>1. CASE intg' = [r EXCEPT !.last = TRUE, !.accum_cnt = 0, !.state = "START_ACCUM"]
      BY <1>1, <3>1 DEF IntgRegs
    <3>2. CASE intg' = [r EXCEPT !.last = integral_gate]
      BY <1>1, <3>2 DEF IntgRegs
    <3> QED BY <2>1, <3>1, <3>2
  <2> QED BY <1>1, <1>2, <1>3, <2>1, <2>2
<1>4. CASE intg.state = "START_ACCUM" /\ intg.accum_cnt = IntegralAcc
  <2>1. /\ intg' = [r EXCEPT !.state = "IDLE", !.accum_cnt = 0, !.accum = 0]
        /\ integral' = intg.accum
    BY <1>4 DEF CalcIntegral, r
  <2> QED BY <1>1, <1>2, <1>4, <2>1 DEF IntgRegs
<1>5. CASE intg.state = "START_ACCUM" /\ intg.accum_cnt # IntegralAcc
  <2>1. intg' = [r EXCEPT !.accum_cnt = @ + 1, !.accum = @ + intg.bs]
    BY <1>5 DEF CalcIntegral, r
  <2> QED BY <1>1, <1>2, <1>5, <2>1 DEF IntgRegs
<1> QED BY <1>1, <1>3, <1>4, <1>5 DEF IntgRegs

LEMMA BaseSumStep ==
  ASSUME Types, InStep, NEW trig \in BOOLEAN, ~trig, NEW e \in Int, CalcBaseline(trig, e),
         NEW n \in 0 .. Window, n = Len(win), BaseAt(n), BaseSumAt(n), NEW m \in Nat,
         \/ n < Window /\ m = n + 1 /\ win' = Append(win, e)
         \/ n = Window /\ m = n /\ win' = win
  PROVE  BaseSumAt(m)'
<1> USE Constants
<1>1. /\ n \in Nat /\ n <= Window /\ Window \in Nat /\ BaselineAcc + 3 <= Window
      /\ win \in Seq(Int) /\ base \in BaseRegs
  BY WindowsAre DEF Window, InStep, Types, Registers, Histories
<1> DEFINE s == win
           t == win'
<1>8. s \in Seq(Int) /\ n = Len(s) /\ (n < Window => t = Append(s, e)) /\ (n = Window => t = s)
  BY <1>1
<1> HIDE DEF s, t
<1>2. /\ baseline' = base.accum_lat
      /\ base.state = "IDLE" => base'.accum = base.accum /\ base'.accum_lat = base.accum_lat
      /\ base.state = "START_ACCUM" /\ base.accum_cnt # BaselineAcc =>
           base'.accum = Signed(base.accum + e) /\ base'.accum_lat = base.accum_lat
      /\ base.state = "START_ACCUM" /\ base.accum_cnt = BaselineAcc =>
           base'.accum_lat = base.accum \div BaselineDiv
  BY BaseMoves
<1>3. base.state = "IDLE" \/ base.state = "START_ACCUM"  BY <1>1 DEF BaseRegs
<1>4. CASE n = 0
  <2>1. base.state = "IDLE"  BY <1>1, <1>3, <1>4 DEF BaseAt
  <2>2. BaseTo(win, n) = 0 /\ BaseTo(win', m) = 0  BY <1>1, <1>4, BaseToEmpty
  <2>3. base.accum = Signed(BaseTo(win, n)) /\ base.accum_lat = 0  BY <1>4 DEF BaseSumAt
  <2>4. m <= BaselineAcc + 1 /\ ~(m >= BaselineAcc + 2)  BY <1>1, <1>4
  <2> QED BY <1>2, <2>1, <2>2, <2>3, <2>4 DEF BaseSumAt
<1>5. CASE n \in 1 .. BaselineAcc
  <2>1. base.state = "START_ACCUM" /\ base.accum_cnt = n - 1  BY <1>1, <1>5 DEF BaseAt
  <2>2. base.accum_cnt # BaselineAcc /\ m = n + 1 /\ win' = Append(win, e)  BY <1>1, <1>5, <2>1
  <2>3. base.accum = Signed(BaseTo(win, n)) /\ base.accum_lat = 0  BY <1>1, <1>5 DEF BaseSumAt
  <2>4. BaseTo(t, m) = BaseTo(s, n) + e  BY <1>1, <1>5, <1>8, <2>2, BaseToNext
  <2>5. BaseTo(win, n) \in Int  BY <1>1, BaseToInt
  <2>6. base'.accum = Signed(BaseTo(win', m))  BY <1>2, <2>1, <2>2, <2>3, <2>4, <2>5, SignedSum DEF s, t
  <2>7. base'.accum_lat = 0 /\ baseline' = 0  BY <1>2, <2>1, <2>2, <2>3
  <2>8. m <= BaselineAcc + 1 /\ ~(m >= BaselineAcc + 2)  BY <1>1, <1>5, <2>2
  <2> QED BY <2>6, <2>7, <2>8 DEF BaseSumAt
<1>6. CASE n = BaselineAcc + 1
  <2>1. base.state = "START_ACCUM" /\ base.accum_cnt = BaselineAcc  BY <1>1, <1>6 DEF BaseAt
  <2>2. m = BaselineAcc + 2 /\ win' = Append(win, e)  BY <1>1, <1>6
  <2>3. base.accum = Signed(BaseTo(win, n)) /\ base.accum_lat = 0  BY <1>1, <1>6 DEF BaseSumAt
  <2>4. Average(t) = Average(s)  BY <1>1, <1>6, <1>8, <2>2, AverageSame
  <2>5. base'.accum_lat = Average(win')  BY <1>2, <1>6, <2>1, <2>3, <2>4 DEF Average, s, t
  <2>6. baseline' = 0  BY <1>2, <2>3
  <2>7. ~(m <= BaselineAcc + 1)  BY <2>2
  <2> QED BY <2>5, <2>6, <2>7 DEF BaseSumAt
<1>7. CASE n >= BaselineAcc + 2
  <2>1. base.state = "IDLE"
    <3>1. n \notin 1 .. BaselineAcc + 1  BY <1>1, <1>7
    <3> QED BY <1>3, <3>1 DEF BaseAt
  <2>2. base.accum_lat = Average(win)  BY <1>1, <1>7 DEF BaseSumAt
  <2>3. Average(t) = Average(s)
    <3>1. ASSUME n < Window PROVE Average(t) = Average(s)
      <4>1. t = Append(s, e) /\ BaselineAcc + 1 <= Len(s)  BY <1>1, <1>7, <1>8, <3>1
      <4> QED BY <1>8, <4>1, AverageSame
    <3> QED BY <1>1, <1>8, <3>1
  <2>4. base'.accum_lat = Average(win')  BY <1>2, <2>1, <2>2, <2>3 DEF s, t
  <2>5. ~(m <= BaselineAcc + 1)  BY <1>1, <1>7
  <2>6. m <= BaselineAcc + 2 => m = n  BY <1>1, <1>7
  <2>7. m <= BaselineAcc + 2 => FALSE  BY <1>1, <1>7, <2>6
  <2> QED BY <2>4, <2>5, <2>7 DEF BaseSumAt
<1> QED BY <1>1, <1>4, <1>5, <1>6, <1>7

LEMMA ChargeSumStep ==
  ASSUME Types, InStep, BaselineInStep, NEW trig \in BOOLEAN, ~trig, NEW e \in Int,
         CalcBaseline(trig, e), CalcIntegral(trig, e), intg.state = "IDLE" => intg.accum = 0,
         NEW n \in 0 .. Window, n = Len(win), BaseAt(n), IntgAt(n), BaseSumAt(n), ChargeSumAt(n),
         NEW m \in Nat,
         \/ n < Window /\ m = n + 1 /\ win' = Append(win, e)
         \/ n = Window /\ m = n /\ win' = win
  PROVE  ChargeSumAt(m)'
<1> DEFINE B == BaselineLen
           I == IntegralAcc
<1> USE Constants
<1>1. /\ n \in Nat /\ n <= Window /\ Window \in Nat /\ B \in Nat /\ I \in Nat
      /\ I > 0 /\ B + I + 4 <= Window /\ B = BaselineAcc + 1
      /\ win \in Seq(Int) /\ intg \in IntgRegs /\ baseline \in Int
  BY WindowsAre DEF Window, InStep, BaselineInStep, Types, Registers, Histories, Scale
<1> DEFINE s == win
           t == win'
<1>11. s \in Seq(Int) /\ n = Len(s) /\ (n < Window => t = Append(s, e)) /\ (n = Window => t = s)
  BY <1>1
<1> HIDE DEF s, t
<1>2. /\ intg'.nzs = e - baseline /\ intg'.bs = AboveZero(intg.nzs)
      /\ intg.state = "IDLE" => intg'.accum = intg.accum /\ integral' = integral
      /\ intg.state = "START_ACCUM" /\ intg.accum_cnt # IntegralAcc =>
           intg'.state = "START_ACCUM" /\ intg'.accum = intg.accum + intg.bs
      /\ intg.state = "START_ACCUM" /\ intg.accum_cnt = IntegralAcc =>
           intg'.accum = 0 /\ integral' = intg.accum
  BY IntgMoves
<1>3. /\ n <= B + 1 => baseline = 0
      /\ n >= B + 2 => baseline' = baseline
  <2>1. baseline' = base.accum_lat  BY BaseMoves
  <2>2. n <= B + 1 => n <= BaselineAcc + 2  BY <1>1
  <2>3. n >= B + 2 => n >= BaselineAcc + 3  BY <1>1
  <2> QED BY <2>1, <2>2, <2>3 DEF BaseSumAt, BaseAt
<1>4. /\ n \in B + 3 .. B + I + 3 => intg.state = "START_ACCUM" /\ intg.accum_cnt = n - (B + 3)
      /\ n \notin B + 3 .. B + I + 3 => intg.state = "IDLE"
  BY <1>1 DEF IntgAt, IntgRegs
<1>5. /\ n \in B + 2 .. B + I + 1 => intg.nzs = Offset(win, baseline, n)
      /\ n \in B + 3 .. B + I + 2 => intg.bs = Added(win, baseline, n - 1)
      /\ n \in B + 3 .. B + I + 3 => intg.accum = ChargeTo(win, baseline, n - 2)
      /\ n >= B + I + 4 => integral = ChargeTo(win, baseline, B + I + 1)
  BY DEF ChargeSumAt
<1>6. \A c \in Int, k \in Int : k <= n /\ k <= B + I + 1 => ChargeTo(win', c, k) = ChargeTo(win, c, k)
  <2> SUFFICES ASSUME NEW c \in Int, NEW k \in Int, k <= n, k <= B + I + 1
               PROVE  ChargeTo(t, c, k) = ChargeTo(s, c, k)
    BY DEF s, t
  <2>1. ASSUME n < Window PROVE ChargeTo(t, c, k) = ChargeTo(s, c, k)
    <3>1. \A i \in 1 .. Len(s) : t[i] = s[i]
      <4>1. s \in Seq(Int) /\ t = Append(s, e)  BY <1>11, <2>1
      <4> QED BY ONLY <4>1, e \in Int, AppendType
    <3>2. BaselineLen + 2 .. k \subseteq 1 .. Len(s)
      <4>1. Len(s) \in Nat /\ k <= Len(s) /\ BaselineLen \in Nat  BY <1>1, <1>11
      <4> QED BY ONLY <4>1, k \in Int
    <3>3. \A i \in BaselineLen + 2 .. k : t[i] = s[i]  BY ONLY <3>1, <3>2
    <3> QED BY <3>3, ChargeToSame
  <2> QED BY <1>1, <1>11, <2>1
<1>7. m \in B + 2 .. B + I + 1 => intg'.nzs = Offset(win', baseline', m)
  <2> SUFFICES ASSUME m \in B + 2 .. B + I + 1 PROVE intg'.nzs = Offset(win', baseline', m)
    OBVIOUS
  <2>1. m = n + 1 /\ win' = Append(win, e)  BY <1>1
  <2>2. win'[m] = e  BY <1>1, <2>1, AppendType
  <2>3. CASE m = B + 2
    <3>1. baseline = 0  BY <1>1, <1>3, <2>1, <2>3
    <3> QED BY <1>2, <2>2, <2>3, <3>1 DEF Offset
  <2>4. CASE m # B + 2
    <3>1. baseline' = baseline  BY <1>1, <1>3, <2>1, <2>4
    <3> QED BY <1>2, <2>2, <2>4, <3>1 DEF Offset
  <2> QED BY <2>3, <2>4
<1>8. m \in B + 3 .. B + I + 2 => intg'.bs = Added(win', baseline', m - 1)
  <2> SUFFICES ASSUME m \in B + 3 .. B + I + 2 PROVE intg'.bs = Added(win', baseline', m - 1)
    OBVIOUS
  <2>1. m - 1 = n /\ win' = Append(win, e) /\ n \in B + 2 .. B + I + 1  BY <1>1
  <2>2. baseline' = baseline /\ intg.nzs = Offset(win, baseline, n)  BY <1>3, <1>5, <2>1
  <2>3. intg'.bs = Added(win, baseline, n)  BY <1>2, <2>2 DEF Added
  <2>4. t[n] = s[n]
    <3>1. n \in 1 .. Len(s) /\ n < Window  BY <1>1, <1>11, <2>1
    <3> QED BY <1>11, <3>1, AppendType
  <2>5. Added(win', baseline, n) = Added(win, baseline, n)  BY <2>4 DEF Added, Offset, s, t
  <2> QED BY <2>1, <2>2, <2>3, <2>5
<1>9. m \in B + 3 .. B + I + 3 => intg'.accum = ChargeTo(win', baseline', m - 2)
  <2> SUFFICES ASSUME m \in B + 3 .. B + I + 3
               PROVE  intg'.accum = ChargeTo(win', baseline', m - 2)
    OBVIOUS
  <2>1. m = n + 1 /\ baseline' = baseline  BY <1>1, <1>3
  <2>2. CASE m = B + 3
    <3>1. intg.state = "IDLE"  BY <1>1, <1>4, <2>1, <2>2
    <3>2. intg'.accum = 0  BY <1>2, <3>1
    <3>3. ChargeTo(win', baseline', m - 2) = 0  BY <1>1, <2>2, ChargeToEmpty
    <3> QED BY <3>2, <3>3
  <2>3. CASE m # B + 3
    <3>1. n \in B + 3 .. B + I + 2  BY <1>1, <2>1, <2>3
    <3>2. intg.state = "START_ACCUM" /\ intg.accum_cnt # IntegralAcc  BY <1>1, <1>4, <3>1
    <3>3. intg'.accum = ChargeTo(win, baseline, n - 2) + Added(win, baseline, n - 1)
      BY <1>1, <1>2, <1>5, <3>1, <3>2, SMTT(30)
    <3> DEFINE k == n - 1
    <3>4. k \in B + 2 .. B + I + 1 /\ k <= n /\ k \in Int /\ k = n - 1
      <4>1. n \in Int /\ B \in Int /\ I \in Int  BY <1>1
      <4> QED BY ONLY <3>1, <4>1
    <3> HIDE DEF k
    <3>5. ChargeTo(win, baseline, k) = ChargeTo(win, baseline, k - 1) + Added(win, baseline, k)
      BY <1>1, <3>4, ChargeToNext
    <3>6. ChargeTo(win', baseline, k) = ChargeTo(win, baseline, k)  BY <1>1, <1>6, <3>4
    <3>7. k - 1 = n - 2 /\ k = m - 2  BY <1>1, <2>1, <3>4
    <3> QED BY <2>1, <3>3, <3>4, <3>5, <3>6, <3>7
  <2> QED BY <2>2, <2>3
<1>10. m >= B + I + 4 => integral' = ChargeTo(win', baseline', B + I + 1)
  <2> SUFFICES ASSUME m >= B + I + 4 PROVE integral' = ChargeTo(win', baseline', B + I + 1)
    OBVIOUS
  <2>1. n >= B + I + 3 /\ baseline' = baseline /\ B + I + 1 \in Int /\ B + I + 1 <= n
    BY <1>1, <1>3
  <2>2. ChargeTo(win', baseline, B + I + 1) = ChargeTo(win, baseline, B + I + 1)
    BY <1>1, <1>6, <2>1
  <2>3. integral' = ChargeTo(win, baseline, B + I + 1)
    <3>1. CASE n = B + I + 3
      <4>1. intg.state = "START_ACCUM" /\ intg.accum_cnt = IntegralAcc  BY <1>1, <1>4, <3>1
      <4>2. integral' = ChargeTo(win, baseline, n - 2)  BY <1>1, <1>2, <1>5, <3>1, <4>1
      <4>3. n - 2 = B + I + 1  BY <1>1, <3>1
      <4> QED BY <4>2, <4>3
    <3>2. CASE n >= B + I + 4
      <4>1. intg.state = "IDLE"  BY <1>1, <1>4, <3>2
      <4> QED BY <1>2, <1>5, <3>2, <4>1
    <3> QED BY <1>1, <2>1, <3>1, <3>2
  <2> QED BY <2>1, <2>2, <2>3
<1> QED BY <1>7, <1>8, <1>9, <1>10 DEF ChargeSumAt

\* Both channels: e is the sample their sums see, idle what History is told.
LEMMA SumsStep ==
  ASSUME EventsInv, EventsInv', InStep, SumInv, NEW trig \in BOOLEAN, NEW e \in Int,
         NEW idle \in BOOLEAN, CalcBaseline(trig, e), CalcIntegral(trig, e),
         History(trig, e, idle), trig /\ idle => gates'.state # "BASELINE_ACTIVE"
  PROVE  SumInv'
<1>1. /\ Types /\ EventInv /\ Window \in Nat /\ Window > 0 /\ Len(win) \in Nat
      /\ Registers /\ base \in BaseRegs /\ intg \in IntgRegs
  BY WindowsAre DEF EventsInv, Types, Histories, Registers
<1>2. /\ trig => clean' = idle /\ Len(win') = 0
      /\ ~trig => clean' = clean
      /\ ~trig /\ clean /\ Begun /\ Len(win) < Window =>
           win' = Append(win, e) /\ Len(win') = Len(win) + 1
      /\ ~trig /\ clean /\ Begun /\ Len(win) = Window => win' = win
      /\ ~trig /\ clean /\ ~Begun => win' = << >> /\ Len(win') = 0
  BY <1>1, WinCases
<1>3. intg'.state = "IDLE" => intg'.accum = 0
  <2>1. CASE trig
    <3>1. intg' = Subtracted(intg, e)  BY <2>1 DEF CalcIntegral
    <3>2. intg'.state = intg.state /\ intg'.accum = intg.accum  BY <1>1, <3>1, SubtractedIs
    <3> QED BY <3>2 DEF SumInv
  <2>2. CASE ~trig
    <3>1. /\ intg.state = "IDLE" => intg'.accum = intg.accum
          /\ intg.state = "START_ACCUM" /\ intg.accum_cnt # IntegralAcc =>
               intg'.state = "START_ACCUM"
          /\ intg.state = "START_ACCUM" /\ intg.accum_cnt = IntegralAcc => intg'.accum = 0
      BY <1>1, <2>2, IntgMoves
    <3> QED BY <1>1, <3>1 DEF SumInv, IntgRegs
  <2> QED BY <2>1, <2>2
<1>4. CASE trig
  <2>1. base' = [base EXCEPT !.accum = 0, !.accum_lat = 0]  BY <1>4 DEF CalcBaseline
  <2>2. base'.accum = 0 /\ base'.accum_lat = 0  BY <1>1, <2>1 DEF BaseRegs
  <2>3. clean' => ~Begun'
    <3> SUFFICES ASSUME clean' PROVE ~Begun'  OBVIOUS
    <3>1. idle /\ Len(win') = 0  BY <1>2, <1>4
    <3> QED BY <1>4, <3>1 DEF Begun
  <2> QED BY <1>3, <2>2, <2>3 DEF SumInv
<1>5. CASE ~trig /\ ~clean
  <2>1. ~clean'  BY <1>2, <1>5
  <2> QED BY <1>3, <2>1 DEF SumInv
<1>6. CASE ~trig /\ clean /\ ~Begun
  <2>1. base.state = "IDLE" /\ base.accum = 0 /\ base.accum_lat = 0
    BY <1>1, <1>6 DEF EventInv, Quiet, SumInv
  <2>2. base'.accum = 0 /\ base'.accum_lat = 0 /\ baseline' = 0  BY <1>1, <1>6, <2>1, BaseMoves
  <2>3. Len(win') = 0  BY <1>2, <1>6
  <2>4. BaseSumAt(0)'
    <3>1. BaseTo(win', 0) = 0  BY BaseToEmpty
    <3>2. base'.accum = Signed(BaseTo(win', 0))  BY <2>2, <3>1, SignedZero
    <3>3. ~(0 >= BaselineAcc + 2)  BY Constants
    <3> QED BY <2>2, <3>2, <3>3 DEF BaseSumAt
  <2>5. ChargeSumAt(0)'  BY Constants DEF ChargeSumAt
  <2>6. 0 \in 0 .. Window  BY <1>1
  <2> QED BY <1>3, <2>2, <2>3, <2>4, <2>5, <2>6 DEF SumInv, Window
<1>7. CASE ~trig /\ clean /\ Begun
  <2>1. PICK n \in 0 .. Window : n = Len(win) /\ BaseSumAt(n) /\ (BaselineInStep => ChargeSumAt(n))
    BY <1>7 DEF SumInv
  <2>2. BaseAt(n) /\ IntgAt(n)
    <3>1. PICK k \in 0 .. Window : At(k)  BY <1>1, <1>7 DEF EventInv
    <3> QED BY <2>1, <3>1 DEF At
  <2>3. PICK m \in Nat : m = IF n < Window THEN n + 1 ELSE n  BY <1>1
  <2>4. \/ n < Window /\ m = n + 1 /\ win' = Append(win, e)
        \/ n = Window /\ m = n /\ win' = win
    BY <1>1, <1>2, <1>7, <2>1, <2>3
  <2>5. Len(win') = m /\ m \in 0 .. Window /\ Len(win') > 0  BY <1>1, <1>2, <1>7, <2>1, <2>3
  <2>6. BaseSumAt(m)'  BY <1>1, <1>7, <2>1, <2>2, <2>4, BaseSumStep
  <2>7. BaselineInStep => ChargeSumAt(m)'
    <3>1. intg.state = "IDLE" => intg.accum = 0  BY DEF SumInv
    <3> QED BY <1>1, <1>7, <2>1, <2>2, <2>4, <3>1, ChargeSumStep
  <2>8. Begun'  BY <2>5 DEF Begun
  <2> QED BY <1>3, <2>5, <2>6, <2>7, <2>8 DEF SumInv, Window
<1> QED BY <1>4, <1>5, <1>6, <1>7

LEMMA NextSums ==
  ASSUME InStep PROVE EventsInv /\ SumInv /\ [Next]_vars => (EventsInv /\ SumInv)'
<1> SUFFICES ASSUME EventsInv, SumInv, [Next]_vars PROVE EventsInv' /\ SumInv'  OBVIOUS
<1>1. EventsInv'  BY NextEvents
<1>2. CASE UNCHANGED vars
  BY <1>1, <1>2 DEF SumInv, BaseSumAt, ChargeSumAt, Begun, Window, vars, pulseVars, gateVars,
                    statVars, oowVars
<1>3. CASE Next
  <2>1. PICK trig \in BOOLEAN, d \in Samples : InChannel(trig, d) \/ FindBeamOow(trig, d)
    BY <1>3 DEF Next
  <2>2. d \in Int /\ Types  BY Constants DEF EventsInv
  <2>3. CASE InChannel(trig, d)
    <3> DEFINE idle == AllIdle \/ (clean /\ gates.state = "TRIGGERED" /\ ~Opens(GateStart))
    <3>1. /\ GenGates(trig, GateStart) /\ CalcBaseline(trig, d) /\ CalcIntegral(trig, d)
          /\ History(trig, d, idle)
      BY <2>3 DEF InChannel, BeamStats
    <3>2. idle \in BOOLEAN  BY <2>2, Constants DEF Types, Registers
    <3>3. trig /\ idle => gates'.state # "BASELINE_ACTIVE"
      <4> SUFFICES ASSUME trig, idle PROVE gates'.state # "BASELINE_ACTIVE"  OBVIOUS
      <4>1. gates.state = "IDLE" \/ (gates.state = "TRIGGERED" /\ ~Opens(GateStart))
        BY AllIdleIs DEF idle
      <4>2. gates' = gates \/ gates'.state = "TRIGGERED"  BY <3>1, <4>1 DEF GenGates, Opens
      <4> QED BY <4>1, <4>2
    <3> HIDE DEF idle
    <3> QED BY <1>1, <2>2, <3>1, <3>2, <3>3, SumsStep
  <2>4. CASE FindBeamOow(trig, d)
    <3> DEFINE idle == AllIdle /\ peakfind.state = "IDLE" /\ ~pulse_found
    <3>1. /\ GenGates(pulse_found, 0) /\ CalcBaseline(trig, dly[1]) /\ CalcIntegral(trig, dly[1])
          /\ History(trig, dly[1], idle)
      BY <2>4 DEF FindBeamOow
    <3>2. dly[1] \in Int /\ idle \in BOOLEAN
      <4>1. dly[1] \in Int  BY <2>2, ShiftType, Constants DEF Types, Histories
      <4> QED BY <2>2, <4>1 DEF Types, Searchers
    <3>3. trig /\ idle => gates'.state # "BASELINE_ACTIVE"
      <4> SUFFICES ASSUME idle PROVE gates'.state # "BASELINE_ACTIVE"  OBVIOUS
      <4>1. gates.state = "IDLE" /\ ~pulse_found  BY AllIdleIs DEF idle
      <4>2. gates' = gates  BY <3>1, <4>1 DEF GenGates, Opens
      <4> QED BY <4>1, <4>2
    <3> HIDE DEF idle
    <3> QED BY <1>1, <3>1, <3>2, <3>3, SumsStep
  <2> QED BY <2>1, <2>3, <2>4
<1> QED BY <1>2, <1>3

LEMMA AlwaysSums == ASSUME InStep PROVE Spec => [](EventsInv /\ SumInv)
<1>1. Init => EventsInv /\ SumInv  BY InitTypes, InitEvent, InitSums DEF EventsInv
<1> QED BY <1>1, NextSums, PTL DEF Spec

\* The sums of a measurement that has been made.
LEMMA MeasuredSums ==
  ASSUME EventsInv, SumInv, Measured PROVE BaseSumAt(Window) /\ (BaselineInStep => ChargeSumAt(Window))
<1>1. clean /\ Begun /\ Len(win) = Window  BY MeasuredAt DEF Measured
<1>2. PICK n \in 0 .. Window : n = Len(win) /\ BaseSumAt(n) /\ (BaselineInStep => ChargeSumAt(n))
  BY <1>1 DEF SumInv
<1> QED BY <1>1, <1>2

\* The baseline of an event is the sum of its own samples in the first gate,
\* divided (calc_baseline.vhd), in the windows and outside of them: nothing of an
\* earlier event, one that was cut short included, is left in the accumulator.
THEOREM BaselineMeasured == ASSUME InStep PROVE Spec => []BaselineRight
<1>1. EventsInv /\ SumInv => BaselineRight
  <2> SUFFICES ASSUME EventsInv, SumInv, Measured, NEW sum, sum = SumFunctionOnSet(win, BaselineWindow),
                      Signed(sum) = sum
               PROVE  baseline = sum \div BaselineDiv
    BY DEF BaselineRight
  <2>1. BaseSumAt(Window) /\ BaseAt(Window)  BY MeasuredSums, MeasuredAt
  <2>2. Window \in Nat /\ Window >= BaselineAcc + 3  BY Constants, WindowsAre DEF Window, InStep
  <2>3. baseline = Average(win)  BY <2>1, <2>2, Constants DEF BaseSumAt, BaseAt
  <2>4. sum = BaseTo(win, BaselineAcc + 1)  BY DEF BaseTo, BaselineWindow
  <2> QED BY <2>3, <2>4 DEF Average
<1> QED BY <1>1, AlwaysSums, PTL

\* The charge of an event is the sum of what its own samples in the second gate
\* lie above its baseline (calc_integral.vhd), in the windows and outside of
\* them, whatever the registers before the sum held when the gate opened.
THEOREM ChargeMeasured == ASSUME InStep, BaselineInStep PROVE Spec => []IntegralRight
<1>1. EventsInv /\ SumInv => IntegralRight
  <2> SUFFICES ASSUME EventsInv, SumInv, Measured
               PROVE  integral = SumFunction([i \in IntegralWindow |-> Charge(i)])
    BY DEF IntegralRight
  <2>1. ChargeSumAt(Window)  BY MeasuredSums
  <2>2. Window >= BaselineLen + IntegralAcc + 4  BY Constants DEF Window, InStep
  <2>3. integral = ChargeTo(win, baseline, BaselineLen + IntegralAcc + 1)
    BY <2>1, <2>2 DEF ChargeSumAt
  <2>4. [i \in IntegralWindow |-> Charge(i)] = Charges(win, baseline)
    BY DEF Charge, Charges, Added, Offset
  <2>5. DOMAIN Charges(win, baseline) = IntegralWindow  BY DEF Charges
  <2>6. SumFunction(Charges(win, baseline)) = SumFunctionOnSet(Charges(win, baseline), IntegralWindow)
    BY <2>5 DEF SumFunction
  <2> QED BY <2>3, <2>4, <2>6 DEF ChargeTo, IntegralWindow
<1> QED BY <1>1, AlwaysSums, PTL

=============================================================================
