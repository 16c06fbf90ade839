------------------------------ MODULE PulseStats ------------------------------
(***************************************************************************)
(* calc_beam_stats.vhd, the measurement of one pulse of the ADC stream:    *)
(* gen_gates opens two gates at a sample number after the trigger,         *)
(* calc_baseline averages the samples in the first, calc_integral and      *)
(* find_peak look at those in the second, less the baseline, and calc_fwhm *)
(* measures the width at half of the peak in the delayed stream.           *)
(*                                                                         *)
(* A step is a clock of the ADC; every process reads the registers as they *)
(* were before it.  The processes are operators of their inputs: BeamOow   *)
(* connects the same ones to search for pulses outside of the windows.     *)
(***************************************************************************)
EXTENDS Integers, Sequences, SequencesExt, FiniteSetsExt

CONSTANTS
  Samples,       \* values of the ADC
  HalfScale,     \* they are -HalfScale .. HalfScale - 1 (2^15: 16 bits)
  Floor,         \* where find_peak starts (-32000)
  GateStart,     \* eeprom parameter: the sample at which the gates begin
  BaselineLen,   \* BASELINE_LEN of gen_gates (32)
  BaselineAcc,   \* ACCUMLEN of calc_baseline (31)
  BaselineDiv,   \* shift_right by 5 (32)
  IntegralLen,   \* INTEGRAL_LEN of gen_gates (60)
  IntegralAcc,   \* ACCUMLEN of calc_integral (59)
  WidthMod,      \* 2^16: fwhm
  Delay,         \* depth of adc_shift_ram (60)
  LastSample     \* bound: the sample counter stops here

ASSUME PulseAssumption ==
  /\ HalfScale \in Nat \ {0} /\ Samples \subseteq Int /\ Samples # {} /\ Floor \in Int
  /\ GateStart \in Nat /\ LastSample \in Nat
  /\ BaselineLen \in Nat /\ IntegralLen \in Nat
  /\ BaselineAcc \in Nat \ {0} /\ IntegralAcc \in Nat \ {0}
  /\ BaselineDiv \in Nat \ {0} /\ Delay \in Nat \ {0} /\ WidthMod \in Nat \ {0}

VARIABLES
  channel,        \* the instance of calc_charge.vhd that is followed
  gates,          \* gen_gates: state, baseline_cnt, integral_cnt
  baseline_gate, integral_gate,
  samplenum,      \* adc_samplenum
  base,           \* calc_baseline: state, accum_cnt, accum, accum_lat, accum_val, last
  baseline, baseline_val,
  intg,           \* calc_integral: state, accum_cnt, accum, last, nzs, bs
  integral,
  finder,         \* find_peak: state, max_adc, peak_val
  peak_sampnum,
  width,          \* calc_fwhm: state, nzs, bs
  fwhm,
  dly,            \* adc_shift_ram
  win,            \* history: the samples of the clocks since the gates began
  clean,          \* history: the last trigger found the processes idle
  fresh           \* history: it found calc_fwhm idle

gateVars == <<gates, baseline_gate, integral_gate, samplenum>>
statVars == <<baseline, baseline_val, integral, peak_sampnum, fwhm>>
pulseVars == <<channel, gateVars, base, intg, finder, width, statVars, dly, win, clean, fresh>>

\* Two's complement.
Signed(n) == ((n + HalfScale) % (2 * HalfScale)) - HalfScale
Counted(n) == (n + 1) % WidthMod
AboveZero(n) == IF n < 0 THEN 0 ELSE n
peak == finder.max_adc - baseline

PulseInit ==
  /\ channel \in {"window", "outside"}
  /\ gates = [state |-> "IDLE", baseline_cnt |-> 0, integral_cnt |-> 0]
  /\ baseline_gate = FALSE /\ integral_gate = FALSE /\ samplenum = 0
  /\ base = [state |-> "IDLE", accum_cnt |-> 0, accum |-> 0, accum_lat |-> 0, accum_val |-> FALSE,
             last |-> FALSE]
  /\ intg = [state |-> "IDLE", accum_cnt |-> 0, accum |-> 0, last |-> FALSE, nzs |-> 0, bs |-> 0]
  /\ finder = [state |-> "IDLE", max_adc |-> 0, peak_val |-> FALSE]
  /\ width = [state |-> "IDLE", nzs |-> 0, bs |-> 0]
  /\ baseline = 0 /\ baseline_val = FALSE /\ integral = 0 /\ peak_sampnum = 0 /\ fwhm = 0
  /\ dly = [i \in 1 .. Delay |-> 0]
  /\ win = << >> /\ clean = FALSE /\ fresh = FALSE

-----------------------------------------------------------------------------
(* The processes, in a clock with the value of trig and the sample d.      *)

SampleNum(trig) ==
  samplenum' = IF trig THEN 0 ELSE Min({samplenum + 1, LastSample})

Opens(start) == gates.state = "TRIGGERED" /\ samplenum >= start

GenGates(trig, start) ==
  \/ /\ gates.state = "IDLE" /\ ~trig
     /\ UNCHANGED <<gates, baseline_gate, integral_gate>>
  \/ /\ gates.state = "IDLE" /\ trig
     /\ gates' = [state |-> "TRIGGERED", baseline_cnt |-> 0, integral_cnt |-> 0]
     /\ baseline_gate' = FALSE /\ integral_gate' = FALSE
  \/ /\ gates.state = "TRIGGERED" /\ ~Opens(start)
     /\ UNCHANGED <<gates, baseline_gate, integral_gate>>
  \/ /\ Opens(start)
     /\ gates' = [state |-> "BASELINE_ACTIVE", baseline_cnt |-> BaselineLen,
                  integral_cnt |-> IntegralLen]
     /\ baseline_gate' = TRUE /\ UNCHANGED integral_gate
  \/ /\ gates.state = "BASELINE_ACTIVE"
     /\ baseline_gate' = (gates.baseline_cnt # 0) /\ UNCHANGED integral_gate
     /\ gates' = IF gates.baseline_cnt = 0 THEN [gates EXCEPT !.state = "INTEGRAL_ACTIVE"]
                 ELSE [gates EXCEPT !.baseline_cnt = @ - 1]
  \/ /\ gates.state = "INTEGRAL_ACTIVE"
     /\ integral_gate' = (gates.integral_cnt # 0) /\ UNCHANGED baseline_gate
     /\ gates' = IF gates.integral_cnt = 0 THEN [gates EXCEPT !.state = "IDLE"]
                 ELSE [gates EXCEPT !.integral_cnt = @ - 1]

\* Mutant: accum is cleared neither by the trigger nor after the average.
Stale_CalcBaseline(trig, d) ==
  /\ baseline' = base.accum_lat /\ baseline_val' = base.accum_val
  /\ \/ /\ trig /\ base' = [base EXCEPT !.accum_lat = 0]
     \/ /\ ~trig /\ base.state = "IDLE"
        /\ base' = [base EXCEPT !.accum_val = FALSE, !.last = baseline_gate,
                       !.accum_cnt = IF baseline_gate /\ ~base.last THEN 0 ELSE @,
                       !.state = IF baseline_gate /\ ~base.last THEN "START_ACCUM" ELSE @]
     \/ /\ ~trig /\ base.state = "START_ACCUM"
        /\ base' = IF base.accum_cnt = BaselineAcc
                   THEN [base EXCEPT !.state = "IDLE", !.accum_cnt = 0, !.accum_val = TRUE,
                                     !.accum_lat = base.accum \div BaselineDiv]
                   ELSE [base EXCEPT !.accum_cnt = @ + 1, !.accum = Signed(@ + d), !.accum_val = FALSE]

CalcBaseline(trig, d) ==
  /\ baseline' = base.accum_lat /\ baseline_val' = base.accum_val
  /\ \/ /\ trig /\ base' = [base EXCEPT !.accum = 0, !.accum_lat = 0]
     \/ /\ ~trig /\ base.state = "IDLE"
        /\ base' = [base EXCEPT !.accum_val = FALSE, !.last = baseline_gate,
                       !.accum_cnt = IF baseline_gate /\ ~base.last THEN 0 ELSE @,
                       !.state = IF baseline_gate /\ ~base.last THEN "START_ACCUM" ELSE @]
     \/ /\ ~trig /\ base.state = "START_ACCUM"
        /\ base' = IF base.accum_cnt = BaselineAcc
                   THEN [base EXCEPT !.state = "IDLE", !.accum_cnt = 0, !.accum = 0, !.accum_val = TRUE,
                                     !.accum_lat = base.accum \div BaselineDiv]
                   ELSE [base EXCEPT !.accum_cnt = @ + 1, !.accum = Signed(@ + d), !.accum_val = FALSE]

\* Mutant: negative charge is not set to zero.
Negative_Subtracted(r, d) == [r EXCEPT !.nzs = d - baseline, !.bs = r.nzs]

\* The two registers between the sample and the sum.
Subtracted(r, d) == [r EXCEPT !.nzs = d - baseline, !.bs = AboveZero(r.nzs)]

\* Mutant: accum is not cleared when it was latched.
Stale_CalcIntegral(trig, d) ==
  LET r == Subtracted(intg, d) IN
  \/ trig /\ integral' = 0 /\ intg' = r
  \/ /\ ~trig /\ intg.state = "IDLE"
     /\ intg' = IF integral_gate /\ ~intg.last
                THEN [r EXCEPT !.last = TRUE, !.accum_cnt = 0, !.state = "START_ACCUM"]
                ELSE [r EXCEPT !.last = integral_gate]
     /\ UNCHANGED integral
  \/ /\ ~trig /\ intg.state = "START_ACCUM"
     /\ intg' = IF intg.accum_cnt = IntegralAcc
                THEN [r EXCEPT !.state = "IDLE", !.accum_cnt = 0]
                ELSE [r EXCEPT !.accum_cnt = @ + 1, !.accum = @ + intg.bs]
     /\ integral' = IF intg.accum_cnt = IntegralAcc THEN intg.accum ELSE integral

CalcIntegral(trig, d) ==
  LET r == Subtracted(intg, d) IN
  \/ trig /\ integral' = 0 /\ intg' = r
  \/ /\ ~trig /\ intg.state = "IDLE"
     /\ intg' = IF integral_gate /\ ~intg.last
                THEN [r EXCEPT !.last = TRUE, !.accum_cnt = 0, !.state = "START_ACCUM"]
                ELSE [r EXCEPT !.last = integral_gate]
     /\ UNCHANGED integral
  \/ /\ ~trig /\ intg.state = "START_ACCUM" /\ intg.accum_cnt = IntegralAcc
     /\ intg' = [r EXCEPT !.state = "IDLE", !.accum_cnt = 0, !.accum = 0]
     /\ integral' = intg.accum
  \/ /\ ~trig /\ intg.state = "START_ACCUM" /\ intg.accum_cnt # IntegralAcc
     /\ intg' = [r EXCEPT !.accum_cnt = @ + 1, !.accum = @ + intg.bs]
     /\ UNCHANGED integral

\* Mutant: the trigger does not clear the peak of the event before.
Stale_FindPeak(trig, d, gate) ==
  \/ /\ trig
     /\ finder' = [finder EXCEPT !.state = "IDLE"]
     /\ peak_sampnum' = 0
  \/ /\ ~trig /\ finder.state = "IDLE"
     /\ finder' = [finder EXCEPT !.peak_val = FALSE,
                                 !.state = IF gate THEN "GATE_ACTIVE" ELSE "IDLE"]
     /\ UNCHANGED peak_sampnum
  \/ /\ ~trig /\ finder.state = "GATE_ACTIVE"
     /\ finder' = [state    |-> IF gate THEN "GATE_ACTIVE" ELSE "IDLE",
                   peak_val |-> finder.peak_val \/ ~gate,
                   max_adc  |-> Max({d, finder.max_adc})]
     /\ peak_sampnum' = IF d > finder.max_adc THEN samplenum ELSE peak_sampnum

\* Mutant: the search goes on when the gate has ended.
Open_FindPeak(trig, d, gate) ==
  IF trig
  THEN /\ finder' = [finder EXCEPT !.state = "IDLE", !.max_adc = Floor]
       /\ peak_sampnum' = 0
  ELSE /\ finder' = [state    |-> IF gate THEN "GATE_ACTIVE" ELSE finder.state,
                     peak_val |-> finder.state = "GATE_ACTIVE" /\ ~gate,
                     max_adc  |-> IF finder.state = "IDLE" THEN finder.max_adc
                                  ELSE Max({d, finder.max_adc})]
       /\ peak_sampnum' = IF finder.state = "GATE_ACTIVE" /\ d > finder.max_adc
                          THEN samplenum ELSE peak_sampnum

FindPeak(trig, d, gate) ==
  \/ /\ trig
     /\ finder' = [finder EXCEPT !.state = "IDLE", !.max_adc = Floor]
     /\ peak_sampnum' = 0
  \/ /\ ~trig /\ finder.state = "IDLE"
     /\ finder' = [finder EXCEPT !.peak_val = FALSE,
                                 !.state = IF gate THEN "GATE_ACTIVE" ELSE "IDLE"]
     /\ UNCHANGED peak_sampnum
  \/ /\ ~trig /\ finder.state = "GATE_ACTIVE"
     /\ finder' = [state    |-> IF gate THEN "GATE_ACTIVE" ELSE "IDLE",
                   peak_val |-> finder.peak_val \/ ~gate,
                   max_adc  |-> Max({d, finder.max_adc})]
     /\ peak_sampnum' = IF d > finder.max_adc THEN samplenum ELSE peak_sampnum

\* Mutant: the sample that reaches the level is not counted.
Late_CalcFwhm(trig, start_calc) ==
  LET level == peak \div 2
      r == [width EXCEPT !.nzs = dly[1] - baseline, !.bs = width.nzs] IN
  \/ trig /\ fwhm' = 0 /\ width' = r
  \/ /\ ~trig /\ width.state = "IDLE"
     /\ fwhm' = IF start_calc THEN 0 ELSE fwhm
     /\ width' = [r EXCEPT !.state = IF start_calc THEN "START_FWHM" ELSE "IDLE"]
  \/ /\ ~trig /\ width.state = "START_FWHM" /\ UNCHANGED fwhm
     /\ width' = [r EXCEPT !.state = IF width.bs >= level THEN "FOUND_PULSE" ELSE @]
  \/ /\ ~trig /\ width.state = "FOUND_PULSE"
     /\ fwhm' = IF width.bs <= level THEN fwhm ELSE Counted(fwhm)
     /\ width' = [r EXCEPT !.state = IF width.bs <= level THEN "IDLE" ELSE @]

CalcFwhm(trig, start_calc) ==
  LET level == peak \div 2
      r == [width EXCEPT !.nzs = dly[1] - baseline, !.bs = width.nzs] IN
  \/ trig /\ fwhm' = 0 /\ width' = r
  \/ /\ ~trig /\ width.state = "IDLE"
     /\ fwhm' = IF start_calc THEN 0 ELSE fwhm
     /\ width' = [r EXCEPT !.state = IF start_calc THEN "START_FWHM" ELSE "IDLE"]
  \/ /\ ~trig /\ width.state = "START_FWHM"
     /\ fwhm' = IF width.bs >= level THEN Counted(fwhm) ELSE fwhm
     /\ width' = [r EXCEPT !.state = IF width.bs >= level THEN "FOUND_PULSE" ELSE @]
  \/ /\ ~trig /\ width.state = "FOUND_PULSE"
     /\ fwhm' = IF width.bs <= level THEN fwhm ELSE Counted(fwhm)
     /\ width' = [r EXCEPT !.state = IF width.bs <= level THEN "IDLE" ELSE @]

-----------------------------------------------------------------------------
(* The clock.  The history win begins with the gates and ends where the    *)
(* gate of the integral ends.                                              *)

Window == BaselineLen + IntegralLen + 3

\* No process is in the middle of an earlier event.
AllIdle == {gates.state, base.state, intg.state, finder.state} = {"IDLE"}

\* The samples the sums are made of; a trigger finds the processes idle or not.
History(trig, d, idle) ==
  /\ clean' = IF trig THEN idle ELSE clean
  /\ win' = IF trig \/ ~clean THEN << >>
            ELSE IF (gates.state = "BASELINE_ACTIVE" \/ win # << >>) /\ Len(win) < Window
                 THEN Append(win, d)
            ELSE win

\* calc_beam_stats
BeamStats(trig, d) ==
  /\ channel = "window" /\ UNCHANGED channel
  /\ SampleNum(trig) /\ GenGates(trig, GateStart)
  /\ CalcBaseline(trig, d) /\ CalcIntegral(trig, d)
  /\ FindPeak(trig, d, integral_gate) /\ CalcFwhm(trig, finder.peak_val)
  /\ dly' = Append(Tail(dly), d)
  /\ History(trig, d, AllIdle \/ (clean /\ gates.state = "TRIGGERED" /\ ~Opens(GateStart)))
  /\ fresh' = IF trig THEN width.state = "IDLE" /\ ~finder.peak_val ELSE fresh

-----------------------------------------------------------------------------
(* Properties.                                                             *)

\* The registers keep to their ranges.
PulseTypeOK ==
  /\ channel \in {"window", "outside"}
  /\ gates \in [state : {"IDLE", "TRIGGERED", "BASELINE_ACTIVE", "INTEGRAL_ACTIVE"},
               baseline_cnt : 0 .. BaselineLen, integral_cnt : 0 .. IntegralLen]
  /\ {baseline_gate, integral_gate, baseline_val, base.accum_val, clean, fresh} \subseteq BOOLEAN
  /\ samplenum \in 0 .. LastSample /\ peak_sampnum \in 0 .. LastSample
  /\ base.accum_cnt \in 0 .. BaselineAcc /\ intg.accum_cnt \in 0 .. IntegralAcc
  /\ {base.accum, base.accum_lat, baseline} \subseteq -HalfScale .. HalfScale - 1
  /\ integral \in Nat /\ intg.accum \in Nat /\ fwhm \in 0 .. WidthMod - 1
  /\ Len(dly) = Delay /\ Len(win) <= Window

\* The measurement of an event that found the gates idle has been made.
Measured == clean /\ Len(win) = Window

\* The samples of the two gates: the pipelines of the processes differ by a
\* few clocks.
BaselineWindow == 2 .. BaselineAcc + 1
IntegralWindow == BaselineLen + 2 .. BaselineLen + IntegralAcc + 1
PeakWindow     == BaselineLen + 4 .. Window

\* The baseline of an event (calc_baseline) is the sum of that event's own
\* samples in the first gate, divided, as long as the sum fits the accumulator:
\* nothing of an earlier event is left in it, one that was cut short included.
\* Outside of the windows the event is the pulse found, in the delayed stream.
BaselineRight ==
  Measured =>
    LET sum == SumFunctionOnSet(win, BaselineWindow) IN
    Signed(sum) = sum => baseline = sum \div BaselineDiv

\* What a sample of the second gate adds: the first is on its way before the
\* baseline is there, and is measured against the zero that trig left in it.
Charge(i) ==
  AboveZero(IF i = BaselineLen + 2 THEN win[i] ELSE win[i] - baseline)

\* The charge of an event (calc_integral, find_integral) is the sum of what its
\* samples in the second gate lie above the baseline, whatever the registers
\* between the sample and the sum held before.
IntegralRight == Measured => integral = SumFunction([i \in IntegralWindow |-> Charge(i)])

\* find_peak reports the highest sample of the second gate above the baseline,
\* and the sample number of the first of that height: samples, gates and sample
\* counter, which take different ways, are in step.
PeakRight ==
  Measured /\ channel = "window" =>
    LET top == Max({win[i] : i \in PeakWindow})
        at  == Min({i \in PeakWindow : win[i] = top})
    IN  /\ peak = top - baseline
        /\ peak_sampnum = GateStart + at

\* calc_fwhm, looking at the delayed stream once the peak is known, counts the
\* samples from the first at half of the peak to the next at or below it: if the
\* trigger found it idle and it has come to an end.
FwhmRight ==
  Measured /\ channel = "window" /\ fresh /\ ~finder.peak_val /\ width.state = "IDLE" =>
    \A rise, fall \in Window - Delay .. Window :
      /\ rise < fall
      /\ \A i \in Window - Delay .. rise - 1 : win[i] - baseline < peak \div 2
      /\ win[rise] - baseline >= peak \div 2
      /\ \A i \in rise + 1 .. fall - 1 : win[i] - baseline > peak \div 2
      /\ win[fall] - baseline <= peak \div 2
      => fwhm = fall - rise

\* From the end of a measurement, of either kind, to the next trigger the
\* results stand still: adc_data_rdout and the accumulator read them at times of
\* their own.
Stable == [][Measured /\ Measured' => UNCHANGED <<baseline, integral, peak, peak_sampnum>>]_pulseVars

=============================================================================
