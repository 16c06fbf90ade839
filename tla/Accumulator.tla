----------------------------- MODULE Accumulator ------------------------------
(***************************************************************************)
(* The accumulated charge: accumulator.vhd adds each pulse's charge to a   *)
(* running sum and takes off the one accum_len pulses ago, which it keeps  *)
(* in a circular buffer that nothing ever clears.  accum_len comes from a  *)
(* parameter register, which software writes at boot and on request.       *)
(***************************************************************************)
EXTENDS Integers, Sequences

CONSTANTS
  AddrMod,     \* addresses of accum_dpram (2^13), also the width of accum_len
  W,           \* 2^32: arithmetic of accum
  Samples,     \* charges and values of q_min
  Lens,        \* values software writes to accum_len
  MaxSamples   \* bound: samples since the last reset

ASSUME AccumulatorAssumption ==
  /\ AddrMod \in Nat \ {0, 1} /\ W \in Nat \ {0, 1}
  /\ Samples \subseteq 0 .. W - 1
  /\ Lens \subseteq 0 .. AddrMod - 1
  /\ MaxSamples \in Nat

VARIABLES
  accum_len, state, new_sample, buffull, bufcnt, wraddr, rdaddr, wren, dpram, accum,
  totals,      \* history: running totals of the samples since the last reset
  clean        \* history: accum_len has not changed since the first of them

ptrVars == <<wraddr, rdaddr>>
cntVars == <<buffull, bufcnt>>
vars    == <<accum_len, state, new_sample, cntVars, ptrVars, wren, dpram, accum, totals, clean>>

\* The sum or difference of two or three 32-bit values, on 32 bits.
Wrap(x) == IF x < 0 THEN x + W ELSE IF x >= W THEN x - W ELSE x

Addr  == 0 .. AddrMod - 1
Count == Len(totals) - 1
Total == totals[Len(totals)]

TypeOK ==
  /\ accum_len \in Addr /\ bufcnt \in Addr /\ wraddr \in Addr /\ rdaddr \in Addr
  /\ state \in {"IDLE", "CALC_ACCUM", "WAIT1", "UPDATE_DPRAM", "UPDATE_PTRS"}
  /\ new_sample \in 0 .. W - 1 /\ accum \in 0 .. W - 1
  /\ buffull \in BOOLEAN /\ wren \in BOOLEAN /\ clean \in BOOLEAN
  /\ dpram \in [Addr -> 0 .. W - 1]
  /\ totals \in Seq(0 .. W - 1) /\ totals # << >>

Init ==
  /\ accum_len = 0
  /\ state = "IDLE" /\ new_sample = 0
  /\ buffull = FALSE /\ bufcnt = 0
  /\ wraddr = 0 /\ rdaddr = 1 /\ wren = FALSE
  /\ dpram = [a \in Addr |-> 0]
  /\ accum = 0
  /\ totals = <<0>> /\ clean = TRUE

\* accum_dpram at a clock edge.
Write == dpram' = IF wren THEN [dpram EXCEPT ![wraddr] = new_sample] ELSE dpram

\* doutb: rdaddr has been steady for the 2000 clocks of beam_detect_window.
end_sample == dpram[rdaddr]

-----------------------------------------------------------------------------

Larger(a, b) == IF a > b THEN a ELSE b

\* Mutant: the buffer counts as full a sample too late.
Late_Trig ==
  /\ state = "IDLE" /\ Count < MaxSamples
  /\ state' = "CALC_ACCUM"
  /\ \E sample, q_min \in Samples : new_sample' = Larger(sample, q_min)
  /\ IF bufcnt > accum_len THEN buffull' = TRUE /\ UNCHANGED bufcnt
                           ELSE bufcnt' = bufcnt + 1 /\ UNCHANGED buffull
  /\ totals' = Append(totals, Wrap(Total + new_sample'))
  /\ Write
  /\ UNCHANGED <<accum_len, ptrVars, wren, accum, clean>>

\* IDLE, at the end of beam_detect_window.
Trig ==
  /\ state = "IDLE" /\ Count < MaxSamples
  /\ state' = "CALC_ACCUM"
  /\ \E sample, q_min \in Samples : new_sample' = Larger(sample, q_min)
  /\ IF bufcnt >= accum_len THEN buffull' = TRUE /\ UNCHANGED bufcnt
                            ELSE bufcnt' = bufcnt + 1 /\ UNCHANGED buffull
  /\ totals' = Append(totals, Wrap(Total + new_sample'))
  /\ Write
  /\ UNCHANGED <<accum_len, ptrVars, wren, accum, clean>>

\* Mutant: the sum has one more bit than the register.
Wide_CalcAccum ==
  /\ state = "CALC_ACCUM"
  /\ state' = "WAIT1"
  /\ accum' = accum + new_sample - (IF buffull THEN end_sample ELSE 0)
  /\ Write
  /\ UNCHANGED <<accum_len, new_sample, cntVars, ptrVars, wren, totals, clean>>

CalcAccum ==
  /\ state = "CALC_ACCUM"
  /\ state' = "WAIT1"
  /\ accum' = Wrap(accum + new_sample - (IF buffull THEN end_sample ELSE 0))
  /\ Write
  /\ UNCHANGED <<accum_len, new_sample, cntVars, ptrVars, wren, totals, clean>>

Wait1 ==
  /\ state = "WAIT1"
  /\ state' = "UPDATE_DPRAM"
  /\ Write
  /\ UNCHANGED <<accum_len, new_sample, cntVars, ptrVars, wren, accum, totals, clean>>

UpdateDpram ==
  /\ state = "UPDATE_DPRAM"
  /\ state' = "UPDATE_PTRS"
  /\ wren' = TRUE
  /\ Write
  /\ UNCHANGED <<accum_len, new_sample, cntVars, ptrVars, accum, totals, clean>>

UpdatePtrs ==
  /\ state = "UPDATE_PTRS"
  /\ state' = "IDLE"
  /\ wren' = FALSE
  /\ wraddr' = rdaddr
  /\ rdaddr' = IF rdaddr = accum_len THEN 0 ELSE (rdaddr + 1) % AddrMod
  /\ Write
  /\ UNCHANGED <<accum_len, new_sample, cntVars, accum, totals, clean>>

\* pl_reset.
Reset ==
  /\ state' = "IDLE" /\ new_sample' = 0
  /\ buffull' = FALSE /\ bufcnt' = 0
  /\ wraddr' = 0 /\ rdaddr' = 1 /\ wren' = FALSE
  /\ accum' = 0
  /\ totals' = <<0>> /\ clean' = TRUE
  /\ Write
  /\ UNCHANGED accum_len

\* Software writes the parameter register.
SetLen ==
  /\ \E n \in Lens : n # accum_len /\ accum_len' = n
  /\ clean' = (clean /\ Count = 0)
  /\ Write
  /\ UNCHANGED <<state, new_sample, cntVars, ptrVars, wren, accum, totals>>

Next == Trig \/ CalcAccum \/ Wait1 \/ UpdateDpram \/ UpdatePtrs \/ Reset \/ SetLen

Spec == Init /\ [][Next]_vars

-----------------------------------------------------------------------------
(* Properties.                                                             *)

Least(a, b) == IF a < b THEN a ELSE b

\* The running total of the samples after the first m ones.
Since(m) == Wrap(Total - totals[m + 1])

\* The accumulated charge is the sum, on 32 bits, of the last accum_len samples,
\* or of all while there are fewer: the counters, the two pointers and what an
\* earlier use left in the buffer never let in or leave out a sample.  This
\* holds if the length is not zero and was set before the first sample: a
\* later change leaves the sum wrong until the next pl_reset.
SlidingSum ==
  clean /\ accum_len > 0 /\ state # "CALC_ACCUM" =>
    accum = Since(Count - Least(Count, accum_len))

=============================================================================
