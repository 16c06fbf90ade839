-------------------------------- MODULE BeamOow --------------------------------
(***************************************************************************)
(* calc_charge.vhd: a channel that measures a pulse in its window and the  *)
(* channel find_beam_oow, which puts zeros for the samples in the windows, *)
(* searches the rest for a pulse, once in each event, and has the          *)
(* processes of PulseStats measure what it found.  Both are fed with the   *)
(* same stream, sample numbers and trigger and do not touch one another;   *)
(* a behaviour follows one of them.  The other window channels differ from *)
(* the first by their start.                                               *)
(***************************************************************************)
EXTENDS PulseStats

CONSTANTS
  Starts,        \* of the windows, a sequence; the first is GateStart
  WindowLen,     \* their width (92)
  PeakLen,       \* width of the gate of the peak search (10)
  OowDelay,      \* depth of boow_shift_ram (8)
  Threshold,     \* eeprom parameter beam_oow_threshold
  MinCycle       \* bound: the sample numbers find_beam_oow counts to before a trigger

ASSUME OowAssumption ==
  /\ Starts \in Seq(Nat) /\ Starts # << >> /\ Starts[1] = GateStart
  /\ WindowLen \in Nat /\ PeakLen \in Nat /\ OowDelay \in Nat \ {0} /\ Threshold \in Int
  /\ MinCycle \in 0 .. LastSample

VARIABLES
  window,        \* gen_gate of each window: state, pulse_hicnt
  peakfind,      \* gen_gate of the peak search
  search,        \* find_boow_pulse: state
  pulse_found,
  boow_dly,      \* boow_shift_ram
  masked,        \* history, with win: was the sample in its channel's window
  armed,         \* history: the last trigger found all windows idle
  found          \* history: the number of the sample that was found, if armed

oowVars == <<window, peakfind, search, pulse_found, boow_dly, masked, armed, found>>
vars    == <<pulseVars, oowVars>>

Windows  == DOMAIN Starts
IdleGate == [state |-> "IDLE", hicnt |-> 0]
NoNumber == -1

Init ==
  /\ PulseInit
  /\ window = [w \in Windows |-> IdleGate] /\ peakfind = IdleGate
  /\ search = "SEARCHING" /\ pulse_found = FALSE
  /\ boow_dly = [i \in 1 .. OowDelay |-> 0]
  /\ masked = << >> /\ armed = FALSE /\ found = NoNumber

-----------------------------------------------------------------------------

GateOpens(g, start) == g.state = "TRIGGERED" /\ samplenum >= start
Open(g) == g.state = "PULSE_HI"

\* Mutant: the counter is not loaded by the trigger.
Unloaded_GenGate(g, trig, start, len) ==
  CASE g.state = "IDLE"      -> IF trig THEN [g EXCEPT !.state = "TRIGGERED"] ELSE g
    [] g.state = "TRIGGERED" -> IF GateOpens(g, start) THEN [g EXCEPT !.state = "PULSE_HI"] ELSE g
    [] OTHER -> IF g.hicnt = 0 THEN IdleGate ELSE [g EXCEPT !.hicnt = @ - 1]

\* gen_gate: the next state of g; its output is high in PULSE_HI.
GenGate(g, trig, start, len) ==
  CASE g.state = "IDLE"      -> IF trig THEN [state |-> "TRIGGERED", hicnt |-> len] ELSE g
    [] g.state = "TRIGGERED" -> IF GateOpens(g, start) THEN [g EXCEPT !.state = "PULSE_HI"] ELSE g
    [] OTHER -> IF g.hicnt = 0 THEN IdleGate ELSE [g EXCEPT !.hicnt = @ - 1]

\* gate_or
InWindow == \E w \in Windows : Open(window[w])

\* Mutant: the samples in the windows are searched as well.
Unmasked_BoowData(d) == d

\* boow_adc_data
BoowData(d) == IF InWindow THEN 0 ELSE d

\* A sample higher by the threshold than the one of OowDelay clocks before.
Rises(b) == b > Signed(boow_dly[1] + Threshold)

FindBoowPulse(trig, b) ==
  /\ boow_dly' = Append(Tail(boow_dly), b)
  /\ \/ /\ search = "SEARCHING" /\ Rises(b)
        /\ pulse_found' = TRUE /\ search' = "WAITFORNEXTTRIGGER"
     \/ /\ search = "SEARCHING" /\ ~Rises(b)
        /\ pulse_found' = FALSE /\ UNCHANGED search
     \/ /\ search = "WAITFORNEXTTRIGGER"
        /\ pulse_found' = FALSE
        /\ search' = IF trig THEN "SEARCHING" ELSE search

WindowIdle(w) ==
  window[w].state = "IDLE"
    \/ (armed /\ window[w].state = "TRIGGERED" /\ ~GateOpens(window[w], Starts[w]))

Armed(trig) == armed' = IF trig THEN \A w \in Windows : WindowIdle(w) ELSE armed

\* find_beam_oow
FindBeamOow(trig, d) ==
  LET b == BoowData(d) IN
  /\ channel = "outside" /\ UNCHANGED channel
  /\ trig => samplenum >= MinCycle
  /\ SampleNum(trig)
  /\ FindBoowPulse(trig, b)
  /\ window' = [w \in Windows |-> GenGate(window[w], trig, Starts[w], WindowLen)]
  /\ peakfind' = GenGate(peakfind, pulse_found, 0, PeakLen)
  /\ GenGates(pulse_found, 0)
  /\ CalcBaseline(trig, dly[1]) /\ CalcIntegral(trig, dly[1])
  /\ FindPeak(trig, b, Open(peakfind)) /\ CalcFwhm(trig, baseline_val)
  /\ dly' = Append(Tail(dly), d)
  /\ History(trig, dly[1], AllIdle /\ peakfind.state = "IDLE" /\ ~pulse_found)
  /\ Armed(trig)
  /\ found' = IF pulse_found' THEN IF armed THEN samplenum ELSE NoNumber ELSE found
  /\ UNCHANGED <<fresh, masked>>

\* calc_beam_stats, next to the window that find_beam_oow has for it.
InChannel(trig, d) ==
  /\ BeamStats(trig, d)
  /\ window' = [window EXCEPT ![1] = GenGate(@, trig, Starts[1], WindowLen)]
  /\ masked' = IF Len(win') > Len(win) THEN Append(masked, Open(window[1]))
               ELSE IF win' = << >> THEN << >> ELSE masked
  /\ Armed(trig)
  /\ UNCHANGED <<peakfind, search, pulse_found, boow_dly, found>>

Next == \E trig \in BOOLEAN, d \in Samples : InChannel(trig, d) \/ FindBeamOow(trig, d)

Spec == Init /\ [][Next]_vars

-----------------------------------------------------------------------------
(* Properties.                                                             *)

TypeOK ==
  /\ PulseTypeOK
  /\ window \in [Windows -> [state : {"IDLE", "TRIGGERED", "PULSE_HI"}, hicnt : 0 .. WindowLen]]
  /\ peakfind \in [state : {"IDLE", "TRIGGERED", "PULSE_HI"}, hicnt : 0 .. PeakLen]
  /\ search \in {"SEARCHING", "WAITFORNEXTTRIGGER"} /\ {pulse_found, armed} \subseteq BOOLEAN
  /\ Len(boow_dly) = OowDelay /\ Len(masked) = IF channel = "window" THEN Len(win) ELSE 0
  /\ found \in {NoNumber} \cup 0 .. LastSample

\* No sample that is part of a channel's charge is searched for pulses outside
\* of the windows: gen_gates and gen_gate, two machines that are started by the
\* same trigger and count on their own, open and close in step.  (A trigger in
\* the two clocks between their ends starts one of them only.)
ChargeMasked == Measured /\ channel = "window" /\ armed => \A i \in IntegralWindow : masked[i]

\* What is reported as out of window is: its sample number lies in no window of
\* the event, if the trigger found the windows closed.  (A threshold above the
\* noise is taken for granted: the zeros put for the samples in a window are
\* compared with the samples before it, and a threshold below their distance
\* from zero finds the window itself.)
OnlyOutside ==
  pulse_found /\ found # NoNumber /\ (\A d \in Samples : d + Threshold >= 0) =>
    \A w \in Windows : found \notin Starts[w] + 1 .. Starts[w] + 1 + WindowLen

=============================================================================
