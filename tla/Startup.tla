-------------------------------- MODULE Startup --------------------------------
(***************************************************************************)
(* The events of a cycle as timing_events.vhd hands them on: a trigger     *)
(* opens beam_detect_window, at whose end the accumulator takes the        *)
(* charge, and counts in startup_dly, which holds a fault from the turn of *)
(* the key to run until accum_length triggers have passed, so that the     *)
(* accumulator has been filled.  The two counts are kept by two machines   *)
(* that know nothing of each other.                                        *)
(***************************************************************************)
EXTENDS Accumulator

VARIABLES
  beam_detect_window,   \* a trigger opened it and it has not ended
  keylock_last, startup_enb, startup_fault, startup_dly_cnt,
  since,                \* history: samples taken when the key was turned to run
  orderly               \* history: see StartupCovered

startupVars == <<keylock_last, startup_enb, startup_fault, startup_dly_cnt>>
cycleVars   == <<vars, beam_detect_window, startupVars, since, orderly>>

\* After the first pl_reset, when the logic has just been loaded.
CycleInit ==
  /\ Init
  /\ beam_detect_window = FALSE
  /\ keylock_last = FALSE /\ startup_enb = FALSE /\ startup_fault = TRUE /\ startup_dly_cnt = 0
  /\ since = 0 /\ orderly = FALSE

\* The key, TRUE for run and FALSE for edit, is read in every clock.
TurnedToRun(keylock) == keylock /\ ~keylock_last

\* Mutant: the trigger that finds one left ends the delay.
Early_StartupDly(trig, keylock) ==
  /\ keylock_last' = keylock
  /\ \/ /\ trig /\ startup_enb /\ startup_dly_cnt <= 1
        /\ startup_fault' = FALSE /\ startup_enb' = FALSE
        /\ startup_dly_cnt' = IF TurnedToRun(keylock) THEN accum_len ELSE startup_dly_cnt
     \/ /\ trig /\ startup_enb /\ startup_dly_cnt > 1
        /\ startup_dly_cnt' = startup_dly_cnt - 1
        /\ startup_fault' = (startup_fault \/ TurnedToRun(keylock)) /\ UNCHANGED startup_enb
     \/ /\ ~(trig /\ startup_enb) /\ TurnedToRun(keylock)
        /\ startup_enb' = TRUE /\ startup_fault' = TRUE /\ startup_dly_cnt' = accum_len
     \/ /\ ~(trig /\ startup_enb) /\ ~TurnedToRun(keylock)
        /\ UNCHANGED <<startup_enb, startup_fault, startup_dly_cnt>>

\* A clock of startup_dly.  A trigger in the clock that sees the key turned has
\* the last word on what both assign: the delay that is under way goes on, or
\* ends.
StartupDly(trig, keylock) ==
  /\ keylock_last' = keylock
  /\ \/ /\ trig /\ startup_enb /\ startup_dly_cnt = 0
        /\ startup_fault' = FALSE /\ startup_enb' = FALSE
        /\ startup_dly_cnt' = IF TurnedToRun(keylock) THEN accum_len ELSE startup_dly_cnt
     \/ /\ trig /\ startup_enb /\ startup_dly_cnt > 0
        /\ startup_dly_cnt' = startup_dly_cnt - 1
        /\ startup_fault' = (startup_fault \/ TurnedToRun(keylock)) /\ UNCHANGED startup_enb
     \/ /\ ~(trig /\ startup_enb) /\ TurnedToRun(keylock)
        /\ startup_enb' = TRUE /\ startup_fault' = TRUE /\ startup_dly_cnt' = accum_len
     \/ /\ ~(trig /\ startup_enb) /\ ~TurnedToRun(keylock)
        /\ UNCHANGED <<startup_enb, startup_fault, startup_dly_cnt>>

\* History: a clock may put the delay and the samples out of step; the turn of
\* the key puts them in step.
InStep(disorder, keylock) ==
  /\ orderly' = (~disorder /\ (orderly \/ TurnedToRun(keylock)))
  /\ since' = IF ~orderly' THEN 0 ELSE IF TurnedToRun(keylock) THEN Count ELSE since

\* A clock with the trigger of an event: the window opens unless it is open.  It
\* touches nothing the accumulator's work of a few clocks does, and is taken
\* before that or after it, as is KeyTurned.
EventTrig(keylock) ==
  /\ state = "IDLE"
  /\ StartupDly(TRUE, keylock)
  /\ beam_detect_window' = TRUE
  /\ InStep(IF TurnedToRun(keylock) THEN startup_enb ELSE beam_detect_window, keylock)
  /\ UNCHANGED vars

\* A clock without one that sees the key turned.
KeyTurned ==
  /\ state = "IDLE"
  /\ StartupDly(FALSE, ~keylock_last)
  /\ InStep(FALSE, ~keylock_last)
  /\ UNCHANGED <<vars, beam_detect_window>>

\* The 2000 clocks of the window are over; the accumulator has long been idle.
WindowEnds ==
  /\ beam_detect_window /\ beam_detect_window' = FALSE
  /\ Trig
  /\ UNCHANGED <<startupVars, since, orderly>>

\* The accumulator at work.
Accumulates ==
  /\ CalcAccum \/ Wait1 \/ UpdateDpram \/ UpdatePtrs
  /\ UNCHANGED <<beam_detect_window, startupVars, since, orderly>>

\* pl_reset: neither the window nor keylock_last is reset, so that a key that
\* stays in run position starts no delay: the fault stays until it is turned.
CycleReset ==
  /\ Reset
  /\ startup_dly_cnt' = 0 /\ startup_fault' = TRUE /\ startup_enb' = FALSE
  /\ since' = 0 /\ orderly' = FALSE
  /\ UNCHANGED <<beam_detect_window, keylock_last>>

SetLength ==
  /\ SetLen
  /\ since' = 0 /\ orderly' = FALSE
  /\ UNCHANGED <<beam_detect_window, startupVars>>

CycleNext ==
  \/ \E keylock \in BOOLEAN : EventTrig(keylock)
  \/ KeyTurned \/ WindowEnds \/ Accumulates \/ CycleReset \/ SetLength

CycleSpec == CycleInit /\ [][CycleNext]_cycleVars

-----------------------------------------------------------------------------
(* Properties.                                                             *)

\* When the startup fault goes, the accumulator holds accum_len samples taken
\* since the key was turned to run, and its sum covers the whole length, not
\* the part filled so far (startup_dly.vhd:43).  This is so if since the key
\* was turned every trigger found the window ended, the length did not change
\* and no pl_reset came, and unless the key was turned again during the delay,
\* in the very clock of a trigger.
StartupCovered == ~startup_fault /\ orderly => Count - since >= accum_len

=============================================================================
