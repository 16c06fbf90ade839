------------------------------- MODULE Waveform -------------------------------
(***************************************************************************)
(* The ADC waveform path: adc_data_rdout.vhd captures NumSamples samples   *)
(* into a FIFO after a trigger, and the wvfmdata thread polls the number   *)
(* of words in it, sends a waveform and the pulse statistics, and resets   *)
(* the FIFO.  Nothing tells the thread which trigger the words belong to.  *)
(*                                                                         *)
(* A word of the FIFO is the trigger it was captured for and its index.    *)
(***************************************************************************)
EXTENDS Naturals, Sequences

CONSTANTS
  NumSamples,   \* NUM_SAMPLES, WVFM_NUM_SAMPLES (16000)
  WaitWords,    \* WVFM_FIFO_WAIT_WORDS (8000)
  MinWords,     \* WVFM_FIFO_MIN_WORDS (15900)
  Depth,        \* words the FIFO holds (65536)
  NumPulses,    \* NUM_PULSES: groups of statistics registers
  MaxTrigs      \* bound: triggers

ASSUME WaveformAssumption ==
  /\ NumSamples \in Nat \ {0} /\ Depth \in Nat /\ Depth >= NumSamples
  /\ WaitWords \in 1 .. NumSamples
  /\ MinWords \in WaitWords .. NumSamples - 1
  /\ NumPulses \in Nat \ {0}
  /\ MaxTrigs \in Nat

VARIABLES
  trig,         \* triggers so far: the latest one's number
  state,        \* adc_data_rdout: IDLE or WR_FIFO
  sample_num,
  capture,      \* the trigger being captured
  fifo,
  fifo_rst,
  stats,        \* the trigger the pulse statistics registers describe
  pc,           \* step of wvfmdata_push
  wordcnt,      \* its local wordcnt
  polled,       \* the number of triggers when wordcnt was read
  trigger_count,
  words,        \* wvfm_adc: the words read so far
  pulse,        \* pulse_stats_msg_t: the trigger each group read belongs to
  sentWave,     \* the latest waveform sent
  sentStats,    \* the latest statistics sent, with their trig_cnt
  sends,        \* numbers of messages sent: waveforms, statistics
  spaced        \* history: every trigger came when the last was dealt with

hwVars   == <<trig, state, sample_num, capture, stats, spaced>>
fifoVars == <<fifo, fifo_rst>>
swVars   == <<wordcnt, polled, trigger_count, words, pulse, sentWave, sentStats, sends>>
vars     == <<hwVars, fifoVars, pc, swVars>>

Words == (1 .. MaxTrigs) \X (0 .. NumSamples - 1)
Underflow == <<0, 0>>     \* what a read of the empty FIFO returns

TypeOK ==
  /\ trig \in 0 .. MaxTrigs /\ capture \in 0 .. MaxTrigs /\ stats \in 0 .. MaxTrigs
  /\ state \in {"IDLE", "WR_FIFO"}
  /\ sample_num \in 0 .. NumSamples - 1
  /\ fifo \in Seq(Words) /\ Len(fifo) <= Depth
  /\ fifo_rst \in BOOLEAN
  /\ pc \in {"poll", "delay", "test", "words", "pulses", "rst", "unrst", "eeprom"}
  /\ wordcnt \in 0 .. Depth
  /\ polled \in 0 .. MaxTrigs
  /\ trigger_count \in Nat
  /\ words \in Seq(Words \cup {Underflow}) /\ Len(words) <= NumSamples
  /\ pulse \in Seq(0 .. MaxTrigs) /\ Len(pulse) <= NumPulses
  /\ sends \in [{"wave", "stats"} -> Nat]
  /\ spaced \in BOOLEAN

Init ==
  /\ trig = 0 /\ capture = 0 /\ stats = 0
  /\ state = "IDLE" /\ sample_num = 0
  /\ fifo = << >> /\ fifo_rst = FALSE
  /\ pc = "poll" /\ wordcnt = 0 /\ polled = 0 /\ trigger_count = 0
  /\ words = << >> /\ pulse = << >>
  /\ sentWave = << >> /\ sentStats = [pulse |-> << >>, trig_cnt |-> 0]
  /\ sends = [m \in {"wave", "stats"} |-> 0]
  /\ spaced = TRUE

-----------------------------------------------------------------------------
(* adc_data_rdout.vhd.                                                     *)

\* Capture and statistics are over, no word is left and the thread waits.
DealtWith ==
  /\ state = "IDLE" /\ stats = trig
  /\ fifo = << >> /\ pc \in {"poll", "delay"} /\ wordcnt < WaitWords

\* A trigger reaches the capture; it is ignored while one is under way.
Trigger ==
  /\ trig < MaxTrigs
  /\ trig' = trig + 1
  /\ spaced' = (spaced /\ DealtWith)
  /\ IF state = "IDLE" THEN state' = "WR_FIFO" /\ sample_num' = 0 /\ capture' = trig + 1
                       ELSE UNCHANGED <<state, sample_num, capture>>
  /\ UNCHANGED <<stats, fifoVars, pc, swVars>>

\* Mutant: the capture stops a sample early.
Short_Sample ==
  /\ state = "WR_FIFO"
  /\ fifo' = IF fifo_rst \/ Len(fifo) = Depth THEN fifo
                                              ELSE Append(fifo, <<capture, sample_num>>)
  /\ IF sample_num >= NumSamples - 2 THEN state' = "IDLE" /\ sample_num' = 0
                                     ELSE sample_num' = sample_num + 1 /\ UNCHANGED state
  /\ UNCHANGED <<trig, capture, stats, spaced, fifo_rst, pc, swVars>>

\* Mutant: sample_num is not set to zero for the next capture.
Stale_Sample ==
  /\ state = "WR_FIFO"
  /\ fifo' = IF fifo_rst \/ Len(fifo) = Depth THEN fifo
                                              ELSE Append(fifo, <<capture, sample_num>>)
  /\ sample_num' = sample_num + 1
  /\ state' = IF sample_num = NumSamples - 1 THEN "IDLE" ELSE state
  /\ UNCHANGED <<trig, capture, stats, spaced, fifo_rst, pc, swVars>>

\* One sample: written unless the FIFO is full or held in reset.
Sample ==
  /\ state = "WR_FIFO"
  /\ fifo' = IF fifo_rst \/ Len(fifo) = Depth THEN fifo
                                              ELSE Append(fifo, <<capture, sample_num>>)
  /\ IF sample_num = NumSamples - 1 THEN state' = "IDLE" /\ sample_num' = 0
                                    ELSE sample_num' = sample_num + 1 /\ UNCHANGED state
  /\ UNCHANGED <<trig, capture, stats, spaced, fifo_rst, pc, swVars>>

\* The statistics of the beam pulses of the latest trigger are ready.
StatsReady ==
  /\ stats # trig
  /\ stats' = trig
  /\ UNCHANGED <<trig, state, sample_num, capture, spaced, fifoVars, pc, swVars>>

-----------------------------------------------------------------------------
(* wvfmdata_push.                                                          *)

Go(from, to) == pc = from /\ pc' = to

\* wait_for_adc_fifo reads the word count and sleeps 100 ms in any case.
Poll ==
  /\ Go("poll", "delay")
  /\ wordcnt' = Len(fifo)
  /\ polled' = trig
  /\ UNCHANGED <<hwVars, fifoVars, trigger_count, words, pulse, sentWave, sentStats, sends>>

\* Mutant: the loop does not sleep before it tests the count.
NoDelay_Wake ==
  /\ pc = "delay"
  /\ pc' = IF wordcnt < WaitWords THEN "poll" ELSE "test"
  /\ trigger_count' = IF wordcnt < WaitWords THEN trigger_count ELSE trigger_count + 1
  /\ UNCHANGED <<hwVars, fifoVars, wordcnt, polled, words, pulse, sentWave, sentStats, sends>>

\* 100 ms is far longer than a capture and than the gates of the statistics
\* (16000 samples take 0.13 ms): what was under way when the count was read is
\* over.
Wake ==
  /\ pc = "delay"
  /\ state = "WR_FIFO" => capture > polled
  /\ stats >= polled
  /\ pc' = IF wordcnt < WaitWords THEN "poll" ELSE "test"
  /\ trigger_count' = IF wordcnt < WaitWords THEN trigger_count ELSE trigger_count + 1
  /\ UNCHANGED <<hwVars, fifoVars, wordcnt, polled, words, pulse, sentWave, sentStats, sends>>

\* The waveform is sent only if the count read before the delay was large.
Test ==
  /\ pc = "test"
  /\ pc' = IF wordcnt > MinWords THEN "words" ELSE "rst"
  /\ words' = << >> /\ pulse' = << >>
  /\ UNCHANGED <<hwVars, fifoVars, wordcnt, polled, trigger_count, sentWave, sentStats, sends>>

\* Mutant: the read strobe does not take the word from the FIFO.
Peek_ReadWord ==
  /\ pc = "words"
  /\ Len(words) < NumSamples
  /\ words' = Append(words, IF fifo = << >> THEN Underflow ELSE Head(fifo))
  /\ UNCHANGED <<hwVars, fifoVars, pc, wordcnt, polled, trigger_count, pulse,
                 sentWave, sentStats, sends>>

\* send_adc_waveform: NumSamples reads of the data register, then psc_send.
ReadWord ==
  /\ pc = "words"
  /\ Len(words) < NumSamples
  /\ IF fifo = << >> THEN words' = Append(words, Underflow) /\ UNCHANGED fifo
                     ELSE words' = Append(words, Head(fifo)) /\ fifo' = Tail(fifo)
  /\ UNCHANGED <<hwVars, fifo_rst, pc, wordcnt, polled, trigger_count, pulse,
                 sentWave, sentStats, sends>>

SendWave ==
  /\ Len(words) = NumSamples
  /\ Go("words", "pulses")
  /\ sentWave' = words
  /\ sends' = [sends EXCEPT !["wave"] = @ + 1]
  /\ UNCHANGED <<hwVars, fifoVars, wordcnt, polled, trigger_count, words, pulse, sentStats>>

\* send_pulse_stats: each group of registers is read on its own, then
\* send_timestamp, which reads the running time, not the trigger's.
ReadPulse ==
  /\ pc = "pulses"
  /\ Len(pulse) < NumPulses
  /\ pulse' = Append(pulse, stats)
  /\ UNCHANGED <<hwVars, fifoVars, pc, wordcnt, polled, trigger_count, words,
                 sentWave, sentStats, sends>>

SendStats ==
  /\ Len(pulse) = NumPulses
  /\ Go("pulses", "rst")
  /\ sentStats' = [pulse |-> pulse, trig_cnt |-> trigger_count]
  /\ sends' = [sends EXCEPT !["stats"] = @ + 1]
  /\ UNCHANGED <<hwVars, fifoVars, wordcnt, polled, trigger_count, words, pulse, sentWave>>

\* reset_adc_fifo asserts the reset, which empties the FIFO ...
Reset ==
  /\ Go("rst", "unrst")
  /\ fifo' = << >> /\ fifo_rst' = TRUE
  /\ UNCHANGED <<hwVars, swVars>>

\* Mutant: the reset stays asserted.
Held_Unreset ==
  /\ Go("unrst", "eeprom")
  /\ UNCHANGED <<hwVars, fifoVars, swVars>>

\* ... and releases it.
Unreset ==
  /\ Go("unrst", "eeprom")
  /\ fifo_rst' = FALSE
  /\ UNCHANGED <<hwVars, fifo, swVars>>

\* send_eeprom_data, and the loop starts again with a new local wordcnt.
SendEeprom ==
  /\ Go("eeprom", "poll")
  /\ wordcnt' = 0 /\ polled' = 0
  /\ UNCHANGED <<hwVars, fifoVars, trigger_count, words, pulse, sentWave, sentStats, sends>>

Hardware == Trigger \/ Sample \/ StatsReady
Push == \/ Poll \/ Wake \/ Test \/ ReadWord \/ SendWave \/ ReadPulse \/ SendStats
        \/ Reset \/ Unreset \/ SendEeprom

Next == Hardware \/ Push

Spec == Init /\ [][Next]_vars

\* The capture and the statistics run on their own clocks, the thread is
\* scheduled; triggers owe nothing.
FairSpec == Spec /\ WF_vars(Sample) /\ WF_vars(StatsReady) /\ WF_vars(Push)

-----------------------------------------------------------------------------
(* Properties.                                                             *)

\* With spaced triggers a waveform message is the whole capture of one
\* trigger, in order: the thread reads all of it although it tests a count
\* read 100 ms earlier and never looks at the capture's state.
WholeFrame ==
  spaced /\ sentWave # << >> =>
    \E k \in 1 .. trig : sentWave = [i \in 1 .. NumSamples |-> <<k, i - 1>>]

\* With spaced triggers the statistics sent after a waveform are all of the
\* waveform's trigger, and their trig_cnt is that trigger's number: the
\* firmware's count neither misses a trigger nor counts one twice.
StatsMatch ==
  spaced /\ sends["stats"] > 0 /\ sends["wave"] = sends["stats"] =>
    /\ \A i \in DOMAIN sentStats.pulse : sentStats.pulse[i] = sentWave[1][1]
    /\ sentStats.trig_cnt = sentWave[1][1]

\* With spaced triggers every trigger is counted in the end, also the one
\* whose frame is thrown away because it was polled while it filled.
Counted == \A k \in 1 .. MaxTrigs : trig >= k ~> trigger_count >= k \/ ~spaced

Before(a, b) == a[1] < b[1] \/ (a[1] = b[1] /\ a[2] < b[2])

\* For triggers at any time: no word is sent twice or out of order, within a
\* waveform or in a later one, except reads of the empty FIFO.
InOrder ==
  [][sentWave' # sentWave =>
       LET all == sentWave \o sentWave'
       IN  \A i, j \in DOMAIN all :
             i < j /\ all[i] # Underflow /\ all[j] # Underflow => Before(all[i], all[j])]_vars

=============================================================================
