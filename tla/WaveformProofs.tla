---------------------------- MODULE WaveformProofs ----------------------------
(***************************************************************************)
(* Proofs about Waveform, for every number of samples, FIFO depth, pair of *)
(* thresholds, number of pulse groups and number of triggers: the types,   *)
(* that no word is sent twice or out of order whenever triggers come, and  *)
(* that with spaced triggers a waveform is one capture and the statistics  *)
(* after it are that capture's.                                            *)
(***************************************************************************)
EXTENDS Waveform, TLAPS

\* What a read of the FIFO may return.
Reads == Words \cup {Underflow}

\* What holds for triggers at any time.
RunInv ==
  /\ capture <= trig /\ stats <= trig
  /\ state = "WR_FIFO" => capture > 0
  /\ fifo_rst <=> pc = "unrst"
  /\ sends["wave"] = sends["stats"] + (IF pc = "pulses" THEN 1 ELSE 0)
  /\ sentWave \in Seq(Reads)

-----------------------------------------------------------------------------
(* The order of the words.                                                 *)

\* Of two words neither of which is a read of the empty FIFO.
InTurn(v, w) == v # Underflow /\ w # Underflow => Before(v, w)

Sorted(s) == \A i, j \in DOMAIN s : i < j => InTurn(s[i], s[j])
Precedes(s, t) == \A i \in DOMAIN s, j \in DOMAIN t : InTurn(s[i], t[j])

\* The next word of the capture, or what lies behind its last one.
Horizon == <<capture, IF state = "WR_FIFO" THEN sample_num ELSE NumSamples>>
Past(s, h) == \A i \in DOMAIN s : s[i] # Underflow => Before(s[i], h)

\* What was sent comes before what is being read, that before what the FIFO
\* holds, and that before what is still to be captured.
WordOrder ==
  /\ Sorted(fifo) /\ Past(fifo, Horizon)
  /\ Sorted(sentWave) /\ Past(sentWave, Horizon) /\ Precedes(sentWave, fifo)
  /\ pc = "words" =>
       /\ Sorted(words) /\ Past(words, Horizon)
       /\ Precedes(words, fifo) /\ Precedes(sentWave, words)

-----------------------------------------------------------------------------
(* Spaced triggers.                                                        *)

\* s is n words of the latest trigger from its word a on.
Frame(s, a, n) == Len(s) = n /\ \A i \in 1 .. n : s[i] = <<trig, a + i - 1>>

\* The latest trigger is captured and not yet counted, or it is dealt with.
Pending ==
  /\ trig > 0 /\ trigger_count + 1 = trig
  /\ Frame(fifo, 0, IF state = "WR_FIFO" THEN sample_num ELSE NumSamples)
Done == state = "IDLE" /\ fifo = << >> /\ trigger_count = trig

Sending == {"test", "words", "pulses", "rst", "unrst", "eeprom"}

SpacedInv ==
  spaced =>
    /\ capture = trig
    /\ pc \in {"poll", "delay"} => Pending \/ Done
    /\ pc = "poll" => wordcnt < WaitWords
    /\ pc = "delay" => wordcnt <= Len(fifo) /\ (wordcnt >= WaitWords => polled = trig)
    /\ pc \in Sending => state = "IDLE" /\ stats = trig /\ trigger_count = trig /\ trig > 0
    /\ pc = "test" => Frame(fifo, 0, NumSamples)
    /\ pc = "words" => /\ Frame(words, 0, Len(words))
                       /\ Frame(fifo, Len(words), NumSamples - Len(words))
                       /\ pulse = << >>
    /\ pc = "pulses" => Frame(sentWave, 0, NumSamples) /\ \A i \in DOMAIN pulse : pulse[i] = trig
    /\ pc \in {"unrst", "eeprom"} => fifo = << >>
    /\ WholeFrame /\ StatsMatch
-----------------------------------------------------------------------------
(* Types.                                                                  *)

LEMMA Constants ==
  /\ NumSamples \in Nat /\ NumSamples > 0 /\ Depth \in Nat /\ Depth >= NumSamples
  /\ WaitWords \in Nat /\ WaitWords > 0 /\ MaxTrigs \in Nat /\ NumPulses \in Nat
BY WaveformAssumption

LEMMA AppendType ==
  ASSUME NEW S, NEW s \in Seq(S), NEW e \in S
  PROVE  /\ Append(s, e) \in Seq(S) /\ Len(s) \in Nat /\ Len(Append(s, e)) = Len(s) + 1
         /\ DOMAIN s = 1 .. Len(s) /\ DOMAIN Append(s, e) = 1 .. Len(s) + 1
         /\ Append(s, e)[Len(s) + 1] = e
         /\ \A i \in 1 .. Len(s) : Append(s, e)[i] = s[i]
OBVIOUS

LEMMA TailType ==
  ASSUME NEW S, NEW s \in Seq(S), s # << >>
  PROVE  /\ Tail(s) \in Seq(S) /\ Head(s) \in S /\ Len(s) \in Nat /\ Len(s) > 0
         /\ Len(Tail(s)) = Len(s) - 1 /\ Head(s) = s[1]
         /\ DOMAIN s = 1 .. Len(s) /\ DOMAIN Tail(s) = 1 .. Len(s) - 1
         /\ \A i \in 1 .. Len(s) - 1 : Tail(s)[i] = s[i + 1]
OBVIOUS

LEMMA EmptyType ==
  ASSUME NEW S
  PROVE  << >> \in Seq(S) /\ Len(<< >>) = 0 /\ \A s \in Seq(S) : s = << >> <=> Len(s) = 0
OBVIOUS

LEMMA InitRun == Init => TypeOK /\ RunInv
<1> SUFFICES ASSUME Init PROVE TypeOK /\ RunInv  OBVIOUS
<1> USE Constants
<1>1. TypeOK
  <2>1. /\ << >> \in Seq(Words) /\ << >> \in Seq(Words \cup {Underflow})
        /\ << >> \in Seq(0 .. MaxTrigs) /\ Len(<< >>) = 0
    OBVIOUS
  <2>2. sends \in [{"wave", "stats"} -> Nat]  BY DEF Init
  <2>3. 0 \in 0 .. MaxTrigs /\ 0 \in 0 .. NumSamples - 1 /\ 0 \in 0 .. Depth  OBVIOUS
  <2>4. /\ fifo \in Seq(Words) /\ words \in Seq(Words \cup {Underflow})
        /\ pulse \in Seq(0 .. MaxTrigs)
        /\ Len(fifo) <= Depth /\ Len(words) <= NumSamples /\ Len(pulse) <= NumPulses
    <3>1. fifo = << >> /\ words = << >> /\ pulse = << >>  BY DEF Init
    <3> QED BY <2>1, <3>1
  <2>5. /\ trig \in 0 .. MaxTrigs /\ capture \in 0 .. MaxTrigs /\ stats \in 0 .. MaxTrigs
        /\ state \in {"IDLE", "WR_FIFO"} /\ sample_num \in 0 .. NumSamples - 1
        /\ fifo_rst \in BOOLEAN /\ spaced \in BOOLEAN /\ pc = "poll"
        /\ wordcnt \in 0 .. Depth /\ polled \in 0 .. MaxTrigs /\ trigger_count \in Nat
    BY <2>3 DEF Init
  <2> QED BY <2>2, <2>4, <2>5 DEF TypeOK
<1>2. RunInv
  <2>1. << >> \in Seq(Reads)  OBVIOUS
  <2> QED BY <2>1 DEF Init, RunInv
<1> QED BY <1>1, <1>2

\* The words and the FIFO a step may leave.
LEMMA NextTypeOK == TypeOK /\ RunInv /\ [Next]_vars => TypeOK'
<1> SUFFICES ASSUME TypeOK, RunInv, [Next]_vars PROVE TypeOK'  OBVIOUS
<1> USE Constants DEF hwVars, fifoVars, swVars
<1>1. CASE UNCHANGED vars  BY <1>1 DEF vars, TypeOK
<1>2. CASE Trigger  BY <1>2 DEF Trigger, TypeOK
<1>3. CASE Sample
  <2>1. <<capture, sample_num>> \in Words
    <3>1. capture \in 1 .. MaxTrigs /\ sample_num \in 0 .. NumSamples - 1
      BY <1>3 DEF Sample, TypeOK, RunInv
    <3> QED BY <3>1 DEF Words
  <2>2. fifo' \in Seq(Words) /\ Len(fifo') <= Depth
    BY <1>3, <2>1, AppendType DEF Sample, TypeOK
  <2>3. sample_num' \in 0 .. NumSamples - 1 /\ state' \in {"IDLE", "WR_FIFO"}
    BY <1>3 DEF Sample, TypeOK
  <2> QED BY <1>3, <2>2, <2>3 DEF Sample, TypeOK
<1>4. CASE StatsReady  BY <1>4 DEF StatsReady, TypeOK
<1>5. CASE Poll
  <2>1. Len(fifo) \in 0 .. Depth  BY DEF TypeOK
  <2> QED BY <1>5, <2>1 DEF Poll, Go, TypeOK
<1>6. CASE Wake  BY <1>6 DEF Wake, TypeOK
<1>7. CASE Test  BY <1>7, EmptyType DEF Test, TypeOK
<1>8. CASE ReadWord
  <2>1. /\ fifo' \in Seq(Words) /\ Len(fifo') <= Depth
        /\ words' \in Seq(Words \cup {Underflow}) /\ Len(words') <= NumSamples
    <3>1. CASE fifo = << >>
      <4>1. words' = Append(words, Underflow) /\ fifo' = fifo /\ Len(words) < NumSamples
        BY <1>8, <3>1 DEF ReadWord
      <4>2. words \in Seq(Words \cup {Underflow}) /\ Underflow \in Words \cup {Underflow}
        BY DEF TypeOK
      <4>3. words' \in Seq(Words \cup {Underflow}) /\ Len(words') = Len(words) + 1
            /\ Len(words) \in Nat
        BY <4>1, <4>2, AppendType
      <4> QED BY <4>1, <4>3 DEF TypeOK
    <3>2. CASE fifo # << >>
      <4>1. Head(fifo) \in Words \cup {Underflow} /\ Tail(fifo) \in Seq(Words)
            /\ Len(Tail(fifo)) <= Depth
        BY <3>2, TailType DEF TypeOK
      <4>2. words' = Append(words, Head(fifo)) /\ fifo' = Tail(fifo) /\ Len(words) < NumSamples
        BY <1>8, <3>2 DEF ReadWord
      <4>3. words \in Seq(Words \cup {Underflow})  BY DEF TypeOK
      <4>4. words' \in Seq(Words \cup {Underflow}) /\ Len(words') = Len(words) + 1
            /\ Len(words) \in Nat
        BY <4>1, <4>2, <4>3, AppendType
      <4> QED BY <4>1, <4>2, <4>4
    <3> QED BY <3>1, <3>2
  <2> QED BY <1>8, <2>1 DEF ReadWord, TypeOK
<1>9. CASE SendWave  BY <1>9 DEF SendWave, Go, TypeOK
<1>10. CASE ReadPulse
  <2>1. pulse' \in Seq(0 .. MaxTrigs) /\ Len(pulse') <= NumPulses
    BY <1>10, AppendType DEF ReadPulse, TypeOK
  <2> QED BY <1>10, <2>1 DEF ReadPulse, TypeOK
<1>11. CASE SendStats  BY <1>11 DEF SendStats, Go, TypeOK
<1>12. CASE Reset  BY <1>12, EmptyType DEF Reset, Go, TypeOK
<1>13. CASE Unreset  BY <1>13 DEF Unreset, Go, TypeOK
<1>14. CASE SendEeprom  BY <1>14 DEF SendEeprom, Go, TypeOK
<1> QED
  BY <1>1, <1>2, <1>3, <1>4, <1>5, <1>6, <1>7, <1>8, <1>9, <1>10, <1>11, <1>12, <1>13, <1>14
  DEF Next, Hardware, Push

LEMMA NextRunInv == TypeOK /\ RunInv /\ [Next]_vars => RunInv'
<1> SUFFICES ASSUME TypeOK, RunInv, [Next]_vars PROVE RunInv'  OBVIOUS
<1> USE Constants DEF hwVars, fifoVars, swVars
<1>1. CASE UNCHANGED vars  BY <1>1 DEF vars, RunInv
<1>2. CASE Trigger  BY <1>2 DEF Trigger, TypeOK, RunInv
<1>3. CASE Sample  BY <1>3 DEF Sample, RunInv
<1>4. CASE StatsReady  BY <1>4 DEF StatsReady, TypeOK, RunInv
<1>5. CASE Poll \/ Wake \/ Test \/ ReadWord \/ ReadPulse \/ SendEeprom
  BY <1>5 DEF Poll, Wake, Test, ReadWord, ReadPulse, SendEeprom, Go, RunInv
<1>6. CASE SendWave
  <2>1. sends'["wave"] = sends["wave"] + 1 /\ sends'["stats"] = sends["stats"]
        /\ pc = "words" /\ pc' = "pulses" /\ sends["stats"] \in Nat
    BY <1>6 DEF SendWave, Go, TypeOK
  <2>2. sentWave' \in Seq(Reads)  BY <1>6 DEF SendWave, TypeOK, Reads
  <2> QED BY <1>6, <2>1, <2>2 DEF SendWave, RunInv
<1>7. CASE SendStats
  <2>1. sends'["wave"] = sends["wave"] /\ sends'["stats"] = sends["stats"] + 1
        /\ pc = "pulses" /\ pc' = "rst" /\ sends["stats"] \in Nat
    BY <1>7 DEF SendStats, Go, TypeOK
  <2> QED BY <1>7, <2>1 DEF SendStats, RunInv
<1>8. CASE Reset \/ Unreset  BY <1>8 DEF Reset, Unreset, Go, RunInv
<1> QED
  BY <1>1, <1>2, <1>3, <1>4, <1>5, <1>6, <1>7, <1>8 DEF Next, Hardware, Push
-----------------------------------------------------------------------------
(* Rows of words.                                                          *)

Pair == Nat \X Nat

LEMMA ReadsArePairs ==
  /\ Reads \subseteq Pair
  /\ \A v \in Pair : v[1] \in Nat /\ v[2] \in Nat /\ v = <<v[1], v[2]>>
  /\ Underflow \in Reads /\ Words \subseteq Reads
BY DEF Reads, Words, Pair, Underflow

LEMMA BeforeTransitive ==
  ASSUME NEW u \in Pair, NEW v \in Pair, NEW w \in Pair, Before(u, v), Before(v, w)
  PROVE  Before(u, w)
BY ReadsArePairs DEF Before

LEMMA SeqDomain ==
  ASSUME NEW S, NEW s \in Seq(S)
  PROVE  Len(s) \in Nat /\ DOMAIN s = 1 .. Len(s) /\ \A i \in DOMAIN s : s[i] \in S
OBVIOUS

LEMMA PastGrows ==
  ASSUME NEW s \in Seq(Reads), NEW h \in Pair, NEW g \in Pair, Past(s, h),
         g = h \/ Before(h, g)
  PROVE  Past(s, g)
<1> SUFFICES ASSUME NEW i \in DOMAIN s, s[i] # Underflow PROVE Before(s[i], g)
  BY DEF Past
<1>1. Before(s[i], h)  BY DEF Past
<1>2. s[i] \in Pair  BY SeqDomain, ReadsArePairs
<1> QED BY <1>1, <1>2, BeforeTransitive

LEMMA AppendSorted ==
  ASSUME NEW s \in Seq(Reads), NEW e \in Reads, Sorted(s), e # Underflow => Past(s, e)
  PROVE  Sorted(Append(s, e))
<1> DEFINE t == Append(s, e)
<1>1. /\ Len(s) \in Nat /\ DOMAIN s = 1 .. Len(s) /\ DOMAIN t = 1 .. Len(s) + 1
      /\ t[Len(s) + 1] = e /\ \A i \in 1 .. Len(s) : t[i] = s[i]
  BY AppendType
<1> HIDE DEF t
<1> SUFFICES ASSUME NEW i \in DOMAIN t, NEW j \in DOMAIN t, i < j PROVE InTurn(t[i], t[j])
  BY DEF Sorted, t
<1>2. i \in DOMAIN s /\ t[i] = s[i]  BY <1>1
<1>3. CASE j = Len(s) + 1  BY <1>1, <1>2, <1>3 DEF Past, InTurn
<1>4. CASE j # Len(s) + 1
  <2>1. j \in DOMAIN s /\ t[j] = s[j]  BY <1>1, <1>4
  <2> QED BY <1>2, <2>1 DEF Sorted
<1> QED BY <1>3, <1>4

LEMMA AppendPast ==
  ASSUME NEW s \in Seq(Reads), NEW e \in Reads, NEW h, Past(s, h), e # Underflow => Before(e, h)
  PROVE  Past(Append(s, e), h)
<1> DEFINE t == Append(s, e)
<1>1. /\ Len(s) \in Nat /\ DOMAIN s = 1 .. Len(s) /\ DOMAIN t = 1 .. Len(s) + 1
      /\ t[Len(s) + 1] = e /\ \A i \in 1 .. Len(s) : t[i] = s[i]
  BY AppendType
<1> HIDE DEF t
<1> SUFFICES ASSUME NEW i \in DOMAIN t, t[i] # Underflow PROVE Before(t[i], h)
  BY DEF Past, t
<1>2. CASE i = Len(s) + 1  BY <1>1, <1>2
<1>3. CASE i # Len(s) + 1
  <2>1. i \in DOMAIN s /\ t[i] = s[i]  BY <1>1, <1>3
  <2> QED BY <2>1 DEF Past
<1> QED BY <1>2, <1>3

LEMMA AppendAfter ==
  ASSUME NEW s \in Seq(Reads), NEW t \in Seq(Reads), NEW e \in Reads,
         Precedes(s, t), e # Underflow => Past(s, e)
  PROVE  Precedes(s, Append(t, e))
<1> DEFINE u == Append(t, e)
<1>1. /\ Len(t) \in Nat /\ DOMAIN t = 1 .. Len(t) /\ DOMAIN u = 1 .. Len(t) + 1
      /\ u[Len(t) + 1] = e /\ \A i \in 1 .. Len(t) : u[i] = t[i]
  BY AppendType
<1> HIDE DEF u
<1> SUFFICES ASSUME NEW i \in DOMAIN s, NEW j \in DOMAIN u PROVE InTurn(s[i], u[j])
  BY DEF Precedes, u
<1>2. CASE j = Len(t) + 1  BY <1>1, <1>2 DEF Past, InTurn
<1>3. CASE j # Len(t) + 1
  <2>1. j \in DOMAIN t /\ u[j] = t[j]  BY <1>1, <1>3
  <2> QED BY <2>1 DEF Precedes
<1> QED BY <1>2, <1>3

LEMMA AppendBefore ==
  ASSUME NEW s \in Seq(Reads), NEW t \in Seq(Reads), NEW e \in Reads,
         Precedes(s, t), \A j \in DOMAIN t : InTurn(e, t[j])
  PROVE  Precedes(Append(s, e), t)
<1> DEFINE u == Append(s, e)
<1>1. /\ Len(s) \in Nat /\ DOMAIN s = 1 .. Len(s) /\ DOMAIN u = 1 .. Len(s) + 1
      /\ u[Len(s) + 1] = e /\ \A i \in 1 .. Len(s) : u[i] = s[i]
  BY AppendType
<1> HIDE DEF u
<1> SUFFICES ASSUME NEW i \in DOMAIN u, NEW j \in DOMAIN t PROVE InTurn(u[i], t[j])
  BY DEF Precedes, u
<1>2. CASE i = Len(s) + 1  BY <1>1, <1>2
<1>3. CASE i # Len(s) + 1
  <2>1. i \in DOMAIN s /\ u[i] = s[i]  BY <1>1, <1>3
  <2> QED BY <2>1 DEF Precedes
<1> QED BY <1>2, <1>3

\* What the first word leaves behind it.
LEMMA TailSorted ==
  ASSUME NEW s \in Seq(Reads), s # << >>, Sorted(s)
  PROVE  Sorted(Tail(s)) /\ \A j \in DOMAIN Tail(s) : InTurn(Head(s), Tail(s)[j])
<1> DEFINE t == Tail(s)
<1>1. /\ Len(s) \in Nat /\ Len(s) > 0 /\ DOMAIN s = 1 .. Len(s) /\ DOMAIN t = 1 .. Len(s) - 1
      /\ Head(s) = s[1] /\ \A i \in 1 .. Len(s) - 1 : t[i] = s[i + 1]
  BY TailType
<1> HIDE DEF t
<1>2. \A j \in DOMAIN t : t[j] = s[j + 1] /\ j + 1 \in DOMAIN s /\ 1 < j + 1 /\ 1 \in DOMAIN s
  BY <1>1
<1>3. \A j \in DOMAIN t : InTurn(Head(s), t[j])  BY <1>1, <1>2 DEF Sorted
<1>4. ASSUME NEW i \in DOMAIN t, NEW j \in DOMAIN t, i < j PROVE InTurn(t[i], t[j])
  <2>1. i + 1 < j + 1  BY <1>1, <1>4
  <2> QED BY <1>2, <2>1 DEF Sorted
<1> QED BY <1>3, <1>4 DEF Sorted, t

LEMMA TailOrder ==
  ASSUME NEW r \in Seq(Reads), NEW s \in Seq(Reads), s # << >>, NEW h
  PROVE  /\ Past(s, h) => Past(Tail(s), h) /\ (Head(s) # Underflow => Before(Head(s), h))
         /\ Precedes(r, s) => Precedes(r, Tail(s)) /\ (Head(s) # Underflow => Past(r, Head(s)))
<1> DEFINE t == Tail(s)
<1>1. /\ Len(s) \in Nat /\ Len(s) > 0 /\ DOMAIN s = 1 .. Len(s) /\ DOMAIN t = 1 .. Len(s) - 1
      /\ Head(s) = s[1] /\ \A i \in 1 .. Len(s) - 1 : t[i] = s[i + 1]
  BY TailType
<1> HIDE DEF t
<1>2. 1 \in DOMAIN s /\ \A j \in DOMAIN t : t[j] = s[j + 1] /\ j + 1 \in DOMAIN s
  BY <1>1
<1>3. Past(s, h) => Past(t, h) /\ (Head(s) # Underflow => Before(Head(s), h))
  BY <1>1, <1>2 DEF Past
<1>4. Precedes(r, s) => Precedes(r, t) /\ (Head(s) # Underflow => Past(r, Head(s)))
  BY <1>1, <1>2 DEF Past, Precedes, InTurn
<1> QED BY <1>3, <1>4 DEF t

LEMMA ConcatSorted ==
  ASSUME NEW s \in Seq(Reads), NEW t \in Seq(Reads), Sorted(s), Sorted(t), Precedes(s, t)
  PROVE  Sorted(s \o t)
<1> DEFINE u == s \o t
<1>1. /\ Len(s) \in Nat /\ DOMAIN s = 1 .. Len(s) /\ Len(t) \in Nat /\ DOMAIN t = 1 .. Len(t)
      /\ DOMAIN u = 1 .. Len(s) + Len(t)
      /\ \A i \in DOMAIN u : u[i] = IF i <= Len(s) THEN s[i] ELSE t[i - Len(s)]
  OBVIOUS
<1> HIDE DEF u
<1> SUFFICES ASSUME NEW i \in DOMAIN u, NEW j \in DOMAIN u, i < j PROVE InTurn(u[i], u[j])
  BY DEF Sorted, u
<1>2. CASE j <= Len(s)
  <2>1. i \in DOMAIN s /\ j \in DOMAIN s /\ u[i] = s[i] /\ u[j] = s[j]  BY <1>1, <1>2
  <2> QED BY <2>1 DEF Sorted
<1>3. CASE i <= Len(s) /\ ~(j <= Len(s))
  <2>1. i \in DOMAIN s /\ j - Len(s) \in DOMAIN t /\ u[i] = s[i] /\ u[j] = t[j - Len(s)]
    BY <1>1, <1>3
  <2> QED BY <2>1 DEF Precedes
<1>4. CASE ~(i <= Len(s))
  <2>1. /\ i - Len(s) \in DOMAIN t /\ j - Len(s) \in DOMAIN t /\ i - Len(s) < j - Len(s)
        /\ u[i] = t[i - Len(s)] /\ u[j] = t[j - Len(s)]
    BY <1>1, <1>4
  <2> QED BY <2>1 DEF Sorted
<1> QED BY <1>1, <1>2, <1>3, <1>4
-----------------------------------------------------------------------------
(* Every step keeps the order.                                             *)

LEMMA InitOrder == Init => WordOrder
<1> SUFFICES ASSUME Init PROVE WordOrder  OBVIOUS
<1>1. fifo = << >> /\ sentWave = << >> /\ pc = "poll"  BY DEF Init
<1>2. DOMAIN << >> = {}  OBVIOUS
<1> QED BY <1>1, <1>2 DEF WordOrder, Sorted, Past, Precedes

LEMMA Typed ==
  ASSUME TypeOK, RunInv
  PROVE  /\ fifo \in Seq(Reads) /\ words \in Seq(Reads) /\ sentWave \in Seq(Reads)
         /\ Horizon \in Pair
<1>1. fifo \in Seq(Reads)
  <2>1. fifo \in Seq(Words)  BY DEF TypeOK
  <2> QED BY <2>1 DEF Reads
<1>2. Horizon \in Pair  BY Constants DEF TypeOK, Horizon, Pair
<1> QED BY <1>1, <1>2 DEF TypeOK, RunInv, Reads

\* The rows stand still and the horizon does not come back.
LEMMA RowsKept ==
  ASSUME TypeOK, RunInv, WordOrder, TypeOK', RunInv',
         UNCHANGED <<fifo, words, sentWave>>, pc' = "words" => pc = "words",
         Horizon' = Horizon \/ Before(Horizon, Horizon')
  PROVE  WordOrder'
<1>1. /\ fifo \in Seq(Reads) /\ words \in Seq(Reads) /\ sentWave \in Seq(Reads)
      /\ Horizon \in Pair
  BY Typed
<1>2. Horizon' \in Pair
  <2>1. /\ capture' \in Nat /\ sample_num' \in Nat /\ state' \in {"IDLE", "WR_FIFO"}
    BY Constants DEF TypeOK
  <2> QED BY <2>1, Constants DEF Horizon, Pair
<1>3. \A s \in Seq(Reads) : Past(s, Horizon) => Past(s, Horizon')
  BY <1>1, <1>2, PastGrows
<1>4. Past(fifo, Horizon') /\ Past(sentWave, Horizon')  BY <1>1, <1>3 DEF WordOrder
<1>5. pc = "words" => Past(words, Horizon')  BY <1>1, <1>3 DEF WordOrder
<1> QED BY <1>4, <1>5 DEF WordOrder

LEMMA NextWordOrder ==
  ASSUME TypeOK, RunInv, WordOrder, TypeOK', RunInv', [Next]_vars
  PROVE  WordOrder'
<1> USE Constants DEF hwVars, fifoVars, swVars
<1>0. /\ fifo \in Seq(Reads) /\ words \in Seq(Reads) /\ sentWave \in Seq(Reads)
      /\ Horizon \in Pair
  BY Typed
<1>1. ASSUME UNCHANGED <<state, sample_num, capture>> PROVE Horizon' = Horizon
  BY <1>1 DEF Horizon
<1>2. CASE UNCHANGED vars  BY <1>1, <1>2, RowsKept DEF vars
<1>3. CASE Trigger
  <2>1. Horizon' = Horizon \/ Before(Horizon, Horizon')
    <3>1. CASE state = "IDLE"
      <4>1. Horizon' = <<trig + 1, 0>> /\ Horizon = <<capture, NumSamples>>
        BY <1>3, <3>1 DEF Trigger, Horizon
      <4>2. capture < trig + 1  BY DEF TypeOK, RunInv
      <4> QED BY <4>1, <4>2 DEF Before
    <3>2. CASE state # "IDLE"  BY <1>1, <1>3, <3>2 DEF Trigger
    <3> QED BY <3>1, <3>2
  <2> QED BY <1>3, <2>1, RowsKept DEF Trigger
\* The word captured is the horizon, which then moves on.
<1>4. CASE Sample
  <2>1. /\ Horizon = <<capture, sample_num>> /\ Horizon' = <<capture, sample_num + 1>>
    BY <1>4 DEF Sample, TypeOK, Horizon
  <2>2. Before(Horizon, Horizon') /\ Horizon' \in Pair
    <3>1. capture \in Nat /\ sample_num \in Nat  BY DEF TypeOK
    <3> QED BY ONLY <2>1, <3>1 DEF Before, Pair
  <2>3. Horizon \in Reads
    <3>1. capture \in 1 .. MaxTrigs /\ sample_num \in 0 .. NumSamples - 1
      BY <1>4 DEF Sample, TypeOK, RunInv
    <3> QED BY <2>1, <3>1 DEF Words, Reads
  <2>4. \A s \in Seq(Reads) : Past(s, Horizon) => Past(s, Horizon')
    BY <1>0, <2>2, PastGrows
  <2>5. fifo' = fifo \/ fifo' = Append(fifo, Horizon)
    BY <1>4, <2>1 DEF Sample
  <2>6. /\ Sorted(fifo) /\ Past(fifo, Horizon) /\ Sorted(sentWave) /\ Past(sentWave, Horizon)
        /\ Precedes(sentWave, fifo)
        /\ pc = "words" => /\ Sorted(words) /\ Past(words, Horizon)
                           /\ Precedes(words, fifo) /\ Precedes(sentWave, words)
    BY DEF WordOrder
  <2>7. Sorted(fifo')  BY <1>0, <2>3, <2>5, <2>6, AppendSorted
  <2>8. Past(fifo', Horizon')
    <3>1. Past(fifo, Horizon')  BY <1>0, <2>4, <2>6
    <3> QED BY <1>0, <2>2, <2>3, <2>5, <3>1, AppendPast
  <2>9. Precedes(sentWave, fifo')  BY <1>0, <2>3, <2>5, <2>6, AppendAfter
  <2>10. pc = "words" => Precedes(words, fifo')  BY <1>0, <2>3, <2>5, <2>6, AppendAfter
  <2>11. Past(sentWave, Horizon') /\ (pc = "words" => Past(words, Horizon'))
    BY <1>0, <2>4, <2>6
  <2>12. UNCHANGED <<pc, words, sentWave>>  BY <1>4 DEF Sample
  <2> QED BY <2>6, <2>7, <2>8, <2>9, <2>10, <2>11, <2>12 DEF WordOrder
<1>5. CASE StatsReady \/ Poll \/ Wake \/ ReadPulse \/ SendStats \/ Unreset \/ SendEeprom
  <2>1. Horizon' = Horizon
    BY <1>1, <1>5 DEF StatsReady, Poll, Wake, ReadPulse, SendStats, Unreset, SendEeprom
  <2> QED
    BY <1>5, <2>1, RowsKept
    DEF StatsReady, Poll, Wake, ReadPulse, SendStats, Unreset, SendEeprom, Go
<1>6. CASE Test
  <2>1. UNCHANGED <<fifo, sentWave>> /\ words' = << >>  BY <1>6 DEF Test
  <2>2. Horizon' = Horizon  BY <1>1, <1>6 DEF Test
  <2>3. DOMAIN << >> = {}  OBVIOUS
  <2>4. Sorted(words') /\ Past(words', Horizon) /\ Precedes(words', fifo)
        /\ Precedes(sentWave, words')
    BY <2>1, <2>3 DEF Sorted, Past, Precedes
  <2> QED BY <2>1, <2>2, <2>4 DEF WordOrder
\* The word read is the first of the FIFO, or none.
<1>7. CASE ReadWord
  <2>1. /\ pc = "words" /\ UNCHANGED <<pc, sentWave>>
        /\ \/ fifo' = fifo /\ words' = Append(words, Underflow)
           \/ fifo # << >> /\ fifo' = Tail(fifo) /\ words' = Append(words, Head(fifo))
    BY <1>7 DEF ReadWord
  <2>2. Horizon' = Horizon  BY <1>1, <1>7 DEF ReadWord
  <2>3. /\ Sorted(fifo) /\ Past(fifo, Horizon) /\ Sorted(sentWave) /\ Past(sentWave, Horizon)
        /\ Precedes(sentWave, fifo) /\ Sorted(words) /\ Past(words, Horizon)
        /\ Precedes(words, fifo) /\ Precedes(sentWave, words)
    BY <2>1 DEF WordOrder
  <2>4. CASE fifo' = fifo /\ words' = Append(words, Underflow)
    <3>1. Underflow \in Reads /\ \A w : InTurn(Underflow, w)  BY DEF Reads, InTurn
    <3>2. Sorted(words')  BY <1>0, <2>3, <2>4, <3>1, AppendSorted
    <3>3. Past(words', Horizon)  BY <1>0, <2>3, <2>4, <3>1, AppendPast
    <3>4. Precedes(words', fifo)  BY <1>0, <2>3, <2>4, <3>1, AppendBefore
    <3>5. Precedes(sentWave, words')  BY <1>0, <2>3, <2>4, <3>1, AppendAfter
    <3> QED BY <2>1, <2>2, <2>3, <2>4, <3>2, <3>3, <3>4, <3>5 DEF WordOrder
  <2>5. CASE fifo # << >> /\ fifo' = Tail(fifo) /\ words' = Append(words, Head(fifo))
    <3> PICK f \in Seq(Reads) : f = fifo  BY <1>0
    <3> PICK e : e = Head(f)  OBVIOUS
    <3>1. e \in Reads /\ Tail(f) \in Seq(Reads) /\ f # << >>  BY <2>5, TailType
    <3>2. Sorted(Tail(f)) /\ \A j \in DOMAIN Tail(f) : InTurn(e, Tail(f)[j])
      BY <2>3, <3>1, TailSorted
    <3>3. Past(Tail(f), Horizon) /\ (e # Underflow => Before(e, Horizon))
      BY <2>3, <3>1, TailOrder
    <3>4. Precedes(sentWave, Tail(f)) /\ (e # Underflow => Past(sentWave, e))
      BY <1>0, <2>3, <3>1, TailOrder
    <3>5. Precedes(words, Tail(f)) /\ (e # Underflow => Past(words, e))
      BY <1>0, <2>3, <3>1, TailOrder
    <3>6. words' = Append(words, e) /\ fifo' = Tail(f)  BY <2>5
    <3>7. Sorted(words')  BY <1>0, <2>3, <3>1, <3>5, <3>6, AppendSorted
    <3>8. Past(words', Horizon)  BY <1>0, <2>3, <3>1, <3>3, <3>6, AppendPast
    <3>9. Precedes(words', fifo')  BY <1>0, <3>1, <3>2, <3>5, <3>6, AppendBefore
    <3>10. Precedes(sentWave, words')  BY <1>0, <2>3, <3>1, <3>4, <3>6, AppendAfter
    <3> QED
      BY <2>1, <2>2, <2>3, <3>2, <3>3, <3>4, <3>6, <3>7, <3>8, <3>9, <3>10 DEF WordOrder
  <2> QED BY <2>1, <2>4, <2>5
<1>8. CASE SendWave
  <2>1. pc = "words" /\ pc' = "pulses" /\ sentWave' = words /\ UNCHANGED <<fifo, words>>
    BY <1>8 DEF SendWave, Go
  <2>2. Horizon' = Horizon  BY <1>1, <1>8 DEF SendWave
  <2> QED BY <2>1, <2>2 DEF WordOrder
<1>9. CASE Reset
  <2>1. pc' = "unrst" /\ fifo' = << >> /\ UNCHANGED <<words, sentWave>>
    BY <1>9 DEF Reset, Go
  <2>2. Horizon' = Horizon  BY <1>1, <1>9 DEF Reset
  <2>3. DOMAIN << >> = {}  OBVIOUS
  <2>4. Sorted(fifo') /\ Past(fifo', Horizon) /\ Precedes(sentWave, fifo')
    BY <2>1, <2>3 DEF Sorted, Past, Precedes
  <2> QED BY <2>1, <2>2, <2>4 DEF WordOrder
<1> QED
  BY <1>2, <1>3, <1>4, <1>5, <1>6, <1>7, <1>8, <1>9 DEF Next, Hardware, Push

\* A waveform comes after the one before and is in order itself.
LEMMA SendOrder ==
  ASSUME TypeOK, RunInv, WordOrder, [Next]_vars, sentWave' # sentWave
  PROVE  Sorted(sentWave \o sentWave')
<1>1. pc = "words" /\ sentWave' = words
  BY DEF Next, Hardware, Push, Trigger, Sample, StatsReady, Poll, Wake, Test, ReadWord,
         SendWave, ReadPulse, SendStats, Reset, Unreset, SendEeprom, Go, vars, swVars
<1>2. Sorted(sentWave) /\ Sorted(words) /\ Precedes(sentWave, words)
  BY <1>1 DEF WordOrder
<1> QED BY <1>1, <1>2, Typed, ConcatSorted
-----------------------------------------------------------------------------
(* Spaced triggers: the latest trigger's words.                            *)

LEMMA InitSpaced == Init => SpacedInv
<1> SUFFICES ASSUME Init PROVE SpacedInv  OBVIOUS
<1>1. Len(<< >>) = 0  OBVIOUS
<1>2. WholeFrame /\ StatsMatch  BY DEF Init, WholeFrame, StatsMatch
<1>3. Done  BY DEF Init, Done
<1> QED BY <1>1, <1>2, <1>3, Constants DEF Init, SpacedInv, Sending

\* The trigger comes to an empty FIFO and starts a frame in it.
LEMMA TriggerSpaced == TypeOK /\ RunInv /\ SpacedInv /\ Trigger => SpacedInv'
<1> SUFFICES ASSUME TypeOK, RunInv, SpacedInv, Trigger, spaced' PROVE SpacedInv'
  BY DEF SpacedInv
<1> USE Constants DEF fifoVars, swVars
<1>1. /\ spaced /\ DealtWith
      /\ trig' = trig + 1 /\ state' = "WR_FIFO" /\ sample_num' = 0 /\ capture' = trig + 1
      /\ UNCHANGED <<stats, fifo, fifo_rst, pc, wordcnt, polled, trigger_count, words, pulse,
                     sentWave, sentStats, sends>>
  BY DEF Trigger, DealtWith
<1>2. fifo = << >> /\ Len(fifo) = 0 /\ pc \in {"poll", "delay"} /\ wordcnt < WaitWords
  BY <1>1 DEF DealtWith
<1>3. trigger_count = trig
  <2>1. ~Pending  BY <1>1, <1>2 DEF DealtWith, Pending, Frame
  <2> QED BY <1>1, <1>2, <2>1 DEF SpacedInv, Done
<1>4. Pending'
  <2>1. Frame(fifo, 0, 0)'  BY <1>1, <1>2 DEF Frame
  <2> QED BY <1>1, <1>3, <2>1 DEF TypeOK, Pending
<1>5. WholeFrame'
  <2>1. trig \in Nat  BY DEF TypeOK
  <2> QED BY <1>1, <2>1 DEF SpacedInv, WholeFrame
<1>6. StatsMatch'  BY <1>1 DEF SpacedInv, StatsMatch
<1>7. pc' = "delay" => wordcnt' <= Len(fifo')  BY <1>1, <1>2 DEF SpacedInv
<1>8. wordcnt' < WaitWords /\ ~(wordcnt' >= WaitWords)
  BY <1>1, <1>2 DEF TypeOK
<1> QED BY <1>1, <1>2, <1>4, <1>5, <1>6, <1>7, <1>8 DEF SpacedInv, Sending

\* The FIFO has room for the frame and is not held in reset.
LEMMA SampleSpaced == TypeOK /\ RunInv /\ SpacedInv /\ Sample => SpacedInv'
<1> SUFFICES ASSUME TypeOK, RunInv, SpacedInv, Sample, spaced' PROVE SpacedInv'
  BY DEF SpacedInv
<1> USE Constants DEF swVars
<1>1. /\ spaced /\ state = "WR_FIFO"
      /\ UNCHANGED <<trig, stats, capture, pc, wordcnt, polled, trigger_count, words, pulse,
                     sentWave, sentStats, sends>>
  BY DEF Sample
<1>2. pc \in {"poll", "delay"}  BY <1>1 DEF TypeOK, SpacedInv, Sending
<1>3. Pending /\ capture = trig  BY <1>1, <1>2 DEF SpacedInv, Done
<1>4. Len(fifo) = sample_num /\ \A i \in 1 .. sample_num : fifo[i] = <<trig, 0 + i - 1>>
  BY <1>1, <1>3 DEF Pending, Frame
<1>5. sample_num \in Nat /\ sample_num < NumSamples  BY DEF TypeOK
<1>6. fifo' = Append(fifo, <<trig, sample_num>>)
  BY <1>2, <1>3, <1>4, <1>5 DEF Sample, RunInv
<1>7. /\ Len(fifo') = sample_num + 1
      /\ \A i \in 1 .. sample_num + 1 : fifo'[i] = <<trig, 0 + i - 1>>
  <2>1. fifo \in Seq(Words)  BY DEF TypeOK
  <2>2. <<trig, sample_num>> \in Words
    <3>1. trig \in 1 .. MaxTrigs /\ sample_num \in 0 .. NumSamples - 1
      BY <1>3 DEF TypeOK, Pending
    <3> QED BY <3>1 DEF Words
  <2>3. /\ Len(fifo') = sample_num + 1 /\ fifo'[sample_num + 1] = <<trig, sample_num>>
        /\ \A i \in 1 .. sample_num : fifo'[i] = fifo[i]
    BY <1>4, <1>6, <2>1, <2>2, AppendType
  <2>4. ASSUME NEW i \in 1 .. sample_num + 1 PROVE fifo'[i] = <<trig, 0 + i - 1>>
    <3>1. CASE i = sample_num + 1  BY <1>5, <2>3, <3>1
    <3>2. CASE i # sample_num + 1
      <4>1. i \in 1 .. sample_num  BY <1>5, <3>2
      <4> QED BY <1>4, <2>3, <4>1
    <3> QED BY <3>1, <3>2
  <2> QED BY <2>3, <2>4
<1>8. Pending'
  <2>1. CASE sample_num = NumSamples - 1
    <3>1. state' = "IDLE" /\ NumSamples = sample_num + 1
      BY <1>5, <2>1 DEF Sample
    <3>2. Frame(fifo, 0, NumSamples)'  BY <1>1, <1>7, <3>1 DEF Frame
    <3> QED BY <1>1, <1>3, <3>1, <3>2 DEF Pending
  <2>2. CASE sample_num # NumSamples - 1
    <3>1. state' = "WR_FIFO" /\ sample_num' = sample_num + 1
      BY <1>1, <2>2 DEF Sample
    <3>2. Frame(fifo, 0, sample_num)'  BY <1>1, <1>7, <3>1 DEF Frame
    <3> QED BY <1>1, <1>3, <3>1, <3>2 DEF Pending
  <2> QED BY <2>1, <2>2
<1>9. pc' = "delay" => wordcnt' <= Len(fifo') /\ (wordcnt' >= WaitWords => polled' = trig')
  <2> SUFFICES ASSUME pc = "delay"
               PROVE  wordcnt <= Len(fifo') /\ (wordcnt >= WaitWords => polled = trig)
    BY <1>1
  <2>1. wordcnt <= Len(fifo) /\ (wordcnt >= WaitWords => polled = trig)
    BY <1>1 DEF SpacedInv
  <2>2. wordcnt \in Nat  BY DEF TypeOK
  <2> QED BY <1>4, <1>5, <1>7, <2>1, <2>2
<1>10. WholeFrame' /\ StatsMatch'
  BY <1>1 DEF SpacedInv, WholeFrame, StatsMatch
<1>11. pc' = "poll" => wordcnt' < WaitWords  BY <1>1 DEF SpacedInv
<1> QED BY <1>1, <1>2, <1>3, <1>8, <1>9, <1>10, <1>11 DEF SpacedInv, Sending

\* The thread finds the frame complete, as the delay is longer than a capture.
LEMMA WaitSpaced == TypeOK /\ RunInv /\ SpacedInv /\ (Poll \/ Wake) => SpacedInv'
<1> SUFFICES ASSUME TypeOK, RunInv, SpacedInv, Poll \/ Wake, spaced' PROVE SpacedInv'
  BY DEF SpacedInv
<1> USE Constants DEF hwVars, fifoVars
<1>1. /\ spaced /\ pc \in {"poll", "delay"}
      /\ UNCHANGED <<trig, state, sample_num, capture, stats, fifo, words, pulse,
                     sentWave, sentStats, sends>>
  BY DEF Poll, Wake, Go
<1>2. /\ capture = trig /\ (Pending \/ Done) /\ WholeFrame /\ StatsMatch
      /\ wordcnt \in Nat
  BY <1>1 DEF SpacedInv, TypeOK
<1>3. WholeFrame' /\ StatsMatch'
  BY <1>1, <1>2 DEF WholeFrame, StatsMatch
<1>4. CASE Poll
  <2>1. pc' = "delay" /\ wordcnt' = Len(fifo) /\ polled' = trig /\ trigger_count' = trigger_count
    BY <1>4 DEF Poll, Go
  <2>2. (Pending \/ Done)'  BY <1>1, <1>2, <2>1 DEF Pending, Done, Frame
  <2>3. Len(fifo) <= Len(fifo)
    <3>1. Len(fifo) \in Nat  BY DEF TypeOK
    <3> QED BY <3>1
  <2> QED BY <1>1, <1>2, <1>3, <2>1, <2>2, <2>3 DEF SpacedInv, Sending
<1>5. CASE Wake /\ wordcnt < WaitWords
  <2>1. pc' = "poll" /\ UNCHANGED <<wordcnt, trigger_count>>  BY <1>5 DEF Wake
  <2>2. (Pending \/ Done)'  BY <1>1, <1>2, <2>1 DEF Pending, Done, Frame
  <2> QED BY <1>1, <1>2, <1>3, <1>5, <2>1, <2>2 DEF SpacedInv, Sending
<1>6. CASE Wake /\ ~(wordcnt < WaitWords)
  <2>1. /\ pc = "delay" /\ pc' = "test" /\ trigger_count' = trigger_count + 1
        /\ state = "WR_FIFO" => capture > polled
        /\ stats >= polled
    BY <1>6 DEF Wake
  <2>2. wordcnt <= Len(fifo) /\ polled = trig
    BY <1>1, <1>2, <1>6, <2>1 DEF SpacedInv
  <2>3. ~Done
    <3>1. Len(<< >>) = 0  OBVIOUS
    <3> QED BY <1>2, <1>6, <2>2, <3>1 DEF Done
  <2>4. Pending  BY <1>2, <2>3
  <2>5. state = "IDLE" /\ stats = trig
    BY <1>2, <2>1, <2>2 DEF TypeOK, RunInv
  <2>6. Frame(fifo, 0, NumSamples)'  BY <1>1, <2>4, <2>5 DEF Pending, Frame
  <2>7. trigger_count' = trig /\ trig > 0  BY <2>1, <2>4 DEF Pending, TypeOK
  <2> QED BY <1>1, <1>2, <1>3, <2>1, <2>5, <2>6, <2>7 DEF SpacedInv, Sending
<1> QED BY <1>4, <1>5, <1>6

\* Neither frame nor step changes.
LEMMA StillSpaced ==
  ASSUME TypeOK, RunInv, SpacedInv, UNCHANGED vars \/ StatsReady
  PROVE  SpacedInv'
<1> USE DEF hwVars, fifoVars, swVars
<1>1. /\ UNCHANGED <<trig, state, sample_num, capture, spaced, fifo, pc, wordcnt, polled,
                     trigger_count, words, pulse, sentWave, sentStats, sends>>
      /\ stats' = stats \/ (stats # trig /\ stats' = trig)
  BY DEF vars, StatsReady
<1>2. /\ Frame(fifo, 0, NumSamples)' <=> Frame(fifo, 0, NumSamples)
      /\ Frame(sentWave, 0, NumSamples)' <=> Frame(sentWave, 0, NumSamples)
      /\ Frame(words, 0, Len(words))' <=> Frame(words, 0, Len(words))
      /\ Frame(fifo, Len(words), NumSamples - Len(words))'
           <=> Frame(fifo, Len(words), NumSamples - Len(words))
  BY <1>1 DEF Frame
<1>3. (Pending \/ Done)' <=> Pending \/ Done  BY <1>1 DEF Pending, Done, Frame
<1>4. (WholeFrame /\ StatsMatch)' <=> WholeFrame /\ StatsMatch
  BY <1>1 DEF WholeFrame, StatsMatch
<1> QED BY <1>1, <1>2, <1>3, <1>4 DEF SpacedInv

LEMMA TestSpaced == TypeOK /\ SpacedInv /\ Test => SpacedInv'
<1> SUFFICES ASSUME TypeOK, SpacedInv, Test, spaced' PROVE SpacedInv'
  BY DEF SpacedInv
<1> USE Constants DEF hwVars, fifoVars
<1>1. /\ spaced /\ pc = "test" /\ pc' \in {"words", "rst"} /\ words' = << >> /\ pulse' = << >>
      /\ UNCHANGED <<trig, state, capture, stats, fifo, trigger_count, sentWave, sentStats, sends>>
  BY DEF Test
<1>2. Frame(fifo, 0, NumSamples)  BY <1>1 DEF SpacedInv
<1>3. Len(words') = 0  BY <1>1
<1>4. Frame(words, 0, Len(words))'  BY <1>3 DEF Frame
<1>5. Frame(fifo, Len(words), NumSamples - Len(words))'
  BY <1>1, <1>2, <1>3 DEF Frame
<1>6. WholeFrame' /\ StatsMatch'  BY <1>1 DEF SpacedInv, WholeFrame, StatsMatch
<1> QED BY <1>1, <1>4, <1>5, <1>6 DEF SpacedInv, Sending

\* The next word of the frame moves from the FIFO to the message.
LEMMA ReadSpaced == TypeOK /\ SpacedInv /\ ReadWord => SpacedInv'
<1> SUFFICES ASSUME TypeOK, SpacedInv, ReadWord, spaced' PROVE SpacedInv'
  BY DEF SpacedInv
<1> USE Constants DEF hwVars
<1>1. /\ spaced /\ pc = "words" /\ pc' = pc /\ Len(words) < NumSamples
      /\ UNCHANGED <<trig, state, capture, stats, trigger_count, pulse, sentWave, sentStats, sends>>
  BY DEF ReadWord
<1>2. Frame(words, 0, Len(words)) /\ Frame(fifo, Len(words), NumSamples - Len(words))
  BY <1>1 DEF SpacedInv
<1> DEFINE n == Len(words)
<1>3. /\ n \in Nat /\ words \in Seq(Reads) /\ fifo \in Seq(Reads)
      /\ Len(fifo) = NumSamples - n
      /\ \A i \in 1 .. n : words[i] = <<trig, 0 + i - 1>>
      /\ \A i \in 1 .. NumSamples - n : fifo[i] = <<trig, n + i - 1>>
  <2>1. fifo \in Seq(Words)  BY DEF TypeOK
  <2>2. fifo \in Seq(Reads)  BY <2>1 DEF Reads
  <2>3. words \in Seq(Reads)  BY DEF TypeOK, Reads
  <2>4. n \in Nat  BY <2>3
  <2> HIDE DEF n
  <2>5. Frame(words, 0, n) /\ Frame(fifo, n, NumSamples - n)  BY <1>2 DEF n
  <2>6. \A i \in 1 .. n : words[i] = <<trig, 0 + i - 1>>  BY <2>5 DEF Frame
  <2>7. /\ Len(fifo) = NumSamples - n
        /\ \A i \in 1 .. NumSamples - n : fifo[i] = <<trig, n + i - 1>>
    BY <2>5 DEF Frame
  <2> QED BY <2>2, <2>3, <2>4, <2>6, <2>7
<1> HIDE DEF n
<1>4. fifo # << >>
  <2>1. Len(<< >>) = 0  OBVIOUS
  <2> QED BY <1>1, <1>3, <2>1 DEF n
<1>5. words' = Append(words, Head(fifo)) /\ fifo' = Tail(fifo)
  BY <1>4 DEF ReadWord
<1>6. /\ Head(fifo) = <<trig, n>> /\ Head(fifo) \in Reads /\ Len(fifo') = NumSamples - n - 1
      /\ \A i \in 1 .. NumSamples - n - 1 : fifo'[i] = fifo[i + 1]
  <2>1. /\ Head(fifo) = fifo[1] /\ Head(fifo) \in Reads /\ Len(fifo') = Len(fifo) - 1
        /\ \A i \in 1 .. Len(fifo) - 1 : fifo'[i] = fifo[i + 1]
    BY <1>3, <1>4, <1>5, TailType
  <2>2. 1 \in 1 .. NumSamples - n  BY <1>1, <1>3 DEF n
  <2>3. PICK k \in 1 .. NumSamples - n : k = 1  BY <2>2
  <2>4. fifo[k] = <<trig, n + k - 1>>  BY <1>3, <2>3
  <2>5. n + k - 1 = n  BY <1>3, <2>3
  <2>6. fifo[1] = <<trig, n>>  BY <2>3, <2>4, <2>5
  <2> QED BY <1>3, <2>1, <2>6
<1>7. /\ Len(words') = n + 1 /\ words'[n + 1] = <<trig, n>>
      /\ \A i \in 1 .. n : words'[i] = words[i]
  BY <1>3, <1>5, <1>6, AppendType DEF n
<1>8. Frame(words, 0, Len(words))'
  <2>1. ASSUME NEW i \in 1 .. n + 1 PROVE words'[i] = <<trig, 0 + i - 1>>
    <3>1. CASE i = n + 1  BY <1>3, <1>7, <3>1
    <3>2. CASE i # n + 1
      <4>1. i \in 1 .. n  BY <1>3, <3>2
      <4> QED BY <1>3, <1>7, <4>1
    <3> QED BY <3>1, <3>2
  <2> QED BY <1>1, <1>7, <2>1 DEF Frame
<1>9. Frame(fifo, Len(words), NumSamples - Len(words))'
  <2>1. ASSUME NEW i \in 1 .. NumSamples - n - 1 PROVE fifo'[i] = <<trig, n + 1 + i - 1>>
    <3>1. i + 1 \in 1 .. NumSamples - n  BY <1>3
    <3>2. PICK k \in 1 .. NumSamples - n : k = i + 1  BY <3>1
    <3>3. fifo[k] = <<trig, n + k - 1>>  BY <1>3, <3>2
    <3>4. n + k - 1 = n + 1 + i - 1  BY <1>3, <3>2
    <3> QED BY <1>6, <3>2, <3>3, <3>4
  <2>2. NumSamples - n - 1 = NumSamples - (n + 1)  BY <1>3
  <2> QED BY <1>1, <1>6, <1>7, <2>1, <2>2 DEF Frame
<1>10. WholeFrame' /\ StatsMatch'  BY <1>1 DEF SpacedInv, WholeFrame, StatsMatch
<1> QED BY <1>1, <1>8, <1>9, <1>10 DEF SpacedInv, Sending

LEMMA SendWaveSpaced == TypeOK /\ RunInv /\ RunInv' /\ SpacedInv /\ SendWave => SpacedInv'
<1> SUFFICES ASSUME TypeOK, RunInv, RunInv', SpacedInv, SendWave, spaced' PROVE SpacedInv'
  BY DEF SpacedInv
<1> USE Constants DEF hwVars, fifoVars
<1>1. /\ spaced /\ pc = "words" /\ pc' = "pulses" /\ Len(words) = NumSamples /\ sentWave' = words
      /\ UNCHANGED <<trig, state, capture, stats, fifo, trigger_count, words, pulse, sentStats>>
  BY DEF SendWave, Go
<1>2. Frame(words, 0, NumSamples) /\ trig > 0 /\ trig \in Nat
  BY <1>1 DEF SpacedInv, Sending, TypeOK
<1>3. Frame(sentWave, 0, NumSamples)'  BY <1>1, <1>2 DEF Frame
<1>4. WholeFrame'
  <2>1. sentWave' = [i \in 1 .. NumSamples |-> <<trig, i - 1>>]
    <3>1. words \in Seq(Reads)  BY DEF TypeOK, Reads
    <3>2. words = [i \in 1 .. Len(words) |-> words[i]]  BY <3>1
    <3>3. \A i \in 1 .. NumSamples : words[i] = <<trig, i - 1>>
      BY <1>2 DEF Frame
    <3> QED BY <1>1, <3>2, <3>3
  <2>2. trig \in 1 .. trig  BY <1>2
  <2> QED BY <1>1, <2>1, <2>2 DEF WholeFrame
<1>5. StatsMatch'
  <2>1. sends'["wave"] = sends'["stats"] + 1  BY <1>1 DEF RunInv
  <2>2. sends["stats"] \in Nat /\ sends'["stats"] = sends["stats"]
    BY DEF TypeOK, SendWave
  <2> QED BY <2>1, <2>2 DEF StatsMatch
<1>6. \A i \in DOMAIN pulse : pulse[i] = trig
  <2>1. DOMAIN << >> = {}  OBVIOUS
  <2> QED BY <1>1, <2>1 DEF SpacedInv
<1> QED BY <1>1, <1>3, <1>4, <1>5, <1>6 DEF SpacedInv, Sending

\* The statistics are those of the frame sent before them.
LEMMA PulseSpaced == TypeOK /\ RunInv /\ SpacedInv /\ ReadPulse => SpacedInv'
<1> SUFFICES ASSUME TypeOK, RunInv, SpacedInv, ReadPulse, spaced' PROVE SpacedInv'
  BY DEF SpacedInv
<1> USE Constants DEF hwVars, fifoVars
<1>1. /\ spaced /\ pc = "pulses" /\ pc' = pc /\ pulse' = Append(pulse, stats)
      /\ UNCHANGED <<trig, state, capture, stats, trigger_count, sentWave, sentStats, sends>>
  BY DEF ReadPulse
<1>2. Frame(sentWave, 0, NumSamples) /\ (\A i \in DOMAIN pulse : pulse[i] = trig) /\ stats = trig
  BY <1>1 DEF SpacedInv, Sending
<1>3. \A i \in DOMAIN pulse' : pulse'[i] = trig
  <2>1. pulse \in Seq(0 .. MaxTrigs) /\ stats \in 0 .. MaxTrigs  BY DEF TypeOK
  <2>2. /\ DOMAIN pulse = 1 .. Len(pulse) /\ DOMAIN pulse' = 1 .. Len(pulse) + 1
        /\ pulse'[Len(pulse) + 1] = stats /\ Len(pulse) \in Nat
        /\ \A i \in 1 .. Len(pulse) : pulse'[i] = pulse[i]
    BY <1>1, <2>1, AppendType
  <2>3. ASSUME NEW i \in 1 .. Len(pulse) + 1 PROVE pulse'[i] = trig
    <3>1. CASE i = Len(pulse) + 1  BY <1>2, <2>2, <3>1
    <3>2. CASE i # Len(pulse) + 1
      <4>1. i \in 1 .. Len(pulse)  BY <2>2, <3>2
      <4> QED BY <1>2, <2>2, <4>1
    <3> QED BY <3>1, <3>2
  <2> QED BY <2>2, <2>3
<1>4. Frame(sentWave, 0, NumSamples)'  BY <1>1, <1>2 DEF Frame
<1>5. WholeFrame' /\ StatsMatch'  BY <1>1 DEF SpacedInv, WholeFrame, StatsMatch
<1> QED BY <1>1, <1>3, <1>4, <1>5 DEF SpacedInv, Sending

LEMMA SendStatsSpaced == TypeOK /\ SpacedInv /\ SendStats => SpacedInv'
<1> SUFFICES ASSUME TypeOK, SpacedInv, SendStats, spaced' PROVE SpacedInv'
  BY DEF SpacedInv
<1> USE Constants DEF hwVars, fifoVars
<1>1. /\ spaced /\ pc = "pulses" /\ pc' = "rst"
      /\ sentStats' = [pulse |-> pulse, trig_cnt |-> trigger_count]
      /\ UNCHANGED <<trig, state, capture, stats, trigger_count, sentWave>>
  BY DEF SendStats, Go
<1>2. /\ Frame(sentWave, 0, NumSamples) /\ \A i \in DOMAIN pulse : pulse[i] = trig
      /\ trigger_count = trig
  BY <1>1 DEF SpacedInv, Sending
<1>3. sentWave[1][1] = trig
  <2>1. 1 \in 1 .. NumSamples  OBVIOUS
  <2> QED BY <1>2, <2>1 DEF Frame
<1>4. StatsMatch'  BY <1>1, <1>2, <1>3 DEF StatsMatch
<1>5. WholeFrame'  BY <1>1 DEF SpacedInv, WholeFrame
<1> QED BY <1>1, <1>4, <1>5 DEF SpacedInv, Sending

\* The reset leaves the FIFO empty: the trigger is dealt with.
LEMMA ResetSpaced == TypeOK /\ SpacedInv /\ (Reset \/ Unreset \/ SendEeprom) => SpacedInv'
<1> SUFFICES ASSUME TypeOK, SpacedInv, Reset \/ Unreset \/ SendEeprom, spaced' PROVE SpacedInv'
  BY DEF SpacedInv
<1> USE Constants DEF hwVars, fifoVars, swVars
<1>1. /\ spaced /\ pc \in Sending
      /\ UNCHANGED <<trig, state, capture, stats, trigger_count, sentWave, sentStats, sends>>
  BY DEF Reset, Unreset, SendEeprom, Go, Sending
<1>2. /\ fifo' = << >>
      /\ pc' \in {"unrst", "eeprom"} \/ (pc' = "poll" /\ wordcnt' = 0)
  BY <1>1 DEF Reset, Unreset, SendEeprom, Go, SpacedInv
<1>3. state = "IDLE" /\ stats = trig /\ trigger_count = trig /\ trig > 0
  BY <1>1 DEF SpacedInv
<1>4. Done'  BY <1>1, <1>2, <1>3 DEF Done
<1>5. WholeFrame' /\ StatsMatch'  BY <1>1 DEF SpacedInv, WholeFrame, StatsMatch
<1> QED BY <1>1, <1>2, <1>3, <1>4, <1>5 DEF SpacedInv, Sending

LEMMA NextSpacedInv == TypeOK /\ RunInv /\ RunInv' /\ SpacedInv /\ [Next]_vars => SpacedInv'
BY StillSpaced, TriggerSpaced, SampleSpaced, WaitSpaced, TestSpaced, ReadSpaced,
   SendWaveSpaced, PulseSpaced, SendStatsSpaced, ResetSpaced DEF Next, Hardware, Push

-----------------------------------------------------------------------------
(* Theorems.                                                               *)

FrameInv == TypeOK /\ RunInv /\ WordOrder /\ SpacedInv

LEMMA AlwaysFrame == Spec => []FrameInv
<1>1. Init => FrameInv  BY InitRun, InitOrder, InitSpaced DEF FrameInv
<1>2. FrameInv /\ [Next]_vars => FrameInv'
  <2> SUFFICES ASSUME FrameInv, [Next]_vars PROVE FrameInv'  OBVIOUS
  <2>1. TypeOK /\ RunInv /\ WordOrder /\ SpacedInv  BY DEF FrameInv
  <2>2. TypeOK' /\ RunInv'  BY <2>1, NextTypeOK, NextRunInv
  <2>3. WordOrder'  BY <2>1, <2>2, NextWordOrder
  <2>4. SpacedInv'  BY <2>1, <2>2, NextSpacedInv
  <2> QED BY <2>2, <2>3, <2>4 DEF FrameInv
<1> QED BY <1>1, <1>2, PTL DEF Spec

\* Capture, FIFO and thread keep to their types, whenever triggers come.
THEOREM TypeCorrect == Spec => []TypeOK
<1>1. FrameInv => TypeOK  BY DEF FrameInv
<1> QED BY <1>1, AlwaysFrame, PTL

\* With spaced triggers a waveform message is the whole capture of one trigger
\* in order (wvfmdata.c:59-74), for every number of samples and thresholds
\* below it: the count tested (wvfmdata.c:85-101) is 100 ms old and may be that
\* of a part.
THEOREM WholeFrames == Spec => []WholeFrame
<1>1. FrameInv => WholeFrame  BY DEF FrameInv, SpacedInv, WholeFrame
<1> QED BY <1>1, AlwaysFrame, PTL

\* With spaced triggers the statistics sent after a waveform are all of its
\* trigger, and trigger_count is the trigger's number (wvfmdata.c:157-169).
THEOREM StatisticsMatch == Spec => []StatsMatch
<1>1. FrameInv => StatsMatch  BY DEF FrameInv, SpacedInv, StatsMatch
<1> QED BY <1>1, AlwaysFrame, PTL

\* Whenever triggers come and wherever they find the thread, no word is sent
\* twice or out of order (wvfmdata.c:59-74, adc_data_rdout.vhd:100-142).
THEOREM WordsInOrder == Spec => InOrder
<1>1. FrameInv /\ [Next]_vars =>
        [sentWave' # sentWave =>
           LET all == sentWave \o sentWave'
           IN  \A i, j \in DOMAIN all :
                 i < j /\ all[i] # Underflow /\ all[j] # Underflow => Before(all[i], all[j])]_vars
  <2> SUFFICES ASSUME FrameInv, [Next]_vars, sentWave' # sentWave
               PROVE  \A i, j \in DOMAIN (sentWave \o sentWave') :
                        /\ i < j
                        /\ (sentWave \o sentWave')[i] # Underflow
                        /\ (sentWave \o sentWave')[j] # Underflow
                        => Before((sentWave \o sentWave')[i], (sentWave \o sentWave')[j])
    OBVIOUS
  <2>1. Sorted(sentWave \o sentWave')  BY SendOrder DEF FrameInv
  <2> QED BY <2>1 DEF Sorted, InTurn
<1> QED BY <1>1, AlwaysFrame, PTL DEF Spec, InOrder

=============================================================================
