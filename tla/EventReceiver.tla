---------------------------- MODULE EventReceiver -----------------------------
(***************************************************************************)
(* The event link: ts_gen.vhd sends, each second, the event of the 1 Hz    *)
(* tick and the number of the second, bit by bit, and a code that latches  *)
(* it; event_rcv_ts.vhd puts the bits together and counts clocks since the *)
(* latch; event_rcv_chan.vhd makes a pulse of the event, which sync_cdc.vhd*)
(* takes to the ADC's clock as a trigger.  The link may lose codes.        *)
(*                                                                         *)
(* The two ends of the link run on one recovered clock (Clock), the ADC    *)
(* on its own (AdcClock).                                                  *)
(***************************************************************************)
EXTENDS Integers

CONSTANTS
  Bits,        \* bits of a second (32), a power of two: pos wraps
  PauseLen,    \* clocks between two codes (10)
  OffMod,      \* 2^32: the offset counter
  MyDelay,     \* trigdly (1)
  MyWidth,     \* mywidth (8)
  MaxGap,      \* clocks of the ADC (200 MHz) between two of the link (125 MHz)
  Seconds      \* bound: number of seconds after a reset

\* What a bit stands for: 2^i, as the provers know nothing of powers.
Weight[i \in 0 .. Bits] == IF i = 0 THEN 1 ELSE 2 * Weight[i - 1]

ASSUME EventAssumption ==
  /\ Bits \in Nat \ {0, 1} /\ PauseLen \in Nat /\ OffMod \in Nat \ {0, 1}
  /\ MyDelay \in Nat \ {0} /\ MyWidth \in Nat \ {0} /\ MaxGap \in Nat \ {0}
  /\ Seconds \in 0 .. Weight[Bits] - 1

VARIABLES
  rst,                              \* sys_rst
  state, idx, dlycnt, epoch_time,   \* ts_gen and its input
  code,                             \* what the transmitter puts on the link
  pos, seconds_tmp, secondsReg, offsetReg, clear, clear_reg, TimeStamp,  \* event_rcv_ts
  startDelay, delayCounter, startWidth, widthCounter,                    \* event_rcv_chan
  wasWidth,                         \* startWidth a clock ago
  sr, sync_dly,                     \* sync_cdc
  gap,                              \* clocks of the ADC since the last one of the link
  pending,                          \* history: events received less triggers given
  good,                             \* history: all bits since the last latch code arrived
  known,                            \* history: secondsReg is of a good latch code, no wrap since
  mono                              \* history: known, when TimeStamp was registered

txVars   == <<state, idx, dlycnt, epoch_time, code>>
tsVars   == <<pos, seconds_tmp, secondsReg, offsetReg, clear, clear_reg, TimeStamp>>
chanVars == <<startDelay, delayCounter, startWidth, widthCounter, wasWidth>>
syncVars == <<sr, sync_dly>>
vars     == <<rst, txVars, tsVars, chanVars, syncVars, gap, pending, good, known, mono>>

Index   == 0 .. Bits - 1
BitCode == <<"zero", "one">>        \* 0x70 and 0x71
Codes   == {"none", "event", "zero", "one", "latch"}

BitsOf(n)  == [i \in Index |-> (n \div Weight[i]) % 2]
ValueOf(b) ==
  LET Low[i \in 0 .. Bits] == IF i = 0 THEN 0 ELSE Low[i - 1] + b[i - 1] * Weight[i - 1]
  IN  Low[Bits]

TypeOK ==
  /\ rst \in BOOLEAN
  /\ state \in {"IDLE", "SEND_1HZ", "PREPAUSE", "ACTIVE", "PAUSE", "CHECK_IF_LAST", "UPDATE"}
  /\ idx \in Index /\ dlycnt \in 0 .. PauseLen + 1 /\ epoch_time \in 0 .. Seconds
  /\ code \in Codes
  /\ pos \in Index
  /\ seconds_tmp \in [Index -> 0 .. 1] /\ secondsReg \in [Index -> 0 .. 1]
  /\ offsetReg \in 0 .. OffMod - 1
  /\ clear \in BOOLEAN /\ clear_reg \in BOOLEAN
  /\ TimeStamp \in (0 .. Weight[Bits] - 1) \X (0 .. OffMod - 1)
  /\ startDelay \in BOOLEAN /\ startWidth \in BOOLEAN /\ wasWidth \in BOOLEAN
  /\ delayCounter \in 0 .. MyDelay + 1 /\ widthCounter \in 0 .. MyWidth + 1
  /\ sr \in [0 .. 2 -> BOOLEAN] /\ sync_dly \in BOOLEAN
  /\ gap \in 0 .. MaxGap
  /\ good \in BOOLEAN /\ known \in BOOLEAN /\ mono \in BOOLEAN

Init ==
  /\ rst = TRUE
  /\ state = "IDLE" /\ idx = 0 /\ dlycnt = 0 /\ epoch_time = 0 /\ code = "none"
  /\ pos = Bits - 1
  /\ seconds_tmp = BitsOf(0) /\ secondsReg = BitsOf(0) /\ offsetReg = 0
  /\ clear = FALSE /\ clear_reg = FALSE /\ TimeStamp = <<0, 0>>
  /\ startDelay = FALSE /\ startWidth = FALSE /\ wasWidth = FALSE
  /\ delayCounter = 0 /\ widthCounter = 0
  /\ sr = [i \in 0 .. 2 |-> FALSE] /\ sync_dly = FALSE
  /\ gap = 0 /\ pending = 0
  /\ good = TRUE /\ known = FALSE /\ mono = FALSE

-----------------------------------------------------------------------------
(* ts_gen.vhd.                                                             *)

Go(from, to, c) == state = from /\ state' = to /\ code' = c

\* The tick of a second: epoch_time is counted up and, some clocks later, the
\* transmission starts.  A second is much longer than a transmission and than
\* what the receiver does with it.
Tick ==
  /\ Go("IDLE", "SEND_1HZ", "none")
  /\ code = "none" /\ ~clear /\ ~clear_reg
  /\ epoch_time < Seconds
  /\ epoch_time' = epoch_time + 1
  /\ idx' = Bits - 1 /\ dlycnt' = 0

Quiet == Go("IDLE", "IDLE", "none") /\ dlycnt' = 0 /\ UNCHANGED <<idx, epoch_time>>

Send1Hz == Go("SEND_1HZ", "PREPAUSE", "event") /\ UNCHANGED <<idx, dlycnt, epoch_time>>

Wait(from, to) ==
  /\ Go(from, IF dlycnt = PauseLen THEN to ELSE from, "none")
  /\ dlycnt' = IF dlycnt = PauseLen THEN 0 ELSE dlycnt + 1
  /\ UNCHANGED <<idx, epoch_time>>

SendBit ==
  /\ Go("ACTIVE", "PAUSE", BitCode[BitsOf(epoch_time)[idx] + 1])
  /\ UNCHANGED <<idx, dlycnt, epoch_time>>

CheckIfLast ==
  /\ Go("CHECK_IF_LAST", IF idx = 0 THEN "UPDATE" ELSE "ACTIVE", "none")
  /\ idx' = IF idx = 0 THEN 0 ELSE idx - 1
  /\ UNCHANGED <<dlycnt, epoch_time>>

Update == Go("UPDATE", "IDLE", "latch") /\ UNCHANGED <<idx, dlycnt, epoch_time>>

TsGen ==
  IF rst THEN state' = "IDLE" /\ code' = "none" /\ epoch_time' = 0 /\ UNCHANGED <<idx, dlycnt>>
  ELSE \/ Tick \/ Quiet \/ Send1Hz \/ SendBit \/ CheckIfLast \/ Update
       \/ Wait("PREPAUSE", "ACTIVE") \/ Wait("PAUSE", "CHECK_IF_LAST")

-----------------------------------------------------------------------------
(* event_rcv_ts.vhd: one operator for each of its processes, with the code *)
(* e received in this clock.                                               *)

IsBit(e) == e \in {"zero", "one"}

\* Mutant: the latch code does not clear the pointer.
Keep_Position(e) ==
  pos' = IF IsBit(e) THEN (pos - 1) % Bits ELSE pos

Position(e) ==
  pos' = IF e = "latch" THEN Bits - 1 ELSE IF IsBit(e) THEN (pos - 1) % Bits ELSE pos

SecondsControl(e) ==
  seconds_tmp' =
    IF rst \/ clear_reg THEN BitsOf(0)
    ELSE IF IsBit(e) THEN [seconds_tmp EXCEPT ![pos] = IF e = "one" THEN 1 ELSE 0]
    ELSE seconds_tmp

\* Mutant: the second is registered a clock after the offset is cleared.
Late_RegisterSeconds(e) ==
  secondsReg' = IF clear THEN seconds_tmp ELSE secondsReg

RegisterSeconds(e) ==
  secondsReg' = IF e = "latch" THEN seconds_tmp ELSE secondsReg

\* Mutant: the counter is not 32 bits wide.
Wide_OffsetControl(e) ==
  offsetReg' = IF e = "latch" THEN 0 ELSE offsetReg + 1

OffsetControl(e) ==
  offsetReg' = IF e = "latch" THEN 0 ELSE (offsetReg + 1) % OffMod

ClearControl(e) == clear' = (e = "latch") /\ clear_reg' = clear

TimestampControl ==
  TimeStamp' = IF rst THEN <<0, 0>> ELSE <<ValueOf(secondsReg), offsetReg>>

ReceiveTime(e) ==
  /\ Position(e) /\ SecondsControl(e) /\ RegisterSeconds(e) /\ OffsetControl(e)
  /\ ClearControl(e) /\ TimestampControl

-----------------------------------------------------------------------------
(* event_rcv_chan.vhd and sync_cdc.vhd.                                    *)

DelayCounter ==
  delayCounter' = IF rst THEN 0 ELSE IF startDelay THEN delayCounter + 1
                  ELSE IF delayCounter >= MyDelay THEN 0 ELSE delayCounter

WidthCounter ==
  widthCounter' = IF rst THEN 0 ELSE IF startWidth THEN widthCounter + 1
                  ELSE IF widthCounter >= MyWidth THEN 0 ELSE widthCounter

StartDelay(e) ==
  startDelay' = (~rst /\ (e = "event" \/ (startDelay /\ delayCounter < MyDelay)))

StartWidth ==
  startWidth' = (~rst /\ (delayCounter > MyDelay \/ (startWidth /\ widthCounter < MyWidth)))

Channel(e) ==
  /\ DelayCounter /\ WidthCounter /\ StartDelay(e) /\ StartWidth
  /\ wasWidth' = startWidth

\* Mutant: the output is the level, not its rising edge.
Level_Rise == sr'[2]

\* A trigger is given after this clock of the ADC.
Rise == sr'[2] /\ ~sync_dly'

\* The first stage samples a signal of the other clock: in the first clock
\* after that changed it may see either value.
Sync ==
  IF rst THEN sr' = [i \in 0 .. 2 |-> FALSE] /\ sync_dly' = FALSE
  ELSE /\ \E v \in {startWidth} \cup IF gap = 0 THEN {wasWidth} ELSE {} :
            sr' = [i \in 0 .. 2 |-> IF i = 0 THEN v ELSE sr[i - 1]]
       /\ sync_dly' = sr[2]

-----------------------------------------------------------------------------

\* A transmission is under way.
Sending == state # "IDLE" \/ code # "none"

\* A clock in which the receiver sees the code sent, or loses it.
Clock ==
  /\ gap > 0 /\ gap' = 0
  /\ TsGen
  /\ \E e \in {code, "none"} :
       /\ ReceiveTime(e) /\ Channel(e)
       /\ pending' = IF rst THEN 0 ELSE IF e = "event" THEN pending + 1 ELSE pending
       /\ good' = IF rst /\ Sending THEN FALSE
                  ELSE e = "latch" \/ (good /\ (IsBit(code) => e = code))
       /\ known' = IF rst THEN FALSE ELSE IF e = "latch" THEN good
                   ELSE known /\ offsetReg + 1 < OffMod
       /\ mono' = (~rst /\ known)
  /\ UNCHANGED <<rst, syncVars>>

AdcClock ==
  /\ gap < MaxGap /\ gap' = gap + 1
  /\ Sync
  /\ pending' = IF rst THEN 0 ELSE IF Rise THEN pending - 1 ELSE pending
  /\ UNCHANGED <<rst, txVars, tsVars, chanVars, good, known, mono>>

\* pl_reset: it lasts for many clocks of either kind.
Reset ==
  /\ ~rst /\ rst' = TRUE
  /\ UNCHANGED <<txVars, tsVars, chanVars, syncVars, gap, pending, good, known, mono>>

EndReset ==
  /\ rst /\ rst' = FALSE
  /\ ~Sending /\ ~startDelay /\ ~startWidth /\ ~wasWidth /\ delayCounter = 0
  /\ sr = [i \in 0 .. 2 |-> FALSE] /\ ~sync_dly
  /\ TimeStamp = <<0, 0>>
  /\ UNCHANGED <<txVars, tsVars, chanVars, syncVars, gap, pending, good, known, mono>>

Next == Clock \/ AdcClock \/ Reset \/ EndReset

Spec == Init /\ [][Next]_vars

-----------------------------------------------------------------------------
(* Properties.                                                             *)

\* A latch code that arrives leaves the second that was sent in secondsReg, if
\* the bits since the last latch code that arrived did.  A lost latch code is
\* harmless: the pointer wraps to its start, and the register that was not
\* cleared is overwritten.  Lost bits, and a reset in a transmission, which
\* does not reset the pointer, spoil one second and not the one after.
SecondRight ==
  [][gap' < gap /\ clear' /\ good => secondsReg' = BitsOf(epoch_time)]_vars

\* Time stamps never go backward: the second and the offset, which are set by
\* different processes, change together, also over a lost latch code.  (From
\* the first whole second after a reset, for spoiled seconds and an offset
\* that wraps excepted.)
Later(s, t) == s[1] < t[1] \/ (s[1] = t[1] /\ s[2] <= t[2])
Monotone == [][mono /\ mono' => Later(TimeStamp, TimeStamp')]_vars

\* Every event gives one trigger of the ADC's clock before the next event,
\* whatever the phase of the clocks and however the first stage settles.
OneTrigger ==
  /\ pending \in {0, 1}
  /\ state = "UPDATE" => pending = 0

=============================================================================
