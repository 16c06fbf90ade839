--------------------------------- MODULE I2cBus ---------------------------------
(***************************************************************************)
(* The I2C bus of the board.  Two port expanders, PORTEXP0 at 0x70 and     *)
(* PORTEXP1 at 0x71, connect any of their channels to the bus; what        *)
(* answers an address are the devices of that address behind the channels  *)
(* that are connected.  A thread sets the expanders with one transfer and  *)
(* talks to its device with others; no lock is taken.                      *)
(*                                                                         *)
(* The functions of i2c_devices.c and at24eeprom.c and the loop of         *)
(* brdstats.c are the sequences of bus transfers they make; a thread       *)
(* executes its sequence one transfer at a time.  A device is written      *)
(* <<expander, channel, address>>.                                         *)
(***************************************************************************)
EXTENDS Integers, SequencesExt

CONSTANTS
  Threads,      \* that use the bus
  Fitted,       \* the devices that are there (modules may be unplugged)
  Flaky         \* the devices that may leave a transfer unanswered

Expanders == {0, 1}
NoReg == -1     \* a transfer that names no register

\* Numbers, as the code writes them.
x0A == 10   x40 == 64   x48 == 72   x49 == 73   x4A == 74   x4B == 75
x50 == 80   x51 == 81   x52 == 82   x53 == 83   x5A == 90   x5C == 92
x8D == 141  xFA == 250

\* Wiring, as the functions use it.
Mac         == <<0, 6, x50>>
ParamEeprom == <<0, 7, x50>>
Sfp(slot)   == <<0, slot, x51>>      \* the A2h space of the module in the slot
DfeTemp(a)  == <<1, 0, a>>
Ltc2991(a)  == <<1, 2, a>>
Ltc2977     == <<1, 3, x5C>>
Lmk61e2     == <<1, 5, x5A>>
AfeTemp(a)  == <<1, 6, a>>
Ina226      == <<1, 6, x40>>
Carrier     == <<1, 7, x50>>
Slots       == 0 .. 5
BrdTemp     == <<x48, x49, x4A, x4B>>

\* What answers on the same channels and is not meant by any transfer: the A0h
\* space of an SFP module, at the address of the EEPROMs, and the upper three
\* quarters of the AT24CM02, which takes the highest two bits of a byte's
\* address as the lowest two of its own.  The parameter EEPROM is its first
\* quarter; the four are one chip with one address counter, which only the
\* read at boot relies on.
SfpId(slot)      == <<0, slot, x50>>
ParamQuarter(a)  == <<0, 7, a>>

Devices ==
  {Mac, ParamEeprom, Ltc2977, Lmk61e2, Ina226, Carrier, AfeTemp(x48), AfeTemp(x4A)}
    \cup {ParamQuarter(a) : a \in {x51, x52, x53}}
    \cup {Sfp(s) : s \in Slots} \cup {SfpId(s) : s \in Slots}
    \cup {DfeTemp(BrdTemp[i]) : i \in 1 .. 4}
    \cup {Ltc2991(a) : a \in {x48, x49, x4A}}

ASSUME BusAssumption == Fitted \subseteq Devices /\ Flaky \subseteq Fitted

-----------------------------------------------------------------------------
(* Transfers.  "dev" is the device the function means, which the transfer  *)
(* itself cannot say.                                                      *)

Expand(pe, channels) == [op |-> "expand", pe |-> pe, channels |-> channels]
Write(dev, addr, reg) == [op |-> "write", dev |-> dev, addr |-> addr, reg |-> reg, skip |-> 0]
Read(dev, addr, reg) == [op |-> "read", dev |-> dev, addr |-> addr, reg |-> reg]
Pause == [op |-> "pause"]      \* the thread gives the processor away

\* A write after whose failure the function returns.
Checked(w, rest) == [w EXCEPT !.skip = rest]

Query(dev, reg) == <<Write(dev, dev[3], reg), Read(dev, dev[3], reg)>>

i2c_get_mac_address == <<Expand(0, {6}), Expand(1, {})>> \o Query(Mac, xFA)

SelectParamEeprom == <<Expand(0, {7}), Expand(1, {})>>

EepromWrite256 == SelectParamEeprom \o <<Write(ParamEeprom, x50, 0)>>

EepromRead256 ==
  SelectParamEeprom \o <<Checked(Write(ParamEeprom, x50, 0), 1), Read(ParamEeprom, x50, 0)>>

i2c_eeprom_writeBytes(start) == <<Expand(1, {7}), Write(Carrier, x50, start)>>

eeprom_dump == <<Expand(1, {7})>> \o Query(Carrier, 0)

write_lmk61e2 == <<Expand(1, {5})>> \o [i \in 1 .. 34 |-> Write(Lmk61e2, x5A, i)]

read_i2c_temp(dev) == <<Read(dev, dev[3], NoReg)>>

i2c_sfp_get_stats(slot) == <<Expand(0, {slot}), Expand(1, {})>> \o Query(Sfp(slot), 96)

i2c_ltc2977_stats == <<Expand(0, {}), Expand(1, {3})>> \o Query(Ltc2977, x8D)

ina226_read_reg(reg) ==
  <<Checked(Write(Ina226, x40, reg), 1), Read(Ina226, x40, reg)>>

i2c_configure_ltc2991 ==
  <<Expand(1, {2})>>
    \o FlattenSeq([i \in 1 .. 3 |-> LET reg == <<6, 8, 1>>[i] IN
         [j \in 1 .. 3 |-> LET a == <<x48, x49, x4A>>[j] IN Write(Ltc2991(a), a, reg)]])

\* What each function asks for: the address of a chip and an index.
Ltc2991Call ==
  [reg1_temp   |-> <<x48, 0>>, reg2_temp           |-> <<x48, 1>>, reg3_temp |-> <<x48, 2>>,
   vcc_vin     |-> <<x48, 6>>, vcc_vin_current     |-> <<x48, 7>>,
   vcc_mgt_2v5 |-> <<x4A, 0>>, vcc_mgt_2v5_current |-> <<x4A, 1>>,
   vcc_2v5     |-> <<x4A, 2>>, vcc_2v5_current     |-> <<x4A, 3>>,
   vcc_mgt_1v2 |-> <<x4A, 4>>, vcc_mgt_1v2_current |-> <<x4A, 5>>,
   vcc_mgt_0v9 |-> <<x4A, 6>>, vcc_mgt_0v9_current |-> <<x4A, 7>>,
   vcc_1v2_ddr |-> <<x49, 0>>, vcc_1v2_ddr_current |-> <<x49, 1>>,
   vcc_1v8     |-> <<x49, 2>>, vcc_1v8_current     |-> <<x49, 3>>,
   vcc_3v3     |-> <<x49, 4>>, vcc_3v3_current     |-> <<x49, 5>>,
   vcc_0v85    |-> <<x49, 6>>, vcc_0v85_current    |-> <<x49, 6>>]

\* What is wired to the inputs V1 to V8 of the chips U42, U37 and U14; the
\* register of an even input holds the difference of its pair, which is the
\* current.
Schematic ==
  [a \in {x48, x49, x4A} |->
     CASE a = x48 -> <<"reg1_temp", "reg2_temp", "reg3_temp", "NC", "NC", "NC",
                        "vcc_vin", "vcc_vin_current">>
       [] a = x49 -> <<"vcc_1v2_ddr", "vcc_1v2_ddr_current", "vcc_1v8", "vcc_1v8_current",
                        "vcc_3v3", "vcc_3v3_current", "vcc_0v85", "vcc_0v85_current">>
       [] a = x4A -> <<"vcc_mgt_2v5", "vcc_mgt_2v5_current", "vcc_2v5", "vcc_2v5_current",
                        "vcc_mgt_1v2", "vcc_mgt_1v2_current", "vcc_mgt_0v9", "vcc_mgt_0v9_current">>]

\* i2c_ltc2991_<field>(): i2c_ltc2991_voltage with the function's own call.
i2c_ltc2991(field) ==
  LET call  == Ltc2991Call[field]
      meant == CHOOSE p \in {x48, x49, x4A} \X (1 .. 8) : Schematic[p[1]][p[2]] = field
      dev   == Ltc2991(meant[1])
  IN <<Write(dev, call[1], x0A + 2 * call[2]), Read(dev, call[1], x0A + 2 * (meant[2] - 1))>>

-----------------------------------------------------------------------------
(* The sequences the threads execute.                                      *)

Ltc2991Order ==
  <<"reg1_temp", "reg2_temp", "reg3_temp", "vcc_vin", "vcc_vin_current", "vcc_3v3", "vcc_3v3_current",
    "vcc_2v5", "vcc_2v5_current", "vcc_1v8", "vcc_1v8_current", "vcc_1v2_ddr", "vcc_1v2_ddr_current",
    "vcc_0v85", "vcc_0v85_current", "vcc_mgt_2v5", "vcc_mgt_2v5_current", "vcc_mgt_1v2",
    "vcc_mgt_1v2_current", "vcc_mgt_0v9", "vcc_mgt_0v9_current">>

\* One round of the loop: delay, read everything, psc_send.
brdstats_push == FlattenSeq(<<
  <<Pause, Expand(1, {0})>>,
  FlattenSeq([i \in 1 .. 4 |-> read_i2c_temp(DfeTemp(BrdTemp[i]))]),
  <<Expand(1, {6})>>,
  read_i2c_temp(AfeTemp(BrdTemp[1])), read_i2c_temp(AfeTemp(BrdTemp[3])),
  ina226_read_reg(2), ina226_read_reg(4),
  <<Expand(1, {2})>>, i2c_configure_ltc2991,
  FlattenSeq([i \in DOMAIN Ltc2991Order |-> i2c_ltc2991(Ltc2991Order[i])]),
  FlattenSeq([i \in 1 .. 6 |-> i2c_sfp_get_stats(i - 1)]),
  <<Expand(1, {3})>>, i2c_ltc2977_stats,
  <<Pause>> >>)

dump_eeprom == eeprom_dump

\* For the answers 0 and 1.
set_resolution == i2c_eeprom_writeBytes(48)

program_ip ==
  i2c_eeprom_writeBytes(0) \o i2c_eeprom_writeBytes(16) \o i2c_eeprom_writeBytes(32)

Program ==
  [main           |-> write_lmk61e2 \o EepromRead256,
   get_mac        |-> i2c_get_mac_address,
   get_mac_twice  |-> i2c_get_mac_address \o i2c_get_mac_address,
   brdstats       |-> brdstats_push,
   update         |-> EepromWrite256,
   dump_eeprom    |-> dump_eeprom,
   program_ip     |-> program_ip,
   set_resolution |-> set_resolution]

VARIABLES
  sel,        \* the channels each expander connects
  pointed,    \* of each thread: the devices and registers its latest write
              \* set, as far as no other transfer moved them since
  op, step,   \* of each thread: the sequence it executes and how far it is
  owner       \* history: the thread that set each expander last, or "none"

busVars == <<sel, pointed, op, step, owner>>

BusTypeOK ==
  /\ sel \in [Expanders -> SUBSET (0 .. 7)]
  /\ pointed \in [Threads -> SUBSET (Devices \X (0 .. 255))]
  /\ op \in [Threads -> DOMAIN Program \cup {"none"}]
  /\ \A t \in Threads : step[t] \in 1 .. IF op[t] = "none" THEN 1 ELSE Len(Program[op[t]])
  /\ owner \in [Expanders -> Threads \cup {"none"}]

BusInit ==
  /\ sel = [pe \in Expanders |-> {}]
  /\ pointed = [t \in Threads |-> {}]
  /\ op = [t \in Threads |-> "none"]
  /\ step = [t \in Threads |-> 1]
  /\ owner = [pe \in Expanders |-> "none"]

Idle(t) == op[t] = "none"
Current(t) == Program[op[t]][step[t]]
Doing(t, what) == ~Idle(t) /\ Current(t).op = what

Begin(t, name) ==
  /\ Idle(t)
  /\ op' = [op EXCEPT ![t] = name]
  /\ UNCHANGED <<sel, pointed, step, owner>>

\* The next transfer, n further on, or the end of the sequence.
Advance(t, n) ==
  LET over == step[t] + n > Len(Program[op[t]]) IN
  /\ step' = [step EXCEPT ![t] = IF over THEN 1 ELSE @ + n]
  /\ op' = [op EXCEPT ![t] = IF over THEN "none" ELSE @]

Answering(addr) == {d \in Fitted : d[3] = addr /\ d[2] \in sel[d[1]]}
Answers(addr) == {Answering(addr) \ silent : silent \in SUBSET (Flaky \cap Answering(addr))}

\* i2c_set_port_expander
i2c_set_port_expander(t) ==
  /\ Doing(t, "expand")
  /\ sel' = [sel EXCEPT ![Current(t).pe] = Current(t).channels]
  /\ owner' = [owner EXCEPT ![Current(t).pe] = t]
  /\ Advance(t, 1)
  /\ UNCHANGED pointed

\* Mutant: the status of the transfer is not handed on.
Deaf_i2c_write(t) ==
  /\ Doing(t, "write")
  /\ \E got \in Answers(Current(t).addr) :
       pointed' = [u \in Threads |-> IF u = t THEN {<<d, Current(t).reg>> : d \in got}
                                     ELSE {p \in pointed[u] : p[1] \notin got}]
  /\ Advance(t, 1)
  /\ UNCHANGED <<sel, owner>>

\* i2c_write, acknowledged by the devices in got.
i2c_write(t) ==
  /\ Doing(t, "write")
  /\ \E got \in Answers(Current(t).addr) :
       /\ pointed' = [u \in Threads |-> IF u = t THEN {<<d, Current(t).reg>> : d \in got}
                                        ELSE {p \in pointed[u] : p[1] \notin got}]
       /\ Advance(t, 1 + IF got = {} THEN Current(t).skip ELSE 0)
  /\ UNCHANGED <<sel, owner>>

\* i2c_read, answered by the devices in got, whose pointers move on.
i2c_read(t, got) ==
  /\ pointed' = [u \in Threads |-> {p \in pointed[u] : u # t /\ p[1] \notin got}]
  /\ Advance(t, 1)
  /\ UNCHANGED <<sel, owner>>

\* vTaskDelay, psc_send
Resume(t) ==
  /\ Doing(t, "pause")
  /\ Advance(t, 1)
  /\ UNCHANGED <<sel, pointed, owner>>

=============================================================================
