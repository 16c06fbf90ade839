# Verification of the ACMI-2 chain A firmware

This directory holds TLA+ models of the ACMI-2 chain A charge monitor, the TLC
configurations that check them and the TLAPS proofs of the results that hold for
every size. The program is the C firmware of the ZynqMP processor
(`src/src/sw/src`, FreeRTOS and lwIP) together with the VHDL of its FPGA
(`src/src/hw/hdl`).

## 1. The system

A trigger from the timing system starts a capture of ADC samples in the FPGA. The
FPGA measures the pulses in fixed gates, adds the charge of the beam pulse to a
sliding sum and compares everything with limits. The processor serves the results
to IOCs over TCP and lets them change parameters, which live in FPGA registers and
in an I2C EEPROM.

| Component | State it keeps | Operations | Interacts with |
|---|---|---|---|
| PSC message server (`listener.c`) | client slots, the bits `clients_used`, each slot's socket, the mutex `sendguard`, lwIP's descriptors | `psc_run`, `psc_client_alloc`, `psc_client_free`, `handle_client`, `psc_send`, `psc_send_one` | broadcasting threads call `psc_send`; handlers call `conf->recv` and `conf->conn` |
| PSC framing (`pscmsg.c`) | a TCP stream cut into headers and bodies, the receive buffer | `psc_sendmsg`, `psc_recvmsg`, `psc_recvskip` | the server, lwIP |
| Settings (`control.c`, `at24eeprom.c`) | 50 parameter registers, one EEPROM page | `eeprom_settings`, `EepromGatherData`, `EepromWrite256`, `InitSettingsfromEeprom` | the receive threads of up to four clients, the I2C bus |
| Waveform readout (`wvfmdata.c`, `adc_data_rdout.vhd`) | capture state, FIFO, `trigger_count`, statistics registers | the capture state machine; `wvfmdata_push` | triggers, `psc_send` |
| Accumulated charge (`accumulator.vhd`) | circular buffer, its pointers and count, `accum` | one state machine pass for each beam pulse | pulse statistics, `accum_length`, faults |
| Event receiver (`evr/*.vhd`, `sync_cdc.vhd`) | serial second, latch, offset counter, trigger channel | decode event codes | waveform, time stamps |
| Startup delay (`startup_dly.vhd`, `beam_detect_window.vhd`) | delay count, startup fault, last key position, window | once for each trigger and turn of the key | accumulator, faults |
| Fault logic (`faults.vhd`) | fault bits, latches | evaluation at the end of a beam cycle | everything measured |
| Pulse statistics (`gen_gates.vhd`, `calc_*.vhd`, `find_peak.vhd`) | gates, running baseline, integral, peak, width | once for each trigger | ADC samples, accumulator |
| Pulses out of window (`find_beam_oow.vhd`, `find_boow_pulse.vhd`, `gen_gate.vhd`) | windows, masked and delayed stream, search state | once for each trigger and each pulse found | the windows' channels, pulse statistics |
| I2C bus (`i2c_devices.c`, `brdstats.c`) | two port expanders that select a branch | set the expanders, then talk to a device | `brdstats` thread, EEPROM, boot, console |
| Boot (`main.c`), SD card (`sdcard.c`), network setup (`net_setup.c`), console (`console.c`) | `net_config`, the files on the card, the menu | clock chip and registers, card, network, service; reboot | I2C bus, server |
| ADC interface, test generators, register wiring, UDP discovery | | | see `PROJECT.json` |

**Threads.** `main` runs `psc_run`; one thread per connected client runs
`handle_client`; `lstats` and `brdstats` broadcast once a second; `wvfmdata`
broadcasts after a trigger; a console thread reads the UART. All but the console
run at one priority with time slices, so any interleaving between two points
where they touch shared state can occur. The console runs at a lower one, when all
others wait. The FPGA runs beside them.

**What is hard.** Descriptor numbers that are reused while another thread still
holds them; one mutex around blocking sends; header and body in separate sends;
`recv` returning any part of a message, or a timeout in the middle of one;
clients that update parameters at once; power loss while the EEPROM programs a
page; a word count that is read 100 ms before it is used; a circular buffer that
is never cleared and whose length may change; two machines that count the same
triggers and must agree; bus multiplexers that one call sets and the next relies on,
with no lock, and that outlive a reboot. `PROJECT.json` lists each hazard at
its line with the properties about it.

**What makes each part correct.**
* Server: a slot has one owner, a descriptor is used only for the connection it
  was given for, clients receive whole messages in the order they were sent, the
  mutex is given back, descriptors of clients that left come free, and so do their slots,
  but for a thread that meanwhile receives from another client (see `rx_thread`).
* Framing: the callback gets exactly the messages sent, cut at the buffer, and a
  header is looked for only where one starts.
* Settings: registers and EEPROM agree after a successful update and after a
  boot; no parameter goes back to an older value.
* Waveform: a frame is the whole capture of one trigger, its statistics and count
  belong to that trigger, no sample is sent twice.
* Accumulated charge: `accum` is the sum of the last `accum_len` pulses.
* Pulse statistics: baseline, charge, peak, position and width are those of the
  event's own samples, and stand still from the end of its gates to the next trigger.
* Pulses out of window: no sample of the charge is searched, nothing inside a window is
  found, what is found is measured like any pulse.
* Startup delay: the startup fault goes only when the accumulator's buffer is filled.
* I2C bus: behind `PORTEXP1`, and during the boot behind both expanders, a thread reaches
  the device it means or none; behind `PORTEXP0`, which two threads set without a lock, it
  reaches its device if it was the last to set the expander.
* Boot: the network settings come out as the last lines of `NET.CNF` say, and the two EEPROM
  files on the card as the code (not its comment) has it.

## 2. Modules

| Module | Models | Used by |
|---|---|---|
| `PscServer` | `listener.c`, the send half of `pscmsg.c`, `client_event` | `MCPscServer`, `PscServerProofs` |
| `PscFanout` | abstract: what `psc_send` promises | `PscServer` (refinement) |
| `PscRecv` | the receive half of `pscmsg.c` as `handle_client` drives it | `MCPscRecv`, `PscRecvProofs` |
| `Settings` | `eeprom_settings` and what it calls; boot; EEPROM | `MCSettings`, `SettingsProofs` |
| `Waveform` | `adc_data_rdout.vhd`, `wvfmdata.c` | `MCWaveform`, `WaveformProofs` |
| `Accumulator` | `accumulator.vhd` | `Startup` |
| `Startup` | a cycle: `beam_detect_window.vhd` and `startup_dly.vhd` composed with `Accumulator`, which it implements | `MCStartup`, `AccumulatorProofs` |
| `PulseStats` | the processes of one channel of `calc_beam_stats.vhd`: `gen_gates`, `calc_baseline`, `calc_integral`, `find_peak`, `calc_fwhm`, `adc_samplenum` | `BeamOow` |
| `BeamOow` | `calc_charge.vhd`: a channel of `PulseStats`, or `find_beam_oow.vhd` with `find_boow_pulse.vhd` and `gen_gate.vhd` over the same processes | `MCBeamOow`, `BeamOowProofs` |
| `I2cBus` | `i2c_devices.c`, the transfers of `at24eeprom.c`, `brdstats.c` and `console.c`, expanders and devices | `BusSequences` |
| `BusSequences` | what holds of each of those sequences, by itself and beside the others | `Board` |
| `Board` | boot (`main.c`, `sdcard.c`, `net_setup.c`), the threads on the bus, console, reboot and power loss | `MCBoard`, `BoardProofs` |
| `EventReceiver` | `ts_gen.vhd`, `evg_top.vhd`, `event_rcv_ts.vhd`, `event_rcv_chan.vhd`, `sync_cdc.vhd` | `MCEventReceiver`, `EventReceiverProofs` |

`MC*` modules only give values to constants. Definitions named
`<Word>_<Operation>` after a comment "Mutant" are plausible faults of the operation
of that name; they take part in no specification, and putting one in the place of
its operation makes the property named in `PROJECT.json` fail.

### PscServer

State: `used` and `slotSock` are `clients_used` and `clients[].sock`; `guard` is the
holder of `sendguard`; `fdTable` is lwIP's socket table, in which a closed entry may
be given out again at once; `pc` tells where each thread is, and `hfd`, `rconn`,
`newFd`, `newSlot`, `idx`, `sfd` and `msg` are the threads' locals. `wire` is what
each peer has received (forgotten when its connection is closed), and `since`, which is
history, the number of broadcasts when it joined. A step reaches from one point where another thread can
matter to the next: a call into lwIP, taking the mutex, or an unlocked access to a
shared field. So `psc_client_alloc` (under the mutex) is one step, and
`C->sock = client`, which is outside it, is another (`AssignSock`).

Failures: a send to a connection in `Faulty` may fail before, within or after the
header, with part of it sent; a receive may fail when the peer left or by timeout;
`accept` fails when the listening socket was closed. `Leaving` are the connections whose
peer may leave, and `RaceAlloc` says whether a broadcast may begin between the allocation of
a slot and the assignment of its socket.

A failed send closes a descriptor of which the client's handler keeps a copy, and which
`accept` may give out again. `hurt`, which is history, is the set of connections this
reaches: the one whose descriptor was closed (`FailClose`), and each one accepted on a
descriptor that some handler has still to close (`Accept`), which that handler will close
under it, and so on. No code reads it; the properties say what holds of all others.

`Reclaimed` is about those too. Its exception, `Misled`, is the thread of a client that left
which waits in `recv` on a descriptor that now is another client's: it receives that client's
stream, and its own slot stays taken for as long as the other stays. With four slots, a few
such clients leave no slot for new ones.

### PscRecv

A byte is its offset in the stream, so that a property can say which bytes the
callback gets. `Recv` takes any number of bytes that have arrived, `RecvError` is a
timeout (for the reads in `Stalls`) or the end of the connection. The reads are
those of the code: `head`, `body`, `skip` (a chunk in the loop of `psc_recvskip`)
and `last` (the `psc_recvall` after the loop). `RecvError` in `skip` follows the
code: the loop ends and `last` asks for all of `len`, from which the bytes of the
broken chunk were not taken off. The bytes this read puts behind the end of the
128-byte buffer are not modelled, only how many it takes from the stream.

### Settings

A register's value is the number of the write that set it. `Gather` reads one
register per step; `EepromWrite` starts the write cycle with the gathered page, and
`Reported` comes after the 10 ms sleep, which is longer than the cycle. A power loss
in a cycle leaves any mixture of the old and the new page. `lastOk` and `overlap`
are history. `Boot` reads the page and disperses it over the registers
(`EepromDisperseData`). An EEPROM transfer either works or fails as a whole, and reaches
the EEPROM; whether it does is the question of `Board`. It need not: if `brdstats` connects
the SFP module of a slot between the two calls of an update, the module's A0h space acknowledges
the page at the same address, 0x50, and `control.c:134` reports success for a page that
never came to the EEPROM. `Persisted`, `NoRegress` and `OwnStored` hold where this does
not happen.

`Persisted` speaks of updates that overlap no other, and must: `eeprom_settings`
takes no lock between its steps (`control.c:113` sets the register, `control.c:128`
writes the page it gathered), so a client that gathered before another set its
register may write after it, and the EEPROM ends without the other's value, although
`control.c:134` reports success to both. The next update repairs it; a restart before that
brings back the old value.

### Waveform

A word of the FIFO is the trigger it was captured for and its index. `Poll` reads
the count, `Wake` ends the 100 ms sleep. The sleep is modelled by its length
against the hardware: 16000 samples take 0.13 ms, so a capture and the pulse gates
that were running when the count was read are over when it ends. `ReadWord` is one
read of the data register, and triggers, samples and new statistics may fall
between any two steps of the thread. `spaced` is history: whether each trigger so
far came after all of the frame before was dealt with.

### Accumulator

A step is a state of the state machine with the clock edge of the RAM. `Trig` takes
any sample and any `q_min`; `Reset` (`pl_reset`) and `SetLen` (software writes
`accum_length`) may come at any clock. Arithmetic is modulo `W`. `end_sample` is the
cell at `rdaddr`: the read port has been steady for the 2000 clocks of
`beam_detect_window`. History: `totals` holds the running totals since the reset, so
that the sum of the last samples is the difference of two of them; `clean` says that
the length has not changed since the first sample.

### Startup

`Startup` adds what makes the accumulator take a sample (`WindowEnds`, the fall of
`beam_detect_window`) and what says that its sum may be trusted (`startup_fault`). A step is
an event: a trigger, a turn of the key, the end of a window, a step of the
accumulator, a reset, a change of the length. A trigger and a turn of the key are taken
only while the accumulator rests. They share no register with its few clocks of work, so that the
order does not matter. `StartupDly` is one clock of `startup_dly.vhd`, of whose two
`if`s the second wins where both assign. History: `since` is the number of samples at
the turn of the key, `orderly` that nothing has put delay and samples out of step
since: a trigger inside a window (counted by one machine only), a reset, a new length,
or a key that was turned off and on again during the delay and whose second edge fell in the
clock of a trigger.

The delay counts a 32-bit `accum_length`, the accumulator takes the 13 bits its
buffer can address. The properties hold for lengths the buffer can hold.

### PulseStats and BeamOow

`PulseStats` has one operator for each process, with the inputs the instances differ in
as parameters. `BeamOow` puts them together: a behaviour follows one `channel` of
`calc_charge.vhd`, either `"window"`, a pulse in its window (`InChannel`, with the
window that `find_beam_oow` opens for it running beside), or `"outside"`
(`FindBeamOow`). The two read the same stream and do not touch one another, so that one at
a time is enough. A step is an edge of the ADC's clock, with any sample and with or without
a trigger. The records `gates`, `base`, `intg`, `finder` and `width` hold the
registers of `gen_gates`, `calc_baseline`, `calc_integral`, `find_peak` and
`calc_fwhm`; `dly` is `adc_shift_ram` (its depth in the IP script is 60, not the 40 clocks
of the comment), `boow_dly` is `boow_shift_ram`. The lengths of gates and sums are
constants, so that the relation between them is kept: the sum is a sample shorter than
its gate, a window is longer than the two gates in it. Arithmetic on `accum` and on the
threshold wraps at `HalfScale`. History: `win` holds the samples since the gates began,
`masked` whether each was in the window, `clean` that the last trigger found every
process idle, or repeated one before the gates had opened, `fresh` that it found
`calc_fwhm` idle, `armed` that it found the windows idle, `found` the number of the sample
at which the search stopped. The properties compare the registers with sums and maxima
over `win`, so they also fix how many clocks each process lags behind.

What the properties had to exclude is worth knowing:
* The first sample of the integral is measured against zero in a window: it is in the
  registers before the baseline is in its own (`Charge`).
* The baseline is the sum of 31 samples divided by 32, and the sum is kept in 16 bits:
  `BaselineRight` holds as long as it does not overflow, about 1057 counts.
* `calc_fwhm` goes back to idle only when the pulse has ended; if a cycle ends
  before, the next width is begun in the wrong place. Hence `fresh`.
* `gen_gates` and `gen_gate` end two clocks apart. A trigger between the two ends starts one of
  them only. Hence `armed`.
* The zeros in the windows are compared with the samples before and after: a threshold
  below the distance of the signal from zero reports the edge of a window, and a
  threshold so high that it wraps reports anything. `OnlyOutside` says so.
* A pulse found in the clock of a trigger leaves the search off for the whole event
  (`find_boow_pulse.vhd`: the trigger is looked for only in the clock after).
* `MinCycle` bounds from below how soon a trigger follows the one before when
  `channel = "outside"`; the other channel takes triggers at every clock.

### EventReceiver

`Clock` is an edge of the link's clock, on which transmitter and receiver run, and
has one operator for each process of the receiver; `AdcClock` is an edge of the ADC's
clock, of which one or two fall between two edges of the link's (200 and 125 MHz).
What the synchroniser's first stage sees in the first edge after its input changed is
open. Any code may be lost. `Tick` stands for the 1 Hz generator of `evg_top`, a
second being longer than a transmission; the channel listens for the code the
transmitter sends with it. `Reset` is `pl_reset`, which may come at any clock and
lasts until the pipelines are empty. History: `pending` counts events received less
triggers given, `good` says that no bit was lost since the last latch code that
arrived, `known` that `secondsReg` comes from such a latch code.

### I2cBus and Board

`I2cBus`: each function is the sequence of transfers it makes, with the device it
*means* noted beside each one; `Program` has the sequences the threads execute, `op` and
`step` say where each thread is. `sel` is what the two expanders connect, `Answering`
the devices of an address behind the connected channels. A device that is in `Flaky` may leave a
transfer unanswered. `pointed` is what an address pointer holds: the register a
thread's latest write set, until another transfer moves it. `owner`, history, is the
thread that set each expander last.

`Devices` has also what no function means but what answers on the channels that are
connected: the A0h space of each SFP module at 0x50 (`SfpId`; `i2c_sfp_get_stats` reads the
A2h space at 0x51 of the same module), which is the address of the parameter and MAC
EEPROMs, and the upper quarters of the AT24CM02 at 0x51 to 0x53 (`ParamQuarter`; the two
highest bits of a byte's address are part of the device's), of which the first has the
address of the A2h spaces. All of them are behind `PORTEXP0`.

`BusSequences` states what a reader of `i2c_devices.c` would check of each function: it
sets the expander of its device to that device's channel and no other before it talks to
it (`Selected`); no other device of the address is connected by it, nor by a sequence that
may run beside it, but for two devices behind `PORTEXP0` (`Alone`); a read follows the write
of its register, and where the transfer is `Undisturbed` (behind `PORTEXP1`, whose channels
only `brdstats` connects, or during the boot) nothing that runs beside it connects that
channel or talks to that address (`Pointed`); when `brdstats` gives the processor away it has
connected nothing to `PORTEXP0` (`RoundEnds`). `SequencesRight` says so of all of them. It has
no variables: TLC computes it when it starts the board run.

`Board`: `phase` is how far the main thread is. The files on the card
are arbitrary at each boot, a line of `NET.CNF` is one of the kinds `sdcard_netconf` tells
apart, and an access to the card may fail (`failed`, history, says that one did, or that no
partition could be mounted). `EEPROM.NEW` is deleted although the call that
would write it to the EEPROM is commented out, and `EEPROM.DAT` is created if it is not there
and overwritten, whatever its size, from a buffer that nothing fills: both are modelled as the
code has them. `NetSetup` forgets the configuration, which nothing looks at again. `PscRun` is
`psc_run` up to its loop; `PscRunReturns` its return when `calloc`, the mutex, the socket,
`bind` or `listen` fails, after which the main thread only prints (`"failed"`), and
only a power loss ends that: the console was not started. `Reboot` keeps the expanders
(`Restart` resets only the processor), `PowerLoss` clears them. A thread of higher
priority is preferred to the console (`Runs`): the console runs when the others wait, but
they may take over between any two of its transfers.

A transfer is atomic: `XIicPs_*Polled` is not interrupted by another thread's use of
the controller. The source has no lock that says so, only loops that wait while the bus is
busy (`i2c_devices.c:51`, `61`, `160`), which have no bound. Both are assumed: that transfers do
not overlap, and that these loops end. A bus that stays busy stops the thread that waits, at
boot for ever; no property here says that the boot comes to its end.

## 3. Runs

| Run | Bounds | What it shows |
|---|---|---|
| `server_safety` | 2 broadcasters (symmetric), 3 connections, 2 slots, 4 descriptors, 2 broadcasts, sends to the first client may fail, receives end by timeout only, no broadcast in the allocation window | types, `SlotOwner`, and for the clients no failed send has hurt `Framed`, `SocketOwner`, and that the server implements `PscFanout`: every client gets every broadcast from its joining to its leaving, in one order |
| `server_faults` | 1 broadcaster, 2 connections, 2 slots, 3 descriptors, 1 broadcast, sends to any client may fail, any client may leave | `SendReturns`: the mutex is given back; `Reclaimed`: the descriptor of a client that left comes free, and its slot and thread, unless that thread receives from another client that is still there |
| `rx_thread` | 2 slots, sends may fail | violation: see findings |
| `listener_closed` | broadcasts in the allocation window | violation: see findings |
| `recv_stream` | headers of 2 bytes, buffer 3, chunk 2, bodies of 0, 2, 3, 4, 7 and 8 bytes, 3 messages, stalls in a header, a body or the last skip, close at any time | `HandledRight`, `Aligned`, `Delivered` |
| `recv_skip_stall` | stalls within a skipped chunk | violation: see findings |
| `settings` | 2 clients (symmetric), 3 parameters, 3 writes, 1 power loss, failing writes, failing read at boot | `Persisted`, `NoRegress`, `OwnStored` |
| `waveform` | frames of 5 words, thresholds 2 and 3, FIFO of 10, 3 triggers at any time | `WholeFrame`, `StatsMatch`, `Counted` for spaced triggers; `InOrder` for all |
| `charge` | 4 cells, sums modulo 8, samples 1 and 5, lengths 0 to 3, 4 samples, key and triggers without limit | `SlidingSum`; `StartupCovered`: when the startup fault goes, the sum covers the whole length |
| `pulse_stats` | samples -1 and 4 of 4 bits, gates of 4 samples, sums of 3, delay 3, windows of 6 from samples 1 and 3, 12 sample numbers, triggers at every clock (outside: from sample 5 on) without limit | `BaselineRight`, `IntegralRight`, `PeakRight`, `FwhmRight`, `Stable` in both channels, `ChargeMasked`, `OnlyOutside` |
| `board` | 1 client, console and `brdstats`, all devices but the SFP modules of two slots, of which the parameter EEPROM, the power monitor, the two Linear Technology chips LTC2977 and LTC2991 (0x49) and an SFP module's A2h space may not answer, 3 lines of `NET.CNF`, card may fail, reboots and power losses without limit | `NeverAnothers`, `RightDevice`: which device a transfer reaches; `CardHandled`: what the card's files make of the network settings, and what becomes of the files |
| `event_receiver` | seconds of 2 bits, 3 seconds, pauses of 3 clocks, offset modulo 40, delay 1 and width 8 as in the code, lost codes and resets anywhere | `OneTrigger`, `SecondRight`, `Monotone` |

**Why the bounds are enough.** Server: what goes wrong between connections is the reuse of
a slot or a descriptor, which needs a connection that leaves, or whose socket a failed
send closes, and one that comes (two), and perhaps a bystander or one that finds no slot
(three); two broadcasters and two broadcasts give a broadcast that waits for the mutex and
one that finds a new client. That any send fails and any client leaves is in the proofs,
which cover any number of all of these. `server_faults` needs the second slot: with a
single one, no client is accepted on a closed descriptor while the first still has its
slot, and `Reclaimed` would hold without its exception. Framing: the body lengths are
those at which the code branches (empty, below, at and above the buffer, a rest of exactly
one chunk, of more, and of a multiple of it), and a third message shows what an error in
the first two does to what follows; the proofs cover all lengths, stalls in a skipped
chunk excepted. Settings: a lost update needs two writes, its repair by a later update a
third; the proofs hold for any number of all of these. Waveform: three triggers fill the
FIFO of two frames and hit a capture, a readout and a reset; the proofs cover any number
of them and any frame. Charge: four samples go round a buffer of one to three, and the
proofs cover all other sizes. Board: a second client would only repeat the first one's
three transfers; what disturbs a thread is any other thread between two of its transfers,
and `brdstats` with its sequence through all branches and the console give every such
case; the two empty slots are channels on which nothing answers; among the devices that
may not answer are those whose drivers look at the status and those whose drivers do not;
three lines let one setting be given, spoiled and given again; the proofs cover any number
of clients and lines and any devices that are fitted. Pulses: two samples far enough apart
to change baseline, peak and width, in every sequence, and triggers at every clock; the
sum of three high samples overflows. Event link: two bits are enough for the pointer to
wrap and for a bit to land in the wrong place, the third second shows what a spoiled one
does to the next, and the transmitter may idle long enough for the offset to wrap. The
proofs about pulses and link hold for the lengths and widths of the hardware.

**Deadlock** is checked in the server, charge, pulse, event link and board runs. In the others
the peers stop after their bounded number of messages, triggers or writes, so a final state is
the normal end.

**Fairness.** `SendReturns` and `Reclaimed` assume that the threads inside `psc_send` and
`psc_send_one` run (weak fairness of their steps; sends end by `SO_SNDTIMEO`, set in
`psc_run`), that receives end by `SO_RCVTIMEO` and that a handler waiting for the mutex
gets it in the end (strong fairness: FreeRTOS wakes the waiters of one priority in turn).
Nothing is asked of `psc_run` or of the start of a broadcast. Peers owe nothing:
connecting, sending and leaving are not fair. `Delivered` assumes that TCP delivers
(`Arrive`) and the thread runs. `Counted` assumes that the capture and the statistics
finish and the thread runs; triggers are not fair.

## 4. Findings

* `rx_thread` (`listener.c:251`): the socket closed after a send error need not wake
  its receive thread; if the thread was not inside `recv` and another client is
  accepted first, the thread receives that client's messages.
* `listener_closed` (`listener.c:180`): a broadcast between `psc_client_alloc` and
  `C->sock = client` sends on descriptor 0, the listening socket, and closes it.
* `recv_skip_stall` (`pscmsg.c:70`): a timeout in the skip loop makes `psc_recvskip`
  take bytes of the next message.

Met while modelling, described with the modules or here, and not shown by a run of
their own:
* Lost updates of the EEPROM by concurrent clients (`control.c:113`, see Settings).
* The console's write to the carrier's EEPROM sets `PORTEXP1` only
  (`i2c_devices.c:104`). If channel 7 or 6 of `PORTEXP0` is still connected, by the boot or a
  client's update, the same bytes go to the parameter or MAC EEPROM. `RightDevice`
  excludes it by asking that `brdstats`, which goes through every branch, set
  `PORTEXP0` last.
* An update and `brdstats` set `PORTEXP0` in turn, without a lock. If `brdstats` connects an SFP
  module between an update's call that sets the expander and its write, the module's A0h space
  acknowledges the page and `control.c:134` reports success, although the parameter EEPROM
  never got it. If an update connects the AT24CM02 between two calls of
  `i2c_sfp_get_stats`, its second quarter answers at 0x51 and `brdstats` publishes what
  it holds as the state of the module. `NeverAnothers` leaves `PORTEXP0` out in service for this;
  `RightDevice` says that nothing but such a change of the expander brings it about.
* `psc_run` returns when an allocation, the mutex, the socket, `bind` or `listen` fails
  (`listener.c:101`-`117`), and `main.c:205`-`209` then prints for ever: no thread is started
  and the board stays without service until its power is cycled.
* The slot of a client that left can stay taken (`Misled`, see PscServer).
* `i2c_ltc2991_vcc_0v85_current` reads the register of the voltage
  (`i2c_devices.c:532`, index 6; the schematic in the comment at 352 puts the current at 7).
  `NeverAnothers` excludes it by name (`Mislabelled`).
* `read_i2c_temp` and `i2c_ltc2991_voltage` publish what is on the stack when a device
  does not answer; temperatures are taken as unsigned.
* `sdcard.c:6` says that `EEPROM.DAT` is written "if present with zero size", and the comment at
  162-165 that the EEPROM is copied to it. The code opens it with `FA_OPEN_ALWAYS` (line 244),
  so that an absent file is created, does not test its size, so that a full one that differs is
  overwritten, and fills it from an uninitialised buffer. `EEPROM.NEW` is deleted and never
  applied. `CardHandled` states what the code does.
* `sdcard.c`: the hardware address stays zero when `NET.CNF` has no `hwaddr` line.
* `startup_dly.vhd`: `keylock_last` is not reset, so a key left in run position over
  a `pl_reset` starts no delay and the fault stays until it is turned.
* `timing_events.vhd` declares the output `beam_cycle_window` and never drives it.

`SocketOwner`, `Framed` and `FanoutSpec` are checked and proved for the clients that no
failed send has hurt, where no broadcast falls into the allocation window: the first two
findings are exactly why they cannot hold beyond that.

## 5. Proofs

Every invariant and every safety property of a step that a run shows is proved for all
values of the constants. A proof module belongs to one model, `AccumulatorProofs` to
`Accumulator` and to `Startup`, which contains it.

**`PscServerProofs`**, for any numbers of threads, slots, descriptors and connections.
With any failing sends and broadcasts at any moment:
* `TypeCorrect`: `Spec => []TypeOK`.
* `SlotsOwned`: `Spec => []SlotOwner`. `SlotOwner` is not inductive. The invariant
  `SlotInv` adds `IdxInv` (a sender inside the loop has an index below its limit, so
  that it marks only an existing slot) and `NewConn` (the connection `psc_run` is
  placing has no handler yet and is the latest). Most steps keep the fields `SlotOwner`
  reads (`SenderFrame`, `HandlerFrame`, `PcRunFrame`), so that only allocation, the
  creation of the handler, and `psc_client_free` need an argument.

With any failing sends, but no broadcast between `psc_client_alloc` and `C->sock = client`
(`~RaceAlloc`; the finding `listener_closed` shows that this cannot be left out):
* `ListenerStays`: `Spec => []ListenerOpen`: the window is the only way to that finding.
* `MessagesFramed`: `Spec => []Framed`; `SocketsOwned`: `Spec => []SocketOwner`. What a
  failed send does stays with the connections in `hurt`; the finding `rx_thread` shows that
  for them neither holds.
* `ImplementsFanout`: `Spec => FanoutSpec`, the refinement of `PscFanout`. Taking the
  mutex in `psc_send` is `Publish`, the body of a message for a client that is not hurt is
  `Deliver`, `AssignSock` is `Join`, `psc_client_free` is `Leave`, and so is the closing of
  a client's socket after a failed send; an `accept` that gives a connection a descriptor
  another handler will close is `Refuse`. Every other step is a stutter.

The four share `OrderInv`, which adds to `SlotInv`: only the holder of `sendguard` is
inside a send (`GuardInv`); whatever fails, a connection has one descriptor at most, which
a thread that is there will close, and nobody will close the listening socket (`FdInv`);
a connection that is not hurt has its descriptor for itself: no other handler, and not
`psc_run`, has the same number (`HurtInv`); a message goes to a client that is served, on
the socket of its slot, and once that socket is closed for an error no descriptor refers to
the client (`BodyInv`); what an unhurt client has received is a row of whole messages, with
a header at the end only while its body is due (`WireInv`); and the latest broadcast it has
is the one before the current, or the current if the loop has passed its slot (`LastInv`).

**`PscRecvProofs`**, for any lengths of headers, messages, buffer and chunk, any cutting of
the stream by `recv`, and a peer that closes at any time:
* `TypeCorrect`: `Spec => []TypeOK`, wherever the peer stalls.
* `MessagesHandled`: `Spec => []HandledRight`, and `HeadersAligned`: `Spec => []Aligned`,
  both assuming `NoSkipStall`, that the peer does not stall within a skipped chunk. The
  run `recv_skip_stall` shows that `Aligned` fails without it. Neither is inductive: the
  invariant adds `StreamInv`, which says for each read where in the stream the thread
  stands and which bytes of the message the buffer holds already, `BoundsInv` (messages
  follow one another, so that a header can be found only where the current message
  starts) and `SkipInv` (the loop of `psc_recvskip` runs while more than a chunk is left;
  the end of a closed connection therefore never falls into a chunk of the loop).

**`SettingsProofs`**, for any numbers of clients, parameters and power losses, with failing
transfers and boots:
* `TypeCorrect`: `Spec => []TypeOK`.
* `OwnValueStored`: `Spec => OwnStored`. The invariant `OwnInv` says that the register of
  a thread that gathers, and the gathered page once the thread is past it, have the
  thread's value or a later one.
* `NeverRegresses`: `Spec => NoRegress`. A page could bring an older value only if
  something older than the EEPROM were gathered. `AgeInv` says that everything stored is
  no younger than its register (or of no age, if a boot could not read it); `LoneInv`
  that, unless updates overlap, one thread is at work, the EEPROM stands still while it
  gathers, and what it has gathered is no older than the EEPROM.
* `ParametersPersist`: `Spec => []Persisted`. `SyncInv` follows a lone update: what it has
  gathered equals the registers, then the page on its way does, then the EEPROM does, and
  registers that agreed with the EEPROM before it differ in its one parameter only.

**`WaveformProofs`**, for frames, FIFOs and thresholds of any size and triggers at any time:
* `TypeCorrect`, and `WordsInOrder`: `Spec => InOrder`. `WordOrder` orders all words
  by trigger and index: those sent, those being read, those in the FIFO, and what is still
  to be captured (`Horizon`). A reset of the FIFO or an overflow takes words out of the
  middle and so keeps the order.
* `WholeFrames`: `Spec => []WholeFrame`; `StatisticsMatch`: `Spec => []StatsMatch`. Both
  speak of spaced triggers; `SpacedInv` says that while the thread waits, the latest trigger
  is either all dealt with (`Done`) or all ahead of it (`Pending`: the FIFO holds the first
  words of its frame and nothing else), and where the frame is in each state of the thread.

**`AccumulatorProofs`**, for any buffer size, word width, samples and lengths:
* `TypeCorrect`: the registers keep to their widths.
* `ChargeIsSlidingSum`: `Spec => []SlidingSum`. The invariant `Inv` says where the
  pointers are relative to the number of samples (`PtrInv`), that `bufcnt` and
  `buffull` are the counts they should be (`CntInv`), that the cells behind the write
  pointer hold the last samples (`RamInv`, the part that makes stale cells harmless:
  a cell is read only after it was written in this use) and that `accum` is the right
  difference of totals in each state (`SumInv`). The lemmas `Wrap...` are the facts
  about modular sums it rests on.
* `CycleRefines`: `CycleSpec => Spec`: every step of the cycle of `Startup` is a step of
  the accumulator or leaves it alone, so that its theorems hold in the cycle
  (`CycleSum` restates `SlidingSum` there).
* `StartupCovers`: `CycleSpec => []StartupCovered`. `StartupCovered` speaks of the moment the
  delay is over; the invariant `CycleInv` adds `DelayInv`, which says while it runs that
  the samples taken since the turn of the key, with the one the open window will
  give, are at least the triggers counted so far. The trigger that ends the delay
  finds the window closed, so that all of them have been taken.

**`BeamOowProofs`**, for any samples and lengths of gates and windows, and triggers at any
clock. The processes do not wait for one another: that they work on the same samples
follows from counting clocks. The invariant `EventInv` says where each of them is, and what
it holds, `n` clocks after the gates began (`At(n)`). The theorems add what is known of the
samples:
* `TypeCorrect`; `ResultsStable`: `Spec => Stable`.
* `ChargeIsMasked`: `Spec => []ChargeMasked` (`MaskInv`: where the window is at `n`).
* `PeakFound`: `Spec => []PeakRight` (`PeakInv`: the highest sample so far and the first of
  that height); `WidthMeasured`: `Spec => []FwhmRight` (`WidthInv`: the rising edge and how
  far the count is, in the delayed stream).
* `BaselineMeasured`: `Spec => []BaselineRight`, `ChargeMeasured`: `Spec => []IntegralRight`
  (`SumInv`: `accum` is the sum of the samples so far, where no intermediate sum overflows
  unnoticed).
* `FoundOutsideOnly`: `Spec => []OnlyOutside`.

Their hypotheses are relations between constants. Six are about lengths, and those
of the code (gates of 32 and 60 clocks, sums of 31 and 59 samples, windows of 92, a delay
of 60, `fwhm` of 16 bits) satisfy them: `InStep` (31 <= 92, 59 < 60, 10 < 92),
`GatesCovered` (32 + 59 <= 92), `WidthInStep` (60 < 95, 31 < 92, 61 < 65536),
`BaselineInStep` (32 = 31 + 1), and, for starts a window and a gate below the end of the sample
counter, `CounterFits` and `CounterRuns`. Two are about the signal: `SamplesAbove` (no sample
is below the -32000 from which `find_peak` starts) and `ThresholdFits` (a sample and
the threshold together stay in 16 bits); what happens otherwise is said under `PulseStats`.

**`EventReceiverProofs`**, for any number of bits, pauses, width of the offset, delay and
width, lost codes and resets:
* `SecondsArrive`: `Spec => SecondRight`; `TimeRuns`: `Spec => Monotone`. `LinkInv` relates the
  receiver's shift register to the bits that the transmitter has behind it (`PosInv`,
  `TmpInv`), the latched second to one that was sent (`KnownInv`), and the time
  stamp of the latest step to the registers (`StampInv`). The lemmas on `Weight`
  (powers of two as a recursive function) show that `ValueOf` undoes `BitsOf`.
* `TypeCorrect`: `Spec => []TypeOK`; `TriggerPerEvent`: `Spec => []OneTrigger`. Where
  the pulse is on its way from the channel through the synchroniser follows from the clocks
  since the event, its age (`AgeInv`), of which the transmitter's state gives a lower bound.
  Both assume `Spaced`: an event is over before the next is sent. In the code the left side is
  15 clocks, the right side 427.

**`BoardProofs`**, for any number of clients, any devices fitted, any of them not answering,
and any number of lines. What is particular to this board is in `SequencesRight`; the proofs
are about interleaving, and share the invariant `BusInv`. `RoleInv` says who may work when.
`SelInv` says of each busy thread but the console's that an expander it set connects what it
chose, and besides only what threads beside it select; `OwnerInv`, of every thread, that the
expander connects exactly that if the thread was the last to set it. `RestInv` is about the
moments at which `brdstats` pauses: if it set `PORTEXP0` last, nothing is connected to it. The
console runs at those moments only, which is why the part of `RightDevice` about it holds
although it leaves `PORTEXP0` as it is. `PointInv` says that a thread about to read a
connected device has set its register, where it can be `Sure` of it: the transfer is
undisturbed, and the device answers or its driver looks at the status.
* `NeverOthersDevice`: `Spec => []NeverAnothers`. Behind `PORTEXP1` and in the boot, no device
  of the address of a transfer is connected by a thread beside it, so that `SelInv` leaves the
  one meant or none.
* `OwnDevice`: `Spec => []RightDevice`: `OwnerInv` for the device's own expander, `SelInv`,
  `OwnerInv` and `RestInv` for others of its address.
* `CardRight`: `Spec => []CardHandled`. The addresses follow the lines at every moment
  (`AddrInv`, `StaticInv`), the hardware address when no line is being executed (`HwInv`), because the
  main thread has the bus to itself (`ExactInv`) and the last transfer of its sequence
  reads the MAC EEPROM (`MacInv`). `FileInv` follows the two files through the phases. It
  assumes that the MAC EEPROM is fitted and answers (`Mac \in Fitted \ Flaky`); if not, the
  address stays zero.
* `TypeCorrect`: `Spec => []TypeOK`.

**Assumptions.** Those named in the modules: `ServerAssumption`, `RecvAssumption`,
`SettingsAssumption`, `WaveformAssumption`, `AccumulatorAssumption`, `PulseAssumption`,
`OowAssumption`, `EventAssumption`, `BusAssumption`, `BoardAssumption`, and `SequencesRight`, a closed
term; TLC evaluates them in every run of the module. The hypotheses beyond them are the
ones above: `~RaceAlloc`, `NoSkipStall`, those of `BeamOowProofs`, `Spaced`, and that on `Mac`
in `CardRight`.

**Induction over data.** The library's induction theorems take an operator as a
parameter, which the provers cannot instantiate. Where a sum over samples or a
power of two is needed, the proofs use that a non-empty set of numbers has a least
element (`NatLessThanWellFounded`, `WFMin`): the set is that of the counterexamples.

**Only model-checked**: liveness (`SendReturns`, `Reclaimed`, `Delivered`, `Counted`),
since the proof system treats neither fairness nor `ENABLED`. The properties of
the runs that expect a violation are false.

## 6. What is not modelled, and why

* `reg_settings` and `write_adc_table`: the first writes ADC delay and SPI registers
  one after the other with no state of its own, the body of the second is commented
  out.
* `faults.vhd`: its only process compares results with limits at the end of
  `beam_cycle_window`, which nothing drives; as wired it takes no step, and inputs of
  the fault word that are tied to '0' and inverted keep the output `fault` up. The one condition
  that is alive, the startup fault, is in `Startup`.
* The characters within a line of `NET.CNF` and at the UART; `f_gets` cuts lines
  longer than 63 characters.
* The two reads of the time stamp in `send_timestamp`: the registers cross from the
  link's clock to the bus unsynchronised, so what a read returns while they change is
  not known from the source.
* The transceiver, the event channels whose outputs are not connected, and the
  revolution trigger.
* Contents of the status messages of `lstats` and `brdstats`, and the conversions of what
  sensors return: which device and register a value comes from is in `Board`; their
  broadcasts are `psc_send` calls of `PscServer`.
* lwIP, FreeRTOS, FatFs and the EEPROM: only what the code sees of them.
* ADC interface, test pulse generators, register wiring: pin-level or structural.
* UDP discovery: its start is commented out in `main.c`.

## 7. Plan

Done: the message server with its abstract fan-out, message framing, settings,
waveform readout, accumulated charge with startup delay, pulse statistics in and out of
the windows, event link, boot and I2C bus; proofs of all the safety properties, some under
the hypotheses named above.

Next, in this order:
1. A sliding window as the abstract specification of the accumulator, and the proof
   that the accumulator implements it.
2. What a peer still gets once a failed send has hurt its connection.
3. `faults.vhd`, when `beam_cycle_window` is driven.
