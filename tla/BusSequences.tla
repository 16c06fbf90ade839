------------------------------ MODULE BusSequences -----------------------------
(***************************************************************************)
(* What holds of the sequences of transfers, each by itself and beside the *)
(* others: every function selects its device before it talks to it, and    *)
(* enough of the rest is not connected.  Program is a closed term, and     *)
(* SequencesRight a computation on it.                                     *)
(***************************************************************************)
EXTENDS I2cBus

Transfer(i) == i.op \in {"write", "read"}

\* The settings of an expander before the k-th transfer of sequence n, the last
\* one of them, and all channels n connects.
Before(n, k, pe) ==
  {j \in 1 .. k - 1 : Program[n][j].op = "expand" /\ Program[n][j].pe = pe}
Chosen(n, k, pe)   == Program[n][Max(Before(n, k, pe))].channels
Selections(n, pe)  == UNION {Program[n][j].channels : j \in Before(n, Len(Program[n]) + 1, pe)}

\* The sequences that other threads may execute at the same time, for those of
\* all threads but the console: boot is the main thread's alone.
Beside ==
  [main |-> {}, get_mac |-> {}, get_mac_twice |-> {},
   brdstats |-> {"update"}, update |-> {"brdstats", "update"}]
Others(n, pe) == UNION {Selections(m, pe) : m \in Beside[n]}

\* The devices whose drivers look at the status of the write.
StatusChecked == {ParamEeprom, Ina226}

\* i2c_devices.c:532 reads the register of the voltage.
Mislabelled == i2c_ltc2991("vcc_0v85_current")[2]

\* A read whose register the write before it names.
Named(i) == i.op = "read" /\ i.reg # NoReg /\ i # Mislabelled

WellFormed(n, k) ==
  LET i == Program[n][k] IN
  /\ i.op \in {"expand", "write", "read", "pause"}
  /\ i.op = "expand" => i.pe \in Expanders /\ i.channels \subseteq 0 .. 7
  /\ i.op = "pause" => k = 1 \/ k = Len(Program[n])
  /\ Transfer(i) => i.dev \in Devices /\ i.dev[1] \in Expanders /\ i.addr = i.dev[3]
  /\ i.op = "write" =>
       /\ i.reg \in 0 .. 255 /\ i.skip \in {0, 1}
       /\ i.skip = 1 => k + 1 \in DOMAIN Program[n] /\ Program[n][k + 1].op = "read"

Selected(n, k) ==
  LET i == Program[n][k] IN
  Transfer(i) => Before(n, k, i.dev[1]) # {} /\ Chosen(n, k, i.dev[1]) = {i.dev[2]}

\* The transfers between which no other thread changes what is behind the
\* expander of the device: those of PORTEXP1, whose channels only one thread
\* connects, and those of the boot.  On PORTEXP0, brdstats connects the SFP
\* modules and an update the parameter EEPROM.
Undisturbed(n, i) == i.dev[1] = 1 \/ Beside[n] = {}

\* No other device of the address is connected by n; nor by what runs beside
\* it, but behind PORTEXP0 to a transfer that means a device there.
Alone(n, k) ==
  LET i == Program[n][k] IN
  Transfer(i) => \A d \in Devices \ {i.dev} : d[3] = i.addr =>
    /\ d[1] \in Expanders /\ Before(n, k, d[1]) # {} /\ d[2] \notin Chosen(n, k, d[1])
    /\ d[1] = 1 \/ i.dev[1] = 1 => d[2] \notin Others(n, d[1])

\* The console leaves the first expander as it is.
AloneUnder(n, k) ==
  LET i == Program[n][k] IN
  Transfer(i) => i.dev[1] = 1 /\ \A d \in Devices \ {i.dev} : d[3] = i.addr => d[1] = 0

\* When brdstats gives the processor away or its round is over, it has connected
\* nothing to the first expander.
RoundEnds ==
  /\ Program["brdstats"][Len(Program["brdstats"])].op = "pause"
  /\ \A k \in DOMAIN Program["brdstats"] :
       Program["brdstats"][k].op = "pause" /\ Before("brdstats", k, 0) # {}
         => Chosen("brdstats", k, 0) = {}

\* A read is of the register that the write before it set, in the same device;
\* and if the transfer is undisturbed, nothing beside n connects the channel of
\* the device or sends to its address.
Pointed(n, k) ==
  LET i == Program[n][k]
      w == Program[n][k - 1]
  IN Named(i) =>
       /\ k - 1 \in DOMAIN Program[n]
       /\ w.op = "write" /\ w.dev = i.dev /\ w.reg = i.reg
       /\ w.dev \in StatusChecked => w.skip = 1
       /\ Undisturbed(n, i) =>
            /\ i.dev[2] \notin Others(n, i.dev[1])
            /\ \A m \in Beside[n] : \A j \in DOMAIN Program[m] :
                 Transfer(Program[m][j]) => Program[m][j].addr # i.addr

\* i2c_get_mac_address, once or twice, ends with a read of the MAC EEPROM, and
\* passes over no transfer.
MacLast(n) ==
  /\ Program[n][Len(Program[n])].op = "read"
  /\ Program[n][Len(Program[n])].dev = Mac
  /\ \A k \in DOMAIN Program[n] : Program[n][k].op = "write" => Program[n][k].skip = 0

ASSUME SequencesRight ==
  /\ \A n \in DOMAIN Program :
       /\ Len(Program[n]) \in Nat \ {0} /\ DOMAIN Program[n] = 1 .. Len(Program[n])
       /\ \A k \in DOMAIN Program[n] : WellFormed(n, k) /\ Selected(n, k)
  /\ \A n \in DOMAIN Beside : \A k \in DOMAIN Program[n] : Alone(n, k) /\ Pointed(n, k)
  /\ \A n \in DOMAIN Program \ DOMAIN Beside : \A k \in DOMAIN Program[n] : AloneUnder(n, k)
  /\ MacLast("get_mac") /\ MacLast("get_mac_twice")
  /\ RoundEnds

=============================================================================
