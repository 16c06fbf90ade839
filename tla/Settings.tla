------------------------------- MODULE Settings -------------------------------
(***************************************************************************)
(* The parameters: an IOC changes one with a message, the receive thread   *)
(* of its connection writes the register in the FPGA, gathers all          *)
(* registers and writes them to the EEPROM as one page.  At boot the page  *)
(* is copied to the registers.  Every connection has its own thread and no *)
(* lock is taken.                                                          *)
(*                                                                         *)
(* Register writes are numbered; a register's value is the number of the   *)
(* write that set it, 0 being the value the parameter had at first.        *)
(***************************************************************************)
EXTENDS Naturals

CONSTANTS
  Handlers,     \* receive threads, one per connected client
  NumParams,    \* EEPROM_PARAMS_NUM_REGS (50)
  MaxWrites,    \* bound: register writes
  MaxCrashes,   \* bound: power losses
  BusFails,     \* TRUE: an I2C write to the EEPROM may fail
  ReadFails     \* TRUE: the I2C read at boot may fail

ASSUME SettingsAssumption ==
  /\ NumParams \in Nat \ {0}
  /\ MaxWrites \in Nat /\ MaxCrashes \in Nat
  /\ BusFails \in BOOLEAN /\ ReadFails \in BOOLEAN

Params == 1 .. NumParams
Values == 0 .. MaxWrites
Junk   == MaxWrites + 1        \* what is on the stack, or 0xFF
Stored == Values \cup {Junk}

VARIABLES
  reg,        \* the parameter registers
  page,       \* the EEPROM
  prog,       \* the page it is programming
  busy,       \* its write cycle is under way
  up,         \* the power is on and the parameters are restored
  pc, addr,   \* of each thread: step of eeprom_settings, the parameter
  own,        \* number of its register write
  snap,       \* eeprom_data, then eeprom_page
  next,       \* registers gathered so far
  writes,     \* register writes so far
  crashes,
  lastOk,     \* the latest copy between registers and EEPROM succeeded
  overlap     \* history: the latest register write fell into another update

memVars == <<page, prog, busy>>
thrVars == <<pc, addr, own, snap, next>>
vars    == <<reg, memVars, up, thrVars, writes, crashes, lastOk, overlap>>

TypeOK ==
  /\ reg \in [Params -> Stored] /\ page \in [Params -> Stored] /\ prog \in [Params -> Stored]
  /\ busy \in BOOLEAN /\ up \in BOOLEAN /\ lastOk \in BOOLEAN /\ overlap \in BOOLEAN
  /\ pc \in [Handlers -> {"idle", "register", "gather", "write", "wait"}]
  /\ addr \in [Handlers -> Params]
  /\ own \in [Handlers -> Values]
  /\ snap \in [Handlers -> [Params -> Stored]]
  /\ next \in [Handlers -> 1 .. NumParams + 1]
  /\ writes \in Values /\ crashes \in 0 .. MaxCrashes

Blank == [p \in Params |-> Junk]

Init ==
  /\ reg = [p \in Params |-> 0] /\ page = reg /\ prog = reg
  /\ busy = FALSE /\ up = FALSE /\ lastOk = TRUE /\ overlap = FALSE
  /\ pc = [h \in Handlers |-> "idle"]
  /\ addr = [h \in Handlers |-> 1]
  /\ own = [h \in Handlers |-> 0]
  /\ snap = [h \in Handlers |-> Blank]
  /\ next = [h \in Handlers |-> 1]
  /\ writes = 0 /\ crashes = 0

-----------------------------------------------------------------------------
(* Boot and power.                                                         *)

\* Mutant: the last register is left out.
Short_EepromDisperseData(data) == reg' = [data EXCEPT ![NumParams] = reg[NumParams]]

\* The page is copied to the registers, field by field.
EepromDisperseData(data) == reg' = data

\* InitSettingsfromEeprom: the status of the read is not looked at, and a
\* buffer that was not filled is copied to the registers like any other.
Boot ==
  /\ ~up
  /\ up' = TRUE
  /\ \/ EepromDisperseData(page) /\ lastOk' = TRUE
     \/ ReadFails /\ EepromDisperseData(Blank) /\ lastOk' = FALSE
  /\ UNCHANGED <<memVars, thrVars, writes, crashes, overlap>>

\* The threads are gone, the registers reset; a page that is being programmed
\* is left with any part of it done.
PowerLoss ==
  /\ up /\ crashes < MaxCrashes
  /\ crashes' = crashes + 1
  /\ up' = FALSE /\ busy' = FALSE
  /\ reg' = [p \in Params |-> 0]
  /\ page' \in IF busy THEN {q \in [Params -> Stored] :
                               \A p \in Params : q[p] \in {page[p], prog[p]}}
                       ELSE {page}
  /\ pc' = [h \in Handlers |-> "idle"]
  /\ UNCHANGED <<prog, addr, own, snap, next, writes, lastOk, overlap>>

\* The EEPROM ends its write cycle.
CycleDone ==
  /\ busy
  /\ busy' = FALSE /\ page' = prog
  /\ UNCHANGED <<reg, prog, up, thrVars, writes, crashes, lastOk, overlap>>

-----------------------------------------------------------------------------
(* eeprom_settings in the thread h.                                        *)

At(h, from, to) == up /\ pc[h] = from /\ pc' = [pc EXCEPT ![h] = to]

\* Mutant: the address is not checked.
Unchecked_Message(h) ==
  /\ writes < MaxWrites
  /\ At(h, "idle", "register")
  /\ \E p \in 1 .. NumParams + 1 : addr' = [addr EXCEPT ![h] = p]
  /\ UNCHANGED <<reg, memVars, up, own, snap, next, writes, crashes, lastOk, overlap>>

\* A message with a valid address; any other is thrown away.
Message(h) ==
  /\ writes < MaxWrites
  /\ At(h, "idle", "register")
  /\ \E p \in Params : addr' = [addr EXCEPT ![h] = p]
  /\ UNCHANGED <<reg, memVars, up, own, snap, next, writes, crashes, lastOk, overlap>>

WriteRegister(h) ==
  /\ At(h, "register", "gather")
  /\ writes < MaxWrites
  /\ writes' = writes + 1
  /\ own' = [own EXCEPT ![h] = writes + 1]
  /\ reg' = [reg EXCEPT ![addr[h]] = writes + 1]
  /\ snap' = [snap EXCEPT ![h] = Blank]
  /\ next' = [next EXCEPT ![h] = 1]
  /\ overlap' = (\E g \in Handlers \ {h} : pc[g] # "idle")
  /\ UNCHANGED <<memVars, up, addr, crashes, lastOk>>

\* Mutant: the last register is left out.
Short_Gather(h) ==
  /\ next[h] <= NumParams
  /\ At(h, "gather", IF next[h] = NumParams THEN "write" ELSE "gather")
  /\ snap' = [snap EXCEPT ![h][next[h]] = IF next[h] < NumParams THEN reg[next[h]] ELSE @]
  /\ next' = [next EXCEPT ![h] = @ + 1]
  /\ UNCHANGED <<reg, memVars, up, addr, own, writes, crashes, lastOk, overlap>>

\* EepromGatherData reads one register after the other.
Gather(h) ==
  /\ next[h] <= NumParams
  /\ At(h, "gather", IF next[h] = NumParams THEN "write" ELSE "gather")
  /\ snap' = [snap EXCEPT ![h][next[h]] = reg[next[h]]]
  /\ next' = [next EXCEPT ![h] = @ + 1]
  /\ UNCHANGED <<reg, memVars, up, addr, own, writes, crashes, lastOk, overlap>>

\* EepromWrite256: the EEPROM does not answer during a write cycle.
EepromWrite(h) ==
  /\ ~busy
  /\ At(h, "write", "wait")
  /\ busy' = TRUE /\ prog' = snap[h]
  /\ UNCHANGED <<reg, page, up, addr, own, snap, next, writes, crashes, lastOk, overlap>>

EepromWriteFails(h) ==
  /\ busy \/ BusFails
  /\ At(h, "write", "idle")
  /\ lastOk' = FALSE
  /\ UNCHANGED <<reg, memVars, up, addr, own, snap, next, writes, crashes, overlap>>

\* Mutant: success is reported without waiting for the write cycle.
NoWait_Reported(h) ==
  /\ At(h, "wait", "idle")
  /\ lastOk' = TRUE
  /\ UNCHANGED <<reg, memVars, up, addr, own, snap, next, writes, crashes, overlap>>

\* The 10 ms after the transfer are longer than the write cycle.
Reported(h) ==
  /\ ~busy
  /\ At(h, "wait", "idle")
  /\ lastOk' = TRUE
  /\ UNCHANGED <<reg, memVars, up, addr, own, snap, next, writes, crashes, overlap>>

Handler(h) ==
  \/ Message(h) \/ WriteRegister(h) \/ Gather(h)
  \/ EepromWrite(h) \/ EepromWriteFails(h) \/ Reported(h)

Next ==
  \/ Boot \/ PowerLoss \/ CycleDone
  \/ \E h \in Handlers : Handler(h)

Spec == Init /\ [][Next]_vars

-----------------------------------------------------------------------------
(* Properties.                                                             *)

Quiet == up /\ \A h \in Handlers : pc[h] = "idle"

\* After a boot that read the EEPROM, or an update that overlapped no other
\* and was reported as successful, the EEPROM holds what the registers hold,
\* whatever went before: failed updates and boots, power losses, updates of
\* two clients that overlapped.  (Updates that overlap do lose one another's
\* parameter: a page gathered before the other's register write is written after
\* the other's page, and both are reported as successful.)
Persisted == Quiet /\ lastOk /\ ~overlap => page = reg

\* Unless updates overlap, no parameter in the EEPROM ever goes back to an
\* older value, not through a torn page, a restart from it, and the page
\* gathered after that.  (A boot whose read fails puts values of no age.)
NoRegress ==
  [][~overlap => \A p \in Params : page[p] = Junk \/ page'[p] >= page[p]]_vars

\* With any number of clients: when a thread gives the EEPROM its page, the page
\* has the value the thread is to store or a later one of that parameter: the
\* gathering never misses the thread's own write, however the others' come in
\* between.
OwnStored ==
  [][\A h \in Handlers :
       ~busy /\ busy' /\ pc[h] = "write" /\ pc'[h] = "wait" => prog'[addr[h]] \in own[h] .. MaxWrites]_vars

=============================================================================
