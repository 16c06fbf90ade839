---------------------------------- MODULE Board ----------------------------------
(***************************************************************************)
(* The board from reset to service: main() sets the clock chip and the     *)
(* registers up, the main thread reads the SD card and starts the network  *)
(* and the PSC server, and then the threads that use the I2C bus run side  *)
(* by side: the board statistics, one thread per connected client, and the *)
(* console, whose priority is lower.  The board is restarted from the      *)
(* console or loses power.                                                 *)
(***************************************************************************)
EXTENDS BusSequences

CONSTANTS
  Handlers,     \* receive threads of the clients
  MaxLines,     \* bound: lines of NET.CNF
  CardFails     \* TRUE: any access to the SD card may fail

ASSUME BoardAssumption ==
  /\ Threads = Handlers \cup {"main", "brdstats", "console"}
  /\ Handlers \cap {"main", "brdstats", "console"} = {}
  /\ MaxLines \in Nat /\ CardFails \in BOOLEAN

Addrs == {"unset", "A", "B"}
Phases == {"reset", "sdcard", "config", "mac", "new", "dat", "net", "psc", "serving", "failed"}

\* The kinds of lines sdcard_netconf tells apart: a comment or unknown word is
\* one kind, an address or a hardware address is well-formed or not.
Lines ==
  [cmd : {"dhcp"}, arg : {"none", "yes", "no", "odd"}]
    \cup [cmd : {"addr", "mask", "gw"}, arg : {"none", "bad", "A", "B"}]
    \cup [cmd : {"hwaddr"}, arg : {"none", "eeprom", "bad", "given"}]
    \cup [cmd : {"unknown"}, arg : {"none"}]

\* The files that matter: how they are, or that they are not there.
NewFile == {"absent", "short", "full"}
DatFile == {"absent", "short", "full", "dumped"}

VARIABLES
  phase,      \* how far the main thread is
  part,       \* the partition it tries, 0 or 1
  conf,       \* net_config
  lines,      \* history: the lines of NET.CNF it read
  new, dat,   \* EEPROM.NEW and EEPROM.DAT on the card
  failed      \* history: an access to the card failed, or no partition was mounted

cardVars == <<part, conf, lines, new, dat, failed>>
vars == <<busVars, phase, cardVars>>

NoConf == [addr |-> "unset", mask |-> "unset", gw |-> "unset", use_static |-> FALSE, hwaddr |-> "zero"]

TypeOK ==
  /\ BusTypeOK
  /\ phase \in Phases /\ part \in {0, 1} /\ failed \in BOOLEAN
  /\ conf \in [addr : Addrs, mask : Addrs, gw : Addrs, use_static : BOOLEAN,
               hwaddr : {"zero", "eeprom", "given"}]
  /\ lines \in Seq(Lines) /\ Len(lines) <= MaxLines
  /\ new \in NewFile /\ dat \in DatFile

\* What main() and the main thread start from; the card may be any.
CardInit ==
  /\ part = 0 /\ conf = NoConf /\ lines = <<>> /\ failed = FALSE
  /\ new = "absent" /\ dat = "absent"

Init == BusInit /\ phase = "reset" /\ CardInit

-----------------------------------------------------------------------------
(* Restart.                                                                *)

\* The threads are gone and main() runs again.
Restart ==
  /\ phase' = "reset"
  /\ part' = 0 /\ conf' = NoConf /\ lines' = <<>> /\ failed' = FALSE
  /\ new' = "absent" /\ dat' = "absent"
  /\ op' = [t \in Threads |-> "none"]
  /\ step' = [t \in Threads |-> 1]
  /\ pointed' = [t \in Threads |-> {}]

PowerLoss ==
  /\ phase \in {"serving", "failed"}
  /\ Restart
  /\ sel' = [pe \in Expanders |-> {}]
  /\ owner' = [pe \in Expanders |-> "none"]

-----------------------------------------------------------------------------
(* main() and the main thread.                                             *)

Phase(from, to) == phase = from /\ Idle("main") /\ phase' = to

Main ==
  /\ phase = "reset" /\ Begin("main", "main")
  /\ phase' = "sdcard"
  /\ UNCHANGED cardVars

\* sdcard_trypart: mount and change directory, or try the other partition.
TryPart ==
  \/ /\ Phase("sdcard", "config")
     /\ new' \in NewFile /\ dat' \in DatFile \ {"dumped"}
     /\ UNCHANGED <<busVars, part, conf, lines, failed>>
  \/ /\ Phase("sdcard", IF part = 0 THEN "sdcard" ELSE "net")
     /\ part' = 1 /\ failed' = (part = 1)
     /\ UNCHANGED <<busVars, conf, lines, new, dat>>

\* The file ends, cannot be opened or cannot be read.
ConfigDone ==
  /\ Phase("config", "new")
  /\ UNCHANGED <<busVars, cardVars>>

\* sdcard_parse_inet
ParseInet(field, arg) == IF arg \in Addrs THEN [conf EXCEPT ![field] = arg] ELSE conf

\* Mutant: an address does not imply that DHCP is off.
NotImplied_Parsed(l) ==
  CASE l.cmd = "dhcp" ->
         IF l.arg = "odd" THEN conf ELSE [conf EXCEPT !.use_static = (l.arg = "no")]
    [] l.cmd \in {"addr", "mask", "gw"} -> ParseInet(l.cmd, l.arg)
    [] OTHER -> conf

\* What a line sets, but for the hardware address.
Parsed(l) ==
  CASE l.cmd = "dhcp" ->
         IF l.arg = "odd" THEN conf ELSE [conf EXCEPT !.use_static = (l.arg = "no")]
    [] l.cmd = "addr" -> [ParseInet("addr", l.arg) EXCEPT !.use_static = TRUE]
    [] l.cmd \in {"mask", "gw"} -> ParseInet(l.cmd, l.arg)
    [] OTHER -> conf

ReadLine ==
  /\ Len(lines) < MaxLines
  /\ \E l \in Lines :
       /\ lines' = Append(lines, l)
       /\ conf' = Parsed(l)
       /\ IF l.cmd = "hwaddr"
          THEN /\ phase = "config"
               /\ Begin("main", IF l.arg \in {"none", "eeprom"} THEN "get_mac_twice" ELSE "get_mac")
               /\ phase' = "mac"
          ELSE /\ Phase("config", "config")
               /\ UNCHANGED busVars
  /\ UNCHANGED <<part, new, dat, failed>>

\* Mutant: the bytes are put in place as they are parsed.
InPlace_HwAddr ==
  /\ Phase("mac", "config")
  /\ conf' = CASE Last(lines).arg = "given" -> [conf EXCEPT !.hwaddr = "given"]
             [] Last(lines).arg = "bad"   -> [conf EXCEPT !.hwaddr = "mixed"]
             [] OTHER                     -> conf
  /\ UNCHANGED <<busVars, part, lines, new, dat, failed>>

\* Only a well-formed argument replaces what the EEPROM gave, as a whole.
HwAddr ==
  /\ Phase("mac", "config")
  /\ conf' = IF Last(lines).arg = "given" THEN [conf EXCEPT !.hwaddr = "given"] ELSE conf
  /\ UNCHANGED <<busVars, part, lines, new, dat, failed>>

\* sdcard_sync_eeprom(&fd, 1): whatever the file holds nothing is written, and
\* the file is deleted.
SyncNew ==
  /\ Phase("new", "dat")
  /\ \/ new' = "absent" /\ UNCHANGED failed
     \/ CardFails /\ failed' = TRUE /\ new' \in {new, "absent"}
  /\ UNCHANGED <<busVars, part, conf, lines, dat>>

\* The file is created if it is not there.  sdcard_sync_eeprom(&fd, 0): unless it
\* equals the buffer, which nothing filled, it is truncated and the buffer
\* written to it.
SyncDat ==
  /\ Phase("dat", "net")
  /\ \/ dat = "full" /\ UNCHANGED <<dat, failed>>
     \/ dat' = "dumped" /\ UNCHANGED failed
     \/ CardFails /\ failed' = TRUE /\ dat' \in {dat, "short", "dumped"}
  /\ UNCHANGED <<busVars, part, conf, lines, new>>

\* net_setup, which returns whether there is an interface or not and DHCP starts
\* or not; conf and the card are not looked at again.
NetSetup ==
  /\ Phase("net", "psc")
  /\ part' = 0 /\ conf' = NoConf /\ lines' = <<>> /\ failed' = FALSE
  /\ new' = "absent" /\ dat' = "absent"
  /\ UNCHANGED busVars

\* psc_run up to its loop, with on_startup, which starts the other threads ...
PscRun ==
  /\ Phase("psc", "serving")
  /\ UNCHANGED <<busVars, cardVars>>

\* ... or one of calloc, sys_mutex_new, socket, bind and listen fails and it
\* returns before: no thread is started, and the main thread says so for ever.
PscRunReturns ==
  /\ Phase("psc", "failed")
  /\ UNCHANGED <<busVars, cardVars>>

-----------------------------------------------------------------------------
(* The bus steps of all threads, and what starts them.                     *)

\* Mutant: the console has the priority of the others.
Equal_Runs(t) == TRUE

\* The console's thread runs when all others wait: the clients' for a message,
\* brdstats in its delay or for psc_send.
Runs(t) ==
  t = "console" => Doing("brdstats", "pause") /\ \A h \in Handlers : Idle(h)

BusStep(t) ==
  /\ Runs(t)
  /\ \/ (i2c_set_port_expander(t) \/ i2c_write(t) \/ Resume(t)) /\ UNCHANGED conf
     \/ /\ Doing(t, "read")
        /\ \E got \in Answers(Current(t).addr) :
             /\ i2c_read(t, got)
             /\ conf' = IF phase = "mac" /\ got # {} THEN [conf EXCEPT !.hwaddr = "eeprom"] ELSE conf
  /\ UNCHANGED <<phase, part, lines, new, dat, failed>>

Serve(t, name) ==
  /\ phase = "serving" /\ Runs(t)
  /\ Begin(t, name)
  /\ UNCHANGED <<phase, cardVars>>

\* A client changed a parameter, and eeprom_settings stores them.
Update(h) == Serve(h, "update")

BrdStats == Serve("brdstats", "brdstats")

\* The entries of the menu that use the bus; the task statistics do not.
MenuEntries == {"dump_eeprom", "program_ip", "set_resolution"}

Menu == \E choice \in MenuEntries : Serve("console", choice)

\* reboot: the expanders are not part of what is reset.
Reboot ==
  /\ phase = "serving" /\ Runs("console") /\ Idle("console")
  /\ Restart
  /\ UNCHANGED <<sel, owner>>

MainThread ==
  \/ Main \/ TryPart \/ ConfigDone \/ ReadLine \/ HwAddr \/ SyncNew \/ SyncDat
  \/ NetSetup \/ PscRun \/ PscRunReturns
  \/ BusStep("main")

Next ==
  \/ MainThread
  \/ \E t \in Threads \ {"main"} : BusStep(t)
  \/ \E h \in Handlers : Update(h)
  \/ BrdStats \/ Menu \/ Reboot \/ PowerLoss

Spec == Init /\ [][Next]_vars

-----------------------------------------------------------------------------
(* Properties.                                                             *)

Transferring(t) == ~Idle(t) /\ Transfer(Current(t))

\* Whatever the other threads do to the expanders between two of its transfers,
\* a thread other than the console reaches the device it means behind PORTEXP1,
\* or none: a temperature, a voltage or a current that brdstats publishes, if it
\* was read at all, is of the device its name says and, unless that device may
\* leave a write unanswered and its driver does not look, of the register.  So do
\* the transfers of the boot, behind either expander.  (The current of the 0.85 V
\* supply is not: i2c_devices.c:532 reads the register of the voltage.)
\* Behind PORTEXP0 this does not hold once the service has started: between the
\* two calls of an update brdstats may connect the SFP module of a slot, whose
\* A0h space acknowledges the page, and control.c:134 reports success for it;
\* and what brdstats takes for the A2h space of a module may be the second
\* quarter of the AT24CM02 that an update connected.
NeverAnothers ==
  \A t \in Threads \ {"console"} : Transferring(t) =>
    LET i == Current(t)
        reached == Answering(i.addr)
    IN i.dev[1] = 1 \/ t = "main" =>
         /\ reached \subseteq {i.dev}
         /\ i.op = "read" /\ i.reg # NoReg /\ reached # {} /\ i # Mislabelled
              /\ (i.dev \in Flaky => i.dev \in StatusChecked)
              => <<i.dev, i.reg>> \in pointed[t]

\* The other half, for both expanders: a thread that was the last to set the
\* expander before its device reaches it and it alone, whatever channels were
\* left connected by whoever ran before, in this life of the board or in an
\* earlier one; so a page of parameters goes astray, or a reading of an SFP
\* module comes from elsewhere, only when another thread set PORTEXP0 in
\* between.  The console, which sets PORTEXP1 only, reaches the carrier's EEPROM
\* and nothing else when it runs, if brdstats was the last to set PORTEXP0 (after
\* an update, a write of the console reaches the parameter EEPROM too).
RightDevice ==
  \A t \in Threads : Transferring(t) /\ Runs(t) =>
    LET i == Current(t) IN
    owner[i.dev[1]] = t /\ (t = "console" => owner[0] = "brdstats")
      => Answering(i.addr) = {i.dev} \cap Fitted

LastIs(P(_), Q(_)) ==
  \E i \in DOMAIN lines : P(lines[i]) /\ \A j \in i + 1 .. Len(lines) : ~Q(lines[j])

Given(field, a) == LastIs(LAMBDA l : l.cmd = field /\ l.arg = a,
                          LAMBDA l : l.cmd = field /\ l.arg \in Addrs)

\* When the network is set up, each address is that of the last line that gave a
\* valid one, the address is static if the last word on it was an "addr" or a
\* "dhcp no", and the hardware address is one as a whole, never parts of two.
\* If a partition was mounted and no access to it failed, EEPROM.NEW is gone and
\* EEPROM.DAT is there and has its full size, whether it was missing, empty, too
\* short or already full: the code creates it and, where it differs, overwrites it
\* with a buffer nothing filled, while sdcard.c:6 promises to write it only if it
\* is present with zero size, and sdcard.c:162 to copy the EEPROM to it.
CardHandled ==
  phase = "net" =>
    /\ \A field \in {"addr", "mask", "gw"}, a \in Addrs \ {"unset"} :
         conf[field] = a <=> Given(field, a)
    /\ conf.use_static <=>
         LastIs(LAMBDA l : l.cmd = "addr" \/ (l.cmd = "dhcp" /\ l.arg = "no"),
                LAMBDA l : l.cmd = "dhcp" /\ l.arg \in {"none", "yes"})
    /\ conf.hwaddr = "zero" <=> \A i \in DOMAIN lines : lines[i].cmd # "hwaddr"
    /\ conf.hwaddr = "given" <=> LastIs(LAMBDA l : l.cmd = "hwaddr" /\ l.arg = "given",
                                        LAMBDA l : l.cmd = "hwaddr")
    /\ ~failed => new = "absent" /\ dat \in {"full", "dumped"}

=============================================================================
