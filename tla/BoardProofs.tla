------------------------------ MODULE BoardProofs ------------------------------
(***************************************************************************)
(* Proofs about Board, for any number of clients, devices that are fitted  *)
(* or do not answer, and lines of NET.CNF: behind PORTEXP1 and during the  *)
(* boot no thread but the console reaches a device it does not mean, a     *)
(* thread that set the expander last reaches its device, and the lines of  *)
(* NET.CNF are taken as they are.  What the proofs need to know of the     *)
(* sequences of transfers is SequencesRight.                               *)
(***************************************************************************)
EXTENDS Board, TLAPS

-----------------------------------------------------------------------------
(* Who executes what, and what the expanders connect meanwhile.            *)

Boot == {"main", "get_mac", "get_mac_twice"}

\* Only the main thread works before the service starts, and not afterwards.
RoleInv ==
  /\ op["main"] \in Boot \cup {"none"}
  /\ op["brdstats"] \in {"brdstats", "none"}
  /\ op["console"] \in MenuEntries \cup {"none"}
  /\ \A h \in Handlers : op[h] \in {"update", "none"}
  /\ phase = "serving" => Idle("main")
  /\ phase # "serving" => \A t \in Threads \ {"main"} : Idle(t)

\* Before the k-th transfer of o, unless that is a pause, an expander that o set
\* connects what o chose, and besides at most what those beside o select.
Fits(o, k, pe, s) ==
  o # "none" /\ Program[o][k].op # "pause" /\ Before(o, k, pe) # {}
    => s \subseteq Chosen(o, k, pe) \cup Others(o, pe)

SelInv ==
  \A t \in Threads \ {"console"}, pe \in Expanders : Fits(op[t], step[t], pe, sel[pe])

\* An expander connects what the thread chose that was the last to set it.
Own(o, k, pe, s) == o # "none" /\ Before(o, k, pe) # {} => s = Chosen(o, k, pe)

OwnerInv ==
  \A t \in Threads, pe \in Expanders : owner[pe] = t => Own(op[t], step[t], pe, sel[pe])

\* Where brdstats is when it gives the processor away, or has not come to PORTEXP0
\* yet.  Nothing is connected to PORTEXP0 then, if brdstats was the last to set it:
\* the console runs at no other time.
AtRest(o, k) == o = "none" \/ Program[o][k].op = "pause" \/ Before(o, k, 0) = {}

Rests(o, k, s) == AtRest(o, k) => s = {}

RestInv == owner[0] = "brdstats" => Rests(op["brdstats"], step["brdstats"], sel[0])

\* When a thread is about to read a device that is connected, its write has set
\* the register, if nothing disturbs it in between; and if the device may ignore a
\* write, its driver has to look.
Sure(o, i) == Undisturbed(o, i) /\ (i.dev \in Flaky => i.dev \in StatusChecked)

Ready(o, k, s, p) ==
  LET i == Program[o][k] IN
  o # "none" /\ Named(i) /\ Sure(o, i) /\ i.dev \in Fitted /\ i.dev[2] \in s[i.dev[1]]
    => <<i.dev, i.reg>> \in p

PointInv == \A t \in Threads \ {"console"} : Ready(op[t], step[t], sel, pointed[t])

BusType ==
  /\ sel \in [Expanders -> SUBSET (0 .. 7)]
  /\ pointed \in [Threads -> SUBSET (Devices \X (0 .. 255))]
  /\ op \in [Threads -> DOMAIN Program \cup {"none"}]
  /\ step \in [Threads -> Nat]
  /\ \A t \in Threads : IF op[t] = "none" THEN step[t] = 1 ELSE step[t] \in DOMAIN Program[op[t]]
  /\ owner \in [Expanders -> Threads \cup {"none"}]

BusInv == BusType /\ RoleInv /\ SelInv /\ OwnerInv /\ RestInv /\ PointInv

-----------------------------------------------------------------------------
(* The settings on the card.                                               *)

CardType ==
  /\ phase \in Phases /\ part \in {0, 1} /\ failed \in BOOLEAN
  /\ conf \in [addr : Addrs, mask : Addrs, gw : Addrs, use_static : BOOLEAN,
               hwaddr : {"zero", "eeprom", "given"}]
  /\ lines \in Seq(Lines) /\ Len(lines) <= MaxLines
  /\ new \in NewFile /\ dat \in DatFile

\* There is a line of P after which none of Q follows.
LastOf(s, P, Q) == \E i \in DOMAIN s : s[i] \in P /\ \A j \in i + 1 .. Len(s) : s[j] \notin Q

Addressing(field, A) == {l \in Lines : l.cmd = field /\ l.arg \in A}
Static  == {l \in Lines : l.cmd = "addr" \/ (l.cmd = "dhcp" /\ l.arg = "no")}
Dynamic == {l \in Lines : l.cmd = "dhcp" /\ l.arg \in {"none", "yes"}}
Hardware      == {l \in Lines : l.cmd = "hwaddr"}
HardwareGiven == {l \in Lines : l.cmd = "hwaddr" /\ l.arg = "given"}

\* Each address, and whether it is static, follows the lines read so far at any time,
AddrInv ==
  \A field \in {"addr", "mask", "gw"}, a \in {"A", "B"} :
    conf[field] = a <=> LastOf(lines, Addressing(field, {a}), Addressing(field, {"A", "B"}))

StaticInv == conf.use_static <=> LastOf(lines, Static, Dynamic)

\* and the hardware address when no line is being executed.
HwInv ==
  phase # "mac" =>
    /\ conf.hwaddr = "zero" <=> \A i \in DOMAIN lines : lines[i] \notin Hardware
    /\ conf.hwaddr = "given" <=> LastOf(lines, HardwareGiven, Hardware)

\* The main thread has the bus to itself, so that the expanders connect what it
\* chose, and it does not go on before the EEPROM gave an address.
ExactInv == \A pe \in Expanders : Own(op["main"], step["main"], pe, sel[pe])

MacInv ==
  phase = "mac" =>
    /\ lines # <<>> /\ lines[Len(lines)] \in Hardware
    /\ op["main"] \in {"get_mac", "get_mac_twice"} \/ (Idle("main") /\ conf.hwaddr = "eeprom")

\* What the files are like as the phases go by.
FileInv ==
  /\ phase \in {"reset", "sdcard"} => new = "absent" /\ dat = "absent"
  /\ phase = "dat" /\ ~failed => new = "absent"
  /\ phase = "net" /\ ~failed => new = "absent" /\ dat \in {"full", "dumped"}

CardInv == AddrInv /\ StaticInv /\ HwInv /\ ExactInv /\ MacInv /\ FileInv

-----------------------------------------------------------------------------
(* The sequences.                                                          *)

LEMMA Names ==
  /\ DOMAIN Program = {"main", "get_mac", "get_mac_twice", "brdstats", "update",
                       "dump_eeprom", "program_ip", "set_resolution"}
  /\ DOMAIN Beside = {"main", "get_mac", "get_mac_twice", "brdstats", "update"}
  /\ "none" \notin DOMAIN Program
  /\ Beside["main"] = {} /\ Beside["get_mac"] = {} /\ Beside["get_mac_twice"] = {}
  /\ Beside["brdstats"] = {"update"} /\ Beside["update"] = {"brdstats", "update"}
<1>1. DOMAIN Program = {"main", "get_mac", "get_mac_twice", "brdstats", "update",
                        "dump_eeprom", "program_ip", "set_resolution"}
  BY DEF Program
<1> QED BY <1>1 DEF Beside

LEMMA Steps ==
  ASSUME NEW n \in DOMAIN Program
  PROVE  /\ Len(Program[n]) \in Nat /\ Len(Program[n]) >= 1
         /\ DOMAIN Program[n] = 1 .. Len(Program[n])
         /\ 1 \in DOMAIN Program[n]
         /\ \A k \in DOMAIN Program[n] : k \in Nat /\ k >= 1 /\ WellFormed(n, k) /\ Selected(n, k)
<1>1. /\ Len(Program[n]) \in Nat \ {0} /\ DOMAIN Program[n] = 1 .. Len(Program[n])
      /\ \A k \in DOMAIN Program[n] : WellFormed(n, k) /\ Selected(n, k)
  BY SequencesRight
<1> QED BY <1>1

LEMMA MaxIs ==
  ASSUME NEW S, NEW m \in S, m \in Nat, \A j \in S : j \in Nat /\ j <= m
  PROVE  Max(S) = m
<1>1. \E x \in S : \A y \in S : x >= y
  <2>1. \A y \in S : m >= y  OBVIOUS
  <2> QED BY <2>1
<1>2. PICK x : x = Max(S)  OBVIOUS
<1>3. x \in S /\ \A y \in S : x >= y  BY <1>1, <1>2 DEF Max
<1>4. x >= m /\ x \in Nat /\ x <= m  BY <1>3
<1> QED BY <1>2, <1>4

LEMMA BeforeFirst == ASSUME NEW n, NEW pe PROVE Before(n, 1, pe) = {}
BY DEF Before

\* What a transfer does to what was chosen.
LEMMA ChosenNext ==
  ASSUME NEW n, NEW k \in Nat, k >= 1, NEW pe
  PROVE  /\ Program[n][k].op = "expand" /\ Program[n][k].pe = pe
              => Before(n, k + 1, pe) # {} /\ Chosen(n, k + 1, pe) = Program[n][k].channels
         /\ ~(Program[n][k].op = "expand" /\ Program[n][k].pe = pe)
              => Before(n, k + 1, pe) = Before(n, k, pe) /\ Chosen(n, k + 1, pe) = Chosen(n, k, pe)
<1>1. CASE Program[n][k].op = "expand" /\ Program[n][k].pe = pe
  <2>1. k \in Before(n, k + 1, pe)  BY <1>1 DEF Before
  <2>2. \A j \in Before(n, k + 1, pe) : j \in Nat /\ j <= k  BY DEF Before
  <2>3. Max(Before(n, k + 1, pe)) = k  BY <2>1, <2>2, MaxIs
  <2> QED BY <1>1, <2>1, <2>3 DEF Chosen
<1>2. CASE ~(Program[n][k].op = "expand" /\ Program[n][k].pe = pe)
  <2>1. Before(n, k + 1, pe) = Before(n, k, pe)
    <3>1. \A j \in 1 .. (k + 1) - 1 : j = k \/ j \in 1 .. k - 1  OBVIOUS
    <3>2. \A j \in 1 .. k - 1 : j \in 1 .. (k + 1) - 1  OBVIOUS
    <3> QED BY <1>2, <3>1, <3>2 DEF Before
  <2> QED BY <1>2, <2>1 DEF Chosen
<1> QED BY <1>1, <1>2

LEMMA SelectsIn ==
  ASSUME NEW n \in DOMAIN Program, NEW k \in DOMAIN Program[n], Program[n][k].op = "expand"
  PROVE  Program[n][k].channels \subseteq Selections(n, Program[n][k].pe)
<1>1. k \in 1 .. (Len(Program[n]) + 1) - 1  BY Steps
<1>2. k \in Before(n, Len(Program[n]) + 1, Program[n][k].pe)  BY <1>1 DEF Before
<1> QED BY <1>2 DEF Selections

LEMMA OthersIn ==
  ASSUME NEW n, NEW m \in Beside[n], NEW pe
  PROVE  Selections(m, pe) \subseteq Others(n, pe)
BY DEF Others

\* The relation of a sequence to an expander goes on from its k-th transfer to
\* the next one executed, the (k + d)-th.
LEMMA FitsExpand ==
  ASSUME NEW n \in DOMAIN Program, NEW k \in DOMAIN Program[n], Program[n][k].op = "expand",
         NEW pe, NEW s, NEW r, Fits(n, k, pe, s),
         r = IF pe = Program[n][k].pe THEN Program[n][k].channels ELSE s
  PROVE  Fits(n, k + 1, pe, r)
<1>1. k \in Nat /\ k >= 1  BY Steps
<1>2. CASE pe = Program[n][k].pe
  <2>1. Chosen(n, k + 1, pe) = Program[n][k].channels  BY <1>1, <1>2, ChosenNext
  <2> QED BY <1>2, <2>1 DEF Fits
<1>3. CASE pe # Program[n][k].pe
  <2>1. Before(n, k + 1, pe) = Before(n, k, pe) /\ Chosen(n, k + 1, pe) = Chosen(n, k, pe)
    BY <1>1, <1>3, ChosenNext
  <2> QED BY <1>3, <2>1 DEF Fits
<1> QED BY <1>2, <1>3

LEMMA FitsOn ==
  ASSUME NEW n \in DOMAIN Program, NEW k \in DOMAIN Program[n], k + 1 \in DOMAIN Program[n],
         Program[n][k].op # "expand", NEW pe, NEW s, Fits(n, k, pe, s)
  PROVE  Fits(n, k + 1, pe, s)
<1>1. k \in Nat /\ k >= 1 /\ WellFormed(n, k)  BY Steps
<1>2. Before(n, k + 1, pe) = Before(n, k, pe) /\ Chosen(n, k + 1, pe) = Chosen(n, k, pe)
  BY <1>1, ChosenNext
<1>3. CASE Program[n][k].op = "pause"
  <2>1. k # Len(Program[n])
    <3>1. k + 1 \in 1 .. Len(Program[n]) /\ Len(Program[n]) \in Nat  BY Steps
    <3> QED BY <1>1, <3>1
  <2>2. k = 1  BY <1>1, <1>3, <2>1 DEF WellFormed
  <2>3. Before(n, k + 1, pe) = {}  BY <1>2, <2>2, BeforeFirst
  <2> QED BY <2>3 DEF Fits
<1>4. CASE Program[n][k].op # "pause"
  BY <1>2, <1>4 DEF Fits
<1> QED BY <1>3, <1>4

LEMMA OwnExpand ==
  ASSUME NEW n \in DOMAIN Program, NEW k \in DOMAIN Program[n], Program[n][k].op = "expand",
         NEW pe, NEW s, NEW r, pe # Program[n][k].pe => Own(n, k, pe, s),
         r = IF pe = Program[n][k].pe THEN Program[n][k].channels ELSE s
  PROVE  Own(n, k + 1, pe, r)
<1>1. k \in Nat /\ k >= 1  BY Steps
<1>2. CASE pe = Program[n][k].pe
  <2>1. Chosen(n, k + 1, pe) = Program[n][k].channels  BY <1>1, <1>2, ChosenNext
  <2> QED BY <1>2, <2>1 DEF Own
<1>3. CASE pe # Program[n][k].pe
  <2>1. Before(n, k + 1, pe) = Before(n, k, pe) /\ Chosen(n, k + 1, pe) = Chosen(n, k, pe)
    BY <1>1, <1>3, ChosenNext
  <2> QED BY <1>3, <2>1 DEF Own
<1> QED BY <1>2, <1>3

LEMMA OwnOn ==
  ASSUME NEW n \in DOMAIN Program, NEW k \in DOMAIN Program[n], Program[n][k].op # "expand",
         NEW pe, NEW s, Own(n, k, pe, s)
  PROVE  Own(n, k + 1, pe, s)
<1>1. k \in Nat /\ k >= 1  BY Steps
<1>2. Before(n, k + 1, pe) = Before(n, k, pe) /\ Chosen(n, k + 1, pe) = Chosen(n, k, pe)
  BY <1>1, ChosenNext
<1> QED BY <1>2 DEF Own

\* A round of brdstats comes to rest with nothing connected to PORTEXP0.
LEMMA RestsOwn ==
  ASSUME NEW k \in DOMAIN Program["brdstats"], NEW s, Own("brdstats", k, 0, s),
         Program["brdstats"][k].op = "pause", Before("brdstats", k, 0) # {}
  PROVE  s = {}
<1>1. "brdstats" # "none" /\ Chosen("brdstats", k, 0) = {}  BY SequencesRight DEF RoundEnds
<1> QED BY <1>1 DEF Own

LEMMA RestsAt ==
  ASSUME NEW k \in DOMAIN Program["brdstats"], NEW s, Own("brdstats", k, 0, s),
         Before("brdstats", k, 0) = {} => s = {}
  PROVE  Rests("brdstats", k, s)
<1>1. CASE Before("brdstats", k, 0) = {}
  BY <1>1 DEF Rests
<1>2. CASE Before("brdstats", k, 0) # {} /\ Program["brdstats"][k].op = "pause"
  <2>1. s = {}  BY <1>2, RestsOwn
  <2> QED BY <2>1 DEF Rests
<1>3. CASE Before("brdstats", k, 0) # {} /\ Program["brdstats"][k].op # "pause"
  BY <1>3, Names DEF Rests, AtRest
<1> QED BY <1>1, <1>2, <1>3

\* Nothing is to be read right after a step that is not the write of its register.
LEMMA ReadyFree ==
  ASSUME NEW n \in DOMAIN Beside, NEW k \in DOMAIN Program[n], NEW s, NEW p,
         k - 1 \in DOMAIN Program[n] => Program[n][k - 1].op # "write"
  PROVE  Ready(n, k, s, p)
<1>1. n \in DOMAIN Program  BY Names
<1>2. Pointed(n, k)  BY SequencesRight
<1>3. ~Named(Program[n][k])  BY <1>2 DEF Pointed
<1> QED BY <1>3 DEF Ready

-----------------------------------------------------------------------------
(* One transfer of one thread.                                             *)

\* The thread goes on by d transfers, or its sequence ends.
Moves(o, k, d, o2, k2) ==
  IF k + d > Len(Program[o]) THEN o2 = "none" /\ k2 = 1 ELSE o2 = o /\ k2 = k + d

\* How far: a write that fails passes over the read that would follow.
Far(n, k, d) == d = 1 \/ (d = 2 /\ Program[n][k].op = "write" /\ Program[n][k].skip = 1)

LEMMA Lands ==
  ASSUME NEW n \in DOMAIN Program, NEW k \in DOMAIN Program[n], NEW d, Far(n, k, d), NEW o2, NEW k2,
         Moves(n, k, d, o2, k2)
  PROVE  \/ o2 = "none" /\ k2 = 1
         \/ o2 = n /\ k2 = k + 1 /\ d = 1 /\ k + 1 \in DOMAIN Program[n]
         \/ /\ o2 = n /\ k2 = k + 2 /\ d = 2 /\ (k + 1) + 1 = k + 2
            /\ k + 1 \in DOMAIN Program[n] /\ k + 2 \in DOMAIN Program[n]
            /\ Program[n][k].op = "write" /\ Program[n][k + 1].op = "read"
<1>1. /\ k \in Nat /\ k >= 1 /\ WellFormed(n, k)
      /\ DOMAIN Program[n] = 1 .. Len(Program[n]) /\ Len(Program[n]) \in Nat
  BY Steps
<1>2. CASE k + d > Len(Program[n])
  BY <1>2 DEF Moves
<1>3. CASE ~(k + d > Len(Program[n])) /\ d = 1
  BY <1>1, <1>3 DEF Moves
<1>4. CASE ~(k + d > Len(Program[n])) /\ d = 2 /\ Program[n][k].op = "write" /\ Program[n][k].skip = 1
  <2>1. k + 1 \in DOMAIN Program[n] /\ Program[n][k + 1].op = "read"
    BY <1>1, <1>4 DEF WellFormed
  <2>2. k + 2 \in DOMAIN Program[n] /\ (k + 1) + 1 = k + 2  BY <1>1, <1>4
  <2>3. o2 = n /\ k2 = k + 2  BY <1>4 DEF Moves
  <2> QED BY <1>4, <2>1, <2>2, <2>3
<1> QED BY <1>2, <1>3, <1>4 DEF Far

LEMMA FitsMoves ==
  ASSUME NEW n \in DOMAIN Program, NEW k \in DOMAIN Program[n], NEW d, Far(n, k, d), NEW o2, NEW k2,
         Moves(n, k, d, o2, k2), Program[n][k].op # "expand", NEW pe, NEW s, Fits(n, k, pe, s)
  PROVE  Fits(o2, k2, pe, s)
<1>1. CASE o2 = "none"
  BY <1>1 DEF Fits
<1>2. CASE o2 = n /\ k2 = k + 1 /\ k + 1 \in DOMAIN Program[n]
  BY <1>2, FitsOn
<1>3. CASE /\ o2 = n /\ k2 = k + 2 /\ (k + 1) + 1 = k + 2
           /\ k + 1 \in DOMAIN Program[n] /\ k + 2 \in DOMAIN Program[n]
           /\ Program[n][k + 1].op = "read"
  <2>1. Fits(n, k + 1, pe, s)  BY <1>3, FitsOn
  <2>2. PICK m : m = k + 1  OBVIOUS
  <2>3. Fits(n, m + 1, pe, s)
    <3>1. m \in DOMAIN Program[n] /\ m + 1 \in DOMAIN Program[n] /\ Program[n][m].op # "expand"
      BY <1>3, <2>2
    <3>2. Fits(n, m, pe, s)  BY <2>1, <2>2
    <3> QED BY <3>1, <3>2, FitsOn
  <2> QED BY <1>3, <2>2, <2>3
<1> QED BY <1>1, <1>2, <1>3, Lands

LEMMA OwnMoves ==
  ASSUME NEW n \in DOMAIN Program, NEW k \in DOMAIN Program[n], NEW d, Far(n, k, d), NEW o2, NEW k2,
         Moves(n, k, d, o2, k2), Program[n][k].op # "expand", NEW pe, NEW s, Own(n, k, pe, s)
  PROVE  Own(o2, k2, pe, s)
<1>1. CASE o2 = "none"
  BY <1>1 DEF Own
<1>2. CASE o2 = n /\ k2 = k + 1 /\ k + 1 \in DOMAIN Program[n]
  BY <1>2, OwnOn
<1>3. CASE /\ o2 = n /\ k2 = k + 2 /\ (k + 1) + 1 = k + 2
           /\ k + 1 \in DOMAIN Program[n] /\ k + 2 \in DOMAIN Program[n]
           /\ Program[n][k + 1].op = "read"
  <2>1. Own(n, k + 1, pe, s)  BY OwnOn
  <2>2. PICK m : m = k + 1  OBVIOUS
  <2>3. Own(n, m + 1, pe, s)
    <3>1. m \in DOMAIN Program[n] /\ Program[n][m].op # "expand"
      BY <1>3, <2>2
    <3>2. Own(n, m, pe, s)  BY <2>1, <2>2
    <3> QED BY <3>1, <3>2, OwnOn
  <2> QED BY <1>3, <2>2, <2>3
<1> QED BY <1>1, <1>2, <1>3, Lands

LEMMA ExpandMoves ==
  ASSUME NEW n \in DOMAIN Program, NEW k \in DOMAIN Program[n], NEW o2, NEW k2,
         Moves(n, k, 1, o2, k2), Program[n][k].op = "expand", NEW pe, NEW s, NEW r,
         r = IF pe = Program[n][k].pe THEN Program[n][k].channels ELSE s
  PROVE  /\ Fits(n, k, pe, s) => Fits(o2, k2, pe, r)
         /\ (pe # Program[n][k].pe => Own(n, k, pe, s)) => Own(o2, k2, pe, r)
<1>1. CASE o2 = "none"
  BY <1>1 DEF Fits, Own
<1>2. CASE o2 = n /\ k2 = k + 1
  BY <1>2, FitsExpand, OwnExpand
<1>3. Far(n, k, 1)  BY DEF Far
<1>4. o2 = "none" \/ (o2 = n /\ k2 = k + 1)  BY DEF Moves
<1> QED BY <1>1, <1>2, <1>4

LEMMA RestsExpand ==
  ASSUME NEW k \in DOMAIN Program["brdstats"], NEW o2, NEW k2, Moves("brdstats", k, 1, o2, k2),
         Program["brdstats"][k].op = "expand", NEW s, NEW r, Own(o2, k2, 0, r),
         Program["brdstats"][k].pe # 0 => Rests("brdstats", k, s),
         r = IF Program["brdstats"][k].pe = 0 THEN Program["brdstats"][k].channels ELSE s
  PROVE  Rests(o2, k2, r)
<1>1. /\ "brdstats" \in DOMAIN Program /\ k \in Nat /\ k >= 1
      /\ DOMAIN Program["brdstats"] = 1 .. Len(Program["brdstats"])
      /\ Len(Program["brdstats"]) \in Nat
  <2>1. "brdstats" \in DOMAIN Program  BY Names
  <2> QED BY <2>1, Steps
<1>2. k + 1 \in DOMAIN Program["brdstats"]
  <2>1. k # Len(Program["brdstats"])  BY SequencesRight DEF RoundEnds
  <2> QED BY <1>1, <2>1
<1>3. o2 = "brdstats" /\ k2 = k + 1
  <2>1. ~(k + 1 > Len(Program["brdstats"]))  BY <1>1, <1>2
  <2> QED BY <2>1 DEF Moves
<1>4. /\ Program["brdstats"][k].pe = 0 => Before("brdstats", k + 1, 0) # {}
      /\ Program["brdstats"][k].pe # 0 => Before("brdstats", k + 1, 0) = Before("brdstats", k, 0)
  BY <1>1, ChosenNext
<1>5. Before("brdstats", k + 1, 0) = {} => r = {}
  BY <1>4 DEF Rests, AtRest
<1>6. PICK m : m = k + 1  OBVIOUS
<1>7. Own("brdstats", m, 0, r) /\ m \in DOMAIN Program["brdstats"]  BY <1>2, <1>3, <1>6
<1>8. Before("brdstats", m, 0) = {} => r = {}  BY <1>5, <1>6
<1>9. Rests("brdstats", m, r)  BY <1>7, <1>8, RestsAt
<1> QED BY <1>3, <1>6, <1>9

LEMMA RestsMoves ==
  ASSUME NEW k \in DOMAIN Program["brdstats"], NEW d, Far("brdstats", k, d), NEW o2, NEW k2,
         Moves("brdstats", k, d, o2, k2), Program["brdstats"][k].op # "expand", NEW s,
         Rests("brdstats", k, s), Own("brdstats", k, 0, s), Own(o2, k2, 0, s)
  PROVE  Rests(o2, k2, s)
<1>1. "brdstats" \in DOMAIN Program /\ k \in Nat /\ k >= 1
  <2>1. "brdstats" \in DOMAIN Program  BY Names
  <2> QED BY <2>1, Steps
<1>2. Before("brdstats", k, 0) = {} => s = {}  BY DEF Rests, AtRest
<1>3. Before("brdstats", k + 1, 0) = Before("brdstats", k, 0)  BY <1>1, ChosenNext
<1>4. CASE o2 = "none" /\ k2 = 1
  <2>1. /\ DOMAIN Program["brdstats"] = 1 .. Len(Program["brdstats"])
        /\ Len(Program["brdstats"]) \in Nat /\ WellFormed("brdstats", k)
    BY <1>1, Steps
  <2>2. k + d > Len(Program["brdstats"])  BY <1>1, <1>4, Names DEF Moves
  <2>3. CASE d = 1
    <3>1. k = Len(Program["brdstats"])  BY <1>1, <2>1, <2>2, <2>3
    <3>2. Program["brdstats"][k].op = "pause"  BY <3>1, SequencesRight DEF RoundEnds
    <3>3. s = {}  BY <3>2 DEF Rests, AtRest
    <3> QED BY <3>3 DEF Rests
  <2>4. CASE d = 2 /\ Program["brdstats"][k].op = "write" /\ Program["brdstats"][k].skip = 1
    <3>1. k + 1 \in DOMAIN Program["brdstats"] /\ Program["brdstats"][k + 1].op = "read"
      BY <2>1, <2>4 DEF WellFormed
    <3>2. k + 1 = Len(Program["brdstats"])  BY <1>1, <2>1, <2>2, <2>4, <3>1
    <3>3. Program["brdstats"][k + 1].op = "pause"  BY <3>2, SequencesRight DEF RoundEnds
    <3> QED BY <3>1, <3>3
  <2> QED BY <2>3, <2>4 DEF Far
<1>5. CASE o2 = "brdstats" /\ k2 = k + 1 /\ k + 1 \in DOMAIN Program["brdstats"]
  <2>1. PICK m : m = k + 1  OBVIOUS
  <2>2. /\ m \in DOMAIN Program["brdstats"] /\ Own("brdstats", m, 0, s)
        /\ Before("brdstats", m, 0) = {} => s = {}
    BY <1>2, <1>3, <1>5, <2>1
  <2>3. Rests("brdstats", m, s)  BY <2>2, RestsAt
  <2> QED BY <1>5, <2>1, <2>3
<1>6. CASE /\ o2 = "brdstats" /\ k2 = k + 2 /\ (k + 1) + 1 = k + 2
           /\ k + 1 \in DOMAIN Program["brdstats"] /\ k + 2 \in DOMAIN Program["brdstats"]
           /\ Program["brdstats"][k + 1].op = "read"
  <2>1. PICK m : m = k + 1  OBVIOUS
  <2>2. m \in Nat /\ m >= 1 /\ Program["brdstats"][m].op # "expand"  BY <1>1, <1>6, <2>1
  <2>3. Before("brdstats", m + 1, 0) = Before("brdstats", m, 0)  BY <2>2, ChosenNext
  <2>4. PICK l : l = k + 2  OBVIOUS
  <2>5. /\ l \in DOMAIN Program["brdstats"] /\ Own("brdstats", l, 0, s)
        /\ Before("brdstats", l, 0) = {} => s = {}
    BY <1>2, <1>3, <1>6, <2>1, <2>3, <2>4
  <2>6. Rests("brdstats", l, s)  BY <2>5, RestsAt
  <2> QED BY <1>6, <2>4, <2>6
<1> QED BY <1>1, <1>4, <1>5, <1>6, Lands

\* After anything but a write, and after a write whose read is passed over.
LEMMA ReadyMoves ==
  ASSUME NEW n \in DOMAIN Beside, NEW k \in DOMAIN Program[n], NEW d, Far(n, k, d), NEW o2, NEW k2,
         Moves(n, k, d, o2, k2), Program[n][k].op = "write" => d = 2, NEW s, NEW p
  PROVE  Ready(o2, k2, s, p)
<1>0. n \in DOMAIN Program /\ k \in Nat /\ k >= 1
  <2>1. n \in DOMAIN Program  BY Names
  <2> QED BY <2>1, Steps
<1>1. CASE o2 = "none"
  BY <1>1 DEF Ready
<1>2. CASE o2 = n /\ k2 = k + 1 /\ d = 1 /\ k + 1 \in DOMAIN Program[n]
  <2>1. PICK m : m = k + 1  OBVIOUS
  <2>2. m \in DOMAIN Program[n] /\ m - 1 = k  BY <1>0, <1>2, <2>1
  <2>3. Program[n][m - 1].op # "write"  BY <1>2, <2>2
  <2> QED BY <1>2, <2>1, <2>2, <2>3, ReadyFree
<1>3. CASE /\ o2 = n /\ k2 = k + 2 /\ k + 2 \in DOMAIN Program[n]
           /\ Program[n][k + 1].op = "read"
  <2>1. PICK m : m = k + 2  OBVIOUS
  <2>2. m \in DOMAIN Program[n] /\ m - 1 = k + 1  BY <1>0, <1>3, <2>1
  <2>3. Program[n][m - 1].op # "write"  BY <1>3, <2>2
  <2> QED BY <1>3, <2>1, <2>2, <2>3, ReadyFree
<1> QED BY <1>0, <1>1, <1>2, <1>3, Lands

\* After a write that somebody acknowledged, or whose status nobody looks at.
LEMMA ReadyWrite ==
  ASSUME NEW n \in DOMAIN Beside, NEW k \in DOMAIN Program[n], NEW d, Far(n, k, d), NEW o2, NEW k2,
         Moves(n, k, d, o2, k2), Program[n][k].op = "write", NEW s, NEW got,
         Sure(n, Program[n][k]) /\ Program[n][k].dev \in Fitted
             /\ Program[n][k].dev[2] \in s[Program[n][k].dev[1]]
           => Program[n][k].dev \in got \/ (Program[n][k].dev \in StatusChecked /\ got = {}),
         got = {} => d = 1 + Program[n][k].skip
  PROVE  Ready(o2, k2, s, {<<e, Program[n][k].reg>> : e \in got})
<1>0. n \in DOMAIN Program /\ k \in Nat /\ k >= 1
  <2>1. n \in DOMAIN Program  BY Names
  <2> QED BY <2>1, Steps
<1>1. CASE o2 = "none"
  BY <1>1 DEF Ready
<1>2. CASE o2 = n /\ k2 = k + 1 /\ d = 1 /\ k + 1 \in DOMAIN Program[n]
  <2>1. PICK m : m = k + 1  OBVIOUS
  <2>2. m \in DOMAIN Program[n] /\ m - 1 = k  BY <1>0, <1>2, <2>1
  <2>3. Pointed(n, m)  BY <2>2, SequencesRight
  <2>4. SUFFICES ASSUME Named(Program[n][m]), Sure(n, Program[n][m]), Program[n][m].dev \in Fitted,
                        Program[n][m].dev[2] \in s[Program[n][m].dev[1]]
                 PROVE  <<Program[n][m].dev, Program[n][m].reg>> \in {<<e, Program[n][k].reg>> : e \in got}
    BY <1>2, <2>1 DEF Ready
  <2>5. /\ Program[n][k].dev = Program[n][m].dev /\ Program[n][k].reg = Program[n][m].reg
        /\ Program[n][k].dev \in StatusChecked => Program[n][k].skip = 1
    BY <2>2, <2>3, <2>4 DEF Pointed
  <2>6. Program[n][k].dev \in got \/ (Program[n][k].dev \in StatusChecked /\ got = {})
    <3>1. Sure(n, Program[n][k])  BY <2>4, <2>5 DEF Sure, Undisturbed
    <3> QED BY <2>4, <2>5, <3>1
  <2>7. ~(Program[n][k].skip = 1 /\ got = {})  BY <1>2
  <2> QED BY <2>5, <2>6, <2>7
<1>3. CASE d = 2
  BY <1>3, ReadyMoves
<1> QED BY <1>0, <1>1, <1>2, <1>3, Lands
-----------------------------------------------------------------------------
(* What a thread can reach while it waits for its turn.                    *)

\* A busy thread executes a known sequence, and one that is not the console's
\* has company only from the sequences beside it.
LEMMA Busy ==
  ASSUME BusType, RoleInv, NEW t \in Threads, ~Idle(t)
  PROVE  /\ op[t] \in DOMAIN Program /\ step[t] \in DOMAIN Program[op[t]]
         /\ t # "console" => op[t] \in DOMAIN Beside
         /\ t = "console" => op[t] \in MenuEntries
         /\ t = "brdstats" => op[t] = "brdstats"
<1>1. op[t] # "none"  BY DEF Idle
<1>2. op[t] \in DOMAIN Program /\ step[t] \in DOMAIN Program[op[t]]
  BY <1>1 DEF BusType
<1>3. t = "main" \/ t = "brdstats" \/ t = "console" \/ t \in Handlers  BY BoardAssumption
<1>4. t \in Handlers => t # "console" /\ t # "brdstats"  BY BoardAssumption
<1>5. t # "console" => op[t] \in DOMAIN Beside
  BY <1>1, <1>3, Names DEF RoleInv, Boot
<1>6. t = "console" => op[t] \in MenuEntries  BY <1>1 DEF RoleInv
<1>7. t = "brdstats" => op[t] = "brdstats"  BY <1>1 DEF RoleInv
<1> QED BY <1>2, <1>5, <1>6, <1>7

LEMMA Company ==
  ASSUME RoleInv, NEW t \in Threads \ {"console"}, NEW u \in Threads \ {"console"}, t # u,
         ~Idle(t), ~Idle(u)
  PROVE  op[t] \in Beside[op[u]]
<1>1. phase = "serving" \/ (t = "main" /\ u = "main")  BY DEF RoleInv
<1>2. t # "main" /\ u # "main"  BY <1>1 DEF RoleInv
<1>3. (t = "brdstats" \/ t \in Handlers) /\ (u = "brdstats" \/ u \in Handlers)
  BY <1>2, BoardAssumption
<1>4. t \in Handlers => op[t] = "update"  BY DEF RoleInv, Idle
<1>5. u \in Handlers => op[u] = "update"  BY DEF RoleInv, Idle
<1>6. t = "brdstats" => op[t] = "brdstats"  BY DEF RoleInv, Idle
<1>7. u = "brdstats" => op[u] = "brdstats"  BY DEF RoleInv, Idle
<1> QED BY <1>3, <1>4, <1>5, <1>6, <1>7, Names

\* When the console runs the others wait.
LEMMA Waiting ==
  ASSUME RoleInv, ~Idle("console"), Runs("console"), NEW u \in Threads \ {"console"}
  PROVE  Idle(u) \/ Doing(u, "pause")
<1>1. phase = "serving"  BY BoardAssumption DEF RoleInv
<1>2. Idle("main")  BY <1>1 DEF RoleInv
<1>3. u = "main" \/ u = "brdstats" \/ u \in Handlers  BY BoardAssumption
<1> QED BY <1>2, <1>3 DEF Runs

\* Only the device a thread means is connected to it, of all of the address, if
\* nothing disturbs the transfer.
LEMMA OneAnswers ==
  ASSUME BusType, RoleInv, SelInv, NEW t \in Threads \ {"console"}, Transferring(t),
         Undisturbed(op[t], Current(t))
  PROVE  Answering(Current(t).addr) \subseteq {Current(t).dev}
<1>1. PICK n, k : n = op[t] /\ k = step[t]  OBVIOUS
<1>2. n \in DOMAIN Beside /\ n \in DOMAIN Program /\ k \in DOMAIN Program[n] /\ n # "none"
  BY <1>1, Busy DEF Transferring, Idle
<1>3. Transfer(Program[n][k])  BY <1>1 DEF Transferring, Current
<1>4. Program[n][k].op # "pause"  BY <1>3 DEF Transfer
<1>5. Alone(n, k)  BY <1>2, SequencesRight
<1>6. SUFFICES ASSUME NEW d \in Fitted, d[3] = Program[n][k].addr, d[2] \in sel[d[1]],
                      d # Program[n][k].dev
               PROVE  FALSE
  BY <1>1 DEF Answering, Current
<1>7. d \in Devices  BY BusAssumption
<1>8. /\ d[1] \in Expanders /\ Before(n, k, d[1]) # {}
      /\ d[2] \notin Chosen(n, k, d[1]) /\ d[2] \notin Others(n, d[1])
  <2>1. Undisturbed(n, Program[n][k])  BY <1>1 DEF Current
  <2>2. Beside[n] = {} => Others(n, d[1]) = {}  BY DEF Others
  <2> QED BY <1>3, <1>5, <1>6, <1>7, <2>1, <2>2 DEF Alone, Undisturbed
<1>9. Fits(n, k, d[1], sel[d[1]])  BY <1>1, <1>8 DEF SelInv
<1>10. sel[d[1]] \subseteq Chosen(n, k, d[1]) \cup Others(n, d[1])
  BY <1>2, <1>4, <1>8, <1>9 DEF Fits
<1> QED BY <1>6, <1>8, <1>10

\* What Advance does, to the thread and to the others.
LEMMA AdvanceMoves ==
  ASSUME BusType, RoleInv, NEW t \in Threads, ~Idle(t), NEW d, Far(op[t], step[t], d), Advance(t, d)
  PROVE  /\ Moves(op[t], step[t], d, op'[t], step'[t])
         /\ \A u \in Threads \ {t} : op'[u] = op[u] /\ step'[u] = step[u]
         /\ op' \in [Threads -> DOMAIN Program \cup {"none"}]
         /\ step' \in [Threads -> Nat]
         /\ \A u \in Threads : IF op'[u] = "none" THEN step'[u] = 1 ELSE step'[u] \in DOMAIN Program[op'[u]]
<1>1. op \in [Threads -> DOMAIN Program \cup {"none"}] /\ step \in [Threads -> Nat]
  BY DEF BusType
<1>2. /\ op[t] \in DOMAIN Program /\ step[t] \in DOMAIN Program[op[t]]
  BY Busy
<1>3. Moves(op[t], step[t], d, op'[t], step'[t])
  BY <1>1 DEF Advance, Moves
<1>4. \A u \in Threads \ {t} : op'[u] = op[u] /\ step'[u] = step[u]
  BY <1>1 DEF Advance
<1>5. PICK n, k, o2, k2 : n = op[t] /\ k = step[t] /\ o2 = op'[t] /\ k2 = step'[t]  OBVIOUS
<1>6. IF o2 = "none" THEN k2 = 1 ELSE o2 = n /\ k2 \in DOMAIN Program[n]
  <2>1. n \in DOMAIN Program /\ k \in DOMAIN Program[n] /\ Far(n, k, d) /\ Moves(n, k, d, o2, k2)
    BY <1>2, <1>3, <1>5
  <2>2. n # "none"  BY <2>1, Names
  <2> QED BY <2>1, <2>2, Lands
<1>7. k2 \in Nat  BY <1>2, <1>5, <1>6, Steps
<1>8. op' \in [Threads -> DOMAIN Program \cup {"none"}]
  <2>1. o2 \in DOMAIN Program \cup {"none"}  BY <1>2, <1>5, <1>6
  <2>2. op' = [op EXCEPT ![t] = o2]  BY <1>1, <1>5 DEF Advance
  <2> QED BY <1>1, <2>1, <2>2
<1>9. step' \in [Threads -> Nat]
  <2>1. step' = [step EXCEPT ![t] = k2]  BY <1>1, <1>5 DEF Advance
  <2> QED BY <1>1, <1>7, <2>1
<1>10. ASSUME NEW u \in Threads
       PROVE  IF op'[u] = "none" THEN step'[u] = 1 ELSE step'[u] \in DOMAIN Program[op'[u]]
  <2>1. CASE u = t
    BY <1>2, <1>5, <1>6, <2>1, Names
  <2>2. CASE u # t
    BY <1>4, <2>2 DEF BusType
  <2> QED BY <2>1, <2>2
<1> QED BY <1>3, <1>4, <1>8, <1>9, <1>10

\* A transfer starts nothing.
LEMMA AdvanceRole ==
  ASSUME BusType, RoleInv, NEW t \in Threads, ~Idle(t), NEW d, Far(op[t], step[t], d), Advance(t, d),
         phase' = phase
  PROVE  RoleInv'
<1>1. \A u \in Threads : op'[u] = op[u] \/ op'[u] = "none"
  <2>1. op \in [Threads -> DOMAIN Program \cup {"none"}]  BY DEF BusType
  <2> QED BY <2>1 DEF Advance
<1>2. {"main", "brdstats", "console"} \cup Handlers \subseteq Threads  BY BoardAssumption
<1> QED BY <1>1, <1>2 DEF RoleInv, Idle

-----------------------------------------------------------------------------
(* The steps of the bus.                                                   *)

LEMMA ExpandStep ==
  ASSUME BusInv, NEW t \in Threads, Runs(t), i2c_set_port_expander(t), phase' = phase
  PROVE  BusInv'
<1>0. BusType /\ RoleInv /\ SelInv /\ OwnerInv /\ RestInv /\ PointInv  BY DEF BusInv
<1>1. ~Idle(t) /\ Current(t).op = "expand" /\ Advance(t, 1) /\ pointed' = pointed
  BY DEF i2c_set_port_expander, Doing
<1>2. PICK n, k, pe0, ch : n = op[t] /\ k = step[t] /\ pe0 = Current(t).pe /\ ch = Current(t).channels
  OBVIOUS
<1>3. n \in DOMAIN Program /\ k \in DOMAIN Program[n] /\ n # "none"
  BY <1>0, <1>1, <1>2, Busy, Names
<1>4. Program[n][k].op = "expand" /\ Program[n][k].pe = pe0 /\ Program[n][k].channels = ch
  BY <1>1, <1>2 DEF Current
<1>5. pe0 \in Expanders /\ ch \subseteq 0 .. 7
  <2>1. WellFormed(n, k)  BY <1>3, Steps
  <2> QED BY <1>4, <2>1 DEF WellFormed
<1>6. /\ sel \in [Expanders -> SUBSET (0 .. 7)] /\ owner \in [Expanders -> Threads \cup {"none"}]
      /\ sel' = [sel EXCEPT ![pe0] = ch] /\ owner' = [owner EXCEPT ![pe0] = t]
  BY <1>0, <1>2 DEF BusType, i2c_set_port_expander
<1>7. Far(op[t], step[t], 1)  BY DEF Far
<1>8. /\ Moves(n, k, 1, op'[t], step'[t])
      /\ \A u \in Threads \ {t} : op'[u] = op[u] /\ step'[u] = step[u]
      /\ op' \in [Threads -> DOMAIN Program \cup {"none"}]
      /\ step' \in [Threads -> Nat]
      /\ \A u \in Threads : IF op'[u] = "none" THEN step'[u] = 1 ELSE step'[u] \in DOMAIN Program[op'[u]]
  BY <1>0, <1>1, <1>2, <1>7, AdvanceMoves
<1>9. \A pe \in Expanders :
        /\ sel'[pe] = IF pe = pe0 THEN ch ELSE sel[pe]
        /\ owner'[pe] = IF pe = pe0 THEN t ELSE owner[pe]
  BY <1>5, <1>6
<1>10. BusType'
  <2>1. sel' \in [Expanders -> SUBSET (0 .. 7)] /\ owner' \in [Expanders -> Threads \cup {"none"}]
    BY <1>5, <1>6
  <2>2. pointed' \in [Threads -> SUBSET (Devices \X (0 .. 255))]
    BY <1>0, <1>1 DEF BusType
  <2> QED BY <1>8, <2>1, <2>2 DEF BusType
<1>11. RoleInv'
  BY <1>0, <1>1, <1>7, AdvanceRole
\* What the other threads see of it.
<1>12. ASSUME NEW u \in Threads \ {"console"}, u # t, ~Idle(u)
       PROVE  Doing(u, "pause") \/ (op[u] \in DOMAIN Beside /\ ch \subseteq Others(op[u], pe0))
  <2>1. CASE t = "console"
    BY <1>0, <1>1, <1>12, <2>1, Waiting
  <2>2. CASE t # "console"
    <3>1. n \in Beside[op[u]]  BY <1>0, <1>1, <1>2, <1>12, <2>2, Company
    <3>2. ch \subseteq Selections(n, pe0)  BY <1>3, <1>4, SelectsIn
    <3>3. Selections(n, pe0) \subseteq Others(op[u], pe0)  BY <3>1, OthersIn
    <3>4. op[u] \in DOMAIN Beside  BY <1>0, <1>12, Busy
    <3> QED BY <3>2, <3>3, <3>4
  <2> QED BY <2>1, <2>2
<1>13. SelInv'
  <2> SUFFICES ASSUME NEW u \in Threads \ {"console"}, NEW pe \in Expanders
               PROVE  Fits(op'[u], step'[u], pe, sel'[pe])
    BY DEF SelInv
  <2>1. Fits(op[u], step[u], pe, sel[pe])  BY <1>0 DEF SelInv
  <2>2. CASE u = t
    <3>1. Fits(n, k, pe, sel[pe])  BY <1>2, <2>1, <2>2
    <3>2. PICK r : r = IF pe = pe0 THEN ch ELSE sel[pe]  OBVIOUS
    <3>3. PICK o2, k2 : o2 = op'[t] /\ k2 = step'[t]  OBVIOUS
    <3>4. Fits(o2, k2, pe, r)  BY <1>3, <1>4, <1>8, <3>1, <3>2, <3>3, ExpandMoves
    <3> QED BY <1>9, <2>2, <3>2, <3>3, <3>4
  <2>3. CASE u # t /\ pe = pe0
    <3>1. op'[u] = op[u] /\ step'[u] = step[u] /\ sel'[pe] = ch  BY <1>8, <1>9, <2>3
    <3>2. Idle(u) \/ Doing(u, "pause") \/ ch \subseteq Others(op[u], pe0)  BY <1>12, <2>3
    <3> QED BY <2>3, <3>1, <3>2 DEF Fits, Idle, Doing, Current
  <2>4. CASE u # t /\ pe # pe0
    BY <1>8, <1>9, <2>1, <2>4
  <2> QED BY <2>2, <2>3, <2>4
<1>14. OwnerInv'
  <2>1. ASSUME NEW u \in Threads, NEW pe \in Expanders, owner'[pe] = u
        PROVE  Own(op'[u], step'[u], pe, sel'[pe])
    <3>1. CASE u = t
      <4>1. pe # pe0 => owner[pe] = t  BY <1>9, <2>1, <3>1
      <4>2. pe # pe0 => Own(n, k, pe, sel[pe])  BY <1>0, <1>2, <4>1 DEF OwnerInv
      <4>3. PICK r : r = IF pe = pe0 THEN ch ELSE sel[pe]  OBVIOUS
      <4>4. PICK o2, k2 : o2 = op'[t] /\ k2 = step'[t]  OBVIOUS
      <4>5. Own(o2, k2, pe, r)  BY <1>3, <1>4, <1>8, <4>2, <4>3, <4>4, ExpandMoves
      <4> QED BY <1>9, <3>1, <4>3, <4>4, <4>5
    <3>2. CASE u # t
      <4>1. pe # pe0 /\ owner[pe] = u  BY <1>9, <2>1, <3>2
      <4>2. Own(op[u], step[u], pe, sel[pe])  BY <1>0, <4>1 DEF OwnerInv
      <4> QED BY <1>8, <1>9, <3>2, <4>1, <4>2
    <3> QED BY <3>1, <3>2
  <2> QED BY <2>1 DEF OwnerInv
<1>15. RestInv'
  <2> SUFFICES ASSUME owner'[0] = "brdstats"
               PROVE  Rests(op'["brdstats"], step'["brdstats"], sel'[0])
    BY DEF RestInv
  <2>0. 0 \in Expanders /\ "brdstats" \in Threads  BY BoardAssumption DEF Expanders
  <2>1. CASE t = "brdstats"
    <3>1. Own(op'["brdstats"], step'["brdstats"], 0, sel'[0])  BY <1>14, <2>0 DEF OwnerInv
    <3>2. PICK o2, k2, s2 : o2 = op'["brdstats"] /\ k2 = step'["brdstats"] /\ s2 = sel'[0]  OBVIOUS
    <3>3. n = "brdstats"  BY <1>0, <1>1, <1>2, <2>1, Busy
    <3>4. Moves("brdstats", k, 1, o2, k2) /\ Own(o2, k2, 0, s2)
      BY <1>8, <2>1, <3>1, <3>2, <3>3
    <3>5. pe0 # 0 => Rests("brdstats", k, sel[0])
      BY <1>0, <1>2, <1>9, <2>0, <2>1, <3>3 DEF RestInv
    <3>6. s2 = IF pe0 = 0 THEN ch ELSE sel[0]  BY <1>9, <2>0, <3>2
    <3>7. Rests(o2, k2, s2)  BY <1>3, <1>4, <3>3, <3>4, <3>5, <3>6, RestsExpand
    <3> QED BY <3>2, <3>7
  <2>2. CASE t # "brdstats"
    <3>1. pe0 # 0 /\ owner[0] = "brdstats"  BY <1>9, <2>0, <2>2
    <3>2. op'["brdstats"] = op["brdstats"] /\ step'["brdstats"] = step["brdstats"] /\ sel'[0] = sel[0]
      BY <1>8, <1>9, <2>0, <2>2, <3>1
    <3> QED BY <1>0, <3>1, <3>2 DEF RestInv
  <2> QED BY <2>1, <2>2
<1>16. PointInv'
  <2> SUFFICES ASSUME NEW u \in Threads \ {"console"}
               PROVE  Ready(op'[u], step'[u], sel', pointed'[u])
    BY DEF PointInv
  <2>1. CASE u = t
    <3>1. n \in DOMAIN Beside  BY <1>0, <1>1, <1>2, <2>1, Busy
    <3>2. PICK o2, k2 : o2 = op'[t] /\ k2 = step'[t]  OBVIOUS
    <3>3. Far(n, k, 1)  BY DEF Far
    <3>4. \A s, p : Ready(o2, k2, s, p)  BY <1>3, <1>4, <1>8, <3>1, <3>2, <3>3, ReadyMoves
    <3> QED BY <2>1, <3>2, <3>4
  <2>2. CASE u # t
    <3>1. PICK m, j : m = op[u] /\ j = step[u]  OBVIOUS
    <3>2. op'[u] = m /\ step'[u] = j  BY <1>8, <2>2, <3>1
    <3>3. Ready(m, j, sel, pointed[u])  BY <1>0, <3>1 DEF PointInv
    <3>4. SUFFICES ASSUME m # "none", Named(Program[m][j]), Sure(m, Program[m][j]),
                          Program[m][j].dev \in Fitted,
                          Program[m][j].dev[2] \in sel'[Program[m][j].dev[1]]
                   PROVE  <<Program[m][j].dev, Program[m][j].reg>> \in pointed[u]
      BY <1>1, <3>2 DEF Ready
    <3>5. op[u] \in DOMAIN Beside /\ ch \subseteq Others(op[u], pe0)
      <4>1. ~Idle(u) /\ ~Doing(u, "pause")  BY <3>1, <3>4 DEF Idle, Doing, Current, Named
      <4> QED BY <1>12, <2>2, <4>1
    <3>6. j \in DOMAIN Program[m] /\ m \in DOMAIN Program
      BY <1>0, <3>1, <3>4, Busy DEF Idle
    <3>7. Program[m][j].dev[2] \notin Others(m, Program[m][j].dev[1])
      <4>1. Pointed(m, j)  BY <3>1, <3>5, <3>6, SequencesRight
      <4> QED BY <3>4, <4>1 DEF Pointed, Sure
    <3>8. Program[m][j].dev[1] \in Expanders
      <4>1. WellFormed(m, j)  BY <3>6, Steps
      <4>2. Transfer(Program[m][j])  BY <3>4 DEF Transfer, Named
      <4> QED BY <4>1, <4>2 DEF WellFormed
    <3>9. Program[m][j].dev[1] # pe0  BY <1>9, <3>1, <3>4, <3>5, <3>7, <3>8
    <3>10. Program[m][j].dev[2] \in sel[Program[m][j].dev[1]]  BY <1>9, <3>4, <3>8, <3>9
    <3> QED BY <3>3, <3>4, <3>10 DEF Ready
  <2> QED BY <2>1, <2>2
<1> QED BY <1>10, <1>11, <1>13, <1>14, <1>15, <1>16 DEF BusInv

\* A step that leaves the expanders alone disturbs only what is known of pointed.
LEMMA OnStep ==
  ASSUME BusInv, NEW t \in Threads, ~Idle(t), Current(t).op # "expand", NEW d,
         Far(op[t], step[t], d), Advance(t, d), sel' = sel, owner' = owner, phase' = phase,
         pointed' \in [Threads -> SUBSET (Devices \X (0 .. 255))]
  PROVE  BusType' /\ RoleInv' /\ SelInv' /\ OwnerInv' /\ RestInv'
<1>0. BusType /\ RoleInv /\ SelInv /\ OwnerInv /\ RestInv  BY DEF BusInv
<1>1. PICK n, k, o2, k2 : n = op[t] /\ k = step[t] /\ o2 = op'[t] /\ k2 = step'[t]  OBVIOUS
<1>2. /\ n \in DOMAIN Program /\ k \in DOMAIN Program[n] /\ Program[n][k].op # "expand"
      /\ Far(n, k, d)
  BY <1>0, <1>1, Busy DEF Current
<1>3. /\ Moves(n, k, d, o2, k2)
      /\ \A u \in Threads \ {t} : op'[u] = op[u] /\ step'[u] = step[u]
      /\ op' \in [Threads -> DOMAIN Program \cup {"none"}]
      /\ step' \in [Threads -> Nat]
      /\ \A u \in Threads : IF op'[u] = "none" THEN step'[u] = 1 ELSE step'[u] \in DOMAIN Program[op'[u]]
  BY <1>0, <1>1, AdvanceMoves
<1>4. BusType'
  <2>1. sel' \in [Expanders -> SUBSET (0 .. 7)] /\ owner' \in [Expanders -> Threads \cup {"none"}]
    BY <1>0 DEF BusType
  <2> QED BY <1>3, <2>1 DEF BusType
<1>5. RoleInv'  BY <1>0, AdvanceRole
<1>6. SelInv'
  <2> SUFFICES ASSUME NEW u \in Threads \ {"console"}, NEW pe \in Expanders
               PROVE  Fits(op'[u], step'[u], pe, sel[pe])
    BY DEF SelInv
  <2>1. Fits(op[u], step[u], pe, sel[pe])  BY <1>0 DEF SelInv
  <2>2. CASE u = t
    <3>1. PICK s : s = sel[pe]  OBVIOUS
    <3>2. Fits(o2, k2, pe, s)  BY <1>1, <1>2, <1>3, <2>1, <2>2, <3>1, FitsMoves
    <3> QED BY <1>1, <2>2, <3>1, <3>2
  <2> QED BY <1>3, <2>1, <2>2
<1>7. OwnerInv'
  <2>1. ASSUME NEW u \in Threads, NEW pe \in Expanders, owner[pe] = u
        PROVE  Own(op'[u], step'[u], pe, sel[pe])
    <3>1. Own(op[u], step[u], pe, sel[pe])  BY <1>0, <2>1 DEF OwnerInv
    <3>2. CASE u = t
      <4>1. PICK s : s = sel[pe]  OBVIOUS
      <4>2. Own(o2, k2, pe, s)  BY <1>1, <1>2, <1>3, <3>1, <3>2, <4>1, OwnMoves
      <4> QED BY <1>1, <3>2, <4>1, <4>2
    <3> QED BY <1>3, <3>1, <3>2
  <2> QED BY <2>1 DEF OwnerInv
<1>8. RestInv'
  <2> SUFFICES ASSUME owner[0] = "brdstats"
               PROVE  Rests(op'["brdstats"], step'["brdstats"], sel[0])
    BY DEF RestInv
  <2>0. 0 \in Expanders /\ "brdstats" \in Threads  BY BoardAssumption DEF Expanders
  <2>1. Rests(op["brdstats"], step["brdstats"], sel[0])  BY <1>0 DEF RestInv
  <2>2. CASE t = "brdstats"
    <3>1. Own(op'["brdstats"], step'["brdstats"], 0, sel[0])  BY <1>7, <2>0 DEF OwnerInv
    <3>2. PICK s : s = sel[0]  OBVIOUS
    <3>3. n = "brdstats"  BY <1>0, <1>1, <2>2, Busy
    <3>4. Own(o2, k2, 0, s) /\ Rests("brdstats", k, s) /\ Moves("brdstats", k, d, o2, k2)
      BY <1>1, <1>3, <2>1, <2>2, <3>1, <3>2, <3>3
    <3>5. /\ k \in DOMAIN Program["brdstats"] /\ Far("brdstats", k, d)
          /\ Program["brdstats"][k].op # "expand"
      BY <1>2, <3>3
    <3>6. Own("brdstats", k, 0, s)  BY <1>0, <1>1, <2>0, <2>2, <3>2, <3>3 DEF OwnerInv
    <3>7. Rests(o2, k2, s)  BY <3>4, <3>5, <3>6, RestsMoves
    <3> QED BY <1>1, <2>2, <3>2, <3>7
  <2>3. CASE t # "brdstats"
    BY <1>3, <2>0, <2>1, <2>3
  <2> QED BY <2>2, <2>3
<1> QED BY <1>4, <1>5, <1>6, <1>7, <1>8

\* What another thread has set stays: got answers t, and what t sends does not go to
\* the address u is about to read.
LEMMA OthersReady ==
  ASSUME BusInv, NEW t \in Threads, ~Idle(t), Transferring(t), Runs(t),
         NEW got, got \subseteq Answering(Current(t).addr),
         NEW u \in Threads \ {"console"}, u # t
  PROVE  Ready(op[u], step[u], sel, {p \in pointed[u] : p[1] \notin got})
<1>0. BusType /\ RoleInv /\ SelInv /\ PointInv  BY DEF BusInv
<1>1. PICK m, j : m = op[u] /\ j = step[u]  OBVIOUS
<1>2. Ready(m, j, sel, pointed[u])  BY <1>0, <1>1 DEF PointInv
<1>3. SUFFICES ASSUME m # "none", Named(Program[m][j]), Sure(m, Program[m][j]),
                      Program[m][j].dev \in Fitted, Program[m][j].dev[2] \in sel[Program[m][j].dev[1]]
               PROVE  Program[m][j].dev \notin got
  <2>1. PICK q : q = {p \in pointed[u] : p[1] \notin got}  OBVIOUS
  <2>2. Ready(m, j, sel, q)  BY <1>2, <1>3, <2>1 DEF Ready
  <2> QED BY <1>1, <2>1, <2>2
<1>4. ~Idle(u) /\ ~Doing(u, "pause")  BY <1>1, <1>3 DEF Idle, Doing, Current, Named
<1>5. t # "console"  BY <1>0, <1>4, Waiting
<1>6. op[t] \in Beside[m]  BY <1>0, <1>1, <1>4, <1>5, Company
<1>7. m \in DOMAIN Beside /\ j \in DOMAIN Program[m]  BY <1>0, <1>1, <1>4, Busy
<1>8. op[t] \in DOMAIN Program /\ step[t] \in DOMAIN Program[op[t]]  BY <1>0, Busy
<1>9. Current(t).addr # Program[m][j].addr
  <2>1. Pointed(m, j)  BY <1>7, SequencesRight
  <2>2. \A n \in Beside[m] : \A k \in DOMAIN Program[n] :
          Transfer(Program[n][k]) => Program[n][k].addr # Program[m][j].addr
    BY <1>3, <2>1 DEF Pointed, Sure
  <2>3. Transfer(Program[op[t]][step[t]])  BY DEF Transferring, Current
  <2> QED BY <1>6, <1>8, <2>2, <2>3 DEF Current
<1>10. Program[m][j].addr = Program[m][j].dev[3]
  <2>1. m \in DOMAIN Program /\ Transfer(Program[m][j])  BY <1>3, <1>7, Names DEF Transfer, Named
  <2>2. WellFormed(m, j)  BY <1>7, <2>1, Steps
  <2> QED BY <2>1, <2>2 DEF WellFormed
<1> QED BY <1>9, <1>10 DEF Answering

LEMMA ResumeStep ==
  ASSUME BusInv, NEW t \in Threads, Resume(t), phase' = phase
  PROVE  BusInv'
<1>0. BusType /\ RoleInv /\ PointInv  BY DEF BusInv
<1>1. /\ ~Idle(t) /\ Current(t).op = "pause" /\ Advance(t, 1)
      /\ sel' = sel /\ pointed' = pointed /\ owner' = owner
  BY DEF Resume, Doing
<1>2. Far(op[t], step[t], 1)  BY DEF Far
<1>3. pointed' \in [Threads -> SUBSET (Devices \X (0 .. 255))]  BY <1>0, <1>1 DEF BusType
<1>4. Current(t).op # "expand"  BY <1>1
<1>5. BusType' /\ RoleInv' /\ SelInv' /\ OwnerInv' /\ RestInv'  BY <1>1, <1>2, <1>3, <1>4, OnStep
<1>6. PointInv'
  <2> SUFFICES ASSUME NEW u \in Threads \ {"console"}
               PROVE  Ready(op'[u], step'[u], sel, pointed[u])
    BY <1>1 DEF PointInv
  <2>1. CASE u = t
    <3>1. PICK n, k, o2, k2 : n = op[t] /\ k = step[t] /\ o2 = op'[t] /\ k2 = step'[t]  OBVIOUS
    <3>2. /\ n \in DOMAIN Beside /\ k \in DOMAIN Program[n] /\ Program[n][k].op # "write"
          /\ Moves(n, k, 1, o2, k2) /\ Far(n, k, 1)
      BY <1>0, <1>1, <1>2, <2>1, <3>1, Busy, AdvanceMoves DEF Current
    <3>3. \A s, p : Ready(o2, k2, s, p)  BY <3>2, ReadyMoves
    <3> QED BY <2>1, <3>1, <3>3
  <2>2. CASE u # t
    <3>1. op'[u] = op[u] /\ step'[u] = step[u]  BY <1>0, <1>1, <1>2, <2>2, AdvanceMoves
    <3> QED BY <1>0, <3>1 DEF PointInv
  <2> QED BY <2>1, <2>2
<1> QED BY <1>5, <1>6 DEF BusInv

LEMMA ReadStep ==
  ASSUME BusInv, NEW t \in Threads, Runs(t), Doing(t, "read"),
         NEW got \in Answers(Current(t).addr), i2c_read(t, got), phase' = phase
  PROVE  BusInv'
<1>0. BusType /\ RoleInv /\ PointInv  BY DEF BusInv
<1>1. /\ ~Idle(t) /\ Current(t).op = "read" /\ Advance(t, 1) /\ sel' = sel /\ owner' = owner
      /\ pointed' = [u \in Threads |-> {p \in pointed[u] : u # t /\ p[1] \notin got}]
  BY DEF i2c_read, Doing
<1>2. Far(op[t], step[t], 1)  BY DEF Far
<1>3. pointed' \in [Threads -> SUBSET (Devices \X (0 .. 255))]
  <2>1. \A u \in Threads : pointed[u] \in SUBSET (Devices \X (0 .. 255))  BY <1>0 DEF BusType
  <2> QED BY <1>1, <2>1
<1>4. Current(t).op # "expand" /\ Transferring(t)  BY <1>1 DEF Transferring, Transfer
<1>5. BusType' /\ RoleInv' /\ SelInv' /\ OwnerInv' /\ RestInv'  BY <1>1, <1>2, <1>3, <1>4, OnStep
<1>6. got \subseteq Answering(Current(t).addr)  BY DEF Answers
<1>7. PointInv'
  <2> SUFFICES ASSUME NEW u \in Threads \ {"console"}
               PROVE  Ready(op'[u], step'[u], sel, pointed'[u])
    BY <1>1 DEF PointInv
  <2>1. CASE u = t
    <3>1. PICK n, k, o2, k2 : n = op[t] /\ k = step[t] /\ o2 = op'[t] /\ k2 = step'[t]  OBVIOUS
    <3>2. /\ n \in DOMAIN Beside /\ k \in DOMAIN Program[n] /\ Program[n][k].op # "write"
          /\ Moves(n, k, 1, o2, k2) /\ Far(n, k, 1)
      BY <1>0, <1>1, <1>2, <2>1, <3>1, Busy, AdvanceMoves DEF Current
    <3>3. \A s, p : Ready(o2, k2, s, p)  BY <3>2, ReadyMoves
    <3> QED BY <2>1, <3>1, <3>3
  <2>2. CASE u # t
    <3>1. op'[u] = op[u] /\ step'[u] = step[u]  BY <1>0, <1>1, <1>2, <2>2, AdvanceMoves
    <3>2. pointed'[u] = {p \in pointed[u] : p[1] \notin got}  BY <1>1, <2>2
    <3>3. Ready(op[u], step[u], sel, {p \in pointed[u] : p[1] \notin got})
      BY <1>1, <1>4, <1>6, <2>2, OthersReady
    <3> QED BY <3>1, <3>2, <3>3
  <2> QED BY <2>1, <2>2
<1> QED BY <1>5, <1>7 DEF BusInv

LEMMA WriteStep ==
  ASSUME BusInv, NEW t \in Threads, Runs(t), i2c_write(t), phase' = phase
  PROVE  BusInv'
<1>0. BusType /\ RoleInv /\ SelInv /\ PointInv  BY DEF BusInv
<1>1. ~Idle(t) /\ Current(t).op = "write" /\ sel' = sel /\ owner' = owner
  BY DEF i2c_write, Doing
<1>2. PICK got \in Answers(Current(t).addr) :
        /\ pointed' = [u \in Threads |-> IF u = t THEN {<<e, Current(t).reg>> : e \in got}
                                         ELSE {p \in pointed[u] : p[1] \notin got}]
        /\ Advance(t, 1 + IF got = {} THEN Current(t).skip ELSE 0)
  BY DEF i2c_write
<1>3. PICK n, k, d, o2, k2 : /\ n = op[t] /\ k = step[t] /\ o2 = op'[t] /\ k2 = step'[t]
                             /\ d = 1 + IF got = {} THEN Current(t).skip ELSE 0
  OBVIOUS
<1>4. n \in DOMAIN Program /\ k \in DOMAIN Program[n] /\ Program[n][k] = Current(t)
  BY <1>0, <1>1, <1>3, Busy DEF Current
<1>5. /\ Transfer(Program[n][k]) /\ Transferring(t)
      /\ Program[n][k].dev \in Devices /\ Program[n][k].addr = Program[n][k].dev[3]
      /\ Program[n][k].reg \in 0 .. 255 /\ Program[n][k].skip \in {0, 1}
  <2>1. WellFormed(n, k)  BY <1>4, Steps
  <2>2. Transfer(Program[n][k]) /\ Program[n][k].op = "write"  BY <1>1, <1>4 DEF Transfer
  <2>3. Transferring(t)  BY <1>1, <1>4, <2>2 DEF Transferring
  <2> QED BY <2>1, <2>2, <2>3 DEF WellFormed
<1>6. Far(n, k, d) /\ (got = {} => d = 1 + Program[n][k].skip)
  <2>1. d = 1 \/ (d = 2 /\ Program[n][k].skip = 1)  BY <1>3, <1>4, <1>5
  <2> QED BY <1>1, <1>3, <1>4, <2>1 DEF Far
<1>7. got \subseteq Answering(Current(t).addr) /\ Answering(Current(t).addr) \ got \subseteq Flaky
  BY DEF Answers
<1>8. pointed' \in [Threads -> SUBSET (Devices \X (0 .. 255))]
  <2>1. \A u \in Threads : pointed[u] \in SUBSET (Devices \X (0 .. 255))  BY <1>0 DEF BusType
  <2>2. got \subseteq Devices  BY <1>7, BusAssumption DEF Answering
  <2>3. {<<e, Current(t).reg>> : e \in got} \in SUBSET (Devices \X (0 .. 255))
    BY <1>4, <1>5, <2>2
  <2> QED BY <1>2, <2>1, <2>3
<1>9. Advance(t, d) /\ Far(op[t], step[t], d) /\ Current(t).op # "expand"
  BY <1>1, <1>2, <1>3, <1>6
<1>10. BusType' /\ RoleInv' /\ SelInv' /\ OwnerInv' /\ RestInv'  BY <1>1, <1>8, <1>9, OnStep
<1>11. PointInv'
  <2> SUFFICES ASSUME NEW u \in Threads \ {"console"}
               PROVE  Ready(op'[u], step'[u], sel, pointed'[u])
    BY <1>1 DEF PointInv
  <2>1. CASE u = t
    <3>1. n \in DOMAIN Beside /\ Moves(n, k, d, o2, k2)
      BY <1>0, <1>1, <1>3, <1>9, <2>1, Busy, AdvanceMoves
    <3>2. Sure(n, Program[n][k]) => got \subseteq {Program[n][k].dev}
      BY <1>0, <1>3, <1>4, <1>5, <1>7, <2>1, OneAnswers DEF Sure
    <3>3. Program[n][k].dev \in Fitted /\ Program[n][k].dev[2] \in sel[Program[n][k].dev[1]]
            => Program[n][k].dev \in Answering(Current(t).addr)
      BY <1>4, <1>5 DEF Answering
    <3>4. Sure(n, Program[n][k]) /\ Program[n][k].dev \in Fitted
              /\ Program[n][k].dev[2] \in sel[Program[n][k].dev[1]]
            => Program[n][k].dev \in got \/ (Program[n][k].dev \in StatusChecked /\ got = {})
      BY <1>7, <3>2, <3>3 DEF Sure
    <3>6. Ready(o2, k2, sel, {<<e, Program[n][k].reg>> : e \in got})
      BY <1>1, <1>4, <1>6, <3>1, <3>4, ReadyWrite
    <3>7. pointed'[u] = {<<e, Program[n][k].reg>> : e \in got}  BY <1>2, <1>4, <2>1
    <3> QED BY <1>3, <2>1, <3>6, <3>7
  <2>2. CASE u # t
    <3>1. op'[u] = op[u] /\ step'[u] = step[u]  BY <1>0, <1>1, <1>9, <2>2, AdvanceMoves
    <3>2. pointed'[u] = {p \in pointed[u] : p[1] \notin got}  BY <1>2, <2>2
    <3>3. Ready(op[u], step[u], sel, {p \in pointed[u] : p[1] \notin got})
      BY <1>1, <1>5, <1>7, <2>2, OthersReady
    <3> QED BY <3>1, <3>2, <3>3
  <2> QED BY <2>1, <2>2
<1> QED BY <1>10, <1>11 DEF BusInv

-----------------------------------------------------------------------------
(* What starts and ends sequences.                                         *)

LEMMA BeginStep ==
  ASSUME BusInv, NEW t \in Threads, NEW name \in DOMAIN Program,
         t # "console" => name \in DOMAIN Beside, Begin(t, name), RoleInv'
  PROVE  BusInv'
<1>0. BusType /\ SelInv /\ OwnerInv /\ RestInv /\ PointInv  BY DEF BusInv
<1>1. /\ op[t] = "none" /\ op' = [op EXCEPT ![t] = name]
      /\ sel' = sel /\ pointed' = pointed /\ step' = step /\ owner' = owner
  BY DEF Begin, Idle
<1>2. /\ op'[t] = name /\ step'[t] = 1 /\ name # "none"
      /\ \A u \in Threads \ {t} : op'[u] = op[u] /\ step'[u] = step[u]
  BY <1>0, <1>1, Names DEF BusType
<1>3. BusType'
  <2>1. op' \in [Threads -> DOMAIN Program \cup {"none"}]  BY <1>0, <1>1 DEF BusType
  <2>2. ASSUME NEW u \in Threads
        PROVE  IF op'[u] = "none" THEN step'[u] = 1 ELSE step'[u] \in DOMAIN Program[op'[u]]
    <3>1. CASE u = t
      BY <1>2, <3>1, Steps
    <3>2. CASE u # t
      BY <1>0, <1>2, <3>2 DEF BusType
    <3> QED BY <3>1, <3>2
  <2>3. /\ sel' \in [Expanders -> SUBSET (0 .. 7)]
        /\ pointed' \in [Threads -> SUBSET (Devices \X (0 .. 255))]
        /\ step' \in [Threads -> Nat]
        /\ owner' \in [Expanders -> Threads \cup {"none"}]
    BY <1>0, <1>1 DEF BusType
  <2> QED BY <2>1, <2>2, <2>3 DEF BusType
<1>4. SelInv'
  <2> SUFFICES ASSUME NEW u \in Threads \ {"console"}, NEW pe \in Expanders
               PROVE  Fits(op'[u], step'[u], pe, sel[pe])
    BY <1>1 DEF SelInv
  <2>1. CASE u = t
    BY <1>2, <2>1, BeforeFirst DEF Fits
  <2>2. CASE u # t
    BY <1>0, <1>2, <2>2 DEF SelInv
  <2> QED BY <2>1, <2>2
<1>5. OwnerInv'
  <2>1. ASSUME NEW u \in Threads, NEW pe \in Expanders, owner[pe] = u
        PROVE  Own(op'[u], step'[u], pe, sel[pe])
    <3>1. CASE u = t
      BY <1>2, <3>1, BeforeFirst DEF Own
    <3>2. CASE u # t
      BY <1>0, <1>2, <2>1, <3>2 DEF OwnerInv
    <3> QED BY <3>1, <3>2
  <2> QED BY <1>1, <2>1 DEF OwnerInv
<1>6. RestInv'
  <2> SUFFICES ASSUME owner[0] = "brdstats"
               PROVE  Rests(op'["brdstats"], step'["brdstats"], sel[0])
    BY <1>1 DEF RestInv
  <2>1. Rests(op["brdstats"], step["brdstats"], sel[0])  BY <1>0 DEF RestInv
  <2>2. CASE t = "brdstats"
    BY <1>1, <2>1, <2>2 DEF Rests, AtRest
  <2>3. CASE t # "brdstats"
    BY <1>2, <2>1, <2>3, BoardAssumption
  <2> QED BY <2>2, <2>3
<1>7. PointInv'
  <2> SUFFICES ASSUME NEW u \in Threads \ {"console"}
               PROVE  Ready(op'[u], step'[u], sel, pointed[u])
    BY <1>1 DEF PointInv
  <2>1. CASE u = t
    <3>1. name \in DOMAIN Beside  BY <2>1
    <3>2. 1 \in DOMAIN Program[name] /\ 1 - 1 \notin DOMAIN Program[name]
      <4>1. DOMAIN Program[name] = 1 .. Len(Program[name]) /\ 1 \in DOMAIN Program[name]  BY Steps
      <4> QED BY <4>1
    <3>3. \A s, p : Ready(name, 1, s, p)  BY <3>1, <3>2, ReadyFree
    <3> QED BY <1>2, <2>1, <3>3
  <2>2. CASE u # t
    BY <1>0, <1>2, <2>2 DEF PointInv
  <2> QED BY <2>1, <2>2
<1> QED BY <1>3, <1>4, <1>5, <1>6, <1>7 DEF BusInv

LEMMA QuietStep ==
  ASSUME BusInv, UNCHANGED busVars, RoleInv'
  PROVE  BusInv'
BY DEF BusInv, BusType, SelInv, OwnerInv, RestInv, PointInv, busVars

LEMMA RestartStep ==
  ASSUME BusInv, Restart, \/ UNCHANGED <<sel, owner>> /\ Doing("brdstats", "pause")
                          \/ /\ sel' = [pe \in Expanders |-> {}]
                             /\ owner' = [pe \in Expanders |-> "none"]
  PROVE  BusInv'
<1>0. BusType /\ OwnerInv /\ RestInv  BY DEF BusInv
<1>1. /\ op' = [t \in Threads |-> "none"] /\ step' = [t \in Threads |-> 1]
      /\ pointed' = [t \in Threads |-> {}] /\ phase' = "reset"
  BY DEF Restart
<1>2. \A t \in Threads : op'[t] = "none" /\ step'[t] = 1  BY <1>1
<1>3. BusType'
  <2>1. sel' \in [Expanders -> SUBSET (0 .. 7)] /\ owner' \in [Expanders -> Threads \cup {"none"}]
    BY <1>0 DEF BusType
  <2> QED BY <1>1, <1>2, <2>1 DEF BusType
<1>4. RoleInv'  BY <1>1, <1>2, BoardAssumption DEF RoleInv, Idle
<1>5. SelInv'  BY <1>2 DEF SelInv, Fits
<1>6. OwnerInv'  BY <1>2 DEF OwnerInv, Own
<1>7. RestInv'
  <2>1. CASE UNCHANGED <<sel, owner>> /\ Doing("brdstats", "pause")
    <3>1. owner[0] = "brdstats" => sel[0] = {}
      BY <1>0, <2>1 DEF RestInv, Rests, AtRest, Doing, Current
    <3> QED BY <2>1, <3>1 DEF RestInv, Rests
  <2>2. CASE sel' = [pe \in Expanders |-> {}] /\ owner' = [pe \in Expanders |-> "none"]
    BY <2>2 DEF RestInv, Expanders
  <2> QED BY <2>1, <2>2
<1>8. PointInv'  BY <1>2 DEF PointInv, Ready
<1> QED BY <1>3, <1>4, <1>5, <1>6, <1>7, <1>8 DEF BusInv

LEMMA BusStepKeeps ==
  ASSUME BusInv, NEW t \in Threads, BusStep(t)
  PROVE  BusInv'
<1>1. Runs(t) /\ phase' = phase  BY DEF BusStep
<1>2. CASE i2c_set_port_expander(t)
  BY <1>1, <1>2, ExpandStep
<1>3. CASE i2c_write(t)
  BY <1>1, <1>3, WriteStep
<1>4. CASE Resume(t)
  BY <1>1, <1>4, ResumeStep
<1>5. CASE Doing(t, "read") /\ \E got \in Answers(Current(t).addr) : i2c_read(t, got)
  BY <1>1, <1>5, ReadStep
<1> QED BY <1>2, <1>3, <1>4, <1>5 DEF BusStep

\* A phase of the main thread that does not touch the bus.
LEMMA PhaseStep ==
  ASSUME BusInv, NEW from, NEW to, Phase(from, to), UNCHANGED busVars, from # "serving"
  PROVE  BusInv'
<1>1. RoleInv'  BY DEF BusInv, RoleInv, Phase, Idle, busVars
<1> QED BY <1>1, QuietStep

\* The main thread starts a sequence of its own.
LEMMA BootStep ==
  ASSUME BusInv, NEW name \in Boot, Begin("main", name), phase # "serving", phase' # "serving"
  PROVE  BusInv'
<1>0. BusType /\ RoleInv  BY DEF BusInv
<1>1. "main" \in Threads /\ name \in DOMAIN Program /\ name \in DOMAIN Beside
  BY BoardAssumption, Names DEF Boot
<1>2. /\ op' = [op EXCEPT !["main"] = name]
      /\ op \in [Threads -> DOMAIN Program \cup {"none"}]
  BY <1>0 DEF Begin, BusType
<1>3. op'["main"] = name /\ \A u \in Threads \ {"main"} : op'[u] = op[u]  BY <1>1, <1>2
<1>4. RoleInv'  BY <1>0, <1>3, BoardAssumption DEF RoleInv, Idle
<1> QED BY <1>1, <1>4, BeginStep

LEMMA ServeStep ==
  ASSUME BusInv, NEW t \in Threads, NEW name, Serve(t, name),
         \/ t \in Handlers /\ name = "update"
         \/ t = "brdstats" /\ name = "brdstats"
         \/ t = "console" /\ name \in MenuEntries
  PROVE  BusInv'
<1>0. BusType /\ RoleInv  BY DEF BusInv
<1>1. name \in DOMAIN Program /\ (t # "console" => name \in DOMAIN Beside)
  BY BoardAssumption, Names DEF MenuEntries
<1>2. /\ op' = [op EXCEPT ![t] = name] /\ phase' = "serving" /\ phase = "serving"
      /\ op \in [Threads -> DOMAIN Program \cup {"none"}] /\ Begin(t, name)
  BY <1>0 DEF Serve, Begin, BusType
<1>3. op'[t] = name /\ \A u \in Threads \ {t} : op'[u] = op[u]  BY <1>2
<1>4. RoleInv'
  <2>1. {"main", "brdstats", "console"} \cup Handlers \subseteq Threads  BY BoardAssumption
  <2>2. t # "main"  BY BoardAssumption
  <2>3. op'["main"] = op["main"]  BY <1>3, <2>1, <2>2
  <2>4. op'["brdstats"] \in {"brdstats", "none"}
    <3>1. t = "brdstats" => name = "brdstats"  BY BoardAssumption
    <3> QED BY <1>0, <1>3, <2>1, <3>1 DEF RoleInv
  <2>5. op'["console"] \in MenuEntries \cup {"none"}
    <3>1. t = "console" => name \in MenuEntries  BY BoardAssumption
    <3> QED BY <1>0, <1>3, <2>1, <3>1 DEF RoleInv
  <2>6. \A h \in Handlers : op'[h] \in {"update", "none"}
    <3>1. t \in Handlers => name = "update"  BY BoardAssumption
    <3> QED BY <1>0, <1>3, <2>1, <3>1 DEF RoleInv
  <2> QED BY <1>0, <1>2, <2>3, <2>4, <2>5, <2>6 DEF RoleInv, Idle
<1> QED BY <1>1, <1>2, <1>4, BeginStep

LEMMA BusInitially == Init => BusInv
<1> SUFFICES ASSUME Init PROVE BusInv  OBVIOUS
<1>1. /\ op = [t \in Threads |-> "none"] /\ step = [t \in Threads |-> 1]
      /\ pointed = [t \in Threads |-> {}] /\ phase = "reset"
      /\ sel = [pe \in Expanders |-> {}] /\ owner = [pe \in Expanders |-> "none"]
  BY DEF Init, BusInit
<1>2. \A t \in Threads : op[t] = "none" /\ step[t] = 1  BY <1>1
<1>3. BusType  BY <1>1, <1>2 DEF BusType
<1>4. RoleInv  BY <1>1, <1>2, BoardAssumption DEF RoleInv, Idle
<1>5. SelInv  BY <1>2 DEF SelInv, Fits
<1>6. OwnerInv  BY <1>1, <1>2 DEF OwnerInv, Own
<1>7. RestInv  BY <1>1 DEF RestInv, Expanders
<1>8. PointInv  BY <1>2 DEF PointInv, Ready
<1> QED BY <1>3, <1>4, <1>5, <1>6, <1>7, <1>8 DEF BusInv

LEMMA BusKept ==
  ASSUME BusInv, [Next]_vars
  PROVE  BusInv'
<1>1. CASE UNCHANGED vars
  <2>1. RoleInv'  BY <1>1 DEF BusInv, RoleInv, vars, busVars, Idle
  <2> QED BY <1>1, <2>1, QuietStep DEF vars
<1>2. CASE Main
  BY <1>2, BootStep DEF Main, Boot
<1>3. CASE TryPart
  BY <1>3, PhaseStep DEF TryPart
<1>4. CASE ConfigDone
  BY <1>4, PhaseStep DEF ConfigDone
<1>5. CASE ReadLine
  <2>1. CASE phase = "config" /\ phase' = "mac" /\ \E name \in Boot : Begin("main", name)
    BY <2>1, BootStep
  <2>2. CASE Phase("config", "config") /\ UNCHANGED busVars
    BY <2>2, PhaseStep
  <2> QED BY <1>5, <2>1, <2>2 DEF ReadLine, Boot
<1>6. CASE HwAddr
  BY <1>6, PhaseStep DEF HwAddr
<1>7. CASE SyncNew
  BY <1>7, PhaseStep DEF SyncNew
<1>8. CASE SyncDat
  BY <1>8, PhaseStep DEF SyncDat
<1>9. CASE NetSetup \/ PscRun \/ PscRunReturns
  BY <1>9, PhaseStep DEF NetSetup, PscRun, PscRunReturns
<1>10. ASSUME NEW t \in Threads, BusStep(t) PROVE BusInv'
  BY <1>10, BusStepKeeps
<1>11. ASSUME NEW h \in Handlers, Update(h) PROVE BusInv'
  BY <1>11, ServeStep, BoardAssumption DEF Update
<1>12. CASE BrdStats
  BY <1>12, ServeStep, BoardAssumption DEF BrdStats
<1>13. CASE Menu
  BY <1>13, ServeStep, BoardAssumption DEF Menu
<1>14. CASE Reboot
  BY <1>14, RestartStep DEF Reboot, Runs
<1>15. CASE PowerLoss
  BY <1>15, RestartStep DEF PowerLoss
<1>16. "main" \in Threads  BY BoardAssumption
<1> QED BY <1>1, <1>2, <1>3, <1>4, <1>5, <1>6, <1>7, <1>8, <1>9, <1>10, <1>11, <1>12, <1>13,
           <1>14, <1>15, <1>16 DEF Next, MainThread

-----------------------------------------------------------------------------
(* The devices that are reached.                                           *)

LEMMA BusHolds == Spec => []BusInv
<1>1. BusInv /\ [Next]_vars => BusInv'  BY BusKept
<1> QED BY <1>1, BusInitially, PTL DEF Spec

\* Whatever the other threads do between two transfers of a thread that is not the
\* console, and whichever devices do not answer, behind PORTEXP1 it reaches the
\* device it means or none; and what it reads there is of the register it named,
\* unless the device may leave a write unanswered and its driver does not look.  So
\* does the boot behind either expander.
THEOREM NeverOthersDevice == Spec => []NeverAnothers
<1>1. BusInv => NeverAnothers
  <2> SUFFICES ASSUME BusInv, NEW t \in Threads \ {"console"}, Transferring(t),
                      NEW n, n = op[t], NEW k, k = step[t], NEW i, i = Program[n][k],
                      i.dev[1] = 1 \/ t = "main"
               PROVE  /\ Answering(i.addr) \subseteq {i.dev}
                      /\ i.op = "read" /\ i.reg # NoReg /\ Answering(i.addr) # {} /\ i # Mislabelled
                           /\ (i.dev \in Flaky => i.dev \in StatusChecked)
                         => <<i.dev, i.reg>> \in pointed[t]
    BY DEF NeverAnothers, Current
  <2>0. BusType /\ RoleInv /\ SelInv /\ PointInv /\ Current(t) = i /\ n # "none"
    BY DEF BusInv, Current, Transferring, Idle
  <2>1. Undisturbed(n, i)
    <3>1. t = "main" => n \in Boot  BY <2>0 DEF RoleInv
    <3> QED BY <3>1, Names DEF Undisturbed, Boot
  <2>2. Answering(i.addr) \subseteq {i.dev}  BY <2>0, <2>1, OneAnswers
  <2>3. ASSUME i.op = "read", i.reg # NoReg, Answering(i.addr) # {}, i # Mislabelled,
               i.dev \in Flaky => i.dev \in StatusChecked
        PROVE  <<i.dev, i.reg>> \in pointed[t]
    <3>1. Named(i) /\ Sure(n, i)  BY <2>1, <2>3 DEF Named, Sure
    <3>2. i.dev \in Answering(i.addr)  BY <2>2, <2>3
    <3>3. i.dev \in Fitted /\ i.dev[2] \in sel[i.dev[1]]  BY <3>2 DEF Answering
    <3>4. Ready(n, k, sel, pointed[t])  BY <2>0 DEF PointInv
    <3> QED BY <2>0, <3>1, <3>3, <3>4 DEF Ready
  <2> QED BY <2>2, <2>3
<1> QED BY <1>1, BusHolds, PTL

\* A thread that was the last to set the expander before its device reaches the
\* device, and it alone, whatever was left connected, by whom and in which life of
\* the board; the console if the statistics thread set PORTEXP0 last.
THEOREM OwnDevice == Spec => []RightDevice
<1>1. BusInv => RightDevice
  <2> SUFFICES ASSUME BusInv, NEW t \in Threads, Transferring(t), Runs(t),
                      NEW n, n = op[t], NEW k, k = step[t], NEW i, i = Program[n][k],
                      owner[i.dev[1]] = t, t = "console" => owner[0] = "brdstats"
               PROVE  Answering(i.addr) = {i.dev} \cap Fitted
    BY DEF RightDevice, Current
  <2>0. BusType /\ RoleInv /\ SelInv /\ OwnerInv /\ RestInv  BY DEF BusInv
  <2>1. /\ n \in DOMAIN Program /\ k \in DOMAIN Program[n] /\ n # "none" /\ ~Idle(t)
        /\ Transfer(i) /\ Current(t) = i /\ i.op # "pause"
    BY <2>0, Busy DEF Transferring, Transfer, Idle, Current
  <2>2. i.dev[1] \in Expanders /\ i.addr = i.dev[3]
    <3>1. WellFormed(n, k)  BY <2>1, Steps
    <3> QED BY <2>1, <3>1 DEF WellFormed
  <2>3. Chosen(n, k, i.dev[1]) = {i.dev[2]} /\ sel[i.dev[1]] = {i.dev[2]}
    <3>1. Selected(n, k)  BY <2>1, Steps
    <3>2. Before(n, k, i.dev[1]) # {} /\ Chosen(n, k, i.dev[1]) = {i.dev[2]}
      BY <2>1, <3>1 DEF Selected
    <3>3. Own(n, k, i.dev[1], sel[i.dev[1]])  BY <2>0, <2>2 DEF OwnerInv
    <3> QED BY <2>1, <3>2, <3>3 DEF Own
  <2>4. i.dev \in Fitted => i.dev \in Answering(i.addr)  BY <2>2, <2>3 DEF Answering
  <2>5. SUFFICES ASSUME NEW e \in Devices \ {i.dev}, e[3] = i.addr, e[2] \in sel[e[1]]
                 PROVE  FALSE
    BY <2>4, BusAssumption DEF Answering
\* Behind the expander that t has set only its own channel is connected; behind the
\* other one, what t chose there or what the threads beside it select.
  <2>6. CASE t # "console"
    <3>1. n \in DOMAIN Beside  BY <2>0, <2>1, <2>6, Busy
    <3>2. Alone(n, k)  BY <2>1, <3>1, SequencesRight
    <3>3. /\ e[1] \in Expanders /\ Before(n, k, e[1]) # {} /\ e[2] \notin Chosen(n, k, e[1])
          /\ e[1] = 1 \/ i.dev[1] = 1 => e[2] \notin Others(n, e[1])
      BY <2>1, <2>5, <3>2 DEF Alone
    <3>4. e[1] # i.dev[1]  BY <2>3, <2>5, <3>3
    <3>5. e[2] \notin Others(n, e[1])  BY <2>2, <3>3, <3>4 DEF Expanders
    <3>6. Fits(n, k, e[1], sel[e[1]])  BY <2>0, <2>6, <3>3 DEF SelInv
    <3>7. sel[e[1]] \subseteq Chosen(n, k, e[1]) \cup Others(n, e[1])
      BY <2>1, <3>3, <3>6 DEF Fits
    <3> QED BY <2>5, <3>3, <3>5, <3>7
  <2>7. CASE t = "console"
    <3>1. n \in DOMAIN Program \ DOMAIN Beside
      <4>1. n \in MenuEntries  BY <2>0, <2>1, <2>7, Busy
      <4> QED BY <2>1, <4>1, Names DEF MenuEntries
    <3>2. AloneUnder(n, k)  BY <2>1, <3>1, SequencesRight
    <3>3. e[1] = 0  BY <2>1, <2>5, <3>2 DEF AloneUnder
    <3>4. Doing("brdstats", "pause")  BY <2>7 DEF Runs
    <3>5. AtRest(op["brdstats"], step["brdstats"])  BY <3>4 DEF AtRest, Doing, Current
    <3>6. sel[0] = {}  BY <2>0, <2>7, <3>5 DEF RestInv, Rests
    <3> QED BY <2>5, <3>3, <3>6
  <2> QED BY <2>6, <2>7
<1> QED BY <1>1, BusHolds, PTL

-----------------------------------------------------------------------------
(* The lines of NET.CNF.                                                   *)

LEMMA NoLines == \A P, Q : ~LastOf(<<>>, P, Q)
BY DEF LastOf

LEMMA OneMore ==
  ASSUME NEW s \in Seq(Lines), NEW l \in Lines, NEW P, NEW Q
  PROVE  LastOf(Append(s, l), P, Q) <=> l \in P \/ (l \notin Q /\ LastOf(s, P, Q))
<1>1. PICK t, m : t = Append(s, l) /\ m = Len(s)  OBVIOUS
<1>2. /\ m \in Nat /\ Len(t) = m + 1 /\ DOMAIN s = 1 .. m /\ DOMAIN t = 1 .. m + 1
      /\ t[m + 1] = l /\ \A i \in 1 .. m : t[i] = s[i]
  BY <1>1
<1>3. ASSUME l \in P PROVE LastOf(t, P, Q)
  <2>1. m + 1 \in DOMAIN t /\ \A j \in (m + 1) + 1 .. Len(t) : FALSE  BY <1>2
  <2> QED BY <1>2, <1>3, <2>1 DEF LastOf
<1>4. ASSUME l \notin Q, LastOf(s, P, Q) PROVE LastOf(t, P, Q)
  <2>1. PICK i \in 1 .. m : s[i] \in P /\ \A j \in i + 1 .. m : s[j] \notin Q
    BY <1>1, <1>2, <1>4 DEF LastOf
  <2>2. i \in DOMAIN t /\ t[i] \in P  BY <1>2, <2>1
  <2>3. ASSUME NEW j \in i + 1 .. Len(t) PROVE t[j] \notin Q
    <3>1. j = m + 1 \/ (j \in i + 1 .. m /\ j \in 1 .. m)  BY <1>2
    <3> QED BY <1>2, <1>4, <2>1, <3>1
  <2> QED BY <2>2, <2>3 DEF LastOf
<1>5. ASSUME LastOf(t, P, Q) PROVE l \in P \/ (l \notin Q /\ LastOf(s, P, Q))
  <2>1. PICK i \in 1 .. m + 1 : t[i] \in P /\ \A j \in i + 1 .. m + 1 : t[j] \notin Q
    BY <1>2, <1>5 DEF LastOf
  <2>2. CASE i = m + 1
    BY <1>2, <2>1, <2>2
  <2>3. CASE i # m + 1
    <3>1. i \in 1 .. m /\ m + 1 \in i + 1 .. m + 1  BY <1>2, <2>3
    <3>2. l \notin Q  BY <1>2, <2>1, <3>1
    <3>3. ASSUME NEW j \in i + 1 .. m PROVE s[j] \notin Q
      <4>1. j \in 1 .. m /\ j \in i + 1 .. m + 1  BY <1>2
      <4> QED BY <1>2, <2>1, <4>1
    <3>4. i \in DOMAIN s /\ s[i] \in P  BY <1>2, <2>1, <3>1
    <3>5. LastOf(s, P, Q)  BY <1>1, <3>3, <3>4 DEF LastOf
    <3> QED BY <3>2, <3>5
  <2> QED BY <2>2, <2>3
<1> QED BY <1>1, <1>3, <1>4, <1>5

LEMMA LastDecides ==
  ASSUME NEW s \in Seq(Lines), s # <<>>, NEW P, NEW Q, s[Len(s)] \in Q
  PROVE  LastOf(s, P, Q) <=> s[Len(s)] \in P
<1>1. PICK m : m = Len(s)  OBVIOUS
<1>2. m \in Nat /\ m >= 1 /\ DOMAIN s = 1 .. m  BY <1>1
<1>3. ASSUME s[m] \in P PROVE LastOf(s, P, Q)
  <2>1. m \in DOMAIN s /\ \A j \in m + 1 .. Len(s) : FALSE  BY <1>1, <1>2
  <2> QED BY <1>3, <2>1 DEF LastOf
<1>4. ASSUME LastOf(s, P, Q) PROVE s[m] \in P
  <2>1. PICK i \in 1 .. m : s[i] \in P /\ \A j \in i + 1 .. m : s[j] \notin Q
    BY <1>1, <1>2, <1>4 DEF LastOf
  <2>2. ~(m \in i + 1 .. m)  BY <1>1, <2>1
  <2>3. i = m  BY <1>2, <2>1, <2>2
  <2> QED BY <2>1, <2>3
<1> QED BY <1>1, <1>3, <1>4

LEMMA LineIs ==
  ASSUME NEW l \in Lines
  PROVE  /\ l.cmd \in {"dhcp", "addr", "mask", "gw", "hwaddr", "unknown"}
         /\ l.cmd = "dhcp" => l.arg \in {"none", "yes", "no", "odd"}
         /\ l.cmd \in {"addr", "mask", "gw"} => l.arg \in {"none", "bad", "A", "B"}
         /\ l.cmd = "hwaddr" => l.arg \in {"none", "eeprom", "bad", "given"}
BY DEF Lines

\* What a line sets, field by field.
LEMMA ParsedIs ==
  ASSUME CardType, NEW l \in Lines
  PROVE  /\ Parsed(l) \in [addr : Addrs, mask : Addrs, gw : Addrs, use_static : BOOLEAN,
                           hwaddr : {"zero", "eeprom", "given"}]
         /\ Parsed(l).addr = IF l.cmd = "addr" /\ l.arg \in {"A", "B"} THEN l.arg ELSE conf.addr
         /\ Parsed(l).mask = IF l.cmd = "mask" /\ l.arg \in {"A", "B"} THEN l.arg ELSE conf.mask
         /\ Parsed(l).gw   = IF l.cmd = "gw"   /\ l.arg \in {"A", "B"} THEN l.arg ELSE conf.gw
         /\ Parsed(l).hwaddr = conf.hwaddr
         /\ Parsed(l).use_static <=> l \in Static \/ (l \notin Dynamic /\ conf.use_static)
         /\ l.cmd = "hwaddr" => Parsed(l) = conf
<1>0. conf \in [addr : Addrs, mask : Addrs, gw : Addrs, use_static : BOOLEAN,
                hwaddr : {"zero", "eeprom", "given"}]
  BY DEF CardType
<1>1. CASE l.cmd = "dhcp"
  <2>1. Parsed(l) = IF l.arg = "odd" THEN conf ELSE [conf EXCEPT !.use_static = (l.arg = "no")]
    BY <1>1 DEF Parsed
  <2>2. l.arg \in {"none", "yes", "no", "odd"}  BY <1>1, LineIs
  <2>3. CASE l.arg = "odd"
    BY <1>0, <1>1, <2>1, <2>3 DEF Static, Dynamic
  <2>4. CASE l.arg = "no"
    BY <1>0, <1>1, <2>1, <2>4 DEF Static, Dynamic
  <2>5. CASE l.arg \in {"none", "yes"}
    BY <1>0, <1>1, <2>1, <2>5 DEF Static, Dynamic
  <2> QED BY <2>2, <2>3, <2>4, <2>5
<1>2. CASE l.cmd = "addr"
  <2>1. Parsed(l) = [(IF l.arg \in Addrs THEN [conf EXCEPT !.addr = l.arg] ELSE conf) EXCEPT !.use_static = TRUE]
    BY <1>2 DEF Parsed, ParseInet
  <2>2. l.arg \in {"none", "bad", "A", "B"}  BY <1>2, LineIs
  <2>3. CASE l.arg \in {"A", "B"}
    BY <1>0, <1>2, <2>1, <2>3 DEF Static, Dynamic, Addrs
  <2>4. CASE l.arg \in {"none", "bad"}
    BY <1>0, <1>2, <2>1, <2>4 DEF Static, Dynamic, Addrs
  <2> QED BY <2>2, <2>3, <2>4
<1>3. CASE l.cmd = "mask"
  <2>1. Parsed(l) = IF l.arg \in Addrs THEN [conf EXCEPT !.mask = l.arg] ELSE conf
    BY <1>3 DEF Parsed, ParseInet
  <2>2. l.arg \in {"none", "bad", "A", "B"}  BY <1>3, LineIs
  <2> QED BY <1>0, <1>3, <2>1, <2>2 DEF Static, Dynamic, Addrs
<1>4. CASE l.cmd = "gw"
  <2>1. Parsed(l) = IF l.arg \in Addrs THEN [conf EXCEPT !.gw = l.arg] ELSE conf
    BY <1>4 DEF Parsed, ParseInet
  <2>2. l.arg \in {"none", "bad", "A", "B"}  BY <1>4, LineIs
  <2> QED BY <1>0, <1>4, <2>1, <2>2 DEF Static, Dynamic, Addrs
<1>5. CASE l.cmd \in {"hwaddr", "unknown"}
  <2>1. Parsed(l) = conf  BY <1>5 DEF Parsed
  <2> QED BY <1>0, <1>5, <2>1 DEF Static, Dynamic
<1> QED BY <1>1, <1>2, <1>3, <1>4, <1>5, LineIs

\* A read while a line is executed gives a hardware address; nothing else a thread
\* does on the bus reaches the settings.
LEMMA BusStepCard ==
  ASSUME NEW t \in Threads, BusStep(t)
  PROVE  /\ UNCHANGED <<phase, part, lines, new, dat, failed>>
         /\ \/ conf' = conf
            \/ phase = "mac" /\ conf' = [conf EXCEPT !.hwaddr = "eeprom"]
BY DEF BusStep

LEMMA CardTypeKept ==
  ASSUME CardType, [Next]_vars
  PROVE  CardType'
<1>0. /\ phase \in Phases /\ part \in {0, 1} /\ failed \in BOOLEAN
      /\ conf \in [addr : Addrs, mask : Addrs, gw : Addrs, use_static : BOOLEAN,
                   hwaddr : {"zero", "eeprom", "given"}]
      /\ lines \in Seq(Lines) /\ Len(lines) <= MaxLines
      /\ new \in NewFile /\ dat \in DatFile
  BY DEF CardType
<1>1. CASE UNCHANGED vars
  BY <1>0, <1>1 DEF CardType, vars, cardVars
<1>2. CASE Main
  BY <1>0, <1>2 DEF CardType, Main, cardVars, Phases
<1>3. CASE TryPart
  <2>1. /\ phase' \in Phases /\ part' \in {0, 1} /\ failed' \in BOOLEAN
        /\ new' \in NewFile /\ dat' \in DatFile
    BY <1>0, <1>3 DEF TryPart, Phase, Phases, cardVars
  <2>2. conf' = conf /\ lines' = lines  BY <1>3 DEF TryPart
  <2> QED BY <1>0, <2>1, <2>2 DEF CardType
<1>4. CASE ConfigDone
  BY <1>0, <1>4 DEF CardType, ConfigDone, Phase, Phases, cardVars
<1>5. CASE ReadLine
  <2>1. PICK l \in Lines : lines' = Append(lines, l) /\ conf' = Parsed(l)
    BY <1>5 DEF ReadLine
  <2>2. lines' \in Seq(Lines) /\ Len(lines') = Len(lines) + 1  BY <1>0, <2>1
  <2>3. Len(lines') <= MaxLines
    <3>1. Len(lines) \in Nat /\ MaxLines \in Nat /\ Len(lines) < MaxLines
      BY <1>0, <1>5, BoardAssumption DEF ReadLine
    <3> QED BY <2>2, <3>1
  <2>4. phase' \in Phases  BY <1>5 DEF ReadLine, Phase, Phases
  <2>5. part' = part /\ new' = new /\ dat' = dat /\ failed' = failed  BY <1>5 DEF ReadLine
  <2>6. conf' \in [addr : Addrs, mask : Addrs, gw : Addrs, use_static : BOOLEAN,
                   hwaddr : {"zero", "eeprom", "given"}]
    BY <2>1, ParsedIs
  <2> QED BY <1>0, <2>2, <2>3, <2>4, <2>5, <2>6 DEF CardType
<1>6. CASE HwAddr
  <2>1. conf' \in [addr : Addrs, mask : Addrs, gw : Addrs, use_static : BOOLEAN,
                   hwaddr : {"zero", "eeprom", "given"}]
    BY <1>0, <1>6 DEF HwAddr
  <2>2. /\ phase' \in Phases
        /\ part' = part /\ lines' = lines /\ new' = new /\ dat' = dat /\ failed' = failed
    BY <1>6 DEF HwAddr, Phase, Phases
  <2> QED BY <1>0, <2>1, <2>2 DEF CardType
<1>7. CASE SyncNew
  <2>1. /\ phase' \in Phases /\ new' \in NewFile /\ failed' \in BOOLEAN
        /\ part' = part /\ conf' = conf /\ lines' = lines /\ dat' = dat
    BY <1>0, <1>7 DEF SyncNew, Phase, Phases, NewFile
  <2> QED BY <1>0, <2>1 DEF CardType
<1>8. CASE SyncDat
  <2>1. /\ phase' \in Phases /\ dat' \in DatFile /\ failed' \in BOOLEAN
        /\ part' = part /\ conf' = conf /\ lines' = lines /\ new' = new
    BY <1>0, <1>8 DEF SyncDat, Phase, Phases, DatFile
  <2> QED BY <1>0, <2>1 DEF CardType
<1>9. ASSUME /\ part' = 0 /\ conf' = NoConf /\ lines' = <<>> /\ failed' = FALSE
             /\ new' = "absent" /\ dat' = "absent" /\ phase' \in Phases
      PROVE  CardType'
  <2>1. NoConf \in [addr : Addrs, mask : Addrs, gw : Addrs, use_static : BOOLEAN,
                    hwaddr : {"zero", "eeprom", "given"}]
    BY DEF NoConf, Addrs
  <2>2. lines' \in Seq(Lines) /\ Len(lines') <= MaxLines  BY <1>9, BoardAssumption
  <2> QED BY <1>9, <2>1, <2>2 DEF CardType, NewFile, DatFile
<1>10. CASE NetSetup \/ PscRun \/ PscRunReturns
  <2>1. CASE NetSetup
    BY <1>9, <2>1 DEF NetSetup, Phase, Phases
  <2>2. CASE PscRun \/ PscRunReturns
    BY <1>0, <2>2 DEF CardType, PscRun, PscRunReturns, Phase, Phases, cardVars
  <2> QED BY <1>10, <2>1, <2>2
<1>11. ASSUME NEW t \in Threads, BusStep(t) PROVE CardType'
  <2>1. conf' \in [addr : Addrs, mask : Addrs, gw : Addrs, use_static : BOOLEAN,
                   hwaddr : {"zero", "eeprom", "given"}]
    BY <1>0, <1>11, BusStepCard
  <2> QED BY <1>0, <1>11, <2>1, BusStepCard DEF CardType
<1>12. ASSUME UNCHANGED <<phase, cardVars>> PROVE CardType'
  BY <1>0, <1>12 DEF CardType, cardVars
<1>13. ASSUME NEW h \in Handlers, Update(h) PROVE CardType'
  BY <1>12, <1>13 DEF Update, Serve
<1>14. CASE BrdStats
  BY <1>12, <1>14 DEF BrdStats, Serve
<1>15. CASE Menu
  BY <1>12, <1>15 DEF Menu, Serve
<1>16. CASE Reboot \/ PowerLoss
  BY <1>9, <1>16 DEF Reboot, PowerLoss, Restart, Phases
<1>17. "main" \in Threads  BY BoardAssumption
<1> QED BY <1>1, <1>2, <1>3, <1>4, <1>5, <1>6, <1>7, <1>8, <1>10, <1>11, <1>13, <1>14, <1>15,
           <1>16, <1>17 DEF Next, MainThread

\* Every variable keeps its type: no thread runs past the end of its sequence, and
\* the settings are made of whole values.
THEOREM TypeCorrect == Spec => []TypeOK
<1>1. Init => BusInv /\ CardType
  <2> SUFFICES ASSUME Init PROVE CardType  BY BusInitially
  <2>1. /\ part = 0 /\ conf = NoConf /\ lines = <<>> /\ failed = FALSE
        /\ new = "absent" /\ dat = "absent" /\ phase = "reset"
    BY DEF Init, CardInit
  <2>2. lines \in Seq(Lines) /\ Len(lines) <= MaxLines  BY <2>1, BoardAssumption
  <2> QED BY <2>1, <2>2 DEF CardType, NoConf, Addrs, NewFile, DatFile, Phases
<1>2. BusInv /\ CardType /\ [Next]_vars => (BusInv /\ CardType)'
  BY BusKept, CardTypeKept
<1>3. BusInv /\ CardType => TypeOK
  <2> SUFFICES ASSUME BusType, CardType PROVE TypeOK  BY DEF BusInv
  <2>1. ASSUME NEW t \in Threads
        PROVE  step[t] \in 1 .. IF op[t] = "none" THEN 1 ELSE Len(Program[op[t]])
    <3>1. CASE op[t] = "none"
      <4>1. step[t] = 1  BY <3>1 DEF BusType
      <4> QED BY <3>1, <4>1
    <3>2. CASE op[t] # "none"
      <4>1. op[t] \in DOMAIN Program /\ step[t] \in DOMAIN Program[op[t]]  BY <3>2 DEF BusType
      <4>2. DOMAIN Program[op[t]] = 1 .. Len(Program[op[t]])  BY <4>1, Steps
      <4> QED BY <3>2, <4>1, <4>2
    <3> QED BY <3>1, <3>2
  <2>2. BusTypeOK  BY <2>1 DEF BusType, BusTypeOK
  <2> QED BY <2>2 DEF CardType, TypeOK
<1> QED BY <1>1, <1>2, <1>3, PTL DEF Spec

-----------------------------------------------------------------------------
(* The settings of the card.                                               *)

\* The settings follow the lines: nothing but a line changes either.
LEMMA SettingsKept ==
  ASSUME CardType, AddrInv, StaticInv, [Next]_vars
  PROVE  AddrInv' /\ StaticInv'
<1>0. /\ conf \in [addr : Addrs, mask : Addrs, gw : Addrs, use_static : BOOLEAN,
                   hwaddr : {"zero", "eeprom", "given"}]
      /\ lines \in Seq(Lines)
  BY DEF CardType
<1>1. ASSUME lines' = lines, conf'.addr = conf.addr, conf'.mask = conf.mask, conf'.gw = conf.gw,
             conf'.use_static = conf.use_static
      PROVE  AddrInv' /\ StaticInv'
  BY <1>1 DEF AddrInv, StaticInv
<1>2. ASSUME conf' = NoConf, lines' = <<>> PROVE AddrInv' /\ StaticInv'
  BY <1>2, NoLines DEF AddrInv, StaticInv, NoConf
<1>3. ASSUME NEW l \in Lines, lines' = Append(lines, l), conf' = Parsed(l)
      PROVE  AddrInv' /\ StaticInv'
  <2>1. ASSUME NEW field \in {"addr", "mask", "gw"}, NEW a \in {"A", "B"}
        PROVE  conf'[field] = a
                 <=> LastOf(lines', Addressing(field, {a}), Addressing(field, {"A", "B"}))
    <3>1. PICK P, Q : P = Addressing(field, {a}) /\ Q = Addressing(field, {"A", "B"})  OBVIOUS
    <3>2. LastOf(lines', P, Q) <=> l \in P \/ (l \notin Q /\ LastOf(lines, P, Q))
      BY <1>0, <1>3, OneMore
    <3>3. conf[field] = a <=> LastOf(lines, P, Q)  BY <3>1 DEF AddrInv
    <3>4. conf'[field] = IF l.cmd = field /\ l.arg \in {"A", "B"} THEN l.arg ELSE conf[field]
      <4>1. CASE field = "addr"
        BY <1>3, <4>1, ParsedIs
      <4>2. CASE field = "mask"
        BY <1>3, <4>2, ParsedIs
      <4>3. CASE field = "gw"
        BY <1>3, <4>3, ParsedIs
      <4> QED BY <4>1, <4>2, <4>3
    <3>5. /\ l \in P <=> l.cmd = field /\ l.arg = a
          /\ l \in Q <=> l.cmd = field /\ l.arg \in {"A", "B"}
      BY <3>1 DEF Addressing
    <3> QED BY <3>1, <3>2, <3>3, <3>4, <3>5
  <2>2. conf'.use_static <=> LastOf(lines', Static, Dynamic)
    <3>1. LastOf(lines', Static, Dynamic)
            <=> l \in Static \/ (l \notin Dynamic /\ LastOf(lines, Static, Dynamic))
      BY <1>0, <1>3, OneMore
    <3>2. conf'.use_static <=> l \in Static \/ (l \notin Dynamic /\ conf.use_static)
      BY <1>3, ParsedIs
    <3> QED BY <3>1, <3>2 DEF StaticInv
  <2> QED BY <2>1, <2>2 DEF AddrInv, StaticInv
<1>4. CASE UNCHANGED vars
  BY <1>1, <1>4 DEF vars, cardVars
<1>5. CASE Main \/ ConfigDone \/ PscRun \/ PscRunReturns
  BY <1>1, <1>5 DEF Main, ConfigDone, PscRun, PscRunReturns, cardVars
<1>6. CASE TryPart \/ SyncNew \/ SyncDat
  BY <1>1, <1>6 DEF TryPart, SyncNew, SyncDat
<1>7. CASE ReadLine
  BY <1>3, <1>7 DEF ReadLine
<1>8. CASE HwAddr
  <2>1. lines' = lines /\ (conf' = [conf EXCEPT !.hwaddr = "given"] \/ conf' = conf)
    BY <1>8 DEF HwAddr
  <2> QED BY <1>0, <1>1, <2>1
<1>9. CASE NetSetup
  BY <1>2, <1>9 DEF NetSetup
<1>10. ASSUME NEW t \in Threads, BusStep(t) PROVE AddrInv' /\ StaticInv'
  <2>1. lines' = lines /\ (conf' = [conf EXCEPT !.hwaddr = "eeprom"] \/ conf' = conf)
    BY <1>10, BusStepCard
  <2> QED BY <1>0, <1>1, <2>1
<1>11. ASSUME NEW h \in Handlers, Update(h) PROVE AddrInv' /\ StaticInv'
  BY <1>1, <1>11 DEF Update, Serve, cardVars
<1>12. CASE BrdStats \/ Menu
  BY <1>1, <1>12 DEF BrdStats, Menu, Serve, cardVars
<1>13. CASE Reboot \/ PowerLoss
  BY <1>2, <1>13 DEF Reboot, PowerLoss, Restart
<1>14. "main" \in Threads  BY BoardAssumption
<1> QED BY <1>4, <1>5, <1>6, <1>7, <1>8, <1>9, <1>10, <1>11, <1>12, <1>13, <1>14
        DEF Next, MainThread

\* The files: whatever the last access to them was, unless one failed.
LEMMA FilesKept ==
  ASSUME CardType, FileInv, [Next]_vars
  PROVE  FileInv'
<1>1. CASE UNCHANGED vars
  BY <1>1 DEF FileInv, vars, cardVars
<1>2. CASE Main \/ ConfigDone \/ PscRun \/ PscRunReturns
  BY <1>2 DEF FileInv, Main, ConfigDone, PscRun, PscRunReturns, Phase, cardVars
<1>3. CASE TryPart
  <2>1. part \in {0, 1}  BY DEF CardType
  <2> QED BY <1>3, <2>1 DEF FileInv, TryPart, Phase
<1>4. CASE ReadLine \/ HwAddr
  BY <1>4 DEF FileInv, ReadLine, HwAddr, Phase
<1>5. CASE SyncNew
  BY <1>5 DEF FileInv, SyncNew, Phase
<1>6. CASE SyncDat
  BY <1>6 DEF FileInv, SyncDat, Phase
<1>7. CASE NetSetup
  BY <1>7 DEF FileInv, NetSetup, Phase
<1>8. ASSUME NEW t \in Threads, BusStep(t) PROVE FileInv'
  BY <1>8, BusStepCard DEF FileInv
<1>9. ASSUME NEW h \in Handlers, Update(h) PROVE FileInv'
  BY <1>9 DEF FileInv, Update, Serve, cardVars
<1>10. CASE BrdStats \/ Menu
  BY <1>10 DEF FileInv, BrdStats, Menu, Serve, cardVars
<1>11. CASE Reboot \/ PowerLoss
  BY <1>11 DEF FileInv, Reboot, PowerLoss, Restart
<1>12. "main" \in Threads  BY BoardAssumption
<1> QED BY <1>1, <1>2, <1>3, <1>4, <1>5, <1>6, <1>7, <1>8, <1>9, <1>10, <1>11, <1>12
        DEF Next, MainThread

\* What a step on the bus is, as far as the thread itself is concerned.
LEMMA BusStepMoves ==
  ASSUME BusInv, NEW t \in Threads, BusStep(t)
  PROVE  /\ ~Idle(t)
         /\ \E d : /\ Far(op[t], step[t], d) /\ Advance(t, d)
                   /\ d # 1 => Current(t).op = "write"
         /\ Current(t).op = "expand" =>
              sel' = [sel EXCEPT ![Current(t).pe] = Current(t).channels]
         /\ Current(t).op # "expand" => sel' = sel
<1>0. BusType /\ RoleInv  BY DEF BusInv
<1>1. Far(op[t], step[t], 1)  BY DEF Far
<1>2. CASE i2c_set_port_expander(t)
  BY <1>1, <1>2 DEF i2c_set_port_expander, Doing
<1>3. CASE i2c_write(t)
  <2>1. ~Idle(t) /\ Current(t).op = "write" /\ sel' = sel  BY <1>3 DEF i2c_write, Doing
  <2>2. PICK got : Advance(t, 1 + IF got = {} THEN Current(t).skip ELSE 0)
    BY <1>3 DEF i2c_write
  <2>3. PICK d : d = 1 + IF got = {} THEN Current(t).skip ELSE 0  OBVIOUS
  <2>4. Current(t).skip \in {0, 1}
    <3>1. op[t] \in DOMAIN Program /\ step[t] \in DOMAIN Program[op[t]]  BY <1>0, <2>1, Busy
    <3>2. WellFormed(op[t], step[t])  BY <3>1, Steps
    <3> QED BY <2>1, <3>2 DEF WellFormed, Current
  <2>5. d = 1 \/ (d = 2 /\ Current(t).skip = 1)  BY <2>3, <2>4
  <2>6. Far(op[t], step[t], d)  BY <2>1, <2>5 DEF Far, Current
  <2>7. Advance(t, d)  BY <2>2, <2>3
  <2> QED BY <2>1, <2>6, <2>7
<1>4. CASE Resume(t)
  BY <1>1, <1>4 DEF Resume, Doing
<1>5. CASE Doing(t, "read") /\ \E got \in Answers(Current(t).addr) : i2c_read(t, got)
  BY <1>1, <1>5 DEF i2c_read, Doing
<1> QED BY <1>2, <1>3, <1>4, <1>5 DEF BusStep

LEMMA ExactKept ==
  ASSUME BusInv, ExactInv, [Next]_vars
  PROVE  ExactInv'
<1>0. BusType /\ RoleInv  BY DEF BusInv
<1>1. "main" \in Threads /\ op["main"] \in Boot \cup {"none"}  BY <1>0, BoardAssumption DEF RoleInv
<1>2. ASSUME op'["main"] = "none" PROVE ExactInv'
  BY <1>2 DEF ExactInv, Own
<1>3. ASSUME UNCHANGED <<sel, op, step>> PROVE ExactInv'
  BY <1>3 DEF ExactInv
<1>4. ASSUME NEW name \in Boot, Begin("main", name) PROVE ExactInv'
  <2>1. op["main"] = "none" /\ op' = [op EXCEPT !["main"] = name] /\ step' = step
    BY <1>4 DEF Begin, Idle
  <2>2. step'["main"] = 1  BY <1>0, <1>1, <2>1 DEF BusType
  <2> QED BY <2>2, BeforeFirst DEF ExactInv, Own
<1>5. CASE BusStep("main")
  <2>1. PICK n, k, o2, k2 : /\ n = op["main"] /\ k = step["main"]
                            /\ o2 = op'["main"] /\ k2 = step'["main"]
    OBVIOUS
  <2>2. ~Idle("main")  BY <1>1, <1>5, BusStepMoves
  <2>3. PICK d : Far(n, k, d) /\ Advance("main", d) /\ (d # 1 => Current("main").op = "write")
    BY <1>1, <1>5, <2>1, BusStepMoves
  <2>4. /\ n \in DOMAIN Program /\ k \in DOMAIN Program[n] /\ Current("main") = Program[n][k]
        /\ Moves(n, k, d, o2, k2)
    BY <1>0, <1>1, <2>1, <2>2, <2>3, Busy, AdvanceMoves DEF Current
  <2>5. SUFFICES ASSUME NEW pe \in Expanders PROVE Own(o2, k2, pe, sel'[pe])
    BY <2>1 DEF ExactInv
  <2>6. Own(n, k, pe, sel[pe])  BY <2>1 DEF ExactInv
  <2>7. CASE Program[n][k].op = "expand"
    <3>1. d = 1  BY <2>3, <2>4, <2>7
    <3>2. PICK r : r = IF pe = Program[n][k].pe THEN Program[n][k].channels ELSE sel[pe]  OBVIOUS
    <3>3. Own(o2, k2, pe, r)  BY <2>4, <2>6, <2>7, <3>1, <3>2, ExpandMoves
    <3>4. sel' = [sel EXCEPT ![Program[n][k].pe] = Program[n][k].channels]
      BY <1>1, <1>5, <2>4, <2>7, BusStepMoves
    <3>5. sel'[pe] = r  BY <1>0, <3>2, <3>4 DEF BusType
    <3> QED BY <3>3, <3>5
  <2>8. CASE Program[n][k].op # "expand"
    <3>1. sel' = sel  BY <1>1, <1>5, <2>4, <2>8, BusStepMoves
    <3>2. PICK s : s = sel[pe]  OBVIOUS
    <3>3. Own(o2, k2, pe, s)  BY <2>3, <2>4, <2>6, <2>8, <3>2, OwnMoves
    <3> QED BY <3>1, <3>2, <3>3
  <2> QED BY <2>7, <2>8
<1>6. ASSUME NEW t \in Threads \ {"main"}, BusStep(t) PROVE ExactInv'
  <2>1. ~Idle(t)  BY <1>6, BusStepMoves
  <2>2. op["main"] = "none"  BY <1>0, <1>6, <2>1 DEF RoleInv, Idle
  <2>3. PICK d : Far(op[t], step[t], d) /\ Advance(t, d)  BY <1>6, BusStepMoves
  <2>4. op'["main"] = op["main"]  BY <1>0, <1>1, <1>6, <2>1, <2>3, AdvanceMoves
  <2> QED BY <1>2, <2>2, <2>4
<1>7. ASSUME NEW t \in Threads, NEW name, Serve(t, name) PROVE ExactInv'
  <2>1. CASE t = "main"
    <3>1. op["main"] = "none" /\ step' = step  BY <1>7, <2>1 DEF Serve, Begin, Idle
    <3>2. step'["main"] = 1  BY <1>0, <1>1, <3>1 DEF BusType
    <3> QED BY <3>2, BeforeFirst DEF ExactInv, Own
  <2>2. CASE t # "main"
    <3>1. op["main"] = "none"  BY <1>0, <1>7 DEF Serve, RoleInv, Idle
    <3>2. op'["main"] = op["main"]  BY <1>0, <1>1, <1>7, <2>2 DEF Serve, Begin, BusType
    <3> QED BY <1>2, <3>1, <3>2
  <2> QED BY <2>1, <2>2
<1>8. CASE Reboot \/ PowerLoss
  <2>1. op'["main"] = "none"  BY <1>1, <1>8 DEF Reboot, PowerLoss, Restart
  <2> QED BY <1>2, <2>1
<1>9. CASE UNCHANGED vars
  BY <1>3, <1>9 DEF vars, busVars
<1>10. CASE Main
  BY <1>4, <1>10 DEF Main, Boot
<1>11. CASE TryPart \/ ConfigDone \/ HwAddr \/ SyncNew \/ SyncDat \/ NetSetup
         \/ PscRun \/ PscRunReturns
  BY <1>3, <1>11 DEF TryPart, ConfigDone, HwAddr, SyncNew, SyncDat, NetSetup, PscRun, PscRunReturns, busVars
<1>12. CASE ReadLine
  BY <1>3, <1>4, <1>12 DEF ReadLine, Boot, busVars
<1>13. ASSUME NEW h \in Handlers, Update(h) PROVE ExactInv'
  BY <1>7, <1>13, BoardAssumption DEF Update
<1>14. CASE BrdStats \/ Menu
  BY <1>7, <1>14, BoardAssumption DEF BrdStats, Menu
<1> QED BY <1>5, <1>6, <1>8, <1>9, <1>10, <1>11, <1>12, <1>13, <1>14 DEF Next, MainThread

\* The last transfer of i2c_get_mac_address reads the MAC EEPROM, which is connected
\* and alone; so a main thread that goes on has an address.
LEMMA MacGiven ==
  ASSUME Mac \in Fitted \ Flaky, BusInv, CardType, ExactInv, MacInv, phase = "mac",
         BusStep("main"), op'["main"] = "none"
  PROVE  conf'.hwaddr = "eeprom"
<1>0. BusType /\ RoleInv /\ "main" \in Threads  BY BoardAssumption DEF BusInv
<1>1. PICK n, k, o2, k2 : n = op["main"] /\ k = step["main"] /\ o2 = op'["main"] /\ k2 = step'["main"]
  OBVIOUS
<1>2. ~Idle("main")  BY <1>0, BusStepMoves
<1>3. PICK d : Far(n, k, d) /\ Advance("main", d)  BY <1>0, <1>1, BusStepMoves
<1>4. /\ n \in {"get_mac", "get_mac_twice"} /\ n \in DOMAIN Program /\ k \in DOMAIN Program[n]
      /\ n # "none" /\ Current("main") = Program[n][k]
  BY <1>0, <1>1, <1>2, Busy, Names DEF MacInv, Current
<1>5. Moves(n, k, d, o2, k2)  BY <1>0, <1>1, <1>2, <1>3, AdvanceMoves
<1>6. MacLast(n)  BY <1>4, SequencesRight
<1>7. d = 1
  <2>1. Program[n][k].op = "write" => Program[n][k].skip = 0  BY <1>4, <1>6 DEF MacLast
  <2> QED BY <1>3, <2>1 DEF Far
<1>8. k = Len(Program[n])
  <2>1. k + 1 > Len(Program[n])  BY <1>1, <1>4, <1>5, <1>7 DEF Moves
  <2>2. k \in 1 .. Len(Program[n]) /\ Len(Program[n]) \in Nat  BY <1>4, Steps
  <2> QED BY <2>1, <2>2
<1>9. Program[n][k].op = "read" /\ Program[n][k].dev = Mac  BY <1>6, <1>8 DEF MacLast
<1>10. PICK got \in Answers(Current("main").addr) :
         conf' = IF phase = "mac" /\ got # {} THEN [conf EXCEPT !.hwaddr = "eeprom"] ELSE conf
  BY <1>4, <1>9 DEF BusStep, i2c_set_port_expander, i2c_write, Resume, Doing
<1>11. Mac \in Answering(Current("main").addr)
  <2>1. WellFormed(n, k) /\ Selected(n, k) /\ Transfer(Program[n][k])
    BY <1>4, <1>9, Steps DEF Transfer
  <2>2. Mac[1] \in Expanders /\ Current("main").addr = Mac[3]
    BY <1>4, <1>9, <2>1 DEF WellFormed
  <2>3. Before(n, k, Mac[1]) # {} /\ Chosen(n, k, Mac[1]) = {Mac[2]}
    BY <1>9, <2>1 DEF Selected
  <2>4. Own(n, k, Mac[1], sel[Mac[1]])  BY <1>1, <2>2 DEF ExactInv
  <2>5. sel[Mac[1]] = {Mac[2]}  BY <1>4, <2>3, <2>4 DEF Own
  <2> QED BY <2>2, <2>5 DEF Answering
<1>12. Mac \in got  BY <1>10, <1>11 DEF Answers
<1> QED BY <1>10, <1>12 DEF CardType

LEMMA MacKept ==
  ASSUME Mac \in Fitted \ Flaky, BusInv, CardType, ExactInv, MacInv, [Next]_vars
  PROVE  MacInv'
<1>0. BusType /\ RoleInv /\ "main" \in Threads  BY BoardAssumption DEF BusInv
<1>1. ASSUME phase' # "mac" PROVE MacInv'
  BY <1>1 DEF MacInv
<1>2. CASE UNCHANGED vars
  BY <1>2 DEF MacInv, vars, busVars, cardVars, Idle
<1>3. CASE Main \/ TryPart \/ ConfigDone \/ HwAddr \/ SyncNew \/ SyncDat \/ NetSetup
         \/ PscRun \/ PscRunReturns
  BY <1>1, <1>3 DEF Main, TryPart, ConfigDone, HwAddr, SyncNew, SyncDat, NetSetup, PscRun, PscRunReturns, Phase
<1>4. CASE ReadLine
  <2>1. PICK l \in Lines :
          /\ lines' = Append(lines, l)
          /\ IF l.cmd = "hwaddr"
             THEN \E name \in {"get_mac", "get_mac_twice"} : Begin("main", name)
             ELSE phase' = "config"
    BY <1>4 DEF ReadLine, Phase
  <2>2. CASE l.cmd = "hwaddr"
    <3>1. PICK name \in {"get_mac", "get_mac_twice"} : op' = [op EXCEPT !["main"] = name]
      BY <2>1, <2>2 DEF Begin
    <3>2. op'["main"] \in {"get_mac", "get_mac_twice"}  BY <1>0, <3>1 DEF BusType
    <3>3. lines \in Seq(Lines)  BY DEF CardType
    <3>4. lines' # <<>> /\ lines'[Len(lines')] = l  BY <2>1, <3>3
    <3> QED BY <2>2, <3>2, <3>4 DEF MacInv, Hardware
  <2> QED BY <1>1, <2>1, <2>2
<1>5. CASE BusStep("main") /\ phase = "mac"
  <2>1. lines' = lines  BY <1>0, <1>5, BusStepCard
  <2>2. ~Idle("main")  BY <1>0, <1>5, BusStepMoves
  <2>3. op["main"] \in {"get_mac", "get_mac_twice"}  BY <1>5, <2>2 DEF MacInv
  <2>4. PICK d : Advance("main", d)  BY <1>0, <1>5, BusStepMoves
  <2>5. op'["main"] = op["main"] \/ op'["main"] = "none"
    BY <1>0, <2>4 DEF Advance, BusType
  <2>6. op'["main"] = "none" => conf'.hwaddr = "eeprom"  BY <1>5, MacGiven
  <2> QED BY <1>5, <2>1, <2>3, <2>5, <2>6 DEF MacInv, Idle
<1>6. ASSUME NEW t \in Threads, BusStep(t), phase # "mac" PROVE MacInv'
  BY <1>1, <1>6, BusStepCard
<1>7. ASSUME NEW t \in Threads \ {"main"}, BusStep(t) PROVE MacInv'
  <2>1. ~Idle(t)  BY <1>7, BusStepMoves
  <2>2. phase # "mac"  BY <1>0, <1>7, <2>1 DEF RoleInv
  <2> QED BY <1>6, <1>7, <2>2
<1>8. ASSUME NEW t \in Threads, NEW name, Serve(t, name) PROVE MacInv'
  BY <1>1, <1>8 DEF Serve
<1>9. ASSUME NEW h \in Handlers, Update(h) PROVE MacInv'
  BY <1>8, <1>9, BoardAssumption DEF Update
<1>10. CASE BrdStats \/ Menu
  BY <1>8, <1>10, BoardAssumption DEF BrdStats, Menu
<1>11. CASE Reboot \/ PowerLoss
  BY <1>1, <1>11 DEF Reboot, PowerLoss, Restart
<1> QED BY <1>0, <1>2, <1>3, <1>4, <1>5, <1>6, <1>7, <1>9, <1>10, <1>11 DEF Next, MainThread

LEMMA HwKept ==
  ASSUME CardType, MacInv, HwInv, [Next]_vars
  PROVE  HwInv'
<1>0. /\ conf \in [addr : Addrs, mask : Addrs, gw : Addrs, use_static : BOOLEAN,
                   hwaddr : {"zero", "eeprom", "given"}]
      /\ lines \in Seq(Lines)
  BY DEF CardType
<1>1. ASSUME phase' # "mac" => phase # "mac", lines' = lines, conf'.hwaddr = conf.hwaddr
      PROVE  HwInv'
  BY <1>1 DEF HwInv
<1>2. ASSUME conf' = NoConf, lines' = <<>> PROVE HwInv'
  BY <1>2, NoLines DEF HwInv, NoConf
<1>3. CASE ReadLine
  <2>1. PICK l \in Lines :
          /\ lines' = Append(lines, l) /\ conf' = Parsed(l)
          /\ l.cmd = "hwaddr" => phase' = "mac"
          /\ l.cmd # "hwaddr" => phase # "mac"
    BY <1>3 DEF ReadLine, Phase
  <2>2. CASE l.cmd = "hwaddr"
    BY <2>1, <2>2 DEF HwInv
  <2>3. CASE l.cmd # "hwaddr"
    <3>1. l \notin Hardware /\ l \notin HardwareGiven  BY <2>3 DEF Hardware, HardwareGiven
    <3>2. conf'.hwaddr = conf.hwaddr  BY <2>1, ParsedIs
    <3>3. LastOf(lines', HardwareGiven, Hardware) <=> LastOf(lines, HardwareGiven, Hardware)
      BY <1>0, <2>1, <3>1, OneMore
    <3>4. (\A i \in DOMAIN lines' : lines'[i] \notin Hardware)
            <=> (\A i \in DOMAIN lines : lines[i] \notin Hardware)
      <4>1. PICK m : m = Len(lines)  OBVIOUS
      <4>2. /\ m \in Nat /\ DOMAIN lines = 1 .. m /\ DOMAIN lines' = 1 .. m + 1
            /\ lines'[m + 1] = l /\ \A i \in 1 .. m : lines'[i] = lines[i]
        BY <1>0, <2>1, <4>1
      <4>3. \A i \in 1 .. m + 1 : i = m + 1 \/ i \in 1 .. m  BY <4>2
      <4>4. \A i \in 1 .. m : i \in 1 .. m + 1  BY <4>2
      <4> QED BY <3>1, <4>2, <4>3, <4>4
    <3>5. phase # "mac"  BY <2>1, <2>3
    <3> QED BY <3>2, <3>3, <3>4, <3>5 DEF HwInv
  <2> QED BY <2>2, <2>3
<1>4. CASE HwAddr
  <2>1. /\ phase = "mac" /\ op["main"] = "none" /\ lines' = lines
        /\ conf' = IF Last(lines).arg = "given" THEN [conf EXCEPT !.hwaddr = "given"] ELSE conf
    BY <1>4 DEF HwAddr, Phase, Idle
  <2>2. /\ lines # <<>> /\ lines[Len(lines)] \in Hardware /\ conf.hwaddr = "eeprom"
    BY <2>1 DEF MacInv
  <2>3. Last(lines) = lines[Len(lines)]  BY DEF Last
  <2>4. lines[Len(lines)] \in HardwareGiven <=> Last(lines).arg = "given"
    BY <2>2, <2>3 DEF Hardware, HardwareGiven
  <2>5. LastOf(lines, HardwareGiven, Hardware) <=> Last(lines).arg = "given"
    BY <1>0, <2>2, <2>4, LastDecides
  <2>6. Len(lines) \in DOMAIN lines  BY <1>0, <2>2
  <2>7. ~ \A i \in DOMAIN lines : lines[i] \notin Hardware  BY <2>2, <2>6
  <2>8. conf'.hwaddr = IF Last(lines).arg = "given" THEN "given" ELSE "eeprom"
    BY <1>0, <2>1, <2>2
  <2> QED BY <2>1, <2>5, <2>7, <2>8 DEF HwInv
<1>5. ASSUME NEW t \in Threads, BusStep(t) PROVE HwInv'
  BY <1>1, <1>5, BusStepCard DEF HwInv
<1>6. CASE UNCHANGED vars
  BY <1>1, <1>6 DEF vars, cardVars
<1>7. CASE Main \/ TryPart \/ ConfigDone \/ SyncNew \/ SyncDat \/ PscRun \/ PscRunReturns
  BY <1>1, <1>7 DEF Main, TryPart, ConfigDone, SyncNew, SyncDat, PscRun, PscRunReturns, Phase, cardVars
<1>8. CASE NetSetup \/ Reboot \/ PowerLoss
  BY <1>2, <1>8 DEF NetSetup, Reboot, PowerLoss, Restart
<1>9. ASSUME NEW h \in Handlers, Update(h) PROVE HwInv'
  BY <1>1, <1>9 DEF Update, Serve, cardVars
<1>10. CASE BrdStats \/ Menu
  BY <1>1, <1>10 DEF BrdStats, Menu, Serve, cardVars
<1>11. "main" \in Threads  BY BoardAssumption
<1> QED BY <1>3, <1>4, <1>5, <1>6, <1>7, <1>8, <1>9, <1>10, <1>11 DEF Next, MainThread

\* If the EEPROM with the hardware address answers, the network is set up with what
\* NET.CNF says, whatever it holds and whichever accesses to the card fail; and of
\* a card that was read without a failure EEPROM.NEW is gone, and EEPROM.DAT is
\* there with its full size, even where it was not there or already full.
THEOREM CardRight ==
  Mac \in Fitted \ Flaky => (Spec => []CardHandled)
<1> SUFFICES ASSUME Mac \in Fitted \ Flaky PROVE Spec => []CardHandled
  OBVIOUS
<1>1. Init => BusInv /\ CardType /\ CardInv
  <2> SUFFICES ASSUME Init PROVE CardType /\ CardInv  BY BusInitially
  <2>1. /\ part = 0 /\ conf = NoConf /\ lines = <<>> /\ failed = FALSE
        /\ new = "absent" /\ dat = "absent" /\ phase = "reset"
    BY DEF Init, CardInit
  <2>2. op["main"] = "none"  BY BoardAssumption DEF Init, BusInit
  <2>3. CardType
    <3>1. lines \in Seq(Lines) /\ Len(lines) <= MaxLines  BY <2>1, BoardAssumption
    <3> QED BY <2>1, <3>1 DEF CardType, NoConf, Addrs, NewFile, DatFile, Phases
  <2>4. AddrInv /\ StaticInv /\ HwInv  BY <2>1, NoLines DEF AddrInv, StaticInv, HwInv, NoConf
  <2>5. ExactInv /\ MacInv /\ FileInv  BY <2>1, <2>2 DEF ExactInv, Own, MacInv, FileInv
  <2> QED BY <2>3, <2>4, <2>5 DEF CardInv
<1>2. BusInv /\ CardType /\ CardInv /\ [Next]_vars => (BusInv /\ CardType /\ CardInv)'
  BY BusKept, CardTypeKept, SettingsKept, HwKept, ExactKept, MacKept, FilesKept DEF CardInv
<1>3. CardType /\ CardInv => CardHandled
  <2> SUFFICES ASSUME CardType, CardInv, phase = "net" PROVE CardHandled
    BY DEF CardHandled
  <2>0. /\ AddrInv /\ StaticInv /\ HwInv /\ FileInv /\ lines \in Seq(Lines)
        /\ \A i \in DOMAIN lines : lines[i] \in Lines
    BY DEF CardInv, CardType
  <2>1. ASSUME NEW field \in {"addr", "mask", "gw"}, NEW a \in Addrs \ {"unset"}
        PROVE  conf[field] = a <=> Given(field, a)
    <3>1. a \in {"A", "B"}  BY DEF Addrs
    <3>2. conf[field] = a <=> LastOf(lines, Addressing(field, {a}), Addressing(field, {"A", "B"}))
      BY <2>0, <3>1 DEF AddrInv
    <3>3. /\ \A l \in Lines : l \in Addressing(field, {a}) <=> l.cmd = field /\ l.arg = a
          /\ \A l \in Lines : l \in Addressing(field, {"A", "B"}) <=> l.cmd = field /\ l.arg \in Addrs
      BY LineIs DEF Addressing, Addrs
    <3>4. LastOf(lines, Addressing(field, {a}), Addressing(field, {"A", "B"})) <=> Given(field, a)
      <4>1. PICK P, Q : P = Addressing(field, {a}) /\ Q = Addressing(field, {"A", "B"})  OBVIOUS
      <4>2. \A i \in DOMAIN lines : lines[i] \in P <=> (lines[i].cmd = field /\ lines[i].arg = a)
        BY <2>0, <3>3, <4>1
      <4>3. \A j \in DOMAIN lines : lines[j] \in Q <=> (lines[j].cmd = field /\ lines[j].arg \in Addrs)
        BY <2>0, <3>3, <4>1
      <4>4. \A i \in DOMAIN lines : \A j \in i + 1 .. Len(lines) : j \in DOMAIN lines
        BY <2>0
      <4>5. LastOf(lines, P, Q) <=> Given(field, a)
        BY <4>2, <4>3, <4>4 DEF LastOf, Given, LastIs
      <4> QED BY <4>1, <4>5
    <3> QED BY <3>2, <3>4
  <2>2. conf.use_static <=>
          LastIs(LAMBDA l : l.cmd = "addr" \/ (l.cmd = "dhcp" /\ l.arg = "no"),
                 LAMBDA l : l.cmd = "dhcp" /\ l.arg \in {"none", "yes"})
    BY <2>0 DEF StaticInv, LastOf, LastIs, Static, Dynamic
  <2>3. conf.hwaddr = "zero" <=> \A i \in DOMAIN lines : lines[i].cmd # "hwaddr"
    BY <2>0 DEF HwInv, Hardware
  <2>4. conf.hwaddr = "given" <=> LastIs(LAMBDA l : l.cmd = "hwaddr" /\ l.arg = "given",
                                         LAMBDA l : l.cmd = "hwaddr")
    BY <2>0 DEF HwInv, LastOf, LastIs, Hardware, HardwareGiven
  <2>5. ~failed => new = "absent" /\ dat \in {"full", "dumped"}  BY <2>0 DEF FileInv
  <2> QED BY <2>1, <2>2, <2>3, <2>4, <2>5 DEF CardHandled
<1> QED BY <1>1, <1>2, <1>3, BusHolds, PTL DEF Spec

=============================================================================
