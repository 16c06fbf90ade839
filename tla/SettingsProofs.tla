---------------------------- MODULE SettingsProofs ----------------------------
(***************************************************************************)
(* Proofs about Settings, for any number of clients and parameters, with   *)
(* failing transfers and boots and power losses at any step: the types,    *)
(* and that a page never misses the write of the thread that stores it.    *)
(***************************************************************************)
EXTENDS Settings, TLAPS

Gathering(h) == pc[h] \in {"gather", "write"}

\* The register of a thread that gathers has the thread's value or a later one,
\* and so has its page once the thread has come past that register.
OwnInv ==
  /\ ~up => \A h \in Handlers : pc[h] = "idle"
  /\ \A h \in Handlers :
       /\ own[h] <= writes
       /\ Gathering(h) => reg[addr[h]] \in own[h] .. MaxWrites
       /\ Gathering(h) /\ addr[h] < next[h] => snap[h][addr[h]] \in own[h] .. MaxWrites
       /\ pc[h] = "write" => next[h] = NumParams + 1

SettingsInv == TypeOK /\ OwnInv

LEMMA Constants ==
  /\ MaxWrites \in Nat /\ NumParams \in Nat /\ NumParams > 0 /\ MaxCrashes \in Nat
  /\ 0 \in Stored /\ Junk \in Stored /\ Values \subseteq Stored
  /\ 1 \in Params /\ Blank \in [Params -> Stored]
BY SettingsAssumption DEF Stored, Values, Junk, Params, Blank

-----------------------------------------------------------------------------
(* Types.                                                                  *)

LEMMA InitInv == Init => SettingsInv
<1> SUFFICES ASSUME Init PROVE SettingsInv  OBVIOUS
<1>1. TypeOK
  <2>1. 0 \in Values /\ 1 \in 1 .. NumParams + 1 /\ 0 \in 0 .. MaxCrashes
    BY Constants DEF Values
  <2>2. reg \in [Params -> Stored]  BY Constants DEF Init
  <2> QED BY Constants, <2>1, <2>2 DEF Init, TypeOK
<1>2. OwnInv
  BY Constants DEF Init, OwnInv, Gathering
<1> QED BY <1>1, <1>2 DEF SettingsInv

LEMMA NextTypeOK == TypeOK /\ [Next]_vars => TypeOK'
<1> SUFFICES ASSUME TypeOK, [Next]_vars PROVE TypeOK'  OBVIOUS
<1> USE Constants
<1>1. CASE UNCHANGED vars
  BY <1>1 DEF vars, memVars, thrVars, TypeOK
<1>2. CASE Boot
  BY <1>2 DEF Boot, EepromDisperseData, memVars, thrVars, TypeOK
<1>3. CASE PowerLoss
  <2>1. page' \in [Params -> Stored] /\ reg' \in [Params -> Stored]
    BY <1>3 DEF PowerLoss, TypeOK
  <2>2. crashes' \in 0 .. MaxCrashes
    BY <1>3 DEF PowerLoss, TypeOK
  <2> QED BY <1>3, <2>1, <2>2 DEF PowerLoss, TypeOK
<1>4. CASE CycleDone
  BY <1>4 DEF CycleDone, thrVars, TypeOK
<1>5. ASSUME NEW h \in Handlers, Message(h) PROVE TypeOK'
  <2>1. addr' \in [Handlers -> Params]  BY <1>5 DEF Message, TypeOK
  <2> QED BY <1>5, <2>1 DEF Message, At, memVars, TypeOK
<1>6. ASSUME NEW h \in Handlers, WriteRegister(h) PROVE TypeOK'
  <2>1. writes' \in Values /\ writes + 1 \in Values
    BY <1>6 DEF WriteRegister, TypeOK, Values
  <2>2. overlap' \in BOOLEAN  BY <1>6 DEF WriteRegister
  <2>3. snap' \in [Handlers -> [Params -> Stored]]
    BY <1>6 DEF WriteRegister, TypeOK
  <2>4. reg' \in [Params -> Stored] /\ own' \in [Handlers -> Values]
    BY <1>6, <2>1 DEF WriteRegister, TypeOK
  <2>5. next' \in [Handlers -> 1 .. NumParams + 1]
    BY <1>6 DEF WriteRegister, TypeOK
  <2> QED
    BY <1>6, <2>1, <2>2, <2>3, <2>4, <2>5 DEF WriteRegister, At, memVars, TypeOK
<1>7. ASSUME NEW h \in Handlers, Gather(h) PROVE TypeOK'
  <2>1. next[h] \in Params /\ next[h] + 1 \in 1 .. NumParams + 1
    BY <1>7 DEF Gather, TypeOK, Params
  <2>2. snap' \in [Handlers -> [Params -> Stored]]
    BY <1>7, <2>1 DEF Gather, TypeOK
  <2>3. next' \in [Handlers -> 1 .. NumParams + 1]
    BY <1>7, <2>1 DEF Gather, TypeOK
  <2> QED BY <1>7, <2>2, <2>3 DEF Gather, At, memVars, TypeOK
<1>8. ASSUME NEW h \in Handlers, EepromWrite(h) PROVE TypeOK'
  BY <1>8 DEF EepromWrite, At, TypeOK
<1>9. ASSUME NEW h \in Handlers, EepromWriteFails(h) PROVE TypeOK'
  BY <1>9 DEF EepromWriteFails, At, memVars, TypeOK
<1>10. ASSUME NEW h \in Handlers, Reported(h) PROVE TypeOK'
  BY <1>10 DEF Reported, At, memVars, TypeOK
<1> QED
  BY <1>1, <1>2, <1>3, <1>4, <1>5, <1>6, <1>7, <1>8, <1>9, <1>10 DEF Next, Handler

-----------------------------------------------------------------------------
(* The thread's own write.                                                 *)

LEMMA NextOwnInv == TypeOK /\ OwnInv /\ [Next]_vars => OwnInv'
<1> SUFFICES ASSUME TypeOK, OwnInv, [Next]_vars PROVE OwnInv'  OBVIOUS
<1> USE Constants
\* Steps outside of the threads' work, or that end it.
<1>1. CASE UNCHANGED vars
  BY <1>1 DEF vars, memVars, thrVars, OwnInv, Gathering
<1>2. CASE Boot
  BY <1>2 DEF Boot, memVars, thrVars, OwnInv, Gathering
<1>3. CASE PowerLoss
  BY <1>3 DEF PowerLoss, TypeOK, OwnInv, Gathering
<1>4. CASE CycleDone
  BY <1>4 DEF CycleDone, thrVars, OwnInv, Gathering
<1>5. ASSUME NEW h \in Handlers, Message(h) PROVE OwnInv'
  BY <1>5 DEF Message, At, memVars, TypeOK, OwnInv, Gathering
\* A later write of the same parameter is numbered higher.
<1>6. ASSUME NEW h \in Handlers, WriteRegister(h) PROVE OwnInv'
  <2>1. up /\ up'  BY <1>6 DEF WriteRegister, At
  <2>2. writes \in Nat /\ writes' = writes + 1 /\ writes + 1 <= MaxWrites
    BY <1>6 DEF WriteRegister, TypeOK, Values
  <2>3. SUFFICES ASSUME NEW g \in Handlers
                 PROVE  /\ own'[g] <= writes'
                        /\ Gathering(g)' => reg'[addr'[g]] \in own'[g] .. MaxWrites
                        /\ Gathering(g)' /\ addr'[g] < next'[g]
                             => snap'[g][addr'[g]] \in own'[g] .. MaxWrites
                        /\ pc'[g] = "write" => next'[g] = NumParams + 1
    BY <2>1 DEF OwnInv
  <2>4. own[g] \in Nat /\ own[g] <= writes /\ addr[g] \in Params /\ addr' = addr
    BY <1>6 DEF WriteRegister, TypeOK, OwnInv, Values
  <2>5. CASE g = h
    <3>1. own'[g] = writes + 1 /\ next'[g] = 1 /\ reg'[addr[g]] = writes + 1 /\ pc'[g] = "gather"
      BY <1>6, <2>4, <2>5 DEF WriteRegister, At, TypeOK
    <3>2. ~(addr'[g] < next'[g])  BY <2>4, <3>1 DEF Params
    <3> QED BY <2>2, <2>4, <3>1, <3>2
  <2>6. CASE g # h
    <3>1. own'[g] = own[g] /\ next'[g] = next[g] /\ snap'[g] = snap[g] /\ pc'[g] = pc[g]
      BY <1>6, <2>6 DEF WriteRegister, At, TypeOK
    <3>2. reg'[addr[g]] = reg[addr[g]] \/ reg'[addr[g]] = writes + 1
      BY <1>6, <2>4 DEF WriteRegister, TypeOK
    <3>3. writes + 1 \in own[g] .. MaxWrites  BY <2>2, <2>4
    <3> QED BY <2>2, <2>4, <3>1, <3>2, <3>3 DEF OwnInv, Gathering
  <2> QED BY <2>5, <2>6
\* The register of the thread's parameter is read after the thread wrote it.
<1>7. ASSUME NEW h \in Handlers, Gather(h) PROVE OwnInv'
  <2>1. up /\ up' /\ reg' = reg /\ own' = own /\ addr' = addr /\ writes' = writes
    BY <1>7 DEF Gather, At
  <2>2. SUFFICES ASSUME NEW g \in Handlers
                 PROVE  /\ own[g] <= writes
                        /\ Gathering(g)' => reg[addr[g]] \in own[g] .. MaxWrites
                        /\ Gathering(g)' /\ addr[g] < next'[g]
                             => snap'[g][addr[g]] \in own[g] .. MaxWrites
                        /\ pc'[g] = "write" => next'[g] = NumParams + 1
    BY <2>1 DEF OwnInv
  <2>3. addr[g] \in Params /\ next[g] \in Nat  BY DEF TypeOK
  <2>4. CASE g = h
    <3>1. pc[g] = "gather" /\ next[g] \in Params /\ next'[g] = next[g] + 1
      BY <1>7, <2>4 DEF Gather, At, TypeOK, Params
    <3>2. snap'[g] = [snap[g] EXCEPT ![next[g]] = reg[next[g]]]
      BY <1>7, <2>4 DEF Gather, TypeOK
    <3>3. reg[addr[g]] \in own[g] .. MaxWrites  BY <3>1 DEF OwnInv, Gathering
    <3>4. ASSUME addr[g] < next'[g] PROVE snap'[g][addr[g]] \in own[g] .. MaxWrites
      <4>1. CASE addr[g] = next[g]
        BY <3>2, <3>3, <4>1, <2>3 DEF TypeOK
      <4>2. CASE addr[g] < next[g]
        <5>1. snap[g][addr[g]] \in own[g] .. MaxWrites  BY <4>2, <3>1 DEF OwnInv, Gathering
        <5>2. addr[g] # next[g]  BY <4>2, <2>3 DEF Params
        <5> QED BY <3>2, <5>1, <5>2, <2>3 DEF TypeOK
      <4> QED BY <3>1, <3>4, <4>1, <4>2, <2>3 DEF Params
    <3>5. pc'[g] = "write" => next[g] = NumParams
      BY <1>7, <2>4 DEF Gather, At, TypeOK
    <3> QED BY <3>1, <3>3, <3>4, <3>5 DEF OwnInv
  <2>5. CASE g # h
    <3>1. pc'[g] = pc[g] /\ next'[g] = next[g] /\ snap'[g] = snap[g]
      BY <1>7, <2>5 DEF Gather, At, TypeOK
    <3> QED BY <3>1 DEF OwnInv, Gathering
  <2> QED BY <2>4, <2>5
<1>8. ASSUME NEW h \in Handlers, EepromWrite(h) \/ EepromWriteFails(h) \/ Reported(h)
      PROVE  OwnInv'
  <2>1. /\ up /\ up' = up /\ UNCHANGED <<reg, addr, own, snap, next, writes>>
        /\ \A g \in Handlers : pc'[g] = pc[g] \/ pc'[g] \in {"wait", "idle"}
    BY <1>8 DEF EepromWrite, EepromWriteFails, Reported, At, memVars, TypeOK
  <2> QED BY <2>1 DEF OwnInv, Gathering
<1> QED
  BY <1>1, <1>2, <1>3, <1>4, <1>5, <1>6, <1>7, <1>8 DEF Next, Handler

LEMMA NextSettingsInv == SettingsInv /\ [Next]_vars => SettingsInv'
BY NextTypeOK, NextOwnInv DEF SettingsInv

\* The page is the one the thread gathered, all of it.
LEMMA PageIsOwn ==
  ASSUME SettingsInv, [Next]_vars, NEW h \in Handlers,
         ~busy, busy', pc[h] = "write", pc'[h] = "wait"
  PROVE  prog'[addr[h]] \in own[h] .. MaxWrites
<1>1. EepromWrite(h)
  <2>1. PICK g \in Handlers : EepromWrite(g)
    BY Zenon DEF Next, Handler, vars, memVars, Boot, PowerLoss, CycleDone, Message, WriteRegister,
           Gather, EepromWriteFails, Reported
  <2>2. g = h  BY <2>1 DEF EepromWrite, At, SettingsInv, TypeOK
  <2> QED BY <2>1, <2>2
<1>2. addr[h] < next[h]
  BY Constants DEF SettingsInv, TypeOK, OwnInv, Params
<1> QED BY <1>1, <1>2 DEF EepromWrite, SettingsInv, OwnInv, Gathering

-----------------------------------------------------------------------------
(* The age of what is stored.                                              *)

Active(h) == pc[h] \in {"gather", "write", "wait"}

\* The value v of parameter p is of no age, or not younger than the register.
Old(v, p) == v = Junk \/ (v <= writes /\ (up => v <= reg[p]))

AgeInv ==
  /\ ~up => ~busy /\ \A h \in Handlers : pc[h] = "idle"
  /\ \A p \in Params :
       /\ reg[p] = Junk \/ reg[p] <= writes
       /\ Old(page[p], p)
       /\ busy => Old(prog[p], p)
       /\ \A h \in Handlers : Gathering(h) => Old(snap[h][p], p)

NotYounger(v, w) == v = Junk \/ w >= v

\* Unless updates overlap one thread is at work, and the EEPROM stands still
\* while it gathers.
LoneInv ==
  /\ busy => \E h \in Handlers : pc[h] = "wait"
  /\ \A h \in Handlers : pc[h] = "write" => next[h] = NumParams + 1
  /\ ~overlap =>
       /\ \A g, h \in Handlers : Active(g) /\ Active(h) => g = h
       /\ \A h \in Handlers, p \in Params :
            Gathering(h) /\ p < next[h] => NotYounger(page[p], snap[h][p])
       /\ busy => \A p \in Params : NotYounger(page[p], prog[p])

LEMMA InitAge == Init => AgeInv /\ LoneInv
BY Constants DEF Init, AgeInv, LoneInv, Old, Gathering, Active

LEMMA NextAgeInv == TypeOK /\ AgeInv /\ [Next]_vars => AgeInv'
<1> SUFFICES ASSUME TypeOK, AgeInv, [Next]_vars PROVE AgeInv'  OBVIOUS
<1> USE Constants
<1>0. /\ writes \in Nat /\ writes <= MaxWrites
      /\ reg \in [Params -> Stored] /\ page \in [Params -> Stored]
      /\ prog \in [Params -> Stored] /\ snap \in [Handlers -> [Params -> Stored]]
  BY DEF TypeOK, Values
<1>1. CASE UNCHANGED vars
  BY <1>1 DEF vars, memVars, thrVars, AgeInv, Old, Gathering
\* The registers become the page, which no thread is behind of.
<1>2. CASE Boot
  <2>1. \A p \in Params : reg'[p] = page[p] \/ reg'[p] = Junk
    BY <1>2 DEF Boot, EepromDisperseData, Blank
  <2>2. ~busy' /\ page' = page /\ writes' = writes /\ pc' = pc /\ up'
        /\ \A h \in Handlers : pc[h] = "idle"
    BY <1>2 DEF Boot, memVars, thrVars, AgeInv
  <2>3. \A p \in Params : page[p] = Junk \/ page[p] <= writes
    BY DEF AgeInv, Old
  <2>4. \A p \in Params : page[p] = Junk \/ page[p] \in Nat
    BY <1>0 DEF Stored, Values
  <2>5. ASSUME NEW p \in Params
        PROVE  (reg'[p] = Junk \/ reg'[p] <= writes') /\ Old(page[p], p)'
    BY <1>0, <2>1, <2>2, <2>3, <2>4, <2>5 DEF Old, Junk
  <2> QED BY <2>2, <2>5 DEF AgeInv, Gathering
\* A torn page has values of the old one and of the one that was written.
<1>3. CASE PowerLoss
  <2>1. /\ ~up' /\ ~busy' /\ writes' = writes /\ \A h \in Handlers : pc'[h] = "idle"
        /\ \A p \in Params : reg'[p] = 0
    BY <1>3 DEF PowerLoss
  <2>2. \A p \in Params : page'[p] = page[p] \/ (busy /\ page'[p] = prog[p])
    BY <1>3 DEF PowerLoss
  <2>3. \A p \in Params : page'[p] = Junk \/ page'[p] <= writes
    BY <2>2 DEF AgeInv, Old
  <2> QED BY <1>0, <2>1, <2>3 DEF AgeInv, Old, Gathering
<1>4. CASE CycleDone
  BY <1>4 DEF CycleDone, thrVars, AgeInv, Old, Gathering
<1>5. ASSUME NEW h \in Handlers, Message(h) PROVE AgeInv'
  BY <1>5 DEF Message, At, memVars, TypeOK, AgeInv, Old, Gathering
\* Everything stored is older than the register that is written now.
<1>6. ASSUME NEW h \in Handlers, WriteRegister(h) PROVE AgeInv'
  <2>1. /\ up /\ up' /\ writes' = writes + 1 /\ page' = page /\ prog' = prog /\ busy' = busy
        /\ writes + 1 \in Nat
        /\ \A p \in Params : reg'[p] = reg[p] \/ reg'[p] = writes + 1
    BY <1>0, <1>6 DEF WriteRegister, At, memVars
  <2>2. ASSUME NEW p \in Params, NEW v \in Stored, Old(v, p)
        PROVE  v = Junk \/ (v <= writes' /\ (up' => v <= reg'[p]))
    <3>1. v = Junk \/ (v \in Nat /\ v <= writes /\ v <= reg[p])
      BY <2>1, <2>2 DEF Old, Stored, Values
    <3> QED BY <1>0, <2>1, <3>1
  <2>3. ASSUME NEW g \in Handlers, NEW p \in Params, Gathering(g)'
        PROVE  snap'[g][p] = Junk \/ (Gathering(g) /\ snap'[g][p] = snap[g][p])
    <3>1. CASE g = h
      BY <1>0, <1>6, <3>1 DEF WriteRegister, Blank
    <3>2. CASE g # h
      BY <1>0, <1>6, <2>3, <3>2 DEF WriteRegister, At, Gathering, TypeOK
    <3> QED BY <3>1, <3>2
  <2>4. \A p \in Params : reg'[p] = Junk \/ reg'[p] <= writes'
    <3> SUFFICES ASSUME NEW p \in Params PROVE reg'[p] = Junk \/ reg'[p] <= writes'
      OBVIOUS
    <3>1. reg[p] = Junk \/ (reg[p] \in Nat /\ reg[p] <= writes)
      BY <1>0 DEF AgeInv, Stored, Values
    <3> QED BY <1>0, <2>1, <3>1
  <2>5. ASSUME NEW p \in Params
        PROVE  /\ page[p] \in Stored /\ Old(page[p], p)
               /\ prog[p] \in Stored /\ (busy => Old(prog[p], p))
               /\ \A g \in Handlers : snap[g][p] \in Stored /\ (Gathering(g) => Old(snap[g][p], p))
    BY <1>0 DEF AgeInv
  <2>6. ASSUME NEW p \in Params
        PROVE  /\ Old(page[p], p)'
               /\ busy' => Old(prog[p], p)'
               /\ \A g \in Handlers : Gathering(g)' => Old(snap[g][p], p)'
    <3>1. Old(page[p], p)'  BY <2>1, <2>2, <2>5 DEF Old
    <3>2. busy' => Old(prog[p], p)'  BY <2>1, <2>2, <2>5 DEF Old
    <3>3. ASSUME NEW g \in Handlers, Gathering(g)' PROVE Old(snap[g][p], p)'
      BY <2>2, <2>3, <2>5, <3>3 DEF Old
    <3> QED BY <3>1, <3>2, <3>3
  <2> QED BY <2>1, <2>4, <2>6 DEF AgeInv
<1>7. ASSUME NEW h \in Handlers, Gather(h) PROVE AgeInv'
  <2>1. /\ up /\ up' /\ UNCHANGED <<reg, page, prog, busy, writes>>
        /\ next[h] \in Params /\ pc[h] = "gather"
    BY <1>7 DEF Gather, At, memVars, TypeOK, Params
  <2>2. ASSUME NEW g \in Handlers, NEW p \in Params, Gathering(g)'
        PROVE  Gathering(g) /\ snap'[g][p] \in {snap[g][p], reg[p]}
    <3>1. CASE g = h
      BY <1>0, <1>7, <2>1, <3>1 DEF Gather, Gathering
    <3>2. CASE g # h
      BY <1>0, <1>7, <2>2, <3>2 DEF Gather, At, Gathering, TypeOK
    <3> QED BY <3>1, <3>2
  <2>3. \A p \in Params : Old(reg[p], p)
    <3> SUFFICES ASSUME NEW p \in Params PROVE Old(reg[p], p)  OBVIOUS
    <3>1. reg[p] = Junk \/ (reg[p] \in Nat /\ reg[p] <= writes)
      BY <1>0 DEF AgeInv, Stored, Values
    <3> QED BY <3>1 DEF Old
  <2>4. ASSUME NEW g \in Handlers, NEW p \in Params, Gathering(g)'
        PROVE  Old(snap[g][p], p)'
    <3>1. Old(snap[g][p], p) /\ Old(reg[p], p)  BY <2>2, <2>3, <2>4 DEF AgeInv
    <3> QED BY <2>1, <2>2, <2>4, <3>1 DEF Old
  <2> QED BY <2>1, <2>4 DEF AgeInv, Old
<1>8. ASSUME NEW h \in Handlers, EepromWrite(h) PROVE AgeInv'
  BY <1>8 DEF EepromWrite, At, TypeOK, AgeInv, Old, Gathering
<1>9. ASSUME NEW h \in Handlers, EepromWriteFails(h) \/ Reported(h) PROVE AgeInv'
  BY <1>9 DEF EepromWriteFails, Reported, At, memVars, TypeOK, AgeInv, Old, Gathering
<1> QED
  BY <1>1, <1>2, <1>3, <1>4, <1>5, <1>6, <1>7, <1>8, <1>9 DEF Next, Handler

LEMMA NextLoneInv == TypeOK /\ AgeInv /\ LoneInv /\ [Next]_vars => LoneInv'
<1> SUFFICES ASSUME TypeOK, AgeInv, LoneInv, [Next]_vars PROVE LoneInv'  OBVIOUS
<1> USE Constants
<1>1. CASE UNCHANGED vars
  BY <1>1 DEF vars, memVars, thrVars, LoneInv, Gathering, Active, NotYounger
<1>2. CASE Boot
  BY <1>2 DEF Boot, memVars, thrVars, AgeInv, LoneInv, Gathering, Active, NotYounger
<1>3. CASE PowerLoss
  BY <1>3 DEF PowerLoss, LoneInv, Gathering, Active, NotYounger
\* The thread at work is the one that waits for the cycle, so none gathers.
<1>4. CASE CycleDone
  <2>1. /\ busy /\ ~busy' /\ UNCHANGED <<pc, next, snap, overlap>>
    BY <1>4 DEF CycleDone, thrVars
  <2>2. ~overlap => \A h \in Handlers : ~Gathering(h)
    BY <2>1 DEF LoneInv, Active, Gathering
  <2> QED BY <2>1, <2>2 DEF LoneInv, Active, Gathering, NotYounger
<1>5. ASSUME NEW h \in Handlers, Message(h) PROVE LoneInv'
  BY <1>5 DEF Message, At, memVars, TypeOK, LoneInv, Gathering, Active, NotYounger
\* Unless it falls into another update, the EEPROM is at rest.
<1>6. ASSUME NEW h \in Handlers, WriteRegister(h) PROVE LoneInv'
  <2>1. /\ pc[h] = "register" /\ next'[h] = 1 /\ pc'[h] = "gather"
        /\ \A g \in Handlers \ {h} : pc'[g] = pc[g] /\ next'[g] = next[g]
        /\ ~overlap' => \A g \in Handlers \ {h} : pc[g] = "idle"
        /\ UNCHANGED <<page, prog, busy>>
    BY <1>6 DEF WriteRegister, At, memVars, TypeOK
  <2>2. busy' => \E g \in Handlers : pc'[g] = "wait"
    BY <2>1 DEF LoneInv
  <2>3. ~overlap' => ~busy'
    BY <2>1 DEF LoneInv
  <2>4. \A g \in Handlers : pc'[g] = "write" => next'[g] = NumParams + 1
    BY <2>1 DEF LoneInv
  <2>5. ASSUME ~overlap', NEW g \in Handlers, Active(g)' PROVE g = h
    BY <2>1, <2>5 DEF Active
  <2>6. ASSUME ~overlap', NEW g \in Handlers, NEW p \in Params, Gathering(g)'
        PROVE  ~(p < next'[g])
    <3>1. g = h  BY <2>1, <2>6 DEF Gathering
    <3> QED BY <2>1, <3>1 DEF Params
  <2> QED BY <2>2, <2>3, <2>4, <2>5, <2>6 DEF LoneInv
\* What is gathered is not younger than what the EEPROM holds.
<1>7. ASSUME NEW h \in Handlers, Gather(h) PROVE LoneInv'
  <2>1. /\ up /\ pc[h] = "gather" /\ pc'[h] \in {"gather", "write"}
        /\ pc'[h] = "write" => next[h] = NumParams
        /\ next[h] \in Params /\ next'[h] = next[h] + 1
        /\ snap'[h] = [snap[h] EXCEPT ![next[h]] = reg[next[h]]]
        /\ \A g \in Handlers \ {h} : pc'[g] = pc[g] /\ next'[g] = next[g] /\ snap'[g] = snap[g]
        /\ UNCHANGED <<reg, page, prog, busy, overlap>>
    BY <1>7 DEF Gather, At, memVars, TypeOK, Params
  <2>2. \A p \in Params : NotYounger(page[p], reg[p])
    BY <2>1 DEF AgeInv, Old, NotYounger
  <2>3. busy' => \E g \in Handlers : pc'[g] = "wait"
    BY <2>1 DEF LoneInv
  <2>4. \A g \in Handlers : pc'[g] = "write" => next'[g] = NumParams + 1
    BY <2>1 DEF LoneInv
  <2>5. \A g \in Handlers : (Active(g)' => Active(g)) /\ (Gathering(g)' => Gathering(g))
    BY <2>1 DEF Active, Gathering
  <2>6. ASSUME ~overlap, NEW g \in Handlers, NEW p \in Params, Gathering(g)', p < next'[g]
        PROVE  NotYounger(page[p], snap'[g][p])
    <3>1. CASE g = h /\ p = next[h]
      <4>1. snap'[g][p] = reg[p]  BY <2>1, <3>1 DEF TypeOK
      <4> QED BY <2>2, <4>1
    <3>2. CASE g = h /\ p # next[h]
      <4>1. p < next[h]  BY <2>1, <2>6, <3>2 DEF Params
      <4>2. snap'[g][p] = snap[g][p]  BY <2>1, <3>2 DEF TypeOK
      <4> QED BY <2>5, <2>6, <3>2, <4>1, <4>2 DEF LoneInv
    <3>3. CASE g # h
      BY <2>1, <2>5, <2>6, <3>3 DEF LoneInv
    <3> QED BY <3>1, <3>2, <3>3
  <2>7. ASSUME ~overlap, NEW f \in Handlers, NEW g \in Handlers, Active(f)', Active(g)'
        PROVE  f = g
    BY <2>5, <2>7 DEF LoneInv
  <2>8. ~overlap /\ busy => \A p \in Params : NotYounger(page[p], prog[p])
    BY DEF LoneInv
  <2>9. ~overlap' /\ busy' => \A p \in Params : NotYounger(page[p], prog[p])'
    BY <2>1, <2>8 DEF NotYounger
  <2>10. \A g \in Handlers, p \in Params :
           ~overlap' /\ Gathering(g)' /\ p < next'[g] => NotYounger(page[p], snap[g][p])'
    BY <2>1, <2>6 DEF NotYounger
  <2> QED BY <2>1, <2>3, <2>4, <2>7, <2>9, <2>10 DEF LoneInv
\* A page that is complete goes to the EEPROM.
<1>8. ASSUME NEW h \in Handlers, EepromWrite(h) PROVE LoneInv'
  <2>1. /\ pc[h] = "write" /\ pc'[h] = "wait" /\ prog' = snap[h]
        /\ \A g \in Handlers \ {h} : pc'[g] = pc[g]
        /\ UNCHANGED <<page, next, snap, overlap>>
    BY <1>8 DEF EepromWrite, At, TypeOK
  <2>2. \A p \in Params : p < next[h]  BY <2>1 DEF LoneInv, Params
  <2>3. ~overlap => \A p \in Params : NotYounger(page[p], snap[h][p])
    BY <2>1, <2>2 DEF LoneInv, Gathering
  <2> QED BY <2>1, <2>3 DEF LoneInv, Gathering, Active, NotYounger
<1>9. ASSUME NEW h \in Handlers, EepromWriteFails(h) PROVE LoneInv'
  BY <1>9 DEF EepromWriteFails, At, memVars, TypeOK, LoneInv, Gathering, Active, NotYounger
<1>10. ASSUME NEW h \in Handlers, Reported(h) PROVE LoneInv'
  BY <1>10 DEF Reported, At, memVars, TypeOK, LoneInv, Gathering, Active, NotYounger
<1> QED
  BY <1>1, <1>2, <1>3, <1>4, <1>5, <1>6, <1>7, <1>8, <1>9, <1>10 DEF Next, Handler

\* The EEPROM changes at the end of a cycle, or of the power within it.
LEMMA PageAges ==
  ASSUME TypeOK, AgeInv, LoneInv, [Next]_vars, ~overlap, NEW p \in Params
  PROVE  page[p] = Junk \/ page'[p] >= page[p]
<1> USE Constants
<1>1. page'[p] = page[p] \/ (busy /\ page'[p] = prog[p])
  <2>1. CASE PowerLoss  BY <2>1 DEF PowerLoss
  <2>2. CASE CycleDone  BY <2>2 DEF CycleDone
  <2>3. CASE ~PowerLoss /\ ~CycleDone
    BY <2>3 DEF Next, vars, memVars, Boot, Handler, Message, WriteRegister, Gather, EepromWrite,
                EepromWriteFails, Reported
  <2> QED BY <2>1, <2>2, <2>3
<1>2. page[p] = Junk \/ page[p] \in Nat  BY DEF TypeOK, Stored, Values
<1> QED BY <1>1, <1>2 DEF LoneInv, NotYounger

-----------------------------------------------------------------------------
(* EEPROM and registers agree.                                             *)

\* Unless updates overlap, what the thread at work has gathered, what it gives
\* the EEPROM and, when it is done, what the EEPROM holds is what the registers
\* hold.
SyncInv ==
  up /\ ~overlap =>
    /\ \A h \in Handlers, p \in Params : Gathering(h) /\ p < next[h] => snap[h][p] = reg[p]
    /\ \A h \in Handlers : pc[h] = "wait" => IF busy THEN prog = reg ELSE page = reg
    /\ lastOk /\ (\A h \in Handlers : ~Active(h)) => page = reg

LEMMA InitSync == Init => SyncInv
BY DEF Init, SyncInv

LEMMA NextSyncInv == TypeOK /\ AgeInv /\ LoneInv /\ SyncInv /\ [Next]_vars => SyncInv'
<1> SUFFICES ASSUME TypeOK, AgeInv, LoneInv, SyncInv, [Next]_vars PROVE SyncInv'  OBVIOUS
<1>1. CASE UNCHANGED vars
  BY <1>1 DEF vars, memVars, thrVars, SyncInv, Gathering, Active
<1>2. CASE Boot
  BY <1>2 DEF Boot, EepromDisperseData, memVars, thrVars, AgeInv, SyncInv, Gathering, Active
<1>3. CASE PowerLoss  BY <1>3 DEF PowerLoss, SyncInv
\* The thread that waits for the cycle is the only one at work.
<1>4. CASE CycleDone
  <2>1. /\ busy /\ ~busy' /\ page' = prog
        /\ UNCHANGED <<reg, prog, up, pc, next, snap, lastOk, overlap>>
    BY <1>4 DEF CycleDone, thrVars
  <2>2. \E h \in Handlers : pc[h] = "wait"  BY <2>1 DEF LoneInv
  <2> QED BY <2>1, <2>2 DEF SyncInv, Gathering, Active
<1>5. ASSUME NEW h \in Handlers, Message(h) PROVE SyncInv'
  BY <1>5 DEF Message, At, memVars, TypeOK, SyncInv, Gathering, Active
\* Nothing is gathered yet; a write into another update overlaps it.
<1>6. ASSUME NEW h \in Handlers, WriteRegister(h) PROVE SyncInv'
  <2>1. /\ next'[h] = 1 /\ pc'[h] = "gather"
        /\ \A g \in Handlers \ {h} : pc'[g] = pc[g]
        /\ overlap' = (\E g \in Handlers \ {h} : pc[g] # "idle")
    BY <1>6 DEF WriteRegister, At, TypeOK
  <2>2. ASSUME ~overlap', NEW g \in Handlers, Active(g)' PROVE g = h
    BY <2>1, <2>2 DEF Active
  <2>3. \A p \in Params : ~(p < next'[h])
    BY <2>1 DEF Params
  <2>4. ASSUME ~overlap', NEW g \in Handlers, NEW p \in Params, Gathering(g)'
        PROVE  ~(p < next'[g])
    <3>1. g = h  BY <2>2, <2>4 DEF Active, Gathering
    <3> QED BY <2>3, <3>1
  <2>5. ~overlap' => \A g \in Handlers : pc'[g] # "wait"
    <3> SUFFICES ASSUME ~overlap', NEW g \in Handlers PROVE pc'[g] # "wait"  OBVIOUS
    <3>1. CASE g = h  BY <2>1, <3>1
    <3>2. CASE g # h  BY <2>1, <3>2
    <3> QED BY <3>1, <3>2
  <2>6. Active(h)'  BY <2>1 DEF Active
  <2> QED BY <2>4, <2>5, <2>6 DEF SyncInv
<1>7. ASSUME NEW h \in Handlers, Gather(h) PROVE SyncInv'
  <2>1. /\ up /\ pc[h] = "gather" /\ pc'[h] \in {"gather", "write"}
        /\ next[h] \in Params /\ next'[h] = next[h] + 1
        /\ snap'[h] = [snap[h] EXCEPT ![next[h]] = reg[next[h]]]
        /\ \A g \in Handlers \ {h} : pc'[g] = pc[g] /\ next'[g] = next[g] /\ snap'[g] = snap[g]
        /\ UNCHANGED <<reg, page, prog, busy, overlap, up>>
    BY <1>7 DEF Gather, At, memVars, TypeOK, Params
  <2>2. Active(h)' /\ \A g \in Handlers : (Gathering(g)' => Gathering(g))
                                       /\ (pc'[g] = "wait" => pc[g] = "wait")
    BY <2>1 DEF Active, Gathering
  <2>3. ASSUME ~overlap, NEW g \in Handlers, NEW p \in Params, Gathering(g)', p < next'[g]
        PROVE  snap'[g][p] = reg[p]
    <3>1. CASE g = h /\ p = next[h]
      BY <2>1, <3>1 DEF TypeOK
    <3>2. CASE g = h /\ p # next[h]
      <4>1. p < next[h]  BY <2>1, <2>3, <3>2 DEF Params
      <4>2. snap'[g][p] = snap[g][p]  BY <2>1, <3>2 DEF TypeOK
      <4> QED BY <2>1, <2>2, <2>3, <3>2, <4>1, <4>2 DEF SyncInv
    <3>3. CASE g # h
      BY <2>1, <2>2, <2>3, <3>3 DEF SyncInv
    <3> QED BY <3>1, <3>2, <3>3
  <2> QED BY <2>1, <2>2, <2>3 DEF SyncInv
\* A page that is complete is what the registers hold.
<1>8. ASSUME NEW h \in Handlers, EepromWrite(h) PROVE SyncInv'
  <2>1. /\ up /\ pc[h] = "write" /\ pc'[h] = "wait" /\ prog' = snap[h] /\ busy'
        /\ \A g \in Handlers \ {h} : pc'[g] = pc[g]
        /\ UNCHANGED <<reg, page, next, snap, overlap, up>>
    BY <1>8 DEF EepromWrite, At, TypeOK
  <2>2. \A p \in Params : p < next[h]  BY <2>1, Constants DEF LoneInv, Params
  <2>3. ~overlap => \A p \in Params : snap[h][p] = reg[p]
    BY <2>1, <2>2 DEF SyncInv, Gathering
  <2>4. snap[h] \in [Params -> Stored] /\ reg \in [Params -> Stored]  BY DEF TypeOK
  <2>5. ~overlap => prog' = reg  BY <2>1, <2>3, <2>4
  <2>6. Active(h)' /\ \A g \in Handlers : Gathering(g)' => Gathering(g)
    BY <2>1 DEF Active, Gathering
  <2> QED BY <2>1, <2>5, <2>6 DEF SyncInv
<1>9. ASSUME NEW h \in Handlers, EepromWriteFails(h) PROVE SyncInv'
  BY <1>9 DEF EepromWriteFails, At, memVars, TypeOK, SyncInv, Gathering, Active
<1>10. ASSUME NEW h \in Handlers, Reported(h) PROVE SyncInv'
  BY <1>10 DEF Reported, At, memVars, TypeOK, SyncInv, Gathering, Active
<1> QED
  BY <1>1, <1>2, <1>3, <1>4, <1>5, <1>6, <1>7, <1>8, <1>9, <1>10 DEF Next, Handler

-----------------------------------------------------------------------------
(* Theorems.                                                               *)

LEMMA AlwaysInv == Spec => []SettingsInv
BY InitInv, NextSettingsInv, PTL DEF Spec

\* Registers, EEPROM and threads keep to their types.
THEOREM TypeCorrect == Spec => []TypeOK
<1>1. SettingsInv => TypeOK  BY DEF SettingsInv
<1> QED BY <1>1, AlwaysInv, PTL

\* When a thread gives the EEPROM its page, the page has the value the thread
\* is to store or a later one of that parameter (control.c:113-128), for any
\* number of clients and parameters.
THEOREM OwnValueStored == Spec => OwnStored
<1>1. SettingsInv /\ [Next]_vars =>
        [\A h \in Handlers :
           ~busy /\ busy' /\ pc[h] = "write" /\ pc'[h] = "wait"
             => prog'[addr[h]] \in own[h] .. MaxWrites]_vars
  BY PageIsOwn
<1> QED BY <1>1, AlwaysInv, PTL DEF Spec, OwnStored

LEMMA AlwaysAge == Spec => [](TypeOK /\ AgeInv /\ LoneInv /\ SyncInv)
<1>1. TypeOK /\ AgeInv /\ LoneInv /\ SyncInv /\ [Next]_vars
        => (TypeOK /\ AgeInv /\ LoneInv /\ SyncInv)'
  BY NextTypeOK, NextAgeInv, NextLoneInv, NextSyncInv
<1>2. Init => TypeOK /\ AgeInv /\ LoneInv /\ SyncInv
  BY InitInv, InitAge, InitSync DEF SettingsInv
<1> QED BY <1>1, <1>2, PTL DEF Spec

\* Unless updates overlap, no parameter in the EEPROM ever goes back to an older
\* value (at24eeprom.c:90), whatever transfers fail and whenever the power is
\* lost, for any number of clients, parameters and power losses.
THEOREM NeverRegresses == Spec => NoRegress
<1>1. TypeOK /\ AgeInv /\ LoneInv /\ [Next]_vars =>
        [~overlap => \A p \in Params : page[p] = Junk \/ page'[p] >= page[p]]_vars
  BY PageAges
<1> QED BY <1>1, AlwaysAge, PTL DEF Spec, NoRegress

\* After a boot that read the EEPROM, or an update that overlapped no other and
\* was reported as successful (control.c:113-128), the EEPROM holds what the
\* registers hold, whatever failed before and whenever the power was lost, for
\* any number of clients, parameters and power losses.
THEOREM ParametersPersist == Spec => []Persisted
<1>1. SyncInv => Persisted
  BY DEF SyncInv, Persisted, Quiet, Active
<1> QED BY <1>1, AlwaysAge, PTL

=============================================================================
