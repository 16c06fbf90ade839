--------------------------- MODULE PscServerProofs ---------------------------
(***************************************************************************)
(* Proofs about PscServer, for every number of slots, descriptors,         *)
(* connections and broadcasts: its types and the owner of each slot,       *)
(* whatever happens; then, unless a broadcast begins between               *)
(* psc_client_alloc and C->sock = client, and whichever sends fail, the    *)
(* refinement of PscFanout: every client that no failed send has hurt gets *)
(* every broadcast from its joining to its leaving, in one order, in whole *)
(* messages, on a descriptor of its own.                                   *)
(***************************************************************************)
EXTENDS PscServer, TLAPS

-----------------------------------------------------------------------------
(* Types, and the owner of each slot, whatever the clients do.             *)

\* A thread inside the body of psc_send's loop works on a slot of its range.
InLoop == {"body", "fail", "mark"}
IdxOK(t) ==
  /\ pc[t] \in InLoop => idx[t] < Limit(t)
  /\ pc[t] \in Sending => idx[t] <= Limit(t)
  /\ t \in Conns /\ pc[t] \in Sending => slot[t] <= idx[t]
IdxInv == \A t \in Senders : IdxOK(t)

\* A connection has no handler before psc_run creates it.
NewConn ==
  /\ \A c \in Conns : c > accepted => pc[c] = "none"
  /\ pc[Main] \in {"alloc", "drop", "assign"} =>
       accepted \in Conns /\ pc[accepted] = "none"

SlotInv == TypeOK /\ IdxInv /\ NewConn /\ SlotOwner

LEMMA InitSlotInv == Init => SlotInv
<1> SUFFICES ASSUME Init PROVE SlotInv
  OBVIOUS
<1> USE ServerAssumption DEF Init, Conns, Slots, Fds, Senders, Threads, ListenFd, NoSock
<1>1. TypeOK
  BY DEF TypeOK, Sending, MainPcs, HandlerPcs, Piece
<1>2. IdxInv
  BY DEF IdxInv, IdxOK, InLoop, Sending
<1>3. NewConn
  BY DEF NewConn
<1>4. SlotOwner
  BY DEF SlotOwner, Live
<1> QED
  BY <1>1, <1>2, <1>3, <1>4 DEF SlotInv

LEMMA LimitBound == ASSUME TypeOK, NEW t \in Senders PROVE Limit(t) \in 1 .. NumSlots
<1>1. CASE t \in Pushers
  BY <1>1, ServerAssumption DEF Limit
<1>2. CASE t \in Conns /\ t \notin Pushers
  <2>1. slot[t] \in Slots
    BY <1>2 DEF TypeOK
  <2>2. Limit(t) = slot[t] + 1
    BY <1>2 DEF Limit
  <2> QED
    BY <2>1, <2>2, ServerAssumption DEF Slots
<1> QED
  BY <1>1, <1>2 DEF Senders


LEMMA PcRunTypeOK == TypeOK /\ PscRun => TypeOK'
<1> SUFFICES ASSUME TypeOK, PscRun PROVE TypeOK'
  OBVIOUS
<1> USE DEF GoMain, MainPcs
<1>1. CASE Accept
  <2>1. accepted + 1 \in Conns /\ accepted' \in 0 .. MaxConns
    BY <1>1, ServerAssumption DEF TypeOK, Accept, Conns
  <2>2. fdTable' \in [Fds -> Conns \cup {Free, Listener}] /\ newFd' \in Fds
    BY <1>1, <2>1 DEF TypeOK, Accept, IsLowest, FreeFds
  <2>3. pc' \in [Threads -> {"idle"} \cup Sending \cup MainPcs \cup HandlerPcs]
    BY <1>1 DEF TypeOK, Accept
  <2> QED
    BY <1>1, <2>1, <2>2, <2>3 DEF TypeOK, Accept, slotVars, handlerVars, sendVars
<1>2. CASE AcceptError \/ SleepOver \/ ClientAllocFull
  <2>1. pc' \in [Threads -> {"idle"} \cup Sending \cup MainPcs \cup HandlerPcs]
    BY <1>2 DEF TypeOK, AcceptError, SleepOver, ClientAllocFull
  <2> QED
    BY <1>2, <2>1 DEF TypeOK, AcceptError, SleepOver, ClientAllocFull,
                      fdVars, slotVars, handlerVars, mainVars, sendVars
<1>3. CASE ClientAlloc
  <2>1. pc' \in [Threads -> {"idle"} \cup Sending \cup MainPcs \cup HandlerPcs]
    BY <1>3 DEF TypeOK, ClientAlloc
  <2>2. 0 \in Fds
    BY ServerAssumption DEF Fds
  <2>3. /\ used' \in [Slots -> BOOLEAN]
        /\ slotSock' \in [Slots -> Fds \cup {NoSock}]
        /\ newSlot' \in Slots
    BY <1>3, <2>2 DEF TypeOK, ClientAlloc, IsLowest, UnusedSlots
  <2> QED
    BY <1>3, <2>1, <2>3 DEF TypeOK, ClientAlloc, fdVars, handlerVars, sendVars
<1>4. CASE DropClient
  <2>1. pc' \in [Threads -> {"idle"} \cup Sending \cup MainPcs \cup HandlerPcs]
    BY <1>4 DEF TypeOK, DropClient
  <2>2. fdTable' \in [Fds -> Conns \cup {Free, Listener}]
    BY <1>4 DEF TypeOK, DropClient, CloseFd
  <2> QED
    BY <1>4, <2>1, <2>2 DEF TypeOK, DropClient, slotVars, handlerVars, mainVars, sendVars
<1>5. CASE AssignSock
  <2>1. pc' \in [Threads -> {"idle"} \cup Sending \cup MainPcs \cup HandlerPcs]
    BY <1>5 DEF TypeOK, AssignSock, HandlerPcs
  <2>2. slotSock' \in [Slots -> Fds \cup {NoSock}] /\ slot' \in [Conns -> Slots]
    BY <1>5 DEF TypeOK, AssignSock
  <2> QED
    BY <1>5, <2>1, <2>2 DEF TypeOK, AssignSock, fdVars, mainVars, sendVars
<1> QED
  BY <1>1, <1>2, <1>3, <1>4, <1>5 DEF PscRun

\* A send appends at most one piece to one connection.
LEMMA SendType ==
  ASSUME TypeOK, NEW t \in Senders, NEW f, NEW from, NEW ok \in {"loop", "body"},
         NEW part \in {"head", "body"}, Send(t, f, from, part, ok)
  PROVE  /\ pc' \in [Threads -> {"idle"} \cup Sending \cup MainPcs \cup HandlerPcs]
         /\ wire' \in [Conns -> Seq(Piece)]
         /\ pc[t] = from
         /\ pc' = [pc EXCEPT ![t] = ok] \/ pc' = [pc EXCEPT ![t] = "fail"]
<1>1. \A p \in {"head", "body", "cut"} : [part |-> p, msg |-> msg[t]] \in Piece
  BY DEF TypeOK, Piece
<1>2. ASSUME NEW c \in Conns, NEW p \in {"head", "body", "cut"},
             wire' = [wire EXCEPT ![c] = Append(@, [part |-> p, msg |-> msg[t]])]
      PROVE  wire' \in [Conns -> Seq(Piece)]
  BY <1>1, <1>2 DEF TypeOK
<1>3. wire' \in [Conns -> Seq(Piece)]
  <2>1. CASE UNCHANGED wire
    BY <2>1 DEF TypeOK
  <2>2. CASE \E c \in ConnOf(f), p \in {"head", "body", "cut"} :
               wire' = [wire EXCEPT ![c] = Append(@, [part |-> p, msg |-> msg[t]])]
    BY <1>2, <2>2 DEF ConnOf
  <2> QED
    BY <2>1, <2>2 DEF Send
<1>4. pc[t] = from /\ (pc' = [pc EXCEPT ![t] = ok] \/ pc' = [pc EXCEPT ![t] = "fail"])
  BY DEF Send, Go
<1>5. pc' \in [Threads -> {"idle"} \cup Sending \cup MainPcs \cup HandlerPcs]
  BY <1>4 DEF TypeOK, Sending
<1> QED
  BY <1>3, <1>4, <1>5

LEMMA SendStepTypeOK ==
  ASSUME TypeOK, IdxInv, NEW t \in Senders, SendStep(t) PROVE TypeOK'
<1>1. Limit(t) \in 1 .. NumSlots
  BY LimitBound
<1>2. CASE SkipSlot(t)
  <2>1. idx' \in [Senders -> 0 .. NumSlots]
    BY <1>1, <1>2, ServerAssumption DEF TypeOK, SkipSlot
  <2> QED
    BY <1>2, <2>1 DEF TypeOK, SkipSlot, fdVars, slotVars, handlerVars, mainVars
<1>3. CASE SendHead(t)
  <2>1. idx[t] \in Slots
    BY <1>1, <1>3, ServerAssumption DEF TypeOK, SendHead, Slots
  <2>2. sfd' \in [Senders -> Fds \cup {NoSock}]
    BY <1>3, <2>1 DEF TypeOK, SendHead
  <2>3. /\ pc' \in [Threads -> {"idle"} \cup Sending \cup MainPcs \cup HandlerPcs]
        /\ wire' \in [Conns -> Seq(Piece)]
    BY <1>3, SendType DEF SendHead
  <2> QED
    BY <1>3, <2>2, <2>3 DEF TypeOK, SendHead, fdVars, slotVars, handlerVars, mainVars
<1>4. CASE SendBody(t)
  <2>1. Send(t, sfd[t], "body", "body", "loop")
    BY <1>4 DEF SendBody
  <2>2. pc[t] = "body"
    BY <2>1, SendType
  <2>3. idx[t] + 1 \in 0 .. NumSlots
    BY <1>1, <2>2, ServerAssumption DEF IdxInv, IdxOK, InLoop, TypeOK
  <2>4. idx' \in [Senders -> 0 .. NumSlots]
    BY <1>4, <2>3 DEF TypeOK, SendBody
  <2>5. /\ pc' \in [Threads -> {"idle"} \cup Sending \cup MainPcs \cup HandlerPcs]
        /\ wire' \in [Conns -> Seq(Piece)]
    BY <2>1, SendType
  <2> QED
    BY <1>4, <2>4, <2>5 DEF TypeOK, SendBody, fdVars, slotVars, handlerVars, mainVars
<1>5. CASE FailClose(t)
  <2>1. pc' \in [Threads -> {"idle"} \cup Sending \cup MainPcs \cup HandlerPcs]
    BY <1>5 DEF TypeOK, FailClose, Go, Sending
  <2>2. fdTable' \in [Fds -> Conns \cup {Free, Listener}]
    BY <1>5 DEF TypeOK, FailClose, CloseFd
  <2>3. hurt' \subseteq Conns
    BY <1>5 DEF TypeOK, FailClose, Holders
  <2> QED
    BY <1>5, <2>1, <2>2, <2>3 DEF TypeOK, FailClose, slotVars, handlerVars, mainVars, sendVars
<1>6. CASE FailMark(t)
  <2>1. pc' \in [Threads -> {"idle"} \cup Sending \cup MainPcs \cup HandlerPcs]
    BY <1>6 DEF TypeOK, FailMark, Go, Sending
  <2>2. idx[t] + 1 \in 0 .. NumSlots
    BY <1>1, <1>6, ServerAssumption DEF IdxInv, IdxOK, InLoop, TypeOK, FailMark, Go
  <2>3. idx' \in [Senders -> 0 .. NumSlots]
    BY <1>6, <2>2 DEF TypeOK, FailMark
  <2>4. slotSock' \in [Slots -> Fds \cup {NoSock}]
    BY <1>6 DEF TypeOK, FailMark
  <2> QED
    BY <1>6, <2>1, <2>3, <2>4 DEF TypeOK, FailMark, fdVars, handlerVars, mainVars
<1>7. CASE Unlock(t)
  <2>1. pc' \in [Threads -> {"idle"} \cup Sending \cup MainPcs \cup HandlerPcs]
    BY <1>7 DEF TypeOK, Unlock, Go, HandlerPcs
  <2>2. /\ idx' \in [Senders -> 0 .. NumSlots]
        /\ sfd' \in [Senders -> Fds \cup {NoSock}]
        /\ msg' \in [Senders -> 0 .. MaxSends]
    BY <1>7, ServerAssumption DEF TypeOK, Unlock, Fds
  <2> QED
    BY <1>7, <2>1, <2>2 DEF TypeOK, Unlock, Release, fdVars, slotVars, handlerVars, mainVars
<1> QED
  BY <1>2, <1>3, <1>4, <1>5, <1>6, <1>7 DEF SendStep

LEMMA HandleClientTypeOK ==
  ASSUME TypeOK, NEW c \in Conns, HandleClient(c) PROVE TypeOK'
<1>1. pc' \in [Threads -> {"idle"} \cup Sending \cup MainPcs \cup HandlerPcs]
  <2>1. \E to \in HandlerPcs \cup Sending : pc' = [pc EXCEPT ![c] = to]
    <3>1. CASE HandlerStart(c) \/ GreetLock(c)
      BY <3>1 DEF HandlerStart, GreetLock, Go, HandlerPcs, Sending
    <3>2. CASE RecvCall(c)
      BY <3>2 DEF RecvCall, Go, HandlerPcs
    <3>3. CASE RecvMsg(c) \/ RecvFail(c)
      BY <3>3 DEF RecvMsg, RecvFail, Go, HandlerPcs
    <3>4. CASE ClientFree(c)
      BY <3>4 DEF ClientFree, Go, HandlerPcs
    <3>5. CASE HandlerClose(c)
      BY <3>5 DEF HandlerClose, Go, HandlerPcs
    <3> QED
      BY <3>1, <3>2, <3>3, <3>4, <3>5 DEF HandleClient
  <2> QED
    BY <2>1 DEF TypeOK
<1> USE <1>1 DEF HandleClient
<1>2. CASE HandlerStart(c)
  BY <1>2 DEF TypeOK, HandlerStart, fdVars, slotVars, mainVars, sendVars
<1>3. CASE GreetLock(c)
  <2>1. slot[c] \in 0 .. NumSlots
    BY ServerAssumption DEF TypeOK, Slots
  <2>2. idx' \in [Senders -> 0 .. NumSlots]
    BY <1>3, <2>1 DEF TypeOK, GreetLock
  <2>3. msg' \in [Senders -> 0 .. MaxSends]
    <3>1. 0 \in 0 .. MaxSends
      BY ServerAssumption
    <3> QED
      BY <1>3, <3>1 DEF TypeOK, GreetLock
  <2> QED
    BY <1>3, <2>2, <2>3 DEF TypeOK, GreetLock, Acquire, Senders, fdVars, slotVars, handlerVars, mainVars
<1>4. CASE RecvCall(c)
  <2>1. rconn' \in [Conns -> Conns]
    BY <1>4 DEF TypeOK, RecvCall, ConnOf
  <2> QED
    BY <1>4, <2>1 DEF TypeOK, RecvCall, fdVars, slotVars, mainVars, sendVars
<1>5. CASE RecvMsg(c) \/ RecvFail(c)
  BY <1>5 DEF TypeOK, RecvMsg, RecvFail, fdVars, slotVars, handlerVars, mainVars, sendVars
<1>6. CASE ClientFree(c)
  <2>1. used' \in [Slots -> BOOLEAN] /\ slotSock' \in [Slots -> Fds \cup {NoSock}]
    BY <1>6, ServerAssumption DEF TypeOK, ClientFree, Fds
  <2> QED
    BY <1>6, <2>1 DEF TypeOK, ClientFree, fdVars, handlerVars, mainVars, sendVars
<1>7. CASE HandlerClose(c)
  <2>1. /\ slot' \in [Conns -> Slots]
        /\ hfd' \in [Conns -> Fds \cup {NoSock}]
        /\ rconn' \in [Conns -> Conns]
    BY <1>7, ServerAssumption DEF TypeOK, HandlerClose, Slots, Fds
  <2>3. /\ since' \in [Conns -> 0 .. MaxSends]
        /\ wire' \in [Conns -> Seq(Piece)]
    <3>1. 0 \in 0 .. MaxSends /\ << >> \in Seq(Piece)
      BY ServerAssumption
    <3> QED
      BY <1>7, <3>1 DEF TypeOK, HandlerClose
  <2>2. fdTable' \in [Fds -> Conns \cup {Free, Listener}]
    BY <1>7 DEF TypeOK, HandlerClose, CloseFd
  <2> QED
    BY <1>7, <2>1, <2>2, <2>3 DEF TypeOK, HandlerClose, slotVars, mainVars, sendVars
<1> QED
  BY <1>2, <1>3, <1>4, <1>5, <1>6, <1>7

LEMMA NextTypeOK == TypeOK /\ IdxInv /\ [Next]_vars => TypeOK'
<1> SUFFICES ASSUME TypeOK, IdxInv, [Next]_vars PROVE TypeOK'
  OBVIOUS
<1>1. CASE PscRun
  BY <1>1, PcRunTypeOK
<1>2. ASSUME NEW t \in Pushers, SendLock(t) PROVE TypeOK'
  <2>1. pc' \in [Threads -> {"idle"} \cup Sending \cup MainPcs \cup HandlerPcs]
    BY <1>2 DEF TypeOK, SendLock, Go, Sending
  <2>2. sent + 1 \in 0 .. MaxSends /\ 0 \in 0 .. NumSlots
    BY <1>2, ServerAssumption DEF TypeOK, SendLock
  <2>3. msg' \in [Senders -> 0 .. MaxSends]
    BY <1>2, <2>2 DEF TypeOK, SendLock
  <2>4. idx' \in [Senders -> 0 .. NumSlots]
    BY <1>2, <2>2 DEF TypeOK, SendLock
  <2> QED
    BY <1>2, <2>1, <2>2, <2>3, <2>4 DEF TypeOK, SendLock, Acquire, Senders,
                            fdVars, slotVars, handlerVars, mainVars
<1>3. ASSUME NEW t \in Senders, SendStep(t) PROVE TypeOK'
  BY <1>3, SendStepTypeOK
<1>4. ASSUME NEW c \in Conns, HandleClient(c) PROVE TypeOK'
  BY <1>4, HandleClientTypeOK
<1>5. ASSUME NEW c \in Conns, PeerLeaves(c) PROVE TypeOK'
  BY <1>5 DEF TypeOK, PeerLeaves, slotVars, handlerVars, mainVars, sendVars
<1>6. CASE UNCHANGED vars
  BY <1>6 DEF TypeOK, vars, fdVars, slotVars, handlerVars, mainVars, sendVars
<1> QED
  BY <1>1, <1>2, <1>3, <1>4, <1>5, <1>6 DEF Next

\* A step of a sender leaves the other senders where they are.
LEMMA SenderFrame ==
  ASSUME TypeOK, NEW t \in Senders, SendStep(t)
  PROVE  /\ UNCHANGED <<slot, accepted, newSlot, used>>
         /\ pc[t] \in Sending
         /\ pc'[t] \in Sending \cup {"idle", "recv"}
         /\ \A u \in Threads \ {t} : pc'[u] = pc[u]
         /\ \A u \in Senders \ {t} : idx'[u] = idx[u]
<1> USE DEF Sending
<1>1. t \in Threads
  BY DEF Threads
<1>2. CASE SkipSlot(t)
  BY <1>1, <1>2 DEF SkipSlot, TypeOK, fdVars, slotVars, handlerVars, mainVars
<1>3. CASE SendHead(t)
  <2>1. pc[t] = "loop" /\ (pc' = [pc EXCEPT ![t] = "body"] \/ pc' = [pc EXCEPT ![t] = "fail"])
    BY <1>3, SendType DEF SendHead
  <2> QED
    BY <1>1, <1>3, <2>1 DEF SendHead, TypeOK, fdVars, slotVars, handlerVars, mainVars
<1>4. CASE SendBody(t)
  <2>1. pc[t] = "body" /\ (pc' = [pc EXCEPT ![t] = "loop"] \/ pc' = [pc EXCEPT ![t] = "fail"])
    BY <1>4, SendType DEF SendBody
  <2> QED
    BY <1>1, <1>4, <2>1 DEF SendBody, TypeOK, fdVars, slotVars, handlerVars, mainVars
<1>5. CASE FailClose(t)
  BY <1>1, <1>5 DEF FailClose, Go, TypeOK, slotVars, handlerVars, mainVars, sendVars
<1>6. CASE FailMark(t)
  BY <1>1, <1>6 DEF FailMark, Go, TypeOK, fdVars, handlerVars, mainVars
<1>7. CASE Unlock(t)
  BY <1>1, <1>7 DEF Unlock, Go, TypeOK, fdVars, slotVars, handlerVars, mainVars
<1> QED
  BY <1>2, <1>3, <1>4, <1>5, <1>6, <1>7 DEF SendStep

LEMMA HandlerFrame ==
  ASSUME TypeOK, NEW c \in Conns, HandleClient(c)
  PROVE  /\ UNCHANGED <<accepted, newSlot>>
         /\ \A u \in Threads \ {c} : pc'[u] = pc[u]
         /\ \A u \in Senders \ {c} : idx'[u] = idx[u]
         /\ \A d \in Conns \ {c} : slot'[d] = slot[d]
         /\ pc[c] # "none" /\ pc'[c] # "none"
         /\ \/ GreetLock(c)
            \/ /\ idx' = idx
               /\ pc[c] \notin Sending /\ pc'[c] \notin Sending
<1> USE DEF fdVars, slotVars, handlerVars, mainVars, sendVars, Sending, Go
<1>1. c \in Threads /\ c \in Senders
  BY DEF Threads, Senders
<1>2. CASE HandlerStart(c)
  BY <1>1, <1>2 DEF HandlerStart, TypeOK
<1>3. CASE GreetLock(c)
  BY <1>1, <1>3 DEF GreetLock, TypeOK
<1>4. CASE RecvCall(c)
  BY <1>1, <1>4 DEF RecvCall, TypeOK
<1>5. CASE RecvMsg(c) \/ RecvFail(c)
  BY <1>1, <1>5 DEF RecvMsg, RecvFail, TypeOK
<1>6. CASE ClientFree(c)
  BY <1>1, <1>6 DEF ClientFree, TypeOK
<1>7. CASE HandlerClose(c)
  BY <1>1, <1>7 DEF HandlerClose, TypeOK
<1> QED
  BY <1>2, <1>3, <1>4, <1>5, <1>6, <1>7 DEF HandleClient

LEMMA PcRunFrame ==
  ASSUME TypeOK, PscRun
  PROVE  /\ UNCHANGED <<idx, sfd, msg, wire, guard, hfd>>
         /\ \A u \in Senders : \/ pc'[u] = pc[u] /\ (u \in Conns => slot'[u] = slot[u])
                               \/ AssignSock /\ u = accepted /\ pc'[u] = "start"
<1> USE DEF fdVars, slotVars, handlerVars, mainVars, sendVars, GoMain
<1>1. /\ \A u \in Senders : u # Main /\ u \in Threads
      /\ Conns \subseteq Senders
  BY ServerAssumption DEF Threads, Senders
<1>2. CASE Accept
  BY <1>1, <1>2 DEF Accept, TypeOK
<1>3. CASE AcceptError \/ SleepOver \/ ClientAllocFull \/ DropClient
  BY <1>1, <1>3 DEF AcceptError, SleepOver, ClientAllocFull, DropClient, TypeOK
<1>4. CASE ClientAlloc
  BY <1>1, <1>4 DEF ClientAlloc, TypeOK
<1>5. CASE AssignSock
  BY <1>1, <1>5 DEF AssignSock, TypeOK
<1> QED
  BY <1>2, <1>3, <1>4, <1>5 DEF PscRun

LEMMA NextIdxInv == TypeOK /\ IdxInv /\ [Next]_vars => IdxInv'
<1> SUFFICES ASSUME TypeOK, IdxInv, [Next]_vars, NEW u \in Senders
             PROVE  IdxOK(u)'
  BY DEF IdxInv
<1>1. IdxOK(u)
  BY DEF IdxInv
<1>2. ASSUME pc'[u] = pc[u], idx'[u] = idx[u], u \in Conns => slot'[u] = slot[u]
      PROVE  IdxOK(u)'
  <2>1. Limit(u)' = Limit(u)
    BY <1>2 DEF Limit, Senders
  <2> QED
    BY <1>1, <1>2, <2>1 DEF IdxOK
<1>3. ASSUME pc'[u] \notin Sending PROVE IdxOK(u)'
  BY <1>3 DEF IdxOK, Sending, InLoop
<1>4. CASE PscRun
  <2>1. CASE pc'[u] = pc[u] /\ (u \in Conns => slot'[u] = slot[u])
    BY <1>2, <1>4, <2>1, PcRunFrame
  <2>2. CASE pc'[u] = "start"
    BY <1>3, <2>2 DEF Sending
  <2> QED
    BY <1>4, <2>1, <2>2, PcRunFrame
<1>5. ASSUME NEW t \in Pushers, SendLock(t) PROVE IdxOK(u)'
  <2>1. CASE u = t
    <3>1. u \in Pushers /\ u \notin Conns
      BY <2>1, ServerAssumption
    <3>2. idx'[u] = 0 /\ pc'[u] = "loop"
      BY <1>5, <2>1 DEF SendLock, Go, TypeOK, Threads, Senders
    <3>3. Limit(u)' \in Nat
      BY <3>1, ServerAssumption DEF Limit
    <3> QED
      BY <3>1, <3>2, <3>3 DEF IdxOK, InLoop
  <2>2. CASE u # t
    BY <1>2, <1>5, <2>2 DEF SendLock, Go, TypeOK, handlerVars
  <2> QED
    BY <2>1, <2>2
<1>6. ASSUME NEW t \in Senders, SendStep(t) PROVE IdxOK(u)'
  <2>1. slot' = slot
    BY <1>6, SenderFrame
  <2>2. CASE u # t
    BY <1>2, <1>6, <2>1, <2>2, SenderFrame DEF Threads
  <2>3. CASE u = t
    <3> USE <2>3
    <3>1. /\ Limit(u)' = Limit(u) /\ Limit(u) \in Nat /\ idx[u] \in Nat
          /\ u \in Conns => slot[u] \in Nat
      BY <2>1, LimitBound, ServerAssumption DEF Limit, TypeOK, Slots
    <3>2. CASE SkipSlot(t)
      <4>1. idx'[u] = idx[u] + 1 /\ pc'[u] = "loop" /\ pc[u] = "loop" /\ idx[u] < Limit(u)
        BY <3>2 DEF SkipSlot, TypeOK
      <4> QED
        BY <1>1, <2>1, <3>1, <4>1 DEF IdxOK, InLoop, Sending
    <3>3. CASE SendHead(t)
      <4>1. /\ idx'[u] = idx[u] /\ pc[u] = "loop" /\ idx[u] < Limit(u)
            /\ pc' = [pc EXCEPT ![t] = "body"] \/ pc' = [pc EXCEPT ![t] = "fail"]
        BY <3>3, SendType DEF SendHead
      <4> QED
        BY <1>1, <2>1, <3>1, <4>1 DEF IdxOK, InLoop, Sending
    <3>4. CASE SendBody(t)
      <4>1. /\ pc[u] = "body"
            /\ pc' = [pc EXCEPT ![t] = "loop"] \/ pc' = [pc EXCEPT ![t] = "fail"]
        BY <3>4, SendType DEF SendBody
      <4>2. pc'[u] = "loop" \/ pc'[u] = "fail"
        BY <4>1 DEF TypeOK, Threads
      <4>3. idx'[u] = IF pc'[u] = "loop" THEN idx[u] + 1 ELSE idx[u]
        BY <3>4 DEF SendBody, TypeOK
      <4> QED
        BY <1>1, <2>1, <3>1, <4>1, <4>2, <4>3 DEF IdxOK, InLoop, Sending
    <3>5. CASE FailClose(t)
      <4>1. idx'[u] = idx[u] /\ pc[u] = "fail"
        BY <3>5 DEF FailClose, Go, sendVars
      <4> QED
        BY <1>1, <2>1, <3>1, <4>1 DEF IdxOK, InLoop, Sending
    <3>6. CASE FailMark(t)
      <4>1. idx'[u] = idx[u] + 1 /\ pc[u] = "mark" /\ pc'[u] = "loop"
        BY <3>6 DEF FailMark, Go, TypeOK, Threads
      <4> QED
        BY <1>1, <2>1, <3>1, <4>1 DEF IdxOK, InLoop, Sending
    <3>7. CASE Unlock(t)
      <4>1. pc'[u] \notin Sending
        BY <3>7 DEF Unlock, Go, TypeOK, Threads, Sending
      <4> QED
        BY <1>3, <4>1
    <3> QED
      BY <1>6, <3>2, <3>3, <3>4, <3>5, <3>6, <3>7 DEF SendStep
  <2> QED
    BY <2>2, <2>3
<1>7. ASSUME NEW c \in Conns, HandleClient(c) PROVE IdxOK(u)'
  <2>1. CASE u # c
    <3>1. u \in Conns => slot'[u] = slot[u]
      BY <1>7, <2>1, HandlerFrame
    <3> QED
      BY <1>2, <1>7, <2>1, <3>1, HandlerFrame DEF Threads
  <2>2. CASE u = c /\ GreetLock(c)
    <3>1. u \notin Pushers /\ u \in Conns
      BY <2>2, ServerAssumption
    <3>2. idx'[u] = slot[u] /\ pc'[u] = "loop" /\ slot'[u] = slot[u]
      BY <2>2 DEF GreetLock, Go, TypeOK, Threads, handlerVars
    <3>3. slot[u] \in Nat /\ Limit(u)' = slot[u] + 1
      BY <3>1, <3>2, ServerAssumption DEF Limit, TypeOK, Slots
    <3> QED
      BY <3>2, <3>3 DEF IdxOK, InLoop
  <2>3. CASE u = c /\ ~GreetLock(c)
    BY <1>3, <1>7, <2>3, HandlerFrame
  <2> QED
    BY <2>1, <2>2, <2>3
<1>8. ASSUME NEW c \in Conns, PeerLeaves(c) PROVE IdxOK(u)'
  BY <1>2, <1>8 DEF PeerLeaves, sendVars, handlerVars
<1>9. CASE UNCHANGED vars
  BY <1>2, <1>9 DEF vars, sendVars, handlerVars
<1> QED
  BY <1>4, <1>5, <1>6, <1>7, <1>8, <1>9 DEF Next

LEMMA NextNewConn == TypeOK /\ NewConn /\ [Next]_vars => NewConn'
<1> SUFFICES ASSUME TypeOK, NewConn, [Next]_vars PROVE NewConn'
  OBVIOUS
<1>0. Main \notin Conns /\ Main \notin Senders /\ Main \in Threads /\ Conns \subseteq Threads
  BY ServerAssumption DEF Threads, Senders
<1>1. CASE PscRun
  <2> USE <1>0 DEF GoMain, fdVars, TypeOK
  <2>1. CASE Accept
    <3>1. accepted + 1 \in Conns /\ accepted \in Nat
      BY <2>1, ServerAssumption DEF Accept, Conns
    <3>2. accepted' = accepted + 1 /\ \A c \in Conns : pc'[c] = pc[c]
      BY <2>1 DEF Accept
    <3>3. \A c \in Conns : c \in Nat
      BY ServerAssumption DEF Conns
    <3> QED
      BY <3>1, <3>2, <3>3 DEF NewConn
  <2>2. CASE AcceptError \/ SleepOver \/ ClientAllocFull
    BY <2>2 DEF AcceptError, SleepOver, ClientAllocFull, NewConn
  <2>3. CASE ClientAlloc
    BY <2>3 DEF ClientAlloc, NewConn
  <2>4. CASE DropClient
    BY <2>4 DEF DropClient, NewConn
  <2>5. CASE AssignSock
    <3>1. /\ \A c \in Conns : c # accepted => pc'[c] = pc[c]
          /\ pc'[Main] = "accept" /\ accepted' = accepted
      <4>1. accepted \in Conns
        BY <2>5 DEF AssignSock, NewConn
      <4> QED
        BY <2>5, <4>1 DEF AssignSock
    <3>2. \A c \in Conns : ~(c > c)
      BY ServerAssumption DEF Conns
    <3> QED
      BY <3>1, <3>2 DEF NewConn
  <2> QED
    BY <1>1, <2>1, <2>2, <2>3, <2>4, <2>5 DEF PscRun
<1>2. ASSUME accepted' = accepted, pc'[Main] = pc[Main],
             \A c \in Conns : pc[c] = "none" => pc'[c] = "none"
      PROVE  NewConn'
  BY <1>2 DEF NewConn
<1>3. ASSUME NEW t \in Pushers, SendLock(t) PROVE NewConn'
  <2>1. t \notin Conns /\ t # Main
    BY ServerAssumption DEF Threads, Senders
  <2> QED
    BY <1>0, <1>2, <1>3, <2>1 DEF SendLock, Go, TypeOK, fdVars
<1>4. ASSUME NEW t \in Senders, SendStep(t) PROVE NewConn'
  <2>1. /\ accepted' = accepted /\ pc[t] # "none"
        /\ \A u \in Threads \ {t} : pc'[u] = pc[u]
    BY <1>4, SenderFrame DEF Sending
  <2> QED
    BY <1>0, <1>2, <2>1
<1>5. ASSUME NEW c \in Conns, HandleClient(c) PROVE NewConn'
  <2>1. /\ accepted' = accepted /\ pc[c] # "none"
        /\ \A u \in Threads \ {c} : pc'[u] = pc[u]
    BY <1>5, HandlerFrame
  <2> QED
    BY <1>0, <1>2, <2>1
<1>6. ASSUME NEW c \in Conns, PeerLeaves(c) PROVE NewConn'
  BY <1>2, <1>6 DEF PeerLeaves
<1>7. CASE UNCHANGED vars
  BY <1>2, <1>7 DEF vars, fdVars
<1> QED
  BY <1>1, <1>3, <1>4, <1>5, <1>6, <1>7 DEF Next

LEMMA NextSlotOwner == TypeOK /\ NewConn /\ SlotOwner /\ [Next]_vars => SlotOwner'
<1> SUFFICES ASSUME TypeOK, NewConn, SlotOwner, [Next]_vars PROVE SlotOwner'
  OBVIOUS
<1>0. Main \notin Conns /\ Main \notin Senders /\ Main \in Threads /\ Conns \subseteq Threads
  BY ServerAssumption DEF Threads, Senders
<1>1. ASSUME Live' = Live, \A c \in Live : slot'[c] = slot[c], used' = used,
             (pc'[Main] = "assign") = (pc[Main] = "assign"), newSlot' = newSlot
      PROVE  SlotOwner'
  BY <1>1 DEF SlotOwner
<1>2. CASE PscRun
  <2> USE <1>0 DEF GoMain, slotVars, handlerVars, mainVars, TypeOK
  <2>1. CASE Accept
    <3>1. Live' = Live
      BY <2>1 DEF Accept, Live
    <3> QED
      BY <1>1, <2>1, <3>1 DEF Accept
  <2>2. CASE AcceptError \/ SleepOver \/ ClientAllocFull
    <3>1. Live' = Live
      BY <2>2 DEF AcceptError, SleepOver, ClientAllocFull, Live
    <3> QED
      BY <1>1, <2>2, <3>1 DEF AcceptError, SleepOver, ClientAllocFull
  <2>3. CASE DropClient
    <3>1. Live' = Live
      BY <2>3 DEF DropClient, Live
    <3> QED
      BY <1>1, <2>3, <3>1 DEF DropClient
  <2>4. CASE ClientAlloc
    <3>1. Live' = Live /\ slot' = slot
      BY <2>4 DEF ClientAlloc, Live
    <3>2. /\ newSlot' \in Slots /\ ~used[newSlot']
          /\ used' = [used EXCEPT ![newSlot'] = TRUE]
          /\ pc[Main] = "alloc" /\ pc'[Main] = "assign"
      BY <2>4 DEF ClientAlloc, IsLowest, UnusedSlots
    <3>3. \A c \in Live : slot[c] # newSlot'
      BY <3>2 DEF SlotOwner
    <3> QED
      BY <3>1, <3>2, <3>3 DEF SlotOwner
  <2>5. CASE AssignSock
    <3>1. accepted \in Conns /\ accepted \notin Live
      BY <2>5 DEF AssignSock, NewConn, Live
    <3>2. /\ Live' = Live \cup {accepted}
          /\ slot'[accepted] = newSlot /\ \A c \in Live : slot'[c] = slot[c]
          /\ pc[Main] = "assign" /\ pc'[Main] = "accept"
          /\ used' = used
      <4>1. /\ pc[Main] = "assign" /\ pc'[Main] = "accept" /\ pc'[accepted] = "start"
            /\ \A c \in Conns : c # accepted => pc'[c] = pc[c]
        BY <2>5, <3>1 DEF AssignSock
      <4>2. slot' = [slot EXCEPT ![accepted] = newSlot] /\ used' = used
        BY <2>5 DEF AssignSock
      <4>3. Live' = Live \cup {accepted}
        BY ONLY <3>1, <4>1 DEF Live
      <4>4. slot'[accepted] = newSlot /\ \A c \in Live : slot'[c] = slot[c]
        <5>1. slot \in [Conns -> Slots] /\ Live \subseteq Conns
          BY DEF Live
        <5> QED BY ONLY <3>1, <4>2, <5>1
      <4> QED BY <4>1, <4>2, <4>3, <4>4
    <3> HIDE <1>0 DEF TypeOK
    <3>3. /\ \A c \in Live : slot[c] # newSlot
          /\ \A c, d \in Live : slot[c] = slot[d] => c = d
      BY <3>2 DEF SlotOwner
    <3>4. ASSUME NEW c \in Live', NEW d \in Live', slot'[c] = slot'[d] PROVE c = d
      BY <3>2, <3>3, <3>4
    <3>5. ASSUME NEW s \in Slots PROVE used'[s] <=> \E c \in Live' : slot'[c] = s
      <4>1. used[s] <=> \/ \E c \in Live : slot[c] = s
                        \/ newSlot = s
        BY <3>2 DEF SlotOwner
      <4> QED
        BY <3>2, <4>1
    <3> QED
      BY <3>2, <3>4, <3>5 DEF SlotOwner
  <2> QED
    BY <1>2, <2>1, <2>2, <2>3, <2>4, <2>5 DEF PscRun
<1>3. ASSUME NEW t \in Pushers, SendLock(t) PROVE SlotOwner'
  <2>1. t \notin Conns /\ t # Main
    BY ServerAssumption DEF Threads, Senders
  <2>2. Live' = Live /\ pc'[Main] = pc[Main]
    BY <1>0, <1>3, <2>1 DEF SendLock, Go, TypeOK, Live
  <2> QED
    BY <1>1, <1>3, <2>2 DEF SendLock, slotVars, handlerVars, mainVars
<1>4. ASSUME NEW t \in Senders, SendStep(t) PROVE SlotOwner'
  <2>1. /\ UNCHANGED <<slot, newSlot, used>>
        /\ pc[t] \in Sending
        /\ pc'[t] \in Sending \cup {"idle", "recv"}
        /\ \A u \in Threads \ {t} : pc'[u] = pc[u]
    BY <1>4, SenderFrame
  <2>2. Live' = Live
    BY <1>0, <2>1 DEF Live, Sending
  <2> QED
    BY <1>0, <1>1, <2>1, <2>2
<1>5. ASSUME NEW c \in Conns, HandleClient(c) PROVE SlotOwner'
  <2> USE <1>0 DEF Go, slotVars, handlerVars, mainVars, TypeOK
  <2>1. CASE HandlerStart(c)
    <3>1. Live' = Live
      BY <2>1 DEF HandlerStart, Live
    <3> QED
      BY <1>1, <2>1, <3>1 DEF HandlerStart
  <2>2. CASE GreetLock(c)
    <3>1. Live' = Live
      BY <2>2 DEF GreetLock, Live
    <3> QED
      BY <1>1, <2>2, <3>1 DEF GreetLock
  <2>3. CASE RecvCall(c)
    <3>1. Live' = Live
      BY <2>3 DEF RecvCall, Live
    <3> QED
      BY <1>1, <2>3, <3>1 DEF RecvCall
  <2>4. CASE RecvMsg(c) \/ RecvFail(c)
    <3>1. Live' = Live
      BY <2>4 DEF RecvMsg, RecvFail, Live
    <3> QED
      BY <1>1, <2>4, <3>1 DEF RecvMsg, RecvFail
  <2>5. CASE ClientFree(c)
    <3>1. /\ c \in Live /\ Live' = Live \ {c}
          /\ slot' = slot /\ newSlot' = newSlot /\ pc'[Main] = pc[Main]
          /\ used' = [used EXCEPT ![slot[c]] = FALSE]
      BY <2>5 DEF ClientFree, Live
    <3> QED
      BY <3>1 DEF SlotOwner
  <2>6. CASE HandlerClose(c)
    <3>1. c \notin Live /\ Live' = Live
      BY <2>6 DEF HandlerClose, Live
    <3>2. \A d \in Live : slot'[d] = slot[d]
      BY <2>6, <3>1 DEF HandlerClose, Live
    <3> QED
      BY <1>1, <2>6, <3>1, <3>2 DEF HandlerClose
  <2> QED
    BY <1>5, <2>1, <2>2, <2>3, <2>4, <2>5, <2>6 DEF HandleClient
<1>6. ASSUME NEW c \in Conns, PeerLeaves(c) PROVE SlotOwner'
  BY <1>1, <1>6 DEF PeerLeaves, slotVars, handlerVars, mainVars, Live
<1>7. CASE UNCHANGED vars
  BY <1>1, <1>7 DEF vars, slotVars, handlerVars, mainVars, Live
<1> QED
  BY <1>2, <1>3, <1>4, <1>5, <1>6, <1>7 DEF Next

LEMMA SlotInvariant == Spec => []SlotInv
<1>1. SlotInv /\ [Next]_vars => SlotInv'
  BY NextTypeOK, NextIdxInv, NextNewConn, NextSlotOwner DEF SlotInv
<1> QED
  BY InitSlotInv, <1>1, PTL DEF Spec

(* Every variable of the server keeps its type, whatever its clients do: no
   loop index of psc_send leaves the slots, no descriptor the table. *)
THEOREM TypeCorrect == Spec => []TypeOK
<1>1. SlotInv => TypeOK
  BY DEF SlotInv
<1> QED
  BY SlotInvariant, <1>1, PTL

(* However many clients come and go, and whichever sends fail, the bits of
   clients_used name exactly the slots in use and no two threads work on one
   slot (psc_client_alloc, psc_client_free and handle_client). *)
THEOREM SlotsOwned == Spec => []SlotOwner
<1>1. SlotInv => SlotOwner
  BY DEF SlotInv
<1> QED
  BY SlotInvariant, <1>1, PTL

-----------------------------------------------------------------------------
(* The clients that nothing has hurt.                                      *)

\* Only the holder of sendguard sends, and while a broadcast is under way
\* psc_run has no slot without its socket.
GuardInv ==
  /\ \A t \in Senders : pc[t] \in Sending <=> guard = t
  /\ guard \in Pushers => pc[Main] # "assign"

\* The connections that a handler has yet to close, and the one psc_run has.
Holding == {c \in Conns : pc[c] \notin {"none", "dead"}}
MainBusy == pc[Main] \in {"alloc", "drop", "assign"}

\* Whatever fails: a connection has one descriptor at most, and a thread that
\* will close it; nobody will close the listening socket.
FdInv ==
  /\ ListenerOpen
  /\ \A f, g \in Fds : fdTable[f] \in Conns /\ fdTable[f] = fdTable[g] => f = g
  /\ \A f \in Fds, c \in Conns : fdTable[f] = c =>
        \/ c \in Holding /\ OwnFd(c) = f
        \/ MainBusy /\ accepted = c /\ newFd = f
  /\ \A c \in Live : slotSock[slot[c]] \in {OwnFd(c), NoSock}
  /\ \A c \in Holding : OwnFd(c) # ListenFd
  /\ MainBusy => newFd # ListenFd

\* A connection that is not hurt has its descriptor for itself.
HurtInv ==
  /\ \A c \in hurt : c <= accepted
  /\ \A c \in Holding \ hurt :
       /\ OwnFd(c) \in Fds /\ fdTable[OwnFd(c)] = c
       /\ \A d \in Holding : OwnFd(d) = OwnFd(c) => d = c
       /\ MainBusy => newFd # OwnFd(c)
       /\ c \in Live => slotSock[slot[c]] = OwnFd(c)
       /\ pc[c] = "wait" => rconn[c] = c
  /\ MainBusy /\ accepted \notin hurt =>
       fdTable[newFd] = accepted /\ \A d \in Holding : OwnFd(d) # newFd

\* A message goes to the client in the slot served, by the socket of the slot;
\* when that socket is closed for an error, the client has no descriptor left.
BodyInv ==
  \A t \in Senders :
    /\ pc[t] \in InLoop => \E c \in Live : slot[c] = idx[t]
    /\ pc[t] \in {"body", "fail"} => slotSock[idx[t]] # NoSock
    /\ pc[t] = "body" => sfd[t] = slotSock[idx[t]]
    /\ pc[t] = "mark" => \A c \in Live, f \in Fds : slot[c] = idx[t] => fdTable[f] # c

Serves(t, c) == pc[t] \in InLoop /\ c \in Live /\ slot[c] = idx[t]

Uncut(w) == WellFramed(w) /\ \A i \in 1 .. Len(w) : w[i].part # "cut"

\* Whole messages, and a header whose body is due for the client that is served.
WireInv ==
  \A c \in Conns \ hurt :
    /\ WellFramed(wire[c])
    /\ pc[c] = "none" => wire[c] = << >>
    /\ (\A t \in Senders : ~Serves(t, c)) => Uncut(wire[c]) /\ Len(wire[c]) % 2 # 1
    /\ \A t \in Senders : pc[t] = "body" /\ Serves(t, c) =>
         /\ Uncut(wire[c]) /\ Len(wire[c]) % 2 = 1
         /\ wire[c][Len(wire[c])].msg = msg[t]

\* The latest broadcast c should have: a broadcast under way has passed its slot
\* or has not.
Due(c) == IF \E t \in Pushers : guard = t /\ idx[t] <= slot[c] THEN sent - 1 ELSE sent

Had(c) == Bodies(c) \cup {since[c]}

LastInv ==
  /\ \A t \in Senders : pc[t] \in Sending => msg[t] = IF t \in Pushers THEN sent ELSE 0
  /\ \A c \in Live \ hurt : Due(c) \in Had(c) /\ \A m \in Had(c) : m <= Due(c)

OrderInv ==
  SlotInv /\ GuardInv /\ FdInv /\ HurtInv /\ BodyInv /\ WireInv /\ LastInv

-----------------------------------------------------------------------------
(* Helpers.                                                                *)

LEMMA Names ==
  /\ Main \notin Senders /\ Main \notin Conns /\ Main \in Threads
  /\ NoOne \notin Senders /\ Conns \subseteq Senders /\ Pushers \subseteq Senders
  /\ Senders \subseteq Threads
  /\ \A t \in Pushers : t \notin Conns
  /\ Free \notin Conns /\ Listener \notin Conns /\ Listener # Free
  /\ Conns \subseteq Nat /\ ListenFd \in Fds /\ NoSock \notin Fds
BY ServerAssumption DEF Threads, Senders, Conns, ListenFd, Fds, NoSock

LEMMA LiveHolds == Live \subseteq Holding /\ Holding \subseteq Conns
BY DEF Live, Holding

\* What is in the slot of a handler, and what it will close, is of the table or
\* the mark of a failed send.
LEMMA OwnFdType ==
  ASSUME TypeOK, NEW c \in Conns
  PROVE  OwnFd(c) \in Fds \cup {NoSock} /\ slotSock[slot[c]] \in Fds \cup {NoSock}
<1>1. slot[c] \in Slots /\ hfd[c] \in Fds \cup {NoSock}  BY DEF TypeOK
<1>2. slotSock[slot[c]] \in Fds \cup {NoSock}  BY <1>1 DEF TypeOK
<1> QED BY <1>1, <1>2 DEF OwnFd

\* Where a handler has its socket and its slot.
Busy == {"conn", "loop", "body", "fail", "mark", "recv", "wait", "dis"}

\* No handler begins or ends its work.
PhaseKept ==
  \A c \in Conns : pc'[c] = pc[c] \/ (pc[c] \in Busy /\ pc'[c] \in Busy)

LEMMA LiveKept == PhaseKept => Live' = Live /\ Holding' = Holding
BY DEF PhaseKept, Busy, Live, Holding

LEMMA OwnFdKept ==
  ASSUME PhaseKept, UNCHANGED <<slotSock, slot, hfd>>
  PROVE  \A c \in Conns : OwnFd(c)' = OwnFd(c)
<1> SUFFICES ASSUME NEW c \in Conns PROVE OwnFd(c)' = OwnFd(c)  OBVIOUS
<1>1. pc'[c] = "start" <=> pc[c] = "start"  BY DEF PhaseKept, Busy
<1> QED BY <1>1 DEF OwnFd

LEMMA FdFrame ==
  ASSUME FdInv, HurtInv, Holding' = Holding, Live' \subseteq Live, MainBusy' <=> MainBusy,
         UNCHANGED <<fdTable, accepted, newFd, hurt>>,
         \A c \in Holding : OwnFd(c)' = OwnFd(c),
         \A c \in Live' : slotSock'[slot'[c]] = slotSock[slot[c]],
         \A c \in Holding \ hurt : pc'[c] = "wait" => rconn'[c] = c
  PROVE  FdInv' /\ HurtInv'
<1>1. FdInv'
  <2>1. \A f \in Fds, c \in Conns : fdTable'[f] = c =>
          \/ c \in Holding' /\ OwnFd(c)' = f
          \/ MainBusy' /\ accepted' = c /\ newFd' = f
    BY DEF FdInv
  <2>2. \A c \in Live' : slotSock'[slot'[c]] \in {OwnFd(c)', NoSock}
    BY LiveHolds DEF FdInv
  <2> QED BY <2>1, <2>2 DEF FdInv, ListenerOpen
<1>2. HurtInv'
  <2>1. ASSUME NEW c \in Holding' \ hurt'
        PROVE  /\ OwnFd(c)' \in Fds /\ fdTable'[OwnFd(c)'] = c
               /\ \A d \in Holding' : OwnFd(d)' = OwnFd(c)' => d = c
               /\ MainBusy' => newFd' # OwnFd(c)'
               /\ c \in Live' => slotSock'[slot'[c]] = OwnFd(c)'
               /\ pc'[c] = "wait" => rconn'[c] = c
    <3>1. c \in Holding \ hurt /\ OwnFd(c)' = OwnFd(c)  OBVIOUS
    <3> QED BY <3>1 DEF HurtInv
  <2>2. MainBusy' /\ accepted' \notin hurt' =>
          fdTable'[newFd'] = accepted' /\ \A d \in Holding' : OwnFd(d)' # newFd'
    BY DEF HurtInv
  <2>3. \A c \in hurt' : c <= accepted'  BY DEF HurtInv
  <2> QED BY <2>1, <2>2, <2>3 DEF HurtInv
<1> QED BY <1>1, <1>2

\* A step in which no handler begins or ends its work and no descriptor or slot
\* changes hands.
LEMMA FdQuiet ==
  ASSUME FdInv, HurtInv, PhaseKept, MainBusy' <=> MainBusy,
         UNCHANGED <<fdTable, accepted, newFd, hurt, slotSock, slot, hfd>>,
         \A c \in Holding \ hurt : pc'[c] = "wait" => rconn'[c] = c
  PROVE  FdInv' /\ HurtInv'
<1>1. Live' = Live /\ Holding' = Holding  BY LiveKept
<1>2. \A c \in Holding : OwnFd(c)' = OwnFd(c)  BY OwnFdKept, LiveHolds
<1> QED BY <1>1, <1>2, FdFrame

LEMMA BodyFrame ==
  ASSUME BodyInv, Live' = Live,
         \A c \in Live : slot'[c] = slot[c],
         \A t \in Senders : pc'[t] \in InLoop =>
           /\ pc'[t] = pc[t] /\ idx'[t] = idx[t] /\ sfd'[t] = sfd[t]
           /\ slotSock'[idx[t]] = slotSock[idx[t]],
         \A f \in Fds, c \in Live : fdTable'[f] = c => fdTable[f] = c
  PROVE  BodyInv'
<1> SUFFICES ASSUME NEW t \in Senders, pc'[t] \in InLoop
             PROVE  /\ \E c \in Live' : slot'[c] = idx'[t]
                    /\ pc'[t] \in {"body", "fail"} => slotSock'[idx'[t]] # NoSock
                    /\ pc'[t] = "body" => sfd'[t] = slotSock'[idx'[t]]
                    /\ pc'[t] = "mark" =>
                         \A c \in Live', f \in Fds : slot'[c] = idx'[t] => fdTable'[f] # c
  BY DEF BodyInv, InLoop
<1>1. /\ pc'[t] = pc[t] /\ idx'[t] = idx[t] /\ sfd'[t] = sfd[t]
      /\ slotSock'[idx[t]] = slotSock[idx[t]]
  OBVIOUS
<1>2. /\ \E c \in Live : slot[c] = idx[t]
      /\ pc[t] \in {"body", "fail"} => slotSock[idx[t]] # NoSock
      /\ pc[t] = "body" => sfd[t] = slotSock[idx[t]]
      /\ pc[t] = "mark" => \A c \in Live, f \in Fds : slot[c] = idx[t] => fdTable[f] # c
  BY <1>1 DEF BodyInv
<1> QED BY <1>1, <1>2

\* No message is under way: what BodyInv asks of senders holds.
LEMMA NoBody == ASSUME \A t \in Senders : pc'[t] \notin InLoop PROVE BodyInv'
BY DEF BodyInv, InLoop

LEMMA WireFrame ==
  ASSUME WireInv, wire' = wire, hurt \subseteq hurt',
         \A c \in Conns : pc'[c] = "none" => pc[c] = "none",
         \A t \in Senders, c \in Conns \ hurt' : (Serves(t, c))' <=> Serves(t, c),
         \A t \in Senders : pc'[t] = "body" => pc[t] = "body" /\ msg'[t] = msg[t]
  PROVE  WireInv'
<1> SUFFICES ASSUME NEW c \in Conns \ hurt'
             PROVE  /\ WellFramed(wire'[c])
                    /\ pc'[c] = "none" => wire'[c] = << >>
                    /\ (\A t \in Senders : ~(Serves(t, c))') =>
                         Uncut(wire'[c]) /\ Len(wire'[c]) % 2 # 1
                    /\ \A t \in Senders : pc'[t] = "body" /\ (Serves(t, c))' =>
                         /\ Uncut(wire'[c]) /\ Len(wire'[c]) % 2 = 1
                         /\ wire'[c][Len(wire'[c])].msg = msg'[t]
  BY DEF WireInv, WellFramed, Uncut
<1>1. PICK w : w = wire[c]  OBVIOUS
<1>2. wire'[c] = w  BY <1>1
<1>3. /\ WellFramed(w)
      /\ pc[c] = "none" => w = << >>
      /\ (\A t \in Senders : ~Serves(t, c)) => Uncut(w) /\ Len(w) % 2 # 1
      /\ \A t \in Senders : pc[t] = "body" /\ Serves(t, c) =>
           Uncut(w) /\ Len(w) % 2 = 1 /\ w[Len(w)].msg = msg[t]
  BY <1>1 DEF WireInv
<1>4. \A t \in Senders : (Serves(t, c))' <=> Serves(t, c)  OBVIOUS
<1> QED BY <1>2, <1>3, <1>4

LEMMA LastFrame ==
  ASSUME LastInv, Live' \subseteq Live, hurt \subseteq hurt', sent' = sent, guard' = guard,
         \A c \in Live' : wire'[c] = wire[c] /\ since'[c] = since[c] /\ slot'[c] = slot[c],
         \A t \in Pushers : idx'[t] = idx[t],
         \A t \in Senders : pc'[t] \in Sending => pc[t] \in Sending /\ msg'[t] = msg[t]
  PROVE  LastInv'
<1>1. \A c \in Live' : Due(c)' = Due(c)  BY DEF Due
<1>2. \A c \in Live' : Had(c)' = Had(c)  BY DEF Had, Bodies, Live
<1>3. Live' \ hurt' \subseteq Live \ hurt  OBVIOUS
<1> QED BY <1>1, <1>2, <1>3 DEF LastInv

OrderRest == GuardInv /\ FdInv /\ HurtInv /\ BodyInv /\ WireInv /\ LastInv

LEMMA OrderParts ==
  OrderInv => /\ TypeOK /\ IdxInv /\ NewConn /\ SlotOwner
              /\ GuardInv /\ FdInv /\ HurtInv /\ BodyInv /\ WireInv /\ LastInv
BY DEF OrderInv, SlotInv

LEMMA InitOrder == Init => OrderInv
<1> SUFFICES ASSUME Init PROVE OrderInv  OBVIOUS
<1>1. /\ \A c \in Conns : pc[c] = "none" /\ wire[c] = << >>
      /\ \A t \in Senders : pc[t] \notin Sending
      /\ guard = NoOne /\ pc[Main] = "accept" /\ hurt = {}
  BY Names DEF Init, Sending, Senders
<1>2. Live = {} /\ Holding = {} /\ ~MainBusy  BY <1>1 DEF Live, Holding, MainBusy
<1>3. \A f \in Fds : fdTable[f] \notin Conns /\ (f = ListenFd => fdTable[f] = Listener)
  BY Names DEF Init
<1>4. SlotInv  BY InitSlotInv
<1>5. GuardInv  BY <1>1, Names DEF GuardInv
<1>6. FdInv  BY <1>2, <1>3, Names DEF FdInv, ListenerOpen
<1>7. HurtInv  BY <1>1, <1>2 DEF HurtInv
<1>8. BodyInv /\ LastInv
  BY <1>1, <1>2 DEF BodyInv, LastInv, InLoop, Sending
<1>9. WireInv
  <2>1. Len(<< >>) = 0 /\ 1 .. 0 = {} /\ 0 % 2 # 1  OBVIOUS
  <2>2. Uncut(<< >>)  BY <2>1 DEF Uncut, WellFramed
  <2>3. \A t \in Senders, c \in Conns : ~Serves(t, c)  BY <1>2 DEF Serves
  <2> QED BY <1>1, <2>1, <2>2, <2>3 DEF WireInv, Uncut
<1> QED BY <1>4, <1>5, <1>6, <1>7, <1>8, <1>9 DEF OrderInv

LEMMA QuietFrame ==
  ASSUME OrderInv, PhaseKept, MainBusy' <=> MainBusy, pc'[Main] = "assign" => pc[Main] = "assign",
         \A t \in Senders : \/ pc'[t] = pc[t]
                            \/ pc[t] \notin Sending /\ pc'[t] \notin Sending,
         UNCHANGED <<guard, fdTable, accepted, hurt, slotVars, slot, hfd, since, mainVars,
                     sendVars, wire>>,
         \A c \in Holding \ hurt : pc'[c] = "wait" => rconn'[c] = c
  PROVE  OrderRest'
<1> USE OrderParts DEF slotVars, mainVars, sendVars
<1>1. Live' = Live  BY LiveKept
<1>2. GuardInv'  BY DEF GuardInv, Sending
<1>3. FdInv' /\ HurtInv'  BY FdQuiet
<1>4. \A t \in Senders : pc'[t] \in InLoop <=> pc[t] \in InLoop
  BY DEF InLoop, Sending
<1>5. \A t \in Senders : pc'[t] \in InLoop => pc'[t] = pc[t]
  BY DEF InLoop, Sending
<1>6. BodyInv'  BY <1>1, <1>5, BodyFrame
<1>7. \A t \in Senders, c \in Conns : (Serves(t, c))' <=> Serves(t, c)
  BY <1>1, <1>4 DEF Serves
<1>8. WireInv'
  BY <1>5, <1>7, WireFrame DEF PhaseKept, Busy, InLoop
<1>9. LastInv'
  BY <1>1, Names, LastFrame
<1> QED BY <1>2, <1>3, <1>6, <1>8, <1>9 DEF OrderRest

LEMMA QuietStep ==
  ASSUME OrderInv,
         \/ AcceptError \/ SleepOver \/ UNCHANGED vars
         \/ \E c \in Conns : PeerLeaves(c) \/ RecvCall(c) \/ RecvMsg(c) \/ RecvFail(c)
  PROVE  OrderRest'
<1> USE Names DEF fdVars, slotVars, handlerVars, mainVars, sendVars
<1>0. TypeOK /\ HurtInv  BY OrderParts
<1>a. \A c \in Holding \ hurt : pc[c] = "wait" => rconn[c] = c  BY <1>0 DEF HurtInv
<1>1. CASE AcceptError \/ SleepOver
  <2>1. \A t \in Senders : pc'[t] = pc[t]
    BY <1>0, <1>1 DEF AcceptError, SleepOver, GoMain, TypeOK
  <2>2. pc[Main] \in {"accept", "sleep"} /\ pc'[Main] \in {"accept", "sleep"}
    BY <1>0, <1>1 DEF AcceptError, SleepOver, GoMain, TypeOK
  <2>3. PhaseKept  BY <2>1 DEF PhaseKept
  <2>4. (MainBusy' <=> MainBusy) /\ pc'[Main] # "assign"  BY <2>2 DEF MainBusy
  <2>5. UNCHANGED <<guard, fdTable, accepted, hurt, slotVars, slot, hfd, rconn, since, mainVars,
                    sendVars, wire>>
    BY <1>1 DEF AcceptError, SleepOver
  <2>6. \A c \in Holding \ hurt : pc'[c] = "wait" => rconn'[c] = c
    BY <1>a, <2>1, <2>5, LiveHolds
  <2> QED BY <2>1, <2>3, <2>4, <2>5, <2>6, QuietFrame
<1>2. CASE UNCHANGED vars
  <2>1. PhaseKept /\ (MainBusy' <=> MainBusy)  BY <1>2 DEF PhaseKept, MainBusy, vars
  <2> QED BY <1>2, <1>a, <2>1, QuietFrame DEF vars
<1>3. ASSUME NEW c \in Conns, PeerLeaves(c) PROVE OrderRest'
  <2>1. PhaseKept /\ (MainBusy' <=> MainBusy)  BY <1>3 DEF PhaseKept, MainBusy, PeerLeaves
  <2> QED BY <1>3, <1>a, <2>1, QuietFrame DEF PeerLeaves
<1>4. ASSUME NEW c \in Conns, RecvCall(c) \/ RecvMsg(c) \/ RecvFail(c) PROVE OrderRest'
  <2>1. /\ pc[c] \in {"recv", "wait"} /\ pc'[c] \in {"recv", "wait", "dis"}
        /\ \A t \in Threads : t # c => pc'[t] = pc[t]
    BY <1>0, <1>4 DEF RecvCall, RecvMsg, RecvFail, Go, TypeOK
  <2>2. PhaseKept  BY <2>1 DEF PhaseKept, Busy
  <2>3. \A t \in Senders : pc'[t] = pc[t] \/ (pc[t] \notin Sending /\ pc'[t] \notin Sending)
    BY <2>1 DEF Sending
  <2>4. pc'[Main] = pc[Main] /\ (MainBusy' <=> MainBusy)  BY <2>1 DEF MainBusy
  <2>5. UNCHANGED <<guard, fdTable, accepted, hurt, slotVars, slot, hfd, since, mainVars,
                    sendVars, wire>>
    BY <1>4 DEF RecvCall, RecvMsg, RecvFail
  <2>6. \A d \in Conns : d # c => rconn'[d] = rconn[d]
    BY <1>0, <1>4 DEF RecvCall, RecvMsg, RecvFail, TypeOK
  <2>7. ASSUME c \in Holding \ hurt, pc'[c] = "wait" PROVE rconn'[c] = c
    <3>1. RecvCall(c) /\ pc[c] = "recv" /\ \E d \in ConnOf(hfd[c]) : rconn' = [rconn EXCEPT ![c] = d]
      BY <1>0, <1>4, <2>7 DEF RecvCall, RecvMsg, RecvFail, Go, TypeOK
    <3>2. OwnFd(c) = hfd[c]  BY <3>1 DEF OwnFd
    <3>3. \A d \in ConnOf(hfd[c]) : d = c  BY <1>0, <2>7, <3>2 DEF HurtInv, ConnOf
    <3> QED BY <1>0, <3>1, <3>3 DEF TypeOK
  <2>8. \A d \in Holding \ hurt : pc'[d] = "wait" => rconn'[d] = d
    BY <1>a, <2>1, <2>6, <2>7, LiveHolds
  <2> QED BY <2>2, <2>3, <2>4, <2>5, <2>8, QuietFrame
<1> QED BY <1>1, <1>2, <1>3, <1>4

-----------------------------------------------------------------------------
(* The life of a connection.                                               *)

\* The descriptor accept() returns was free, and nobody else knows the
\* connection yet; who still holds the descriptor is hurt, and so is the
\* connection.
LEMMA AcceptStep == ASSUME OrderInv, Accept PROVE OrderRest'
<1> USE Names DEF slotVars, handlerVars, sendVars
<1>0. /\ TypeOK /\ NewConn /\ GuardInv /\ FdInv /\ HurtInv /\ BodyInv /\ WireInv /\ LastInv
  BY OrderParts
<1>1. PICK f \in Fds : /\ fdTable[f] = Free /\ newFd' = f
                       /\ fdTable' = [fdTable EXCEPT ![f] = accepted + 1]
                       /\ hurt' = IF Holders(f) = {} THEN hurt ELSE hurt \cup {accepted + 1}
  BY DEF Accept, IsLowest, FreeFds
<1>2. /\ accepted' = accepted + 1 /\ accepted \in Nat /\ accepted + 1 \in Conns
      /\ pc[accepted + 1] = "none"
  BY <1>0, ServerAssumption DEF Accept, TypeOK, Conns, NewConn
<1>3. PICK a \in Conns : a = accepted + 1  BY <1>2
<1>4. /\ pc[Main] = "accept" /\ pc'[Main] = "alloc"
      /\ \A t \in Senders : pc'[t] = pc[t]
      /\ UNCHANGED <<guard, used, slotSock, slot, hfd, since, rconn, idx, sfd, msg, sent, wire>>
  BY <1>0 DEF Accept, GoMain, TypeOK
<1>5. PhaseKept /\ Live' = Live /\ Holding' = Holding /\ ~MainBusy /\ MainBusy'
  BY <1>4, LiveKept DEF PhaseKept, MainBusy
<1>6. \A c \in Conns : OwnFd(c)' = OwnFd(c)  BY <1>4, <1>5, OwnFdKept
<1>7. \A g \in Fds : fdTable'[g] = IF g = f THEN a ELSE fdTable[g]
  BY <1>0, <1>1, <1>3 DEF TypeOK
<1>8. a \notin Holding /\ a \notin Live  BY <1>2, <1>3 DEF Holding, Live
<1>9. \A g \in Fds : fdTable[g] # a  BY <1>0, <1>5, <1>8 DEF FdInv
<1>10. f # ListenFd  BY <1>0, <1>1 DEF FdInv, ListenerOpen
<1>11. FdInv'
  <2>1. ListenerOpen'  BY <1>0, <1>7, <1>10 DEF FdInv, ListenerOpen
  <2>2. \A g, h \in Fds : fdTable'[g] \in Conns /\ fdTable'[g] = fdTable'[h] => g = h
    BY <1>0, <1>7, <1>9 DEF FdInv
  <2>3. \A g \in Fds, c \in Conns : fdTable'[g] = c =>
          \/ c \in Holding' /\ OwnFd(c)' = g
          \/ MainBusy' /\ accepted' = c /\ newFd' = g
    BY <1>0, <1>1, <1>2, <1>3, <1>5, <1>6, <1>7 DEF FdInv
  <2>4. \A c \in Live' : slotSock'[slot'[c]] \in {OwnFd(c)', NoSock}
    BY <1>0, <1>4, <1>5, <1>6, LiveHolds DEF FdInv
  <2>5. \A c \in Holding' : OwnFd(c)' # ListenFd
    BY <1>0, <1>5, <1>6, LiveHolds DEF FdInv
  <2>6. MainBusy' => newFd' # ListenFd  BY <1>1, <1>10
  <2> QED BY <2>1, <2>2, <2>3, <2>4, <2>5, <2>6 DEF FdInv
<1>12. hurt \subseteq hurt'  BY <1>1
<1>13. HurtInv'
  <2>1. \A c \in hurt' : c <= accepted'
    BY <1>0, <1>1, <1>2 DEF HurtInv, TypeOK
  <2>2. ASSUME NEW c \in Holding' \ hurt'
        PROVE  /\ OwnFd(c)' \in Fds /\ fdTable'[OwnFd(c)'] = c
               /\ \A d \in Holding' : OwnFd(d)' = OwnFd(c)' => d = c
               /\ MainBusy' => newFd' # OwnFd(c)'
               /\ c \in Live' => slotSock'[slot'[c]] = OwnFd(c)'
               /\ pc'[c] = "wait" => rconn'[c] = c
    <3>1. c \in Holding \ hurt /\ c \in Conns  BY <1>5, <1>12, LiveHolds
    <3>2. /\ OwnFd(c) \in Fds /\ fdTable[OwnFd(c)] = c
          /\ \A d \in Holding : OwnFd(d) = OwnFd(c) => d = c
          /\ c \in Live => slotSock[slot[c]] = OwnFd(c)
          /\ pc[c] = "wait" => rconn[c] = c
      BY <1>0, <3>1 DEF HurtInv
    <3>3. OwnFd(c) # f  BY <1>1, <3>1, <3>2
    <3>4. OwnFd(c)' = OwnFd(c)  BY <1>6, <3>1
    <3>5. \A d \in Holding : OwnFd(d)' = OwnFd(d)  BY <1>6, LiveHolds
    <3> QED BY <1>1, <1>4, <1>5, <1>7, <3>1, <3>2, <3>3, <3>4, <3>5
  <2>3. ASSUME accepted' \notin hurt'
        PROVE  fdTable'[newFd'] = accepted' /\ \A d \in Holding' : OwnFd(d)' # newFd'
    <3>1. Holders(f) = {}  BY <1>1, <1>2, <2>3
    <3>2. \A d \in Holding : OwnFd(d) # f  BY <3>1 DEF Holders, Holding
    <3>3. \A d \in Holding : OwnFd(d)' = OwnFd(d)  BY <1>6, LiveHolds
    <3> QED BY <1>1, <1>2, <1>3, <1>5, <1>7, <3>2, <3>3
  <2> QED BY <2>1, <2>2, <2>3 DEF HurtInv
<1>14. GuardInv'  BY <1>0, <1>4 DEF GuardInv
<1>15. BodyInv'
  <2>1. \A g \in Fds, c \in Live : fdTable'[g] = c => fdTable[g] = c  BY <1>7, <1>8
  <2>2. \A t \in Senders : pc'[t] = pc[t]  BY <1>4
  <2> QED BY <1>0, <1>4, <1>5, <2>1, <2>2, BodyFrame
<1>16. WireInv'
  <2>1. \A t \in Senders, c \in Conns : (Serves(t, c))' <=> Serves(t, c)
    BY <1>4, <1>5 DEF Serves
  <2> QED BY <1>0, <1>4, <1>12, <2>1, WireFrame
<1>17. LastInv'  BY <1>0, <1>4, <1>5, <1>12, LastFrame
<1> QED BY <1>11, <1>13, <1>14, <1>15, <1>16, <1>17 DEF OrderRest

\* The slot that is allocated was nobody's, and no broadcast is under way.
LEMMA AllocStep == ASSUME OrderInv, ClientAlloc \/ ClientAllocFull PROVE OrderRest'
<1> USE Names DEF fdVars, slotVars, handlerVars, mainVars, sendVars
<1>0. /\ TypeOK /\ NewConn /\ SlotOwner
      /\ GuardInv /\ FdInv /\ HurtInv /\ BodyInv /\ WireInv /\ LastInv
  BY OrderParts
<1>1. /\ guard = NoOne /\ pc[Main] = "alloc" /\ pc'[Main] \in {"assign", "drop"}
      /\ \A t \in Senders : pc'[t] = pc[t]
      /\ UNCHANGED <<guard, fdTable, accepted, newFd, hurt, slot, hfd, since, rconn, idx, sfd,
                     msg, sent, wire>>
  BY <1>0 DEF ClientAlloc, ClientAllocFull, GoMain, TypeOK
<1>2. Live' = Live /\ Holding' = Holding /\ PhaseKept  BY <1>1, LiveKept DEF PhaseKept
<1>3. \A c \in Live : slotSock'[slot[c]] = slotSock[slot[c]]
  <2>1. CASE ClientAllocFull  BY <2>1 DEF ClientAllocFull
  <2>2. CASE ClientAlloc
    <3>1. PICK s \in Slots : ~used[s] /\ slotSock' = [slotSock EXCEPT ![s] = 0]
      BY <2>2 DEF ClientAlloc, IsLowest, UnusedSlots
    <3>2. \A c \in Live : slot[c] # s  BY <1>0, <3>1 DEF SlotOwner
    <3> QED BY <1>0, <3>1, <3>2 DEF TypeOK, Live
  <2> QED BY <2>1, <2>2
<1>4. \A c \in Holding : OwnFd(c)' = OwnFd(c)
  <2>1. \A c \in Holding : pc[c] = "start" => c \in Live  BY DEF Holding, Live
  <2>2. \A c \in Holding : pc'[c] = pc[c]  BY <1>1, LiveHolds
  <2> QED BY <1>1, <1>3, <2>1, <2>2 DEF OwnFd
<1>5. MainBusy /\ MainBusy'  BY <1>1 DEF MainBusy
<1>6. \A c \in Holding \ hurt : pc'[c] = "wait" => rconn'[c] = c
  BY <1>0, <1>1, LiveHolds DEF HurtInv
<1>7. FdInv' /\ HurtInv'
  <2>1. \A c \in Live' : slotSock'[slot'[c]] = slotSock[slot[c]]  BY <1>1, <1>2, <1>3
  <2> QED BY <1>0, <1>1, <1>2, <1>4, <1>5, <1>6, <2>1, FdFrame
<1>8. GuardInv'  BY <1>0, <1>1 DEF GuardInv
<1>9. \A t \in Senders : pc'[t] \notin InLoop /\ pc[t] \notin InLoop
  BY <1>0, <1>1 DEF GuardInv, Sending, InLoop
<1>10. BodyInv'  BY <1>9, NoBody
<1>11. WireInv'
  <2>1. \A t \in Senders, c \in Conns : (Serves(t, c))' <=> Serves(t, c)
    BY <1>9 DEF Serves
  <2> QED BY <1>0, <1>1, <2>1, WireFrame
<1>12. LastInv'  BY <1>0, <1>1, <1>2, LastFrame
<1> QED BY <1>7, <1>8, <1>10, <1>11, <1>12 DEF OrderRest

LEMMA DropStep == ASSUME OrderInv, DropClient PROVE OrderRest'
<1> USE Names DEF slotVars, handlerVars, mainVars, sendVars
<1>0. /\ TypeOK /\ NewConn /\ GuardInv /\ FdInv /\ HurtInv /\ BodyInv /\ WireInv /\ LastInv
  BY OrderParts
<1>1. /\ pc[Main] = "drop" /\ pc'[Main] = "accept"
      /\ \A t \in Senders : pc'[t] = pc[t]
      /\ UNCHANGED <<guard, accepted, hurt, used, slotSock, slot, hfd, since, rconn, newFd,
                     idx, sfd, msg, sent, wire>>
  BY <1>0 DEF DropClient, GoMain, TypeOK
<1>2. Live' = Live /\ Holding' = Holding /\ PhaseKept /\ MainBusy /\ ~MainBusy'
  BY <1>1, LiveKept DEF PhaseKept, MainBusy
<1>3. \A c \in Conns : OwnFd(c)' = OwnFd(c)  BY <1>1, <1>2, OwnFdKept
<1>4. newFd \in Fds /\ newFd # ListenFd  BY <1>0, <1>2 DEF FdInv, TypeOK
<1>5. \A g \in Fds : fdTable'[g] = IF g = newFd THEN Free ELSE fdTable[g]
  BY DEF DropClient, CloseFd
<1>6. \A c \in Holding : OwnFd(c)' = OwnFd(c) /\ c \in Conns  BY <1>3, LiveHolds
<1>7. FdInv'
  <2>1. ListenerOpen'  BY <1>0, <1>4, <1>5 DEF FdInv, ListenerOpen
  <2>2. \A g, h \in Fds : fdTable'[g] \in Conns /\ fdTable'[g] = fdTable'[h] => g = h
    BY <1>0, <1>5 DEF FdInv
  <2>3. \A g \in Fds, c \in Conns : fdTable'[g] = c => c \in Holding' /\ OwnFd(c)' = g
    BY <1>0, <1>2, <1>3, <1>5 DEF FdInv
  <2>4. \A c \in Live' : slotSock'[slot'[c]] \in {OwnFd(c)', NoSock}
    BY <1>0, <1>1, <1>2, <1>6, LiveHolds DEF FdInv
  <2>5. \A c \in Holding' : OwnFd(c)' # ListenFd  BY <1>0, <1>2, <1>6 DEF FdInv
  <2> QED BY <1>2, <2>1, <2>2, <2>3, <2>4, <2>5 DEF FdInv
<1>8. HurtInv'
  <2>1. \A c \in hurt' : c <= accepted'  BY <1>0, <1>1 DEF HurtInv
  <2>2. ASSUME NEW c \in Holding' \ hurt'
        PROVE  /\ OwnFd(c)' \in Fds /\ fdTable'[OwnFd(c)'] = c
               /\ \A d \in Holding' : OwnFd(d)' = OwnFd(c)' => d = c
               /\ c \in Live' => slotSock'[slot'[c]] = OwnFd(c)'
               /\ pc'[c] = "wait" => rconn'[c] = c
    <3>1. c \in Holding \ hurt /\ c \in Conns /\ OwnFd(c)' = OwnFd(c)  BY <1>1, <1>2, <1>6
    <3>2. /\ OwnFd(c) \in Fds /\ fdTable[OwnFd(c)] = c
          /\ \A d \in Holding : OwnFd(d) = OwnFd(c) => d = c
          /\ newFd # OwnFd(c)
          /\ c \in Live => slotSock[slot[c]] = OwnFd(c)
          /\ pc[c] = "wait" => rconn[c] = c
      BY <1>0, <1>2, <3>1 DEF HurtInv
    <3> QED BY <1>1, <1>2, <1>5, <1>6, <3>1, <3>2
  <2> QED BY <1>2, <2>1, <2>2 DEF HurtInv
<1>9. GuardInv'  BY <1>0, <1>1 DEF GuardInv
<1>10. BodyInv'
  <2>1. \A g \in Fds, c \in Live : fdTable'[g] = c => fdTable[g] = c
    BY <1>5, LiveHolds
  <2>2. \A t \in Senders : pc'[t] = pc[t]  BY <1>1
  <2> QED BY <1>0, <1>1, <1>2, <2>1, <2>2, BodyFrame
<1>11. WireInv'
  <2>1. \A t \in Senders, c \in Conns : (Serves(t, c))' <=> Serves(t, c)
    BY <1>1, <1>2 DEF Serves
  <2> QED BY <1>0, <1>1, <2>1, WireFrame
<1>12. LastInv'  BY <1>0, <1>1, <1>2, LastFrame
<1> QED BY <1>7, <1>8, <1>9, <1>10, <1>11, <1>12 DEF OrderRest

\* The connection joins: it has had no broadcast, and needs none of those begun.
LEMMA AssignStep ==
  ASSUME OrderInv, AssignSock
  PROVE  /\ OrderRest'
         /\ \E a \in Conns : /\ pc[a] = "none" /\ a \notin Live /\ Live' = Live \cup {a}
                             /\ pc'[a] = "start" /\ Due(a)' = sent
                             /\ \A c \in Conns : c # a => pc'[c] = pc[c]
                             /\ \A c \in Live : Due(c)' = Due(c)
<1> USE Names DEF fdVars, handlerVars, mainVars, sendVars
<1>0. /\ TypeOK /\ NewConn /\ SlotOwner
      /\ GuardInv /\ FdInv /\ HurtInv /\ BodyInv /\ WireInv /\ LastInv
  BY OrderParts
<1>1. accepted \in Conns /\ pc[accepted] = "none" /\ newSlot \in Slots /\ newFd \in Fds
  BY <1>0 DEF AssignSock, NewConn, TypeOK
<1>2. PICK a \in Conns : a = accepted  BY <1>1
<1>3. /\ pc[Main] = "assign" /\ pc'[Main] = "accept" /\ pc'[a] = "start" /\ pc[a] = "none"
      /\ \A t \in Senders : t # a => pc'[t] = pc[t]
      /\ \A s \in Slots : slotSock'[s] = IF s = newSlot THEN newFd ELSE slotSock[s]
      /\ \A c \in Conns : slot'[c] = IF c = a THEN newSlot ELSE slot[c]
      /\ \A c \in Conns : since'[c] = IF c = a THEN sent ELSE since[c]
      /\ UNCHANGED <<guard, fdTable, accepted, newFd, hurt, hfd, rconn, idx, sfd, msg, sent, wire>>
  BY <1>0, <1>1, <1>2 DEF AssignSock, TypeOK
<1>4. a \notin Live /\ Live' = Live \cup {a} /\ Live \subseteq Conns
  BY <1>3 DEF Live
<1>5. a \notin Holding /\ Holding' = Holding \cup {a} /\ Holding \subseteq Conns
  BY <1>3 DEF Holding
<1>6. MainBusy /\ ~MainBusy'  BY <1>3 DEF MainBusy
<1>7. \A c \in Live : slot[c] # newSlot /\ slot[c] \in Slots /\ c # a
  BY <1>0, <1>3, <1>4 DEF SlotOwner, TypeOK
<1>8. \A c \in Live : slot'[c] = slot[c] /\ slotSock'[slot[c]] = slotSock[slot[c]]
  BY <1>3, <1>4, <1>7
<1>9. slot'[a] = newSlot /\ slotSock'[newSlot] = newFd /\ OwnFd(a)' = newFd
  BY <1>1, <1>3 DEF OwnFd
<1>10. \A c \in Holding : c # a /\ OwnFd(c)' = OwnFd(c)
  <2>1. \A c \in Holding : pc'[c] = pc[c] /\ c # a  BY <1>3, <1>5
  <2>2. \A c \in Holding : pc[c] = "start" => c \in Live  BY DEF Holding, Live
  <2> QED BY <1>3, <1>8, <2>1, <2>2 DEF OwnFd
<1>11. FdInv'
  <2>1. ListenerOpen'  BY <1>0, <1>3 DEF FdInv, ListenerOpen
  <2>2. \A f \in Fds, c \in Conns : fdTable'[f] = c => c \in Holding' /\ OwnFd(c)' = f
    BY <1>0, <1>2, <1>3, <1>5, <1>9, <1>10 DEF FdInv
  <2>3. \A c \in Live' : slotSock'[slot'[c]] \in {OwnFd(c)', NoSock}
    <3>1. \A c \in Live : slotSock[slot[c]] \in {OwnFd(c), NoSock}  BY <1>0 DEF FdInv
    <3> QED BY <1>4, <1>8, <1>9, <1>10, <3>1, LiveHolds
  <2>4. \A c \in Holding' : OwnFd(c)' # ListenFd
    BY <1>0, <1>5, <1>6, <1>9, <1>10 DEF FdInv
  <2>5. \A f, g \in Fds : fdTable'[f] \in Conns /\ fdTable'[f] = fdTable'[g] => f = g
    BY <1>0, <1>3 DEF FdInv
  <2> QED BY <1>6, <2>1, <2>2, <2>3, <2>4, <2>5 DEF FdInv
<1>12. HurtInv'
  <2>1. \A c \in hurt' : c <= accepted'  BY <1>0, <1>3 DEF HurtInv
  <2>2. ASSUME NEW c \in Holding \ hurt
        PROVE  /\ OwnFd(c)' \in Fds /\ fdTable'[OwnFd(c)'] = c
               /\ \A d \in Holding' : OwnFd(d)' = OwnFd(c)' => d = c
               /\ c \in Live' => slotSock'[slot'[c]] = OwnFd(c)'
               /\ pc'[c] = "wait" => rconn'[c] = c
    <3>1. OwnFd(c)' = OwnFd(c) /\ pc'[c] = pc[c] /\ c # a  BY <1>3, <1>5, <1>10
    <3>2. /\ OwnFd(c) \in Fds /\ fdTable[OwnFd(c)] = c
          /\ \A d \in Holding : OwnFd(d) = OwnFd(c) => d = c
          /\ newFd # OwnFd(c)
          /\ c \in Live => slotSock[slot[c]] = OwnFd(c)
          /\ pc[c] = "wait" => rconn[c] = c
      BY <1>0, <1>6 DEF HurtInv
    <3> QED BY <1>3, <1>4, <1>5, <1>8, <1>9, <1>10, <3>1, <3>2
  <2>3. ASSUME a \notin hurt
        PROVE  /\ OwnFd(a)' \in Fds /\ fdTable'[OwnFd(a)'] = a
               /\ \A d \in Holding' : OwnFd(d)' = OwnFd(a)' => d = a
               /\ slotSock'[slot'[a]] = OwnFd(a)'
               /\ pc'[a] # "wait"
    <3>1. fdTable[newFd] = a /\ \A d \in Holding : OwnFd(d) # newFd
      BY <1>0, <1>2, <1>6, <2>3 DEF HurtInv
    <3> QED BY <1>1, <1>3, <1>5, <1>9, <1>10, <3>1
  <2> QED BY <1>3, <1>5, <1>6, <2>1, <2>2, <2>3 DEF HurtInv
<1>13. a \in Senders /\ guard # a
  BY <1>0, <1>3 DEF GuardInv, Sending
<1>14. GuardInv'  BY <1>0, <1>3, <1>13 DEF GuardInv, Sending
<1>15. \A t \in Senders : pc'[t] \in InLoop => pc'[t] = pc[t] /\ idx[t] # newSlot
  <2>1. \A t \in Senders : pc'[t] \in InLoop => pc'[t] = pc[t]  BY <1>3 DEF InLoop
  <2> QED BY <1>0, <1>7, <2>1 DEF BodyInv
<1>16. \A t \in Senders, c \in Conns : (Serves(t, c))' <=> Serves(t, c)
  <2> SUFFICES ASSUME NEW t \in Senders, NEW c \in Conns PROVE (Serves(t, c))' <=> Serves(t, c)
    OBVIOUS
  <2>1. pc'[t] \in InLoop <=> pc[t] \in InLoop  BY <1>3 DEF InLoop
  <2>2. CASE c # a  BY <1>3, <1>4, <2>1, <2>2 DEF Serves
  <2>3. CASE c = a
    <3>1. ~Serves(t, c)  BY <1>4, <2>3 DEF Serves
    <3>2. pc'[t] \in InLoop => idx'[t] # newSlot  BY <1>3, <1>15
    <3>3. slot'[c] = newSlot  BY <1>9, <2>3
    <3> QED BY <3>1, <3>2, <3>3 DEF Serves
  <2> QED BY <2>2, <2>3
<1>17. BodyInv'
  <2> SUFFICES ASSUME NEW t \in Senders, pc'[t] \in InLoop
               PROVE  /\ \E c \in Live' : slot'[c] = idx'[t]
                      /\ pc'[t] \in {"body", "fail"} => slotSock'[idx'[t]] # NoSock
                      /\ pc'[t] = "body" => sfd'[t] = slotSock'[idx'[t]]
                      /\ pc'[t] = "mark" =>
                           \A c \in Live', f \in Fds : slot'[c] = idx'[t] => fdTable'[f] # c
    BY DEF BodyInv, InLoop
  <2>1. pc[t] = pc'[t] /\ idx[t] # newSlot  BY <1>15
  <2>2. PICK c \in Live : slot[c] = idx[t]  BY <1>0, <2>1 DEF BodyInv
  <2>3. /\ pc[t] \in {"body", "fail"} => slotSock[idx[t]] # NoSock
        /\ pc[t] = "body" => sfd[t] = slotSock[idx[t]]
        /\ pc[t] = "mark" => \A d \in Live, f \in Fds : slot[d] = idx[t] => fdTable[f] # d
    BY <1>0, <2>1 DEF BodyInv
  <2>4. slotSock'[idx[t]] = slotSock[idx[t]]  BY <1>8, <2>2
  <2>5. \A d \in Live' : slot'[d] = idx[t] => d \in Live /\ slot[d] = idx[t]
    BY <1>4, <1>8, <1>9, <2>1
  <2> QED BY <1>3, <1>4, <1>8, <2>1, <2>2, <2>3, <2>4, <2>5
<1>18. WireInv'
  <2>1. \A c \in Conns : pc'[c] = "none" => pc[c] = "none"  BY <1>3
  <2>2. \A t \in Senders : pc'[t] = "body" => pc[t] = "body" /\ msg'[t] = msg[t]  BY <1>3
  <2>3. wire' = wire /\ hurt' = hurt  BY <1>3
  <2> QED BY <1>0, <1>16, <2>1, <2>2, <2>3, WireFrame
<1>19. \A c \in Live : Due(c)' = Due(c) /\ Had(c)' = Had(c)
  BY <1>3, <1>4, <1>7 DEF Due, Had, Bodies
<1>20. Due(a)' = sent
  <2>1. guard \notin Pushers  BY <1>0, <1>3 DEF GuardInv
  <2> QED BY <1>3, <2>1 DEF Due
<1>21. ASSUME a \notin hurt PROVE Had(a)' = {sent}
  <2>1. wire[a] = << >>  BY <1>0, <1>3, <1>21 DEF WireInv
  <2>2. Bodies(a)' = {}  BY <1>3, <2>1 DEF Bodies
  <2> QED BY <1>3, <2>2 DEF Had
<1>22. LastInv'
  <2>1. sent <= sent  BY <1>0, ServerAssumption DEF TypeOK
  <2>2. \A c \in Live \ hurt : Due(c) \in Had(c) /\ \A m \in Had(c) : m <= Due(c)
    BY <1>0 DEF LastInv
  <2>3. ASSUME NEW c \in Live' \ hurt'
        PROVE  Due(c)' \in Had(c)' /\ \A m \in Had(c)' : m <= Due(c)'
    <3>1. CASE c \in Live  BY <1>3, <1>19, <2>2, <3>1
    <3>2. CASE c = a  BY <1>3, <1>20, <1>21, <2>1, <3>2
    <3> QED BY <1>4, <3>1, <3>2
  <2>4. \A t \in Senders : pc'[t] \in Sending => msg'[t] = IF t \in Pushers THEN sent' ELSE 0
    BY <1>0, <1>3 DEF LastInv, Sending
  <2> QED BY <2>3, <2>4 DEF LastInv
<1>23. OrderRest'  BY <1>11, <1>12, <1>14, <1>17, <1>18, <1>22 DEF OrderRest
<1>24. \A c \in Conns : c # a => pc'[c] = pc[c]  BY <1>3
<1> QED BY <1>3, <1>4, <1>19, <1>20, <1>23, <1>24

LEMMA StartStep == ASSUME OrderInv, NEW c \in Conns, HandlerStart(c) PROVE OrderRest'
<1> USE Names DEF fdVars, slotVars, mainVars, sendVars
<1>0. TypeOK /\ GuardInv /\ FdInv /\ HurtInv /\ BodyInv /\ WireInv /\ LastInv
  BY OrderParts
<1>1. /\ pc[c] = "start" /\ pc'[c] = "conn"
      /\ \A t \in Threads : t # c => pc'[t] = pc[t]
      /\ \A d \in Conns : hfd'[d] = IF d = c THEN slotSock[slot[c]] ELSE hfd[d]
      /\ UNCHANGED <<guard, fdTable, accepted, newFd, hurt, slotSock, slot, since, rconn, idx,
                     sfd, msg, sent, wire>>
  BY <1>0 DEF HandlerStart, Go, TypeOK
<1>2. Live' = Live /\ Holding' = Holding  BY <1>1 DEF Live, Holding
<1>3. MainBusy' <=> MainBusy  BY <1>1 DEF MainBusy
<1>4. \A d \in Holding : OwnFd(d)' = OwnFd(d)
  <2>1. \A d \in Holding : d # c => pc'[d] = pc[d] /\ hfd'[d] = hfd[d]  BY <1>1, LiveHolds
  <2> QED BY <1>1, <2>1 DEF OwnFd
<1>5. \A d \in Holding \ hurt : pc'[d] = "wait" => rconn'[d] = d
  <2>1. \A d \in Holding : pc'[d] = "wait" => pc[d] = "wait"  BY <1>1, LiveHolds
  <2> QED BY <1>0, <1>1, <2>1 DEF HurtInv
<1>6. FdInv' /\ HurtInv'
  <2>1. \A d \in Live' : slotSock'[slot'[d]] = slotSock[slot[d]]  BY <1>1
  <2> QED BY <1>0, <1>1, <1>2, <1>3, <1>4, <1>5, <2>1, FdFrame
<1>7. GuardInv'  BY <1>0, <1>1 DEF GuardInv, Sending
<1>8. \A t \in Senders : /\ pc'[t] \in InLoop => pc'[t] = pc[t]
                         /\ pc[t] \in InLoop => pc'[t] = pc[t]
  BY <1>1 DEF InLoop
<1>9. BodyInv'  BY <1>0, <1>1, <1>2, <1>8, BodyFrame
<1>10. WireInv'
  <2>1. \A t \in Senders, d \in Conns : (Serves(t, d))' <=> Serves(t, d)
    BY <1>1, <1>2, <1>8 DEF Serves
  <2>2. \A d \in Conns : pc'[d] = "none" => pc[d] = "none"  BY <1>1
  <2>3. \A t \in Senders : pc'[t] = "body" => pc[t] = "body" /\ msg'[t] = msg[t]  BY <1>1
  <2> QED BY <1>0, <1>1, <2>1, <2>2, <2>3, WireFrame
<1>11. LastInv'
  <2>1. \A t \in Senders : pc'[t] \in Sending => pc[t] \in Sending  BY <1>1 DEF Sending
  <2> QED BY <1>0, <1>1, <1>2, <2>1, LastFrame
<1> QED BY <1>6, <1>7, <1>9, <1>10, <1>11 DEF OrderRest

\* The greeting begins with nobody sending.
LEMMA GreetStep == ASSUME OrderInv, NEW c \in Conns, GreetLock(c) PROVE OrderRest'
<1> USE Names DEF fdVars, slotVars, handlerVars, mainVars
<1>0. TypeOK /\ GuardInv /\ FdInv /\ HurtInv /\ BodyInv /\ WireInv /\ LastInv
  BY OrderParts
<1>1. /\ pc[c] = "conn" /\ pc'[c] = "loop" /\ guard = NoOne /\ guard' = c
      /\ \A t \in Threads : t # c => pc'[t] = pc[t]
      /\ msg'[c] = 0 /\ \A t \in Senders : t # c => idx'[t] = idx[t]
      /\ UNCHANGED <<fdTable, accepted, newFd, hurt, slotSock, slot, hfd, since, rconn, sfd,
                     sent, wire>>
  BY <1>0 DEF GreetLock, Go, Acquire, TypeOK
<1>2. \A t \in Senders : pc[t] \notin Sending  BY <1>0, <1>1 DEF GuardInv
<1>3. PhaseKept  BY <1>1 DEF PhaseKept, Busy
<1>4. Live' = Live  BY <1>3, LiveKept
<1>5. FdInv' /\ HurtInv'
  <2>1. \A d \in Holding \ hurt : pc'[d] = "wait" => rconn'[d] = d
    <3>1. \A d \in Holding : pc'[d] = "wait" => pc[d] = "wait"  BY <1>1, LiveHolds
    <3> QED BY <1>0, <1>1, <3>1 DEF HurtInv
  <2>2. MainBusy' <=> MainBusy  BY <1>1 DEF MainBusy
  <2> QED BY <1>0, <1>1, <1>3, <2>1, <2>2, FdQuiet
<1>6. GuardInv'  BY <1>0, <1>1, <1>2 DEF GuardInv, Sending
<1>7. \A t \in Senders : pc[t] \notin InLoop /\ pc'[t] \notin InLoop
  BY <1>1, <1>2 DEF Sending, InLoop
<1>8. BodyInv'  BY <1>7, NoBody
<1>9. WireInv'
  <2>1. \A t \in Senders, d \in Conns : (Serves(t, d))' <=> Serves(t, d)
    BY <1>7 DEF Serves
  <2>2. \A t \in Senders : pc'[t] # "body"  BY <1>7 DEF InLoop
  <2>3. \A d \in Conns : pc'[d] = "none" => pc[d] = "none"  BY <1>1
  <2> QED BY <1>0, <1>1, <2>1, <2>2, <2>3, WireFrame
<1>10. LastInv'
  <2>1. \A d \in Live : Due(d)' = Due(d) /\ Had(d)' = Had(d)
    BY <1>1 DEF Due, Had, Bodies
  <2>2. \A t \in Senders : pc'[t] \in Sending => msg'[t] = IF t \in Pushers THEN sent' ELSE 0
    BY <1>1, <1>2
  <2> QED BY <1>0, <1>1, <1>4, <2>1, <2>2 DEF LastInv
<1> QED BY <1>5, <1>6, <1>8, <1>9, <1>10 DEF OrderRest

LEMMA FreeStep == ASSUME OrderInv, NEW c \in Conns, ClientFree(c) PROVE OrderRest'
<1> USE Names DEF fdVars, handlerVars, mainVars, sendVars
<1>0. /\ TypeOK /\ SlotOwner /\ GuardInv /\ FdInv /\ HurtInv /\ BodyInv /\ WireInv /\ LastInv
  BY OrderParts
<1>1. /\ pc[c] = "dis" /\ pc'[c] = "close" /\ guard = NoOne
      /\ \A t \in Threads : t # c => pc'[t] = pc[t]
      /\ slotSock' = [slotSock EXCEPT ![slot[c]] = 0]
      /\ UNCHANGED <<guard, fdTable, accepted, newFd, hurt, slot, hfd, since, rconn, idx, sfd,
                     msg, sent, wire>>
  BY <1>0 DEF ClientFree, Go, TypeOK
<1>2. c \in Live /\ Live' = Live \ {c} /\ Live \subseteq Conns /\ Holding' = Holding
  BY <1>1 DEF Live, Holding
<1>3. \A d \in Live' : slotSock'[slot'[d]] = slotSock[slot[d]]
  BY <1>0, <1>1, <1>2 DEF SlotOwner, TypeOK
<1>4. \A d \in Holding : OwnFd(d)' = OwnFd(d)
  <2>1. \A d \in Holding : pc[d] = "start" => d \in Live'  BY <1>1, <1>2 DEF Holding, Live
  <2>2. \A d \in Holding : pc'[d] = "start" <=> pc[d] = "start"  BY <1>1, LiveHolds
  <2> QED BY <1>1, <1>3, <2>1, <2>2 DEF OwnFd
<1>5. \A d \in Holding \ hurt : pc'[d] = "wait" => rconn'[d] = d
  <2>1. \A d \in Holding : pc'[d] = "wait" => pc[d] = "wait"  BY <1>1, LiveHolds
  <2> QED BY <1>0, <1>1, <2>1 DEF HurtInv
<1>6. MainBusy' <=> MainBusy  BY <1>1 DEF MainBusy
<1>7. FdInv' /\ HurtInv'
  <2>1. Live' \subseteq Live  BY <1>2
  <2> QED BY <1>0, <1>1, <1>2, <1>3, <1>4, <1>5, <1>6, <2>1, FdFrame
<1>8. \A t \in Senders : pc[t] \notin InLoop /\ pc'[t] \notin InLoop
  BY <1>0, <1>1 DEF GuardInv, Sending, InLoop
<1>9. GuardInv'  BY <1>0, <1>1 DEF GuardInv, Sending
<1>10. BodyInv'  BY <1>8, NoBody
<1>11. WireInv'
  <2>1. \A t \in Senders, d \in Conns : (Serves(t, d))' <=> Serves(t, d)
    BY <1>8 DEF Serves
  <2>2. \A t \in Senders : pc'[t] # "body"  BY <1>8 DEF InLoop
  <2>3. \A d \in Conns : pc'[d] = "none" => pc[d] = "none"  BY <1>1
  <2> QED BY <1>0, <1>1, <2>1, <2>2, <2>3, WireFrame
<1>12. LastInv'
  <2>1. \A t \in Senders : pc'[t] \in Sending => pc[t] \in Sending  BY <1>1 DEF Sending
  <2> QED BY <1>0, <1>1, <1>2, <2>1, LastFrame
<1> QED BY <1>7, <1>9, <1>10, <1>11, <1>12 DEF OrderRest

\* The handler closes its own descriptor, or one that a hurt connection has by
\* now: not that of a client nothing has hurt.
LEMMA CloseStep == ASSUME OrderInv, NEW c \in Conns, HandlerClose(c) PROVE OrderRest'
<1> USE Names DEF slotVars, mainVars, sendVars
<1>0. /\ TypeOK /\ NewConn /\ GuardInv /\ FdInv /\ HurtInv /\ BodyInv /\ WireInv /\ LastInv
  BY OrderParts
<1>1. /\ pc[c] = "close" /\ pc'[c] = "dead" /\ guard = NoOne
      /\ \A t \in Threads : t # c => pc'[t] = pc[t]
      /\ \A d \in Conns : d # c => /\ slot'[d] = slot[d] /\ hfd'[d] = hfd[d]
                                   /\ since'[d] = since[d] /\ wire'[d] = wire[d]
                                   /\ rconn'[d] = rconn[d]
      /\ wire'[c] = << >>
      /\ UNCHANGED <<guard, accepted, newFd, hurt, slotSock, idx, sfd, msg, sent>>
  BY <1>0 DEF HandlerClose, Go, TypeOK
<1>2. c \notin Live /\ Live' = Live /\ Live \subseteq Conns  BY <1>1 DEF Live
<1>3. c \in Holding /\ Holding' = Holding \ {c} /\ Holding \subseteq Conns
  BY <1>1 DEF Holding
<1>4. MainBusy' <=> MainBusy  BY <1>1 DEF MainBusy
<1>5. \A d \in Holding' : OwnFd(d)' = OwnFd(d) /\ pc'[d] = pc[d] /\ d # c
  BY <1>1, <1>3 DEF OwnFd
<1>6. PICK own : own = OwnFd(c)  OBVIOUS
<1>7. /\ own = hfd[c]
      /\ \A g \in Fds : fdTable'[g] = IF g = own THEN Free ELSE fdTable[g]
  BY <1>1, <1>6 DEF OwnFd, HandlerClose, CloseFd
<1>8. own # ListenFd  BY <1>0, <1>3, <1>6 DEF FdInv
<1>9. FdInv'
  <2>1. ListenerOpen'  BY <1>0, <1>7, <1>8 DEF FdInv, ListenerOpen
  <2>2. \A f, g \in Fds : fdTable'[f] \in Conns /\ fdTable'[f] = fdTable'[g] => f = g
    BY <1>0, <1>7 DEF FdInv
  <2>3. ASSUME NEW f \in Fds, NEW d \in Conns, fdTable'[f] = d
        PROVE  \/ d \in Holding' /\ OwnFd(d)' = f
               \/ MainBusy' /\ accepted' = d /\ newFd' = f
    <3>1. f # own /\ fdTable[f] = d  BY <1>7, <2>3
    <3>2. \/ d \in Holding /\ OwnFd(d) = f
          \/ MainBusy /\ accepted = d /\ newFd = f
      BY <1>0, <3>1 DEF FdInv
    <3> QED BY <1>1, <1>3, <1>4, <1>5, <1>6, <3>1, <3>2
  <2>4. \A d \in Live' : slotSock'[slot'[d]] \in {OwnFd(d)', NoSock}
    <3>1. \A d \in Live : slotSock[slot[d]] \in {OwnFd(d), NoSock}  BY <1>0 DEF FdInv
    <3>2. \A d \in Live' : d \in Holding' /\ slot'[d] = slot[d]
      BY <1>1, <1>2, <1>3, LiveHolds
    <3> QED BY <1>1, <1>2, <1>5, <3>1, <3>2
  <2>5. \A d \in Holding' : OwnFd(d)' # ListenFd
    BY <1>0, <1>3, <1>5 DEF FdInv
  <2>6. MainBusy' => newFd' # ListenFd  BY <1>0, <1>1, <1>4 DEF FdInv
  <2> QED BY <2>1, <2>2, <2>3, <2>4, <2>5, <2>6 DEF FdInv
<1>10. HurtInv'
  <2>1. \A d \in hurt' : d <= accepted'  BY <1>0, <1>1 DEF HurtInv
  <2>2. ASSUME NEW d \in Holding' \ hurt'
        PROVE  /\ OwnFd(d)' \in Fds /\ fdTable'[OwnFd(d)'] = d
               /\ \A e \in Holding' : OwnFd(e)' = OwnFd(d)' => e = d
               /\ MainBusy' => newFd' # OwnFd(d)'
               /\ d \in Live' => slotSock'[slot'[d]] = OwnFd(d)'
               /\ pc'[d] = "wait" => rconn'[d] = d
    <3>1. d \in Holding \ hurt /\ d \in Conns /\ d # c /\ OwnFd(d)' = OwnFd(d) /\ pc'[d] = pc[d]
      BY <1>1, <1>3, <1>5
    <3>2. /\ OwnFd(d) \in Fds /\ fdTable[OwnFd(d)] = d
          /\ \A e \in Holding : OwnFd(e) = OwnFd(d) => e = d
          /\ MainBusy => newFd # OwnFd(d)
          /\ d \in Live => slotSock[slot[d]] = OwnFd(d)
          /\ pc[d] = "wait" => rconn[d] = d
      BY <1>0, <3>1 DEF HurtInv
    <3>3. OwnFd(d) # own  BY <1>3, <1>6, <3>1, <3>2
    <3>4. \A e \in Holding' : e \in Holding /\ OwnFd(e)' = OwnFd(e)  BY <1>3, <1>5
    <3> QED BY <1>1, <1>2, <1>4, <1>7, <3>1, <3>2, <3>3, <3>4
  <2>3. ASSUME MainBusy', accepted' \notin hurt'
        PROVE  fdTable'[newFd'] = accepted' /\ \A d \in Holding' : OwnFd(d)' # newFd'
    <3>1. fdTable[newFd] = accepted /\ \A d \in Holding : OwnFd(d) # newFd
      BY <1>0, <1>1, <1>4, <2>3 DEF HurtInv
    <3>2. newFd # own /\ newFd \in Fds  BY <1>0, <1>3, <1>6, <3>1 DEF TypeOK
    <3> QED BY <1>1, <1>3, <1>5, <1>7, <3>1, <3>2
  <2> QED BY <2>1, <2>2, <2>3 DEF HurtInv
<1>11. \A t \in Senders : pc[t] \notin InLoop /\ pc'[t] \notin InLoop
  BY <1>0, <1>1 DEF GuardInv, Sending, InLoop
<1>12. GuardInv'  BY <1>0, <1>1 DEF GuardInv, Sending
<1>13. BodyInv'  BY <1>11, NoBody
<1>14. WireInv'
  <2>1. \A t \in Senders, d \in Conns : ~Serves(t, d) /\ ~(Serves(t, d))'
    BY <1>11 DEF Serves
  <2>2. \A t \in Senders : pc'[t] # "body"  BY <1>11 DEF InLoop
  <2>3. Len(<< >>) = 0 /\ 1 .. 0 = {} /\ 0 % 2 # 1  OBVIOUS
  <2>4. Uncut(<< >>)  BY <2>3 DEF Uncut, WellFramed
  <2>5. ASSUME NEW d \in Conns \ hurt'
        PROVE  /\ Uncut(wire'[d]) /\ Len(wire'[d]) % 2 # 1
               /\ pc'[d] = "none" => wire'[d] = << >>
    <3>1. CASE d = c  BY <1>1, <2>3, <2>4, <3>1
    <3>2. CASE d # c
      <4>1. wire'[d] = wire[d] /\ pc'[d] = pc[d]  BY <1>1, <3>2
      <4>2. /\ Uncut(wire[d]) /\ Len(wire[d]) % 2 # 1
            /\ pc[d] = "none" => wire[d] = << >>
        BY <1>0, <1>1, <2>1 DEF WireInv
      <4> QED BY <4>1, <4>2
    <3> QED BY <3>1, <3>2
  <2>6. \A d \in Conns \ hurt' : WellFramed(wire'[d])  BY <2>5 DEF Uncut
  <2> QED BY <2>1, <2>2, <2>5, <2>6 DEF WireInv
<1>15. LastInv'
  <2>1. \A t \in Senders : pc'[t] \in Sending => pc[t] \in Sending  BY <1>1 DEF Sending
  <2>2. \A d \in Live' : wire'[d] = wire[d] /\ since'[d] = since[d] /\ slot'[d] = slot[d]
    BY <1>1, <1>2
  <2> QED BY <1>0, <1>1, <1>2, <2>1, <2>2, LastFrame
<1> QED BY <1>9, <1>10, <1>12, <1>13, <1>14, <1>15 DEF OrderRest

-----------------------------------------------------------------------------
(* Rows of pieces.                                                         *)

LEMMA Parity ==
  \A n \in Nat : /\ n % 2 = 1 => (n + 1) % 2 = 0
                 /\ n % 2 # 1 => n % 2 = 0 /\ (n + 1) % 2 = 1
OBVIOUS

LEMMA AppendFacts ==
  ASSUME NEW w \in Seq(Piece), NEW p \in Piece
  PROVE  /\ Append(w, p) \in Seq(Piece)
         /\ Len(w) \in Nat /\ Len(Append(w, p)) = Len(w) + 1
         /\ Append(w, p)[Len(w) + 1] = p
         /\ \A i \in 1 .. Len(w) : Append(w, p)[i] = w[i]
         /\ DOMAIN w = 1 .. Len(w)
         /\ DOMAIN Append(w, p) = 1 .. Len(w) + 1
OBVIOUS

\* A piece goes on if it is a header after a whole message or the body of the
\* header that is last; and so does the part of either that left before a send
\* failed.
LEMMA FramedNext ==
  ASSUME NEW w \in Seq(Piece), Uncut(w), NEW p \in Piece,
         p.part \in (IF Len(w) % 2 = 1 THEN {"body", "cut"} ELSE {"head", "cut"}),
         Len(w) % 2 = 1 => w[Len(w)].msg = p.msg,
         NEW v, v = Append(w, p)
  PROVE  /\ WellFramed(v) /\ v[Len(v)] = p /\ v # w
         /\ Len(v) % 2 = 1 <=> Len(w) % 2 # 1
         /\ p.part # "cut" => Uncut(v)
<1>1. /\ Len(v) = Len(w) + 1 /\ Len(w) \in Nat /\ v[Len(w) + 1] = p
      /\ \A i \in 1 .. Len(w) : v[i] = w[i]
  BY AppendFacts
<1>2. /\ Len(w) % 2 = 1 <=> Len(v) % 2 = 0
      /\ Len(v) % 2 = 1 <=> Len(w) % 2 # 1
  BY <1>1, Parity
<1>3. ASSUME NEW i \in 1 .. Len(v)
      PROVE  /\ i % 2 = 1 => v[i].part \in {"head", "cut"}
             /\ i % 2 = 0 => v[i].part \in {"body", "cut"} /\ v[i].msg = v[i - 1].msg
             /\ v[i].part = "cut" => i = Len(v) /\ p.part = "cut"
  <2>1. CASE i = Len(w) + 1
    <3>1. i % 2 = 0 => Len(w) % 2 = 1 /\ i - 1 = Len(w) /\ Len(w) \in 1 .. Len(w)
      <4>1. 0 % 2 # 1  OBVIOUS
      <4> QED BY <1>1, <1>2, <2>1, <4>1
    <3>2. i % 2 = 0 => v[i - 1].msg = p.msg  BY <1>1, <3>1
    <3>3. i % 2 = 1 => Len(w) % 2 # 1  BY <1>1, <1>2, <2>1
    <3>4. i % 2 = 0 => p.part \in {"body", "cut"}  BY <3>1
    <3>5. i % 2 = 1 => p.part \in {"head", "cut"}  BY <3>3
    <3> QED BY <1>1, <2>1, <3>2, <3>4, <3>5
  <2>2. CASE i # Len(w) + 1
    <3>1. i \in 1 .. Len(w) /\ v[i] = w[i]  BY <1>1, <2>2
    <3>2. i % 2 = 0 => i - 1 \in 1 .. Len(w)
      <4>1. 1 % 2 # 0  OBVIOUS
      <4> QED BY <1>1, <3>1, <4>1
    <3>3. i % 2 = 0 => v[i - 1] = w[i - 1]  BY <1>1, <3>2
    <3> QED BY <3>1, <3>3 DEF Uncut, WellFramed
  <2> QED BY <2>1, <2>2
<1>4. WellFramed(v)  BY <1>3 DEF WellFramed
<1>5. p.part # "cut" => Uncut(v)  BY <1>3, <1>4 DEF Uncut
<1>6. v # w
  <2>1. Len(v) # Len(w)  BY <1>1
  <2> QED BY <2>1
<1> QED BY <1>1, <1>2, <1>4, <1>5, <1>6

LEMMA HadNat == ASSUME TypeOK, NEW c \in Conns PROVE Had(c) \subseteq Nat
<1>1. since[c] \in Nat /\ wire[c] \in Seq(Piece)  BY ServerAssumption DEF TypeOK
<1>2. ASSUME NEW j \in DOMAIN wire[c] PROVE wire[c][j].msg \in Nat
  <2>1. wire[c][j] \in Piece  BY <1>1
  <2> QED BY <2>1, ServerAssumption DEF Piece
<1> QED BY <1>1, <1>2 DEF Had, Bodies

\* What a piece adds to the broadcasts a client has.
LEMMA HadMore ==
  ASSUME TypeOK, NEW c \in Conns, NEW p \in Piece, since' = since,
         wire'[c] = Append(wire[c], p)
  PROVE  Had(c)' = Had(c) \cup (IF p.part = "body" THEN {p.msg} \ {0} ELSE {})
<1>1. wire[c] \in Seq(Piece)  BY DEF TypeOK
<1>2. /\ DOMAIN wire[c] = 1 .. Len(wire[c]) /\ DOMAIN wire'[c] = 1 .. Len(wire[c]) + 1
      /\ Len(wire[c]) \in Nat /\ wire'[c][Len(wire[c]) + 1] = p
      /\ \A i \in 1 .. Len(wire[c]) : wire'[c][i] = wire[c][i]
  BY <1>1, AppendFacts
<1>3. ASSUME NEW m
      PROVE  m \in Had(c)' <=> m \in Had(c) \cup (IF p.part = "body" THEN {p.msg} \ {0} ELSE {})
  <2>1. (\E j \in DOMAIN wire'[c] : wire'[c][j].part = "body" /\ m = wire'[c][j].msg)
          <=> \/ \E j \in DOMAIN wire[c] : wire[c][j].part = "body" /\ m = wire[c][j].msg
              \/ p.part = "body" /\ m = p.msg
    BY <1>2
  <2>2. since'[c] = since[c]  OBVIOUS
  <2> QED BY <2>1, <2>2 DEF Had, Bodies
<1> QED BY <1>3

LEMMA HadSame ==
  ASSUME NEW c \in Conns, since' = since, wire'[c] = wire[c] PROVE Had(c)' = Had(c)
BY DEF Had, Bodies

-----------------------------------------------------------------------------
(* psc_send and psc_send_one.                                              *)

LEMMA LockStep ==
  ASSUME OrderInv, ~RaceAlloc, NEW t \in Pushers, SendLock(t)
  PROVE  OrderRest' /\ \A c \in Live : Due(c) = sent
<1> USE Names DEF fdVars, slotVars, handlerVars, mainVars
<1>0. /\ TypeOK /\ GuardInv /\ FdInv /\ HurtInv /\ BodyInv /\ WireInv /\ LastInv
  BY OrderParts
<1>1. /\ pc[t] = "idle" /\ pc'[t] = "loop" /\ guard = NoOne /\ guard' = t
      /\ pc[Main] # "assign" /\ sent' = sent + 1 /\ msg'[t] = sent + 1 /\ idx'[t] = 0
      /\ \A u \in Threads : u # t => pc'[u] = pc[u]
      /\ UNCHANGED <<fdTable, accepted, newFd, hurt, slotSock, slot, hfd, since, rconn, sfd, wire>>
  BY <1>0 DEF SendLock, Go, Acquire, TypeOK
<1>2. t # Main /\ pc'[Main] = pc[Main] /\ \A c \in Conns : pc'[c] = pc[c]  BY <1>1
<1>3. PhaseKept /\ (MainBusy' <=> MainBusy)  BY <1>2 DEF PhaseKept, MainBusy
<1>4. Live' = Live /\ Live \subseteq Conns  BY <1>3, LiveKept DEF Live
<1>5. FdInv' /\ HurtInv'
  <2>1. \A c \in Holding \ hurt : pc'[c] = "wait" => rconn'[c] = c
    BY <1>0, <1>1, <1>2, LiveHolds DEF HurtInv
  <2> QED BY <1>0, <1>1, <1>3, <2>1, FdQuiet
<1>6. \A u \in Senders : pc[u] \notin Sending  BY <1>0, <1>1 DEF GuardInv
<1>7. GuardInv'  BY <1>0, <1>1, <1>2, <1>6 DEF GuardInv, Sending
<1>8. \A u \in Senders : pc[u] \notin InLoop /\ pc'[u] \notin InLoop
  BY <1>1, <1>6 DEF Sending, InLoop
<1>9. BodyInv'  BY <1>8, NoBody
<1>10. WireInv'
  <2>1. \A u \in Senders, d \in Conns : (Serves(u, d))' <=> Serves(u, d)  BY <1>8 DEF Serves
  <2>2. \A u \in Senders : pc'[u] # "body"  BY <1>8 DEF InLoop
  <2> QED BY <1>0, <1>1, <1>2, <2>1, <2>2, WireFrame
<1>11. \A c \in Live : Due(c) = sent  BY <1>1 DEF Due
<1>12. LastInv'
  <2>1. sent \in Nat /\ sent + 1 - 1 = sent  BY <1>0, ServerAssumption DEF TypeOK
  <2>2. \A c \in Live : Due(c)' = sent
    <3>1. \A c \in Live : slot[c] \in Nat /\ 0 <= slot[c]
      BY <1>0, <1>4, ServerAssumption DEF TypeOK, Slots
    <3> QED BY <1>1, <1>4, <2>1, <3>1 DEF Due
  <2>3. \A c \in Live : Had(c)' = Had(c)  BY <1>1 DEF Had, Bodies
  <2>4. \A u \in Senders : pc'[u] \in Sending => msg'[u] = IF u \in Pushers THEN sent' ELSE 0
    BY <1>1, <1>6
  <2> QED BY <1>0, <1>1, <1>4, <1>11, <2>2, <2>3, <2>4 DEF LastInv
<1> QED BY <1>5, <1>7, <1>9, <1>10, <1>11, <1>12 DEF OrderRest

\* When a broadcast passes a slot, only what its client is due changes.
LEMMA DueStep ==
  ASSUME TypeOK, GuardInv, NEW t \in Senders, guard = t, guard' = t,
         idx'[t] = idx[t] + 1, sent' = sent, slot' = slot,
         NEW c \in Conns, slot[c] # idx[t]
  PROVE  Due(c)' = Due(c)
<1>1. idx[t] \in Nat /\ slot[c] \in Nat  BY ServerAssumption DEF TypeOK, Slots
<1>2. idx[t] <= slot[c] <=> idx[t] + 1 <= slot[c]  BY <1>1
<1>3. (\E u \in Pushers : guard = u /\ idx[u] <= slot[c]) <=> t \in Pushers /\ idx[t] <= slot[c]
  OBVIOUS
<1>4. (\E u \in Pushers : guard' = u /\ idx'[u] <= slot'[c])
        <=> t \in Pushers /\ idx[t] + 1 <= slot[c]
  OBVIOUS
<1> QED BY <1>2, <1>3, <1>4 DEF Due

\* A slot that is skipped is nobody's, or that of a hurt client.
LEMMA SkipStep ==
  ASSUME OrderInv, NEW t \in Senders, SkipSlot(t)
  PROVE  OrderRest' /\ \A c \in Live \ hurt : Due(c)' = Due(c)
<1> USE Names DEF fdVars, slotVars, handlerVars, mainVars
<1>0. /\ TypeOK /\ SlotOwner /\ GuardInv /\ FdInv /\ HurtInv /\ BodyInv /\ WireInv /\ LastInv
  BY OrderParts
<1>1. /\ pc[t] = "loop" /\ guard = t /\ idx[t] < Limit(t) /\ Skips(t)
      /\ idx'[t] = idx[t] + 1 /\ \A u \in Senders : u # t => idx'[u] = idx[u]
      /\ UNCHANGED <<pc, guard, fdTable, accepted, newFd, hurt, slotSock, slot, hfd, since, rconn,
                     sfd, msg, sent, wire>>
  BY <1>0 DEF SkipSlot, GuardInv, Sending, TypeOK
<1>2. PhaseKept /\ Live' = Live /\ Live \subseteq Conns /\ (MainBusy' <=> MainBusy)
  BY <1>1, LiveKept DEF PhaseKept, Live, MainBusy
<1>3. ASSUME NEW c \in Live \ hurt, slot[c] = idx[t] PROVE FALSE
  <2>1. slotSock[idx[t]] \in Fds  BY <1>0, <1>3, LiveHolds DEF HurtInv
  <2>2. slotSock[idx[t]] # NoSock  BY <2>1
  <2>3. ~used[slot[c]] /\ slot[c] \in Slots  BY <1>0, <1>1, <1>2, <1>3, <2>2 DEF Skips, TypeOK
  <2> QED BY <1>0, <2>3 DEF SlotOwner
<1>4. FdInv' /\ HurtInv'
  <2>1. \A c \in Holding \ hurt : pc'[c] = "wait" => rconn'[c] = c  BY <1>0, <1>1 DEF HurtInv
  <2> QED BY <1>0, <1>1, <1>2, <2>1, FdQuiet
<1>5. GuardInv'  BY <1>0, <1>1 DEF GuardInv
<1>6. \A u \in Senders : pc[u] \notin InLoop /\ pc'[u] \notin InLoop
  BY <1>0, <1>1 DEF GuardInv, Sending, InLoop
<1>7. BodyInv'  BY <1>6, NoBody
<1>8. WireInv'
  <2>1. \A u \in Senders, d \in Conns : (Serves(u, d))' <=> Serves(u, d)
    BY <1>6 DEF Serves
  <2> QED BY <1>0, <1>1, <2>1, WireFrame
<1>9. \A c \in Live \ hurt : Due(c)' = Due(c)  BY <1>0, <1>1, <1>2, <1>3, DueStep
<1>10. LastInv'
  <2>1. \A c \in Live : Had(c)' = Had(c)  BY <1>1 DEF Had, Bodies
  <2> QED BY <1>0, <1>1, <1>2, <1>9, <2>1 DEF LastInv
<1> QED BY <1>4, <1>5, <1>7, <1>8, <1>9, <1>10 DEF OrderRest

\* The slot a sender does not skip is that of a connection, its own or one
\* whose handler works.
LEMMA Served ==
  ASSUME OrderInv, NEW t \in Senders, pc[t] = "loop", idx[t] < Limit(t), ~Skips(t)
  PROVE  \E c \in Live : slot[c] = idx[t]
<1> USE Names
<1>0. TypeOK /\ IdxInv /\ SlotOwner /\ GuardInv  BY OrderParts
<1>1. CASE t \in Pushers
  <2>1. guard = t /\ pc[Main] # "assign"  BY <1>0, <1>1 DEF GuardInv, Sending
  <2>2. idx[t] \in Slots
    BY <1>0, <1>1, ServerAssumption DEF Limit, TypeOK, Slots
  <2>3. used[idx[t]]  BY <1>1 DEF Skips
  <2> QED BY <1>0, <2>1, <2>2, <2>3 DEF SlotOwner
<1>2. CASE t \in Conns /\ t \notin Pushers
  <2>1. t \in Live  BY <1>2 DEF Live
  <2>2. slot[t] <= idx[t] /\ idx[t] < slot[t] + 1
    BY <1>0, <1>2 DEF IdxInv, IdxOK, Sending, Limit
  <2>3. slot[t] \in Nat /\ idx[t] \in Nat  BY <1>0, <1>2, ServerAssumption DEF TypeOK, Slots
  <2>4. slot[t] = idx[t]  BY <2>2, <2>3
  <2> QED BY <2>1, <2>4
<1> QED BY <1>1, <1>2 DEF Senders

\* The socket in the slot of a client is not that of another client that nothing
\* has hurt.
LEMMA Reaches ==
  ASSUME OrderInv, NEW c \in Live, NEW f, f = slotSock[slot[c]], f # NoSock
  PROVE  /\ f \in Fds /\ f = OwnFd(c)
         /\ \A d \in Conns \ hurt : fdTable[f] = d => d = c
         /\ c \notin hurt => fdTable[f] = c
<1>0. TypeOK /\ FdInv /\ HurtInv  BY OrderParts
<1>1. c \in Conns /\ c \in Holding  BY LiveHolds
<1>2. f \in Fds  BY <1>0, <1>1, OwnFdType
<1>3. f = OwnFd(c)  BY <1>0 DEF FdInv
<1>4. ASSUME NEW d \in Conns \ hurt, fdTable[f] = d PROVE d = c
  <2>1. \/ d \in Holding /\ OwnFd(d) = f
        \/ MainBusy /\ accepted = d /\ newFd = f
    BY <1>0, <1>2, <1>4 DEF FdInv
  <2>2. ~(MainBusy /\ accepted = d /\ newFd = f)
    BY <1>0, <1>1, <1>3 DEF HurtInv
  <2>3. d \in Holding \ hurt /\ OwnFd(c) = OwnFd(d)  BY <1>3, <2>1, <2>2
  <2> QED BY <1>0, <1>1, <2>3 DEF HurtInv
<1>5. c \notin hurt => fdTable[f] = c  BY <1>0, <1>1, <1>3 DEF HurtInv
<1> QED BY <1>2, <1>3, <1>4, <1>5

\* Of the clients that nothing has hurt, a send reaches the one served or none.
SentTo(t, c, part, ok) ==
  /\ pc'[t] \in {ok, "fail"}
  /\ \A u \in Threads : u # t => pc'[u] = pc[u]
  /\ \A d \in Conns \ hurt : d # c => wire'[d] = wire[d]
  /\ c \notin hurt =>
       \/ pc'[t] = ok /\ wire'[c] = Append(wire[c], [part |-> part, msg |-> msg[t]])
       \/ pc'[t] = "fail" /\ wire'[c] = Append(wire[c], [part |-> "cut", msg |-> msg[t]])
       \/ pc'[t] = "fail" /\ wire'[c] = wire[c]

LEMMA SendHits ==
  ASSUME OrderInv, NEW t \in Senders, NEW c \in Live, NEW f, f = slotSock[slot[c]], f # NoSock,
         NEW from, NEW part \in {"head", "body"}, NEW ok \in {"loop", "body"},
         Send(t, f, from, part, ok)
  PROVE  SentTo(t, c, part, ok)
<1>0. TypeOK  BY OrderParts
<1>1. /\ f \in Fds /\ \A d \in Conns \ hurt : fdTable[f] = d => d = c
      /\ c \notin hurt => fdTable[f] = c
  BY Reaches
<1>2. t \in Threads /\ c \in Conns  BY Names DEF Live
<1>3. /\ pc'[t] \in {ok, "fail"}
      /\ \A u \in Threads : u # t => pc'[u] = pc[u]
  BY <1>0, <1>2 DEF Send, Go, TypeOK
<1>4. ASSUME NEW p, NEW x \in ConnOf(f), wire' = [wire EXCEPT ![x] = Append(@, p)]
      PROVE  /\ \A d \in Conns \ hurt : d # c => wire'[d] = wire[d]
             /\ c \notin hurt => wire'[c] = Append(wire[c], p)
  <2>1. x \in Conns /\ fdTable[f] = x  BY DEF ConnOf
  <2>2. \A d \in Conns : wire'[d] = IF d = x THEN Append(wire[x], p) ELSE wire[d]
    BY <1>0, <1>4, <2>1 DEF TypeOK
  <2> QED BY <1>1, <1>2, <2>1, <2>2
<1>5. CASE UNCHANGED wire
  <2>1. CASE pc'[t] = "fail"  BY <1>3, <1>5, <2>1 DEF SentTo
  <2>2. CASE pc'[t] # "fail"
    <3>1. \E x \in ConnOf(f) :
            /\ pc' = [pc EXCEPT ![t] = ok]
            /\ wire' = [wire EXCEPT ![x] = Append(@, [part |-> part, msg |-> msg[t]])]
      BY <1>0, <1>2, <2>2 DEF Send, Go, TypeOK
    <3>2. pc'[t] = ok  BY <1>0, <1>2, <3>1 DEF TypeOK
    <3> QED BY <1>3, <1>4, <3>1, <3>2 DEF SentTo
  <2> QED BY <2>1, <2>2
<1>6. CASE \E x \in ConnOf(f) :
            /\ pc' = [pc EXCEPT ![t] = ok]
            /\ wire' = [wire EXCEPT ![x] = Append(@, [part |-> part, msg |-> msg[t]])]
  <2>1. pc'[t] = ok  BY <1>0, <1>2, <1>6 DEF TypeOK
  <2> QED BY <1>3, <1>4, <1>6, <2>1 DEF SentTo
<1>7. CASE \E x \in ConnOf(f) :
            /\ pc' = [pc EXCEPT ![t] = "fail"]
            /\ wire' = [wire EXCEPT ![x] = Append(@, [part |-> "cut", msg |-> msg[t]])]
  <2>1. pc'[t] = "fail"  BY <1>0, <1>2, <1>7 DEF TypeOK
  <2> QED BY <1>3, <1>4, <1>7, <2>1 DEF SentTo
<1> QED BY <1>5, <1>6, <1>7 DEF Send, Go

\* A step in which the holder of sendguard goes on sending.
LEMMA SendQuiet ==
  ASSUME OrderInv, NEW t \in Senders, guard = t, guard' = t,
         pc[t] \in Sending, pc'[t] \in Sending, \A u \in Threads : u # t => pc'[u] = pc[u]
  PROVE  /\ PhaseKept /\ (MainBusy' <=> MainBusy) /\ GuardInv'
         /\ Live' = Live /\ Holding' = Holding
         /\ \A u \in Senders : u # t => pc[u] \notin Sending /\ pc'[u] \notin Sending
         /\ \A d \in Conns : pc'[d] = "none" => pc[d] = "none"
         /\ UNCHANGED rconn => \A d \in Holding \ hurt : pc'[d] = "wait" => rconn'[d] = d
<1> USE Names
<1>0. GuardInv /\ HurtInv  BY OrderParts
<1>1. PhaseKept  BY DEF PhaseKept, Busy, Sending
<1>2. pc'[Main] = pc[Main] /\ (MainBusy' <=> MainBusy)  BY DEF MainBusy
<1>3. Live' = Live /\ Holding' = Holding  BY <1>1, LiveKept
<1>4. \A u \in Senders : u # t => pc[u] \notin Sending /\ pc'[u] \notin Sending
  BY <1>0 DEF GuardInv
<1>5. GuardInv'  BY <1>0, <1>2, <1>4 DEF GuardInv
<1>6. \A d \in Conns : pc'[d] = "none" => pc[d] = "none"  BY DEF Sending
<1>7. ASSUME UNCHANGED rconn PROVE \A d \in Holding \ hurt : pc'[d] = "wait" => rconn'[d] = d
  <2>1. \A d \in Conns : pc'[d] = "wait" => pc[d] = "wait"  BY DEF Sending
  <2> QED BY <1>0, <1>7, <2>1, LiveHolds DEF HurtInv
<1> QED BY <1>1, <1>2, <1>3, <1>4, <1>5, <1>6, <1>7

LEMMA HeadStep ==
  ASSUME OrderInv, NEW t \in Senders, SendHead(t)
  PROVE  OrderRest' /\ \A c \in Live : Due(c)' = Due(c)
<1> USE Names DEF fdVars, slotVars, handlerVars, mainVars
<1>0. /\ TypeOK /\ SlotOwner /\ GuardInv /\ FdInv /\ HurtInv /\ BodyInv /\ WireInv /\ LastInv
  BY OrderParts
<1>1. pc[t] = "loop" /\ guard = t
  BY <1>0 DEF SendHead, Send, Go, GuardInv, Sending
<1>2. PICK c \in Live : slot[c] = idx[t]  BY <1>1, Served DEF SendHead
<1> PICK f : f = slotSock[slot[c]]  OBVIOUS
<1>3. f = slotSock[idx[t]] /\ f # NoSock /\ c \in Conns  BY <1>2 DEF SendHead, Skips, Live
<1>4. /\ UNCHANGED <<guard, fdTable, accepted, newFd, hurt, slotSock, slot, hfd, since, rconn, idx,
                     msg, sent>>
      /\ sfd'[t] = f
  BY <1>0, <1>3 DEF SendHead, TypeOK
<1>5. Send(t, f, "loop", "head", "body")  BY <1>3 DEF SendHead
<1>6. /\ pc'[t] \in {"body", "fail"} /\ \A u \in Threads : u # t => pc'[u] = pc[u]
      /\ \A d \in Conns \ hurt : d # c => wire'[d] = wire[d]
      /\ c \notin hurt =>
           \/ pc'[t] = "body" /\ wire'[c] = Append(wire[c], [part |-> "head", msg |-> msg[t]])
           \/ pc'[t] = "fail" /\ wire'[c] = Append(wire[c], [part |-> "cut", msg |-> msg[t]])
           \/ pc'[t] = "fail" /\ wire'[c] = wire[c]
  <2>1. SentTo(t, c, "head", "body")  BY <1>3, <1>5, SendHits
  <2> QED BY <2>1 DEF SentTo
<1>7. /\ PhaseKept /\ (MainBusy' <=> MainBusy) /\ GuardInv' /\ Live' = Live
      /\ \A u \in Senders : u # t => pc[u] \notin Sending /\ pc'[u] \notin Sending
      /\ \A d \in Conns : pc'[d] = "none" => pc[d] = "none"
      /\ \A d \in Holding \ hurt : pc'[d] = "wait" => rconn'[d] = d
  BY <1>1, <1>4, <1>6, SendQuiet DEF Sending
<1>8. FdInv' /\ HurtInv'  BY <1>0, <1>4, <1>7, FdQuiet
<1>9. \A u \in Senders : /\ pc[u] \notin InLoop
                         /\ pc'[u] \in InLoop <=> u = t
  BY <1>1, <1>6, <1>7 DEF Sending, InLoop
<1>10. BodyInv'
  <2> SUFFICES ASSUME NEW u \in Senders, u = t
               PROVE  /\ \E d \in Live' : slot'[d] = idx'[u]
                      /\ slotSock'[idx'[u]] # NoSock
                      /\ sfd'[u] = slotSock'[idx'[u]]
                      /\ pc'[u] # "mark"
    BY <1>9 DEF BodyInv, InLoop
  <2> QED BY <1>2, <1>3, <1>4, <1>6, <1>7
<1>11. \A d \in Conns \ hurt :
         Uncut(wire[d]) /\ Len(wire[d]) % 2 # 1 /\ (pc[d] = "none" => wire[d] = << >>)
  <2>1. \A u \in Senders, d \in Conns : ~Serves(u, d)  BY <1>9 DEF Serves
  <2> QED BY <1>0, <2>1 DEF WireInv
<1>12. \A u \in Senders, d \in Conns : (Serves(u, d))' <=> u = t /\ d = c
  <2>1. \A d \in Live : slot[d] = idx[t] <=> d = c  BY <1>0, <1>2 DEF SlotOwner
  <2> QED BY <1>2, <1>4, <1>7, <1>9, <2>1 DEF Serves
<1>13. ASSUME c \notin hurt
       PROVE  /\ WellFramed(wire'[c]) /\ pc'[c] # "none" /\ Had(c)' = Had(c)
              /\ pc'[t] = "body" => /\ Uncut(wire'[c]) /\ Len(wire'[c]) % 2 = 1
                                    /\ wire'[c][Len(wire'[c])].msg = msg[t]
  <2> PICK w : w = wire[c]  OBVIOUS
  <2> PICK v : v = wire'[c]  OBVIOUS
  <2> PICK m \in 0 .. MaxSends : m = msg[t]  BY <1>0 DEF TypeOK
  <2>1. w \in Seq(Piece) /\ Uncut(w) /\ Len(w) % 2 # 1
    BY <1>0, <1>3, <1>11, <1>13 DEF TypeOK
  <2>2. pc'[c] # "none"  BY <1>2, <1>7 DEF Live
  <2>3. ASSUME NEW part \in {"head", "cut"}, v = Append(w, [part |-> part, msg |-> msg[t]])
        PROVE  /\ WellFramed(v) /\ v # w /\ Had(c)' = Had(c)
               /\ part = "head" => Uncut(v) /\ Len(v) % 2 = 1 /\ v[Len(v)].msg = msg[t]
    <3> PICK p \in Piece : p = [part |-> part, msg |-> m]  BY DEF Piece
    <3>1. p.part = part /\ p.msg = m /\ v = Append(w, p)  BY <2>3
    <3>2. p.part \in (IF Len(w) % 2 = 1 THEN {"body", "cut"} ELSE {"head", "cut"})
      BY <2>1, <3>1
    <3>3. /\ WellFramed(v) /\ v[Len(v)] = p /\ v # w /\ Len(v) % 2 = 1
          /\ p.part # "cut" => Uncut(v)
      BY ONLY <2>1, <3>1, <3>2, p \in Piece, FramedNext
    <3>4. Had(c)' = Had(c)  BY <1>0, <1>3, <1>4, <3>1, HadMore
    <3> QED BY <3>1, <3>3, <3>4
  <2>4. CASE v = w
    <3>1. pc'[t] # "body"  BY <1>6, <1>13, <2>3, <2>4
    <3>2. Had(c)' = Had(c)  BY <1>3, <1>4, <2>4, HadSame
    <3> QED BY <2>1, <2>2, <2>4, <3>1, <3>2 DEF Uncut
  <2>5. CASE pc'[t] = "body" /\ v = Append(w, [part |-> "head", msg |-> msg[t]])
    BY <2>2, <2>3, <2>5
  <2>6. CASE pc'[t] = "fail" /\ v = Append(w, [part |-> "cut", msg |-> msg[t]])
    BY <2>2, <2>3, <2>6
  <2> QED BY <1>6, <1>13, <2>4, <2>5, <2>6
<1>14. WireInv'
  <2>1. ASSUME NEW d \in Conns \ hurt'
        PROVE  /\ WellFramed(wire'[d])
               /\ pc'[d] = "none" => wire'[d] = << >>
               /\ (\A u \in Senders : ~(Serves(u, d))') =>
                    Uncut(wire'[d]) /\ Len(wire'[d]) % 2 # 1
               /\ \A u \in Senders : pc'[u] = "body" /\ (Serves(u, d))' =>
                    /\ Uncut(wire'[d]) /\ Len(wire'[d]) % 2 = 1
                    /\ wire'[d][Len(wire'[d])].msg = msg'[u]
    <3>1. CASE d = c  BY <1>4, <1>12, <1>13, <3>1
    <3>2. CASE d # c
      <4>1. wire'[d] = wire[d]  BY <1>4, <1>6, <3>2
      <4>2. WellFramed(wire[d])  BY <1>4, <1>11 DEF Uncut
      <4> QED BY <1>4, <1>7, <1>11, <1>12, <3>2, <4>1, <4>2
    <3> QED BY <3>1, <3>2
  <2> QED BY <2>1 DEF WireInv
<1>15. \A d \in Live : Due(d)' = Due(d)  BY <1>4 DEF Due
<1>16. LastInv'
  <2>1. ASSUME NEW d \in Live' \ hurt' PROVE Had(d)' = Had(d)
    <3>1. CASE d = c  BY <1>4, <1>13, <3>1
    <3>2. CASE d # c
      <4>1. wire'[d] = wire[d] /\ d \in Conns  BY <1>4, <1>6, <1>7, <3>2, LiveHolds
      <4> QED BY <1>4, <4>1, HadSame
    <3> QED BY <3>1, <3>2
  <2>2. \A u \in Senders : pc'[u] \in Sending => msg'[u] = IF u \in Pushers THEN sent' ELSE 0
    BY <1>0, <1>1, <1>4, <1>7 DEF LastInv, Sending
  <2> QED BY <1>0, <1>4, <1>7, <1>15, <2>1, <2>2 DEF LastInv
<1> QED BY <1>7, <1>8, <1>10, <1>14, <1>15, <1>16 DEF OrderRest

\* The body follows its header to the client served, which then has the
\* broadcast under way; or the send fails, and the sender stays at its slot.
LEMMA BodyStep ==
  ASSUME OrderInv, NEW t \in Senders, SendBody(t)
  PROVE  /\ OrderRest'
         /\ \E c \in Live :
              /\ slot[c] = idx[t] /\ \A d \in Live : d # c => Due(d)' = Due(d)
              /\ t \in Pushers /\ pc'[t] = "loop" /\ c \notin hurt =>
                   Due(c) = sent - 1 /\ Due(c)' = sent /\ sent # 0
              /\ t \notin Pushers \/ pc'[t] = "fail" => Due(c)' = Due(c)
<1> USE Names DEF fdVars, slotVars, handlerVars, mainVars
<1>0. /\ TypeOK /\ SlotOwner /\ GuardInv /\ FdInv /\ HurtInv /\ BodyInv /\ WireInv /\ LastInv
  BY OrderParts
<1>1. pc[t] = "body" /\ guard = t
  BY <1>0 DEF SendBody, Send, Go, GuardInv, Sending
<1>2. /\ \E c \in Live : slot[c] = idx[t]
      /\ sfd[t] = slotSock[idx[t]] /\ slotSock[idx[t]] # NoSock
  BY <1>0, <1>1 DEF BodyInv, InLoop
<1> PICK c \in Live : slot[c] = idx[t]  BY <1>2
<1> PICK f : f = slotSock[slot[c]]  OBVIOUS
<1>3. f = slotSock[idx[t]] /\ f = sfd[t] /\ f # NoSock /\ c \in Conns  BY <1>2 DEF Live
<1>4. /\ UNCHANGED <<guard, fdTable, accepted, newFd, hurt, slotSock, slot, hfd, since, rconn,
                     sfd, msg, sent>>
      /\ idx'[t] = (IF pc'[t] = "loop" THEN idx[t] + 1 ELSE idx[t])
      /\ \A u \in Senders : u # t => idx'[u] = idx[u]
  BY <1>0 DEF SendBody, TypeOK
<1>5. Send(t, f, "body", "body", "loop")  BY <1>3 DEF SendBody
<1>6. /\ pc'[t] \in {"loop", "fail"} /\ \A u \in Threads : u # t => pc'[u] = pc[u]
      /\ \A d \in Conns \ hurt : d # c => wire'[d] = wire[d]
      /\ c \notin hurt =>
           \/ pc'[t] = "loop" /\ wire'[c] = Append(wire[c], [part |-> "body", msg |-> msg[t]])
           \/ pc'[t] = "fail" /\ wire'[c] = Append(wire[c], [part |-> "cut", msg |-> msg[t]])
           \/ pc'[t] = "fail" /\ wire'[c] = wire[c]
  <2>1. SentTo(t, c, "body", "loop")  BY <1>3, <1>5, SendHits
  <2> QED BY <2>1 DEF SentTo
<1>7. /\ PhaseKept /\ (MainBusy' <=> MainBusy) /\ GuardInv' /\ Live' = Live
      /\ \A u \in Senders : u # t => pc[u] \notin Sending /\ pc'[u] \notin Sending
      /\ \A d \in Conns : pc'[d] = "none" => pc[d] = "none"
      /\ \A d \in Holding \ hurt : pc'[d] = "wait" => rconn'[d] = d
  BY <1>1, <1>4, <1>6, SendQuiet DEF Sending
<1>8. FdInv' /\ HurtInv'  BY <1>0, <1>4, <1>7, FdQuiet
<1>9. /\ \A u \in Senders : pc[u] \in InLoop <=> u = t
      /\ \A u \in Senders : pc'[u] \in InLoop => u = t /\ pc'[t] = "fail"
      /\ \A u \in Senders : pc'[u] # "body"
  BY <1>1, <1>6, <1>7 DEF Sending, InLoop
<1>10. \A d \in Live : d # c => slot[d] # idx[t]  BY <1>0 DEF SlotOwner
<1>11. BodyInv'
  <2>1. CASE pc'[t] = "loop"  BY <1>9, <2>1, NoBody
  <2>2. CASE pc'[t] = "fail"
    <3> SUFFICES ASSUME NEW u \in Senders, u = t
                 PROVE  /\ \E d \in Live' : slot'[d] = idx'[u]
                        /\ slotSock'[idx'[u]] # NoSock
                        /\ pc'[u] = "fail"
      BY <1>9, <2>2 DEF BodyInv, InLoop
    <3> QED BY <1>3, <1>4, <1>7, <2>2
  <2> QED BY <1>6, <2>1, <2>2
<1>12. \A u \in Senders, d \in Conns : Serves(u, d) <=> u = t /\ d = c
  BY <1>3, <1>9, <1>10 DEF Serves
<1>13. pc'[t] = "fail" => (Serves(t, c))'
  BY <1>4, <1>7 DEF Serves, InLoop
<1>14. \A d \in Conns \ hurt : d # c =>
         Uncut(wire[d]) /\ Len(wire[d]) % 2 # 1 /\ (pc[d] = "none" => wire[d] = << >>)
  BY <1>0, <1>12 DEF WireInv
<1>15. PICK m \in 0 .. MaxSends : m = msg[t]  BY <1>0 DEF TypeOK
<1>16. ASSUME c \notin hurt
       PROVE  /\ WellFramed(wire'[c]) /\ pc'[c] # "none"
              /\ pc'[t] = "loop" => /\ Uncut(wire'[c]) /\ Len(wire'[c]) % 2 # 1
                                    /\ Had(c)' = Had(c) \cup ({m} \ {0})
              /\ pc'[t] = "fail" => Had(c)' = Had(c)
  <2> PICK w : w = wire[c]  OBVIOUS
  <2> PICK v : v = wire'[c]  OBVIOUS
  <2>1. w \in Seq(Piece) /\ Uncut(w) /\ Len(w) % 2 = 1 /\ w[Len(w)].msg = m
    <3>1. Serves(t, c) /\ c \in Conns \ hurt  BY <1>3, <1>12, <1>16
    <3>2. Uncut(w) /\ Len(w) % 2 = 1 /\ w[Len(w)].msg = msg[t]
      BY <1>0, <1>1, <3>1 DEF WireInv
    <3> QED BY <1>0, <1>3, <1>15, <3>2 DEF TypeOK
  <2>2. pc'[c] # "none"  BY <1>7 DEF Live
  <2>3. ASSUME NEW part \in {"body", "cut"}, v = Append(w, [part |-> part, msg |-> msg[t]])
        PROVE  /\ WellFramed(v) /\ v # w
               /\ Had(c)' = Had(c) \cup (IF part = "body" THEN {m} \ {0} ELSE {})
               /\ part = "body" => Uncut(v) /\ Len(v) % 2 # 1
    <3> PICK p \in Piece : p = [part |-> part, msg |-> m]  BY DEF Piece
    <3>1. p.part = part /\ p.msg = m /\ v = Append(w, p)  BY <1>15, <2>3
    <3>2. p.part \in (IF Len(w) % 2 = 1 THEN {"body", "cut"} ELSE {"head", "cut"})
      BY <2>1, <3>1
    <3>3. /\ WellFramed(v) /\ v # w /\ Len(v) % 2 # 1
          /\ p.part # "cut" => Uncut(v)
      BY ONLY <2>1, <3>1, <3>2, p \in Piece, FramedNext
    <3>4. Had(c)' = Had(c) \cup (IF part = "body" THEN {m} \ {0} ELSE {})
      BY <1>0, <1>3, <1>4, <3>1, HadMore
    <3> QED BY <3>1, <3>3, <3>4
  <2>4. CASE v = w
    <3>1. pc'[t] # "loop"  BY <1>6, <1>16, <2>3, <2>4
    <3>2. Had(c)' = Had(c)  BY <1>3, <1>4, <2>4, HadSame
    <3> QED BY <2>1, <2>2, <2>4, <3>1, <3>2 DEF Uncut
  <2>5. CASE pc'[t] = "loop" /\ v = Append(w, [part |-> "body", msg |-> msg[t]])
    BY <2>2, <2>3, <2>5
  <2>6. CASE pc'[t] = "fail" /\ v = Append(w, [part |-> "cut", msg |-> msg[t]])
    BY <2>2, <2>3, <2>6
  <2> QED BY <1>6, <1>16, <2>4, <2>5, <2>6
<1>17. WireInv'
  <2>1. ASSUME NEW d \in Conns \ hurt'
        PROVE  /\ WellFramed(wire'[d])
               /\ pc'[d] = "none" => wire'[d] = << >>
               /\ (\A u \in Senders : ~(Serves(u, d))') =>
                    Uncut(wire'[d]) /\ Len(wire'[d]) % 2 # 1
    <3>1. CASE d = c  BY <1>4, <1>6, <1>13, <1>16, <3>1
    <3>2. CASE d # c
      <4>1. wire'[d] = wire[d]  BY <1>4, <1>6, <3>2
      <4>2. WellFramed(wire[d])  BY <1>4, <1>14, <3>2 DEF Uncut
      <4> QED BY <1>4, <1>7, <1>14, <3>2, <4>1, <4>2
    <3> QED BY <3>1, <3>2
  <2> QED BY <1>9, <2>1 DEF WireInv
<1>18. \A d \in Live : pc'[t] = "fail" \/ d # c => Due(d)' = Due(d)
  <2>1. CASE pc'[t] = "loop"  BY <1>0, <1>1, <1>4, <1>7, <1>10, <2>1, DueStep, LiveHolds
  <2>2. CASE pc'[t] = "fail"
    <3>1. \A u \in Senders : idx'[u] = idx[u]  BY <1>4, <2>2
    <3> QED BY <1>4, <3>1 DEF Due
  <2> QED BY <1>6, <2>1, <2>2
<1>19. /\ sent \in Nat /\ slot[c] \in Nat /\ Had(c) \subseteq Nat
       /\ m = IF t \in Pushers THEN sent ELSE 0
  <2>1. sent \in Nat /\ slot[c] \in Nat
    BY <1>0, <1>3, ServerAssumption DEF TypeOK, Slots
  <2>2. m = IF t \in Pushers THEN sent ELSE 0  BY <1>0, <1>1, <1>15 DEF LastInv, Sending
  <2> QED BY <1>0, <1>3, <2>1, <2>2, HadNat
<1>20. ASSUME t \in Pushers, pc'[t] = "loop", c \notin hurt
       PROVE  Due(c) = sent - 1 /\ Due(c)' = sent /\ sent # 0
  <2>1. idx[t] <= slot[c]  BY <1>19
  <2>2. Due(c) = sent - 1  BY <1>1, <1>20, <2>1 DEF Due
  <2>3. sent - 1 \in Nat
    <3>1. Due(c) \in Had(c)  BY <1>0, <1>20 DEF LastInv
    <3> QED BY <1>19, <2>2, <3>1
  <2>4. ~\E u \in Pushers : guard' = u /\ idx'[u] <= slot'[c]
    <3>1. ~(idx[t] + 1 <= slot[c])  BY <1>19
    <3> QED BY <1>1, <1>4, <1>20, <3>1
  <2> QED BY <1>4, <1>19, <2>2, <2>3, <2>4 DEF Due
<1>21. t \notin Pushers => Due(c)' = Due(c)
  BY <1>1, <1>4 DEF Due
<1>22. LastInv'
  <2>1. \A u \in Senders : pc'[u] \in Sending => msg'[u] = IF u \in Pushers THEN sent' ELSE 0
    BY <1>0, <1>1, <1>4, <1>7 DEF LastInv, Sending
  <2>2. ASSUME NEW d \in Live \ hurt, d # c
        PROVE  Due(d)' \in Had(d)' /\ \A k \in Had(d)' : k <= Due(d)'
    <3>1. wire'[d] = wire[d] /\ d \in Conns  BY <1>6, <2>2, LiveHolds
    <3>2. Had(d)' = Had(d)  BY <1>4, <3>1, HadSame
    <3> QED BY <1>0, <1>18, <2>2, <3>2 DEF LastInv
  <2>3. ASSUME c \notin hurt PROVE Due(c)' \in Had(c)' /\ \A k \in Had(c)' : k <= Due(c)'
    <3>1. Due(c) \in Had(c) /\ \A k \in Had(c) : k <= Due(c)  BY <1>0, <2>3 DEF LastInv
    <3>2. CASE pc'[t] = "fail"  BY <1>16, <1>18, <2>3, <3>1, <3>2
    <3>3. CASE pc'[t] = "loop" /\ t \notin Pushers
      <4>1. Had(c)' = Had(c)  BY <1>16, <1>19, <2>3, <3>3
      <4> QED BY <1>21, <3>1, <3>3, <4>1
    <3>4. CASE pc'[t] = "loop" /\ t \in Pushers
      <4>1. m = sent /\ Due(c)' = sent /\ sent # 0 /\ Due(c) = sent - 1
        BY <1>19, <1>20, <2>3, <3>4
      <4>2. \A k \in Had(c) : k <= sent  BY <1>19, <3>1, <4>1
      <4>3. Had(c)' = Had(c) \cup {sent}  BY <1>16, <2>3, <3>4, <4>1
      <4>4. sent <= sent  BY <1>19
      <4> QED BY <4>1, <4>2, <4>3, <4>4
    <3> QED BY <1>6, <3>2, <3>3, <3>4
  <2> QED BY <1>4, <1>7, <2>1, <2>2, <2>3 DEF LastInv
<1>23. OrderRest'  BY <1>7, <1>8, <1>11, <1>17, <1>22 DEF OrderRest
<1> QED BY <1>18, <1>20, <1>21, <1>23

\* The client whose socket a sender closes has lost its descriptor; no other
\* client that nothing had hurt has.
LEMMA FailCloseStep ==
  ASSUME OrderInv, NEW t \in Senders, FailClose(t)
  PROVE  /\ OrderRest' /\ \A c \in Live : Due(c)' = Due(c)
         /\ hurt \subseteq hurt' /\ \E c \in Live : \A d \in hurt' \ hurt : d = c
<1> USE Names DEF slotVars, handlerVars, mainVars, sendVars
<1>0. /\ TypeOK /\ NewConn /\ SlotOwner
      /\ GuardInv /\ FdInv /\ HurtInv /\ BodyInv /\ WireInv /\ LastInv
  BY OrderParts
<1>1. pc[t] = "fail" /\ guard = t  BY <1>0 DEF FailClose, Go, GuardInv, Sending
<1>2. PICK c \in Live : slot[c] = idx[t]  BY <1>0, <1>1 DEF BodyInv, InLoop
<1> PICK f : f = slotSock[slot[c]]  OBVIOUS
<1>3. f = slotSock[idx[t]] /\ f # NoSock /\ c \in Conns
  BY <1>0, <1>1, <1>2 DEF BodyInv, Live
<1>4. f \in Fds /\ f = OwnFd(c)  BY <1>3, Reaches
<1>5. /\ pc'[t] = "mark" /\ \A u \in Threads : u # t => pc'[u] = pc[u]
      /\ hurt' = hurt \cup Holders(f)
      /\ \A g \in Fds : fdTable'[g] = IF g = f THEN Free ELSE fdTable[g]
      /\ UNCHANGED <<guard, accepted, newFd, used, slotSock, slot, hfd, since, rconn, idx, sfd, msg,
                     sent, wire>>
  BY <1>0, <1>3 DEF FailClose, Go, CloseFd, TypeOK
<1>6. /\ PhaseKept /\ (MainBusy' <=> MainBusy) /\ GuardInv' /\ Live' = Live /\ Holding' = Holding
      /\ \A u \in Senders : u # t => pc[u] \notin Sending /\ pc'[u] \notin Sending
      /\ \A d \in Conns : pc'[d] = "none" => pc[d] = "none"
      /\ \A d \in Holding \ hurt : pc'[d] = "wait" => rconn'[d] = d
  BY <1>1, <1>5, SendQuiet DEF Sending
<1>7. \A d \in Holding : OwnFd(d)' = OwnFd(d) /\ d \in Conns
  BY <1>5, <1>6, OwnFdKept, LiveHolds
<1>8. c \in Holding /\ Holders(f) = {d \in Holding : OwnFd(d) = f}
  BY LiveHolds DEF Holders, Holding
<1>9. f # ListenFd  BY <1>0, <1>4, <1>8 DEF FdInv
<1>10. FdInv'
  <2>1. ListenerOpen'  BY <1>0, <1>5, <1>9 DEF FdInv, ListenerOpen
  <2>2. \A g, h \in Fds : fdTable'[g] \in Conns /\ fdTable'[g] = fdTable'[h] => g = h
    BY <1>0, <1>5 DEF FdInv
  <2>3. ASSUME NEW g \in Fds, NEW d \in Conns, fdTable'[g] = d
        PROVE  \/ d \in Holding' /\ OwnFd(d)' = g
               \/ MainBusy' /\ accepted' = d /\ newFd' = g
    <3>1. fdTable[g] = d  BY <1>5, <2>3
    <3>2. \/ d \in Holding /\ OwnFd(d) = g
          \/ MainBusy /\ accepted = d /\ newFd = g
      BY <1>0, <3>1 DEF FdInv
    <3> QED BY <1>5, <1>6, <1>7, <3>2
  <2>4. \A d \in Live' : slotSock'[slot'[d]] \in {OwnFd(d)', NoSock}
    <3>1. \A d \in Live : slotSock[slot[d]] \in {OwnFd(d), NoSock}  BY <1>0 DEF FdInv
    <3> QED BY <1>5, <1>6, <1>7, <3>1, LiveHolds
  <2>5. \A d \in Holding' : OwnFd(d)' # ListenFd  BY <1>0, <1>6, <1>7 DEF FdInv
  <2>6. MainBusy' => newFd' # ListenFd  BY <1>0, <1>5, <1>6 DEF FdInv
  <2> QED BY <2>1, <2>2, <2>3, <2>4, <2>5, <2>6 DEF FdInv
<1>11. HurtInv'
  <2>1. \A d \in hurt' : d <= accepted'
    <3>1. ASSUME NEW d \in Holders(f) PROVE d <= accepted
      <4>1. d \in Conns /\ pc[d] # "none"  BY DEF Holders
      <4>2. ~(d > accepted)  BY <1>0, <4>1 DEF NewConn
      <4>3. d \in Nat /\ accepted \in Nat  BY <1>0, <4>1 DEF TypeOK
      <4> QED BY <4>2, <4>3
    <3> QED BY <1>0, <1>5, <3>1 DEF HurtInv
  <2>2. ASSUME NEW d \in Holding' \ hurt'
        PROVE  /\ OwnFd(d)' \in Fds /\ fdTable'[OwnFd(d)'] = d
               /\ \A e \in Holding' : OwnFd(e)' = OwnFd(d)' => e = d
               /\ MainBusy' => newFd' # OwnFd(d)'
               /\ d \in Live' => slotSock'[slot'[d]] = OwnFd(d)'
               /\ pc'[d] = "wait" => rconn'[d] = d
    <3>1. d \in Holding \ hurt /\ OwnFd(d) # f  BY <1>5, <1>6, <1>8
    <3>2. /\ OwnFd(d) \in Fds /\ fdTable[OwnFd(d)] = d
          /\ \A e \in Holding : OwnFd(e) = OwnFd(d) => e = d
          /\ MainBusy => newFd # OwnFd(d)
          /\ d \in Live => slotSock[slot[d]] = OwnFd(d)
      BY <1>0, <3>1 DEF HurtInv
    <3> QED BY <1>5, <1>6, <1>7, <3>1, <3>2
  <2>3. ASSUME MainBusy', accepted' \notin hurt'
        PROVE  fdTable'[newFd'] = accepted' /\ \A d \in Holding' : OwnFd(d)' # newFd'
    <3>1. fdTable[newFd] = accepted /\ \A d \in Holding : OwnFd(d) # newFd
      BY <1>0, <1>5, <1>6, <2>3 DEF HurtInv
    <3>2. newFd # f /\ newFd \in Fds  BY <1>0, <1>4, <1>8, <3>1 DEF TypeOK
    <3> QED BY <1>5, <1>6, <1>7, <3>1, <3>2
  <2> QED BY <2>1, <2>2, <2>3 DEF HurtInv
<1>12. \A u \in Senders : pc'[u] \in InLoop <=> pc[u] \in InLoop
  BY <1>1, <1>5, <1>6 DEF Sending, InLoop
<1>13. \A u \in Senders : pc'[u] \in InLoop => u = t
  BY <1>6 DEF Sending, InLoop
<1>14. BodyInv'
  <2> SUFFICES ASSUME NEW u \in Senders, u = t
               PROVE  /\ \E d \in Live' : slot'[d] = idx'[u]
                      /\ pc'[u] = "mark"
                      /\ \A d \in Live', g \in Fds : slot'[d] = idx'[u] => fdTable'[g] # d
    BY <1>13 DEF BodyInv, InLoop
  <2>1. ASSUME NEW d \in Live, NEW g \in Fds, slot[d] = idx[t], fdTable'[g] = d PROVE FALSE
    <3>1. d = c  BY <1>0, <1>2, <2>1 DEF SlotOwner
    <3>2. g # f /\ fdTable[g] = c  BY <1>3, <1>5, <2>1, <3>1
    <3>3. MainBusy => accepted # c  BY <1>0 DEF NewConn, MainBusy, Live
    <3> QED BY <1>0, <1>3, <1>4, <3>2, <3>3 DEF FdInv
  <2> QED BY <1>2, <1>5, <1>6, <2>1
<1>15. WireInv'
  <2>1. \A u \in Senders, d \in Conns : (Serves(u, d))' <=> Serves(u, d)
    BY <1>5, <1>6, <1>12 DEF Serves
  <2>2. \A u \in Senders : pc'[u] # "body"
    BY <1>5, <1>6 DEF Sending
  <2> QED BY <1>0, <1>5, <1>6, <2>1, <2>2, WireFrame
<1>16. LastInv'
  <2>1. \A u \in Senders : pc'[u] \in Sending => pc[u] \in Sending
    BY <1>1, <1>6 DEF Sending
  <2>2. hurt \subseteq hurt'  BY <1>5
  <2> QED BY <1>0, <1>5, <1>6, <2>1, <2>2, LastFrame
<1>17. \A d \in Live : Due(d)' = Due(d)  BY <1>5 DEF Due
<1>18. \A d \in hurt' \ hurt : d = c
  BY <1>0, <1>4, <1>5, <1>8 DEF HurtInv
<1> QED BY <1>5, <1>6, <1>10, <1>11, <1>14, <1>15, <1>16, <1>17, <1>18 DEF OrderRest

\* The slot that is marked is that of a hurt client.
LEMMA FailMarkStep ==
  ASSUME OrderInv, NEW t \in Senders, FailMark(t)
  PROVE  OrderRest' /\ \A c \in Live \ hurt : Due(c)' = Due(c)
<1> USE Names DEF fdVars, handlerVars, mainVars
<1>0. /\ TypeOK /\ SlotOwner
      /\ GuardInv /\ FdInv /\ HurtInv /\ BodyInv /\ WireInv /\ LastInv
  BY OrderParts
<1>1. pc[t] = "mark" /\ guard = t  BY <1>0 DEF FailMark, Go, GuardInv, Sending
<1>2. PICK c \in Live : slot[c] = idx[t] /\ \A f \in Fds : fdTable[f] # c
  BY <1>0, <1>1 DEF BodyInv, InLoop
<1>3. c \in Conns /\ c \in Holding /\ slot[c] \in Slots
  BY <1>0, LiveHolds DEF TypeOK
<1>4. c \in hurt  BY <1>0, <1>2, <1>3 DEF HurtInv
<1>5. /\ pc'[t] = "loop" /\ \A u \in Threads : u # t => pc'[u] = pc[u]
      /\ \A s \in Slots : slotSock'[s] = IF s = slot[c] THEN NoSock ELSE slotSock[s]
      /\ idx'[t] = idx[t] + 1
      /\ UNCHANGED <<guard, fdTable, accepted, hurt, newFd, used, slot, hfd, since, rconn, sfd, msg,
                     sent, wire>>
  BY <1>0, <1>2 DEF FailMark, Go, TypeOK
<1>6. /\ PhaseKept /\ (MainBusy' <=> MainBusy) /\ GuardInv' /\ Live' = Live /\ Holding' = Holding
      /\ \A u \in Senders : u # t => pc[u] \notin Sending /\ pc'[u] \notin Sending
      /\ \A d \in Conns : pc'[d] = "none" => pc[d] = "none"
      /\ \A d \in Holding \ hurt : pc'[d] = "wait" => rconn'[d] = d
  BY <1>1, <1>5, SendQuiet DEF Sending
<1>7. \A d \in Live : d # c =>
        slot[d] # idx[t] /\ slotSock'[slot[d]] = slotSock[slot[d]] /\ d \in Conns
  <2>1. \A d \in Live : d # c => slot[d] # slot[c] /\ slot[d] \in Slots /\ d \in Conns
    BY <1>0, LiveHolds DEF SlotOwner, TypeOK
  <2> QED BY <1>2, <1>5, <2>1
<1>8. slotSock'[slot[c]] = NoSock  BY <1>3, <1>5
<1>9. /\ \A d \in Holding : d # c => OwnFd(d)' = OwnFd(d)
      /\ OwnFd(c)' \in {OwnFd(c), NoSock}
  <2>1. \A d \in Conns : pc'[d] = "start" <=> pc[d] = "start"
    BY <1>6 DEF PhaseKept, Busy
  <2>2. \A d \in Holding : pc[d] = "start" => d \in Live  BY DEF Holding, Live
  <2> QED BY <1>3, <1>5, <1>7, <1>8, <2>1, <2>2, LiveHolds DEF OwnFd
<1>10. FdInv'
  <2>1. ListenerOpen'  BY <1>0, <1>5 DEF FdInv, ListenerOpen
  <2>2. \A g, h \in Fds : fdTable'[g] \in Conns /\ fdTable'[g] = fdTable'[h] => g = h
    BY <1>0, <1>5 DEF FdInv
  <2>3. ASSUME NEW g \in Fds, NEW d \in Conns, fdTable'[g] = d
        PROVE  \/ d \in Holding' /\ OwnFd(d)' = g
               \/ MainBusy' /\ accepted' = d /\ newFd' = g
    <3>1. fdTable[g] = d /\ d # c  BY <1>2, <1>5, <2>3
    <3>2. \/ d \in Holding /\ OwnFd(d) = g
          \/ MainBusy /\ accepted = d /\ newFd = g
      BY <1>0, <3>1 DEF FdInv
    <3> QED BY <1>5, <1>6, <1>9, <3>1, <3>2
  <2>4. \A d \in Live' : slotSock'[slot'[d]] \in {OwnFd(d)', NoSock}
    <3>1. \A d \in Live : slotSock[slot[d]] \in {OwnFd(d), NoSock}  BY <1>0 DEF FdInv
    <3>2. \A d \in Live : d # c => slotSock'[slot[d]] = slotSock[slot[d]] /\ OwnFd(d)' = OwnFd(d)
      BY <1>7, <1>9, LiveHolds
    <3> QED BY <1>5, <1>6, <1>8, <3>1, <3>2
  <2>5. \A d \in Holding' : OwnFd(d)' # ListenFd
    BY <1>0, <1>3, <1>6, <1>9 DEF FdInv
  <2>6. MainBusy' => newFd' # ListenFd  BY <1>0, <1>5, <1>6 DEF FdInv
  <2> QED BY <2>1, <2>2, <2>3, <2>4, <2>5, <2>6 DEF FdInv
<1>11. HurtInv'
  <2>1. \A d \in hurt' : d <= accepted'  BY <1>0, <1>5 DEF HurtInv
  <2>2. ASSUME NEW d \in Holding' \ hurt'
        PROVE  /\ OwnFd(d)' \in Fds /\ fdTable'[OwnFd(d)'] = d
               /\ \A e \in Holding' : OwnFd(e)' = OwnFd(d)' => e = d
               /\ MainBusy' => newFd' # OwnFd(d)'
               /\ d \in Live' => slotSock'[slot'[d]] = OwnFd(d)'
               /\ pc'[d] = "wait" => rconn'[d] = d
    <3>1. d \in Holding \ hurt /\ d # c  BY <1>4, <1>5, <1>6
    <3>2. /\ OwnFd(d) \in Fds /\ fdTable[OwnFd(d)] = d
          /\ \A e \in Holding : OwnFd(e) = OwnFd(d) => e = d
          /\ MainBusy => newFd # OwnFd(d)
          /\ d \in Live => slotSock[slot[d]] = OwnFd(d)
      BY <1>0, <3>1 DEF HurtInv
    <3>3. OwnFd(d)' = OwnFd(d)  BY <1>9, <3>1
    <3>4. ASSUME NEW e \in Holding, OwnFd(e)' = OwnFd(d) PROVE e = d
      <4>1. CASE e = c  BY <1>3, <1>9, <3>1, <3>2, <3>4, <4>1
      <4>2. CASE e # c  BY <1>9, <3>2, <3>4, <4>2
      <4> QED BY <4>1, <4>2
    <3>5. d \in Live' => slotSock'[slot'[d]] = OwnFd(d)  BY <1>5, <1>6, <1>7, <3>1, <3>2
    <3> QED BY <1>5, <1>6, <3>1, <3>2, <3>3, <3>4, <3>5
  <2>3. ASSUME MainBusy', accepted' \notin hurt'
        PROVE  fdTable'[newFd'] = accepted' /\ \A d \in Holding' : OwnFd(d)' # newFd'
    <3>1. fdTable[newFd] = accepted /\ \A d \in Holding : OwnFd(d) # newFd
      BY <1>0, <1>5, <1>6, <2>3 DEF HurtInv
    <3>2. newFd # NoSock  BY <1>0 DEF TypeOK
    <3> QED BY <1>3, <1>5, <1>6, <1>9, <3>1, <3>2
  <2> QED BY <2>1, <2>2, <2>3 DEF HurtInv
<1>12. \A u \in Senders : pc'[u] \notin InLoop
  BY <1>5, <1>6 DEF Sending, InLoop
<1>13. BodyInv'  BY <1>12, NoBody
<1>14. WireInv'
  <2>1. \A u \in Senders, d \in Conns \ hurt' : (Serves(u, d))' <=> Serves(u, d)
    <3>1. \A u \in Senders : pc[u] \in InLoop => u = t  BY <1>6 DEF Sending, InLoop
    <3> QED BY <1>4, <1>5, <1>7, <1>12, <3>1 DEF Serves
  <2>2. \A u \in Senders : pc'[u] # "body"  BY <1>12 DEF InLoop
  <2> QED BY <1>0, <1>5, <1>6, <2>1, <2>2, WireFrame
<1>15. \A d \in Live \ hurt : Due(d)' = Due(d)
  BY <1>0, <1>1, <1>4, <1>5, <1>7, DueStep
<1>16. LastInv'
  <2>1. \A d \in Live : Had(d)' = Had(d)  BY <1>5 DEF Had, Bodies
  <2>2. \A u \in Senders : pc'[u] \in Sending => msg'[u] = IF u \in Pushers THEN sent' ELSE 0
    BY <1>0, <1>1, <1>5, <1>6 DEF LastInv, Sending
  <2> QED BY <1>0, <1>5, <1>6, <1>15, <2>1, <2>2 DEF LastInv
<1> QED BY <1>6, <1>10, <1>11, <1>13, <1>14, <1>15, <1>16 DEF OrderRest

\* At the end of a broadcast everybody has it.
LEMMA UnlockStep ==
  ASSUME OrderInv, NEW t \in Senders, Unlock(t)
  PROVE  OrderRest' /\ \A c \in Live : Due(c)' = Due(c)
<1> USE Names DEF fdVars, slotVars, handlerVars, mainVars
<1>0. TypeOK /\ GuardInv /\ FdInv /\ HurtInv /\ BodyInv /\ WireInv /\ LastInv
  BY OrderParts
<1>1. /\ pc[t] = "loop" /\ pc'[t] = (IF t \in Pushers THEN "idle" ELSE "recv")
      /\ guard = t /\ guard' = NoOne /\ idx[t] = Limit(t)
      /\ \A u \in Threads : u # t => pc'[u] = pc[u]
      /\ \A u \in Senders : u # t => msg'[u] = msg[u]
      /\ UNCHANGED <<fdTable, accepted, newFd, hurt, slotSock, slot, hfd, since, rconn, sent, wire>>
  BY <1>0 DEF Unlock, Go, Release, GuardInv, Sending, TypeOK
<1>2. PhaseKept /\ (MainBusy' <=> MainBusy)  BY <1>1 DEF PhaseKept, Busy, MainBusy
<1>3. Live' = Live /\ Live \subseteq Conns  BY <1>2, LiveKept DEF Live
<1>4. FdInv' /\ HurtInv'
  <2>1. \A d \in Conns : pc'[d] = "wait" => pc[d] = "wait"  BY <1>1
  <2>2. \A d \in Holding \ hurt : pc'[d] = "wait" => rconn'[d] = d
    BY <1>0, <1>1, <2>1, LiveHolds DEF HurtInv
  <2> QED BY <1>0, <1>1, <1>2, <2>2, FdQuiet
<1>5. \A u \in Senders : pc[u] \in Sending <=> u = t  BY <1>0, <1>1 DEF GuardInv
<1>6. \A u \in Senders : pc'[u] \notin Sending  BY <1>1, <1>5 DEF Sending
<1>7. GuardInv'  BY <1>1, <1>6 DEF GuardInv
<1>8. \A u \in Senders : pc[u] \notin InLoop /\ pc'[u] \notin InLoop
  BY <1>1, <1>5, <1>6 DEF Sending, InLoop
<1>9. BodyInv'  BY <1>8, NoBody
<1>10. WireInv'
  <2>1. \A u \in Senders, d \in Conns : (Serves(u, d))' <=> Serves(u, d)  BY <1>8 DEF Serves
  <2>2. \A d \in Conns : pc'[d] = "none" => pc[d] = "none"  BY <1>1
  <2>3. \A u \in Senders : pc'[u] # "body"  BY <1>8 DEF InLoop
  <2> QED BY <1>0, <1>1, <2>1, <2>2, <2>3, WireFrame
<1>11. \A c \in Live : Due(c) = sent /\ Due(c)' = sent
  <2>1. ASSUME NEW c \in Live PROVE Due(c) = sent
    <3>1. ~\E u \in Pushers : guard = u /\ idx[u] <= slot[c]
      <4>1. slot[c] \in Nat /\ slot[c] < NumSlots
        BY <1>0, <1>3, ServerAssumption DEF TypeOK, Slots
      <4>2. t \in Pushers => ~(idx[t] <= slot[c])
        BY <1>1, <4>1, ServerAssumption DEF Limit
      <4> QED BY <1>1, <4>2
    <3> QED BY <3>1 DEF Due
  <2>2. \A c \in Live : Due(c)' = sent  BY <1>1 DEF Due
  <2> QED BY <2>1, <2>2
<1>12. LastInv'
  <2>1. \A c \in Live : Had(c)' = Had(c)  BY <1>1 DEF Had, Bodies
  <2> QED BY <1>0, <1>1, <1>3, <1>6, <1>11, <2>1 DEF LastInv
<1> QED BY <1>4, <1>7, <1>9, <1>10, <1>11, <1>12 DEF OrderRest

-----------------------------------------------------------------------------
(* Every step.                                                             *)

LEMMA NextSlotInv == SlotInv /\ [Next]_vars => SlotInv'
BY NextTypeOK, NextIdxInv, NextNewConn, NextSlotOwner DEF SlotInv

LEMMA NextOrderInv == ASSUME ~RaceAlloc, OrderInv, [Next]_vars PROVE OrderInv'
<1>1. SlotInv'  BY NextSlotInv DEF OrderInv
<1>2. ASSUME PscRun PROVE OrderRest'
  <2>1. CASE Accept  BY <2>1, AcceptStep
  <2>2. CASE AcceptError \/ SleepOver  BY <2>2, QuietStep
  <2>3. CASE ClientAlloc \/ ClientAllocFull  BY <2>3, AllocStep
  <2>4. CASE DropClient  BY <2>4, DropStep
  <2>5. CASE AssignSock  BY <2>5, AssignStep
  <2> QED BY <1>2, <2>1, <2>2, <2>3, <2>4, <2>5 DEF PscRun
<1>3. ASSUME NEW t \in Pushers, SendLock(t) PROVE OrderRest'
  BY <1>3, LockStep
<1>4. ASSUME NEW t \in Senders, SendStep(t) PROVE OrderRest'
  <2>1. CASE SkipSlot(t)  BY <2>1, SkipStep
  <2>2. CASE SendHead(t)  BY <2>2, HeadStep
  <2>3. CASE SendBody(t)  BY <2>3, BodyStep
  <2>4. CASE FailClose(t)  BY <2>4, FailCloseStep
  <2>5. CASE FailMark(t)  BY <2>5, FailMarkStep
  <2>6. CASE Unlock(t)  BY <2>6, UnlockStep
  <2> QED BY <1>4, <2>1, <2>2, <2>3, <2>4, <2>5, <2>6 DEF SendStep
<1>5. ASSUME NEW c \in Conns, HandleClient(c) \/ PeerLeaves(c) PROVE OrderRest'
  <2>1. CASE HandlerStart(c)  BY <2>1, StartStep
  <2>2. CASE GreetLock(c)  BY <2>2, GreetStep
  <2>3. CASE RecvCall(c) \/ RecvMsg(c) \/ RecvFail(c) \/ PeerLeaves(c)
    BY <2>3, QuietStep
  <2>4. CASE ClientFree(c)  BY <2>4, FreeStep
  <2>5. CASE HandlerClose(c)  BY <2>5, CloseStep
  <2> QED BY <1>5, <2>1, <2>2, <2>3, <2>4, <2>5 DEF HandleClient
<1>6. ASSUME UNCHANGED vars PROVE OrderRest'
  BY <1>6, QuietStep
<1>7. OrderRest'  BY <1>2, <1>3, <1>4, <1>5, <1>6 DEF Next
<1> QED BY <1>1, <1>7 DEF OrderInv, OrderRest

LEMMA OrderInvariant == ASSUME ~RaceAlloc PROVE Spec => []OrderInv
<1>1. OrderInv /\ [Next]_vars => OrderInv'
  BY NextOrderInv
<1> QED
  BY InitOrder, <1>1, PTL DEF Spec

(* Whichever sends fail, each peer whose connection no failed send has hurt
   receives a row of whole messages: the greeting of its handler and the
   broadcasts of lstats, brdstats and wvfmdata never mix their headers and
   bodies (psc_send, psc_send_one). *)
THEOREM MessagesFramed == ASSUME ~RaceAlloc PROVE Spec => []Framed
<1>1. OrderInv => Framed
  BY OrderParts DEF WireInv, Framed
<1> QED
  BY OrderInvariant, <1>1, PTL

(* Whichever sends fail, a connection that none of them has hurt has its
   descriptor, in the slot and in handle_client, until handle_client closes it,
   and receives on it; no connection outlives the thread that would close it;
   the listening socket stays open. *)
THEOREM SocketsOwned == ASSUME ~RaceAlloc PROVE Spec => []SocketOwner
<1>1. ASSUME OrderInv PROVE SocketOwner
  <2>1. FdInv /\ HurtInv  BY <1>1, OrderParts
  <2>2. \A c \in Conns \ hurt : pc[c] \notin {"none", "start", "dead"} =>
          c \in Holding \ hurt /\ OwnFd(c) = hfd[c]
    BY DEF Holding, OwnFd
  <2>3. \A c \in Conns \ hurt : pc[c] = "wait" => c \in Holding \ hurt
    BY DEF Holding
  <2>4. \A f \in Fds, c \in Conns : fdTable[f] = c =>
          \/ pc[c] \notin {"none", "dead"}
          \/ pc[Main] \in {"alloc", "assign", "drop"} /\ accepted = c
    BY <2>1 DEF FdInv, Holding, MainBusy
  <2>5. \A c \in Live \ hurt : slotSock[slot[c]] \in Fds /\ fdTable[slotSock[slot[c]]] = c
    BY <2>1, LiveHolds DEF HurtInv
  <2> QED BY <2>1, <2>2, <2>3, <2>4, <2>5 DEF SocketOwner, FdInv, HurtInv
<1> QED
  BY OrderInvariant, <1>1, PTL

(* A failed send closes the socket of a client and never the listening one, so
   that psc_run goes on accepting: it takes a broadcast between
   psc_client_alloc and C->sock = client to do otherwise. *)
THEOREM ListenerStays == ASSUME ~RaceAlloc PROVE Spec => []ListenerOpen
<1>1. OrderInv => ListenerOpen
  BY OrderParts DEF FdInv
<1> QED
  BY OrderInvariant, <1>1, PTL
-----------------------------------------------------------------------------
(* The refinement.                                                         *)

\* The clients that are served, and those that may still be.
Whole == Live \ hurt
Unborn == {c \in Conns : pc[c] = "none" /\ c \notin hurt}

StageIs == [c \in Conns |->
  IF c \in Whole THEN "yes" ELSE IF c \in Unborn THEN "no" ELSE "left"]
LastIs == [c \in Conns |-> IF c \in Whole THEN Due(c) ELSE 0]

LEMMA WholeFacts ==
  /\ Whole \subseteq Conns /\ Whole \subseteq Live /\ Unborn \subseteq Conns
  /\ Whole \cap Unborn = {} /\ Live \cap Unborn = {}
BY DEF Whole, Unborn, Live

LEMMA MaxIs ==
  ASSUME NEW S \in SUBSET Nat, NEW m \in S, \A k \in S : k <= m
  PROVE  Max(S) = m
<1>1. \A x \in S : (\A y \in S : x >= y) => x = m  OBVIOUS
<1>2. \A y \in S : m >= y  OBVIOUS
<1> QED BY <1>1, <1>2 DEF Max

LEMMA BarsAre == OrderInv => stageBar = StageIs /\ lastBar = LastIs
<1> SUFFICES ASSUME OrderInv PROVE stageBar = StageIs /\ lastBar = LastIs
  OBVIOUS
<1>0. TypeOK /\ LastInv  BY OrderParts
<1>1. \A c \in Conns : Joined(c) <=> c \in Whole  BY DEF Joined, Whole
<1>2. stageBar = StageIs
  <2>1. \A c \in Conns : c \in Unborn <=> pc[c] = "none" /\ c \notin hurt  BY DEF Unborn
  <2>2. ASSUME NEW c \in Conns PROVE stageBar[c] = StageIs[c]
    BY <1>1, <2>1, WholeFacts DEF stageBar, StageIs
  <2> QED BY <2>2 DEF stageBar, StageIs
<1>3. ASSUME NEW c \in Whole PROVE Max(Bodies(c) \cup {since[c]}) = Due(c)
  <2>1. Due(c) \in Had(c) /\ \A m \in Had(c) : m <= Due(c)  BY <1>0 DEF LastInv, Whole
  <2>2. c \in Conns  BY WholeFacts
  <2>3. Had(c) \subseteq Nat  BY <1>0, <2>2, HadNat
  <2>4. Max(Had(c)) = Due(c)  BY <2>1, <2>3, MaxIs
  <2> QED BY <2>4 DEF Had
<1>4. lastBar = LastIs  BY <1>1, <1>3 DEF lastBar, LastIs
<1> QED BY <1>2, <1>4

LEMMA BarsNext == OrderInv' => (stageBar = StageIs /\ lastBar = LastIs)'
BY BarsAre, PTL

\* A step that neither begins a broadcast nor serves or changes a client.
LEMMA Stutter ==
  ASSUME OrderInv, OrderInv', sent' = sent, Whole' = Whole, Unborn' = Unborn,
         \A c \in Whole : Due(c)' = Due(c)
  PROVE  UNCHANGED Fanout!vars
<1>1. StageIs' = StageIs  BY DEF StageIs
<1>2. LastIs' = LastIs  BY DEF LastIs
<1> QED BY <1>1, <1>2, BarsAre, BarsNext DEF Fanout!vars

\* The same, for a step that hurts nobody.
LEMMA StutterKept ==
  ASSUME OrderInv, OrderInv', sent' = sent, Live' = Live, hurt' = hurt,
         \A c \in Conns : pc'[c] = "none" <=> pc[c] = "none",
         \A c \in Whole : Due(c)' = Due(c)
  PROVE  UNCHANGED Fanout!vars
<1>1. Whole' = Whole  BY DEF Whole
<1>2. Unborn' = Unborn  BY DEF Unborn
<1> QED BY <1>1, <1>2, Stutter

LEMMA JoinedAre == ASSUME OrderInv PROVE Fanout!Joined = Whole
<1>1. stageBar = StageIs  BY BarsAre
<1>2. \A c \in Conns : StageIs[c] = "yes" <=> c \in Whole  BY DEF StageIs
<1> QED BY <1>1, <1>2, WholeFacts DEF Fanout!Joined

\* A client that is not served any more has left.
LEMMA LeaveBar ==
  ASSUME OrderInv, OrderInv', sent' = sent, NEW c \in Whole, Whole' = Whole \ {c},
         Unborn' = Unborn, \A d \in Whole : Due(d)' = Due(d)
  PROVE  Fanout!Leave(c)
<1>1. c \in Conns /\ c \notin Unborn  BY WholeFacts
<1>2. StageIs' = [StageIs EXCEPT ![c] = "left"]  BY <1>1 DEF StageIs
<1>3. LastIs' = [LastIs EXCEPT ![c] = 0]  BY <1>1 DEF LastIs
<1> QED BY <1>1, <1>2, <1>3, BarsAre, BarsNext, JoinedAre DEF Fanout!Leave

LEMMA RefineInit == Init => Fanout!Init
<1> SUFFICES ASSUME Init PROVE Fanout!Init  OBVIOUS
<1>1. \A c \in Conns : pc[c] = "none"  BY Names DEF Init, Senders
<1>2. Whole = {} /\ Unborn = Conns  BY <1>1 DEF Whole, Unborn, Live, Init
<1>3. stageBar = [c \in Conns |-> "no"] /\ lastBar = [c \in Conns |-> 0]
  BY <1>2, InitOrder, BarsAre DEF StageIs, LastIs
<1> QED BY <1>3 DEF Init, Fanout!Init

\* Taking sendguard begins a broadcast: every client has the one before.
LEMMA RefineLock ==
  ASSUME ~RaceAlloc, OrderInv, OrderInv', NEW t \in Pushers, SendLock(t)
  PROVE  Fanout!Publish
<1> USE Names
<1>0. TypeOK  BY OrderParts
<1>1. \A c \in Whole : Due(c) = sent  BY LockStep, WholeFacts
<1>2. /\ sent < MaxSends /\ sent' = sent + 1 /\ slot' = slot /\ hurt' = hurt
      /\ guard' = t /\ idx'[t] = 0 /\ \A c \in Conns : pc'[c] = pc[c]
  BY <1>0 DEF SendLock, Go, Acquire, handlerVars, fdVars, TypeOK
<1>3. Whole' = Whole /\ Unborn' = Unborn  BY <1>2 DEF Whole, Unborn, Live
<1>4. \A c \in Whole : Due(c)' = sent
  <2>1. \A c \in Conns : slot[c] \in Nat /\ 0 <= slot[c]
    BY <1>0, ServerAssumption DEF TypeOK, Slots
  <2>2. sent \in Nat /\ sent + 1 - 1 = sent  BY <1>0, ServerAssumption DEF TypeOK
  <2> QED BY <1>2, <2>1, <2>2, WholeFacts DEF Due
<1>5. StageIs' = StageIs  BY <1>3 DEF StageIs
<1>6. LastIs' = LastIs  BY <1>1, <1>3, <1>4 DEF LastIs
<1>7. \A c \in Fanout!Joined : lastBar[c] = sent
  BY <1>1, WholeFacts, BarsAre, JoinedAre DEF LastIs
<1> QED BY <1>2, <1>5, <1>6, <1>7, BarsAre, BarsNext DEF Fanout!Publish

\* The body of a broadcast delivers it to the client served.
LEMMA RefineBody ==
  ASSUME OrderInv, OrderInv', NEW t \in Senders, SendBody(t)
  PROVE  UNCHANGED Fanout!vars \/ \E c \in Conns : Fanout!Deliver(c)
<1> USE Names
<1>0. TypeOK /\ pc[t] = "body"  BY OrderParts DEF SendBody, Send, Go
<1>1. PICK c \in Live :
        /\ \A d \in Live : d # c => Due(d)' = Due(d)
        /\ t \in Pushers /\ pc'[t] = "loop" /\ c \notin hurt =>
             Due(c) = sent - 1 /\ Due(c)' = sent /\ sent # 0
        /\ t \notin Pushers \/ pc'[t] = "fail" => Due(c)' = Due(c)
  BY BodyStep
<1>2. sent' = sent /\ hurt' = hurt /\ \A u \in Threads : u # t => pc'[u] = pc[u]
  BY <1>0 DEF SendBody, Send, Go, TypeOK, fdVars
<1>3. pc'[t] \in {"loop", "fail"}
  BY <1>0 DEF SendBody, Send, Go, TypeOK
<1>4. PhaseKept  BY <1>0, <1>2, <1>3 DEF PhaseKept, Busy
<1>5. Live' = Live /\ \A d \in Conns : pc'[d] = "none" <=> pc[d] = "none"
  BY <1>4, LiveKept DEF PhaseKept, Busy
<1>6. CASE t \in Pushers /\ pc'[t] = "loop" /\ c \notin hurt
  <2>1. Whole' = Whole /\ Unborn' = Unborn  BY <1>2, <1>5 DEF Whole, Unborn
  <2>2. c \in Whole /\ c \in Conns  BY <1>6, WholeFacts DEF Whole
  <2>3. StageIs' = StageIs  BY <2>1 DEF StageIs
  <2>4. LastIs' = [LastIs EXCEPT ![c] = sent]
    BY <1>1, <1>6, <2>1, <2>2, WholeFacts DEF LastIs
  <2>5. LastIs[c] + 1 = sent
    <3>1. sent \in Nat  BY <1>0, ServerAssumption DEF TypeOK
    <3> QED BY <1>1, <1>6, <2>2, <3>1 DEF LastIs
  <2>6. Fanout!Deliver(c)
    BY <1>2, <2>2, <2>3, <2>4, <2>5, BarsAre, BarsNext, JoinedAre DEF Fanout!Deliver
  <2> QED BY <2>2, <2>6
<1>7. CASE ~(t \in Pushers /\ pc'[t] = "loop" /\ c \notin hurt)
  <2>1. \A d \in Whole : Due(d)' = Due(d)  BY <1>1, <1>3, <1>7 DEF Whole
  <2> QED BY <1>2, <1>5, <2>1, StutterKept
<1> QED BY <1>6, <1>7

\* A connection on the descriptor that another handler will close is turned away.
LEMMA RefineAccept ==
  ASSUME OrderInv, OrderInv', Accept
  PROVE  UNCHANGED Fanout!vars \/ \E c \in Conns : Fanout!Refuse(c)
<1> USE Names
<1>0. TypeOK /\ NewConn /\ HurtInv  BY OrderParts
<1>1. PICK a \in Conns : a = accepted + 1
  BY <1>0, ServerAssumption DEF Accept, TypeOK, Conns
<1>2. pc[a] = "none" /\ a \notin hurt
  BY <1>0, <1>1, ServerAssumption DEF NewConn, HurtInv, TypeOK
<1>3. /\ hurt' = hurt \/ hurt' = hurt \cup {a}
      /\ \A c \in Conns : pc'[c] = pc[c]
      /\ UNCHANGED <<guard, idx, slot, sent>>
  BY <1>0, <1>1 DEF Accept, GoMain, TypeOK, handlerVars, sendVars
<1>4. Live' = Live /\ a \notin Live  BY <1>2, <1>3 DEF Live
<1>5. \A c \in Whole : Due(c)' = Due(c)  BY <1>3 DEF Due
<1>6. CASE hurt' = hurt  BY <1>3, <1>4, <1>5, <1>6, StutterKept
<1>7. CASE hurt' = hurt \cup {a}
  <2>1. Whole' = Whole  BY <1>4, <1>7 DEF Whole
  <2>2. a \in Unborn /\ Unborn' = Unborn \ {a} /\ a \notin Whole
    BY <1>2, <1>3, <1>4, <1>7 DEF Unborn, Whole
  <2>3. StageIs' = [StageIs EXCEPT ![a] = "left"]  BY <2>1, <2>2 DEF StageIs
  <2>4. LastIs' = LastIs  BY <1>5, <2>1 DEF LastIs
  <2>5. StageIs[a] = "no"  BY <2>2 DEF StageIs
  <2>6. Fanout!Refuse(a)  BY <1>3, <2>3, <2>4, <2>5, BarsAre, BarsNext DEF Fanout!Refuse
  <2> QED BY <2>6
<1> QED BY <1>3, <1>6, <1>7

\* A client joins when psc_run gives its slot the socket.
LEMMA RefineAssign ==
  ASSUME OrderInv, OrderInv', AssignSock
  PROVE  UNCHANGED Fanout!vars \/ \E c \in Conns : Fanout!Join(c)
<1>1. PICK a \in Conns : /\ pc[a] = "none" /\ a \notin Live /\ Live' = Live \cup {a}
                         /\ pc'[a] = "start" /\ Due(a)' = sent
                         /\ \A c \in Conns : c # a => pc'[c] = pc[c]
                         /\ \A c \in Live : Due(c)' = Due(c)
  BY AssignStep
<1>2. sent' = sent /\ hurt' = hurt  BY DEF AssignSock, sendVars, fdVars
<1>3. CASE a \in hurt
  <2>1. Whole' = Whole  BY <1>1, <1>2, <1>3 DEF Whole
  <2>2. Unborn' = Unborn  BY <1>1, <1>2, <1>3 DEF Unborn
  <2>3. \A c \in Whole : Due(c)' = Due(c)  BY <1>1, WholeFacts
  <2> QED BY <1>2, <2>1, <2>2, <2>3, Stutter
<1>4. CASE a \notin hurt
  <2>1. Whole' = Whole \cup {a} /\ a \notin Whole  BY <1>1, <1>2, <1>4 DEF Whole
  <2>2. a \in Unborn /\ Unborn' = Unborn \ {a}  BY <1>1, <1>2, <1>4 DEF Unborn
  <2>3. StageIs' = [StageIs EXCEPT ![a] = "yes"]  BY <2>1, <2>2 DEF StageIs
  <2>4. LastIs' = [LastIs EXCEPT ![a] = sent]  BY <1>1, <2>1, WholeFacts DEF LastIs
  <2>5. StageIs[a] = "no"  BY <2>1, <2>2 DEF StageIs
  <2>6. Fanout!Join(a)  BY <1>2, <2>3, <2>4, <2>5, BarsAre, BarsNext DEF Fanout!Join
  <2> QED BY <2>6
<1> QED BY <1>3, <1>4

\* A client leaves when its socket is closed for a failed send ...
LEMMA RefineFailClose ==
  ASSUME OrderInv, OrderInv', NEW t \in Senders, FailClose(t)
  PROVE  UNCHANGED Fanout!vars \/ \E c \in Conns : Fanout!Leave(c)
<1> USE Names
<1>0. TypeOK  BY OrderParts
<1>1. PICK c \in Live : \A d \in hurt' \ hurt : d = c  BY FailCloseStep
<1>2. hurt \subseteq hurt' /\ \A d \in Whole : Due(d)' = Due(d)
  BY FailCloseStep, WholeFacts
<1>3. /\ pc[t] = "fail" /\ pc'[t] = "mark" /\ sent' = sent
      /\ \A u \in Threads : u # t => pc'[u] = pc[u]
  BY <1>0 DEF FailClose, Go, TypeOK, sendVars
<1>4. PhaseKept  BY <1>3 DEF PhaseKept, Busy
<1>5. Live' = Live /\ \A d \in Conns : pc'[d] = "none" <=> pc[d] = "none"
  BY <1>4, LiveKept DEF PhaseKept, Busy
<1>6. CASE hurt' = hurt  BY <1>2, <1>3, <1>5, <1>6, StutterKept
<1>7. CASE hurt' # hurt
  <2>1. hurt' = hurt \cup {c} /\ c \notin hurt  BY <1>1, <1>2, <1>7
  <2>2. c \in Whole /\ Whole' = Whole \ {c}  BY <1>5, <2>1 DEF Whole
  <2>3. Unborn' = Unborn
    <3>1. pc[c] # "none"  BY DEF Live
    <3> QED BY <1>5, <2>1, <3>1 DEF Unborn
  <2>4. Fanout!Leave(c)  BY <1>2, <1>3, <2>2, <2>3, LeaveBar
  <2> QED BY <2>2, <2>4, WholeFacts
<1> QED BY <1>6, <1>7

\* ... or when its handler frees the slot.
LEMMA RefineFree ==
  ASSUME OrderInv, OrderInv', NEW c \in Conns, ClientFree(c)
  PROVE  UNCHANGED Fanout!vars \/ Fanout!Leave(c)
<1> USE Names
<1>0. TypeOK  BY OrderParts
<1>1. /\ pc[c] = "dis" /\ pc'[c] = "close" /\ \A d \in Conns : d # c => pc'[d] = pc[d]
      /\ UNCHANGED <<guard, idx, slot, sent, hurt>>
  BY <1>0 DEF ClientFree, Go, handlerVars, sendVars, fdVars, TypeOK
<1>2. c \in Live /\ Live' = Live \ {c}  BY <1>1 DEF Live
<1>3. Unborn' = Unborn  BY <1>1 DEF Unborn
<1>4. \A d \in Whole : Due(d)' = Due(d)  BY <1>1 DEF Due
<1>5. CASE c \in hurt
  <2>1. Whole' = Whole  BY <1>1, <1>2, <1>5 DEF Whole
  <2> QED BY <1>1, <1>3, <1>4, <2>1, Stutter
<1>6. CASE c \notin hurt
  <2>1. c \in Whole /\ Whole' = Whole \ {c}  BY <1>1, <1>2, <1>6 DEF Whole
  <2> QED BY <1>1, <1>3, <1>4, <2>1, LeaveBar
<1> QED BY <1>5, <1>6

LEMMA RefineNext ==
  ASSUME ~RaceAlloc, OrderInv, OrderInv', [Next]_vars
  PROVE  Fanout!Next \/ UNCHANGED Fanout!vars
<1> USE Names DEF fdVars, slotVars, handlerVars, mainVars, sendVars
<1>0. TypeOK  BY OrderParts
<1>1. CASE UNCHANGED vars
  <2>1. Live' = Live /\ hurt' = hurt  BY <1>1 DEF vars, Live
  <2>2. \A c \in Whole : Due(c)' = Due(c)  BY <1>1 DEF vars, Due
  <2> QED BY <1>1, <2>1, <2>2, StutterKept DEF vars
<1>2. CASE PscRun
  <2>1. CASE Accept  BY <2>1, RefineAccept DEF Fanout!Next
  <2>2. CASE AssignSock  BY <2>2, RefineAssign DEF Fanout!Next
  <2>3. CASE AcceptError \/ SleepOver \/ ClientAlloc \/ ClientAllocFull \/ DropClient
    <3>1. \A c \in Conns : pc'[c] = pc[c]
      BY <1>0, <2>3
      DEF AcceptError, SleepOver, ClientAlloc, ClientAllocFull, DropClient, GoMain, TypeOK
    <3>2. UNCHANGED <<guard, idx, slot, sent, hurt>>
      BY <2>3 DEF AcceptError, SleepOver, ClientAlloc, ClientAllocFull, DropClient
    <3>3. Live' = Live  BY <3>1 DEF Live
    <3>4. \A c \in Whole : Due(c)' = Due(c)  BY <3>2 DEF Due
    <3> QED BY <3>1, <3>2, <3>3, <3>4, StutterKept
  <2> QED BY <1>2, <2>1, <2>2, <2>3 DEF PscRun
<1>3. ASSUME NEW t \in Pushers, SendLock(t) PROVE Fanout!Next
  BY <1>3, RefineLock DEF Fanout!Next
<1>4. ASSUME NEW t \in Senders, SendStep(t) PROVE Fanout!Next \/ UNCHANGED Fanout!vars
  <2>1. CASE SendBody(t)  BY <2>1, RefineBody DEF Fanout!Next
  <2>2. CASE FailClose(t)  BY <2>2, RefineFailClose DEF Fanout!Next
  <2>3. CASE SkipSlot(t) \/ SendHead(t) \/ FailMark(t) \/ Unlock(t)
    <3>1. \A c \in Whole : Due(c)' = Due(c)
      BY <2>3, SkipStep, HeadStep, FailMarkStep, UnlockStep DEF Whole
    <3>2. UNCHANGED <<sent, hurt>>  BY <2>3 DEF SkipSlot, SendHead, FailMark, Unlock
    <3>3. PhaseKept
      <4>1. CASE SkipSlot(t)  BY <4>1 DEF SkipSlot, PhaseKept
      <4>2. CASE ~SkipSlot(t)
        <5>1. /\ pc[t] \in {"loop", "mark"} /\ pc'[t] \in {"body", "fail", "loop", "idle", "recv"}
              /\ t \in Conns => pc'[t] # "idle"
              /\ \A u \in Threads : u # t => pc'[u] = pc[u]
          BY <1>0, <2>3, <4>2 DEF SendHead, Send, FailMark, Unlock, Go, TypeOK
        <5> QED BY <5>1 DEF PhaseKept, Busy
      <4> QED BY <4>1, <4>2
    <3>4. Live' = Live /\ \A d \in Conns : pc'[d] = "none" <=> pc[d] = "none"
      BY <3>3, LiveKept DEF PhaseKept, Busy
    <3> QED BY <3>1, <3>2, <3>4, StutterKept
  <2> QED BY <1>4, <2>1, <2>2, <2>3 DEF SendStep
<1>5. ASSUME NEW c \in Conns, HandleClient(c) \/ PeerLeaves(c)
      PROVE  Fanout!Next \/ UNCHANGED Fanout!vars
  <2>1. CASE ClientFree(c)  BY <2>1, RefineFree DEF Fanout!Next
  <2>2. CASE HandlerClose(c)
    <3>1. /\ pc[c] = "close" /\ pc'[c] = "dead" /\ UNCHANGED <<guard, idx, sent, hurt>>
          /\ \A d \in Conns : d # c => pc'[d] = pc[d] /\ slot'[d] = slot[d]
      BY <1>0, <2>2 DEF HandlerClose, Go, TypeOK
    <3>2. Live' = Live /\ c \notin Live  BY <3>1 DEF Live
    <3>3. \A d \in Whole : Due(d)' = Due(d)  BY <3>1, <3>2, WholeFacts DEF Due
    <3> QED BY <3>1, <3>2, <3>3, StutterKept
  <2>3. CASE GreetLock(c)
    <3>1. /\ pc[c] = "conn" /\ pc'[c] = "loop" /\ guard = NoOne /\ guard' = c
          /\ UNCHANGED <<slot, sent, hurt>> /\ \A d \in Conns : d # c => pc'[d] = pc[d]
      BY <1>0, <2>3 DEF GreetLock, Go, Acquire, TypeOK
    <3>2. Live' = Live  BY <3>1 DEF Live
    <3>3. \A d \in Whole : Due(d)' = Due(d)  BY <3>1 DEF Due
    <3> QED BY <3>1, <3>2, <3>3, StutterKept
  <2>4. CASE HandlerStart(c) \/ RecvCall(c) \/ RecvMsg(c) \/ RecvFail(c) \/ PeerLeaves(c)
    <3>1. /\ pc'[c] \notin {"none", "close", "dead"} <=> pc[c] \notin {"none", "close", "dead"}
          /\ pc[c] # "none" /\ pc'[c] # "none" /\ \A d \in Conns : d # c => pc'[d] = pc[d]
      BY <1>0, <2>4 DEF HandlerStart, RecvCall, RecvMsg, RecvFail, PeerLeaves, Go, TypeOK
    <3>2. UNCHANGED <<guard, idx, slot, sent, hurt>>
      BY <2>4 DEF HandlerStart, RecvCall, RecvMsg, RecvFail, PeerLeaves
    <3>3. Live' = Live  BY <3>1 DEF Live
    <3>4. \A d \in Whole : Due(d)' = Due(d)  BY <3>2 DEF Due
    <3> QED BY <3>1, <3>2, <3>3, <3>4, StutterKept
  <2> QED BY <1>5, <2>1, <2>2, <2>3, <2>4 DEF HandleClient
<1> QED BY <1>1, <1>2, <1>3, <1>4, <1>5 DEF Next

(* Whichever sends fail, the server is the fan-out: whatever the number of
   clients and broadcasts, in whatever order they come, join and leave, every
   client gets every broadcast from its joining until it leaves or its socket
   is closed for a failed send, once and in order, before the next begins
   (psc_send under sendguard).  A connection accepted on a descriptor that the
   handler of a client so closed has still to close counts as turned away. *)
THEOREM ImplementsFanout == ASSUME ~RaceAlloc PROVE Spec => FanoutSpec
<1>1. Init => Fanout!Init
  BY RefineInit
<1>2. OrderInv /\ OrderInv' /\ [Next]_vars => [Fanout!Next]_(Fanout!vars)
  BY RefineNext
<1> QED
  BY <1>1, <1>2, OrderInvariant, PTL DEF Spec, FanoutSpec, Fanout!Spec

=============================================================================
