------------------------------ MODULE PscServer ------------------------------
(***************************************************************************)
(* The PSC message server of listener.c with the send half of pscmsg.c:    *)
(* the accept loop of psc_run (the "main" thread), one handle_client       *)
(* thread per connection, and the threads that broadcast with psc_send     *)
(* (lstats, brdstats, wvfmdata).  They share the client slots, the mutex   *)
(* sendguard and, underneath, the descriptor table of the lwIP stack, in   *)
(* which a closed descriptor is handed out again to the next connection.   *)
(*                                                                         *)
(* A step is the code between two points where another thread can matter:  *)
(* a call into lwIP, taking sendguard, or an access to a shared field made *)
(* without it.  A connection is the number of its accept, and names its    *)
(* handler thread too.  What the peer of a connection has received is a    *)
(* sequence of pieces: the header of a message, its body, or the part of   *)
(* either that left before a send failed.                                  *)
(***************************************************************************)
EXTENDS Naturals, Sequences, FiniteSets, FiniteSetsExt

CONSTANTS
  Pushers,      \* threads that call psc_send
  Main,         \* the thread in psc_run's accept loop
  NoOne,        \* "nobody holds sendguard"
  Free,         \* an unused entry of lwIP's descriptor table
  Listener,     \* the entry of psc_key.listen_sock
  NumSlots,     \* PSC_MAX_CLIENTS
  NumFds,       \* size of lwIP's descriptor table
  MaxConns,     \* bound: connections ever accepted
  MaxSends,     \* bound: psc_send calls
  Faulty,       \* connections on which a send may fail
  Leaving,      \* connections whose peer may leave
  RaceAlloc     \* TRUE: a psc_send may start between alloc and l.180

Conns   == 1 .. MaxConns
Slots   == 0 .. NumSlots - 1
Fds     == 0 .. NumFds - 1
Senders == Pushers \cup Conns
Threads == Senders \cup {Main}

\* psc_run creates the listening socket before any other: lwIP numbers
\* sockets from 0, the value memset also leaves in psc_client.sock.
ListenFd == 0

\* psc_client.sock after a send error
NoSock == NumFds

ASSUME ServerAssumption ==
  /\ NumSlots \in Nat \ {0}
  /\ NumFds \in Nat \ {0}
  /\ MaxConns \in Nat
  /\ MaxSends \in Nat
  /\ Pushers \cap Conns = {}
  /\ Main \notin Senders
  /\ NoOne \notin Threads
  /\ Free \notin Conns
  /\ Listener \notin Conns \cup {Free}
  /\ Faulty \subseteq Conns /\ Leaving \subseteq Conns
  /\ RaceAlloc \in BOOLEAN

VARIABLES
  pc,           \* where each thread is
  guard,        \* holder of sendguard, or NoOne
  used,         \* bits of psc_key.clients_used
  slotSock,     \* psc_client.sock of each slot
  fdTable,      \* lwIP: what each descriptor refers to
  accepted,     \* number of connections accepted so far
  slot,         \* the slot a connection's handler works on (C of handle_client)
  hfd,          \* handle_client's local copy of C->sock
  rconn,        \* connection the handler's pending recv() is bound to
  newFd,        \* psc_run's local "client"
  newSlot,      \* psc_run's local C
  idx,          \* psc_send's loop index, the slot served by psc_send_one
  sfd,          \* the descriptor psc_sendmsg was called with
  msg,          \* the message being sent: 0 is the greeting
  sent,         \* number of psc_send calls that took sendguard
  peerUp,       \* the peer of the connection is still there
  since,        \* history: sent when the connection's slot got its socket
  hurt,         \* history: connections whose descriptor a send error closed,
                \* or gave them while another handler has still to close it
  wire          \* pieces the peer of each connection has received

fdVars     == <<fdTable, accepted, peerUp, hurt>>
slotVars   == <<used, slotSock>>
handlerVars == <<slot, hfd, rconn, since>>
mainVars   == <<newFd, newSlot>>
sendVars   == <<idx, sfd, msg, sent>>
vars == <<pc, guard, fdVars, slotVars, handlerVars, mainVars, sendVars, wire>>

-----------------------------------------------------------------------------
\* Steps at which a thread is inside psc_send or psc_send_one.
Sending == {"loop", "body", "fail", "mark"}
MainPcs == {"accept", "alloc", "drop", "assign", "sleep"}
HandlerPcs == {"none", "start", "conn", "recv", "wait", "dis", "close", "dead"}

Piece == [part : {"head", "body", "cut"}, msg : 0 .. MaxSends]

TypeOK ==
  /\ pc \in [Threads -> {"idle"} \cup Sending \cup MainPcs \cup HandlerPcs]
  /\ guard \in Senders \cup {NoOne}
  /\ used \in [Slots -> BOOLEAN]
  /\ slotSock \in [Slots -> Fds \cup {NoSock}]
  /\ fdTable \in [Fds -> Conns \cup {Free, Listener}]
  /\ accepted \in 0 .. MaxConns
  /\ slot \in [Conns -> Slots]
  /\ hfd \in [Conns -> Fds \cup {NoSock}]
  /\ rconn \in [Conns -> Conns]
  /\ newFd \in Fds
  /\ newSlot \in Slots
  /\ idx \in [Senders -> 0 .. NumSlots]
  /\ sfd \in [Senders -> Fds \cup {NoSock}]
  /\ msg \in [Senders -> 0 .. MaxSends]
  /\ sent \in 0 .. MaxSends
  /\ peerUp \in [Conns -> BOOLEAN]
  /\ since \in [Conns -> 0 .. MaxSends]
  /\ hurt \subseteq Conns
  /\ wire \in [Conns -> Seq(Piece)]

\* The state after on_startup: the threads that send are running, nobody is
\* connected, and only the listening socket exists.
Init ==
  /\ pc = [t \in Threads |-> CASE t = Main      -> "accept"
                               [] t \in Pushers -> "idle"
                               [] OTHER         -> "none"]
  /\ guard = NoOne
  /\ used = [s \in Slots |-> FALSE]
  /\ slotSock = [s \in Slots |-> 0]
  /\ fdTable = [f \in Fds |-> IF f = ListenFd THEN Listener ELSE Free]
  /\ accepted = 0
  /\ slot = [c \in Conns |-> 0]
  /\ hfd = [c \in Conns |-> 0]
  /\ rconn = [c \in Conns |-> c]
  /\ since = [c \in Conns |-> 0]
  /\ hurt = {}
  /\ newFd = 0
  /\ newSlot = 0
  /\ idx = [t \in Senders |-> 0]
  /\ sfd = [t \in Senders |-> 0]
  /\ msg = [t \in Senders |-> 0]
  /\ sent = 0
  /\ peerUp = [c \in Conns |-> TRUE]
  /\ wire = [c \in Conns |-> << >>]

-----------------------------------------------------------------------------
(* lwIP as listener.c uses it.                                             *)

IsLowest(x, S) == x \in S /\ \A y \in S : x <= y

FreeFds == {f \in Fds : fdTable[f] = Free}

\* The connection a descriptor refers to, if it refers to one.
ConnOf(f) == {c \in Conns : f \in Fds /\ fdTable[f] = c}

\* close(f): an error, and no effect, for a descriptor that is not open.
Leak_CloseFd(f) == UNCHANGED fdTable    \* mutant: the socket is not closed
CloseFd(f) == fdTable' = [g \in Fds |-> IF g = f THEN Free ELSE fdTable[g]]

\* The descriptor that the handler of connection c works on, and will close.
OwnFd(c) == IF pc[c] = "start" THEN slotSock[slot[c]] ELSE hfd[c]

\* The connections whose handlers have yet to close descriptor f.
Holders(f) == {c \in Conns : pc[c] \notin {"none", "dead"} /\ OwnFd(c) = f}

\* The peer of connection c may leave at any time.  That a recv() ends, by its
\* timeout at the latest, does not depend on it.
PeerLeaves(c) ==
  /\ c \in Leaving
  /\ pc[c] \notin {"none", "dead"}
  /\ peerUp[c]
  /\ peerUp' = [peerUp EXCEPT ![c] = FALSE]
  /\ UNCHANGED <<pc, guard, fdTable, accepted, hurt, slotVars, handlerVars,
                 mainVars, sendVars, wire>>

-----------------------------------------------------------------------------
(* psc_run.                                                                *)

GoMain(from, to) == pc[Main] = from /\ pc' = [pc EXCEPT ![Main] = to]

\* accept() returns a new connection on the lowest free descriptor.  If an
\* earlier connection's handler has still to close that descriptor, it will
\* close the new connection.
Accept ==
  /\ GoMain("accept", "alloc")
  /\ accepted < MaxConns
  /\ fdTable[ListenFd] = Listener
  /\ \E f \in Fds :
       /\ IsLowest(f, FreeFds)
       /\ newFd' = f
       /\ fdTable' = [fdTable EXCEPT ![f] = accepted + 1]
       /\ hurt' = IF Holders(f) = {} THEN hurt ELSE hurt \cup {accepted + 1}
  /\ accepted' = accepted + 1
  /\ UNCHANGED <<guard, slotVars, handlerVars, newSlot, sendVars, peerUp, wire>>

\* accept() fails: out of descriptors or buffers, or the listening socket is
\* gone.  The loop sleeps for a second and tries again.
Unchecked_AcceptError ==    \* mutant: client == -1 is not checked
  /\ GoMain("accept", "alloc")
  /\ newFd' = NoSock
  /\ UNCHANGED <<guard, fdVars, slotVars, handlerVars, newSlot, sendVars, wire>>
AcceptError ==
  /\ GoMain("accept", "sleep")
  /\ UNCHANGED <<guard, fdVars, slotVars, handlerVars, mainVars, sendVars, wire>>

SleepOver ==
  /\ GoMain("sleep", "accept")
  /\ UNCHANGED <<guard, fdVars, slotVars, handlerVars, mainVars, sendVars, wire>>

All_UnusedSlots == Slots    \* mutant: the bit is not looked at
UnusedSlots == {s \in Slots : ~used[s]}

\* psc_client_alloc: the whole function runs under sendguard.
ClientAlloc ==
  /\ GoMain("alloc", "assign")
  /\ guard = NoOne
  /\ \E s \in Slots :
       /\ IsLowest(s, UnusedSlots)
       /\ used' = [used EXCEPT ![s] = TRUE]
       /\ slotSock' = [slotSock EXCEPT ![s] = 0]
       /\ newSlot' = s
  /\ UNCHANGED <<guard, fdVars, handlerVars, newFd, sendVars, wire>>

ClientAllocFull ==
  /\ GoMain("alloc", "drop")
  /\ guard = NoOne
  /\ UnusedSlots = {}
  /\ UNCHANGED <<guard, fdVars, slotVars, handlerVars, mainVars, sendVars, wire>>

\* "Dropping client": close(client), without sendguard.
DropClient ==
  /\ GoMain("drop", "accept")
  /\ CloseFd(newFd)
  /\ UNCHANGED <<guard, accepted, peerUp, hurt, slotVars, handlerVars, mainVars,
                 sendVars, wire>>

\* C->sock = client, without sendguard, and the handler thread is created.
AssignSock ==
  /\ pc[Main] = "assign"
  /\ pc' = [pc EXCEPT ![Main] = "accept", ![accepted] = "start"]
  /\ slotSock' = [slotSock EXCEPT ![newSlot] = newFd]
  /\ slot' = [slot EXCEPT ![accepted] = newSlot]
  /\ since' = [since EXCEPT ![accepted] = sent]
  /\ UNCHANGED <<guard, fdVars, used, hfd, rconn, mainVars, sendVars, wire>>

-----------------------------------------------------------------------------
(* psc_send and psc_send_one.  psc_send_one is the body of psc_send's loop *)
(* for one slot, without the look at clients_used.                         *)

\* sys_mutex_lock and sys_mutex_unlock of sendguard
NoWait_Acquire(t) == guard' = t     \* mutant: does not wait for the mutex
Acquire(t) == guard = NoOne /\ guard' = t

\* mutant: psc_send_one returns without unlocking
Keep_Release(t) == guard' = IF t \in Pushers THEN NoOne ELSE guard
Release(t) == guard' = NoOne

Go(t, from, to) == pc[t] = from /\ pc' = [pc EXCEPT ![t] = to]

Limit(t) == IF t \in Pushers THEN NumSlots ELSE slot[t] + 1

\* mutant: psc_send's loop passes over the first slot
First_Skips(t) ==
  \/ t \in Pushers /\ (idx[t] = 0 \/ ~used[idx[t]])
  \/ slotSock[idx[t]] = NoSock
Skips(t) ==
  \/ t \in Pushers /\ ~used[idx[t]]
  \/ slotSock[idx[t]] = NoSock

\* psc_send takes sendguard.  With RaceAlloc = FALSE it does not do so in the
\* few instructions between psc_client_alloc and C->sock = client.
SendLock(t) ==
  /\ t \in Pushers
  /\ Go(t, "idle", "loop")
  /\ Acquire(t)
  /\ RaceAlloc \/ pc[Main] # "assign"
  /\ sent < MaxSends
  /\ sent' = sent + 1
  /\ msg' = [msg EXCEPT ![t] = sent + 1]
  /\ idx' = [idx EXCEPT ![t] = 0]
  /\ UNCHANGED <<fdVars, slotVars, handlerVars, mainVars, sfd, wire>>

SkipSlot(t) ==
  /\ pc[t] = "loop"
  /\ idx[t] < Limit(t)
  /\ Skips(t)
  /\ idx' = [idx EXCEPT ![t] = @ + 1]
  /\ UNCHANGED <<pc, guard, fdVars, slotVars, handlerVars, mainVars, sfd, msg,
                 sent, wire>>

\* What send() makes of a piece on descriptor f: the peer gets it and the
\* thread goes to "ok", or it fails and the peer gets some of it or nothing.
Send(t, f, from, part, ok) ==
  \/ \E c \in ConnOf(f) :
       /\ Go(t, from, ok)
       /\ wire' = [wire EXCEPT ![c] = Append(@, [part |-> part, msg |-> msg[t]])]
  \/ \E c \in ConnOf(f) \cap Faulty :
       /\ Go(t, from, "fail")
       /\ wire' = [wire EXCEPT ![c] = Append(@, [part |-> "cut", msg |-> msg[t]])]
  \/ /\ ConnOf(f) \subseteq Faulty
     /\ Go(t, from, "fail")
     /\ UNCHANGED wire

\* psc_sendhead, for the socket read from the slot at this moment.
SendHead(t) ==
  /\ idx[t] < Limit(t)
  /\ ~Skips(t)
  /\ Send(t, slotSock[idx[t]], "loop", "head", "body")
  /\ sfd' = [sfd EXCEPT ![t] = slotSock[idx[t]]]
  /\ UNCHANGED <<guard, fdVars, slotVars, handlerVars, mainVars, idx, msg, sent>>

\* The psc_sendall of the body, on the descriptor passed to psc_sendmsg.
SendBody(t) ==
  /\ Send(t, sfd[t], "body", "body", "loop")
  /\ idx' = [idx EXCEPT ![t] = IF pc'[t] = "loop" THEN @ + 1 ELSE @]
  /\ UNCHANGED <<guard, fdVars, slotVars, handlerVars, mainVars, sfd, msg, sent>>

\* After a send error: close(C->sock), then C->sock = -1.
FailClose(t) ==
  /\ Go(t, "fail", "mark")
  /\ CloseFd(slotSock[idx[t]])
  /\ hurt' = hurt \cup Holders(slotSock[idx[t]])
  /\ UNCHANGED <<guard, accepted, peerUp, slotVars, handlerVars, mainVars,
                 sendVars, wire>>

FailMark(t) ==
  /\ Go(t, "mark", "loop")
  /\ slotSock' = [slotSock EXCEPT ![idx[t]] = NoSock]
  /\ idx' = [idx EXCEPT ![t] = @ + 1]
  /\ UNCHANGED <<guard, fdVars, used, handlerVars, mainVars, sfd, msg, sent, wire>>

Unlock(t) ==
  /\ Go(t, "loop", IF t \in Pushers THEN "idle" ELSE "recv")
  /\ idx[t] = Limit(t)
  /\ Release(t)
  /\ idx' = [idx EXCEPT ![t] = 0]       \* the locals go out of scope
  /\ sfd' = [sfd EXCEPT ![t] = 0]
  /\ msg' = [msg EXCEPT ![t] = 0]
  /\ UNCHANGED <<fdVars, slotVars, handlerVars, mainVars, sent, wire>>

-----------------------------------------------------------------------------
(* handle_client, run by the thread of connection c.                       *)

HandlerStart(c) ==
  /\ Go(c, "start", "conn")
  /\ hfd' = [hfd EXCEPT ![c] = slotSock[slot[c]]]
  /\ UNCHANGED <<guard, fdVars, slotVars, slot, rconn, since, mainVars, sendVars, wire>>

\* The PSC_CONN callback, client_event, greets with psc_send_one.
GreetLock(c) ==
  /\ Go(c, "conn", "loop")
  /\ Acquire(c)
  /\ msg' = [msg EXCEPT ![c] = 0]
  /\ idx' = [idx EXCEPT ![c] = slot[c]]
  /\ UNCHANGED <<fdVars, slotVars, handlerVars, mainVars, sfd, sent, wire>>

\* recv() looks its descriptor up when it is called ...
RecvCall(c) ==
  /\ \/ \E d \in ConnOf(hfd[c]) :
          /\ Go(c, "recv", "wait")
          /\ rconn' = [rconn EXCEPT ![c] = d]
     \/ /\ ConnOf(hfd[c]) = {}
        /\ Go(c, "recv", "dis")
        /\ UNCHANGED rconn
  /\ UNCHANGED <<guard, fdVars, slotVars, slot, hfd, since, mainVars, sendVars, wire>>

\* ... and delivers a message of the connection it found, for which the recv
\* callback (client_msg) then runs outside any lock ...
RecvMsg(c) ==
  /\ Go(c, "wait", "recv")
  /\ peerUp[rconn[c]]
  /\ \E f \in Fds : fdTable[f] = rconn[c]
  /\ UNCHANGED <<guard, fdVars, slotVars, handlerVars, mainVars, sendVars, wire>>

\* ... or ends: the peer closed, five silent seconds, or a local close.
NoTimeout_RecvFail(c) ==    \* mutant: no SO_RCVTIMEO, the peer vanishes silently
  /\ Go(c, "wait", "dis")
  /\ \A f \in Fds : fdTable[f] # rconn[c]
  /\ UNCHANGED <<guard, fdVars, slotVars, handlerVars, mainVars, sendVars, wire>>
RecvFail(c) ==
  /\ Go(c, "wait", "dis")
  /\ UNCHANGED <<guard, fdVars, slotVars, handlerVars, mainVars, sendVars, wire>>

\* psc_client_free, after the PSC_DIS callback, which does nothing.
ClientFree(c) ==
  /\ Go(c, "dis", "close")
  /\ guard = NoOne
  /\ used' = [used EXCEPT ![slot[c]] = FALSE]
  /\ slotSock' = [slotSock EXCEPT ![slot[c]] = 0]
  /\ UNCHANGED <<guard, fdVars, handlerVars, mainVars, sendVars, wire>>

\* The last lock, close(sock), unlock of handle_client.
HandlerClose(c) ==
  /\ Go(c, "close", "dead")
  /\ guard = NoOne
  /\ CloseFd(hfd[c])
  /\ rconn' = [rconn EXCEPT ![c] = c]   \* the locals go out of scope
  /\ slot' = [slot EXCEPT ![c] = 0]
  /\ hfd' = [hfd EXCEPT ![c] = 0]
  /\ since' = [since EXCEPT ![c] = 0]
  /\ wire' = [wire EXCEPT ![c] = << >>]     \* its peer has all it will ever get
  /\ UNCHANGED <<guard, accepted, peerUp, hurt, slotVars, mainVars, sendVars>>

-----------------------------------------------------------------------------
PscRun == \/ Accept \/ AcceptError \/ SleepOver
          \/ ClientAlloc \/ ClientAllocFull \/ DropClient \/ AssignSock

SendStep(t) == \/ SkipSlot(t) \/ SendHead(t) \/ SendBody(t)
               \/ FailClose(t) \/ FailMark(t) \/ Unlock(t)

HandleClient(c) == \/ HandlerStart(c) \/ GreetLock(c) \/ RecvCall(c)
                   \/ RecvMsg(c) \/ RecvFail(c) \/ ClientFree(c)
                   \/ HandlerClose(c)

Next ==
  \/ PscRun
  \/ \E t \in Pushers : SendLock(t)
  \/ \E t \in Senders : SendStep(t)
  \/ \E c \in Conns : HandleClient(c) \/ PeerLeaves(c)

Spec == Init /\ [][Next]_vars

(***************************************************************************)
(* Fairness.  The threads run at one priority under a preemptive scheduler *)
(* with time slices, so a thread that can move does; a send and a receive  *)
(* end by the socket timeouts set in psc_run.  The waiters of sendguard    *)
(* are woken in turn, so an acquisition by a handler is strongly fair.     *)
(* Peers owe nothing: neither connecting, sending nor leaving is fair; and *)
(* nothing is asked of psc_run and of the start of a push, which no        *)
(* property below rests on.                                                *)
(***************************************************************************)
SendFairness == \A t \in Senders : WF_vars(SendStep(t))

Fairness ==
  /\ SendFairness
  /\ \A c \in Conns :
       /\ WF_vars(HandlerStart(c) \/ RecvCall(c) \/ RecvFail(c))
       /\ SF_vars(GreetLock(c) \/ ClientFree(c) \/ HandlerClose(c))

FairSpec == Spec /\ Fairness

-----------------------------------------------------------------------------
(* Properties.                                                             *)

\* Connections whose handler still works on its slot.
Live == {c \in Conns : pc[c] \notin {"none", "close", "dead"}}

(* The bits of clients_used and the threads agree: a slot is marked exactly
   while one thread works on it (psc_run between the allocation and the
   handler's creation, then that handler until psc_client_free), and no two
   threads ever share a slot, so rxbuf and the fields of psc_client that
   handle_client reads without sendguard are its own. *)
SlotOwner ==
  /\ \A c, d \in Live : slot[c] = slot[d] => c = d
  /\ pc[Main] = "assign" => \A c \in Live : slot[c] # newSlot
  /\ \A s \in Slots : used[s] <=> \/ \E c \in Live : slot[c] = s
                                  \/ pc[Main] = "assign" /\ newSlot = s

(* What a peer has received is a row of whole messages, of which only the
   last may still be incomplete: threads that send to one connection never
   mix their headers and bodies, and nothing follows a truncated message,
   so psc_recvhead of the peer finds a header where it expects one.  Whichever
   sends fail, this holds of every connection that none of them has hurt. *)
WellFramed(w) ==
  \A i \in 1 .. Len(w) :
    /\ i % 2 = 1 => w[i].part \in {"head", "cut"}
    /\ i % 2 = 0 => w[i].part \in {"body", "cut"} /\ w[i].msg = w[i - 1].msg
    /\ w[i].part = "cut" => i = Len(w)
Framed == \A c \in Conns \ hurt : WellFramed(wire[c])

(* "client error" (listener.c:250, 265): the socket closed after a failed
   send is a client's, so psc_run can go on accepting on the listening one. *)
ListenerOpen == fdTable[ListenFd] = Listener

(* Unless a failed send hurts it, a connection's descriptor stays its own until
   its handler closes it: the socket in the slot and the handler's copy of it
   name the connection the handler was created for.  Any connection keeps a
   descriptor open only while a thread is left to close it, and the listening
   socket stays open. *)
SocketOwner ==
  /\ ListenerOpen
  /\ \A c \in Conns \ hurt : pc[c] \notin {"none", "start", "dead"} =>
        hfd[c] \in Fds /\ fdTable[hfd[c]] = c
  /\ \A c \in Live \ hurt : slotSock[slot[c]] \in Fds /\ fdTable[slotSock[slot[c]]] = c
  /\ \A c \in Conns \ hurt : pc[c] = "wait" => rconn[c] = c
  /\ \A f \in Fds, c \in Conns : fdTable[f] = c =>
        \/ pc[c] \notin {"none", "dead"}
        \/ pc[Main] \in {"alloc", "assign", "drop"} /\ accepted = c

(* "will wake up RX thread" (listener.c:251, 266): closing the socket of a
   client on a send error ends the receive loop of that client's thread; it
   never goes on receiving from another client's connection. *)
RxThreadWakes == \A c \in Conns : pc[c] = "wait" => rconn[c] = c

(* Every psc_send and psc_send_one gives sendguard back, whatever fails. *)
SendReturns == guard # NoOne ~> guard = NoOne

(* A client that left gives back its descriptor, also when a send to one of the
   clients failed (the listener being left open: once a send has closed it,
   descriptors leak).  Its slot and its thread come free again too, but not
   while the thread receives from another client that is still there: the one
   that was given its descriptor after a failed send closed it (RxThreadWakes).
   As a client that left does not come back, this holds again when the other
   client leaves. *)
Misled(c) ==
  pc[c] = "wait" /\ rconn[c] # c /\ peerUp[rconn[c]] /\ \E f \in Fds : fdTable[f] = rconn[c]
Reclaimed ==
  \A c \in Conns :
    ~peerUp[c] ~> (pc[c] = "dead" \/ Misled(c)) /\ \A f \in Fds : fdTable[f] # c

(***************************************************************************)
(* The fan-out that the senders implement: see PscFanout.                  *)
(***************************************************************************)
Joined(c) == c \in Live \ hurt

Bodies(c) == {wire[c][i].msg : i \in {j \in DOMAIN wire[c] : wire[c][j].part = "body"}} \ {0}

\* The latest broadcast c has, or joined after.
lastBar == [c \in Conns |->
  IF Joined(c) THEN Max(Bodies(c) \cup {since[c]}) ELSE 0]

stageBar == [c \in Conns |->
  IF pc[c] = "none" /\ c \notin hurt THEN "no" ELSE IF Joined(c) THEN "yes" ELSE "left"]

Fanout == INSTANCE PscFanout WITH last <- lastBar, stage <- stageBar

(* Whichever sends fail (RaceAlloc = FALSE), the server is the fan-out of
   PscFanout: every client gets every broadcast from the moment it joined until
   it left or a failed send hurt it, in one order, none lost and none repeated. *)
FanoutSpec == Fanout!Spec

=============================================================================
