------------------------------- MODULE PscRecv --------------------------------
(***************************************************************************)
(* The receive half of pscmsg.c as handle_client drives it: the bytes of   *)
(* one TCP connection are cut into messages by their headers, a message    *)
(* longer than the buffer is truncated and the rest of it skipped in       *)
(* chunks.  recv() returns what has arrived, in pieces of any size, and    *)
(* fails after a time without data.                                        *)
(*                                                                         *)
(* A byte is its offset in the stream.  A header read from an offset where *)
(* no message starts fails: message bodies do not look like headers.       *)
(***************************************************************************)
EXTENDS Naturals, Sequences

CONSTANTS
  HeadLen,     \* sizeof(struct psc_header) (8)
  RxMax,       \* sizeof(rxbuf)
  Chunk,       \* buffer of psc_recvskip (128)
  Lens,        \* message lengths the peer uses
  MaxMsgs,     \* bound: messages
  Stalls,      \* reads in which the peer may stall for longer than SO_RCVTIMEO
  CanClose     \* TRUE: the peer may close the connection

Reads == {"head", "body", "skip", "last"}

ASSUME RecvAssumption ==
  /\ HeadLen \in Nat \ {0} /\ RxMax \in Nat \ {0} /\ Chunk \in Nat \ {0}
  /\ Lens \subseteq Nat /\ MaxMsgs \in Nat
  /\ Stalls \subseteq Reads /\ CanClose \in BOOLEAN

VARIABLES
  bounds,      \* where the messages sent start, and where the next one will
  arrived,     \* bytes of the stream the stack has received
  closed,      \* the peer closed its end
  rd,          \* bytes the program took
  pc,          \* the psc_recvall under way, "call" or "done"
  want,        \* what is left of it
  msglen,      \* length in the header of the current message
  len,         \* len of psc_recvskip
  rxbuf,       \* for each byte 1 + its offset in the stream, 0 at first
  handled      \* calls of the recv callback

peerVars == <<bounds, arrived, closed>>
vars     == <<peerVars, rd, pc, want, msglen, len, rxbuf, handled>>

End     == bounds[Len(bounds)]
Least(a, b) == IF a < b THEN a ELSE b
BodyLen == Least(msglen, RxMax)     \* rlen

TypeOK ==
  /\ bounds \in Seq(Nat) /\ bounds # << >>
  /\ rd \in Nat /\ arrived \in Nat /\ rd <= arrived /\ arrived <= End
  /\ closed \in BOOLEAN
  /\ pc \in Reads \cup {"call", "done"}
  /\ want \in Nat /\ msglen \in Nat /\ len \in Nat
  /\ rxbuf \in [1 .. RxMax -> Nat]
  /\ handled \in Seq([length : 0 .. RxMax, bytes : [1 .. RxMax -> Nat]])

\* psc_recvall: want bytes are wanted next.
Read(what, n) == pc' = what /\ want' = n

Init ==
  /\ bounds = <<0>> /\ arrived = 0 /\ closed = FALSE /\ rd = 0
  /\ pc = "head" /\ want = HeadLen
  /\ msglen = 0 /\ len = 0
  /\ rxbuf = [i \in 1 .. RxMax |-> 0]
  /\ handled = << >>

-----------------------------------------------------------------------------
(* The peer and the network.                                               *)

PeerSend ==
  /\ Len(bounds) <= MaxMsgs /\ ~closed
  /\ \E n \in Lens : bounds' = Append(bounds, End + HeadLen + n)
  /\ UNCHANGED <<arrived, closed, rd, pc, want, msglen, len, rxbuf, handled>>

Arrive ==
  /\ \E n \in arrived + 1 .. End : arrived' = n
  /\ UNCHANGED <<bounds, closed, rd, pc, want, msglen, len, rxbuf, handled>>

PeerClose ==
  /\ CanClose /\ ~closed
  /\ closed' = TRUE
  /\ UNCHANGED <<bounds, arrived, rd, pc, want, msglen, len, rxbuf, handled>>

-----------------------------------------------------------------------------
(* The receive thread.                                                     *)

\* Mutant: psc_recvall does not advance buf.
Rewind_Recv ==
  /\ pc \in Reads /\ want > 0 /\ rd < arrived
  /\ LET n == Least(want, arrived - rd)
     IN  /\ rd' = rd + n
         /\ want' = want - n
         /\ rxbuf' = IF pc # "body" THEN rxbuf
                     ELSE [i \in 1 .. RxMax |-> IF i \in 1 .. n THEN rd + i ELSE rxbuf[i]]
  /\ UNCHANGED <<peerVars, pc, msglen, len, handled>>

\* One recv() of a psc_recvall that has bytes to take.
Recv ==
  /\ pc \in Reads /\ want > 0 /\ rd < arrived
  /\ LET n == Least(want, arrived - rd)
         at == BodyLen - want
     IN  /\ rd' = rd + n
         /\ want' = want - n
         /\ rxbuf' = IF pc # "body" THEN rxbuf
                     ELSE [i \in 1 .. RxMax |->
                             IF i \in at + 1 .. at + n THEN rd + (i - at) ELSE rxbuf[i]]
  /\ UNCHANGED <<peerVars, pc, msglen, len, handled>>

\* recv() fails: the peer stalled, or closed and all its bytes are taken.
\* The loop of psc_recvskip ends with the error in ret, and psc_recvskip goes
\* on to read all of len; anywhere else the connection ends.
RecvError ==
  /\ pc \in Reads /\ want > 0 /\ rd = arrived
  /\ \/ pc \in Stalls
     \/ closed /\ rd = End
  /\ IF pc = "skip" THEN Read("last", len) ELSE Read("done", 0)
  /\ UNCHANGED <<peerVars, rd, msglen, len, rxbuf, handled>>

\* psc_recvhead has its bytes: they must be a header.
Header ==
  /\ pc = "head" /\ want = 0
  /\ \/ \E k \in 1 .. Len(bounds) - 1 :
          /\ rd = bounds[k] + HeadLen
          /\ msglen' = bounds[k + 1] - rd
          /\ Read("body", Least(msglen', RxMax))
     \/ /\ \A k \in 1 .. Len(bounds) - 1 : rd # bounds[k] + HeadLen
        /\ Read("done", 0)
        /\ UNCHANGED msglen
  /\ UNCHANGED <<peerVars, rd, len, rxbuf, handled>>

\* Mutant: the loop runs while a byte is left.
Greedy_SkipLoop(n) == IF n > 0 THEN Read("skip", Chunk) ELSE Read("last", n)

\* The loop of psc_recvskip: chunks while more than one is left.
SkipLoop(n) == IF n > Chunk THEN Read("skip", Chunk) ELSE Read("last", n)

\* Mutant: a truncated message is delivered and its rest left in the stream.
NoSkip_Body ==
  /\ pc = "body" /\ want = 0
  /\ Read("call", 0)
  /\ UNCHANGED <<peerVars, rd, msglen, len, rxbuf, handled>>

\* The body is there; the rest of a message that is too long is skipped.
Body ==
  /\ pc = "body" /\ want = 0
  /\ IF BodyLen < msglen
       THEN len' = msglen - BodyLen /\ SkipLoop(len')
       ELSE Read("call", 0) /\ UNCHANGED len
  /\ UNCHANGED <<peerVars, rd, msglen, rxbuf, handled>>

SkipChunk ==
  /\ pc = "skip" /\ want = 0
  /\ len' = len - Chunk /\ SkipLoop(len')
  /\ UNCHANGED <<peerVars, rd, msglen, rxbuf, handled>>

SkipDone ==
  /\ pc = "last" /\ want = 0
  /\ Read("call", 0)
  /\ UNCHANGED <<peerVars, rd, msglen, len, rxbuf, handled>>

\* handle_client calls conf->recv with the buffer and reads the next header.
Call ==
  /\ pc = "call"
  /\ handled' = Append(handled, [length |-> BodyLen, bytes |-> rxbuf])
  /\ Read("head", HeadLen)
  /\ UNCHANGED <<peerVars, rd, msglen, len, rxbuf>>

Peer   == PeerSend \/ Arrive \/ PeerClose
Thread == Recv \/ RecvError \/ Header \/ Body \/ SkipChunk \/ SkipDone \/ Call

Next == Peer \/ Thread

Spec == Init /\ [][Next]_vars

\* TCP delivers what was sent and the thread runs; the peer owes nothing.
FairSpec == Spec /\ WF_vars(Arrive) /\ WF_vars(Thread)

-----------------------------------------------------------------------------
(* Properties.                                                             *)

\* The calls of the callback are the messages of the peer, one each and in
\* order, cut at the size of the buffer, and every byte the callback may read
\* is that message's: however recv() cuts the stream, nothing of a message
\* skipped or of the one before gets in.
HandledRight ==
  \A k \in DOMAIN handled :
    /\ k < Len(bounds)
    /\ LET body == bounds[k] + HeadLen
       IN  /\ handled[k].length = Least(bounds[k + 1] - body, RxMax)
           /\ \A i \in 1 .. handled[k].length : handled[k].bytes[i] = body + i

\* A message header is looked for only where a message starts: the rest of a
\* message that is too long was skipped to the byte (pscmsg.h: "The remaining
\* bytes are read and discarded").
Aligned == pc = "head" /\ want = HeadLen => rd = bounds[Len(handled) + 1]

\* Every message sent reaches the callback, empty and over-long ones too,
\* unless the connection ends: the thread never waits for bytes that belong to
\* no message.
Delivered == \A k \in 1 .. MaxMsgs : Len(bounds) > k ~> Len(handled) >= k \/ pc = "done"

=============================================================================
