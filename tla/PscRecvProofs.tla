----------------------------- MODULE PscRecvProofs ----------------------------
(***************************************************************************)
(* Proofs about PscRecv, for any lengths of headers, buffers, chunks and   *)
(* messages and any cutting of the stream: where the thread stands in the  *)
(* stream, and what the callback gets, if the peer does not stall within a *)
(* skipped chunk.                                                          *)
(***************************************************************************)
EXTENDS PscRecv, Integers, TLAPS

NoSkipStall == "skip" \notin Stalls

\* The message under way, and where its body starts.
Current == Len(handled) + 1
BodyAt  == bounds[Current] + HeadLen

Holds(n) == \A i \in 1 .. n : rxbuf[i] = BodyAt + i

\* Messages follow one another.
BoundsInv ==
  \A i, j \in 1 .. Len(bounds) : i < j => bounds[i] + HeadLen <= bounds[j]

\* The loop of psc_recvskip runs while more than a chunk is left.
SkipInv == pc = "skip" => len > Chunk

TypeInv == TypeOK /\ BoundsInv /\ SkipInv

\* Where the thread is in the stream, for each of its reads.
StreamInv ==
  /\ Len(handled) < Len(bounds)
  /\ pc = "head" => want <= HeadLen /\ rd = BodyAt - want
  /\ pc \in {"body", "skip", "last", "call"} =>
       Current < Len(bounds) /\ msglen = bounds[Current + 1] - BodyAt
  /\ pc = "body" => want <= BodyLen /\ rd = BodyAt + BodyLen - want /\ Holds(BodyLen - want)
  /\ pc \in {"skip", "last", "call"} => Holds(BodyLen)
  /\ pc = "skip" => want <= Chunk /\ rd = bounds[Current + 1] - len + Chunk - want
  /\ pc = "last" => rd = bounds[Current + 1] - want
  /\ pc = "call" => rd = bounds[Current + 1]

RecvInv == TypeInv /\ StreamInv /\ HandledRight

LEMMA Constants ==
  /\ HeadLen \in Nat /\ HeadLen > 0 /\ RxMax \in Nat /\ RxMax > 0
  /\ Chunk \in Nat /\ Chunk > 0 /\ Lens \subseteq Nat
BY RecvAssumption

LEMMA LeastType ==
  ASSUME NEW a \in Nat, NEW b \in Nat
  PROVE  Least(a, b) \in Nat /\ Least(a, b) <= a /\ Least(a, b) <= b
BY DEF Least

-----------------------------------------------------------------------------
(* Types.                                                                  *)

LEMMA InitInv == Init => RecvInv
<1> SUFFICES ASSUME Init PROVE RecvInv  OBVIOUS
<1> USE Constants
<1>1. bounds = <<0>> /\ Len(bounds) = 1 /\ bounds[1] = 0 /\ End = 0
  BY DEF Init, End
<1>2. handled = << >> /\ Len(handled) = 0
  BY DEF Init
<1>3. TypeOK
  <2>1. handled \in Seq([length : 0 .. RxMax, bytes : [1 .. RxMax -> Nat]])
    BY <1>2
  <2>2. bounds \in Seq(Nat) /\ bounds # << >>  BY <1>1
  <2>3. rxbuf \in [1 .. RxMax -> Nat]  BY DEF Init
  <2>4. pc \in Reads \cup {"call", "done"}  BY DEF Init, Reads
  <2>5. /\ rd = 0 /\ arrived = 0 /\ rd \in Nat /\ arrived \in Nat /\ rd <= arrived
        /\ want \in Nat /\ msglen \in Nat /\ len \in Nat
    <3>1. rd = 0 /\ arrived = 0 /\ want = HeadLen /\ msglen = 0 /\ len = 0  BY DEF Init
    <3> QED BY <3>1
  <2>6. arrived <= End
    <3>1. End = 0  BY <1>1
    <3> QED BY <2>5, <3>1
  <2>7. closed \in BOOLEAN  BY Zenon DEF Init
  <2> QED BY <2>1, <2>2, <2>3, <2>4, <2>5, <2>6, <2>7 DEF TypeOK
<1>4. BoundsInv  BY <1>1 DEF BoundsInv
<1>5. StreamInv
  <2>1. Current = 1 /\ BodyAt = HeadLen  BY <1>1, <1>2 DEF BodyAt, Current
  <2> QED BY <1>1, <1>2, <2>1 DEF Init, StreamInv
<1>6. HandledRight  BY <1>2 DEF HandledRight
<1>7. SkipInv  BY DEF Init, SkipInv
<1> QED BY <1>3, <1>4, <1>5, <1>6, <1>7 DEF RecvInv, TypeInv

LEMMA EndType == TypeOK => End \in Nat /\ Len(bounds) \in Nat \ {0} /\ BodyLen \in Nat
                           /\ BodyLen <= RxMax /\ BodyLen <= msglen /\ Len(handled) \in Nat
<1> SUFFICES ASSUME TypeOK
             PROVE  End \in Nat /\ Len(bounds) \in Nat \ {0} /\ BodyLen \in Nat
                    /\ BodyLen <= RxMax /\ BodyLen <= msglen /\ Len(handled) \in Nat
  OBVIOUS
<1>1. Len(bounds) \in Nat \ {0} /\ Len(handled) \in Nat  BY DEF TypeOK
<1>2. End \in Nat  BY <1>1 DEF End, TypeOK
<1>3. BodyLen \in Nat /\ BodyLen <= RxMax /\ BodyLen <= msglen
  BY Constants, LeastType DEF BodyLen, TypeOK
<1> QED BY <1>1, <1>2, <1>3

\* What a message of the peer does to the boundaries.
LEMMA SendStep ==
  ASSUME TypeOK, PeerSend
  PROVE  /\ bounds' \in Seq(Nat) /\ Len(bounds') = Len(bounds) + 1
         /\ \A i \in 1 .. Len(bounds) : bounds'[i] = bounds[i]
         /\ \E n \in Nat : bounds'[Len(bounds) + 1] = bounds[Len(bounds)] + HeadLen + n
         /\ bounds' # << >> /\ End' \in Nat /\ End <= End'
<1> USE Constants, EndType
<1>1. PICK n \in Lens : bounds' = Append(bounds, End + HeadLen + n)
  BY DEF PeerSend
<1>2. n \in Nat /\ End + HeadLen + n \in Nat  OBVIOUS
<1>3. bounds' \in Seq(Nat) /\ Len(bounds') = Len(bounds) + 1
  BY <1>1, <1>2 DEF TypeOK
<1>4. \A i \in 1 .. Len(bounds) : bounds'[i] = bounds[i]
  BY <1>1, <1>2 DEF TypeOK
<1>5. bounds'[Len(bounds) + 1] = bounds[Len(bounds)] + HeadLen + n
  BY <1>1, <1>2 DEF TypeOK, End
<1>6. bounds' # << >>  BY <1>3
<1>7. End' = End + HeadLen + n  BY <1>3, <1>5 DEF End
<1> QED BY <1>2, <1>3, <1>4, <1>5, <1>6, <1>7

LEMMA NextBounds == TypeOK /\ BoundsInv /\ [Next]_vars => BoundsInv'
<1> SUFFICES ASSUME TypeOK, BoundsInv, [Next]_vars PROVE BoundsInv'  OBVIOUS
<1> USE Constants, EndType
<1>1. CASE PeerSend
  <2>1. PICK n \in Nat : bounds'[Len(bounds) + 1] = bounds[Len(bounds)] + HeadLen + n
    BY <1>1, SendStep
  <2>2. \A i \in 1 .. Len(bounds) : bounds[i] \in Nat /\ bounds[i] <= bounds[Len(bounds)]
    <3> SUFFICES ASSUME NEW i \in 1 .. Len(bounds)
                 PROVE  bounds[i] \in Nat /\ bounds[i] <= bounds[Len(bounds)]
      OBVIOUS
    <3>1. Len(bounds) \in 1 .. Len(bounds)  OBVIOUS
    <3>2. bounds[i] \in Nat /\ bounds[Len(bounds)] \in Nat
      <4>1. bounds \in Seq(Nat)  BY DEF TypeOK
      <4> QED BY ONLY <3>1, <4>1, i \in 1 .. Len(bounds)
    <3>3. CASE i < Len(bounds)
      <4>1. bounds[i] + HeadLen <= bounds[Len(bounds)]  BY <3>1, <3>3 DEF BoundsInv
      <4> QED BY <3>2, <4>1
    <3> QED BY <3>2, <3>3
  <2>3. SUFFICES ASSUME NEW i \in 1 .. Len(bounds) + 1, NEW j \in 1 .. Len(bounds) + 1, i < j
                 PROVE  bounds'[i] + HeadLen <= bounds'[j]
    BY <1>1, SendStep DEF BoundsInv
  <2>4. i \in 1 .. Len(bounds) /\ bounds'[i] = bounds[i]
    <3>1. \A h \in 1 .. Len(bounds) : bounds'[h] = bounds[h]  BY <1>1, SendStep
    <3>2. i \in 1 .. Len(bounds)
      <4>1. Len(bounds) \in Nat  BY EndType
      <4> QED BY ONLY <2>3, <4>1, i \in 1 .. Len(bounds) + 1, j \in 1 .. Len(bounds) + 1
    <3> QED BY <3>1, <3>2
  <2>5. CASE j = Len(bounds) + 1
    <3>1. bounds[i] \in Nat /\ bounds[i] <= bounds[Len(bounds)]  BY <2>2, <2>4
    <3>2. bounds[Len(bounds)] \in Nat  BY EndType DEF End
    <3>3. bounds'[j] = bounds[Len(bounds)] + HeadLen + n  BY <2>1, <2>5
    <3>4. HeadLen \in Nat  OBVIOUS
    <3> QED BY ONLY <2>4, <3>1, <3>2, <3>3, <3>4, n \in Nat
  <2>6. CASE j \in 1 .. Len(bounds)
    BY <1>1, <2>3, <2>4, <2>6, SendStep DEF BoundsInv
  <2> QED BY <2>5, <2>6
<1>2. CASE UNCHANGED bounds  BY <1>2 DEF BoundsInv
<1>3. PeerSend \/ UNCHANGED bounds
  BY DEF Next, Peer, Thread, vars, peerVars, Arrive, PeerClose, Recv, RecvError, Header, Body,
         SkipChunk, SkipDone, Call
<1> QED BY <1>1, <1>2, <1>3

\* What a header finds: the length of a body.
LEMMA HeaderLength ==
  ASSUME TypeOK, BoundsInv, NEW k \in 1 .. Len(bounds) - 1, rd = bounds[k] + HeadLen
  PROVE  bounds[k + 1] - rd \in Nat
<1>1. k \in 1 .. Len(bounds) /\ k + 1 \in 1 .. Len(bounds) /\ k < k + 1
  BY EndType
<1>2. bounds[k] \in Nat /\ bounds[k + 1] \in Nat  BY <1>1 DEF TypeOK
<1>3. bounds[k] + HeadLen <= bounds[k + 1]  BY <1>1 DEF BoundsInv
<1> QED BY <1>2, <1>3, Constants

LEMMA NextTypeInv == TypeInv /\ [Next]_vars => TypeInv'
<1> SUFFICES ASSUME TypeInv, [Next]_vars PROVE TypeOK' /\ SkipInv'
  BY NextBounds DEF TypeInv
<1> USE Constants
<1>0. TypeOK /\ BoundsInv /\ SkipInv  BY DEF TypeInv
<1>a. /\ End \in Nat /\ Len(bounds) \in Nat \ {0} /\ BodyLen \in Nat
      /\ BodyLen <= RxMax /\ BodyLen <= msglen /\ Len(handled) \in Nat
  BY <1>0, EndType
<1>1. CASE UNCHANGED vars
  BY <1>0, <1>1 DEF vars, peerVars, TypeOK, End, SkipInv
<1>2. CASE PeerSend
  <2>1. UNCHANGED <<arrived, closed, rd, pc, want, msglen, len, rxbuf, handled>>
    BY <1>2 DEF PeerSend
  <2>2. arrived <= End'  BY <1>0, <1>a, <1>2, SendStep DEF TypeOK
  <2> QED BY <1>0, <1>2, <2>1, <2>2, SendStep DEF TypeOK, SkipInv
<1>3. CASE Arrive
  BY <1>0, <1>a, <1>3 DEF Arrive, TypeOK, End, SkipInv
<1>4. CASE PeerClose
  BY <1>0, <1>4 DEF PeerClose, TypeOK, End, SkipInv
<1>5. CASE Recv
  <2> DEFINE n == Least(want, arrived - rd)
             at == BodyLen - want
  <2>1. n \in Nat /\ n <= want /\ n <= arrived - rd
    BY <1>0, <1>5, LeastType DEF Recv, TypeOK
  <2>2. rxbuf' \in [1 .. RxMax -> Nat]
    <3>1. CASE pc # "body"  BY <1>0, <1>5, <3>1 DEF Recv, TypeOK
    <3>2. CASE pc = "body"
      <4>1. rxbuf' = [i \in 1 .. RxMax |-> IF i \in at + 1 .. at + n THEN rd + (i - at) ELSE rxbuf[i]]
        BY <1>5, <3>2 DEF Recv
      <4>2. rd \in Nat /\ at \in Int  BY <1>0, <1>a DEF TypeOK
      <4>3. \A i \in 1 .. RxMax : rxbuf[i] \in Nat  BY <1>0 DEF TypeOK
      <4> HIDE DEF n, at
      <4>4. \A i \in 1 .. RxMax : i \in at + 1 .. at + n => rd + (i - at) \in Nat
        BY <2>1, <4>2
      <4> QED BY <4>1, <4>3, <4>4
    <3> QED BY <3>1, <3>2
  <2>3. rd' = rd + n /\ want' = want - n /\ UNCHANGED <<bounds, arrived, closed, pc, msglen, len, handled>>
    BY <1>5 DEF Recv, peerVars
  <2> HIDE DEF n, at
  <2> QED BY <1>0, <2>1, <2>2, <2>3 DEF TypeOK, End, SkipInv
<1>6. CASE RecvError
  BY <1>0, <1>6 DEF RecvError, Read, Reads, TypeOK, peerVars, End, SkipInv
<1>7. CASE Header
  <2>1. msglen' \in Nat /\ want' \in Nat /\ pc' \in {"body", "done"}
    <3>1. CASE Read("done", 0) /\ msglen' = msglen
      BY <1>0, <3>1 DEF Read, TypeOK
    <3>2. ASSUME NEW k \in 1 .. Len(bounds) - 1, rd = bounds[k] + HeadLen,
                 msglen' = bounds[k + 1] - rd, Read("body", Least(msglen', RxMax))
          PROVE  msglen' \in Nat /\ want' \in Nat /\ pc' = "body"
      <4>1. msglen' \in Nat  BY <1>0, <3>2, HeaderLength
      <4> QED BY <3>2, <4>1, LeastType DEF Read
    <3> QED BY <1>7, <3>1, <3>2 DEF Header
  <2>2. UNCHANGED <<bounds, arrived, closed, rd, len, rxbuf, handled>>
    BY <1>7 DEF Header, peerVars
  <2> QED BY <1>0, <2>1, <2>2 DEF TypeOK, End, Reads, SkipInv
<1>8. CASE Body
  <2>1. len' \in Nat /\ want' \in Nat /\ pc' \in {"skip", "last", "call"}
        /\ (pc' = "skip" => len' > Chunk)
    BY <1>0, <1>a, <1>8 DEF Body, SkipLoop, Read, TypeOK
  <2>2. UNCHANGED <<bounds, arrived, closed, rd, msglen, rxbuf, handled>>
    BY <1>8 DEF Body, peerVars
  <2> QED BY <1>0, <2>1, <2>2 DEF TypeOK, End, Reads, SkipInv
<1>9. CASE SkipChunk
  <2>1. len' \in Nat /\ want' \in Nat /\ pc' \in {"skip", "last"} /\ (pc' = "skip" => len' > Chunk)
    BY <1>0, <1>9 DEF SkipChunk, SkipLoop, Read, TypeOK, SkipInv
  <2>2. UNCHANGED <<bounds, arrived, closed, rd, msglen, rxbuf, handled>>
    BY <1>9 DEF SkipChunk, peerVars
  <2> QED BY <1>0, <2>1, <2>2 DEF TypeOK, End, Reads, SkipInv
<1>10. CASE SkipDone
  BY <1>0, <1>10 DEF SkipDone, Read, TypeOK, peerVars, End, SkipInv
<1>11. CASE Call
  <2>1. [length |-> BodyLen, bytes |-> rxbuf] \in [length : 0 .. RxMax, bytes : [1 .. RxMax -> Nat]]
    BY <1>0, <1>a DEF TypeOK
  <2>2. handled' \in Seq([length : 0 .. RxMax, bytes : [1 .. RxMax -> Nat]])
    BY <1>0, <1>11, <2>1 DEF Call, TypeOK
  <2> QED BY <1>0, <1>11, <2>2 DEF Call, Read, Reads, TypeOK, peerVars, End, SkipInv
<1> QED
  BY <1>1, <1>2, <1>3, <1>4, <1>5, <1>6, <1>7, <1>8, <1>9, <1>10, <1>11 DEF Next, Peer, Thread

-----------------------------------------------------------------------------
(* The place in the stream.                                                *)

\* The message under way among those sent.
LEMMA Position ==
  ASSUME TypeInv, Len(handled) < Len(bounds)
  PROVE  /\ Len(handled) \in Nat /\ Len(bounds) \in Nat /\ Current \in 1 .. Len(bounds)
         /\ bounds[Current] \in Nat /\ BodyAt \in Nat /\ BodyLen \in Nat
         /\ BodyLen <= RxMax /\ BodyLen <= msglen /\ bounds[Current] <= End /\ End \in Nat
         /\ Current < Len(bounds) =>
              /\ bounds[Current + 1] \in Nat
              /\ BodyAt <= bounds[Current + 1] /\ bounds[Current + 1] <= End
<1> USE Constants
<1>0. TypeOK /\ BoundsInv  BY DEF TypeInv
<1>1. /\ Len(handled) \in Nat /\ Len(bounds) \in Nat /\ Current \in 1 .. Len(bounds)
      /\ BodyLen \in Nat /\ BodyLen <= RxMax /\ BodyLen <= msglen /\ End \in Nat
  BY <1>0, EndType DEF Current
<1>2. \A i \in 1 .. Len(bounds) : bounds[i] \in Nat  BY <1>0 DEF TypeOK
<1>3. bounds[Current] \in Nat /\ BodyAt \in Nat  BY <1>1, <1>2 DEF BodyAt
<1>4. ASSUME NEW i \in 1 .. Len(bounds) PROVE bounds[i] <= End
  <2>1. CASE i = Len(bounds)  BY <1>2, <2>1 DEF End
  <2>2. CASE i # Len(bounds)
    <3>1. Len(bounds) \in 1 .. Len(bounds) /\ i < Len(bounds)  BY <1>1, <2>2
    <3>2. bounds[i] + HeadLen <= bounds[Len(bounds)]  BY <1>0, <3>1 DEF BoundsInv
    <3> QED BY <1>2, <3>1, <3>2 DEF End
  <2> QED BY <2>1, <2>2
<1>5. ASSUME Current < Len(bounds)
      PROVE  /\ bounds[Current + 1] \in Nat
             /\ BodyAt <= bounds[Current + 1] /\ bounds[Current + 1] <= End
  <2>1. Current + 1 \in 1 .. Len(bounds) /\ Current < Current + 1  BY <1>1, <1>5
  <2> QED BY <1>0, <1>1, <1>2, <1>4, <2>1 DEF BodyAt, BoundsInv
<1> QED BY <1>1, <1>3, <1>4, <1>5

\* Messages sent later change nothing for the thread.
LEMMA PeerFrame ==
  ASSUME TypeInv, StreamInv, HandledRight,
         Len(bounds') \in Nat, Len(bounds) <= Len(bounds'),
         \A i \in 1 .. Len(bounds) : bounds'[i] = bounds[i],
         UNCHANGED <<rd, pc, want, msglen, len, rxbuf, handled>>
  PROVE  StreamInv' /\ HandledRight'
<1>0. Len(handled) < Len(bounds)  BY DEF StreamInv
<1>1. /\ Len(handled) \in Nat /\ Len(bounds) \in Nat /\ Current \in 1 .. Len(bounds)
  BY <1>0, Position
<1>2. Current' = Current /\ BodyAt' = BodyAt /\ BodyLen' = BodyLen
  BY <1>1 DEF Current, BodyAt, BodyLen
<1>3. Current < Len(bounds) => Current' < Len(bounds') /\ (bounds[Current + 1])' = bounds[Current + 1]
  <2>1. Current < Len(bounds) => Current + 1 \in 1 .. Len(bounds)  BY <1>1
  <2> QED BY <1>1, <1>2, <2>1
<1>4. \A n : Holds(n)' <=> Holds(n)  BY <1>2 DEF Holds
<1>5. StreamInv'
  BY <1>0, <1>1, <1>2, <1>3, <1>4 DEF StreamInv
<1>6. HandledRight'
  <2> SUFFICES ASSUME NEW k \in DOMAIN handled
               PROVE  k < Len(bounds') /\ bounds'[k] = bounds[k] /\ bounds'[k + 1] = bounds[k + 1]
    BY DEF HandledRight
  <2>1. k < Len(bounds)  BY DEF HandledRight
  <2>2. k \in 1 .. Len(handled)  BY DEF TypeInv, TypeOK
  <2> QED BY <1>1, <2>1, <2>2
<1> QED BY <1>5, <1>6

\* The two properties of HandledRight for steps that call nobody.
LEMMA HandledFrame ==
  ASSUME HandledRight, UNCHANGED <<bounds, handled>>
  PROVE  HandledRight'
BY DEF HandledRight

\* A recv() moves the place on by what it took.
LEMMA RecvStep == RecvInv /\ Recv => StreamInv'
<1> SUFFICES ASSUME RecvInv, Recv PROVE StreamInv'  OBVIOUS
<1> USE Constants
<1> DEFINE n == Least(want, arrived - rd)
           at == BodyLen - want
<1>0. TypeInv /\ TypeOK /\ StreamInv  BY DEF RecvInv, TypeInv
<1>1. n \in Nat /\ n <= want /\ want \in Nat /\ rd \in Nat /\ len \in Nat
  BY <1>0, LeastType DEF Recv, TypeOK
<1>2. /\ Len(handled) < Len(bounds) /\ BodyAt \in Nat /\ BodyLen \in Nat /\ BodyLen <= RxMax
      /\ Current < Len(bounds) => bounds[Current + 1] \in Nat
  BY <1>0, Position DEF StreamInv
<1>3. /\ rd' = rd + n /\ want' = want - n
      /\ UNCHANGED <<bounds, pc, msglen, len, handled>> /\ pc \in Reads
      /\ pc # "body" => rxbuf' = rxbuf
  BY DEF Recv, peerVars
<1>4. Current' = Current /\ BodyAt' = BodyAt /\ BodyLen' = BodyLen
  BY <1>3 DEF Current, BodyAt, BodyLen
<1>5. ASSUME pc = "body" PROVE \A i \in 1 .. BodyLen - want' : rxbuf'[i] = BodyAt + i
  <2>1. rxbuf' = [i \in 1 .. RxMax |-> IF i \in at + 1 .. at + n THEN rd + (i - at) ELSE rxbuf[i]]
    BY <1>5 DEF Recv
  <2>2. want <= BodyLen /\ rd = BodyAt + at /\ Holds(at)
    BY <1>0, <1>1, <1>2, <1>5 DEF StreamInv
  <2>3. at \in Nat /\ BodyLen - want' = at + n /\ at + n <= RxMax
    BY <1>1, <1>2, <1>3, <2>2
  <2> HIDE DEF at, n
  <2>4. ASSUME NEW i \in 1 .. at + n PROVE rxbuf'[i] = BodyAt + i
    <3>1. i \in 1 .. RxMax  BY <1>1, <2>3
    <3>2. CASE i \in at + 1 .. at + n
      BY <1>1, <1>2, <2>1, <2>2, <2>3, <3>1, <3>2
    <3>3. CASE i \in 1 .. at
      BY <1>1, <2>1, <2>2, <2>3, <3>1, <3>3 DEF Holds
    <3> QED BY <1>1, <2>3, <3>2, <3>3
  <2> QED BY <2>3, <2>4
<1> HIDE DEF n, at
<1>6. pc \in {"skip", "last"} => Holds(BodyLen)'
  BY <1>0, <1>3, <1>4 DEF StreamInv, Holds
<1>7. CASE pc = "head"
  BY <1>0, <1>1, <1>2, <1>3, <1>4, <1>7 DEF StreamInv
<1>8. CASE pc = "body"
  <2>1. Holds(BodyLen - want)'  BY <1>4, <1>5, <1>8 DEF Holds
  <2> QED BY <1>0, <1>1, <1>2, <1>3, <1>4, <1>8, <2>1 DEF StreamInv
<1>9. CASE pc = "skip"
  BY <1>0, <1>1, <1>2, <1>3, <1>4, <1>6, <1>9 DEF StreamInv
<1>10. CASE pc = "last"
  BY <1>0, <1>1, <1>2, <1>3, <1>4, <1>6, <1>10 DEF StreamInv
<1> QED BY <1>3, <1>7, <1>8, <1>9, <1>10 DEF Reads

\* A header is found where a message starts, and nowhere else.
LEMMA HeaderStep == RecvInv /\ Header => StreamInv'
<1> SUFFICES ASSUME RecvInv, Header PROVE StreamInv'  OBVIOUS
<1> USE Constants
<1>0. TypeInv /\ TypeOK /\ BoundsInv /\ StreamInv  BY DEF RecvInv, TypeInv
<1>1. Len(handled) < Len(bounds)  BY <1>0 DEF StreamInv
<1>2. UNCHANGED <<bounds, rd, len, rxbuf, handled>> /\ pc = "head" /\ want = 0
  BY DEF Header, peerVars
<1>3. Current' = Current /\ BodyAt' = BodyAt  BY <1>2 DEF Current, BodyAt
<1>4. CASE pc' = "done"
  BY <1>1, <1>2, <1>4 DEF StreamInv
<1>5. ASSUME NEW k \in 1 .. Len(bounds) - 1, rd = bounds[k] + HeadLen,
             msglen' = bounds[k + 1] - rd, Read("body", Least(msglen', RxMax))
      PROVE  StreamInv'
  <2>1. /\ Current \in 1 .. Len(bounds) /\ Len(bounds) \in Nat /\ BodyAt \in Nat
        /\ bounds[Current] \in Nat
    BY <1>0, <1>1, Position
  <2>2. k \in 1 .. Len(bounds) /\ bounds[k] \in Nat  BY <1>0, <2>1 DEF TypeOK
  <2>3. rd = BodyAt /\ bounds[k] = bounds[Current]
    BY <1>0, <1>2, <1>5, <2>1, <2>2 DEF StreamInv, BodyAt
  <2>4. k = Current
    <3>1. CASE k < Current
      <4>1. bounds[k] + HeadLen <= bounds[Current]  BY <1>0, <2>1, <2>2, <3>1 DEF BoundsInv
      <4> QED BY <2>2, <2>3, <4>1
    <3>2. CASE Current < k
      <4>1. bounds[Current] + HeadLen <= bounds[k]  BY <1>0, <2>1, <2>2, <3>2 DEF BoundsInv
      <4> QED BY <2>2, <2>3, <4>1
    <3> QED BY <2>1, <2>2, <3>1, <3>2
  <2>5. Current < Len(bounds) /\ msglen' = bounds[Current + 1] - BodyAt
    BY <1>5, <2>1, <2>3, <2>4
  <2>6. msglen' \in Nat  BY <1>0, <1>5, HeaderLength
  <2>7. pc' = "body" /\ want' = BodyLen' /\ BodyLen' \in Nat
    BY <1>5, <2>6, LeastType DEF Read, BodyLen
  <2>8. \A n \in Nat : \A i \in 1 .. n - n : rxbuf'[i] = BodyAt' + i  OBVIOUS
  <2>9. \A i \in 1 .. BodyLen' - want' : rxbuf'[i] = BodyAt' + i  BY <2>7, <2>8
  <2>10. Holds(BodyLen - want)'  BY <2>9 DEF Holds
  <2>11. want' <= BodyLen' /\ rd' = BodyAt' + BodyLen' - want'
    <3>1. rd' = BodyAt' /\ BodyAt' \in Nat  BY <1>2, <1>3, <2>1, <2>3
    <3>2. \A a, n \in Nat : n <= n /\ a = a + n - n  OBVIOUS
    <3> QED BY <2>7, <3>1, <3>2
  <2>12. /\ Current' < Len(bounds') /\ Len(handled') < Len(bounds')
         /\ msglen' = (bounds[Current + 1])' - BodyAt'
    BY <1>1, <1>2, <1>3, <2>5
  <2> QED BY <2>7, <2>10, <2>11, <2>12 DEF StreamInv
<1> QED BY <1>4, <1>5 DEF Header, Read

\* The skip begins with the bytes that did not fit, and goes on in chunks.
LEMMA SkipStep == RecvInv /\ (Body \/ SkipChunk \/ SkipDone) => StreamInv'
<1> SUFFICES ASSUME RecvInv, Body \/ SkipChunk \/ SkipDone PROVE StreamInv'  OBVIOUS
<1> USE Constants
<1>0. TypeInv /\ TypeOK /\ SkipInv /\ StreamInv  BY DEF RecvInv, TypeInv
<1>1. UNCHANGED <<bounds, rd, msglen, rxbuf, handled>> /\ pc \in {"body", "skip", "last"} /\ want = 0
  BY DEF Body, SkipChunk, SkipDone, peerVars
<1>2. /\ Current < Len(bounds) /\ msglen = bounds[Current + 1] - BodyAt
      /\ Len(handled) < Len(bounds)
  BY <1>0, <1>1 DEF StreamInv
<1>3. /\ bounds[Current + 1] \in Nat /\ BodyAt \in Nat /\ BodyLen \in Nat /\ BodyLen <= msglen
      /\ msglen \in Nat /\ len \in Nat
  BY <1>0, <1>2, Position DEF TypeOK
<1>4. Current' = Current /\ BodyAt' = BodyAt /\ BodyLen' = BodyLen
  BY <1>1 DEF Current, BodyAt, BodyLen
<1>5. Holds(BodyLen)
  <2>1. BodyLen - want = BodyLen  BY <1>1, <1>3
  <2>2. CASE pc = "body"
    <3>1. Holds(BodyLen - want)  BY <1>0, <2>2 DEF StreamInv
    <3> QED BY <2>1, <3>1
  <2>3. CASE pc # "body"  BY <1>0, <1>1, <2>3 DEF StreamInv
  <2> QED BY <2>2, <2>3
<1>6. Holds(BodyLen)'  BY <1>1, <1>4, <1>5 DEF Holds
<1>7. CASE Body /\ BodyLen < msglen
  <2>1. rd = BodyAt + BodyLen  BY <1>0, <1>1, <1>3, <1>7 DEF StreamInv, Body
  <2>2. len' = msglen - BodyLen /\ SkipLoop(len')  BY <1>7 DEF Body
  <2>3. len' \in Nat /\ rd = bounds[Current + 1] - len'  BY <1>2, <1>3, <1>7, <2>1, <2>2
  <2>4. /\ rd' = rd /\ (bounds[Current + 1])' = bounds[Current + 1]
        /\ Current' < Len(bounds') /\ msglen' = bounds[Current + 1] - BodyAt'
        /\ Len(handled') < Len(bounds')
    BY <1>1, <1>2, <1>4
  <2>5. CASE len' > Chunk
    <3>1. pc' = "skip" /\ want' = Chunk  BY <2>2, <2>5 DEF SkipLoop, Read
    <3>2. want' <= Chunk /\ rd' = bounds[Current + 1] - len' + Chunk - want'
      BY <1>3, <2>3, <2>4, <3>1
    <3> QED BY <1>6, <2>4, <3>1, <3>2 DEF StreamInv
  <2>6. CASE ~(len' > Chunk)
    <3>1. pc' = "last" /\ want' = len'  BY <2>2, <2>6 DEF SkipLoop, Read
    <3> QED BY <1>6, <2>3, <2>4, <3>1 DEF StreamInv
  <2> QED BY <2>5, <2>6
<1>8. CASE Body /\ ~(BodyLen < msglen)
  <2>1. rd = BodyAt + BodyLen  BY <1>0, <1>1, <1>3, <1>8 DEF StreamInv, Body
  <2>2. BodyLen = msglen /\ pc' = "call"  BY <1>3, <1>8 DEF Body, Read
  <2> QED BY <1>1, <1>2, <1>3, <1>4, <1>6, <2>1, <2>2 DEF StreamInv
<1>9. CASE SkipChunk
  <2>1. rd = bounds[Current + 1] - len + Chunk /\ len > Chunk
    BY <1>0, <1>1, <1>3, <1>9 DEF StreamInv, SkipChunk, SkipInv
  <2>2. len' = len - Chunk /\ SkipLoop(len')  BY <1>9 DEF SkipChunk
  <2>3. /\ rd' = rd /\ (bounds[Current + 1])' = bounds[Current + 1]
        /\ Current' < Len(bounds') /\ msglen' = bounds[Current + 1] - BodyAt'
        /\ Len(handled') < Len(bounds')
    BY <1>1, <1>2, <1>4
  <2>4. len' \in Nat /\ rd = bounds[Current + 1] - len'  BY <1>3, <2>1, <2>2
  <2>5. CASE len' > Chunk
    <3>1. pc' = "skip" /\ want' = Chunk  BY <2>2, <2>5 DEF SkipLoop, Read
    <3>2. want' <= Chunk /\ rd' = bounds[Current + 1] - len' + Chunk - want'
      BY <1>3, <2>3, <2>4, <3>1
    <3> QED BY <1>6, <2>3, <3>1, <3>2 DEF StreamInv
  <2>6. CASE ~(len' > Chunk)
    <3>1. pc' = "last" /\ want' = len'  BY <2>2, <2>6 DEF SkipLoop, Read
    <3> QED BY <1>6, <2>3, <2>4, <3>1 DEF StreamInv
  <2> QED BY <2>5, <2>6
<1>10. CASE SkipDone
  <2>1. rd = bounds[Current + 1] /\ pc' = "call"
    BY <1>0, <1>1, <1>3, <1>10 DEF StreamInv, SkipDone, Read
  <2> QED BY <1>1, <1>2, <1>3, <1>4, <1>6, <2>1 DEF StreamInv
<1> QED BY <1>7, <1>8, <1>9, <1>10

\* The end of the connection cannot fall into a skipped chunk, all of whose
\* bytes were sent; without a stall there, any other error ends the thread.
LEMMA ErrorStep == NoSkipStall /\ RecvInv /\ RecvError => StreamInv'
<1> SUFFICES ASSUME NoSkipStall, RecvInv, RecvError PROVE StreamInv'  OBVIOUS
<1> USE Constants
<1>0. TypeInv /\ TypeOK /\ SkipInv /\ StreamInv  BY DEF RecvInv, TypeInv
<1>1. pc # "skip"
  <2> SUFFICES ASSUME pc = "skip" PROVE FALSE  OBVIOUS
  <2>1. rd = End /\ want > 0 /\ want \in Nat /\ len \in Nat
    BY <1>0 DEF RecvError, NoSkipStall, TypeOK
  <2>2. rd = bounds[Current + 1] - len + Chunk - want /\ len > Chunk
    BY <1>0 DEF StreamInv, SkipInv
  <2>3. bounds[Current + 1] \in Nat /\ bounds[Current + 1] <= End /\ End \in Nat
    BY <1>0, Position DEF StreamInv
  <2> QED BY <2>1, <2>2, <2>3
<1>2. pc' = "done" /\ UNCHANGED <<bounds, handled>>
  BY <1>1 DEF RecvError, Read, peerVars
<1> QED BY <1>0, <1>2 DEF StreamInv

\* The callback gets the message under way.
LEMMA CallStep == RecvInv /\ Call => StreamInv' /\ HandledRight'
<1> SUFFICES ASSUME RecvInv, Call PROVE StreamInv' /\ HandledRight'  OBVIOUS
<1> USE Constants
<1>0. TypeInv /\ TypeOK /\ StreamInv /\ HandledRight  BY DEF RecvInv, TypeInv
<1>1. /\ Current < Len(bounds) /\ msglen = bounds[Current + 1] - BodyAt
      /\ Len(handled) < Len(bounds) /\ Holds(BodyLen) /\ rd = bounds[Current + 1]
  BY <1>0 DEF StreamInv, Call
<1>2. /\ bounds[Current + 1] \in Nat /\ BodyLen \in Nat /\ BodyLen <= RxMax
      /\ Len(handled) \in Nat /\ Len(bounds) \in Nat
  BY <1>0, <1>1, Position
<1> DEFINE call == [length |-> BodyLen, bytes |-> rxbuf]
<1>3. /\ handled' = Append(handled, call)
      /\ pc' = "head" /\ want' = HeadLen /\ UNCHANGED <<bounds, rd>>
  BY DEF Call, Read, peerVars
<1>4. /\ Len(handled') = Len(handled) + 1 /\ handled'[Len(handled) + 1] = call
      /\ \A k \in 1 .. Len(handled) : handled'[k] = handled[k]
  BY <1>0, <1>3 DEF TypeOK
<1>5. Current' = Current + 1 /\ BodyAt' = bounds[Current + 1] + HeadLen
  BY <1>2, <1>3, <1>4 DEF Current, BodyAt
<1>6. StreamInv'
  BY <1>1, <1>2, <1>3, <1>4, <1>5 DEF StreamInv, Current
<1>7. ASSUME NEW k \in 1 .. Len(handled) + 1
      PROVE  /\ k < Len(bounds)
             /\ handled'[k].length = Least(bounds[k + 1] - (bounds[k] + HeadLen), RxMax)
             /\ \A i \in 1 .. handled'[k].length :
                  handled'[k].bytes[i] = bounds[k] + HeadLen + i
  <2>1. CASE k = Len(handled) + 1
    <3>1. handled'[k] = call /\ k = Current  BY <1>4, <2>1 DEF Current
    <3>2. call.length = Least(bounds[k + 1] - (bounds[k] + HeadLen), RxMax)
      BY <1>1, <3>1 DEF BodyLen, BodyAt
    <3>3. \A i \in 1 .. BodyLen : call.bytes[i] = bounds[k] + HeadLen + i
      BY <1>1, <3>1 DEF Holds, BodyAt
    <3> QED BY <1>1, <3>1, <3>2, <3>3
  <2>2. CASE k # Len(handled) + 1
    <3>1. k \in 1 .. Len(handled) /\ k \in DOMAIN handled /\ handled'[k] = handled[k]
      <4>1. k \in 1 .. Len(handled)  BY <1>2, <2>2
      <4>2. DOMAIN handled = 1 .. Len(handled)  BY <1>0 DEF TypeOK
      <4> QED BY <1>4, <4>1, <4>2
    <3> QED BY <1>0, <3>1 DEF HandledRight
  <2> QED BY <2>1, <2>2
<1>8. DOMAIN handled' = 1 .. Len(handled) + 1
  BY <1>0, <1>3 DEF TypeOK
<1>9. HandledRight'
  BY <1>3, <1>7, <1>8 DEF HandledRight
<1> QED BY <1>6, <1>9

LEMMA NextRecvInv == NoSkipStall /\ RecvInv /\ [Next]_vars => RecvInv'
<1> SUFFICES ASSUME NoSkipStall, RecvInv, [Next]_vars PROVE StreamInv' /\ HandledRight'
  BY NextTypeInv DEF RecvInv
<1>0. TypeInv /\ TypeOK /\ StreamInv /\ HandledRight  BY DEF RecvInv, TypeInv
<1>1. Len(bounds) \in Nat  BY <1>0, EndType
<1>2. CASE PeerSend
  <2>1. Len(bounds') \in Nat /\ Len(bounds) <= Len(bounds')
        /\ \A i \in 1 .. Len(bounds) : bounds'[i] = bounds[i]
    BY <1>0, <1>1, <1>2, SendStep
  <2>2. UNCHANGED <<rd, pc, want, msglen, len, rxbuf, handled>>  BY <1>2 DEF PeerSend
  <2> QED BY <1>0, <2>1, <2>2, PeerFrame
<1>3. CASE Arrive \/ PeerClose \/ UNCHANGED vars
  <2>1. UNCHANGED <<bounds, rd, pc, want, msglen, len, rxbuf, handled>>
    BY <1>3 DEF Arrive, PeerClose, vars, peerVars
  <2>2. Len(bounds') \in Nat /\ Len(bounds) <= Len(bounds')  BY <1>1, <2>1
  <2> QED BY <1>0, <2>1, <2>2, PeerFrame
<1>4. CASE Recv \/ RecvError \/ Header \/ Body \/ SkipChunk \/ SkipDone
  <2>1. UNCHANGED <<bounds, handled>>
    BY <1>4 DEF Recv, RecvError, Header, Body, SkipChunk, SkipDone, peerVars
  <2>2. HandledRight'  BY <1>0, <2>1, HandledFrame
  <2> QED BY <1>4, <2>2, RecvStep, ErrorStep, HeaderStep, SkipStep
<1>5. CASE Call  BY <1>5, CallStep
<1> QED BY <1>2, <1>3, <1>4, <1>5 DEF Next, Peer, Thread

-----------------------------------------------------------------------------
(* Theorems.                                                               *)

\* The registers of the receive loop keep to their types, wherever a peer
\* stalls or closes.
THEOREM TypeCorrect == Spec => []TypeOK
<1>1. Init => TypeInv  BY InitInv DEF RecvInv
<1>2. TypeInv => TypeOK  BY DEF TypeInv
<1> QED BY <1>1, <1>2, NextTypeInv, PTL DEF Spec

\* If no peer stalls within a skipped chunk, the callback gets the messages
\* sent, one each and in order, cut at the buffer (handle_client,
\* psc_recvmsg), for all lengths.
THEOREM MessagesHandled ==
  ASSUME NoSkipStall
  PROVE  Spec => []HandledRight
<1>1. RecvInv /\ [Next]_vars => RecvInv'  BY NextRecvInv
<1>2. RecvInv => HandledRight  BY DEF RecvInv
<1> QED BY <1>1, <1>2, InitInv, PTL DEF Spec

\* And headers are looked for only where messages start (psc_recvskip).
THEOREM HeadersAligned ==
  ASSUME NoSkipStall
  PROVE  Spec => []Aligned
<1>1. RecvInv /\ [Next]_vars => RecvInv'  BY NextRecvInv
<1>2. RecvInv => Aligned
  <2> SUFFICES ASSUME RecvInv, pc = "head", want = HeadLen
               PROVE  rd = bounds[Len(handled) + 1]
    BY DEF Aligned
  <2>1. StreamInv /\ TypeInv /\ Len(handled) < Len(bounds)  BY DEF RecvInv, StreamInv
  <2>2. rd = BodyAt - HeadLen  BY <2>1 DEF StreamInv
  <2>3. bounds[Current] \in Nat  BY <2>1, Position
  <2> QED BY <2>2, <2>3, Constants DEF BodyAt, Current
<1> QED BY <1>1, <1>2, InitInv, PTL DEF Spec

=============================================================================
