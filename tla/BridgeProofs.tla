---------------------------- MODULE BridgeProofs ----------------------------
(***************************************************************************)
(* Proof that the stream -> channel direction of the bridge keeps the      *)
(* websocket's outgoing buffer within its high-water mark for every value  *)
(* of the constants.                                                       *)
(*                                                                         *)
(* WsBufBounded is not inductive: TcpData appends while tcpconn is reading *)
(* and WsSocketDrain resumes reading, so it needs that a reading socket    *)
(* leaves room in the buffer, and that 'drain' is only queued once the      *)
(* buffer is empty and before anything resumed the socket.                 *)
(***************************************************************************)
EXTENDS Bridge, WellFoundedInduction, SequenceTheorems, TLAPS

USE BridgeAssumption

\* The stream -> channel variables are well typed.
StreamTypeOK ==
    /\ tcpIn \in Seq(Chunk) /\ wsBuf \in Seq(Chunk) /\ wsOut \in Seq(Chunk)
    /\ tcpReading \in BOOLEAN /\ wsNeedDrain \in BOOLEAN
    /\ wsDrainEv \in BOOLEAN
    /\ sentB \in 0..NChunks

\* The overflow handshake: a reading socket leaves room; an 'overflow' not
\* yet drained keeps the socket paused; a queued 'drain' finds the buffer
\* empty, the socket paused and the overflow cleared.
WInv ==
    /\ StreamTypeOK
    /\ WsBufBounded
    /\ tcpReading => Len(wsBuf) < HWM
    /\ wsNeedDrain => ~tcpReading
    /\ wsDrainEv => wsBuf = <<>> /\ ~tcpReading /\ ~wsNeedDrain

-----------------------------------------------------------------------------
(* BinaryFrames.  Its recursive function is defined by CHOOSE; the lemma   *)
(* shows that a function satisfying the recursion exists (by extending one *)
(* on 0..n-1 to 0..n), that it is unique, and that its values are binary   *)
(* chunks no more numerous than the frames read.  Both inductions are      *)
(* done at a least counterexample.                                         *)

\* A nonempty set of naturals has a least element.
LEMMA LeastNat ==
    ASSUME NEW T \in SUBSET Nat, T # {}
    PROVE  \E m \in T : \A y \in T : ~(y < m)
<1>1. \E m \in T : \A y \in T : ~(<<y, m>> \in OpToRel(<, Nat))
  BY NatLessThanWellFounded, WFMin
<1>2. QED BY <1>1 DEF OpToRel

\* The frames the 'message' handler writes are binary chunks, at most one
\* per frame read.
LEMMA BinaryFramesType ==
    ASSUME NEW s \in Seq(Chunk \cup {Text}), NEW k \in 0..Len(s)
    PROVE  /\ BinaryFrames(s, k) \in Seq(Chunk)
           /\ Len(BinaryFrames(s, k)) <= k
<1> DEFINE Body(g, i) == IF i = 0 THEN << >>
                         ELSE IF IsBinary(s[i]) THEN Append(g[i - 1], s[i])
                         ELSE g[i - 1]
           Good(g, n) == /\ g \in [0..n -> Seq(Chunk)]
                         /\ \A i \in 0..n : g[i] = Body(g, i) /\ Len(g[i]) <= i
           F == CHOOSE f : f = [i \in 0..k |-> Body(f, i)]
<1>1. BinaryFrames(s, k) = F[k]
  BY DEF BinaryFrames
\* A solution on 0..n-1 extends by one frame.
<1>2. ASSUME NEW n \in 1..k, NEW g, Good(g, n - 1)
      PROVE  Good([i \in 0..n |-> IF i < n THEN g[i] ELSE Body(g, n)], n)
  <2> DEFINE h == [i \in 0..n |-> IF i < n THEN g[i] ELSE Body(g, n)]
  <2>1. n \in 1..Len(s) /\ s[n] \in Chunk \cup {Text} /\ g[n - 1] \in Seq(Chunk)
    <3>1. n \in 1..Len(s) /\ n - 1 \in 0..(n - 1)
      BY <1>2
    <3>2. s[n] \in Chunk \cup {Text}
      BY <3>1
    <3>3. g[n - 1] \in Seq(Chunk)
      BY <3>1, <1>2
    <3>4. QED BY <3>1, <3>2, <3>3
  <2>2. Body(g, n) \in Seq(Chunk) /\ Len(Body(g, n)) <= n
    BY <1>2, <2>1 DEF IsBinary, Text
  <2>3. h \in [0..n -> Seq(Chunk)]
    BY <1>2, <2>2
  <2>4. ASSUME NEW i \in 0..n PROVE h[i] = Body(h, i) /\ Len(h[i]) <= i
    <3>1. CASE i < n
      <4>1. h[i] = g[i] /\ (i # 0 => h[i - 1] = g[i - 1])
        BY <3>1
      <4>2. Body(h, i) = Body(g, i)
        BY <4>1
      <4>3. i \in 0..(n - 1)
        BY <3>1
      <4>4. g[i] = Body(g, i) /\ Len(g[i]) <= i
        BY <1>2, <4>3
      <4>5. QED BY <4>1, <4>2, <4>4
    <3>2. CASE i = n
      <4>1. h[n] = Body(g, n) /\ h[n - 1] = g[n - 1]
        OBVIOUS
      <4>2. Body(h, n) = Body(g, n)
        BY <4>1
      <4>3. QED BY <3>2, <4>1, <4>2, <2>2
    <3>3. QED BY <3>1, <3>2
  <2>5. QED BY <2>3, <2>4
\* A solution exists on every prefix.
<1>3. \A n \in 0..k : \E g : Good(g, n)
  <2> SUFFICES ASSUME \E n \in 0..k : ~\E g : Good(g, n) PROVE FALSE
    OBVIOUS
  <2> DEFINE T == {n \in 0..k : ~\E g : Good(g, n)}
  <2>0. T \in SUBSET Nat /\ T # {}
    <3>1. T \in SUBSET Nat
      OBVIOUS
    <3>2. T # {}
      BY Zenon
    <3>3. QED BY <3>1, <3>2
  <2>1. PICK m \in T : \A y \in T : ~(y < m)
    BY <2>0, LeastNat, Zenon
  <2>2. CASE m = 0
    <3>1. Good([i \in 0..0 |-> << >>], 0)
      <4>1. [i \in 0..0 |-> << >>] \in [0..0 -> Seq(Chunk)]
        OBVIOUS
      <4>2. \A i \in 0..0 : i = 0
        OBVIOUS
      <4>3. QED BY <4>1, <4>2
    <3>2. QED BY <3>1, <2>2, Zenon
  <2>3. CASE m # 0
    <3>1. m \in 1..k /\ m - 1 \in 0..k /\ m - 1 < m
      BY <2>3
    <3>2. m - 1 \notin T
      BY <2>1, <3>1, Zenon
    <3>3. PICK g : Good(g, m - 1)
      BY <3>1, <3>2, Zenon
    <3>4. Good([i \in 0..m |-> IF i < m THEN g[i] ELSE Body(g, m)], m)
      BY <3>1, <3>3, <1>2
    <3>5. ~\E f : Good(f, m)
      BY <2>1, Zenon
    <3>6. QED BY <3>4, <3>5, Zenon
  <2>4. QED BY <2>2, <2>3
<1>4. PICK g : Good(g, k)
  <2>1. k \in 0..k
    OBVIOUS
  <2>2. QED BY <2>1, <1>3, Zenon
<1>5. g = [i \in 0..k |-> Body(g, i)]
  BY <1>4
<1>6. F = [i \in 0..k |-> Body(F, i)]
  BY <1>5
\* The solution is unique, so the CHOOSE picks g.
<1>7. F = g
  <2> SUFFICES ASSUME \E i \in 0..k : F[i] # g[i] PROVE FALSE
    BY <1>4, <1>6
  <2> DEFINE T == {i \in 0..k : F[i] # g[i]}
  <2>0. T \in SUBSET Nat /\ T # {}
    <3>1. T \in SUBSET Nat
      OBVIOUS
    <3>2. T # {}
      BY Zenon
    <3>3. QED BY <3>1, <3>2
  <2>1. PICK m \in T : \A y \in T : ~(y < m)
    BY <2>0, LeastNat, Zenon
  <2>2. m # 0
    <3>0. 0 \in 0..k
      OBVIOUS
    <3>1. F[0] = << >> /\ g[0] = << >>
      <4>1. F[0] = Body(F, 0)
        BY <3>0, <1>6
      <4>2. g[0] = Body(g, 0)
        BY <3>0, <1>5
      <4>3. QED BY <4>1, <4>2
    <3>2. F[m] # g[m]
      BY <2>1, Zenon
    <3>3. QED BY <3>1, <3>2
  <2>3. m - 1 \in 0..k /\ m - 1 < m
    BY <2>2
  <2>4. F[m - 1] = g[m - 1]
    BY <2>1, <2>3, Zenon
  <2>5. QED BY <1>4, <1>6, <2>1, <2>2, <2>4
<1>8. g[k] \in Seq(Chunk) /\ Len(g[k]) <= k
  BY <1>4
<1>9. QED BY <1>1, <1>7, <1>8

-----------------------------------------------------------------------------

LEMMA WInvInit == Init => WInv
<1> SUFFICES ASSUME Init PROVE WInv
  OBVIOUS
<1>4. tcpIn = <<>> /\ wsBuf = <<>> /\ wsOut = <<>> /\ sentB = 0
  BY DEF Init
<1>5. tcpReading = TRUE /\ wsNeedDrain = FALSE /\ wsDrainEv = FALSE
  BY DEF Init
<1>6. <<>> \in Seq(Chunk)
  OBVIOUS
<1>7. tcpReading \in BOOLEAN /\ wsNeedDrain \in BOOLEAN /\ wsDrainEv \in BOOLEAN
  BY <1>5
<1>8. sentB \in 0..NChunks
  BY <1>4
<1>1. StreamTypeOK
  BY <1>4, <1>6, <1>7, <1>8 DEF StreamTypeOK
<1>2. Len(wsBuf) = 0 /\ ~wsNeedDrain /\ ~wsDrainEv
  BY DEF Init
<1>3. QED
  BY <1>1, <1>2 DEF WInv, WsBufBounded

\* tcpconn 'data': the append and the 'overflow' handler.
LEMMA TcpDataWInv ==
    ASSUME WInv, TcpData
    PROVE  WInv'
<1>1. /\ tcpReading /\ tcpIn # <<>>
      /\ Len(wsBuf) < HWM /\ ~wsDrainEv
      /\ wsBuf' = Append(wsBuf, Head(tcpIn)) /\ tcpIn' = Tail(tcpIn)
      /\ UNCHANGED <<wsDrainEv, wsOut, sentB>>
  BY DEF WInv, TcpData
<1>2. /\ Head(tcpIn) \in Chunk /\ Tail(tcpIn) \in Seq(Chunk)
      /\ Len(wsBuf') = Len(wsBuf) + 1 /\ wsBuf' \in Seq(Chunk)
  BY <1>1 DEF WInv, StreamTypeOK
<1>6. StreamTypeOK' /\ WsBufBounded'
  <2>1. tcpReading' \in BOOLEAN /\ wsNeedDrain' \in BOOLEAN
    BY DEF TcpData, WInv, StreamTypeOK
  <2>2. QED
    BY <1>1, <1>2, <2>1 DEF WInv, StreamTypeOK, WsBufBounded
<1>3. CASE Len(wsBuf') >= HWM /\ tcpReading' = FALSE /\ wsNeedDrain' = TRUE
  BY <1>1, <1>3, <1>6 DEF WInv
<1>4. CASE Len(wsBuf') < HWM /\ UNCHANGED <<tcpReading, wsNeedDrain>>
  BY <1>1, <1>4, <1>6 DEF WInv
<1>5. QED BY <1>3, <1>4 DEF TcpData

\* The websocket peer reads a chunk; an emptied overflowed buffer queues
\* 'drain'.
LEMMA WsFlushWInv ==
    ASSUME WInv, WsFlush
    PROVE  WInv'
<1>1. /\ wsBuf # <<>> /\ ~wsDrainEv
      /\ wsBuf' = Tail(wsBuf) /\ Len(wsBuf') = Len(wsBuf) - 1
      /\ wsBuf' \in Seq(Chunk) /\ wsOut' \in Seq(Chunk)
  BY DEF WInv, StreamTypeOK, WsFlush
<1>2. wsDrainEv' = (wsNeedDrain /\ wsBuf' = <<>>)
  BY <1>1 DEF WsFlush
<1>3. QED
  BY <1>1, <1>2 DEF WsFlush, WInv, StreamTypeOK, WsBufBounded

\* wsconn.socket 'drain' resumes tcpconn.
LEMMA WsSocketDrainWInv ==
    ASSUME WInv, WsSocketDrain
    PROVE  WInv'
<1>1. wsBuf = <<>> /\ ~wsNeedDrain
  BY DEF WInv, WsSocketDrain
<1>2. /\ tcpReading' = TRUE /\ wsDrainEv' = FALSE
      /\ UNCHANGED <<tcpIn, wsBuf, wsNeedDrain, wsOut, sentB>>
  BY DEF WsSocketDrain
<1>3. Len(wsBuf') = 0 /\ 0 < HWM
  BY <1>1, <1>2
<1>4. StreamTypeOK'
  BY <1>2 DEF WInv, StreamTypeOK
<1>5. QED
  BY <1>1, <1>2, <1>3, <1>4 DEF WInv, WsBufBounded

\* The TCP peer sends the next chunk.
LEMMA ExtSendWInv ==
    ASSUME WInv, ExtSend
    PROVE  WInv'
<1>1. sentB + 1 \in Chunk /\ sentB' = sentB + 1 /\ sentB' \in 0..NChunks
  BY DEF ExtSend, WInv, StreamTypeOK, Chunk
<1>2. tcpIn' \in Seq(Chunk)
  BY <1>1 DEF ExtSend, WInv, StreamTypeOK
<1>3. QED
  BY <1>1, <1>2 DEF ExtSend, WInv, StreamTypeOK, WsBufBounded

\* The channel -> stream actions leave every variable of WInv alone.
LEMMA ChanSideWInv ==
    ASSUME WInv, UNCHANGED streamVars
    PROVE  WInv'
BY DEF streamVars, WInv, StreamTypeOK, WsBufBounded

LEMMA WInvStep == WInv /\ [Next]_vars => WInv'
<1> SUFFICES ASSUME WInv, [Next]_vars PROVE WInv'
  OBVIOUS
<1>1. CASE PeerSend \/ PeerSendText \/ TcpFlush \/ TcpDrain
  BY <1>1, ChanSideWInv DEF PeerSend, PeerSendText, TcpFlush, TcpDrain
<1>2. ASSUME NEW k \in 1..Burst, WsMessages(k) PROVE WInv'
  BY <1>2, ChanSideWInv DEF WsMessages
<1>3. CASE ExtSend
  BY <1>3, ExtSendWInv
<1>4. CASE TcpData
  BY <1>4, TcpDataWInv
<1>5. CASE WsFlush
  BY <1>5, WsFlushWInv
<1>6. CASE WsSocketDrain
  BY <1>6, WsSocketDrainWInv
<1>7. CASE UNCHANGED vars
  BY <1>7, ChanSideWInv DEF vars
<1>8. QED BY <1>1, <1>2, <1>3, <1>4, <1>5, <1>6, <1>7 DEF Next

\* The bridge's 'overflow' handler pauses tcpconn and only the socket's
\* 'drain' resumes it, so for every mark and every stream the websocket's
\* outgoing buffer never holds more than HWM chunks.
THEOREM WsBufBoundedHolds == Spec => []WsBufBounded
<1>1. WInv => WsBufBounded
  BY DEF WInv
<1>2. QED BY <1>1, WInvInit, WInvStep, PTL DEF Spec

-----------------------------------------------------------------------------
(* The channel -> stream direction.  TcpBufBounded is not inductive: the   *)
(* 'message' handler writes every binary frame of a read, so the bound     *)
(* needs that a reading websocket finds tcpconn's buffer below the mark,   *)
(* and that tcpconn's queued 'drain' (which resumes the websocket) finds   *)
(* that buffer empty.                                                      *)

\* The channel -> stream variables are well typed.
ChanTypeOK ==
    /\ wsIn \in Seq(Chunk \cup {Text})
    /\ tcpBuf \in Seq(Chunk) /\ tcpOut \in Seq(Chunk)
    /\ wsReading \in BOOLEAN /\ paused \in BOOLEAN
    /\ tcpNeedDrain \in BOOLEAN /\ tcpDrainEv \in BOOLEAN
    /\ sentA \in 0..NChunks /\ sentText \in 0..NText

\* The backpressure handshake of the 'message' handler: a reading websocket
\* finds room; a refused write keeps the websocket paused; a queued 'drain'
\* finds the buffer empty, the websocket paused and the refusal cleared.
CInv ==
    /\ ChanTypeOK
    /\ TcpBufBounded
    /\ wsReading => Len(tcpBuf) < HWM
    /\ tcpNeedDrain => ~wsReading
    /\ tcpDrainEv => tcpBuf = << >> /\ ~wsReading /\ ~tcpNeedDrain

LEMMA CInvInit == Init => CInv
<1> SUFFICES ASSUME Init PROVE CInv
  OBVIOUS
<1>1. wsIn = << >> /\ tcpBuf = << >> /\ tcpOut = << >> /\ sentA = 0 /\ sentText = 0
  BY DEF Init
<1>2. wsReading = TRUE /\ paused = FALSE /\ tcpNeedDrain = FALSE /\ tcpDrainEv = FALSE
  BY DEF Init
<1>6. << >> \in Seq(Chunk) /\ << >> \in Seq(Chunk \cup {Text})
  OBVIOUS
<1>7. wsReading \in BOOLEAN /\ paused \in BOOLEAN
      /\ tcpNeedDrain \in BOOLEAN /\ tcpDrainEv \in BOOLEAN
  BY <1>2
<1>8. sentA \in 0..NChunks /\ sentText \in 0..NText
  BY <1>1
<1>3. ChanTypeOK
  BY <1>1, <1>6, <1>7, <1>8 DEF ChanTypeOK
<1>4. Len(tcpBuf) = 0 /\ 0 < HWM /\ 0 <= HWM + Burst - 1
  BY <1>1
<1>5. QED BY <1>2, <1>3, <1>4 DEF CInv, TcpBufBounded

\* One read of k frames: the binary ones are appended to tcpconn's buffer,
\* which was below the mark, and the last write's result decides the pause.
LEMMA WsMessagesCInv ==
    ASSUME CInv, NEW k \in 1..Burst, WsMessages(k)
    PROVE  CInv'
<1> DEFINE bin == BinaryFrames(wsIn, k)
<1>1. /\ wsReading /\ k <= Len(wsIn)
      /\ wsIn' = SubSeq(wsIn, k + 1, Len(wsIn))
      /\ tcpBuf' = tcpBuf \o bin
      /\ UNCHANGED <<tcpDrainEv, tcpOut, sentA, sentText>>
  BY DEF WsMessages
<1>2. wsIn \in Seq(Chunk \cup {Text}) /\ tcpBuf \in Seq(Chunk)
      /\ Len(tcpBuf) < HWM /\ ~tcpDrainEv
  BY <1>1 DEF CInv, ChanTypeOK
<1>3. bin \in Seq(Chunk) /\ Len(bin) <= k
  <2>1. k \in 0..Len(wsIn)
    BY <1>1, <1>2
  <2>2. QED BY <1>2, <2>1, BinaryFramesType
<1>4. tcpBuf' \in Seq(Chunk) /\ Len(tcpBuf') = Len(tcpBuf) + Len(bin)
  BY <1>1, <1>2, <1>3, ConcatProperties
<1>5. wsIn' \in Seq(Chunk \cup {Text})
  <2>1. \A i \in (k + 1)..Len(wsIn) : wsIn[i] \in Chunk \cup {Text}
    BY <1>2
  <2>2. QED BY <1>1, <2>1, SubSeqProperties
<1>6. TcpBufBounded'
  BY <1>2, <1>3, <1>4 DEF TcpBufBounded
<1>7. /\ wsReading' \in BOOLEAN /\ paused' \in BOOLEAN /\ tcpNeedDrain' \in BOOLEAN
      /\ (wsReading' => Len(tcpBuf') < HWM)
      /\ (tcpNeedDrain' => ~wsReading')
  <2>1. CASE bin = << >> /\ UNCHANGED <<wsReading, paused, tcpNeedDrain>>
    <3>1. Len(tcpBuf') = Len(tcpBuf)
      BY <1>4, <2>1
    <3>2. QED BY <1>2, <2>1, <3>1 DEF CInv, ChanTypeOK
  <2>2. CASE Len(tcpBuf') >= HWM
             /\ wsReading' = FALSE /\ paused' = TRUE /\ tcpNeedDrain' = TRUE
    BY <2>2
  <2>3. CASE Len(tcpBuf') < HWM /\ wsReading' = TRUE /\ paused' = FALSE
             /\ UNCHANGED tcpNeedDrain
    BY <1>1, <2>3 DEF CInv, ChanTypeOK
  <2>4. QED BY <2>1, <2>2, <2>3 DEF WsMessages
<1>8. ChanTypeOK'
  BY <1>1, <1>4, <1>5, <1>7 DEF CInv, ChanTypeOK
<1>9. QED BY <1>1, <1>2, <1>6, <1>7, <1>8 DEF CInv

\* The TCP peer reads a chunk; an emptied refused buffer queues 'drain'.
LEMMA TcpFlushCInv ==
    ASSUME CInv, TcpFlush
    PROVE  CInv'
<1>1. /\ tcpBuf # << >> /\ ~tcpDrainEv
      /\ tcpBuf' = Tail(tcpBuf) /\ Len(tcpBuf') = Len(tcpBuf) - 1
      /\ tcpBuf' \in Seq(Chunk) /\ tcpOut' \in Seq(Chunk)
  BY DEF CInv, ChanTypeOK, TcpFlush
<1>2. /\ tcpDrainEv' = (tcpNeedDrain /\ tcpBuf' = << >>)
      /\ tcpNeedDrain' = (tcpNeedDrain /\ tcpBuf' # << >>)
      /\ UNCHANGED <<wsIn, wsReading, paused, sentA, sentText>>
  BY <1>1 DEF TcpFlush
<1>3. ChanTypeOK' /\ TcpBufBounded'
  BY <1>1, <1>2 DEF CInv, ChanTypeOK, TcpBufBounded
<1>4. wsReading' => Len(tcpBuf') < HWM
  BY <1>1, <1>2 DEF CInv
<1>5. tcpNeedDrain => ~wsReading
  BY DEF CInv
<1>6. /\ tcpNeedDrain' => ~wsReading'
      /\ tcpDrainEv' => tcpBuf' = << >> /\ ~wsReading' /\ ~tcpNeedDrain'
  BY <1>2, <1>5, Zenon
<1>7. QED BY <1>3, <1>4, <1>6 DEF CInv

\* tcpconn 'drain' resumes the websocket over an empty buffer.
LEMMA TcpDrainCInv ==
    ASSUME CInv, TcpDrain
    PROVE  CInv'
<1>1. tcpBuf = << >> /\ ~tcpNeedDrain
  BY DEF CInv, TcpDrain
<1>2. /\ tcpDrainEv' = FALSE /\ wsReading' = TRUE /\ paused' = FALSE
      /\ UNCHANGED <<wsIn, tcpBuf, tcpNeedDrain, tcpOut, sentA, sentText>>
  BY DEF TcpDrain
<1>3. Len(tcpBuf') = 0 /\ 0 < HWM
  BY <1>1, <1>2
<1>4. ChanTypeOK'
  BY <1>2 DEF CInv, ChanTypeOK
<1>5. QED BY <1>1, <1>2, <1>3, <1>4 DEF CInv, TcpBufBounded

\* The websocket peer sends a binary chunk or a utf8 message.
LEMMA PeerSendCInv ==
    ASSUME CInv, PeerSend \/ PeerSendText
    PROVE  CInv'
<1>1. CASE PeerSend
  <2>1. sentA + 1 \in Chunk /\ sentA' = sentA + 1 /\ sentA' \in 0..NChunks
    BY <1>1 DEF PeerSend, CInv, ChanTypeOK, Chunk
  <2>2. wsIn' \in Seq(Chunk \cup {Text})
    BY <1>1, <2>1 DEF PeerSend, CInv, ChanTypeOK
  <2>3. QED BY <1>1, <2>1, <2>2 DEF PeerSend, CInv, ChanTypeOK, TcpBufBounded
<1>2. CASE PeerSendText
  <2>1. sentText' = sentText + 1 /\ sentText' \in 0..NText
    BY <1>2 DEF PeerSendText, CInv, ChanTypeOK
  <2>2. wsIn' \in Seq(Chunk \cup {Text})
    BY <1>2 DEF PeerSendText, CInv, ChanTypeOK
  <2>3. QED BY <1>2, <2>1, <2>2 DEF PeerSendText, CInv, ChanTypeOK, TcpBufBounded
<1>3. QED BY <1>1, <1>2

\* The stream -> channel actions leave every variable of CInv alone.
LEMMA StreamSideCInv ==
    ASSUME CInv, UNCHANGED chanVars
    PROVE  CInv'
BY DEF chanVars, CInv, ChanTypeOK, TcpBufBounded

LEMMA CInvStep == CInv /\ [Next]_vars => CInv'
<1> SUFFICES ASSUME CInv, [Next]_vars PROVE CInv'
  OBVIOUS
<1>1. CASE PeerSend \/ PeerSendText
  BY <1>1, PeerSendCInv
<1>2. ASSUME NEW k \in 1..Burst, WsMessages(k) PROVE CInv'
  BY <1>2, WsMessagesCInv
<1>3. CASE TcpFlush
  BY <1>3, TcpFlushCInv
<1>4. CASE TcpDrain
  BY <1>4, TcpDrainCInv
<1>5. CASE ExtSend \/ TcpData \/ WsFlush \/ WsSocketDrain
  BY <1>5, StreamSideCInv DEF ExtSend, TcpData, WsFlush, WsSocketDrain
<1>6. CASE UNCHANGED vars
  BY <1>6, StreamSideCInv DEF vars
<1>7. QED BY <1>1, <1>2, <1>3, <1>4, <1>5, <1>6 DEF Next

\* The 'message' handler pauses the websocket when tcpconn refuses a write
\* and only tcpconn's 'drain' resumes it, so for every mark, burst and
\* stream tcpconn's write buffer never holds more than HWM + Burst - 1
\* chunks: the frames of one socket read all reach the handler.
THEOREM TcpBufBoundedHolds == Spec => []TcpBufBounded
<1>1. CInv => TcpBufBounded
  BY DEF CInv
<1>2. QED BY <1>1, CInvInit, CInvStep, PTL DEF Spec

\* Every reachable state of the bridged pair is well typed: in particular
\* the 'message' handler writes only binary chunks to tcpconn.
THEOREM BridgeTypeCorrect == Spec => []TypeOK
<1>1. CInv /\ WInv => TypeOK
  BY DEF CInv, ChanTypeOK, WInv, StreamTypeOK, TypeOK
<1>2. QED BY <1>1, CInvInit, CInvStep, WInvInit, WInvStep, PTL DEF Spec

=============================================================================
