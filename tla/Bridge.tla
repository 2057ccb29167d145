------------------------------- MODULE Bridge -------------------------------
(***************************************************************************)
(* One bridged pair of lib/bindSockets_reverse.js: a websocket (wsconn)    *)
(* joined to a TCP socket (tcpconn), bytes relayed both ways with          *)
(* pause/resume backpressure.  A chunk is abstracted to its position in    *)
(* its direction's stream (binary chunk n is the number n) or to Text, a   *)
(* utf8 message.  Buffers count chunks; HWM is the high-water mark of both *)
(* the TCP socket's and the websocket's write buffer.                      *)
(*                                                                         *)
(* Channel -> stream: the peer's frames reach wsconn while wsconn.socket   *)
(* is reading; one socket read carries up to Burst frames and the          *)
(* websocket library emits a 'message' for each of them in that same      *)
(* callback, so pausing the socket does not stop the frames of that read.  *)
(* Stream -> channel: each TCP 'data' event is sent with sendBytes; the    *)
(* websocket library reports 'overflow' when its outgoing buffer reaches   *)
(* HWM, and wsconn.socket emits 'drain' once that buffer has been flushed. *)
(* The bridge's close handlers are part of ReverseTunnel's CloseCascade.   *)
(***************************************************************************)
EXTENDS Naturals, Sequences

CONSTANTS
    HWM,        \* write-buffer high-water mark, in chunks
    Burst,      \* most websocket frames one socket read carries
    NChunks,    \* binary chunks sent in each direction
    NText       \* utf8 messages the peer sends on the data channel

ASSUME BridgeAssumption ==
    /\ HWM \in Nat \ {0}
    /\ Burst \in Nat \ {0}
    /\ NChunks \in Nat
    /\ NText \in Nat

\* A utf8 message; binary chunks are 1..NChunks.
Text == 0
IsBinary(c) == c # Text
Chunk == 1..NChunks

\* The binary frames among the first k of s, in order: the ones the
\* 'message' handler writes to tcpconn (SelectSeq(SubSeq(s, 1, k), IsBinary),
\* written as a recursive function so that it can be reasoned about).
BinaryFrames(s, k) ==
    LET f[i \in 0..k] == IF i = 0 THEN << >>
                         ELSE IF IsBinary(s[i]) THEN Append(f[i - 1], s[i])
                         ELSE f[i - 1]
    IN  f[k]

VARIABLES
    \* channel -> stream
    wsIn,         \* frames the peer sent that wsconn has not read
    wsReading,    \* wsconn.socket is not paused
    paused,       \* wsconn.__paused
    tcpBuf,       \* tcpconn's write buffer
    tcpNeedDrain, \* a tcpconn.write returned false since the last 'drain'
    tcpDrainEv,   \* tcpconn's 'drain' event is queued
    tcpOut,       \* chunks the TCP peer has received
    sentA,        \* binary chunks the websocket peer has sent
    sentText,     \* utf8 messages the websocket peer has sent
    \* stream -> channel
    tcpIn,        \* chunks the TCP peer sent that tcpconn has not read
    tcpReading,   \* tcpconn is not paused
    wsBuf,        \* wsconn's outgoing buffer
    wsNeedDrain,  \* wsconn reported 'overflow' since the last socket 'drain'
    wsDrainEv,    \* wsconn.socket's 'drain' event is queued
    wsOut,        \* chunks the websocket peer has received
    sentB         \* chunks the TCP peer has sent

chanVars == <<wsIn, wsReading, paused, tcpBuf, tcpNeedDrain, tcpDrainEv,
              tcpOut, sentA, sentText>>
streamVars == <<tcpIn, tcpReading, wsBuf, wsNeedDrain, wsDrainEv, wsOut, sentB>>
vars == <<chanVars, streamVars>>

TypeOK ==
    /\ wsIn \in Seq(Chunk \cup {Text})
    /\ tcpBuf \in Seq(Chunk) /\ tcpOut \in Seq(Chunk)
    /\ tcpIn \in Seq(Chunk) /\ wsBuf \in Seq(Chunk) /\ wsOut \in Seq(Chunk)
    /\ {wsReading, paused, tcpNeedDrain, tcpDrainEv,
        tcpReading, wsNeedDrain, wsDrainEv} \subseteq BOOLEAN
    /\ sentA \in 0..NChunks /\ sentB \in 0..NChunks /\ sentText \in 0..NText

\* bindSockets has run and both sockets were resumed (the server resumes
\* tcpConn, the client resumes wsConn.socket, right after bindSockets).
Init ==
    /\ wsIn = <<>> /\ wsReading = TRUE /\ paused = FALSE
    /\ tcpBuf = <<>> /\ tcpNeedDrain = FALSE /\ tcpDrainEv = FALSE
    /\ tcpOut = <<>> /\ sentA = 0 /\ sentText = 0
    /\ tcpIn = <<>> /\ tcpReading = TRUE
    /\ wsBuf = <<>> /\ wsNeedDrain = FALSE /\ wsDrainEv = FALSE
    /\ wsOut = <<>> /\ sentB = 0

-----------------------------------------------------------------------------
(* Channel -> stream *)

\* The websocket peer sends the next binary chunk.
PeerSend ==
    /\ sentA < NChunks
    /\ wsIn' = Append(wsIn, sentA + 1)
    /\ sentA' = sentA + 1
    /\ UNCHANGED <<wsReading, paused, tcpBuf, tcpNeedDrain, tcpDrainEv,
                   tcpOut, sentText, streamVars>>

\* The websocket peer sends a utf8 message.
PeerSendText ==
    /\ sentText < NText
    /\ wsIn' = Append(wsIn, Text)
    /\ sentText' = sentText + 1
    /\ UNCHANGED <<wsReading, paused, tcpBuf, tcpNeedDrain, tcpDrainEv,
                   tcpOut, sentA, streamVars>>

\* Mutation: utf8 messages are written to the TCP socket too.
WsMessagesForwardText(k) ==
    LET bin == SubSeq(wsIn, 1, k)
    IN  /\ wsReading /\ k <= Len(wsIn)
        /\ wsIn' = SubSeq(wsIn, k + 1, Len(wsIn))
        /\ tcpBuf' = tcpBuf \o bin
        /\ \/ Len(tcpBuf') >= HWM
              /\ wsReading' = FALSE /\ paused' = TRUE /\ tcpNeedDrain' = TRUE
           \/ Len(tcpBuf') < HWM
              /\ wsReading' = TRUE /\ paused' = FALSE
              /\ UNCHANGED tcpNeedDrain
        /\ UNCHANGED <<tcpDrainEv, tcpOut, sentA, sentText, streamVars>>

\* Mutation: a full TCP write buffer does not pause the websocket.
WsMessagesNoPause(k) ==
    LET bin == BinaryFrames(wsIn, k)
    IN  /\ wsReading /\ k <= Len(wsIn)
        /\ wsIn' = SubSeq(wsIn, k + 1, Len(wsIn))
        /\ tcpBuf' = tcpBuf \o bin
        /\ tcpNeedDrain' = (tcpNeedDrain \/ (bin # <<>> /\ Len(tcpBuf') >= HWM))
        /\ UNCHANGED <<wsReading, paused, tcpDrainEv, tcpOut, sentA, sentText,
                       streamVars>>

(* One read of wsconn.socket delivering k frames, and the 'message'       *)
(* handler run on each: a utf8 message is dropped (logged); a binary one  *)
(* is written to tcpconn.  The writes only lengthen the buffer, so the     *)
(* last write decides: if it returned false the socket is paused and       *)
(* __paused set; if it returned true a paused socket is resumed (the       *)
(* socket is reading, so only __paused can change).                       *)
WsMessages(k) ==
    LET bin == BinaryFrames(wsIn, k)
    IN  /\ wsReading /\ k <= Len(wsIn)
        /\ wsIn' = SubSeq(wsIn, k + 1, Len(wsIn))
        /\ tcpBuf' = tcpBuf \o bin
        /\ \/ bin = <<>>
              /\ UNCHANGED <<wsReading, paused, tcpNeedDrain>>
           \/ bin # <<>> /\ Len(tcpBuf') >= HWM
              /\ wsReading' = FALSE /\ paused' = TRUE /\ tcpNeedDrain' = TRUE
           \/ bin # <<>> /\ Len(tcpBuf') < HWM
              /\ wsReading' = TRUE /\ paused' = FALSE
              /\ UNCHANGED tcpNeedDrain
        /\ UNCHANGED <<tcpDrainEv, tcpOut, sentA, sentText, streamVars>>

\* The TCP peer reads a chunk; once a buffer that refused a write is empty,
\* tcpconn queues 'drain'.
TcpFlush ==
    /\ tcpBuf # <<>>
    /\ tcpOut' = Append(tcpOut, Head(tcpBuf))
    /\ tcpBuf' = Tail(tcpBuf)
    /\ tcpDrainEv' = (tcpDrainEv \/ (tcpNeedDrain /\ tcpBuf' = <<>>))
    /\ tcpNeedDrain' = (tcpNeedDrain /\ tcpBuf' # <<>>)
    /\ UNCHANGED <<wsIn, wsReading, paused, sentA, sentText, streamVars>>

\* Mutation: the 'drain' handler does not resume the websocket.
TcpDrainNoResume ==
    /\ tcpDrainEv
    /\ tcpDrainEv' = FALSE
    /\ paused' = FALSE
    /\ UNCHANGED <<wsIn, wsReading, tcpBuf, tcpNeedDrain, tcpOut, sentA,
                   sentText, streamVars>>

\* tcpconn 'drain': resume wsconn.socket and clear __paused.
TcpDrain ==
    /\ tcpDrainEv
    /\ tcpDrainEv' = FALSE
    /\ wsReading' = TRUE /\ paused' = FALSE
    /\ UNCHANGED <<wsIn, tcpBuf, tcpNeedDrain, tcpOut, sentA, sentText,
                   streamVars>>

-----------------------------------------------------------------------------
(* Stream -> channel *)

\* The TCP peer sends the next chunk.
ExtSend ==
    /\ sentB < NChunks
    /\ tcpIn' = Append(tcpIn, sentB + 1)
    /\ sentB' = sentB + 1
    /\ UNCHANGED <<tcpReading, wsBuf, wsNeedDrain, wsDrainEv, wsOut, chanVars>>

\* Mutation: the bridge has no 'overflow' handler.
TcpDataNoOverflow ==
    /\ tcpReading /\ tcpIn # <<>>
    /\ wsBuf' = Append(wsBuf, Head(tcpIn))
    /\ tcpIn' = Tail(tcpIn)
    /\ wsNeedDrain' = (wsNeedDrain \/ Len(wsBuf') >= HWM)
    /\ UNCHANGED <<tcpReading, wsDrainEv, wsOut, sentB, chanVars>>

(* tcpconn 'data': wsconn.sendBytes.  When that fills wsconn's buffer the  *)
(* library emits 'overflow' inside the call and its handler pauses         *)
(* tcpconn.                                                                *)
TcpData ==
    /\ tcpReading /\ tcpIn # <<>>
    /\ wsBuf' = Append(wsBuf, Head(tcpIn))
    /\ tcpIn' = Tail(tcpIn)
    /\ \/ Len(wsBuf') >= HWM /\ tcpReading' = FALSE /\ wsNeedDrain' = TRUE
       \/ Len(wsBuf') < HWM /\ UNCHANGED <<tcpReading, wsNeedDrain>>
    /\ UNCHANGED <<wsDrainEv, wsOut, sentB, chanVars>>

\* The websocket peer reads a chunk; once an overflowed buffer is empty,
\* wsconn.socket queues 'drain'.
WsFlush ==
    /\ wsBuf # <<>>
    /\ wsOut' = Append(wsOut, Head(wsBuf))
    /\ wsBuf' = Tail(wsBuf)
    /\ wsDrainEv' = (wsDrainEv \/ (wsNeedDrain /\ wsBuf' = <<>>))
    /\ wsNeedDrain' = (wsNeedDrain /\ wsBuf' # <<>>)
    /\ UNCHANGED <<tcpIn, tcpReading, sentB, chanVars>>

\* Mutation: the socket 'drain' handler does not resume tcpconn.
WsSocketDrainNoResume ==
    /\ wsDrainEv
    /\ wsDrainEv' = FALSE
    /\ UNCHANGED <<tcpIn, tcpReading, wsBuf, wsNeedDrain, wsOut, sentB,
                   chanVars>>

\* wsconn.socket 'drain': resume tcpconn.
WsSocketDrain ==
    /\ wsDrainEv
    /\ wsDrainEv' = FALSE
    /\ tcpReading' = TRUE
    /\ UNCHANGED <<tcpIn, wsBuf, wsNeedDrain, wsOut, sentB, chanVars>>

-----------------------------------------------------------------------------
Next ==
    \/ PeerSend \/ PeerSendText \/ \E k \in 1..Burst : WsMessages(k)
    \/ TcpFlush \/ TcpDrain
    \/ ExtSend \/ TcpData \/ WsFlush \/ WsSocketDrain

(* Node runs every queued callback and every readable socket's read, and   *)
(* the two peers keep reading what is sent to them (the sockets stay       *)
(* open: closing is ReverseTunnel's business).  Sending is not forced.     *)
Fairness ==
    /\ WF_vars(\E k \in 1..Burst : WsMessages(k))
    /\ WF_vars(TcpFlush) /\ WF_vars(TcpDrain)
    /\ WF_vars(TcpData) /\ WF_vars(WsFlush) /\ WF_vars(WsSocketDrain)

Spec == Init /\ [][Next]_vars
FairSpec == Spec /\ Fairness

-----------------------------------------------------------------------------
(* Properties *)

\* Spec 8, backpressure bound: a full TCP write buffer stops the websocket
\* from being read, so the buffer exceeds the mark by at most the other
\* frames of the read that filled it ('message' handler, write() == false).
TcpBufBounded == Len(tcpBuf) <= HWM + Burst - 1

\* Spec 8, backpressure bound: the 'overflow' handler stops reading the TCP
\* socket once the websocket's outgoing buffer is full.
WsBufBounded == Len(wsBuf) <= HWM

\* Spec 8, byte-exact proxying channel -> stream: every binary chunk the
\* websocket peer sends reaches the TCP peer, in order, and no utf8 message
\* does, however often the 'message' handler paused the websocket.
ForwardedToStream ==
    \A n \in Chunk : sentA >= n ~> (Len(tcpOut) >= n /\ tcpOut[n] = n)

\* Spec 8, byte-exact proxying stream -> channel: every chunk the TCP peer
\* sends reaches the websocket peer, in order, however often 'overflow'
\* paused the TCP socket.
ForwardedToChannel ==
    \A n \in Chunk : sentB >= n ~> (Len(wsOut) >= n /\ wsOut[n] = n)

=============================================================================
