------------------------ MODULE ReverseTunnelProofs ------------------------
(***************************************************************************)
(* Proofs about ReverseTunnel for every value of the constants: the type  *)
(* invariant, ServerCascade (an accepted data channel that has closed      *)
(* leaves its server TCP connection closed), NoMisroute and               *)
(* PausedUntilBound, and the refinement of TunnelPorts.                   *)
(***************************************************************************)
EXTENDS ReverseTunnel, TLAPS

USE ConstAssumption

-----------------------------------------------------------------------------
(* Type correctness *)

\* Closing a websocket yields a websocket state.
LEMMA WsClosedType == \A w \in WsState : WsClosed(w) \in WsState
BY DEF WsClosed, WsState

\* The close cascade keeps the variables well typed; X, K0 and T0 may be
\* any sets (closing a socket that is not there changes nothing).
LEMMA CloseCascadeType ==
    ASSUME TypeOK, NEW X, NEW K0, NEW T0,
           CloseCascade(X, K0, T0),
           UNCHANGED <<serverUp, clientUp, ctrl, listener>>
    PROVE  TypeOK'
<1>1. connSt' \in [Conn -> ConnState]
  BY DEF CloseCascade, TypeOK, ConnState
<1>2. ws' \in [Chan -> WsState]
  BY WsClosedType DEF CloseCascade, TypeOK
<1>3. tgt' \in [Chan -> TgtState]
  BY DEF CloseCascade, TypeOK, TgtState
<1>4. QED BY <1>1, <1>2, <1>3 DEF CloseCascade, TypeOK

\* A crash of the server keeps every variable well typed.
LEMMA ServerCrashType ==
    ASSUME TypeOK, NEW c0, ServerCrash(c0)
    PROVE  TypeOK'
<1>1. /\ connSt' \in [Conn -> ConnState]
      /\ ws' \in [Chan -> WsState]
      /\ tgt' \in [Chan -> TgtState]
      /\ UNCHANGED <<owner, connId, chId, acc, bnd>>
  BY WsClosedType DEF ServerCrash, CloseCascade, TypeOK, ConnState, TgtState
<1>2. QED BY <1>1 DEF ServerCrash, TypeOK

\* A crash of a relay client (or of nobody) keeps every variable well typed.
LEMMA ClientCrashType ==
    ASSUME TypeOK, NEW c, ClientCrash(c)
    PROVE  TypeOK'
<1>1. /\ connSt' \in [Conn -> ConnState]
      /\ ws' \in [Chan -> WsState]
      /\ tgt' \in [Chan -> TgtState]
      /\ UNCHANGED <<owner, connId, chId, acc, bnd>>
  BY WsClosedType DEF ClientCrash, CloseCascade, TypeOK, ConnState, TgtState
<1>2. QED BY <1>1 DEF ClientCrash, TypeOK

\* Every step of Next keeps the variables well typed.
LEMMA NextType == TypeOK /\ [Next]_vars => TypeOK'
<1> SUFFICES ASSUME TypeOK, [Next]_vars PROVE TypeOK'
  OBVIOUS
<1>1. ASSUME NEW c \in Clients, ClientStart(c) PROVE TypeOK'
  BY <1>1 DEF ClientStart, TypeOK, connVars, chVars
<1>2. ASSUME NEW c \in Clients, ListenerConflict(c) PROVE TypeOK'
  BY <1>2, ServerCrashType DEF ListenerConflict
<1>3. ASSUME NEW c \in Clients, NEW i \in Ids, ServerAccept(c, i) PROVE TypeOK'
  <2>1. PICK k \in Conn :
          /\ connSt' = [connSt EXCEPT ![k] = "paused"]
          /\ owner' = [owner EXCEPT ![k] = c]
          /\ connId' = [connId EXCEPT ![k] = i]
          /\ chId' = [chId EXCEPT ![k] = i]
          /\ ws' = [ws EXCEPT ![k] = IF ctrl[c] = "open" THEN "nc" ELSE "lost"]
    BY <1>3 DEF ServerAccept
  <2>2. k \in Chan /\ i \in 0..IdRange
    BY DEF Chan, Ids
  <2>3. QED BY <1>3, <2>1, <2>2 DEF ServerAccept, TypeOK, ConnState, WsState
<1>4. ASSUME NEW x \in Chan, DataMatchNone(x) PROVE TypeOK'
  BY <1>4 DEF DataMatchNone, TypeOK, WsState, connVars
<1>5. ASSUME NEW x \in Chan, DataMatchOne(x) PROVE TypeOK'
  <2>1. PICK k \in Matching(chId[x]) : Bind(x, k)
    BY <1>5 DEF DataMatchOne
  <2>2. k \in Conn
    BY DEF Matching
  <2>3. QED BY <1>5, <2>1, <2>2 DEF Bind, TypeOK, WsState, ConnState, Conn
<1>6. ASSUME NEW x \in Chan, DataMatchMany(x) PROVE TypeOK'
  BY <1>6, ServerCrashType DEF DataMatchMany
<1>7. ASSUME NEW c \in Clients, ClientStartFailed(c) PROVE TypeOK'
  BY <1>7 DEF ClientStartFailed, TypeOK, connVars, chVars
<1>8. ASSUME NEW x \in Chan, ClientRecvNC(x) PROVE TypeOK'
  BY <1>8 DEF ClientRecvNC, TypeOK, WsState, connVars
<1>9. ASSUME NEW x \in Chan, ClientDataConnected(x) PROVE TypeOK'
  BY <1>9 DEF ClientDataConnected, TypeOK, TgtState, connVars
<1>10. ASSUME NEW x \in Chan, ClientTargetConnect(x) PROVE TypeOK'
  BY <1>10 DEF ClientTargetConnect, TypeOK, TgtState, connVars
<1>11. ASSUME NEW x \in Chan, ClientTargetRefused(x) PROVE TypeOK'
  BY <1>11, ClientCrashType DEF ClientTargetRefused
<1>12. ASSUME NEW x \in StrayCh, NEW i \in Ids, StrayRequest(x, i) PROVE TypeOK'
  BY <1>12 DEF StrayRequest, TypeOK, WsState, Ids, Chan, connVars
<1>13. ASSUME NEW k \in Conn, ExternalClose(k) PROVE TypeOK'
  BY <1>13, CloseCascadeType DEF ExternalClose, TypeOK
<1>14. ASSUME NEW x \in Chan, TargetClose(x) PROVE TypeOK'
  BY <1>14, CloseCascadeType DEF TargetClose, TypeOK
<1>15. ASSUME NEW x \in Chan, DataWsDrop(x) PROVE TypeOK'
  BY <1>15, CloseCascadeType DEF DataWsDrop, TypeOK
<1>16. ASSUME NEW c \in Clients, CtrlDrop(c) PROVE TypeOK'
  BY <1>16 DEF CtrlDrop, TypeOK, WsState, connVars
<1>17. CASE UNCHANGED vars
  BY <1>17 DEF vars, TypeOK, connVars, chVars
<1>18. ASSUME NEW k \in Conn, ExternalReset(k) PROVE TypeOK'
  BY <1>18, ServerCrashType DEF ExternalReset
<1>19. QED
  BY <1>1, <1>2, <1>3, <1>4, <1>5, <1>6, <1>7, <1>8, <1>9, <1>10, <1>11,
     <1>12, <1>13, <1>14, <1>15, <1>16, <1>17, <1>18
     DEF Next, Server, Client, Environment

\* The type invariant holds in every reachable state.
THEOREM TypeCorrect == Spec => []TypeOK
<1>1. Init => TypeOK
  BY DEF Init, TypeOK, ConnState, WsState, TgtState
<1>2. QED BY <1>1, NextType, PTL DEF Spec

-----------------------------------------------------------------------------
(* ServerCascade.  It is not inductive alone: a step could close a         *)
(* channel whose bridge points at a connection slot that is still free, or *)
(* reuse a free slot some accepted channel points at.  The strengthening    *)
(* says that only open or closed channels are accepted, that they point at *)
(* a connection that was accepted, and that a free slot has no channel.    *)

\* A connection slot not yet used has neither an NC message nor a bridge.
FreeInv ==
    \A k \in Conn : connSt[k] = "free" => ws[k] = "none" /\ ~acc[k]

\* An open channel was accepted; an accepted channel is open or closed and
\* its bridge is bound to a connection that was accepted.
AccInv ==
    \A x \in Chan :
        /\ ws[x] = "open" => acc[x]
        /\ acc[x] => /\ ws[x] \in {"open", "closed"}
                     /\ bnd[x] \in Conn
                     /\ connSt[bnd[x]] # "free"

IInv == TypeOK /\ FreeInv /\ AccInv /\ ServerCascade

\* The close cascade preserves the strengthened invariant, provided the
\* connections it closes were accepted and the other variables stay typed.
LEMMA CloseCascadeInv ==
    ASSUME IInv, NEW X, NEW K0, NEW T0,
           \A k \in K0 \cap Conn : connSt[k] # "free",
           CloseCascade(X, K0, T0), TypeOK'
    PROVE  IInv'
<1> DEFINE K == K0 \cup {bnd[x] : x \in {y \in X : ws[y] = "open"}}
           Y == X \cup {y \in Chan : ws[y] = "open" /\ bnd[y] \in K}
<1>1. /\ connSt' = [k \in Conn |-> IF k \in K THEN "closed" ELSE connSt[k]]
      /\ ws' = [y \in Chan |-> IF y \in Y THEN WsClosed(ws[y]) ELSE ws[y]]
      /\ UNCHANGED <<owner, connId, chId, acc, bnd>>
  BY DEF CloseCascade
<1>2. TypeOK'
  OBVIOUS
<1>3. FreeInv'
  <2> SUFFICES ASSUME NEW k \in Conn, connSt'[k] = "free"
               PROVE  ws'[k] = "none" /\ ~acc'[k]
    BY DEF FreeInv
  <2>1. k \notin K /\ connSt[k] = "free"
    BY <1>1
  <2>2. ws[k] = "none" /\ ~acc[k] /\ k \in Chan
    BY <2>1 DEF IInv, FreeInv, Chan
  <2>3. WsClosed("none") = "none"
    BY DEF WsClosed
  <2>4. QED BY <1>1, <2>2, <2>3
<1>4. AccInv'
  BY <1>1 DEF IInv, AccInv, TypeOK, WsClosed
<1>5. ServerCascade'
  <2> SUFFICES ASSUME NEW x \in Chan, acc'[x], ws'[x] = "closed"
               PROVE  connSt'[bnd'[x]] = "closed"
    BY DEF ServerCascade
  <2>1. bnd[x] \in Conn /\ ws[x] \in {"open", "closed"}
    BY <1>1 DEF IInv, AccInv
  <2>2. CASE ws[x] = "closed"
    BY <1>1, <2>1, <2>2 DEF IInv, ServerCascade
  <2>3. CASE ws[x] = "open"
    <3>1. x \in Y
      BY <1>1, <2>3 DEF WsClosed
    <3>2. bnd[x] \in K
      BY <3>1, <2>3
    <3>3. QED BY <1>1, <2>1, <3>2
  <2>4. QED BY <2>1, <2>2, <2>3
<1>6. QED BY <1>2, <1>3, <1>4, <1>5 DEF IInv

\* A crash of the server preserves the strengthened invariant.
LEMMA ServerCrashInv ==
    ASSUME IInv, NEW c0, ServerCrash(c0)
    PROVE  IInv'
<1>1. /\ CloseCascade(Chan, {k \in Conn : connSt[k] # "free"}, {})
      /\ \A k \in {j \in Conn : connSt[j] # "free"} \cap Conn : connSt[k] # "free"
  BY DEF ServerCrash
<1>2. /\ connSt' = [k \in Conn |->
                      IF k \in {j \in Conn : connSt[j] # "free"}
                                \cup {bnd[x] : x \in {y \in Chan : ws[y] = "open"}}
                      THEN "closed" ELSE connSt[k]]
      /\ ws' = [y \in Chan |-> WsClosed(ws[y])]
      /\ UNCHANGED <<owner, connId, chId, acc, bnd>>
  BY <1>1 DEF CloseCascade
<1>3. TypeOK'
  BY ServerCrashType DEF IInv
<1>4. FreeInv'
  <2> SUFFICES ASSUME NEW k \in Conn, connSt'[k] = "free"
               PROVE  ws'[k] = "none" /\ ~acc'[k]
    BY DEF FreeInv
  <2>1. connSt[k] = "free"
    BY <1>2
  <2>2. ws[k] = "none" /\ ~acc[k] /\ k \in Chan
    BY <2>1 DEF IInv, FreeInv, Chan
  <2>3. WsClosed("none") = "none"
    BY DEF WsClosed
  <2>4. QED BY <1>2, <2>2, <2>3
<1>5. AccInv'
  BY <1>2 DEF IInv, AccInv, TypeOK, WsClosed
<1>6. ServerCascade'
  <2> SUFFICES ASSUME NEW x \in Chan, acc'[x]
               PROVE  connSt'[bnd'[x]] = "closed"
    BY DEF ServerCascade
  <2>1. bnd[x] \in Conn /\ connSt[bnd[x]] # "free"
    BY <1>2 DEF IInv, AccInv
  <2>2. QED BY <1>2, <2>1
<1>7. QED BY <1>3, <1>4, <1>5, <1>6 DEF IInv

\* A free connection slot is not the target of any bridge.
LEMMA FreeNotBound ==
    ASSUME IInv, NEW k \in Conn, connSt[k] = "free", NEW y \in Chan, acc[y]
    PROVE  bnd[y] # k
BY DEF IInv, AccInv

\* Every step of Next preserves the strengthened invariant.
LEMMA NextIInv == IInv /\ [Next]_vars => IInv'
<1> SUFFICES ASSUME IInv, [Next]_vars PROVE IInv'
  OBVIOUS
<1>0. TypeOK /\ TypeOK'
  BY NextType DEF IInv
<1>1. ASSUME NEW c \in Clients, ClientStart(c) PROVE IInv'
  BY <1>1, <1>0 DEF ClientStart, IInv, FreeInv, AccInv, ServerCascade, connVars, chVars
<1>2. ASSUME NEW c \in Clients, ListenerConflict(c) PROVE IInv'
  BY <1>2, ServerCrashInv DEF ListenerConflict
<1>3. ASSUME NEW c \in Clients, NEW i \in Ids, ServerAccept(c, i) PROVE IInv'
  <2>1. PICK k \in Conn :
          /\ IsNextConn(k)
          /\ connSt' = [connSt EXCEPT ![k] = "paused"]
          /\ ws' = [ws EXCEPT ![k] = IF ctrl[c] = "open" THEN "nc" ELSE "lost"]
          /\ UNCHANGED <<acc, bnd>>
    BY <1>3 DEF ServerAccept
  <2>2. connSt[k] = "free" /\ ~acc[k] /\ k \in Chan
    BY <2>1 DEF IsNextConn, IInv, FreeInv, Chan
  <2>3. \A y \in Chan : acc[y] => bnd[y] # k
    BY <2>2, FreeNotBound
  <2>4. FreeInv'
    BY <2>1, <1>0 DEF IInv, FreeInv, TypeOK
  <2>5. AccInv'
    BY <2>1, <2>2, <2>3, <1>0 DEF IInv, AccInv, TypeOK
  <2>6. ServerCascade'
    BY <2>1, <2>2, <2>3, <1>0 DEF IInv, ServerCascade, TypeOK
  <2>7. QED BY <1>0, <2>4, <2>5, <2>6 DEF IInv
<1>4. ASSUME NEW x \in Chan, DataMatchNone(x) PROVE IInv'
  BY <1>4, <1>0 DEF DataMatchNone, IInv, FreeInv, AccInv, ServerCascade, TypeOK,
                    connVars
<1>5. ASSUME NEW x \in Chan, DataMatchOne(x) PROVE IInv'
  <2>1. PICK k \in Matching(chId[x]) : Bind(x, k)
    BY <1>5 DEF DataMatchOne
  <2>2. k \in Conn /\ connSt[k] # "free"
    BY DEF Matching
  <2>3. ws[x] = "connecting"
    BY <1>5 DEF DataMatchOne
  <2>4. x \in Conn => connSt[x] # "free"
    BY <2>3 DEF IInv, FreeInv
  <2>5. FreeInv'
    BY <2>1, <2>2, <2>4, <1>0 DEF Bind, IInv, FreeInv, TypeOK
  <2>6. AccInv'
    BY <2>1, <2>2, <1>0 DEF Bind, IInv, AccInv, TypeOK
  <2>7. ServerCascade'
    BY <2>1, <2>2, <1>0 DEF Bind, IInv, ServerCascade, TypeOK
  <2>8. QED BY <1>0, <2>5, <2>6, <2>7 DEF IInv
<1>6. ASSUME NEW x \in Chan, DataMatchMany(x) PROVE IInv'
  BY <1>6, ServerCrashInv DEF DataMatchMany
<1>7. ASSUME NEW c \in Clients, ClientStartFailed(c) PROVE IInv'
  BY <1>7, <1>0 DEF ClientStartFailed, IInv, FreeInv, AccInv, ServerCascade,
              connVars, chVars
<1>8. ASSUME NEW x \in Chan, ClientRecvNC(x) PROVE IInv'
  <2>1. ~acc[x] /\ (x \in Conn => connSt[x] # "free")
    BY <1>8 DEF ClientRecvNC, IInv, AccInv, FreeInv
  <2>2. QED
    BY <1>8, <1>0, <2>1 DEF ClientRecvNC, IInv, FreeInv, AccInv, ServerCascade,
                            TypeOK, connVars
<1>9. ASSUME NEW x \in Chan, ClientDataConnected(x) PROVE IInv'
  BY <1>9, <1>0 DEF ClientDataConnected, IInv, FreeInv, AccInv, ServerCascade,
              connVars
<1>10. ASSUME NEW x \in Chan, ClientTargetConnect(x) PROVE IInv'
  BY <1>10, <1>0 DEF ClientTargetConnect, IInv, FreeInv, AccInv, ServerCascade,
               connVars
<1>11. ASSUME NEW x \in Chan, ClientTargetRefused(x) PROVE IInv'
  <2>1. CloseCascade({y \in Conn : owner[y] = OwnerOf(x)}, {},
                     {y \in Conn : owner[y] = OwnerOf(x)})
    BY <1>11 DEF ClientTargetRefused, ClientCrash
  <2>2. QED BY <2>1, <1>0, CloseCascadeInv
<1>12. ASSUME NEW x \in StrayCh, NEW i \in Ids, StrayRequest(x, i) PROVE IInv'
  <2>1. x \notin Conn /\ x \in Chan /\ ~acc[x]
    BY <1>12 DEF StrayRequest, StrayCh, Conn, Chan, IInv, AccInv
  <2>2. QED
    BY <1>12, <1>0, <2>1 DEF StrayRequest, IInv, FreeInv, AccInv, ServerCascade,
                             TypeOK, connVars
<1>13. ASSUME NEW k \in Conn, ExternalClose(k) PROVE IInv'
  BY <1>13, <1>0, CloseCascadeInv DEF ExternalClose
<1>14. ASSUME NEW x \in Chan, TargetClose(x) PROVE IInv'
  BY <1>14, <1>0, CloseCascadeInv DEF TargetClose
<1>15. ASSUME NEW x \in Chan, DataWsDrop(x) PROVE IInv'
  BY <1>15, <1>0, CloseCascadeInv DEF DataWsDrop
<1>16. ASSUME NEW c \in Clients, CtrlDrop(c) PROVE IInv'
  <2>1. \A y \in Chan : ws[y] = "nc" => ~acc[y] /\ (y \in Conn => connSt[y] # "free")
    BY DEF IInv, AccInv, FreeInv
  <2>2. \A y \in Chan : ws'[y] = ws[y] \/ (ws[y] = "nc" /\ ws'[y] = "lost")
    BY <1>16 DEF CtrlDrop
  <2>3. UNCHANGED <<connSt, acc, bnd>>
    BY <1>16 DEF CtrlDrop, connVars
  <2>4. FreeInv'
    BY <2>1, <2>2, <2>3 DEF IInv, FreeInv, Chan
  <2>5. AccInv'
    BY <2>1, <2>2, <2>3 DEF IInv, AccInv
  <2>6. ServerCascade'
    BY <2>1, <2>2, <2>3 DEF IInv, ServerCascade
  <2>7. QED BY <1>0, <2>4, <2>5, <2>6 DEF IInv
<1>17. CASE UNCHANGED vars
  BY <1>17 DEF vars, IInv, TypeOK, FreeInv, AccInv, ServerCascade, connVars, chVars
<1>18. ASSUME NEW k \in Conn, ExternalReset(k) PROVE IInv'
  BY <1>18, ServerCrashInv DEF ExternalReset
<1>19. QED
  BY <1>1, <1>2, <1>3, <1>4, <1>5, <1>6, <1>7, <1>8, <1>9, <1>10, <1>11,
     <1>12, <1>13, <1>14, <1>15, <1>16, <1>17, <1>18
     DEF Next, Server, Client, Environment

\* Whatever closes an accepted data websocket (the external client, the
\* target, a network failure, a crash of either process), the bridge's
\* 'close' handler has closed the server TCP connection it is bound to.
THEOREM ServerCascadeHolds == Spec => []ServerCascade
<1>1. Init => IInv
  <2> SUFFICES ASSUME Init PROVE IInv
    OBVIOUS
  <2>1. TypeOK
    BY DEF Init, TypeOK, ConnState, WsState, TgtState
  <2>2. FreeInv /\ AccInv /\ ServerCascade
    BY DEF Init, FreeInv, AccInv, ServerCascade, Chan
  <2>3. QED BY <2>1, <2>2 DEF IInv
<1>2. IInv => ServerCascade
  BY DEF IInv
<1>3. QED BY <1>1, <1>2, NextIInv, PTL DEF Spec

-----------------------------------------------------------------------------
(* Refinement: the relay server implements the abstract port registry.    *)

\* The clients that have registered, as TunnelPorts sees them.
RegSet == {c \in Clients : ctrl[c] # "none"}

\* A step that keeps the server, the listeners and the registered clients
\* is a stutter of TunnelPorts.
LEMMA PortsStutter ==
    ASSUME UNCHANGED <<serverUp, listener>>, RegSet' = RegSet
    PROVE  [TP!TPNext]_TP!tpVars
BY DEF TP!tpVars, RegSet

\* A step that leaves ctrl, listener and serverUp alone is a stutter.
LEMMA PortsQuiet ==
    ASSUME UNCHANGED <<serverUp, listener, ctrl>>
    PROVE  [TP!TPNext]_TP!tpVars
BY PortsStutter DEF RegSet

\* A crash of the server caused by client c (or by nobody) is a conflict of
\* c (or a plain crash) of TunnelPorts.
LEMMA ServerCrashPorts ==
    ASSUME TypeOK, NEW c0, ServerCrash(c0), serverUp
    PROVE  /\ c0 \in Clients => RegSet' = RegSet \cup {c0}
           /\ c0 \notin Clients => RegSet' = RegSet
           /\ serverUp' = FALSE
           /\ listener' = [q \in Ports |-> NoClient]
BY DEF ServerCrash, RegSet, TypeOK

\* Every step of ReverseTunnel is a step or a stutter of TunnelPorts.
LEMMA NextPorts == TypeOK /\ [Next]_vars => [TP!TPNext]_TP!tpVars
<1> SUFFICES ASSUME TypeOK, [Next]_vars PROVE [TP!TPNext]_TP!tpVars
  OBVIOUS
<1>1. ASSUME NEW c \in Clients, ClientStart(c) PROVE [TP!TPNext]_TP!tpVars
  <2>1. /\ ReqPort[c] \in Ports
        /\ c \notin RegSet
        /\ RegSet' = RegSet \cup {c}
    BY <1>1 DEF ClientStart, RegSet, TypeOK
  <2>2. TP!Register(c, ReqPort[c])
    BY <1>1, <2>1 DEF ClientStart, TP!Register, RegSet
  <2>3. QED BY <2>1, <2>2 DEF TP!TPNext
<1>2. ASSUME NEW c \in Clients, ListenerConflict(c) PROVE [TP!TPNext]_TP!tpVars
  <2>1. /\ ReqPort[c] \in Ports
        /\ c \notin RegSet
        /\ RegSet' = RegSet \cup {c}
        /\ serverUp' = FALSE
        /\ listener' = [q \in Ports |-> NoClient]
    BY <1>2, ServerCrashPorts DEF ListenerConflict, RegSet, TypeOK
  <2>2. TP!Conflict(c, ReqPort[c])
    BY <1>2, <2>1 DEF ListenerConflict, TP!Conflict, RegSet
  <2>3. QED BY <2>1, <2>2 DEF TP!TPNext
<1>3. ASSUME NEW x \in Chan, DataMatchMany(x) PROVE [TP!TPNext]_TP!tpVars
  <2>1. /\ RegSet' = RegSet
        /\ serverUp' = FALSE
        /\ listener' = [q \in Ports |-> NoClient]
    BY <1>3, ServerCrashPorts, ConstAssumption DEF DataMatchMany
  <2>2. TP!Crash
    BY <1>3, <2>1 DEF DataMatchMany, TP!Crash, RegSet
  <2>3. QED BY <2>2 DEF TP!TPNext
<1>4. ASSUME NEW c \in Clients, ClientStartFailed(c) PROVE [TP!TPNext]_TP!tpVars
  <2>1. /\ c \notin RegSet
        /\ RegSet' = RegSet \cup {c}
    BY <1>4 DEF ClientStartFailed, RegSet, TypeOK
  <2>2. TP!GiveUp(c)
    BY <1>4, <2>1 DEF ClientStartFailed, TP!GiveUp, RegSet
  <2>3. QED BY <2>2 DEF TP!TPNext
<1>5. ASSUME NEW x \in Chan, ClientTargetRefused(x) PROVE [TP!TPNext]_TP!tpVars
  <2>1. RegSet' = RegSet
    BY <1>5 DEF ClientTargetRefused, ClientCrash, RegSet, TypeOK
  <2>2. QED BY <1>5, <2>1, PortsStutter DEF ClientTargetRefused, ClientCrash
<1>6. ASSUME NEW c \in Clients, CtrlDrop(c) PROVE [TP!TPNext]_TP!tpVars
  <2>1. RegSet' = RegSet
    BY <1>6 DEF CtrlDrop, RegSet, TypeOK
  <2>2. QED BY <1>6, <2>1, PortsStutter DEF CtrlDrop
<1>7. ASSUME NEW c \in Clients, NEW i \in Ids, ServerAccept(c, i)
      PROVE [TP!TPNext]_TP!tpVars
  BY <1>7, PortsQuiet DEF ServerAccept
<1>8. CASE UNCHANGED <<serverUp, listener, ctrl>>
  BY <1>8, PortsQuiet
<1>9. ASSUME NEW k \in Conn, ExternalReset(k) PROVE [TP!TPNext]_TP!tpVars
  <2>1. /\ RegSet' = RegSet
        /\ serverUp' = FALSE
        /\ listener' = [q \in Ports |-> NoClient]
    BY <1>9, ServerCrashPorts, ConstAssumption DEF ExternalReset
  <2>2. TP!Crash
    BY <1>9, <2>1 DEF ExternalReset, TP!Crash, RegSet
  <2>3. QED BY <2>2 DEF TP!TPNext
<1>10. QED
  BY <1>1, <1>2, <1>3, <1>4, <1>5, <1>6, <1>7, <1>8, <1>9
  DEF Next, Server, Client, Environment, vars, DataMatchNone, DataMatchOne, Bind,
      ClientRecvNC, ClientDataConnected, ClientTargetConnect, StrayRequest,
      ExternalClose, TargetClose, DataWsDrop

\* ReverseTunnel implements TunnelPorts under the mapping TP: the relay
\* server never hands an exposed port to a second control request, and a
\* taken port takes it down rather than being replaced.
THEOREM RefinesTunnelPorts == Spec => TunnelPortsRefined
<1>1. Init => TP!TPInit
  BY DEF Init, TP!TPInit
<1>2. QED BY <1>1, NextPorts, TypeCorrect, PTL DEF Spec, TunnelPortsRefined, TP!TPSpec


-----------------------------------------------------------------------------
(* NoMisroute and PausedUntilBound.  Neither is inductive alone.  The      *)
(* data request answering connection x carries the id drawn for x, and    *)
(* x, once accepted, is never freed, so x's own 'created' listener always  *)
(* matches its request: a single match can only be x.  A connection is     *)
(* resumed only by the bridge bound to it, and no bridge is ever unbound.  *)

\* A connection's channel carries the id drawn for that connection.
IdInv == \A k \in Conn : chId[k] = connId[k]

RInv == IInv /\ IdInv /\ NoMisroute /\ PausedUntilBound

\* The steps that leave the ids, the bridges and the connections' states
\* alone, or only close connections, keep the three conjuncts.
LEMMA RInvFrame ==
    ASSUME RInv, IInv',
           UNCHANGED <<connId, chId, acc, bnd>>,
           \A k \in Conn : connSt'[k] = connSt[k] \/ connSt'[k] = "closed"
    PROVE  RInv'
<1>1. IdInv'
  BY DEF RInv, IdInv
<1>2. NoMisroute'
  BY DEF RInv, NoMisroute
<1>3. PausedUntilBound'
  BY DEF RInv, PausedUntilBound
<1>4. QED BY <1>1, <1>2, <1>3 DEF RInv

\* The server's close cascade only closes connections.
LEMMA CloseCascadeFrame ==
    ASSUME TypeOK, NEW X, NEW K0, NEW T0, CloseCascade(X, K0, T0)
    PROVE  /\ UNCHANGED <<connId, chId, acc, bnd>>
           /\ \A k \in Conn : connSt'[k] = connSt[k] \/ connSt'[k] = "closed"
BY DEF CloseCascade

\* A single listener matching the request of connection x's channel is x.
LEMMA OwnMatch ==
    ASSUME RInv, NEW x \in Conn, ws[x] = "connecting",
           NEW k \in Matching(chId[x]), Matching(chId[x]) = {k}
    PROVE  k = x
<1>1. connSt[x] # "free"
  BY DEF RInv, IInv, FreeInv
<1>2. x \in Matching(chId[x])
  BY <1>1 DEF RInv, IdInv, Matching
<1>3. QED BY <1>2

\* DataMatchOne binds x to x (for x a connection's channel) and resumes
\* only the connection it binds.
LEMMA DataMatchOneRInv ==
    ASSUME RInv, IInv', NEW x \in Chan, DataMatchOne(x)
    PROVE  RInv'
<1>1. PICK k \in Matching(chId[x]) : Matching(chId[x]) = {k} /\ Bind(x, k)
  BY DEF DataMatchOne
<1>2. ws[x] = "connecting" /\ ~acc[x] /\ k \in Conn
  BY DEF DataMatchOne, RInv, IInv, AccInv, Matching
<1>3. /\ acc' = [acc EXCEPT ![x] = TRUE] /\ bnd' = [bnd EXCEPT ![x] = k]
      /\ connSt' = [connSt EXCEPT ![k] = IF @ = "closed" THEN @ ELSE "flowing"]
      /\ UNCHANGED <<connId, chId>>
  BY <1>1 DEF Bind
<1>4. IdInv'
  BY <1>3 DEF RInv, IdInv
<1>5. NoMisroute'
  <2>1. x \in Conn => k = x
    BY <1>1, <1>2, OwnMatch
  <2>2. QED BY <1>3, <2>1 DEF RInv, NoMisroute, IInv, TypeOK
<1>6. PausedUntilBound'
  <2> SUFFICES ASSUME NEW j \in Conn, connSt'[j] = "flowing"
               PROVE  \E y \in Chan : acc'[y] /\ bnd'[y] = j
    BY DEF PausedUntilBound
  <2>1. CASE j = k
    BY <1>3, <2>1 DEF RInv, IInv, TypeOK
  <2>2. CASE j # k
    <3>1. connSt[j] = "flowing"
      BY <1>3, <2>2 DEF RInv, IInv, TypeOK
    <3>2. PICK y \in Chan : acc[y] /\ bnd[y] = j
      BY <3>1 DEF RInv, PausedUntilBound
    <3>3. y # x
      BY <3>2, <1>2
    <3>4. QED BY <1>3, <3>2, <3>3 DEF RInv, IInv, TypeOK
  <2>3. QED BY <2>1, <2>2
<1>7. QED BY <1>4, <1>5, <1>6 DEF RInv

\* Every step of Next preserves RInv.
LEMMA NextRInv == RInv /\ [Next]_vars => RInv'
<1> SUFFICES ASSUME RInv, [Next]_vars PROVE RInv'
  OBVIOUS
<1>0. IInv' /\ TypeOK
  BY NextIInv DEF RInv, IInv
\* Steps that leave connections, ids and bridges alone.
<1>1. ASSUME UNCHANGED <<connVars, chId, acc, bnd>> PROVE RInv'
  BY <1>0, <1>1, RInvFrame DEF connVars
\* Steps that run the close cascade.
<1>2. ASSUME NEW X, NEW K0, NEW T0, CloseCascade(X, K0, T0) PROVE RInv'
  BY <1>0, <1>2, CloseCascadeFrame, RInvFrame
<1>3. ASSUME NEW c \in Clients, NEW i \in Ids, ServerAccept(c, i) PROVE RInv'
  <2>1. PICK k \in Conn :
          /\ connSt' = [connSt EXCEPT ![k] = "paused"]
          /\ connId' = [connId EXCEPT ![k] = i]
          /\ chId' = [chId EXCEPT ![k] = i]
          /\ UNCHANGED <<acc, bnd>>
    BY <1>3 DEF ServerAccept
  <2>2. IdInv'
    BY <2>1, <1>0 DEF RInv, IdInv, TypeOK, Chan
  <2>3. NoMisroute'
    BY <2>1 DEF RInv, NoMisroute
  <2>4. PausedUntilBound'
    BY <2>1, <1>0 DEF RInv, PausedUntilBound, TypeOK
  <2>5. QED BY <1>0, <2>2, <2>3, <2>4 DEF RInv
<1>4. ASSUME NEW x \in StrayCh, NEW i \in Ids, StrayRequest(x, i) PROVE RInv'
  <2>1. x \notin Conn
    BY DEF StrayCh, Conn
  <2>2. /\ chId' = [chId EXCEPT ![x] = i]
        /\ UNCHANGED <<connSt, connId, acc, bnd>>
    BY <1>4 DEF StrayRequest, connVars
  <2>3. IdInv'
    BY <2>1, <2>2, <1>0 DEF RInv, IdInv, TypeOK, Chan
  <2>4. NoMisroute' /\ PausedUntilBound'
    BY <2>2 DEF RInv, NoMisroute, PausedUntilBound
  <2>5. QED BY <1>0, <2>3, <2>4 DEF RInv
<1>5. ASSUME NEW x \in Chan, DataMatchOne(x) PROVE RInv'
  BY <1>0, <1>5, DataMatchOneRInv
<1>6. QED
  BY <1>1, <1>2, <1>3, <1>4, <1>5
  DEF Next, Server, Client, Environment, vars, chVars,
      ClientStart, ListenerConflict, ServerCrash, DataMatchNone, DataMatchMany,
      ClientStartFailed, ClientRecvNC, ClientDataConnected, ClientTargetConnect,
      ClientTargetRefused, ClientCrash, ExternalClose, ExternalReset,
      TargetClose, DataWsDrop, CtrlDrop

\* RInv holds initially: no connection is accepted, no channel bridged.
LEMMA RInvInit == Init => RInv
<1> SUFFICES ASSUME Init PROVE RInv
  OBVIOUS
<1>1. IInv
  BY ServerCascadeHolds DEF Init, IInv, TypeOK, FreeInv, AccInv, ServerCascade,
                           Chan, ConnState, WsState, TgtState
<1>2. IdInv /\ NoMisroute /\ PausedUntilBound
  BY DEF Init, IdInv, NoMisroute, PausedUntilBound, Chan
<1>3. QED BY <1>1, <1>2 DEF RInv

\* The shared, never-removed 'created' listeners of the relay server never
\* bridge a relay client's data channel to another external connection than
\* the one whose NC message it answers: a request that matches a second
\* listener takes the server down instead.
THEOREM NoMisrouteHolds == Spec => []NoMisroute
<1>1. RInv => NoMisroute
  BY DEF RInv
<1>2. QED BY <1>1, RInvInit, NextRInv, PTL DEF Spec

\* An accepted external connection is not read (wst_server_reverse.js pauses
\* it at accept) until a data channel's bridge is bound to it.
THEOREM PausedUntilBoundHolds == Spec => []PausedUntilBound
<1>1. RInv => PausedUntilBound
  BY DEF RInv
<1>2. QED BY <1>1, RInvInit, NextRInv, PTL DEF Spec

=============================================================================
