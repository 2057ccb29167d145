--------------------------- MODULE ReverseTunnel ---------------------------
(***************************************************************************)
(* The reverse-tunnel protocol of node-reverse-wstunnel: the relay server  *)
(* (lib/wst_server_reverse.js), the relay clients (lib/wst_client_reverse.js) *)
(* and the connection life cycle the bridge (lib/bindSockets_reverse.js)  *)
(* wires between a TCP socket and a websocket.  Bytes are not modelled     *)
(* here (see Bridge); what is modelled is which socket is open, paused,    *)
(* bound to which channel, and which event handler exists when an event   *)
(* fires.                                                                  *)
(*                                                                         *)
(* A server-side TCP connection k (an external client connecting to an    *)
(* exposed port) is connSt[k], owner[k], connId[k].  Each k causes at most *)
(* one "NC:<id>" message and so at most one data channel of a relay        *)
(* client: the channel with index k.  Channels MaxConns+1.. are data       *)
(* requests of nobody's relay client (a stray or forged "?id=" request).   *)
(*                                                                         *)
(* A websocket close is one step seen by both ends; each end reacts only   *)
(* if its bridge handler was attached before that step.                    *)
(***************************************************************************)
EXTENDS Naturals, FiniteSets

CONSTANTS
    Clients,    \* relay client processes (wst_client_reverse instances)
    Ports,      \* exposed TCP ports the clients may request
    ReqPort,    \* ReqPort[c]: the port client c asks for ("?dst=host:port")
    NoClient,   \* "no listener on this port"
    IdRange,    \* randomIntInc(1, IdRange): 1000 in the code
    MaxConns,   \* bound on external TCP connections accepted
    NStray,     \* bound on data requests that no relay client sent
    PeerMayReset \* external clients may abort (RST) as well as close (FIN)

ASSUME ConstAssumption ==
    /\ ReqPort \in [Clients -> Ports]
    /\ NoClient \notin Clients
    /\ IdRange \in Nat \ {0}
    /\ MaxConns \in Nat
    /\ NStray \in Nat
    /\ PeerMayReset \in BOOLEAN

Conn    == 1..MaxConns
StrayCh == (MaxConns + 1)..(MaxConns + NStray)
Chan    == Conn \cup StrayCh
Ids     == 1..IdRange

VARIABLES
    serverUp,   \* the relay server process is alive
    clientUp,   \* clientUp[c]: relay client process c is alive
    ctrl,       \* ctrl[c]: c's control websocket: "none", "open", "closed"
    listener,   \* listener[p]: the control request whose tcpServer listens on p
    connSt,     \* connSt[k]: server-side external TCP connection k
    owner,      \* owner[k]: the control request whose tcpServer accepted k
    connId,     \* connId[k]: idConnection drawn for k
    chId,       \* chId[x]: the id data channel x carries ("?id=")
    ws,         \* ws[x]: data channel x's websocket
    acc,        \* acc[x]: the server accepted x and bound a bridge to it
    bnd,        \* bnd[x]: the connection that bridge is bound to (0: none)
    tgt         \* tgt[x]: the relay client's TCP connection to the target

connVars == <<connSt, owner, connId>>
chVars   == <<chId, ws, acc, bnd, tgt>>
vars == <<serverUp, clientUp, ctrl, listener, connVars, chVars>>

ConnState == {"free", "paused", "flowing", "closed"}
(* ws: "nc" = NC message in flight on the control channel, "lost" = that  *)
(* message was dropped, "connecting" = data request in flight, "pending"  *)
(* = the server saw it and neither accepted nor rejected it.  tgt "bound" *)
(* = connected and bindSockets called on the client side.                 *)
WsState  == {"none", "nc", "lost", "connecting", "pending", "open", "closed"}
TgtState == {"none", "connecting", "bound", "closed"}

TypeOK ==
    /\ serverUp \in BOOLEAN
    /\ clientUp \in [Clients -> BOOLEAN]
    /\ ctrl \in [Clients -> {"none", "open", "closed"}]
    /\ listener \in [Ports -> Clients \cup {NoClient}]
    /\ connSt \in [Conn -> ConnState]
    /\ owner \in [Conn -> Clients \cup {NoClient}]
    /\ connId \in [Conn -> 0..IdRange]
    /\ chId \in [Chan -> 0..IdRange]
    /\ ws \in [Chan -> WsState]
    /\ acc \in [Chan -> BOOLEAN]
    /\ bnd \in [Chan -> 0..MaxConns]
    /\ tgt \in [Chan -> TgtState]

Init ==
    /\ serverUp = TRUE
    /\ clientUp = [c \in Clients |-> TRUE]
    /\ ctrl = [c \in Clients |-> "none"]
    /\ listener = [p \in Ports |-> NoClient]
    /\ connSt = [k \in Conn |-> "free"]
    /\ owner = [k \in Conn |-> NoClient]
    /\ connId = [k \in Conn |-> 0]
    /\ chId = [x \in Chan |-> 0]
    /\ ws = [x \in Chan |-> "none"]
    /\ acc = [x \in Chan |-> FALSE]
    /\ bnd = [x \in Chan |-> 0]
    /\ tgt = [x \in Chan |-> "none"]

-----------------------------------------------------------------------------
(* Helpers *)

\* The relay client that owns data channel x (none for a stray request).
OwnerOf(x) == IF x \in Conn THEN owner[x] ELSE NoClient

\* The 'created' listeners (one per accepted TCP connection, never removed)
\* whose idConnection equals the request's id.
Matching(i) == {k \in Conn : connSt[k] # "free" /\ connId[k] = i}

\* What closing a websocket does to its state.
WsClosed(w) == IF w = "nc" THEN "lost"
               ELSE IF w \in {"connecting", "pending", "open"} THEN "closed"
               ELSE w

\* Mutation: the server-side bridge has no websocket 'close' handler.
CloseCascadeNoWsHandler(X, K0, T0) ==
    LET Y == X \cup {y \in Chan : ws[y] = "open" /\ bnd[y] \in K0}
    IN  /\ connSt' = [k \in Conn |-> IF k \in K0 THEN "closed" ELSE connSt[k]]
        /\ ws' = [y \in Chan |-> IF y \in Y THEN WsClosed(ws[y]) ELSE ws[y]]
        /\ tgt' = [y \in Chan |->
                     IF \/ y \in T0 /\ tgt[y] # "none"
                        \/ y \in Y /\ tgt[y] = "bound" /\ ws[y] = "open"
                     THEN "closed" ELSE tgt[y]]
        /\ UNCHANGED <<owner, connId, chId, acc, bnd>>

(* The close cascade of the bridges.  X: channels whose websocket closes,  *)
(* K0: server TCP connections that close, T0: target connections that      *)
(* close.  A server-side bridge on an open channel destroys its TCP socket  *)
(* when the websocket closes; a closing TCP socket closes every open        *)
(* channel bound to it; the client-side bridge destroys the target when    *)
(* its open websocket closes.  Only open channels have bridges.            *)
CloseCascade(X, K0, T0) ==
    LET K == K0 \cup {bnd[x] : x \in {y \in X : ws[y] = "open"}}
        Y == X \cup {y \in Chan : ws[y] = "open" /\ bnd[y] \in K}
    IN  /\ connSt' = [k \in Conn |-> IF k \in K THEN "closed" ELSE connSt[k]]
        /\ ws' = [y \in Chan |-> IF y \in Y THEN WsClosed(ws[y]) ELSE ws[y]]
        /\ tgt' = [y \in Chan |->
                     IF \/ y \in T0 /\ tgt[y] # "none"
                        \/ y \in Y /\ tgt[y] = "bound" /\ ws[y] = "open"
                     THEN "closed" ELSE tgt[y]]
        /\ UNCHANGED <<owner, connId, chId, acc, bnd>>

(* The relay server process dies: every socket it holds closes.  The      *)
(* client-side bridges of open data channels destroy their targets.       *)
ServerCrash(c0) ==
    /\ serverUp' = FALSE
    /\ listener' = [p \in Ports |-> NoClient]
    /\ ctrl' = [c \in Clients |->
                  IF c = c0 \/ ctrl[c] = "open" THEN "closed" ELSE ctrl[c]]
    /\ CloseCascade(Chan, {k \in Conn : connSt[k] # "free"}, {})
    /\ UNCHANGED clientUp

(* Relay client c dies: its control and data websockets and its target   *)
(* connections close; the server-side bridges react to the data channels. *)
ClientCrash(c) ==
    LET Mine == {x \in Conn : owner[x] = c}
    IN  /\ clientUp' = [clientUp EXCEPT ![c] = FALSE]
        /\ ctrl' = [ctrl EXCEPT ![c] = IF @ = "open" THEN "closed" ELSE @]
        /\ CloseCascade(Mine, {}, Mine)
        /\ UNCHANGED <<serverUp, listener>>

-----------------------------------------------------------------------------
(* Relay client and server actions *)

\* Mutation: the control channel is accepted but nothing listens on the port.
ClientStartNoListen(c) ==
    /\ serverUp /\ clientUp[c] /\ ctrl[c] = "none"
    /\ listener[ReqPort[c]] = NoClient
    /\ ctrl' = [ctrl EXCEPT ![c] = "open"]
    /\ UNCHANGED <<serverUp, clientUp, listener, connVars, chVars>>

\* Client connects its control channel "?dst=host:port"; the server listens
\* on that port and accepts the control websocket.
ClientStart(c) ==
    /\ serverUp /\ clientUp[c] /\ ctrl[c] = "none"
    /\ listener[ReqPort[c]] = NoClient
    /\ listener' = [listener EXCEPT ![ReqPort[c]] = c]
    /\ ctrl' = [ctrl EXCEPT ![c] = "open"]
    /\ UNCHANGED <<serverUp, clientUp, connVars, chVars>>

\* The port already has a listener: tcpServer.listen emits 'error'
\* (EADDRINUSE) and no handler exists, so the server process dies.
ListenerConflict(c) ==
    /\ serverUp /\ clientUp[c] /\ ctrl[c] = "none"
    /\ listener[ReqPort[c]] # NoClient
    /\ ServerCrash(c)

\* The server is gone: 'connectFailed' is only logged.
ClientStartFailed(c) ==
    /\ ~serverUp /\ clientUp[c] /\ ctrl[c] = "none"
    /\ ctrl' = [ctrl EXCEPT ![c] = "closed"]
    /\ UNCHANGED <<serverUp, clientUp, listener, connVars, chVars>>

\* The next socket number: sockets are numbered in accept order, which is
\* also the order of their 'created' listeners.
IsNextConn(k) == connSt[k] = "free" /\ \A j \in 1..(k - 1) : connSt[j] # "free"

\* Mutation: the accepted socket is not paused (tcpConn.pause() dropped).
ServerAcceptUnpaused(c, i) ==
    /\ serverUp /\ listener[ReqPort[c]] = c
    /\ \E k \in Conn :
         /\ IsNextConn(k)
         /\ connSt' = [connSt EXCEPT ![k] = "flowing"]
         /\ owner' = [owner EXCEPT ![k] = c]
         /\ connId' = [connId EXCEPT ![k] = i]
         /\ chId' = [chId EXCEPT ![k] = i]
         /\ ws' = [ws EXCEPT ![k] = IF ctrl[c] = "open" THEN "nc" ELSE "lost"]
    /\ UNCHANGED <<serverUp, clientUp, ctrl, listener, acc, bnd, tgt>>

\* Mutation: randomIntInc off by one at the top, ids in 2..IdRange+1.
ServerAcceptIdOffByOne(c, i) ==
    /\ serverUp /\ listener[ReqPort[c]] = c
    /\ \E k \in Conn :
         /\ IsNextConn(k)
         /\ connSt' = [connSt EXCEPT ![k] = "paused"]
         /\ owner' = [owner EXCEPT ![k] = c]
         /\ connId' = [connId EXCEPT ![k] = i + 1]
         /\ chId' = [chId EXCEPT ![k] = i + 1]
         /\ ws' = [ws EXCEPT ![k] = IF ctrl[c] = "open" THEN "nc" ELSE "lost"]
    /\ UNCHANGED <<serverUp, clientUp, ctrl, listener, acc, bnd, tgt>>

\* An external client connects to c's exposed port: the socket is paused,
\* gets a random id, and "NC:<id>" is sent on c's control channel (lost if
\* that channel is closed).
ServerAccept(c, i) ==
    /\ serverUp /\ listener[ReqPort[c]] = c
    /\ \E k \in Conn :
         /\ IsNextConn(k)
         /\ connSt' = [connSt EXCEPT ![k] = "paused"]
         /\ owner' = [owner EXCEPT ![k] = c]
         /\ connId' = [connId EXCEPT ![k] = i]
         /\ chId' = [chId EXCEPT ![k] = i]
         /\ ws' = [ws EXCEPT ![k] = IF ctrl[c] = "open" THEN "nc" ELSE "lost"]
    /\ UNCHANGED <<serverUp, clientUp, ctrl, listener, acc, bnd, tgt>>

\* The client reads "NC:<id>" and opens a data websocket "?id=<id>".
ClientRecvNC(x) ==
    /\ ws[x] = "nc"
    /\ ws' = [ws EXCEPT ![x] = "connecting"]
    /\ UNCHANGED <<serverUp, clientUp, ctrl, listener, connVars,
                   chId, acc, bnd, tgt>>

\* A data request from nobody's relay client, with any id.
StrayRequest(x, i) ==
    /\ serverUp /\ ws[x] = "none"
    /\ chId' = [chId EXCEPT ![x] = i]
    /\ ws' = [ws EXCEPT ![x] = "connecting"]
    /\ UNCHANGED <<serverUp, clientUp, ctrl, listener, connVars, acc, bnd, tgt>>

(* The server emits 'created' with a data request to every listener ever  *)
(* registered.  No listener matches: nobody accepts or rejects it.         *)
DataMatchNone(x) ==
    /\ serverUp /\ ws[x] = "connecting"
    /\ Matching(chId[x]) = {}
    /\ ws' = [ws EXCEPT ![x] = "pending"]
    /\ UNCHANGED <<serverUp, clientUp, ctrl, listener, connVars,
                   chId, acc, bnd, tgt>>

\* Bind data channel x to connection k: request.accept, bindSockets,
\* tcpConn.resume() (a destroyed socket stays closed).
Bind(x, k) ==
    /\ ws' = [ws EXCEPT ![x] = "open"]
    /\ acc' = [acc EXCEPT ![x] = TRUE]
    /\ bnd' = [bnd EXCEPT ![x] = k]
    /\ connSt' = [connSt EXCEPT ![k] = IF @ = "closed" THEN @ ELSE "flowing"]
    /\ UNCHANGED <<serverUp, clientUp, ctrl, listener, owner, connId,
                   chId, tgt>>

\* Mutation: the first matching listener binds however many match.
DataMatchFirst(x) ==
    /\ serverUp /\ ws[x] = "connecting"
    /\ \E k \in Matching(chId[x]) :
         /\ \A j \in Matching(chId[x]) : k <= j
         /\ Bind(x, k)

\* One listener matches: it binds the channel.
DataMatchOne(x) ==
    /\ serverUp /\ ws[x] = "connecting"
    /\ \E k \in Matching(chId[x]) :
         /\ Matching(chId[x]) = {k}
         /\ Bind(x, k)

\* Two listeners match: the second request.accept() throws inside emit and
\* the exception is uncaught, so the server process dies.
DataMatchMany(x) ==
    /\ serverUp /\ ws[x] = "connecting"
    /\ Cardinality(Matching(chId[x])) >= 2
    /\ ServerCrash(NoClient)

\* The client sees its data websocket connected: it pauses the websocket
\* and starts the TCP connection to the target service.
ClientDataConnected(x) ==
    /\ x \in Conn /\ acc[x] /\ tgt[x] = "none"
    /\ clientUp[OwnerOf(x)]
    /\ tgt' = [tgt EXCEPT ![x] = "connecting"]
    /\ UNCHANGED <<serverUp, clientUp, ctrl, listener, connVars,
                   chId, ws, acc, bnd>>

\* The target accepts: bindSockets and resume, whatever the websocket's
\* state is by now.
ClientTargetConnect(x) ==
    /\ x \in Conn /\ tgt[x] = "connecting"
    /\ clientUp[OwnerOf(x)]
    /\ tgt' = [tgt EXCEPT ![x] = "bound"]
    /\ UNCHANGED <<serverUp, clientUp, ctrl, listener, connVars,
                   chId, ws, acc, bnd>>

\* The target refuses: the socket has no 'error' handler yet, so the relay
\* client process dies.
ClientTargetRefused(x) ==
    /\ x \in Conn /\ tgt[x] = "connecting"
    /\ clientUp[OwnerOf(x)]
    /\ ClientCrash(OwnerOf(x))

-----------------------------------------------------------------------------
(* Environment: sockets closing and failing *)

\* The external client closes server TCP connection k.
ExternalClose(k) ==
    /\ connSt[k] \in {"paused", "flowing"}
    /\ CloseCascade({}, {k}, {})
    /\ UNCHANGED <<serverUp, clientUp, ctrl, listener>>

(* The external client aborts paused connection k (RST).  The socket has  *)
(* been reading since accept (pause() only stops delivery), so the reset  *)
(* is a read error and emits 'error'; tcpConn has no 'error' handler      *)
(* before bindSockets, so the server process dies.  A reset after the bind *)
(* reaches bindSockets' handler, which destroys the socket: ExternalClose. *)
ExternalReset(k) ==
    /\ PeerMayReset /\ serverUp
    /\ connSt[k] = "paused"
    /\ ServerCrash(NoClient)

\* The target service closes its connection to the relay client.
TargetClose(x) ==
    /\ x \in Conn /\ tgt[x] = "bound"
    /\ clientUp[OwnerOf(x)]
    /\ CloseCascade({x}, {}, {x})
    /\ UNCHANGED <<serverUp, clientUp, ctrl, listener>>

\* A data websocket fails.
DataWsDrop(x) ==
    /\ ws[x] = "open"
    /\ CloseCascade({x}, {}, {})
    /\ UNCHANGED <<serverUp, clientUp, ctrl, listener>>

\* The control websocket of c fails.  Neither end has a 'close' handler:
\* only the NC messages in flight are lost.
CtrlDrop(c) ==
    /\ ctrl[c] = "open"
    /\ ctrl' = [ctrl EXCEPT ![c] = "closed"]
    /\ ws' = [x \in Chan |->
                IF x \in Conn /\ owner[x] = c /\ ws[x] = "nc" THEN "lost"
                ELSE ws[x]]
    /\ UNCHANGED <<serverUp, clientUp, listener, connVars,
                   chId, acc, bnd, tgt>>

-----------------------------------------------------------------------------
Server ==
    \/ \E c \in Clients : ClientStart(c) \/ ListenerConflict(c)
    \/ \E c \in Clients, i \in Ids : ServerAccept(c, i)
    \/ \E x \in Chan : DataMatchNone(x) \/ DataMatchOne(x) \/ DataMatchMany(x)

Client ==
    \/ \E c \in Clients : ClientStartFailed(c)
    \/ \E x \in Chan : \/ ClientRecvNC(x) \/ ClientDataConnected(x)
                       \/ ClientTargetConnect(x) \/ ClientTargetRefused(x)

Environment ==
    \/ \E x \in StrayCh, i \in Ids : StrayRequest(x, i)
    \/ \E k \in Conn : ExternalClose(k) \/ ExternalReset(k)
    \/ \E x \in Chan : TargetClose(x) \/ DataWsDrop(x)
    \/ \E c \in Clients : CtrlDrop(c)

Next == Server \/ Client \/ Environment

(* Node runs every ready callback: the handlers of the server and of the  *)
(* clients are weakly fair.  Whether a target accepts or refuses is the    *)
(* target's choice, so only the pair of outcomes is fair.  Nothing forces  *)
(* sockets to close or strays to arrive.                                   *)
Fairness ==
    /\ \A c \in Clients : WF_vars(ClientStart(c) \/ ListenerConflict(c)
                                    \/ ClientStartFailed(c))
    /\ \A x \in Chan :
         /\ WF_vars(ClientRecvNC(x))
         /\ WF_vars(DataMatchNone(x) \/ DataMatchOne(x) \/ DataMatchMany(x))
         /\ WF_vars(ClientDataConnected(x))
         /\ WF_vars(ClientTargetConnect(x) \/ ClientTargetRefused(x))

Spec == Init /\ [][Next]_vars
FairSpec == Spec /\ Fairness

-----------------------------------------------------------------------------
(* Properties *)

\* The abstract port registry: a client has registered once its control
\* websocket left "none"; no other process of the host holds a port.
TP == INSTANCE TunnelPorts
        WITH up <- serverUp, reg <- {c \in Clients : ctrl[c] # "none"},
             busy <- {}

\* Spec 3 / 4.2: the relay server's registrations behave as TunnelPorts
\* says: the 'request' handler's listen gives a free port to the client
\* that asked for it, a taken port takes the server down, and no port
\* ever passes from one control request to another.
TunnelPortsRefined == TP!TPSpec

\* An accepted external connection is paused (its bytes not read) until a
\* data channel's bridge is bound to it (wst_server_reverse.js: pause at
\* accept, resume only after bindSockets in the 'created' listener).
PausedUntilBound ==
    \A k \in Conn : connSt[k] = "flowing" =>
        \E x \in Chan : acc[x] /\ bnd[x] = k

\* Once an accepted data websocket has closed, the server TCP connection its
\* bridge is bound to is closed too, whichever end or failure closed it
\* (bindSockets' websocket 'close' handler, attached at accept time).
ServerCascade ==
    \A x \in Chan : acc[x] /\ ws[x] = "closed" =>
        connSt[bnd[x]] = "closed"

\* A relay client's data channel is never bridged to another external
\* connection than the one whose NC message it answers, even though the
\* 'created' listeners are shared by all control channels and never removed.
NoMisroute ==
    \A x \in Conn : acc[x] => bnd[x] = x

\* Spec 7: no registration or data request takes the relay server down.
ServerStaysUp == serverUp

\* Spec 4.2 / scenario C: a port is listened on only while the control
\* channel that registered it is open.
ListenerReleased ==
    \A p \in Ports : listener[p] # NoClient => ctrl[listener[p]] = "open"

\* Spec 4.2: every accepted connection eventually leaves the paused state
\* (bound or closed): the mandatory "awaiting data channel" timeout.
PendingResolved ==
    \A k \in Conn : connSt[k] = "paused" ~> connSt[k] # "paused"

ClientStaysUp == \A c \in Clients : clientUp[c]

=============================================================================
