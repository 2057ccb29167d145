----------------------------- MODULE WampFacade -----------------------------
(***************************************************************************)
(* The board-management facade (src/s4t-server-node/lib/s4t_wamp_server.js *)
(* and its older copy src/s4t-server-node/s4t-wamp-server.js) together     *)
(* with the boards and the relay server it drives.                          *)
(*                                                                         *)
(* The facade holds one autobahn connection to the WAMP router.  Every     *)
(* time that connection opens, onopen builds an express app, listens on    *)
(* the REST port and subscribes to board.connection; onclose does nothing, *)
(* so autobahn reconnects and runs onopen again.  A /command/ request for  *)
(* a registered board draws a random port in PortLow..PortHigh, publishes  *)
(* [board, command, port] on board.command and tells the caller the port.  *)
(* The board then starts a relay client asking the relay server for that   *)
(* port; the relay server is the abstract TunnelPorts, which the detailed  *)
(* ReverseTunnel implements.  The relay server runs on the facade's host   *)
(* (the facade answers "ssh -p <port> root@<its own address>"), so the     *)
(* REST port is one of the ports the relay can collide with.               *)
(***************************************************************************)
EXTENDS Naturals

CONSTANTS
    Boards,     \* board ids
    NoBoard,    \* "no command published under this request number"
    Commands,   \* values of the command query parameter
    PortLow,    \* randomIntInc(PortLow, PortHigh): 6000..7000 in the code
    PortHigh,
    RestPort,   \* restPort (lib) / 6655 (s4t-wamp-server.js)
    Variants,   \* copies checked: "lib": lib/s4t_wamp_server.js,
                \* "root": s4t-wamp-server.js
    MaxReqs,    \* bound on /command/ requests
    MaxOpens    \* bound on sessions autobahn opens

ASSUME FacadeAssumption ==
    /\ NoBoard \notin Boards
    /\ PortLow \in Nat /\ PortHigh \in Nat /\ PortLow <= PortHigh
    /\ RestPort \in Nat
    /\ Variants \subseteq {"lib", "root"} /\ Variants # {}
    /\ MaxReqs \in Nat /\ MaxOpens \in Nat \ {0}

\* Request numbers; request r's relay client is client r of the relay.
Req == 1..MaxReqs
\* randomIntInc(PortLow, PortHigh).
PortRange == PortLow..PortHigh
\* The commands lib/s4t_wamp_server.js answers.
Answered == {"ssh", "ideino"}

VARIABLES
    variant,    \* the copy that runs (fixed in Init)
    up,         \* the facade process is alive
    session,    \* autobahn connection: "connecting", "open" or "lost"
    opens,      \* times onopen has run
    restUp,     \* the express app listens on RestPort
    boards,     \* the boards registry
    online,     \* online[b]: board b is connected to the router
    nreq,       \* /command/ requests served so far
    pubBoard,   \* pubBoard[r]: board request r published a command to
    pubPort,    \* pubPort[r]: the port it chose (0: none)
    told,       \* told[r]: the caller of request r was told pubPort[r]
                \* (FALSE also for the requests lib never answers)
    inbox,      \* published commands a board has received, not yet run
    relayUp,    \* the relay server process is alive
    lst,        \* lst[p]: the relay client the relay listens on p for (0: none)
    relayReg    \* relay clients that have tried to register

facadeVars == <<variant, up, session, opens, restUp, boards>>
reqVars == <<nreq, pubBoard, pubPort, told>>
relayVars == <<relayUp, lst, relayReg>>
vars == <<facadeVars, online, reqVars, inbox, relayVars>>

\* The relay server, as TunnelPorts describes it.  Only the REST port of
\* this host is held by another process, while the express app listens.
Relay == INSTANCE TunnelPorts
           WITH Clients <- Req, Ports <- PortRange \cup {RestPort},
                NoClient <- 0, up <- relayUp, listener <- lst,
                reg <- relayReg, busy <- IF restUp THEN {RestPort} ELSE {}

TypeOK ==
    /\ variant \in Variants
    /\ up \in BOOLEAN /\ restUp \in BOOLEAN
    /\ session \in {"connecting", "open", "lost"}
    /\ opens \in 0..MaxOpens
    /\ boards \subseteq Boards
    /\ online \in [Boards -> BOOLEAN]
    /\ nreq \in 0..MaxReqs
    /\ pubBoard \in [Req -> Boards \cup {NoBoard}]
    /\ pubPort \in [Req -> PortRange \cup {0}]
    /\ told \in [Req -> BOOLEAN]
    /\ inbox \subseteq Req
    /\ Relay!TPTypeOK

\* start(): boards = {}, connection.open(); boards may already be online.
Init ==
    /\ variant \in Variants
    /\ up = TRUE /\ session = "connecting" /\ opens = 0 /\ restUp = FALSE
    /\ boards = {}
    /\ online \in [Boards -> BOOLEAN]
    /\ nreq = 0
    /\ pubBoard = [r \in Req |-> NoBoard] /\ pubPort = [r \in Req |-> 0]
    /\ told = [r \in Req |-> FALSE]
    /\ inbox = {}
    /\ Relay!TPInit

\* The facade process dies: its REST port is released.
FacadeCrash ==
    /\ up' = FALSE /\ restUp' = FALSE

-----------------------------------------------------------------------------
(* The facade *)

\* connection.onopen: express(), the routes, rest.listen(RestPort) and the
\* subscription to board.connection.
SessionOpen ==
    /\ up /\ session # "open" /\ opens < MaxOpens
    /\ ~restUp /\ lst[RestPort] = 0
    /\ session' = "open" /\ opens' = opens + 1 /\ restUp' = TRUE
    /\ UNCHANGED <<variant, up, boards, online, reqVars, inbox, relayVars>>

\* connection.onopen when the REST port is taken (by the express app of an
\* earlier session, or by a relay listener): listen emits 'error', nothing
\* handles it, and the facade process dies.
SessionOpenListenFails ==
    /\ up /\ session # "open" /\ opens < MaxOpens
    /\ restUp \/ lst[RestPort] # 0
    /\ FacadeCrash
    /\ session' = "open" /\ opens' = opens + 1
    /\ UNCHANGED <<variant, boards, online, reqVars, inbox, relayVars>>

\* The router connection is lost; onclose does nothing, autobahn retries.
SessionLost ==
    /\ up /\ session = "open"
    /\ session' = "lost"
    /\ UNCHANGED <<variant, up, opens, restUp, boards, online, reqVars, inbox, relayVars>>

\* The subscription delivers [b, state] only while the session is open.
Subscribed == up /\ session = "open"

\* Board b connects and publishes [b, "connection"] (onBoardConnected).
BoardConnect(b) ==
    /\ ~online[b]
    /\ online' = [online EXCEPT ![b] = TRUE]
    /\ boards' = IF Subscribed THEN boards \cup {b} ELSE boards
    /\ UNCHANGED <<variant, up, session, opens, restUp, reqVars, inbox, relayVars>>

\* Mutation: the 'disconnect' branch does not delete the board.
BoardDisconnectNoDelete(b) ==
    /\ online[b]
    /\ online' = [online EXCEPT ![b] = FALSE]
    /\ inbox' = {r \in inbox : pubBoard[r] # b}
    /\ UNCHANGED <<variant, up, session, opens, restUp, boards, reqVars, relayVars>>

\* Board b disconnects and publishes [b, "disconnect"]; the commands it
\* had not run are gone with it.
BoardDisconnect(b) ==
    /\ online[b]
    /\ online' = [online EXCEPT ![b] = FALSE]
    /\ boards' = IF Subscribed THEN boards \ {b} ELSE boards
    /\ inbox' = {r \in inbox : pubBoard[r] # b}
    /\ UNCHANGED <<variant, up, session, opens, restUp, reqVars, relayVars>>

\* A /command/ request numbered r = nreq + 1 reaches a live REST server.
NewRequest == up /\ restUp /\ nreq < MaxReqs /\ nreq' = nreq + 1

\* The board is not registered: "Error ..." is sent.
CommandUnknown(b) ==
    /\ NewRequest /\ b \notin boards
    /\ UNCHANGED <<facadeVars, online, pubBoard, pubPort, told, inbox,
                   relayVars>>

\* The route's session is no longer open: session.publish throws and
\* express answers 500.
CommandSessionClosed(b) ==
    /\ NewRequest /\ b \in boards /\ session # "open"
    /\ UNCHANGED <<facadeVars, online, pubBoard, pubPort, told, inbox,
                   relayVars>>

\* Publish [b, cmd, port]: the board receives it if it is connected.
Publish(b, port) ==
    /\ pubBoard' = [pubBoard EXCEPT ![nreq'] = b]
    /\ pubPort' = [pubPort EXCEPT ![nreq'] = port]
    /\ inbox' = IF online[b] THEN inbox \cup {nreq'} ELSE inbox

\* lib /command/: publish, then answer only "ssh" and "ideino".
Command(b, cmd, port) ==
    /\ variant = "lib"
    /\ NewRequest /\ b \in boards /\ session = "open"
    /\ Publish(b, port)
    /\ told' = [told EXCEPT ![nreq'] = cmd \in Answered]
    /\ UNCHANGED <<facadeVars, online, relayVars>>

\* Mutation: randomIntInc rounds instead of flooring and can return high+1.
CommandRootPortPastRange(b, cmd, port) ==
    /\ variant = "root"
    /\ NewRequest /\ b \in boards /\ session = "open"
    /\ Publish(b, port + 1)
    /\ told' = [told EXCEPT ![nreq'] = TRUE]
    /\ UNCHANGED <<facadeVars, online, relayVars>>

\* s4t-wamp-server.js "/": publish and answer whatever the command.
CommandRoot(b, cmd, port) ==
    /\ variant = "root"
    /\ NewRequest /\ b \in boards /\ session = "open"
    /\ Publish(b, port)
    /\ told' = [told EXCEPT ![nreq'] = TRUE]
    /\ UNCHANGED <<facadeVars, online, relayVars>>

-----------------------------------------------------------------------------
(* The board and the relay server *)

\* The board runs the command: its relay client asks the relay server for
\* the port (registered, conflicting, or no server there).
BoardRunsCommand(r) ==
    /\ r \in inbox
    /\ inbox' = inbox \ {r}
    /\ \/ Relay!Register(r, pubPort[r])
       \/ Relay!Conflict(r, pubPort[r])
       \/ Relay!GiveUp(r)
    /\ UNCHANGED <<facadeVars, online, reqVars>>

-----------------------------------------------------------------------------
Next ==
    \/ SessionOpen \/ SessionOpenListenFails \/ SessionLost
    \/ \E b \in Boards : BoardConnect(b) \/ BoardDisconnect(b)
    \/ \E b \in Boards : CommandUnknown(b) \/ CommandSessionClosed(b)
    \/ \E b \in Boards, cmd \in Commands, port \in PortRange :
         Command(b, cmd, port) \/ CommandRoot(b, cmd, port)
    \/ \E r \in Req : BoardRunsCommand(r)

Spec == Init /\ [][Next]_vars

-----------------------------------------------------------------------------
(* Properties *)

\* While the facade serves requests through an open session, every board
\* in its registry is connected: onBoardConnected deletes a board on its
\* 'disconnect', and the events it misses while the session is down cannot
\* leave a stale entry behind because the next onopen never serves again.
NoStaleWhileServing ==
    Subscribed => \A b \in boards : online[b]

\* Spec 6 / 7: the facade keeps running across router reconnections.
FacadeStaysUp == up

\* A caller told "port p" for board b reaches b's relay client on p, never
\* another board's (the facade draws ports at random and keeps no record).
ToldPortLeadsToBoard ==
    \A r \in Req :
        told[r] /\ lst[pubPort[r]] # 0 => pubBoard[lst[pubPort[r]]] = pubBoard[r]

\* Spec 7: no tunnel request takes the relay server down.
RelayStaysUp == relayUp

=============================================================================
