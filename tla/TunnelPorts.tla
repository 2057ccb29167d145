---------------------------- MODULE TunnelPorts ----------------------------
(***************************************************************************)
(* What the relay server (lib/wst_server_reverse.js) promises about its    *)
(* exposed ports, seen from the processes that ask for them: each relay    *)
(* client registers once; a free port is listened on for it; a port that   *)
(* is taken, by another relay client or by another process of the host    *)
(* (busy), takes the server down and every listener with it.  A port is    *)
(* never handed from one client to another.                                *)
(***************************************************************************)
CONSTANTS
    Clients,    \* relay clients that may register
    Ports,      \* ports they may ask for
    NoClient    \* "nobody listens on this port"

VARIABLES
    up,         \* the relay server process is alive
    listener,   \* listener[p]: the client the server listens on p for
    reg,        \* clients that have tried to register
    busy        \* ports other processes of the host listen on (not changed
                \* by the relay server, so not part of its state)

tpVars == <<up, listener, reg>>

TPTypeOK ==
    /\ up \in BOOLEAN
    /\ listener \in [Ports -> Clients \cup {NoClient}]
    /\ reg \subseteq Clients
    /\ busy \subseteq Ports

TPInit ==
    /\ up = TRUE
    /\ listener = [p \in Ports |-> NoClient]
    /\ reg = {}

\* The server listens on the free port p for client c.
Register(c, p) ==
    /\ up /\ c \notin reg
    /\ listener[p] = NoClient /\ p \notin busy
    /\ listener' = [listener EXCEPT ![p] = c]
    /\ reg' = reg \cup {c}
    /\ UNCHANGED up

\* Client c asks for a taken port: the server dies.
Conflict(c, p) ==
    /\ up /\ c \notin reg
    /\ listener[p] # NoClient \/ p \in busy
    /\ up' = FALSE
    /\ listener' = [q \in Ports |-> NoClient]
    /\ reg' = reg \cup {c}

\* The server dies for another reason.
Crash ==
    /\ up
    /\ up' = FALSE
    /\ listener' = [q \in Ports |-> NoClient]
    /\ UNCHANGED reg

\* Client c finds no server and gives up.
GiveUp(c) ==
    /\ ~up /\ c \notin reg
    /\ reg' = reg \cup {c}
    /\ UNCHANGED <<up, listener>>

TPNext ==
    \/ \E c \in Clients, p \in Ports : Register(c, p) \/ Conflict(c, p)
    \/ Crash
    \/ \E c \in Clients : GiveUp(c)

TPSpec == TPInit /\ [][TPNext]_tpVars

=============================================================================
