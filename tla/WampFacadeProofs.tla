------------------------- MODULE WampFacadeProofs -------------------------
(***************************************************************************)
(* Proofs about WampFacade for every value of the constants: the type      *)
(* invariant, and NoStaleWhileServing (while the facade serves through an  *)
(* open session, every board in its registry is connected).               *)
(*                                                                         *)
(* NoStaleWhileServing is not inductive: a board can disconnect while the  *)
(* session is down, and a later onopen would then serve with a stale       *)
(* entry.  What rules that out is that onopen listens only on a free REST  *)
(* port, and the express app of the first session holds it for as long as *)
(* the process lives (OpenInv).  TypeOK is not inductive either: the      *)
(* board's relay client asks for pubPort[r], which must be a port the      *)
(* relay knows (InboxInv).                                                 *)
(***************************************************************************)
EXTENDS WampFacade, TLAPS

USE FacadeAssumption

\* A command a board has received was published under an earlier request
\* number with a port drawn from the range.
InboxInv == \A r \in inbox : r <= nreq /\ pubPort[r] \in PortRange

\* While the process lives and its REST port is free, no session has been
\* served yet: the registry is empty and the session is not open.
OpenInv == up /\ ~restUp => boards = {} /\ session # "open"

FInv == TypeOK /\ InboxInv /\ OpenInv /\ NoStaleWhileServing

-----------------------------------------------------------------------------

\* The relay's ports include the range the facade draws from.
LEMMA RangeInPorts == PortRange \subseteq PortRange \cup {RestPort}
BY DEF PortRange

THEOREM FacadeInit == Init => FInv
<1> SUFFICES ASSUME Init PROVE FInv
  OBVIOUS
<1>1. Relay!TPTypeOK
  BY DEF Init, Relay!TPInit, Relay!TPTypeOK
<1>2. /\ pubBoard \in [Req -> Boards \cup {NoBoard}]
      /\ pubPort \in [Req -> PortRange \cup {0}]
      /\ told \in [Req -> BOOLEAN]
  BY DEF Init
<1>3. /\ opens \in 0..MaxOpens /\ nreq \in 0..MaxReqs
      /\ inbox \subseteq Req /\ boards \subseteq Boards
  BY DEF Init
<1>4. /\ variant \in Variants /\ online \in [Boards -> BOOLEAN]
  BY DEF Init
<1>9. up = TRUE /\ restUp = FALSE
  BY DEF Init
<1>7. up \in BOOLEAN /\ restUp \in BOOLEAN
  BY <1>9
<1>8. session \in {"connecting", "open", "lost"}
  BY DEF Init
<1>5. TypeOK
  BY <1>1, <1>2, <1>3, <1>4, <1>7, <1>8 DEF TypeOK
<1>6. QED
  BY <1>5 DEF Init, FInv, InboxInv, OpenInv, NoStaleWhileServing, Subscribed

\* A step of the board side keeps FInv: only inbox and the relay change.
LEMMA BoardRunsFInv ==
    ASSUME FInv, NEW r \in Req, BoardRunsCommand(r)
    PROVE  FInv'
<1>1. pubPort[r] \in PortRange \cup {RestPort}
  BY RangeInPorts DEF FInv, InboxInv, BoardRunsCommand
<1>2. Relay!TPTypeOK'
  BY <1>1 DEF BoardRunsCommand, FInv, TypeOK, Relay!TPTypeOK,
             Relay!Register, Relay!Conflict, Relay!GiveUp, facadeVars
<1>3. QED
  BY <1>2 DEF BoardRunsCommand, FInv, TypeOK, InboxInv, OpenInv,
             NoStaleWhileServing, Subscribed, facadeVars, reqVars

\* A /command/ request that publishes keeps FInv.
LEMMA PublishFInv ==
    ASSUME FInv, NEW b \in Boards, NEW cmd \in Commands,
           NEW port \in PortRange,
           Command(b, cmd, port) \/ CommandRoot(b, cmd, port)
    PROVE  FInv'
<1>0. /\ NewRequest /\ Publish(b, port)
      /\ UNCHANGED <<facadeVars, online, relayVars>>
  BY DEF Command, CommandRoot
<1>6. told' \in [Req -> BOOLEAN]
  <2>1. nreq' \in Req
    BY <1>0 DEF NewRequest, FInv, TypeOK, Req
  <2>2. CASE Command(b, cmd, port)
    BY <2>1, <2>2 DEF Command, FInv, TypeOK
  <2>3. CASE CommandRoot(b, cmd, port)
    BY <2>1, <2>3 DEF CommandRoot, FInv, TypeOK
  <2>4. QED BY <2>2, <2>3
<1>1. /\ nreq' = nreq + 1 /\ nreq' \in Req
      /\ pubBoard' = [pubBoard EXCEPT ![nreq'] = b]
      /\ pubPort' = [pubPort EXCEPT ![nreq'] = port]
      /\ inbox' \subseteq inbox \cup {nreq'}
      /\ UNCHANGED <<facadeVars, online, relayVars>>
  BY <1>0 DEF NewRequest, Publish, FInv, TypeOK, Req
<1>5. /\ nreq' \in 0..MaxReqs
      /\ pubBoard' \in [Req -> Boards \cup {NoBoard}]
      /\ pubPort' \in [Req -> PortRange \cup {0}]
      /\ inbox' \subseteq Req
  BY <1>0, <1>1 DEF FInv, TypeOK, Req
<1>2. TypeOK'
  BY <1>1, <1>5, <1>6 DEF FInv, TypeOK, Relay!TPTypeOK, facadeVars, relayVars
<1>3. InboxInv'
  BY <1>1 DEF FInv, TypeOK, InboxInv
<1>4. QED
  BY <1>1, <1>2, <1>3 DEF FInv, OpenInv, NoStaleWhileServing, Subscribed,
                          facadeVars

\* The type invariant is kept by a step that changes only the facade's
\* process and session state, the registry, the boards and the inbox.
LEMMA TypeFrame ==
    ASSUME TypeOK,
           UNCHANGED <<variant, nreq, pubBoard, pubPort, told,
                       relayUp, lst, relayReg>>,
           opens' \in 0..MaxOpens,
           up' \in BOOLEAN, restUp' \in BOOLEAN,
           session' \in {"connecting", "open", "lost"},
           boards' \subseteq Boards, online' \in [Boards -> BOOLEAN],
           inbox' \subseteq Req
    PROVE  TypeOK'
<1>1. Relay!TPTypeOK'
  BY DEF TypeOK, Relay!TPTypeOK
<1>2. QED
  BY <1>1 DEF TypeOK

\* onopen, whether its listen succeeds or kills the process.
LEMMA OpenFInv ==
    ASSUME FInv, SessionOpen \/ SessionOpenListenFails
    PROVE  FInv'
<1>1. opens' \in 0..MaxOpens
  BY DEF SessionOpen, SessionOpenListenFails, FInv, TypeOK
<1>2. CASE SessionOpen
  <2>1. TypeOK'
    BY <1>1, <1>2, TypeFrame DEF SessionOpen, FInv, TypeOK, reqVars,
                                relayVars
  <2>2. QED
    BY <1>2, <2>1 DEF SessionOpen, FInv, InboxInv, OpenInv,
                      NoStaleWhileServing, Subscribed, reqVars
<1>3. CASE SessionOpenListenFails
  <2>1. TypeOK'
    BY <1>1, <1>3, TypeFrame DEF SessionOpenListenFails, FacadeCrash, FInv,
                                TypeOK, reqVars, relayVars
  <2>2. QED
    BY <1>3, <2>1 DEF SessionOpenListenFails, FacadeCrash, FInv, InboxInv,
                      OpenInv, NoStaleWhileServing, Subscribed, reqVars
<1>4. QED BY <1>2, <1>3

\* A board connecting or disconnecting.
LEMMA BoardFInv ==
    ASSUME FInv, NEW b \in Boards, BoardConnect(b) \/ BoardDisconnect(b)
    PROVE  FInv'
<1>1. CASE BoardConnect(b)
  <2>1. TypeOK'
    BY <1>1, TypeFrame DEF BoardConnect, FInv, TypeOK, reqVars, relayVars
  <2>2. NoStaleWhileServing'
    BY <1>1 DEF BoardConnect, FInv, TypeOK, NoStaleWhileServing, Subscribed
  <2>3. OpenInv'
    BY <1>1 DEF BoardConnect, FInv, OpenInv, Subscribed
  <2>4. QED
    BY <1>1, <2>1, <2>2, <2>3 DEF BoardConnect, FInv, InboxInv, reqVars
<1>2. CASE BoardDisconnect(b)
  <2>1. TypeOK'
    BY <1>2, TypeFrame DEF BoardDisconnect, FInv, TypeOK, reqVars, relayVars
  <2>2. InboxInv'
    BY <1>2 DEF BoardDisconnect, FInv, InboxInv, reqVars
  <2>3. QED
    BY <1>2, <2>1, <2>2 DEF BoardDisconnect, FInv, OpenInv,
                            NoStaleWhileServing, Subscribed
<1>3. QED BY <1>1, <1>2

\* The session is lost: onclose does nothing.
LEMMA LostFInv ==
    ASSUME FInv, SessionLost
    PROVE  FInv'
<1>1. TypeOK'
  BY TypeFrame DEF SessionLost, FInv, TypeOK, reqVars, relayVars
<1>2. QED
  BY <1>1 DEF SessionLost, FInv, InboxInv, OpenInv, NoStaleWhileServing,
              Subscribed, reqVars

\* A request answered without publishing changes only nreq.
LEMMA NoPublishFInv ==
    ASSUME FInv, NEW b \in Boards, CommandUnknown(b) \/ CommandSessionClosed(b)
    PROVE  FInv'
<1>1. /\ nreq' = nreq + 1 /\ nreq' \in 0..MaxReqs
      /\ UNCHANGED <<facadeVars, online, pubBoard, pubPort, told, inbox,
                     relayVars>>
  BY DEF CommandUnknown, CommandSessionClosed, NewRequest, FInv, TypeOK
<1>2. TypeOK'
  BY <1>1 DEF FInv, TypeOK, Relay!TPTypeOK, facadeVars, relayVars
<1>3. InboxInv'
  BY <1>1 DEF FInv, InboxInv, TypeOK, Req
<1>4. QED
  BY <1>1, <1>2, <1>3 DEF FInv, OpenInv, NoStaleWhileServing, Subscribed,
                          facadeVars

LEMMA FacadeStep == FInv /\ [Next]_vars => FInv'
<1> SUFFICES ASSUME FInv, [Next]_vars PROVE FInv'
  OBVIOUS
<1>1. CASE SessionOpen \/ SessionOpenListenFails
  BY <1>1, OpenFInv
<1>2. CASE SessionLost
  BY <1>2, LostFInv
<1>3. ASSUME NEW b \in Boards, BoardConnect(b) \/ BoardDisconnect(b)
      PROVE FInv'
  BY <1>3, BoardFInv
<1>4. ASSUME NEW b \in Boards, CommandUnknown(b) \/ CommandSessionClosed(b)
      PROVE FInv'
  BY <1>4, NoPublishFInv
<1>5. ASSUME NEW b \in Boards, NEW cmd \in Commands, NEW port \in PortRange,
             Command(b, cmd, port) \/ CommandRoot(b, cmd, port)
      PROVE FInv'
  BY <1>5, PublishFInv
<1>6. ASSUME NEW r \in Req, BoardRunsCommand(r) PROVE FInv'
  BY <1>6, BoardRunsFInv
<1>7. CASE UNCHANGED vars
  <2>1. TypeOK'
    BY <1>7 DEF vars, facadeVars, reqVars, relayVars, FInv, TypeOK,
               Relay!TPTypeOK
  <2>2. QED
    BY <1>7, <2>1 DEF vars, facadeVars, reqVars, relayVars, FInv, InboxInv,
                      OpenInv, NoStaleWhileServing, Subscribed
<1>8. QED
  BY <1>1, <1>2, <1>3, <1>4, <1>5, <1>6, <1>7 DEF Next

\* onBoardConnected deletes a board on its 'disconnect' and a reconnected
\* session never serves (its rest.listen fails), so for every value of the
\* constants the facade never serves with a disconnected board registered.
THEOREM NoStaleHolds == Spec => []NoStaleWhileServing
<1>1. FInv => NoStaleWhileServing
  BY DEF FInv
<1>2. QED BY <1>1, FacadeInit, FacadeStep, PTL DEF Spec

\* Every reachable state of the facade model is well typed.
THEOREM FacadeTypeCorrect == Spec => []TypeOK
<1>1. FInv => TypeOK
  BY DEF FInv
<1>2. QED BY <1>1, FacadeInit, FacadeStep, PTL DEF Spec

=============================================================================
