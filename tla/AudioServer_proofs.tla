------------------------- MODULE AudioServer_proofs -------------------------
(***************************************************************************)
(* Proofs about AudioServer, for every set of clients.                     *)
(***************************************************************************)
EXTENDS AudioServer, TLAPS

\* What the places of the server thread say of the resources of a call.
CallResources ==
    /\ remote # "none" <=> st \in InCall
    /\ ao <=> st \in {"setRun", "push", "read", "aoDeinit"}
    /\ cancelOn => st \in Over \cup {"start", "loop", "accept", "closeFd",
                                     "clearFd"}

\* What the places of the server thread say of the listening socket.
Socket ==
    /\ server /\ st = "clearFd" => sfd /\ ~lsock
    /\ server /\ st = "ended" => ~sfd /\ ~lsock
    /\ server /\ st \notin {"clearFd", "ended"} => sfd /\ lsock
    /\ ~server /\ lsock => st = "none"

\* The page's pointers: who needs an open page and a server.
PageInv ==
    /\ server => page
    /\ ThreadHasServer
    /\ ui # "idle" => page
    /\ ui \in {"connect", "dial", "disconnect", "pause", "join"} => server

\* The clients' memory.
ClientInv ==
    /\ JoinedBeforeFree
    /\ \A c \in Clients : mem[c] = "unused" => cap[c] = "none"
    /\ ClientPointerLive
    /\ st = "join" => delArg \in Clients
    /\ delArg # NoClient => st \in {"join", "clear"}
    /\ NoDoubleDelete

IInv ==
    /\ TypeOK
    /\ CallResources
    /\ Socket
    /\ PageInv
    /\ ClientInv

\* The invariant holds of the device before any page is opened.
LEMMA InitIInv == Init => IInv
  <1> SUFFICES ASSUME Init PROVE IInv
    OBVIOUS
  <1>1. /\ page \in BOOLEAN /\ lastRunning \in BOOLEAN /\ server \in BOOLEAN
        /\ sfd \in BOOLEAN /\ cancelOn \in BOOLEAN /\ cancelPending \in BOOLEAN
        /\ lsock \in BOOLEAN /\ ao \in BOOLEAN /\ alive \in BOOLEAN
    BY Zenon DEF Init
  <1>2. QED
    BY <1>1, NoClientAssumption
    DEF Init, IInv, TypeOK, CallResources, Socket, PageInv, ClientInv, InCall,
        Over, Places, CapPlaces, States, JoinedBeforeFree, ThreadHasServer,
        ClientPointerLive, NoDoubleDelete

\* What the steps store in the flags.
LEMMA Flags ==
    /\ OpenPage /\ TypeOK =>
          page' \in BOOLEAN /\ server' \in BOOLEAN /\ sfd' \in BOOLEAN
          /\ lsock' \in BOOLEAN /\ cancelOn' \in BOOLEAN /\ cancelPending' \in BOOLEAN
    /\ PollTest /\ TypeOK => lastRunning' \in BOOLEAN
    /\ PollUse => lastRunning' \in BOOLEAN
    /\ BackNoThread => page' \in BOOLEAN /\ server' \in BOOLEAN
    /\ Back => cancelPending' \in BOOLEAN
    /\ UiJoined /\ TypeOK =>
          page' \in BOOLEAN /\ server' \in BOOLEAN /\ sfd' \in BOOLEAN /\ lsock' \in BOOLEAN
    /\ Listen /\ TypeOK => cancelOn' \in BOOLEAN
    /\ Accept => cancelOn' \in BOOLEAN
    /\ AoInit /\ TypeOK => ao' \in BOOLEAN
    /\ AoDeinit => ao' \in BOOLEAN
    /\ CloseFd => lsock' \in BOOLEAN
    /\ ClearFd => sfd' \in BOOLEAN
    /\ \A c \in Clients : Sigpipe(c) => alive' \in BOOLEAN
  <1>1. OpenPage /\ TypeOK =>
          page' \in BOOLEAN /\ server' \in BOOLEAN /\ sfd' \in BOOLEAN
          /\ lsock' \in BOOLEAN /\ cancelOn' \in BOOLEAN /\ cancelPending' \in BOOLEAN
    BY Zenon DEF OpenPage, TypeOK, threadVars
  <1>2. PollTest /\ TypeOK => lastRunning' \in BOOLEAN
    BY Zenon DEF PollTest, ShowState, TypeOK
  <1>3. PollUse => lastRunning' \in BOOLEAN
    <2>1. \A c : \A r \in RunningSeen(c) : r \in BOOLEAN
      BY Zenon DEF RunningSeen
    <2>2. QED
      BY <2>1, Zenon DEF PollUse, ShowState
  <1>4. /\ BackNoThread => page' \in BOOLEAN /\ server' \in BOOLEAN
        /\ Back => cancelPending' \in BOOLEAN
    BY Zenon DEF BackNoThread, Back
  <1>5. UiJoined /\ TypeOK =>
          page' \in BOOLEAN /\ server' \in BOOLEAN /\ sfd' \in BOOLEAN /\ lsock' \in BOOLEAN
    BY Zenon DEF UiJoined, FreeServer, TypeOK
  <1>6. /\ Listen /\ TypeOK => cancelOn' \in BOOLEAN
        /\ Accept => cancelOn' \in BOOLEAN
    BY Zenon DEF Listen, Accept, SetState, ThreadMoves, TypeOK
  <1>7. /\ AoInit /\ TypeOK => ao' \in BOOLEAN
        /\ AoDeinit => ao' \in BOOLEAN
    BY Zenon DEF AoInit, AoDeinit, TypeOK
  <1>8. /\ CloseFd => lsock' \in BOOLEAN
        /\ ClearFd => sfd' \in BOOLEAN
        /\ \A c \in Clients : Sigpipe(c) => alive' \in BOOLEAN
    BY Zenon DEF CloseFd, ClearFd, Sigpipe
  <1>9. QED
    BY <1>1, <1>2, <1>3, <1>4, <1>5, <1>6, <1>7, <1>8, Zenon

\* Every step of the UI, of a thread or of the other device keeps it.
LEMMA NextIInv == IInv /\ [Next]_vars => IInv'
  <1> SUFFICES ASSUME IInv, [Next]_vars
               PROVE  IInv'
    OBVIOUS
  <1> USE NoClientAssumption
      DEF IInv, TypeOK, CallResources, Socket, PageInv, ClientInv, InCall,
          CancelPoints, Over, Places, CapPlaces, States, JoinedBeforeFree,
          ThreadHasServer, ClientPointerLive, NoDoubleDelete,
          vars, uiVars, uiRest, structVars, threadVars, callVars, clientVars,
          UiAt, ThreadAt, ThreadMoves, CapAt, SetState
  <1>1. CASE OpenPage
    BY <1>1, Flags DEF OpenPage
  <1>2. CASE UiPress \/ UiConnect \/ UiDisconnect
    BY <1>2 DEF UiPress, UiConnect, UiDisconnect
  <1>3. CASE UiDial
    BY <1>3 DEF UiDial, ClientNew
  <1>4. CASE PollTest
    BY <1>4, Flags DEF PollTest, ShowState
  <1>5. CASE UiPause
    BY <1>5 DEF UiPause
  <1>6. CASE PollRead
    BY <1>6 DEF PollRead
  <1>7. CASE PollUse
    <2>1. lastRunning' \in BOOLEAN
      BY <1>7, Flags
    <2>2. /\ shown' \in {"call", "hangup"} /\ uiClient' = NoClient
          /\ ui = "use" /\ ui' = "idle"
          /\ UNCHANGED <<page, structVars, threadVars, callVars, clientVars, alive>>
      BY <1>7 DEF PollUse, ShowState
    <2>3. QED
      BY <2>1, <2>2
  <1>8. CASE BackNoThread
    BY <1>8, Flags DEF BackNoThread
  <1>9. CASE Back
    BY <1>9, Flags DEF Back
  <1>10. CASE UiJoined
    BY <1>10, Flags DEF UiJoined, FreeServer
  <1>11. CASE ThreadStart
    BY <1>11 DEF ThreadStart
  <1>12. CASE Listen
    BY <1>12, Flags DEF Listen
  <1>13. CASE Cancelled
    BY <1>13 DEF Cancelled
  <1>14. CASE ConnectBack
    BY <1>14 DEF ConnectBack
  <1>15. CASE ThreadDial
    BY <1>15 DEF ThreadDial, ClientNew
  <1>16. CASE AoInit
    BY <1>16, Flags DEF AoInit
  <1>17. CASE SetRunning
    BY <1>17 DEF SetRunning
  <1>18. CASE PushTest
    BY <1>18 DEF PushTest
  <1>19. CASE ReadData
    BY <1>19 DEF ReadData
  <1>20. CASE PushFails
    BY <1>20 DEF PushFails
  <1>21. CASE AoDeinit
    BY <1>21, Flags DEF AoDeinit
  <1>22. CASE CloseRemote
    BY <1>22 DEF CloseRemote
  <1>23. CASE DelClient
    BY <1>23 DEF DelClient, StopClient
  <1>24. CASE JoinClient
    BY <1>24 DEF JoinClient, FreeClient
  <1>25. CASE ClearClient
    BY <1>25 DEF ClearClient
  <1>26. CASE Resume
    BY <1>26 DEF Resume
  <1>27. CASE ResumeStore
    BY <1>27 DEF ResumeStore
  <1>28. CASE CloseFd
    BY <1>28, Flags DEF CloseFd
  <1>29. CASE ClearFd
    BY <1>29, Flags DEF ClearFd, ThreadEnds
  <1>30. CASE Accept
    BY <1>30, Flags DEF Accept, AcceptReturns
  <1>31. CASE RemoteHangsUp
    BY <1>31 DEF RemoteHangsUp
  <1>32. ASSUME NEW c \in Clients, CapInit(c) PROVE IInv'
    BY <1>32 DEF CapInit, CapStores
  <1>33. ASSUME NEW c \in Clients, CapSetRunning(c) PROVE IInv'
    BY <1>33 DEF CapSetRunning, CapStores
  <1>34. ASSUME NEW c \in Clients, CapTest(c) PROVE IInv'
    BY <1>34 DEF CapTest
  <1>35. ASSUME NEW c \in Clients, CapSend(c) PROVE IInv'
    BY <1>35 DEF CapSend
  <1>36. ASSUME NEW c \in Clients, CapFails(c) PROVE IInv'
    BY <1>36 DEF CapFails
  <1>37. ASSUME NEW c \in Clients, Sigpipe(c) PROVE IInv'
    BY <1>37, Flags DEF Sigpipe
  <1>38. ASSUME NEW c \in Clients, CapDeinit(c) PROVE IInv'
    BY <1>38 DEF CapDeinit, CapStores
  <1>39. ASSUME NEW c \in Clients, CapCloseFd(c) PROVE IInv'
    BY <1>39 DEF CapCloseFd
  <1>40. ASSUME NEW c \in Clients, PeerHangsUp(c) PROVE IInv'
    BY <1>40 DEF PeerHangsUp
  <1>41. CASE Dead \/ UNCHANGED vars
    BY <1>41 DEF Dead
  <1>42. QED
    BY <1>1, <1>2, <1>3, <1>4, <1>5, <1>6, <1>7, <1>8, <1>9, <1>10, <1>11,
       <1>12, <1>13, <1>14, <1>15, <1>16, <1>17, <1>18, <1>19, <1>20,
       <1>21, <1>22, <1>23, <1>24, <1>25, <1>26, <1>27, <1>28, <1>29,
       <1>30, <1>31, <1>32, <1>33, <1>34, <1>35, <1>36, <1>37, <1>38,
       <1>39, <1>40, <1>41 DEF Next, UiStep, ServerStep, CapStep

LEMMA SpecIInv == Spec => []IInv
  BY InitIInv, NextIInv, PTL DEF Spec

-----------------------------------------------------------------------------

\* Every variable keeps its type (struct audio_server, struct audio_client and
\* the places of their threads).
THEOREM TypeCorrect == Spec => []TypeOK
  <1>1. IInv => TypeOK
    BY DEF IInv
  <1>2. QED
    BY <1>1, SpecIInv, PTL

\* The memory of the capture threads and of the server thread: no capture
\* thread runs on a freed client, the server thread never runs on a freed
\* server, server->client dangles only between the free and the assignment of
\* NULL, and no client is deleted twice.  Nothing is said of the UI's poll.
THEOREM ThreadsMemorySafe == Spec => []ThreadsUseLive
  <1>1. IInv => ThreadsUseLive
    BY DEF IInv, PageInv, ClientInv, ThreadsUseLive
  <1>2. QED
    BY <1>1, SpecIInv, PTL

\* A thread that was cancelled was between two calls: no connection, no output
\* and no deletion of a client was in progress (the setcancelstate pair around
\* accept in audio_server).
THEOREM CancelSafe == Spec => []CancelledBetweenCalls
  <1>1. IInv => CancelledBetweenCalls
    BY DEF IInv, TypeOK, CallResources, Socket, ClientInv, CancelledBetweenCalls, InCall
  <1>2. QED
    BY <1>1, SpecIInv, PTL

\* The listening socket is closed once, by the thread or by the page.
THEOREM SocketClosedOnce == Spec => []CloseOnce
  <1>1. IInv => CloseOnce
    BY DEF IInv, TypeOK, Socket, CloseOnce
  <1>2. QED
    BY <1>1, SpecIInv, PTL

\* A closed page has left the line: no connection, no audio output, and not
\* the port, except if the server's thread had never started.
THEOREM ClosedPageOffLine == Spec => []ClosedPageLeavesLine
  <1>1. IInv => ClosedPageLeavesLine
    BY DEF IInv, TypeOK, CallResources, Socket, PageInv, ThreadHasServer,
           ClosedPageLeavesLine, InCall, Over
  <1>2. QED
    BY <1>1, SpecIInv, PTL

\* What a step does to the clients if it is not the user's dial: the one that is
\* deleted is the one the server points to.
ClientsInv == ClientsOfCalls /\ (st = "join" => delArg = client)

LEMMA NextClientsInv ==
    IInv /\ ClientsInv /\ ui # "dial" /\ [Next]_vars => ClientsInv'
  <1> SUFFICES ASSUME IInv, ClientsInv, ui # "dial", [Next]_vars
               PROVE  ClientsInv'
    OBVIOUS
  <1> USE NoClientAssumption DEF ClientsInv, ClientsOfCalls, UiAt, ThreadAt, ThreadMoves, CapAt, SetState, InCall,
              uiVars, uiRest, structVars, threadVars, callVars, clientVars
  <1>1. CASE OpenPage
    BY <1>1 DEF OpenPage, IInv, PageInv, ThreadHasServer, Over
  <1>2. CASE UiStep /\ ~OpenPage
    BY <1>2 DEF UiStep, UiPress, UiConnect, UiDial, UiDisconnect, UiPause, PollTest,
                PollRead, PollUse, BackNoThread, Back, UiJoined, FreeServer, Over,
                IInv, TypeOK
  <1>3. CASE ThreadDial
    BY <1>3 DEF ThreadDial, ClientNew, IInv, TypeOK, PageInv, ThreadHasServer, Over,
                ClientInv, ClientPointerLive
  <1>4. CASE DelClient
    BY <1>4 DEF DelClient, StopClient, IInv, TypeOK
  <1>5. CASE JoinClient
    BY <1>5 DEF JoinClient, FreeClient, IInv, TypeOK, ClientInv
  <1>6. CASE Cancelled
    BY <1>6 DEF Cancelled, CancelPoints, IInv, CallResources, Over
  <1>7. CASE Accept
    BY <1>7 DEF Accept, AcceptReturns
  <1>8. CASE ServerStep /\ ~ThreadDial /\ ~DelClient /\ ~JoinClient /\ ~Cancelled
    BY <1>8 DEF ServerStep, ThreadStart, Listen, ConnectBack, AoInit, SetRunning,
                PushTest, ReadData, PushFails, AoDeinit, CloseRemote, ClearClient,
                Resume, ResumeStore, CloseFd, ClearFd, ThreadEnds
  <1>9. ASSUME NEW c \in Clients, CapStep(c) \/ PeerHangsUp(c) PROVE ClientsInv'
    BY <1>9 DEF CapStep, CapInit, CapSetRunning, CapTest, CapSend, CapFails, Sigpipe,
                CapDeinit, CapCloseFd, PeerHangsUp
  <1>10. CASE RemoteHangsUp \/ Dead \/ UNCHANGED vars
    BY <1>10 DEF RemoteHangsUp, Dead, vars
  <1>11. QED
    BY <1>1, <1>2, <1>3, <1>4, <1>5, <1>6, <1>7, <1>8, <1>9, <1>10 DEF Next

\* Every client that was made to call back is deleted with its call, as long as
\* the user does not dial: for any number of clients and of calls.
THEOREM CallBackDeleted == Spec => CalledBackDeleted
  <1>1. Init => ClientsInv
    BY DEF Init, ClientsInv, ClientsOfCalls
  <1>2. ClientsInv => ClientsOfCalls
    BY DEF ClientsInv
  <1>3. QED
    BY <1>1, <1>2, NextClientsInv, SpecIInv, PTL DEF Spec, CalledBackDeleted

-----------------------------------------------------------------------------
\* What each step does to the line and the speaker of CallLine.
LEMMA StepImplements ==
    IInv /\ IInv' /\ [Next]_vars => [Line!LineNext]_(Line!lineVars)
  <1> SUFFICES ASSUME IInv, IInv', [Next]_vars
               PROVE  [Line!LineNext]_(Line!lineVars)
    OBVIOUS
  <1> USE DEF IInv, TypeOK, CallResources, Socket, PageInv, ThreadHasServer,
          InCall, CancelPoints, Over, Line!LineNext, Line!lineVars,
          vars, uiVars, uiRest, structVars, threadVars, callVars, clientVars,
          UiAt, ThreadAt, ThreadMoves, CapAt, SetState
  <1>1. CASE UiPress \/ UiConnect \/ UiDisconnect
    BY <1>1 DEF UiPress, UiConnect, UiDisconnect
  <1>2. CASE UiDial
    BY <1>2 DEF UiDial
  <1>3. CASE PollTest
    BY <1>3 DEF PollTest
  <1>4. CASE UiPause
    BY <1>4 DEF UiPause
  <1>5. CASE PollRead
    BY <1>5 DEF PollRead
  <1>6. CASE PollUse
    BY <1>6 DEF PollUse
  <1>7. CASE BackNoThread
    BY <1>7 DEF BackNoThread
  <1>8. CASE Back
    BY <1>8 DEF Back
  <1>9. CASE ThreadStart
    BY <1>9 DEF ThreadStart
  <1>10. CASE Listen
    BY <1>10 DEF Listen
  <1>11. CASE Cancelled
    BY <1>11 DEF Cancelled
  <1>12. CASE ConnectBack
    BY <1>12 DEF ConnectBack
  <1>13. CASE ThreadDial
    BY <1>13 DEF ThreadDial
  <1>14. CASE SetRunning
    BY <1>14 DEF SetRunning
  <1>15. CASE PushTest
    BY <1>15 DEF PushTest
  <1>16. CASE ReadData
    BY <1>16 DEF ReadData
  <1>17. CASE PushFails
    BY <1>17 DEF PushFails
  <1>18. CASE DelClient
    BY <1>18 DEF DelClient, StopClient
  <1>19. CASE JoinClient
    BY <1>19 DEF JoinClient, FreeClient
  <1>20. CASE ClearClient
    BY <1>20 DEF ClearClient
  <1>21. CASE Resume
    BY <1>21 DEF Resume
  <1>22. CASE ResumeStore
    BY <1>22 DEF ResumeStore
  <1>23. CASE ClearFd
    BY <1>23 DEF ClearFd, ThreadEnds
  <1>24. CASE RemoteHangsUp
    BY <1>24 DEF RemoteHangsUp
  <1>25. CASE OpenPage
    BY <1>25 DEF OpenPage, Line!OpenLine
  <1>26. CASE Accept
    BY <1>26 DEF Accept, AcceptReturns, Line!Answer
  <1>27. CASE AoInit
    BY <1>27 DEF AoInit, Line!SpeakerOn
  <1>28. CASE AoDeinit
    BY <1>28 DEF AoDeinit, Line!SpeakerOff
  <1>29. CASE CloseRemote
    BY <1>29 DEF CloseRemote, Line!EndCall
  <1>30. CASE CloseFd
    BY <1>30 DEF CloseFd, Line!CloseLine
  <1>31. CASE UiJoined
    BY <1>31 DEF UiJoined, FreeServer, Line!CloseLine
  <1>32. ASSUME NEW c \in Clients, CapStep(c) \/ PeerHangsUp(c)
        PROVE  UNCHANGED Line!lineVars
    BY <1>32 DEF CapStep, CapInit, CapSetRunning, CapTest, CapSend,
                CapFails, Sigpipe, CapDeinit, CapCloseFd, PeerHangsUp
  <1>33. CASE Dead \/ UNCHANGED vars
    BY <1>33 DEF Dead
  <1>34. QED
    BY <1>1, <1>2, <1>3, <1>4, <1>5, <1>6, <1>7, <1>8, <1>9, <1>10, <1>11,
       <1>12, <1>13, <1>14, <1>15, <1>16, <1>17, <1>18, <1>19, <1>20,
       <1>21, <1>22, <1>23, <1>24, <1>25, <1>26, <1>27, <1>28, <1>29,
       <1>30, <1>31, <1>32, <1>33 DEF Next, UiStep, ServerStep

\* The threads of one device implement the line and speaker of CallLine, for
\* any number of clients.
THEOREM Implements == Spec => CallLineImplemented
  <1>1. Init => Line!LineInit
    BY DEF Init, Line!LineInit
  <1>2. QED
    BY <1>1, StepImplements, SpecIInv, PTL
       DEF Spec, CallLineImplemented, Line!Spec

-----------------------------------------------------------------------------
(* Leaving and hanging up: the parts of LeavingEnds and HangUpEndsCall     *)
(* that need no fairness.                                                  *)

\* A page that waits has asked for the cancellation, and accept allows it.
JoinInv ==
    /\ ui = "join" => cancelPending
    /\ st = "accept" => cancelOn

LEMMA NextJoinInv == IInv /\ JoinInv /\ [Next]_vars => JoinInv'
  <1> SUFFICES ASSUME IInv, JoinInv, [Next]_vars PROVE JoinInv'
    OBVIOUS
  <1> USE DEF JoinInv, UiAt, ThreadAt, ThreadMoves, CapAt, SetState, threadVars, uiVars,
              uiRest
  <1>1. CASE OpenPage
    BY <1>1 DEF OpenPage
  <1>2. CASE UiStep /\ ~OpenPage
    <2>1. UNCHANGED <<st, cancelOn>>
      BY <1>2 DEF UiStep, UiPress, UiConnect, UiDial, UiDisconnect, UiPause,
                  PollTest, PollRead, PollUse,
                  BackNoThread, Back, UiJoined
    <2>2. ui' # "join" \/ Back
      BY <1>2 DEF UiStep, UiPress, UiConnect, UiDial, UiDisconnect, UiPause,
                  PollTest, PollRead, PollUse,
                  BackNoThread, UiJoined
    <2>3. Back => cancelPending'
      BY DEF Back
    <2>4. QED
      BY <2>1, <2>2, <2>3
  <1>3. CASE Listen
    BY <1>3 DEF Listen
  <1>4. CASE ServerStep /\ ~Listen
    BY <1>4 DEF ServerStep, ThreadStart, Cancelled, CancelPoints, ConnectBack, ThreadDial,
                AoInit, SetRunning, PushTest, ReadData, PushFails, AoDeinit, CloseRemote,
                DelClient, StopClient, JoinClient, FreeClient, ClearClient, Resume,
                ResumeStore, CloseFd, ClearFd, ThreadEnds
  <1>5. CASE Accept
    BY <1>5 DEF Accept, AcceptReturns
  <1>6. ASSUME NEW c \in Clients, CapStep(c) \/ PeerHangsUp(c) PROVE JoinInv'
    BY <1>6 DEF CapStep, CapInit, CapSetRunning, CapTest, CapSend, CapFails, Sigpipe,
                CapDeinit, CapCloseFd, PeerHangsUp
  <1>7. CASE RemoteHangsUp \/ Dead \/ UNCHANGED vars
    BY <1>7 DEF RemoteHangsUp, Dead, vars
  <1>8. QED
    BY <1>1, <1>2, <1>3, <1>4, <1>5, <1>6, <1>7 DEF Next

LEMMA SpecJoinInv == Spec => []JoinInv
  <1>1. Init => JoinInv
    BY DEF Init, JoinInv
  <1>2. QED
    BY <1>1, NextJoinInv, SpecIInv, PTL DEF Spec

\* A step of the server thread goes on along the way, and back to its loop
\* only in a call.
Onward ==
    \/ Nearer
    \/ st = "push" /\ st' = "read" /\ state = "RUNNING"
    \/ st = "read" /\ st' = "push" /\ remote = "open"

LEMMA ServerOnward == ServerStep => Onward
  <1> SUFFICES ASSUME ServerStep PROVE Onward
    OBVIOUS
  <1> USE DEF Onward, Nearer, Way, ThreadAt, ThreadMoves
  <1>1. CASE ThreadStart
    BY <1>1 DEF ThreadStart
  <1>2. CASE Listen
    BY <1>2 DEF Listen
  <1>3. CASE Cancelled
    BY <1>3 DEF Cancelled, CancelPoints
  <1>4. CASE ConnectBack
    BY <1>4 DEF ConnectBack
  <1>5. CASE ThreadDial
    BY <1>5 DEF ThreadDial
  <1>6. CASE AoInit
    BY <1>6 DEF AoInit
  <1>7. CASE SetRunning
    BY <1>7 DEF SetRunning
  <1>8. CASE PushTest
    BY <1>8 DEF PushTest
  <1>9. CASE ReadData
    BY <1>9 DEF ReadData
  <1>10. CASE PushFails
    BY <1>10 DEF PushFails
  <1>11. CASE AoDeinit
    BY <1>11 DEF AoDeinit
  <1>12. CASE CloseRemote
    BY <1>12 DEF CloseRemote
  <1>13. CASE DelClient
    BY <1>13 DEF DelClient, StopClient
  <1>14. CASE JoinClient
    BY <1>14 DEF JoinClient, FreeClient
  <1>15. CASE ClearClient
    BY <1>15 DEF ClearClient
  <1>16. CASE Resume
    BY <1>16 DEF Resume
  <1>17. CASE ResumeStore
    BY <1>17 DEF ResumeStore
  <1>18. CASE CloseFd
    BY <1>18 DEF CloseFd
  <1>19. CASE ClearFd
    BY <1>19 DEF ClearFd, ThreadEnds
  <1>20. QED
    BY <1>1, <1>2, <1>3, <1>4, <1>5, <1>6, <1>7, <1>8, <1>9, <1>10,
       <1>11, <1>12, <1>13, <1>14, <1>15, <1>16, <1>17, <1>18, <1>19 DEF ServerStep

\* Who else moves the thread: only a page that opens, and a caller.
LEMMA OthersLeaveThread ==
    ASSUME [Next]_vars, ~ServerStep, ~OpenPage, ~Accept
    PROVE  st' = st
  <1> USE DEF UiAt, CapAt, threadVars
  <1>1. CASE UiStep
    BY <1>1 DEF UiStep, UiPress, UiConnect, UiDial, UiDisconnect, UiPause,
                  PollTest, PollRead, PollUse,
                BackNoThread, Back, UiJoined
  <1>2. ASSUME NEW c \in Clients, CapStep(c) \/ PeerHangsUp(c) PROVE st' = st
    BY <1>2 DEF CapStep, CapInit, CapSetRunning, CapTest, CapSend, CapFails, Sigpipe,
                CapDeinit, CapCloseFd, PeerHangsUp
  <1>3. CASE RemoteHangsUp \/ Dead \/ UNCHANGED vars
    BY <1>3 DEF RemoteHangsUp, Dead, vars
  <1>4. QED
    BY <1>1, <1>2, <1>3 DEF Next

\* While the page waits for the thread no further call is accepted, and the
\* thread goes on towards its end, whatever it stores over the EXIT.
THEOREM LeavingNearsEnd == Spec => LeavingAdvances
  <1>1. ASSUME IInv, JoinInv, [Next]_vars
        PROVE  [ui = "join" /\ ui' = "join" =>
                  \/ Nearer
                  \/ st = "push" /\ st' = "read"
                  \/ st = "read" /\ st' = "push" /\ remote = "open"]_vars
    <2> SUFFICES ASSUME ui = "join", ui' = "join"
                 PROVE  \/ Nearer
                        \/ st = "push" /\ st' = "read"
                        \/ st = "read" /\ st' = "push" /\ remote = "open"
      OBVIOUS
    <2>1. ~OpenPage
      BY DEF OpenPage
    <2>2. ~Accept
      BY <1>1 DEF Accept, AcceptReturns, ThreadAt, JoinInv
    <2>3. QED
      BY <1>1, <2>1, <2>2, ServerOnward, OthersLeaveThread DEF Onward, Nearer
  <1>2. QED
    BY <1>1, SpecIInv, SpecJoinInv, PTL DEF Spec, LeavingAdvances

\* Who stores what while a call is played or ended: neither a page that opens
\* nor one that has joined, and no start, resume or end of the thread.
LEMMA StoresInCall ==
    ASSUME IInv, [Next]_vars, HungUp
    PROVE  state' \in {"PAUSE", "EXIT"} /\ ~OpenPage /\ ~Accept
  <1> USE DEF HungUp, UiAt, ThreadAt, ThreadMoves, CapAt, structVars
  <1>1. ServerStep => state' \in {"PAUSE", "EXIT"}
    BY DEF ServerStep, ThreadStart, Listen, Cancelled, ConnectBack, ThreadDial, AoInit,
           SetRunning, PushTest, ReadData, PushFails, AoDeinit, CloseRemote, DelClient,
           StopClient, JoinClient, FreeClient, ClearClient, Resume, ResumeStore,
           CloseFd, ClearFd, ThreadEnds, SetState
  <1>2. ~OpenPage
    BY DEF OpenPage, IInv, PageInv, ThreadHasServer, Over
  <1>3. ~Accept
    BY DEF Accept, AcceptReturns
  <1>4. UiStep => state' \in {"PAUSE", "EXIT"}
    BY <1>2 DEF UiStep, UiPress, UiConnect, UiDial, UiDisconnect, UiPause,
                  PollTest, PollRead, PollUse,
                BackNoThread, Back, UiJoined
  <1>5. ASSUME NEW c \in Clients, CapStep(c) \/ PeerHangsUp(c)
        PROVE  state' \in {"PAUSE", "EXIT"}
    BY <1>5 DEF CapStep, CapInit, CapSetRunning, CapTest, CapSend, CapFails, Sigpipe,
                CapDeinit, CapCloseFd, PeerHangsUp
  <1>6. RemoteHangsUp \/ Dead \/ UNCHANGED vars => state' \in {"PAUSE", "EXIT"}
    BY DEF RemoteHangsUp, Dead, vars
  <1>7. state' \in {"PAUSE", "EXIT"}
    BY <1>1, <1>3, <1>4, <1>5, <1>6 DEF Next
  <1>8. QED
    BY <1>2, <1>3, <1>7

\* A hang-up during the call is never lost: no store overwrites it before the
\* connection is closed, and it is acted on at the next test.
THEOREM HangUpNotLost == Spec => HangUpKept
  <1>1. ASSUME IInv, [Next]_vars
        PROVE  [HungUp => /\ state' \in {"PAUSE", "EXIT"}
                          /\ Nearer \/ (st = "read" /\ st' = "push")]_vars
    <2> SUFFICES ASSUME HungUp
                 PROVE  /\ state' \in {"PAUSE", "EXIT"}
                        /\ Nearer \/ (st = "read" /\ st' = "push")
      OBVIOUS
    <2>1. state' \in {"PAUSE", "EXIT"} /\ ~OpenPage /\ ~Accept
      BY <1>1, StoresInCall
    <2>2. Onward \/ st' = st
      BY <1>1, <2>1, ServerOnward, OthersLeaveThread
    <2>3. QED
      BY <2>1, <2>2 DEF Onward, Nearer, HungUp
  <1>2. QED
    BY <1>1, SpecIInv, PTL DEF Spec, HangUpKept

-----------------------------------------------------------------------------
(* The two promises themselves.  The provers know no ENABLED, so the       *)
(* fairness is GuardedFairness; and the ways to the end of a call and to   *)
(* the end of the thread are chains of as many links as they have places.  *)

CallOver == remote = "none" \/ ~alive

\* The call that was hung up, on its way to its end: places is what is left.
Ending(places) == alive /\ HungUp /\ st \in places

\* A step of the thread, or of another, after a hang-up.
LEMMA EndingSteps ==
    ASSUME IInv, [Next]_vars, Ending({"read", "push", "aoDeinit", "closeRemote"})
    PROVE  /\ ~ServerStep => st' = st /\ state' \in {"PAUSE", "EXIT"}
           /\ ServerStep =>
                /\ state' \in {"PAUSE", "EXIT"}
                /\ st = "read" => st' \in {"push", "aoDeinit"}
                /\ st = "push" => st' = "aoDeinit"
                /\ st = "aoDeinit" => st' = "closeRemote"
                /\ st = "closeRemote" => remote' = "none"
  <1>1. state' \in {"PAUSE", "EXIT"} /\ ~OpenPage /\ ~Accept
    BY StoresInCall DEF Ending
  <1>2. ~ServerStep => st' = st
    BY <1>1, OthersLeaveThread
  <1>3. ~cancelOn
    BY DEF Ending, IInv, CallResources, Over
  <1>4. ServerStep =>
            /\ st = "read" => st' \in {"push", "aoDeinit"}
            /\ st = "push" => st' = "aoDeinit"
            /\ st = "aoDeinit" => st' = "closeRemote"
            /\ st = "closeRemote" => remote' = "none"
    BY <1>3 DEF Ending, HungUp, ServerStep, ThreadStart, Listen, Cancelled, ConnectBack,
                ThreadDial, AoInit, SetRunning, PushTest, ReadData, PushFails, AoDeinit,
                CloseRemote, DelClient, StopClient, JoinClient, FreeClient, ClearClient,
                Resume, ResumeStore, CloseFd, ClearFd, ThreadEnds, ThreadAt, ThreadMoves
  <1>5. QED
    BY <1>1, <1>2, <1>4

\* What a link needs, between two sets of places.
EndLink(from, to) ==
    /\ IInv /\ IInv' /\ Ending(from) /\ [Next]_vars => Ending(from)' \/ CallOver'
    /\ IInv /\ IInv' /\ Ending(from) /\ [Next]_vars /\ <<ServerStep>>_vars
           => Ending(to)' \/ CallOver'
    /\ Ending(from) => ServerCan

LEMMA EndLinks ==
    /\ EndLink({"read", "push", "aoDeinit", "closeRemote"}, {"push", "aoDeinit", "closeRemote"})
    /\ EndLink({"push", "aoDeinit", "closeRemote"}, {"aoDeinit", "closeRemote"})
    /\ EndLink({"aoDeinit", "closeRemote"}, {"closeRemote"})
    /\ EndLink({"closeRemote"}, {})
  BY EndingSteps DEF EndLink, Ending, HungUp, CallOver, ServerCan, Over

\* A hang-up ends the call it was meant for, if the server thread runs on: the
\* property HangUpEndsCall.
THEOREM HangUpEnds == Spec /\ GuardedFairness => HangUpEndsCall
  <1>1. state = "PAUSE" /\ st \in {"push", "read"}
            => CallOver \/ Ending({"read", "push", "aoDeinit", "closeRemote"})
    BY DEF Ending, HungUp, CallOver
  <1>2. ~Ending({})
    BY DEF Ending
  <1>3. QED
    BY <1>1, <1>2, EndLinks, SpecIInv, PTL
       DEF EndLink, Spec, GuardedFairness, HangUpEndsCall, CallOver

-----------------------------------------------------------------------------
(* audio_server_del waits for the thread, which may wait for its capture   *)
(* thread; either may be in a loop that only the other device ends.        *)

LeaveInv == IInv /\ JoinInv /\ (ui = "join" => st # "none")

LEMMA SpecLeaveInv == Spec => []LeaveInv
  <1> DEFINE HasThread == ui = "join" => st # "none"
  <1>1. Init => HasThread
    BY DEF Init
  <1>2. IInv /\ HasThread /\ [Next]_vars => HasThread'
    <2> SUFFICES ASSUME IInv, HasThread, [Next]_vars, ui' = "join" PROVE st' # "none"
      OBVIOUS
    <2>1. CASE ServerStep \/ Accept
      BY <2>1 DEF ServerStep, ThreadStart, Listen, Cancelled, ConnectBack,
                ThreadDial, AoInit, SetRunning, PushTest, ReadData, PushFails, AoDeinit,
                CloseRemote, DelClient, StopClient, JoinClient, FreeClient, ClearClient,
                Resume, ResumeStore, CloseFd, ClearFd, ThreadEnds, ThreadAt, ThreadMoves,
                Accept, AcceptReturns
    <2>2. CASE UiStep
      BY <2>2 DEF UiStep, OpenPage, UiPress, UiConnect, UiDial, UiDisconnect, UiPause,
                  PollTest, PollRead, PollUse,
                  BackNoThread, Back, UiJoined, UiAt
    <2>3. CASE ~ServerStep /\ ~Accept /\ ~UiStep
      <3>1. st' = st
        BY <2>3, OthersLeaveThread DEF UiStep
      <3>2. ui' = ui
        BY <2>3 DEF Next, CapStep, CapInit, CapSetRunning, CapTest, CapSend, CapFails, Sigpipe,
                CapDeinit, CapCloseFd, CapAt, PeerHangsUp, RemoteHangsUp, Dead, vars, uiVars
      <3>3. QED
        BY <3>1, <3>2
    <2>4. QED
      BY <2>1, <2>2, <2>3
  <1> HIDE DEF HasThread
  <1>3. Spec => []HasThread
    BY <1>1, <1>2, SpecIInv, PTL DEF Spec
  <1>4. IInv /\ JoinInv /\ HasThread => LeaveInv
    BY DEF LeaveInv, HasThread
  <1>5. QED
    BY <1>3, <1>4, SpecIInv, SpecJoinInv, PTL

Returned == ui # "join" \/ ~alive

\* The page waits, and the thread has k places to go, or no more than k.
LeavingAt(k)     == alive /\ ui = "join" /\ Way[st] = k
LeavingWithin(k) == alive /\ ui = "join" /\ Way[st] <= k

LEMMA WayIsNumber ==
    LeaveInv => /\ Way[st] \in 0 .. 16
                /\ ui = "join" =>
                     /\ Way[st] = 12 <=> st \in {"push", "read"}
                     /\ Way[st] = 8 <=> st = "join"
                     /\ Way[st] = 0 <=> st \in {"ended", "cancelled"}
                     /\ Way[st] \in 13 .. 16 \cup 9 .. 11 \cup 1 .. 7 =>
                          st \notin {"none", "ended", "cancelled", "join"}
  BY DEF LeaveInv, IInv, TypeOK, Places, InCall, Way

\* What any step does to a page that waits.
LEMMA LeavingSteps ==
    ASSUME LeaveInv, LeaveInv', [Next]_vars, alive, ui = "join", ~Returned'
    PROVE  /\ Onward \/ st' = st
           /\ ~ServerStep => st' = st
           /\ Way[st'] <= Way[st]
           /\ ui' = "join" /\ alive'
  <1>1. ui' = "join" /\ alive'
    BY DEF Returned
  <1>2. ~OpenPage
    BY DEF OpenPage
  <1>3. ~Accept
    BY DEF Accept, AcceptReturns, ThreadAt, LeaveInv, JoinInv
  <1>4. Onward \/ st' = st
    BY <1>2, <1>3, ServerOnward, OthersLeaveThread
  <1>5. ~ServerStep => st' = st
    BY <1>2, <1>3, OthersLeaveThread
  <1>6. Way[st'] <= Way[st]
    <2>1. Way[st] \in 0 .. 16 /\ Way[st'] \in 0 .. 16
      <3>1. st \in Places /\ st' \in Places
        BY DEF LeaveInv, IInv, TypeOK
      <3>2. QED
        BY <3>1 DEF Places, InCall, Way
    <2>2. Way["push"] = Way["read"]
      BY DEF Way
    <2>3. st' = st \/ Way[st'] < Way[st] \/ Way[st'] = Way[st]
      BY <1>4, <2>2 DEF Onward, Nearer
    <2>4. QED
      BY <2>1, <2>3
  <1>7. QED
    BY <1>1, <1>4, <1>5, <1>6

\* What a link needs: that no step leads back, and that the thread goes on.
LeavingLink(j, k) ==
    /\ LeaveInv /\ LeaveInv' /\ LeavingWithin(k) /\ [Next]_vars
           => LeavingWithin(k)' \/ Returned'
    /\ LeaveInv /\ LeavingWithin(k) => LeavingAt(k) \/ LeavingWithin(j)

ThreadLink(j, k) ==
    /\ LeaveInv /\ LeaveInv' /\ LeavingAt(k) /\ [Next]_vars /\ <<ServerStep>>_vars
           => LeavingWithin(j)' \/ Returned'
    /\ LeaveInv /\ LeavingAt(k) => ServerCan

LEMMA LeavingLinks ==
    ASSUME NEW j \in 0 .. 15, NEW k, k = j + 1
    PROVE  LeavingLink(j, k)
  <1>1. ASSUME LeaveInv, LeaveInv', LeavingWithin(k), [Next]_vars, ~Returned'
        PROVE  LeavingWithin(k)'
    <2>1. /\ Way[st'] <= Way[st] /\ Way[st] <= k
          /\ ui' = "join" /\ alive'
      BY <1>1, LeavingSteps DEF LeavingWithin
    <2>2. Way[st] \in 0 .. 16 /\ Way[st'] \in 0 .. 16
      <3>1. st \in Places /\ st' \in Places
        BY <1>1 DEF LeaveInv, IInv, TypeOK
      <3>2. QED
        BY <3>1 DEF Places, InCall, Way
    <2>3. QED
      BY <2>1, <2>2 DEF LeavingWithin
  <1>2. ASSUME LeaveInv, LeavingWithin(k) PROVE LeavingAt(k) \/ LeavingWithin(j)
    <2>1. Way[st] \in 0 .. 16 /\ Way[st] <= k
      BY <1>2, WayIsNumber DEF LeavingWithin
    <2>2. Way[st] = k \/ Way[st] <= j
      BY <2>1
    <2>3. QED
      BY <1>2, <2>2 DEF LeavingWithin, LeavingAt
  <1>3. QED
    BY <1>1, <1>2 DEF LeavingLink

LEMMA ThreadLinks ==
    ASSUME NEW j \in 0 .. 15, NEW k, k = j + 1, k # 8, k # 12
    PROVE  ThreadLink(j, k)
  <1>1. ASSUME LeaveInv, LeaveInv', LeavingAt(k), [Next]_vars, ServerStep, ~Returned'
        PROVE  LeavingWithin(j)'
    <2>1. /\ Onward
          /\ ui' = "join" /\ alive' /\ Way[st] = k
      BY <1>1, LeavingSteps, ServerOnward DEF LeavingAt
    <2>2. st \notin {"push", "read"}
      BY <2>1 DEF Way
    <2>3. st' # st
      BY <1>1, <2>2 DEF ServerStep, ThreadStart, Listen, Cancelled, CancelPoints, ConnectBack,
                ThreadDial, AoInit, SetRunning, PushTest, ReadData, PushFails, AoDeinit,
                CloseRemote, DelClient, StopClient, JoinClient, FreeClient, ClearClient,
                Resume, ResumeStore, CloseFd, ClearFd, ThreadEnds, ThreadAt, ThreadMoves
    <2>4. Way[st'] < Way[st]
      BY <2>1, <2>2, <2>3 DEF Onward, Nearer
    <2>5. Way[st'] \in 0 .. 16
      <3>1. st' \in Places
        BY <1>1 DEF LeaveInv, IInv, TypeOK
      <3>2. QED
        BY <3>1 DEF Places, InCall, Way
    <2>6. Way[st'] <= j
      BY <2>1, <2>4, <2>5
    <2>7. QED
      BY <2>1, <2>6 DEF LeavingWithin
  <1>2. ASSUME LeaveInv, LeavingAt(k) PROVE ServerCan
    <2>1. st \notin {"none", "ended", "cancelled", "join"}
      BY <1>2 DEF Way, LeavingAt
    <2>2. st = "accept" => cancelPending /\ cancelOn
      BY <1>2 DEF LeaveInv, JoinInv, LeavingAt
    <2>3. QED
      BY <1>2, <2>1, <2>2 DEF ServerCan, Over, LeavingAt
  <1>3. QED
    BY <1>1, <1>2 DEF ThreadLink

\* The loop of a call: the other device hangs up, and then the next read fails.
HungUpCall == LeavingAt(12) /\ remote # "open"
AtRead == HungUpCall /\ st = "read"

LEMMA CallSteps ==
    ASSUME LeaveInv, LeaveInv', [Next]_vars, LeavingAt(12), ~Returned',
           ~LeavingWithin(11)'
    PROVE  /\ LeavingAt(12)'
           /\ remote # "open" => remote' # "open"
           /\ RemoteHangsUp => remote' # "open"
           /\ remote # "open" /\ st = "read" => st' = "read" /\ ~ServerStep
           /\ remote # "open" /\ ServerStep => st' = "read"
  <1>1. /\ Onward \/ st' = st
        /\ ~ServerStep => st' = st
        /\ Way[st'] <= Way[st] /\ Way[st] = 12
        /\ ui' = "join" /\ alive'
    BY LeavingSteps DEF LeavingAt
  <1>2. Way[st'] \in 0 .. 16
    <2>1. st' \in Places
      BY DEF LeaveInv, IInv, TypeOK
    <2>2. QED
      BY <2>1 DEF Places, InCall, Way
  <1>3. Way[st'] = 12
    <2>1. ~(Way[st'] <= 11)
      BY <1>1 DEF LeavingWithin
    <2>2. QED
      BY <1>1, <1>2, <2>1
  <1>4. st \in {"push", "read"} /\ st' \in {"push", "read"}
    <2>1. st \in Places /\ st' \in Places
      BY DEF LeaveInv, IInv, TypeOK
    <2>2. QED
      BY <1>1, <1>3, <2>1 DEF Places, InCall, Way
  <1>5. remote # "open" => remote' # "open"
    BY <1>4 DEF Next, UiStep, OpenPage, UiPress, UiConnect, UiDial, UiDisconnect, UiPause,
                  PollTest, PollRead, PollUse, BackNoThread, Back, UiJoined, UiAt, ServerStep, ThreadStart, Listen,
                Cancelled, ConnectBack, ThreadDial, AoInit, SetRunning, PushTest, ReadData,
                PushFails, AoDeinit, CloseRemote, DelClient, StopClient, JoinClient,
                FreeClient, ClearClient, Resume, ResumeStore, CloseFd, ClearFd, ThreadEnds,
                ThreadAt, ThreadMoves, SetState, callVars, Accept, AcceptReturns, CapStep,
                CapInit, CapSetRunning, CapTest, CapSend, CapFails, Sigpipe, CapDeinit,
                CapCloseFd, CapAt, PeerHangsUp, RemoteHangsUp, Dead, vars
  <1>6. RemoteHangsUp => remote' # "open"
    BY DEF RemoteHangsUp
  <1>7. ASSUME ServerStep, remote # "open" PROVE st = "push" /\ st' = "read"
    <2>1. Onward
      BY <1>7, ServerOnward
    <2>2. st' # st
      BY <1>4, <1>7 DEF ServerStep, ThreadStart, Listen, Cancelled, CancelPoints, ConnectBack,
                ThreadDial, AoInit, SetRunning, PushTest, ReadData, PushFails, AoDeinit,
                CloseRemote, DelClient, StopClient, JoinClient, FreeClient, ClearClient,
                Resume, ResumeStore, CloseFd, ClearFd, ThreadEnds, ThreadAt, ThreadMoves
    <2>3. ~Nearer
      BY <1>1, <1>3, <2>2 DEF Nearer
    <2>4. QED
      BY <1>7, <2>1, <2>3 DEF Onward
  <1>8. QED
    BY <1>1, <1>3, <1>5, <1>6, <1>7 DEF LeavingAt

\* The join of the capture thread: its connection is hung up, and then the
\* next write of the thread is its last.
PeerGone == LeavingAt(8) /\ conn[delArg] # "open"

CapLeft ==
    [init |-> 6, setRun |-> 5, loop |-> 4, write |-> 3, deinit |-> 2,
     closeFd |-> 1, ended |-> 0, none |-> 0][cap[delArg]]

CapWithin(k) == PeerGone /\ CapLeft <= k

LEMMA CapLeftIsNumber ==
    LeaveInv /\ st = "join"
        => /\ delArg \in Clients /\ cap[delArg] \in CapPlaces
           /\ CapLeft \in 0 .. 6
           /\ CapLeft = 0 <=> cap[delArg] \in {"none", "ended"}
  BY DEF LeaveInv, IInv, ClientInv, TypeOK, CapPlaces, CapLeft

\* What the capture threads and the other device do to the one waited for.
LEMMA CapSteps ==
    ASSUME LeaveInv, LeaveInv', NEW c \in Clients, CapStep(c) \/ PeerHangsUp(c),
           LeavingAt(8), ~Returned'
    PROVE  /\ LeavingAt(8)' /\ delArg' = delArg
           /\ conn[delArg] # "open" => conn'[delArg] # "open"
           /\ c # delArg => cap'[delArg] = cap[delArg] /\ CapLeft' = CapLeft
           /\ conn[delArg] # "open" /\ c = delArg => CapLeft' < CapLeft
           /\ c = delArg /\ PeerHangsUp(c) => conn'[delArg] # "open"
  <1> USE DEF CapAt, CapStores, CapStep, CapInit, CapSetRunning, CapTest, CapSend, CapFails,
              Sigpipe, CapDeinit, CapCloseFd, PeerHangsUp
  <1>1. UNCHANGED <<ui, st, delArg>>
    BY DEF threadVars, uiVars
  <1>2. LeavingAt(8)'
    BY <1>1 DEF LeavingAt, Returned
  <1>3. st = "join"
    BY WayIsNumber DEF LeavingAt
  <1>4. /\ delArg \in Clients
        /\ cap \in [Clients -> CapPlaces] /\ DOMAIN conn = Clients
    BY <1>3, CapLeftIsNumber DEF LeaveInv, IInv, TypeOK
  <1>5. alive'
    BY DEF Returned
  <1>6. conn[delArg] # "open" => conn'[delArg] # "open"
    BY <1>4, <1>5
  <1>7. c = delArg /\ PeerHangsUp(c) => conn'[delArg] # "open"
    BY <1>4
  <1>8. c # delArg => cap'[delArg] = cap[delArg]
    BY <1>4, <1>5
  <1>9. c # delArg => CapLeft' = CapLeft
    BY <1>1, <1>8 DEF CapLeft
  <1>10. ASSUME conn[delArg] # "open", c = delArg PROVE CapLeft' < CapLeft
    <2>1. \/ cap[c] = "init" /\ cap'[c] \in {"setRun", "closeFd"}
          \/ cap[c] = "setRun" /\ cap'[c] = "loop"
          \/ cap[c] = "loop" /\ cap'[c] \in {"write", "deinit"}
          \/ cap[c] = "write" /\ cap'[c] = "deinit"
          \/ cap[c] = "deinit" /\ cap'[c] = "closeFd"
          \/ cap[c] = "closeFd" /\ cap'[c] = "ended"
      BY <1>4, <1>5, <1>10
    <2>2. QED
      BY <1>1, <1>10, <2>1 DEF CapLeft
  <1>11. QED
    BY <1>1, <1>2, <1>6, <1>7, <1>8, <1>9, <1>10

\* What any step does to a page and a thread that both wait.
LEMMA JoinSteps ==
    ASSUME LeaveInv, LeaveInv', [Next]_vars, LeavingAt(8), ~Returned',
           ~LeavingWithin(7)'
    PROVE  /\ LeavingAt(8)' /\ ~ServerStep
           /\ PeerGone => PeerGone' /\ CapLeft' <= CapLeft
           /\ PeerGone /\ CapGoes => CapLeft' < CapLeft
           /\ PeerLeaves => PeerGone'
  <1>1. st = "join" /\ delArg \in Clients /\ CapLeft \in 0 .. 6
    <2>1. st = "join"
      BY WayIsNumber DEF LeavingAt
    <2>2. QED
      BY <2>1, CapLeftIsNumber
  <1>2. ui = "join" /\ alive /\ ui' = "join" /\ alive'
    BY DEF LeavingAt, Returned
  <1>3. ~ServerStep
    <2>1. ServerStep => Way[st'] <= 7
      <3>1. ServerStep => st' \in {"clear", "cancelled"}
        BY <1>1 DEF ServerStep, ThreadStart, Listen,
                Cancelled, ConnectBack, ThreadDial, AoInit, SetRunning, PushTest, ReadData,
                PushFails, AoDeinit, CloseRemote, DelClient, StopClient, JoinClient,
                FreeClient, ClearClient, Resume, ResumeStore, CloseFd, ClearFd, ThreadEnds,
                ThreadAt, ThreadMoves
      <3>2. QED
        BY <3>1 DEF Way
    <2>2. QED
      BY <1>2, <2>1 DEF LeavingWithin
  <1>4. ASSUME NEW c \in Clients, CapStep(c) \/ PeerHangsUp(c)
        PROVE  /\ LeavingAt(8)'
               /\ PeerGone => PeerGone' /\ CapLeft' <= CapLeft
               /\ PeerGone /\ c = delArg => CapLeft' < CapLeft
               /\ c = delArg /\ PeerHangsUp(c) => PeerGone'
    <2>1. /\ LeavingAt(8)' /\ delArg' = delArg
          /\ conn[delArg] # "open" => conn'[delArg] # "open"
          /\ c # delArg => CapLeft' = CapLeft
          /\ conn[delArg] # "open" /\ c = delArg => CapLeft' < CapLeft
          /\ c = delArg /\ PeerHangsUp(c) => conn'[delArg] # "open"
      BY <1>4, CapSteps
    <2>2. st' = "join"
      BY <2>1 DEF LeavingAt, LeaveInv, IInv, TypeOK, Places, InCall, Way
    <2>3. CapLeft' \in 0 .. 6
      BY <2>2 DEF LeaveInv, IInv, ClientInv, TypeOK, CapPlaces, CapLeft
    <2>4. QED
      BY <1>1, <2>1, <2>3 DEF PeerGone
  <1>5. CASE RemoteHangsUp \/ UNCHANGED vars
    <2>1. UNCHANGED <<ui, st, delArg, cap, conn>>
      BY <1>5 DEF RemoteHangsUp, uiVars, threadVars, clientVars, vars
    <2>2. CapLeft' = CapLeft /\ (PeerGone => PeerGone') /\ LeavingAt(8)'
      BY <1>2, <2>1 DEF CapLeft, PeerGone, LeavingAt
    <2>3. QED
      BY <1>1, <1>3, <1>4, <2>2 DEF CapGoes, PeerLeaves
  <1>6. ASSUME NEW c \in Clients, CapStep(c) \/ PeerHangsUp(c)
        PROVE  /\ LeavingAt(8)'
               /\ PeerGone => PeerGone' /\ CapLeft' <= CapLeft
               /\ PeerGone /\ CapGoes => CapLeft' < CapLeft
               /\ PeerLeaves => PeerGone'
    BY <1>4, <1>6 DEF CapGoes, PeerLeaves
  <1>7. ~UiStep
    BY <1>2 DEF UiStep, OpenPage, UiPress, UiConnect, UiDial, UiDisconnect, UiPause,
                  PollTest, PollRead, PollUse,
                BackNoThread, Back, UiJoined, UiAt
  <1>8. ~Accept /\ ~Dead
    BY <1>1, <1>2 DEF Accept, AcceptReturns, ThreadAt, Dead
  <1>9. QED
    BY <1>3, <1>5, <1>6, <1>7, <1>8 DEF Next

\* What a link of the capture thread's way needs.
CapLink(j, k) ==
    /\ LeaveInv /\ LeaveInv' /\ CapWithin(k) /\ [Next]_vars
           => CapWithin(k)' \/ LeavingWithin(7)' \/ Returned'
    /\ LeaveInv /\ LeaveInv' /\ CapWithin(k) /\ [Next]_vars /\ <<CapGoes>>_vars
           => CapWithin(j)' \/ LeavingWithin(7)' \/ Returned'
    /\ LeaveInv /\ CapWithin(k) => CapWithin(0) \/ CapCan

LEMMA CapLinks ==
    ASSUME NEW j \in 0 .. 5, NEW k, k = j + 1
    PROVE  CapLink(j, k)
  <1>1. ASSUME LeaveInv, LeaveInv', CapWithin(k), [Next]_vars, ~Returned',
               ~LeavingWithin(7)'
        PROVE  CapWithin(k)' /\ (CapGoes => CapWithin(j)')
    <2>1. /\ LeavingAt(8)' /\ PeerGone' /\ CapLeft' <= CapLeft
          /\ CapGoes => CapLeft' < CapLeft
      BY <1>1, JoinSteps DEF CapWithin, PeerGone
    <2>2. CapLeft \in 0 .. 6 /\ CapLeft <= k
      BY <1>1, WayIsNumber, CapLeftIsNumber DEF CapWithin, PeerGone, LeavingAt
    <2>3. CapLeft' \in 0 .. 6
      <3>1. st' = "join"
        BY <1>1, <2>1 DEF LeavingAt, LeaveInv, IInv, TypeOK, Places, InCall, Way
      <3>2. QED
        BY <1>1, <3>1 DEF LeaveInv, IInv, ClientInv, TypeOK, CapPlaces, CapLeft
    <2>4. CapLeft' <= k /\ (CapGoes => CapLeft' <= j)
      BY <2>1, <2>2, <2>3
    <2>5. QED
      BY <2>1, <2>4 DEF CapWithin
  <1>2. ASSUME LeaveInv, CapWithin(k), ~CapCan PROVE CapWithin(0)
    <2>1. st = "join" /\ alive
      BY <1>2, WayIsNumber DEF CapWithin, PeerGone, LeavingAt
    <2>2. CapLeft = 0
      BY <1>2, <2>1, CapLeftIsNumber DEF CapCan
    <2>3. QED
      BY <1>2, <2>2 DEF CapWithin
  <1>3. QED
    BY <1>1, <1>2 DEF CapLink

\* The ends of that way.
LEMMA CapEnds ==
    /\ LeaveInv /\ LeaveInv' /\ LeavingAt(8) /\ [Next]_vars
           => LeavingAt(8)' \/ LeavingWithin(7)' \/ Returned'
    /\ LeaveInv /\ LeaveInv' /\ LeavingAt(8) /\ [Next]_vars /\ <<PeerLeaves>>_vars
           => PeerGone' \/ LeavingWithin(7)' \/ Returned'
    /\ LeaveInv /\ LeavingAt(8) => PeerGone \/ PeerCan
    /\ LeaveInv /\ PeerGone => CapWithin(6)
    /\ LeaveInv /\ LeaveInv' /\ CapWithin(0) /\ [Next]_vars
           => CapWithin(0)' \/ LeavingWithin(7)' \/ Returned'
    /\ LeaveInv /\ LeaveInv' /\ CapWithin(0) /\ [Next]_vars /\ <<ServerStep>>_vars
           => LeavingWithin(7)' \/ Returned'
    /\ LeaveInv /\ CapWithin(0) => ServerCan
  <1>1. LeaveInv /\ LeavingAt(8) => st = "join" /\ alive /\ CapLeft \in 0 .. 6
    BY WayIsNumber, CapLeftIsNumber DEF LeavingAt
  <1>2. LeaveInv /\ LeavingAt(8) => PeerGone \/ PeerCan
    BY <1>1 DEF PeerGone, PeerCan
  <1>3. LeaveInv /\ PeerGone => CapWithin(6)
    BY <1>1 DEF PeerGone, CapWithin
  <1>4. LeaveInv /\ CapWithin(0) => ServerCan
    <2> SUFFICES ASSUME LeaveInv, CapWithin(0) PROVE ServerCan
      OBVIOUS
    <2>1. st = "join" /\ alive /\ CapLeft \in 0 .. 6 /\ CapLeft <= 0
      BY <1>1 DEF CapWithin, PeerGone
    <2>2. cap[delArg] \in {"none", "ended"}
      BY <2>1, CapLeftIsNumber
    <2>3. QED
      BY <2>1, <2>2 DEF ServerCan, Over
  <1>5. ASSUME LeaveInv, LeaveInv', CapWithin(0), [Next]_vars, ~Returned',
               ~LeavingWithin(7)'
        PROVE  CapWithin(0)'
    <2>1. PeerGone' /\ LeavingAt(8)' /\ CapLeft' <= CapLeft /\ CapLeft <= 0
      BY <1>5, JoinSteps DEF CapWithin, PeerGone
    <2>2. CapLeft \in 0 .. 6
      BY <1>1, <1>5 DEF CapWithin, PeerGone
    <2>3. CapLeft' \in 0 .. 6
      <3>1. st' = "join"
        BY <1>5, <2>1 DEF LeavingAt, LeaveInv, IInv, TypeOK, Places, InCall, Way
      <3>2. QED
        BY <1>5, <3>1 DEF LeaveInv, IInv, ClientInv, TypeOK, CapPlaces, CapLeft
    <2>4. QED
      BY <2>1, <2>2, <2>3 DEF CapWithin
  <1>6. QED
    BY <1>2, <1>3, <1>4, <1>5, JoinSteps DEF CapWithin, PeerGone

\* The same of the loop of a call.
LEMMA CallEnds ==
    /\ LeaveInv /\ LeaveInv' /\ LeavingAt(12) /\ [Next]_vars
           => LeavingAt(12)' \/ LeavingWithin(11)' \/ Returned'
    /\ LeaveInv /\ LeaveInv' /\ LeavingAt(12) /\ [Next]_vars /\ <<RemoteHangsUp>>_vars
           => HungUpCall' \/ LeavingWithin(11)' \/ Returned'
    /\ LeavingAt(12) => HungUpCall \/ (alive /\ remote = "open")
    /\ LeaveInv /\ LeaveInv' /\ HungUpCall /\ [Next]_vars
           => HungUpCall' \/ LeavingWithin(11)' \/ Returned'
    /\ LeaveInv /\ LeaveInv' /\ HungUpCall /\ [Next]_vars /\ <<ServerStep>>_vars
           => AtRead' \/ LeavingWithin(11)' \/ Returned'
    /\ LeaveInv /\ LeaveInv' /\ AtRead /\ [Next]_vars
           => AtRead' \/ LeavingWithin(11)' \/ Returned'
    /\ LeaveInv /\ LeaveInv' /\ AtRead /\ [Next]_vars /\ <<ServerStep>>_vars
           => LeavingWithin(11)' \/ Returned'
    /\ LeaveInv /\ HungUpCall => ServerCan
    /\ AtRead => HungUpCall
  <1>1. LeaveInv /\ HungUpCall => ServerCan
    BY WayIsNumber DEF HungUpCall, LeavingAt, ServerCan, Over
  <1>2. LeavingAt(12) => HungUpCall \/ (alive /\ remote = "open")
    BY DEF HungUpCall, LeavingAt
  <1>3. QED
    BY <1>1, <1>2, CallSteps DEF HungUpCall, AtRead

\* The thread is over: the join returns.
LEMMA LeavingDone ==
    /\ LeaveInv /\ LeaveInv' /\ LeavingWithin(0) /\ [Next]_vars
           => LeavingWithin(0)' \/ Returned'
    /\ LeaveInv /\ LeaveInv' /\ LeavingWithin(0) /\ [Next]_vars
           /\ <<UiGoesOn>>_vars => Returned'
    /\ LeaveInv /\ LeavingWithin(0) => JoinCan
    /\ LeaveInv /\ ~Returned => LeavingWithin(16)
  <1>1. LeaveInv => Way[st] \in 0 .. 16
    BY WayIsNumber
  <1>2. LeaveInv' => Way[st'] \in 0 .. 16
    BY DEF LeaveInv, IInv, TypeOK, Places, InCall, Way
  <1>3. LeaveInv /\ LeavingWithin(0) => JoinCan
    BY <1>1, WayIsNumber DEF LeavingWithin, JoinCan
  <1>4. LeaveInv /\ ~Returned => LeavingWithin(16)
    BY <1>1 DEF Returned, LeavingWithin
  <1>5. LeavingWithin(0) /\ UiGoesOn => Returned'
    BY DEF LeavingWithin, UiGoesOn, UiConnect, UiDial, UiDisconnect, UiPause, PollRead,
           PollUse, UiJoined, UiAt, Returned
  <1>6. LeaveInv /\ LeaveInv' /\ LeavingWithin(0) /\ [Next]_vars /\ ~Returned'
            => LeavingWithin(0)'
    BY <1>1, <1>2, LeavingSteps DEF LeavingWithin
  <1>7. QED
    BY <1>3, <1>4, <1>5, <1>6

\* The three parts of the way that need the thread only, ...
LEMMA ThreadPasses ==
    Spec /\ GuardedFairness =>
        /\ LeavingWithin(16) ~> LeavingWithin(12) \/ Returned
        /\ LeavingWithin(11) ~> LeavingWithin(8) \/ Returned
        /\ LeavingWithin(7) ~> Returned
  <1>1. /\ ThreadLink(15, 16) /\ ThreadLink(14, 15) /\ ThreadLink(13, 14)
        /\ ThreadLink(12, 13) /\ ThreadLink(10, 11) /\ ThreadLink(9, 10)
        /\ ThreadLink(8, 9)
    BY ThreadLinks
  <1>2. /\ ThreadLink(6, 7) /\ ThreadLink(5, 6) /\ ThreadLink(4, 5)
        /\ ThreadLink(3, 4) /\ ThreadLink(2, 3) /\ ThreadLink(1, 2) /\ ThreadLink(0, 1)
    BY ThreadLinks
  <1>3. /\ LeavingLink(15, 16) /\ LeavingLink(14, 15) /\ LeavingLink(13, 14)
        /\ LeavingLink(12, 13) /\ LeavingLink(10, 11) /\ LeavingLink(9, 10)
        /\ LeavingLink(8, 9)
    BY LeavingLinks
  <1>4. /\ LeavingLink(6, 7) /\ LeavingLink(5, 6) /\ LeavingLink(4, 5)
        /\ LeavingLink(3, 4) /\ LeavingLink(2, 3) /\ LeavingLink(1, 2)
        /\ LeavingLink(0, 1)
    BY LeavingLinks
  <1>5. Spec /\ GuardedFairness =>
            /\ LeavingWithin(16) ~> LeavingWithin(12) \/ Returned
            /\ LeavingWithin(11) ~> LeavingWithin(8) \/ Returned
    BY <1>1, <1>3, SpecLeaveInv, PTL DEF ThreadLink, LeavingLink, Spec, GuardedFairness
  <1>6. Spec /\ GuardedFairness => (LeavingWithin(7) ~> Returned)
    BY <1>2, <1>4, LeavingDone, SpecLeaveInv, PTL
       DEF ThreadLink, LeavingLink, Spec, GuardedFairness
  <1>7. QED
    BY <1>5, <1>6, PTL

\* ... the loop of a call, ...
LEMMA CallPasses ==
    Spec /\ GuardedFairness /\ GuardedHangUps
        => (LeavingWithin(12) ~> LeavingWithin(11) \/ Returned)
  <1>1. LeavingLink(11, 12)
    BY LeavingLinks
  <1>2. QED
    BY <1>1, CallEnds, SpecLeaveInv, PTL
       DEF LeavingLink, Spec, GuardedFairness, GuardedHangUps

\* ... and the join of the capture thread.
LEMMA CapPasses ==
    Spec /\ GuardedFairness /\ GuardedHangUps
        => (LeavingWithin(8) ~> LeavingWithin(7) \/ Returned)
  <1>1. LeavingLink(7, 8)
    BY LeavingLinks
  <1>2. /\ CapLink(0, 1) /\ CapLink(1, 2) /\ CapLink(2, 3) /\ CapLink(3, 4)
        /\ CapLink(4, 5) /\ CapLink(5, 6)
    BY CapLinks
  <1>3. QED
    BY <1>1, <1>2, CapEnds, SpecLeaveInv, PTL
       DEF LeavingLink, CapLink, Spec, GuardedFairness, GuardedHangUps

\* audio_server_del comes back, wherever it finds the server thread and the
\* capture thread, and whichever of its stores they overwrite: if the threads
\* run on and the other device hangs up.
THEOREM LeavingReturns ==
    Spec /\ GuardedFairness /\ GuardedHangUps => JoinReturns
  <1>1. LeaveInv /\ ~Returned => LeavingWithin(16)
    BY LeavingDone
  <1>2. ui = "join" /\ Returned => ui # "join" \/ ~alive
    BY DEF Returned
  <1>3. Returned => ui # "join" \/ ~alive
    BY DEF Returned
  <1>4. QED
    BY <1>1, <1>3, ThreadPasses, CallPasses, CapPasses, SpecLeaveInv, PTL DEF JoinReturns

\* The property LeavingEnds, from what the run of it shows of the guards.
THEOREM LeavingEndsGuarded ==
    Spec /\ GuardedFairness /\ HangUpsGuarded => LeavingEnds
  BY LeavingReturns, PTL DEF HangUpsGuarded, LeavingEnds

=============================================================================
