---------------------------- MODULE AudioServer ----------------------------
(***************************************************************************)
(* The intercom call of one device: the call page's UI thread              *)
(* (ui_intercom_call.c), the audio server thread (audio_server.c) and one  *)
(* capture thread per audio client (audio_client.c), with the remote       *)
(* devices as the environment.                                             *)
(*                                                                         *)
(* The page owns one struct audio_server.  Its thread listens, accepts one *)
(* connection at a time, calls the other side back (audio_server_connect   *)
(* creates an audio client, whose capture thread sends the microphone) and *)
(* plays what it receives until the call ends.  The UI thread dials, hangs *)
(* up, polls the call's state every 100 ms, and deletes the server when    *)
(* the page closes.  No lock protects any of it.                           *)
(*                                                                         *)
(* A step is one access to a shared field, or a library call with the      *)
(* accesses to private data around it.  An allocation takes a client name  *)
(* never used before, so a freed client stays recognisable: Clients bounds *)
(* the number of allocations, and past it audio_client_new only fails.     *)
(***************************************************************************)
EXTENDS Integers

CONSTANTS
    Clients,        \* the audio clients that can be allocated
    NoClient        \* the null client pointer

ASSUME NoClientAssumption == NoClient \notin Clients

VARIABLES
    page,           \* is the call page open (static main)
    ui,             \* what the UI thread is doing
    uiClient,       \* the pointer state_update read from server->client
    lastRunning,    \* static last_state = STATE_RUNNING
    shown,          \* the call button's label: "call" or "hangup"
    server,         \* is the page's pointer to its server not null
    sfd,            \* server->fd # -1
    state,          \* server->state
    client,         \* server->client
    st,             \* where the server thread is
    cancelOn,       \* the server thread's cancellation is enabled
    cancelPending,  \* pthread_cancel was called
    delArg,         \* the argument of the audio_client_del in progress
    lsock,          \* is the listening socket open
    remote,         \* the accepted connection
    ao,             \* is the audio output open
    mem,            \* per client: its memory
    cstate,         \* per client: client->state
    cap,            \* per client: where its capture thread is
    conn,           \* per client: its connection
    alive           \* the process runs

uiRest     == <<page, uiClient, lastRunning, shown>>
uiVars     == <<ui, uiRest>>
structVars == <<server, sfd, state, client>>
threadVars == <<st, cancelOn, cancelPending, delArg>>
callVars   == <<lsock, remote, ao>>
clientVars == <<mem, cstate, cap, conn>>
vars == <<uiVars, structVars, threadVars, callVars, clientVars, alive>>

States == {"IDLE", "RUNNING", "EXIT", "ERROR", "PAUSE"}

\* The places of the server thread, named for the line it is about to run.
InCall == {"connect", "dial", "aoInit", "setRun", "push", "read", "aoDeinit",
           "closeRemote"}
Places == {"none", "start", "loop", "accept", "delClient", "join", "clear",
           "resume", "resumeStore", "closeFd", "clearFd", "ended", "cancelled"}
          \cup InCall
Over == {"none", "ended", "cancelled"}

\* The places at a cancellation point: printf, accept, select, read, close,
\* pthread_join.
CancelPoints == {"loop", "accept", "connect", "dial", "aoInit", "read",
                 "closeRemote", "delClient", "join", "closeFd"}

CapPlaces == {"none", "init", "setRun", "loop", "write", "deinit", "closeFd",
              "ended"}

TypeOK ==
    /\ page \in BOOLEAN
    /\ ui \in {"idle", "connect", "dial", "disconnect", "pause", "poll", "use",
               "join"}
    /\ uiClient \in Clients \cup {NoClient}
    /\ lastRunning \in BOOLEAN
    /\ shown \in {"call", "hangup"}
    /\ server \in BOOLEAN
    /\ sfd \in BOOLEAN
    /\ state \in States
    /\ client \in Clients \cup {NoClient}
    /\ st \in Places
    /\ cancelOn \in BOOLEAN
    /\ cancelPending \in BOOLEAN
    /\ delArg \in Clients \cup {NoClient}
    /\ lsock \in BOOLEAN
    /\ remote \in {"none", "open", "hungUp"}
    /\ ao \in BOOLEAN
    /\ mem \in [Clients -> {"unused", "live", "freed"}]
    /\ cstate \in [Clients -> States]
    /\ cap \in [Clients -> CapPlaces]
    /\ conn \in [Clients -> {"none", "open", "hungUp", "closed"}]
    /\ alive \in BOOLEAN

Init ==
    /\ page = FALSE /\ ui = "idle" /\ uiClient = NoClient
    /\ lastRunning = FALSE /\ shown = "call"
    /\ server = FALSE /\ sfd = FALSE /\ state = "IDLE" /\ client = NoClient
    /\ st = "none" /\ cancelOn = TRUE /\ cancelPending = FALSE
    /\ delArg = NoClient
    /\ lsock = FALSE /\ remote = "none" /\ ao = FALSE
    /\ mem = [c \in Clients |-> "unused"]
    /\ cstate = [c \in Clients |-> "IDLE"]
    /\ cap = [c \in Clients |-> "none"]
    /\ conn = [c \in Clients |-> "none"]
    /\ alive = TRUE

\* A thread goes from one place to another; the variables it never writes stay.
UiAt(from, to) ==
    /\ alive /\ ui = from /\ ui' = to
    /\ UNCHANGED <<st, cancelOn, delArg, remote, ao, alive>>

ThreadAt(from, to) ==
    /\ alive /\ st = from /\ st' = to
    /\ UNCHANGED <<uiVars, server, cancelPending, alive>>

\* A step of the server thread that writes nothing but its place.
ThreadMoves(from, to) ==
    /\ ThreadAt(from, to)
    /\ UNCHANGED <<sfd, state, client, cancelOn, delArg, callVars, clientVars>>

CapAt(c, from, to) ==
    /\ alive /\ cap[c] = from /\ cap' = [cap EXCEPT ![c] = to]
    /\ UNCHANGED <<uiVars, structVars, threadVars, callVars, mem, alive>>

SetState(s) ==
    /\ state' = s
    /\ UNCHANGED <<sfd, client, cancelOn, delArg, callVars, clientVars>>

-----------------------------------------------------------------------------
(* audio_client_new: what the caller stores in server->client.  It fails   *)
(* (no memory, no socket, refused at once, or no answer in 3 s); or the    *)
(* client exists and its capture thread starts; or pthread_create failed   *)
(* with a positive error number, which "ret < 0" takes for success: a      *)
(* client without a thread.  A connection that is refused within the 3 s   *)
(* makes the socket writable, which connect_timeout takes for success.     *)

ClientNew ==
    \/ client' = NoClient /\ UNCHANGED clientVars
    \/ \E c \in Clients :
         /\ mem[c] = "unused"
         /\ mem' = [mem EXCEPT ![c] = "live"]
         /\ conn' \in {[conn EXCEPT ![c] = "open"], [conn EXCEPT ![c] = "hungUp"]}
         /\ cap' \in {[cap EXCEPT ![c] = "init"], cap}
         /\ client' = c
         /\ UNCHANGED cstate

-----------------------------------------------------------------------------
(* The UI thread.                                                          *)

\* intercom_call_ui_init: a fresh page, label and server.  audio_server_new
\* fails when the port cannot be bound (it always fails while an earlier
\* socket still holds the port), or its thread may not start unnoticed.
OpenPage ==
    /\ alive /\ ui = "idle" /\ ~page
    /\ page' = TRUE /\ shown' = "call"
    /\ \/ server' = FALSE /\ UNCHANGED <<sfd, state, client, threadVars, lsock>>
       \/ /\ ~lsock
          /\ server' = TRUE /\ sfd' = TRUE /\ lsock' = TRUE
          /\ state' = "IDLE" /\ client' = NoClient
          /\ st' \in {"start", "none"}
          /\ cancelOn' = TRUE /\ cancelPending' = FALSE
          /\ UNCHANGED delArg
    /\ UNCHANGED <<ui, uiClient, lastRunning, remote, ao, clientVars, alive>>

\* ui_call_cb: audio_server_connected reads server->client, and the function
\* that is called on its answer reads again: audio_server_connect the client,
UiPress ==
    /\ page /\ server
    /\ \/ UiAt("idle", "connect") /\ client = NoClient
       \/ UiAt("idle", "disconnect") /\ client # NoClient
    /\ UNCHANGED <<uiRest, structVars, cancelPending, lsock, clientVars>>

UiConnect ==
    /\ \/ UiAt("connect", "dial") /\ client = NoClient
       \/ UiAt("connect", "idle") /\ client # NoClient
    /\ UNCHANGED <<uiRest, structVars, cancelPending, lsock, clientVars>>

UiDial ==
    /\ UiAt("dial", "idle") /\ ClientNew
    /\ UNCHANGED <<uiRest, server, sfd, state, cancelPending, lsock>>

\* audio_server_disconnect the server's state.
UiDisconnect ==
    /\ \/ UiAt("disconnect", "pause") /\ state = "RUNNING"
       \/ UiAt("disconnect", "idle") /\ state # "RUNNING"
    /\ UNCHANGED <<uiRest, structVars, cancelPending, lsock, clientVars>>

UiPause ==
    /\ UiAt("pause", "idle")
    /\ state' = "PAUSE"
    /\ UNCHANGED <<uiRest, server, sfd, client, cancelPending, lsock, clientVars>>

\* state_update: the label follows a change of the call's state.
ShowState(running) ==
    /\ lastRunning' = running
    /\ shown' = IF running = lastRunning THEN shown
                ELSE IF running THEN "hangup" ELSE "call"

\* audio_server_state tests server->client and reads it again for
\* audio_client_state, which tests what it got and reads the client's state.
PollTest ==
    /\ page
    /\ \/ UiAt("idle", "poll") /\ server /\ client # NoClient
          /\ UNCHANGED <<lastRunning, shown>>
       \/ UiAt("idle", "idle") /\ ~(server /\ client # NoClient)
          /\ ShowState(FALSE)
    /\ UNCHANGED <<page, uiClient, structVars, cancelPending, lsock, clientVars>>

PollRead ==
    /\ UiAt("poll", "use") /\ uiClient' = client
    /\ UNCHANGED <<page, lastRunning, shown, structVars, cancelPending, lsock,
                   clientVars>>

\* What the poll can find: of a client that was freed since, anything.
RunningSeen(c) ==
    CASE c = NoClient -> {FALSE}
      [] c # NoClient /\ mem[c] = "live" -> {cstate[c] = "RUNNING"}
      [] OTHER -> BOOLEAN

PollUse ==
    /\ UiAt("use", "idle")
    /\ \E running \in RunningSeen(uiClient) : ShowState(running)
    /\ uiClient' = NoClient
    /\ UNCHANGED <<page, structVars, cancelPending, lsock, clientVars>>

\* btn_return_cb: audio_server_del gives up without a server or a thread.
BackNoThread ==
    /\ UiAt("idle", "idle") /\ page /\ (~server \/ st = "none")
    /\ page' = FALSE /\ server' = FALSE
    /\ UNCHANGED <<uiClient, lastRunning, shown, sfd, state, client,
                   cancelPending, lsock, clientVars>>

Back ==
    /\ UiAt("idle", "join") /\ page /\ server /\ st # "none"
    /\ state' = "EXIT" /\ cancelPending' = TRUE
    /\ UNCHANGED <<uiRest, server, sfd, client, lsock, clientVars>>

FreeServer ==
    /\ page' = FALSE /\ server' = FALSE /\ client' = NoClient /\ state' = "IDLE"
    /\ UNCHANGED <<uiClient, lastRunning, shown, cancelPending, clientVars>>

\* Mutant: the socket is left to the thread, which a cancellation may have
\* ended before it closed anything.
UiJoinedNoClose ==
    /\ UiAt("join", "idle") /\ st \in {"ended", "cancelled"} /\ FreeServer
    /\ UNCHANGED <<sfd, lsock>>

\* After the join: close the socket if the thread has not, free the server
\* (the fields of the freed struct go back to their initial values).
UiJoined ==
    /\ UiAt("join", "idle") /\ st \in {"ended", "cancelled"} /\ FreeServer
    /\ sfd' = FALSE /\ lsock' = (lsock /\ ~sfd)

-----------------------------------------------------------------------------
(* The server thread.                                                      *)

ThreadStart == ThreadAt("start", "loop") /\ SetState("RUNNING")

\* Mutant: cancellation is not enabled around accept.
ListenUncancellable ==
    /\ \/ ThreadAt("loop", "accept") /\ state = "RUNNING" /\ cancelOn' = FALSE
       \/ ThreadAt("loop", "closeFd") /\ state # "RUNNING" /\ UNCHANGED cancelOn
    /\ UNCHANGED <<sfd, state, client, delArg, callVars, clientVars>>

\* The loop's test, listen, and enabling cancellation for accept.
Listen ==
    \/ /\ ThreadAt("loop", "accept") /\ state = "RUNNING"
       /\ cancelOn' = TRUE
       /\ UNCHANGED <<sfd, state, client, delArg, callVars, clientVars>>
    \/ ThreadAt("loop", "closeFd") /\ state = "RUNNING" /\ SetState("ERROR")
    \/ ThreadMoves("loop", "closeFd") /\ state # "RUNNING"

AcceptReturns ==
    /\ ~(cancelPending /\ cancelOn)
    /\ \/ ThreadAt("accept", "connect") /\ remote' = "open"
       \/ ThreadAt("accept", "loop") /\ UNCHANGED remote
    /\ UNCHANGED <<sfd, state, client, delArg, lsock, ao, clientVars>>

\* Mutant: cancellation stays enabled during the call.
AcceptCancellable == AcceptReturns /\ UNCHANGED cancelOn

\* accept returns a connection, or fails and the loop continues; either way
\* cancellation is disabled.  With a cancellation pending it does not return.
Accept == AcceptReturns /\ cancelOn' = FALSE

\* A pending cancellation acts at a cancellation point, if enabled.
Cancelled ==
    /\ cancelPending /\ cancelOn
    /\ \E p \in CancelPoints : ThreadMoves(p, "cancelled")

\* audio_server_connect on the server thread: call the other side back,
\* unless the UI has already dialled.
ConnectBack ==
    \/ ThreadMoves("connect", "dial") /\ client = NoClient
    \/ ThreadMoves("connect", "aoInit") /\ client # NoClient

ThreadDial ==
    /\ ThreadAt("dial", "aoInit") /\ ClientNew
    /\ UNCHANGED <<sfd, state, cancelOn, delArg, callVars>>

AoInit ==
    /\ \/ ThreadAt("aoInit", "setRun") /\ ao' = TRUE
       \/ ThreadAt("aoInit", "closeRemote") /\ UNCHANGED ao
    /\ UNCHANGED <<sfd, state, client, cancelOn, delArg, lsock, remote,
                   clientVars>>

\* Overwrites an EXIT or a PAUSE that the UI stored since accept.
SetRunning == ThreadAt("setRun", "push") /\ SetState("RUNNING")

\* Mutant: only an EXIT ends the call.
PushTestExitOnly ==
    \/ ThreadMoves("push", "read") /\ state # "EXIT"
    \/ ThreadMoves("push", "aoDeinit") /\ state = "EXIT"

PushTest ==
    \/ ThreadMoves("push", "read") /\ state = "RUNNING"
    \/ ThreadMoves("push", "aoDeinit") /\ state # "RUNNING"

\* ao_push(ao_read): read blocks until the other side sends or hangs up.
ReadData == ThreadMoves("read", "push") /\ remote = "open"

\* The other side hung up, or the decoder refuses the data.
PushFails == ThreadMoves("read", "aoDeinit")

\* Mutant: a call that ends leaves the output open.
AoDeinitForgotten == ThreadMoves("aoDeinit", "closeRemote")

AoDeinit ==
    /\ ThreadAt("aoDeinit", "closeRemote") /\ ao' = FALSE
    /\ UNCHANGED <<sfd, state, client, cancelOn, delArg, lsock, remote,
                   clientVars>>

\* Mutant: the descriptor of the closed connection is kept.
CloseRemoteStale ==
    /\ ThreadAt("closeRemote", "delClient") /\ remote' = "closed"
    /\ UNCHANGED <<sfd, state, client, cancelOn, delArg, lsock, ao, clientVars>>

CloseRemote ==
    /\ ThreadAt("closeRemote", "delClient") /\ remote' = "none"
    /\ UNCHANGED <<sfd, state, client, cancelOn, delArg, lsock, ao, clientVars>>

StopClient ==
    /\ ThreadAt("delClient", "join") /\ client # NoClient
    /\ cstate' = [cstate EXCEPT ![client] = "EXIT"]
    /\ delArg' = client
    /\ UNCHANGED <<sfd, state, client, cancelOn, callVars, mem, cap, conn>>

\* Mutant: the client is deleted only after a call that was hung up.
DelClientPaused ==
    \/ StopClient /\ state = "PAUSE"
    \/ ThreadMoves("delClient", "clear") /\ (client = NoClient \/ state # "PAUSE")

\* audio_client_del: ask the capture thread to stop ...
DelClient ==
    \/ StopClient
    \/ ThreadMoves("delClient", "clear") /\ client = NoClient

FreeClient ==
    /\ ThreadAt("join", "clear")
    /\ mem' = [mem EXCEPT ![delArg] = "freed"]
    /\ UNCHANGED <<sfd, state, client, cancelOn, delArg, callVars, cstate, cap,
                   conn>>

\* Mutant: the client is freed without waiting for its capture thread.
JoinClientEarly == FreeClient

\* ... wait for it (if it ever started), and free the client.
JoinClient == FreeClient /\ cap[delArg] \in {"none", "ended"}

ClearClient ==
    /\ ThreadAt("clear", "resume")
    /\ client' = NoClient /\ delArg' = NoClient
    /\ UNCHANGED <<sfd, state, cancelOn, callVars, clientVars>>

\* A hang-up ends the call, not the server.
Resume ==
    \/ ThreadMoves("resume", "resumeStore") /\ state = "PAUSE"
    \/ ThreadMoves("resume", "loop") /\ state # "PAUSE"

ResumeStore == ThreadAt("resumeStore", "loop") /\ SetState("RUNNING")

CloseFd ==
    /\ ThreadAt("closeFd", "clearFd") /\ lsock' = FALSE
    /\ UNCHANGED <<sfd, state, client, cancelOn, delArg, remote, ao, clientVars>>

ThreadEnds ==
    /\ ThreadAt("clearFd", "ended")
    /\ state' = IF state = "ERROR" THEN "ERROR" ELSE "IDLE"
    /\ UNCHANGED <<client, cancelOn, delArg, callVars, clientVars>>

\* Mutant: server->fd keeps the closed descriptor.
ClearFdForgotten == ThreadEnds /\ UNCHANGED sfd

ClearFd == ThreadEnds /\ sfd' = FALSE

-----------------------------------------------------------------------------
(* The capture thread of client c (do_cap).                                *)

CapStores(c, s) ==
    cstate' = [cstate EXCEPT ![c] = s] /\ UNCHANGED conn

CapInit(c) ==
    \/ CapAt(c, "init", "setRun") /\ UNCHANGED <<cstate, conn>>
    \/ CapAt(c, "init", "closeFd") /\ CapStores(c, "ERROR")

\* Overwrites the EXIT of an audio_client_del that came first.
CapSetRunning(c) == CapAt(c, "setRun", "loop") /\ CapStores(c, "RUNNING")

CapTest(c) ==
    /\ \/ CapAt(c, "loop", "write") /\ cstate[c] = "RUNNING"
       \/ CapAt(c, "loop", "deinit") /\ cstate[c] # "RUNNING"
    /\ UNCHANGED <<cstate, conn>>

CapSend(c) ==
    CapAt(c, "write", "loop") /\ conn[c] = "open" /\ UNCHANGED <<cstate, conn>>

\* The frame cannot be fetched, or write fails.
CapFails(c) == CapAt(c, "write", "deinit") /\ UNCHANGED <<cstate, conn>>

\* Writing to a connection the other side closed raises SIGPIPE, which the
\* program leaves at its default: unless a library it links ignores the
\* signal (then CapFails), the whole process ends.
Sigpipe(c) ==
    /\ alive /\ cap[c] = "write" /\ conn[c] = "hungUp"
    /\ alive' = FALSE
    /\ UNCHANGED <<uiVars, structVars, threadVars, callVars, clientVars>>

CapDeinit(c) == CapAt(c, "deinit", "closeFd") /\ CapStores(c, "IDLE")

CapCloseFd(c) ==
    /\ CapAt(c, "closeFd", "ended")
    /\ conn' = [conn EXCEPT ![c] = "closed"]
    /\ UNCHANGED cstate

-----------------------------------------------------------------------------
(* The other device, and the dead process.                                 *)

RemoteHangsUp ==
    /\ alive /\ remote = "open"
    /\ remote' = "hungUp"
    /\ UNCHANGED <<uiVars, structVars, threadVars, lsock, ao, clientVars, alive>>

\* The reset of the peer has arrived, so that writes fail.  (The first write
\* after the peer closed may still succeed: that is a CapSend before.)
PeerHangsUp(c) ==
    /\ alive /\ conn[c] = "open"
    /\ conn' = [conn EXCEPT ![c] = "hungUp"]
    /\ UNCHANGED <<uiVars, structVars, threadVars, callVars, mem, cstate, cap,
                   alive>>

Dead == ~alive /\ UNCHANGED vars

UiStep ==
    \/ OpenPage \/ UiPress \/ UiConnect \/ UiDial \/ UiDisconnect \/ UiPause
    \/ PollTest \/ PollRead \/ PollUse \/ BackNoThread \/ Back \/ UiJoined

\* The steps the UI thread takes once it has begun, without the user.
UiGoesOn ==
    \/ UiConnect \/ UiDial \/ UiDisconnect \/ UiPause \/ PollRead \/ PollUse
    \/ UiJoined

\* What the server thread does without anybody's help.
ServerStep ==
    \/ ThreadStart \/ Listen \/ Cancelled \/ ConnectBack \/ ThreadDial
    \/ AoInit \/ SetRunning \/ PushTest \/ ReadData \/ PushFails \/ AoDeinit
    \/ CloseRemote \/ DelClient \/ JoinClient \/ ClearClient \/ Resume
    \/ ResumeStore \/ CloseFd \/ ClearFd

CapStep(c) ==
    \/ CapInit(c) \/ CapSetRunning(c) \/ CapTest(c) \/ CapSend(c)
    \/ CapFails(c) \/ Sigpipe(c) \/ CapDeinit(c) \/ CapCloseFd(c)

Next ==
    \/ UiStep
    \/ ServerStep
    \/ Accept
    \/ \E c \in Clients : CapStep(c) \/ PeerHangsUp(c)
    \/ RemoteHangsUp
    \/ Dead

Spec == Init /\ [][Next]_vars

\* Every thread runs.  ReadData and CapSend stand for the other device sending
\* and the microphone delivering; Accept and the user's presses are not fair.
FairSpec ==
    /\ Spec
    /\ WF_vars(ServerStep)
    /\ \A c \in Clients : WF_vars(CapStep(c))
    /\ WF_vars(UiGoesOn)

-----------------------------------------------------------------------------
(* Properties.                                                             *)

\* A client is freed only after its capture thread is over: do_cap, which
\* reads and writes its struct until its last line, never touches freed
\* memory (audio_client_del joins, then frees).
JoinedBeforeFree ==
    \A c \in Clients : mem[c] = "freed" => cap[c] \in {"none", "ended"}

\* The struct audio_server outlives its thread: the page frees it only when
\* the thread has ended or was cancelled (audio_server_del).
ThreadHasServer == st \notin Over => server

\* Cancellation strikes between two calls only: a cancelled thread has no
\* connection and no audio output open, was not deleting a client, and has
\* left the listening socket for audio_server_del to close (the setcancelstate
\* pair around accept).  A client the user dialled may be there still: nobody
\* deletes it then.
CancelledBetweenCalls ==
    st = "cancelled" /\ server =>
        remote = "none" /\ ~ao /\ delArg = NoClient /\ lsock /\ sfd

\* server->fd names the listening socket whenever somebody may close it, so
\* that it is closed once, whether the thread ends by itself, is cancelled, or
\* never starts (line 151 against line 235).
CloseOnce ==
    server => \/ sfd = lsock
              \/ st = "clearFd" /\ sfd /\ ~lsock

\* A page that was closed has left the line: no connection was kept, the
\* output is closed, and the port is free for the next page if the server's
\* thread ever ran (audio_server_del gives up when pthread_create had failed,
\* and then the port stays taken).  Clients are not part of the line, see
\* CalledBackDeleted.
ClosedPageLeavesLine ==
    ~page => remote = "none" /\ ~ao /\ (lsock => st = "none")

\* server->client points to a live client, except in the window between the
\* free and the assignment of NULL (lines 145 and 146).
ClientPointerLive ==
    server /\ client # NoClient =>
        mem[client] = "live" \/ (st = "clear" /\ client = delArg)

\* No client is deleted twice: the one being joined is still allocated.
NoDoubleDelete == st = "join" => mem[delArg] = "live"

\* The capture threads and the server thread use no freed memory: not the
\* capture threads their client, nor the server thread its server or the
\* client it deletes.  Three threads free and use the two structs, and no lock
\* orders them.  The UI's poll is not among them: it may hold a pointer that
\* was freed since it read it, or read it in the window (PollUse).
ThreadsUseLive ==
    /\ JoinedBeforeFree
    /\ ThreadHasServer
    /\ ClientPointerLive
    /\ NoDoubleDelete

\* A client is there only during the call it was made for, from the connection
\* back to the join of its deletion.
ClientsOfCalls ==
    \A c \in Clients : mem[c] = "live" =>
        /\ c = client
        /\ st \in (InCall \ {"connect", "dial"}) \cup {"delClient", "join"}

\* Every client the server makes to call back is deleted with its call, however
\* the call ends and wherever the page is closed or the thread cancelled, as
\* long as the user never dials.  (The client of a dial is deleted with the next
\* call that is accepted, if there is one, and one of the two is lost when the
\* user and the server dial at once.)
CalledBackDeleted == [](ui # "dial") => []ClientsOfCalls

Line ==
    INSTANCE CallLine WITH
        line <- IF remote # "none" THEN "connected"
                ELSE IF lsock THEN "listening" ELSE "closed",
        speaker <- ao

\* The threads implement the line and the speaker of CallLine: the output is
\* opened for a connection and released before it ends, and the socket closes
\* only between calls.
CallLineImplemented == Line!Spec

\* A hang-up stored while the call is played ends that call, as long as the
\* other side keeps sending or hangs up.
HangUpEndsCall ==
    (state = "PAUSE" /\ st \in {"push", "read"})
        ~> (remote = "none" \/ ~alive)

\* The other device eventually hangs up every connection.
OthersHangUp ==
    WF_vars(RemoteHangsUp) /\ \A c \in Clients : WF_vars(PeerHangsUp(c))

\* audio_server_del's join returns, although stores of EXIT may be overwritten.
JoinReturns == (ui = "join") ~> (ui # "join" \/ ~alive)

\* Leaving the page ends, if the other side hangs up its connections.
LeavingEnds == OthersHangUp => JoinReturns

\* The fairness with its guards in place of ENABLED: the server thread can go
\* on unless nobody calls, or it waits for the capture thread, ...
ServerCan ==
    /\ alive /\ st \notin Over
    /\ st = "accept" => cancelPending /\ cancelOn
    /\ st = "join" => cap[delArg] \in {"none", "ended"}

\* ... the capture thread that is waited for can, ...
CapCan  == alive /\ st = "join" /\ cap[delArg] \notin {"none", "ended"}
CapGoes == \E c \in Clients : c = delArg /\ CapStep(c)

\* ... and the UI thread when the server's thread is over.
JoinCan == alive /\ ui = "join" /\ st \in {"ended", "cancelled"}

GuardedFairness ==
    /\ []<>~ServerCan \/ []<><<ServerStep>>_vars
    /\ []<>~CapCan \/ []<><<CapGoes>>_vars
    /\ []<>~JoinCan \/ []<><<UiGoesOn>>_vars

\* The same of the other device: it hangs up the call, and the connection whose
\* capture thread is waited for.
PeerCan == alive /\ st = "join" /\ conn[delArg] = "open"
PeerLeaves == \E c \in Clients : c = delArg /\ PeerHangsUp(c)

GuardedHangUps ==
    /\ []<>~(alive /\ remote = "open") \/ []<><<RemoteHangsUp>>_vars
    /\ []<>~PeerCan \/ []<><<PeerLeaves>>_vars

HangUpsGuarded == OthersHangUp => GuardedHangUps

\* How far the server thread is from its end, if no call begins: nothing but
\* the loop of a call, from push to read and back, keeps it where it is.
Way ==
    [connect |-> 16, dial |-> 15, aoInit |-> 14, setRun |-> 13, push |-> 12,
     read |-> 12, aoDeinit |-> 11, closeRemote |-> 10, delClient |-> 9,
     join |-> 8, clear |-> 7, resume |-> 6, resumeStore |-> 5, start |-> 5,
     loop |-> 4, accept |-> 3, closeFd |-> 2, clearFd |-> 1,
     ended |-> 0, cancelled |-> 0, none |-> 0]

\* A step of the thread that is not a turn of the loop of a call.
Nearer == st' # st => Way[st'] < Way[st]

\* The safety half of LeavingEnds: once audio_server_del waits, every step of
\* the thread brings it nearer to its end, although it may store RUNNING over
\* the EXIT and go round the loop again; only a call whose other side has not
\* hung up can keep it.
LeavingAdvances ==
    [][ui = "join" /\ ui' = "join" =>
         \/ Nearer
         \/ st = "push" /\ st' = "read"
         \/ st = "read" /\ st' = "push" /\ remote = "open"]_vars

\* A hang-up, or an EXIT, was stored while the call is played.
HungUp == state \in {"PAUSE", "EXIT"} /\ st \in {"read", "push", "aoDeinit", "closeRemote"}

\* The safety half of HangUpEndsCall: nobody overwrites it before the
\* connection is closed, and the call reads at most once more.
HangUpKept ==
    [][HungUp => /\ state' \in {"PAUSE", "EXIT"}
                 /\ Nearer \/ (st = "read" /\ st' = "push")]_vars
=============================================================================
