----------------------------- MODULE BtServer -----------------------------
(***************************************************************************)
(* The Bluetooth server (wifibt/bt_server.c): a thread that reads commands *)
(* from a pipe, the callback that the Bluetooth library runs on a thread   *)
(* of its own, and the UI thread that sends the commands.                  *)
(*                                                                         *)
(* The UI thread sends through bt_query, or through bt_query_wait, which   *)
(* blocks until the server posts the semaphore.  Only BT_INFO is ever sent *)
(* with bt_query_wait, and only the UI thread sends: there is one waiter.  *)
(* The server reads up to 1024 bytes, which is all the pipe holds, and     *)
(* handles the first command of what it read.                              *)
(*                                                                         *)
(* The library (rk_bt) is not in the repository: it is modelled by what    *)
(* bt_server.c uses of it, a stack that comes up and goes down some time   *)
(* after it was asked, reports both, and in between reports the state of   *)
(* the link and of the player.  The commands that only call the library    *)
(* are one command, BT_MEDIA.  track_changed and pos_changed are handled   *)
(* alike: Flags names those a model has.                                   *)
(***************************************************************************)
EXTENDS Integers, Sequences

CONSTANTS
    Flags,              \* which of "track" and "pos" are modelled
    QueueMax            \* bound: the commands the UI may leave in the pipe

ASSUME FlagsAssumption == Flags \subseteq {"track", "pos"}

ASSUME QueueMaxAssumption == QueueMax \in Nat

VARIABLES
    listening,          \* the server accepts commands
    pipe,               \* the commands written and not read
    srv,                \* where the server thread is
    cur,                \* the command it read
    timeout,            \* its local timeout
    sem,                \* the value of the semaphore
    init,               \* bt_content.init
    info,               \* bt_info
    stack,              \* the library's stack
    profile,            \* rk_bt_set_profile was called since the last init
    ui,                 \* the UI thread: "idle", or "waiting" in sem_wait
    newInfo             \* new_info, the buffer the UI asks to be filled

uiVars  == <<ui, newInfo>>
srvVars == <<listening, srv, cur, timeout>>
libVars == <<stack, profile>>
vars    == <<srvVars, pipe, sem, init, info, libVars, uiVars>>

BtStates == {"OFF", "ON", "CONNECTED", "PAUSED", "PLAYING"}
Info     == [state : BtStates, changed : [Flags -> BOOLEAN]]

\* BT_SINK_TRACK_CLEAR and BT_SINK_POS_CLEAR are the members of Flags.
Commands == {"ENABLE", "DISABLE", "SINK_ENABLE", "MEDIA"} \cup Flags
Message  == [cmd : Commands \cup {"INFO"}, wait : BOOLEAN]
Places   == {"warmup", "read", "handle", "bleInit", "wait", "post"}

TypeOK ==
    /\ listening \in BOOLEAN
    /\ pipe \in Seq(Message)
    /\ srv \in Places
    /\ cur \in Message
    /\ timeout \in -1 .. 3
    /\ sem \in Nat
    /\ init \in BOOLEAN
    /\ info \in Info
    /\ stack \in {"off", "starting", "on", "stopping"}
    /\ profile \in BOOLEAN
    /\ ui \in {"idle", "waiting"}
    /\ newInfo \in Info

\* What the buffer holds between two commands, when nothing looks at it or at
\* timeout: the model forgets both after each command.
NoCommand == [cmd |-> "MEDIA", wait |-> FALSE]

Nothing == [state |-> "OFF", changed |-> [f \in Flags |-> FALSE]]

Init ==
    /\ listening = FALSE /\ pipe = <<>> /\ srv = "warmup"
    /\ cur = NoCommand /\ timeout = 0
    /\ sem = 0 /\ init = FALSE /\ info = Nothing
    /\ stack = "off" /\ profile = FALSE
    /\ ui = "idle" /\ newInfo = Nothing

-----------------------------------------------------------------------------
(* The UI thread.                                                          *)

Write(m) ==
    /\ ui = "idle" /\ listening /\ Len(pipe) < QueueMax
    /\ pipe' = Append(pipe, m)
    /\ UNCHANGED <<srvVars, sem, init, info, libVars, newInfo>>

\* bt_query.
Send(c) == Write([cmd |-> c, wait |-> FALSE]) /\ UNCHANGED ui

\* Mutant: the UI asks for the information and does not wait for it.
QueryNoWait == Write([cmd |-> "INFO", wait |-> FALSE]) /\ UNCHANGED ui

\* bt_query_wait, up to its sem_wait.
Query == Write([cmd |-> "INFO", wait |-> TRUE]) /\ ui' = "waiting"

QueryReturns ==
    /\ ui = "waiting" /\ sem > 0
    /\ ui' = "idle" /\ sem' = sem - 1
    /\ UNCHANGED <<srvVars, pipe, init, info, libVars, newInfo>>

-----------------------------------------------------------------------------
(* The server thread.                                                      *)

\* The warm-up file is gone.
Warmup ==
    /\ srv = "warmup" /\ srv' = "read" /\ listening' = TRUE
    /\ UNCHANGED <<cur, timeout, pipe, sem, init, info, libVars, uiVars>>

\* One read takes all the pipe holds; the first command is handled.
Read ==
    /\ srv = "read" /\ pipe # <<>>
    /\ srv' = "handle" /\ cur' = Head(pipe) /\ pipe' = <<>>
    /\ UNCHANGED <<listening, timeout, sem, init, info, libVars, uiVars>>

\* The server starts to handle a command c and goes on to another place.
Handles(c, to) ==
    /\ srv = "handle" /\ cur.cmd = c /\ srv' = to
    /\ UNCHANGED <<listening, pipe, cur, sem>>

\* bt_ble_init finds the stack open; or it clears bt_content.  What
\* rk_bt_is_open answers while the stack starts or stops is not known.
Enable ==
    /\ \/ Handles("ENABLE", "wait") /\ stack # "off"
          /\ info' = [info EXCEPT !.state = "ON"] /\ timeout' = 3
          /\ UNCHANGED init
       \/ Handles("ENABLE", "bleInit") /\ stack # "on"
          /\ init' = FALSE /\ UNCHANGED <<info, timeout>>
    /\ UNCHANGED <<libVars, uiVars>>

\* The rest of bt_ble_init: the default state, and rk_bt_init.
BleInit ==
    /\ srv = "bleInit" /\ srv' = "wait" /\ timeout' = 3
    /\ init' = FALSE
    /\ stack' = IF stack = "on" THEN "on" ELSE "starting"
    /\ profile' = FALSE
    /\ UNCHANGED <<listening, cur, pipe, sem, info, uiVars>>

\* Mutant: the wait does not stop at zero.
WaitSecondPastZero ==
    /\ srv = "wait" /\ ~init /\ timeout' = timeout - 1
    /\ UNCHANGED <<listening, srv, cur, pipe, sem, init, info, libVars, uiVars>>

\* while (!bt_content.init && (timeout--)) sleep(1).
WaitSecond ==
    /\ srv = "wait" /\ ~init /\ timeout > 0 /\ timeout' = timeout - 1
    /\ UNCHANGED <<listening, srv, cur, pipe, sem, init, info, libVars, uiVars>>

\* Mutant: the wait has no limit.
WaitEndsOnInit ==
    /\ srv = "wait" /\ init /\ srv' = "post"
    /\ timeout' = timeout
    /\ profile' = (profile \/ timeout' # 0)
    /\ UNCHANGED <<listening, cur, pipe, sem, init, info, stack, uiVars>>

\* The wait ends, with timeout = -1 when it expired; if (timeout != 0)
\* rk_bt_set_profile.
WaitEnds ==
    /\ srv = "wait" /\ (init \/ timeout = 0) /\ srv' = "post"
    /\ timeout' = IF init THEN timeout ELSE -1
    /\ profile' = (profile \/ timeout' # 0)
    /\ UNCHANGED <<listening, cur, pipe, sem, init, info, stack, uiVars>>

Disable ==
    /\ Handles("DISABLE", "post")
    /\ stack' = IF stack = "off" THEN "off" ELSE "stopping"
    /\ UNCHANGED <<timeout, init, info, profile, uiVars>>

SinkEnable ==
    /\ Handles("SINK_ENABLE", "post")
    /\ profile' = (profile \/ init)
    /\ UNCHANGED <<timeout, init, info, stack, uiVars>>

Media ==
    /\ Handles("MEDIA", "post")
    /\ UNCHANGED <<timeout, init, info, libVars, uiVars>>

Clear(f) ==
    /\ Handles(f, "post")
    /\ info' = [info EXCEPT !.changed[f] = FALSE]
    /\ UNCHANGED <<timeout, init, libVars, uiVars>>

\* Mutant: the semaphore is posted before new_info is filled.
TellInfoPostFirst ==
    /\ srv = "handle" /\ cur.cmd = "INFO" /\ srv' = "post"
    /\ sem' = sem + 1 /\ cur' = [cur EXCEPT !.wait = FALSE]
    /\ UNCHANGED <<listening, pipe, newInfo>>
    /\ UNCHANGED <<timeout, init, info, libVars, ui>>

\* bt_sink_info: the copy of bt_info into the UI's buffer.
TellInfo ==
    /\ Handles("INFO", "post") /\ newInfo' = info
    /\ UNCHANGED <<timeout, init, info, libVars, ui>>

\* Mutant: the sender is left waiting.
PostForgotten ==
    /\ srv = "post" /\ srv' = "read"
    /\ cur' = NoCommand /\ timeout' = 0
    /\ UNCHANGED sem
    /\ UNCHANGED <<listening, pipe, init, info, libVars, uiVars>>

\* if (cmdarg->wait) sem_post(&sem).
Post ==
    /\ srv = "post" /\ srv' = "read"
    /\ cur' = NoCommand /\ timeout' = 0
    /\ sem' = IF cur.wait THEN sem + 1 ELSE sem
    /\ UNCHANGED <<listening, pipe, init, info, libVars, uiVars>>

-----------------------------------------------------------------------------
(* The library's callback thread, bt_test_state_cb.                        *)

InitOn ==
    /\ stack = "starting" /\ stack' = "on"
    /\ init' = TRUE /\ info' = [info EXCEPT !.state = "ON"]
    /\ UNCHANGED <<srvVars, pipe, sem, profile, uiVars>>

InitOff ==
    /\ stack = "stopping" /\ stack' = "off"
    /\ init' = FALSE /\ info' = [info EXCEPT !.state = "OFF"]
    /\ UNCHANGED <<srvVars, pipe, sem, profile, uiVars>>

\* RK_BT_STATE_CONNECTED, _DISCONN (ON or OFF), _DISCONN_ALREADY (ON),
\* _CONNECTED_ALREADY, _SINK_PLAY, _SINK_STOP and _SINK_PAUSE.
LinkState ==
    /\ stack \in {"on", "stopping"}
    /\ \E s \in BtStates : info' = [info EXCEPT !.state = s]
    /\ UNCHANGED <<srvVars, pipe, sem, init, libVars, uiVars>>

\* RK_BT_STATE_SINK_TRACK and _SINK_POSITION.
SinkReport(f) ==
    /\ stack \in {"on", "stopping"}
    /\ info' = [info EXCEPT !.changed[f] = TRUE]
    /\ UNCHANGED <<srvVars, pipe, sem, init, libVars, uiVars>>

-----------------------------------------------------------------------------

Ui     == Query \/ QueryReturns \/ \E c \in Commands : Send(c)
Server == \/ Warmup \/ Read \/ Enable \/ BleInit \/ WaitSecond \/ WaitEnds
          \/ Disable \/ SinkEnable \/ Media \/ \E f \in Flags : Clear(f)
          \/ TellInfo \/ Post
Callback == InitOn \/ InitOff \/ LinkState \/ \E f \in Flags : SinkReport(f)

Next == Ui \/ Server \/ Callback

Spec == Init /\ [][Next]_vars

\* The server thread runs, its sleeps and the library's calls return, and a
\* posted semaphore wakes the UI.  The library owes no callback.
Fairness == WF_vars(Server) /\ WF_vars(QueryReturns)

FairSpec == Spec /\ Fairness

-----------------------------------------------------------------------------
(* Where the UI's query is.                                                *)

InPipe == \E i \in 1 .. Len(pipe) : pipe[i].wait

InService == cur.wait /\ srv \in {"handle", "bleInit", "wait", "post"}

\* The UI waits for a query that was read behind another command.
Lost == ui = "waiting" /\ ~InPipe /\ ~InService /\ sem = 0

\* A post is owed to the waiting UI once only: by a query in the pipe, where
\* nothing can come after it, by the one in service, or by the semaphore.
\* No post is left over for a later query, which would return before its
\* answer was copied.
OneAnswer ==
    /\ sem > 0 => sem = 1 /\ ui = "waiting" /\ ~InService /\ ~InPipe
    /\ InService => ui = "waiting" /\ ~InPipe
    /\ InPipe => ui = "waiting" /\ pipe[Len(pipe)].wait
    /\ \A i \in 1 .. Len(pipe) : pipe[i].wait => i = Len(pipe)

\* The copy into new_info never meets a UI thread that reads it: the server
\* copies only for a UI that waits for this copy.
CopyOnlyForWaiter ==
    srv = "handle" /\ cur.cmd = "INFO" => cur.wait /\ ui = "waiting"

\* A query alone in the pipe is not lost: only a read that finds a command
\* before it drops it.
LostOnlyBehind == [][~Lost /\ Lost' => Len(pipe) > 1 /\ pipe' = <<>>]_vars

\* How many steps the server is from its next read, the seconds of the wait of
\* BT_ENABLE counted in; and from the answer to the query.
UntilReadFrom(place, seconds) ==
    IF place = "wait" THEN 3 + seconds
    ELSE [handle |-> 8, bleInit |-> 7, post |-> 2, read |-> 1, warmup |-> 2][place]

UntilRead == UntilReadFrom(srv, timeout)

UntilAnswer ==
    IF sem > 0 THEN 0 ELSE IF InService THEN UntilRead ELSE 10 + UntilRead

\* Every step of the server brings the answer to a query nearer, unless it
\* loses the query, and nothing the library reports takes it back: a stack that
\* comes up or goes down meanwhile neither restarts nor prolongs the wait.
AnswerNears ==
    [][ui = "waiting" /\ ui' = "waiting" /\ sem = 0 /\ ~Lost /\ ~Lost' =>
         /\ Server => UntilAnswer' < UntilAnswer
         /\ ~Server => UntilAnswer' = UntilAnswer]_vars

\* The promise of bt_query_wait to its caller.
Reply == INSTANCE QueryReply WITH
    Values <- Info,
    phase <- IF ui = "idle" THEN "idle"
             ELSE IF sem > 0 \/ (InService /\ srv = "post") THEN "answered"
             ELSE IF Lost THEN "lost"
             ELSE "asked",
    reply <- newInfo,
    source <- info

QueryReplyImplemented == Reply!Spec

\* RkBtBase.h asks to wait for INIT_ON after rk_bt_init: the profile is set
\* only in an initialised stack.
ProfileAfterInit == [][profile' /\ ~profile => init]_vars
=============================================================================
