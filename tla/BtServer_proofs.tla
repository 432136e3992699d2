-------------------------- MODULE BtServer_proofs --------------------------
(***************************************************************************)
(* Proofs about BtServer, for every set of flags and every bound on the    *)
(* number of commands in the pipe, and about the pages that use it.        *)
(***************************************************************************)
EXTENDS BtPages, TLAPS

\* Only a query waits, and every query does.
QueriesWait ==
    /\ \A i \in 1 .. Len(pipe) : pipe[i].wait <=> pipe[i].cmd = "INFO"
    /\ cur.wait <=> cur.cmd = "INFO"

\* The places of bt_ble_init and of the wait belong to BT_ENABLE.
EnablePlaces == srv \in {"bleInit", "wait"} => cur.cmd = "ENABLE"

IInv ==
    /\ TypeOK
    /\ QueriesWait
    /\ EnablePlaces
    /\ OneAnswer

\* What a pipe holds after one more command was written to it.
LEMMA Written ==
    ASSUME NEW s \in Seq(Message), NEW m \in Message, NEW t, t = Append(s, m)
    PROVE  /\ t \in Seq(Message)
           /\ Len(t) = Len(s) + 1
           /\ t[Len(s) + 1] = m
           /\ \A i \in 1 .. Len(s) : t[i] = s[i]
  OBVIOUS

\* What a read finds at the head of a pipe that is not empty.
LEMMA HeadOfPipe ==
    ASSUME NEW s \in Seq(Message), s # <<>>
    PROVE  Head(s) = s[1] /\ Head(s) \in Message /\ Len(s) \in Nat /\ Len(s) >= 1
  OBVIOUS

LEMMA InitIInv == Init => IInv
  <1> SUFFICES ASSUME Init PROVE IInv
    OBVIOUS
  <1>0. listening \in BOOLEAN /\ init \in BOOLEAN /\ profile \in BOOLEAN
    BY Zenon DEF Init
  <1>1. TypeOK
    BY <1>0 DEF Init, TypeOK, Nothing, NoCommand, Info, BtStates, Message,
                Commands, Places
  <1>2. QueriesWait /\ EnablePlaces /\ OneAnswer
    BY DEF Init, NoCommand, EnablePlaces, QueriesWait, OneAnswer, InPipe, InService
  <1>3. QED
    BY <1>1, <1>2 DEF IInv

\* Writing to the pipe keeps the invariant: bt_query and bt_query_wait.
LEMMA WriteIInv ==
    IInv /\ (Query \/ \E c \in Commands : Send(c)) => IInv'
  <1> SUFFICES ASSUME IInv, Query \/ \E c \in Commands : Send(c)
               PROVE  IInv'
    OBVIOUS
  <1> USE DEF IInv, EnablePlaces, Message, Commands
  <1>1. PICK m \in Message :
            /\ m.wait <=> m.cmd = "INFO"
            /\ pipe' = Append(pipe, m)
            /\ ui = "idle"
            /\ ui' = IF m.wait THEN "waiting" ELSE "idle"
            /\ UNCHANGED <<srvVars, sem, init, info, libVars, newInfo>>
    BY FlagsAssumption DEF Query, Send, Write, TypeOK
  <1>2. /\ pipe' \in Seq(Message)
        /\ Len(pipe') = Len(pipe) + 1
        /\ pipe'[Len(pipe) + 1] = m
        /\ \A i \in 1 .. Len(pipe) : pipe'[i] = pipe[i]
    BY <1>1, Written DEF TypeOK
  <1>3. Len(pipe) \in Nat
    BY DEF TypeOK
  <1>4. TypeOK'
    BY <1>1, <1>2 DEF TypeOK, srvVars, libVars
  <1>5. QueriesWait' /\ EnablePlaces'
    BY <1>1, <1>2, <1>3 DEF QueriesWait, srvVars
  <1>6. /\ sem = 0 /\ ~InService
        /\ \A i \in 1 .. Len(pipe) : ~pipe[i].wait
    BY <1>1 DEF OneAnswer, TypeOK, InPipe
  <1>7. OneAnswer'
    BY <1>1, <1>2, <1>3, <1>6 DEF OneAnswer, InPipe, InService, srvVars, TypeOK
  <1>8. QED
    BY <1>4, <1>5, <1>7

\* So does the server's read, which empties the pipe.
LEMMA ReadIInv == IInv /\ Read => IInv'
  <1> SUFFICES ASSUME IInv, Read PROVE IInv'
    OBVIOUS
  <1> USE DEF IInv, EnablePlaces
  <1>1. /\ Head(pipe) = pipe[1] /\ Head(pipe) \in Message
        /\ Len(pipe) \in Nat /\ Len(pipe) >= 1
    BY HeadOfPipe DEF Read, TypeOK
  <1>2. TypeOK'
    BY <1>1 DEF Read, TypeOK, Places, libVars, uiVars
  <1>3. QueriesWait' /\ EnablePlaces'
    BY <1>1 DEF Read, QueriesWait
  <1>4. OneAnswer'
    BY <1>1 DEF Read, OneAnswer, InPipe, InService, libVars, uiVars
  <1>5. QED
    BY <1>2, <1>3, <1>4

\* Every step keeps the invariant.
LEMMA NextIInv == IInv /\ [Next]_vars => IInv'
  <1> SUFFICES ASSUME IInv, [Next]_vars PROVE IInv'
    OBVIOUS
  <1>1. CASE Query \/ \E c \in Commands : Send(c)
    BY <1>1, WriteIInv
  <1>2. CASE Read
    BY <1>2, ReadIInv
  <1> USE DEF IInv, TypeOK, QueriesWait, EnablePlaces, OneAnswer, InPipe,
          InService, Places,
          Handles, vars, srvVars, libVars, uiVars
  <1>3. CASE QueryReturns
    BY <1>3 DEF QueryReturns
  <1>4. CASE Warmup
    <2>1. listening' \in BOOLEAN
      BY <1>4, Zenon DEF Warmup
    <2>2. QED
      BY <1>4, <2>1 DEF Warmup
  <1>5. CASE Enable
    <2>1. init' \in BOOLEAN
      BY <1>5, Zenon DEF Enable
    <2>2. QED
      BY <1>5, <2>1 DEF Enable, Info, BtStates
  <1>6. CASE BleInit
    <2>1. init' \in BOOLEAN /\ profile' \in BOOLEAN
      BY <1>6, Zenon DEF BleInit
    <2>2. QED
      BY <1>6, <2>1 DEF BleInit
  <1>7. CASE WaitSecond
    BY <1>7 DEF WaitSecond
  <1>8. CASE WaitEnds
    BY <1>8 DEF WaitEnds
  <1>9. CASE Disable
    BY <1>9 DEF Disable
  <1>10. CASE SinkEnable
    BY <1>10 DEF SinkEnable
  <1>11. CASE Media
    BY <1>11 DEF Media
  <1>12. ASSUME NEW f \in Flags, Clear(f) PROVE IInv'
    BY <1>12 DEF Clear, Info
  <1>13. CASE TellInfo
    BY <1>13 DEF TellInfo
  <1>14. CASE Post
    <2>1. NoCommand \in Message /\ ~NoCommand.wait /\ NoCommand.cmd # "INFO"
      BY DEF NoCommand, Message, Commands
    <2>2. QED
      BY <1>14, <2>1 DEF Post
  <1>15. CASE InitOn
    BY <1>15 DEF InitOn, Info, BtStates
  <1>16. CASE InitOff
    BY <1>16 DEF InitOff, Info, BtStates
  <1>17. CASE LinkState
    BY <1>17 DEF LinkState, Info
  <1>18. ASSUME NEW f \in Flags, SinkReport(f) PROVE IInv'
    BY <1>18 DEF SinkReport, Info
  <1>19. CASE UNCHANGED vars
    BY <1>19
  <1>20. QED
    BY <1>1, <1>2, <1>3, <1>4, <1>5, <1>6, <1>7, <1>8, <1>9, <1>10, <1>11,
       <1>12, <1>13, <1>14, <1>15, <1>16, <1>17, <1>18, <1>19
       DEF Next, Ui, Server, Callback

LEMMA SpecIInv == Spec => []IInv
  BY InitIInv, NextIInv, PTL DEF Spec

\* The variables of the server keep their types.
THEOREM TypeCorrect == Spec => []TypeOK
  BY SpecIInv, PTL DEF IInv

\* A waiting UI is owed one post, and no post is left over for a later query.
THEOREM AnswerOwedOnce == Spec => []OneAnswer
  BY SpecIInv, PTL DEF IInv

\* The copy into the UI's buffer happens only while the UI waits for it.
THEOREM CopySafe == Spec => []CopyOnlyForWaiter
  <1>1. IInv => CopyOnlyForWaiter
    BY DEF IInv, QueriesWait, OneAnswer, InService, CopyOnlyForWaiter
  <1>2. QED
    BY <1>1, SpecIInv, PTL

\* A step that is not a read drops no query, and a read drops one only from
\* behind another command.
LEMMA StepLoses ==
    IInv /\ [Next]_vars => (~Lost /\ Lost' => Len(pipe) > 1 /\ pipe' = <<>>)
  <1> SUFFICES ASSUME IInv, [Next]_vars, ~Lost, Lost'
               PROVE  Len(pipe) > 1 /\ pipe' = <<>>
    OBVIOUS
  <1> USE DEF IInv, TypeOK, QueriesWait, OneAnswer, Lost, InPipe, InService,
              Handles, vars, srvVars, libVars, uiVars
  <1>1. CASE Read
    <2>1. /\ Head(pipe) = pipe[1]
          /\ Len(pipe) \in Nat /\ Len(pipe) >= 1
      BY <1>1, HeadOfPipe DEF Read
    <2>2. ~pipe[1].wait
      BY <1>1, <2>1 DEF Read
    <2>3. \E i \in 1 .. Len(pipe) : pipe[i].wait
      BY <1>1 DEF Read
    <2>4. QED
      BY <1>1, <2>1, <2>2, <2>3 DEF Read
  <1>2. CASE Query
    <2>1. pipe' = Append(pipe, [cmd |-> "INFO", wait |-> TRUE])
      BY <1>2 DEF Query, Write
    <2>2. [cmd |-> "INFO", wait |-> TRUE] \in Message
      BY DEF Message
    <2>3. /\ Len(pipe) \in Nat /\ Len(pipe') = Len(pipe) + 1
          /\ pipe'[Len(pipe) + 1] = [cmd |-> "INFO", wait |-> TRUE]
      BY <2>1, <2>2, Written
    <2>4. InPipe'
      BY <2>3
    <2>5. QED
      BY <2>4
  <1>3. ASSUME NEW c \in Commands, Send(c) PROVE FALSE
    BY <1>3 DEF Send, Write
  <1>4. CASE QueryReturns
    BY <1>4 DEF QueryReturns
  <1>5. CASE Warmup \/ Enable \/ BleInit \/ WaitSecond \/ WaitEnds
    BY <1>5 DEF Warmup, Enable, BleInit, WaitSecond, WaitEnds
  <1>6. CASE Disable \/ SinkEnable \/ Media \/ TellInfo \/ Post
    BY <1>6 DEF Disable, SinkEnable, Media, TellInfo, Post
  <1>7. ASSUME NEW f \in Flags, Clear(f) \/ SinkReport(f) PROVE FALSE
    BY <1>7, FlagsAssumption DEF Clear, SinkReport
  <1>8. CASE InitOn \/ InitOff \/ LinkState \/ UNCHANGED vars
    BY <1>8 DEF InitOn, InitOff, LinkState
  <1>9. QED
    BY <1>1, <1>2, <1>3, <1>4, <1>5, <1>6, <1>7, <1>8
       DEF Next, Ui, Server, Callback

\* A query is lost only by a read that finds another command before it.
THEOREM LostBehindOnly == Spec => LostOnlyBehind
  <1>1. IInv /\ [Next]_vars
        => [~Lost /\ Lost' => Len(pipe) > 1 /\ pipe' = <<>>]_vars
    BY StepLoses
  <1>2. QED
    BY <1>1, SpecIInv, PTL DEF Spec, LostOnlyBehind

-----------------------------------------------------------------------------
(* The way to an answer.                                                   *)

\* The wait of BT_ENABLE counts down from three, and not past zero.
CountsDown == srv = "wait" => timeout \in 0 .. 3

LEMMA NextCountsDown == IInv /\ CountsDown /\ [Next]_vars => CountsDown'
  <1> SUFFICES ASSUME IInv, CountsDown, [Next]_vars PROVE CountsDown'
    OBVIOUS
  <1> USE DEF CountsDown, Handles, srvVars, vars
  <1>1. CASE Ui \/ Callback \/ UNCHANGED vars
    BY <1>1 DEF Ui, Callback, Query, QueryReturns, Send, Write, InitOn, InitOff, LinkState,
                SinkReport
  <1>2. CASE Warmup \/ Read \/ Enable \/ BleInit \/ WaitEnds
    BY <1>2 DEF Warmup, Read, Enable, BleInit, WaitEnds
  <1>3. CASE WaitSecond
    BY <1>3 DEF WaitSecond
  <1>4. CASE Disable \/ SinkEnable \/ Media \/ TellInfo \/ Post \/ \E f \in Flags : Clear(f)
    BY <1>4 DEF Disable, SinkEnable, Media, TellInfo, Post, Clear
  <1>5. QED
    BY <1>1, <1>2, <1>3, <1>4 DEF Next, Server

LEMMA SpecCountsDown == Spec => []CountsDown
  <1>1. Init => CountsDown
    BY DEF Init, CountsDown
  <1>2. QED
    BY <1>1, NextCountsDown, SpecIInv, PTL DEF Spec

\* The distance of every place from the next read.
LEMMA Distances ==
    ASSUME NEW p \in Places, NEW t, p = "wait" => t \in 0 .. 3
    PROVE  /\ UntilReadFrom(p, t) \in 1 .. 8
           /\ p = "wait" => UntilReadFrom(p, t) = 3 + t
           /\ p = "handle" => UntilReadFrom(p, t) = 8
           /\ p = "bleInit" => UntilReadFrom(p, t) = 7
           /\ p = "post" => UntilReadFrom(p, t) = 2
           /\ p = "read" => UntilReadFrom(p, t) = 1
           /\ p = "warmup" => UntilReadFrom(p, t) = 2
  BY DEF Places, UntilReadFrom

LEMMA DistancesNow ==
    ASSUME IInv, CountsDown, IInv', CountsDown'
    PROVE  /\ UntilRead \in 1 .. 8 /\ UntilRead' \in 1 .. 8
           /\ srv = "wait" => UntilRead = 3 + timeout /\ timeout \in 0 .. 3
           /\ srv = "handle" => UntilRead = 8
           /\ srv = "bleInit" => UntilRead = 7
           /\ srv = "post" => UntilRead = 2
           /\ srv = "warmup" => UntilRead = 2
           /\ srv' = "wait" => UntilRead' = 3 + timeout' /\ timeout' \in 0 .. 3
           /\ srv' = "bleInit" => UntilRead' = 7
           /\ srv' = "post" => UntilRead' = 2
           /\ srv' = "handle" => UntilRead' = 8
           /\ srv' = "read" => UntilRead' = 1
  <1>1. srv \in Places /\ (srv = "wait" => timeout \in 0 .. 3)
    BY DEF IInv, TypeOK, CountsDown
  <1>2. srv' \in Places /\ (srv' = "wait" => timeout' \in 0 .. 3)
    BY DEF IInv, TypeOK, CountsDown
  <1>3. UntilRead = UntilReadFrom(srv, timeout) /\ UntilRead' = UntilReadFrom(srv', timeout')
    BY DEF UntilRead
  <1>4. QED
    BY <1>1, <1>2, <1>3, Distances

\* A server that has no query to read stays ahead of its read.
LEMMA GoesOn ==
    ASSUME IInv, CountsDown, IInv', CountsDown', Server, srv \notin {"read", "post", "warmup"}
    PROVE  /\ UntilRead' < UntilRead /\ sem' = sem
           /\ InService' <=> InService
  <1>1. srv \in Places
    BY DEF IInv, TypeOK
  <1> USE <1>1, DistancesNow DEF Places, Handles, InService
  <1>3. CASE Enable
    BY <1>3 DEF Enable
  <1>4. CASE BleInit
    BY <1>4 DEF BleInit
  <1>5. CASE WaitSecond
    BY <1>5 DEF WaitSecond
  <1>6. CASE WaitEnds
    BY <1>6 DEF WaitEnds
  <1>7. CASE Disable \/ SinkEnable \/ Media \/ TellInfo \/ \E f \in Flags : Clear(f)
    BY <1>7 DEF Disable, SinkEnable, Media, TellInfo, Clear
  <1>8. QED
    BY <1>3, <1>4, <1>5, <1>6, <1>7 DEF Server, Warmup, Read, Post

\* A step of the server, while a query is in the pipe or in service.
LEMMA ServerNears ==
    ASSUME IInv, CountsDown, IInv', CountsDown', Server, ui = "waiting", ui' = "waiting",
           sem = 0, ~Lost, ~Lost'
    PROVE  UntilAnswer' < UntilAnswer
  <1>2. /\ UntilRead' \in 1 .. 8
        /\ srv' = "handle" => UntilRead' = 8
        /\ srv' = "read" => UntilRead' = 1
    BY DistancesNow
  <1>3. /\ UntilRead \in 1 .. 8
        /\ srv \in {"post", "warmup"} => UntilRead = 2
    BY DistancesNow
  <1>4. CASE srv \notin {"read", "post", "warmup"}
    <2>1. UntilRead' < UntilRead /\ sem' = 0 /\ (InService' <=> InService)
      BY <1>4, GoesOn
    <2>2. CASE InService
      BY <1>2, <1>3, <2>1, <2>2 DEF UntilAnswer
    <2>3. CASE ~InService
      <3>1. ~InService'
        BY <2>1, <2>3, Zenon
      <3>2. UntilAnswer = 10 + UntilRead /\ UntilAnswer' = 10 + UntilRead'
        BY <2>1, <2>3, <3>1 DEF UntilAnswer
      <3>3. \A i, j \in 1 .. 8 : i < j => 10 + i < 10 + j
        OBVIOUS
      <3>4. UntilRead' \in 1 .. 8 /\ UntilRead \in 1 .. 8
        BY <1>2, <1>3
      <3>5. 10 + UntilRead' < 10 + UntilRead
        BY <2>1, <3>3, <3>4, Zenon
      <3>6. QED
        BY <3>2, <3>5, Zenon
    <2>4. QED
      BY <2>2, <2>3
  <1>5. CASE srv = "post"
    <2>1. Post
      BY <1>5 DEF Server, Warmup, Read, Enable, BleInit, WaitSecond, WaitEnds, Disable,
                  SinkEnable, Media, Clear, TellInfo, Handles
    <2>2. CASE cur.wait
      BY <1>3, <1>5, <2>1, <2>2 DEF Post, UntilAnswer, InService
    <2>3. CASE ~cur.wait
      <3>1. sem' = 0 /\ srv' = "read" /\ ~InService /\ ~InService'
        BY <1>5, <2>1, <2>3 DEF Post, InService
      <3>2. QED
        BY <1>2, <1>3, <1>5, <3>1 DEF UntilAnswer
    <2>4. QED
      BY <2>2, <2>3
  <1>6. CASE srv = "read"
    <2>1. Read
      BY <1>6 DEF Server, Warmup, Post, Enable, BleInit, WaitSecond, WaitEnds, Disable,
                  SinkEnable, Media, Clear, TellInfo, Handles
    <2>2. srv' = "handle" /\ sem' = 0 /\ pipe' = <<>> /\ ~InService
      BY <1>6, <2>1 DEF Read, InService
    <2>3. ~InPipe'
      BY <2>2 DEF InPipe
    <2>4. InService'
      BY <2>2, <2>3 DEF Lost
    <2>5. QED
      BY <1>2, <1>3, <2>2, <2>4 DEF UntilAnswer
  <1>7. CASE srv = "warmup"
    <2>1. Warmup
      BY <1>7 DEF Server, Read, Post, Enable, BleInit, WaitSecond, WaitEnds, Disable,
                  SinkEnable, Media, Clear, TellInfo, Handles
    <2>2. sem' = 0 /\ srv' = "read" /\ ~InService /\ ~InService'
      BY <1>7, <2>1 DEF Warmup, InService
    <2>3. QED
      BY <1>2, <1>3, <1>7, <2>2 DEF UntilAnswer
  <1>8. QED
    BY <1>4, <1>5, <1>6, <1>7

\* What the library reports leaves the wait alone.
LEMMA OthersWait ==
    ASSUME [Next]_vars, ~Server, ui = "waiting", ui' = "waiting"
    PROVE  UntilAnswer' = UntilAnswer
  <1>1. UNCHANGED <<srv, cur, timeout, sem>>
    BY DEF Next, Ui, Query, Send, Write, QueryReturns, Callback, InitOn, InitOff, LinkState,
           SinkReport, vars, srvVars
  <1>2. QED
    BY <1>1 DEF UntilAnswer, UntilRead, UntilReadFrom, InService

\* The answer to a query comes nearer with every step of the server, whatever
\* the library reports meanwhile: the UI waits for a bounded number of them.
THEOREM AnswerComes == Spec => AnswerNears
  <1>1. ASSUME IInv, CountsDown, IInv', CountsDown', [Next]_vars
        PROVE  [ui = "waiting" /\ ui' = "waiting" /\ sem = 0 /\ ~Lost /\ ~Lost' =>
                  /\ Server => UntilAnswer' < UntilAnswer
                  /\ ~Server => UntilAnswer' = UntilAnswer]_vars
    BY <1>1, ServerNears, OthersWait
  <1>2. QED
    BY <1>1, SpecIInv, SpecCountsDown, PTL DEF Spec, AnswerNears

-----------------------------------------------------------------------------
(* BtServer implements QueryReply.                                         *)

\* A step is one of QueryReply's or leaves its variables alone.
LEMMA StepImplements ==
    IInv /\ [Next]_vars => [Reply!ReplyNext]_(Reply!replyVars)
  <1> SUFFICES ASSUME IInv, [Next]_vars
               PROVE  [Reply!ReplyNext]_(Reply!replyVars)
    OBVIOUS
  <1>0. ~Lost /\ Lost' => Len(pipe) > 1 /\ pipe' = <<>>
    BY StepLoses
  <1>12. info' \in Info
    BY NextIInv DEF IInv, TypeOK
  <1> USE DEF IInv, TypeOK, QueriesWait, EnablePlaces, OneAnswer, InPipe,
              InService, Handles, vars, srvVars, libVars, uiVars,
              Reply!ReplyNext, Reply!replyVars
  <1>1. CASE Read
    BY <1>1, HeadOfPipe DEF Read, Lost, Reply!Lose
  <1>2. CASE Query
    <2>1. ~Lost
      BY <1>2 DEF Query, Write, Lost
    <2>2. ~Lost'
      BY <1>0, <1>2, <2>1 DEF Query, Write
    <2>3. QED
      BY <1>2, <2>1, <2>2 DEF Query, Write, Reply!Ask
  <1>3. ASSUME NEW c \in Commands, Send(c) PROVE UNCHANGED Reply!replyVars
    BY <1>3 DEF Send, Write
  <1>4. CASE QueryReturns
    BY <1>4 DEF QueryReturns, Reply!Return
  <1>5. CASE Warmup \/ BleInit \/ WaitSecond \/ WaitEnds
    BY <1>5 DEF Warmup, BleInit, WaitSecond, WaitEnds, Lost
  <1>13. CASE Enable
    BY <1>13, <1>12 DEF Enable, Lost, Reply!Learn
  <1>6. CASE Disable \/ SinkEnable \/ Media
    BY <1>6 DEF Disable, SinkEnable, Media, Lost
  <1>7. ASSUME NEW f \in Flags, Clear(f) \/ SinkReport(f)
        PROVE  Reply!Learn
    BY <1>7, <1>12, FlagsAssumption DEF Clear, SinkReport, Lost, Reply!Learn
  <1>8. CASE TellInfo
    BY <1>8 DEF TellInfo, Lost, Reply!Answer
  <1>9. CASE Post
    BY <1>9 DEF Post, Lost
  <1>10. CASE InitOn \/ InitOff \/ LinkState
    BY <1>10, <1>12 DEF InitOn, InitOff, LinkState, Lost, Reply!Learn
  <1>14. CASE UNCHANGED vars
    BY <1>14 DEF Lost
  <1>11. QED
    BY <1>1, <1>2, <1>3, <1>4, <1>5, <1>6, <1>7, <1>8, <1>9, <1>10, <1>13,
       <1>14
       DEF Next, Ui, Server, Callback

\* The server keeps the promise of bt_query_wait: the buffer is written once
\* per query, with what the server knows at a moment after the query was sent,
\* before the call returns.
THEOREM Implements == Spec => QueryReplyImplemented
  <1>1. Init => Reply!ReplyInit
    BY InitIInv DEF Init, IInv, TypeOK, Reply!ReplyInit
  <1>2. QED
    BY <1>1, StepImplements, SpecIInv, PTL
       DEF Spec, QueryReplyImplemented, Reply!Spec

-----------------------------------------------------------------------------
(* The pages.                                                              *)

\* What a handler sends is a command of the server.
LEMMA TellIsSend ==
    ASSUME NEW c \in Commands, Tell(c)
    PROVE  [Next]_vars
  BY DEF Tell, Next, Ui

\* A step of the pages is one of a user of the server, or leaves it alone.
LEMMA PagesStep == [PagesNext]_allVars => [Next]_vars
  <1> SUFFICES ASSUME [PagesNext]_allVars PROVE [Next]_vars
    OBVIOUS
  <1> USE DEF Commands
  <1>1. ASSUME NEW t, NEW p, Begin(t, p) PROVE [Next]_vars
    BY <1>1 DEF Begin, Next, Ui
  <1>2. CASE OpenMusic \/ PressMusic
    BY <1>2, TellIsSend DEF OpenMusic, PressMusic
  <1>3. CASE ShowPosition \/ ShowTrack
    BY <1>3, TellIsSend DEF ShowPosition, ShowTrack, Changed
  <1>4. CASE KeepOn
    BY <1>4, TellIsSend DEF KeepOn
  <1>5. CASE OpenSetting \/ Poll \/ CloseSetting
    BY <1>5 DEF OpenSetting, Poll, CloseSetting
  <1>6. CASE CloseMusic
    BY <1>6, TellIsSend DEF CloseMusic
  <1>7. CASE Toggle
    BY <1>7, TellIsSend DEF Toggle
  <1>8. CASE QueryReturns \/ Server \/ Callback
    BY <1>8 DEF Next, Ui
  <1>9. CASE UNCHANGED allVars
    BY <1>9 DEF allVars
  <1>10. QED
    BY <1>1, <1>2, <1>3, <1>4, <1>5, <1>6, <1>7, <1>8, <1>9
       DEF PagesNext, Begins, Goes, Closes

\* The pages use the server as BtServer lets its users do: what is proved of
\* any user holds of them.
LEMMA PagesAreUsers == PagesSpec => Spec
  <1>1. PagesInit => Init
    BY DEF PagesInit
  <1>2. QED
    BY <1>1, PagesStep, PTL DEF PagesSpec, Spec

\* A query of a page is lost only in a read that takes a command before it.
THEOREM PagesLoseBehind == PagesSpec => LostOnlyBehind
  BY PagesAreUsers, LostBehindOnly, PTL

\* A query of a page that is answered is answered once, while the page waits,
\* with something the server knew after it was sent.
THEOREM PagesReply == PagesSpec => QueryReplyImplemented
  BY PagesAreUsers, Implements, PTL

\* A page that waits for an answer which is not lost waits for a bounded number
\* of steps of the server.
THEOREM PagesAnswerComes == PagesSpec => AnswerNears
  BY PagesAreUsers, AnswerComes, PTL

\* A query of a page is answered once, whatever the pages do.
THEOREM PagesAnswered == PagesSpec => []OneAnswer
  BY PagesAreUsers, AnswerOwedOnce, PTL

LEMMA PagesIInv == PagesSpec => []IInv
  BY PagesAreUsers, SpecIInv, PTL

\* The handler belongs to a page, and only one that asks can be blocked.
TaskOfPage ==
    /\ task \in {"press", "position", "track", "bt"} => page = "music"
    /\ task = "poll" => page = "setting"
    /\ task \in {"music", "setting"} => page = "none"
    /\ ui = "waiting" => task \in Asking

\* The pipe is empty when the answer to a query has come, so what waits in it
\* was sent after the last one.
PipeSinceQuery ==
    /\ ~listening => pipe = <<>>
    /\ ui = "waiting" =>
         \/ pipe = <<>>
         \/ InPipe /\ Len(pipe) <= IF page = "music" THEN Clears + 1 ELSE Backlog
    /\ task \in Asking /\ ui = "idle" => pipe = <<>>
    /\ task = "track" => Len(pipe) <= IF "pos" \in Flags THEN 1 ELSE 0
    /\ task = "none" /\ page = "music" => Len(pipe) <= Clears
    /\ task = "none" /\ page = "none" => Len(pipe) <= Backlog - 1
    /\ task = "none" /\ page = "setting" => Len(pipe) <= ClickMax

PagesVarsOK ==
    /\ page \in {"none", "music", "setting"}
    /\ task \in Asking \cup {"none", "track"}
    /\ lastOff \in BOOLEAN
    /\ sinkEnabled \in BOOLEAN
    /\ blue \in BOOLEAN

PagesInv == PagesVarsOK /\ TaskOfPage /\ PipeSinceQuery

\* The bounds are numbers, in this order.
LEMMA Bounds ==
    /\ Clears \in Nat /\ Clears >= 1
    /\ Backlog \in Nat
    /\ Backlog >= Clears + 2
    /\ Backlog >= ClickMax + 1
    /\ ClickMax \in Nat
    /\ "pos" \in Flags /\ "track" \in Flags => Clears = 2
  <1>1. Clears \in {1, 2}
    BY DEF Clears
  <1>2. ASSUME "pos" \in Flags, "track" \in Flags PROVE Flags = {"track", "pos"}
    BY <1>2, FlagsAssumption
  <1>3. QED
    BY <1>1, <1>2, ClickMaxAssumption DEF Clears, Backlog

\* One command more, or none.
LEMMA Told ==
    ASSUME NEW c \in Commands, TypeOK, Tell(c)
    PROVE  /\ UNCHANGED <<listening, ui>>
           /\ Len(pipe) \in Nat /\ Len(pipe') \in Nat
           /\ Len(pipe') <= Len(pipe) + 1
           /\ ~listening => pipe' = pipe
  <1>0. Len(pipe) \in Nat
    BY DEF TypeOK
  <1>1. CASE listening
    <2>1. [cmd |-> c, wait |-> FALSE] \in Message
      BY DEF Message
    <2>2. pipe' = Append(pipe, [cmd |-> c, wait |-> FALSE])
      BY <1>1 DEF Tell, Send, Write
    <2>3. Len(pipe') = Len(pipe) + 1
      BY <2>1, <2>2, Written DEF TypeOK
    <2>4. QED
      BY <1>0, <1>1, <2>3 DEF Tell, Send, Write, srvVars
  <1>2. CASE ~listening
    BY <1>0, <1>2 DEF Tell, vars, srvVars, uiVars
  <1>3. QED
    BY <1>1, <1>2

\* What the threads of the server do to the pages' view of it.
LEMMA ServerQuiet ==
    (Server \/ Callback)
        => /\ UNCHANGED ui
           /\ pipe' = <<>> \/ pipe' = pipe
           /\ listening => listening'
           /\ pipe' = pipe \/ (srv = "read" /\ pipe # <<>>)
  BY DEF Server, Callback, Warmup, Read, Enable, BleInit, WaitSecond, WaitEnds,
         Disable, SinkEnable, Media, Clear, TellInfo, Post, InitOn, InitOff,
         LinkState, SinkReport, Handles, srvVars, libVars, uiVars

LEMMA PagesInitInv == PagesInit => PagesInv
  <1>1. Len(<<>>) = 0
    OBVIOUS
  <1>2. PagesInit => lastOff \in BOOLEAN /\ sinkEnabled \in BOOLEAN /\ blue \in BOOLEAN
    BY Zenon DEF PagesInit
  <1>3. QED
    BY <1>1, <1>2, Bounds
       DEF PagesInit, Init, PagesInv, PagesVarsOK, TaskOfPage, PipeSinceQuery,
           Asking

\* A handler that begins blocks behind its own query, or finds no server.
LEMMA BeginInv ==
    ASSUME IInv, PagesInv, NEW t, NEW p, Begin(t, p),
           \/ t \in {"press", "position", "bt"} /\ p = "music"
           \/ t = "poll" /\ p = "setting"
           \/ t \in {"music", "setting"} /\ p = "none"
    PROVE  PagesInv'
  <1>1. PagesVarsOK'
    BY DEF Begin, PagesInv, PagesVarsOK, Asking
  <1>2. task = "none" /\ page = p /\ task' = t /\ page' = page /\ t \in Asking
    BY DEF Begin, Asking
  <1>3. TaskOfPage'
    BY <1>2 DEF TaskOfPage
  <1>4. PipeSinceQuery'
    <2>1. CASE listening
      <3>1. pipe' = Append(pipe, [cmd |-> "INFO", wait |-> TRUE])
        BY <2>1 DEF Begin, Query, Write
      <3>2. [cmd |-> "INFO", wait |-> TRUE] \in Message
        BY DEF Message
      <3>3. /\ Len(pipe) \in Nat /\ Len(pipe') = Len(pipe) + 1
            /\ pipe'[Len(pipe) + 1] = [cmd |-> "INFO", wait |-> TRUE]
        BY <3>1, <3>2, Written DEF IInv, TypeOK
      <3>4. InPipe'
        BY <3>3 DEF InPipe
      <3>5. Len(pipe) <= IF p = "music" THEN Clears ELSE Backlog - 1
        BY <1>2, <3>3, Bounds DEF PagesInv, PagesVarsOK, PipeSinceQuery
      <3>6. ui' = "waiting" /\ listening'
        BY <2>1 DEF Begin, Query, Write, srvVars
      <3>7. t # "track" /\ t # "none"
        BY <1>2 DEF Asking
      <3>8. QED
        BY <1>2, <3>3, <3>4, <3>5, <3>6, <3>7, Bounds DEF PipeSinceQuery
    <2>2. CASE ~listening
      <3>1. UNCHANGED <<listening, ui, pipe>>
        BY <2>2 DEF Begin, vars, srvVars, uiVars
      <3>2. t # "track" /\ t # "none"
        BY <1>2 DEF Asking
      <3>3. QED
        BY <1>2, <2>2, <3>1, <3>2 DEF PagesInv, PipeSinceQuery, InPipe
    <2>3. QED
      BY <2>1, <2>2
  <1>5. QED
    BY <1>1, <1>3, <1>4 DEF PagesInv

\* A handler goes on after its answer, with an empty pipe, and sends little.
LEMMA GoesInv == IInv /\ PagesInv /\ Goes => PagesInv'
  <1> SUFFICES ASSUME IInv, PagesInv, Goes PROVE PagesInv'
    OBVIOUS
  <1>0. TypeOK /\ Len(<<>>) = 0
    BY DEF IInv
  <1> USE DEF PagesInv, PagesVarsOK, TaskOfPage, PipeSinceQuery, Resumed,
              Asking
  <1>1. CASE OpenMusic
    <2>1. pipe = <<>> /\ ui = "idle"
      BY <1>1 DEF OpenMusic
    <2>2. Len(pipe') <= 1 /\ ui' = "idle" /\ (~listening' => pipe' = <<>>)
      BY <1>0, <1>1, <2>1, Told DEF OpenMusic, Commands, vars, srvVars, uiVars
    <2>3. QED
      BY <1>0, <1>1, <2>2, Bounds DEF OpenMusic
  <1>2. CASE PressMusic
    <2>1. pipe = <<>> /\ ui = "idle" /\ page = "music"
      BY <1>2 DEF PressMusic
    <2>2. Len(pipe') <= 1 /\ ui' = "idle" /\ (~listening' => pipe' = <<>>)
      BY <1>0, <1>2, <2>1, Told DEF PressMusic, Commands, vars, srvVars, uiVars
    <2>3. QED
      BY <1>0, <1>2, <2>1, <2>2, Bounds DEF PressMusic
  <1>3. CASE ShowPosition
    <2>1. pipe = <<>> /\ ui = "idle" /\ page = "music"
      BY <1>3 DEF ShowPosition
    <2>2. /\ Len(pipe') \in Nat
          /\ Len(pipe') <= IF "pos" \in Flags THEN 1 ELSE 0
          /\ ui' = "idle" /\ (~listening' => pipe' = <<>>)
      BY <1>0, <1>3, <2>1, Told
         DEF ShowPosition, Changed, Commands, vars, srvVars, uiVars
    <2>3. task' \in {"track", "none"} /\ page' = "music"
      BY <1>3, <2>1 DEF ShowPosition
    <2>4. QED
      BY <1>3, <2>2, <2>3, Bounds DEF ShowPosition
  <1>4. CASE ShowTrack
    <2>1. ui = "idle" /\ page = "music"
      BY <1>4 DEF ShowTrack
    <2>2. /\ Len(pipe') <= Clears
          /\ ui' = "idle" /\ (~listening' => pipe' = <<>>)
      <3>1. Len(pipe) \in Nat
        BY <1>0 DEF TypeOK
      <3>2. Len(pipe) <= IF "pos" \in Flags THEN 1 ELSE 0
        BY <1>4 DEF ShowTrack
      <3>3. CASE "track" \in Flags /\ Changed("track")
        <4>1. Tell("track") /\ "track" \in Commands
          BY <1>4, <3>3 DEF ShowTrack, Commands
        <4>2. /\ UNCHANGED <<listening, ui>>
              /\ Len(pipe') \in Nat /\ Len(pipe') <= Len(pipe) + 1
              /\ ~listening => pipe' = pipe
          BY <1>0, <4>1, Told
        <4>3. Len(pipe') <= Clears
          BY <3>1, <3>2, <3>3, <4>2, Bounds
        <4>4. QED
          BY <2>1, <4>2, <4>3
      <3>4. CASE ~Changed("track")
        <4>1. UNCHANGED <<listening, ui, pipe>>
          BY <1>4, <3>4 DEF ShowTrack, vars, srvVars, uiVars
        <4>2. Len(pipe) <= Clears
          BY <3>1, <3>2, Bounds
        <4>3. QED
          BY <2>1, <4>1, <4>2
      <3>5. QED
        BY <3>3, <3>4 DEF Changed
    <2>3. task' = "none" /\ page' = "music"
      BY <1>4, <2>1 DEF ShowTrack
    <2>4. QED
      BY <1>4, <2>2, <2>3 DEF ShowTrack
  <1>5. CASE KeepOn
    <2>1. pipe = <<>> /\ ui = "idle" /\ page = "music"
      BY <1>5 DEF KeepOn
    <2>2. Len(pipe') <= 1 /\ ui' = "idle" /\ (~listening' => pipe' = <<>>)
      BY <1>0, <1>5, <2>1, Told DEF KeepOn, Commands, vars, srvVars, uiVars
    <2>3. PagesVarsOK'
      BY <1>5 DEF KeepOn
    <2>4. QED
      BY <1>5, <2>1, <2>2, <2>3, Bounds DEF KeepOn
  <1>6. CASE OpenSetting \/ Poll
    <2>1. pipe = <<>> /\ UNCHANGED <<pipe, ui, listening>> /\ ui = "idle"
      BY <1>6 DEF OpenSetting, Poll, vars, srvVars, uiVars
    <2>2. /\ task' = "none" /\ page' = "setting"
      BY <1>6 DEF OpenSetting, Poll
    <2>3. PagesVarsOK'
      BY <1>6 DEF OpenSetting, Poll
    <2>4. QED
      BY <1>0, <2>1, <2>2, <2>3, Bounds
  <1>7. QED
    BY <1>1, <1>2, <1>3, <1>4, <1>5, <1>6 DEF Goes

LEMMA PagesNextInv == IInv /\ PagesInv /\ [PagesNext]_allVars => PagesInv'
  <1> SUFFICES ASSUME IInv, PagesInv, [PagesNext]_allVars PROVE PagesInv'
    OBVIOUS
  <1>0. TypeOK /\ Len(<<>>) = 0
    BY DEF IInv
  <1>1. CASE Begins
    BY <1>1, BeginInv DEF Begins
  <1>2. CASE Goes
    BY <1>2, GoesInv
  <1> USE DEF PagesInv, PagesVarsOK, TaskOfPage, PipeSinceQuery, Asking
  <1>3. CASE CloseMusic
    <2>1. ui = "idle" /\ Len(pipe) <= Clears
      BY <1>0, <1>3 DEF CloseMusic, TypeOK
    <2>2. /\ Len(pipe') <= Clears + 1 /\ ui' = "idle"
          /\ ~listening' => pipe' = <<>>
      BY <1>0, <1>3, <2>1, Told, Bounds
         DEF CloseMusic, Commands, TypeOK, vars, srvVars, uiVars
    <2>3. /\ Len(pipe') <= Backlog - 1
      <3>1. Len(pipe') \in Nat
        BY <1>0, <1>3, Told DEF CloseMusic, Commands, TypeOK, vars, srvVars
      <3>2. QED
        BY <2>2, <3>1, Bounds
    <2>4. QED
      BY <1>3, <2>2, <2>3 DEF CloseMusic
  <1>4. CASE CloseSetting
    <2>1. Len(pipe) \in Nat
      BY <1>0 DEF TypeOK
    <2>2. QED
      BY <1>4, <2>1, Bounds DEF CloseSetting, vars, srvVars, uiVars
  <1>5. CASE Toggle
    <2>1. ui = "idle"
      BY <1>0, <1>5 DEF Toggle, TypeOK
    <2>2. /\ Len(pipe') <= ClickMax /\ ui' = "idle"
          /\ ~listening' => pipe' = <<>>
      BY <1>0, <1>5, <2>1, Told, Bounds DEF Toggle, Commands
    <2>3. QED
      BY <1>5, <2>2 DEF Toggle
  <1>6. CASE QueryReturns /\ UNCHANGED pageVars
    <2>1. /\ ui = "waiting" /\ sem > 0 /\ ui' = "idle"
          /\ UNCHANGED <<pipe, listening>> /\ UNCHANGED pageVars
      BY <1>6 DEF QueryReturns, srvVars
    <2>2. pipe = <<>> /\ task \in {"music", "press", "position", "bt",
                                   "setting", "poll"}
      BY <2>1 DEF IInv, OneAnswer
    <2>3. QED
      BY <2>1, <2>2 DEF pageVars
  <1>7. CASE (Server \/ Callback) /\ UNCHANGED pageVars
    <2>1. /\ UNCHANGED ui /\ (pipe' = <<>> \/ pipe' = pipe)
          /\ (listening => listening') /\ UNCHANGED pageVars
      BY <1>7, ServerQuiet
    <2>2. ~listening' => pipe' = <<>>
      BY <2>1
    <2>3. TaskOfPage' /\ PagesVarsOK'
      BY <2>1 DEF pageVars
    <2>4. CASE pipe' = <<>>
      <3>1. Len(pipe') = 0
        BY <1>0, <2>4
      <3>2. PipeSinceQuery'
        BY <2>4, <3>1, Bounds
      <3>3. QED
        BY <2>3, <3>2
    <2>5. CASE pipe' = pipe
      <3>1. ui' = ui /\ task' = task /\ page' = page
        BY <2>1 DEF pageVars
      <3>2. InPipe' <=> InPipe
        BY <2>5 DEF InPipe
      <3>3. PipeSinceQuery'
        BY <2>2, <2>5, <3>1, <3>2
      <3>4. QED
        BY <2>3, <3>3
    <2>6. QED
      BY <2>1, <2>4, <2>5
  <1>8. CASE UNCHANGED allVars
    BY <1>8 DEF allVars, vars, srvVars, uiVars, pageVars, InPipe
  <1>9. QED
    BY <1>1, <1>2, <1>3, <1>4, <1>5, <1>6, <1>7, <1>8 DEF PagesNext, Closes

LEMMA PagesSpecInv == PagesSpec => [](IInv /\ PagesInv)
  <1>1. PagesSpec => []IInv
    BY PagesIInv
  <1>2. PagesSpec /\ []IInv => []PagesInv
    BY PagesInitInv, PagesNextInv, PTL DEF PagesSpec
  <1>3. QED
    BY <1>1, <1>2, PTL

\* The variables of the pages, and of the server they use, keep their types.
THEOREM PagesTypeCorrect == PagesSpec => []PagesTypeOK
  <1>1. IInv /\ PagesInv => PagesTypeOK
    BY DEF IInv, PagesInv, PagesVarsOK, PagesTypeOK
  <1>2. QED
    BY <1>1, PagesSpecInv, PTL

\* However slow the server is, on the music page the commands of one handler
\* and one query wait for it at most, with any flags and whatever was clicked on
\* the settings page before.
THEOREM MusicPipeStaysShort == PagesSpec => []MusicPipeShort
  <1>1. IInv /\ PagesInv => MusicPipeShort
    <2> SUFFICES ASSUME IInv, PagesInv, page = "music"
                 PROVE  Len(pipe) <= Clears + 1
      BY DEF MusicPipeShort
    <2>1. Len(pipe) \in Nat /\ Len(<<>>) = 0
      BY DEF IInv, TypeOK
    <2>2. ui \in {"idle", "waiting"}
      BY DEF IInv, TypeOK
    <2>3. QED
      BY <2>1, <2>2, Bounds
         DEF PagesInv, PagesVarsOK, TaskOfPage, PipeSinceQuery
  <1>2. QED
    BY <1>1, PagesSpecInv, PTL

-----------------------------------------------------------------------------
(* Every handler ends.  The provers know no ENABLED, so the fairness is     *)
(* GuardedFairness, and the way to the answer is a chain of as many links   *)
(* as the farthest query is away from it.                                   *)

LiveInv == IInv /\ PagesInv /\ CountsDown

HandlerOver == task = "none" \/ Lost

\* The query of a handler is asked and not lost; its answer is near.
AnswerWithin(k) == ui = "waiting" /\ sem = 0 /\ ~Lost /\ UntilAnswer <= k

LastPart == HandlerCan /\ task = "track"

PageServer == Server /\ UNCHANGED pageVars

PageReturns == QueryReturns /\ UNCHANGED pageVars

\* What one link of the chain needs: the answer stays as near as it is, and a
\* step of the server, which can always be taken, brings it nearer.
Nearer(j, k) ==
    /\ LiveInv /\ LiveInv' /\ AnswerWithin(k) /\ [PagesNext]_allVars
           => AnswerWithin(k)' \/ Answered' \/ HandlerOver'
    /\ LiveInv /\ LiveInv' /\ AnswerWithin(k) /\ <<PageServer>>_allVars
           => AnswerWithin(j)' \/ Answered' \/ HandlerOver'
    /\ LiveInv /\ AnswerWithin(k) => ServerCan

LEMMA SpecLiveInv == PagesSpec => []LiveInv
  BY PagesSpecInv, PagesAreUsers, SpecCountsDown, PTL
     DEF LiveInv

\* How far an answer can be away.
LEMMA Farthest ==
    ASSUME LiveInv, LiveInv', sem = 0, sem' = 0
    PROVE  UntilAnswer \in 1 .. 18 /\ UntilAnswer' \in 1 .. 18
  <1>1. UntilRead \in 1 .. 8 /\ UntilRead' \in 1 .. 8
    BY DistancesNow DEF LiveInv
  <1>2. \A i \in 1 .. 8 : i \in 1 .. 18 /\ 10 + i \in 1 .. 18
    OBVIOUS
  <1>3. UntilAnswer = UntilRead \/ UntilAnswer = 10 + UntilRead
    BY DEF UntilAnswer
  <1>4. UntilAnswer' = UntilRead' \/ UntilAnswer' = 10 + UntilRead'
    BY DEF UntilAnswer
  <1>5. QED
    BY <1>1, <1>2, <1>3, <1>4, Zenon

\* While the UI waits it is not the UI that moves.
LEMMA WaitingOthers ==
    ASSUME LiveInv, [PagesNext]_allVars, ui = "waiting", sem = 0
    PROVE  [Next]_vars /\ ui' = "waiting"
  <1>1. [Next]_vars
    BY PagesStep
  <1>2. CASE (Server \/ Callback) /\ UNCHANGED pageVars
    BY <1>1, <1>2, ServerQuiet
  <1>3. CASE UNCHANGED allVars
    BY <1>1, <1>3 DEF allVars, vars, uiVars
  <1>4. CASE Begins \/ Closes \/ Toggle
    BY <1>4 DEF LiveInv, PagesInv, TaskOfPage, Begins, Begin, Closes, CloseMusic,
                CloseSetting, Toggle, Asking
  <1>5. CASE Goes
    BY <1>5 DEF LiveInv, PagesInv, TaskOfPage, Goes, Resumed, OpenMusic, PressMusic,
                ShowPosition, ShowTrack, KeepOn, OpenSetting, Poll
  <1>6. CASE QueryReturns /\ UNCHANGED pageVars
    BY <1>6 DEF QueryReturns
  <1>7. QED
    BY <1>2, <1>3, <1>4, <1>5, <1>6 DEF PagesNext

LEMMA Link ==
    ASSUME NEW j \in 0 .. 17, NEW k, k = j + 1
    PROVE  Nearer(j, k)
  <1>1. ASSUME LiveInv, LiveInv', AnswerWithin(k), [PagesNext]_allVars,
               ~Answered', ~HandlerOver'
        PROVE  /\ AnswerWithin(k)'
               /\ Server => AnswerWithin(j)'
    <2>1. [Next]_vars /\ ui' = "waiting"
      BY <1>1, WaitingOthers DEF AnswerWithin
    <2>2. sem' = 0 /\ sem = 0 /\ ~Lost /\ ~Lost' /\ ui = "waiting"
      <3>1. sem' \in Nat /\ ~(sem' > 0)
        BY <1>1, <2>1 DEF Answered, LiveInv, IInv, TypeOK
      <3>2. QED
        BY <1>1, <3>1 DEF AnswerWithin, HandlerOver
    <2>3. UntilAnswer \in 1 .. 18 /\ UntilAnswer' \in 1 .. 18
      BY <1>1, <2>2, Farthest
    <2>4. Server => UntilAnswer' < UntilAnswer
      BY <1>1, <2>1, <2>2, ServerNears DEF LiveInv
    <2>5. ~Server => UntilAnswer' = UntilAnswer
      BY <2>1, <2>2, OthersWait
    <2>6. UntilAnswer <= k
      BY <1>1 DEF AnswerWithin
    <2>7. UntilAnswer' <= k /\ (Server => UntilAnswer' <= j)
      BY <2>3, <2>4, <2>5, <2>6
    <2>8. QED
      BY <2>1, <2>2, <2>7 DEF AnswerWithin
  <1>2. ASSUME LiveInv, AnswerWithin(k) PROVE ServerCan
    BY <1>2 DEF AnswerWithin, Lost, InPipe, InService, ServerCan, LiveInv, IInv, TypeOK
  <1>3. PageServer => Server /\ [PagesNext]_allVars
    BY DEF PageServer, PagesNext
  <1>4. QED
    BY <1>1, <1>2, <1>3 DEF Nearer


\* What a handler that is not blocked does next.
LEMMA HandlerSteps ==
    ASSUME LiveInv, LiveInv', [PagesNext]_allVars
    PROVE  /\ HandlerCan => HandlerCan' \/ HandlerOver'
           /\ LastPart => LastPart' \/ HandlerOver'
           /\ HandlerCan /\ Goes => LastPart' \/ HandlerOver'
           /\ LastPart /\ Goes => HandlerOver'
           /\ Answered => Answered' \/ HandlerCan' \/ HandlerOver'
           /\ PageReturns => HandlerCan' \/ HandlerOver'
  <1>1. CASE Begins \/ Closes \/ Toggle
    <2>1. task = "none" /\ ui = "idle"
      <3>1. ui \in {"idle", "waiting"}
        BY DEF LiveInv, IInv, TypeOK
      <3>2. QED
        BY <1>1, <3>1 DEF LiveInv, PagesInv, TaskOfPage, Asking, Begins, Begin, Closes,
                          CloseMusic, CloseSetting, Toggle
    <2>2. QED
      BY <2>1 DEF HandlerCan, LastPart, Answered, Goes, Resumed, OpenMusic, PressMusic,
                  ShowPosition, ShowTrack, KeepOn, OpenSetting, Poll, PageReturns,
                  QueryReturns
  <1>2. CASE Goes
    <2>1. ui = "idle" /\ (task' = "none" \/ (task # "track" /\ task' = "track"))
      BY <1>2 DEF Goes, Resumed, OpenMusic, PressMusic, ShowPosition, ShowTrack, KeepOn,
                  OpenSetting, Poll
    <2>2. ui' \in {"idle", "waiting"} /\ (ui' = "waiting" => task' \in Asking)
      BY DEF LiveInv, IInv, TypeOK, PagesInv, TaskOfPage
    <2>3. QED
      BY <2>1, <2>2 DEF HandlerCan, LastPart, Answered, HandlerOver, Asking, PageReturns,
                        QueryReturns
  <1>3. CASE PageReturns
    BY <1>3 DEF PageReturns, QueryReturns, pageVars, HandlerCan, LastPart, Answered,
                HandlerOver, Goes, Resumed, OpenMusic, PressMusic, ShowPosition,
                ShowTrack, KeepOn, OpenSetting, Poll
  <1>4. CASE (Server \/ Callback) /\ UNCHANGED pageVars
    <2>1. UNCHANGED <<ui, task>>
      BY <1>4, ServerQuiet DEF pageVars
    <2>2. sem' = sem \/ sem' = sem + 1
      BY <1>4 DEF Server, Callback, Warmup, Read, Enable, BleInit, WaitSecond, WaitEnds,
                  Disable, SinkEnable, Media, Clear, TellInfo, Post, InitOn, InitOff,
                  LinkState, SinkReport, Handles
    <2>3. sem > 0 => sem' > 0
      BY <2>2 DEF LiveInv, IInv, TypeOK
    <2>4. QED
      BY <2>1, <2>3 DEF HandlerCan, LastPart, Answered, Goes, Resumed, OpenMusic,
                  PressMusic, ShowPosition, ShowTrack, KeepOn, OpenSetting, Poll, HandlerOver,
                  PageReturns, QueryReturns
  <1>5. CASE UNCHANGED allVars
    BY <1>5 DEF allVars, vars, srvVars, uiVars, pageVars, HandlerCan, LastPart, Answered,
                Goes, Resumed, OpenMusic, PressMusic, ShowPosition, ShowTrack, KeepOn,
                OpenSetting, Poll, HandlerOver, PageReturns, QueryReturns
  <1>6. QED
    BY <1>1, <1>2, <1>3, <1>4, <1>5 DEF PagesNext, PageReturns


\* Where a handler that is not over can be.
LEMMA HandlerPlaces ==
    LiveInv => \/ HandlerOver \/ HandlerCan \/ Answered
               \/ AnswerWithin(18)
  <1> SUFFICES ASSUME LiveInv, ~HandlerOver, ~HandlerCan, ~Answered
               PROVE  AnswerWithin(18)
    OBVIOUS
  <1>1. ui = "waiting" /\ sem = 0 /\ ~Lost
    BY DEF LiveInv, IInv, TypeOK, HandlerOver, HandlerCan, Answered
  <1>2. UntilAnswer <= 18
    <2>1. UntilRead \in 1 .. 8
      BY Distances DEF LiveInv, IInv, TypeOK, CountsDown, UntilRead
    <2>2. QED
      BY <2>1 DEF UntilAnswer
  <1>3. QED
    BY <1>1, <1>2 DEF AnswerWithin

LEMMA NoneNear == LiveInv => ~AnswerWithin(0)
  <1> SUFFICES ASSUME LiveInv, sem = 0 PROVE ~(UntilAnswer <= 0)
    BY DEF AnswerWithin
  <1>1. UntilRead \in 1 .. 8
    BY Distances DEF LiveInv, IInv, TypeOK, CountsDown, UntilRead
  <1>2. QED
    BY <1>1 DEF UntilAnswer

\* The last part of a handler, and then a whole one, comes to its end.
LEMMA HandlerRuns == PagesSpec /\ GuardedFairness => (HandlerCan ~> HandlerOver)
  <1>1. LiveInv /\ LiveInv' /\ [PagesNext]_allVars /\ HandlerCan
            => HandlerCan' \/ HandlerOver'
    BY HandlerSteps
  <1>2. LiveInv /\ LiveInv' /\ [PagesNext]_allVars /\ LastPart
            => LastPart' \/ HandlerOver'
    BY HandlerSteps
  <1>3. LiveInv /\ LiveInv' /\ [PagesNext]_allVars /\ HandlerCan /\ <<Goes>>_allVars
            => LastPart' \/ HandlerOver'
    BY HandlerSteps
  <1>4. LiveInv /\ LiveInv' /\ [PagesNext]_allVars /\ LastPart /\ <<Goes>>_allVars
            => HandlerOver'
    BY HandlerSteps
  <1>5. LastPart => HandlerCan
    BY DEF LastPart
  <1>6. QED
    BY <1>1, <1>2, <1>3, <1>4, <1>5, SpecLiveInv, PTL DEF PagesSpec, GuardedFairness

\* A query that was answered returns.
LEMMA AnswerReturns ==
    PagesSpec /\ GuardedFairness => (Answered ~> HandlerCan \/ HandlerOver)
  <1>1. LiveInv /\ LiveInv' /\ [PagesNext]_allVars /\ Answered
            => Answered' \/ HandlerCan' \/ HandlerOver'
    BY HandlerSteps
  <1>2. LiveInv /\ LiveInv' /\ [PagesNext]_allVars /\ <<PageReturns>>_allVars
            => HandlerCan' \/ HandlerOver'
    BY HandlerSteps
  <1>3. QED
    BY <1>1, <1>2, SpecLiveInv, PTL DEF PagesSpec, GuardedFairness, PageReturns

\* A query that is not lost is answered, link by link.
LEMMA AnswerArrives ==
    PagesSpec /\ GuardedFairness => (AnswerWithin(18) ~> Answered \/ HandlerOver)
  <1>1. Nearer(0, 1) /\ Nearer(1, 2) /\ Nearer(2, 3) /\ Nearer(3, 4) /\ Nearer(4, 5)
    BY Link
  <1>2. Nearer(5, 6) /\ Nearer(6, 7) /\ Nearer(7, 8) /\ Nearer(8, 9) /\ Nearer(9, 10)
    BY Link
  <1>3. Nearer(10, 11) /\ Nearer(11, 12) /\ Nearer(12, 13) /\ Nearer(13, 14)
    BY Link
  <1>4. Nearer(14, 15) /\ Nearer(15, 16) /\ Nearer(16, 17) /\ Nearer(17, 18)
    BY Link
  <1>5. QED
    BY <1>1, <1>2, <1>3, <1>4, NoneNear, SpecLiveInv, PTL
       DEF Nearer, PagesSpec, GuardedFairness, PageServer

\* Every handler of the UI thread comes to its end when the server and the
\* thread go on whenever they can, unless its query is read behind a command
\* of the handler before it: the property HandlersEnd.
THEOREM HandlersComeToEnd == PagesSpec /\ GuardedFairness => HandlersEnd
  <1>1. QED
    BY HandlerRuns, AnswerReturns, AnswerArrives, HandlerPlaces, SpecLiveInv, PTL
       DEF HandlersEnd, HandlerOver
=============================================================================
