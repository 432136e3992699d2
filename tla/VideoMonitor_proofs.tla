------------------------ MODULE VideoMonitor_proofs ------------------------
(***************************************************************************)
(* Proofs about VideoMonitor, for every bound on the reports that wait.    *)
(***************************************************************************)
EXTENDS VideoMonitor, TLAPS

IInv == TypeOK /\ Ownership

\* The reports of the library before and after one is added or delivered.
LEMMA Reports ==
    /\ <<>> \in Seq(Events)
    /\ \A s \in Seq(Events), e \in Events : Append(s, e) \in Seq(Events)
    /\ \A s \in Seq(Events) : s # <<>> => Head(s) \in Events /\ Tail(s) \in Seq(Events)
  <1>1. <<>> \in Seq(Events)
    OBVIOUS
  <1>2. ASSUME NEW s \in Seq(Events), NEW e \in Events
        PROVE  Append(s, e) \in Seq(Events)
    OBVIOUS
  <1>3. ASSUME NEW s \in Seq(Events), s # <<>>
        PROVE  Head(s) \in Events /\ Tail(s) \in Seq(Events)
    <2>1. Len(s) \in Nat /\ Len(s) # 0
      BY <1>3
    <2>2. Head(s) = s[1] /\ s[1] \in Events
      BY <1>3, <2>1
    <2>3. Tail(s) \in Seq(Events)
      BY <1>3, <2>1
    <2>4. QED
      BY <2>2, <2>3
  <1>4. QED
    BY <1>1, <1>2, <1>3

LEMMA InitIInv == Init => IInv
  BY Reports
     DEF Init, IInv, TypeOK, Ownership, UiPlaces, PtPlaces, PtPlays, PtOver, Events

\* The types of the library's variables, and that a player which does not
\* exist is not moved.
LibOK ==
    /\ player' \in {"none", "idle", "ready", "playing", "paused", "finished", "stopped"}
    /\ player' = "none" <=> player = "none"
    /\ events' \in Seq(Events)
    /\ player' = "none" => events' = <<>>

LEMMA LibCalls ==
    ASSUME IInv, LibPlay \/ LibPause \/ LibStop \/ UNCHANGED lib
    PROVE  LibOK
  BY Reports DEF LibOK, IInv, TypeOK, Ownership, LibPlay, LibPause, LibStop, LibCall, lib, Events

\* The steps of rtsp_play.
LEMMA ThreadIInv ==
    ASSUME IInv, PtStep
    PROVE  IInv'
  <1> USE DEF IInv, TypeOK, Ownership, PtAt, uiVars, lib, states, PtPlaces, PtPlays, PtOver
  <1>1. CASE PtStart
    <2>1. LibOK
      BY <1>1, LibCalls DEF PtStart
    <2>2. /\ pt' \in {"init", "destroy"} /\ pt = "start"
          /\ UNCHANGED <<alive, page, ui, after, video, ptr, cb, current, desired>>
      BY <1>1 DEF PtStart
    <2>3. QED
      BY <2>1, <2>2 DEF LibOK
  <1>2. CASE PtDestroy
    BY <1>2, Reports DEF PtDestroy
  <1>3. CASE PtClear
    BY <1>3 DEF PtClear
  <1>4. CASE PtInit
    BY <1>4, Reports DEF PtInit
  <1>5. CASE PtPrepare
    BY <1>5 DEF PtPrepare
  <1>6. CASE PtPlay
    <2>1. LibOK
      BY <1>6, LibCalls DEF PtPlay
    <2>2. /\ pt' = "wait" /\ pt = "play"
          /\ UNCHANGED <<alive, page, ui, after, video, ptr, cb, current, desired>>
      BY <1>6 DEF PtPlay
    <2>3. QED
      BY <2>1, <2>2 DEF LibOK
  <1>7. CASE PtDesire \/ PtWait \/ PtLast
    <2>1. CASE PtDesire
      BY <2>1 DEF PtDesire
    <2>2. CASE PtWait
      BY <2>2 DEF PtWait
    <2>3. CASE PtLast
      BY <2>3 DEF PtLast
    <2>4. QED
      BY <1>7, <2>1, <2>2, <2>3
  <1>8. QED
    BY <1>1, <1>2, <1>3, <1>4, <1>5, <1>6, <1>7 DEF PtStep

\* The player ends by itself, and its callback.
LEMMA PlayerIInv ==
    ASSUME IInv, Finish \/ CbStep
    PROVE  IInv'
  <1> USE DEF IInv, TypeOK, Ownership, uiVars, lib, states
  <1>1. CASE Finish
    BY <1>1, Reports DEF Finish, Events
  <1>2. CASE Report
    <2>1. /\ cb' \in Events /\ events' \in Seq(Events) /\ events # <<>>
          /\ current' = StateAfter[cb']
          /\ UNCHANGED <<alive, page, ui, after, video, pt, ptr, player, desired>>
      BY <1>2, Reports DEF Report
    <2>2. current' \in {"BUTT", "IDLE", "PLAY", "PAUSE", "STOP"}
      BY <2>1 DEF StateAfter, Events
    <2>3. QED
      BY <2>1, <2>2
  <1>3. CASE Reported
    BY <1>3 DEF Reported
  <1>4. QED
    BY <1>1, <1>2, <1>3 DEF CbStep

\* The steps of the UI thread.
LEMMA UiIInv ==
    ASSUME IInv, OpenPage \/ Press \/ PressPause \/ UiStep
    PROVE  IInv'
  <1> USE DEF IInv, TypeOK, Ownership, UiAt, Risk, uiVars, lib, states, UiPlaces, PtPlaces,
          PtPlays, PtOver
  <1>1. CASE OpenPage
    BY <1>1 DEF OpenPage
  <1>2. CASE Press
    BY <1>2 DEF Press
  <1>3. CASE PressPause
    BY <1>3 DEF PressPause
  <1>4. CASE Pause \/ Play \/ CallStop
    <2>1. LibOK
      BY <1>4, LibCalls DEF Pause, Play, CallStop
    <2>2. /\ \/ ui \in {"pause", "play"} /\ ui' = "idle"
             \/ ui = "stopping" /\ ui' = "join"
          /\ alive' \in BOOLEAN
          /\ UNCHANGED <<page, after, video, pt, ptr, cb, current, desired>>
      BY <1>4 DEF Pause, Play, CallStop
    <2>3. QED
      BY <2>1, <2>2 DEF LibOK
  <1>5. CASE StopPlayer
    <2>1. /\ ui = "stop" /\ ui' = (IF video THEN "stopping" ELSE after)
          /\ UNCHANGED <<alive, page, after, video, pt, ptr, player, events, cb, current, desired>>
      BY <1>5 DEF StopPlayer
    <2>2. QED
      BY <2>1
  <1>6. CASE ReadThread
    <2>1. /\ ui = "join" /\ ui' = (IF video THEN "joining" ELSE after)
          /\ alive' \in BOOLEAN
          /\ UNCHANGED <<page, after, video, pt, ptr, player, events, cb, current, desired>>
      BY <1>6 DEF ReadThread
    <2>2. QED
      BY <2>1
  <1>7. CASE Join
    <2>1. /\ alive /\ ui = "joining" /\ ui' = after /\ pt \in PtOver
          /\ ~video'
          /\ UNCHANGED <<alive, page, after, pt, ptr, player, events, cb, current, desired>>
      BY <1>7 DEF Join
    <2>2. video' \in BOOLEAN
      BY <1>7, Zenon DEF Join
    <2>3. TypeOK'
      BY <2>1, <2>2
    <2>4. QED
      BY <2>1, <2>3
  <1>8. CASE Forget \/ Create
    <2>1. video' \in BOOLEAN
      BY <1>8, Zenon DEF Forget, Create
    <2>2. QED
      BY <1>8, <2>1 DEF Forget, Create
  <1>9. CASE Leave
    <2>1. page' \in BOOLEAN
      BY <1>9, Zenon DEF Leave
    <2>2. QED
      BY <1>9, <2>1, Reports DEF Leave
  <1>10. CASE Which \/ May \/ Want
    <2>1. /\ ui \in {"which", "mayPause", "mayPlay", "wantPause", "wantPlay"}
          /\ ui' \in {"idle", "mayPause", "mayPlay", "wantPause", "wantPlay", "pause", "play"}
          /\ desired' \in {desired, "PAUSE", "PLAY"}
          /\ UNCHANGED <<alive, page, after, video, pt, ptr, player, events, cb, current>>
      BY <1>10 DEF Which, May, Want
    <2>2. QED
      BY <2>1
  <1>11. QED
    BY <1>1, <1>2, <1>3, <1>4, <1>5, <1>6, <1>7, <1>8, <1>9, <1>10 DEF UiStep

LEMMA NextIInv == IInv /\ [Next]_vars => IInv'
  <1> SUFFICES ASSUME IInv, [Next]_vars PROVE IInv'
    OBVIOUS
  <1>1. CASE OpenPage \/ Press \/ PressPause \/ UiStep
    BY <1>1, UiIInv
  <1>2. CASE PtStep
    BY <1>2, ThreadIInv
  <1>3. CASE CbStep \/ Finish
    BY <1>3, PlayerIInv
  <1>4. CASE UNCHANGED vars \/ Dead
    BY <1>4 DEF Dead, vars, uiVars, lib, states, IInv, TypeOK, Ownership
  <1>5. QED
    BY <1>1, <1>2, <1>3, <1>4 DEF Next

\* Who may use the player, and who joins the thread, at every place.
THEOREM Invariance == Spec => []IInv
  <1>1. QED
    BY InitIInv, NextIInv, PTL DEF Spec

\* Every variable keeps its type, and pPlayer is live exactly when there is a
\* player.
THEOREM TypeCorrect == Spec => []TypeOK
  <1>1. IInv => TypeOK
    BY DEF IInv
  <1>2. QED
    BY Invariance, <1>1, PTL

\* A closed page has neither a thread nor a player nor a report to come.
THEOREM ClosedPageClean == Spec => []ClosedPageQuiet
  <1>1. IInv => ClosedPageQuiet
    BY DEF IInv, TypeOK, Ownership, ClosedPageQuiet
  <1>2. QED
    BY Invariance, <1>1, PTL

\* rtsp_play plays, and waits for, a live player.
THEOREM PlayerOwned == Spec => []ThreadOwnsPlayer
  <1>1. IInv => ThreadOwnsPlayer
    BY DEF IInv, Ownership, ThreadOwnsPlayer
  <1>2. QED
    BY Invariance, <1>1, PTL

\* There is never a second rtsp_play before the first has nothing left to do.
THEOREM OneThread == Spec => OnePlayThread
  <1>1. IInv /\ [Next]_vars => [pt' = "start" /\ pt # "start" => pt \in PtOver]_vars
    <2> SUFFICES ASSUME IInv, Next, pt' = "start", pt # "start"
                 PROVE  pt \in PtOver
      OBVIOUS
    <2>1. CASE Create
      BY <2>1 DEF Create, UiAt, IInv, Ownership
    <2>2. CASE OpenPage \/ Press \/ PressPause \/ (UiStep /\ ~Create)
      BY <2>2 DEF OpenPage, Press, PressPause, UiStep, Which, May, Want, Pause, Play,
                  StopPlayer, CallStop, ReadThread, Join, Forget, Leave
    <2>3. CASE PtStep
      BY <2>3 DEF PtStep, PtAt, PtStart, PtDestroy, PtClear, PtInit, PtPrepare,
                  PtDesire, PtPlay, PtWait, PtLast
    <2>4. CASE CbStep \/ Finish \/ Dead
      BY <2>4 DEF CbStep, Report, Reported, Finish, Dead, vars
    <2>5. QED
      BY <2>1, <2>2, <2>3, <2>4 DEF Next
  <1>2. QED
    BY Invariance, <1>1, PTL DEF Spec, OnePlayThread

-----------------------------------------------------------------------------
(* Stopping: the part of StopEnds that needs no fairness.                  *)

Ends == {"STOPPED", "EOF", "ERROR"}

\* The last of the reports, when one is added and when the first is taken.
LEMMA LastAdded ==
    ASSUME NEW s \in Seq(Events), NEW e \in Events
    PROVE  Append(s, e) # <<>> /\ Last(Append(s, e)) = e
  <1>1. /\ Len(Append(s, e)) = Len(s) + 1
        /\ Append(s, e)[Len(s) + 1] = e
    OBVIOUS
  <1>2. Len(<<>>) = 0 /\ Len(s) \in Nat
    OBVIOUS
  <1>3. QED
    BY <1>1, <1>2 DEF Last

LEMMA LastTaken ==
    ASSUME NEW s \in Seq(Events), s # <<>>
    PROVE  IF Tail(s) = <<>> THEN Head(s) = Last(s) ELSE Last(Tail(s)) = Last(s)
  <1>1. /\ Len(s) \in Nat /\ Len(s) # 0
        /\ Tail(s) \in Seq(Events) /\ Len(Tail(s)) = Len(s) - 1
        /\ \A i \in 1 .. Len(s) - 1 : Tail(s)[i] = s[i + 1]
        /\ Head(s) = s[1]
    <2>1. Len(s) \in Nat /\ Len(s) # 0 /\ Head(s) = s[1]
      OBVIOUS
    <2>2. Tail(s) \in Seq(Events) /\ Len(Tail(s)) = Len(s) - 1
      OBVIOUS
    <2>3. \A i \in 1 .. Len(s) - 1 : Tail(s)[i] = s[i + 1]
      OBVIOUS
    <2>4. QED
      BY <2>1, <2>2, <2>3
  <1>2. CASE Tail(s) = <<>>
    <2>1. Len(<<>>) = 0
      OBVIOUS
    <2>2. Len(Tail(s)) = 0
      BY <1>2, <2>1
    <2>3. \A n \in Nat : n - 1 = 0 => n = 1
      OBVIOUS
    <2>4. Len(s) = 1
      BY <1>1, <2>2, <2>3, Zenon
    <2>5. QED
      BY <1>1, <1>2, <2>4 DEF Last
  <1>3. CASE Tail(s) # <<>>
    <2>1. Len(Tail(s)) # 0
      BY <1>1, <1>3
    <2>2. Len(s) - 1 \in 1 .. Len(s) - 1 /\ (Len(s) - 1) + 1 = Len(s)
      BY <1>1, <2>1
    <2>3. Tail(s)[Len(s) - 1] = s[Len(s)]
      BY <1>1, <2>2
    <2>4. QED
      BY <1>1, <1>3, <2>3 DEF Last
  <1>4. QED
    BY <1>2, <1>3

\* A call of the library, or the player by itself, adds the report of an end
\* when it brings one about, and moves no player that has ended but by a stop.
CallOf ==
    \/ UNCHANGED lib
    \/ /\ player' \in {"playing", "paused"} /\ player \notin {"stopped", "finished"}
    \/ /\ player' \in {"stopped", "finished"}
       /\ \E e \in Ends : events' = Append(events, e)

LEMMA CallsEnd ==
    ASSUME IInv, EndNeverMissed, CallOf, UNCHANGED <<pt, current>>
    PROVE  EndNeverMissed'
  <1>1. CASE UNCHANGED lib
    BY <1>1 DEF lib, EndNeverMissed
  <1>2. CASE player' \in {"playing", "paused"}
    BY <1>2 DEF EndNeverMissed
  <1>3. CASE \E e \in Ends : events' = Append(events, e)
    <2>1. PICK e \in Ends : events' = Append(events, e)
      BY <1>3
    <2>2. e \in Events /\ events \in Seq(Events)
      BY DEF Ends, Events, IInv, TypeOK
    <2>3. events' # <<>> /\ Last(events') = e
      BY <2>1, <2>2, LastAdded
    <2>4. QED
      BY <2>3 DEF EndNeverMissed, Ends
  <1>4. QED
    BY <1>1, <1>2, <1>3 DEF CallOf

LEMMA LibIsCall ==
    ASSUME LibPlay \/ LibPause \/ LibStop
    PROVE  CallOf
  BY DEF LibPlay, LibPause, LibStop, LibCall, lib, CallOf, Ends

\* The thread: a player that was just prepared has not ended, and its play
\* does not touch one that has.
LEMMA ThreadEndSeen ==
    ASSUME IInv, EndNeverMissed, PtStep
    PROVE  EndNeverMissed'
  <1>1. CASE PtPlay
    <2>1. LibPlay /\ pt = "play" /\ current' = current
      BY <1>1 DEF PtPlay, PtAt, states
    <2>2. CASE UNCHANGED lib
      BY <2>1, <2>2 DEF lib, PtPlays, EndNeverMissed
    <2>3. CASE player' = "playing"
      BY <2>3 DEF EndNeverMissed
    <2>4. QED
      BY <2>1, <2>2, <2>3 DEF LibPlay, LibCall
  <1>2. CASE PtPrepare \/ PtDesire
    BY <1>2 DEF PtPrepare, PtDesire, PtAt, PtPlays, lib, EndNeverMissed
  <1>3. CASE PtStart \/ PtDestroy \/ PtClear \/ PtInit \/ PtWait \/ PtLast
    BY <1>3 DEF PtStart, PtDestroy, PtClear, PtInit, PtWait, PtLast, PtAt,
                PtPlays, EndNeverMissed
  <1>4. QED
    BY <1>1, <1>2, <1>3 DEF PtStep

\* The UI: start and return find the thread over, and the other buttons do to
\* the player what the library allows.
LEMMA UiEndSeen ==
    ASSUME IInv, EndNeverMissed, OpenPage \/ Press \/ PressPause \/ UiStep
    PROVE  EndNeverMissed'
  <1>1. CASE Pause \/ Play \/ CallStop
    <2>1. CallOf /\ UNCHANGED <<pt, current>>
      BY <1>1, LibIsCall DEF Pause, Play, CallStop, states
    <2>2. QED
      BY <2>1, CallsEnd
  <1>2. CASE Which \/ May \/ Want \/ StopPlayer
    BY <1>2 DEF Which, May, Want, StopPlayer, lib, states, EndNeverMissed
  <1>3. CASE Forget \/ Create
    <2>1. pt' \notin PtPlays
      BY <1>3 DEF Forget, Create, UiAt, IInv, Ownership, PtOver, PtPlays
    <2>2. QED
      BY <2>1 DEF EndNeverMissed
  <1>4. CASE Leave
    BY <1>4 DEF Leave, EndNeverMissed
  <1>5. CASE OpenPage \/ Press \/ PressPause \/ ReadThread \/ Join
    BY <1>5 DEF OpenPage, Press, PressPause, ReadThread, Join, lib, states, EndNeverMissed
  <1>6. QED
    BY <1>1, <1>2, <1>3, <1>4, <1>5 DEF UiStep

\* The player: the last report leaves STOP behind.
LEMMA PlayerEndSeen ==
    ASSUME IInv, EndNeverMissed, Finish \/ CbStep
    PROVE  EndNeverMissed'
  <1>1. CASE Finish
    <2>1. CallOf /\ UNCHANGED <<pt, current>>
      BY <1>1 DEF Finish, CallOf, Ends, states
    <2>2. QED
      BY <2>1, CallsEnd
  <1>2. CASE Report
    <2>1. /\ events \in Seq(Events) /\ events # <<>>
          /\ cb' = Head(events) /\ events' = Tail(events) /\ current' = StateAfter[cb']
          /\ UNCHANGED <<pt, player>>
      BY <1>2 DEF Report, IInv, TypeOK
    <2>2. IF events' = <<>> THEN cb' = Last(events) ELSE Last(events') = Last(events)
      BY <2>1, LastTaken
    <2>3. \A e \in Ends : StateAfter[e] = "STOP"
      BY DEF StateAfter, Ends
    <2>4. QED
      BY <2>1, <2>2, <2>3 DEF EndNeverMissed, Ends
  <1>3. CASE Reported
    BY <1>3 DEF Reported, lib, EndNeverMissed
  <1>4. QED
    BY <1>1, <1>2, <1>3 DEF CbStep

\* rtsp_play never waits for a player that has ended and has said so: every
\* stop that reaches the player, and every end of a stream, ends the thread
\* that the UI may be joining, however the reports are delayed.
THEOREM EndReachesThread == Spec => []EndNeverMissed
  <1>1. Init => EndNeverMissed
    BY DEF Init, EndNeverMissed
  <1>2. IInv /\ EndNeverMissed /\ [Next]_vars => EndNeverMissed'
    <2> SUFFICES ASSUME IInv, EndNeverMissed, [Next]_vars PROVE EndNeverMissed'
      OBVIOUS
    <2>1. CASE UNCHANGED vars \/ Dead
      BY <2>1 DEF Dead, vars, lib, states, EndNeverMissed
    <2>2. QED
      BY <2>1, ThreadEndSeen, UiEndSeen, PlayerEndSeen DEF Next
  <1>3. QED
    BY <1>1, <1>2, Invariance, PTL DEF Spec

-----------------------------------------------------------------------------
(* Liveness.  The provers know no ENABLED, so the fairness of the threads   *)
(* is GuardedFairness; that the reports come to an end, of any number, is  *)
(* ReportsArrive.                                                          *)

HasStop == Contains(events, "STOPPED")

\* A player whose stop is still to be reported is a stopped one; what rtsp_play
\* knows of the player it is about to make.
StopKept ==
    /\ HasStop => player = "stopped"
    /\ pt = "init" => ptr = "null"
    /\ pt = "prepare" => player \in {"none", "idle"}

LEMMA AddedContains ==
    ASSUME NEW s \in Seq(Events), NEW e \in Events, Contains(Append(s, e), "STOPPED")
    PROVE  Contains(s, "STOPPED") \/ e = "STOPPED"
  <1>1. PICK i \in 1 .. Len(Append(s, e)) : Append(s, e)[i] = "STOPPED"
    BY DEF Contains
  <1>2. /\ Len(Append(s, e)) = Len(s) + 1 /\ Len(s) \in Nat
        /\ Append(s, e)[Len(s) + 1] = e
        /\ \A k \in 1 .. Len(s) : Append(s, e)[k] = s[k]
    OBVIOUS
  <1>3. i \in 1 .. Len(s) \/ i = Len(s) + 1
    BY <1>1, <1>2
  <1>4. QED
    BY <1>1, <1>2, <1>3 DEF Contains

LEMMA TakenContains ==
    ASSUME NEW s \in Seq(Events), s # <<>>, Contains(Tail(s), "STOPPED")
    PROVE  Contains(s, "STOPPED")
  <1>1. PICK i \in 1 .. Len(Tail(s)) : Tail(s)[i] = "STOPPED"
    BY DEF Contains
  <1>2. Len(s) \in Nat /\ Len(Tail(s)) = Len(s) - 1
    OBVIOUS
  <1>3. \A k \in 1 .. Len(s) - 1 : Tail(s)[k] = s[k + 1]
    OBVIOUS
  <1>4. i \in 1 .. Len(s) - 1 /\ i + 1 \in 1 .. Len(s)
    BY <1>1, <1>2
  <1>5. s[i + 1] = "STOPPED"
    BY <1>1, <1>3, <1>4
  <1>6. QED
    BY <1>4, <1>5 DEF Contains

LEMMA NothingContained == ~Contains(<<>>, "STOPPED")
  BY DEF Contains

\* A call of the library on a player that is stopped does nothing.
LEMMA CallsKeepStop ==
    ASSUME IInv, StopKept, LibPlay \/ LibPause \/ LibStop, UNCHANGED <<pt, ptr>>
    PROVE  StopKept' /\ (player = "stopped" => UNCHANGED lib)
  <1>1. CASE UNCHANGED lib
    BY <1>1 DEF lib, StopKept, HasStop
  <1>2. CASE ~UNCHANGED lib
    <2>1. PICK e \in {"PLAY", "PAUSED", "STOPPED"} :
               /\ events' = Append(events, e)
               /\ e = "STOPPED" => player' = "stopped"
      BY <1>2 DEF LibPlay, LibPause, LibStop, LibCall
    <2>2. player \notin {"none", "idle", "stopped"}
      BY <1>2 DEF LibPlay, LibPause, LibStop, LibCall
    <2>3. events \in Seq(Events) /\ e \in Events
      BY DEF IInv, TypeOK, Events
    <2>4. ~HasStop
      BY <2>2 DEF StopKept
    <2>5. HasStop' => e = "STOPPED"
      BY <2>1, <2>3, <2>4, AddedContains DEF HasStop
    <2>6. QED
      BY <2>1, <2>2, <2>5 DEF StopKept
  <1>3. QED
    BY <1>1, <1>2

\* rtsp_play: its own stop is reported by nobody, and its play finds no player
\* that is stopped.
LEMMA ThreadKeepsStop ==
    ASSUME IInv, StopKept, PtStep
    PROVE  StopKept'
  <1>1. CASE PtStart
    <2>1. CASE UNCHANGED <<ptr, lib>> /\ ptr = "null"
      BY <1>1, <2>1 DEF PtStart, PtAt, lib, StopKept, HasStop, IInv, TypeOK
    <2>2. CASE LibStop /\ UNCHANGED ptr /\ pt' = "destroy"
      <3>1. HasStop' => player' = "stopped"
        <4>1. CASE UNCHANGED lib
          BY <4>1 DEF lib, StopKept, HasStop
        <4>2. CASE player' = "stopped"
          BY <4>2
        <4>3. QED
          BY <2>2, <4>1, <4>2 DEF LibStop, LibCall
      <3>2. QED
        BY <2>2, <3>1 DEF StopKept
    <2>3. QED
      BY <1>1, <2>1, <2>2 DEF PtStart, PtAt
  <1>2. CASE PtDestroy
    BY <1>2, NothingContained DEF PtDestroy, PtAt, StopKept, HasStop
  <1>3. CASE PtClear
    BY <1>3 DEF PtClear, PtAt, lib, StopKept, HasStop
  <1>4. CASE PtInit
    <2>1. ptr = "null" /\ player = "none" /\ events = <<>>
      BY <1>4 DEF PtInit, PtAt, StopKept, IInv, TypeOK, Ownership
    <2>2. QED
      BY <1>4, <2>1, NothingContained DEF PtInit, PtAt, StopKept, HasStop
  <1>5. CASE PtPrepare
    BY <1>5 DEF PtPrepare, PtAt, StopKept, HasStop
  <1>6. CASE PtPlay
    <2>1. (LibPlay) /\ pt' = "wait"
      BY <1>6 DEF PtPlay, PtAt
    <2>2. HasStop' => player' = "stopped"
      <3>1. CASE UNCHANGED lib
        BY <3>1 DEF lib, StopKept, HasStop
      <3>2. CASE events' = Append(events, "PLAY") /\ player \in {"ready", "paused"}
        <4>1. events \in Seq(Events) /\ "PLAY" \in Events /\ ~HasStop
          BY <3>2 DEF IInv, TypeOK, Events, StopKept
        <4>2. QED
          BY <3>2, <4>1, AddedContains DEF HasStop
      <3>3. QED
        BY <2>1, <3>1, <3>2 DEF LibPlay, LibCall
    <2>3. QED
      BY <2>1, <2>2 DEF StopKept
  <1>7. CASE PtDesire \/ PtWait \/ PtLast
    BY <1>7 DEF PtDesire, PtWait, PtLast, PtAt, lib, StopKept, HasStop
  <1>8. QED
    BY <1>1, <1>2, <1>3, <1>4, <1>5, <1>6, <1>7 DEF PtStep

LEMMA OthersKeepStop ==
    ASSUME IInv, StopKept, [Next]_vars, ~PtStep
    PROVE  StopKept'
  <1>1. CASE Pause \/ Play \/ CallStop
    BY <1>1, CallsKeepStop DEF Pause, Play, CallStop
  <1>2. CASE Which \/ May \/ Want \/ StopPlayer
    BY <1>2 DEF Which, May, Want, StopPlayer, lib, StopKept, HasStop
  <1>3. CASE Forget \/ Create
    BY <1>3 DEF Forget, Create, UiAt, lib, StopKept, HasStop
  <1>4. CASE Leave
    <2>1. pt \in PtOver
      BY <1>4 DEF Leave, UiAt, IInv, Ownership
    <2>2. QED
      BY <1>4, <2>1, NothingContained DEF Leave, PtOver, StopKept, HasStop
  <1>5. CASE Report
    <2>1. events \in Seq(Events) /\ events # <<>> /\ events' = Tail(events)
      BY <1>5 DEF Report, IInv, TypeOK
    <2>2. HasStop' => HasStop
      BY <2>1, TakenContains DEF HasStop
    <2>3. QED
      BY <1>5, <2>2 DEF Report, StopKept
  <1>6. CASE Finish
    <2>1. PICK e \in {"EOF", "ERROR"} : events' = Append(events, e)
      BY <1>6 DEF Finish
    <2>2. events \in Seq(Events) /\ e \in Events /\ e # "STOPPED" /\ ~HasStop
      BY <1>6 DEF Finish, IInv, TypeOK, Events, StopKept
    <2>3. ~HasStop'
      BY <2>1, <2>2, AddedContains DEF HasStop
    <2>4. QED
      BY <1>6, <2>3 DEF Finish, StopKept
  <1>7. CASE OpenPage \/ Press \/ PressPause \/ ReadThread \/ Join \/ Reported \/ Dead
             \/ UNCHANGED vars
    BY <1>7 DEF OpenPage, Press, PressPause, ReadThread, Join, Reported, Dead, vars, lib,
                StopKept, HasStop
  <1>8. QED
    BY <1>1, <1>2, <1>3, <1>4, <1>5, <1>6, <1>7 DEF Next, UiStep, CbStep

LiveInv == IInv /\ StopKept /\ EndNeverMissed

LEMMA SpecLiveInv == Spec => []LiveInv
  <1>1. Init => StopKept
    BY NothingContained DEF Init, StopKept, HasStop
  <1>2. IInv /\ StopKept /\ [Next]_vars => StopKept'
    BY ThreadKeepsStop, OthersKeepStop
  <1>3. QED
    BY <1>1, <1>2, Invariance, EndReachesThread, PTL DEF Spec, LiveInv

\* The UI waits for a thread that waits for a stopped player; all of its
\* reports are delivered; the thread has seen the end; the thread is over.
Waits    == alive /\ ui \in {"join", "joining"}
Stopped  == Waits /\ pt = "wait" /\ player = "stopped"
Told     == Stopped /\ events = <<>>
AtLast   == Waits /\ pt = "last"
Over     == Waits /\ pt \in PtOver
Joining  == Over /\ ui = "joining"

\* Which actions there are while the UI waits, and what they change.
LEMMA WaitingActions ==
    ASSUME LiveInv, [Next]_vars, Waits, Waits'
    PROVE  \/ ReadThread /\ video /\ ui' = "joining" /\ UNCHANGED <<pt, player, events, current>>
           \/ PtStep /\ pt' # pt /\ UNCHANGED ui
           \/ /\ events # <<>> /\ events' = Tail(events)
              /\ UNCHANGED <<ui, pt, player>>
           \/ Finish /\ UNCHANGED <<ui, pt>>
           \/ UNCHANGED <<ui, pt, player, events, current>>
  <1>1. CASE UiStep
    BY <1>1 DEF UiStep, Which, May, Want, Pause, Play, StopPlayer, CallStop, ReadThread, Join,
                Forget, Create, Leave, UiAt, Waits, lib, states, LiveInv, IInv, TypeOK
  <1>2. CASE PtStep
    BY <1>2 DEF PtStep, PtStart, PtDestroy, PtClear, PtInit, PtPrepare, PtDesire, PtPlay,
                PtWait, PtLast, PtAt, uiVars
  <1>3. CASE Report
    BY <1>3 DEF Report, uiVars
  <1>4. CASE Finish
    BY <1>4 DEF Finish, uiVars
  <1>5. CASE OpenPage \/ Press \/ PressPause
    BY <1>5 DEF OpenPage, Press, PressPause, UiAt, Waits
  <1>6. CASE Reported \/ Dead \/ UNCHANGED vars
    BY <1>6 DEF Reported, Dead, vars, uiVars, lib, states
  <1>7. QED
    BY <1>1, <1>2, <1>3, <1>4, <1>5, <1>6 DEF Next, CbStep

\* Delivered reports are not new ones.
LEMMA TakenNotAdded ==
    ASSUME NEW s \in Seq(Events), NEW e \in Events
    PROVE  s # Append(s, e) /\ (s # <<>> => Tail(s) # Append(s, e))
  <1>1. Len(s) \in Nat /\ Len(Append(s, e)) = Len(s) + 1
    OBVIOUS
  <1>2. s # <<>> => Len(Tail(s)) = Len(s) - 1
    OBVIOUS
  <1>3. QED
    BY <1>1, <1>2

LEMMA StopSteps ==
    ASSUME LiveInv, LiveInv', [Next]_vars, Waits'
    PROVE  /\ Stopped => (Stopped' \/ AtLast') /\ (pt' = pt => ~NewReport)
           /\ Told => Told' \/ AtLast'
           /\ Told /\ PtStep => AtLast'
           /\ AtLast => AtLast' \/ Over'
           /\ AtLast /\ PtStep => Over'
           /\ Over => Over'
           /\ Over /\ UiStep => Joining'
           /\ Joining => Joining' /\ ~UiStep
  <1> USE DEF Stopped, Told, AtLast, Over, Joining, PtOver
  <1> SUFFICES ASSUME Waits
               PROVE  /\ Stopped => (Stopped' \/ AtLast') /\ (pt' = pt => ~NewReport)
                      /\ Told => Told' \/ AtLast'
                      /\ Told /\ PtStep => AtLast'
                      /\ AtLast => AtLast' \/ Over'
                      /\ AtLast /\ PtStep => Over'
                      /\ Over => Over'
                      /\ Over /\ UiStep => Joining'
                      /\ Joining => Joining' /\ ~UiStep
    OBVIOUS
  <1>1. PtStep => /\ pt' # pt
                  /\ pt = "wait" => pt' = "last"
                  /\ pt = "last" => pt' = "ended"
                  /\ pt \notin PtOver
    BY DEF PtStep, PtStart, PtDestroy, PtClear, PtInit, PtPrepare, PtDesire, PtPlay,
           PtWait, PtLast, PtAt
  <1>2. UiStep => ui = "join" /\ ui' = "joining"
    BY DEF Waits, UiStep, Which, May, Want, Pause, Play, StopPlayer, CallStop, ReadThread, Join,
           Forget, Create, Leave, UiAt, LiveInv, IInv, TypeOK
  <1>3. CASE PtStep
    BY <1>1, <1>2, <1>3, WaitingActions
  <1>4. CASE ~PtStep
    <2>1. Stopped => ~Finish
      BY DEF Finish
    <2>2. CASE Finish
      BY <1>2, <1>4, <2>1, <2>2 DEF Finish, uiVars
    <2>3. CASE ~Finish
      <3>1. pt' = pt /\ player' = player
        BY <1>4, <2>3, WaitingActions
      <3>2. UNCHANGED events \/ (events # <<>> /\ events' = Tail(events))
        BY <1>4, <2>3, WaitingActions
      <3>3. ~NewReport
        BY <3>2, TakenNotAdded DEF NewReport, LiveInv, IInv, TypeOK
      <3>4. ui' = ui \/ ui' = "joining"
        BY <1>4, <2>3, WaitingActions
      <3>5. QED
        BY <1>2, <1>4, <3>1, <3>2, <3>3, <3>4
    <2>4. QED
      BY <2>2, <2>3
  <1>5. QED
    BY <1>3, <1>4

\* What can be done meanwhile.
LEMMA StopCan ==
    ASSUME LiveInv
    PROVE  /\ Told => PtCan
           /\ AtLast => PtCan
           /\ Over => UiCan
           /\ Stopped /\ (events = <<>> \/ ~alive) => Told
           /\ pt = "wait" /\ HasStop /\ Waits => Stopped
  BY DEF LiveInv, PtPlays, EndNeverMissed, StopKept, Told, Stopped, AtLast, Over, Waits, PtCan, UiCan,
         PtOver

\* A stop that reaches the player ends, for any number of reports before its
\* own: the thread sees the end of the player, and the join sees the thread's.
THEOREM StopComesToEnd ==
    Spec /\ GuardedFairness /\ ReportsArrive => StopEnds
  <1>1. /\ LiveInv /\ LiveInv' /\ [Next]_vars /\ Stopped
               => Stopped' \/ AtLast' \/ ~Waits'
        /\ LiveInv /\ LiveInv' /\ [Next]_vars /\ Stopped /\ <<NewReport>>_vars
               => AtLast' \/ ~Waits'
        /\ LiveInv /\ LiveInv' /\ [Next]_vars /\ Told => Told' \/ AtLast' \/ ~Waits'
        /\ LiveInv /\ LiveInv' /\ [Next]_vars /\ Told /\ <<PtStep>>_vars
               => AtLast' \/ ~Waits'
        /\ LiveInv /\ LiveInv' /\ [Next]_vars /\ AtLast => AtLast' \/ Over' \/ ~Waits'
        /\ LiveInv /\ LiveInv' /\ [Next]_vars /\ AtLast /\ <<PtStep>>_vars
               => Over' \/ ~Waits'
    BY StopSteps DEF Stopped
  <1>2. /\ LiveInv /\ LiveInv' /\ [Next]_vars /\ Over => Over' \/ ~Waits'
        /\ LiveInv /\ LiveInv' /\ [Next]_vars /\ Over /\ <<UiStep>>_vars
               => Joining' \/ ~Waits'
        /\ LiveInv /\ LiveInv' /\ [Next]_vars /\ Joining => Joining' \/ ~Waits'
        /\ LiveInv /\ LiveInv' /\ [Next]_vars /\ Joining /\ <<UiStep>>_vars => ~Waits'
        /\ Joining => Over
    BY StopSteps DEF Joining
  <1>3. /\ LiveInv /\ Told => PtCan
        /\ LiveInv /\ AtLast => PtCan
        /\ LiveInv /\ Over => UiCan
        /\ LiveInv /\ Stopped /\ (events = <<>> \/ ~alive) => Told
    BY StopCan
  <1>4. LiveInv /\ ui \in {"join", "joining"} /\ pt = "wait" /\ Contains(events, "STOPPED")
            => Stopped \/ ~Waits
    BY StopCan DEF HasStop
  <1>5. ~Waits => ui \notin {"join", "joining"} \/ ~alive
    BY DEF Waits
  <1>6. QED
    BY <1>1, <1>2, <1>3, <1>4, <1>5, SpecLiveInv, PTL
       DEF Spec, GuardedFairness, ReportsArrive, StopEnds

=============================================================================
