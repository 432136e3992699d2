------------------------- MODULE PlayerPage_proofs -------------------------
(***************************************************************************)
(* Proofs about PlayerPage, for every bound on the reports that wait.      *)
(***************************************************************************)
EXTENDS PlayerPage, TLAPS

IInv == TypeOK /\ FlagTold /\ EndTold /\ Between

\* A report added at the end.
LEMMA Added ==
    ASSUME NEW s \in Seq(Events), NEW e \in Events
    PROVE  /\ Append(s, e) \in Seq(Events) /\ Append(s, e) # <<>>
           /\ Len(Append(s, e)) = Len(s) + 1 /\ Append(s, e)[Len(s) + 1] = e
           /\ \A i \in 1 .. Len(s) : Append(s, e)[i] = s[i]
  OBVIOUS

\* The first report taken.
LEMMA Taken ==
    ASSUME NEW s \in Seq(Events), s # <<>>
    PROVE  /\ Len(s) \in Nat /\ Len(s) > 0
           /\ Head(s) = s[1] /\ Head(s) \in Events
           /\ Tail(s) \in Seq(Events) /\ Len(Tail(s)) = Len(s) - 1
           /\ \A i \in 1 .. Len(s) - 1 : Tail(s)[i] = s[i + 1]
           /\ Tail(s) = <<>> => Len(s) = 1
           /\ Tail(s) # <<>> => Tail(s)[Len(Tail(s))] = s[Len(s)]
  <1>1. Len(s) \in Nat /\ Len(s) # 0
    OBVIOUS
  <1>2. /\ Head(s) = s[1] /\ s[1] \in Events
        /\ Tail(s) \in Seq(Events) /\ Len(Tail(s)) = Len(s) - 1
        /\ \A i \in 1 .. Len(s) - 1 : Tail(s)[i] = s[i + 1]
    BY <1>1
  <1>3. Tail(s) = <<>> => Len(s) = 1
    BY <1>1, <1>2
  <1>4. ASSUME Tail(s) # <<>> PROVE Len(s) - 1 \in 1 .. Len(s) - 1
    BY <1>1, <1>2, <1>4
  <1>5. QED
    BY <1>1, <1>2, <1>3, <1>4

LEMMA InitIInv == Init => IInv
  <1>1. Init => /\ page \in BOOLEAN /\ chosen \in BOOLEAN
                /\ playFlag \in BOOLEAN /\ playEnd \in BOOLEAN
    BY Zenon DEF Init
  <1>2. QED
    BY <1>1 DEF Init, IInv, TypeOK, FlagTold, EndTold, Between, UiPlaces, Events

\* What a call of the library, or the end of the video, may do to the player.
Moved(to, event) == player' = to /\ events' = Append(events, event) /\ player # "none"

LibStep ==
    \/ UNCHANGED lib
    \/ Moved("ready", "PREPARED")
    \/ Moved("playing", "PLAY")
    \/ Moved("paused", "PAUSED") /\ player = "playing"
    \/ Moved("stopped", "STOPPED")
    \/ Moved("finished", "EOF") \/ Moved("finished", "ERROR")

LEMMA LibSteps ==
    LibPrepare \/ LibPlay \/ LibPause \/ LibStop \/ Finish \/ UNCHANGED lib => LibStep
  BY DEF LibStep, Moved, LibPrepare, LibPlay, LibPause, LibStop, LibCall, Finish

\* A step that leaves the callback and the flags alone, or only clears
\* play_end, keeps the flags right.
LEMMA MovedKeeps ==
    ASSUME IInv, LibStep, cb' = cb, playFlag' = playFlag, playEnd' = playEnd \/ playEnd' = FALSE
    PROVE  /\ events' \in Seq(Events)
           /\ player' \in {"none", "idle", "ready", "playing", "paused", "finished", "stopped"}
           /\ FlagTold' /\ EndTold'
           /\ player = "none" => player' = "none" /\ events' = <<>>
           /\ player # "none" => player' # "none"
  <1> USE DEF IInv, TypeOK, Between
  <1>1. CASE UNCHANGED lib
    BY <1>1 DEF lib, FlagTold, EndTold, LastReport
  <1>2. ASSUME NEW e \in Events, NEW to \in {"ready", "stopped", "finished"}, Moved(to, e)
        PROVE  events' \in Seq(Events) /\ FlagTold' /\ EndTold'
    BY <1>2, Added DEF Moved, FlagTold, EndTold
  <1>3. ASSUME Moved("playing", "PLAY")
        PROVE  events' \in Seq(Events) /\ FlagTold' /\ EndTold'
    <2>1. /\ "PLAY" \in Events /\ events' \in Seq(Events) /\ events' # <<>>
          /\ Len(events) \in Nat /\ Len(events') = Len(events) + 1
          /\ events'[Len(events')] = "PLAY"
      BY <1>3, Added DEF Moved, Events
    <2>2. FlagTold'
      BY <1>3, <2>1 DEF Moved, FlagTold, LastReport
    <2>3. EndTold'
      <3>1. Len(events') \in 1 .. Len(events')
        BY <2>1
      <3>2. \A j \in Len(events') + 1 .. Len(events') : events'[j] # "EOF"
        BY <2>1
      <3>3. QED
        BY <2>1, <3>1, <3>2 DEF EndTold
    <2>4. QED
      BY <2>1, <2>2, <2>3
  <1>4. ASSUME Moved("paused", "PAUSED"), player = "playing"
        PROVE  events' \in Seq(Events) /\ FlagTold' /\ EndTold'
    <2>1. /\ events' \in Seq(Events) /\ events' # <<>>
          /\ Len(events) \in Nat /\ Len(events') = Len(events) + 1
          /\ events'[Len(events')] = "PAUSED"
          /\ \A i \in 1 .. Len(events) : events'[i] = events[i]
      BY <1>4, Added DEF Moved, Events
    <2>2. FlagTold'
      BY <1>4, <2>1 DEF Moved, FlagTold, LastReport
    <2>3. EndTold'
      <3>1. CASE \E i \in 1 .. Len(events) :
                    events[i] = "PLAY" /\ \A j \in i + 1 .. Len(events) : events[j] # "EOF"
        <4>1. PICK i \in 1 .. Len(events) :
                    events[i] = "PLAY" /\ \A j \in i + 1 .. Len(events) : events[j] # "EOF"
          BY <3>1
        <4>2. i \in 1 .. Len(events') /\ events'[i] = "PLAY"
          BY <2>1, <4>1
        <4>3. \A j \in i + 1 .. Len(events') : events'[j] # "EOF"
          BY <2>1, <4>1
        <4>4. QED
          BY <4>2, <4>3 DEF EndTold
      <3>2. CASE /\ \A j \in 1 .. Len(events) : events[j] # "EOF"
                 /\ cb = "PLAY" \/ (cb # "EOF" /\ ~playEnd)
        <4>1. \A j \in 1 .. Len(events') : events'[j] # "EOF"
          BY <2>1, <3>2
        <4>2. cb' = "PLAY" \/ (cb' # "EOF" /\ ~playEnd')
          BY <3>2
        <4>3. QED
          BY <4>1, <4>2 DEF EndTold
      <3>3. QED
        BY <1>4, <3>1, <3>2 DEF EndTold
    <2>4. QED
      BY <2>1, <2>2, <2>3
  <1>5. FlagTold' /\ EndTold' /\ events' \in Seq(Events)
    BY <1>1, <1>2, <1>3, <1>4 DEF LibStep, Events, lib
  <1>6. QED
    BY <1>5 DEF LibStep, Moved, lib

\* A report is delivered: its first store.
LEMMA ReportIInv ==
    ASSUME IInv, Report
    PROVE  IInv'
  <1> USE DEF IInv, Report, screen
  <1>1. /\ events \in Seq(Events) /\ events # <<>>
        /\ cb = "none" /\ cb' = Head(events) /\ events' = Tail(events)
    BY DEF TypeOK
  <1>2. /\ Len(events) \in Nat /\ Len(events) > 0
        /\ cb' = events[1] /\ cb' \in Events
        /\ events' \in Seq(Events) /\ Len(events') = Len(events) - 1
        /\ \A i \in 1 .. Len(events) - 1 : events'[i] = events[i + 1]
        /\ events' = <<>> => Len(events) = 1
        /\ events' # <<>> => events'[Len(events')] = events[Len(events)]
    BY <1>1, Taken
  <1>3. TypeOK'
    BY <1>2 DEF TypeOK
  <1>4. FlagTold'
    <2>1. player' = player
      OBVIOUS
    <2>2. ASSUME NEW e \in {"PLAY", "PAUSED"}, events[Len(events)] = e, events' = <<>>
          PROVE  cb' = e /\ playFlag' = (e = "PLAY")
      BY <1>2, <2>2
    <2>3. QED
      BY <1>1, <1>2, <2>1, <2>2 DEF FlagTold, LastReport
  <1>5. EndTold'
    <2> SUFFICES ASSUME player \in {"playing", "paused"} PROVE EndTold'
      BY DEF EndTold
    <2>1. CASE \E i \in 1 .. Len(events) :
                  events[i] = "PLAY" /\ \A j \in i + 1 .. Len(events) : events[j] # "EOF"
      <3>1. PICK i \in 1 .. Len(events) :
                  events[i] = "PLAY" /\ \A j \in i + 1 .. Len(events) : events[j] # "EOF"
        BY <2>1
      <3>2. CASE i = 1
        <4>1. \A j \in 1 .. Len(events') : events'[j] # "EOF"
          BY <1>2, <3>1, <3>2
        <4>2. QED
          BY <1>2, <3>1, <3>2, <4>1 DEF EndTold
      <3>3. CASE i # 1
        <4>1. i - 1 \in 1 .. Len(events') /\ events'[i - 1] = "PLAY"
          BY <1>2, <3>1, <3>3
        <4>2. \A j \in (i - 1) + 1 .. Len(events') : events'[j] # "EOF"
          BY <1>2, <3>1, <3>3
        <4>3. QED
          BY <4>1, <4>2 DEF EndTold
      <3>4. QED
        BY <3>2, <3>3
    <2>2. CASE (\A j \in 1 .. Len(events) : events[j] # "EOF") /\ ~playEnd
      <3>1. \A j \in 1 .. Len(events') : events'[j] # "EOF"
        BY <1>2, <2>2
      <3>2. cb' # "EOF"
        <4>1. 1 \in 1 .. Len(events)
          BY <1>2
        <4>2. QED
          BY <1>2, <2>2, <4>1
      <3>3. ~playEnd'
        BY <2>2
      <3>4. QED
        BY <3>1, <3>2, <3>3 DEF EndTold
    <2>3. QED
      BY <1>1, <2>1, <2>2 DEF EndTold
  <1>6. Between'
    BY <1>1 DEF Between
  <1>7. QED
    BY <1>3, <1>4, <1>5, <1>6

\* Its second store.
LEMMA ReportedIInv ==
    ASSUME IInv, Reported
    PROVE  IInv'
  <1> USE DEF IInv, Reported, screen, lib
  <1>1. TypeOK'
    BY DEF TypeOK
  <1>2. FlagTold'
    BY DEF FlagTold, LastReport
  <1>3. EndTold'
    BY DEF EndTold
  <1>4. Between'
    BY DEF Between
  <1>5. QED
    BY <1>1, <1>2, <1>3, <1>4
\* The steps that call the library, and the end of the video.
LEMMA LibIInv ==
    ASSUME IInv, Source \/ Play \/ Stop \/ Resume \/ Pause \/ Finish
    PROVE  IInv'
  <1> USE DEF IInv, screen, flags
  <1>1. LibStep /\ UNCHANGED <<after, screen, cb, flags>>
    BY LibSteps DEF Source, Play, Stop, Resume, Pause, Finish
  <1>2. /\ events' \in Seq(Events)
        /\ player' \in {"none", "idle", "ready", "playing", "paused", "finished", "stopped"}
        /\ FlagTold' /\ EndTold'
        /\ player = "none" => player' = "none" /\ events' = <<>>
        /\ player # "none" => player' # "none"
    BY <1>1, MovedKeeps
  <1>3. CASE Finish
    <2>1. ui' = ui /\ player \in {"playing", "paused"}
      BY <1>3 DEF Finish
    <2>2. TypeOK' /\ Between'
      BY <1>1, <1>2, <2>1 DEF TypeOK, Between
    <2>3. QED
      BY <1>2, <2>2
  <1>4. CASE Source \/ Play \/ Stop \/ Resume \/ Pause
    <2>1. /\ ui \in {"source", "play", "stop", "resume", "pause"}
          /\ ui' \in {"play", "clearEnd", "source", "idle"}
      BY <1>4 DEF Source, Play, Stop, Resume, Pause, UiAt
    <2>2. TypeOK' /\ Between'
      BY <1>1, <1>2, <2>1 DEF TypeOK, Between, UiPlaces
    <2>3. QED
      BY <1>2, <2>2
  <1>5. QED
    BY <1>3, <1>4

\* The steps that make or destroy the player, or reset play_flag: there is no
\* player to follow.
LEMMA RemakeIInv ==
    ASSUME IInv, Destroy \/ Clear \/ Create \/ Reset \/ Leave
    PROVE  IInv'
  <1> USE DEF IInv, UiAt, screen, lib, flags
  <1>1. player' \in {"none", "idle"}
    BY DEF Destroy, Clear, Create, Reset, Leave, Between, TypeOK
  <1>2. FlagTold' /\ EndTold'
    BY <1>1 DEF FlagTold, EndTold
  <1>3. TypeOK'
    <2>1. events' = events \/ events' = <<>>
      BY DEF Destroy, Clear, Create, Reset, Leave
    <2>2. events' \in Seq(Events)
      <3>1. <<>> \in Seq(Events)
        OBVIOUS
      <3>2. QED
        BY <2>1, <3>1 DEF TypeOK
    <2>3. playFlag' \in BOOLEAN /\ page' \in BOOLEAN
      BY DEF Destroy, Clear, Create, Reset, Leave, TypeOK
    <2>4. /\ ui' \in UiPlaces
          /\ page' = page \/ ui' = "idle"
          /\ ui # "idle" /\ box' \in {"null", "live", "freed"}
      BY DEF Destroy, Clear, Create, Reset, Leave, TypeOK, UiPlaces
    <2>5. UNCHANGED <<after, chosen, cb, playEnd>>
      BY DEF Destroy, Clear, Create, Reset, Leave
    <2>6. QED
      BY <1>1, <2>2, <2>3, <2>4, <2>5 DEF TypeOK
  <1>4. Between'
    BY DEF Destroy, Clear, Create, Reset, Leave, TypeOK, Between
  <1>5. QED
    BY <1>2, <1>3, <1>4

\* The other steps of the UI thread leave the player alone.
LEMMA QuietIInv ==
    ASSUME IInv, Button \/ ClearEnd \/ TestEnd \/ UNCHANGED vars
    PROVE  IInv'
  <1> USE DEF IInv, UiAt, screen, lib, flags, Button, OpenPage, PressList, Choose,
              PressStart, PressPause, Return, ClearEnd, TestEnd, vars
  <1>1. /\ UNCHANGED <<player, events, cb, playFlag>>
        /\ playEnd' = playEnd \/ playEnd' = FALSE
    OBVIOUS
  <1>2. FlagTold' /\ EndTold'
    BY <1>1, MovedKeeps DEF LibStep
  <1>3. TypeOK'
    BY DEF TypeOK, UiPlaces
  <1>4. Between'
    BY DEF Between, TypeOK
  <1>5. QED
    BY <1>2, <1>3, <1>4

\* Every reachable state satisfies the invariant.
THEOREM Invariance == Spec => []IInv
  <1>1. IInv /\ [Next]_vars => IInv'
    BY ReportIInv, ReportedIInv, LibIInv, RemakeIInv, QuietIInv DEF Next, UiStep, Callback
  <1>2. QED
    BY InitIInv, <1>1, PTL DEF Spec

\* Every variable keeps its type, and a closed page means an idle UI thread.
THEOREM TypeCorrect == Spec => []TypeOK
  BY Invariance, PTL DEF IInv

\* play_flag and play_end agree with the player once it has told everything.
THEOREM FlagsRight == Spec => []FlagsFollowPlayer
  <1>1. IInv => FlagsFollowPlayer
    BY DEF IInv, FlagTold, EndTold, LastReport, FlagsFollowPlayer, Told
  <1>2. QED
    BY Invariance, <1>1, PTL

\* A closed page leaves nothing behind, and no deleted list is found again.
THEOREM PageClean == Spec => []PageOwns
  <1>1. IInv => PageOwns
    BY DEF IInv, Between, PageOwns
  <1>2. QED
    BY Invariance, <1>1, PTL

=============================================================================
