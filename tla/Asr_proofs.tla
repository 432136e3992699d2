---------------------------- MODULE Asr_proofs ----------------------------
(***************************************************************************)
(* Proofs about Asr, for every bound on the answers that wait.             *)
(***************************************************************************)
EXTENDS Asr, FiniteSetTheorems, TLAPS

IInv == TypeOK /\ Lifetime /\ Room

Signals == {"answer", "stop"}

\* Writing to a pipe and reading from one.
LEMMA Written ==
    ASSUME NEW s \in Seq(Signals), NEW e \in Signals
    PROVE  Append(s, e) \in Seq(Signals) /\ Len(Append(s, e)) = Len(s) + 1
  OBVIOUS

LEMMA ReadFrom ==
    ASSUME NEW s \in Seq(Signals), s # <<>>
    PROVE  Tail(s) \in Seq(Signals) /\ Len(Tail(s)) = Len(s) - 1
  OBVIOUS

LEMMA EmptyPipe == <<>> \in Seq(Signals) /\ Len(<<>>) = 0
  OBVIOUS

LEMMA InitIInv == Init => IInv
  <1> SUFFICES ASSUME Init PROVE IInv
    OBVIOUS
  <1>1. /\ alive \in BOOLEAN /\ page \in BOOLEAN /\ running \in BOOLEAN /\ open \in BOOLEAN
        /\ wakeup \in BOOLEAN /\ wakeUpdate \in BOOLEAN
        /\ icon \in BOOLEAN /\ caption \in BOOLEAN
    BY Zenon DEF Init
  <1>2. QED
    BY <1>1, PipeMaxAssumption, EmptyPipe
       DEF Init, IInv, TypeOK, Lifetime, Room, Told, UiPlaces, CapPlaces, PlayPlaces,
           Stores, Signals

\* The lifetime of pipe and threads: what the steps of docap and doplay do to
\* it is only that a thread goes on, or ends.
LEMMA ThreadLifetime ==
    ASSUME IInv, CapStep \/ PlayStep
    PROVE  Lifetime'
  <1>1. /\ UNCHANGED <<page, ui, device>>
        /\ cap' # "none" => cap # "none"
        /\ play' # "none" => play # "none"
    <2>1. CASE CapStep
      BY <2>1 DEF CapStep, CapOpen, HearWakeWord, HearNoWakeWord, StoreSeen,
                  AnswerCmd, HearCmd, HearNothing, CapBye, CapAt
    <2>2. CASE PlayStep
      BY <2>2 DEF PlayStep, PlayOpen, PlayLoop, PlayRead, PlayGot, PlayFile, PlayAt
    <2>3. QED
      BY <2>1, <2>2
  <1>2. QED
    BY <1>1 DEF IInv, Lifetime, device

\* The steps of the UI thread: each of its places has its part of Lifetime.
LEMMA UiLifetime ==
    ASSUME IInv, OpenPage \/ ClosePage \/ UiStep
    PROVE  Lifetime'
  <1> USE DEF IInv, Lifetime, UiAt, device, screen
  <1>1. CASE OpenPage
    BY <1>1 DEF OpenPage
  <1>2. CASE ClosePage
    BY <1>2 DEF ClosePage
  <1>3. CASE Stop \/ Tell
    BY <1>3 DEF Stop, Tell
  <1>4. CASE JoinCap \/ JoinPlay
    <2>1. CASE JoinCap
      <3>1. /\ ui = "joinCap" /\ ui' = "joinPlay" /\ cap' = "none"
            /\ UNCHANGED <<page, running, open, play>>
        BY <2>1 DEF JoinCap
      <3>2. QED
        BY <3>1
    <2>2. CASE JoinPlay
      <3>1. /\ ui = "joinPlay" /\ ui' = "close" /\ play' = "none"
            /\ UNCHANGED <<page, running, open, cap>>
        BY <2>2 DEF JoinPlay
      <3>2. QED
        BY <3>1
    <2>3. QED
      BY <1>4, <2>1, <2>2
  <1>5. CASE Close
    BY <1>5 DEF Close
  <1>6. CASE TimerWake \/ TimerTest \/ TimerReset
    BY <1>6 DEF TimerWake, TimerTest, TimerReset
  <1>7. QED
    BY <1>1, <1>2, <1>3, <1>4, <1>5, <1>6 DEF UiStep

\* What the UI thread does to the pipe and the types of its variables.
LEMMA UiType ==
    ASSUME IInv, OpenPage \/ ClosePage \/ UiStep
    PROVE  TypeOK' /\ Room'
  <1> USE PipeMaxAssumption
      DEF IInv, TypeOK, Room, Told, UiAt, device, screen, UiPlaces, CapPlaces,
          PlayPlaces, Signals
  <1>1. CASE OpenPage
    <2>1. /\ pipe' \in {pipe, <<>>} /\ running' \in BOOLEAN /\ open' \in BOOLEAN
          /\ cap' \in {cap, "none", "open"} /\ play' \in {play, "none", "open"}
          /\ page' \in BOOLEAN /\ ui = "idle" /\ ui' = "idle"
          /\ UNCHANGED <<alive, listen, stores, wakeup, wakeUpdate, icon, caption>>
      BY <1>1 DEF OpenPage
    <2>2. CASE pipe' = pipe
      BY <2>1, <2>2
    <2>3. CASE pipe' = <<>> /\ cap' \in {"none", "open"}
      BY <2>1, <2>3, EmptyPipe
    <2>4. pipe' = pipe \/ cap' \in {"none", "open"}
      BY <1>1 DEF OpenPage
    <2>5. QED
      BY <2>1, <2>2, <2>3, <2>4
  <1>2. CASE ClosePage
    <2>1. page' \in BOOLEAN
      BY <1>2, Zenon DEF ClosePage
    <2>2. QED
      BY <1>2, <2>1 DEF ClosePage
  <1>3. CASE Stop
    <2>1. running' \in BOOLEAN
      BY <1>3, Zenon DEF Stop
    <2>2. QED
      BY <1>3, <2>1 DEF Stop
  <1>4. CASE Tell
    BY <1>4, Written DEF Tell
  <1>5. CASE JoinCap
    <2>1. alive' \in BOOLEAN
      BY <1>5, Zenon DEF JoinCap
    <2>2. QED
      BY <1>5, <2>1 DEF JoinCap
  <1>6. CASE JoinPlay
    <2>1. alive' \in BOOLEAN
      BY <1>6, Zenon DEF JoinPlay
    <2>2. QED
      BY <1>6, <2>1 DEF JoinPlay, Lifetime
  <1>7. CASE Close
    <2>1. open' \in BOOLEAN
      BY <1>7, Zenon DEF Close
    <2>2. QED
      BY <1>7, EmptyPipe, <2>1 DEF Close, Lifetime
  <1>8. CASE TimerWake
    BY <1>8 DEF TimerWake
  <1>9. CASE TimerTest
    BY <1>9 DEF TimerTest
  <1>10. CASE TimerReset
    <2>1. wakeUpdate' \in BOOLEAN /\ caption' \in BOOLEAN
      BY <1>10, Zenon DEF TimerReset
    <2>2. QED
      BY <1>10, <2>1 DEF TimerReset
  <1>11. QED
    BY <1>1, <1>2, <1>3, <1>4, <1>5, <1>6, <1>7, <1>8, <1>9, <1>10 DEF UiStep

\* docap: it hears only while the pipe has room for the answer.
LEMMA CapType ==
    ASSUME IInv, CapStep
    PROVE  TypeOK' /\ Room'
  <1> USE PipeMaxAssumption
      DEF IInv, TypeOK, Room, Told, CapAt, device, screen, heard, CapPlaces, Signals
  <1>1. CASE CapOpen
    BY <1>1 DEF CapOpen
  <1>2. CASE HearWakeWord
    BY <1>2 DEF HearWakeWord, Understand
  <1>3. CASE HearNoWakeWord
    BY <1>3 DEF HearNoWakeWord
  <1>4. CASE StoreSeen
    <2>1. cap = "store" /\ cap' \in {"store", "answer"}
      BY <1>4 DEF StoreSeen
    <2>2. UNCHANGED <<alive, page, ui, device, play, screen, pipe, listen>>
      BY <1>4 DEF StoreSeen
    <2>3. stores' \subseteq Stores /\ wakeup' \in BOOLEAN /\ wakeUpdate' \in BOOLEAN
      BY <1>4 DEF StoreSeen
    <2>4. QED
      BY <2>1, <2>2, <2>3
  <1>5. CASE AnswerCmd
    BY <1>5, Written DEF AnswerCmd
  <1>6. CASE HearCmd
    BY <1>6 DEF HearCmd, Understand
  <1>7. CASE HearNothing
    BY <1>7 DEF HearNothing
  <1>8. CASE CapBye
    BY <1>8 DEF CapBye
  <1>9. QED
    BY <1>1, <1>2, <1>3, <1>4, <1>5, <1>6, <1>7, <1>8 DEF CapStep

\* doplay only takes from the pipe.
LEMMA PlayType ==
    ASSUME IInv, PlayStep
    PROVE  TypeOK' /\ Room'
  <1> USE PipeMaxAssumption
      DEF IInv, TypeOK, Room, Told, PlayAt, device, screen, heard, PlayPlaces, Signals
  <1>1. CASE PlayOpen
    BY <1>1 DEF PlayOpen
  <1>2. CASE PlayLoop \/ PlayFile
    BY <1>2 DEF PlayLoop, PlayFile
  <1>3. CASE PlayRead
    BY <1>3, ReadFrom DEF PlayRead
  <1>4. CASE PlayGot
    BY <1>4 DEF PlayGot
  <1>5. QED
    BY <1>1, <1>2, <1>3, <1>4 DEF PlayStep

LEMMA NextIInv == IInv /\ [Next]_vars => IInv'
  <1> SUFFICES ASSUME IInv, [Next]_vars PROVE IInv'
    OBVIOUS
  <1>1. CASE OpenPage \/ ClosePage \/ UiStep
    BY <1>1, UiLifetime, UiType DEF IInv
  <1>2. CASE CapStep
    BY <1>2, ThreadLifetime, CapType DEF IInv
  <1>3. CASE PlayStep
    BY <1>3, ThreadLifetime, PlayType DEF IInv
  <1>4. CASE UNCHANGED vars \/ Dead
    BY <1>4 DEF Dead, vars, device, heard, screen, IInv, TypeOK, Lifetime, Room, Told
  <1>5. QED
    BY <1>1, <1>2, <1>3, <1>4 DEF Next

\* The life of pipe and threads follows the place of the UI, whatever the
\* bound on the pipe.
THEOREM Invariance == Spec => []IInv
  <1>1. QED
    BY InitIInv, NextIInv, PTL DEF Spec

\* Every variable keeps its type, and the pipe never holds more than one entry
\* beyond the bound, whatever the bound.
THEOREM TypeCorrect == Spec => []TypeOK
  <1>1. IInv => TypeOK
    BY DEF IInv
  <1>2. QED
    BY Invariance, <1>1, PTL

\* When the page has been left, no thread of it is left; and no thread touches
\* the pipe before it is opened or after it is closed.
THEOREM ThreadsSafe == Spec => []ThreadsContained
  <1>1. IInv => NoThreadLeft
    BY DEF IInv, Lifetime, NoThreadLeft
  <1>2. IInv => PipeOpenInUse
    BY DEF IInv, Lifetime, PipeOpenInUse
  <1>3. QED
    BY Invariance, <1>1, <1>2, PTL DEF ThreadsContained

-----------------------------------------------------------------------------
(* The icon: the part of SleepHides that needs no fairness.                *)

\* The thread stays as it is unless the UI starts or joins it.
LEMMA UiQuiet ==
    ASSUME IInv, Quiet, OpenPage \/ ClosePage \/ UiStep
    PROVE  Quiet'
  <1>1. UNCHANGED <<stores, wakeup>>
    BY DEF OpenPage, ClosePage, UiStep, Stop, Tell, JoinCap, JoinPlay, Close, TimerWake,
           TimerTest, TimerReset, UiAt
  <1>2. CASE OpenPage
    <2>1. /\ cap = "none"
          /\ cap' \in {cap, "none", "open"}
      BY <1>2 DEF OpenPage, UiAt, IInv, Lifetime
    <2>2. QED
      BY <1>1, <2>1 DEF Quiet
  <1>3. CASE JoinCap
    <2>1. cap \in {"ended", "none"} /\ cap' = "none"
      BY <1>3 DEF JoinCap
    <2>2. QED
      BY <1>1, <2>1 DEF Quiet
  <1>4. CASE ClosePage \/ Stop \/ Tell \/ JoinPlay \/ Close \/ TimerWake \/ TimerTest
             \/ TimerReset
    <2>1. cap' = cap
      BY <1>4 DEF ClosePage, Stop, Tell, JoinPlay, Close, TimerWake, TimerTest, TimerReset
    <2>2. QED
      BY <1>1, <2>1 DEF Quiet
  <1>5. QED
    BY <1>2, <1>3, <1>4 DEF UiStep

\* docap answers only when its last store has been seen.
LEMMA CapQuiet ==
    ASSUME IInv, Quiet, CapStep
    PROVE  Quiet'
  <1> USE DEF Quiet, CapAt
  <1>1. CASE CapOpen
    BY <1>1 DEF CapOpen
  <1>2. CASE HearWakeWord
    BY <1>2 DEF HearWakeWord, Understand
  <1>3. CASE HearNoWakeWord
    BY <1>3 DEF HearNoWakeWord, heard
  <1>4. CASE StoreSeen
    <2>1. PICK s \in stores : stores' = stores \ {s}
      BY <1>4 DEF StoreSeen
    <2>2. cap = "store" /\ cap' = (IF Cardinality(stores) = 1 THEN "answer" ELSE "store")
      BY <1>4 DEF StoreSeen
    <2>3. CASE Cardinality(stores) = 1
      <3>1. IsFiniteSet(stores)
        <4>1. IsFiniteSet({"wake_update"})
          BY FS_Singleton
        <4>2. IsFiniteSet({"wake_update"} \cup {"wakeup"})
          BY <4>1, FS_AddElement
        <4>3. Stores = {"wake_update"} \cup {"wakeup"}
          BY DEF Stores
        <4>4. IsFiniteSet(Stores)
          BY <4>2, <4>3
        <4>5. stores \subseteq Stores
          BY DEF IInv, TypeOK
        <4>6. QED
          BY <4>4, <4>5, FS_Subset
      <3>2. PICK x : stores = {x}
        BY <2>3, <3>1, FS_Singleton
      <3>3. stores' = {} /\ cap' = "answer"
        BY <2>1, <2>2, <2>3, <3>2
      <3>4. QED
        BY <3>3
    <2>4. CASE Cardinality(stores) # 1
      BY <2>2, <2>4
    <2>5. QED
      BY <2>3, <2>4
  <1>5. CASE AnswerCmd
    BY <1>5 DEF AnswerCmd, heard
  <1>6. CASE HearCmd
    BY <1>6 DEF HearCmd, Understand
  <1>7. CASE HearNothing
    BY <1>7 DEF HearNothing
  <1>8. CASE CapBye
    BY <1>8 DEF CapBye
  <1>9. QED
    BY <1>1, <1>2, <1>3, <1>4, <1>5, <1>6, <1>7, <1>8 DEF CapStep

LEMMA NextQuiet == IInv /\ Quiet /\ [Next]_vars => Quiet'
  <1> SUFFICES ASSUME IInv, Quiet, [Next]_vars PROVE Quiet'
    OBVIOUS
  <1>1. CASE PlayStep
    BY <1>1 DEF PlayStep, PlayOpen, PlayLoop, PlayRead, PlayGot, PlayFile, PlayAt, heard, Quiet
  <1>2. CASE UNCHANGED vars \/ Dead
    BY <1>2 DEF Dead, vars, heard, Quiet
  <1>3. QED
    BY <1>1, <1>2, UiQuiet, CapQuiet DEF Next

LEMMA SpecQuiet == Spec => []Quiet
  <1>1. Init => Quiet
    BY DEF Init, Quiet
  <1>2. QED
    BY <1>1, NextQuiet, Invariance, PTL DEF Spec

\* Only the timer touches the icon, and with the page closed there is no thread
\* that could have left the flag set for it.
LEMMA TimerFades ==
    ASSUME IInv, Quiet, [Next]_vars, ~page
    PROVE  (icon' => icon) /\ (TimerWake => ~icon')
  <1>1. TimerWake => ~icon'
    BY DEF TimerWake, UiAt, IInv, Lifetime, Quiet
  <1>2. UNCHANGED icon \/ TimerWake
    <2>1. CASE OpenPage \/ ClosePage \/ UiStep
      BY <2>1 DEF OpenPage, ClosePage, UiStep, Stop, Tell, JoinCap, JoinPlay, Close,
                  TimerTest, TimerReset, screen
    <2>2. CASE CapStep \/ PlayStep
      BY <2>2 DEF CapStep, CapOpen, HearWakeWord, HearNoWakeWord, StoreSeen, AnswerCmd,
                  HearCmd, HearNothing, CapBye, CapAt, PlayStep, PlayOpen, PlayLoop,
                  PlayRead, PlayGot, PlayFile, PlayAt, screen
    <2>3. CASE UNCHANGED vars \/ Dead
      BY <2>3 DEF Dead, vars, screen
    <2>4. QED
      BY <2>1, <2>2, <2>3 DEF Next
  <1>3. QED
    BY <1>1, <1>2

\* Once the page is closed the icon can only go out, and the first call of the
\* timer puts it out: whenever the page was left, and however late the stores
\* of the thread were seen.
THEOREM IconGoesOut == Spec => IconOnlyFades
  <1>1. ASSUME IInv, Quiet, [Next]_vars
        PROVE  [~page => (icon' => icon) /\ (TimerWake => ~icon')]_vars
    BY <1>1, TimerFades
  <1>2. QED
    BY <1>1, Invariance, SpecQuiet, PTL DEF Spec, IconOnlyFades

-----------------------------------------------------------------------------
(* Leaving: the part of LeaveEnds that needs no fairness.                  *)

LEMMA NextWoken == IInv /\ ReaderWoken /\ [Next]_vars => ReaderWoken'
  <1> SUFFICES ASSUME IInv, ReaderWoken, [Next]_vars, Told', play' = "read"
               PROVE  pipe' # <<>>
    BY DEF ReaderWoken
  <1>0. pipe \in Seq(Signals)
    BY DEF IInv, TypeOK, Signals
  <1>1. CASE Tell
    <2>1. pipe' = Append(pipe, "stop") /\ "stop" \in Signals
      BY <1>1 DEF Tell, Signals
    <2>2. Len(pipe') # 0
      BY <1>0, <2>1, Written
    <2>3. QED
      BY <2>2, EmptyPipe
  <1>2. CASE ClosePage \/ OpenPage \/ Stop \/ JoinPlay \/ Close \/ TimerWake \/ TimerTest
             \/ TimerReset
    BY <1>2 DEF ClosePage, OpenPage, Stop, JoinPlay, Close, TimerWake, TimerTest, TimerReset,
                UiAt, Told
  <1>3. CASE JoinCap
    BY <1>3 DEF JoinCap, UiAt, Told, ReaderWoken
  <1>4. CASE CapStep
    <2>1. UNCHANGED <<ui, play>> /\ ui' = ui /\ play' = play
      BY <1>4 DEF CapStep, CapOpen, HearWakeWord, HearNoWakeWord, StoreSeen, AnswerCmd,
                  HearCmd, HearNothing, CapBye, CapAt
    <2>2. pipe # <<>>
      BY <2>1 DEF ReaderWoken, Told
    <2>3. CASE AnswerCmd
      <3>1. pipe' = Append(pipe, "answer") /\ "answer" \in Signals
        BY <2>3 DEF AnswerCmd, Signals
      <3>2. Len(pipe') # 0
        BY <1>0, <3>1, Written
      <3>3. QED
        BY <3>2, EmptyPipe
    <2>4. CASE ~AnswerCmd
      BY <1>4, <2>2, <2>4 DEF CapStep, CapOpen, HearWakeWord, HearNoWakeWord, StoreSeen,
                  HearCmd, HearNothing, CapBye, Understand
    <2>5. QED
      BY <2>3, <2>4
  <1>5. CASE PlayStep
    <2>1. ui' = ui
      BY <1>5 DEF PlayStep, PlayOpen, PlayLoop, PlayRead, PlayGot, PlayFile, PlayAt
    <2>2. ~running
      BY <2>1 DEF IInv, Lifetime, Told
    <2>3. QED
      BY <1>5, <2>2 DEF PlayStep, PlayOpen, PlayLoop, PlayRead, PlayGot, PlayFile, PlayAt
  <1>6. CASE UNCHANGED vars \/ Dead
    BY <1>6 DEF Dead, vars, Told, ReaderWoken
  <1>7. QED
    BY <1>1, <1>2, <1>3, <1>4, <1>5, <1>6 DEF Next, UiStep

\* Whatever the threads are doing when the page is left, and however many
\* answers wait, the join of doplay never waits for a read that nobody ends.
THEOREM JoinNeverStuck == Spec => []ReaderWoken
  <1>1. Init => ReaderWoken
    BY DEF Init, Told, ReaderWoken
  <1>2. QED
    BY <1>1, NextWoken, Invariance, PTL DEF Spec

-----------------------------------------------------------------------------
(* The two promises themselves.  The provers know no ENABLED, so the       *)
(* fairness is GuardedFairness; while asr_audio_deinit waits, each thread  *)
(* is a few steps from its end, and the way there is a chain of them.      *)

LiveInv == IInv /\ Quiet /\ ReaderWoken

LEMMA SpecLiveInv == Spec => []LiveInv
  BY Invariance, SpecQuiet, JoinNeverStuck, PTL DEF LiveInv

UiIs(p) == alive /\ ui = p

Left == ui = "idle" \/ ~alive

\* How many steps docap is from its end when running is not set.
CapLeft ==
    CASE cap \in {"none", "ended"} -> 0
      [] cap = "loop"   -> 1
      [] cap = "open"   -> 2
      [] cap = "answer" -> IF listen = "awake" THEN 6 ELSE 2
      [] cap = "store"  -> (IF listen = "awake" THEN 7 ELSE 3)
                              + (IF stores = Stores THEN 1 ELSE 0)
      [] cap = "cmd"    -> 5

\* The same of doplay.
PlayLeft ==
    IF play \in {"none", "ended"} THEN 0
    ELSE IF play \in {"loop", "got"} THEN 1 ELSE 2

CapWithin(k)  == UiIs("joinCap") /\ CapLeft <= k
PlayWithin(k) == UiIs("joinPlay") /\ PlayLeft <= k

\* What becomes of the places of the UI thread that wait for nothing.
LEMMA UiMoves ==
    ASSUME LiveInv, LiveInv', [Next]_vars
    PROVE  /\ UiIs("stop") => UiIs("stop")' \/ UiIs("tell")' \/ Left'
           /\ UiIs("tell") => UiIs("tell")' \/ UiIs("joinCap")' \/ Left'
           /\ UiIs("close") => UiIs("close")' \/ Left'
           /\ UiIs("stop") /\ UiStep => UiIs("tell")' \/ Left'
           /\ UiIs("tell") /\ UiStep => UiIs("joinCap")' \/ Left'
           /\ UiIs("close") /\ UiStep => Left'
  <1>1. CASE OpenPage \/ ClosePage \/ UiStep
    BY <1>1 DEF UiIs, Left, OpenPage, ClosePage, UiStep, Stop, Tell, JoinCap, JoinPlay,
                Close, TimerWake, TimerTest, TimerReset, UiAt
  <1>2. CASE ~UiStep
    <2>1. CASE OpenPage \/ ClosePage
      BY <1>1, <2>1
    <2>2. CASE CapStep \/ PlayStep
      BY <1>2, <2>2 DEF UiIs, Left, CapStep, CapOpen, HearWakeWord, HearNoWakeWord, StoreSeen,
                  AnswerCmd, HearCmd, HearNothing, CapBye, CapAt, PlayStep, PlayOpen,
                  PlayLoop, PlayRead, PlayGot, PlayFile, PlayAt
    <2>3. CASE UNCHANGED vars \/ Dead
      BY <1>2, <2>3 DEF Dead, vars, UiIs, Left
    <2>4. QED
      BY <1>2, <2>1, <2>2, <2>3 DEF Next
  <1>3. QED
    BY <1>1, <1>2

\* The values of the two distances.
LEMMA CapLeftIs ==
    ASSUME cap \in CapPlaces
    PROVE  /\ cap \in {"none", "ended"} => CapLeft = 0
           /\ cap = "loop" => CapLeft = 1
           /\ cap = "open" => CapLeft = 2
           /\ cap = "answer" => CapLeft = IF listen = "awake" THEN 6 ELSE 2
           /\ cap = "store" /\ stores = Stores
                  => CapLeft = IF listen = "awake" THEN 8 ELSE 4
           /\ cap = "store" /\ stores # Stores
                  => CapLeft = IF listen = "awake" THEN 7 ELSE 3
           /\ cap = "cmd" => CapLeft = 5
           /\ CapLeft \in 0 .. 8
           /\ cap \notin {"none", "ended"} => CapLeft \in 1 .. 8
  BY DEF CapLeft, CapPlaces

\* A step of docap that is to stop.
LEMMA CapFalls ==
    ASSUME LiveInv, LiveInv', CapStep, ~running
    PROVE  CapLeft' < CapLeft
  <1>1. /\ cap \in CapPlaces
        /\ listen \in {"asleep", "awake", "fresh"} /\ stores \subseteq Stores
    BY DEF LiveInv, IInv, TypeOK
  <1>2. /\ cap' \in {"none", "ended"} => CapLeft' = 0
        /\ cap' = "loop" => CapLeft' = 1
        /\ cap' = "answer" => CapLeft' = IF listen' = "awake" THEN 6 ELSE 2
        /\ cap' = "store" /\ stores' = Stores
               => CapLeft' = IF listen' = "awake" THEN 8 ELSE 4
        /\ cap' = "store" /\ stores' # Stores
               => CapLeft' = IF listen' = "awake" THEN 7 ELSE 3
        /\ cap' = "cmd" => CapLeft' = 5
    BY DEF CapLeft
  <1> USE <1>1, <1>2, CapLeftIs
  <1>3. CASE CapOpen
    BY <1>3 DEF CapOpen, CapAt
  <1>4. CASE HearWakeWord \/ HearNoWakeWord
    BY <1>4 DEF HearWakeWord, HearNoWakeWord
  <1>5. CASE StoreSeen
    <2>1. PICK s \in stores : stores' = stores \ {s}
      BY <1>5 DEF StoreSeen
    <2>2. cap = "store" /\ cap' \in {"store", "answer"} /\ listen' = listen
      BY <1>5 DEF StoreSeen, CapAt
    <2>3. stores' # Stores
      BY <2>1
    <2>4. CASE stores = Stores
      BY <2>2, <2>3, <2>4
    <2>5. CASE stores # Stores
      <3>1. stores = {s}
        BY <2>1, <2>5 DEF Stores
      <3>2. Cardinality(stores) = 1
        BY <3>1, FS_Singleton
      <3>3. cap' = "answer"
        BY <1>5, <3>2 DEF StoreSeen, CapAt
      <3>4. QED
        BY <2>2, <2>5, <3>3
    <2>6. QED
      BY <2>4, <2>5
  <1>6. CASE AnswerCmd
    BY <1>6 DEF AnswerCmd, CapAt, heard
  <1>7. CASE HearCmd \/ HearNothing
    BY <1>7 DEF HearCmd, HearNothing, CapAt, Understand
  <1>8. CASE CapBye
    BY <1>8 DEF CapBye, CapAt
  <1>9. QED
    BY <1>3, <1>4, <1>5, <1>6, <1>7, <1>8 DEF CapStep

\* A step of doplay that is to stop.
LEMMA PlayFalls ==
    ASSUME LiveInv, PlayStep, ~running
    PROVE  PlayLeft' < PlayLeft
  BY DEF PlayStep, PlayOpen, PlayLoop, PlayRead, PlayGot, PlayFile, PlayAt, PlayLeft

\* What a link of the two chains needs.
CapLink(j, k) ==
    /\ LiveInv /\ LiveInv' /\ CapWithin(k) /\ [Next]_vars
           => CapWithin(k)' \/ UiIs("joinPlay")' \/ Left'
    /\ LiveInv /\ LiveInv' /\ CapWithin(k) /\ <<CapStep>>_vars
           => CapWithin(j)' \/ Left'
    /\ LiveInv /\ CapWithin(k) => CapWithin(0) \/ CapCan

PlayLink(j, k) ==
    /\ LiveInv /\ LiveInv' /\ PlayWithin(k) /\ [Next]_vars
           => PlayWithin(k)' \/ UiIs("close")' \/ Left'
    /\ LiveInv /\ LiveInv' /\ PlayWithin(k) /\ <<PlayStep>>_vars
           => PlayWithin(j)' \/ Left'
    /\ LiveInv /\ PlayWithin(k) => PlayWithin(0) \/ PlayCan

\* The other threads do not move the one that is joined.
LEMMA CapKept ==
    ASSUME NEW k \in Nat, LiveInv, LiveInv', CapWithin(k), ~CapStep, [Next]_vars
    PROVE  CapWithin(k)' \/ UiIs("joinPlay")' \/ Left'
  <1>1. CASE JoinCap
    BY <1>1 DEF JoinCap, UiAt, UiIs, Left
  <1>2. CASE PlayStep \/ Dead \/ UNCHANGED vars
    BY <1>2 DEF PlayStep, PlayOpen, PlayLoop, PlayRead, PlayGot, PlayFile, PlayAt,
                Dead, vars, heard, UiIs, Left, CapWithin, CapLeft
  <1>3. QED
    BY <1>1, <1>2 DEF Next, OpenPage, ClosePage, UiStep, Stop, Tell, JoinPlay, Close,
                      TimerWake, TimerTest, TimerReset, UiAt, CapWithin, UiIs

LEMMA CapLinks ==
    ASSUME NEW j \in 0 .. 7, NEW k, k = j + 1
    PROVE  CapLink(j, k)
  <1>1. LiveInv /\ UiIs("joinCap") => ~running /\ cap \in CapPlaces /\ CapLeft \in 0 .. 8
    BY CapLeftIs DEF LiveInv, IInv, TypeOK, Lifetime, UiIs
  <1>2. ASSUME LiveInv, LiveInv', CapWithin(k), CapStep
        PROVE  CapWithin(j)' \/ Left'
    <2>1. CapLeft' < CapLeft /\ CapLeft <= k /\ CapLeft \in 0 .. 8
      BY <1>1, <1>2, CapFalls DEF CapWithin
    <2>2. CapLeft' \in 0 .. 8
      <3>1. cap' \in CapPlaces
        BY <1>2 DEF LiveInv, IInv, TypeOK
      <3>2. QED
        BY <3>1 DEF CapLeft, CapPlaces
    <2>3. CapLeft' <= j
      BY <2>1, <2>2
    <2>4. ui' = ui
      BY <1>2 DEF CapStep, CapOpen, HearWakeWord, HearNoWakeWord, StoreSeen, AnswerCmd,
                  HearCmd, HearNothing, CapBye, CapAt
    <2>5. QED
      BY <1>2, <2>3, <2>4 DEF CapWithin, UiIs, Left
  <1>3. ASSUME LiveInv, LiveInv', CapWithin(k), ~CapStep, [Next]_vars
        PROVE  CapWithin(k)' \/ UiIs("joinPlay")' \/ Left'
    BY <1>3, CapKept
  <1>4. \A n \in 0 .. 8 : n <= j => n <= k
    OBVIOUS
  <1>5. ASSUME LiveInv, LiveInv', CapWithin(k), [Next]_vars
        PROVE  CapWithin(k)' \/ UiIs("joinPlay")' \/ Left'
    <2>1. CASE CapStep
      <3>1. CapWithin(j)' => CapLeft' \in 0 .. 8 /\ UiIs("joinCap")' /\ CapLeft' <= j
        <4>1. cap' \in CapPlaces
          BY <1>5 DEF LiveInv, IInv, TypeOK
        <4>2. CapLeft' \in 0 .. 8
          BY <4>1 DEF CapLeft, CapPlaces
        <4>3. QED
          BY <4>2 DEF CapWithin
      <3>2. QED
        BY <1>2, <1>4, <1>5, <2>1, <3>1 DEF CapWithin
    <2>2. QED
      BY <1>3, <1>5, <2>1
  <1>6. ASSUME LiveInv, CapWithin(k), ~CapCan PROVE CapWithin(0)
    <2>1. cap \in {"none", "ended"}
      BY <1>1, <1>6 DEF CapWithin, CapCan, UiIs
    <2>2. QED
      BY <1>1, <1>6, <2>1, CapLeftIs DEF CapWithin
  <1>7. QED
    BY <1>2, <1>5, <1>6 DEF CapLink

LEMMA PlayKept ==
    ASSUME NEW k \in Nat, LiveInv, LiveInv', PlayWithin(k), ~PlayStep, [Next]_vars
    PROVE  PlayWithin(k)' \/ UiIs("close")' \/ Left'
  <1>1. CASE JoinPlay
    BY <1>1 DEF JoinPlay, UiAt, UiIs, Left
  <1>2. CASE Dead \/ UNCHANGED vars
    BY <1>2 DEF Dead, vars, UiIs, Left, PlayWithin, PlayLeft
  <1>3. ~CapStep
    <2>1. cap = "none"
      BY DEF LiveInv, IInv, Lifetime, PlayWithin, UiIs
    <2>2. QED
      BY <2>1 DEF CapStep, CapOpen, HearWakeWord, HearNoWakeWord, StoreSeen, AnswerCmd,
                  HearCmd, HearNothing, CapBye, CapAt
  <1>4. QED
    BY <1>1, <1>2, <1>3 DEF Next, OpenPage, ClosePage, UiStep, Stop, Tell, JoinCap,
       Close, TimerWake, TimerTest, TimerReset, UiAt, PlayWithin, UiIs

LEMMA PlayLinks ==
    ASSUME NEW j \in 0 .. 1, NEW k, k = j + 1
    PROVE  PlayLink(j, k)
  <1>0. PlayLeft \in 0 .. 2 /\ PlayLeft' \in 0 .. 2
    BY DEF PlayLeft
  <1>1. LiveInv /\ UiIs("joinPlay") => ~running /\ cap = "none"
    BY DEF LiveInv, IInv, Lifetime, UiIs
  <1>2. ASSUME LiveInv, LiveInv', PlayWithin(k), PlayStep
        PROVE  PlayLeft' <= j /\ ui' = ui
    <2>1. PlayLeft' < PlayLeft /\ PlayLeft <= k
      BY <1>1, <1>2, PlayFalls DEF PlayWithin
    <2>2. ui' = ui
      BY <1>2 DEF PlayStep, PlayOpen, PlayLoop, PlayRead, PlayGot, PlayFile, PlayAt
    <2>3. QED
      BY <1>0, <2>1, <2>2
  <1>3. ASSUME LiveInv, LiveInv', PlayWithin(k), ~PlayStep, [Next]_vars
        PROVE  PlayWithin(k)' \/ UiIs("close")' \/ Left'
    BY <1>3, PlayKept
  <1>4. PlayLeft' <= j => PlayLeft' <= k
    BY <1>0
  <1>5. ASSUME LiveInv, PlayWithin(k), ~PlayCan PROVE PlayWithin(0)
    <2>1. play \in {"none", "ended"}
      BY <1>5 DEF PlayWithin, PlayCan, UiIs, LiveInv, ReaderWoken, Told
    <2>2. QED
      BY <1>5, <2>1 DEF PlayWithin, PlayLeft
  <1>6. ASSUME LiveInv, LiveInv', PlayWithin(k), PlayStep
        PROVE  /\ PlayWithin(j)' \/ Left'
               /\ PlayWithin(k)' \/ UiIs("close")' \/ Left'
    BY <1>2, <1>4, <1>6 DEF PlayWithin, UiIs, Left
  <1>7. QED
    BY <1>3, <1>5, <1>6 DEF PlayLink

\* A join whose thread is over returns.
LEMMA JoinMoves ==
    ASSUME LiveInv, LiveInv'
    PROVE  /\ CapWithin(0) /\ UiStep => UiIs("joinPlay")' \/ Left'
           /\ PlayWithin(0) /\ UiStep => UiIs("close")' \/ Left'
           /\ CapWithin(0) => UiCan
           /\ PlayWithin(0) => UiCan
           /\ UiIs("joinCap") => CapWithin(8)
           /\ UiIs("joinPlay") => PlayWithin(2)
  <1>1. cap \in CapPlaces
    BY DEF LiveInv, IInv, TypeOK
  <1>2. UiStep /\ UiIs("joinCap") => UiIs("joinPlay")' \/ Left'
    BY DEF UiStep, Stop, Tell, JoinCap, JoinPlay, Close, TimerWake, TimerTest,
           TimerReset, UiAt, UiIs, Left
  <1>3. UiStep /\ UiIs("joinPlay") => UiIs("close")' \/ Left'
    BY DEF UiStep, Stop, Tell, JoinCap, JoinPlay, Close, TimerWake, TimerTest,
           TimerReset, UiAt, UiIs, Left
  <1>4. CapWithin(0) => UiCan
    BY <1>1, CapLeftIs DEF CapWithin, UiCan, UiIs
  <1>5. PlayWithin(0) => UiCan
    BY DEF PlayWithin, PlayLeft, UiCan, UiIs
  <1>6. UiIs("joinCap") => CapWithin(8)
    BY <1>1, CapLeftIs DEF CapWithin
  <1>7. UiIs("joinPlay") => PlayWithin(2)
    BY DEF PlayWithin, PlayLeft
  <1>8. QED
    BY <1>2, <1>3, <1>4, <1>5, <1>6, <1>7 DEF CapWithin, PlayWithin

\* A thread that is over stays so until it is joined.
LEMMA OverStays ==
    ASSUME LiveInv, LiveInv', [Next]_vars
    PROVE  /\ CapWithin(0) => CapWithin(0)' \/ UiIs("joinPlay")' \/ Left'
           /\ PlayWithin(0) => PlayWithin(0)' \/ UiIs("close")' \/ Left'
  <1>1. CapWithin(0) => ~CapStep
    <2>1. cap \in CapPlaces
      BY DEF LiveInv, IInv, TypeOK
    <2>2. CapWithin(0) => cap \in {"none", "ended"}
      BY <2>1, CapLeftIs DEF CapWithin
    <2>3. QED
      BY <2>2 DEF CapStep, CapOpen, HearWakeWord, HearNoWakeWord, StoreSeen, AnswerCmd,
                  HearCmd, HearNothing, CapBye, CapAt
  <1>2. PlayWithin(0) => ~PlayStep
    BY DEF PlayWithin, PlayLeft, PlayStep, PlayOpen, PlayLoop, PlayRead, PlayGot, PlayFile,
           PlayAt
  <1>3. QED
    BY <1>1, <1>2, CapKept, PlayKept

\* docap ends, and its join returns.
LEMMA CapJoined ==
    Spec /\ GuardedFairness => (UiIs("joinCap") ~> UiIs("joinPlay") \/ Left)
  <1>1. /\ CapLink(0, 1) /\ CapLink(1, 2) /\ CapLink(2, 3) /\ CapLink(3, 4)
        /\ CapLink(4, 5) /\ CapLink(5, 6) /\ CapLink(6, 7) /\ CapLink(7, 8)
    BY CapLinks
  <1>2. LiveInv /\ LiveInv' /\ CapWithin(0) /\ [Next]_vars
            => CapWithin(0)' \/ UiIs("joinPlay")' \/ Left'
    BY OverStays
  <1>3. LiveInv /\ LiveInv' /\ CapWithin(0) /\ <<UiStep>>_vars
            => UiIs("joinPlay")' \/ Left'
    BY JoinMoves
  <1>4. LiveInv /\ LiveInv' /\ CapWithin(0) => UiCan
    BY JoinMoves
  <1>5. LiveInv /\ LiveInv' /\ UiIs("joinCap") => CapWithin(8)
    BY JoinMoves
  <1>6. QED
    BY <1>1, <1>2, <1>3, <1>4, <1>5, SpecLiveInv, PTL DEF CapLink, Spec, GuardedFairness

\* doplay ends, and its join returns.
LEMMA PlayJoined ==
    Spec /\ GuardedFairness => (UiIs("joinPlay") ~> UiIs("close") \/ Left)
  <1>1. PlayLink(0, 1) /\ PlayLink(1, 2)
    BY PlayLinks
  <1>2. LiveInv /\ LiveInv' /\ PlayWithin(0) /\ [Next]_vars
            => PlayWithin(0)' \/ UiIs("close")' \/ Left'
    BY OverStays
  <1>3. LiveInv /\ LiveInv' /\ PlayWithin(0) /\ <<UiStep>>_vars
            => UiIs("close")' \/ Left'
    BY JoinMoves
  <1>4. LiveInv /\ LiveInv' /\ PlayWithin(0) => UiCan
    BY JoinMoves
  <1>5. LiveInv /\ LiveInv' /\ UiIs("joinPlay") => PlayWithin(2)
    BY JoinMoves
  <1>6. QED
    BY <1>1, <1>2, <1>3, <1>4, <1>5, SpecLiveInv, PTL DEF PlayLink, Spec, GuardedFairness

\* btn_return_cb comes back, if every thread runs on when it can: whatever
\* docap and doplay are in the middle of, and however many answers wait.  The
\* property LeaveEnds.
THEOREM PageIsLeft == Spec /\ GuardedFairness => LeaveEnds
  <1>1. LiveInv /\ LiveInv' /\ UiIs("stop") /\ [Next]_vars
            => UiIs("stop")' \/ UiIs("tell")' \/ Left'
    BY UiMoves
  <1>2. LiveInv /\ LiveInv' /\ UiIs("stop") /\ [Next]_vars /\ <<UiStep>>_vars
            => UiIs("tell")' \/ Left'
    BY UiMoves
  <1>3. LiveInv /\ LiveInv' /\ UiIs("tell") /\ [Next]_vars
            => UiIs("tell")' \/ UiIs("joinCap")' \/ Left'
    BY UiMoves
  <1>4. LiveInv /\ LiveInv' /\ UiIs("tell") /\ [Next]_vars /\ <<UiStep>>_vars
            => UiIs("joinCap")' \/ Left'
    BY UiMoves
  <1>5. LiveInv /\ LiveInv' /\ UiIs("close") /\ [Next]_vars
            => UiIs("close")' \/ Left'
    BY UiMoves
  <1>6. LiveInv /\ LiveInv' /\ UiIs("close") /\ [Next]_vars /\ <<UiStep>>_vars
            => Left'
    BY UiMoves
  <1>7. (UiIs("stop") => UiCan) /\ (UiIs("tell") => UiCan) /\ (UiIs("close") => UiCan)
    BY DEF UiIs, UiCan
  <1>8. (ui = "stop" => UiIs("stop") \/ Left) /\ (Left => ui = "idle" \/ ~alive)
    BY DEF UiIs, Left
  <1>9. QED
    BY <1>1, <1>2, <1>3, <1>4, <1>5, <1>6, <1>7, <1>8, CapJoined, PlayJoined, SpecLiveInv, PTL
       DEF Spec, GuardedFairness, LeaveEnds

\* The icon goes out when the page it belongs to has been closed, if the timer
\* of the UI runs on: the property SleepHides.
THEOREM IconHides == Spec /\ GuardedFairness => SleepHides
  <1>1. LiveInv /\ ~page /\ UiIs("idle") /\ [Next]_vars
            => (~page /\ UiIs("idle"))' \/ ~icon' \/ page' \/ ~alive'
    <2> SUFFICES ASSUME LiveInv, ~page, UiIs("idle"), [Next]_vars, icon', ~page', alive'
                 PROVE  ui' = "idle"
      BY DEF UiIs
    <2>1. ~TimerWake
      BY TimerFades DEF LiveInv
    <2>2. CASE CapStep \/ PlayStep \/ Dead \/ UNCHANGED vars
      BY <2>2 DEF UiIs, CapStep, CapOpen, HearWakeWord, HearNoWakeWord, StoreSeen, AnswerCmd,
                  HearCmd, HearNothing, CapBye, CapAt, PlayStep, PlayOpen, PlayLoop,
                  PlayRead, PlayGot, PlayFile, PlayAt, Dead, vars
    <2>3. QED
      BY <2>1, <2>2 DEF Next, OpenPage, ClosePage, UiStep, Stop, Tell, JoinCap, JoinPlay, Close,
                        TimerTest, TimerReset, UiAt, UiIs
  <1>2. LiveInv /\ ~page /\ UiIs("idle") /\ [Next]_vars /\ <<UiStep>>_vars => ~icon'
    <2>1. UiStep /\ UiIs("idle") => TimerWake
      BY DEF UiStep, Stop, Tell, JoinCap, JoinPlay, Close, TimerTest, TimerReset, UiAt, UiIs
    <2>2. QED
      BY <2>1, TimerFades DEF LiveInv
  <1>3. UiIs("idle") => UiCan
    BY DEF UiIs, UiCan
  <1>4. ui = "idle" => UiIs("idle") \/ ~alive
    BY DEF UiIs
  <1>5. QED
    BY <1>1, <1>2, <1>3, <1>4, SpecLiveInv, PTL DEF Spec, GuardedFairness, SleepHides

=============================================================================
