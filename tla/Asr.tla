-------------------------------- MODULE Asr --------------------------------
(***************************************************************************)
(* Voice recognition (asr/audio.c and asr/asr.c): the thread that listens  *)
(* (docap), the thread that speaks the answers (doplay), and the UI thread *)
(* that starts and stops both with the smart home page and draws what was  *)
(* understood.                                                             *)
(*                                                                         *)
(* docap tells the UI what it heard through plain variables, which a timer *)
(* of the UI polls, and doplay what to answer through a pipe.  The stores  *)
(* of asr_update have no barrier between them: the UI may see them in any  *)
(* order.  The recogniser, which is not in the repository, may hear        *)
(* anything in any frame.  Which command it was is left out: the page does *)
(* the same for all of them.                                               *)
(***************************************************************************)
EXTENDS Integers, Sequences, FiniteSets

CONSTANT PipeMax    \* bound: nothing is heard while so many answers wait

ASSUME PipeMaxAssumption == PipeMax \in Nat

VARIABLES
    alive,          \* the process runs
    page,           \* is the smart home page open
    ui,             \* what the UI thread is doing
    running,        \* static running
    open,           \* is the pipe open
    pipe,           \* what doplay has yet to read: answers, INT_MAX ("stop")
    play,           \* where doplay is, "none" when ptid_p is 0
    cap,            \* where docap is, "none" when ptid_c is 0
    listen,         \* frame_cot: 0, below 480, or above
    stores,         \* the stores of asr_update that are still to be seen
    wakeup,         \* int wakeup
    wakeUpdate,     \* int wake_update
    icon,           \* is the icon shown: static show
    caption         \* have the labels been started since they were hidden

device  == <<running, open>>
heard   == <<wakeup, wakeUpdate, listen, stores>>
screen  == <<icon, caption>>
vars    == <<alive, page, ui, device, pipe, play, cap, heard, screen>>

Stores     == {"wake_update", "wakeup"}
CapPlaces  == {"none", "open", "loop", "store", "answer", "cmd", "ended"}
PlayPlaces == {"none", "open", "loop", "read", "got", "play", "ended"}
UiPlaces   == {"idle", "test", "reset", "stop", "tell", "joinCap", "joinPlay", "close"}

TypeOK ==
    /\ alive \in BOOLEAN
    /\ page \in BOOLEAN
    /\ ui \in UiPlaces
    /\ running \in BOOLEAN
    /\ open \in BOOLEAN
    /\ pipe \in Seq({"answer", "stop"}) /\ Len(pipe) <= PipeMax + 1
    /\ play \in PlayPlaces
    /\ cap \in CapPlaces
    /\ listen \in {"asleep", "awake", "fresh"}
    /\ stores \subseteq Stores
    /\ wakeup \in BOOLEAN
    /\ wakeUpdate \in BOOLEAN
    /\ icon \in BOOLEAN
    /\ caption \in BOOLEAN

Init ==
    /\ alive = TRUE /\ page = FALSE /\ ui = "idle"
    /\ running = FALSE /\ open = FALSE /\ pipe = <<>>
    /\ play = "none" /\ cap = "none"
    /\ listen = "asleep" /\ stores = {}
    /\ wakeup = FALSE /\ wakeUpdate = FALSE /\ icon = FALSE /\ caption = FALSE

\* A thread goes from one place to another.
UiAt(from, to) == alive /\ ui = from /\ ui' = to /\ UNCHANGED <<listen, stores, wakeup>>

CapAt(from, to) ==
    /\ alive /\ cap = from /\ cap' = to
    /\ UNCHANGED <<page, ui, device, play, screen>>

PlayAt(from, to) ==
    /\ alive /\ play = from /\ play' = to
    /\ UNCHANGED <<page, ui, device, cap, heard, screen>>

-----------------------------------------------------------------------------
(* The UI thread: the page, asr_audio_init and asr_audio_deinit.           *)

\* asr_audio_init: without a pipe there are no threads, and pthread_create
\* may fail for either of them, which is only printed.
OpenPage ==
    /\ UiAt("idle", "idle") /\ ~page /\ page' = TRUE
    /\ \/ /\ running' = TRUE /\ open' = TRUE /\ pipe' = <<>>
          /\ cap' \in {"none", "open"} /\ play' \in {"none", "open"}
       \/ UNCHANGED <<device, pipe, cap, play>>
    /\ UNCHANGED <<alive, wakeUpdate, screen>>

\* btn_return_cb; asr_audio_deinit returns at once when it is not running.
ClosePage ==
    /\ page /\ page' = FALSE
    /\ UiAt("idle", IF running THEN "stop" ELSE "idle")
    /\ UNCHANGED <<alive, device, pipe, cap, play, wakeUpdate, screen>>

Stop ==
    /\ UiAt("stop", "tell") /\ running' = FALSE
    /\ UNCHANGED <<alive, page, open, pipe, cap, play, wakeUpdate, screen>>

\* Mutant: doplay is not woken.
TellNobody ==
    /\ UiAt("tell", "joinCap")
    /\ UNCHANGED <<alive, page, device, pipe, cap, play, wakeUpdate, screen>>

\* cmd_answer(INT_MAX) wakes doplay.
Tell ==
    /\ UiAt("tell", "joinCap") /\ pipe' = Append(pipe, "stop")
    /\ UNCHANGED <<alive, page, device, cap, play, wakeUpdate, screen>>

\* Mutant: docap is not waited for.
JoinCapEarly ==
    /\ UiAt("joinCap", "joinPlay")
    /\ UNCHANGED <<alive, page, device, pipe, cap, play, wakeUpdate, screen>>

\* Joining a thread that was not created is undefined: it fails, or the
\* process dies.
JoinCap ==
    /\ UiAt("joinCap", "joinPlay") /\ cap \in {"ended", "none"} /\ cap' = "none"
    /\ alive' \in {TRUE, cap = "ended"}
    /\ UNCHANGED <<page, device, pipe, play, wakeUpdate, screen>>

JoinPlay ==
    /\ UiAt("joinPlay", "close") /\ play \in {"ended", "none"} /\ play' = "none"
    /\ alive' \in {TRUE, play = "ended"}
    /\ UNCHANGED <<page, device, pipe, cap, wakeUpdate, screen>>

Close ==
    /\ UiAt("close", "idle") /\ open' = FALSE /\ pipe' = <<>>
    /\ UNCHANGED <<alive, page, running, cap, play, wakeUpdate, screen>>

-----------------------------------------------------------------------------
(* The UI thread: timer_cb, which polls from the start of the program.     *)

\* The icon follows wakeup; going to sleep hides the labels as well.
TimerWake ==
    /\ UiAt("idle", "test") /\ icon' = wakeup
    /\ caption' = (caption /\ (wakeup \/ ~icon))
    /\ UNCHANGED <<alive, page, device, pipe, cap, play, wakeUpdate>>

TimerTest ==
    /\ UiAt("test", IF wakeUpdate THEN "reset" ELSE "idle")
    /\ UNCHANGED <<alive, page, device, pipe, cap, play, wakeUpdate, screen>>

\* wake_update = 0, new texts, and the animations that show them.
TimerReset ==
    /\ UiAt("reset", "idle") /\ wakeUpdate' = FALSE /\ caption' = TRUE
    /\ UNCHANGED <<alive, page, device, pipe, cap, play, icon>>

-----------------------------------------------------------------------------
(* docap.                                                                  *)

\* alsa_open ends the program when it fails; a failing prepare the thread.
CapOpen ==
    /\ \/ CapAt("open", "loop") /\ alive' \in BOOLEAN
       \/ CapAt("open", "ended") /\ UNCHANGED alive
    /\ listen' = "asleep" /\ UNCHANGED <<pipe, wakeup, wakeUpdate, stores>>

\* asr_update of a command with an answer; id -1 and a muted command store
\* no wake_update.
Understand(after) ==
    /\ Len(pipe) < PipeMax
    /\ stores' = Stores /\ listen' = after
    /\ UNCHANGED <<alive, pipe, wakeup, wakeUpdate>>

\* A frame with the wake word; the rest of the frame may hold a command.
HearWakeWord == running /\ CapAt("loop", "store") /\ Understand("awake")

\* A frame without it.  Asleep nothing more is looked at.
HearNoWakeWord ==
    /\ running /\ CapAt("loop", IF listen = "asleep" THEN "loop" ELSE "cmd")
    /\ UNCHANGED <<alive, pipe, heard>>

\* The stores reach the UI one by one, in any order.
StoreSeen ==
    /\ \E s \in stores :
        /\ stores' = stores \ {s}
        /\ wakeup' = (wakeup \/ s = "wakeup")
        /\ wakeUpdate' = (wakeUpdate \/ s = "wake_update")
    /\ CapAt("store", IF Cardinality(stores) = 1 THEN "answer" ELSE "store")
    /\ UNCHANGED <<alive, pipe, listen>>

\* Mutant: the answer is written by asr_update and again by its caller.
AnswerTwice ==
    /\ CapAt("answer", IF listen = "awake" THEN "cmd" ELSE "loop")
    /\ pipe' = pipe \o <<"answer", "answer">> /\ UNCHANGED <<alive, heard>>

\* cmd_answer; after the wake word the frame is searched for a command.
AnswerCmd ==
    /\ CapAt("answer", IF listen = "awake" THEN "cmd" ELSE "loop")
    /\ pipe' = Append(pipe, "answer") /\ UNCHANGED <<alive, heard>>

\* A command is answered unless the last one was 20 frames ago or less.
HearCmd ==
    \/ CapAt("cmd", "store") /\ Understand("fresh")
    \/ /\ CapAt("cmd", "loop") /\ listen' = "fresh"
       /\ UNCHANGED <<alive, pipe, stores, wakeup, wakeUpdate>>

\* Nothing: 375 or 500 such frames later it sleeps.
HearNothing ==
    /\ CapAt("cmd", "loop")
    /\ \/ listen' \in {listen, "awake"} /\ UNCHANGED wakeup
       \/ listen = "awake" /\ listen' = "asleep" /\ wakeup' = FALSE
    /\ UNCHANGED <<alive, pipe, stores, wakeUpdate>>

\* Mutant: the thread ends without asr_update(-1).
CapByeAwake ==
    /\ ~running /\ CapAt("loop", "ended")
    /\ UNCHANGED <<alive, pipe, heard>>

CapBye ==
    /\ ~running /\ CapAt("loop", "ended") /\ wakeup' = FALSE
    /\ UNCHANGED <<alive, pipe, listen, stores, wakeUpdate>>

-----------------------------------------------------------------------------
(* doplay.                                                                 *)

PlayOpen == PlayAt("open", "loop") /\ alive' \in BOOLEAN /\ UNCHANGED pipe

PlayLoop == PlayAt("loop", IF running THEN "read" ELSE "ended") /\ UNCHANGED <<alive, pipe>>

PlayRead ==
    /\ PlayAt("read", "got") /\ pipe # <<>> /\ pipe' = Tail(pipe)
    /\ UNCHANGED alive

\* After the read running is tested again; an unplayable file is skipped.
PlayGot ==
    /\ \/ ~running /\ PlayAt("got", "ended")
       \/ running /\ \E to \in {"loop", "play"} : PlayAt("got", to)
    /\ UNCHANGED <<alive, pipe>>

\* The file is played to its end, whatever happens meanwhile.
PlayFile == PlayAt("play", "loop") /\ UNCHANGED <<alive, pipe>>

-----------------------------------------------------------------------------
Dead == ~alive /\ UNCHANGED vars

UiStep ==
    \/ Stop \/ Tell \/ JoinCap \/ JoinPlay \/ Close
    \/ TimerWake \/ TimerTest \/ TimerReset

CapStep ==
    \/ CapOpen \/ HearWakeWord \/ HearNoWakeWord \/ StoreSeen
    \/ AnswerCmd \/ HearCmd \/ HearNothing \/ CapBye

PlayStep == PlayOpen \/ PlayLoop \/ PlayRead \/ PlayGot \/ PlayFile

Next == OpenPage \/ ClosePage \/ UiStep \/ CapStep \/ PlayStep \/ Dead

Spec == Init /\ [][Next]_vars

\* The scheduler runs every thread; the user owes nothing.
FairSpec == Spec /\ WF_vars(UiStep) /\ WF_vars(CapStep) /\ WF_vars(PlayStep)

\* The same with the guards in place of ENABLED: the UI thread can go on unless
\* it joins a thread that is not over, ...
UiCan ==
    /\ alive
    /\ ui = "joinCap" => cap \in {"none", "ended"}
    /\ ui = "joinPlay" => play \in {"none", "ended"}

\* ... docap unless it hears frame after frame, ...
CapCan == alive /\ cap \notin {"none", "ended"} /\ (cap = "loop" => ~running)

\* ... and doplay unless it reads from an empty pipe.
PlayCan == alive /\ play \notin {"none", "ended"} /\ (play = "read" => pipe # <<>>)

GuardedFairness ==
    /\ []<>~UiCan \/ []<><<UiStep>>_vars
    /\ []<>~CapCan \/ []<><<CapStep>>_vars
    /\ []<>~PlayCan \/ []<><<PlayStep>>_vars

-----------------------------------------------------------------------------
\* What the two properties below rest on: the pipe is open from asr_audio_init
\* to the last line of asr_audio_deinit, running is set within, and each join
\* leaves its thread behind.
Lifetime ==
    /\ running => open /\ ui \notin {"tell", "joinCap", "joinPlay", "close"}
    /\ open /\ ui \in {"idle", "test", "reset"} => running
    /\ ui \in {"stop", "tell", "joinCap", "joinPlay", "close"} => open
    /\ cap # "none" \/ play # "none" => open
    /\ ui \in {"joinPlay", "close"} => cap = "none"
    /\ ui = "close" => play = "none"
    /\ open => page \/ ui \in {"stop", "tell", "joinCap", "joinPlay", "close"}
    /\ page => ui \in {"idle", "test", "reset"}

\* One answer more than the bound fits: the INT_MAX of asr_audio_deinit, which
\* is written once, between Tell and Close.
Told == ui \in {"joinCap", "joinPlay", "close"}

Room ==
    /\ ~Told => Len(pipe) <= PipeMax
    /\ cap \in {"store", "answer"} => Len(pipe) < (IF Told THEN PipeMax + 1 ELSE PipeMax)

\* When btn_return_cb is over, neither thread is left: the next page may
\* start both again, with the same thread ids, flags and pipe descriptors.
NoThreadLeft == alive /\ ~page /\ ui = "idle" => cap = "none" /\ play = "none"

\* While a thread may use the pipe it is open, so that neither writes to or
\* reads from a closed descriptor, or one that was given to something else.
PipeOpenInUse ==
    alive /\ (cap \notin {"none", "ended"} \/ play \notin {"none", "ended"} \/ ui = "tell")
        => open

\* The two threads live within the life of the page and of its pipe, though
\* each is told to end through a flag or the pipe and may be anywhere.
ThreadsContained == NoThreadLeft /\ PipeOpenInUse

\* btn_return_cb returns, though doplay may be waiting in read or playing and
\* docap be in the middle of a command.
LeaveEnds == ui = "stop" ~> (ui = "idle" \/ ~alive)

\* The icon, which lies above every page, does not stay behind when the page
\* it belongs to has been closed.
SleepHides == (~page /\ ui = "idle") ~> (~icon \/ page \/ ~alive)

\* What it rests on: docap has let the UI see all its stores before it looks at
\* the next frame, and leaves only after it has put itself to sleep.
Quiet ==
    /\ cap # "store" => stores = {}
    /\ cap \in {"none", "open", "ended"} => ~wakeup

\* The safety half of SleepHides: with the page closed the next call of the
\* timer finds no wake word and hides the icon, and none shows it again.
IconOnlyFades == [][~page => (icon' => icon) /\ (TimerWake => ~icon')]_vars

\* The safety half of LeaveEnds: while asr_audio_deinit waits for its threads,
\* doplay is never blocked in an empty pipe.  It may have read its answer
\* before the page was left, and may not read a second one afterwards.
ReaderWoken == Told /\ play = "read" => pipe # <<>>

=============================================================================
