------------------------------ MODULE CallLine ------------------------------
(***************************************************************************)
(* What the intercom promises of its line and its speaker, without the     *)
(* threads: the line is closed, listening, or connected to one remote; the *)
(* speaker is opened for a connection and released before it ends; the     *)
(* line closes only when it is not connected.                              *)
(***************************************************************************)
VARIABLES
    line,           \* "closed", "listening" or "connected"
    speaker         \* is the audio output open

lineVars == <<line, speaker>>

LineInit == line = "closed" /\ speaker = FALSE

OpenLine ==
    /\ line = "closed"
    /\ line' = "listening"
    /\ UNCHANGED speaker

Answer ==
    /\ line = "listening"
    /\ line' = "connected"
    /\ UNCHANGED speaker

SpeakerOn ==
    /\ line = "connected" /\ ~speaker
    /\ speaker' = TRUE
    /\ UNCHANGED line

SpeakerOff ==
    /\ speaker
    /\ speaker' = FALSE
    /\ UNCHANGED line

EndCall ==
    /\ line = "connected" /\ ~speaker
    /\ line' = "listening"
    /\ UNCHANGED speaker

CloseLine ==
    /\ line = "listening" /\ ~speaker
    /\ line' = "closed"
    /\ UNCHANGED speaker

LineNext ==
    \/ OpenLine \/ Answer \/ SpeakerOn \/ SpeakerOff \/ EndCall \/ CloseLine

Spec == LineInit /\ [][LineNext]_lineVars
=============================================================================
