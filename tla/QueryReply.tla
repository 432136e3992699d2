---------------------------- MODULE QueryReply ----------------------------
(***************************************************************************)
(* What bt_query_wait promises its caller: one query at a time; the        *)
(* caller's buffer is written once per query, by the server, with what the *)
(* server knows at a moment after the query was sent; the call returns     *)
(* only after that.  A query may be lost, and its call then never returns, *)
(* but a lost query is never answered.                                     *)
(***************************************************************************)
CONSTANT Values         \* what the server may know, and the buffer hold

VARIABLES
    phase,              \* "idle", "asked", "answered" or "lost"
    reply,              \* the caller's buffer
    source              \* what the server knows

replyVars == <<phase, reply, source>>

ReplyInit == phase = "idle" /\ reply \in Values /\ source \in Values

Learn == source' \in Values /\ UNCHANGED <<phase, reply>>

Ask == phase = "idle" /\ phase' = "asked" /\ UNCHANGED <<reply, source>>

Answer ==
    /\ phase = "asked" /\ phase' = "answered"
    /\ reply' = source
    /\ UNCHANGED source

Return == phase = "answered" /\ phase' = "idle" /\ UNCHANGED <<reply, source>>

Lose == phase = "asked" /\ phase' = "lost" /\ UNCHANGED <<reply, source>>

ReplyNext == Learn \/ Ask \/ Answer \/ Return \/ Lose

Spec == ReplyInit /\ [][ReplyNext]_replyVars
=============================================================================
