---------------------------- MODULE ReplyContract ----------------------------
(***************************************************************************)
(* What a streamed reply promises to the client that reads it, whatever    *)
(* the channel and the protocol: it only grows, it ends once, a reply whose *)
(* calls are written in its text has no text after the first of them, and   *)
(* it ends with the reason tool_calls exactly when it holds a call.         *)
(***************************************************************************)
EXTENDS Sequences, SequencesExt

VARIABLES
    got,    \* the text and the calls the client has, in order
    phase,  \* "open", "ended" or "failed"
    reason, \* why it ended
    fenced  \* its calls are written in the text, none is left open

HasCall(s) == \E i \in DOMAIN s : s[i].kind = "call"
CallsLast(s) == \A i, j \in DOMAIN s : i < j /\ s[i].kind = "call" => s[j].kind # "text"

ContractInit == got = <<>> /\ phase = "open" /\ reason = ""

Grow ==
    /\ phase = "open"
    /\ IsPrefix(got, got')
    /\ fenced => CallsLast(got')
    /\ phase' \in {"open", "ended", "failed"}
    /\ phase' = "ended" => (reason' = "tool_calls" <=> HasCall(got'))
    /\ phase' # "ended" => reason' = reason

Contract == ContractInit /\ [][Grow]_<<got, phase, reason>>
=============================================================================
