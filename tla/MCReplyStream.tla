---------------------------- MODULE MCReplyStream ----------------------------
(***************************************************************************)
(* Replies for TLC: every sequence of up to MaxBlocks of the blocks models  *)
(* have been seen to write.  A reply may stop anywhere, so each block is    *)
(* also seen cut off.                                                       *)
(***************************************************************************)
EXTENDS ReplyStream

CONSTANT MaxBlocks

Prose  == {<<"word">>, <<"word", "nl">>, <<"nl">>}
Code   == {<<"fence", "word", "fence">>}                    \* an ordinary code block
Fenced == {<<"fence", "tool", "nl", "j1", "nl", "fence">>,
           <<"fence", "tool", "j2">>,                       \* left open
           <<"fence", "sp", "tool", "j2", "fence">>,
           <<"fence", "tool", "word", "fence">>}            \* not a call
Lines  == {<<"mark", "j1", "end">>, <<"mark", "j2", "end", "nl">>, <<"mark", "word", "end">>}
Made   == {<<"result", "end", "nl">>}
Blocks == Prose \cup Code \cup Fenced \cup Lines \cup Made

NativeBlocks ==
    {<<[kind |-> "text", val |-> "word"]>>, <<[kind |-> "think", val |-> "word"]>>}
    \cup {<<[kind |-> "head", val |-> j], [kind |-> "args", val |-> j]>> : j \in Objects}

Replies(S) == UNION {{FlattenSeq(r) : r \in [1..n -> S]} : n \in 0..MaxBlocks}
EachCallOnce(s) == \A i, k \in DOMAIN s : s[i].kind = "head" /\ s[k] = s[i] => i = k

\* Some longer ones: several calls, made-up results and talk between them.
Say  == <<"word", "nl">>
One  == <<"fence", "tool", "j1", "nl", "fence", "nl">>
Two  == <<"fence", "tool", "j2">>
Long == {Say \o One \o Say \o Two \o <<"fence">>,
         Say \o Two \o One \o <<"result", "end", "nl">> \o Say,
         <<"word", "mark", "nl", "mark", "j1", "end", "nl", "result", "end", "nl", "mark", "j2", "end">>,
         <<"fence", "word", "nl", "fence", "nl">> \o One \o Two,
         Two \o Say \o Two \o Say,
         One \o Two \o <<"nl", "fence">>,
         <<"fence", "nl">> \o Say \o <<"fence">>}
\* Talk in front of call lines and between them.
Lined == {f \o <<"mark", "j1", "end">> \o t \o <<"mark", "j2", "end">> \o Say :
            f \in {<<>>, Say}, t \in {<<"nl">>, <<"end">>, <<"nl">> \o Say}}
Musing == <<[kind |-> "think", val |-> "word"]>>

MCScripts ==
    {[fence |-> TRUE, items |-> Texts(r)] : r \in Replies(Blocks) \cup Long \cup Lined}
    \cup {[fence |-> TRUE, items |-> Musing \o Texts(One) \o Musing \o Texts(Say \o Two)]}
    \cup {[fence |-> FALSE, items |-> r] : r \in {s \in Replies(NativeBlocks) : EachCallOnce(s)}}
=============================================================================
