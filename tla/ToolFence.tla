------------------------------ MODULE ToolFence ------------------------------
(***************************************************************************)
(* How a tool call is found in the text of a model that has no native      *)
(* calls: server/fence.go on a whole reply, server/streamfilter.go on a    *)
(* reply that arrives piece by piece.                                      *)
(*                                                                         *)
(* A text is a sequence of tokens.  The parsers tell apart only these:     *)
(*   "nl"       a line break          "sp"     a blank (fenceMarkerJunk)    *)
(*   "fence"    ```                   "tool"   the word tool_call           *)
(*   "mark"     [..name.. up to the arguments of a transcribed call line    *)
(*   "result"   [..name.. of a transcribed result line    "end"   ]         *)
(*   an element of Objects: a JSON object parseCallBlock accepts            *)
(* and any other token is prose.  A token never arrives in two pieces; the  *)
(* 20 bytes (fenceRetainBytes) a filter keeps back are the last token.      *)
(***************************************************************************)
EXTENDS Naturals, Sequences, SequencesExt, FiniteSetsExt

CONSTANT Objects    \* the complete call objects

Text(t) == [kind |-> "text", val |-> t]
Call(j) == [kind |-> "call", val |-> j]
Texts(s) == [i \in DOMAIN s |-> Text(s[i])]

From(s, i) == SubSeq(s, i, Len(s))
Upto(s, i) == SubSeq(s, 1, i - 1)
Blank(s) == \A i \in DOMAIN s : s[i] \in {"sp", "nl"}

\* strings.TrimSpace
Trim(s) ==
    LET Solid == {i \in DOMAIN s : s[i] \notin {"sp", "nl"}}
    IN  IF Solid = {} THEN <<>> ELSE SubSeq(s, Min(Solid), Max(Solid))

First(s, T) == SelectInSeq(s, LAMBDA t : t \in T)           \* 0: none
LineStart(s, i) == 1 + SelectLastInSeq(Upto(s, i), LAMBDA t : t = "nl")
LineEnd(s, i) ==    \* the position of the line break, or past the end
    LET n == First(From(s, i), {"nl"})
    IN  IF n = 0 THEN Len(s) + 1 ELSE i + n - 1

-----------------------------------------------------------------------------
(* fence.go *)

\* What follows the ``` at i: opens a call if tool_call comes next, blanks aside.
Fence(s, i) ==
    LET n == SelectInSeq(From(s, i + 1), LAMBDA t : t # "sp")
        k == i + n
    IN  IF n > 0 /\ s[k] = "tool"
        THEN [at |-> i, opens |-> TRUE, after |-> k + 1]
        ELSE [at |-> i, opens |-> FALSE, after |-> i + 1]

NoFence == [at |-> 0, opens |-> FALSE, after |-> 0]

FindTolerantOpener(s) ==
    LET Openers == {i \in DOMAIN s : s[i] = "fence" /\ Fence(s, i).opens}
    IN  IF Openers = {} THEN NoFence ELSE Fence(s, Min(Openers))

NextFence(s, from) ==
    LET n == First(From(s, from), {"fence"})
    IN  IF n = 0 THEN NoFence ELSE Fence(s, from + n - 1)

\* parseCallBlock: the block is one call object and nothing else.
IsCallBlock(s) == Len(Trim(s)) = 1 /\ Trim(s)[1] \in Objects

\* parseBracketCallLine: the first marker, at the head of its line, with its
\* object and a closing bracket.  ok is FALSE when there is none.
NoLine == [ok |-> FALSE, call |-> "", pre |-> <<>>, post |-> <<>>]

ParseBracketCallLine(s) ==
    LET i    == First(s, {"mark"})
        head == LineStart(s, i)
        post == From(s, i + 3 + (IF i + 3 <= Len(s) /\ s[i + 3] = "end" THEN 1 ELSE 0))
        here == Upto(post, LineEnd(post, 1))
    IN  IF /\ i > 0
           /\ Blank(SubSeq(s, head, i - 1))
           /\ i + 2 <= Len(s) /\ s[i + 1] \in Objects /\ s[i + 2] = "end"
           /\ \/ Trim(post) # <<>> /\ Trim(post)[1] = "mark"
              \/ ~Contains(here, "mark")
        THEN [ok |-> TRUE, call |-> s[i + 1], pre |-> Upto(s, head), post |-> post]
        ELSE NoLine

\* findBracketResultLine and the cut its caller makes: a result line the model
\* made up is taken out whole.
WithoutResultLine(s) ==
    LET i   == First(s, {"result"})
        end == LineEnd(s, i)
        row == Trim(SubSeq(s, i, end - 1))
    IN  IF /\ i > 0
           /\ Blank(SubSeq(s, LineStart(s, i), i - 1))
           /\ Last(row) = "end"
        THEN Upto(s, LineStart(s, i)) \o From(s, end + 1)
        ELSE s

\* The calls of a whole reply, and the text left beside them
\* (extractToolCalls): transcribed lines first, then fences, then a bare object.
\* Each round takes what it finds out of the rest, so a round for each token is
\* enough.
BracketCalls(s) ==
    LET Next(a, token) ==
            LET p == ParseBracketCallLine(a.rest)
            IN  IF a.on /\ p.ok
                THEN [a EXCEPT !.found = Append(@, p), !.rest = p.post]
                ELSE [a EXCEPT !.on = FALSE]
    IN  FoldLeft(Next, [found |-> <<>>, rest |-> s, on |-> TRUE], s).found

FenceCalls(s) ==
    LET Next(a, token) ==
            LET open  == FindTolerantOpener(a.rest)
                close == NextFence(a.rest, open.after)
                block == SubSeq(a.rest, open.after, close.at - 1)
                next  == IF close.opens THEN close.at ELSE close.after
            IN  IF a.on /\ open.at > 0 /\ close.at > 0 /\ IsCallBlock(block)
                THEN [a EXCEPT
                        !.found = Append(@, [call |-> Trim(block)[1], pre |-> Upto(a.rest, open.at),
                                             post |-> From(a.rest, next)]),
                        !.rest = Trim(Upto(a.rest, open.at) \o <<"sp">> \o From(a.rest, next))]
                ELSE [a EXCEPT !.on = FALSE]
    IN  FoldLeft(Next, [found |-> <<>>, rest |-> s, on |-> TRUE], s).found

CallsOf(found) == [i \in DOMAIN found |-> found[i].call]

Extracted(s, lines, blocks) ==
    LET before == SelectSeq(lines, LAMBDA p : p.pre # <<>>)
        bare   == First(s, Objects)
    IN  CASE lines # <<>> ->
                [calls |-> CallsOf(lines),
                 text  |-> IF before = <<>> THEN <<>> ELSE Trim(before[1].pre)]
          [] lines = <<>> /\ blocks # <<>> ->
                [calls |-> CallsOf(blocks), text |-> Trim(blocks[1].pre)]
          [] lines = <<>> /\ blocks = <<>> /\ bare > 0 ->
                [calls |-> <<s[bare]>>,
                 text  |-> Trim(Upto(s, bare) \o <<"sp">> \o From(s, bare + 1))]
          [] OTHER -> [calls |-> <<>>, text |-> s]

ExtractToolCalls(s) == Extracted(s, BracketCalls(s), FenceCalls(s))

\* unwrapQAContent: of a whole reply of three lines or more that begins with a
\* ``` and whose last line is one, only the lines between are kept, whatever
\* the fence was.  (A question-and-answer object is none of the tokens.)
Unwrapped(s) ==
    LET t      == Trim(s)
        breaks == {i \in DOMAIN t : t[i] = "nl"}
    IN  IF /\ s # <<>> /\ s[1] = "fence" /\ Cardinality(breaks) >= 2
           /\ Trim(From(t, Max(breaks) + 1)) = <<"fence">>
        THEN SubSeq(t, Min(breaks) + 1, Max(breaks) - 1)
        ELSE s

-----------------------------------------------------------------------------
(* streamfilter.go.  out: what this piece made the filter emit.  go: whether *)
(* the parsing of it goes on, and whether the reply has ended (force).       *)

Filter0 == [pending |-> <<>>, inTool |-> FALSE, inPost |-> FALSE, toolBuf |-> <<>>,
            found |-> FALSE, out |-> <<>>, go |-> "no"]

Emit(f, items) == [f EXCEPT !.out = @ \o items]

\* cutLineHead: whole lines may go, the line still being written stays, and so
\* does everything while the last line break is the last token.
CutLineHead(s) ==
    LET nl == SelectLastInSeq(s, LAMBDA t : t = "nl")
    IN  IF nl < Len(s) THEN [head |-> SubSeq(s, 1, nl), rest |-> From(s, nl + 1)]
                       ELSE [head |-> <<>>, rest |-> s]

\* Outside a call: a call line, or the opening of a call, or text.
ScanText(f) ==
    LET line  == ParseBracketCallLine(f.pending)
        rest  == WithoutResultLine(f.pending)
        open  == FindTolerantOpener(rest)
        cut   == CutLineHead(rest)
        Shown(s) == IF f.inPost THEN <<>> ELSE Texts(s)
    IN  CASE line.ok ->
                [Emit(f, Shown(line.pre) \o <<Call(line.call)>>)
                    EXCEPT !.found = TRUE, !.inPost = TRUE, !.pending = line.post]
          [] ~line.ok /\ open.at > 0 ->
                [Emit(f, Shown(Upto(rest, open.at)))
                    EXCEPT !.toolBuf = From(rest, open.after), !.pending = <<>>, !.inTool = TRUE]
          [] OTHER -> [Emit(f, Shown(cut.head)) EXCEPT !.pending = cut.rest, !.go = "no"]

\* Mutant of Undecided: a ``` is taken for what it looks like at once.
UndecidedNever(buf, at) == FALSE

\* What follows a ``` does not tell yet whether it closes or opens a call.
Undecided(buf, at) == From(buf, at + 1) \in {<<>>, <<"tool">>}

\* A ``` that ends the body of a call.
CloseTool(f, fence) ==
    LET block == Upto(f.toolBuf, fence.at)
        after == From(f.toolBuf, fence.after)
        call  == [Emit(f, <<Call(Trim(block)[1])>>) EXCEPT !.found = TRUE, !.toolBuf = after]
        kept  == [Emit(f, IF f.found THEN <<>>
                          ELSE Texts(<<"fence", "tool">> \o block \o <<"fence">>))
                    EXCEPT !.inPost = f.found]
        done  == IF IsCallBlock(block) THEN [call EXCEPT !.inPost = TRUE] ELSE kept
    IN  IF IsCallBlock(block) /\ fence.opens THEN call
        ELSE [done EXCEPT !.inTool = FALSE, !.pending = after, !.toolBuf = <<>>, !.go = "on"]

\* Inside one.  When the reply has ended, what is undecided closes the call.
TryCloseTool(f) ==
    LET seen == NextFence(f.toolBuf, 1)
        wait == Undecided(f.toolBuf, seen.at)
    IN  IF seen.at = 0 \/ (wait /\ f.go # "force") THEN [f EXCEPT !.go = "no"]
        ELSE CloseTool(f,
                IF wait THEN [at |-> seen.at, opens |-> FALSE, after |-> seen.at + 1] ELSE seen)

Round(f) == IF f.inTool THEN TryCloseTool(f) ELSE ScanText(f)

\* FeedContent and tryCloseTool call each other until one returns.  Every call
\* but the last takes at least a token, so there are no more than this.
Parsed(f) ==
    FoldLeft(LAMBDA g, token : IF g.go = "no" THEN g ELSE Round(g),
             Round(f), f.pending \o f.toolBuf)

FeedContent(f, s) ==
    Parsed(IF f.inTool THEN [f EXCEPT !.toolBuf = @ \o s, !.go = "on"]
                       ELSE [f EXCEPT !.pending = @ \o s, !.go = "on"])

\* What Close finds held back.
LastText(f) == (IF f.toolBuf = <<>> THEN <<>> ELSE Texts(<<"fence", "tool">> \o f.toolBuf))
                \o Texts(f.pending)

\* Mutant of ShowRest: the line that was held back is forgotten.
ShowRestForgets(f) ==
    IF f.inPost \/ f.toolBuf = <<>> THEN [f EXCEPT !.pending = <<>>, !.toolBuf = <<>>]
    ELSE [Emit(f, Texts(<<"fence", "tool">> \o f.toolBuf)) EXCEPT !.toolBuf = <<>>]

\* After a call the rest is not shown.
ShowRest(f) ==
    IF f.inPost THEN [f EXCEPT !.pending = <<>>, !.toolBuf = <<>>]
    ELSE [Emit(f, LastText(f)) EXCEPT !.toolBuf = <<>>]

\* Close: the end of the reply.
CloseFilter(f) ==
    ShowRest(IF f.inTool THEN [Parsed([f EXCEPT !.go = "force"]) EXCEPT !.inTool = FALSE] ELSE f)
=============================================================================
