----------------------------- MODULE ReplyStream -----------------------------
(***************************************************************************)
(* One streamed reply on its way through the gateway: the upstream's frames *)
(* (upstream/sse.go), streamOut with its fence filter or, for a channel      *)
(* with native tools, without (server/stream.go), and the writer of the     *)
(* client's protocol (chat, Anthropic messages, Responses).  The client is   *)
(* what a reader of the written events makes of them.                       *)
(***************************************************************************)
EXTENDS ToolFence

CONSTANTS
    Protocols,  \* subset of {"chat", "anthropic", "responses"}
    Scripts,    \* the replies a model may give: fence (the channel's calls are
                \* text) and the items it sends: text, think, head and args of
                \* a native call
    MaxPiece,   \* bound: text tokens in one frame
    MaxTroubles \* bound: of a reply's being cut at its length, an error frame
                \* and a client that leaves, how many one reply sees

Items == [kind : {"text", "think", "head", "args"}, val : STRING]

\* A channel whose calls are text is told of no tools, so that its model sends
\* no native calls.
ASSUME ReplyAssumption ==
    /\ Protocols \subseteq {"chat", "anthropic", "responses"}
    /\ Scripts \subseteq [fence : BOOLEAN, items : Seq(Items)]
    /\ \A s \in Scripts : s.fence =>
          \A i \in DOMAIN s.items : s.items[i].kind \in {"text", "think"}
    /\ MaxPiece \in Nat \ {0}
    /\ MaxTroubles \in Nat

VARIABLES
    proto,      \* the protocol of the request
    script,     \* what the model is going to say
    pos,        \* how many items of it have come
    up,         \* what StreamDeltasWithTools keeps
    flt,        \* the toolStreamFilter
    out,        \* the writer: started, open (its block or item), done, err
    client,     \* the reader of the stream
    errored,    \* streamOut's terminal: an error frame has come
    gone,       \* the client no longer reads
    result      \* "running", "ok" or "failed": what streamOut returned

vars == <<proto, script, pos, up, flt, out, client, errored, gone, result>>

Init ==
    /\ proto \in Protocols
    /\ script \in Scripts
    /\ pos = 0
    /\ up = [stitch |-> <<>>, deferred |-> <<>>, finish |-> "stop", finishSent |-> FALSE]
    /\ flt = Filter0
    /\ out = [started |-> FALSE, open |-> "none", done |-> FALSE, err |-> FALSE]
    /\ client = [begun |-> FALSE, phase |-> "open", block |-> "none", got |-> <<>>,
                 reason |-> "", fault |-> FALSE]
    /\ errored = FALSE /\ gone = FALSE /\ result = "running"

-----------------------------------------------------------------------------
(* The client: events it cannot place are a fault, and change nothing else. *)

Ev(ev, kind, val) == [ev |-> ev, kind |-> kind, val |-> val]
Start == Ev("start", "", "")
Open(k) == Ev("open", k, "")
Delta(item) == Ev("delta", item.kind, item.val)
Close == Ev("close", "", "")
End(fin) == Ev("end", "", fin)
Failure == Ev("error", "", "")

\* chat has neither an opening event nor blocks
Expected(c, e) ==
    /\ c.phase = "open"
    /\ CASE e.ev = "start" -> ~c.begun
         [] e.ev = "open"  -> c.begun /\ c.block = "none"
         [] e.ev = "delta" -> proto = "chat" \/ c.block = e.kind
         [] e.ev = "close" -> c.block # "none"
         [] e.ev = "end"   -> (proto = "chat" \/ c.begun) /\ c.block = "none"
         [] e.ev = "error" -> TRUE

Read(c, e) ==
    CASE ~Expected(c, e) -> [c EXCEPT !.fault = TRUE]
      [] Expected(c, e) /\ e.ev = "start" -> [c EXCEPT !.begun = TRUE]
      [] Expected(c, e) /\ e.ev = "open"  -> [c EXCEPT !.block = e.kind]
      [] Expected(c, e) /\ e.ev = "delta" ->
            [c EXCEPT !.got = Append(@, [kind |-> e.kind, val |-> e.val])]
      [] Expected(c, e) /\ e.ev = "close" -> [c EXCEPT !.block = "none"]
      [] Expected(c, e) /\ e.ev = "end"   -> [c EXCEPT !.phase = "ended", !.reason = e.val]
      [] Expected(c, e) /\ e.ev = "error" -> [c EXCEPT !.phase = "failed"]

ReadAll(c, events) == FoldLeft(Read, c, events)

-----------------------------------------------------------------------------
(* The writers.  w: the writer and its client, [o, c]; a write to a client  *)
(* that is gone fails.                                                      *)

Send(w, events) ==
    CASE events = <<>> \/ w.o.err -> w
      [] events # <<>> /\ ~w.o.err /\ gone -> [w EXCEPT !.o.err = TRUE]
      [] OTHER -> [w EXCEPT !.c = ReadAll(@, events)]

\* Mutant of Closed: only a call's block is closed.
ClosedCallOnly(o) == IF o.open = "call" THEN <<Close>> ELSE <<>>

Begun(o) == IF o.started THEN <<>> ELSE <<Start>>
Closed(o) == IF o.open = "none" THEN <<>> ELSE <<Close>>

\* Text, Reasoning and ToolCall of the three writers
Show(w, item) ==
    CASE proto = "chat" -> Send(w, <<Delta(item)>>)
      [] proto # "chat" /\ (w.o.done \/ item.kind = "think") -> w
      [] OTHER ->
            IF item.kind = "text" /\ w.o.open = "text"
            THEN Send(w, <<Delta(item)>>)
            ELSE IF item.kind = "text" /\ w.o.open = "call" /\ proto = "anthropic"
            THEN w      \* text after a tool block is left out
            ELSE [Send(w, Begun(w.o) \o Closed(w.o) \o <<Open(item.kind), Delta(item)>>)
                    EXCEPT !.o.started = TRUE, !.o.open = item.kind]

ShowAll(w, items) == FoldLeft(Show, w, items)

Finish(w, fin) ==
    CASE w.o.done -> w
      [] ~w.o.done /\ proto = "chat" -> [Send(w, <<End(fin)>>) EXCEPT !.o.done = TRUE]
      [] OTHER -> [Send(w, Begun(w.o) \o Closed(w.o) \o <<End(fin)>>)
                    EXCEPT !.o.started = TRUE, !.o.open = "none", !.o.done = TRUE]

\* chat writes its error frame even when it is done
ShowError(w) ==
    IF proto # "chat" /\ w.o.done THEN w
    ELSE [Send(w, <<Failure>>) EXCEPT !.o.done = TRUE]

Writer == [o |-> out, c |-> client]
Put(w) == out' = w.o /\ client' = w.c

-----------------------------------------------------------------------------
(* StreamDeltasWithTools and the callbacks of streamOut *)

\* Content goes through the filter of a fence channel, straight to the writer
\* of a native one.  Nothing more is passed on after a failed write.
Content(w, f, tokens) ==
    LET g == FeedContent([f EXCEPT !.out = <<>>], tokens)
    IN  CASE tokens = <<>> \/ w.o.err -> [w |-> w, f |-> f]
          [] tokens # <<>> /\ ~w.o.err /\ script.fence ->
                [w |-> ShowAll(w, g.out), f |-> [g EXCEPT !.out = <<>>]]
          [] OTHER -> [w |-> ShowAll(w, Texts(tokens)), f |-> f]

\* flushTools: the stitched calls, in the order of their index
FlushTools(w) ==
    FoldLeft(LAMBDA v, t : IF v.o.err THEN v ELSE Show(v, Call(t.call)), w, up.stitch)

Running == result = "running"
Troubles == Cardinality({i \in 1..3 : <<up.finish = "length", errored, gone>>[i]})
Item == script.items[pos + 1]

\* Mutant of TextFrame: text behind a call does not wait for it.
TextFrameAtOnce(n) ==
    LET d == Content(Writer, flt, [i \in 1..n |-> script.items[pos + i].val])
    IN  /\ Running /\ ~up.finishSent
        /\ pos + n <= Len(script.items)
        /\ \A i \in 1..n : script.items[pos + i].kind = "text"
        /\ pos' = pos + n
        /\ flt' = d.f /\ Put(d.w)
        /\ UNCHANGED <<proto, script, up, errored, gone, result>>

\* A frame with n tokens of text.  Once a call has begun the text waits for
\* its end (deferred).
TextFrame(n) ==
    LET piece == [i \in 1..n |-> script.items[pos + i].val]
        d     == Content(Writer, flt, piece)
    IN  /\ Running /\ ~up.finishSent
        /\ pos + n <= Len(script.items)
        /\ \A i \in 1..n : script.items[pos + i].kind = "text"
        /\ pos' = pos + n
        /\ IF up.stitch # <<>>
           THEN /\ up' = [up EXCEPT !.deferred = @ \o piece]
                /\ UNCHANGED <<flt, out, client>>
           ELSE flt' = d.f /\ Put(d.w) /\ UNCHANGED up
        /\ UNCHANGED <<proto, script, errored, gone, result>>

ThinkFrame ==
    /\ Running /\ ~up.finishSent
    /\ pos < Len(script.items) /\ Item.kind = "think"
    /\ pos' = pos + 1
    /\ Put(IF out.err THEN Writer ELSE Show(Writer, Item))
    /\ UNCHANGED <<proto, script, up, flt, errored, gone, result>>

\* mergeToolCallDeltas: the head of a call (id, name), then its arguments.
CallFrame ==
    /\ Running /\ ~up.finishSent
    /\ pos < Len(script.items) /\ Item.kind \in {"head", "args"}
    /\ pos' = pos + 1
    /\ up' = [up EXCEPT !.stitch =
                IF Item.kind = "head"
                THEN Append(@, [call |-> Item.val, whole |-> FALSE])
                ELSE [i \in DOMAIN @ |-> IF @[i].call = Item.val
                                         THEN [@[i] EXCEPT !.whole = TRUE] ELSE @[i]]]
    /\ UNCHANGED <<proto, script, flt, out, client, errored, gone, result>>

\* A chunk whose finish_reason is not stop, such as a reply cut at its length.
FinishReason ==
    /\ Running /\ ~up.finishSent /\ up.finish = "stop" /\ Troubles < MaxTroubles
    /\ up' = [up EXCEPT !.finish = "length"]
    /\ UNCHANGED <<proto, script, pos, flt, out, client, errored, gone, result>>

\* A terminating event (it carries no reason of its own): the calls, then the
\* text that waited for them.
DoneEvent ==
    LET d == Content(FlushTools(Writer), flt, up.deferred)
    IN  /\ Running /\ ~up.finishSent
        /\ up' = [up EXCEPT !.finishSent = TRUE, !.finish = "stop", !.deferred = <<>>]
        /\ flt' = d.f /\ Put(d.w)
        /\ UNCHANGED <<proto, script, pos, errored, gone, result>>

\* An error frame is passed on and the reading goes on, unless the client is
\* gone.
ErrorFrame ==
    /\ Running /\ ~errored /\ Troubles < MaxTroubles
    /\ errored' = TRUE
    /\ IF out.err THEN UNCHANGED <<out, client>> ELSE Put(ShowError(Writer))
    /\ result' = IF gone THEN "failed" ELSE result
    /\ UNCHANGED <<proto, script, pos, up, flt, gone>>

\* Mutant of FinishOf: the upstream's reason is kept although calls were found.
FinishOfKept(f) == up.finish

\* The reason of the end: a call, in the text or native, is what it ends with.
FinishOf(f) == IF f.found \/ up.stitch # <<>> THEN "tool_calls" ELSE up.finish

\* What streamOut does once the upstream has been read to its end: unless
\* something failed, it closes the filter, shows its last text and ends the
\* stream.
Returned(w, f, res) == Put(w) /\ flt' = [f EXCEPT !.out = <<>>] /\ result' = res

Ended(w, f) == Returned(w, f, IF w.o.err THEN "failed" ELSE "ok")

Shut(w, f) ==
    IF w.o.err THEN Returned(w, f, "failed") ELSE Ended(Finish(w, FinishOf(f)), f)

ShutAfter(w, f) == Shut(ShowAll(w, f.out), f)

Settle(w, f) ==
    IF w.o.err \/ errored
    THEN Returned(w, f, "failed")
    ELSE ShutAfter(w, CloseFilter([f EXCEPT !.out = <<>>]))

\* The upstream ends.  Without a terminating event the calls and the text
\* behind them are passed on now.
Eof ==
    LET d == Content(FlushTools(Writer), flt, up.deferred)
    IN  /\ Running
        /\ IF up.finishSent \/ out.err THEN Settle(Writer, flt) ELSE Settle(d.w, d.f)
        /\ UNCHANGED <<proto, script, pos, up, errored, gone>>

\* The connection to the upstream breaks: nothing more is written.
Cut ==
    /\ Running
    /\ result' = "failed"
    /\ UNCHANGED <<proto, script, pos, up, flt, out, client, errored, gone>>

Leave ==
    /\ Running /\ ~gone /\ Troubles < MaxTroubles
    /\ gone' = TRUE
    /\ UNCHANGED <<proto, script, pos, up, flt, out, client, errored, result>>

Next ==
    \/ \E n \in 1..MaxPiece : TextFrame(n)
    \/ ThinkFrame \/ CallFrame \/ FinishReason \/ DoneEvent \/ ErrorFrame
    \/ Eof \/ Cut \/ Leave

Spec == Init /\ [][Next]_vars

-----------------------------------------------------------------------------
(* Properties *)

Ok == result = "ok"
Tokens(s) == [i \in DOMAIN s |-> s[i].val]
Of(s, kinds) ==
    FoldLeft(LAMBDA kept, item : IF item.kind \in kinds THEN Append(kept, item) ELSE kept,
             <<>>, s)
Came == SubSeq(script.items, 1, pos)
Said == Tokens(Of(Came, {"text"}))              \* the text that has come
Shown == Tokens(Of(client.got, {"text"}))
Calls == Tokens(Of(client.got, {"call"}))

\* A text without its blanks.
Unspaced(s) == FoldLeft(LAMBDA kept, t : IF t = "sp" THEN kept ELSE Append(kept, t), <<>>, s)

\* The reply stops right behind an opening mark, which is then left out.
Dangling(s) == s # <<>> /\ Last(s) = "tool"

\* A fence that nothing closes.
LeftOpen(s) ==
    \E i \in DOMAIN s :
        s[i] = "fence" /\ Fence(s, i).opens /\ NextFence(s, Fence(s, i).after) = NoFence

\* An opening ends the body of what turns out not to be a call.
Muddled(s) ==
    \E i \in DOMAIN s :
        LET body == Fence(s, i).after
            next == NextFence(s, body)
        IN  /\ s[i] = "fence" /\ Fence(s, i).opens
            /\ next.opens /\ ~IsCallBlock(SubSeq(s, body, next.at - 1))

\* What stands behind the last call a whole reply is found to hold.
Left(s) ==
    LET lines == BracketCalls(s) blocks == FenceCalls(s)
    IN  CASE lines # <<>> -> Last(lines).post
          [] lines = <<>> /\ blocks # <<>> -> Last(blocks).post
          [] OTHER -> s

\* The talk between two call lines, when nothing stands in front of the first:
\* a whole reply has it as its text, a streamed one leaves it out.
Interlude(s) ==
    LET lines == BracketCalls(s)
    IN  /\ lines # <<>> /\ lines[1].pre = <<>>
        /\ \E i \in DOMAIN lines : Trim(lines[i].pre) # <<>>

\* A second ] behind a call line: taken with it or not, as the pieces fall.
Doubled(s) ==
    \E i \in 1..Len(s) - 2 : s[i] \in Objects /\ s[i + 1] = "end" /\ s[i + 2] = "end"

\* What completeChat makes of the text of a whole reply, for a request with
\* tools: AggregateRaw has unwrapped it before the calls are looked for.
Completed(s) == ExtractToolCalls(Unwrapped(s))

\* Unwrapping takes more from the reply than the fence of its only call: a code
\* block loses its fence, two calls their outer marks and what shares a line
\* with them.
Wrapped(s) ==
    /\ Unwrapped(s) # s
    /\ ~IsCallBlock(Unwrapped(s)) \/ Cardinality({i \in DOMAIN s : s[i] = "fence"}) > 2

\* A reply in which every call is written the way the prompt asks for: in a
\* closed fence or on a line of its own, one way throughout, no object left
\* behind the last one, no made-up results, no blank between ``` and tool_call.
Regular(s) ==
    /\ \A i \in DOMAIN Left(s) : Left(s)[i] \notin Objects
    /\ "result" \notin Range(s) /\ ~LeftOpen(s) /\ ~Muddled(s)
    /\ ~(Contains(s, "mark") /\ Contains(s, "tool"))
    /\ \A i \in 1..Len(s) - 1 : s[i] = "fence" => s[i + 1] # "sp"
    /\ ~Interlude(s) /\ ~Doubled(s)

SameReply(whole) == Calls = whole.calls /\ Trim(Shown) = Trim(whole.text)

\* A streamed reply has the calls and the text of the reply given at once to
\* the same frames (AggregateRaw, completeChat), however the upstream cuts it
\* into pieces, unless a whole reply has more unwrapped than a single call.
SameAsWhole ==
    Ok /\ script.fence /\ Regular(Said) /\ ~Wrapped(Said) =>
        SameReply(Completed(Said))

\* Holding back what may become a fence loses nothing: a reply in which no
\* call was found reaches the client to the last token, finished or not,
\* blanks inside a fence mark, made-up results and a dangling mark aside.  (An
\* opening that ends a body which is not a call loses its word.)
NothingHeldBack ==
    /\ Ok /\ script.fence /\ Calls = <<>>
    /\ "result" \notin Range(Said) /\ ~Dangling(Said) /\ ~Muddled(Said)
    => Unspaced(Shown) = Unspaced(Said)

\* Text and native calls reach the client in the upstream's order (text before
\* the calls, the calls by index, text after them), except that the Anthropic
\* writer leaves out what follows a call.
OrderKept ==
    Ok /\ ~script.fence =>
        LET heads == {i \in DOMAIN Came : Came[i].kind = "head"}
            first == IF heads = {} THEN pos + 1 ELSE Min(heads)
            late  == Texts(Tokens(Of(SubSeq(Came, first, pos), {"text"})))
        IN  Of(client.got, {"text", "call"})
              = Texts(Tokens(Of(SubSeq(Came, 1, first - 1), {"text"})))
                \o [i \in DOMAIN up.stitch |-> Call(up.stitch[i].call)]
                \o (IF proto = "anthropic" /\ heads # {} THEN <<>> ELSE late)

\* Every event written can be placed by the client, block by block, and none
\* follows the end; but chat goes on writing after an error frame.
StreamWellFormed == client.fault => proto = "chat" /\ errored

\* A reply as the prompt asks for it: each call in a fence of its own, closed
\* before the next, and each ``` opens a call or ends its line.
AsAsked(s) ==
    LET fences == {i \in DOMAIN s : s[i] = "fence"}
    IN  /\ Regular(s) /\ "mark" \notin Range(s)
        /\ Cardinality(fences) = 2 * Len(FenceCalls(s))
        /\ \A i \in fences : i = Len(s) \/ s[i + 1] \in {"tool", "nl"}

\* "Several tool_call blocks may be written to call several tools", says the
\* prompt, and the blocks of a reply become its calls, streamed or not
\* (tools.go): here of a reply given at once.
EveryBlockIsACall ==
    Ok /\ script.fence /\ AsAsked(Said) =>
        Completed(Said).calls = CallsOf(FenceCalls(Said))

\* The stream keeps the promise of ReplyContract.  (When a reply ends in a
\* fence it left open, the filter shows that fence as text, behind the calls;
\* a made-up result line that is left out may take the closing fence with it.)
Promise == INSTANCE ReplyContract WITH
    got <- client.got, phase <- client.phase, reason <- client.reason,
    fenced <- script.fence /\ ~LeftOpen(Said) /\ "result" \notin Range(Said)
Promised == Promise!Contract
=============================================================================
