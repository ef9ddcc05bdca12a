-------------------------- MODULE RequestShaping --------------------------
(***************************************************************************)
(* What the gateway makes of a request before it leaves: the three inbound *)
(* protocols parsed into one list of messages (server/request.go,          *)
(* server/adapter.go), the list projected and sanitised                    *)
(* (server/project.go, server/sanitize.go), its images passed on or        *)
(* replaced by a placeholder (server/media.go) and rendered for the        *)
(* upstream (server/prompt.go, server/handler.go).  All of it is pure.     *)
(*                                                                         *)
(* A text is a sequence of words.  Some words stand for what the code      *)
(* looks for in a text: "harness" for a block that client tools inject,    *)
(* "claude" and "codex" for the two tools' self-descriptions, "trigger"    *)
(* for a listed term and "print" for a fingerprint line; "long" weighs     *)
(* LongWeight characters, any other word weighs one.                       *)
(***************************************************************************)
EXTENDS Integers, Sequences, FiniteSets, SequencesExt

CONSTANTS
    TailMessages,   \* ProjectConfig.TailMessages
    TailChars,      \* ProjectConfig.TailChars
    SystemChars,    \* maxSystemChars
    UserChars,      \* maxUserChars
    AssistantChars, \* maxAssistantChars
    LongWeight,     \* characters of the word "long"
    MaxImages       \* maxImagesPerMsg

ASSUME LimitsAssumption ==
    {TailMessages, TailChars, SystemChars, UserChars, AssistantChars,
     LongWeight, MaxImages} \subseteq Nat \ {0}

NoCall == "-"

\* An empty message of a role (openAIMessage).
Blank(role) == [role |-> role, text |-> <<>>, calls |-> <<>>, callId |-> NoCall,
                images |-> <<>>, deferred |-> <<>>]

Has(text, words) == \E i \in DOMAIN text : text[i] \in words
IsHarnessText(text) == Has(text, {"harness", "claude", "codex"})

Chars(text) ==
    Len(text) + (LongWeight - 1) * Cardinality({i \in DOMAIN text : text[i] = "long"})

CharsOf(msgs) == FoldLeft(LAMBDA n, m : n + Chars(m.text), 0, msgs)

\* The elements of s at the positions I, in order.
Keep(s, I) ==
    FoldLeftDomain(LAMBDA kept, i : IF i \in I THEN Append(kept, s[i]) ELSE kept, <<>>, s)

-----------------------------------------------------------------------------
(* Parsing.  An image of a request is named after what becomes of it: a
   "data" URI, a "url" that can be fetched, a "dead" one that cannot, a "huge"
   data URI, an "odd" address of another scheme.                             *)

\* The placeholder an image that cannot be passed on leaves at once, or "".
Refusal(image) == CASE image = "huge" -> "[oversize]"
                    [] image = "odd"  -> "[image]"
                    [] OTHER          -> ""

Defer(m, mark) == [m EXCEPT !.deferred = Append(m.deferred, mark)]

Attach(m, image) ==
    IF Refusal(image) = ""
    THEN [m EXCEPT !.images = Append(m.images, image)]
    ELSE Defer(m, Refusal(image))

\* The number of images of a message is checked before the image itself ...
AppendImage(m, image) ==
    IF Len(m.images) >= MaxImages THEN Defer(m, "[image]") ELSE Attach(m, image)

\* ... except by the messages protocol, which looks at the image first.
AppendSource(m, image) ==
    IF Refusal(image) # "" \/ Len(m.images) < MaxImages
    THEN Attach(m, image) ELSE Defer(m, "[image]")

TakePart(m, part) ==
    CASE part.type = "text"  -> [m EXCEPT !.text = m.text \o part.text]
      [] part.type = "image" -> AppendImage(m, part.image)
      [] OTHER               -> Defer(m, "[file]")

\* chat/completions: one message of the request is one message.
ParseMessage(w) ==
    FoldLeft(TakePart, [Blank(w.role) EXCEPT !.calls = w.calls, !.callId = w.callId],
             w.parts)

ParseChatRequest(wire) == [i \in DOMAIN wire |-> ParseMessage(wire[i])]

\* Blocks of any role but the user's are collected as the assistant's.
Speaker(role) == IF role = "user" THEN "user" ELSE "assistant"

\* The message being collected ends: it counts only when it holds something.
Flush(s) == [out |-> IF s.cur = Blank(s.cur.role) THEN s.out
                     ELSE Append(s.out, [s.cur EXCEPT !.role = Speaker(s.cur.role)]),
             cur |-> Blank(s.cur.role)]

TakeResultPart(m, part) ==
    CASE part.type = "text"  -> [m EXCEPT !.text = m.text \o part.text]
      [] part.type = "image" -> AppendSource(m, part.image)
      [] OTHER               -> m

ToolResult(block) ==
    [FoldLeft(TakeResultPart, Blank("tool"), block.parts) EXCEPT !.callId = block.id]

TakeBlock(s, block) ==
    LET role == s.cur.role IN
    CASE block.type = "text" -> [s EXCEPT !.cur.text = s.cur.text \o block.text]
      [] block.type = "tool_use" /\ role = "assistant" ->
            [s EXCEPT !.cur.calls = Append(s.cur.calls, block.id)]
      [] block.type = "tool_result" /\ role = "user" ->
            LET f == Flush(s) IN [f EXCEPT !.out = Append(f.out, ToolResult(block))]
      [] block.type = "image" /\ role = "user" ->
            [s EXCEPT !.cur = AppendSource(s.cur, block.image)]
      [] OTHER -> s      \* thinking, and blocks that are out of place

\* messages: one message may become several, and a plain string exactly one.
ParseAnthropicMessage(w) ==
    IF w.plain THEN << [Blank(w.role) EXCEPT !.text = w.text] >>
    ELSE Flush(FoldLeft(TakeBlock, [out |-> <<>>, cur |-> Blank(w.role)], w.blocks)).out

\* What parseAnthropicRequest and parseAnthropicMessage do not refuse: a limit on
\* the answer is asked for, and only the user and the assistant send a plain string.
AcceptsAnthropic(wire, params) ==
    /\ "max_tokens" \in DOMAIN params
    /\ \A i \in DOMAIN wire.messages :
          wire.messages[i].plain => wire.messages[i].role \in {"user", "assistant"}

ParseAnthropicRequest(wire) ==
    (IF wire.system = <<>> THEN <<>>
     ELSE << [Blank("system") EXCEPT !.text = wire.system] >>)
    \o FlattenSeq([i \in DOMAIN wire.messages |-> ParseAnthropicMessage(wire.messages[i])])

\* What parseResponsesItem does not refuse: instructions come from a developer,
\* never from a system message, and a result names its call.
Dropped == {"reasoning", "computer_call", "computer_call_output", "local_shell_call"}
AcceptsItem(it) ==
    /\ it.type \in {"message", "function_call", "function_call_output"} \cup Dropped
    /\ it.type = "message" => it.role \in {"user", "assistant", "developer"}
    /\ it.type = "function_call_output" => it.id # NoCall
AcceptsResponses(wire) == \A i \in DOMAIN wire.input : AcceptsItem(wire.input[i])

\* responses: an item is a message, a call, a result or something dropped.
ParseResponsesItem(it) ==
    CASE it.type = "message" ->
            << FoldLeft(TakePart,
                        Blank(IF it.role = "developer" THEN "system" ELSE it.role),
                        it.parts) >>
      [] it.type = "function_call" ->
            << [Blank("assistant") EXCEPT !.calls = <<it.id>>] >>
      [] it.type = "function_call_output" ->
            << [Blank("tool") EXCEPT !.callId = it.id, !.text = it.text] >>
      [] OTHER -> <<>>

\* Mutant of JoinItem: whatever message is in front takes the call.
JoinAnyItem(msgs, m) ==
    IF m.calls # <<>> /\ msgs # <<>>
    THEN [msgs EXCEPT ![Len(msgs)].calls = Last(msgs).calls \o m.calls]
    ELSE Append(msgs, m)

\* A call joins the assistant message in front of it.
JoinItem(msgs, m) ==
    IF m.calls # <<>> /\ msgs # <<>> /\ Last(msgs).role = "assistant"
    THEN [msgs EXCEPT ![Len(msgs)].calls = Last(msgs).calls \o m.calls]
    ELSE Append(msgs, m)

ParseResponsesRequest(wire) ==
    FoldLeft(LAMBDA msgs, it : FoldLeft(JoinItem, msgs, ParseResponsesItem(it)),
             IF wire.instructions = <<>> THEN <<>>
             ELSE << [Blank("system") EXCEPT !.text = wire.instructions] >>,
             wire.input)

HasSendable(msgs) == \E i \in DOMAIN msgs : msgs[i].role \in {"user", "tool"}

\* Generation parameters, a function from the keys a request sets to "default"
\* or "set".  Keys the gateway does not list are not looked at.
Forwarded == {"max_tokens", "temperature"}
DefaultOnly == {"seed", "stop"}
Rejected(params) == {k \in DOMAIN params \cap DefaultOnly : params[k] # "default"}

-----------------------------------------------------------------------------
(* Projection. *)

\* truncateText: whole words up to n characters, and a mark.
TruncateText(text, n) ==
    IF Chars(text) <= n THEN text
    ELSE Append(SubSeq(text, 1, CHOOSE k \in 0..(Len(text) - 1) :
                        /\ Chars(SubSeq(text, 1, k)) <= n
                        /\ Chars(SubSeq(text, 1, k + 1)) > n), "[cut]")

Limit(role) == CASE role \in {"system", "developer"} -> SystemChars
                 [] role = "user" -> UserChars
                 [] OTHER         -> AssistantChars

ProjectConservative(msgs) ==
    [i \in DOMAIN msgs |->
        [msgs[i] EXCEPT !.text = TruncateText(msgs[i].text, Limit(msgs[i].role))]]

LooksAgentic(msgs, agenticTool) ==
    agenticTool \/ \E i \in DOMAIN msgs : IsHarnessText(msgs[i].text)

IsSystem(m) == m.role \in {"system", "developer"}
IsHarness(m) == IsHarnessText(m.text) /\ (IsSystem(m) \/ m.role = "user")

\* What is left of the instructions: the last two that are not a tool's own.
Guidance(msgs) ==
    LET kept == Keep(msgs, {i \in DOMAIN msgs : /\ IsSystem(msgs[i]) /\ ~IsHarness(msgs[i])
                                               /\ msgs[i].text # <<>>})
        cut  == [i \in DOMAIN kept |->
                    [Blank("system") EXCEPT !.text = TruncateText(kept[i].text, SystemChars)]]
    IN  SubSeq(cut, IF Len(cut) > 2 THEN Len(cut) - 1 ELSE 1, Len(cut))

Conversation(msgs) ==
    Keep(msgs, {i \in DOMAIN msgs : ~IsSystem(msgs[i]) /\ ~IsHarness(msgs[i])})

\* First message of the tail; Len(c) + 1 when the last message alone is too long.
TailStart(c) ==
    LET Fits(t) == /\ Len(c) + 1 - t <= TailMessages
                   /\ CharsOf(SubSeq(c, t, Len(c))) <= TailChars
    IN  CHOOSE t \in 1..(Len(c) + 1) : Fits(t) /\ \A u \in 1..(t - 1) : ~Fits(u)

Answers(result, m) ==
    /\ result.role = "tool" /\ result.callId # NoCall
    /\ m.role = "assistant" /\ \E k \in DOMAIN m.calls : m.calls[k] = result.callId

\* Every result of the call id has the call in front of it.
ResultsAnswered(msgs, id) ==
    \A j \in DOMAIN msgs : msgs[j].role = "tool" /\ msgs[j].callId = id
        => \E i \in 1..(j - 1) : Answers(msgs[j], msgs[i])

\* Mutant of ExtendTail: the tail is cut where its limits say.
ExtendTailNever(c, start) == start

\* A result in the tail pulls the tail forward to the nearest call in front of
\* it, until no result of the tail has a call in front of the tail.
ExtendTail(c, start) ==
    LET Missing(t) == {j \in t..Len(c) : \E i \in 1..(t - 1) : Answers(c[j], c[i])}
        from[t \in 1..(Len(c) + 1)] ==
            IF Missing(t) = {} THEN t
            ELSE LET j == CHOOSE j \in Missing(t) : \A k \in Missing(t) : j <= k
                     callers == {i \in 1..(t - 1) : Answers(c[j], c[i])}
                 IN  from[CHOOSE i \in callers : \A k \in callers : k <= i]
    IN  from[start]

\* The first question asked, when the tail does not hold it.
Anchor(c, start) ==
    {a \in 1..(start - 1) : c[a].role = "user" /\ \A b \in 1..(a - 1) : c[b].role # "user"}

\* The messages that are neither anchor nor tail are condensed into one.
Summary(c, start) ==
    IF (1..(start - 1)) \ Anchor(c, start) = {} THEN <<>>
    ELSE << [Blank("system") EXCEPT !.text = <<"[summary]">>] >>

ProjectAggressive(msgs) ==
    LET c     == Conversation(msgs)
        start == ExtendTail(c, TailStart(c))
        out   == Guidance(msgs) \o Summary(c, start)
                   \o [k \in 1..Cardinality(Anchor(c, start)) |->
                        c[CHOOSE a \in Anchor(c, start) : TRUE]]
                   \o SubSeq(c, start, Len(c))
    IN  IF out = <<>> THEN ProjectConservative(msgs) ELSE out

ProjectRequest(msgs, agenticTool) ==
    IF LooksAgentic(msgs, agenticTool) THEN ProjectAggressive(msgs)
    ELSE ProjectConservative(msgs)

-----------------------------------------------------------------------------
(* Sanitising, media and rendering. *)

\* sanitizeText, in its order: listed terms are broken up, fingerprints cut,
\* blocks replaced, and a text that still introduces a known tool becomes a
\* fixed one.  "Claude Code" is itself on the list, so that its introduction
\* is broken up before the last step can find it.
SanitizeText(text) ==
    LET Clean(w) == CASE w = "trigger" -> <<"t~rigger">>
                      [] w = "claude"  -> <<"c~laude">>
                      [] w = "print"   -> <<>>
                      [] w = "harness" -> <<"[neutral]">>
                      [] OTHER         -> <<w>>
        clean == FlattenSeq([i \in DOMAIN text |-> Clean(text[i])])
    IN  IF Has(clean, {"claude", "codex"}) THEN <<"[assistant]">> ELSE clean

SanitizeRequest(msgs, harnessUser) ==
    [i \in DOMAIN msgs |->
        IF IsSystem(msgs[i]) \/ (msgs[i].role = "user" /\ harnessUser
                                   /\ IsHarnessText(msgs[i].text))
        THEN [msgs[i] EXCEPT !.text = SanitizeText(msgs[i].text)]
        ELSE msgs[i]]

\* mediaMode: the deployment's override wins over the profile.
MediaMode(profile, override) == IF override = "" THEN profile.media ELSE override

\* Mutant of RenderMedia: a picture that cannot be fetched leaves no mark.
RenderMediaSilent(m, mode) ==
    LET kept == IF mode = "passthrough"
                THEN Keep(m.images, {i \in DOMAIN m.images : m.images[i] # "dead"})
                ELSE <<>>
        lost == IF mode = "passthrough" THEN <<>>
                ELSE [i \in DOMAIN m.images |-> "[image]"]
    IN  [m EXCEPT !.images = [i \in DOMAIN kept |-> "data"],
                  !.deferred = <<>>,
                  !.text = m.text \o m.deferred \o lost]

RenderMedia(m, mode) ==
    LET kept == IF mode = "passthrough"
                THEN Keep(m.images, {i \in DOMAIN m.images : m.images[i] # "dead"})
                ELSE <<>>
        lost == IF mode = "passthrough"
                THEN [i \in 1..(Len(m.images) - Len(kept)) |-> "[unreachable]"]
                ELSE [i \in DOMAIN m.images |-> "[image]"]
    IN  [m EXCEPT !.images = [i \in DOMAIN kept |-> "data"],
                  !.deferred = <<>>,
                  !.text = m.text \o m.deferred \o lost]

\* toolchainEnabled: a deployment's override of the profile's tool chain.
ProjectOn(profile, chain) == IF chain = "" THEN profile.project
                             ELSE chain \in {"project", "project,sanitize"}
SanitizeOn(profile, chain) == IF chain = "" THEN profile.sanitize
                              ELSE chain \in {"sanitize", "project,sanitize"}

\* preparePipeline: the stages in their order.
PreparePipeline(msgs, agenticTool, profile, chain, media) ==
    LET projected == IF ProjectOn(profile, chain)
                     THEN ProjectRequest(msgs, agenticTool) ELSE msgs
        clean     == IF SanitizeOn(profile, chain)
                     THEN SanitizeRequest(projected, profile.harnessUser) ELSE projected
    IN  [i \in DOMAIN clean |-> RenderMedia(clean[i], MediaMode(profile, media))]

\* The tools are announced at the end of the last question.
Announce(msgs) ==
    [i \in DOMAIN msgs |->
        IF msgs[i].role = "user" /\ \A j \in (i + 1)..Len(msgs) : msgs[j].role # "user"
        THEN [msgs[i] EXCEPT !.text = Append(msgs[i].text, "[tools]")] ELSE msgs[i]]

\* A message that leaves nothing in a transcript is not transcribed, and the
\* images of the others are not either.
Speaks(m) == m.role = "tool" \/ m.text # <<>> \/ m.calls # <<>>
Transcribe(msgs) ==
    LET said == Keep(msgs, {i \in DOMAIN msgs : Speaks(msgs[i])})
    IN  [i \in DOMAIN said |-> [said[i] EXCEPT !.images = <<>>]]

\* A chat that upstream remembers is sent what follows the last question.
SinceLastUser(msgs) ==
    LET users == {i \in DOMAIN msgs : msgs[i].role = "user"}
    IN  IF users = {} THEN msgs
        ELSE SubSeq(msgs, CHOOSE i \in users : \A j \in users : j <= i, Len(msgs))

RenderFullPrompt(msgs) ==
    LET systems == {i \in DOMAIN msgs : IsSystem(msgs[i])}
    IN  Transcribe(Keep(msgs, systems)) \o Transcribe(Keep(msgs, DOMAIN msgs \ systems))

RenderTailPrompt(msgs) == Transcribe(SinceLastUser(msgs))

\* buildUpstreamMessages: native roles, or one transcript.
BuildUpstreamMessages(msgs, profile, toolsOn, continueChat) ==
    IF profile.model = "roles"
    THEN IF toolsOn /\ profile.fence THEN Announce(msgs) ELSE msgs
    ELSE (IF continueChat THEN RenderTailPrompt(msgs) ELSE RenderFullPrompt(msgs))
           \o (IF toolsOn THEN << [Blank("system") EXCEPT !.text = <<"[tools]">>] >>
               ELSE <<>>)
=============================================================================
