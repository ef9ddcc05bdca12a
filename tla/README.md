# TLA+ specifications of OmniGate

OmniGate (`src/`) is a gateway: clients speak the OpenAI, Anthropic or Responses
protocol to it, and it answers them with chats it runs on a pool of upstream
accounts (Huawei CodeArts, Tencent WorkBuddy CN and global).  The specifications
here model the parts of it that keep state and are touched by several goroutines
at once, and the two pure pipelines every chat goes through (what becomes of a
request, what becomes of a reply).  They say what those parts promise, TLC checks
that on small instances, and TLAPS proves the central promises for every instance.

## The system

| component | code | state it keeps | operations | talks to |
|---|---|---|---|---|
| account pool | `internal/pool/pool.go` | per account: disabled, sticky, cooldown, per-model cooldowns, error count, validation cache, slot counter; the state file | `Enable`, `Disable`, `DisableSticky`, `Cooldown`, `CoolModel`, `ClearCooldown`, `NoteError`, `NoteSuccess`, `Validate`, `PickForModel`, `AcquireLockWait`, `ReleaseLock`, `AddAccount`, `SyncToDir`, load and save | called by request serving, scheduler, admin API, logins |
| credentials and renewal | `internal/auth/auth.go`, `pool.go:580-624`, `pool.go:959-1118` | one file per account; the `Auth` object the account points at; a refresh token upstream takes once | `LoadDir`, `Save`, `refreshAuthCreds`, `CheckAndRefreshToken`, `applyAuthCreds` | upstream, scheduler, requests, logins |
| scheduler and daily care | `internal/scheduler/scheduler.go`, `internal/upstream/tencent_*.go` | day of the last claim per kind; at upstream: benefits, check-in, growth tasks, pet, trial | `Tick`, `claimDaily`, `petTravel`, `InitAccount`, `EnsureGlobalTrial` | pool, upstream |
| request serving | `internal/server/handler.go`, `errors.go`, `stream.go` | per request: accounts tried, rounds, retries, bound account | `serveWithAccounts`, `pickAccount`, `openStream`, `streamOut`, `completeChat`, `handleUpstreamError` | pool, upstream clients, session index |
| conversation continuation | `internal/server/session.go`, `handler.go:71-132`, `internal/adapt/circuit.go` | index of registered message lists, eviction order, breaker events | `routeSession`, `match`, `register`, `drop`, `turnSuccess`, `turnFailure`, `Record`, `Open` | request serving, pool |
| routes and registry | `internal/adapt/routes.go`, `registry.go`, `server/routes.go`, `admin.go` | model -> profile table, blocked models, the table's file | `Resolve`, `Replace`, `SetBlocked`, save, load | request intake, admin API |
| request intake | `internal/server/request.go`, `adapter.go`, `project.go`, `sanitize.go`, `media.go`, `prompt.go` | none | parse three protocols, project, sanitise, render | routes |
| reply stream | `internal/upstream/sse.go`, `server/stream.go`, `streamfilter.go`, `fence.go`, `*_out.go` | parser, filter and writer state of one reply | read a frame, feed the filter, write events, finish | request serving |
| login guard | `internal/server/loginguard.go` | per channel: starts in the window, last start, open session, failure streak, cooldown | `allow`, `recordStart`, `recordDone`, `recordFailed` | OAuth handlers |
| OAuth sessions | `internal/server/oauth.go`, `oauth_tencent.go` | sessions by id, their result | start, poll, callback | login guard, pool (`AddAccount`) |
| model catalogue, usage ledger | `internal/server/models.go`, `usage_stats.go`, `modelusage.go` | cached lists; counters | fetch, merge; record, roll over, flush | panel |
| signing, identity, panel, command-line tools | the rest of `internal/` and `cmd/` | none or wire state | conversions and input/output | — |

How they interact.  A request is parsed, resolved to a profile by the route table,
shaped for it, and then carried by request serving to an account the pool picks;
its reply runs through the reply stream.  The session index may bind it to the
account of an earlier turn.  Beside the requests the scheduler's pass validates and
renews every account and collects what upstream gives away, an operator changes
health and routes, logins add accounts and swap credentials, and the process may
stop between any two of these steps.

What is hard here: the pool's lock is dropped whenever something slow happens
(token renewal, upstream calls, waits for a slot), so most decisions are made on
state that may have changed by the time they are carried out; several writers
share a file; a refresh token works once; the session index believes things about
an upstream's memory that it cannot see; and a streamed reply has to be understood
before it is complete.  `PROJECT.json` lists these hazards line by line with the
properties aimed at them.

## Modules

| module | models | built on |
|---|---|---|
| `AccountRecord` | the health record of an account and one function per transition; `PickForModel` | — |
| `AccountPool` | the pool: records, state file, concurrent validations, login, reload, restart, time | `AccountRecord` |
| `PoolHealing` | the pool under the scheduler, with faults bounded, for liveness | `AccountPool` |
| `Credentials` | one account's file, `Auth` objects and refresh token under renewals, logins, reloads, tools, crashes | — |
| `DailyCare` | the scheduler's daily stages, growth tasks and pet, and `InitAccount` beside them | — |
| `RequestServing` | concurrent requests: rotation, slots, back-off, answer, settlement | `AccountRecord` |
| `SlotContract` | abstract: what the concurrency slots promise; `RequestServing` implements it | — |
| `SlidingWindow` | a list of time stamps that forgets the ones that leave the window | — |
| `CircuitBreaker` | the breaker as a record with functions | `SlidingWindow` |
| `SessionRouting` | turns of client conversations, the session index, what upstream was really told | `CircuitBreaker` |
| `RequestShaping` | parsers of the three protocols, projection, sanitising, media, rendering, as operators | — |
| `RequestIntake` | requests from arrival to upstream while the route table is replaced and the server restarts | `RequestShaping` |
| `ToolFence` | finding tool calls in text: a whole reply, and piece by piece, as operators | — |
| `ReplyStream` | one reply through frames, filter and writer to the client | `ToolFence` |
| `ReplyContract` | abstract: what a streamed reply promises; `ReplyStream` implements it | — |
| `LoginGuard` | the throttle on authorisations of one channel as a record with functions | `SlidingWindow` |
| `AccountLogin` | both login flows: start, poll and browser callback as concurrent handlers | `LoginGuard` |
| `MC...` | instances for TLC | |
| `...Proofs` | the theorems about the module of that name | |

### How state and actions correspond to the code

`AccountRecord`.  An account is the record `AccountState`; each method of `Pool`
that changes health is one function on it (`Disable` is `Disabled(a)`,
`NoteError` is `Errored(a)`, ...).  Deadlines are kept as the number of ticks left,
so time needs no bound.  `coolKind` and the validation cache are in memory only;
`Persisted` and `Restored` are the two directions of the state file.  The error
counter saturates at the threshold because the code only compares it with `>=`.

`AccountPool`.  Methods that hold `p.mu` from start to save are one action each,
save included.  `saveState` gives up without a word when the file cannot be written or
renamed (`pool.go:1188-1192`), and the change then stays in memory alone: with `DiskFails`
every save is allowed to do that, the login's too.  `owed` is a history variable: the last save
failed, or a login wrote an image over it that others had overtaken (`login.late`), and
nothing was saved since.  A save writes all accounts, so the next one of any account pays
what is owed, and a restart has nothing more to lose.  `Validate` is three: it looks at its cache, works without a lock,
and ends in a section of its own that saves nothing.  It holds a pointer: after a
reload that dropped the account its edit hits a record no longer in the pool
(`live`).  `AddAccount` changes the pool under the lock but saves after it, so its
snapshot and its write are two further actions.  `Restart` loses memory and loads
the file; `AuthFileChange` is the outside world adding or removing credential
files.

`Credentials`.  One account, because each has a file and a `refreshMu` of its own.
Upstream is `accepted`: the generation of the token it takes, per login.  `heap`
holds the `Auth` objects, `held` is the pointer `Account.Auth`: `Validate` judges the
object it read first (`judged`), the renewal uses the one it reads under the lock
(`obj`).  A renewal is five steps (lock, upstream rotates, the answer arrives in
memory, the file is written, the verdict), and any of them can be the last one
before a crash.  Logins and reloads are two steps each (file then pointer, or the
other way), and the tools write the file from another process.  `mishap` is a
history variable: something cut into a renewal or went wrong.

`DailyCare`.  Upstream's side of an account is the day each daily action was done,
the state of each growth task, the pet with its energy and daily limit, and the
trial.  The pass is a program counter over the stages and the accounts still to
come; a daily stage is stamped with the day it began.  A failed call is an
alternative of every step.  `joined`, `reloaded` and `missed` are history variables.

`RequestServing`.  One action per stretch between two points where a request
blocks or lets go of the pool: pick, take a slot, validate, open, back off,
reacquire, stream, settle.  The slot is released before the account is settled, as
in the code.  `doubled` is a history variable: it counts releases by requests that
hold nothing.

`SlidingWindow`.  The starts the guard counts and the events the breaker counts are kept
in the order they happened, so the code's filter over the whole list (`pruneLocked`,
`prune`) removes a prefix, and the model says so; `PruneDropsWhatIsOver` proves the two
the same on lists in order, and `StartsInOrder` that the guard's list is.

`SessionRouting`.  A hash chain entry stands for the list it hashes, so keys are
lists; hash collisions are out of the model, and with them the ambiguous match,
which needs two keys of one length on one chain.  `told` is not in the program: it
is what each upstream chat has actually received.  `LossyTools` stands for the
`toolchain.project` setting that forces full prompts.  Continuation is an opt-in
(`SessionMode == "incremental"` and a profile with an implicit session); the
profiles shipped today declare `none`, so the mechanism is modelled as the code
keeps it for text-only upstreams.  A client of `IdConvs` keeps the chat id of its last
answer and names it in the next turn (`RouteExplicit`): the turn goes to that chat on the
account `convAcct` has for it, past tool chain and breaker, and is not registered.
`Restart` empties index, breaker and `convAcct`, and fails the turns on their way.

`RequestShaping`, `RequestIntake`.  A text is a sequence of words, some of which
stand for what the code looks for; its length is the sum of the words' weights.  A
message keeps role, text, calls, the call it answers, images, and the marks of
images that could not be kept.  Parsers, projection, sanitiser and renderer are one
operator per function, in the pipeline's order.  In `RequestIntake` a client holds
one conversation and puts it in the wire form of a protocol; `Arrive` parses it,
`Accepted` is what the parsers refuse: the messages protocol wants `max_tokens` and takes a plain
string from the user and the assistant only, the responses protocol takes no `system` message,
no result without a call's id and no unknown item.  In the messages protocol, blocks of any
role but the user's are read as the assistant's (`Speaker`).
`CheckBlocked` and `LookUp` are the two reads of `RouteTable.Resolve`; a family that is not
registered falls back to the profile compiled in (`BuiltIn`), also where a profiles
directory puts another one under its name (`server/routes.go:49-52`).  The save of
a table is its five steps: temporary file emptied, written, renamed, routes
replaced, blocked models set.  Two saves share the temporary file.

`ToolFence`, `ReplyStream`.  Text is a sequence of the tokens the parsers tell apart
(a fence, `tool_call`, the marks of transcribed lines, a line break, a complete call
object, prose).  `FeedContent`, `TryCloseTool` and `CloseFilter` are the stream filter,
`ExtractToolCalls` the parser of a whole reply, which `AggregateRaw` has passed through
`Unwrapped` (`unwrapQAContent`) before: of a reply that begins with a fence mark and ends in a line of
one, only what is between is kept (`Completed`).  `completeChat` looks for calls only when the request
has tools; a stream of a fence channel is filtered whether it has or not (`stream.go:110` asks the profile alone),
so the two are compared for requests with tools.  An action of `ReplyStream` is one
frame of upstream with all its callbacks: filter, writer and client move in one
step.  `client` is what a reader of the events makes of them.

`LoginGuard`, `AccountLogin`.  The guard's maps are keyed by channel and no method
looks at two, so one channel is modelled, with either flow: `ticket` (Huawei, where
poll and callback compete) or `device` (Tencent, poll only).  Time stamps are
countdowns.  A handler passes the gate, stores its session and tells the guard in
three steps; a poll or callback finds its session in one step and deals with
upstream's answer in another, when the session may have been finished, failed or
dropped by someone else.  `unfinished` and `late` are history variables: starts since
the last success or pause, and starts recorded during the present pause.  A session
whose time is over is gone at once here; the code removes it when the store is next
read, which nobody can tell apart.

## Runs

| run | question | instance | result |
|---|---|---|---|
| `pool_health` | can anything but the operator or a login lift a ban; do the block flags stay linked on all paths; what does a crash forget | 1 account, 2 validating callers, logins, restarts, reloads, saves that fail | holds |
| `pool_heals` | does the pool repair itself | 2 accounts, scheduler and one caller, 2 faults, failed saves among them | holds |
| `pool_login_overwrites_block` | is a ban held until re-login, restarts included | 2 accounts, logins | **violated** |
| `credentials` | is a token presented twice, does the file follow, is only what expired called dead, does what can be renewed come back | scheduler and a request, both channels, 2 logins, 2 events | holds |
| `care` | does a stamped day leave an account out; are trial, rewards and pets seen to | 1 account of each channel, 2 tasks, one midnight, 2 events | holds |
| `serving` | is a slot granted, refused or lost only when it may be, does rotation move on, is every request answered | 2 requests, 2 accounts, 1 slot each, 2 rounds, 2 attempts, 2 disturbances | holds |
| `session` | does a tail ever leave an instruction out; is every entry true | 2 conversations, one with ids, 1 account, 2 chats, lists up to 3, restarts | holds |
| `session_tail_to_stranger` | is upstream told all of the list | 2 accounts | **violated** |
| `intake` | does the saved table survive, is a blocked model served, is a conversation the same in each protocol, what survives shaping | 3 profiles and the one compiled in, 2 models, 2 operators, 1 client | holds |
| `stream` | does a streamed reply say what the whole reply says, in order, in well-formed events; does it keep `ReplyContract` | all replies of up to 2 blocks and 4 long ones, 3 protocols, 1 trouble | holds |
| `stream_wrapped_calls` | does each block of a reply that is given at once become a call | as `stream`, chat only, 2 blocks | **violated** |
| `login` | can failed logins escape the count; do pause and cap hold; is a channel ever locked for good | 2 handlers, 3 sessions, one channel, both flows | holds |

What the violations show:

* `AddAccount` saves outside the lock.  A ban recorded between its snapshot and its
  write is overwritten on disk; after a restart the account serves again, against
  the comment at `pool.go:627`.
* A routed turn renders its prompt once.  If the bound account has become unusable,
  the next account receives the tail alone, in a chat it has never seen, against
  `README.md:87`.
* A reply of two `tool_call` blocks, written as `tools.go:64` asks the model to, begins and ends with a
  fence mark.  Given at once it is unwrapped first (`sse.go:441-459`, `513`): the first block loses
  its opening and the second its closing mark, one call is found and the other one is
  answered as text.  The same reply streamed has both calls.

### Bounds, and why they are enough

Two accounts are what rotation and overwriting need: one to act on and another
whose step interferes.  Two callers in `Validate`, two requests and two
conversations give every pairwise interleaving.  Durations of one or two ticks
distinguish "running", "about to end" and "over", and a hard cooldown is longer than
a soft one.  `MaxRotate = 2` and `OpenRetries = 2` reach the last round and the last
attempt as well as one before it.  Lists of three messages allow a registered
prefix, an unregistered turn and a tail; two index entries reach the eviction.  One
conversation of `session` names its chats and the other never does, so a named chat and
an index entry meet in one chat.
Faults and disturbances are bounded by `MaxFaults` and `MaxDisturbances`; they bound
how often things go wrong in one behaviour, not when.  In `pool_heals` a failed save of a relief counts
as a fault; those of a penalty, and of a validation that finds an account dead, come with a fault that is
counted already.  In `pool_health` any save may fail, any number of times.  `login` pauses after two
failures and caps at two starts in a window of three ticks, so a behaviour reaches
the cap, the pause and its end; with two handlers a start can overlap another start,
a poll or a callback.  `pool_health` uses no models, since per-model cooldowns do not
touch the block flags; `pool_heals` uses one.

`credentials`: a token lives three ticks, is renewed by the scheduler from two ticks
before its end and by requests from one, so a token is fresh, due for one, due for
both, and over.  `MaxTime = 3` reaches the first expiry, `MaxLogins = 2` one login beside
a renewal, and `MaxEvents = 2` any two of logins, reloads, restarts, tool runs,
lost calls, failed writes and withdrawn tokens; the five-step renewal can be cut by
them anywhere.

`care`: the channels' stages do not meet, so one account of each is enough; the two
tasks are one of each kind (completed by the first report, or only by the second).
`MaxDay = 2` has one midnight, in or between stages.  `MaxEnergy = 2` with `MaxOpenCount = 2`
has no box, one box and the full count.  `MaxEvents = 2` allows, say, a failed call and
a restart.

`intake`: `TailMessages = 2`, `TailChars = 5` and the per-role limits make words and
messages fall on both sides of each limit; `MaxImages = 2` lets a third picture
be left over.  The conversations are every combination of an opening, a question,
rounds of tool calls and an end that reaches a branch of the pipeline (in each protocol that can say them), and a few in which a developer or the system speaks
later or a result names no call, which some protocol refuses.  `MaxSaves = 2` with two operators gives one save
alone, one after the other, and both at once; `MaxBoots = 1` a restart anywhere.
Operators and crashes interrupt only the `Quick` requests (`MCQuick`): how a request is
shaped depends on the profile it was given and not on when.

`stream`: blocks are what models have been seen to write, each also cut off and in
any pair; the long scripts have several calls, made-up results and talk between
them.  A frame holds up to `MaxPiece = 3` tokens, so a fence, its word and its object
arrive together and in every split.  `MaxTroubles = 1`: a reply cut at its length, an
error frame or a client that leaves; a broken connection may end any reply.

### Fairness

`PoolHealing`: time passes and a renewal returns (weak fairness, HTTP calls have
timeouts); the scheduler's loop visits each account again and again (strong
fairness, because it is busy with others in between).  Penalties, operators and
other callers are not fair.  `Credentials`: a renewal under way and the verdict after
it go on (weak fairness, calls have timeouts), the scheduler validates again and
again (weak fairness), and its `TakeLock` is strongly fair: others may take the lock
in between, but a Go mutex does not starve a waiter.  Logins, reloads and upstream's
troubles are not fair.  `DailyCare`: the pass goes on and a journey ends (weak
fairness); which call fails is free.  `RequestServing`: each request runs in its own
goroutine and blocks only in calls with a deadline, so its next step happens (weak
fairness of `Step`, in the instance of `Smooth`: an upstream error is never forced to
happen).  `AccountLogin`: time passes, handlers return (upstream calls have timeouts), and an
operator who is refused tries again (strong fairness of `TryStart`, since the handler
may be busy in between): the guard notices a timed-out login only when asked.
`SessionRouting`, `RequestIntake` and `ReplyStream` state safety only.

`CHECK_DEADLOCK FALSE` is set where the system really stops: all requests and replies
end (`serving`, `stream`, `stream_wrapped_calls`); in `credentials` an account that left the
pool, and in `intake` a table that does not parse, leave nothing to do once the bounded
time, saves and restarts are used up.

### Refinement

`RequestServing!SlotsPromised` is `SlotContract!Promised` under the mapping of a request's
program counter to its role (`away`, `queued`, `holding`, `lent`) and of `doubled` to
`strays`; the counter `active` has no counterpart.  The contract: a slot is granted only
while fewer chats run on the account than its limit and its strays together, nobody is
turned away below the limit, and only a request that gives up while its slot is lent can
add a stray, at the cost of a slot that another request holds.

`ReplyStream!Promised` is `ReplyContract!Contract` under the mapping of `got`, `phase` and
`reason` to what the client has read, and `fenced` to "the channel writes calls as text,
none is left open and no result is made up".  The contract: what a client has only grows,
a stream ends once, no text follows a call in a fenced reply, and the reason is
`tool_calls` exactly when there is one.

## Proofs

TLAPS proves, for every set of accounts, callers, models, requests and documents
and for all durations and limits allowed by the named assumptions
(`DurationsAssumption`, `AccountsAssumption`, `ServingAssumption`,
`LoginGuardAssumption`, `LoginAssumption`, `CredentialAssumption`,
`IntakeAssumption`, `CareAssumption`, `SessionAssumption`, `ReplyAssumption`):

* `RequestServingProofs!PickIsRight`: `PickForModel` never returns a tried or
  unhealthy account, takes one cooled on the model only if all are, and gives up
  only if none is left.
* `AccountPoolProofs!TypeCorrect`, `StickyStaysDisabled`: the second is inductive
  once it also speaks of the state file and of a login's snapshot, because a restart
  and the login's write copy them into memory and onto the disk.
* `AccountPoolProofs!BlockLiftedByHand`: uses the invariant above; without the link
  between the flags the last section of `Validate` would lift a ban.
* `AccountPoolProofs!FileNeverRosier`: for any mixture of operations, logins, crashes and failed
  saves, the file is at least as strict as memory, except while it is owed a save.  The invariant
  says that each entry `Covers` the record in memory, and that a login's image does until someone
  saves (`ImageCovers`); a save that reaches the disk re-establishes it, one that fails says so
  in `owed`, changes that are not saved only forgive (`Forgiven`).  Without the exception it
  is false: a failed save and a login's late write (first violation above) both lose a ban
  if the process dies before the next save.
* `RequestServingProofs!ServingTypes`, `SlotsAccounted`, `SlotsNeverLeak`,
  `OverCommitExplained`, `SlotsKept`, `RoundsAdvance`.  For the slots the inductive invariant is, per account,
  `active <= holders <= active + doubled`: taking and giving back a slot move both
  sides, a double release moves the counter and the history variable.  `SlotsKept` is the
  refinement, step by step: `CounterIsRight` turns a counter below the limit into the room
  the contract asks for and a counter at the limit into an account that is full.
* `AccountLoginProofs!LoginTypes`, `StartsInOrder`, `CapKept`: the guard's list is in order
  and never longer than the cap and the starts that passed the gate together.  Both need
  what aging keeps of a list (`WindowKept`): its stamps stay within the window and in order,
  and its length does not grow.
* `AccountLoginProofs!StormIsCounted`: inductive with "every start since the last
  success is counted as a failure or is the open one"; each transition of the guard
  has a lemma saying that it loses no start or begins the pause.
* `AccountLoginProofs!PauseKept`: the starts recorded during a pause and those still
  past the gate are together at most the handlers; it needs that a start is only let
  in when no pause runs, hence when no start is late.
* `CredentialsProofs`: `CredentialTypes`, `RenewalsExclude`, `TokensUsedOnce`,
  `FileKeepsUp`, `OnlyExpiredDies`.  The inductive invariant has two layers.  `Base`
  holds whatever happens: types, the counters of objects and logins, `refreshMu` held
  by the one caller that renews (`Locked`), and every credential from a known login
  (`Granted`).  `Calm` holds until a mishap: the caller that renews works on the object
  the account points at, upstream is at most the one answer ahead that is on its way
  (`Fresh`, `Rotated`), and the file holds that object or the login about to be added,
  except while it is being written.  "Used once" and "the file follows" are read off `Calm`; "only what
  expired dies" needs `Base` alone.
* `RequestIntakeProofs`: `IntakeTypeCorrect`, `RoutesAlwaysSurvive`, `BlockedNeverServed`.
  `Alone` says how far the file, the temporary file and the table have come at each step
  of a save that has no other beside it; `Guarded` says that a request whose model was
  blocked all the while is still waiting at the check and that every save under way keeps
  the model blocked.  The second holds for overlapping saves too.
* `RequestIntakeProofs!ThreadAlwaysKept`: for conversations of any length, any profiles and
  any limits.  The invariant `Carried` says that a request carries what it was parsed into
  and that what is sent was made of that, which no step of an operator or another client
  disturbs.  The rest is one lemma per stage: what each parser returns is a list of messages
  (`ChatTyped`, `ResponsesTyped`, `AnthropicTyped`), and each stage from the pipeline to the
  transcript keeps calls in front of their results and what is asked
  (`AggressiveIs`, `SanitizeIs`, `PipelineIs`, `UpstreamIs`).  The core of it is `TailExtended`: however
  far back the tail is moved, it ends where none of its results has a call in front of it,
  for any cycle of calls and results.  The folds the stages are made of are unrolled by
  induction over positions (`UpTo`, `FoldExists`, `FoldIn`, `FlattenIs`), with the well-foundedness of the
  numbers taken from the library.  Two things about the form: filters are written with `Keep`, a fold
  over positions, because the provers know nothing of `SelectSeq`; and a text is proved to be
  over `Word`, the strings and the marks the code writes, because the provers do not
  take a literal for a string.  `IntakeAssumption` asks that a conversation is a
  nonempty sequence of turns.  The proof corrected the property: a call id that occurs in a
  history both behind and in front of a result of its own may lose the pair when
  the tail is cut, so the property asks that every result of the id is answered.
* `RequestIntakeProofs!SameListInEveryProtocol`: each parser is followed turn by turn and
  compared with `Canonical`, which is written from the conversation and knows no wire form.  What the
  parts of a turn become is the same in each protocol, though they check the limit on
  pictures and the picture itself in a different order (`PartsSay`).  In chat a turn is messages of its own
  (`ChatTold`).  In the responses protocol calls join the assistant's message in front of them
  (`CallsJoin`), and the invariant over turns is `Grown`: what has been read is what has been told, and
  it ends in the assistant only after a turn of the assistant (`ResponsesTold`).  In the messages protocol
  one message may hold results and what the user says after them; the invariant `Tied` over the wire messages
  says what they will be read as, and `Ends` which turn may still join the last one
  (`AnthropicTold`).  The property asks for conversations that the protocol
  `Carries`.  Chat carries every turn but a developer's, whose role it keeps while the responses protocol reads it as the
  system's.  Outside chat the system speaks at the start only: later the responses protocol
  refuses it, and the messages protocol refuses its plain string and takes its blocks for the assistant's.
  The responses protocol has no pictures in a result, no result without a call's id and no empty turn,
  and a turn of nothing but calls right behind another of the assistant's becomes part of it
  there, and only there.  `CarriedIsAccepted` is the other half: nothing a protocol carries is refused by its
  parser for a role, an item or a call's name.
* `RequestIntakeProofs!ImagesAlwaysAccountedFor` counts the pictures from the client to upstream.
  A message carries a number: its pictures and the marks that stand for one. Parsed, the numbers add up
  to the pictures of the conversation (`ParsedPictures`, from the comparison above and
  `CanonicalWeighs`).  Projecting and sanitising leave them alone
  (`CutsMedia`, `CleansMedia`), and rendering turns each into a picture passed on or a mark in the
  text (`MediaFound`, `PipelineFound`).  A transcript drops pictures, so there it has to be shown
  that none was left (`NotPassedOn`, `Bared`), and splits off the instructions, so the sum has
  to be split too (`KeepFound`, `TranscribeFound`, `FullPromptFound`).  Sums are folds; `SumsExist` unrolls them.
  The proof asked for two things TLC's instance had not shown.  A client may write
  such a mark itself, so the sum is at least the number of pictures, and exactly that where
  no turn says one (`Unmarked`).  And a transcript profile must not ask for passthrough, which is what
  `UpstreamProfile.Validate` refuses to register and `IntakeAssumption` states.  Pictures
  that the protocol has no place for (not `Carries`) never arrive, so they are not counted.
* `DailyCareProofs`: `CareTypeCorrect`, `StampLeavesNobodyOut`, `TrialTriedOnce`.  `Stamped` says
  that a stage stamped with today has `Handled` each account of its channel: served it,
  failed at it, or the account came later and `InitAccount` did its work.  It needs
  `Running`, the same of the accounts the stage has behind it, and `Dated`: nothing is
  stamped with a day to come, so midnight makes both hold of nothing.
* `SessionRoutingProofs!SessionTypes`, the limit of the index included.  The limit needs
  that the eviction order lists every entry (`IndexInv`): otherwise an eviction
  could find nothing to drop.  The types of a turn need that a turn at upstream has an
  account and a chat (`Placed`).
* `SessionRoutingProofs`: `ChatsContinuedOnce` for any accounts: registering a list drops what
  the chat had before.  `EntriesTrue` and `TailsComplete` for one account, which is when they
  are true (second violation above), and any conversations, lists, chats and index size;
  clients that name a chat add at most one instruction between two turns (`OneAsk`), as the
  tail of a named chat starts at the last one.
  The inductive invariant joins `EntriesRemembered` with `Heard`: whatever a turn on its way
  leaves out of its prompt has been told in its chat, and what it has sent is told; and with
  `Known`: the chat a client names has been told what the list held when it was answered.
  The lemmas `TailCovers`, `GrownCovers` and `EditedCovers` are about the two anchors: every
  instruction before the tail belongs to the list the entry, or the named chat, stands for.
* `ReplyStreamProofs`: `StreamIsWellFormed`, the refinement `PromiseKept` and `OrderAlwaysKept`, for
  replies of any length in any frames.  `StreamInv` says that the writer and its client stay `InStep` (same
  block, same end), that the writer is done while the reply runs only after an error frame
  (`DoneIsError`), that the calls of a native reply and those the client has go together
  (`NativeAgrees`), and that the filter agrees with what has been said (`Held`): it holds
  back the end of that, in a call exactly what follows an opening mark, and it shows no text
  once it has found a call.  So a filter that still holds a call's body at the end has met a
  fence that nothing closes.  The parsers are folds of a round over the tokens (`Round`, `Parsed`);
  `ParsedIs` shows that each round takes a token or is the last, so no round is missing.
  A client is followed event by event (`ReadAll`) and only then item by item (`ShowAll`).
  The order of native calls and text needs one more invariant, `NativeOrder`: the reply divides
  at its first call, the text that waits (`deferred`) is exactly what came behind that, and
  what the client has is what came before it, until `FlushTools` joins the parts.
  `NothingIsHeldBack` rests on `TextWhole`: as long as no call has been found, the filter
  keeps exactly the end of what has been said that the client has not been shown (`Kept`),
  an open fence with its body included.  Each round shows what it stops keeping
  (`Conserved`, `ScanConserves`, `TryCloseConserves`), so `Feed` and `Close` do too
  (`FeedConserves`, `CloseFilterConserves`); blanks are left out of the comparison
  (`Unspaced`), because a fence mark swallows those around its word.

Only model-checked: liveness (`PoolHeals`, `RenewableHeals`, `RewardsCollected`, `PetsTended`,
`EveryRequestAnswered`, `ChannelReopens`), which is beyond this prover; and, of the reply,
`SameAsWhole`, which compares the filter with the parser of a whole reply (where `Wrapped` does not hold,
see the findings) and needs an
invariant that relates what is shown and what is held back to what that parser would find so far;
that proof has not been written.
`SlotsKept` and `RoundsAdvance` are proved of
`RequestServing` itself, the runs add a budget of disturbances to it.

## Findings

Besides the three violated runs, modelling met these places where the code does not
do what a document or comment says, or where the model has to leave room for it.  A
property that would fail on one of them is weakened by name instead
(`strays` in `SlotsPromised`, `owed`, `overlapped`, `mishap`, `LeftOpen`, `Wrapped`, `Interlude`, ...).
Three of those weakenings leave a hazard without a property, and `PROJECT.json` says so: nothing can be
promised of a crash between the rotation of a token and its write (`mishap`), of the length of
the session index's `order`, which nothing bounds, or of two overlapping saves of the table.

Pool and requests:

* `openStream` lends its slot while it backs off.  If it cannot get it back in time it
  returns an error, and `serveWithAccounts` releases a slot on every error
  (`handler.go:573`, `680-687`): somebody else's.  Three requests then exceed
  `maxConcurrent` (`pool.go:64`).  `SlotsPromised` says that nothing else does.
* `saveState` drops every error (`pool.go:1188-1192`): after a failed write the file is rosier than memory
  until the next save, and nothing tells the operator.  `RestartForgetsNothing` names it (`owed`).
* The session index appends to `order` at every registration and takes keys out at evictions only
  (`session.go:154-171`): keys of entries replaced since stay in it.
* A stream that fails while its last frames are written is not reported to the session
  index (`stream.go:188-211`); if the user edits the failed message, the turn continues
  a chat that has heard the withdrawn version, against `README.md:88`.
* An explicit conversation id goes on continuing when the projection forces full
  prompts for implicit ones.  Its account is known only after the first explicit turn and
  forgotten by a restart (`handler.go:75`), when the tail may go to another account; and its
  tail starts at the last message of the user (`handler.go:788-798`), so of two added
  between turns the first is never sent.  `h.chats` is saved and loaded (`handler.go:1011-1031`)
  but read by nothing.
* `Validate` disables an account after a renewal that failed in passing (`pool.go:617`)
  although `pool.go:1086` says it stays usable; `RenewableHeals` says it comes back.
* `SyncToDir` does not lift sticky blocks, also when the file is a new login.

Credentials and daily care:

* `applyAuthCreds` (`pool.go:1108-1118`) overwrites the expiry with nothing when Tencent
  leaves out `expiresIn`, though `tencent_client.go` says it is kept: the token then counts
  as never ending.  An answer of the ticket channel with nothing in it blanks the token.
* A panel login, a reload and the command-line tools do not take `refreshMu`: a renewal
  under way overwrites a login's file, and `cmd/apply` beside a running server spends a
  token the server will present again.
* A verdict about the old credential may reach an account that has just been logged in
  anew (`DeadIsExpired` allows for it).
* `claimDaily` stamps the day whether or not accounts failed (`scheduler.go:224`), so "the
  next tick retries" in `tencent_report.go` does not happen before the next day; an account
  that joins by a reload has no daily action until then, and an `InitAccount` lost to a
  crash is never made up for.  An international account's trial is tried at its login only.

Routes and requests:

* An explicit `X-Provider` is taken without a look at the blocked models
  (`server/routes.go:44-48`), though `README.md:183-184` and `adapt/routes.go:76` say they are
  refused.  A provider in the request's body, which `handler.go:463-468` mentions, is never read.
* Two saves of the table share one temporary file; a torn table keeps the server from
  starting.
* The three protocols differ in whom they listen to.  Chat passes on any role, `developer` too; the responses
  protocol reads `developer` as `system` and refuses `system` (`adapter.go:401-408`); the messages protocol
  refuses a plain string of any other role, but reads blocks of any other role as the
  assistant's (`adapter.go:129-138`, `168-215`), so that a later system turn puts words in its mouth.
  `Carries` says which conversations are the same in all of them.
* A route to a family that is not registered is served by the profile compiled in as
  `codearts`, also when a profiles directory overrides that one (`server/routes.go:52`).
* The sanitiser breaks up "Claude Code" before the step that looks for its introduction,
  which therefore finds only the other tool's.
* `OMNIGATE_MEDIA=passthrough` on a transcript profile loses pictures without a mark.
* The aggressive projection drops the whole tail when its last message alone is too
  long, and a message of the user that holds an injected block as a whole.
* Generation parameters the gateway does not list are ignored, though `request.go` says
  all others are refused.
* A list of native roles that ends without a message of the user gets no announcement
  of its tools.

Replies:

* `unwrapQAContent` takes the first and the last line from any reply of three lines or more that begins with a
  fence mark and ends in a line of one, whatever the fence was (`sse.go:441-459`).  For the fence of a single call
  that does no harm, as its object is then found bare.  A code block loses its fence, and of
  several calls the first and the last lose a mark (third violation above).  A streamed reply is not
  unwrapped, so `SameAsWhole` leaves such replies out (`Wrapped`).
* Without tools in the request a whole reply is not searched for calls (`handler.go:730`), while a stream
  of a fence channel still is (`stream.go:110`), and ends in `tool_calls` if one is found.
* `Close` shows a fence that was never closed as text: `tryCloseTool(true)` returns at once when
  no mark closes the buffer (`streamfilter.go:192-195`).  The comments at `streamfilter.go:18` and `156` say it is
  treated as closed.
* A blank between a closing fence and the `tool_call` behind it, when the two come in
  different pieces, makes the filter close where the whole-reply parser opens the next
  call (`Regular` excludes it).  A made-up result line is cut out as soon as what has come
  of it ends in a bracket, and a reply ending right behind a fence's `tool_call` loses both.
* When an opening mark ends a body that is not a call, the mark is taken for the closing one
  and its word is dropped (`streamfilter.go:224-238`, `pending = toolBuf[after:]`), so a call
  written behind it is shown as text without its opening (`Muddled` excludes it).  Proving
  the refinement found this and that a made-up result line that is cut out may take a
  closing fence with it.
* When nothing stands in front of the first call line, a whole reply has the talk before
  a later call line as its text (`fence.go:24-27` keeps the first text that is not empty; its
  comment, `fence.go:13-14`, keeps only what precedes the first line), while the stream leaves
  it out (`Interlude` names it).  Trying to prove `SameAsWhole` found this and the next one;
  both need replies longer than two blocks, and `Lined` in `MCReplyStream` now holds them.
* A second `]` behind a call line is taken with the line (`fence.go:308`), but when it comes in
  a piece of its own the filter has taken the call already; the `]` left over then stands in
  front of a call on the same line, which is not recognised (`Doubled` names it).
* The chat writer goes on writing after an error frame (`StreamWellFormed` excepts it).
* The Anthropic writer drops text that follows a call.
* A client that leaves does not stop the reading of upstream's reply.

## Not modelled

* Signing, DPoP, device identity, headers and transport: cryptography and formatting.
* Model catalogue and benefit list: a cache with a time to live in front of listings
  only the panel and `/v1/models` show; no request is routed by it.
* Usage ledger and window observation: counters for the panel that no decision reads;
  each is one critical section, and a crash may lose the last seconds, as documented.
* Of the account pool: quota numbers, keepalive stamps and the transient counters
  that feed displays.
* Of the stream: the usage chunk, upstream snapshots that shrink, the 64K limit of a
  line, structured question answers, a wrapper with several calls, calls whose indices
  come out of order, and the bodies of answers that are not streamed.
* Of requests: tool definitions and `tool_choice`, schema shrinking, the wording of
  summaries, and the fetch of a picture (its address checks, limits and types), whose
  outcome is a free choice.
* Of explicit conversation ids: ids a client makes up, and the `chats` file, which nothing
  reads (its unlocked save is listed among the hazards).
* Settings and process start, apart from the boot of registry and route table; the
  dialogue of the command-line logins with the portal; the diagnostic tools, which only
  read.
* Upstream's calls other than the token's appear as free choices of outcome in the module
  that makes them.

## Plan

Done: the pool, request serving, continuation, the login guard, credentials, daily care,
routes with request shaping, and the reply stream with its contract.  What is left, in
the order of its worth:

1. "One unfinished authorisation per channel" (`loginguard.go:135`), which overlapping
   starts and failed polls of the device flow break.
2. The usage ledger beside the settlement of `RequestServing`.
