# A specification of flowproof

flowproof records what an application, an API or an AI agent does, and replays
the recording as a test. This directory specifies the parts of it where the
order of steps, a failure between two of them, or another process matters. TLC
checks the specifications on small instances and the TLA+ proof system proves
the central properties for all. Paths below are relative to `crates/`; `lib.rs`
alone is `flowproof-cli/src/lib.rs`.

## The system

| component | state it keeps | operations | hard because of |
|---|---|---|---|
| suite checkpoint (`flowproof-cli/src/suite_journal.rs`, `suite_checkpoint.rs`, `suite_inputs.rs`) | the journal file, its lock and temporary file, the pinned inputs, a copy of the journal in memory | open, claim a stage, confirm it, restore exports, verify inputs | crashes between the write to the target system and the file, power loss, two invocations, stale locks, edited inputs |
| suite runner (`lib.rs`, `suite.rs`) | the reports so far, the environment variables, a values overlay per flow, the retries | select, gate, seed, replay with retries, clean up, export, exit code | a dozen early continues, each of which must leave the reports and the environment right |
| model proxy (`flowproof-adapters/src/agent_proxy.rs`, `flowproof-trace/src/cassette.rs`) | a log, the captured turns, two counters, the consumed turns | accept, serve from the cassette or forward, capture, quiesce, stop | its thread runs beside the runner that reads its state piece by piece |
| agent runner and agent flows (`flowproof-adapters/src/agent_runner.rs`, `flowproof-cli/src/agent_flow.rs`) | a child process or a service, the delivery windows, a snapshot of the log | drive the deliveries, wait for each to settle, judge, mint a trace, replay it | an agent that is a black box: concurrent calls, calls nobody waits for, hangs, early exits |
| MCP stand-ins (`flowproof-adapters/src/mcp_core.rs`, `mcp_stdio.rs`, `mcp_http.rs`) | the captured or the recorded lane, an out file, the served lines, the real server | forward or serve, record, persist, shut down | two threads and one file, an agent that kills its stand-in, answers in any order |
| step replay, the loop (`flowproof-replay/src/lib.rs`) | the position in the trace, verdicts of guards, captures, the active surface | read blocks and loops, run, capture, report, export | blocks in loops, an application that changes by itself |
| step replay, one step (`flowproof-replay/src/lib.rs`, `flowproof-adapters/src/web.rs`) | what is known of the target, deadlines, the armed dialog, the claimed downloads | wait, resolve, gate, act, assert, account for dialogs | a page that changes between any two calls, calls that are lost before or after they arrive |
| recorder (`flowproof-agent/src/recorder.rs`) | the queue of steps, what was performed, what is kept of it, earlier steps on offer | expand blocks, reuse, author, perform, ask again, prune | a model in the loop, a page that refuses what it is given |
| record command and repair (`lib.rs`, `flowproof-agent/src/repair.rs`) | the flow file, the trace, the checkpoint, the attempts left | record, diagnose, patch, rerun, try afresh, leave a checkpoint | a target that has already been changed, a file that is rewritten on the way |
| healing (`flowproof-agent/src/heal.rs`) | a proposal beside a trace | promote a fallback selector, propose, apply | a proposal that is older than the trace |
| run records (`flowproof-replay/src/runrecord.rs`, `lib.rs`) | a directory of records, their order, a latest one | write, prune, compare, audit | concurrent runs, ids minted from the clock |
| containment (`flowproof-adapters/src/egress*.rs`, `fs_observe.rs`) | the allow-set, the log of attempts, filters and audit policy | decide, observe, install, restore | another process's memory, restoring after a crash |
| desktop, Fiori, SAP and vision adapters, drivers | handles of the platform | resolve, act, capture | mostly calls of the platform |
| trace data (`flowproof-trace/src/`) | trace lines, secrets, captures | substitute, redact, scan, compare | the order of transformations |
| command line, SDKs | configuration | parse, print, diagnose | little |

How they interact: the suite runner calls, flow by flow, either step replay or
an agent flow; under `--checkpoint` it asks the checkpoint before and after each
of them. An agent flow starts a proxy thread and an agent, which meet over HTTP
only; the runner sees the agent through the proxy's log and counters. The agent
spawns the stdio stand-in of each of its MCP servers itself, or talks to a
listener in flowproof's process. Recording produces the trace that replay reads;
a recording that fails may be repaired by patching the flow file. Flows of a suite share the process
environment: a flow's exports are the next one's values. Run records are written
at the end of a run and read by `audit`.

What would make each of them wrong is listed in `PROJECT.json` under `hazards`,
with the properties aimed at it.

## Modules

| module | what it is |
|---|---|
| `WorkflowOnce` | what a checkpoint promises: each flow runs at most once, in order, and only after the one before it passed |
| `SuiteJournal` | the checkpoint and the suite loop under it; refines `WorkflowOnce` |
| `SuiteRun` | the suite loop without a checkpoint |
| `ModelProxy` | the proxy thread and its cassette; actions only, composed by the next one |
| `AgentFlow` | the agent, the proxy and the runner: recording, minting, replaying |
| `McpBoundary` | the agent's tool calls, the real server, what is captured and how a call is matched; composed by the next ones |
| `McpStdio`, `McpHttp` | the two transports: a process of two threads and an out file; a listener with a lock and a GET stream |
| `McpRun` | a flow with one MCP server over either transport, recorded and replayed |
| `FlowRecording` | the recorder's expansion of a flow into a flat trace; actions only, composed by the next one |
| `StepReplay` | the replay engine's loop over a recorded trace |
| `FlowMeaning` | a reading of flow files and an interpreter of them, with which replay is compared |
| `WebDriver` | what replay asks of a browser: readings, dialogs, downloads |
| `WebInputs` | what an input becomes in the browser: programmes of calls that are retried or not |
| `StepExecution` | how replay carries out one step after another, over the two before |
| `Authoring` | one recording of a flow whose steps are authored while it runs |
| `RecordCommand` | the record command around it: repairs, the fresh attempt, checkpoints, later commands |
| `...Proofs` | the theorems about the module of that name |
| `MC...` | instances for TLC |

`map` in `PROJECT.json` gives the lines of the code behind every definition.

### SuiteJournal

Processes (`Proc`) are invocations of `flowproof run <dir> --checkpoint <path>`
with or without `--resume` and `--stop-after`. A process walks through the code
in the order of its effects on the file system: `TakeLock` (create_new of
`<path>.lock`), `OpenResume` or `OpenFresh`, then per stage `ReachBoundary`,
`VerifyStage`, `Claim`, `Operate`, and `Pass`, `Refused` or `NotPassed`; a save is
the three steps `SaveWrite` (temporary file), `SaveRename`, `SaveSync` (the
directory), each of which may fail. `Finish` and every error drop the journal and
with it the lock. `images` and `lockImages` are what a power loss may leave of the
two directory entries: everything since the last sync of the directory. `Crash`
kills a process and leaves its lock and temporary file; `PowerLoss` picks an image;
`RemoveLock` is the operator who follows the documentation and removes the lock
of a process that has stopped; `EditInputs` changes the pinned files at any
moment. Process ids are reused, so a left-over `<path>.<pid>.tmp` makes a
later save fail, as `create_new` does.

The fingerprint is one value for all pinned files. What a stage exports is one
abstract value. Loading errors (`Unloadable`), a vanished trace (`TraceGone`) and
reports other than a pass (`NotPassed`) are choices.

### SuiteRun

One run of `run_suite_with_author`, one action per stretch of the loop body up
to where the code can leave it: `Consider` (blocked), `Load`, `ApplyFile`,
`ApplyVar`, `Gate` (skip_unless_env), `FindTrace` (with the three missing-trace
policies), `Record`, `Seed`, `Replay` with its retries, `Cleanup`, `Settle` (the
bundle and the exports) and `Finish`. The process environment is followed
through one variable: `env` says who gave it its value, `overlay` what the flow's
overlay will restore. What a flow declares (dependencies, values, gates) is
chosen when the loop reaches it, so every combination is explored.

### ModelProxy and AgentFlow

`ModelProxy` has one action per step of the proxy thread that another thread can
tell apart: `Accept` marks the request in flight, `Start` bumps the activity
counter, then serving, capturing, counting, responding, `Unmark` and `Finish`.
`AgentFlow` runs it beside an agent and the runner. `wait_for_settle` and
`quiesce` read the counters and the log one at a time, and so do the actions
`ReadActivity` ... `ReadInFlightAgain` and `Calm` ... `CalmInFlight`. Time is
`Expire`: the deadline of whatever the runner waits for may pass at any moment. The
grace period of a quiet window is not a length of time but the fact that the
readings before and after it may differ.

The agent is external: per delivery it makes a chain of calls, each after the
answer to the one before, as long as the model answers with a tool call; it may
make one more on the side (naming its session, a retry of its own, a request the
proxy does not serve, or a silent connection), wait for its answer or not, and
exit at any time; the connections of a process close with it, those of a service when
it likes, if ever. When a recording is minted it is replayed, by the same agent
or by one that changed: another last request, or an unexpected call on the side.

Left out of these two: ports, dialects, streaming, the mocks of tool results,
egress and side-effect lanes and the assertions on a trajectory
(which may fail: `JudgeRecord` may always refuse). A failing accept, which ends
the proxy thread, is not modelled. A service driven with a plain prompt differs
from one delivery of a conversation only in that no window is checked.

### McpBoundary, McpStdio, McpHttp and McpRun

A script says which transport the agent uses, which of its calls are mocked, how
many of them it has under way, whether it waits for a notification, and whether
the server may send requests or fail. The agent is known to flowproof only by its
lines or POSTs: it asks, takes answers, and closes its side, exits, or kills its
stand-in at any moment.

`McpStdio` has the recorder's two threads: A reads the agent and forwards or
mocks, B reads the server and passes on; both persist the lane by `Snap`, `Open`,
`Put` and `Rename`, four steps of `write_out_atomic` that are open to the other
thread. An open file follows its rename, so what one thread writes may land in
the file another has published. `McpHttp` has a thread per POST, which takes the
lock, forwards or mocks, and answers, and the GET stream that passes on what the
server pushes before it counts its anchor. At replay both serve from the lane by
`Match`, up to the first divergence. `McpRun` is `McpContext`: it sets up one
transport, waits until the agent has gone (`DriveEnds`; a service it only prompts, and does
not wait for), reads the out file (or the listener's
captures, one after the other) while the stand-in may still run, and mints a
lane or judges the replay.

Assumed: JSON-RPC ids are unique; at most one notification and one request of the
server; an HTTP client closes its connection once answered; one stand-in per
server. What a stand-in writes to an agent that has closed its side may fail
(`BreakOff`): while recording that matters to the mocked answers of thread A only,
because thread B ignores its writes; at replay it ends the stand-in before it has
written its out file. A replayed answer and the notifications that follow it are
two writes (`Serve`, `Announce`) with a failure between them. Left out:
notifications of the agent, DELETE, batches, a second GET, sessions. The event
snapshot is taken together with that of the calls.

### FlowRecording, StepReplay and FlowMeaning

A flow is a tree (`Flows`): steps, `when:` blocks with a condition, `repeat:`
blocks with a condition and a bound, and, in a flow of several surfaces, `in:`
blocks at the top. `FlowRecording` is the loop of `record_steps`: an entry is
popped from the queue and, by its kind, `TakeBranch`, `SkipBranch`, `LeaveLoop`,
`TakePass`, `LoopNeverSettles` or `EnterSurface` puts the block's steps in front,
or `Perform` does the step and appends it to the trace with its guards, its loop
and its number. `Store` is the store-guard and the writing of the trace.
`StepReplay` loads the trace (`StartReplay`, which also chooses what `--from` and
`--until` select) and then takes one action per turn of the worklist in
`run_trace_selected`: `LeaveOut`, `MeetLoop` (the recorded passes of a loop make
way for a check whose body is the longest of them), `SettleLoop`, `ExhaustLoop`,
`RepeatLoop`, `DropLoop`, `SkipAfterFailure`. A step is two actions, `Approach`,
which activates its surface and reads its guards, and `RunStep` or `FailStep`,
because the page may change between them. `Report` is everything after the loop:
the scan, the exports, the verdict.

The application (`Apps`) is external: per surface one of a few states, what each
act does to it, in which states each condition holds, and the changes it makes by
itself (`Drift`, which may happen between any two actions). Replay starts the
application afresh, and it need not be the one that was recorded. A step whose
element is missing, or whose check does not hold, is one that `app.acts` maps to
`Stuck`; that it waits for some time first shows in `Drift` happening before it.
A driver may fail at any moment (`Break`, `BreakRecording`).

`FlowMeaning` says what the flow file means without traces, guards and verdicts.
The interpreter has a list of what is still to do, from which it takes one step or
block at a time (`Advance`: `Do` a step, `Open` a block), a loop coming back
behind its steps; `Meaning` is what it has done when it is over. `Reading` takes
the same file from its first line to its last, entering every block once; its
places are how the steps of a flow are told apart (`StepPlaces`). Both are
functions over at most `Limit` places, which `LimitAssumption` says are enough for
the flows and applications of an instance; the number is the model's and not the
program's, whose flow files are finite and whose loops are bounded. `MeansTheFlow`
compares: on any application that does not move by itself, what a whole replay has
done is a prefix of what the interpreter does, a pass means that it is all of it,
and replay gives up where the interpreter does. It holds for the flows whose trace
tells every step (`TellsAll`): a branch not taken while recording leaves nothing
to replay, as the documentation says, and neither does one that was taken only in
a pass that is not the longest. A loop in a loop and a comparison, which replay
cannot decide again, are left out of it (`Nested`), and no flow of the instance
has one of the two cases the sources are known to treat otherwise, a loop inside a
`when:` block and a loop that opens an `in:` block; see below.

Left out here: agent blocks inside `in:` and the hand-over to healing.

### WebDriver, WebInputs and StepExecution

`StepExecution` is `execute_step` for a flow of one or a few steps. One tick of
its clock is a poll. A step waits for its target (`WaitForElement`), finds it on
the selector ladder a rung a call (`ResolveTarget`), waits until it can be acted
on (`WaitActionable`, with the shorter patience for what is covered), arms its
dialog (`Prepare`), sends its calls (`CallArrives`, `CallFails`), and verifies the
dialog (`Confirm`); or it awaits a download; or it asks the page again and again
(`SettleScene`, `AskSurface`, `AskFrame`, `AskRung`, `ReadElement`, `SeeElement`);
or it sends a request out of band (`SendProbe`, `ProbeAnswers`). `Account` is the
safety net for dialogs nobody declared.

`WebInputs` writes down what each input becomes in `web.rs`: blocks of calls, each
block retried from its start or not at all when a call of it is lost. A call that
is lost may have arrived. `WebDriver` has the readings, the dialog state that the
browser's event thread changes while a step is under way, and the downloads that
land whenever they are done. The page (`Pages`) may take any other state its kind
of step can tell apart between any two calls.

Readings are grouped by what they wait for and how they fail: `text`, `title`,
`element`, `attribute` (a value) and `style` settle the page first, because their
expectation is a text; `state` (checked, enabled, an attribute that is there) and
`computed` (against a captured number) do not. An unknown captured number breaks the
run, an unresolved reference fails the step.

Left out: the native single select, `check_visual`, keyboard shortcuts with
modifiers, the other drivers. Values are one field's text, as a sequence of
characters, and one expectation that holds or not.

### Authoring and RecordCommand

`Authoring` is one call of the recorder. A step is reused from earlier steps
(`Reuse`, by `ReuseCursor`), read by the rules, or authored by a model that may
answer anything that names elements of the page (`replies`). A model's plan runs in
a closed loop: an action is refused because its target is missing, the form on the
page shows a rejected value, or something would take the click
(`RefuseMissing`, `RefuseRejected`, `RefuseOccluded`); the first refusal for a reason
asks the model for the rest of the step (`Replan`), the second fails. `Closed` is
`keep_passed` with the pruning of writes the page rejected. The page is a form and
a button: what it shows is what was written last, a press reads all of it, and
what any action finds is noted (`seen`), so that a kept trace can be compared with
the recording it comes from.

`RecordCommand` is `cmd_record`: `Start` (plain, `--resume`, `--reuse`), `Store`,
`Finish`, and after a failure `ReportFailure`, `PatchAndRerun`, `RetryFresh`,
`GiveUp`, `PatchInVain` and `BreakOff`. The user may edit the file between two
commands (`Edit`). A file's entry is a step or a `foreach:` that stands for several.

Assumed: whether an element is there depends only on the screen; values of other
fields do not change what is shown; selectors by position are never pruned (as the
code has it). `ReuseInOrder` speaks of earlier steps no two of which in a row read
alike (`StepsReadApart`): two that do are one group to the cursor.

## What is checked

| run | instance | shows |
|---|---|---|
| `suite_journal` | 3 flows, 2 process ids, 2 exported values, 2 contents of the inputs, symmetry over all three sets | the safety of the checkpoint and that it implements `WorkflowOnce` |
| `suite_journal_pass` | the same, violated | see the findings |
| `suite_run` | 3 flows, at most 1 retry, every policy | the suite loop without a checkpoint, and that it ends |
| `agent_flow` | plain processes of up to 2 calls, a scripted and an interactive conversation of 3, a service of 3; a call on the side of a process, of a short conversation and of the service; processes and a service that may keep a silent connection open | what is recorded, how turns are attributed, what replay decides, that both end unless a service keeps such a connection for ever |
| `step_flow` | 7 flows, 6 applications with 4 states, loops of up to 3 passes, every selection | replay does what the flow says; blocks, reports, exports, failures; that it ends |
| `guarded_loop` | a loop inside a `when:` block, violated | see the findings |
| `step_execution` | a flow for each kind of step, an input and checks inside a container, and pairs where one leaves a dialog or a download to the next; 2 selectors, texts of 2 characters, 2 retries, a budget of 2 polls within a patience of 3, 1 quiet or 2 busy rounds | nothing is done twice but what is retried, what passed took, a failure is about the application, dialogs and downloads are accounted for, every flow ends |
| `record_command` | 4 projects on a page of 2 fields and 3 screens, one of the fields named by a CSS selector; 4 actions a step, 3 second looks, 2 attempts | what is kept reproduces what was recorded, reuse goes in order, the trace is that of the file, every command ends |
| `repair_edit` | a step behind a `foreach:`, violated | see the findings |
| `mcp_stand_in` | 6 agents of up to 3 calls, at most 2 under way, over both transports, and a service over HTTP that may still call when its drive is over | what was answered is kept, the same agent passes, a pass is the recording, every call of a replay is answered |
| `mcp_overlap` | a mocked call beside a real one, violated | see the findings |
| `mcp_out_file` | 2 calls one at a time, of a server that may notify after the last, violated | see the findings |

Why the bounds are enough: three stages give a stage with one before and one
after it, which is what every statement about order relates; a second process
is what the lock excludes, and since ids are reused two of them give any number
of invocations one after another; two values and two contents are what an
equality can tell apart. Three flows of a suite give a dependency of a
dependency. An agent of two calls in one delivery and one in the next separates
turns within a delivery from turns across them, and one call on the side is
one more than the runner expects. The seven flows have each kind of block
inside each that may hold it and replays correctly, a capture made in a block, in
a loop and after one, and an export that nothing makes; the six applications make
a loop settle before, in and after any number of passes within its bound or
never, with a branch taken in none, some or all of them, and three of them
may show the secret. A loop of three passes has a first, a last and one between.

Of one step: two selectors are a first choice and a fallback; two retries are
one that helps and one more that does not; a budget below the patience separates
what is waited for with either; two characters tell a text typed once from one
typed twice or in part. Replay's own numbers differ (`TRANSPORT_FAULT_RETRIES`
is 3, budgets are seconds). Of a recording: `MaxReplans` is the code's 3;
`MaxActions` is 4 for the code's 60, enough for a write, its correction and a
press in one step, with one to spare; two attempts make a repair that fails and
one that may help; two values that the page refuses are what tells a repeated
refusal from a new one. Of the stand-ins: two calls under way are what an order
of answers needs, the third is one that comes after both.

That the instance reaches what the properties speak of shows in TLC's coverage
(every action, and every branch of it, is taken) and in the mutants: for each
property `PROJECT.json` names a plausible fault of the code with which the same
instance violates it.

Symmetry is used only for `suite_journal`, whose temporal property is a
refinement of an action formula without liveness.

**Fairness.** `suite_run` assumes that its loop keeps taking steps; a replay is
taken to return.
`agent_flow` assumes that flowproof's two threads run, that time passes and that
the model answers or fails; that a process which has ended has no connection open;
nothing else is assumed of the agent. That the model answers is
not something the code ensures: the upstream call has no timeout. Nor has the
reading of a request, so a service, which no one stops, may hold the proxy thread and
with it the end of the run by a connection on which it sends nothing. `RunEnds` says
so: a run ends, or the proxy is `Held` for ever. `step_flow`
assumes that the recorder and replay keep taking steps, which every wait in them,
having a timeout, lets them do; nothing is assumed of the page, which may change
for ever. `step_execution` assumes that replay keeps taking steps (`WF(Replay)`),
a call of the browser being answered or failing, for which it has a timeout, and a
request out of band being answered, for which it has none (`oob.rs:244` sets no
timeout: a service that never answers holds its step); neither the page nor the dialogs and downloads of the browser
need ever move. `record_command` assumes that the recorder moves, a model's
answer included, and that the command does what follows its end (`WF(Recorder)`,
`WF(Ends)`); the user and what covers the page do as they like. `mcp_stand_in`
assumes that flowproof's own threads run as long as the flow does
(`WF(Working /\ Transport)`); neither the agent nor the server is fair.

**Deadlock** is checked except in `step_flow`, `guarded_loop`, `step_execution`, `record_command` and
`repair_edit`, where a finished run has nothing left to do, or a user may give no
further command; that they finish is `RunEnds`, `FlowEnds` and `CommandEnds`. Other
finished runs loop in place (`Over`, `Done`, `Ended`).

### Findings

1. *A checkpoint run can exit PASS with a pending stage* (`suite_journal_pass`). A
   trace that disappears during the run is reported skipped before the boundary
   check that would refuse it.
2. *A repair behind a `foreach:` edits another step* (`repair_edit`). The failing
   step is numbered in the expanded flow and patched by that number in the file.
3. *An answered tool call can be missing from the out file* (`mcp_overlap`). The
   two threads of the stdio stand-in persist the lane through one temporary file
   without a lock around it.
4. *An agent that leaves after its last answer may record and never replay*
   (`mcp_out_file`). Recording ignores what cannot be written to the agent; at replay
   a notification that is due after the last answer and finds the agent gone ends the
   stand-in with an error, before it writes the out file that says how far it served
   (`mcp_stdio.rs:205`, `218`, `568-570`).
5. *A `when:` block with a loop in it may not run to its end* (`guarded_loop`). Before
   each pass of a loop replay forgets the verdicts of all guards its steps carry,
   those of a block around the loop included
   (`flowproof-replay/src/lib.rs:3032-3036`). A block that removes what its condition
   saw and then loops is recorded, and fails its replay on the same application.

The models agree with the code, and not with the document or comment quoted, in
these places, which have no run of their own (`web.rs`, `agent_proxy.rs`,
`mcp_stdio.rs` and `mcp_http.rs` are in `flowproof-adapters/src/`, `recorder.rs` and
`repair.rs` in `flowproof-agent/src/`):

- Suites: a seed hook that fails does not abort the suite (`lib.rs:3190`), contrary
  to the comment on `run_hook` (`lib.rs:2763`).
- Agents: an upstream error does not always prevent a recording, because
  `require_progress` judges a copy of the log made before the calls in flight have
  finished (`agent_flow.rs:2258-2270`, against the comment at
  `agent_proxy.rs:42-43`). The read timeout spoken of at `agent_proxy.rs:135-136`
  is not set, so a silent client of a service holds up the end of the run (`Held`).
- Blocks: a loop inside a `when:` is checked whether or not its block runs
  (`flowproof-replay/src/lib.rs:3059-3095`). A loop that opens an `in:` block is
  checked on the surface before it. Replay re-runs the longest recorded pass of a
  loop, where `docs/trace-format.md` and the comment on `Work` say the first.
- Steps: a lost call on a locator inside a container reads as an absent element
  (`web.rs:2102-2124`, `2281-2289`), so a check that something is gone may pass on it
  (against `flowproof-replay/src/lib.rs:1276-1278`; `GoneWasRead` and
  `FailedOnEvidence` except such locators in so many words). Typing into a frame is retried
  without selecting the field's text again (`web.rs:4893-4900`, against the comment
  before it), so characters may be there twice.
  A choice of several options is read back by its number only (`web.rs:5213-5229`).
  A fault in the middle of a drag leaves the button held. `docs/comparison.md:54`
  says transient faults are retried once; the code retries three times.
- Recording: a step that needed a second look ends, once three are used up, on a
  reply that simply stops (`recorder.rs:3780`), against the comment before it, which
  has it end on `step_complete` only. Two equal steps in a row become one group to `ReuseCursor`, although
  the comment at `recorder.rs:1844` says one group per step. `PressKey` and
  `ClickAt` are not guarded by the check for rejected values. A setup error in the
  rerun of a repair counts as an engine gap (against `recorder.rs:177-179`). A leak
  found once gets a fresh attempt. The trace is written line by line, without a
  footer. A repair report that cannot be written leaves the checkpoint of an
  earlier attempt.
- MCP, stdio: `record_error` reaches the out file only in the write at the end of
  input, so a stand-in that is killed mints a lane although the server sent a
  request (`mcp_stdio.rs:384`, `524`; `agent_flow.rs:495`, against
  `docs/agent-testing/running-agent-flows.md`). At replay the out file is written
  at the end of input only: an agent that kills its stand-in records, and every
  replay of it fails. Events after the last answered call are lost with a kill. A
  server that dies leaves the calls sent to it unanswered. The agent's answer to a
  server's request is taken for a call. A second stand-in for one server overwrites
  the out file of the first.
- MCP, HTTP: the GET stream passes a frame on before it counts the frame's anchor
  (`mcp_http.rs:700-725`); what the server makes of a notification is dropped
  (`mcp_http.rs:370`); calls in flight when the captures are collected are lost, as
  nothing waits for them; posts made at once take the lock in any order, and the
  lock is held until the client has closed its connection. On both transports an
  answer that is an error is recorded with a null result.

## What is proved

Each proof is for every value of the constants under the named assumptions. In
each the property is not inductive as it stands; what strengthens it is said here.

`SuiteJournalProofs` (`NAssumption`: there is a flow; `NoneAssumption`: `None` is not
one of the others):

- type correctness, the inductive invariant `Consistent`, and the safety properties
  `LockExclusion`, `ClaimCoversOperation`, `JournalTruthful`, `UncertainStaysClaimed`,
  `ExportsRestored`, `SameInputsThroughout`, `PassMeansConfirmed`;
- `RunsOnceInOrder`: the specification implements `WorkflowOnce`.

That a claim on disk covers the operation about to start depends on what the
process holds in memory, on where it is in its save, and on what a power loss could
bring back. `Consistent` therefore says of every file a failure may leave (`images`
and the file itself) that it is sound with respect to the target system, of the
process behind the lock that its memory and its control point agree with the
files, of every other process that it holds nothing, and of the lock's own images
that none but the holder's remains. `HolderStep`, `AbortStep` and `QuietStep` are
the three ways in which actions preserve it (the holder moves on; it gives up;
nobody is behind the lock), and `ConsistentStep` goes through the actions with
them. `PassMeansConfirmed` needs besides that a process past a stage it did not
report otherwise has confirmed it (`Complete`). The refinement has two real cases,
`OperateRefines` and `PassRefines`; all other actions leave the target system alone.

`SuiteRunProofs` (`SuiteRunAssumption`): type correctness; no flow touches the
application before those it needs have passed (`Provided`: what was executed is
closed under the needs recorded when the loop reached it); a run that exits PASS
has no gap; a flow sees its own values over the latest export, and nothing of the
values of another (`Layered`: the environment is an overlay over the exports);
a flow that was attempted is cleaned up before the next (`CleanedUp`).

`AgentFlowProofs` (`AgentFlowAssumption`): type correctness; `SettledIsQuiet` (between
the two readings of each counter it can only have grown, `ReadingsHold`);
`QuiesceMissesNothing` (what was answered is captured, and what a request still
owes is in the proxy's hands while it is marked, `AnsweredIsCaptured` and
`OwedInHand`); `PassServesAll` (a request is in one place, each consumed turn was
served once, and the judge reads the log after the join: `OnePlace`, `Counted`,
`JudgedWhenJoined`).

`EveryTurnIsAttributed` (same module) is `TurnsAttributed`, for every flow and every
way of driving. A recording of an agent that makes its calls one after another has at
most one call in the proxy, the one the agent waits for (`Paced`); so turns are captured
in the order of its calls (`InTurn`), and the log counts them (`LogFollows`). A count
that is the end of a delivery (`Ends`), the place of its last turn, therefore divides the
turns of the deliveries up to it from those after it (`EndsDivide`), whatever is
captured later (`EndsStay`). What `wait_for_settle` counts from is the end of the delivery
before, so a count beyond it with no tool call pending is the end of its own (`Counts`):
the readings may be as old as they like. Of a service, the answer to the POST says the
same unless the model failed (`AtTheEnd`), and a run in which it failed, or a deadline
passed, is not minted (`Flawed`, `InTime`). Then every window ends where its delivery does
(`WindowsEnd`), and `Contiguous` windows stamp each turn with its delivery
(`StampedRight`).

`SameAgentReproduces` (same module) is `FaithfulReplays`, likewise for every plan and
every order of the steps. There is nothing to compare a replay with but the trace, and
a call is not served by its place but by its request, so the proof says which turn
belongs to which call. While recording, the turns captured can be given each to a call
of its own among those that have one (`Owners`, in `Recorded`; a retry has the same
request as the call it repeats, so the assignment need not be unique), and an agent that
waits leaves none out (`Traced`). In the replay the turns consumed are those
of the calls served so far (`Consumes`): a turn is left for every call
(`TurnLeft`), and if the proxy serves the earliest match instead of the call's own the
two exchange their turns (`OwnersSwapped`). So nothing diverges and nothing is
refused (`Heard`), and the agent goes through its plan (`Following`, `AtHand`). The
rest is the runner's: in a scripted conversation a delivery settles behind its last
answer, because until then either nothing was served since the delivery or a tool call
is pending (`ScriptedGoes`); a service answers its POST when every call for it was answered
(`ServiceGoes`); so the windows follow each other to the end of the log (`ChainLonger`,
`ChainCovers`). A process that ended, a POST that was answered, or a deadline that passed,
which is a mishap (`Timely`, `Left`), leave the run to be judged with every call answered
(`Ended`), and then every recorded turn is consumed (`AllConsumed`).

`McpRunProofs` (`McpAssumption`): type correctness; a passing replay gave the agent
the recorded lane, call by call (`ReplayKnown`: the lane served is a prefix of the
recorded one until a divergence, and what is read at the end is the final one).
Two theorems assume besides that no mocked call is under way beside another
(`OneWriter`: a stdio agent makes one call at a time, or none of its calls is
mocked); without it the two threads of the stand-in write one temporary file, and
the run `McpOverlap` shows what is lost. `AnswersAreKept`: what the agent was given
is in the out file, or will be once its pipes are read, `AnsweredIsKept` (a service
that calls on after its drive is excepted in the property: its lane is read while it
does). A call is
in one place (still with the agent, in a pipe, or captured, `OnePlace`), an answer
given or about to be given has been captured (`Owed`), hence the threads never write
together (`Solo`); then each write finds the file a beginning of what is captured, and
leaves it holding all that was given (`OutInOrder`, in `CallsKept`). `SameAgentReplays`:
an agent that makes the recorded calls again, and stays for their answers and for the
notification that comes with them, is served to the end whatever the order in which the
answers came when they were recorded, `SameAgentPasses`; one that leaves before the
notification need not be, as the run `mcp_out_file` shows. The lane is the
captures ordered by the anchor of each, and anchors are the places of the requests
(`Whole`): an ordering of distinct numbers 1..n puts each in its own place
(`EachInItsPlace`), so the lane is the agent's own order and replay keeps step with it
(`InStep`).

`StepReplayProofs` (`ExportsAssumption`: a flow's exports are finitely many;
`NodesAssumption`: `Nodes` has the steps and blocks that flows are made of, at any
depth; `SurfacesAssumption`: blocks that switch surfaces stand at the top level, and
there are no others in a flow of several; of applications nothing is assumed): type correctness; `FailedIsFinal` from the
invariant `Untroubled` (a step is about to run only while nothing has failed, and
there is no passing verdict before the report); `ExportsFromPassOnly` from
`HandedOver` (captures come from reported steps, so a complete export has a report
behind it).

`BlocksRunToTheirEnds` (same module) is `BlockRunsToItsEnd` under the hypothesis
`LoopsUnguarded`, always: no loop that replay repeats is under the guard of a `when:`
block. The run `guarded_loop` shows what happens without it. What a block relies on is
spread over the whole path of a flow, and so is the invariant `BlocksKnown`:

- `Recorded`, while recording and ever after: a guard belongs to the steps of one loop
  or to steps outside the loops (`GuardsKnown`; here the hypothesis is used), and
  (`Written`, without it) the steps of a loop stand together in the trace
  (`LoopsTogether`), because while a loop is open its steps are all that is in front of
  it in the queue (`OpenAt`);
- `WorkShape`: the worklist has at most one loop, steps of that loop before it and of
  others behind it (`LoopAlone`), and the rest in the order of the trace. That a loop's
  recorded passes all make way (`ShapeMeet`) needs the ranks that `Body` counts out to
  be numbered without a gap (`RanksFill`);
- `RunsKnown`: a guard of a step that ran holds, or whatever may still read it does so in
  a later pass (`Settled`); a loop has counted the passes its steps ran in
  (`PassesCounted`), so that dropping the verdicts before another pass (`RunsRepeat`)
  touches nothing of this one.

`BlocksNext` goes through the actions with a lemma each (`BlocksApproach`,
`BlocksRepeat`, `BlocksMeet`, `BlocksRun`, `BlocksStart`, `BlocksReport`, and
`BlocksQuiet` for those that only take an entry off the worklist).

`EveryStepIsReported` is `EveryStepReported` without a hypothesis. The idea is that a
step keeps its *slot* when it goes from the worklist to the report: the report
followed by the worklist (`Slots`, `Slot`) is at every moment an account of the trace,
`Plan`:

- a step has one slot for each pass (`Once`), the slots are in the order of the trace
  but for the passes of one loop (`InOrder`), and a step outside the loops has a slot
  (`AllPlanned`);
- the passes of a loop are numbered from 1 and each has the same steps
  (`PassesKnown`), those of the body if the loop is still in the worklist;
- nothing of a loop is told before the loop is met (`ToldKnown`), and a loop is
  selected as a whole (`SelectedWhole`): its steps share the number of the spec's loop
  (`NumbersKnown` in `Written`), which is what `--from` and `--until` go by.

Reporting a step moves no slot (`PlanPopped`), a loop that ends gives up the slot it
had (`PlanDropped`), a loop that repeats, or that holds at once, makes way for the steps
of its body in a pass that was not planned (`Spread`, `PlanSpread`), and a loop that is
met takes the place of all its recorded passes (`PlanMet`). The numbers rest on the
second conjunct of `SurfacesAssumption`: no `in` block stands inside another block
(`spec.rs` refuses it at 575-582, 1168-1173 and 1321-1327).

`FlowMeaningProofs` (`LimitAssumption` besides those of `StepReplayProofs`) has one
theorem, `ReplayMeansTheFlow`: `MeansTheFlow` for all flows, applications and
recordings, if the flow is one that replay can follow (`Plain`). `Plain` says that
every block has a step, that no two steps have the same name, which is how `TellsAll`
knows them, and that a loop stands neither in a `when:` block nor first in an `in:`
block: with a loop in the first replay and flow do part (`guarded_loop`), and one
that opens the second is checked on another surface (`lib.rs:2996`). All seven flows
of `step_flow` are `Plain`, so the theorem says all that the run checks.

Recorder, replay and interpreter are three readers of one flow, and each is tied to the
places of `Reading` on its own (what is said of readings alone, and of the worklist of
a whole run, closes `StepReplayProofs`):

- A line of the reading knows the `when:` blocks and the loop around it (`Laid`, for
  every line to come in `ReadAt`). A block that is entered ends, at a place where what
  stood behind it is to come (`End`, `EndFacts`), and what lies between is in it and
  nothing else is. The places of a loop, from its first step to where it comes back
  (`Return`), are those of one pass.
- The interpreter is at a place, in a pass of the loop there (`Comes`): what it has
  still to do is what the reading has still to come. Every move of it is a move from
  one place to the next, or to the end of a block, or from the end of a loop to its
  start.
- The recorder is at a place too (`Recording`): its queue is what is to come there
  (`Lined`), what it has written was of places before, or of earlier passes
  (`WrittenBefore`, `Looping`), and each entry carries one guard for each `when:` block it stands under
  and the number of its loop (`MarkSound`). Two entries have a number in common
  exactly when they stand in the same block, and, if it is a guard's, in the same pass
  (`MarksAgree`). So the stored trace is the flow, unrolled (`Unrolled`).
- If the trace tells every step, those of it that replay keeps are the steps of the
  flow, one each, in its order (`TellsTold`, `Told`): steps of one loop that are kept
  are of one pass (`KeptPass`), and but for different passes of a loop a trace is in
  the order of the flow (`Stepped`). A kept step with the name of another would be two
  places with one name.
- In a whole replay the worklist holds what is to come in order, a loop whole until it
  is met and before whatever follows it (`WorkWhole`).
- Replay that has not failed is where the interpreter is (`Following`): what is due
  stands at or behind its place, but for steps under a guard already found not to hold
  (`Coming`, `Off`); the verdicts it keeps are those of the blocks entered, which hold
  (`Guarding`); and a loop on the worklist has as many passes behind it as the
  interpreter made (`Passing`). Each step of replay then takes the interpreter along:
  the first guard that fails takes it past that block (`ApproachOut`), a step that
  runs is done by it with the same values (`StepRuns`), a loop that repeats starts its
  next pass (`RepeatFollows`; here it is needed that all verdicts of the body are
  dropped), and where replay gives up it does (`StepFails`, `ExhaustFails`).

The invariant is `Faithful`. `MeansTheFlow` alone is not inductive for many reasons;
the first is that deeds so far say nothing of the guards and passes to come.

`StepExecutionProofs` (`RoundsAssumption`, `BudgetAssumption`, `RungsAssumption`,
`RetriesAssumption`; `FlowsAssumption` types the flows; of pages nothing is assumed):
type correctness; no input before its target was found and ready
(`ReadyBeforeInput`, from `PhaseKnown` and `EndsKnown`: which phases a kind of step
passes through, and how it may leave each); `GoneWasRead`, from `Heeded` of every
step but one that looks inside a container (`HeededOutside`); no two steps capture one
download (`DownloadsAreNew`, from `Taken`); no dialog passes unnoticed
(`DialogsAccounted`), if only inputs declare dialogs (`DialogsOfInputs`), from
`Accounted`.

The second half of the module goes on to what a step that ended says:

- `FailsOnEvidence`: an assertion fails only on what the application answered
  (`FailedOnEvidence`), if assertions carry no wait of their own (`AssertsDoNotWait`,
  as `recorder.rs:1167-1170` writes them). Of a step that looks inside a container
  nothing is claimed (`EvidentOutside`): the second of the two calls of such a look
  may be lost without a trace, see the findings. `Evident` says what the notes of a poll are worth
  between any two of its calls (`Noted`: a reading was seen, or was a whole poll
  without a loss, and a loss in this poll is known), and at its end (`Ending`).
- `InputTakes`: a step passes only if its input took, however many calls were lost
  and sent again (`InputTook`). `Under` says at each call of an input's programme what
  its calls so far made of the control: nothing yet before it (`Pristine`), of the
  button, the click and the field what the calls from the start of the block leave
  (`ButtonHere`, `ClicksHere`, `FieldHere`), though the block may have started over.
- `NotRepeated`: a request that writes is sent once and a click is made no more often
  than its block may start over (`NothingRepeated`), from `Under` and `SentOnce`.

The last two need only `TextAssumption`: a text has characters, which are not taken
for the names of calls.

`RecordCommandProofs` (`AuthoringAssumption`, `CommandAssumption`; models, patches
and edits are arbitrary): `PassMatchesFile`, from `Current`: what a command records
is the file as it is, patched or not, and a recording that is done has been stored.

- `WhatIsKeptReproduces` (`KeptReproduces`, from `Reproducing`): what is kept,
  replayed, leads where the last step that passed left the page, and the actions of
  this step, all of them possible, lead on to the page as it is (`WentThrough`). When
  a step is done, what is kept of it is put together action by action; so far it leads
  to the page the recording had then, but for fields of which a write was left out and
  a later one is still to come (`Agrees`, `Pending`). Nothing that looks at the page
  comes between the two, so nothing it notes differs.
- `GroupsAreSteps` (`ReuseInOrder`, from `InOrder`): every list of steps that is kept,
  stored or offered again is in the order of the steps and holds each intent with its
  number (`InStepOrder`), so that a group of one wording is what one step did
  (`GroupIsOneStep`) and comes after every group before it (`GroupsAreLater`).

Only model-checked: liveness (`RunEnds`, `SuiteEnds`, `FlowEnds`, `CommandEnds`,
`ReplayAnswers`). The prover has no rules for fairness and ENABLED. Every other
property of a passing run has its theorem. A definition by recursion on numbers can be
unfolded, by a least counterexample to its existence (`LeadsExists`, `PassedExists`,
`ReadingExists`, `RunExists`; the rule of the library takes an operator as a
parameter), which is how `Redone`, `Passed`, `Reading` and `Interpreting` are reasoned
about. Recursion on trees is out of reach; that is why the interpreter works off a
list, as the recorder does.

## Not modelled

- *Healing* (`heal.rs`): a proposal is computed from one trace and applied to
  another without a check that they are the same. The operations are short, and
  what they would be checked against is a comparison of traces (`diff_steps`).
- *Run records and audit*: concurrent runs that mint ids from the clock and prune.
- *Egress containment* on Linux (a supervisor that reads another process's memory)
  and on Windows (filters and audit policy that must be restored).
- *The kept browser*, which a later run attaches to.
- *Desktop, Fiori, SAP and vision adapters*: calls of platforms and image
  processing; what replay asks of an adapter is in `WebDriver`, for the web.
- *Of a step*: the native single select, `check_visual`, assertion lanes,
  redaction.
- *Parsers, phrase tables and document formats* (`spec.rs`, `rules.rs`, `doc_*.rs`),
  the model client, reports, configuration, the SDKs and the development scripts:
  functions from text to text with no state between two calls. They are, with the
  adapters, by far the larger part of the source; of `spec.rs` only the expansion of
  `foreach:` is modelled, because repairs depend on it.

## Plan

1. `SuiteJournal`, `SuiteRun`, `AgentFlow`, `FlowRecording` with `StepReplay` (done);
2. `StepExecution`: one step of replay over the web driver (done);
3. `Authoring` and `RecordCommand`: how the recorder gets from a step to actions,
   and the repairs around it (done);
4. `McpRun`: both transports over the core (done);
5. proofs for each of them (done for the properties above);
6. `RunHistory`: concurrent runs that mint ids, write and prune records, and the
   audit that compares two of them;
7. healing, with the trace comparison it rests on;
8. `Egress`: the Linux supervisor and the Windows filters and audit policy;
9. the kept browser; the native select; the assertion lanes.
