# TLA+ verification of aibap.mcp

aibap.mcp is an MCP server that gives a language model the ABAP development
tools of an SAP system (over ADT). Many tools send one request and convert the
answer; the hard part is what lives between calls and requests: the ABAP
debugger's runs and the session they use, the objects locked on the user's
behalf, the tools that try a second way or ask SAP many times for one answer, and
the process around them. This directory models those parts in TLA+, checks small
instances with TLC and proves the main results with TLAPS.

## The system and its parts

| Part | Source | State it keeps | What is hard |
|---|---|---|---|
| Debug runs | `tools/debugrun.go`, `debugrun_cleanup.go`, `debugsession.go` | the newest run, its status, window, idle timer, calls in flight; the shared debug session; the run-start lock `startMu` | a listener goroutine per window, a trigger goroutine, an idle timer, concurrent tool calls and cleanup all move one run; deadlines; requests given up that SAP may still execute |
| Breakpoints of a run | `tools/debugrun_breakpoints.go` | the run's list, SAP's list | delete-and-set-again, partial failure, status read before the lock is released |
| debug_wait | `tools/debugger.go`, `debugrun.go` | version counter, `changed` channel | waiters across a run change |
| Session keys | `tools/debugsession.go`, `system.go` | user and system of the session | `select_system` between two reads of the active system; shutdown's 25 s |
| Object locks and writes | `tools/lock*.go`, `writelock.go`, `activate.go`, `source.go`, `patch.go`, ... | lock map, session tracker, SAP's enqueue table | concurrent tools on one object, rollback of an automatic lock, stale handles |
| Transports, new and deleted objects, customizing | `tools/transport*.go`, `object.go`, `customizing_write.go`, `rollback.go` | none (SAP's) | a second attempt by the optional fallback after an error or a silent failure |
| Batches, exports, tools of two requests | `tools/source.go`, `repository.go`, `unittest.go`, `syntaxcheck.go`, `export.go`, `classrun.go`, `verify.go`, `abapgitsync.go` | none | a goroutine per object and a semaphore, cancellation, part of a list fails |
| Consent, tool groups, instructions | `tools/consent.go`, `register.go`, `main.go` | none | what is served, marked and advertised must agree |
| Error hints | `tools/errors.go`, `abapgitsync.go` | none | the order of overlapping cases |
| Logging | `logging/*.go`, `tools/middleware.go` | connection, buffers, mutex | around every call; a derived handler; a dead network |
| Process | `main.go`, `config/` | none | start and shutdown order |
| Single-request tools, login | other `tools/*.go`, `cmd/login.go` | none | pure mappings, a one-shot command |

How they interact: an MCP handler runs in a goroutine of its own, so any two tool
calls may overlap. Handlers of the debug tools share one `debugSessions` and
synchronise by three locks in a fixed order: `startMu` (held across HTTP calls),
`debugSessions.mu`, `debugRun.mu` (never held across an HTTP call). A run starts
goroutines that outlive the call that started them. SAP is reached through the
external library adtler; SAP serialises the requests of one stateful session, so
the listener's long poll blocks everything else on the run's session, and a second
"cleanup session" of the same user and IDE ID is used beside it.

`PROJECT.json` lists the components with their status and, under `hazards`, every
place of this code that is hard to test, with the property that covers it or the
reason why none does.

## Modules

| Module | Role |
|---|---|
| `RunLifecycle` | abstract: what clients are promised of runs and their statuses |
| `DebugRun` | detailed: goroutines, locks, timers, requests to SAP; implements `RunLifecycle` |
| `MCDebugRun` | TLC instances of `DebugRun` |
| `DebugRunProofs` | the inductive invariants and theorems about `DebugRun` |
| `DebugBreakpoints` | the run's breakpoint list against SAP's, on both SAP releases |
| `MCDebugBreakpoints` | TLC instances of `DebugBreakpoints` |
| `DebugBreakpointsProofs` | the inductive invariants and theorems about `DebugBreakpoints` |
| `WriteLocks` | lock map, tracker and SAP's lock table under every tool that touches them |
| `MCWriteLocks` | TLC instances of `WriteLocks` |
| `WriteLocksProofs` | the inductive invariants and theorems about `WriteLocks` |
| `DebugSessions`, `MCDebugSessions` | the debug session and its key against select_system, the handlers of the debug tools, the end of the process |
| `DebugSessionsProofs` | the inductive invariants and theorems about `DebugSessions`; it implements `RunLifecycle` too |
| `DebugWaits`, `MCDebugWaits` | versions, the channel of a change, `debug_wait` and the wait of `debug_run` |
| `DebugWaitsProofs` | the inductive invariants and theorems about `DebugWaits`; it implements `RunLifecycle` too |
| `Transports`, `MCTransports` | the tools with a fallback, and the other transport and object tools |
| `TransportsProofs` | the inductive invariants and theorems about `Transports` |
| `Startup` | pure operators: groups, consent, instructions, configuration path, log destination, error hints |
| `Logging` | the log line of a call (on `Startup`) |
| `ToolCalls` | batches, exports and tools of two requests (on `Logging`) |
| `Server`, `MCServer` | the process: `Startup`, `ToolCalls` and `Logging` composed as `run` and `withLogging` do |
| `ServerProofs` | the inductive invariants and theorems about `Server` and its parts |
| `LeastProofs` | one lemma the proofs share: a non-empty set of numbers has a least one |

`DebugRun` and `DebugBreakpoints` split one program: `DebugRun` has how a run's status
moves and leaves breakpoints out, `DebugBreakpoints` has the breakpoints,
`DebugSessions` who debugs on which system, and `DebugWaits` who is told. The three
let the status move along `RunLifecycle`'s arrows; `DebugRun`, `DebugSessions` and
`DebugWaits` are each proved to implement it.

### DebugRun and the code

An action is one critical section of `run.mu`, one start or end of `startMu`, or
the execution of one request by SAP. A request and what the code does with its
answer are separate actions, so everything else can happen in between.

- `Begin(op)` is `launchRun` or `stop` taking `startMu` with step 1 of `cleanupRun`;
  `StopExternal` is step 2a, `CancelRun` and `ListenerExited` step 2b (the two
  halves are concurrent), `Join` the `wg.Wait`, `CleanupDetach` and
  `CleanupDetachGivenUp` step 3, `CleanupFinish` step 5. `DropSession` ends `stop`,
  `Publish` and `LaunchFails` end `launchRun`.
- `PollOpens`, `PollEnds`, `PollCancelled` are `StartListener`, `Verdict` what `listen`
  does with the answer, `SapAttach`, `AttachGivenUp` and `AttachReturns` are `attach`,
  `LateDetach` and `LateDetachGivenUp` are `detachLate`, `ListenerCloses` the deferred
  `close(done)`.
- `TriggerStarts`, `TriggerSkipped`, `TriggerReturns`, `QuietStop` are `runTrigger` and
  `stopListenerQuietly`.
- `TimerFires`, `IdleBegins`, `IdleDetach`, `IdleDetachGivenUp`, `IdleEnds` are the idle
  timer and `onIdle`; `StaleCallback` is a callback whose generation is outdated
  (`idleGen` is modelled by the split into `timer` and `stale`).
- `RearmBegins`, `RearmGoes`, `RearmRefused` are `rearm`.
- `CallBegins`, `CallServed`, `CallReports`, `CallEnds` are an in-attempt tool:
  `beginCall`, the request, `transitionIfAttached`, `endCall`.
- `DebuggeeEnds`, `AbandonedDetach` and `AbandonedAttach` are SAP's own steps. SAP itself
  is three variables: the run whose listener is registered (`sapListener`), per debug
  session the run whose debuggee is attached (`held`), and the requests that were given
  up and that SAP may yet execute (`abandoned`).

Two constants switch faults on. `Slow`: every deadline of the code (10 s for the
listener's exit, 20 s for a cleanup, 30 s for an attach, a late detach and the idle
limit's detach) may pass before SAP has answered; SAP may execute a request that was
given up at any later time, or never. `Lossy`: SAP's answer may be an error whether or
not SAP did the work. A poll that ends with an error, a refused attach and a failed
`setExternal` are always possible.

Abstractions: one user on one system (so one listener registration); the
session is reused until `debug_stop` drops it. Breakpoints, positions, hints,
instructions and versions are left out. `detached`, `completed` and `terminated` are
one end reason, "released". `manual` stands for every run the server does not
trigger. A rearm that fails at its first look at the status changes nothing and is
no action.

### DebugBreakpoints and the code

The state is the newest run's status and list (`st.Breakpoints`), the holder of
`startMu`, the handler each caller is in, and SAP: the external breakpoint of each
location (`sapExt`), the attached debugger's own (`sapDbg`), whether a debuggee is
attached. An action is one request together with what the code does with its
answer (only the holder of `startMu` touches the external part of the list, so
nothing can come in between), or one access to the run.

- `AddBegins`, `RemoveBegins` are the first looks of `addBreakpoint` and
  `removeBreakpoint`; `Admit`, `DebuggerSet`, `DebuggerDelete`, `DebuggerFails`,
  `DebuggerLost`, `Store` the debugger-scope way through `beginCall`; `Refused` and
  `Lock` the second look under `startMu`.
- `Delete`, `DeleteFails` are the DELETE requests of all three users of the list (reset,
  remove, cleanup), `DeleteFailed` what each does with an error. `SetAll`, `SetRefused`,
  `SetPartly`, `Undo`, `Undone` are `setExternal` with `removeSetBreakpoints`; `SetFailed`
  is what each caller does with its error: `launchRun` gives up, the reset sets the
  previous list again, and after a second failure drops it and names it.
- `DeleteLost`, `SetLost` and `DebuggerLost` are the same requests when SAP carries them
  out and the client gets an error: the answer is lost, late, or the call was cancelled.
  `unheard` has the locations, `unheardDbg` the debugger-scope breakpoints, whose last
  request ended so; a later one that is answered takes them out again (`Learns`).
- `LaunchBegins` and `CleanedUp` are `launchRun` and `stop` around `cleanupRun`;
  `Rearm` keeps only the external part of the list.

What is assumed of SAP comes from the comments and tests of the repository: on
SAP_BASIS 816 a set request replaces the external list, on 750 it adds to it and
any external request detaches an attached debugger; a location that is set already
is answered "existing". A breakpoint's ID is unique per location and scope.
`MaxIds` bounds the external IDs of a location that the run, SAP or a call remember
at a time, and there is one debugger-scope breakpoint per location. `replaces` and
the set of possible faults are chosen in the initial state. A detach always
succeeds. `Overlap = FALSE` says that a debugger-scope call has returned before the
next window begins.

### WriteLocks and the code

The ledger is two tables without a common lock: `ledger` is adtler's `LockMap`,
`tracked` the `sessionLockTracker`. An action is one access to a table, one read of
the active system, or one request executed by SAP. Tools share their steps as
they share functions: `Probe`, `Look`, `Resolve`, `LockGranted`, `Record`, `Track` are
`resolveWriteLockHandle` with `ResolveLock`; `WriteAccepted` and `WriteFails` the write;
`UnlockAnswered`, `UnlockFails`, `Delete`, `Untrack` are `unlock_object`,
`releaseAutoLock` and `unlockBeforeActivate`; `Logout`, `LogoutFails`, `Forget` are
`force_unlock`. `LockLost`, `UnlockLost` and `LogoutLost` are requests that SAP carries out
and whose answer does not arrive; `unheard` has the keys of which that is the last thing
that happened to their lock.

SAP, as the integration tests and comments describe it: S/4 refuses a second LOCK of
an object even in the session that holds it
(`write_reproducers_378_integration_test.go`), and a write needs the handle that holds
the lock; ECC grants the second lock with a fresh handle and accepts any handle; an
UNLOCK is answered 2xx whether or not the handle held anything; ending the session
frees all its locks. Every request goes to the system the registry has active when
it is sent. A session expires only while nothing is in flight (`Expires`).

Abstractions: sources, ETags and patches are left out, so a LOCK may always be
refused and a write may always fail. `patch_source` stands for `set_source_from_file`
too: they do the same to locks. `forgetSystem` is one step. The text elements of an
object are locked under the object's own key. `Overlap = FALSE` says that a client
waits for the answer of a call before it starts another on the same object; calls
on different objects always overlap. `Fails` switches on failing unlocks, logouts and
flavor probes, and lost answers.

### DebugSessions and the code

`cur` is `debugSessions.cur` with its clean-up twin: the key it is filed under and the
system it was really bound to when it was created. `CreateLocked`, `Bind` and `Recheck`
are the three steps of `createLocked` (read the key, create, compare the key);
`SelectSystem` may come between any two of them. `DebugRun`, `StartLocked`, `Cleaned`,
`Open`, `Publish` and `SetFails` are `debug_run` through `launchRun`; `DebugStop`, `Drop`
are `stop`; `InAttempt`, `BeginCall`, `GetSessions`, `Fits`, `Use` and `Answered` are the
tools that use the session; `Rearm`, `Listens`, `IdleBegins` and `IdleEnds` move a run.
`ExitBegins`, `HookWaits` and `LogOut` are the end of `run` in `main.go` with the shutdown
hook: no handler is left when it begins, and the hook's 25 s are enough for a clean-up (20
s) unless an idle detach (30 s) holds `startMu`, in which case the process leaves
`aborted`.

Abstractions: the user of a run is resolved before `startMu` is taken, as in the code,
so a select_system in between starts unit tests for the logon user of the system
left; `BoundToKey` speaks of the runs for which that did not happen. `BackAndForth =
FALSE` says that select_system does not leave a system and return to it while one
session is created: the comparison of the keys cannot see that.

### DebugWaits and the code

`version` is the counter all runs share, `runs[r].version` the version of a run's last
state. The channel that `transitionLocked` closes is modelled by the version it was
taken with: it is closed as soon as the run has a later one. `Look` is one turn of
`waitUntil` under `run.mu`, `Woken` the receive on the channel, `GivesUp` the timeout or the
client's cancel. `StartRun` is `debug_run` waiting for a run the server triggers, `Rearm`
`debug_wait` with `rearm`; `RunStarted` is another client's `debug_run`, `TriggerReturns` a
trigger that returns at any time, also in a run that was stopped.

### Transports and the code

A call is at ADT, at the fallback, or at its answer; `done` records on which ways SAP
carried it out. `AdtExecutes`, `AdtRefuses` and `AdtSilent` are SAP's side of one request:
it executes and the answer may be lost, it refuses, or it answers success without having
done anything (the release on ECC, a copy into a locked target, a removal by a position
that matches nothing). `AdtReleasesTasks` is a release with `include_tasks` that gets no
further than tasks, `AdtStrays` a removal whose stale position is that of an entry of
another request. `FallsBack` is each handler's condition for the second way, `AfterAdt`
and `AfterFallback` what it answers. `fallback` is absent, basic, or extended with the two
optional interfaces of `blackmagic.go`. `SapReleases` is a release that ends later or a
colleague's. SAP's refusals by release (`Unsupported`, `NoEndpoint`) are external, from
the comments of the handlers. Texts, numbers and targets are left out.

### Server, ToolCalls, Logging, Startup and the code

`Start` takes every decision of `run` in `main.go` at once, from every combination of
`--tools`, the configuration's tools, `--consent`, the environment, the files there are
and the destination of the build; `Listen` keeps what later steps need. `Dispatch` is a
call of a registered tool, `Logged` the moment a handler has returned and `withLogging`
begins the line, `Respond` the answer to the client once the line is done.

In `ToolCalls`, `item` is what has become of each object of a call, in SAP and on disk,
and `entry` what the handler writes down of it (`EntryOf`). `Acquire` and `Answered`
are a goroutine of a batch with its place in the semaphore (`Limit`), `AnsweredAtOnce`
the request of `syntax_check`, `Fetch` and `Write` the loop of the exports, with `Cancel`
between two packages, `LooksUp` and `Second` the tools of two requests. `Waited` is the
`wg.Wait`, `Count` one turn of the loop that follows: it sees the entries only and adds to
the counters (`Good`, `Failed`, `Alerts`: each message of type E of a syntax check counts,
an object has up to two). `Write` counts `exported` itself, and `object_exists` gets its
`missing` by subtraction (`Absent`). `Answers` decides what becomes an error (`Fails`). The
answer is compared with `item`, which the handlers never read.

In `Logging`, `Stderr`, `Lock`, `Render`, `Send` and `Retry` are the fan-out and
`papertrailHandler.Handle`. Connections are not state: each attempt may succeed or fail,
and a write that failed may have arrived. `buf` has the buffers of the root and the
derived handler by the lines whose text they hold.

`Startup` is a set of functions. `serverInstructions` is three sets of names: those whose
approval the text says is asked for (`SaidMarked`, a list beside the one of `consent.go`),
those it has whatever is served (`AlwaysNamed`) and those that come with the debug group
(`DebugNames`). The error of `Hint` is a record of what `matchHint` looks
at; `HintsFit` compares it over all 2,750 shapes with what the comments of `errors.go` say.

### Wrong versions

Definitions whose names end in `_bug` are wrong versions of the definition after
them, the way a slip in the code would look. No action uses them; putting one in
the place of the right one breaks the property that `PROJECT.json` pairs it with,
which shows that the run and its bounds can see the mistake.

## What is checked

| Run | Instance | Properties |
|---|---|---|
| `debug_runs` | 2 runs, 2 windows, 1 caller, gui and unit-test triggers, no faults | `TypeOK`, `CleanStopReleases`, `NewRunAlone`, `EndedReleased`, refinement of `RunLifecycle` |
| `debug_faults` | 2 runs, 1 window, 2 callers, `Slow` and `Lossy` | `OneActiveRun`, `DetachedOnce`, `IdleSparesCalls`, `CallsCounted` |
| `debug_live` | 1 run, 2 windows, 1 caller, `Slow`, fairness | `LockReleased`, `IdleRunEnds`, `StoppedLetsGo` |
| `breakpoints` | 2 runs, 2 callers, 2 locations, 816 and 750; three fault sets of `Tolerable`: set requests fail or are partly rejected and answers of the attached debugger are lost; set requests fail and external answers are lost; or deletes fail and IDs are missing | `TypeOK`, `ListTruthful`, `NothingForgotten`, `LossesNamed`, `DebuggerListExact` |
| `locks_honest` | 2 callers, 2 objects, an S/4 or an ECC system, `Fails` (lost answers included), every tool but activation and select_system | `TypeOK`, `NoOrphan`, `NoStale`, `EntriesTracked`, `RollsBackItsOwnLock` |
| `locks_systems` | 1 caller, an S/4 and an ECC system, 2 objects, expiring sessions, the tools that relock | `SystemsApart`, `NoBlindWrite` |
| `sessions` | 2 callers and the hook, 2 runs, 2 users, a system with a logon user and an OAuth2 system | `TypeOK`, `BoundToKey`, `SessionOfRun`, `ExitCleansUp`, refinement of `RunLifecycle` |
| `waits` | 1 waiter, 2 runs, rearms up to version 6, fairness | `TypeOK`, `WaitReturns`, `SettledReturns` |
| `transports` | 2 calls of 15 tools, 2 transports, old and new release, every kind of fallback, refusals, lost answers (not of a release), partial releases and stale positions | `TypeOK`, `NoSecondTry`, `AnswersTrue` |
| `server` | every start; 1 caller of every tool with up to 2 objects and 1 more for the log; fairness | `TypeOK`, `PromisesKept`, `AnswersTrue`, `LogsLocally`, `CallsAnswered` |
| `breakpoints_caught`, `server_log` | see below | one claim each, refuted |

Bounds. Two runs are enough for "the next run while something of the previous
one is still alive": nothing in the code relates three runs. Two windows give the
rearm and its races, two callers nested and overlapping calls with the idle timer.
Two locations tell "the one being worked on" from "the others" in a list, and a list
of two can be deleted, set or rejected in part. Two objects let an activation release
one lock and fail at, or forget, the next; three or four handles let an object be
locked again after each way of losing its lock. The proofs remove these bounds for
the invariants named below. Callers, locations and objects are interchangeable, so
the runs use symmetry (not under liveness). In `sessions` two callers and the idle
timer are all that ever meet at `startMu`; a third system would be a second "other".
In `waits` a second run is needed for a `since_version` of an older one, and waiters do
not touch each other. In `server` two objects under `Limit = 1` make one of a batch wait
for the other's place, and the second caller meets the first at the log's mutex only:
handlers share nothing else, so it calls one batch tool and one single tool.
In `breakpoints` each fault comes in one of three sets, to bound the states; {post, delete,
lost}, {post, reject, lost} and {delete, anonymous, lost} were checked as well. `transports`,
like the first six, keeps the deadlock check; `sessions` stops when the
process has ended, `waits` when its bounds are used up, `server` when the start was
refused, so these three switch it off.

Fairness (`FairSpec`). Weak fairness of each goroutine's steps: the Go scheduler runs
every goroutine, and each request ends by its answer or its deadline. A request that was
given up need not be executed: `AbandonedDetach` and `AbandonedAttach` are not fair.
Strong fairness of the two idle callbacks, which wait for `startMu`: a `sync.Mutex` goes
into starvation mode after 1 ms and then hands the lock to the longest waiter. There is no
fairness on tool calls, on a debuggee being caught or ending, or on any user action. In
`waits` a goroutine that can run does; timeouts and changes of the run are not fair. In
`server` each handler and each log line goes on, and the log's mutex is strongly fair for
the same reason as `startMu`; no fairness makes a client call. The log's dial and write
have deadlines. That a request to SAP returns is an assumption: adtler is not part of the
repository, and most handlers pass the client's context on, which may have no deadline.
`CallsAnswered` says that nothing else can hold a call up. With it: the run-start lock is
always released; an attached run without a call in flight is ended (a call that never
returns stops the idle timer for good, which the code accepts); the debuggee of a stopped
run is let go in the end, although cleanup's 10 s wait for the listener may end before the
attach does. Excepted are runs of which an attach or a detach was given up at its own
deadline (`GaveUp`): whether SAP then holds a debuggee is for SAP to decide, and nobody
looks. The last one is checked without `Lossy`: with failed requests it is false (a
debuggee nobody reports, below).

### Claims of the repository that the code does not keep

- `breakpoints_caught` (1 run, 1 caller, no faults): the breakpoint tools send no
  external request while a debuggee is attached, because on 750 that detaches it. They
  look at the status once and then send several requests, while the listener may
  attach.
- `server_log` (1 caller): "papertrailHandler sends JSON log records". `Setup` derives its
  logger with `With`; the derived handler gets a buffer of its own, but its JSON handler
  keeps writing into the parent's. What is sent has a syslog header and no record, and
  the parent's buffer grows with every line.

Further claims, each refuted by a passing run whose constants, or whose property, are
changed as named:

- `CleanStopReleases` with `Lossy` (1 run, 1 window, no caller): `debug_stop` "reports ...
  anything that could not be removed or detached" (`debugger.go:239`). An `Attach` that
  fails on the client although SAP attached makes the run `ended`; cleanup detaches
  only a run that is `attached` (`debugrun_cleanup.go:80`), so the report is clean and
  SAP still holds the debuggee.
- `NewRunAlone` with `Slow` (2 runs, 1 window, no caller): `detachLate` relies on a new run
  starting "only after cleanup has waited for that goroutine" (`debugrun.go:357`). Cleanup
  waits 10 s, the attach may take 30 s. `OneActiveRun` holds nevertheless.
- `EndedReleased` with 2 windows and 2 callers: `ended` means "no debuggee any more"
  (`docs/superpowers/specs/2026-10-06-debug-run-design.md:159`), but the late answer of a
  call admitted in the first window ends the second attachment, which then has no idle
  timer either. With one call at a time it holds (`debug_runs`).
- `RollsBackItsOwnLock` with `Overlap` (1 S/4 object, `Tools = {"patch_source"}`): a failed
  write promises never to release a merely reused lock (`file_source.go:56-58`). Whether
  the lock is its own is read before the lock is resolved; another write in between
  makes it roll back that write's lock.
- `NoSecondTry` with `Faults = {"lost_release"}`: a release that "may well have gone
  through" must not be released again (`transport.go:190-198`), but any error sends the
  handler to the fallback, a lost answer included (`transport.go:213`). The same with
  `"text404"` and `"lost"`: `create_object` looks for "404" in the text of the error
  (`object.go:71`), and the name of the object is part of that text.
- The conjunct of `PromisesKept` about the marks, without its condition on `--consent`: with
  `--consent=prompt` every tool carries the mark, but the text still says that "Eight
  tools carry a marking" and that `run_query` "is not part of that set" (`main.go:251-253`).
- `PromisesKept` with `AlwaysNamed` in the place of `DebugNames`: the instructions should not
  "promise tools the client cannot see" (`main.go:225-226`); that holds for the debug group
  only. With `--tools` limited they still name tools that are not served (`get_source`,
  `release_transport`, `run_class`), and always `get_ddic_info` (`main.go:245`,
  `main_test.go:485`), which no tool is called.
- `BoundToKey` with `BackAndForth`: select_system away and back while `createLocked` creates
  leaves a session bound to the other system under the key of this one.

More behaviours the models contain, that no run of the list shows; each appears when
the named constants of a passing run are changed, or the named exception is taken out of
the property:

- what a lost answer leaves: a LOCK that SAP granted without an answer holds the object
  and is in no ledger (`NoOrphan` without its exception for `unheard`); a DELETE or a set
  request carried out without an answer makes the run's list claim a breakpoint that is
  gone, or leaves one that nobody lists (`ListTruthful`, `NothingForgotten`), and after the
  restoring request a breakpoint is named as lost that is set (`LossesNamed`); an attach
  given up after 30 s that SAP executes later leaves a debuggee that no run knows;
- `remove_from_transport` with a stale position succeeds and removes nothing, or an entry of
  another request, as its description says (`transport.go:284-291`; `AnswersTrue` excepts
  it, `Vague`);
- `CleanStopReleases` fails with `Slow`, `EndedReleased` with `Lossy` (a failed idle detach);
- the `StopListener` after a `no_hit` end (`QuietStop`) runs without the run-start lock,
  although the cleanup session is documented as used only under it;
- `NothingForgotten` fails with the faults {reject, delete} (`removeSetBreakpoints` ignores
  its errors) and {anonymous, post}; `launchRun` also drops its cleanup's report, which the
  property counts as given;
- `DebuggerListExact` fails with `Overlap`: `addDebuggerBreakpoint` stores its breakpoint
  without another look at the status, so it can end up in the next window's list;
- `EntriesTracked` fails when `unlock_object` and `lock_object` overlap on one object,
  `SystemsApart` when `lock_object` and `select_system` do, `NoOrphan` when an unlock that
  `activate_objects` ignores fails;
- `NoBlindWrite` fails on ECC for `create_test_include`, which does not relock, once its
  session has expired.

## What is proved

`DebugRunProofs`, for all values of the constants (any number of runs and windows,
any finite set of callers):

- `TypeCorrect`, `AtMostOneActiveRun`, `CallsSparedByIdleLimit`, `IdlePauseExact`,
  `NeverDetachedTwice`: `Spec => []` of `TypeOK`, `OneActiveRun`, `IdleSparesCalls`,
  `CallsCounted`, `DetachedOnce`, with every fault;
- `ImplementsLifecycle`: `Spec => LifecycleSpec`, every step of `DebugRun` is a step of
  `RunLifecycle` or leaves its variables unchanged, with every fault;
- `NewRunsAreAlone`: `NewRunAlone` under `~ Slow` (requests may fail, but none is answered
  after its deadline);
- `CleanStopsRelease` and `EndedRunsRelease`: `CleanStopReleases` and `EndedReleased` under
  `~ Slow`, `~ Lossy` and `AttachesOnce` (a run has one window, or there is one caller).
  Without any of the three one of them is false, as said above.

The assumption on the constants is `DebugRunAssumption` (the bounds are natural numbers,
at least one window, finitely many callers).

The argument. `IInv` is inductive (`Invariance`). Its parts: `LockInv` and `CleanupInv`
say what the holder of `startMu` in each phase knows of the newest run's status:
`OneActiveRun` alone is not inductive, because whether the run that `Publish` replaces is
stopped depends on the phase of the launch. `OrderInv` says that older runs are stopped
and later ones do not exist. `CountInv` makes `inFlight` the cardinality of the admitted
calls, without which `endCall`'s decrement would leave the naturals and a detach might run
under a call. `TimerInv` is the idle limit's half. `ListenerInv` (on top of `IInv`) says
that the goroutines of earlier windows have exited and that the current one is past its
attach whenever a detach is under way. `StopInv` says that cleanup goes on only when the
goroutine of the run it stops has exited; `~ Slow` makes it inductive (no wait and no
request is then given up: `NothingLeft`). The step proofs go through one lemma per part of
the program, with one step per action.

`ReleaseInv` is for the debuggee that SAP holds. That a run which is stopped or ended has
none is not inductive: SAP holds it before the run is `attached` and after the run is being
stopped. `HoldInv` names every place on that way (`Holding`: the goroutine's answer
that is to come, its late detach, the status, the detach that cleanup owes), `IdleInv`
and `ServedOK` say that what the idle limit detaches and what a call is served for is the
attachment it began with. `AttachInv`, which holds with every fault, says that a goroutine
attaches only for a run that is attaching or has been overtaken by cleanup.

`WriteLocksProofs`, for any callers, systems (S/4 and ECC), objects and number of
handles, under `~ Overlap`:

- `LockTypes` and `RollbackIsExact`: `Spec => []TypeOK` and `Spec => []RollsBackItsOwnLock`,
  with every fault;
- `EntriesNameTheirSystem`: `SystemsApart`, with every fault;
- `NoLockIsLost` and `EveryEntryIsListed`: `NoOrphan` and `EntriesTracked`, when in addition
  an unlock that activation ignores does not fail (`Reliable`); sessions may expire, and
  answers may be lost (the keys in `unheard` are excepted);
- `NoHandleIsStale`: `NoStale`, when in addition sessions do not expire;
- `NoWriteIsBlind`: `NoBlindWrite` under `~ Fails`, when sessions do not expire or every
  tool relocks on ECC (`Relocks`: the flavor is always known, and the two tools that
  do not relock are not called).

The argument. `SafeInv` is inductive with every fault: besides the types, `Apart` says
that the objects of different calls are disjoint, `Shape` which fields a call has at
each step, and `OwnInv` that a call owns its lock exactly if SAP granted it to that
call; for the calls that decide by a look at the lock map this needs `Apart`: nobody
changes the entry between the look and the resolution. `LedgerInv` adds `KeyInv` (the
key of a call is that of the active system, since select_system waits), `Matches` and
`Traced`: for every key the lock map, the tracker and SAP agree up to the one step that
the call working on it is about to take, which is what `NoOrphan` and its companions
become while a call is between two accesses. A session that expires takes the entry of SAP
away and nothing else, which `Agree` allows for; a handle of the lock map is then stale
but never that of another lock. With expired sessions a write is not blind for another
reason, which `EccInv` has: on ECC, which accepts any handle, it has just taken a lock of
its own. `HomeInv` compares each handle with the history of the grants, so that
`SystemsApart` does not rest on the lock map being right otherwise.

`TransportsProofs`, for any callers and any non-empty set of transports:

- `TypesCorrect`: `Spec => []TypeOK`, with every fault; part of it is that no handler
  waits for a fallback that is not configured;
- `AnswersHonest`: `AnswersTrue`, with every fault except `text404` (`Quoted`); partial
  releases, stray removals and removals of nothing included;
- `NothingTwice`: `NoSecondTry`, when in addition the answer to a release is not lost
  (`Confirmed`); the run has the same two faults off.

The argument. `AnswerInv` says what is known of a call at each step: nothing before ADT
answers (`Fresh`), and at the fallback (`AtFallback`) that either nothing was done, or
the call is a release that SAP carried out, whose answer was lost, and whose transport is
no longer modifiable. The last part is why the fallback can then do nothing, and it stays
true because nobody makes a transport modifiable again (`Settles`). So a lost release can
break `NoSecondTry` but not `AnswersTrue`.

`DebugBreakpointsProofs`, for any callers, locations, runs and number of IDs, on both SAP
releases:

- `BreakpointTypes` and `ListIsTruthful`: `Spec => []TypeOK` and `Spec => []ListTruthful`,
  with every combination of faults, lost answers included; each of these properties
  excepts the locations (or breakpoints) whose last request was answered by an error
  although SAP carried it out;
- `NothingIsForgotten` and `LossesAreNamed`: `NothingForgotten` and `LossesNamed` under the
  faults of `Tolerable` (`FaultSets \subseteq Tolerable`): missing IDs not together with
  failing or rejected sets, rejected sets not together with failing deletes, answers lost
  with any of them. Outside it both are false, as said above;
- `DebuggerListIsExact`: `DebuggerListExact` with every combination of faults under
  `~ Overlap`.

The argument. `SafeInv` is what a call knows at each step (`CallOK`) and what the holder
of `startMu` knows of the newest run (`LockOf`): a breakpoint tool holds it only while the
run it looked up is the newest and active. `TruthInv` says what `ListTruthful` becomes
during a reset: the list is the one the reset began with, what it has deleted is not set,
and never again under the same ID (an ID that somebody remembers is not given out),
the rest is. `LeftInv` is `NothingForgotten` while a reset, a launch or a clean-up is on its
way: what is set is in the list, or still to be deleted or undone, or noted as failed.
`DebuggerInv` says that the list and the attached debugger differ by exactly the
breakpoints whose `Store` is still to come, and that such a breakpoint is no other call's;
without the second half two stores could undo each other.

`DebugSessionsProofs`, for any callers, systems, users and number of runs:

- `SessionTypes`, `RunKeepsItsSession`, `NothingLeftAtLogout`: `Spec => []` of `TypeOK`,
  `SessionOfRun` and `ExitCleansUp`;
- `TestsRunAsLogonUser`: the second half of `BoundToKey`, the user of a run of unit tests,
  with `BackAndForth` too;
- `SessionsBoundToKey`: `BoundToKey` under `~ BackAndForth`;
- `SessionsImplementLifecycle`: `Spec => LifecycleSpec`.

The argument. `SafeInv` has, besides the types and the steps of each call, who holds
`startMu` and `mu` (`LockInv`; while one creates a session there is none to discard), that
no run is active while somebody holds `startMu` (`RunInv`), and that no handler is left
when the hook runs (`ExitInv`). `BoundInv` follows a pair of sessions to the comparison of
the keys: one that was bound to the wrong system is not kept, since the active system is
then not that of its key; `~ BackAndForth` is what makes this inductive, and is needed
nowhere else. The refinement needs that the run being cleaned up is the newest
(`BornInv`): a new one is created only when the one before is stopped.

`DebugWaitsProofs`, for any callers and number of runs and rearms:

- `WaitTypes`: `Spec => []TypeOK`;
- `NoChangeIsMissed`: `NoLostWakeup`, the safety half of `WaitReturns` and
  `SettledReturns`: a caller that waits while what it waits for has come about waits on a
  closed channel;
- `VersionsIdentify`: `VersionsDiffer`, no two runs are in states of the same version, so
  that a `since_version` of an older run cannot hide a state of a newer one;
- `WaitsImplementLifecycle`: `Spec => LC!Spec`.

The argument. `WakeInv`: the channel of a waiter is that of the present state, and then
the condition was looked at in that state and does not hold, or it is that of an earlier
state. It is inductive because every change gives a version greater than all before it
(`VersionsDiffer`). `NoLostWakeup` and `VersionsDiffer` are stated beside their proofs; no
run checks them (TLC finds them true in the instance of `waits`, and false with
`Channel_bug` and `NextVersion_bug`).

`ServerProofs`, for any callers, objects, limit of the semaphore and handlers of the log,
for every way to start the process, with every fault:

- `ServerTypes`, `PromisesHold`, `AnswersAreTrue`, `LoggedLocally`: `Spec => []` of `TypeOK`,
  `PromisesKept`, `AnswersTrue` and `LogsLocally`.

The argument. `StartPromises` is what `Start` decides, and no later step changes it.
`CallInv` says that at each step of a call every object is in a state of its tool
(`WorkOK`), that its entry is the one for that state (`EntryOf`), and that the counters
are those of the entries the loop has passed, or of the packages on disk. When the loop is
at its end these are the cardinalities that the promise names, because the states of the
objects that were passed are those of the tool and nothing else. That at most `Limit`
requests are in flight is the same kind of counting. `LineInv` says how far a line is when
it has been at stderr.

Both `DebugBreakpoints` and `Server` choose the least of a set of numbers (a new ID, a free
place); that there is one is `HasFirst` in `LeastProofs`, by well-foundedness of the
naturals and without induction over an operator.

The assumptions on constants are the `ASSUME` of each module: bounds that are numbers
(positive where the code has at least one: IDs, objects, places in the semaphore), names
of callers that differ from the marks for "nobody" and "the idle timer", functions of the
right domain. None restricts what a client or SAP may do; what does is a switch
(`Overlap`, `BackAndForth`, `Slow`, `Lossy`, the sets of faults) or a bound
(`AttachesOnce`) and is named in the theorem.

Only model-checked: the liveness properties `LockReleased`, `IdleRunEnds`, `StoppedLetsGo`,
`WaitReturns`, `SettledReturns` and `CallsAnswered` (liveness under fairness is outside the
prover), and the pure operators of `Startup` that the start of `server` enumerates.

## Plan

Next, in this order: `NothingForgotten` and `DebuggerListExact` under weaker conditions,
named by the fault that needs each; the fault-free theorems of `DebugRun` for failed
requests that SAP did not carry out; then `debug_run`'s argument checks, each
against a reference definition.

## Not modelled

- The tools that send one request and convert its answer (search, query, DDIC,
  documentation, navigation, completion, ATC, short dumps, message classes, versions,
  refactoring, enhancements): they keep no state, and what could go wrong is in the
  conversion.
- `debugrun_args.go`, `debugrun_instructions.go` and the guides: parsing and texts.
- `debugrun_variables.go`: for a run it is one in-attempt call; its answer is a
  conversion.
- The cache of the OK-code look-up (`debugsession.go:54-78`) and source excerpts: they
  only decide which instructions a run is given.
- `cmd/login.go`: one value of a channel of capacity 1, then a file; the rest is the
  browser and HTTP.
- Reading the configuration, serving stdio or HTTP: I/O.
