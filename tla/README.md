# KiCad Studio: a verification of its concurrent core

This directory models the parts of the KiCad Studio extension
(`apps/vscode-extension`) whose correctness depends on the order of events: child
processes, timers, overlapping async calls, a server that restarts. It holds TLA+
modules, TLC configurations that model-check them on small instances, and theorems
checked by TLAPS for every value of the constants. Paths below are relative to
`apps/vscode-extension/src/` unless they start with `docs/` or `test/`.

The extension host is one JavaScript thread. What interleaves are continuations
after an `await`, timers, events of child processes and of the editor, and answers
of a server. An action of a model is one callback, or one stretch of code between
two awaits; what runs without an await in between is one action.

## Inventory

| Component | State it keeps | Operations | Interacts with | Hard because |
| --- | --- | --- | --- | --- |
| CLI runner, `cli/kicadCliRunner.ts` | running commands by key, abort controllers; per execution a process, a timer, a promise | `runWithProgress`, `cancelAll`; timeout, `error`, `close` | detector, Node processes | calls share executions; several things end one execution |
| Check service, `cli/checkCommands.ts` | a temporary report file per check | `runDRC`, `runERC` | runner, file system | reports are named by the millisecond |
| Diagnostic state, `state/stateStores.ts`, `language/diagnosticsAggregator.ts`, `statusbar/kicadStatusBar.ts` | summary and latest run per project and overall; Problems entries per file; what the bar shows | apply a result, record a failure, mark stale, switch project, close a document | checks, viewers, status bar | results of several projects in any order; inherited and stale reports |
| Context bridge, `mcp/contextBridge.ts` | last hash, pending context, flush timer | push, flush, dispose | MCP adapter | debounce against immediate pushes and disposal |
| Studio context controller, `activation/studioContextController.ts` with the events of `extension.ts`, save checks and check commands | cursor timer; builds in flight | build, push, schedule, dispose | editor, detector, diagnostic state, bridge | a build reads its parts at different times and builds overtake each other |
| MCP client, `mcp/mcpClient.ts` | session id, server card, state kind; the first two also in `globalState` | tool call, connection test, handshake, retry | MCP server, storage | shared handshake, retries, server restarts, reloads |
| CLI detector, `cli/kicadCliDetector.ts` | detected CLI, capability caches | detect, clear cache | settings, processes | probes in flight when the configuration changes |
| Workspace context, `activation/workspaceContextController.ts`, `workspace/projectContext.ts` | two debounce timers, in-flight and queued flags; the project store, context keys, last selection | refresh, select project; events of files, focus, settings, trust | detector, project store, status bar | a refresh reads over many awaits; refreshes are coalesced; selections come in between |
| Viewer editors, `providers/baseKiCanvasEditorProvider.ts` | panels, pending refreshes, payload cache, release timers | open, refresh, hide, show, close | webviews, viewer store | payloads in flight together, hidden panels |
| Document store, `language/kicadDocumentStore.ts` | parse cache, parses in flight | parse, schedule, invalidate | language features | results of older versions |
| Quality gates, `providers/qualityGateProvider.ts` | gates, also in `workspaceState`; a debounce timer | run all, run one, refresh after a DRC | MCP tools | runs in flight together each replace the gates |
| Fix queue, `mcp/fixQueueProvider.ts` | the list of fixes and their states | refresh, apply one, all, or by id | MCP tools, dialogs | the list is replaced while fixes of the older one are applied; calls are posted again |
| Chat panel, `ai/chatPanel.ts` with the providers' requests | histories, busy flags, one abort controller; the stored history | prompt, cancel, clear, open, close | AI providers, `workspaceState` | prompts overlap, streams break, panels close |
| PCM service, `library/pcmService.ts` | installed packages in memory, `globalState`, `installed_packages.json`, directories and library tables; the catalogue shown | install, update, update all, uninstall, refresh | network, kicad-cli, file system | failure or reload in the middle, outdated package objects |
| Exports, variants, component search, telemetry | jobs, project file, results, buffer | see the sources | runner, files, network | partial failure, out-of-order results |
| Views, language providers, AI and lm wrappers, settings, policy, BOM, diff | little or none | rendering, parsing, dialogues | the above | mostly pure functions |

What makes the modelled components correct:

- **Runner.** One unstopped process per command; every waiter learns one outcome; no
  live process that nothing can stop; nothing left behind.
- **Checks.** A check reports its own file, removes its report, and ends.
- **Diagnostic state.** What a report says of itself (fresh, last good run, file)
  agrees with the checks that happened and with what the Problems panel lists; a
  failure takes nothing away.
- **Context.** The server ends up with the live context, is not sent the same one
  twice in a row, and nothing pending is forgotten.
- **MCP client.** Whoever waits is told; a test tells what the server is; every call
  ends.
- **Workspace context.** The list of projects changes as a whole, a selection is never
  taken back, and when nothing happens any more store and context keys agree with disk,
  settings and trust.
- **Gates and fixes.** A gate changes only by its own run; a DRC is followed by a refresh;
  a fix is applied no more often than it was confirmed, and not while it is read-only.
- **Viewers.** No older content is cached under a newer mtime; visible panels catch up.
- **Chat.** A prompt without a rival can be cancelled, what is stored is what is shown, and
  no empty answer stays behind.
- **Packages.** Memory, storage, KiCad's list and the view agree, and a package that
  counts as installed has its files and table entries.

`PROJECT.json` lists every component with what is modelled of it, and under `hazards`
the places in the code where these could go wrong.

## Modules

| Module | Models | EXTENDS |
| --- | --- | --- |
| `CliRunner` | `KiCadCliRunner` | |
| `CheckService` | `runCheck`, composed with the runner | `CliRunner` |
| `DiagnosticState` | `DiagnosticStateStore`, Problems entries, status bar items | |
| `ContextBridge` | `ContextBridge`, alone or as part of the controller | |
| `StudioContext` | the controller, composed with the bridge | `ContextBridge` |
| `McpClient` | `McpClient` and the server it talks to | |
| `ActiveProject` | abstract: what readers of the project store are promised | |
| `WorkspaceContext` | the workspace context controller, project discovery, the detector's caches; implements `ActiveProject` | |
| `McpAvailability` | whether the server can be called; the budget of events | |
| `QualityGates` | `QualityGateProvider` over the gate tools | `McpAvailability` |
| `FixQueue` | `FixQueueProvider`, its commands, the server's queue | `McpAvailability` |
| `McpViews` | both views over one availability, reloaded together | `QualityGates`, `FixQueue` |
| `ViewerEditor` | `BaseKiCanvasEditorProvider` for one file | |
| `ChatPanel` | `KiCadChatPanel` and a provider that fetches | |
| `PcmService` | `PcmService` and its commands | |
| `*Proofs` | theorems on the module of that name; `CheckServiceProofs` on the runner too, `StudioContextProofs` on the bridge, `McpProofs` on `McpClient` and `McpViews` | those modules, TLAPS |
| `MC*` | instances for TLC | that module |

A definition whose comment begins with *Mutant of* is a variant of an action with a
plausible bug. No specification uses it: put in the place of the action, it breaks the
property it was written for, which shows that the property can fail.

### CliRunner

`running` is `runningCommands`, `controllers` is `this.controllers`; `promise`, `child`
and `timer` belong to an execution and are indexed by the call that started it.

| Code | Actions |
| --- | --- |
| `run` up to the detection | `RejectOptions`, `Start` |
| the continuation after `detect(true)` | `Detected`: `AskUser` (then `CliMissing`), `Join`, `Execute` or `ExecuteThrows` |
| the continuations after the promise, and the `finally` block | `OwnerReturns`, `JoinerReturns` |
| the progress notification, `cancelAll`, the timeout | `Cancel`, `CancelAll`, `Timeout` |
| `error` and `close` events | `SpawnFails`, `ChildCloses`; `ChildExits` is the process itself |

Node's part is modelled from its documented behaviour: an abort signal kills a live
process and emits `error` at once; a signal that was aborted before the spawn does so
on the next tick (`QueuedAbort`); `close` comes after the exit once the streams are
drained. A command key is one value, so the equality of keys, not their text, matters.

### CheckService

A key is a file and the millisecond of `Date.now()`, which is what distinguishes two
checks of one kind: `report[t]` is the file at that name. `WriteReport` is kicad-cli
writing it; a killed process may still do so. `ReadReport` and `EndCheck` are the two
parts of `runCheck` after the run, and every step of the runner is a step here. Reading
may throw, on a missing report, one that another process has not finished, or a checked
file that is gone: the check then ends without a result (`"error"`, `"unreadable"`), and a
report that made `JSON.parse` throw is removed like any other. What the process of a failed
or killed run writes after its check has ended stays behind; `CheckInvariant` says that
nothing else does.

### DiagnosticState

A *run* is a successful check, a *summary* is what the store says about a source: its
file, project, freshness, and the run whose time is `lastGoodCapturedAt`. `Apply`,
`RecordFailure`, `MarkStale`, `CloseDocument` and `SetActiveProject` are the store's
operations with the writes they make to the Problems collection and, through
`onDidChange`, to the status bar (`Fire`). They come in any order, since checks of
several files are in flight at once. The project of a file is asked for when the result is
applied, so each result brings its own: a file's project may differ from one check to the
next. `listedFor` is a history variable: the project for which a file's entries were set
last, if its document was not closed since.

### ContextBridge and StudioContext

A context is what the editor shows and the number of the DRC run whose errors it
carries. `builds` holds the builds begun: `Detected` reads the DRC run, `PushBuilt`
pushes. `owed` counts checks that have stored their run and still have to push, for the
push waits for the user to answer a notification. Immediate reasons (`drc`, `save`)
flush at once, the others arm the flush timer again.

Not everything that changes pushes. `Focus` is a text editor being activated, which does;
`ChangeUnpushed` is a refresh of the workspace context that makes another project active,
or the tab of a custom editor; `DrcIsNotPushed` the checks on save and of the language
model tools. The history variable `unseen` says which half of the context has changed with
no build begun since.

`slips` is the other one. It records the two ways in which the push made last leaves an
older context behind it: a later build was handed over before it, or it equals the context
sent last while another is pending, which the flush then sends. `IdleIsCurrent` says that
without these, and with nothing `unseen`, the server has what is there, however builds and
the two debounces overlap. A change of the active project is behind until the next event.

### McpClient

`stage[r]` follows each request through posting, sleeping before a retry and the steps
of the handshake that await storage. `Waiting` requests share one handshake. Sessions
are named by the server (its *epoch*) that issued them; `Replace` starts another server,
perhaps with another version, `Reload` starts another client with what `stored` holds.
A request is bounded until the headers (`HeadersArrive`), and its body (`"reading"`) is not;
nor is the well-known metadata, which `StoreCard` reads, or `StoreCardUnread` could not.
`trial` is a history variable: whether anything disturbed the running test.

### WorkspaceContext and ActiveProject

`stage` and `run` are the refresh in flight and what it has read: the folders one by one
(`found`), then the CLI and the variants; `Publish` sets the store in one step, and context
keys and the bar follow. `queued` and `timers` are the coalescing. `selecting` holds
selections whose persisting `await` has not returned. A tree item or a pick keeps the
project it was made for, so any project that was ever `listed` may be selected; it stays
active, gone or not, until a refresh. `barName` is the name in the status bar, which a
refresh has read before its last awaits. The keys
`hasProject` and `hasVariants` are not modelled: they are set, like those that are, from what the
refresh has read. `gone` remembers which projects were
off the disk at some time during the scan: only these may a refresh miss.

`ActiveProject` has no refresh at all: a list that is announced as a whole, and choices that
are saved and then take effect in order, those of projects that are gone too. `View` maps the store, the persisted selection and
`selecting` to it.

### QualityGates, FixQueue and McpViews

A gate's value is the version of the design its result is of (0 for PENDING), so an older
result over a newer one is visible. `runs[s]` holds the tools asked and answered, and `met`
whether another run ended meanwhile. In `FixQueue` an operation (`ops`) goes on with the
items it took from the list as it was; `items`, `done` and `failed` are what is shown, `list`
which list it is; `queue` is the server's; `applied`
counts what the server did, `confirmed`, `unlisted` and `reposted` what it was asked for.
Whether a fix is read-only comes with each list (`readOnly`; `offered` are the fixes that
some list had otherwise), and an operation goes by the item it took. The server refuses by
an error, or `"declined"` by a result with `isError`, which the client takes for a success;
so what is shown as done was applied or declined (`DoneIsAnswered`), and the code cannot
tell which.
`McpViews` puts both over one `available`; a reload restarts both.

### ViewerEditor

Every write gives the file a new version, which is also its mtime. `builds[b]` is one
`buildViewerPayload` between its awaits (`stat`, `read`, `store`, `post`) and the panels it
is for. `wanted` is the version of the last save; `raced` marks panels for which two builds
were in flight together, and is cleared when one ends alone with the current content.

### ChatPanel

`runs[r]` is one `runPrompt` with its panel, stage and signal; messages are records of the
prompt that wrote them and how much of the text is there. `alone` says that no other
prompt overlapped, `foreign` that a prompt of a closed panel has stored its history, `mute`
that the stream of a prompt ended without a text (`StreamEndsMute`: an `error` event, no
body), whose empty answer the code keeps.

### PcmService

`installed`, `managed` and `catalogue` are the service's fields; `stored`, `listed`, `files`
and `tables` what lies on disk. `ops[o]` is a command with the package object it holds
(`offer`: the latest version and the version installed *when the object was made*), and its
stage: `fetch` or `cli`, then `save`, `write`, `index`, then a refresh (`load`). A refresh
holds the packages of the repositories that have answered and publishes them with the last
answer. Versions are compared twice: `isUpdateAvailable` by epochs and parsed numbers
(`Newer`), `installPackage` by the string (`Present`). Three history variables name what the
code does not protect: `damaged` (an update that failed, was cut by a reload, or whose
version has the string of the installed one, and packages whose table names begin with
another's prefix), `cut` (a reload between `globalState` and KiCad's list) and `overlooked` (a
package changed after a refresh in flight had read it). The properties say that nothing else
does harm: not commands on other packages, not updates that overlap, not failed downloads of
an install, not an update of all that stops in the middle.

## Runs

| Run | Expect | Shows |
| --- | --- | --- |
| `cli_runner` | pass | sharing, settling, stopping and cleaning up of executions |
| `check_service` | pass | checks report their own file, clean up and end |
| `check_isolation` | violation | two checks begun in one millisecond share a report |
| `diagnostic_state` | pass | reports, runs and Problems entries agree |
| `studio_context` | pass | the context converges, and timers and builds run out |
| `mcp_client` | pass | waiters, tests and calls end as they should |
| `workspace_context` | pass | the store implements `ActiveProject`; selections are kept; a quiet state is current, and comes |
| `mcp_views` | pass | gates change by their runs only, a DRC is followed by its gates, fixes are applied as confirmed |
| `viewer_editor` | pass | the cache is never outdated; no save is passed over; visible panels catch up |
| `chat_panel` | pass | the controller is the run's, the stored history is the shown one, prompts end |
| `chat_cancel` | violation | a cancel after the headers does not stop the stream |
| `pcm_service` | pass | memory, storage, KiCad's list, the view and the files agree |

The violations are disagreements between the code and a test or document of the
repository; `PROJECT.json` quotes the line each contradicts.

- `check_isolation`: `Date.now()` has one value per millisecond, and two save checks may
  begin in one when "save all" saves two files.
- `chat_cancel`: `request` unties the caller's signal in its `finally` block, when the
  headers have come; the loop that reads the stream looks at no signal.

Five more configurations are kept beside the runs. Each refutes one property, which the
passing properties leave open by a named exemption or condition; run them by hand with
`tlc -config <cfg> <module>`.

| Configuration | Module | Refutes | Because |
| --- | --- | --- | --- |
| `McpTimeout.cfg` | `MCMcpClient` | `RequestsTimeOut`: a request ends in bounded time ("MCP HTTP request timeout in seconds", `docs/extension/settings.md:47`) | `fetchWithTimeout` clears its timer at the headers, and `readRpcResponse` awaits the body after it (`mcp/mcpClient.ts:728, 734, 799-816`) |
| `FixReadOnly.cfg` | `MCMcpViews` | `ReadOnlyIsNotSent`: no item is sent while it is listed as read-only (`test/unit/fixQueueProvider.actions.test.ts:76`) | `applyAll` and the dialog hold the item listed before; a refresh behind them brings a `disabledReason` they do not see (`mcp/fixQueueProvider.ts:193-217`) |
| `FixRefusal.cfg` | `MCMcpViews` | `ApplyAllStopsOnFailure` (`test/unit/fixQueueProvider.test.ts:229`) | `callTool` does not look at `isError`, so the item is shown as done and the next is sent (`mcp/mcpClient.ts:273-310`) |
| `WorkspaceBarName.cfg` | `MCWorkspaceContext` | `BarNamesActiveProject` (`docs/getting-started.md:49`) | `doRefreshContexts` hands the bar the project it has read before it awaits its `setContext` calls; a selection in between has set the newer name (`activation/workspaceContextController.ts:211`) |
| `PcmEpoch.cfg` | `MCPcmService` | `UpdatesInstall` (`test/unit/pcmService.test.ts:367`) | `updatePackage` removes the files because `isUpdateAvailable` compares epochs, and `installPackage` returns because the strings are equal; an outdated package object does the same (`library/pcmService.ts:181, 201-212, 244-257`) |

Each module's invariants are conjunctions of named parts: `RunnerInv`, `CheckInv`,
`StoreInv`, `StudioInv`, `McpInv`, `WorkspaceInv`, `McpViewsInv`, `ViewerInv`, `PcmInv`
join the types with the parts that hold together.

### Bounds

- `CliRunner`: three calls, two keys. Two calls share an execution while a third runs
  another command, or the third retries after the first was cancelled and the second
  joins the retry. Calls and keys are symmetric. The theorems need no bound.
- `CheckService`: two checks, two files, two milliseconds: sharing both, either or
  neither. The first check is fixed to the first file and millisecond, as files and
  milliseconds are interchangeable. Without symmetry, for liveness.
- `DiagnosticState`: two files, each in either of two projects or in none at every check:
  the smallest setting in which a report can be inherited across files, across projects
  and from none. `MaxRuns = 2`: a clean and a dirty one, or two of different files. One
  source: `drc` and `erc` never touch each other's fields, and a file has only one. Files
  and projects are symmetric. The theorems need no bound.
- `StudioContext`: two views, one DRC run, three builds: two that overtake each other and
  one that a timer begins. The theorems hold for all bounds.
- `McpClient`: one call beside tests, their `tools/list` and the handshake, so that three
  requests share a handshake; two attempts (a retry and the last failure); two servers,
  each compatible or not, with sessions or without.

- `WorkspaceContext`: two folders, two CLIs, two events of user and file system beside what
  the controller does itself: a change during a refresh and one after, or a selection and a
  change. The theorems need no bound.
- `McpViews`: three events, two runs in flight, two versions of the design; three fixes, any
  of them read-only in any list, two operations in flight, four lists: a list can be
  replaced twice while one operation waits. The violations need one or two fixes, no run.
- `ViewerEditor`: two panels, one of them hidden or closed while the other is shown; three
  versions, three payloads in flight, four events. The theorems need no bound.
- `ChatPanel`: two prompts, two panels one after the other, three events, a history of three
  messages, so that the second prompt trims the first.
- `PcmService`: two packages of two repositories (so that a refresh has a middle), the name
  of one beginning with the other's; two versions, which differ in the string for one package
  and in the epoch alone for the other; three commands, two of them in flight,
  and any number of reloads. What was installed at first was installed directly and the
  newest versions are offered; commands and refreshes bring about the other cases.

Deadlock is checked in `DiagnosticState` and `PcmService` only. The other systems may stop:
all calls are made, the events are used up, the extension is deactivated.

### Fairness

Callbacks that are queued run, timers that are armed fire, and the storage and the
detection answer: the event loop guarantees these, and they are weakly fair. A request
to the server is bounded by `fetchWithTimeout` until its headers, and by nothing after them.
So no fairness is assumed of a body that is being read, nor of the well-known metadata, and
`EveryCallEnds` is conditional: every call ends if no request stays for ever in such a read
(`Unbounded`). It then rests on the timeout and the count of attempts. That the condition can fail is
`RequestsTimeOut`, which the code violates. Users, `cancelAll`, events of the editor, the exit
of a kicad-cli process and answers of a server are not fair; `EveryCheckEnds` rests on the
CLI timeout. The message that kicad-cli is missing is awaited without limit: `EveryCheckEnds`
says so.

In `WorkspaceContext` the timers, the file watcher, the steps of a refresh and the resumed
selections are fair; in `QualityGates` the ends of runs and the debounce, not the answers:
`DrcRefreshFollows` is conditional on every run's calls being answered now and then, for a
body may stall there too; in `ViewerEditor` the steps of a build and the debounce; in
`ChatPanel` the steps of a prompt except the connection test it begins with, which awaits
such bodies, and the arrival of chunks, which no timeout bounds: `EveryPromptIsTaken`
promises, where the test comes back, an end or a reply being received. In `StudioContext`
the cursor timer is fair though moves arm it again: the events that do so are bounded. The fix queue's
dialogs wait for the user, and PCM downloads have no timeout of their own, so neither claims
liveness.

## Proofs

TLAPS checks every theorem for any number of calls, keys, projects, files, views and
builds. The assumptions are those the modules name: sentinels differ from values, bounds
are naturals, and the context of `StudioContext` is the pair of a view and a DRC run.

- **CheckServiceProofs, the runner.** All safety properties of `cli_runner` and the parts of
  `RunnerInv`. `RegisteredIsExecuting` is
  inductive given types: the `finally` block deletes only what it registered, because
  registration is refused while the entry exists. `ExecutionIsConsistent`, inductive
  given types too, is the strengthening for the rest: alone, `LiveChildIsStoppable` and `NothingLeaks` say nothing
  of an execution that has not started, or of a signal spent before the timeout, and a
  step could break them. `OneUnkilledChildPerKey` follows from the two together: a live
  process is unsettled, an unsettled execution is registered, and a key has one entry.
- **DiagnosticStateProofs.** All properties of `diagnostic_state` and the parts of `StoreInv`. `LastGoodIsLatestRun`
  needs `ReportlessIsUnknown`: a failure in a project without a report starts from the
  store's one, and could adopt a run that the project's own latest run does not match.
  `FreshReportIsListed` needs `FreshReportIsOwn`: a run or a reload in another project
  touches no file that a fresh report is about.
- **StudioContextProofs.** The bridge's properties are proved of the bridge under any order of
  pushes, timers and disposal (`BridgeSpec`), and then of the controller, whose steps are
  among those. `IdleIsCurrent` follows from `LatestBuildIsCurrent` (the latest build has read
  what is there, but for what is `unseen`) and `LatestBuildIsEffective` (what is effective is
  what the latest handed-over build read, but for `slips`), with `PendingIsTimed`.

- **CheckServiceProofs, the checks.** Every step of the check service is a step of the runner or leaves
  it alone (`CheckImplementsRunner`), so the runner's theorems hold of it. Its own inductive
  invariant `ChecksFit` ties a report to the executions that wrote it and a verdict to the
  outcome; a check whose millisecond is its own is the only one that writes, reads or removes
  its report, whence `CheckReportsOwnFile`.
- **McpProofs, the client.** `McpInv` is inductive together with `RequestsAreConsistent`: only
  a request with an attempt left sleeps, and the handshake captures an answer that has come.
  `TestTellsTheServer` rests on `TestInv`. While nothing has disturbed a test, the session,
  the handshake it shares and its `tools/list` are of the running server (`TestIsCurrent`);
  and the session in an answer is taken over before anybody who waits is released
  (`AnswersAreKept`), so the list goes out with a session the server knows, or waits for a
  second handshake. Calls may well be rejected meanwhile: that does not reach the test.
- **McpProofs, the gates.** `GatesInv`: types; the stages and answers of a run fit
  (`RunIsConsistent`); nothing is of a design that is not there yet (`NothingIsAhead`); and a
  run that no other run's end overlapped has asked for nothing older than what the gates
  show (`UnmetRunIsNewer`). The last one is what `NewerResultsStay` needs of the step that
  publishes; `OnlyRunGatesChange` needs the types and the run. `DrcIsUnderWay` is inductive
  given `GatesInv`: whatever begins or ends, a refresh that asks both tools after the DRC
  stays (`Carries`), and when it ends both gates show what it got.
- **McpProofs, the fix queue.** An operation's stage fits its kind (`OpIsConsistent`); it holds
  only shown items as long as its list is the shown one (`TakenFromList`); what
  the server has answered it has applied or declined (`DoneItemsAreAnswered`). `EachConfirmationAppliesOnce`
  compares counters, so it needs `LicencesArePaid`: what the server has applied, together with
  the operations in flight that may still have it apply the fix, counted as the cardinality
  of a set, never exceeds what was confirmed, sent by its id or posted again.
  `ReadOnlyNeedsUnlistedId` needs `ReadOnlyOnlyById`: an operation that works on a fix that
  was read-only in every list got it by its id, and has sent it unlisted. Of a fix that has
  become read-only it says nothing: that one may be sent (`FixReadOnly.cfg`).
- **WorkspaceContextProofs.** `WorkspaceInv` is inductive. `SelectionKept` follows step by
  step: only `Publish`, a resumed selection and a reload change the active project, and what
  `Publish` misses is in `gone`. `StoreImplementsActiveProject` is the safety part of the
  refinement: initial states map to initial states, steps to steps or stutters, the
  selection of a project that is gone too.
  `QuietIsCurrent` is the safety of `EventuallyCurrent`: it needs of every stage that what the
  refresh has read so far is current, or another refresh is asked for (`RunIsFresh`), and that
  what the detector has cached is what the configuration finds (`CachesAreOfSetting`).
- **ViewerEditorProofs.** `ViewerInv` is inductive: a payload's content is at least as new as
  the mtime read before it, from `stat` through `read` to `store`. `CacheIsCurrent` follows:
  what is cached under the file's present mtime is its present content. `SavesReachPanels`
  is the safety of `VisiblePanelsCatchUp` and needs `ServedInv`: hidden panels that are behind
  are marked or served, too (`BehindIsServed`); a panel without a page is being opened, so a
  message to it is not the only one (`BlankPanelsOpen`); two builds for a panel have raced
  (`SharedPanelsRace`), so a payload that is too old and alone cannot take a newer one's
  place (`StaleIsBehind`).
- **ChatPanelProofs.** `LoneRunIsHeld` from `PromptsInv`: a prompt marked `alone` shares its
  panel with no other prompt in flight, so nobody replaced or removed its controller. The
  histories need `ChatIInv`. `HistoriesFit` says what each message owes to its prompt's stage:
  one that has not asked has no answer in its panel, none has two, and an empty one in the
  open panel belongs to a prompt that is in flight, was not alone, or had a mute stream. So `Stop`, which takes
  back one empty answer, takes back the only one; and a prompt that ends because it finds no
  controller was not alone, by `PromptsInv`. `StoredIsShown` is `StoredFollowsHistory` with
  the roles: what differs is an answer in flight, at the same place in both. It must be
  known of every panel, as a new one starts with what is stored, and that needs the panels of
  all prompts to have been made (`OthersFit`). The lemmas before say what trimming, taking
  out and rewriting do to a sequence of messages.
- **PcmServiceProofs.** For any relation `Newer` and any strings of the versions. `PcmInv` and `InstalledPackagesAreWhole` from `PcmIInv`, which is
  their conjunction with what commands in flight hold. A command's object and stage fit
  (`OpsShaped`); what is installed is managed; storage, KiCad's list and the view each differ
  from memory only where a command is between two writes, a reload fell there (`cut`), or a
  refresh had read the package before it changed (`overlooked`, through `RefreshesSee`).

Only model-checked: the liveness properties (`EveryCheckEnds`, `AlwaysIdleAgain`,
`EveryCallEnds`, `EventuallyCurrent`, `DrcRefreshFollows`, `VisiblePanelsCatchUp`,
`EveryPromptIsTaken`) and the fair part of `ImplementsActiveProject`, since the provers handle
neither fairness nor ENABLED (of `EventuallyCurrent`, `DrcRefreshFollows` and
`VisiblePanelsCatchUp` the safety is proved: what is behind has something under way); and the
properties that the code breaks and TLC refutes.
Every other property of a run is stated by a theorem. No module uses recursion.

## Not modelled

Text, redaction, logging and layout; the contents of reports, contexts, payloads and
messages beyond what the properties tell apart; an untrusted workspace (but for its effect
on the context keys); the legacy `/sse` fallback and the background reconnection of the MCP
client; tool calls of a chat answer and the wire formats of the AI providers; the viewer's
metadata and themes; KiCad's own changes to `installed_packages.json`, and the parsing of
repositories and archives. Most of the code is not concurrent at all: the parser, the
language providers, BOM, diff, DRC rules, scorecards, rendering and the settings forms are
functions of their input or dialogues of one step. The components marked `not_modelled` in
`PROJECT.json` say so one by one; what is *partly* modelled is named there too.

## Plan

What is left, in order of weight:

1. **MCP activation** over `McpClient`: the result of a test is published to `McpStateStore`
   after several awaits, so that an earlier one can overwrite a later one's.
2. **Document store** (`language/kicadDocumentStore.ts`): parses in flight against edits,
   saves and closes; an abstract cache of one version per document, and its refinement.
3. **Export jobs** over `CliRunner`: a package of exports of which one fails.
4. **Component search** and **telemetry**: results that arrive out of order, and the bounded
   buffer with overlapping flushes.
5. **Tool calls** of a chat answer, and the drafts of `variants`.
6. Compositions: `StudioContext` with the DRC runs of `DiagnosticState` (whose errors are
   pushed), and with the delivery of `McpClient`.
7. Proofs: the safety of what items 1 to 6 add, and their refinements step by step.
