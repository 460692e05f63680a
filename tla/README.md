# A TLA+ model of command-relay-mcp

command-relay-mcp lets MCP clients run commands, manage processes and edit files on remote
devices. A *Gateway* serves MCP over HTTP; an *Agent* on every device dials the Gateway and
keeps one WebSocket open; each MCP tool call becomes one RPC on the connection of the device
it names. This project models the parts of the system where steps of several actors meet: the
relay between Gateway and Agents with its table of tools, the capture of process output, the
life of the Agent process with the processes it manages and the history it keeps, the file
handlers, the read queries and the self-update.

Paths in this document are relative to the repository (`src/`).

## 1. Inventory

| Component | Source | State it keeps | Operations | Modelled in |
|---|---|---|---|---|
| RPC multiplexer | `gateway/agentconn.go` | `nextID`, `pending` (request_id to channel), the WebSocket | `Call`, `readLoop`, `pingLoop`, `Close` | Gateway |
| Registry | `gateway/registry.go` | device_id to connection | `Register`, `Unregister`, `Get`, `CloseAll`, `List` | Gateway |
| Agent endpoint | `gateway/wsserver.go` | one handler per connection | accept, hello, secret check, registration, serve, unregister | Gateway |
| Gateway process | `gateway/cmd/main.go`, `gateway/config.go` | none | start, signal, `CloseAll`, exit | Gateway |
| MCP tools | `gateway/mcptools.go`, `gateway/read_query_tools.go` | none | the tools, `deviceCall` under each of them | McpTools, Gateway (`deviceCall`), ReadQuery (parameters) |
| Wire protocol | `internal/proto/message.go` | none | methods, mutating methods, limits, error codes | McpTools, Gateway, AgentMain, FileHandlers |
| Agent connection | `agent/connection.go` | current connection, a WaitGroup of request goroutines | `Run`, `runOnce`, request goroutines, `pingLoop` | AgentSide, AgentMain |
| Dispatcher | `agent/dispatch.go` | none | `Dispatch` | AgentSide |
| Process manager | `agent/processmgr.go` | records of processes, per record exit code and `done` | `Start` and its goroutines, `Get`, `List`, `Terminate`, `TerminateAll`, `StartGC` | OutputCapture, ProcessManager |
| Ring buffer | `agent/ringbuffer.go` | retained bytes, start offset | `Write`, `Len`, `ReadFrom` | RingBuffer |
| Command handlers | `agent/handlers_command.go` | none | `Exec`, `Read` | OutputCapture, AgentMain |
| Process handlers | `agent/handlers_process.go` | none | `Start`, `Read`, `Write`, `Wait`, `Terminate`, `List` | OutputCapture, AgentMain |
| Execution history | `agent/history.go` | SQLite table `executions` | `RecordStart`, `RecordEnd`, purge, `Get`, `List` | History; promise: ExecutionLog |
| Agent process | `agent/cmd/main.go`, `agent/config.go` | none | start, stop, `TerminateAll` of both Managers | AgentMain |
| Process backends | `internal/backend/*.go` | pipes, scratch directory, status pipe | `Start`, `Wait`, `CloseIO`, `Terminate` | ProcessTree, ProcessManager |
| Sandbox probe | `agent/sandbox_probe.go` | the answer | probe at start | AgentMain (a constant) |
| Self-update | `internal/selfupdate/*.go` | the binary on disk, a temp file | check, download, verify, replace, re-exec | SelfUpdate; promise: AtomicUpdate; its re-exec among the handlers: AgentMain |
| File handlers | `agent/handlers_fs.go` | the file system | read, write, stat, list, move, delete, mkdir | FileHandlers |
| Read query | `agent/read_query.go` | none | 15 read-only queries, by a utility or the GitHub API | ReadQuery |
| Execution handlers | `agent/handlers_execution.go` | none | get, list | AgentMain |
| Device handler, version | `agent/handlers_device.go`, `internal/version` | none | read only | not modelled |

How the parts interact. An Agent's `runOnce` dials, writes a hello, and reads requests, each
handled in a goroutine of its own that writes its response on the same connection. The
Gateway's handler of that connection checks the secret, registers the connection (closing the
one it replaces, outside the registry's lock), and runs `readLoop`, which hands each response
to the channel that `pending` has for its request_id. `Call` runs in the HTTP handler of the MCP
request and shares `pending` and the WebSocket with all other calls of the device. In the
Agent, a handler that starts a process leaves three goroutines behind (two copies and one that
waits for the exit) and, when it answers before the end, one that records the end.

What is hard:

- calls, `readLoop`, the replacement of a connection, a silent network loss and the stop of the
  Gateway interleave freely; a result may arrive after its caller has gone;
- output, exit and end of file of a process come in any order, and a descendant may keep the
  pipes open for ever;
- a stop of the Agent races handlers that are about to start a process, processes that fork,
  exit or ignore SIGTERM, and goroutines that still record what happened;
- rows and scratch directories outlive the Agent, the goroutines that complete them do not;
- a self-update replaces the image of the Agent while all of this is under way, from assets that
  may change between two of its requests, with file operations of which each may fail;
- file handlers look at a path, and act on it in a later call; others act in between;
- a read query must end although its utility hangs, forks or leaves children with its output.

`PROJECT.json` lists the hazards with their lines and the properties aimed at them.

## 2. Modules

| Module | Models | State and actions |
|---|---|---|
| `Transport` | the WebSockets (external library, as the code uses it) | the two ends, the link and the frames of each connection; a link can go silent |
| `McpTools` | which tools exist, the method of each, its ReadOnlyHint, the table of mutating methods | constant definitions only |
| `Gateway` | the Gateway | `Call` in steps (`Get`, `Begin`, `EncodeErr`, `WriteFlush`, `WriteOk`/`WriteErr`, the `select`, `Cleanup`), the connection's handler (`ReadHello`, `CloseOld`, `ReadLoop*`, `PingFail`, `Unregister`), `CloseAll`, `Exit`, `Crash`, `Start` |
| `AgentSide` | an Agent's connection | `Dial`, `WriteHello`, `ReadRequest`, a goroutine per request (`Handle`, `HandlePanic`, `Reply`), `AgentPingFail`, `AgentCrash` |
| `RpcService` | the promise to an MCP client | at-most-once calls with three outcomes: answered, refused, unknown |
| `Relay` | Transport, Gateway and AgentSide together | the next-state relation, fairness, properties, the refinement mapping to RpcService |
| `RelayProofs` | theorems about calls and their outcomes | the invariant `IInv`, the refinement of RpcService |
| `RegistryProofs` | theorems about registration and `pending` | the invariant `RegInv` |
| `RingBuffer` | `agent/ringbuffer.go` | one operator per method |
| `OutputCapture` | one process, its pipes, copies and readers | the process and its descendants, the goroutines of `Manager.Start`, a command handler, a paging client |
| `CaptureProofs` | theorems about RingBuffer and OutputCapture | `Slices`, `Waiting`, and what a command and a client have read |
| `ProcessTree` | process groups as the backends use them (external) | exec, fork, detach, exit, `kill(-pgid)`, reuse of numbers |
| `TreeProofs` | lemmas about ProcessTree, shared by AgentProofs and QueryProofs | `TreeInv`, and what a tree's step may do |
| `ProcessManager` | records, exit-wait goroutines, collection, `Terminate` | `BackendStart`, `HandleWait`, `RemoveScratch`, `Drain`, `SetExit`, `CloseDone`, `Collect`, `SendTerm`, `SendKill` |
| `History` | the executions table and its writers | `RecordStart`, `RecordEnd` with its retries, the purge |
| `ExecutionLog` | the promise of the history | per execution: none, open, ended, gone, only forward |
| `AgentMain` | the Agent process: ProcessManager and History together | the handlers as goroutines (process.list in four steps, execution.get and .list in one), the stop, crash and re-exec |
| `AgentProofs` | theorems about AgentMain | the invariants `Base`, `Rows`, `Closing`; the refinement of ExecutionLog |
| `FileHandlers` | the seven file handlers over one file system | one action per call of package os (`StatForRead`, `ReadFile`; `ReadDir`, `Info`; `OpenForWrite`, `Write`, `Close`, ...) with its errors |
| `FileProofs` | theorems about FileHandlers | the invariant `FileInv`, one operator per kind of step |
| `ReadQuery` | one read query over ProcessTree | parameters and bounds (`Builds`), `cmd.Run` (`Start`, `WatchFires`, `WatchExpires`, `Wait`, `WatchResult`, `Drained`, `DrainExpires`), `LimitedOutput`, `Classify` |
| `QueryProofs` | theorems about ReadQuery | the invariant `QueryInv` |
| `AtomicUpdate` | the promise of the self-update | the file at destPath and the image are replaced as a whole, by something that was offered |
| `SelfUpdate` | the check goroutine, the publisher, stop, crash and start of the Agent | one action per request, check and file operation of `checkOnce` and `replaceBinary` |
| `UpdateProofs` | theorems about SelfUpdate | the invariant `UInv`, the refinement of AtomicUpdate |

Choices a reader should know:

- Frames are sets: no order is kept within a direction. Neither end could observe it, since each
  request has its own goroutine and a response is found by request_id.
- `WriteFlush` puts the frame on the network, `WriteOk` and `WriteErr` are the return of
  `ws.Write`: between them the frame may be carried out. A context that ends during a write
  closes the connection, as the library does.
- A message above the read limit closes the connection in the receiver. `OverLimit` says which
  messages may be that large.
- A request that cannot be encoded (`EncodeErr`) ends its call before anything is written, with or
  without an entry in `pending`. The tools' parameters are strings, numbers and lists, so this path is
  there for completeness.
- A panic of a handler may come before or after its effect.
- In `OutputCapture` a byte is its position and whether it is a character or half of one. In
  `ProcessManager` the same drain is a single step of any duration.
- A process tree is a leader, one child in its group and one detached child: enough to have a
  group without its leader, a group that outlives the exit, and pipes held by nobody in the group.
- Exit codes are the ones the code tells apart: 0, 1, 111 (the wrapper's), -1 (a signal), none.
- `Process.Wait` may fail for the processes in `Unobservable`: the record then has no exit code, and its
  row is completed without one (`ObservedCode`). `os.RemoveAll` may fail for those in `Undeletable`: the
  error is logged and the scratch directory stays (`scratch[p] = "left"`).
- Times are not modelled: a timeout may fire at any moment, a backoff ends.
- In `FileHandlers` a call of package os is one step, except that a `Write` may end half-way and
  `MkdirAll` may stop after any of its directories. A file has an identity of its own: it can be moved,
  removed or replaced while a handler has it open. A byte is its writer and its position; what a
  failed `Close` discards becomes holes, so that what others wrote behind it stays where it is. A file in
  `Special` (a proc file, a device, a FIFO) has `st_size` 0 whatever it yields, and keeps nothing that is
  written to it.
- In `ReadQuery` a command is what its request asks for (so many lines, since so many hours); the
  argument vector itself is left out. The goroutines are those of `os/exec` as `cmd.Run` uses
  them: the watcher of the context, the copy of the output, `WaitDelay`.
- In `SelfUpdate` a digest is the build it belongs to: two archives have the same one exactly when
  they are the same build. What a download returns is read at the moment of the request.
- Variables called observations in a comment belong to no code: they remember what a property
  needs (`clobbered`, `overtaken`, `steady`, `seen` in FileHandlers, `cut` in ReadQuery).
- `Crash` of the Agent ends its processes, as systemd does with the rest of the unit's cgroup.

Definitions called a *Mutant* in a comment are faulty variants of the definition that follows
them. They show that a property can fail: with the variant in place TLC finds it violated.

## 3. What TLC checks

| Run | Question | Instance | States |
|---|---|---|---|
| `multiplex` | Does every response find its own call while connections are replaced and callers give up? (`ResponseCorrelation`, `ReadLoopNeverBlocks`, `NoPendingLeak`) | 2 interchangeable calls, 2 connections, messages of any size | 218k |
| `service` | What may a caller conclude? (`AtMostOnce`, `OutcomeHonest`, `LostOutcomeByHint`, `ImplementsService`) | 1 call of a mutating tool, 2 connections, 2 faults of any kind | 369k |
| `registry` | Who is registered? (`TypeOK`, `RegistryRoutes`, `NoZombie`, `NewConnectionWins`) | 3 Agents of one device, one without the secret, 3 connections, 2 faults | 871k |
| `recovery` | Does the system recover? (`LostCallsReturn`, `DeadConnsLeave`, `Reconnects`) | 1 call, 4 connections, 1 fault, with fairness | 116k |
| `output` | Is output complete when the exit is reported, and is it reported? (`RingIsTail`, `DoneMeansCaptured`, `PagingComplete`, `TruncationSignalled`, `ExitIsPublished`) | stdout of 4 bytes, stderr of 1, buffer of 3, results of 2, pages of 1 and of the default, with fairness | 223k |
| `stop` | Does a process survive a graceful stop? (`KillBoundary`) | 2 processes, one of which refuses signals; process.start beside command.read, process.wait or process.write; one wait may fail | 3.2M |
| `history` | Are row, response and scratch directory right? (`HistoryTruthful`, `AnsweredMeansRecorded`, `ImplementsExecutionLog`, `SetupFailureExact`, `ScratchLifetime`) | 1 command.read whose `Process.Wait` and `os.RemoveAll` may fail, 4 SQLITE_BUSY, 1 other error, 1 crash, a re-exec | 1.0M |
| `live` | What do process.terminate, process_not_found and process.list mean, and do a stop, a termination and the record of the end come about? (`TerminatedMeansGone`, `NotFoundHonest`, `ListHonest`, `StopCompletes`, `TerminateWorks`, `HistoryCompletes`) | command.read, whose `Process.Wait` may fail, beside process.terminate, process.list, process.write, execution.get or execution.list, 1 SQLITE_BUSY, with fairness | 263k |
| `files` | What may a client rely on while others change the same paths? (`AckedWriteLands`, `ListingFaithful`, `OversizeOnlyByRace`) | 3 requests, a directory with 2 names in it and a file, regular or special, 3 regular files at most, a read limit of 1 byte, writes of 2 | 4.2M |
| `query` | Does a query end, whom does it leave behind, and is its result what it says? (`QueryReturns`, `CutShortMeansGone`, `OutputHonest`, `BoundsAsDescribed`) | every operation with values at both sides of each bound; output of up to 4 against a limit of 2, with fairness | 4k |
| `update` | Is the binary whole at any time, and does the Agent settle on the latest release? (`ImplementsAtomicUpdate`, `Settles`) | a development build and 2 releases, 2 builds of each asset, 3 faults, with fairness | 24k |
| `unknown` | see section 5 (`LostMutationIsUnknown`, violated) | as `service` | |

Why the bounds are enough for these questions. Two calls are needed to confuse responses and two
connections to have a stale one. A connection number is used once, so `Conns` bounds the number of
dials: the stale hello of a dead connection, the fault and a write that its caller cancels each
use one up, and `Reconnects` needs the fourth. Two faults allow a crash during the recovery from
a loss. Three Agents of one device allow a replacement of a replacement and a rejected one. Four
bytes overflow a buffer of three; a result of two is smaller than the buffer, as it must be (section 6);
the second stream is there because the exit waits for both. Four SQLITE_BUSY answers exhaust
`RecordEnd`'s three retries; `live` needs one to have a retry at all. `history` has a single request, since
each row has one writer and the other handlers only read the table; those that read it run in `live`.
Three requests on a file system allow a write, a second write to the same file and a move,
removal or replacement between any two steps of both; two names in a directory allow an entry
to vanish while another one is still to be looked at. Four units of output against a limit of two
reach the limit exactly, in one and in several writes, and exceed it. Two builds of an asset
are needed for an archive and checksums that do not belong together, two releases for going
forward and back, three faults for a failure in the recovery from a failure.

Deadlock is not checked: a model whose calls are done, whose connections are used up and whose
Gateway or Agent is stopped has nothing left to do, and that is the end of a run, not a fault.

Fairness. Goroutines run and the timers the code sets fire: weak fairness of each connection's
handler, call and request goroutine, of the exit-wait and copy goroutines and of main. A `Read` is
assumed to return only when its own end was closed or the peer's close reaches it; on a silent
link only the keepalive's `Ping` fails, within `pingTimeout`. A stopped Gateway exits and its
supervisor starts it again. In `ReadQuery` the
handler, the watcher of the context and the deadline of `readQueryTimeout` make progress; in
`SelfUpdate` the check goroutine does: its ticker fires and every request has a timeout.
Nothing is assumed of clients, panics, faults, publishers, of processes (they need not
end, read their input or obey SIGTERM; `StopCompletes` therefore excepts a process.write that waits for
ever, and that only), of collectors and updates. An Agent need not come back:
`LostCallsReturn` and `DeadConnsLeave` hold without it; `Reconnects` states as a premise
(`Redials`) that the loop of `Run` dials again after each backoff.

## 4. What is proved

Every safety invariant, every action property and every refinement that a run checks is also a
theorem, checked by TLAPS for all values of the constants: any number of Agents, connections,
calls, processes, requests, files, versions and faults, any size of buffers, pages, outputs and
writes. `PROJECT.json` lists the theorems. The assumptions are those the modules name (`ASSUME`); they are
about the shape of the constants, and TLC evaluates them in the runs. Three theorems have a
hypothesis more; none of them is true without it (section 5):

| Theorem | Hypothesis | Why |
|---|---|---|
| `TruncationIsSignalled` | `Cap > MaxOut` | a smaller buffer loses the beginning of the output without a flag (4) |
| `PagingIsComplete` | `Kinds = {"a"}` | a page may end inside a longer character (5) |
| `StopIsThorough` | `AutoUpdate = FALSE` | a re-exec forgets the processes of the old image (6) |

### The relay (`RelayProofs`, `RegistryProofs`)

`Correlation`, `ExecutedOnce`, `HonestOutcomes`, `ReadLoopProgress` and `LossReportedByHint` follow from
`IInv` (`Invariance`). None of them is inductive. `ResponseCorrelation` looks at the end of a
request's way, so `IInv` says what holds along the way: every frame, request goroutine, entry of
`pending` and response in `readLoop`'s hand that carries call `k` has the connection and the
request_id that `k` holds (`FramesMatch`, `HandMatches`), ids handed out are at most
`nextID` and belong to one call (`IdsTaken`, `IdsUnique`), and a call's channel holds its own
response only (`ChanOwn`). For `AtMostOnce` a request must be in one place only: not yet sent
(`Unsent`), or one frame or goroutine, or carried out (`Once`); for `ReadLoopNeverBlocks` and
`OutcomeHonest` so must a response (`ResponseOnce`, `Answered`). `CallsRouted` (a call in
progress holds a connection) is what `TypeOK` needs. The proof has one step per action;
`SameFrame` and `Shrink` are the cases of actions that leave these sets alone or only take from them.

`ServiceImplemented` maps each step to RpcService: `Get` opens or refuses a call, `Handle` carries it
out, `Cleanup` answers it or gives it up, the end of the Gateway gives up all that are open, and
everything else stutters; `IInv` gives the guard of each abstract step.
This proof found a fault of the model: the cases of `Outcome(k)` overlapped, and which one TLC
took was an accident of their order. They are disjoint now.

`RegistrySound`, `NoZombieConnections` and `NewConnectionKept` rest on `RegInv`: besides the two
properties themselves, a connection whose handler went past the hello belongs to an Agent that
knew the secret (`Verified`), and `CloseAll` has a snapshot only while it runs
(`SnapshotBounded`). `PendingDoesNotLeak` needs `FramesMatch` of `IInv`: the deferred delete finds the call's
own entry because that has the connection and the id the call holds.

### Output capture (`CaptureProofs`)

`Slices` says where every byte is: the stream is what the ring dropped, what it holds, what the copy
has in its hands and what is still in the pipe, in this order, and a ring that dropped something
is full. `RingHoldsTail` is a part of it. `Waiting` orders the steps of the exit-wait goroutine; it gives
`ExitFollowsCapture`. For the truncation flag, what the command handler has read so far and the lengths it
compares are related to the ring at that time: the ring that dropped something is full, so a
response shorter than it cannot reach its end. For paging, what the client has is the beginning of
the stream up to its offset, since one-byte characters are encoded as themselves.

### The Agent process (`AgentProofs`, `TreeProofs`)

`Base` is the conjunction of `Requests` (which stage a handler may be in, with which method and
process), `Records` (a record says what is true of its process: the exit after the wait, the code
the leader ended with or none if the wait failed, the scratch directory from before the start until
`os.RemoveAll`) and
`Ownership` (a process has one request that started it, its record is in one Manager, and is
missing from both only before the insert or when it is over). From it follow `ScratchLives`,
`NotFoundIsHonest`, and with a small invariant of their own `TerminateIsThorough` and `ListIsHonest`:
what happens between the steps of the two lookups and of the two snapshots can only move records
forward (`RecEvolves`).

`Rows` is the invariant of the history: a row shows a code only once completed, whoever is about to
complete it has what was observed of the process (`ObservedCode`, settled from the wait on:
`Published`), and a writer that is done without an error left no open row.
It gives `HistoryIsTruthful`, `AnswersAreRecorded` and `SetupFailureIsExact` (with `Answered`), and the guards
for `HistoryIsForwardOnly`, the refinement of ExecutionLog.

`StopIsThorough` needs `Closing`. After `Run` returned no handler is under way, so no process is
started any more; a group keeps its number while it has a member or its leader was not waited for,
so no signal is meant for another group (`OwnGroups`); and every process that has a record is over
or has a killer as soon as its Manager's `TerminateAll` began (`Cornered`). With the
`WaitGroup` of `Run` removed, the proof fails at the step that needs it.

### Files, queries, self-update (`FileProofs`, `QueryProofs`, `UpdateProofs`)

`FileInv` says what a handler has in each stage. `RequestStep` and `FileStep` reduce the
nineteen actions to eleven kinds of step as the request sees them and six as the files see them; each theorem
then goes by these. `AckedWritesLand` from `Landed`: what `Write` put is in the file from
then on, since appends of others go behind it, discarded bytes leave holes, and everything else is
observed by `clobbered`. `ListingIsFaithful` from `Faithful`: what was there all the time is listed,
skipped or yet to be looked at. `OversizeIsARace`, an action property of the step that reads, from
`Checked`: until the file
at the path changes, a regular file's size is the one `os.Stat` saw. The proofs required that the
branches of a handler do not overlap:
the CASE expressions for its errors were rewritten in the order the code tests them.

`QueryInv` relates the stages of `cmd.Run` to the group of the utility, the holders of its output
and the bytes counted. `UInv`: the archive in memory is an offered one from `Verify` on, the temp file
is complete before `Rename`, so destPath and the image are whole offered binaries at any time;
`UpdateIsAtomic` maps `Upload`, `Rename`, and `ExecSelf` or `Launch` to the three steps of AtomicUpdate.

### Only model-checked

The liveness properties: `LostCallsReturn`, `DeadConnsLeave`, `Reconnects`, `ExitIsPublished`,
`StopCompletes`, `TerminateWorks`, `HistoryCompletes`, `QueryReturns`, `Settles`. Fairness and
ENABLED are out of the prover's reach.

## 5. Disagreements between the code and what is said of it

Each was found as a TLC counterexample. The first one is a run of the project
(`expect: violation`), with the quotation in `PROJECT.json`.

1. `unknown`: a mutating request whose connection is lost after the frame was written and
   before `ws.Write` returns ends with the raw write error, not with execution_unknown
   (`gateway/agentconn.go:83`, `internal/proto/message.go:35`).

The others show up in the same models with other constants or other formulas:

2. `TerminateAll` skips records whose leader exited; a background child in the group survives the
   graceful stop: `KillBoundary` without its exception for finished processes
   (`agent/processmgr.go:225`; `agent/cmd/main.go:121` speaks of every process tree).
3. process.write blocks on the full pipe of a process that does not read. `Run` waits for
   the handler and `TerminateAll`, which would unblock it, comes after, so that the stop hangs:
   `StopCompletes` without its exception `StuckWrite` (`agent/handlers_process.go:186`;
   `agent/cmd/main.go:121`).
4. A buffer no larger than `MaxCommandOutputBytes` loses the beginning of a command's output
   without a flag: `TruncationSignalled` with `Cap <= MaxOut` (`agent/handlers_command.go:133`;
   line 41 calls the flag the caller's only signal).
5. A page boundary inside a multi-byte character replaces it by U+FFFD: `PagingComplete` with
   `Kinds = {"a", "h"}` (`agent/handlers_process.go:169`; `internal/proto/message.go:79` points to paging).
6. A re-exec forgets the processes of the old image and a stop under way: `KillBoundary` with
   `AutoUpdate = TRUE` (`internal/selfupdate/apply.go:166`, `agent/cmd/main.go:121`).
7. A process that a signal ended has exit code -1, not nil (`internal/backend/process_linux.go:77`;
   `agent/processmgr.go:72` says it stays nil).
8. sandbox_violation is set for every non-zero exit of a sandboxed command
   (`agent/handlers_command.go:215`; line 37 says it tells a denial apart from any other exit).
9. A row stays open in a healthy Agent after four SQLITE_BUSY answers (`agent/history.go:140`;
   `agent/handlers_process.go:137` says only if the Agent goes away).
10. The scratch directory of a command that the stop itself terminates may stay: main returns
    before the goroutine that removes it ran (`agent/cmd/main.go:129`).
11. Terminate of a process that was already waited for signals whichever group has its number now
    (`internal/backend/process_linux.go:93`).
12. file.read returns a file above the limit when it grew, or was replaced by a larger one, between
    `os.Stat` and `os.ReadFile`: `OversizeOnlyByRace` without `overtaken`. A proc file, a device or a FIFO
    passes the check with its `st_size` of 0 and is read whole, without any race: `OversizeOnlyByRace`
    without `Special` (`agent/handlers_fs.go:81`, `agent/handlers_fs.go:84`;
    `internal/proto/message.go:83` says larger files are rejected instead of being loaded).
13. file.list leaves out entries that are there and cannot be looked at, not only those that
    vanished: `ListingFaithful` without `skip` (`agent/handlers_fs.go:155` and its comment).
14. A query whose utility exited with 0 while a child keeps the output open is answered with "read
    query could not be started", and its output is dropped (`agent/read_query.go:398`).
15. A release that is older than the running version is installed, too: updates follow whatever is
    marked as latest (`internal/selfupdate/release.go:38`; `Settles` is stated accordingly).

## 6. Limits of what the runs say

`TruncationSignalled` and `PagingComplete` hold under the conditions of 4 and 5: a buffer larger than
the result, and characters of one byte. `KillBoundary` is checked and proved without updates (6) and excludes
processes for which kill answers EPERM, and what 2 describes. `StopCompletes` excepts a process.write that
is stuck (3); a file handler that is stuck in the open or the read of a FIFO holds `Run` up in the same way,
and is not in `AgentMain`. `HistoryCompletes` and `AnsweredMeansRecorded` allow the three SQLITE_BUSY
answers the retries cover. `ScratchLifetime` speaks of commands whose exit is reported, not of those
a stop terminates (10), and what `os.RemoveAll` fails to remove stays. `HistoryTruthful` lets a row be completed
without a code exactly when `Process.Wait` failed, as `agent/handlers_command.go:142` has it.
`ListHonest` allows
an exit without a code: the list reads the code before the state (`agent/handlers_process.go:246`).
`OversizeOnlyByRace` and `AckedWriteLands` are about regular files. `AckedWriteLands` says nothing once
somebody else truncated, overwrote or
removed the file: the handlers take no locks and promise nothing then. It is about the file as
the kernel shows it, not about what survives a loss of power (no handler calls fsync; neither does
`replaceBinary`). `CutShortMeansGone` is about the group: a child that left it survives.

Not modelled, and why:

- JSON and MCP schemas, the copying of arguments, result decoding: conversions without state;
- configuration (`gateway/config.go`, `agent/config.go`): read once at start, its values are constants;
- argument vectors, patterns of identifiers and the fields kept of GitHub's JSON in the read
  queries: text, checked by the repository's tests case by case;
- namespaces, Landlock rules and environments: what the kernel makes of them is not in this code;
- file modes, links and times; the second output stream of a query, which has a limit of its own
  and the same code;
- durations, hence the backoff that is never reset (`agent/connection.go:65`) and the order of
  execution.list;
- a peer that connects and never sends its hello (`gateway/wsserver.go:33`): it keeps its handler, and
  breaks no promise;
- device.ping and the version: constants.

## 7. Plan

Done: the relay with its tools; output capture; the Agent process with all its handlers; files; queries;
self-update; the refinements of RpcService, ExecutionLog and AtomicUpdate; the proofs of
section 4.

Next:

1. For the liveness properties, the safety parts of their arguments as theorems: what is enabled
   in the states they wait in (a call in its `select` on a dead connection has a `readLoop` that will
   close `done`; a stop has a killer for each unfinished process), and that no step undoes it.
2. Action properties for the monotone parts that proofs use as lemmas now (`RecEvolves`, `EndStaysDone`).
3. `KillBoundary` with updates, for the processes the new image started.

No module uses a RECURSIVE operator, so that all of them can be proved about.
