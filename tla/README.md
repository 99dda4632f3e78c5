# A verification project for retro

retro is a command-line program that works through a file of private keys: for
each wallet it selects tasks from `config.yml`, runs them against EVM nodes with
retries and pauses, logs what it did, and records how far it got, so that the
next start resumes there. These TLA+ modules model that behaviour; TLC checks
them on small instances and TLAPS proves part of it for every instance.

## 1. The system

| part (under `src/`) | state it keeps | operations | talks to |
|---|---|---|---|
| `cmd/app/main.go` | the context, the WaitGroup | start, `gracefulShutdown`, the wait before the exit | everything below |
| `internal/app` | `a.wallets` (shuffled in place), slots, results channel, highest index | `prepareWalletsToProcess`, `runSequentially`, `runParallel`, `processWalletWorker`, `handleParallelResults` | processor, state storage |
| `internal/storage/*` | the row `last_completed_wallet_index`, the table `transactions` | `GetState`, `SetState`, `LogTransaction`, `Close` | database |
| `internal/processor` | position in the task list, first error | `Process`, `processTaskLoop`, `prepareTask`, `executeAndLogTask`, `performInterTaskDelay` | selector, executor, EVM client, transaction log |
| `internal/executor` | attempt number, last error | `ExecuteTaskWithRetries` | a task |
| `internal/selector`, `internal/bootstrap`, `internal/tasks/registry.go` | map of constructors | `RegisterTasksFromConfig`, `SelectTasks`, `NewTask` | configuration |
| `internal/evm` | an RPC connection, a key | `NewClient`, `Close`, calls, `WaitForReceipt`, signing | nodes |
| `internal/tasks` | none | `Run` of `log_balance` and `dummy_task` | EVM client |
| `internal/config`, `internal/keyloader`, `internal/platform/database` | settings, keys, the connection pool | load and connect once at start, fatal on failure | files, database |
| `internal/logger`, `internal/utils`, `internal/types` | none | output, random numbers, constants | |

How they interact:

- `main` starts the shutdown goroutine, then calls `Run`. With
  `max_parallel_wallets <= 1` the main goroutine processes the wallets itself;
  otherwise it launches a goroutine per wallet as slots come free, next to the
  results handler, and the handler starts a goroutine for every checkpoint.
- Workers hand results to the handler over a buffered channel, and slots back
  over the semaphore channel. The WaitGroup covers workers and handler, not the
  checkpoint goroutines.
- The shutdown goroutine cancels the context everybody watches and closes the
  stores straight away. Writes use contexts of their own, which the
  cancellation does not reach, so they meet an open or a closed store.
- The row survives the process. It is read twice at a start: once by
  `prepareWalletsToProcess`, under the program's context, and once by the mode
  that runs, under a context of its own.

What is hard here: goroutines racing for slots, results and the row; kills and
signals between finishing a wallet and recording it; reads and writes that fail
and are only logged; shuffling a list whose positions are recorded; a panic that
runs deferred calls; the errors of a single call's timeout, which look like
a cancellation. `PROJECT.json` lists each of these at its line as a hazard, with
the properties that would notice it going wrong.

What makes each part correct:

- resuming: no wallet is skipped that was not completed; little is repeated; the
  checkpoint does not move back
- parallel mode: slots, results and the WaitGroup balance; nothing blocks for
  ever; the exit waits for the work; only successes are recorded
- processor: nil exactly when every task succeeded; failures do not spill over;
  one row per executed task; no connection leaks
- selection: enabled tasks only, an allowed number of them, in the order asked
  for; no panic that the configuration does not ask for
- EVM client: a connection is closed on every path; polling ends with the context
- startup: a start that is refused leaves no trace that a later one could trip
  over; the keys worked on are those of the file

## 2. The modules

```
RandomRange     RandomIntInRange, RandomDuration       <- RandomRangeProofs
Storage         the row
  Application   what both modes share                  <- ApplicationProofs
    SequentialRun  the loop over the wallets           <- SequentialProofs
    ParallelRun    launcher, workers, handler          <- PoolProofs, ParallelProofs
    Startup        main before Run
      Program      Startup and SequentialRun together  <- ProgramProofs
EvmClient       connection, request, polling
  Tasks         runner.Run
    Executor    attempts and their pauses              (uses RandomRange)
      Processor one wallet                             <- ProcessorProofs
TaskSelection   configuration to task list             <- SelectionProofs (uses RandomRange)
WalletPool      promise of both modes, implemented by SequentialRun and ParallelRun
WalletTasks     promise of one wallet, implemented by Processor
```

Indentation is `EXTENDS`. `MCSequentialRun`, `MCProgram`, `MCParallelRun`,
`MCProcessor` and `MCTaskSelection` hold the instances for TLC.

**Storage** is the row behind `StateStorage`. `GetState` is the set of values a
caller may get: the row, or none when it is missing, the store closed, the
context done, or the query failing. `SetState` writes if the store is durable
and open. Postgres and SQLite differ only in SQL; the noop store is
`Durable = FALSE`. A write that reports an error and was nevertheless committed
behaves like `SetState`, since every caller only logs the error.

**Application** is what both modes share. `Prepare` is
`prepareWalletsToProcess`; `wallets` is `a.wallets`, a map from positions to
lines of the keys file, which a shuffle permutes; `first` is where
`keysToProcess` begins. `OriginalIndex` is `findOriginalIndex`, a search by
address in the list *as it is now*. `Signal` and `CloseResources` are the two
halves of `gracefulShutdown`. `Killed` ends the process at any point; `Reboot`
starts it again on the same file and row. `completed` is a history variable: the
addresses whose `Process` ever returned nil.

**SequentialRun** is `app_sequential.go`. A step is what happens between two
points where the shutdown goroutine, a kill or the database can make a
difference: the load, one skip, one check of the context, `Process`, `SetState`,
the pause. A failing wallet ends the loop.

**ParallelRun** is `app_parallel.go`. Per wallet there is a worker goroutine:
start, process, pause, then the deferred calls one by one (send the result, give
the slot back, `wg.Done`), which a panic runs too before it kills the process.
The handler loads the row, receives, and leaves when it has every result or, by
the choice `select` has, on cancellation. `saves` are the indices whose
`SetState` goroutine has not run. `main` waits for `wg` only.

**Startup** is `main` up to `Run`: `LoadConfig` with the environment's
overrides, the store with its pool size (`MaxConns` narrows it to an int32),
ping and tables, `LoadKeys` line by line, `RegisterTasks`. Each stage may refuse
the start, which is `log.Fatal`: exit status 1, no deferred call. `Listen` is
the call of `signal.Notify` in a goroutine that has to be scheduled first; a
signal before it kills.

**Program** puts `Startup` before `SequentialRun`: `Boots` until the program is
up, `Works` from then on, over any number of starts. `StartsAreSessions` says
that what `SequentialRun` promises survives the composition: a refused start is,
to what follows, a session killed before it touched anything.

**EvmClient** is one wallet's connection: `Dial` draws one URL of the network,
`ChainId` asks it, and a node may be live, silent or dead. `Call` and `Answer`
are any single request; `Poll`, `Receipt` and `PollPause...` are
`WaitForReceipt`. **Tasks** is `runner.Run`: `log_balance` makes a request,
`dummy_task` sleeps, and `receipt` stands for the tasks the client's
`WaitForReceipt` is written for, which the repository has none of yet.
**Executor** is the attempts and the pauses between and after them, drawn from
the configured ranges. **Processor** is the loop around: selection, preparation,
execution, closing, the row, the pause between tasks. The four share one control
point, `step`, since they are one goroutine; the shutdown goroutine runs beside
it. `Select` and `SelectPanics` are what `SelectTasks` can come to: no task, a
list from the explicit sequence or of a number that can be drawn, or a panic
before the first task. Errors are told apart as `errors.Is` does: cancelled,
deadline, other. The log is a durable store; with the noop store there is no log
to relate anything to.

**WalletTasks** is what `Process` promises of a wallet: tasks begin one at a
time, none after the cancellation, and the verdict fits what they did; it may
panic while it selects or while it works.
**WalletPool** is the promise both modes make: a session processes a suffix of
the list, each wallet at most once and at most `Limit` at a time, starts none
after the cancellation, and closes only with nothing being processed and nothing
left (or cancelled, or, sequentially, after a failure).

**TaskSelection** goes from the tasks section to a wallet's list: registration
with its panic, the explicit sequence, the random number and draw with theirs,
and the stable sort by the map from names to indices.

**RandomRange** is `random.go` in two's complement of any width: bounds the
wrong way round are swapped, `max-min+1` wraps, `rand.Intn` panics unless its
argument is positive, and a product with a unit wraps too. It also has the
number of tasks drawn from `actions_per_account`, which both `TaskSelection` and
`Processor` use: negative bounds count as zero, a minimum above the maximum
replaces it, and the draw may panic.

`Process` is one step of the wallet modules, which may succeed, fail or panic at
any time; `Processor` opens that step. The interface is `result`: nil is a
success, anything else a failure, `panicked` a panic. `TaskSelection` in turn
opens `Select` and `SelectPanics` of the processor.

The pause between accounts belongs to the modes, not to `Process`. Its draw can
panic too (`app_parallel.go:58`, `app_sequential.go:98`): the deferred calls run
and the program dies. No property tells that from the pause ending and `Killed`
after it, which the modes have, so it is no action of its own.

## 3. The runs

| run | instance | what it shows |
|---|---|---|
| `seq_failures` | 4 keys of 3 wallets, 3 starts, kills, signals, panics, failing database | in file order the recorded index covers completed wallets only; a run stops at its first failure; the mode implements `WalletPool` |
| `seq_program` | 4 wallets among 3 lines that are no keys, 3 starts each of which may be refused, killed or signalled; the database answers once it is up; 8 pool sizes, in 3-bit numbers; fair | at most one completed wallet is outside the checkpoint, which never moves back; the keys are those of the file; the pool has the size asked for from 1 to the greatest number, the default where nothing above zero is asked for, and only a greater number refuses a start; every start ends; starts are sessions |
| `par_pool` | 3 keys of 2 wallets in every order, 2 workers, 1 start, kills, signals, panics | slots and results are accounted for, the exit waits, an uncancelled exit has counted everything and left no wallet out; main, workers and handler never all wait for each other |
| `par_sessions` | 3 wallets, 2 workers, 2 starts, failing writes, fair | only completed wallets are recorded; the row is never ahead of the handler; every start ends, even when the handler left first; the mode implements `WalletPool`, resumed starts included (a worker that panics leaves the pool as one that fails does, which is left to the theorem) |
| `proc_tasks` | up to 3 tasks of 3 kinds, up to 2 attempts, 14 configurations of the delays, 4 of the selection, 3 kinds of node, failing inserts, fair | result, log, order and connections agree with what ran; panics, those of the selection included, have a cause; `Process` ends unless it awaits a node or a receipt for ever, and answers a signal even then; it implements `WalletTasks` |
| `tasks_selected` | every configuration of 3 entries over 3 names (one unknown), every sequence of 2 names, bounds -4, 1 and 4 in integers from -5 to 4 | what is selected is allowed, constructible and in the order asked for; panics have a cause |

Six more runs are expected to find a violation. Each checks one sentence the
repository says about itself, and is listed with that sentence under `findings`:

| run | disagreement |
|---|---|
| `seq_shuffled` | with random order and resume, indices of the shuffled list are recorded and read against the file: wallets are skipped that never ran. `config/config.yml` has this combination |
| `par_all_processed` | the parallel mode records the highest success, over failed wallets below it; the next start calls them processed |
| `par_save_order` | checkpoint goroutines run in any order; the row can go back |
| `par_panic` | a panicking worker publishes a success |
| `proc_deadline` | the timeout of one call is reported as a cancellation and ends the wallet |
| `proc_one_url` | `NewClient` draws one URL and tries no other, so a task is passed over while another node is live |

Some smaller ones have no run of their own. The exit does not wait for the last
checkpoint goroutine (`app_parallel.go:113`), so the row may stay behind. The
log is closed while tasks still run (`main.go:133`), so their rows are lost,
which is why `LogMatchesRuns` asks for every row only while the store is open.
A name with two entries sorts by its last one, disabled or not
(`selector.go:110`), hence the premise of `InConfigOrderIfUnique`. A duration
that overflows comes out negative and is no pause (`random.go:30`).

Bounds, and why they are enough:

- `MaxSessions` (starts): two let one session's row meet the next one's reading,
  and three let a resumed session be resumed. Each start repeats the same code on
  a row and a set of completed wallets, both of which the earlier ones produced.
- `NumKeys`: three wallets with two workers give a wallet at work, one waiting
  and one behind; four sequentially give a repeated key with wallets before,
  between and after. The repeated key is what makes an original index differ
  from a position.
- `MaxTasks`, attempts: three tasks have a first, a middle and a last one
  (the pause and `firstError` treat them differently); two attempts have a retry
  and an exhaustion, zero attempts count as one. In each configuration of the
  delays one pause at most is unusual (no length, swapped bounds, unknown unit,
  bounds too far apart): pauses do not influence each other.
- `Requests`, the configurations of the selection: an explicit sequence, and
  draws from a negative minimum up to more than `MaxTasks`, from bounds the wrong
  way round that ask for more than `MaxTasks`, and from bounds too far
  apart to draw from. `MaxTasks` is at once the bound on the list and the most
  memory can be allocated for, so that a greater number drawn is the panic of
  `make` (`selector.go:100`).
- `MaxEntries`, `MaxSequence`, `ActionBounds`: three entries over three names
  give duplicates, disabled entries and unknown names in every order; the bounds
  give negative, equal, contradicting and proper ranges, more tasks than
  `MaxSlice` allows, and a span that overflows; sequences of two names show
  order, repetition and a name left out.
- `MaxInt`, `Minute`, `MaxInt32`: integers of three and four bits make sums,
  products and narrowings overflow within reach; the theorems hold for every
  width.
- `KeysFile`, `PoolSettings`: every kind of line before, between and after keys;
  pool sizes that are absent, no number, negative, zero, proper, and those that
  a narrowing makes negative, zero and another positive number.
- No symmetry is used: wallets differ by position.

Every property of a passing run has a mutant in `PROJECT.json`: a bug of the
kind the code could have, defined next to the definition it changes, with which
TLC finds that property violated.

### Fairness

The fair specifications give weak fairness to the main and the shutdown
goroutine of the sequential mode; to the goroutines of the parallel mode taken
together (`GoroutineStep`: one that is not blocked is run, none is owed its turn
before another, which is less than the Go scheduler gives and enough); to the
stages of the startup; and to a wallet's goroutine (`WalletStep`) wherever it
does not await a node.

What the code ensures: timers fire; the modes' second reading of the row and
every write carry a ten-second timeout of their own, the chain id one of five
seconds, a balance one of thirty; and what runs under a context that is done is
given up. What it does not ensure, and the models treat differently:

- The dial (`client.go:57`) and the request for a receipt (`client.go:132`) run
  under the program's context, which has no deadline. `Processor.FairSpec` owes
  them nothing until the context is done (`AwaitsNode`): a wallet may stay there
  for ever. `OverUnlessAwaitingNode` says that these, and a transaction that
  stays unknown, are all `Process` waits for without a limit; `SignalIsAnswered`
  says that a signal ends even that wait.
- The ping, the creation of the tables, and `prepareWalletsToProcess`'s reading
  of the row (`app_prepare.go:23`) have no deadline either, and the stores add
  none. That the database answers or refuses them in finite time is an
  assumption of the fair specifications, on which `EventuallyEnds` rests.
- In the wallet modules, that a task returns or panics is an assumption too;
  `OverUnlessAwaitingNode` and `SignalIsAnswered` are what it rests on.

`select` owes nothing about which of two ready branches it takes, so none is
assumed: the timer may win every time, and the signal is answered all the same,
because the next request finds the context done. Signals, kills and restarts are
never owed.
`EventuallyEnds` is `[]<>(~Alive)`: with the bound on starts it says each of
them ends.

## 4. What is proved

The theorems hold for every value of the constants under the named `ASSUME`s,
which TLC evaluates on every run: any keys file, repeated keys included, any
number of wallets, workers, tasks, attempts, entries and starts, any width of
integers. Nothing is assumed of signals, kills, nodes or the database beyond
what is said.

**Sequential mode** (`SequentialProofs`)

- `SequentialTypeCorrect`: `TypeOK`. It is not inductive by itself, because the
  step out of a pause increments `next`; `TypeInv` adds that a wallet at work is
  in the list.
- `ResumeLosesNoWallet` (file order): `PrefixCompleted`. The invariant
  `ResumeInv` says that three prefixes are completed: up to the row, up to the
  loop's own reading of it, and before the loop's position; and that the wallet
  being saved is completed. The reading may be older than, or missing beside, the
  one `Prepare` made, which is why both readings need a conjunct of their own.
  A skipped position is completed because its *original index* is under the
  reading and holds the same address; a recorded original index is never beyond
  the position, hence inside the third prefix.
- `SessionStopsAtFirstFailure` (file order): `StopsAtFirstFailure`, from the
  third prefix of the same invariant.
- `AtMostOneIsRepeated`, `CheckpointIsMonotone` (file order, distinct wallets, a
  durable store whose reads and writes do not fail): `AtMostOneUnrecorded` and
  `CheckpointNeverRegresses`. `CheckpointInv` ties the loop to the row: while it
  works on a wallet, that wallet is the one after the row, and an uncancelled
  loop is exactly there between wallets. Only a cancellation lets the store
  close, and after it the loop begins no wallet, so a lost write is the last one.
- `NothingLeftMeansAllDone` (file order): `AllProcessedAsLogged`, which
  `par_all_processed` finds violated in the parallel mode, holds in this one.
- `SequentialKeepsThePromise`: `ImplementsWalletPool`. `PoolSeen` says how the
  mode looks as a pool at each place of the main goroutine, and `EndInv` that it
  comes to the end of its list unless it is cancelled or fails;
  `SequentialStepsAreAllowed` maps each step to `Open`, `Start`, `Finish`,
  `Drop`, `Close`, `Die`, `Reopen`, `Cancel` or a stutter.

**Program** (`ProgramProofs`)

- `StartsAreSessionsOfTheMode`: `StartsAreSessions`. Every step of the startup is
  a `Killed` or a stutter of `SequentialRun`. From it and the theorems above
  follow, for the program with its startup, `StartsRepeatAtMostOne`,
  `StartsKeepCheckpoint`, `StartsLoseNoWallet` and `StartsKeepThePromise`.
- `ProgramTypeCorrect`, `RunsOnTheKeysOfTheFile`, `PoolHasTheSizeAskedFor`:
  `ProgramTypeOK`, `WorksOnTheKeysOfTheFile`, `PoolSizeHonoured`, from `BootInv`.
  Its part `KeysInv` says that the keys loaded so far are those of the lines read
  so far. `ProgramAssumption` ties `KeyAddress` to `KeysFile`: there is a list of
  the numbers of the lines that hold a key, increasing and complete. It is no
  assumption on the file, only on which constants describe the same one; stated
  without a recursion over the lines, it can be reasoned about. `StageInv` says
  that once the pool is configured its size is what the setting makes
  (`MaxConns`), whence `PoolSizeHonoured` for every width of the narrowed
  integer.

**Parallel mode**

- `RecordedAreCompleted` (`ParallelProofs`; file order, no task panics):
  `RecordedCompleted`. `RecordInv` follows a success on its way: worker, result
  in the channel, highest index, waiting checkpoint, row. Both assumptions are
  needed: `par_panic` shows the panic, `seq_shuffled` the order.
- `ParallelTypeCorrect`, `SlotsAreKept`, `ResultsAreKept`, `ExitWaitsForAll`
  (`PoolProofs`): the books of the pool. `Counts` states them with cardinalities
  of the sets of workers in given states: slots, results and the WaitGroup.
  `CountMoves` is the lemma behind it: a worker that moves changes each count by
  itself alone. `TypeOK` follows from the books, not the other way round:
  nothing in the code bounds the semaphore or the WaitGroup but them.
- `RowIsBehindHighest` (`ParallelProofs`; reads of an open store do not fail):
  `RowBehindHighest`, from `RowInv`: nothing waits to be written before the
  handler has read the row.
- `ExitHasCountedAll`, `ExitLeavesNoneOut` (`ParallelProofs`): `NothingUncounted`
  and `EveryWalletAttempted`, in every order of the wallets. `LaunchedInv` says
  how far the launch loop and the handler have come when nothing is cancelled,
  `OutcomesInv` what became of each worker. With the books, an uncancelled exit
  has no worker left, an empty channel and every result counted
  (`UncancelledExit`); that no wallet is left out then needs the shuffled list
  to be a permutation (an injection on a finite set is onto).
- `NobodyWaitsForNobody` (`ParallelProofs`): `SomeoneCanMove`, the absence of a
  deadlock of goroutines, written out as the condition each of them waits for.
  The books decide it: were everyone blocked, a worker before its send would
  face a channel with more results than launched workers owe, main an empty
  semaphore nobody holds a slot of, or main and the handler a session all of
  whose results have been received. What remains of `EventuallyEnds` for the
  model checker is fairness.
- `ParallelKeepsThePromise` (`ParallelProofs`): `ImplementsWalletPool`, step by
  step (`ParallelStepsAreAllowed`). Two of `WalletPool`'s guards need the books:
  the wallets at work and the waiting wallets a worker overtakes both hold a slot
  beside the worker that starts (`FewerThanTheLimit`), and an uncancelled exit
  comes after every launch and every worker (`LaunchedInv`, `ExitIsOrderly`).

**Processor** (`ProcessorProofs`)

- `ProcessorTypeCorrect`, `ConnectionsAreClosed`: `TypeOK` and `NoClientLeak`,
  from `ControlInv`, which says what each control point knows of the task, its
  error, its attempt and its connection.
- `TasksRunInOrder`: `RanInOrder`, from `RanInv`: what ran is before the task at
  hand.
- `NilIsEarned`, `NoTaskLeftOut`: `NilMeansAllSucceeded` and
  `FailuresAreIsolated`, from `OutcomeInv`: before the task at hand every task
  has an outcome that is no context error, and `firstError` is nil exactly when
  all of them are.
- `PanicsAreConfigured`: `PanicHasACause`, with the theorems on `RandomRange`.
  The causes are three: a task without the client it calls, bounds of a pause too
  far apart, and, before the first task, a draw of more tasks than memory holds.
  A selection whose bounds are too far apart to draw from asks for more than that
  as well (`TooManyAreAskedFor`).
- `LogIsARecordOfRuns`: `LogMatchesRuns`, from `LogInv`: the row about to be
  written is that of the last execution, and its task has none in the log yet.
- `ProcessKeepsItsPromise`: `ImplementsWalletTasks`, step by step
  (`ProcessStepsAreAllowed`), from `ControlInv` and `OutcomeInv`; a panic of the
  selection is the promise's `Panic` from `selecting`.
- Two findings delimited. `OnlyDeadlinesMislead` (no silent URL, no task of the
  kind `log_balance`): `InterruptedMeansCancelled` holds, so the deadlines of
  single calls are the only errors `Process` mistakes for a cancellation.
  `AllLiveServe` (every URL live, constructors and networks configured):
  `LiveNodeServes` holds, so nothing but a dead or silent URL makes a task
  passed over.

**Selection** (`SelectionProofs`): `SelectionTypeCorrect`, `SelectedCanRun`,
`SizeIsAllowed`, `PanicsAreCaused`, `UniqueNamesKeepOrder`,
`ExplicitSequenceIsKept`. `SelectionInv` says
which names are registered so far, that the list holds enabled entries only, and
how many. `StableSort` is the lemma on the sort: same length, no other entries,
ordered by the key; its ranks are a bijection because they are an injection of
the positions into themselves. `ExplicitInv` follows the explicit sequence name
by name: what is taken so far is what of its beginning can run, in its order.

**Random values** (`RandomRangeProofs`): `PanicsExactlyOnOverflow`,
`DrawnWithinBounds`, `DurationWithinBounds`, about the operators themselves, and
the lemmas on the number of tasks drawn (`CountBounds`, `CountDrawn`,
`TooManyAreAskedFor`) that `Processor` and `TaskSelection` share.

Every invariant, action property and refinement of the passing runs is proved.
Only model-checked are the liveness properties, `EventuallyEnds`,
`OverUnlessAwaitingNode` and `SignalIsAnswered`: the prover handles no
fairness and no `ENABLED`. Nor is induction over data within its reach, so
properties speak of positions of sequences instead of recursive functions on
them.

The premises of theorems are the conditions their property needs, and the runs
show it: file order (`seq_shuffled`), no panicking task (`par_panic`), no deadlines
(`proc_deadline`), live URLs (`proc_one_url`); `Reliable` is what an operator
would call a working database. Every instance of `seq_failures` and `seq_program`
satisfies the ones it is about.

## 5. What is not modelled

- The EVM signer (`evm/wallet.go`): pure cryptography of one key; no task signs.
- `utils/format.go`: `FromWei` only produces text for the log, `ToWei` has no
  caller. The logger, but for `Fatal`. String constants, container files.
- The arguments and answers of requests to nodes: a request is one of the ways
  a task may end. `WaitForReceipt` is modelled although no task calls it yet.
- The lengths of pauses: they end some time; only their being positive, negative
  or impossible to draw matters. The panic over the pause between accounts has no
  action of its own (see section 2).
- A second signal, which nobody reads (`main.go:120`).
- A keys file edited between two starts: the row holds a position among the keys
  and nothing that would tell (`keyloader.go:61`).
- A panic in the main goroutine outside `Process`, panics of the libraries.
- Two instances of the program on one database.
- The parallel mode behind `Startup`: `StartsAreSessions` concerns variables
  both modes share, and the restart of either is the same `Reboot`.

## 6. Plan

1. Done: storage, both modes, shutdown, restart, the pool; client, tasks,
   executor, processor and their promise; selection; startup and the program in
   the sequential mode. Every safety property the passing runs check is proved,
   the refinements of `WalletPool`, `WalletTasks` and `SequentialRun` included.
2. Proofs, next: what `WalletPool` and `WalletTasks` promise as invariants of
   their own (no wallet both waiting and at work, never more than `Limit`), so
   that a reader can take them from the abstract specification; how far the row
   may trail behind the handler in the parallel mode.
3. Progress over several starts: with failures that stop, the row reaches the
   last wallet.
