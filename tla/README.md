# A TLA+ model of PrimiHub's node

PrimiHub runs privacy-preserving computations (MPC, PSI, PIR, federated
learning) between parties that each run a *node*. A client submits a task to
one node, which becomes the task's scheduler: it asks the node of every party to
execute its part, collects the parties' status reports, decides whether the task
succeeded, kills it everywhere if it did not, and hands the statuses to the
client that polls for them. This project models that control plane, the thread
machinery inside a node, the queue all of it is built on, the exchange of data
between the parties of a task, and the tasks that use it: PSI and PIR, the MPC
algorithms and the expression evaluator.

## 1. Inventory

Paths are relative to `src/src/primihub/`.

| Component | State | Operations | Hard behaviour |
|---|---|---|---|
| Queue (`util/threadsafe_queue.h`) | `m_queue`, mutex, condition variable, `stop_` | emplace, try_pop, wait_and_pop, pop, shutdown | notification after unlock, spurious wakeups, `stop_` stored without the mutex |
| Scheduling (`node/node_impl.cc` DispatchTask, `node/worker/worker.cc`, `task/semantic/scheduler/`) | `task_scheduler_map_`, per task `final_status_`, `party_count_`, `task_finish_promise_`, `task_status_` | SubmitTask, ExecuteTask calls, UpdateTaskStatus, FetchTaskStatus, client KillTask, scheduler thread | reports before the party count is known, lost answers and retries, repeated reports, kill while finishing |
| Execution (`node/node_impl.cc` ExecuteTask, `node/worker/worker.cc`) | duplicate filter, `task_executor_map_`, `task_manage_queue_`, `finished_task_queue_`, `kill_task_queue_`, `finished_task_status_`, per worker ready promise and `process_handler_` | ExecuteTask, StopTask, KillTask, executor thread, manager, cleaning and killing threads, cache timeout | operations of different threads on one request id in any order, futures whose destruction blocks, kill racing start and end of the process |
| Start and stop (`node/main.cc`, `~VMNodeImpl`) | `stop_`, six background threads | SIGTERM, shutdown, join | threads blocked on queues |
| RPC client (`util/network/grpc_link_context.cc`) | retry counter, deadline | executeTask, submitTask, killTask, updateTaskStatus, send, forwardRecv | at-least-once delivery |
| Client (`cli/cli.cc`) | statuses seen | SubmitTask, CheckTaskStauts, DownloadData | polls until the party count is reached |
| Task process (`task_engine/`) | the task | CreateTask, Execute, UpdateStatus | reports beside its node |
| Data exchange (`util/network/link_context.*`, `Process*Data` in `node_impl.cc`, streaming calls of `node_interface.cc`) | queues per key, completion marks, waiters for a worker | Send, ForwardRecv, CompleteStatus, Clean | worker removed between readiness check and use, duplicates and truncated blocks after a broken stream, handlers that outlive their call |
| PSI and PIR (`kernel/`, `task/semantic/psi_task.cc`, `pir_task.cc`) | loaded elements, messages heard, result | ECDH, KKRT, enclave PSI, keyword PIR; load, execute, save | one key for all messages, dropped return codes, a server that may leave before its client has fetched |
| MPC tasks (`task/semantic/mpc_task.cc`, `algorithm/missing_val_processing.cc`, `mpc_statistics.cc`, `executor/statistics.cc`, `operator/`) | columns, position in a line of collective operations | load, exchange, compare, share, reveal, save | operations without names that must stay in step, sentinels and wrapping comparisons |
| Expressions (`executor/express.cc`, `algorithm/arithmetic.cc`) | suffix stack, value stack, run mode | import, check, evaluate, reveal, save, evaluate locally | operator order, unchecked stacks, a stack shared by two evaluations |
| Datasets (`node/ds.cc`, `service/dataset/`) | local and meta registry | register, find, download | not modelled |
| Drivers, parsers, SGX, P2P, Python | I/O and glue | | not modelled |

A node's threads meet only through queues: handlers and executor threads push
operations (`kAdd`, `kDel`, `kKill`) to the manager thread; the manager moves
workers to the cleaning and the killing thread; scheduler threads push finished
tasks to a fourth thread. Nodes meet through the RPCs ExecuteTask,
UpdateTaskStatus and KillTask; the client uses SubmitTask, FetchTaskStatus and
KillTask. Task processes meet through Send to the peer's node and ForwardRecv from
their own; CheckSendCompleteStatus asks the peer's node how much was fetched.

What makes the parts correct: the queue delivers everything once and in order
and loses no wakeup; a verdict on a task is reached once, is backed by the
parties' reports and, if it is a failure, is followed by a kill of every node
that may be running a part; a retried call does not run a part twice; a worker
is always held by exactly one thread or container, is not destroyed while its
executor thread uses it, is not killed unasked, and is destroyed in the end. Blocks
sent under one key arrive whole, once and in order until something breaks, and
never out of nothing; the parties of a task make their sends, receives and
collective operations in an order that fits; what a task computes is the figure,
set or value its inputs define.
`PROJECT.json` lists the hazards, line by line, with the properties that watch
them.

## 2. Modules

* `FifoQueue`: the abstract channel: everything sent, everything received.
* `ThreadSafeQueue`: the queue at the granularity of mutex and condition
  variable. `m_mutex` is the consumer that holds the mutex across several steps
  of `wait_and_pop`; critical sections of a single step (emplace, try_pop) only
  require that it is free. `Lock`, `Predicate`, `Block`, `TestStop` and `Pop` are
  the steps of `wait_and_pop`, `Emplace` and `EmplaceNotify` those of `emplace`,
  `StoreStop` and `StopNotify` those of `shutdown`. `pushed` and `popped` are
  history variables.
* `ThreadSafeQueueProofs`: its theorems.
* `TaskScheduler`: one task between its scheduler node, the parties' nodes and
  the client. Every attempt of an ExecuteTask call has a fate of its own in
  `call`: it may reach the node up to `Late` seconds after its deadline or never, and
  its answer may come in time or not. The clock (`now`, `Tick`) is there for the
  duplicate filter, which holds a node's task since a moment and forgets it after
  `Timeout` seconds (`Remembered`, CleanDuplicateTaskIdFilter). A report in `notes` may be delivered never, once or more often.
  `promise` is `task_finish_promise_`, `sets` counts its set_value calls. The
  executing nodes appear as the scheduler sees them; `RUNNING` reports are left
  out, for neither the verdict nor the client's loop depends on them.
* `TaskSchedulerProofs`: its theorems.
* `NodeExecutor`: the inside of an executing node: handlers, executor threads,
  manager, cleaner and killer. A worker stands for itself and for the future of
  its executor thread, which travel together; `released` holds the destroyed
  ones. `executor` is the program counter of the executor thread, where "ready" is
  the interval between `task_ready_promise_.set_value(true)` and the assignment
  of `process_handler_`. The bookkeeping variables `kill_requested` and `killed`
  record what was asked for and what kill_task() did.
* `NodeExecutorProofs`: its theorems.
* `NodeShutdown`: the destructor and the background threads.
* `BlockStream`: what the users of a link count on: whole blocks, once, in order,
  until the first fault.
* `DataLink`: one direction of the exchange under one key. Every attempt of every
  call has a handler of its own at the receiver's node (`handler`), which goes on
  when its call breaks. `Serving` are the steps all handlers share
  (IsFinishedTask, WaitUntilWorkerReady, GetWorker) and their ends;
  `worker`, `finished` and `stop_` are what `NodeExecutor` does to the task
  meanwhile: `kAdd`, the cached status and its timeout, `kDel`, `kKill` with
  `LinkContext::Clean`. A block in `Large` needs several packages; a broken stream
  may leave a truncated copy of it. `stored` and `got` are history variables.
* `DataLinkProofs`: its theorems and the refinement.
* `KernelTasks`: PsiTask and PirTask around their operators. A party's code is a
  straight line; it is given as a sequence of steps (`prog`), one operator for each
  function, and each step says what happens to a failure there: reported, dropped,
  or turned into SUCCESS. `StepSend`, `StepRecv` and `StepWork` run it. Ciphers are
  external: a cipher text is the set it stands for; the computations on the
  datasets (intersection, difference, duplicates, labels that are joined and
  split) are the code's. `cache` is the PIR server's database file: a server that finds
  one does not load its dataset and answers from the file, `use_cache` is asked when
  the dataset is to be loaded and again when the database is needed, and `GenerateDb`,
  the offline task with `generate_db`, may write the file at any moment.
  `Kept` is what a loop over rows keeps of them; elements of the datasets are told
  apart from the other contents of messages (`Marks`).
* `KernelTasksProofs` and `KernelResultProofs`: its theorems, on the exchange of
  messages and on the results.
* `MpcTask`: MPCTask with MissingProcess and MPCStatisticsExecutor between three
  parties. `log[p]` is the line of collective operations a party has entered; the
  k-th operation of one party meets the k-th of its peers, since messages carry no
  name. Integers have width `W` and wrap; sentinels (LONG_MIN, DBL_MIN, DBL_MAX)
  are the code's. The statistics take an empty cell for 0 and count it, as the code does
  (`ValuesRead`, `LocalCount`). A file may have two chunks (`head`): `ReadPart` is what an
  integer column is read of, and `Unread` the rest, for which `_buildNewColumn` looks up
  entries that are not there (`Fatal`, `Crash`). `MCMpcTask` has its inputs.
* `MpcTaskProofs`: its theorems about the order of operations; `MpcFigureProofs`: its
  theorem about the figures.
* `Express`: one party of an arithmetic task: parseExpress, checkExpress, import of
  the columns, resolveRunMode, evaluation on the stack, reveal, save, and the
  evaluation by LocalExpressExecutor. The name the code gives an intermediate
  result is its symbolic value. A comparison negates by party index (`Negates`), a save
  goes through doubles (`AsDoubles`) and may fail ("unsaved"). `Grammar` is the reference: the usual grammar of
  expressions with the value and the operations of each.
* `MCThreadSafeQueue`, `MCTaskScheduler`, `MCNodeExecutor`: instances for TLC.

Definitions whose comment starts with "Mutant of" are deliberately wrong
variants of the definition that follows; no specification uses them. Each
property has one, and putting it in the place of the original must make TLC
report the property.

## 3. Runs

| Run | Instance | Shows |
|---|---|---|
| `queue` | 2 producers, 3 consumers, 3 pushes of 2 values, shutdown | `FrontDefined`, `NothingLost`, `NoLostWakeup`, `Drained`, `ImplementsFifo` |
| `scheduler_safety` | 2 parties on 2 nodes, 2 attempts | `VerdictOnce`, `SuccessBacked`, `FailBacked`, `KillReachesAll` |
| `scheduler_live` | 2 parties on one node, an auxiliary node, 2 attempts handled up to 1 late, filter timeout 1 | `DispatchReturns`, `FailureIsKilled`, `RetryNeverReruns` |
| `scheduler_verdict` (violation) | 2 parties | `FinalStatusReached` fails |
| `executor` | a task and a manual sub task of one request, 2 StopTask/KillTask calls | `WorkerAccounted`, `ReleasedAfterExit`, `KilledOnRequest`, `HandlerAnswers`, `CleanedIsReleased` |
| `executor_leak` (violation) | tasks of two requests | `FinishedTaskIsCleaned` fails |
| `shutdown_exit` (violation) | one item per queue | `ExitsOnSigterm` fails |
| `link` | 2 blocks, one large, 2 attempts, 1 broken call | `FirstCopiesInOrder`, `ReceivesStored`, `CompleteBacked`, `ImplementsStream`, `SendReturns`, `StoredIsReceived` |
| `link_complete` (violation) | the same, the second block large | `DataHasBeenSent` fails |
| `kernels` | 2 items, up to 2 rows a party, all flags, 1 failing step | `MessagesMatch`, `ResultRight`, `ServerOutlivesClient`, `AllEnd` |
| `mpc` | 3 parties, columns of up to 2 cells, files of 1 and 2 chunks, 1 failing load or save, W = 5 | `Lockstep`, `ChecksAgree`, `FigureRight`, `SavedTogether`, `TaskEnds` |
| `express` | every string of up to 5 characters, every legal expression of up to 7 | `LegalRight`, `CallsInStep`, `AcceptedIsWhole`, `LocalAgrees` |

The violation runs state what a comment of the repository says and show that the
code does otherwise; `PROJECT.json` quotes the comment in each finding.

* `scheduler_verdict`: `party_count_` is 0 until DispatchTask has the answers of
  all parties. If the last SUCCESS arrives earlier, no later report compares the
  count, and scheduler_func waits for ever.
* `executor_leak`: a task that ends before its handler queues `kAdd` queues its
  `kDel` first.
* `shutdown_exit`: the destructor shuts down a queue nobody waits on instead of
  the three that threads wait on.
* `link_complete`: CompleteStatus answers OK whatever happened to its task, and
  Send answers SUCCESS for a block that was not stored; a block cut short by a
  broken stream counts like a whole one.

The properties of the tasks name the cases in which the code's result is the one
wanted: `Consistent`, `InRange`, `NoEmptyCells` and `ReadWhole` in `MpcTask`; `Possible`,
`OwnersInOrder` and `HeldByDoubles` in `Express`; `hidden`, `Stopped` and `Honoured` in
`KernelTasks`. The models go through the following cases as well, and there the result
is not the one wanted:

* `MpcTask`: a comparison is the sign of a difference that may wrap, so the start
  value of a column without a good cell can win; a maximum of doubles starts at
  DBL_MIN, so negative columns have the maximum 0; an integer average without a
  good cell divides by zero; a column the table does not have is passed over
  without a word to the peers; a statistics party without a column leaves at once; the
  statistics count an empty cell and take it for 0, which falsifies averages and may
  falsify extremes, though not sums; an integer column is read for as many chunks as
  column 0 of the table has, and since `replaceValue` makes one chunk of a column it
  rebuilds, a file of several chunks that begins with a rebuilt column loses the rows
  after the first chunk in later integer columns; the process may also crash then, on a
  look-up past the end or on a text left in the column.
* `Express`: an expression of fewer than four characters throws in loadParams; one
  that importExpress refused is evaluated all the same; with a column of doubles in
  a file its integer columns are not imported; a party without a local column makes
  matrices of 2^32 - 1 rows; `CMP(a,b)` with `a` at the higher party reveals `b < a`,
  since nobody looks at which column comes first (`LegalRight`
  says what is revealed in either order); integers beyond 2^53 are rounded in the result file.
* `KernelTasks`: ExecuteAsServer, BroadcastResult and TeePsiOperator::OnExecute drop
  failures, after which a peer waits for a message nobody sends or a task is
  reported as done with an empty result. psiType is read for every PSI, but the
  enclave's operator never looks at it and answers every request, one for the difference
  too, with the intersection, each element once; `ResultRight` claims a PSI's result for
  ECDH and KKRT, and for the enclave only when an intersection is asked for and the
  client's data has no duplicates or is to lose them. A PIR is answered from the database file however old it is:
  what holds is that all labels come from one state of the dataset.

Other cases the models rule out altogether. In `KernelTasks` (`Possible`): KKRT on
duplicates, since libPSI wants distinct items, and a PIR server whose dataset is empty,
since the longest label is read through an end iterator. In `MpcTask`: columns of one file
with different chunks from the start; the chunks after the first are not told apart. In
`TaskScheduler` (`FilterOutlivesRetries`): attempts that outlast the duplicate filter.
Nothing in the code ties its 30 s to the three attempts of 5 s; how late a call may be
handled after its deadline is up to gRPC and the node's load, and with more than 15 s
(`Late`) a part could run a second time. Dataset files do not change while a task runs;
the PIR server's database file may. What is outside the models is in section 5.

**Bounds.** Two producers and three consumers let a notification choose among
waiters and several notifications be outstanding. Two parties are the fewest for
which one finishes while the other is still being dispatched; two attempts give
every retry behaviour, since each attempt is independent of the number before it
(`retry_max_times_` is 3 in the code). In `scheduler_live` a tick of the
clock is longer than all attempts of a call together (`Deadline` = 0), and a call may be
handled one tick late: a first attempt may be entered at once and the retry of either
party, which share a node and its filter, be handled when the entry is as old as the
filter allows. A shorter `Timeout` is refused by the assumption, and the mutant that
forgets earlier runs a part twice. Attempts that take time themselves are left to the
theorem; with them the run takes too long. The other scheduler runs need no clock
(`MaxTime` = 0): there every order of attempts and answers is possible at one moment.
Two calls on a node are enough for two workers to meet under one id, in one container and in one thread's queue; two
StopTask/KillTask calls let a stop and a kill, or two of a kind, follow each other.
Two blocks are the fewest that can change places, and with one broken call and a
retry a late handler can store or count beside its successor. Datasets of two rows
have duplicates, common and private items; the PIR server's file is absent, or made from
any such dataset, the present one included. Columns of two cells have good cells
beside empty and malformed ones, and columns without a good one; W = 5 makes sums
and differences wrap within reach. Three operators of two priorities, two columns
and brackets in seven characters give every pair of neighbouring operators with
and without brackets, and five arbitrary characters every way to leave the stack
unbalanced. CHECK_DEADLOCK is off where the modelled task, or the bounded number of
calls, comes to an end.

**Symmetry** is used in `scheduler_safety` only, which checks no liveness: parties
together with their nodes.

**Fairness.** A thread that can run does run. For the queue, a mutex that is
released again and again is obtained (strong fairness of `Lock`); nobody has to
push or shut down, and spurious wakeups cannot be relied on. For the scheduler, a
call that is not answered meets its deadline, which every call in
`grpc_link_context.cc` sets, and a report that was sent arrives at least once
(only the liveness runs assume it); nothing is assumed of the parties or the
client. For the node, a process that was killed ends; `TasksEndSpec` adds that
every task ends, without which nothing that waits for a task could be promised.
The sleeping threads of `NodeShutdown` look at `stop_` in the end, though it may
take the reporting thread half an hour. In `DataLink` the two tasks, Clean and the
handlers somebody waits for run; nothing makes a worker come, a task end, a call
break, or a handler go on whose call was given up. In `KernelTasks` and `MpcTask`
every party's thread runs, and the scheduler sends its kills (which
`FailureIsKilled` of the scheduler's run shows); no step has to fail or to succeed.

## 4. Proofs

`ThreadSafeQueueProofs` proves, for all sets of threads and items and any number
of pushes:

* `TypeCorrect`, `FrontIsDefined`: from `SectionInv`, the inductive invariant that
  adds to the type invariant and to mutual exclusion what each consumer in the
  section knows (in "take" the queue is not empty unless `stop_` is set, in "pop"
  it is not empty). Without the second part "pop" would not be safe, because the
  predicate was evaluated two steps earlier.
* `NothingIsLost`: by two lemmas on concatenation.
* `WakeupsAreNotLost`: the number of queued items is bounded by the notifications
  under way plus the consumers awake whenever one is blocked; the proof counts
  with finite-set cardinalities, action by action. The invariant is stated for a
  queue that is not shut down, since `shutdown` can lose its notification.
* `QueueImplementsFifo`: the refinement, from `NothingLost`: the item taken is the
  next one of `pushed` because `popped \o m_queue = pushed`.

The only assumption is `ThreadsAssumption`: the threads are finitely many.

`TaskSchedulerProofs` proves all safety properties of `TaskScheduler`, for any
finite set of parties, any placement of parties on nodes (several on one node
too), any auxiliary nodes, any number of attempts, and any deadline, lateness and timeout
with `FilterOutlivesRetries`, that is, MaxTries * Deadline + Late <= Timeout
(`SchedulerAssumption`); in the code 3 * 5 s + Late <= 30 s:

* `CountInv`: `party_count_` is 0 until DispatchTask sets it and equals the number
  of acknowledgements from then on, which cannot change any more because no call
  is open. The verdict compares reports with this count, so nothing can be said
  of the verdict without it.
* `VerdictInv`, on top of it: before a verdict only successes have been entered,
  each of a party that reported one; a verdict is set once; a success is backed.
  It gives `VerdictIsSetOnce`, `SuccessIsBacked` and `FailIsBacked`. The case that
  needs care is the report that completes the count: the parties entered before
  the count was known are counted with it.
* `KillInv`: the targets of the kill do not depend on who acknowledged, and the
  scheduler thread is done with a failed task only when all are called. It gives
  `KillReachesEveryNode`.
* `ClockInv` and `FilterInv`: attempt a is made at most a - 1 deadlines after the first,
  which all parties make at the same time, and an executor that was ever started has
  left its task in its node's duplicate filter, no earlier than that. An attempt that is
  handled therefore finds an entry that is not older than all attempts and the lateness
  together, which the filter still holds. It gives the action property
  `RetryIsFiltered`.
* `TypeCorrect`.

`NodeExecutorProofs` proves all safety properties of `NodeExecutor`, for any finite
set of calls, any tasks, request ids and placement of manual and enclave tasks, and
any number of StopTask and KillTask calls (`ExecutorAssumption`):

* `TypeCorrect`: with `KillerHasWorker`, since the killing thread takes the head of a
  container without asking whether it is empty; that only full containers are queued
  is what makes it safe.
* `DestroyedAfterItsThread`: from `ExitInv`, which adds that a call whose handler is
  idle has no executor thread; otherwise an exited thread could be started again
  under a destroyed worker.
* `NoForeignKill`: from `RequestInv`: everything on its way to the killing thread is
  there on request, and `task_executor_map_` keeps every worker under its own id.
* `NoWorkerLost`: `Holders` is a set of places, and each place is a position in one
  of seven containers that shift at every pop. `AccountInv` says the same as a sum of
  cardinalities, one for each container (`Places`); every action moves one worker,
  or a whole container, from one term to another.

`DataLinkProofs` proves all safety properties of `DataLink` and its refinement, for
any number of blocks, tries and broken calls and any choice of large blocks
(`LinkAssumption`):

* `CallInv`: there is no handler of a call still to come, and a stream is cut only
  under a handler nobody waits for.
* `FetchInv` gives `ReceiverGetsQueue`: `in_data_queue` is the end of what was stored
  and `got` its beginning, and the two meet but for the one block that the handler of
  ForwardRecv has in hand.
* `OrderInv` gives `FirstCopiesComeInOrder`: a block the sender has left behind is
  there in full or was refused, and nothing is stored that the sender has not come
  to. `FirstCopiesInOrder` alone is not inductive: it does not say why the sender may
  go on.
* `MarkInv` gives `CompletionIsBacked`: the marks in the queue and those counted by
  any one handler never exceed the blocks taken.
* `StreamInv` gives the refinement `LinkImplementsStream`: until the first fault every
  block has a single handler, which has stored it whole when the sender goes on, so
  that what is received next is the next block sent.

`MpcTaskProofs` proves the safety properties of `MpcTask` that are not about figures, for
any number of columns, any tables and any width of integers (`MpcAssumption`):

* A party's log is a straight line, and the proof is about places in it. `Base(p, c)`
  is the place where column c begins: after the exchange, and after the operations of
  the columns before it, counted by a cardinality. `PlaceInv` says where a party is,
  `LogInv` what its log holds at every place (`Right`: kind, receiver, size, and who
  brings a value, which for MAX and MIN depends on comparisons already made), `MetInv`
  how far the others must be, `RefuseInv` what a refusal has seen.
* `RefusedTogether`: a party at a column has compared all three answers, and the
  inputs do not change.
* `InStep`: parties with consistent columns have their operations at the same places
  (`SamePlaces`), so the k-th ones are equal, and who brings a value is decided alike
  everywhere because every party has seen the same comparison (`CompareInv`,
  `BringStays`).
* `SavedAlike`: from `ResultInv`: what a party has revealed is a function of the logs
  (`FigureAt`) that is settled when everyone is at the last operation but one of the
  column, and a party is done only after the party before it entered its last one.

`MpcFigureProofs` proves the fourth, `FiguresRight`: for any number of columns and cells
and any width, what a party reveals for a column is the sum, average, extreme or count
over the good cells of all parties, and MissingProcess writes it into the empty and the
malformed cells and no other, under the conditions named in `FigureRight` (consistent
columns, no wrapping, no empty cell where the statistics would count it, a column that is
read as a whole). `FigureInv`, relative to the invariant of `MpcTaskProofs`,
has four parts:

* `PassedInv`: an operation that has returned was entered by everyone it receives from;
* `ValueInv`: whoever put a value into an operation put in `ValueOf`, which is determined
  by the tables alone;
* `InputInv`: with an auxiliary party the others bring figures of columns that have cells
  and only good ones;
* `TableInv`: the columns already rebuilt are right.

`FigureRight` changes only in EndColumn, where all shares of the column are known to be
`ValueOf`. What remains is arithmetic and data: sums modulo 2^W of wrapped summands are
the wrapped sum (`WrapSum`); the sign of a wrapped difference compares two numbers as long
as they are not further apart than half the range, and never gets a sentinel wrong
(`DifferSmall`, `DifferHuge`); the winner of two comparisons is an extreme of the three
columns put together (`WinnerBest`, `BestIsExtreme`); sum and number of good cells of a
concatenation are the sums of its parts'. The prover has no induction over data, so the
last is shown by a least counterexample: the set of lengths at which the claim fails is a
set of natural numbers, its least member exists by well-foundedness
(`NatLessThanWellFounded`), and the equation of the recursive function leads from the
length before it to a contradiction. The prover has no rules for powers either:
`MpcAssumption` says that 2^(W-1) is a number greater than 1, which follows from W > 1
and is evaluated by TLC. The proof found that `InRange` was too weak: the numbers of good
cells wrap as well as the sums, so it asks that they fit into an integer.

`KernelTasksProofs` proves `MessagesMatch` and `ServerOutlivesClient` of `KernelTasks`,
for any items, datasets, flags and failures, for all four kinds of task
(`KernelAssumption`):

* `LinkInv` gives `RightMessage`. Every message of an address has a number (`No`), and
  what a party has before it is a `Program`: its own steps only, the numbers of one
  address in rising order, and nothing at an address after a step there whose failure
  is passed over. `LineInv` relates, for every address, the numbers its receiver has
  still to receive, the messages stored, and the numbers its sender has still to send
  (`Fits`): they are one line without a gap, in which the stored messages come first.
  That a party has no gap behind it after a dropped error is the point: a failed Send
  that is passed over must be the last one of its address. The prover does not
  compute with concatenations, so each function of the code is shown to be a `Chain`,
  a sequence of known steps in such an order, and the chains are joined.
* `PirInv`, on top of it, gives `ServerStays`. The server ends after it has received
  the client's end; the client sends it after the last response it asks for
  (`PirProgram`), and where nothing is to be received any more nothing is stored or
  to be sent (`OverInv`). For the packages, which all have one number, this needs
  `BundleInv`: every bundle is sent once, and what was sent and not yet received is
  stored; so a client that has heard of every bundle leaves none behind, and the
  sending thread has none left.

`KernelResultProofs` proves the third, `ResultsRight`: what a client saves is the
intersection or difference of the datasets, duplicates included (from the enclave only
where `Honoured`), or the labels of the keywords found, all from the server's dataset or
all from its database file, for datasets of any length over any items, whenever the file
is written. `DataInv`, relative to
`LinkInv`, says what has become of the data, and TLC checked it on the instance of
`kernels` first:

* `CleanInv`, while no failure was hidden and no enclave task stopped: what a party has
  loaded (`LoadInv`), heard (`PsiHeardInv`, `TeeHeardInv`, `QueryInv`, `PackageInv`) and
  found out (`AnswerInv`) once the step for it is behind it, and what every stored
  message holds (`QueueInv`). `DbInv` says that the server has its database, made from a
  state in `Served`, before any package is sent or heard; a server that found a file has
  loaded nothing (`LoadInv`), and since a file, once there, is only ever replaced,
  it finds one again when the database is needed. A step counts as behind a party when it is no longer in
  `Todo`; that it was then really taken, and not passed over, is `CleanBefore`. The
  packages of a PIR may come in any order: the pairs heard are those of the bundles
  heard, and the step is passed when that is all of them.
* `SyncInv`, which has to hold for a stopped enclave task as well: the result on its way
  to the server is the one the client has, and does not change any more; a server whose
  wait was ended has an empty result, and so has its client, or the client failed.
* `EnclaveInv`, for that last case: an enclave that failed had not loaded its data, so it
  has sent nothing, and the client's result is empty.

What remains is that the answer over the loaded rows is the one `Expected` describes.
`Kept` preserves how often an item occurs among the positions kept (`KeptCounts`, by a
least counterexample as above), the duplicate filter leaves each item once
(`FilteredOnce`), one without duplicates has each once to begin with (`DistinctOnce`), a
set turned into a sequence has each of its members once
(`SeqOfSet`), and splitting a joined label gives its parts back (`JoinSplit`).
`KernelAssumption` asks that no item is one of the marks in the messages: in the code
the fields of a message keep them apart.

The proofs changed the models in a few places. `Ahead` did not let the statistics go
through columns the way their loop does: `PlaceInv` failed for a table without a
column. And CASE expressions whose arms overlap say nothing definite in TLA+ although
TLC takes the first arm; they are IF expressions now, as in the code. In `KernelTasks`
the bundles in a package are read off its body by an operator (`BundlesIn`), and loops
that select rows are written with one recursive function (`Kept`), which TLC evaluates
as before and the prover can unfold.

Only model-checked:

* All liveness properties (`Drained`, `DispatchReturns`, `FailureIsKilled`,
  `HandlerAnswers`, `CleanedIsReleased`, `SendReturns`, `StoredIsReceived`, `AllEnd`,
  `TaskEnds`) and the violations: the prover has no support for fairness and ENABLED
  here.
* `Express`: what the parser does with a string of any length is a fold over the
  string, and its properties compare it with a recursive grammar; that is an induction
  over two recursive definitions at once, and TLC checks it for every expression up to
  the bound.

## 5. Not modelled

* The data store drivers, the dataset and download services, the client of the
  meta service, configuration and request parsing: I/O, conversions and forwarded
  calls. What their failures mean to a task is modelled where a task meets them.
* `util/json.hpp`, a vendored JSON library of 26,000 lines, more than a third of
  the source lines in the repository, and the SEAL, APSI, libPSI, aby3 and gRPC
  libraries around it.
* Logistic regression, linear models, LeNet, max-pooling and the Paillier code of
  `algorithm/`: floating-point or big-number computations whose correctness is
  numerical. The lower layers of `operator/` (multiplication, division, garbled
  comparison) are represented by their results.
* The Python bindings, SGX attestation and the P2P wrapper, whose counterparts are
  outside the repository.
* Recv, SendRecv and ForwardSend of the node interface, which no task of the C++
  code calls; ForwardSend is commented out.
* Constants in expressions: `getColumnDtype` throws for every token that is no
  column, so the branches for them are never reached.
* Data races on `std::map` (erasing under a shared lock, `node_impl.cc:788`, or under the
  wrong mutex, `node_impl.cc:837`) as memory-level races.
* A second submission under the same request id. A second ExecuteTask for one task
  is part of the scheduler runs; the executor run has one call per task.

## 6. Plan

1. Done: queue, scheduling, execution, shutdown, data exchange with its
   refinement, PSI and PIR tasks, MPC tasks, expressions; proofs of the queue, of
   the scheduling protocol, of an executing node, of the data exchange, of the
   PSI and PIR tasks and of the MPC tasks.
2. Every safety property that a passing run checks is proved, except those of
   `Express`. Proofs next: how `ServerStays` and `ResultsRight` rest on the exchange of data, that is `KernelTasks` over the
   links of `DataLink`.
3. Further modules if there is room: several submissions against
   `task_scheduler_map_`, and the composition of `TaskScheduler` with
   `NodeExecutor`.
