--------------------------- MODULE TaskScheduler ---------------------------
(***************************************************************************)
(* One task, from SubmitTask to the end of its scheduler thread: the       *)
(* scheduling half of node/node_impl.cc (DispatchTask, UpdateTaskStatus,   *)
(* FetchTaskStatus, KillTask from a client), the scheduler's Worker        *)
(* (node/worker/worker.cc), VMScheduler (task/semantic/scheduler), the     *)
(* retrying calls of GrpcChannel and the polling client of cli/cli.cc.     *)
(*                                                                         *)
(* The nodes that execute the task appear by what the scheduler can see of *)
(* them: a duplicate filter, an executor that becomes ready, runs and      *)
(* reports, and the answer to ExecuteTask.  NodeExecutor has their inside. *)
(*                                                                         *)
(* Every ExecuteTask attempt is a message of its own: it may reach the     *)
(* node or not, before or after the caller's deadline, and so may its      *)
(* answer.  The duplicate filter forgets a task after a while, so time is  *)
(* part of the state: a caller never waits longer than the deadline of an  *)
(* attempt, and an attempt that reaches its node at all does so at most    *)
(* Late after that.  A status report is delivered any number of times: not *)
(* at all when every attempt fails, more than once when an answer is lost  *)
(* and the call is retried, or when the task process and the node both     *)
(* report.                                                                 *)
(***************************************************************************)
EXTENDS Naturals, Sequences, FiniteSets

CONSTANTS Parties,      \* names in party_access_info
          Nodes,
          NodeOf,       \* the node each party's dataset lives on
          Aux,          \* auxiliary compute nodes of the task
          MaxTries,     \* retry_max_times_ of GrpcChannel
          Deadline,     \* CONTROL_CMD_TIMEOUT_S: what one attempt may take
          Late,         \* how long after its deadline a call may be handled
          Timeout,      \* task_id_timeout_s_ of the duplicate filter
          MaxTime       \* bound: the clock stops here

ASSUME SchedulerAssumption ==
    /\ IsFiniteSet(Parties) /\ Parties # {} /\ "SCHEDULER" \notin Parties
    /\ NodeOf \in [Parties -> Nodes] /\ Aux \subseteq Nodes
    /\ MaxTries \in Nat \ {0}
    /\ Deadline \in Nat /\ Late \in Nat /\ Timeout \in Nat /\ MaxTime \in Nat

(* The code has 3 attempts of 5 s and forgets after 30 s, which leaves a   *)
(* call 15 s to be handled late; nothing in it keeps the numbers together. *)
ASSUME FilterOutlivesRetries == MaxTries * Deadline + Late <= Timeout

VARIABLES
  now,             \* seconds on the clock
  dispatch,        \* where DispatchTask is
  worker,          \* is the Worker in task_scheduler_map_?
  tries,           \* attempts of executeTask made for each party
  rpc,             \* what ScheduleTask of each party has come to
  call,            \* the fate of each attempt, at the party's node
  sent,            \* when each attempt was made
  servers,         \* parties whose answer carried a task_server
  filter,          \* nodes whose duplicate filter holds the task, since when
  exec, ready,     \* each party's executor and its task_ready_promise_
  notes,           \* status reports sent
  delivered,       \* those that have reached the scheduler's node
  final_status_, party_count_, promise, sets, task_status_,
  waiter,          \* the thread running scheduler_func
  kill_called,     \* nodes that were sent killTask
  client, reply_count, seen

nodeVars   == <<filter, exec, ready, notes>>
rpcVars    == <<tries, rpc, call, sent, servers>>
workerVars == <<delivered, final_status_, promise, sets, task_status_>>
clientVars == <<client, reply_count, seen>>
vars == <<now, dispatch, worker, rpcVars, nodeVars, workerVars, party_count_,
          waiter, kill_called, clientVars>>

(* The reports that count.  RUNNING, which executor_func sends first, is   *)
(* only passed on to the client, and the client skips it.                  *)
Status   == {"SUCCESS", "FAIL"}

Attempts == 1..MaxTries
Reports  == Parties \X Status \X {"child", "node"}

Init ==
  /\ now = 0 /\ dispatch = "idle" /\ worker = FALSE
  /\ tries = [p \in Parties |-> 0] /\ rpc = [p \in Parties |-> "idle"]
  /\ call = [p \in Parties |-> [a \in Attempts |-> "unsent"]]
  /\ sent = [p \in Parties |-> [a \in Attempts |-> 0]]
  /\ servers = {} /\ filter = {}
  /\ exec = [p \in Parties |-> "none"] /\ ready = [p \in Parties |-> "unset"]
  /\ notes = {} /\ delivered = {}
  /\ final_status_ = <<>> /\ party_count_ = 0
  /\ promise = "unset" /\ sets = 0 /\ task_status_ = {}
  /\ waiter = "none" /\ kill_called = {}
  /\ client = "idle" /\ reply_count = 0 /\ seen = {}

-----------------------------------------------------------------------------
(* DispatchTask                                                            *)

(* SubmitTask reaches the node: the Worker goes into task_scheduler_map_   *)
(* before anything else is known of the task.                              *)
Submit == /\ dispatch = "idle"
          /\ dispatch' = "registered" /\ worker' = TRUE /\ client' = "submitting"
          /\ UNCHANGED <<now, rpcVars, nodeVars, workerVars, party_count_,
                         waiter, kill_called, reply_count, seen>>

(* No parser, an exception while the datasets are looked up, no party, no  *)
(* scheduler for the task type: DispatchTask answers with an error and no  *)
(* party count.  The Worker stays in the map.                              *)
ParseFails == /\ dispatch = "registered"
              /\ dispatch' = "aborted"
              /\ UNCHANGED <<now, worker, rpcVars, nodeVars, workerVars,
                             party_count_, waiter, kill_called, clientVars>>

(* VMScheduler::dispatch starts one ScheduleTask thread per party; each    *)
(* makes its first attempt.                                                *)
StartDispatch ==
  /\ dispatch = "registered"
  /\ dispatch' = "sending"
  /\ tries' = [p \in Parties |-> 1] /\ rpc' = [p \in Parties |-> "calling"]
  /\ call' = [p \in Parties |-> [call[p] EXCEPT ![1] = "sent"]]
  /\ sent' = [p \in Parties |-> [sent[p] EXCEPT ![1] = now]]
  /\ UNCHANGED <<now, worker, servers, nodeVars, workerVars, party_count_,
                 waiter, kill_called, clientVars>>

(* executeTask returns: the answer of the current attempt came in time,    *)
(* and parseNotifyServer counts its task_server, if it has one.            *)
ExecuteTaskReturns(p) ==
  /\ rpc[p] = "calling" /\ call[p][tries[p]] \in {"server", "empty"}
  /\ rpc' = [rpc EXCEPT ![p] = "ok"]
  /\ servers' = IF call[p][tries[p]] = "server" THEN servers \cup {p} ELSE servers
  /\ UNCHANGED <<now, dispatch, worker, tries, call, sent, nodeVars, workerVars,
                 party_count_, waiter, kill_called, clientVars>>

(* Mutant of ExecuteTaskFails: the last attempt has no deadline.           *)
ExecuteTaskHangs(p) ==
  /\ rpc[p] = "calling" /\ tries[p] < MaxTries
  /\ tries' = [tries EXCEPT ![p] = @ + 1]
  /\ call' = [call EXCEPT ![p][tries[p] + 1] = "sent"]
  /\ sent' = [sent EXCEPT ![p][tries[p] + 1] = now]
  /\ UNCHANGED <<now, rpc, dispatch, worker, servers, nodeVars, workerVars,
                 party_count_, waiter, kill_called, clientVars>>

(* The attempt fails or its deadline passes: retry, or give up and         *)
(* set_error().                                                            *)
ExecuteTaskFails(p) ==
  /\ rpc[p] = "calling"
  /\ IF tries[p] < MaxTries
     THEN /\ tries' = [tries EXCEPT ![p] = @ + 1]
          /\ call' = [call EXCEPT ![p][tries[p] + 1] = "sent"]
          /\ sent' = [sent EXCEPT ![p][tries[p] + 1] = now]
          /\ UNCHANGED rpc
     ELSE /\ rpc' = [rpc EXCEPT ![p] = "failed"]
          /\ UNCHANGED <<tries, call, sent>>
  /\ UNCHANGED <<now, dispatch, worker, servers, nodeVars, workerVars,
                 party_count_, waiter, kill_called, clientVars>>

(* All ScheduleTask futures are in: has_error() decides.                   *)
JoinDispatch ==
  /\ dispatch = "sending"
  /\ \A p \in Parties : rpc[p] \in {"ok", "failed"}
  /\ dispatch' = IF \E p \in Parties : rpc[p] = "failed" THEN "aborted" ELSE "joined"
  /\ UNCHANGED <<now, worker, rpcVars, nodeVars, workerVars, party_count_,
                 waiter, kill_called, clientVars>>

(* Mutant of SetPartyCount: the scheduler counts itself.                   *)
CountScheduler ==
  /\ dispatch = "joined"
  /\ dispatch' = "counted" /\ party_count_' = Cardinality(servers) + 1
  /\ UNCHANGED <<now, worker, rpcVars, nodeVars, workerVars, waiter,
                 kill_called, clientVars>>

(* worker_ptr->setPartyCount(task_server.size())                           *)
SetPartyCount ==
  /\ dispatch = "joined"
  /\ dispatch' = "counted" /\ party_count_' = Cardinality(servers)
  /\ UNCHANGED <<now, worker, rpcVars, nodeVars, workerVars, waiter,
                 kill_called, clientVars>>

(* The scheduler thread starts and DispatchTask answers the client, if the *)
(* client is still there.                                                  *)
StartWaiter ==
  /\ dispatch = "counted"
  /\ dispatch' = "returned" /\ waiter' = "waiting"
  /\ UNCHANGED <<now, worker, rpcVars, nodeVars, workerVars, party_count_,
                 kill_called, clientVars>>

-----------------------------------------------------------------------------
(* The executing nodes, as far as the scheduler sees them                  *)

(* Mutant of Remembered: a task is kept as long as one attempt, not as     *)
(* long as all of them.                                                    *)
RememberedOneCall(n) == {e \in filter : e[1] = n => now <= e[2] + Deadline}

(* The filter when node n has dropped what is older than task_id_timeout_s_ *)
(* (CleanDuplicateTaskIdFilter).                                            *)
Remembered(n) == {e \in filter : e[1] = n => now <= e[2] + Timeout}

(* An attempt that may still be handled; one that was not in time is lost. *)
Handleable(p, a) == call[p][a] = "sent" /\ now <= sent[p][a] + Deadline + Late

(* ExecuteTask cleans the filter, and IsDuplicateTask then knows the task  *)
(* by its request id alone: it rejects a retry, and a second party on the  *)
(* same node, with an answer that is OK and names no task_server.          *)
HandleExecute(p, a) ==
  /\ Handleable(p, a)
  /\ LET old == Remembered(NodeOf[p])
     IN  IF \E e \in old : e[1] = NodeOf[p]
         THEN /\ call' = [call EXCEPT ![p][a] = "empty"]
              /\ filter' = old
              /\ UNCHANGED exec
         ELSE /\ call' = [call EXCEPT ![p][a] = "handling"]
              /\ filter' = old \cup {<<NodeOf[p], now>>}
              /\ exec' = [exec EXCEPT ![p] = "launching"]
  /\ UNCHANGED <<now, dispatch, worker, tries, rpc, sent, servers, ready, notes,
                 workerVars, party_count_, waiter, kill_called, clientVars>>

(* NotifyTaskStatus of the node (source "node") or TaskEngine::UpdateStatus *)
(* of the task process (source "child").                                    *)
Notify(p, s, source) == notes' = notes \cup {<<p, s, source>>}

(* The task process is up: task_ready_promise_.set_value(true).            *)
ExecutorReady(p) ==
  /\ exec[p] = "launching"
  /\ exec' = [exec EXCEPT ![p] = "running"] /\ ready' = [ready EXCEPT ![p] = "true"]
  /\ UNCHANGED <<now, dispatch, worker, rpcVars, filter, notes, workerVars,
                 party_count_, waiter, kill_called, clientVars>>

(* The task cannot be created (ready is set to false) or the process       *)
(* cannot be launched (ready is never set); either way FAIL is reported.   *)
ExecutorCannotStart(p) ==
  /\ exec[p] = "launching"
  /\ exec' = [exec EXCEPT ![p] = "fail"] /\ Notify(p, "FAIL", "node")
  /\ \E r \in {"false", "unset"} : ready' = [ready EXCEPT ![p] = r]
  /\ UNCHANGED <<now, dispatch, worker, rpcVars, filter, workerVars,
                 party_count_, waiter, kill_called, clientVars>>

(* TaskEngine::Execute in the child reports on its own before the process  *)
(* ends.                                                                   *)
ChildReports(p) ==
  /\ exec[p] = "running"
  /\ \E s \in Status :
        /\ exec' = [exec EXCEPT ![p] = IF s = "SUCCESS" THEN "reported" ELSE "failing"]
        /\ Notify(p, s, "child")
  /\ UNCHANGED <<now, dispatch, worker, rpcVars, filter, ready, workerVars,
                 party_count_, waiter, kill_called, clientVars>>

(* The process has ended and executor_func reports the outcome: SUCCESS    *)
(* only after the child's own, FAIL in any case (error exit, kill, crash). *)
ExecutorEnds(p) ==
  /\ \/ /\ exec[p] = "reported"
        /\ exec' = [exec EXCEPT ![p] = "ok"] /\ Notify(p, "SUCCESS", "node")
     \/ /\ exec[p] \in {"running", "reported", "failing"}
        /\ exec' = [exec EXCEPT ![p] = "fail"] /\ Notify(p, "FAIL", "node")
  /\ UNCHANGED <<now, dispatch, worker, rpcVars, filter, ready, workerVars,
                 party_count_, waiter, kill_called, clientVars>>

(* waitForTaskReady returned in the ExecuteTask handler.                   *)
HandlerAnswers(p, a) ==
  /\ call[p][a] = "handling" /\ ready[p] # "unset"
  /\ call' = [call EXCEPT ![p][a] = IF ready[p] = "true" THEN "server" ELSE "empty"]
  /\ IF ready[p] = "true" THEN UNCHANGED notes ELSE Notify(p, "FAIL", "node")
  /\ UNCHANGED <<now, dispatch, worker, tries, rpc, sent, servers, filter, exec, ready,
                 workerVars, party_count_, waiter, kill_called, clientVars>>

-----------------------------------------------------------------------------
(* The scheduler's Worker                                                  *)

(* final_status_ once the report is entered.                               *)
Entered(party, s) == [q \in DOMAIN final_status_ \cup {party} |->
                        IF q = party THEN s ELSE final_status_[q]]

(* Mutants of updateTaskStatus: scheduler_finished is not looked at; the   *)
(* count is compared with >=; both verdicts are FAIL.                      *)
updateUnchecked(party, s) ==
  /\ task_status_' = task_status_ \cup {<<party, s>>}
  /\ final_status_' = Entered(party, s)
  /\ IF s = "FAIL" THEN promise' = "FAIL" /\ sets' = sets + 1
     ELSE IF Cardinality(DOMAIN final_status_') = party_count_
     THEN promise' = "SUCCESS" /\ sets' = sets + 1
     ELSE UNCHANGED <<promise, sets>>

updateAtLeast(party, s) ==
  /\ task_status_' = task_status_ \cup {<<party, s>>}
  /\ final_status_' = Entered(party, s)
  /\ IF promise = "unset" /\ Cardinality(DOMAIN final_status_') >= party_count_
     THEN promise' = s /\ sets' = sets + 1
     ELSE UNCHANGED <<promise, sets>>

updateAlwaysFail(party, s) ==
  /\ task_status_' = task_status_ \cup {<<party, s>>}
  /\ final_status_' = Entered(party, s)
  /\ IF /\ promise = "unset"
        /\ s = "FAIL" \/ Cardinality(DOMAIN final_status_') = party_count_
     THEN promise' = "FAIL" /\ sets' = sets + 1
     ELSE UNCHANGED <<promise, sets>>

(* Worker::updateTaskStatus: under final_status_mtx_ the first FAIL, or the *)
(* report that brings the number of finished parties to party_count_, sets *)
(* the promise; then the report is queued for the client.  The queue is a  *)
(* set here: the client tells neither order nor repetition apart.          *)
updateTaskStatus(party, s) ==
  LET outcome == IF s = "FAIL" THEN "FAIL"
                 ELSE IF Cardinality(DOMAIN Entered(party, s)) = party_count_
                      THEN "SUCCESS" ELSE "unset"
  IN  /\ task_status_' = task_status_ \cup {<<party, s>>}
      /\ final_status_' = Entered(party, s)
      /\ IF promise = "unset" /\ outcome # "unset"
         THEN promise' = outcome /\ sets' = sets + 1
         ELSE UNCHANGED <<promise, sets>>

(* UpdateTaskStatus: a report arrives; with no Worker it is dropped.       *)
UpdateTaskStatus(note) ==
  /\ note \in notes
  /\ delivered' = delivered \cup {note}
  /\ IF worker
     THEN updateTaskStatus(note[1], note[2])
     ELSE UNCHANGED <<final_status_, promise, sets, task_status_>>
  /\ UNCHANGED <<now, dispatch, worker, rpcVars, nodeVars, party_count_, waiter,
                 kill_called, clientVars>>

(* KillTask from the client is one more report of failure, in the name of  *)
(* the scheduler; it is ignored when there is no Worker, and when the      *)
(* scheduler's own node has cached the task as finished.                   *)
ClientKill ==
  /\ worker
  /\ updateTaskStatus("SCHEDULER", "FAIL")
  /\ UNCHANGED <<now, delivered, dispatch, worker, rpcVars, nodeVars, party_count_,
                 waiter, kill_called, clientVars>>

-----------------------------------------------------------------------------
(* scheduler_func                                                          *)

(* Mutant of KillTargets: the nodes that answered.                         *)
AckedNodes == {NodeOf[p] : p \in servers}

(* Everyone scheduler_func kills: GetAllParties (party_access_info and the *)
(* auxiliary compute node) and the task servers, each node once.           *)
KillTargets == {NodeOf[p] : p \in Parties} \cup Aux

(* Mutant of WaiterWakes: the result is not looked at.                     *)
WaiterLeaves == /\ waiter = "waiting" /\ promise # "unset"
                /\ waiter' = "done"
                /\ UNCHANGED <<now, dispatch, worker, rpcVars, nodeVars,
                               workerVars, party_count_, kill_called, clientVars>>

(* waitUntilTaskFinish returns.                                            *)
WaiterWakes == /\ waiter = "waiting" /\ promise # "unset"
               /\ waiter' = IF promise = "FAIL" THEN "killing" ELSE "done"
               /\ UNCHANGED <<now, dispatch, worker, rpcVars, nodeVars,
                              workerVars, party_count_, kill_called, clientVars>>

(* One killTask call after the other; its result is not looked at.         *)
SendKill(n) == /\ waiter = "killing" /\ n \in KillTargets \ kill_called
               /\ kill_called' = kill_called \cup {n}
               /\ waiter' = IF kill_called' = KillTargets THEN "done" ELSE "killing"
               /\ UNCHANGED <<now, dispatch, worker, rpcVars, nodeVars,
                              workerVars, party_count_, clientVars>>

(* cleanSchedulerTask drops a Worker some time after its thread is done.   *)
EvictWorker == /\ waiter = "done" /\ worker
               /\ worker' = FALSE
               /\ UNCHANGED <<now, dispatch, rpcVars, nodeVars, workerVars,
                              party_count_, waiter, kill_called, clientVars>>

-----------------------------------------------------------------------------
(* The client: SDKClient::SubmitTask and CheckTaskStauts                   *)

(* The answer to SubmitTask is in.  Without a party count the client gives *)
(* up.                                                                     *)
SubmitReturns ==
  /\ client = "submitting" /\ dispatch \in {"returned", "aborted"}
  /\ reply_count' = IF dispatch = "returned" THEN party_count_ ELSE 0
  /\ client' = IF reply_count' < 1 THEN "failed" ELSE "polling"
  /\ UNCHANGED <<now, dispatch, worker, rpcVars, nodeVars, workerVars,
                 party_count_, waiter, kill_called, seen>>

(* The deadline of SubmitTask passes while DispatchTask is still waiting   *)
(* for the parties: submitTask returns an empty reply, so no party count.  *)
SubmitTimesOut ==
  /\ client = "submitting"
  /\ client' = "failed"
  /\ UNCHANGED <<now, dispatch, worker, rpcVars, nodeVars, workerVars,
                 party_count_, waiter, kill_called, reply_count, seen>>

(* One FetchTaskStatus: everything queued is handed over, and              *)
(* CheckTaskStauts stops at the first failure or at the party count.       *)
Poll ==
  /\ client = "polling" /\ worker /\ task_status_ # {}
  /\ task_status_' = {}
  /\ seen' = seen \cup {m[1] : m \in task_status_}
  /\ client' = IF \/ \E m \in task_status_ : m[2] = "FAIL"
                  \/ Cardinality(seen') >= reply_count
               THEN "done" ELSE "polling"
  /\ UNCHANGED <<now, dispatch, worker, rpcVars, nodeVars, delivered, final_status_,
                 promise, sets, party_count_, waiter, kill_called, reply_count>>

-----------------------------------------------------------------------------
(* A second passes while an attempt is under way; before and after that    *)
(* nothing asks for the time.  executeTask is back by the deadline of its  *)
(* attempt.                                                                *)
Tick ==
  /\ now < MaxTime /\ \E p \in Parties, a \in Attempts : Handleable(p, a)
  /\ \A p \in Parties : rpc[p] = "calling" => now < sent[p][tries[p]] + Deadline
  /\ now' = now + 1
  /\ UNCHANGED <<dispatch, worker, rpcVars, nodeVars, workerVars, party_count_,
                 waiter, kill_called, clientVars>>

Dispatching == \/ Submit \/ ParseFails \/ StartDispatch \/ JoinDispatch
               \/ SetPartyCount \/ StartWaiter
               \/ \E p \in Parties : ExecuteTaskReturns(p) \/ ExecuteTaskFails(p)

Executing == \E p \in Parties :
                \/ ExecutorReady(p) \/ ExecutorCannotStart(p)
                \/ ChildReports(p) \/ ExecutorEnds(p)
                \/ \E a \in Attempts : HandleExecute(p, a) \/ HandlerAnswers(p, a)

Next == \/ Dispatching \/ Executing
        \/ \E note \in Reports : UpdateTaskStatus(note)
        \/ ClientKill \/ WaiterWakes \/ EvictWorker
        \/ \E n \in Nodes : SendKill(n)
        \/ SubmitReturns \/ SubmitTimesOut \/ Poll
        \/ Tick

Spec == Init /\ [][Next]_vars

(* DispatchTask and scheduler_func are threads that run; a call that is    *)
(* not answered meets its deadline.  A report that was sent arrives at     *)
(* least once.  Nothing else is assumed of the nodes, of the network or of *)
(* the client.                                                             *)
SchedulerFairness ==
  /\ WF_vars(JoinDispatch) /\ WF_vars(SetPartyCount) /\ WF_vars(StartWaiter)
  /\ WF_vars(ParseFails \/ StartDispatch)
  /\ \A p \in Parties : WF_vars(ExecuteTaskReturns(p) \/ ExecuteTaskFails(p))
  /\ \A note \in Reports : WF_vars(note \notin delivered /\ UpdateTaskStatus(note))
  /\ WF_vars(WaiterWakes) /\ \A n \in Nodes : WF_vars(SendKill(n))

FairSpec == Spec /\ SchedulerFairness

-----------------------------------------------------------------------------
(* Type invariant.                                                         *)
TypeOK ==
  /\ dispatch \in {"idle", "registered", "sending", "joined", "counted",
                   "returned", "aborted"}
  /\ worker \in BOOLEAN
  /\ tries \in [Parties -> 0..MaxTries]
  /\ rpc \in [Parties -> {"idle", "calling", "ok", "failed"}]
  /\ call \in [Parties -> [Attempts -> {"unsent", "sent", "handling",
                                        "server", "empty"}]]
  /\ now \in Nat /\ sent \in [Parties -> [Attempts -> Nat]]
  /\ servers \subseteq Parties /\ filter \subseteq Nodes \X Nat
  /\ exec \in [Parties -> {"none", "launching", "running",
                           "reported", "failing", "ok", "fail"}]
  /\ ready \in [Parties -> {"unset", "true", "false"}]
  /\ notes \subseteq Reports /\ delivered \subseteq notes
  /\ DOMAIN final_status_ \subseteq Parties \cup {"SCHEDULER"}
  /\ \A q \in DOMAIN final_status_ : final_status_[q] \in {"SUCCESS", "FAIL"}
  /\ promise \in {"unset", "SUCCESS", "FAIL"} /\ sets \in Nat
  /\ task_status_ \subseteq (Parties \cup {"SCHEDULER"}) \X Status
  /\ party_count_ \in 0..Cardinality(Parties)
  /\ waiter \in {"none", "waiting", "killing", "done"}
  /\ kill_called \subseteq Nodes
  /\ client \in {"idle", "submitting", "polling", "failed", "done"}
  /\ reply_count \in 0..Cardinality(Parties)
  /\ seen \subseteq Parties \cup {"SCHEDULER"}

(* Parties whose executor is still at work, and parties that have reported *)
(* s at least once.                                                        *)
Busy        == {p \in Parties : exec[p] \in {"launching", "running", "reported", "failing"}}
Reported(s) == {p \in Parties : \E note \in notes : note[1] = p /\ note[2] = s}

(* task_finish_promise_ is set at most once, however many parties fail,    *)
(* succeed, repeat themselves or are killed by the client at the same      *)
(* time: a second set_value would throw in the RPC handler.                *)
VerdictOnce == sets <= 1

(* A SUCCESS verdict is never reached on too few reports: as many parties  *)
(* as acknowledged the dispatch, and at least one, have really reported    *)
(* success, although parties report while the count is still being made.   *)
SuccessBacked ==
  promise = "SUCCESS" =>
     /\ party_count_ = Cardinality(servers) /\ servers # {}
     /\ Cardinality(Reported("SUCCESS")) >= party_count_
     /\ servers = Parties => Reported("SUCCESS") = Parties

(* A FAIL verdict has a cause: a party that reported failure, or a client  *)
(* that asked for the kill.                                                *)
FailBacked ==
  promise = "FAIL" => Reported("FAIL") # {} \/ "SCHEDULER" \in DOMAIN final_status_

(* When the scheduler thread of a failed task has ended, every node that   *)
(* still executes a part of it has been sent the kill, including nodes     *)
(* whose answer to ExecuteTask was lost; and only a failed task is killed. *)
KillReachesAll ==
  /\ waiter = "done" /\ promise = "FAIL" => {NodeOf[p] : p \in Busy} \subseteq kill_called
  /\ kill_called # {} => promise = "FAIL"

(* A retried ExecuteTask never runs a party's part a second time, although *)
(* the filter forgets and a retry may be handled when its caller has long  *)
(* given up: once an executor has got going it never goes back to its      *)
(* start.                                                                  *)
RetryNeverReruns ==
  [][\A p \in Parties : exec[p] # "none" /\ exec'[p] # exec[p]
                            => exec'[p] \notin {"none", "launching"}]_vars

(* DispatchTask returns: every executeTask call is given up in the end.    *)
DispatchReturns == dispatch = "registered" ~> dispatch \in {"returned", "aborted"}

(* Once the scheduler thread of a failed task is waiting, it wakes up and  *)
(* makes every one of its kill calls.                                      *)
FailureIsKilled ==
  (waiter = "waiting" /\ promise = "FAIL") ~> (waiter = "done" /\ kill_called = KillTargets)

(* scheduler_func says "get the final task status, if failed, kill current *)
(* task": once all parties have reported, the final status is there to be  *)
(* got.                                                                    *)
FinalStatusReached ==
  (waiter = "waiting" /\ \A p \in Parties : exec[p] \in {"ok", "fail"})
      ~> waiter # "waiting"
=============================================================================
