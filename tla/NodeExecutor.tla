---------------------------- MODULE NodeExecutor ----------------------------
(***************************************************************************)
(* The executing half of a node (node/node_impl.cc, node/worker/worker.cc): *)
(* ExecuteTask, StopTask and KillTask are handlers that run concurrently;   *)
(* each accepted call has an executor thread that runs the task in a        *)
(* process of its own; the thread manageTaskOperator moves the workers in   *)
(* and out of task_executor_map_ as task_manage_queue_ tells it; the        *)
(* threads cleanFinihsedTask and ProcessKilledTask destroy them.            *)
(*                                                                          *)
(* A worker travels with the std::future of its executor thread, and that   *)
(* future comes from std::async: destroying it waits for the thread.        *)
(*                                                                          *)
(* The filter knows a task by its request and sub task id; the map, the     *)
(* cache of finished tasks and every operation know only the request id     *)
(* (GetWorkerId), which the sub tasks of a request share.                   *)
(***************************************************************************)
EXTENDS Naturals, Sequences, FiniteSets

CONSTANTS Calls,      \* ExecuteTask calls that reach the node
          TaskOf,     \* the task (request id and sub task id) of each call
          WorkerId,   \* the request id of each task
          Manual,     \* tasks submitted with manual_launch
          Tee,        \* tasks run by ExecuteTaskByThread
          MaxOps      \* bound: how many StopTask and KillTask calls are made

Tasks == {TaskOf[i] : i \in Calls}
Ids   == {WorkerId[t] : t \in Tasks}

ASSUME ExecutorAssumption ==
    /\ IsFiniteSet(Calls)
    /\ \A i \in Calls : TaskOf[i] \in DOMAIN WorkerId
    /\ MaxOps \in Nat

VARIABLES
  filter,                \* duplicate_task_id_filter_
  handler,               \* where the ExecuteTask handler of each call is
  executor,              \* where its executor thread is
  ready,                 \* task_ready_promise_ of its worker
  process_handler_,      \* of its worker: null, or a process that runs or is gone
  task_manage_queue_,
  task_executor_map_,    \* a queue of workers per id; <<>> when there is none
  finished_task_queue_, cleaner,
  kill_task_queue_, killer,
  released,              \* workers destroyed, with their futures
  finished_task_status_, \* ids of the cached, finished tasks
  kill_requested,        \* ids KillTask has queued an operation for
  killed,                \* workers whose process kill_task() killed
  ops                    \* StopTask and KillTask calls made

callVars == <<filter, handler, executor, ready, process_handler_>>
poolVars == <<task_manage_queue_, task_executor_map_, finished_task_queue_,
              cleaner, kill_task_queue_, killer, released>>
histVars == <<kill_requested, killed, ops>>
vars == <<callVars, poolVars, finished_task_status_, histVars>>

idOf(i) == WorkerId[TaskOf[i]]

(* Entries of task_manage_queue_: kAdd carries a worker, the others an id.  *)
Add(i)   == [type |-> "kAdd", worker |-> i]
Del(id)  == [type |-> "kDel", id |-> id]
Kill(id) == [type |-> "kKill", id |-> id]

Init ==
  /\ filter = {}
  /\ handler = [i \in Calls |-> "idle"] /\ executor = [i \in Calls |-> "none"]
  /\ ready = [i \in Calls |-> "unset"] /\ process_handler_ = [i \in Calls |-> "null"]
  /\ task_manage_queue_ = <<>> /\ task_executor_map_ = [id \in Ids |-> <<>>]
  /\ finished_task_queue_ = <<>> /\ cleaner = <<>>
  /\ kill_task_queue_ = <<>> /\ killer = [at |-> "wait", tasks |-> <<>>]
  /\ released = {} /\ finished_task_status_ = {}
  /\ kill_requested = {} /\ killed = {} /\ ops = 0

-----------------------------------------------------------------------------
(* ExecuteTask: the handler                                                 *)

(* CleanDuplicateTaskIdFilter drops the entries older than                  *)
(* task_id_timeout_s_, IsDuplicateTask refuses a task still in the filter;  *)
(* otherwise a Worker is made and its executor thread starts.               *)
ExecuteTask(i) ==
  /\ handler[i] = "idle"
  /\ \E old \in SUBSET filter :
        IF TaskOf[i] \in filter \ old
        THEN /\ handler' = [handler EXCEPT ![i] = "refused"]
             /\ filter' = filter \ old
             /\ UNCHANGED executor
        ELSE /\ handler' = [handler EXCEPT ![i] = "waiting"]
             /\ filter' = (filter \ old) \cup {TaskOf[i]}
             /\ executor' = [executor EXCEPT ![i] = "launching"]
  /\ UNCHANGED <<ready, process_handler_, poolVars, finished_task_status_, histVars>>

(* Mutant of HandlerSaves: wait for the process handler instead.            *)
HandlerSavesProcess(i) ==
  /\ handler[i] = "waiting" /\ process_handler_[i] = "live"
  /\ handler' = [handler EXCEPT ![i] = "accepted"]
  /\ task_manage_queue_' = Append(task_manage_queue_, Add(i))
  /\ UNCHANGED <<filter, executor, ready, process_handler_, task_executor_map_,
                 finished_task_queue_, cleaner, kill_task_queue_, killer,
                 released, finished_task_status_, histVars>>

(* waitForTaskReady returned true: the worker and its future go to the      *)
(* manager.                                                                 *)
HandlerSaves(i) ==
  /\ handler[i] = "waiting" /\ ready[i] = "true"
  /\ handler' = [handler EXCEPT ![i] = "accepted"]
  /\ task_manage_queue_' = Append(task_manage_queue_, Add(i))
  /\ UNCHANGED <<filter, executor, ready, process_handler_, task_executor_map_,
                 finished_task_queue_, cleaner, kill_task_queue_, killer,
                 released, finished_task_status_, histVars>>

(* It returned false: the handler fails, and on its way out destroys the    *)
(* future of the executor thread.                                           *)
HandlerFails(i) ==
  /\ handler[i] = "waiting" /\ ready[i] = "false"
  /\ executor[i] = "exited"
  /\ handler' = [handler EXCEPT ![i] = "failed"]
  /\ UNCHANGED <<filter, executor, ready, process_handler_, poolVars, finished_task_status_, histVars>>

-----------------------------------------------------------------------------
(* ExecuteTask: executor_func                                               *)

(* The task is up and task_ready_promise_ is set.  In process mode the      *)
(* process_handler_ by which kill_task() finds the process is still null.   *)
TaskReady(i) ==
  /\ executor[i] = "launching"
  /\ ready' = [ready EXCEPT ![i] = "true"]
  /\ executor' = [executor EXCEPT ![i] = IF TaskOf[i] \in Tee THEN "running" ELSE "ready"]
  /\ UNCHANGED <<filter, handler, process_handler_, poolVars, finished_task_status_, histVars>>

HandlerIsStored(i) ==
  /\ executor[i] = "ready"
  /\ executor' = [executor EXCEPT ![i] = "running"]
  /\ process_handler_' = [process_handler_ EXCEPT ![i] = "live"]
  /\ UNCHANGED <<filter, handler, ready, poolVars, finished_task_status_, histVars>>

(* The task cannot be created: in thread mode the promise is set to false,  *)
(* in process mode (no serialisation, or launch throws) it is left alone.   *)
LaunchFails(i) ==
  /\ executor[i] = "launching"
  /\ executor' = [executor EXCEPT ![i] = "ended"]
  /\ ready' = IF TaskOf[i] \in Tee THEN [ready EXCEPT ![i] = "false"] ELSE ready
  /\ UNCHANGED <<filter, handler, process_handler_, poolVars, finished_task_status_, histVars>>

(* The task ends and is waited for.  process_handler_ is reset when the     *)
(* exit status is zero; otherwise, and always after a kill, it stays and    *)
(* names a process that is no more.                                         *)
TaskEnds(i) ==
  /\ executor[i] = "running"
  /\ executor' = [executor EXCEPT ![i] = "ended"]
  /\ \E h \in IF TaskOf[i] \in Tee THEN {"null"}
              ELSE IF i \in killed THEN {"gone"} ELSE {"null", "gone"} :
        process_handler_' = [process_handler_ EXCEPT ![i] = h]
  /\ UNCHANGED <<filter, handler, ready, poolVars, finished_task_status_, histVars>>

(* After NotifyTaskStatus: a manual launch is over, any other task is       *)
(* cached as finished.                                                      *)
ManualReturns(i) ==
  /\ executor[i] = "ended" /\ TaskOf[i] \in Manual
  /\ executor' = [executor EXCEPT ![i] = "exited"]
  /\ UNCHANGED <<filter, handler, ready, process_handler_, poolVars, finished_task_status_, histVars>>

(* Mutant of CacheLastTaskStatus: the cache is keyed by the task.           *)
CacheByTask(i) ==
  /\ executor[i] = "ended" /\ TaskOf[i] \notin Manual
  /\ finished_task_status_' = finished_task_status_ \cup {TaskOf[i]}
  /\ executor' = [executor EXCEPT ![i] = "cached"]
  /\ UNCHANGED <<filter, handler, ready, process_handler_, poolVars, histVars>>

CacheLastTaskStatus(i) ==
  /\ executor[i] = "ended" /\ TaskOf[i] \notin Manual
  /\ finished_task_status_' = finished_task_status_ \cup {idOf(i)}
  /\ executor' = [executor EXCEPT ![i] = "cached"]
  /\ UNCHANGED <<filter, handler, ready, process_handler_, poolVars, histVars>>

ExecutorExits(i) ==
  /\ executor[i] = "cached"
  /\ task_manage_queue_' = Append(task_manage_queue_, Del(idOf(i)))
  /\ executor' = [executor EXCEPT ![i] = "exited"]
  /\ UNCHANGED <<filter, handler, ready, process_handler_, task_executor_map_, finished_task_queue_,
                 cleaner, kill_task_queue_, killer, released,
                 finished_task_status_, histVars>>

(* CleanTimeoutCachedTaskStatusThread.                                      *)
CleanTimeoutCachedTaskStatus ==
  /\ finished_task_status_ # {}
  /\ \E old \in SUBSET finished_task_status_ :
        /\ old # {}
        /\ finished_task_status_' = finished_task_status_ \ old
  /\ UNCHANGED <<callVars, poolVars, histVars>>

-----------------------------------------------------------------------------
(* StopTask, KillTask and the thread manageTaskOperator                     *)

StopTask(id) ==
  /\ ops < MaxOps
  /\ ops' = ops + 1
  /\ task_manage_queue_' = Append(task_manage_queue_, Del(id))
  /\ UNCHANGED <<callVars, task_executor_map_, finished_task_queue_, cleaner,
                 kill_task_queue_, killer, released, finished_task_status_,
                 kill_requested, killed>>

(* KillTask from the scheduler; it answers SUCCESS either way.              *)
KillTask(id) ==
  /\ ops < MaxOps /\ id \notin finished_task_status_
  /\ ops' = ops + 1
  /\ task_manage_queue_' = Append(task_manage_queue_, Kill(id))
  /\ kill_requested' = kill_requested \cup {id}
  /\ UNCHANGED <<callVars, task_executor_map_, finished_task_queue_, cleaner,
                 kill_task_queue_, killer, released, finished_task_status_,
                 killed>>

PopOperation(type) == /\ task_manage_queue_ # <<>>
                 /\ Head(task_manage_queue_).type = type
                 /\ task_manage_queue_' = Tail(task_manage_queue_)

ExecuteAddTaskOperation ==
  /\ PopOperation("kAdd")
  /\ LET i == Head(task_manage_queue_).worker
     IN  task_executor_map_' = [task_executor_map_ EXCEPT ![idOf(i)] = Append(@, i)]
  /\ UNCHANGED <<callVars, finished_task_queue_, cleaner, kill_task_queue_,
                 killer, released, finished_task_status_, histVars>>

(* Mutant of ExecuteDelTaskOperation: the workers go to the killer.         *)
DelKills ==
  /\ PopOperation("kDel")
  /\ LET id == Head(task_manage_queue_).id
     IN  /\ task_executor_map_' = [task_executor_map_ EXCEPT ![id] = <<>>]
         /\ kill_task_queue_' =
               IF task_executor_map_[id] = <<>> THEN kill_task_queue_
               ELSE Append(kill_task_queue_, task_executor_map_[id])
  /\ UNCHANGED <<callVars, finished_task_queue_, cleaner, killer, released,
                 finished_task_status_, histVars>>

(* All workers of the id go to the cleaning thread at once; with no worker  *)
(* the operation only logs.                                                 *)
ExecuteDelTaskOperation ==
  /\ PopOperation("kDel")
  /\ LET id == Head(task_manage_queue_).id
     IN  /\ task_executor_map_' = [task_executor_map_ EXCEPT ![id] = <<>>]
         /\ finished_task_queue_' =
               IF task_executor_map_[id] = <<>> THEN finished_task_queue_
               ELSE Append(finished_task_queue_, task_executor_map_[id])
  /\ UNCHANGED <<callVars, cleaner, kill_task_queue_, killer, released,
                 finished_task_status_, histVars>>

(* Mutant of ExecuteKillTaskOperation: the map keeps its entry.             *)
KillKeepsEntry ==
  /\ PopOperation("kKill")
  /\ LET id == Head(task_manage_queue_).id
     IN  kill_task_queue_' =
               IF task_executor_map_[id] = <<>> THEN kill_task_queue_
               ELSE Append(kill_task_queue_, task_executor_map_[id])
  /\ UNCHANGED <<callVars, task_executor_map_, finished_task_queue_, cleaner,
                 killer, released, finished_task_status_, histVars>>

ExecuteKillTaskOperation ==
  /\ PopOperation("kKill")
  /\ LET id == Head(task_manage_queue_).id
     IN  /\ task_executor_map_' = [task_executor_map_ EXCEPT ![id] = <<>>]
         /\ kill_task_queue_' =
               IF task_executor_map_[id] = <<>> THEN kill_task_queue_
               ELSE Append(kill_task_queue_, task_executor_map_[id])
  /\ UNCHANGED <<callVars, finished_task_queue_, cleaner, killer, released,
                 finished_task_status_, histVars>>

-----------------------------------------------------------------------------
(* The thread cleanFinihsedTask                                             *)

(* Mutant of CleanerTakes: the popped container is dropped.                 *)
CleanerDrops ==
  /\ cleaner = <<>> /\ finished_task_queue_ # <<>>
  /\ finished_task_queue_' = Tail(finished_task_queue_)
  /\ UNCHANGED <<callVars, cleaner, task_manage_queue_, task_executor_map_,
                 kill_task_queue_, killer, released, finished_task_status_, histVars>>

CleanerTakes ==
  /\ cleaner = <<>> /\ finished_task_queue_ # <<>>
  /\ cleaner' = Head(finished_task_queue_)
  /\ finished_task_queue_' = Tail(finished_task_queue_)
  /\ UNCHANGED <<callVars, task_manage_queue_, task_executor_map_, kill_task_queue_,
                 killer, released, finished_task_status_, histVars>>

(* Mutant of CleanerReleases: the futures do not wait.                      *)
ReleaseWithoutJoin ==
  /\ cleaner # <<>>
  /\ released' = released \cup {Head(cleaner)}
  /\ cleaner' = Tail(cleaner)
  /\ UNCHANGED <<callVars, task_manage_queue_, task_executor_map_,
                 finished_task_queue_, kill_task_queue_, killer,
                 finished_task_status_, histVars>>

(* Destroying the container destroys the futures, one after the other.      *)
CleanerReleases ==
  /\ cleaner # <<>> /\ executor[Head(cleaner)] = "exited"
  /\ released' = released \cup {Head(cleaner)}
  /\ cleaner' = Tail(cleaner)
  /\ UNCHANGED <<callVars, task_manage_queue_, task_executor_map_,
                 finished_task_queue_, kill_task_queue_, killer,
                 finished_task_status_, histVars>>

-----------------------------------------------------------------------------
(* The thread ProcessKilledTask                                             *)

KillerTakes ==
  /\ killer.at = "wait" /\ kill_task_queue_ # <<>>
  /\ killer' = [at |-> "kill", tasks |-> Head(kill_task_queue_)]
  /\ kill_task_queue_' = Tail(kill_task_queue_)
  /\ UNCHANGED <<callVars, task_manage_queue_, task_executor_map_,
                 finished_task_queue_, cleaner, released,
                 finished_task_status_, histVars>>

(* External, Poco::Process::kill: a process that has been waited for cannot *)
(* be found, and that is reported by an exception.                          *)
ProcessKillThrows(i) == process_handler_[i] = "gone"

(* Worker::kill_task: task_ptr->kill_task() stops a task of thread mode,    *)
(* Process::kill one of process mode if process_handler_ is set.  Nobody    *)
(* catches the exception: it ends the thread, which destroys what is left   *)
(* of the container on its way out.                                         *)
KillFront ==
  /\ killer.at = "kill"
  /\ LET i == Head(killer.tasks)
     IN  /\ killed' = IF executor[i] = "running" THEN killed \cup {i} ELSE killed
         /\ killer' = [killer EXCEPT !.at =
                         IF ProcessKillThrows(i) THEN "unwind" ELSE "join"]
  /\ UNCHANGED <<callVars, task_manage_queue_, task_executor_map_,
                 finished_task_queue_, cleaner, kill_task_queue_, released,
                 finished_task_status_, kill_requested, ops>>

(* task_queue.pop() destroys the worker's future.                           *)
KillerReleases ==
  /\ killer.at \in {"join", "unwind"} /\ killer.tasks # <<>>
  /\ executor[Head(killer.tasks)] = "exited"
  /\ released' = released \cup {Head(killer.tasks)}
  /\ killer' = [tasks |-> Tail(killer.tasks),
                at |-> IF killer.at = "unwind" THEN "unwind"
                       ELSE IF Len(killer.tasks) = 1 THEN "wait" ELSE "kill"]
  /\ UNCHANGED <<callVars, task_manage_queue_, task_executor_map_,
                 finished_task_queue_, cleaner, kill_task_queue_,
                 finished_task_status_, histVars>>

-----------------------------------------------------------------------------
Handling(i)  == ExecuteTask(i) \/ HandlerSaves(i) \/ HandlerFails(i)
Launching(i) == TaskReady(i) \/ LaunchFails(i)
Finishing(i) == ManualReturns(i) \/ CacheLastTaskStatus(i) \/ ExecutorExits(i)
Managing     == \/ ExecuteAddTaskOperation \/ ExecuteDelTaskOperation
                \/ ExecuteKillTaskOperation
Cleaning     == CleanerTakes \/ CleanerReleases
Killing      == KillerTakes \/ KillFront \/ KillerReleases

Next == \/ \E i \in Calls : \/ Handling(i) \/ Launching(i) \/ HandlerIsStored(i)
                             \/ TaskEnds(i) \/ Finishing(i)
        \/ \E id \in Ids : StopTask(id) \/ KillTask(id)
        \/ Managing \/ Cleaning \/ Killing \/ CleanTimeoutCachedTaskStatus

Spec == Init /\ [][Next]_vars

(* The node's own threads run whenever they can.  A task that was killed    *)
(* ends; nobody else's task has to, and nobody has to call the node.        *)
NodeFairness ==
  /\ \A i \in Calls : /\ WF_vars(HandlerSaves(i) \/ HandlerFails(i))
                      /\ WF_vars(Launching(i)) /\ WF_vars(HandlerIsStored(i))
                      /\ WF_vars(i \in killed /\ TaskEnds(i))
                      /\ WF_vars(Finishing(i))
  /\ WF_vars(Managing) /\ WF_vars(Cleaning) /\ WF_vars(Killing)

FairSpec == Spec /\ NodeFairness

(* The same when every task process comes to an end by itself.              *)
TasksEndSpec == FairSpec /\ \A i \in Calls : WF_vars(TaskEnds(i))

-----------------------------------------------------------------------------
Operations == [type : {"kAdd"}, worker : Calls] \cup [type : {"kDel", "kKill"}, id : Ids]

(* Type invariant.                                                          *)
TypeOK ==
  /\ filter \subseteq Tasks
  /\ handler \in [Calls -> {"idle", "waiting", "refused", "failed", "accepted"}]
  /\ executor \in [Calls -> {"none", "launching", "ready", "running", "ended",
                             "cached", "exited"}]
  /\ ready \in [Calls -> {"unset", "true", "false"}]
  /\ process_handler_ \in [Calls -> {"null", "live", "gone"}]
  /\ task_manage_queue_ \in Seq(Operations)
  /\ task_executor_map_ \in [Ids -> Seq(Calls)]
  /\ finished_task_queue_ \in Seq(Seq(Calls)) /\ kill_task_queue_ \in Seq(Seq(Calls))
  /\ cleaner \in Seq(Calls)
  /\ killer \in [at : {"wait", "kill", "join", "unwind"}, tasks : Seq(Calls)]
  /\ released \subseteq Calls /\ finished_task_status_ \subseteq Ids
  /\ kill_requested \subseteq Ids /\ killed \subseteq Calls
  /\ ops \in 0..MaxOps

(* Every place where worker i is held.                                      *)
At(i, s)      == {k \in DOMAIN s : s[k] = i}
Within(i, ss) == UNION {At(i, ss[k]) \X {k} : k \in DOMAIN ss}
Holders(i) ==
  ({"manage"} \X At(Add(i), task_manage_queue_))
  \cup ({"map"} \X Within(i, task_executor_map_))
  \cup ({"finished"} \X Within(i, finished_task_queue_))
  \cup ({"kill"} \X Within(i, kill_task_queue_))
  \cup ({"cleaner"} \X At(i, cleaner)) \cup ({"killer"} \X At(i, killer.tasks))
  \cup (IF i \in released THEN {<<"released", 0>>} ELSE {})

(* The workers of accepted calls are neither lost nor owned twice while     *)
(* handlers, manager, cleaner and killer pass them on: each is in exactly   *)
(* one place, and no other worker is anywhere.                              *)
WorkerAccounted ==
  \A i \in Calls : Cardinality(Holders(i)) = IF handler[i] = "accepted" THEN 1 ELSE 0

(* A worker is destroyed only when its executor thread, which uses it, has  *)
(* ended, whichever of the two threads destroys it and in whatever state it *)
(* was taken out of the map.                                                *)
ReleasedAfterExit == \A i \in released : executor[i] = "exited"

(* No task is killed by somebody else's kill: a process is stopped only     *)
(* when KillTask has asked for its request, although a worker may be        *)
(* deleted, killed and added again under the same id.                       *)
KilledOnRequest == \A i \in killed : idOf(i) \in kill_requested

(* The ExecuteTask handler answers once its task is known to be ready or    *)
(* not.                                                                     *)
HandlerAnswers ==
  \A i \in Calls : (handler[i] = "waiting" /\ ready[i] # "unset")
                      ~> handler[i] \in {"accepted", "failed"}

(* A worker taken out of the map for cleaning is destroyed in the end,      *)
(* even though it may queue up behind a worker whose task is still running. *)
CleanedIsReleased ==
  \A i \in Calls : Within(i, finished_task_queue_) # {} ~> i \in released

(* CleanFinishedTaskThread is there to "clean finished task": the worker of *)
(* a task that has finished is destroyed in the end.                        *)
FinishedTaskIsCleaned ==
  \A i \in Calls : (/\ TaskOf[i] \notin Manual
                    /\ handler[i] = "accepted" /\ executor[i] = "exited")
                      ~> i \in released
=============================================================================
