---------------------------- MODULE NodeShutdown ----------------------------
(***************************************************************************)
(* The end of a node: Serve() returns on SIGTERM, main returns, and        *)
(* ~VMNodeImpl stops the node's background threads and waits for each of   *)
(* them.  Four threads block in wait_and_pop of a ThreadSafeQueue and look *)
(* at stop_ when they come back; two sleep and look at it now and then.    *)
(***************************************************************************)
EXTENDS Naturals, Sequences

CONSTANT MaxItems    \* bound: items in a queue

VARIABLES dtor,      \* how far main and the destructor have come
          stop_,     \* VMNodeImpl::stop_
          shut,      \* queues whose shutdown() has been called
          items,     \* number of items in each queue
          thread     \* is each thread still in its loop?

vars == <<dtor, stop_, shut, items, thread>>

Queues == {"finished_task_queue_", "fininished_workers_",
           "fininished_scheduler_workers_", "task_manage_queue_", "kill_task_queue_"}

(* The queue each blocking thread waits for.                               *)
WaitsOn == [finished_worker_fut_           |-> "finished_task_queue_",
            finished_scheduler_worker_fut_ |-> "fininished_scheduler_workers_",
            manage_task_worker_fut_        |-> "task_manage_queue_",
            kill_task_queue_fut_           |-> "kill_task_queue_"]

Sleepers == {"clean_cached_task_status_fut_", "report_alive_info_fut_"}
Threads  == DOMAIN WaitsOn \cup Sleepers

(* The futures in the order in which the destructor waits for them; the    *)
(* last one is waited for when the member is destroyed.                    *)
Joins == <<"finished_worker_fut_", "clean_cached_task_status_fut_",
           "finished_scheduler_worker_fut_", "manage_task_worker_fut_",
           "report_alive_info_fut_", "kill_task_queue_fut_">>

Init == /\ dtor = "serving" /\ stop_ = FALSE /\ shut = {}
        /\ items = [q \in Queues |-> 0]
        /\ thread = [t \in Threads |-> "loop"]

(* A handler, a scheduler thread or an executor thread queues something;   *)
(* executor and scheduler threads may still do so after SIGTERM.           *)
Push(q) == /\ dtor # "exited" /\ items[q] < MaxItems
           /\ items' = [items EXCEPT ![q] = @ + 1]
           /\ UNCHANGED <<dtor, stop_, shut, thread>>

(* wait_and_pop returns: empty-handed from a queue that is shut down, else *)
(* with an item.  The thread leaves its loop if stop_ is set; otherwise    *)
(* the manager may pass the item on to the cleaning or the killing thread. *)
Wakes(t) ==
  LET q == WaitsOn[t]
      rest == IF q \in shut THEN items ELSE [items EXCEPT ![q] = @ - 1]
  IN  /\ thread[t] = "loop" /\ (q \in shut \/ items[q] > 0)
      /\ IF stop_
         THEN thread' = [thread EXCEPT ![t] = "ended"] /\ items' = rest
         ELSE /\ UNCHANGED thread
              /\ \/ items' = rest
                 \/ /\ t = "manage_task_worker_fut_"
                    /\ \E out \in {"finished_task_queue_", "kill_task_queue_"} :
                          /\ items[out] < MaxItems
                          /\ items' = [rest EXCEPT ![out] = @ + 1]
      /\ UNCHANGED <<dtor, stop_, shut>>

(* A sleeping thread finds stop_ set when it next looks.                   *)
Looks(t) == /\ thread[t] = "loop" /\ stop_
            /\ thread' = [thread EXCEPT ![t] = "ended"]
            /\ UNCHANGED <<dtor, stop_, shut, items>>

SigTerm == /\ dtor = "serving"
           /\ dtor' = "stopping" /\ stop_' = TRUE
           /\ UNCHANGED <<shut, items, thread>>

Shutdown == /\ dtor = "stopping"
            /\ dtor' = "joining"
            /\ shut' = {"fininished_workers_", "fininished_scheduler_workers_"}
            /\ UNCHANGED <<stop_, items, thread>>

(* All the get() calls: they are done when every thread has ended.         *)
Join == /\ dtor = "joining"
        /\ \A k \in DOMAIN Joins : thread[Joins[k]] = "ended"
        /\ dtor' = "exited"
        /\ UNCHANGED <<stop_, shut, items, thread>>

Next == \/ SigTerm \/ Shutdown \/ Join
        \/ \E q \in {"task_manage_queue_", "fininished_scheduler_workers_"} : Push(q)
        \/ \E t \in DOMAIN WaitsOn : Wakes(t)
        \/ \E t \in Sleepers : Looks(t)

(* Every thread runs when it can, however long it sleeps.                  *)
FairSpec == /\ Init /\ [][Next]_vars
            /\ WF_vars(Shutdown) /\ WF_vars(Join)
            /\ \A t \in DOMAIN WaitsOn : WF_vars(Wakes(t))
            /\ \A t \in Sleepers : WF_vars(Looks(t))

(* RunServer promises to "Exit with a clean error code (0) on SIGTERM".    *)
ExitsOnSigterm == dtor = "stopping" ~> dtor = "exited"
=============================================================================
