------------------------- MODULE NodeExecutorProofs -------------------------
(***************************************************************************)
(* Theorems about NodeExecutor for any set of calls, tasks and request ids *)
(* and any number of StopTask and KillTask calls: no worker is lost or     *)
(* owned twice, none is destroyed under its running thread, and nobody's   *)
(* process is killed unless its request was.                               *)
(***************************************************************************)
EXTENDS NodeExecutor, FiniteSetTheorems, FunctionTheorems, SequenceTheorems, TLAPS

(* The id of a call is one of the ids.                                     *)
LEMMA IdOfType == \A i \in Calls : TaskOf[i] \in Tasks /\ idOf(i) \in Ids
BY DEF Tasks, Ids, idOf

(* There are finitely many ids.                                            *)
LEMMA IdsFinite == IsFiniteSet(Ids)
<1> DEFINE f == [i \in Calls |-> idOf(i)]
<1>1. f \in [Calls -> Ids] /\ \A id \in Ids : \E i \in Calls : f[i] = id
  BY DEF Tasks, Ids, idOf
<1>2. f \in Surjection(Calls, Ids)
  BY <1>1, Fun_IsSurj
<1>3. QED BY <1>2, FS_Surjection, ExecutorAssumption

(* An entry of task_manage_queue_ carries a worker or an id, by its type.  *)
LEMMA OperationType ==
  /\ \A i \in Calls : Add(i) \in Operations
  /\ \A id \in Ids : Del(id) \in Operations /\ Kill(id) \in Operations
  /\ \A op \in Operations : /\ op.type = "kAdd" => op.worker \in Calls /\ op = Add(op.worker)
                            /\ op.type = "kDel" => op.id \in Ids /\ op = Del(op.id)
                            /\ op.type = "kKill" => op.id \in Ids /\ op = Kill(op.id)
BY DEF Operations, Add, Del, Kill

(* What a pop leaves.                                                      *)
LEMMA Popped ==
  ASSUME NEW S, NEW s \in Seq(S), s # <<>>
  PROVE  /\ Head(s) \in S /\ Head(s) = s[1] /\ Tail(s) \in Seq(S)
         /\ DOMAIN s = 1..Len(s) /\ Len(s) \in Nat \ {0}
         /\ DOMAIN Tail(s) = 1..(Len(s) - 1)
         /\ \A k \in DOMAIN Tail(s) : k + 1 \in DOMAIN s /\ Tail(s)[k] = s[k + 1]
<1>1. Len(s) \in Nat \ {0} /\ DOMAIN s = 1..Len(s)
  BY EmptySeq, LenProperties
<1>2. /\ Head(s) \in S /\ Tail(s) \in Seq(S) /\ Len(Tail(s)) = Len(s) - 1
      /\ \A k \in 1..Len(Tail(s)) : Tail(s)[k] = s[k + 1]
  BY HeadTailProperties
<1>3. Head(s) = s[1]
  OBVIOUS
<1>4. DOMAIN Tail(s) = 1..(Len(s) - 1)
  BY <1>2, LenProperties
<1>5. QED BY <1>1, <1>2, <1>3, <1>4

(* What a push adds.                                                       *)
LEMMA Pushed ==
  ASSUME NEW S, NEW s \in Seq(S), NEW x \in S
  PROVE  /\ Append(s, x) \in Seq(S) /\ Len(s) \in Nat
         /\ DOMAIN s = 1..Len(s) /\ DOMAIN Append(s, x) = 1..(Len(s) + 1)
         /\ \A k \in DOMAIN s : Append(s, x)[k] = s[k]
         /\ Append(s, x)[Len(s) + 1] = x
         /\ \A k \in DOMAIN Append(s, x) : k \in DOMAIN s \/ k = Len(s) + 1
<1>1. Append(s, x) \in Seq(S) /\ Len(s) \in Nat /\ Len(Append(s, x)) = Len(s) + 1
  BY LenProperties
<1>2. DOMAIN s = 1..Len(s) /\ DOMAIN Append(s, x) = 1..(Len(s) + 1)
  BY <1>1, LenProperties
<1>3. QED BY <1>1, <1>2

-----------------------------------------------------------------------------
(* Containers are queued with workers in them, and the killing thread has  *)
(* one at hand when it is about to kill or to release, and none when it    *)
(* waits for the next container.                                           *)
KillerHasWorker ==
  /\ \A k \in DOMAIN kill_task_queue_ : kill_task_queue_[k] # <<>>
  /\ killer.at \in {"kill", "join"} => killer.tasks # <<>>
  /\ killer.at = "wait" => killer.tasks = <<>>

TypeInv == TypeOK /\ KillerHasWorker

(* What the handlers and the executor threads leave alone.                 *)
LEMMA CallFrame ==
  ASSUME NEW i \in Calls, Handling(i) \/ Launching(i) \/ HandlerIsStored(i)
                          \/ TaskEnds(i) \/ Finishing(i)
  PROVE  UNCHANGED <<task_executor_map_, finished_task_queue_, cleaner, kill_task_queue_,
                     killer, released, histVars>>
BY DEF Handling, ExecuteTask, HandlerSaves, HandlerFails, Launching, TaskReady, LaunchFails,
       HandlerIsStored, TaskEnds, Finishing, ManualReturns, CacheLastTaskStatus, ExecutorExits,
       poolVars

(* TypeInv is inductive.                                                   *)
LEMMA TypeInvHolds == Spec => []TypeInv
<1>1. Init => TypeInv
  BY ExecutorAssumption DEF Init, TypeInv, TypeOK, KillerHasWorker, Tasks
<1>2. TypeInv /\ [Next]_vars => TypeInv'
  <2> SUFFICES ASSUME TypeInv, [Next]_vars PROVE TypeInv'
    OBVIOUS
  <2> USE ExecutorAssumption DEF TypeInv, TypeOK
  <2>1. ASSUME NEW i \in Calls, ExecuteTask(i) PROVE TypeInv'
    <3>1. PICK old \in SUBSET filter :
             \/ /\ handler' = [handler EXCEPT ![i] = "refused"]
                /\ filter' = filter \ old /\ UNCHANGED executor
             \/ /\ handler' = [handler EXCEPT ![i] = "waiting"]
                /\ filter' = (filter \ old) \cup {TaskOf[i]}
                /\ executor' = [executor EXCEPT ![i] = "launching"]
      BY <2>1 DEF ExecuteTask
    <3>2. filter' \subseteq Tasks
      <4>1. filter \subseteq Tasks /\ TaskOf[i] \in Tasks
        BY IdOfType
      <4>2. filter' \subseteq filter \cup {TaskOf[i]}
        BY <3>1, Zenon
      <4>3. QED BY <4>1, <4>2
    <3>3. QED BY <2>1, <3>1, <3>2 DEF ExecuteTask, poolVars, histVars, KillerHasWorker
  <2>2. ASSUME NEW i \in Calls, HandlerSaves(i) PROVE TypeInv'
    <3>1. task_manage_queue_' \in Seq(Operations)
      BY <2>2, OperationType, Pushed DEF HandlerSaves
    <3>2. QED BY <2>2, <3>1 DEF HandlerSaves, histVars, KillerHasWorker
  <2>3. ASSUME NEW i \in Calls, HandlerFails(i) \/ TaskReady(i) \/ LaunchFails(i) PROVE TypeInv'
    BY <2>3 DEF HandlerFails, TaskReady, LaunchFails, poolVars, histVars, KillerHasWorker
  <2>4. ASSUME NEW i \in Calls, HandlerIsStored(i) \/ TaskEnds(i) \/ ManualReturns(i) PROVE TypeInv'
    <3>1. process_handler_' \in [Calls -> {"null", "live", "gone"}]
      BY <2>4 DEF HandlerIsStored, TaskEnds, ManualReturns
    <3>2. QED BY <2>4, <3>1 DEF HandlerIsStored, TaskEnds, ManualReturns, poolVars, histVars, KillerHasWorker
  <2>5. ASSUME NEW i \in Calls, CacheLastTaskStatus(i) PROVE TypeInv'
    BY <2>5, IdOfType DEF CacheLastTaskStatus, poolVars, histVars, KillerHasWorker
  <2>6. ASSUME NEW i \in Calls, ExecutorExits(i) PROVE TypeInv'
    <3>1. task_manage_queue_' \in Seq(Operations)
      BY <2>6, OperationType, IdOfType, Pushed DEF ExecutorExits
    <3>2. QED BY <2>6, <3>1 DEF ExecutorExits, histVars, KillerHasWorker
  <2>7. ASSUME NEW id \in Ids, StopTask(id) PROVE TypeInv'
    <3>1. task_manage_queue_' \in Seq(Operations)
      BY <2>7, OperationType, Pushed DEF StopTask
    <3>2. QED BY <2>7, <3>1 DEF StopTask, callVars, KillerHasWorker
  <2>8. ASSUME NEW id \in Ids, KillTask(id) PROVE TypeInv'
    <3>1. task_manage_queue_' \in Seq(Operations)
      BY <2>8, OperationType, Pushed DEF KillTask
    <3>2. QED BY <2>8, <3>1 DEF KillTask, callVars, KillerHasWorker
  <2>9. CASE ExecuteAddTaskOperation
    <3> DEFINE i == Head(task_manage_queue_).worker
    <3>1. i \in Calls /\ task_manage_queue_' \in Seq(Operations)
      BY <2>9, Popped, OperationType DEF ExecuteAddTaskOperation, PopOperation
    <3>2. Append(task_executor_map_[idOf(i)], i) \in Seq(Calls)
      BY <3>1, IdOfType, Pushed
    <3>3. task_executor_map_' \in [Ids -> Seq(Calls)]
      BY <2>9, <3>2 DEF ExecuteAddTaskOperation
    <3>4. QED BY <2>9, <3>1, <3>3 DEF ExecuteAddTaskOperation, callVars, histVars, KillerHasWorker
  <2>10. CASE ExecuteDelTaskOperation
    <3> DEFINE id == Head(task_manage_queue_).id
    <3>1. id \in Ids /\ task_manage_queue_' \in Seq(Operations)
      BY <2>10, Popped, OperationType DEF ExecuteDelTaskOperation, PopOperation
    <3>2. task_executor_map_' \in [Ids -> Seq(Calls)]
      BY <2>10, EmptySeq DEF ExecuteDelTaskOperation
    <3>3. finished_task_queue_' \in Seq(Seq(Calls))
      <4>1. Append(finished_task_queue_, task_executor_map_[id]) \in Seq(Seq(Calls))
        BY <3>1, Pushed
      <4>2. QED BY <2>10, <4>1 DEF ExecuteDelTaskOperation
    <3>4. QED BY <2>10, <3>1, <3>2, <3>3 DEF ExecuteDelTaskOperation, callVars, histVars, KillerHasWorker
  <2>11. CASE ExecuteKillTaskOperation
    <3> DEFINE id == Head(task_manage_queue_).id
    <3>1. id \in Ids /\ task_manage_queue_' \in Seq(Operations)
      BY <2>11, Popped, OperationType DEF ExecuteKillTaskOperation, PopOperation
    <3>2. task_executor_map_' \in [Ids -> Seq(Calls)]
      BY <2>11, EmptySeq DEF ExecuteKillTaskOperation
    <3>3. /\ kill_task_queue_' \in Seq(Seq(Calls))
          /\ \A k \in DOMAIN kill_task_queue_' : kill_task_queue_'[k] # <<>>
      <4> DEFINE q == Append(kill_task_queue_, task_executor_map_[id])
      <4>1. /\ q \in Seq(Seq(Calls)) /\ Len(kill_task_queue_) \in Nat
            /\ DOMAIN kill_task_queue_ = 1..Len(kill_task_queue_)
            /\ DOMAIN q = 1..(Len(kill_task_queue_) + 1)
            /\ \A k \in DOMAIN kill_task_queue_ : q[k] = kill_task_queue_[k]
            /\ q[Len(kill_task_queue_) + 1] = task_executor_map_[id]
        BY <3>1, Pushed
      <4>2. CASE task_executor_map_[id] = <<>>
        BY <2>11, <4>2 DEF ExecuteKillTaskOperation, KillerHasWorker
      <4>3. CASE task_executor_map_[id] # <<>>
        <5>1. kill_task_queue_' = q
          BY <2>11, <4>3 DEF ExecuteKillTaskOperation
        <5> HIDE DEF q
        <5>2. \A k \in DOMAIN q : k \in DOMAIN kill_task_queue_ \/ k = Len(kill_task_queue_) + 1
          BY <4>1
        <5>3. QED BY <4>1, <4>3, <5>1, <5>2 DEF KillerHasWorker
      <4>4. QED BY <4>2, <4>3
    <3>4. QED BY <2>11, <3>1, <3>2, <3>3 DEF ExecuteKillTaskOperation, callVars, histVars, KillerHasWorker
  <2>12. CASE CleanerTakes
    BY <2>12, Popped DEF CleanerTakes, callVars, histVars, KillerHasWorker
  <2>13. CASE CleanerReleases
    BY <2>13, Popped DEF CleanerReleases, callVars, histVars, KillerHasWorker
  <2>14. CASE KillerTakes
    <3>1. /\ kill_task_queue_ \in Seq(Seq(Calls)) /\ kill_task_queue_ # <<>>
          /\ \A k \in DOMAIN kill_task_queue_ : kill_task_queue_[k] # <<>>
          /\ kill_task_queue_' = Tail(kill_task_queue_)
          /\ killer' = [at |-> "kill", tasks |-> Head(kill_task_queue_)]
      BY <2>14 DEF KillerTakes, KillerHasWorker
    <3>2. /\ Head(kill_task_queue_) \in Seq(Calls) /\ Head(kill_task_queue_) # <<>>
          /\ kill_task_queue_' \in Seq(Seq(Calls))
          /\ \A k \in DOMAIN kill_task_queue_' : kill_task_queue_'[k] # <<>>
      <4> HIDE DEF TypeInv, TypeOK
      <4>1. QED BY <3>1, Popped
    <3>3. TypeOK'
      BY <2>14, <3>1, <3>2 DEF KillerTakes, callVars, histVars
    <3>4. KillerHasWorker'
      BY <3>1, <3>2 DEF KillerHasWorker
    <3>5. QED BY <3>3, <3>4
  <2>15. CASE KillFront
    <3>1. Head(killer.tasks) \in Calls
      BY <2>15, Popped DEF KillFront, KillerHasWorker
    <3>2. killed' \subseteq Calls
      BY <2>15, <3>1 DEF KillFront
    <3>3. QED BY <2>15, <3>2 DEF KillFront, callVars, KillerHasWorker
  <2>16. CASE KillerReleases
    <3>1. Head(killer.tasks) \in Calls /\ Tail(killer.tasks) \in Seq(Calls)
      BY <2>16, Popped DEF KillerReleases
    <3>2. Len(killer.tasks) = 1 <=> Tail(killer.tasks) = <<>>
      <4>1. killer.tasks \in Seq(Calls) /\ killer.tasks # <<>>
        BY <2>16 DEF KillerReleases
      <4>2. Len(Tail(killer.tasks)) = Len(killer.tasks) - 1 /\ Len(killer.tasks) \in Nat
        BY <4>1, HeadTailProperties, LenProperties
      <4>3. Tail(killer.tasks) = <<>> <=> Len(Tail(killer.tasks)) = 0
        <5>1. Tail(killer.tasks) = <<>> => Len(Tail(killer.tasks)) = 0
          BY Zenon, EmptySeq
        <5>2. Tail(killer.tasks) # <<>> => Len(Tail(killer.tasks)) \in Nat \ {0}
          BY <3>1, EmptySeq
        <5>3. QED BY <5>1, <5>2
      <4>4. QED BY <4>2, <4>3
    <3>3. released' \subseteq Calls /\ killer' \in [at : {"wait", "kill", "join", "unwind"}, tasks : Seq(Calls)]
      BY <2>16, <3>1 DEF KillerReleases
    <3>4. TypeOK'
      BY <2>16, <3>3 DEF KillerReleases, callVars, histVars
    <3>5. KillerHasWorker'
      BY <2>16, <3>2 DEF KillerReleases, KillerHasWorker
    <3>6. QED BY <3>4, <3>5
  <2>17. CASE CleanTimeoutCachedTaskStatus
    BY <2>17 DEF CleanTimeoutCachedTaskStatus, callVars, poolVars, histVars, KillerHasWorker
  <2>18. CASE UNCHANGED vars
    BY <2>18 DEF vars, callVars, poolVars, histVars, KillerHasWorker
  <2>19. QED
    BY <2>1, <2>2, <2>3, <2>4, <2>5, <2>6, <2>7, <2>8, <2>9, <2>10, <2>11, <2>12, <2>13, <2>14,
       <2>15, <2>16, <2>17, <2>18
       DEF Next, Handling, Launching, Finishing, Managing, Cleaning, Killing
<1>3. QED BY <1>1, <1>2, PTL DEF Spec

(* Type correctness.                                                       *)
THEOREM TypeCorrect == Spec => []TypeOK
BY TypeInvHolds, PTL DEF TypeInv

-----------------------------------------------------------------------------
(* An executor thread starts with its handler's call and never again.      *)
ExitInv ==
  /\ \A i \in Calls : handler[i] = "idle" => executor[i] = "none"
  /\ ReleasedAfterExit

(* The executor thread that has exited stays exited, and only a thread     *)
(* that has exited is joined.                                              *)
LEMMA ExitInvHolds == Spec => []ExitInv
<1>1. Init => ExitInv
  BY DEF Init, ExitInv, ReleasedAfterExit
<1>2. TypeInv /\ ExitInv /\ [Next]_vars => ExitInv'
  <2> SUFFICES ASSUME TypeInv, ExitInv, [Next]_vars PROVE ExitInv'
    OBVIOUS
  <2> USE DEF TypeInv, TypeOK, ExitInv, ReleasedAfterExit
  <2>1. ASSUME NEW i \in Calls, ExecuteTask(i) PROVE ExitInv'
    <3>1. i \notin released
      BY <2>1 DEF ExecuteTask
    <3>2. \/ handler' = [handler EXCEPT ![i] = "refused"] /\ executor' = executor
          \/ /\ handler' = [handler EXCEPT ![i] = "waiting"]
             /\ executor' = [executor EXCEPT ![i] = "launching"]
      BY <2>1 DEF ExecuteTask
    <3>3. released' = released
      BY <2>1, CallFrame DEF Handling
    <3>4. QED BY <3>1, <3>2, <3>3
  <2>2. ASSUME NEW i \in Calls, HandlerSaves(i) \/ HandlerFails(i) PROVE ExitInv'
    BY <2>2, CallFrame DEF Handling, HandlerSaves, HandlerFails
  <2>3. ASSUME NEW i \in Calls, TaskReady(i) \/ LaunchFails(i) PROVE ExitInv'
    BY <2>3, CallFrame DEF Launching, TaskReady, LaunchFails
  <2>4. ASSUME NEW i \in Calls, HandlerIsStored(i) \/ TaskEnds(i) PROVE ExitInv'
    BY <2>4, CallFrame DEF HandlerIsStored, TaskEnds
  <2>5. ASSUME NEW i \in Calls, Finishing(i) PROVE ExitInv'
    BY <2>5, CallFrame DEF Finishing, ManualReturns, CacheLastTaskStatus, ExecutorExits
  <2>6. ASSUME NEW id \in Ids, StopTask(id) \/ KillTask(id) PROVE ExitInv'
    BY <2>6 DEF StopTask, KillTask, callVars
  <2>7. CASE Managing
    BY <2>7 DEF Managing, ExecuteAddTaskOperation, ExecuteDelTaskOperation,
            ExecuteKillTaskOperation, callVars
  <2>8. CASE Cleaning
    BY <2>8 DEF Cleaning, CleanerTakes, CleanerReleases, callVars
  <2>9. CASE Killing
    BY <2>9 DEF Killing, KillerTakes, KillFront, KillerReleases, callVars
  <2>10. CASE CleanTimeoutCachedTaskStatus \/ UNCHANGED vars
    BY <2>10 DEF CleanTimeoutCachedTaskStatus, vars, callVars, poolVars
  <2>11. QED BY <2>1, <2>2, <2>3, <2>4, <2>5, <2>6, <2>7, <2>8, <2>9, <2>10 DEF Next, Handling, Launching
<1>3. QED BY <1>1, <1>2, TypeInvHolds, PTL DEF Spec

(* Whichever thread destroys a worker, the executor thread that uses it    *)
(* has ended.                                                              *)
THEOREM DestroyedAfterItsThread == Spec => []ReleasedAfterExit
BY ExitInvHolds, PTL DEF ExitInv

-----------------------------------------------------------------------------
(* Everything on the way to the killing thread is there on request: the    *)
(* operations, and, because the map keeps every worker under its own id,   *)
(* the containers.                                                         *)
RequestInv ==
  /\ \A k \in DOMAIN task_manage_queue_ :
        task_manage_queue_[k].type = "kKill" => task_manage_queue_[k].id \in kill_requested
  /\ \A id \in Ids : \A k \in DOMAIN task_executor_map_[id] : idOf(task_executor_map_[id][k]) = id
  /\ \A n \in DOMAIN kill_task_queue_ : \A k \in DOMAIN kill_task_queue_[n] :
        idOf(kill_task_queue_[n][k]) \in kill_requested
  /\ \A k \in DOMAIN killer.tasks : idOf(killer.tasks[k]) \in kill_requested
  /\ KilledOnRequest

(* An operation that does not kill joins the queue.                        *)
LEMMA RequestPush ==
  ASSUME TypeInv, RequestInv, NEW op \in Operations, op.type # "kKill",
         task_manage_queue_' = Append(task_manage_queue_, op),
         UNCHANGED <<task_executor_map_, kill_task_queue_, killer, kill_requested, killed>>
  PROVE  RequestInv'
<1>1. task_manage_queue_ \in Seq(Operations)
  BY DEF TypeInv, TypeOK
<1>2. \A k \in DOMAIN task_manage_queue_' :
         task_manage_queue_'[k].type = "kKill" => task_manage_queue_'[k].id \in kill_requested
  BY <1>1, Pushed DEF RequestInv
<1>3. QED BY <1>2 DEF RequestInv, KilledOnRequest

(* Popping an operation leaves the others requested.                       *)
LEMMA RequestPop ==
  ASSUME TypeInv, RequestInv, NEW type, PopOperation(type), kill_requested' = kill_requested
  PROVE  /\ \A k \in DOMAIN task_manage_queue_' :
                task_manage_queue_'[k].type = "kKill" => task_manage_queue_'[k].id \in kill_requested'
         /\ Head(task_manage_queue_) \in Operations /\ Head(task_manage_queue_).type = type
         /\ type = "kKill" => Head(task_manage_queue_).id \in kill_requested
<1>1. task_manage_queue_ \in Seq(Operations) /\ task_manage_queue_ # <<>>
  BY DEF TypeInv, TypeOK, PopOperation
<1>2. QED BY <1>1, Popped DEF RequestInv, PopOperation

(* RequestInv is inductive.                                                *)
LEMMA RequestInvHolds == Spec => []RequestInv
<1>1. Init => RequestInv
  BY DEF Init, RequestInv, KilledOnRequest
<1>2. TypeInv /\ RequestInv /\ [Next]_vars => RequestInv'
  <2> SUFFICES ASSUME TypeInv, RequestInv, [Next]_vars PROVE RequestInv'
    OBVIOUS
  <2>1. ASSUME NEW i \in Calls, HandlerSaves(i) PROVE RequestInv'
    BY <2>1, RequestPush, OperationType DEF HandlerSaves, Add, histVars
  <2>2. ASSUME NEW i \in Calls, ExecutorExits(i) PROVE RequestInv'
    BY <2>2, RequestPush, OperationType, IdOfType DEF ExecutorExits, Del, histVars
  <2>3. ASSUME NEW i \in Calls, \/ ExecuteTask(i) \/ HandlerFails(i) \/ Launching(i)
                               \/ HandlerIsStored(i) \/ TaskEnds(i) \/ ManualReturns(i)
                               \/ CacheLastTaskStatus(i)
        PROVE  RequestInv'
    BY <2>3 DEF RequestInv, KilledOnRequest, ExecuteTask, HandlerFails, Launching, TaskReady,
            LaunchFails, HandlerIsStored, TaskEnds, ManualReturns, CacheLastTaskStatus,
            poolVars, histVars
  <2>4. ASSUME NEW id \in Ids, StopTask(id) PROVE RequestInv'
    BY <2>4, RequestPush, OperationType DEF StopTask, Del
  <2>5. ASSUME NEW id \in Ids, KillTask(id) PROVE RequestInv'
    <3>1. task_manage_queue_ \in Seq(Operations) /\ Kill(id) \in Operations
      BY OperationType DEF TypeInv, TypeOK
    <3>2. \A k \in DOMAIN task_manage_queue_' :
             task_manage_queue_'[k].type = "kKill" => task_manage_queue_'[k].id \in kill_requested'
      BY <2>5, <3>1, Pushed DEF RequestInv, KillTask, Kill
    <3>3. QED BY <2>5, <3>2 DEF RequestInv, KilledOnRequest, KillTask
  <2>6. CASE ExecuteAddTaskOperation
    <3> DEFINE i == Head(task_manage_queue_).worker
               s == task_executor_map_[idOf(i)]
    <3>1. /\ \A k \in DOMAIN task_manage_queue_' :
                task_manage_queue_'[k].type = "kKill" => task_manage_queue_'[k].id \in kill_requested'
          /\ i \in Calls
      BY <2>6, RequestPop, OperationType DEF ExecuteAddTaskOperation, histVars
    <3>2. idOf(i) \in Ids /\ s \in Seq(Calls)
      BY <3>1, IdOfType DEF TypeInv, TypeOK
    <3>3. \A k \in DOMAIN Append(s, i) : idOf(Append(s, i)[k]) = idOf(i)
      BY <3>1, <3>2, Pushed DEF RequestInv
    <3>4. task_executor_map_' = [task_executor_map_ EXCEPT ![idOf(i)] = Append(s, i)]
      BY <2>6 DEF ExecuteAddTaskOperation
    <3>5. DOMAIN task_executor_map_ = Ids
      BY DEF TypeInv, TypeOK
    <3> HIDE DEF i, s
    <3>6. \A id \in Ids : \A k \in DOMAIN task_executor_map_'[id] : idOf(task_executor_map_'[id][k]) = id
      BY <3>2, <3>3, <3>4, <3>5 DEF RequestInv
    <3>7. QED BY <2>6, <3>1, <3>6 DEF RequestInv, KilledOnRequest, ExecuteAddTaskOperation, histVars
  <2>7. CASE ExecuteDelTaskOperation
    <3> DEFINE d == Head(task_manage_queue_).id
    <3>1. /\ \A k \in DOMAIN task_manage_queue_' :
                task_manage_queue_'[k].type = "kKill" => task_manage_queue_'[k].id \in kill_requested'
          /\ d \in Ids
      BY <2>7, RequestPop, OperationType DEF ExecuteDelTaskOperation, histVars
    <3>2. /\ task_executor_map_' = [task_executor_map_ EXCEPT ![d] = <<>>]
          /\ DOMAIN task_executor_map_ = Ids
      BY <2>7 DEF ExecuteDelTaskOperation, TypeInv, TypeOK
    <3> HIDE DEF d
    <3>3. \A id \in Ids : \A k \in DOMAIN task_executor_map_'[id] : idOf(task_executor_map_'[id][k]) = id
      BY <3>1, <3>2 DEF RequestInv
    <3>4. QED BY <2>7, <3>1, <3>3 DEF RequestInv, KilledOnRequest, ExecuteDelTaskOperation, histVars
  <2>8. CASE ExecuteKillTaskOperation
    <3> DEFINE d == Head(task_manage_queue_).id
               s == task_executor_map_[d]
    <3>1. /\ \A k \in DOMAIN task_manage_queue_' :
                task_manage_queue_'[k].type = "kKill" => task_manage_queue_'[k].id \in kill_requested'
          /\ d \in Ids /\ d \in kill_requested
      BY <2>8, RequestPop, OperationType DEF ExecuteKillTaskOperation, histVars
    <3>2. /\ task_executor_map_' = [task_executor_map_ EXCEPT ![d] = <<>>]
          /\ DOMAIN task_executor_map_ = Ids
      BY <2>8 DEF ExecuteKillTaskOperation, TypeInv, TypeOK
    <3>3. \A k \in DOMAIN s : idOf(s[k]) \in kill_requested
      BY <3>1 DEF RequestInv
    <3>4. s \in Seq(Calls) /\ kill_task_queue_ \in Seq(Seq(Calls))
      BY <3>1 DEF TypeInv, TypeOK
    <3>5. kill_task_queue_' \in {kill_task_queue_, Append(kill_task_queue_, s)}
      BY <2>8 DEF ExecuteKillTaskOperation
    <3> HIDE DEF d, s
    <3>6. \A id \in Ids : \A k \in DOMAIN task_executor_map_'[id] : idOf(task_executor_map_'[id][k]) = id
      BY <3>1, <3>2 DEF RequestInv
    <3>7. \A n \in DOMAIN kill_task_queue_' : \A k \in DOMAIN kill_task_queue_'[n] :
             idOf(kill_task_queue_'[n][k]) \in kill_requested
      <4>1. CASE kill_task_queue_' = kill_task_queue_
        BY <4>1 DEF RequestInv
      <4>2. CASE kill_task_queue_' = Append(kill_task_queue_, s)
        <5>1. /\ \A n \in DOMAIN kill_task_queue_' :
                    n \in DOMAIN kill_task_queue_ \/ n = Len(kill_task_queue_) + 1
              /\ \A n \in DOMAIN kill_task_queue_ : kill_task_queue_'[n] = kill_task_queue_[n]
              /\ kill_task_queue_'[Len(kill_task_queue_) + 1] = s
          BY <3>4, <4>2, Pushed
        <5>2. QED BY <3>3, <5>1 DEF RequestInv
      <4>3. QED BY <3>5, <4>1, <4>2
    <3>8. QED BY <2>8, <3>1, <3>6, <3>7 DEF RequestInv, KilledOnRequest, ExecuteKillTaskOperation, histVars
  <2>9. CASE Cleaning
    BY <2>9 DEF Cleaning, CleanerTakes, CleanerReleases, histVars, RequestInv, KilledOnRequest
  <2>10. CASE KillerTakes
    <3>1. kill_task_queue_ \in Seq(Seq(Calls)) /\ kill_task_queue_ # <<>>
      BY <2>10 DEF KillerTakes, TypeInv, TypeOK
    <3>2. /\ \A n \in DOMAIN kill_task_queue_' : \A k \in DOMAIN kill_task_queue_'[n] :
               idOf(kill_task_queue_'[n][k]) \in kill_requested
          /\ \A k \in DOMAIN Head(kill_task_queue_) : idOf(Head(kill_task_queue_)[k]) \in kill_requested
      BY <2>10, <3>1, Popped DEF RequestInv, KillerTakes
    <3>3. killer'.tasks = Head(kill_task_queue_)
      BY <2>10 DEF KillerTakes
    <3>4. QED BY <2>10, <3>2, <3>3 DEF KillerTakes, RequestInv, KilledOnRequest, histVars
  <2>11. CASE KillFront
    <3>1. killer.tasks \in Seq(Calls) /\ killer.tasks # <<>>
      BY <2>11 DEF KillFront, TypeInv, TypeOK, KillerHasWorker
    <3>2. idOf(Head(killer.tasks)) \in kill_requested
      BY <3>1, Popped DEF RequestInv
    <3>3. killed' \subseteq killed \cup {Head(killer.tasks)} /\ killer'.tasks = killer.tasks
      BY <2>11 DEF KillFront, TypeInv, TypeOK
    <3>4. QED BY <2>11, <3>2, <3>3 DEF KillFront, RequestInv, KilledOnRequest
  <2>12. CASE KillerReleases
    <3>1. killer.tasks \in Seq(Calls) /\ killer.tasks # <<>> /\ killer'.tasks = Tail(killer.tasks)
      BY <2>12 DEF KillerReleases, TypeInv, TypeOK
    <3>2. \A k \in DOMAIN killer'.tasks : idOf(killer'.tasks[k]) \in kill_requested
      BY <3>1, Popped DEF RequestInv
    <3>3. QED BY <2>12, <3>2 DEF KillerReleases, RequestInv, KilledOnRequest, histVars
  <2>13. CASE CleanTimeoutCachedTaskStatus \/ UNCHANGED vars
    BY <2>13 DEF CleanTimeoutCachedTaskStatus, vars, poolVars, histVars, RequestInv, KilledOnRequest
  <2>14. QED
    BY <2>1, <2>2, <2>3, <2>4, <2>5, <2>6, <2>7, <2>8, <2>9, <2>10, <2>11, <2>12, <2>13
       DEF Next, Handling, Finishing, Managing, Killing
<1>3. QED BY <1>1, <1>2, TypeInvHolds, PTL DEF Spec

(* No task is killed by somebody else's kill.                              *)
THEOREM NoForeignKill == Spec => []KilledOnRequest
BY RequestInvHolds, PTL DEF RequestInv

-----------------------------------------------------------------------------
(* Counting the places of a worker.                                        *)

(* Sets that correspond one to one have the same size.                     *)
LEMMA SameSize ==
  ASSUME NEW S, NEW T, NEW f \in [S -> T], IsFiniteSet(S),
         \A a, b \in S : f[a] = f[b] => a = b, \A t \in T : \E a \in S : f[a] = t
  PROVE  IsFiniteSet(T) /\ Cardinality(T) = Cardinality(S)
<1>1. f \in Bijection(S, T)
  BY Fun_IsBij
<1>2. QED BY <1>1, FS_Bijection DEF ExistsBijection

(* The size of a disjoint union is the sum of the sizes.                   *)
LEMMA SizeOfUnion ==
  ASSUME NEW S, NEW T, IsFiniteSet(S), IsFiniteSet(T), S \cap T = {}
  PROVE  IsFiniteSet(S \cup T) /\ Cardinality(S \cup T) = Cardinality(S) + Cardinality(T)
<1>1. Cardinality(S \cap T) = 0
  BY FS_EmptySet
<1>2. QED BY <1>1, FS_Union, FS_CardinalityType

(* Tagging the elements of a set keeps its size.                           *)
LEMMA SizeOfTagged ==
  ASSUME NEW tag, NEW S, IsFiniteSet(S)
  PROVE  /\ IsFiniteSet({tag} \X S) /\ Cardinality({tag} \X S) = Cardinality(S)
         /\ IsFiniteSet(S \X {tag}) /\ Cardinality(S \X {tag}) = Cardinality(S)
<1>1. IsFiniteSet({tag}) /\ Cardinality({tag}) = 1
  BY FS_Singleton
<1>2. Cardinality(S) \in Nat
  BY FS_CardinalityType
<1>3. IsFiniteSet({tag} \X S) /\ Cardinality({tag} \X S) = Cardinality({tag}) * Cardinality(S)
  BY <1>1, FS_Product
<1>4. IsFiniteSet(S \X {tag}) /\ Cardinality(S \X {tag}) = Cardinality(S) * Cardinality({tag})
  BY <1>1, FS_Product
<1>5. QED BY <1>1, <1>2, <1>3, <1>4

(* A queue holds finitely many copies of anything.                         *)
LEMMA AtType ==
  ASSUME NEW X, NEW s \in Seq(X), NEW x
  PROVE  /\ IsFiniteSet(At(x, s)) /\ Cardinality(At(x, s)) \in Nat
         /\ At(x, s) \subseteq 1..Len(s)
<1>1. At(x, s) \subseteq 1..Len(s) /\ Len(s) \in Nat
  BY LenProperties DEF At
<1>2. IsFiniteSet(1..Len(s))
  BY <1>1, FS_Interval
<1>3. QED BY <1>1, <1>2, FS_Subset, FS_CardinalityType

(* An empty queue holds nothing.                                           *)
LEMMA AtEmpty == \A x : At(x, <<>>) = {} /\ Cardinality(At(x, <<>>)) = 0
<1>1. \A x : At(x, <<>>) = {}
  BY DEF At
<1>2. QED BY <1>1, FS_EmptySet

(* A push adds one place for what is pushed.                               *)
LEMMA AtPush ==
  ASSUME NEW X, NEW s \in Seq(X), NEW y \in X, NEW x
  PROVE  Cardinality(At(x, Append(s, y))) = Cardinality(At(x, s)) + (IF x = y THEN 1 ELSE 0)
<1>1. /\ DOMAIN s = 1..Len(s) /\ DOMAIN Append(s, y) = 1..(Len(s) + 1) /\ Len(s) \in Nat
      /\ \A k \in DOMAIN s : Append(s, y)[k] = s[k]
      /\ Append(s, y)[Len(s) + 1] = y
  BY Pushed
<1>2. IsFiniteSet(At(x, s)) /\ Cardinality(At(x, s)) \in Nat /\ At(x, s) \subseteq 1..Len(s)
  BY AtType
<1>3. CASE x = y
  <2>1. At(x, Append(s, y)) = At(x, s) \cup {Len(s) + 1}
    BY <1>1, <1>3 DEF At
  <2>2. Len(s) + 1 \notin At(x, s)
    BY <1>1, <1>2
  <2>3. QED BY <1>2, <1>3, <2>1, <2>2, FS_AddElement
<1>4. CASE x # y
  <2>1. At(x, Append(s, y)) = At(x, s)
    BY <1>1, <1>4 DEF At
  <2>2. QED BY <1>2, <1>4, <2>1
<1>5. QED BY <1>3, <1>4

(* A pop takes one place away from what is popped.                         *)
LEMMA AtPop ==
  ASSUME NEW X, NEW s \in Seq(X), s # <<>>, NEW x
  PROVE  /\ Cardinality(At(x, s)) = Cardinality(At(x, Tail(s))) + (IF x = Head(s) THEN 1 ELSE 0)
         /\ Cardinality(At(x, Tail(s))) \in Nat
<1> DEFINE rest == {k \in At(x, s) : k # 1}
           f == [k \in At(x, Tail(s)) |-> k + 1]
<1>1. /\ Head(s) = s[1] /\ Tail(s) \in Seq(X) /\ DOMAIN s = 1..Len(s) /\ Len(s) \in Nat \ {0}
      /\ DOMAIN Tail(s) = 1..(Len(s) - 1)
      /\ \A k \in DOMAIN Tail(s) : k + 1 \in DOMAIN s /\ Tail(s)[k] = s[k + 1]
  BY Popped
<1>2. /\ IsFiniteSet(At(x, Tail(s))) /\ Cardinality(At(x, Tail(s))) \in Nat
      /\ IsFiniteSet(At(x, s))
  BY <1>1, AtType
<1>3. \A k \in At(x, Tail(s)) : k \in Nat /\ f[k] = k + 1 /\ f[k] \in rest
  BY <1>1 DEF At
<1>4. \A t \in rest : t - 1 \in At(x, Tail(s)) /\ f[t - 1] = t
  BY <1>1 DEF At
<1>5. IsFiniteSet(rest) /\ Cardinality(rest) = Cardinality(At(x, Tail(s)))
  <2>1. f \in [At(x, Tail(s)) -> rest]
    BY <1>3
  <2>2. \A a, b \in At(x, Tail(s)) : f[a] = f[b] => a = b
    BY <1>3
  <2>3. \A t \in rest : \E a \in At(x, Tail(s)) : f[a] = t
    BY <1>4
  <2> HIDE DEF f, rest
  <2>4. QED BY <1>2, <2>1, <2>2, <2>3, SameSize
<1>6. CASE x = Head(s)
  <2>1. At(x, s) = rest \cup {1} /\ 1 \notin rest
    BY <1>1, <1>6 DEF At
  <2> HIDE DEF rest
  <2>2. QED BY <1>2, <1>5, <1>6, <2>1, FS_AddElement
<1>7. CASE x # Head(s)
  <2>1. At(x, s) = rest
    BY <1>1, <1>7 DEF At
  <2> HIDE DEF rest
  <2>2. QED BY <1>2, <1>5, <1>7, <2>1
<1>8. QED BY <1>6, <1>7

(* A place in a container of containers is a place in one of them.         *)
LEMMA WithinMember ==
  ASSUME NEW ss, NEW x, NEW p
  PROVE  p \in Within(x, ss) <=> \E k \in DOMAIN ss : \E j \in At(x, ss[k]) : p = <<j, k>>
BY DEF Within

(* Finitely many queues hold finitely many copies.                         *)
LEMMA WithinType ==
  ASSUME NEW X, NEW ss, IsFiniteSet(DOMAIN ss), \A k \in DOMAIN ss : ss[k] \in Seq(X), NEW x
  PROVE  IsFiniteSet(Within(x, ss)) /\ Cardinality(Within(x, ss)) \in Nat
<1> DEFINE parts == {At(x, ss[k]) \X {k} : k \in DOMAIN ss}
           f == [k \in DOMAIN ss |-> At(x, ss[k]) \X {k}]
<1>1. f \in Surjection(DOMAIN ss, parts)
  <2>1. f \in [DOMAIN ss -> parts] /\ \A t \in parts : \E k \in DOMAIN ss : f[k] = t
    OBVIOUS
  <2> HIDE DEF f, parts
  <2>2. QED BY <2>1, Fun_IsSurj
<1>2. IsFiniteSet(parts)
  <2> HIDE DEF f, parts
  <2>1. QED BY <1>1, FS_Surjection
<1>3. \A k \in DOMAIN ss : IsFiniteSet(At(x, ss[k]) \X {k})
  BY AtType, SizeOfTagged
<1>4. \A T \in parts : IsFiniteSet(T)
  BY <1>3
<1>5. IsFiniteSet(UNION parts)
  <2> HIDE DEF parts
  <2>1. QED BY <1>2, <1>4, FS_UNION
<1>6. QED BY <1>5, FS_CardinalityType DEF Within

(* The places outside container d.                                         *)
Outside(x, ss, d) == {p \in Within(x, ss) : p[2] # d}

(* Container d contributes its own places.                                 *)
LEMMA WithinSplit ==
  ASSUME NEW X, NEW ss, IsFiniteSet(DOMAIN ss), \A k \in DOMAIN ss : ss[k] \in Seq(X),
         NEW d \in DOMAIN ss, NEW x
  PROVE  /\ IsFiniteSet(Outside(x, ss, d)) /\ Cardinality(Outside(x, ss, d)) \in Nat
         /\ Cardinality(Within(x, ss)) = Cardinality(Outside(x, ss, d)) + Cardinality(At(x, ss[d]))
<1>1. IsFiniteSet(Within(x, ss))
  BY WithinType
<1>2. IsFiniteSet(Outside(x, ss, d)) /\ Cardinality(Outside(x, ss, d)) \in Nat
  BY <1>1, FS_Subset, FS_CardinalityType DEF Outside
<1>3. /\ IsFiniteSet(At(x, ss[d]) \X {d})
      /\ Cardinality(At(x, ss[d]) \X {d}) = Cardinality(At(x, ss[d]))
  BY AtType, SizeOfTagged
<1>4. Within(x, ss) = Outside(x, ss, d) \cup (At(x, ss[d]) \X {d})
  <2>1. ASSUME NEW p \in Within(x, ss), p \notin Outside(x, ss, d) PROVE p \in At(x, ss[d]) \X {d}
    <3>1. PICK k \in DOMAIN ss : \E j \in At(x, ss[k]) : p = <<j, k>>
      BY WithinMember
    <3>2. p[2] = d
      BY <2>1 DEF Outside
    <3>3. QED BY <3>1, <3>2
  <2>2. ASSUME NEW p \in At(x, ss[d]) \X {d} PROVE p \in Within(x, ss)
    <3>1. PICK j \in At(x, ss[d]) : p = <<j, d>>
      OBVIOUS
    <3>2. QED BY <3>1, WithinMember
  <2>3. QED BY <2>1, <2>2 DEF Outside
<1>5. Outside(x, ss, d) \cap (At(x, ss[d]) \X {d}) = {}
  BY DEF Outside
<1>6. QED BY <1>2, <1>3, <1>4, <1>5, SizeOfUnion

(* Replacing the contents of container d.                                  *)
LEMMA WithinUpdate ==
  ASSUME NEW X, NEW ss, NEW tt, IsFiniteSet(DOMAIN ss), DOMAIN tt = DOMAIN ss, NEW d \in DOMAIN ss,
         \A k \in DOMAIN ss : ss[k] \in Seq(X), \A k \in DOMAIN ss : tt[k] \in Seq(X),
         \A k \in DOMAIN ss : k # d => tt[k] = ss[k], NEW x
  PROVE  Cardinality(Within(x, tt))
            = Cardinality(Within(x, ss)) - Cardinality(At(x, ss[d])) + Cardinality(At(x, tt[d]))
<1> DEFINE D == DOMAIN ss
<1>1. /\ IsFiniteSet(D) /\ DOMAIN tt = D /\ d \in D
      /\ \A k \in D : ss[k] \in Seq(X) /\ tt[k] \in Seq(X) /\ (k # d => tt[k] = ss[k])
  OBVIOUS
<1>2. Outside(x, tt, d) = Outside(x, ss, d)
  <2>1. ASSUME NEW p, p[2] # d PROVE p \in Within(x, tt) <=> p \in Within(x, ss)
    <3>1. ASSUME NEW k, NEW j, p = <<j, k>> PROVE k # d
      BY <2>1, <3>1
    <3>2. p \in Within(x, tt) <=> \E k \in D : \E j \in At(x, tt[k]) : p = <<j, k>>
      BY <1>1, WithinMember
    <3>3. p \in Within(x, ss) <=> \E k \in D : \E j \in At(x, ss[k]) : p = <<j, k>>
      BY <1>1, WithinMember
    <3>4. QED BY <1>1, <3>1, <3>2, <3>3
  <2>2. QED BY <2>1 DEF Outside
<1>3. /\ Cardinality(Within(x, ss)) = Cardinality(Outside(x, ss, d)) + Cardinality(At(x, ss[d]))
      /\ Cardinality(Outside(x, ss, d)) \in Nat
  BY <1>1, WithinSplit
<1>4. Cardinality(Within(x, tt)) = Cardinality(Outside(x, tt, d)) + Cardinality(At(x, tt[d]))
  BY <1>1, WithinSplit
<1>5. Cardinality(At(x, ss[d])) \in Nat /\ Cardinality(At(x, tt[d])) \in Nat
  BY <1>1, AtType
<1>6. QED BY <1>2, <1>3, <1>4, <1>5

(* Pushing a container.                                                    *)
LEMMA WithinPush ==
  ASSUME NEW X, NEW ss \in Seq(Seq(X)), NEW s \in Seq(X), NEW x
  PROVE  Cardinality(Within(x, Append(ss, s))) = Cardinality(Within(x, ss)) + Cardinality(At(x, s))
<1> DEFINE tt == Append(ss, s)
           d  == Len(ss) + 1
<1>1. /\ tt \in Seq(Seq(X)) /\ Len(ss) \in Nat /\ DOMAIN ss = 1..Len(ss) /\ DOMAIN tt = 1..d
      /\ \A k \in DOMAIN ss : tt[k] = ss[k]
      /\ tt[d] = s
      /\ \A k \in DOMAIN tt : k \in DOMAIN ss \/ k = d
  BY Pushed
<1>2. \A k \in DOMAIN tt : tt[k] \in Seq(X)
  BY <1>1, ElementOfSeq
<1> HIDE DEF tt
<1>3. d \in DOMAIN tt /\ d \notin DOMAIN ss /\ IsFiniteSet(DOMAIN tt) /\ DOMAIN ss \subseteq DOMAIN tt
  <2>1. d \in Int /\ 1 \in Int
    BY <1>1
  <2>2. IsFiniteSet(1..d)
    BY <2>1, FS_Interval
  <2>3. QED BY <1>1, <2>2
<1> HIDE DEF d
<1>4. Outside(x, tt, d) = Within(x, ss)
  <2>1. ASSUME NEW p PROVE p \in Outside(x, tt, d) <=> p \in Within(x, ss)
    <3>1. p \in Within(x, tt) <=> \E k \in DOMAIN tt : \E j \in At(x, tt[k]) : p = <<j, k>>
      BY WithinMember
    <3>2. p \in Within(x, ss) <=> \E k \in DOMAIN ss : \E j \in At(x, ss[k]) : p = <<j, k>>
      BY WithinMember
    <3>3. ASSUME NEW k, NEW j, p = <<j, k>> PROVE p[2] = k
      BY <3>3
    <3>4. QED BY <1>1, <1>3, <3>1, <3>2, <3>3 DEF Outside
  <2>2. QED BY <2>1
<1>5. Cardinality(Within(x, tt)) = Cardinality(Outside(x, tt, d)) + Cardinality(At(x, tt[d]))
  BY <1>2, <1>3, WithinSplit
<1>6. QED BY <1>1, <1>4, <1>5 DEF tt

(* Popping a container.                                                    *)
LEMMA WithinPop ==
  ASSUME NEW X, NEW ss \in Seq(Seq(X)), ss # <<>>, NEW x
  PROVE  /\ Cardinality(Within(x, ss)) = Cardinality(Within(x, Tail(ss))) + Cardinality(At(x, Head(ss)))
         /\ Cardinality(Within(x, Tail(ss))) \in Nat
<1> DEFINE tt == Tail(ss)
<1>1. /\ Head(ss) = ss[1] /\ tt \in Seq(Seq(X)) /\ DOMAIN ss = 1..Len(ss) /\ Len(ss) \in Nat \ {0}
      /\ DOMAIN tt = 1..(Len(ss) - 1)
      /\ \A k \in DOMAIN tt : k + 1 \in DOMAIN ss /\ tt[k] = ss[k + 1]
  BY Popped
<1>2. (\A k \in DOMAIN ss : ss[k] \in Seq(X)) /\ (\A k \in DOMAIN tt : tt[k] \in Seq(X))
  BY <1>1, ElementOfSeq
<1> HIDE DEF tt
<1>3. IsFiniteSet(DOMAIN ss) /\ IsFiniteSet(DOMAIN tt) /\ 1 \in DOMAIN ss
  BY <1>1, FS_Interval
<1>4. IsFiniteSet(Within(x, tt)) /\ Cardinality(Within(x, tt)) \in Nat
  BY <1>2, <1>3, WithinType
<1> DEFINE f == [p \in Within(x, tt) |-> <<p[1], p[2] + 1>>]
<1>5. ASSUME NEW p \in Within(x, tt)
      PROVE  /\ f[p] \in Outside(x, ss, 1) /\ p[2] \in Nat
             /\ p = <<p[1], p[2]>> /\ f[p] = <<p[1], p[2] + 1>>
  <2>1. PICK k \in DOMAIN tt : \E j \in At(x, tt[k]) : p = <<j, k>>
    BY WithinMember
  <2>2. PICK j \in At(x, tt[k]) : p = <<j, k>>
    BY <2>1
  <2>3. f[p] = <<j, k + 1>> /\ p[1] = j /\ p[2] = k
    BY <2>2
  <2>4. k + 1 \in DOMAIN ss /\ At(x, tt[k]) = At(x, ss[k + 1]) /\ k \in Nat /\ k + 1 # 1
    BY <1>1
  <2>5. <<j, k + 1>> \in Within(x, ss)
    BY <2>2, <2>4, WithinMember
  <2>6. QED BY <2>2, <2>3, <2>4, <2>5 DEF Outside
<1>6. ASSUME NEW t \in Outside(x, ss, 1) PROVE \E p \in Within(x, tt) : f[p] = t
  <2>1. PICK k \in DOMAIN ss : \E j \in At(x, ss[k]) : t = <<j, k>>
    BY WithinMember DEF Outside
  <2>2. PICK j \in At(x, ss[k]) : t = <<j, k>>
    BY <2>1
  <2>3. k # 1
    BY <2>2 DEF Outside
  <2>4. k - 1 \in DOMAIN tt /\ At(x, tt[k - 1]) = At(x, ss[k]) /\ (k - 1) + 1 = k
    BY <1>1, <2>3
  <2>5. <<j, k - 1>> \in Within(x, tt)
    BY <2>2, <2>4, WithinMember
  <2>6. f[<<j, k - 1>>] = t
    BY <2>2, <2>4, <2>5
  <2>7. QED BY <2>5, <2>6
<1>7. Cardinality(Outside(x, ss, 1)) = Cardinality(Within(x, tt))
  <2>1. f \in [Within(x, tt) -> Outside(x, ss, 1)]
    BY <1>5
  <2>2. \A p, q \in Within(x, tt) : f[p] = f[q] => p = q
    <3> HIDE DEF f
    <3>1. QED BY <1>5
  <2> HIDE DEF f
  <2>3. QED BY <1>4, <1>6, <2>1, <2>2, SameSize
<1>8. Cardinality(Within(x, ss)) = Cardinality(Outside(x, ss, 1)) + Cardinality(At(x, ss[1]))
  BY <1>2, <1>3, WithinSplit
<1>9. QED BY <1>1, <1>4, <1>7, <1>8 DEF tt

(* How many places hold worker i.                                          *)
InManage(i)   == Cardinality(At(Add(i), task_manage_queue_))
InMap(i)      == Cardinality(Within(i, task_executor_map_))
InFinished(i) == Cardinality(Within(i, finished_task_queue_))
InKill(i)     == Cardinality(Within(i, kill_task_queue_))
AtCleaner(i)  == Cardinality(At(i, cleaner))
AtKiller(i)   == Cardinality(At(i, killer.tasks))
IsReleased(i) == IF i \in released THEN 1 ELSE 0
Places(i) == InManage(i) + InMap(i) + InFinished(i) + InKill(i) + AtCleaner(i) + AtKiller(i) + IsReleased(i)

(* A queue of containers is a function with a finite domain.               *)
LEMMA QueueOfQueues ==
  ASSUME NEW X, NEW ss \in Seq(Seq(X))
  PROVE  IsFiniteSet(DOMAIN ss) /\ \A k \in DOMAIN ss : ss[k] \in Seq(X)
<1>1. Len(ss) \in Nat /\ DOMAIN ss = 1..Len(ss)
  BY LenProperties
<1>2. IsFiniteSet(1..Len(ss))
  BY <1>1, FS_Interval
<1>3. QED BY <1>1, <1>2, ElementOfSeq

(* Each of the counts is a count.                                          *)
LEMMA PlacesType ==
  ASSUME TypeOK, NEW i \in Calls
  PROVE  /\ InManage(i) \in Nat /\ InMap(i) \in Nat /\ InFinished(i) \in Nat /\ InKill(i) \in Nat
         /\ AtCleaner(i) \in Nat /\ AtKiller(i) \in Nat /\ IsReleased(i) \in Nat
         /\ IsFiniteSet(At(Add(i), task_manage_queue_)) /\ IsFiniteSet(Within(i, task_executor_map_))
         /\ IsFiniteSet(Within(i, finished_task_queue_)) /\ IsFiniteSet(Within(i, kill_task_queue_))
         /\ IsFiniteSet(At(i, cleaner)) /\ IsFiniteSet(At(i, killer.tasks))
<1> USE DEF TypeOK
<1>1. InManage(i) \in Nat /\ IsFiniteSet(At(Add(i), task_manage_queue_))
  BY AtType DEF InManage
<1>2. InMap(i) \in Nat /\ IsFiniteSet(Within(i, task_executor_map_))
  <2>1. DOMAIN task_executor_map_ = Ids /\ \A id \in Ids : task_executor_map_[id] \in Seq(Calls)
    OBVIOUS
  <2>2. QED BY <2>1, IdsFinite, WithinType DEF InMap
<1>3. /\ InFinished(i) \in Nat /\ IsFiniteSet(Within(i, finished_task_queue_))
      /\ InKill(i) \in Nat /\ IsFiniteSet(Within(i, kill_task_queue_))
  BY QueueOfQueues, WithinType DEF InFinished, InKill
<1>4. /\ AtCleaner(i) \in Nat /\ IsFiniteSet(At(i, cleaner))
      /\ AtKiller(i) \in Nat /\ IsFiniteSet(At(i, killer.tasks))
  BY AtType DEF AtCleaner, AtKiller
<1>5. QED BY <1>1, <1>2, <1>3, <1>4 DEF IsReleased

(* Sets of pairs with different tags are disjoint; adding one adds its     *)
(* size.                                                                   *)
LEMMA AddTagged ==
  ASSUME NEW S, IsFiniteSet(S), NEW tag, NEW T, IsFiniteSet(T), \A p \in S : p[1] # tag
  PROVE  /\ IsFiniteSet(S \cup ({tag} \X T))
         /\ Cardinality(S \cup ({tag} \X T)) = Cardinality(S) + Cardinality(T)
<1>1. IsFiniteSet({tag} \X T) /\ Cardinality({tag} \X T) = Cardinality(T)
  BY SizeOfTagged
<1>2. S \cap ({tag} \X T) = {}
  OBVIOUS
<1>3. QED BY <1>1, <1>2, SizeOfUnion

(* The number of holders is the sum over the places.                       *)
LEMMA HoldersSize ==
  ASSUME TypeOK, NEW i \in Calls
  PROVE  Cardinality(Holders(i)) = Places(i)
<1>1. PICK h1 : h1 = {"manage"} \X At(Add(i), task_manage_queue_)
  OBVIOUS
<1>2. PICK h2 : h2 = h1 \cup ({"map"} \X Within(i, task_executor_map_))
  OBVIOUS
<1>3. PICK h3 : h3 = h2 \cup ({"finished"} \X Within(i, finished_task_queue_))
  OBVIOUS
<1>4. PICK h4 : h4 = h3 \cup ({"kill"} \X Within(i, kill_task_queue_))
  OBVIOUS
<1>5. PICK h5 : h5 = h4 \cup ({"cleaner"} \X At(i, cleaner))
  OBVIOUS
<1>6. PICK h6 : h6 = h5 \cup ({"killer"} \X At(i, killer.tasks))
  OBVIOUS
<1>7. /\ IsFiniteSet(h1) /\ Cardinality(h1) = InManage(i)
      /\ \A p \in h1 : p[1] \in {"manage"}
  BY <1>1, PlacesType, SizeOfTagged DEF InManage
<1>8. /\ IsFiniteSet(h2) /\ Cardinality(h2) = Cardinality(h1) + InMap(i)
      /\ \A p \in h2 : p[1] \in {"manage", "map"}
  <2>1. IsFiniteSet(h1) /\ IsFiniteSet(Within(i, task_executor_map_)) /\ \A p \in h1 : p[1] # "map"
    BY <1>7, PlacesType
  <2> DEFINE u == h1 \cup ({"map"} \X Within(i, task_executor_map_))
  <2>2. IsFiniteSet(u) /\ Cardinality(u) = Cardinality(h1) + Cardinality(Within(i, task_executor_map_))
    BY <2>1, AddTagged
  <2>3. h2 = u
    BY <1>2
  <2>4. \A p \in h2 : p \in h1 \/ p[1] = "map"
    BY <1>2
  <2> HIDE DEF u
  <2>5. QED BY <1>7, <2>2, <2>3, <2>4 DEF InMap
<1>9. /\ IsFiniteSet(h3) /\ Cardinality(h3) = Cardinality(h2) + InFinished(i)
      /\ \A p \in h3 : p[1] \in {"manage", "map", "finished"}
  <2>1. IsFiniteSet(h2) /\ IsFiniteSet(Within(i, finished_task_queue_)) /\ \A p \in h2 : p[1] # "finished"
    BY <1>8, PlacesType
  <2> DEFINE u == h2 \cup ({"finished"} \X Within(i, finished_task_queue_))
  <2>2. IsFiniteSet(u) /\ Cardinality(u) = Cardinality(h2) + Cardinality(Within(i, finished_task_queue_))
    BY <2>1, AddTagged
  <2>3. h3 = u
    BY <1>3
  <2>4. \A p \in h3 : p \in h2 \/ p[1] = "finished"
    BY <1>3
  <2> HIDE DEF u
  <2>5. QED BY <1>8, <2>2, <2>3, <2>4 DEF InFinished
<1>10. /\ IsFiniteSet(h4) /\ Cardinality(h4) = Cardinality(h3) + InKill(i)
      /\ \A p \in h4 : p[1] \in {"manage", "map", "finished", "kill"}
  <2>1. IsFiniteSet(h3) /\ IsFiniteSet(Within(i, kill_task_queue_)) /\ \A p \in h3 : p[1] # "kill"
    BY <1>9, PlacesType
  <2> DEFINE u == h3 \cup ({"kill"} \X Within(i, kill_task_queue_))
  <2>2. IsFiniteSet(u) /\ Cardinality(u) = Cardinality(h3) + Cardinality(Within(i, kill_task_queue_))
    BY <2>1, AddTagged
  <2>3. h4 = u
    BY <1>4
  <2>4. \A p \in h4 : p \in h3 \/ p[1] = "kill"
    BY <1>4
  <2> HIDE DEF u
  <2>5. QED BY <1>9, <2>2, <2>3, <2>4 DEF InKill
<1>11. /\ IsFiniteSet(h5) /\ Cardinality(h5) = Cardinality(h4) + AtCleaner(i)
      /\ \A p \in h5 : p[1] \in {"manage", "map", "finished", "kill", "cleaner"}
  <2>1. IsFiniteSet(h4) /\ IsFiniteSet(At(i, cleaner)) /\ \A p \in h4 : p[1] # "cleaner"
    BY <1>10, PlacesType
  <2> DEFINE u == h4 \cup ({"cleaner"} \X At(i, cleaner))
  <2>2. IsFiniteSet(u) /\ Cardinality(u) = Cardinality(h4) + Cardinality(At(i, cleaner))
    BY <2>1, AddTagged
  <2>3. h5 = u
    BY <1>5
  <2>4. \A p \in h5 : p \in h4 \/ p[1] = "cleaner"
    BY <1>5
  <2> HIDE DEF u
  <2>5. QED BY <1>10, <2>2, <2>3, <2>4 DEF AtCleaner
<1>12. /\ IsFiniteSet(h6) /\ Cardinality(h6) = Cardinality(h5) + AtKiller(i)
      /\ \A p \in h6 : p[1] \in {"manage", "map", "finished", "kill", "cleaner", "killer"}
  <2>1. IsFiniteSet(h5) /\ IsFiniteSet(At(i, killer.tasks)) /\ \A p \in h5 : p[1] # "killer"
    BY <1>11, PlacesType
  <2> DEFINE u == h5 \cup ({"killer"} \X At(i, killer.tasks))
  <2>2. IsFiniteSet(u) /\ Cardinality(u) = Cardinality(h5) + Cardinality(At(i, killer.tasks))
    BY <2>1, AddTagged
  <2>3. h6 = u
    BY <1>6
  <2>4. \A p \in h6 : p \in h5 \/ p[1] = "killer"
    BY <1>6
  <2> HIDE DEF u
  <2>5. QED BY <1>11, <2>2, <2>3, <2>4 DEF AtKiller
<1>13. <<"released", 0>> \notin h6
  <2>1. <<"released", 0>>[1] = "released"
    OBVIOUS
  <2>2. QED BY <1>12, <2>1
<1>14. Holders(i) = h6 \cup (IF i \in released THEN {<<"released", 0>>} ELSE {})
  BY <1>1, <1>2, <1>3, <1>4, <1>5, <1>6 DEF Holders
<1>15. Cardinality(Holders(i)) = Cardinality(h6) + IsReleased(i)
  <2>1. CASE i \in released
    BY <1>12, <1>13, <1>14, <2>1, FS_AddElement DEF IsReleased
  <2>2. CASE i \notin released
    <3>1. Holders(i) = h6 /\ IsReleased(i) = 0
      BY <1>14, <2>2 DEF IsReleased
    <3>2. QED BY <1>12, <3>1, FS_CardinalityType
  <2>3. QED BY <2>1, <2>2
<1>16. QED BY <1>7, <1>8, <1>9, <1>10, <1>11, <1>12, <1>15, PlacesType DEF Places

-----------------------------------------------------------------------------
(* The workers of accepted calls are in one place, the others in none.     *)
AccountInv == \A i \in Calls : Places(i) = IF handler[i] = "accepted" THEN 1 ELSE 0

(* A step that moves no worker.                                            *)
LEMMA AccountFrame ==
  ASSUME AccountInv,
         \A i \in Calls : handler'[i] = "accepted" <=> handler[i] = "accepted",
         \A i \in Calls : InManage(i)' = InManage(i),
         UNCHANGED <<task_executor_map_, finished_task_queue_, cleaner, kill_task_queue_,
                     killer, released>>
  PROVE  AccountInv'
<1>1. ASSUME NEW i \in Calls PROVE Places(i)' = Places(i)
  <2>1. /\ InMap(i)' = InMap(i) /\ InFinished(i)' = InFinished(i) /\ InKill(i)' = InKill(i)
        /\ AtCleaner(i)' = AtCleaner(i) /\ AtKiller(i)' = AtKiller(i) /\ IsReleased(i)' = IsReleased(i)
    BY DEF InMap, InFinished, InKill, AtCleaner, AtKiller, IsReleased
  <2>2. QED BY <2>1 DEF Places
<1>2. QED BY <1>1 DEF AccountInv

(* An operation without a worker joins the queue.                          *)
LEMMA ManagePush ==
  ASSUME TypeOK, NEW op \in Operations, op.type # "kAdd",
         task_manage_queue_' = Append(task_manage_queue_, op)
  PROVE  \A i \in Calls : InManage(i)' = InManage(i)
<1>1. ASSUME NEW i \in Calls PROVE InManage(i)' = InManage(i)
  <2>1. Add(i) # op
    BY DEF Add
  <2>2. task_manage_queue_ \in Seq(Operations)
    BY DEF TypeOK
  <2>3. Cardinality(At(Add(i), Append(task_manage_queue_, op)))
           = Cardinality(At(Add(i), task_manage_queue_)) + 0
    BY <2>1, <2>2, AtPush
  <2>4. InManage(i) \in Nat
    BY PlacesType
  <2>5. QED BY <2>3, <2>4 DEF InManage
<1>2. QED BY <1>1

(* The manager takes an operation; with it goes the worker it carries.     *)
LEMMA ManagePop ==
  ASSUME TypeOK, NEW type, PopOperation(type), NEW i \in Calls
  PROVE  /\ InManage(i)' \in Nat
         /\ InManage(i) = InManage(i)' + (IF Head(task_manage_queue_) = Add(i) THEN 1 ELSE 0)
         /\ Head(task_manage_queue_) \in Operations
<1>1. task_manage_queue_ \in Seq(Operations) /\ task_manage_queue_ # <<>>
  BY DEF TypeOK, PopOperation
<1>2. /\ Cardinality(At(Add(i), task_manage_queue_)) =
            Cardinality(At(Add(i), Tail(task_manage_queue_)))
              + (IF Add(i) = Head(task_manage_queue_) THEN 1 ELSE 0)
      /\ Cardinality(At(Add(i), Tail(task_manage_queue_))) \in Nat
  BY <1>1, AtPop
<1>3. task_manage_queue_' = Tail(task_manage_queue_)
  BY DEF PopOperation
<1>4. InManage(i)' = Cardinality(At(Add(i), Tail(task_manage_queue_)))
  BY <1>3 DEF InManage, At, Add
<1>5. Head(task_manage_queue_) \in Operations
  BY <1>1, Popped
<1>6. QED BY <1>2, <1>4, <1>5 DEF InManage

(* A container leaves the map.                                             *)
LEMMA MapEmptied ==
  ASSUME TypeOK, NEW id \in Ids, task_executor_map_' = [task_executor_map_ EXCEPT ![id] = <<>>],
         NEW i \in Calls
  PROVE  /\ InMap(i)' = InMap(i) - Cardinality(At(i, task_executor_map_[id]))
         /\ Cardinality(At(i, task_executor_map_[id])) \in Nat
         /\ task_executor_map_[id] \in Seq(Calls)
<1>1. task_executor_map_ \in [Ids -> Seq(Calls)] /\ task_executor_map_[id] \in Seq(Calls)
  BY DEF TypeOK
<1>2. <<>> \in Seq(Calls)
  BY EmptySeq
<1> DEFINE m == task_executor_map_
<1>3. m'[id] = <<>> /\ id \in DOMAIN m
  BY <1>1
<1>4. Cardinality(Within(i, m'))
         = Cardinality(Within(i, m)) - Cardinality(At(i, m[id])) + Cardinality(At(i, m'[id]))
  <2>1. /\ DOMAIN m = Ids /\ DOMAIN m' = Ids
        /\ \A k \in Ids : m[k] \in Seq(Calls)
        /\ \A k \in Ids : m'[k] \in Seq(Calls)
        /\ \A k \in Ids : k # id => m'[k] = m[k]
    BY <1>1, <1>2
  <2> HIDE DEF m
  <2>2. QED BY <2>1, IdsFinite, WithinUpdate
<1>5. Cardinality(At(i, task_executor_map_'[id])) = 0
  BY <1>3, AtEmpty
<1>6. InMap(i) \in Nat /\ Cardinality(At(i, task_executor_map_[id])) \in Nat
  BY <1>1, PlacesType, AtType
<1>7. QED BY <1>1, <1>4, <1>5, <1>6 DEF InMap

(* AccountInv is inductive: every step keeps the number of places, only    *)
(* the handler's last step makes the first one.                            *)
LEMMA AccountInvHolds == Spec => []AccountInv
<1>1. Init => AccountInv
  <2> SUFFICES ASSUME Init, NEW i \in Calls PROVE Places(i) = 0
    BY DEF Init, AccountInv
  <2>1. At(Add(i), task_manage_queue_) = {} /\ At(i, cleaner) = {} /\ At(i, killer.tasks) = {}
    BY AtEmpty DEF Init
  <2>2. /\ Within(i, task_executor_map_) = {}
        /\ Within(i, finished_task_queue_) = {} /\ Within(i, kill_task_queue_) = {}
    BY AtEmpty DEF Init, Within
  <2>3. /\ InManage(i) = 0 /\ InMap(i) = 0 /\ InFinished(i) = 0 /\ InKill(i) = 0
        /\ AtCleaner(i) = 0 /\ AtKiller(i) = 0
    BY <2>1, <2>2, FS_EmptySet DEF InManage, InMap, InFinished, InKill, AtCleaner, AtKiller
  <2>4. QED BY <2>3 DEF Init, Places, IsReleased
<1>2. TypeInv /\ AccountInv /\ [Next]_vars => AccountInv'
  <2> SUFFICES ASSUME TypeInv, AccountInv, [Next]_vars PROVE AccountInv'
    OBVIOUS
  <2>t. TypeOK
    BY DEF TypeInv
  <2>1. ASSUME NEW i \in Calls, HandlerSaves(i) PROVE AccountInv'
    <3> SUFFICES ASSUME NEW j \in Calls
                 PROVE  Places(j)' = IF handler'[j] = "accepted" THEN 1 ELSE 0
      BY DEF AccountInv
    <3>1. handler[i] = "waiting" /\ handler' = [handler EXCEPT ![i] = "accepted"]
      BY <2>1 DEF HandlerSaves
    <3>2. Add(i) \in Operations /\ task_manage_queue_ \in Seq(Operations)
      BY <2>t, OperationType DEF TypeOK
    <3>3. Cardinality(At(Add(j), Append(task_manage_queue_, Add(i))))
             = Cardinality(At(Add(j), task_manage_queue_)) + (IF Add(j) = Add(i) THEN 1 ELSE 0)
      BY <3>2, AtPush
    <3>4. Add(j) = Add(i) <=> j = i
      BY DEF Add
    <3>5. InManage(j)' = InManage(j) + (IF j = i THEN 1 ELSE 0)
      BY <2>1, <3>3, <3>4 DEF HandlerSaves, InManage
    <3>6. /\ InMap(j)' = InMap(j) /\ InFinished(j)' = InFinished(j) /\ InKill(j)' = InKill(j)
          /\ AtCleaner(j)' = AtCleaner(j) /\ AtKiller(j)' = AtKiller(j) /\ IsReleased(j)' = IsReleased(j)
      BY <2>1, CallFrame DEF Handling, InMap, InFinished, InKill, AtCleaner, AtKiller, IsReleased
    <3>7. Places(j)' = Places(j) + (IF j = i THEN 1 ELSE 0)
      BY <2>t, <3>5, <3>6, PlacesType DEF Places
    <3>8. QED BY <2>t, <3>1, <3>7 DEF AccountInv, TypeOK
  <2>2. ASSUME NEW i \in Calls, ExecutorExits(i) PROVE AccountInv'
    <3>1. \A j \in Calls : InManage(j)' = InManage(j)
      BY <2>t, <2>2, ManagePush, OperationType, IdOfType DEF ExecutorExits, Del
    <3>2. QED BY <2>2, <3>1, AccountFrame DEF ExecutorExits
  <2>3. ASSUME NEW i \in Calls, \/ ExecuteTask(i) \/ HandlerFails(i) \/ Launching(i)
                               \/ HandlerIsStored(i) \/ TaskEnds(i) \/ ManualReturns(i)
                               \/ CacheLastTaskStatus(i)
        PROVE  AccountInv'
    <3>1. \A j \in Calls : InManage(j)' = InManage(j)
      BY <2>3 DEF ExecuteTask, HandlerFails, Launching, TaskReady, LaunchFails, HandlerIsStored,
                  TaskEnds, ManualReturns, CacheLastTaskStatus, poolVars, InManage
    <3>2. \A j \in Calls : handler'[j] = "accepted" <=> handler[j] = "accepted"
      BY <2>t, <2>3 DEF TypeOK, ExecuteTask, HandlerFails, Launching, TaskReady, LaunchFails,
                  HandlerIsStored, TaskEnds, ManualReturns, CacheLastTaskStatus
    <3>3. UNCHANGED <<task_executor_map_, finished_task_queue_, cleaner, kill_task_queue_, killer, released>>
      BY <2>3, CallFrame DEF Handling, Finishing
    <3>4. QED BY <3>1, <3>2, <3>3, AccountFrame
  <2>4. ASSUME NEW id \in Ids, StopTask(id) \/ KillTask(id) PROVE AccountInv'
    <3>1. \A j \in Calls : InManage(j)' = InManage(j)
      BY <2>t, <2>4, ManagePush, OperationType DEF StopTask, KillTask, Del, Kill
    <3>2. QED BY <2>4, <3>1, AccountFrame DEF StopTask, KillTask, callVars
  <2>5. CASE ExecuteAddTaskOperation
    <3> SUFFICES ASSUME NEW j \in Calls PROVE Places(j)' = Places(j)
      BY <2>5 DEF AccountInv, ExecuteAddTaskOperation, callVars
    <3> DEFINE i == Head(task_manage_queue_).worker
               m == task_executor_map_
    <3>1. /\ InManage(j)' \in Nat
          /\ InManage(j) = InManage(j)' + (IF Head(task_manage_queue_) = Add(j) THEN 1 ELSE 0)
          /\ Head(task_manage_queue_) \in Operations
          /\ Head(task_manage_queue_).type = "kAdd"
      BY <2>t, <2>5, ManagePop DEF ExecuteAddTaskOperation, PopOperation
    <3>2. i \in Calls /\ Head(task_manage_queue_) = Add(i)
      BY <3>1, OperationType
    <3>3. Head(task_manage_queue_) = Add(j) <=> j = i
      BY <3>2 DEF Add
    <3>4. idOf(i) \in Ids /\ m \in [Ids -> Seq(Calls)] /\ m[idOf(i)] \in Seq(Calls)
      BY <2>t, <3>2, IdOfType DEF TypeOK
    <3>5. m' = [m EXCEPT ![idOf(i)] = Append(m[idOf(i)], i)]
      BY <2>5 DEF ExecuteAddTaskOperation
    <3> HIDE DEF i, m
    <3>6. Append(m[idOf(i)], i) \in Seq(Calls)
      BY <3>2, <3>4, Pushed
    <3>7. Cardinality(At(j, Append(m[idOf(i)], i)))
             = Cardinality(At(j, m[idOf(i)])) + (IF j = i THEN 1 ELSE 0)
      BY <3>2, <3>4, AtPush
    <3>8. Cardinality(Within(j, m'))
             = Cardinality(Within(j, m)) - Cardinality(At(j, m[idOf(i)])) + Cardinality(At(j, m'[idOf(i)]))
      <4>1. /\ DOMAIN m = Ids /\ DOMAIN m' = Ids /\ idOf(i) \in Ids
            /\ \A k \in Ids : m[k] \in Seq(Calls)
            /\ \A k \in Ids : m'[k] \in Seq(Calls)
            /\ \A k \in Ids : k # idOf(i) => m'[k] = m[k]
        BY <3>4, <3>5, <3>6
      <4>2. QED BY <4>1, IdsFinite, WithinUpdate
    <3>9. Cardinality(At(j, m[idOf(i)])) \in Nat /\ Cardinality(Within(j, m)) \in Nat
      BY <2>t, <3>4, AtType, PlacesType DEF m, InMap
    <3>10. InMap(j)' = InMap(j) + (IF j = i THEN 1 ELSE 0)
      <4>1. m'[idOf(i)] = Append(m[idOf(i)], i)
        BY <3>4, <3>5
      <4>2. QED BY <3>7, <3>8, <3>9, <4>1 DEF InMap, m
    <3>11. /\ InFinished(j)' = InFinished(j) /\ InKill(j)' = InKill(j)
           /\ AtCleaner(j)' = AtCleaner(j) /\ AtKiller(j)' = AtKiller(j) /\ IsReleased(j)' = IsReleased(j)
      BY <2>5 DEF ExecuteAddTaskOperation, InFinished, InKill, AtCleaner, AtKiller, IsReleased
    <3>12. QED BY <2>t, <3>1, <3>3, <3>10, <3>11, PlacesType DEF Places
  <2>6. CASE ExecuteDelTaskOperation
    <3> SUFFICES ASSUME NEW j \in Calls PROVE Places(j)' = Places(j)
      BY <2>6 DEF AccountInv, ExecuteDelTaskOperation, callVars
    <3> DEFINE id == Head(task_manage_queue_).id
               s  == task_executor_map_[id]
    <3>1. /\ InManage(j)' \in Nat
          /\ InManage(j) = InManage(j)' + (IF Head(task_manage_queue_) = Add(j) THEN 1 ELSE 0)
          /\ Head(task_manage_queue_) \in Operations
          /\ Head(task_manage_queue_).type = "kDel"
      BY <2>t, <2>6, ManagePop DEF ExecuteDelTaskOperation, PopOperation
    <3>2. id \in Ids /\ Head(task_manage_queue_) # Add(j)
      BY <3>1, OperationType DEF Add
    <3>3. /\ InMap(j)' = InMap(j) - Cardinality(At(j, s))
          /\ Cardinality(At(j, s)) \in Nat /\ s \in Seq(Calls)
      BY <2>t, <2>6, <3>2, MapEmptied DEF ExecuteDelTaskOperation
    <3>4. InFinished(j)' = InFinished(j) + Cardinality(At(j, s))
      <4>1. CASE s = <<>>
        <5>1. Cardinality(At(j, s)) = 0
          BY <4>1, AtEmpty
        <5>2. InFinished(j)' = InFinished(j)
          BY <2>6, <4>1 DEF ExecuteDelTaskOperation, InFinished
        <5>3. QED BY <2>t, <5>1, <5>2, PlacesType
      <4>2. CASE s # <<>>
        <5>1. finished_task_queue_' = Append(finished_task_queue_, s)
          BY <2>6, <4>2 DEF ExecuteDelTaskOperation
        <5>2. finished_task_queue_ \in Seq(Seq(Calls))
          BY <2>t DEF TypeOK
        <5> HIDE DEF id, s
        <5>3. Cardinality(Within(j, Append(finished_task_queue_, s)))
                 = Cardinality(Within(j, finished_task_queue_)) + Cardinality(At(j, s))
          BY <3>3, <5>2, WithinPush
        <5>4. QED BY <5>1, <5>3 DEF InFinished
      <4>3. QED BY <4>1, <4>2
    <3>5. /\ InKill(j)' = InKill(j)
          /\ AtCleaner(j)' = AtCleaner(j) /\ AtKiller(j)' = AtKiller(j) /\ IsReleased(j)' = IsReleased(j)
      BY <2>6 DEF ExecuteDelTaskOperation, InKill, AtCleaner, AtKiller, IsReleased
    <3> HIDE DEF id, s
    <3>6. QED BY <2>t, <3>1, <3>2, <3>3, <3>4, <3>5, PlacesType DEF Places
  <2>7. CASE ExecuteKillTaskOperation
    <3> SUFFICES ASSUME NEW j \in Calls PROVE Places(j)' = Places(j)
      BY <2>7 DEF AccountInv, ExecuteKillTaskOperation, callVars
    <3> DEFINE id == Head(task_manage_queue_).id
               s  == task_executor_map_[id]
    <3>1. /\ InManage(j)' \in Nat
          /\ InManage(j) = InManage(j)' + (IF Head(task_manage_queue_) = Add(j) THEN 1 ELSE 0)
          /\ Head(task_manage_queue_) \in Operations
          /\ Head(task_manage_queue_).type = "kKill"
      BY <2>t, <2>7, ManagePop DEF ExecuteKillTaskOperation, PopOperation
    <3>2. id \in Ids /\ Head(task_manage_queue_) # Add(j)
      BY <3>1, OperationType DEF Add
    <3>3. /\ InMap(j)' = InMap(j) - Cardinality(At(j, s))
          /\ Cardinality(At(j, s)) \in Nat /\ s \in Seq(Calls)
      BY <2>t, <2>7, <3>2, MapEmptied DEF ExecuteKillTaskOperation
    <3>4. InKill(j)' = InKill(j) + Cardinality(At(j, s))
      <4>1. CASE s = <<>>
        <5>1. Cardinality(At(j, s)) = 0
          BY <4>1, AtEmpty
        <5>2. InKill(j)' = InKill(j)
          BY <2>7, <4>1 DEF ExecuteKillTaskOperation, InKill
        <5>3. QED BY <2>t, <5>1, <5>2, PlacesType
      <4>2. CASE s # <<>>
        <5>1. kill_task_queue_' = Append(kill_task_queue_, s)
          BY <2>7, <4>2 DEF ExecuteKillTaskOperation
        <5>2. kill_task_queue_ \in Seq(Seq(Calls))
          BY <2>t DEF TypeOK
        <5> HIDE DEF id, s
        <5>3. Cardinality(Within(j, Append(kill_task_queue_, s)))
                 = Cardinality(Within(j, kill_task_queue_)) + Cardinality(At(j, s))
          BY <3>3, <5>2, WithinPush
        <5>4. QED BY <5>1, <5>3 DEF InKill
      <4>3. QED BY <4>1, <4>2
    <3>5. /\ InFinished(j)' = InFinished(j)
          /\ AtCleaner(j)' = AtCleaner(j) /\ AtKiller(j)' = AtKiller(j) /\ IsReleased(j)' = IsReleased(j)
      BY <2>7 DEF ExecuteKillTaskOperation, InFinished, AtCleaner, AtKiller, IsReleased
    <3> HIDE DEF id, s
    <3>6. QED BY <2>t, <3>1, <3>2, <3>3, <3>4, <3>5, PlacesType DEF Places
  <2>8. CASE CleanerTakes
    <3> SUFFICES ASSUME NEW j \in Calls PROVE Places(j)' = Places(j)
      BY <2>8 DEF AccountInv, CleanerTakes, callVars
    <3>1. finished_task_queue_ \in Seq(Seq(Calls)) /\ finished_task_queue_ # <<>>
      BY <2>t, <2>8 DEF CleanerTakes, TypeOK
    <3>2. /\ InFinished(j) = InFinished(j)' + Cardinality(At(j, Head(finished_task_queue_)))
          /\ InFinished(j)' \in Nat
      BY <2>8, <3>1, WithinPop DEF CleanerTakes, InFinished
    <3>3. AtCleaner(j)' = Cardinality(At(j, Head(finished_task_queue_))) /\ AtCleaner(j) = 0
      BY <2>8, AtEmpty DEF CleanerTakes, AtCleaner
    <3>4. Cardinality(At(j, Head(finished_task_queue_))) \in Nat
      BY <3>1, Popped, AtType
    <3>5. /\ InManage(j)' = InManage(j) /\ InMap(j)' = InMap(j) /\ InKill(j)' = InKill(j)
          /\ AtKiller(j)' = AtKiller(j) /\ IsReleased(j)' = IsReleased(j)
      BY <2>8 DEF CleanerTakes, InManage, InMap, InKill, AtKiller, IsReleased
    <3>6. QED BY <2>t, <3>2, <3>3, <3>4, <3>5, PlacesType DEF Places
  <2>9. CASE CleanerReleases
    <3> SUFFICES ASSUME NEW j \in Calls PROVE Places(j)' = Places(j)
      BY <2>9 DEF AccountInv, CleanerReleases, callVars
    <3>1. cleaner \in Seq(Calls) /\ cleaner # <<>>
      BY <2>t, <2>9 DEF CleanerReleases, TypeOK
    <3>2. /\ AtCleaner(j) = AtCleaner(j)' + (IF j = Head(cleaner) THEN 1 ELSE 0)
          /\ AtCleaner(j)' \in Nat
      BY <2>9, <3>1, AtPop DEF CleanerReleases, AtCleaner
    <3>3. /\ InManage(j)' = InManage(j) /\ InMap(j)' = InMap(j) /\ InFinished(j)' = InFinished(j)
          /\ InKill(j)' = InKill(j) /\ AtKiller(j)' = AtKiller(j)
      BY <2>9 DEF CleanerReleases, InManage, InMap, InFinished, InKill, AtKiller
    <3>4. Places(j) <= 1
      BY DEF AccountInv
    <3>5. j = Head(cleaner) => IsReleased(j) = 0
      BY <2>t, <3>2, <3>4, PlacesType DEF Places
    <3>6. IsReleased(j)' = IsReleased(j) + (IF j = Head(cleaner) THEN 1 ELSE 0)
      BY <2>9, <3>5 DEF CleanerReleases, IsReleased
    <3>7. QED BY <2>t, <3>2, <3>3, <3>6, PlacesType DEF Places
  <2>10. CASE KillerTakes
    <3> SUFFICES ASSUME NEW j \in Calls PROVE Places(j)' = Places(j)
      BY <2>10 DEF AccountInv, KillerTakes, callVars
    <3>1. kill_task_queue_ \in Seq(Seq(Calls)) /\ kill_task_queue_ # <<>>
      BY <2>t, <2>10 DEF KillerTakes, TypeOK
    <3>2. /\ InKill(j) = InKill(j)' + Cardinality(At(j, Head(kill_task_queue_)))
          /\ InKill(j)' \in Nat
      BY <2>10, <3>1, WithinPop DEF KillerTakes, InKill
    <3>3. AtKiller(j)' = Cardinality(At(j, Head(kill_task_queue_)))
      BY <2>10 DEF KillerTakes, AtKiller
    <3>4. AtKiller(j) = 0
      BY <2>10, AtEmpty DEF KillerTakes, AtKiller, TypeInv, KillerHasWorker
    <3>5. Cardinality(At(j, Head(kill_task_queue_))) \in Nat
      BY <3>1, Popped, AtType
    <3>6. /\ InManage(j)' = InManage(j) /\ InMap(j)' = InMap(j) /\ InFinished(j)' = InFinished(j)
          /\ AtCleaner(j)' = AtCleaner(j) /\ IsReleased(j)' = IsReleased(j)
      BY <2>10 DEF KillerTakes, InManage, InMap, InFinished, AtCleaner, IsReleased
    <3>7. QED BY <2>t, <3>2, <3>3, <3>4, <3>5, <3>6, PlacesType DEF Places
  <2>11. CASE KillFront
    <3> SUFFICES ASSUME NEW j \in Calls PROVE Places(j)' = Places(j)
      BY <2>11 DEF AccountInv, KillFront, callVars
    <3>1. killer'.tasks = killer.tasks
      BY <2>t, <2>11 DEF KillFront, TypeOK
    <3>2. QED BY <2>11, <3>1 DEF KillFront, Places, InManage, InMap, InFinished, InKill, AtCleaner,
                   AtKiller, IsReleased
  <2>12. CASE KillerReleases
    <3> SUFFICES ASSUME NEW j \in Calls PROVE Places(j)' = Places(j)
      BY <2>12 DEF AccountInv, KillerReleases, callVars
    <3>1. killer.tasks \in Seq(Calls) /\ killer.tasks # <<>> /\ killer'.tasks = Tail(killer.tasks)
      BY <2>t, <2>12 DEF KillerReleases, TypeOK
    <3>2. /\ AtKiller(j) = AtKiller(j)' + (IF j = Head(killer.tasks) THEN 1 ELSE 0)
          /\ AtKiller(j)' \in Nat
      BY <3>1, AtPop DEF AtKiller
    <3>3. /\ InManage(j)' = InManage(j) /\ InMap(j)' = InMap(j) /\ InFinished(j)' = InFinished(j)
          /\ InKill(j)' = InKill(j) /\ AtCleaner(j)' = AtCleaner(j)
      BY <2>12 DEF KillerReleases, InManage, InMap, InFinished, InKill, AtCleaner
    <3>4. Places(j) <= 1
      BY DEF AccountInv
    <3>5. j = Head(killer.tasks) => IsReleased(j) = 0
      BY <2>t, <3>2, <3>4, PlacesType DEF Places
    <3>6. IsReleased(j)' = IsReleased(j) + (IF j = Head(killer.tasks) THEN 1 ELSE 0)
      BY <2>12, <3>5 DEF KillerReleases, IsReleased
    <3>7. QED BY <2>t, <3>2, <3>3, <3>6, PlacesType DEF Places
  <2>13. CASE CleanTimeoutCachedTaskStatus \/ UNCHANGED vars
    <3>1. UNCHANGED <<callVars, poolVars>>
      BY <2>13 DEF CleanTimeoutCachedTaskStatus, vars
    <3>2. QED BY <3>1, AccountFrame DEF callVars, poolVars, InManage
  <2>14. QED
    BY <2>1, <2>2, <2>3, <2>4, <2>5, <2>6, <2>7, <2>8, <2>9, <2>10, <2>11, <2>12, <2>13
       DEF Next, Handling, Finishing, Managing, Cleaning, Killing
<1>3. QED BY <1>1, <1>2, TypeInvHolds, PTL DEF Spec

(* No worker is lost, none has two owners.                                 *)
THEOREM NoWorkerLost == Spec => []WorkerAccounted
<1>1. TypeInv /\ AccountInv => WorkerAccounted
  BY HoldersSize DEF TypeInv, AccountInv, WorkerAccounted
<1>2. QED BY <1>1, TypeInvHolds, AccountInvHolds, PTL
=============================================================================
