------------------------ MODULE TaskSchedulerProofs ------------------------
(***************************************************************************)
(* Theorems about TaskScheduler for any number of parties, nodes and       *)
(* attempts, and any deadline and timeout with which the filter outlives   *)
(* the retries: the verdict on a task is set once and is backed by reports, a *)
(* failed task is killed everywhere, and a retry runs nothing again.       *)
(***************************************************************************)
EXTENDS TaskScheduler, FiniteSetTheorems, TLAPS

(* Each group of actions by what it leaves alone.                          *)
LEMMA DispatchingFrame ==
  Dispatching => UNCHANGED <<now, nodeVars, workerVars, kill_called, reply_count, seen>>
BY DEF Dispatching, Submit, ParseFails, StartDispatch, JoinDispatch, SetPartyCount,
       StartWaiter, ExecuteTaskReturns, ExecuteTaskFails, nodeVars, workerVars, clientVars

(* What happens on the executing nodes leaves the scheduler alone.         *)
LEMMA ExecutingFrame ==
  Executing => UNCHANGED <<now, dispatch, worker, tries, rpc, sent, servers, workerVars,
                           party_count_, waiter, kill_called, clientVars>>
BY DEF Executing, ExecutorReady, ExecutorCannotStart, ChildReports, ExecutorEnds,
       HandleExecute, HandlerAnswers, rpcVars

(* Reports are never taken back.                                           *)
LEMMA NotesGrow == ASSUME Next PROVE notes \subseteq notes'
<1>1. CASE Dispatching
  BY <1>1, DispatchingFrame DEF nodeVars
<1>2. CASE Executing
  BY <1>2 DEF Executing, ExecutorReady, ExecutorCannotStart, ChildReports, ExecutorEnds,
       HandleExecute, HandlerAnswers, Notify
<1>3. CASE \E note \in Reports : UpdateTaskStatus(note)
  BY <1>3 DEF UpdateTaskStatus, nodeVars
<1>4. CASE \E n \in Nodes : SendKill(n)
  BY <1>4 DEF SendKill, nodeVars
<1>5. CASE ClientKill \/ WaiterWakes \/ EvictWorker
  BY <1>5 DEF ClientKill, WaiterWakes, EvictWorker, nodeVars
<1>6. CASE SubmitReturns \/ SubmitTimesOut \/ Poll \/ Tick
  BY <1>6 DEF SubmitReturns, SubmitTimesOut, Poll, Tick, nodeVars
<1>7. QED BY <1>1, <1>2, <1>3, <1>4, <1>5, <1>6 DEF Next

(* Only a report or a client's kill touches the verdict.                   *)
LEMMA VerdictFrame ==
  ASSUME Next
  PROVE  \/ \E note \in Reports : UpdateTaskStatus(note)
         \/ ClientKill
         \/ UNCHANGED <<final_status_, promise, sets>>
<1>1. CASE Dispatching
  BY <1>1, DispatchingFrame DEF workerVars
<1>2. CASE Executing
  BY <1>2, ExecutingFrame DEF workerVars
<1>3. CASE \E n \in Nodes : SendKill(n)
  BY <1>3 DEF SendKill, workerVars
<1>4. CASE WaiterWakes \/ EvictWorker
  BY <1>4 DEF WaiterWakes, EvictWorker, workerVars
<1>5. CASE SubmitReturns \/ SubmitTimesOut \/ Poll \/ Tick
  BY <1>5 DEF SubmitReturns, SubmitTimesOut, Poll, Tick, workerVars
<1>6. QED BY <1>1, <1>2, <1>3, <1>4, <1>5 DEF Next

-----------------------------------------------------------------------------
(* The party count is 0 until it is set, and from then on it is the number *)
(* of acknowledgements, which no longer changes because no call is open.   *)
CountInv ==
  /\ servers \subseteq Parties
  /\ dispatch \in {"joined", "counted", "returned", "aborted"}
        => \A p \in Parties : rpc[p] # "calling"
  /\ dispatch \in {"idle", "registered"} => \A p \in Parties : rpc[p] = "idle"
  /\ party_count_ = IF dispatch \in {"counted", "returned"}
                    THEN Cardinality(servers) ELSE 0

(* The count is never set while an ExecuteTask call is open.               *)
LEMMA CountInvHolds == Spec => []CountInv
<1>1. Init => CountInv
  BY DEF Init, CountInv
<1>2. CountInv /\ [Next]_vars => CountInv'
  <2> SUFFICES ASSUME CountInv, [Next]_vars PROVE CountInv'
    OBVIOUS
  <2>1. CASE Submit \/ ParseFails \/ StartDispatch \/ JoinDispatch \/ SetPartyCount \/ StartWaiter
    BY <2>1 DEF CountInv, Submit, ParseFails, StartDispatch, JoinDispatch, SetPartyCount,
            StartWaiter, rpcVars
  <2>2. ASSUME NEW p \in Parties, ExecuteTaskReturns(p) PROVE CountInv'
    BY <2>2 DEF CountInv, ExecuteTaskReturns
  <2>3. ASSUME NEW p \in Parties, ExecuteTaskFails(p) PROVE CountInv'
    BY <2>3 DEF CountInv, ExecuteTaskFails
  <2>4. CASE Executing
    BY <2>4, ExecutingFrame DEF CountInv
  <2>5. CASE \E note \in Reports : UpdateTaskStatus(note)
    BY <2>5 DEF CountInv, UpdateTaskStatus, rpcVars
  <2>6. CASE \E n \in Nodes : SendKill(n)
    BY <2>6 DEF CountInv, SendKill, rpcVars
  <2>7. CASE ClientKill \/ WaiterWakes \/ EvictWorker
    BY <2>7 DEF CountInv, ClientKill, WaiterWakes, EvictWorker, rpcVars
  <2>8. CASE SubmitReturns \/ SubmitTimesOut \/ Poll \/ Tick
    BY <2>8 DEF CountInv, SubmitReturns, SubmitTimesOut, Poll, Tick, rpcVars
  <2>9. CASE UNCHANGED vars
    BY <2>9 DEF CountInv, vars, rpcVars
  <2>10. QED BY <2>1, <2>2, <2>3, <2>4, <2>5, <2>6, <2>7, <2>8, <2>9 DEF Next, Dispatching
<1>3. QED BY <1>1, <1>2, PTL DEF Spec

(* While the party count is set, neither it nor the acknowledgements       *)
(* change.                                                                 *)
LEMMA CountIsFinal ==
  ASSUME CountInv, Next, party_count_ # 0
  PROVE  UNCHANGED <<party_count_, servers>>
<1>1. dispatch \in {"counted", "returned"}
  BY DEF CountInv
<1>2. CASE Submit \/ ParseFails \/ StartDispatch \/ JoinDispatch \/ SetPartyCount \/ StartWaiter
  BY <1>1, <1>2 DEF Submit, ParseFails, StartDispatch, JoinDispatch, SetPartyCount,
          StartWaiter, rpcVars
<1>3. ASSUME NEW p \in Parties, ExecuteTaskReturns(p) \/ ExecuteTaskFails(p) PROVE FALSE
  BY <1>1, <1>3 DEF CountInv, ExecuteTaskReturns, ExecuteTaskFails
<1>4. CASE Executing
  BY <1>4, ExecutingFrame
<1>5. CASE \E note \in Reports : UpdateTaskStatus(note)
  BY <1>5 DEF UpdateTaskStatus, rpcVars
<1>6. CASE \E n \in Nodes : SendKill(n)
  BY <1>6 DEF SendKill, rpcVars
<1>7. CASE ClientKill \/ WaiterWakes \/ EvictWorker
  BY <1>7 DEF ClientKill, WaiterWakes, EvictWorker, rpcVars
<1>8. CASE SubmitReturns \/ SubmitTimesOut \/ Poll \/ Tick
  BY <1>8 DEF SubmitReturns, SubmitTimesOut, Poll, Tick, rpcVars
<1>9. QED BY <1>2, <1>3, <1>4, <1>5, <1>6, <1>7, <1>8 DEF Next, Dispatching

-----------------------------------------------------------------------------
(* Until there is a verdict only successes have come in, each of a party   *)
(* that reported one; a verdict is set once and is backed.                 *)
VerdictInv ==
  /\ promise \in {"unset", "SUCCESS", "FAIL"}
  /\ sets = IF promise = "unset" THEN 0 ELSE 1
  /\ promise = "unset" => DOMAIN final_status_ \subseteq Reported("SUCCESS")
  /\ SuccessBacked
  /\ FailBacked

(* What one report does to the verdict.                                    *)
LEMMA UpdateEffect ==
  ASSUME NEW party, NEW s \in Status, updateTaskStatus(party, s),
         promise \in {"unset", "SUCCESS", "FAIL"}
  PROVE  /\ DOMAIN final_status_' = DOMAIN final_status_ \cup {party}
         /\ promise # "unset" => UNCHANGED <<promise, sets>>
         /\ promise = "unset" /\ s = "FAIL" => promise' = "FAIL" /\ sets' = sets + 1
         /\ promise = "unset" /\ s # "FAIL" =>
               \/ UNCHANGED <<promise, sets>>
               \/ /\ Cardinality(DOMAIN final_status_') = party_count_
                  /\ promise' = "SUCCESS" /\ sets' = sets + 1
BY DEF updateTaskStatus, Entered, Status

(* More reports back a verdict that was backed.                            *)
LEMMA ReportedGrows ==
  ASSUME notes \subseteq notes'
  PROVE  \A s : Reported(s) \subseteq Reported(s)'
BY DEF Reported

(* No more parties report than there are.                                  *)
LEMMA ReportedFinite ==
  \A s : /\ IsFiniteSet(Reported(s)) /\ Reported(s) \subseteq Parties
         /\ Cardinality(Reported(s)) \in Nat
<1> TAKE s
<1>1. Reported(s) \subseteq Parties
  BY DEF Reported
<1>2. IsFiniteSet(Reported(s))
  BY <1>1, SchedulerAssumption, FS_Subset
<1>3. QED BY <1>1, <1>2, FS_CardinalityType

(* A success that is backed stays backed when the reports grow and the     *)
(* count, which is not 0, stays.                                           *)
LEMMA SuccessStays ==
  ASSUME SuccessBacked, CountInv, CountInv', promise = "SUCCESS", promise' = "SUCCESS",
         notes \subseteq notes', UNCHANGED <<party_count_, servers>>
  PROVE  SuccessBacked'
<1> DEFINE R == Reported("SUCCESS")
<1>1. R \subseteq R'
  BY ReportedGrows
<1>2. IsFiniteSet(R) /\ IsFiniteSet(R') /\ R' \subseteq Parties
  <2>1. IsFiniteSet(R) BY ReportedFinite
  <2>2. R' \subseteq Parties BY DEF Reported
  <2>3. IsFiniteSet(R') BY <2>2, SchedulerAssumption, FS_Subset
  <2>4. QED BY <2>1, <2>2, <2>3
<1>3. Cardinality(R) <= Cardinality(R') /\ Cardinality(R) \in Nat /\ Cardinality(R') \in Nat
  BY <1>1, <1>2, FS_Subset, FS_CardinalityType
<1>4. servers = Parties => R' = Parties
  BY <1>1, <1>2 DEF SuccessBacked
<1>5. party_count_ \in Nat
  <2>1. IsFiniteSet(servers) BY SchedulerAssumption, FS_Subset DEF CountInv
  <2>2. QED BY <2>1, FS_CardinalityType DEF CountInv
<1>6. QED BY <1>3, <1>4, <1>5 DEF SuccessBacked

(* The verdict SUCCESS at the moment it is reached.                        *)
LEMMA SuccessReached ==
  ASSUME CountInv, UNCHANGED <<party_count_, servers>>, notes \subseteq notes',
         DOMAIN final_status_' \subseteq Reported("SUCCESS")',
         DOMAIN final_status_' # {},
         Cardinality(DOMAIN final_status_') = party_count_
  PROVE  SuccessBacked'
<1> DEFINE R == Reported("SUCCESS")'   D == DOMAIN final_status_'
<1>1. R \subseteq Parties
  BY DEF Reported
<1>2. IsFiniteSet(R) /\ IsFiniteSet(D)
  BY <1>1, SchedulerAssumption, FS_Subset
<1>3. Cardinality(D) <= Cardinality(R) /\ Cardinality(D) \in Nat /\ Cardinality(R) \in Nat
  BY <1>2, FS_Subset, FS_CardinalityType
<1>4. party_count_ # 0
  BY <1>2, FS_EmptySet
<1>5. party_count_ = Cardinality(servers) /\ servers # {}
  BY <1>4, FS_EmptySet DEF CountInv
<1>6. ASSUME servers = Parties PROVE R = Parties
  <2>1. Cardinality(Parties) <= Cardinality(R) /\ Cardinality(Parties) \in Nat
    BY <1>3, <1>5, <1>6
  <2>2. QED BY <1>1, <1>3, <2>1, SchedulerAssumption, FS_Subset
<1>7. QED BY <1>3, <1>5, <1>6 DEF SuccessBacked

(* The verdict is set once and is backed, action by action.                *)
LEMMA VerdictInvHolds == Spec => []VerdictInv
<1>1. Init => VerdictInv
  <2>1. DOMAIN <<>> = {}
    OBVIOUS
  <2>2. QED BY <2>1 DEF Init, VerdictInv, SuccessBacked, FailBacked
<1>2. CountInv /\ CountInv' /\ VerdictInv /\ [Next]_vars => VerdictInv'
  <2> SUFFICES ASSUME CountInv, CountInv', VerdictInv, [Next]_vars PROVE VerdictInv'
    OBVIOUS
  <2>0. CASE UNCHANGED vars
    BY <2>0 DEF VerdictInv, SuccessBacked, FailBacked, Reported, vars, rpcVars,
            nodeVars, workerVars
  <2> SUFFICES ASSUME Next PROVE VerdictInv'
    BY <2>0
  <2>1. notes \subseteq notes' /\ (\A s : Reported(s) \subseteq Reported(s)')
    BY NotesGrow, ReportedGrows
  <2>2. promise = "SUCCESS" => UNCHANGED <<party_count_, servers>>
    <3>1. promise = "SUCCESS" => party_count_ # 0
      <4>1. IsFiniteSet(servers)
        BY SchedulerAssumption, FS_Subset DEF CountInv
      <4>2. QED BY <4>1, FS_EmptySet DEF VerdictInv, SuccessBacked
    <3>2. QED BY <3>1, CountIsFinal
  (* The step that enters a report of s by party.                          *)
  <2>3. ASSUME NEW party, NEW s \in Status, updateTaskStatus(party, s),
               UNCHANGED <<party_count_, servers, notes>>,
               s = "FAIL" => Reported("FAIL") # {} \/ party = "SCHEDULER",
               s = "SUCCESS" => party \in Reported("SUCCESS")
        PROVE  VerdictInv'
    <3>1. /\ DOMAIN final_status_' = DOMAIN final_status_ \cup {party}
          /\ promise # "unset" => UNCHANGED <<promise, sets>>
          /\ promise = "unset" /\ s = "FAIL" => promise' = "FAIL" /\ sets' = sets + 1
          /\ promise = "unset" /\ s # "FAIL" =>
                \/ UNCHANGED <<promise, sets>>
                \/ /\ Cardinality(DOMAIN final_status_') = party_count_
                   /\ promise' = "SUCCESS" /\ sets' = sets + 1
      BY <2>3, UpdateEffect DEF VerdictInv
    <3>2. promise = "unset" /\ s # "FAIL" => DOMAIN final_status_' \subseteq Reported("SUCCESS")'
      BY <2>3, <3>1, <2>1 DEF VerdictInv, Status
    <3>3. FailBacked'
      BY <2>3, <3>1, <2>1 DEF VerdictInv, FailBacked, Status
    <3>4. SuccessBacked'
      <4>1. CASE promise' # "SUCCESS"
        BY <4>1 DEF SuccessBacked
      <4>2. CASE promise = "SUCCESS"
        BY <4>2, <3>1, <2>1, <2>3, SuccessStays DEF VerdictInv
      <4>3. CASE promise = "unset" /\ promise' = "SUCCESS"
        BY <4>3, <3>1, <3>2, <2>1, <2>3, SuccessReached
      <4>4. QED BY <4>1, <4>2, <4>3, <3>1 DEF VerdictInv
    <3>5. QED BY <3>1, <3>2, <3>3, <3>4 DEF VerdictInv
  <2>4. CASE \E note \in Reports : UpdateTaskStatus(note)
    <3> PICK note \in Reports : UpdateTaskStatus(note)
      BY <2>4
    <3>1. /\ note \in notes /\ note[1] \in Parties /\ note[2] \in Status
          /\ UNCHANGED <<party_count_, servers, notes>>
      BY DEF UpdateTaskStatus, Reports, rpcVars, nodeVars
    <3>2. \A s : note[2] = s => note[1] \in Reported(s)
      BY <3>1 DEF Reported
    <3>3. CASE worker
      BY <3>1, <3>2, <3>3, <2>3 DEF UpdateTaskStatus
    <3>4. CASE ~worker
      BY <3>1, <3>4 DEF UpdateTaskStatus, VerdictInv, SuccessBacked, FailBacked, Reported
    <3>5. QED BY <3>3, <3>4
  <2>5. CASE ClientKill
    BY <2>5, <2>3 DEF ClientKill, Status, rpcVars, nodeVars
  <2>6. CASE UNCHANGED <<final_status_, promise, sets>>
    <3>1. SuccessBacked'
      <4>1. CASE promise = "SUCCESS"
        BY <4>1, <2>6, <2>1, <2>2, SuccessStays DEF VerdictInv
      <4>2. CASE promise # "SUCCESS"
        BY <4>2, <2>6 DEF SuccessBacked
      <4>3. QED BY <4>1, <4>2
    <3>2. FailBacked'
      BY <2>6, <2>1 DEF VerdictInv, FailBacked
    <3>3. promise' = "unset" => DOMAIN final_status_' \subseteq Reported("SUCCESS")'
      BY <2>6, <2>1 DEF VerdictInv
    <3>4. QED BY <2>6, <3>1, <3>2, <3>3 DEF VerdictInv
  <2>7. QED BY <2>4, <2>5, <2>6, VerdictFrame
<1>3. QED BY <1>1, <1>2, CountInvHolds, PTL DEF Spec

(* task_finish_promise_ is set at most once, for any number of parties     *)
(* that report and clients that kill at the same time.                     *)
THEOREM VerdictIsSetOnce == Spec => []VerdictOnce
<1>1. VerdictInv => VerdictOnce
  BY DEF VerdictInv, VerdictOnce
<1>2. QED BY <1>1, VerdictInvHolds, PTL

(* A SUCCESS verdict rests on as many reported successes as there were     *)
(* acknowledgements, and on those of all parties if all acknowledged.      *)
THEOREM SuccessIsBacked == Spec => []SuccessBacked
<1>1. VerdictInv => SuccessBacked
  BY DEF VerdictInv
<1>2. QED BY <1>1, VerdictInvHolds, PTL

(* A FAIL verdict rests on a reported failure or on a client's kill.       *)
THEOREM FailIsBacked == Spec => []FailBacked
<1>1. VerdictInv => FailBacked
  BY DEF VerdictInv
<1>2. QED BY <1>1, VerdictInvHolds, PTL

-----------------------------------------------------------------------------
(* A verdict does not change.                                              *)
LEMMA VerdictIsStable ==
  ASSUME VerdictInv, Next, promise # "unset"
  PROVE  promise' = promise
<1>1. ASSUME NEW note \in Reports, UpdateTaskStatus(note) PROVE promise' = promise
  <2>1. note[2] \in Status
    BY DEF Reports
  <2>2. QED BY <1>1, <2>1, UpdateEffect DEF UpdateTaskStatus, VerdictInv
<1>2. CASE ClientKill
  BY <1>2, UpdateEffect DEF ClientKill, VerdictInv, Status
<1>3. QED BY <1>1, <1>2, VerdictFrame

(* The scheduler thread kills only on FAIL, and it is done with a failed   *)
(* task only when every target has been called.                            *)
KillInv ==
  /\ dispatch # "returned" => waiter = "none"
  /\ waiter \in {"none", "waiting"} => kill_called = {}
  /\ waiter = "killing" => promise = "FAIL"
  /\ waiter = "done" => promise # "unset"
  /\ waiter = "done" /\ promise = "FAIL" => kill_called = KillTargets
  /\ kill_called # {} => promise = "FAIL"

(* The scheduler thread leaves no target of the kill out.                  *)
LEMMA KillInvHolds == Spec => []KillInv
<1>1. Init => KillInv
  BY DEF Init, KillInv
<1>2. VerdictInv /\ KillInv /\ [Next]_vars => KillInv'
  <2> SUFFICES ASSUME VerdictInv, KillInv, [Next]_vars PROVE KillInv'
    OBVIOUS
  <2>0. CASE UNCHANGED vars
    BY <2>0 DEF KillInv, KillTargets, vars, workerVars
  <2> SUFFICES ASSUME Next PROVE KillInv'
    BY <2>0
  <2>1. promise # "unset" => promise' = promise
    BY VerdictIsStable
  <2>2. KillTargets' = KillTargets
    BY DEF KillTargets
  <2> USE DEF KillInv
  <2>3. CASE Dispatching
    <3>1. UNCHANGED kill_called
      BY <2>3, DispatchingFrame
    <3>2. \/ UNCHANGED waiter /\ (dispatch' = "returned" => dispatch = "returned")
          \/ dispatch = "counted" /\ waiter' = "waiting" /\ dispatch' = "returned"
      BY <2>3 DEF Dispatching, Submit, ParseFails, StartDispatch, JoinDispatch,
              SetPartyCount, StartWaiter, ExecuteTaskReturns, ExecuteTaskFails
    <3>3. UNCHANGED waiter => (dispatch' # "returned" => dispatch # "returned" \/ waiter = "none")
      BY <2>3 DEF Dispatching, Submit, ParseFails, StartDispatch, JoinDispatch,
              SetPartyCount, StartWaiter, ExecuteTaskReturns, ExecuteTaskFails
    <3>4. QED BY <3>1, <3>2, <3>3, <2>1, <2>2
  <2>4. CASE Executing
    BY <2>4, <2>1, <2>2, ExecutingFrame
  <2>5. CASE \E note \in Reports : UpdateTaskStatus(note)
    BY <2>5, <2>1, <2>2 DEF UpdateTaskStatus
  <2>6. CASE \E n \in Nodes : SendKill(n)
    BY <2>6, <2>1, <2>2 DEF SendKill, workerVars
  <2>7. CASE WaiterWakes
    BY <2>7, <2>1, <2>2 DEF WaiterWakes, workerVars
  <2>8. CASE ClientKill \/ EvictWorker
    BY <2>8, <2>1, <2>2 DEF ClientKill, EvictWorker, workerVars
  <2>9. CASE SubmitReturns \/ SubmitTimesOut \/ Poll \/ Tick
    BY <2>9, <2>1, <2>2 DEF SubmitReturns, SubmitTimesOut, Poll, Tick, workerVars
  <2>10. QED BY <2>3, <2>4, <2>5, <2>6, <2>7, <2>8, <2>9 DEF Next
<1>3. QED BY <1>1, <1>2, VerdictInvHolds, PTL DEF Spec

(* When the scheduler thread of a failed task has ended, every node that   *)
(* still runs a part of it was sent the kill; only failed tasks are killed. *)
THEOREM KillReachesEveryNode == Spec => []KillReachesAll
<1>1. KillInv => KillReachesAll
  BY DEF KillInv, KillReachesAll, KillTargets, Busy
<1>2. QED BY <1>1, KillInvHolds, PTL

-----------------------------------------------------------------------------
(* No more parties acknowledge than there are.                             *)
LEMMA CountBound ==
  ASSUME servers \subseteq Parties
  PROVE  Cardinality(servers) \in 0..Cardinality(Parties)
BY SchedulerAssumption, FS_Subset, FS_CardinalityType

(* What one report does to the types of the Worker's state.                *)
LEMMA UpdateTypes ==
  ASSUME TypeOK, NEW party \in Parties \cup {"SCHEDULER"}, NEW s \in Status,
         updateTaskStatus(party, s)
  PROVE  /\ DOMAIN final_status_' \subseteq Parties \cup {"SCHEDULER"}
         /\ \A q \in DOMAIN final_status_' : final_status_'[q] \in {"SUCCESS", "FAIL"}
         /\ promise' \in {"unset", "SUCCESS", "FAIL"} /\ sets' \in Nat
         /\ task_status_' \subseteq (Parties \cup {"SCHEDULER"}) \X Status
<1>1. final_status_' = Entered(party, s)
  BY DEF updateTaskStatus
<1>2. /\ DOMAIN final_status_' = DOMAIN final_status_ \cup {party}
      /\ \A q \in DOMAIN final_status_' : final_status_'[q] \in {"SUCCESS", "FAIL"}
  BY <1>1 DEF Entered, TypeOK, Status
<1>3. promise' \in {"unset", "SUCCESS", "FAIL"} /\ sets' \in Nat
  BY DEF updateTaskStatus, TypeOK, Status
<1>4. task_status_' \subseteq (Parties \cup {"SCHEDULER"}) \X Status
  BY DEF updateTaskStatus, TypeOK
<1>5. QED BY <1>2, <1>3, <1>4 DEF TypeOK

(* Moving one attempt on keeps the type of call.                           *)
LEMMA CallUpdate ==
  ASSUME TypeOK, NEW p \in Parties, NEW a \in Attempts,
         NEW v \in {"unsent", "sent", "handling", "server", "empty"}
  PROVE  [call EXCEPT ![p][a] = v] \in
            [Parties -> [Attempts -> {"unsent", "sent", "handling", "server", "empty"}]]
<1>1. call \in [Parties -> [Attempts -> {"unsent", "sent", "handling", "server", "empty"}]]
  BY DEF TypeOK
<1>2. [call[p] EXCEPT ![a] = v] \in
         [Attempts -> {"unsent", "sent", "handling", "server", "empty"}]
  BY <1>1
<1>3. QED BY <1>1, <1>2

(* Noting when an attempt was made keeps the type of sent.                 *)
LEMMA SentUpdate ==
  ASSUME TypeOK, NEW p \in Parties, NEW a \in Attempts
  PROVE  [sent EXCEPT ![p][a] = now] \in [Parties -> [Attempts -> Nat]]
<1>1. sent \in [Parties -> [Attempts -> Nat]] /\ now \in Nat
  BY DEF TypeOK
<1>2. [sent[p] EXCEPT ![a] = now] \in [Attempts -> Nat]
  BY <1>1
<1>3. QED BY <1>1, <1>2

(* Type correctness, for any number of parties, nodes and attempts.        *)
THEOREM TypeCorrect == Spec => []TypeOK
<1>1. Init => TypeOK
  <2>1. DOMAIN <<>> = {}
    OBVIOUS
  <2>2. Cardinality(Parties) \in Nat
    BY SchedulerAssumption, FS_CardinalityType
  <2> SUFFICES ASSUME Init PROVE TypeOK
    OBVIOUS
  <2>3. /\ tries \in [Parties -> 0..MaxTries]
        /\ rpc \in [Parties -> {"idle", "calling", "ok", "failed"}]
    BY SchedulerAssumption DEF Init
  <2>4. call \in [Parties -> [Attempts -> {"unsent", "sent", "handling", "server", "empty"}]]
    BY DEF Init
  <2>5. party_count_ \in 0..Cardinality(Parties) /\ reply_count \in 0..Cardinality(Parties)
    BY <2>2 DEF Init
  <2>6. /\ exec \in [Parties -> {"none", "launching", "running",
                                 "reported", "failing", "ok", "fail"}]
        /\ ready \in [Parties -> {"unset", "true", "false"}]
    BY DEF Init
  <2>7. /\ DOMAIN final_status_ \subseteq Parties \cup {"SCHEDULER"}
        /\ \A q \in DOMAIN final_status_ : final_status_[q] \in {"SUCCESS", "FAIL"}
    BY <2>1 DEF Init
  <2>8. now \in Nat /\ sent \in [Parties -> [Attempts -> Nat]]
    BY DEF Init
  <2>9. QED BY <2>3, <2>4, <2>5, <2>6, <2>7, <2>8 DEF Init, TypeOK
<1>2. TypeOK /\ [Next]_vars => TypeOK'
  <2> SUFFICES ASSUME TypeOK, [Next]_vars PROVE TypeOK'
    OBVIOUS
  <2> USE DEF rpcVars, nodeVars, workerVars, clientVars
  <2>1. CASE Submit \/ ParseFails \/ JoinDispatch \/ StartWaiter
    BY <2>1 DEF TypeOK, Submit, ParseFails, JoinDispatch, StartWaiter
  <2>2. CASE StartDispatch
    BY <2>2, SchedulerAssumption DEF TypeOK, StartDispatch, Attempts
  <2>3. CASE SetPartyCount
    BY <2>3, CountBound DEF TypeOK, SetPartyCount
  <2>4. ASSUME NEW p \in Parties, ExecuteTaskReturns(p) PROVE TypeOK'
    BY <2>4 DEF TypeOK, ExecuteTaskReturns
  <2>5. ASSUME NEW p \in Parties, ExecuteTaskFails(p) PROVE TypeOK'
    <3>1. /\ tries' \in [Parties -> 0..MaxTries]
          /\ rpc' \in [Parties -> {"idle", "calling", "ok", "failed"}]
          /\ call' \in [Parties -> [Attempts -> {"unsent", "sent", "handling", "server", "empty"}]]
      <4>1. CASE tries[p] < MaxTries
        <5>1. tries[p] + 1 \in Attempts /\ tries[p] + 1 \in 0..MaxTries
          BY <4>1, SchedulerAssumption DEF TypeOK, Attempts
        <5>2. /\ tries' = [tries EXCEPT ![p] = @ + 1] /\ rpc' = rpc
              /\ call' = [call EXCEPT ![p][tries[p] + 1] = "sent"]
          BY <2>5, <4>1 DEF ExecuteTaskFails
        <5>3. tries' \in [Parties -> 0..MaxTries]
          BY <5>1, <5>2 DEF TypeOK
        <5>4. call' \in [Parties -> [Attempts -> {"unsent", "sent", "handling", "server", "empty"}]]
          BY <5>1, <5>2, CallUpdate
        <5>5. QED BY <5>2, <5>3, <5>4 DEF TypeOK
      <4>2. CASE ~(tries[p] < MaxTries)
        BY <2>5, <4>2 DEF TypeOK, ExecuteTaskFails
      <4>3. QED BY <4>1, <4>2
    <3>2. sent' \in [Parties -> [Attempts -> Nat]]
      <4>1. CASE tries[p] < MaxTries
        <5>1. tries[p] + 1 \in Attempts
          BY <4>1, SchedulerAssumption DEF TypeOK, Attempts
        <5>2. sent' = [sent EXCEPT ![p][tries[p] + 1] = now]
          BY <2>5, <4>1 DEF ExecuteTaskFails
        <5>3. QED BY <5>1, <5>2, SentUpdate
      <4>2. CASE ~(tries[p] < MaxTries)
        BY <2>5, <4>2 DEF TypeOK, ExecuteTaskFails
      <4>3. QED BY <4>1, <4>2
    <3>3. QED BY <2>5, <3>1, <3>2 DEF TypeOK, ExecuteTaskFails
  <2>6. ASSUME NEW p \in Parties, NEW a \in Attempts, HandleExecute(p, a) PROVE TypeOK'
    <3>1. NodeOf[p] \in Nodes
      BY SchedulerAssumption
    <3>2. call' \in [Parties -> [Attempts -> {"unsent", "sent", "handling", "server", "empty"}]]
      <4>1. \/ call' = [call EXCEPT ![p][a] = "empty"]
            \/ call' = [call EXCEPT ![p][a] = "handling"]
        BY <2>6, Zenon DEF HandleExecute
      <4>2. CASE call' = [call EXCEPT ![p][a] = "empty"]
        BY <4>2, CallUpdate
      <4>3. CASE call' = [call EXCEPT ![p][a] = "handling"]
        BY <4>3, CallUpdate
      <4>4. QED BY <4>1, <4>2, <4>3
    <3>3. filter' \subseteq Nodes \X Nat
      BY <2>6, <3>1 DEF TypeOK, HandleExecute, Remembered
    <3>4. exec' \in [Parties -> {"none", "launching", "running",
                                 "reported", "failing", "ok", "fail"}]
      BY <2>6 DEF TypeOK, HandleExecute
    <3>5. QED BY <2>6, <3>2, <3>3, <3>4 DEF TypeOK, HandleExecute
  <2>7. ASSUME NEW p \in Parties, NEW a \in Attempts, HandlerAnswers(p, a) PROVE TypeOK'
    <3>1. call' \in [Parties -> [Attempts -> {"unsent", "sent", "handling", "server", "empty"}]]
      BY <2>7, CallUpdate DEF HandlerAnswers
    <3>2. notes' \subseteq Reports /\ delivered' \subseteq notes'
      BY <2>7 DEF TypeOK, HandlerAnswers, Notify, Reports, Status
    <3>3. QED BY <2>7, <3>1, <3>2 DEF TypeOK, HandlerAnswers
  <2>8. ASSUME NEW p \in Parties,
               ExecutorReady(p) \/ ExecutorCannotStart(p) \/ ChildReports(p) \/ ExecutorEnds(p)
        PROVE  TypeOK'
    <3>1. notes' \subseteq Reports /\ delivered' \subseteq notes'
      BY <2>8 DEF TypeOK, ExecutorReady, ExecutorCannotStart, ChildReports, ExecutorEnds,
              Notify, Reports, Status
    <3>2. /\ exec' \in [Parties -> {"none", "launching", "running",
                                    "reported", "failing", "ok", "fail"}]
          /\ ready' \in [Parties -> {"unset", "true", "false"}]
      <4>1. CASE ExecutorReady(p)
        BY <4>1 DEF TypeOK, ExecutorReady
      <4>2. CASE ExecutorCannotStart(p)
        BY <4>2 DEF TypeOK, ExecutorCannotStart
      <4>3. CASE ChildReports(p)
        BY <4>3 DEF TypeOK, ChildReports
      <4>4. CASE ExecutorEnds(p)
        BY <4>4 DEF TypeOK, ExecutorEnds
      <4>5. QED BY <2>8, <4>1, <4>2, <4>3, <4>4
    <3>3. QED BY <2>8, <3>1, <3>2 DEF TypeOK, ExecutorReady, ExecutorCannotStart,
                 ChildReports, ExecutorEnds
  <2>9. ASSUME NEW note \in Reports, UpdateTaskStatus(note) PROVE TypeOK'
    <3>1. note[1] \in Parties /\ note[2] \in Status
      BY DEF Reports
    <3>2. CASE worker
      <4>1. /\ DOMAIN final_status_' \subseteq Parties \cup {"SCHEDULER"}
            /\ \A q \in DOMAIN final_status_' : final_status_'[q] \in {"SUCCESS", "FAIL"}
            /\ promise' \in {"unset", "SUCCESS", "FAIL"} /\ sets' \in Nat
            /\ task_status_' \subseteq (Parties \cup {"SCHEDULER"}) \X Status
        BY <2>9, <3>1, <3>2, UpdateTypes DEF UpdateTaskStatus
      <4>2. QED BY <2>9, <4>1 DEF TypeOK, UpdateTaskStatus
    <3>3. CASE ~worker
      BY <2>9, <3>3 DEF TypeOK, UpdateTaskStatus
    <3>4. QED BY <3>2, <3>3
  <2>10. CASE ClientKill
    <3>1. /\ DOMAIN final_status_' \subseteq Parties \cup {"SCHEDULER"}
          /\ \A q \in DOMAIN final_status_' : final_status_'[q] \in {"SUCCESS", "FAIL"}
          /\ promise' \in {"unset", "SUCCESS", "FAIL"} /\ sets' \in Nat
          /\ task_status_' \subseteq (Parties \cup {"SCHEDULER"}) \X Status
      BY <2>10, UpdateTypes DEF ClientKill, Status
    <3>2. QED BY <2>10, <3>1 DEF TypeOK, ClientKill
  <2>11. CASE WaiterWakes \/ EvictWorker \/ SubmitTimesOut \/ Tick
    <3>1. CASE WaiterWakes
      BY <3>1 DEF TypeOK, WaiterWakes
    <3>2. CASE EvictWorker \/ SubmitTimesOut
      BY <3>2 DEF TypeOK, EvictWorker, SubmitTimesOut
    <3>3. CASE Tick
      BY <3>3 DEF TypeOK, Tick
    <3>4. QED BY <2>11, <3>1, <3>2, <3>3
  <2>12. ASSUME NEW n \in Nodes, SendKill(n) PROVE TypeOK'
    BY <2>12 DEF TypeOK, SendKill
  <2>13. CASE SubmitReturns
    <3>1. 0 \in 0..Cardinality(Parties)
      BY SchedulerAssumption, FS_CardinalityType
    <3>2. QED BY <2>13, <3>1 DEF TypeOK, SubmitReturns
  <2>14. CASE Poll
    <3>1. \A m \in task_status_ : m[1] \in Parties \cup {"SCHEDULER"}
      BY DEF TypeOK
    <3>2. seen' \subseteq Parties \cup {"SCHEDULER"} /\ task_status_' = {}
      BY <2>14, <3>1 DEF TypeOK, Poll
    <3>3. QED BY <2>14, <3>2 DEF TypeOK, Poll
  <2>15. CASE UNCHANGED vars
    BY <2>15 DEF TypeOK, vars
  <2>16. QED
    BY <2>1, <2>2, <2>3, <2>4, <2>5, <2>6, <2>7, <2>8, <2>9, <2>10, <2>11, <2>12,
       <2>13, <2>14, <2>15 DEF Next, Dispatching, Executing
<1>3. QED BY <1>1, <1>2, PTL DEF Spec

-----------------------------------------------------------------------------
(* What ExecuteTaskFails needs of the clock: the attempt that waits is not *)
(* past its deadline, every attempt was made before now, and attempt a was *)
(* made at most a - 1 deadlines after the first, which all parties made at *)
(* the same time.                                                          *)
ClockInv ==
  /\ \A p, q \in Parties : sent[p][1] = sent[q][1]
  /\ \A p \in Parties : dispatch \in {"idle", "registered"} =>
        rpc[p] = "idle" /\ \A a \in Attempts : call[p][a] = "unsent"
  /\ \A p \in Parties : rpc[p] = "calling" =>
        /\ tries[p] \in Attempts /\ call[p][tries[p]] # "unsent"
        /\ now <= sent[p][tries[p]] + Deadline
  /\ \A p \in Parties, a \in Attempts : call[p][a] # "unsent" =>
        /\ sent[p][1] <= sent[p][a] /\ sent[p][a] <= now
        /\ sent[p][a] + Deadline <= sent[p][1] + a * Deadline

(* An executor that was ever started has left its task in the filter, no   *)
(* earlier than the first attempts were made.                              *)
FilterInv ==
  \A p \in Parties : exec[p] # "none" =>
     /\ dispatch \notin {"idle", "registered"}
     /\ \E e \in filter : e[1] = NodeOf[p] /\ sent[p][1] <= e[2]

(* One more attempt is one more deadline.                                  *)
LEMMA OneMore ==
  ASSUME NEW a \in Nat, NEW d \in Nat PROVE (a + 1) * d = a * d + d /\ 1 * d = d
OBVIOUS

(* No attempt is later than the last.                                      *)
LEMMA AttemptBound ==
  ASSUME NEW a \in Attempts PROVE a * Deadline <= MaxTries * Deadline
<1>1. a \in Nat /\ MaxTries \in Nat /\ Deadline \in Nat /\ a <= MaxTries
  BY SchedulerAssumption DEF Attempts
<1>2. (MaxTries - a) \in Nat /\ (MaxTries - a) * Deadline \in Nat
  BY <1>1
<1>3. MaxTries * Deadline = a * Deadline + (MaxTries - a) * Deadline
  BY <1>1
<1>4. a * Deadline \in Nat /\ MaxTries * Deadline \in Nat
  BY <1>1
<1>5. QED BY <1>2, <1>3, <1>4

(* The clock invariant is kept by every step.                              *)
LEMMA ClockStep ==
  ASSUME TypeOK, ClockInv, [Next]_vars PROVE ClockInv'
<1> USE DEF rpcVars, nodeVars
<1>0. /\ Deadline \in Nat /\ now \in Nat /\ 1 \in Attempts
      /\ \A p \in Parties, a \in Attempts : sent[p][a] \in Nat /\ a \in Nat
  BY SchedulerAssumption DEF TypeOK, Attempts
<1>1. CASE UNCHANGED <<now, dispatch, rpc, tries, call, sent>>
  BY <1>1 DEF ClockInv
<1>2. CASE Submit \/ ParseFails \/ JoinDispatch \/ SetPartyCount \/ StartWaiter
  <2>1. UNCHANGED <<now, rpc, tries, call, sent>>
    BY <1>2 DEF Submit, ParseFails, JoinDispatch, SetPartyCount, StartWaiter
  <2>2. dispatch' \in {"idle", "registered"} => dispatch \in {"idle", "registered"}
    BY <1>2 DEF Submit, ParseFails, JoinDispatch, SetPartyCount, StartWaiter
  <2>3. QED BY <2>1, <2>2 DEF ClockInv
<1>3. CASE StartDispatch
  <2>1. /\ dispatch = "registered" /\ dispatch' = "sending" /\ now' = now
        /\ tries' = [p \in Parties |-> 1] /\ rpc' = [p \in Parties |-> "calling"]
        /\ call' = [p \in Parties |-> [call[p] EXCEPT ![1] = "sent"]]
        /\ sent' = [p \in Parties |-> [sent[p] EXCEPT ![1] = now]]
    BY <1>3 DEF StartDispatch
  <2>2. \A p \in Parties, a \in Attempts : call[p][a] = "unsent"
    BY <2>1 DEF ClockInv
  <2>3. \A p \in Parties, a \in Attempts :
           /\ call'[p][a] = (IF a = 1 THEN "sent" ELSE "unsent")
           /\ sent'[p][a] = (IF a = 1 THEN now ELSE sent[p][a])
    BY <2>1, <2>2 DEF TypeOK
  <2>4. \A p \in Parties : tries'[p] = 1
    BY <2>1
  <2>5. 1 * Deadline = Deadline
    BY <1>0
  <2>6. QED BY <2>1, <2>3, <2>4, <2>5, <1>0 DEF ClockInv
<1>4. ASSUME NEW p \in Parties, ExecuteTaskReturns(p) PROVE ClockInv'
  <2>1. UNCHANGED <<now, dispatch, tries, call, sent>> /\ rpc' = [rpc EXCEPT ![p] = "ok"]
    BY <1>4 DEF ExecuteTaskReturns
  <2>2. \A q \in Parties : rpc'[q] = (IF q = p THEN "ok" ELSE rpc[q])
    BY <2>1 DEF TypeOK
  <2>3. dispatch \notin {"idle", "registered"}
    BY <1>4 DEF ExecuteTaskReturns, ClockInv
  <2>4. QED BY <2>1, <2>2, <2>3 DEF ClockInv
<1>5. ASSUME NEW p \in Parties, ExecuteTaskFails(p) PROVE ClockInv'
  <2>0. dispatch \notin {"idle", "registered"} /\ UNCHANGED <<now, dispatch>>
    BY <1>5 DEF ExecuteTaskFails, ClockInv
  <2>1. CASE tries[p] < MaxTries
    <3> DEFINE n == tries[p] + 1
    <3>1. /\ tries' = [tries EXCEPT ![p] = n] /\ rpc' = rpc /\ rpc[p] = "calling"
          /\ call' = [call EXCEPT ![p][n] = "sent"] /\ sent' = [sent EXCEPT ![p][n] = now]
      BY <1>5, <2>1 DEF ExecuteTaskFails
    <3>2. tries[p] \in Attempts /\ n \in Attempts /\ n # 1
      BY <3>1, <2>1, SchedulerAssumption DEF ClockInv, Attempts
    <3> HIDE DEF n
    <3>3. \A q \in Parties, a \in Attempts :
             /\ call'[q][a] = (IF q = p /\ a = n THEN "sent" ELSE call[q][a])
             /\ sent'[q][a] = (IF q = p /\ a = n THEN now ELSE sent[q][a])
      BY <3>1, <3>2 DEF TypeOK
    <3>4. \A q \in Parties : tries'[q] = (IF q = p THEN n ELSE tries[q])
      BY <3>1 DEF TypeOK
    <3>5. /\ sent[p][1] <= now /\ now <= sent[p][tries[p]] + Deadline
          /\ sent[p][tries[p]] + Deadline <= sent[p][1] + tries[p] * Deadline
      <4>1. now <= sent[p][tries[p]] + Deadline /\ call[p][tries[p]] # "unsent"
        BY <3>1 DEF ClockInv
      <4>2. QED BY <3>2, <4>1, <1>0 DEF ClockInv
    <3>6. n * Deadline = tries[p] * Deadline + Deadline
      BY <3>2, <1>0, OneMore DEF n
    <3>7. now + Deadline <= sent[p][1] + n * Deadline
      <4>1. tries[p] * Deadline \in Nat
        BY <3>2, <1>0
      <4>2. QED BY <4>1, <3>2, <3>5, <3>6, <1>0
    <3>8. QED BY <2>0, <3>1, <3>2, <3>3, <3>4, <3>5, <3>7, <1>0 DEF ClockInv
  <2>2. CASE ~(tries[p] < MaxTries)
    <3>1. UNCHANGED <<tries, call, sent>> /\ rpc' = [rpc EXCEPT ![p] = "failed"]
      BY <1>5, <2>2 DEF ExecuteTaskFails
    <3>2. \A q \in Parties : rpc'[q] = (IF q = p THEN "failed" ELSE rpc[q])
      BY <3>1 DEF TypeOK
    <3>3. QED BY <2>0, <3>1, <3>2 DEF ClockInv
  <2>3. QED BY <2>1, <2>2
<1>6. CASE Executing
  <2>1. UNCHANGED <<now, dispatch, rpc, tries, sent>>
    BY <1>6, ExecutingFrame
  <2>2. \A p \in Parties, a \in Attempts : call'[p][a] = "unsent" <=> call[p][a] = "unsent"
    <3>1. ASSUME NEW p \in Parties, NEW a \in Attempts, HandleExecute(p, a) \/ HandlerAnswers(p, a)
          PROVE  /\ call[p][a] # "unsent"
                 /\ \E v : v # "unsent" /\ call' = [call EXCEPT ![p][a] = v]
      BY <3>1 DEF HandleExecute, Handleable, HandlerAnswers
    <3>2. ASSUME NEW p \in Parties,
                 ExecutorReady(p) \/ ExecutorCannotStart(p) \/ ChildReports(p) \/ ExecutorEnds(p)
          PROVE  UNCHANGED call
      BY <3>2 DEF ExecutorReady, ExecutorCannotStart, ChildReports, ExecutorEnds
    <3>3. ASSUME NEW p \in Parties, NEW a \in Attempts, call[p][a] # "unsent",
                 NEW v, v # "unsent", call' = [call EXCEPT ![p][a] = v]
          PROVE  \A q \in Parties, b \in Attempts :
                    call'[q][b] = "unsent" <=> call[q][b] = "unsent"
      BY <3>3 DEF TypeOK
    <3>4. ASSUME NEW p \in Parties, NEW a \in Attempts, HandleExecute(p, a) \/ HandlerAnswers(p, a)
          PROVE  \A q \in Parties, b \in Attempts :
                    call'[q][b] = "unsent" <=> call[q][b] = "unsent"
      <4>1. PICK v : v # "unsent" /\ call' = [call EXCEPT ![p][a] = v]
        BY <3>4, <3>1
      <4>2. call[p][a] # "unsent"
        BY <3>4, <3>1
      <4>3. QED BY <4>1, <4>2, <3>3
    <3>5. CASE UNCHANGED call
      BY <3>5
    <3>6. QED BY <1>6, <3>2, <3>4, <3>5 DEF Executing
  <2>3. QED BY <2>1, <2>2 DEF ClockInv
<1>7. CASE Tick
  <2>1. /\ UNCHANGED <<dispatch, rpc, tries, call, sent>> /\ now' = now + 1
        /\ \A p \in Parties : rpc[p] = "calling" => now < sent[p][tries[p]] + Deadline
    BY <1>7 DEF Tick
  <2>2. QED BY <2>1, <1>0 DEF ClockInv
<1>8. CASE \E note \in Reports : UpdateTaskStatus(note)
  BY <1>8, <1>1 DEF UpdateTaskStatus
<1>9. CASE \E n \in Nodes : SendKill(n)
  BY <1>9, <1>1 DEF SendKill
<1>10. CASE ClientKill \/ WaiterWakes \/ EvictWorker
  BY <1>10, <1>1 DEF ClientKill, WaiterWakes, EvictWorker
<1>11. CASE SubmitReturns \/ SubmitTimesOut \/ Poll
  BY <1>11, <1>1 DEF SubmitReturns, SubmitTimesOut, Poll
<1>12. CASE UNCHANGED vars
  BY <1>12, <1>1 DEF vars
<1>13. QED BY <1>2, <1>3, <1>4, <1>5, <1>6, <1>7, <1>8, <1>9, <1>10, <1>11, <1>12
           DEF Next, Dispatching

(* The time of the first attempts does not change once an executor runs.   *)
LEMMA StartStays ==
  ASSUME TypeOK, ClockInv, [Next]_vars, NEW p \in Parties, dispatch # "registered"
  PROVE  sent'[p][1] = sent[p][1]
<1> USE DEF rpcVars
<1>1. CASE Submit \/ ParseFails \/ JoinDispatch \/ SetPartyCount \/ StartWaiter
  BY <1>1 DEF Submit, ParseFails, JoinDispatch, SetPartyCount, StartWaiter
<1>2. CASE StartDispatch
  BY <1>2 DEF StartDispatch
<1>3. ASSUME NEW q \in Parties, ExecuteTaskReturns(q) PROVE sent'[p][1] = sent[p][1]
  BY <1>3 DEF ExecuteTaskReturns
<1>4. ASSUME NEW q \in Parties, ExecuteTaskFails(q) PROVE sent'[p][1] = sent[p][1]
  <2>1. tries[q] \in Nat /\ tries[q] >= 1
    BY <1>4 DEF ExecuteTaskFails, ClockInv, Attempts
  <2>2. sent' = sent \/ sent' = [sent EXCEPT ![q][tries[q] + 1] = now]
    BY <1>4 DEF ExecuteTaskFails
  <2>3. tries[q] + 1 # 1
    BY <2>1
  <2>4. CASE sent' = [sent EXCEPT ![q][tries[q] + 1] = now]
    <3> DEFINE n == tries[q] + 1
    <3>1. sent' = [sent EXCEPT ![q][n] = now] /\ n # 1
      BY <2>4, <2>3
    <3> HIDE DEF n
    <3>2. QED BY <3>1 DEF TypeOK
  <2>5. QED BY <2>2, <2>4
<1>5. CASE Executing
  BY <1>5, ExecutingFrame
<1>6. CASE \E note \in Reports : UpdateTaskStatus(note)
  BY <1>6 DEF UpdateTaskStatus
<1>7. CASE \E n \in Nodes : SendKill(n)
  BY <1>7 DEF SendKill
<1>8. CASE ClientKill \/ WaiterWakes \/ EvictWorker
  BY <1>8 DEF ClientKill, WaiterWakes, EvictWorker
<1>9. CASE SubmitReturns \/ SubmitTimesOut \/ Poll \/ Tick
  BY <1>9 DEF SubmitReturns, SubmitTimesOut, Poll, Tick
<1>10. CASE UNCHANGED vars
  BY <1>10 DEF vars
<1>11. QED BY <1>1, <1>2, <1>3, <1>4, <1>5, <1>6, <1>7, <1>8, <1>9, <1>10
           DEF Next, Dispatching

(* A step that leaves executors and filters alone keeps FilterInv.         *)
LEMMA FilterKept ==
  ASSUME TypeOK, ClockInv, FilterInv, [Next]_vars, UNCHANGED filter,
         \A p \in Parties : exec'[p] # "none" => exec[p] # "none"
  PROVE  FilterInv'
<1> SUFFICES ASSUME NEW p \in Parties, exec'[p] # "none"
             PROVE  /\ dispatch' \notin {"idle", "registered"}
                    /\ \E e \in filter' : e[1] = NodeOf[p] /\ sent'[p][1] <= e[2]
  BY DEF FilterInv
<1>1. dispatch \notin {"idle", "registered"}
  BY DEF FilterInv
<1>2. dispatch' \notin {"idle", "registered"}
  <2>1. CASE Dispatching
    BY <1>1, <2>1 DEF Dispatching, Submit, ParseFails, StartDispatch, JoinDispatch,
            SetPartyCount, StartWaiter, ExecuteTaskReturns, ExecuteTaskFails
  <2>2. CASE Executing
    BY <1>1, <2>2, ExecutingFrame
  <2>3. CASE \E note \in Reports : UpdateTaskStatus(note)
    BY <1>1, <2>3 DEF UpdateTaskStatus
  <2>4. CASE \E n \in Nodes : SendKill(n)
    BY <1>1, <2>4 DEF SendKill
  <2>5. CASE ClientKill \/ WaiterWakes \/ EvictWorker
    BY <1>1, <2>5 DEF ClientKill, WaiterWakes, EvictWorker
  <2>6. CASE SubmitReturns \/ SubmitTimesOut \/ Poll \/ Tick
    BY <1>1, <2>6 DEF SubmitReturns, SubmitTimesOut, Poll, Tick
  <2>7. CASE UNCHANGED vars
    BY <1>1, <2>7 DEF vars
  <2>8. QED BY <2>1, <2>2, <2>3, <2>4, <2>5, <2>6, <2>7 DEF Next
<1>3. sent'[p][1] = sent[p][1]
  BY <1>1, StartStays
<1>4. QED BY <1>2, <1>3 DEF FilterInv

(* When an attempt is handled the filter still holds every task that was   *)
(* started: the attempts end before the oldest entry is forgotten.         *)
LEMMA StillRemembered ==
  ASSUME TypeOK, ClockInv, FilterInv, NEW p \in Parties, NEW a \in Attempts,
         HandleExecute(p, a), NEW q \in Parties, exec[q] # "none"
  PROVE  \E e \in Remembered(NodeOf[p]) : e[1] = NodeOf[q] /\ sent[q][1] <= e[2]
<1>1. PICK e \in filter : e[1] = NodeOf[q] /\ sent[q][1] <= e[2]
  BY DEF FilterInv
<1>2. /\ Deadline \in Nat /\ now \in Nat /\ Late \in Nat /\ Timeout \in Nat /\ 1 \in Attempts
      /\ sent[p][a] \in Nat /\ sent[p][1] \in Nat /\ e[2] \in Nat
      /\ a * Deadline \in Nat /\ MaxTries * Deadline \in Nat
  <2>1. /\ Deadline \in Nat /\ Late \in Nat /\ Timeout \in Nat /\ 1 \in Attempts
        /\ a \in Nat /\ MaxTries \in Nat
    BY SchedulerAssumption DEF Attempts
  <2>2. now \in Nat /\ sent[p][a] \in Nat /\ sent[p][1] \in Nat
    BY <2>1 DEF TypeOK
  <2>3. e \in Nodes \X Nat
    BY <1>1 DEF TypeOK
  <2>4. e[2] \in Nat
    BY <2>3
  <2>5. a * Deadline \in Nat /\ MaxTries * Deadline \in Nat
    BY <2>1
  <2>6. QED BY <2>1, <2>2, <2>4, <2>5
<1>3. now <= sent[p][a] + Deadline + Late /\ call[p][a] # "unsent"
  BY DEF HandleExecute, Handleable
<1>4. sent[p][a] + Deadline <= sent[p][1] + a * Deadline /\ sent[p][1] = sent[q][1]
  BY <1>3 DEF ClockInv
<1>5. a * Deadline <= MaxTries * Deadline
  BY AttemptBound
<1>6. now <= e[2] + Timeout
  BY <1>1, <1>2, <1>3, <1>4, <1>5, FilterOutlivesRetries
<1>7. QED BY <1>1, <1>6 DEF Remembered

(* What a step does to the executors.                                      *)
LEMMA ExecutorStep ==
  ASSUME TypeOK, ClockInv, FilterInv, [Next]_vars
  PROVE  /\ FilterInv'
         /\ \A p \in Parties : exec[p] # "none" /\ exec'[p] # exec[p]
                                  => exec'[p] \notin {"none", "launching"}
<1>1. CASE UNCHANGED <<exec, filter>>
  BY <1>1, FilterKept
<1>2. ASSUME NEW p \in Parties, NEW a \in Attempts, HandleExecute(p, a)
      PROVE  /\ FilterInv'
             /\ \A q \in Parties : exec[q] # "none" /\ exec'[q] # exec[q]
                                  => exec'[q] \notin {"none", "launching"}
  <2> DEFINE old == Remembered(NodeOf[p])
  <2>1. \A q \in Parties : exec[q] # "none" =>
           \E e \in old : e[1] = NodeOf[q] /\ sent[q][1] <= e[2]
    BY <1>2, StillRemembered
  <2>2. UNCHANGED <<dispatch, sent>> /\ call[p][a] # "unsent"
    BY <1>2 DEF HandleExecute, Handleable
  <2>3. dispatch \notin {"idle", "registered"} /\ sent[p][1] <= now
    <3>1. dispatch \notin {"idle", "registered"}
      BY <2>2 DEF ClockInv
    <3>2. sent[p][1] \in Nat /\ sent[p][a] \in Nat /\ now \in Nat
      BY SchedulerAssumption DEF TypeOK, Attempts
    <3>3. sent[p][1] <= sent[p][a] /\ sent[p][a] <= now
      BY <2>2 DEF ClockInv
    <3>4. QED BY <3>1, <3>2, <3>3
  <2>4. CASE \E e \in old : e[1] = NodeOf[p]
    <3>1. filter' = old /\ exec' = exec
      BY <1>2, <2>4 DEF HandleExecute
    <3>2. QED BY <2>1, <2>2, <2>3, <3>1 DEF FilterInv
  <2>5. CASE ~ \E e \in old : e[1] = NodeOf[p]
    <3>1. filter' = old \cup {<<NodeOf[p], now>>} /\ exec' = [exec EXCEPT ![p] = "launching"]
      BY <1>2, <2>5 DEF HandleExecute
    <3> HIDE DEF old
    <3>2. exec[p] = "none"
      BY <2>1, <2>5
    <3>3. \A q \in Parties : q # p => exec'[q] = exec[q]
      BY <3>1 DEF TypeOK
    <3>4. ASSUME NEW q \in Parties, exec'[q] # "none"
          PROVE  \E e \in filter' : e[1] = NodeOf[q] /\ sent'[q][1] <= e[2]
      <4>1. CASE q = p
        <5>1. <<NodeOf[p], now>> \in filter' /\ sent'[q][1] <= now
          BY <4>1, <2>2, <2>3, <3>1
        <5>2. QED BY <5>1, <4>1
      <4>2. CASE q # p
        BY <4>2, <3>4, <2>1, <2>2, <3>1, <3>3
      <4>3. QED BY <4>1, <4>2
    <3>5. QED BY <2>2, <2>3, <3>2, <3>3, <3>4 DEF FilterInv
  <2>6. QED BY <2>4, <2>5
<1>3. ASSUME NEW p \in Parties,
             \/ ExecutorReady(p) \/ ExecutorCannotStart(p) \/ ChildReports(p) \/ ExecutorEnds(p)
      PROVE  /\ FilterInv'
             /\ \A q \in Parties : exec[q] # "none" /\ exec'[q] # exec[q]
                                  => exec'[q] \notin {"none", "launching"}
  <2>1. \E e : /\ e \notin {"none", "launching"} /\ exec' = [exec EXCEPT ![p] = e]
               /\ exec[p] # "none"
    BY <1>3 DEF ExecutorReady, ExecutorCannotStart, ChildReports, ExecutorEnds
  <2>2. UNCHANGED filter
    BY <1>3 DEF ExecutorReady, ExecutorCannotStart, ChildReports, ExecutorEnds
  <2>3. \A q \in Parties : /\ exec'[q] # "none" => exec[q] # "none"
                           /\ exec[q] # "none" /\ exec'[q] # exec[q]
                                  => exec'[q] \notin {"none", "launching"}
    BY <2>1 DEF TypeOK
  <2>4. QED BY <2>2, <2>3, FilterKept
<1>4. CASE Dispatching
  BY <1>4, <1>1, DispatchingFrame DEF nodeVars
<1>5. CASE Executing
  <2>1. ASSUME NEW p \in Parties, NEW a \in Attempts, HandlerAnswers(p, a)
        PROVE  UNCHANGED <<exec, filter>>
    BY <2>1 DEF HandlerAnswers
  <2>2. QED BY <1>5, <1>1, <1>2, <1>3, <2>1 DEF Executing
<1>6. CASE \E note \in Reports : UpdateTaskStatus(note)
  BY <1>6, <1>1 DEF UpdateTaskStatus, nodeVars
<1>7. CASE \E n \in Nodes : SendKill(n)
  BY <1>7, <1>1 DEF SendKill, nodeVars
<1>8. CASE ClientKill \/ WaiterWakes \/ EvictWorker
  BY <1>8, <1>1 DEF ClientKill, WaiterWakes, EvictWorker, nodeVars
<1>9. CASE SubmitReturns \/ SubmitTimesOut \/ Poll \/ Tick
  BY <1>9, <1>1 DEF SubmitReturns, SubmitTimesOut, Poll, Tick, nodeVars
<1>10. CASE UNCHANGED vars
  BY <1>10, <1>1 DEF vars, nodeVars
<1>11. QED BY <1>4, <1>5, <1>6, <1>7, <1>8, <1>9, <1>10 DEF Next

(* A retried ExecuteTask never runs a party's part again, for any number   *)
(* of attempts whose deadlines, with the lateness of the last, end before  *)
(* the filter forgets: no step takes an executor back to its start.        *)
THEOREM RetryIsFiltered == Spec => RetryNeverReruns
<1>1. Init => ClockInv /\ FilterInv
  <2> SUFFICES ASSUME Init PROVE ClockInv /\ FilterInv
    OBVIOUS
  <2>1. \A p \in Parties, a \in Attempts : sent[p][a] = 0 /\ call[p][a] = "unsent"
    BY DEF Init
  <2>2. 1 \in Attempts
    BY SchedulerAssumption DEF Attempts
  <2>3. QED BY <2>1, <2>2 DEF Init, ClockInv, FilterInv
<1>2. TypeOK /\ ClockInv /\ [Next]_vars => ClockInv'
  BY ClockStep
<1>3. TypeOK /\ ClockInv /\ FilterInv /\ [Next]_vars => FilterInv'
  BY ExecutorStep
<1>4. TypeOK /\ ClockInv /\ FilterInv /\ [Next]_vars =>
        [\A p \in Parties : exec[p] # "none" /\ exec'[p] # exec[p]
                                  => exec'[p] \notin {"none", "launching"}]_vars
  BY ExecutorStep
<1>5. QED BY <1>1, <1>2, <1>3, <1>4, TypeCorrect, PTL DEF Spec, RetryNeverReruns
=============================================================================
