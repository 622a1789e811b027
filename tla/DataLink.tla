------------------------------ MODULE DataLink ------------------------------
(***************************************************************************)
(* One direction of the data exchange between two parties of a task, under *)
(* one key.  A peer's task process calls LinkContext::Send block by block  *)
(* and then CheckSendCompleteStatus; the receiving task process fetches    *)
(* the blocks from its own node with LinkContext::Recv (ForwardRecv).  In  *)
(* between is the receiver's node: the handlers Send, ForwardRecv and      *)
(* CompleteStatus (node/node_interface.cc, Process...Data of               *)
(* node/node_impl.cc) and the queues of the task's LinkContext.            *)
(*                                                                         *)
(* All handlers start alike: IsFinishedTask, WaitUntilWorkerReady (5 s),   *)
(* GetWorker.  Meanwhile the worker is added to task_executor_map_, taken  *)
(* out of it, and its LinkContext cleaned by a kill.                       *)
(*                                                                         *)
(* A call may break at any time.  Its handler does not notice: it goes on  *)
(* with what it has read of the stream, beside the handler of the retry.   *)
(***************************************************************************)
EXTENDS Naturals, Sequences, FiniteSets

CONSTANTS NumBlocks,   \* blocks the peer sends
          Large,       \* blocks that need more than one package
          MaxTries,    \* retry_max_times_ of GrpcChannel
          MaxBreaks,   \* bound: calls that break or expire
          Late         \* may a worker come later than the handlers wait?

ASSUME LinkAssumption ==
    /\ NumBlocks \in Nat \ {0} /\ MaxTries \in Nat \ {0} /\ MaxBreaks \in Nat
    /\ Large \subseteq 1..NumBlocks /\ Late \in BOOLEAN

VARIABLES
  worker,          \* in task_executor_map_: not yet, now, or no more
  finished,        \* is the task in finished_task_status_?
  stop_,           \* how far LinkContext::Clean has come
  in_data_queue,   \* copies of blocks
  complete_queue,  \* number of completion marks
  complete_made,   \* "none", or the queue exists and is "open" or "shut"
  handler,         \* how far each handler has come
  cut,             \* Send handlers whose stream ended early
  count,           \* complete_count of each CompleteStatus handler
  sender,          \* the peer's task: at, block, try
  recv,            \* the receiving task
  reply,           \* what its ForwardRecv handler popped
  stored, got,     \* history: everything queued, everything received
  breaks

queueVars == <<in_data_queue, complete_queue, complete_made, stored>>
nodeVars  == <<worker, finished, stop_>>
taskVars  == <<sender, recv, got, breaks>>
vars == <<nodeVars, queueVars, handler, cut, count, reply, taskVars>>

Blocks == 1..NumBlocks
Tries  == 1..MaxTries

(* The handlers: one for each attempt of each call.                        *)
Sends    == {"Send"} \X Blocks \X Tries
Checks   == {"CompleteStatus"} \X {0} \X Tries
Fetch    == <<"ForwardRecv", 0, 0>>
Handlers == Sends \cup Checks \cup {Fetch}

Copy(h) == [block |-> h[2], whole |-> h \notin cut]
Empty   == [block |-> 0, whole |-> FALSE]

Init ==
  /\ worker = "absent" /\ finished = FALSE /\ stop_ = "no"
  /\ in_data_queue = <<>> /\ complete_queue = 0 /\ complete_made = "none"
  /\ handler = [h \in Handlers |-> "none"] /\ cut = {} /\ count = [h \in Checks |-> 0]
  /\ sender = [at |-> "idle", block |-> 0, try |-> 0]
  /\ recv = "idle" /\ reply = Empty
  /\ stored = <<>> /\ got = <<>> /\ breaks = 0

Move(h, to) == handler' = [handler EXCEPT ![h] = to]

-----------------------------------------------------------------------------
(* The peer's task process                                                 *)

(* LinkContext::Send of the next block: GrpcChannel::send opens a stream.  *)
SendBegins ==
  /\ sender.at = "idle" /\ sender.block < NumBlocks
  /\ sender' = [at |-> "sending", block |-> sender.block + 1, try |-> 1]
  /\ Move(<<"Send", sender.block + 1, 1>>, "sent")
  /\ UNCHANGED <<nodeVars, queueVars, cut, count, reply, recv, got, breaks>>

(* CheckSendCompleteStatus, once all blocks are sent.                      *)
CheckBegins ==
  /\ sender.at = "idle" /\ sender.block = NumBlocks
  /\ sender' = [sender EXCEPT !.at = "checking", !.try = 1]
  /\ Move(<<"CompleteStatus", 0, 1>>, "sent")
  /\ UNCHANGED <<nodeVars, queueVars, cut, count, reply, recv, got, breaks>>

(* The handler the sender waits for.                                       *)
Current == IF sender.at = "sending" THEN <<"Send", sender.block, sender.try>>
           ELSE <<"CompleteStatus", 0, sender.try>>

(* Mutant of CallAnswered: the answer does not wait for the handler.       *)
CallAnsweredEarly ==
  /\ sender.at \in {"sending", "checking"}
  /\ handler[Current] \in {"waiting", "done", "refused"}
  /\ sender' = [sender EXCEPT !.at = IF @ = "sending" THEN "idle" ELSE "done"]
  /\ UNCHANGED <<nodeVars, queueVars, handler, cut, count, reply, recv, got, breaks>>

(* The handler is through.  Both handlers answer the same whatever         *)
(* happened: Send sets ret_code to SUCCESS last, CompleteStatus drops its  *)
(* result.                                                                 *)
CallAnswered ==
  /\ sender.at \in {"sending", "checking"} /\ handler[Current] \in {"done", "refused"}
  /\ sender' = [sender EXCEPT !.at = IF @ = "sending" THEN "idle" ELSE "done"]
  /\ UNCHANGED <<nodeVars, queueVars, handler, cut, count, reply, recv, got, breaks>>

(* The next attempt of the same call, or none.                             *)
Retry == IF sender.try < MaxTries
         THEN /\ sender' = [sender EXCEPT !.try = @ + 1]
              /\ Move([Current EXCEPT ![3] = @ + 1], "sent")
         ELSE sender' = [sender EXCEPT !.at = "failed"] /\ UNCHANGED handler

(* The stream breaks; Send has no deadline.                                *)
SendBreaks ==
  /\ sender.at = "sending" /\ breaks < MaxBreaks
  /\ breaks' = breaks + 1
  /\ Retry
  /\ UNCHANGED <<nodeVars, queueVars, cut, count, reply, recv, got>>

(* CompleteStatus has one, of CONTROL_CMD_TIMEOUT_S.                       *)
CheckExpires ==
  /\ sender.at = "checking" /\ breaks < MaxBreaks
  /\ breaks' = breaks + 1
  /\ Retry
  /\ UNCHANGED <<nodeVars, queueVars, cut, count, reply, recv, got>>

-----------------------------------------------------------------------------
(* The receiver's node                                                     *)

(* The handler has read its request.  reader->Read also returns false when *)
(* the stream breaks, and nobody compares the length with data_len: the    *)
(* packages that have come in are the block.                               *)
HandlerReads(h) ==
  /\ handler[h] = "sent"
  /\ Move(h, IF finished THEN "refused" ELSE "waiting")
  /\ \/ UNCHANGED cut
     \/ /\ h \in Sends /\ h[2] \in Large
        /\ ~(sender.at = "sending" /\ Current = h)
        /\ cut' = cut \cup {h}
  /\ UNCHANGED <<nodeVars, queueVars, count, reply, taskVars>>

(* WaitUntilWorkerReady                                                    *)
WorkerIsReady(h) ==
  /\ handler[h] = "waiting" /\ worker = "present"
  /\ Move(h, "found")
  /\ UNCHANGED <<nodeVars, queueVars, cut, count, reply, taskVars>>

(* Mutant of WaitTimesOut: timeout_ms is -1.                               *)
WaitForEver(h) == /\ handler[h] = "waiting" /\ worker = "removed" /\ stop_ = "done"
                  /\ Move(h, "refused")
                  /\ UNCHANGED <<nodeVars, queueVars, cut, count, reply, taskVars>>

WaitTimesOut(h) ==
  /\ handler[h] = "waiting" /\ (worker = "removed" \/ (worker = "absent" /\ Late))
  /\ Move(h, "refused")
  /\ UNCHANGED <<nodeVars, queueVars, cut, count, reply, taskVars>>

(* GetWorker looks again and may find nothing.  What it finds stays alive  *)
(* as long as the handler holds it.                                        *)
GetWorker(h) ==
  /\ handler[h] = "found"
  /\ Move(h, IF worker = "present" THEN "holding" ELSE "refused")
  /\ UNCHANGED <<nodeVars, queueVars, cut, count, reply, taskVars>>

(* Mutant of ProcessReceivedData: the block goes to two queues.            *)
StoreTwice(h) ==
  /\ h \in Sends /\ handler[h] = "holding"
  /\ in_data_queue' = in_data_queue \o <<Copy(h), Copy(h)>>
  /\ stored' = stored \o <<Copy(h), Copy(h)>>
  /\ Move(h, "done")
  /\ UNCHANGED <<nodeVars, complete_queue, complete_made, cut, count, reply, taskVars>>

(* Send: recv_queue.push.                                                  *)
ProcessReceivedData(h) ==
  /\ h \in Sends /\ handler[h] = "holding"
  /\ in_data_queue' = Append(in_data_queue, Copy(h)) /\ stored' = Append(stored, Copy(h))
  /\ Move(h, "done")
  /\ UNCHANGED <<nodeVars, complete_queue, complete_made, cut, count, reply, taskVars>>

Mark == /\ complete_queue' = complete_queue + 1
        /\ complete_made' = IF complete_made = "none" THEN "open" ELSE complete_made

(* Mutant of ProcessForwardData: the newest block first.                   *)
ForwardNewest ==
  /\ handler[Fetch] = "holding" /\ Mark
  /\ stop_ \in {"no", "moved"} /\ in_data_queue # <<>>
  /\ reply' = in_data_queue[Len(in_data_queue)]
  /\ in_data_queue' = SubSeq(in_data_queue, 1, Len(in_data_queue) - 1)
  /\ Move(Fetch, "done")
  /\ UNCHANGED <<nodeVars, stored, cut, count, taskVars>>

(* Mutant of ProcessForwardData: the mark is set before the block is there. *)
ForwardMarksFirst ==
  /\ handler[Fetch] \in {"holding", "marked"} /\ stop_ \in {"no", "moved"}
  /\ IF handler[Fetch] = "holding"
     THEN Mark /\ Move(Fetch, "marked") /\ UNCHANGED <<in_data_queue, reply>>
     ELSE /\ in_data_queue # <<>> /\ reply' = Head(in_data_queue)
          /\ in_data_queue' = Tail(in_data_queue) /\ Move(Fetch, "done")
          /\ UNCHANGED <<complete_queue, complete_made>>
  /\ UNCHANGED <<nodeVars, stored, cut, count, taskVars>>

(* ForwardRecv: wait_and_pop, which comes back empty-handed from a queue   *)
(* that is shut down, and in both cases a completion mark.                 *)
ProcessForwardData ==
  /\ handler[Fetch] = "holding"
  /\ Mark
  /\ IF stop_ \in {"no", "moved"}
     THEN /\ in_data_queue # <<>> /\ reply' = Head(in_data_queue)
          /\ in_data_queue' = Tail(in_data_queue)
     ELSE reply' = Empty /\ UNCHANGED in_data_queue
  /\ Move(Fetch, "done")
  /\ UNCHANGED <<nodeVars, stored, cut, count, taskVars>>

(* CompleteStatus: GetCompleteQueue makes the queue if need be, then as    *)
(* many marks are taken as are expected.                                   *)
CheckOpens(h) ==
  /\ h \in Checks /\ handler[h] = "holding"
  /\ complete_made' = IF complete_made = "none" THEN "open" ELSE complete_made
  /\ Move(h, "counting")
  /\ UNCHANGED <<nodeVars, in_data_queue, complete_queue, stored, cut, count, reply, taskVars>>

ProcessCompleteStatus(h) ==
  /\ h \in Checks /\ handler[h] = "counting"
  /\ IF count[h] = NumBlocks
     THEN Move(h, "done") /\ UNCHANGED <<count, complete_queue>>
     ELSE /\ count' = [count EXCEPT ![h] = @ + 1]
          /\ IF complete_made = "shut" THEN UNCHANGED complete_queue
             ELSE complete_queue > 0 /\ complete_queue' = complete_queue - 1
          /\ UNCHANGED handler
  /\ UNCHANGED <<nodeVars, in_data_queue, complete_made, stored, cut, reply, taskVars>>

-----------------------------------------------------------------------------
(* The worker's life                                                       *)

WorkerAdded == /\ worker = "absent" /\ worker' = "present"
               /\ UNCHANGED <<finished, stop_, queueVars, handler, cut, count, reply, taskVars>>

(* The receiving task ends, well or badly, and its status is cached.       *)
TaskEnds == /\ recv # "ended" /\ recv' = "ended" /\ finished' = TRUE
            /\ UNCHANGED <<worker, stop_, queueVars, handler, cut, count, reply,
                           sender, got, breaks>>

StatusTimesOut == /\ finished /\ finished' = FALSE
                  /\ UNCHANGED <<worker, stop_, queueVars, handler, cut, count, reply, taskVars>>

(* kDel, after the end, or kKill, any time, which moves the worker to the  *)
(* killing thread.                                                         *)
WorkerRemoved ==
  /\ worker = "present" /\ worker' = "removed"
  /\ stop_' \in IF recv = "ended" THEN {"no", "moved"} ELSE {"moved"}
  /\ UNCHANGED <<finished, queueVars, handler, cut, count, reply, taskVars>>

(* LinkContext::Clean: stop_ is stored and the incoming queues are shut    *)
(* down, one made later included; then the completion queues there are.    *)
Clean ==
  \/ /\ stop_ = "moved" /\ stop_' = "in"
     /\ UNCHANGED <<worker, finished, queueVars, handler, cut, count, reply, taskVars>>
  \/ /\ stop_ = "in" /\ stop_' = "done"
     /\ complete_made' = IF complete_made = "none" THEN "none" ELSE "shut"
     /\ UNCHANGED <<worker, finished, in_data_queue, complete_queue, stored, handler,
                    cut, count, reply, taskVars>>

-----------------------------------------------------------------------------
(* The receiving task process                                              *)

(* LinkContext::Recv through the task's own node.                          *)
RecvBegins ==
  /\ recv = "idle" /\ recv' = "calling"
  /\ Move(Fetch, "sent")
  /\ UNCHANGED <<nodeVars, queueVars, cut, count, reply, sender, got, breaks>>

(* Mutant of RecvAnswered: the first package is taken for the block.       *)
RecvFirstPackage ==
  /\ recv = "calling" /\ handler[Fetch] \in {"done", "refused"}
  /\ IF handler[Fetch] = "refused" \/ reply = Empty \/ reply.block \in Large
     THEN recv' = "idle" /\ UNCHANGED got
     ELSE recv' = "idle" /\ got' = Append(got, reply)
  /\ reply' = Empty /\ UNCHANGED <<nodeVars, queueVars, handler, cut, count, sender, breaks>>

(* An empty answer is an error, any other the next block.                  *)
RecvAnswered ==
  /\ recv = "calling" /\ handler[Fetch] \in {"done", "refused"}
  /\ IF handler[Fetch] = "refused" \/ reply = Empty
     THEN recv' = "failed" /\ UNCHANGED got
     ELSE recv' = "idle" /\ got' = Append(got, reply)
  /\ reply' = Empty /\ UNCHANGED <<nodeVars, queueVars, handler, cut, count, sender, breaks>>

RecvBreaks ==
  /\ recv = "calling" /\ breaks < MaxBreaks
  /\ recv' = "failed" /\ breaks' = breaks + 1
  /\ UNCHANGED <<nodeVars, queueVars, handler, cut, count, reply, sender, got>>

-----------------------------------------------------------------------------
Serving(h) == \/ HandlerReads(h) \/ WorkerIsReady(h) \/ WaitTimesOut(h) \/ GetWorker(h)
              \/ ProcessReceivedData(h) \/ CheckOpens(h) \/ ProcessCompleteStatus(h)
Peer       == SendBegins \/ CheckBegins \/ CallAnswered
Receiver   == RecvBegins \/ RecvAnswered

Next == \/ Peer \/ SendBreaks \/ CheckExpires
        \/ \E h \in Handlers : Serving(h)
        \/ ProcessForwardData
        \/ WorkerAdded \/ TaskEnds \/ StatusTimesOut \/ WorkerRemoved \/ Clean
        \/ Receiver \/ RecvBreaks

Spec == Init /\ [][Next]_vars

(* Threads that can run do, on both sides: the two tasks, Clean, and the   *)
(* handlers somebody waits for.  Nothing makes a worker come, a task end,  *)
(* a deadline pass or a handler that was given up go on.                   *)
Answering == \E h \in Handlers : h = Current /\ Serving(h)
Fetching  == Serving(Fetch) \/ ProcessForwardData

FairSpec == /\ Spec /\ WF_vars(Peer) /\ WF_vars(Receiver) /\ WF_vars(Clean)
            /\ WF_vars(Answering) /\ WF_vars(Fetching)

-----------------------------------------------------------------------------
Copies == [block : Blocks, whole : BOOLEAN]

(* Type invariant.                                                         *)
TypeOK ==
  /\ worker \in {"absent", "present", "removed"} /\ finished \in BOOLEAN
  /\ stop_ \in {"no", "moved", "in", "done"}
  /\ in_data_queue \in Seq(Copies) /\ stored \in Seq(Copies) /\ got \in Seq(Copies)
  /\ complete_queue \in Nat /\ complete_made \in {"none", "open", "shut"}
  /\ handler \in [Handlers -> {"none", "sent", "waiting", "found", "holding",
                               "counting", "done", "refused"}]
  /\ cut \subseteq Sends /\ count \in [Checks -> 0..NumBlocks]
  /\ sender \in [at : {"idle", "sending", "checking", "done", "failed"},
                 block : 0..NumBlocks, try : 0..MaxTries]
  /\ recv \in {"idle", "calling", "failed", "ended"}
  /\ reply \in Copies \cup {Empty} /\ breaks \in 0..MaxBreaks

Refused(k) == \E a \in Tries : handler[<<"Send", k, a>>] = "refused"

(* Retries repeat blocks and late handlers store them again behind newer   *)
(* ones, truncated copies come in between, but the first whole copies are  *)
(* in the order sent: when a block is queued, every earlier block is there *)
(* in full, unless the node refused it.                                    *)
FirstCopiesInOrder ==
  \A i \in DOMAIN stored : \A k \in 1..(stored[i].block - 1) :
     \/ \E j \in 1..(i - 1) : stored[j] = [block |-> k, whole |-> TRUE]
     \/ Refused(k)

(* The receiver gets what was queued, nothing left out, up to the point    *)
(* where it stops, although a handler whose call broke may take a block    *)
(* nobody is there to get.                                                 *)
ReceivesStored == Len(got) <= Len(stored) /\ got = SubSeq(stored, 1, Len(got))

(* Short of a kill or a refusal, a positive CheckSendCompleteStatus means  *)
(* that as many blocks were fetched as were sent, although its handlers    *)
(* outlive their calls and share the marks.                                *)
CompleteBacked ==
  sender.at = "done" /\ stop_ = "no" /\ (\A h \in Checks : handler[h] # "refused")
     => Len(stored) - Len(in_data_queue) >= NumBlocks

(* Send returns: no handler waits for its worker longer than the timeout.  *)
SendReturns == \A k \in Blocks :
  (sender.at = "sending" /\ sender.block = k)
      ~> ~(sender.at = "sending" /\ sender.block = k)

(* What is queued is received, unless the task ends or its call fails.     *)
StoredIsReceived == \A n \in Blocks :
  Len(stored) >= n ~> (Len(got) >= n \/ recv \in {"failed", "ended"} \/ stop_ # "no")

(* Until the first fault the link is a stream of whole blocks, each once   *)
(* and in order; afterwards nothing arrives that was not sent.             *)
Stream == INSTANCE BlockStream WITH
            sent <- sender.block,
            faulty <- breaks > 0 \/ stop_ # "no"
                      \/ \E h \in Handlers : handler[h] = "refused"

ImplementsStream == Stream!StreamSpec

(* CompleteStatus is there to "make sure data has been sended success":    *)
(* after a positive answer the receiving side has fetched every block.     *)
DataHasBeenSent ==
  sender.at = "done" => \A k \in Blocks :
     \E i \in 1..(Len(stored) - Len(in_data_queue)) : stored[i] = [block |-> k, whole |-> TRUE]
=============================================================================
