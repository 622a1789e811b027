--------------------------- MODULE DataLinkProofs ---------------------------
(***************************************************************************)
(* Theorems about DataLink for any number of blocks, of packages, of tries *)
(* and of broken calls: the receiver gets what was queued, first copies    *)
(* come in order, a completion is backed by fetched blocks, and the link   *)
(* implements BlockStream.                                                 *)
(***************************************************************************)
EXTENDS DataLink, SequenceTheorems, TLAPS

(* Handlers are known by their calls.                                      *)
LEMMA HandlerNames ==
  /\ \A k \in Blocks, a \in Tries : <<"Send", k, a>> \in Sends
  /\ \A a \in Tries : <<"CompleteStatus", 0, a>> \in Checks
  /\ \A h \in Sends : /\ h = <<"Send", h[2], h[3]>> /\ h[2] \in Blocks /\ h[3] \in Tries
                      /\ h \in Handlers /\ h \notin Checks /\ h # Fetch
  /\ \A h \in Checks : /\ h = <<"CompleteStatus", 0, h[3]>> /\ h[3] \in Tries
                       /\ h \in Handlers /\ h \notin Sends /\ h # Fetch
  /\ Fetch \in Handlers
  /\ \A h \in Handlers : h \in Sends \/ h \in Checks \/ h = Fetch
BY DEF Sends, Checks, Fetch, Handlers

(* What a pop leaves.                                                      *)
LEMMA Popped ==
  ASSUME NEW S, NEW s \in Seq(S), s # <<>>
  PROVE  /\ Head(s) \in S /\ Head(s) = s[1] /\ Tail(s) \in Seq(S)
         /\ Len(s) \in Nat \ {0} /\ Len(Tail(s)) = Len(s) - 1
         /\ DOMAIN s = 1..Len(s) /\ DOMAIN Tail(s) = 1..(Len(s) - 1)
         /\ \A k \in DOMAIN Tail(s) : k + 1 \in DOMAIN s /\ Tail(s)[k] = s[k + 1]
<1>1. Len(s) \in Nat \ {0} /\ DOMAIN s = 1..Len(s)
  BY EmptySeq, LenProperties
<1>2. /\ Head(s) \in S /\ Tail(s) \in Seq(S) /\ Len(Tail(s)) = Len(s) - 1
      /\ \A k \in 1..Len(Tail(s)) : Tail(s)[k] = s[k + 1]
  BY HeadTailProperties
<1>3. Head(s) = s[1]
  OBVIOUS
<1>4. DOMAIN Tail(s) = 1..(Len(s) - 1)
  BY <1>2, LenProperties
<1>5. QED BY <1>1, <1>2, <1>3, <1>4

(* What a push adds.                                                       *)
LEMMA Pushed ==
  ASSUME NEW S, NEW s \in Seq(S), NEW x \in S
  PROVE  /\ Append(s, x) \in Seq(S) /\ Len(s) \in Nat /\ Len(Append(s, x)) = Len(s) + 1
         /\ DOMAIN s = 1..Len(s) /\ DOMAIN Append(s, x) = 1..(Len(s) + 1)
         /\ \A k \in DOMAIN s : Append(s, x)[k] = s[k]
         /\ Append(s, x)[Len(s) + 1] = x
         /\ \A k \in DOMAIN Append(s, x) : k \in DOMAIN s \/ k = Len(s) + 1
<1>1. Append(s, x) \in Seq(S) /\ Len(s) \in Nat /\ Len(Append(s, x)) = Len(s) + 1
  BY LenProperties
<1>2. DOMAIN s = 1..Len(s) /\ DOMAIN Append(s, x) = 1..(Len(s) + 1)
  BY <1>1, LenProperties
<1>3. QED BY <1>1, <1>2

(* A copy is a copy of a block, and never the empty answer.                *)
LEMMA CopyType == (\A h \in Sends : Copy(h) \in Copies) /\ Empty \notin Copies
BY HandlerNames, LinkAssumption DEF Copy, Copies, Empty, Blocks

-----------------------------------------------------------------------------
Progress == {"none", "sent", "waiting", "found", "holding", "counting", "done", "refused"}

(* A move takes a handler from one place in its code to another.           *)
LEMMA MoveType ==
  ASSUME TypeOK, NEW h, NEW to \in Progress, Move(h, to)
  PROVE  handler' \in [Handlers -> Progress]
BY DEF TypeOK, Progress, Move

(* Type correctness.                                                       *)
THEOREM TypeCorrect == Spec => []TypeOK
<1>1. Init => TypeOK
  <2> SUFFICES ASSUME Init PROVE TypeOK
    OBVIOUS
  <2>1. in_data_queue \in Seq(Copies) /\ stored \in Seq(Copies) /\ got \in Seq(Copies)
    BY EmptySeq DEF Init
  <2>2. handler \in [Handlers -> Progress] /\ count \in [Checks -> 0..NumBlocks]
    BY LinkAssumption DEF Init, Progress
  <2>3. sender \in [at : {"idle", "sending", "checking", "done", "failed"},
                   block : 0..NumBlocks, try : 0..MaxTries]
    BY LinkAssumption DEF Init
  <2>4. complete_queue \in Nat /\ cut \subseteq Sends /\ breaks \in 0..MaxBreaks
    BY LinkAssumption DEF Init
  <2>5. QED BY <2>1, <2>2, <2>3, <2>4 DEF Init, TypeOK, Progress
<1>2. TypeOK /\ [Next]_vars => TypeOK'
  <2> SUFFICES ASSUME TypeOK, [Next]_vars PROVE TypeOK'
    OBVIOUS
  <2> USE LinkAssumption DEF TypeOK, Progress
  <2>1. CASE SendBegins
    <3>1. sender' \in [at : {"idle", "sending", "checking", "done", "failed"},
                      block : 0..NumBlocks, try : 0..MaxTries]
      <4>1. sender.block + 1 \in 0..NumBlocks /\ 1 \in 0..MaxTries
        BY <2>1 DEF SendBegins
      <4>2. QED BY <2>1, <4>1 DEF SendBegins
    <3>2. handler' \in [Handlers -> Progress]
      BY <2>1, MoveType DEF SendBegins
    <3>3. QED BY <2>1, <3>1, <3>2 DEF SendBegins, nodeVars, queueVars
  <2>2. CASE CheckBegins
    <3>1. sender' \in [at : {"idle", "sending", "checking", "done", "failed"},
                      block : 0..NumBlocks, try : 0..MaxTries]
      <4>1. 1 \in 0..MaxTries
        OBVIOUS
      <4>2. QED BY <2>2, <4>1 DEF CheckBegins
    <3>2. handler' \in [Handlers -> Progress]
      BY <2>2, MoveType DEF CheckBegins
    <3>3. QED BY <2>2, <3>1, <3>2 DEF CheckBegins, nodeVars, queueVars
  <2>3. CASE CallAnswered
    BY <2>3 DEF CallAnswered, nodeVars, queueVars
  <2>4. CASE SendBreaks \/ CheckExpires
    <3>1. breaks' \in 0..MaxBreaks /\ Retry /\ UNCHANGED <<nodeVars, queueVars, cut, count, reply, recv, got>>
      BY <2>4 DEF SendBreaks, CheckExpires
    <3>2. sender' \in [at : {"idle", "sending", "checking", "done", "failed"},
                      block : 0..NumBlocks, try : 0..MaxTries]
      <4>1. sender.try < MaxTries => sender.try + 1 \in 0..MaxTries
        OBVIOUS
      <4>2. CASE sender.try < MaxTries
        <5>1. sender' = [sender EXCEPT !.try = sender.try + 1]
          BY <3>1, <4>2 DEF Retry
        <5>2. QED BY <4>1, <4>2, <5>1
      <4>3. CASE ~(sender.try < MaxTries)
        BY <3>1, <4>3 DEF Retry
      <4>4. QED BY <4>2, <4>3
    <3>3. handler' \in [Handlers -> Progress]
      BY <3>1, MoveType DEF Retry
    <3>4. QED BY <3>1, <3>2, <3>3 DEF nodeVars, queueVars
  <2>5. ASSUME NEW h \in Handlers, HandlerReads(h) PROVE TypeOK'
    <3>1. handler' \in [Handlers -> Progress]
      BY <2>5, MoveType DEF HandlerReads
    <3>2. QED BY <2>5, <3>1 DEF HandlerReads, nodeVars, queueVars, taskVars
  <2>6. ASSUME NEW h \in Handlers, WorkerIsReady(h) \/ WaitTimesOut(h) \/ GetWorker(h) PROVE TypeOK'
    <3>1. handler' \in [Handlers -> Progress]
      BY <2>6, MoveType DEF WorkerIsReady, WaitTimesOut, GetWorker
    <3>2. QED BY <2>6, <3>1 DEF WorkerIsReady, WaitTimesOut, GetWorker, nodeVars, queueVars, taskVars
  <2>7. ASSUME NEW h \in Handlers, ProcessReceivedData(h) PROVE TypeOK'
    <3>1. in_data_queue' \in Seq(Copies) /\ stored' \in Seq(Copies)
      BY <2>7, CopyType, Pushed DEF ProcessReceivedData
    <3>2. handler' \in [Handlers -> Progress]
      BY <2>7, MoveType DEF ProcessReceivedData
    <3>3. QED BY <2>7, <3>1, <3>2 DEF ProcessReceivedData, nodeVars, taskVars
  <2>8. ASSUME NEW h \in Handlers, CheckOpens(h) PROVE TypeOK'
    <3>1. handler' \in [Handlers -> Progress]
      BY <2>8, MoveType DEF CheckOpens
    <3>2. QED BY <2>8, <3>1 DEF CheckOpens, nodeVars, taskVars
  <2>9. ASSUME NEW h \in Handlers, ProcessCompleteStatus(h) PROVE TypeOK'
    <3>1. handler' \in [Handlers -> Progress]
      BY <2>9, MoveType DEF ProcessCompleteStatus
    <3>2. count' \in [Checks -> 0..NumBlocks] /\ complete_queue' \in Nat
      BY <2>9 DEF ProcessCompleteStatus
    <3>3. QED BY <2>9, <3>1, <3>2 DEF ProcessCompleteStatus, nodeVars, taskVars
  <2>10. CASE ProcessForwardData
    <3>1. handler' \in [Handlers -> Progress]
      BY <2>10, MoveType DEF ProcessForwardData
    <3>2. complete_queue' \in Nat /\ complete_made' \in {"none", "open", "shut"}
      BY <2>10 DEF ProcessForwardData, Mark
    <3>3. in_data_queue # <<>> => Head(in_data_queue) \in Copies /\ Tail(in_data_queue) \in Seq(Copies)
      BY Popped
    <3>4. in_data_queue' \in Seq(Copies) /\ reply' \in Copies \cup {Empty}
      BY <2>10, <3>3 DEF ProcessForwardData
    <3>5. QED BY <2>10, <3>1, <3>2, <3>4 DEF ProcessForwardData, nodeVars, taskVars
  <2>11. CASE WorkerAdded \/ TaskEnds \/ StatusTimesOut \/ WorkerRemoved
    BY <2>11 DEF WorkerAdded, TaskEnds, StatusTimesOut, WorkerRemoved, queueVars, taskVars
  <2>12. CASE Clean
    BY <2>12 DEF Clean, queueVars, taskVars
  <2>13. CASE RecvBegins \/ RecvBreaks
    <3>1. handler' \in [Handlers -> Progress]
      BY <2>13, MoveType DEF RecvBegins, RecvBreaks
    <3>2. QED BY <2>13, <3>1 DEF RecvBegins, RecvBreaks, nodeVars, queueVars
  <2>14. CASE RecvAnswered
    <3>1. got' \in Seq(Copies)
      <4>1. reply \in Copies => Append(got, reply) \in Seq(Copies)
        BY Pushed
      <4>2. QED BY <2>14, <4>1 DEF RecvAnswered
    <3>2. QED BY <2>14, <3>1 DEF RecvAnswered, nodeVars, queueVars
  <2>15. CASE UNCHANGED vars
    BY <2>15 DEF vars, nodeVars, queueVars, taskVars
  <2>16. QED
    BY <2>1, <2>2, <2>3, <2>4, <2>5, <2>6, <2>7, <2>8, <2>9, <2>10, <2>11, <2>12, <2>13, <2>14, <2>15
       DEF Next, Peer, Receiver, Serving
<1>3. QED BY <1>1, <1>2, PTL DEF Spec

-----------------------------------------------------------------------------
(* A handler exists from the moment its call is made: there is none for a  *)
(* block, a try or a check still to come.  What cuts a stream comes before *)
(* the handler goes on, and never to a call that is waited for.            *)
CallInv ==
  /\ sender.at \in {"sending", "checking", "done"} => sender.try \in Tries
  /\ sender.at = "sending" => sender.block \in Blocks
  /\ \A h \in Sends : handler[h] # "none" =>
        /\ h[2] <= sender.block
        /\ sender.at = "sending" /\ h[2] = sender.block => h[3] <= sender.try
  /\ \A h \in Checks : handler[h] # "none" =>
        /\ sender.at \notin {"idle", "sending"}
        /\ sender.at = "checking" => h[3] <= sender.try
  /\ \A h \in Sends : handler[h] \in {"none", "sent"} => h \notin cut
  /\ sender.at = "sending" => Current \notin cut /\ handler[Current] # "none"
  /\ recv = "idle" => handler[Fetch] \in {"none", "done"}
  /\ worker # "removed" => stop_ = "no"

(* How many blocks have been taken out of in_data_queue.                   *)
Taken == Len(stored) - Len(in_data_queue)

(* The queue is the end of what was stored.  The receiver has everything   *)
(* before it, but for the block its ForwardRecv handler has in hand, until *)
(* its call breaks or its task ends.                                       *)
FetchInv ==
  /\ Len(in_data_queue) <= Len(stored)
  /\ \A k \in DOMAIN in_data_queue : in_data_queue[k] = stored[Taken + k]
  /\ Len(got) <= Taken
  /\ \A k \in DOMAIN got : got[k] = stored[k]
  /\ recv = "idle" => Len(got) = Taken
  /\ recv = "calling" => IF handler[Fetch] = "done" /\ reply # Empty
                         THEN Len(got) + 1 = Taken /\ reply = stored[Taken]
                         ELSE Len(got) = Taken

(* A handler that got through has stored its block, whole unless its       *)
(* stream was cut, and the sender goes on only after such a handler or a   *)
(* refusal.                                                                *)
Present(k) == \E j \in DOMAIN stored : stored[j] = [block |-> k, whole |-> TRUE]
DoneStored == \A h \in Sends : handler[h] = "done" /\ h \notin cut => Present(h[2])
StoredSent == \A i \in DOMAIN stored : stored[i].block <= sender.block
Behind(k)  == k < sender.block \/ (k = sender.block /\ sender.at \in {"idle", "checking", "done"})
SentStored == \A k \in Blocks : Behind(k) => Refused(k) \/ Present(k)
OrderInv   == DoneStored /\ StoredSent /\ SentStored /\ FirstCopiesInOrder

(* A completion mark is set for every block taken, and a check counts no   *)
(* mark twice, whoever else counts.                                        *)
MarkInv ==
  /\ stop_ = "no" => \A h \in Checks : complete_queue + count[h] <= Taken
  /\ complete_made = "shut" => stop_ = "done"
  /\ \A h \in Checks : handler[h] = "done" => count[h] = NumBlocks
  /\ sender.at = "done" => handler[<<"CompleteStatus", 0, sender.try>>] \in {"done", "refused"}

(* Without a fault every block has one handler, which has stored it whole  *)
(* when the sender goes on.                                                *)
Faulty == breaks > 0 \/ stop_ # "no" \/ \E h \in Handlers : handler[h] = "refused"
Orderly ==
  /\ cut = {} /\ sender.at # "failed"
  /\ sender.at = "sending" => sender.try = 1
  /\ \A h \in Sends : h[3] # 1 => handler[h] = "none"
  /\ \A h \in Sends :
        h[3] = 1 /\ (h[2] < sender.block \/ (h[2] = sender.block /\ sender.at # "sending"))
           => handler[h] = "done"
  /\ Len(stored) = IF sender.at = "sending" /\ handler[Current] # "done"
                   THEN sender.block - 1 ELSE sender.block
  /\ \A k \in DOMAIN stored : stored[k] = [block |-> k, whole |-> TRUE]
StreamInv == ~Faulty => Orderly

-----------------------------------------------------------------------------
(* What a handler's step does to the handlers.                             *)
LEMMA ServingEffect ==
  ASSUME TypeOK, NEW h \in Handlers, Serving(h)
  PROVE  /\ handler[h] \in {"sent", "waiting", "found", "holding", "counting"}
         /\ handler'[h] \in {"waiting", "found", "holding", "counting", "done", "refused"}
         /\ \A g \in Handlers : g # h => handler'[g] = handler[g]
         /\ UNCHANGED <<worker, finished, stop_, reply, sender, recv, got, breaks>>
         /\ \/ cut' = cut
            \/ /\ cut' = cut \cup {h} /\ handler[h] = "sent" /\ h \in Sends
               /\ handler'[h] \in {"waiting", "refused"} /\ ~(sender.at = "sending" /\ Current = h)
<1> USE DEF TypeOK, Move, nodeVars, taskVars
<1>1. CASE HandlerReads(h)
  BY <1>1 DEF HandlerReads
<1>2. CASE WorkerIsReady(h) \/ WaitTimesOut(h) \/ GetWorker(h)
  BY <1>2 DEF WorkerIsReady, WaitTimesOut, GetWorker
<1>3. CASE ProcessReceivedData(h)
  BY <1>3 DEF ProcessReceivedData
<1>4. CASE CheckOpens(h)
  BY <1>4 DEF CheckOpens
<1>5. CASE ProcessCompleteStatus(h)
  BY <1>5 DEF ProcessCompleteStatus
<1>6. QED BY <1>1, <1>2, <1>3, <1>4, <1>5 DEF Serving

(* The same for the step that fetches a block.                             *)
LEMMA ForwardEffect ==
  ASSUME TypeOK, ProcessForwardData
  PROVE  /\ handler[Fetch] = "holding" /\ handler'[Fetch] = "done"
         /\ \A g \in Handlers : g # Fetch => handler'[g] = handler[g]
         /\ UNCHANGED <<worker, finished, stop_, stored, cut, count, sender, recv, got, breaks>>
BY HandlerNames DEF TypeOK, ProcessForwardData, Move, nodeVars, taskVars

(* A new call starts its handler.                                          *)
LEMMA MoveEffect ==
  ASSUME TypeOK, NEW h \in Handlers, NEW to, Move(h, to)
  PROVE  handler'[h] = to /\ \A g \in Handlers : g # h => handler'[g] = handler[g]
BY DEF TypeOK, Move

(* The next attempt is a handler of its own.                               *)
LEMMA RetryEffect ==
  ASSUME TypeOK, CallInv, sender.at \in {"sending", "checking"}, Retry
  PROVE  \/ /\ sender.try < MaxTries /\ sender' = [sender EXCEPT !.try = sender.try + 1]
            /\ Current' = [Current EXCEPT ![3] = sender.try + 1] /\ Current' \in Handlers
            /\ handler'[Current'] = "sent"
            /\ \A g \in Handlers : g # Current' => handler'[g] = handler[g]
         \/ sender' = [sender EXCEPT !.at = "failed"] /\ handler' = handler
<1>1. CASE sender.try < MaxTries
  <2>1. /\ sender' = [sender EXCEPT !.try = sender.try + 1]
        /\ sender'.at = sender.at /\ sender'.block = sender.block /\ sender'.try = sender.try + 1
    BY <1>1 DEF Retry, TypeOK
  <2>2. sender'.try \in Tries
    BY <1>1, <2>1, LinkAssumption DEF CallInv, Tries
  <2>3. Current' = [Current EXCEPT ![3] = sender.try + 1]
    BY <2>1 DEF Current
  <2>4. Current' \in Handlers
    BY <2>1, <2>2, HandlerNames DEF Current, CallInv
  <2>5. Move(Current', "sent")
    BY <1>1, <2>3 DEF Retry, Current
  <2>6. QED BY <1>1, <2>1, <2>3, <2>4, <2>5, MoveEffect
<1>2. CASE ~(sender.try < MaxTries)
  BY <1>2 DEF Retry
<1>3. QED BY <1>1, <1>2

(* CallInv is inductive.                                                   *)
LEMMA CallInvHolds == Spec => []CallInv
<1>1. Init => CallInv
  BY HandlerNames DEF Init, CallInv
<1>2. TypeOK /\ CallInv /\ [Next]_vars => CallInv'
  <2> SUFFICES ASSUME TypeOK, CallInv, [Next]_vars PROVE CallInv'
    OBVIOUS
  <2>t. /\ sender.block \in 0..NumBlocks /\ sender.try \in 0..MaxTries
        /\ NumBlocks \in Nat \ {0} /\ MaxTries \in Nat \ {0}
        /\ Blocks = 1..NumBlocks /\ Tries = 1..MaxTries
    BY LinkAssumption DEF TypeOK, Blocks, Tries
  <2>1. CASE SendBegins
    <3> DEFINE n == <<"Send", sender.block + 1, 1>>
    <3>1. /\ sender.at = "idle" /\ sender' = [at |-> "sending", block |-> sender.block + 1, try |-> 1]
          /\ sender.block + 1 \in Blocks /\ 1 \in Tries
          /\ UNCHANGED <<worker, stop_, cut, recv>>
      BY <2>1, <2>t DEF SendBegins, nodeVars
    <3>2. n \in Sends /\ n \in Handlers /\ n[2] = sender.block + 1 /\ n[3] = 1
      BY <3>1, HandlerNames
    <3>3. handler'[n] = "sent" /\ \A g \in Handlers : g # n => handler'[g] = handler[g]
      BY <2>1, <3>2, MoveEffect DEF SendBegins
    <3>4. Current' = n
      BY <3>1 DEF Current
    <3>5. handler[n] = "none"
      BY <2>t, <3>2 DEF CallInv, TypeOK
    <3> HIDE DEF n
    <3>6. \A h \in Sends : handler'[h] # "none" => h = n \/ h[2] <= sender.block
      BY <3>3, HandlerNames DEF CallInv
    <3>7. \A h \in Sends : handler'[h] # "none" =>
             /\ h[2] <= sender'.block
             /\ h[2] = sender'.block => h[3] <= sender'.try
      <4>1. \A h \in Sends : h[2] \in Nat
        BY <2>t, HandlerNames
      <4>2. QED BY <2>t, <3>1, <3>2, <3>6, <4>1
    <3>8. \A h \in Checks : handler'[h] = "none"
      BY <3>1, <3>2, <3>3, HandlerNames DEF CallInv
    <3>9. \A h \in Sends : handler'[h] \in {"none", "sent"} => h \notin cut
      BY <3>3, <3>5, HandlerNames DEF CallInv
    <3>10. n \notin cut
      BY <3>2, <3>5 DEF CallInv
    <3>11. handler'[Fetch] = handler[Fetch]
      BY <3>2, <3>3, HandlerNames
    <3>12. QED BY <3>1, <3>3, <3>4, <3>7, <3>8, <3>9, <3>10, <3>11 DEF CallInv
  <2>2. CASE CheckBegins
    <3> DEFINE n == <<"CompleteStatus", 0, 1>>
    <3>1. /\ sender.at = "idle" /\ sender' = [sender EXCEPT !.at = "checking", !.try = 1]
          /\ 1 \in Tries /\ UNCHANGED <<worker, stop_, cut, recv>>
      BY <2>2, <2>t DEF CheckBegins, nodeVars
    <3>2. sender'.at = "checking" /\ sender'.try = 1 /\ sender'.block = sender.block
      BY <3>1 DEF TypeOK
    <3>3. n \in Checks /\ n \in Handlers /\ n \notin Sends /\ n # Fetch /\ n[3] = 1
      BY <3>1, HandlerNames
    <3>4. handler'[n] = "sent" /\ \A g \in Handlers : g # n => handler'[g] = handler[g]
      BY <2>2, <3>3, MoveEffect DEF CheckBegins
    <3> HIDE DEF n
    <3>5. \A h \in Sends : handler'[h] = handler[h]
      BY <3>3, <3>4, HandlerNames
    <3>6. \A h \in Checks : handler'[h] # "none" => h = n
      BY <3>1, <3>4, HandlerNames DEF CallInv
    <3>7. handler'[Fetch] = handler[Fetch]
      BY <3>3, <3>4, HandlerNames
    <3>8. QED BY <3>1, <3>2, <3>3, <3>5, <3>6, <3>7 DEF CallInv
  <2>3. CASE CallAnswered
    <3>1. /\ sender.at \in {"sending", "checking"} /\ UNCHANGED <<worker, stop_, cut, recv, handler>>
          /\ sender' = [sender EXCEPT !.at = IF sender.at = "sending" THEN "idle" ELSE "done"]
      BY <2>3 DEF CallAnswered, nodeVars
    <3>2. /\ sender'.at = IF sender.at = "sending" THEN "idle" ELSE "done"
          /\ sender'.block = sender.block /\ sender'.try = sender.try
      BY <3>1 DEF TypeOK
    <3>3. QED BY <3>1, <3>2 DEF CallInv
  <2>4. CASE SendBreaks \/ CheckExpires
    <3>1. sender.at \in {"sending", "checking"} /\ Retry /\ UNCHANGED <<worker, stop_, cut, recv>>
      BY <2>4 DEF SendBreaks, CheckExpires, nodeVars
    <3>2. CASE sender' = [sender EXCEPT !.at = "failed"] /\ handler' = handler
      <4>1. sender'.at = "failed" /\ sender'.block = sender.block /\ sender'.try = sender.try
        BY <3>2 DEF TypeOK
      <4>2. QED BY <3>1, <3>2, <4>1 DEF CallInv
    <3>3. CASE sender.try < MaxTries /\ sender' = [sender EXCEPT !.try = sender.try + 1]
      <4> DEFINE n == Current'
      <4>1. /\ n = [Current EXCEPT ![3] = sender.try + 1] /\ n \in Handlers
            /\ handler'[n] = "sent" /\ \A g \in Handlers : g # n => handler'[g] = handler[g]
        BY <3>1, <3>3, RetryEffect DEF TypeOK
      <4>2. sender'.at = sender.at /\ sender'.block = sender.block /\ sender'.try = sender.try + 1
        BY <3>3 DEF TypeOK
      <4>3. sender'.try \in Tries
        BY <2>t, <3>3, <4>2
      <4>4. CASE sender.at = "sending"
        <5>1. n = <<"Send", sender.block, sender.try + 1>>
          BY <4>2, <4>4 DEF Current
        <5>2. n \in Sends /\ n[2] = sender.block /\ n[3] = sender.try + 1
          BY <4>2, <4>3, <4>4, <5>1, HandlerNames DEF CallInv
        <5> HIDE DEF n
        <5>3. handler[n] = "none"
          BY <2>t, <4>4, <5>2 DEF CallInv
        <5>4. \A h \in Sends : handler'[h] # "none" =>
                 h[2] <= sender.block /\ (h[2] = sender.block => h[3] <= sender.try + 1)
          <6>1. \A h \in Sends : h[2] \in Nat /\ h[3] \in Nat
            BY <2>t, HandlerNames
          <6>2. \A h \in Sends : h # n => handler'[h] = handler[h]
            BY <4>1, HandlerNames
          <6>3. QED BY <2>t, <4>4, <5>2, <6>1, <6>2 DEF CallInv
        <5>5. \A h \in Checks : handler'[h] = "none"
          BY <4>1, <4>4, <5>2, HandlerNames DEF CallInv
        <5>6. \A h \in Sends : handler'[h] \in {"none", "sent"} => h \notin cut
          BY <4>1, <5>3, HandlerNames DEF CallInv
        <5>7. n \notin cut
          BY <5>2, <5>3 DEF CallInv
        <5>8. handler'[Fetch] = handler[Fetch]
          BY <4>1, <5>2, HandlerNames
        <5>9. QED BY <3>1, <4>1, <4>2, <4>3, <4>4, <5>4, <5>5, <5>6, <5>7, <5>8 DEF CallInv, n
      <4>5. CASE sender.at = "checking"
        <5>1. n = <<"CompleteStatus", 0, sender.try + 1>>
          BY <4>2, <4>5 DEF Current
        <5>2. n \in Checks /\ n[3] = sender.try + 1
          BY <4>2, <4>3, <5>1, HandlerNames
        <5> HIDE DEF n
        <5>3. \A h \in Sends : handler'[h] = handler[h]
          BY <4>1, <5>2, HandlerNames
        <5>4. \A h \in Checks : handler'[h] # "none" => h[3] <= sender.try + 1
          <6>1. \A h \in Checks : h[3] \in Nat /\ (h # n => handler'[h] = handler[h])
            BY <2>t, <4>1, HandlerNames
          <6>2. QED BY <2>t, <4>5, <5>2, <6>1 DEF CallInv
        <5>5. handler'[Fetch] = handler[Fetch]
          BY <4>1, <5>2, HandlerNames
        <5>6. QED BY <3>1, <4>2, <4>3, <4>5, <5>3, <5>4, <5>5 DEF CallInv
      <4>6. QED BY <3>1, <4>4, <4>5
    <3>4. QED BY <3>1, <3>2, <3>3, RetryEffect
  <2>5. ASSUME NEW h \in Handlers, Serving(h) PROVE CallInv'
    <3>1. /\ handler[h] \in {"sent", "waiting", "found", "holding", "counting"}
          /\ handler'[h] \in {"waiting", "found", "holding", "counting", "done", "refused"}
          /\ \A g \in Handlers : g # h => handler'[g] = handler[g]
          /\ UNCHANGED <<worker, stop_, sender, recv>>
      BY <2>5, ServingEffect
    <3>2. \/ cut' = cut
          \/ /\ cut' = cut \cup {h} /\ handler[h] = "sent"
             /\ handler'[h] \in {"waiting", "refused"} /\ ~(sender.at = "sending" /\ Current = h)
      BY <2>5, ServingEffect
    <3>3. \A g \in Handlers : handler'[g] # "none" <=> handler[g] # "none"
      BY <3>1
    <3>4. Current' = Current
      BY <3>1 DEF Current
    <3>5. \A g \in Sends : handler'[g] \in {"none", "sent"} => g \notin cut'
      BY <3>1, <3>2, HandlerNames DEF CallInv
    <3>6. sender.at = "sending" => Current \notin cut' /\ handler'[Current] # "none"
      <4>1. sender.at = "sending" => Current \in Handlers
        BY HandlerNames DEF Current, CallInv
      <4>2. QED BY <3>2, <3>3, <4>1 DEF CallInv
    <3>7. recv = "idle" => handler'[Fetch] \in {"none", "done"}
      BY <3>1, HandlerNames DEF CallInv
    <3>8. \A g \in Sends : handler'[g] # "none" =>
             /\ g[2] <= sender.block
             /\ sender.at = "sending" /\ g[2] = sender.block => g[3] <= sender.try
      BY <3>3, HandlerNames DEF CallInv
    <3>9. \A g \in Checks : handler'[g] # "none" =>
             /\ sender.at \notin {"idle", "sending"}
             /\ sender.at = "checking" => g[3] <= sender.try
      BY <3>3, HandlerNames DEF CallInv
    <3>10. QED BY <3>1, <3>4, <3>5, <3>6, <3>7, <3>8, <3>9 DEF CallInv
  <2>6. CASE ProcessForwardData
    <3>1. /\ handler[Fetch] = "holding" /\ handler'[Fetch] = "done"
          /\ \A g \in Handlers : g # Fetch => handler'[g] = handler[g]
          /\ UNCHANGED <<worker, stop_, cut, sender, recv>>
      BY <2>6, ForwardEffect
    <3>2. /\ \A g \in Sends : handler'[g] = handler[g]
          /\ \A g \in Checks : handler'[g] = handler[g]
      BY <3>1, HandlerNames
    <3>3. sender.at = "sending" => Current \in Sends /\ Current' = Current
      BY <3>1, HandlerNames DEF Current, CallInv
    <3>4. QED BY <3>1, <3>2, <3>3 DEF CallInv
  <2>7. CASE WorkerAdded \/ TaskEnds \/ StatusTimesOut \/ WorkerRemoved
    BY <2>7 DEF WorkerAdded, TaskEnds, StatusTimesOut, WorkerRemoved, queueVars, taskVars, CallInv, Current, TypeOK
  <2>8. CASE Clean
    BY <2>8 DEF Clean, taskVars, CallInv, Current
  <2>9. CASE RecvBegins
    <3>1. handler'[Fetch] = "sent" /\ \A g \in Handlers : g # Fetch => handler'[g] = handler[g]
      BY <2>9, HandlerNames, MoveEffect DEF RecvBegins
    <3>2. recv' = "calling" /\ UNCHANGED <<worker, stop_, cut, sender>>
      BY <2>9 DEF RecvBegins, nodeVars
    <3>3. /\ \A g \in Sends : handler'[g] = handler[g]
          /\ \A g \in Checks : handler'[g] = handler[g]
      BY <3>1, HandlerNames
    <3>4. sender.at = "sending" => Current \in Sends /\ Current' = Current
      BY <3>2, HandlerNames DEF Current, CallInv
    <3>5. QED BY <3>2, <3>3, <3>4 DEF CallInv
  <2>10. CASE RecvAnswered \/ RecvBreaks
    <3>1. UNCHANGED <<worker, stop_, cut, sender, handler>>
      BY <2>10 DEF RecvAnswered, RecvBreaks, nodeVars
    <3>2. recv' = "idle" => handler[Fetch] = "done"
      BY <2>10 DEF RecvAnswered, RecvBreaks
    <3>3. QED BY <3>1, <3>2 DEF CallInv, Current
  <2>11. CASE UNCHANGED vars
    BY <2>11 DEF vars, nodeVars, taskVars, CallInv, Current
  <2>12. QED
    BY <2>1, <2>2, <2>3, <2>4, <2>5, <2>6, <2>7, <2>8, <2>9, <2>10, <2>11 DEF Next, Peer, Receiver
<1>3. QED BY <1>1, <1>2, TypeCorrect, PTL DEF Spec

-----------------------------------------------------------------------------
(* Only the handlers of Send and of ForwardRecv touch the queue.           *)
LEMMA ServingQueue ==
  ASSUME TypeOK, NEW h \in Handlers, Serving(h)
  PROVE  \/ ProcessReceivedData(h)
         \/ UNCHANGED <<in_data_queue, stored>> /\ (handler'[h] = "done" => h \in Checks)
<1>1. CASE HandlerReads(h)
  BY <1>1 DEF HandlerReads, queueVars, TypeOK, Move
<1>2. CASE WorkerIsReady(h) \/ WaitTimesOut(h) \/ GetWorker(h)
  BY <1>2 DEF WorkerIsReady, WaitTimesOut, GetWorker, queueVars, TypeOK, Move
<1>3. CASE CheckOpens(h) \/ ProcessCompleteStatus(h)
  BY <1>3 DEF CheckOpens, ProcessCompleteStatus
<1>4. QED BY <1>1, <1>2, <1>3 DEF Serving

(* A block is stored: both histories grow by one copy.                     *)
LEMMA StoreEffect ==
  ASSUME TypeOK, NEW h \in Handlers, ProcessReceivedData(h)
  PROVE  /\ h \in Sends /\ Copy(h) \in Copies /\ handler'[h] = "done" /\ cut' = cut
         /\ Len(stored) \in Nat /\ Len(in_data_queue) \in Nat
         /\ Len(stored') = Len(stored) + 1 /\ Len(in_data_queue') = Len(in_data_queue) + 1
         /\ DOMAIN stored = 1..Len(stored) /\ DOMAIN stored' = 1..(Len(stored) + 1)
         /\ DOMAIN in_data_queue = 1..Len(in_data_queue)
         /\ DOMAIN in_data_queue' = 1..(Len(in_data_queue) + 1)
         /\ \A k \in DOMAIN stored : stored'[k] = stored[k]
         /\ stored'[Len(stored) + 1] = Copy(h)
         /\ \A k \in DOMAIN in_data_queue : in_data_queue'[k] = in_data_queue[k]
         /\ in_data_queue'[Len(in_data_queue) + 1] = Copy(h)
<1>1. /\ h \in Sends /\ stored' = Append(stored, Copy(h)) /\ cut' = cut
      /\ in_data_queue' = Append(in_data_queue, Copy(h)) /\ handler'[h] = "done"
  BY DEF ProcessReceivedData, Move, TypeOK
<1>2. Copy(h) \in Copies /\ stored \in Seq(Copies) /\ in_data_queue \in Seq(Copies)
  BY <1>1, CopyType DEF TypeOK
<1>3. /\ Len(stored) \in Nat /\ Len(stored') = Len(stored) + 1
      /\ DOMAIN stored = 1..Len(stored) /\ DOMAIN stored' = 1..(Len(stored) + 1)
      /\ \A k \in DOMAIN stored : stored'[k] = stored[k]
      /\ stored'[Len(stored) + 1] = Copy(h)
  BY <1>1, <1>2, Pushed
<1>4. /\ Len(in_data_queue) \in Nat /\ Len(in_data_queue') = Len(in_data_queue) + 1
      /\ DOMAIN in_data_queue = 1..Len(in_data_queue)
      /\ DOMAIN in_data_queue' = 1..(Len(in_data_queue) + 1)
      /\ \A k \in DOMAIN in_data_queue : in_data_queue'[k] = in_data_queue[k]
      /\ in_data_queue'[Len(in_data_queue) + 1] = Copy(h)
  BY <1>1, <1>2, Pushed
<1>5. QED BY <1>1, <1>2, <1>3, <1>4

(* The lengths are numbers.                                                *)
LEMMA Lengths ==
  ASSUME TypeOK
  PROVE  /\ Len(stored) \in Nat /\ DOMAIN stored = 1..Len(stored)
         /\ Len(in_data_queue) \in Nat /\ DOMAIN in_data_queue = 1..Len(in_data_queue)
         /\ Len(got) \in Nat /\ DOMAIN got = 1..Len(got)
BY LenProperties DEF TypeOK

(* What is taken is the part of what is stored that is not in the queue.   *)
LEMMA TakenPart ==
  ASSUME TypeOK, FetchInv
  PROVE  /\ Taken \in Nat /\ Taken + Len(in_data_queue) = Len(stored)
         /\ Taken <= Len(stored) /\ Len(got) <= Taken
<1>1. Len(stored) \in Nat /\ Len(in_data_queue) \in Nat /\ Len(got) \in Nat
  BY Lengths
<1>2. Len(in_data_queue) <= Len(stored) /\ Len(got) <= Taken
  BY Zenon DEF FetchInv
<1>3. Taken = Len(stored) - Len(in_data_queue)
  BY DEF Taken
<1>4. QED BY <1>1, <1>2, <1>3

(* FetchInv is inductive.                                                  *)
LEMMA FetchInvHolds == Spec => []FetchInv
<1>1. Init => FetchInv
  <2> SUFFICES ASSUME Init PROVE FetchInv
    OBVIOUS
  <2>1. stored = <<>> /\ in_data_queue = <<>> /\ got = <<>> /\ recv = "idle"
    BY DEF Init
  <2>2. Len(stored) = 0 /\ Len(in_data_queue) = 0 /\ Len(got) = 0
    BY <2>1, EmptySeq
  <2>3. QED BY <2>1, <2>2 DEF FetchInv, Taken
<1>2. TypeOK /\ CallInv /\ FetchInv /\ [Next]_vars => FetchInv'
  <2> SUFFICES ASSUME TypeOK, CallInv, FetchInv, [Next]_vars PROVE FetchInv'
    OBVIOUS
  <2>t. /\ Len(stored) \in Nat /\ DOMAIN stored = 1..Len(stored)
        /\ Len(in_data_queue) \in Nat /\ DOMAIN in_data_queue = 1..Len(in_data_queue)
        /\ Len(got) \in Nat /\ DOMAIN got = 1..Len(got) 
        /\ Taken \in Nat /\ Taken + Len(in_data_queue) = Len(stored)
        /\ Taken <= Len(stored) /\ Len(got) <= Taken
    BY Lengths, TakenPart
  <2>f. ASSUME UNCHANGED <<in_data_queue, stored, got, recv, reply>>, handler'[Fetch] = handler[Fetch]
        PROVE  FetchInv'
    BY <2>f DEF FetchInv, Taken
  <2>1. CASE SendBegins \/ CheckBegins
    <3> DEFINE n == IF sender.block < NumBlocks THEN <<"Send", sender.block + 1, 1>>
                    ELSE <<"CompleteStatus", 0, 1>>
    <3>1. Move(n, "sent") /\ UNCHANGED <<in_data_queue, stored, got, recv, reply>>
      BY <2>1, LinkAssumption DEF SendBegins, CheckBegins, queueVars, TypeOK
    <3>2. n # Fetch
      BY DEF Fetch
    <3>3. handler'[Fetch] = handler[Fetch]
      BY <3>1, <3>2, HandlerNames DEF Move, TypeOK
    <3>4. QED BY <2>f, <3>1, <3>3
  <2>2. CASE CallAnswered
    BY <2>2, <2>f DEF CallAnswered, queueVars
  <2>3. CASE SendBreaks \/ CheckExpires
    <3>1. Retry /\ UNCHANGED <<in_data_queue, stored, got, recv, reply>>
      BY <2>3 DEF SendBreaks, CheckExpires, queueVars
    <3>2. [Current EXCEPT ![3] = @ + 1] # Fetch
      BY DEF Current, Fetch
    <3>3. handler'[Fetch] = handler[Fetch]
      BY <3>1, <3>2, HandlerNames DEF Retry, Move, TypeOK
    <3>4. QED BY <2>f, <3>1, <3>3
  <2>4. ASSUME NEW h \in Handlers, ProcessReceivedData(h) PROVE FetchInv'
    <3>1. UNCHANGED <<got, recv, reply>> /\ handler'[Fetch] = handler[Fetch]
      BY <2>4, HandlerNames DEF ProcessReceivedData, taskVars, Move, TypeOK
    <3>2. Taken' = Taken /\ Len(in_data_queue') <= Len(stored')
      <4>1. Len(stored') = Len(stored) + 1 /\ Len(in_data_queue') = Len(in_data_queue) + 1
        BY <2>4, StoreEffect
      <4>2. Taken' = Len(stored') - Len(in_data_queue') /\ Taken = Len(stored) - Len(in_data_queue)
        BY DEF Taken
      <4>3. QED BY <2>t, <4>1, <4>2
    <3>3. Taken + Len(in_data_queue) = Len(stored) /\ Taken <= Len(stored)
      BY <2>t
    <3>4. \A k \in DOMAIN in_data_queue' : in_data_queue'[k] = stored'[Taken + k]
      <4> SUFFICES ASSUME NEW k \in DOMAIN in_data_queue' PROVE in_data_queue'[k] = stored'[Taken + k]
        OBVIOUS
      <4>1. CASE k \in DOMAIN in_data_queue
        <5>1. Taken + k \in DOMAIN stored
          BY <2>t, <3>3, <4>1
        <5>2. QED BY <2>4, <4>1, <5>1, StoreEffect DEF FetchInv
      <4>2. CASE k = Len(in_data_queue) + 1
        <5>1. Taken + k = Len(stored) + 1
          BY <2>t, <3>3, <4>2
        <5>2. QED BY <2>4, <4>2, <5>1, StoreEffect
      <4>3. QED BY <2>t, <2>4, <4>1, <4>2, StoreEffect
    <3>5. \A k \in 1..Taken : stored'[k] = stored[k]
      BY <2>t, <2>4, <3>3, StoreEffect
    <3>6. \A k \in DOMAIN got : got[k] = stored'[k]
      <4>1. \A k \in DOMAIN got : got[k] = stored[k]
        BY Zenon DEF FetchInv
      <4>2. \A k \in DOMAIN got : k \in 1..Taken
        BY <2>t
      <4>3. QED BY <3>5, <4>1, <4>2
    <3>7. recv = "calling" /\ handler[Fetch] = "done" /\ reply # Empty => reply = stored'[Taken]
      <4>1. recv = "calling" /\ handler[Fetch] = "done" /\ reply # Empty
               => Len(got) + 1 = Taken /\ reply = stored[Taken]
        BY Zenon DEF FetchInv
      <4>2. QED BY <2>t, <3>5, <4>1
    <3>8. QED BY <3>1, <3>2, <3>4, <3>6, <3>7 DEF FetchInv
  <2>5. ASSUME NEW h \in Handlers, Serving(h), ~ProcessReceivedData(h) PROVE FetchInv'
    <3>1. UNCHANGED <<in_data_queue, stored, got, recv, reply>>
      BY <2>5, ServingQueue, ServingEffect
    <3>2. handler'[Fetch] = "done" <=> handler[Fetch] = "done"
      BY <2>5, ServingQueue, ServingEffect, HandlerNames
    <3>3. QED BY <3>1, <3>2 DEF FetchInv, Taken
  <2>6. CASE ProcessForwardData
    <3>1. /\ handler[Fetch] = "holding" /\ handler'[Fetch] = "done" /\ recv # "idle"
          /\ UNCHANGED <<stored, recv, got>>
      BY <2>6, ForwardEffect DEF CallInv
    <3>2. recv = "calling" => Len(got) = Taken
      BY <3>1 DEF FetchInv
    <3>3. CASE reply' = Empty /\ UNCHANGED in_data_queue
      BY <3>1, <3>2, <3>3 DEF FetchInv, Taken
    <3>4. CASE in_data_queue # <<>> /\ reply' = Head(in_data_queue) /\ in_data_queue' = Tail(in_data_queue)
      <4>1. in_data_queue \in Seq(Copies)
        BY DEF TypeOK
      <4>2. /\ Head(in_data_queue) \in Copies /\ Head(in_data_queue) = in_data_queue[1]
            /\ Len(in_data_queue') = Len(in_data_queue) - 1 /\ Len(in_data_queue) \in Nat \ {0}
            /\ DOMAIN in_data_queue' = 1..(Len(in_data_queue) - 1)
            /\ \A k \in DOMAIN in_data_queue' : k + 1 \in DOMAIN in_data_queue
                                                /\ in_data_queue'[k] = in_data_queue[k + 1]
        BY <3>4, <4>1, Popped
      <4>3. Taken' = Taken + 1 /\ Len(in_data_queue') <= Len(stored')
        <5>1. Taken' = Len(stored') - Len(in_data_queue') /\ Taken = Len(stored) - Len(in_data_queue)
          BY DEF Taken
        <5>2. QED BY <2>t, <3>1, <4>2, <5>1
      <4>4. reply' # Empty /\ reply' = stored[Taken + 1]
        <5>1. 1 \in DOMAIN in_data_queue
          BY <2>t, <4>2
        <5>2. in_data_queue[1] = stored[Taken + 1]
          BY <5>1, Zenon DEF FetchInv
        <5>3. QED BY <3>4, <4>2, <5>2, CopyType
      <4>5. \A k \in DOMAIN in_data_queue' : in_data_queue'[k] = stored[Taken' + k]
        <5>1. ASSUME NEW k \in DOMAIN in_data_queue' PROVE in_data_queue'[k] = stored[Taken' + k]
          <6>1. Taken' + k = Taken + (k + 1)
            BY <2>t, <4>2, <4>3
          <6>2. QED BY <4>2, <6>1 DEF FetchInv
        <5>2. QED BY <5>1
      <4>6. Len(got) <= Taken' /\ (recv = "calling" => Len(got) + 1 = Taken' /\ reply' = stored[Taken'])
        <5>1. Len(got) <= Taken' /\ (recv = "calling" => Len(got) + 1 = Taken')
          <6>1. Taken' = Taken + 1 /\ Taken \in Nat /\ Len(got) \in Nat /\ Len(got) <= Taken
            BY <2>t, <4>3, Zenon
          <6>2. QED BY <3>2, <6>1
        <5>2. reply' = stored[Taken']
          BY <4>3, <4>4, Zenon
        <5>3. QED BY <5>1, <5>2
      <4>7. \A k \in DOMAIN got : got[k] = stored[k]
        BY Zenon DEF FetchInv
      <4>8. QED BY <3>1, <4>3, <4>4, <4>5, <4>6, <4>7 DEF FetchInv
    <3>5. QED BY <2>6, <3>3, <3>4 DEF ProcessForwardData
  <2>7. CASE WorkerAdded \/ StatusTimesOut \/ WorkerRemoved \/ Clean
    BY <2>7, <2>f DEF WorkerAdded, StatusTimesOut, WorkerRemoved, Clean, queueVars, taskVars
  <2>8. CASE TaskEnds \/ RecvBreaks
    <3>1. UNCHANGED <<in_data_queue, stored, got, reply>> /\ recv' \in {"ended", "failed"}
      BY <2>8 DEF TaskEnds, RecvBreaks, queueVars
    <3>2. QED BY <3>1 DEF FetchInv, Taken
  <2>9. CASE RecvBegins
    <3>1. UNCHANGED <<in_data_queue, stored, got, reply>> /\ recv = "idle" /\ recv' = "calling"
      BY <2>9 DEF RecvBegins, queueVars
    <3>2. handler'[Fetch] = "sent"
      BY <2>9, HandlerNames, MoveEffect DEF RecvBegins
    <3>3. QED BY <3>1, <3>2 DEF FetchInv, Taken
  <2>10. CASE RecvAnswered
    <3>1. UNCHANGED <<in_data_queue, stored>> /\ recv = "calling"
      BY <2>10 DEF RecvAnswered, queueVars
    <3>2. CASE handler[Fetch] = "refused" \/ reply = Empty
      <4>1. recv' = "failed" /\ got' = got
        BY <2>10, <3>2 DEF RecvAnswered
      <4>2. QED BY <3>1, <4>1 DEF FetchInv, Taken
    <3>3. CASE handler[Fetch] # "refused" /\ reply # Empty
      <4>1. recv' = "idle" /\ got' = Append(got, reply) /\ handler[Fetch] = "done"
        BY <2>10, <3>3 DEF RecvAnswered
      <4>2. Len(got) + 1 = Taken /\ reply = stored[Taken]
        BY <3>1, <3>3, <4>1 DEF FetchInv
      <4>3. got \in Seq(Copies) /\ reply \in Copies
        BY <3>3 DEF TypeOK
      <4>4. /\ Len(got') = Len(got) + 1 /\ \A k \in DOMAIN got : got'[k] = got[k]
            /\ got'[Len(got) + 1] = reply
            /\ \A k \in DOMAIN got' : k \in DOMAIN got \/ k = Len(got) + 1
        BY <4>1, <4>3, Pushed
      <4>5. \A k \in DOMAIN got' : got'[k] = stored[k]
        BY <4>2, <4>4 DEF FetchInv
      <4>6. Taken' = Taken
        BY <3>1 DEF Taken
      <4>7. Len(got') = Taken /\ Len(got') <= Taken
        BY <2>t, <4>2, <4>4
      <4>8. /\ Len(in_data_queue) <= Len(stored)
            /\ \A k \in DOMAIN in_data_queue : in_data_queue[k] = stored[Taken + k]
        BY Zenon DEF FetchInv
      <4>9. QED BY <3>1, <4>1, <4>5, <4>6, <4>7, <4>8 DEF FetchInv
    <3>4. QED BY <3>2, <3>3
  <2>11. CASE UNCHANGED vars
    BY <2>11, <2>f DEF vars, queueVars, taskVars
  <2>12. QED
    BY <2>1, <2>2, <2>3, <2>4, <2>5, <2>6, <2>7, <2>8, <2>9, <2>10, <2>11 DEF Next, Peer, Receiver
<1>3. QED BY <1>1, <1>2, TypeCorrect, CallInvHolds, PTL DEF Spec

(* The receiver gets what was queued, in order and without a gap.          *)
THEOREM ReceiverGetsQueue == Spec => []ReceivesStored
<1>1. TypeOK /\ FetchInv => ReceivesStored
  <2> SUFFICES ASSUME TypeOK, FetchInv PROVE ReceivesStored
    OBVIOUS
  <2>1. /\ Len(stored) \in Nat /\ DOMAIN stored = 1..Len(stored)
        /\ Len(in_data_queue) \in Nat /\ Len(got) \in Nat /\ DOMAIN got = 1..Len(got)
    BY Lengths
  <2>2. Len(got) <= Len(stored)
    BY <2>1, TakenPart
  <2>3. \A k \in 1..Len(got) : stored[k] \in Copies
    BY <2>1, <2>2, ElementOfSeq DEF TypeOK
  <2>4. /\ SubSeq(stored, 1, Len(got)) \in Seq(Copies)
        /\ Len(SubSeq(stored, 1, Len(got))) = Len(got)
        /\ \A k \in 1..Len(got) : SubSeq(stored, 1, Len(got))[k] = stored[k]
    BY <2>1, <2>3, SubSeqProperties
  <2>5. got = SubSeq(stored, 1, Len(got))
    <3>1. \A k \in 1..Len(got) : got[k] = stored[k]
      BY <2>1, Zenon DEF FetchInv
    <3>2. got \in Seq(Copies)
      BY DEF TypeOK
    <3>3. QED BY <2>1, <2>4, <3>1, <3>2, SeqEqual
  <2>6. QED BY <2>2, <2>5 DEF ReceivesStored
<1>2. QED BY <1>1, TypeCorrect, FetchInvHolds, PTL

-----------------------------------------------------------------------------
(* A call starts a handler that was not there before.                      *)
LEMMA NewCall ==
  ASSUME TypeOK, CallInv, SendBegins \/ CheckBegins \/ SendBreaks \/ CheckExpires
  PROVE  \/ handler' = handler
         \/ \E n \in Sends \cup Checks :
              /\ handler[n] = "none" /\ handler'[n] = "sent"
              /\ \A g \in Handlers : g # n => handler'[g] = handler[g]
<1>t. /\ sender.block \in 0..NumBlocks /\ sender.try \in 0..MaxTries
      /\ NumBlocks \in Nat \ {0} /\ MaxTries \in Nat \ {0}
      /\ Blocks = 1..NumBlocks /\ Tries = 1..MaxTries
  BY LinkAssumption DEF TypeOK, Blocks, Tries
<1>1. CASE SendBegins
  <2> DEFINE n == <<"Send", sender.block + 1, 1>>
  <2>1. n \in Sends /\ n \in Handlers /\ n[2] = sender.block + 1
    <3>1. sender.block + 1 \in Blocks /\ 1 \in Tries
      BY <1>1, <1>t DEF SendBegins
    <3>2. QED BY <3>1, HandlerNames
  <2>2. Move(n, "sent")
    BY <1>1 DEF SendBegins
  <2> HIDE DEF n
  <2>3. handler[n] = "none"
    BY <1>t, <2>1 DEF CallInv
  <2>4. QED BY <2>1, <2>2, <2>3, MoveEffect
<1>2. CASE CheckBegins
  <2> DEFINE n == <<"CompleteStatus", 0, 1>>
  <2>1. n \in Checks /\ n \in Handlers
    <3>1. 1 \in Tries
      BY <1>t
    <3>2. QED BY <3>1, HandlerNames
  <2>2. Move(n, "sent") /\ sender.at = "idle"
    BY <1>2 DEF CheckBegins
  <2> HIDE DEF n
  <2>3. handler[n] = "none"
    BY <2>1, <2>2 DEF CallInv
  <2>4. QED BY <2>1, <2>2, <2>3, MoveEffect
<1>3. CASE SendBreaks \/ CheckExpires
  <2>1. sender.at \in {"sending", "checking"} /\ Retry
    BY <1>3 DEF SendBreaks, CheckExpires
  <2>2. CASE handler' = handler
    BY <2>2
  <2>3. CASE /\ sender.try < MaxTries /\ sender' = [sender EXCEPT !.try = sender.try + 1]
             /\ handler'[Current'] = "sent" /\ Current' \in Handlers
             /\ \A g \in Handlers : g # Current' => handler'[g] = handler[g]
    <3> DEFINE n == Current'
    <3>1. sender'.at = sender.at /\ sender'.block = sender.block /\ sender'.try = sender.try + 1
      BY <2>3 DEF TypeOK
    <3>2. sender.try + 1 \in Tries
      BY <1>t, <2>3
    <3>3. CASE sender.at = "sending"
      <4>1. n = <<"Send", sender.block, sender.try + 1>> /\ sender.block \in Blocks
        BY <3>1, <3>3 DEF Current, CallInv
      <4>2. n \in Sends /\ n[2] = sender.block /\ n[3] = sender.try + 1
        BY <3>2, <4>1, HandlerNames
      <4>3. handler'[n] = "sent" /\ \A g \in Handlers : g # n => handler'[g] = handler[g]
        BY <2>3
      <4> HIDE DEF n
      <4>4. handler[n] = "none"
        BY <1>t, <3>3, <4>2 DEF CallInv
      <4>5. QED BY <4>2, <4>3, <4>4
    <3>4. CASE sender.at = "checking"
      <4>1. n = <<"CompleteStatus", 0, sender.try + 1>>
        BY <3>1, <3>4 DEF Current
      <4>2. n \in Checks /\ n[3] = sender.try + 1
        BY <3>2, <4>1, HandlerNames
      <4>3. handler'[n] = "sent" /\ \A g \in Handlers : g # n => handler'[g] = handler[g]
        BY <2>3
      <4> HIDE DEF n
      <4>4. handler[n] = "none"
        BY <1>t, <3>4, <4>2 DEF CallInv
      <4>5. QED BY <4>2, <4>3, <4>4
    <3>5. QED BY <2>1, <3>3, <3>4
  <2>4. QED BY <2>1, <2>2, <2>3, RetryEffect
<1>4. QED BY <1>1, <1>2, <1>3

(* What a step does to the handlers of the sender's calls: one that is     *)
(* through stays so, and a Send handler gets through by storing its block. *)
LEMMA StepEffect ==
  ASSUME TypeOK, CallInv, [Next]_vars
  PROVE  /\ \A g \in Sends \cup Checks : handler[g] \in {"done", "refused"} => handler'[g] = handler[g]
         /\ cut \subseteq cut'
         /\ \/ \E h \in Sends : ProcessReceivedData(h)
            \/ /\ stored' = stored
               /\ \A g \in Sends : handler'[g] = "done" => handler[g] = "done"
<1>1. CASE SendBegins \/ CheckBegins \/ SendBreaks \/ CheckExpires
  <2>1. stored' = stored /\ cut' = cut
    BY <1>1 DEF SendBegins, CheckBegins, SendBreaks, CheckExpires, queueVars
  <2>2. \A g \in Sends \cup Checks : g \in Handlers
    BY HandlerNames
  <2>3. QED BY <1>1, <2>1, <2>2, NewCall
<1>2. ASSUME NEW h \in Handlers, Serving(h)
      PROVE  /\ \A g \in Sends \cup Checks : handler[g] \in {"done", "refused"} => handler'[g] = handler[g]
             /\ cut \subseteq cut'
             /\ \/ \E g \in Sends : ProcessReceivedData(g)
                \/ /\ stored' = stored
                   /\ \A g \in Sends : handler'[g] = "done" => handler[g] = "done"
  <2>1. \A g \in Sends \cup Checks : g \in Handlers
    BY HandlerNames
  <2>2. /\ handler[h] \in {"sent", "waiting", "found", "holding", "counting"}
        /\ \A g \in Handlers : g # h => handler'[g] = handler[g]
        /\ cut \subseteq cut'
    BY <1>2, ServingEffect
  <2>3. CASE ProcessReceivedData(h)
    <3>1. h \in Sends
      BY <2>3 DEF ProcessReceivedData
    <3>2. QED BY <2>1, <2>2, <2>3, <3>1
  <2>4. CASE UNCHANGED <<in_data_queue, stored>> /\ (handler'[h] = "done" => h \in Checks)
    <3>1. \A g \in Sends : g \notin Checks
      BY HandlerNames
    <3>2. QED BY <2>1, <2>2, <2>4, <3>1
  <2>5. QED BY <1>2, <2>3, <2>4, ServingQueue
<1>3. CASE ProcessForwardData \/ RecvBegins
  <2>1. stored' = stored /\ cut' = cut
    BY <1>3 DEF ProcessForwardData, RecvBegins, queueVars
  <2>2. \A g \in Sends \cup Checks : handler'[g] = handler[g]
    <3>1. \A g \in Handlers : g # Fetch => handler'[g] = handler[g]
      BY <1>3, ForwardEffect, MoveEffect, HandlerNames DEF RecvBegins
    <3>2. QED BY <3>1, HandlerNames
  <2>3. QED BY <2>1, <2>2
<1>4. CASE \/ CallAnswered \/ WorkerAdded \/ TaskEnds \/ StatusTimesOut \/ WorkerRemoved \/ Clean
           \/ RecvAnswered \/ RecvBreaks \/ UNCHANGED vars
  <2>1. stored' = stored /\ cut' = cut /\ handler' = handler
    BY <1>4 DEF CallAnswered, WorkerAdded, TaskEnds, StatusTimesOut, WorkerRemoved, Clean,
                RecvAnswered, RecvBreaks, vars, queueVars
  <2>2. QED BY <2>1
<1>5. QED BY <1>1, <1>2, <1>3, <1>4 DEF Next, Peer, Receiver

(* What is stored stays where it is.                                       *)
LEMMA StoredStays ==
  ASSUME TypeOK, CallInv, [Next]_vars
  PROVE  /\ \A i \in DOMAIN stored : i \in DOMAIN stored' /\ stored'[i] = stored[i]
         /\ \A k : Present(k) => Present(k)'
<1>1. \A i \in DOMAIN stored : i \in DOMAIN stored' /\ stored'[i] = stored[i]
  <2>1. ASSUME NEW h \in Sends, ProcessReceivedData(h)
        PROVE  \A i \in DOMAIN stored : i \in DOMAIN stored' /\ stored'[i] = stored[i]
    <3>1. h \in Handlers
      BY HandlerNames
    <3>2. /\ Len(stored) \in Nat
          /\ DOMAIN stored = 1..Len(stored) /\ DOMAIN stored' = 1..(Len(stored) + 1)
          /\ \A k \in DOMAIN stored : stored'[k] = stored[k]
      BY <2>1, <3>1, StoreEffect
    <3>3. QED BY <3>2
  <2>2. QED BY <2>1, StepEffect
<1>2. QED BY <1>1 DEF Present

(* OrderInv is inductive.                                                  *)
LEMMA OrderInvHolds == Spec => []OrderInv
<1>1. Init => OrderInv
  <2> SUFFICES ASSUME Init PROVE OrderInv
    OBVIOUS
  <2>1. stored = <<>> /\ DOMAIN stored = {} /\ sender.block = 0
    <3>1. stored = <<>> /\ sender.block = 0
      BY DEF Init
    <3>2. QED BY <3>1, EmptySeq
  <2>2. DoneStored
    BY HandlerNames DEF Init, DoneStored
  <2>3. SentStored
    BY <2>1, LinkAssumption DEF SentStored, Behind, Blocks
  <2>4. StoredSent /\ FirstCopiesInOrder
    BY <2>1 DEF StoredSent, FirstCopiesInOrder
  <2>5. QED BY <2>2, <2>3, <2>4 DEF OrderInv
<1>2. TypeOK /\ CallInv /\ OrderInv /\ [Next]_vars => OrderInv'
  <2> SUFFICES ASSUME TypeOK, CallInv, OrderInv, [Next]_vars PROVE OrderInv'
    OBVIOUS
  <2>t. /\ sender.block \in 0..NumBlocks /\ NumBlocks \in Nat \ {0} /\ Blocks = 1..NumBlocks
        /\ Len(stored) \in Nat /\ DOMAIN stored = 1..Len(stored)
    BY LinkAssumption, Lengths DEF TypeOK, Blocks
  <2>c. \A i \in DOMAIN stored : stored[i] \in Copies /\ stored[i].block \in Blocks
    <3>1. \A i \in DOMAIN stored : stored[i] \in Copies
      BY <2>t, ElementOfSeq DEF TypeOK
    <3>2. QED BY <3>1 DEF Copies
  <2>r. \A k \in Blocks : Refused(k) => Refused(k)'
    BY StepEffect, HandlerNames DEF Refused
  <2>p. \A k : Present(k) => Present(k)'
    BY StoredStays
  <2>b. sender.block <= sender'.block /\ sender'.block \in Nat
    <3>1. CASE SendBegins
      BY <2>t, <3>1 DEF SendBegins
    <3>2. CASE ~SendBegins
      <4>1. sender'.block = sender.block
        <5>1. CASE CheckBegins \/ CallAnswered
          BY <5>1 DEF CheckBegins, CallAnswered, TypeOK
        <5>2. CASE SendBreaks \/ CheckExpires
          BY <5>2 DEF SendBreaks, CheckExpires, Retry, TypeOK
        <5>3. CASE \E h \in Handlers : Serving(h)
          BY <5>3, ServingEffect
        <5>4. CASE ProcessForwardData
          BY <5>4, ForwardEffect
        <5>5. CASE \/ WorkerAdded \/ TaskEnds \/ StatusTimesOut \/ WorkerRemoved \/ Clean
                   \/ RecvBegins \/ RecvAnswered \/ RecvBreaks \/ UNCHANGED vars
          BY <5>5 DEF WorkerAdded, TaskEnds, StatusTimesOut, WorkerRemoved, Clean,
                      RecvBegins, RecvAnswered, RecvBreaks, vars, taskVars
        <5>6. QED BY <3>2, <5>1, <5>2, <5>3, <5>4, <5>5 DEF Next, Peer, Receiver
      <4>2. QED BY <2>t, <4>1
    <3>3. QED BY <3>1, <3>2
  <2>1. SentStored'
    <3> SUFFICES ASSUME NEW k \in Blocks, Behind(k)' PROVE Refused(k)' \/ Present(k)'
      BY DEF SentStored
    <3>1. CASE Behind(k)
      BY <2>r, <2>p, <3>1 DEF OrderInv, SentStored
    <3>2. CASE ~Behind(k)
      <4>1. CASE SendBegins
        BY <2>t, <3>2, <4>1 DEF SendBegins, Behind
      <4>2. CASE CheckBegins
        BY <3>2, <4>2 DEF CheckBegins, Behind, TypeOK
      <4>3. CASE CallAnswered
        <5>1. sender'.block = sender.block /\ handler' = handler
          BY <4>3 DEF CallAnswered, TypeOK
        <5>2. sender.at = "sending" /\ k = sender.block
          BY <2>t, <3>2, <4>3, <5>1 DEF CallAnswered, Behind, TypeOK
        <5>3. Current \in Sends /\ Current[2] = k /\ Current = <<"Send", k, sender.try>> /\ sender.try \in Tries
          BY <5>2, HandlerNames DEF Current, CallInv
        <5>4. Current \notin cut /\ handler[Current] \in {"done", "refused"}
          BY <4>3, <5>2 DEF CallInv, CallAnswered
        <5>5. CASE handler[Current] = "done"
          BY <2>p, <5>3, <5>4, <5>5 DEF OrderInv, DoneStored
        <5>6. CASE handler[Current] = "refused"
          BY <5>1, <5>3, <5>6 DEF Refused
        <5>7. QED BY <5>4, <5>5, <5>6
      <4>4. CASE SendBreaks \/ CheckExpires
        BY <3>2, <4>4 DEF SendBreaks, CheckExpires, Retry, Behind, TypeOK
      <4>5. CASE \E h \in Handlers : Serving(h)
        BY <3>2, <4>5, ServingEffect DEF Behind
      <4>6. CASE ProcessForwardData
        BY <3>2, <4>6, ForwardEffect DEF Behind
      <4>7. CASE \/ WorkerAdded \/ TaskEnds \/ StatusTimesOut \/ WorkerRemoved \/ Clean
                 \/ RecvBegins \/ RecvAnswered \/ RecvBreaks \/ UNCHANGED vars
        BY <3>2, <4>7 DEF WorkerAdded, TaskEnds, StatusTimesOut, WorkerRemoved, Clean,
                    RecvBegins, RecvAnswered, RecvBreaks, vars, taskVars, Behind
      <4>8. QED BY <4>1, <4>2, <4>3, <4>4, <4>5, <4>6, <4>7 DEF Next, Peer, Receiver
    <3>3. QED BY <3>1, <3>2
  <2>2. CASE \E h \in Sends : ProcessReceivedData(h)
    <3>1. PICK h \in Sends : ProcessReceivedData(h)
      BY <2>2
    <3>2. h \in Handlers /\ handler[h] = "holding" /\ h[2] \in Blocks /\ sender' = sender
      BY <3>1, HandlerNames DEF ProcessReceivedData, taskVars
    <3>3. h[2] <= sender.block
      BY <3>2 DEF CallInv
    <3>4. /\ DOMAIN stored' = 1..(Len(stored) + 1) /\ stored'[Len(stored) + 1] = Copy(h)
          /\ \A k \in DOMAIN stored : stored'[k] = stored[k]
          /\ handler'[h] = "done" /\ cut' = cut
      BY <3>1, <3>2, StoreEffect
    <3>5. Copy(h).block = h[2] /\ Copy(h) = [block |-> h[2], whole |-> h \notin cut]
      BY DEF Copy
    <3>6. \A i \in DOMAIN stored' : i \in DOMAIN stored \/ i = Len(stored) + 1
      BY <2>t, <3>4
    <3>7. DoneStored'
      <4> SUFFICES ASSUME NEW g \in Sends, handler'[g] = "done", g \notin cut' PROVE Present(g[2])'
        BY DEF DoneStored
      <4>1. CASE g = h
        <5>1. stored'[Len(stored) + 1] = [block |-> g[2], whole |-> TRUE]
          BY <3>4, <3>5, <4>1
        <5>2. Len(stored) + 1 \in DOMAIN stored'
          BY <2>t, <3>4
        <5>3. QED BY <5>1, <5>2 DEF Present
      <4>2. CASE g # h
        <5>1. handler'[g] = handler[g]
          BY <3>1, <4>2, HandlerNames, MoveEffect DEF ProcessReceivedData
        <5>2. QED BY <2>p, <3>4, <5>1 DEF OrderInv, DoneStored
      <4>3. QED BY <4>1, <4>2
    <3>8. StoredSent'
      BY <3>2, <3>3, <3>4, <3>5, <3>6 DEF OrderInv, StoredSent
    <3>9. FirstCopiesInOrder'
      <4> SUFFICES ASSUME NEW i \in DOMAIN stored', NEW k \in 1..(stored'[i].block - 1)
                   PROVE  \/ \E j \in 1..(i - 1) : stored'[j] = [block |-> k, whole |-> TRUE]
                          \/ Refused(k)'
        BY DEF FirstCopiesInOrder
      <4>1. CASE i \in DOMAIN stored
        <5>1. k \in 1..(stored[i].block - 1) /\ stored[i].block \in Blocks
          BY <2>c, <3>4, <4>1
        <5>2. k \in Blocks
          BY <2>t, <5>1
        <5>3. CASE \E j \in 1..(i - 1) : stored[j] = [block |-> k, whole |-> TRUE]
          <6>1. PICK j \in 1..(i - 1) : stored[j] = [block |-> k, whole |-> TRUE]
            BY <5>3
          <6>2. j \in DOMAIN stored
            BY <2>t, <4>1
          <6>3. QED BY <3>4, <6>1, <6>2
        <5>4. CASE Refused(k)
          BY <2>r, <5>2, <5>4
        <5>5. QED BY <4>1, <5>1, <5>3, <5>4 DEF OrderInv, FirstCopiesInOrder
      <4>2. CASE i = Len(stored) + 1
        <5>1. k \in 1..(h[2] - 1)
          BY <3>4, <3>5, <4>2
        <5>2. k \in Blocks /\ k < sender.block
          BY <2>t, <3>2, <3>3, <5>1
        <5>3. Refused(k) \/ Present(k)
          BY <5>2 DEF OrderInv, SentStored, Behind
        <5>4. CASE Refused(k)
          BY <2>r, <5>2, <5>4
        <5>5. CASE Present(k)
          <6>1. PICK j \in DOMAIN stored : stored[j] = [block |-> k, whole |-> TRUE]
            BY <5>5 DEF Present
          <6>2. j \in 1..(i - 1)
            BY <2>t, <4>2
          <6>3. QED BY <3>4, <6>1, <6>2
        <5>6. QED BY <5>3, <5>4, <5>5
      <4>3. QED BY <3>6, <4>1, <4>2
    <3>10. QED BY <2>1, <3>7, <3>8, <3>9 DEF OrderInv
  <2>3. CASE stored' = stored /\ \A g \in Sends : handler'[g] = "done" => handler[g] = "done"
    <3>1. DoneStored'
      BY <2>p, <2>3, StepEffect DEF OrderInv, DoneStored
    <3>2. StoredSent'
      <4>1. \A i \in DOMAIN stored : stored[i].block <= sender.block /\ stored[i].block \in Nat
        BY <2>t, <2>c DEF OrderInv, StoredSent
      <4>2. QED BY <2>t, <2>3, <2>b, <4>1 DEF StoredSent
    <3>3. FirstCopiesInOrder'
      <4> SUFFICES ASSUME NEW i \in DOMAIN stored, NEW k \in 1..(stored[i].block - 1)
                   PROVE  \/ \E j \in 1..(i - 1) : stored[j] = [block |-> k, whole |-> TRUE]
                          \/ Refused(k)'
        BY <2>3 DEF FirstCopiesInOrder
      <4>1. k \in Blocks
        BY <2>t, <2>c
      <4>2. QED BY <2>r, <4>1 DEF OrderInv, FirstCopiesInOrder
    <3>4. QED BY <2>1, <3>1, <3>2, <3>3 DEF OrderInv
  <2>4. QED BY <2>2, <2>3, StepEffect
<1>3. QED BY <1>1, <1>2, TypeCorrect, CallInvHolds, PTL DEF Spec

(* When a block is queued every earlier one is there in full, unless the   *)
(* node refused it, whatever calls break and whichever handlers are late.  *)
THEOREM FirstCopiesComeInOrder == Spec => []FirstCopiesInOrder
<1>1. OrderInv => FirstCopiesInOrder
  BY DEF OrderInv
<1>2. QED BY <1>1, OrderInvHolds, PTL

-----------------------------------------------------------------------------
(* MarkInv is inductive.                                                   *)
LEMMA MarkInvHolds == Spec => []MarkInv
<1>1. Init => MarkInv
  <2> SUFFICES ASSUME Init PROVE MarkInv
    OBVIOUS
  <2>1. Taken = 0
    BY EmptySeq DEF Init, Taken
  <2>2. \A h \in Checks : count[h] = 0 /\ handler[h] = "none"
    BY HandlerNames DEF Init
  <2>3. complete_queue = 0 /\ complete_made = "none" /\ sender.at = "idle"
    BY DEF Init
  <2>4. \A h \in Checks : complete_queue + count[h] <= Taken
    BY <2>1, <2>2, <2>3
  <2>5. QED BY <2>2, <2>3, <2>4 DEF MarkInv
<1>2. TypeOK /\ CallInv /\ FetchInv /\ MarkInv /\ [Next]_vars => MarkInv'
  <2> SUFFICES ASSUME TypeOK, CallInv, FetchInv, MarkInv, [Next]_vars PROVE MarkInv'
    OBVIOUS
  <2>t. /\ complete_queue \in Nat /\ Taken \in Nat /\ Len(stored) \in Nat /\ Len(in_data_queue) \in Nat
        /\ \A h \in Checks : count[h] \in Nat
    BY Lengths, TakenPart, LinkAssumption DEF TypeOK
  <2>e. \A g \in Checks : handler[g] \in {"done", "refused"} => handler'[g] = handler[g]
    BY StepEffect
  <2>s. ASSUME sender' = sender
        PROVE  sender'.at = "done" => handler'[<<"CompleteStatus", 0, sender'.try>>] \in {"done", "refused"}
    BY <2>e, <2>s, HandlerNames DEF MarkInv, CallInv
  <2>f. ASSUME UNCHANGED <<in_data_queue, stored, complete_queue, complete_made, count, stop_>>,
               \A h \in Checks : handler'[h] = "done" => handler[h] = "done",
               sender'.at = "done" => handler'[<<"CompleteStatus", 0, sender'.try>>] \in {"done", "refused"}
        PROVE  MarkInv'
    <3>1. Taken' = Taken
      BY <2>f DEF Taken
    <3>2. QED BY <2>f, <3>1 DEF MarkInv
  <2>1. CASE SendBegins \/ CheckBegins \/ SendBreaks \/ CheckExpires
    <3>1. UNCHANGED <<in_data_queue, stored, complete_queue, complete_made, count, stop_>>
      BY <2>1 DEF SendBegins, CheckBegins, SendBreaks, CheckExpires, queueVars, nodeVars
    <3>2. \A h \in Checks : handler'[h] = "done" => handler[h] = "done"
      BY <2>1, NewCall, HandlerNames
    <3>3. sender'.at # "done"
      <4>1. CASE SendBegins \/ CheckBegins
        <5>1. CASE SendBegins
          BY <5>1 DEF SendBegins
        <5>2. CASE CheckBegins
          BY <5>2 DEF CheckBegins, TypeOK
        <5>3. QED BY <4>1, <5>1, <5>2
      <4>2. CASE SendBreaks \/ CheckExpires
        <5>1. sender.at \in {"sending", "checking"} /\ Retry
          BY <4>2 DEF SendBreaks, CheckExpires
        <5>2. sender' = [sender EXCEPT !.try = sender.try + 1] \/ sender' = [sender EXCEPT !.at = "failed"]
          BY <5>1 DEF Retry
        <5>3. QED BY <5>1, <5>2 DEF TypeOK
      <4>3. QED BY <2>1, <4>1, <4>2
    <3>4. QED BY <2>f, <3>1, <3>2, <3>3
  <2>2. CASE CallAnswered
    <3>1. /\ UNCHANGED <<in_data_queue, stored, complete_queue, complete_made, count, stop_, handler>>
          /\ sender'.try = sender.try /\ handler[Current] \in {"done", "refused"}
          /\ sender'.at = "done" => sender.at = "checking"
      BY <2>2 DEF CallAnswered, queueVars, nodeVars, TypeOK
    <3>2. sender.at = "checking" => Current = <<"CompleteStatus", 0, sender.try>>
      BY DEF Current
    <3>3. QED BY <2>f, <3>1, <3>2
  <2>3. ASSUME NEW h \in Handlers,
               HandlerReads(h) \/ WorkerIsReady(h) \/ WaitTimesOut(h) \/ GetWorker(h)
        PROVE  MarkInv'
    <3>1. UNCHANGED <<in_data_queue, stored, complete_queue, complete_made, count, stop_, sender>>
      BY <2>3 DEF HandlerReads, WorkerIsReady, WaitTimesOut, GetWorker, queueVars, nodeVars, taskVars
    <3>2. \A g \in Handlers : handler'[g] = "done" => handler[g] = "done"
      BY <2>3 DEF HandlerReads, WorkerIsReady, WaitTimesOut, GetWorker, Move, TypeOK
    <3>3. QED BY <2>f, <2>s, <3>1, <3>2, HandlerNames
  <2>4. ASSUME NEW h \in Handlers, ProcessReceivedData(h) PROVE MarkInv'
    <3>1. UNCHANGED <<complete_queue, complete_made, count, stop_, sender>> /\ h \in Sends
      BY <2>4 DEF ProcessReceivedData, nodeVars, taskVars
    <3>2. \A g \in Checks : handler'[g] = handler[g]
      BY <2>4, <3>1, HandlerNames, MoveEffect DEF ProcessReceivedData
    <3>3. Taken' = Taken
      <4>1. Len(stored') = Len(stored) + 1 /\ Len(in_data_queue') = Len(in_data_queue) + 1
        BY <2>4, StoreEffect
      <4>2. Taken' = Len(stored') - Len(in_data_queue') /\ Taken = Len(stored) - Len(in_data_queue)
        BY DEF Taken
      <4>3. QED BY <2>t, <4>1, <4>2
    <3>4. QED BY <2>s, <3>1, <3>2, <3>3 DEF MarkInv
  <2>5. ASSUME NEW h \in Handlers, CheckOpens(h) PROVE MarkInv'
    <3>1. /\ UNCHANGED <<in_data_queue, stored, complete_queue, count, stop_, sender>>
          /\ complete_made' = "shut" => complete_made = "shut"
      BY <2>5 DEF CheckOpens, nodeVars, taskVars
    <3>2. \A g \in Handlers : handler'[g] = "done" => handler[g] = "done"
      BY <2>5 DEF CheckOpens, Move, TypeOK
    <3>3. Taken' = Taken
      BY <3>1 DEF Taken
    <3>4. QED BY <2>s, <3>1, <3>2, <3>3, HandlerNames DEF MarkInv
  <2>6. ASSUME NEW h \in Handlers, ProcessCompleteStatus(h) PROVE MarkInv'
    <3>1. /\ UNCHANGED <<in_data_queue, stored, complete_made, stop_, sender>> /\ h \in Checks
          /\ handler[h] = "counting"
      BY <2>6 DEF ProcessCompleteStatus, nodeVars, taskVars
    <3>2. Taken' = Taken
      BY <3>1 DEF Taken
    <3>3. CASE count[h] = NumBlocks /\ UNCHANGED <<count, complete_queue>> /\ Move(h, "done")
      <4>1. \A g \in Checks : handler'[g] = "done" => g = h \/ handler[g] = "done"
        BY <3>3, HandlerNames, MoveEffect
      <4>2. QED BY <2>s, <3>1, <3>2, <3>3, <4>1 DEF MarkInv
    <3>4. CASE /\ count' = [count EXCEPT ![h] = count[h] + 1] /\ handler' = handler
               /\ \/ complete_made = "shut"
                  \/ complete_queue > 0 /\ complete_queue' = complete_queue - 1
      <4>1. count'[h] = count[h] + 1 /\ \A g \in Checks : g # h => count'[g] = count[g]
        BY <3>1, <3>4 DEF TypeOK
      <4>2. stop_ = "no" => \A g \in Checks : complete_queue' + count'[g] <= Taken
        <5> SUFFICES ASSUME stop_ = "no", NEW g \in Checks PROVE complete_queue' + count'[g] <= Taken
          OBVIOUS
        <5>1. complete_queue > 0 /\ complete_queue' = complete_queue - 1 /\ complete_queue + count[g] <= Taken
          BY <3>4 DEF MarkInv
        <5>2. count'[g] \in {count[g], count[g] + 1}
          BY <4>1
        <5>3. QED BY <2>t, <5>1, <5>2
      <4>3. \A g \in Checks : handler[g] = "done" => count'[g] = NumBlocks
        BY <3>1, <4>1 DEF MarkInv
      <4>4. QED BY <2>s, <3>1, <3>2, <3>4, <4>2, <4>3 DEF MarkInv
    <3>5. QED BY <2>6, <3>3, <3>4 DEF ProcessCompleteStatus
  <2>7. CASE ProcessForwardData
    <3>1. UNCHANGED <<stop_, stored, count, sender>> /\ \A g \in Checks : handler'[g] = handler[g]
      BY <2>7, ForwardEffect, HandlerNames
    <3>2. complete_queue' = complete_queue + 1 /\ (complete_made' = "shut" => complete_made = "shut")
      BY <2>7 DEF ProcessForwardData, Mark
    <3>3. stop_ = "no" => Taken' = Taken + 1
      <4> SUFFICES ASSUME stop_ = "no" PROVE Taken' = Taken + 1
        OBVIOUS
      <4>1. in_data_queue # <<>> /\ in_data_queue' = Tail(in_data_queue) /\ in_data_queue \in Seq(Copies)
        BY <2>7 DEF ProcessForwardData, TypeOK
      <4>2. Len(in_data_queue') = Len(in_data_queue) - 1
        BY <4>1, Popped
      <4>3. Taken' = Len(stored') - Len(in_data_queue') /\ Taken = Len(stored) - Len(in_data_queue)
        BY DEF Taken
      <4>4. QED BY <2>t, <3>1, <4>2, <4>3
    <3>4. stop_ = "no" => \A g \in Checks : complete_queue' + count[g] <= Taken'
      <4> SUFFICES ASSUME stop_ = "no", NEW g \in Checks PROVE complete_queue' + count[g] <= Taken'
        OBVIOUS
      <4>1. complete_queue + count[g] <= Taken
        BY DEF MarkInv
      <4>2. QED BY <2>t, <3>2, <3>3, <4>1
    <3>5. QED BY <2>s, <3>1, <3>2, <3>4 DEF MarkInv
  <2>8. CASE WorkerAdded \/ TaskEnds \/ StatusTimesOut \/ RecvAnswered \/ RecvBreaks \/ UNCHANGED vars
    <3>1. UNCHANGED <<in_data_queue, stored, complete_queue, complete_made, count, stop_, sender, handler>>
      BY <2>8 DEF WorkerAdded, TaskEnds, StatusTimesOut, RecvAnswered, RecvBreaks,
                  vars, queueVars, nodeVars, taskVars
    <3>2. QED BY <2>f, <2>s, <3>1
  <2>9. CASE WorkerRemoved \/ Clean
    <3>1. UNCHANGED <<in_data_queue, stored, complete_queue, count, sender, handler>>
      BY <2>9 DEF WorkerRemoved, Clean, queueVars, taskVars
    <3>2. (stop_' = "no" => stop_ = "no") /\ (complete_made' = "shut" => stop_' = "done")
      BY <2>9 DEF WorkerRemoved, Clean, CallInv, MarkInv, queueVars
    <3>3. Taken' = Taken
      BY <3>1 DEF Taken
    <3>4. QED BY <2>s, <3>1, <3>2, <3>3 DEF MarkInv
  <2>10. CASE RecvBegins
    <3>1. UNCHANGED <<in_data_queue, stored, complete_queue, complete_made, count, stop_, sender>>
      BY <2>10 DEF RecvBegins, queueVars, nodeVars
    <3>2. \A g \in Checks : handler'[g] = handler[g]
      BY <2>10, HandlerNames, MoveEffect DEF RecvBegins
    <3>3. QED BY <2>f, <2>s, <3>1, <3>2
  <2>11. QED
    BY <2>1, <2>2, <2>3, <2>4, <2>5, <2>6, <2>7, <2>8, <2>9, <2>10 DEF Next, Peer, Receiver, Serving
<1>3. QED BY <1>1, <1>2, TypeCorrect, CallInvHolds, FetchInvHolds, PTL DEF Spec

(* Short of a kill or a refusal, a positive CheckSendCompleteStatus is     *)
(* backed by as many fetched blocks as were sent, although its handlers    *)
(* outlive their calls and take marks from each other.                     *)
THEOREM CompletionIsBacked == Spec => []CompleteBacked
<1>1. TypeOK /\ CallInv /\ FetchInv /\ MarkInv => CompleteBacked
  <2> SUFFICES ASSUME TypeOK, CallInv, FetchInv, MarkInv,
                      sender.at = "done", stop_ = "no", \A h \in Checks : handler[h] # "refused"
               PROVE  Len(stored) - Len(in_data_queue) >= NumBlocks
    BY DEF CompleteBacked
  <2> DEFINE h == <<"CompleteStatus", 0, sender.try>>
  <2>1. h \in Checks
    BY HandlerNames DEF CallInv
  <2>2. handler[h] = "done"
    BY <2>1 DEF MarkInv
  <2> HIDE DEF h
  <2>3. complete_queue + NumBlocks <= Taken
    BY <2>1, <2>2 DEF MarkInv
  <2>4. complete_queue \in Nat /\ NumBlocks \in Nat /\ Taken \in Nat
    BY LinkAssumption, TakenPart DEF TypeOK
  <2>5. NumBlocks <= Taken
    BY <2>3, <2>4
  <2>6. QED BY <2>4, <2>5 DEF Taken
<1>2. QED BY <1>1, TypeCorrect, CallInvHolds, FetchInvHolds, MarkInvHolds, PTL

-----------------------------------------------------------------------------
(* Calls break one at a time.                                              *)
LEMMA StepBreaks ==
  ASSUME TypeOK, [Next]_vars
  PROVE  breaks \in Nat /\ (breaks' = breaks \/ breaks' = breaks + 1)
<1>1. breaks \in Nat
  BY LinkAssumption DEF TypeOK
<1>2. CASE \E h \in Handlers : Serving(h)
  BY <1>1, <1>2, ServingEffect
<1>3. CASE ProcessForwardData
  BY <1>1, <1>3, ForwardEffect
<1>4. CASE SendBreaks \/ CheckExpires \/ RecvBreaks
  BY <1>1, <1>4 DEF SendBreaks, CheckExpires, RecvBreaks
<1>5. CASE \/ SendBegins \/ CheckBegins \/ CallAnswered \/ WorkerAdded \/ TaskEnds \/ StatusTimesOut
           \/ WorkerRemoved \/ Clean \/ RecvBegins \/ RecvAnswered \/ UNCHANGED vars
  BY <1>1, <1>5 DEF SendBegins, CheckBegins, CallAnswered, WorkerAdded, TaskEnds, StatusTimesOut,
                    WorkerRemoved, Clean, RecvBegins, RecvAnswered, vars, taskVars
<1>6. QED BY <1>2, <1>3, <1>4, <1>5 DEF Next, Peer, Receiver

(* A fault is for good.                                                    *)
LEMMA FaultStays ==
  ASSUME TypeOK, CallInv, [Next]_vars, Faulty
  PROVE  Faulty'
<1>1. CASE breaks > 0
  <2>1. breaks \in Nat /\ (breaks' = breaks \/ breaks' = breaks + 1)
    BY StepBreaks
  <2>2. breaks' > 0
    BY <1>1, <2>1
  <2>3. QED BY <2>2 DEF Faulty
<1>2. CASE stop_ # "no"
  <2>1. stop_' # "no"
    <3>1. CASE \E h \in Handlers : Serving(h)
      BY <1>2, <3>1, ServingEffect
    <3>2. CASE ProcessForwardData
      BY <1>2, <3>2, ForwardEffect
    <3>3. CASE WorkerRemoved \/ Clean
      BY <1>2, <3>3 DEF WorkerRemoved, Clean, CallInv
    <3>4. CASE \/ SendBegins \/ CheckBegins \/ CallAnswered \/ SendBreaks \/ CheckExpires \/ WorkerAdded
               \/ TaskEnds \/ StatusTimesOut \/ RecvBegins \/ RecvAnswered \/ RecvBreaks \/ UNCHANGED vars
      BY <1>2, <3>4 DEF SendBegins, CheckBegins, CallAnswered, SendBreaks, CheckExpires, WorkerAdded,
                        TaskEnds, StatusTimesOut, RecvBegins, RecvAnswered, RecvBreaks, vars, nodeVars
    <3>5. QED BY <3>1, <3>2, <3>3, <3>4 DEF Next, Peer, Receiver
  <2>2. QED BY <2>1 DEF Faulty
<1>3. CASE \E h \in Handlers : handler[h] = "refused"
  <2>1. PICK h \in Handlers : handler[h] = "refused"
    BY <1>3
  <2>2. CASE h \in Sends \cup Checks
    BY <2>1, <2>2, StepEffect DEF Faulty
  <2>3. CASE h = Fetch
    <3>1. handler'[Fetch] = "refused"
      <4>1. CASE SendBegins \/ CheckBegins \/ SendBreaks \/ CheckExpires
        <5>1. \A n \in Sends \cup Checks : n # Fetch
          BY HandlerNames
        <5>2. QED BY <2>1, <2>3, <4>1, <5>1, NewCall, HandlerNames
      <4>2. CASE \E g \in Handlers : Serving(g)
        BY <2>1, <2>3, <4>2, ServingEffect
      <4>3. CASE ProcessForwardData \/ RecvBegins
        BY <2>1, <2>3, <4>3, ForwardEffect DEF RecvBegins, CallInv
      <4>4. CASE \/ CallAnswered \/ WorkerAdded \/ TaskEnds \/ StatusTimesOut \/ WorkerRemoved \/ Clean
                 \/ RecvAnswered \/ RecvBreaks \/ UNCHANGED vars
        BY <2>1, <2>3, <4>4 DEF CallAnswered, WorkerAdded, TaskEnds, StatusTimesOut, WorkerRemoved, Clean,
                    RecvAnswered, RecvBreaks, vars
      <4>5. QED BY <4>1, <4>2, <4>3, <4>4 DEF Next, Peer, Receiver
    <3>2. QED BY <3>1, HandlerNames DEF Faulty
  <2>4. QED BY <2>2, <2>3, HandlerNames
<1>4. QED BY <1>1, <1>2, <1>3 DEF Faulty

(* Without a fault the only Send handler at work is the one waited for.    *)
LEMMA OnlyCurrent ==
  ASSUME TypeOK, CallInv, Orderly, NEW h \in Sends, handler[h] \notin {"none", "done"}
  PROVE  sender.at = "sending" /\ h = Current /\ h[2] = sender.block
<1>1. /\ sender.block \in Nat /\ h[2] \in Nat /\ h = <<"Send", h[2], h[3]>>
  BY HandlerNames, LinkAssumption DEF TypeOK, Blocks
<1>2. h[3] = 1 /\ h[2] <= sender.block
  BY DEF Orderly, CallInv
<1>3. ~(h[2] < sender.block) /\ ~(h[2] = sender.block /\ sender.at # "sending")
  BY <1>2 DEF Orderly
<1>4. h[2] = sender.block /\ sender.at = "sending" /\ sender.try = 1
  BY <1>1, <1>2, <1>3 DEF Orderly
<1>5. QED BY <1>1, <1>2, <1>4 DEF Current

(* StreamInv is inductive.                                                 *)
LEMMA StreamInvHolds == Spec => []StreamInv
<1>1. Init => StreamInv
  <2> SUFFICES ASSUME Init PROVE Orderly
    BY DEF StreamInv
  <2>1. stored = <<>> /\ sender = [at |-> "idle", block |-> 0, try |-> 0] /\ cut = {}
    BY DEF Init
  <2>2. Len(stored) = 0 /\ DOMAIN stored = {}
    BY <2>1, EmptySeq
  <2>3. \A h \in Sends : handler[h] = "none" /\ ~(h[2] < 0) /\ h[2] # 0
    BY HandlerNames, LinkAssumption DEF Init, Blocks
  <2>4. QED BY <2>1, <2>2, <2>3 DEF Orderly
<1>2. TypeOK /\ CallInv /\ StreamInv /\ [Next]_vars => StreamInv'
  <2> SUFFICES ASSUME TypeOK, CallInv, StreamInv, [Next]_vars, ~Faulty' PROVE Orderly'
    BY DEF StreamInv
  <2>o. ~Faulty /\ Orderly
    BY FaultStays DEF StreamInv
  <2>b. breaks' = 0 /\ breaks = 0 /\ \A g \in Handlers : handler[g] # "refused" /\ handler'[g] # "refused"
    <3>1. breaks \in Nat /\ breaks' \in Nat
      BY StepBreaks, LinkAssumption DEF TypeOK
    <3>2. QED BY <2>o, <3>1 DEF Faulty
  <2>t. /\ sender.block \in 0..NumBlocks /\ NumBlocks \in Nat \ {0} /\ Blocks = 1..NumBlocks
        /\ Len(stored) \in Nat /\ DOMAIN stored = 1..Len(stored)
        /\ \A h \in Sends : h \in Handlers /\ h[2] \in Nat /\ h = <<"Send", h[2], h[3]>>
    BY LinkAssumption, Lengths, HandlerNames DEF TypeOK, Blocks
  <2>f. ASSUME UNCHANGED <<stored, cut, sender>>, \A h \in Sends : handler'[h] = handler[h]
        PROVE  Orderly'
    <3>1. sender.at = "sending" => Current \in Sends /\ Current' = Current
      BY <2>f, HandlerNames DEF Current, CallInv
    <3>2. QED BY <2>f, <2>o, <3>1 DEF Orderly
  <2>1. CASE SendBegins
    <3> DEFINE n == <<"Send", sender.block + 1, 1>>
    <3>1. /\ sender.at = "idle" /\ sender' = [at |-> "sending", block |-> sender.block + 1, try |-> 1]
          /\ UNCHANGED <<stored, cut>> /\ sender.block + 1 \in Blocks /\ 1 \in Tries
      BY <2>1, <2>t, LinkAssumption DEF SendBegins, queueVars, Tries
    <3>2. n \in Sends /\ n \in Handlers /\ n[2] = sender.block + 1 /\ n[3] = 1 /\ Current' = n
      BY <3>1, HandlerNames DEF Current
    <3>3. handler'[n] = "sent" /\ \A g \in Handlers : g # n => handler'[g] = handler[g]
      BY <2>1, <3>2, MoveEffect DEF SendBegins
    <3> HIDE DEF n
    <3>4. \A h \in Sends : h[3] # 1 => handler'[h] = "none"
      BY <2>o, <2>t, <3>2, <3>3 DEF Orderly
    <3>5. \A h \in Sends : h[3] = 1 /\ h[2] < sender.block + 1 => handler'[h] = "done"
      <4> SUFFICES ASSUME NEW h \in Sends, h[3] = 1, h[2] < sender.block + 1 PROVE handler'[h] = "done"
        OBVIOUS
      <4>1. h # n /\ (h[2] < sender.block \/ h[2] = sender.block)
        BY <2>t, <3>2
      <4>2. handler[h] = "done"
        BY <2>o, <3>1, <4>1 DEF Orderly
      <4>3. QED BY <2>t, <3>3, <4>1, <4>2
    <3>6. Len(stored) = sender.block /\ \A k \in DOMAIN stored : stored[k] = [block |-> k, whole |-> TRUE]
      BY <2>o, <3>1 DEF Orderly
    <3>7. sender'.block - 1 = sender.block
      BY <2>t, <3>1
    <3>8. cut = {}
      BY <2>o DEF Orderly
    <3>9. QED BY <3>1, <3>2, <3>3, <3>4, <3>5, <3>6, <3>7, <3>8 DEF Orderly
  <2>2. CASE CheckBegins
    <3>1. /\ sender.at = "idle" /\ sender'.at = "checking" /\ sender'.block = sender.block
          /\ UNCHANGED <<stored, cut>>
      BY <2>2 DEF CheckBegins, queueVars, TypeOK
    <3>2. \A h \in Sends : handler'[h] = handler[h]
      <4>1. 1 \in Tries
        BY LinkAssumption DEF Tries
      <4>2. <<"CompleteStatus", 0, 1>> \in Checks
        BY <4>1, HandlerNames
      <4>3. QED BY <2>2, <4>2, HandlerNames, MoveEffect DEF CheckBegins
    <3>3. QED BY <2>o, <3>1, <3>2 DEF Orderly
  <2>3. CASE CallAnswered
    <3>1. /\ sender'.block = sender.block /\ sender'.try = sender.try /\ UNCHANGED <<stored, cut, handler>>
          /\ sender.at \in {"sending", "checking"} /\ sender'.at \in {"idle", "done"}
          /\ handler[Current] \in {"done", "refused"}
      BY <2>3 DEF CallAnswered, queueVars, TypeOK
    <3>2. CASE sender.at = "checking"
      BY <2>o, <3>1, <3>2 DEF Orderly
    <3>3. CASE sender.at = "sending"
      <4>1. Current \in Handlers /\ Current = <<"Send", sender.block, 1>>
        BY <2>o, <3>3, HandlerNames DEF Orderly, Current, CallInv
      <4>2. handler[Current] = "done"
        BY <2>b, <3>1, <4>1
      <4>3. \A h \in Sends : h[3] = 1 /\ h[2] = sender.block => handler[h] = "done"
        BY <2>t, <4>1, <4>2
      <4>4. Len(stored) = sender.block
        BY <2>o, <4>2 DEF Orderly
      <4>5. QED BY <2>o, <3>1, <3>3, <4>3, <4>4 DEF Orderly
    <3>4. QED BY <3>1, <3>2, <3>3
  <2>4. CASE SendBreaks \/ CheckExpires \/ RecvBreaks
    <3>1. breaks' = breaks + 1
      BY <2>4 DEF SendBreaks, CheckExpires, RecvBreaks
    <3>2. QED BY <2>b, <3>1
  <2>5. ASSUME NEW h \in Handlers, ProcessReceivedData(h) PROVE Orderly'
    <3>1. h \in Sends /\ handler[h] = "holding" /\ sender' = sender /\ Current' = Current
      BY <2>5 DEF ProcessReceivedData, taskVars, Current
    <3>2. sender.at = "sending" /\ h = Current /\ h[2] = sender.block
      BY <2>o, <3>1, OnlyCurrent
    <3>3. Len(stored) = sender.block - 1 /\ cut = {}
      BY <2>o, <3>1, <3>2 DEF Orderly
    <3>4. /\ handler'[h] = "done" /\ cut' = cut /\ Len(stored') = Len(stored) + 1
          /\ DOMAIN stored' = 1..(Len(stored) + 1) /\ stored'[Len(stored) + 1] = Copy(h)
          /\ \A k \in DOMAIN stored : stored'[k] = stored[k]
      BY <2>5, StoreEffect
    <3>5. \A g \in Sends : g # h => handler'[g] = handler[g]
      BY <2>5, HandlerNames, MoveEffect DEF ProcessReceivedData
    <3>6. Len(stored') = sender.block
      BY <2>t, <3>3, <3>4
    <3>7. Copy(h) = [block |-> Len(stored) + 1, whole |-> TRUE]
      <4>1. h[2] = Len(stored) + 1
        BY <2>t, <3>2, <3>3
      <4>2. QED BY <3>3, <4>1 DEF Copy
    <3>8. \A k \in DOMAIN stored' : stored'[k] = [block |-> k, whole |-> TRUE]
      <4>1. \A k \in DOMAIN stored' : k \in DOMAIN stored \/ k = Len(stored) + 1
        BY <2>t, <3>4
      <4>2. \A k \in DOMAIN stored : stored[k] = [block |-> k, whole |-> TRUE]
        BY <2>o DEF Orderly
      <4>3. QED BY <3>4, <3>7, <4>1, <4>2
    <3>9. \A g \in Sends : g[3] # 1 => handler'[g] = "none"
      BY <2>o, <3>1, <3>5 DEF Orderly
    <3>10. \A g \in Sends :
             g[3] = 1 /\ (g[2] < sender.block \/ (g[2] = sender.block /\ sender.at # "sending"))
                => handler'[g] = "done"
      BY <2>o, <3>4, <3>5 DEF Orderly
    <3>11. sender.try = 1
      BY <2>o, <3>2 DEF Orderly
    <3>12. QED BY <3>1, <3>2, <3>3, <3>4, <3>6, <3>8, <3>9, <3>10, <3>11 DEF Orderly
  <2>6. ASSUME NEW h \in Handlers, Serving(h), ~ProcessReceivedData(h) PROVE Orderly'
    <3>1. stored' = stored /\ (handler'[h] = "done" => h \in Checks)
      BY <2>6, ServingQueue
    <3>2. /\ handler[h] \in {"sent", "waiting", "found", "holding", "counting"}
          /\ \A g \in Handlers : g # h => handler'[g] = handler[g]
          /\ sender' = sender
      BY <2>6, ServingEffect
    <3>3. CASE h \notin Sends
      <4>1. cut' = cut
        BY <2>6, <3>3, ServingEffect
      <4>2. QED BY <2>f, <2>t, <3>1, <3>2, <3>3, <4>1
    <3>4. CASE h \in Sends
      <4>1. sender.at = "sending" /\ h = Current /\ h[2] = sender.block
        BY <2>o, <3>2, <3>4, OnlyCurrent
      <4>2. cut' = cut /\ Current' = Current
        BY <2>6, <3>2, <4>1, ServingEffect DEF Current
      <4>3. handler[h] # "done" /\ handler'[h] # "done"
        BY <3>1, <3>2, <3>4, HandlerNames
      <4>4. \A g \in Sends : g[3] # 1 => handler'[g] = "none"
        <5>1. h[3] = 1
          BY <2>o, <3>2, <3>4 DEF Orderly
        <5>2. QED BY <2>o, <2>t, <3>2, <5>1 DEF Orderly
      <4>5. \A g \in Sends :
               g[3] = 1 /\ (g[2] < sender.block \/ (g[2] = sender.block /\ sender.at # "sending"))
                  => handler'[g] = "done"
        BY <2>o, <2>t, <3>2, <4>3 DEF Orderly
      <4>6. Len(stored) = sender.block - 1
        BY <2>o, <4>1, <4>3 DEF Orderly
      <4>7. QED BY <2>o, <3>1, <3>2, <4>1, <4>2, <4>3, <4>4, <4>5, <4>6 DEF Orderly
    <3>5. QED BY <3>3, <3>4
  <2>7. CASE ProcessForwardData \/ RecvBegins
    <3>1. UNCHANGED <<stored, cut, sender>>
      BY <2>7, ForwardEffect DEF RecvBegins, queueVars
    <3>2. \A g \in Handlers : g # Fetch => handler'[g] = handler[g]
      BY <2>7, ForwardEffect, MoveEffect, HandlerNames DEF RecvBegins
    <3>3. QED BY <2>f, <3>1, <3>2, HandlerNames
  <2>8. CASE \/ WorkerAdded \/ TaskEnds \/ StatusTimesOut \/ WorkerRemoved \/ Clean \/ RecvAnswered
             \/ UNCHANGED vars
    <3>1. UNCHANGED <<stored, cut, sender, handler>>
      BY <2>8 DEF WorkerAdded, TaskEnds, StatusTimesOut, WorkerRemoved, Clean, RecvAnswered,
                  vars, queueVars, taskVars
    <3>2. QED BY <2>f, <3>1
  <2>9. QED
    BY <2>1, <2>2, <2>3, <2>4, <2>5, <2>6, <2>7, <2>8 DEF Next, Peer, Receiver
<1>3. QED BY <1>1, <1>2, TypeCorrect, CallInvHolds, PTL DEF Spec

(* A step that begins a send or answers a receive is no fault.             *)
LEMMA NoFaultThere ==
  ASSUME TypeOK, CallInv, SendBegins \/ RecvAnswered
  PROVE  Faulty' <=> Faulty
<1>1. CASE SendBegins
  <2>1. UNCHANGED <<breaks, stop_>>
    BY <1>1 DEF SendBegins, nodeVars
  <2>2. \A h \in Handlers : handler'[h] = "refused" <=> handler[h] = "refused"
    BY <1>1, NewCall, HandlerNames
  <2>3. QED BY <2>1, <2>2 DEF Faulty
<1>2. CASE RecvAnswered
  <2>1. UNCHANGED <<breaks, stop_, handler>>
    BY <1>2 DEF RecvAnswered, nodeVars
  <2>2. QED BY <2>1 DEF Faulty
<1>3. QED BY <1>1, <1>2

(* The link implements the stream of blocks: the users of LinkContext get  *)
(* each block whole, once and in order until the first fault, and          *)
(* afterwards nothing that was not sent.                                   *)
THEOREM LinkImplementsStream == Spec => ImplementsStream
<1>1. Init => Stream!StreamInit
  <2> SUFFICES ASSUME Init PROVE Stream!StreamInit
    OBVIOUS
  <2>1. sender.block = 0 /\ got = <<>>
    BY DEF Init
  <2>2. ~Faulty
    BY HandlerNames DEF Init, Faulty
  <2>3. QED BY <2>1, <2>2 DEF Stream!StreamInit, Faulty
<1>2. TypeOK /\ CallInv /\ FetchInv /\ OrderInv /\ StreamInv /\ [Next]_vars
         => [Stream!SendBlock \/ Stream!Fault \/ Stream!TakeBlock]_(Stream!streamVars)
  <2> SUFFICES ASSUME TypeOK, CallInv, FetchInv, OrderInv, StreamInv, [Next]_vars
               PROVE  [Stream!SendBlock \/ Stream!Fault \/ Stream!TakeBlock]_(Stream!streamVars)
    OBVIOUS
  <2>1. CASE SendBegins
    <3>1. sender'.block = sender.block + 1 /\ got' = got
      BY <2>1 DEF SendBegins
    <3>2. Faulty' <=> Faulty
      BY <2>1, NoFaultThere
    <3>3. Stream!SendBlock
      BY <3>1, <3>2 DEF Stream!SendBlock, Faulty
    <3>4. QED BY <3>3
  <2>2. CASE RecvAnswered
    <3>1. sender' = sender /\ (Faulty' <=> Faulty)
      BY <2>2, NoFaultThere DEF RecvAnswered
    <3>2. CASE got' = got
      BY <3>1, <3>2 DEF Stream!streamVars, Faulty
    <3>3. CASE got' # got
      <4>1. recv = "calling" /\ handler[Fetch] = "done" /\ reply # Empty /\ got' = Append(got, reply)
        BY <2>2, <3>3 DEF RecvAnswered
      <4>2. Len(got) + 1 = Taken /\ reply = stored[Taken]
        BY <4>1, Zenon DEF FetchInv
      <4>3. Taken \in DOMAIN stored
        BY <4>2, Lengths, TakenPart
      <4>4. reply \in Copies /\ reply.block <= sender.block
        BY <4>1, <4>2, <4>3 DEF TypeOK, OrderInv, StoredSent
      <4>5. ~Faulty => reply = [block |-> Len(got) + 1, whole |-> TRUE]
        BY <4>2, <4>3 DEF StreamInv, Orderly
      <4>6. /\ reply = [block |-> reply.block, whole |-> reply.whole]
            /\ reply.block \in 1..sender.block /\ reply.whole \in BOOLEAN
        <5>1. reply.block \in 1..NumBlocks /\ NumBlocks \in Nat /\ sender.block \in Nat
          BY <4>4, LinkAssumption DEF Copies, Blocks, TypeOK
        <5>2. QED BY <4>4, <5>1 DEF Copies
      <4>7. Faulty \/ (reply.whole /\ reply.block = Len(got) + 1)
        BY <4>5
      <4>8. Stream!TakeBlock
        <5>1. \E k \in 1..sender.block, whole \in BOOLEAN :
                /\ Faulty \/ (whole /\ k = Len(got) + 1)
                /\ got' = Append(got, [block |-> k, whole |-> whole])
          BY <4>1, <4>6, <4>7
        <5>2. QED BY <3>1, <5>1 DEF Stream!TakeBlock, Faulty
      <4>9. QED BY <4>8
    <3>4. QED BY <3>2, <3>3
  <2>3. CASE ~SendBegins /\ ~RecvAnswered
    <3>1. sender'.block = sender.block /\ got' = got
      <4>1. CASE CheckBegins \/ CallAnswered
        BY <4>1 DEF CheckBegins, CallAnswered, TypeOK
      <4>2. CASE SendBreaks \/ CheckExpires
        BY <4>2 DEF SendBreaks, CheckExpires, Retry, TypeOK
      <4>3. CASE \E h \in Handlers : Serving(h)
        BY <4>3, ServingEffect
      <4>4. CASE ProcessForwardData
        BY <4>4, ForwardEffect
      <4>5. CASE \/ WorkerAdded \/ TaskEnds \/ StatusTimesOut \/ WorkerRemoved \/ Clean
                 \/ RecvBegins \/ RecvBreaks \/ UNCHANGED vars
        BY <4>5 DEF WorkerAdded, TaskEnds, StatusTimesOut, WorkerRemoved, Clean,
                    RecvBegins, RecvBreaks, vars, taskVars
      <4>6. QED BY <2>3, <4>1, <4>2, <4>3, <4>4, <4>5 DEF Next, Peer, Receiver
    <3>2. CASE Faulty' <=> Faulty
      BY <3>1, <3>2 DEF Stream!streamVars, Faulty
    <3>3. CASE Faulty' /\ ~Faulty
      BY <3>1, <3>3 DEF Stream!Fault, Faulty
    <3>4. QED BY <3>2, <3>3, FaultStays
  <2>4. QED BY <2>1, <2>2, <2>3
<1>3. QED
  BY <1>1, <1>2, TypeCorrect, CallInvHolds, FetchInvHolds, OrderInvHolds, StreamInvHolds, PTL
     DEF Spec, ImplementsStream, Stream!StreamSpec
=============================================================================
