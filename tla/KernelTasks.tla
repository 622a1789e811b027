---------------------------- MODULE KernelTasks ----------------------------
(***************************************************************************)
(* A PSI or keyword PIR task between its parties: what PsiTask and PirTask *)
(* do around the operators of kernel/psi and kernel/pir, which messages    *)
(* the operators exchange, under which key, through which node, and what   *)
(* becomes of a failure at every step.                                     *)
(*                                                                         *)
(* The code of a party is a straight line of sends, receives and local     *)
(* work.  It is given here as a sequence of steps, one operator for each   *)
(* function of the code; a step says what happens when it fails:           *)
(*   "fail"   the task throws and is reported as failed,                   *)
(*   "skip"   the return code is dropped and the next step is taken,       *)
(*   "leave"  OnExecute ends, but TeePsiOperator returns SUCCESS.          *)
(* Cryptography is external: a cipher text is the set it stands for.       *)
(***************************************************************************)
EXTENDS Naturals, Sequences, FiniteSets, SequencesExt

CONSTANTS Items,       \* elements of the datasets, keywords of a query
          MaxRows,     \* bound: rows of a dataset
          MaxFaults    \* bound: steps that fail

(* What a message holds besides elements is one of these marks.            *)
Marks == {"init", "size", "dummy", "params?", "params", "oprf?", "oprf", "count", "end",
          "setup", "bundle"}
Bundles == {1, 2}

(* No element is a mark.                                                   *)
ASSUME KernelAssumption ==
  /\ MaxRows \in Nat /\ MaxFaults \in Nat
  /\ \A m \in Marks : m \notin Items /\ <<m, m>> \notin Items
  /\ \A b \in Bundles : <<"bundle", b, b>> \notin Items

VARIABLES task,        \* the request: kind, sync, difference, unique
          input,       \* the parties' datasets; CACHE: what a database file
                       \* of the PIR server was made from before, <<>>: no file
          cache,       \* what the database file is made from
          elements,    \* elements_: what has been loaded
          prog,        \* the steps each party has before it: <<OnExecute, the rest>>
          queue,       \* messages stored, by node and key
          marks,       \* completion marks of the PIR server's response key
          heard,       \* by party and key, what has been received
          db,          \* what the PIR server's sender_db is made from
          packed,      \* bundles the PIR server has sent
          result,      \* result_
          status,
          hidden,      \* was a failure hidden from the task?
          faults

vars == <<task, input, cache, elements, prog, queue, marks, heard, db, packed, result,
          status, hidden, faults>>

Providers == {"CLIENT", "SERVER"}
Parties   == Providers \cup {"TEE_COMPUTE"}
Members   == IF task.kind = "TEE" THEN Parties ELSE Providers

Step(do, node, key, msg, else) ==
  [do |-> do, node |-> node, key |-> key, msg |-> msg, else |-> else]
Send(node, key, msg, else) == Step("send", node, key, msg, else)
Recv(node, key, msg, else) == Step("recv", node, key, msg, else)
Work(what, else)           == Step("work", "", "", what, else)

-----------------------------------------------------------------------------
(* PSI by elliptic curves.  The key of the link is "default".              *)
SendInitParam == << Send("SERVER", "default", "init", "fail") >>
SendPSIRequestAndWaitResponse == << Send("SERVER", "default", "request", "fail"),
                                    Recv("CLIENT", "default", "response", "fail") >>
RecvInitParam == << Recv("SERVER", "default", "init", "fail") >>
InitRequest   == << Recv("SERVER", "default", "request", "fail") >>

(* ExecuteAsServer does not look at what PreparePSIResponse returns.       *)
PreparePSIResponse == << Send("CLIENT", "default", "response", "skip") >>

EcdhClient == SendInitParam \o SendPSIRequestAndWaitResponse \o << Work("intersect", "fail") >>

(* Mutant of EcdhServer: the request is read before the parameters.        *)
EcdhRequestFirst == InitRequest \o RecvInitParam \o PreparePSIResponse

EcdhServer == RecvInitParam \o InitRequest \o PreparePSIResponse

-----------------------------------------------------------------------------
(* KKRT: sizes, a handshake, then libPSI's exchange over the same channel. *)
LibPsiReceiver == << Send("SERVER", "kkrt", "request", "fail"),
                     Recv("CLIENT", "kkrt", "response", "fail") >>
LibPsiSender   == << Recv("SERVER", "kkrt", "request", "fail"),
                     Send("CLIENT", "kkrt", "response", "fail") >>
KkrtRecv == << Send("SERVER", "kkrt", "size", "fail"),
               Recv("CLIENT", "kkrt", "size", "fail"),
               Recv("CLIENT", "kkrt", "dummy", "fail"),
               Send("SERVER", "kkrt", "dummy", "fail") >>
            \o LibPsiReceiver \o << Work("intersect", "fail") >>

(* Mutant of KkrtSend: both sides wait for the other's handshake.          *)
KkrtSendWaits == << Send("CLIENT", "kkrt", "size", "fail"),
                    Recv("SERVER", "kkrt", "size", "fail"),
                    Recv("SERVER", "kkrt", "dummy", "fail"),
                    Send("CLIENT", "kkrt", "dummy", "fail") >> \o LibPsiSender

KkrtSend == << Send("CLIENT", "kkrt", "size", "fail"),
               Recv("SERVER", "kkrt", "size", "fail"),
               Send("CLIENT", "kkrt", "dummy", "fail"),
               Recv("SERVER", "kkrt", "dummy", "fail") >> \o LibPsiSender

-----------------------------------------------------------------------------
(* In the enclave.  A provider that cannot send its data only logs it; the *)
(* client waits for the result under a key of its own.                     *)
ExecuteAsDataProvider(p) ==
  << Work("attest", "leave"), Send("TEE_COMPUTE", p, "data", "skip") >>
  \o IF p = "CLIENT"
     THEN << Recv("CLIENT", "result_id", "response", "leave"),
             Work("decrypt", "leave"), Work("intersect", "leave") >>
     ELSE <<>>

(* party_info is ordered by name, and the data of a provider is decrypted  *)
(* before the next is asked for.                                           *)
ReceiveDataFromDataProvider ==
  << Recv("TEE_COMPUTE", "CLIENT", "data", "leave"), Work("decrypt", "leave"),
     Recv("TEE_COMPUTE", "SERVER", "data", "leave"), Work("decrypt", "leave") >>
SendEncryptedResult == << Send("CLIENT", "result_id", "response", "leave") >>
ExecuteAsCompute == ReceiveDataFromDataProvider \o << Work("compute", "leave") >>
                    \o SendEncryptedResult

-----------------------------------------------------------------------------
(* OnExecute: no protocol without data, except in the enclave.             *)
OnExecute(p) ==
  (IF p = "TEE_COMPUTE" THEN <<>> ELSE << Work("not_empty", "fail") >>)
  \o CASE task.kind = "ECDH" -> IF p = "CLIENT" THEN EcdhClient ELSE EcdhServer
       [] task.kind = "KKRT" -> IF p = "CLIENT" THEN KkrtRecv ELSE KkrtSend
       [] OTHER -> IF p = "TEE_COMPUTE" THEN ExecuteAsCompute ELSE ExecuteAsDataProvider(p)

(* BroadcastResult returns SUCCESS whatever Send returned.  ReceiveResult  *)
(* goes on after an error, too: it is how an empty result arrives.         *)
BroadcastPsiResult(p) ==
  IF ~task.sync \/ p = "TEE_COMPUTE" THEN <<>>
  ELSE IF p = "CLIENT" THEN << Send("SERVER", "default", "result", "skip") >>
  ELSE << Recv("SERVER", "default", "result", "skip") >>

(* SaveResult of PsiTask, if NeedSaveResult.                               *)
PsiSave(p) == IF p = "CLIENT" \/ (p = "SERVER" /\ task.sync)
              THEN << Work("save", "fail") >> ELSE <<>>

-----------------------------------------------------------------------------
(* Keyword PIR.  The server's responses stay on its own node, where the    *)
(* client fetches them.                                                    *)
Response == "response_pir_key"

RequestPSIParams == << Send("SERVER", "pir_key", "params?", "fail"),
                       Recv("SERVER", Response, "params", "fail") >>
RequestOprf == << Send("SERVER", "pir_key", "oprf?", "fail"),
                  Recv("SERVER", Response, "oprf", "fail") >>
PirClient == RequestPSIParams \o RequestOprf
  \o << Send("SERVER", "pir_key", "query", "fail"),
        Recv("SERVER", "pack_count", "count", "fail"),
        Recv("SERVER", Response, "package", "fail"),       \* package_count times
        Work("extract", "fail"),
        Send("SERVER", "pir_task_end", "end", "fail") >>

ProcessPSIParams == << Recv("SERVER", "pir_key", "params?", "fail"),
                       Send("SERVER", Response, "params", "fail") >>
ProcessOprf == << Recv("SERVER", "pir_key", "oprf?", "fail"),
                  Send("SERVER", Response, "oprf", "fail") >>

(* A failed Send ends the sending thread alone, and the result of          *)
(* CheckSendCompleteStatus is dropped.                                     *)
ProcessQuery == << Recv("SERVER", "pir_key", "query", "fail"),
                   Send("SERVER", "pack_count", "count", "fail"),
                   Send("SERVER", Response, "package", "skip"),   \* once for a bundle
                   Work("check", "skip") >>

(* "make_db" loads the database from its file if there is one.             *)
(* Mutant of PirServer: it does not wait for the client's end.             *)
PirServerLeaves == ProcessPSIParams \o << Work("make_db", "fail") >> \o ProcessOprf \o ProcessQuery

PirServer == ProcessPSIParams \o << Work("make_db", "fail") >> \o ProcessOprf \o ProcessQuery
             \o << Recv("SERVER", "pir_task_end", "end", "fail") >>

(* SaveResult of PirTask, if NeedSaveResult.                               *)
PirSave(p) == IF p = "CLIENT" THEN << Work("save", "fail") >> ELSE <<>>

-----------------------------------------------------------------------------
PsiExecute(p) == << << Work("load", "fail") >> \o OnExecute(p),
                    BroadcastPsiResult(p) \o PsiSave(p) >>
PirExecute(p) == << << Work("load", "fail") >> \o (IF p = "CLIENT" THEN PirClient ELSE PirServer),
                    PirSave(p) >>

(* libPSI's cuckoo table wants distinct items; the labelled database of    *)
(* the PIR server has to have a longest label.                             *)
Distinct(s) == Cardinality(ToSet(s)) = Len(s)
Possible(t, in) ==
  /\ t.kind = "KKRT" => t.unique \/ \A p \in Providers : Distinct(in[p])
  /\ IF t.kind = "PIR" THEN ~t.sync /\ ~t.difference /\ ~t.unique /\ in["SERVER"] # <<>>
     ELSE in["CACHE"] = <<>>

Inputs == UNION { [1..n -> Items] : n \in 0..MaxRows }
Keys   == {"default", "kkrt", "CLIENT", "SERVER", "result_id", "pir_key", Response,
           "pack_count", "pir_task_end"}

Init ==
  /\ task \in [kind : {"ECDH", "KKRT", "TEE", "PIR"},
               sync : BOOLEAN, difference : BOOLEAN, unique : BOOLEAN]
  /\ input \in [Providers \cup {"CACHE"} -> Inputs] /\ Possible(task, input)
  /\ cache = input["CACHE"] /\ db = <<>>
  /\ elements = [p \in Parties |-> <<>>]
  /\ prog = [p \in Parties |-> IF p \notin Members THEN << <<>>, <<>> >>
                                 ELSE IF task.kind = "PIR" THEN PirExecute(p)
                                 ELSE PsiExecute(p)]
  /\ queue = [a \in Parties \X Keys |-> <<>>] /\ marks = 0
  /\ heard = [p \in Parties |-> [k \in Keys |-> {}]]
  /\ packed = {} /\ result = [p \in Parties |-> <<>>]
  /\ status = [p \in Parties |-> IF p \in Members THEN "running" ELSE "success"]
  /\ hidden = FALSE /\ faults = 0

(* The step before party p, and the program after it.                      *)
Busy(p)  == status[p] = "running" /\ prog[p] # << <<>>, <<>> >>
Now(p)   == IF prog[p][1] # <<>> THEN Head(prog[p][1]) ELSE Head(prog[p][2])
After(p) == IF prog[p][1] # <<>> THEN << Tail(prog[p][1]), prog[p][2] >>
            ELSE << <<>>, Tail(prog[p][2]) >>

Goto(p, rest) == prog' = [prog EXCEPT ![p] = rest] /\ UNCHANGED status

(* What becomes of party p when the step before it fails.                  *)
Else(p) ==
  CASE Now(p).else = "skip"  -> Goto(p, After(p))
    [] Now(p).else = "leave" -> Goto(p, << <<>>, prog[p][2] >>)
    [] OTHER -> status' = [status EXCEPT ![p] = "failed"] /\ UNCHANGED prog

-----------------------------------------------------------------------------
(* Contents of the messages.  A bundle of the database holds the labels of *)
(* some of its keywords; CreateDb joins those of one keyword.              *)
Sep     == 0                                            \* DATA_RECORD_SEP
BundleOf(k) == IF k = (CHOOSE i \in Items : TRUE) THEN 1 ELSE 2

(* What is at the positions K of s, in its order.                          *)
Kept(s, K) ==
  LET f[n \in 0..Len(s)] == IF n = 0 THEN <<>>
                            ELSE IF n \in K THEN Append(f[n - 1], s[n]) ELSE f[n - 1]
  IN  f[Len(s)]

Join(s)  == [i \in 1..(2 * Len(s) - 1) |-> IF i % 2 = 1 THEN s[(i + 1) \div 2] ELSE Sep]
Split(s) == Kept(s, { i \in DOMAIN s : s[i] # Sep })    \* str_split

(* The label of row i is i itself.                                         *)
LabelsOf(rows, k) == Kept([i \in DOMAIN rows |-> i], { i \in DOMAIN rows : rows[i] = k })
CreateDb == [k \in ToSet(db) |-> Join(LabelsOf(db, k))]

(* ProcessBinBundleCache: the matches of one bundle.                       *)
Matches(b) == { <<k, CreateDb[k]>> : k \in { i \in DOMAIN CreateDb \cap heard["SERVER"]["pir_key"] :
                                             BundleOf(i) = b } }

(* Mutant of GetResult: the difference is what was found.                  *)
GetFound(rows, index) == Kept(rows, index)

(* GetResult of BasePsiOperator, from the positions of the intersection.   *)
GetResult(rows, index) == Kept(rows, { i \in DOMAIN rows : (i \in index) # task.difference })

(* GetIntersection of EcdhPsiOperator.                                     *)
EcdhGetIntersection(rows, other) ==
  IF task.difference THEN Kept(rows, { i \in DOMAIN rows : rows[i] \notin other })
  ELSE Kept(rows, { i \in DOMAIN rows : rows[i] \in other })

(* HashData and GetIntersection of TeePsiOperator: a map from hashes to    *)
(* items, so no duplicates, and no difference.                             *)
TeeGetIntersection(rows, found) == SetToSeq(ToSet(rows) \cap found)

PsiResult(p, other) ==
  CASE task.kind = "ECDH" -> EcdhGetIntersection(elements[p], other)
    [] task.kind = "KKRT" -> GetResult(elements[p], { i \in DOMAIN elements[p] :
                                                      elements[p][i] \in other })
    [] OTHER              -> TeeGetIntersection(elements[p], other)

(* ExtractResult leaves out the keywords that have no match.               *)
ExtractResult == SetToSeq({ <<e[1], Split(e[2])>> :
                            e \in { x \in heard["CLIENT"][Response] : x[1] \in Items } })

(* The duplicate filter of LoadDataset; PirTask keeps a map.               *)
Filtered(s) == Kept(s, { i \in DOMAIN s : \A j \in 1..(i - 1) : s[j] # s[i] })
LoadDataset(p) ==
  IF p = "TEE_COMPUTE" THEN <<>> ELSE IF task.unique THEN Filtered(input[p]) ELSE input[p]

(* A PIR server that finds a database file, its name made of the dataset's *)
(* id and the keyword columns, does not load the dataset; whether there is *)
(* one is asked again when the database is needed.                         *)
use_cache   == task.kind = "PIR" /\ cache # <<>>
Elements(p) == IF p = "SERVER" /\ use_cache THEN <<>> ELSE LoadDataset(p)

SenderDb == IF use_cache THEN cache ELSE elements["SERVER"]

(* The contents a message of party p may have; the empty set is an empty   *)
(* string, so what is never empty has something in it.                     *)
Bodies(p, m) ==
  CASE m \in {"request", "data", "query"} -> {ToSet(elements[p])}
    [] m = "response" -> {ToSet(IF p = "SERVER" THEN elements[p] ELSE result[p]) \cup {<<"setup", "setup">>}}
    [] m = "result"   -> {ToSet(result[p])}
    [] m = "oprf?"    -> {IF elements[p] = <<>> THEN {} ELSE {<<m, m>>}}
    [] m = "package"  -> { {<<"bundle", b, b>>} \cup Matches(b) : b \in Bundles \ packed }
    [] OTHER          -> {{<<m, m>>}}

(* The bundles whose packages are in a body.                               *)
BundlesIn(body) == { b \in Bundles : <<"bundle", b, b>> \in body }

-----------------------------------------------------------------------------
(* Steps                                                                   *)

(* LinkContext::Send, which does not come back before the block is stored. *)
(* The sending thread of the PIR server comes back to the same step until  *)
(* it has sent every bundle, in the order in which they were finished.     *)
StepSend(p) ==
  LET s == Now(p) a == <<s.node, s.key>> IN
  /\ Busy(p) /\ s.do = "send"
  /\ \E body \in Bodies(p, s.msg) :
       LET sent == IF s.msg = "package" THEN BundlesIn(body) ELSE {} IN
       /\ queue' = [queue EXCEPT ![a] = Append(@, [msg |-> s.msg, body |-> body])]
       /\ packed' = packed \cup sent
       /\ IF s.msg = "package" /\ packed \cup sent # Bundles
          THEN UNCHANGED <<prog, status>> ELSE Goto(p, After(p))
  /\ UNCHANGED <<task, input, cache, elements, marks, heard, db, result, hidden, faults>>

(* LinkContext::Recv, which fails on an empty block.  Fetching a response  *)
(* leaves a completion mark at the server.                                 *)
StepRecv(p) ==
  LET s == Now(p) a == <<s.node, s.key>> IN
  /\ Busy(p) /\ s.do = "recv" /\ queue[a] # <<>>
  /\ LET body == Head(queue[a]).body
         got  == heard[p][s.key] \cup body
     IN  /\ heard' = [heard EXCEPT ![p][s.key] = got]
         /\ result' = IF s.msg = "result" THEN [result EXCEPT ![p] = SetToSeq(body)] ELSE result
         /\ IF body = {} THEN Else(p)
            ELSE IF s.msg = "package" /\ BundlesIn(got) # Bundles
            THEN UNCHANGED <<prog, status>>
            ELSE Goto(p, After(p))
  /\ queue' = [queue EXCEPT ![a] = Tail(@)]
  /\ marks' = IF s.key = Response THEN marks + 1 ELSE marks
  /\ UNCHANGED <<task, input, cache, elements, db, packed, hidden, faults>>

(* Local work.  The enclave intersects the providers' files.  A list of    *)
(* keywords in the PIR request must not be empty, a dataset may.           *)
StepWork(p) ==
  LET s == Now(p) IN
  /\ Busy(p) /\ s.do = "work"
  /\ s.msg = "check" => marks >= Cardinality(Bundles)
  /\ elements' = IF s.msg = "load" THEN [elements EXCEPT ![p] = Elements(p)] ELSE elements
  /\ db' = IF s.msg = "make_db" THEN SenderDb ELSE db
  /\ marks' = IF s.msg = "check" THEN marks - Cardinality(Bundles) ELSE marks
  /\ result' =
       CASE s.msg = "intersect" ->
              [result EXCEPT ![p] = PsiResult(p, UNION { heard[p][k] : k \in Keys })]
         [] s.msg = "compute" ->
              [result EXCEPT ![p] = SetToSeq(heard[p]["CLIENT"] \cap heard[p]["SERVER"])]
         [] s.msg = "extract" -> [result EXCEPT ![p] = ExtractResult]
         [] OTHER -> result
  /\ \/ ~(s.msg = "not_empty" /\ elements[p] = <<>>) /\ Goto(p, After(p))
     \/ s.msg = "not_empty" /\ elements[p] = <<>> /\ Else(p)
     \/ s.msg = "load" /\ task.kind = "PIR" /\ p = "CLIENT" /\ input[p] = <<>> /\ Else(p)
  /\ UNCHANGED <<task, input, cache, queue, heard, packed, hidden, faults>>

(* A call that returns an error or throws.                                 *)
StepFails(p) ==
  /\ Busy(p) /\ faults < MaxFaults
  /\ Now(p).do = "send" \/ Now(p).msg \in {"load", "attest", "decrypt", "compute", "save",
                                           "make_db", "check", "intersect"}
  /\ Else(p)
  /\ faults' = faults + 1 /\ hidden' = (hidden \/ Now(p).else # "fail")
  /\ UNCHANGED <<task, input, cache, elements, queue, marks, heard, db, packed, result>>

(* PsiTask::execute and PirTask::execute return.                           *)
Finish(p) ==
  /\ status[p] = "running" /\ prog[p] = << <<>>, <<>> >>
  /\ status' = [status EXCEPT ![p] = "success"]
  /\ UNCHANGED <<task, input, cache, elements, prog, queue, marks, heard, db, packed, result,
                 hidden, faults>>

(* The scheduler kills a failed task everywhere: a process ends; a thread  *)
(* of the enclave's task gets an empty buffer from its queue, and with     *)
(* nothing to decrypt OnExecute ends.                                      *)
Killed(p) ==
  /\ \E q \in Parties : status[q] = "failed"
  /\ IF task.kind = "TEE"
     THEN Busy(p) /\ Now(p).do = "recv" /\ queue[<<Now(p).node, Now(p).key>>] = <<>> /\ Else(p)
     ELSE status[p] = "running" /\ status' = [status EXCEPT ![p] = "killed"] /\ UNCHANGED prog
  /\ UNCHANGED <<task, input, cache, elements, queue, marks, heard, db, packed, result,
                 hidden, faults>>

(* Another task of the server, whose request has DbInfo, loads the dataset *)
(* and writes its database to the file (generate_db); it talks to nobody.  *)
GenerateDb ==
  /\ task.kind = "PIR" /\ cache # input["SERVER"] /\ cache' = input["SERVER"]
  /\ UNCHANGED <<task, input, elements, prog, queue, marks, heard, db, packed, result,
                 status, hidden, faults>>

Ended == \A p \in Parties : status[p] # "running"

(* Nothing is left to do, or a party waits for a message nobody will send. *)
Done ==
  /\ Ended \/ hidden
  /\ UNCHANGED vars

PartyNext(p) == StepSend(p) \/ StepRecv(p) \/ StepWork(p) \/ Finish(p)
Next == Done \/ GenerateDb \/ \E p \in Parties : PartyNext(p) \/ StepFails(p) \/ Killed(p)

(* Every party's thread runs and the scheduler sends its kills; nothing    *)
(* has to fail.                                                            *)
Fairness == \A p \in Parties : WF_vars(PartyNext(p)) /\ WF_vars(Killed(p))
Spec == Init /\ [][Next]_vars /\ Fairness

-----------------------------------------------------------------------------
(* Both parties use one key for all their messages, so a step must find    *)
(* the message it was written for: init parameters, requests, responses    *)
(* and results in the order of the code on both sides.                     *)
MessagesMatch ==
  \A p \in Parties :
    Busy(p) /\ Now(p).do = "recv" =>
      LET q == queue[<<Now(p).node, Now(p).key>>] IN q # <<>> => Head(q).msg = Now(p).msg

(* How often item x is in a sequence, and has to be in the result of a PSI.*)
Count(x, s) == Cardinality({ i \in DOMAIN s : s[i] = x })
Expected(x) ==
  LET mine == Count(x, input["CLIENT"])
      in   == x \in ToSet(input["SERVER"])
  IN  IF in = task.difference THEN 0 ELSE IF task.unique /\ mine > 0 THEN 1 ELSE mine

(* A party of the enclave's task that is killed ends as if it had done its *)
(* work, with an empty result.                                             *)
Stopped == task.kind = "TEE" /\ \E p \in Parties : status[p] = "failed"

(* The requests the enclave's operator answers as they are made: it does   *)
(* not look at psiType, and gives every element once.                      *)
Honoured == task.kind = "TEE" => ~task.difference /\ (task.unique \/ Distinct(input["CLIENT"]))

(* The rows a PIR may be answered from: those of the dataset, or the ones  *)
(* an older database file was made from.                                   *)
Served == {input["SERVER"]} \cup ({input["CACHE"]} \ {<<>>})

ClientEndsWell == status["CLIENT"] = "success" /\ ~hidden /\ ~Stopped

(* When a client's task ends well and no failure was hidden, the result it *)
(* saved is the intersection or difference of the datasets, duplicates     *)
(* included, as the request asked for; or the labels of every keyword      *)
(* found, all of them from one state of the server's dataset; with         *)
(* sync_result the server has saved the same elements.                     *)
ResultRight ==
  /\ ClientEndsWell /\ task.kind # "PIR" /\ Honoured =>
       \A x \in Items : Count(x, result["CLIENT"]) = Expected(x)
  /\ ClientEndsWell /\ task.kind = "PIR" =>
       \E rows \in Served :
         ToSet(result["CLIENT"]) = { <<k, LabelsOf(rows, k)>> : k \in ToSet(input["CLIENT"]) \cap ToSet(rows) }
  /\ task.sync /\ (\A p \in Providers : status[p] = "success") /\ ~hidden =>
       ToSet(result["SERVER"]) = ToSet(result["CLIENT"])

(* The PIR server does not leave, and with it its node's store, before the *)
(* client has fetched every response: CheckSendCompleteStatus alone would  *)
(* be content with the marks of the two earlier responses.                 *)
ServerOutlivesClient ==
  task.kind = "PIR" /\ status["SERVER"] = "success" =>
    queue[<<"SERVER", Response>>] = <<>> /\ queue[<<"SERVER", "pack_count">>] = <<>>

(* No party waits for ever: a task whose failures are all reported ends    *)
(* everywhere.                                                             *)
AllEnd == <>(Ended \/ hidden)
=============================================================================
