------------------------- MODULE KernelTasksProofs -------------------------
(***************************************************************************)
(* Theorems about KernelTasks for any items, datasets and failures: a      *)
(* receive finds the message it was written for, and the PIR server does   *)
(* not leave before its client has fetched every response.                 *)
(***************************************************************************)
EXTENDS KernelTasks, SequenceTheorems, TLAPS

(* The messages of an address and the order they come in.                  *)
Known(n, k, m) == <<n, k, m>> \in
  { <<"SERVER", "default", "init">>, <<"SERVER", "default", "request">>,
    <<"SERVER", "default", "result">>, <<"CLIENT", "default", "response">>,
    <<"SERVER", "kkrt", "size">>, <<"SERVER", "kkrt", "dummy">>, <<"SERVER", "kkrt", "request">>,
    <<"CLIENT", "kkrt", "size">>, <<"CLIENT", "kkrt", "dummy">>, <<"CLIENT", "kkrt", "response">>,
    <<"TEE_COMPUTE", "CLIENT", "data">>, <<"TEE_COMPUTE", "SERVER", "data">>,
    <<"CLIENT", "result_id", "response">>,
    <<"SERVER", "pir_key", "params?">>, <<"SERVER", "pir_key", "oprf?">>,
    <<"SERVER", "pir_key", "query">>, <<"SERVER", Response, "params">>,
    <<"SERVER", Response, "oprf">>, <<"SERVER", Response, "package">>,
    <<"SERVER", "pack_count", "count">>, <<"SERVER", "pir_task_end", "end">> }
No(k, m) ==
  IF m \in {"result", "query", "package"} \/ (k = "kkrt" /\ m \in {"request", "response"}) THEN 3
  ELSE IF m \in {"dummy", "oprf?", "oprf"} \/ (k = "default" /\ m = "request") THEN 2
  ELSE 1

(* Who sends to an address, and who receives from it.                      *)
Receiver(n, k) == IF k \in {Response, "pack_count"} THEN "CLIENT" ELSE n
Sender(n, k) ==
  IF k \in Providers THEN k
  ELSE IF k = "result_id" THEN "TEE_COMPUTE"
  ELSE IF k \in {Response, "pack_count"} \/ n = "CLIENT" THEN "SERVER" ELSE "CLIENT"

(* The steps of all programs in the order they come in.  Only "decrypt" is *)
(* found twice in a program.                                               *)
Stage(s) ==
  LET m == s.msg IN
  IF m = "load" THEN 0
  ELSE IF m = "not_empty" THEN 1
  ELSE IF m \in {"attest", "params?"} THEN 2
  ELSE IF m \in {"init", "params"} \/ (m = "size" /\ s.do = "send") THEN 3
  ELSE IF m \in {"make_db", "size"} THEN 4
  ELSE IF m = "oprf?" \/ (m = "dummy" /\ s.node = "CLIENT") THEN 5
  ELSE IF m \in {"oprf", "dummy"} THEN 6
  ELSE IF m \in {"request", "query"} \/ (m = "data" /\ s.key = "CLIENT") THEN 7
  ELSE IF m \in {"data", "count"} THEN 8
  ELSE IF m \in {"compute", "package"} THEN 9
  ELSE IF m \in {"response", "extract"} THEN 10
  ELSE IF m \in {"intersect", "check"} THEN 11
  ELSE IF m \in {"result", "end"} THEN 12 ELSE 13

(* Two steps of one party, the first before the second: at one address the *)
(* messages are in their order, and nothing follows a step that may be     *)
(* passed over.  The PIR client asks for no response after its "end".      *)
Same(s, t) == s.do # "work" /\ s.do = t.do /\ s.node = t.node /\ s.key = t.key
Fetches(s) == s.do = "recv" /\ s.key \in {Response, "pack_count"}
IsEnd(s)   == s.do = "send" /\ s.key = "pir_task_end"
Follows(s, t) ==
  /\ Same(s, t) => No(s.key, s.msg) < No(t.key, t.msg) /\ s.else # "skip"
  /\ ~(IsEnd(s) /\ Fetches(t))
  /\ t.msg # "load" /\ (s.msg = "decrypt" \/ t.msg = "decrypt" \/ Stage(s) < Stage(t))

(* A sequence of steps in such an order, and the set of its steps.         *)
Ordered(y) == \A i, j \in DOMAIN y : i < j => Follows(y[i], y[j])
Chain(y, R) == y \in Seq(R) /\ Range(y) = R /\ Ordered(y)

-----------------------------------------------------------------------------
LEMMA ChainEmpty == Chain(<<>>, {})
<1>1. <<>> \in Seq({}) /\ DOMAIN <<>> = {}
  OBVIOUS
<1>2. QED BY <1>1 DEF Chain, Ordered, Range

LEMMA ChainOne ==
  ASSUME NEW a
  PROVE  Chain(<<a>>, {a})
<1> DEFINE y == <<a>>
<1>1. y \in Seq({a}) /\ DOMAIN y = 1..1 /\ y[1] = a
  OBVIOUS
<1> HIDE DEF y
<1>2. Range(y) = {a}
  BY <1>1 DEF Range
<1>3. Ordered(y)
  BY <1>1 DEF Ordered
<1>4. QED BY <1>1, <1>2, <1>3 DEF Chain, y

(* One after the other.                                                    *)
LEMMA ChainJoin ==
  ASSUME NEW y, NEW z, NEW R, NEW Q, Chain(y, R), Chain(z, Q),
         \A a \in R, b \in Q : Follows(a, b)
  PROVE  Chain(y \o z, R \cup Q)
<1> DEFINE w == y \o z
           S == R \cup Q
<1>0. y \in Seq(R) /\ z \in Seq(Q) /\ Range(y) = R /\ Range(z) = Q /\ Ordered(y) /\ Ordered(z)
  BY DEF Chain
<1>1. /\ Len(y) \in Nat /\ Len(z) \in Nat /\ DOMAIN y = 1..Len(y) /\ DOMAIN z = 1..Len(z)
      /\ \A i \in 1..Len(y) : y[i] \in R
      /\ \A i \in 1..Len(z) : z[i] \in Q
  BY <1>0, LenProperties, ElementOfSeq
<1>2. y \in Seq(S) /\ z \in Seq(S)
  BY <1>0, SeqMonotonic
<1>3. /\ w \in Seq(S) /\ Len(w) = Len(y) + Len(z)
      /\ \A i \in 1..Len(w) : w[i] = IF i <= Len(y) THEN y[i] ELSE z[i - Len(y)]
  BY <1>2, ConcatProperties
<1>4. DOMAIN w = 1..(Len(y) + Len(z))
  BY <1>3, LenProperties
<1> HIDE DEF w, S
<1>5. \A i \in DOMAIN w : \/ i \in 1..Len(y) /\ w[i] = y[i]
                          \/ i - Len(y) \in 1..Len(z) /\ i > Len(y) /\ w[i] = z[i - Len(y)]
  BY <1>1, <1>3, <1>4
<1>6. Range(w) = S
  <2>1. Range(w) \subseteq S
    BY <1>3, ElementOfSeq, <1>1, <1>4, <1>5 DEF Range, S
  <2>2. ASSUME NEW a \in R PROVE a \in Range(w)
    <3>1. PICK i \in 1..Len(y) : y[i] = a
      BY <1>0, <1>1, <2>2 DEF Range
    <3>2. i \in DOMAIN w /\ w[i] = a
      BY <1>1, <1>3, <1>4, <3>1
    <3>3. QED BY <3>2 DEF Range
  <2>3. ASSUME NEW a \in Q PROVE a \in Range(w)
    <3>1. PICK i \in 1..Len(z) : z[i] = a
      BY <1>0, <1>1, <2>3 DEF Range
    <3>2. Len(y) + i \in DOMAIN w /\ w[Len(y) + i] = a
      BY <1>1, <1>3, <1>4, <3>1
    <3>3. QED BY <3>2 DEF Range
  <2>4. QED BY <2>1, <2>2, <2>3 DEF S
<1>7. Ordered(w)
  <2> SUFFICES ASSUME NEW i \in DOMAIN w, NEW j \in DOMAIN w, i < j PROVE Follows(w[i], w[j])
    BY DEF Ordered
  <2>1. CASE i \in 1..Len(y) /\ j \in 1..Len(y)
    BY <1>0, <1>1, <1>3, <1>4, <2>1 DEF Ordered
  <2>2. CASE i \in 1..Len(y) /\ j \notin 1..Len(y)
    <3>1. w[i] \in R /\ w[j] \in Q
      BY <1>1, <1>4, <1>5, <2>2
    <3>2. QED BY <3>1
  <2>3. CASE i \notin 1..Len(y)
    <3>1. /\ i - Len(y) \in DOMAIN z /\ j - Len(y) \in DOMAIN z /\ i - Len(y) < j - Len(y)
          /\ w[i] = z[i - Len(y)] /\ w[j] = z[j - Len(y)]
      BY <1>1, <1>3, <1>4, <2>3
    <3>2. QED BY <1>0, <3>1 DEF Ordered
  <2>4. QED BY <1>1, <2>1, <2>2, <2>3
<1>8. QED BY <1>3, <1>6, <1>7 DEF Chain, w, S

(* Short sequences.                                                        *)
LEMMA ChainTwo ==
  ASSUME NEW a, NEW b,
         Follows(a, b)
  PROVE  Chain(<<a, b>>, {a, b})
<1> DEFINE y == <<a, b>>
<1>1. y \in Seq({a, b}) /\ DOMAIN y = 1..2
  OBVIOUS
<1>2. y[1] = a /\ y[2] = b
  OBVIOUS
<1> HIDE DEF y
<1>3. Range(y) = {a, b}
  BY <1>1, <1>2 DEF Range
<1>4. Ordered(y)
  BY <1>1, <1>2 DEF Ordered
<1>5. QED BY <1>1, <1>3, <1>4 DEF Chain, y

LEMMA ChainThree ==
  ASSUME NEW a, NEW b, NEW c,
         Follows(a, b), Follows(a, c), Follows(b, c)
  PROVE  Chain(<<a, b, c>>, {a, b, c})
<1> DEFINE y == <<a, b, c>>
<1>1. y \in Seq({a, b, c}) /\ DOMAIN y = 1..3
  OBVIOUS
<1>2. y[1] = a /\ y[2] = b /\ y[3] = c
  OBVIOUS
<1> HIDE DEF y
<1>3. Range(y) = {a, b, c}
  BY <1>1, <1>2 DEF Range
<1>4. Ordered(y)
  BY <1>1, <1>2 DEF Ordered
<1>5. QED BY <1>1, <1>3, <1>4 DEF Chain, y

LEMMA ChainFour ==
  ASSUME NEW a, NEW b, NEW c, NEW d,
         Follows(a, b), Follows(a, c), Follows(a, d), Follows(b, c),
         Follows(b, d), Follows(c, d)
  PROVE  Chain(<<a, b, c, d>>, {a, b, c, d})
<1> DEFINE y == <<a, b, c, d>>
<1>1. y \in Seq({a, b, c, d}) /\ DOMAIN y = 1..4
  OBVIOUS
<1>2. y[1] = a /\ y[2] = b /\ y[3] = c /\ y[4] = d
  OBVIOUS
<1> HIDE DEF y
<1>3. Range(y) = {a, b, c, d}
  BY <1>1, <1>2 DEF Range
<1>4. Ordered(y)
  BY <1>1, <1>2 DEF Ordered
<1>5. QED BY <1>1, <1>3, <1>4 DEF Chain, y

LEMMA ChainFive ==
  ASSUME NEW a, NEW b, NEW c, NEW d, NEW e,
         Follows(a, b), Follows(a, c), Follows(a, d), Follows(a, e),
         Follows(b, c), Follows(b, d), Follows(b, e), Follows(c, d),
         Follows(c, e), Follows(d, e)
  PROVE  Chain(<<a, b, c, d, e>>, {a, b, c, d, e})
<1> DEFINE y == <<a, b, c, d, e>>
<1>1. y \in Seq({a, b, c, d, e}) /\ DOMAIN y = 1..5
  OBVIOUS
<1>2. y[1] = a /\ y[2] = b /\ y[3] = c /\ y[4] = d /\ y[5] = e
  OBVIOUS
<1> HIDE DEF y
<1>3. Range(y) = {a, b, c, d, e}
  BY <1>1, <1>2 DEF Range
<1>4. Ordered(y)
  BY <1>1, <1>2 DEF Ordered
<1>5. QED BY <1>1, <1>3, <1>4 DEF Chain, y

-----------------------------------------------------------------------------
(* What a step consists of.                                                *)
LEMMA StepFields ==
  /\ \A n, k, m, e : /\ Send(n, k, m, e).do = "send" /\ Send(n, k, m, e).node = n
                     /\ Send(n, k, m, e).key = k /\ Send(n, k, m, e).msg = m
                     /\ Send(n, k, m, e).else = e
  /\ \A n, k, m, e : /\ Recv(n, k, m, e).do = "recv" /\ Recv(n, k, m, e).node = n
                     /\ Recv(n, k, m, e).key = k /\ Recv(n, k, m, e).msg = m
                     /\ Recv(n, k, m, e).else = e
  /\ \A m, e : Work(m, e).do = "work" /\ Work(m, e).msg = m /\ Work(m, e).else = e
BY DEF Send, Recv, Work, Step

(* The steps of the programs.                                              *)
EcdhClientSteps ==
  { Send("SERVER", "default", "init", "fail"), Send("SERVER", "default", "request", "fail"),
    Recv("CLIENT", "default", "response", "fail"), Work("intersect", "fail") }
EcdhServerSteps ==
  { Recv("SERVER", "default", "init", "fail"), Recv("SERVER", "default", "request", "fail"),
    Send("CLIENT", "default", "response", "skip") }
KkrtRecvSteps ==
  { Send("SERVER", "kkrt", "size", "fail"), Recv("CLIENT", "kkrt", "size", "fail"),
    Recv("CLIENT", "kkrt", "dummy", "fail"), Send("SERVER", "kkrt", "dummy", "fail"),
    Send("SERVER", "kkrt", "request", "fail"), Recv("CLIENT", "kkrt", "response", "fail"),
    Work("intersect", "fail") }
KkrtSendSteps ==
  { Send("CLIENT", "kkrt", "size", "fail"), Recv("SERVER", "kkrt", "size", "fail"),
    Send("CLIENT", "kkrt", "dummy", "fail"), Recv("SERVER", "kkrt", "dummy", "fail"),
    Recv("SERVER", "kkrt", "request", "fail"), Send("CLIENT", "kkrt", "response", "fail") }
ExecuteAsComputeSteps ==
  { Recv("TEE_COMPUTE", "CLIENT", "data", "leave"), Work("decrypt", "leave"),
    Recv("TEE_COMPUTE", "SERVER", "data", "leave"), Work("compute", "leave"),
    Send("CLIENT", "result_id", "response", "leave") }
PirClientSteps ==
  { Send("SERVER", "pir_key", "params?", "fail"), Recv("SERVER", Response, "params", "fail"),
    Send("SERVER", "pir_key", "oprf?", "fail"), Recv("SERVER", Response, "oprf", "fail"),
    Send("SERVER", "pir_key", "query", "fail"), Recv("SERVER", "pack_count", "count", "fail"),
    Recv("SERVER", Response, "package", "fail"), Work("extract", "fail"),
    Send("SERVER", "pir_task_end", "end", "fail") }
PirServerSteps ==
  { Recv("SERVER", "pir_key", "params?", "fail"), Send("SERVER", Response, "params", "fail"),
    Work("make_db", "fail"), Recv("SERVER", "pir_key", "oprf?", "fail"),
    Send("SERVER", Response, "oprf", "fail"), Recv("SERVER", "pir_key", "query", "fail"),
    Send("SERVER", "pack_count", "count", "fail"), Send("SERVER", Response, "package", "skip"),
    Work("check", "skip"), Recv("SERVER", "pir_task_end", "end", "fail") }

ProviderClientSteps ==
  { Work("attest", "leave"), Send("TEE_COMPUTE", "CLIENT", "data", "skip"),
    Recv("CLIENT", "result_id", "response", "leave"), Work("decrypt", "leave"),
    Work("intersect", "leave") }
ProviderServerSteps ==
  { Work("attest", "leave"), Send("TEE_COMPUTE", "SERVER", "data", "skip") }

LEMMA EcdhClientChain == Chain(EcdhClient, EcdhClientSteps)
<1> DEFINE R1 == { Send("SERVER", "default", "init", "fail") }
           R2 == { Send("SERVER", "default", "request", "fail"),
                    Recv("CLIENT", "default", "response", "fail") }
           R3 == { Work("intersect", "fail") }
<1>1. Chain(SendInitParam, R1)
  BY ChainOne DEF SendInitParam
<1>2. Chain(SendPSIRequestAndWaitResponse, R2)
  <2>1. /\ Follows(Send("SERVER", "default", "request", "fail"), Recv("CLIENT", "default", "response", "fail"))
    BY StepFields DEF Follows, Stage, Same, IsEnd, Fetches, No, Response
  <2>2. QED BY <2>1, ChainTwo DEF SendPSIRequestAndWaitResponse
<1>3. Chain(<< Work("intersect", "fail") >>, R3)
  BY ChainOne
<1>4. \A a \in R1, b \in R2 : Follows(a, b)
  BY StepFields DEF Follows, Stage, Same, IsEnd, Fetches, No, Response
<1>5. \A a \in R1 \cup R2, b \in R3 : Follows(a, b)
  BY StepFields DEF Follows, Stage, Same, IsEnd, Fetches, No, Response
<1>6. (R1 \cup R2) \cup R3 = EcdhClientSteps
  BY DEF EcdhClientSteps
<1> HIDE DEF R1, R2, R3
<1>7. Chain(SendInitParam \o SendPSIRequestAndWaitResponse, R1 \cup R2)
  BY <1>1, <1>2, <1>4, ChainJoin
<1>8. Chain(SendInitParam \o SendPSIRequestAndWaitResponse \o << Work("intersect", "fail") >>, (R1 \cup R2) \cup R3)
  BY <1>7, <1>3, <1>5, ChainJoin
<1>9. QED BY <1>8, <1>6 DEF EcdhClient

LEMMA EcdhServerChain == Chain(EcdhServer, EcdhServerSteps)
<1> DEFINE R1 == { Recv("SERVER", "default", "init", "fail") }
           R2 == { Recv("SERVER", "default", "request", "fail") }
           R3 == { Send("CLIENT", "default", "response", "skip") }
<1>1. Chain(RecvInitParam, R1)
  BY ChainOne DEF RecvInitParam
<1>2. Chain(InitRequest, R2)
  BY ChainOne DEF InitRequest
<1>3. Chain(PreparePSIResponse, R3)
  BY ChainOne DEF PreparePSIResponse
<1>4. \A a \in R1, b \in R2 : Follows(a, b)
  BY StepFields DEF Follows, Stage, Same, IsEnd, Fetches, No, Response
<1>5. \A a \in R1 \cup R2, b \in R3 : Follows(a, b)
  BY StepFields DEF Follows, Stage, Same, IsEnd, Fetches, No, Response
<1>6. (R1 \cup R2) \cup R3 = EcdhServerSteps
  BY DEF EcdhServerSteps
<1> HIDE DEF R1, R2, R3
<1>7. Chain(RecvInitParam \o InitRequest, R1 \cup R2)
  BY <1>1, <1>2, <1>4, ChainJoin
<1>8. Chain(RecvInitParam \o InitRequest \o PreparePSIResponse, (R1 \cup R2) \cup R3)
  BY <1>7, <1>3, <1>5, ChainJoin
<1>9. QED BY <1>8, <1>6 DEF EcdhServer

LEMMA KkrtRecvChain == Chain(KkrtRecv, KkrtRecvSteps)
<1> DEFINE R1 == { Send("SERVER", "kkrt", "size", "fail"),
                    Recv("CLIENT", "kkrt", "size", "fail"),
                    Recv("CLIENT", "kkrt", "dummy", "fail"),
                    Send("SERVER", "kkrt", "dummy", "fail") }
           R2 == { Send("SERVER", "kkrt", "request", "fail"),
                    Recv("CLIENT", "kkrt", "response", "fail") }
           R3 == { Work("intersect", "fail") }
<1>1. Chain(<< Send("SERVER", "kkrt", "size", "fail"), Recv("CLIENT", "kkrt", "size", "fail"), Recv("CLIENT", "kkrt", "dummy", "fail"), Send("SERVER", "kkrt", "dummy", "fail") >>, R1)
  <2>1. /\ Follows(Send("SERVER", "kkrt", "size", "fail"), Recv("CLIENT", "kkrt", "size", "fail"))
        /\ Follows(Send("SERVER", "kkrt", "size", "fail"), Recv("CLIENT", "kkrt", "dummy", "fail"))
        /\ Follows(Send("SERVER", "kkrt", "size", "fail"), Send("SERVER", "kkrt", "dummy", "fail"))
        /\ Follows(Recv("CLIENT", "kkrt", "size", "fail"), Recv("CLIENT", "kkrt", "dummy", "fail"))
        /\ Follows(Recv("CLIENT", "kkrt", "size", "fail"), Send("SERVER", "kkrt", "dummy", "fail"))
        /\ Follows(Recv("CLIENT", "kkrt", "dummy", "fail"), Send("SERVER", "kkrt", "dummy", "fail"))
    BY StepFields DEF Follows, Stage, Same, IsEnd, Fetches, No, Response
  <2>2. QED BY <2>1, ChainFour
<1>2. Chain(LibPsiReceiver, R2)
  <2>1. /\ Follows(Send("SERVER", "kkrt", "request", "fail"), Recv("CLIENT", "kkrt", "response", "fail"))
    BY StepFields DEF Follows, Stage, Same, IsEnd, Fetches, No, Response
  <2>2. QED BY <2>1, ChainTwo DEF LibPsiReceiver
<1>3. Chain(<< Work("intersect", "fail") >>, R3)
  BY ChainOne
<1>4. \A a \in R1, b \in R2 : Follows(a, b)
  BY StepFields DEF Follows, Stage, Same, IsEnd, Fetches, No, Response
<1>5. \A a \in R1 \cup R2, b \in R3 : Follows(a, b)
  BY StepFields DEF Follows, Stage, Same, IsEnd, Fetches, No, Response
<1>6. (R1 \cup R2) \cup R3 = KkrtRecvSteps
  BY DEF KkrtRecvSteps
<1> HIDE DEF R1, R2, R3
<1>7. Chain(<< Send("SERVER", "kkrt", "size", "fail"), Recv("CLIENT", "kkrt", "size", "fail"), Recv("CLIENT", "kkrt", "dummy", "fail"), Send("SERVER", "kkrt", "dummy", "fail") >> \o LibPsiReceiver, R1 \cup R2)
  BY <1>1, <1>2, <1>4, ChainJoin
<1>8. Chain(<< Send("SERVER", "kkrt", "size", "fail"), Recv("CLIENT", "kkrt", "size", "fail"), Recv("CLIENT", "kkrt", "dummy", "fail"), Send("SERVER", "kkrt", "dummy", "fail") >> \o LibPsiReceiver \o << Work("intersect", "fail") >>, (R1 \cup R2) \cup R3)
  BY <1>7, <1>3, <1>5, ChainJoin
<1>9. QED BY <1>8, <1>6 DEF KkrtRecv

LEMMA KkrtSendChain == Chain(KkrtSend, KkrtSendSteps)
<1> DEFINE R1 == { Send("CLIENT", "kkrt", "size", "fail"),
                    Recv("SERVER", "kkrt", "size", "fail"),
                    Send("CLIENT", "kkrt", "dummy", "fail"),
                    Recv("SERVER", "kkrt", "dummy", "fail") }
           R2 == { Recv("SERVER", "kkrt", "request", "fail"),
                    Send("CLIENT", "kkrt", "response", "fail") }
<1>1. Chain(<< Send("CLIENT", "kkrt", "size", "fail"), Recv("SERVER", "kkrt", "size", "fail"), Send("CLIENT", "kkrt", "dummy", "fail"), Recv("SERVER", "kkrt", "dummy", "fail") >>, R1)
  <2>1. /\ Follows(Send("CLIENT", "kkrt", "size", "fail"), Recv("SERVER", "kkrt", "size", "fail"))
        /\ Follows(Send("CLIENT", "kkrt", "size", "fail"), Send("CLIENT", "kkrt", "dummy", "fail"))
        /\ Follows(Send("CLIENT", "kkrt", "size", "fail"), Recv("SERVER", "kkrt", "dummy", "fail"))
        /\ Follows(Recv("SERVER", "kkrt", "size", "fail"), Send("CLIENT", "kkrt", "dummy", "fail"))
        /\ Follows(Recv("SERVER", "kkrt", "size", "fail"), Recv("SERVER", "kkrt", "dummy", "fail"))
        /\ Follows(Send("CLIENT", "kkrt", "dummy", "fail"), Recv("SERVER", "kkrt", "dummy", "fail"))
    BY StepFields DEF Follows, Stage, Same, IsEnd, Fetches, No, Response
  <2>2. QED BY <2>1, ChainFour
<1>2. Chain(LibPsiSender, R2)
  <2>1. /\ Follows(Recv("SERVER", "kkrt", "request", "fail"), Send("CLIENT", "kkrt", "response", "fail"))
    BY StepFields DEF Follows, Stage, Same, IsEnd, Fetches, No, Response
  <2>2. QED BY <2>1, ChainTwo DEF LibPsiSender
<1>3. \A a \in R1, b \in R2 : Follows(a, b)
  BY StepFields DEF Follows, Stage, Same, IsEnd, Fetches, No, Response
<1>4. R1 \cup R2 = KkrtSendSteps
  BY DEF KkrtSendSteps
<1> HIDE DEF R1, R2
<1>5. Chain(<< Send("CLIENT", "kkrt", "size", "fail"), Recv("SERVER", "kkrt", "size", "fail"), Send("CLIENT", "kkrt", "dummy", "fail"), Recv("SERVER", "kkrt", "dummy", "fail") >> \o LibPsiSender, R1 \cup R2)
  BY <1>1, <1>2, <1>3, ChainJoin
<1>6. QED BY <1>5, <1>4 DEF KkrtSend

LEMMA ExecuteAsComputeChain == Chain(ExecuteAsCompute, ExecuteAsComputeSteps)
<1> DEFINE R1 == { Recv("TEE_COMPUTE", "CLIENT", "data", "leave"), Work("decrypt", "leave"),
                    Recv("TEE_COMPUTE", "SERVER", "data", "leave"), Work("decrypt", "leave") }
           R2 == { Work("compute", "leave") }
           R3 == { Send("CLIENT", "result_id", "response", "leave") }
<1>1. Chain(ReceiveDataFromDataProvider, R1)
  <2>1. /\ Follows(Recv("TEE_COMPUTE", "CLIENT", "data", "leave"), Work("decrypt", "leave"))
        /\ Follows(Recv("TEE_COMPUTE", "CLIENT", "data", "leave"), Recv("TEE_COMPUTE", "SERVER", "data", "leave"))
        /\ Follows(Recv("TEE_COMPUTE", "CLIENT", "data", "leave"), Work("decrypt", "leave"))
        /\ Follows(Work("decrypt", "leave"), Recv("TEE_COMPUTE", "SERVER", "data", "leave"))
        /\ Follows(Work("decrypt", "leave"), Work("decrypt", "leave"))
        /\ Follows(Recv("TEE_COMPUTE", "SERVER", "data", "leave"), Work("decrypt", "leave"))
    BY StepFields DEF Follows, Stage, Same, IsEnd, Fetches, No, Response
  <2>2. QED BY <2>1, ChainFour DEF ReceiveDataFromDataProvider
<1>2. Chain(<< Work("compute", "leave") >>, R2)
  BY ChainOne
<1>3. Chain(SendEncryptedResult, R3)
  BY ChainOne DEF SendEncryptedResult
<1>4. \A a \in R1, b \in R2 : Follows(a, b)
  BY StepFields DEF Follows, Stage, Same, IsEnd, Fetches, No, Response
<1>5. \A a \in R1 \cup R2, b \in R3 : Follows(a, b)
  BY StepFields DEF Follows, Stage, Same, IsEnd, Fetches, No, Response
<1>6. (R1 \cup R2) \cup R3 = ExecuteAsComputeSteps
  BY DEF ExecuteAsComputeSteps
<1> HIDE DEF R1, R2, R3
<1>7. Chain(ReceiveDataFromDataProvider \o << Work("compute", "leave") >>, R1 \cup R2)
  BY <1>1, <1>2, <1>4, ChainJoin
<1>8. Chain(ReceiveDataFromDataProvider \o << Work("compute", "leave") >> \o SendEncryptedResult, (R1 \cup R2) \cup R3)
  BY <1>7, <1>3, <1>5, ChainJoin
<1>9. QED BY <1>8, <1>6 DEF ExecuteAsCompute

LEMMA PirClientChain == Chain(PirClient, PirClientSteps)
<1> DEFINE R1 == { Send("SERVER", "pir_key", "params?", "fail"),
                    Recv("SERVER", Response, "params", "fail") }
           R2 == { Send("SERVER", "pir_key", "oprf?", "fail"),
                    Recv("SERVER", Response, "oprf", "fail") }
           R3 == { Send("SERVER", "pir_key", "query", "fail"),
                    Recv("SERVER", "pack_count", "count", "fail"),
                    Recv("SERVER", Response, "package", "fail"), Work("extract", "fail"),
                    Send("SERVER", "pir_task_end", "end", "fail") }
<1>1. Chain(RequestPSIParams, R1)
  <2>1. /\ Follows(Send("SERVER", "pir_key", "params?", "fail"), Recv("SERVER", Response, "params", "fail"))
    BY StepFields DEF Follows, Stage, Same, IsEnd, Fetches, No, Response
  <2>2. QED BY <2>1, ChainTwo DEF RequestPSIParams
<1>2. Chain(RequestOprf, R2)
  <2>1. /\ Follows(Send("SERVER", "pir_key", "oprf?", "fail"), Recv("SERVER", Response, "oprf", "fail"))
    BY StepFields DEF Follows, Stage, Same, IsEnd, Fetches, No, Response
  <2>2. QED BY <2>1, ChainTwo DEF RequestOprf
<1>3. Chain(<< Send("SERVER", "pir_key", "query", "fail"), Recv("SERVER", "pack_count", "count", "fail"), Recv("SERVER", Response, "package", "fail"), Work("extract", "fail"), Send("SERVER", "pir_task_end", "end", "fail") >>, R3)
  <2>1. /\ Follows(Send("SERVER", "pir_key", "query", "fail"), Recv("SERVER", "pack_count", "count", "fail"))
        /\ Follows(Send("SERVER", "pir_key", "query", "fail"), Recv("SERVER", Response, "package", "fail"))
        /\ Follows(Send("SERVER", "pir_key", "query", "fail"), Work("extract", "fail"))
        /\ Follows(Send("SERVER", "pir_key", "query", "fail"), Send("SERVER", "pir_task_end", "end", "fail"))
    BY StepFields DEF Follows, Stage, Same, IsEnd, Fetches, No, Response
  <2>2. /\ Follows(Recv("SERVER", "pack_count", "count", "fail"), Recv("SERVER", Response, "package", "fail"))
        /\ Follows(Recv("SERVER", "pack_count", "count", "fail"), Work("extract", "fail"))
        /\ Follows(Recv("SERVER", "pack_count", "count", "fail"), Send("SERVER", "pir_task_end", "end", "fail"))
        /\ Follows(Recv("SERVER", Response, "package", "fail"), Work("extract", "fail"))
        /\ Follows(Recv("SERVER", Response, "package", "fail"), Send("SERVER", "pir_task_end", "end", "fail"))
        /\ Follows(Work("extract", "fail"), Send("SERVER", "pir_task_end", "end", "fail"))
    BY StepFields DEF Follows, Stage, Same, IsEnd, Fetches, No, Response
  <2>3. QED BY <2>1, <2>2, ChainFive
<1>4. \A a \in R1, b \in R2 : Follows(a, b)
  BY StepFields DEF Follows, Stage, Same, IsEnd, Fetches, No, Response
<1>5. \A a \in R1 \cup R2, b \in R3 : Follows(a, b)
  BY StepFields DEF Follows, Stage, Same, IsEnd, Fetches, No, Response
<1>6. (R1 \cup R2) \cup R3 = PirClientSteps
  BY DEF PirClientSteps
<1> HIDE DEF R1, R2, R3
<1>7. Chain(RequestPSIParams \o RequestOprf, R1 \cup R2)
  BY <1>1, <1>2, <1>4, ChainJoin
<1>8. Chain(RequestPSIParams \o RequestOprf \o << Send("SERVER", "pir_key", "query", "fail"), Recv("SERVER", "pack_count", "count", "fail"), Recv("SERVER", Response, "package", "fail"), Work("extract", "fail"), Send("SERVER", "pir_task_end", "end", "fail") >>, (R1 \cup R2) \cup R3)
  BY <1>7, <1>3, <1>5, ChainJoin
<1>9. QED BY <1>8, <1>6 DEF PirClient

LEMMA PirServerChain == Chain(PirServer, PirServerSteps)
<1> DEFINE R1 == { Recv("SERVER", "pir_key", "params?", "fail"),
                    Send("SERVER", Response, "params", "fail") }
           R2 == { Work("make_db", "fail") }
           R3 == { Recv("SERVER", "pir_key", "oprf?", "fail"),
                    Send("SERVER", Response, "oprf", "fail") }
           R4 == { Recv("SERVER", "pir_key", "query", "fail"),
                    Send("SERVER", "pack_count", "count", "fail"),
                    Send("SERVER", Response, "package", "skip"), Work("check", "skip") }
           R5 == { Recv("SERVER", "pir_task_end", "end", "fail") }
<1>1. Chain(ProcessPSIParams, R1)
  <2>1. /\ Follows(Recv("SERVER", "pir_key", "params?", "fail"), Send("SERVER", Response, "params", "fail"))
    BY StepFields DEF Follows, Stage, Same, IsEnd, Fetches, No, Response
  <2>2. QED BY <2>1, ChainTwo DEF ProcessPSIParams
<1>2. Chain(<< Work("make_db", "fail") >>, R2)
  BY ChainOne
<1>3. Chain(ProcessOprf, R3)
  <2>1. /\ Follows(Recv("SERVER", "pir_key", "oprf?", "fail"), Send("SERVER", Response, "oprf", "fail"))
    BY StepFields DEF Follows, Stage, Same, IsEnd, Fetches, No, Response
  <2>2. QED BY <2>1, ChainTwo DEF ProcessOprf
<1>4. Chain(ProcessQuery, R4)
  <2>1. /\ Follows(Recv("SERVER", "pir_key", "query", "fail"), Send("SERVER", "pack_count", "count", "fail"))
        /\ Follows(Recv("SERVER", "pir_key", "query", "fail"), Send("SERVER", Response, "package", "skip"))
        /\ Follows(Recv("SERVER", "pir_key", "query", "fail"), Work("check", "skip"))
        /\ Follows(Send("SERVER", "pack_count", "count", "fail"), Send("SERVER", Response, "package", "skip"))
        /\ Follows(Send("SERVER", "pack_count", "count", "fail"), Work("check", "skip"))
        /\ Follows(Send("SERVER", Response, "package", "skip"), Work("check", "skip"))
    BY StepFields DEF Follows, Stage, Same, IsEnd, Fetches, No, Response
  <2>2. QED BY <2>1, ChainFour DEF ProcessQuery
<1>5. Chain(<< Recv("SERVER", "pir_task_end", "end", "fail") >>, R5)
  BY ChainOne
<1>6. \A a \in R1, b \in R2 : Follows(a, b)
  BY StepFields DEF Follows, Stage, Same, IsEnd, Fetches, No, Response
<1>7. \A a \in R1 \cup R2, b \in R3 : Follows(a, b)
  BY StepFields DEF Follows, Stage, Same, IsEnd, Fetches, No, Response
<1>8. \A a \in (R1 \cup R2) \cup R3, b \in R4 : Follows(a, b)
  BY StepFields DEF Follows, Stage, Same, IsEnd, Fetches, No, Response
<1>9. \A a \in ((R1 \cup R2) \cup R3) \cup R4, b \in R5 : Follows(a, b)
  BY StepFields DEF Follows, Stage, Same, IsEnd, Fetches, No, Response
<1>10. (((R1 \cup R2) \cup R3) \cup R4) \cup R5 = PirServerSteps
  BY DEF PirServerSteps
<1> HIDE DEF R1, R2, R3, R4, R5
<1>11. Chain(ProcessPSIParams \o << Work("make_db", "fail") >>, R1 \cup R2)
  BY <1>1, <1>2, <1>6, ChainJoin
<1>12. Chain(ProcessPSIParams \o << Work("make_db", "fail") >> \o ProcessOprf, (R1 \cup R2) \cup R3)
  BY <1>11, <1>3, <1>7, ChainJoin
<1>13. Chain(ProcessPSIParams \o << Work("make_db", "fail") >> \o ProcessOprf \o ProcessQuery, ((R1 \cup R2) \cup R3) \cup R4)
  BY <1>12, <1>4, <1>8, ChainJoin
<1>14. Chain(ProcessPSIParams \o << Work("make_db", "fail") >> \o ProcessOprf \o ProcessQuery \o << Recv("SERVER", "pir_task_end", "end", "fail") >>, (((R1 \cup R2) \cup R3) \cup R4) \cup R5)
  BY <1>13, <1>5, <1>9, ChainJoin
<1>15. QED BY <1>14, <1>10 DEF PirServer

-----------------------------------------------------------------------------
(* The steps a party has before it, and those of them at one address.      *)
Ahead(x)      == Range(x[1]) \cup Range(x[2])
Line(d, a, x) == { s \in Ahead(x) : s.do = d /\ s.node = a[1] /\ s.key = a[2] }
Nums(d, a, x) == { No(s.key, s.msg) : s \in Line(d, a, x) }

(* A step belongs to the party that takes it.                              *)
Own(p, s) ==
  s.do # "work" => /\ Known(s.node, s.key, s.msg)
                   /\ \/ s.do = "send" /\ p = Sender(s.node, s.key)
                      \/ s.do = "recv" /\ p = Receiver(s.node, s.key)

(* What party p has before it is a rest of its program.  Where a failure   *)
(* may end OnExecute, what comes after it uses other addresses.            *)
Program(p, x) ==
  /\ x = <<x[1], x[2]>>
  /\ Chain(x[1], Range(x[1])) /\ Chain(x[2], Range(x[2]))
  /\ \A s \in Ahead(x) : Own(p, s)
  /\ \A t \in Range(x[2]) : t.else # "leave"
  /\ \A s \in Range(x[1]), t \in Range(x[2]) :
       /\ Follows(s, t)
       /\ \A u \in Range(x[1]) : s.else = "leave" => ~Same(u, t)

(* The numbers from c on, without a gap.                                   *)
From(S, c) == c \in S /\ \A x \in S : c <= x /\ c..x \subseteq S

(* The packages of the PIR server all have the last number of their line.  *)
Cap(a, v) == IF a[2] = Response /\ v > 3 THEN 3 ELSE v

(* At an address with the numbers r still to be received and s still to be *)
(* sent, the messages stored come first and those not sent yet after them. *)
Fits(a, r, s, q) ==
  r = {} \/ \E c \in 1..3 :
    /\ From(r, c)
    /\ \A i \in DOMAIN q : /\ Known(a[1], a[2], q[i].msg)
                           /\ No(a[2], q[i].msg) = Cap(a, c + i - 1)
    /\ s = {} \/ From(s, Cap(a, c + Len(q)))

(* The party that sends to or receives from an address, and the numbers it *)
(* has before it there.                                                    *)
Party(d, a)  == IF d = "recv" THEN Receiver(a[1], a[2]) ELSE Sender(a[1], a[2])
Open(d, a)   == Nums(d, a, prog[Party(d, a)])
ToReceive(a) == Open("recv", a)
ToSend(a)    == Open("send", a)

Addresses == Parties \X Keys
Shape ==
  /\ prog = [p \in Parties |-> prog[p]] /\ status = [p \in Parties |-> status[p]]
  /\ queue = [a \in Addresses |-> queue[a]]
  /\ \A a \in Addresses : \E S : queue[a] \in Seq(S)

LineInv == \A a \in Addresses :
             status[Receiver(a[1], a[2])] = "failed" \/ Fits(a, ToReceive(a), ToSend(a), queue[a])
ProgInv == \A p \in Parties : Program(p, prog[p])

(* Keyword PIR.  The end of the client, the number of its packages and the *)
(* responses.                                                              *)
PirEnd   == <<"SERVER", "pir_task_end">>
PirCount == <<"SERVER", "pack_count">>
PirReply == <<"SERVER", Response>>

(* No receive is passed over, and the client sends its end after the last  *)
(* response it asks for.                                                   *)
PirProgram(x) ==
  /\ \A s \in Ahead(x) : s.else # "leave" /\ (s.do = "recv" => s.else = "fail")
  /\ (\E s \in Ahead(x) : Fetches(s)) => \E s \in Ahead(x) : IsEnd(s)

(* Every bundle is sent once, and is either stored or has been received.   *)
Heard == BundlesIn(heard["CLIENT"][Response])
Bundled(m, pending) ==
  IF m.msg = "package" THEN BundlesIn(m.body) # {} /\ BundlesIn(m.body) \subseteq pending
  ELSE BundlesIn(m.body) = {}
BundleInv ==
  /\ Heard \subseteq packed /\ packed \subseteq Bundles
  /\ \A i \in DOMAIN queue[PirReply] : Bundled(queue[PirReply][i], packed \ Heard)
  /\ \A i, j \in DOMAIN queue[PirReply] :
       i # j => BundlesIn(queue[PirReply][i].body) \cap BundlesIn(queue[PirReply][j].body) = {}
  /\ packed = Bundles => 3 \notin ToSend(PirReply)

(* Nothing is stored or sent any more where nothing is to be received.     *)
OverInv ==
  /\ ToReceive(PirReply) # {} => 3 \in ToReceive(PirReply)
  /\ ToReceive(PirEnd) = {} => ToSend(PirEnd) = {}
  /\ \A a \in {PirCount, PirReply} : ToReceive(a) = {} => ToSend(a) = {} /\ queue[a] = <<>>

PirInv ==
  /\ heard = [p \in Parties |-> [k \in Keys |-> heard[p][k]]]
  /\ \A p \in Parties : PirProgram(prog[p])
  /\ \A p \in Parties : status[p] = "success" => prog[p] = << <<>>, <<>> >>
  /\ BundleInv /\ OverInv

-----------------------------------------------------------------------------
(* The first step of a sequence, and the rest of it.                       *)
LEMMA ChainTail ==
  ASSUME NEW y, Chain(y, Range(y)), y # <<>>
  PROVE  /\ Chain(Tail(y), Range(Tail(y)))
         /\ Range(y) = {Head(y)} \cup Range(Tail(y))
         /\ \A t \in Range(Tail(y)) : Follows(Head(y), t)
<1> DEFINE z == Tail(y)
           h == Head(y)
           R == Range(y)
<1>1. y \in Seq(R) /\ Ordered(y)
  BY DEF Chain
<1>2. /\ Len(y) \in Nat /\ DOMAIN y = 1..Len(y) /\ Len(y) >= 1
      /\ \A i \in 1..Len(y) : y[i] \in R
  BY <1>1, LenProperties, ElementOfSeq, EmptySeq
<1>3. /\ z \in Seq(R) /\ Len(z) = Len(y) - 1 /\ h = y[1]
      /\ \A i \in 1..Len(z) : z[i] = y[i + 1]
  BY <1>1, HeadTailProperties
<1>4. DOMAIN z = 1..(Len(y) - 1)
  BY <1>3, LenProperties
<1> HIDE DEF z, h, R
<1>5. Range(z) = { z[i] : i \in DOMAIN z }
  BY DEF Range
<1>6. z \in Seq(Range(z))
  <2>1. \A i \in 1..Len(z) : z[i] \in Range(z)
    BY <1>3, <1>4, <1>5
  <2>2. QED BY <1>3, <2>1, SeqDef, LenProperties
<1>7. Ordered(z)
  <2> SUFFICES ASSUME NEW i \in DOMAIN z, NEW j \in DOMAIN z, i < j PROVE Follows(z[i], z[j])
    BY DEF Ordered
  <2>1. i + 1 \in DOMAIN y /\ j + 1 \in DOMAIN y /\ i + 1 < j + 1
    BY <1>2, <1>4
  <2>2. z[i] = y[i + 1] /\ z[j] = y[j + 1]
    BY <1>3, <1>4, <1>2
  <2>3. QED BY <1>1, <2>1, <2>2 DEF Ordered
<1>8. \A t \in Range(z) : t \in R /\ Follows(h, t)
  <2> SUFFICES ASSUME NEW i \in DOMAIN z PROVE z[i] \in R /\ Follows(h, z[i])
    BY <1>5
  <2>1. 1 \in DOMAIN y /\ i + 1 \in DOMAIN y /\ 1 < i + 1 /\ z[i] = y[i + 1]
    BY <1>2, <1>3, <1>4
  <2>2. QED BY <1>1, <1>2, <1>3, <2>1 DEF Ordered
<1>9. R = {h} \cup Range(z)
  <2>1. h \in R
    BY <1>2, <1>3
  <2>2. ASSUME NEW t \in R PROVE t = h \/ t \in Range(z)
    <3>1. PICK i \in DOMAIN y : t = y[i]
      BY DEF R, Range
    <3>2. CASE i = 1
      BY <3>1, <3>2, <1>3
    <3>3. CASE i # 1
      <4>1. i - 1 \in DOMAIN z /\ z[i - 1] = y[i]
        BY <3>3, <1>2, <1>3, <1>4
      <4>2. QED BY <3>1, <4>1, <1>5
    <3>4. QED BY <3>2, <3>3
  <2>3. QED BY <1>8, <2>1, <2>2
<1>10. QED BY <1>6, <1>7, <1>8, <1>9 DEF Chain, z, h, R

(* The step before a party, and what it has before it afterwards.          *)
First(x) == IF x[1] # <<>> THEN Head(x[1]) ELSE Head(x[2])
Rest(x)  == IF x[1] # <<>> THEN << Tail(x[1]), x[2] >> ELSE << <<>>, Tail(x[2]) >>
Left(x)  == << <<>>, x[2] >>
Idle     == << <<>>, <<>> >>

LEMMA EmptyRange == Range(<<>>) = {}
BY ChainEmpty DEF Chain

(* A pair and its parts.                                                   *)
LEMMA Pair == \A y, z : << y, z >>[1] = y /\ << y, z >>[2] = z
OBVIOUS

(* A step is taken or skipped.                                             *)
LEMMA StepOn ==
  ASSUME NEW p, NEW x, Program(p, x), x # Idle
  PROVE  /\ Program(p, Rest(x)) /\ Ahead(x) = {First(x)} \cup Ahead(Rest(x))
         /\ \A t \in Ahead(Rest(x)) : Follows(First(x), t)
<1> DEFINE y == x[1]
           z == x[2]
<1>1. /\ x = <<y, z>> /\ Chain(y, Range(y)) /\ Chain(z, Range(z))
      /\ \A s \in Range(y) \cup Range(z) : Own(p, s)
      /\ \A t \in Range(z) : t.else # "leave"
      /\ \A s \in Range(y), t \in Range(z) : Follows(s, t)
      /\ \A s, u \in Range(y), t \in Range(z) : s.else = "leave" => ~Same(u, t)
  BY DEF Program, Ahead
<1>2. CASE y # <<>>
  <2>1. /\ Chain(Tail(y), Range(Tail(y))) /\ Range(y) = {Head(y)} \cup Range(Tail(y))
        /\ \A t \in Range(Tail(y)) : Follows(Head(y), t)
    BY <1>1, <1>2, ChainTail
  <2>2. First(x) = Head(y) /\ Rest(x) = << Tail(y), z >>
    BY <1>2 DEF First, Rest
  <2>3. Rest(x)[1] = Tail(y) /\ Rest(x)[2] = z
    BY <2>2, Pair
  <2>4. Ahead(Rest(x)) = Range(Tail(y)) \cup Range(z) /\ Ahead(x) = Range(y) \cup Range(z)
    BY <2>3 DEF Ahead
  <2> HIDE DEF y, z
  <2>5. Program(p, Rest(x))
    <3>1. Rest(x) = << Rest(x)[1], Rest(x)[2] >>
      BY <2>2, <2>3
    <3>2. Range(Tail(y)) \subseteq Range(y)
      BY <2>1
    <3>3. \A s \in Ahead(Rest(x)) : Own(p, s)
      BY <1>1, <2>4, <3>2
    <3>4. \A s \in Range(Tail(y)), t \in Range(z) :
            /\ Follows(s, t)
            /\ \A u \in Range(Tail(y)) : s.else = "leave" => ~Same(u, t)
      BY <1>1, <3>2
    <3>5. QED BY <1>1, <2>1, <2>3, <3>1, <3>3, <3>4 DEF Program
  <2>6. \A t \in Ahead(Rest(x)) : Follows(First(x), t)
    BY <1>1, <2>1, <2>2, <2>4
  <2>7. QED BY <2>1, <2>2, <2>4, <2>5, <2>6
<1>3. CASE y = <<>>
  <2>1. z # <<>>
    BY <1>1, <1>3 DEF Idle
  <2>2. /\ Chain(Tail(z), Range(Tail(z))) /\ Range(z) = {Head(z)} \cup Range(Tail(z))
        /\ \A t \in Range(Tail(z)) : Follows(Head(z), t)
    BY <1>1, <2>1, ChainTail
  <2>3. First(x) = Head(z) /\ Rest(x) = << <<>>, Tail(z) >>
    BY <1>3 DEF First, Rest
  <2>4. Rest(x)[1] = <<>> /\ Rest(x)[2] = Tail(z) /\ Range(y) = {} /\ Range(<<>>) = {}
    BY <1>3, <2>3, Pair, EmptyRange
  <2>5. Ahead(Rest(x)) = Range(Tail(z)) /\ Ahead(x) = Range(z)
    BY <2>4 DEF Ahead
  <2> HIDE DEF y, z
  <2>6. Program(p, Rest(x))
    <3>1. Rest(x) = << Rest(x)[1], Rest(x)[2] >>
      BY <2>3, <2>4
    <3>2. \A s \in Ahead(Rest(x)) : Own(p, s)
      BY <1>1, <2>2, <2>5
    <3>3. Chain(<<>>, Range(<<>>))
      BY ChainEmpty, EmptyRange
    <3>4. \A s \in Range(<<>>), t \in Range(Tail(z)) :
            /\ Follows(s, t)
            /\ \A u \in Range(<<>>) : s.else = "leave" => ~Same(u, t)
      BY EmptyRange
    <3>5. \A t \in Range(Tail(z)) : t.else # "leave"
      BY <1>1, <2>2
    <3>6. QED BY <2>2, <2>4, <3>1, <3>2, <3>3, <3>4, <3>5 DEF Program
  <2>7. QED BY <2>2, <2>3, <2>5, <2>6
<1>4. QED BY <1>2, <1>3

(* OnExecute ends early: an address is left alone, or nothing follows.     *)
LEMMA StepLeaves ==
  ASSUME NEW p, NEW x, Program(p, x), x # Idle, First(x).else = "leave"
  PROVE  /\ Program(p, Left(x)) /\ Ahead(Left(x)) \subseteq Ahead(x)
         /\ \A d, a : d # "work" => Line(d, a, Left(x)) \in {{}, Line(d, a, x)}
         /\ \A t \in Ahead(Left(x)) : ~Same(First(x), t)
<1> DEFINE y == x[1]
           z == x[2]
           s == First(x)
<1>1. /\ x = <<y, z>> /\ Chain(z, Range(z))
      /\ \A u \in Range(y) \cup Range(z) : Own(p, u)
      /\ \A t \in Range(z) : t.else # "leave"
      /\ \A v, u \in Range(y), t \in Range(z) : v.else = "leave" => ~Same(u, t)
  BY DEF Program, Ahead
<1>2. Left(x)[1] = <<>> /\ Left(x)[2] = z /\ Left(x) = << <<>>, z >>
  BY Pair DEF Left
<1>3. Ahead(Left(x)) = Range(z) /\ Ahead(x) = Range(y) \cup Range(z)
  BY <1>2, EmptyRange DEF Ahead
<1>4. s \in Range(y)
  <2>1. CASE y # <<>>
    <3>1. Range(y) = {Head(y)} \cup Range(Tail(y))
      BY <2>1, ChainTail DEF Program
    <3>2. QED BY <2>1, <3>1 DEF First
  <2>2. CASE y = <<>>
    <3>1. z # <<>>
      BY <1>1, <2>2 DEF Idle
    <3>2. Range(z) = {Head(z)} \cup Range(Tail(z))
      BY <1>1, <3>1, ChainTail
    <3>3. s = Head(z)
      BY <2>2 DEF First
    <3>4. QED BY <1>1, <3>2, <3>3
  <2>3. QED BY <2>1, <2>2
<1>5. Program(p, Left(x))
  <2>1. Left(x) = << Left(x)[1], Left(x)[2] >>
    BY <1>2
  <2>2. Chain(<<>>, Range(<<>>))
    BY ChainEmpty, EmptyRange
  <2>3. QED BY <1>1, <1>2, <1>3, <2>1, <2>2, EmptyRange DEF Program
<1>6. \A u \in Range(y), t \in Range(z) : ~Same(u, t)
  BY <1>1, <1>4
<1> HIDE DEF y, z, s
<1>7. ASSUME NEW d, NEW a, d # "work" PROVE Line(d, a, Left(x)) \in {{}, Line(d, a, x)}
  <2>1. SUFFICES ASSUME NEW t \in Line(d, a, Left(x)) PROVE Line(d, a, Left(x)) = Line(d, a, x)
    BY Zenon
  <2>2. t \in Range(z) /\ t.do = d /\ t.node = a[1] /\ t.key = a[2]
    BY <1>3 DEF Line
  <2>3. \A u \in Line(d, a, x) : u \in Range(z)
    BY <1>3, <1>6, <1>7, <2>2 DEF Line, Same
  <2>4. Line(d, a, Left(x)) \subseteq Line(d, a, x)
    BY <1>3 DEF Line
  <2>5. Line(d, a, x) \subseteq Line(d, a, Left(x))
    BY <1>3, <2>3 DEF Line
  <2>6. QED BY <2>4, <2>5
<1>8. QED BY <1>3, <1>4, <1>5, <1>6, <1>7 DEF s

(* What that means for the numbers of an address.                          *)
LEMMA NumsOn ==
  ASSUME NEW p, NEW x, Program(p, x), x # Idle, NEW a, NEW d \in {"send", "recv"}
  PROVE  IF First(x) \in Line(d, a, x)
         THEN LET m == No(First(x).key, First(x).msg) IN
              /\ m \in Nums(d, a, x) /\ Nums(d, a, Rest(x)) = Nums(d, a, x) \ {m}
              /\ \A v \in Nums(d, a, x) : m <= v
              /\ First(x).else = "skip" => Nums(d, a, Rest(x)) = {}
         ELSE Nums(d, a, Rest(x)) = Nums(d, a, x)
<1> DEFINE s == First(x)
           y == Rest(x)
           m == No(s.key, s.msg)
<1>1. Ahead(x) = {s} \cup Ahead(y) /\ \A t \in Ahead(y) : Follows(s, t)
  BY StepOn
<1>2. \A t : No(t.key, t.msg) \in 1..3
  BY DEF No
<1> HIDE DEF s, y
<1>3. CASE s \in Line(d, a, x)
  <2>1. s.do = d /\ s.node = a[1] /\ s.key = a[2]
    BY <1>3 DEF Line
  <2>2. Line(d, a, x) = {s} \cup Line(d, a, y)
    BY <1>1, <1>3 DEF Line
  <2>3. \A t \in Line(d, a, y) : m < No(t.key, t.msg) /\ s.else # "skip"
    BY <1>1, <2>1 DEF Line, Follows, Same
  <2> HIDE DEF m
  <2>4. m \in 1..3 /\ m = No(s.key, s.msg)
    BY <1>2 DEF m
  <2>5. Nums(d, a, x) = {m} \cup Nums(d, a, y)
    BY <2>2, <2>4 DEF Nums
  <2>6. \A v \in Nums(d, a, y) : v \in 1..3 /\ m < v /\ s.else # "skip"
    BY <1>2, <2>3 DEF Nums
  <2>7. m \notin Nums(d, a, y)
    BY <2>4, <2>6
  <2>8. m \in Nums(d, a, x) /\ Nums(d, a, y) = Nums(d, a, x) \ {m} /\ \A v \in Nums(d, a, x) : m <= v
    BY <2>4, <2>5, <2>6, <2>7
  <2>9. s.else = "skip" => Nums(d, a, y) = {}
    BY <2>6
  <2>10. QED BY <1>3, <2>8, <2>9 DEF m, s, y
<1>4. CASE s \notin Line(d, a, x)
  <2>1. Line(d, a, x) = Line(d, a, y)
    BY <1>1, <1>4 DEF Line
  <2>2. QED BY <1>4, <2>1 DEF Nums, s, y
<1>5. QED BY <1>3, <1>4 DEF s

-----------------------------------------------------------------------------
(* Messages sent and received.                                             *)
LEMMA Least ==
  ASSUME NEW S \in SUBSET (1..3), NEW c \in 1..3, From(S, c)
  PROVE  /\ \A m \in S : (\A v \in S : m <= v) => m = c
         /\ S \ {c} = {} \/ (c < 3 /\ From(S \ {c}, c + 1))
<1>1. c \in S /\ \A x \in S : c <= x /\ c..x \subseteq S
  BY DEF From
<1>2. \A m \in S : (\A v \in S : m <= v) => m = c
  BY <1>1
<1>3. ASSUME NEW x \in S \ {c} PROVE c < 3 /\ From(S \ {c}, c + 1)
  <2>1. x \in 1..3 /\ c < x
    BY <1>1, <1>3
  <2>2. c + 1 \in c..x
    BY <2>1
  <2>3. c + 1 \in S \ {c}
    BY <1>1, <1>3, <2>2
  <2>4. ASSUME NEW y \in S \ {c} PROVE c + 1 <= y /\ (c + 1)..y \subseteq S \ {c}
    BY <1>1, <2>4
  <2>5. QED BY <2>1, <2>3, <2>4 DEF From
<1>4. QED BY <1>2, <1>3

LEMMA FitsAppend ==
  ASSUME NEW a, NEW r, NEW s \in SUBSET (1..3), NEW t, NEW q, NEW S, q \in Seq(S), NEW e,
         Fits(a, r, s, q), Known(a[1], a[2], e.msg), No(a[2], e.msg) \in s,
         \A v \in s : No(a[2], e.msg) <= v,
         \/ t = {} \/ t = s \ {No(a[2], e.msg)}
         \/ a[2] = Response /\ No(a[2], e.msg) = 3 /\ t = s
  PROVE  Fits(a, r, t, Append(q, e))
<1> DEFINE m == No(a[2], e.msg)
           w == Append(q, e)
<1>1. Len(q) \in Nat /\ DOMAIN q = 1..Len(q)
  BY LenProperties
<1>2. /\ DOMAIN w = 1..(Len(q) + 1) /\ Len(w) = Len(q) + 1
      /\ \A i \in 1..Len(q) : w[i] = q[i]
      /\ w[Len(q) + 1] = e
  <2>1. q \in Seq(S \cup {e}) /\ e \in S \cup {e}
    BY SeqMonotonic
  <2>2. w \in Seq(S \cup {e}) /\ Len(w) = Len(q) + 1
        /\ (\A i \in 1..Len(q) : w[i] = q[i]) /\ w[Len(q) + 1] = e
    BY <2>1, AppendProperties
  <2>3. QED BY <2>2, LenProperties
<1>3. m \in s /\ m \in 1..3
  OBVIOUS
<1> HIDE DEF w
<1>4. ASSUME r # {} PROVE Fits(a, r, t, w)
  <2>1. PICK c \in 1..3 :
          /\ From(r, c)
          /\ \A i \in DOMAIN q : /\ Known(a[1], a[2], q[i].msg)
                                 /\ No(a[2], q[i].msg) = Cap(a, c + i - 1)
          /\ s = {} \/ From(s, Cap(a, c + Len(q)))
    BY <1>4 DEF Fits
  <2> DEFINE v == Cap(a, c + Len(q))
  <2>2. From(s, v) /\ v \in 1..3
    BY <1>3, <2>1 DEF From
  <2>3. m = v /\ (s \ {v} = {} \/ (v < 3 /\ From(s \ {v}, v + 1)))
    BY <1>3, <2>2, Least
  <2>4. \A i \in DOMAIN w : /\ Known(a[1], a[2], w[i].msg)
                            /\ No(a[2], w[i].msg) = Cap(a, c + i - 1)
    <3>1. ASSUME NEW i \in 1..Len(q)
          PROVE  Known(a[1], a[2], w[i].msg) /\ No(a[2], w[i].msg) = Cap(a, c + i - 1)
      BY <1>1, <1>2, <2>1
    <3>2. c + (Len(q) + 1) - 1 = c + Len(q)
      BY <1>1
    <3>3. QED BY <1>1, <1>2, <2>3, <3>1, <3>2
  <2>5. v < 3 => v + 1 = Cap(a, c + Len(w))
    BY <1>1, <1>2 DEF Cap
  <2>6. a[2] = Response /\ m = 3 => Cap(a, c + Len(w)) = v
    BY <1>1, <1>2, <2>3 DEF Cap
  <2> HIDE DEF v
  <2>7. t = {} \/ From(t, Cap(a, c + Len(w)))
    BY <2>2, <2>3, <2>5, <2>6
  <2>8. QED BY <2>1, <2>4, <2>7 DEF Fits
<1>5. QED BY <1>4 DEF Fits, w

LEMMA FitsHead ==
  ASSUME NEW a, NEW r \in SUBSET (1..3), NEW s, NEW q, NEW S, q \in Seq(S), q # <<>>,
         Fits(a, r, s, q), NEW m \in r, \A v \in r : m <= v
  PROVE  Known(a[1], a[2], Head(q).msg) /\ No(a[2], Head(q).msg) = m
<1>1. 1 \in DOMAIN q /\ Head(q) = q[1]
  BY LenProperties, EmptySeq, HeadTailProperties
<1>2. PICK c \in 1..3 :
        /\ From(r, c)
        /\ \A i \in DOMAIN q : /\ Known(a[1], a[2], q[i].msg)
                               /\ No(a[2], q[i].msg) = Cap(a, c + i - 1)
  BY DEF Fits
<1>3. m = c
  BY <1>2, Least
<1>4. Cap(a, c + 1 - 1) = c
  BY DEF Cap
<1>5. QED BY <1>1, <1>2, <1>3, <1>4

(* The messages w come after the one with number m.                        *)
Behind(a, m, w) == \A i \in DOMAIN w : /\ Known(a[1], a[2], w[i].msg)
                                      /\ No(a[2], w[i].msg) = Cap(a, m + i)

LEMMA FitsAfter ==
  ASSUME NEW a, NEW r \in SUBSET (1..3), NEW s, NEW q, NEW S, q \in Seq(S), q # <<>>,
         Fits(a, r, s, q), NEW m \in r, \A v \in r : m <= v
  PROVE  /\ From(r, m) /\ (r \ {m} = {} \/ (m < 3 /\ From(r \ {m}, m + 1)))
         /\ Behind(a, m, Tail(q))
         /\ s = {} \/ From(s, Cap(a, m + Len(q)))
<1> DEFINE w == Tail(q)
<1>1. Len(q) \in Nat /\ DOMAIN q = 1..Len(q) /\ Len(q) >= 1
  BY LenProperties, EmptySeq
<1>2. DOMAIN w = 1..(Len(q) - 1) /\ \A i \in 1..(Len(q) - 1) : w[i] = q[i + 1]
  BY HeadTailProperties, LenProperties
<1> HIDE DEF w
<1>3. PICK c \in 1..3 :
        /\ From(r, c)
        /\ \A i \in DOMAIN q : /\ Known(a[1], a[2], q[i].msg)
                               /\ No(a[2], q[i].msg) = Cap(a, c + i - 1)
        /\ s = {} \/ From(s, Cap(a, c + Len(q)))
  BY DEF Fits
<1>4. m = c /\ (r \ {c} = {} \/ (c < 3 /\ From(r \ {c}, c + 1)))
  BY <1>3, Least
<1>5. \A i \in DOMAIN w : /\ Known(a[1], a[2], w[i].msg)
                          /\ No(a[2], w[i].msg) = Cap(a, c + i)
  <2> SUFFICES ASSUME NEW i \in DOMAIN w
               PROVE  Known(a[1], a[2], w[i].msg) /\ No(a[2], w[i].msg) = Cap(a, c + i)
    OBVIOUS
  <2>1. i + 1 \in DOMAIN q /\ w[i] = q[i + 1] /\ c + (i + 1) - 1 = c + i
    BY <1>1, <1>2
  <2>2. QED BY <1>3, <2>1
<1>6. Behind(a, m, w)
  BY <1>4, <1>5 DEF Behind
<1>7. QED BY <1>3, <1>4, <1>6 DEF w

LEMMA FitsTail ==
  ASSUME NEW a, NEW r \in SUBSET (1..3), NEW s, NEW t, NEW q, NEW S, q \in Seq(S), q # <<>>,
         Fits(a, r, s, q), NEW m \in r, \A v \in r : m <= v,
         \/ t = {} \/ t = r \ {m}
         \/ a[2] = Response /\ m = 3 /\ t = r
  PROVE  Fits(a, t, s, Tail(q))
<1> DEFINE w == Tail(q)
<1>1. Len(q) \in Nat /\ Len(q) >= 1 /\ m \in 1..3
  BY LenProperties, EmptySeq
<1>2. DOMAIN w = 1..(Len(q) - 1) /\ Len(w) = Len(q) - 1
  BY HeadTailProperties, LenProperties
<1>3. From(r, m) /\ (r \ {m} = {} \/ (m < 3 /\ From(r \ {m}, m + 1)))
  BY FitsAfter
<1>4. Behind(a, m, w) /\ (s = {} \/ From(s, Cap(a, m + Len(q))))
  BY FitsAfter
<1> HIDE DEF w
<1>5. CASE t = {}
  BY <1>5 DEF Fits, w
<1>6. CASE t # {} /\ t = r \ {m}
  <2>1. m + 1 \in 1..3 /\ From(t, m + 1)
    <3>1. t = r \ {m} /\ r \ {m} # {}
      BY <1>6
    <3>2. m < 3 /\ From(r \ {m}, m + 1)
      BY <1>3, <3>1
    <3>3. QED BY <1>1, <3>1, <3>2
  <2>2. \A i \in DOMAIN w : (m + 1) + i - 1 = m + i
    BY <1>1, <1>2
  <2>3. m + Len(q) = (m + 1) + Len(w)
    BY <1>1, <1>2
  <2>4. \A i \in DOMAIN w : /\ Known(a[1], a[2], w[i].msg)
                            /\ No(a[2], w[i].msg) = Cap(a, (m + 1) + i - 1)
    BY <1>4, <2>2 DEF Behind
  <2>5. s = {} \/ From(s, Cap(a, (m + 1) + Len(w)))
    BY <1>4, <2>3
  <2>6. Fits(a, t, s, w)
    BY <2>1, <2>4, <2>5 DEF Fits
  <2>7. QED BY <2>6 DEF w
<1>7. CASE a[2] = Response /\ m = 3 /\ t = r
  <2>1. \A i \in DOMAIN w : Cap(a, m + i - 1) = Cap(a, m + i)
    BY <1>1, <1>2, <1>7 DEF Cap
  <2>2. Cap(a, m + Len(q)) = Cap(a, m + Len(w))
    BY <1>1, <1>2, <1>7 DEF Cap
  <2>3. \A i \in DOMAIN w : /\ Known(a[1], a[2], w[i].msg)
                            /\ No(a[2], w[i].msg) = Cap(a, m + i - 1)
    BY <1>4, <2>1 DEF Behind
  <2>4. s = {} \/ From(s, Cap(a, m + Len(w)))
    BY <1>4, <2>2
  <2>5. Fits(a, t, s, w)
    BY <1>1, <1>3, <1>7, <2>3, <2>4 DEF Fits
  <2>6. QED BY <2>5 DEF w
<1>8. QED BY <1>5, <1>6, <1>7

LEMMA FitsLess ==
  ASSUME NEW a, NEW r, NEW s, NEW q, NEW r1 \in {{}, r}, NEW s1 \in {{}, s}, Fits(a, r, s, q)
  PROVE  Fits(a, r1, s1, q)
BY DEF Fits

-----------------------------------------------------------------------------
(* What a step of party p does to the lines.  It is passed (Rest), ends    *)
(* OnExecute (Left), or is not over yet.                                   *)
LEMMA AddressOf ==
  ASSUME NEW p, NEW s, Own(p, s), s.do # "work"
  PROVE  /\ s.do \in {"send", "recv"} /\ <<s.node, s.key>> \in Addresses
         /\ Party(s.do, <<s.node, s.key>>) = p /\ p \in Parties
         /\ s.msg = "package" => s.key = Response /\ No(s.key, s.msg) = 3
<1>1. Known(s.node, s.key, s.msg) /\ s.do \in {"send", "recv"}
  BY DEF Own
<1>2. s.node \in Parties /\ s.key \in Keys
  BY <1>1 DEF Known, Parties, Providers, Keys
<1>3. Party(s.do, <<s.node, s.key>>) = p
  BY Pair DEF Own, Party
<1>4. p \in Parties
  BY <1>2, <1>3, Pair DEF Party, Sender, Receiver, Parties, Providers
<1>5. s.msg = "package" => s.key = Response /\ No(s.key, s.msg) = 3
  BY <1>1 DEF Known, No
<1>6. QED BY <1>1, <1>2, <1>3, <1>4, <1>5 DEF Addresses

LEMMA AheadFirst ==
  ASSUME NEW p, NEW x, Program(p, x), x # Idle
  PROVE  First(x) \in Ahead(x) /\ Own(p, First(x))
BY StepOn DEF Program

LEMMA OpenMoves ==
  ASSUME Shape, NEW p \in Parties, NEW x, x = prog[p], Program(p, x), x # Idle,
         NEW y, prog' = [prog EXCEPT ![p] = y],
         y \in {x, Rest(x)} \/ (y = Left(x) /\ First(x).else = "leave"),
         NEW d \in {"send", "recv"}, NEW a \in Addresses
  PROVE  LET s == First(x)  m == No(s.key, s.msg) IN
         IF s.do = d /\ a = <<s.node, s.key>>
         THEN /\ Party(d, a) = p /\ m \in Open(d, a) /\ \A v \in Open(d, a) : m <= v
              /\ y = x => Open(d, a)' = Open(d, a)
              /\ y = Rest(x) => /\ Open(d, a)' = Open(d, a) \ {m}
                                /\ s.else = "skip" => Open(d, a)' = {}
              /\ y = Left(x) /\ s.else = "leave" => Open(d, a)' = {}
         ELSE Open(d, a)' \in {{}, Open(d, a)}
<1> DEFINE s == First(x)
           m == No(s.key, s.msg)
<1>1. s \in Ahead(x) /\ Own(p, s)
  BY AheadFirst
<1>2. a = <<a[1], a[2]>>
  BY DEF Addresses
<1>3. (s.do = d /\ a = <<s.node, s.key>>) <=> s \in Line(d, a, x)
  BY <1>1, <1>2, Pair DEF Line
<1>4. Party(d, a) \in Parties
  BY <1>2 DEF Addresses, Party, Sender, Receiver, Parties, Providers
<1>5. /\ Party(d, a) # p => prog'[Party(d, a)] = prog[Party(d, a)]
      /\ prog'[p] = y
  BY <1>4 DEF Shape
<1>6. Open(d, a) = Nums(d, a, prog[Party(d, a)]) /\ Open(d, a)' = Nums(d, a, prog'[Party(d, a)])
  BY DEF Open
<1>7. y = x => Open(d, a)' = Open(d, a)
  BY <1>5, <1>6
<1>8. CASE s \in Line(d, a, x)
  <2>1. s.do = d /\ a = <<s.node, s.key>>
    BY <1>3, <1>8
  <2>2. Party(d, a) = p
    BY <1>1, <2>1, AddressOf
  <2>3. Open(d, a) = Nums(d, a, x) /\ Open(d, a)' = Nums(d, a, y)
    BY <1>5, <1>6, <2>2
  <2>4. /\ m \in Nums(d, a, x) /\ Nums(d, a, Rest(x)) = Nums(d, a, x) \ {m}
        /\ \A v \in Nums(d, a, x) : m <= v
        /\ s.else = "skip" => Nums(d, a, Rest(x)) = {}
    BY <1>8, NumsOn
  <2>5. y = Left(x) /\ s.else = "leave" => Nums(d, a, y) = {}
    <3>1. y = Left(x) /\ s.else = "leave" => \A t \in Ahead(y) : ~Same(s, t)
      BY StepLeaves
    <3>2. y = Left(x) /\ s.else = "leave" => Line(d, a, y) = {}
      BY <1>2, <2>1, <3>1, Pair DEF Line, Same
    <3>3. QED BY <3>2 DEF Nums
  <2> HIDE DEF s, m
  <2>6. QED BY <1>7, <2>1, <2>2, <2>3, <2>4, <2>5 DEF s, m
<1>9. CASE s \notin Line(d, a, x)
  <2>1. ~(s.do = d /\ a = <<s.node, s.key>>)
    BY <1>3, <1>9
  <2>2. Nums(d, a, Rest(x)) = Nums(d, a, x)
    BY <1>9, NumsOn
  <2>3. y = Left(x) /\ s.else = "leave" => Line(d, a, y) \in {{}, Line(d, a, x)}
    BY StepLeaves
  <2>4. y = Left(x) /\ s.else = "leave" => Nums(d, a, y) \in {{}, Nums(d, a, x)}
    BY <2>3 DEF Nums
  <2>5. Party(d, a) = p => Open(d, a)' \in {{}, Open(d, a)}
    BY <1>5, <1>6, <1>7, <2>2, <2>4
  <2>6. Party(d, a) # p => Open(d, a)' = Open(d, a)
    BY <1>5, <1>6
  <2>7. QED BY <2>1, <2>5, <2>6
<1>10. QED BY <1>8, <1>9

LEMMA OpenKept ==
  ASSUME Shape, NEW p \in Parties, NEW x, x = prog[p], Program(p, x), x # Idle,
         NEW y \in {x, Rest(x)}, prog' = [prog EXCEPT ![p] = y],
         NEW d \in {"send", "recv"}, NEW a \in Addresses,
         ~(First(x).do = d /\ a = <<First(x).node, First(x).key>>)
  PROVE  Open(d, a)' = Open(d, a)
<1>1. a = <<a[1], a[2]>> /\ Party(d, a) \in Parties
  BY DEF Addresses, Party, Sender, Receiver, Parties, Providers
<1>2. First(x) \notin Line(d, a, x)
  BY <1>1 DEF Line
<1>3. Nums(d, a, Rest(x)) = Nums(d, a, x)
  BY <1>2, NumsOn
<1>4. prog'[Party(d, a)] = IF Party(d, a) = p THEN y ELSE prog[Party(d, a)]
  BY <1>1 DEF Shape
<1>5. Nums(d, a, y) = Nums(d, a, x)
  BY <1>3
<1>6. Nums(d, a, prog'[Party(d, a)]) = Nums(d, a, prog[Party(d, a)])
  BY <1>4, <1>5
<1>7. QED BY <1>6 DEF Open

(* The programs stay programs.                                             *)
LEMMA BusyProgram ==
  ASSUME ProgInv, NEW p \in Parties, Busy(p)
  PROVE  /\ Program(p, prog[p]) /\ prog[p] # Idle /\ Now(p) = First(prog[p])
         /\ After(p) = Rest(prog[p]) /\ << <<>>, prog[p][2] >> = Left(prog[p])
         /\ Now(p) \in Ahead(prog[p]) /\ Own(p, Now(p)) /\ status[p] = "running"
<1>1. /\ Program(p, prog[p]) /\ prog[p] # Idle /\ Now(p) = First(prog[p])
      /\ After(p) = Rest(prog[p]) /\ << <<>>, prog[p][2] >> = Left(prog[p])
      /\ status[p] = "running"
  BY DEF ProgInv, Busy, Idle, Now, First, After, Rest, Left
<1>2. QED BY <1>1, AheadFirst

(* The program of p after its step.                                        *)
Onward(p, y) == \/ y \in {prog[p], Rest(prog[p])}
                \/ y = Left(prog[p]) /\ First(prog[p]).else = "leave"

LEMMA ProgMoves ==
  ASSUME Shape, ProgInv, NEW p \in Parties, Busy(p), NEW y, Onward(p, y), Goto(p, y)
  PROVE  /\ ProgInv' /\ prog' = [q \in Parties |-> prog'[q]]
         /\ status' = status /\ prog' = [prog EXCEPT ![p] = y]
<1>1. Program(p, prog[p]) /\ prog[p] # Idle
  BY BusyProgram
<1>2. Program(p, y)
  BY <1>1, StepOn, StepLeaves DEF Onward
<1>3. prog' = [prog EXCEPT ![p] = y] /\ prog = [q \in Parties |-> prog[q]] /\ status' = status
  BY DEF Goto, Shape
<1>4. prog' = [q \in Parties |-> prog'[q]] /\ \A q \in Parties : prog'[q] = IF q = p THEN y ELSE prog[q]
  BY <1>3
<1>5. ProgInv'
  BY <1>2, <1>4 DEF ProgInv
<1>6. QED BY <1>3, <1>4, <1>5

(* A party fails alone.                                                    *)
OnlyFails == \A q \in Parties : status'[q] \in {status[q], "failed"}

(* Nothing is left of the line of the step before p.                       *)
Cleared(p) == \A d \in {"send", "recv"}, a \in Addresses :
                d = Now(p).do /\ a = <<Now(p).node, Now(p).key>> => Open(d, a)' = {}

LEMMA ElseMoves ==
  ASSUME Shape, ProgInv, NEW p \in Parties, Busy(p), Else(p)
  PROVE  /\ ProgInv' /\ prog' = [q \in Parties |-> prog'[q]]
         /\ status' = [q \in Parties |-> status'[q]] /\ OnlyFails
         /\ \A d \in {"send", "recv"}, a \in Addresses : Open(d, a)' \in {{}, Open(d, a)}
         /\ Now(p).else \in {"skip", "leave"} \/ (prog' = prog /\ status'[p] = "failed")
         /\ Now(p).else \notin {"skip", "leave"} \/ Cleared(p)
<1>1. /\ Program(p, prog[p]) /\ prog[p] # Idle /\ Now(p) = First(prog[p])
      /\ After(p) = Rest(prog[p]) /\ << <<>>, prog[p][2] >> = Left(prog[p])
  BY BusyProgram
<1>2. status = [q \in Parties |-> status[q]] /\ prog = [q \in Parties |-> prog[q]]
  BY DEF Shape
<1>3. CASE Now(p).else \in {"skip", "leave"}
  <2> DEFINE y == IF Now(p).else = "skip" THEN Rest(prog[p]) ELSE Left(prog[p])
  <2>1. Goto(p, y)
    BY <1>1, <1>3 DEF Else
  <2>2. /\ Onward(p, y) /\ (Now(p).else = "leave" => y = Left(prog[p]))
        /\ Now(p).else = "skip" => y = Rest(prog[p])
    BY <1>1, <1>3 DEF Onward
  <2> HIDE DEF y
  <2>3. /\ ProgInv' /\ prog' = [q \in Parties |-> prog'[q]]
        /\ status' = status /\ prog' = [prog EXCEPT ![p] = y]
    BY <2>1, <2>2, ProgMoves
  <2>4. ASSUME NEW d \in {"send", "recv"}, NEW a \in Addresses
        PROVE  Open(d, a)' \in {{}, Open(d, a)}
    BY <1>1, <1>3, <2>2, <2>3, <2>4, OpenMoves DEF Onward
  <2>5. status' = [q \in Parties |-> status'[q]] /\ OnlyFails
    BY <1>2, <2>3 DEF OnlyFails
  <2>6. ASSUME NEW d \in {"send", "recv"}, NEW a \in Addresses,
               d = Now(p).do /\ a = <<Now(p).node, Now(p).key>>
        PROVE  Open(d, a)' = {}
    <3>1. \/ y = Rest(prog[p]) /\ Now(p).else = "skip"
          \/ y = Left(prog[p]) /\ Now(p).else = "leave"
      BY <1>3, <2>2
    <3> DEFINE x == prog[p]
               s == First(x)
    <3>2. s.do = d /\ a = <<s.node, s.key>>
      BY <1>1, <2>6
    <3>3. y \in {x, Rest(x)} \/ (y = Left(x) /\ First(x).else = "leave")
      BY <1>1, <3>1
    <3>4. Program(p, x) /\ x # Idle /\ prog' = [prog EXCEPT ![p] = y]
      BY <1>1, <2>3
    <3> HIDE DEF x
    <3>5. /\ y = Rest(x) /\ s.else = "skip" => Open(d, a)' = {}
          /\ y = Left(x) /\ s.else = "leave" => Open(d, a)' = {}
      BY <3>2, <3>3, <3>4, OpenMoves DEF x
    <3>6. QED BY <1>1, <3>1, <3>5 DEF x
  <2>7. Cleared(p)
    BY <2>6 DEF Cleared
  <2>8. QED BY <1>3, <2>3, <2>4, <2>5, <2>7
<1>4. CASE Now(p).else \notin {"skip", "leave"}
  <2>1. status' = [status EXCEPT ![p] = "failed"] /\ prog' = prog
    BY <1>4 DEF Else
  <2>2. ProgInv' /\ \A d \in {"send", "recv"}, a \in Addresses : Open(d, a)' = Open(d, a)
    BY <2>1 DEF ProgInv, Open
  <2>3. status' = [q \in Parties |-> status'[q]] /\ OnlyFails /\ status'[p] = "failed"
    BY <1>2, <2>1 DEF OnlyFails
  <2>4. QED BY <1>2, <1>4, <2>1, <2>2, <2>3
<1>5. QED BY <1>3, <1>4

-----------------------------------------------------------------------------
(* Every action keeps what is stored in step with what is still to come.   *)
LinkInv == Shape /\ ProgInv /\ LineInv

LEMMA Quiet ==
  ASSUME LineInv, UNCHANGED queue, OnlyFails,
         \A d \in {"send", "recv"}, a \in Addresses : Open(d, a)' \in {{}, Open(d, a)}
  PROVE  LineInv'
<1> SUFFICES ASSUME NEW a \in Addresses, status'[Receiver(a[1], a[2])] # "failed"
             PROVE  Fits(a, Open("recv", a)', Open("send", a)', queue[a])
  BY DEF LineInv, ToReceive, ToSend
<1>1. Receiver(a[1], a[2]) \in Parties
  BY DEF Addresses, Receiver, Parties, Providers
<1>2. status[Receiver(a[1], a[2])] # "failed"
  BY <1>1 DEF OnlyFails
<1>3. Fits(a, Open("recv", a), Open("send", a), queue[a])
  BY <1>2 DEF LineInv, ToReceive, ToSend
<1>4. QED BY <1>3, FitsLess

LEMMA QuietShape ==
  ASSUME Shape, UNCHANGED queue, prog' = [q \in Parties |-> prog'[q]],
         status' = [q \in Parties |-> status'[q]]
  PROVE  Shape'
BY DEF Shape

LEMMA ElseKeeps ==
  ASSUME LinkInv, NEW p \in Parties, Busy(p), Else(p), UNCHANGED queue
  PROVE  LinkInv'
BY ElseMoves, Quiet, QuietShape DEF LinkInv

LEMMA WorkKeeps ==
  ASSUME LinkInv, NEW p \in Parties, StepWork(p)
  PROVE  LinkInv'
<1>1. Busy(p) /\ Now(p).do = "work" /\ UNCHANGED queue /\ (Else(p) \/ Goto(p, After(p)))
  BY DEF StepWork
<1>2. CASE Else(p)
  BY <1>1, <1>2, ElseKeeps
<1>3. CASE Goto(p, After(p))
  <2>1. /\ Program(p, prog[p]) /\ prog[p] # Idle /\ Now(p) = First(prog[p])
        /\ After(p) = Rest(prog[p])
    BY <1>1, BusyProgram DEF LinkInv
  <2>2. Onward(p, Rest(prog[p]))
    BY DEF Onward
  <2>3. /\ ProgInv' /\ prog' = [q \in Parties |-> prog'[q]]
        /\ status' = status /\ prog' = [prog EXCEPT ![p] = Rest(prog[p])]
    BY <1>1, <1>3, <2>1, <2>2, ProgMoves DEF LinkInv
  <2>4. ASSUME NEW d \in {"send", "recv"}, NEW a \in Addresses
        PROVE  Open(d, a)' \in {{}, Open(d, a)}
    BY <1>1, <2>1, <2>3, <2>4, OpenMoves DEF LinkInv
  <2>5. OnlyFails /\ Shape'
    BY <1>1, <2>3 DEF OnlyFails, LinkInv, Shape
  <2>6. LineInv'
    BY <1>1, <2>4, <2>5, Quiet DEF LinkInv
  <2>7. QED BY <2>3, <2>5, <2>6 DEF LinkInv
<1>4. QED BY <1>1, <1>2, <1>3

LEMMA FailsKeeps ==
  ASSUME LinkInv, NEW p \in Parties, StepFails(p)
  PROVE  LinkInv'
BY ElseKeeps DEF StepFails

(* A status alone changes.                                                 *)
LEMMA StatusKeeps ==
  ASSUME LinkInv, NEW p \in Parties, status[p] = "running", NEW v,
         status' = [status EXCEPT ![p] = v], UNCHANGED <<prog, queue>>
  PROVE  LinkInv'
<1>1. Shape' /\ ProgInv'
  BY DEF LinkInv, Shape, ProgInv
<1>2. LineInv'
  <2> SUFFICES ASSUME NEW a \in Addresses, status'[Receiver(a[1], a[2])] # "failed"
               PROVE  Fits(a, Open("recv", a)', Open("send", a)', queue[a])
    BY DEF LineInv, ToReceive, ToSend
  <2>1. Receiver(a[1], a[2]) \in Parties
    BY DEF Addresses, Receiver, Parties, Providers
  <2>2. status[Receiver(a[1], a[2])] # "failed"
    BY <2>1 DEF LinkInv, Shape
  <2>3. Fits(a, Open("recv", a), Open("send", a), queue[a])
    BY <2>2 DEF LinkInv, LineInv, ToReceive, ToSend
  <2>4. Open("recv", a)' = Open("recv", a) /\ Open("send", a)' = Open("send", a)
    BY DEF Open
  <2>5. QED BY <2>3, <2>4
<1>3. QED BY <1>1, <1>2 DEF LinkInv

LEMMA FinishKeeps ==
  ASSUME LinkInv, NEW p \in Parties, Finish(p) \/ Killed(p)
  PROVE  LinkInv'
<1>1. CASE Finish(p)
  BY <1>1, StatusKeeps DEF Finish
<1>2. CASE Killed(p)
  BY <1>2, StatusKeeps, ElseKeeps DEF Killed
<1>3. QED BY <1>1, <1>2

LEMMA OpenNums ==
  ASSUME NEW d, NEW a
  PROVE  Open(d, a) \in SUBSET (1..3)
BY DEF Open, Nums, No

LEMMA SendKeeps ==
  ASSUME LinkInv, NEW p \in Parties, StepSend(p)
  PROVE  LinkInv'
<1> DEFINE s == Now(p)
           a == <<s.node, s.key>>
           m == No(s.key, s.msg)
<1>1. PICK body \in Bodies(p, s.msg) :
        /\ queue' = [queue EXCEPT ![a] = Append(@, [msg |-> s.msg, body |-> body])]
        /\ \/ s.msg = "package" /\ UNCHANGED <<prog, status>>
           \/ Goto(p, After(p))
  BY DEF StepSend
<1>2. Busy(p) /\ s.do = "send"
  BY DEF StepSend
<1>3. /\ Program(p, prog[p]) /\ prog[p] # Idle /\ s = First(prog[p])
      /\ After(p) = Rest(prog[p]) /\ Own(p, s)
  BY <1>2, BusyProgram DEF LinkInv
<1>4. a \in Addresses /\ (s.msg = "package" => s.key = Response /\ m = 3)
  BY <1>2, <1>3, AddressOf
<1>5. Known(s.node, s.key, s.msg)
  BY <1>2, <1>3 DEF Own
<1>6. Shape
  BY DEF LinkInv
<1>7. PICK y : /\ \/ y = prog[p] /\ s.msg = "package"
                  \/ y = Rest(prog[p])
               /\ prog' = [prog EXCEPT ![p] = y] /\ status' = status /\ ProgInv'
               /\ prog' = [q \in Parties |-> prog'[q]]
  <2>1. CASE s.msg = "package" /\ UNCHANGED <<prog, status>>
    <3>1. /\ prog' = [prog EXCEPT ![p] = prog[p]] /\ status' = status /\ ProgInv'
          /\ prog' = [q \in Parties |-> prog'[q]]
      BY <1>6, <2>1 DEF Shape, LinkInv, ProgInv
    <3>2. QED BY <2>1, <3>1
  <2>2. CASE Goto(p, After(p))
    <3>1. Onward(p, Rest(prog[p]))
      BY DEF Onward
    <3>2. QED BY <1>2, <1>3, <2>2, <3>1, ProgMoves DEF LinkInv
  <2>3. QED BY <1>1, <2>1, <2>2
<1> HIDE DEF s, a, m
<1>8. /\ queue' = [b \in Addresses |-> queue'[b]] /\ \A b \in Addresses \ {a} : queue'[b] = queue[b]
      /\ queue'[a] = Append(queue[a], [msg |-> s.msg, body |-> body])
  BY <1>1, <1>4, <1>6 DEF Shape
<1>9. Shape'
  <2>1. ASSUME NEW b \in Addresses PROVE \E S : queue'[b] \in Seq(S)
    <3>1. PICK S : queue[b] \in Seq(S)
      BY <1>6 DEF Shape
    <3>2. CASE b = a
      <4> DEFINE e == [msg |-> s.msg, body |-> body]
                 T == S \cup {e}
      <4>1. queue[b] \in Seq(T) /\ e \in T
        BY <3>1, SeqMonotonic
      <4> HIDE DEF e, T
      <4>2. Append(queue[b], e) \in Seq(T)
        BY <4>1, AppendProperties
      <4>3. QED BY <1>8, <3>2, <4>2 DEF e
    <3>3. CASE b # a
      BY <1>8, <3>1, <3>3
    <3>4. QED BY <3>2, <3>3
  <2>2. status' = [q \in Parties |-> status'[q]]
    BY <1>6, <1>7 DEF Shape
  <2>3. QED BY <1>7, <1>8, <2>1, <2>2 DEF Shape
<1>10. LineInv'
  <2> SUFFICES ASSUME NEW b \in Addresses, status'[Receiver(b[1], b[2])] # "failed"
               PROVE  Fits(b, Open("recv", b)', Open("send", b)', queue'[b])
    BY DEF LineInv, ToReceive, ToSend
  <2>1. Fits(b, Open("recv", b), Open("send", b), queue[b])
    BY <1>7 DEF LinkInv, LineInv, ToReceive, ToSend
  <2>2. Open("recv", b)' \in {{}, Open("recv", b)}
    BY <1>2, <1>3, <1>6, <1>7, OpenMoves
  <2>3. CASE b # a
    <3>1. Open("send", b)' \in {{}, Open("send", b)}
      BY <1>3, <1>6, <1>7, <2>3, OpenMoves DEF a
    <3>2. QED BY <1>8, <2>1, <2>2, <2>3, <3>1, FitsLess
  <2>4. CASE b = a
    <3>1. b[1] = s.node /\ b[2] = s.key
      BY <2>4 DEF a
    <3>2. /\ m \in Open("send", b) /\ \A v \in Open("send", b) : m <= v
          /\ \/ Open("send", b)' = Open("send", b) \ {m}
             \/ Open("send", b)' = Open("send", b) /\ s.msg = "package"
      BY <1>2, <1>3, <1>6, <1>7, <2>4, OpenMoves DEF a, m
    <3>3. m = No(b[2], s.msg) /\ Known(b[1], b[2], s.msg) /\ (s.msg = "package" => b[2] = Response /\ m = 3)
      BY <1>4, <1>5, <3>1 DEF m
    <3>4. PICK S : queue[b] \in Seq(S)
      BY <1>6 DEF Shape
    <3> DEFINE e == [msg |-> s.msg, body |-> body]
    <3>5. e.msg = s.msg /\ queue'[b] = Append(queue[b], e)
      BY <1>8, <2>4
    <3> HIDE DEF e
    <3>6. Fits(b, Open("recv", b), Open("send", b)', Append(queue[b], e))
      BY <2>1, <3>2, <3>3, <3>4, <3>5, FitsAppend, OpenNums
    <3>7. QED BY <2>2, <3>5, <3>6, FitsLess
  <2>5. QED BY <2>3, <2>4
<1>11. QED BY <1>7, <1>9, <1>10 DEF LinkInv

LEMMA RecvKeeps ==
  ASSUME LinkInv, NEW p \in Parties, StepRecv(p)
  PROVE  LinkInv'
<1> DEFINE s == Now(p)
           a == <<s.node, s.key>>
           m == No(s.key, s.msg)
<1>1. /\ Busy(p) /\ s.do = "recv" /\ queue[a] # <<>>
      /\ queue' = [queue EXCEPT ![a] = Tail(@)]
      /\ \/ Else(p)
         \/ s.msg = "package" /\ UNCHANGED <<prog, status>>
         \/ Goto(p, After(p))
  BY DEF StepRecv
<1>2. /\ Program(p, prog[p]) /\ prog[p] # Idle /\ s = First(prog[p])
      /\ After(p) = Rest(prog[p]) /\ Own(p, s)
  BY <1>1, BusyProgram DEF LinkInv
<1>3. a \in Addresses /\ (s.msg = "package" => s.key = Response /\ m = 3) /\ Party("recv", a) = p
  BY <1>1, <1>2, AddressOf
<1>4. Shape /\ ProgInv
  BY DEF LinkInv
<1>5. a[1] = s.node /\ a[2] = s.key /\ Receiver(a[1], a[2]) = p
  BY <1>3, Pair DEF Party
<1>6. /\ queue' = [b \in Addresses |-> queue'[b]] /\ \A b \in Addresses \ {a} : queue'[b] = queue[b]
      /\ queue'[a] = Tail(queue[a])
  BY <1>1, <1>3, <1>4 DEF Shape
<1>7. PICK S : queue[a] \in Seq(S)
  BY <1>3, <1>4 DEF Shape
<1>8. \A b \in Addresses : \E T : queue'[b] \in Seq(T)
  <2>1. queue'[a] \in Seq(S)
    BY <1>1, <1>6, <1>7, HeadTailProperties
  <2>2. \A b \in Addresses \ {a} : \E T : queue'[b] \in Seq(T)
    BY <1>4, <1>6 DEF Shape
  <2>3. QED BY <2>1, <2>2
<1> HIDE DEF s, a, m
<1>9. CASE Else(p)
  <2>1. /\ ProgInv' /\ prog' = [q \in Parties |-> prog'[q]]
        /\ status' = [q \in Parties |-> status'[q]] /\ OnlyFails
        /\ \A d \in {"send", "recv"}, b \in Addresses : Open(d, b)' \in {{}, Open(d, b)}
    BY <1>1, <1>4, <1>9, ElseMoves
  <2>2. \A b \in {a} : status'[p] = "failed" \/ Open("recv", b)' = {}
    <3>1. status'[p] = "failed" \/ Cleared(p)
      BY <1>1, <1>4, <1>9, ElseMoves
    <3>2. Cleared(p) => \A b \in {a} : Open("recv", b)' = {}
      BY <1>1, <1>3 DEF Cleared, s, a
    <3>3. QED BY <3>1, <3>2
  <2>3. Shape'
    BY <1>6, <1>8, <2>1 DEF Shape
  <2>4. LineInv'
    <3> SUFFICES ASSUME NEW b \in Addresses, status'[Receiver(b[1], b[2])] # "failed"
                 PROVE  Fits(b, Open("recv", b)', Open("send", b)', queue'[b])
      BY DEF LineInv, ToReceive, ToSend
    <3>1. CASE b = a
      <4>1. Open("recv", b)' = {}
        BY <1>5, <2>2, <3>1
      <4>2. QED BY <4>1 DEF Fits
    <3>2. CASE b # a
      <4>1. Receiver(b[1], b[2]) \in Parties
        BY DEF Addresses, Receiver, Parties, Providers
      <4>2. status[Receiver(b[1], b[2])] # "failed"
        BY <2>1, <4>1 DEF OnlyFails
      <4>3. Fits(b, Open("recv", b), Open("send", b), queue[b])
        BY <4>2 DEF LinkInv, LineInv, ToReceive, ToSend
      <4>4. QED BY <1>6, <2>1, <3>2, <4>3, FitsLess
    <3>3. QED BY <3>1, <3>2
  <2>5. QED BY <2>1, <2>3, <2>4 DEF LinkInv
<1>10. CASE ~Else(p)
  <2>1. PICK y : /\ \/ y = prog[p] /\ s.msg = "package"
                    \/ y = Rest(prog[p])
                 /\ prog' = [prog EXCEPT ![p] = y] /\ status' = status /\ ProgInv'
                 /\ prog' = [q \in Parties |-> prog'[q]]
    <3>1. CASE s.msg = "package" /\ UNCHANGED <<prog, status>>
      <4>1. /\ prog' = [prog EXCEPT ![p] = prog[p]] /\ status' = status /\ ProgInv'
            /\ prog' = [q \in Parties |-> prog'[q]]
        BY <1>4, <3>1 DEF Shape, ProgInv
      <4>2. QED BY <3>1, <4>1
    <3>2. CASE Goto(p, After(p))
      <4>1. Onward(p, Rest(prog[p]))
        BY DEF Onward
      <4>2. QED BY <1>1, <1>2, <1>4, <3>2, <4>1, ProgMoves
    <3>3. QED BY <1>1, <1>10, <3>1, <3>2
  <2>2. Shape'
    BY <1>4, <1>6, <1>8, <2>1 DEF Shape
  <2>3. LineInv'
    <3> SUFFICES ASSUME NEW b \in Addresses, status'[Receiver(b[1], b[2])] # "failed"
                 PROVE  Fits(b, Open("recv", b)', Open("send", b)', queue'[b])
      BY DEF LineInv, ToReceive, ToSend
    <3>1. Fits(b, Open("recv", b), Open("send", b), queue[b])
      BY <2>1 DEF LinkInv, LineInv, ToReceive, ToSend
    <3>2. Open("send", b)' \in {{}, Open("send", b)}
      BY <1>1, <1>2, <1>4, <2>1, OpenMoves
    <3>3. CASE b # a
      <4>1. Open("recv", b)' \in {{}, Open("recv", b)}
        BY <1>2, <1>4, <2>1, <3>3, OpenMoves DEF a
      <4>2. QED BY <1>6, <3>1, <3>2, <3>3, <4>1, FitsLess
    <3>4. CASE b = a
      <4>1. /\ m \in Open("recv", b) /\ \A v \in Open("recv", b) : m <= v
            /\ \/ Open("recv", b)' = Open("recv", b) \ {m}
               \/ Open("recv", b)' = Open("recv", b) /\ s.msg = "package"
        BY <1>1, <1>2, <1>4, <2>1, <3>4, OpenMoves DEF a, m
      <4>2. s.msg = "package" => b[2] = Response /\ m = 3
        BY <1>3, <1>5, <3>4
      <4>3. Fits(b, Open("recv", b)', Open("send", b), Tail(queue[b]))
        BY <1>1, <1>7, <3>1, <3>4, <4>1, <4>2, FitsTail, OpenNums
      <4>4. Open("recv", b)' \in {{}, Open("recv", b)'}
        OBVIOUS
      <4>5. QED BY <1>6, <3>2, <3>4, <4>3, <4>4, FitsLess
    <3>5. QED BY <3>3, <3>4
  <2>4. QED BY <2>1, <2>2, <2>3 DEF LinkInv
<1>11. QED BY <1>9, <1>10

(* A receive finds its own message.                                        *)
LEMMA LinkMatches ==
  ASSUME LinkInv
  PROVE  MessagesMatch
<1> SUFFICES ASSUME NEW p \in Parties, Busy(p), Now(p).do = "recv",
                    queue[<<Now(p).node, Now(p).key>>] # <<>>
             PROVE  Head(queue[<<Now(p).node, Now(p).key>>]).msg = Now(p).msg
  BY DEF MessagesMatch
<1> DEFINE s == Now(p)
           a == <<s.node, s.key>>
           m == No(s.key, s.msg)
<1>1. /\ Program(p, prog[p]) /\ prog[p] # Idle /\ s = First(prog[p])
      /\ Own(p, s) /\ s \in Ahead(prog[p]) /\ status[p] = "running"
  BY BusyProgram DEF LinkInv
<1>2. a \in Addresses /\ Party("recv", a) = p
  BY <1>1, AddressOf
<1>3. a[1] = s.node /\ a[2] = s.key /\ Receiver(a[1], a[2]) = p
  BY <1>2, Pair DEF Party
<1>4. Fits(a, Open("recv", a), Open("send", a), queue[a])
  BY <1>1, <1>2, <1>3 DEF LinkInv, LineInv, ToReceive, ToSend
<1>5. Open("recv", a) = Nums("recv", a, prog[p])
  BY <1>2 DEF Open
<1>6. s \in Line("recv", a, prog[p])
  BY <1>1, <1>3 DEF Line
<1>7. m \in Open("recv", a) /\ \A v \in Open("recv", a) : m <= v
  BY <1>1, <1>5, <1>6, NumsOn
<1>8. PICK S : queue[a] \in Seq(S)
  BY <1>2 DEF LinkInv, Shape
<1>9. Known(s.node, s.key, s.msg)
  BY <1>1 DEF Own
<1> HIDE DEF s, a, m
<1>10. queue[a] # <<>>
  BY DEF a, s
<1>11. Known(a[1], a[2], Head(queue[a]).msg) /\ No(a[2], Head(queue[a]).msg) = m
  BY <1>4, <1>7, <1>8, <1>10, FitsHead, OpenNums
<1>12. \A n, k, m1, m2 : Known(n, k, m1) /\ Known(n, k, m2) /\ No(k, m1) = No(k, m2) => m1 = m2
  BY DEF Known, No, Response
<1>13. QED BY <1>3, <1>9, <1>11, <1>12 DEF m, a, s

-----------------------------------------------------------------------------
(* The programs at the start.                                              *)
Later(n, Q) == \A b \in Q : b.msg # "load" /\ (b.msg = "decrypt" \/ n < Stage(b))

LEMMA WorkFirst ==
  ASSUME NEW m, NEW e, NEW z, NEW Q, Chain(z, Q),
         (m = "load" /\ Later(0, Q)) \/ (m = "not_empty" /\ Later(1, Q))
  PROVE  Chain(<< Work(m, e) >> \o z, {Work(m, e)} \cup Q)
<1>1. Work(m, e).do = "work" /\ Work(m, e).msg = m
  BY StepFields
<1>2. \A b \in Q : b.msg # "load" /\ (b.msg = "decrypt" \/ Stage(Work(m, e)) < Stage(b))
  BY <1>1 DEF Later, Stage
<1>3. \A b \in Q : Follows(Work(m, e), b)
  BY <1>1, <1>2 DEF Follows, Same, IsEnd
<1>4. Chain(<< Work(m, e) >>, {Work(m, e)})
  BY ChainOne
<1>5. QED BY <1>3, <1>4, ChainJoin

LEMMA StepsLater ==
  /\ Later(1, EcdhClientSteps) /\ Later(1, EcdhServerSteps) /\ Later(1, KkrtRecvSteps)
  /\ Later(1, KkrtSendSteps) /\ Later(1, ProviderClientSteps) /\ Later(1, ProviderServerSteps)
  /\ Later(1, ExecuteAsComputeSteps) /\ Later(1, PirClientSteps) /\ Later(1, PirServerSteps)
<1>1. /\ Later(1, EcdhClientSteps) /\ Later(1, EcdhServerSteps) /\ Later(1, KkrtRecvSteps)
      /\ Later(1, KkrtSendSteps)
  BY StepFields DEF Later, Stage, EcdhClientSteps, EcdhServerSteps, KkrtRecvSteps, KkrtSendSteps
<1>2. /\ Later(1, ProviderClientSteps) /\ Later(1, ProviderServerSteps)
      /\ Later(1, ExecuteAsComputeSteps)
  BY StepFields DEF Later, Stage, ProviderClientSteps, ProviderServerSteps, ExecuteAsComputeSteps
<1>3. Later(1, PirClientSteps) /\ Later(1, PirServerSteps)
  BY StepFields DEF Later, Stage, PirClientSteps, PirServerSteps
<1>4. QED BY <1>1, <1>2, <1>3

LEMMA CheckedLater ==
  ASSUME NEW Q, Later(1, Q)
  PROVE  Later(0, Q) /\ Later(0, { Work("not_empty", "fail") } \cup Q)
<1>1. \A b : Stage(b) \in Nat
  BY DEF Stage
<1>2. Stage(Work("not_empty", "fail")) = 1
  BY StepFields DEF Stage
<1>3. QED BY <1>1, <1>2, StepFields DEF Later

LEMMA MakeProgram ==
  ASSUME NEW p, NEW y, NEW z, NEW R, NEW Q, Chain(y, R), Chain(z, Q),
         \A s \in R \cup Q : Own(p, s),
         \A t \in Q : t.else # "leave",
         \A s \in R, t \in Q : Follows(s, t),
         \A s, u \in R, t \in Q : s.else = "leave" => ~Same(u, t)
  PROVE  Program(p, << y, z >>) /\ Ahead(<< y, z >>) = R \cup Q
<1> DEFINE x == << y, z >>
<1>1. x[1] = y /\ x[2] = z /\ x = << x[1], x[2] >>
  BY Pair
<1>2. Range(y) = R /\ Range(z) = Q
  BY DEF Chain
<1> HIDE DEF x
<1>3. Ahead(x) = R \cup Q
  BY <1>1, <1>2 DEF Ahead
<1>4. Program(p, x)
  BY <1>1, <1>2, <1>3 DEF Program
<1>5. QED BY <1>3, <1>4 DEF x

LEMMA ProviderChain ==
  /\ Chain(ExecuteAsDataProvider("CLIENT"), ProviderClientSteps)
  /\ Chain(ExecuteAsDataProvider("SERVER"), ProviderServerSteps)
<1> DEFINE R(p) == { Work("attest", "leave"), Send("TEE_COMPUTE", p, "data", "skip") }
           Q == { Recv("CLIENT", "result_id", "response", "leave"), Work("decrypt", "leave"),
                  Work("intersect", "leave") }
           y(p) == << Work("attest", "leave"), Send("TEE_COMPUTE", p, "data", "skip") >>
           z == << Recv("CLIENT", "result_id", "response", "leave"), Work("decrypt", "leave"),
                   Work("intersect", "leave") >>
<1>1. ASSUME NEW p PROVE Chain(y(p), R(p))
  <2>1. Follows(Work("attest", "leave"), Send("TEE_COMPUTE", p, "data", "skip"))
    BY StepFields DEF Follows, Stage, Same, IsEnd
  <2>2. QED BY <2>1, ChainTwo
<1>2. Chain(z, Q)
  <2>1. /\ Follows(Recv("CLIENT", "result_id", "response", "leave"), Work("decrypt", "leave"))
        /\ Follows(Recv("CLIENT", "result_id", "response", "leave"), Work("intersect", "leave"))
        /\ Follows(Work("decrypt", "leave"), Work("intersect", "leave"))
    BY StepFields DEF Follows, Stage, Same, IsEnd
  <2>2. QED BY <2>1, ChainThree
<1>3. \A a \in R("CLIENT"), b \in Q : Follows(a, b)
  BY StepFields DEF Follows, Stage, Same, IsEnd
<1>4. R("CLIENT") \cup Q = ProviderClientSteps /\ R("SERVER") \cup {} = ProviderServerSteps
  BY DEF ProviderClientSteps, ProviderServerSteps
<1>5. /\ ExecuteAsDataProvider("CLIENT") = y("CLIENT") \o z
      /\ ExecuteAsDataProvider("SERVER") = y("SERVER") \o <<>>
  BY DEF ExecuteAsDataProvider
<1> HIDE DEF R, Q, y, z
<1>6. Chain(ExecuteAsDataProvider("CLIENT"), R("CLIENT") \cup Q)
  <2>1. Chain(y("CLIENT"), R("CLIENT"))
    BY <1>1
  <2>2. Chain(y("CLIENT") \o z, R("CLIENT") \cup Q)
    BY <1>2, <1>3, <2>1, ChainJoin
  <2>3. QED BY <1>5, <2>2
<1>7. Chain(ExecuteAsDataProvider("SERVER"), R("SERVER") \cup {})
  BY <1>1, <1>5, ChainEmpty, ChainJoin
<1>8. QED BY <1>4, <1>6, <1>7

(* After OnExecute.                                                        *)
RestSteps(p) ==
  IF p = "CLIENT"
  THEN (IF task.sync THEN { Send("SERVER", "default", "result", "skip") } ELSE {})
       \cup { Work("save", "fail") }
  ELSE IF p = "SERVER" /\ task.sync
  THEN { Recv("SERVER", "default", "result", "skip") } \cup { Work("save", "fail") }
  ELSE {}

LEMMA RestChain ==
  ASSUME NEW p \in Parties, task.sync \in BOOLEAN
  PROVE  Chain(BroadcastPsiResult(p) \o PsiSave(p), RestSteps(p))
<1>1. ASSUME NEW s, s.do # "work", s.msg = "result" PROVE Follows(s, Work("save", "fail"))
  BY <1>1, StepFields DEF Follows, Stage, Same, Fetches
<1>2. CASE p = "CLIENT" /\ task.sync
  <2>1. /\ BroadcastPsiResult(p) = << Send("SERVER", "default", "result", "skip") >>
        /\ PsiSave(p) = << Work("save", "fail") >>
    BY <1>2 DEF BroadcastPsiResult, PsiSave
  <2>2. \A a \in { Send("SERVER", "default", "result", "skip") }, b \in { Work("save", "fail") } : Follows(a, b)
    BY <1>1, StepFields
  <2>3. RestSteps(p) = { Send("SERVER", "default", "result", "skip") } \cup { Work("save", "fail") }
    BY <1>2 DEF RestSteps
  <2>4. Chain(<< Send("SERVER", "default", "result", "skip") >>, { Send("SERVER", "default", "result", "skip") })
    BY ChainOne
  <2>5. Chain(<< Work("save", "fail") >>, { Work("save", "fail") })
    BY ChainOne
  <2>6. QED BY <2>1, <2>2, <2>3, <2>4, <2>5, ChainJoin
<1>3. CASE p = "SERVER" /\ task.sync
  <2>1. /\ BroadcastPsiResult(p) = << Recv("SERVER", "default", "result", "skip") >>
        /\ PsiSave(p) = << Work("save", "fail") >>
    BY <1>3 DEF BroadcastPsiResult, PsiSave
  <2>2. \A a \in { Recv("SERVER", "default", "result", "skip") }, b \in { Work("save", "fail") } : Follows(a, b)
    BY <1>1, StepFields
  <2>3. RestSteps(p) = { Recv("SERVER", "default", "result", "skip") } \cup { Work("save", "fail") }
    BY <1>3 DEF RestSteps
  <2>4. Chain(<< Recv("SERVER", "default", "result", "skip") >>, { Recv("SERVER", "default", "result", "skip") })
    BY ChainOne
  <2>5. Chain(<< Work("save", "fail") >>, { Work("save", "fail") })
    BY ChainOne
  <2>6. QED BY <2>1, <2>2, <2>3, <2>4, <2>5, ChainJoin
<1>4. CASE p = "CLIENT" /\ ~task.sync
  <2>1. BroadcastPsiResult(p) = <<>> /\ PsiSave(p) = << Work("save", "fail") >>
    BY <1>4 DEF BroadcastPsiResult, PsiSave
  <2>2. RestSteps(p) = {} \cup { Work("save", "fail") }
    BY <1>4 DEF RestSteps
  <2>3. QED BY <2>1, <2>2, ChainEmpty, ChainOne, ChainJoin
<1>5. CASE p = "TEE_COMPUTE" \/ (p = "SERVER" /\ ~task.sync)
  <2>1. BroadcastPsiResult(p) = <<>> /\ PsiSave(p) = <<>>
    BY <1>5 DEF BroadcastPsiResult, PsiSave
  <2>2. RestSteps(p) = {} \cup {}
    BY <1>5 DEF RestSteps
  <2>3. QED BY <2>1, <2>2, ChainEmpty, ChainJoin
<1>6. QED BY <1>2, <1>3, <1>4, <1>5 DEF Parties, Providers

(* The steps of a party's program, and that it is one.                     *)
Loaded(S) == { Work("load", "fail") } \cup S
Checked(S) == { Work("load", "fail") } \cup ({ Work("not_empty", "fail") } \cup S)

LEMMA EcdhClientProgram ==
  ASSUME task.kind = "ECDH", task.sync \in BOOLEAN
  PROVE  /\ Program("CLIENT", PsiExecute("CLIENT"))
         /\ Ahead(PsiExecute("CLIENT")) = Checked(EcdhClientSteps) \cup RestSteps("CLIENT")
<1> DEFINE R == Checked(EcdhClientSteps)
           Q == RestSteps("CLIENT")
           y == << Work("load", "fail") >> \o OnExecute("CLIENT")
           z == BroadcastPsiResult("CLIENT") \o PsiSave("CLIENT")
<1>1. OnExecute("CLIENT") = << Work("not_empty", "fail") >> \o EcdhClient
  BY DEF OnExecute
<1>2. Chain(OnExecute("CLIENT"), { Work("not_empty", "fail") } \cup EcdhClientSteps)
  <2>1. Chain(<< Work("not_empty", "fail") >> \o EcdhClient, { Work("not_empty", "fail") } \cup EcdhClientSteps)
    BY EcdhClientChain, WorkFirst, StepsLater
  <2>2. QED BY <1>1, <2>1
<1>3. Chain(y, R)
  BY <1>2, WorkFirst, StepsLater, CheckedLater DEF Checked
<1>4. Chain(z, Q) /\ PsiExecute("CLIENT") = << y, z >>
  BY RestChain DEF PsiExecute, Parties, Providers
<1>5. \A s \in R : Own("CLIENT", s)
  BY StepFields DEF Checked, EcdhClientSteps, Own, Known, Sender, Receiver, Providers, Response
<1>6. \A s \in Q : Own("CLIENT", s) /\ s.else # "leave"
  BY StepFields DEF RestSteps, Own, Known, Sender, Receiver, Providers, Response
<1>7. \A s \in R, t \in Q : Follows(s, t)
  BY StepFields DEF Checked, EcdhClientSteps, RestSteps, Follows, Stage, Same, IsEnd, Fetches, No, Response
<1>8. \A s, u \in R, t \in Q : s.else = "leave" => ~Same(u, t)
  BY StepFields DEF Checked, EcdhClientSteps, RestSteps, Same
<1> HIDE DEF R, Q, y, z
<1>9. \A s \in R \cup Q : Own("CLIENT", s)
  BY <1>5, <1>6
<1>10. Program("CLIENT", << y, z >>) /\ Ahead(<< y, z >>) = R \cup Q
  BY <1>3, <1>4, <1>6, <1>7, <1>8, <1>9, MakeProgram
<1>11. QED BY <1>4, <1>10 DEF R, Q

LEMMA EcdhServerProgram ==
  ASSUME task.kind = "ECDH", task.sync \in BOOLEAN
  PROVE  /\ Program("SERVER", PsiExecute("SERVER"))
         /\ Ahead(PsiExecute("SERVER")) = Checked(EcdhServerSteps) \cup RestSteps("SERVER")
<1> DEFINE R == Checked(EcdhServerSteps)
           Q == RestSteps("SERVER")
           y == << Work("load", "fail") >> \o OnExecute("SERVER")
           z == BroadcastPsiResult("SERVER") \o PsiSave("SERVER")
<1>1. OnExecute("SERVER") = << Work("not_empty", "fail") >> \o EcdhServer
  BY DEF OnExecute
<1>2. Chain(OnExecute("SERVER"), { Work("not_empty", "fail") } \cup EcdhServerSteps)
  <2>1. Chain(<< Work("not_empty", "fail") >> \o EcdhServer, { Work("not_empty", "fail") } \cup EcdhServerSteps)
    BY EcdhServerChain, WorkFirst, StepsLater
  <2>2. QED BY <1>1, <2>1
<1>3. Chain(y, R)
  BY <1>2, WorkFirst, StepsLater, CheckedLater DEF Checked
<1>4. Chain(z, Q) /\ PsiExecute("SERVER") = << y, z >>
  BY RestChain DEF PsiExecute, Parties, Providers
<1>5. \A s \in R : Own("SERVER", s)
  BY StepFields DEF Checked, EcdhServerSteps, Own, Known, Sender, Receiver, Providers, Response
<1>6. \A s \in Q : Own("SERVER", s) /\ s.else # "leave"
  BY StepFields DEF RestSteps, Own, Known, Sender, Receiver, Providers, Response
<1>7. \A s \in R, t \in Q : Follows(s, t)
  BY StepFields DEF Checked, EcdhServerSteps, RestSteps, Follows, Stage, Same, IsEnd, Fetches, No, Response
<1>8. \A s, u \in R, t \in Q : s.else = "leave" => ~Same(u, t)
  BY StepFields DEF Checked, EcdhServerSteps, RestSteps, Same
<1> HIDE DEF R, Q, y, z
<1>9. \A s \in R \cup Q : Own("SERVER", s)
  BY <1>5, <1>6
<1>10. Program("SERVER", << y, z >>) /\ Ahead(<< y, z >>) = R \cup Q
  BY <1>3, <1>4, <1>6, <1>7, <1>8, <1>9, MakeProgram
<1>11. QED BY <1>4, <1>10 DEF R, Q

LEMMA KkrtClientProgram ==
  ASSUME task.kind = "KKRT", task.sync \in BOOLEAN
  PROVE  /\ Program("CLIENT", PsiExecute("CLIENT"))
         /\ Ahead(PsiExecute("CLIENT")) = Checked(KkrtRecvSteps) \cup RestSteps("CLIENT")
<1> DEFINE R == Checked(KkrtRecvSteps)
           Q == RestSteps("CLIENT")
           y == << Work("load", "fail") >> \o OnExecute("CLIENT")
           z == BroadcastPsiResult("CLIENT") \o PsiSave("CLIENT")
<1>1. OnExecute("CLIENT") = << Work("not_empty", "fail") >> \o KkrtRecv
  BY DEF OnExecute
<1>2. Chain(OnExecute("CLIENT"), { Work("not_empty", "fail") } \cup KkrtRecvSteps)
  <2>1. Chain(<< Work("not_empty", "fail") >> \o KkrtRecv, { Work("not_empty", "fail") } \cup KkrtRecvSteps)
    BY KkrtRecvChain, WorkFirst, StepsLater
  <2>2. QED BY <1>1, <2>1
<1>3. Chain(y, R)
  BY <1>2, WorkFirst, StepsLater, CheckedLater DEF Checked
<1>4. Chain(z, Q) /\ PsiExecute("CLIENT") = << y, z >>
  BY RestChain DEF PsiExecute, Parties, Providers
<1>5. \A s \in R : Own("CLIENT", s)
  BY StepFields DEF Checked, KkrtRecvSteps, Own, Known, Sender, Receiver, Providers, Response
<1>6. \A s \in Q : Own("CLIENT", s) /\ s.else # "leave"
  BY StepFields DEF RestSteps, Own, Known, Sender, Receiver, Providers, Response
<1>7. \A s \in R, t \in Q : Follows(s, t)
  BY StepFields DEF Checked, KkrtRecvSteps, RestSteps, Follows, Stage, Same, IsEnd, Fetches, No, Response
<1>8. \A s, u \in R, t \in Q : s.else = "leave" => ~Same(u, t)
  BY StepFields DEF Checked, KkrtRecvSteps, RestSteps, Same
<1> HIDE DEF R, Q, y, z
<1>9. \A s \in R \cup Q : Own("CLIENT", s)
  BY <1>5, <1>6
<1>10. Program("CLIENT", << y, z >>) /\ Ahead(<< y, z >>) = R \cup Q
  BY <1>3, <1>4, <1>6, <1>7, <1>8, <1>9, MakeProgram
<1>11. QED BY <1>4, <1>10 DEF R, Q

LEMMA KkrtServerProgram ==
  ASSUME task.kind = "KKRT", task.sync \in BOOLEAN
  PROVE  /\ Program("SERVER", PsiExecute("SERVER"))
         /\ Ahead(PsiExecute("SERVER")) = Checked(KkrtSendSteps) \cup RestSteps("SERVER")
<1> DEFINE R == Checked(KkrtSendSteps)
           Q == RestSteps("SERVER")
           y == << Work("load", "fail") >> \o OnExecute("SERVER")
           z == BroadcastPsiResult("SERVER") \o PsiSave("SERVER")
<1>1. OnExecute("SERVER") = << Work("not_empty", "fail") >> \o KkrtSend
  BY DEF OnExecute
<1>2. Chain(OnExecute("SERVER"), { Work("not_empty", "fail") } \cup KkrtSendSteps)
  <2>1. Chain(<< Work("not_empty", "fail") >> \o KkrtSend, { Work("not_empty", "fail") } \cup KkrtSendSteps)
    BY KkrtSendChain, WorkFirst, StepsLater
  <2>2. QED BY <1>1, <2>1
<1>3. Chain(y, R)
  BY <1>2, WorkFirst, StepsLater, CheckedLater DEF Checked
<1>4. Chain(z, Q) /\ PsiExecute("SERVER") = << y, z >>
  BY RestChain DEF PsiExecute, Parties, Providers
<1>5. \A s \in R : Own("SERVER", s)
  BY StepFields DEF Checked, KkrtSendSteps, Own, Known, Sender, Receiver, Providers, Response
<1>6. \A s \in Q : Own("SERVER", s) /\ s.else # "leave"
  BY StepFields DEF RestSteps, Own, Known, Sender, Receiver, Providers, Response
<1>7. \A s \in R, t \in Q : Follows(s, t)
  BY StepFields DEF Checked, KkrtSendSteps, RestSteps, Follows, Stage, Same, IsEnd, Fetches, No, Response
<1>8. \A s, u \in R, t \in Q : s.else = "leave" => ~Same(u, t)
  BY StepFields DEF Checked, KkrtSendSteps, RestSteps, Same
<1> HIDE DEF R, Q, y, z
<1>9. \A s \in R \cup Q : Own("SERVER", s)
  BY <1>5, <1>6
<1>10. Program("SERVER", << y, z >>) /\ Ahead(<< y, z >>) = R \cup Q
  BY <1>3, <1>4, <1>6, <1>7, <1>8, <1>9, MakeProgram
<1>11. QED BY <1>4, <1>10 DEF R, Q

LEMMA TeeClientProgram ==
  ASSUME task.kind = "TEE", task.sync \in BOOLEAN
  PROVE  /\ Program("CLIENT", PsiExecute("CLIENT"))
         /\ Ahead(PsiExecute("CLIENT")) = Checked(ProviderClientSteps) \cup RestSteps("CLIENT")
<1> DEFINE R == Checked(ProviderClientSteps)
           Q == RestSteps("CLIENT")
           y == << Work("load", "fail") >> \o OnExecute("CLIENT")
           z == BroadcastPsiResult("CLIENT") \o PsiSave("CLIENT")
<1>1. OnExecute("CLIENT") = << Work("not_empty", "fail") >> \o ExecuteAsDataProvider("CLIENT")
  BY DEF OnExecute
<1>2. Chain(OnExecute("CLIENT"), { Work("not_empty", "fail") } \cup ProviderClientSteps)
  <2>1. Chain(<< Work("not_empty", "fail") >> \o ExecuteAsDataProvider("CLIENT"), { Work("not_empty", "fail") } \cup ProviderClientSteps)
    BY ProviderChain, WorkFirst, StepsLater
  <2>2. QED BY <1>1, <2>1
<1>3. Chain(y, R)
  BY <1>2, WorkFirst, StepsLater, CheckedLater DEF Checked
<1>4. Chain(z, Q) /\ PsiExecute("CLIENT") = << y, z >>
  BY RestChain DEF PsiExecute, Parties, Providers
<1>5. \A s \in R : Own("CLIENT", s)
  BY StepFields DEF Checked, ProviderClientSteps, Own, Known, Sender, Receiver, Providers, Response
<1>6. \A s \in Q : Own("CLIENT", s) /\ s.else # "leave"
  BY StepFields DEF RestSteps, Own, Known, Sender, Receiver, Providers, Response
<1>7. \A s \in R, t \in Q : Follows(s, t)
  BY StepFields DEF Checked, ProviderClientSteps, RestSteps, Follows, Stage, Same, IsEnd, Fetches, No, Response
<1>8. \A s, u \in R, t \in Q : s.else = "leave" => ~Same(u, t)
  BY StepFields DEF Checked, ProviderClientSteps, RestSteps, Same
<1> HIDE DEF R, Q, y, z
<1>9. \A s \in R \cup Q : Own("CLIENT", s)
  BY <1>5, <1>6
<1>10. Program("CLIENT", << y, z >>) /\ Ahead(<< y, z >>) = R \cup Q
  BY <1>3, <1>4, <1>6, <1>7, <1>8, <1>9, MakeProgram
<1>11. QED BY <1>4, <1>10 DEF R, Q

LEMMA TeeServerProgram ==
  ASSUME task.kind = "TEE", task.sync \in BOOLEAN
  PROVE  /\ Program("SERVER", PsiExecute("SERVER"))
         /\ Ahead(PsiExecute("SERVER")) = Checked(ProviderServerSteps) \cup RestSteps("SERVER")
<1> DEFINE R == Checked(ProviderServerSteps)
           Q == RestSteps("SERVER")
           y == << Work("load", "fail") >> \o OnExecute("SERVER")
           z == BroadcastPsiResult("SERVER") \o PsiSave("SERVER")
<1>1. OnExecute("SERVER") = << Work("not_empty", "fail") >> \o ExecuteAsDataProvider("SERVER")
  BY DEF OnExecute
<1>2. Chain(OnExecute("SERVER"), { Work("not_empty", "fail") } \cup ProviderServerSteps)
  <2>1. Chain(<< Work("not_empty", "fail") >> \o ExecuteAsDataProvider("SERVER"), { Work("not_empty", "fail") } \cup ProviderServerSteps)
    BY ProviderChain, WorkFirst, StepsLater
  <2>2. QED BY <1>1, <2>1
<1>3. Chain(y, R)
  BY <1>2, WorkFirst, StepsLater, CheckedLater DEF Checked
<1>4. Chain(z, Q) /\ PsiExecute("SERVER") = << y, z >>
  BY RestChain DEF PsiExecute, Parties, Providers
<1>5. \A s \in R : Own("SERVER", s)
  BY StepFields DEF Checked, ProviderServerSteps, Own, Known, Sender, Receiver, Providers, Response
<1>6. \A s \in Q : Own("SERVER", s) /\ s.else # "leave"
  BY StepFields DEF RestSteps, Own, Known, Sender, Receiver, Providers, Response
<1>7. \A s \in R, t \in Q : Follows(s, t)
  BY StepFields DEF Checked, ProviderServerSteps, RestSteps, Follows, Stage, Same, IsEnd, Fetches, No, Response
<1>8. \A s, u \in R, t \in Q : s.else = "leave" => ~Same(u, t)
  BY StepFields DEF Checked, ProviderServerSteps, RestSteps, Same
<1> HIDE DEF R, Q, y, z
<1>9. \A s \in R \cup Q : Own("SERVER", s)
  BY <1>5, <1>6
<1>10. Program("SERVER", << y, z >>) /\ Ahead(<< y, z >>) = R \cup Q
  BY <1>3, <1>4, <1>6, <1>7, <1>8, <1>9, MakeProgram
<1>11. QED BY <1>4, <1>10 DEF R, Q

LEMMA TeeComputeProgram ==
  ASSUME task.kind = "TEE", task.sync \in BOOLEAN
  PROVE  /\ Program("TEE_COMPUTE", PsiExecute("TEE_COMPUTE"))
         /\ Ahead(PsiExecute("TEE_COMPUTE")) = Loaded(ExecuteAsComputeSteps) \cup RestSteps("TEE_COMPUTE")
<1> DEFINE R == Loaded(ExecuteAsComputeSteps)
           Q == RestSteps("TEE_COMPUTE")
           y == << Work("load", "fail") >> \o OnExecute("TEE_COMPUTE")
           z == BroadcastPsiResult("TEE_COMPUTE") \o PsiSave("TEE_COMPUTE")
<1>1. OnExecute("TEE_COMPUTE") = <<>> \o ExecuteAsCompute
  BY DEF OnExecute
<1>2. Chain(<<>> \o ExecuteAsCompute, {} \cup ExecuteAsComputeSteps)
  BY ExecuteAsComputeChain, ChainEmpty, ChainJoin
<1>3. Chain(y, R)
  <2>1. Chain(OnExecute("TEE_COMPUTE"), ExecuteAsComputeSteps)
    BY <1>1, <1>2
  <2>2. QED BY <2>1, WorkFirst, StepsLater, CheckedLater DEF Loaded
<1>4. Chain(z, Q) /\ PsiExecute("TEE_COMPUTE") = << y, z >>
  BY RestChain DEF PsiExecute, Parties, Providers
<1>5. \A s \in R : Own("TEE_COMPUTE", s)
  BY StepFields DEF Loaded, ExecuteAsComputeSteps, Own, Known, Sender, Receiver, Providers, Response
<1>6. \A s \in Q : Own("TEE_COMPUTE", s) /\ s.else # "leave"
  BY StepFields DEF RestSteps, Own, Known, Sender, Receiver, Providers, Response
<1>7. \A s \in R, t \in Q : Follows(s, t)
  BY StepFields DEF Loaded, ExecuteAsComputeSteps, RestSteps, Follows, Stage, Same, IsEnd, Fetches, No, Response
<1>8. \A s, u \in R, t \in Q : s.else = "leave" => ~Same(u, t)
  BY StepFields DEF Loaded, ExecuteAsComputeSteps, RestSteps, Same
<1> HIDE DEF R, Q, y, z
<1>9. \A s \in R \cup Q : Own("TEE_COMPUTE", s)
  BY <1>5, <1>6
<1>10. Program("TEE_COMPUTE", << y, z >>) /\ Ahead(<< y, z >>) = R \cup Q
  BY <1>3, <1>4, <1>6, <1>7, <1>8, <1>9, MakeProgram
<1>11. QED BY <1>4, <1>10 DEF R, Q

LEMMA PirClientProgram ==
  /\ Program("CLIENT", PirExecute("CLIENT"))
  /\ Ahead(PirExecute("CLIENT")) = Loaded(PirClientSteps) \cup { Work("save", "fail") }
<1> DEFINE R == Loaded(PirClientSteps)
           Q == { Work("save", "fail") }
           y == << Work("load", "fail") >> \o PirClient
           z == PirSave("CLIENT")
<1>1. Chain(y, R)
  BY PirClientChain, WorkFirst, StepsLater, CheckedLater DEF Loaded
<1>2. Chain(z, Q) /\ PirExecute("CLIENT") = << y, z >>
  BY ChainOne, ChainEmpty DEF PirExecute, PirSave
<1>3. \A s \in R : Own("CLIENT", s)
  BY StepFields DEF Loaded, PirClientSteps, Own, Known, Sender, Receiver, Providers, Response
<1>4. \A s \in Q : Own("CLIENT", s) /\ s.else # "leave"
  BY StepFields DEF Own
<1>5. \A s \in R, t \in Q : Follows(s, t) /\ ~Same(s, t)
  BY StepFields DEF Loaded, PirClientSteps, Follows, Stage, Same, Fetches
<1> HIDE DEF R, Q, y, z
<1>6. /\ \A s \in R \cup Q : Own("CLIENT", s)
      /\ \A s, u \in R, t \in Q : s.else = "leave" => ~Same(u, t)
      /\ \A s \in R, t \in Q : Follows(s, t)
  BY <1>3, <1>4, <1>5
<1>7. Program("CLIENT", << y, z >>) /\ Ahead(<< y, z >>) = R \cup Q
  BY <1>1, <1>2, <1>4, <1>6, MakeProgram
<1>8. QED BY <1>2, <1>7 DEF R, Q

LEMMA PirServerProgram ==
  /\ Program("SERVER", PirExecute("SERVER"))
  /\ Ahead(PirExecute("SERVER")) = Loaded(PirServerSteps) \cup {}
<1> DEFINE R == Loaded(PirServerSteps)
           Q == {}
           y == << Work("load", "fail") >> \o PirServer
           z == PirSave("SERVER")
<1>1. Chain(y, R)
  BY PirServerChain, WorkFirst, StepsLater, CheckedLater DEF Loaded
<1>2. Chain(z, Q) /\ PirExecute("SERVER") = << y, z >>
  BY ChainOne, ChainEmpty DEF PirExecute, PirSave
<1>3. \A s \in R : Own("SERVER", s)
  BY StepFields DEF Loaded, PirServerSteps, Own, Known, Sender, Receiver, Providers, Response
<1>4. \A s \in Q : Own("SERVER", s) /\ s.else # "leave"
  BY StepFields DEF Own
<1>5. \A s \in R, t \in Q : Follows(s, t) /\ ~Same(s, t)
  BY StepFields DEF Follows, Same, Fetches
<1> HIDE DEF R, Q, y, z
<1>6. /\ \A s \in R \cup Q : Own("SERVER", s)
      /\ \A s, u \in R, t \in Q : s.else = "leave" => ~Same(u, t)
      /\ \A s \in R, t \in Q : Follows(s, t)
  BY <1>3, <1>4, <1>5
<1>7. Program("SERVER", << y, z >>) /\ Ahead(<< y, z >>) = R \cup Q
  BY <1>1, <1>2, <1>4, <1>6, MakeProgram
<1>8. QED BY <1>2, <1>7 DEF R, Q

(* Every address starts with as much to send as to receive.                *)
LEMMA StartFits ==
  ASSUME NEW a, NEW r \in {{}, {1}, {3}, {1, 2}, {1, 2, 3}}
  PROVE  Fits(a, r, r, <<>>)
<1>1. DOMAIN <<>> = {} /\ Len(<<>>) = 0
  OBVIOUS
<1>2. From({1}, 1) /\ From({3}, 3) /\ From({1, 2}, 1) /\ From({1, 2, 3}, 1)
  BY DEF From
<1>3. \A c \in 1..3 : Cap(a, c + Len(<<>>)) = c
  BY <1>1 DEF Cap
<1>4. CASE r = {}
  BY <1>4 DEF Fits
<1>5. CASE r # {}
  <2>1. PICK c \in 1..3 : From(r, c)
    BY <1>2, <1>5
  <2>2. QED BY <1>1, <1>3, <2>1 DEF Fits
<1>6. QED BY <1>4, <1>5

Starts == \A a \in Addresses : Fits(a, ToReceive(a), ToSend(a), <<>>)

LEMMA EcdhStarts ==
  ASSUME task.sync \in BOOLEAN,
         Ahead(prog["CLIENT"]) = Checked(EcdhClientSteps) \cup RestSteps("CLIENT"),
         Ahead(prog["SERVER"]) = Checked(EcdhServerSteps) \cup RestSteps("SERVER"),
         Ahead(prog["TEE_COMPUTE"]) = {}
  PROVE  Starts
<1>1. ASSUME task.sync PROVE ToReceive(<<"SERVER", "default">>) = {1, 2, 3} /\ ToSend(<<"SERVER", "default">>) = {1, 2, 3}
  <2> DEFINE a == <<"SERVER", "default">>
  <2>1. /\ Party("recv", a) = "SERVER" /\ Party("send", a) = "CLIENT"
        /\ a[1] = "SERVER" /\ a[2] = "default"
    BY DEF Party, Sender, Receiver, Providers, Response
  <2> HIDE DEF a
  <2>2. Line("recv", a, prog["SERVER"]) = { Recv("SERVER", "default", "init", "fail"),
                                            Recv("SERVER", "default", "request", "fail"),
                                            Recv("SERVER", "default", "result", "skip") }
    BY <1>1, <2>1, StepFields DEF Line, Loaded, Checked, EcdhClientSteps, EcdhServerSteps, RestSteps, Response
  <2>3. Line("send", a, prog["CLIENT"]) = { Send("SERVER", "default", "init", "fail"),
                                            Send("SERVER", "default", "request", "fail"),
                                            Send("SERVER", "default", "result", "skip") }
    BY <1>1, <2>1, StepFields DEF Line, Loaded, Checked, EcdhClientSteps, EcdhServerSteps, RestSteps, Response
  <2>4. Nums("recv", a, prog["SERVER"]) = {1, 2, 3} /\ Nums("send", a, prog["CLIENT"]) = {1, 2, 3}
    BY <2>2, <2>3, StepFields DEF Nums, No
  <2>5. QED BY <2>1, <2>4 DEF ToReceive, ToSend, Open, a
<1>2. ASSUME ~task.sync PROVE ToReceive(<<"SERVER", "default">>) = {1, 2} /\ ToSend(<<"SERVER", "default">>) = {1, 2}
  <2> DEFINE a == <<"SERVER", "default">>
  <2>1. /\ Party("recv", a) = "SERVER" /\ Party("send", a) = "CLIENT"
        /\ a[1] = "SERVER" /\ a[2] = "default"
    BY DEF Party, Sender, Receiver, Providers, Response
  <2> HIDE DEF a
  <2>2. Line("recv", a, prog["SERVER"]) = { Recv("SERVER", "default", "init", "fail"),
                                            Recv("SERVER", "default", "request", "fail") }
    BY <1>2, <2>1, StepFields DEF Line, Loaded, Checked, EcdhClientSteps, EcdhServerSteps, RestSteps, Response
  <2>3. Line("send", a, prog["CLIENT"]) = { Send("SERVER", "default", "init", "fail"),
                                            Send("SERVER", "default", "request", "fail") }
    BY <1>2, <2>1, StepFields DEF Line, Loaded, Checked, EcdhClientSteps, EcdhServerSteps, RestSteps, Response
  <2>4. Nums("recv", a, prog["SERVER"]) = {1, 2} /\ Nums("send", a, prog["CLIENT"]) = {1, 2}
    BY <2>2, <2>3, StepFields DEF Nums, No
  <2>5. QED BY <2>1, <2>4 DEF ToReceive, ToSend, Open, a
<1>3. ToReceive(<<"CLIENT", "default">>) = {1} /\ ToSend(<<"CLIENT", "default">>) = {1}
  <2> DEFINE a == <<"CLIENT", "default">>
  <2>1. /\ Party("recv", a) = "CLIENT" /\ Party("send", a) = "SERVER"
        /\ a[1] = "CLIENT" /\ a[2] = "default"
    BY DEF Party, Sender, Receiver, Providers, Response
  <2> HIDE DEF a
  <2>2. Line("recv", a, prog["CLIENT"]) = { Recv("CLIENT", "default", "response", "fail") }
    BY <2>1, StepFields DEF Line, Loaded, Checked, EcdhClientSteps, EcdhServerSteps, RestSteps, Response
  <2>3. Line("send", a, prog["SERVER"]) = { Send("CLIENT", "default", "response", "skip") }
    BY <2>1, StepFields DEF Line, Loaded, Checked, EcdhClientSteps, EcdhServerSteps, RestSteps, Response
  <2>4. Nums("recv", a, prog["CLIENT"]) = {1} /\ Nums("send", a, prog["SERVER"]) = {1}
    BY <2>2, <2>3, StepFields DEF Nums, No
  <2>5. QED BY <2>1, <2>4 DEF ToReceive, ToSend, Open, a
<1>4. ASSUME NEW a \in Addresses, a \notin { <<"SERVER", "default">>, <<"CLIENT", "default">> }
      PROVE  ToReceive(a) = {}
  <2> DEFINE p == Party("recv", a)
  <2>1. a = <<a[1], a[2]>> /\ p \in {"CLIENT", "SERVER", "TEE_COMPUTE"}
    BY DEF Addresses, Party, Receiver, Parties, Providers
  <2> HIDE DEF p
  <2>2. \A s \in Ahead(prog["CLIENT"]) : s.do = "recv" => <<s.node, s.key>> \in { <<"SERVER", "default">>, <<"CLIENT", "default">> }
    BY StepFields DEF Loaded, Checked, EcdhClientSteps, EcdhServerSteps, RestSteps
  <2>3. \A s \in Ahead(prog["SERVER"]) : s.do = "recv" => <<s.node, s.key>> \in { <<"SERVER", "default">>, <<"CLIENT", "default">> }
    BY StepFields DEF Loaded, Checked, EcdhClientSteps, EcdhServerSteps, RestSteps
  <2>4. \A s \in Ahead(prog["TEE_COMPUTE"]) : s.do = "recv" => <<s.node, s.key>> \in { <<"SERVER", "default">>, <<"CLIENT", "default">> }
    BY StepFields DEF Loaded, Checked, EcdhClientSteps, EcdhServerSteps, RestSteps
  <2>5. Line("recv", a, prog[p]) = {}
    BY <1>4, <2>1, <2>2, <2>3, <2>4 DEF Line
  <2>6. QED BY <2>5 DEF ToReceive, Open, Nums, p
<1>5. ASSUME NEW a \in Addresses PROVE Fits(a, ToReceive(a), ToSend(a), <<>>)
  <2>1. CASE a = <<"SERVER", "default">>
    <3>1. ToSend(a) = ToReceive(a) /\ ToReceive(a) \in {{}, {1}, {3}, {1, 2}, {1, 2, 3}}
      BY <1>1, <1>2, <2>1
    <3>2. QED BY <3>1, StartFits
  <2>2. CASE a = <<"CLIENT", "default">>
    <3>1. ToSend(a) = ToReceive(a) /\ ToReceive(a) \in {{}, {1}, {3}, {1, 2}, {1, 2, 3}}
      BY <1>3, <2>2
    <3>2. QED BY <3>1, StartFits
  <2>3. CASE a \notin { <<"SERVER", "default">>, <<"CLIENT", "default">> }
    BY <1>4, <2>3 DEF Fits
  <2>4. QED BY <2>1, <2>2, <2>3
<1>6. QED BY <1>5 DEF Starts

LEMMA KkrtStarts ==
  ASSUME task.sync \in BOOLEAN,
         Ahead(prog["CLIENT"]) = Checked(KkrtRecvSteps) \cup RestSteps("CLIENT"),
         Ahead(prog["SERVER"]) = Checked(KkrtSendSteps) \cup RestSteps("SERVER"),
         Ahead(prog["TEE_COMPUTE"]) = {}
  PROVE  Starts
<1>1. ToReceive(<<"SERVER", "kkrt">>) = {1, 2, 3} /\ ToSend(<<"SERVER", "kkrt">>) = {1, 2, 3}
  <2> DEFINE a == <<"SERVER", "kkrt">>
  <2>1. /\ Party("recv", a) = "SERVER" /\ Party("send", a) = "CLIENT"
        /\ a[1] = "SERVER" /\ a[2] = "kkrt"
    BY DEF Party, Sender, Receiver, Providers, Response
  <2> HIDE DEF a
  <2>2. Line("recv", a, prog["SERVER"]) = { Recv("SERVER", "kkrt", "size", "fail"),
                                            Recv("SERVER", "kkrt", "dummy", "fail"),
                                            Recv("SERVER", "kkrt", "request", "fail") }
    BY <2>1, StepFields DEF Line, Loaded, Checked, KkrtRecvSteps, KkrtSendSteps, RestSteps, Response
  <2>3. Line("send", a, prog["CLIENT"]) = { Send("SERVER", "kkrt", "size", "fail"),
                                            Send("SERVER", "kkrt", "dummy", "fail"),
                                            Send("SERVER", "kkrt", "request", "fail") }
    BY <2>1, StepFields DEF Line, Loaded, Checked, KkrtRecvSteps, KkrtSendSteps, RestSteps, Response
  <2>4. Nums("recv", a, prog["SERVER"]) = {1, 2, 3} /\ Nums("send", a, prog["CLIENT"]) = {1, 2, 3}
    BY <2>2, <2>3, StepFields DEF Nums, No
  <2>5. QED BY <2>1, <2>4 DEF ToReceive, ToSend, Open, a
<1>2. ToReceive(<<"CLIENT", "kkrt">>) = {1, 2, 3} /\ ToSend(<<"CLIENT", "kkrt">>) = {1, 2, 3}
  <2> DEFINE a == <<"CLIENT", "kkrt">>
  <2>1. /\ Party("recv", a) = "CLIENT" /\ Party("send", a) = "SERVER"
        /\ a[1] = "CLIENT" /\ a[2] = "kkrt"
    BY DEF Party, Sender, Receiver, Providers, Response
  <2> HIDE DEF a
  <2>2. Line("recv", a, prog["CLIENT"]) = { Recv("CLIENT", "kkrt", "size", "fail"),
                                            Recv("CLIENT", "kkrt", "dummy", "fail"),
                                            Recv("CLIENT", "kkrt", "response", "fail") }
    BY <2>1, StepFields DEF Line, Loaded, Checked, KkrtRecvSteps, KkrtSendSteps, RestSteps, Response
  <2>3. Line("send", a, prog["SERVER"]) = { Send("CLIENT", "kkrt", "size", "fail"),
                                            Send("CLIENT", "kkrt", "dummy", "fail"),
                                            Send("CLIENT", "kkrt", "response", "fail") }
    BY <2>1, StepFields DEF Line, Loaded, Checked, KkrtRecvSteps, KkrtSendSteps, RestSteps, Response
  <2>4. Nums("recv", a, prog["CLIENT"]) = {1, 2, 3} /\ Nums("send", a, prog["SERVER"]) = {1, 2, 3}
    BY <2>2, <2>3, StepFields DEF Nums, No
  <2>5. QED BY <2>1, <2>4 DEF ToReceive, ToSend, Open, a
<1>3. ASSUME task.sync PROVE ToReceive(<<"SERVER", "default">>) = {3} /\ ToSend(<<"SERVER", "default">>) = {3}
  <2> DEFINE a == <<"SERVER", "default">>
  <2>1. /\ Party("recv", a) = "SERVER" /\ Party("send", a) = "CLIENT"
        /\ a[1] = "SERVER" /\ a[2] = "default"
    BY DEF Party, Sender, Receiver, Providers, Response
  <2> HIDE DEF a
  <2>2. Line("recv", a, prog["SERVER"]) = { Recv("SERVER", "default", "result", "skip") }
    BY <1>3, <2>1, StepFields DEF Line, Loaded, Checked, KkrtRecvSteps, KkrtSendSteps, RestSteps, Response
  <2>3. Line("send", a, prog["CLIENT"]) = { Send("SERVER", "default", "result", "skip") }
    BY <1>3, <2>1, StepFields DEF Line, Loaded, Checked, KkrtRecvSteps, KkrtSendSteps, RestSteps, Response
  <2>4. Nums("recv", a, prog["SERVER"]) = {3} /\ Nums("send", a, prog["CLIENT"]) = {3}
    BY <2>2, <2>3, StepFields DEF Nums, No
  <2>5. QED BY <2>1, <2>4 DEF ToReceive, ToSend, Open, a
<1>4. ASSUME ~task.sync PROVE ToReceive(<<"SERVER", "default">>) = {} /\ ToSend(<<"SERVER", "default">>) = {}
  <2> DEFINE a == <<"SERVER", "default">>
  <2>1. /\ Party("recv", a) = "SERVER" /\ Party("send", a) = "CLIENT"
        /\ a[1] = "SERVER" /\ a[2] = "default"
    BY DEF Party, Sender, Receiver, Providers, Response
  <2> HIDE DEF a
  <2>2. Line("recv", a, prog["SERVER"]) = {}
    BY <1>4, <2>1, StepFields DEF Line, Loaded, Checked, KkrtRecvSteps, KkrtSendSteps, RestSteps, Response
  <2>3. Line("send", a, prog["CLIENT"]) = {}
    BY <1>4, <2>1, StepFields DEF Line, Loaded, Checked, KkrtRecvSteps, KkrtSendSteps, RestSteps, Response
  <2>4. Nums("recv", a, prog["SERVER"]) = {} /\ Nums("send", a, prog["CLIENT"]) = {}
    BY <2>2, <2>3, StepFields DEF Nums, No
  <2>5. QED BY <2>1, <2>4 DEF ToReceive, ToSend, Open, a
<1>5. ASSUME NEW a \in Addresses, a \notin { <<"SERVER", "kkrt">>, <<"CLIENT", "kkrt">>, <<"SERVER", "default">> }
      PROVE  ToReceive(a) = {}
  <2> DEFINE p == Party("recv", a)
  <2>1. a = <<a[1], a[2]>> /\ p \in {"CLIENT", "SERVER", "TEE_COMPUTE"}
    BY DEF Addresses, Party, Receiver, Parties, Providers
  <2> HIDE DEF p
  <2>2. \A s \in Ahead(prog["CLIENT"]) : s.do = "recv" => <<s.node, s.key>> \in { <<"SERVER", "kkrt">>, <<"CLIENT", "kkrt">>, <<"SERVER", "default">> }
    BY StepFields DEF Loaded, Checked, KkrtRecvSteps, KkrtSendSteps, RestSteps
  <2>3. \A s \in Ahead(prog["SERVER"]) : s.do = "recv" => <<s.node, s.key>> \in { <<"SERVER", "kkrt">>, <<"CLIENT", "kkrt">>, <<"SERVER", "default">> }
    BY StepFields DEF Loaded, Checked, KkrtRecvSteps, KkrtSendSteps, RestSteps
  <2>4. \A s \in Ahead(prog["TEE_COMPUTE"]) : s.do = "recv" => <<s.node, s.key>> \in { <<"SERVER", "kkrt">>, <<"CLIENT", "kkrt">>, <<"SERVER", "default">> }
    BY StepFields DEF Loaded, Checked, KkrtRecvSteps, KkrtSendSteps, RestSteps
  <2>5. Line("recv", a, prog[p]) = {}
    BY <1>5, <2>1, <2>2, <2>3, <2>4 DEF Line
  <2>6. QED BY <2>5 DEF ToReceive, Open, Nums, p
<1>6. ASSUME NEW a \in Addresses PROVE Fits(a, ToReceive(a), ToSend(a), <<>>)
  <2>1. CASE a = <<"SERVER", "kkrt">>
    <3>1. ToSend(a) = ToReceive(a) /\ ToReceive(a) \in {{}, {1}, {3}, {1, 2}, {1, 2, 3}}
      BY <1>1, <2>1
    <3>2. QED BY <3>1, StartFits
  <2>2. CASE a = <<"CLIENT", "kkrt">>
    <3>1. ToSend(a) = ToReceive(a) /\ ToReceive(a) \in {{}, {1}, {3}, {1, 2}, {1, 2, 3}}
      BY <1>2, <2>2
    <3>2. QED BY <3>1, StartFits
  <2>3. CASE a = <<"SERVER", "default">>
    <3>1. ToSend(a) = ToReceive(a) /\ ToReceive(a) \in {{}, {1}, {3}, {1, 2}, {1, 2, 3}}
      BY <1>3, <1>4, <2>3
    <3>2. QED BY <3>1, StartFits
  <2>4. CASE a \notin { <<"SERVER", "kkrt">>, <<"CLIENT", "kkrt">>, <<"SERVER", "default">> }
    BY <1>5, <2>4 DEF Fits
  <2>5. QED BY <2>1, <2>2, <2>3, <2>4
<1>7. QED BY <1>6 DEF Starts

LEMMA TeeStarts ==
  ASSUME task.sync \in BOOLEAN,
         Ahead(prog["CLIENT"]) = Checked(ProviderClientSteps) \cup RestSteps("CLIENT"),
         Ahead(prog["SERVER"]) = Checked(ProviderServerSteps) \cup RestSteps("SERVER"),
         Ahead(prog["TEE_COMPUTE"]) = Loaded(ExecuteAsComputeSteps) \cup RestSteps("TEE_COMPUTE")
  PROVE  Starts
<1>1. ToReceive(<<"TEE_COMPUTE", "CLIENT">>) = {1} /\ ToSend(<<"TEE_COMPUTE", "CLIENT">>) = {1}
  <2> DEFINE a == <<"TEE_COMPUTE", "CLIENT">>
  <2>1. /\ Party("recv", a) = "TEE_COMPUTE" /\ Party("send", a) = "CLIENT"
        /\ a[1] = "TEE_COMPUTE" /\ a[2] = "CLIENT"
    BY DEF Party, Sender, Receiver, Providers, Response
  <2> HIDE DEF a
  <2>2. Line("recv", a, prog["TEE_COMPUTE"]) = { Recv("TEE_COMPUTE", "CLIENT", "data", "leave") }
    BY <2>1, StepFields DEF Line, Loaded, Checked, ProviderClientSteps, ProviderServerSteps, ExecuteAsComputeSteps, RestSteps, Response
  <2>3. Line("send", a, prog["CLIENT"]) = { Send("TEE_COMPUTE", "CLIENT", "data", "skip") }
    BY <2>1, StepFields DEF Line, Loaded, Checked, ProviderClientSteps, ProviderServerSteps, ExecuteAsComputeSteps, RestSteps, Response
  <2>4. Nums("recv", a, prog["TEE_COMPUTE"]) = {1} /\ Nums("send", a, prog["CLIENT"]) = {1}
    BY <2>2, <2>3, StepFields DEF Nums, No
  <2>5. QED BY <2>1, <2>4 DEF ToReceive, ToSend, Open, a
<1>2. ToReceive(<<"CLIENT", "result_id">>) = {1} /\ ToSend(<<"CLIENT", "result_id">>) = {1}
  <2> DEFINE a == <<"CLIENT", "result_id">>
  <2>1. /\ Party("recv", a) = "CLIENT" /\ Party("send", a) = "TEE_COMPUTE"
        /\ a[1] = "CLIENT" /\ a[2] = "result_id"
    BY DEF Party, Sender, Receiver, Providers, Response
  <2> HIDE DEF a
  <2>2. Line("recv", a, prog["CLIENT"]) = { Recv("CLIENT", "result_id", "response", "leave") }
    BY <2>1, StepFields DEF Line, Loaded, Checked, ProviderClientSteps, ProviderServerSteps, ExecuteAsComputeSteps, RestSteps, Response
  <2>3. Line("send", a, prog["TEE_COMPUTE"]) = { Send("CLIENT", "result_id", "response", "leave") }
    BY <2>1, StepFields DEF Line, Loaded, Checked, ProviderClientSteps, ProviderServerSteps, ExecuteAsComputeSteps, RestSteps, Response
  <2>4. Nums("recv", a, prog["CLIENT"]) = {1} /\ Nums("send", a, prog["TEE_COMPUTE"]) = {1}
    BY <2>2, <2>3, StepFields DEF Nums, No
  <2>5. QED BY <2>1, <2>4 DEF ToReceive, ToSend, Open, a
<1>3. ToReceive(<<"TEE_COMPUTE", "SERVER">>) = {1} /\ ToSend(<<"TEE_COMPUTE", "SERVER">>) = {1}
  <2> DEFINE a == <<"TEE_COMPUTE", "SERVER">>
  <2>1. /\ Party("recv", a) = "TEE_COMPUTE" /\ Party("send", a) = "SERVER"
        /\ a[1] = "TEE_COMPUTE" /\ a[2] = "SERVER"
    BY DEF Party, Sender, Receiver, Providers, Response
  <2> HIDE DEF a
  <2>2. Line("recv", a, prog["TEE_COMPUTE"]) = { Recv("TEE_COMPUTE", "SERVER", "data", "leave") }
    BY <2>1, StepFields DEF Line, Loaded, Checked, ProviderClientSteps, ProviderServerSteps, ExecuteAsComputeSteps, RestSteps, Response
  <2>3. Line("send", a, prog["SERVER"]) = { Send("TEE_COMPUTE", "SERVER", "data", "skip") }
    BY <2>1, StepFields DEF Line, Loaded, Checked, ProviderClientSteps, ProviderServerSteps, ExecuteAsComputeSteps, RestSteps, Response
  <2>4. Nums("recv", a, prog["TEE_COMPUTE"]) = {1} /\ Nums("send", a, prog["SERVER"]) = {1}
    BY <2>2, <2>3, StepFields DEF Nums, No
  <2>5. QED BY <2>1, <2>4 DEF ToReceive, ToSend, Open, a
<1>4. ASSUME task.sync PROVE ToReceive(<<"SERVER", "default">>) = {3} /\ ToSend(<<"SERVER", "default">>) = {3}
  <2> DEFINE a == <<"SERVER", "default">>
  <2>1. /\ Party("recv", a) = "SERVER" /\ Party("send", a) = "CLIENT"
        /\ a[1] = "SERVER" /\ a[2] = "default"
    BY DEF Party, Sender, Receiver, Providers, Response
  <2> HIDE DEF a
  <2>2. Line("recv", a, prog["SERVER"]) = { Recv("SERVER", "default", "result", "skip") }
    BY <1>4, <2>1, StepFields DEF Line, Loaded, Checked, ProviderClientSteps, ProviderServerSteps, ExecuteAsComputeSteps, RestSteps, Response
  <2>3. Line("send", a, prog["CLIENT"]) = { Send("SERVER", "default", "result", "skip") }
    BY <1>4, <2>1, StepFields DEF Line, Loaded, Checked, ProviderClientSteps, ProviderServerSteps, ExecuteAsComputeSteps, RestSteps, Response
  <2>4. Nums("recv", a, prog["SERVER"]) = {3} /\ Nums("send", a, prog["CLIENT"]) = {3}
    BY <2>2, <2>3, StepFields DEF Nums, No
  <2>5. QED BY <2>1, <2>4 DEF ToReceive, ToSend, Open, a
<1>5. ASSUME ~task.sync PROVE ToReceive(<<"SERVER", "default">>) = {} /\ ToSend(<<"SERVER", "default">>) = {}
  <2> DEFINE a == <<"SERVER", "default">>
  <2>1. /\ Party("recv", a) = "SERVER" /\ Party("send", a) = "CLIENT"
        /\ a[1] = "SERVER" /\ a[2] = "default"
    BY DEF Party, Sender, Receiver, Providers, Response
  <2> HIDE DEF a
  <2>2. Line("recv", a, prog["SERVER"]) = {}
    BY <1>5, <2>1, StepFields DEF Line, Loaded, Checked, ProviderClientSteps, ProviderServerSteps, ExecuteAsComputeSteps, RestSteps, Response
  <2>3. Line("send", a, prog["CLIENT"]) = {}
    BY <1>5, <2>1, StepFields DEF Line, Loaded, Checked, ProviderClientSteps, ProviderServerSteps, ExecuteAsComputeSteps, RestSteps, Response
  <2>4. Nums("recv", a, prog["SERVER"]) = {} /\ Nums("send", a, prog["CLIENT"]) = {}
    BY <2>2, <2>3, StepFields DEF Nums, No
  <2>5. QED BY <2>1, <2>4 DEF ToReceive, ToSend, Open, a
<1>6. ASSUME NEW a \in Addresses, a \notin { <<"TEE_COMPUTE", "CLIENT">>, <<"CLIENT", "result_id">>, <<"TEE_COMPUTE", "SERVER">>, <<"SERVER", "default">> }
      PROVE  ToReceive(a) = {}
  <2> DEFINE p == Party("recv", a)
  <2>1. a = <<a[1], a[2]>> /\ p \in {"CLIENT", "SERVER", "TEE_COMPUTE"}
    BY DEF Addresses, Party, Receiver, Parties, Providers
  <2> HIDE DEF p
  <2>2. \A s \in Ahead(prog["CLIENT"]) : s.do = "recv" => <<s.node, s.key>> \in { <<"TEE_COMPUTE", "CLIENT">>, <<"CLIENT", "result_id">>, <<"TEE_COMPUTE", "SERVER">>, <<"SERVER", "default">> }
    BY StepFields DEF Loaded, Checked, ProviderClientSteps, ProviderServerSteps, ExecuteAsComputeSteps, RestSteps
  <2>3. \A s \in Ahead(prog["SERVER"]) : s.do = "recv" => <<s.node, s.key>> \in { <<"TEE_COMPUTE", "CLIENT">>, <<"CLIENT", "result_id">>, <<"TEE_COMPUTE", "SERVER">>, <<"SERVER", "default">> }
    BY StepFields DEF Loaded, Checked, ProviderClientSteps, ProviderServerSteps, ExecuteAsComputeSteps, RestSteps
  <2>4. \A s \in Ahead(prog["TEE_COMPUTE"]) : s.do = "recv" => <<s.node, s.key>> \in { <<"TEE_COMPUTE", "CLIENT">>, <<"CLIENT", "result_id">>, <<"TEE_COMPUTE", "SERVER">>, <<"SERVER", "default">> }
    BY StepFields DEF Loaded, Checked, ProviderClientSteps, ProviderServerSteps, ExecuteAsComputeSteps, RestSteps
  <2>5. Line("recv", a, prog[p]) = {}
    BY <1>6, <2>1, <2>2, <2>3, <2>4 DEF Line
  <2>6. QED BY <2>5 DEF ToReceive, Open, Nums, p
<1>7. ASSUME NEW a \in Addresses PROVE Fits(a, ToReceive(a), ToSend(a), <<>>)
  <2>1. CASE a = <<"TEE_COMPUTE", "CLIENT">>
    <3>1. ToSend(a) = ToReceive(a) /\ ToReceive(a) \in {{}, {1}, {3}, {1, 2}, {1, 2, 3}}
      BY <1>1, <2>1
    <3>2. QED BY <3>1, StartFits
  <2>2. CASE a = <<"CLIENT", "result_id">>
    <3>1. ToSend(a) = ToReceive(a) /\ ToReceive(a) \in {{}, {1}, {3}, {1, 2}, {1, 2, 3}}
      BY <1>2, <2>2
    <3>2. QED BY <3>1, StartFits
  <2>3. CASE a = <<"TEE_COMPUTE", "SERVER">>
    <3>1. ToSend(a) = ToReceive(a) /\ ToReceive(a) \in {{}, {1}, {3}, {1, 2}, {1, 2, 3}}
      BY <1>3, <2>3
    <3>2. QED BY <3>1, StartFits
  <2>4. CASE a = <<"SERVER", "default">>
    <3>1. ToSend(a) = ToReceive(a) /\ ToReceive(a) \in {{}, {1}, {3}, {1, 2}, {1, 2, 3}}
      BY <1>4, <1>5, <2>4
    <3>2. QED BY <3>1, StartFits
  <2>5. CASE a \notin { <<"TEE_COMPUTE", "CLIENT">>, <<"CLIENT", "result_id">>, <<"TEE_COMPUTE", "SERVER">>, <<"SERVER", "default">> }
    BY <1>6, <2>5 DEF Fits
  <2>6. QED BY <2>1, <2>2, <2>3, <2>4, <2>5
<1>8. QED BY <1>7 DEF Starts

LEMMA PirStarts ==
  ASSUME Ahead(prog["CLIENT"]) = Loaded(PirClientSteps) \cup { Work("save", "fail") },
         Ahead(prog["SERVER"]) = Loaded(PirServerSteps) \cup {},
         Ahead(prog["TEE_COMPUTE"]) = {}
  PROVE  Starts /\ ToReceive(PirEnd) # {} /\ ToReceive(PirCount) # {} /\ 3 \in ToReceive(PirReply)
<1>1. ToReceive(<<"SERVER", "pir_key">>) = {1, 2, 3} /\ ToSend(<<"SERVER", "pir_key">>) = {1, 2, 3}
  <2> DEFINE a == <<"SERVER", "pir_key">>
  <2>1. /\ Party("recv", a) = "SERVER" /\ Party("send", a) = "CLIENT"
        /\ a[1] = "SERVER" /\ a[2] = "pir_key"
    BY DEF Party, Sender, Receiver, Providers, Response
  <2> HIDE DEF a
  <2>2. Line("recv", a, prog["SERVER"]) = { Recv("SERVER", "pir_key", "params?", "fail"),
                                            Recv("SERVER", "pir_key", "oprf?", "fail"),
                                            Recv("SERVER", "pir_key", "query", "fail") }
    BY <2>1, StepFields DEF Line, Loaded, PirClientSteps, PirServerSteps, Response
  <2>3. Line("send", a, prog["CLIENT"]) = { Send("SERVER", "pir_key", "params?", "fail"),
                                            Send("SERVER", "pir_key", "oprf?", "fail"),
                                            Send("SERVER", "pir_key", "query", "fail") }
    BY <2>1, StepFields DEF Line, Loaded, PirClientSteps, PirServerSteps, Response
  <2>4. Nums("recv", a, prog["SERVER"]) = {1, 2, 3} /\ Nums("send", a, prog["CLIENT"]) = {1, 2, 3}
    BY <2>2, <2>3, StepFields DEF Nums, No
  <2>5. QED BY <2>1, <2>4 DEF ToReceive, ToSend, Open, a
<1>2. ToReceive(<<"SERVER", Response>>) = {1, 2, 3} /\ ToSend(<<"SERVER", Response>>) = {1, 2, 3}
  <2> DEFINE a == <<"SERVER", Response>>
  <2>1. /\ Party("recv", a) = "CLIENT" /\ Party("send", a) = "SERVER"
        /\ a[1] = "SERVER" /\ a[2] = Response
    BY DEF Party, Sender, Receiver, Providers, Response
  <2> HIDE DEF a
  <2>2. Line("recv", a, prog["CLIENT"]) = { Recv("SERVER", Response, "params", "fail"),
                                            Recv("SERVER", Response, "oprf", "fail"),
                                            Recv("SERVER", Response, "package", "fail") }
    BY <2>1, StepFields DEF Line, Loaded, PirClientSteps, PirServerSteps, Response
  <2>3. Line("send", a, prog["SERVER"]) = { Send("SERVER", Response, "params", "fail"),
                                            Send("SERVER", Response, "oprf", "fail"),
                                            Send("SERVER", Response, "package", "skip") }
    BY <2>1, StepFields DEF Line, Loaded, PirClientSteps, PirServerSteps, Response
  <2>4. Nums("recv", a, prog["CLIENT"]) = {1, 2, 3} /\ Nums("send", a, prog["SERVER"]) = {1, 2, 3}
    BY <2>2, <2>3, StepFields DEF Nums, No
  <2>5. QED BY <2>1, <2>4 DEF ToReceive, ToSend, Open, a
<1>3. ToReceive(<<"SERVER", "pack_count">>) = {1} /\ ToSend(<<"SERVER", "pack_count">>) = {1}
  <2> DEFINE a == <<"SERVER", "pack_count">>
  <2>1. /\ Party("recv", a) = "CLIENT" /\ Party("send", a) = "SERVER"
        /\ a[1] = "SERVER" /\ a[2] = "pack_count"
    BY DEF Party, Sender, Receiver, Providers, Response
  <2> HIDE DEF a
  <2>2. Line("recv", a, prog["CLIENT"]) = { Recv("SERVER", "pack_count", "count", "fail") }
    BY <2>1, StepFields DEF Line, Loaded, PirClientSteps, PirServerSteps, Response
  <2>3. Line("send", a, prog["SERVER"]) = { Send("SERVER", "pack_count", "count", "fail") }
    BY <2>1, StepFields DEF Line, Loaded, PirClientSteps, PirServerSteps, Response
  <2>4. Nums("recv", a, prog["CLIENT"]) = {1} /\ Nums("send", a, prog["SERVER"]) = {1}
    BY <2>2, <2>3, StepFields DEF Nums, No
  <2>5. QED BY <2>1, <2>4 DEF ToReceive, ToSend, Open, a
<1>4. ToReceive(<<"SERVER", "pir_task_end">>) = {1} /\ ToSend(<<"SERVER", "pir_task_end">>) = {1}
  <2> DEFINE a == <<"SERVER", "pir_task_end">>
  <2>1. /\ Party("recv", a) = "SERVER" /\ Party("send", a) = "CLIENT"
        /\ a[1] = "SERVER" /\ a[2] = "pir_task_end"
    BY DEF Party, Sender, Receiver, Providers, Response
  <2> HIDE DEF a
  <2>2. Line("recv", a, prog["SERVER"]) = { Recv("SERVER", "pir_task_end", "end", "fail") }
    BY <2>1, StepFields DEF Line, Loaded, PirClientSteps, PirServerSteps, Response
  <2>3. Line("send", a, prog["CLIENT"]) = { Send("SERVER", "pir_task_end", "end", "fail") }
    BY <2>1, StepFields DEF Line, Loaded, PirClientSteps, PirServerSteps, Response
  <2>4. Nums("recv", a, prog["SERVER"]) = {1} /\ Nums("send", a, prog["CLIENT"]) = {1}
    BY <2>2, <2>3, StepFields DEF Nums, No
  <2>5. QED BY <2>1, <2>4 DEF ToReceive, ToSend, Open, a
<1>5. ASSUME NEW a \in Addresses, a \notin { <<"SERVER", "pir_key">>, <<"SERVER", Response>>, <<"SERVER", "pack_count">>, <<"SERVER", "pir_task_end">> }
      PROVE  ToReceive(a) = {}
  <2> DEFINE p == Party("recv", a)
  <2>1. a = <<a[1], a[2]>> /\ p \in {"CLIENT", "SERVER", "TEE_COMPUTE"}
    BY DEF Addresses, Party, Receiver, Parties, Providers
  <2> HIDE DEF p
  <2>2. \A s \in Ahead(prog["CLIENT"]) : s.do = "recv" => <<s.node, s.key>> \in { <<"SERVER", "pir_key">>, <<"SERVER", Response>>, <<"SERVER", "pack_count">>, <<"SERVER", "pir_task_end">> }
    BY StepFields DEF Loaded, PirClientSteps, PirServerSteps
  <2>3. \A s \in Ahead(prog["SERVER"]) : s.do = "recv" => <<s.node, s.key>> \in { <<"SERVER", "pir_key">>, <<"SERVER", Response>>, <<"SERVER", "pack_count">>, <<"SERVER", "pir_task_end">> }
    BY StepFields DEF Loaded, PirClientSteps, PirServerSteps
  <2>4. \A s \in Ahead(prog["TEE_COMPUTE"]) : s.do = "recv" => <<s.node, s.key>> \in { <<"SERVER", "pir_key">>, <<"SERVER", Response>>, <<"SERVER", "pack_count">>, <<"SERVER", "pir_task_end">> }
    BY StepFields DEF Loaded, PirClientSteps, PirServerSteps
  <2>5. Line("recv", a, prog[p]) = {}
    BY <1>5, <2>1, <2>2, <2>3, <2>4 DEF Line
  <2>6. QED BY <2>5 DEF ToReceive, Open, Nums, p
<1>6. ASSUME NEW a \in Addresses PROVE Fits(a, ToReceive(a), ToSend(a), <<>>)
  <2>1. CASE a = <<"SERVER", "pir_key">>
    <3>1. ToSend(a) = ToReceive(a) /\ ToReceive(a) \in {{}, {1}, {3}, {1, 2}, {1, 2, 3}}
      BY <1>1, <2>1
    <3>2. QED BY <3>1, StartFits
  <2>2. CASE a = <<"SERVER", Response>>
    <3>1. ToSend(a) = ToReceive(a) /\ ToReceive(a) \in {{}, {1}, {3}, {1, 2}, {1, 2, 3}}
      BY <1>2, <2>2
    <3>2. QED BY <3>1, StartFits
  <2>3. CASE a = <<"SERVER", "pack_count">>
    <3>1. ToSend(a) = ToReceive(a) /\ ToReceive(a) \in {{}, {1}, {3}, {1, 2}, {1, 2, 3}}
      BY <1>3, <2>3
    <3>2. QED BY <3>1, StartFits
  <2>4. CASE a = <<"SERVER", "pir_task_end">>
    <3>1. ToSend(a) = ToReceive(a) /\ ToReceive(a) \in {{}, {1}, {3}, {1, 2}, {1, 2, 3}}
      BY <1>4, <2>4
    <3>2. QED BY <3>1, StartFits
  <2>5. CASE a \notin { <<"SERVER", "pir_key">>, <<"SERVER", Response>>, <<"SERVER", "pack_count">>, <<"SERVER", "pir_task_end">> }
    BY <1>5, <2>5 DEF Fits
  <2>6. QED BY <2>1, <2>2, <2>3, <2>4, <2>5
<1>7. QED BY <1>2, <1>3, <1>4, <1>6 DEF Starts, PirEnd, PirCount, PirReply

-----------------------------------------------------------------------------
LEMMA TaskFields ==
  ASSUME Init
  PROVE  task.kind \in {"ECDH", "KKRT", "TEE", "PIR"} /\ task.sync \in BOOLEAN
BY DEF Init

LEMMA IdleProgram ==
  ASSUME NEW p
  PROVE  Program(p, Idle) /\ Ahead(Idle) = {}
<1>1. Program(p, << <<>>, <<>> >>) /\ Ahead(<< <<>>, <<>> >>) = {} \cup {}
  BY ChainEmpty, MakeProgram
<1>2. QED BY <1>1 DEF Idle

(* What the parties begin with.                                            *)
LEMMA StartProg ==
  ASSUME Init, NEW p \in Parties
  PROVE  prog[p] = IF p = "TEE_COMPUTE" /\ task.kind # "TEE" THEN Idle
                   ELSE IF task.kind = "PIR" THEN PirExecute(p) ELSE PsiExecute(p)
BY DEF Init, Members, Parties, Providers, Idle

LEMMA StartLines ==
  ASSUME Init
  PROVE  /\ ProgInv /\ Starts
         /\ task.kind = "PIR" =>
              /\ ToReceive(PirEnd) # {} /\ ToReceive(PirCount) # {} /\ 3 \in ToReceive(PirReply)
              /\ Ahead(prog["CLIENT"]) = Loaded(PirClientSteps) \cup { Work("save", "fail") }
              /\ Ahead(prog["SERVER"]) = Loaded(PirServerSteps) \cup {}
              /\ Ahead(prog["TEE_COMPUTE"]) = {}
<1>1. task.kind \in {"ECDH", "KKRT", "TEE", "PIR"} /\ task.sync \in BOOLEAN
  BY TaskFields
<1>2. Parties = {"CLIENT", "SERVER", "TEE_COMPUTE"}
  BY DEF Parties, Providers
<1>3. /\ prog["TEE_COMPUTE"] = IF task.kind = "TEE" THEN PsiExecute("TEE_COMPUTE") ELSE Idle
      /\ \A p \in Providers : prog[p] = IF task.kind = "PIR" THEN PirExecute(p) ELSE PsiExecute(p)
  BY <1>2, StartProg DEF Providers
<1>4. "CLIENT" \in Providers /\ "SERVER" \in Providers
  BY DEF Providers
<1>5. CASE task.kind = "ECDH"
  <2>1. /\ prog["CLIENT"] = PsiExecute("CLIENT") /\ prog["SERVER"] = PsiExecute("SERVER")
        /\ prog["TEE_COMPUTE"] = Idle
    BY <1>3, <1>4, <1>5
  <2>2. /\ Program("CLIENT", prog["CLIENT"]) /\ Program("SERVER", prog["SERVER"])
        /\ Program("TEE_COMPUTE", prog["TEE_COMPUTE"])
    BY <1>1, <1>5, <2>1, EcdhClientProgram, EcdhServerProgram, IdleProgram
  <2>3. Starts
    BY <1>1, <1>5, <2>1, EcdhClientProgram, EcdhServerProgram, IdleProgram, EcdhStarts
  <2>4. QED BY <1>2, <1>5, <2>2, <2>3 DEF ProgInv
<1>6. CASE task.kind = "KKRT"
  <2>1. /\ prog["CLIENT"] = PsiExecute("CLIENT") /\ prog["SERVER"] = PsiExecute("SERVER")
        /\ prog["TEE_COMPUTE"] = Idle
    BY <1>3, <1>4, <1>6
  <2>2. /\ Program("CLIENT", prog["CLIENT"]) /\ Program("SERVER", prog["SERVER"])
        /\ Program("TEE_COMPUTE", prog["TEE_COMPUTE"])
    BY <1>1, <1>6, <2>1, KkrtClientProgram, KkrtServerProgram, IdleProgram
  <2>3. Starts
    BY <1>1, <1>6, <2>1, KkrtClientProgram, KkrtServerProgram, IdleProgram, KkrtStarts
  <2>4. QED BY <1>2, <1>6, <2>2, <2>3 DEF ProgInv
<1>7. CASE task.kind = "TEE"
  <2>1. /\ prog["CLIENT"] = PsiExecute("CLIENT") /\ prog["SERVER"] = PsiExecute("SERVER")
        /\ prog["TEE_COMPUTE"] = PsiExecute("TEE_COMPUTE")
    BY <1>3, <1>4, <1>7
  <2>2. /\ Program("CLIENT", prog["CLIENT"]) /\ Program("SERVER", prog["SERVER"])
        /\ Program("TEE_COMPUTE", prog["TEE_COMPUTE"])
    BY <1>1, <1>7, <2>1, TeeClientProgram, TeeServerProgram, TeeComputeProgram
  <2>3. Starts
    BY <1>1, <1>7, <2>1, TeeClientProgram, TeeServerProgram, TeeComputeProgram, TeeStarts
  <2>4. QED BY <1>2, <1>7, <2>2, <2>3 DEF ProgInv
<1>8. CASE task.kind = "PIR"
  <2>1. /\ prog["CLIENT"] = PirExecute("CLIENT") /\ prog["SERVER"] = PirExecute("SERVER")
        /\ prog["TEE_COMPUTE"] = Idle
    BY <1>3, <1>4, <1>8
  <2>2. /\ Program("CLIENT", prog["CLIENT"]) /\ Program("SERVER", prog["SERVER"])
        /\ Program("TEE_COMPUTE", prog["TEE_COMPUTE"])
    BY <2>1, PirClientProgram, PirServerProgram, IdleProgram
  <2>3. /\ Ahead(prog["CLIENT"]) = Loaded(PirClientSteps) \cup { Work("save", "fail") }
        /\ Ahead(prog["SERVER"]) = Loaded(PirServerSteps) \cup {}
        /\ Ahead(prog["TEE_COMPUTE"]) = {}
    BY <2>1, PirClientProgram, PirServerProgram, IdleProgram
  <2>4. /\ Starts /\ ToReceive(PirEnd) # {} /\ ToReceive(PirCount) # {}
        /\ 3 \in ToReceive(PirReply)
    BY <2>3, PirStarts
  <2>5. QED BY <1>2, <2>2, <2>3, <2>4 DEF ProgInv
<1>9. QED BY <1>1, <1>5, <1>6, <1>7, <1>8

LEMMA LinkStart ==
  ASSUME Init
  PROVE  LinkInv
<1>1. ProgInv /\ Starts
  BY StartLines
<1>2. \A a \in Addresses : queue[a] = <<>>
  BY DEF Init, Addresses
<1>3. Shape
  <2>1. \A a \in Addresses : queue[a] \in Seq({})
    BY <1>2, ChainEmpty DEF Chain
  <2>2. /\ prog = [p \in Parties |-> prog[p]] /\ status = [p \in Parties |-> status[p]]
        /\ queue = [a \in Addresses |-> queue[a]]
    BY DEF Init, Addresses
  <2>3. QED BY <2>1, <2>2 DEF Shape
<1>4. LineInv
  BY <1>1, <1>2 DEF LineInv, Starts
<1>5. QED BY <1>1, <1>3, <1>4 DEF LinkInv

LEMMA LinkNext ==
  ASSUME LinkInv, [Next]_vars
  PROVE  LinkInv'
<1>1. ASSUME NEW p \in Parties, PartyNext(p) \/ StepFails(p) \/ Killed(p) PROVE LinkInv'
  BY <1>1, SendKeeps, RecvKeeps, WorkKeeps, FinishKeeps, FailsKeeps DEF PartyNext
<1>2. CASE UNCHANGED vars \/ GenerateDb
  <2>1. UNCHANGED <<prog, queue, status>>
    BY <1>2 DEF vars, GenerateDb
  <2>2. QED BY <2>1 DEF LinkInv, Shape, ProgInv, LineInv, ToReceive, ToSend, Open
<1>3. QED BY <1>1, <1>2 DEF Next, Done

(* A party that receives finds the message its step was written for at the *)
(* head of the queue, although one key carries parameters, requests,       *)
(* responses and results: for any datasets and any failures.               *)
THEOREM RightMessage == Spec => []MessagesMatch
<1>1. Init => LinkInv
  BY LinkStart
<1>2. LinkInv /\ [Next]_vars => LinkInv'
  BY LinkNext
<1>3. LinkInv => MessagesMatch
  BY LinkMatches
<1>4. QED BY <1>1, <1>2, <1>3, PTL DEF Spec

-----------------------------------------------------------------------------
(* Keyword PIR.  A step is passed or it is not: nothing ends early.        *)
LEMMA PirRest ==
  ASSUME NEW p, NEW x, Program(p, x), x # Idle, PirProgram(x)
  PROVE  PirProgram(Rest(x))
<1>1. Ahead(x) = {First(x)} \cup Ahead(Rest(x)) /\ \A t \in Ahead(Rest(x)) : Follows(First(x), t)
  BY StepOn
<1>2. ASSUME NEW t \in Ahead(Rest(x)), Fetches(t) PROVE \E e \in Ahead(Rest(x)) : IsEnd(e)
  <2>1. PICK e \in Ahead(x) : IsEnd(e)
    BY <1>1, <1>2 DEF PirProgram
  <2>2. e # First(x)
    BY <1>1, <1>2, <2>1 DEF Follows
  <2>3. QED BY <1>1, <2>1, <2>2
<1>3. QED BY <1>1, <1>2 DEF PirProgram

(* What a step of party p may do to its program.                           *)
PirMoves(p) ==
  \/ UNCHANGED prog
  \/ prog' = [prog EXCEPT ![p] = Rest(prog[p])] /\ UNCHANGED status

LEMMA PirElse ==
  ASSUME LinkInv, PirInv, NEW p \in Parties, Busy(p), Else(p)
  PROVE  /\ PirMoves(p) /\ (prog' # prog => Now(p).else = "skip") /\ OnlyFails
         /\ Now(p).do = "recv" => prog' = prog
<1>1. /\ Now(p) \in Ahead(prog[p]) /\ After(p) = Rest(prog[p]) /\ PirProgram(prog[p])
  BY BusyProgram DEF LinkInv, PirInv
<1>2. Now(p).else # "leave" /\ (Now(p).do = "recv" => Now(p).else = "fail")
  BY <1>1 DEF PirProgram
<1>3. CASE Now(p).else = "skip"
  BY <1>1, <1>2, <1>3 DEF Else, Goto, PirMoves, OnlyFails
<1>4. CASE Now(p).else # "skip"
  <2>1. status' = [status EXCEPT ![p] = "failed"] /\ prog' = prog
    BY <1>2, <1>4 DEF Else
  <2>2. OnlyFails
    BY <2>1 DEF LinkInv, Shape, OnlyFails
  <2>3. QED BY <2>1, <2>2 DEF PirMoves
<1>5. QED BY <1>3, <1>4

(* The lines after it.                                                     *)
LEMMA PirOpen ==
  ASSUME LinkInv, NEW p \in Parties, Busy(p), PirMoves(p),
         NEW d \in {"send", "recv"}, NEW a \in Addresses
  PROVE  /\ Open(d, a)' \subseteq Open(d, a)
         /\ ~(Now(p).do = d /\ a = <<Now(p).node, Now(p).key>>) => Open(d, a)' = Open(d, a)
         /\ Now(p).do = d /\ a = <<Now(p).node, Now(p).key>> =>
              LET m == No(Now(p).key, Now(p).msg) IN
              /\ m \in Open(d, a) /\ \A v \in Open(d, a) : m <= v
              /\ prog' = [prog EXCEPT ![p] = Rest(prog[p])] => Open(d, a)' = Open(d, a) \ {m}
<1> DEFINE x == prog[p]
<1>1. Program(p, x) /\ x # Idle /\ Now(p) = First(x) /\ Shape
  BY BusyProgram DEF LinkInv
<1>2. PICK y \in {x, Rest(x)} : prog' = [prog EXCEPT ![p] = y] /\ (prog' = [prog EXCEPT ![p] = Rest(x)] => y = Rest(x))
  <2>1. CASE prog' = [prog EXCEPT ![p] = Rest(x)]
    BY <2>1
  <2>2. CASE prog' # [prog EXCEPT ![p] = Rest(x)]
    BY <1>1, <2>2 DEF PirMoves, Shape
  <2>3. QED BY <2>1, <2>2
<1> HIDE DEF x
<1>3. CASE First(x).do = d /\ a = <<First(x).node, First(x).key>>
  <2> DEFINE m == No(First(x).key, First(x).msg)
  <2>1. /\ m \in Open(d, a) /\ \A v \in Open(d, a) : m <= v
        /\ y = x => Open(d, a)' = Open(d, a)
        /\ y = Rest(x) => Open(d, a)' = Open(d, a) \ {m}
    BY <1>1, <1>2, <1>3, OpenMoves DEF x
  <2> HIDE DEF m
  <2>2. Open(d, a)' \subseteq Open(d, a)
    BY <1>2, <2>1
  <2>3. QED BY <1>1, <1>2, <1>3, <2>1, <2>2 DEF x, m
<1>4. CASE ~(First(x).do = d /\ a = <<First(x).node, First(x).key>>)
  <2>1. Open(d, a)' = Open(d, a)
    BY <1>1, <1>2, <1>4, OpenKept DEF x
  <2>2. QED BY <1>1, <1>4, <2>1 DEF x
<1>5. QED BY <1>3, <1>4

(* The programs after it.                                                  *)
LEMMA PirPrograms ==
  ASSUME LinkInv, PirInv, NEW p \in Parties, Busy(p), PirMoves(p), OnlyFails
  PROVE  /\ \A q \in Parties : PirProgram(prog'[q])
         /\ \A q \in Parties : status'[q] = "success" => prog'[q] = << <<>>, <<>> >>
<1>1. Program(p, prog[p]) /\ prog[p] # Idle /\ status[p] = "running" /\ Shape
  BY BusyProgram DEF LinkInv
<1>2. PirProgram(Rest(prog[p]))
  BY <1>1, PirRest DEF PirInv
<1>3. \A q \in Parties : prog'[q] = prog[q] \/ (q = p /\ prog'[q] = Rest(prog[p]))
  BY <1>1 DEF PirMoves, Shape
<1>4. \A q \in Parties : PirProgram(prog'[q])
  BY <1>2, <1>3 DEF PirInv
<1>5. \A q \in Parties : status'[q] = "success" => status[q] = "success" /\ q # p
  BY <1>1 DEF OnlyFails
<1>6. QED BY <1>3, <1>4, <1>5 DEF PirInv

LEMMA PirAddresses == {PirEnd, PirCount, PirReply} \subseteq Addresses
BY DEF PirEnd, PirCount, PirReply, Addresses, Parties, Providers, Keys

(* Nothing arrives and nothing is received.                                *)
LEMMA PirQuiet ==
  ASSUME BundleInv, OverInv, UNCHANGED <<queue, heard, packed>>,
         \A a \in Addresses : Open("recv", a)' = Open("recv", a) /\ Open("send", a)' \subseteq Open("send", a)
  PROVE  BundleInv' /\ OverInv'
<1>1. \A a \in {PirEnd, PirCount, PirReply} :
        /\ Open("recv", a)' = Open("recv", a) /\ Open("send", a)' \subseteq Open("send", a)
        /\ queue'[a] = queue[a]
  BY PirAddresses
<1>2. /\ ToReceive(PirEnd)' = ToReceive(PirEnd) /\ ToReceive(PirCount)' = ToReceive(PirCount)
      /\ ToReceive(PirReply)' = ToReceive(PirReply) /\ ToSend(PirEnd)' \subseteq ToSend(PirEnd)
      /\ ToSend(PirCount)' \subseteq ToSend(PirCount) /\ ToSend(PirReply)' \subseteq ToSend(PirReply)
  BY <1>1 DEF ToReceive, ToSend, PirEnd, PirCount, PirReply
<1>3. BundleInv'
  <2>1. Heard' = Heard
    BY DEF Heard
  <2>2. QED BY <1>2, <2>1 DEF BundleInv, Bundled, PirReply
<1>4. OverInv'
  <2>1. /\ ToReceive(PirReply)' # {} => 3 \in ToReceive(PirReply)'
        /\ ToReceive(PirEnd)' = {} => ToSend(PirEnd)' = {}
    BY <1>2 DEF OverInv
  <2>2. /\ ToReceive(PirCount)' = {} => ToSend(PirCount)' = {} /\ queue'[PirCount] = <<>>
        /\ ToReceive(PirReply)' = {} => ToSend(PirReply)' = {} /\ queue'[PirReply] = <<>>
    BY <1>1, <1>2 DEF OverInv
  <2>3. QED BY <2>1, <2>2 DEF OverInv, PirCount, PirReply
<1>5. QED BY <1>3, <1>4

LEMMA PirWorks ==
  ASSUME LinkInv, PirInv, NEW p \in Parties, StepWork(p) \/ StepFails(p)
  PROVE  PirInv'
<1>1. /\ Busy(p) /\ UNCHANGED <<queue, heard, packed>> /\ Now(p).do # "recv"
      /\ Else(p) \/ (Goto(p, After(p)) /\ Now(p).do = "work")
  <2>1. CASE StepWork(p)
    BY <2>1 DEF StepWork
  <2>2. CASE StepFails(p)
    <3>1. Busy(p) /\ UNCHANGED <<queue, heard, packed>> /\ Else(p)
      BY <2>2 DEF StepFails
    <3>2. Own(p, Now(p))
      BY <3>1, BusyProgram DEF LinkInv
    <3>3. Now(p).do # "recv"
      BY <2>2, <3>2 DEF StepFails, Own, Known
    <3>4. QED BY <3>1, <3>3
  <2>3. QED BY <2>1, <2>2
<1>2. PirMoves(p) /\ OnlyFails
  <2>1. CASE Else(p)
    BY <1>1, <2>1, PirElse
  <2>2. CASE Goto(p, After(p))
    BY <1>1, <2>2, BusyProgram DEF LinkInv, Goto, PirMoves, OnlyFails
  <2>3. QED BY <1>1, <2>1, <2>2
<1>3. \A a \in Addresses : Open("recv", a)' = Open("recv", a) /\ Open("send", a)' \subseteq Open("send", a)
  BY <1>1, <1>2, PirOpen
<1>4. BundleInv' /\ OverInv'
  BY <1>1, <1>3, PirQuiet DEF PirInv
<1>5. /\ \A q \in Parties : PirProgram(prog'[q])
      /\ \A q \in Parties : status'[q] = "success" => prog'[q] = << <<>>, <<>> >>
  BY <1>1, <1>2, PirPrograms
<1>6. QED BY <1>1, <1>4, <1>5 DEF PirInv

LEMMA PirStops ==
  ASSUME LinkInv, PirInv, NEW p \in Parties, Finish(p) \/ Killed(p), task.kind = "PIR"
  PROVE  PirInv'
<1>1. /\ UNCHANGED <<prog, queue, heard, packed>>
      /\ \/ status' = [status EXCEPT ![p] = "success"] /\ prog[p] = << <<>>, <<>> >>
         \/ status' = [status EXCEPT ![p] = "killed"]
  BY DEF Finish, Killed
<1>2. \A q \in Parties : status'[q] = "success" => prog'[q] = << <<>>, <<>> >>
  BY <1>1 DEF LinkInv, Shape, PirInv
<1>3. \A a \in Addresses : Open("recv", a)' = Open("recv", a) /\ Open("send", a)' \subseteq Open("send", a)
  BY <1>1 DEF Open
<1>4. BundleInv' /\ OverInv'
  BY <1>1, <1>3, PirQuiet DEF PirInv
<1>5. QED BY <1>1, <1>2, <1>4 DEF PirInv

(* The bundles of a message.                                               *)
LEMMA BodyBundles ==
  ASSUME NEW p, NEW m, NEW body \in Bodies(p, m)
  PROVE  /\ m = "package" => \E b \in Bundles \ packed : BundlesIn(body) = {b}
         /\ m \in {"params", "oprf"} => BundlesIn(body) = {}
<1>1. CASE m = "package"
  <2>1. PICK b \in Bundles \ packed : body = {<<"bundle", b, b>>} \cup Matches(b)
    BY <1>1 DEF Bodies
  <2>2. \A c \in Bundles : <<"bundle", c, c>> \notin Matches(b)
    BY DEF Matches
  <2>3. \A c \in Bundles : <<"bundle", c, c>> \in body <=> c = b
    BY <2>1, <2>2
  <2>4. BundlesIn(body) = {b}
    BY <2>3 DEF BundlesIn
  <2>5. QED BY <1>1, <2>4
<1>2. CASE m \in {"params", "oprf"}
  <2>1. body = {<<m, m>>}
    BY <1>2 DEF Bodies
  <2>2. \A c \in Bundles : <<"bundle", c, c>> # <<m, m>>
    OBVIOUS
  <2>3. QED BY <1>2, <2>1, <2>2 DEF BundlesIn
<1>3. QED BY <1>1, <1>2

LEMMA PirSends ==
  ASSUME LinkInv, PirInv, NEW p \in Parties, StepSend(p)
  PROVE  PirInv'
<1> DEFINE s == Now(p)
           a == <<s.node, s.key>>
           m == No(s.key, s.msg)
           sent(body) == IF s.msg = "package" THEN BundlesIn(body) ELSE {}
<1>1. PICK body \in Bodies(p, s.msg) :
        /\ queue' = [queue EXCEPT ![a] = Append(@, [msg |-> s.msg, body |-> body])]
        /\ packed' = packed \cup sent(body)
        /\ IF s.msg = "package" /\ packed \cup sent(body) # Bundles
           THEN UNCHANGED <<prog, status>> ELSE Goto(p, After(p))
  BY DEF StepSend
<1>2. Busy(p) /\ s.do = "send" /\ heard' = heard
  BY DEF StepSend
<1>3. After(p) = Rest(prog[p]) /\ Own(p, s)
  BY <1>2, BusyProgram DEF LinkInv
<1>4. Known(s.node, s.key, s.msg)
  BY <1>2, <1>3 DEF Own
<1>5. a \in Addresses
  BY <1>2, <1>3, AddressOf
<1>6. PirMoves(p) /\ OnlyFails
  BY <1>1, <1>3 DEF Goto, PirMoves, OnlyFails
<1>7. \A b \in Addresses : /\ Open("recv", b)' = Open("recv", b)
                           /\ Open("send", b)' \subseteq Open("send", b)
                           /\ b # a => Open("send", b)' = Open("send", b)
  BY <1>2, <1>6, PirOpen
<1>8. \A b \in {a} : /\ m \in Open("send", b)
                     /\ Goto(p, After(p)) => Open("send", b)' = Open("send", b) \ {m}
  BY <1>2, <1>3, <1>5, <1>6, PirOpen DEF Goto
<1>9. Shape
  BY DEF LinkInv
<1>10. s.msg = "package" => a = PirReply /\ m = 3
  BY <1>4 DEF Known, No, PirReply
<1>11. a = PirReply => s.msg \in {"package", "params", "oprf"}
  BY <1>4 DEF Known, PirReply, Response
<1> HIDE DEF s, a, m
<1>12. \A b \in Addresses : b # a => queue'[b] = queue[b]
  BY <1>1, <1>9 DEF Shape
<1>13. queue'[a] = Append(queue[a], [msg |-> s.msg, body |-> body])
  BY <1>1, <1>5, <1>9 DEF Shape
<1>14. Heard' = Heard
  BY <1>2 DEF Heard
<1>15. ToReceive(PirReply)' = ToReceive(PirReply) /\ ToSend(PirReply)' \subseteq ToSend(PirReply)
  <2>1. \A b \in {PirReply} : Open("recv", b)' = Open("recv", b) /\ Open("send", b)' \subseteq Open("send", b)
    BY <1>7, PirAddresses
  <2>2. QED BY <2>1 DEF ToReceive, ToSend, PirReply
<1>16. /\ Heard \subseteq packed /\ packed \subseteq Bundles
       /\ \A i \in DOMAIN queue[PirReply] : Bundled(queue[PirReply][i], packed \ Heard)
       /\ \A i, j \in DOMAIN queue[PirReply] :
            i # j => BundlesIn(queue[PirReply][i].body) \cap BundlesIn(queue[PirReply][j].body) = {}
       /\ packed = Bundles => 3 \notin ToSend(PirReply)
  BY DEF PirInv, BundleInv
<1>17. BundleInv'
  <2>1. CASE a # PirReply
    <3>1. s.msg # "package" /\ packed' = packed
      BY <1>1, <1>10, <2>1
    <3>2. queue'[PirReply] = queue[PirReply]
      BY <1>12, <2>1, PirAddresses
    <3>3. QED BY <1>14, <1>15, <1>16, <3>1, <3>2 DEF BundleInv
  <2>2. CASE a = PirReply
    <3> DEFINE e == [msg |-> s.msg, body |-> body]
               q == queue[PirReply]
               w == queue'[PirReply]
    <3>1. /\ Len(q) \in Nat /\ DOMAIN q = 1..Len(q) /\ DOMAIN w = 1..(Len(q) + 1)
          /\ (\A i \in 1..Len(q) : w[i] = q[i]) /\ w[Len(q) + 1] = e
      <4>1. PICK S : q \in Seq(S)
        BY <1>9, PirAddresses DEF Shape
      <4>2. q \in Seq(S \cup {e}) /\ e \in S \cup {e} /\ w = Append(q, e)
        BY <1>13, <2>2, <4>1, SeqMonotonic
      <4> HIDE DEF e, q, w
      <4>3. w \in Seq(S \cup {e}) /\ Len(w) = Len(q) + 1
            /\ (\A i \in 1..Len(q) : w[i] = q[i]) /\ w[Len(q) + 1] = e
        BY <4>2, AppendProperties
      <4>4. QED BY <4>2, <4>3, LenProperties
    <3>2. e.msg = s.msg /\ e.body = body
      OBVIOUS
    <3> HIDE DEF e, q, w
    <3>3. /\ \A i \in DOMAIN q : Bundled(q[i], packed \ Heard)
          /\ \A i, j \in DOMAIN q : i # j => BundlesIn(q[i].body) \cap BundlesIn(q[j].body) = {}
      BY <1>16 DEF q
    <3>4. packed \subseteq packed'
      BY <1>1
    <3>5. \A i \in DOMAIN q : BundlesIn(q[i].body) \subseteq packed
      BY <3>3 DEF Bundled
    <3>6. \A i \in DOMAIN q : Bundled(q[i], packed' \ Heard)
      BY <3>3, <3>4 DEF Bundled
    <3>7. /\ BundlesIn(body) \cap packed = {} /\ Bundled(e, packed' \ Heard)
          /\ packed' = Bundles => 3 \notin ToSend(PirReply)'
      <4>1. CASE s.msg = "package"
        <5>1. PICK b \in Bundles \ packed : BundlesIn(body) = {b}
          BY <1>1, <4>1, BodyBundles
        <5>2. packed' = packed \cup {b} /\ b \notin Heard
          BY <1>1, <1>16, <4>1, <5>1
        <5>3. Bundled(e, packed' \ Heard)
          BY <3>2, <4>1, <5>1, <5>2 DEF Bundled
        <5>4. ASSUME packed' = Bundles PROVE 3 \notin ToSend(PirReply)'
          <6>1. Goto(p, After(p))
            BY <1>1, <5>4
          <6>2. \A c \in {PirReply} : 3 \notin Open("send", c)'
            BY <1>8, <1>10, <2>2, <4>1, <6>1
          <6>3. QED BY <6>2 DEF ToSend, PirReply
        <5>5. QED BY <5>1, <5>3, <5>4
      <4>2. CASE s.msg # "package"
        <5>1. BundlesIn(body) = {} /\ packed' = packed
          BY <1>1, <1>11, <2>2, <4>2, BodyBundles
        <5>2. Bundled(e, packed' \ Heard)
          BY <3>2, <4>2, <5>1 DEF Bundled
        <5>3. QED BY <1>15, <1>16, <5>1, <5>2
      <4>3. QED BY <4>1, <4>2
    <3>8. ASSUME NEW i \in DOMAIN w PROVE Bundled(w[i], packed' \ Heard)
      <4>1. CASE i \in 1..Len(q)
        BY <3>1, <3>6, <4>1
      <4>2. CASE i = Len(q) + 1
        BY <3>1, <3>7, <4>2
      <4>3. QED BY <3>1, <4>1, <4>2
    <3>9. ASSUME NEW i \in DOMAIN w, NEW j \in DOMAIN w, i # j
          PROVE  BundlesIn(w[i].body) \cap BundlesIn(w[j].body) = {}
      <4>1. CASE i \in 1..Len(q) /\ j \in 1..Len(q)
        BY <3>1, <3>3, <3>9, <4>1
      <4>2. CASE i \in 1..Len(q) /\ j = Len(q) + 1
        BY <3>1, <3>2, <3>5, <3>7, <4>2
      <4>3. CASE i = Len(q) + 1 /\ j \in 1..Len(q)
        BY <3>1, <3>2, <3>5, <3>7, <4>3
      <4>4. QED BY <3>1, <3>9, <4>1, <4>2, <4>3
    <3>10. Heard \subseteq packed' /\ packed' \subseteq Bundles
      BY <1>1, <1>16, <3>4 DEF BundlesIn
    <3>11. QED BY <1>14, <3>7, <3>8, <3>9, <3>10 DEF BundleInv, w
  <2>3. QED BY <2>1, <2>2
<1>18. OverInv'
  <2>1. ASSUME NEW c \in {PirEnd, PirCount, PirReply}
        PROVE  /\ Open("recv", c)' = Open("recv", c) /\ Open("send", c)' \subseteq Open("send", c)
               /\ Open("send", c) = {} => Open("send", c)' = {} /\ queue'[c] = queue[c]
    BY <1>7, <1>8, <1>12, PirAddresses
  <2>2. /\ ToReceive(PirReply)' # {} => 3 \in ToReceive(PirReply)'
        /\ ToReceive(PirEnd)' = {} => ToSend(PirEnd)' = {}
    BY <2>1 DEF PirInv, OverInv, ToReceive, ToSend, PirEnd, PirReply
  <2>3. \A c \in {PirCount, PirReply} : Open("recv", c) = {} => Open("send", c) = {} /\ queue[c] = <<>>
    BY DEF PirInv, OverInv, ToReceive, ToSend
  <2>4. \A c \in {PirCount, PirReply} : Open("recv", c)' = {} => Open("send", c)' = {} /\ queue'[c] = <<>>
    BY <2>1, <2>3
  <2>5. QED BY <2>2, <2>4 DEF OverInv, ToReceive, ToSend, PirCount, PirReply
<1>19. /\ \A c \in Parties : PirProgram(prog'[c])
       /\ \A c \in Parties : status'[c] = "success" => prog'[c] = << <<>>, <<>> >>
  BY <1>2, <1>6, PirPrograms
<1>20. QED BY <1>2, <1>17, <1>18, <1>19 DEF PirInv

(* Where there is one message only.                                        *)
LEMMA OneNumber ==
  ASSUME ProgInv, NEW a \in {PirEnd, PirCount}, NEW d \in {"send", "recv"}
  PROVE  /\ Open(d, a) \subseteq {1} /\ a \in Addresses
         /\ \A m : Known(a[1], a[2], m) => No(a[2], m) = 1
<1>1. \A m : Known(a[1], a[2], m) => No(a[2], m) = 1
  BY DEF Known, No, PirEnd, PirCount, Response
<1>2. a \in Addresses /\ Party(d, a) \in Parties
  BY PirAddresses DEF Party, Sender, Receiver, PirEnd, PirCount, Parties, Providers
<1>3. ASSUME NEW s \in Line(d, a, prog[Party(d, a)]) PROVE No(s.key, s.msg) = 1
  <2>1. Own(Party(d, a), s) /\ s.do = d /\ s.node = a[1] /\ s.key = a[2]
    BY <1>2, <1>3 DEF ProgInv, Program, Line
  <2>2. Known(s.node, s.key, s.msg)
    BY <2>1 DEF Own
  <2>3. QED BY <1>1, <2>1, <2>2
<1>4. QED BY <1>1, <1>2, <1>3 DEF Open, Nums

LEMMA BundlesUnion ==
  ASSUME NEW x, NEW y
  PROVE  BundlesIn(x \cup y) = BundlesIn(x) \cup BundlesIn(y)
BY DEF BundlesIn

(* The first message is taken away with its bundles.                       *)
Apart(q) == \A i, j \in DOMAIN q : i # j => BundlesIn(q[i].body) \cap BundlesIn(q[j].body) = {}

LEMMA TailBundles ==
  ASSUME NEW q, NEW S, q \in Seq(S), q # <<>>, NEW pending,
         \A i \in DOMAIN q : Bundled(q[i], pending), Apart(q)
  PROVE  /\ Bundled(Head(q), pending) /\ Apart(Tail(q))
         /\ \A i \in DOMAIN Tail(q) : Bundled(Tail(q)[i], pending \ BundlesIn(Head(q).body))
<1> DEFINE w == Tail(q)
<1>1. Len(q) \in Nat /\ DOMAIN q = 1..Len(q) /\ Len(q) >= 1
  BY LenProperties, EmptySeq
<1>2. Head(q) = q[1] /\ DOMAIN w = 1..(Len(q) - 1) /\ \A i \in 1..(Len(q) - 1) : w[i] = q[i + 1]
  BY HeadTailProperties, LenProperties
<1> HIDE DEF w
<1>3. \A i \in DOMAIN w : i + 1 \in DOMAIN q /\ i + 1 # 1 /\ w[i] = q[i + 1]
  BY <1>1, <1>2
<1>4. Apart(w)
  <2> SUFFICES ASSUME NEW i \in DOMAIN w, NEW j \in DOMAIN w, i # j
               PROVE  BundlesIn(w[i].body) \cap BundlesIn(w[j].body) = {}
    BY DEF Apart
  <2>1. i + 1 # j + 1
    BY <1>1, <1>2
  <2>2. QED BY <1>3, <2>1 DEF Apart
<1>5. ASSUME NEW i \in DOMAIN w PROVE Bundled(w[i], pending \ BundlesIn(q[1].body))
  <2>1. Bundled(w[i], pending) /\ BundlesIn(w[i].body) \cap BundlesIn(q[1].body) = {}
    <3>1. w[i] = q[i + 1] /\ i + 1 \in DOMAIN q /\ 1 \in DOMAIN q /\ i + 1 # 1
      BY <1>1, <1>3, <1>5
    <3>2. BundlesIn(q[i + 1].body) \cap BundlesIn(q[1].body) = {}
      BY <3>1 DEF Apart
    <3>3. QED BY <3>1, <3>2
  <2>2. QED BY <2>1 DEF Bundled
<1>6. Bundled(q[1], pending)
  BY <1>1
<1>7. QED BY <1>2, <1>4, <1>5, <1>6 DEF w

LEMMA NoDomain ==
  ASSUME NEW w, NEW S, w \in Seq(S), DOMAIN w = {}
  PROVE  w = <<>>
<1>1. Len(w) \in Nat /\ DOMAIN w = 1..Len(w)
  BY LenProperties
<1>2. Len(w) >= 1 => 1 \in DOMAIN w
  BY <1>1
<1>3. Len(w) = 0
  BY <1>1, <1>2
<1>4. QED BY <1>3, EmptySeq

LEMMA PirRecvs ==
  ASSUME LinkInv, PirInv, NEW p \in Parties, StepRecv(p)
  PROVE  PirInv'
<1> DEFINE s == Now(p)
           a == <<s.node, s.key>>
           m == No(s.key, s.msg)
           body == Head(queue[a]).body
           got == heard[p][s.key] \cup body
<1>1. /\ Busy(p) /\ s.do = "recv" /\ queue[a] # <<>>
      /\ queue' = [queue EXCEPT ![a] = Tail(@)] /\ packed' = packed
      /\ heard' = [heard EXCEPT ![p][s.key] = got]
      /\ \/ body = {} /\ Else(p)
         \/ s.msg = "package" /\ UNCHANGED <<prog, status>>
         \/ (s.msg = "package" => BundlesIn(got) = Bundles) /\ Goto(p, After(p))
  BY DEF StepRecv
<1>2. After(p) = Rest(prog[p]) /\ Own(p, s) /\ status[p] = "running"
  BY <1>1, BusyProgram DEF LinkInv
<1>3. Known(s.node, s.key, s.msg) /\ p = Receiver(s.node, s.key)
  BY <1>1, <1>2 DEF Own
<1>4. a \in Addresses /\ a[1] = s.node /\ a[2] = s.key
  BY <1>1, <1>2, AddressOf
<1>5. (s.key = Response => a = PirReply /\ p = "CLIENT") /\ (a = PirReply => s.key = Response)
  BY <1>3 DEF Known, Receiver, PirReply, Response
<1>6. PirMoves(p) /\ OnlyFails /\ (prog' = prog \/ ((s.msg = "package" => BundlesIn(got) = Bundles) /\ Goto(p, After(p))))
  <2>1. CASE body = {} /\ Else(p)
    BY <1>1, <2>1, PirElse
  <2>2. CASE s.msg = "package" /\ UNCHANGED <<prog, status>>
    BY <2>2 DEF PirMoves, OnlyFails
  <2>3. CASE (s.msg = "package" => BundlesIn(got) = Bundles) /\ Goto(p, After(p))
    BY <1>2, <2>3 DEF Goto, PirMoves, OnlyFails
  <2>4. QED BY <1>1, <2>1, <2>2, <2>3
<1>7. \A b \in Addresses : /\ Open("send", b)' = Open("send", b)
                           /\ b # a => Open("recv", b)' = Open("recv", b)
  BY <1>1, <1>6, PirOpen
<1>8. \A b \in {a} : /\ m \in Open("recv", b) /\ \A v \in Open("recv", b) : m <= v
                     /\ prog' = prog => Open("recv", b)' = Open("recv", b)
                     /\ Goto(p, After(p)) => Open("recv", b)' = Open("recv", b) \ {m}
  <2>1. \A b \in {a} : prog' = prog => Open("recv", b)' = Open("recv", b)
    BY DEF Open
  <2>2. \A b \in {a} : /\ m \in Open("recv", b) /\ \A v \in Open("recv", b) : m <= v
                       /\ Goto(p, After(p)) => Open("recv", b)' = Open("recv", b) \ {m}
    BY <1>1, <1>2, <1>4, <1>6, PirOpen DEF Goto
  <2>3. QED BY <2>1, <2>2
<1>9. Shape /\ ProgInv
  BY DEF LinkInv
<1>10. PICK S : queue[a] \in Seq(S)
  BY <1>4, <1>9 DEF Shape
<1>11. Fits(a, Open("recv", a), Open("send", a), queue[a])
  BY <1>2, <1>3, <1>4 DEF LinkInv, LineInv, ToReceive, ToSend
<1> HIDE DEF s, a, m, body, got
<1>12. (\A b \in Addresses : b # a => queue'[b] = queue[b]) /\ queue'[a] = Tail(queue[a])
  BY <1>1, <1>4, <1>9 DEF Shape
<1>13. Known(a[1], a[2], Head(queue[a]).msg) /\ No(a[2], Head(queue[a]).msg) = m
  <2>1. \A b \in {a} : m \in Open("recv", b) /\ \A v \in Open("recv", b) : m <= v
    BY <1>8
  <2>2. QED BY <1>1, <1>10, <1>11, <2>1, FitsHead, OpenNums
<1>14. /\ Behind(a, m, Tail(queue[a]))
       /\ Open("send", a) = {} \/ From(Open("send", a), Cap(a, m + Len(queue[a])))
  <2>1. \A b \in {a} : m \in Open("recv", b) /\ \A v \in Open("recv", b) : m <= v
    BY <1>8
  <2>2. QED BY <1>1, <1>10, <1>11, <2>1, FitsAfter, OpenNums

<1>15. /\ heard' = [q \in Parties |-> [k \in Keys |-> heard'[q][k]]]
       /\ a # PirReply => heard'["CLIENT"][Response] = heard["CLIENT"][Response]
       /\ a = PirReply => heard'["CLIENT"][Response] = heard["CLIENT"][Response] \cup body
  <2>1. /\ heard = [q \in Parties |-> [k \in Keys |-> heard[q][k]]] /\ s.key \in Keys
        /\ "CLIENT" \in Parties /\ Response \in Keys
    BY <1>4 DEF PirInv, Addresses, Parties, Providers, Keys
  <2>2. heard' = [q \in Parties |-> [k \in Keys |-> IF q = p /\ k = s.key THEN got ELSE heard[q][k]]]
    BY <1>1, <2>1
  <2>3. heard' = [q \in Parties |-> [k \in Keys |-> heard'[q][k]]]
    BY <2>2
  <2>4. a # PirReply => heard'["CLIENT"][Response] = heard["CLIENT"][Response]
    BY <1>5, <2>1, <2>2
  <2>5. a = PirReply => heard'["CLIENT"][Response] = heard["CLIENT"][Response] \cup body
    BY <1>5, <2>1, <2>2 DEF got
  <2>6. QED BY <2>3, <2>4, <2>5
<1>16. /\ a # PirReply => Heard' = Heard
       /\ a = PirReply => Heard' = Heard \cup BundlesIn(body)
       /\ a = PirReply => Heard' = BundlesIn(got)
  <2>1. a = PirReply => got = heard["CLIENT"][Response] \cup body
    BY <1>5 DEF got
  <2>2. QED BY <1>15, <2>1, BundlesUnion DEF Heard
<1>17. ToSend(PirEnd)' = ToSend(PirEnd) /\ ToSend(PirCount)' = ToSend(PirCount)
       /\ ToSend(PirReply)' = ToSend(PirReply)
  <2>1. \A b \in {PirEnd, PirCount, PirReply} : Open("send", b)' = Open("send", b)
    BY <1>7, PirAddresses
  <2>2. QED BY <2>1 DEF ToSend, PirEnd, PirCount, PirReply
<1>18. /\ Heard \subseteq packed /\ packed \subseteq Bundles
       /\ \A i \in DOMAIN queue[PirReply] : Bundled(queue[PirReply][i], packed \ Heard)
       /\ Apart(queue[PirReply])
       /\ packed = Bundles => 3 \notin ToSend(PirReply)
  BY DEF PirInv, BundleInv, Apart
<1>19. a = PirReply =>
         /\ Bundled(Head(queue[a]), packed \ Heard) /\ Apart(Tail(queue[a]))
         /\ \A i \in DOMAIN Tail(queue[a]) : Bundled(Tail(queue[a])[i], (packed \ Heard) \ BundlesIn(body))
  BY <1>1, <1>10, <1>18, TailBundles DEF body
<1>20. BundleInv'
  <2>1. CASE a # PirReply
    <3>1. queue'[PirReply] = queue[PirReply] /\ Heard' = Heard
      BY <1>12, <1>16, <2>1, PirAddresses
    <3>2. QED BY <1>1, <1>17, <1>18, <3>1 DEF BundleInv, Apart
  <2>2. CASE a = PirReply
    <3>1. BundlesIn(body) \subseteq packed
      BY <1>19, <2>2 DEF Bundled, body
    <3>2. Heard' \subseteq packed' /\ packed' \ Heard' = (packed \ Heard) \ BundlesIn(body)
      BY <1>1, <1>16, <1>18, <2>2, <3>1
    <3>3. queue'[PirReply] = Tail(queue[a])
      BY <1>12, <2>2
    <3>4. \A i \in DOMAIN queue'[PirReply] : Bundled(queue'[PirReply][i], packed' \ Heard')
      BY <1>19, <2>2, <3>2, <3>3
    <3>5. Apart(queue'[PirReply])
      BY <1>19, <2>2, <3>3
    <3>6. QED BY <1>1, <1>17, <1>18, <3>2, <3>4, <3>5 DEF BundleInv, Apart
  <2>3. QED BY <2>1, <2>2
<1>21. /\ Len(queue[a]) \in Nat /\ Len(queue[a]) >= 1 /\ Tail(queue[a]) \in Seq(S)
       /\ \A i \in DOMAIN Tail(queue[a]) : i \in Nat /\ i >= 1
  <2>1. Len(queue[a]) \in Nat /\ Len(queue[a]) >= 1 /\ Tail(queue[a]) \in Seq(S)
    BY <1>1, <1>10, LenProperties, EmptySeq, HeadTailProperties
  <2>2. DOMAIN Tail(queue[a]) = 1..Len(Tail(queue[a])) /\ Len(Tail(queue[a])) \in Nat
    BY <2>1, LenProperties
  <2>3. QED BY <2>1, <2>2
<1>22. ASSUME a \in {PirEnd, PirCount} PROVE Open("send", a) = {} /\ Tail(queue[a]) = <<>>
  <2>1. /\ Open("send", a) \subseteq {1} /\ a[2] # Response
        /\ \A x : Known(a[1], a[2], x) => No(a[2], x) = 1
    BY <1>9, <1>22, OneNumber DEF PirEnd, PirCount, Response
  <2>2. m = 1
    BY <1>13, <2>1
  <2>3. \A v : Cap(a, v) = v
    BY <2>1 DEF Cap
  <2>4. Open("send", a) = {}
    <3>1. Open("send", a) # {} => m + Len(queue[a]) \in Open("send", a)
      BY <1>14, <2>3 DEF From
    <3>2. QED BY <1>21, <2>1, <2>2, <3>1
  <2>5. ASSUME NEW i \in DOMAIN Tail(queue[a]) PROVE FALSE
    <3>1. 1 = m + i
      BY <1>14, <2>1, <2>3, <2>5 DEF Behind
    <3>2. QED BY <1>21, <2>2, <2>5, <3>1
  <2>6. QED BY <1>21, <2>4, <2>5, NoDomain
<1>23. ASSUME a = PirReply, m = 3, s.msg = "package" => BundlesIn(got) = Bundles
       PROVE  Open("send", a) = {} /\ Tail(queue[a]) = <<>>
  <2>1. a[1] = "SERVER" /\ a[2] = Response
    BY <1>23 DEF PirReply
  <2>2. \A x : Known(a[1], a[2], x) /\ No(a[2], x) = 3 => x = "package"
    BY <2>1 DEF Known, No, Response
  <2>3. s.msg = "package"
    BY <1>3, <1>4, <1>23, <2>2 DEF m
  <2>4. Heard' = Bundles /\ packed = Bundles
    BY <1>1, <1>16, <1>18, <1>20, <1>23, <2>3 DEF BundleInv
  <2>5. \A b \in {a} : 3 \notin Open("send", b)
    BY <1>18, <1>23, <2>4 DEF ToSend
  <2>6. \A v \in Nat : v >= 1 => Cap(a, 3 + v) = 3
    BY <2>1 DEF Cap
  <2>7. Open("send", a) = {}
    BY <1>14, <1>21, <1>23, <2>5, <2>6 DEF From
  <2>8. (packed \ Heard) \ BundlesIn(body) = {}
    BY <1>16, <1>23, <2>4
  <2>9. ASSUME NEW i \in DOMAIN Tail(queue[a]) PROVE FALSE
    <3>1. Tail(queue[a])[i].msg = "package"
      BY <1>14, <1>21, <1>23, <2>2, <2>6, <2>9 DEF Behind
    <3>2. Bundled(Tail(queue[a])[i], {})
      BY <1>19, <1>23, <2>8, <2>9
    <3>3. QED BY <3>1, <3>2 DEF Bundled
  <2>10. QED BY <1>21, <2>7, <2>9, NoDomain
<1>24. \A b \in {a} : b = PirReply =>
         /\ Open("recv", b)' # {} => 3 \in Open("recv", b)'
         /\ Open("recv", b)' = {} => m = 3 /\ (s.msg = "package" => BundlesIn(got) = Bundles)
  <2> SUFFICES ASSUME NEW b, b = a, b = PirReply
               PROVE  /\ Open("recv", b)' # {} => 3 \in Open("recv", b)'
                      /\ Open("recv", b)' = {} => m = 3 /\ (s.msg = "package" => BundlesIn(got) = Bundles)
    OBVIOUS
  <2>1. m \in Open("recv", b) /\ (\A v \in Open("recv", b) : m <= v) /\ Open("recv", b) \in SUBSET (1..3)
    BY <1>8, OpenNums
  <2>2. 3 \in Open("recv", b)
    <3>1. ToReceive(PirReply) # {} => 3 \in ToReceive(PirReply)
      BY DEF PirInv, OverInv
    <3>2. QED BY <2>1, <3>1 DEF ToReceive
  <2>3. CASE prog' = prog
    BY <1>8, <2>2, <2>3
  <2>4. CASE (s.msg = "package" => BundlesIn(got) = Bundles) /\ Goto(p, After(p))
    <3>1. Open("recv", b)' = Open("recv", b) \ {m}
      BY <1>8, <2>4
    <3>2. m = 3 => Open("recv", b) \ {m} = {}
      BY <2>1
    <3>3. QED BY <2>1, <2>2, <2>4, <3>1, <3>2
  <2>5. QED BY <1>6, <2>3, <2>4
<1>25. OverInv'
  <2>1. \A c \in {PirEnd, PirCount, PirReply} : Open("send", c)' = Open("send", c)
    BY <1>7, PirAddresses
  <2>2. \A c \in {PirEnd, PirCount, PirReply} :
          c # a => Open("recv", c)' = Open("recv", c) /\ queue'[c] = queue[c]
    BY <1>7, <1>12, PirAddresses
  <2>3. /\ \A c \in {PirReply} : Open("recv", c) # {} => 3 \in Open("recv", c)
        /\ \A c \in {PirEnd} : Open("recv", c) = {} => Open("send", c) = {}
        /\ \A c \in {PirCount, PirReply} : Open("recv", c) = {} => Open("send", c) = {} /\ queue[c] = <<>>
    BY DEF PirInv, OverInv, ToReceive, ToSend
  <2>4. \A c \in {PirReply} : Open("recv", c)' # {} => 3 \in Open("recv", c)'
    BY <1>24, <2>2, <2>3
  <2>5. \A c \in {PirEnd} : Open("recv", c)' = {} => Open("send", c)' = {}
    <3>1. CASE a = PirEnd
      BY <1>22, <2>1, <3>1
    <3>2. CASE a # PirEnd
      BY <2>1, <2>2, <2>3, <3>2
    <3>3. QED BY <3>1, <3>2
  <2>6. ASSUME NEW c \in {PirCount, PirReply}, Open("recv", c)' = {}
        PROVE  Open("send", c)' = {} /\ queue'[c] = <<>>
    <3>1. CASE c # a
      BY <2>1, <2>2, <2>3, <2>6, <3>1
    <3>2. CASE c = a /\ c = PirCount
      BY <1>12, <1>22, <2>1, <3>2
    <3>3. CASE c = a /\ c = PirReply
      BY <1>12, <1>23, <1>24, <2>1, <2>6, <3>3
    <3>4. QED BY <3>1, <3>2, <3>3
  <2>7. QED BY <2>4, <2>5, <2>6 DEF OverInv, ToReceive, ToSend, PirEnd, PirCount, PirReply
<1>26. /\ \A c \in Parties : PirProgram(prog'[c])
       /\ \A c \in Parties : status'[c] = "success" => prog'[c] = << <<>>, <<>> >>
  BY <1>1, <1>6, PirPrograms
<1>27. QED BY <1>15, <1>20, <1>25, <1>26 DEF PirInv

LEMMA PirStart ==
  ASSUME Init, task.kind = "PIR"
  PROVE  PirInv
<1>1. /\ ToReceive(PirEnd) # {} /\ ToReceive(PirCount) # {} /\ 3 \in ToReceive(PirReply)
      /\ Ahead(prog["CLIENT"]) = Loaded(PirClientSteps) \cup { Work("save", "fail") }
      /\ Ahead(prog["SERVER"]) = Loaded(PirServerSteps) \cup {}
      /\ Ahead(prog["TEE_COMPUTE"]) = {}
  BY StartLines
<1>2. /\ heard = [p \in Parties |-> [k \in Keys |-> {}]] /\ packed = {}
      /\ \A a \in Addresses : queue[a] = <<>>
  BY DEF Init, Addresses
<1>3. \A p \in Parties : PirProgram(prog[p])
  <2>1. PirProgram(prog["CLIENT"])
    <3>1. Send("SERVER", "pir_task_end", "end", "fail") \in Ahead(prog["CLIENT"])
      BY <1>1 DEF Loaded, PirClientSteps
    <3>2. IsEnd(Send("SERVER", "pir_task_end", "end", "fail"))
      BY StepFields DEF IsEnd
    <3>3. \A s \in Ahead(prog["CLIENT"]) : s.else = "fail"
      BY <1>1, StepFields DEF Loaded, PirClientSteps
    <3>4. QED BY <3>1, <3>2, <3>3 DEF PirProgram
  <2>2. PirProgram(prog["SERVER"])
    <3>1. \A s \in Ahead(prog["SERVER"]) :
            s.else # "leave" /\ (s.do = "recv" => s.else = "fail") /\ ~Fetches(s)
      BY <1>1, StepFields DEF Loaded, PirServerSteps, Fetches, Response
    <3>2. QED BY <3>1 DEF PirProgram
  <2>3. PirProgram(prog["TEE_COMPUTE"])
    BY <1>1 DEF PirProgram
  <2>4. QED BY <2>1, <2>2, <2>3 DEF Parties, Providers
<1>4. \A p \in Parties : status[p] = "success" => prog[p] = << <<>>, <<>> >>
  BY DEF Init, Members
<1>5. queue[PirReply] = <<>> /\ DOMAIN queue[PirReply] = {}
  BY <1>2, PirAddresses
<1>6. Heard = {}
  BY <1>2 DEF Heard, BundlesIn, Parties, Providers, Keys
<1>7. BundleInv
  BY <1>2, <1>5, <1>6 DEF BundleInv, Bundles
<1>8. OverInv
  BY <1>1 DEF OverInv
<1>9. QED BY <1>2, <1>3, <1>4, <1>7, <1>8 DEF PirInv

LEMMA PirNext ==
  ASSUME LinkInv, PirInv, task.kind = "PIR", [Next]_vars
  PROVE  PirInv'
<1>1. ASSUME NEW p \in Parties, PartyNext(p) \/ StepFails(p) \/ Killed(p) PROVE PirInv'
  BY <1>1, PirSends, PirRecvs, PirWorks, PirStops DEF PartyNext
<1>2. CASE UNCHANGED vars \/ GenerateDb
  <2>1. UNCHANGED <<prog, queue, status, heard, packed>>
    BY <1>2 DEF vars, GenerateDb
  <2>2. BundleInv' /\ OverInv'
    BY <2>1, PirQuiet DEF PirInv, Open
  <2>3. QED BY <2>1, <2>2 DEF PirInv
<1>3. QED BY <1>1, <1>2 DEF Next, Done

LEMMA TaskKept ==
  ASSUME [Next]_vars
  PROVE  task' = task
BY DEF Next, Done, GenerateDb, PartyNext, StepSend, StepRecv, StepWork, StepFails, Finish, Killed, vars

(* A server that has ended has received the end of its client, and the     *)
(* client sends it when it has nothing more to fetch.                      *)
LEMMA PirOutlives ==
  ASSUME LinkInv, PirInv, status["SERVER"] = "success"
  PROVE  queue[PirReply] = <<>> /\ queue[PirCount] = <<>>
<1>1. prog["SERVER"] = Idle /\ Ahead(Idle) = {}
  BY IdleProgram DEF PirInv, Idle, Parties, Providers
<1>2. /\ Party("recv", PirEnd) = "SERVER" /\ Party("send", PirEnd) = "CLIENT"
      /\ Party("recv", PirReply) = "CLIENT" /\ Party("recv", PirCount) = "CLIENT"
  BY DEF Party, Receiver, Sender, Providers, PirEnd, PirReply, PirCount, Response
<1>3. ToSend(PirEnd) = {}
  <2>1. ToReceive(PirEnd) = {}
    BY <1>1, <1>2 DEF ToReceive, Open, Nums, Line
  <2>2. QED BY <2>1 DEF PirInv, OverInv
<1>4. ASSUME NEW s \in Ahead(prog["CLIENT"]), IsEnd(s) PROVE FALSE
  <2>1. Own("CLIENT", s)
    BY <1>4 DEF LinkInv, ProgInv, Program, Parties, Providers
  <2>2. Known(s.node, s.key, s.msg) /\ s.do = "send" /\ s.key = "pir_task_end"
    BY <1>4, <2>1 DEF Own, IsEnd
  <2>3. s.node = "SERVER"
    BY <2>2 DEF Known, Response
  <2>4. s \in Line("send", PirEnd, prog["CLIENT"])
    BY <1>4, <2>2, <2>3 DEF Line, PirEnd
  <2>5. No(s.key, s.msg) \in ToSend(PirEnd)
    BY <1>2, <2>4 DEF ToSend, Open, Nums
  <2>6. QED BY <1>3, <2>5
<1>5. \A s \in Ahead(prog["CLIENT"]) : ~Fetches(s)
  <2>1. PirProgram(prog["CLIENT"])
    BY DEF PirInv, Parties, Providers
  <2>2. QED BY <1>4, <2>1 DEF PirProgram
<1>6. ToReceive(PirReply) = {} /\ ToReceive(PirCount) = {}
  BY <1>2, <1>5 DEF ToReceive, Open, Nums, Line, Fetches, PirReply, PirCount
<1>7. QED BY <1>6 DEF PirInv, OverInv

(* The PIR server does not end before its client has fetched every         *)
(* response and the number of packages, whatever fails, and in whatever    *)
(* order the bundles are sent: the client's last message is sent after the *)
(* last package is received, and no package is stored twice.               *)
THEOREM ServerStays == Spec => []ServerOutlivesClient
<1> DEFINE Inv == LinkInv /\ (task.kind = "PIR" => PirInv)
<1>1. Init => Inv
  BY LinkStart, PirStart
<1>2. Inv /\ [Next]_vars => Inv'
  <2> SUFFICES ASSUME Inv, [Next]_vars PROVE Inv'
    OBVIOUS
  <2>1. LinkInv'
    BY LinkNext
  <2>2. task' = task
    BY TaskKept
  <2>3. task.kind = "PIR" => PirInv'
    BY PirNext
  <2>4. QED BY <2>1, <2>2, <2>3
<1>3. Inv => ServerOutlivesClient
  BY PirOutlives DEF ServerOutlivesClient, PirReply, PirCount
<1>4. QED BY <1>1, <1>2, <1>3, PTL DEF Spec
=============================================================================
