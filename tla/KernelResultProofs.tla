------------------------- MODULE KernelResultProofs -------------------------
(***************************************************************************)
(* The theorem about the results of KernelTasks: what a client saves is    *)
(* the intersection, difference or labels of the datasets, for any items,  *)
(* datasets, database files and failures that are not hidden.              *)
(***************************************************************************)
EXTENDS KernelTasksProofs, FiniteSetTheorems, NaturalsInduction, WellFoundedInduction

-----------------------------------------------------------------------------
(* What the parties work on, and what they should come to.                 *)
Set(p) == ToSet(LoadDataset(p))
Common == Set("CLIENT") \cap Set("SERVER")

(* The elements in the reply to the client of a PSI, and its answer.       *)
Reply == IF task.kind = "TEE" THEN Common ELSE Set("SERVER")
Found(rows) == { i \in DOMAIN rows : rows[i] \in Reply }
Answer ==
  IF task.kind = "ECDH" THEN EcdhGetIntersection(LoadDataset("CLIENT"), Reply)
  ELSE IF task.kind = "KKRT" THEN GetResult(LoadDataset("CLIENT"), Found(LoadDataset("CLIENT")))
  ELSE TeeGetIntersection(LoadDataset("CLIENT"), Reply)

(* Keyword PIR: the keywords in the server's database, the matches of a    *)
(* bundle, and the client's answer.                                        *)
Shared      == Set("CLIENT") \cap ToSet(db)
Label(k)    == Join(LabelsOf(db, k))
Matched(n)  == { <<k, Label(k)>> : k \in { i \in Shared : BundleOf(i) = n } }
Package(n)  == {<<"bundle", n, n>>} \cup Matched(n)
Pairs(S)    == { x \in S : x[1] \in Items }
PirAnswer   == { <<k, Split(Label(k))>> : k \in Shared }

(* The steps of party p, and the names of those it has before it.          *)
PsiSteps(p) ==
  IF p = "CLIENT"
  THEN IF task.kind = "ECDH" THEN Checked(EcdhClientSteps)
       ELSE IF task.kind = "KKRT" THEN Checked(KkrtRecvSteps) ELSE Checked(ProviderClientSteps)
  ELSE IF p = "SERVER"
  THEN IF task.kind = "ECDH" THEN Checked(EcdhServerSteps)
       ELSE IF task.kind = "KKRT" THEN Checked(KkrtSendSteps) ELSE Checked(ProviderServerSteps)
  ELSE IF task.kind = "TEE" THEN Loaded(ExecuteAsComputeSteps) ELSE {}
PirSteps(p) ==
  IF p = "CLIENT" THEN Loaded(PirClientSteps) \cup { Work("save", "fail") }
  ELSE IF p = "SERVER" THEN Loaded(PirServerSteps) ELSE {}
Full(p) == IF task.kind = "PIR" THEN PirSteps(p) ELSE PsiSteps(p) \cup RestSteps(p)

Todo(p)     == { s.msg : s \in Ahead(prog[p]) }
Ready       == "make_db" \notin Todo("SERVER")
Fetching(k) == \E s \in Ahead(prog["TEE_COMPUTE"]) : s.msg = "data" /\ s.key = k

-----------------------------------------------------------------------------
(* The request and the datasets.                                           *)
RequestInv ==
  /\ task.kind \in {"ECDH", "KKRT", "TEE", "PIR"}
  /\ task.sync \in BOOLEAN /\ task.difference \in BOOLEAN /\ task.unique \in BOOLEAN
  /\ \A p \in Providers \cup {"CACHE"} : input[p] \in Seq(Items)
  /\ task.kind = "PIR" => ~task.sync /\ ~task.unique /\ input["SERVER"] # <<>>

FrameInv ==
  /\ elements = [p \in Parties |-> elements[p]] /\ result = [p \in Parties |-> result[p]]
  /\ heard = [p \in Parties |-> [k \in Keys |-> heard[p][k]]]
  /\ \A p \in Parties : Ahead(prog[p]) \subseteq Full(p)
  /\ \A p \in Parties : status[p] = "success" => prog[p] = Idle
  /\ \A p \in Providers : elements[p] \in {<<>>, LoadDataset(p)}
  /\ cache \in {input["CACHE"], input["SERVER"]}

(* Nothing was passed over so far.                                         *)
Clean == ~hidden /\ ~Stopped

(* What a message holds.                                                   *)
Right(k, m) ==
  /\ m.msg = "response" => m.body \cap Items = Reply /\ m.body # {}
  /\ m.msg = "data" => m.body = Set(k) /\ m.body # {}
  /\ m.msg = "query" => m.body = Set("CLIENT")
  /\ m.msg = "package" => \E n \in Bundles : m.body = Package(n)
  /\ m.msg \in Marks => m.body \subseteq {<<m.msg, m.msg>>}

(* What a party has loaded, stored, heard and found out once the step for  *)
(* it is behind it.                                                        *)
LoadInv == \A p \in Providers :
  /\ "load" \notin Todo(p) => elements[p] = LoadDataset(p) \/ (p = "SERVER" /\ use_cache)
  /\ task.kind # "PIR" /\ "not_empty" \notin Todo(p) => Set(p) # {}
QueueInv == \A a \in Addresses : \A i \in DOMAIN queue[a] : Right(a[2], queue[a][i])
HeardItems == (UNION { heard["CLIENT"][k] : k \in Keys }) \cap Items
PsiHeardInv == task.kind # "PIR" =>
  /\ HeardItems \subseteq Reply
  /\ "response" \notin Todo("CLIENT") => HeardItems = Reply
TeeHeardInv == task.kind = "TEE" => \A k \in Providers :
  /\ heard["TEE_COMPUTE"][k] \subseteq Set(k)
  /\ ~Fetching(k) => heard["TEE_COMPUTE"][k] = Set(k)
QueryInv == task.kind = "PIR" =>
  /\ heard["SERVER"]["pir_key"] \cap Items \subseteq Set("CLIENT")
  /\ "query" \notin Todo("SERVER") => heard["SERVER"]["pir_key"] \cap Items = Set("CLIENT")
PackageInv == task.kind = "PIR" =>
  /\ Pairs(heard["CLIENT"][Response]) = UNION { Matched(n) : n \in Heard }
  /\ "package" \notin Todo("CLIENT") => Heard = Bundles
AnswerInv ==
  /\ task.kind = "TEE" /\ "compute" \notin Todo("TEE_COMPUTE") => result["TEE_COMPUTE"] = SetToSeq(Common)
  /\ task.kind # "PIR" /\ "intersect" \notin Todo("CLIENT") => result["CLIENT"] = Answer
  /\ task.kind = "PIR" /\ "extract" \notin Todo("CLIENT") =>
       result["CLIENT"] = SetToSeq(PirAnswer) /\ "package" \notin Todo("CLIENT")

(* The server has its database before it sends anything made from it.      *)
NoPackage == \A a \in Addresses : \A i \in DOMAIN queue[a] : queue[a][i].msg # "package"
DbInv == task.kind = "PIR" =>
  /\ Ready => db \in Served
  /\ ~Ready => Heard = {} /\ NoPackage

CleanInv == /\ LoadInv /\ QueueInv /\ PsiHeardInv /\ TeeHeardInv /\ QueryInv /\ PackageInv
            /\ AnswerInv /\ DbInv

(* An enclave that failed has failed to load, and the client has nothing   *)
(* of it.                                                                  *)
EnclaveInv == task.kind = "TEE" =>
  /\ status["TEE_COMPUTE"] = "failed" => "load" \in Todo("TEE_COMPUTE")
  /\ "load" \in Todo("TEE_COMPUTE") =>
       /\ queue[<<"CLIENT", "result_id">>] = <<>> /\ result["CLIENT"] = <<>>
       /\ "intersect" \in Todo("CLIENT") => "response" \in Todo("CLIENT")

(* The result that the client sends to the server.                         *)
SyncInv == task.sync =>
  /\ IsFiniteSet(ToSet(result["CLIENT"]))
  /\ "result" \in Todo("SERVER") => result["SERVER"] = <<>>
  /\ \A i \in DOMAIN queue[<<"SERVER", "default">>] :
       LET m == queue[<<"SERVER", "default">>][i] IN
       m.msg = "result" => m.body = ToSet(result["CLIENT"]) /\ "intersect" \notin Todo("CLIENT")
  /\ "result" \notin Todo("SERVER") =>
       \/ status["CLIENT"] = "failed"
       \/ /\ ToSet(result["SERVER"]) = ToSet(result["CLIENT"])
          /\ \/ "intersect" \notin Todo("CLIENT")
             \/ task.kind = "TEE" /\ status["TEE_COMPUTE"] = "failed"

DataInv ==
  /\ RequestInv /\ FrameInv /\ EnclaveInv
  /\ (Clean => CleanInv) /\ (~hidden => SyncInv)

-----------------------------------------------------------------------------
(* Sequences and what is kept of them.  A set of natural numbers has a     *)
(* least element.                                                          *)
LEMMA LeastOf ==
  ASSUME NEW T, T \subseteq Nat, T # {}
  PROVE  \E n \in T : \A m \in T : n <= m
<1>1. \E x \in T : \A y \in T : <<y, x>> \notin OpToRel(<, Nat)
  BY NatLessThanWellFounded, WFMin, Zenon
<1>2. PICK x \in T : \A y \in T : <<y, x>> \notin OpToRel(<, Nat)
  BY <1>1
<1>3. \A y \in T : ~(y < x)
  BY <1>2 DEF OpToRel
<1>4. \A y \in T : x <= y
  BY <1>3
<1>5. QED BY <1>4

(* The recursive function of Kept exists: no length is the least for which *)
(* it does not.                                                            *)
Keeps(s, K, f, N) ==
  f = [n \in 0..N |-> IF n = 0 THEN <<>>
                      ELSE IF n \in K THEN Append(f[n - 1], s[n]) ELSE f[n - 1]]

LEMMA KeepsExists ==
  ASSUME NEW s, NEW K
  PROVE  \A N \in Nat : \E f : Keeps(s, K, f, N)
<1> DEFINE T == {N \in Nat : ~\E f : Keeps(s, K, f, N)}
<1> SUFFICES ASSUME T # {} PROVE FALSE
  OBVIOUS
<1>1. PICK N \in T : \A m \in T : N <= m
  BY LeastOf
<1>2. Keeps(s, K, [n \in 0..0 |-> <<>>], 0)
  BY DEF Keeps
<1>3. N # 0
  BY <1>2
<1>4. N - 1 \in Nat /\ N - 1 \notin T
  BY <1>1, <1>3
<1>5. PICK f : Keeps(s, K, f, N - 1)
  BY <1>4
<1> DEFINE last == IF N \in K THEN Append(f[N - 1], s[N]) ELSE f[N - 1]
           g == [n \in 0..N |-> IF n = N THEN last ELSE f[n]]
<1>6. Keeps(s, K, g, N)
  <2>1. \A n \in 0..(N - 1) : f[n] = IF n = 0 THEN <<>>
                                     ELSE IF n \in K THEN Append(f[n - 1], s[n]) ELSE f[n - 1]
    BY <1>5 DEF Keeps
  <2> HIDE DEF last
  <2>2. \A n \in 0..(N - 1) : g[n] = f[n]
    BY <1>4
  <2>3. g[N] = last
    BY <1>4
  <2>4. \A n \in 1..N : g[n - 1] = f[n - 1]
    BY <1>4, <2>2
  <2> HIDE DEF g
  <2>5. ASSUME NEW n \in 0..N
        PROVE  g[n] = IF n = 0 THEN <<>>
                      ELSE IF n \in K THEN Append(g[n - 1], s[n]) ELSE g[n - 1]
    <3>1. CASE n = N
      BY <1>3, <1>4, <2>3, <2>4, <3>1 DEF last
    <3>2. CASE n = 0
      BY <1>3, <1>4, <2>1, <2>2, <3>2
    <3>3. CASE n # N /\ n # 0
      <4>1. n \in 0..(N - 1) /\ n \in 1..N
        BY <1>4, <3>3
      <4>2. QED BY <2>1, <2>2, <2>4, <3>3, <4>1
    <3>4. QED BY <3>1, <3>2, <3>3
  <2>6. g = [n \in 0..N |-> g[n]]
    BY DEF g
  <2>7. QED BY <2>5, <2>6 DEF Keeps
<1>7. QED BY <1>6

(* What has been kept of the first n elements.                             *)
Runs(s, K, f) == /\ f[0] = <<>>
                 /\ \A n \in 1..Len(s) : f[n] = IF n \in K THEN Append(f[n - 1], s[n]) ELSE f[n - 1]

LEMMA KeptRuns ==
  ASSUME NEW S, NEW s \in Seq(S), NEW K
  PROVE  \E f : Runs(s, K, f) /\ Kept(s, K) = f[Len(s)]
<1>0. Len(s) \in Nat
  BY LenProperties
<1> DEFINE f == CHOOSE g : Keeps(s, K, g, Len(s))
<1>1. Kept(s, K) = f[Len(s)]
  BY DEF Kept, Keeps
<1>2. Keeps(s, K, f, Len(s))
  BY <1>0, KeepsExists
<1> HIDE DEF f
<1>3. \A n \in 0..Len(s) : f[n] = IF n = 0 THEN <<>>
                                 ELSE IF n \in K THEN Append(f[n - 1], s[n]) ELSE f[n - 1]
  BY <1>2 DEF Keeps
<1>4. Runs(s, K, f)
  BY <1>0, <1>3 DEF Runs
<1>5. QED BY <1>1, <1>4

(* Where x is in s, and where it is among the first n positions of K.      *)
Places(x, s) == { i \in DOMAIN s : s[i] = x }
Before(x, s, K, n) == { i \in K \cap (1..n) : s[i] = x }
Fair(x, S, s, K, y, n) ==
  /\ y \in Seq(S) /\ IsFiniteSet(Places(x, y)) /\ IsFiniteSet(Before(x, s, K, n))
  /\ Cardinality(Places(x, y)) = Cardinality(Before(x, s, K, n))

LEMMA NothingFair ==
  ASSUME NEW x, NEW S, NEW s, NEW K
  PROVE  Fair(x, S, s, K, <<>>, 0)
<1>1. Places(x, <<>>) = {}
  BY DEF Places
<1>2. Before(x, s, K, 0) = {}
  BY DEF Before
<1>3. <<>> \in Seq(S)
  OBVIOUS
<1>4. QED BY <1>1, <1>2, <1>3, FS_EmptySet DEF Fair

LEMMA NextFair ==
  ASSUME NEW x, NEW S, NEW s \in Seq(S), NEW K, NEW n \in 1..Len(s), NEW y,
         Fair(x, S, s, K, y, n - 1)
  PROVE  Fair(x, S, s, K, IF n \in K THEN Append(y, s[n]) ELSE y, n)
<1>0. /\ Len(s) \in Nat /\ n \in Nat /\ n - 1 \in Nat /\ 1..n = 1..(n - 1) \cup {n}
      /\ n \notin 1..(n - 1) /\ s[n] \in S
  BY LenProperties, ElementOfSeq
<1>1. /\ y \in Seq(S) /\ IsFiniteSet(Places(x, y)) /\ IsFiniteSet(Before(x, s, K, n - 1))
      /\ Cardinality(Places(x, y)) = Cardinality(Before(x, s, K, n - 1))
  BY DEF Fair
<1>2. CASE n \notin K
  <2>1. Before(x, s, K, n) = Before(x, s, K, n - 1)
    BY <1>0, <1>2 DEF Before
  <2>2. QED BY <1>1, <1>2, <2>1 DEF Fair
<1>3. CASE n \in K
  <2> DEFINE z == Append(y, s[n])
  <2>1. /\ z \in Seq(S) /\ Len(z) = Len(y) + 1 /\ Len(y) \in Nat /\ DOMAIN y = 1..Len(y)
        /\ \A i \in 1..Len(y) : z[i] = y[i]
        /\ z[Len(y) + 1] = s[n]
    BY <1>0, <1>1, AppendProperties, LenProperties
  <2>2. DOMAIN z = 1..(Len(y) + 1)
    BY <2>1, LenProperties
  <2> HIDE DEF z
  <2>3. DOMAIN z = DOMAIN y \cup {Len(y) + 1} /\ Len(y) + 1 \notin DOMAIN y
    BY <2>1, <2>2
  <2>4. CASE s[n] = x
    <3>1. Places(x, z) = Places(x, y) \cup {Len(y) + 1}
      BY <2>1, <2>3, <2>4 DEF Places
    <3>2. Before(x, s, K, n) = Before(x, s, K, n - 1) \cup {n}
      BY <1>0, <1>3, <2>4 DEF Before
    <3>3. Len(y) + 1 \notin Places(x, y) /\ n \notin Before(x, s, K, n - 1)
      BY <1>0, <2>3 DEF Places, Before
    <3>4. QED BY <1>1, <1>3, <2>1, <3>1, <3>2, <3>3, FS_AddElement DEF Fair, z
  <2>5. CASE s[n] # x
    <3>1. Places(x, z) = Places(x, y)
      BY <2>1, <2>3, <2>5 DEF Places
    <3>2. Before(x, s, K, n) = Before(x, s, K, n - 1)
      BY <1>0, <1>3, <2>5 DEF Before
    <3>3. QED BY <1>1, <1>3, <2>1, <3>1, <3>2 DEF Fair, z
  <2>6. QED BY <2>4, <2>5
<1>4. QED BY <1>2, <1>3

(* What is kept, and how often.                                            *)
LEMMA KeptCounts ==
  ASSUME NEW S, NEW s \in Seq(S), NEW K, NEW x
  PROVE  /\ Kept(s, K) \in Seq(S) /\ IsFiniteSet(Places(x, Kept(s, K)))
         /\ IsFiniteSet(Before(x, s, K, Len(s)))
         /\ Count(x, Kept(s, K)) = Cardinality(Before(x, s, K, Len(s)))
<1>0. Len(s) \in Nat
  BY LenProperties
<1>1. PICK f : Runs(s, K, f) /\ Kept(s, K) = f[Len(s)]
  BY KeptRuns
<1>2. \A n \in 0..Len(s) : Fair(x, S, s, K, f[n], n)
  <2> DEFINE T == {n \in 0..Len(s) : ~Fair(x, S, s, K, f[n], n)}
  <2> SUFFICES ASSUME T # {} PROVE FALSE
    OBVIOUS
  <2>1. T \subseteq Nat
    BY <1>0
  <2>2. PICK n \in T : \A m \in T : n <= m
    BY <2>1, LeastOf
  <2>3. n # 0
    BY <1>1, <2>2, NothingFair DEF Runs
  <2>4. n \in 1..Len(s) /\ n - 1 \in 0..Len(s) /\ n - 1 \notin T
    BY <1>0, <2>2, <2>3
  <2>5. Fair(x, S, s, K, f[n - 1], n - 1)
    BY <2>4
  <2>6. f[n] = IF n \in K THEN Append(f[n - 1], s[n]) ELSE f[n - 1]
    BY <1>1, <2>4 DEF Runs
  <2>7. Fair(x, S, s, K, f[n], n)
    BY <2>4, <2>5, <2>6, NextFair
  <2>8. QED BY <2>2, <2>7
<1>3. Fair(x, S, s, K, Kept(s, K), Len(s))
  BY <1>0, <1>1, <1>2
<1>4. QED BY <1>3 DEF Fair, Count, Places

(* What is in a sequence is there at least once.                           *)
LEMMA SeqCounts ==
  ASSUME NEW S, NEW s \in Seq(S), NEW x
  PROVE  /\ Count(x, s) \in Nat /\ (x \in ToSet(s) <=> Count(x, s) > 0)
         /\ IsFiniteSet(ToSet(s)) /\ ToSet(s) \subseteq S
<1>1. Len(s) \in Nat /\ DOMAIN s = 1..Len(s) /\ \A i \in 1..Len(s) : s[i] \in S
  BY LenProperties, ElementOfSeq
<1>2. IsFiniteSet(DOMAIN s)
  BY <1>1, FS_Interval
<1>3. IsFiniteSet(Places(x, s)) /\ Cardinality(Places(x, s)) \in Nat
  BY <1>2, FS_Subset, FS_CardinalityType DEF Places
<1>4. x \in ToSet(s) <=> Places(x, s) # {}
  BY DEF Places, ToSet
<1>5. Cardinality(Places(x, s)) = 0 <=> Places(x, s) = {}
  BY <1>3, FS_EmptySet
<1>6. IsFiniteSet(ToSet(s))
  <2> DEFINE f == [i \in DOMAIN s |-> s[i]]
  <2>1. f \in Surjection(DOMAIN s, ToSet(s))
    BY DEF Surjection, ToSet
  <2>2. QED BY <1>2, <2>1, FS_Surjection
<1>7. Count(x, s) = Cardinality(Places(x, s))
  BY DEF Count, Places
<1>8. ToSet(s) \subseteq S
  BY <1>1 DEF ToSet
<1>9. QED BY <1>3, <1>4, <1>5, <1>6, <1>7, <1>8

(* Where every place of x is kept, or none is.                             *)
LEMMA KeptWanted ==
  ASSUME NEW S, NEW s \in Seq(S), NEW K, NEW x, NEW w \in BOOLEAN,
         \A i \in Places(x, s) : (i \in K) <=> w
  PROVE  Count(x, Kept(s, K)) = IF w THEN Count(x, s) ELSE 0
<1>1. DOMAIN s = 1..Len(s)
  BY LenProperties
<1>2. Count(x, Kept(s, K)) = Cardinality(Before(x, s, K, Len(s)))
  BY KeptCounts
<1>3. CASE w
  <2>1. Before(x, s, K, Len(s)) = Places(x, s)
    BY <1>1, <1>3 DEF Before, Places
  <2>2. QED BY <1>2, <1>3, <2>1 DEF Count, Places
<1>4. CASE ~w
  <2>1. Before(x, s, K, Len(s)) = {}
    BY <1>1, <1>4 DEF Before, Places
  <2>2. QED BY <1>2, <1>4, <2>1, FS_EmptySet
<1>5. QED BY <1>3, <1>4

(* The duplicate filter keeps the first of every element.                  *)
LEMMA FilteredOnce ==
  ASSUME NEW S, NEW s \in Seq(S), NEW x
  PROVE  /\ Filtered(s) \in Seq(S)
         /\ Count(x, Filtered(s)) = IF x \in ToSet(s) THEN 1 ELSE 0
<1> DEFINE K == { i \in DOMAIN s : \A j \in 1..(i - 1) : s[j] # s[i] }
<1>1. Len(s) \in Nat /\ DOMAIN s = 1..Len(s)
  BY LenProperties
<1>2. Filtered(s) = Kept(s, K)
  BY DEF Filtered
<1>3. Filtered(s) \in Seq(S) /\ Count(x, Filtered(s)) = Cardinality(Before(x, s, K, Len(s)))
  BY <1>2, KeptCounts
<1>4. CASE x \in ToSet(s)
  <2>1. Places(x, s) # {} /\ Places(x, s) \subseteq Nat
    BY <1>1, <1>4 DEF Places, ToSet
  <2>2. PICK n \in Places(x, s) : \A m \in Places(x, s) : n <= m
    BY <2>1, LeastOf
  <2>3. n \in 1..Len(s) /\ s[n] = x
    BY <1>1 DEF Places
  <2>4. \A j \in 1..(n - 1) : s[j] # x
    BY <1>1, <2>2, <2>3 DEF Places
  <2>5. n \in Before(x, s, K, Len(s))
    BY <1>1, <2>3, <2>4 DEF Before
  <2>6. ASSUME NEW i \in Before(x, s, K, Len(s)) PROVE i = n
    <3>1. i \in 1..Len(s) /\ s[i] = x /\ \A j \in 1..(i - 1) : s[j] # x
      BY <1>1 DEF Before
    <3>2. i <= n
      BY <1>1, <2>3, <3>1
    <3>3. n <= i
      BY <1>1, <2>2, <3>1 DEF Places
    <3>4. QED BY <1>1, <2>3, <3>1, <3>2, <3>3
  <2>7. Before(x, s, K, Len(s)) = {n}
    BY <2>5, <2>6
  <2>8. QED BY <1>3, <1>4, <2>7, FS_Singleton
<1>5. CASE x \notin ToSet(s)
  <2>1. Before(x, s, K, Len(s)) = {}
    BY <1>1, <1>5 DEF Before, ToSet
  <2>2. QED BY <1>3, <1>5, <2>1, FS_EmptySet
<1>6. QED BY <1>4, <1>5

LEMMA FilteredSet ==
  ASSUME NEW S, NEW s \in Seq(S)
  PROVE  ToSet(Filtered(s)) = ToSet(s)
<1> SUFFICES ASSUME NEW x PROVE x \in ToSet(Filtered(s)) <=> x \in ToSet(s)
  OBVIOUS
<1>1. Filtered(s) \in Seq(S) /\ Count(x, Filtered(s)) = IF x \in ToSet(s) THEN 1 ELSE 0
  BY FilteredOnce
<1>2. x \in ToSet(Filtered(s)) <=> Count(x, Filtered(s)) > 0
  BY <1>1, SeqCounts
<1>3. QED BY <1>1, <1>2

(* A set as a sequence.                                                    *)
LEMMA SeqOfSet ==
  ASSUME NEW T, IsFiniteSet(T)
  PROVE  /\ SetToSeq(T) \in Seq(T) /\ ToSet(SetToSeq(T)) = T
         /\ \A x : Count(x, SetToSeq(T)) = IF x \in T THEN 1 ELSE 0
<1> DEFINE n == Cardinality(T)
           f == SetToSeq(T)
<1>1. n \in Nat /\ ExistsBijection(1..n, T)
  BY FS_CardinalityType
<1>2. \E g \in [1..n -> T] : IsInjective(g)
  BY <1>1 DEF ExistsBijection, Bijection, Injection
<1>3. f \in [1..n -> T] /\ IsInjective(f)
  BY <1>2 DEF SetToSeq
<1>4. f \in Injection(1..n, T)
  BY <1>3 DEF Injection
<1>5. IsFiniteSet(1..n) /\ Cardinality(1..n) = n
  BY <1>1, FS_Interval
<1> HIDE DEF n, f
<1>6. f \in Surjection(1..n, T)
  BY <1>4, <1>5, FS_Injection DEF n
<1>7. f \in Seq(T) /\ DOMAIN f = 1..n
  BY <1>1, <1>3
<1>8. ToSet(f) = T
  BY <1>3, <1>6, <1>7 DEF ToSet, Surjection
<1>9. ASSUME NEW x PROVE Count(x, f) = IF x \in T THEN 1 ELSE 0
  <2>1. CASE x \in T
    <3>1. PICK i \in DOMAIN f : f[i] = x
      BY <1>8, <2>1 DEF ToSet
    <3>2. Places(x, f) = {i}
      BY <1>3, <3>1 DEF Places, IsInjective
    <3>3. QED BY <2>1, <3>2, FS_Singleton DEF Count, Places
  <2>2. CASE x \notin T
    <3>1. Places(x, f) = {}
      BY <1>3, <1>7, <2>2 DEF Places
    <3>2. QED BY <2>2, <3>1, FS_EmptySet DEF Count, Places
  <2>3. QED BY <2>1, <2>2
<1>10. QED BY <1>7, <1>8, <1>9 DEF f

(* The labels of a keyword, joined by CreateDb and split by the client.    *)
LEMMA LabelNumbers ==
  ASSUME NEW S, NEW rows \in Seq(S), NEW k
  PROVE  LabelsOf(rows, k) \in Seq(Nat \ {0})
<1> DEFINE l == [i \in DOMAIN rows |-> i]
<1>1. Len(rows) \in Nat /\ DOMAIN rows = 1..Len(rows)
  BY LenProperties
<1>2. l \in Seq(Nat \ {0})
  BY <1>1
<1> HIDE DEF l
<1>3. Kept(l, { i \in DOMAIN rows : rows[i] = k }) \in Seq(Nat \ {0})
  BY <1>2, KeptCounts
<1>4. QED BY <1>3 DEF LabelsOf, l

(* The first n labels.                                                     *)
Labels(l, y, n) == Len(y) = n /\ \A i \in 1..n : y[i] = l[i]

LEMMA JoinSplit ==
  ASSUME NEW l \in Seq(Nat \ {0})
  PROVE  Split(Join(l)) = l
<1> DEFINE n == Len(l)
           s == Join(l)
           K == { i \in DOMAIN s : s[i] # Sep }
<1>1. n \in Nat /\ l \in [1..n -> Nat \ {0}] /\ Sep = 0
  BY LenProperties DEF Sep
<1>2. /\ DOMAIN s = 1..(2 * n - 1)
      /\ \A i \in 1..(2 * n - 1) : s[i] = IF i % 2 = 1 THEN l[(i + 1) \div 2] ELSE Sep
  BY DEF Join
<1> HIDE DEF n, s
<1>3. CASE n = 0
  <2>1. l = <<>>
    BY <1>1, <1>3 DEF n
  <2>2. s = <<>>
    BY <1>3 DEF n, s, Join
  <2>3. <<>> \in Seq(Nat) /\ Len(<<>>) = 0
    OBVIOUS
  <2>4. PICK f : Runs(<<>>, K, f) /\ Kept(<<>>, K) = f[0]
    BY <2>3, KeptRuns
  <2>5. Kept(s, K) = <<>>
    BY <2>2, <2>4 DEF Runs
  <2>6. QED BY <2>1, <2>5 DEF Split, s
<1>4. CASE n # 0
  <2>1. /\ \A m \in 1..n : 2 * m - 1 \in DOMAIN s /\ s[2 * m - 1] = l[m]
        /\ \A m \in 1..(n - 1) : 2 * m \in DOMAIN s /\ s[2 * m] = 0
    <3>1. ASSUME NEW m \in 1..n PROVE 2 * m - 1 \in DOMAIN s /\ s[2 * m - 1] = l[m]
      <4>1. /\ 2 * m - 1 \in 1..(2 * n - 1) /\ (2 * m - 1) % 2 = 1
            /\ ((2 * m - 1) + 1) \div 2 = m
        BY <1>1
      <4>2. QED BY <1>2, <4>1
    <3>2. ASSUME NEW m \in 1..(n - 1) PROVE 2 * m \in DOMAIN s /\ s[2 * m] = 0
      <4>1. 2 * m \in 1..(2 * n - 1) /\ (2 * m) % 2 = 0
        BY <1>1
      <4>2. QED BY <1>1, <1>2, <4>1
    <3>3. QED BY <3>1, <3>2
  <2>2. s \in Seq(Nat) /\ Len(s) = 2 * n - 1
    <3>1. ASSUME NEW i \in 1..(2 * n - 1) PROVE s[i] \in Nat
      <4>1. i % 2 = 1 => (i + 1) \div 2 \in 1..n
        BY <1>1
      <4>2. QED BY <1>1, <1>2, <4>1
    <3>2. s \in [1..(2 * n - 1) -> Nat] /\ 2 * n - 1 \in Nat
      BY <1>1, <1>2, <1>4, <3>1 DEF s, Join
    <3>3. QED BY <3>2
  <2>3. PICK f : Runs(s, K, f) /\ Kept(s, K) = f[2 * n - 1]
    BY <2>2, KeptRuns
  <2>4. \A m \in 1..n : 2 * m - 1 \in K
    BY <1>1, <2>1
  <2>5. \A m \in 1..(n - 1) : 2 * m \notin K
    BY <1>1, <2>1
  <2> HIDE DEF K
  <2>6. \A m \in 1..n : f[2 * m - 1] \in Seq(Nat) /\ Labels(l, f[2 * m - 1], m)
    <3> DEFINE T == {m \in 1..n : ~(f[2 * m - 1] \in Seq(Nat) /\ Labels(l, f[2 * m - 1], m))}
    <3> SUFFICES ASSUME T # {} PROVE FALSE
      OBVIOUS
    <3>1. T \subseteq Nat
      BY <1>1
    <3>2. PICK m \in T : \A k \in T : m <= k
      BY <3>1, LeastOf
    <3>3. m \in 1..n /\ m \in Nat /\ 2 * m - 1 \in 1..Len(s)
      BY <1>1, <2>2
    <3>4. f[2 * m - 1] = Append(f[2 * m - 2], l[m])
      <4>1. (2 * m - 1) - 1 = 2 * m - 2
        BY <3>3
      <4>2. f[2 * m - 1] = Append(f[(2 * m - 1) - 1], s[2 * m - 1])
        BY <2>3, <2>4, <3>3 DEF Runs
      <4>3. QED BY <2>1, <3>3, <4>1, <4>2
    <3>5. f[2 * m - 2] \in Seq(Nat) /\ Labels(l, f[2 * m - 2], m - 1)
      <4>1. CASE m = 1
        <5>1. f[2 * m - 2] = <<>>
          BY <2>3, <4>1 DEF Runs
        <5>2. QED BY <4>1, <5>1 DEF Labels
      <4>2. CASE m # 1
        <5>1. m - 1 \in 1..n /\ m - 1 \in 1..(n - 1) /\ m - 1 \notin T
          BY <1>1, <3>2, <3>3, <4>2
        <5>2. f[2 * (m - 1) - 1] \in Seq(Nat) /\ Labels(l, f[2 * (m - 1) - 1], m - 1)
          BY <5>1
        <5>3. 2 * (m - 1) \in 1..Len(s) /\ 2 * (m - 1) = 2 * m - 2
          BY <1>1, <2>2, <3>3, <4>2
        <5>4. 2 * (m - 1) \notin K
          BY <2>5, <5>1
        <5>5. f[2 * (m - 1)] = f[2 * (m - 1) - 1]
          BY <2>3, <5>3, <5>4 DEF Runs
        <5>6. QED BY <5>2, <5>3, <5>5
      <4>3. QED BY <4>1, <4>2
    <3>6. f[2 * m - 1] \in Seq(Nat) /\ Labels(l, f[2 * m - 1], m)
      <4> DEFINE y == f[2 * m - 2]
                 z == f[2 * m - 1]
      <4>1. y \in Seq(Nat) /\ Len(y) = m - 1 /\ \A i \in 1..(m - 1) : y[i] = l[i]
        BY <3>5 DEF Labels
      <4>2. l[m] \in Nat /\ z = Append(y, l[m])
        BY <1>1, <3>3, <3>4
      <4> HIDE DEF y, z
      <4>3. /\ z \in Seq(Nat) /\ Len(z) = Len(y) + 1
            /\ \A i \in 1..Len(y) : z[i] = y[i]
            /\ z[Len(y) + 1] = l[m]
        BY <4>1, <4>2, AppendProperties
      <4>4. Len(z) = m /\ \A i \in 1..m : z[i] = l[i]
        <5>1. Len(z) = m /\ z[m] = l[m] /\ \A i \in 1..(m - 1) : z[i] = y[i]
          BY <3>3, <4>1, <4>3
        <5>2. \A i \in 1..m : i = m \/ i \in 1..(m - 1)
          BY <3>3
        <5>3. QED BY <4>1, <5>1, <5>2
      <4>5. z \in Seq(Nat) /\ Labels(l, z, m)
        BY <4>3, <4>4 DEF Labels
      <4>6. QED BY <4>5 DEF z
    <3>7. QED BY <3>2, <3>6
  <2>7. Kept(s, K) \in Seq(Nat) /\ Len(Kept(s, K)) = n /\ \A i \in 1..n : Kept(s, K)[i] = l[i]
    BY <1>1, <1>4, <2>3, <2>6 DEF Labels
  <2>8. l \in Seq(Nat) /\ Len(l) = n
    BY DEF n
  <2>9. Kept(s, K) = l
    BY <2>7, <2>8, SeqEqual
  <2>10. QED BY <2>9 DEF Split, s, K
<1>5. QED BY <1>3, <1>4

-----------------------------------------------------------------------------
(* What is loaded, and the answers.                                        *)
LEMMA LoadFacts ==
  ASSUME RequestInv, NEW p \in Providers
  PROVE  /\ LoadDataset(p) \in Seq(Items) /\ Set(p) = ToSet(input[p])
         /\ IsFiniteSet(Set(p)) /\ Set(p) \subseteq Items
         /\ \A x : Count(x, LoadDataset(p)) =
                     IF task.unique THEN IF x \in Set(p) THEN 1 ELSE 0 ELSE Count(x, input[p])
<1>1. input[p] \in Seq(Items) /\ task.unique \in BOOLEAN /\ p # "TEE_COMPUTE"
  BY DEF RequestInv, Providers
<1>2. LoadDataset(p) = IF task.unique THEN Filtered(input[p]) ELSE input[p]
  BY <1>1 DEF LoadDataset
<1>3. LoadDataset(p) \in Seq(Items)
  BY <1>1, <1>2, FilteredOnce
<1>4. Set(p) = ToSet(input[p])
  BY <1>1, <1>2, FilteredSet DEF Set
<1>5. IsFiniteSet(Set(p)) /\ Set(p) \subseteq Items
  BY <1>3, SeqCounts DEF Set
<1>6. ASSUME NEW x PROVE Count(x, LoadDataset(p)) =
                     IF task.unique THEN IF x \in Set(p) THEN 1 ELSE 0 ELSE Count(x, input[p])
  BY <1>1, <1>2, <1>4, FilteredOnce
<1>7. QED BY <1>3, <1>4, <1>5, <1>6

LEMMA ReplyFacts ==
  ASSUME RequestInv
  PROVE  /\ IsFiniteSet(Common) /\ Common \subseteq Items
         /\ IsFiniteSet(Reply) /\ Reply \subseteq Items
         /\ \A p \in Providers : IsFiniteSet(Set(p)) /\ Set(p) \subseteq Items
<1>1. \A p \in Providers : IsFiniteSet(Set(p)) /\ Set(p) \subseteq Items
  BY LoadFacts
<1>2. /\ IsFiniteSet(Set("CLIENT")) /\ Set("CLIENT") \subseteq Items
      /\ IsFiniteSet(Set("SERVER")) /\ Set("SERVER") \subseteq Items
  BY <1>1 DEF Providers
<1>3. IsFiniteSet(Common) /\ Common \subseteq Items
  BY <1>2, FS_Subset DEF Common
<1>4. QED BY <1>1, <1>2, <1>3 DEF Reply

(* A dataset without duplicates.                                           *)
LEMMA DistinctOnce ==
  ASSUME NEW S, NEW s \in Seq(S), Distinct(s), NEW x
  PROVE  Count(x, s) \in {0, 1}
<1> DEFINE f == [i \in DOMAIN s |-> s[i]]
<1>1. Len(s) \in Nat /\ DOMAIN s = 1..Len(s)
  BY LenProperties
<1>2. IsFiniteSet(DOMAIN s) /\ Cardinality(DOMAIN s) = Len(s)
  BY <1>1, FS_Interval
<1>3. f \in Surjection(DOMAIN s, ToSet(s))
  BY DEF Surjection, ToSet
<1>4. f \in Injection(DOMAIN s, ToSet(s))
  BY <1>2, <1>3, FS_Surjection DEF Distinct
<1>5. \A i, j \in Places(x, s) : i = j
  BY <1>4 DEF Injection, IsInjective, Places
<1>6. CASE Places(x, s) = {}
  BY <1>6, FS_EmptySet DEF Count, Places
<1>7. CASE Places(x, s) # {}
  <2>1. PICK i \in Places(x, s) : TRUE
    BY <1>7
  <2>2. Places(x, s) = {i}
    BY <1>5, <2>1
  <2>3. QED BY <2>2, FS_Singleton DEF Count, Places
<1>8. QED BY <1>6, <1>7

(* The answer of a PSI is what is expected of it.                          *)
LEMMA AnswerRight ==
  ASSUME RequestInv, Honoured, task.kind # "PIR", NEW x \in Items
  PROVE  Count(x, Answer) = Expected(x)
<1> DEFINE L == LoadDataset("CLIENT")
           mine == Count(x, input["CLIENT"])
           theirs == x \in ToSet(input["SERVER"])
<1>1. /\ task.kind \in {"ECDH", "KKRT", "TEE"} /\ task.difference \in BOOLEAN
      /\ task.unique \in BOOLEAN
  BY DEF RequestInv
<1>2. /\ L \in Seq(Items) /\ Set("CLIENT") = ToSet(input["CLIENT"])
      /\ Set("SERVER") = ToSet(input["SERVER"]) /\ input["CLIENT"] \in Seq(Items)
      /\ Count(x, L) = IF task.unique THEN IF x \in Set("CLIENT") THEN 1 ELSE 0 ELSE mine
  BY LoadFacts DEF RequestInv, Providers
<1>3. mine \in Nat /\ (x \in Set("CLIENT") <=> mine > 0)
  BY <1>2, SeqCounts
<1>4. CASE task.kind = "TEE"
  <2>1. Answer = SetToSeq(Common)
    BY <1>4 DEF Answer, TeeGetIntersection, Reply, Set, Common
  <2>2. IsFiniteSet(Common)
    BY ReplyFacts
  <2>3. Count(x, Answer) = IF x \in Common THEN 1 ELSE 0
    BY <2>1, <2>2, SeqOfSet
  <2>4. x \in Common <=> mine > 0 /\ theirs
    BY <1>2, <1>3 DEF Common
  <2>5. ~task.difference /\ (task.unique \/ Distinct(input["CLIENT"]))
    BY <1>4 DEF Honoured
  <2>6. Expected(x) = IF ~theirs THEN 0 ELSE IF task.unique /\ mine > 0 THEN 1 ELSE mine
    BY <1>1, <2>5 DEF Expected
  <2>7. task.unique \/ mine \in {0, 1}
    BY <1>2, <2>5, DistinctOnce
  <2>8. QED BY <1>3, <2>3, <2>4, <2>6, <2>7
<1>5. CASE task.kind # "TEE"
  <2>1. Reply = Set("SERVER") /\ (x \in Reply <=> theirs)
    BY <1>2, <1>5 DEF Reply
  <2> DEFINE w == theirs # task.difference
  <2>2. Count(x, Answer) = IF w THEN Count(x, L) ELSE 0
    <3>1. CASE task.kind = "ECDH" /\ task.difference
      <4>1. Answer = Kept(L, { i \in DOMAIN L : L[i] \notin Reply })
        BY <3>1 DEF Answer, EcdhGetIntersection
      <4>2. \A i \in Places(x, L) : (i \in { j \in DOMAIN L : L[j] \notin Reply }) <=> w
        BY <2>1, <3>1 DEF Places
      <4>3. QED BY <1>2, <4>1, <4>2, KeptWanted
    <3>2. CASE task.kind = "ECDH" /\ ~task.difference
      <4>1. Answer = Kept(L, { i \in DOMAIN L : L[i] \in Reply })
        BY <3>2 DEF Answer, EcdhGetIntersection
      <4>2. \A i \in Places(x, L) : (i \in { j \in DOMAIN L : L[j] \in Reply }) <=> w
        BY <1>1, <2>1, <3>2 DEF Places
      <4>3. QED BY <1>2, <4>1, <4>2, KeptWanted
    <3>3. CASE task.kind = "KKRT"
      <4>1. Answer = Kept(L, { i \in DOMAIN L : (i \in Found(L)) # task.difference })
        BY <3>3 DEF Answer, GetResult
      <4>2. ASSUME NEW i \in Places(x, L)
            PROVE  (i \in { j \in DOMAIN L : (j \in Found(L)) # task.difference }) <=> w
        <5>1. i \in DOMAIN L /\ L[i] = x
          BY DEF Places
        <5>2. (i \in Found(L)) <=> theirs
          BY <2>1, <5>1 DEF Found
        <5> HIDE DEF theirs
        <5>3. theirs \in BOOLEAN /\ (i \in Found(L)) \in BOOLEAN
          BY DEF theirs
        <5>4. QED BY <1>1, <5>1, <5>2, <5>3
      <4>3. QED BY <1>2, <4>1, <4>2, KeptWanted
    <3>4. QED BY <1>1, <1>5, <3>1, <3>2, <3>3
  <2>3. Expected(x) = IF ~w THEN 0 ELSE IF task.unique /\ mine > 0 THEN 1 ELSE mine
    BY <1>1 DEF Expected
  <2>4. Count(x, L) = IF task.unique /\ mine > 0 THEN 1 ELSE mine
    BY <1>1, <1>2, <1>3
  <2>5. QED BY <2>2, <2>3, <2>4
<1>6. QED BY <1>4, <1>5

(* So is that of a PIR, from the rows of the database.                     *)
LEMMA PirAnswerRight ==
  ASSUME RequestInv, task.kind = "PIR", db \in Served
  PROVE  ToSet(SetToSeq(PirAnswer)) =
           { <<k, LabelsOf(db, k)>> : k \in ToSet(input["CLIENT"]) \cap ToSet(db) }
<1>1. db \in Seq(Items)
  BY DEF RequestInv, Served, Providers
<1>2. Set("CLIENT") = ToSet(input["CLIENT"]) /\ IsFiniteSet(Set("CLIENT"))
  BY LoadFacts DEF Providers
<1>3. \A k : Split(Label(k)) = LabelsOf(db, k)
  BY <1>1, LabelNumbers, JoinSplit DEF Label
<1>4. PirAnswer = { <<k, LabelsOf(db, k)>> : k \in Shared }
  BY <1>3 DEF PirAnswer
<1>5. IsFiniteSet(PirAnswer)
  <2> DEFINE f == [k \in Shared |-> <<k, LabelsOf(db, k)>>]
  <2>1. f \in Surjection(Shared, PirAnswer)
    BY <1>4 DEF Surjection
  <2>2. IsFiniteSet(Shared)
    BY <1>2, FS_Subset DEF Shared
  <2>3. QED BY <2>1, <2>2, FS_Surjection
<1>6. ToSet(SetToSeq(PirAnswer)) = PirAnswer
  BY <1>5, SeqOfSet
<1>7. QED BY <1>2, <1>4, <1>6 DEF Shared

(* Where the client has loaded its dataset and heard the reply.            *)
LEMMA ResultIsAnswer ==
  ASSUME RequestInv, task.kind # "PIR", elements["CLIENT"] = LoadDataset("CLIENT"),
         NEW X, X \cap Items = Reply
  PROVE  PsiResult("CLIENT", X) = Answer
<1> DEFINE L == LoadDataset("CLIENT")
<1>1. L \in Seq(Items) /\ task.kind \in {"ECDH", "KKRT", "TEE"}
  BY LoadFacts DEF RequestInv, Providers
<1>2. \A i \in DOMAIN L : L[i] \in Items
  BY <1>1, LenProperties, ElementOfSeq
<1>3. \A i \in DOMAIN L : L[i] \in X <=> L[i] \in Reply
  BY <1>2
<1>4. ToSet(L) \cap X = ToSet(L) \cap Reply
  BY <1>3 DEF ToSet
<1>5. /\ { i \in DOMAIN L : L[i] \in X } = { i \in DOMAIN L : L[i] \in Reply }
      /\ { i \in DOMAIN L : L[i] \notin X } = { i \in DOMAIN L : L[i] \notin Reply }
  BY <1>3
<1>6. CASE task.kind = "ECDH"
  BY <1>5, <1>6 DEF PsiResult, Answer, EcdhGetIntersection
<1>7. CASE task.kind = "KKRT"
  BY <1>5, <1>7 DEF PsiResult, Answer, Found
<1>8. CASE task.kind = "TEE"
  BY <1>4, <1>8 DEF PsiResult, Answer, TeeGetIntersection
<1>9. QED BY <1>1, <1>6, <1>7, <1>8

(* A result has finitely many elements.                                    *)
LEMMA ResultFinite ==
  ASSUME RequestInv, task.kind # "PIR", elements["CLIENT"] \in {<<>>, LoadDataset("CLIENT")},
         NEW X
  PROVE  IsFiniteSet(ToSet(PsiResult("CLIENT", X)))
<1> DEFINE L == elements["CLIENT"]
<1>1. L \in Seq(Items) /\ task.kind \in {"ECDH", "KKRT", "TEE"}
  <2>1. "CLIENT" \in Providers /\ task.kind \in {"ECDH", "KKRT", "TEE"}
    BY DEF RequestInv, Providers
  <2>2. LoadDataset("CLIENT") \in Seq(Items) /\ <<>> \in Seq(Items)
    BY <2>1, LoadFacts
  <2>3. QED BY <2>1, <2>2
<1> HIDE DEF L
<1>2. CASE task.kind = "ECDH"
  <2>1. \E K : PsiResult("CLIENT", X) = Kept(L, K)
    BY <1>2 DEF PsiResult, EcdhGetIntersection, L
  <2>2. QED BY <1>1, <2>1, KeptCounts, SeqCounts
<1>3. CASE task.kind = "KKRT"
  <2>1. \E K : PsiResult("CLIENT", X) = Kept(L, K)
    BY <1>3 DEF PsiResult, GetResult, L
  <2>2. QED BY <1>1, <2>1, KeptCounts, SeqCounts
<1>4. CASE task.kind = "TEE"
  <2>1. PsiResult("CLIENT", X) = SetToSeq(ToSet(L) \cap X)
    BY <1>4 DEF PsiResult, TeeGetIntersection, L
  <2>2. IsFiniteSet(ToSet(L) \cap X)
    BY <1>1, SeqCounts, FS_Subset
  <2>3. QED BY <2>1, <2>2, SeqOfSet
<1>5. QED BY <1>1, <1>2, <1>3, <1>4

-----------------------------------------------------------------------------
(* The steps of the programs: who takes which.                             *)
Works == {"load", "not_empty", "attest", "decrypt", "intersect", "compute", "save", "make_db",
          "check", "extract"}
Takes(kind, p, s) ==
  /\ s.do \in {"work", "send", "recv"} /\ (s.do = "work" <=> s.msg \in Works)
  /\ s.msg = "not_empty" => s.else = "fail"
  /\ s.msg = "load" => s.else = "fail"
  /\ s.msg = "intersect" => p = "CLIENT" /\ kind # "PIR" /\ (kind = "TEE" => s.else = "leave")
  /\ s.msg = "compute" => p = "TEE_COMPUTE" /\ kind = "TEE"
  /\ s.msg = "extract" => p = "CLIENT" /\ kind = "PIR"
  /\ s.msg = "make_db" => p = "SERVER" /\ kind = "PIR"
  /\ p = "TEE_COMPUTE" /\ s.else \notin {"skip", "leave"} => s.msg = "load"
Sends(kind, p, s) == s.do = "send" =>
  /\ s.msg = "response" => \/ p = "SERVER" /\ kind \in {"ECDH", "KKRT"}
                           \/ p = "TEE_COMPUTE" /\ kind = "TEE"
  /\ s.msg = "data" => p \in Providers /\ s.key = p /\ kind = "TEE"
  /\ s.msg = "query" => p = "CLIENT" /\ kind = "PIR"
  /\ s.msg = "package" => p = "SERVER" /\ kind = "PIR"
  /\ s.msg = "result" => p = "CLIENT" /\ kind # "PIR"
  /\ s.msg \in {"response", "data", "query", "package", "result", "request"} \cup Marks
  /\ s.node = "CLIENT" /\ s.key = "result_id" => p = "TEE_COMPUTE"
Receives(kind, p, s) == s.do = "recv" =>
  /\ s.msg \in {"result", "request"} => p = "SERVER" /\ kind # "PIR"
  /\ s.msg = "result" => s.node = "SERVER" /\ s.key = "default" /\ s.else = "skip"
  /\ s.msg \in {"response", "data"} \/ s.msg = "result" \/ s.else \notin {"skip", "leave"}
  /\ p = "CLIENT" /\ kind # "PIR" => s.msg \in {"response"} \cup Marks
  /\ p = "CLIENT" /\ kind = "TEE" => /\ s.node = "CLIENT" /\ s.key = "result_id"
                                     /\ s.else = "leave"
  /\ p = "TEE_COMPUTE" => s.msg = "data" /\ s.key \in Providers
  /\ s.msg = "data" => p = "TEE_COMPUTE"
  /\ s.msg = "response" => p = "CLIENT"
  /\ p = "SERVER" /\ kind = "PIR" => /\ s.msg \in {"query"} \cup Marks
                                     /\ s.msg = "query" => s.key = "pir_key"
  /\ p = "CLIENT" /\ kind = "PIR" => /\ s.msg \in {"package"} \cup Marks
                                     /\ s.msg = "package" => s.key = Response
Facts(kind, p, s) == Takes(kind, p, s) /\ Sends(kind, p, s) /\ Receives(kind, p, s)

LEMMA RestFacts ==
  ASSUME NEW kind, kind # "PIR", NEW p \in Parties, NEW s \in RestSteps(p)
  PROVE  Facts(kind, p, s)
<1>1. \/ s \in { Send("SERVER", "default", "result", "skip"), Work("save", "fail") } /\ p = "CLIENT"
      \/ s \in { Recv("SERVER", "default", "result", "skip"), Work("save", "fail") } /\ p = "SERVER"
  BY DEF RestSteps
<1>2. QED BY <1>1, StepFields DEF Facts, Takes, Sends, Receives, Works

LEMMA FirstFacts ==
  ASSUME NEW kind, NEW p \in Parties, NEW s \in { Work("load", "fail"), Work("not_empty", "fail") },
         p = "TEE_COMPUTE" => s = Work("load", "fail")
  PROVE  Facts(kind, p, s)
BY StepFields DEF Facts, Takes, Sends, Receives, Works

LEMMA EcdhFacts ==
  /\ \A s \in EcdhClientSteps : Facts("ECDH", "CLIENT", s)
  /\ \A s \in EcdhServerSteps : Facts("ECDH", "SERVER", s)
<1>1. ASSUME NEW s \in EcdhClientSteps PROVE Facts("ECDH", "CLIENT", s)
  BY StepFields DEF Facts, Takes, Sends, Receives, Works, Marks, Providers, EcdhClientSteps
<1>2. ASSUME NEW s \in EcdhServerSteps PROVE Facts("ECDH", "SERVER", s)
  BY StepFields DEF Facts, Takes, Sends, Receives, Works, Marks, Providers, EcdhServerSteps
<1>3. QED BY <1>1, <1>2

LEMMA KkrtFacts ==
  /\ \A s \in KkrtRecvSteps : Facts("KKRT", "CLIENT", s)
  /\ \A s \in KkrtSendSteps : Facts("KKRT", "SERVER", s)
<1>1. ASSUME NEW s \in KkrtRecvSteps PROVE Facts("KKRT", "CLIENT", s)
  BY StepFields DEF Facts, Takes, Sends, Receives, Works, Marks, Providers, KkrtRecvSteps
<1>2. ASSUME NEW s \in KkrtSendSteps PROVE Facts("KKRT", "SERVER", s)
  BY StepFields DEF Facts, Takes, Sends, Receives, Works, Marks, Providers, KkrtSendSteps
<1>3. QED BY <1>1, <1>2

LEMMA TeeFacts ==
  /\ \A s \in ProviderClientSteps : Facts("TEE", "CLIENT", s)
  /\ \A s \in ProviderServerSteps : Facts("TEE", "SERVER", s)
  /\ \A s \in ExecuteAsComputeSteps : Facts("TEE", "TEE_COMPUTE", s)
<1>1. ASSUME NEW s \in ProviderClientSteps PROVE Facts("TEE", "CLIENT", s)
  BY StepFields DEF Facts, Takes, Sends, Receives, Works, Marks, Providers, ProviderClientSteps
<1>2. ASSUME NEW s \in ProviderServerSteps PROVE Facts("TEE", "SERVER", s)
  BY StepFields DEF Facts, Takes, Sends, Receives, Works, Marks, Providers, ProviderServerSteps
<1>3. ASSUME NEW s \in ExecuteAsComputeSteps PROVE Facts("TEE", "TEE_COMPUTE", s)
  BY StepFields DEF Facts, Takes, Sends, Receives, Works, Marks, Providers, ExecuteAsComputeSteps
<1>4. QED BY <1>1, <1>2, <1>3

LEMMA PirFacts ==
  /\ \A s \in PirClientSteps \cup { Work("save", "fail") } : Facts("PIR", "CLIENT", s)
  /\ \A s \in PirServerSteps : Facts("PIR", "SERVER", s)
<1>1. ASSUME NEW s \in PirClientSteps \cup { Work("save", "fail") } PROVE Facts("PIR", "CLIENT", s)
  BY StepFields DEF Facts, Takes, Sends, Receives, Works, Marks, Providers, PirClientSteps, Response
<1>2. ASSUME NEW s \in PirServerSteps PROVE Facts("PIR", "SERVER", s)
  BY StepFields DEF Facts, Takes, Sends, Receives, Works, Marks, Providers, PirServerSteps, Response
<1>3. QED BY <1>1, <1>2

LEMMA FullFacts ==
  ASSUME RequestInv, NEW p \in Parties, NEW s \in Full(p)
  PROVE  Facts(task.kind, p, s)
<1>1. task.kind \in {"ECDH", "KKRT", "TEE", "PIR"} /\ p \in {"CLIENT", "SERVER", "TEE_COMPUTE"}
  BY DEF RequestInv, Parties, Providers
<1>2. CASE task.kind = "PIR"
  BY <1>1, <1>2, PirFacts, FirstFacts DEF Full, PirSteps, Loaded
<1>3. CASE task.kind # "PIR" /\ s \in RestSteps(p)
  BY <1>3, RestFacts
<1>4. CASE task.kind # "PIR" /\ s \in PsiSteps(p)
  <2>1. CASE task.kind = "ECDH"
    BY <1>1, <1>4, <2>1, EcdhFacts, FirstFacts DEF PsiSteps, Checked
  <2>2. CASE task.kind = "KKRT"
    BY <1>1, <1>4, <2>2, KkrtFacts, FirstFacts DEF PsiSteps, Checked
  <2>3. CASE task.kind = "TEE"
    BY <1>1, <1>4, <2>3, TeeFacts, FirstFacts DEF PsiSteps, Checked, Loaded
  <2>4. QED BY <1>1, <1>4, <2>1, <2>2, <2>3
<1>5. QED BY <1>2, <1>3, <1>4 DEF Full

-----------------------------------------------------------------------------
(* The step before a party: what it knows of it, and of the steps behind.  *)
LEMMA NowFacts ==
  ASSUME LinkInv, RequestInv, FrameInv, NEW p \in Parties, Busy(p)
  PROVE  /\ Facts(task.kind, p, Now(p)) /\ Now(p).msg \in Todo(p) /\ Now(p) \in Ahead(prog[p])
         /\ \A t \in Ahead(prog[p]) : Facts(task.kind, p, t)
<1>1. Now(p) \in Ahead(prog[p])
  BY BusyProgram DEF LinkInv
<1>2. \A t \in Ahead(prog[p]) : Facts(task.kind, p, t)
  BY FullFacts DEF FrameInv
<1>3. QED BY <1>1, <1>2 DEF Todo

LEMMA Order ==
  ASSUME LinkInv, NEW p \in Parties, Busy(p), NEW t \in Ahead(prog[p])
  PROVE  t = Now(p) \/ (t \in Ahead(Rest(prog[p])) /\ Follows(Now(p), t))
<1>1. /\ Program(p, prog[p]) /\ prog[p] # Idle /\ Now(p) = First(prog[p])
  BY BusyProgram DEF LinkInv
<1>2. QED BY <1>1, StepOn

LEMMA Past ==
  ASSUME LinkInv, NEW p \in Parties, Busy(p)
  PROVE  LET m == Now(p).msg IN
         /\ m # "load" => "load" \notin Todo(p)
         /\ m = "data" => "not_empty" \notin Todo(p)
         /\ m = "intersect" => "response" \notin Todo(p)
         /\ m = "compute" => "data" \notin Todo(p)
         /\ m = "response" => "compute" \notin Todo(p)
         /\ m = "package" => "query" \notin Todo(p) /\ "make_db" \notin Todo(p)
         /\ m = "extract" => "package" \notin Todo(p)
         /\ m = "result" => "intersect" \notin Todo(p)
<1> DEFINE s == Now(p)
<1>1. \A t \in Ahead(prog[p]) : t = s \/ Follows(s, t)
  BY Order
<1> HIDE DEF s
<1>2. ASSUME NEW t \in Ahead(prog[p])
      PROVE  /\ s.msg # "load" => t.msg # "load"
             /\ s.msg = "data" => t.msg # "not_empty"
             /\ s.msg = "intersect" => t.msg # "response"
             /\ s.msg = "compute" => t.msg # "data"
             /\ s.msg = "response" => t.msg # "compute"
             /\ s.msg = "package" => t.msg # "query" /\ t.msg # "make_db"
             /\ s.msg = "extract" => t.msg # "package"
             /\ s.msg = "result" => t.msg # "intersect"
  <2>1. CASE t = s
    BY <2>1
  <2>2. CASE Follows(s, t)
    BY <2>2 DEF Follows, Stage
  <2>3. QED BY <1>1, <2>1, <2>2
<1>3. QED BY <1>2 DEF Todo, s

-----------------------------------------------------------------------------
(* What a step does to the programs: nothing, or the party passes its      *)
(* step, or it leaves OnExecute.                                           *)
Stays     == prog' = prog
Passes(p) == Busy(p) /\ prog' = [prog EXCEPT ![p] = Rest(prog[p])]
Leaves(p) == Busy(p) /\ prog' = [prog EXCEPT ![p] = Left(prog[p])] /\ Now(p).else = "leave"

LEMMA PassTodo ==
  ASSUME LinkInv, NEW p \in Parties, Passes(p)
  PROVE  /\ \A q \in Parties : Ahead(prog'[q]) \subseteq Ahead(prog[q])
         /\ \A q \in Parties : q # p => prog'[q] = prog[q]
         /\ \A t \in Ahead(prog[p]) : t = Now(p) \/ t \in Ahead(prog'[p])
         /\ prog'[p] = Rest(prog[p])
<1>1. /\ Program(p, prog[p]) /\ prog[p] # Idle /\ Now(p) = First(prog[p])
  BY BusyProgram DEF LinkInv, Passes
<1>2. prog = [q \in Parties |-> prog[q]] /\ prog' = [prog EXCEPT ![p] = Rest(prog[p])]
  BY DEF LinkInv, Shape, Passes
<1>3. prog'[p] = Rest(prog[p]) /\ \A q \in Parties : q # p => prog'[q] = prog[q]
  BY <1>2
<1>4. Ahead(prog[p]) = {Now(p)} \cup Ahead(Rest(prog[p]))
  BY <1>1, StepOn
<1>5. QED BY <1>3, <1>4

LEMMA LeaveTodo ==
  ASSUME LinkInv, NEW p \in Parties, Leaves(p)
  PROVE  /\ \A q \in Parties : Ahead(prog'[q]) \subseteq Ahead(prog[q])
         /\ \A q \in Parties : q # p => prog'[q] = prog[q]
         /\ \A t \in Ahead(prog'[p]) : t.else # "leave"
         /\ \A t \in Ahead(prog[p]) : t \in Ahead(prog'[p]) \/ t \in Range(prog[p][1])
<1>1. /\ Program(p, prog[p]) /\ prog[p] # Idle /\ Now(p) = First(prog[p])
  BY BusyProgram DEF LinkInv, Leaves
<1>2. prog = [q \in Parties |-> prog[q]] /\ prog' = [prog EXCEPT ![p] = Left(prog[p])]
  BY DEF LinkInv, Shape, Leaves
<1>3. prog'[p] = Left(prog[p]) /\ \A q \in Parties : q # p => prog'[q] = prog[q]
  BY <1>2
<1>4. Ahead(Left(prog[p])) = Range(prog[p][2])
  BY EmptyRange, Pair DEF Ahead, Left
<1>5. QED BY <1>1, <1>3, <1>4 DEF Program, Ahead

Settles(p) ==
  /\ Stays \/ Passes(p) \/ Leaves(p)
  /\ status' = [q \in Parties |-> status'[q]]
  /\ \A q \in Parties : status'[q] = status[q] \/ (q = p /\ status[p] = "running" /\ Stays)
  /\ status'[p] = "success" /\ status[p] # "success" => prog[p] = Idle
  /\ status'[p] = "failed" /\ status[p] # "failed" => Busy(p) /\ Now(p).else \notin {"skip", "leave"}

LEMMA ElseSettles ==
  ASSUME LinkInv, NEW p \in Parties, Busy(p), Else(p)
  PROVE  /\ Settles(p)
         /\ Now(p).else = "skip" => Passes(p)
         /\ Now(p).else = "leave" => Leaves(p)
         /\ Now(p).else \notin {"skip", "leave"} => Stays /\ status'[p] = "failed"
<1>1. /\ After(p) = Rest(prog[p]) /\ << <<>>, prog[p][2] >> = Left(prog[p]) /\ status[p] = "running"
  BY BusyProgram DEF LinkInv
<1>2. status = [q \in Parties |-> status[q]]
  BY DEF LinkInv, Shape
<1>3. CASE Now(p).else = "skip"
  BY <1>1, <1>2, <1>3 DEF Else, Goto, Passes, Settles
<1>4. CASE Now(p).else = "leave"
  BY <1>1, <1>2, <1>4 DEF Else, Goto, Leaves, Settles
<1>5. CASE Now(p).else \notin {"skip", "leave"}
  <2>1. status' = [status EXCEPT ![p] = "failed"] /\ prog' = prog
    BY <1>5 DEF Else
  <2>2. /\ status' = [q \in Parties |-> status'[q]] /\ status'[p] = "failed"
        /\ \A q \in Parties : q # p => status'[q] = status[q]
    BY <1>2, <2>1
  <2>3. QED BY <1>1, <1>5, <2>1, <2>2 DEF Stays, Settles
<1>6. QED BY <1>3, <1>4, <1>5

LEMMA GotoSettles ==
  ASSUME LinkInv, NEW p \in Parties, Busy(p), Goto(p, After(p)) \/ UNCHANGED <<prog, status>>
  PROVE  /\ Settles(p) /\ status' = status /\ (Stays \/ Passes(p))
         /\ Goto(p, After(p)) => Passes(p)
<1>1. /\ After(p) = Rest(prog[p]) /\ status[p] = "running"
  BY BusyProgram DEF LinkInv
<1>2. status = [q \in Parties |-> status[q]]
  BY DEF LinkInv, Shape
<1>3. QED BY <1>1, <1>2 DEF Goto, Passes, Stays, Settles

LEMMA StatusSettles ==
  ASSUME LinkInv, NEW p \in Parties, status[p] = "running", NEW v \in {"success", "killed"},
         status' = [status EXCEPT ![p] = v], prog' = prog,
         v = "success" => prog[p] = Idle
  PROVE  Settles(p) /\ Stays
<1>1. status = [q \in Parties |-> status[q]]
  BY DEF LinkInv, Shape
<1>2. /\ status' = [q \in Parties |-> status'[q]] /\ status'[p] = v
      /\ \A q \in Parties : q # p => status'[q] = status[q]
  BY <1>1
<1>3. QED BY <1>2 DEF Stays, Settles

LEMMA StepSettles ==
  ASSUME LinkInv, NEW p \in Parties, PartyNext(p) \/ StepFails(p) \/ Killed(p)
  PROVE  Settles(p)
<1>1. CASE StepSend(p)
  BY <1>1, GotoSettles DEF StepSend
<1>2. CASE StepRecv(p)
  BY <1>2, GotoSettles, ElseSettles DEF StepRecv
<1>3. CASE StepWork(p)
  BY <1>3, GotoSettles, ElseSettles DEF StepWork
<1>4. CASE StepFails(p)
  BY <1>4, ElseSettles DEF StepFails
<1>5. CASE Finish(p)
  BY <1>5, StatusSettles DEF Finish, Idle
<1>6. CASE Killed(p)
  BY <1>6, StatusSettles, ElseSettles DEF Killed
<1>7. QED BY <1>1, <1>2, <1>3, <1>4, <1>5, <1>6 DEF PartyNext

(* The programs only become shorter.                                       *)
LEMMA Shorter ==
  ASSUME LinkInv, NEW p \in Parties, Settles(p)
  PROVE  /\ \A q \in Parties : Ahead(prog'[q]) \subseteq Ahead(prog[q])
         /\ \A q \in Parties : q # p => prog'[q] = prog[q]
         /\ \A q \in Parties : Todo(q)' \subseteq Todo(q)
         /\ \A q \in Parties : prog[q] = Idle => prog'[q] = Idle
<1>1. /\ \A q \in Parties : Ahead(prog'[q]) \subseteq Ahead(prog[q])
      /\ \A q \in Parties : q # p => prog'[q] = prog[q]
  BY PassTodo, LeaveTodo DEF Settles, Stays
<1>2. \A q \in Parties : Todo(q)' \subseteq Todo(q)
  BY <1>1 DEF Todo
<1>3. prog[p] = Idle => prog' = prog
  BY DEF Settles, Stays, Passes, Leaves, Busy, Idle
<1>4. QED BY <1>1, <1>2, <1>3

(* The request stays as it is, and what should come of it.                 *)
LEMMA SameRequest ==
  ASSUME UNCHANGED <<task, input>>
  PROVE  /\ RequestInv' = RequestInv /\ Common' = Common /\ Reply' = Reply /\ Answer' = Answer
         /\ Served' = Served
         /\ \A p : /\ LoadDataset(p)' = LoadDataset(p) /\ Set(p)' = Set(p)
                   /\ Full(p)' = Full(p)
         /\ \A k, m : m.msg # "package" => Right(k, m)' = Right(k, m)
<1>1. \A p : LoadDataset(p)' = LoadDataset(p)
  BY DEF LoadDataset
<1>2. \A p : Set(p)' = Set(p)
  BY <1>1 DEF Set
<1>3. Common' = Common /\ Reply' = Reply
  BY <1>2 DEF Common, Reply
<1>4. Answer' = Answer
  BY <1>1, <1>3 DEF Answer, EcdhGetIntersection, GetResult, Found
<1>5. \A p : Full(p)' = Full(p)
  BY DEF Full, PirSteps, PsiSteps, RestSteps
<1>6. \A k, m : m.msg # "package" => Right(k, m)' = Right(k, m)
  BY <1>2, <1>3 DEF Right
<1>7. RequestInv' = RequestInv /\ Served' = Served
  BY DEF RequestInv, Served
<1>8. QED BY <1>1, <1>2, <1>3, <1>4, <1>5, <1>6, <1>7

LEMMA SameDb ==
  ASSUME UNCHANGED <<task, input, db>>
  PROVE  /\ PirAnswer' = PirAnswer
         /\ \A n : Matched(n)' = Matched(n)
         /\ \A k, m : Right(k, m)' = Right(k, m)
<1>1. /\ Reply' = Reply /\ \A p : Set(p)' = Set(p)
      /\ \A k, m : m.msg # "package" => Right(k, m)' = Right(k, m)
  BY SameRequest
<1>2. Shared' = Shared
  BY <1>1 DEF Shared
<1>3. \A k : Label(k)' = Label(k)
  BY DEF Label
<1>4. \A n : Matched(n)' = Matched(n) /\ Package(n)' = Package(n)
  BY <1>2, <1>3 DEF Matched, Package
<1>5. PirAnswer' = PirAnswer
  BY <1>2, <1>3 DEF PirAnswer
<1>6. \A k, m : Right(k, m)' = Right(k, m)
  BY <1>1, <1>4 DEF Right
<1>7. QED BY <1>4, <1>5, <1>6

LEMMA StepSame ==
  ASSUME NEW p, PartyNext(p) \/ StepFails(p) \/ Killed(p)
  PROVE  UNCHANGED <<task, input, cache>>
BY DEF PartyNext, StepSend, StepRecv, StepWork, Finish, StepFails, Killed

-----------------------------------------------------------------------------
(* What the actions leave in the state.                                    *)
LEMMA KeyOf ==
  ASSUME LinkInv, NEW p \in Parties, Busy(p), Now(p).do # "work"
  PROVE  /\ Now(p).key \in Keys /\ <<Now(p).node, Now(p).key>> \in Addresses
         /\ <<Now(p).node, Now(p).key>>[2] = Now(p).key
<1>1. Own(p, Now(p))
  BY BusyProgram DEF LinkInv
<1>2. <<Now(p).node, Now(p).key>> \in Addresses
  BY <1>1, AddressOf
<1>3. QED BY <1>2, Pair DEF Addresses

LEMMA FrameKept ==
  ASSUME LinkInv, RequestInv, FrameInv, NEW p \in Parties,
         PartyNext(p) \/ StepFails(p) \/ Killed(p)
  PROVE  FrameInv'
<1>1. /\ elements = [q \in Parties |-> elements[q]] /\ result = [q \in Parties |-> result[q]]
      /\ heard = [q \in Parties |-> [k \in Keys |-> heard[q][k]]]
      /\ \A q \in Parties : Ahead(prog[q]) \subseteq Full(q)
      /\ \A q \in Parties : status[q] = "success" => prog[q] = Idle
      /\ \A q \in Providers : elements[q] \in {<<>>, LoadDataset(q)}
      /\ cache \in {input["CACHE"], input["SERVER"]}
  BY DEF FrameInv
<1>2. /\ \/ elements' = elements
         \/ \E v \in {<<>>, LoadDataset(p)} : elements' = [elements EXCEPT ![p] = v]
      /\ \/ result' = result
         \/ \E v : result' = [result EXCEPT ![p] = v]
      /\ \/ heard' = heard
         \/ \E k \in Keys : \E v : heard' = [heard EXCEPT ![p][k] = v]
  <2>1. CASE StepWork(p)
    BY <2>1 DEF StepWork, Elements
  <2>2. CASE StepRecv(p)
    <3>1. Now(p).key \in Keys
      BY <2>2, KeyOf DEF StepRecv
    <3>2. \E v : heard' = [heard EXCEPT ![p][Now(p).key] = v]
      BY <2>2 DEF StepRecv
    <3>3. elements' = elements /\ \/ result' = result
                                  \/ \E v : result' = [result EXCEPT ![p] = v]
      BY <2>2 DEF StepRecv
    <3>4. QED BY <3>1, <3>2, <3>3
  <2>3. CASE StepSend(p) \/ Finish(p) \/ StepFails(p) \/ Killed(p)
    BY <2>3 DEF StepSend, Finish, StepFails, Killed
  <2>4. QED BY <2>1, <2>2, <2>3 DEF PartyNext
<1>3. elements' = [q \in Parties |-> elements'[q]] /\ result' = [q \in Parties |-> result'[q]]
  BY <1>1, <1>2
<1>4. heard' = [q \in Parties |-> [k \in Keys |-> heard'[q][k]]]
  <2>1. CASE heard' = heard
    BY <1>1, <2>1
  <2>2. ASSUME NEW k \in Keys, NEW v, heard' = [heard EXCEPT ![p][k] = v]
        PROVE  heard' = [q \in Parties |-> [j \in Keys |-> heard'[q][j]]]
    BY <1>1, <2>2
  <2>3. QED BY <1>2, <2>1, <2>2
<1>5. \A q \in Providers : elements'[q] \in {<<>>, LoadDataset(q)}
  BY <1>1, <1>2 DEF Parties
<1>6. Settles(p) /\ UNCHANGED <<task, input, cache>>
  BY StepSettles, StepSame
<1>7. \A q : LoadDataset(q)' = LoadDataset(q) /\ Full(q)' = Full(q)
  BY <1>6, SameRequest
<1>8. \A q \in Parties : Ahead(prog'[q]) \subseteq Full(q)
  BY <1>1, <1>6, Shorter
<1>9. ASSUME NEW q \in Parties, status'[q] = "success" PROVE prog'[q] = Idle
  <2>1. prog[q] = Idle
    BY <1>1, <1>6, <1>9 DEF Settles
  <2>2. QED BY <1>6, <2>1, Shorter
<1>10. cache' \in {input["CACHE"], input["SERVER"]}'
  BY <1>1, <1>6
<1>11. QED BY <1>3, <1>4, <1>5, <1>7, <1>8, <1>9, <1>10 DEF FrameInv

LEMMA EnclaveKept ==
  ASSUME LinkInv, RequestInv, FrameInv, EnclaveInv, NEW p \in Parties,
         PartyNext(p) \/ StepFails(p) \/ Killed(p)
  PROVE  EnclaveInv'
<1> DEFINE a == <<"CLIENT", "result_id">>
<1>1. Settles(p) /\ task' = task
  BY StepSettles, StepSame
<1> SUFFICES ASSUME task.kind = "TEE" PROVE EnclaveInv'
  BY <1>1 DEF EnclaveInv
<1>2. /\ status["TEE_COMPUTE"] = "failed" => "load" \in Todo("TEE_COMPUTE")
      /\ "load" \in Todo("TEE_COMPUTE") =>
           /\ queue[a] = <<>> /\ result["CLIENT"] = <<>>
           /\ "intersect" \in Todo("CLIENT") => "response" \in Todo("CLIENT")
  BY DEF EnclaveInv
<1>3. "TEE_COMPUTE" \in Parties /\ "CLIENT" \in Parties /\ a \in Addresses
  BY DEF Parties, Providers, Addresses, Keys
<1>4. ASSUME status'["TEE_COMPUTE"] = "failed" PROVE "load" \in Todo("TEE_COMPUTE")'
  <2>1. CASE status["TEE_COMPUTE"] = "failed"
    <3>1. prog'["TEE_COMPUTE"] = prog["TEE_COMPUTE"]
      <4>1. CASE p # "TEE_COMPUTE"
        BY <1>1, <1>3, <4>1, Shorter
      <4>2. CASE p = "TEE_COMPUTE"
        BY <1>1, <2>1, <4>2 DEF Settles, Stays, Passes, Leaves, Busy
      <4>3. QED BY <4>1, <4>2
    <3>2. QED BY <1>2, <2>1, <3>1 DEF Todo
  <2>2. CASE status["TEE_COMPUTE"] # "failed"
    <3>1. p = "TEE_COMPUTE" /\ Stays /\ Busy(p) /\ Now(p).else \notin {"skip", "leave"}
      BY <1>1, <1>3, <1>4, <2>2 DEF Settles
    <3>2. Takes("TEE", p, Now(p)) /\ Now(p).msg \in Todo(p)
      BY <3>1, NowFacts DEF Facts
    <3>3. "load" \in Todo(p)
      BY <3>1, <3>2 DEF Takes
    <3>4. QED BY <3>1, <3>3 DEF Todo, Stays
  <2>3. QED BY <2>1, <2>2
<1>5. ASSUME "load" \in Todo("TEE_COMPUTE")'
      PROVE  /\ queue'[a] = <<>> /\ result'["CLIENT"] = <<>>
             /\ "intersect" \in Todo("CLIENT")' => "response" \in Todo("CLIENT")'
  <2>1. "load" \in Todo("TEE_COMPUTE")
    BY <1>1, <1>3, <1>5, Shorter
  <2>2. /\ queue[a] = <<>> /\ result["CLIENT"] = <<>>
        /\ "intersect" \in Todo("CLIENT") => "response" \in Todo("CLIENT")
    BY <1>2, <2>1
  <2>3. queue'[a] = <<>>
    <3>1. CASE StepSend(p)
      <4>1. Busy(p) /\ Now(p).do = "send"
        BY <3>1 DEF StepSend
      <4>2. Facts("TEE", p, Now(p))
        BY <4>1, NowFacts
      <4>3. Now(p).msg # "load"
        BY <4>1, <4>2 DEF Facts, Takes, Works
      <4>4. p # "TEE_COMPUTE"
        BY <2>1, <4>1, <4>3, Past
      <4>5. <<Now(p).node, Now(p).key>> # a
        BY <4>1, <4>2, <4>4, Pair DEF Facts, Sends
      <4>6. queue'[a] = queue[a]
        <5>1. \E e : queue' = [queue EXCEPT ![<<Now(p).node, Now(p).key>>] =
                                 Append(queue[<<Now(p).node, Now(p).key>>], e)]
          BY <3>1 DEF StepSend
        <5>2. queue = [b \in Addresses |-> queue[b]]
          BY DEF LinkInv, Shape
        <5>3. QED BY <1>3, <4>5, <5>1, <5>2
      <4>7. QED BY <2>2, <4>6
    <3>2. CASE StepRecv(p)
      <4>1. queue[<<Now(p).node, Now(p).key>>] # <<>>
        BY <3>2 DEF StepRecv
      <4>2. queue' = [queue EXCEPT ![<<Now(p).node, Now(p).key>>] =
                                 Tail(queue[<<Now(p).node, Now(p).key>>])]
        BY <3>2 DEF StepRecv
      <4>3. queue = [b \in Addresses |-> queue[b]]
        BY DEF LinkInv, Shape
      <4>4. QED BY <1>3, <2>2, <4>1, <4>2, <4>3
    <3>3. CASE StepWork(p) \/ Finish(p) \/ StepFails(p) \/ Killed(p)
      BY <2>2, <3>3 DEF StepWork, Finish, StepFails, Killed
    <3>4. QED BY <3>1, <3>2, <3>3 DEF PartyNext
  <2>4. result'["CLIENT"] = <<>>
    <3>1. CASE StepRecv(p)
      <4>1. Busy(p) /\ Now(p).do = "recv"
        BY <3>1 DEF StepRecv
      <4>2. Receives("TEE", p, Now(p))
        BY <4>1, NowFacts DEF Facts
      <4>3. p = "CLIENT" => Now(p).msg # "result"
        BY <4>1, <4>2 DEF Receives
      <4>4. result' = result \/ \E v : result' = [result EXCEPT ![p] = v] /\ p # "CLIENT"
        BY <3>1, <4>3 DEF StepRecv
      <4>5. QED BY <1>3, <2>2, <4>4 DEF FrameInv
    <3>2. CASE StepWork(p)
      <4>1. Busy(p) /\ Now(p).do = "work"
        BY <3>2 DEF StepWork
      <4>2. Takes("TEE", p, Now(p)) /\ Now(p).msg \in Todo(p)
        BY <4>1, NowFacts DEF Facts
      <4>3. p = "CLIENT" => Now(p).msg \notin {"intersect", "compute", "extract"}
        BY <2>2, <4>1, <4>2, Past DEF Takes
      <4>4. result' = result \/ \E v : result' = [result EXCEPT ![p] = v] /\ p # "CLIENT"
        BY <3>2, <4>3 DEF StepWork
      <4>5. QED BY <1>3, <2>2, <4>4 DEF FrameInv
    <3>3. CASE StepSend(p) \/ Finish(p) \/ StepFails(p) \/ Killed(p)
      BY <2>2, <3>3 DEF StepSend, Finish, StepFails, Killed
    <3>4. QED BY <3>1, <3>2, <3>3 DEF PartyNext
  <2>5. ASSUME "intersect" \in Todo("CLIENT")' PROVE "response" \in Todo("CLIENT")'
    <3>1. "intersect" \in Todo("CLIENT") /\ "response" \in Todo("CLIENT")
      BY <1>1, <1>3, <2>2, <2>5, Shorter
    <3>2. CASE prog'["CLIENT"] = prog["CLIENT"]
      BY <3>1, <3>2 DEF Todo
    <3>3. CASE p = "CLIENT" /\ Leaves(p)
      <4>1. PICK t \in Ahead(prog'["CLIENT"]) : t.msg = "intersect"
        BY <2>5 DEF Todo
      <4>2. t.else # "leave" /\ t \in Ahead(prog[p]) /\ Busy(p)
        BY <1>3, <3>3, <4>1, LeaveTodo DEF Leaves
      <4>3. Takes("TEE", p, t)
        BY <4>2, NowFacts DEF Facts
      <4>4. QED BY <4>1, <4>2, <4>3 DEF Takes
    <3>4. CASE p = "CLIENT" /\ Passes(p) /\ Now(p).msg # "response"
      BY <1>3, <3>1, <3>4, PassTodo DEF Todo
    <3>5. CASE p = "CLIENT" /\ Busy(p) /\ Now(p).msg = "response"
      <4>1. Facts("TEE", p, Now(p))
        BY <3>5, NowFacts
      <4>2. Now(p).do = "recv"
        BY <3>5, <4>1 DEF Facts, Takes, Sends, Works
      <4>3. <<Now(p).node, Now(p).key>> = a /\ Now(p).else = "leave"
        BY <3>5, <4>1, <4>2 DEF Facts, Receives
      <4>4. ~StepRecv(p) /\ ~StepSend(p) /\ ~StepWork(p)
        BY <2>2, <4>2, <4>3 DEF StepRecv, StepSend, StepWork
      <4>5. ~Finish(p) /\ ~StepFails(p)
        BY <3>5, <4>2 DEF Finish, StepFails, Busy
      <4>6. Else(p)
        BY <4>4, <4>5 DEF PartyNext, Killed
      <4>7. QED BY <3>3, <3>5, <4>3, <4>6, ElseSettles
    <3>6. QED BY <1>1, <1>3, <3>2, <3>3, <3>4, <3>5, Shorter DEF Settles, Stays, Passes
  <2>6. QED BY <2>3, <2>4, <2>5
<1>6. QED BY <1>4, <1>5 DEF EnclaveInv

-----------------------------------------------------------------------------
(* Where nothing is passed over, a step is passed or is not.               *)
LEMMA CleanBefore ==
  ASSUME LinkInv, RequestInv, FrameInv, Clean => CleanInv, NEW p \in Parties,
         PartyNext(p) \/ StepFails(p) \/ Killed(p), Clean'
  PROVE  Clean /\ (Stays \/ Passes(p))
<1>1. Settles(p) /\ task' = task
  BY StepSettles, StepSame
<1>2. hidden => hidden'
  BY DEF PartyNext, StepSend, StepRecv, StepWork, Finish, StepFails, Killed
<1>3. \A q \in Parties : status[q] = "failed" => status'[q] = "failed"
  BY <1>1 DEF Settles
<1>4. Clean
  BY <1>1, <1>2, <1>3 DEF Clean, Stopped
<1>5. CASE StepSend(p)
  BY <1>4, <1>5, GotoSettles DEF StepSend
<1>6. CASE StepRecv(p)
  <2> DEFINE s == Now(p)
             a == <<s.node, s.key>>
  <2>1. /\ Busy(p) /\ s.do = "recv" /\ queue[a] # <<>>
        /\ \/ Head(queue[a]).body = {} /\ Else(p)
           \/ UNCHANGED <<prog, status>>
           \/ Goto(p, After(p))
    BY <1>6 DEF StepRecv
  <2>2. CASE Else(p) /\ Head(queue[a]).body = {}
    <3>1. s.else # "leave"
      <4> SUFFICES ASSUME s.else = "leave" PROVE FALSE
        OBVIOUS
      <4>1. s.msg \in {"response", "data"}
        BY <2>1, NowFacts DEF Facts, Receives
      <4>2. a \in Addresses /\ Head(queue[a]).msg = s.msg
        BY <2>1, KeyOf, LinkMatches DEF MessagesMatch
      <4>3. PICK S : queue[a] \in Seq(S)
        BY <4>2 DEF LinkInv, Shape
      <4>4. 1 \in DOMAIN queue[a] /\ queue[a][1] = Head(queue[a])
        BY <2>1, <4>3, LenProperties, EmptySeq, HeadTailProperties
      <4>5. Right(a[2], Head(queue[a]))
        BY <1>4, <4>2, <4>4 DEF CleanInv, QueueInv
      <4>6. QED BY <2>2, <4>1, <4>2, <4>5 DEF Right
    <3>2. QED BY <1>4, <2>1, <2>2, <3>1, ElseSettles
  <2>3. CASE UNCHANGED <<prog, status>> \/ Goto(p, After(p))
    BY <1>4, <2>1, <2>3, GotoSettles DEF Stays
  <2>4. QED BY <1>4, <2>1, <2>2, <2>3
<1>7. CASE StepWork(p)
  <2>1. /\ Busy(p)
        /\ \/ Else(p) /\ Now(p).msg \in {"not_empty", "load"}
           \/ Goto(p, After(p))
    BY <1>7 DEF StepWork
  <2>2. Stays \/ Passes(p)
    <3>1. CASE Else(p) /\ Now(p).msg \in {"not_empty", "load"}
      <4>1. Now(p).else = "fail"
        BY <2>1, <3>1, NowFacts DEF Facts, Takes
      <4>2. QED BY <2>1, <3>1, <4>1, ElseSettles
    <3>2. CASE Goto(p, After(p))
      BY <2>1, <3>2, GotoSettles
    <3>3. QED BY <2>1, <3>1, <3>2
  <2>3. QED BY <1>4, <2>2
<1>8. CASE StepFails(p)
  <2>1. Stays
    BY <1>8, ElseSettles DEF StepFails, Clean
  <2>2. QED BY <1>4, <2>1
<1>9. CASE Killed(p) \/ Finish(p)
  <2>1. Stays
    BY <1>4, <1>9 DEF Killed, Finish, Clean, Stopped, Stays
  <2>2. QED BY <1>4, <2>1
<1>10. QED BY <1>5, <1>6, <1>7, <1>8, <1>9 DEF PartyNext

(* A failure ends the party that meets it.                                 *)
LEMMA FailStays ==
  ASSUME LinkInv, Clean, NEW p \in Parties, StepFails(p) \/ Killed(p), Clean'
  PROVE  Stays
<1>1. CASE StepFails(p)
  BY <1>1, ElseSettles DEF StepFails, Clean
<1>2. CASE Killed(p)
  BY <1>2 DEF Killed, Clean, Stopped, Stays
<1>3. QED BY <1>1, <1>2

(* Only the step before p is done.                                         *)
OnlyNow(p) ==
  /\ \A q \in Parties : \A m : m \in Todo(q) => m \in Todo(q)' \/ (q = p /\ Passes(p) /\ m = Now(p).msg)
  /\ \A k : Fetching(k) => \/ Fetching(k)'
                           \/ p = "TEE_COMPUTE" /\ Passes(p) /\ Now(p).msg = "data" /\ Now(p).key = k

LEMMA OneDone ==
  ASSUME LinkInv, NEW p \in Parties, Stays \/ Passes(p)
  PROVE  OnlyNow(p)
<1>1. CASE Stays
  BY <1>1 DEF Stays, OnlyNow, Todo, Fetching
<1>2. CASE Passes(p)
  <2>1. \A q \in Parties : \A t : t \in Ahead(prog[q]) => t \in Ahead(prog'[q]) \/ (q = p /\ t = Now(p))
    BY <1>2, PassTodo
  <2>2. \A q \in Parties : \A m : m \in Todo(q) => m \in Todo(q)' \/ (q = p /\ Passes(p) /\ m = Now(p).msg)
    BY <1>2, <2>1 DEF Todo
  <2>3. "TEE_COMPUTE" \in Parties
    BY DEF Parties
  <2>4. \A k : Fetching(k) =>
          \/ Fetching(k)'
          \/ p = "TEE_COMPUTE" /\ Passes(p) /\ Now(p).msg = "data" /\ Now(p).key = k
    BY <1>2, <2>1, <2>3 DEF Fetching
  <2>5. QED BY <2>2, <2>4 DEF OnlyNow
<1>3. QED BY <1>1, <1>2

(* No data changes.                                                        *)
LEMMA QuietClean ==
  ASSUME CleanInv, use_cache => use_cache',
         UNCHANGED <<task, input, elements, prog, queue, heard, db, result>>
  PROVE  CleanInv'
<1>1. /\ Common' = Common /\ Reply' = Reply /\ Answer' = Answer
      /\ PirAnswer' = PirAnswer /\ Served' = Served
      /\ \A p : LoadDataset(p)' = LoadDataset(p) /\ Set(p)' = Set(p)
      /\ \A n : Matched(n)' = Matched(n)
      /\ \A k, m : Right(k, m)' = Right(k, m)
  BY SameRequest, SameDb
<1>2. (\A q : Todo(q)' = Todo(q)) /\ (\A k : Fetching(k)' = Fetching(k)) /\ Heard' = Heard
      /\ HeardItems' = HeardItems /\ Ready' = Ready /\ NoPackage' = NoPackage
  BY DEF Todo, Fetching, Heard, HeardItems, Ready, NoPackage
<1>3. LoadInv' /\ QueueInv'
  BY <1>1, <1>2 DEF CleanInv, LoadInv, QueueInv
<1>4. PsiHeardInv' /\ TeeHeardInv'
  BY <1>1, <1>2 DEF CleanInv, PsiHeardInv, TeeHeardInv
<1>5. QueryInv' /\ PackageInv'
  BY <1>1, <1>2 DEF CleanInv, QueryInv, PackageInv
<1>6. AnswerInv' /\ DbInv'
  BY <1>1, <1>2 DEF CleanInv, AnswerInv, DbInv
<1>7. QED BY <1>3, <1>4, <1>5, <1>6 DEF CleanInv

(* The elements of a queue after a message is added or taken.              *)
LEMMA AppendWhere ==
  ASSUME NEW S, NEW q \in Seq(S), NEW e, NEW i \in DOMAIN Append(q, e)
  PROVE  (i \in DOMAIN q /\ Append(q, e)[i] = q[i]) \/ Append(q, e)[i] = e
<1>1. q \in Seq(S \cup {e}) /\ e \in S \cup {e}
  BY SeqMonotonic
<1>2. /\ Append(q, e) \in Seq(S \cup {e}) /\ Len(Append(q, e)) = Len(q) + 1 /\ Len(q) \in Nat
      /\ DOMAIN q = 1..Len(q)
      /\ \A j \in 1..Len(q) : Append(q, e)[j] = q[j]
      /\ Append(q, e)[Len(q) + 1] = e
  BY <1>1, AppendProperties, LenProperties
<1>3. i \in 1..(Len(q) + 1)
  BY <1>2, LenProperties
<1>4. QED BY <1>2, <1>3

LEMMA TailWhere ==
  ASSUME NEW S, NEW q \in Seq(S), q # <<>>
  PROVE  /\ 1 \in DOMAIN q /\ q[1] = Head(q)
         /\ \A i \in DOMAIN Tail(q) : \E j \in DOMAIN q : Tail(q)[i] = q[j]
<1>1. Len(q) \in Nat /\ DOMAIN q = 1..Len(q) /\ Len(q) # 0
  BY LenProperties, EmptySeq
<1>2. /\ Head(q) = q[1] /\ Tail(q) \in Seq(S) /\ Len(Tail(q)) = Len(q) - 1
      /\ \A i \in 1..Len(Tail(q)) : Tail(q)[i] = q[i + 1]
  BY HeadTailProperties
<1>3. DOMAIN Tail(q) = 1..(Len(q) - 1)
  BY <1>2, LenProperties
<1>4. ASSUME NEW i \in DOMAIN Tail(q) PROVE i + 1 \in DOMAIN q /\ Tail(q)[i] = q[i + 1]
  BY <1>1, <1>2, <1>3
<1>5. QED BY <1>1, <1>2, <1>4

-----------------------------------------------------------------------------
(* A message that is sent holds what it should.                            *)
LEMMA ItemMarks ==
  /\ \A m \in Marks : m \notin Items /\ <<m, m>> \notin Items
  /\ \A b \in Bundles : <<"bundle", b, b>> \notin Items
  /\ <<"setup", "setup">> \notin Items /\ "bundle" \notin Items
BY KernelAssumption DEF Marks

LEMMA LoadedNow ==
  ASSUME LinkInv, RequestInv, FrameInv, CleanInv, NEW p \in Providers, Busy(p),
         Now(p).msg # "load", p = "CLIENT" \/ task.kind # "PIR"
  PROVE  elements[p] = LoadDataset(p) /\ ToSet(elements[p]) = Set(p)
<1>1. p \in Parties
  BY DEF Parties
<1>2. "load" \notin Todo(p)
  BY <1>1, Past
<1>3. QED BY <1>2 DEF CleanInv, LoadInv, Set, use_cache

LEMMA BodyRight ==
  ASSUME LinkInv, RequestInv, FrameInv, CleanInv, NEW p \in Parties, Busy(p),
         Now(p).do = "send", NEW body \in Bodies(p, Now(p).msg)
  PROVE  Right(Now(p).key, [msg |-> Now(p).msg, body |-> body])
<1> DEFINE s == Now(p)
           e == [msg |-> s.msg, body |-> body]
<1>1. Takes(task.kind, p, s) /\ Sends(task.kind, p, s)
  BY NowFacts DEF Facts
<1>2. s.msg # "load"
  BY <1>1 DEF Takes, Works
<1>3. p \in Providers /\ (p = "CLIENT" \/ task.kind # "PIR") =>
        elements[p] = LoadDataset(p) /\ ToSet(elements[p]) = Set(p)
  BY <1>2, LoadedNow
<1>4. e.msg = s.msg /\ e.body = body
  OBVIOUS
<1>5. CASE s.msg = "response"
  <2>1. body = ToSet(IF p = "SERVER" THEN elements[p] ELSE result[p]) \cup {<<"setup", "setup">>}
    BY <1>5 DEF Bodies
  <2>2. ToSet(IF p = "SERVER" THEN elements[p] ELSE result[p]) = Reply
    <3>1. CASE p = "SERVER" /\ task.kind \in {"ECDH", "KKRT"}
      BY <1>3, <3>1 DEF Reply, Providers
    <3>2. CASE p = "TEE_COMPUTE" /\ task.kind = "TEE"
      <4>1. "compute" \notin Todo("TEE_COMPUTE")
        BY <1>5, <3>2, Past
      <4>2. result["TEE_COMPUTE"] = SetToSeq(Common)
        BY <3>2, <4>1 DEF CleanInv, AnswerInv
      <4>3. ToSet(SetToSeq(Common)) = Common
        BY ReplyFacts, SeqOfSet
      <4>4. QED BY <3>2, <4>2, <4>3 DEF Reply
    <3>3. QED BY <1>1, <1>5, <3>1, <3>2 DEF Sends
  <2>3. body \cap Items = Reply /\ body # {}
    BY <2>1, <2>2, ReplyFacts, ItemMarks
  <2>4. QED BY <1>4, <1>5, <2>3 DEF Right, Marks
<1>6. CASE s.msg = "data"
  <2>1. body = ToSet(elements[p]) /\ p \in Providers /\ s.key = p /\ task.kind = "TEE"
    BY <1>1, <1>6 DEF Bodies, Sends
  <2>2. "not_empty" \notin Todo(p)
    BY <1>6, Past
  <2>3. Set(p) # {}
    BY <2>1, <2>2 DEF CleanInv, LoadInv
  <2>4. QED BY <1>3, <1>4, <1>6, <2>1, <2>3 DEF Right, Marks
<1>7. CASE s.msg = "query"
  <2>1. body = ToSet(elements[p]) /\ p = "CLIENT"
    BY <1>1, <1>7 DEF Bodies, Sends
  <2>2. QED BY <1>3, <1>4, <1>7, <2>1 DEF Right, Marks, Providers
<1>8. CASE s.msg = "package"
  <2>1. p = "SERVER" /\ task.kind = "PIR"
    BY <1>1, <1>8 DEF Sends
  <2>2. PICK b \in Bundles : body = {<<"bundle", b, b>>} \cup Matches(b)
    BY <1>8 DEF Bodies
  <2>3. heard["SERVER"]["pir_key"] \cap Items = Set("CLIENT")
    <3>1. "query" \notin Todo("SERVER")
      BY <1>8, <2>1, Past
    <3>2. QED BY <2>1, <3>1 DEF CleanInv, QueryInv
  <2>4. ToSet(db) \subseteq Items
    <3>1. Ready
      BY <1>8, <2>1, Past DEF Ready
    <3>2. db \in Seq(Items)
      BY <2>1, <3>1 DEF CleanInv, DbInv, Served, RequestInv, Providers
    <3>3. QED BY <3>2, SeqCounts
  <2>5. DOMAIN CreateDb = ToSet(db) /\ \A k \in ToSet(db) : CreateDb[k] = Label(k)
    BY DEF CreateDb, Label
  <2>6. DOMAIN CreateDb \cap heard["SERVER"]["pir_key"] = Shared
    BY <2>3, <2>4, <2>5 DEF Shared
  <2>7. Matches(b) = Matched(b)
    BY <2>5, <2>6 DEF Matches, Matched, Shared
  <2>8. body = Package(b)
    BY <2>2, <2>7 DEF Package
  <2>9. QED BY <1>4, <1>8, <2>8 DEF Right, Marks
<1>9. CASE s.msg \in {"result", "request"}
  BY <1>4, <1>9 DEF Right, Marks
<1>10. CASE s.msg \in Marks
  <2>1. body \subseteq {<<s.msg, s.msg>>}
    BY <1>10 DEF Bodies, Marks
  <2>2. QED BY <1>4, <1>10, <2>1 DEF Right, Marks
<1>11. QED BY <1>1, <1>5, <1>6, <1>7, <1>8, <1>9, <1>10 DEF Sends

(* What is passed by a send is nothing that the results rest on.           *)
LEMMA SendClean ==
  ASSUME LinkInv, RequestInv, FrameInv, CleanInv, NEW p \in Parties, StepSend(p)
  PROVE  CleanInv'
<1> DEFINE s == Now(p)
           a == <<s.node, s.key>>
<1>1. PICK body \in Bodies(p, s.msg) :
        queue' = [queue EXCEPT ![a] = Append(queue[a], [msg |-> s.msg, body |-> body])]
  BY DEF StepSend
<1>2. /\ Busy(p) /\ s.do = "send" /\ UNCHANGED <<task, input, cache, elements, heard, db, result>>
      /\ Goto(p, After(p)) \/ UNCHANGED <<prog, status>>
  BY DEF StepSend
<1>3. OnlyNow(p)
  BY <1>2, GotoSettles, OneDone
<1>4. Takes(task.kind, p, s) /\ Sends(task.kind, p, s)
  BY <1>2, NowFacts DEF Facts
<1>5. a \in Addresses /\ a[2] = s.key
  BY <1>2, KeyOf
<1>6. Right(s.key, [msg |-> s.msg, body |-> body])
  BY <1>2, BodyRight
<1>7. /\ Common' = Common /\ Reply' = Reply /\ Answer' = Answer
      /\ PirAnswer' = PirAnswer /\ Served' = Served
      /\ \A q : LoadDataset(q)' = LoadDataset(q) /\ Set(q)' = Set(q)
      /\ \A n : Matched(n)' = Matched(n)
      /\ \A k, m : Right(k, m)' = Right(k, m)
  BY <1>2, SameRequest, SameDb
<1>8. QueueInv'
  <2> DEFINE e == [msg |-> s.msg, body |-> body]
  <2>1. Right(s.key, e)
    BY <1>6
  <2>2. queue = [b \in Addresses |-> queue[b]] /\ \E S : queue[a] \in Seq(S)
    BY <1>5 DEF LinkInv, Shape
  <2>3. queue' = [queue EXCEPT ![a] = Append(queue[a], e)]
    BY <1>1
  <2> HIDE DEF e, a, s
  <2>4. queue'[a] = Append(queue[a], e) /\ \A b \in Addresses : b # a => queue'[b] = queue[b]
    BY <1>5, <2>2, <2>3
  <2>5. ASSUME NEW b \in Addresses, NEW i \in DOMAIN queue'[b] PROVE Right(b[2], queue'[b][i])
    <3>1. CASE b # a
      BY <2>4, <3>1 DEF CleanInv, QueueInv
    <3>2. CASE b = a
      <4>1. (i \in DOMAIN queue[a] /\ queue'[a][i] = queue[a][i]) \/ queue'[a][i] = e
        BY <2>2, <2>4, <2>5, <3>2, AppendWhere
      <4>2. QED BY <1>5, <2>1, <3>2, <4>1 DEF CleanInv, QueueInv
    <3>3. QED BY <3>1, <3>2
  <2>6. QED BY <1>7, <2>5 DEF QueueInv
<1>9. "CLIENT" \in Parties /\ "SERVER" \in Parties /\ "TEE_COMPUTE" \in Parties /\ Providers \subseteq Parties
  BY DEF Parties, Providers
<1>10. /\ \A q \in Parties : "load" \notin Todo(q)' => "load" \notin Todo(q)
       /\ \A q \in Parties : "not_empty" \notin Todo(q)' => "not_empty" \notin Todo(q)
       /\ \A q \in Parties : "compute" \notin Todo(q)' => "compute" \notin Todo(q)
       /\ \A q \in Parties : "intersect" \notin Todo(q)' => "intersect" \notin Todo(q)
       /\ \A q \in Parties : "extract" \notin Todo(q)' => "extract" \notin Todo(q)
       /\ \A q \in Parties : "make_db" \notin Todo(q)' => "make_db" \notin Todo(q)
  BY <1>2, <1>3, <1>4 DEF OnlyNow, Takes, Works
<1>11. /\ "response" \notin Todo("CLIENT")' => "response" \notin Todo("CLIENT")
       /\ "package" \notin Todo("CLIENT")' => "package" \notin Todo("CLIENT")
       /\ "query" \notin Todo("SERVER")' => "query" \notin Todo("SERVER")
       /\ \A k : ~Fetching(k)' => ~Fetching(k)
  BY <1>2, <1>3, <1>4, <1>9 DEF OnlyNow, Sends, Providers
<1>12. LoadInv'
  BY <1>2, <1>7, <1>9, <1>10 DEF CleanInv, LoadInv, use_cache
<1>13. PsiHeardInv' /\ TeeHeardInv'
  BY <1>2, <1>7, <1>11 DEF CleanInv, PsiHeardInv, TeeHeardInv, HeardItems
<1>14. QueryInv' /\ PackageInv'
  BY <1>2, <1>7, <1>11 DEF CleanInv, QueryInv, PackageInv, Heard
<1>15. \A q \in Parties : Todo(q)' \subseteq Todo(q)
  BY <1>2, GotoSettles, Shorter
<1>16. AnswerInv'
  BY <1>2, <1>7, <1>9, <1>10, <1>15 DEF CleanInv, AnswerInv
<1>17. Ready' => Ready
  BY <1>9, <1>10 DEF Ready
<1>18. DbInv'
  <2> SUFFICES ASSUME task.kind = "PIR" PROVE (Ready => db \in Served) /\ (~Ready => Heard = {} /\ NoPackage')
    BY <1>2, <1>7, <1>9, <1>15, <1>17 DEF DbInv, Heard, Ready
  <2>1. (Ready => db \in Served) /\ (~Ready => Heard = {} /\ NoPackage)
    BY DEF CleanInv, DbInv
  <2>2. ASSUME ~Ready PROVE NoPackage'
    <3> DEFINE e == [msg |-> s.msg, body |-> body]
    <3>1. e.msg # "package"
      BY <1>2, <1>4, <2>2, Past DEF Sends, Ready
    <3>2. queue = [b \in Addresses |-> queue[b]] /\ \E S : queue[a] \in Seq(S)
      BY <1>5 DEF LinkInv, Shape
    <3>3. queue' = [queue EXCEPT ![a] = Append(queue[a], e)]
      BY <1>1
    <3> HIDE DEF e, a, s
    <3>4. queue'[a] = Append(queue[a], e) /\ \A b \in Addresses : b # a => queue'[b] = queue[b]
      BY <1>5, <3>2, <3>3
    <3>5. ASSUME NEW b \in Addresses, NEW i \in DOMAIN queue'[b] PROVE queue'[b][i].msg # "package"
      <4>1. CASE b # a
        BY <2>1, <2>2, <3>4, <4>1 DEF NoPackage
      <4>2. CASE b = a
        <5>1. (i \in DOMAIN queue[a] /\ queue'[a][i] = queue[a][i]) \/ queue'[a][i] = e
          BY <3>2, <3>4, <3>5, <4>2, AppendWhere
        <5>2. QED BY <1>5, <2>1, <2>2, <3>1, <4>2, <5>1 DEF NoPackage
      <4>3. QED BY <4>1, <4>2
    <3>6. QED BY <3>5 DEF NoPackage
  <2>3. QED BY <2>1, <2>2
<1>19. QED BY <1>8, <1>12, <1>13, <1>14, <1>16, <1>18 DEF CleanInv

-----------------------------------------------------------------------------
(* What bodies add to what was heard.                                      *)
LEMMA PackageParts ==
  ASSUME RequestInv, NEW n \in Bundles
  PROVE  Pairs(Package(n)) = Matched(n) /\ BundlesIn(Package(n)) = {n} /\ Package(n) # {}
<1>1. \A x \in Matched(n) : \E k \in Items : x = <<k, Label(k)>>
  BY ReplyFacts DEF Matched, Shared, Providers
<1>2. <<"bundle", n, n>>[1] = "bundle" /\ "bundle" \notin Items
  BY ItemMarks
<1>3. \A x \in Matched(n) : x[1] \in Items
  BY <1>1
<1>4. Pairs(Package(n)) = Matched(n)
  BY <1>2, <1>3 DEF Pairs, Package
<1>5. \A b \in Bundles : <<"bundle", b, b>> \notin Matched(n)
  BY <1>1
<1>6. BundlesIn(Package(n)) = {n}
  BY <1>5 DEF BundlesIn, Package
<1>7. QED BY <1>4, <1>6 DEF Package

LEMMA MarkParts ==
  ASSUME NEW m \in Marks, NEW y, y \subseteq {<<m, m>>}
  PROVE  Pairs(y) = {} /\ BundlesIn(y) = {} /\ y \cap Items = {}
<1>1. m \notin Items /\ <<m, m>> \notin Items /\ <<m, m>>[1] = m
  BY ItemMarks
<1>2. \A b : <<"bundle", b, b>> # <<m, m>>
  OBVIOUS
<1>3. QED BY <1>1, <1>2 DEF Pairs, BundlesIn

LEMMA PairsUnion ==
  ASSUME NEW x, NEW y
  PROVE  Pairs(x \cup y) = Pairs(x) \cup Pairs(y)
BY DEF Pairs

(* What a receive of party p adds.                                         *)
LEMMA RecvAdds ==
  ASSUME LinkInv, RequestInv, FrameInv, CleanInv, NEW p \in Parties, StepRecv(p)
  PROVE  LET s == Now(p)  m == Head(queue[<<s.node, s.key>>]) IN
         /\ Busy(p) /\ s.do = "recv" /\ Right(s.key, m) /\ m.msg = s.msg /\ s.key \in Keys
         /\ \A q \in Parties, k \in Keys :
              heard'[q][k] = IF q = p /\ k = s.key THEN heard[q][k] \cup m.body ELSE heard[q][k]
         /\ \A q \in {"CLIENT", "TEE_COMPUTE"} : result'[q] = result[q]
         /\ QueueInv' /\ (NoPackage => m.msg # "package" /\ NoPackage')
<1> DEFINE s == Now(p)
           a == <<s.node, s.key>>
           m == Head(queue[a])
<1>1. /\ Busy(p) /\ s.do = "recv" /\ queue[a] # <<>>
      /\ heard' = [heard EXCEPT ![p][s.key] = heard[p][s.key] \cup m.body]
      /\ result' = result \/ (s.msg = "result" /\ \E v : result' = [result EXCEPT ![p] = v])
      /\ queue' = [queue EXCEPT ![a] = Tail(queue[a])]
      /\ UNCHANGED <<task, input, db>>
  BY DEF StepRecv
<1>2. a \in Addresses /\ a[2] = s.key /\ s.key \in Keys
  BY <1>1, KeyOf
<1>3. m.msg = s.msg
  BY <1>1, LinkMatches DEF MessagesMatch
<1>4. queue = [b \in Addresses |-> queue[b]] /\ \E S : queue[a] \in Seq(S)
  BY <1>2 DEF LinkInv, Shape
<1>5. /\ 1 \in DOMAIN queue[a] /\ queue[a][1] = m
      /\ \A i \in DOMAIN Tail(queue[a]) : \E j \in DOMAIN queue[a] : Tail(queue[a])[i] = queue[a][j]
  <2>1. PICK S : queue[a] \in Seq(S)
    BY <1>4
  <2> DEFINE q == queue[a]
  <2>2. q \in Seq(S) /\ q # <<>>
    BY <1>1, <2>1
  <2> HIDE DEF q
  <2>3. /\ 1 \in DOMAIN q /\ q[1] = Head(q)
        /\ \A i \in DOMAIN Tail(q) : \E j \in DOMAIN q : Tail(q)[i] = q[j]
    BY <2>2, TailWhere
  <2>4. QED BY <2>3 DEF q
<1>6. Right(s.key, m)
  BY <1>2, <1>5 DEF CleanInv, QueueInv
<1>7. QueueInv'
  <2>1. queue'[a] = Tail(queue[a]) /\ \A b \in Addresses : b # a => queue'[b] = queue[b]
    BY <1>1, <1>2, <1>4
  <2> HIDE DEF a
  <2>2. ASSUME NEW b \in Addresses, NEW i \in DOMAIN queue'[b] PROVE Right(b[2], queue'[b][i])
    <3>1. CASE b # a
      BY <2>1, <3>1 DEF CleanInv, QueueInv
    <3>2. CASE b = a
      <4>1. PICK j \in DOMAIN queue[a] : queue'[a][i] = queue[a][j]
        BY <1>5, <2>1, <2>2, <3>2
      <4>2. QED BY <3>2, <4>1 DEF CleanInv, QueueInv
    <3>3. QED BY <3>1, <3>2
  <2>3. \A k, e : Right(k, e)' = Right(k, e)
    BY <1>1, SameDb
  <2>4. QED BY <2>2, <2>3 DEF QueueInv
<1>8. NoPackage => m.msg # "package" /\ NoPackage'
  <2> SUFFICES ASSUME NoPackage PROVE m.msg # "package" /\ NoPackage'
    OBVIOUS
  <2>1. queue'[a] = Tail(queue[a]) /\ \A b \in Addresses : b # a => queue'[b] = queue[b]
    BY <1>1, <1>2, <1>4
  <2>2. m.msg # "package"
    BY <1>2, <1>5 DEF NoPackage
  <2> HIDE DEF a, m
  <2>3. ASSUME NEW b \in Addresses, NEW i \in DOMAIN queue'[b] PROVE queue'[b][i].msg # "package"
    <3>1. CASE b # a
      BY <2>1, <3>1 DEF NoPackage
    <3>2. CASE b = a
      <4>1. PICK j \in DOMAIN queue[a] : queue'[a][i] = queue[a][j]
        BY <1>5, <2>1, <2>3, <3>2
      <4>2. QED BY <1>2, <3>2, <4>1 DEF NoPackage
    <3>3. QED BY <3>1, <3>2
  <2>4. QED BY <2>2, <2>3 DEF NoPackage
<1>9. s.msg = "result" => p = "SERVER"
  BY <1>1, NowFacts DEF Facts, Receives
<1>10. \A q \in {"CLIENT", "TEE_COMPUTE"} : result'[q] = result[q]
  BY <1>1, <1>9 DEF FrameInv, Parties, Providers
<1>11. heard = [q \in Parties |-> [k \in Keys |-> heard[q][k]]]
  BY DEF FrameInv
<1> HIDE DEF s, m
<1>12. \A q \in Parties, k \in Keys :
         heard'[q][k] = IF q = p /\ k = s.key THEN heard[q][k] \cup m.body ELSE heard[q][k]
  <2>1. heard[p] = [k \in Keys |-> heard[p][k]]
    BY <1>11
  <2> DEFINE g == [heard[p] EXCEPT ![s.key] = heard[p][s.key] \cup m.body]
  <2>2. heard' = [heard EXCEPT ![p] = g]
    BY <1>1
  <2>3. \A k \in Keys : g[k] = IF k = s.key THEN heard[p][k] \cup m.body ELSE heard[p][k]
    BY <1>2, <2>1
  <2> HIDE DEF g
  <2>4. heard'[p] = g /\ \A q \in Parties : q # p => heard'[q] = heard[q]
    BY <1>11, <2>2
  <2>5. QED BY <2>3, <2>4
<1>13. QED BY <1>1, <1>2, <1>3, <1>6, <1>7, <1>10, <1>12, <1>8 DEF s, m

LEMMA RecvClean ==
  ASSUME LinkInv, RequestInv, FrameInv, CleanInv, NEW p \in Parties, StepRecv(p),
         Stays \/ Passes(p)
  PROVE  CleanInv'
<1> DEFINE s == Now(p)
           m == Head(queue[<<s.node, s.key>>])
           body == m.body
<1>1. /\ Busy(p) /\ s.do = "recv" /\ Right(s.key, m) /\ m.msg = s.msg /\ s.key \in Keys
      /\ \A q \in Parties, k \in Keys :
           heard'[q][k] = IF q = p /\ k = s.key THEN heard[q][k] \cup body ELSE heard[q][k]
      /\ \A q \in {"CLIENT", "TEE_COMPUTE"} : result'[q] = result[q]
      /\ QueueInv' /\ (NoPackage => m.msg # "package" /\ NoPackage')
  BY RecvAdds
<1>2. /\ UNCHANGED <<task, input, cache, elements, db>>
      /\ IF body = {} THEN Else(p)
         ELSE IF s.msg = "package" /\ BundlesIn(heard[p][s.key] \cup body) # Bundles
         THEN UNCHANGED <<prog, status>> ELSE Goto(p, After(p))
  BY DEF StepRecv
<1>3. OnlyNow(p)
  BY OneDone
<1>4. Takes(task.kind, p, s) /\ Receives(task.kind, p, s) /\ s.msg \in Todo(p)
  BY <1>1, NowFacts DEF Facts
<1>5. /\ Common' = Common /\ Reply' = Reply /\ Answer' = Answer
      /\ PirAnswer' = PirAnswer /\ Served' = Served
      /\ \A q : LoadDataset(q)' = LoadDataset(q) /\ Set(q)' = Set(q)
      /\ \A n : Matched(n)' = Matched(n)
  BY <1>2, SameRequest, SameDb
<1>6. "CLIENT" \in Parties /\ "SERVER" \in Parties /\ "TEE_COMPUTE" \in Parties /\ Providers \subseteq Parties
  BY DEF Parties, Providers
<1>7. Response \in Keys /\ "pir_key" \in Keys /\ Providers \subseteq Keys
  BY DEF Keys, Providers
<1> HIDE DEF s, m
<1>8. s.msg \in Marks => body \subseteq {<<s.msg, s.msg>>} /\ body \cap Items = {}
  <2> SUFFICES ASSUME s.msg \in Marks
               PROVE  body \subseteq {<<s.msg, s.msg>>} /\ body \cap Items = {}
    OBVIOUS
  <2>1. m.msg \in Marks => m.body \subseteq {<<m.msg, m.msg>>}
    BY <1>1 DEF Right
  <2>2. m.msg = s.msg
    BY <1>1
  <2>3. body \subseteq {<<s.msg, s.msg>>}
    BY <2>1, <2>2
  <2> HIDE DEF body
  <2>4. body \cap Items = {}
    BY <2>3, MarkParts
  <2>5. QED BY <2>3, <2>4
<1> HIDE DEF body
<1>9. /\ \A q \in Parties : "load" \notin Todo(q)' => "load" \notin Todo(q)
      /\ \A q \in Parties : "not_empty" \notin Todo(q)' => "not_empty" \notin Todo(q)
      /\ \A q \in Parties : "compute" \notin Todo(q)' => "compute" \notin Todo(q)
      /\ \A q \in Parties : "intersect" \notin Todo(q)' => "intersect" \notin Todo(q)
      /\ \A q \in Parties : "extract" \notin Todo(q)' => "extract" \notin Todo(q)
      /\ \A q \in Parties : "make_db" \notin Todo(q)' => "make_db" \notin Todo(q)
  BY <1>1, <1>3, <1>4 DEF OnlyNow, Takes, Works, s
<1>10. LoadInv'
  BY <1>2, <1>5, <1>6, <1>9 DEF CleanInv, LoadInv, use_cache
<1>11. \A q \in Parties : Todo(q)' \subseteq Todo(q)
  BY PassTodo DEF Stays, Todo
<1>12. AnswerInv'
  BY <1>1, <1>2, <1>5, <1>6, <1>9, <1>11 DEF CleanInv, AnswerInv
<1>13. PsiHeardInv'
  <2> SUFFICES ASSUME task.kind # "PIR"
               PROVE  /\ HeardItems' \subseteq Reply
                      /\ "response" \notin Todo("CLIENT")' => HeardItems' = Reply
    BY <1>2, <1>5 DEF PsiHeardInv
  <2>1. HeardItems \subseteq Reply /\ ("response" \notin Todo("CLIENT") => HeardItems = Reply)
    BY DEF CleanInv, PsiHeardInv
  <2>2. CASE p # "CLIENT"
    <3>1. \A k \in Keys : heard'["CLIENT"][k] = heard["CLIENT"][k]
      BY <1>1, <1>6, <2>2
    <3>2. HeardItems' = HeardItems
      BY <3>1 DEF HeardItems
    <3>3. QED BY <1>3, <1>6, <2>1, <2>2, <3>2 DEF OnlyNow
  <2>3. CASE p = "CLIENT"
    <3>1. HeardItems' = HeardItems \cup (body \cap Items)
      <4>1. \A k \in Keys : heard'["CLIENT"][k] =
              IF k = s.key THEN heard["CLIENT"][k] \cup body ELSE heard["CLIENT"][k]
        BY <1>1, <1>6, <2>3
      <4>2. ASSUME NEW x
            PROVE  (\E k \in Keys : x \in heard'["CLIENT"][k]) <=>
                   (\E k \in Keys : x \in heard["CLIENT"][k]) \/ x \in body
        BY <1>1, <4>1
      <4>3. QED BY <4>2 DEF HeardItems
    <3>2. s.msg = "response" => body \cap Items = Reply
      BY <1>1 DEF Right, body
    <3>3. s.msg \in {"response"} \cup Marks
      BY <1>1, <1>4, <2>3 DEF Receives
    <3>4. HeardItems' \subseteq Reply
      BY <1>8, <2>1, <3>1, <3>2, <3>3
    <3>5. ASSUME "response" \notin Todo("CLIENT")' PROVE HeardItems' = Reply
      <4>1. "response" \notin Todo("CLIENT") \/ s.msg = "response"
        BY <1>3, <1>6, <3>5 DEF OnlyNow, s
      <4>2. QED BY <2>1, <3>1, <3>2, <3>4, <4>1
    <3>6. QED BY <3>4, <3>5
  <2>4. QED BY <2>2, <2>3
<1>14. TeeHeardInv'
  <2> SUFFICES ASSUME task.kind = "TEE", NEW k \in Providers
               PROVE  /\ heard'["TEE_COMPUTE"][k] \subseteq Set(k)
                      /\ ~Fetching(k)' => heard'["TEE_COMPUTE"][k] = Set(k)
    BY <1>2, <1>5 DEF TeeHeardInv
  <2>1. /\ heard["TEE_COMPUTE"][k] \subseteq Set(k)
        /\ ~Fetching(k) => heard["TEE_COMPUTE"][k] = Set(k)
    BY DEF CleanInv, TeeHeardInv
  <2>2. CASE p # "TEE_COMPUTE" \/ s.key # k
    <3>1. heard'["TEE_COMPUTE"][k] = heard["TEE_COMPUTE"][k]
      BY <1>1, <1>6, <1>7, <2>2
    <3>2. ~Fetching(k)' => ~Fetching(k)
      BY <1>3, <2>2 DEF OnlyNow, s
    <3>3. QED BY <2>1, <3>1, <3>2
  <2>3. CASE p = "TEE_COMPUTE" /\ s.key = k
    <3>1. s.msg = "data"
      BY <1>1, <1>4, <2>3 DEF Receives
    <3>2. body = Set(k)
      BY <1>1, <2>3, <3>1 DEF Right, body
    <3>3. heard'["TEE_COMPUTE"][k] = heard["TEE_COMPUTE"][k] \cup Set(k)
      BY <1>1, <1>6, <1>7, <2>3, <3>2
    <3>4. QED BY <2>1, <3>3
  <2>4. QED BY <2>2, <2>3
<1>15. QueryInv'
  <2> DEFINE got == heard'["SERVER"]["pir_key"]
             had == heard["SERVER"]["pir_key"]
  <2> SUFFICES ASSUME task.kind = "PIR"
               PROVE  /\ got \cap Items \subseteq Set("CLIENT")
                      /\ "query" \notin Todo("SERVER")' => got \cap Items = Set("CLIENT")
    BY <1>2, <1>5 DEF QueryInv
  <2>1. /\ had \cap Items \subseteq Set("CLIENT")
        /\ "query" \notin Todo("SERVER") => had \cap Items = Set("CLIENT")
    BY DEF CleanInv, QueryInv
  <2>2. got = IF "SERVER" = p /\ "pir_key" = s.key THEN had \cup body ELSE had
    BY <1>1, <1>6, <1>7
  <2>3. "query" \notin Todo("SERVER")' =>
          "query" \notin Todo("SERVER") \/ ("SERVER" = p /\ s.msg = "query")
    BY <1>3, <1>6 DEF OnlyNow, s
  <2>4. "SERVER" = p => s.msg \in {"query"} \cup Marks /\ (s.msg = "query" => "pir_key" = s.key)
    BY <1>1, <1>4 DEF Receives
  <2>5. s.msg = "query" => body = Set("CLIENT")
    BY <1>1 DEF Right, body
  <2>6. Set("CLIENT") \subseteq Items
    BY ReplyFacts DEF Providers
  <2> HIDE DEF got, had
  <2>7. CASE "SERVER" = p /\ s.msg = "query"
    BY <2>1, <2>2, <2>4, <2>5, <2>6, <2>7
  <2>8. CASE ~("SERVER" = p /\ s.msg = "query")
    <3>1. got \cap Items = had \cap Items
      BY <1>8, <2>2, <2>4, <2>8
    <3>2. QED BY <2>1, <2>3, <2>8, <3>1
  <2>9. QED BY <2>7, <2>8
<1>16. PackageInv' /\ (task.kind = "PIR" /\ ~Ready => Heard' = {})
  <2> DEFINE got == heard'["CLIENT"][Response]
             had == heard["CLIENT"][Response]
  <2> SUFFICES ASSUME task.kind = "PIR"
               PROVE  /\ Pairs(got) = UNION { Matched(n) : n \in BundlesIn(got) }
                      /\ "package" \notin Todo("CLIENT")' => BundlesIn(got) = Bundles
                      /\ ~Ready => BundlesIn(got) = {}
    BY <1>2, <1>5 DEF PackageInv, Heard, Pairs, BundlesIn, Bundles
  <2>1. /\ Pairs(had) = UNION { Matched(n) : n \in BundlesIn(had) }
        /\ "package" \notin Todo("CLIENT") => BundlesIn(had) = Bundles
        /\ ~Ready => BundlesIn(had) = {} /\ NoPackage
    BY DEF CleanInv, PackageInv, DbInv, Heard
  <2>2. got = IF "CLIENT" = p /\ Response = s.key THEN had \cup body ELSE had
    BY <1>1, <1>6, <1>7
  <2>3. "package" \notin Todo("CLIENT")' =>
          "package" \notin Todo("CLIENT") \/ ("CLIENT" = p /\ s.msg = "package")
    BY <1>3, <1>6 DEF OnlyNow, s
  <2>4. "CLIENT" = p => s.msg \in {"package"} \cup Marks /\ (s.msg = "package" => Response = s.key)
    BY <1>1, <1>4 DEF Receives
  <2>5. s.msg = "package" => \E n \in Bundles : body = Package(n)
    BY <1>1 DEF Right, body
  <2> HIDE DEF got, had
  <2>6. CASE "CLIENT" = p /\ s.msg = "package"
    <3>1. PICK n \in Bundles : body = Package(n)
      BY <2>5, <2>6
    <3>2. Pairs(body) = Matched(n) /\ BundlesIn(body) = {n} /\ body # {}
      BY <3>1, PackageParts
    <3>3. got = had \cup body
      BY <2>2, <2>4, <2>6
    <3>4. Pairs(got) = Pairs(had) \cup Matched(n) /\ BundlesIn(got) = BundlesIn(had) \cup {n}
      BY <3>2, <3>3, PairsUnion, BundlesUnion
    <3>5. Pairs(got) = UNION { Matched(i) : i \in BundlesIn(got) }
      BY <2>1, <3>4
    <3>6. ASSUME "package" \notin Todo("CLIENT")' PROVE BundlesIn(got) = Bundles
      <4>1. prog' # prog
        BY <1>4, <2>6, <3>6 DEF Todo
      <4>2. BundlesIn(heard[p][s.key] \cup body) = Bundles
        BY <1>2, <2>6, <3>2, <4>1
      <4>3. heard[p][s.key] = had
        BY <2>4, <2>6 DEF had
      <4>4. QED BY <3>3, <4>2, <4>3
    <3>7. Ready
      BY <1>1, <2>1, <2>6
    <3>8. QED BY <3>5, <3>6, <3>7
  <2>7. CASE ~("CLIENT" = p /\ s.msg = "package")
    <3>1. Pairs(got) = Pairs(had) /\ BundlesIn(got) = BundlesIn(had)
      <4>1. CASE got = had
        BY <4>1
      <4>2. CASE "CLIENT" = p /\ got = had \cup body
        <5>1. s.msg \in Marks /\ body \subseteq {<<s.msg, s.msg>>}
          BY <1>8, <2>4, <2>7, <4>2
        <5>2. Pairs(body) = {} /\ BundlesIn(body) = {}
          BY <5>1, MarkParts
        <5>3. QED BY <4>2, <5>2, PairsUnion, BundlesUnion
      <4>3. QED BY <2>2, <4>1, <4>2
    <3>2. QED BY <2>1, <2>3, <2>7, <3>1
  <2>8. QED BY <2>6, <2>7
<1>17. Ready' = Ready
  BY <1>6, <1>9, <1>11 DEF Ready
<1>18. DbInv'
  BY <1>1, <1>2, <1>5, <1>16, <1>17 DEF CleanInv, DbInv
<1>19. QED BY <1>1, <1>18, <1>10, <1>12, <1>13, <1>14, <1>15, <1>16 DEF CleanInv

-----------------------------------------------------------------------------
(* Local work: what a party loads and finds out.                           *)
LEMMA AllPackages ==
  ASSUME RequestInv, CleanInv, task.kind = "PIR", "package" \notin Todo("CLIENT")
  PROVE  ExtractResult = SetToSeq(PirAnswer)
<1> DEFINE got == heard["CLIENT"][Response]
<1>1. Pairs(got) = UNION { Matched(n) : n \in Bundles }
  BY DEF CleanInv, PackageInv
<1>2. \A k : BundleOf(k) \in Bundles
  BY DEF BundleOf, Bundles
<1>3. \A x : x \in Pairs(got) <=> \E k \in Shared : x = <<k, Label(k)>>
  BY <1>1, <1>2 DEF Matched
<1>4. { <<e[1], Split(e[2])>> : e \in Pairs(got) } = PirAnswer
  <2>1. ASSUME NEW e \in Pairs(got) PROVE <<e[1], Split(e[2])>> \in PirAnswer
    <3>1. PICK k \in Shared : e = <<k, Label(k)>>
      BY <1>3
    <3>2. e[1] = k /\ e[2] = Label(k)
      BY <3>1
    <3>3. QED BY <3>2 DEF PirAnswer
  <2>2. ASSUME NEW k \in Shared
        PROVE  <<k, Split(Label(k))>> \in { <<e[1], Split(e[2])>> : e \in Pairs(got) }
    <3> DEFINE e == <<k, Label(k)>>
    <3>1. e \in Pairs(got) /\ e[1] = k /\ e[2] = Label(k)
      BY <1>3
    <3> HIDE DEF e
    <3>2. QED BY <3>1
  <2>3. QED BY <2>1, <2>2 DEF PirAnswer
<1>5. QED BY <1>4 DEF ExtractResult, Pairs

LEMMA WorkLoads ==
  ASSUME LinkInv, RequestInv, FrameInv, CleanInv, NEW p \in Parties, StepWork(p),
         Stays \/ Passes(p)
  PROVE  LoadInv'
<1> DEFINE s == Now(p)
<1>1. /\ Busy(p) /\ UNCHANGED <<task, input, cache>>
      /\ elements' = IF s.msg = "load" THEN [elements EXCEPT ![p] = Elements(p)] ELSE elements
      /\ s.msg = "not_empty" /\ elements[p] = <<>> => Else(p)
  BY DEF StepWork
<1>2. OnlyNow(p) /\ Takes(task.kind, p, s) /\ s.msg \in Todo(p)
  BY <1>1, OneDone, NowFacts DEF Facts
<1>3. \A q : LoadDataset(q)' = LoadDataset(q) /\ Set(q)' = Set(q)
  BY <1>1, SameRequest
<1>4. Providers \subseteq Parties /\ elements = [q \in Parties |-> elements[q]]
  BY DEF Parties, FrameInv
<1>5. ASSUME NEW q \in Providers, "load" \notin Todo(q)'
      PROVE  elements'[q] = LoadDataset(q) \/ (q = "SERVER" /\ use_cache)
  <2>1. "load" \notin Todo(q) \/ (q = p /\ s.msg = "load")
    BY <1>2, <1>4, <1>5 DEF OnlyNow
  <2>2. CASE q = p /\ s.msg = "load"
    BY <1>1, <1>4, <2>2 DEF Elements
  <2>3. CASE "load" \notin Todo(q)
    <3>1. elements[q] = LoadDataset(q) \/ (q = "SERVER" /\ use_cache)
      BY <2>3 DEF CleanInv, LoadInv
    <3>2. elements'[q] = elements[q]
      BY <1>1, <1>2, <1>4, <2>3 DEF Elements
    <3>3. QED BY <3>1, <3>2
  <2>4. QED BY <2>1, <2>2, <2>3
<1>6. ASSUME NEW q \in Providers, task.kind # "PIR", "not_empty" \notin Todo(q)' PROVE Set(q) # {}
  <2>1. "not_empty" \notin Todo(q) \/ (q = p /\ s.msg = "not_empty")
    BY <1>2, <1>4, <1>6 DEF OnlyNow
  <2>2. CASE "not_empty" \notin Todo(q)
    BY <1>6, <2>2 DEF CleanInv, LoadInv
  <2>3. CASE q = p /\ s.msg = "not_empty"
    <3>1. prog' # prog
      BY <1>2, <1>6, <2>3 DEF Todo
    <3>2. s.else = "fail"
      BY <1>2, <2>3 DEF Takes
    <3>3. ~Else(p)
      BY <1>1, <3>1, <3>2, ElseSettles DEF Stays
    <3>4. elements[q] # <<>> /\ elements[q] = LoadDataset(q)
      BY <1>1, <1>6, <2>3, <3>3, LoadedNow
    <3>5. LoadDataset(q) \in Seq(Items)
      BY LoadFacts
    <3>6. 1 \in DOMAIN LoadDataset(q)
      BY <3>4, <3>5, TailWhere
    <3>7. QED BY <3>6 DEF Set, ToSet
  <2>4. QED BY <2>1, <2>2, <2>3
<1>7. QED BY <1>1, <1>3, <1>5, <1>6 DEF LoadInv, use_cache

(* The database is made once.                                              *)
LEMMA WorkDb ==
  ASSUME LinkInv, RequestInv, FrameInv, NEW p \in Parties, StepWork(p)
  PROVE  db' = db \/ (p = "SERVER" /\ task.kind = "PIR" /\ Now(p).msg = "make_db" /\ ~Ready)
<1>1. Busy(p) /\ (Now(p).msg # "make_db" => db' = db)
  BY DEF StepWork
<1>2. Takes(task.kind, p, Now(p)) /\ Now(p).msg \in Todo(p)
  BY <1>1, NowFacts DEF Facts
<1>3. QED BY <1>1, <1>2 DEF Takes, Ready

LEMMA WorkMakes ==
  ASSUME LinkInv, RequestInv, FrameInv, CleanInv, NEW p \in Parties, StepWork(p),
         Stays \/ Passes(p)
  PROVE  DbInv'
<1> SUFFICES ASSUME task.kind = "PIR" PROVE (Ready' => db' \in Served) /\ (~Ready' => Heard = {} /\ NoPackage)
  BY SameRequest DEF StepWork, DbInv, Heard, NoPackage
<1>1. (Ready => db \in Served) /\ (~Ready => Heard = {} /\ NoPackage)
  BY DEF CleanInv, DbInv
<1>2. Busy(p) /\ OnlyNow(p) /\ "SERVER" \in Parties /\ "SERVER" \in Providers
  BY OneDone DEF StepWork, Parties, Providers
<1>3. Todo("SERVER")' \subseteq Todo("SERVER")
  BY <1>2, PassTodo DEF Stays, Todo
<1>4. ASSUME Ready' PROVE db' \in Served
  <2>1. CASE Ready
    BY <1>1, <2>1, WorkDb
  <2>2. CASE ~Ready
    <3>1. p = "SERVER" /\ Now(p).msg = "make_db"
      BY <1>2, <1>4, <2>2 DEF OnlyNow, Ready
    <3>2. db' = SenderDb
      BY <3>1 DEF StepWork
    <3>3. "load" \notin Todo("SERVER")
      BY <1>2, <3>1, Past
    <3>4. elements["SERVER"] = LoadDataset("SERVER") \/ use_cache
      BY <1>2, <3>3 DEF CleanInv, LoadInv
    <3>5. LoadDataset("SERVER") = input["SERVER"] /\ cache \in {input["CACHE"], input["SERVER"]}
      BY DEF RequestInv, LoadDataset, FrameInv
    <3>6. QED BY <3>2, <3>4, <3>5 DEF SenderDb, Served, use_cache
  <2>3. QED BY <2>1, <2>2
<1>5. ~Ready' => ~Ready
  BY <1>3 DEF Ready
<1>6. QED BY <1>1, <1>4, <1>5

LEMMA WorkFinds ==
  ASSUME LinkInv, RequestInv, FrameInv, CleanInv, NEW p \in Parties, StepWork(p),
         Stays \/ Passes(p)
  PROVE  AnswerInv'
<1> DEFINE s == Now(p)
<1>1. /\ Busy(p) /\ UNCHANGED <<task, input, heard>>
      /\ s.msg = "intersect" =>
           result' = [result EXCEPT ![p] = PsiResult(p, UNION { heard[p][k] : k \in Keys })]
      /\ s.msg = "compute" =>
           result' = [result EXCEPT ![p] = SetToSeq(heard[p]["CLIENT"] \cap heard[p]["SERVER"])]
      /\ s.msg = "extract" => result' = [result EXCEPT ![p] = ExtractResult]
      /\ s.msg \notin {"intersect", "compute", "extract"} => result' = result
  BY DEF StepWork
<1>2. OnlyNow(p) /\ Takes(task.kind, p, s)
  BY <1>1, OneDone, NowFacts DEF Facts
<1>3. Common' = Common /\ Answer' = Answer
  BY <1>1, SameRequest
<1>4. /\ "CLIENT" \in Parties /\ "TEE_COMPUTE" \in Parties
      /\ result = [q \in Parties |-> result[q]]
  BY DEF Parties, Providers, FrameInv
<1>5. Todo("CLIENT")' \subseteq Todo("CLIENT")
  BY <1>4, PassTodo DEF Stays, Todo
<1>6. ASSUME task.kind = "TEE", "compute" \notin Todo("TEE_COMPUTE")'
      PROVE  result'["TEE_COMPUTE"] = SetToSeq(Common)
  <2>1. "compute" \notin Todo("TEE_COMPUTE") \/ ("TEE_COMPUTE" = p /\ s.msg = "compute")
    BY <1>2, <1>4, <1>6 DEF OnlyNow
  <2>2. CASE s.msg = "compute"
    <3>1. p = "TEE_COMPUTE"
      BY <1>2, <2>2 DEF Takes
    <3>2. "data" \notin Todo(p)
      BY <1>1, <2>2, Past
    <3>3. \A k : ~Fetching(k)
      BY <3>1, <3>2 DEF Fetching, Todo
    <3>4. heard[p]["CLIENT"] = Set("CLIENT") /\ heard[p]["SERVER"] = Set("SERVER")
      BY <1>6, <3>1, <3>3 DEF CleanInv, TeeHeardInv, Providers
    <3>5. QED BY <1>1, <1>4, <2>2, <3>1, <3>4 DEF Common
  <2>3. CASE s.msg # "compute"
    <3>1. result'["TEE_COMPUTE"] = result["TEE_COMPUTE"]
      BY <1>1, <1>2, <1>4, <2>3 DEF Takes
    <3>2. QED BY <1>6, <2>1, <2>3, <3>1 DEF CleanInv, AnswerInv
  <2>4. QED BY <2>2, <2>3
<1>7. ASSUME task.kind # "PIR", "intersect" \notin Todo("CLIENT")'
      PROVE  result'["CLIENT"] = Answer
  <2>1. "intersect" \notin Todo("CLIENT") \/ ("CLIENT" = p /\ s.msg = "intersect")
    BY <1>2, <1>4, <1>7 DEF OnlyNow
  <2>2. CASE s.msg = "intersect"
    <3>1. p = "CLIENT" /\ p \in Providers
      BY <1>2, <2>2 DEF Takes, Providers
    <3>2. "response" \notin Todo("CLIENT")
      BY <1>1, <2>2, <3>1, Past
    <3>3. (UNION { heard["CLIENT"][k] : k \in Keys }) \cap Items = Reply
      BY <1>7, <3>2 DEF CleanInv, PsiHeardInv, HeardItems
    <3>4. elements["CLIENT"] = LoadDataset("CLIENT")
      BY <1>1, <2>2, <3>1, LoadedNow
    <3>5. PsiResult("CLIENT", UNION { heard["CLIENT"][k] : k \in Keys }) = Answer
      BY <1>7, <3>3, <3>4, ResultIsAnswer
    <3>6. QED BY <1>1, <1>4, <2>2, <3>1, <3>5
  <2>3. CASE s.msg # "intersect"
    <3>1. result'["CLIENT"] = result["CLIENT"]
      BY <1>1, <1>2, <1>4, <1>7, <2>3 DEF Takes
    <3>2. QED BY <1>7, <2>1, <2>3, <3>1 DEF CleanInv, AnswerInv
  <2>4. QED BY <2>2, <2>3
<1>8. ASSUME task.kind = "PIR", "extract" \notin Todo("CLIENT")'
      PROVE  result'["CLIENT"] = SetToSeq(PirAnswer') /\ "package" \notin Todo("CLIENT")'
  <2>1. "extract" \notin Todo("CLIENT") \/ ("CLIENT" = p /\ s.msg = "extract")
    BY <1>2, <1>4, <1>8 DEF OnlyNow
  <2>2. CASE s.msg = "extract"
    <3>1. p = "CLIENT"
      BY <1>2, <2>2 DEF Takes
    <3>2. "package" \notin Todo("CLIENT")
      BY <1>1, <2>2, <3>1, Past
    <3>3. ExtractResult = SetToSeq(PirAnswer)
      BY <1>8, <3>2, AllPackages
    <3>4. PirAnswer' = PirAnswer
      BY <1>1, <2>2, WorkDb, SameDb
    <3>5. QED BY <1>1, <1>4, <1>5, <2>2, <3>1, <3>2, <3>3, <3>4
  <2>3. CASE s.msg # "extract"
    <3>1. result'["CLIENT"] = result["CLIENT"]
      BY <1>1, <1>2, <1>4, <1>8, <2>3 DEF Takes
    <3>2. result["CLIENT"] = SetToSeq(PirAnswer) /\ "package" \notin Todo("CLIENT")
      BY <1>8, <2>1, <2>3 DEF CleanInv, AnswerInv
    <3>3. Heard = Bundles /\ Bundles # {}
      BY <1>8, <3>2 DEF CleanInv, PackageInv, Bundles
    <3>4. Ready
      BY <1>8, <3>3 DEF CleanInv, DbInv
    <3>5. PirAnswer' = PirAnswer
      BY <1>1, <3>4, WorkDb, SameDb
    <3>6. QED BY <1>4, <1>5, <3>1, <3>2, <3>5
  <2>4. QED BY <2>2, <2>3
<1>9. QED BY <1>1, <1>3, <1>6, <1>7, <1>8 DEF AnswerInv

LEMMA WorkClean ==
  ASSUME LinkInv, RequestInv, FrameInv, CleanInv, NEW p \in Parties, StepWork(p),
         Stays \/ Passes(p)
  PROVE  CleanInv'
<1>1. Busy(p) /\ Now(p).do = "work" /\ UNCHANGED <<task, input, queue, heard>>
  BY DEF StepWork
<1>2. OnlyNow(p) /\ Takes(task.kind, p, Now(p))
  BY <1>1, OneDone, NowFacts DEF Facts
<1>3. /\ Reply' = Reply
      /\ \A q : LoadDataset(q)' = LoadDataset(q) /\ Set(q)' = Set(q)
      /\ \A k, m : m.msg # "package" => Right(k, m)' = Right(k, m)
  BY <1>1, SameRequest
<1>4. "CLIENT" \in Parties /\ "SERVER" \in Parties
  BY DEF Parties, Providers
<1>5. /\ "response" \notin Todo("CLIENT")' => "response" \notin Todo("CLIENT")
      /\ "package" \notin Todo("CLIENT")' => "package" \notin Todo("CLIENT")
      /\ "query" \notin Todo("SERVER")' => "query" \notin Todo("SERVER")
      /\ \A k : ~Fetching(k)' => ~Fetching(k)
  BY <1>1, <1>2, <1>4 DEF OnlyNow, Takes, Works
<1>6. QueueInv'
  <2>1. CASE db' = db
    <3>1. \A k, m : Right(k, m)' = Right(k, m)
      BY <1>1, <2>1, SameDb
    <3>2. QED BY <1>1, <3>1 DEF CleanInv, QueueInv
  <2>2. CASE db' # db
    <3>1. NoPackage
      BY <2>2, WorkDb DEF CleanInv, DbInv
    <3>2. QED BY <1>1, <1>3, <3>1 DEF CleanInv, QueueInv, NoPackage
  <2>3. QED BY <2>1, <2>2
<1>7. PsiHeardInv' /\ TeeHeardInv'
  BY <1>1, <1>3, <1>5 DEF CleanInv, PsiHeardInv, TeeHeardInv, HeardItems
<1>8. QueryInv'
  BY <1>1, <1>3, <1>5 DEF CleanInv, QueryInv
<1>9. PackageInv'
  <2> SUFFICES ASSUME task.kind = "PIR" PROVE PackageInv'
    BY <1>1 DEF PackageInv
  <2>1. /\ Pairs(heard["CLIENT"][Response]) = UNION { Matched(n) : n \in Heard }
        /\ "package" \notin Todo("CLIENT")' => Heard = Bundles
    BY <1>5 DEF CleanInv, PackageInv
  <2>2. Heard' = Heard /\ Pairs(heard["CLIENT"][Response])' = Pairs(heard["CLIENT"][Response])
    BY <1>1 DEF Heard, Pairs
  <2>3. CASE db' = db
    <3>1. \A n : Matched(n)' = Matched(n)
      BY <1>1, <2>3, SameDb
    <3>2. QED BY <2>1, <2>2, <3>1 DEF PackageInv
  <2>4. CASE db' # db
    <3>1. Heard = {}
      BY <2>4, WorkDb DEF CleanInv, DbInv
    <3>2. QED BY <2>1, <2>2, <3>1 DEF PackageInv
  <2>5. QED BY <2>3, <2>4
<1>10. LoadInv' /\ AnswerInv' /\ DbInv'
  BY WorkLoads, WorkFinds, WorkMakes
<1>11. QED BY <1>6, <1>7, <1>8, <1>9, <1>10 DEF CleanInv

LEMMA CleanKept ==
  ASSUME LinkInv, RequestInv, FrameInv, Clean => CleanInv, NEW p \in Parties,
         PartyNext(p) \/ StepFails(p) \/ Killed(p), Clean'
  PROVE  CleanInv'
<1>1. Clean /\ CleanInv /\ (Stays \/ Passes(p))
  BY CleanBefore
<1>2. CASE StepSend(p)
  BY <1>1, <1>2, SendClean
<1>3. CASE StepRecv(p)
  BY <1>1, <1>3, RecvClean
<1>4. CASE StepWork(p)
  BY <1>1, <1>4, WorkClean
<1>5. CASE Finish(p)
  BY <1>1, <1>5, QuietClean DEF Finish, use_cache
<1>6. CASE StepFails(p) \/ Killed(p)
  <2>1. prog' = prog
    BY <1>1, <1>6, FailStays DEF Stays
  <2>2. UNCHANGED <<task, input, cache, elements, queue, heard, db, result>>
    BY <1>6 DEF StepFails, Killed
  <2>3. QED BY <1>1, <2>1, <2>2, QuietClean DEF use_cache
<1>7. QED BY <1>2, <1>3, <1>4, <1>5, <1>6 DEF PartyNext

-----------------------------------------------------------------------------
(* The result that the client sends to the server.  A server that reports  *)
(* its failures does not leave OnExecute early.                            *)
LEMMA ServerPasses ==
  ASSUME LinkInv, RequestInv, FrameInv, NEW p \in Parties, p = "SERVER",
         PartyNext(p) \/ StepFails(p) \/ Killed(p), ~hidden'
  PROVE  Stays \/ Passes(p)
<1>1. CASE StepSend(p)
  BY <1>1, GotoSettles DEF StepSend
<1>2. CASE StepRecv(p)
  <2>1. /\ Busy(p) /\ Now(p).do = "recv"
        /\ Else(p) \/ UNCHANGED <<prog, status>> \/ Goto(p, After(p))
    BY <1>2 DEF StepRecv
  <2>2. Receives(task.kind, p, Now(p))
    BY <2>1, NowFacts DEF Facts
  <2>3. Now(p).else # "leave"
    BY <2>1, <2>2 DEF Receives
  <2>4. QED BY <2>1, <2>3, ElseSettles, GotoSettles
<1>3. CASE StepWork(p)
  <2>1. /\ Busy(p)
        /\ \/ Else(p) /\ Now(p).msg \in {"not_empty", "load"}
           \/ Goto(p, After(p))
    BY <1>3 DEF StepWork
  <2>2. Takes(task.kind, p, Now(p))
    BY <2>1, NowFacts DEF Facts
  <2>3. Now(p).msg \in {"not_empty", "load"} => Now(p).else = "fail"
    BY <2>2 DEF Takes
  <2>4. QED BY <2>1, <2>3, ElseSettles, GotoSettles
<1>4. CASE StepFails(p)
  BY <1>4, ElseSettles DEF StepFails
<1>5. CASE Finish(p)
  BY <1>5 DEF Finish, Stays
<1>6. CASE Killed(p) /\ prog' # prog
  <2>1. Busy(p) /\ Now(p).do = "recv" /\ Else(p)
    BY <1>6 DEF Killed
  <2>2. Receives(task.kind, p, Now(p))
    BY <2>1, NowFacts DEF Facts
  <2>3. Now(p).else # "leave"
    BY <2>1, <2>2 DEF Receives
  <2>4. QED BY <2>1, <2>3, ElseSettles
<1>7. QED BY <1>1, <1>2, <1>3, <1>4, <1>5, <1>6 DEF PartyNext, Stays

(* A result is changed by the step that finds or receives it.              *)
Intersects(p) ==
  /\ p = "CLIENT" /\ StepWork(p) /\ Busy(p) /\ Now(p).msg = "intersect"
  /\ result'["CLIENT"] = PsiResult("CLIENT", UNION { heard["CLIENT"][k] : k \in Keys })
Learns(p) == p = "SERVER" /\ StepRecv(p) /\ Now(p).msg = "result"

LEMMA ResultMoves ==
  ASSUME LinkInv, RequestInv, FrameInv, NEW p \in Parties, task.kind # "PIR",
         PartyNext(p) \/ StepFails(p) \/ Killed(p)
  PROVE  /\ result'["CLIENT"] = result["CLIENT"] \/ Intersects(p)
         /\ result'["SERVER"] = result["SERVER"] \/ Learns(p)
<1>1. result = [q \in Parties |-> result[q]] /\ "CLIENT" \in Parties /\ "SERVER" \in Parties
  BY DEF FrameInv, Parties, Providers
<1>2. CASE StepRecv(p)
  <2>1. /\ Busy(p) /\ Now(p).do = "recv"
        /\ result' = result \/ (Now(p).msg = "result" /\ \E v : result' = [result EXCEPT ![p] = v])
    BY <1>2 DEF StepRecv
  <2>2. Now(p).msg = "result" => p = "SERVER"
    BY <2>1, NowFacts DEF Facts, Receives
  <2>3. QED BY <1>1, <1>2, <2>1, <2>2 DEF Learns
<1>3. CASE StepWork(p)
  <2>1. /\ Busy(p)
        /\ Now(p).msg = "intersect" =>
             result' = [result EXCEPT ![p] = PsiResult(p, UNION { heard[p][k] : k \in Keys })]
        /\ Now(p).msg = "compute" => \E v : result' = [result EXCEPT ![p] = v]
        /\ Now(p).msg \notin {"intersect", "compute", "extract"} => result' = result
    BY <1>3 DEF StepWork
  <2>2. Takes(task.kind, p, Now(p))
    BY <2>1, NowFacts DEF Facts
  <2>3. CASE Now(p).msg = "intersect"
    <3>1. p = "CLIENT"
      BY <2>2, <2>3 DEF Takes
    <3>2. QED BY <1>1, <1>3, <2>1, <2>3, <3>1 DEF Intersects
  <2>4. CASE Now(p).msg # "intersect"
    BY <1>1, <2>1, <2>2, <2>4 DEF Takes
  <2>5. QED BY <2>3, <2>4
<1>4. CASE StepSend(p) \/ Finish(p) \/ StepFails(p) \/ Killed(p)
  BY <1>4 DEF StepSend, Finish, StepFails, Killed
<1>5. QED BY <1>2, <1>3, <1>4 DEF PartyNext

(* What is on the way to the server, with the client's result and steps.   *)
Sent(w, r, T) == w.msg = "result" => w.body = ToSet(r) /\ "intersect" \notin T
AllSent(q, r, T) == \A i \in DOMAIN q : Sent(q[i], r, T)

LEMMA SentKept ==
  ASSUME LinkInv, RequestInv, FrameInv, NEW p \in Parties, task.kind # "PIR",
         PartyNext(p) \/ StepFails(p) \/ Killed(p),
         AllSent(queue[<<"SERVER", "default">>], result["CLIENT"], Todo("CLIENT"))
  PROVE  AllSent(queue'[<<"SERVER", "default">>], result'["CLIENT"], Todo("CLIENT")')
<1> DEFINE a == <<"SERVER", "default">>
           s == Now(p)
           b == <<s.node, s.key>>
<1>1. a \in Addresses /\ "CLIENT" \in Parties
  BY DEF Addresses, Parties, Providers, Keys
<1>2. queue = [c \in Addresses |-> queue[c]] /\ \E X : queue[a] \in Seq(X)
  BY <1>1 DEF LinkInv, Shape
<1>3. Settles(p) /\ Todo("CLIENT")' \subseteq Todo("CLIENT")
  BY <1>1, StepSettles, Shorter
<1>4. ASSUME NEW w, Sent(w, result["CLIENT"], Todo("CLIENT"))
      PROVE  Sent(w, result'["CLIENT"], Todo("CLIENT")')
  <2> SUFFICES ASSUME w.msg = "result"
               PROVE  w.body = ToSet(result'["CLIENT"]) /\ "intersect" \notin Todo("CLIENT")'
    BY DEF Sent
  <2>1. w.body = ToSet(result["CLIENT"]) /\ "intersect" \notin Todo("CLIENT")
    BY <1>4 DEF Sent
  <2>2. ~Intersects(p)
    BY <2>1, NowFacts DEF Intersects
  <2>3. result'["CLIENT"] = result["CLIENT"]
    BY <2>2, ResultMoves
  <2>4. QED BY <1>3, <2>1, <2>3
<1>5. SUFFICES \A i \in DOMAIN queue'[a] : Sent(queue'[a][i], result["CLIENT"], Todo("CLIENT"))
  BY <1>4 DEF AllSent
<1>6. \A i \in DOMAIN queue[a] : Sent(queue[a][i], result["CLIENT"], Todo("CLIENT"))
  BY DEF AllSent
<1>7. CASE StepSend(p)
  <2>1. PICK body \in Bodies(p, s.msg) :
          queue' = [queue EXCEPT ![b] = Append(queue[b], [msg |-> s.msg, body |-> body])]
    BY <1>7 DEF StepSend
  <2>2. Busy(p) /\ s.do = "send"
    BY <1>7 DEF StepSend
  <2> DEFINE e == [msg |-> s.msg, body |-> body]
  <2>3. Sent(e, result["CLIENT"], Todo("CLIENT"))
    <3> SUFFICES ASSUME s.msg = "result"
                 PROVE  body = ToSet(result["CLIENT"]) /\ "intersect" \notin Todo("CLIENT")
      BY DEF Sent
    <3>1. p = "CLIENT"
      BY <2>2, NowFacts DEF Facts, Sends
    <3>2. "intersect" \notin Todo("CLIENT")
      BY <2>2, <3>1, Past
    <3>3. QED BY <2>1, <3>1, <3>2 DEF Bodies
  <2>4. queue' = [queue EXCEPT ![b] = Append(queue[b], e)]
    BY <2>1
  <2> HIDE DEF e, b, a
  <2>5. queue'[a] = queue[a] \/ queue'[a] = Append(queue[a], e)
    BY <1>1, <1>2, <2>4
  <2>6. CASE queue'[a] = Append(queue[a], e)
    <3>1. ASSUME NEW i \in DOMAIN queue'[a]
          PROVE  (i \in DOMAIN queue[a] /\ queue'[a][i] = queue[a][i]) \/ queue'[a][i] = e
      BY <1>2, <2>6, <3>1, AppendWhere
    <3>2. QED BY <1>6, <2>3, <3>1
  <2>7. QED BY <1>6, <2>5, <2>6
<1>8. CASE StepRecv(p)
  <2>1. queue[b] # <<>> /\ queue' = [queue EXCEPT ![b] = Tail(queue[b])]
    BY <1>8 DEF StepRecv
  <2> HIDE DEF b, a
  <2>2. queue'[a] = queue[a] \/ (queue'[a] = Tail(queue[a]) /\ queue[a] # <<>>)
    BY <1>1, <1>2, <2>1
  <2>3. CASE queue'[a] = Tail(queue[a]) /\ queue[a] # <<>>
    <3> DEFINE q == queue[a]
    <3>1. q # <<>> /\ \E X : q \in Seq(X)
      BY <1>2, <2>3
    <3> HIDE DEF q
    <3>2. \A i \in DOMAIN Tail(q) : \E j \in DOMAIN q : Tail(q)[i] = q[j]
      BY <3>1, TailWhere
    <3>3. QED BY <1>6, <2>3, <3>2 DEF q
  <2>4. QED BY <1>6, <2>2, <2>3
<1>9. CASE StepWork(p) \/ Finish(p) \/ StepFails(p) \/ Killed(p)
  BY <1>6, <1>9 DEF StepWork, Finish, StepFails, Killed
<1>10. QED BY <1>7, <1>8, <1>9 DEF PartyNext

(* What the server has once it has looked for the result.                  *)
LEMMA LearntBehind ==
  ASSUME LinkInv, NEW p \in Parties, Passes(p), Now(p).msg = "result"
  PROVE  "result" \notin Todo(p)'
<1>1. Busy(p) /\ prog'[p] = Rest(prog[p])
  BY PassTodo DEF Passes
<1>2. Program(p, prog[p]) /\ prog[p] # Idle /\ Now(p) = First(prog[p])
  BY <1>1, BusyProgram DEF LinkInv
<1>3. \A t \in Ahead(prog'[p]) : Follows(Now(p), t)
  BY <1>1, <1>2, StepOn
<1>4. ASSUME NEW t \in Ahead(prog'[p]) PROVE t.msg # "result"
  BY <1>3 DEF Follows, Stage
<1>5. QED BY <1>4 DEF Todo

LEMMA SyncKept ==
  ASSUME LinkInv, RequestInv, FrameInv, EnclaveInv, ~hidden => SyncInv, NEW p \in Parties,
         PartyNext(p) \/ StepFails(p) \/ Killed(p), ~hidden'
  PROVE  SyncInv'
<1> DEFINE a == <<"SERVER", "default">>
<1>1. Settles(p) /\ task' = task
  BY StepSettles, StepSame
<1>2. ~hidden
  BY DEF PartyNext, StepSend, StepRecv, StepWork, Finish, StepFails, Killed
<1> SUFFICES ASSUME task.sync PROVE SyncInv'
  BY <1>1 DEF SyncInv
<1>3. task.kind # "PIR"
  BY DEF RequestInv
<1>4. /\ IsFiniteSet(ToSet(result["CLIENT"]))
      /\ "result" \in Todo("SERVER") => result["SERVER"] = <<>>
      /\ "result" \notin Todo("SERVER") =>
           \/ status["CLIENT"] = "failed"
           \/ /\ ToSet(result["SERVER"]) = ToSet(result["CLIENT"])
              /\ \/ "intersect" \notin Todo("CLIENT")
                 \/ task.kind = "TEE" /\ status["TEE_COMPUTE"] = "failed"
  BY <1>2 DEF SyncInv
<1>5. AllSent(queue[a], result["CLIENT"], Todo("CLIENT"))
  BY <1>2 DEF SyncInv, AllSent, Sent
<1>6. AllSent(queue'[a], result'["CLIENT"], Todo("CLIENT")')
  BY <1>3, <1>5, SentKept
<1>7. /\ "CLIENT" \in Parties /\ "SERVER" \in Parties /\ "TEE_COMPUTE" \in Parties
      /\ "CLIENT" \in Providers
  BY DEF Parties, Providers
<1>8. /\ Todo("CLIENT")' \subseteq Todo("CLIENT") /\ Todo("SERVER")' \subseteq Todo("SERVER")
      /\ p # "CLIENT" => Todo("CLIENT")' = Todo("CLIENT")
      /\ p # "SERVER" => Todo("SERVER")' = Todo("SERVER")
  BY <1>1, <1>7, Shorter DEF Todo
<1>9. \A q \in Parties : status[q] = "failed" => status'[q] = "failed"
  BY <1>1 DEF Settles
<1>10. /\ IsFiniteSet(ToSet(result'["CLIENT"]))
       /\ "result" \in Todo("SERVER")' => result'["SERVER"] = <<>>
       /\ "result" \notin Todo("SERVER")' =>
            \/ status'["CLIENT"] = "failed"
            \/ /\ ToSet(result'["SERVER"]) = ToSet(result'["CLIENT"])
               /\ \/ "intersect" \notin Todo("CLIENT")'
                  \/ task.kind = "TEE" /\ status'["TEE_COMPUTE"] = "failed"
  <2>1. CASE Intersects(p)
    <3>1. p = "CLIENT" /\ Busy(p) /\ Now(p).msg = "intersect" /\ status[p] = "running"
      BY <2>1 DEF Intersects, Busy
    <3>2. result'["SERVER"] = result["SERVER"]
      BY <1>3, <3>1, ResultMoves DEF Learns
    <3>3. "intersect" \in Todo("CLIENT") /\ "response" \notin Todo("CLIENT")
      BY <3>1, NowFacts, Past
    <3>4. ~(task.kind = "TEE" /\ status["TEE_COMPUTE"] = "failed")
      BY <3>3 DEF EnclaveInv
    <3>5. elements["CLIENT"] \in {<<>>, LoadDataset("CLIENT")}
      BY <1>7 DEF FrameInv
    <3>6. IsFiniteSet(ToSet(PsiResult("CLIENT", UNION { heard["CLIENT"][k] : k \in Keys })))
      BY <1>3, <3>5, ResultFinite
    <3>7. IsFiniteSet(ToSet(result'["CLIENT"]))
      BY <2>1, <3>6 DEF Intersects
    <3>8. "result" \in Todo("SERVER") /\ Todo("SERVER")' = Todo("SERVER")
      BY <1>4, <1>8, <3>1, <3>3, <3>4
    <3>9. QED BY <1>4, <3>2, <3>7, <3>8
  <2>2. CASE Learns(p)
    <3>1. /\ p = "SERVER" /\ Busy(p) /\ Now(p).do = "recv" /\ Now(p).msg = "result"
          /\ queue[<<Now(p).node, Now(p).key>>] # <<>>
      BY <2>2 DEF Learns, StepRecv
    <3>2. Now(p).node = "SERVER" /\ Now(p).key = "default" /\ Now(p).else = "skip"
      BY <3>1, NowFacts DEF Facts, Receives
    <3>3. /\ queue[a] # <<>> /\ result' = [result EXCEPT ![p] = SetToSeq(Head(queue[a]).body)]
          /\ Else(p) \/ Goto(p, After(p))
      BY <2>2, <3>1, <3>2 DEF Learns, StepRecv
    <3>4. Passes(p)
      BY <3>1, <3>2, <3>3, ElseSettles, GotoSettles
    <3>5. Head(queue[a]).msg = "result"
      BY <3>1, <3>2, LinkMatches DEF MessagesMatch
    <3>6. PICK X : queue[a] \in Seq(X)
      BY <3>1, <3>2, KeyOf DEF LinkInv, Shape
    <3>7. Sent(Head(queue[a]), result["CLIENT"], Todo("CLIENT"))
      <4> DEFINE q == queue[a]
      <4>1. q \in Seq(X) /\ q # <<>>
        BY <3>3, <3>6
      <4> HIDE DEF q
      <4>2. 1 \in DOMAIN q /\ q[1] = Head(q)
        BY <4>1, TailWhere
      <4>3. QED BY <1>5, <4>2 DEF AllSent, q
    <3>8. Head(queue[a]).body = ToSet(result["CLIENT"]) /\ "intersect" \notin Todo("CLIENT")
      BY <3>5, <3>7 DEF Sent
    <3>9. ToSet(SetToSeq(ToSet(result["CLIENT"]))) = ToSet(result["CLIENT"])
      BY <1>4, SeqOfSet
    <3>10. result'["CLIENT"] = result["CLIENT"] /\ result'["SERVER"] = SetToSeq(ToSet(result["CLIENT"]))
      BY <1>7, <3>1, <3>3, <3>8 DEF FrameInv
    <3>11. "result" \notin Todo("SERVER")'
      BY <3>1, <3>4, LearntBehind
    <3>12. QED BY <1>4, <1>8, <3>8, <3>9, <3>10, <3>11
  <2>3. CASE ~Intersects(p) /\ ~Learns(p)
    <3>1. result'["CLIENT"] = result["CLIENT"] /\ result'["SERVER"] = result["SERVER"]
      BY <1>3, <2>3, ResultMoves
    <3>2. CASE "result" \notin Todo("SERVER")
      BY <1>4, <1>7, <1>8, <1>9, <3>1, <3>2
    <3>3. CASE "result" \in Todo("SERVER")'
      BY <1>4, <1>8, <3>1, <3>3
    <3>4. CASE "result" \in Todo("SERVER") /\ "result" \notin Todo("SERVER")'
      <4>1. p = "SERVER" /\ Passes(p) /\ Now(p).msg = "result"
        <5>1. p = "SERVER"
          BY <1>8, <3>4
        <5>2. OnlyNow(p)
          BY <5>1, ServerPasses, OneDone
        <5>3. QED BY <1>7, <3>4, <5>1, <5>2 DEF OnlyNow
      <4>2. Busy(p) /\ prog' # prog /\ status[p] = "running"
        BY <3>4, <4>1 DEF Passes, Todo, Busy
      <4>3. Facts(task.kind, p, Now(p))
        BY <4>2, NowFacts
      <4>4. Now(p).do = "recv"
        BY <4>1, <4>3 DEF Facts, Takes, Sends, Works
      <4>5. ~StepRecv(p) /\ ~StepSend(p) /\ ~StepWork(p) /\ ~Finish(p) /\ ~StepFails(p)
        BY <2>3, <4>1, <4>2, <4>4 DEF Learns, StepRecv, StepSend, StepWork, Finish, StepFails
      <4>6. Killed(p)
        BY <4>5 DEF PartyNext
      <4>7. task.kind = "TEE" /\ \E q \in Parties : status[q] = "failed"
        BY <4>2, <4>6 DEF Killed
      <4>8. status["CLIENT"] = "failed" \/ status["TEE_COMPUTE"] = "failed"
        BY <4>1, <4>2, <4>7 DEF Parties, Providers
      <4>9. status["TEE_COMPUTE"] = "failed" => result["CLIENT"] = <<>>
        BY <4>7 DEF EnclaveInv
      <4>10. QED BY <1>4, <1>7, <1>9, <3>1, <3>4, <4>7, <4>8, <4>9
    <3>5. QED BY <3>2, <3>3, <3>4
  <2>4. QED BY <2>1, <2>2, <2>3
<1>11. QED BY <1>1, <1>6, <1>10 DEF SyncInv, AllSent, Sent

-----------------------------------------------------------------------------
(* At the start every step is ahead, and no data has moved.                *)
LEMMA StartFull ==
  ASSUME Init, NEW p \in Parties
  PROVE  Ahead(prog[p]) = Full(p)
<1>1. /\ task.kind \in {"ECDH", "KKRT", "TEE", "PIR"} /\ task.sync \in BOOLEAN
      /\ p \in {"CLIENT", "SERVER", "TEE_COMPUTE"}
  BY TaskFields DEF Parties, Providers
<1>2. prog[p] = IF p = "TEE_COMPUTE" /\ task.kind # "TEE" THEN Idle
                ELSE IF task.kind = "PIR" THEN PirExecute(p) ELSE PsiExecute(p)
  BY StartProg
<1>3. RestSteps("TEE_COMPUTE") = {}
  BY DEF RestSteps
<1>4. CASE p = "TEE_COMPUTE" /\ task.kind # "TEE"
  BY <1>2, <1>3, <1>4, IdleProgram DEF Full, PirSteps, PsiSteps
<1>5. CASE task.kind = "PIR" /\ p # "TEE_COMPUTE"
  BY <1>1, <1>2, <1>5, PirClientProgram, PirServerProgram DEF Full, PirSteps
<1>6. CASE task.kind = "ECDH" /\ p # "TEE_COMPUTE"
  BY <1>1, <1>2, <1>6, EcdhClientProgram, EcdhServerProgram DEF Full, PsiSteps
<1>7. CASE task.kind = "KKRT" /\ p # "TEE_COMPUTE"
  BY <1>1, <1>2, <1>7, KkrtClientProgram, KkrtServerProgram DEF Full, PsiSteps
<1>8. CASE task.kind = "TEE"
  BY <1>1, <1>2, <1>8, TeeClientProgram, TeeServerProgram, TeeComputeProgram DEF Full, PsiSteps
<1>9. QED BY <1>1, <1>4, <1>5, <1>6, <1>7, <1>8

LEMMA StartTodo ==
  ASSUME Init
  PROVE  /\ "load" \in Todo("CLIENT") /\ "load" \in Todo("SERVER")
         /\ task.kind # "PIR" => /\ "not_empty" \in Todo("CLIENT") /\ "not_empty" \in Todo("SERVER")
                                 /\ "response" \in Todo("CLIENT") /\ "intersect" \in Todo("CLIENT")
                                 /\ task.sync => "result" \in Todo("SERVER")
         /\ task.kind = "TEE" => /\ "load" \in Todo("TEE_COMPUTE") /\ "compute" \in Todo("TEE_COMPUTE")
                                 /\ \A k \in Providers : Fetching(k)
         /\ task.kind = "PIR" => /\ "query" \in Todo("SERVER") /\ "package" \in Todo("CLIENT")
                                 /\ "extract" \in Todo("CLIENT") /\ "make_db" \in Todo("SERVER")
<1>1. task.kind \in {"ECDH", "KKRT", "TEE", "PIR"} /\ task.sync \in BOOLEAN
  BY TaskFields
<1>2. /\ Ahead(prog["CLIENT"]) = Full("CLIENT") /\ Ahead(prog["SERVER"]) = Full("SERVER")
      /\ Ahead(prog["TEE_COMPUTE"]) = Full("TEE_COMPUTE")
  BY StartFull DEF Parties, Providers
<1>3. ASSUME NEW p, NEW s \in Ahead(prog[p]) PROVE s.msg \in Todo(p)
  BY DEF Todo
<1>4. CASE task.kind = "PIR"
  <2>1. /\ Work("load", "fail") \in Full("CLIENT") /\ Work("load", "fail") \in Full("SERVER")
        /\ Work("extract", "fail") \in Full("CLIENT") /\ Work("make_db", "fail") \in Full("SERVER")
        /\ Recv("SERVER", Response, "package", "fail") \in Full("CLIENT")
        /\ Recv("SERVER", "pir_key", "query", "fail") \in Full("SERVER")
    BY <1>4 DEF Full, PirSteps, Loaded, PirClientSteps, PirServerSteps
  <2>2. QED BY <1>2, <1>4, <2>1, StepFields DEF Todo
<1>5. CASE task.kind # "PIR"
  <2>1. /\ Work("load", "fail") \in Full("CLIENT") /\ Work("load", "fail") \in Full("SERVER")
        /\ Work("not_empty", "fail") \in Full("CLIENT")
        /\ Work("not_empty", "fail") \in Full("SERVER")
        /\ task.sync => Recv("SERVER", "default", "result", "skip") \in Full("SERVER")
    BY <1>5 DEF Full, PsiSteps, Checked, RestSteps
  <2>2. /\ \E e : Work("intersect", e) \in Full("CLIENT")
        /\ \E n, k, e : Recv(n, k, "response", e) \in Full("CLIENT")
    BY <1>1, <1>5 DEF Full, PsiSteps, Checked, EcdhClientSteps, KkrtRecvSteps, ProviderClientSteps
  <2>3. /\ "load" \in Todo("CLIENT") /\ "load" \in Todo("SERVER")
        /\ "not_empty" \in Todo("CLIENT") /\ "not_empty" \in Todo("SERVER")
        /\ task.sync => "result" \in Todo("SERVER")
    BY <1>2, <2>1, StepFields DEF Todo
  <2>4. "response" \in Todo("CLIENT") /\ "intersect" \in Todo("CLIENT")
    BY <1>2, <2>2, StepFields DEF Todo
  <2>5. ASSUME task.kind = "TEE"
        PROVE  /\ "load" \in Todo("TEE_COMPUTE") /\ "compute" \in Todo("TEE_COMPUTE")
               /\ \A k \in Providers : Fetching(k)
    <3>1. /\ Work("load", "fail") \in Full("TEE_COMPUTE")
          /\ Work("compute", "leave") \in Full("TEE_COMPUTE")
          /\ Recv("TEE_COMPUTE", "CLIENT", "data", "leave") \in Full("TEE_COMPUTE")
          /\ Recv("TEE_COMPUTE", "SERVER", "data", "leave") \in Full("TEE_COMPUTE")
      BY <2>5 DEF Full, PsiSteps, Loaded, ExecuteAsComputeSteps
    <3>2. "load" \in Todo("TEE_COMPUTE") /\ "compute" \in Todo("TEE_COMPUTE")
      BY <1>2, <3>1, StepFields DEF Todo
    <3>3. Fetching("CLIENT") /\ Fetching("SERVER")
      BY <1>2, <3>1, StepFields DEF Fetching
    <3>4. QED BY <3>2, <3>3 DEF Providers
  <2>6. QED BY <1>5, <2>3, <2>4, <2>5
<1>6. QED BY <1>4, <1>5

LEMMA DataStart ==
  ASSUME Init
  PROVE  DataInv
<1>1. /\ task \in [kind : {"ECDH", "KKRT", "TEE", "PIR"}, sync : BOOLEAN, difference : BOOLEAN,
                   unique : BOOLEAN]
      /\ input \in [Providers \cup {"CACHE"} -> Inputs] /\ Possible(task, input)
      /\ cache = input["CACHE"]
      /\ elements = [p \in Parties |-> <<>>] /\ queue = [a \in Addresses |-> <<>>]
      /\ heard = [p \in Parties |-> [k \in Keys |-> {}]] /\ result = [p \in Parties |-> <<>>]
      /\ status = [p \in Parties |-> IF p \in Members THEN "running" ELSE "success"]
  BY DEF Init, Addresses
<1>2. /\ "CLIENT" \in Parties /\ "SERVER" \in Parties /\ "TEE_COMPUTE" \in Parties
      /\ Providers \subseteq Parties /\ Providers = {"CLIENT", "SERVER"}
  BY DEF Parties, Providers
<1>3. /\ Providers \subseteq Keys /\ "pir_key" \in Keys /\ Response \in Keys
      /\ <<"CLIENT", "result_id">> \in Addresses /\ <<"SERVER", "default">> \in Addresses
  BY DEF Keys, Addresses, Parties, Providers
<1>4. RequestInv
  <2>1. ASSUME NEW p \in Providers \cup {"CACHE"} PROVE input[p] \in Seq(Items)
    <3>0. input[p] \in Inputs
      BY <1>1
    <3>1. PICK n \in 0..MaxRows : input[p] \in [1..n -> Items]
      BY <3>0 DEF Inputs
    <3>2. n \in Nat
      BY <3>1, KernelAssumption
    <3>3. QED BY <3>1, <3>2
  <2>2. task.kind = "PIR" => ~task.sync /\ ~task.unique /\ input["SERVER"] # <<>>
    BY <1>1 DEF Possible
  <2>3. QED BY <1>1, <2>1, <2>2 DEF RequestInv
<1>5. FrameInv
  <2>1. \A p \in Parties : Ahead(prog[p]) \subseteq Full(p)
    BY StartFull
  <2>2. ASSUME NEW p \in Parties, status[p] = "success" PROVE prog[p] = Idle
    <3>1. p = "TEE_COMPUTE" /\ task.kind # "TEE"
      BY <1>1, <2>2 DEF Members, Parties
    <3>2. QED BY <3>1, StartProg
  <2>3. \A p \in Providers : elements[p] \in {<<>>, LoadDataset(p)}
    BY <1>1, <1>2
  <2>4. /\ elements = [p \in Parties |-> elements[p]] /\ result = [p \in Parties |-> result[p]]
    BY <1>1
  <2>5. heard = [p \in Parties |-> [k \in Keys |-> heard[p][k]]]
    BY <1>1
  <2>6. QED BY <2>1, <2>2, <2>3, <2>4, <2>5, <1>1 DEF FrameInv
<1>6. EnclaveInv
  BY <1>1, <1>2, <1>3, StartTodo DEF EnclaveInv
<1>7. \A p \in Parties : \A k \in Keys : heard[p][k] = {}
  BY <1>1
<1>8. \A a \in Addresses : DOMAIN queue[a] = {}
  BY <1>1
<1>9. HeardItems = {}
  BY <1>2, <1>7 DEF HeardItems
<1>10. Pairs(heard["CLIENT"][Response]) = {} /\ Heard = {}
  BY <1>2, <1>3, <1>7 DEF Pairs, Heard, BundlesIn
<1>11. LoadInv /\ QueueInv
  BY <1>2, <1>8, StartTodo DEF LoadInv, QueueInv
<1>12. PsiHeardInv /\ TeeHeardInv
  BY <1>2, <1>3, <1>7, <1>9, StartTodo DEF PsiHeardInv, TeeHeardInv
<1>13. QueryInv /\ PackageInv
  BY <1>2, <1>3, <1>7, <1>10, StartTodo DEF QueryInv, PackageInv
<1>14. AnswerInv /\ DbInv
  BY <1>8, <1>10, StartTodo DEF AnswerInv, DbInv, Ready, NoPackage
<1>15. SyncInv
  <2>1. result["CLIENT"] = <<>> /\ result["SERVER"] = <<>>
    BY <1>1, <1>2
  <2>2. ToSet(<<>>) = {}
    BY DEF ToSet
  <2>3. IsFiniteSet(ToSet(result["CLIENT"]))
    BY <2>1, <2>2, FS_EmptySet
  <2>4. task.sync => "result" \in Todo("SERVER")
    BY <1>4, StartTodo DEF RequestInv
  <2>5. QED BY <1>3, <1>8, <2>1, <2>3, <2>4 DEF SyncInv
<1>16. QED BY <1>4, <1>5, <1>6, <1>11, <1>12, <1>13, <1>14, <1>15 DEF DataInv, CleanInv

(* Steps on which no party moves leave it all as it is.                    *)
LEMMA DataNext ==
  ASSUME LinkInv, DataInv, [Next]_vars
  PROVE  DataInv'
<1>1. RequestInv /\ FrameInv /\ EnclaveInv /\ (Clean => CleanInv) /\ (~hidden => SyncInv)
  BY DEF DataInv
<1>2. ASSUME NEW p \in Parties, PartyNext(p) \/ StepFails(p) \/ Killed(p) PROVE DataInv'
  <2>1. RequestInv'
    BY <1>1, <1>2, StepSame, SameRequest
  <2>2. FrameInv' /\ EnclaveInv'
    BY <1>1, <1>2, FrameKept, EnclaveKept
  <2>3. Clean' => CleanInv'
    BY <1>1, <1>2, CleanKept
  <2>4. ~hidden' => SyncInv'
    BY <1>1, <1>2, SyncKept
  <2>5. QED BY <2>1, <2>2, <2>3, <2>4 DEF DataInv
<1>3. CASE UNCHANGED vars \/ GenerateDb
  <2>1. /\ UNCHANGED <<task, input, elements, prog, queue, heard, db, result, status, hidden>>
        /\ cache' \in {cache, input["SERVER"]} /\ (cache' # cache => task.kind = "PIR")
    BY <1>3 DEF vars, GenerateDb
  <2>2. use_cache => use_cache'
    BY <1>1, <2>1 DEF use_cache, RequestInv
  <2>3. RequestInv' /\ \A q : Full(q)' = Full(q) /\ LoadDataset(q)' = LoadDataset(q)
    BY <1>1, <2>1, SameRequest
  <2>4. \A q : Todo(q)' = Todo(q)
    BY <2>1 DEF Todo
  <2>5. FrameInv'
    BY <1>1, <2>1, <2>3 DEF FrameInv
  <2>6. EnclaveInv'
    BY <1>1, <2>1, <2>4 DEF EnclaveInv
  <2>7. Clean' => CleanInv'
    BY <1>1, <2>1, <2>2, QuietClean DEF Clean, Stopped
  <2>8. ~hidden' => SyncInv'
    BY <1>1, <2>1, <2>4 DEF SyncInv
  <2>9. QED BY <2>3, <2>5, <2>6, <2>7, <2>8 DEF DataInv
<1>4. QED BY <1>2, <1>3 DEF Next, Done

(* A client that is through has its answer.                                *)
LEMMA DataRight ==
  ASSUME DataInv
  PROVE  ResultRight
<1>1. RequestInv /\ FrameInv /\ (Clean => CleanInv) /\ (~hidden => SyncInv)
  BY DEF DataInv
<1>2. "CLIENT" \in Parties /\ "SERVER" \in Parties /\ "CLIENT" \in Providers /\ "SERVER" \in Providers
  BY DEF Parties, Providers
<1>3. ASSUME NEW p \in Parties, status[p] = "success" PROVE Todo(p) = {}
  BY <1>1, <1>3, IdleProgram DEF FrameInv, Todo
<1>4. ASSUME ClientEndsWell PROVE CleanInv /\ Todo("CLIENT") = {}
  BY <1>1, <1>2, <1>3, <1>4 DEF Clean, ClientEndsWell
<1>5. ASSUME ClientEndsWell, task.kind # "PIR", Honoured
      PROVE  \A x \in Items : Count(x, result["CLIENT"]) = Expected(x)
  <2>1. result["CLIENT"] = Answer
    BY <1>4, <1>5 DEF CleanInv, AnswerInv
  <2>2. QED BY <1>1, <1>5, <2>1, AnswerRight
<1>6. ASSUME ClientEndsWell, task.kind = "PIR"
      PROVE  /\ db \in Served
             /\ ToSet(result["CLIENT"]) =
                  { <<k, LabelsOf(db, k)>> : k \in ToSet(input["CLIENT"]) \cap ToSet(db) }
  <2>1. result["CLIENT"] = SetToSeq(PirAnswer) /\ Heard = Bundles /\ Bundles # {}
    BY <1>4, <1>6 DEF CleanInv, AnswerInv, PackageInv, Bundles
  <2>2. db \in Served
    BY <1>4, <1>6, <2>1 DEF CleanInv, DbInv
  <2>3. QED BY <1>1, <1>6, <2>1, <2>2, PirAnswerRight
<1>7. ASSUME task.sync, \A p \in Providers : status[p] = "success", ~hidden
      PROVE  ToSet(result["SERVER"]) = ToSet(result["CLIENT"])
  <2>1. status["CLIENT"] = "success" /\ Todo("SERVER") = {}
    BY <1>2, <1>3, <1>7
  <2>2. QED BY <1>1, <1>7, <2>1 DEF SyncInv
<1>8. QED BY <1>7, <1>5, <1>6 DEF ResultRight

(* When PsiTask or PirTask of a client ends well and no failure was        *)
(* hidden, what it saved is the intersection or difference of the two      *)
(* datasets with its duplicates, as the request asks for, in the enclave   *)
(* for requests it honours; or the labels of every keyword found, all from *)
(* one state of the server's dataset, whether the database was made for    *)
(* this task, read from an older file or written by another task on the    *)
(* way; and with sync_result the server saved the same elements: for any   *)
(* items and datasets, and any interleaving and failures of the parties.   *)
THEOREM ResultsRight == Spec => []ResultRight
<1> DEFINE Inv == LinkInv /\ DataInv
<1>1. Init => Inv
  BY LinkStart, DataStart
<1>2. Inv /\ [Next]_vars => Inv'
  BY LinkNext, DataNext
<1>3. Inv => ResultRight
  BY DataRight
<1>4. QED BY <1>1, <1>2, <1>3, PTL DEF Spec
=============================================================================
