--------------------------- MODULE MpcTaskProofs ---------------------------
(***************************************************************************)
(* Theorems about MpcTask for any number of columns, any data and any      *)
(* width of integers: the exchange is decided alike everywhere, the        *)
(* parties' operations stay in step, and a party that has registered its   *)
(* dataset has the values of the party before it.                          *)
(***************************************************************************)
EXTENDS MpcTask, FiniteSetTheorems, SequenceTheorems, WellFoundedInduction, TLAPS

(* The state's types.  A log is a sequence of operations, and what values  *)
(* they carry is not looked at here.                                       *)
Tasks == [algo : {"missing", "statistics"}, type : {"MAX", "MIN", "AVG", "SUM"},
          aux : BOOLEAN, huge : {IntMin, IntMax}]
TypeInv ==
  /\ input \in Inputs /\ task \in Tasks
  /\ Missing => task.type # "SUM" /\ ~task.aux
  /\ DOMAIN log = Parties /\ \A p \in Parties : log[p] \in Seq(Range(log[p]))
  /\ col \in [Parties -> Nat] /\ base \in [Parties -> Nat]
  /\ DOMAIN result = Parties
  /\ status \in [Parties -> {"load", "run", "done", "failed", "crashed", "garbled"}]

(* Where the operations of a column are in the log: after the exchange and *)
(* those of the columns before it.  A sum of the statistics is over all    *)
(* columns at once.                                                        *)
Visits(p)   == IF Missing \/ Extremum THEN Ahead(p, 0) ELSE {1}
Before(p, c) == {x \in Visits(p) : x < c}
Exchange    == IF Missing THEN 2 ELSE 0
Base(p, c)  == Exchange + ColumnOps * Cardinality(Before(p, c))
AtEnd(p)    == Len(input.decl[p]) + 1
LastOp(p)   == Base(p, AtEnd(p)) + 1

(* Which parties bring a value to the i-th operation of the column at b:   *)
(* for an extremum the comparisons decide.                                 *)
FirstAt(b)  == IF KeepsFirst(Less(b + 1)) THEN 0 ELSE 1
WinnerAt(b) == IF KeepsFirst(Less(b + 3)) THEN FirstAt(b) ELSE 2
Bring(b, i) ==
  IF Extremum THEN CASE i = 1 -> {0, 1} [] i = 3 -> {FirstAt(b), 2}
                     [] i = 5 -> {WinnerAt(b)} [] OTHER -> {}
  ELSE CASE i <= 3 -> {i - 1} [] i \in 4..6 /\ ~Missing -> {i - 4} [] OTHER -> {}

(* The i-th operation of a column.                                         *)
KindAt(i) == IF Extremum THEN IF i \in {1, 3} THEN "compare" ELSE IF i = 5 THEN "share" ELSE "reveal"
             ELSE IF i <= 3 \/ (i <= 6 /\ ~Missing) THEN "share" ELSE "reveal"
ToAt(i)   == IF Extremum \/ Missing \/ i <= 6 THEN 3 ELSE IF i <= 9 THEN i - 7 ELSE i - 10
SizeAt(p) == IF Extremum THEN 1 ELSE IF Missing THEN 2 ELSE Len(input.decl[p])
Right(p, b, i) ==
  /\ log[p][b + i].kind = KindAt(i) /\ log[p][b + i].to = ToAt(i)
  /\ log[p][b + i].n = SizeAt(p)
  /\ log[p][b + i].val # <<>> <=> p \in Bring(b, i)

(* A party is in the exchange, in a column, or through.                    *)
InExchange(p) == col[p] = 0 /\ base[p] = 0 /\ Entered(p) \in 0..Exchange
AtColumn(p)   == /\ col[p] \in Visits(p) /\ base[p] = Base(p, col[p])
                 /\ Entered(p) \in (base[p] + 1)..(base[p] + ColumnOps)
Through(p)    == col[p] = AtEnd(p) /\ Entered(p) = IF Missing THEN LastOp(p) ELSE Base(p, AtEnd(p))
PlaceInv == \A p \in Parties :
  /\ InExchange(p) \/ AtColumn(p) \/ Through(p)
  /\ status[p] = "load" => Entered(p) = 0 /\ col[p] = 0
  /\ status[p] = "run" => Entered(p) >= 1
  /\ ~Missing /\ Entered(p) >= 1 => Columns(p) # {}

(* What is in the logs.                                                    *)
ExchangeLog(p) == Missing =>
  /\ Entered(p) >= 1 => log[p][1] = Op("cols", 3, 1, <<Len(input.decl[p])>>)
  /\ Entered(p) >= 2 => log[p][2] = Op("dtypes", 3, Len(input.decl[p]), input.decl[p])
ColumnLog(p) == \A c \in Visits(p), i \in 1..ColumnOps : \A b \in {Base(p, c)} :
  b + i <= Entered(p) => Right(p, b, i)
LastLog(p) == Missing /\ Entered(p) >= LastOp(p) => log[p][LastOp(p)] = createShares(p, 0, <<1>>)
Covered(p) == \A k \in (Exchange + 1)..Entered(p) :
  \/ \E c \in Visits(p), i \in 1..ColumnOps : k = Base(p, c) + i
  \/ Missing /\ k = LastOp(p)
LogInv == \A p \in Parties : ExchangeLog(p) /\ ColumnLog(p) /\ LastLog(p) /\ Covered(p)

(* Who has to be how far: the exchange waits for everyone, a comparison    *)
(* too, and a share or a reveal to all for the party before.               *)
AskedInv == Missing => \A p, q \in Parties :
  /\ Entered(p) >= 2 => Entered(q) >= 1 /\ Len(input.decl[q]) = Len(input.decl[p])
  /\ Entered(p) >= 3 => Entered(q) >= 2 /\ input.decl[q] = input.decl[p]
RingInv == Missing => \A p \in Parties : Entered(p) <= Entered(PrevPartyId(p)) + 1
CompareInv == Extremum => \A p, q \in Parties : \A c \in Visits(p), i \in {1, 3} :
  Entered(p) > Base(p, c) + i => Entered(q) >= Base(p, c) + i /\ Givers(Base(p, c) + i) # {}
MetInv == AskedInv /\ RingInv /\ CompareInv

(* A party that refused in the exchange has seen a difference.             *)
RefuseInv == Missing => \A p \in Parties : status[p] = "failed" =>
  /\ Entered(p) = 1 => \E q \in Parties : Len(input.decl[q]) # Len(input.decl[p])
  /\ Entered(p) = 2 => \E q \in Parties : input.decl[q] # input.decl[p]

(* What a party has revealed for a column depends on the logs alone.       *)
TotalAt(b, j)   == Wrap(Given(b + 1)[j] + Given(b + 2)[j] + Given(b + 3)[j])
FigureAt(p, c) ==
  LET b == Base(p, c) IN
  IF Extremum THEN <<Given(b + 5)[1], 1>>
  ELSE IF input.decl[p][c] = "int" THEN <<Quotient(TotalAt(b, 1), TotalAt(b, 2)), 1>>
  ELSE <<TotalAt(b, 1), TotalAt(b, 2)>>
Behind(p) == {c \in Visits(p) : c < col[p]}
ResultOf(p) ==
  /\ result[p] = [c \in Behind(p) |-> FigureAt(p, c)]
  /\ \A c \in Behind(p), q \in Parties : Entered(q) >= Base(p, c) + ColumnOps - 1
DoneOf(p) == status[p] = "done" => Through(p) /\ Entered(PrevPartyId(p)) >= LastOp(p)
ResultInv == Missing /\ Consistent => \A p \in Parties : ResultOf(p) /\ DoneOf(p)

-----------------------------------------------------------------------------
(* A set of natural numbers has a least element.                           *)
LEMMA LeastThere ==
  ASSUME NEW S, S \subseteq Nat, S # {}
  PROVE  Min(S) \in S /\ \A y \in S : Min(S) <= y
<1>1. \E x \in S : \A y \in S : <<y, x>> \notin OpToRel(<, Nat)
  BY NatLessThanWellFounded, WFMin, Zenon
<1>2. PICK x \in S : \A y \in S : <<y, x>> \notin OpToRel(<, Nat)
  BY <1>1
<1>3. \A y \in S : ~(y < x)
  BY <1>2 DEF OpToRel
<1>4. \A y \in S : x <= y
  BY <1>3
<1>5. QED BY <1>4 DEF Min

(* A set of parties has a first and a last.                                *)
LEMMA EndsOfParties ==
  ASSUME NEW S, S \subseteq Parties, S # {}
  PROVE  Min(S) \in S /\ Max(S) \in S
<1>1. S \subseteq Nat
  BY DEF Parties
<1>2. Min(S) \in S
  BY <1>1, LeastThere
<1>3. \E x \in S : \A y \in S : x >= y
  <2>0. \A y \in S : y = 0 \/ y = 1 \/ y = 2
    BY DEF Parties
  <2>1. CASE 2 \in S
    <3>1. \A y \in S : 2 >= y
      BY <2>0
    <3>2. QED BY <3>1, <2>1
  <2>2. CASE 2 \notin S /\ 1 \in S
    <3>1. \A y \in S : 1 >= y
      BY <2>0, <2>2
    <3>2. QED BY <3>1, <2>2
  <2>3. CASE 2 \notin S /\ 1 \notin S
    <3>1. \A y \in S : y = 0
      BY <2>0, <2>3
    <3>2. \A y \in S : 0 >= y
      BY <3>1
    <3>3. QED BY <3>1, <3>2
  <2>4. QED BY <2>1, <2>2, <2>3
<1>4. Max(S) \in S
  BY <1>3 DEF Max
<1>5. QED BY <1>2, <1>4

(* The smaller of two numbers.                                             *)
LEMMA SmallerOfTwo ==
  ASSUME NEW a \in Nat, NEW b \in Nat
  PROVE  Min({a, b}) <= a /\ Min({a, b}) <= b /\ Min({a, b}) \in Nat
BY LeastThere

(* What a party enters is added to its log, which is otherwise the same.   *)
LEMMA Appended ==
  ASSUME NEW s, s \in Seq(Range(s)), NEW x
  PROVE  /\ Len(s) \in Nat /\ DOMAIN s = 1..Len(s)
         /\ Append(s, x) \in Seq(Range(Append(s, x))) /\ Len(Append(s, x)) = Len(s) + 1
         /\ \A k \in 1..Len(s) : Append(s, x)[k] = s[k]
         /\ Append(s, x)[Len(s) + 1] = x
<1> DEFINE S == Range(s) \cup {x}
           t == Append(s, x)
<1>1. Len(s) \in Nat /\ DOMAIN s = 1..Len(s)
  BY LenProperties
<1>2. s \in Seq(S) /\ x \in S
  <2>1. \A k \in 1..Len(s) : s[k] \in Range(s)
    BY ElementOfSeq
  <2>2. s \in [1..Len(s) -> S]
    BY <1>1, <2>1, LenProperties
  <2>3. QED BY <1>1, <2>2, SeqDef
<1> HIDE DEF S
<1>3. /\ t \in Seq(S) /\ Len(t) = Len(s) + 1
      /\ \A k \in 1..Len(s) : t[k] = s[k]
      /\ t[Len(s) + 1] = x
  BY <1>1, <1>2, AppendProperties
<1>4. DOMAIN t = 1..Len(t) /\ Len(t) \in Nat /\ t \in [1..Len(t) -> S]
  BY <1>3, LenProperties
<1> HIDE DEF t
<1>5. t \in [1..Len(t) -> Range(t)]
  BY <1>4 DEF Range
<1>6. t \in Seq(Range(t))
  BY <1>4, <1>5, SeqDef
<1>7. QED BY <1>1, <1>3, <1>6 DEF t

-----------------------------------------------------------------------------
(* Numbers of operations and of columns.                                   *)
LEMMA OpsNumber == ColumnOps \in {4, 6, 9, 12} /\ Exchange \in {0, 2}
BY DEF ColumnOps, Exchange

LEMMA PartyFacts ==
  ASSUME TypeInv, NEW p \in Parties
  PROVE  /\ Entered(p) \in Nat /\ DOMAIN log[p] = 1..Entered(p)
         /\ Len(input.decl[p]) \in Nat
         /\ Visits(p) \subseteq 1..(Len(input.decl[p]) + 1)
         /\ (Missing \/ Columns(p) # {}) => Visits(p) \subseteq 1..Len(input.decl[p])
<1>1. log[p] \in Seq(Range(log[p]))
  BY DEF TypeInv
<1>2. Entered(p) \in Nat /\ DOMAIN log[p] = 1..Entered(p)
  BY <1>1, LenProperties DEF Entered
<1>3. input.decl[p] \in Seq({"int", "double", "string"})
  BY MpcAssumption DEF TypeInv
<1>4. Len(input.decl[p]) \in Nat
  BY <1>3, LenProperties
<1>5. Ahead(p, 0) \subseteq 1..Len(input.decl[p])
  BY <1>4 DEF Ahead, Columns
<1>6. Visits(p) \subseteq 1..(Len(input.decl[p]) + 1)
  BY <1>4, <1>5 DEF Visits
<1>7. ASSUME Missing \/ Columns(p) # {}
      PROVE  Visits(p) \subseteq 1..Len(input.decl[p])
  BY <1>4, <1>5, <1>7 DEF Visits, Columns
<1>8. QED BY <1>2, <1>4, <1>6, <1>7

LEMMA BeforeCounts ==
  ASSUME TypeInv, NEW p \in Parties, NEW c
  PROVE  IsFiniteSet(Before(p, c)) /\ Cardinality(Before(p, c)) \in Nat
<1>0. 1 \in Int /\ Len(input.decl[p]) + 1 \in Int
  BY PartyFacts
<1>1. IsFiniteSet(1..(Len(input.decl[p]) + 1))
  BY <1>0, FS_Interval
<1>2. Before(p, c) \subseteq 1..(Len(input.decl[p]) + 1)
  BY PartyFacts DEF Before
<1>3. IsFiniteSet(Before(p, c))
  BY <1>1, <1>2, FS_Subset
<1>4. QED BY <1>3, FS_CardinalityType

(* Where a column begins.                                                  *)
LEMMA BaseType ==
  ASSUME TypeInv, NEW p \in Parties, NEW c
  PROVE  Base(p, c) \in Nat /\ Base(p, c) >= Exchange
<1>1. Cardinality(Before(p, c)) \in Nat
  BY BeforeCounts
<1>2. QED BY <1>1, OpsNumber DEF Base

(* The operations of a column lie between those of the others.             *)
LEMMA BaseApart ==
  ASSUME TypeInv, NEW p \in Parties, NEW c \in Visits(p), NEW d \in Nat, c < d
  PROVE  Base(p, d) >= Base(p, c) + ColumnOps
<1> DEFINE B == Before(p, c)
           D == Before(p, d)
<1>1. c \in Nat
  BY PartyFacts
<1>2. c \notin B /\ B \cup {c} \subseteq D
  BY <1>1, PartyFacts DEF Before
<1>3. IsFiniteSet(B) /\ Cardinality(B) \in Nat /\ IsFiniteSet(D) /\ Cardinality(D) \in Nat
  BY BeforeCounts
<1> HIDE DEF B, D
<1>4. Cardinality(B \cup {c}) = Cardinality(B) + 1
  BY <1>2, <1>3, FS_AddElement
<1>5. Cardinality(B \cup {c}) <= Cardinality(D)
  BY <1>2, <1>3, FS_Subset
<1>6. \A b, e \in Nat : b + 1 <= e => Exchange + ColumnOps * e >= Exchange + ColumnOps * b + ColumnOps
  BY OpsNumber
<1>7. QED BY <1>3, <1>4, <1>5, <1>6 DEF Base, B, D

(* The column after c begins where c ends.                                 *)
LEMMA BaseNext ==
  ASSUME TypeInv, NEW p \in Parties, NEW c \in Visits(p), NEW d \in Nat, c < d,
         \A x \in Visits(p) : x <= c \/ x >= d
  PROVE  Base(p, d) = Base(p, c) + ColumnOps
<1> DEFINE B == Before(p, c)
           D == Before(p, d)
<1>1. c \in Nat
  BY PartyFacts
<1>2. c \notin B /\ D = B \cup {c}
  BY <1>1, PartyFacts DEF Before
<1>3. IsFiniteSet(B) /\ Cardinality(B) \in Nat
  BY BeforeCounts
<1> HIDE DEF B, D
<1>4. Cardinality(D) = Cardinality(B) + 1
  BY <1>2, <1>3, FS_AddElement
<1>5. \A b \in Nat : Exchange + ColumnOps * (b + 1) = Exchange + ColumnOps * b + ColumnOps
  BY OpsNumber
<1>6. QED BY <1>3, <1>4, <1>5 DEF Base, B, D

(* The first column begins after the exchange.                             *)
LEMMA BaseFirst ==
  ASSUME TypeInv, NEW p \in Parties, NEW d \in Nat, \A x \in Visits(p) : x >= d
  PROVE  Base(p, d) = Exchange
<1>1. Before(p, d) = {}
  BY PartyFacts DEF Before
<1>2. Cardinality(Before(p, d)) = 0
  BY <1>1, FS_EmptySet
<1>3. QED BY <1>2, OpsNumber DEF Base

(* No two columns share a place in the log.                                *)
LEMMA PlaceOnce ==
  ASSUME TypeInv, NEW p \in Parties, NEW c \in Visits(p), NEW d \in Visits(p),
         NEW i \in 1..ColumnOps, NEW j \in 1..ColumnOps, Base(p, c) + i = Base(p, d) + j
  PROVE  c = d /\ i = j
<1>1. c \in Nat /\ d \in Nat /\ Base(p, c) \in Nat /\ Base(p, d) \in Nat
  BY PartyFacts, BaseType
<1>2. i \in Nat /\ j \in Nat /\ ColumnOps \in Nat /\ i >= 1 /\ i <= ColumnOps /\ j >= 1 /\ j <= ColumnOps
  BY OpsNumber
<1>3. c < d => Base(p, d) >= Base(p, c) + ColumnOps
  BY <1>1, BaseApart
<1>4. d < c => Base(p, c) >= Base(p, d) + ColumnOps
  BY <1>1, BaseApart
<1>5. c = d
  BY <1>1, <1>2, <1>3, <1>4
<1>6. QED BY <1>1, <1>2, <1>5

(* The operation a party enters at the i-th place of a column is the one   *)
(* that belongs there: the comparisons it knows of decide who brings a     *)
(* value.                                                                  *)
LEMMA ColumnOpRight ==
  ASSUME TypeInv, NEW p \in Parties, NEW c, NEW i \in 1..ColumnOps, NEW b \in Nat,
         i > 1 => b = base[p], Missing \/ Columns(p) # {}
  PROVE  /\ ColumnOp(p, c, i).kind = KindAt(i) /\ ColumnOp(p, c, i).to = ToAt(i)
         /\ ColumnOp(p, c, i).n = SizeAt(p)
         /\ ColumnOp(p, c, i).val # <<>> <=> p \in Bring(b, i)
<1> DEFINE op == ColumnOp(p, c, i)
<1>0. \A v : <<v>> # <<>>
  OBVIOUS
<1>1. CASE Extremum
  <2>0. ColumnOps = 6
    BY <1>1 DEF ColumnOps
  <2>1. i \in 1..6 /\ op = ExtremumOp(p, c, i)
    BY <1>1, <2>0 DEF ColumnOp
  <2>2. CASE i = 1
    <3>1. op = MPC_Compare(p, {0, 1}, ToCompare(p, c))
      BY <2>1, <2>2 DEF ExtremumOp
    <3>2. Bring(b, i) = {0, 1} /\ KindAt(i) = "compare" /\ ToAt(i) = 3 /\ SizeAt(p) = 1
      BY <1>1, <2>2 DEF Bring, KindAt, ToAt, SizeAt
    <3>3. QED BY <1>0, <3>1, <3>2 DEF MPC_Compare, Op
  <2>3. CASE i = 3
    <3>1. op = MPC_Compare(p, {First(p), 2}, ToCompare(p, c))
      BY <2>1, <2>3 DEF ExtremumOp
    <3>2. Bring(b, i) = {First(p), 2} /\ KindAt(i) = "compare" /\ ToAt(i) = 3 /\ SizeAt(p) = 1
      BY <1>1, <2>3 DEF Bring, KindAt, ToAt, SizeAt, First, FirstAt
    <3>3. QED BY <1>0, <3>1, <3>2 DEF MPC_Compare, Op
  <2>4. CASE i = 5
    <3>1. op = createShares(p, Winner(p), <<LocalExtreme(p, c)>>)
      BY <2>1, <2>4 DEF ExtremumOp
    <3>2. Bring(b, i) = {Winner(p)} /\ KindAt(i) = "share" /\ ToAt(i) = 3 /\ SizeAt(p) = 1
      BY <1>1, <2>4 DEF Bring, KindAt, ToAt, SizeAt, First, FirstAt, Winner, WinnerAt
    <3>3. Len(<<LocalExtreme(p, c)>>) = 1
      OBVIOUS
    <3>4. QED BY <1>0, <3>1, <3>2, <3>3 DEF createShares, Op
  <2>5. CASE i \in {2, 4, 6}
    <3>1. op = revealAll(1)
      BY <2>1, <2>5 DEF ExtremumOp
    <3>2. Bring(b, i) = {} /\ KindAt(i) = "reveal" /\ ToAt(i) = 3 /\ SizeAt(p) = 1
      BY <1>1, <2>5 DEF Bring, KindAt, ToAt, SizeAt
    <3>3. QED BY <3>1, <3>2 DEF revealAll, Op
  <2>6. QED BY <2>1, <2>2, <2>3, <2>4, <2>5
<1>2. CASE ~Extremum /\ Missing
  <2>0. ColumnOps = 4
    BY <1>2 DEF ColumnOps
  <2>1. i \in 1..4 /\ op = SumOp(p, c, i)
    BY <1>2, <2>0 DEF ColumnOp
  <2>2. CASE i <= 3
    <3>1. op = createShares(p, i - 1, <<LocalSum(p, c), LocalCount(p, c)>>)
      BY <1>2, <2>1, <2>2 DEF SumOp
    <3>2. Bring(b, i) = {i - 1} /\ KindAt(i) = "share" /\ ToAt(i) = 3 /\ SizeAt(p) = 2
      BY <1>2, <2>2 DEF Bring, KindAt, ToAt, SizeAt
    <3>3. Len(<<LocalSum(p, c), LocalCount(p, c)>>) = 2 /\ <<LocalSum(p, c), LocalCount(p, c)>> # <<>>
      OBVIOUS
    <3>4. QED BY <3>1, <3>2, <3>3 DEF createShares, Op
  <2>3. CASE i = 4
    <3>1. op = revealAll(2)
      BY <1>2, <2>1, <2>3 DEF SumOp
    <3>2. Bring(b, i) = {} /\ KindAt(i) = "reveal" /\ ToAt(i) = 3 /\ SizeAt(p) = 2
      BY <1>2, <2>3 DEF Bring, KindAt, ToAt, SizeAt
    <3>3. QED BY <3>1, <3>2 DEF revealAll, Op
  <2>4. QED BY <2>1, <2>2, <2>3
<1>3. CASE ~Extremum /\ ~Missing
  <2> DEFINE n == Len(input.decl[p])
  <2>1. i \in 1..12 /\ op = SumOp(p, c, i)
    BY <1>3 DEF ColumnOps, ColumnOp
  <2>20. ASSUME NEW S, NEW f \in [1..n -> S] PROVE Len(f) = n /\ f # <<>>
    <3>1. n \in Nat /\ 1 \in 1..n
      BY <1>3, PartyFacts DEF Columns
    <3>3. f \in Seq(S)
      BY <3>1, SeqDef
    <3>4. DOMAIN f = 1..n
      OBVIOUS
    <3>5. Len(f) \in Nat /\ 1..Len(f) = 1..n
      BY <3>3, <3>4, LenProperties
    <3>6. DOMAIN f # {} /\ DOMAIN <<>> = {}
      BY <3>1, <3>4
    <3>7. QED BY <3>1, <3>5, <3>6
  <2>21. /\ Sums(p) \in [1..n -> {LocalSum(p, k) : k \in 1..n}]
         /\ Counts(p) \in [1..n -> {LocalCount(p, k) : k \in 1..n}]
    BY DEF Sums, Counts, Columns
  <2>22. Len(Sums(p)) = n /\ Sums(p) # <<>>
    BY <2>20, <2>21
  <2>23. Len(Counts(p)) = n /\ Counts(p) # <<>>
    BY <2>20, <2>21
  <2> HIDE DEF n
  <2>2. CASE i \in 1..3
    <3>1. op = createShares(p, i - 1, Sums(p))
      BY <1>3, <2>1, <2>2 DEF SumOp
    <3>2. Bring(b, i) = {i - 1} /\ KindAt(i) = "share" /\ ToAt(i) = 3 /\ SizeAt(p) = n
      BY <1>3, <2>2 DEF Bring, KindAt, ToAt, SizeAt, n
    <3>3. QED BY <3>1, <3>2, <2>22, <2>23 DEF createShares, Op
  <2>3. CASE i \in 4..6
    <3>1. op = createShares(p, i - 4, Counts(p))
      BY <1>3, <2>1, <2>3 DEF SumOp
    <3>2. Bring(b, i) = {i - 4} /\ KindAt(i) = "share" /\ ToAt(i) = 3 /\ SizeAt(p) = n
      BY <1>3, <2>3 DEF Bring, KindAt, ToAt, SizeAt, n
    <3>3. QED BY <3>1, <3>2, <2>22, <2>23 DEF createShares, Op
  <2>4. CASE i \in 7..9
    <3>1. op = reveal(i - 7, n)
      BY <1>3, <2>1, <2>4 DEF SumOp, n
    <3>2. Bring(b, i) = {} /\ KindAt(i) = "reveal" /\ ToAt(i) = i - 7 /\ SizeAt(p) = n
      BY <1>3, <2>4 DEF Bring, KindAt, ToAt, SizeAt, n
    <3>3. QED BY <3>1, <3>2 DEF reveal, Op
  <2>5. CASE i \in 10..12
    <3>1. op = reveal(i - 10, n)
      BY <1>3, <2>1, <2>5 DEF SumOp, n
    <3>2. Bring(b, i) = {} /\ KindAt(i) = "reveal" /\ ToAt(i) = i - 10 /\ SizeAt(p) = n
      BY <1>3, <2>5 DEF Bring, KindAt, ToAt, SizeAt, n
    <3>3. QED BY <3>1, <3>2 DEF reveal, Op
  <2>6. QED BY <2>1, <2>2, <2>3, <2>4, <2>5
<1>4. QED BY <1>1, <1>2, <1>3

-----------------------------------------------------------------------------
(* Steps.  A step of p concerns p alone, and enters at most one operation. *)
Untouched(q) == /\ log'[q] = log[q] /\ col'[q] = col[q] /\ base'[q] = base[q]
                /\ status'[q] = status[q] /\ result'[q] = result[q]

LEMMA Entering ==
  ASSUME TypeInv, NEW p \in Parties, NEW op, Enter(p, op)
  PROVE  /\ DOMAIN log' = Parties /\ log'[p] = Append(log[p], op)
         /\ \A q \in Parties \ {p} : log'[q] = log[q]
BY DEF TypeInv, Enter

LEMMA Ending ==
  ASSUME TypeInv, NEW p \in Parties, NEW st, Ends(p, st)
  PROVE  /\ DOMAIN status' = Parties /\ status'[p] = st
         /\ \A q \in Parties \ {p} : status'[q] = status[q]
BY DEF TypeInv, Ends

(* What beginning the next column does.                                    *)
LEMMA ColumnStarts ==
  ASSUME TypeInv, NEW p \in Parties, NEW c, StartColumn(p, c)
  PROVE  \/ /\ Ahead(p, c) # {} /\ Enter(p, ColumnOp(p, Min(Ahead(p, c)), 1))
            /\ col' = [col EXCEPT ![p] = Min(Ahead(p, c))]
            /\ base' = [base EXCEPT ![p] = Entered(p)] /\ status' = status
         \/ /\ Ahead(p, c) = {} /\ Auxiliary(p) /\ Ends(p, "done")
            /\ log' = log /\ col' = col /\ base' = base
         \/ /\ Ahead(p, c) = {} /\ ~Auxiliary(p) /\ Missing /\ Enter(p, createShares(p, 0, <<1>>))
            /\ col' = [col EXCEPT ![p] = AtEnd(p)] /\ base' = base /\ status' = status
         \/ /\ Ahead(p, c) = {} /\ ~Auxiliary(p) /\ ~Missing /\ log' = log
            /\ col' = [col EXCEPT ![p] = AtEnd(p)] /\ base' = base /\ status' = status
BY DEF StartColumn, finishPartyComm, AtEnd

LEMMA StepTouches ==
  ASSUME TypeInv, NEW p \in Parties, Step(p)
  PROVE  /\ task' = task /\ input' = input
         /\ DOMAIN log' = Parties /\ DOMAIN col' = Parties /\ DOMAIN base' = Parties
         /\ DOMAIN status' = Parties /\ DOMAIN result' = Parties
         /\ \A q \in Parties \ {p} : Untouched(q)
         /\ log'[p] = log[p] \/ \E op : log'[p] = Append(log[p], op)
<1>0. /\ DOMAIN log = Parties /\ DOMAIN col = Parties /\ DOMAIN base = Parties
      /\ DOMAIN status = Parties /\ DOMAIN result = Parties
  BY DEF TypeInv
<1>1. ASSUME NEW op, Enter(p, op)
      PROVE  /\ DOMAIN log' = Parties /\ log'[p] = Append(log[p], op)
             /\ \A q \in Parties \ {p} : log'[q] = log[q]
  BY <1>1, Entering
<1>2. ASSUME NEW st, Ends(p, st)
      PROVE  DOMAIN status' = Parties /\ \A q \in Parties \ {p} : status'[q] = status[q]
  BY <1>2, Ending
<1>3. ASSUME NEW c, StartColumn(p, c)
      PROVE  /\ DOMAIN log' = Parties /\ DOMAIN col' = Parties /\ DOMAIN base' = Parties
             /\ DOMAIN status' = Parties
             /\ \A q \in Parties \ {p} :
                  /\ log'[q] = log[q] /\ col'[q] = col[q] /\ base'[q] = base[q]
                  /\ status'[q] = status[q]
             /\ log'[p] = log[p] \/ \E op : log'[p] = Append(log[p], op)
  <2>1. CASE /\ Enter(p, ColumnOp(p, Min(Ahead(p, c)), 1))
             /\ col' = [col EXCEPT ![p] = Min(Ahead(p, c))]
             /\ base' = [base EXCEPT ![p] = Entered(p)] /\ status' = status
    BY <1>0, <1>1, <2>1
  <2>2. CASE Ends(p, "done") /\ log' = log /\ col' = col /\ base' = base
    BY <1>0, <1>2, <2>2
  <2>3. CASE /\ Enter(p, createShares(p, 0, <<1>>))
             /\ col' = [col EXCEPT ![p] = AtEnd(p)] /\ base' = base /\ status' = status
    BY <1>0, <1>1, <2>3
  <2>4. CASE /\ log' = log
             /\ col' = [col EXCEPT ![p] = AtEnd(p)] /\ base' = base /\ status' = status
    BY <1>0, <2>4
  <2>5. QED BY <1>3, <2>1, <2>2, <2>3, <2>4, ColumnStarts
<1>4. CASE Load(p)
  <2>1. CASE Missing
    BY <1>0, <1>1, <1>2, <1>4, <2>1 DEF Load, Untouched
  <2>2. CASE ~Missing
    BY <1>0, <1>1, <1>2, <1>4, <2>2 DEF Load, Untouched
  <2>3. QED BY <2>1, <2>2
<1>5. CASE LoadEnds(p)
  BY <1>0, <1>2, <1>5 DEF LoadEnds, Untouched
<1>6. CASE ExchangeCols(p)
  <2>1. CASE Enter(p, Op("dtypes", 3, Len(input.decl[p]), input.decl[p])) /\ status' = status
    BY <1>0, <1>1, <1>6, <2>1 DEF ExchangeCols, Untouched
  <2>2. CASE Ends(p, "failed") /\ log' = log
    BY <1>0, <1>2, <1>6, <2>2 DEF ExchangeCols, Untouched
  <2>3. QED BY <1>6, <2>1, <2>2 DEF ExchangeCols
<1>7. CASE ExchangeDtypes(p)
  <2>1. CASE StartColumn(p, 0)
    BY <1>0, <1>3, <1>7, <2>1 DEF ExchangeDtypes, Untouched
  <2>2. CASE Ends(p, "failed") /\ log' = log /\ col' = col /\ base' = base
    BY <1>0, <1>2, <1>7, <2>2 DEF ExchangeDtypes, Untouched
  <2>3. QED BY <1>7, <2>1, <2>2 DEF ExchangeDtypes
<1>8. CASE NextOp(p)
  BY <1>0, <1>1, <1>8 DEF NextOp, Untouched
<1>9. CASE EndColumn(p)
  <2>1. PICK c : StartColumn(p, c)
    BY <1>9 DEF EndColumn
  <2>2. DOMAIN result' = Parties /\ \A q \in Parties \ {p} : result'[q] = result[q]
    BY <1>0, <1>9 DEF EndColumn
  <2>3. task' = task /\ input' = input
    BY <1>9 DEF EndColumn
  <2>4. QED BY <1>3, <2>1, <2>2, <2>3 DEF Untouched
<1>10. CASE Crash(p)
  BY <1>0, <1>2, <1>10 DEF Crash, Untouched
<1>11. CASE saveModel(p)
  BY <1>0, <1>2, <1>11 DEF saveModel, Untouched
<1>12. CASE Garbled(p)
  BY <1>0, <1>2, <1>12 DEF Garbled, Untouched
<1>13. QED BY <1>4, <1>5, <1>6, <1>7, <1>8, <1>9, <1>10, <1>11, <1>12 DEF Step

(* The first column ahead.                                                 *)
LEMMA FirstAhead ==
  ASSUME TypeInv, NEW p \in Parties, NEW c \in Nat, Ahead(p, c) # {}
  PROVE  /\ Min(Ahead(p, c)) \in Ahead(p, c) /\ Min(Ahead(p, c)) \in Nat
         /\ \A x \in Ahead(p, c) : Min(Ahead(p, c)) <= x
<1>1. Ahead(p, c) \subseteq Nat
  BY PartyFacts DEF Ahead, Columns
<1>2. QED BY <1>1, LeastThere

LEMMA InitType == Init => TypeInv
<1> SUFFICES ASSUME Init PROVE TypeInv
  OBVIOUS
<1>1. \A p \in Parties : log[p] = <<>>
  BY DEF Init
<1>2. <<>> \in Seq(Range(<<>>))
  OBVIOUS
<1>3. QED BY <1>1, <1>2 DEF Init, TypeInv, Tasks, Missing, Parties

Phases == {"load", "run", "done", "failed", "crashed", "garbled"}

(* Columns and statuses stay what they are.                                *)
LEMMA StepKinds ==
  ASSUME TypeInv, NEW p \in Parties, Step(p)
  PROVE  col' \in [Parties -> Nat] /\ base' \in [Parties -> Nat] /\ status' \in [Parties -> Phases]
<1>0. /\ col \in [Parties -> Nat] /\ base \in [Parties -> Nat] /\ status \in [Parties -> Phases]
      /\ col[p] \in Nat
  BY DEF TypeInv, Phases
<1>2. ASSUME NEW st \in Phases, Ends(p, st)
      PROVE  status' \in [Parties -> Phases]
  BY <1>0, <1>2 DEF Ends
<1>3. ASSUME NEW c \in Nat, StartColumn(p, c)
      PROVE  col' \in [Parties -> Nat] /\ base' \in [Parties -> Nat] /\ status' \in [Parties -> Phases]
  <2>1. CASE /\ Ahead(p, c) # {}
             /\ col' = [col EXCEPT ![p] = Min(Ahead(p, c))]
             /\ base' = [base EXCEPT ![p] = Entered(p)] /\ status' = status
    <3>1. Min(Ahead(p, c)) \in Nat /\ Entered(p) \in Nat
      BY <2>1, FirstAhead, PartyFacts
    <3>2. QED BY <1>0, <2>1, <3>1
  <2>2. CASE Ends(p, "done") /\ col' = col /\ base' = base
    BY <1>0, <1>2, <2>2 DEF Phases
  <2>3. CASE col' = [col EXCEPT ![p] = AtEnd(p)] /\ base' = base /\ status' = status
    <3>1. AtEnd(p) \in Nat
      BY PartyFacts DEF AtEnd
    <3>2. QED BY <1>0, <2>3, <3>1
  <2>4. QED BY <1>3, <2>1, <2>2, <2>3, ColumnStarts
<1>4. CASE Load(p)
  <2>1. status' \in [Parties -> Phases] /\ base' = base /\ (col' = col \/ col' = [col EXCEPT ![p] = 1])
    BY <1>2, <1>4 DEF Load, Phases
  <2>2. QED BY <1>0, <2>1
<1>5. CASE LoadEnds(p)
  BY <1>0, <1>2, <1>5 DEF LoadEnds, Phases
<1>6. CASE ExchangeCols(p)
  BY <1>0, <1>2, <1>6 DEF ExchangeCols, Phases
<1>7. CASE ExchangeDtypes(p)
  <2>1. CASE StartColumn(p, 0)
    BY <1>3, <2>1
  <2>2. CASE Ends(p, "failed") /\ log' = log /\ col' = col /\ base' = base
    BY <1>0, <1>2, <2>2 DEF Phases
  <2>3. QED BY <1>7, <2>1, <2>2 DEF ExchangeDtypes
<1>8. CASE NextOp(p)
  BY <1>0, <1>8 DEF NextOp
<1>9. CASE EndColumn(p)
  <2>1. PICK c \in Nat : StartColumn(p, c)
    BY <1>0, <1>9, PartyFacts DEF EndColumn
  <2>4. QED BY <1>3, <2>1
<1>10. CASE Crash(p)
  BY <1>0, <1>2, <1>10 DEF Crash, Phases
<1>11. CASE saveModel(p)
  BY <1>0, <1>2, <1>11 DEF saveModel, Phases
<1>12. CASE Garbled(p)
  BY <1>0, <1>2, <1>12 DEF Garbled, Phases
<1>13. QED BY <1>4, <1>5, <1>6, <1>7, <1>8, <1>9, <1>10, <1>11, <1>12 DEF Step

(* A step that is not of a party changes nothing.                          *)
LEMMA NextStep ==
  ASSUME [Next]_vars
  PROVE  (\E p \in Parties : Step(p)) \/ UNCHANGED vars
BY DEF Next

LEMMA StepType ==
  ASSUME TypeInv, NEW p \in Parties, Step(p)
  PROVE  TypeInv'
<1>1. /\ task' = task /\ input' = input
      /\ DOMAIN log' = Parties /\ DOMAIN result' = Parties
      /\ \A q \in Parties \ {p} : Untouched(q)
      /\ log'[p] = log[p] \/ \E op : log'[p] = Append(log[p], op)
  BY StepTouches
<1>2. \A q \in Parties : log'[q] \in Seq(Range(log'[q]))
  <2> TAKE q \in Parties
  <2>1. log[q] \in Seq(Range(log[q]))
    BY DEF TypeInv
  <2>2. CASE log'[q] = log[q]
    BY <2>1, <2>2
  <2>3. CASE q = p /\ \E op : log'[p] = Append(log[p], op)
    <3>1. PICK op : log'[q] = Append(log[q], op)
      BY <2>3
    <3>2. QED BY <2>1, <3>1, Appended
  <2>4. QED BY <1>1, <2>2, <2>3 DEF Untouched
<1>3. col' \in [Parties -> Nat] /\ base' \in [Parties -> Nat] /\ status' \in [Parties -> Phases]
  BY StepKinds
<1>4. QED
  BY <1>1, <1>2, <1>3 DEF TypeInv, Missing, Phases

(* Types are kept: no operation of the task leaves its input, its logs or  *)
(* the parties' places in a shape the others do not expect.                *)
THEOREM TypeStays == Spec => []TypeInv
<1>1. TypeInv /\ [Next]_vars => TypeInv'
  <2> SUFFICES ASSUME TypeInv, [Next]_vars PROVE TypeInv'
    OBVIOUS
  <2>1. CASE UNCHANGED vars
    BY <2>1 DEF TypeInv, Missing, vars
  <2>2. QED BY <2>1, NextStep, StepType
<1>2. QED BY <1>1, InitType, PTL DEF Spec

(* Nothing is taken out of a log.                                          *)
LEMMA LogGrows ==
  ASSUME TypeInv, NEW p \in Parties, Step(p)
  PROVE  /\ \A q \in Parties : /\ Entered(q) \in Nat /\ Entered(q)' \in Nat
                               /\ Entered(q)' >= Entered(q)
                               /\ \A k \in 1..Entered(q) : log'[q][k] = log[q][k]
         /\ \A q \in Parties \ {p} : Entered(q)' = Entered(q)
<1>1. \A q \in Parties \ {p} : log'[q] = log[q]
  BY StepTouches DEF Untouched
<1>2. \A q \in Parties : Entered(q) \in Nat
  BY PartyFacts
<1>3. CASE log'[p] = log[p]
  <2>1. \A q \in Parties : log'[q] = log[q]
    BY <1>1, <1>3
  <2>2. QED BY <1>2, <2>1 DEF Entered
<1>4. CASE \E op : log'[p] = Append(log[p], op)
  <2>1. PICK op : log'[p] = Append(log[p], op)
    BY <1>4
  <2>2. /\ Len(log'[p]) = Len(log[p]) + 1
        /\ \A k \in 1..Len(log[p]) : log'[p][k] = log[p][k]
    BY <2>1, Appended DEF TypeInv
  <2>3. QED BY <1>1, <1>2, <2>2 DEF Entered
<1>5. QED BY <1>3, <1>4, StepTouches

(* Where the columns are does not change.                                  *)
LEMMA ShapeStays ==
  ASSUME task' = task, input' = input
  PROVE  /\ Missing' = Missing /\ Extremum' = Extremum /\ ColumnOps' = ColumnOps
         /\ Exchange' = Exchange /\ Consistent' = Consistent
         /\ \A p : /\ Visits(p)' = Visits(p) /\ Columns(p)' = Columns(p)
                   /\ AtEnd(p)' = AtEnd(p) /\ LastOp(p)' = LastOp(p) /\ SizeAt(p)' = SizeAt(p)
         /\ \A p, c : Base(p, c)' = Base(p, c)
         /\ \A i : KindAt(i)' = KindAt(i) /\ ToAt(i)' = ToAt(i)
<1>1. Missing' = Missing /\ Extremum' = Extremum
  BY DEF Missing, Extremum
<1>2. ColumnOps' = ColumnOps /\ Exchange' = Exchange
  BY <1>1 DEF ColumnOps, Exchange
<1>3. \A p : Columns(p)' = Columns(p) /\ AtEnd(p)' = AtEnd(p) /\ SizeAt(p)' = SizeAt(p)
  BY <1>1 DEF Columns, AtEnd, SizeAt
<1>4. \A p, c : Ahead(p, c)' = Ahead(p, c)
  BY <1>1, <1>3 DEF Ahead
<1>5. \A p : Visits(p)' = Visits(p)
  BY <1>1, <1>4 DEF Visits
<1>6. \A p, c : Base(p, c)' = Base(p, c)
  BY <1>2, <1>5 DEF Base, Before
<1>7. \A p : LastOp(p)' = LastOp(p)
  BY <1>3, <1>6 DEF LastOp
<1>8. Consistent' = Consistent
  BY <1>1, <1>3, <1>4 DEF Consistent, loadParams, PlainText, Auxiliary
<1>9. \A i : KindAt(i)' = KindAt(i) /\ ToAt(i)' = ToAt(i)
  BY <1>1 DEF KindAt, ToAt
<1>10. QED BY <1>1, <1>2, <1>3, <1>5, <1>6, <1>7, <1>8, <1>9

(* Which operations belong to the exchange.                                *)
LEMMA KindOf ==
  ASSUME TypeInv, LogInv, NEW p \in Parties, Entered(p) >= 1
  PROVE  /\ Current(p).kind = "cols" => Missing /\ Entered(p) = 1
         /\ Current(p).kind = "dtypes" => Missing /\ Entered(p) = 2
<1>0. Entered(p) \in Nat /\ Exchange \in {0, 2} /\ (Missing => Exchange = 2)
  BY PartyFacts, OpsNumber DEF Exchange
<1>1. CASE Entered(p) <= Exchange
  <2>1. Missing /\ Entered(p) \in {1, 2}
    BY <1>0, <1>1 DEF Exchange
  <2>2. ExchangeLog(p)
    BY DEF LogInv
  <2>3. CASE Entered(p) = 1
    <3>1. Current(p) = Op("cols", 3, 1, <<Len(input.decl[p])>>)
      BY <2>1, <2>2, <2>3 DEF ExchangeLog, Current
    <3>2. QED BY <2>1, <2>3, <3>1 DEF Op
  <2>4. CASE Entered(p) = 2
    <3>1. Current(p) = Op("dtypes", 3, Len(input.decl[p]), input.decl[p])
      BY <2>1, <2>2, <2>4 DEF ExchangeLog, Current
    <3>2. QED BY <2>1, <2>4, <3>1 DEF Op
  <2>5. QED BY <2>1, <2>3, <2>4
<1>2. CASE Entered(p) > Exchange
  <2>1. Entered(p) \in (Exchange + 1)..Entered(p)
    BY <1>0, <1>2
  <2>2. \/ \E c \in Visits(p), i \in 1..ColumnOps : Entered(p) = Base(p, c) + i
        \/ Missing /\ Entered(p) = LastOp(p)
    BY <2>1, Zenon DEF LogInv, Covered
  <2>3. CASE Missing /\ Entered(p) = LastOp(p)
    <3>1. LastLog(p)
      BY DEF LogInv
    <3>2. Current(p) = createShares(p, 0, <<1>>)
      BY <1>0, <2>3, <3>1 DEF LastLog, Current
    <3>3. QED BY <3>2 DEF createShares, Op
  <2>4. CASE \E c \in Visits(p), i \in 1..ColumnOps : Entered(p) = Base(p, c) + i
    <3>1. PICK c \in Visits(p), i \in 1..ColumnOps : Entered(p) = Base(p, c) + i
      BY <2>4
    <3>2. ColumnLog(p)
      BY DEF LogInv
    <3>3. Right(p, Base(p, c), i)
      BY <1>0, <3>1, <3>2 DEF ColumnLog
    <3>4. Current(p).kind = KindAt(i)
      BY <3>1, <3>3 DEF Right, Current
    <3>5. KindAt(i) \in {"compare", "share", "reveal"}
      BY DEF KindAt
    <3>6. QED BY <3>4, <3>5
  <2>5. QED BY <2>2, <2>3, <2>4
<1>3. QED BY <1>0, <1>1, <1>2

(* What a party puts into the i-th operation of a column, if anything.     *)
ValueOf(p, c, i) ==
  IF Extremum THEN <<IF i = 5 THEN LocalExtreme(p, c) ELSE ToCompare(p, c)>>
  ELSE IF Missing THEN <<LocalSum(p, c), LocalCount(p, c)>>
  ELSE IF i <= 3 THEN Sums(p) ELSE Counts(p)
Puts(p, op, c, i) == op.val # <<>> => op.val = ValueOf(p, c, i)

LEMMA ColumnOpValue ==
  ASSUME NEW p, NEW c, NEW i \in 1..ColumnOps
  PROVE  Puts(p, ColumnOp(p, c, i), c, i)
<1>0. ColumnOps \in {4, 6, 9, 12}
  BY OpsNumber
<1>1. CASE Extremum
  <2>1. ColumnOp(p, c, i) = ExtremumOp(p, c, i)
    BY <1>1 DEF ColumnOp
  <2>2. ValueOf(p, c, i) = <<IF i = 5 THEN LocalExtreme(p, c) ELSE ToCompare(p, c)>>
    BY <1>1 DEF ValueOf
  <2>3. QED BY <1>0, <2>1, <2>2 DEF Puts, ExtremumOp, MPC_Compare, createShares, revealAll, Op
<1>2. CASE ~Extremum /\ Missing
  <2>1. ColumnOp(p, c, i) = IF i <= 3 THEN createShares(p, i - 1, <<LocalSum(p, c), LocalCount(p, c)>>)
                            ELSE revealAll(2)
    BY <1>2 DEF ColumnOp, SumOp
  <2>2. ValueOf(p, c, i) = <<LocalSum(p, c), LocalCount(p, c)>>
    BY <1>2 DEF ValueOf
  <2>3. QED BY <1>0, <2>1, <2>2 DEF Puts, createShares, revealAll, Op
<1>3. CASE ~Extremum /\ ~Missing
  <2>1. ColumnOp(p, c, i) = SumOp(p, c, i) /\ i \in Nat /\ i >= 1
    BY <1>0, <1>3 DEF ColumnOp
  <2>2. ValueOf(p, c, i) = (IF i <= 3 THEN Sums(p) ELSE Counts(p))
    BY <1>3 DEF ValueOf
  <2>3. CASE i \in 1..3
    <3>1. SumOp(p, c, i) = createShares(p, i - 1, Sums(p))
      BY <1>3, <2>3 DEF SumOp
    <3>2. ValueOf(p, c, i) = Sums(p)
      BY <2>2, <2>3
    <3>3. QED BY <2>1, <3>1, <3>2 DEF Puts, createShares, Op
  <2>4. CASE i \in 4..6
    <3>1. SumOp(p, c, i) = createShares(p, i - 4, Counts(p))
      BY <1>3, <2>4 DEF SumOp
    <3>2. ValueOf(p, c, i) = Counts(p)
      BY <2>2, <2>4
    <3>3. QED BY <2>1, <3>1, <3>2 DEF Puts, createShares, Op
  <2>5. CASE i \notin 1..3 /\ i \notin 4..6
    <3>1. \E to, n : SumOp(p, c, i) = reveal(to, n)
      BY <1>3, <2>5 DEF SumOp
    <3>2. SumOp(p, c, i).val = <<>>
      BY <3>1 DEF reveal, Op
    <3>3. QED BY <2>1, <3>2 DEF Puts
  <2>6. QED BY <2>3, <2>4, <2>5
<1>4. QED BY <1>1, <1>2, <1>3

(* The ways a party moves on in its log.                                   *)
OpIs(p, op, b, i) == /\ op.kind = KindAt(i) /\ op.to = ToAt(i) /\ op.n = SizeAt(p)
                     /\ op.val # <<>> <=> p \in Bring(b, i)
Stays(p)  == log'[p] = log[p] /\ col'[p] = col[p] /\ base'[p] = base[p]
Leaves(p) == /\ ~Missing /\ log'[p] = log[p] /\ col'[p] = AtEnd(p) /\ base'[p] = base[p]
             /\ Entered(p) = Base(p, AtEnd(p))
Tells(p)  == /\ Missing /\ InExchange(p) /\ col'[p] = col[p] /\ base'[p] = base[p]
             /\ \/ /\ Entered(p) = 0
                   /\ log'[p] = Append(log[p], Op("cols", 3, 1, <<Len(input.decl[p])>>))
                \/ /\ Entered(p) = 1
                   /\ log'[p] = Append(log[p], Op("dtypes", 3, Len(input.decl[p]), input.decl[p]))
Works(p)  == \E c \in Visits(p), i \in 1..ColumnOps, op \in Range(log'[p]) :
               /\ Entered(p) + 1 = Base(p, c) + i
               /\ log'[p] = Append(log[p], op) /\ OpIs(p, op, Base(p, c), i)
               /\ Puts(p, op, c, i)
               /\ col'[p] = c /\ base'[p] = Base(p, c)
               /\ i > 1 => AtColumn(p) /\ col[p] = c
Closes(p) == /\ Missing /\ Entered(p) = Base(p, AtEnd(p))
             /\ log'[p] = Append(log[p], createShares(p, 0, <<1>>))
             /\ col'[p] = AtEnd(p) /\ base'[p] = base[p]

(* A party that is entering an operation of a column.                      *)
LEMMA Working ==
  ASSUME TypeInv, NEW p \in Parties, NEW c \in Visits(p), NEW i \in 1..ColumnOps,
         Entered(p) + 1 = Base(p, c) + i, Enter(p, ColumnOp(p, c, i)),
         i > 1 => AtColumn(p) /\ col[p] = c /\ base[p] = Base(p, c),
         Missing \/ Columns(p) # {},
         col'[p] = c, base'[p] = Base(p, c)
  PROVE  Works(p)
<1> DEFINE op == ColumnOp(p, c, i)
<1>1. log'[p] = Append(log[p], op)
  BY Entering
<1>2. op \in Range(log'[p])
  <2>1. /\ Append(log[p], op) \in Seq(Range(Append(log[p], op)))
        /\ Len(Append(log[p], op)) = Len(log[p]) + 1
        /\ Append(log[p], op)[Len(log[p]) + 1] = op /\ Len(log[p]) \in Nat
    BY Appended DEF TypeInv
  <2>2. \A s : s \in Seq(Range(s)) => DOMAIN s = 1..Len(s)
    BY LenProperties
  <2>3. Len(log[p]) + 1 \in DOMAIN log'[p] /\ log'[p][Len(log[p]) + 1] = op
    BY <1>1, <2>1, <2>2
  <2>4. QED BY <2>3 DEF Range
<1>3. OpIs(p, op, Base(p, c), i)
  <2>1. Base(p, c) \in Nat
    BY BaseType
  <2>2. i > 1 => Base(p, c) = base[p]
    OBVIOUS
  <2>3. QED BY <2>1, <2>2, ColumnOpRight DEF OpIs
<1>4. Puts(p, op, c, i)
  BY ColumnOpValue
<1> HIDE DEF op
<1>5. QED BY <1>1, <1>2, <1>3, <1>4 DEF Works

(* Where a party is can be told from its column, or from how little it has *)
(* entered.                                                                *)
LEMMA Places ==
  ASSUME TypeInv, PlaceInv, NEW p \in Parties
  PROVE  /\ col[p] = 0 => InExchange(p)
         /\ InColumn(p) => AtColumn(p)
         /\ Missing /\ Entered(p) <= 2 => InExchange(p)
         /\ Missing /\ col[p] # 0 => Entered(p) >= 3
         /\ AtColumn(p) => (Missing \/ Columns(p) # {}) /\ col[p] \in 1..Len(input.decl[p])
<1>1. InExchange(p) \/ AtColumn(p) \/ Through(p)
  BY DEF PlaceInv
<1>2. ~Missing /\ Entered(p) >= 1 => Columns(p) # {}
  BY DEF PlaceInv
<1>3. Entered(p) \in Nat /\ Len(input.decl[p]) \in Nat /\ col[p] \in Nat /\ base[p] \in Nat
  BY PartyFacts DEF TypeInv
<1>4. Exchange \in {0, 2} /\ (Missing => Exchange = 2) /\ ColumnOps \in {4, 6, 9, 12}
  BY OpsNumber DEF Exchange
<1>5. AtColumn(p) => Entered(p) >= Exchange + 1
  <2>1. Base(p, col[p]) \in Nat /\ Base(p, col[p]) >= Exchange
    BY BaseType
  <2>2. QED BY <1>3, <1>4, <2>1 DEF AtColumn
<1>6. Through(p) => (Missing => Entered(p) >= 3) /\ col[p] = Len(input.decl[p]) + 1
  <2>1. Base(p, AtEnd(p)) \in Nat /\ Base(p, AtEnd(p)) >= Exchange
    BY BaseType
  <2>2. QED BY <1>3, <1>4, <2>1 DEF Through, LastOp, AtEnd
<1>7. AtColumn(p) => (Missing \/ Columns(p) # {}) /\ col[p] \in 1..Len(input.decl[p])
  <2>1. AtColumn(p) => Missing \/ Columns(p) # {}
    BY <1>2, <1>3, <1>4, <1>5
  <2>2. AtColumn(p) => col[p] \in Visits(p)
    BY DEF AtColumn
  <2>3. QED BY <2>1, <2>2, PartyFacts
<1>8. InExchange(p) => col[p] = 0
  BY DEF InExchange
<1>9. InColumn(p) => col[p] \in 1..Len(input.decl[p])
  BY DEF InColumn, Columns
<1>10. QED BY <1>1, <1>3, <1>4, <1>5, <1>6, <1>7, <1>8, <1>9

(* The columns ahead of one a party visits.                                *)
LEMMA AheadVisits ==
  ASSUME Missing \/ Extremum, NEW p, NEW c \in Nat, Len(input.decl[p]) \in Nat
  PROVE  Ahead(p, c) = {x \in Visits(p) : x > c}
<1>1. Visits(p) = Ahead(p, 0)
  BY DEF Visits
<1>2. Columns(p) \subseteq Nat \ {0}
  BY DEF Columns
<1>3. QED BY <1>1, <1>2 DEF Ahead

(* How a party goes on to the columns.                                     *)
LEMMA MoveToColumn ==
  ASSUME TypeInv, NEW p \in Parties, NEW c \in Nat, StartColumn(p, c),
         Missing \/ Columns(p) # {},
         \/ c = 0 /\ Missing /\ Entered(p) = Exchange
         \/ c \in Visits(p) /\ (Missing \/ Extremum) /\ Entered(p) = Base(p, c) + ColumnOps
         \/ ~Missing /\ ~Extremum /\ c = Len(input.decl[p]) /\ Entered(p) = Base(p, 1) + ColumnOps
  PROVE  Stays(p) \/ Leaves(p) \/ Works(p) \/ Closes(p)
<1>0. /\ Len(input.decl[p]) \in Nat /\ DOMAIN col = Parties /\ DOMAIN base = Parties
      /\ Visits(p) \subseteq 1..Len(input.decl[p]) /\ Entered(p) \in Nat
  BY PartyFacts DEF TypeInv
<1>1. ASSUME Ahead(p, c) # {}, NEW d \in Nat, d = Min(Ahead(p, c)) 
      PROVE  d \in Visits(p) /\ Base(p, d) = Entered(p)
  <2>1. Missing \/ Extremum
    BY <1>0, <1>1 DEF Ahead, Columns
  <2>2. d \in Ahead(p, c) /\ \A x \in Ahead(p, c) : d <= x
    BY <1>1, FirstAhead
  <2>3. Ahead(p, c) = {x \in Visits(p) : x > c}
    BY <1>0, <2>1, AheadVisits
  <2>4. d \in Visits(p) /\ c < d /\ \A x \in Visits(p) : x <= c \/ x >= d
    BY <1>0, <2>2, <2>3
  <2>5. CASE c = 0 /\ Entered(p) = Exchange
    <3>1. \A x \in Visits(p) : x >= d
      BY <1>0, <2>4, <2>5
    <3>2. QED BY <2>4, <2>5, <3>1, BaseFirst
  <2>6. CASE c \in Visits(p) /\ Entered(p) = Base(p, c) + ColumnOps
    BY <2>4, <2>6, BaseNext
  <2>7. QED BY <2>1, <2>5, <2>6
<1>2. ASSUME Ahead(p, c) = {}
      PROVE  Base(p, AtEnd(p)) = Entered(p)
  <2>1. AtEnd(p) \in Nat /\ \A x \in Visits(p) : x < AtEnd(p)
    BY <1>0 DEF AtEnd
  <2>2. CASE Missing \/ Extremum
    <3>1. {x \in Visits(p) : x > c} = {}
      BY <1>0, <1>2, <2>2, AheadVisits
    <3>2. \A x \in Visits(p) : x <= c
      BY <1>0, <3>1
    <3>3. CASE c = 0 /\ Entered(p) = Exchange
      <4>1. \A x \in Visits(p) : x >= AtEnd(p)
        BY <1>0, <3>2, <3>3
      <4>2. QED BY <2>1, <3>3, <4>1, BaseFirst
    <3>4. CASE c \in Visits(p) /\ Entered(p) = Base(p, c) + ColumnOps
      BY <2>1, <3>2, <3>4, BaseNext
    <3>5. QED BY <2>2, <3>3, <3>4
  <2>3. CASE ~(Missing \/ Extremum)
    <3>1. Visits(p) = {1} /\ Entered(p) = Base(p, 1) + ColumnOps
      BY <2>3 DEF Visits
    <3>2. 1 \in Visits(p) /\ 1 < AtEnd(p) /\ \A x \in Visits(p) : x <= 1
      BY <2>1, <3>1
    <3>3. QED BY <2>1, <3>1, <3>2, BaseNext
  <2>4. QED BY <2>2, <2>3
<1>3. CASE /\ Ahead(p, c) # {} /\ Enter(p, ColumnOp(p, Min(Ahead(p, c)), 1))
           /\ col' = [col EXCEPT ![p] = Min(Ahead(p, c))]
           /\ base' = [base EXCEPT ![p] = Entered(p)]
  <2> DEFINE d == Min(Ahead(p, c))
  <2>1. d \in Nat
    BY <1>3, FirstAhead
  <2>2. d \in Visits(p) /\ Base(p, d) = Entered(p)
    BY <1>1, <1>3, <2>1
  <2>3. col'[p] = d /\ base'[p] = Base(p, d) /\ Enter(p, ColumnOp(p, d, 1))
    BY <1>0, <1>3, <2>2
  <2> HIDE DEF d
  <2>4. 1 \in 1..ColumnOps /\ Entered(p) + 1 = Base(p, d) + 1
    BY <2>2, OpsNumber
  <2>5. ~(1 > 1)
    OBVIOUS
  <2>6. Works(p)
    BY <2>2, <2>3, <2>4, <2>5, Working
  <2>7. QED BY <2>6
<1>4. CASE Ends(p, "done") /\ log' = log /\ col' = col /\ base' = base
  BY <1>4 DEF Stays
<1>5. CASE /\ Ahead(p, c) = {} /\ Missing /\ Enter(p, createShares(p, 0, <<1>>))
           /\ col' = [col EXCEPT ![p] = AtEnd(p)] /\ base' = base
  BY <1>0, <1>2, <1>5, Entering DEF Closes
<1>6. CASE /\ Ahead(p, c) = {} /\ ~Missing /\ log' = log
           /\ col' = [col EXCEPT ![p] = AtEnd(p)] /\ base' = base
  BY <1>0, <1>2, <1>6 DEF Leaves
<1>7. QED BY <1>3, <1>4, <1>5, <1>6, ColumnStarts

LEMMA Moves ==
  ASSUME TypeInv, PlaceInv, LogInv, NEW p \in Parties, Step(p)
  PROVE  Stays(p) \/ Leaves(p) \/ Tells(p) \/ Works(p) \/ Closes(p)
<1>0. /\ Len(input.decl[p]) \in Nat /\ DOMAIN col = Parties /\ DOMAIN base = Parties
      /\ Entered(p) \in Nat /\ col[p] \in Nat /\ base[p] \in Nat
      /\ status[p] = "run" => Entered(p) >= 1
      /\ status[p] = "load" => Entered(p) = 0 /\ col[p] = 0
  BY PartyFacts DEF TypeInv, PlaceInv
<1>1. CASE Load(p)
  <2>1. Entered(p) = 0 /\ col[p] = 0 /\ InExchange(p)
    BY <1>0, <1>1, Places DEF Load
  <2>2. CASE Missing
    BY <1>0, <1>1, <2>1, <2>2, Entering DEF Load, Tells
  <2>3. CASE ~Missing
    <3>1. Columns(p) # {} /\ 1 \in Columns(p) /\ Columns(p) \subseteq Nat \ {0}
      BY <1>0, <1>1, <2>3 DEF Load, DoNothing, Columns
    <3>2. 1 \in Visits(p) /\ \A x \in Visits(p) : x >= 1
      BY <2>3, <3>1 DEF Visits, Ahead
    <3>3. Base(p, 1) = Exchange
      BY <3>2, BaseFirst
    <3>4. Exchange = 0 /\ base[p] = 0
      BY <2>1, <2>3 DEF Exchange, InExchange
    <3>5. /\ Enter(p, ColumnOp(p, 1, 1)) /\ col'[p] = 1 /\ base'[p] = Base(p, 1)
      BY <1>0, <1>1, <2>3, <3>3, <3>4 DEF Load
    <3>6. 1 \in 1..ColumnOps /\ Entered(p) + 1 = Base(p, 1) + 1 /\ ~(1 > 1)
      BY <2>1, <3>3, <3>4, OpsNumber
    <3>7. Works(p)
      BY <3>1, <3>2, <3>5, <3>6, Working
    <3>8. QED BY <3>7
  <2>4. QED BY <2>2, <2>3
<1>2. CASE LoadEnds(p)
  BY <1>2 DEF LoadEnds, Stays
<1>3. CASE ExchangeCols(p)
  <2>1. Missing /\ Entered(p) = 1
    BY <1>0, <1>3, KindOf DEF ExchangeCols, Returns
  <2>2. InExchange(p)
    BY <2>1, Places
  <2>3. CASE Enter(p, Op("dtypes", 3, Len(input.decl[p]), input.decl[p]))
    BY <1>3, <2>1, <2>2, <2>3, Entering DEF ExchangeCols, Tells
  <2>4. CASE log' = log
    BY <1>3, <2>4 DEF ExchangeCols, Stays
  <2>5. QED BY <1>3, <2>3, <2>4 DEF ExchangeCols
<1>4. CASE ExchangeDtypes(p)
  <2>1. Missing /\ Entered(p) = 2
    BY <1>0, <1>4, KindOf DEF ExchangeDtypes, Returns
  <2>2. CASE StartColumn(p, 0)
    BY <2>1, <2>2, MoveToColumn DEF Exchange
  <2>3. CASE log' = log /\ col' = col /\ base' = base
    BY <2>3 DEF Stays
  <2>4. QED BY <1>4, <2>2, <2>3 DEF ExchangeDtypes
<1>5. CASE NextOp(p)
  <2>1. AtColumn(p) /\ (Missing \/ Columns(p) # {})
    BY <1>5, Places DEF NextOp
  <2> DEFINE c == col[p]
             i == OpsDone(p) + 1
  <2>2. c \in Visits(p) /\ base[p] = Base(p, c) /\ Entered(p) >= base[p] + 1
    BY <1>0, <2>1, OpsNumber DEF AtColumn
  <2>3. OpsDone(p) < ColumnOps /\ OpsDone(p) = Entered(p) - base[p]
    BY <1>5 DEF NextOp, OpsDone
  <2>4. i \in 1..ColumnOps /\ Entered(p) + 1 = Base(p, c) + i
    BY <1>0, <2>2, <2>3, OpsNumber
  <2>5. Enter(p, ColumnOp(p, c, i)) /\ col'[p] = c /\ base'[p] = Base(p, c)
    BY <1>5, <2>2 DEF NextOp
  <2>6. col[p] = c
    OBVIOUS
  <2> HIDE DEF c, i
  <2>7. Works(p)
    BY <2>1, <2>2, <2>4, <2>5, <2>6, Working
  <2>8. QED BY <2>7
<1>6. CASE EndColumn(p)
  <2>1. AtColumn(p) /\ (Missing \/ Columns(p) # {})
    BY <1>6, Places DEF EndColumn
  <2>2. col[p] \in Visits(p) /\ base[p] = Base(p, col[p])
    BY <2>1 DEF AtColumn
  <2>3. Entered(p) = base[p] + ColumnOps
    BY <1>0, <1>6, OpsNumber DEF EndColumn, OpsDone
  <2>4. CASE Missing \/ Extremum
    <3>1. StartColumn(p, col[p])
      BY <1>6, <2>4 DEF EndColumn
    <3>2. QED BY <1>0, <2>1, <2>2, <2>3, <2>4, <3>1, MoveToColumn
  <2>5. CASE ~Missing /\ ~Extremum
    <3>1. StartColumn(p, Len(input.decl[p]))
      BY <1>6, <2>5 DEF EndColumn
    <3>2. col[p] = 1
      BY <2>2, <2>5 DEF Visits
    <3>3. QED BY <1>0, <2>1, <2>2, <2>3, <2>5, <3>1, <3>2, MoveToColumn
  <2>6. QED BY <2>4, <2>5
<1>7. CASE Crash(p)
  BY <1>7 DEF Crash, Stays
<1>8. CASE saveModel(p)
  BY <1>8 DEF saveModel, Stays
<1>9. CASE Garbled(p)
  BY <1>9 DEF Garbled, Stays
<1>10. QED BY <1>1, <1>2, <1>3, <1>4, <1>5, <1>6, <1>7, <1>8, <1>9 DEF Step

(* A party that is not loading any more has entered something.             *)
LEMMA Starts ==
  ASSUME TypeInv, PlaceInv, LogInv, NEW p \in Parties, Step(p)
  PROVE  /\ status'[p] # "load"
         /\ status'[p] = "run" => Entered(p)' >= 1
         /\ ~Missing /\ Entered(p)' >= 1 => Columns(p) # {}
<1>0. /\ Entered(p) \in Nat /\ Entered(p)' \in Nat /\ Entered(p)' >= Entered(p)
      /\ status[p] = "run" => Entered(p) >= 1
      /\ ~Missing /\ Entered(p) >= 1 => Columns(p) # {}
  BY LogGrows DEF PlaceInv
<1>1. CASE Load(p)
  <2>1. status'[p] = "run"
    BY <1>1, Ending DEF Load
  <2>2. ~Missing => Columns(p) # {}
    BY <1>1 DEF Load, DoNothing
  <2>3. \E op : Enter(p, op)
    BY <1>1 DEF Load
  <2>4. Entered(p)' = Entered(p) + 1
    BY <2>3, Entering, Appended DEF TypeInv, Entered
  <2>5. QED BY <1>0, <2>1, <2>2, <2>4
<1>2. CASE LoadEnds(p)
  <2>1. status'[p] \in {"failed", "done"} /\ log' = log
    BY <1>2, Ending DEF LoadEnds
  <2>2. QED BY <1>0, <2>1 DEF Entered
<1>3. CASE status[p] = "run" /\ (status'[p] = status[p] \/ status'[p] \in {"failed", "done", "crashed", "garbled"})
  BY <1>0, <1>3
<1>4. ASSUME NEW c, StartColumn(p, c), status[p] = "run"
      PROVE  status'[p] \in {"run", "done"}
  <2>1. status' = status \/ Ends(p, "done")
    BY <1>4, ColumnStarts
  <2>2. QED BY <1>4, <2>1, Ending
<1>5. CASE ExchangeCols(p)
  <2>1. status[p] = "run" /\ (status' = status \/ Ends(p, "failed"))
    BY <1>5 DEF ExchangeCols, Returns
  <2>2. QED BY <1>3, <2>1, Ending
<1>6. CASE ExchangeDtypes(p)
  <2>1. status[p] = "run" /\ (StartColumn(p, 0) \/ Ends(p, "failed"))
    BY <1>6 DEF ExchangeDtypes, Returns
  <2>2. QED BY <1>3, <1>4, <2>1, Ending
<1>7. CASE NextOp(p)
  BY <1>3, <1>7 DEF NextOp, Returns
<1>8. CASE EndColumn(p)
  <2>1. status[p] = "run" /\ \E c : StartColumn(p, c)
    BY <1>8 DEF EndColumn, Returns
  <2>2. QED BY <1>3, <1>4, <2>1
<1>9. CASE Crash(p)
  BY <1>3, <1>9, Ending DEF Crash, Returns
<1>10. CASE saveModel(p)
  <2>1. status[p] = "run" /\ (Ends(p, "done") \/ Ends(p, "failed"))
    BY <1>10 DEF saveModel, Returns
  <2>2. QED BY <1>3, <2>1, Ending
<1>11. CASE Garbled(p)
  BY <1>3, <1>11, Ending DEF Garbled
<1>12. QED BY <1>1, <1>2, <1>5, <1>6, <1>7, <1>8, <1>9, <1>10, <1>11 DEF Step

LEMMA StepPlace ==
  ASSUME TypeInv, PlaceInv, LogInv, NEW p \in Parties, Step(p)
  PROVE  PlaceInv'
<1>0. /\ Missing' = Missing /\ ColumnOps' = ColumnOps /\ Exchange' = Exchange
      /\ \A q : /\ Visits(q)' = Visits(q) /\ Columns(q)' = Columns(q)
                /\ AtEnd(q)' = AtEnd(q) /\ LastOp(q)' = LastOp(q)
      /\ \A q, c : Base(q, c)' = Base(q, c)
  BY StepTouches, ShapeStays
<1>1. ASSUME NEW q \in Parties \ {p}
      PROVE  /\ (InExchange(q) \/ AtColumn(q) \/ Through(q))'
             /\ status'[q] = "load" => Entered(q)' = 0 /\ col'[q] = 0
             /\ status'[q] = "run" => Entered(q)' >= 1
             /\ ~Missing /\ Entered(q)' >= 1 => Columns(q) # {}
  <2>1. /\ Entered(q)' = Entered(q) /\ col'[q] = col[q] /\ base'[q] = base[q]
        /\ status'[q] = status[q]
    BY StepTouches DEF Untouched, Entered
  <2>2. /\ InExchange(q) \/ AtColumn(q) \/ Through(q)
        /\ status[q] = "load" => Entered(q) = 0 /\ col[q] = 0
        /\ status[q] = "run" => Entered(q) >= 1
        /\ ~Missing /\ Entered(q) >= 1 => Columns(q) # {}
    BY DEF PlaceInv
  <2>3. (InExchange(q) \/ AtColumn(q) \/ Through(q))'
    BY <1>0, <2>1, <2>2 DEF InExchange, AtColumn, Through
  <2>4. QED BY <2>1, <2>2, <2>3
<1>2. (InExchange(p) \/ AtColumn(p) \/ Through(p))'
  <2>0. /\ InExchange(p) \/ AtColumn(p) \/ Through(p)
        /\ Entered(p) \in Nat /\ log[p] \in Seq(Range(log[p]))
    BY PartyFacts DEF PlaceInv, TypeInv
  <2>1. ASSUME NEW op, log'[p] = Append(log[p], op)
        PROVE  Entered(p)' = Entered(p) + 1
    BY <2>0, <2>1, Appended DEF Entered
  <2>2. CASE Stays(p)
    BY <1>0, <2>0, <2>2 DEF InExchange, AtColumn, Through, Stays, Entered
  <2>3. CASE Leaves(p)
    <3>1. Entered(p)' = Entered(p) /\ col'[p] = AtEnd(p) /\ Entered(p) = Base(p, AtEnd(p)) /\ ~Missing
      BY <2>3 DEF Leaves, Entered
    <3>2. Through(p)'
      BY <1>0, <3>1 DEF Through
    <3>3. QED BY <3>2
  <2>4. CASE Tells(p)
    <3>1. Entered(p)' = Entered(p) + 1 /\ Entered(p) \in {0, 1}
      BY <2>1, <2>4 DEF Tells
    <3>2. Missing /\ col'[p] = 0 /\ base'[p] = 0
      BY <2>4 DEF Tells, InExchange
    <3>3. Exchange' = 2 /\ Entered(p)' \in {1, 2}
      BY <1>0, <3>1, <3>2 DEF Exchange
    <3>4. InExchange(p)'
      BY <3>2, <3>3 DEF InExchange
    <3>5. QED BY <3>4
  <2>5. CASE Works(p)
    <3>1. PICK c \in Visits(p), i \in 1..ColumnOps, op \in Range(log'[p]) :
            /\ Entered(p) + 1 = Base(p, c) + i /\ log'[p] = Append(log[p], op)
            /\ col'[p] = c /\ base'[p] = Base(p, c)
      BY <2>5 DEF Works
    <3>2. Entered(p)' = base'[p] + i
      BY <2>1, <3>1
    <3>3. Entered(p)' \in (base'[p] + 1)..(base'[p] + ColumnOps)
      BY <3>1, <3>2, BaseType, OpsNumber
    <3>4. AtColumn(p)'
      BY <1>0, <3>1, <3>3 DEF AtColumn
    <3>5. QED BY <3>4
  <2>6. CASE Closes(p)
    <3>1. Entered(p)' = LastOp(p) /\ col'[p] = AtEnd(p) /\ Missing
      BY <2>1, <2>6 DEF Closes, LastOp
    <3>2. Through(p)'
      BY <1>0, <3>1 DEF Through
    <3>3. QED BY <3>2
  <2>7. QED BY <2>2, <2>3, <2>4, <2>5, <2>6, Moves
<1>3. /\ status'[p] # "load"
      /\ status'[p] = "run" => Entered(p)' >= 1
      /\ ~Missing /\ Entered(p)' >= 1 => Columns(p) # {}
  BY Starts
<1>4. QED BY <1>0, <1>1, <1>2, <1>3 DEF PlaceInv

-----------------------------------------------------------------------------
(* Once every party has entered an operation, who brought a value to it,   *)
(* and what, stays.                                                        *)
LEMMA SettledOp ==
  ASSUME TypeInv, NEW p \in Parties, Step(p), NEW k \in Nat \ {0},
         \A q \in Parties : Entered(q) >= k
  PROVE  /\ Givers(k)' = Givers(k)
         /\ Givers(k) # {} => Less(k)' = Less(k) /\ Given(k)' = Given(k)
<1>1. \A q \in Parties : log'[q][k] = log[q][k]
  BY LogGrows
<1>2. Givers(k)' = Givers(k)
  BY <1>1 DEF Givers
<1>3. ASSUME Givers(k) # {}
      PROVE  Less(k)' = Less(k) /\ Given(k)' = Given(k)
  <2>1. Givers(k) \subseteq Parties
    BY DEF Givers
  <2>2. Min(Givers(k)) \in Parties /\ Max(Givers(k)) \in Parties
    BY <1>3, <2>1, EndsOfParties
  <2>3. (CHOOSE q \in Givers(k) : TRUE) \in Parties
    BY <1>3, <2>1
  <2>4. Given(k)' = Given(k)
    BY <1>1, <1>2, <2>3 DEF Given
  <2>5. Less(k)' = Less(k)
    <3>1. /\ log'[Min(Givers(k))][k] = log[Min(Givers(k))][k]
          /\ log'[Max(Givers(k))][k] = log[Max(Givers(k))][k]
      BY <1>1, <2>2
    <3>2. QED BY <1>2, <3>1 DEF Less
  <2>6. QED BY <2>4, <2>5
<1>4. QED BY <1>2, <1>3

(* Who has to bring a value to the i-th operation of a column is settled   *)
(* when a party enters it.                                                 *)
LEMMA BringStays ==
  ASSUME TypeInv, CompareInv, NEW p \in Parties, Step(p),
         NEW q \in Parties, NEW c \in Visits(q), NEW i \in 1..ColumnOps,
         NEW b \in {Base(q, c)}, Entered(q) + 1 >= b + i
  PROVE  Bring(b, i)' = Bring(b, i)
<1>0. Missing' = Missing /\ Extremum' = Extremum /\ task' = task
  BY StepTouches, ShapeStays
<1>1. b \in Nat /\ Entered(q) \in Nat /\ b = Base(q, c)
  BY BaseType, PartyFacts
<1>2. ASSUME Extremum, NEW j \in {1, 3}, i > j + 1
      PROVE  Less(b + j)' = Less(b + j)
  <2>1. Entered(q) > Base(q, c) + j
    BY <1>1, <1>2
  <2>2. \A r \in Parties : /\ Entered(r) >= Base(q, c) + j
                           /\ Givers(Base(q, c) + j) # {}
    BY <1>2, <2>1, Zenon DEF CompareInv
  <2>3. Givers(b + j) # {} /\ \A r \in Parties : Entered(r) >= b + j
    BY <1>1, <2>2 DEF Parties
  <2>4. b + j \in Nat \ {0}
    BY <1>1
  <2>5. QED BY <2>3, <2>4, SettledOp
<1>3. CASE ~Extremum
  BY <1>0, <1>3 DEF Bring
<1>4. CASE Extremum /\ i = 3
  BY <1>0, <1>2, <1>4 DEF Bring, FirstAt, KeepsFirst
<1>5. CASE Extremum /\ i = 5
  BY <1>0, <1>2, <1>5 DEF Bring, FirstAt, WinnerAt, KeepsFirst
<1>6. CASE Extremum /\ i # 3 /\ i # 5
  BY <1>0, <1>6 DEF Bring
<1>7. QED BY <1>3, <1>4, <1>5, <1>6

(* What is new in a log is at its end, and belongs there.                  *)
Grown(q) ==
  /\ Entered(q)' = Entered(q) + 1
  /\ \A c \in Visits(q), i \in 1..ColumnOps : \A b \in {Base(q, c)} :
       b + i = Entered(q) + 1 => Right(q, b, i)'
  /\ Entered(q) + 1 > Exchange =>
       \/ \E c \in Visits(q), i \in 1..ColumnOps : Entered(q) + 1 = Base(q, c) + i
       \/ Missing /\ Entered(q) + 1 = LastOp(q)
  /\ Missing /\ Entered(q) = 0 => log'[q][1] = Op("cols", 3, 1, <<Len(input.decl[q])>>)
  /\ Missing /\ Entered(q) = 1 =>
       log'[q][2] = Op("dtypes", 3, Len(input.decl[q]), input.decl[q])
  /\ Missing /\ Entered(q) + 1 = LastOp(q) => log'[q][LastOp(q)] = createShares(q, 0, <<1>>)

LEMMA StepLog ==
  ASSUME TypeInv, PlaceInv, LogInv, CompareInv, NEW p \in Parties, Step(p)
  PROVE  LogInv'
<1>0. /\ Missing' = Missing /\ ColumnOps' = ColumnOps /\ Exchange' = Exchange
      /\ \A q : Visits(q)' = Visits(q) /\ LastOp(q)' = LastOp(q)
      /\ \A q : AtEnd(q)' = AtEnd(q) /\ SizeAt(q)' = SizeAt(q)
      /\ \A q, c : Base(q, c)' = Base(q, c)
      /\ \A i : KindAt(i)' = KindAt(i) /\ ToAt(i)' = ToAt(i)
  BY StepTouches, ShapeStays
<1>1. input' = input /\ ColumnOps \in {4, 6, 9, 12} /\ Exchange \in {0, 2}
  BY StepTouches, OpsNumber
<1> SUFFICES ASSUME NEW q \in Parties
             PROVE  ExchangeLog(q)' /\ ColumnLog(q)' /\ LastLog(q)' /\ Covered(q)'
  BY DEF LogInv
<1>2. /\ Entered(q) \in Nat /\ Entered(q)' \in Nat /\ Entered(q)' >= Entered(q)
      /\ \A k \in 1..Entered(q) : log'[q][k] = log[q][k]
  BY LogGrows
<1>3. ExchangeLog(q) /\ ColumnLog(q) /\ LastLog(q) /\ Covered(q)
  BY DEF LogInv
<1>4. ASSUME NEW c \in Visits(q), NEW i \in 1..ColumnOps, NEW b \in {Base(q, c)}, b + i <= Entered(q)
      PROVE  Right(q, b, i)'
  <2>1. Right(q, b, i)
    BY <1>3, <1>4 DEF ColumnLog
  <2>2. b \in Nat
    BY <1>4, BaseType
  <2>3. log'[q][b + i] = log[q][b + i]
    BY <1>1, <1>2, <1>4, <2>2
  <2>4. Bring(b, i)' = Bring(b, i)
    BY <1>1, <1>2, <1>4, <2>2, BringStays
  <2>5. QED BY <1>0, <2>1, <2>3, <2>4 DEF Right
<1>5. CASE Entered(q)' = Entered(q)
  <2>1. ColumnLog(q)'
    BY <1>0, <1>4, <1>5 DEF ColumnLog
  <2>2. ExchangeLog(q)'
    BY <1>0, <1>1, <1>2, <1>3, <1>5 DEF ExchangeLog, Op
  <2>3. LastLog(q)'
    <3>1. LastOp(q) \in Nat \ {0}
      BY BaseType DEF LastOp
    <3>2. QED BY <1>0, <1>2, <1>3, <1>5, <3>1 DEF LastLog, createShares, Op
  <2>4. Covered(q)'
    BY <1>0, <1>3, <1>5 DEF Covered
  <2>5. QED BY <2>1, <2>2, <2>3, <2>4
<1>6. ASSUME Grown(q)
      PROVE  ExchangeLog(q)' /\ ColumnLog(q)' /\ LastLog(q)' /\ Covered(q)'
  <2>0. /\ Entered(q)' = Entered(q) + 1
        /\ \A c \in Visits(q), i \in 1..ColumnOps : \A b \in {Base(q, c)} :
             b + i = Entered(q) + 1 => Right(q, b, i)'
        /\ Entered(q) + 1 > Exchange =>
             \/ \E c \in Visits(q), i \in 1..ColumnOps : Entered(q) + 1 = Base(q, c) + i
             \/ Missing /\ Entered(q) + 1 = LastOp(q)
        /\ Missing /\ Entered(q) = 0 => log'[q][1] = Op("cols", 3, 1, <<Len(input.decl[q])>>)
        /\ Missing /\ Entered(q) = 1 =>
             log'[q][2] = Op("dtypes", 3, Len(input.decl[q]), input.decl[q])
        /\ Missing /\ Entered(q) + 1 = LastOp(q) => log'[q][LastOp(q)] = createShares(q, 0, <<1>>)
    BY <1>6, Zenon DEF Grown
  <2>1. ColumnLog(q)'
    <3>1. ASSUME NEW c \in Visits(q), NEW i \in 1..ColumnOps, NEW b \in {Base(q, c)}, b + i <= Entered(q)'
          PROVE  Right(q, b, i)'
      <4>1. b \in Nat /\ i \in Nat
        BY <1>1, BaseType
      <4>2. b + i <= Entered(q) \/ b + i = Entered(q) + 1
        BY <1>2, <2>0, <3>1, <4>1
      <4>3. QED BY <1>4, <2>0, <4>2
    <3>2. QED BY <1>0, <3>1 DEF ColumnLog
  <2>2. ExchangeLog(q)'
    BY <1>0, <1>1, <1>2, <1>3, <2>0 DEF ExchangeLog, Op
  <2>3. LastLog(q)'
    <3>1. LastOp(q) \in Nat \ {0}
      BY BaseType DEF LastOp
    <3>2. CASE Missing /\ Entered(q) >= LastOp(q)
      BY <1>0, <1>2, <1>3, <2>0, <3>1, <3>2 DEF LastLog, createShares, Op
    <3>3. CASE Missing /\ Entered(q) < LastOp(q)
      BY <1>0, <1>2, <1>3, <2>0, <3>1, <3>3 DEF LastLog, createShares, Op
    <3>4. QED BY <1>0, <1>2, <3>1, <3>2, <3>3 DEF LastLog
  <2>4. Covered(q)'
    <3>1. ASSUME NEW k \in (Exchange + 1)..Entered(q)'
          PROVE  \/ \E c \in Visits(q), i \in 1..ColumnOps : k = Base(q, c) + i
                 \/ Missing /\ k = LastOp(q)
      <4>1. CASE k <= Entered(q)
        <5>1. k \in (Exchange + 1)..Entered(q)
          BY <1>1, <1>2, <3>1, <4>1
        <5>2. QED BY <1>3, <5>1, Zenon DEF Covered
      <4>2. CASE k = Entered(q) + 1
        <5>1. Entered(q) + 1 > Exchange
          BY <1>1, <1>2, <3>1, <4>2
        <5>2. QED BY <2>0, <4>2, <5>1
      <4>3. QED BY <1>1, <1>2, <2>0, <3>1, <4>1, <4>2
    <3>2. QED BY <1>0, <3>1 DEF Covered
  <2>5. QED BY <2>1, <2>2, <2>3, <2>4
<1>7. CASE q # p
  BY <1>5, <1>7, LogGrows
<1>8. CASE q = p
  <2>0. log[p] \in Seq(Range(log[p])) /\ Exchange \in Nat /\ (Missing => Exchange = 2)
    BY <1>1 DEF TypeInv, Exchange
  <2>1. ASSUME NEW op, log'[p] = Append(log[p], op)
        PROVE  Entered(p)' = Entered(p) + 1 /\ log'[p][Entered(p) + 1] = op
    BY <2>0, <2>1, Appended DEF Entered
  <2>l. LastOp(p) \in Nat /\ LastOp(p) = Base(p, AtEnd(p)) + 1 /\ LastOp(p) > Exchange
    BY <2>0, BaseType DEF LastOp
  <2>2. CASE Stays(p) \/ Leaves(p)
    BY <1>5, <1>8, <2>2 DEF Stays, Leaves, Entered
  <2>3. CASE Tells(p)
    <3>1. Missing /\ Entered(p)' = Entered(p) + 1 /\ Entered(p) \in {0, 1}
      BY <2>1, <2>3 DEF Tells
    <3>2. /\ Entered(p) = 0 => log'[p][1] = Op("cols", 3, 1, <<Len(input.decl[p])>>)
          /\ Entered(p) = 1 => log'[p][2] = Op("dtypes", 3, Len(input.decl[p]), input.decl[p])
      <4>1. CASE /\ Entered(p) = 0
                 /\ log'[p] = Append(log[p], Op("cols", 3, 1, <<Len(input.decl[p])>>))
        <5>1. log'[p][Entered(p) + 1] = Op("cols", 3, 1, <<Len(input.decl[p])>>)
          BY <2>1, <4>1
        <5>2. QED BY <4>1, <5>1
      <4>2. CASE /\ Entered(p) = 1
                 /\ log'[p] = Append(log[p], Op("dtypes", 3, Len(input.decl[p]), input.decl[p]))
        <5>1. log'[p][Entered(p) + 1] = Op("dtypes", 3, Len(input.decl[p]), input.decl[p])
          BY <2>1, <4>2
        <5>2. Entered(p) + 1 = 2 /\ Entered(p) # 0
          BY <4>2
        <5>3. log'[p][2] = Op("dtypes", 3, Len(input.decl[p]), input.decl[p])
          BY <5>1, <5>2, Zenon
        <5>4. QED BY <5>2, <5>3, Zenon
      <4>3. QED BY <2>3, <4>1, <4>2 DEF Tells
    <3>3. \A c \in Visits(p), i \in 1..ColumnOps : Base(p, c) + i > 2
      BY <1>1, <2>0, <3>1, BaseType
    <3>4. \A c \in Visits(p), i \in 1..ColumnOps : \A b \in {Base(p, c)} : b + i # Entered(p) + 1
      BY <3>1, <3>3
    <3>5. Entered(p) + 1 # LastOp(p) /\ ~(Entered(p) + 1 > Exchange)
      BY <2>0, <2>l, <3>1
    <3>6. QED BY <1>6, <1>8, <3>1, <3>2, <3>4, <3>5 DEF Grown
  <2>4. CASE Works(p)
    <3>1. PICK c \in Visits(p), i \in 1..ColumnOps, op \in Range(log'[p]) :
            /\ Entered(p) + 1 = Base(p, c) + i
            /\ log'[p] = Append(log[p], op) /\ OpIs(p, op, Base(p, c), i)
      BY <2>4 DEF Works
    <3>2. Base(p, c) \in Nat /\ Base(p, c) >= Exchange /\ c \in Nat /\ Entered(p) \in Nat
      BY BaseType, PartyFacts
    <3>3. Entered(p)' = Entered(p) + 1 /\ log'[p][Entered(p) + 1] = op
      BY <2>1, <3>1
    <3>4. ASSUME NEW d \in Visits(p), NEW j \in 1..ColumnOps, NEW b \in {Base(p, d)},
                 b + j = Entered(p) + 1
          PROVE  Right(p, b, j)'
      <4>1. d = c /\ j = i /\ b = Base(p, c)
        BY <3>1, <3>4, PlaceOnce
      <4>2. Bring(b, i)' = Bring(b, i)
        <5>1. Entered(p) + 1 >= b + i
          BY <3>1, <3>2, <4>1
        <5>2. QED BY <4>1, <5>1, BringStays
      <4>3. log'[p][b + i] = op
        BY <3>1, <3>3, <4>1
      <4>4. OpIs(p, op, b, i)
        BY <3>1, <4>1
      <4>5. Right(p, b, i)'
        BY <1>0, <4>2, <4>3, <4>4 DEF Right, OpIs
      <4>6. QED BY <4>1, <4>5
    <3>5. Missing => Entered(p) >= 2 /\ Entered(p) + 1 # LastOp(p)
      <4>1. SUFFICES ASSUME Missing PROVE Entered(p) >= 2 /\ Entered(p) + 1 # LastOp(p)
        OBVIOUS
      <4>2. c < AtEnd(p) /\ AtEnd(p) \in Nat
        BY <4>1, PartyFacts DEF AtEnd
      <4>3. Base(p, AtEnd(p)) >= Base(p, c) + ColumnOps /\ Base(p, AtEnd(p)) \in Nat
        BY <4>2, BaseApart, BaseType
      <4>4. i \in Nat /\ 1 <= i /\ i <= ColumnOps /\ ColumnOps \in Nat
        BY <1>1
      <4>5. QED BY <2>0, <2>l, <3>1, <3>2, <4>1, <4>3, <4>4
    <3>6. \E d \in Visits(p), j \in 1..ColumnOps : Entered(p) + 1 = Base(p, d) + j
      BY <3>1
    <3>7. ~(Missing /\ Entered(p) = 0) /\ ~(Missing /\ Entered(p) = 1) /\ ~(Missing /\ Entered(p) + 1 = LastOp(p))
      BY <3>2, <3>5
    <3>8. QED BY <1>6, <1>8, <3>3, <3>4, <3>6, <3>7 DEF Grown
  <2>5. CASE Closes(p)
    <3>1. /\ Missing /\ Entered(p) + 1 = LastOp(p) /\ Entered(p)' = Entered(p) + 1
          /\ log'[p][LastOp(p)] = createShares(p, 0, <<1>>)
      BY <2>1, <2>5, <2>l DEF Closes
    <3>2. Entered(p) \in Nat /\ Entered(p) >= 2
      BY <2>0, <2>l, <3>1, PartyFacts
    <3>3. ASSUME NEW d \in Visits(p), NEW j \in 1..ColumnOps
          PROVE  Base(p, d) + j # Entered(p) + 1
      <4>1. d < AtEnd(p) /\ AtEnd(p) \in Nat
        BY <3>1, PartyFacts DEF AtEnd
      <4>2. Base(p, AtEnd(p)) >= Base(p, d) + ColumnOps /\ Base(p, AtEnd(p)) \in Nat /\ Base(p, d) \in Nat
        BY <4>1, BaseApart, BaseType
      <4>3. QED BY <1>1, <2>l, <3>1, <4>2
    <3>4. \A d \in Visits(p), j \in 1..ColumnOps : \A b \in {Base(p, d)} : b + j # Entered(p) + 1
      BY <3>3
    <3>5. ~(Entered(p) = 0) /\ ~(Entered(p) = 1)
      BY <3>2
    <3>6. QED BY <1>6, <1>8, <3>1, <3>4, <3>5 DEF Grown
  <2>6. QED BY <2>2, <2>3, <2>4, <2>5, Moves
<1>9. QED BY <1>7, <1>8

-----------------------------------------------------------------------------
(* A party enters an operation once the one before has returned, and in    *)
(* the exchange once the answers agree.                                    *)
LEMMA EntersAfter ==
  ASSUME TypeInv, PlaceInv, LogInv, NEW p \in Parties, Step(p), log'[p] # log[p], Entered(p) >= 1
  PROVE  /\ Returns(p)
         /\ Missing /\ Entered(p) = 1 => \A q \in Parties : log[q][1].val = log[p][1].val
         /\ Missing /\ Entered(p) = 2 => \A q \in Parties : log[q][2].val = log[p][2].val
<1>0. /\ status[p] = "run" => Entered(p) >= 1
      /\ status[p] = "load" => Entered(p) = 0
      /\ InColumn(p) => AtColumn(p)
      /\ Missing /\ Entered(p) <= 2 => InExchange(p)
      /\ Entered(p) \in Nat /\ Len(input.decl[p]) \in Nat
  BY Places, PartyFacts DEF PlaceInv
<1>1. ASSUME Returns(p), InColumn(p)
      PROVE  ~(Missing /\ Entered(p) <= 2)
  BY <1>0, <1>1 DEF InColumn, Columns, InExchange
<1>2. CASE Load(p)
  BY <1>0, <1>2 DEF Load
<1>3. CASE LoadEnds(p)
  BY <1>3 DEF LoadEnds
<1>4. CASE ExchangeCols(p)
  <2>1. Returns(p) /\ Entered(p) = 1
    BY <1>0, <1>4, KindOf DEF ExchangeCols, Returns
  <2>2. \A q \in Parties : log[q][1].val = log[p][1].val
    BY <1>4 DEF ExchangeCols
  <2>3. QED BY <2>1, <2>2
<1>5. CASE ExchangeDtypes(p)
  <2>1. Returns(p) /\ Entered(p) = 2
    BY <1>0, <1>5, KindOf DEF ExchangeDtypes, Returns
  <2>2. \A q \in Parties : log[q][2].val = log[p][2].val
    BY <1>5 DEF ExchangeDtypes
  <2>3. QED BY <2>1, <2>2
<1>6. CASE NextOp(p)
  BY <1>0, <1>1, <1>6 DEF NextOp
<1>7. CASE EndColumn(p)
  BY <1>0, <1>1, <1>7 DEF EndColumn
<1>8. CASE Crash(p) \/ saveModel(p) \/ Garbled(p)
  BY <1>8 DEF Crash, saveModel, Garbled
<1>9. QED BY <1>2, <1>3, <1>4, <1>5, <1>6, <1>7, <1>8 DEF Step

(* Every operation of MissingProcess waits for the party before.           *)
LEMMA WaitsForPrev ==
  ASSUME TypeInv, LogInv, Missing, NEW p \in Parties, Entered(p) >= 1
  PROVE  PrevPartyId(p) \in Needs(p, Current(p))
<1>0. Entered(p) \in Nat /\ Exchange = 2
  BY PartyFacts DEF Exchange
<1>p. PrevPartyId(p) \in Parties \ {p}
  BY DEF PrevPartyId, Parties
<1>1. ExchangeLog(p) /\ ColumnLog(p) /\ LastLog(p) /\ Covered(p)
  BY DEF LogInv
<1>2. CASE Entered(p) \in {1, 2}
  <2>1. Current(p).kind \in {"cols", "dtypes"}
    BY <1>0, <1>1, <1>2 DEF ExchangeLog, Current, Op
  <2>2. QED BY <1>p, <2>1 DEF Needs
<1>3. CASE Entered(p) >= 3
  <2>1. Entered(p) \in (Exchange + 1)..Entered(p)
    BY <1>0, <1>3
  <2>2. \/ \E c \in Visits(p), i \in 1..ColumnOps : Entered(p) = Base(p, c) + i
        \/ Entered(p) = LastOp(p)
    BY <1>1, <2>1, Zenon DEF Covered
  <2>3. CASE Entered(p) = LastOp(p)
    <3>1. Current(p) = createShares(p, 0, <<1>>)
      BY <1>0, <1>1, <2>3 DEF LastLog, Current
    <3>2. QED BY <3>1 DEF createShares, Op, Needs
  <2>4. CASE \E c \in Visits(p), i \in 1..ColumnOps : Entered(p) = Base(p, c) + i
    <3>1. PICK c \in Visits(p), i \in 1..ColumnOps : Entered(p) = Base(p, c) + i
      BY <2>4
    <3>2. Right(p, Base(p, c), i)
      BY <1>0, <1>1, <3>1 DEF ColumnLog
    <3>3. Current(p).kind = KindAt(i) /\ Current(p).to = ToAt(i)
      BY <3>1, <3>2 DEF Right, Current
    <3>4. KindAt(i) \in {"compare", "share", "reveal"} /\ ToAt(i) = 3
      BY DEF KindAt, ToAt
    <3>5. QED BY <1>p, <3>3, <3>4 DEF Needs
  <2>5. QED BY <2>2, <2>3, <2>4
<1>4. QED BY <1>0, <1>2, <1>3

LEMMA StepAsked ==
  ASSUME TypeInv, PlaceInv, LogInv, AskedInv, RingInv, NEW p \in Parties, Step(p)
  PROVE  AskedInv' /\ RingInv'
<1>0. Missing' = Missing /\ input' = input
  BY StepTouches, ShapeStays
<1>1. CASE ~Missing
  BY <1>0, <1>1 DEF AskedInv, RingInv
<1>2. CASE Missing
  <2>1. \A q \in Parties : Entered(q) \in Nat /\ Entered(q)' \in Nat /\ Entered(q)' >= Entered(q)
    BY LogGrows
  <2>2. \A q \in Parties \ {p} : Entered(q)' = Entered(q)
    BY LogGrows
  <2>3. \A q \in Parties : ExchangeLog(q)
    BY DEF LogInv
  <2>x. /\ \A q \in Parties : Entered(q) >= 1 =>
             log[q][1] = Op("cols", 3, 1, <<Len(input.decl[q])>>)
        /\ \A q \in Parties : Entered(q) >= 2 =>
             log[q][2] = Op("dtypes", 3, Len(input.decl[q]), input.decl[q])
    BY <1>2, <2>3 DEF ExchangeLog
  <2>y. /\ \A q \in Parties : Entered(q) >= 1 =>
             log[q][1].kind = "cols" /\ log[q][1].val = <<Len(input.decl[q])>>
        /\ \A q \in Parties : Entered(q) >= 2 =>
             log[q][2].kind = "dtypes" /\ log[q][2].val = input.decl[q]
    <3>2. ASSUME NEW q \in Parties, Entered(q) >= 1
          PROVE  log[q][1].kind = "cols" /\ log[q][1].val = <<Len(input.decl[q])>>
      <4>1. log[q][1] = Op("cols", 3, 1, <<Len(input.decl[q])>>)
        BY <2>x, <3>2
      <4>2. QED BY <4>1 DEF Op
    <3>3. ASSUME NEW q \in Parties, Entered(q) >= 2
          PROVE  log[q][2].kind = "dtypes" /\ log[q][2].val = input.decl[q]
      <4>1. log[q][2] = Op("dtypes", 3, Len(input.decl[q]), input.decl[q])
        BY <2>x, <3>3
      <4>2. QED BY <4>1 DEF Op
    <3>4. QED BY <3>2, <3>3
  <2>4. CASE Entered(p)' = Entered(p)
    <3>1. \A q \in Parties : Entered(q)' = Entered(q)
      BY <2>2, <2>4
    <3>2. \A q \in Parties : PrevPartyId(q) \in Parties
      BY DEF PrevPartyId, Parties
    <3>3. AskedInv'
      BY <1>0, <3>1 DEF AskedInv
    <3>4. RingInv'
      BY <1>0, <3>1, <3>2 DEF RingInv, PrevPartyId
    <3>5. QED BY <3>3, <3>4
  <2>5. CASE Entered(p)' # Entered(p)
    <3>1. log'[p] # log[p] /\ Entered(p)' = Entered(p) + 1
      <4>1. log'[p] # log[p]
        BY <2>5 DEF Entered
      <4>2. PICK op : log'[p] = Append(log[p], op)
        BY <4>1, StepTouches
      <4>3. Entered(p)' = Entered(p) + 1
        BY <4>2, Appended DEF TypeInv, Entered
      <4>4. QED BY <4>1, <4>3
    <3>2. Entered(p) >= 1 =>
            /\ Returns(p)
            /\ Entered(p) = 1 => \A q \in Parties : log[q][1].val = log[p][1].val
            /\ Entered(p) = 2 => \A q \in Parties : log[q][2].val = log[p][2].val
      BY <1>2, <3>1, EntersAfter
    <3>3. Entered(p) >= 1 => \A q \in Needs(p, Current(p)) : Entered(q) >= Entered(p)
      BY <3>2 DEF Returns, Met
    <3>4. Entered(p) \in {1, 2} => \A q \in Parties : Entered(q) >= Entered(p)
      <4>1. SUFFICES ASSUME Entered(p) \in {1, 2} PROVE \A q \in Parties : Entered(q) >= Entered(p)
        OBVIOUS
      <4>2. Current(p).kind \in {"cols", "dtypes"}
        BY <2>y, <4>1 DEF Current
      <4>3. Needs(p, Current(p)) = Parties \ {p}
        BY <4>2 DEF Needs
      <4>4. QED BY <2>1, <3>3, <4>1, <4>3
    <3>5. ASSUME Entered(p) = 1, NEW q \in Parties
          PROVE  Len(input.decl[q]) = Len(input.decl[p])
      <4>1. Entered(q) >= 1 /\ log[q][1].val = log[p][1].val
        BY <3>2, <3>4, <3>5
      <4>2. log[q][1].val = <<Len(input.decl[q])>> /\ log[p][1].val = <<Len(input.decl[p])>>
        BY <2>y, <3>5, <4>1
      <4>3. <<Len(input.decl[q])>>[1] = <<Len(input.decl[p])>>[1]
        BY <4>1, <4>2
      <4>4. QED BY <4>3
    <3>6. ASSUME Entered(p) = 2, NEW q \in Parties
          PROVE  input.decl[q] = input.decl[p]
      <4>1. Entered(q) >= 2 /\ log[q][2].val = log[p][2].val
        BY <3>2, <3>4, <3>6
      <4>2. log[q][2].val = input.decl[q] /\ log[p][2].val = input.decl[p]
        BY <2>y, <3>6, <4>1
      <4>3. QED BY <4>1, <4>2
    <3>7. AskedInv'
      <4>1. ASSUME NEW r \in Parties, NEW q \in Parties
            PROVE  /\ Entered(r)' >= 2 => Entered(q)' >= 1 /\ Len(input.decl[q]) = Len(input.decl[r])
                   /\ Entered(r)' >= 3 => Entered(q)' >= 2 /\ input.decl[q] = input.decl[r]
        <5>1. /\ Entered(r) >= 2 => Entered(q) >= 1 /\ Len(input.decl[q]) = Len(input.decl[r])
              /\ Entered(r) >= 3 => Entered(q) >= 2 /\ input.decl[q] = input.decl[r]
          BY <1>2 DEF AskedInv
        <5>2. CASE r # p
          BY <2>1, <2>2, <5>1, <5>2
        <5>3. CASE r = p
          <6>1. CASE Entered(p) = 1
            BY <2>1, <3>1, <3>4, <3>5, <5>3, <6>1
          <6>2. CASE Entered(p) = 2
            BY <2>1, <3>1, <3>4, <3>6, <5>3, <6>2
          <6>3. CASE Entered(p) # 1 /\ Entered(p) # 2
            BY <2>1, <3>1, <5>1, <5>3, <6>3
          <6>4. QED BY <6>1, <6>2, <6>3
        <5>4. QED BY <5>2, <5>3
      <4>2. QED BY <1>0, <4>1 DEF AskedInv
    <3>8. RingInv'
      <4>1. ASSUME NEW q \in Parties
            PROVE  Entered(q)' <= Entered(PrevPartyId(q))' + 1
        <5>0. PrevPartyId(q) \in Parties /\ PrevPartyId(q) # q
          BY DEF PrevPartyId, Parties
        <5>1. Entered(q) <= Entered(PrevPartyId(q)) + 1
          BY <1>2 DEF RingInv
        <5>2. CASE q # p
          BY <2>1, <2>2, <5>0, <5>1, <5>2
        <5>3. CASE q = p /\ Entered(p) >= 1
          <6>1. Entered(PrevPartyId(p)) >= Entered(p)
            BY <1>2, <3>3, <5>3, WaitsForPrev
          <6>2. QED BY <2>1, <3>1, <5>0, <5>3, <6>1
        <5>4. CASE q = p /\ Entered(p) = 0
          BY <2>1, <3>1, <5>0, <5>4
        <5>5. QED BY <2>1, <5>2, <5>3, <5>4
      <4>2. \A q \in Parties : Entered(q)' <= Entered(PrevPartyId(q))' + 1
        BY <4>1
      <4>3. QED BY <1>0, <4>2 DEF RingInv
    <3>9. QED BY <3>7, <3>8
  <2>6. QED BY <2>4, <2>5
<1>3. QED BY <1>1, <1>2

LEMMA StepCompare ==
  ASSUME TypeInv, PlaceInv, LogInv, CompareInv, NEW p \in Parties, Step(p)
  PROVE  CompareInv'
<1>0. /\ Extremum' = Extremum /\ \A q : Visits(q)' = Visits(q)
      /\ \A q, c : Base(q, c)' = Base(q, c)
  BY StepTouches, ShapeStays
<1>1. \A q \in Parties : Entered(q) \in Nat /\ Entered(q)' \in Nat /\ Entered(q)' >= Entered(q)
  BY LogGrows
<1>2. ASSUME Extremum, NEW r \in Parties, NEW c \in Visits(r), NEW i \in {1, 3},
             NEW k \in {Base(r, c) + i}, Entered(r)' > k
      PROVE  (\A q \in Parties : Entered(q)' >= k) /\ Givers(k)' # {}
  <2>1. k \in Nat \ {0}
    BY BaseType
  <2>2. ASSUME \A q \in Parties : Entered(q) >= k, Givers(k) # {}
        PROVE  (\A q \in Parties : Entered(q)' >= k) /\ Givers(k)' # {}
    <3>1. Givers(k)' = Givers(k)
      BY <2>1, <2>2, SettledOp
    <3>2. \A q \in Parties : Entered(q)' >= k
      BY <1>1, <2>1, <2>2
    <3>3. QED BY <2>2, <3>1, <3>2
  <2>3. CASE Entered(r) > k
    <3>1. \A q \in Parties : Entered(q) >= Base(r, c) + i /\ Givers(Base(r, c) + i) # {}
      BY <1>2, <2>3, Zenon DEF CompareInv
    <3>2. Givers(k) # {} /\ \A q \in Parties : Entered(q) >= k
      BY <3>1 DEF Parties
    <3>3. QED BY <2>2, <3>2
  <2>4. CASE ~(Entered(r) > k)
    <3>1. r = p
      BY <1>2, <2>1, <2>4, LogGrows
    <3>2. Entered(p)' # Entered(p)
      BY <1>2, <2>4, <3>1
    <3>3. log'[p] # log[p] /\ Entered(p)' = Entered(p) + 1
      <4>1. log'[p] # log[p]
        BY <3>2 DEF Entered
      <4>2. PICK op : log'[p] = Append(log[p], op)
        BY <4>1, StepTouches
      <4>3. Entered(p)' = Entered(p) + 1
        BY <4>2, Appended DEF TypeInv, Entered
      <4>4. QED BY <4>1, <4>3
    <3>4. Entered(p) = k
      BY <1>1, <1>2, <2>1, <2>4, <3>1, <3>3
    <3>5. Returns(p)
      BY <2>1, <3>3, <3>4, EntersAfter
    <3>6. Current(p).kind = "compare"
      <4>1. ColumnOps = 6
        BY <1>2 DEF ColumnOps
      <4>2. Right(p, Base(p, c), i)
        BY <1>1, <1>2, <3>1, <3>4, <4>1 DEF LogInv, ColumnLog
      <4>3. Current(p).kind = KindAt(i)
        BY <1>2, <3>1, <3>4, <4>2 DEF Right, Current
      <4>4. QED BY <1>2, <4>3 DEF KindAt
    <3>7. \A q \in Parties : Entered(q) >= k
      <4>1. Needs(p, Current(p)) = Parties \ {p}
        BY <3>6 DEF Needs
      <4>2. QED BY <1>1, <3>4, <3>5, <4>1 DEF Returns, Met
    <3>8. Givers(k) # {}
      <4>1. Cardinality(Givers(k)) = 2
        BY <3>4, <3>5, <3>6 DEF Returns, Matched
      <4>2. Cardinality({}) = 0
        BY FS_EmptySet
      <4>3. QED BY <4>1, <4>2
    <3>9. QED BY <2>2, <3>7, <3>8
  <2>5. QED BY <2>3, <2>4
<1>3. ASSUME Extremum, NEW r \in Parties, NEW q \in Parties, NEW c \in Visits(r), NEW i \in {1, 3},
             (Entered(r) > Base(r, c) + i)'
      PROVE  (Entered(q) >= Base(r, c) + i /\ Givers(Base(r, c) + i) # {})'
  <2>1. \A k \in {Base(r, c) + i} : Entered(r)' > k
    BY <1>0, <1>3
  <2>2. \A k \in {Base(r, c) + i} : Entered(q)' >= k /\ Givers(k)' # {}
    BY <1>2, <1>3, <2>1
  <2>3. \A k \in {(Base(r, c) + i)'} : Entered(q)' >= k /\ Givers(k)' # {}
    BY <1>0, <2>2
  <2>4. QED BY <2>3 DEF Givers
<1>4. QED BY <1>0, <1>3 DEF CompareInv

LEMMA StepRefuse ==
  ASSUME TypeInv, PlaceInv, LogInv, RefuseInv, NEW p \in Parties, Step(p)
  PROVE  RefuseInv'
<1>0. Missing' = Missing /\ input' = input
  BY StepTouches, ShapeStays
<1> SUFFICES ASSUME Missing, NEW q \in Parties, status'[q] = "failed"
             PROVE  /\ Entered(q)' = 1 => \E r \in Parties : Len(input.decl[r]) # Len(input.decl[q])
                    /\ Entered(q)' = 2 => \E r \in Parties : input.decl[r] # input.decl[q]
  BY <1>0 DEF RefuseInv
<1>1. ASSUME status[q] = "failed", Entered(q)' = Entered(q)
      PROVE  /\ Entered(q)' = 1 => \E r \in Parties : Len(input.decl[r]) # Len(input.decl[q])
             /\ Entered(q)' = 2 => \E r \in Parties : input.decl[r] # input.decl[q]
  BY <1>1 DEF RefuseInv
<1>2. CASE q # p
  BY <1>1, <1>2, StepTouches DEF Untouched, Entered
<1>3. CASE q = p
  <2>0. /\ status[p] = "run" => Entered(p) >= 1
        /\ status[p] = "load" => Entered(p) = 0
        /\ Entered(p) \in Nat /\ Len(input.decl[p]) \in Nat /\ col[p] \in Nat
        /\ Entered(p) <= 2 => col[p] = 0
    BY Places, PartyFacts DEF PlaceInv, TypeInv, InExchange
  <2>20. ASSUME NEW st, Ends(p, st) PROVE status'[p] = st
    BY <2>20, Ending
  <2>e. \A r \in Parties : ExchangeLog(r)
    BY DEF LogInv
  <2>21. ASSUME NEW c, StartColumn(p, c), status[p] = "run" PROVE FALSE
    <3>1. status' = status \/ Ends(p, "done")
      BY <2>21, ColumnStarts
    <3>2. status'[p] \in {"run", "done"}
      BY <2>20, <2>21, <3>1
    <3>3. QED BY <1>3, <3>2
  <2>1. CASE Load(p)
    BY <1>3, <2>1, <2>20 DEF Load
  <2>2. CASE LoadEnds(p)
    <3>1. Entered(p)' = 0
      BY <2>0, <2>2 DEF LoadEnds, Entered
    <3>2. QED BY <1>3, <3>1
  <2>3. CASE ExchangeCols(p)
    <3>1. status[p] = "run" /\ Entered(p) = 1
      BY <2>0, <2>3, KindOf DEF ExchangeCols, Returns
    <3>2. ~(\A r \in Parties : log[r][1].val = log[p][1].val) /\ log' = log
      BY <1>3, <2>3, <3>1 DEF ExchangeCols
    <3>3. PICK r \in Parties : log[r][1].val # log[p][1].val
      BY <3>2
    <3>4. Entered(r) >= 1
      <4>1. Needs(p, Current(p)) = Parties \ {p} /\ Met(p)
        BY <2>3 DEF Needs, ExchangeCols, Returns
      <4>2. QED BY <3>1, <3>3, <4>1 DEF Met
    <3>5. /\ log[r][1] = Op("cols", 3, 1, <<Len(input.decl[r])>>)
          /\ log[p][1] = Op("cols", 3, 1, <<Len(input.decl[p])>>)
      BY <2>e, <3>1, <3>4 DEF ExchangeLog
    <3>6. Len(input.decl[r]) # Len(input.decl[p])
      BY <3>3, <3>5 DEF Op
    <3>7. Entered(p)' = 1
      BY <3>1, <3>2 DEF Entered
    <3>8. QED BY <1>3, <3>6, <3>7
  <2>4. CASE ExchangeDtypes(p)
    <3>1. status[p] = "run" /\ Entered(p) = 2
      BY <2>0, <2>4, KindOf DEF ExchangeDtypes, Returns
    <3>2. ~(\A r \in Parties : log[r][2].val = log[p][2].val) /\ log' = log
      BY <2>4, <2>21, <3>1 DEF ExchangeDtypes
    <3>3. PICK r \in Parties : log[r][2].val # log[p][2].val
      BY <3>2
    <3>4. Entered(r) >= 2
      <4>1. Needs(p, Current(p)) = Parties \ {p} /\ Met(p)
        BY <2>4 DEF Needs, ExchangeDtypes, Returns
      <4>2. QED BY <3>1, <3>3, <4>1 DEF Met
    <3>5. /\ log[r][2] = Op("dtypes", 3, Len(input.decl[r]), input.decl[r])
          /\ log[p][2] = Op("dtypes", 3, Len(input.decl[p]), input.decl[p])
      <4>1. Entered(p) >= 2
        BY <3>1
      <4>2. QED BY <2>e, <3>4, <4>1, Zenon DEF ExchangeLog
    <3>6. input.decl[r] # input.decl[p]
      BY <3>3, <3>5 DEF Op
    <3>7. Entered(p)' = 2
      BY <3>1, <3>2 DEF Entered
    <3>8. QED BY <1>3, <3>6, <3>7
  <2>5. CASE NextOp(p)
    BY <1>3, <2>5 DEF NextOp, Returns
  <2>6. CASE EndColumn(p)
    BY <2>6, <2>21 DEF EndColumn, Returns
  <2>7. CASE Crash(p)
    BY <1>3, <2>7, <2>20 DEF Crash
  <2>8. CASE saveModel(p)
    <3>1. col[p] > Len(input.decl[p]) /\ log' = log
      BY <2>8 DEF saveModel
    <3>2. Entered(p)' = Entered(p) /\ Entered(p) > 2
      BY <2>0, <3>1 DEF Entered
    <3>3. QED BY <1>3, <2>0, <3>2
  <2>9. CASE Garbled(p)
    BY <1>3, <2>9, <2>20 DEF Garbled
  <2>10. QED BY <2>1, <2>2, <2>3, <2>4, <2>5, <2>6, <2>7, <2>8, <2>9 DEF Step
<1>4. QED BY <1>2, <1>3

-----------------------------------------------------------------------------
(* The inductive invariant of the exchange and of the columns.             *)
TaskInv == TypeInv /\ PlaceInv /\ LogInv /\ MetInv /\ RefuseInv

LEMMA InitTask == Init => TaskInv
<1> SUFFICES ASSUME Init PROVE TaskInv
  OBVIOUS
<1>1. TypeInv
  BY InitType
<1>2. \A p \in Parties : Entered(p) = 0 /\ col[p] = 0 /\ base[p] = 0 /\ status[p] = "load"
  BY DEF Init, Entered
<1>3. Exchange \in {0, 2}
  BY OpsNumber
<1>4. PlaceInv
  BY <1>2, <1>3 DEF PlaceInv, InExchange
<1>5. LogInv
  <2> SUFFICES ASSUME NEW p \in Parties
               PROVE  ExchangeLog(p) /\ ColumnLog(p) /\ LastLog(p) /\ Covered(p)
    BY DEF LogInv
  <2>1. ExchangeLog(p) /\ Covered(p)
    BY <1>2, <1>3 DEF ExchangeLog, Covered
  <2>2. ColumnLog(p)
    BY <1>1, <1>2, BaseType, OpsNumber DEF ColumnLog
  <2>3. LastLog(p)
    BY <1>1, <1>2, BaseType DEF LastLog, LastOp
  <2>4. QED BY <2>1, <2>2, <2>3
<1>6. MetInv
  <2>1. AskedInv
    BY <1>2 DEF AskedInv
  <2>2. RingInv
    BY <1>2 DEF RingInv, PrevPartyId, Parties
  <2>3. CompareInv
    <3>1. \A p \in Parties : \A c : Base(p, c) \in Nat
      BY <1>1, BaseType
    <3>2. \A p \in Parties : \A c : \A i \in {1, 3} : ~(Entered(p) > Base(p, c) + i)
      BY <1>2, <3>1
    <3>3. QED BY <3>2, Zenon DEF CompareInv
  <2>4. QED BY <2>1, <2>2, <2>3 DEF MetInv
<1>7. RefuseInv
  BY <1>2 DEF RefuseInv
<1>8. QED BY <1>1, <1>4, <1>5, <1>6, <1>7 DEF TaskInv

LEMMA StepTask ==
  ASSUME TaskInv, NEW p \in Parties, Step(p)
  PROVE  TaskInv'
<1>1. TypeInv' /\ PlaceInv' /\ RefuseInv'
  BY StepType, StepPlace, StepRefuse DEF TaskInv
<1>2. LogInv'
  BY StepLog DEF TaskInv, MetInv
<1>3. AskedInv' /\ RingInv' /\ CompareInv'
  BY StepAsked, StepCompare DEF TaskInv, MetInv
<1>4. QED BY <1>1, <1>2, <1>3 DEF TaskInv, MetInv

LEMMA StutterTask == TaskInv /\ UNCHANGED vars => TaskInv'
<1> SUFFICES ASSUME TaskInv, UNCHANGED vars PROVE TaskInv'
  OBVIOUS
<1>1. /\ task' = task /\ input' = input /\ log' = log /\ col' = col /\ base' = base
      /\ result' = result /\ status' = status
  BY DEF vars
<1>2. /\ Missing' = Missing /\ Extremum' = Extremum /\ ColumnOps' = ColumnOps
      /\ Exchange' = Exchange
      /\ \A q : /\ Visits(q)' = Visits(q) /\ Columns(q)' = Columns(q)
                /\ AtEnd(q)' = AtEnd(q) /\ LastOp(q)' = LastOp(q) /\ SizeAt(q)' = SizeAt(q)
      /\ \A q, c : Base(q, c)' = Base(q, c)
      /\ \A i : KindAt(i)' = KindAt(i) /\ ToAt(i)' = ToAt(i)
  BY <1>1, ShapeStays
<1>3. \A q : Entered(q)' = Entered(q)
  BY <1>1 DEF Entered
<1>4. /\ \A k : Givers(k)' = Givers(k) /\ Less(k)' = Less(k)
  BY <1>1 DEF Givers, Less
<1>5. \A b, i : Bring(b, i)' = Bring(b, i)
  <2>1. \A b : FirstAt(b)' = FirstAt(b) /\ WinnerAt(b)' = WinnerAt(b)
    BY <1>1, <1>2, <1>4 DEF FirstAt, WinnerAt, KeepsFirst
  <2>2. QED BY <1>2, <2>1 DEF Bring
<1>6. TypeInv'
  BY <1>1, <1>2 DEF TaskInv, TypeInv
<1>7. PlaceInv'
  BY <1>1, <1>2, <1>3 DEF TaskInv, PlaceInv, InExchange, AtColumn, Through
<1>8. LogInv'
  <2> SUFFICES ASSUME NEW p \in Parties
               PROVE  (ExchangeLog(p) /\ ColumnLog(p) /\ LastLog(p) /\ Covered(p))'
    BY DEF LogInv
  <2>0. ExchangeLog(p) /\ ColumnLog(p) /\ LastLog(p) /\ Covered(p)
    BY DEF TaskInv, LogInv
  <2>1. ExchangeLog(p)' /\ Covered(p)'
    BY <1>1, <1>2, <1>3, <2>0 DEF ExchangeLog, Covered, Op
  <2>2. ColumnLog(p)'
    BY <1>1, <1>2, <1>3, <1>5, <2>0 DEF ColumnLog, Right
  <2>3. LastLog(p)'
    BY <1>1, <1>2, <1>3, <2>0 DEF LastLog, createShares, Op
  <2>4. QED BY <2>1, <2>2, <2>3
<1>9. MetInv'
  <2>1. AskedInv' /\ RingInv'
    BY <1>1, <1>2, <1>3 DEF TaskInv, MetInv, AskedInv, RingInv, PrevPartyId
  <2>2. CompareInv'
    BY <1>1, <1>2, <1>3, <1>4 DEF TaskInv, MetInv, CompareInv, Givers
  <2>3. QED BY <2>1, <2>2 DEF MetInv
<1>10. RefuseInv'
  BY <1>1, <1>2, <1>3 DEF TaskInv, RefuseInv
<1>11. QED BY <1>6, <1>7, <1>8, <1>9, <1>10 DEF TaskInv

(* The inductive invariant of MPCTask::ExecuteImpl: a party's place in its *)
(* columns, what its log holds there, and how far its peers must be.       *)
THEOREM TaskStays == Spec => []TaskInv
<1>1. TaskInv /\ [Next]_vars => TaskInv'
  BY StutterTask, StepTask, NextStep
<1>2. QED BY <1>1, InitTask, PTL DEF Spec

(* The exchange of column counts and types in MissingProcess::execute is   *)
(* decided alike everywhere: while a party has refused in it, no party has *)
(* gone on to the columns, for any number of columns.                      *)
THEOREM RefusedTogether == Spec => []ChecksAgree
<1>1. TaskInv => ChecksAgree
  <2> SUFFICES ASSUME TaskInv, NEW p \in Parties, NEW q \in Parties,
                      status[p] = "failed", Entered(p) \in 1..2,
                      Current(p).kind \in {"cols", "dtypes"}, col[q] # 0
               PROVE  FALSE
    BY DEF ChecksAgree
  <2>1. Missing /\ Entered(p) \in {1, 2} /\ Entered(p) >= 1
    BY KindOf DEF TaskInv
  <2>2. Entered(q) >= 3
    BY <2>1, Places DEF TaskInv
  <2>3. \A r \in Parties : input.decl[r] = input.decl[q]
    BY <2>1, <2>2 DEF TaskInv, MetInv, AskedInv
  <2>4. \/ \E r \in Parties : Len(input.decl[r]) # Len(input.decl[p])
        \/ \E r \in Parties : input.decl[r] # input.decl[p]
    BY <2>1 DEF TaskInv, RefuseInv
  <2>5. QED BY <2>3, <2>4
<1>2. QED BY <1>1, TaskStays, PTL

-----------------------------------------------------------------------------
(* Parties with the same columns have their operations at the same places. *)
LEMMA SamePlaces ==
  ASSUME TypeInv, Consistent, NEW p \in Parties, NEW q \in Parties,
         Missing => input.decl[p] = input.decl[q]
  PROVE  /\ Len(input.decl[p]) = Len(input.decl[q]) /\ Visits(p) = Visits(q)
         /\ AtEnd(p) = AtEnd(q) /\ LastOp(p) = LastOp(q) /\ SizeAt(p) = SizeAt(q)
         /\ \A c : Base(p, c) = Base(q, c)
<1>1. Len(input.decl[p]) = Len(input.decl[q])
  BY DEF Consistent
<1>2. Ahead(p, 0) = Ahead(q, 0)
  <2>1. CASE Missing
    BY <2>1 DEF Consistent
  <2>2. CASE ~Missing
    BY <1>1, <2>2 DEF Ahead, Columns
  <2>3. QED BY <2>1, <2>2
<1>3. Visits(p) = Visits(q)
  BY <1>2 DEF Visits
<1>4. \A c : Base(p, c) = Base(q, c)
  BY <1>3 DEF Base, Before
<1>5. AtEnd(p) = AtEnd(q) /\ SizeAt(p) = SizeAt(q)
  BY <1>1 DEF AtEnd, SizeAt
<1>6. QED BY <1>1, <1>3, <1>4, <1>5 DEF LastOp

(* Parties that have entered an operation of a column have the same        *)
(* columns.                                                                *)
LEMMA PastExchange ==
  ASSUME TaskInv, Consistent, NEW p \in Parties, NEW q \in Parties,
         NEW k \in Nat, k > Exchange, k <= Entered(p)
  PROVE  /\ Visits(p) = Visits(q) /\ LastOp(p) = LastOp(q) /\ SizeAt(p) = SizeAt(q)
         /\ \A c : Base(p, c) = Base(q, c)
<1>1. Missing => input.decl[p] = input.decl[q]
  <2>1. SUFFICES ASSUME Missing PROVE input.decl[p] = input.decl[q]
    OBVIOUS
  <2>2. Entered(p) >= 3
    BY <2>1, PartyFacts DEF TaskInv, Exchange
  <2>3. QED BY <2>1, <2>2 DEF TaskInv, MetInv, AskedInv
<1>2. QED BY <1>1, SamePlaces DEF TaskInv

(* The k-th operations of two parties are one operation.                   *)
LEMMA SameOps ==
  ASSUME TaskInv, Consistent, NEW p \in Parties, NEW q \in Parties,
         NEW k \in Nat \ {0}, k <= Entered(p), k <= Entered(q)
  PROVE  SameOp(log[p][k], log[q][k])
<1>0. /\ Entered(p) \in Nat /\ Entered(q) \in Nat /\ Exchange \in {0, 2}
      /\ \A r \in Parties : ExchangeLog(r) /\ ColumnLog(r) /\ LastLog(r) /\ Covered(r)
  BY PartyFacts, OpsNumber DEF TaskInv, LogInv
<1>1. CASE k <= Exchange
  <2>1. Missing /\ k \in {1, 2}
    BY <1>0, <1>1 DEF Exchange
  <2>2. CASE k = 1
    <3>1. /\ log[p][k] = Op("cols", 3, 1, <<Len(input.decl[p])>>)
          /\ log[q][k] = Op("cols", 3, 1, <<Len(input.decl[q])>>)
      BY <1>0, <2>1, <2>2 DEF ExchangeLog
    <3>2. QED BY <3>1 DEF SameOp, Op
  <2>3. CASE k = 2
    <3>0. Entered(p) >= 2 /\ Entered(q) >= 2
      BY <2>3
    <3>1. /\ log[p][k] = Op("dtypes", 3, Len(input.decl[p]), input.decl[p])
          /\ log[q][k] = Op("dtypes", 3, Len(input.decl[q]), input.decl[q])
      BY <1>0, <2>1, <2>3, <3>0 DEF ExchangeLog
    <3>2. Len(input.decl[p]) = Len(input.decl[q])
      BY <2>1, <3>0 DEF TaskInv, MetInv, AskedInv
    <3>3. QED BY <3>1, <3>2 DEF SameOp, Op
  <2>4. QED BY <2>1, <2>2, <2>3
<1>2. CASE k > Exchange
  <2>0. /\ Visits(p) = Visits(q) /\ LastOp(p) = LastOp(q) /\ SizeAt(p) = SizeAt(q)
        /\ \A c : Base(p, c) = Base(q, c)
    BY <1>2, PastExchange
  <2>1. k \in (Exchange + 1)..Entered(p)
    BY <1>0, <1>2
  <2>2. \/ \E c \in Visits(p), i \in 1..ColumnOps : k = Base(p, c) + i
        \/ Missing /\ k = LastOp(p)
    BY <1>0, <2>1, Zenon DEF Covered
  <2>3. CASE Missing /\ k = LastOp(p)
    <3>1. log[p][k] = createShares(p, 0, <<1>>) /\ log[q][k] = createShares(q, 0, <<1>>)
      BY <1>0, <2>0, <2>3 DEF LastLog
    <3>2. QED BY <3>1 DEF createShares, Op, SameOp
  <2>4. CASE \E c \in Visits(p), i \in 1..ColumnOps : k = Base(p, c) + i
    <3>1. PICK c \in Visits(p), i \in 1..ColumnOps : k = Base(p, c) + i
      BY <2>4
    <3>2. Right(p, Base(p, c), i)
      BY <1>0, <3>1 DEF ColumnLog
    <3>3. Right(q, Base(p, c), i)
      BY <1>0, <2>0, <3>1 DEF ColumnLog
    <3>4. QED BY <2>0, <3>1, <3>2, <3>3 DEF Right, SameOp
  <2>5. QED BY <2>2, <2>3, <2>4
<1>3. QED BY <1>0, <1>1, <1>2

(* Once all have entered an operation of a column, the parties that bring  *)
(* a value are the ones the operation is for.                              *)
LEMMA GiversRight ==
  ASSUME TaskInv, Consistent, NEW p \in Parties, NEW c \in Visits(p), NEW i \in 1..ColumnOps,
         \A q \in Parties : Entered(q) >= Base(p, c) + i
  PROVE  Givers(Base(p, c) + i) = Bring(Base(p, c), i)
<1> DEFINE b == Base(p, c)
           k == b + i
<1>0. k \in Nat /\ k > Exchange /\ k <= Entered(p) /\ Exchange \in {0, 2} /\ k = b + i
  BY BaseType, OpsNumber DEF TaskInv
<1>1. Bring(b, i) \subseteq Parties
  <2>1. ColumnOps \in {4, 6, 9, 12}
    BY OpsNumber
  <2>2. CASE Extremum
    BY <2>2 DEF Bring, FirstAt, WinnerAt, Parties
  <2>3. CASE ~Extremum
    BY <2>1, <2>3 DEF Bring, Parties
  <2>4. QED BY <2>2, <2>3
<1>2. ASSUME NEW q \in Parties
      PROVE  log[q][k].val # <<>> <=> q \in Bring(b, i)
  <2>1. c \in Visits(q) /\ Base(q, c) = b
    BY <1>0, PastExchange
  <2>2. Right(q, b, i)
    BY <2>1 DEF TaskInv, LogInv, ColumnLog
  <2>3. QED BY <1>0, <2>2 DEF Right
<1> HIDE DEF b, k
<1>3. Givers(k) = Bring(b, i)
  BY <1>1, <1>2 DEF Givers
<1>4. QED BY <1>3 DEF b, k

(* One party brings a value to a share, two to a comparison.               *)
LEMMA GiverCount ==
  ASSUME TaskInv, Consistent, NEW p \in Parties, NEW k \in Nat \ {0},
         \A q \in Parties : Entered(q) >= k
  PROVE  /\ log[p][k].kind = "share" => Cardinality(Givers(k)) = 1
         /\ log[p][k].kind = "compare" => Cardinality(Givers(k)) = 2
<1>0. /\ Entered(p) \in Nat /\ Exchange \in {0, 2} /\ k <= Entered(p)
      /\ \A r \in Parties : ExchangeLog(r) /\ ColumnLog(r) /\ LastLog(r) /\ Covered(r)
  BY PartyFacts, OpsNumber DEF TaskInv, LogInv
<1>1. CASE k <= Exchange
  <2>1. Missing /\ k \in {1, 2}
    BY <1>0, <1>1 DEF Exchange
  <2>2. log[p][k].kind \in {"cols", "dtypes"}
    <3>1. CASE k = 1
      <4>1. log[p][k] = Op("cols", 3, 1, <<Len(input.decl[p])>>)
        BY <1>0, <2>1, <3>1 DEF ExchangeLog
      <4>2. QED BY <4>1 DEF Op
    <3>2. CASE k = 2
      <4>0. Entered(p) >= 2
        BY <1>0, <3>2
      <4>1. log[p][k] = Op("dtypes", 3, Len(input.decl[p]), input.decl[p])
        BY <1>0, <2>1, <3>2, <4>0 DEF ExchangeLog
      <4>2. QED BY <4>1 DEF Op
    <3>3. QED BY <2>1, <3>1, <3>2
  <2>3. QED BY <2>2
<1>2. CASE k > Exchange
  <2>1. k \in (Exchange + 1)..Entered(p)
    BY <1>0, <1>2
  <2>2. \/ \E c \in Visits(p), i \in 1..ColumnOps : k = Base(p, c) + i
        \/ Missing /\ k = LastOp(p)
    BY <1>0, <2>1, Zenon DEF Covered
  <2>3. CASE Missing /\ k = LastOp(p)
    <3>1. \A q \in Parties : LastOp(q) = k
      BY <1>0, <1>2, <2>3, PastExchange
    <3>2. \A q \in Parties : log[q][k] = createShares(q, 0, <<1>>)
      BY <1>0, <2>3, <3>1 DEF LastLog
    <3>3. ASSUME NEW q \in Parties
          PROVE  (log[q][k].val # <<>> <=> q = 0) /\ log[q][k].kind = "share"
      <4>1. log[q][k] = createShares(q, 0, <<1>>)
        BY <3>2
      <4>2. QED BY <4>1 DEF createShares, Op
    <3>4. Givers(k) = {0}
      <4>1. 0 \in Parties
        BY DEF Parties
      <4>2. QED BY <3>3, <4>1 DEF Givers
    <3>5. Cardinality(Givers(k)) = 1
      BY <3>4, FS_Singleton
    <3>6. QED BY <3>3, <3>5
  <2>4. CASE \E c \in Visits(p), i \in 1..ColumnOps : k = Base(p, c) + i
    <3>1. PICK c \in Visits(p), i \in 1..ColumnOps : k = Base(p, c) + i
      BY <2>4
    <3>2. Right(p, Base(p, c), i)
      BY <1>0, <3>1 DEF ColumnLog
    <3>3. log[p][k].kind = KindAt(i)
      BY <3>1, <3>2 DEF Right
    <3>4. Givers(k) = Bring(Base(p, c), i)
      BY <3>1, GiversRight
    <3>5. CASE KindAt(i) = "compare"
      <4>1. Bring(Base(p, c), i) = {0, 1} \/ \E f \in {0, 1} : Bring(Base(p, c), i) = {f, 2}
        BY <3>5 DEF KindAt, Bring, FirstAt
      <4>2. \E x, y : x # y /\ Bring(Base(p, c), i) = {x, y}
        <5>1. 0 # 1 /\ \A f \in {0, 1} : f # 2
          OBVIOUS
        <5>2. QED BY <4>1, <5>1, Zenon
      <4>3. PICK x, y : x # y /\ Bring(Base(p, c), i) = {x, y}
        BY <4>2
      <4>4. Cardinality({x}) = 1 /\ IsFiniteSet({x})
        BY FS_Singleton
      <4>5. Cardinality({x} \cup {y}) = 2
        BY <4>3, <4>4, FS_AddElement
      <4>6. {x} \cup {y} = {x, y}
        OBVIOUS
      <4>7. QED BY <3>3, <3>4, <3>5, <4>3, <4>5, <4>6
    <3>6. CASE KindAt(i) = "share"
      <4>1. \/ Bring(Base(p, c), i) = {WinnerAt(Base(p, c))}
            \/ Bring(Base(p, c), i) = {i - 1} \/ Bring(Base(p, c), i) = {i - 4}
        <5>1. i \in 1..12
          BY OpsNumber
        <5>2. CASE Extremum
          BY <3>6, <5>2 DEF KindAt, Bring
        <5>3. CASE ~Extremum
          BY <3>6, <5>1, <5>3 DEF KindAt, Bring
        <5>4. QED BY <5>2, <5>3
      <4>2. QED BY <3>3, <3>4, <3>6, <4>1, FS_Singleton
    <3>7. QED BY <3>3, <3>5, <3>6
  <2>5. QED BY <2>2, <2>3, <2>4
<1>3. QED BY <1>0, <1>1, <1>2

-----------------------------------------------------------------------------
(* A party that is in step is not garbled by its next step.                *)
NotGarbled == Consistent => \A p \in Parties : status[p] # "garbled"

(* Only a step that meets another operation than its own garbles a party.  *)
LEMMA OnlyGarbled ==
  ASSUME TypeInv, NEW p \in Parties, Step(p), status'[p] = "garbled", status[p] # "garbled"
  PROVE  Garbled(p)
<1>0. ASSUME NEW st, Ends(p, st) PROVE status'[p] = st
  BY <1>0, Ending
<1>1. ASSUME NEW c, StartColumn(p, c) PROVE FALSE
  <2>1. status' = status \/ Ends(p, "done")
    BY <1>1, ColumnStarts
  <2>2. QED BY <1>0, <2>1
<1>2. ~Load(p)
  BY <1>0 DEF Load
<1>3. ~LoadEnds(p)
  BY <1>0 DEF LoadEnds
<1>4. ~ExchangeCols(p)
  BY <1>0 DEF ExchangeCols
<1>5. ~ExchangeDtypes(p)
  BY <1>0, <1>1 DEF ExchangeDtypes
<1>6. ~NextOp(p)
  BY DEF NextOp
<1>7. ~EndColumn(p)
  BY <1>1 DEF EndColumn
<1>8. ~Crash(p)
  BY <1>0 DEF Crash
<1>9. ~saveModel(p)
  BY <1>0 DEF saveModel
<1>10. QED BY <1>2, <1>3, <1>4, <1>5, <1>6, <1>7, <1>8, <1>9 DEF Step

LEMMA StepInStep ==
  ASSUME TaskInv, NotGarbled, NEW p \in Parties, Step(p)
  PROVE  NotGarbled'
<1>0. Consistent' = Consistent /\ TypeInv
  BY StepTouches, ShapeStays DEF TaskInv
<1> SUFFICES ASSUME Consistent, NEW q \in Parties, status'[q] = "garbled" PROVE FALSE
  BY <1>0 DEF NotGarbled
<1>1. q = p /\ status[p] # "garbled"
  BY <1>0, StepTouches DEF NotGarbled, Untouched
<1>2. status[p] = "run" /\ Met(p) /\ ~Matched(p)
  BY <1>0, <1>1, OnlyGarbled DEF Garbled
<1>3. Entered(p) \in Nat \ {0} /\ \A r \in Parties : Entered(r) \in Nat
  BY <1>2, PartyFacts DEF TaskInv, PlaceInv
<1>4. \A r \in Needs(p, Current(p)) : r \in Parties /\ Entered(r) >= Entered(p)
  <2>1. Needs(p, Current(p)) \subseteq Parties
    BY DEF Needs, Parties, PrevPartyId
  <2>2. QED BY <1>2, <2>1 DEF Met
<1>5. \A r \in Needs(p, Current(p)) : SameOp(log[r][Entered(p)], Current(p))
  BY <1>3, <1>4, SameOps DEF Current
<1>6. Current(p).kind = "compare" => Cardinality(Givers(Entered(p))) = 2
  <2>1. SUFFICES ASSUME Current(p).kind = "compare" PROVE Cardinality(Givers(Entered(p))) = 2
    OBVIOUS
  <2>2. Needs(p, Current(p)) = Parties \ {p}
    BY <2>1 DEF Needs
  <2>3. \A r \in Parties : Entered(r) >= Entered(p)
    BY <1>3, <1>4, <2>2
  <2>4. QED BY <1>3, <2>1, <2>3, GiverCount DEF Current
<1>7. QED BY <1>2, <1>5, <1>6 DEF Matched

(* Whatever the interleaving, the parties' operations stay in step while   *)
(* their columns are consistent, for any number of columns and any data:   *)
(* no receive in MissingProcess::execute or in the statistics gets a       *)
(* message of another operation, a share has one owner and a comparison    *)
(* two sides.                                                              *)
THEOREM InStep == Spec => []Lockstep
<1>1. Init => NotGarbled
  BY DEF Init, NotGarbled
<1>2. TaskInv /\ NotGarbled /\ [Next]_vars => NotGarbled'
  <2> SUFFICES ASSUME TaskInv, NotGarbled, [Next]_vars PROVE NotGarbled'
    OBVIOUS
  <2>1. CASE UNCHANGED vars
    <3>1. Consistent' = Consistent /\ status' = status
      BY <2>1, ShapeStays DEF vars
    <3>2. QED BY <3>1 DEF NotGarbled
  <2>2. QED BY <2>1, NextStep, StepInStep
<1>3. TaskInv /\ NotGarbled => Lockstep
  <2> SUFFICES ASSUME TaskInv, NotGarbled, Consistent
               PROVE  /\ \A p \in Parties : status[p] # "garbled"
                      /\ \A p, q \in Parties :
                           \A k \in 1..Min({Entered(p), Entered(q)}) : SameOp(log[p][k], log[q][k])
                      /\ \A k \in 1..Min({Entered(p) : p \in Parties}) :
                           /\ log[0][k].kind = "share" => Cardinality(Givers(k)) = 1
                           /\ log[0][k].kind = "compare" => Cardinality(Givers(k)) = 2
    BY DEF Lockstep
  <2>0. 0 \in Parties /\ \A p \in Parties : Entered(p) \in Nat
    BY PartyFacts DEF TaskInv, Parties
  <2>1. \A p \in Parties : status[p] # "garbled"
    BY DEF NotGarbled
  <2>2. ASSUME NEW p \in Parties, NEW q \in Parties, NEW k \in 1..Min({Entered(p), Entered(q)})
        PROVE  SameOp(log[p][k], log[q][k])
    <3>1. /\ Min({Entered(p), Entered(q)}) <= Entered(p)
          /\ Min({Entered(p), Entered(q)}) <= Entered(q)
          /\ Min({Entered(p), Entered(q)}) \in Nat
      BY <2>0, SmallerOfTwo
    <3>2. k \in Nat \ {0} /\ k <= Entered(p) /\ k <= Entered(q)
      BY <2>0, <2>2, <3>1
    <3>3. QED BY <3>2, SameOps
  <2>3. ASSUME NEW k \in 1..Min({Entered(p) : p \in Parties})
        PROVE  /\ log[0][k].kind = "share" => Cardinality(Givers(k)) = 1
               /\ log[0][k].kind = "compare" => Cardinality(Givers(k)) = 2
    <3> DEFINE S == {Entered(p) : p \in Parties}
    <3>1. S \subseteq Nat /\ S # {} /\ \A p \in Parties : Entered(p) \in S
      BY <2>0
    <3> HIDE DEF S
    <3>2. Min(S) \in S /\ \A y \in S : Min(S) <= y
      BY <3>1, LeastThere
    <3>3. k \in 1..Min(S)
      BY <2>3 DEF S
    <3>4. k \in Nat \ {0} /\ \A q \in Parties : Entered(q) >= k
      <4>1. Min(S) \in Nat /\ \A q \in Parties : Min(S) <= Entered(q)
        BY <3>1, <3>2
      <4>2. k \in Nat \ {0} /\ k <= Min(S)
        BY <3>3, <4>1
      <4>3. \A q \in Parties : Entered(q) \in Nat /\ Min(S) <= Entered(q)
        BY <2>0, <4>1
      <4>4. QED BY <4>1, <4>2, <4>3
    <3>5. QED BY <2>0, <3>4, GiverCount
  <2>4. QED BY <2>1, <2>2, <2>3
<1>4. QED BY <1>1, <1>2, <1>3, TaskStays, PTL DEF Spec

-----------------------------------------------------------------------------
(* What a column has revealed is settled once everyone is at its last      *)
(* operation but one.                                                      *)
LEMMA FigureStays ==
  ASSUME TaskInv, Missing, Consistent, NEW p \in Parties, Step(p),
         NEW q \in Parties, NEW c \in Visits(q),
         \A r \in Parties : Entered(r) >= Base(q, c) + ColumnOps - 1
  PROVE  FigureAt(q, c)' = FigureAt(q, c)
<1>0. /\ Missing' = Missing /\ Extremum' = Extremum /\ input' = input
      /\ Base(q, c)' = Base(q, c) /\ TypeInv
  BY StepTouches, ShapeStays DEF TaskInv
<1>1. Base(q, c) \in Nat /\ \A r \in Parties : Entered(r) \in Nat
  BY <1>0, BaseType, PartyFacts
<1>2. ASSUME NEW i \in 1..(ColumnOps - 1), Bring(Base(q, c), i) # {}, NEW k \in {Base(q, c) + i}
      PROVE  Given(k)' = Given(k)
  <2>0. ColumnOps \in {4, 6, 9, 12}
    BY OpsNumber
  <2>1. i \in 1..ColumnOps /\ k \in Nat \ {0} /\ k = Base(q, c) + i
    BY <1>1, <1>2, <2>0
  <2>2. \A r \in Parties : Entered(r) >= k
    BY <1>1, <1>2, <2>0, <2>1
  <2>3. Givers(k) = Bring(Base(q, c), i)
    BY <2>1, <2>2, GiversRight
  <2>4. QED BY <1>0, <1>2, <2>1, <2>2, <2>3, SettledOp
<1>3. ASSUME Extremum, NEW b \in {Base(q, c)}
      PROVE  Given(b + 5)' = Given(b + 5)
  <2>1. 5 \in 1..(ColumnOps - 1)
    BY <1>3 DEF ColumnOps
  <2>2. Bring(Base(q, c), 5) # {}
    BY <1>3 DEF Bring
  <2>3. QED BY <1>2, <1>3, <2>1, <2>2
<1>4. ASSUME ~Extremum, NEW b \in {Base(q, c)}, NEW i \in 1..3
      PROVE  Given(b + i)' = Given(b + i)
  <2>1. i \in 1..(ColumnOps - 1)
    BY <1>4 DEF ColumnOps
  <2>2. Bring(Base(q, c), i) # {}
    BY <1>4 DEF Bring
  <2>3. QED BY <1>2, <1>4, <2>1, <2>2
<1>5. CASE Extremum
  <2>1. \A b \in {Base(q, c)} : Given(b + 5)' = Given(b + 5)
    BY <1>3, <1>5
  <2>2. (Given(Base(q, c) + 5))' = Given(Base(q, c) + 5)
    <3>1. \A b \in {Base(q, c)'} : Given(b + 5)' = Given(Base(q, c) + 5)
      BY <1>0, <2>1
    <3>2. QED BY <3>1 DEF Given, Givers
  <2>3. QED BY <1>0, <1>5, <2>2 DEF FigureAt
<1>6. CASE ~Extremum
  <2>1. \A b \in {Base(q, c)} : \A i \in 1..3 : Given(b + i)' = Given(b + i)
    BY <1>4, <1>6
  <2>2. \A b \in {Base(q, c)'} : \A i \in 1..3 : Given(b + i)' = Given(Base(q, c) + i)
    BY <1>0, <2>1
  <2>3. /\ (Given(Base(q, c) + 1))' = Given(Base(q, c) + 1)
        /\ (Given(Base(q, c) + 2))' = Given(Base(q, c) + 2)
        /\ (Given(Base(q, c) + 3))' = Given(Base(q, c) + 3)
    <3>1. \A b \in {Base(q, c)'} : Given(b + 1)' = Given(Base(q, c) + 1)
      BY <2>2
    <3>2. \A b \in {Base(q, c)'} : Given(b + 2)' = Given(Base(q, c) + 2)
      BY <2>2
    <3>3. \A b \in {Base(q, c)'} : Given(b + 3)' = Given(Base(q, c) + 3)
      BY <2>2
    <3>4. (Given(Base(q, c) + 1))' = Given(Base(q, c) + 1)
      BY <3>1 DEF Given, Givers
    <3>5. (Given(Base(q, c) + 2))' = Given(Base(q, c) + 2)
      BY <3>2 DEF Given, Givers
    <3>6. (Given(Base(q, c) + 3))' = Given(Base(q, c) + 3)
      BY <3>3 DEF Given, Givers
    <3>7. QED BY <3>4, <3>5, <3>6
  <2>4. (TotalAt(Base(q, c), 1))' = TotalAt(Base(q, c), 1) /\ (TotalAt(Base(q, c), 2))' = TotalAt(Base(q, c), 2)
    BY <2>3 DEF TotalAt
  <2>5. QED BY <1>0, <1>6, <2>4 DEF FigureAt
<1>7. QED BY <1>5, <1>6

(* The columns behind a party that has gone on after column c.             *)
LEMMA BehindAfter ==
  ASSUME TypeInv, Missing, NEW p \in Parties, NEW c \in Nat, StartColumn(p, c),
         task' = task, input' = input
  PROVE  /\ Behind(p)' = {x \in Visits(p) : x <= c} /\ status' = status
<1>0. /\ Len(input.decl[p]) \in Nat /\ DOMAIN col = Parties /\ ~Auxiliary(p)
      /\ Visits(p) \subseteq 1..Len(input.decl[p]) /\ Visits(p)' = Visits(p)
      /\ Ahead(p, c) = {x \in Visits(p) : x > c}
  BY PartyFacts, ShapeStays, AheadVisits DEF TypeInv, Auxiliary
<1>1. CASE /\ Ahead(p, c) # {} /\ col' = [col EXCEPT ![p] = Min(Ahead(p, c))]
           /\ status' = status
  <2>1. /\ Min(Ahead(p, c)) \in Ahead(p, c) /\ Min(Ahead(p, c)) \in Nat
        /\ \A x \in Ahead(p, c) : Min(Ahead(p, c)) <= x
    BY <1>1, FirstAhead
  <2> DEFINE d == Min(Ahead(p, c))
  <2>2. col'[p] = d /\ d \in Nat /\ d > c /\ \A x \in Visits(p) : x > c => x >= d
    BY <1>0, <1>1, <2>1
  <2> HIDE DEF d
  <2>3. \A x \in Visits(p) : x < col'[p] <=> x <= c
    BY <1>0, <2>2
  <2>4. QED BY <1>0, <1>1, <2>3 DEF Behind
<1>2. CASE /\ Ahead(p, c) = {} /\ col' = [col EXCEPT ![p] = AtEnd(p)]
           /\ status' = status
  <2>1. col'[p] = Len(input.decl[p]) + 1
    BY <1>0, <1>2 DEF AtEnd
  <2>2. \A x \in Visits(p) : x <= c /\ x < col'[p]
    BY <1>0, <1>2, <2>1
  <2>3. QED BY <1>0, <1>2, <2>2 DEF Behind
<1>3. QED BY <1>0, <1>1, <1>2, ColumnStarts

(* What a step of MissingProcess adds to the results.                      *)
LEMMA ResultMoves ==
  ASSUME TaskInv, Missing, NEW p \in Parties, Step(p)
  PROVE  \/ result'[p] = result[p] /\ Behind(p)' = Behind(p)
         \/ /\ AtColumn(p) /\ Returns(p) /\ Entered(p) = base[p] + ColumnOps
            /\ result'[p] = With(result[p], col[p], Figure(p))
            /\ Behind(p)' = Behind(p) \cup {col[p]}
<1>0. /\ TypeInv /\ PlaceInv /\ LogInv /\ task' = task /\ input' = input
      /\ Visits(p)' = Visits(p) /\ DOMAIN result = Parties
  BY StepTouches, ShapeStays DEF TaskInv, TypeInv
<1>1. ASSUME col' = col, result' = result
      PROVE  result'[p] = result[p] /\ Behind(p)' = Behind(p)
  BY <1>0, <1>1 DEF Behind
<1>2. CASE Load(p)
  BY <1>1, <1>2 DEF Load
<1>3. CASE LoadEnds(p)
  BY <1>1, <1>3 DEF LoadEnds
<1>4. CASE ExchangeCols(p)
  BY <1>1, <1>4 DEF ExchangeCols
<1>5. CASE ExchangeDtypes(p)
  <2>1. CASE StartColumn(p, 0)
    <3>1. Behind(p)' = {x \in Visits(p) : x <= 0}
      BY <1>0, <2>1, BehindAfter
    <3>2. status[p] = "run" /\ Current(p).kind = "dtypes" /\ result' = result
      BY <1>5 DEF ExchangeDtypes, Returns
    <3>3. Entered(p) >= 1
      BY <1>0, <3>2 DEF PlaceInv
    <3>4. Entered(p) = 2
      BY <1>0, <3>2, <3>3, KindOf
    <3>5. col[p] = 0
      BY <1>0, <3>4, Places DEF InExchange
    <3>6. Behind(p) = {} /\ Behind(p)' = {}
      BY <1>0, <3>1, <3>5, PartyFacts DEF Behind
    <3>7. QED BY <3>2, <3>6
  <2>2. CASE col' = col
    BY <1>1, <1>5, <2>2 DEF ExchangeDtypes
  <2>3. QED BY <1>5, <2>1, <2>2 DEF ExchangeDtypes
<1>6. CASE NextOp(p)
  BY <1>1, <1>6 DEF NextOp
<1>7. CASE EndColumn(p)
  <2>1. AtColumn(p) /\ Returns(p)
    BY <1>0, <1>7, Places DEF EndColumn
  <2>2. Entered(p) = base[p] + ColumnOps
    BY <1>0, <1>7, OpsNumber, PartyFacts DEF EndColumn, OpsDone, TypeInv
  <2>3. result'[p] = With(result[p], col[p], Figure(p))
    BY <1>0, <1>7 DEF EndColumn
  <2>4. StartColumn(p, col[p]) /\ col[p] \in Nat /\ col[p] \in Visits(p)
    BY <1>0, <1>7, <2>1 DEF EndColumn, TypeInv, AtColumn
  <2>5. Behind(p)' = {x \in Visits(p) : x <= col[p]}
    BY <1>0, <2>4, BehindAfter
  <2>6. Behind(p)' = Behind(p) \cup {col[p]}
    BY <1>0, <2>4, <2>5, PartyFacts DEF Behind
  <2>7. QED BY <2>1, <2>2, <2>3, <2>6
<1>8. CASE Crash(p) \/ saveModel(p) \/ Garbled(p)
  BY <1>1, <1>8 DEF Crash, saveModel, Garbled
<1>9. QED BY <1>2, <1>3, <1>4, <1>5, <1>6, <1>7, <1>8 DEF Step

(* When a party of MissingProcess succeeds, the party before has entered   *)
(* its last operation.                                                     *)
LEMMA DoneAfter ==
  ASSUME TaskInv, Missing, NEW p \in Parties, Step(p), status'[p] = "done"
  PROVE  Through(p)' /\ Entered(PrevPartyId(p)) >= LastOp(p)
<1>0. /\ TypeInv /\ PlaceInv /\ LogInv /\ task' = task /\ input' = input
      /\ LastOp(p)' = LastOp(p) /\ AtEnd(p)' = AtEnd(p) /\ Missing' = Missing
  BY StepTouches, ShapeStays DEF TaskInv
<1>20. ASSUME NEW st, Ends(p, st) PROVE status'[p] = st
  BY <1>0, <1>20, Ending
<1>21. ASSUME NEW c \in Nat, StartColumn(p, c), status[p] = "run" PROVE FALSE
  BY <1>0, <1>21, BehindAfter
<1>1. ~Load(p)
  BY <1>20 DEF Load
<1>2. ~LoadEnds(p)
  BY <1>20 DEF LoadEnds, DoNothing
<1>3. ~ExchangeCols(p)
  BY <1>20 DEF ExchangeCols, Returns
<1>4. ~ExchangeDtypes(p)
  BY <1>20, <1>21 DEF ExchangeDtypes, Returns
<1>5. ~NextOp(p)
  BY DEF NextOp, Returns
<1>6. ~EndColumn(p)
  BY <1>0, <1>21 DEF EndColumn, Returns, TypeInv
<1>7. ~Crash(p) /\ ~Garbled(p)
  BY <1>20 DEF Crash, Garbled
<1>8. Returns(p) /\ col[p] > Len(input.decl[p]) /\ log' = log /\ col' = col
  BY <1>1, <1>2, <1>3, <1>4, <1>5, <1>6, <1>7 DEF Step, saveModel
<1>9. Through(p)
  <2>1. InExchange(p) \/ AtColumn(p) \/ Through(p)
    BY <1>0 DEF PlaceInv
  <2>2. Len(input.decl[p]) \in Nat
    BY <1>0, PartyFacts
  <2>3. ~InExchange(p)
    BY <1>8, <2>2 DEF InExchange
  <2>4. ~AtColumn(p)
    BY <1>0, <1>8, <2>2, Places
  <2>5. QED BY <2>1, <2>3, <2>4
<1>10. Entered(p) >= 1 /\ Entered(p) = LastOp(p)
  BY <1>0, <1>8, <1>9 DEF Returns, PlaceInv, Through
<1>11. Entered(PrevPartyId(p)) >= LastOp(p)
  BY <1>0, <1>8, <1>10, WaitsForPrev DEF Returns, Met
<1>12. Through(p)'
  BY <1>0, <1>8, <1>9, <1>10 DEF Through, Entered
<1>13. QED BY <1>11, <1>12

(* The figure a party works out at the end of a column is the one the logs *)
(* give, and by then everyone is at the last operation but one.            *)
LEMMA FigureFromLogs ==
  ASSUME TaskInv, Missing, NEW p \in Parties, AtColumn(p), Returns(p),
         Entered(p) = base[p] + ColumnOps
  PROVE  /\ Figure(p) = FigureAt(p, col[p])
         /\ \A q \in Parties : Entered(q) >= Base(p, col[p]) + ColumnOps - 1
<1>0. /\ TypeInv /\ LogInv /\ RingInv /\ base[p] = Base(p, col[p]) /\ base[p] \in Nat
      /\ ColumnOps \in {4, 6, 9, 12}
  BY OpsNumber DEF TaskInv, TypeInv, MetInv, AtColumn
<1>1. \A q \in Parties : Entered(q) \in Nat
  BY <1>0, PartyFacts
<1>2. \A j : Total(p, 1, j) = TotalAt(Base(p, col[p]), j)
  <2>1. base[p] + 1 + 1 = base[p] + 2 /\ base[p] + 1 + 2 = base[p] + 3
    BY <1>0
  <2>2. QED BY <1>0, <2>1 DEF Total, TotalAt
<1>3. Figure(p) = FigureAt(p, col[p])
  BY <1>0, <1>2 DEF Figure, FigureAt
<1> DEFINE q == PrevPartyId(p)
           r == PrevPartyId(q)
<1>4. q \in Parties /\ r \in Parties /\ \A x \in Parties : x = p \/ x = q \/ x = r
  BY DEF PrevPartyId, Parties
<1>5. Entered(p) >= 1
  BY <1>0
<1>6. Entered(q) >= Entered(p)
  BY <1>0, <1>5, WaitsForPrev DEF Returns, Met
<1>7. Entered(q) <= Entered(r) + 1
  BY <1>0, <1>4 DEF RingInv
<1> HIDE DEF q, r
<1>8. Entered(p) >= base[p] + ColumnOps - 1 /\ Entered(q) >= base[p] + ColumnOps - 1
  BY <1>0, <1>1, <1>4, <1>6
<1>9. Entered(r) >= base[p] + ColumnOps - 1
  BY <1>0, <1>1, <1>4, <1>6, <1>7
<1>10. QED BY <1>0, <1>3, <1>4, <1>8, <1>9

LEMMA InitResult == Init => ResultInv
<1> SUFFICES ASSUME Init, NEW p \in Parties PROVE ResultOf(p) /\ DoneOf(p)
  BY DEF ResultInv
<1>1. result[p] = <<>> /\ col[p] = 0 /\ status[p] = "load"
  BY DEF Init
<1>2. Behind(p) = {}
  BY <1>1, InitType, PartyFacts DEF Behind
<1>3. result[p] = [c \in Behind(p) |-> FigureAt(p, c)]
  BY <1>1, <1>2
<1>4. ResultOf(p)
  BY <1>2, <1>3 DEF ResultOf
<1>5. QED BY <1>1, <1>4 DEF DoneOf

(* A column that has been revealed stays as it was.                        *)
LEMMA ColumnKept ==
  ASSUME TaskInv, Missing, Consistent, NEW p \in Parties, Step(p), NEW q \in Parties,
         NEW c \in Visits(q), \A r \in Parties : Entered(r) >= Base(q, c) + ColumnOps - 1
  PROVE  /\ FigureAt(q, c)' = FigureAt(q, c)
         /\ \A r \in Parties : Entered(r)' >= Base(q, c)' + ColumnOps' - 1
<1>1. FigureAt(q, c)' = FigureAt(q, c)
  BY FigureStays
<1>2. TypeInv /\ Base(q, c)' = Base(q, c) /\ ColumnOps' = ColumnOps /\ ColumnOps \in {4, 6, 9, 12}
  BY StepTouches, ShapeStays, OpsNumber DEF TaskInv
<1>3. \A r \in Parties : Entered(r) \in Nat /\ Entered(r)' \in Nat /\ Entered(r)' >= Entered(r)
  BY <1>2, LogGrows
<1>4. Base(q, c) \in Nat
  BY <1>2, BaseType
<1>5. QED BY <1>1, <1>2, <1>3, <1>4

LEMMA StepResult ==
  ASSUME TaskInv, Missing, Consistent, NEW p \in Parties, Step(p), NEW q \in Parties, ResultOf(q)
  PROVE  ResultOf(q)'
<1>0. /\ TypeInv /\ Behind(q) \subseteq Visits(q)
      /\ result[q] = [c \in Behind(q) |-> FigureAt(q, c)]
      /\ \A c \in Behind(q) : \A r \in Parties : Entered(r) >= Base(q, c) + ColumnOps - 1
  BY DEF TaskInv, ResultOf, Behind
<1>1. ASSUME NEW c \in Behind(q)
      PROVE  /\ FigureAt(q, c)' = FigureAt(q, c)
             /\ \A r \in Parties : Entered(r)' >= Base(q, c)' + ColumnOps' - 1
  BY <1>0, ColumnKept
<1>2. CASE result'[q] = result[q] /\ Behind(q)' = Behind(q)
  <2>1. result'[q] = [c \in Behind(q)' |-> FigureAt(q, c)']
    BY <1>0, <1>1, <1>2
  <2>2. \A c \in Behind(q)' : \A r \in Parties : Entered(r)' >= Base(q, c)' + ColumnOps' - 1
    BY <1>1, <1>2
  <2>3. QED BY <2>1, <2>2 DEF ResultOf
<1>3. CASE /\ q = p /\ AtColumn(p) /\ Returns(p) /\ Entered(p) = base[p] + ColumnOps
           /\ result'[p] = With(result[p], col[p], Figure(p))
           /\ Behind(p)' = Behind(p) \cup {col[p]}
  <2>1. col[q] \in Visits(q)
    BY <1>3 DEF AtColumn
  <2>2. /\ Figure(q) = FigureAt(q, col[q])
        /\ \A r \in Parties : Entered(r) >= Base(q, col[q]) + ColumnOps - 1
    BY <1>3, FigureFromLogs
  <2>3. \A d \in {col[q]} : /\ FigureAt(q, d)' = FigureAt(q, d)
                           /\ \A r \in Parties : Entered(r)' >= Base(q, d)' + ColumnOps' - 1
    <3> SUFFICES ASSUME NEW d \in {col[q]}
                 PROVE  /\ FigureAt(q, d)' = FigureAt(q, d)
                        /\ \A r \in Parties : Entered(r)' >= Base(q, d)' + ColumnOps' - 1
      OBVIOUS
    <3>1. d \in Visits(q) /\ \A r \in Parties : Entered(r) >= Base(q, d) + ColumnOps - 1
      BY <2>1, <2>2
    <3>2. QED BY <3>1, ColumnKept
  <2>4. \A c \in Behind(q)' : /\ result'[q][c] = FigureAt(q, c)'
                             /\ \A r \in Parties : Entered(r)' >= Base(q, c)' + ColumnOps' - 1
    <3>1. ASSUME NEW c \in Behind(q), c # col[q]
          PROVE  /\ result'[q][c] = FigureAt(q, c)'
                 /\ \A r \in Parties : Entered(r)' >= Base(q, c)' + ColumnOps' - 1
      <4>1. result'[q][c] = result[q][c]
        BY <1>0, <1>3, <3>1 DEF With
      <4>2. result[q][c] = FigureAt(q, c)
        BY <1>0
      <4>3. QED BY <1>1, <4>1, <4>2
    <3>2. ASSUME NEW c \in {col[q]}
          PROVE  /\ result'[q][c] = FigureAt(q, c)'
                 /\ \A r \in Parties : Entered(r)' >= Base(q, c)' + ColumnOps' - 1
      <4>1. result'[q][c] = Figure(q)
        BY <1>3 DEF With
      <4>2. Figure(q) = FigureAt(q, c)
        BY <2>2
      <4>3. QED BY <2>3, <4>1, <4>2
    <3>3. QED BY <1>3, <3>1, <3>2
  <2>5. result'[q] = [c \in Behind(q)' |-> FigureAt(q, c)']
    <3>1. DOMAIN result[q] = Behind(q)
      BY <1>0
    <3>2. result'[q] = [x \in Behind(q)' |-> IF x = col[q] THEN Figure(q) ELSE result[q][x]]
      BY <1>3, <3>1 DEF With
    <3>3. QED BY <2>4, <3>2
  <2>6. QED BY <2>4, <2>5 DEF ResultOf
<1>4. CASE q # p
  <2>1. Untouched(q) /\ Visits(q)' = Visits(q)
    BY <1>0, <1>4, StepTouches, ShapeStays
  <2>2. result'[q] = result[q] /\ Behind(q)' = Behind(q)
    BY <2>1 DEF Untouched, Behind
  <2>3. QED BY <1>2, <2>2
<1>5. QED BY <1>2, <1>3, <1>4, ResultMoves

LEMMA StepDone ==
  ASSUME TaskInv, Missing, NEW p \in Parties, Step(p), NEW q \in Parties, DoneOf(q)
  PROVE  DoneOf(q)'
<1>0. /\ TypeInv /\ LastOp(q)' = LastOp(q) /\ AtEnd(q)' = AtEnd(q) /\ Missing' = Missing
  BY StepTouches, ShapeStays DEF TaskInv
<1>t. LastOp(q) \in Nat
  <2>1. Base(q, AtEnd(q)) \in Nat
    BY <1>0, BaseType
  <2>2. QED BY <2>1 DEF LastOp
<1>1. PrevPartyId(q) \in Parties /\ PrevPartyId(q)' = PrevPartyId(q)
  BY DEF PrevPartyId, Parties
<1>2. /\ Entered(PrevPartyId(q)) \in Nat /\ Entered(PrevPartyId(q))' \in Nat
      /\ Entered(PrevPartyId(q))' >= Entered(PrevPartyId(q))
  BY <1>0, <1>1, LogGrows
<1> SUFFICES ASSUME status'[q] = "done"
             PROVE  Through(q)' /\ Entered(PrevPartyId(q)) >= LastOp(q)
  BY <1>0, <1>t, <1>1, <1>2 DEF DoneOf
<1>3. CASE q = p
  BY <1>3, DoneAfter
<1>4. CASE q # p
  <2>1. Untouched(q)
    BY <1>0, <1>4, StepTouches
  <2>2. Through(q) /\ Entered(PrevPartyId(q)) >= LastOp(q)
    BY <2>1 DEF DoneOf, Untouched
  <2>3. Through(q)'
    BY <1>0, <2>1, <2>2 DEF Through, Untouched, Entered
  <2>4. QED BY <2>2, <2>3
<1>5. QED BY <1>3, <1>4

LEMMA StutterResult == ResultInv /\ UNCHANGED vars => ResultInv'
<1> SUFFICES ASSUME ResultInv, UNCHANGED vars PROVE ResultInv'
  OBVIOUS
<1>1. /\ task' = task /\ input' = input /\ log' = log /\ col' = col
      /\ result' = result /\ status' = status
  BY DEF vars
<1>2. /\ Missing' = Missing /\ Extremum' = Extremum /\ ColumnOps' = ColumnOps
      /\ Consistent' = Consistent
      /\ \A q : Visits(q)' = Visits(q) /\ AtEnd(q)' = AtEnd(q) /\ LastOp(q)' = LastOp(q)
      /\ \A q, c : Base(q, c)' = Base(q, c)
  BY <1>1, ShapeStays
<1>3. \A q : Entered(q)' = Entered(q) /\ Behind(q)' = Behind(q)
  BY <1>1, <1>2 DEF Entered, Behind
<1>4. \A k : Given(k)' = Given(k)
  BY <1>1 DEF Given, Givers
<1>5. \A q, c : FigureAt(q, c)' = FigureAt(q, c)
  <2> SUFFICES ASSUME NEW q, NEW c PROVE FigureAt(q, c)' = FigureAt(q, c)
    OBVIOUS
  <2>1. \A b, j : TotalAt(b, j)' = TotalAt(b, j)
    BY <1>4 DEF TotalAt
  <2>2. \A b \in {Base(q, c)} : /\ Given(b + 5)' = Given(b + 5)
                               /\ TotalAt(b, 1)' = TotalAt(b, 1) /\ TotalAt(b, 2)' = TotalAt(b, 2)
    BY <1>4, <2>1
  <2>3. \A b \in {Base(q, c)'} : /\ Given(b + 5)' = Given(Base(q, c) + 5)
                                /\ TotalAt(b, 1)' = TotalAt(Base(q, c), 1)
                                /\ TotalAt(b, 2)' = TotalAt(Base(q, c), 2)
    BY <1>2, <2>2
  <2>4. (Given(Base(q, c) + 5))' = Given(Base(q, c) + 5)
    BY <2>3 DEF Given, Givers
  <2>5. /\ (TotalAt(Base(q, c), 1))' = TotalAt(Base(q, c), 1)
        /\ (TotalAt(Base(q, c), 2))' = TotalAt(Base(q, c), 2)
    BY <2>3 DEF TotalAt, Given, Givers
  <2>6. QED BY <1>1, <1>2, <2>4, <2>5 DEF FigureAt
<1>6. ASSUME NEW p \in Parties, ResultOf(p), DoneOf(p)
      PROVE  ResultOf(p)' /\ DoneOf(p)'
  <2>1. ResultOf(p)'
    BY <1>1, <1>2, <1>3, <1>5, <1>6 DEF ResultOf
  <2>2. DoneOf(p)'
    BY <1>1, <1>2, <1>3, <1>6 DEF DoneOf, Through, PrevPartyId
  <2>3. QED BY <2>1, <2>2
<1>7. QED BY <1>2, <1>6 DEF ResultInv

(* A dataset is registered only when the party before has all its columns, *)
(* with the same values, whatever the columns, the data and the            *)
(* interleaving: what MissingProcess::finishPartyComm is for.              *)
THEOREM SavedAlike == Spec => []SavedTogether
<1>1. TaskInv /\ ResultInv /\ [Next]_vars => ResultInv'
  <2> SUFFICES ASSUME TaskInv, ResultInv, [Next]_vars PROVE ResultInv'
    OBVIOUS
  <2>1. ASSUME NEW p \in Parties, Step(p) PROVE ResultInv'
    <3>1. Missing' = Missing /\ Consistent' = Consistent
      BY <2>1, StepTouches, ShapeStays DEF TaskInv
    <3>2. ASSUME Missing, Consistent, NEW q \in Parties PROVE ResultOf(q)' /\ DoneOf(q)'
      BY <2>1, <3>2, StepResult, StepDone DEF ResultInv
    <3>3. QED BY <3>1, <3>2 DEF ResultInv
  <2>2. QED BY <2>1, NextStep, StutterResult
<1>2. TaskInv /\ ResultInv => SavedTogether
  <2> SUFFICES ASSUME TaskInv, ResultInv, NEW p \in Parties, Missing, Consistent, status[p] = "done"
               PROVE  result[PrevPartyId(p)] = result[p]
    BY DEF SavedTogether
  <2> DEFINE q == PrevPartyId(p)
  <2>0. q \in Parties
    BY DEF PrevPartyId, Parties
  <2>1. ResultOf(p) /\ ResultOf(q) /\ Through(p) /\ Entered(q) >= LastOp(p)
    BY <2>0 DEF ResultInv, DoneOf
  <2>2. TypeInv /\ Entered(q) \in Nat /\ Base(p, AtEnd(p)) \in Nat /\ Base(p, AtEnd(p)) >= 2
    BY <2>0, PartyFacts, BaseType DEF TaskInv, Exchange
  <2>3. Entered(q) >= 3
    BY <2>1, <2>2 DEF LastOp
  <2>4. input.decl[p] = input.decl[q]
    BY <2>0, <2>3 DEF TaskInv, MetInv, AskedInv
  <2>5. /\ Visits(p) = Visits(q) /\ AtEnd(p) = AtEnd(q) /\ LastOp(p) = LastOp(q)
        /\ \A c : Base(p, c) = Base(q, c)
    BY <2>0, <2>2, <2>4, SamePlaces
  <2>6. Through(q)
    <3>1. ~InExchange(q)
      BY <2>3 DEF InExchange, Exchange
    <3>2. ASSUME AtColumn(q) PROVE FALSE
      <4>1. col[q] \in Visits(q) /\ base[q] = Base(q, col[q]) /\ Entered(q) <= base[q] + ColumnOps
        BY <2>2, <3>2, OpsNumber DEF AtColumn
      <4>2. AtEnd(q) \in Nat /\ col[q] < AtEnd(q)
        BY <2>0, <2>2, <4>1, PartyFacts DEF AtEnd
      <4>3. Base(q, AtEnd(q)) >= Base(q, col[q]) + ColumnOps
        BY <2>0, <2>2, <4>1, <4>2, BaseApart
      <4>4. Base(q, col[q]) \in Nat /\ ColumnOps \in Nat /\ Base(q, AtEnd(q)) \in Nat
        BY <2>0, <2>2, BaseType, OpsNumber
      <4>5. Entered(q) >= Base(q, AtEnd(q)) + 1
        BY <2>1, <2>5 DEF LastOp
      <4>6. QED BY <2>2, <4>1, <4>3, <4>4, <4>5
    <3>3. QED BY <2>0, <3>1, <3>2 DEF TaskInv, PlaceInv
  <2>7. col[p] = col[q]
    BY <2>1, <2>5, <2>6 DEF Through
  <2>8. Behind(p) = Behind(q) /\ \A c : FigureAt(p, c) = FigureAt(q, c)
    BY <2>4, <2>5, <2>7 DEF Behind, FigureAt
  <2>9. QED BY <2>1, <2>8 DEF ResultOf
<1>3. QED BY <1>1, <1>2, InitResult, TaskStays, PTL DEF Spec
=============================================================================
