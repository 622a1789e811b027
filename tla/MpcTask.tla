------------------------------ MODULE MpcTask ------------------------------
(***************************************************************************)
(* An MPC task between its three parties: MPCTask::ExecuteImpl around the  *)
(* algorithms MissingProcess (the missing values of a column are replaced  *)
(* by the maximum, minimum or average over all parties) and                *)
(* MPCStatisticsExecutor (the same figures, and the sum, as a result).     *)
(*                                                                         *)
(* Both algorithms are lines of collective operations of MPCOperator, and  *)
(* nothing in a message says which operation it belongs to: the k-th       *)
(* operation of a party meets the k-th operations of its peers.  log[p] is *)
(* what p has entered so far; an operation returns once the neighbours it  *)
(* receives from have entered theirs.  The aby3 library is external: a     *)
(* share stands for the owner's value, modulo 2^W as in the code's 64 bits.*)
(* Columns are numbered in the order of their names; fixed-point rounding  *)
(* is left out, so that a double is an integer or a quotient.              *)
(***************************************************************************)
EXTENDS Integers, Sequences, FiniteSets, FiniteSetsExt, SequencesExt

CONSTANTS W,           \* width of an integer: 64 in the code
          Inputs,      \* datasets and column lists of the three parties
          MaxFaults    \* bound: failures of loadParams, loadDataset or saveModel

Parties == 0..2

ASSUME MpcAssumption ==
  /\ W \in Nat \ {0, 1} /\ 2^(W - 1) \in Nat \ {0, 1} /\ MaxFaults \in Nat
  /\ Inputs \subseteq [decl : [Parties -> Seq({"int", "double", "string"})],
                       has  : [Parties -> SUBSET Nat],
                       data : [Parties -> Seq([kind : {"num", "null", "bad"}, v : Int])],
                       head : [Parties -> Nat], first : [Parties -> Nat],
                       db   : [Parties -> BOOLEAN]]

VARIABLES task,        \* algorithm, type of result, auxiliary party, DBL_MAX
          input,       \* decl: types of the columns asked for; has: columns of
                       \* the table; data: cells of a column; head: how many
                       \* of them are in the first chunk; first: the column
                       \* the file begins with, 0 if not asked for; db: use_db
          log,         \* collective operations entered, by party
          col,         \* the column a party is at; 0: in the exchange
          base,        \* operations entered before that column
          result,      \* revealed values, by party and column
          table,       \* rebuilt columns, by party and column
          status, faults

vars == <<task, input, log, col, base, result, table, status, faults>>

NextPartyId(p) == (p + 1) % 3
PrevPartyId(p) == (p + 2) % 3

IntMin == -(2^(W - 1))
IntMax == 2^(W - 1) - 1
Wrap(x) == ((x - IntMin) % (2 * 2^(W - 1))) + IntMin

(* numeric_limits<double>::min() is the smallest positive double, 0 as a   *)
(* fixed-point number.  ::max() does not fit: the conversion's outcome is  *)
(* undefined, an extreme of the integers on the platforms built for.       *)
DblMin == 0
DblMax == task.huge

(* A cell is a number, empty, or text that is no number.                   *)
Num(v) == [kind |-> "num", v |-> v]
Null   == [kind |-> "null", v |-> 0]
Bad    == [kind |-> "bad", v |-> 0]
Good(cells)   == {i \in DOMAIN cells : cells[i].kind = "num"}
Worth(cell)   == IF cell.kind = "num" THEN cell.v ELSE 0
SumOf(cells)  == LET sum[n \in 0..Len(cells)] == IF n = 0 THEN 0 ELSE sum[n - 1] + Worth(cells[n])
                 IN  sum[Len(cells)]
ValuesOf(cells) == {cells[i].v : i \in Good(cells)}
Values(p)     == ValuesOf(input.data[p])
AllGood(p)    == Good(input.data[p]) = DOMAIN input.data[p]

Columns(p) == 1..Len(input.decl[p])
Missing    == task.algo = "missing"
Extremum   == task.type \in {"MAX", "MIN"}
Auxiliary(p) == task.aux /\ p = 2

-----------------------------------------------------------------------------
(* Operations of MPCOperator: kind, the party it is revealed to (3: all),  *)
(* the number of values, and what this party puts in (<<>>: nothing).      *)
Op(kind, to, n, val) == [kind |-> kind, to |-> to, n |-> n, val |-> val]
MPC_Compare(p, ps, v)    == Op("compare", 3, 1, IF p \in ps THEN <<v>> ELSE <<>>)
createShares(p, own, vs) == Op("share", 3, Len(vs), IF p = own THEN vs ELSE <<>>)
revealAll(n)             == Op("reveal", 3, n, <<>>)
reveal(to, n)            == Op("reveal", to, n, <<>>)

(* Whom p receives from in an operation: both neighbours when shapes or    *)
(* sizes are exchanged, one of them in a round of aby3, none when it only  *)
(* sends its share.                                                        *)
Needs(p, op) ==
  CASE op.kind \in {"cols", "dtypes", "compare"} -> Parties \ {p}
    [] op.kind = "share"                         -> {PrevPartyId(p)}
    [] OTHER -> IF op.to \in {p, 3} THEN {PrevPartyId(p)} ELSE {}

Entered(p)  == Len(log[p])
Current(p)  == log[p][Entered(p)]
Met(p)      == \A q \in Needs(p, Current(p)) : Entered(q) >= Entered(p)
SameOp(a, b) == a.kind = b.kind /\ a.to = b.to /\ a.n = b.n

(* What operation k has been given.                                        *)
Givers(k)  == {q \in Parties : log[q][k].val # <<>>}
Given(k)   == log[CHOOSE q \in Givers(k) : TRUE][k].val

(* A message of another length makes the receive fail; MPC_Compare throws  *)
(* unless exactly two parties bring a value.                               *)
Matched(p) ==
  /\ \A q \in Needs(p, Current(p)) : SameOp(log[q][Entered(p)], Current(p))
  /\ Current(p).kind = "compare" => Cardinality(Givers(Entered(p))) = 2
Returns(p) == status[p] = "run" /\ Met(p) /\ Matched(p)

(* The sign bit of the sum of the lower party's value and the negated      *)
(* value of the higher one: the difference may wrap.                       *)
Less(k) == LET a == Min(Givers(k))
               b == Max(Givers(k))
           IN  Wrap(log[a][k].val[1] + Wrap(-log[b][k].val[1])) < 0

-----------------------------------------------------------------------------
(* The statistics go through all columns.  MissingProcess passes over one  *)
(* the table does not have, or whose type is neither integer nor double,   *)
(* without a word to its peers.                                            *)
Ahead(p, c) == {i \in Columns(p) :
                  i > c /\ (Missing => i \in input.has[p] /\ input.decl[p][i] # "string")}

(* A file is read in chunks, all columns alike, and replaceValue makes one *)
(* chunk of the column it builds.  An integer column is read as far as the *)
(* file's first column has chunks: only its first, if that one was rebuilt *)
(* before.                                                                 *)
Rebuilt(p, c)  == input.first[p] \in Ahead(p, 0) /\ input.first[p] < c
ReadPart(p, c) == IF Missing /\ input.decl[p][c] = "int" /\ Rebuilt(p, c)
                  THEN SubSeq(input.data[p], 1, Min({input.head[p], Len(input.data[p])}))
                  ELSE input.data[p]

(* What a party knows of a column by itself.  MissingProcess skips empty   *)
(* cells and counts the others that do not convert.  The statistics do not *)
(* ask whether a cell is empty: Value(j) of one is the 0 that the builder  *)
(* has left there.                                                         *)
ValuesRead(p, c) == IF Missing THEN ValuesOf(ReadPart(p, c))
                    ELSE {input.data[p][i].v : i \in DOMAIN input.data[p]}
Extreme(S) == IF task.type = "MAX" THEN Max(S) ELSE Min(S)
Start(t) == CASE t = "double" -> IF task.type = "MAX" THEN DblMin ELSE DblMax
              [] OTHER        -> IF task.type = "MAX" THEN IntMin ELSE IntMax
OrDblMax(S) == IF S = {} THEN {DblMax} ELSE S

(* MAX and MIN keep the sentinel only if nothing beats it; DBL_MAX is      *)
(* beaten by any value, and is converted only afterwards.                  *)
LocalExtreme(p, c) ==
  LET S == ValuesRead(p, c) IN
  IF Missing
  THEN IF input.decl[p][c] = "double" /\ task.type = "MIN" THEN Min(OrDblMax(S))
       ELSE Extreme(S \cup {Start(input.decl[p][c])})
  ELSE IF Auxiliary(p) THEN Start("double")
       ELSE IF task.type = "MIN" THEN Min(OrDblMax(S))
       ELSE IF task.aux THEN Max(S) ELSE Max(S \cup {DblMin})

(* The cells of a kind among those read; the rows are those of the table.  *)
NumberOf(k, cells) == Cardinality({i \in DOMAIN cells : cells[i].kind = k})
null_num(p, c)     == NumberOf("null", ReadPart(p, c))
abnormal_num(p, c) == NumberOf("bad", ReadPart(p, c))
LocalSum(p, c)     == IF Auxiliary(p) THEN 0 ELSE Wrap(SumOf(ReadPart(p, c)))

(* Mutant of LocalCount: cells that do not convert are counted.            *)
CountsAbnormal(p, c) == IF Auxiliary(p) THEN 0
                        ELSE Len(input.data[p]) - (IF Missing THEN null_num(p, c) ELSE 0)

LocalCount(p, c) == IF Auxiliary(p) THEN 0
                    ELSE IF Missing THEN Len(input.data[p]) - null_num(p, c) - abnormal_num(p, c)
                    ELSE Len(input.data[p])

-----------------------------------------------------------------------------
(* MAX and MIN: parties 0 and 1 compare, then the better one and party 2;  *)
(* the winner's value is shared and revealed.  The statistics compare      *)
(* negated values to find a maximum.                                       *)
ToCompare(p, c) == IF ~Missing /\ task.type = "MAX" THEN Wrap(-LocalExtreme(p, c))
                   ELSE LocalExtreme(p, c)
KeepsFirst(less) == IF Missing /\ task.type = "MAX" THEN ~less ELSE less

(* Mutant of First: party 1 is not told and keeps flag 0.                  *)
FirstUninformed(p) == IF p = 1 \/ KeepsFirst(Less(base[p] + 1)) THEN 0 ELSE 1

First(p)  == IF KeepsFirst(Less(base[p] + 1)) THEN 0 ELSE 1
Winner(p) == IF KeepsFirst(Less(base[p] + 3)) THEN First(p) ELSE 2

ExtremumOp(p, c, i) ==
  CASE i = 1 -> MPC_Compare(p, {0, 1}, ToCompare(p, c))
    [] i = 3 -> MPC_Compare(p, {First(p), 2}, ToCompare(p, c))
    [] i = 5 -> createShares(p, Winner(p), <<LocalExtreme(p, c)>>)
    [] OTHER -> revealAll(1)

(* Sums and averages: every party shares its part, the sum of the shares   *)
(* is revealed.  MissingProcess does so for each column, the statistics    *)
(* for all columns at once, first the sums, then the counts.               *)
Sums(p)   == [c \in Columns(p) |-> LocalSum(p, c)]
Counts(p) == [c \in Columns(p) |-> LocalCount(p, c)]
SumOp(p, c, i) ==
  IF Missing
  THEN IF i <= 3 THEN createShares(p, i - 1, <<LocalSum(p, c), LocalCount(p, c)>>) ELSE revealAll(2)
  ELSE CASE i \in 1..3 -> createShares(p, i - 1, Sums(p))
         [] i \in 4..6 -> createShares(p, i - 4, Counts(p))
         [] i \in 7..9 -> reveal(i - 7, Len(input.decl[p]))
         [] OTHER      -> reveal(i - 10, Len(input.decl[p]))

ColumnOps == IF Extremum THEN 6 ELSE IF Missing THEN 4 ELSE IF task.type = "SUM" THEN 9 ELSE 12
ColumnOp(p, c, i) == IF Extremum THEN ExtremumOp(p, c, i) ELSE SumOp(p, c, i)

(* Division of the code: towards zero.                                     *)
Quotient(a, b) == IF a < 0 THEN -((-a) \div b) ELSE a \div b
Total(p, from, j) == LET b == base[p] + from
                     IN  Wrap(Given(b)[j] + Given(b + 1)[j] + Given(b + 2)[j])

(* The figure a column ends with, as <<numerator, denominator>>.           *)
Figure(p) ==
  IF Extremum THEN <<Given(base[p] + 5)[1], 1>>
  ELSE IF Missing
  THEN IF input.decl[p][col[p]] = "int"
       THEN <<Quotient(Total(p, 1, 1), Total(p, 1, 2)), 1>>
       ELSE <<Total(p, 1, 1), Total(p, 1, 2)>>
  ELSE <<Total(p, 1, 1), IF task.type = "SUM" THEN 1 ELSE Total(p, 4, 1)>>

(* An integer division by a count of zero ends the process.                *)
DividesByZero(p) == /\ Missing /\ ~Extremum
                    /\ input.decl[p][col[p]] = "int" /\ Total(p, 1, 2) = 0

(* The new column is built of all chunks, and for each of them looked up   *)
(* which cells did not convert: past the chunks that were read there is no *)
(* entry.  What is found there is undefined; if it looks like none, a text *)
(* left in the column cannot be converted now.                             *)
Unread(p) == DOMAIN input.data[p] \ DOMAIN ReadPart(p, col[p])
Fatal(p)  == DividesByZero(p) \/ \E i \in Unread(p) : input.data[p][i].kind = "bad"

(* A new column in which the figure stands for every cell that was empty   *)
(* or did not convert.                                                     *)
replaceValue(p, figure) ==
  [i \in DOMAIN input.data[p] |->
     IF input.data[p][i].kind = "num" THEN <<input.data[p][i].v, 1>> ELSE figure]

-----------------------------------------------------------------------------
Enter(p, op) == log' = [log EXCEPT ![p] = Append(@, op)]
Ends(p, st)  == status' = [status EXCEPT ![p] = st]

(* Mutants of finishPartyComm: nobody waits; party 0, whose value it is,   *)
(* does not wait.                                                          *)
FinishAlone(p) == Ends(p, "done") /\ UNCHANGED <<log, col, base>>
FinishWithoutOwner(p) ==
  IF Missing /\ p # 0
  THEN /\ Enter(p, createShares(p, 0, <<1>>))
       /\ col' = [col EXCEPT ![p] = Len(input.decl[p]) + 1]
       /\ UNCHANGED <<status, base>>
  ELSE FinishAlone(p)

(* createShares in MissingProcess::finishPartyComm, the last thing before  *)
(* the new dataset is saved.  The statistics save at once, the auxiliary   *)
(* party has nothing to save.                                              *)
finishPartyComm(p) ==
  IF Auxiliary(p) THEN Ends(p, "done") /\ UNCHANGED <<log, col, base>>
  ELSE /\ IF Missing THEN Enter(p, createShares(p, 0, <<1>>)) ELSE UNCHANGED log
       /\ col' = [col EXCEPT ![p] = Len(input.decl[p]) + 1]
       /\ UNCHANGED <<status, base>>

(* Begin the first column after c, or finish.                              *)
StartColumn(p, c) ==
  IF Ahead(p, c) = {} THEN finishPartyComm(p)
  ELSE /\ col' = [col EXCEPT ![p] = Min(Ahead(p, c))]
       /\ base' = [base EXCEPT ![p] = Entered(p)]
       /\ Enter(p, ColumnOp(p, Min(Ahead(p, c)), 1))
       /\ UNCHANGED status

(* With an auxiliary party the two others are given the figures of their   *)
(* columns by the caller and no table: the cells stand for what it has     *)
(* computed them from.                                                     *)
Init ==
  /\ input \in Inputs
  /\ task \in [algo : {"missing", "statistics"}, type : {"MAX", "MIN", "AVG", "SUM"},
               aux : BOOLEAN, huge : {IntMin, IntMax}]
  /\ Missing => task.type # "SUM" /\ ~task.aux
  /\ task.type # "MIN" => task.huge = IntMax
  /\ ~Missing => \A p \in Parties : ~input.db[p]
  /\ task.aux => \A p \in Parties : AllGood(p) /\ input.data[p] # <<>>
  /\ log = [p \in Parties |-> <<>>] /\ col = [p \in Parties |-> 0]
  /\ base = [p \in Parties |-> 0]
  /\ result = [p \in Parties |-> <<>>] /\ table = [p \in Parties |-> <<>>]
  /\ status = [p \in Parties |-> "load"] /\ faults = 0

(* loadDataset of MissingProcess needs at least one row, and a connection  *)
(* string makes SQLiteDriver::read return no cursor.  For the statistics   *)
(* the CSV reader converts every cell and refuses the file if one fails.   *)
loadDataset(p) == IF Missing THEN input.data[p] # <<>> /\ ~input.db[p]
                  ELSE NumberOf("bad", input.data[p]) = 0

(* loadParams of the statistics refuses a column that is no number.        *)
loadParams(p) == ~Missing /\ ~Auxiliary(p) => "string" \notin Range(input.decl[p])

(* PlainTextDataCompute of the statistics needs every column asked for.    *)
PlainText(p) == ~Missing /\ ~Auxiliary(p) => Columns(p) \subseteq input.has[p]

CanLoad(p) == loadParams(p) /\ loadDataset(p) /\ PlainText(p)

(* do_nothing_: a party for which no column is checked succeeds at once.   *)
DoNothing(p) == ~Missing /\ Columns(p) = {}

Load(p) ==
  /\ status[p] = "load" /\ CanLoad(p) /\ ~DoNothing(p)
  /\ Ends(p, "run")
  /\ IF Missing
     THEN Enter(p, Op("cols", 3, 1, <<Len(input.decl[p])>>)) /\ UNCHANGED col
     ELSE Enter(p, ColumnOp(p, 1, 1)) /\ col' = [col EXCEPT ![p] = 1]
  /\ UNCHANGED <<task, input, base, result, table, faults>>

LoadEnds(p) ==
  /\ status[p] = "load"
  /\ \/ ~CanLoad(p) /\ Ends(p, "failed") /\ UNCHANGED faults
     \/ DoNothing(p) /\ Ends(p, "done") /\ UNCHANGED faults
     \/ faults < MaxFaults /\ Ends(p, "failed") /\ faults' = faults + 1
  /\ UNCHANGED <<task, input, log, col, base, result, table>>

(* The parties tell each other how many columns they have been given, and  *)
(* then of which types; each compares all three answers.                   *)
ExchangeCols(p) ==
  /\ Returns(p) /\ Current(p).kind = "cols"
  /\ IF \A q \in Parties : log[q][1].val = log[p][1].val
     THEN Enter(p, Op("dtypes", 3, Len(input.decl[p]), input.decl[p])) /\ UNCHANGED status
     ELSE Ends(p, "failed") /\ UNCHANGED log
  /\ UNCHANGED <<task, input, col, base, result, table, faults>>

(* Mutant of ExchangeDtypes: a party compares with its next one only.      *)
DtypesOfNext(p) ==
  /\ Returns(p) /\ Current(p).kind = "dtypes"
  /\ IF log[NextPartyId(p)][2].val = log[p][2].val
     THEN StartColumn(p, 0)
     ELSE Ends(p, "failed") /\ UNCHANGED <<log, col, base>>
  /\ UNCHANGED <<task, input, result, table, faults>>

ExchangeDtypes(p) ==
  /\ Returns(p) /\ Current(p).kind = "dtypes"
  /\ IF \A q \in Parties : log[q][2].val = log[p][2].val
     THEN StartColumn(p, 0)
     ELSE Ends(p, "failed") /\ UNCHANGED <<log, col, base>>
  /\ UNCHANGED <<task, input, result, table, faults>>

InColumn(p) == col[p] \in Columns(p)
OpsDone(p)  == Entered(p) - base[p]

NextOp(p) ==
  /\ Returns(p) /\ InColumn(p) /\ OpsDone(p) < ColumnOps
  /\ Enter(p, ColumnOp(p, col[p], OpsDone(p) + 1))
  /\ UNCHANGED <<task, input, col, base, result, table, status, faults>>

With(f, c, v) == [x \in DOMAIN f \cup {c} |-> IF x = c THEN v ELSE f[x]]

EndColumn(p) ==
  /\ Returns(p) /\ InColumn(p) /\ OpsDone(p) = ColumnOps /\ ~Fatal(p)
  /\ result' = [result EXCEPT ![p] = With(@, col[p], Figure(p))]
  /\ table' = IF Missing
              THEN [table EXCEPT ![p] = With(@, col[p], replaceValue(p, Figure(p)))]
              ELSE table
  /\ StartColumn(p, IF Missing \/ Extremum THEN col[p] ELSE Len(input.decl[p]))
  /\ UNCHANGED <<task, input, faults>>

Crash(p) ==
  /\ Returns(p) /\ InColumn(p) /\ OpsDone(p) = ColumnOps
  /\ Fatal(p) \/ Unread(p) # {}
  /\ Ends(p, "crashed")
  /\ UNCHANGED <<task, input, log, col, base, result, table, faults>>

(* saveModel writes the table and registers the new dataset.               *)
saveModel(p) ==
  /\ Returns(p) /\ col[p] > Len(input.decl[p])
  /\ \/ Ends(p, "done") /\ UNCHANGED faults
     \/ faults < MaxFaults /\ Ends(p, "failed") /\ faults' = faults + 1
  /\ UNCHANGED <<task, input, log, col, base, result, table>>

(* A party meets another operation than its own: nothing holds any more.   *)
Garbled(p) ==
  /\ status[p] = "run" /\ Met(p) /\ ~Matched(p)
  /\ Ends(p, "garbled")
  /\ UNCHANGED <<task, input, log, col, base, result, table, faults>>

Step(p) == \/ Load(p) \/ LoadEnds(p) \/ ExchangeCols(p) \/ ExchangeDtypes(p)
           \/ NextOp(p) \/ EndColumn(p) \/ Crash(p) \/ saveModel(p) \/ Garbled(p)

Next == \E p \in Parties : Step(p)

Spec == Init /\ [][Next]_vars /\ \A p \in Parties : WF_vars(Step(p))

-----------------------------------------------------------------------------
(* Every party runs through the columns its peers run through.             *)
Consistent ==
  IF Missing
  THEN \A p, q \in Parties : input.decl[p] = input.decl[q] => Ahead(p, 0) = Ahead(q, 0)
  ELSE \A p, q \in Parties : /\ Len(input.decl[p]) = Len(input.decl[q])
                             /\ loadParams(p) /\ PlainText(p)

(* Whatever the interleaving, the k-th operations of the parties are one   *)
(* operation, with one owner of a share and two sides of a comparison:     *)
(* the column loops of MissingProcess::execute and of the statistics never *)
(* get out of step while the parties' columns are consistent.              *)
Lockstep ==
  Consistent =>
    /\ \A p \in Parties : status[p] # "garbled"
    /\ \A p, q \in Parties :
         \A k \in 1..Min({Entered(p), Entered(q)}) : SameOp(log[p][k], log[q][k])
    /\ \A k \in 1..Min({Entered(p) : p \in Parties}) :
         /\ log[0][k].kind = "share" => Cardinality(Givers(k)) = 1
         /\ log[0][k].kind = "compare" => Cardinality(Givers(k)) = 2

(* The exchange at the start of MissingProcess::execute is decided alike   *)
(* everywhere: no party goes on to the columns while another has refused.  *)
ChecksAgree ==
  \A p, q \in Parties :
    (status[p] = "failed" /\ Entered(p) \in 1..2 /\ Current(p).kind \in {"cols", "dtypes"})
      => col[q] = 0

(* The figure over the parties' good cells, computed in the clear.         *)
AllCells == input.data[0] \o input.data[1] \o
            (IF task.aux THEN <<>> ELSE input.data[2])
AllValues == ValuesOf(AllCells)
Reference(t) ==
  IF Extremum THEN <<Extreme(AllValues), 1>>
  ELSE IF task.type = "SUM" THEN <<SumOf(AllCells), 1>>
  ELSE IF Missing /\ t = "int" THEN <<Quotient(SumOf(AllCells), Cardinality(Good(AllCells))), 1>>
  ELSE <<SumOf(AllCells), Cardinality(Good(AllCells))>>

(* When the code's start values and widths do no harm: a comparison, the   *)
(* sum and the count do not wrap, every party has a good cell for MAX and  *)
(* MIN, and a maximum that starts at DBL_MIN is not below it.              *)
FromDblMin(t) == task.type = "MAX" /\ (~Missing \/ t = "double")
InRange(t) ==
  /\ \A v \in AllValues : v > IntMin \div 2 /\ v < -(IntMin \div 2)
  /\ SumOf(AllCells) \in IntMin..IntMax /\ Cardinality(Good(AllCells)) <= IntMax
  /\ IF task.aux /\ Extremum THEN \A v \in AllValues : v >= 0
     ELSE /\ Extremum => \A p \in Parties : Values(p) # {}
          /\ FromDblMin(t) => \E v \in AllValues : v >= 0

(* The statistics count an empty cell and take it for 0, which a sum       *)
(* survives.  A column is read in part unless the file has one chunk, or   *)
(* its first column is not rebuilt before.                                 *)
NoEmptyCells == Missing \/ task.type = "SUM" \/ \A p \in Parties : AllGood(p)
ReadWhole(c) == \A p \in Parties : input.head[p] >= Len(input.data[p]) \/ ~Rebuilt(p, c)

(* What a party reveals for a column is the figure over all parties' good  *)
(* cells, and MissingProcess writes it into the cells that were empty or   *)
(* did not convert and into no other: two comparisons under a flag each    *)
(* party keeps, sums of shares, and counts without the bad cells.          *)
FigureRight ==
  \A p \in Parties : \A c \in DOMAIN result[p] :
    LET t == input.decl[p][c] IN
    Consistent /\ InRange(t) /\ NoEmptyCells /\ ReadWhole(c) =>
      /\ result[p][c] = Reference(t)
      /\ Missing => \A i \in DOMAIN input.data[p] :
           table[p][c][i] = IF input.data[p][i].kind # "num" THEN Reference(t)
                            ELSE <<input.data[p][i].v, 1>>

(* A party registers its new dataset only after the party before it has    *)
(* all its columns too, with the same values: what the share of            *)
(* finishPartyComm is for.                                                 *)
SavedTogether ==
  \A p \in Parties :
    Missing /\ Consistent /\ status[p] = "done" => result[PrevPartyId(p)] = result[p]

(* Every party comes to an end, if each can load its data and reads whole  *)
(* columns, and their columns are consistent: no party waits for an        *)
(* operation nobody enters, even when the exchange is refused.             *)
TaskEnds ==
  (Consistent /\ \A p \in Parties : loadDataset(p) /\ \A c \in Columns(p) : ReadWhole(c)) =>
     <>(faults > 0 \/ \A p \in Parties : status[p] \in {"done", "failed", "crashed"})
=============================================================================
