------------------------------- MODULE Express -------------------------------
(***************************************************************************)
(* The arithmetic MPC task of one party (algorithm/arithmetic.cc) and the  *)
(* executor it drives (executor/express.cc): an infix expression over the  *)
(* parties' columns is turned into a suffix expression, checked, given the *)
(* party's columns, evaluated token by token with MPC operations, and the  *)
(* result is revealed and saved; the local executor evaluates the same     *)
(* expression in the clear.  A token is the sequence of its characters, so *)
(* the name "(a+b)" the code gives an intermediate result is also the      *)
(* symbolic value of that result.                                          *)
(***************************************************************************)
EXTENDS Naturals, Sequences, FiniteSets, FiniteSetsExt, SequencesExt

CONSTANTS
  Cols,      \* column names of one character
  Adds,      \* operators of priority 1
  Muls,      \* operators of priority 2
  MaxAny,    \* every string of the alphabet up to this length is an input
  MaxLegal   \* and every legal expression up to this one

VARIABLES
  task,      \* the request, as this party sees it
  pc,        \* where the party is, or how it ended
  accepted,  \* checkExpress returned true (expr_ of the executor is set)
  suffix,    \* suffix_stk_, its top first
  fp64,      \* fp64_run_
  ints, dbls,\* columns with values in the party's int64 and double maps
  stk,       \* stk1 and val_stk of the evaluation, bottom first
  calls,     \* operations of the MPC operator made so far
  result,    \* the expression revealed
  saved,     \* the expression in the result file
  local      \* the expression evaluated by the local executor

vars == <<task, pc, accepted, suffix, fp64, ints, dbls, stk, calls, result, saved, local>>

ASSUME ExpressAssumption ==
  /\ "/" \in Muls /\ "-" \in Adds /\ Cols # {}
  /\ MaxAny \in Nat /\ MaxLegal \in Nat

Ops       == Adds \cup Muls
Alphabet  == Cols \cup Ops \cup {"(", ")"}
IsOp(tok) == \E o \in Ops : tok = <<o>>

-----------------------------------------------------------------------------
(* The reference: the usual grammar of expressions, with the symbolic      *)
(* value and the MPC operations of each.  An operand that is a column is   *)
(* shared when the operation on it runs.                                   *)
Leaf(c)  == [str |-> <<c>>, term |-> <<c>>, calls |-> <<>>]
Paren(e) == [e EXCEPT !.str = <<"(">> \o @ \o <<")">>]
Bracketed(a, op, b) == <<"(">> \o a \o op \o b \o <<")">>
Shares(tok) == IF Len(tok) = 1 THEN <<tok>> ELSE <<>>
Node(l, op, r) ==
  LET t == Bracketed(l.term, <<op>>, r.term)
  IN  [str   |-> l.str \o <<op>> \o r.str,
       term  |-> t,
       calls |-> l.calls \o r.calls \o Shares(l.term) \o Shares(r.term) \o <<t>>]

Joined(L, ops, R) == {Node(l, o, r) : l \in L, o \in ops, r \in R}

(* Sums, products and factors of n characters.                             *)
Grammar[n \in 1 .. MaxLegal] ==
  LET F == IF n = 1 THEN {Leaf(c) : c \in Cols}
           ELSE IF n = 2 THEN {} ELSE {Paren(e) : e \in Grammar[n - 2].sum}
      T == F \cup UNION {Joined(Grammar[k].product, Muls, Grammar[n - 1 - k].factor)
                           : k \in 1 .. n - 2}
      E == T \cup UNION {Joined(Grammar[k].sum, Adds, Grammar[n - 1 - k].product)
                           : k \in 1 .. n - 2}
  IN  [sum |-> E, product |-> T, factor |-> F]

Legal == UNION {Grammar[n].sum : n \in 1 .. MaxLegal}

-----------------------------------------------------------------------------
(* parseExpress.  Stacks hold their top last; a character is read after    *)
(* the characters before it.                                               *)
Priority(c) == IF c \in Muls THEN 2 ELSE IF c \in Adds THEN 1 ELSE 0
LastOr0(S)  == Max(S \cup {0})
Flushed(st) == IF st.temp = <<>> THEN st.out ELSE Append(st.out, st.temp)
(* The part of the operator stack above position k, as it is popped.       *)
Above(ops, k) == Reverse(SubSeq(ops, k + 1, Len(ops)))

(* Mutant of ReadOperator: operators of the same priority stay.            *)
ReadOperatorRight(st, c) ==
  LET k == LastOr0({j \in DOMAIN st.ops : \/ st.ops[j][1] = "("
                                          \/ Priority(c) >= Priority(st.ops[j][1])})
  IN  [st EXCEPT !.temp = <<>>, !.out = Flushed(st) \o Above(st.ops, k),
                 !.ops = Append(SubSeq(@, 1, k), <<c>>)]

ReadOperator(st, c) ==
  LET k == LastOr0({j \in DOMAIN st.ops : \/ st.ops[j][1] = "("
                                          \/ Priority(c) > Priority(st.ops[j][1])})
  IN  [st EXCEPT !.temp = <<>>, !.out = Flushed(st) \o Above(st.ops, k),
                 !.ops = Append(SubSeq(@, 1, k), <<c>>)]

(* The operand before a bracket ends only if an operator is popped here.   *)
ReadClose(st) ==
  LET k == LastOr0({j \in DOMAIN st.ops : st.ops[j][1] = "("})
      popped == Above(st.ops, k)
  IN  [st EXCEPT !.temp = IF popped = <<>> THEN @ ELSE <<>>,
                 !.out  = IF popped = <<>> THEN @ ELSE Flushed(st) \o popped,
                 !.ops  = SubSeq(@, 1, IF k = 0 THEN 0 ELSE k - 1)]

Scan(st, c) ==
  CASE c \in Ops -> ReadOperator(st, c)
    [] c = "("   -> [st EXCEPT !.ops = Append(@, <<c>>)]
    [] c = ")"   -> ReadClose(st)
    [] OTHER     -> [st EXCEPT !.temp = Append(@, c)]

(* A minus in front is a sign whose operand lasts until an operator, one   *)
(* after a bracket a sign whose operand lasts until the closing bracket.   *)
Sign(st, c)  == [st EXCEPT !.temp = Append(@, c)]
Until(st, c) == IF c = "-" /\ st.prev = "" THEN "operator"
                ELSE IF c = "-" /\ st.prev = "(" THEN "close" ELSE "char"
StillSign(st, c) == \/ st.until = "operator" /\ c \notin Ops
                    \/ st.until = "close" /\ c # ")"
Read(st, c) ==
  IF StillSign(st, c) THEN [Sign(st, c) EXCEPT !.prev = c]
  ELSE IF Until(st, c) # "char" THEN [Sign(st, c) EXCEPT !.prev = c, !.until = Until(st, c)]
  ELSE [Scan(st, c) EXCEPT !.prev = c, !.until = "char"]

(* A sign whose end never comes is read past the end of the string.        *)
parseExpress(ops, expr) ==
  LET end == FoldLeft(Read,
                      [temp |-> <<>>, out |-> <<>>, ops |-> ops, prev |-> "", until |-> "char"],
                      expr)
  IN  [overrun |-> end.until # "char", suffix |-> Flushed(end) \o Reverse(end.ops)]

Operands(s)  == SelectSeq(s, LAMBDA tok : ~IsOp(tok))
Operators(s) == SelectSeq(s, IsOp)
NoBracket(s) == \A j \in DOMAIN s : {"(", ")"} \cap ToSet(s[j]) = {}

(* Mutant of checkExpress: missing operators pass.                         *)
checkExpressLax(s) == NoBracket(s) /\ Len(Operands(s)) >= Len(Operators(s)) + 1
checkExpress(s)    == NoBracket(s) /\ Len(Operands(s)) = Len(Operators(s)) + 1

-----------------------------------------------------------------------------
(* The request, as party me sees it.  Of the owners of an expression's     *)
(* columns it matters only which are its own, so these have two parties; a *)
(* comparison has three.  The party's file holds its columns and may hold  *)
(* others.  Only for legal expressions it matters to whom the result is    *)
(* revealed and, if to this party and of integers, whether a double cannot *)
(* hold it (wide); only for comparisons, whether the two columns have the  *)
(* same length (even).  A token of two characters stands for every token   *)
(* that is no column, constants too.                                       *)
Parties == 0 .. 2
Dtypes  == [Cols -> {"I64", "FP64"}]
Strings == UNION {[1 .. n -> Alphabet] : n \in 0 .. MaxAny}
OwnedBy(owner, p)    == {c \in Cols : owner[c] = p}
LessThan(plus, minus) == plus \o <<"<">> \o minus
Arithmetic(expr, legal, term, ops) ==
  [cmp : {FALSE}, expr : {expr}, legal : {legal}, term : {term}, calls : {ops},
   me : {0}, owner : [Cols -> {0, 1}], file : SUBSET Cols, dtype : Dtypes,
   toMe : {TRUE, ~legal}, wide : {FALSE, legal}, even : {TRUE}]
Compare(c, d) ==
  [cmp : {TRUE}, expr : {<<c, d>>}, legal : {TRUE}, term : {LessThan(<<c>>, <<d>>)},
   calls : {<<>>}, me : Parties, owner : [Cols -> Parties], file : SUBSET Cols,
   dtype : Dtypes, toMe : BOOLEAN, wide : {FALSE}, even : BOOLEAN]
Requests == UNION {Arithmetic(e.str, TRUE, e.term, e.calls) : e \in Legal}
       \cup UNION {Arithmetic(s, FALSE, <<>>, <<>>) : s \in Strings \ {e.str : e \in Legal}}
       \cup UNION {Compare(x[1], x[2]) : x \in {d \in Cols \X Cols : d[1] # d[2]}}
Tasks == {t \in Requests : /\ OwnedBy(t.owner, t.me) \subseteq t.file
                           /\ t.wide => t.toMe /\ \A c \in Cols : t.dtype[c] = "I64"}
Local == OwnedBy(task.owner, task.me)

Init == /\ task \in Tasks
        /\ pc = "params" /\ accepted = FALSE /\ fp64 = FALSE
        /\ suffix = <<>> /\ stk = <<>> /\ calls = <<>>
        /\ ints = {} /\ dbls = {}
        /\ result = <<>> /\ saved = <<>> /\ local = <<>>

Goes(s)    == pc' = s
Evaluation == <<suffix, stk, calls>>
Outcome    == <<result, saved, local>>

(* The names of a comparison are cut from every expression: taking them    *)
(* from one of fewer than four characters throws.                          *)
loadParams ==
  /\ pc = "params"
  /\ Goes(IF task.cmp \/ Len(task.expr) >= 4 THEN "dataset" ELSE "failed")
  /\ UNCHANGED <<task, accepted, fp64, ints, dbls, Evaluation, Outcome>>

-----------------------------------------------------------------------------
(* loadDataset.  The file's columns of either type; with a column of       *)
(* doubles in the file only those are imported, and only local ones.       *)
OfType(d) == {c \in task.file : task.dtype[c] = d}
Imported  == Local \cap (IF OfType("FP64") # {} THEN OfType("FP64") ELSE OfType("I64"))
Resolved(s) == \A j \in DOMAIN Operands(s) : Len(Operands(s)[j]) = 1 /\ Operands(s)[j][1] \in Cols

(* Mutant of resolveRunMode: only the party's own columns are looked at.   *)
resolveOwnColumns(s) ==
  <<"/">> \in ToSet(s) \/ \E c \in Local : task.dtype[c] = "FP64"
resolveRunMode(s) ==
  <<"/">> \in ToSet(s) \/ \E c \in Cols : task.dtype[c] = "FP64"

(* The result of importExpress is not looked at.  A token that is no       *)
(* column, a constant too, throws.                                         *)
loadDataset ==
  LET p == parseExpress(<<>>, task.expr)
  IN  /\ pc = "dataset" /\ ~task.cmp
      /\ IF p.overrun THEN Goes("ub") /\ UNCHANGED <<accepted, suffix, fp64, ints, dbls>>
         ELSE /\ accepted' = checkExpress(p.suffix)
              /\ suffix' = p.suffix
              /\ IF Resolved(p.suffix)
                 THEN /\ fp64' = resolveRunMode(p.suffix)
                      /\ dbls' = IF fp64' THEN Imported ELSE {}
                      /\ ints' = IF fp64' THEN {} ELSE Imported
                      /\ Goes("evaluate")
                 ELSE Goes("thrown") /\ UNCHANGED <<fp64, ints, dbls>>
      /\ UNCHANGED <<task, stk, calls, Outcome>>

(* For a comparison the values stay in the executor's own maps; a column   *)
(* of integers is converted if the other one has doubles.                  *)
Mixed == task.dtype[task.expr[1]] # task.dtype[task.expr[2]]
ToConvert == {c \in ToSet(task.expr) \cap Local : Mixed /\ task.dtype[c] = "I64"}
loadCompareColumns ==
  /\ pc = "dataset" /\ task.cmp
  /\ fp64' = (\E c \in ToSet(task.expr) : task.dtype[c] = "FP64")
  /\ ints' = OfType("I64") \ ToConvert
  /\ dbls' = OfType("FP64") \cup ToConvert
  /\ Goes("compare")
  /\ UNCHANGED <<task, accepted, Evaluation, Outcome>>

-----------------------------------------------------------------------------
(* runMPCEvaluate.  A value is a column, local or not (types 0, 1 and 4),  *)
(* or the share of an intermediate result (types 5 and 6).                 *)
Fed == IF fp64 THEN dbls ELSE ints
Entry(tok, type) == [tok |-> tok, type |-> type]
NextIsOperand == suffix # <<>> /\ ~IsOp(Head(suffix))
NextIsOperator == suffix # <<>> /\ IsOp(Head(suffix))
Call(tok) == [of |-> tok, fp64 |-> fp64]
ShareOf(v) == IF v.type = "column" THEN <<Call(v.tok)>> ELSE <<>>

(* A local column without values ends the evaluation; its return code is   *)
(* ignored, and what is revealed is the value of a token that has none.    *)
createTokenValue ==
  /\ pc = "evaluate" /\ NextIsOperand
  /\ suffix' = Tail(suffix)
  /\ stk' = Append(stk, Entry(Head(suffix), "column"))
  /\ Goes(IF Head(suffix)[1] \in Local \ Fed THEN "ub" ELSE "evaluate")
  /\ UNCHANGED <<task, accepted, fp64, ints, dbls, calls, Outcome>>

(* BeforeMPCRun takes two values from a stack it does not check; a party   *)
(* without a column of its own makes matrices of 2^32 - 1 rows.            *)
runMPC ==
  LET n == Len(stk)
      new == Bracketed(stk[n - 1].tok, Head(suffix), stk[n].tok)
  IN  /\ pc = "evaluate" /\ NextIsOperator
      /\ IF n < 2 \/ Fed = {} THEN Goes("ub") /\ UNCHANGED Evaluation
         ELSE /\ calls' = calls \o ShareOf(stk[n - 1]) \o ShareOf(stk[n]) \o <<Call(new)>>
              /\ stk' = Append(SubSeq(stk, 1, n - 2), Entry(new, "share"))
              /\ suffix' = Tail(suffix)
              /\ UNCHANGED pc
      /\ UNCHANGED <<task, accepted, fp64, ints, dbls, Outcome>>

(* The tokens go back to suffix_stk_ with the first of them on top, which  *)
(* is revealed and popped.                                                 *)
Leftover(s) == [j \in DOMAIN Tail(s) |-> Tail(s)[j].tok]

revealMPCResult ==
  /\ pc = "evaluate" /\ suffix = <<>>
  /\ IF stk = <<>> \/ stk[1].type # "share"
     THEN Goes("ub") /\ UNCHANGED <<result, suffix>>
     ELSE Goes("save") /\ result' = stk[1].tok /\ suffix' = Leftover(stk)
  /\ UNCHANGED <<task, accepted, fp64, ints, dbls, stk, calls, saved, local>>

(* A comparison.  A party brings the first of the two columns it owns, if  *)
(* it owns one; unless two parties bring columns of the same length it     *)
(* fails everywhere.  Of the two that bring one the higher party negates   *)
(* its values, whichever comes first in the expression, and what is        *)
(* revealed is whether the sum of the two is negative.                     *)
Own(p) == SelectSeq(task.expr, LAMBDA c : task.owner[c] = p)
Brings(p) == IF Own(p) = <<>> \/ (p = task.me /\ Own(p)[1] \notin Fed) THEN <<>>
             ELSE <<Own(p)[1]>>
Providers == {p \in Parties : Brings(p) # <<>>}

Negates(p) == IF 2 \in Providers THEN p = 2 ELSE p = 1

Signed(neg) == FlattenSeq([i \in 1 .. 3 |-> IF Negates(i - 1) = neg THEN Brings(i - 1) ELSE <<>>])
runCompare ==
  /\ pc = "compare"
  /\ calls' = <<Call(Brings(task.me))>>
  /\ IF Cardinality(Providers) = 2 /\ task.even
     THEN Goes("save") /\ result' = LessThan(Signed(FALSE), Signed(TRUE))
     ELSE Goes("thrown") /\ UNCHANGED result
  /\ UNCHANGED <<task, accepted, suffix, fp64, ints, dbls, stk, saved, local>>

(* saveModel.  The file is filled with doubles also when the result has    *)
(* integers: one beyond 2^53 is rounded.  A write that fails fails the     *)
(* task.                                                                   *)
AsDoubles(expr) == IF task.wide /\ ~fp64 THEN <<"rounded">> \o expr ELSE expr
saveModel ==
  /\ pc = "save"
  /\ \/ Goes("done") /\ saved' = IF task.toMe THEN AsDoubles(result) ELSE saved
     \/ task.toMe /\ Goes("unsaved") /\ UNCHANGED saved
  /\ UNCHANGED <<task, accepted, fp64, ints, dbls, Evaluation, result, local>>

-----------------------------------------------------------------------------
(* Mutant of localCalculate: the operands in the order they are popped.    *)
localCalculateSwapped(a, op, b) == Bracketed(b, op, a)
localCalculate(a, op, b)        == Bracketed(a, op, b)

(* LocalExpressExecutor: the expression is parsed again, on what the first *)
(* evaluation has left in suffix_stk_, and all columns have values.  An    *)
(* expression that was refused is not kept.                                *)
startLocalEvaluate ==
  LET p == parseExpress(Reverse(suffix), task.expr)
  IN  /\ pc = "done" /\ accepted
      /\ suffix' = p.suffix /\ stk' = <<>>
      /\ Goes("local")
      /\ UNCHANGED <<task, accepted, fp64, ints, dbls, calls, Outcome>>

localOperand ==
  /\ pc = "local" /\ NextIsOperand
  /\ suffix' = Tail(suffix)
  /\ stk' = Append(stk, Entry(Head(suffix), "column"))
  /\ UNCHANGED <<task, pc, accepted, fp64, ints, dbls, calls, Outcome>>

localOperator ==
  LET n == Len(stk)
  IN  /\ pc = "local" /\ NextIsOperator
      /\ stk' = Append(SubSeq(stk, 1, n - 2),
                       Entry(localCalculate(stk[n - 1].tok, Head(suffix), stk[n].tok), "column"))
      /\ suffix' = Tail(suffix)
      /\ UNCHANGED <<task, pc, accepted, fp64, ints, dbls, calls, Outcome>>

endLocalEvaluate ==
  /\ pc = "local" /\ suffix = <<>>
  /\ local' = stk[1].tok
  /\ Goes("checked")
  /\ UNCHANGED <<task, accepted, fp64, ints, dbls, Evaluation, result, saved>>

Next == \/ loadParams \/ loadDataset \/ loadCompareColumns
        \/ createTokenValue \/ runMPC \/ revealMPCResult \/ runCompare \/ saveModel
        \/ startLocalEvaluate \/ localOperand \/ localOperator \/ endLocalEvaluate

Spec == Init /\ [][Next]_vars

-----------------------------------------------------------------------------
(* Requests the task is meant for: a legal expression of at least four     *)
(* characters and two operands, no file with columns of both types, and a  *)
(* local column; a comparison of columns of two parties and one length.    *)
OneType  == OfType("FP64") = {} \/ OfType("I64") = {}
TwoOwners == task.owner[task.expr[1]] # task.owner[task.expr[2]]
Possible == /\ task.legal
            /\ IF task.cmp THEN TwoOwners /\ task.even
               ELSE Len(task.expr) >= 4 /\ task.calls # <<>> /\ OneType /\ Local # {}

(* The requests whose answer the code gets right: the first column of a    *)
(* comparison is the lower party's, and the doubles of the result file     *)
(* hold the result.                                                        *)
OwnersInOrder == task.cmp => task.owner[task.expr[1]] < task.owner[task.expr[2]]
HeldByDoubles == task.wide => fp64

(* The column a party owns, and what a comparison has to reveal whichever  *)
(* column comes first: test/primihub/operator/cmp_op_test.cc expects of    *)
(* MPC_Compare whether the lower party's values are below the higher's.    *)
ColumnOf(p) == SelectSeq(task.expr, LAMBDA c : task.owner[c] = p)
ByParty == LET owners == {task.owner[c] : c \in ToSet(task.expr)}
           IN  LessThan(ColumnOf(Min(owners)), ColumnOf(Max(owners)))

(* A legal expression is accepted, is evaluated without a failure, and     *)
(* what is revealed and saved is its value: operators bind as usual and    *)
(* group to the left; CMP(a, b) is a < b if a's owner is the lower party.  *)
(* Whoever owns the columns of a comparison and whichever of the three     *)
(* parties brings none, exactly one of the two is negated, and the lower   *)
(* party is compared with the higher one.                                  *)
LegalRight == Possible =>
  /\ pc \notin {"failed", "thrown", "ub"}
  /\ pc = "evaluate" => accepted
  /\ pc \in {"save", "done"} => /\ OwnersInOrder => result = task.term
                                /\ task.cmp => result = ByParty
  /\ pc = "done" /\ task.toMe /\ OwnersInOrder /\ HeldByDoubles => saved = task.term

(* The MPC operations a party makes for a legal expression, and the type   *)
(* they are made in, depend on the expression and the columns' types and   *)
(* not on which columns are its own: all parties make the same ones.  In a *)
(* comparison it brings the values of its column.                          *)
Doubles  == IF task.cmp THEN \E c \in ToSet(task.expr) : task.dtype[c] = "FP64"
            ELSE "/" \in ToSet(task.expr) \/ \E c \in Cols : task.dtype[c] = "FP64"
AllCalls == LET ops == IF task.cmp THEN <<ColumnOf(task.me)>> ELSE task.calls
            IN  [j \in DOMAIN ops |-> [of |-> ops[j], fp64 |-> Doubles]]
CallsInStep == Possible =>
  /\ IsPrefix(calls, AllCalls)
  /\ pc \in {"save", "done"} => calls = AllCalls

(* Whatever string was accepted, a result that is revealed stands for the  *)
(* whole of it: no operand is left on the stack.                           *)
AcceptedIsWhole == accepted /\ pc = "save" => suffix = <<>> /\ Len(stk) = 1

(* The local executor, which starts on the stack the MPC evaluation leaves *)
(* behind, computes the expression that was revealed.                      *)
LocalAgrees == pc = "checked" => local = result
=============================================================================
