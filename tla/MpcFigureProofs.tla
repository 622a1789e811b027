-------------------------- MODULE MpcFigureProofs --------------------------
(***************************************************************************)
(* The figures of MpcTask are right for any number of cells and columns    *)
(* and any width of integers: what the comparisons, sums of shares and     *)
(* counts of the parties give is the figure over all their good cells.     *)
(***************************************************************************)
EXTENDS MpcTaskProofs

(* Half of the integers of W bits are negative.                            *)
Half == 2^(W - 1)
Small(v) == v \in Int /\ v > IntMin \div 2 /\ v < -(IntMin \div 2)

LEMMA HalfFacts ==
  /\ Half \in Nat /\ Half >= 2 /\ IntMin = -Half /\ IntMax = Half - 1
  /\ IntMin \in Int /\ IntMax \in Int
  /\ \A x : Wrap(x) = ((x - IntMin) % (2 * Half)) + IntMin
BY MpcAssumption DEF Half, IntMin, IntMax, Wrap

(* The remainder of a division is the one number of its range that differs *)
(* by a multiple.                                                          *)
LEMMA Remainder ==
  ASSUME NEW x \in Int, NEW m \in Nat, m > 0
  PROVE  /\ x % m \in 0..(m - 1)
         /\ \E k \in Int : x % m = x + k * m
<1>1. x = m * (x \div m) + (x % m) /\ 0 <= x % m /\ x % m < m /\ x \div m \in Int /\ x % m \in Int
  OBVIOUS
<1>2. x % m = x + (-(x \div m)) * m
  BY <1>1
<1>3. QED BY <1>1, <1>2

LEMMA OneMultiple ==
  ASSUME NEW m \in Nat, m > 0, NEW a \in 0..(m - 1), NEW b \in 0..(m - 1),
         NEW k \in Int, a = b + k * m
  PROVE  a = b
<1>1. CASE k >= 1
  <2>1. k * m >= m
    BY <1>1
  <2>2. QED BY <2>1
<1>2. CASE k <= -1
  <2>1. k * m <= -m
    BY <1>2
  <2>2. QED BY <2>1
<1>3. CASE k = 0
  BY <1>3
<1>4. QED BY <1>1, <1>2, <1>3

(* Wrapping adds a multiple of 2^W and ends in the range of integers.      *)
LEMMA WrapForm ==
  ASSUME NEW x \in Int
  PROVE  /\ Wrap(x) \in Int /\ Wrap(x) \in IntMin..IntMax
         /\ \E k \in Int : Wrap(x) = x + k * (2 * Half)
<1>0. /\ Half \in Nat /\ Half >= 2 /\ IntMin = -Half /\ IntMax = Half - 1
      /\ Wrap(x) = ((x - IntMin) % (2 * Half)) + IntMin
  BY HalfFacts
<1> DEFINE m == 2 * Half
           y == x - IntMin
<1>1. m \in Nat /\ m > 0 /\ y \in Int
  BY <1>0
<1> HIDE DEF m, y
<1>2. y % m \in 0..(m - 1)
  BY <1>1, Remainder
<1>3. PICK k \in Int : y % m = y + k * m
  BY <1>1, Remainder
<1>4. Wrap(x) = (y % m) + IntMin
  BY <1>0 DEF m, y
<1>5. Wrap(x) = x + k * m
  <2>1. k * m \in Int
    BY <1>1
  <2>2. QED BY <1>0, <1>3, <1>4, <2>1 DEF y
<1>6. Wrap(x) \in Int /\ Wrap(x) \in IntMin..IntMax
  BY <1>0, <1>1, <1>2, <1>4 DEF m
<1>7. QED BY <1>5, <1>6 DEF m

LEMMA WrapIs ==
  ASSUME NEW x \in Int, NEW y \in IntMin..IntMax, NEW k \in Int, y = x + k * (2 * Half)
  PROVE  Wrap(x) = y
<1>0. Half \in Nat /\ Half >= 2 /\ IntMin = -Half /\ IntMax = Half - 1
  BY HalfFacts
<1>1. PICK j \in Int : Wrap(x) = x + j * (2 * Half)
  BY WrapForm
<1>2. Wrap(x) \in Int /\ Wrap(x) \in IntMin..IntMax
  BY WrapForm
<1> DEFINE m == 2 * Half
           a == Wrap(x) + Half
           b == y + Half
<1>3. m \in Nat /\ m > 0 /\ a \in 0..(m - 1) /\ b \in 0..(m - 1)
  BY <1>0, <1>2
<1>4. a = b + (j - k) * m
  <2>1. m \in Int /\ Wrap(x) = x + j * m /\ y = x + k * m
    BY <1>1, <1>0
  <2> HIDE DEF m
  <2>2. (j - k) * m = j * m - k * m /\ j * m \in Int /\ k * m \in Int
    BY <2>1
  <2>3. QED BY <1>0, <1>2, <2>1, <2>2
<1> HIDE DEF m, a, b
<1>5. a = b
  BY <1>3, <1>4, OneMultiple
<1>6. QED BY <1>0, <1>2, <1>5 DEF a, b

(* A number in range is not changed.                                       *)
LEMMA WrapSame ==
  ASSUME NEW x \in IntMin..IntMax
  PROVE  Wrap(x) = x
<1>1. x \in Int /\ Half \in Int
  BY HalfFacts
<1>2. x = x + 0 * (2 * Half)
  BY <1>1
<1>3. QED BY <1>1, <1>2, WrapIs

(* The sum of wrapped parts is the sum, if that is in range.               *)
Wrapped(x, a) == a \in Int /\ x \in Int /\ x \in {a, Wrap(a)}
AddsTo(t, x, y, z) == t = x + y + z

LEMMA WrapSum ==
  ASSUME NEW a, NEW b, NEW c, NEW x, NEW y, NEW z, Wrapped(x, a), Wrapped(y, b), Wrapped(z, c),
         NEW s \in IntMin..IntMax, AddsTo(s, a, b, c), NEW t, AddsTo(t, x, y, z)
  PROVE  Wrap(t) = s
<1>0. Half \in Nat
  BY HalfFacts
<1> DEFINE m == 2 * Half
<1>1. m \in Int
  BY <1>0
<1>2. ASSUME NEW u \in Int, NEW w \in {u, Wrap(u)}
      PROVE  \E k \in Int : w = u + k * m
  <2>1. u = u + 0 * m
    BY <1>1
  <2>2. \E k \in Int : Wrap(u) = u + k * m
    BY WrapForm
  <2>3. QED BY <2>1, <2>2
<1> HIDE DEF m
<1> USE DEF Wrapped, AddsTo
<1>3. PICK i \in Int : x = a + i * m
  BY <1>2
<1>4. PICK j \in Int : y = b + j * m
  BY <1>2
<1>5. PICK k \in Int : z = c + k * m
  BY <1>2
<1>6. a + b + c = (x + y + z) + (-(i + j + k)) * m
  <2>1. (-(i + j + k)) * m = -(i * m) - j * m - k * m
    BY <1>1
  <2>2. i * m \in Int /\ j * m \in Int /\ k * m \in Int
    BY <1>1
  <2>3. QED BY <1>3, <1>4, <1>5, <2>1, <2>2
<1>7. x + y + z \in Int /\ -(i + j + k) \in Int
  OBVIOUS
<1>8. QED BY <1>6, <1>7, WrapIs DEF m

(* The sign of a difference tells the smaller of two small numbers.        *)
Differ(a, b) == Wrap(a + Wrap(-b)) < 0

LEMMA SmallFacts ==
  ASSUME NEW v, Small(v)
  PROVE  /\ v \in Int /\ v \in IntMin..IntMax /\ -v \in IntMin..IntMax
         /\ Small(-v) /\ 2 * v < Half /\ 2 * v > -Half /\ Wrap(-v) = -v
<1>0. Half \in Nat /\ Half >= 2 /\ IntMin = -Half /\ IntMax = Half - 1
  BY HalfFacts
<1>1. 2 * (IntMin \div 2) <= IntMin /\ IntMin < 2 * (IntMin \div 2) + 2 /\ IntMin \div 2 \in Int
  BY <1>0
<1>2. v \in Int /\ v > IntMin \div 2 /\ v < -(IntMin \div 2)
  BY DEF Small
<1>3. 2 * v < Half /\ 2 * v > -Half
  BY <1>0, <1>1, <1>2
<1>4. v \in IntMin..IntMax /\ -v \in IntMin..IntMax
  BY <1>0, <1>2, <1>3
<1>5. Wrap(-v) = -v
  BY <1>4, WrapSame
<1>6. Small(-v)
  BY <1>1, <1>2 DEF Small
<1>7. QED BY <1>2, <1>3, <1>4, <1>5, <1>6

LEMMA SmallZero == Small(0)
<1>0. Half \in Nat /\ Half >= 2 /\ IntMin = -Half
  BY HalfFacts
<1>1. IntMin \div 2 < 0 /\ IntMin \div 2 \in Int
  BY <1>0
<1>2. QED BY <1>1 DEF Small

LEMMA DifferSmall ==
  ASSUME NEW a, NEW b, Small(a), Small(b)
  PROVE  Differ(a, b) <=> a < b
<1>0. Half \in Nat /\ IntMin = -Half /\ IntMax = Half - 1
  BY HalfFacts
<1>1. a \in Int /\ 2 * a < Half /\ 2 * a > -Half
  BY SmallFacts
<1>2. b \in Int /\ 2 * b < Half /\ 2 * b > -Half /\ Wrap(-b) = -b
  BY SmallFacts
<1>3. a + (-b) \in IntMin..IntMax
  BY <1>0, <1>1, <1>2
<1>4. Wrap(a + (-b)) = a + (-b)
  BY <1>3, WrapSame
<1>5. QED BY <1>1, <1>2, <1>4 DEF Differ

(* The value of the auxiliary party is never the smaller one: DBL_MAX,     *)
(* converted to either extreme of the integers.                            *)
LEMMA DifferHuge ==
  ASSUME NEW a, Small(a), a >= 0, NEW h \in {IntMin, IntMax}
  PROVE  Differ(a, h)
<1>0. Half \in Nat /\ Half >= 2 /\ IntMin = -Half /\ IntMax = Half - 1
  BY HalfFacts
<1>1. a \in Int /\ 2 * a < Half /\ 2 * a > -Half
  BY SmallFacts
<1>2. CASE h = IntMax
  <2>1. -h \in IntMin..IntMax
    BY <1>0, <1>2
  <2>2. Wrap(-h) = -h
    BY <2>1, WrapSame
  <2>3. a + (-h) \in IntMin..IntMax /\ a + (-h) < 0
    BY <1>0, <1>1, <1>2
  <2>4. Wrap(a + (-h)) = a + (-h)
    BY <2>3, WrapSame
  <2>5. QED BY <2>2, <2>3, <2>4 DEF Differ
<1>3. CASE h = IntMin
  <2>1. IntMin = (-h) + (-1) * (2 * Half) /\ IntMin \in IntMin..IntMax /\ -h \in Int
    BY <1>0, <1>3
  <2>2. Wrap(-h) = IntMin
    BY <2>1, WrapIs
  <2>3. a + IntMin \in IntMin..IntMax /\ a + IntMin < 0
    BY <1>0, <1>1
  <2>4. Wrap(a + IntMin) = a + IntMin
    BY <2>3, WrapSame
  <2>5. QED BY <2>2, <2>3, <2>4 DEF Differ
<1>4. QED BY <1>2, <1>3

-----------------------------------------------------------------------------
(* A set of integers within bounds has a smallest and a greatest element.  *)
LEMMA BoundedMin ==
  ASSUME NEW S, NEW lo \in Int, S \subseteq Int, S # {}, \A x \in S : lo <= x
  PROVE  Min(S) \in S /\ \A y \in S : Min(S) <= y
<1> DEFINE T == {n \in Nat : lo + n \in S}
<1>1. T # {} /\ T \subseteq Nat
  <2>1. PICK x \in S : TRUE
    OBVIOUS
  <2>2. x - lo \in Nat /\ lo + (x - lo) = x
    OBVIOUS
  <2>3. QED BY <2>1, <2>2
<1>2. Min(T) \in T /\ \A n \in T : Min(T) <= n
  BY <1>1, LeastThere
<1>3. lo + Min(T) \in S
  BY <1>2
<1>4. \A y \in S : lo + Min(T) <= y
  <2>1. TAKE y \in S
  <2>2. y - lo \in Nat /\ lo + (y - lo) = y /\ y \in Int
    OBVIOUS
  <2>3. y - lo \in T
    BY <2>2
  <2>4. Min(T) <= y - lo /\ Min(T) \in Nat
    BY <1>2, <2>3
  <2> HIDE DEF T
  <2>5. QED BY <2>2, <2>4
<1> HIDE DEF T
<1>5. QED BY <1>3, <1>4 DEF Min

LEMMA BoundedMax ==
  ASSUME NEW S, NEW hi \in Int, S \subseteq Int, S # {}, \A x \in S : x <= hi
  PROVE  Max(S) \in S /\ \A y \in S : Max(S) >= y
<1> DEFINE T == {n \in Nat : hi - n \in S}
<1>1. T # {} /\ T \subseteq Nat
  <2>1. PICK x \in S : TRUE
    OBVIOUS
  <2>2. hi - x \in Nat /\ hi - (hi - x) = x
    OBVIOUS
  <2>3. QED BY <2>1, <2>2
<1>2. Min(T) \in T /\ \A n \in T : Min(T) <= n
  BY <1>1, LeastThere
<1>3. hi - Min(T) \in S
  BY <1>2
<1>4. \A y \in S : hi - Min(T) >= y
  <2>1. TAKE y \in S
  <2>2. hi - y \in Nat /\ hi - (hi - y) = y /\ y \in Int
    OBVIOUS
  <2>3. hi - y \in T
    BY <2>2
  <2>4. Min(T) <= hi - y /\ Min(T) \in Nat
    BY <1>2, <2>3
  <2> HIDE DEF T
  <2>5. QED BY <2>2, <2>4
<1> HIDE DEF T
<1>5. QED BY <1>3, <1>4 DEF Max

(* The extreme is the one element that no other beats.                     *)
Beats(v, w) == IF task.type = "MAX" THEN v >= w ELSE v <= w

LEMMA ExtremeIs ==
  ASSUME NEW S, S \subseteq Int, NEW v \in S, \A w \in S : Beats(v, w)
  PROVE  Extreme(S) = v
<1>1. CASE task.type = "MAX"
  <2>1. \A w \in S : v >= w
    BY <1>1 DEF Beats
  <2>2. Max(S) \in S /\ \A y \in S : Max(S) >= y
    BY <2>1 DEF Max
  <2> DEFINE m == Max(S)
  <2>s. m \in S /\ m >= v
    BY <2>2
  <2> HIDE DEF m
  <2>t. v >= m /\ m \in Int /\ v \in Int
    BY <2>1, <2>s
  <2>3. Max(S) = v
    BY <2>s, <2>t DEF m
  <2>4. QED BY <1>1, <2>3 DEF Extreme
<1>2. CASE task.type # "MAX"
  <2>1. \A w \in S : v <= w
    BY <1>2 DEF Beats
  <2>2. Min(S) \in S /\ \A y \in S : Min(S) <= y
    BY <2>1 DEF Min
  <2> DEFINE m == Min(S)
  <2>s. m \in S /\ m <= v
    BY <2>2
  <2> HIDE DEF m
  <2>t. v <= m /\ m \in Int /\ v \in Int
    BY <2>1, <2>s
  <2>3. Min(S) = v
    BY <2>s, <2>t DEF m
  <2>4. QED BY <1>2, <2>3 DEF Extreme
<1>3. QED BY <1>1, <1>2

LEMMA ExtremeThere ==
  ASSUME NEW S, S # {}, S \subseteq IntMin..IntMax
  PROVE  Extreme(S) \in S /\ \A w \in S : Beats(Extreme(S), w)
<1>1. IntMin \in Int /\ IntMax \in Int
  BY HalfFacts
<1>2. S \subseteq Int /\ \A x \in S : IntMin <= x /\ x <= IntMax
  BY <1>1
<1>3. Min(S) \in S /\ \A y \in S : Min(S) <= y
  BY <1>1, <1>2, BoundedMin
<1>4. Max(S) \in S /\ \A y \in S : Max(S) >= y
  BY <1>1, <1>2, BoundedMax
<1>5. QED BY <1>3, <1>4 DEF Extreme, Beats

-----------------------------------------------------------------------------
(* A column of cells, and the sum of its good ones as it runs.             *)
Cells3 == Seq([kind : {"num", "null", "bad"}, v : Int])
Runs(c, f) == /\ f \in [0..Len(c) -> Int] /\ f[0] = 0
              /\ \A n \in 1..Len(c) : f[n] = f[n - 1] + Worth(c[n])
Summed(c, f, N) == f = [n \in 0..N |-> IF n = 0 THEN 0 ELSE f[n - 1] + Worth(c[n])]

LEMMA LeastOf ==
  ASSUME NEW T, T \subseteq Nat, T # {}
  PROVE  \E n \in T : \A m \in T : n <= m
BY LeastThere

LEMMA CellFacts ==
  ASSUME NEW c \in Cells3
  PROVE  /\ Len(c) \in Nat /\ DOMAIN c = 1..Len(c)
         /\ \A n \in 1..Len(c) : /\ c[n].kind \in {"num", "null", "bad"} /\ c[n].v \in Int
                                 /\ Worth(c[n]) \in Int
<1>1. Len(c) \in Nat /\ DOMAIN c = 1..Len(c)
  BY LenProperties DEF Cells3
<1>2. \A n \in 1..Len(c) : c[n] \in [kind : {"num", "null", "bad"}, v : Int]
  BY ElementOfSeq DEF Cells3
<1>3. QED BY <1>1, <1>2 DEF Worth

(* The recursive function of SumOf exists: no length is the least for      *)
(* which it does not.                                                      *)
LEMMA SummedExists ==
  ASSUME NEW c
  PROVE  \A N \in Nat : \E f : Summed(c, f, N)
<1> DEFINE T == {N \in Nat : ~\E f : Summed(c, f, N)}
<1> SUFFICES ASSUME T # {} PROVE FALSE
  OBVIOUS
<1>1. PICK N \in T : \A m \in T : N <= m
  BY LeastOf
<1>2. Summed(c, [n \in 0..0 |-> 0], 0)
  BY DEF Summed
<1>3. N # 0
  BY <1>2
<1>4. N - 1 \in Nat /\ N - 1 \notin T
  BY <1>1, <1>3
<1>5. PICK f : Summed(c, f, N - 1)
  BY <1>4
<1> DEFINE g == [n \in 0..N |-> IF n = N THEN f[N - 1] + Worth(c[N]) ELSE f[n]]
<1>6. Summed(c, g, N)
  <2>1. \A n \in 0..(N - 1) : f[n] = IF n = 0 THEN 0 ELSE f[n - 1] + Worth(c[n])
    BY <1>5 DEF Summed
  <2>2. \A n \in 0..N : g[n] = IF n = 0 THEN 0 ELSE g[n - 1] + Worth(c[n])
    BY <2>1, <1>4
  <2>3. QED BY <2>2 DEF Summed
<1>7. QED BY <1>6

LEMMA SumRuns ==
  ASSUME NEW c \in Cells3
  PROVE  \E f : Runs(c, f) /\ SumOf(c) = f[Len(c)]
<1>0. /\ Len(c) \in Nat /\ \A n \in 1..Len(c) : Worth(c[n]) \in Int
  BY CellFacts
<1> DEFINE f == CHOOSE g : Summed(c, g, Len(c))
<1>1. SumOf(c) = f[Len(c)]
  BY DEF SumOf, Summed
<1>2. Summed(c, f, Len(c))
  BY <1>0, SummedExists
<1> HIDE DEF f
<1>3. f[0] = 0 /\ \A n \in 1..Len(c) : f[n] = f[n - 1] + Worth(c[n])
  BY <1>0, <1>2 DEF Summed
<1>4. DOMAIN f = 0..Len(c) /\ f = [n \in 0..Len(c) |-> f[n]]
  BY <1>2 DEF Summed
<1>5. \A n \in 0..Len(c) : f[n] \in Int
  <2> DEFINE T == {n \in 0..Len(c) : f[n] \notin Int}
  <2> SUFFICES ASSUME T # {} PROVE FALSE
    OBVIOUS
  <2>1. T \subseteq Nat
    BY <1>0
  <2>2. PICK n \in T : \A m \in T : n <= m
    BY <2>1, LeastOf
  <2>3. n # 0 /\ n \in Nat /\ n <= Len(c)
    BY <1>0, <1>3, <2>2
  <2>4. n - 1 \in 0..Len(c) /\ n - 1 \notin T /\ n \in 1..Len(c)
    BY <1>0, <2>2, <2>3
  <2>5. f[n - 1] \in Int
    BY <2>4
  <2>6. f[n] \in Int
    BY <1>0, <1>3, <2>4, <2>5
  <2>7. QED BY <2>2, <2>6
<1>6. Runs(c, f)
  BY <1>3, <1>4, <1>5 DEF Runs
<1>7. QED BY <1>1, <1>6

(* Two sums that grow by the same amounts end the same distance apart.     *)
Alike(f, o, g, N) ==
  /\ \A n \in 0..N : f[o + n] \in Int /\ g[n] \in Int
  /\ \A n \in 1..N : f[o + n] - f[o + (n - 1)] = g[n] - g[n - 1]

LEMMA RunAlike ==
  ASSUME NEW N \in Nat, NEW o \in Nat, NEW f, NEW g, Alike(f, o, g, N)
  PROVE  f[o + N] = f[o] + g[N] - g[0]
<1> USE DEF Alike
<1> DEFINE T == {n \in 0..N : f[o + n] # f[o] + g[n] - g[0]}
<1>0. f[o] \in Int /\ g[0] \in Int
  <2>1. 0 \in 0..N /\ o + 0 = o
    OBVIOUS
  <2>2. QED BY <2>1
<1>1. N \notin T
  <2> SUFFICES ASSUME T # {} PROVE FALSE
    OBVIOUS
  <2>1. T \subseteq Nat
    OBVIOUS
  <2>2. PICK n \in T : \A m \in T : n <= m
    BY <2>1, LeastOf
  <2>3. n # 0 /\ n \in Nat /\ n <= N
    <3>1. f[o + 0] = f[o] + g[0] - g[0]
      BY <1>0
    <3>2. QED BY <2>2, <3>1
  <2>4. n - 1 \in 0..N /\ n - 1 \notin T /\ n \in 1..N
    BY <2>2, <2>3
  <2>5. f[o + (n - 1)] = f[o] + g[n - 1] - g[0]
    BY <2>4
  <2>6. f[o + n] - f[o + (n - 1)] = g[n] - g[n - 1]
    BY <2>4
  <2>7. f[o + n] \in Int /\ g[n] \in Int /\ f[o + (n - 1)] \in Int /\ g[n - 1] \in Int
    BY <2>4
  <2>8. f[o + n] = f[o] + g[n] - g[0]
    BY <1>0, <2>5, <2>6, <2>7
  <2>9. QED BY <2>2, <2>8
<1>2. QED BY <1>1

(* One column after another.                                               *)
LEMMA Together ==
  ASSUME NEW c \in Cells3, NEW d \in Cells3
  PROVE  /\ c \o d \in Cells3 /\ Len(c \o d) = Len(c) + Len(d)
         /\ \A n \in 1..Len(c) : (c \o d)[n] = c[n]
         /\ \A n \in 1..Len(d) : (c \o d)[Len(c) + n] = d[n]
<1>1. /\ c \o d \in Cells3 /\ Len(c \o d) = Len(c) + Len(d)
      /\ \A i \in 1..(Len(c) + Len(d)) : (c \o d)[i] = IF i <= Len(c) THEN c[i] ELSE d[i - Len(c)]
  BY ConcatProperties DEF Cells3
<1>2. Len(c) \in Nat /\ Len(d) \in Nat
  BY CellFacts
<1>3. \A n \in 1..Len(c) : n \in 1..(Len(c) + Len(d)) /\ n <= Len(c)
  BY <1>2
<1>4. \A n \in 1..Len(d) : /\ Len(c) + n \in 1..(Len(c) + Len(d)) /\ ~(Len(c) + n <= Len(c))
                           /\ (Len(c) + n) - Len(c) = n
  BY <1>2
<1>5. QED BY <1>1, <1>3, <1>4

LEMMA SumTogether ==
  ASSUME NEW c \in Cells3, NEW d \in Cells3
  PROVE  SumOf(c \o d) = SumOf(c) + SumOf(d) /\ SumOf(c) \in Int /\ SumOf(d) \in Int
<1> DEFINE e == c \o d
<1>0. /\ e \in Cells3 /\ Len(e) = Len(c) + Len(d)
      /\ \A n \in 1..Len(c) : e[n] = c[n]
      /\ \A n \in 1..Len(d) : e[Len(c) + n] = d[n]
  BY Together
<1>1. /\ Len(c) \in Nat /\ Len(d) \in Nat
      /\ \A n \in 1..Len(c) : Worth(c[n]) \in Int
      /\ \A n \in 1..Len(d) : Worth(d[n]) \in Int
  BY CellFacts
<1> HIDE DEF e
<1>2. PICK f : Runs(c, f) /\ SumOf(c) = f[Len(c)]
  BY SumRuns
<1>3. PICK g : Runs(d, g) /\ SumOf(d) = g[Len(d)]
  BY SumRuns
<1>4. PICK h : Runs(e, h) /\ SumOf(e) = h[Len(e)]
  BY <1>0, SumRuns
<1>5. /\ \A n \in 0..Len(c) : f[n] \in Int
      /\ \A n \in 0..Len(d) : g[n] \in Int
      /\ \A n \in 0..(Len(c) + Len(d)) : h[n] \in Int
      /\ f[0] = 0 /\ g[0] = 0 /\ h[0] = 0
  BY <1>0, <1>2, <1>3, <1>4 DEF Runs
<1>6. h[Len(c)] = f[Len(c)]
  <2>1. \A n \in 0..Len(c) : h[0 + n] \in Int /\ f[n] \in Int
    BY <1>1, <1>5
  <2>2. \A n \in 1..Len(c) : h[0 + n] - h[0 + (n - 1)] = f[n] - f[n - 1]
    <3>1. TAKE n \in 1..Len(c)
    <3>2. f[n] = f[n - 1] + Worth(c[n])
      BY <1>2 DEF Runs
    <3>3. h[n] = h[n - 1] + Worth(c[n])
      <4>1. n \in 1..Len(e)
        BY <1>0, <1>1
      <4>2. h[n] = h[n - 1] + Worth(e[n])
        BY <1>4, <4>1 DEF Runs
      <4>3. QED BY <1>0, <4>2
    <3>4. f[n - 1] \in Int /\ h[n - 1] \in Int /\ 0 + n = n /\ 0 + (n - 1) = n - 1 /\ Worth(c[n]) \in Int
      BY <1>1, <1>5
    <3>5. QED BY <3>2, <3>3, <3>4
  <2>a. Alike(h, 0, f, Len(c))
    BY <2>1, <2>2 DEF Alike
  <2>3. h[0 + Len(c)] = h[0] + f[Len(c)] - f[0]
    BY <1>1, <2>a, RunAlike
  <2>4. QED BY <1>1, <1>5, <2>3
<1>7. h[Len(c) + Len(d)] = h[Len(c)] + g[Len(d)]
  <2>1. \A n \in 0..Len(d) : h[Len(c) + n] \in Int /\ g[n] \in Int
    <3>1. TAKE n \in 0..Len(d)
    <3>2. Len(c) + n \in 0..(Len(c) + Len(d))
      BY <1>1
    <3>3. QED BY <1>5, <3>2
  <2>2. \A n \in 1..Len(d) : h[Len(c) + n] - h[Len(c) + (n - 1)] = g[n] - g[n - 1]
    <3>1. TAKE n \in 1..Len(d)
    <3>2. g[n] = g[n - 1] + Worth(d[n])
      BY <1>3 DEF Runs
    <3>3. h[Len(c) + n] = h[Len(c) + (n - 1)] + Worth(d[n])
      <4>1. Len(c) + n \in 1..Len(e) /\ (Len(c) + n) - 1 = Len(c) + (n - 1)
        BY <1>0, <1>1
      <4>2. h[Len(c) + n] = h[(Len(c) + n) - 1] + Worth(e[Len(c) + n])
        BY <1>4, <4>1 DEF Runs
      <4>3. QED BY <1>0, <4>1, <4>2
    <3>4. n - 1 \in 0..Len(d) /\ Worth(d[n]) \in Int
      BY <1>1
    <3>5. g[n - 1] \in Int /\ h[Len(c) + (n - 1)] \in Int
      BY <2>1, <3>4
    <3>6. QED BY <3>2, <3>3, <3>4, <3>5
  <2>a. Alike(h, Len(c), g, Len(d))
    BY <2>1, <2>2 DEF Alike
  <2>3. h[Len(c) + Len(d)] = h[Len(c)] + g[Len(d)] - g[0]
    BY <1>1, <2>a, RunAlike
  <2>4. h[Len(c)] \in Int /\ g[Len(d)] \in Int
    BY <1>1, <1>5
  <2>5. QED BY <1>5, <2>3, <2>4
<1>8. SumOf(e) = h[Len(c) + Len(d)]
  BY <1>0, <1>4
<1>9. f[Len(c)] \in Int /\ g[Len(d)] \in Int
  BY <1>1, <1>5
<1>10. QED BY <1>2, <1>3, <1>6, <1>7, <1>8, <1>9 DEF e

LEMMA GoodFinite ==
  ASSUME NEW c \in Cells3, NEW S, S \subseteq DOMAIN c
  PROVE  IsFiniteSet(S) /\ Cardinality(S) \in Nat
<1>1. Len(c) \in Int /\ 1 \in Int /\ DOMAIN c = 1..Len(c)
  BY CellFacts
<1>2. IsFiniteSet(1..Len(c))
  BY <1>1, FS_Interval
<1>3. IsFiniteSet(S)
  BY <1>1, <1>2, FS_Subset
<1>4. QED BY <1>3, FS_CardinalityType

(* Disjoint finite sets add up.                                            *)
LEMMA CountApart ==
  ASSUME NEW S, NEW T, IsFiniteSet(S), IsFiniteSet(T), S \cap T = {}
  PROVE  IsFiniteSet(S \cup T) /\ Cardinality(S \cup T) = Cardinality(S) + Cardinality(T)
<1>1. Cardinality(S \cap T) = 0
  BY FS_EmptySet
<1>2. Cardinality(S \cup T) = Cardinality(S) + Cardinality(T) - Cardinality(S \cap T)
  BY FS_Union
<1>3. Cardinality(S) \in Nat /\ Cardinality(T) \in Nat /\ IsFiniteSet(S \cup T)
  BY FS_CardinalityType, FS_Union
<1>4. QED BY <1>1, <1>2, <1>3

LEMMA CountTogether ==
  ASSUME NEW c \in Cells3, NEW d \in Cells3
  PROVE  /\ Cardinality(Good(c \o d)) = Cardinality(Good(c)) + Cardinality(Good(d))
         /\ ValuesOf(c \o d) = ValuesOf(c) \cup ValuesOf(d)
<1> DEFINE e == c \o d
           S == {Len(c) + n : n \in Good(d)}
           shift == [n \in Good(d) |-> Len(c) + n]
<1>0. /\ e \in Cells3 /\ Len(e) = Len(c) + Len(d)
      /\ \A n \in 1..Len(c) : e[n] = c[n]
      /\ \A n \in 1..Len(d) : e[Len(c) + n] = d[n]
  BY Together
<1> HIDE DEF e
<1>1. /\ Len(c) \in Nat /\ Len(d) \in Nat /\ DOMAIN c = 1..Len(c) /\ DOMAIN d = 1..Len(d)
      /\ DOMAIN e = 1..(Len(c) + Len(d))
  BY <1>0, CellFacts
<1>2. Good(c) \subseteq 1..Len(c) /\ Good(d) \subseteq 1..Len(d)
  BY <1>1 DEF Good
<1>3. IsFiniteSet(Good(c)) /\ IsFiniteSet(Good(d))
  BY <1>1, <1>2, GoodFinite
<1>4. Good(e) = Good(c) \cup S
  <2>1. ASSUME NEW k \in Good(e) PROVE k \in Good(c) \cup S
    <3>1. k \in 1..(Len(c) + Len(d)) /\ e[k].kind = "num"
      BY <1>1, <2>1 DEF Good
    <3>2. CASE k <= Len(c)
      <4>1. k \in 1..Len(c)
        BY <1>1, <3>1, <3>2
      <4>2. QED BY <1>0, <1>1, <3>1, <4>1 DEF Good
    <3>3. CASE ~(k <= Len(c))
      <4>1. k - Len(c) \in 1..Len(d) /\ k = Len(c) + (k - Len(c))
        BY <1>1, <3>1, <3>3
      <4>2. d[k - Len(c)].kind = "num"
        BY <1>0, <3>1, <4>1
      <4>3. k - Len(c) \in Good(d)
        BY <1>1, <4>1, <4>2 DEF Good
      <4>4. QED BY <4>1, <4>3
    <3>4. QED BY <3>2, <3>3
  <2>2. ASSUME NEW k \in Good(c) PROVE k \in Good(e)
    <3>1. k \in 1..Len(c) /\ c[k].kind = "num"
      BY <1>2, <2>2 DEF Good
    <3>2. k \in DOMAIN e
      BY <1>1, <3>1
    <3>3. QED BY <1>0, <3>1, <3>2 DEF Good
  <2>3. ASSUME NEW n \in Good(d) PROVE Len(c) + n \in Good(e)
    <3>1. n \in 1..Len(d) /\ d[n].kind = "num"
      BY <1>2, <2>3 DEF Good
    <3>2. Len(c) + n \in DOMAIN e
      BY <1>1, <3>1
    <3>3. QED BY <1>0, <3>1, <3>2 DEF Good
  <2>4. QED BY <2>1, <2>2, <2>3
<1>5. shift \in Bijection(Good(d), S)
  <2>1. shift \in [Good(d) -> S]
    OBVIOUS
  <2>2. \A m, n \in Good(d) : shift[m] = shift[n] => m = n
    BY <1>1, <1>2
  <2>3. \A y \in S : \E n \in Good(d) : shift[n] = y
    OBVIOUS
  <2> HIDE DEF shift, S
  <2>4. QED BY <2>1, <2>2, <2>3 DEF Bijection, Injection, Surjection, IsInjective
<1>6. IsFiniteSet(S) /\ Cardinality(S) = Cardinality(Good(d))
  <2>1. ExistsBijection(Good(d), S)
    BY <1>5 DEF ExistsBijection
  <2> HIDE DEF S
  <2>2. QED BY <1>3, <2>1, FS_Bijection
<1>7. Good(c) \cap S = {}
  BY <1>1, <1>2
<1>8. Cardinality(Good(e)) = Cardinality(Good(c)) + Cardinality(Good(d))
  <2>1. Cardinality(Good(c) \cup S) = Cardinality(Good(c)) + Cardinality(S)
    BY <1>3, <1>6, <1>7, CountApart
  <2>2. QED BY <1>4, <1>6, <2>1
<1>9. ValuesOf(e) = ValuesOf(c) \cup ValuesOf(d)
  <2>1. \A k \in Good(c) : e[k] = c[k]
    BY <1>0, <1>2
  <2>2. \A n \in Good(d) : e[Len(c) + n] = d[n]
    BY <1>0, <1>2
  <2>3. QED BY <1>4, <2>1, <2>2 DEF ValuesOf
<1>10. QED BY <1>8, <1>9 DEF e

(* What is neither empty nor malformed is good.                            *)
LEMMA CountRest ==
  ASSUME NEW c \in Cells3
  PROVE  Len(c) - Cardinality({i \in DOMAIN c : c[i].kind = "null"})
                - Cardinality({i \in DOMAIN c : c[i].kind = "bad"}) = Cardinality(Good(c))
<1> DEFINE N == {i \in DOMAIN c : c[i].kind = "null"}
           B == {i \in DOMAIN c : c[i].kind = "bad"}
           G == Good(c)
<1>1. /\ Len(c) \in Nat /\ DOMAIN c = 1..Len(c)
      /\ \A n \in 1..Len(c) : c[n].kind \in {"num", "null", "bad"}
  BY CellFacts
<1>2. G \subseteq DOMAIN c /\ N \subseteq DOMAIN c /\ B \subseteq DOMAIN c
  BY DEF Good
<1>3. N \cup B \cup G = 1..Len(c) /\ N \cap B = {} /\ (N \cup B) \cap G = {}
  BY <1>1 DEF Good
<1> HIDE DEF N, B, G
<1>4. IsFiniteSet(N) /\ IsFiniteSet(B) /\ IsFiniteSet(G)
  BY <1>2, GoodFinite
<1>5. Cardinality(N) \in Nat /\ Cardinality(B) \in Nat /\ Cardinality(G) \in Nat
  BY <1>2, GoodFinite
<1>6. IsFiniteSet(N \cup B) /\ Cardinality(N \cup B) = Cardinality(N) + Cardinality(B)
  BY <1>3, <1>4, CountApart
<1>7. Cardinality((N \cup B) \cup G) = Cardinality(N \cup B) + Cardinality(G)
  BY <1>3, <1>4, <1>6, CountApart
<1>8. Cardinality(1..Len(c)) = Len(c)
  <2>1. 1 \in Int /\ Len(c) \in Int /\ (1 > Len(c) => Len(c) = 0) /\ (Len(c) - 1) + 1 = Len(c)
    BY <1>1
  <2>2. Cardinality(1..Len(c)) = IF 1 > Len(c) THEN 0 ELSE (Len(c) - 1) + 1
    BY <2>1, FS_Interval
  <2>3. QED BY <2>1, <2>2
<1>9. Len(c) = Cardinality(N) + Cardinality(B) + Cardinality(G)
  BY <1>3, <1>6, <1>7, <1>8
<1>10. Len(c) - Cardinality(N) - Cardinality(B) = Cardinality(G)
  BY <1>1, <1>5, <1>9
<1>11. QED BY <1>10 DEF N, B, G

LEMMA NoCells ==
  /\ <<>> \in Cells3 /\ SumOf(<<>>) = 0 /\ Cardinality(Good(<<>>)) = 0 /\ ValuesOf(<<>>) = {}
<1>1. <<>> \in Cells3 /\ Len(<<>>) = 0
  BY EmptySeq DEF Cells3
<1>2. PICK f : Runs(<<>>, f) /\ SumOf(<<>>) = f[Len(<<>>)]
  BY <1>1, SumRuns
<1>3. SumOf(<<>>) = 0
  BY <1>1, <1>2 DEF Runs
<1>4. DOMAIN <<>> = {}
  OBVIOUS
<1>5. Good(<<>>) = {}
  BY <1>4 DEF Good
<1>6. Cardinality(Good(<<>>)) = 0
  BY <1>5, FS_EmptySet
<1>7. ValuesOf(<<>>) = {}
  BY <1>5 DEF ValuesOf
<1>8. QED BY <1>1, <1>3, <1>6, <1>7

-----------------------------------------------------------------------------
(* An operation that has returned was met by everyone it receives from.    *)
PassedInv == \A p \in Parties : \A k \in 1..(Entered(p) - 1) :
  \A q \in Needs(p, log[p][k]) : Entered(q) >= k

(* Whoever has put a value into an operation has put in the right one.     *)
ValueInv == \A p \in Parties : \A c \in Visits(p), i \in 1..ColumnOps : \A b \in {Base(p, c)} :
  b + i <= Entered(p) => Puts(p, log[p][b + i], c, i)

(* With an auxiliary party the others come with figures of whole columns.  *)
InputInv == task.aux => \A p \in Parties : AllGood(p) /\ input.data[p] # <<>>

(* A rebuilt column for every figure.                                      *)
TableInv == /\ DOMAIN table = Parties
            /\ Missing => \A p \in Parties : DOMAIN table[p] = DOMAIN result[p]

FigureInv == PassedInv /\ ValueInv /\ InputInv /\ TableInv

LEMMA GrowsByOne ==
  ASSUME TypeInv, NEW p \in Parties, Step(p), NEW q \in Parties, Entered(q)' # Entered(q)
  PROVE  q = p /\ log'[p] # log[p] /\ Entered(p)' = Entered(p) + 1
<1>1. q = p
  BY LogGrows
<1>2. log'[p] # log[p]
  BY <1>1 DEF Entered
<1>3. PICK op : log'[p] = Append(log[p], op)
  BY <1>2, StepTouches
<1>4. Len(Append(log[p], op)) = Len(log[p]) + 1
  BY Appended DEF TypeInv
<1>5. QED BY <1>1, <1>2, <1>3, <1>4 DEF Entered

LEMMA StepPassed ==
  ASSUME TaskInv, PassedInv, NEW p \in Parties, Step(p)
  PROVE  PassedInv'
<1>0. TypeInv /\ PlaceInv /\ LogInv
  BY DEF TaskInv
<1>1. \A q \in Parties : /\ Entered(q) \in Nat /\ Entered(q)' \in Nat /\ Entered(q)' >= Entered(q)
                         /\ \A k \in 1..Entered(q) : log'[q][k] = log[q][k]
  BY <1>0, LogGrows
<1>2. ASSUME NEW q \in Parties, NEW k \in 1..(Entered(q)' - 1), NEW r \in Needs(q, log'[q][k])
      PROVE  Entered(r)' >= k
  <2>0. k \in Nat /\ k >= 1 /\ k <= Entered(q)' - 1
    BY <1>1
  <2>1. r \in Parties
    BY <1>2 DEF Needs, Parties, PrevPartyId
  <2>2. CASE k <= Entered(q) - 1
    <3>1. k \in 1..(Entered(q) - 1) /\ k \in 1..Entered(q)
      BY <1>1, <2>0, <2>2
    <3>2. r \in Needs(q, log[q][k])
      BY <1>1, <1>2, <3>1
    <3>3. Entered(r) >= k
      BY <3>1, <3>2 DEF PassedInv
    <3>4. QED BY <1>1, <2>0, <2>1, <3>3
  <2>3. CASE ~(k <= Entered(q) - 1)
    <3>1. Entered(q)' # Entered(q)
      BY <1>1, <2>0, <2>3
    <3>2. q = p /\ log'[p] # log[p] /\ Entered(p)' = Entered(p) + 1
      BY <1>0, <3>1, GrowsByOne
    <3>3. k = Entered(p) /\ Entered(p) >= 1
      BY <1>1, <2>0, <2>3, <3>2
    <3>4. Returns(p)
      BY <1>0, <3>2, <3>3, EntersAfter
    <3>5. r \in Needs(p, Current(p))
      <4>1. k \in 1..Entered(q)
        BY <1>1, <2>0, <3>2, <3>3
      <4>2. QED BY <1>1, <1>2, <3>2, <3>3, <4>1 DEF Current
    <3>6. Entered(r) >= Entered(p)
      BY <3>4, <3>5 DEF Returns, Met
    <3>7. QED BY <1>1, <2>1, <3>3, <3>6
  <2>4. QED BY <2>2, <2>3
<1>3. QED BY <1>2 DEF PassedInv

LEMMA ValueStays ==
  ASSUME task' = task, input' = input
  PROVE  \A p, c, i : ValueOf(p, c, i)' = ValueOf(p, c, i)
<1>1. Missing' = Missing /\ Extremum' = Extremum /\ \A p : Columns(p)' = Columns(p)
  BY ShapeStays
<1>2. \A p, c : Rebuilt(p, c)' = Rebuilt(p, c)
  BY <1>1 DEF Rebuilt, Ahead
<1>3. \A p, c : ReadPart(p, c)' = ReadPart(p, c)
  BY <1>1, <1>2 DEF ReadPart
<1>4. /\ \A p : Auxiliary(p)' = Auxiliary(p)
      /\ \A p, c : null_num(p, c)' = null_num(p, c) /\ abnormal_num(p, c)' = abnormal_num(p, c)
  BY <1>3 DEF Auxiliary, null_num, abnormal_num
<1>5. \A p, c : LocalSum(p, c)' = LocalSum(p, c) /\ LocalCount(p, c)' = LocalCount(p, c)
  BY <1>1, <1>3, <1>4 DEF LocalSum, LocalCount
<1>6. \A p : Sums(p)' = Sums(p) /\ Counts(p)' = Counts(p)
  BY <1>1, <1>5 DEF Sums, Counts
<1>7. \A p, c : ValuesRead(p, c)' = ValuesRead(p, c)
  BY <1>1, <1>3 DEF ValuesRead
<1>8. /\ \A S : Extreme(S)' = Extreme(S) /\ OrDblMax(S)' = OrDblMax(S)
      /\ \A t : Start(t)' = Start(t)
  BY DEF Extreme, OrDblMax, Start, DblMax
<1>9. \A p, c : LocalExtreme(p, c)' = LocalExtreme(p, c)
  BY <1>1, <1>4, <1>7, <1>8 DEF LocalExtreme
<1>10. \A p, c : ToCompare(p, c)' = ToCompare(p, c)
  BY <1>1, <1>9 DEF ToCompare
<1>11. QED BY <1>1, <1>5, <1>6, <1>9, <1>10 DEF ValueOf

LEMMA StepValue ==
  ASSUME TaskInv, ValueInv, NEW p \in Parties, Step(p)
  PROVE  ValueInv'
<1>0. TypeInv /\ PlaceInv /\ LogInv
  BY DEF TaskInv
<1>1. \A q \in Parties : /\ Entered(q) \in Nat /\ Entered(q)' \in Nat /\ Entered(q)' >= Entered(q)
                         /\ \A k \in 1..Entered(q) : log'[q][k] = log[q][k]
  BY <1>0, LogGrows
<1>2. task' = task /\ input' = input
  BY <1>0, StepTouches
<1>3. /\ ColumnOps' = ColumnOps /\ \A q : Visits(q)' = Visits(q)
      /\ \A q, c : Base(q, c)' = Base(q, c)
  BY <1>2, ShapeStays
<1>4. ASSUME NEW q \in Parties, NEW c \in Visits(q), NEW i \in 1..ColumnOps, NEW b \in {Base(q, c)},
             b + i <= Entered(q)', log'[q][b + i].val # <<>>
      PROVE  log'[q][b + i].val = ValueOf(q, c, i)
  <2>0. b \in Nat /\ i \in Nat /\ i >= 1 /\ b + i \in Nat
    BY <1>0, BaseType, OpsNumber
  <2>1. CASE b + i <= Entered(q)
    <3>1. b + i \in 1..Entered(q)
      BY <1>1, <2>0, <2>1
    <3>2. Puts(q, log[q][b + i], c, i)
      BY <2>1 DEF ValueInv
    <3>3. QED BY <1>1, <1>4, <3>1, <3>2 DEF Puts
  <2>2. CASE ~(b + i <= Entered(q))
    <3>1. Entered(q)' # Entered(q)
      BY <1>1, <1>4, <2>0, <2>2
    <3>2. q = p /\ log'[p] # log[p] /\ Entered(p)' = Entered(p) + 1
      BY <1>0, <3>1, GrowsByOne
    <3>3. b + i = Entered(p) + 1
      BY <1>1, <1>4, <2>0, <2>2, <3>2
    <3>4. Exchange \in Nat /\ b >= Exchange /\ (Missing => Exchange = 2)
      BY <1>0, BaseType DEF Exchange
    <3>5. ~Stays(p) /\ ~Leaves(p)
      BY <3>2 DEF Stays, Leaves
    <3>6. ~Tells(p)
      <4>1. Tells(p) => Missing /\ Entered(p) \in {0, 1}
        BY DEF Tells
      <4>2. QED BY <1>1, <2>0, <3>3, <3>4, <4>1
    <3>7. ~Closes(p)
      <4>1. SUFFICES ASSUME Missing, Entered(p) = Base(p, AtEnd(p)) PROVE FALSE
        BY DEF Closes
      <4>2. c < AtEnd(p) /\ AtEnd(p) \in Nat /\ c \in Visits(p)
        BY <1>0, <3>2, <4>1, PartyFacts DEF AtEnd
      <4>3. Base(p, AtEnd(p)) >= Base(p, c) + ColumnOps /\ Base(p, AtEnd(p)) \in Nat
        BY <1>0, <4>2, BaseApart, BaseType
      <4>4. i <= ColumnOps /\ ColumnOps \in Nat
        BY OpsNumber
      <4>5. QED BY <2>0, <3>2, <3>3, <4>1, <4>3, <4>4
    <3>8. Works(p)
      BY <1>0, <3>5, <3>6, <3>7, Moves
    <3>9. PICK d \in Visits(p), j \in 1..ColumnOps, op \in Range(log'[p]) :
             /\ Entered(p) + 1 = Base(p, d) + j /\ log'[p] = Append(log[p], op)
             /\ Puts(p, op, d, j)
      BY <3>8 DEF Works
    <3>10. d = c /\ j = i
      <4>1. c \in Visits(p) /\ Base(p, c) + i = Base(p, d) + j
        BY <3>2, <3>3, <3>9
      <4>2. QED BY <1>0, <4>1, PlaceOnce
    <3>11. log'[p][Entered(p) + 1] = op
      BY <1>0, <3>9, Appended DEF TypeInv, Entered
    <3>12. QED BY <1>4, <3>2, <3>3, <3>9, <3>10, <3>11 DEF Puts
  <2>3. QED BY <2>1, <2>2
<1>5. \A q, c, i : ValueOf(q, c, i)' = ValueOf(q, c, i)
  BY <1>2, ValueStays
<1>6. ASSUME NEW q \in Parties, NEW c \in Visits(q), NEW i \in 1..ColumnOps, NEW b \in {Base(q, c)},
             b + i <= Entered(q)'
      PROVE  Puts(q, log[q][b + i], c, i)'
  BY <1>4, <1>5, <1>6 DEF Puts
<1>7. QED BY <1>3, <1>6 DEF ValueInv

(* Only the end of a column writes figures.                                *)
LEMMA Writes ==
  ASSUME NEW p \in Parties, Step(p)
  PROVE  (result' = result /\ table' = table) \/ EndColumn(p)
BY DEF Step, Load, LoadEnds, ExchangeCols, ExchangeDtypes, NextOp, Crash, saveModel, Garbled

LEMMA StepFigureInv ==
  ASSUME TaskInv, FigureInv, NEW p \in Parties, Step(p)
  PROVE  FigureInv'
<1>1. PassedInv' /\ ValueInv'
  BY StepPassed, StepValue DEF FigureInv
<1>2. task' = task /\ input' = input
  BY StepTouches DEF TaskInv
<1>3. InputInv'
  BY <1>2 DEF FigureInv, InputInv, AllGood
<1>4. TableInv'
  <2>0. DOMAIN result = Parties /\ DOMAIN table = Parties /\ TableInv
    BY DEF FigureInv, TableInv, TaskInv, TypeInv
  <2>1. CASE result' = result /\ table' = table
    BY <1>2, <2>0, <2>1 DEF TableInv, Missing
  <2>2. CASE EndColumn(p)
    <3>1. /\ result' = [result EXCEPT ![p] = With(result[p], col[p], Figure(p))]
          /\ table' = IF Missing
                      THEN [table EXCEPT ![p] = With(table[p], col[p], replaceValue(p, Figure(p)))]
                      ELSE table
      BY <2>2 DEF EndColumn
    <3>3. DOMAIN table' = Parties
      BY <2>0, <3>1
    <3>4. ASSUME Missing, NEW q \in Parties PROVE DOMAIN table'[q] = DOMAIN result'[q]
      <4>1. DOMAIN table[q] = DOMAIN result[q]
        BY <2>0, <3>4 DEF TableInv
      <4>2. CASE q # p
        BY <2>0, <3>1, <3>4, <4>1, <4>2
      <4>3. CASE q = p
        <5>1. /\ result'[p] = With(result[p], col[p], Figure(p))
              /\ table'[p] = With(table[p], col[p], replaceValue(p, Figure(p)))
          BY <2>0, <3>1, <3>4
        <5>2. DOMAIN result'[p] = DOMAIN result[p] \cup {col[p]}
          BY <5>1 DEF With
        <5>3. DOMAIN table'[p] = DOMAIN table[p] \cup {col[p]}
          BY <5>1 DEF With
        <5>4. QED BY <4>1, <4>3, <5>2, <5>3
      <4>4. QED BY <4>2, <4>3
    <3>5. QED BY <1>2, <3>3, <3>4 DEF TableInv, Missing
  <2>3. QED BY <2>1, <2>2, Writes
<1>5. QED BY <1>1, <1>3, <1>4 DEF FigureInv

LEMMA InitFigureInv == Init => FigureInv
<1> SUFFICES ASSUME Init PROVE FigureInv
  OBVIOUS
<1>1. InputInv
  BY DEF Init, InputInv
<1>2. \A p \in Parties : Entered(p) = 0
  BY DEF Init, Entered
<1>3. PassedInv
  BY <1>2 DEF PassedInv
<1>4. TypeInv
  BY InitType
<1>5. \A p \in Parties : \A c : Base(p, c) \in Nat
  BY <1>4, BaseType
<1>6. ValueInv
  BY <1>2, <1>5, OpsNumber DEF ValueInv
<1>7. TableInv
  BY DEF Init, TableInv
<1>8. QED BY <1>1, <1>3, <1>6, <1>7 DEF FigureInv

-----------------------------------------------------------------------------
(* A party at the end of a column, all operations of it returned.          *)
ColumnOver(p) == AtColumn(p) /\ Returns(p) /\ Entered(p) = base[p] + ColumnOps
Shared    == IF Extremum THEN 5 ELSE IF Missing THEN 3 ELSE 6

LEMMA ColumnFacts ==
  ASSUME TaskInv, Consistent, NEW p \in Parties, ColumnOver(p), NEW q \in Parties
  PROVE  /\ base[p] = Base(q, col[p]) /\ base[p] \in Nat /\ col[p] \in Visits(q)
         /\ \A i \in 1..ColumnOps : base[p] + i <= Entered(q) => Right(q, base[p], i)
<1>0. TypeInv /\ PlaceInv /\ LogInv /\ ColumnOps \in {4, 6, 9, 12} /\ Exchange \in {0, 2}
  BY OpsNumber DEF TaskInv
<1>1. base[p] = Base(p, col[p]) /\ col[p] \in Visits(p) /\ Entered(p) = base[p] + ColumnOps
  BY DEF ColumnOver, AtColumn
<1>2. base[p] \in Nat /\ base[p] >= Exchange /\ Entered(p) \in Nat
  BY <1>0, <1>1, BaseType, PartyFacts
<1>3. Entered(p) > Exchange
  BY <1>0, <1>1, <1>2
<1>4. Visits(p) = Visits(q) /\ \A c : Base(p, c) = Base(q, c)
  BY <1>2, <1>3, PastExchange
<1>5. base[p] = Base(q, col[p]) /\ col[p] \in Visits(q)
  BY <1>1, <1>4
<1>6. ColumnLog(q)
  BY <1>0 DEF LogInv
<1>7. \A i \in 1..ColumnOps : base[p] + i <= Entered(q) => Right(q, base[p], i)
  BY <1>5, <1>6 DEF ColumnLog
<1>8. QED BY <1>2, <1>5, <1>7

LEMMA PrevParty ==
  ASSUME NEW p \in Parties
  PROVE  /\ PrevPartyId(p) \in Parties
         /\ Parties = {p, PrevPartyId(p), PrevPartyId(PrevPartyId(p))}
<1>1. p = 0 \/ p = 1 \/ p = 2
  BY DEF Parties
<1>2. PrevPartyId(0) = 2 /\ PrevPartyId(1) = 0 /\ PrevPartyId(2) = 1
  BY DEF PrevPartyId
<1>3. Parties = {0, 1, 2}
  BY DEF Parties
<1>4. CASE p = 0
  BY <1>2, <1>3, <1>4
<1>5. CASE p = 1
  BY <1>2, <1>3, <1>5
<1>6. CASE p = 2
  BY <1>2, <1>3, <1>6
<1>7. QED BY <1>1, <1>4, <1>5, <1>6

(* Everyone has put in what the column's figure is made of: the reveal to  *)
(* p waited for the party before, which had waited for the one before it.  *)
LEMMA AllShared ==
  ASSUME TaskInv, PassedInv, Consistent, NEW p \in Parties, ColumnOver(p)
  PROVE  \A q \in Parties : Entered(q) >= base[p] + Shared
<1> DEFINE b == base[p]
           q == PrevPartyId(p)
           o == PrevPartyId(q)
           r == IF Extremum THEN 6 ELSE IF Missing THEN 4 ELSE 7 + p
<1>0. TypeInv /\ LogInv /\ ColumnOps \in {4, 6, 9, 12}
  BY OpsNumber DEF TaskInv
<1>1. q \in Parties /\ o \in Parties /\ Parties = {p, q, o}
  BY PrevParty
<1>2. \A x \in Parties : Entered(x) \in Nat
  BY <1>0, PartyFacts
<1>3. p \in Nat /\ p <= 2
  BY DEF Parties
<1>4. /\ b \in Nat /\ Entered(p) = b + ColumnOps
      /\ Shared \in 1..ColumnOps /\ r \in 1..ColumnOps /\ Shared < r
  <2>1. b \in Nat /\ Entered(p) = b + ColumnOps
    BY ColumnFacts DEF ColumnOver
  <2>2. /\ Extremum => ColumnOps = 6
        /\ ~Extremum /\ Missing => ColumnOps = 4
        /\ ~Extremum /\ ~Missing => ColumnOps \in {9, 12}
    BY DEF ColumnOps
  <2>3. QED BY <1>3, <2>1, <2>2 DEF Shared
<1> HIDE DEF b, r
<1>5. Right(p, b, r)
  <2>1. b + r <= Entered(p)
    BY <1>0, <1>4
  <2>2. QED BY <1>4, <2>1, ColumnFacts DEF b
<1>6. KindAt(r) = "reveal" /\ ToAt(r) \in {p, 3}
  BY <1>3 DEF KindAt, ToAt, r
<1>7. q \in Needs(p, log[p][b + r])
  BY <1>5, <1>6 DEF Right, Needs
<1>8. Entered(q) >= b + r
  <2>1. CASE r = ColumnOps
    <3>1. log[p][b + r] = Current(p)
      BY <1>4, <2>1 DEF Current
    <3>2. QED BY <1>4, <1>7, <2>1, <3>1 DEF ColumnOver, Returns, Met
  <2>2. CASE r # ColumnOps
    <3>1. b + r \in 1..(Entered(p) - 1)
      BY <1>0, <1>4, <2>2
    <3>2. QED BY <1>7, <3>1 DEF PassedInv
  <2>3. QED BY <2>1, <2>2
<1>9. b + Shared \in 1..(Entered(q) - 1) /\ b + Shared <= Entered(q)
  BY <1>0, <1>1, <1>2, <1>4, <1>8
<1>10. Right(q, b, Shared)
  BY <1>1, <1>4, <1>9, ColumnFacts DEF b
<1>11. KindAt(Shared) = "share"
  BY DEF KindAt, Shared
<1>12. o \in Needs(q, log[q][b + Shared])
  BY <1>10, <1>11 DEF Right, Needs
<1>13. Entered(o) >= b + Shared
  BY <1>1, <1>9, <1>12 DEF PassedInv
<1>14. QED BY <1>0, <1>1, <1>2, <1>4, <1>9, <1>13 DEF b

(* What an operation of the column was given.                              *)
LEMMA GivenIs ==
  ASSUME TaskInv, FigureInv, Consistent, NEW p \in Parties, ColumnOver(p),
         NEW i \in 1..Shared
  PROVE  /\ Givers(base[p] + i) = Bring(base[p], i)
         /\ \A q \in Bring(base[p], i) \cap Parties :
              log[q][base[p] + i].val = ValueOf(q, col[p], i)
<1> DEFINE b == base[p]
<1>0. /\ TypeInv /\ ColumnOps \in {4, 6, 9, 12} /\ PassedInv /\ ValueInv
      /\ \A q \in Parties : Entered(q) \in Nat
  BY OpsNumber, PartyFacts DEF TaskInv, FigureInv
<1>1. \A q \in Parties : Entered(q) >= b + Shared
  BY <1>0, AllShared
<1>2. i \in 1..ColumnOps /\ i \in Nat /\ Shared \in Nat /\ i <= Shared
  BY DEF Shared, ColumnOps
<1>3. b \in Nat /\ b = Base(p, col[p]) /\ col[p] \in Visits(p)
  BY ColumnFacts
<1>4. \A q \in Parties : Entered(q) >= b + i
  BY <1>0, <1>1, <1>2, <1>3
<1>5. Givers(b + i) = Bring(b, i)
  BY <1>2, <1>3, <1>4, GiversRight
<1>6. ASSUME NEW q \in Bring(b, i) \cap Parties
      PROVE  log[q][b + i].val = ValueOf(q, col[p], i)
  <2>1. log[q][b + i].val # <<>>
    BY <1>5, <1>6 DEF Givers
  <2>2. b = Base(q, col[p]) /\ col[p] \in Visits(q)
    BY ColumnFacts
  <2>3. Puts(q, log[q][b + i], col[p], i)
    BY <1>0, <1>2, <1>4, <2>2 DEF ValueInv
  <2>4. QED BY <2>1, <2>3 DEF Puts
<1>7. QED BY <1>5, <1>6

LEMMA GivenByOne ==
  ASSUME TaskInv, FigureInv, Consistent, NEW p \in Parties, ColumnOver(p),
         NEW i \in 1..Shared, NEW q \in Parties, Bring(base[p], i) = {q}
  PROVE  Given(base[p] + i) = ValueOf(q, col[p], i)
<1>1. Givers(base[p] + i) = {q} /\ log[q][base[p] + i].val = ValueOf(q, col[p], i)
  BY GivenIs
<1>2. (CHOOSE x \in {q} : TRUE) = q
  OBVIOUS
<1>3. QED BY <1>1, <1>2 DEF Given

LEMMA LessIs ==
  ASSUME TaskInv, FigureInv, Consistent, NEW p \in Parties, ColumnOver(p), Extremum,
         NEW i \in {1, 3}, NEW x \in Parties, NEW y \in Parties, x < y, Bring(base[p], i) = {x, y}
  PROVE  Less(base[p] + i) = Differ(ToCompare(x, col[p]), ToCompare(y, col[p]))
<1>0. i \in 1..Shared
  BY DEF Shared
<1>1. /\ Givers(base[p] + i) = {x, y}
      /\ log[x][base[p] + i].val = ValueOf(x, col[p], i)
      /\ log[y][base[p] + i].val = ValueOf(y, col[p], i)
  BY <1>0, GivenIs
<1>2. /\ ValueOf(x, col[p], i) = <<ToCompare(x, col[p])>>
      /\ ValueOf(y, col[p], i) = <<ToCompare(y, col[p])>>
  BY DEF ValueOf
<1>3. Min({x, y}) = x /\ Max({x, y}) = y
  <2>1. x \in Int /\ y \in Int
    BY DEF Parties
  <2>2. QED BY <2>1 DEF Min, Max
<1> DEFINE v == log[x][base[p] + i].val[1]
           w == log[y][base[p] + i].val[1]
<1>4. Less(base[p] + i) = (Wrap(v + Wrap(-w)) < 0)
  BY <1>1, <1>3 DEF Less
<1>5. v = ToCompare(x, col[p]) /\ w = ToCompare(y, col[p])
  BY <1>1, <1>2
<1> HIDE DEF v, w
<1>6. QED BY <1>4, <1>5 DEF Differ

-----------------------------------------------------------------------------
(* Sums and counts over all parties' cells.                                *)
PartOf(q) == IF Auxiliary(q) THEN <<>> ELSE input.data[q]

LEMMA PartFacts ==
  ASSUME TypeInv, NEW q \in Parties
  PROVE  /\ input.data[q] \in Cells3 /\ PartOf(q) \in Cells3
         /\ SumOf(PartOf(q)) \in Int /\ Cardinality(Good(PartOf(q))) \in Nat
<1>1. input.data[q] \in Cells3
  BY MpcAssumption DEF TypeInv, Cells3
<1>2. PartOf(q) \in Cells3
  BY <1>1, NoCells DEF PartOf
<1>3. SumOf(PartOf(q)) \in Int
  BY <1>2, SumTogether
<1>4. Good(PartOf(q)) \subseteq DOMAIN PartOf(q)
  BY DEF Good
<1>5. Cardinality(Good(PartOf(q))) \in Nat
  BY <1>2, <1>4, GoodFinite
<1>6. QED BY <1>1, <1>2, <1>3, <1>5

LEMMA AllParts ==
  ASSUME TypeInv
  PROVE  /\ SumOf(AllCells) = SumOf(PartOf(0)) + SumOf(PartOf(1)) + SumOf(PartOf(2))
         /\ Cardinality(Good(AllCells)) = Cardinality(Good(PartOf(0))) + Cardinality(Good(PartOf(1)))
                                            + Cardinality(Good(PartOf(2)))
         /\ AllValues = ValuesOf(PartOf(0)) \cup ValuesOf(PartOf(1)) \cup ValuesOf(PartOf(2))
<1> DEFINE c == PartOf(0)
           d == PartOf(1)
           e == PartOf(2)
<1>0. 0 \in Parties /\ 1 \in Parties /\ 2 \in Parties
  BY DEF Parties
<1>1. AllCells = (c \o d) \o e
  BY DEF AllCells, PartOf, Auxiliary
<1>2. c \in Cells3 /\ d \in Cells3 /\ e \in Cells3
  BY <1>0, PartFacts
<1> HIDE DEF c, d, e
<1>3. c \o d \in Cells3
  BY <1>2, Together
<1>4. SumOf(AllCells) = SumOf(c) + SumOf(d) + SumOf(e)
  BY <1>1, <1>2, <1>3, SumTogether
<1>5. /\ Cardinality(Good(AllCells)) = Cardinality(Good(c)) + Cardinality(Good(d)) + Cardinality(Good(e))
      /\ AllValues = ValuesOf(c) \cup ValuesOf(d) \cup ValuesOf(e)
  BY <1>1, <1>2, <1>3, CountTogether DEF AllValues
<1>6. QED BY <1>4, <1>5 DEF c, d, e

(* A column that is read whole is read as it is.                           *)
LEMMA WholeRead ==
  ASSUME TypeInv, NEW q \in Parties, NEW c, ReadWhole(c)
  PROVE  ReadPart(q, c) = input.data[q]
<1>1. input.data[q] \in Cells3 /\ input.head[q] \in Nat
  BY PartFacts, MpcAssumption DEF TypeInv
<1>2. Len(input.data[q]) \in Nat
  BY <1>1, CellFacts
<1>3. CASE ~Rebuilt(q, c)
  BY <1>3 DEF ReadPart
<1>4. CASE input.head[q] >= Len(input.data[q])
  <2> DEFINE n == Len(input.data[q])
             h == input.head[q]
  <2>1. n \in Nat /\ h \in Nat /\ h >= n
    BY <1>1, <1>2, <1>4
  <2> HIDE DEF n, h
  <2>2. Min({h, n}) = n
    BY <2>1 DEF Min
  <2>3. SubSeq(input.data[q], 1, n) = input.data[q]
    BY <1>1, SubSeqFull DEF Cells3, n
  <2>4. QED BY <2>2, <2>3 DEF ReadPart, n, h
<1>5. QED BY <1>3, <1>4 DEF ReadWhole

LEMMA AllCounted ==
  ASSUME NEW s \in Cells3, Good(s) = DOMAIN s
  PROVE  Cardinality(Good(s)) = Len(s)
<1>1. Len(s) \in Nat /\ DOMAIN s = 1..Len(s)
  BY CellFacts
<1>2. 1 \in Int /\ Len(s) \in Int /\ (1 > Len(s) => Len(s) = 0) /\ (Len(s) - 1) + 1 = Len(s)
  BY <1>1
<1>3. Cardinality(1..Len(s)) = IF 1 > Len(s) THEN 0 ELSE (Len(s) - 1) + 1
  BY <1>2, FS_Interval
<1>4. QED BY <1>1, <1>2, <1>3

LEMMA LocalParts ==
  ASSUME TypeInv, NoEmptyCells, NEW c, ReadWhole(c), NEW q \in Parties
  PROVE  /\ LocalSum(q, c) \in {SumOf(PartOf(q)), Wrap(SumOf(PartOf(q)))} /\ LocalSum(q, c) \in Int
         /\ Missing \/ task.type # "SUM" => LocalCount(q, c) = Cardinality(Good(PartOf(q)))
<1>0. /\ input.data[q] \in Cells3 /\ SumOf(PartOf(q)) \in Int
      /\ Wrap(SumOf(PartOf(q))) \in Int
  BY PartFacts, WrapForm
<1>1. CASE Auxiliary(q)
  <2>1. PartOf(q) = <<>> /\ LocalSum(q, c) = 0 /\ LocalCount(q, c) = 0
    BY <1>1 DEF PartOf, LocalSum, LocalCount
  <2>2. QED BY <2>1, NoCells
<1>2. CASE ~Auxiliary(q)
  <2>0. ReadPart(q, c) = input.data[q]
    BY WholeRead
  <2>1. PartOf(q) = input.data[q] /\ LocalSum(q, c) = Wrap(SumOf(PartOf(q)))
    BY <1>2, <2>0 DEF PartOf, LocalSum
  <2>2. ASSUME Missing PROVE LocalCount(q, c) = Cardinality(Good(input.data[q]))
    <3>1. LocalCount(q, c) = Len(input.data[q]) - null_num(q, c) - abnormal_num(q, c)
      BY <1>2, <2>2 DEF LocalCount
    <3>2. QED BY <1>0, <2>0, <3>1, CountRest DEF null_num, abnormal_num, NumberOf
  <2>3. ASSUME ~Missing, task.type # "SUM" PROVE LocalCount(q, c) = Cardinality(Good(input.data[q]))
    <3>1. Good(input.data[q]) = DOMAIN input.data[q]
      BY <2>3 DEF NoEmptyCells, AllGood
    <3>2. LocalCount(q, c) = Len(input.data[q])
      BY <1>2, <2>3 DEF LocalCount
    <3>3. QED BY <1>0, <3>1, <3>2, AllCounted
  <2>4. QED BY <1>0, <2>1, <2>2, <2>3
<1>3. QED BY <1>1, <1>2

(* The parties' sums and counts, added up modulo 2^W, are those of all     *)
(* cells.                                                                  *)
LEMMA LocalsAdd ==
  ASSUME TypeInv, SumOf(AllCells) \in IntMin..IntMax, Cardinality(Good(AllCells)) <= IntMax,
         NoEmptyCells, NEW e, ReadWhole(e)
  PROVE  /\ Wrap(LocalSum(0, e) + LocalSum(1, e) + LocalSum(2, e)) = SumOf(AllCells)
         /\ Missing \/ task.type # "SUM" =>
              Wrap(LocalCount(0, e) + LocalCount(1, e) + LocalCount(2, e)) = Cardinality(Good(AllCells))
<1>0. 0 \in Parties /\ 1 \in Parties /\ 2 \in Parties
  BY DEF Parties
<1> DEFINE S(q) == SumOf(PartOf(q))
           C(q) == Cardinality(Good(PartOf(q)))
<1>1. /\ S(0) \in Int /\ S(1) \in Int /\ S(2) \in Int
      /\ C(0) \in Nat /\ C(1) \in Nat /\ C(2) \in Nat
  BY <1>0, PartFacts
<1>2. /\ LocalSum(0, e) \in {S(0), Wrap(S(0))} /\ LocalSum(0, e) \in Int
      /\ LocalSum(1, e) \in {S(1), Wrap(S(1))} /\ LocalSum(1, e) \in Int
      /\ LocalSum(2, e) \in {S(2), Wrap(S(2))} /\ LocalSum(2, e) \in Int
      /\ Missing \/ task.type # "SUM" => /\ LocalCount(0, e) = C(0) /\ LocalCount(1, e) = C(1)
                                        /\ LocalCount(2, e) = C(2)
  BY <1>0, LocalParts
<1>3. /\ SumOf(AllCells) = S(0) + S(1) + S(2)
      /\ Cardinality(Good(AllCells)) = C(0) + C(1) + C(2)
  BY AllParts
<1> HIDE DEF S, C
<1>4. Wrap(LocalSum(0, e) + LocalSum(1, e) + LocalSum(2, e)) = S(0) + S(1) + S(2)
  <2> DEFINE a == S(0)
             b == S(1)
             c == S(2)
             x == LocalSum(0, e)
             y == LocalSum(1, e)
             z == LocalSum(2, e)
  <2>1. a + b + c \in IntMin..IntMax
    BY <1>3
  <2>2. Wrapped(x, a) /\ Wrapped(y, b) /\ Wrapped(z, c)
    BY <1>1, <1>2 DEF Wrapped
  <2> HIDE DEF a, b, c, x, y, z
  <2> DEFINE s == a + b + c
             t == x + y + z
  <2>3. AddsTo(s, a, b, c) /\ AddsTo(t, x, y, z) /\ s \in IntMin..IntMax
    BY <2>1 DEF AddsTo
  <2> HIDE DEF s, t
  <2>4. Wrap(t) = s
    BY <2>2, <2>3, WrapSum
  <2>5. QED BY <2>4 DEF a, b, c, x, y, z, s, t
<1>5. C(0) + C(1) + C(2) \in IntMin..IntMax
  <2>1. IntMin \in Int /\ IntMin <= 0 /\ IntMax \in Int
    BY HalfFacts
  <2>2. QED BY <1>1, <1>3, <2>1
<1>6. Wrap(C(0) + C(1) + C(2)) = C(0) + C(1) + C(2)
  BY <1>5, WrapSame
<1>7. QED BY <1>2, <1>3, <1>4, <1>6

(* What is revealed of sums and counts.                                    *)
LEMMA TotalsAre ==
  ASSUME TaskInv, FigureInv, Consistent, NEW p \in Parties, ColumnOver(p), ~Extremum
  PROVE  \A c \in {col[p]} :
           /\ Total(p, 1, 1) = Wrap(LocalSum(0, c) + LocalSum(1, c) + LocalSum(2, c))
           /\ Missing => Total(p, 1, 2) = Wrap(LocalCount(0, c) + LocalCount(1, c) + LocalCount(2, c))
           /\ ~Missing => Total(p, 4, 1) = Wrap(LocalCount(0, c) + LocalCount(1, c) + LocalCount(2, c))
<1> DEFINE b == base[p]
<1>0. 0 \in Parties /\ 1 \in Parties /\ 2 \in Parties /\ TypeInv /\ b \in Nat
  BY ColumnFacts DEF Parties, TaskInv
<1>1. /\ Total(p, 1, 1) = Wrap(Given(b + 1)[1] + Given(b + 2)[1] + Given(b + 3)[1])
      /\ Total(p, 1, 2) = Wrap(Given(b + 1)[2] + Given(b + 2)[2] + Given(b + 3)[2])
      /\ Total(p, 4, 1) = Wrap(Given(b + 4)[1] + Given(b + 5)[1] + Given(b + 6)[1])
  <2>1. b + 1 + 1 = b + 2 /\ b + 1 + 2 = b + 3 /\ b + 4 + 1 = b + 5 /\ b + 4 + 2 = b + 6
    BY <1>0
  <2> HIDE DEF b
  <2>2. QED BY <2>1 DEF Total, b
<1>2. CASE Missing
  <2>0. 1 \in 1..Shared /\ 2 \in 1..Shared /\ 3 \in 1..Shared
    BY <1>2 DEF Shared
  <2>1. Bring(b, 1) = {0} /\ Bring(b, 2) = {1} /\ Bring(b, 3) = {2}
    BY DEF Bring
  <2>2. \A q : \A i \in 1..3 : ValueOf(q, col[p], i) = <<LocalSum(q, col[p]), LocalCount(q, col[p])>>
    BY <1>2 DEF ValueOf
  <2>3. /\ Given(b + 1) = <<LocalSum(0, col[p]), LocalCount(0, col[p])>>
        /\ Given(b + 2) = <<LocalSum(1, col[p]), LocalCount(1, col[p])>>
        /\ Given(b + 3) = <<LocalSum(2, col[p]), LocalCount(2, col[p])>>
    BY <1>0, <2>0, <2>1, <2>2, GivenByOne
  <2>4. QED BY <1>1, <1>2, <2>3
<1>3. CASE ~Missing
  <2>0. 1 \in 1..Shared /\ 2 \in 1..Shared /\ 3 \in 1..Shared
        /\ 4 \in 1..Shared /\ 5 \in 1..Shared /\ 6 \in 1..Shared
    BY <1>3 DEF Shared
  <2>1. /\ Bring(b, 1) = {0} /\ Bring(b, 2) = {1} /\ Bring(b, 3) = {2}
        /\ Bring(b, 4) = {0} /\ Bring(b, 5) = {1} /\ Bring(b, 6) = {2}
    BY <1>3 DEF Bring
  <2>2. ASSUME NEW q \in Parties
        PROVE  Sums(q)[1] = LocalSum(q, col[p]) /\ Counts(q)[1] = LocalCount(q, col[p])
    <3>1. Columns(p) # {}
      BY <1>0, <1>3, Places DEF ColumnOver, TaskInv
    <3>2. Len(input.decl[p]) = Len(input.decl[q]) /\ Len(input.decl[p]) \in Nat
      BY <1>0, <1>3, PartyFacts DEF Consistent
    <3>3. 1 \in Columns(q)
      BY <3>1, <3>2 DEF Columns
    <3>4. Sums(q)[1] = LocalSum(q, 1) /\ Counts(q)[1] = LocalCount(q, 1)
      BY <3>3 DEF Sums, Counts
    <3>5. LocalSum(q, 1) = LocalSum(q, col[p]) /\ LocalCount(q, 1) = LocalCount(q, col[p])
      BY <1>3 DEF LocalSum, LocalCount, ReadPart
    <3>6. QED BY <3>4, <3>5
  <2>3. /\ \A q : \A i \in 1..3 : ValueOf(q, col[p], i) = Sums(q)
        /\ \A q : \A i \in 4..6 : ValueOf(q, col[p], i) = Counts(q)
    BY <1>3 DEF ValueOf
  <2>4. /\ Given(b + 1) = Sums(0) /\ Given(b + 4) = Counts(0)
        /\ Given(b + 2) = Sums(1) /\ Given(b + 5) = Counts(1)
        /\ Given(b + 3) = Sums(2) /\ Given(b + 6) = Counts(2)
    BY <1>0, <2>0, <2>1, <2>3, GivenByOne
  <2>5. QED BY <1>0, <1>1, <1>3, <2>2, <2>4
<1>4. QED BY <1>2, <1>3

LEMMA SumFigure ==
  ASSUME TaskInv, FigureInv, Consistent, NEW p \in Parties, ColumnOver(p), ~Extremum,
         InRange(input.decl[p][col[p]]), NoEmptyCells, ReadWhole(col[p])
  PROVE  Figure(p) = Reference(input.decl[p][col[p]])
<1>0. TypeInv /\ task.type \in {"AVG", "SUM"} /\ (Missing => task.type # "SUM")
  BY DEF TaskInv, TypeInv, Tasks, Extremum
<1> DEFINE c == col[p]
           Counted == Missing \/ task.type # "SUM"
<1> HIDE DEF c
<1>1. /\ Wrap(LocalSum(0, c) + LocalSum(1, c) + LocalSum(2, c)) = SumOf(AllCells)
      /\ Counted => Wrap(LocalCount(0, c) + LocalCount(1, c) + LocalCount(2, c))
                      = Cardinality(Good(AllCells))
  BY <1>0, LocalsAdd DEF InRange, c
<1>2. /\ Total(p, 1, 1) = SumOf(AllCells)
      /\ Missing => Total(p, 1, 2) = Cardinality(Good(AllCells))
      /\ ~Missing /\ task.type # "SUM" => Total(p, 4, 1) = Cardinality(Good(AllCells))
  BY <1>1, TotalsAre DEF c
<1>3. QED BY <1>0, <1>2 DEF Figure, Reference

-----------------------------------------------------------------------------
(* The extreme of a party: what it starts from does no harm.               *)
LEMMA ExtremeOfSmall ==
  ASSUME NEW S, S # {}, \A v \in S : Small(v)
  PROVE  LET x == Extreme(S) IN x \in S /\ Small(x) /\ \A v \in S : Beats(x, v)
<1>1. S \subseteq IntMin..IntMax
  BY SmallFacts
<1>2. Extreme(S) \in S /\ \A v \in S : Beats(Extreme(S), v)
  BY <1>1, ExtremeThere
<1>3. QED BY <1>2

LEMMA ExtremeFromZero ==
  ASSUME NEW S, \A v \in S : Small(v)
  PROVE  LET x == Extreme(S \cup {0})
         IN  (x \in S \/ x = 0) /\ Small(x) /\ \A v \in S : Beats(x, v)
<1>1. S \cup {0} # {} /\ \A v \in S \cup {0} : Small(v)
  BY SmallZero
<1>2. QED BY <1>1, ExtremeOfSmall

LEMMA ExtremeFromEnd ==
  ASSUME NEW S, S # {}, \A v \in S : Small(v),
         NEW u, u = IF task.type = "MAX" THEN IntMin ELSE IntMax
  PROVE  LET x == Extreme(S \cup {u})
         IN  x \in S /\ Small(x) /\ \A v \in S : Beats(x, v)
<1> DEFINE x == Extreme(S \cup {u})
<1>0. IntMin \in Int /\ IntMax \in Int /\ IntMin <= IntMax
  BY HalfFacts
<1>1. S \cup {u} \subseteq IntMin..IntMax /\ S \cup {u} # {} /\ S \subseteq IntMin..IntMax
  BY <1>0, SmallFacts
<1>2. x \in S \cup {u} /\ \A v \in S \cup {u} : Beats(x, v)
  BY <1>1, ExtremeThere
<1> HIDE DEF x
<1>3. x \in S
  <2>1. PICK v \in S : TRUE
    OBVIOUS
  <2>2. Beats(x, v) /\ v \in IntMin..IntMax
    BY <1>1, <1>2, <2>1
  <2>3. x = u => x = v
    BY <1>0, <2>2 DEF Beats
  <2>4. QED BY <1>2, <2>1, <2>3
<1>4. QED BY <1>2, <1>3 DEF x

(* The values of a party that is not auxiliary are among all values.       *)
Plays(q) == q \in Parties /\ ~Auxiliary(q)

LEMMA ValuesOfAll ==
  ASSUME TypeInv
  PROVE  /\ \A q : Plays(q) => Values(q) \subseteq AllValues
         /\ \A v \in AllValues : \E q \in Parties : Plays(q) /\ v \in Values(q)
         /\ AllValues \subseteq Int
<1>0. Parties = {0, 1, 2}
  BY DEF Parties
<1>1. AllValues = ValuesOf(PartOf(0)) \cup ValuesOf(PartOf(1)) \cup ValuesOf(PartOf(2))
  BY AllParts
<1>2. \A q : ValuesOf(PartOf(q)) = IF Auxiliary(q) THEN {} ELSE Values(q)
  BY NoCells DEF PartOf, Values
<1>3. \A q \in Parties : Values(q) \subseteq Int
  <2>1. TAKE q \in Parties
  <2>2. input.data[q] \in Cells3
    BY PartFacts
  <2>3. DOMAIN input.data[q] = 1..Len(input.data[q])
        /\ \A n \in 1..Len(input.data[q]) : input.data[q][n].v \in Int
    BY <2>2, CellFacts
  <2>4. QED BY <2>3 DEF Values, ValuesOf, Good
<1>4. \A q : Plays(q) => Values(q) \subseteq AllValues
  BY <1>0, <1>1, <1>2 DEF Plays
<1>5. \A v \in AllValues : \E q \in Parties : Plays(q) /\ v \in Values(q)
  BY <1>0, <1>1, <1>2 DEF Plays
<1>6. QED BY <1>3, <1>4, <1>5

(* A party's own extreme beats its values, and is one of them unless it    *)
(* started from zero.                                                      *)
Own(q, c, t) ==
  /\ Small(LocalExtreme(q, c)) /\ \A v \in Values(q) : Beats(LocalExtreme(q, c), v)
  /\ \/ LocalExtreme(q, c) \in Values(q)
     \/ LocalExtreme(q, c) = 0 /\ task.type = "MAX" /\ FromDblMin(t) /\ ~task.aux

LEMMA PlayerHasValues ==
  ASSUME TypeInv, InputInv, Extremum, NEW t, InRange(t), NEW q, Plays(q)
  PROVE  Values(q) # {} /\ \A v \in Values(q) : Small(v)
<1>1. \A v \in Values(q) : Small(v)
  BY ValuesOfAll DEF InRange, Small
<1>2. Values(q) # {}
  <2>1. CASE ~task.aux
    BY <2>1 DEF InRange, Plays
  <2>2. CASE task.aux
    <3>2. Good(input.data[q]) = DOMAIN input.data[q] /\ input.data[q] # <<>>
      BY <2>2 DEF InputInv, AllGood, Plays
    <3>3. input.data[q] \in Cells3
      BY PartFacts DEF Plays
    <3>4. Len(input.data[q]) \in Nat /\ DOMAIN input.data[q] = 1..Len(input.data[q])
      BY <3>3, CellFacts
    <3>5. Len(input.data[q]) # 0
      BY <3>2, <3>3, EmptySeq DEF Cells3
    <3>6. 1 \in Good(input.data[q])
      BY <3>2, <3>4, <3>5
    <3>7. QED BY <3>6 DEF Values, ValuesOf
  <2>3. QED BY <2>1, <2>2
<1>3. QED BY <1>1, <1>2

(* What is read of a column for its extreme are the party's values.        *)
LEMMA ReadValues ==
  ASSUME TypeInv, Extremum, NoEmptyCells, NEW c, ReadWhole(c), NEW q \in Parties
  PROVE  ValuesRead(q, c) = Values(q)
<1>1. CASE Missing
  BY <1>1, WholeRead DEF ValuesRead, Values
<1>2. CASE ~Missing
  <2>1. Good(input.data[q]) = DOMAIN input.data[q]
    BY <1>2 DEF NoEmptyCells, AllGood, Extremum
  <2>2. QED BY <1>2, <2>1 DEF ValuesRead, Values, ValuesOf
<1>3. QED BY <1>1, <1>2

LEMMA OwnExtreme ==
  ASSUME TypeInv, InputInv, Extremum, NEW c, NEW t, InRange(t), NEW q, Plays(q),
         Missing => t = input.decl[q][c], NoEmptyCells, ReadWhole(c)
  PROVE  Own(q, c, t)
<1> DEFINE S == Values(q)
           x == LocalExtreme(q, c)
<1>0. S # {} /\ \A v \in S : Small(v)
  BY PlayerHasValues
<1>a. ValuesRead(q, c) = S
  BY ReadValues DEF Plays
<1>1. task.type = "MAX" \/ task.type = "MIN"
  BY DEF Extremum
<1>2. \/ x = Extreme(S)
      \/ x = Extreme(S \cup {IF task.type = "MAX" THEN IntMin ELSE IntMax})
      \/ x = Extreme(S \cup {0}) /\ task.type = "MAX" /\ FromDblMin(t) /\ ~task.aux
  <2>0. ~Auxiliary(q) /\ (Missing => ~task.aux) /\ OrDblMax(S) = S
    BY <1>0 DEF Plays, TypeInv, OrDblMax
  <2>1. CASE Missing
    <3>1. CASE t = "double" /\ task.type = "MIN"
      BY <1>a, <2>0, <2>1, <3>1 DEF LocalExtreme, Extreme
    <3>2. CASE t = "double" /\ task.type = "MAX"
      <4>1. x = Extreme(S \cup {Start(t)})
        BY <1>a, <2>1, <3>2 DEF LocalExtreme
      <4>2. Start(t) = 0
        BY <3>2 DEF Start, DblMin
      <4>3. QED BY <2>0, <2>1, <3>2, <4>1, <4>2 DEF FromDblMin
    <3>3. CASE t # "double"
      <4>1. x = Extreme(S \cup {Start(t)})
        BY <1>a, <2>1, <3>3 DEF LocalExtreme
      <4>2. Start(t) = IF task.type = "MAX" THEN IntMin ELSE IntMax
        BY <3>3 DEF Start
      <4>3. QED BY <4>1, <4>2
    <3>4. QED BY <1>1, <3>1, <3>2, <3>3
  <2>2. CASE ~Missing /\ task.type = "MIN"
    BY <1>a, <2>0, <2>2 DEF LocalExtreme, Extreme
  <2>3. CASE ~Missing /\ task.type = "MAX" /\ task.aux
    BY <1>a, <2>0, <2>3 DEF LocalExtreme, Extreme
  <2>4. CASE ~Missing /\ task.type = "MAX" /\ ~task.aux
    <3>1. x = Max(S \cup {0})
      BY <1>a, <2>0, <2>4 DEF LocalExtreme, DblMin
    <3>2. QED BY <2>4, <3>1 DEF Extreme, FromDblMin
  <2>5. QED BY <1>1, <2>1, <2>2, <2>3, <2>4
<1> HIDE DEF S, x
<1>3. CASE x = Extreme(S)
  BY <1>0, <1>3, ExtremeOfSmall DEF Own, S, x
<1>4. CASE x = Extreme(S \cup {IF task.type = "MAX" THEN IntMin ELSE IntMax})
  BY <1>0, <1>4, ExtremeFromEnd DEF Own, S, x
<1>5. CASE x = Extreme(S \cup {0}) /\ task.type = "MAX" /\ FromDblMin(t) /\ ~task.aux
  BY <1>0, <1>5, ExtremeFromZero DEF Own, S, x
<1>6. QED BY <1>2, <1>3, <1>4, <1>5

-----------------------------------------------------------------------------
(* A comparison keeps the better one of two small values.                  *)
LEMMA KeptBeats ==
  ASSUME Extremum, NEW c, NEW x, NEW y, Small(LocalExtreme(x, c)), Small(LocalExtreme(y, c))
  PROVE  IF KeepsFirst(Differ(ToCompare(x, c), ToCompare(y, c)))
         THEN Beats(LocalExtreme(x, c), LocalExtreme(y, c))
         ELSE Beats(LocalExtreme(y, c), LocalExtreme(x, c))
<1> DEFINE a == LocalExtreme(x, c)
           b == LocalExtreme(y, c)
<1>0. task.type = "MAX" \/ task.type = "MIN"
  BY DEF Extremum
<1>1. a \in Int /\ b \in Int /\ Small(-a) /\ Small(-b) /\ Wrap(-a) = -a /\ Wrap(-b) = -b
  BY SmallFacts
<1>2. CASE ~Missing /\ task.type = "MAX"
  <2>1. ToCompare(x, c) = -a /\ ToCompare(y, c) = -b
    BY <1>1, <1>2 DEF ToCompare
  <2>2. Differ(-a, -b) <=> -a < -b
    BY <1>1, DifferSmall
  <2> HIDE DEF a, b
  <2>3. CASE -a < -b
    <3>1. KeepsFirst(Differ(-a, -b)) /\ Beats(a, b)
      BY <1>1, <1>2, <2>2, <2>3 DEF KeepsFirst, Beats
    <3>2. QED BY <2>1, <3>1 DEF a, b
  <2>4. CASE ~(-a < -b)
    <3>1. ~KeepsFirst(Differ(-a, -b)) /\ Beats(b, a)
      BY <1>1, <1>2, <2>2, <2>4 DEF KeepsFirst, Beats
    <3>2. QED BY <2>1, <3>1 DEF a, b
  <2>5. QED BY <2>3, <2>4
<1>3. CASE ~(~Missing /\ task.type = "MAX")
  <2>1. ToCompare(x, c) = a /\ ToCompare(y, c) = b
    BY <1>3 DEF ToCompare
  <2>2. Differ(a, b) <=> a < b
    BY DifferSmall
  <2> HIDE DEF a, b
  <2>3. KeepsFirst(Differ(a, b)) => Beats(a, b)
    BY <1>0, <1>1, <1>3, <2>2 DEF KeepsFirst, Beats
  <2>4. ~KeepsFirst(Differ(a, b)) => Beats(b, a)
    BY <1>0, <1>1, <1>3, <2>2 DEF KeepsFirst, Beats
  <2>5. QED BY <2>1, <2>3, <2>4 DEF a, b
<1>4. QED BY <1>2, <1>3

(* The two comparisons lead to a value that beats every player's extreme,  *)
(* and is one of them.                                                     *)
Best(f, c) == /\ f \in Int /\ \A q \in Parties : Plays(q) => Beats(f, LocalExtreme(q, c))
              /\ \E q \in Parties : Plays(q) /\ f = LocalExtreme(q, c)

LEMMA WinnerBest ==
  ASSUME TypeInv, InputInv, Extremum, NEW c, NEW t, InRange(t),
         \A q \in Parties : Plays(q) => Own(q, c, t),
         NEW f, f = (IF KeepsFirst(Differ(ToCompare(0, c), ToCompare(1, c))) THEN 0 ELSE 1),
         NEW w, w = IF KeepsFirst(Differ(ToCompare(f, c), ToCompare(2, c))) THEN f ELSE 2
  PROVE  Best(LocalExtreme(w, c), c)
<1> DEFINE X(q) == LocalExtreme(q, c)
<1>0. /\ Parties = {0, 1, 2} /\ Plays(0) /\ Plays(1) /\ (Plays(2) <=> ~task.aux)
      /\ task.aux \in BOOLEAN /\ (task.type = "MAX" \/ task.type = "MIN")
  BY DEF Parties, Plays, Auxiliary, TypeInv, Tasks, Extremum
<1>1. Small(X(0)) /\ Small(X(1)) /\ (~task.aux => Small(X(2)))
  BY <1>0 DEF Own
<1>2. f \in {0, 1} /\ X(f) \in {X(0), X(1)}
  OBVIOUS
<1>3. Beats(X(f), X(0)) /\ Beats(X(f), X(1)) /\ Small(X(f))
  <2>1. IF KeepsFirst(Differ(ToCompare(0, c), ToCompare(1, c)))
        THEN Beats(X(0), X(1)) ELSE Beats(X(1), X(0))
    BY <1>1, KeptBeats
  <2>2. Beats(X(0), X(0)) /\ Beats(X(1), X(1))
    BY <1>1, SmallFacts DEF Beats
  <2>3. QED BY <1>1, <2>1, <2>2
<1>4. X(0) \in Int /\ X(1) \in Int /\ X(f) \in Int /\ (Small(X(2)) => X(2) \in Int)
  BY <1>1, <1>3 DEF Small
<1>5. ASSUME Small(X(2))
      PROVE  IF w = f THEN Beats(X(f), X(2)) ELSE w = 2 /\ Beats(X(2), X(f))
  <2>1. IF KeepsFirst(Differ(ToCompare(f, c), ToCompare(2, c)))
        THEN Beats(X(f), X(2)) ELSE Beats(X(2), X(f))
    BY <1>3, <1>5, KeptBeats
  <2>2. QED BY <1>2, <2>1
<1>6. CASE ~task.aux
  <2>1. CASE w = f
    <3>1. Beats(X(f), X(2))
      BY <1>1, <1>5, <1>6, <2>1
    <3>2. QED BY <1>0, <1>2, <1>3, <1>4, <2>1, <3>1 DEF Best
  <2>2. CASE w # f
    <3>1. w = 2 /\ Beats(X(2), X(f)) /\ X(2) \in Int
      BY <1>1, <1>4, <1>5, <1>6, <2>2
    <3> HIDE DEF X
    <3>2. Beats(X(2), X(0)) /\ Beats(X(2), X(1)) /\ Beats(X(2), X(2))
      BY <1>3, <1>4, <3>1 DEF Beats
    <3>3. QED BY <1>0, <1>6, <3>1, <3>2 DEF Best, X
  <2>3. QED BY <2>1, <2>2
<1>7. CASE task.aux
  <2>0. ~Missing /\ Auxiliary(2) /\ ~Plays(2) /\ X(2) = Start("double")
    BY <1>0, <1>7 DEF TypeInv, Auxiliary, LocalExtreme
  <2>1. X(f) >= 0
    <3>1. \A v \in AllValues : v >= 0
      BY <1>7 DEF InRange
    <3>2. \A q \in Parties : Plays(q) => X(q) \in Values(q)
      BY <1>7 DEF Own
    <3>3. \A q \in Parties : Plays(q) => X(q) >= 0
      BY <3>1, <3>2, ValuesOfAll
    <3>4. QED BY <1>0, <1>2, <3>3
  <2>2. X(w) = X(f)
    <3>1. CASE task.type = "MAX"
      <4>1. X(2) = 0
        BY <2>0, <3>1 DEF Start, DblMin
      <4>2. Small(X(2))
        BY <4>1, SmallZero
      <4>3. w # f => w = 2 /\ Beats(X(2), X(f))
        BY <1>5, <4>2
      <4> HIDE DEF X
      <4>4. w # f => X(f) = 0
        BY <1>4, <2>1, <3>1, <4>1, <4>3 DEF Beats
      <4>5. QED BY <4>1, <4>3, <4>4
    <3>2. CASE task.type = "MIN"
      <4>1. X(2) = task.huge /\ task.huge \in {IntMin, IntMax}
        BY <2>0, <3>2 DEF Start, DblMax, TypeInv, Tasks
      <4>2. ToCompare(f, c) = X(f) /\ ToCompare(2, c) = X(2)
        BY <3>2 DEF ToCompare
      <4>3. Differ(X(f), X(2))
        BY <1>3, <2>1, <4>1, DifferHuge
      <4>4. w = f
        BY <3>2, <4>2, <4>3 DEF KeepsFirst
      <4>5. QED BY <4>4
    <3>3. QED BY <1>0, <3>1, <3>2
  <2>3. QED BY <1>0, <1>2, <1>3, <1>4, <2>0, <2>2 DEF Best
<1>8. QED BY <1>0, <1>6, <1>7

LEMMA BestIsExtreme ==
  ASSUME TypeInv, Extremum, NEW c, NEW t, InRange(t),
         \A q \in Parties : Plays(q) => Own(q, c, t), NEW f, Best(f, c)
  PROVE  Extreme(AllValues) = f
<1>0. task.type = "MAX" \/ task.type = "MIN"
  BY DEF Extremum
<1>1. f \in Int /\ AllValues \subseteq Int
  BY ValuesOfAll DEF Best
<1>2. \A v \in AllValues : Beats(f, v)
  <2>1. TAKE v \in AllValues
  <2>2. PICK q \in Parties : Plays(q) /\ v \in Values(q)
    BY ValuesOfAll
  <2>3. Beats(f, LocalExtreme(q, c)) /\ Beats(LocalExtreme(q, c), v) /\ LocalExtreme(q, c) \in Int
    BY <2>2 DEF Best, Own, Small
  <2>4. v \in Int
    BY <1>1
  <2>5. QED BY <1>0, <1>1, <2>3, <2>4 DEF Beats
<1>3. f \in AllValues
  <2>1. PICK q \in Parties : Plays(q) /\ f = LocalExtreme(q, c)
    BY DEF Best
  <2>2. Values(q) \subseteq AllValues
    BY <2>1, ValuesOfAll
  <2>3. CASE f \in Values(q)
    BY <2>2, <2>3
  <2>4. CASE f = 0 /\ task.type = "MAX" /\ FromDblMin(t) /\ ~task.aux
    <3>1. PICK v \in AllValues : v >= 0
      BY <2>4 DEF InRange
    <3>2. f >= v /\ v \in Int
      BY <1>1, <1>2, <2>4, <3>1 DEF Beats
    <3>3. v = f
      BY <2>4, <3>1, <3>2
    <3>4. QED BY <3>1, <3>3
  <2>5. QED BY <2>1, <2>3, <2>4 DEF Own
<1>4. QED BY <1>1, <1>2, <1>3, ExtremeIs

LEMMA ExtremeFigure ==
  ASSUME TaskInv, FigureInv, Consistent, NEW p \in Parties, ColumnOver(p), Extremum,
         InRange(input.decl[p][col[p]]), NoEmptyCells, ReadWhole(col[p])
  PROVE  Figure(p) = Reference(input.decl[p][col[p]])
<1> DEFINE b == base[p]
           c == col[p]
           t == input.decl[p][col[p]]
           f == FirstAt(b)
           w == WinnerAt(b)
<1>0. TypeInv /\ AskedInv /\ InputInv /\ b \in Nat /\ 0 \in Parties /\ 1 \in Parties /\ 2 \in Parties
  BY ColumnFacts DEF TaskInv, MetInv, FigureInv, Parties
<1>1. f \in {0, 1} /\ w \in {f, 2} /\ f \in Parties /\ w \in Parties /\ f < 2
  BY <1>0 DEF FirstAt, WinnerAt
<1>2. Bring(b, 1) = {0, 1} /\ Bring(b, 3) = {f, 2} /\ Bring(b, 5) = {w}
  BY DEF Bring
<1>3. Less(b + 1) = Differ(ToCompare(0, c), ToCompare(1, c))
  <2>1. 1 \in {1, 3} /\ 0 < 1
    OBVIOUS
  <2>2. QED BY <1>0, <1>2, <2>1, LessIs
<1>4. Less(b + 3) = Differ(ToCompare(f, c), ToCompare(2, c))
  <2>1. 3 \in {1, 3}
    OBVIOUS
  <2>2. QED BY <1>0, <1>1, <1>2, <2>1, LessIs
<1>5. Given(b + 5) = <<LocalExtreme(w, c)>>
  <2>1. 5 \in 1..Shared
    BY DEF Shared
  <2>2. Given(b + 5) = ValueOf(w, c, 5)
    BY <1>1, <1>2, <2>1, GivenByOne
  <2>3. QED BY <2>2 DEF ValueOf
<1>6. \A q \in Parties : Plays(q) => Own(q, c, t)
  <2>1. TAKE q \in Parties
  <2>2. HAVE Plays(q)
  <2>3. Missing => t = input.decl[q][c]
    <3>1. SUFFICES ASSUME Missing PROVE t = input.decl[q][c]
      OBVIOUS
    <3>2. b = Base(p, c) /\ Base(p, c) >= Exchange /\ Exchange = 2 /\ Entered(p) = b + ColumnOps
      BY <1>0, <3>1, BaseType, ColumnFacts DEF ColumnOver, Exchange
    <3>3. Entered(p) >= 3
      BY <1>0, <3>2, OpsNumber
    <3>4. QED BY <1>0, <3>1, <3>3 DEF AskedInv
  <2>4. QED BY <1>0, <2>2, <2>3, OwnExtreme
<1>7. /\ f = IF KeepsFirst(Differ(ToCompare(0, c), ToCompare(1, c))) THEN 0 ELSE 1
      /\ w = IF KeepsFirst(Differ(ToCompare(f, c), ToCompare(2, c))) THEN f ELSE 2
  BY <1>3, <1>4 DEF FirstAt, WinnerAt
<1> HIDE DEF b, c, t, f, w
<1>8. InRange(t)
  BY DEF t
<1>9. Best(LocalExtreme(w, c), c)
  BY <1>0, <1>6, <1>7, <1>8, WinnerBest
<1>10. Extreme(AllValues) = LocalExtreme(w, c)
  BY <1>0, <1>6, <1>8, <1>9, BestIsExtreme
<1>11. Figure(p) = <<LocalExtreme(w, c), 1>>
  BY <1>5 DEF Figure, b
<1>12. QED BY <1>10, <1>11 DEF Reference, t

-----------------------------------------------------------------------------
(* What a column of a party ends with.                                     *)
ColumnRight(p, c) ==
  Consistent /\ InRange(input.decl[p][c]) /\ NoEmptyCells /\ ReadWhole(c) =>
    /\ result[p][c] = Reference(input.decl[p][c])
    /\ Missing => \A i \in DOMAIN input.data[p] :
         table[p][c][i] = IF input.data[p][i].kind # "num" THEN Reference(input.decl[p][c])
                          ELSE <<input.data[p][i].v, 1>>

LEMMA RightByColumn == FigureRight <=> \A p \in Parties : \A c \in DOMAIN result[p] : ColumnRight(p, c)
BY DEF FigureRight, ColumnRight

LEMMA ReferenceStays ==
  ASSUME task' = task, input' = input
  PROVE  /\ Missing' = Missing /\ Consistent' = Consistent
         /\ \A t : Reference(t)' = Reference(t) /\ InRange(t)' = InRange(t)
         /\ NoEmptyCells' = NoEmptyCells /\ \A c : ReadWhole(c)' = ReadWhole(c)
<1>1. Missing' = Missing /\ Consistent' = Consistent /\ Extremum' = Extremum
  BY ShapeStays
<1>2. AllCells' = AllCells /\ \A p : Values(p)' = Values(p)
  BY DEF AllCells, Values
<1>3. AllValues' = AllValues /\ \A S : Extreme(S)' = Extreme(S)
  BY <1>2 DEF AllValues, Extreme
<1>4. \A t : Reference(t)' = Reference(t)
  BY <1>1, <1>2, <1>3 DEF Reference
<1>5. \A t : InRange(t)' = InRange(t)
  BY <1>1, <1>2, <1>3 DEF InRange, FromDblMin
<1>6. NoEmptyCells' = NoEmptyCells
  BY <1>1 DEF NoEmptyCells, AllGood
<1>7. \A p, c : Rebuilt(p, c)' = Rebuilt(p, c)
  BY <1>1 DEF Rebuilt, Ahead, Columns
<1>8. \A c : ReadWhole(c)' = ReadWhole(c)
  BY <1>7 DEF ReadWhole
<1>9. QED BY <1>1, <1>4, <1>5, <1>6, <1>8

(* The column a party ends now.                                            *)
LEMMA EndedRight ==
  ASSUME TaskInv, FigureInv, NEW p \in Parties, EndColumn(p), Consistent,
         InRange(input.decl[p][col[p]]), NoEmptyCells, ReadWhole(col[p])
  PROVE  Figure(p) = Reference(input.decl[p][col[p]])
<1>1. ColumnOver(p)
  <2>1. AtColumn(p)
    BY Places DEF EndColumn, TaskInv
  <2>2. Entered(p) = base[p] + ColumnOps
    <3>1. Entered(p) \in Nat /\ base[p] \in Nat /\ ColumnOps \in Nat
      BY PartyFacts, OpsNumber DEF TaskInv, TypeInv
    <3>2. QED BY <3>1 DEF EndColumn, OpsDone
  <2>3. QED BY <2>1, <2>2 DEF ColumnOver, EndColumn
<1>2. QED BY <1>1, SumFigure, ExtremeFigure

LEMMA StepRight ==
  ASSUME TaskInv, FigureInv, FigureRight, NEW p \in Parties, Step(p)
  PROVE  FigureRight'
<1>0. TypeInv /\ task' = task /\ input' = input /\ DOMAIN result = Parties /\ DOMAIN table = Parties
  BY StepTouches DEF TaskInv, TypeInv, FigureInv, TableInv
<1>1. /\ Missing' = Missing /\ Consistent' = Consistent
      /\ \A t : Reference(t)' = Reference(t) /\ InRange(t)' = InRange(t)
      /\ NoEmptyCells' = NoEmptyCells /\ \A c : ReadWhole(c)' = ReadWhole(c)
  BY <1>0, ReferenceStays
<1>2. \A q \in Parties : \A c \in DOMAIN result[q] : ColumnRight(q, c)
  BY RightByColumn
<1>3. ASSUME NEW q \in Parties, NEW c \in DOMAIN result[q], result'[q][c] = result[q][c],
             Missing => table'[q][c] = table[q][c]
      PROVE  ColumnRight(q, c)'
  <2>1. ColumnRight(q, c)
    BY <1>2
  <2>2. QED BY <1>0, <1>1, <1>3, <2>1 DEF ColumnRight
<1>4. ASSUME NEW q \in Parties, NEW c \in DOMAIN result'[q]
      PROVE  ColumnRight(q, c)'
  <2>1. CASE result' = result /\ table' = table
    BY <1>3, <1>4, <2>1
  <2>2. CASE EndColumn(p)
    <3>1. /\ result' = [result EXCEPT ![p] = With(result[p], col[p], Figure(p))]
          /\ Missing => table' = [table EXCEPT ![p] =
                                    With(table[p], col[p], replaceValue(p, Figure(p)))]
      BY <2>2 DEF EndColumn
    <3>2. CASE q # p
      <4>1. result'[q] = result[q] /\ (Missing => table'[q] = table[q])
        BY <1>0, <3>1, <3>2
      <4>2. QED BY <1>3, <1>4, <4>1
    <3>3. CASE q = p
      <4>1. /\ result'[p] = With(result[p], col[p], Figure(p))
            /\ Missing => table'[p] = With(table[p], col[p], replaceValue(p, Figure(p)))
        BY <1>0, <3>1
      <4>2. CASE c # col[p]
        <5>1. c \in DOMAIN result[p] /\ result'[p][c] = result[p][c]
          BY <1>4, <3>3, <4>1, <4>2 DEF With
        <5>2. ASSUME Missing PROVE c \in DOMAIN table[p]
          BY <5>1, <5>2 DEF FigureInv, TableInv
        <5>3. QED BY <1>3, <3>3, <4>1, <4>2, <5>1, <5>2 DEF With
      <4>3. CASE c = col[p]
        <5>1. result'[p][c] = Figure(p)
          BY <4>1, <4>3 DEF With
        <5>2. Missing => table'[p][c] = replaceValue(p, Figure(p))
          BY <4>1, <4>3 DEF With
        <5>3. ASSUME Consistent, InRange(input.decl[p][c]), NoEmptyCells, ReadWhole(c)
              PROVE  Figure(p) = Reference(input.decl[p][c])
          BY <2>2, <4>3, <5>3, EndedRight
        <5>4. QED BY <1>0, <1>1, <3>3, <5>1, <5>2, <5>3 DEF ColumnRight, replaceValue
      <4>4. QED BY <4>2, <4>3
    <3>4. QED BY <3>2, <3>3
  <2>3. QED BY <2>1, <2>2, Writes
<1>5. (\A q \in Parties : \A c \in DOMAIN result[q] : ColumnRight(q, c))'
  BY <1>4
<1>6. QED BY <1>5 DEF FigureRight, ColumnRight

LEMMA StutterFigure == UNCHANGED vars /\ FigureInv => FigureInv'
<1> SUFFICES ASSUME UNCHANGED vars, FigureInv PROVE FigureInv'
  OBVIOUS
<1>0. /\ task' = task /\ input' = input /\ log' = log /\ result' = result /\ table' = table
  BY DEF vars
<1>1. /\ Missing' = Missing /\ ColumnOps' = ColumnOps
      /\ \A q : Visits(q)' = Visits(q)
      /\ \A q, c : Base(q, c)' = Base(q, c)
  BY <1>0, ShapeStays
<1>2. \A q, c, i : ValueOf(q, c, i)' = ValueOf(q, c, i)
  BY <1>0, ValueStays
<1>3. \A q : Entered(q)' = Entered(q)
  BY <1>0 DEF Entered
<1>4. PassedInv'
  BY <1>0, <1>3 DEF FigureInv, PassedInv
<1>5. ValueInv'
  BY <1>0, <1>1, <1>2, <1>3 DEF FigureInv, ValueInv, Puts
<1>6. InputInv' /\ TableInv'
  BY <1>0, <1>1 DEF FigureInv, InputInv, AllGood, TableInv
<1>7. QED BY <1>4, <1>5, <1>6 DEF FigureInv

(* What a party of MPCTask reveals for a column is the figure over all     *)
(* parties' good cells, for any number of cells and columns and any width: *)
(* the two comparisons of MissingProcess::execute and MPCMinOrMax lead to  *)
(* the extreme, the shares of the sums and counts add up.  It does not say *)
(* so of a column that is read in part, nor of statistics other than a sum *)
(* when cells are empty: there the code gives other figures.               *)
THEOREM FiguresRight == Spec => []FigureRight
<1>1. Init => TaskInv /\ FigureInv /\ FigureRight
  BY InitTask, InitFigureInv DEF Init, FigureRight
<1>2. TaskInv /\ FigureInv /\ FigureRight /\ [Next]_vars => TaskInv' /\ FigureInv' /\ FigureRight'
  <2> SUFFICES ASSUME TaskInv, FigureInv, FigureRight, [Next]_vars
               PROVE  TaskInv' /\ FigureInv' /\ FigureRight'
    OBVIOUS
  <2>1. CASE \E p \in Parties : Step(p)
    BY <2>1, StepTask, StepFigureInv, StepRight
  <2>2. CASE UNCHANGED vars
    <3>1. TaskInv' /\ FigureInv'
      BY <2>2, StutterTask, StutterFigure
    <3>2. /\ task' = task /\ input' = input /\ result' = result /\ table' = table
      BY <2>2 DEF vars
    <3>3. /\ Missing' = Missing /\ Consistent' = Consistent
          /\ \A t : Reference(t)' = Reference(t) /\ InRange(t)' = InRange(t)
          /\ NoEmptyCells' = NoEmptyCells /\ \A c : ReadWhole(c)' = ReadWhole(c)
      BY <3>2, ReferenceStays
    <3>4. FigureRight'
      BY <3>2, <3>3 DEF FigureRight
    <3>5. QED BY <3>1, <3>4
  <2>3. QED BY <2>1, <2>2, NextStep
<1>3. QED BY <1>1, <1>2, PTL DEF Spec
=============================================================================
