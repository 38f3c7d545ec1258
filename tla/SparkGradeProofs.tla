--------------------------- MODULE SparkGradeProofs ---------------------------
(* The graders of SparkGrade accept what they should and nothing else. *)
EXTENDS SparkGrade, FiniteSetTheorems, FunctionTheorems, TLAPS

-----------------------------------------------------------------------------
(* Numbers.                                                                *)

\* Integer division of a number by a positive one.
LEMMA Quotient ==
  ASSUME NEW a \in Int, NEW b \in Nat \ {0}
  PROVE  /\ a \div b \in Int
         /\ (a \div b) * b <= a
         /\ a < (a \div b) * b + b
<1>1. a \div b \in Int OBVIOUS
<1>2. a = b * (a \div b) + (a % b) /\ 0 <= a % b /\ a % b < b OBVIOUS
<1> QED BY <1>1, <1>2

\* Rounding gives a multiple of the step and moves a number by at most half of it.
LEMMA RoundedNear ==
  ASSUME NEW n \in Int
  PROVE  /\ Rounded(n) \in Int
         /\ 2 * Rounded(n) <= 2 * n + Grid
         /\ 2 * n < 2 * Rounded(n) + Grid
         /\ \E q \in Int : Rounded(n) = q * Grid
<1> DEFINE q == (2 * n + Grid) \div (2 * Grid)
<1>1. Grid \in Nat \ {0} BY SparkGradeAssumption
<1>2. q \in Int /\ q * (2 * Grid) <= 2 * n + Grid /\ 2 * n + Grid < q * (2 * Grid) + 2 * Grid
  <2>1. 2 * n + Grid \in Int /\ 2 * Grid \in Nat \ {0} BY <1>1
  <2> QED BY <2>1, Quotient
<1>3. Rounded(n) = q * Grid BY DEF Rounded
<1> HIDE DEF q
<1>4. q * (2 * Grid) = 2 * (q * Grid) /\ q * Grid \in Int BY <1>1, <1>2
<1>5. \E r \in Int : Rounded(n) = r * Grid BY <1>2, <1>3
<1>6. 2 * Rounded(n) <= 2 * n + Grid /\ 2 * n < 2 * Rounded(n) + Grid
  BY <1>1, <1>2, <1>3, <1>4
<1> QED BY <1>3, <1>4, <1>5, <1>6

\* Two numbers within the tolerance are so when rounded: it is a multiple of the
\* step.
LEMMA RoundedClose ==
  ASSUME NEW a \in Int, NEW b \in Int, a - b <= Atol
  PROVE  Rounded(a) - Rounded(b) <= Atol
<1>1. Grid \in Nat \ {0} /\ Steps \in Nat BY SparkGradeAssumption
<1>2. PICK p \in Int : Rounded(a) = p * Grid BY RoundedNear
<1>3. PICK q \in Int : Rounded(b) = q * Grid BY RoundedNear
<1>4. CASE p - q <= Steps
  <2>1. (p - q) * Grid <= Steps * Grid BY <1>1, <1>4
  <2>2. (p - q) * Grid = p * Grid - q * Grid BY <1>1
  <2> QED BY <1>1, <1>2, <1>3, <2>1, <2>2 DEF Atol
<1>5. CASE p - q >= Steps + 1
  <2>1. (p - q) * Grid >= (Steps + 1) * Grid BY <1>1, <1>5
  <2>2. (p - q) * Grid = p * Grid - q * Grid /\ (Steps + 1) * Grid = Atol + Grid
    BY <1>1 DEF Atol
  <2>3. Atol \in Int /\ p * Grid \in Int /\ q * Grid \in Int BY <1>1 DEF Atol
  <2>4. Rounded(a) - Rounded(b) >= Atol + Grid BY <1>2, <1>3, <2>1, <2>2
  <2>5. 2 * Rounded(a) <= 2 * a + Grid /\ 2 * b < 2 * Rounded(b) + Grid BY RoundedNear
  <2>6. 2 * (a - b) > 2 * Atol BY <1>1, <1>2, <1>3, <2>3, <2>4, <2>5
  <2> QED BY <2>3, <2>6
<1> QED BY <1>1, <1>4, <1>5

LEMMA AtolType == Atol \in Nat /\ Grid \in Nat \ {0} /\ Whole \in Nat \ {0}
BY SparkGradeAssumption DEF Atol

\* Values the comparison takes for equal are near each other, in either kind of
\* column, and those that are close are taken for equal.
LEMMA TruncatedNear ==
  ASSUME NEW n \in Int
  PROVE  /\ Truncated(n) \in Int
         /\ n - Whole < Truncated(n) /\ Truncated(n) < n + Whole
<1>1. Whole \in Nat \ {0} BY AtolType
<1>2. CASE n >= 0
  <2>1. n \div Whole \in Int /\ (n \div Whole) * Whole <= n
        /\ n < (n \div Whole) * Whole + Whole BY <1>1, Quotient
  <2>2. Truncated(n) = (n \div Whole) * Whole BY <1>2 DEF Truncated
  <2>3. (n \div Whole) * Whole \in Int BY <1>1, <2>1
  <2> QED BY <1>1, <2>1, <2>2, <2>3
<1>3. CASE ~(n >= 0)
  <2>1. -n \in Int OBVIOUS
  <2>2. (-n) \div Whole \in Int /\ ((-n) \div Whole) * Whole <= -n
        /\ -n < ((-n) \div Whole) * Whole + Whole BY <1>1, <2>1, Quotient
  <2>3. Truncated(n) = -(((-n) \div Whole) * Whole) BY <1>3 DEF Truncated
  <2>4. ((-n) \div Whole) * Whole \in Int BY <1>1, <2>2
  <2> QED BY <1>1, <2>2, <2>3, <2>4
<1> QED BY <1>2, <1>3

LEMMA EqualIsNear ==
  ASSUME NEW a \in Int, NEW b \in Int, NEW type, ValuesEqual(a, b, type)
  PROVE  Near(type, a, b)
<1>1. Atol \in Nat /\ Grid \in Nat \ {0} /\ Whole \in Nat \ {0} BY AtolType
<1>2. CASE type = "float"
  <2>1. Distance(Rounded(a), Rounded(b)) <= Atol BY <1>2 DEF ValuesEqual, Coerced
  <2>2. Rounded(a) \in Int /\ 2 * Rounded(a) <= 2 * a + Grid /\ 2 * a < 2 * Rounded(a) + Grid
    BY RoundedNear
  <2>3. Rounded(b) \in Int /\ 2 * Rounded(b) <= 2 * b + Grid /\ 2 * b < 2 * Rounded(b) + Grid
    BY RoundedNear
  <2>4. Distance(a, b) < Atol + Grid BY <1>1, <2>1, <2>2, <2>3 DEF Distance
  <2> QED BY <1>2, <2>4 DEF Near
<1>3. CASE type # "float"
  <2>1. Distance(Truncated(a), Truncated(b)) <= 0 BY <1>3 DEF ValuesEqual, Coerced
  <2>2. Truncated(a) \in Int /\ a - Whole < Truncated(a) /\ Truncated(a) < a + Whole
    BY TruncatedNear
  <2>3. Truncated(b) \in Int /\ b - Whole < Truncated(b) /\ Truncated(b) < b + Whole
    BY TruncatedNear
  <2>4. Distance(a, b) < 2 * Whole BY <1>1, <2>1, <2>2, <2>3 DEF Distance
  <2> QED BY <1>3, <2>4 DEF Near
<1> QED BY <1>2, <1>3

LEMMA CloseIsEqual ==
  ASSUME NEW a \in Int, NEW b \in Int, NEW type, Close(type, a, b)
  PROVE  ValuesEqual(a, b, type)
<1>1. Atol \in Nat BY AtolType
<1>2. CASE type = "float"
  <2>1. a - b <= Atol /\ b - a <= Atol BY <1>1, <1>2 DEF Close, Distance
  <2>2. Rounded(a) - Rounded(b) <= Atol /\ Rounded(b) - Rounded(a) <= Atol
    BY <2>1, RoundedClose
  <2>3. Rounded(a) \in Int /\ Rounded(b) \in Int BY RoundedNear
  <2> QED BY <1>2, <2>2, <2>3 DEF ValuesEqual, Coerced, Distance
<1>3. CASE type # "float"
  <2>1. a = b BY <1>3 DEF Close, Distance
  <2>2. Truncated(a) \in Int BY TruncatedNear
  <2> QED BY <1>3, <2>1, <2>2 DEF ValuesEqual, Coerced, Distance
<1> QED BY <1>2, <1>3

\* Values with the same text are equal or nearer than a rounding step.
LEMMA SameTextIsNear ==
  ASSUME NEW a \in Int \cup {Null}, NEW b \in Int \cup {Null}, Text(a) = Text(b)
  PROVE  NearValue(a, b)
<1>1. Null \notin Int /\ Grid \in Nat \ {0} BY SparkGradeAssumption
<1>2. CASE a = Null \/ b = Null
  <2>1. ASSUME NEW c \in Int PROVE Text(c)[2] \in Int /\ Text(Null)[2] = Null
    <3>1. -c \in Int OBVIOUS
    <3>2. Rounded(c) \in Int /\ Rounded(-c) \in Int BY <3>1, RoundedNear
    <3>3. Text(c) = IF c >= 0 THEN <<FALSE, Rounded(c)>> ELSE <<TRUE, Rounded(-c)>>
      BY <1>1 DEF Text
    <3>4. Text(Null) = <<FALSE, Null>> BY DEF Text
    <3> QED BY <3>2, <3>3, <3>4
  <2>2. a = b
    <3>1. CASE a = Null BY <1>1, <2>1, <3>1
    <3>2. CASE b = Null BY <1>1, <2>1, <3>2
    <3> QED BY <1>2, <3>1, <3>2
  <2> QED BY <2>2 DEF NearValue
<1>3. CASE a \in Int /\ b \in Int
  <2>1. a # Null /\ b # Null BY <1>1, <1>3
  <2>2. -a \in Int /\ -b \in Int BY <1>3
  <2>3. CASE a >= 0
    <3>1. Text(a) = <<FALSE, Rounded(a)>> BY <2>1, <2>3 DEF Text
    <3>2. b >= 0 /\ Rounded(b) = Rounded(a) BY <1>3, <2>1, <3>1 DEF Text
    <3>3. /\ 2 * Rounded(a) <= 2 * a + Grid /\ 2 * a < 2 * Rounded(a) + Grid
          /\ 2 * Rounded(b) <= 2 * b + Grid /\ 2 * b < 2 * Rounded(b) + Grid
          /\ Rounded(a) \in Int
      BY <1>3, RoundedNear
    <3>4. Distance(a, b) < Grid BY <1>1, <1>3, <3>2, <3>3 DEF Distance
    <3> QED BY <2>1, <3>4 DEF NearValue
  <2>4. CASE ~(a >= 0)
    <3>1. Text(a) = <<TRUE, Rounded(-a)>> BY <2>1, <2>4 DEF Text
    <3>2. ~(b >= 0) /\ Rounded(-b) = Rounded(-a) BY <1>3, <2>1, <3>1 DEF Text
    <3>3. /\ 2 * Rounded(-a) <= 2 * (-a) + Grid /\ 2 * (-a) < 2 * Rounded(-a) + Grid
          /\ 2 * Rounded(-b) <= 2 * (-b) + Grid /\ 2 * (-b) < 2 * Rounded(-b) + Grid
          /\ Rounded(-a) \in Int
      BY <2>2, RoundedNear
    <3>4. Distance(a, b) < Grid BY <1>1, <1>3, <3>2, <3>3 DEF Distance
    <3> QED BY <2>1, <3>4 DEF NearValue
  <2> QED BY <2>3, <2>4
<1> QED BY <1>2, <1>3
-----------------------------------------------------------------------------
(* solution.json.                                                          *)

\* In a table that has each key once, the kept row of a key is its only one.
LEMMA KeptOfOnce ==
  ASSUME NEW t \in Seq(Rows), IsOnce(t), NEW i \in DOMAIN t
  PROVE  Kept(t, t[i].key) = t[i].val
<1> DEFINE last(j) == /\ t[j].key = t[i].key
                      /\ \A m \in DOMAIN t : t[m].key = t[i].key => m <= j
<1>1. last(i) BY DEF IsOnce
<1>2. \A j \in DOMAIN t : last(j) => j = i BY DEF IsOnce
<1>3. (CHOOSE j \in DOMAIN t : last(j)) = i BY <1>1, <1>2
<1> QED BY <1>3 DEF Kept

LEMMA IntervalSize ==
  ASSUME NEW n \in Nat
  PROVE  IsFiniteSet(1..n) /\ Cardinality(1..n) = n
<1>1. IsFiniteSet(1..n) /\ Cardinality(1..n) = IF 1 > n THEN 0 ELSE n - 1 + 1
  BY FS_Interval
<1> QED BY <1>1

\* As many rows as keys: each key once.
LEMMA KeysCounted ==
  ASSUME NEW s \in Seq(Rows), NEW t \in Seq(Rows), IsOnce(s),
         Len(s) = Len(t), KeysOf(s) = KeysOf(t)
  PROVE  IsOnce(t)
<1> DEFINE K == KeysOf(s)
           f == [i \in DOMAIN s |-> s[i].key]
           g == [i \in DOMAIN t |-> t[i].key]
<1>1. DOMAIN s = 1..Len(s) /\ DOMAIN t = 1..Len(s) /\ Len(s) \in Nat OBVIOUS
<1>2. f \in Bijection(1..Len(s), K)
  <2>1. f \in [1..Len(s) -> K] BY <1>1 DEF KeysOf
  <2>2. \A i, j \in 1..Len(s) : f[i] = f[j] => i = j BY <1>1 DEF IsOnce
  <2>3. \A k \in K : \E i \in 1..Len(s) : f[i] = k BY <1>1 DEF KeysOf
  <2> QED BY <2>1, <2>2, <2>3, Fun_IsBij, Fun_IsInj, Fun_IsSurj
<1>3. g \in Surjection(1..Len(s), K)
  <2>1. g \in [1..Len(s) -> K] BY <1>1 DEF KeysOf
  <2>2. \A k \in K : \E i \in 1..Len(s) : g[i] = k BY <1>1 DEF KeysOf
  <2> QED BY <2>1, <2>2, Fun_IsSurj
<1>4. IsFiniteSet(1..Len(s)) /\ Cardinality(1..Len(s)) = Len(s)
  BY <1>1, IntervalSize
<1>5. IsFiniteSet(K) /\ Cardinality(K) = Cardinality(1..Len(s))
  <2>1. ExistsBijection(1..Len(s), K) BY <1>2 DEF ExistsBijection
  <2> QED BY <1>4, <2>1, FS_Bijection
<1>6. g \in Injection(1..Len(s), K) BY <1>3, <1>4, <1>5, FS_SurjSameCardinalityImpliesInj
<1>7. \A i, j \in 1..Len(s) : g[i] = g[j] => i = j BY <1>6, Fun_InjectionProperties
<1> QED BY <1>1, <1>7 DEF IsOnce

\* The values of a readable table are numbers.
LEMMA ReadableValue ==
  ASSUME NEW t \in Seq(Rows), Readable(t), NEW i \in DOMAIN t
  PROVE  t[i].val \in Int
<1>1. t[i] \in Rows OBVIOUS
<1>2. t[i].val \in Int \cup {Null} BY <1>1 DEF Rows
<1> QED BY <1>2 DEF Readable

LEMMA JsonAccepts ==
  ASSUME NEW g, g.expected \in Seq(Rows), g.output \in Seq(Rows), g.output # Missing,
         IsOnce(g.expected), Readable(g.expected), Readable(g.output),
         PairedOff(g, Close)
  PROVE  JsonPasses(g)
<1> DEFINE s == g.expected
           t == g.output
<1>1. PICK f \in Bijection(DOMAIN s, DOMAIN t) :
        \A i \in DOMAIN s : s[i].key = t[f[i]].key /\ Close(g.type, s[i].val, t[f[i]].val)
  BY DEF PairedOff
<1>2. /\ f \in [DOMAIN s -> DOMAIN t]
      /\ \A j \in DOMAIN t : \E i \in DOMAIN s : f[i] = j
  BY <1>1, Fun_BijectionProperties
<1>3. DOMAIN s = 1..Len(s) /\ DOMAIN t = 1..Len(t) /\ Len(s) \in Nat /\ Len(t) \in Nat
  OBVIOUS
<1>4. Len(t) = Len(s)
  <2>1. ExistsBijection(1..Len(s), 1..Len(t)) BY <1>1, <1>3 DEF ExistsBijection
  <2> QED BY <1>3, <2>1, IntervalSize, FS_Bijection
<1>5. KeysOf(t) = KeysOf(s)
  <2>1. ASSUME NEW k \in KeysOf(s) PROVE k \in KeysOf(t)
    <3>1. PICK i \in DOMAIN s : k = s[i].key BY <2>1 DEF KeysOf
    <3> QED BY <1>1, <1>2, <3>1 DEF KeysOf
  <2>2. ASSUME NEW k \in KeysOf(t) PROVE k \in KeysOf(s)
    <3>1. PICK j \in DOMAIN t : k = t[j].key BY <2>2 DEF KeysOf
    <3>2. PICK i \in DOMAIN s : f[i] = j BY <1>2
    <3> QED BY <1>1, <3>1, <3>2 DEF KeysOf
  <2> QED BY <2>1, <2>2
<1>6. IsOnce(t) BY <1>4, <1>5, KeysCounted
<1>7. ASSUME NEW k \in KeysOf(s) PROVE ValuesEqual(Kept(s, k), Kept(t, k), g.type)
  <2>1. PICK i \in DOMAIN s : k = s[i].key BY <1>7 DEF KeysOf
  <2>2. f[i] \in DOMAIN t /\ k = t[f[i]].key BY <1>1, <1>2, <2>1
  <2>3. Kept(s, k) = s[i].val /\ Kept(t, k) = t[f[i]].val BY <1>6, <2>1, <2>2, KeptOfOnce
  <2>4. s[i].val \in Int /\ t[f[i]].val \in Int BY <2>1, <2>2, ReadableValue
  <2> QED BY <1>1, <2>1, <2>3, <2>4, CloseIsEqual
<1> QED BY <1>4, <1>5, <1>7 DEF JsonPasses

LEMMA JsonRejects ==
  ASSUME NEW g, g.expected \in Seq(Rows), g.output \in Seq(Rows),
         IsOnce(g.expected), JsonPasses(g)
  PROVE  PairedOff(g, Near)
<1> DEFINE s == g.expected
           t == g.output
           f == [i \in DOMAIN s |-> CHOOSE j \in DOMAIN t : t[j].key = s[i].key]
<1>1. /\ Readable(s) /\ Readable(t) /\ Len(t) = Len(s) /\ KeysOf(t) = KeysOf(s)
      /\ \A k \in KeysOf(s) : ValuesEqual(Kept(s, k), Kept(t, k), g.type)
  BY DEF JsonPasses
<1>2. IsOnce(t) BY <1>1, KeysCounted
<1>3. ASSUME NEW i \in DOMAIN s PROVE f[i] \in DOMAIN t /\ t[f[i]].key = s[i].key
  <2>1. s[i].key \in KeysOf(t) BY <1>1 DEF KeysOf
  <2>2. \E j \in DOMAIN t : t[j].key = s[i].key BY <2>1 DEF KeysOf
  <2> QED BY <2>2
<1> HIDE DEF f
<1>4. f \in Bijection(DOMAIN s, DOMAIN t)
  <2>1. f \in [DOMAIN s -> DOMAIN t] BY <1>3 DEF f
  <2>2. \A i, j \in DOMAIN s : f[i] = f[j] => i = j BY <1>3 DEF IsOnce
  <2>3. ASSUME NEW j \in DOMAIN t PROVE \E i \in DOMAIN s : f[i] = j
    <3>1. t[j].key \in KeysOf(s) BY <1>1 DEF KeysOf
    <3>2. PICK i \in DOMAIN s : t[j].key = s[i].key BY <3>1 DEF KeysOf
    <3> QED BY <1>2, <1>3, <3>2 DEF IsOnce
  <2> QED BY <2>1, <2>2, <2>3, Fun_IsBij
<1>5. ASSUME NEW i \in DOMAIN s
      PROVE  s[i].key = t[f[i]].key /\ Near(g.type, s[i].val, t[f[i]].val)
  <2>1. s[i].key \in KeysOf(s) BY DEF KeysOf
  <2>2. Kept(s, s[i].key) = s[i].val BY KeptOfOnce
  <2>3. f[i] \in DOMAIN t /\ t[f[i]].key = s[i].key BY <1>3
  <2>4. Kept(t, s[i].key) = t[f[i]].val BY <1>2, <2>3, KeptOfOnce
  <2>5. ValuesEqual(s[i].val, t[f[i]].val, g.type) BY <1>1, <2>1, <2>2, <2>4
  <2>6. s[i].val \in Int /\ t[f[i]].val \in Int BY <1>1, <2>3, ReadableValue
  <2> QED BY <2>3, <2>5, <2>6, EqualIsNear
<1> QED BY <1>4, <1>5 DEF PairedOff
-----------------------------------------------------------------------------
(* Parquet files.                                                          *)

\* A column of a row is a number or empty.
LEMMA RowValue ==
  ASSUME NEW t \in Seq(Rows), NEW i \in DOMAIN t
  PROVE  t[i].val \in Int \cup {Null}
<1>1. t[i] \in Rows OBVIOUS
<1> QED BY <1>1 DEF Rows

LEMMA ParquetAccepts ==
  ASSUME NEW g, Sound(g), Covers(g, SameValue)
  PROVE  ParquetPasses(g)
<1>1. Found(g) # {} /\ g.output # Missing /\ Loads(g.output) BY DEF Sound
<1>2. ASSUME NEW c \in Found(g) PROVE CasePasses(g.expected[c], g.output)
  <2>1. Loads(g.expected[c]) BY DEF Sound
  <2>2. \A i \in DOMAIN g.expected[c] : \E j \in DOMAIN g.output :
          /\ g.output[j].key = g.expected[c][i].key
          /\ Text(g.output[j].val) = Text(g.expected[c][i].val)
    BY DEF Covers, SameValue
  <2> QED BY <2>1, <2>2 DEF CasePasses
<1>3. ASSUME NEW k \in KeysOf(g.output)
      PROVE  k \in UNION {KeysOf(g.expected[c]) : c \in Found(g)}
  <2>1. PICK j \in DOMAIN g.output : k = g.output[j].key BY DEF KeysOf
  <2>2. PICK c \in Found(g) : \E i \in DOMAIN g.expected[c] :
          g.output[j].key = g.expected[c][i].key
    BY DEF Covers
  <2>3. k \in KeysOf(g.expected[c]) BY <2>1, <2>2 DEF KeysOf
  <2> QED BY <2>3
<1> QED BY <1>1, <1>2, <1>3 DEF ParquetPasses

LEMMA ParquetRejects ==
  ASSUME NEW g, ParquetPasses(g), g.output \in Seq(Rows),
         \A c \in Found(g) : g.expected[c] \in Seq(Rows)
  PROVE  Sound(g) /\ Covers(g, NearValue)
<1>1. /\ Found(g) # {} /\ g.output # Missing /\ Loads(g.output)
      /\ \A c \in Found(g) : CasePasses(g.expected[c], g.output)
      /\ KeysOf(g.output) \subseteq UNION {KeysOf(g.expected[c]) : c \in Found(g)}
  BY DEF ParquetPasses
<1>2. Sound(g) BY <1>1 DEF Sound, CasePasses
<1>3. ASSUME NEW c \in Found(g), NEW i \in DOMAIN g.expected[c]
      PROVE  \E j \in DOMAIN g.output :
               /\ g.output[j].key = g.expected[c][i].key
               /\ NearValue(g.expected[c][i].val, g.output[j].val)
  <2>1. PICK j \in DOMAIN g.output :
          /\ g.output[j].key = g.expected[c][i].key
          /\ Text(g.output[j].val) = Text(g.expected[c][i].val)
    BY <1>1 DEF CasePasses
  <2>2. /\ g.output[j].val \in Int \cup {Null}
        /\ g.expected[c][i].val \in Int \cup {Null}
    BY RowValue
  <2>3. NearValue(g.expected[c][i].val, g.output[j].val) BY <2>1, <2>2, SameTextIsNear
  <2> QED BY <2>1, <2>3
<1>4. ASSUME NEW j \in DOMAIN g.output
      PROVE  \E c \in Found(g) : \E i \in DOMAIN g.expected[c] :
               /\ g.output[j].key = g.expected[c][i].key
               /\ NearValue(g.expected[c][i].val, g.output[j].val)
  <2>1. g.output[j].key \in KeysOf(g.output) BY DEF KeysOf
  <2>2. PICK c \in Found(g) : g.output[j].key \in KeysOf(g.expected[c]) BY <1>1, <2>1
  <2>3. PICK i \in DOMAIN g.expected[c] : g.output[j].key = g.expected[c][i].key
    BY <2>2 DEF KeysOf
  <2>4. PICK m \in DOMAIN g.output :
          /\ g.output[m].key = g.expected[c][i].key
          /\ NearValue(g.expected[c][i].val, g.output[m].val)
    BY <1>3
  \* Only one row of the output has the key.
  <2>5. m = j BY <1>1, <2>3, <2>4 DEF Loads, IsOnce
  <2> QED BY <2>3, <2>4, <2>5
<1> QED BY <1>2, <1>3, <1>4 DEF Covers
-----------------------------------------------------------------------------
(* The verdict of a job is that of its grader, and stays.                  *)

VerdictOfJob ==
  /\ TypeOK
  /\ verdict # "none" =>
       /\ job.by = "json" => (verdict = "passed" <=> JsonPasses(job))
       /\ job.by = "parquet" => (verdict = "passed" <=> ParquetPasses(job))

LEMMA Graders == Spec => []VerdictOfJob
<1>1. Init => VerdictOfJob BY DEF Init, VerdictOfJob, TypeOK
<1>2. VerdictOfJob /\ [Next]_vars => VerdictOfJob'
  <2> SUFFICES ASSUME VerdictOfJob, [Next]_vars PROVE VerdictOfJob' OBVIOUS
  <2>1. CASE UNCHANGED vars BY <2>1 DEF vars, VerdictOfJob, TypeOK
  <2>2. CASE Next
    <3>1. job' = job BY <2>2 DEF Next
    <3>0. TypeOK'
      <4>1. verdict' \in {"passed", "failed"}
        BY <2>2 DEF Next, GradeJson, GradeParquet, GradeScript, Verdict
      <4> QED BY <3>1, <4>1 DEF VerdictOfJob, TypeOK
    <3>2. CASE GradeJson
      <4>1. job.by = "json" /\ (verdict' = "passed" <=> JsonPasses(job))
        BY <3>2 DEF GradeJson, Verdict
      <4> QED BY <3>0, <3>1, <4>1 DEF VerdictOfJob
    <3>3. CASE GradeParquet
      <4>1. job.by = "parquet" /\ (verdict' = "passed" <=> ParquetPasses(job))
        BY <3>3 DEF GradeParquet, Verdict
      <4> QED BY <3>0, <3>1, <4>1 DEF VerdictOfJob
    <3>4. CASE GradeScript BY <3>0, <3>1, <3>4 DEF GradeScript, VerdictOfJob
    <3> QED BY <2>2, <3>2, <3>3, <3>4 DEF Next
  <2> QED BY <2>1, <2>2
<1> QED BY <1>1, <1>2, PTL DEF Spec

\* The JSON grader passes an output whose rows can be paired off with those of
\* the reference, within the tolerance, and none that cannot be, up to one
\* rounding step more: for any tables, tolerance and scale.
THEOREM JsonGrade == Spec => []JsonGradeExact
<1>1. VerdictOfJob => JsonGradeExact
  <2> SUFFICES ASSUME VerdictOfJob, Graded, job.by = "json",
                      IsOnce(job.expected), Readable(job.expected)
               PROVE  /\ job.output # Missing /\ Readable(job.output)
                           /\ PairedOff(job, Close) => verdict = "passed"
                      /\ verdict = "passed" =>
                           job.output # Missing /\ PairedOff(job, Near)
    BY DEF JsonGradeExact
  <2>1. verdict = "passed" <=> JsonPasses(job) BY DEF VerdictOfJob, Graded
  <2>2. job.expected \in JsonTables /\ job.output \in JsonTables \cup {Missing}
    BY DEF VerdictOfJob, TypeOK, Jobs
  <2>3. job.expected \in Seq(Rows) /\ (job.output # Missing => job.output \in Seq(Rows))
    BY <2>2, SparkGradeAssumption
  <2>4. job.output # Missing /\ Readable(job.output) /\ PairedOff(job, Close)
          => verdict = "passed"
    BY <2>1, <2>3, JsonAccepts
  <2>5. verdict = "passed" => job.output # Missing
    BY <2>1 DEF JsonPasses
  <2>6. verdict = "passed" => PairedOff(job, Near)
    BY <2>1, <2>3, <2>5, JsonRejects
  <2> QED BY <2>4, <2>5, <2>6
<1> QED BY <1>1, Graders, PTL

\* The Parquet grader passes an output whose rows are exactly those of the test
\* cases together, and none whose rows are not, up to the rounding of toFixed.
THEOREM ParquetGrade == Spec => []ParquetGradeExact
<1>1. VerdictOfJob => ParquetGradeExact
  <2> SUFFICES ASSUME VerdictOfJob, Graded, job.by = "parquet"
               PROVE  /\ Sound(job) /\ Covers(job, SameValue) => verdict = "passed"
                      /\ verdict = "passed" => Sound(job) /\ Covers(job, NearValue)
    BY DEF ParquetGradeExact
  <2>1. verdict = "passed" <=> ParquetPasses(job) BY DEF VerdictOfJob, Graded
  <2>2. Sound(job) /\ Covers(job, SameValue) => verdict = "passed"
    BY <2>1, ParquetAccepts
  <2>3. ASSUME verdict = "passed" PROVE Sound(job) /\ Covers(job, NearValue)
    <3>1. /\ job.output \in ParquetTables \cup {Missing, Unreadable}
          /\ job.expected \in [Cases -> ParquetTables \cup {Missing, Unreadable}]
      BY DEF VerdictOfJob, TypeOK, Jobs
    <3>2. /\ Found(job) # {} /\ job.output # Missing /\ Loads(job.output)
          /\ \A c \in Found(job) : Loads(job.expected[c])
      BY <2>1, <2>3 DEF ParquetPasses, CasePasses
    <3>3. job.output \in Seq(Rows) BY <3>1, <3>2, SparkGradeAssumption DEF Loads
    <3>4. ASSUME NEW c \in Found(job) PROVE job.expected[c] \in Seq(Rows)
      BY <3>1, <3>2, SparkGradeAssumption DEF Found, Loads
    <3> QED BY <2>1, <2>3, <3>3, <3>4, ParquetRejects
  <2> QED BY <2>2, <2>3
<1> QED BY <1>1, Graders, PTL
=============================================================================
