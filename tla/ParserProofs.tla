---------------------------- MODULE ParserProofs ----------------------------
(***************************************************************************)
(* Proofs about the reading of reports.  FieldValue, for reports, bytes    *)
(* and fields of any width: its types, and that a field is worth the       *)
(* number its bits stand for.  ReportParser, for descriptors of any        *)
(* length with any usages, report ids, sizes and counts: its types, and    *)
(* that each axis is read from where its report has it.                    *)
(***************************************************************************)
EXTENDS ReportParser, FieldValue, SequenceTheorems, WellFoundedInduction, TLAPS

-----------------------------------------------------------------------------
(* Numbers.                                                                *)

\* A set of numbers has a least one.
LEMMA LeastExists ==
  ASSUME NEW S \in SUBSET Nat, S # {}
  PROVE  \E i \in S : \A j \in S : i <= j
<1> DEFINE Below == {p \in Nat \X Nat : p[1] < p[2]}
<1>1. IsWellFoundedOn(Below, Nat)
  BY NatLessThanWellFounded DEF OpToRel
<1> HIDE DEF Below
<1>2. PICK i \in S : \A j \in S : ~(<< j, i >> \in Below)
  BY <1>1, WFMin
<1>3. \A j \in S : i <= j
  <2> TAKE j \in S
  <2>1. i \in Nat /\ j \in Nat /\ << j, i >> \notin Below
    BY <1>2
  <2> QED
    BY <2>1 DEF Below
<1> QED
  BY <1>3

\* Induction, with a set in place of a formula.
LEMMA AllNumbers ==
  ASSUME NEW S \in SUBSET Nat, 0 \in S, \A n \in S : n + 1 \in S
  PROVE  S = Nat
<1> DEFINE Missing == Nat \ S
<1>1. SUFFICES ASSUME Missing # {} PROVE FALSE
  BY DEF Missing
<1>2. PICK least \in Missing : \A j \in Missing : least <= j
  BY <1>1, LeastExists
<1>3. least \in Nat /\ least # 0
  OBVIOUS
<1>4. least - 1 \in Nat /\ ~(least <= least - 1) /\ (least - 1) + 1 = least
  BY <1>3
<1>5. least - 1 \in S
  BY <1>2, <1>4
<1> QED
  BY <1>4, <1>5

\* The powers of two up to n.
Doubles(n) ==
  {f \in [0..n -> Nat] : f[0] = 1 /\ \A m \in 0..n : m > 0 => f[m] = 2 * f[m - 1]}

LEMMA DoublesAgree ==
  ASSUME NEW n \in Nat, NEW k \in Nat, NEW f \in Doubles(n), NEW g \in Doubles(k)
  PROVE  \A m \in 0..n : m <= k => f[m] = g[m]
<1> DEFINE S == {m \in Nat : m <= n /\ m <= k => f[m] = g[m]}
<1>1. 0 \in S
  BY DEF Doubles
<1>2. ASSUME NEW m \in S PROVE m + 1 \in S
  <2> SUFFICES ASSUME m + 1 <= n, m + 1 <= k PROVE f[m + 1] = g[m + 1]
    OBVIOUS
  <2>1. m \in Nat /\ f[m] = g[m] /\ m + 1 \in 0..n /\ m + 1 \in 0..k /\ m + 1 > 0
        /\ (m + 1) - 1 = m
    OBVIOUS
  <2>2. f[m + 1] = 2 * f[(m + 1) - 1] /\ g[m + 1] = 2 * g[(m + 1) - 1]
    BY <2>1 DEF Doubles
  <2> QED
    BY <2>1, <2>2
<1> HIDE DEF S
<1>3. S = Nat
  <2>1. S \in SUBSET Nat
    BY DEF S
  <2> QED
    BY <1>1, <1>2, <2>1, AllNumbers
<1> QED
  BY <1>3 DEF S

LEMMA DoublesExist ==
  ASSUME NEW n \in Nat
  PROVE  Doubles(n) # {}
<1> DEFINE S == {m \in Nat : Doubles(m) # {}}
<1>1. 0 \in S
  <2>1. [m \in 0..0 |-> 1] \in Doubles(0)
    BY DEF Doubles
  <2> QED
    BY <2>1
<1>2. ASSUME NEW m \in S PROVE m + 1 \in S
  <2>1. PICK f : f \in Doubles(m)
    OBVIOUS
  <2> DEFINE g == [i \in 0..(m + 1) |-> IF i <= m THEN f[i] ELSE 2 * f[m]]
  <2>2. m \in Nat /\ f \in [0..m -> Nat] /\ f[0] = 1
        /\ \A i \in 0..m : i > 0 => f[i] = 2 * f[i - 1]
    BY <2>1 DEF Doubles
  <2>3. g \in [0..(m + 1) -> Nat]
    BY <2>2
  <2>4. g[0] = 1
    BY <2>2
  <2>5. \A i \in 0..(m + 1) : i > 0 => g[i] = 2 * g[i - 1]
    BY <2>2
  <2>6. g \in Doubles(m + 1)
    BY <2>3, <2>4, <2>5 DEF Doubles
  <2> QED
    BY <2>2, <2>6
<1> HIDE DEF S
<1>3. S = Nat
  <2>1. S \in SUBSET Nat
    BY DEF S
  <2> QED
    BY <1>1, <1>2, <2>1, AllNumbers
<1> QED
  BY <1>3 DEF S

\* The recursive equation of TwoTo has a solution.
LEMMA TwoToDefined == TwoTo = [n \in Nat |-> IF n = 0 THEN 1 ELSE 2 * TwoTo[n - 1]]
<1> DEFINE upTo(n) == CHOOSE f : f \in Doubles(n)
           f == [n \in Nat |-> upTo(n)[n]]
<1>1. \A n \in Nat : upTo(n) \in Doubles(n)
  BY DoublesExist
<1> HIDE DEF upTo
<1>2. \A n \in Nat : f[n] = IF n = 0 THEN 1 ELSE 2 * f[n - 1]
  <2> TAKE n \in Nat
  <2>1. CASE n = 0
    BY <1>1, <2>1 DEF Doubles
  <2>2. CASE n # 0
    <3>1. n - 1 \in Nat /\ n \in 0..n /\ n > 0 /\ n - 1 <= n /\ n - 1 \in 0..(n - 1)
      BY <2>2
    <3>2. upTo(n)[n] = 2 * upTo(n)[n - 1]
      BY <1>1, <3>1 DEF Doubles
    <3>3. upTo(n - 1)[n - 1] = upTo(n)[n - 1]
      BY <1>1, <3>1, DoublesAgree
    <3> QED
      BY <2>2, <3>1, <3>2, <3>3
  <2> QED
    BY <2>1, <2>2
<1>3. f = [n \in Nat |-> IF n = 0 THEN 1 ELSE 2 * f[n - 1]]
  BY <1>2
<1> HIDE DEF f
<1>4. \E g : g = [n \in Nat |-> IF n = 0 THEN 1 ELSE 2 * g[n - 1]]
  BY <1>3
<1> QED
  BY <1>4 DEF TwoTo

LEMMA TwoToStep ==
  /\ TwoTo[0] = 1
  /\ \A n \in Nat : TwoTo[n + 1] = 2 * TwoTo[n]
<1>1. TwoTo[0] = 1
  BY TwoToDefined
<1>2. ASSUME NEW n \in Nat PROVE TwoTo[n + 1] = 2 * TwoTo[n]
  <2>1. n + 1 \in Nat /\ n + 1 # 0 /\ (n + 1) - 1 = n
    OBVIOUS
  <2>2. TwoTo[n + 1] = IF n + 1 = 0 THEN 1 ELSE 2 * TwoTo[(n + 1) - 1]
    BY <2>1, TwoToDefined
  <2> QED
    BY <2>1, <2>2
<1> QED
  BY <1>1, <1>2

LEMMA TwoToType == \A n \in Nat : TwoTo[n] \in Nat \ {0}
<1> DEFINE S == {n \in Nat : TwoTo[n] \in Nat \ {0}}
<1>1. 0 \in S
  BY TwoToStep
<1>2. ASSUME NEW n \in S PROVE n + 1 \in S
  <2>1. n \in Nat /\ TwoTo[n] \in Nat \ {0} /\ TwoTo[n + 1] = 2 * TwoTo[n]
    BY TwoToStep
  <2> QED
    BY <2>1
<1> HIDE DEF S
<1>3. S = Nat
  <2>1. S \in SUBSET Nat
    BY DEF S
  <2> QED
    BY <1>1, <1>2, <2>1, AllNumbers
<1> QED
  BY <1>3 DEF S

LEMMA TwoToSum ==
  ASSUME NEW m \in Nat, NEW n \in Nat
  PROVE  TwoTo[m + n] = TwoTo[m] * TwoTo[n]
<1> DEFINE S == {k \in Nat : TwoTo[m + k] = TwoTo[m] * TwoTo[k]}
<1>1. 0 \in S
  <2>1. TwoTo[m] \in Nat /\ TwoTo[0] = 1 /\ m + 0 = m
    BY TwoToType, TwoToStep
  <2> QED
    BY <2>1
<1>2. ASSUME NEW k \in S PROVE k + 1 \in S
  <2>1. /\ k \in Nat /\ TwoTo[m + k] = TwoTo[m] * TwoTo[k]
        /\ TwoTo[k + 1] = 2 * TwoTo[k] /\ TwoTo[(m + k) + 1] = 2 * TwoTo[m + k]
        /\ TwoTo[m] \in Nat /\ TwoTo[k] \in Nat /\ (m + k) + 1 = m + (k + 1)
    <3>1. k \in Nat /\ m + k \in Nat /\ TwoTo[m + k] = TwoTo[m] * TwoTo[k]
      OBVIOUS
    <3> QED
      BY <3>1, TwoToType, TwoToStep
  <2>2. \A a, b \in Nat : 2 * (a * b) = a * (2 * b)
    OBVIOUS
  <2>3. TwoTo[m + (k + 1)] = TwoTo[m] * TwoTo[k + 1]
    BY <2>1, <2>2
  <2> QED
    BY <2>1, <2>3
<1> HIDE DEF S
<1>3. S = Nat
  <2>1. S \in SUBSET Nat
    BY DEF S
  <2> QED
    BY <1>1, <1>2, <2>1, AllNumbers
<1> QED
  BY <1>3 DEF S

-----------------------------------------------------------------------------
\* Quotient and remainder are the only ones.
LEMMA DivUnique ==
  ASSUME NEW d \in Nat \ {0}, NEW q \in Int, NEW r \in 0..(d - 1), NEW a \in Int,
         a = d * q + r
  PROVE  a \div d = q /\ a % d = r
<1> DEFINE p == a \div d
           s == a % d
<1>1. p \in Int /\ s \in 0..(d - 1) /\ a = d * p + s
  OBVIOUS
<1> HIDE DEF p, s
<1>2. d * (p - q) = r - s
  BY <1>1
<1>3. p = q
  <2>1. CASE p - q >= 1
    <3>1. d * (p - q) >= d
      BY <1>1, <2>1
    <3> QED
      BY <1>1, <1>2, <3>1
  <2>2. CASE p - q <= -1
    <3>1. d * (p - q) <= -d
      BY <1>1, <2>2
    <3> QED
      BY <1>1, <1>2, <3>1
  <2> QED
    BY <1>1, <2>1, <2>2
<1>4. s = r
  BY <1>1, <1>2, <1>3
<1> QED
  BY <1>3, <1>4 DEF p, s

LEMMA DivEquation ==
  ASSUME NEW a \in Int, NEW d \in Nat \ {0}
  PROVE  a \div d \in Int /\ a % d \in 0..(d - 1) /\ a = d * (a \div d) + (a % d)
OBVIOUS

\* Adding a multiple of the divisor adds to the quotient.
LEMMA DivOfSum ==
  ASSUME NEW a \in Int, NEW d \in Nat \ {0}, NEW m \in Int
  PROVE  (a + m * d) \div d = a \div d + m /\ (a + m * d) % d = a % d
<1> DEFINE q == a \div d
           r == a % d
<1>1. q \in Int /\ r \in 0..(d - 1) /\ a = d * q + r
  BY DivEquation
<1> HIDE DEF q, r
<1>2. a + m * d = d * (q + m) + r
  BY <1>1
<1>3. a + m * d \in Int /\ q + m \in Int
  BY <1>1
<1>4. (a + m * d) \div d = q + m /\ (a + m * d) % d = r
  BY <1>1, <1>2, <1>3, DivUnique
<1> QED
  BY <1>4 DEF q, r

\* Dividing twice is dividing by the product.
LEMMA DivTwice ==
  ASSUME NEW a \in Int, NEW b \in Nat \ {0}, NEW c \in Nat \ {0}
  PROVE  (a \div b) \div c = a \div (b * c)
<1> DEFINE p == a \div b
           r == a % b
           q == p \div c
           s == p % c
<1>1. p \in Int /\ r \in 0..(b - 1) /\ a = b * p + r
  BY DivEquation
<1>2. q \in Int /\ s \in 0..(c - 1) /\ p = c * q + s
  BY <1>1, DivEquation
<1> HIDE DEF p, r, q, s
<1>3. a = (b * c) * q + (b * s + r)
  <2>1. a = b * (c * q + s) + r
    BY <1>1, <1>2
  <2> QED
    BY <1>1, <1>2, <2>1
<1>4. b * s + r \in 0..(b * c - 1)
  <2>1. b * s >= 0 /\ b * s <= b * (c - 1)
    BY <1>2
  <2>2. b * (c - 1) = b * c - b
    OBVIOUS
  <2> QED
    BY <1>1, <1>2, <2>1, <2>2
<1>5. b * c \in Nat \ {0} /\ b * s + r \in Int
  BY <1>1, <1>2
<1>6. a \div (b * c) = q
  BY <1>2, <1>3, <1>4, <1>5, DivUnique
<1> QED
  BY <1>6 DEF q, p

-----------------------------------------------------------------------------
(* Bits.                                                                   *)

LEMMA BitType ==
  ASSUME NEW v \in Int, NEW i \in Nat
  PROVE  Bit(v, i) \in 0..1
<1>1. TwoTo[i] \in Nat \ {0}
  BY TwoToType
<1>2. v \div TwoTo[i] \in Int
  BY <1>1, DivEquation
<1> QED
  BY <1>2 DEF Bit

\* What is added above a bit leaves it alone.
LEMMA BitBelow ==
  ASSUME NEW v \in Int, NEW b \in Int, NEW t \in Nat, NEW i \in Nat, i < t
  PROVE  Bit(v + b * TwoTo[t], i) = Bit(v, i)
<1> DEFINE k == t - (i + 1)
           m == b * TwoTo[k]
           q == v \div TwoTo[i]
<1>1. k \in Nat /\ t = (i + 1) + k /\ i + 1 \in Nat
  OBVIOUS
<1>2. TwoTo[i] \in Nat \ {0} /\ TwoTo[k] \in Nat \ {0} /\ TwoTo[t] \in Nat
      /\ TwoTo[i + 1] = 2 * TwoTo[i]
  BY <1>1, TwoToType, TwoToStep
<1> HIDE DEF k
<1>3. TwoTo[t] = TwoTo[i + 1] * TwoTo[k]
  BY <1>1, TwoToSum
<1>4. m \in Int
  BY <1>2
<1>5. b * TwoTo[t] = (m * 2) * TwoTo[i]
  <2>1. \A x, y, z \in Int : x * ((2 * y) * z) = ((x * z) * 2) * y
    OBVIOUS
  <2> QED
    BY <1>2, <1>3, <2>1
<1> HIDE DEF m
<1>6. (v + (m * 2) * TwoTo[i]) \div TwoTo[i] = q + m * 2
  <2>1. m * 2 \in Int
    BY <1>4
  <2> QED
    BY <1>2, <2>1, DivOfSum
<1>7. q \in Int
  BY <1>2, DivEquation
<1> HIDE DEF q
<1>8. (q + m * 2) % 2 = q % 2
  BY <1>4, <1>7
<1> QED
  BY <1>5, <1>6, <1>8 DEF Bit, q

\* Shifting twice.
LEMMA ShiftTwice ==
  ASSUME NEW v \in Int, NEW s \in Nat, NEW j \in Nat
  PROVE  (v \div TwoTo[s]) \div TwoTo[j] = v \div TwoTo[s + j]
<1>1. TwoTo[s] \in Nat \ {0} /\ TwoTo[j] \in Nat \ {0}
  BY TwoToType
<1>2. TwoTo[s + j] = TwoTo[s] * TwoTo[j]
  BY TwoToSum
<1>3. (v \div TwoTo[s]) \div TwoTo[j] = v \div (TwoTo[s] * TwoTo[j])
  BY <1>1, DivTwice
<1> QED
  BY <1>2, <1>3, Zenon

\* Bits put above a number are found there.
LEMMA BitAbove ==
  ASSUME NEW t \in Nat, NEW v \in 0..(TwoTo[t] - 1), NEW b \in Int, NEW j \in Nat
  PROVE  Bit(v + b * TwoTo[t], t + j) = Bit(b, j)
<1>1. TwoTo[t] \in Nat \ {0}
  BY TwoToType
<1> DEFINE w == v + b * TwoTo[t]
<1>2. w \in Int /\ w = TwoTo[t] * b + v
  BY <1>1
<1>3. w \div TwoTo[t] = b
  <2> HIDE DEF w
  <2> QED
    BY <1>1, <1>2, DivUnique
<1> HIDE DEF w
<1>4. w \div TwoTo[t + j] = (w \div TwoTo[t]) \div TwoTo[j]
  BY <1>2, ShiftTwice
<1> QED
  BY <1>3, <1>4 DEF Bit, w

\* Shifting and masking.
LEMMA BitOfShifted ==
  ASSUME NEW v \in Int, NEW s \in Nat, NEW j \in Nat
  PROVE  Bit(v \div TwoTo[s], j) = Bit(v, s + j)
  BY ShiftTwice, Zenon DEF Bit

LEMMA BitOfMasked ==
  ASSUME NEW v \in Int, NEW k \in Nat, NEW j \in Nat, j < k
  PROVE  Bit(v % TwoTo[k], j) = Bit(v, j)
<1> DEFINE q == v \div TwoTo[k]
           r == v % TwoTo[k]
<1>1. TwoTo[k] \in Nat \ {0}
  BY TwoToType
<1>2. q \in Int /\ r \in Int /\ v = TwoTo[k] * q + r
  <2>1. q \in Int /\ r \in 0..(TwoTo[k] - 1) /\ v = TwoTo[k] * q + r
    BY <1>1, DivEquation
  <2> QED
    BY <1>1, <2>1
<1> HIDE DEF q, r
<1>3. v = r + q * TwoTo[k]
  BY <1>1, <1>2
<1>4. Bit(v, j) = Bit(r, j)
  BY <1>2, <1>3, BitBelow
<1> QED
  BY <1>4 DEF r

-----------------------------------------------------------------------------
\* Numbers with the same lowest bits differ by a multiple of the next power of two.
LEMMA SameLowBits ==
  ASSUME NEW n \in Nat, NEW v \in Int, NEW w \in Int,
         \A i \in 0..(n - 1) : Bit(v, i) = Bit(w, i)
  PROVE  v % TwoTo[n] = w % TwoTo[n]
<1> DEFINE S == {k \in Nat : k <= n => v % TwoTo[k] = w % TwoTo[k]}
<1>1. 0 \in S
  <2>1. TwoTo[0] = 1 /\ v % 1 = 0 /\ w % 1 = 0
    BY TwoToStep
  <2> QED
    BY <2>1
<1>2. ASSUME NEW k \in Nat, NEW x \in Int
      PROVE  x % TwoTo[k + 1] = (x % TwoTo[k]) + (TwoTo[k] * Bit(x, k))
  <2> DEFINE q == x \div TwoTo[k]
             r == x % TwoTo[k]
             h == q \div 2
             b == q % 2
             d == TwoTo[k]
  <2>1. d \in Nat \ {0} /\ TwoTo[k + 1] = 2 * d
    BY TwoToType, TwoToStep
  <2>2. q \in Int /\ r \in 0..(d - 1) /\ x = d * q + r
    BY <2>1, DivEquation
  <2> HIDE DEF q, r, d
  <2>3. h \in Int /\ b \in 0..1 /\ q = 2 * h + b
    BY <2>2, DivEquation
  <2> HIDE DEF h, b
  <2>4. x = (2 * d) * h + (r + d * b)
    <3>1. d * (2 * h + b) = (2 * d) * h + d * b
      BY <2>1, <2>3
    <3> QED
      BY <2>1, <2>2, <2>3, <3>1
  <2>5. r + d * b \in 0..(2 * d - 1) /\ 2 * d \in Nat \ {0}
    <3>1. d * b = 0 \/ d * b = d
      BY <2>1, <2>3
    <3> QED
      BY <2>1, <2>2, <3>1
  <2>6. x % (2 * d) = r + d * b
    BY <2>3, <2>4, <2>5, DivUnique
  <2> QED
    BY <2>1, <2>6 DEF Bit, q, r, h, b, d
<1>3. ASSUME NEW k \in S PROVE k + 1 \in S
  <2> SUFFICES ASSUME k + 1 <= n PROVE v % TwoTo[k + 1] = w % TwoTo[k + 1]
    OBVIOUS
  <2>1. k \in Nat /\ k \in 0..(n - 1) /\ v % TwoTo[k] = w % TwoTo[k]
    OBVIOUS
  <2> QED
    BY <1>2, <2>1
<1> HIDE DEF S
<1>4. S = Nat
  <2>1. S \in SUBSET Nat
    BY DEF S
  <2> QED
    BY <1>1, <1>3, <2>1, AllNumbers
<1> QED
  BY <1>4 DEF S

\* The bits of a field stand for one number of its range.
THEOREM OneNumberPerBits ==
  ASSUME NEW n \in Nat \ {0}, NEW v \in Numbers(n), NEW w \in Numbers(n),
         \A i \in 0..(n - 1) : Bit(v, i) = Bit(w, i)
  PROVE  v = w
<1> DEFINE d == TwoTo[n]
           r == v % d
           p == v \div d
           q == w \div d
<1>1. d \in Nat \ {0} /\ TwoTo[n - 1] \in Nat /\ d = 2 * TwoTo[n - 1] /\ n - 1 \in Nat
  <2>1. n - 1 \in Nat /\ (n - 1) + 1 = n
    OBVIOUS
  <2> QED
    BY <2>1, TwoToType, TwoToStep
<1>2. v \in Int /\ w \in Int /\ v - w < d /\ w - v < d
  <2>1. CASE n = 1
    <3>1. TwoTo[0] = 1 /\ n - 1 = 0
      BY <2>1, TwoToStep
    <3> QED
      BY <1>1, <2>1, <3>1 DEF Numbers
  <2>2. CASE n # 1
    BY <1>1, <2>2 DEF Numbers
  <2> QED
    BY <2>1, <2>2
<1>3. r = w % d
  BY <1>2, SameLowBits
<1> HIDE DEF d
<1>4. p \in Int /\ q \in Int /\ r \in Int /\ v = d * p + r /\ w = d * q + r
  <2>1. p \in Int /\ r \in 0..(d - 1) /\ v = d * p + r
    BY <1>1, <1>2, DivEquation
  <2>2. q \in Int /\ w % d \in 0..(d - 1) /\ w = d * q + (w % d)
    BY <1>1, <1>2, DivEquation
  <2> QED
    BY <1>1, <1>3, <2>1, <2>2
<1> HIDE DEF p, q, r
<1>5. v - w = d * (p - q) /\ p - q \in Int
  BY <1>1, <1>4
<1>6. CASE p - q >= 1
  <2>1. d * (p - q) >= d
    BY <1>1, <1>4, <1>6
  <2> QED
    BY <1>1, <1>2, <1>5, <2>1
<1>7. CASE p - q <= -1
  <2>1. d * (q - p) >= d /\ d * (p - q) = -(d * (q - p))
    BY <1>1, <1>4, <1>7
  <2> QED
    BY <1>1, <1>2, <1>4, <1>5, <2>1
<1> QED
  BY <1>1, <1>4, <1>5, <1>6, <1>7

-----------------------------------------------------------------------------
(* Taking a field out of a report.                                         *)

\* The loop stands at the next bit of the field, which lies in the report.
AtNextBit ==
  /\ bitOffset + bitSize <= MemoryBits
  /\ ~extracted /\ taken < bitSize => byteOffset * ByteBits + bitShift = bitOffset + taken

\* Only a field that the loop reads gets bits before the end,
NothingYet == ~extracted /\ bitSize \notin 2..MaxBits => taken = 0 /\ value = 0

\* and it has as many as were taken, each at its place.
TakenRightly ==
  ~extracted /\ bitSize \in 2..MaxBits =>
    /\ value \in 0..(TwoTo[taken] - 1)
    /\ \A i \in 0..(taken - 1) : Bit(value, i) = ReportBit(bitOffset + i)

ValueRight ==
  extracted =>
    IF bitSize \in 1..MaxBits
    THEN /\ value \in Numbers(bitSize)
         /\ \A i \in 0..(bitSize - 1) : Bit(value, i) = ReportBit(bitOffset + i)
    ELSE value = 0

FieldInv == FieldTypeOK /\ AtNextBit /\ NothingYet /\ TakenRightly /\ ValueRight

LEMMA FieldInvInit == FieldInit => FieldInv
<1> SUFFICES ASSUME FieldInit PROVE FieldInv
  OBVIOUS
<1>1. /\ ByteBits \in Nat \ {0} /\ Bytes \in Nat \ {0} /\ MaxBits \in Nat \ {0}
      /\ bitOffset \in 0..MemoryBits /\ bitSize \in 0..(MaxBits + 1)
      /\ bitOffset + bitSize <= MemoryBits /\ MemoryBits \in Nat
  BY FieldAssumption DEF FieldInit, MemoryBits
<1>2. /\ bitShift \in 0..(ByteBits - 1) /\ byteOffset \in Int
      /\ bitOffset = ByteBits * byteOffset + bitShift
  <2>1. bitOffset \in Int
    BY <1>1
  <2>2. /\ bitOffset \div ByteBits \in Int /\ bitOffset % ByteBits \in 0..(ByteBits - 1)
        /\ bitOffset = ByteBits * (bitOffset \div ByteBits) + (bitOffset % ByteBits)
    BY <1>1, <2>1, DivEquation
  <2>3. byteOffset = bitOffset \div ByteBits /\ bitShift = bitOffset % ByteBits
    BY DEF FieldInit
  <2> QED
    BY <2>2, <2>3, Zenon
<1>3. byteOffset * ByteBits + bitShift = bitOffset
  BY <1>1, <1>2
<1>4. byteOffset \in 0..Bytes
  <2>1. byteOffset >= 0
    <3>1. SUFFICES ASSUME byteOffset <= -1 PROVE FALSE
      BY <1>2
    <3>2. ByteBits * byteOffset <= -ByteBits
      BY <1>1, <1>2, <3>1
    <3> QED
      BY <1>1, <1>2, <3>2
  <2>2. byteOffset <= Bytes
    <3>1. SUFFICES ASSUME byteOffset >= Bytes + 1 PROVE FALSE
      BY <1>1, <1>2
    <3>2. ByteBits * byteOffset >= ByteBits * (Bytes + 1)
      BY <1>1, <1>2, <3>1
    <3>3. ByteBits * (Bytes + 1) = MemoryBits + ByteBits
      BY <1>1 DEF MemoryBits
    <3> QED
      BY <1>1, <1>2, <3>2, <3>3
  <2> QED
    BY <1>2, <2>1, <2>2
<1>5. TakenRightly
  <2>1. TwoTo[0] = 1 /\ taken = 0 /\ value = 0
    BY TwoToStep DEF FieldInit
  <2>2. value \in 0..(TwoTo[taken] - 1)
    BY <2>1
  <2>3. \A i \in 0..(taken - 1) : FALSE
    BY <2>1
  <2> QED
    BY <2>2, <2>3 DEF TakenRightly
<1>6. taken = 0 /\ value = 0 /\ extracted = FALSE
      /\ report \in [0..(Bytes - 1) -> 0..(TwoTo[ByteBits] - 1)]
  BY DEF FieldInit
<1>7. FieldTypeOK
  <2>1. taken \in 0..bitSize /\ value \in Int
    BY <1>1, <1>6
  <2> QED
    BY <1>1, <1>2, <1>4, <1>6, <2>1, Zenon DEF FieldTypeOK
<1>8. AtNextBit
  BY <1>1, <1>3, <1>6 DEF AtNextBit
<1> QED
  BY <1>5, <1>6, <1>7, <1>8 DEF FieldInv, NothingYet, ValueRight

\* While bits are missing the next byte is there, and one of a report that has the field.
LEMMA ByteInReport ==
  ASSUME FieldInv, ~extracted, taken < bitSize
  PROVE  /\ byteOffset \in 0..(Bytes - 1) /\ report[byteOffset] \in Int
         /\ \A length \in 0..Bytes : bitOffset + bitSize <= length * ByteBits =>
              byteOffset < length
<1>1. /\ ByteBits \in Nat \ {0} /\ Bytes \in Nat \ {0} /\ byteOffset \in Nat
      /\ bitShift \in Nat /\ bitOffset \in Nat /\ bitSize \in Nat /\ taken \in Nat
      /\ byteOffset * ByteBits + bitShift = bitOffset + taken
      /\ bitOffset + bitSize <= Bytes * ByteBits
      /\ report \in [0..(Bytes - 1) -> 0..(TwoTo[ByteBits] - 1)]
  BY FieldAssumption DEF FieldInv, FieldTypeOK, AtNextBit, MemoryBits
<1>a. ASSUME NEW length \in 0..Bytes, bitOffset + bitSize <= length * ByteBits
      PROVE  byteOffset < length
  <2>1. length \in Nat
    BY <1>1
  <2>2. SUFFICES ASSUME byteOffset >= length PROVE FALSE
    BY <1>1, <2>1
  <2>3. byteOffset * ByteBits >= length * ByteBits
    BY <1>1, <2>1, <2>2
  <2>4. length * ByteBits \in Nat /\ byteOffset * ByteBits \in Nat
    BY <1>1, <2>1
  <2> QED
    BY <1>1, <1>a, <2>3, <2>4
<1>2. byteOffset < Bytes
  <2>1. Bytes \in 0..Bytes
    BY <1>1
  <2> QED
    BY <1>1, <1>a, <2>1
<1>3. byteOffset \in 0..(Bytes - 1)
  BY <1>1, <1>2
<1>4. TwoTo[ByteBits] \in Nat
  BY <1>1, TwoToType
<1> QED
  BY <1>1, <1>3, <1>4, <1>a

\* The bits of that byte from the shift on are the next ones of the field.
LEMMA NextBits ==
  ASSUME FieldInv, ~extracted, taken < bitSize, NEW j \in Nat, bitShift + j < ByteBits
  PROVE  ReportBit(bitOffset + (taken + j)) = Bit(report[byteOffset], bitShift + j)
<1>1. /\ ByteBits \in Nat \ {0} /\ byteOffset \in Nat /\ bitShift \in Nat
      /\ bitOffset \in Nat /\ taken \in Nat
      /\ byteOffset * ByteBits + bitShift = bitOffset + taken
  BY FieldAssumption DEF FieldInv, FieldTypeOK, AtNextBit, MemoryBits
<1> DEFINE a == bitOffset + (taken + j)
           s == bitShift + j
<1>2. a \in Int /\ s \in 0..(ByteBits - 1) /\ byteOffset \in Int
      /\ a = ByteBits * byteOffset + s
  BY <1>1
<1> HIDE DEF a, s
<1>3. a \div ByteBits = byteOffset /\ a % ByteBits = s
  BY <1>1, <1>2, DivUnique
<1> QED
  BY <1>3 DEF ReportBit, a, s

LEMMA TakeBitsKeeps ==
  ASSUME FieldInv, TakeBits
  PROVE  FieldInv'
<1> DEFINE R == BitsToRead
           bits == (report[byteOffset] \div TwoTo[bitShift]) % TwoTo[R]
           byte == report[byteOffset] \div TwoTo[bitShift]
<1>1. /\ ByteBits \in Nat \ {0} /\ Bytes \in Nat \ {0} /\ byteOffset \in Nat
      /\ bitShift \in 0..(ByteBits - 1) /\ bitOffset \in Nat /\ bitSize \in Nat
      /\ taken \in Nat
      /\ byteOffset * ByteBits + bitShift = bitOffset + taken
      /\ value \in 0..(TwoTo[taken] - 1)
      /\ \A i \in 0..(taken - 1) : Bit(value, i) = ReportBit(bitOffset + i)
  BY FieldAssumption DEF FieldInv, FieldTypeOK, AtNextBit, TakenRightly, TakeBits
<1>2. /\ ~extracted /\ taken < bitSize /\ bitSize \in 2..MaxBits
      /\ value' = value + bits * TwoTo[taken] /\ taken' = taken + R
      /\ byteOffset' = byteOffset + 1 /\ bitShift' = 0
      /\ UNCHANGED << report, bitOffset, bitSize, extracted >>
  BY DEF TakeBits, Inputs
<1>3. byteOffset \in 0..(Bytes - 1) /\ report[byteOffset] \in Int
  BY <1>2, ByteInReport
<1>4. /\ R \in Nat \ {0} /\ bitShift + R <= ByteBits /\ taken + R <= bitSize
      /\ taken + R < bitSize => bitShift + R = ByteBits
  BY <1>1, <1>2 DEF BitsToRead
<1> HIDE DEF R
<1>5. TwoTo[R] \in Nat \ {0} /\ TwoTo[bitShift] \in Nat \ {0} /\ TwoTo[taken] \in Nat \ {0}
  <2>1. R \in Nat /\ bitShift \in Nat /\ taken \in Nat
    BY <1>1, <1>4
  <2> QED
    BY <2>1, TwoToType
<1>6. byte \in Int
  BY <1>3, <1>5, DivEquation
<1>7. bits \in 0..(TwoTo[R] - 1)
  <2> HIDE DEF byte
  <2>1. byte % TwoTo[R] \in 0..(TwoTo[R] - 1)
    BY <1>5, <1>6, DivEquation
  <2> QED
    BY <2>1 DEF byte
<1>8. ASSUME NEW j \in Nat, j < R
      PROVE  Bit(bits, j) = ReportBit(bitOffset + (taken + j))
  <2>1. Bit(bits, j) = Bit(byte, j)
    <3> HIDE DEF byte
    <3>1. Bit(byte % TwoTo[R], j) = Bit(byte, j)
      BY <1>4, <1>6, <1>8, BitOfMasked
    <3> QED
      BY <3>1 DEF byte
  <2>2. Bit(byte, j) = Bit(report[byteOffset], bitShift + j)
    <3>1. bitShift \in Nat /\ report[byteOffset] \in Int
      BY <1>1, <1>3
    <3> QED
      BY <1>8, <3>1, BitOfShifted
  <2>3. ReportBit(bitOffset + (taken + j)) = Bit(report[byteOffset], bitShift + j)
    BY <1>1, <1>2, <1>4, <1>8, NextBits
  <2> QED
    BY <2>1, <2>2, <2>3
<1> HIDE DEF bits, byte
<1>9. value' \in 0..(TwoTo[taken'] - 1)
  <2>1. TwoTo[taken + R] = TwoTo[taken] * TwoTo[R]
    BY <1>1, <1>4, TwoToSum
  <2>2. \A x, y \in Nat \ {0} : \A v \in 0..(x - 1), b \in 0..(y - 1) :
          v + b * x \in 0..(x * y - 1)
    <3> TAKE x, y \in Nat \ {0}
    <3> TAKE v \in 0..(x - 1), b \in 0..(y - 1)
    <3>1. b * x >= 0 /\ b * x <= (y - 1) * x
      OBVIOUS
    <3>2. (y - 1) * x = x * y - x
      OBVIOUS
    <3> QED
      BY <3>1, <3>2
  <2>3. value + bits * TwoTo[taken] \in 0..(TwoTo[taken] * TwoTo[R] - 1)
    BY <1>1, <1>5, <1>7, <2>2
  <2> QED
    BY <1>2, <2>1, <2>3
<1>10. \A i \in 0..(taken' - 1) : Bit(value', i) = ReportBit(bitOffset + i)
  <2> TAKE i \in 0..(taken' - 1)
  <2>0. value \in Int /\ bits \in Int /\ i \in 0..((taken + R) - 1) /\ i \in Nat
    BY <1>1, <1>2, <1>4, <1>5, <1>7
  <2> SUFFICES Bit(value + bits * TwoTo[taken], i) = ReportBit(bitOffset + i)
    BY <1>2
  <2>1. CASE i < taken
    <3>1. Bit(value + bits * TwoTo[taken], i) = Bit(value, i)
      BY <1>1, <2>0, <2>1, BitBelow
    <3>2. i \in 0..(taken - 1)
      BY <1>1, <2>0, <2>1
    <3> QED
      BY <1>1, <3>1, <3>2
  <2>2. CASE i >= taken
    <3>1. PICK j \in Nat : i = taken + j /\ j < R
      <4>1. i - taken \in Nat /\ i = taken + (i - taken) /\ i - taken < R
        BY <1>1, <1>4, <2>0, <2>2
      <4> QED
        BY <4>1
    <3>2. Bit(value + bits * TwoTo[taken], taken + j) = Bit(bits, j)
      BY <1>1, <2>0, BitAbove
    <3> QED
      BY <1>8, <3>1, <3>2
  <2> QED
    BY <1>1, <2>0, <2>1, <2>2
<1>11. \A i : ReportBit(i)' = ReportBit(i)
  BY <1>2 DEF ReportBit
<1>12. TakenRightly'
  BY <1>2, <1>9, <1>10, <1>11 DEF TakenRightly
<1>13. AtNextBit'
  <2>1. taken + R < bitSize => (byteOffset + 1) * ByteBits = bitOffset + (taken + R)
    BY <1>1, <1>4
  <2> QED
    BY <1>1, <1>2, <2>1 DEF AtNextBit, FieldInv, MemoryBits
<1>14. FieldTypeOK'
  <2>1. taken' \in 0..bitSize' /\ byteOffset' \in 0..Bytes /\ bitShift' \in 0..(ByteBits - 1)
        /\ value' \in Int
    <3>1. TwoTo[taken'] \in Nat
      BY <1>1, <1>2, <1>4, TwoToType
    <3> QED
      BY <1>1, <1>2, <1>3, <1>4, <1>9, <3>1
  <2>2. FieldTypeOK
    BY DEF FieldInv
  <2> QED
    BY <1>2, <2>1, <2>2 DEF FieldTypeOK, MemoryBits
<1> QED
  BY <1>2, <1>12, <1>13, <1>14 DEF FieldInv, NothingYet, ValueRight

LEMMA TakeSingleBitKeeps ==
  ASSUME FieldInv, TakeSingleBit
  PROVE  FieldInv'
<1>1. /\ ~extracted /\ bitSize = 1 /\ extracted' = TRUE
      /\ value' = Bit(report[byteOffset], bitShift)
      /\ UNCHANGED << report, bitOffset, bitSize, byteOffset, bitShift, taken >>
  BY DEF TakeSingleBit, Inputs
<1>2. taken = 0 /\ taken < bitSize /\ bitShift \in Nat /\ bitShift < ByteBits
      /\ bitOffset \in Nat /\ ByteBits \in Nat
  BY <1>1, FieldAssumption DEF FieldInv, NothingYet, FieldTypeOK, MemoryBits
<1>3. report[byteOffset] \in Int
  BY <1>1, <1>2, ByteInReport
<1>4. value' \in 0..1
  BY <1>1, <1>2, <1>3, BitType
<1>5. Bit(value', 0) = value'
  <2>1. TwoTo[0] = 1
    BY TwoToStep
  <2>2. \A b \in 0..1 : (b \div 1) % 2 = b
    OBVIOUS
  <2> QED
    BY <1>4, <2>1, <2>2 DEF Bit
<1>6. value' = ReportBit(bitOffset)
  <2>1. ReportBit(bitOffset + (taken + 0)) = Bit(report[byteOffset], bitShift + 0)
    BY <1>1, <1>2, NextBits
  <2>2. bitOffset + (taken + 0) = bitOffset /\ bitShift + 0 = bitShift
    BY <1>2
  <2> QED
    BY <1>1, <2>1, <2>2
<1>7. \A i \in 0..(bitSize - 1) : Bit(value', i) = ReportBit(bitOffset + i)
  <2> TAKE i \in 0..(bitSize - 1)
  <2>1. i = 0 /\ bitOffset + i = bitOffset
    BY <1>1, <1>2
  <2> QED
    BY <1>5, <1>6, <2>1
<1>8. ValueRight'
  <2>1. value' \in Numbers(bitSize)
    BY <1>1, <1>4 DEF Numbers
  <2>2. bitSize \in 1..MaxBits
    BY <1>1, FieldAssumption
  <2>3. \A i : ReportBit(i)' = ReportBit(i)
    BY <1>1 DEF ReportBit
  <2> QED
    BY <1>1, <1>7, <2>1, <2>2, <2>3 DEF ValueRight
<1>9. value' \in Int
  BY <1>4
<1> QED
  BY <1>1, <1>8, <1>9
  DEF FieldInv, FieldTypeOK, AtNextBit, NothingYet, TakenRightly, MemoryBits

LEMMA ExtendSignKeeps ==
  ASSUME FieldInv, ExtendSign
  PROVE  FieldInv'
<1>1. /\ ~extracted /\ bitSize \in 2..MaxBits /\ taken = bitSize /\ extracted' = TRUE
      /\ value' = IF value >= TwoTo[bitSize - 1] THEN value - TwoTo[bitSize] ELSE value
      /\ UNCHANGED << report, bitOffset, bitSize, byteOffset, bitShift, taken >>
  BY DEF ExtendSign, Inputs
<1>2. /\ value \in 0..(TwoTo[bitSize] - 1)
      /\ \A i \in 0..(bitSize - 1) : Bit(value, i) = ReportBit(bitOffset + i)
  BY <1>1 DEF FieldInv, TakenRightly
<1>3. bitSize \in Nat /\ bitSize # 1 /\ bitSize - 1 \in Nat /\ bitSize \in 1..MaxBits
      /\ (bitSize - 1) + 1 = bitSize
  BY <1>1, FieldAssumption
<1>4. TwoTo[bitSize] \in Nat \ {0} /\ TwoTo[bitSize - 1] \in Nat
      /\ TwoTo[bitSize] = 2 * TwoTo[bitSize - 1]
  BY <1>3, TwoToType, TwoToStep
<1>5. value' \in Numbers(bitSize) /\ value' \in Int
  BY <1>1, <1>2, <1>3, <1>4 DEF Numbers
<1>6. \A i \in 0..(bitSize - 1) : Bit(value', i) = Bit(value, i)
  <2> TAKE i \in 0..(bitSize - 1)
  <2>1. i \in Nat /\ i < bitSize /\ value \in Int /\ -1 \in Int
    BY <1>2, <1>3, <1>4
  <2>2. Bit(value + (-1) * TwoTo[bitSize], i) = Bit(value, i)
    BY <1>3, <2>1, BitBelow
  <2>3. value - TwoTo[bitSize] = value + (-1) * TwoTo[bitSize]
    BY <1>4, <2>1
  <2> QED
    BY <1>1, <2>2, <2>3
<1>7. \A i : ReportBit(i)' = ReportBit(i)
  BY <1>1 DEF ReportBit
<1>8. ValueRight'
  BY <1>1, <1>2, <1>3, <1>5, <1>6, <1>7 DEF ValueRight
<1> QED
  BY <1>1, <1>5, <1>8
  DEF FieldInv, FieldTypeOK, AtNextBit, NothingYet, TakenRightly, MemoryBits

LEMMA FieldInvNext == FieldInv /\ [FieldNext]_fieldVars => FieldInv'
<1> SUFFICES ASSUME FieldInv, [FieldNext]_fieldVars PROVE FieldInv'
  OBVIOUS
<1>1. CASE RefuseField
  <2>1. /\ ~extracted /\ bitSize \notin 1..MaxBits /\ extracted' = TRUE
        /\ UNCHANGED << report, bitOffset, bitSize, byteOffset, bitShift, taken, value >>
    BY <1>1 DEF RefuseField, Inputs
  <2>2. value = 0
    BY <2>1 DEF FieldInv, NothingYet
  <2> QED
    BY <2>1, <2>2 DEF FieldInv, FieldTypeOK, AtNextBit, NothingYet, TakenRightly,
       ValueRight, MemoryBits
<1>2. CASE UNCHANGED fieldVars
  <2>1. UNCHANGED << report, bitOffset, bitSize, byteOffset, bitShift, taken, value,
                     extracted >>
    BY <1>2 DEF fieldVars
  <2>2. \A i : ReportBit(i)' = ReportBit(i)
    BY <2>1 DEF ReportBit
  <2> QED
    BY <2>1, <2>2 DEF FieldInv, FieldTypeOK, AtNextBit, NothingYet, TakenRightly,
       ValueRight, MemoryBits
<1> QED
  BY <1>1, <1>2, TakeSingleBitKeeps, TakeBitsKeeps, ExtendSignKeeps DEF FieldNext

LEMMA FieldInvAlways == FieldSpec => []FieldInv
  BY FieldInvInit, FieldInvNext, PTL DEF FieldSpec

\* Every variable of the loop has its type.
THEOREM FieldTypeCorrect == FieldSpec => []FieldTypeOK
<1>1. FieldInv => FieldTypeOK
  BY DEF FieldInv
<1> QED
  BY <1>1, FieldInvAlways, PTL

\* A field of any width, anywhere in a report of any length or behind it, with bytes of
\* any width, is read as the two's complement number of its bits, and no byte behind a
\* report that has the field is read for it.
THEOREM FieldsReadRight == FieldSpec => []FieldReadRightly
<1>1. FieldInv => FieldReadRightly
  <2> SUFFICES ASSUME FieldInv PROVE FieldReadRightly
    OBVIOUS
  <2>1. \A length \in 0..Bytes : bitOffset + bitSize <= length * ByteBits =>
          (~extracted /\ taken < bitSize => byteOffset < length)
    BY ByteInReport
  <2> QED
    BY <2>1 DEF FieldReadRightly, FieldInv, ValueRight
<1> QED
  BY <1>1, FieldInvAlways, PTL
-----------------------------------------------------------------------------
(* The parser.                                                             *)

FieldRecord == [usage : AnyUsage, offset : Nat, bits : Nat]
Report == [fields : Seq(FieldRecord), bits : Nat, stack : Seq(Usages)]
Ids == ReportIds \union {0}

ParserTyped ==
  /\ items \in 0..MaxItems
  /\ ids \in Seq(Ids) /\ reports \in Seq(Report)
  /\ Len(ids) = Len(reports) /\ Len(ids) <= MaxReports
  /\ currentReport \in 1..Len(ids) /\ currentId \in Ids
  /\ lastUsage \in Usages \union {NoUsage}
  /\ usageMinimum \in Usages \union {NoUsage, Ranged}
  /\ means \in [Ids -> [bits : Nat, controls : SUBSET (Usages \X Nat \X Nat)]]
  /\ local \in Seq(Usages) /\ titled \in BOOLEAN /\ axes \in BOOLEAN /\ odd \in BOOLEAN
  /\ inputId \in Ids

\* Until a form comes up that is not read as it is meant, each report has one table and
\* the first is that of the report without an id;
OneTableEach ==
  /\ ids[1] = 0 /\ \A k, m \in 1..Len(ids) : ids[k] = ids[m] => k = m
  /\ currentId = 0 => currentReport = 1
  /\ ids[currentReport] = inputId
  /\ \A k \in 1..Len(ids) : Len(reports[k].fields) <= MaxFields

\* the stack of the current report has the usages that are in force, as far as it goes;
StackIsLocal ==
  ~titled =>
    LET stack == reports[currentReport].stack
    IN /\ Len(stack) = IF Len(local) < MaxFields THEN Len(local) ELSE MaxFields
       /\ \A j \in 1..Len(stack) : stack[j] = local[j]

\* a range that begins with an axis is known to have one;
RangesKnown == usageMinimum \in Usages => axes

\* each table has the bits and the controls that its report has;
Controls(fields) ==
  {<< fields[j].usage, fields[j].offset, fields[j].bits >> :
     j \in {i \in 1..Len(fields) : fields[i].usage \in Usages}}

TablesMeant ==
  \A k \in 1..Len(ids) : /\ means[ids[k]].bits = reports[k].bits
                         /\ means[ids[k]].controls = Controls(reports[k].fields)

\* and a report that has no table has nothing in it.
OthersEmpty ==
  \A r \in Ids : (\A k \in 1..Len(ids) : ids[k] # r) =>
    means[r] = [bits |-> 0, controls |-> {}]

ReadAsMeant == OneTableEach /\ StackIsLocal /\ RangesKnown /\ TablesMeant /\ OthersEmpty

ParserInv == ParserTyped /\ (~odd => ReadAsMeant)

LEMMA FreshIsReport == Fresh \in Report /\ Len(Fresh.fields) = 0 /\ Controls(Fresh.fields) = {}
<1>1. << >> \in Seq(FieldRecord) /\ << >> \in Seq(Usages) /\ Len(<< >>) = 0
  BY EmptySeq
<1> QED
  BY <1>1 DEF Fresh, Report, Controls

LEMMA ParserInvInit == ParserInit => ParserInv
<1> SUFFICES ASSUME ParserInit PROVE ParserInv
  OBVIOUS
<1> USE ParserAssumption
<1>1. /\ items = 0 /\ ids = << 0 >> /\ reports = << Fresh >> /\ currentReport = 1
      /\ currentId = 0 /\ lastUsage = NoUsage /\ usageMinimum = NoUsage
      /\ means = [r \in Ids |-> [bits |-> 0, controls |-> {}]]
      /\ local = << >> /\ titled = FALSE /\ axes = FALSE /\ inputId = 0 /\ odd = FALSE
  BY DEF ParserInit, Ids
<1>2. ids \in Seq(Ids) /\ Len(ids) = 1 /\ ids[1] = 0 /\ reports \in Seq(Report)
      /\ Len(reports) = 1 /\ reports[1] = Fresh
  BY <1>1, FreshIsReport DEF Ids
<1>3. means \in [Ids -> [bits : Nat, controls : SUBSET (Usages \X Nat \X Nat)]]
  BY <1>1
<1>4. ParserTyped
  <2>1. local \in Seq(Usages) /\ items \in 0..MaxItems /\ 0 \in Ids
    BY <1>1, EmptySeq DEF Ids
  <2>2. Len(ids) <= MaxReports /\ currentReport \in 1..Len(ids)
    BY <1>1, <1>2
  <2> QED
    BY <1>1, <1>2, <1>3, <2>1, <2>2 DEF ParserTyped
<1>5. \A r \in Ids : means[r].bits = 0 /\ means[r].controls = {}
  BY <1>1
<1>6. 1..Len(ids) = {1} /\ 0 \in Ids
  BY <1>2 DEF Ids
<1>7. OneTableEach
  BY <1>1, <1>2, <1>6, FreshIsReport DEF OneTableEach
<1>8. StackIsLocal
  <2>1. Len(Fresh.stack) = 0 /\ Len(local) = 0 /\ 1..0 = {}
    BY <1>1 DEF Fresh
  <2> QED
    BY <1>1, <1>2, <2>1 DEF StackIsLocal
<1>9. TablesMeant
  <2>1. Fresh.bits = 0
    BY DEF Fresh
  <2> QED
    BY <1>2, <1>5, <1>6, <2>1, FreshIsReport DEF TablesMeant
<1>10. OthersEmpty
  BY <1>1 DEF OthersEmpty
<1> QED
  BY <1>1, <1>4, <1>7, <1>8, <1>9, <1>10 DEF ParserInv, ReadAsMeant, RangesKnown

-----------------------------------------------------------------------------
(* One Input or Output item.                                               *)

\* The table that takes the item: of a report that has none, an empty one.
Asked == IF NewReport THEN Fresh ELSE reports[Target]

LEMMA TargetKnown ==
  ASSUME ParserTyped, OneTableEach
  PROVE  /\ NewReport <=> currentId # 0 /\ \A k \in 1..Len(ids) : ids[k] # currentId
         /\ ~NewReport => Target \in 1..Len(ids) /\ ids[Target] = currentId
         /\ NewReport => Target = Len(ids) + 1
<1>1. DOMAIN ids = 1..Len(ids) /\ Len(ids) \in Nat
  BY LenProperties DEF ParserTyped
<1>2. CASE currentId = 0
  <2>1. Target = currentReport
    BY <1>2 DEF Target
  <2> QED
    BY <1>1, <1>2, <2>1 DEF NewReport, ParserTyped, OneTableEach
<1>3. CASE currentId # 0 /\ \E k \in 1..Len(ids) : ids[k] = currentId
  <2>1. Target = CHOOSE k \in 1..Len(ids) : ids[k] = currentId
    BY <1>1, <1>3 DEF Target
  <2>2. Target \in 1..Len(ids) /\ ids[Target] = currentId
    BY <1>3, <2>1
  <2> QED
    BY <1>1, <1>3, <2>2 DEF NewReport
<1>4. CASE currentId # 0 /\ ~ \E k \in 1..Len(ids) : ids[k] = currentId
  <2>1. Target = Len(ids) + 1
    BY <1>1, <1>4 DEF Target
  <2> QED
    BY <1>4, <2>1 DEF NewReport
<1> QED
  BY <1>2, <1>3, <1>4

LEMMA AskedTable ==
  ASSUME ParserTyped, ReadAsMeant
  PROVE  /\ Asked \in Report /\ Len(Asked.fields) \in 0..MaxFields
         /\ means[currentId].bits = Asked.bits
         /\ means[currentId].controls = Controls(Asked.fields)
<1>0. OneTableEach /\ TablesMeant /\ OthersEmpty /\ currentId \in Ids
  BY DEF ReadAsMeant, ParserTyped
<1>1. CASE NewReport
  <2>1. Asked = Fresh /\ \A k \in 1..Len(ids) : ids[k] # currentId
    BY <1>0, <1>1, TargetKnown DEF Asked
  <2>2. means[currentId] = [bits |-> 0, controls |-> {}]
    BY <1>0, <2>1 DEF OthersEmpty
  <2>3. Fresh.bits = 0 /\ 0 \in 0..MaxFields
    BY ParserAssumption DEF Fresh
  <2> QED
    BY <2>1, <2>2, <2>3, FreshIsReport
<1>2. CASE ~NewReport
  <2>1. Asked = reports[Target] /\ Target \in 1..Len(ids) /\ ids[Target] = currentId
    BY <1>0, <1>2, TargetKnown DEF Asked
  <2>2. reports[Target] \in Report
    BY <2>1, ElementOfSeq DEF ParserTyped
  <2>3. Len(reports[Target].fields) \in Nat
    BY <2>2, LenProperties DEF Report
  <2>4. Len(reports[Target].fields) \in 0..MaxFields
    BY <1>0, <2>1, <2>3, ParserAssumption DEF OneTableEach
  <2> QED
    BY <1>0, <2>1, <2>2, <2>4 DEF TablesMeant
<1> QED
  BY <1>1, <1>2

\* The fields of an item and their bits.
LEMMA NewFieldsTyped ==
  ASSUME NEW rep \in Report, Len(rep.fields) \in 0..MaxFields,
         lastUsage \in Usages \union {NoUsage}, usageMinimum \in AnyUsage, NEW kind,
         NEW size \in Nat \ {0}, NEW count \in Nat \ {0}
  PROVE  /\ NewFields(rep, kind, size, count) \in Seq(FieldRecord)
         /\ BitsOf(NewFields(rep, kind, size, count)) \in Nat
<1> DEFINE new == NewFields(rep, kind, size, count)
           n == IF count < MaxFields - Len(rep.fields) THEN count
                ELSE MaxFields - Len(rep.fields)
<1>0. /\ MaxFields \in Nat /\ n \in Nat /\ rep.bits \in Nat /\ rep.stack \in Seq(Usages)
      /\ Len(rep.stack) \in Nat /\ n <= count
  BY ParserAssumption, LenProperties DEF Report
<1>1. new \in Seq(FieldRecord)
  <2>1. CASE kind = "variable" /\ ~hasRange /\ Len(rep.stack) >= count
    <3> DEFINE f == [j \in 1..n |-> Field(rep.stack[j], rep.bits + (j - 1) * size, size)]
    <3>1. new = f
      BY <2>1 DEF NewFields
    <3>2. ASSUME NEW j \in 1..n
          PROVE  Field(rep.stack[j], rep.bits + (j - 1) * size, size) \in FieldRecord
      <4>1. rep.stack[j] \in AnyUsage
        <5>1. j \in 1..Len(rep.stack)
          BY <1>0, <2>1
        <5> QED
          BY <1>0, <5>1, ElementOfSeq DEF AnyUsage
      <4>2. rep.bits + (j - 1) * size \in Nat
        <5>1. j - 1 \in Nat
          BY <1>0
        <5>2. (j - 1) * size \in Nat
          BY <5>1
        <5> QED
          BY <1>0, <5>2
      <4> QED
        BY <4>1, <4>2 DEF Field, FieldRecord
    <3>3. f \in [1..n -> FieldRecord]
      BY <3>2
    <3> HIDE DEF f, n
    <3> QED
      BY <1>0, <3>1, <3>3
  <2>2. CASE ~(kind = "variable" /\ ~hasRange /\ Len(rep.stack) >= count)
    <3>1. PICK u : new = << Field(u, rep.bits, size * count) >> /\ u \in AnyUsage
      <4> DEFINE w == CASE kind = "constant" -> Padding
                        [] kind # "constant" /\ hasRange -> usageMinimum
                        [] kind # "constant" /\ ~hasRange /\ rep.stack = << >> -> lastUsage
                        [] OTHER -> IF kind = "array" THEN Head(rep.stack)
                                    ELSE Last(rep.stack)
      <4>1. new = << Field(w, rep.bits, size * count) >>
        BY <2>2 DEF NewFields
      <4>2. rep.stack # << >> => Head(rep.stack) \in Usages /\ Last(rep.stack) \in Usages
        <5> SUFFICES ASSUME rep.stack # << >>
                     PROVE  Head(rep.stack) \in Usages /\ Last(rep.stack) \in Usages
          OBVIOUS
        <5>1. Head(rep.stack) \in Usages
          BY <1>0, HeadTailProperties
        <5>2. Len(rep.stack) \in 1..Len(rep.stack)
          BY <1>0, EmptySeq
        <5>3. rep.stack[Len(rep.stack)] \in Usages
          BY <1>0, <5>2, ElementOfSeq
        <5> QED
          BY <5>1, <5>3 DEF Last
      <4>3. w \in AnyUsage
        BY <4>2 DEF AnyUsage
      <4> HIDE DEF w
      <4> QED
        BY <4>1, <4>3
    <3>2. Field(u, rep.bits, size * count) \in FieldRecord
      <4>1. size * count \in Nat
        OBVIOUS
      <4> QED
        BY <1>0, <3>1, <4>1 DEF Field, FieldRecord
    <3> QED
      BY <3>1, <3>2
  <2> QED
    BY <2>1, <2>2
<1> HIDE DEF new
<1>2. BitsOf(new) \in Nat
  <2>1. CASE new = << >>
    BY <2>1 DEF BitsOf
  <2>2. CASE new # << >>
    <3>1. Head(new).bits \in Nat
      <4>1. Head(new) \in FieldRecord
        BY <1>1, <2>2, HeadTailProperties
      <4> QED
        BY <4>1 DEF FieldRecord
    <3>2. Len(new) \in Nat
      BY <1>1, LenProperties
    <3>3. \A a, b \in Nat : a * b \in Nat
      OBVIOUS
    <3> QED
      BY <2>2, <3>1, <3>2, <3>3 DEF BitsOf
  <2> QED
    BY <2>1, <2>2
<1> QED
  BY <1>1, <1>2 DEF new

\* The table after an accepted item.
After(kind, size, count) ==
  LET new == NewFields(Asked, kind, size, count)
  IN [fields |-> Asked.fields \o new, bits |-> Asked.bits + BitsOf(new), stack |-> << >>]

LEMMA TakenTyped ==
  ASSUME ParserTyped, ReadAsMeant, NEW kind, NEW size \in Sizes, NEW count \in Counts,
         TakeItem(kind, size, count)
  PROVE  /\ currentReport' = Target /\ Target \in 1..Len(ids') /\ usageMinimum' = NoUsage
         /\ ids' \in Seq(Ids) /\ reports' \in Seq(Report) /\ Len(ids') = Len(reports')
         /\ Len(ids') <= MaxReports
         /\ reports'[Target] = After(kind, size, count) /\ ids'[Target] = currentId
         /\ \A k \in 1..Len(ids') : k # Target =>
              k \in 1..Len(ids) /\ ids'[k] = ids[k] /\ reports'[k] = reports[k]
         /\ After(kind, size, count) \in Report
         /\ NewReport => Len(ids') = Len(ids) + 1
         /\ ~NewReport => ids' = ids
<1> DEFINE after == After(kind, size, count)
           new == NewFields(Asked, kind, size, count)
<1>0. /\ Len(ids) \in Nat /\ Len(reports) = Len(ids) /\ currentId \in Ids
      /\ ids \in Seq(Ids) /\ reports \in Seq(Report) /\ OneTableEach
      /\ DOMAIN reports = 1..Len(ids) /\ MaxReports \in Nat
      /\ Len(ids) <= MaxReports
  BY LenProperties, ParserAssumption DEF ParserTyped, ReadAsMeant
<1>1. after \in Report
  <2>1. Asked \in Report /\ Len(Asked.fields) \in 0..MaxFields
    BY AskedTable
  <2>2. /\ size \in Nat \ {0} /\ count \in Nat \ {0}
        /\ lastUsage \in Usages \union {NoUsage} /\ usageMinimum \in AnyUsage
    BY ParserAssumption DEF ParserTyped, AnyUsage
  <2>3. new \in Seq(FieldRecord) /\ BitsOf(new) \in Nat
    BY <2>1, <2>2, NewFieldsTyped
  <2>4. Asked.fields \o new \in Seq(FieldRecord) /\ Asked.bits + BitsOf(new) \in Nat
    BY <2>1, <2>3, ConcatProperties DEF Report
  <2>5. << >> \in Seq(Usages)
    BY EmptySeq
  <2> HIDE DEF new
  <2> QED
    BY <2>4, <2>5 DEF After, Report, new
<1>2. /\ currentReport' = Target /\ usageMinimum' = NoUsage
      /\ ids' = IF NewReport THEN Append(ids, currentId) ELSE ids
      /\ reports' = IF NewReport THEN Append(reports, after)
                    ELSE [reports EXCEPT ![Target] = after]
      /\ NewReport => Len(reports) < MaxReports
  BY DEF TakeItem, Accepted, After, Asked
<1> HIDE DEF after
<1>3. CASE NewReport
  <2>1. Target = Len(ids) + 1
    BY <1>0, <1>3, TargetKnown
  <2>2. ids' = Append(ids, currentId) /\ reports' = Append(reports, after)
    BY <1>2, <1>3
  <2>3. /\ ids' \in Seq(Ids) /\ Len(ids') = Len(ids) + 1 /\ ids'[Len(ids) + 1] = currentId
        /\ \A k \in 1..Len(ids) : ids'[k] = ids[k]
    BY <1>0, <2>2, AppendProperties
  <2>4. /\ reports' \in Seq(Report) /\ Len(reports') = Len(ids) + 1
        /\ reports'[Len(ids) + 1] = after
        /\ \A k \in 1..Len(ids) : reports'[k] = reports[k]
    BY <1>0, <1>1, <2>2, AppendProperties
  <2>5. Len(ids') <= MaxReports
    BY <1>0, <1>2, <1>3, <2>3
  <2>6. Target \in 1..Len(ids')
    BY <1>0, <2>1, <2>3
  <2>7. ASSUME NEW k \in 1..Len(ids'), k # Target
        PROVE  k \in 1..Len(ids)
    BY <1>0, <2>1, <2>3, <2>7
  <2> QED
    BY <1>1, <1>2, <1>3, <2>1, <2>3, <2>4, <2>5, <2>6, <2>7 DEF after
<1>4. CASE ~NewReport
  <2>1. Target \in 1..Len(ids) /\ ids[Target] = currentId
    BY <1>0, <1>4, TargetKnown
  <2>2. ids' = ids /\ reports' = [reports EXCEPT ![Target] = after]
    BY <1>2, <1>4
  <2>3. /\ reports' \in Seq(Report) /\ Len(reports') = Len(ids) /\ reports'[Target] = after
        /\ \A k \in 1..Len(ids) : k # Target => reports'[k] = reports[k]
    BY <1>0, <1>1, <2>1, <2>2, ExceptSeq
  <2> QED
    BY <1>0, <1>1, <1>2, <1>4, <2>1, <2>2, <2>3 DEF after
<1> QED
  BY <1>3, <1>4

LEMMA ItemTyped ==
  ASSUME ParserTyped, ReadAsMeant, NEW kind, NEW size \in Sizes, NEW count \in Counts,
         TakeItem(kind, size, count) \/ SkipItem
  PROVE  /\ ids' \in Seq(Ids) /\ reports' \in Seq(Report) /\ Len(ids') = Len(reports')
         /\ Len(ids') <= MaxReports /\ currentReport' \in 1..Len(ids')
         /\ usageMinimum' \in Usages \union {NoUsage, Ranged}
<1>1. CASE TakeItem(kind, size, count)
  <2>1. usageMinimum' \in Usages \union {NoUsage, Ranged}
    BY <1>1 DEF TakeItem
  <2> QED
    BY <1>1, <2>1, TakenTyped
<1>2. CASE SkipItem
  <2>1. usageMinimum' \in Usages \union {NoUsage, Ranged}
    BY <1>2 DEF SkipItem, ParserTyped
  <2> QED
    BY <1>2, <2>1 DEF SkipItem, ParserTyped
<1> QED
  BY <1>1, <1>2

\* The controls that an item adds to its report.
Meant(kind, size, count) ==
  IF kind # "variable" THEN {}
  ELSE {<< local[j], means[currentId].bits + (j - 1) * size, size >> :
          j \in {i \in DOMAIN local : i <= count}}

\* The controls of a table to which fields are added.
LEMMA ControlsAdded ==
  ASSUME NEW s \in Seq(FieldRecord), NEW t \in Seq(FieldRecord)
  PROVE  Controls(s \o t) = Controls(s) \union Controls(t)
<1> DEFINE st == s \o t
           m == Len(s)
           n == Len(t)
<1>1. /\ m \in Nat /\ n \in Nat /\ Len(st) = m + n
      /\ \A i \in 1..(m + n) : st[i] = IF i <= m THEN s[i] ELSE t[i - m]
  BY ConcatProperties, LenProperties
<1> HIDE DEF st, m, n
<1>2. \A i \in 1..m : i \in 1..(m + n) /\ st[i] = s[i]
  BY <1>1
<1>3. \A i \in 1..n : m + i \in 1..(m + n) /\ st[m + i] = t[i]
  <2> TAKE i \in 1..n
  <2>1. m + i \in 1..(m + n) /\ ~(m + i <= m) /\ (m + i) - m = i
    BY <1>1
  <2> QED
    BY <1>1, <2>1
<1>4. ASSUME NEW i \in 1..(m + n)
      PROVE  (i \in 1..m /\ st[i] = s[i]) \/ (i - m \in 1..n /\ st[i] = t[i - m])
  BY <1>1
<1>5. ASSUME NEW c \in Controls(st) PROVE c \in Controls(s) \union Controls(t)
  <2>1. PICK i \in 1..(m + n) :
          st[i].usage \in Usages /\ c = << st[i].usage, st[i].offset, st[i].bits >>
    BY <1>1, <1>5 DEF Controls
  <2> QED
    BY <1>4, <2>1 DEF Controls, m, n
<1>6. ASSUME NEW c \in Controls(s) \union Controls(t) PROVE c \in Controls(st)
  <2>1. CASE c \in Controls(s)
    <3>1. PICK i \in 1..m : s[i].usage \in Usages /\ c = << s[i].usage, s[i].offset, s[i].bits >>
      BY <2>1 DEF Controls, m
    <3> QED
      BY <1>1, <1>2, <3>1 DEF Controls
  <2>2. CASE c \in Controls(t)
    <3>1. PICK i \in 1..n : t[i].usage \in Usages /\ c = << t[i].usage, t[i].offset, t[i].bits >>
      BY <2>2 DEF Controls, n
    <3> QED
      BY <1>1, <1>3, <3>1 DEF Controls
  <2> QED
    BY <1>6, <2>1, <2>2
<1> QED
  BY <1>5, <1>6 DEF st

\* The report of the current table is asked for.
LEMMA SameTable ==
  ASSUME ParserTyped, OneTableEach, currentId = inputId
  PROVE  ~NewReport /\ Target = currentReport
<1>1. currentReport \in 1..Len(ids) /\ ids[currentReport] = currentId
  BY DEF ParserTyped, OneTableEach
<1>2. ~NewReport
  BY <1>1, TargetKnown
<1>3. Target \in 1..Len(ids) /\ ids[Target] = currentId
  BY <1>2, TargetKnown
<1>4. Target = currentReport
  BY <1>1, <1>3 DEF OneTableEach
<1> QED
  BY <1>2, <1>4

\* The fields of an item that is not odd have the controls that are meant, and there
\* is room for them.
LEMMA FieldsMeant ==
  ASSUME ParserTyped, ReadAsMeant, NEW kind \in InputKinds,
         NEW size \in Sizes, NEW count \in Counts, ~Odd(kind, size, count)
  PROVE  /\ Controls(NewFields(Asked, kind, size, count)) = Meant(kind, size, count)
         /\ BitsOf(NewFields(Asked, kind, size, count)) = size * count
         /\ Len(Asked.fields) + Len(NewFields(Asked, kind, size, count)) <= MaxFields
<1> DEFINE new == NewFields(Asked, kind, size, count)
<1>1. /\ size \in Nat \ {0} /\ count \in Nat \ {0} /\ MaxFields \in Nat \ {0}
      /\ Asked \in Report /\ Len(Asked.fields) \in 0..MaxFields
      /\ means[currentId].bits = Asked.bits /\ Asked.bits \in Nat
      /\ OneTableEach /\ StackIsLocal
  BY ParserAssumption, AskedTable DEF ReadAsMeant, Report
<1>2. /\ Accepted
      /\ kind = "array" => hasRange
      /\ kind # "constant" /\ hasRange => ~axes /\ local = << >>
      /\ kind = "variable" /\ ~hasRange => /\ Len(local) >= count /\ ~titled
                                            /\ currentId = inputId
      /\ ~NewReport /\ kind = "variable" /\ ~hasRange => Len(Asked.fields) + count <= MaxFields
      /\ ~NewReport => Len(Asked.fields) + 1 <= MaxFields
  <2>1. Len(local) \in Nat /\ DOMAIN local = 1..Len(local)
    BY LenProperties DEF ParserTyped
  <2>2. /\ Accepted /\ (kind = "array" => hasRange)
        /\ kind # "constant" /\ hasRange => ~axes /\ local = << >>
    BY Zenon DEF Odd
  <2>3. ASSUME kind = "variable", ~hasRange
        PROVE  Len(local) >= count /\ ~titled /\ currentId = inputId
    <3>1. ~(Len(local) < count) /\ ~titled /\ currentId = inputId
      BY <2>3, Zenon DEF Odd
    <3> QED
      BY <1>1, <2>1, <3>1
  <2>4. ASSUME ~NewReport, kind = "variable", ~hasRange
        PROVE  Len(Asked.fields) + count <= MaxFields
    <3>1. ~(Len(Asked.fields) + count > MaxFields)
      BY <2>4, Zenon DEF Odd, Asked
    <3> QED
      BY <1>1, <3>1
  <2>5. ASSUME ~NewReport, ~(kind = "variable" /\ ~hasRange)
        PROVE  Len(Asked.fields) + 1 <= MaxFields
    <3>1. ~(Len(Asked.fields) + 1 > MaxFields)
      BY <2>5, Zenon DEF Odd, Asked
    <3> QED
      BY <1>1, <3>1
  <2>6. ~NewReport => Len(Asked.fields) + 1 <= MaxFields
    <3>1. Len(Asked.fields) + count <= MaxFields => Len(Asked.fields) + 1 <= MaxFields
      BY <1>1
    <3> QED
      BY <2>4, <2>5, <3>1
  <2> QED
    BY <2>2, <2>3, <2>4, <2>6
<1>3. CASE kind = "variable" /\ ~hasRange
  <2>1. ~NewReport /\ Target = currentReport /\ Asked = reports[currentReport]
    BY <1>1, <1>2, <1>3, SameTable DEF Asked
  <2>2. Len(Asked.fields) + count <= MaxFields
    BY <1>2, <1>3, <2>1
  <2>3. /\ Len(local) \in Nat /\ DOMAIN local = 1..Len(local) /\ local \in Seq(Usages)
        /\ count <= Len(local) /\ count <= MaxFields /\ count \in Nat
    BY <1>1, <1>2, <1>3, <2>2, LenProperties DEF ParserTyped
  <2>4. /\ Len(Asked.stack) >= count
        /\ \A j \in 1..count : Asked.stack[j] = local[j] /\ local[j] \in Usages
    <3>1. /\ Len(Asked.stack) = IF Len(local) < MaxFields THEN Len(local) ELSE MaxFields
          /\ \A j \in 1..Len(Asked.stack) : Asked.stack[j] = local[j]
      BY <1>1, <1>2, <1>3, <2>1 DEF StackIsLocal
    <3>2. Len(Asked.stack) >= count /\ Len(Asked.stack) \in Nat
      BY <1>1, <2>3, <3>1
    <3>3. \A j \in 1..count : j \in 1..Len(Asked.stack) /\ j \in 1..Len(local)
      BY <2>3, <3>2
    <3>4. \A j \in 1..count : local[j] \in Usages
      BY <2>3, <3>3, ElementOfSeq
    <3> QED
      BY <3>1, <3>2, <3>3, <3>4
  <2> DEFINE f == [j \in 1..count |-> Field(Asked.stack[j], Asked.bits + (j - 1) * size, size)]
             n == IF count < MaxFields - Len(Asked.fields) THEN count
                  ELSE MaxFields - Len(Asked.fields)
  <2>5. new = f
    <3>1. n = count
      BY <1>1, <2>2
    <3>2. new = [j \in 1..n |-> Field(Asked.stack[j], Asked.bits + (j - 1) * size, size)]
      BY <1>3, <2>4 DEF NewFields
    <3> QED
      BY <3>1, <3>2
  <2>6. Len(f) = count /\ f # << >>
    <3>1. DOMAIN f = 1..count
      OBVIOUS
    <3>2. Len(f) = count
      BY <2>3
    <3> QED
      BY <1>1, <3>2
  <2>7. \A j \in 1..count : /\ f[j].usage = local[j] /\ f[j].bits = size
                            /\ f[j].offset = Asked.bits + (j - 1) * size
    BY <2>4 DEF Field
  <2>8. Head(f).bits = size
    <3>1. 1 \in 1..count
      BY <1>1
    <3>2. Head(f) = f[1]
      BY <2>6
    <3> HIDE DEF f
    <3> QED
      BY <2>7, <3>1, <3>2
  <2> HIDE DEF f
  <2>9. Controls(f) = {<< local[j], Asked.bits + (j - 1) * size, size >> : j \in 1..count}
    <3>1. \A j \in 1..count : f[j].usage \in Usages
      BY <2>4, <2>7
    <3>2. {i \in 1..Len(f) : f[i].usage \in Usages} = 1..count
      BY <2>6, <3>1
    <3> QED
      BY <2>7, <3>2 DEF Controls
  <2>10. {i \in DOMAIN local : i <= count} = 1..count
    BY <2>3
  <2>11. Controls(new) = Meant(kind, size, count)
    BY <1>1, <1>3, <2>5, <2>9, <2>10 DEF Meant
  <2>12. BitsOf(new) = size * count
    <3>1. BitsOf(f) = count * size
      BY <2>6, <2>8 DEF BitsOf
    <3> QED
      BY <1>1, <2>5, <3>1
  <2> QED
    BY <2>2, <2>5, <2>6, <2>11, <2>12
<1>4. CASE ~(kind = "variable" /\ ~hasRange)
  <2>1. PICK u \in {Padding, Ranged} : new = << Field(u, Asked.bits, size * count) >>
    <3>1. CASE kind = "constant"
      BY <3>1 DEF NewFields
    <3>2. CASE kind # "constant"
      <4>1. hasRange /\ ~axes
        BY <1>2, <1>4, <3>2 DEF InputKinds
      <4>2. usageMinimum = Ranged
        BY <4>1 DEF hasRange, ParserTyped, ReadAsMeant, RangesKnown
      <4> QED
        BY <3>2, <4>1, <4>2 DEF NewFields
    <3> QED
      BY <3>1, <3>2
  <2>2. u \notin Usages
    BY ParserAssumption
  <2>3. Len(new) = 1 /\ new # << >> /\ new[1].usage = u /\ Head(new).bits = size * count
    BY <2>1 DEF Field
  <2>4. Controls(new) = {}
    BY <2>2, <2>3 DEF Controls
  <2>5. BitsOf(new) = size * count
    <3>1. size * count \in Nat
      BY <1>1
    <3> QED
      BY <2>3, <3>1 DEF BitsOf
  <2>6. Meant(kind, size, count) = {}
    <3>1. CASE kind # "variable"
      BY <3>1 DEF Meant
    <3>2. CASE kind = "variable"
      <4>1. local = << >>
        BY <1>2, <1>4, <3>2
      <4> QED
        BY <4>1 DEF Meant
    <3> QED
      BY <3>1, <3>2
  <2>7. Len(Asked.fields) + Len(new) <= MaxFields
    <3>1. NewReport => Len(Asked.fields) = 0
      BY FreshIsReport DEF Asked
    <3>2. NewReport => Len(Asked.fields) + 1 <= MaxFields
      BY <1>1, <3>1
    <3> QED
      BY <1>2, <2>3, <3>2
  <2> QED
    BY <2>4, <2>5, <2>6, <2>7
<1> QED
  BY <1>3, <1>4

LEMMA InputItemKeeps ==
  ASSUME ParserInv, NEW kind \in InputKinds, NEW size \in Sizes, NEW count \in Counts,
         InputItem(kind, size, count)
  PROVE  ParserInv'
<1>1. /\ ParserTyped /\ ReadAsMeant
      /\ TakeItem(kind, size, count) \/ SkipItem
      /\ items < MaxItems /\ items' = items + 1
      /\ local' = << >> /\ titled' = FALSE /\ axes' = FALSE /\ inputId' = currentId
      /\ odd' = Odd(kind, size, count)
      /\ UNCHANGED << currentId, lastUsage >>
  BY DEF ParserInv, InputItem, ItemRead
<1>2. means' = [means EXCEPT ![currentId] =
                 [bits |-> means[currentId].bits + size * count,
                  controls |-> means[currentId].controls \union Meant(kind, size, count)]]
  BY DEF InputItem, Meant
<1>3. /\ currentId \in Ids /\ size \in Nat /\ count \in Nat
      /\ means \in [Ids -> [bits : Nat, controls : SUBSET (Usages \X Nat \X Nat)]]
      /\ means[currentId].bits \in Nat
      /\ means[currentId].controls \in SUBSET (Usages \X Nat \X Nat)
  BY <1>1, ParserAssumption DEF ParserTyped
<1>4. /\ means'[currentId].bits = means[currentId].bits + size * count
      /\ means'[currentId].controls = means[currentId].controls \union Meant(kind, size, count)
      /\ \A r \in Ids : r # currentId => means'[r] = means[r]
  BY <1>2, <1>3
<1>5. ParserTyped'
  <2>1. Meant(kind, size, count) \in SUBSET (Usages \X Nat \X Nat)
    <3> SUFFICES ASSUME NEW j \in DOMAIN local
                 PROVE  << local[j], means[currentId].bits + (j - 1) * size, size >>
                          \in Usages \X Nat \X Nat
      BY DEF Meant
    <3>1. j \in Nat \ {0} /\ local[j] \in Usages
      BY <1>1, LenProperties, ElementOfSeq DEF ParserTyped
    <3>2. j - 1 \in Nat
      BY <3>1
    <3>3. (j - 1) * size \in Nat
      BY <1>3, <3>2
    <3> QED
      BY <1>3, <3>1, <3>3
  <2>2. size * count \in Nat
    BY <1>3
  <2>3. means' \in [Ids -> [bits : Nat, controls : SUBSET (Usages \X Nat \X Nat)]]
    <3> DEFINE new == [bits |-> means[currentId].bits + size * count,
                       controls |-> means[currentId].controls \union Meant(kind, size, count)]
    <3>1. new.bits \in Nat
      BY <1>3, <2>2
    <3>2. new.controls \in SUBSET (Usages \X Nat \X Nat)
      BY <1>3, <2>1
    <3>3. new \in [bits : Nat, controls : SUBSET (Usages \X Nat \X Nat)]
      BY <3>1, <3>2
    <3> HIDE DEF new
    <3>4. means' = [means EXCEPT ![currentId] = new]
      BY <1>2 DEF new
    <3> QED
      BY <1>3, <3>3, <3>4
  <2>4. items' \in 0..MaxItems /\ local' \in Seq(Usages)
    BY <1>1, ParserAssumption, EmptySeq DEF ParserTyped
  <2>5. /\ ids' \in Seq(Ids) /\ reports' \in Seq(Report) /\ Len(ids') = Len(reports')
        /\ Len(ids') <= MaxReports /\ currentReport' \in 1..Len(ids')
        /\ usageMinimum' \in Usages \union {NoUsage, Ranged}
    BY <1>1, ItemTyped
  <2>6. odd' \in BOOLEAN
    BY <1>1 DEF Odd
  <2>7. /\ currentId' \in Ids /\ lastUsage' \in Usages \union {NoUsage} /\ inputId' \in Ids
        /\ titled' \in BOOLEAN /\ axes' \in BOOLEAN
    BY <1>1 DEF ParserTyped
  <2> QED
    BY <2>3, <2>4, <2>5, <2>6, <2>7 DEF ParserTyped
<1>6. ASSUME ~Odd(kind, size, count) PROVE ReadAsMeant'
  <2> DEFINE new == NewFields(Asked, kind, size, count)
             after == After(kind, size, count)
  <2>1. TakeItem(kind, size, count)
    BY <1>1, <1>6 DEF Odd, SkipItem
  <2>2. /\ currentReport' = Target /\ Target \in 1..Len(ids')
        /\ reports'[Target] = after /\ ids'[Target] = currentId
        /\ \A k \in 1..Len(ids') : k # Target =>
             k \in 1..Len(ids) /\ ids'[k] = ids[k] /\ reports'[k] = reports[k]
        /\ NewReport => Len(ids') = Len(ids) + 1
        /\ ~NewReport => ids' = ids
    BY <1>1, <2>1, TakenTyped
  <2>3. /\ Controls(new) = Meant(kind, size, count) /\ BitsOf(new) = size * count
        /\ Len(Asked.fields) + Len(new) <= MaxFields
    BY <1>1, <1>6, FieldsMeant
  <2>4. /\ Asked \in Report /\ Len(Asked.fields) \in 0..MaxFields
        /\ means[currentId].bits = Asked.bits
        /\ means[currentId].controls = Controls(Asked.fields)
    BY <1>1, AskedTable
  <2>5. new \in Seq(FieldRecord)
    <3>1. /\ size \in Nat \ {0} /\ count \in Nat \ {0}
          /\ lastUsage \in Usages \union {NoUsage} /\ usageMinimum \in AnyUsage
      BY <1>1, ParserAssumption DEF ParserTyped, AnyUsage
    <3> QED
      BY <2>4, <3>1, NewFieldsTyped
  <2> HIDE DEF new
  <2>6. after.fields = Asked.fields \o new /\ after.bits = Asked.bits + BitsOf(new)
        /\ after.stack = << >>
    BY DEF After, new
  <2> HIDE DEF after
  <2>7. /\ Asked.fields \in Seq(FieldRecord)
        /\ Len(after.fields) = Len(Asked.fields) + Len(new)
        /\ Controls(after.fields) = Controls(Asked.fields) \union Controls(new)
    <3>1. Asked.fields \in Seq(FieldRecord)
      BY <2>4 DEF Report
    <3> QED
      BY <2>5, <2>6, <3>1, ConcatProperties, ControlsAdded
  <2>8. ASSUME NEW k \in 1..Len(ids'), k # Target PROVE ids[k] # currentId
    <3>1. k \in 1..Len(ids) /\ OneTableEach
      BY <1>1, <2>2, <2>8 DEF ReadAsMeant
    <3> QED
      BY <1>1, <2>8, <3>1, TargetKnown DEF OneTableEach
  <2>9. OneTableEach'
    <3>1. OneTableEach /\ Len(ids) \in Nat \ {0} /\ Len(ids') \in Nat
      <4>1. ids \in Seq(Ids) /\ ids' \in Seq(Ids) /\ currentReport \in 1..Len(ids)
        BY <1>1, <1>5 DEF ParserTyped
      <4> QED
        BY <1>1, <4>1, LenProperties DEF ReadAsMeant
    <3>2. ids'[1] = 0
      <4>1. CASE Target = 1
        <5>1. ~NewReport
          BY <1>1, <3>1, <4>1, TargetKnown
        <5> QED
          BY <2>2, <3>1, <5>1 DEF OneTableEach
      <4>2. CASE Target # 1
        <5>1. 1 \in 1..Len(ids')
          BY <2>2, <3>1
        <5> QED
          BY <2>2, <3>1, <4>2, <5>1 DEF OneTableEach
      <4> QED
        BY <4>1, <4>2
    <3>3. \A k, m \in 1..Len(ids') : ids'[k] = ids'[m] => k = m
      <4> TAKE k, m \in 1..Len(ids')
      <4>1. CASE k # Target /\ m # Target
        BY <2>2, <3>1, <4>1 DEF OneTableEach
      <4>2. CASE k = Target \/ m = Target
        BY <2>2, <2>8, <4>2
      <4> QED
        BY <4>1, <4>2
    <3>4. currentId' = 0 => currentReport' = 1
      BY <1>1, <2>2, <3>1 DEF OneTableEach, Target
    <3>5. ids'[currentReport'] = inputId'
      BY <1>1, <2>2
    <3>6. \A k \in 1..Len(ids') : Len(reports'[k].fields) <= MaxFields
      <4> TAKE k \in 1..Len(ids')
      <4>1. CASE k = Target
        BY <2>2, <2>3, <2>7, <4>1
      <4>2. CASE k # Target
        BY <2>2, <3>1, <4>2 DEF OneTableEach
      <4> QED
        BY <4>1, <4>2
    <3> QED
      BY <3>2, <3>3, <3>4, <3>5, <3>6 DEF OneTableEach
  <2>10. StackIsLocal'
    <3>1. reports'[currentReport'].stack = << >> /\ local' = << >>
      BY <1>1, <2>2, <2>6
    <3>2. Len(<< >>) = 0 /\ 0 < MaxFields /\ 1..0 = {}
      BY ParserAssumption, EmptySeq
    <3> QED
      BY <3>1, <3>2 DEF StackIsLocal
  <2>11. TablesMeant'
    <3> SUFFICES ASSUME NEW k \in 1..Len(ids')
                 PROVE  /\ means'[ids'[k]].bits = reports'[k].bits
                        /\ means'[ids'[k]].controls = Controls(reports'[k].fields)
      BY DEF TablesMeant, Controls
    <3>1. CASE k = Target
      BY <1>4, <2>2, <2>3, <2>4, <2>6, <2>7, <3>1
    <3>2. CASE k # Target
      <4>1. k \in 1..Len(ids) /\ ids'[k] = ids[k] /\ reports'[k] = reports[k]
            /\ ids[k] # currentId
        BY <2>2, <2>8, <3>2
      <4>2. ids[k] \in Ids
        BY <1>1, <4>1, ElementOfSeq DEF ParserTyped
      <4> QED
        BY <1>1, <1>4, <4>1, <4>2 DEF ReadAsMeant, TablesMeant
    <3> QED
      BY <3>1, <3>2
  <2>12. OthersEmpty'
    <3> SUFFICES ASSUME NEW r \in Ids, \A k \in 1..Len(ids') : ids'[k] # r
                 PROVE  means'[r] = [bits |-> 0, controls |-> {}]
      BY DEF OthersEmpty
    <3>1. r # currentId
      BY <2>2
    <3>2. \A k \in 1..Len(ids) : ids[k] # r
      <4>0. OneTableEach
        BY <1>1 DEF ReadAsMeant
      <4>1. CASE ~NewReport
        BY <2>2, <4>1
      <4>2. CASE NewReport
        <5>1. Target = Len(ids) + 1 /\ Len(ids') = Len(ids) + 1 /\ Len(ids) \in Nat
          BY <1>1, <2>2, <4>0, <4>2, TargetKnown, LenProperties DEF ParserTyped
        <5>2. \A k \in 1..Len(ids) : k \in 1..Len(ids') /\ k # Target
          BY <5>1
        <5> QED
          BY <2>2, <5>2
      <4> QED
        BY <4>1, <4>2
    <3> QED
      BY <1>1, <1>4, <3>1, <3>2 DEF ReadAsMeant, OthersEmpty
  <2>13. RangesKnown'
    <3>1. usageMinimum' = NoUsage
      BY <1>1, <2>1, TakenTyped
    <3> QED
      BY <3>1, ParserAssumption DEF RangesKnown
  <2> QED
    BY <2>9, <2>10, <2>11, <2>12, <2>13 DEF ReadAsMeant
<1> QED
  BY <1>1, <1>5, <1>6 DEF ParserInv

-----------------------------------------------------------------------------
(* The other items.                                                        *)

LEMMA UsageItemKeeps ==
  ASSUME ParserInv, NEW u \in Usages, UsageItem(u)
  PROVE  ParserInv'
<1> DEFINE c == currentReport
           stack == reports[c].stack
           longer == [reports[c] EXCEPT !.stack = Append(stack, u)]
<1>1. /\ ParserTyped /\ ReadAsMeant /\ items < MaxItems /\ items' = items + 1
      /\ reports' = IF Len(stack) < MaxFields THEN [reports EXCEPT ![c] = longer]
                    ELSE reports
      /\ lastUsage' = u /\ local' = Append(local, u)
      /\ UNCHANGED << ids, currentReport, currentId, usageMinimum, means, titled, axes, inputId,
                      odd >>
  BY DEF ParserInv, UsageItem, TakeUsage, ItemRead
<1>2. /\ reports \in Seq(Report) /\ c \in 1..Len(reports) /\ Len(ids) = Len(reports)
      /\ local \in Seq(Usages) /\ reports[c] \in Report /\ stack \in Seq(Usages)
      /\ Len(stack) \in Nat /\ Len(local) \in Nat /\ MaxFields \in Nat \ {0}
  <2>1. reports \in Seq(Report) /\ c \in 1..Len(reports) /\ local \in Seq(Usages)
        /\ Len(ids) = Len(reports)
    BY <1>1 DEF ParserTyped
  <2>2. reports[c] \in Report
    BY <2>1, ElementOfSeq
  <2> QED
    BY <2>1, <2>2, LenProperties, ParserAssumption DEF Report
<1>3. /\ Append(stack, u) \in Seq(Usages) /\ Len(Append(stack, u)) = Len(stack) + 1
      /\ Append(stack, u)[Len(stack) + 1] = u
      /\ \A j \in 1..Len(stack) : Append(stack, u)[j] = stack[j]
      /\ local' \in Seq(Usages) /\ Len(local') = Len(local) + 1
      /\ local'[Len(local) + 1] = u /\ \A j \in 1..Len(local) : local'[j] = local[j]
  BY <1>1, <1>2, AppendProperties
<1>4. /\ longer \in Report /\ longer.fields = reports[c].fields
      /\ longer.bits = reports[c].bits /\ longer.stack = Append(stack, u)
  BY <1>2, <1>3 DEF Report
<1> HIDE DEF longer
<1>5. /\ reports' \in Seq(Report) /\ Len(reports') = Len(reports)
      /\ \A k \in 1..Len(reports) : /\ reports'[k].fields = reports[k].fields
                                    /\ reports'[k].bits = reports[k].bits
      /\ reports'[c].stack = IF Len(stack) < MaxFields THEN Append(stack, u) ELSE stack
  <2>1. CASE Len(stack) < MaxFields
    <3>1. reports' = [reports EXCEPT ![c] = longer]
      BY <1>1, <2>1
    <3> QED
      BY <1>2, <1>4, <2>1, <3>1, ExceptSeq
  <2>2. CASE ~(Len(stack) < MaxFields)
    BY <1>1, <1>2, <2>2
  <2> QED
    BY <2>1, <2>2
<1>6. ParserTyped'
  <2>1. items' \in 0..MaxItems
    BY <1>1, ParserAssumption DEF ParserTyped
  <2> QED
    BY <1>1, <1>3, <1>5, <2>1 DEF ParserTyped
<1>7. ReadAsMeant'
  <2>1. OneTableEach'
    BY <1>1, <1>2, <1>5 DEF ReadAsMeant, OneTableEach
  <2>2. StackIsLocal'
    <3> SUFFICES ASSUME ~titled
                 PROVE  /\ Len(reports'[c].stack) = IF Len(local') < MaxFields
                                                    THEN Len(local') ELSE MaxFields
                        /\ \A j \in 1..Len(reports'[c].stack) :
                             reports'[c].stack[j] = local'[j]
      BY <1>1 DEF StackIsLocal
    <3>1. /\ Len(stack) = IF Len(local) < MaxFields THEN Len(local) ELSE MaxFields
          /\ \A j \in 1..Len(stack) : stack[j] = local[j]
      BY <1>1 DEF ReadAsMeant, StackIsLocal
    <3> HIDE DEF stack
    <3>2. CASE Len(stack) < MaxFields
      BY <1>2, <1>3, <1>5, <3>1, <3>2
    <3>3. CASE ~(Len(stack) < MaxFields)
      BY <1>2, <1>3, <1>5, <3>1, <3>3
    <3> QED
      BY <3>2, <3>3
  <2>3. TablesMeant'
    <3>1. \A k \in 1..Len(ids) : /\ means[ids[k]].bits = reports[k].bits
                                 /\ means[ids[k]].controls = Controls(reports[k].fields)
      BY <1>1 DEF ReadAsMeant, TablesMeant
    <3> QED
      BY <1>1, <1>2, <1>5, <3>1 DEF TablesMeant
  <2>4. OthersEmpty'
    BY <1>1 DEF ReadAsMeant, OthersEmpty
  <2>5. RangesKnown'
    BY <1>1 DEF ReadAsMeant, RangesKnown
  <2> QED
    BY <2>1, <2>2, <2>3, <2>4, <2>5 DEF ReadAsMeant
<1> QED
  BY <1>1, <1>6, <1>7 DEF ParserInv

\* A usage that is taken leaves the types of the tables.
LEMMA UsageTyped ==
  ASSUME ParserTyped, NEW u \in Usages, TakeUsage(u)
  PROVE  reports' \in Seq(Report) /\ Len(reports') = Len(reports)
<1> DEFINE c == currentReport
           stack == reports[c].stack
           longer == [reports[c] EXCEPT !.stack = Append(stack, u)]
<1>1. reports \in Seq(Report) /\ c \in 1..Len(reports)
  BY DEF ParserTyped
<1>2. reports[c] \in Report
  BY <1>1, ElementOfSeq
<1>3. longer \in Report
  BY <1>2, AppendProperties DEF Report
<1> HIDE DEF longer
<1>4. reports' = [reports EXCEPT ![c] = longer] \/ reports' = reports
  BY DEF TakeUsage, longer
<1> QED
  BY <1>1, <1>3, <1>4, ExceptSeq

\* The parts that the items without fields leave alone.
LEMMA TablesStay ==
  ASSUME ReadAsMeant, UNCHANGED << ids, reports, currentReport, means, inputId >>,
         currentId' = 0 => currentId = 0
  PROVE  /\ OneTableEach' /\ TablesMeant' /\ OthersEmpty'
         /\ UNCHANGED << local, titled >> => StackIsLocal'
<1>1. OneTableEach'
  BY DEF ReadAsMeant, OneTableEach
<1>2. TablesMeant'
  BY DEF ReadAsMeant, TablesMeant
<1>3. OthersEmpty'
  BY DEF ReadAsMeant, OthersEmpty
<1>4. UNCHANGED << local, titled >> => StackIsLocal'
  BY DEF ReadAsMeant, StackIsLocal
<1> QED
  BY <1>1, <1>2, <1>3, <1>4

LEMMA ParserInvNext == ParserInv /\ [ParserNext]_parserVars => ParserInv'
<1> SUFFICES ASSUME ParserInv, [ParserNext]_parserVars PROVE ParserInv'
  OBVIOUS
<1>1. ASSUME NEW minimum \in Usages \union {Ranged}, NEW withAxes \in BOOLEAN,
             minimum \in Usages => withAxes, RangeItem(minimum, withAxes)
      PROVE  ParserInv'
  <2>1. /\ ParserTyped /\ ReadAsMeant /\ items < MaxItems /\ items' = items + 1
        /\ usageMinimum' = minimum /\ axes' = (axes \/ withAxes)
        /\ UNCHANGED << ids, reports, currentReport, currentId, lastUsage, means, local,
                        titled, inputId, odd >>
    BY <1>1 DEF ParserInv, RangeItem, ItemRead
  <2>2. items' \in 0..MaxItems
    BY <2>1, ParserAssumption DEF ParserTyped
  <2>3. axes' \in BOOLEAN /\ RangesKnown'
    BY <1>1, <2>1, Zenon DEF RangesKnown
  <2>4. ParserTyped'
    BY <2>1, <2>2, <2>3 DEF ParserTyped
  <2>5. ReadAsMeant'
    BY <2>1, <2>3, TablesStay DEF ReadAsMeant
  <2> QED
    BY <2>4, <2>5 DEF ParserInv
<1>2. CASE CollectionItem \/ FeatureItem
  <2>1. /\ ParserTyped /\ ReadAsMeant /\ items < MaxItems /\ items' = items + 1
        /\ local' = << >> /\ titled' = (titled \/ local # << >>)
        /\ UNCHANGED << ids, reports, currentReport, currentId, lastUsage, usageMinimum,
                        means, inputId >>
    BY <1>2 DEF ParserInv, CollectionItem, FeatureItem, TakeNothing, ItemRead
  <2>2. items' \in 0..MaxItems /\ local' \in Seq(Usages)
    BY <2>1, ParserAssumption, EmptySeq DEF ParserTyped
  <2>3. titled' \in BOOLEAN /\ axes' \in BOOLEAN /\ odd' \in BOOLEAN
    <3>1. axes' = axes \/ axes' = FALSE
      BY <1>2 DEF CollectionItem, FeatureItem
    <3>2. odd' = odd \/ odd' = hasRange
      BY <1>2 DEF CollectionItem, FeatureItem
    <3>3. hasRange \in BOOLEAN
      BY DEF hasRange
    <3> QED
      BY <2>1, <3>1, <3>2, <3>3 DEF ParserTyped
  <2>4. ParserTyped'
    BY <2>1, <2>2, <2>3 DEF ParserTyped
  <2>5. StackIsLocal'
    <3>1. ~titled' => ~titled /\ local' = local
      BY <2>1
    <3> QED
      BY <2>1, <3>1 DEF ReadAsMeant, StackIsLocal
  <2>6. ~odd' => RangesKnown'
    <3>1. CASE CollectionItem
      BY <2>1, <3>1 DEF CollectionItem, ReadAsMeant, RangesKnown
    <3>2. CASE FeatureItem
      <4>1. odd' = (usageMinimum # NoUsage)
        BY <3>2 DEF FeatureItem, hasRange
      <4> QED
        BY <2>1, <4>1, ParserAssumption DEF RangesKnown
    <3> QED
      BY <1>2, <3>1, <3>2
  <2>7. ~odd' => ReadAsMeant'
    BY <2>1, <2>5, <2>6, TablesStay DEF ReadAsMeant
  <2> QED
    BY <2>4, <2>7 DEF ParserInv
<1>3. ASSUME NEW r \in ReportIds, ReportIdItem(r) PROVE ParserInv'
  <2>1. /\ ParserTyped /\ ReadAsMeant /\ items < MaxItems /\ items' = items + 1
        /\ currentId' = r
        /\ UNCHANGED << ids, reports, currentReport, lastUsage, usageMinimum, means, local,
                        titled, axes, inputId, odd >>
    BY <1>3 DEF ParserInv, ReportIdItem, ItemRead, meaning
  <2>2. items' \in 0..MaxItems /\ currentId' \in Ids /\ currentId' # 0
    BY <2>1, ParserAssumption DEF ParserTyped, Ids
  <2>3. ParserTyped'
    BY <2>1, <2>2 DEF ParserTyped
  <2>4. ReadAsMeant'
    BY <2>1, <2>2, TablesStay DEF ReadAsMeant, RangesKnown
  <2> QED
    BY <2>3, <2>4 DEF ParserInv
<1>4. ASSUME NEW kind \in InputKinds, NEW size \in Sizes, NEW count \in Counts,
             OutputItem(kind, size, count)
      PROVE  ParserInv'
  <2>1. /\ ParserTyped /\ ReadAsMeant /\ items < MaxItems /\ items' = items + 1
        /\ TakeItem(kind, size, count) \/ SkipItem
        /\ local' = << >> /\ odd' = TRUE
        /\ UNCHANGED << currentId, lastUsage, means, titled, axes, inputId >>
    BY <1>4 DEF ParserInv, OutputItem, ItemRead
  <2>2. items' \in 0..MaxItems /\ local' \in Seq(Usages)
    BY <2>1, ParserAssumption, EmptySeq DEF ParserTyped
  <2>3. /\ ids' \in Seq(Ids) /\ reports' \in Seq(Report) /\ Len(ids') = Len(reports')
        /\ Len(ids') <= MaxReports /\ currentReport' \in 1..Len(ids')
        /\ usageMinimum' \in Usages \union {NoUsage, Ranged}
    BY <2>1, ItemTyped
  <2> QED
    BY <2>1, <2>2, <2>3 DEF ParserInv, ParserTyped
<1>5. CASE UNCHANGED parserVars
  <2>1. UNCHANGED << items, ids, reports, currentReport, currentId, lastUsage,
                     usageMinimum, means, local, titled, axes, inputId, odd >>
    BY <1>5 DEF parserVars, meaning
  <2>2. ParserTyped'
    BY <2>1 DEF ParserInv, ParserTyped
  <2>3. ReadAsMeant => ReadAsMeant'
    BY <2>1, TablesStay DEF ReadAsMeant, RangesKnown
  <2> QED
    BY <2>1, <2>2, <2>3 DEF ParserInv
<1>6. CASE PopItem \/ LongItem
  <2>1. /\ ParserTyped /\ items < MaxItems /\ items' = items + 1 /\ odd' = TRUE
        /\ UNCHANGED << means, local, titled, axes, inputId >>
        /\ TakeNothing \/ \E u \in Usages : TakeUsage(u)
    BY <1>6 DEF ParserInv, PopItem, LongItem, ItemRead
  <2>2. items' \in 0..MaxItems
    BY <2>1, ParserAssumption DEF ParserTyped
  <2>3. CASE TakeNothing
    BY <2>1, <2>2, <2>3 DEF TakeNothing, ParserInv, ParserTyped
  <2>4. ASSUME NEW u \in Usages, TakeUsage(u) PROVE ParserInv'
    <3>1. reports' \in Seq(Report) /\ Len(reports') = Len(reports)
      BY <2>1, <2>4, UsageTyped
    <3>2. lastUsage' = u /\ UNCHANGED << ids, currentReport, currentId, usageMinimum >>
      BY <2>4 DEF TakeUsage
    <3> QED
      BY <2>1, <2>2, <3>1, <3>2 DEF ParserInv, ParserTyped
  <2> QED
    BY <2>1, <2>3, <2>4
<1>7. ASSUME NEW u \in Usages, RangeItem(u, TRUE) PROVE ParserInv'
  BY <1>1, <1>7
<1>8. ASSUME NEW withAxes \in BOOLEAN, RangeItem(Ranged, withAxes) PROVE ParserInv'
  BY <1>1, <1>8, ParserAssumption
<1> QED
  BY <1>2, <1>3, <1>4, <1>5, <1>6, <1>7, <1>8, UsageItemKeeps, InputItemKeeps DEF ParserNext

LEMMA ParserInvAlways == ParserSpec => []ParserInv
  BY ParserInvInit, ParserInvNext, PTL DEF ParserSpec

\* Every variable of the parser has its type.
THEOREM ParserTypeCorrect == ParserSpec => []ParserTypeOK
<1>1. ParserTyped => ParserTypeOK
  <2> SUFFICES ASSUME ParserTyped PROVE ParserTypeOK
    OBVIOUS
  <2>1. DOMAIN reports = 1..Len(ids) /\ ids \in Seq(Ids) /\ reports \in Seq(Report)
        /\ Len(ids) = Len(reports)
    BY LenProperties DEF ParserTyped
  <2>2. ASSUME NEW k \in DOMAIN reports
        PROVE  /\ ids[k] \in ReportIds \union {0}
               /\ reports[k].bits \in Nat /\ reports[k].stack \in Seq(Usages)
               /\ \A j \in DOMAIN reports[k].fields :
                    reports[k].fields[j] \in [usage : AnyUsage, offset : Nat, bits : Nat]
    <3>1. ids[k] \in Ids /\ reports[k] \in Report
      BY <2>1, ElementOfSeq
    <3>2. reports[k].fields \in Seq(FieldRecord) /\ reports[k].bits \in Nat
          /\ reports[k].stack \in Seq(Usages)
      BY <3>1 DEF Report
    <3>3. \A j \in DOMAIN reports[k].fields : reports[k].fields[j] \in FieldRecord
      BY <3>2, LenProperties, ElementOfSeq
    <3> QED
      BY <3>1, <3>2, <3>3 DEF Ids, FieldRecord
  <2> QED
    BY <2>1, <2>2 DEF ParserTyped, ParserTypeOK, Ids
<1>2. ParserInv => ParserTypeOK
  BY <1>1 DEF ParserInv
<1> QED
  BY <1>2, ParserInvAlways, PTL

\* The field that is chosen for an axis, if any has its usage, has it.
LEMMA AxisFieldMatches ==
  ASSUME NEW rep \in Report, NEW u \in Usages
  PROVE  LET matching == {j \in 1..Len(rep.fields) : rep.fields[j].usage = u}
         IN IF matching = {} THEN AxisField(rep, u) = 0 ELSE AxisField(rep, u) \in matching
<1> DEFINE n == Len(rep.fields)
           matching == {j \in 1..n : rep.fields[j].usage = u}
           left == {n - j : j \in matching}
<1>1. DOMAIN rep.fields = 1..n /\ n \in Nat
  BY LenProperties DEF Report
<1> HIDE DEF n
<1>2. CASE matching = {}
  BY <1>1, <1>2 DEF AxisField, n
<1>3. CASE matching # {}
  <2>1. left \in SUBSET Nat /\ left # {}
    BY <1>1, <1>3
  <2>2. PICK i \in left : \A k \in left : i <= k
    BY <2>1, LeastExists
  <2>3. PICK j \in matching : i = n - j
    BY <2>2
  <2>4. \A m \in matching : m <= j
    <3> TAKE m \in matching
    <3>1. n - j <= n - m
      BY <2>2, <2>3
    <3> QED
      BY <1>1, <3>1
  <2>5. AxisField(rep, u) = CHOOSE k \in matching : \A m \in matching : m <= k
    BY <1>1, <1>3 DEF AxisField
  <2> HIDE DEF matching
  <2>6. AxisField(rep, u) \in matching
    BY <2>4, <2>5
  <2> QED
    BY <1>3, <2>6 DEF matching, n
<1> QED
  BY <1>2, <1>3

\* Each axis is read from a place where its report has it, for any usages, report ids,
\* sizes and counts, and descriptors of any length.
THEOREM AxesRight == ParserSpec => []AxesWhereDeclared
<1>1. ParserInv => AxesWhereDeclared
  <2> SUFFICES ASSUME ParserInv, ~odd, NEW k \in DOMAIN reports, NEW u \in Usages
               PROVE  LET declared == {c \in means[ids[k]].controls : c[1] = u}
                          fields == reports[k].fields
                          j == AxisField(reports[k], u)
                      IN IF declared = {} THEN j = 0
                         ELSE j # 0 /\ << u, fields[j].offset, fields[j].bits >> \in declared
    BY DEF AxesWhereDeclared
  <2> DEFINE fields == reports[k].fields
             declared == {c \in means[ids[k]].controls : c[1] = u}
             matching == {j \in 1..Len(fields) : fields[j].usage = u}
             axis == AxisField(reports[k], u)
  <2>1. k \in 1..Len(ids) /\ reports[k] \in Report
    BY LenProperties, ElementOfSeq DEF ParserInv, ParserTyped
  <2>2. means[ids[k]].controls = Controls(fields)
    BY <2>1 DEF ParserInv, ReadAsMeant, TablesMeant
  <2>3. IF matching = {} THEN axis = 0 ELSE axis \in matching
    BY <2>1, AxisFieldMatches
  <2>4. \A j \in matching : << u, fields[j].offset, fields[j].bits >> \in declared
    BY <2>2 DEF Controls
  <2>5. \A c \in declared : \E j \in matching : c = << u, fields[j].offset, fields[j].bits >>
    BY <2>2 DEF Controls
  <2> HIDE DEF declared, axis
  <2>6. CASE matching = {}
    BY <2>3, <2>5, <2>6 DEF declared, axis
  <2>7. CASE matching # {}
    <3>1. axis \in matching
      BY <2>3, <2>7
    <3>2. << u, fields[axis].offset, fields[axis].bits >> \in declared /\ axis # 0
      BY <2>4, <3>1
    <3> QED
      BY <3>2 DEF declared, axis
  <2> QED
    BY <2>6, <2>7
<1> QED
  BY <1>1, ParserInvAlways, PTL
=============================================================================
