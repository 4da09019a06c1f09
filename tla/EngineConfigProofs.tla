------------------------- MODULE EngineConfigProofs -------------------------
(***************************************************************************)
(* Proofs about what load() leaves in memory: the types of all variables,  *)
(* and that every configured field holds what its text says and reads back *)
(* as such, for every model, all registered types and enumerations, every  *)
(* width of values and every path.                                         *)
(*                                                                         *)
(* The argument goes from powers of two, by way of numbers in bytes and    *)
(* texts of numbers, to the bytes a path leads to; then TypeInv and        *)
(* ConfigInv are shown to be inductive, together with the invariants of    *)
(* EngineProofs.                                                           *)
(***************************************************************************)
EXTENDS EngineProofs

-----------------------------------------------------------------------------
(* Powers of two.                                                           *)
PowersUpTo(power, n) == power = [k \in 0 .. n |-> IF k = 0 THEN 1 ELSE 2 * power[k - 1]]

(* The CHOOSE of TwoTo has something to choose.                             *)
LEMMA PowersDefined ==
  ASSUME NEW n \in Nat
  PROVE  \E power : PowersUpTo(power, n) /\ TwoTo(n) = power[n]
<1> DEFINE g == [p \in (1 .. n) \X Nat |-> 2 * p[2]]
<1>1. g \in [(1 .. n) \X Nat -> Nat] /\ \A i \in 1 .. n, c \in Nat : g[<<i, c>>] = 2 * c
  OBVIOUS
<1> HIDE DEF g
<1>2. PICK f \in [0 .. n -> Nat] : Recurs(f, n, 1, g)
  BY <1>1, Recursion
<1>3. PowersUpTo(f, n)
  <2>1. ASSUME NEW i \in 0 .. n, i # 0
        PROVE  g[<<i, f[i - 1]>>] = 2 * f[i - 1]
    <3>1. i \in 1 .. n /\ i - 1 \in 0 .. n
      BY <2>1
    <3>2. f[i - 1] \in Nat
      BY <3>1
    <3> QED BY <1>1, <3>1, <3>2
  <2> QED BY <1>2, <2>1 DEF Recurs, PowersUpTo
<1> DEFINE power == CHOOSE e : PowersUpTo(e, n)
<1>4. PowersUpTo(power, n)
  BY <1>3
<1>5. TwoTo(n) = power[n]
  BY DEF TwoTo, PowersUpTo
<1> QED BY <1>4, <1>5

(* All such functions agree where they are defined.                         *)
LEMMA SamePowers ==
  ASSUME NEW m \in Nat, NEW n \in Nat, m <= n, NEW p, NEW q, PowersUpTo(p, m), PowersUpTo(q, n)
  PROVE  \A k \in 0 .. m : p[k] = q[k] /\ p[k] \in Nat \ {0}
<1> DEFINE S == {k \in 0 .. m : p[k] = q[k] /\ p[k] \in Nat \ {0}}
<1>1. /\ p[0] = 1 /\ q[0] = 1
      /\ \A k \in 1 .. m : p[k] = 2 * p[k - 1] /\ q[k] = 2 * q[k - 1]
  BY DEF PowersUpTo
<1>2. 0 \in S
  BY <1>1
<1>3. ASSUME NEW k \in 0 .. m - 1, k \in S
      PROVE  k + 1 \in S
  <2>1. k + 1 \in 1 .. m /\ (k + 1) - 1 = k
    OBVIOUS
  <2>2. p[k + 1] = 2 * p[k] /\ q[k + 1] = 2 * q[k]
    BY <1>1, <2>1
  <2> QED BY <1>3, <2>1, <2>2
<1> HIDE DEF S
<1>4. 0 .. m \subseteq S
  BY <1>2, <1>3, Induct
<1> QED BY <1>4 DEF S

(* What TwoTo computes, one power at a time.                                *)
LEMMA TwoToOK ==
  /\ TwoTo(0) = 1
  /\ \A n \in Nat : TwoTo(n) \in Nat \ {0} /\ TwoTo(n + 1) = 2 * TwoTo(n)
<1>1. TwoTo(0) = 1
  <2>1. PICK p : PowersUpTo(p, 0) /\ TwoTo(0) = p[0]
    BY PowersDefined
  <2> QED BY <2>1 DEF PowersUpTo
<1>2. ASSUME NEW n \in Nat
      PROVE  TwoTo(n) \in Nat \ {0} /\ TwoTo(n + 1) = 2 * TwoTo(n)
  <2>1. PICK p : PowersUpTo(p, n) /\ TwoTo(n) = p[n]
    BY PowersDefined
  <2>2. PICK q : PowersUpTo(q, n + 1) /\ TwoTo(n + 1) = q[n + 1]
    BY PowersDefined
  <2>3. p[n] = q[n] /\ p[n] \in Nat \ {0}
    <3>1. n <= n + 1 /\ n \in 0 .. n /\ n + 1 \in Nat
      OBVIOUS
    <3> QED BY <2>1, <2>2, <3>1, SamePowers
  <2>4. q[n + 1] = 2 * q[n]
    <3>1. n + 1 \in 0 .. n + 1 /\ n + 1 # 0 /\ (n + 1) - 1 = n
      OBVIOUS
    <3> QED BY <2>2, <3>1 DEF PowersUpTo
  <2> QED BY <2>1, <2>2, <2>3, <2>4
<1> QED BY <1>1, <1>2

LEMMA Regroup ==
  ASSUME NEW a \in Nat, NEW b \in Nat
  PROVE  2 * (a * b) = a * (2 * b)
OBVIOUS

(* Bits next to bits.                                                       *)
LEMMA TwoToSum ==
  ASSUME NEW m \in Nat, NEW n \in Nat
  PROVE  TwoTo(m + n) = TwoTo(m) * TwoTo(n)
<1> DEFINE S == {k \in 0 .. n : TwoTo(m + k) = TwoTo(m) * TwoTo(k)}
<1>1. 0 \in S
  <2>1. TwoTo(m) \in Nat /\ TwoTo(0) = 1 /\ m + 0 = m /\ 0 \in 0 .. n
    BY TwoToOK
  <2> QED BY <2>1
<1>2. ASSUME NEW k \in 0 .. n - 1, k \in S
      PROVE  k + 1 \in S
  <2>1. k \in Nat /\ m + k \in Nat /\ k + 1 \in 0 .. n /\ m + (k + 1) = (m + k) + 1
    OBVIOUS
  <2>2. TwoTo(m + (k + 1)) = 2 * TwoTo(m + k) /\ TwoTo(k + 1) = 2 * TwoTo(k)
    BY <2>1, TwoToOK
  <2>3. TwoTo(m + k) = TwoTo(m) * TwoTo(k)
    BY <1>2
  <2>4. TwoTo(m) \in Nat /\ TwoTo(k) \in Nat
    BY <2>1, TwoToOK
  <2>5. 2 * (TwoTo(m) * TwoTo(k)) = TwoTo(m) * (2 * TwoTo(k))
    BY <2>4, Regroup
  <2>6. TwoTo(m + (k + 1)) = TwoTo(m) * TwoTo(k + 1)
    BY <2>2, <2>3, <2>5
  <2> QED BY <2>1, <2>6
<1> HIDE DEF S
<1>3. 0 .. n \subseteq S
  BY <1>1, <1>2, Induct
<1>4. n \in S
  BY <1>3
<1> QED BY <1>4 DEF S

(* Quotients and remainders.                                                *)
LEMMA Parts ==
  ASSUME NEW x \in Int, NEW m \in Nat \ {0}
  PROVE  \E q \in Int : \E r \in 0 .. m - 1 :
           q = x \div m /\ r = x % m /\ x = m * q + r
<1> DEFINE q == x \div m
<1> DEFINE r == x % m
<1>1. q \in Int /\ r \in 0 .. m - 1 /\ x = m * q + r
  BY SMTT(30)
<1>2. q = x \div m /\ r = x % m
  OBVIOUS
<1> HIDE DEF q, r
<1> QED BY <1>1, <1>2

(* Two numbers below m differ by no multiple of m but 0.                    *)
LEMMA Bounded ==
  ASSUME NEW m \in Nat \ {0}, NEW d \in Int, NEW y \in Int, NEW z \in Int,
         y = m * d + z, 0 <= z, z < m, 0 <= y, y < m
  PROVE  d = 0
<1>1. CASE d >= 1
  <2>1. m * d >= m
    BY <1>1, SMTT(30)
  <2>2. m * d \in Int
    OBVIOUS
  <2> DEFINE p == m * d
  <2> HIDE DEF p
  <2> QED BY <2>1, <2>2 DEF p
<1>2. CASE d <= -1
  <2>1. m * d <= -m
    BY <1>2, SMTT(30)
  <2>2. m * d \in Int
    OBVIOUS
  <2> QED BY <2>1, <2>2
<1> QED BY <1>1, <1>2

(* The remainder is the only number below m that leaves a multiple.         *)
LEMMA Remainder ==
  ASSUME NEW m \in Nat \ {0}, NEW e \in Int, NEW y \in 0 .. m - 1, NEW x \in Int, x = m * e + y
  PROVE  x % m = y /\ x \div m = e
<1>9. PICK q \in Int : \E r \in 0 .. m - 1 : q = x \div m /\ r = x % m /\ x = m * q + r
  BY Parts
<1>10. PICK r \in 0 .. m - 1 : q = x \div m /\ r = x % m /\ x = m * q + r
  BY <1>9
<1>1. q \in Int /\ r \in 0 .. m - 1 /\ x = m * q + r
  BY <1>10
<1>2. m * e + y = m * q + r
  BY <1>1
<1>3. m * e - m * q = m * (e - q) /\ e - q \in Int
  BY <1>1, SMTT(30)
<1>4. m * e \in Int /\ m * q \in Int
  BY <1>1
<1>5. r = m * (e - q) + y
  BY <1>1, <1>2, <1>3, <1>4
<1>6. e - q = 0
  BY <1>1, <1>3, <1>5, Bounded
<1>7. e = q
  BY <1>1, <1>6
<1>8. r = y
  BY <1>1, <1>2, <1>4, <1>7
<1> QED BY <1>7, <1>8, <1>10

(* The remainder by a product, one factor after the other.                  *)
LEMMA Product ==
  ASSUME NEW a \in Nat, NEW b \in Nat, NEW c \in Int, NEW d \in Int
  PROVE  a * (b * c + d) = (a * b) * c + a * d
BY SMTT(30)

LEMMA ByFactors ==
  ASSUME NEW x \in Int, NEW p \in Nat \ {0}, NEW q \in Nat \ {0}
  PROVE  /\ x % (p * q) = (x % p) + p * ((x \div p) % q)
         /\ (x % (p * q)) % p = x % p
<1>12. PICK d \in Int : \E r \in 0 .. p - 1 : d = x \div p /\ r = x % p /\ x = p * d + r
  BY Parts
<1>13. PICK r \in 0 .. p - 1 : d = x \div p /\ r = x % p /\ x = p * d + r
  BY <1>12
<1>14. PICK e \in Int : \E s \in 0 .. q - 1 : e = d \div q /\ s = d % q /\ d = q * e + s
  BY Parts
<1>15. PICK s \in 0 .. q - 1 : e = d \div q /\ s = d % q /\ d = q * e + s
  BY <1>14
<1>1. d \in Int /\ r \in 0 .. p - 1 /\ x = p * d + r
  BY <1>13
<1>2. e \in Int /\ s \in 0 .. q - 1 /\ d = q * e + s
  BY <1>15
<1>3. p * d = (p * q) * e + p * s
  BY <1>1, <1>2, Product
<1>4. p * q \in Nat \ {0}
  BY SMTT(30)
<1>5. p * s + r \in 0 .. (p * q) - 1
  <2>1. p * (s + 1) <= p * q
    BY <1>2, SMTT(30)
  <2>2. p * (s + 1) = p * s + p /\ p * s \in Nat
    BY <1>2, SMTT(30)
  <2> QED BY <1>1, <1>4, <2>1, <2>2
<1> DEFINE m == p * q
<1> DEFINE t == p * s
<1> DEFINE u == m * e
<1>6. t \in Int /\ u \in Int
  BY <1>1, <1>2, <1>4
<1>7. x = u + (t + r)
  <2>1. x = (u + t) + r
    BY <1>1, <1>3
  <2> HIDE DEF u, t
  <2> QED BY <1>1, <1>6, <2>1
<1>8. x % m = t + r
  <2> DEFINE y == t + r
  <2>1. m \in Nat \ {0} /\ e \in Int /\ y \in 0 .. m - 1 /\ x = m * e + y
    BY <1>2, <1>4, <1>5, <1>7
  <2> HIDE DEF m, y
  <2>2. x % m = y
    BY <2>1, Remainder
  <2> QED BY <2>2 DEF y
<1>9. t + r = p * s + r /\ (t + r) % p = r
  BY <1>1, <1>2, <1>6, Remainder
<1> HIDE DEF t, u, m
<1>10. x % m = r + t /\ (x % m) % p = r
  BY <1>1, <1>6, <1>8, <1>9
<1>11. t = p * ((x \div p) % q)
  BY <1>13, <1>15 DEF t
<1> QED BY <1>10, <1>11, <1>13 DEF m

(* What is small enough is its own remainder, read unsigned ...             *)
LEMMA Small ==
  ASSUME NEW m \in Nat \ {0}, NEW y \in 0 .. m - 1
  PROVE  y % m = y
<1>1. y = m * 0 + y
  OBVIOUS
<1> QED BY <1>1, Remainder

(* ... and read signed.                                                     *)
LEMMA LessSmall ==
  ASSUME NEW m \in Nat \ {0}, NEW y \in 0 .. m - 1
  PROVE  (y - m) % m = y
<1>1. y - m = m * (-1) + y /\ y - m \in Int
  OBVIOUS
<1> QED BY <1>1, Remainder

(* Numbers in memory.                                                       *)
Weight(k) == TwoTo(ByteBits * k)

LEMMA WeightOK ==
  /\ Weight(0) = 1
  /\ \A k \in Nat : Weight(k) \in Nat \ {0} /\ Weight(k + 1) = Weight(k) * TwoTo(ByteBits)
  /\ TwoTo(ByteBits) \in Nat \ {0}
<1>1. ByteBits \in Nat
  BY RegistryAssumption
<1>2. Weight(0) = 1
  <2>1. ByteBits * 0 = 0
    BY <1>1
  <2> QED BY <2>1, TwoToOK DEF Weight
<1>3. ASSUME NEW k \in Nat
      PROVE  Weight(k) \in Nat \ {0} /\ Weight(k + 1) = Weight(k) * TwoTo(ByteBits)
  <2>1. ByteBits * k \in Nat /\ ByteBits * (k + 1) = ByteBits * k + ByteBits
    BY <1>1, SMTT(30)
  <2> DEFINE n == ByteBits * k
  <2> HIDE DEF n
  <2>2. TwoTo(n) \in Nat \ {0} /\ TwoTo(n + ByteBits) = TwoTo(n) * TwoTo(ByteBits)
    BY <1>1, <2>1, TwoToOK, TwoToSum DEF n
  <2> QED BY <2>1, <2>2 DEF Weight, n
<1> QED BY <1>1, <1>2, <1>3, TwoToOK

(* The bytes of a value, and the number they make so far, byte by byte.     *)
Holding(m, at, size) == \A b \in at .. at + size - 1 : m[b] \in Nat

Loads(number, m, at, size) ==
  /\ number[0] = 0
  /\ \A k \in 1 .. size : number[k] = number[k - 1] + Weight(k - 1) * m[at + k - 1]
  /\ \A k \in 0 .. size : number[k] \in Nat

(* The CHOOSE of LoadedUpTo has something to choose.                        *)
LEMMA LoadedDefined ==
  ASSUME NEW mem, NEW at \in Int, NEW size \in Nat, Holding(mem, at, size)
  PROVE  Loads(LoadedUpTo(mem, at, size), mem, at, size)
<1> DEFINE byte(k) == mem[at + k - 1]
<1> DEFINE term(k) == Weight(k - 1) * byte(k)
<1> DEFINE g == [p \in (1 .. size) \X Nat |-> p[2] + term(p[1])]
<1> DEFINE Solves(f) == f = [k \in 0 .. size |-> IF k = 0 THEN 0 ELSE f[k - 1] + term(k)]
<1>1. ASSUME NEW k \in 1 .. size
      PROVE  term(k) \in Nat
  <2>1. at + k - 1 \in at .. at + size - 1 /\ k - 1 \in Nat
    OBVIOUS
  <2>2. byte(k) \in Nat /\ Weight(k - 1) \in Nat
    BY <2>1, WeightOK DEF Holding
  <2> HIDE DEF byte
  <2> QED BY <2>2
<1>2. LoadedUpTo(mem, at, size) = CHOOSE e : Solves(e)
  BY DEF LoadedUpTo, Weight
<1> HIDE DEF term
<1>3. g \in [(1 .. size) \X Nat -> Nat] /\ \A k \in 1 .. size, n \in Nat : g[<<k, n>>] = n + term(k)
  BY <1>1
<1> HIDE DEF g
<1>4. PICK f \in [0 .. size -> Nat] : Recurs(f, size, 0, g)
  BY <1>3, Recursion
<1>5. Solves(f)
  <2>1. ASSUME NEW k \in 0 .. size, k # 0
        PROVE  g[<<k, f[k - 1]>>] = f[k - 1] + term(k)
    <3>1. k \in 1 .. size /\ k - 1 \in 0 .. size
      BY <2>1
    <3>2. f[k - 1] \in Nat
      BY <3>1
    <3> QED BY <1>3, <3>1, <3>2
  <2> QED BY <1>4, <2>1 DEF Recurs
<1> DEFINE number == CHOOSE e : Solves(e)
<1> HIDE DEF Solves
<1>6. Solves(number)
  BY <1>5
<1> HIDE DEF number
<1>7. number[0] = 0 /\ \A k \in 1 .. size : number[k] = number[k - 1] + term(k)
  BY <1>6 DEF Solves
<1>8. \A k \in 0 .. size : number[k] \in Nat
  <2>1. ASSUME NEW k \in 1 .. size, number[k - 1] \in Nat
        PROVE  number[k] \in Nat
    BY <1>1, <1>7, <2>1
  <2>2. number[0] \in Nat
    BY <1>7
  <2> QED BY <2>1, <2>2, Chain
<1>9. Loads(number, mem, at, size)
  BY <1>7, <1>8 DEF Loads, term
<1> QED BY <1>2, <1>9 DEF number

(* Equal bytes make equal numbers.                                          *)
LEMMA SameLoaded ==
  ASSUME NEW a, NEW b, NEW at \in Int, NEW size \in Nat, Holding(a, at, size),
         \A x \in at .. at + size - 1 : b[x] = a[x]
  PROVE  Loaded(b, at, size) = Loaded(a, at, size)
<1> DEFINE m == LoadedUpTo(a, at, size)
<1> DEFINE n == LoadedUpTo(b, at, size)
<1>1. Holding(b, at, size)
  BY DEF Holding
<1>2. Loads(m, a, at, size) /\ Loads(n, b, at, size)
  BY <1>1, LoadedDefined
<1>3. Loaded(a, at, size) = m[size] /\ Loaded(b, at, size) = n[size]
  BY DEF Loaded
<1> HIDE DEF m, n
<1> DEFINE S == {k \in 0 .. size : n[k] = m[k]}
<1>4. 0 \in S
  BY <1>2 DEF Loads
<1>5. ASSUME NEW k \in 0 .. size - 1, k \in S
      PROVE  k + 1 \in S
  <2>1. k + 1 \in 1 .. size /\ (k + 1) - 1 = k /\ at + (k + 1) - 1 \in at .. at + size - 1 /\ n[k] = m[k]
    BY <1>5
  <2>2. /\ m[k + 1] = m[(k + 1) - 1] + Weight((k + 1) - 1) * a[at + (k + 1) - 1]
        /\ n[k + 1] = n[(k + 1) - 1] + Weight((k + 1) - 1) * b[at + (k + 1) - 1]
    BY <1>2, <2>1 DEF Loads
  <2>3. m[k + 1] = n[k + 1]
    BY <2>1, <2>2
  <2> QED BY <2>1, <2>3
<1> HIDE DEF S
<1>6. 0 .. size \subseteq S
  BY <1>4, <1>5, Induct
<1>7. size \in S
  BY <1>6
<1> QED BY <1>3, <1>7 DEF S

(* A byte of a number.                                                      *)
LEMMA ByteOfOK ==
  ASSUME NEW raw \in Int, NEW k \in Nat
  PROVE  ByteOf(raw, k) \in Byte /\ ByteOf(raw, k) \in Nat
<1>1. Weight(k) \in Nat \ {0} /\ TwoTo(ByteBits) \in Nat \ {0}
  BY WeightOK
<1>2. raw \div Weight(k) \in Int
  BY <1>1, Parts
<1>3. (raw \div Weight(k)) % TwoTo(ByteBits) \in 0 .. TwoTo(ByteBits) - 1
  BY <1>1, <1>2, Parts
<1> QED BY <1>1, <1>3 DEF ByteOf, Byte, Weight

(* What is stored is what is loaded ...                                     *)
LEMMA StoredLoaded ==
  ASSUME NEW m, NEW at \in Int, NEW size \in Nat, at .. at + size - 1 \subseteq DOMAIN m,
         NEW raw \in 0 .. TwoTo(ByteBits * size) - 1
  PROVE  Loaded(Stored(m, at, size, raw), at, size) = raw
<1> DEFINE b == Stored(m, at, size, raw)
<1> DEFINE n == LoadedUpTo(b, at, size)
<1>1. \A x \in at .. at + size - 1 : b[x] = ByteOf(raw, x - at)
  BY DEF Stored
<1>2. Loaded(b, at, size) = n[size]
  BY DEF Loaded
<1>3. raw \in Nat /\ raw \in Int
  <2>1. TwoTo(ByteBits * size) \in Nat
    BY WeightOK DEF Weight
  <2> QED BY <2>1
<1> HIDE DEF b
<1>4. Holding(b, at, size)
  <2>1. ASSUME NEW x \in at .. at + size - 1
        PROVE  b[x] \in Nat
    <3>1. x - at \in Nat
      OBVIOUS
    <3>2. b[x] = ByteOf(raw, x - at)
      BY <1>1
    <3>3. ByteOf(raw, x - at) \in Nat
      BY <1>3, <3>1, ByteOfOK, Zenon
    <3> QED BY <3>2, <3>3
  <2> QED BY <2>1 DEF Holding
<1>5. Loads(n, b, at, size)
  BY <1>4, LoadedDefined
<1> HIDE DEF n
<1> DEFINE S == {k \in 0 .. size : n[k] = raw % Weight(k)}
<1>6. 0 \in S
  <2>1. raw % 1 = 0
    BY <1>3
  <2> QED BY <1>5, <2>1, WeightOK DEF Loads
<1>7. ASSUME NEW k \in 0 .. size - 1, k \in S
      PROVE  k + 1 \in S
  <2>1. /\ k + 1 \in 1 .. size /\ (k + 1) - 1 = k /\ k \in Nat /\ n[k] = raw % Weight(k)
        /\ at + (k + 1) - 1 \in at .. at + size - 1 /\ (at + (k + 1) - 1) - at = k
    BY <1>7
  <2>2. n[k + 1] = n[(k + 1) - 1] + Weight((k + 1) - 1) * b[at + (k + 1) - 1]
    BY <1>5, <2>1 DEF Loads
  <2>3. b[at + (k + 1) - 1] = ByteOf(raw, (at + (k + 1) - 1) - at)
    BY <1>1, <2>1
  <2>4. b[at + (k + 1) - 1] = ByteOf(raw, k)
    BY <2>1, <2>3
  <2>5. ByteOf(raw, k) = (raw \div Weight(k)) % TwoTo(ByteBits)
    BY DEF ByteOf, Weight
  <2>6. n[k + 1] = (raw % Weight(k)) + Weight(k) * ((raw \div Weight(k)) % TwoTo(ByteBits))
    BY <2>1, <2>2, <2>4, <2>5
  <2>7. raw % (Weight(k) * TwoTo(ByteBits)) = (raw % Weight(k)) + Weight(k) * ((raw \div Weight(k)) % TwoTo(ByteBits))
    <3>1. Weight(k) \in Nat \ {0} /\ TwoTo(ByteBits) \in Nat \ {0} /\ raw \in Int
      BY <1>3, <2>1, WeightOK
    <3> QED BY <3>1, ByFactors
  <2>8. Weight(k + 1) = Weight(k) * TwoTo(ByteBits)
    BY <2>1, WeightOK
  <2>9. n[k + 1] = raw % Weight(k + 1)
    BY <2>6, <2>7, <2>8
  <2> QED BY <2>1, <2>9
<1> HIDE DEF S
<1>8. 0 .. size \subseteq S
  BY <1>6, <1>7, Induct
<1>9. size \in S
  BY <1>8
<1>10. n[size] = raw % Weight(size) /\ Weight(size) \in Nat \ {0} /\ raw \in 0 .. Weight(size) - 1
  BY <1>9, WeightOK DEF S, Weight
<1>11. raw % Weight(size) = raw
  BY <1>10, Small
<1> QED BY <1>2, <1>10, <1>11 DEF b

(* ... and nothing else changes.                                            *)
LEMMA StoredElsewhere ==
  ASSUME NEW m, NEW at, NEW size, NEW raw, NEW a \in Int, NEW s \in Nat, Holding(m, a, s),
         a .. a + s - 1 \subseteq DOMAIN m, (a .. a + s - 1) \cap (at .. at + size - 1) = {}
  PROVE  Loaded(Stored(m, at, size, raw), a, s) = Loaded(m, a, s)
<1> DEFINE b == Stored(m, at, size, raw)
<1>1. \A x \in a .. a + s - 1 : b[x] = m[x]
  BY DEF Stored
<1> HIDE DEF b
<1>2. Loaded(b, a, s) = Loaded(m, a, s)
  BY <1>1, SameLoaded
<1> QED BY <1>2 DEF b

LEMMA StoredBytes ==
  ASSUME NEW m, NEW at \in Int, NEW size, NEW raw \in Int, DOMAIN m \subseteq Int,
         \A a \in DOMAIN m : m[a] \in Byte
  PROVE  /\ DOMAIN Stored(m, at, size, raw) = DOMAIN m
         /\ \A a \in DOMAIN m : Stored(m, at, size, raw)[a] \in Byte
<1>1. ASSUME NEW a \in DOMAIN m
      PROVE  Stored(m, at, size, raw)[a] \in Byte
  <2>1. CASE a \in at .. at + size - 1
    <3>1. a - at \in Nat
      BY <2>1
    <3>2. ByteOf(raw, a - at) \in Byte
      BY <3>1, ByteOfOK
    <3> QED BY <2>1, <3>2 DEF Stored
  <2>2. CASE a \notin at .. at + size - 1
    BY <2>2 DEF Stored
  <2> QED BY <2>1, <2>2
<1> QED BY <1>1 DEF Stored

(* Values and their texts.                                                  *)
LEMMA MinOf ==
  ASSUME NEW S, S \subseteq Nat, S # {}
  PROVE  Min(S) \in S
<1>1. \E m \in S : \A k \in S : m <= k
  BY Least
<1> QED BY <1>1 DEF Min

(* A text is what its scan finds in it: digits or not, and the number they  *)
(* make.                                                                    *)
TextOK(x) == x.digits \in BOOLEAN /\ x.number \in Int

(* Numbers and the bits that represent them.                                *)
LEMMA WidthOK ==
  ASSUME NEW t, ValuesOK(t)
  PROVE  /\ t.bits \in Nat /\ LongBits \in Nat
         /\ TwoTo(t.bits) \in Nat \ {0} /\ TwoTo(t.bits - 1) \in Nat \ {0} /\ TwoTo(LongBits) \in Nat \ {0}
         /\ TwoTo(t.bits) = 2 * TwoTo(t.bits - 1)
         /\ \E d \in Nat \ {0} : TwoTo(LongBits) = TwoTo(t.bits) * d
<1>1. /\ LongBits \in Nat /\ t.bits \in Nat /\ t.bits - 1 \in Nat /\ LongBits - t.bits \in Nat
      /\ (t.bits - 1) + 1 = t.bits /\ t.bits + (LongBits - t.bits) = LongBits
  BY DEF ValuesOK
<1>2. TwoTo(t.bits) = 2 * TwoTo(t.bits - 1)
  BY <1>1, TwoToOK
<1>3. TwoTo(LongBits) = TwoTo(t.bits) * TwoTo(LongBits - t.bits)
  BY <1>1, TwoToSum
<1>4. TwoTo(LongBits - t.bits) \in Nat \ {0}
  BY <1>1, TwoToOK
<1> QED BY <1>1, <1>2, <1>3, <1>4, TwoToOK

LEMMA WrappedOK ==
  ASSUME NEW t, ValuesOK(t), NEW n \in Int
  PROVE  /\ Wrapped(n, t.bits) \in Raws(t)
         /\ Stored64(n) \in 0 .. TwoTo(LongBits) - 1
         /\ Wrapped(Stored64(n), t.bits) = Wrapped(n, t.bits)
<1>1. /\ TwoTo(t.bits) \in Nat \ {0} /\ TwoTo(LongBits) \in Nat \ {0}
      /\ \E d \in Nat \ {0} : TwoTo(LongBits) = TwoTo(t.bits) * d
  BY WidthOK
<1> DEFINE p == TwoTo(t.bits)
<1> HIDE DEF p
<1> DEFINE l == TwoTo(LongBits)
<1> HIDE DEF l
<1>2. PICK d \in Nat \ {0} : l = p * d
  BY <1>1 DEF p, l
<1>3. p \in Nat \ {0} /\ l \in Nat \ {0}
  BY <1>1 DEF p, l
<1>4. n % p \in 0 .. p - 1 /\ n % l \in 0 .. l - 1
  BY <1>3, Parts
<1>5. (n % (p * d)) % p = n % p
  BY <1>3, ByFactors
<1> QED BY <1>2, <1>4, <1>5 DEF p, l, Wrapped, Stored64, Raws

(* A number is represented by one value.                                    *)
LEMMA Represented ==
  ASSUME NEW t, ValuesOK(t), NEW raw \in Raws(t)
  PROVE  /\ NumberOf(t, raw) \in Int
         /\ Wrapped(NumberOf(t, raw), t.bits) = raw
         /\ raw \in Nat /\ Wrapped(raw, t.bits) = raw /\ Stored64(raw) = raw
         /\ raw \in 0 .. TwoTo(LongBits) - 1
<1>1. /\ TwoTo(t.bits) \in Nat \ {0} /\ TwoTo(LongBits) \in Nat \ {0} /\ TwoTo(t.bits - 1) \in Nat \ {0}
      /\ \E d \in Nat \ {0} : TwoTo(LongBits) = TwoTo(t.bits) * d
  BY WidthOK
<1> DEFINE p == TwoTo(t.bits)
<1> HIDE DEF p
<1> DEFINE l == TwoTo(LongBits)
<1> HIDE DEF l
<1>2. PICK d \in Nat \ {0} : l = p * d
  BY <1>1 DEF p, l
<1>3. p \in Nat \ {0} /\ l \in Nat \ {0} /\ raw \in 0 .. p - 1
  BY <1>1 DEF p, l, Raws
<1>4. p <= l
  BY <1>2, <1>3, SMTT(30)
<1>5. raw \in 0 .. l - 1 /\ raw \in Nat
  BY <1>3, <1>4
<1>6. raw % p = raw /\ raw % l = raw
  BY <1>3, <1>5, Small
<1>7. (raw - p) % p = raw
  BY <1>3, LessSmall
<1>8. NumberOf(t, raw) \in {raw, raw - p}
  BY DEF NumberOf, SignedOf, p
<1>9. NumberOf(t, raw) \in Int /\ NumberOf(t, raw) % p = raw
  BY <1>3, <1>6, <1>7, <1>8
<1> QED BY <1>3, <1>5, <1>6, <1>9 DEF p, l, Wrapped, Stored64

(* A number is read from memory as it was stored.                           *)
LEMMA NumberRead ==
  ASSUME NEW t, ValuesOK(t), NEW n \in Int, InRange(t, n)
  PROVE  Wrapped(n, t.bits) \in Raws(t) /\ NumberOf(t, Wrapped(n, t.bits)) = n
<1>1. PICK raw \in Raws(t) : NumberOf(t, raw) = n
  BY DEF InRange
<1>2. Wrapped(n, t.bits) = raw
  BY <1>1, Represented
<1> QED BY <1>1, <1>2

(* The cases of from_string() (TypeDescriptor.cpp:270-376).                 *)
LEMMA ParsedBy ==
  ASSUME NEW t, NEW x
  PROVE  /\ t.class = "bool" => Parsed(t, x) = Bool(x)
         /\ t.class \in {"int", "uint16"} => Parsed(t, x) = Scanned(t, x)
         /\ t.class = "uint32" => Parsed(t, x) = ScannedAsLong(t, x)
         /\ t.class = "enum" => Parsed(t, x) = Enum(t, x)
         /\ t.class \notin WithText => Parsed(t, x) = {}
BY DEF Parsed, WithText

(* A name of an enumeration stands for the first value that has it          *)
(* (TypeDescriptor.cpp:245-255).                                            *)
LEMMA NamedValue ==
  ASSUME NEW t, ValuesOK(t), t.class = "enum", NEW K, K \subseteq DOMAIN t.names, K # {}
  PROVE  Min(K) \in K /\ FirstValue(t, K) = t.names[Min(K)].value /\ FirstValue(t, K) \in Int
<1>1. NamesOK(t)
  BY DEF ValuesOK
<1>2. K \subseteq Nat
  BY <1>1 DEF NamesOK
<1>3. Min(K) \in K
  BY <1>2, MinOf
<1> QED BY <1>1, <1>3 DEF NamesOK, FirstValue

(* A text that names a value is read as that value ...                      *)
LEMMA FromNameOK ==
  ASSUME NEW t, ValuesOK(t), NEW value \in Int, NEW raw \in FromName(t, value)
  PROVE  raw \in Raws(t) /\ raw = Wrapped(value, t.bits)
<1>1. /\ Wrapped(value, t.bits) \in Raws(t)
      /\ Wrapped(Stored64(value), t.bits) = Wrapped(value, t.bits)
  BY WrappedOK
<1>2. CASE t.signed
  <2>1. FromName(t, value) = {Wrapped(Stored64(value), t.bits)}
    BY <1>2 DEF FromName
  <2> QED BY <1>1, <2>1
<1>3. CASE ~t.signed
  <2>1. raw = Stored64(value) /\ raw \in Raws(t)
    BY <1>3 DEF FromName
  <2>2. Wrapped(raw, t.bits) = raw
    BY <2>1, Represented
  <2> QED BY <1>1, <2>1, <2>2
<1> QED BY <1>2, <1>3

(* ... and one that names none is read as a number.                         *)
LEMMA FromNumberOK ==
  ASSUME NEW t, ValuesOK(t), NEW n \in Int, NEW raw \in FromNumber(t, n)
  PROVE  raw \in Raws(t) /\ NumberOf(t, raw) = IF t.signed THEN n ELSE Stored64(n)
<1> DEFINE m == IF t.signed THEN n ELSE Stored64(n)
<1>1. m \in Int
  <2>1. Stored64(n) \in Int
    BY WrappedOK
  <2> QED BY <2>1
<1> HIDE DEF m
<1>2. InRange(t, m) /\ raw = Wrapped(m, t.bits)
  BY DEF FromNumber, m
<1>3. raw \in Raws(t) /\ NumberOf(t, raw) = m
  BY <1>1, <1>2, NumberRead
<1> QED BY <1>3 DEF m

(* What from_string() stores is what the text asks for.                     *)
LEMMA ParsedMeans ==
  ASSUME NEW t, NEW x, TextOK(x), t.class \in WithText => ValuesOK(t), NEW raw \in Parsed(t, x)
  PROVE  ValuesOK(t) /\ t.class \in WithText /\ raw \in Raws(t) /\ Means(t, x, raw)
<1>1. t.class \in WithText /\ ValuesOK(t)
  BY ParsedBy
<1>2. /\ t.bits \in Nat /\ TwoTo(t.bits) \in Nat \ {0} /\ TwoTo(t.bits - 1) \in Nat \ {0}
      /\ TwoTo(t.bits) = 2 * TwoTo(t.bits - 1)
  BY <1>1, WidthOK
<1>3. CASE t.class = "bool"
  <2>1. raw \in Bool(x)
    BY <1>3, ParsedBy
  <2>2. raw = IF x.word \in {"1", "true", "TRUE"} THEN 1 ELSE 0
    BY <2>1 DEF Bool
  <2>3. raw \in Raws(t)
    <3>1. 0 \in Raws(t) /\ 1 \in Raws(t)
      BY <1>2 DEF Raws
    <3> QED BY <2>2, <3>1
  <2>4. Means(t, x, raw)
    BY <1>3, <2>2 DEF Means
  <2> QED BY <1>1, <2>3, <2>4
<1>4. CASE t.class \in {"int", "uint16", "uint32"}
  <2>1. x.number \in Int /\ Wrapped(x.number, t.bits) \in Raws(t)
    BY <1>1, WrappedOK DEF TextOK
  <2>2. CASE InRange(t, x.number)
    <3>1. raw = Wrapped(x.number, t.bits)
      <4>1. CASE t.class \in {"int", "uint16"}
        BY <2>2, <4>1, ParsedBy DEF Scanned
      <4>2. CASE t.class = "uint32"
        <5>1. raw \in ScannedAsLong(t, x) /\ ~t.signed
          BY <1>1, <4>2, ParsedBy DEF ValuesOK
        <5>2. PICK n \in Raws(t) : NumberOf(t, n) = x.number
          BY <2>2 DEF InRange
        <5>3. x.number = n /\ n \in 0 .. TwoTo(LongBits) - 1 /\ TwoTo(LongBits) \in Nat
          BY <1>1, <5>1, <5>2, Represented, WidthOK DEF NumberOf
        <5>4. x.number \in -(TwoTo(LongBits) - 1) .. TwoTo(LongBits) - 1
          BY <5>3
        <5>5. raw = Wrapped(Stored64(x.number), t.bits)
          BY <5>1, <5>4 DEF ScannedAsLong, Stored64
        <5> QED BY <1>1, <2>1, <5>5, WrappedOK
      <4> QED BY <1>4, <4>1, <4>2
    <3>2. raw \in Raws(t) /\ NumberOf(t, raw) = x.number
      BY <1>1, <2>1, <2>2, <3>1, NumberRead
    <3>3. Means(t, x, raw)
      BY <1>4, <3>2 DEF Means
    <3> QED BY <1>1, <3>2, <3>3
  <2>3. CASE ~InRange(t, x.number)
    <3>1. Means(t, x, raw)
      BY <1>4, <2>3 DEF Means
    <3>2. raw \in Raws(t)
      <4>1. CASE t.class \in {"int", "uint16"}
        BY <2>1, <4>1, ParsedBy DEF Scanned
      <4>2. CASE t.class = "uint32"
        <5>1. raw \in ScannedAsLong(t, x)
          BY <4>2, ParsedBy
        <5>2. Wrapped(Wrapped(x.number, LongBits), t.bits) \in Raws(t)
          BY <1>1, <2>1, WrappedOK DEF Stored64
        <5> QED BY <5>1, <5>2 DEF ScannedAsLong
      <4> QED BY <1>4, <4>1, <4>2
    <3> QED BY <1>1, <3>1, <3>2
  <2> QED BY <2>2, <2>3
<1>5. CASE t.class = "enum"
  <2>1. raw \in Enum(t, x)
    BY <1>5, ParsedBy
  <2>2. CASE Named(t, x.word) # {}
    <3>1. FirstValue(t, Named(t, x.word)) \in Int
      BY <1>1, <1>5, <2>2, NamedValue DEF Named
    <3>2. raw \in FromName(t, FirstValue(t, Named(t, x.word)))
      BY <2>1, <2>2 DEF Enum
    <3>3. raw \in Raws(t) /\ raw = Wrapped(FirstValue(t, Named(t, x.word)), t.bits)
      BY <1>1, <3>1, <3>2, FromNameOK
    <3>4. Means(t, x, raw)
      BY <1>5, <2>2, <3>3 DEF Means
    <3> QED BY <1>1, <3>3, <3>4
  <2>3. CASE Named(t, x.word) = {}
    <3>1. x.digits /\ raw \in FromNumber(t, x.number)
      BY <2>1, <2>3 DEF Enum
    <3>2. raw \in Raws(t) /\ NumberOf(t, raw) = IF t.signed THEN x.number ELSE Stored64(x.number)
      BY <1>1, <3>1, FromNumberOK DEF TextOK
    <3>3. Means(t, x, raw)
      BY <1>5, <2>3, <3>1, <3>2 DEF Means
    <3> QED BY <1>1, <3>2, <3>3
  <2> QED BY <2>2, <2>3
<1> QED BY <1>1, <1>3, <1>4, <1>5 DEF WithText

(* A number is printed in digits, and they make that number.                *)
LEMMA NumberText ==
  ASSUME NEW t, NEW raw
  PROVE  LET x == Printed(t, raw)
         IN x.digits = TRUE /\ x.number = NumberOf(t, raw) /\ x.word = ToString(NumberOf(t, raw))
<1> DEFINE n == NumberOf(t, raw)
<1> DEFINE w == ToString(n)
<1>1. Printed(t, raw) = [word |-> w, digits |-> TRUE, number |-> n]
  BY DEF Printed, Number
<1> HIDE DEF n, w
<1>2. [word |-> w, digits |-> TRUE, number |-> n].digits = TRUE
  BY Zenon
<1>3. [word |-> w, digits |-> TRUE, number |-> n].number = n
  OBVIOUS
<1>4. [word |-> w, digits |-> TRUE, number |-> n].word = w
  OBVIOUS
<1> QED BY <1>1, <1>2, <1>3, <1>4, Zenon DEF n, w

(* Printed as a number and read again, a value is the same.                 *)
LEMMA NumbersReadBack ==
  ASSUME NEW t, ValuesOK(t), NEW raw \in Raws(t), t.class \in WithText \ {"bool"},
         t.class = "enum" => NamesOf(t, raw) = {}
  PROVE  Parsed(t, Printed(t, raw)) = {raw}
<1> DEFINE x == Printed(t, raw)
<1>1. x.digits /\ x.number = NumberOf(t, raw) /\ x.word = ToString(NumberOf(t, raw))
  BY NumberText, Zenon
<1> HIDE DEF x
<1>2. InRange(t, x.number) /\ Wrapped(x.number, t.bits) = raw /\ x.number \in Int
  BY <1>1, Represented DEF InRange
<1>3. CASE t.class \in {"int", "uint16"}
  <2>1. Scanned(t, x) = {raw}
    BY <1>1, <1>2 DEF Scanned
  <2> QED BY <1>3, <2>1, ParsedBy DEF x
<1>4. CASE t.class = "uint32"
  <2>1. ~t.signed
    BY <1>4 DEF ValuesOK
  <2>2. x.number = raw /\ raw \in 0 .. TwoTo(LongBits) - 1 /\ TwoTo(LongBits) \in Nat
    BY <1>1, <2>1, Represented, WidthOK DEF NumberOf
  <2>3. x.number \in -(TwoTo(LongBits) - 1) .. TwoTo(LongBits) - 1
    BY <2>2
  <2>4. Wrapped(Wrapped(x.number, LongBits), t.bits) = raw
    BY <1>2, WrappedOK DEF Stored64
  <2>5. ScannedAsLong(t, x) = {raw}
    BY <1>1, <2>3, <2>4 DEF ScannedAsLong
  <2> QED BY <1>4, <2>5, ParsedBy DEF x
<1>5. CASE t.class = "enum"
  <2>1. Named(t, x.word) = {}
    BY <1>1, <1>5 DEF Named, ValuesOK, NamesOK
  <2>2. (IF t.signed THEN x.number ELSE Stored64(x.number)) = x.number
    <3>1. CASE t.signed
      BY <3>1
    <3>2. CASE ~t.signed
      <4>1. x.number = raw
        BY <1>1, <3>2 DEF NumberOf
      <4> QED BY <3>2, <4>1, Represented
    <3> QED BY <3>1, <3>2
  <2>3. FromNumber(t, x.number) = {raw}
    BY <1>2, <2>2 DEF FromNumber
  <2>4. Enum(t, x) = {raw}
    BY <1>1, <2>1, <2>3 DEF Enum
  <2> QED BY <1>5, <2>4, ParsedBy DEF x
<1> QED BY <1>3, <1>4, <1>5 DEF WithText

(* Printed as a name, too.                                                  *)
LEMMA NamesReadBack ==
  ASSUME NEW t, ValuesOK(t), NEW raw \in Raws(t), t.class = "enum", NamesOf(t, raw) # {}
  PROVE  Parsed(t, Word(t.names[Min(NamesOf(t, raw))].name)) = {raw}
<1> DEFINE k == Min(NamesOf(t, raw))
<1> DEFINE w == t.names[k].name
<1> DEFINE x == Word(w)
<1> DEFINE K == Named(t, w)
<1>1. NamesOK(t)
  BY DEF ValuesOK
<1>2. k \in DOMAIN t.names /\ Stored64(t.names[k].value) = raw
  <2>1. k \in NamesOf(t, raw)
    BY NamedValue DEF NamesOf
  <2> QED BY <2>1 DEF NamesOf
<1>3. x.word = w
  BY DEF Word
<1> HIDE DEF x, k
<1>4. K # {} /\ K \subseteq DOMAIN t.names /\ k \in K
  BY <1>2 DEF Named
<1>5. Min(K) \in K /\ FirstValue(t, K) = t.names[Min(K)].value
  BY <1>4, NamedValue
<1>6. Min(K) = k
  BY <1>1, <1>2, <1>5 DEF Named, NamesOK
<1>7. FirstValue(t, K) = t.names[k].value
  BY <1>5, <1>6
<1> DEFINE v == t.names[k].value
<1>8. v \in Int
  BY <1>1, <1>2 DEF NamesOK
<1>9. Wrapped(raw, t.bits) = raw
  BY Represented
<1> HIDE DEF v
<1>10. FromName(t, v) = {raw}
  BY <1>2, <1>9 DEF FromName, v
<1>11. Enum(t, x) = {raw}
  BY <1>3, <1>4, <1>7, <1>10 DEF Enum, v
<1>12. Parsed(t, x) = {raw}
  BY <1>11, ParsedBy
<1> QED BY <1>12 DEF x, k

(* to_string() and from_string() agree on every value from_string() can     *)
(* store.                                                                   *)
LEMMA TextReadsBack ==
  ASSUME NEW t, ValuesOK(t), t.class \in WithText, NEW x, TextOK(x), NEW raw \in Parsed(t, x)
  PROVE  Parsed(t, ToText(t, raw)) = {raw}
<1>1. raw \in Raws(t)
  BY ParsedMeans
<1>2. CASE t.class = "bool"
  <2>1. raw \in {0, 1}
    BY <1>2, ParsedBy DEF Bool
  <2>2. Bool(Word("false")) = {0} /\ Bool(Word("true")) = {1}
    BY DEF Bool, Word
  <2>3. ToText(t, raw) = Word(IF raw = 0 THEN "false" ELSE "true")
    BY <1>2 DEF ToText
  <2> QED BY <1>2, <2>1, <2>2, <2>3, ParsedBy
<1>3. CASE t.class = "enum" /\ NamesOf(t, raw) # {}
  <2>1. ToText(t, raw) = Word(t.names[Min(NamesOf(t, raw))].name)
    BY <1>3 DEF ToText
  <2> QED BY <1>1, <1>3, <2>1, NamesReadBack
<1>4. CASE t.class # "bool" /\ ~(t.class = "enum" /\ NamesOf(t, raw) # {})
  <2>1. ToText(t, raw) = Printed(t, raw)
    BY <1>4 DEF ToText
  <2> QED BY <1>1, <1>4, <2>1, NumbersReadBack
<1> QED BY <1>2, <1>3, <1>4

-----------------------------------------------------------------------------
(* Where paths lead.                                                        *)

(* The bytes of a section of workload i.                                    *)
SectionOf(i, s) == Desc(i).sections[s]
SectionAt(i, s) == inst[i].at + SectionOf(i, s).offset
InSection(i, s, at, size) ==
  SectionAt(i, s) <= at /\ at + size <= SectionAt(i, s) + SizeOf(SectionOf(i, s).type)

(* The bytes of the bound fields of blackboards that lie in it.             *)
InBoardField(i, s, at, size) ==
  \E f \in BoardFields :
    /\ f.board \in Nat /\ InSection(i, s, f.board, 1)
    /\ f.type \in DOMAIN Types /\ f.at \in Nat
    /\ f.at <= at /\ at + size <= f.at + SizeOf(f.type)

(* A place in the section, or in a bound field of a blackboard in it.       *)
Located(r, i, s) ==
  /\ r.type \in DOMAIN Types
  /\ \/ InSection(i, s, r.at, SizeOf(r.type))
     \/ BoardsBound /\ InBoardField(i, s, r.at, SizeOf(r.type))

(* What a path that starts from the section resolves to.                    *)
Locations(i, s) ==
  {r \in [found : {"yes", "no", "unbound"}, at : Nat, type : DOMAIN Types \cup {"void"}] :
     r.found = "yes" => Located(r, i, s)}

(* The fields of a blackboard have offsets once it is bound.                *)
OffsetsKnown ==
  \A a \in DOMAIN boards : \A k \in DOMAIN boards[a].fields :
    \/ boards[a].fields[k].offset = Unbound
    \/ BoardsBound /\ a \in BoundBoards /\ boards[a].fields[k].offset \in Int

(* What the layout says of workload i once all of them are placed.          *)
Ready == LayoutInv /\ KnownTypes /\ Len(inst) = N /\ BoardsInv /\ OffsetsKnown

(* Workloads lie in the buffer, ...                                         *)
LEMMA WorkloadPlaced ==
  ASSUME LayoutInv, KnownTypes, Len(inst) = N, NEW i \in 1 .. N
  PROVE  /\ inst[i].at \in Nat /\ Desc(i).size \in Nat /\ Total \in Nat /\ N \in Nat
         /\ inst[i].at + Desc(i).size <= Total
<1>1. inst \in Seq([stats : Nat, at : Nat]) /\ i \in 1 .. Len(inst) /\ i \in DOMAIN inst
  BY LenProperties DEF LayoutInv, InstOK
<1>2. inst[i] \in [stats : Nat, at : Nat]
  BY <1>1, ElementOfSeq
<1>3. Total \in Nat
  BY DEF LayoutInv, EndsOK, Total
<1> QED BY <1>1, <1>2, <1>3, SeedTypes, InvImpliesLayoutOK DEF LayoutInv, LayoutOK

(* ... and sections in their workloads.                                     *)
LEMMA SectionPlaced ==
  ASSUME LayoutInv, KnownTypes, Len(inst) = N, NEW i \in 1 .. N, NEW s \in DOMAIN Desc(i).sections
  PROVE  /\ SectionOf(i, s).type \in DOMAIN Types /\ SizeOf(SectionOf(i, s).type) \in Nat
         /\ SectionOf(i, s).offset \in Nat /\ SectionAt(i, s) \in Nat
         /\ SectionOf(i, s).offset + SizeOf(SectionOf(i, s).type) <= Desc(i).size
         /\ SectionAt(i, s) + SizeOf(SectionOf(i, s).type) <= Total
<1>1. Desc(i) = Workloads[Seed(i).type] /\ Seed(i).type \in DOMAIN Workloads
  BY DEF KnownTypes, Desc
<1>2. /\ SectionOf(i, s).type \in DOMAIN Types /\ SectionOf(i, s).offset \in Nat
      /\ SectionOf(i, s).offset + SizeOf(SectionOf(i, s).type) <= Desc(i).size
  BY <1>1, RegistryAssumption DEF SectionOf
<1>3. SizeOf(SectionOf(i, s).type) \in Nat
  BY <1>2, RegistryAssumption DEF SizeOf
<1>4. /\ inst[i].at \in Nat /\ Desc(i).size \in Nat /\ Total \in Nat
      /\ inst[i].at + Desc(i).size <= Total
  BY WorkloadPlaced
<1> DEFINE o == SectionOf(i, s).offset
<1> DEFINE z == SizeOf(SectionOf(i, s).type)
<1>5. inst[i].at + o \in Nat /\ (inst[i].at + o) + z <= Total
  <2>1. o \in Nat /\ z \in Nat /\ o + z <= Desc(i).size
    BY <1>2, <1>3
  <2> HIDE DEF o, z
  <2> QED BY <1>4, <2>1
<1> QED BY <1>2, <1>3, <1>5 DEF SectionAt

(* The field with a name is the first that has it                           *)
(* (TypeDescriptor.cpp:62-73).                                              *)
LEMMA NamedField ==
  ASSUME NEW fields, FieldsKnown(fields), NEW name, FieldsNamed(fields, name) # {}
  PROVE  \E k \in DOMAIN fields : FieldNamed(fields, name) = fields[k] /\ fields[k].type \in DOMAIN Types
<1>1. FieldsNamed(fields, name) \subseteq Nat
  BY DEF FieldsNamed, FieldsKnown
<1>2. Min(FieldsNamed(fields, name)) \in FieldsNamed(fields, name)
  BY <1>1, MinOf
<1> QED BY <1>2 DEF FieldNamed, FieldsNamed, FieldsKnown

(* A member lies where the struct or the blackboard says.                   *)
LEMMA StructMember ==
  ASSUME Ready, NEW i \in 1 .. N, NEW s \in DOMAIN Desc(i).sections,
         NEW r, Located(r, i, s), r.at \in Nat, Types[r.type].kind = "struct",
         NEW k \in DOMAIN Types[r.type].fields
  PROVE  /\ r.at + Types[r.type].fields[k].offset \in Nat
         /\ Located(Resolved(r.at + Types[r.type].fields[k].offset, Types[r.type].fields[k].type), i, s)
<1> DEFINE f == Types[r.type].fields[k]
<1> DEFINE at == r.at + f.offset
<1> DEFINE z == SizeOf(f.type)
<1>1. /\ f.type \in DOMAIN Types /\ f.offset \in Nat /\ f.offset + SizeOf(f.type) <= SizeOf(r.type)
      /\ SizeOf(f.type) \in Nat /\ SizeOf(r.type) \in Nat
  BY RegistryAssumption DEF Located, FieldsKnown, SizeOf
<1> HIDE DEF f
<1>2. at \in Nat /\ at >= r.at /\ at + z <= r.at + SizeOf(r.type) /\ z \in Nat
  BY <1>1
<1> HIDE DEF at, z
<1>3. ASSUME InSection(i, s, r.at, SizeOf(r.type))
      PROVE  InSection(i, s, at, z)
  <2>1. SectionAt(i, s) \in Nat /\ SizeOf(SectionOf(i, s).type) \in Nat
    BY SectionPlaced DEF Ready
  <2> QED BY <1>1, <1>2, <1>3, <2>1 DEF InSection
<1>4. ASSUME InBoardField(i, s, r.at, SizeOf(r.type))
      PROVE  InBoardField(i, s, at, z)
  <2>1. PICK g \in BoardFields :
          /\ g.board \in Nat /\ InSection(i, s, g.board, 1)
          /\ g.type \in DOMAIN Types /\ g.at \in Nat
          /\ g.at <= r.at /\ r.at + SizeOf(r.type) <= g.at + SizeOf(g.type)
    BY <1>4 DEF InBoardField
  <2>2. SizeOf(g.type) \in Nat
    BY <2>1, RegistryAssumption DEF SizeOf
  <2>3. g.at <= at /\ at + z <= g.at + SizeOf(g.type)
    BY <1>1, <1>2, <2>1, <2>2
  <2> QED BY <2>1, <2>3 DEF InBoardField
<1> DEFINE q == Resolved(at, f.type)
<1>5. q.at = at /\ q.type = f.type
  BY DEF Resolved
<1> HIDE DEF q
<1>6. Located(q, i, s)
  BY <1>1, <1>3, <1>4, <1>5 DEF Located, z
<1> QED BY <1>2, <1>6 DEF q, at, f

LEMMA BoardMember ==
  ASSUME Ready, NEW i \in 1 .. N, NEW s \in DOMAIN Desc(i).sections,
         NEW r, Located(r, i, s), r.at \in Nat, Types[r.type].kind = "board", r.at \in DOMAIN boards,
         NEW k \in DOMAIN boards[r.at].fields, boards[r.at].fields[k].offset # Unbound
  PROVE  /\ r.at + boards[r.at].fields[k].offset \in Nat
         /\ Located(Resolved(r.at + boards[r.at].fields[k].offset, boards[r.at].fields[k].type), i, s)
<1> DEFINE a == r.at
<1> DEFINE f == boards[a].fields[k]
<1> DEFINE at == a + f.offset
<1> DEFINE t == f.type
<1> DEFINE g == [board |-> a, k |-> k, at |-> at, type |-> t]
<1>1. BoardsBound /\ a \in BoundBoards /\ f.offset \in Int
  BY DEF Ready, OffsetsKnown
<1>2. f.type \in DOMAIN Types
  BY DEF Ready, BoardsInv, BoardsDescribed, Described, FieldsKnown
<1>3. a < Total /\ Total \in Nat
  <2>1. AllBoards \in Seq(0 .. Total - 1) /\ a \in ToSet(AllBoards) /\ Total \in Nat
    BY <1>1, AllBoardsOK, WorkloadPlaced DEF Ready, BoundBoards
  <2>2. PICK j \in DOMAIN AllBoards : AllBoards[j] = a
    BY <2>1 DEF ToSet
  <2>3. AllBoards[j] \in 0 .. Total - 1
    BY <2>1, <2>2, ElementOfSeq, LenProperties
  <2> QED BY <2>1, <2>2, <2>3
<1>4. g \in BoardFields
  BY <1>1 DEF BoardFields
<1>5. g.board = a /\ g.at = at /\ g.type = t
  <2> HIDE DEF at, t, a
  <2> QED OBVIOUS
<1> HIDE DEF g, t
<1>6. at \in Nat
  <2>1. g.at >= Total /\ at \in Int
    BY <1>1, <1>4 DEF Ready, BoardsInv, BoardFieldsApart
  <2> HIDE DEF at
  <2> QED BY <1>3, <1>5, <2>1
<1>7. InSection(i, s, a, 1)
  <2>1. InSection(i, s, a, SizeOf(r.type))
    <3>1. ASSUME InBoardField(i, s, a, SizeOf(r.type))
          PROVE  FALSE
      <4>1. PICK h \in BoardFields : h.at \in Nat /\ h.at <= a
        BY <3>1 DEF InBoardField
      <4>2. h.at >= Total
        BY <1>1 DEF Ready, BoardsInv, BoardFieldsApart
      <4> QED BY <1>3, <4>1, <4>2
    <3> QED BY <3>1 DEF Located
  <2>2. SizeOf(r.type) \in Nat /\ SizeOf(r.type) > 0
    BY RegistryAssumption DEF Located, SizeOf
  <2>3. SectionAt(i, s) \in Nat /\ SizeOf(SectionOf(i, s).type) \in Nat
    BY SectionPlaced DEF Ready
  <2> HIDE DEF a
  <2>4. a \in Nat
    BY DEF a
  <2> QED BY <2>1, <2>2, <2>3, <2>4 DEF InSection
<1> DEFINE q == Resolved(at, t)
<1>8. q.at = at /\ q.type = t
  BY DEF Resolved
<1> HIDE DEF q
<1>9. t \in DOMAIN Types /\ SizeOf(t) \in Nat
  BY <1>2, RegistryAssumption DEF SizeOf, t
<1> HIDE DEF at
<1>10. InBoardField(i, s, at, SizeOf(t))
  <2>1. g.at <= at /\ at + SizeOf(t) <= g.at + SizeOf(g.type)
    BY <1>5, <1>6, <1>9
  <2> QED BY <1>4, <1>5, <1>6, <1>7, <1>9, <2>1 DEF InBoardField
<1>11. Located(q, i, s)
  BY <1>1, <1>8, <1>9, <1>10 DEF Located
<1> QED BY <1>6, <1>11 DEF q, at, t

(* One segment of a path stays in the section, or in a field of a           *)
(* blackboard there.                                                        *)
LEMMA MemberLocated ==
  ASSUME Ready, NEW i \in 1 .. N, NEW s \in DOMAIN Desc(i).sections, NEW r \in Locations(i, s), NEW name
  PROVE  Member(r, name, boards) \in Locations(i, s)
<1> DEFINE fields == FieldsOf(r.type, r.at, boards)
<1> DEFINE field == FieldNamed(fields, name)
<1>1. /\ r \in [found : {"yes", "no", "unbound"}, at : Nat, type : DOMAIN Types \cup {"void"}]
      /\ r.found = "yes" => Located(r, i, s)
  BY DEF Locations
<1>2. Unresolved \in Locations(i, s)
  BY DEF Unresolved, Locations
<1>3. [r EXCEPT !.found = "unbound"] \in Locations(i, s)
  <2> DEFINE q == [r EXCEPT !.found = "unbound"]
  <2>1. q \in [found : {"yes", "no", "unbound"}, at : Nat, type : DOMAIN Types \cup {"void"}] /\ q.found = "unbound"
    BY <1>1
  <2> HIDE DEF q
  <2>2. q \in Locations(i, s)
    BY <2>1 DEF Locations
  <2> QED BY <2>2 DEF q
<1>4. ASSUME r.found = "yes", FieldsNamed(fields, name) # {}, field.offset # Unbound
      PROVE  Resolved(r.at + field.offset, field.type) \in Locations(i, s)
  <2>1. Located(r, i, s) /\ r.at \in Nat /\ r.type \in DOMAIN Types
    BY <1>1, <1>4 DEF Located
  <2>2. ASSUME NEW at \in Nat, NEW type, Located(Resolved(at, type), i, s)
        PROVE  Resolved(at, type) \in Locations(i, s)
    <3> DEFINE q == Resolved(at, type)
    <3>1. q.type = type /\ q.at = at /\ q = [found |-> "yes", at |-> at, type |-> type]
      BY DEF Resolved
    <3> HIDE DEF q
    <3>2. type \in DOMAIN Types
      BY <2>2, <3>1 DEF Located, q
    <3>3. q \in [found : {"yes", "no", "unbound"}, at : Nat, type : DOMAIN Types \cup {"void"}]
      BY <3>1, <3>2
    <3>4. q \in Locations(i, s)
      BY <2>2, <3>3 DEF Locations, q
    <3> QED BY <3>4 DEF q
  <2>3. CASE Types[r.type].kind = "struct"
    <3>1. fields = Types[r.type].fields
      BY <2>3 DEF FieldsOf
    <3>2. FieldsKnown(fields)
      BY <2>1, <3>1, RegistryAssumption
    <3> HIDE DEF fields
    <3>3. PICK k \in DOMAIN fields : field = fields[k]
      BY <1>4, <3>2, NamedField
    <3> HIDE DEF field
    <3>4. /\ r.at + Types[r.type].fields[k].offset \in Nat
          /\ Located(Resolved(r.at + Types[r.type].fields[k].offset, Types[r.type].fields[k].type), i, s)
      BY <2>1, <2>3, <3>1, StructMember
    <3> QED BY <2>2, <3>1, <3>3, <3>4
  <2>4. CASE Types[r.type].kind = "board" /\ r.at \in DOMAIN boards
    <3>1. fields = boards[r.at].fields
      BY <2>4 DEF FieldsOf
    <3>2. FieldsKnown(fields)
      BY <2>4, <3>1 DEF Ready, BoardsInv, BoardsDescribed, Described
    <3> HIDE DEF fields
    <3>3. PICK k \in DOMAIN fields : field = fields[k]
      BY <1>4, <3>2, NamedField
    <3> HIDE DEF field
    <3>4. k \in DOMAIN boards[r.at].fields /\ boards[r.at].fields[k].offset # Unbound
      BY <1>4, <3>1, <3>3
    <3>5. /\ r.at + boards[r.at].fields[k].offset \in Nat
          /\ Located(Resolved(r.at + boards[r.at].fields[k].offset, boards[r.at].fields[k].type), i, s)
      BY <2>1, <2>4, <3>4, BoardMember
    <3> QED BY <2>2, <3>1, <3>3, <3>5
  <2>5. CASE Types[r.type].kind # "struct" /\ ~(Types[r.type].kind = "board" /\ r.at \in DOMAIN boards)
    <3>1. fields = <<>>
      BY <2>5 DEF FieldsOf
    <3>2. FieldsNamed(fields, name) = {}
      BY <3>1 DEF FieldsNamed
    <3> QED BY <1>4, <3>2
  <2> QED BY <2>3, <2>4, <2>5
<1>5. \/ Member(r, name, boards) = r
      \/ Member(r, name, boards) = Unresolved
      \/ Member(r, name, boards) = [r EXCEPT !.found = "unbound"]
      \/ /\ r.found = "yes" /\ FieldsNamed(fields, name) # {} /\ field.offset # Unbound
         /\ Member(r, name, boards) = Resolved(r.at + field.offset, field.type)
  <2> DEFINE empty == FieldsNamed(fields, name) = {}
  <2> DEFINE free == field.offset = Unbound
  <2> DEFINE unbound == [r EXCEPT !.found = "unbound"]
  <2> DEFINE found == Resolved(r.at + field.offset, field.type)
  <2> DEFINE result == CASE r.found # "yes" -> r
                         [] r.found = "yes" /\ empty -> Unresolved
                         [] OTHER -> IF free THEN unbound ELSE found
  <2>1. Member(r, name, boards) = result
    BY DEF Member
  <2> HIDE DEF empty, free, unbound, found
  <2>2. \/ result = r \/ result = Unresolved \/ result = unbound
        \/ r.found = "yes" /\ ~empty /\ ~free /\ result = found
    OBVIOUS
  <2> HIDE DEF result
  <2> QED BY <2>1, <2>2 DEF empty, free, unbound, found
<1> HIDE DEF fields, field
<1> QED BY <1>2, <1>3, <1>4, <1>5

(* A path starts from the whole section.                                    *)
LEMMA SectionLocated ==
  ASSUME Ready, NEW i \in 1 .. N, NEW s \in DOMAIN Desc(i).sections
  PROVE  Resolved(SectionAt(i, s), SectionOf(i, s).type) \in Locations(i, s)
<1> DEFINE at == SectionAt(i, s)
<1> DEFINE t == SectionOf(i, s).type
<1>1. at \in Nat /\ t \in DOMAIN Types /\ SizeOf(t) \in Nat
  BY SectionPlaced DEF Ready
<1>2. InSection(i, s, at, SizeOf(t))
  BY <1>1 DEF InSection
<1> HIDE DEF at, t
<1> DEFINE q == Resolved(at, t)
<1>3. q = [found |-> "yes", at |-> at, type |-> t] /\ q.at = at /\ q.type = t
  BY DEF Resolved
<1> HIDE DEF q
<1>4. Located(q, i, s)
  BY <1>1, <1>2, <1>3 DEF Located
<1>5. q \in [found : {"yes", "no", "unbound"}, at : Nat, type : DOMAIN Types \cup {"void"}]
  BY <1>1, <1>3
<1>6. q \in Locations(i, s)
  BY <1>4, <1>5 DEF Locations
<1> QED BY <1>6 DEF q, at, t

(* Whatever a path leads to lies in the section it starts from, or in a     *)
(* field of a blackboard there.                                             *)
LEMMA NestedLocated ==
  ASSUME Ready, NEW i \in 1 .. N, NEW s \in DOMAIN Desc(i).sections, NEW path, Len(path) \in Nat
  PROVE  ResolveNested(SectionAt(i, s), SectionOf(i, s).type, path, boards) \in Locations(i, s)
<1> DEFINE V == Locations(i, s)
<1> DEFINE m == Len(path)
<1> DEFINE base == Resolved(SectionAt(i, s), SectionOf(i, s).type)
<1> DEFINE next(k, r) == Member(r, path[k], boards)
<1> DEFINE g == [p \in (1 .. m) \X V |-> next(p[1], p[2])]
<1> DEFINE Solves(f) == f = [k \in 0 .. m |-> IF k = 0 THEN base ELSE next(k, f[k - 1])]
<1> DEFINE end == CHOOSE e : Solves(e)
<1>1. ResolvedUpTo(SectionAt(i, s), SectionOf(i, s).type, path, boards) = end
  BY DEF ResolvedUpTo
<1>2. Unresolved \in V
  BY DEF Unresolved, Locations
<1>3. base \in V
  BY SectionLocated
<1>4. \A k \in 1 .. m : \A r \in V : next(k, r) \in V
  BY MemberLocated
<1>5. m \in Nat
  OBVIOUS
<1> HIDE DEF V, base, next, m
<1>6. g \in [(1 .. m) \X V -> V] /\ \A k \in 1 .. m, r \in V : g[<<k, r>>] = next(k, r)
  BY <1>4
<1> HIDE DEF g
<1>7. PICK f \in [0 .. m -> V] : Recurs(f, m, base, g)
  BY <1>3, <1>5, <1>6, Recursion
<1>8. Solves(f)
  <2>1. ASSUME NEW k \in 0 .. m, k # 0
        PROVE  g[<<k, f[k - 1]>>] = next(k, f[k - 1])
    <3>1. k \in 1 .. m /\ k - 1 \in 0 .. m
      BY <1>5, <2>1
    <3>2. f[k - 1] \in V
      BY <3>1
    <3> QED BY <1>6, <3>1, <3>2
  <2> QED BY <1>7, <2>1 DEF Recurs
<1> HIDE DEF Solves
<1>9. Solves(end)
  BY <1>8
<1> HIDE DEF end
<1>10. end[0] = base /\ \A k \in 1 .. m : end[k] = next(k, end[k - 1])
  BY <1>5, <1>9 DEF Solves
<1>11. \A k \in 0 .. m : end[k] \in V
  <2>1. \A k \in 1 .. m : end[k - 1] \in V => end[k] \in V
    BY <1>4, <1>10
  <2> QED BY <1>3, <1>5, <1>10, <2>1, Chain
<1>12. end[m] \in V
  BY <1>5, <1>11
<1>13. ResolveNested(SectionAt(i, s), SectionOf(i, s).type, path, boards) \in {Unresolved, end[m]}
  BY <1>1 DEF ResolveNested, m
<1> QED BY <1>2, <1>12, <1>13 DEF V

(* What belongs to two workloads, or to two sections of one, shares no byte.*)
Bytes(at, size) == at .. at + size - 1

(* What ends before something starts shares nothing with it.                *)
LEMMA Ahead ==
  ASSUME NEW w \in Nat, NEW o \in Nat, NEW z \in Nat, NEW size \in Nat, o + z <= size,
         NEW v \in Nat, NEW p \in Nat, NEW y \in Nat, w + size <= v
  PROVE  ~Overlap(w + o, z, v + p, y) /\ ~Overlap(v + p, y, w + o, z)
BY DEF Overlap

LEMMA Moved ==
  ASSUME NEW w \in Nat, NEW o \in Nat, NEW z \in Nat, NEW p \in Nat, NEW y \in Nat, ~Overlap(o, z, p, y)
  PROVE  ~Overlap(w + o, z, w + p, y)
BY DEF Overlap

(* The first, between two workloads, ...                                    *)
LEMMA WorkloadsApart ==
  ASSUME LayoutInv, KnownTypes, Len(inst) = N, NEW i \in 1 .. N, NEW j \in 1 .. N, i < j
  PROVE  inst[i].at + Desc(i).size <= inst[j].at
<1>1. /\ N \in Nat /\ inst[i].at \in Nat /\ inst[j].at \in Nat /\ Desc(i).size \in Nat
      /\ i \in DOMAIN inst /\ Len(inst) <= Len(layout.ends) /\ layout.ends \in Seq(Nat)
      /\ Len(layout.ends) \in Nat
  BY WorkloadPlaced, LenProperties DEF LayoutInv, InstOK, EndsOK
<1>2. i \in 1 .. Len(layout.ends) /\ j - 1 \in 1 .. Len(layout.ends) /\ j \in 1 .. Len(layout.ends) /\ i <= j - 1
      /\ j # 1
  BY <1>1
<1>3. layout.ends[i] \in Nat /\ layout.ends[j - 1] \in Nat /\ layout.ends[i] <= layout.ends[j - 1]
  <2>1. layout.ends[i] \in Nat /\ layout.ends[j - 1] \in Nat
    BY <1>1, <1>2, ElementOfSeq
  <2>2. \A p, q \in 1 .. Len(layout.ends) : p <= q => layout.ends[p] <= layout.ends[q]
    BY Zenon DEF LayoutInv, EndsOK
  <2>3. layout.ends[i] <= layout.ends[j - 1]
    BY <1>2, <2>2, Zenon
  <2> QED BY <2>1, <2>3
<1>4. Before(i) \in Nat /\ Before(j) = layout.ends[j - 1]
  BY <1>1, <1>2 DEF Before
<1>5. inst[i].at + Desc(i).size <= inst[j].at
  <2>1. /\ inst[i].at = Placed(Desc(i), After(StatsType, Before(i)))
        /\ inst[j].at = Placed(Desc(j), After(StatsType, Before(j)))
        /\ layout.ends[i] = Advanced(i, Before(i))
    BY <1>2 DEF LayoutInv, InstOK, EndsOK
  <2>2. inst[i].at + Desc(i).size = layout.ends[i]
    BY <1>4, <2>1, AdvancedOK DEF LayoutInv
  <2>3. /\ Placed(StatsType, Before(j)) >= Before(j) /\ Placed(StatsType, Before(j)) \in Nat
        /\ Placed(StatsType, Before(j)) + StatsType.size <= inst[j].at
    BY <1>3, <1>4, <2>1, AdvancedOK DEF LayoutInv
  <2>4. StatsType.size \in Nat
    BY EngineAssumption
  <2>5. inst[i].at + Desc(i).size \in Nat
    BY <1>1
  <2> DEFINE a == inst[i].at + Desc(i).size
  <2> DEFINE b == layout.ends[i]
  <2> DEFINE c == layout.ends[j - 1]
  <2> DEFINE d == Placed(StatsType, Before(j))
  <2> DEFINE e == inst[j].at
  <2>6. a = b /\ b \in Nat /\ c \in Nat /\ b <= c /\ d \in Nat /\ e \in Nat
    BY <1>1, <1>3, <2>2, <2>3
  <2>7. c <= d /\ d + StatsType.size <= e
    BY <1>4, <2>3
  <2> HIDE DEF a, b, c, d, e
  <2>8. a <= e
    BY <2>4, <2>6, <2>7
  <2> QED BY <2>8 DEF a, e
<1> QED BY <1>5

LEMMA Disjoint ==
  ASSUME NEW a \in Nat, NEW b \in Nat, NEW sa \in Nat, NEW sb \in Nat, ~Overlap(a, sa, b, sb)
  PROVE  Bytes(a, sa) \cap Bytes(b, sb) = {}
<1> SUFFICES ASSUME NEW x \in Bytes(a, sa), x \in Bytes(b, sb) PROVE FALSE
  OBVIOUS
<1>1. x \in Int /\ a <= x /\ x < a + sa /\ b <= x /\ x < b + sb
  BY DEF Bytes
<1> QED BY <1>1 DEF Overlap

(* ... and between two sections of one workload.                            *)
LEMMA SectionsApart ==
  ASSUME LayoutInv, KnownTypes, Len(inst) = N, NEW i \in 1 .. N, NEW s \in DOMAIN Desc(i).sections,
         NEW j \in 1 .. N, NEW t \in DOMAIN Desc(j).sections, i # j \/ s # t
  PROVE  Bytes(SectionAt(i, s), SizeOf(SectionOf(i, s).type))
           \cap Bytes(SectionAt(j, t), SizeOf(SectionOf(j, t).type)) = {}
<1> DEFINE w == inst[i].at
<1> DEFINE o == SectionOf(i, s).offset
<1> DEFINE z == SizeOf(SectionOf(i, s).type)
<1> DEFINE v == inst[j].at
<1> DEFINE p == SectionOf(j, t).offset
<1> DEFINE y == SizeOf(SectionOf(j, t).type)
<1>1. w \in Nat /\ o \in Nat /\ z \in Nat /\ Desc(i).size \in Nat /\ o + z <= Desc(i).size
  BY SectionPlaced, WorkloadPlaced
<1>2. v \in Nat /\ p \in Nat /\ y \in Nat /\ Desc(j).size \in Nat /\ p + y <= Desc(j).size
  BY SectionPlaced, WorkloadPlaced
<1>3. i < j => w + Desc(i).size <= v
  BY WorkloadsApart
<1>4. j < i => v + Desc(j).size <= w
  BY WorkloadsApart
<1>5. i = j => w = v /\ ~Overlap(o, z, p, y)
  <2> SUFFICES ASSUME i = j PROVE w = v /\ ~Overlap(o, z, p, y)
    OBVIOUS
  <2>1. s # t /\ Desc(i) = Workloads[Seed(i).type] /\ Seed(i).type \in DOMAIN Workloads
    BY DEF KnownTypes, Desc
  <2> QED BY <2>1, RegistryAssumption DEF SectionOf
<1>6. SectionAt(i, s) = w + o /\ SectionAt(j, t) = v + p
  BY DEF SectionAt
<1>7. i < j \/ j < i \/ i = j
  <2>1. N \in Nat
    BY WorkloadPlaced
  <2> QED BY <2>1
<1> HIDE DEF w, o, z, v, p, y
<1>8. ~Overlap(w + o, z, v + p, y)
  BY <1>1, <1>2, <1>3, <1>4, <1>5, <1>7, Ahead, Moved
<1>9. w + o \in Nat /\ v + p \in Nat
  BY <1>1, <1>2
<1>10. Bytes(w + o, z) \cap Bytes(v + p, y) = {}
  BY <1>1, <1>2, <1>8, <1>9, Disjoint
<1> QED BY <1>6, <1>10 DEF z, y

(* Where paths from two sections lead: apart, whatever the blackboards in   *)
(* them hold.                                                               *)
LEMMA LocatedApart ==
  ASSUME Ready, NEW i \in 1 .. N, NEW s \in DOMAIN Desc(i).sections,
         NEW j \in 1 .. N, NEW t \in DOMAIN Desc(j).sections, i # j \/ s # t,
         NEW p, Located(p, i, s), p.at \in Nat, NEW q, Located(q, j, t), q.at \in Nat
  PROVE  Bytes(p.at, SizeOf(p.type)) \cap Bytes(q.at, SizeOf(q.type)) = {}
<1> DEFINE a == p.at
<1> DEFINE b == q.at
<1> DEFINE za == SizeOf(p.type)
<1> DEFINE zb == SizeOf(q.type)
<1> SUFFICES ASSUME NEW x \in Bytes(a, za), x \in Bytes(b, zb) PROVE FALSE
  OBVIOUS
<1>1. a \in Nat /\ b \in Nat /\ za \in Nat /\ zb \in Nat
  BY RegistryAssumption DEF Located, SizeOf
<1>2. \/ InSection(i, s, a, za)
      \/ BoardsBound /\ InBoardField(i, s, a, za)
  BY DEF Located
<1>3. \/ InSection(j, t, b, zb)
      \/ BoardsBound /\ InBoardField(j, t, b, zb)
  BY DEF Located
<1> HIDE DEF a, b, za, zb
<1>4. x \in Int /\ a <= x /\ x < a + za /\ b <= x /\ x < b + zb
  BY <1>1 DEF Bytes
<1>5. /\ SectionAt(i, s) \in Nat /\ SizeOf(SectionOf(i, s).type) \in Nat
      /\ SectionAt(i, s) + SizeOf(SectionOf(i, s).type) <= Total
      /\ SectionAt(j, t) \in Nat /\ SizeOf(SectionOf(j, t).type) \in Nat
      /\ SectionAt(j, t) + SizeOf(SectionOf(j, t).type) <= Total
      /\ Total \in Nat
  BY SectionPlaced, WorkloadPlaced DEF Ready
<1>6. Bytes(SectionAt(i, s), SizeOf(SectionOf(i, s).type))
        \cap Bytes(SectionAt(j, t), SizeOf(SectionOf(j, t).type)) = {}
  BY SectionsApart DEF Ready
<1>7. ASSUME BoardsBound, NEW f \in BoardFields, f.at \in Nat, f.at <= x
      PROVE  x >= Total
  <2>1. f.at >= Total
    BY <1>7 DEF Ready, BoardsInv, BoardFieldsApart
  <2> QED BY <1>4, <1>5, <1>7, <2>1
<1>8. CASE InSection(i, s, a, za)
  <2>1. x \in Bytes(SectionAt(i, s), SizeOf(SectionOf(i, s).type)) /\ x < Total
    BY <1>1, <1>4, <1>5, <1>8 DEF InSection, Bytes
  <2>2. CASE InSection(j, t, b, zb)
    <3>1. x \in Bytes(SectionAt(j, t), SizeOf(SectionOf(j, t).type))
      BY <1>1, <1>4, <1>5, <2>2 DEF InSection, Bytes
    <3> QED BY <1>6, <2>1, <3>1
  <2>3. CASE BoardsBound /\ InBoardField(j, t, b, zb)
    <3>1. PICK f \in BoardFields : f.at \in Nat /\ f.at <= b
      BY <2>3 DEF InBoardField
    <3>2. x >= Total
      BY <1>1, <1>4, <1>7, <2>3, <3>1
    <3> QED BY <1>4, <1>5, <2>1, <3>2
  <2> QED BY <1>3, <2>2, <2>3
<1>9. CASE BoardsBound /\ InBoardField(i, s, a, za)
  <2>1. PICK f \in BoardFields :
          /\ f.board \in Nat /\ InSection(i, s, f.board, 1)
          /\ f.type \in DOMAIN Types /\ f.at \in Nat
          /\ f.at <= a /\ a + za <= f.at + SizeOf(f.type)
    BY <1>9 DEF InBoardField
  <2>2. x >= Total
    BY <1>1, <1>4, <1>7, <1>9, <2>1
  <2>3. CASE InSection(j, t, b, zb)
    <3>1. x < Total
      BY <1>1, <1>4, <1>5, <2>3 DEF InSection
    <3> QED BY <1>4, <1>5, <2>2, <3>1
  <2>4. CASE BoardsBound /\ InBoardField(j, t, b, zb)
    <3>1. PICK g \in BoardFields :
            /\ g.board \in Nat /\ InSection(j, t, g.board, 1)
            /\ g.type \in DOMAIN Types /\ g.at \in Nat
            /\ g.at <= b /\ b + zb <= g.at + SizeOf(g.type)
      BY <2>4 DEF InBoardField
    <3>2. f # g
      <4>1. f.board \in Bytes(SectionAt(i, s), SizeOf(SectionOf(i, s).type))
        BY <1>5, <2>1 DEF InSection, Bytes
      <4>2. g.board \in Bytes(SectionAt(j, t), SizeOf(SectionOf(j, t).type))
        BY <1>5, <3>1 DEF InSection, Bytes
      <4> QED BY <1>6, <4>1, <4>2
    <3>3. ~Overlap(f.at, SizeOf(f.type), g.at, SizeOf(g.type))
      BY <1>9, <3>2 DEF Ready, BoardsInv, BoardFieldsApart
    <3>4. SizeOf(f.type) \in Nat /\ SizeOf(g.type) \in Nat
      BY <2>1, <3>1, RegistryAssumption DEF SizeOf
    <3>5. Bytes(f.at, SizeOf(f.type)) \cap Bytes(g.at, SizeOf(g.type)) = {}
      BY <2>1, <3>1, <3>3, <3>4, Disjoint
    <3>6. x \in Bytes(f.at, SizeOf(f.type))
      BY <1>1, <1>4, <2>1, <3>4 DEF Bytes
    <3>7. x \in Bytes(g.at, SizeOf(g.type))
      BY <1>1, <1>4, <3>1, <3>4 DEF Bytes
    <3> QED BY <3>5, <3>6, <3>7
  <2> QED BY <1>3, <2>3, <2>4
<1> QED BY <1>2, <1>8, <1>9

-----------------------------------------------------------------------------
(* What a model sets, in the order of the second pass.                      *)

(* The part of Settings(i) that comes from a section.                       *)
Texts(i, section) ==
  IF section \notin DOMAIN Desc(i).sections THEN <<>>
  ELSE [k \in DOMAIN Entries(i, section) |->
          [section |-> section, path |-> Entries(i, section)[k].path, text |-> Entries(i, section)[k].text]]

(* The round that applies entry k of a section.                             *)
Position(i, section, k) == IF section = "config" THEN k ELSE Len(Texts(i, "config")) + k

(* The sections of workload i that are configured.                          *)
Configurable(i) == {"config", "inputs"} \cap DOMAIN Desc(i).sections

(* Two sequences, one after the other.                                      *)
LEMMA Joined ==
  ASSUME NEW a, NEW b, Len(a) \in Nat, DOMAIN a = 1 .. Len(a), a = [k \in DOMAIN a |-> a[k]],
         Len(b) \in Nat, DOMAIN b = 1 .. Len(b), b = [k \in DOMAIN b |-> b[k]]
  PROVE  /\ Len(a \o b) = Len(a) + Len(b)
         /\ \A k \in 1 .. Len(a) : (a \o b)[k] = a[k]
         /\ \A k \in 1 .. Len(b) : (a \o b)[Len(a) + k] = b[k]
<1> DEFINE S == {a[k] : k \in DOMAIN a} \cup {b[k] : k \in DOMAIN b}
<1>1. a \in [1 .. Len(a) -> S] /\ b \in [1 .. Len(b) -> S]
  OBVIOUS
<1> HIDE DEF S
<1>2. a \in Seq(S) /\ b \in Seq(S)
  BY <1>1, SeqDef
<1>3. /\ Len(a \o b) = Len(a) + Len(b)
      /\ \A k \in 1 .. Len(a) + Len(b) : (a \o b)[k] = IF k <= Len(a) THEN a[k] ELSE b[k - Len(a)]
  BY <1>2, ConcatProperties
<1>4. \A k \in 1 .. Len(a) : (a \o b)[k] = a[k]
  BY <1>3
<1>5. ASSUME NEW k \in 1 .. Len(b)
      PROVE  (a \o b)[Len(a) + k] = b[k]
  <2>1. Len(a) + k \in 1 .. Len(a) + Len(b) /\ ~(Len(a) + k <= Len(a)) /\ (Len(a) + k) - Len(a) = k
    OBVIOUS
  <2> QED BY <1>3, <2>1
<1> QED BY <1>3, <1>4, <1>5

(* One setting per entry of the section.                                    *)
LEMMA TextsOK ==
  ASSUME LayoutInv, NEW i \in 1 .. N, NEW section \in {"config", "inputs"}
  PROVE  LET texts == Texts(i, section)
             entries == Entries(i, section)
         IN /\ Len(texts) \in Nat /\ DOMAIN texts = 1 .. Len(texts) /\ texts = [k \in DOMAIN texts |-> texts[k]]
            /\ EntriesOK(entries)
            /\ section \in DOMAIN Desc(i).sections => DOMAIN texts = DOMAIN entries
            /\ section \notin DOMAIN Desc(i).sections => DOMAIN texts = {}
            /\ \A k \in DOMAIN texts :
                 texts[k].section = section /\ texts[k].path = entries[k].path /\ texts[k].text = entries[k].text
<1> DEFINE entries == Entries(i, section)
<1> DEFINE entry(k) == [section |-> section, path |-> entries[k].path, text |-> entries[k].text]
<1>1. EntriesOK(entries)
  <2>1. model \in Models /\ i \in DOMAIN model.seeds
    BY EngineAssumption DEF LayoutInv, N
  <2> QED BY <2>1, ModelAssumption DEF Entries, Seed
<1>2. Len(entries) \in Nat /\ DOMAIN entries = 1 .. Len(entries)
  BY <1>1 DEF EntriesOK
<1> HIDE DEF entries
<1>3. \A k \in DOMAIN entries :
        entry(k).section = section /\ entry(k).path = entries[k].path /\ entry(k).text = entries[k].text
  OBVIOUS
<1> HIDE DEF entry
<1>4. CASE section \in DOMAIN Desc(i).sections
  <2> DEFINE texts == [k \in DOMAIN entries |-> entry(k)]
  <2>1. Texts(i, section) = texts
    BY <1>4 DEF Texts, entries, entry
  <2>2. DOMAIN texts = DOMAIN entries /\ Len(texts) = Len(entries) /\ texts = [k \in DOMAIN texts |-> texts[k]]
    BY <1>2, LenProperties
  <2>3. \A k \in DOMAIN texts : texts[k] = entry(k)
    OBVIOUS
  <2> HIDE DEF texts
  <2> QED BY <1>1, <1>2, <1>3, <1>4, <2>1, <2>2, <2>3 DEF entries
<1>5. CASE section \notin DOMAIN Desc(i).sections
  <2>1. Texts(i, section) = <<>>
    BY <1>5 DEF Texts
  <2>2. Len(<<>>) = 0 /\ DOMAIN <<>> = {} /\ <<>> = [k \in DOMAIN <<>> |-> <<>>[k]]
    OBVIOUS
  <2> QED BY <1>1, <1>5, <2>1, <2>2 DEF entries
<1> QED BY <1>4, <1>5

(* First config, then inputs (Engine.cpp:272-288).                          *)
LEMMA SettingsAre ==
  ASSUME NEW i
  PROVE  Settings(i) = Texts(i, "config") \o (IF pc.at = "preload" THEN <<>> ELSE Texts(i, "inputs"))
BY DEF Settings, Texts, Entries

(* The entry that a round applies.                                          *)
LEMMA RoundApplies ==
  ASSUME LayoutInv, NEW i \in 1 .. N, NEW n \in Nat \ {0}, n <= Len(Settings(i))
  PROVE  /\ Len(Settings(i)) \in Nat
         /\ \E section \in Configurable(i) : \E k \in DOMAIN Entries(i, section) :
              /\ Settings(i)[n].section = section
              /\ Settings(i)[n].path = Entries(i, section)[k].path
              /\ Settings(i)[n].text = Entries(i, section)[k].text
              /\ Position(i, section, k) = n
<1> DEFINE a == Texts(i, "config")
<1> DEFINE c == Texts(i, "inputs")
<1> DEFINE b == IF pc.at = "preload" THEN <<>> ELSE c
<1>1. /\ Len(a) \in Nat /\ DOMAIN a = 1 .. Len(a) /\ a = [k \in DOMAIN a |-> a[k]]
      /\ Len(c) \in Nat /\ DOMAIN c = 1 .. Len(c) /\ c = [k \in DOMAIN c |-> c[k]]
  BY TextsOK
<1>2. Settings(i) = a \o b
  BY SettingsAre
<1>3. \A k \in DOMAIN a : /\ "config" \in Configurable(i) /\ k \in DOMAIN Entries(i, "config")
                          /\ a[k].section = "config" /\ a[k].path = Entries(i, "config")[k].path
                          /\ a[k].text = Entries(i, "config")[k].text
                          /\ Position(i, "config", k) = k
  BY TextsOK DEF Configurable, Position
<1>4. \A k \in DOMAIN c : /\ "inputs" \in Configurable(i) /\ k \in DOMAIN Entries(i, "inputs")
                          /\ c[k].section = "inputs" /\ c[k].path = Entries(i, "inputs")[k].path
                          /\ c[k].text = Entries(i, "inputs")[k].text
                          /\ Position(i, "inputs", k) = Len(a) + k
  BY TextsOK DEF Configurable, Position
<1>5. Len(<<>>) = 0 /\ DOMAIN <<>> = {} /\ <<>> = [k \in DOMAIN <<>> |-> <<>>[k]]
  OBVIOUS
<1> HIDE DEF a, c
<1>6. Len(b) \in Nat /\ DOMAIN b = 1 .. Len(b) /\ b = [k \in DOMAIN b |-> b[k]]
  BY <1>1, <1>5
<1>7. \A k \in DOMAIN b : k \in DOMAIN c /\ b[k] = c[k]
  BY <1>5
<1> HIDE DEF b
<1>8. /\ Len(Settings(i)) = Len(a) + Len(b)
      /\ \A k \in 1 .. Len(a) : Settings(i)[k] = a[k]
      /\ \A k \in 1 .. Len(b) : Settings(i)[Len(a) + k] = b[k]
  BY <1>1, <1>2, <1>6, Joined
<1>9. CASE n <= Len(a)
  <2>1. n \in DOMAIN a /\ Settings(i)[n] = a[n]
    BY <1>1, <1>8, <1>9
  <2> QED BY <1>1, <1>3, <1>6, <1>8, <2>1
<1>10. CASE ~(n <= Len(a))
  <2> DEFINE k == n - Len(a)
  <2>1. k \in 1 .. Len(b) /\ Len(a) + k = n
    BY <1>1, <1>6, <1>8, <1>10
  <2> HIDE DEF k
  <2>2. Settings(i)[n] = c[k] /\ k \in DOMAIN c
    BY <1>6, <1>7, <1>8, <2>1
  <2> QED BY <1>1, <1>4, <1>6, <1>8, <2>1, <2>2
<1> QED BY <1>9, <1>10

(* All rounds apply all entries.                                            *)
LEMMA RoundsApplyAll ==
  ASSUME LayoutInv, NEW i \in 1 .. N, pc.at # "preload",
         NEW section \in Configurable(i), NEW k \in DOMAIN Entries(i, section)
  PROVE  Position(i, section, k) \in Nat \ {0} /\ Position(i, section, k) <= Len(Settings(i))
<1> DEFINE a == Texts(i, "config")
<1> DEFINE c == Texts(i, "inputs")
<1>1. /\ Len(a) \in Nat /\ DOMAIN a = 1 .. Len(a) /\ a = [j \in DOMAIN a |-> a[j]]
      /\ Len(c) \in Nat /\ DOMAIN c = 1 .. Len(c) /\ c = [j \in DOMAIN c |-> c[j]]
  BY TextsOK
<1>2. Settings(i) = a \o c
  BY SettingsAre
<1>3. section = "config" => k \in DOMAIN a
  BY TextsOK DEF Configurable
<1>4. section = "inputs" => k \in DOMAIN c
  BY TextsOK DEF Configurable
<1>5. Position(i, section, k) = IF section = "config" THEN k ELSE Len(a) + k
  BY DEF Position
<1>6. section \in {"config", "inputs"}
  BY DEF Configurable
<1> HIDE DEF a, c
<1>7. Len(Settings(i)) = Len(a) + Len(c)
  BY <1>1, <1>2, Joined
<1> QED BY <1>1, <1>3, <1>4, <1>5, <1>6, <1>7

LEMMA SettingsCount ==
  ASSUME LayoutInv, NEW i \in 1 .. N, pc.at # "preload"
  PROVE  Len(Settings(i)) \in Nat
<1>1. Settings(i) = Texts(i, "config") \o Texts(i, "inputs")
  BY SettingsAre
<1>2. Len(Settings(i)) = Len(Texts(i, "config")) + Len(Texts(i, "inputs"))
  BY <1>1, TextsOK, Joined
<1> QED BY <1>2, TextsOK

-----------------------------------------------------------------------------
(* What a round of apply_struct_field_values() does.                        *)

(* Where the path of entry k of a section leads.                            *)
Target(i, section, k) ==
  ResolveNested(SectionAt(i, section), SectionOf(i, section).type, Entries(i, section)[k].path, boards)

(* The entry that the loop applies next, and what becomes of it.            *)
Applies(section, k, raw) ==
  LET target == Target(pc.i, section, k) IN
  /\ target.found = "yes"
  /\ raw \in Parsed(Types[target.type].value, Entries(pc.i, section)[k].text)
  /\ memory' = Stored(memory, target.at, SizeOf(target.type), raw)

(* The first pass skips a path it cannot resolve yet (Engine.cpp:237-240).  *)
Skips(section, k) ==
  pc.at = "preload" /\ Target(pc.i, section, k).found = "no" /\ memory' = memory

(* Rounds count from 1.                                                     *)
PlaceOK == pc.i \in Nat /\ pc.entry \in Nat \ {0}

(* Entries are sequences of settings with a text, and their paths lead into *)
(* their section.                                                           *)
LEMMA TargetLocated ==
  ASSUME Ready, NEW i \in 1 .. N, NEW section \in Configurable(i), NEW k \in DOMAIN Entries(i, section)
  PROVE  /\ Target(i, section, k) \in Locations(i, section)
         /\ EntriesOK(Entries(i, section))
         /\ TextOK(Entries(i, section)[k].text)
<1>1. section \in {"config", "inputs"} /\ section \in DOMAIN Desc(i).sections
  BY DEF Configurable
<1>2. EntriesOK(Entries(i, section))
  BY <1>1, TextsOK DEF Ready
<1>3. Len(Entries(i, section)[k].path) \in Nat /\ TextOK(Entries(i, section)[k].text)
  BY <1>2 DEF EntriesOK, TextOK
<1> QED BY <1>1, <1>2, <1>3, NestedLocated DEF Target

LEMMA Picked ==
  ASSUME NEW values, values # {}, NEW wild
  PROVE  Pick(values, wild) \in values
BY DEF Pick

(* A round fails, or applies or skips one entry of one section.             *)
LEMMA RoundWrites ==
  ASSUME LayoutInv, PlaceOK, Apply, pc.i \in 1 .. N
  PROVE  \/ pc' = [at |-> "fatal", i |-> 0, entry |-> 1] /\ memory' = memory
         \/ /\ pc' = [at |-> pc.at, i |-> pc.i, entry |-> pc.entry + 1]
            /\ \E section \in Configurable(pc.i) : \E k \in DOMAIN Entries(pc.i, section) :
                 /\ Position(pc.i, section, k) = pc.entry
                 /\ Skips(section, k) \/ \E raw : Applies(section, k, raw)
<1> DEFINE setting == Settings(pc.i)[pc.entry]
<1> DEFINE r == FieldOf(pc.i, setting)
<1> DEFINE skipped == r.found = "no" /\ pc.at = "preload"
<1> DEFINE values == IF r.found = "yes" THEN Parsed(Types[r.type].value, setting.text) ELSE {}
<1>1. pc.entry \in Nat \ {0} /\ pc.entry <= Len(Settings(pc.i))
  BY DEF Apply, PlaceOK
<1>2. PICK section \in Configurable(pc.i) : \E k \in DOMAIN Entries(pc.i, section) :
        /\ setting.section = section
        /\ setting.path = Entries(pc.i, section)[k].path
        /\ setting.text = Entries(pc.i, section)[k].text
        /\ Position(pc.i, section, k) = pc.entry
  BY <1>1, RoundApplies
<1>3. PICK k \in DOMAIN Entries(pc.i, section) :
        /\ setting.section = section
        /\ setting.path = Entries(pc.i, section)[k].path
        /\ setting.text = Entries(pc.i, section)[k].text
        /\ Position(pc.i, section, k) = pc.entry
  BY <1>2
<1>4. r = Target(pc.i, section, k)
  BY <1>3, Zenon DEF FieldOf, Target, SectionAt, SectionOf
<1>5. \/ pc' = [at |-> "fatal", i |-> 0, entry |-> 1] /\ memory' = memory
      \/ /\ pc' = [at |-> pc.at, i |-> pc.i, entry |-> pc.entry + 1]
         /\ skipped \/ values # {}
         /\ \/ skipped /\ memory' = memory
            \/ ~skipped /\ \E wild \in Wild : memory' = Stored(memory, r.at, SizeOf(r.type), Pick(values, wild))
  BY Zenon DEF Apply, Go, Exit
<1>6. CASE pc' = [at |-> "fatal", i |-> 0, entry |-> 1] /\ memory' = memory
  BY <1>6
<1>7. CASE /\ pc' = [at |-> pc.at, i |-> pc.i, entry |-> pc.entry + 1]
           /\ skipped /\ memory' = memory
  BY <1>3, <1>4, <1>7 DEF Skips
<1>8. CASE /\ pc' = [at |-> pc.at, i |-> pc.i, entry |-> pc.entry + 1]
           /\ values # {}
           /\ \E wild \in Wild : memory' = Stored(memory, r.at, SizeOf(r.type), Pick(values, wild))
  <2>1. PICK wild \in Wild : memory' = Stored(memory, r.at, SizeOf(r.type), Pick(values, wild))
    BY <1>8
  <2> DEFINE raw == Pick(values, wild)
  <2>2. raw \in values
    BY <1>8, Picked
  <2>3. r.found = "yes" /\ values = Parsed(Types[r.type].value, setting.text)
    BY <1>8
  <2> HIDE DEF raw, r, setting, values
  <2>4. Applies(section, k, raw)
    BY <1>3, <1>4, <2>1, <2>2, <2>3 DEF Applies, raw
  <2> QED BY <1>3, <1>8, <2>4
<1> QED BY <1>5, <1>6, <1>7, <1>8

(* What is applied is a number, written to where memory may be.             *)
LEMMA AppliedOK ==
  ASSUME Ready, pc.i \in 1 .. N, NEW section \in Configurable(pc.i), NEW k \in DOMAIN Entries(pc.i, section),
         NEW raw, Applies(section, k, raw)
  PROVE  LET target == Target(pc.i, section, k)
             t == Types[target.type].value
         IN /\ target.at \in Nat /\ target.type \in DOMAIN Types
            /\ SizeOf(target.type) \in Nat
            /\ t.class \in WithText /\ ValuesOK(t) /\ t.bits = ByteBits * SizeOf(target.type)
            /\ raw \in Raws(t) /\ raw \in Int
<1> DEFINE target == Target(pc.i, section, k)
<1> DEFINE t == Types[target.type].value
<1> DEFINE text == Entries(pc.i, section)[k].text
<1>1. target \in Locations(pc.i, section) /\ TextOK(text) /\ target.found = "yes"
      /\ raw \in Parsed(t, text)
  BY TargetLocated DEF Applies
<1>2. target.at \in Nat /\ target.type \in DOMAIN Types
  BY <1>1 DEF Locations, Located
<1>3. /\ Types[target.type].size \in Nat
      /\ t.class \in WithText => ValuesOK(t) /\ t.bits = ByteBits * Types[target.type].size
  BY <1>2, RegistryAssumption
<1> HIDE DEF target, t, text
<1>4. ValuesOK(t) /\ t.class \in WithText /\ raw \in Raws(t)
  BY <1>1, <1>3, ParsedMeans
<1>5. raw \in Int
  BY <1>4, Represented
<1> QED BY <1>2, <1>3, <1>4, <1>5 DEF SizeOf, target, t

-----------------------------------------------------------------------------
(* What every state is made of.                                             *)

(* What has been counted, ...                                               *)
CountsOK ==
  /\ count \in [ticks : 0 .. MaxTicks, runs : 0 .. MaxRuns]
  /\ pc.at \in Running => count.runs > 0

(* ... connected, ...                                                       *)
Unconnected == {"build", "idle", "size", "layout", "set_engine", "preload", "configure", "load"}

ConnsCounted ==
  /\ pc.at \in Unconnected => conns = <<>>
  /\ pc.at = "connect" => pc.i = Len(conns) + 1
  /\ Len(conns) <= Len(model.conns)

(* ... placed ...                                                           *)
AllUnbound == \A a \in DOMAIN boards : \A k \in DOMAIN boards[a].fields : boards[a].fields[k].offset = Unbound

OffsetsOK ==
  /\ BoardsBound => Len(inst) = N /\ OffsetsKnown
  /\ pc.at \notin AfterBinding \cup Ends => AllUnbound

(* ... and written.                                                         *)
BytesOK == \A a \in DOMAIN memory : memory[a] \in Byte

(* The size used is set when the layout is complete, and reset with it.     *)
UsedOK == layout.used \in {0, layout.cursor}

TypeInv == PlaceOK /\ CountsOK /\ ConnsCounted /\ OffsetsOK /\ BytesOK /\ UsedOK

(* Nothing yet.                                                             *)
LEMMA TypeInit == Init => TypeInv
<1> SUFFICES ASSUME Init PROVE TypeInv
  OBVIOUS
<1>1. /\ pc = [at |-> "build", i |-> 1, entry |-> 1] /\ conns = <<>> /\ boards = <<>> /\ memory = <<>>
      /\ layout = [ends |-> <<>>, cursor |-> 0, capacity |-> 0, used |-> 0]
      /\ count = [ticks |-> 0, runs |-> 0] /\ model \in Models
  BY DEF Init
<1>2. pc.at = "build" /\ pc.i = 1 /\ pc.entry = 1 /\ Len(conns) = 0 /\ DOMAIN boards = {} /\ DOMAIN memory = {}
      /\ layout.used = 0
  BY <1>1
<1>3. MaxTicks \in Nat /\ MaxRuns \in Nat /\ Len(model.conns) \in Nat
  BY <1>1, EngineAssumption, ModelAssumption
<1>4. pc.at \notin Running /\ ~BoardsBound
  BY <1>2 DEF BoardsBound, AfterBinding, AfterLoad, Running
<1>5. CountsOK
  BY <1>1, <1>3, <1>4 DEF CountsOK
<1>6. ConnsCounted
  BY <1>1, <1>2, <1>3 DEF ConnsCounted
<1> QED BY <1>2, <1>4, <1>5, <1>6 DEF TypeInv, PlaceOK, OffsetsOK, AllUnbound, BytesOK, UsedOK

(* The rounds.                                                              *)
LEMMA PlaceNext ==
  ASSUME PlaceOK, ConnsOK, [Next]_vars
  PROVE  PlaceOK'
<1>1. CASE Apply
  <2>1. \/ pc' = [at |-> pc.at, i |-> pc.i, entry |-> pc.entry + 1]
        \/ pc' = [at |-> "fatal", i |-> 0, entry |-> 1]
    BY <1>1, Zenon DEF Apply, Go, Exit
  <2> QED BY <2>1 DEF PlaceOK
<1>2. CASE Copy
  <2>1. PICK k \in Left : pc' = [at |-> "copy", i |-> k + 1, entry |-> 1]
                          \/ pc' = [at |-> "fatal", i |-> 0, entry |-> 1]
    BY <1>2, Zenon DEF Copy, Go, Exit
  <2>2. k \in Nat
    BY ConnsNumbers DEF Left, Acquired
  <2> QED BY <2>1, <2>2 DEF PlaceOK
<1>3. CASE \E at : \E i \in {0, 1, pc.i, pc.i + 1} : pc' = [at |-> at, i |-> i, entry |-> 1]
  BY <1>3 DEF PlaceOK
<1>4. CASE Build \/ Load \/ Size \/ Allocate \/ Construct \/ Constructed \/ SetEngine \/ PreLoad \/ BindBoards
  BY <1>3, <1>4, Zenon DEF Build, Load, Size, Allocate, Construct, Constructed, SetEngine, PreLoad, BindBoards,
     Go, Exit
<1>5. CASE Configure \/ AllConfigured \/ LoadWorkload \/ HookUpChildren \/ Connect \/ Claim \/ Setup
           \/ SetupRemote \/ LoadAgain
  BY <1>3, <1>5, Zenon DEF Configure, AllConfigured, LoadWorkload, HookUpChildren, Connect, Claim, Setup,
     SetupRemote, LoadAgain, Go, Exit
<1>6. CASE Run \/ CopiesDone \/ TickRoot \/ NextTick \/ BeginStop \/ Stop \/ Stopped \/ BeginDestroy
           \/ Destroy \/ Destroyed
  BY <1>3, <1>6, Zenon DEF Run, CopiesDone, TickRoot, NextTick, BeginStop, Stop, Stopped, BeginDestroy,
     Destroy, Destroyed, Go, Exit
<1>7. CASE UNCHANGED vars
  BY <1>7 DEF vars, PlaceOK
<1> QED BY <1>1, <1>2, <1>4, <1>5, <1>6, <1>7 DEF Next

(* Where the loops of load() that end with the binding of blackboards go.  *)
LEMMA LoadingGoes ==
  ASSUME Build \/ Load \/ Size \/ Allocate \/ Construct \/ Constructed \/ SetEngine \/ PreLoad \/ BindBoards
  PROVE  pc'.at \in {"idle", "size", "layout", "set_engine", "preload", "configure", "fatal"}
<1>1. \/ \E i : pc' = [at |-> "idle", i |-> i, entry |-> 1]
      \/ \E i : pc' = [at |-> "size", i |-> i, entry |-> 1]
      \/ \E i : pc' = [at |-> "layout", i |-> i, entry |-> 1]
      \/ \E i : pc' = [at |-> "set_engine", i |-> i, entry |-> 1]
      \/ \E i : pc' = [at |-> "preload", i |-> i, entry |-> 1]
      \/ \E i : pc' = [at |-> "configure", i |-> i, entry |-> 1]
      \/ \E i : pc' = [at |-> "fatal", i |-> i, entry |-> 1]
  BY Zenon DEF Build, Load, Size, Allocate, Construct, Constructed, SetEngine, PreLoad, BindBoards, Go, Exit
<1> QED BY <1>1

(* The counters.                                                            *)
LEMMA CountsNext ==
  ASSUME CountsOK, [Next]_vars
  PROVE  CountsOK'
<1> USE DEF Running
<1>1. ASSUME count' = count, pc'.at \notin Running
      PROVE  CountsOK'
  BY <1>1 DEF CountsOK
<1>2. ASSUME count' = count, pc.at \in Running
      PROVE  CountsOK'
  BY <1>2 DEF CountsOK
<1>3. CASE Build \/ Load \/ Size \/ Allocate \/ Construct \/ Constructed \/ SetEngine \/ PreLoad \/ BindBoards
  <2>1. count' = count
    BY <1>3 DEF Build, Load, Size, Allocate, Construct, Constructed, SetEngine, PreLoad, BindBoards
  <2>2. pc'.at \in {"idle", "size", "layout", "set_engine", "preload", "configure", "fatal"}
    BY <1>3, LoadingGoes
  <2> QED BY <1>1, <2>1, <2>2
<1>4. CASE Apply
  <2>1. pc.at \in {"preload", "configure"} /\ count' = count
    BY <1>4 DEF Apply, At
  <2>2. pc'.at \in {pc.at, "fatal"}
    BY <1>4 DEF Apply, Go, Exit
  <2> QED BY <1>1, <2>1, <2>2
<1>5. CASE Configure \/ AllConfigured \/ LoadWorkload \/ HookUpChildren \/ Connect \/ Claim \/ Setup
           \/ SetupRemote \/ LoadAgain
  <2>1. count' = count
    BY <1>5 DEF Configure, AllConfigured, LoadWorkload, HookUpChildren, Connect, Claim, Setup, SetupRemote,
       LoadAgain
  <2>2. pc'.at \in {"configure", "load", "connect", "setup", "loaded", "fatal"}
    BY <1>5 DEF Configure, AllConfigured, LoadWorkload, HookUpChildren, Connect, Claim, Setup, SetupRemote,
       LoadAgain, Go, Exit
  <2> QED BY <1>1, <2>1, <2>2
<1>6. CASE Run
  <2>1. /\ count.runs < MaxRuns /\ count.ticks < MaxTicks
        /\ \/ count' = [ticks |-> count.ticks + 1, runs |-> count.runs + 1]
           \/ count' = count /\ pc'.at = "fatal"
    BY <1>6 DEF Run, Go, Exit
  <2>2. MaxTicks \in Nat /\ MaxRuns \in Nat
    BY EngineAssumption
  <2> QED BY <2>1, <2>2 DEF CountsOK
<1>7. CASE NextTick
  <2>1. count.ticks < MaxTicks /\ count' = [count EXCEPT !.ticks = @ + 1] /\ pc.at = "sleep"
    BY <1>7 DEF NextTick
  <2>2. MaxTicks \in Nat /\ MaxRuns \in Nat
    BY EngineAssumption
  <2> QED BY <2>1, <2>2 DEF CountsOK
<1>8. CASE Copy \/ CopiesDone \/ TickRoot \/ BeginStop \/ Stop \/ Stopped
  <2>1. count' = count /\ pc.at \in Running
    BY <1>8 DEF Copy, CopiesDone, TickRoot, BeginStop, Stop, Stopped, At, Past
  <2> QED BY <1>2, <2>1
<1>9. CASE BeginDestroy \/ Destroy \/ Destroyed
  <2>1. count' = count /\ pc'.at \in {"destroy", "gone"}
    BY <1>9 DEF BeginDestroy, Destroy, Destroyed, Go
  <2> QED BY <1>1, <2>1
<1>10. CASE UNCHANGED vars
  BY <1>10 DEF vars, CountsOK
<1> QED BY <1>3, <1>4, <1>5, <1>6, <1>7, <1>8, <1>9, <1>10 DEF Next

(* The connections.                                                         *)
LEMMA ConnsNext ==
  ASSUME LayoutInv, ConnsOK, ConnsCounted, [Next]_vars
  PROVE  ConnsCounted'
<1>1. ASSUME conns' = conns, model' = model, pc'.at \notin Unconnected \cup {"connect"}
      PROVE  ConnsCounted'
  BY <1>1 DEF ConnsCounted
<1>2. ASSUME conns' = conns, model' = model, pc.at \in Unconnected, pc'.at # "connect"
      PROVE  ConnsCounted'
  BY <1>2 DEF ConnsCounted
<1>3. CASE Build \/ Load \/ Size \/ Allocate \/ Construct \/ Constructed \/ SetEngine \/ PreLoad \/ BindBoards
  <2>1. conns' = conns /\ model' = model /\ pc.at \in Unconnected
    BY <1>3 DEF Build, Load, Size, Allocate, Construct, Constructed, SetEngine, PreLoad, BindBoards, At, Past,
       static, Unconnected
  <2>2. pc'.at # "connect"
    BY <1>3, LoadingGoes
  <2> QED BY <1>2, <2>1, <2>2
<1>4. CASE Apply
  <2>1. pc.at \in {"preload", "configure"} /\ conns' = conns /\ model' = model
    BY <1>4 DEF Apply, At, static
  <2>2. pc'.at \in {pc.at, "fatal"}
    BY <1>4 DEF Apply, Go, Exit
  <2> QED BY <1>2, <2>1, <2>2 DEF Unconnected
<1>5. CASE Configure \/ AllConfigured \/ LoadWorkload
  <2>1. conns' = conns /\ model' = model /\ pc.at \in Unconnected /\ pc'.at # "connect"
    BY <1>5 DEF Configure, AllConfigured, LoadWorkload, At, Past, static, Unconnected, Go
  <2> QED BY <1>2, <2>1
<1>6. CASE HookUpChildren
  <2>1. conns' = conns /\ model' = model /\ pc.at = "load"
    BY <1>6 DEF HookUpChildren, Past, static
  <2>2. pc' = [at |-> "connect", i |-> 1, entry |-> 1] \/ pc' = [at |-> "fatal", i |-> 0, entry |-> 1]
    BY <1>6, Zenon DEF HookUpChildren, Go, Exit
  <2>3. conns = <<>> /\ Len(conns) = 0
    BY <2>1 DEF ConnsCounted, Unconnected
  <2> QED BY <1>2, <2>1, <2>2, <2>3 DEF ConnsCounted, Unconnected
<1>7. CASE Connect
  <2>1. /\ pc.at = "connect" /\ pc.i <= Len(model.conns) /\ model' = model
        /\ \/ pc' = [at |-> "connect", i |-> pc.i + 1, entry |-> 1] /\ \E c : conns' = Append(conns, c)
           \/ pc' = [at |-> "fatal", i |-> 0, entry |-> 1] /\ conns' = conns
    BY <1>7, Zenon DEF Connect, Go, Exit, static
  <2>2. Len(model.conns) \in Nat /\ Len(conns) \in Nat /\ pc.i = Len(conns) + 1
    BY <2>1, ModelAssumption DEF ConnsCounted, ConnsOK, LayoutInv
  <2>3. CASE pc' = [at |-> "fatal", i |-> 0, entry |-> 1] /\ conns' = conns
    BY <1>1, <2>1, <2>3 DEF Unconnected
  <2>4. CASE pc' = [at |-> "connect", i |-> pc.i + 1, entry |-> 1] /\ \E c : conns' = Append(conns, c)
    <3>1. Len(conns') = Len(conns) + 1
      BY <2>4 DEF ConnsOK
    <3> QED BY <2>1, <2>2, <2>4, <3>1 DEF ConnsCounted, Unconnected
  <2> QED BY <2>1, <2>3, <2>4
<1>8. CASE Claim
  <2>1. /\ model' = model
        /\ \/ pc'.at = "setup" /\ \E f : conns' = [k \in DOMAIN conns |-> f[k]]
           \/ pc'.at = "fatal" /\ conns' = conns
    <3>1. /\ model' = model
          /\ \/ /\ pc'.at = "setup"
                /\ \E handler : conns' = [k \in DOMAIN conns |-> [conns[k] EXCEPT !.handler =
                     IF handler[k] = "DelegateToParent" THEN "Engine" ELSE handler[k]]]
             \/ pc'.at = "fatal" /\ conns' = conns
      BY <1>8 DEF Claim, Go, Exit, static
    <3>2. ASSUME NEW handler, conns' = [k \in DOMAIN conns |-> [conns[k] EXCEPT !.handler =
                     IF handler[k] = "DelegateToParent" THEN "Engine" ELSE handler[k]]]
          PROVE  \E f : conns' = [k \in DOMAIN conns |-> f[k]]
      <4> DEFINE f == [k \in DOMAIN conns |-> [conns[k] EXCEPT !.handler =
                     IF handler[k] = "DelegateToParent" THEN "Engine" ELSE handler[k]]]
      <4>1. conns' = f /\ f = [k \in DOMAIN conns |-> f[k]]
        BY <3>2
      <4> HIDE DEF f
      <4> QED BY <4>1
    <3> QED BY <3>1, <3>2
  <2>2. ASSUME \E f : conns' = [k \in DOMAIN conns |-> f[k]]
        PROVE  Len(conns') = Len(conns)
    <3>1. Len(conns) \in Nat /\ DOMAIN conns = 1 .. Len(conns)
      BY LenProperties DEF ConnsOK
    <3> QED BY <2>2, <3>1, LenProperties
  <2> QED BY <1>1, <2>1, <2>2 DEF ConnsCounted, Unconnected
<1>9. CASE Setup \/ SetupRemote \/ LoadAgain
  <2>1. conns' = conns /\ model' = model /\ pc'.at \notin Unconnected \cup {"connect"}
    BY <1>9 DEF Setup, SetupRemote, LoadAgain, static, Unconnected, Go, Exit
  <2> QED BY <1>1, <2>1
<1>10. CASE Run \/ Copy \/ CopiesDone \/ TickRoot \/ NextTick \/ BeginStop \/ Stop \/ Stopped
  <2>1. conns' = conns /\ model' = model /\ pc'.at \in {"fatal", "copy", "tick", "sleep", "stop", "loaded"}
    BY <1>10 DEF Run, Copy, CopiesDone, TickRoot, NextTick, BeginStop, Stop, Stopped, static, Go, Exit
  <2> QED BY <1>1, <2>1 DEF Unconnected
<1>11. CASE BeginDestroy \/ Destroy \/ Destroyed
  <2>1. conns' = conns /\ model' = model /\ pc'.at \in {"destroy", "gone"}
    BY <1>11 DEF BeginDestroy, Destroy, Destroyed, static, Go
  <2> QED BY <1>1, <2>1 DEF Unconnected
<1>12. CASE UNCHANGED vars
  BY <1>12 DEF vars, ConnsCounted
<1> QED BY <1>3, <1>4, <1>5, <1>6, <1>7, <1>8, <1>9, <1>10, <1>11, <1>12 DEF Next

(* The part of the buffer that is used.                                     *)
LEMMA UsedNext ==
  ASSUME LayoutInv, UsedOK, [Next]_vars
  PROVE  UsedOK'
<1>1. layout \in [ends : Seq(Nat), cursor : Nat, capacity : Nat, used : Nat]
  BY DEF LayoutInv
<1>2. CASE layout' = layout
  BY <1>2 DEF UsedOK
<1>3. CASE Size \/ Allocate \/ Construct
  <2>1. layout.used = 0
    BY <1>3 DEF Size, Allocate, Construct, At, Past, LayoutInv, PhaseOK, NoBuffer, LayingOut
  <2>2. layout'.used = layout.used
    BY <1>1, <1>3 DEF Size, Allocate, Construct
  <2> QED BY <2>1, <2>2 DEF UsedOK
<1>4. CASE BindBoards
  <2>1. \/ layout' = layout
        \/ layout' = [layout EXCEPT !.cursor = layout.cursor + BoardsSize, !.used = layout.cursor + BoardsSize]
    BY <1>4 DEF BindBoards
  <2> QED BY <1>1, <1>2, <2>1 DEF UsedOK
<1>5. layout' = layout \/ Size \/ Allocate \/ Construct \/ BindBoards
  BY DEF Next, vars, static, Build, Load, Constructed, SetEngine, Apply, PreLoad,
         Configure, AllConfigured, LoadWorkload, HookUpChildren, Connect, Claim, Setup,
         SetupRemote, LoadAgain, Run, Copy, CopiesDone, TickRoot, NextTick, BeginStop, Stop, Stopped,
         BeginDestroy, Destroy, Destroyed
<1> QED BY <1>2, <1>3, <1>4, <1>5

(* The offsets of fields in blackboards: unknown when a callback has        *)
(* initialised the board, ...                                               *)
LEMMA InitialisedUnbound ==
  ASSUME AllUnbound, NEW i, NEW at, NEW fn, boards' = Initialised(i, at, fn)
  PROVE  AllUnbound'
<1> DEFINE own == {b \in ToSet(Desc(i).boards) : b.by = fn}
<1> DEFINE from(a) == (CHOOSE b \in own : BoardAt(i, at, b) = a).fields
<1> DEFINE fields(a) == [k \in DOMAIN from(a) |->
                          [name |-> from(a)[k].name, type |-> from(a)[k].type, offset |-> Unbound]]
<1>1. boards' = [a \in DOMAIN boards \cup {BoardAt(i, at, b) : b \in own} |->
                   IF \A b \in own : BoardAt(i, at, b) # a THEN boards[a] ELSE [fields |-> fields(a)]]
  BY DEF Initialised
<1>2. ASSUME NEW a, NEW k \in DOMAIN fields(a)
      PROVE  fields(a)[k].offset = Unbound
  BY <1>2
<1> HIDE DEF own, fields
<1> SUFFICES ASSUME NEW a \in DOMAIN boards', NEW k \in DOMAIN boards'[a].fields
             PROVE  boards'[a].fields[k].offset = Unbound
  BY DEF AllUnbound
<1>3. CASE \A b \in own : BoardAt(i, at, b) # a
  <2>1. boards'[a] = boards[a] /\ a \in DOMAIN boards
    BY <1>1, <1>3
  <2> QED BY <2>1 DEF AllUnbound
<1>4. CASE \E b \in own : BoardAt(i, at, b) = a
  <2>1. boards'[a].fields = fields(a)
    BY <1>1, <1>4
  <2> QED BY <1>2, <2>1
<1> QED BY <1>3, <1>4

(* ... and known once the board is bound.                                   *)
LEMMA BindOffsets ==
  ASSUME LayoutInv, BoardsDescribed, AllUnbound, BindBoards, pc'.at # "fatal"
  PROVE  OffsetsKnown'
<1>1. /\ pc.at = "set_engine" /\ KnownTypes /\ LayingOut /\ Len(inst) = N /\ CanBind
      /\ boards' = (IF BoardsSize > 0 THEN Bound ELSE boards)
      /\ model' = model /\ inst' = inst /\ pc' = [at |-> "configure", i |-> 1, entry |-> 1]
  <2>1. \/ pc' = [at |-> "configure", i |-> 1, entry |-> 1] /\ CanBind
           /\ boards' = (IF BoardsSize > 0 THEN Bound ELSE boards)
        \/ pc' = [at |-> "fatal", i |-> 0, entry |-> 1]
    BY Zenon DEF BindBoards, Go, Exit
  <2> QED BY <2>1 DEF BindBoards, Past, LayoutInv, PhaseOK, Known
<1>2. BoardsBound'
  BY <1>1 DEF BoardsBound, AfterBinding
<1>3. AllBoards \in Seq(Nat) /\ BoardsSized /\ layout.cursor \in Nat
  BY <1>1, CanBindOK DEF LayoutInv
<1>4. CASE boards' = boards
  BY <1>4 DEF OffsetsKnown, AllUnbound
<1>5. CASE boards' = Bound
  <2>1. BoundBoards' = BoundBoards
    BY <1>1, <1>5, BindingKept, BoundOK DEF BoundBoards
  <2> SUFFICES ASSUME NEW a \in DOMAIN boards', NEW k \in DOMAIN boards'[a].fields
               PROVE  \/ boards'[a].fields[k].offset = Unbound
                      \/ BoardsBound' /\ a \in BoundBoards' /\ boards'[a].fields[k].offset \in Int
    BY DEF OffsetsKnown
  <2>2. a \in DOMAIN boards /\ k \in DOMAIN boards[a].fields
    BY <1>5, BoundOK
  <2>3. CASE a \notin BoundBoards
    <3>1. boards'[a] = boards[a]
      BY <1>5, <2>2, <2>3 DEF Bound
    <3> QED BY <2>2, <3>1 DEF AllUnbound
  <2>4. CASE a \in BoundBoards
    <3>1. boards'[a].fields[k].offset = FieldAt(a, k) - a
      BY <1>5, <2>2, <2>4, BoundOK
    <3>2. a \in ToSet(AllBoards)
      BY <2>4 DEF BoundBoards
    <3>3. k \in FieldsOfBoard(a)
      BY <2>2, BoardTypesOK DEF FieldsOfBoard
    <3>4. PICK j \in 1 .. Len(AllBoards) : AllBoards[j] = a /\ StorageOf(a) = StorageEnds[j - 1]
      BY <1>3, <3>2, Indices
    <3>5. a \in Nat
      BY <1>3, <3>4, ElementOfSeq
    <3>6. FieldAt(AllBoards[j], k) \in Nat
      BY <1>3, <3>3, <3>4, FieldInStorage
    <3>7. FieldAt(a, k) - a \in Int
      BY <3>4, <3>5, <3>6
    <3> QED BY <1>2, <2>1, <2>4, <3>1, <3>7
  <2> QED BY <2>3, <2>4
<1> QED BY <1>1, <1>4, <1>5

(* Other steps leave the offsets alone.                                     *)
LEMMA OffsetsKept ==
  ASSUME OffsetsOK, UNCHANGED <<model, inst, boards>>,
         \/ pc'.at \in Ends
         \/ pc.at \in AfterBinding /\ pc'.at \in AfterBinding
         \/ pc.at \notin AfterBinding \cup Ends /\ pc'.at \notin AfterBinding
  PROVE  OffsetsOK'
<1>1. BoundBoards' = BoundBoards /\ N' = N
  BY BindingKept DEF BoundBoards
<1>2. CASE pc'.at \in Ends
  <2>1. pc'.at \notin AfterBinding
    BY <1>2 DEF Ends, AfterBinding, AfterLoad, Running
  <2> QED BY <1>2, <2>1 DEF OffsetsOK, BoardsBound
<1>3. CASE pc.at \in AfterBinding /\ pc'.at \in AfterBinding
  BY <1>1, <1>3 DEF OffsetsOK, OffsetsKnown, BoardsBound
<1>4. CASE pc.at \notin AfterBinding \cup Ends /\ pc'.at \notin AfterBinding
  BY <1>4 DEF OffsetsOK, BoardsBound, AllUnbound
<1> QED BY <1>2, <1>3, <1>4

(* The offsets of fields in blackboards.                                    *)
LEMMA OffsetsNext ==
  ASSUME LayoutInv, BoardsInv, RoundsOK, OffsetsOK, [Next]_vars
  PROVE  OffsetsOK'
<1> USE DEF static
<1>1. ASSUME boards' = boards \/ \E i, at, fn : boards' = Initialised(i, at, fn),
             pc.at \in {"layout", "preload"}, pc'.at \in {"layout", "set_engine", "fatal"}
      PROVE  OffsetsOK'
  <2>1. AllUnbound
    BY <1>1 DEF OffsetsOK, AfterBinding, AfterLoad, Running, Ends
  <2>2. AllUnbound'
    BY <1>1, <2>1, InitialisedUnbound DEF AllUnbound
  <2>3. pc'.at \notin AfterBinding
    BY <1>1 DEF AfterBinding, AfterLoad, Running
  <2> QED BY <2>2, <2>3 DEF OffsetsOK, BoardsBound
<1>2. CASE Construct
  <2>1. pc.at = "layout" /\ (boards' = boards \/ \E i, at, fn : boards' = Initialised(i, at, fn))
    BY <1>2, Zenon DEF Construct, At
  <2>2. \/ \E i : pc' = [at |-> "layout", i |-> i, entry |-> 1]
        \/ \E i : pc' = [at |-> "fatal", i |-> i, entry |-> 1]
    BY <1>2, Zenon DEF Construct, Go, Exit
  <2> QED BY <1>1, <2>1, <2>2
<1>3. CASE PreLoad
  <2>1. pc.at = "preload" /\ (boards' = boards \/ \E i, at, fn : boards' = Initialised(i, at, fn))
    BY <1>3, Zenon DEF PreLoad, At
  <2>2. \/ \E i : pc' = [at |-> "set_engine", i |-> i, entry |-> 1]
        \/ \E i : pc' = [at |-> "fatal", i |-> i, entry |-> 1]
    BY <1>3, Zenon DEF PreLoad, Go, Exit
  <2> QED BY <1>1, <2>1, <2>2
<1>4. CASE BindBoards
  <2>1. \/ pc' = [at |-> "configure", i |-> 1, entry |-> 1]
        \/ pc' = [at |-> "fatal", i |-> 0, entry |-> 1]
    BY <1>4, Zenon DEF BindBoards, Go, Exit
  <2>2. CASE pc'.at = "fatal"
    BY <2>2 DEF OffsetsOK, BoardsBound, AfterBinding, AfterLoad, Running, Ends
  <2>3. CASE pc'.at = "configure"
    <3>1. AllUnbound /\ Len(inst) = N /\ model' = model /\ inst' = inst
      BY <1>4 DEF BindBoards, Past, OffsetsOK, LayoutInv, PhaseOK, AfterBinding, AfterLoad, Running, Ends
    <3>2. OffsetsKnown'
      BY <1>4, <2>3, <3>1, BindOffsets DEF BoardsInv
    <3>3. Len(inst)' = N'
      BY <3>1 DEF N
    <3> QED BY <2>3, <3>2, <3>3 DEF OffsetsOK, AfterBinding
  <2> QED BY <2>1, <2>2, <2>3
<1> USE DEF AfterBinding, AfterLoad, Running, Ends
<1>5. CASE Build \/ Load \/ Size \/ Allocate \/ Constructed \/ SetEngine
  <2>1. /\ UNCHANGED <<model, inst, boards>>
        /\ pc.at \in {"build", "idle", "size", "layout", "set_engine"}
    BY <1>5 DEF Build, Load, Size, Allocate, Constructed, SetEngine, At, Past
  <2>2. \/ \E i : pc' = [at |-> "idle", i |-> i, entry |-> 1]
        \/ \E i : pc' = [at |-> "size", i |-> i, entry |-> 1]
        \/ \E i : pc' = [at |-> "layout", i |-> i, entry |-> 1]
        \/ \E i : pc' = [at |-> "set_engine", i |-> i, entry |-> 1]
        \/ \E i : pc' = [at |-> "preload", i |-> i, entry |-> 1]
        \/ \E i : pc' = [at |-> "fatal", i |-> i, entry |-> 1]
    BY <1>5, Zenon DEF Build, Load, Size, Allocate, Constructed, SetEngine, Go, Exit
  <2> QED BY <2>1, <2>2, OffsetsKept
<1>6. CASE Apply
  <2>1. UNCHANGED <<model, inst, boards>> /\ pc.at \in {"preload", "configure"}
    BY <1>6 DEF Apply, At
  <2>2. pc'.at \in {pc.at, "fatal"}
    BY <1>6 DEF Apply, Go, Exit
  <2> QED BY <2>1, <2>2, OffsetsKept
<1>7. CASE Configure \/ AllConfigured \/ LoadWorkload \/ HookUpChildren \/ Connect \/ Claim
  <2>1. pc.at \in {"configure", "load", "connect"} /\ UNCHANGED <<model, inst, boards>>
    BY <1>7 DEF Configure, AllConfigured, LoadWorkload, HookUpChildren, Connect, Claim, At, Past
  <2>2. pc'.at \in {"configure", "load", "connect", "setup", "fatal"}
    BY <1>7 DEF Configure, AllConfigured, LoadWorkload, HookUpChildren, Connect, Claim, Go, Exit
  <2> QED BY <2>1, <2>2, OffsetsKept
<1>8. CASE Setup \/ SetupRemote \/ LoadAgain \/ Run \/ Copy \/ CopiesDone
  <2>1. pc.at \in {"setup", "loaded", "copy"} /\ UNCHANGED <<model, inst, boards>>
    BY <1>8 DEF Setup, SetupRemote, LoadAgain, Run, Copy, CopiesDone, At, Past
  <2>2. pc'.at \in {"setup", "loaded", "copy", "tick", "fatal"}
    BY <1>8 DEF Setup, SetupRemote, LoadAgain, Run, Copy, CopiesDone, Go, Exit
  <2> QED BY <2>1, <2>2, OffsetsKept
<1>9. CASE TickRoot \/ NextTick \/ BeginStop \/ Stop \/ Stopped
  <2>1. pc.at \in {"tick", "sleep", "stop"} /\ UNCHANGED <<model, inst, boards>>
    BY <1>9 DEF TickRoot, NextTick, BeginStop, Stop, Stopped, At, Past
  <2>2. pc'.at \in {"sleep", "copy", "stop", "loaded"}
    BY <1>9 DEF TickRoot, NextTick, BeginStop, Stop, Stopped, Go
  <2> QED BY <2>1, <2>2, OffsetsKept
<1>10. CASE BeginDestroy \/ Destroy \/ Destroyed
  <2>1. pc'.at \in {"destroy", "gone"} /\ UNCHANGED <<model, inst, boards>>
    BY <1>10 DEF BeginDestroy, Destroy, Destroyed, Go
  <2> QED BY <2>1, OffsetsKept
<1>11. CASE UNCHANGED vars
  <2>1. UNCHANGED <<model, inst, boards, pc>>
    BY <1>11 DEF vars
  <2>2. CASE pc.at \in Ends
    BY <2>1, <2>2, OffsetsKept
  <2>3. CASE pc.at \in AfterBinding
    BY <2>1, <2>3, OffsetsKept
  <2>4. CASE pc.at \notin AfterBinding \cup Ends
    BY <2>1, <2>4, OffsetsKept
  <2> QED BY <2>2, <2>3, <2>4
<1> QED
  BY <1>2, <1>3, <1>4, <1>5, <1>6, <1>7, <1>8, <1>9, <1>10, <1>11 DEF Next

(* Once workloads are configured, what they are made of is in place.        *)
LEMMA ReadyWhen ==
  ASSUME LayoutInv, BoardsInv, OffsetsOK, pc.at = "preload" \/ pc.at \in AfterBinding
  PROVE  Ready
<1>1. KnownTypes
  BY DEF LayoutInv, Known, AfterBinding, AfterLoad, Running
<1>2. CASE pc.at = "preload"
  <2>1. Len(inst) = N /\ AllUnbound
    BY <1>2 DEF LayoutInv, PhaseOK, OffsetsOK, AfterBinding, AfterLoad, Running, Ends
  <2> QED BY <1>1, <2>1 DEF Ready, OffsetsKnown, AllUnbound
<1>3. CASE pc.at \in AfterBinding
  BY <1>1, <1>3 DEF Ready, OffsetsOK, BoardsBound
<1> QED BY <1>2, <1>3

(* The workload that a round of Apply configures.                           *)
LEMMA RoundOf ==
  ASSUME LayoutInv, BoardsInv, OffsetsOK, RoundsOK, Apply
  PROVE  pc.at \in {"preload", "configure"} /\ pc.i \in 1 .. N /\ Ready
<1>1. pc.at \in {"preload", "configure"} /\ pc.i <= N
  BY DEF Apply, At
<1>2. pc.i \in Nat \ {0} /\ N \in Nat
  BY <1>1, NumberOfSeeds DEF RoundsOK, Loops
<1>3. Ready
  BY <1>1, ReadyWhen DEF AfterBinding
<1> QED BY <1>1, <1>2, <1>3

(* The bytes of the buffer are bytes.                                       *)
LEMMA BytesNext ==
  ASSUME LayoutInv, BoardsInv, RoundsOK, CopyInv, PlaceOK, OffsetsOK, BytesOK, [Next]_vars
  PROVE  BytesOK'
<1> USE DEF static
<1>1. DOMAIN memory = 0 .. layout.capacity - 1 /\ DOMAIN memory \subseteq Int /\ layout.capacity \in Nat
  BY DEF CopyInv, LayoutInv
<1>2. CASE memory' = memory
  BY <1>2 DEF BytesOK
<1>3. ASSUME NEW at \in Int, NEW size, NEW raw \in Int, memory' = Stored(memory, at, size, raw)
      PROVE  BytesOK'
  <2>1. \A a \in DOMAIN memory : memory[a] \in Byte
    BY DEF BytesOK
  <2> DEFINE new == Stored(memory, at, size, raw)
  <2>2. DOMAIN new = DOMAIN memory /\ \A a \in DOMAIN memory : new[a] \in Byte
    <3> HIDE DEF new
    <3>1. DOMAIN new = DOMAIN memory
      BY <1>1, <2>1, StoredBytes DEF new
    <3>2. \A a \in DOMAIN memory : new[a] \in Byte
      BY <1>1, <2>1, StoredBytes, Zenon DEF new
    <3> QED BY <3>1, <3>2
  <2> HIDE DEF new
  <2>3. memory' = new
    BY <1>3 DEF new
  <2> QED BY <2>2, <2>3 DEF BytesOK
<1>4. CASE Allocate
  <2>1. 0 \in Byte
    BY RegistryAssumption, TwoToOK DEF Byte
  <2>2. memory' = memory \/ memory' = [a \in 0 .. layout'.capacity - 1 |-> 0]
    BY <1>4, Zenon DEF Allocate
  <2> QED BY <1>2, <2>1, <2>2 DEF BytesOK
<1>5. CASE Apply
  <2>1. pc.i \in 1 .. N /\ Ready
    BY <1>5, RoundOf
  <2>2. \/ memory' = memory
        \/ \E section \in Configurable(pc.i) : \E k \in DOMAIN Entries(pc.i, section) :
             \E raw : Applies(section, k, raw)
    BY <1>5, <2>1, RoundWrites DEF Skips
  <2>3. ASSUME NEW section \in Configurable(pc.i), NEW k \in DOMAIN Entries(pc.i, section),
               NEW raw, Applies(section, k, raw)
        PROVE  BytesOK'
    <3>1. Target(pc.i, section, k).at \in Nat /\ raw \in Int
      BY <2>1, <2>3, AppliedOK
    <3>2. memory' = Stored(memory, Target(pc.i, section, k).at, SizeOf(Target(pc.i, section, k).type), raw)
      BY <2>3 DEF Applies
    <3> QED BY <1>3, <3>1, <3>2
  <2> QED BY <1>2, <2>2, <2>3
<1>6. CASE Copy
  <2>1. \/ memory' = memory
        \/ \E k \in Left : memory' = Copied(memory, conns[k])
    BY <1>6 DEF Copy
  <2>2. ASSUME NEW k \in Left, memory' = Copied(memory, conns[k])
        PROVE  BytesOK'
    <3>1. /\ conns[k].src \in Nat /\ conns[k].dst \in Nat /\ conns[k].size \in Nat
          /\ conns[k].src + conns[k].size <= layout.capacity
      BY ConnsNumbers DEF Left, Acquired, CopyInv
    <3> DEFINE src == conns[k].src
    <3> DEFINE dst == conns[k].dst
    <3> DEFINE size == conns[k].size
    <3>2. memory' = [a \in DOMAIN memory |->
                      IF a \in dst .. dst + size - 1 THEN memory[src + (a - dst)] ELSE memory[a]]
      BY <2>2 DEF Copied
    <3>3. src \in Nat /\ dst \in Nat /\ size \in Nat /\ src + size <= layout.capacity
      BY <3>1
    <3> HIDE DEF src, dst, size
    <3>4. ASSUME NEW a \in DOMAIN memory, a \in dst .. dst + size - 1
          PROVE  src + (a - dst) \in DOMAIN memory
      BY <1>1, <3>3, <3>4
    <3> QED BY <3>2, <3>4 DEF BytesOK
  <2> QED BY <1>2, <2>1, <2>2
<1>7. CASE TickRoot
  <2>1. \/ memory' = memory
        \/ \E i \in 1 .. N : \E f \in OutputFields(i) : \E raw \in Outputs :
             memory' = Stored(memory, f.at, SizeOf(f.type), raw)
    BY <1>7 DEF TickRoot
  <2>2. Ready
    BY <1>7, ReadyWhen DEF TickRoot, AfterBinding, AfterLoad, Running
  <2>3. ASSUME NEW i \in 1 .. N, NEW f \in OutputFields(i), NEW raw \in Outputs,
               memory' = Stored(memory, f.at, SizeOf(f.type), raw)
        PROVE  BytesOK'
    <3>1. "outputs" \in DOMAIN Desc(i).sections
      BY DEF OutputFields
    <3> DEFINE type == SectionOf(i, "outputs").type
    <3>2. PICK g \in ToSet(Types[type].fields) : f = [at |-> SectionAt(i, "outputs") + g.offset, type |-> g.type]
      BY <3>1 DEF OutputFields, SectionAt, SectionOf
    <3>3. type \in DOMAIN Types /\ SectionAt(i, "outputs") \in Nat
      BY <2>2, <3>1, SectionPlaced DEF Ready
    <3> HIDE DEF type
    <3>4. g.offset \in Nat
      BY <3>2, <3>3, RegistryAssumption DEF ToSet
    <3>5. f.at \in Int /\ raw \in Int
      BY <3>2, <3>3, <3>4, ModelAssumption
    <3> QED BY <1>3, <2>3, <3>5
  <2> QED BY <1>2, <2>1, <2>2, <2>3
<1>8. memory' = memory \/ Allocate \/ Apply \/ Copy \/ TickRoot
  BY DEF Next, vars, Build, Load, Size, Construct, Constructed, SetEngine, PreLoad, BindBoards,
         Configure, AllConfigured, LoadWorkload, HookUpChildren, Connect, Claim, Setup,
         SetupRemote, LoadAgain, Run, CopiesDone, NextTick, BeginStop, Stop, Stopped,
         BeginDestroy, Destroy, Destroyed
<1> QED BY <1>2, <1>4, <1>5, <1>6, <1>7, <1>8

(* Every step keeps all parts.                                              *)
LEMMA TypeNext ==
  LayoutInv /\ BoardsInv /\ CallsInv /\ CopyInv /\ TypeInv /\ [Next]_vars => TypeInv'
<1> SUFFICES ASSUME LayoutInv, BoardsInv, CallsInv, CopyInv, TypeInv, [Next]_vars PROVE TypeInv'
  OBVIOUS
<1>1. RoundsOK /\ ConnsOK
  BY DEF CallsInv, CopyInv
<1>2. PlaceOK /\ CountsOK /\ ConnsCounted /\ OffsetsOK /\ BytesOK /\ UsedOK
  BY DEF TypeInv
<1>3. PlaceOK'
  BY <1>1, <1>2, PlaceNext
<1>4. CountsOK'
  BY <1>2, CountsNext
<1>5. ConnsCounted'
  BY <1>1, <1>2, ConnsNext
<1>6. OffsetsOK'
  BY <1>1, <1>2, OffsetsNext
<1>7. BytesOK'
  BY <1>1, <1>2, BytesNext
<1>8. UsedOK'
  BY <1>2, UsedNext
<1> QED BY <1>3, <1>4, <1>5, <1>6, <1>7, <1>8 DEF TypeInv

(* With the other invariants of EngineProofs they give the types of all     *)
(* variables.                                                               *)
LEMMA TypeInvImplies ==
  LayoutInv /\ CallsInv /\ CopyInv /\ StatsInv /\ TypeInv => TypeOK
<1> SUFFICES ASSUME LayoutInv, CallsInv, CopyInv, StatsInv, TypeInv PROVE TypeOK
  OBVIOUS
<1>1. model \in Models /\ DOMAIN memory = 0 .. layout.capacity - 1
  BY DEF LayoutInv, CopyInv
<1>2. pc.at \in {"build", "idle", "size", "layout", "set_engine", "preload", "destroy", "gone",
                 "fatal"} \cup AfterBinding
  BY DEF CallsInv, RoundsOK, Highest, AfterBinding, AfterLoad, Running
<1>3. pc.i \in Nat /\ pc.entry \in Nat /\ layout.used \in {0, layout.cursor}
  BY DEF TypeInv, PlaceOK, UsedOK
<1>4. layout.cursor \in 0 .. SizeMax
  <2>1. layout.cursor \in Nat /\ layout.capacity \in Nat
    BY DEF LayoutInv
  <2>2. layout.cursor <= layout.capacity /\ layout.capacity <= SizeMax
    BY InvImpliesLayoutOK DEF LayoutOK
  <2> QED BY <2>1, <2>2, LayoutAssumption
<1>5. Len(inst) <= N
  <2>1. N \in Nat /\ Len(inst) \in Nat /\ Len(layout.ends) \in Nat
    BY NumberOfSeeds DEF LayoutInv, InstOK, EndsOK
  <2> QED BY <2>1 DEF LayoutInv, InstOK, EndsOK
<1>6. Len(stats.window) <= Window /\ stats.index \in 0 .. Window - 1
  <2>1. Len(stats.history) \in Nat /\ Window \in Nat
    BY EngineAssumption DEF StatsInv
  <2>2. CASE Len(stats.history) < Window
    BY <2>1, <2>2 DEF StatsInv
  <2>3. CASE Len(stats.history) >= Window
    BY <2>1, <2>3 DEF StatsInv
  <2> QED BY <2>1, <2>2, <2>3
<1>7. count.ticks \in 0 .. MaxTicks /\ count.runs \in 0 .. MaxRuns /\ Len(conns) <= Len(model.conns)
  BY DEF TypeInv, CountsOK, ConnsCounted
<1> QED BY <1>1, <1>2, <1>3, <1>4, <1>5, <1>6, <1>7 DEF TypeOK, TypeInv, BytesOK

(* Every variable of an engine keeps to its type: the model, the place its  *)
(* loops have reached, the bytes of the buffer, the instances in it, no     *)
(* more connections than the model has, the size used, the counters and the *)
(* window of tick durations (Engine.cpp:108-545).                           *)
THEOREM TypeTheorem == Spec => []TypeOK
<1>1. Init => LayoutInv /\ BoardsInv /\ CallsInv /\ CopyInv /\ StatsInv /\ TypeInv
  BY LayoutInit, BoardsInit, InitCalls, CopyInit, StatsInit, TypeInit
<1>2. LayoutInv /\ BoardsInv /\ CallsInv /\ CopyInv /\ StatsInv /\ TypeInv /\ [Next]_vars
      => LayoutInv' /\ BoardsInv' /\ CallsInv' /\ CopyInv' /\ StatsInv' /\ TypeInv'
  BY LayoutNext, BoardsNext, CallsNext, CopyNext, StatsNext, TypeNext
<1>3. LayoutInv /\ CallsInv /\ CopyInv /\ StatsInv /\ TypeInv => TypeOK
  BY TypeInvImplies
<1> QED BY <1>1, <1>2, <1>3, PTL DEF Spec

-----------------------------------------------------------------------------
(* What is configured.                                                      *)

(* Whether the second pass has applied an entry.                            *)
Done(i, section, k) ==
  \/ IsConfigured
  \/ /\ pc.at = "configure"
     /\ i < pc.i \/ (i = pc.i /\ Position(i, section, k) < pc.entry)

(* Two places that share no byte.                                           *)
Apart(p, q) == ~Overlap(p.at, SizeOf(p.type), q.at, SizeOf(q.type))

(* No later entry of the section has written to what entry k has.           *)
Kept(i, section, k) ==
  \A j \in DOMAIN Entries(i, section) :
    k < j /\ Done(i, section, j) => Apart(Target(i, section, k), Target(i, section, j))

(* What a field reads from memory.                                          *)
ReadAt(r) == Loaded(memory, r.at, SizeOf(r.type))

(* An entry that no later one has overwritten is in memory as it was read.  *)
Holds(i, section, k) ==
  LET target == Target(i, section, k) IN
  /\ target.found = "yes"
  /\ Kept(i, section, k) /\ InUsedSpace(target, layout.used) =>
       ReadAt(target) \in Parsed(Types[target.type].value, Entries(i, section)[k].text)

(* So it is with every entry applied so far.                                *)
ConfigInv ==
  \A i \in 1 .. N : \A section \in Configurable(i) : \A k \in DOMAIN Entries(i, section) :
    Done(i, section, k) => Holds(i, section, k)

(* Rounds follow the order of the entries.                                  *)
LEMMA PositionOrder ==
  ASSUME LayoutInv, NEW i \in 1 .. N,
         NEW section \in Configurable(i), NEW k \in DOMAIN Entries(i, section),
         NEW other \in Configurable(i), NEW j \in DOMAIN Entries(i, other)
  PROVE  /\ k \in Nat \ {0} /\ j \in Nat \ {0}
         /\ Position(i, section, k) \in Nat \ {0}
         /\ Position(i, section, k) = Position(i, other, j) => section = other /\ k = j
         /\ section = other /\ Position(i, section, k) < Position(i, other, j) => k < j
<1> DEFINE a == Texts(i, "config")
<1>1. section \in {"config", "inputs"} /\ other \in {"config", "inputs"}
  BY DEF Configurable
<1>2. Len(a) \in Nat /\ DOMAIN a = 1 .. Len(a)
  BY TextsOK
<1>3. section = "config" => k <= Len(a)
  BY <1>2, TextsOK DEF Configurable
<1>4. other = "config" => j <= Len(a)
  BY <1>2, TextsOK DEF Configurable
<1>5. k \in Nat \ {0} /\ j \in Nat \ {0}
  BY <1>1, TextsOK DEF EntriesOK
<1>6. /\ Position(i, section, k) = IF section = "config" THEN k ELSE Len(a) + k
      /\ Position(i, other, j) = IF other = "config" THEN j ELSE Len(a) + j
  BY DEF Position
<1> HIDE DEF a
<1> QED BY <1>1, <1>2, <1>3, <1>4, <1>5, <1>6

(* Where entries lead depends on the model, the instances and the           *)
(* blackboards.                                                             *)
LEMMA SameTargets ==
  ASSUME UNCHANGED <<model, inst, boards>>
  PROVE  /\ N' = N
         /\ \A i : Configurable(i)' = Configurable(i)
         /\ \A i, section : Entries(i, section)' = Entries(i, section)
         /\ \A i, section, k : Target(i, section, k)' = Target(i, section, k)
         /\ \A i, section, k : Position(i, section, k)' = Position(i, section, k)
<1>1. N' = N
  BY DEF N
<1>2. \A i : Desc(i)' = Desc(i) /\ Seed(i)' = Seed(i)
  BY DEF Desc, Seed
<1>3. \A i, section : Entries(i, section)' = Entries(i, section)
  BY <1>2 DEF Entries
<1>4. \A i : Configurable(i)' = Configurable(i)
  BY <1>2 DEF Configurable
<1>5. \A i, section : SectionOf(i, section)' = SectionOf(i, section) /\ SectionAt(i, section)' = SectionAt(i, section)
  BY <1>2 DEF SectionOf, SectionAt
<1>6. \A i, section, k : Target(i, section, k)' = Target(i, section, k)
  BY <1>3, <1>5 DEF Target
<1>7. \A i, section : Texts(i, section)' = Texts(i, section)
  BY <1>2, <1>3 DEF Texts
<1>8. \A i, section, k : Position(i, section, k)' = Position(i, section, k)
  BY <1>7 DEF Position
<1> QED BY <1>1, <1>3, <1>4, <1>6, <1>8

(* Steps that leave alone what is configured, ...                           *)
LEMMA ConfigKept ==
  ASSUME ConfigInv, UNCHANGED <<model, inst, boards, memory>>, layout'.used = layout.used,
         \A i \in 1 .. N : \A section \in Configurable(i) : \A k \in DOMAIN Entries(i, section) :
           Done(i, section, k)' = Done(i, section, k)
  PROVE  ConfigInv'
<1> SUFFICES ASSUME NEW i \in 1 .. N', NEW section \in Configurable(i)', NEW k \in (DOMAIN Entries(i, section))',
                    Done(i, section, k)'
             PROVE  Holds(i, section, k)'
  BY DEF ConfigInv
<1>1. i \in 1 .. N /\ section \in Configurable(i) /\ k \in DOMAIN Entries(i, section)
  BY SameTargets
<1>2. Done(i, section, k) /\ Holds(i, section, k)
  BY <1>1 DEF ConfigInv
<1>3. Kept(i, section, k)' => Kept(i, section, k)
  <2> SUFFICES ASSUME Kept(i, section, k)', NEW j \in DOMAIN Entries(i, section), k < j, Done(i, section, j)
               PROVE  Apart(Target(i, section, k), Target(i, section, j))
    BY DEF Kept
  <2>1. Done(i, section, j)' /\ j \in (DOMAIN Entries(i, section))'
    BY <1>1, SameTargets
  <2>2. Apart(Target(i, section, k), Target(i, section, j))'
    BY <2>1 DEF Kept
  <2> QED BY <2>2, SameTargets DEF Apart
<1>4. Target(i, section, k)' = Target(i, section, k) /\ Entries(i, section)' = Entries(i, section)
  BY SameTargets
<1>5. ReadAt(Target(i, section, k))' = ReadAt(Target(i, section, k))
  BY <1>4 DEF ReadAt
<1> QED BY <1>2, <1>3, <1>4, <1>5 DEF Holds

(* ... or start anew.                                                       *)
LEMMA ConfigNone ==
  ASSUME \A i \in 1 .. N' : \A section \in Configurable(i)' : \A k \in (DOMAIN Entries(i, section))' :
           ~Done(i, section, k)'
  PROVE  ConfigInv'
BY DEF ConfigInv

(* A round of the second pass that applies entry k.                         *)
Applying(section, k, raw) ==
  /\ pc.at = "configure" /\ pc.i \in 1 .. N
  /\ section \in Configurable(pc.i) /\ k \in DOMAIN Entries(pc.i, section)
  /\ Position(pc.i, section, k) = pc.entry
  /\ Applies(section, k, raw)
  /\ pc' = [at |-> "configure", i |-> pc.i, entry |-> pc.entry + 1]
  /\ UNCHANGED <<model, layout, inst, boards>>

(* A field in the used part of the buffer is made of bytes.                 *)
LEMMA InBuffer ==
  ASSUME LayoutInv, CopyInv, BytesOK, NEW r, InUsedSpace(r, layout.used), SizeOf(r.type) \in Nat, r.at \in Nat
  PROVE  Bytes(r.at, SizeOf(r.type)) \subseteq DOMAIN memory /\ Holding(memory, r.at, SizeOf(r.type))
<1>1. layout.used \in Nat /\ layout.capacity \in Nat /\ layout.used <= layout.capacity
  BY InvImpliesLayoutOK DEF LayoutOK, LayoutInv
<1>2. DOMAIN memory = 0 .. layout.capacity - 1
  BY DEF CopyInv
<1> DEFINE at == r.at
<1> DEFINE size == SizeOf(r.type)
<1>3. at \in Nat /\ size \in Nat /\ at <= layout.used - size
  BY <1>1 DEF InUsedSpace
<1> HIDE DEF at, size
<1>4. Bytes(at, size) \subseteq DOMAIN memory
  BY <1>1, <1>2, <1>3 DEF Bytes
<1>5. Byte \subseteq Nat
  BY DEF Byte
<1>6. Holding(memory, at, size)
  BY <1>4, <1>5 DEF Holding, Bytes, BytesOK
<1> QED BY <1>4, <1>6 DEF at, size

(* The new entry is in memory ...                                           *)
LEMMA NewEntry ==
  ASSUME LayoutInv, CopyInv, BytesOK, Ready, NEW section, NEW k, NEW raw, Applying(section, k, raw),
         InUsedSpace(Target(pc.i, section, k), layout.used)
  PROVE  ReadAt(Target(pc.i, section, k))' = raw
<1> DEFINE r == Target(pc.i, section, k)
<1> DEFINE at == r.at
<1> DEFINE size == SizeOf(r.type)
<1> DEFINE t == Types[r.type].value
<1>1. r' = r
  BY SameTargets DEF Applying
<1>2. at \in Nat /\ size \in Nat /\ t.bits = ByteBits * size /\ raw \in Raws(t)
  BY AppliedOK DEF Applying
<1>9. at \in Nat /\ size \in Nat
  BY <1>2
<1>3. Bytes(at, size) \subseteq DOMAIN memory
  BY <1>9, InBuffer
<1>4. memory' = Stored(memory, at, size, raw)
  BY DEF Applying, Applies
<1>5. ReadAt(r)' = Loaded(memory', at, size)
  BY <1>1 DEF ReadAt
<1>6. raw \in 0 .. TwoTo(ByteBits * size) - 1
  BY <1>2, Zenon DEF Raws
<1> HIDE DEF r, at, size, t
<1>7. Loaded(Stored(memory, at, size, raw), at, size) = raw
  <2>1. at .. at + size - 1 \subseteq DOMAIN memory
    BY <1>3, Zenon DEF Bytes
  <2>2. at \in Int
    BY <1>9
  <2> QED BY <1>9, <1>6, <2>1, <2>2, StoredLoaded, Zenon
<1>8. ReadAt(r)' = raw
  BY <1>4, <1>5, <1>7, Zenon
<1> QED BY <1>8 DEF r

(* ... and shares no byte with an earlier one that counts.                  *)
LEMMA OldEntry ==
  ASSUME LayoutInv, CopyInv, BytesOK, Ready, NEW new, NEW n, NEW raw, Applying(new, n, raw),
         NEW i \in 1 .. N, NEW section \in Configurable(i), NEW k \in DOMAIN Entries(i, section),
         Target(i, section, k).found = "yes", InUsedSpace(Target(i, section, k), layout.used),
         i # pc.i \/ section # new \/ Apart(Target(i, section, k), Target(i, new, n))
  PROVE  ReadAt(Target(i, section, k))' = ReadAt(Target(i, section, k))
<1> DEFINE p == Target(i, section, k)
<1> DEFINE q == Target(pc.i, new, n)
<1>1. p \in Locations(i, section) /\ p.found = "yes"
  BY TargetLocated
<1>2. q \in Locations(pc.i, new) /\ q.found = "yes"
  BY TargetLocated DEF Applying, Applies
<1>3. p.at \in Nat /\ Located(p, i, section) /\ q.at \in Nat /\ Located(q, pc.i, new)
  BY <1>1, <1>2 DEF Locations
<1>4. SizeOf(p.type) \in Nat /\ SizeOf(q.type) \in Nat
  BY <1>3, RegistryAssumption DEF Located, SizeOf
<1>5. /\ section \in DOMAIN Desc(i).sections /\ new \in DOMAIN Desc(pc.i).sections
      /\ pc.i \in 1 .. N
  BY DEF Configurable, Applying
<1>6. i = pc.i /\ section = new => Apart(p, q)
  OBVIOUS
<1>7. p' = p
  BY SameTargets DEF Applying
<1>8. memory' = Stored(memory, q.at, SizeOf(q.type), raw)
  BY DEF Applying, Applies
<1>9. InUsedSpace(p, layout.used)
  OBVIOUS
<1> HIDE DEF p, q
<1>10. Bytes(p.at, SizeOf(p.type)) \cap Bytes(q.at, SizeOf(q.type)) = {}
  <2>1. CASE i # pc.i \/ section # new
    BY <1>3, <1>5, <2>1, LocatedApart
  <2>2. CASE i = pc.i /\ section = new
    BY <1>3, <1>4, <1>6, <2>2, Disjoint DEF Apart
  <2> QED BY <2>1, <2>2
<1>11. Bytes(p.at, SizeOf(p.type)) \subseteq DOMAIN memory /\ Holding(memory, p.at, SizeOf(p.type))
  BY <1>3, <1>4, <1>9, InBuffer
<1> DEFINE a == p.at
<1> DEFINE z == SizeOf(p.type)
<1> DEFINE b == q.at
<1> DEFINE y == SizeOf(q.type)
<1>12. a \in Int /\ z \in Nat
  BY <1>3, <1>4
<1>13. /\ a .. a + z - 1 \subseteq DOMAIN memory /\ Holding(memory, a, z)
       /\ (a .. a + z - 1) \cap (b .. b + y - 1) = {}
  BY <1>10, <1>11, Zenon DEF Bytes
<1> HIDE DEF a, z, b, y
<1>14. Loaded(Stored(memory, b, y, raw), a, z) = Loaded(memory, a, z)
  BY <1>12, <1>13, StoredElsewhere
<1> QED BY <1>7, <1>8, <1>14 DEF ReadAt, a, z, b, y, p

(* One round of the second pass.                                            *)
LEMMA ConfigApply ==
  ASSUME LayoutInv, CopyInv, BytesOK, Ready, ConfigInv, NEW new, NEW n, NEW raw, Applying(new, n, raw)
  PROVE  ConfigInv'
<1> SUFFICES ASSUME NEW i \in 1 .. N', NEW section \in Configurable(i)', NEW k \in (DOMAIN Entries(i, section))',
                    Done(i, section, k)'
             PROVE  Holds(i, section, k)'
  BY DEF ConfigInv
<1>1. /\ i \in 1 .. N /\ section \in Configurable(i) /\ k \in DOMAIN Entries(i, section)
      /\ UNCHANGED <<model, inst, boards, layout>>
  BY SameTargets DEF Applying
<1>2. /\ Target(i, section, k)' = Target(i, section, k) /\ Entries(i, section)' = Entries(i, section)
      /\ \A j : Target(i, section, j)' = Target(i, section, j)
      /\ \A s, j : Position(i, s, j)' = Position(i, s, j)
  BY <1>1, SameTargets
<1>3. /\ pc.at = "configure" /\ pc'.at = "configure" /\ pc'.i = pc.i /\ pc'.entry = pc.entry + 1
      /\ pc.i \in 1 .. N /\ new \in Configurable(pc.i) /\ n \in DOMAIN Entries(pc.i, new)
      /\ Position(pc.i, new, n) = pc.entry
  BY DEF Applying
<1>4. ~IsConfigured /\ ~IsConfigured'
  BY <1>3 DEF IsConfigured
<1>5. ASSUME NEW j \in DOMAIN Entries(i, section)
      PROVE  Done(i, section, j)' <=> Done(i, section, j) \/ (i = pc.i /\ Position(i, section, j) = pc.entry)
  <2>1. i = pc.i => Position(i, section, j) \in Nat /\ pc.entry \in Nat
    BY <1>1, <1>3, PositionOrder
  <2> QED BY <1>2, <1>3, <1>4, <2>1 DEF Done
<1>6. ASSUME Kept(i, section, k)'
      PROVE  Kept(i, section, k)
  <2> SUFFICES ASSUME NEW j \in DOMAIN Entries(i, section), k < j, Done(i, section, j)
               PROVE  Apart(Target(i, section, k), Target(i, section, j))
    BY DEF Kept
  <2>1. Done(i, section, j)' /\ j \in (DOMAIN Entries(i, section))'
    BY <1>2, <1>5
  <2>2. Apart(Target(i, section, k), Target(i, section, j))'
    BY <1>6, <2>1 DEF Kept
  <2> QED BY <1>2, <2>2 DEF Apart
<1>7. CASE i = pc.i /\ section = new /\ k = n
  <2>1. Target(i, section, k).found = "yes"
        /\ raw \in Parsed(Types[Target(i, section, k).type].value, Entries(i, section)[k].text)
    BY <1>7 DEF Applying, Applies
  <2>2. ASSUME InUsedSpace(Target(i, section, k), layout.used)
        PROVE  ReadAt(Target(i, section, k))' = raw
    <3>1. Applying(section, k, raw) /\ Target(pc.i, section, k) = Target(i, section, k)
      BY <1>7
    <3>2. InUsedSpace(Target(pc.i, section, k), layout.used)
      BY <2>2, <3>1, Zenon
    <3>3. ReadAt(Target(pc.i, section, k))' = raw
      BY <3>1, <3>2, NewEntry
    <3>4. Target(pc.i, section, k)' = Target(i, section, k)'
      BY <1>3, <1>7
    <3> QED BY <3>3, <3>4 DEF ReadAt
  <2> QED BY <1>1, <1>2, <2>1, <2>2 DEF Holds
<1>8. CASE ~(i = pc.i /\ section = new /\ k = n)
  <2>1. Done(i, section, k)
    BY <1>1, <1>3, <1>5, <1>8, PositionOrder
  <2>2. Holds(i, section, k)
    BY <1>1, <2>1 DEF ConfigInv
  <2>3. ASSUME Kept(i, section, k)', InUsedSpace(Target(i, section, k), layout.used)
        PROVE  ReadAt(Target(i, section, k))' = ReadAt(Target(i, section, k))
    <3>1. i = pc.i /\ section = new => Apart(Target(i, section, k), Target(i, new, n))
      <4> SUFFICES ASSUME i = pc.i, section = new PROVE Apart(Target(i, section, k), Target(i, new, n))
        OBVIOUS
      <4>1. Position(i, section, k) < pc.entry
        BY <1>4, <1>3, <2>1 DEF Done
      <4>2. k < n
        BY <1>1, <1>3, <4>1, PositionOrder
      <4>3. Done(i, section, n)' /\ n \in (DOMAIN Entries(i, section))'
        BY <1>2, <1>3, <1>5
      <4>4. Apart(Target(i, section, k), Target(i, section, n))'
        BY <2>3, <4>2, <4>3 DEF Kept
      <4> QED BY <1>2, <4>4 DEF Apart
    <3>2. Target(i, section, k).found = "yes"
      BY <2>2 DEF Holds
    <3> QED BY <1>1, <2>3, <3>1, <3>2, OldEntry
  <2> QED BY <1>1, <1>2, <1>6, <2>2, <2>3 DEF Holds
<1> QED BY <1>7, <1>8

(* Nothing is applied at first.                                             *)
LEMMA ConfigInit == Init => ConfigInv
<1> SUFFICES ASSUME Init PROVE ConfigInv
  OBVIOUS
<1>1. pc.at = "build"
  BY DEF Init
<1> QED BY <1>1 DEF ConfigInv, Done, IsConfigured

(* All steps but Apply.                                                     *)
LEMMA ConfigNone2 ==
  ASSUME ~IsConfigured', pc'.at # "configure"
  PROVE  ConfigInv'
BY ConfigNone DEF Done

(* What the steps of the engine do to the configuration: only the rounds of *)
(* the second pass and of its loop over workloads count an entry as         *)
(* applied.                                                                 *)
LEMMA ConfigNext ==
  LayoutInv /\ BoardsInv /\ CallsInv /\ CopyInv /\ TypeInv /\ ConfigInv /\ [Next]_vars => ConfigInv'
<1> SUFFICES ASSUME LayoutInv, BoardsInv, CallsInv, CopyInv, TypeInv, ConfigInv, [Next]_vars PROVE ConfigInv'
  OBVIOUS
<1> USE DEF static
<1>1. PlaceOK /\ OffsetsOK /\ BytesOK /\ CountsOK /\ RoundsOK
  BY DEF TypeInv, CallsInv
<1>2. CASE Build \/ Load \/ Size \/ Allocate \/ Construct \/ Constructed \/ SetEngine \/ PreLoad
  <2>1. \/ \E i : pc' = [at |-> "idle", i |-> i, entry |-> 1]
        \/ \E i : pc' = [at |-> "size", i |-> i, entry |-> 1]
        \/ \E i : pc' = [at |-> "layout", i |-> i, entry |-> 1]
        \/ \E i : pc' = [at |-> "set_engine", i |-> i, entry |-> 1]
        \/ \E i : pc' = [at |-> "preload", i |-> i, entry |-> 1]
        \/ \E i : pc' = [at |-> "fatal", i |-> i, entry |-> 1]
    BY <1>2, Zenon DEF Build, Load, Size, Allocate, Construct, Constructed, SetEngine, PreLoad, Go, Exit
  <2> QED BY <2>1, ConfigNone2 DEF IsConfigured
<1>3. CASE BindBoards
  <2>1. \/ pc' = [at |-> "configure", i |-> 1, entry |-> 1]
        \/ pc' = [at |-> "fatal", i |-> 0, entry |-> 1]
    BY <1>3, Zenon DEF BindBoards, Go, Exit
  <2>2. CASE pc' = [at |-> "fatal", i |-> 0, entry |-> 1]
    BY <2>2, ConfigNone2 DEF IsConfigured
  <2>3. CASE pc' = [at |-> "configure", i |-> 1, entry |-> 1]
    <3>1. ASSUME NEW i \in 1 .. N', NEW section \in Configurable(i)', NEW k \in (DOMAIN Entries(i, section))'
          PROVE  ~Done(i, section, k)'
      <4>1. Position(i, section, k)' \in Nat \ {0}
        <5>1. i \in 1 .. N /\ section \in Configurable(i) /\ k \in DOMAIN Entries(i, section)
              /\ Position(i, section, k)' = Position(i, section, k)
          <6>1. Seed(i)' = Seed(i) /\ Desc(i)' = Desc(i) /\ N' = N
            BY <1>3 DEF BindBoards, Seed, Desc, N
          <6>2. Texts(i, "config")' = Texts(i, "config") /\ Entries(i, section)' = Entries(i, section)
            BY <6>1 DEF Texts, Entries
          <6> QED BY <6>1, <6>2 DEF Configurable, Position
        <5> QED BY <5>1, PositionOrder
      <4> QED BY <2>3, <4>1 DEF Done, IsConfigured
    <3> QED BY <3>1, ConfigNone
  <2> QED BY <2>1, <2>2, <2>3
<1>4. CASE Apply
  <2>1. pc.at \in {"preload", "configure"} /\ pc.i \in 1 .. N /\ Ready
    BY <1>1, <1>4, RoundOf
  <2>2. UNCHANGED <<model, layout, inst, boards>>
    BY <1>4 DEF Apply
  <2>3. \/ pc' = [at |-> "fatal", i |-> 0, entry |-> 1] /\ memory' = memory
        \/ /\ pc' = [at |-> pc.at, i |-> pc.i, entry |-> pc.entry + 1]
           /\ \E section \in Configurable(pc.i) : \E k \in DOMAIN Entries(pc.i, section) :
                /\ Position(pc.i, section, k) = pc.entry
                /\ Skips(section, k) \/ \E raw : Applies(section, k, raw)
    BY <1>1, <1>4, <2>1, RoundWrites
  <2>4. CASE pc' = [at |-> "fatal", i |-> 0, entry |-> 1]
    BY <2>4, ConfigNone2 DEF IsConfigured
  <2>5. CASE pc.at = "preload" /\ pc' = [at |-> pc.at, i |-> pc.i, entry |-> pc.entry + 1]
    BY <2>5, ConfigNone2 DEF IsConfigured
  <2>6. ASSUME pc.at = "configure", pc' = [at |-> pc.at, i |-> pc.i, entry |-> pc.entry + 1],
               NEW section \in Configurable(pc.i), NEW k \in DOMAIN Entries(pc.i, section),
               Position(pc.i, section, k) = pc.entry,
               Skips(section, k) \/ \E raw : Applies(section, k, raw)
        PROVE  ConfigInv'
    <3>1. PICK raw : Applies(section, k, raw)
      BY <2>6 DEF Skips
    <3>2. Applying(section, k, raw)
      BY <2>1, <2>2, <2>6, <3>1 DEF Applying
    <3> QED BY <1>1, <2>1, <3>2, ConfigApply
  <2> QED BY <2>1, <2>3, <2>4, <2>5, <2>6
<1>5. CASE Configure
  <2>1. /\ pc.at = "configure" /\ pc.i <= N /\ pc.entry > Len(Settings(pc.i))
        /\ pc' = [at |-> "configure", i |-> pc.i + 1, entry |-> 1]
        /\ UNCHANGED <<model, layout, inst, boards, memory>>
    BY <1>5 DEF Configure, At, Applied, Go
  <2>2. pc.i \in Nat \ {0} /\ pc.entry \in Nat /\ N \in Nat /\ pc.i \in 1 .. N
    BY <1>1, <2>1, NumberOfSeeds DEF RoundsOK, Loops, PlaceOK
  <2>3. ASSUME NEW i \in 1 .. N, NEW section \in Configurable(i), NEW k \in DOMAIN Entries(i, section)
        PROVE  Done(i, section, k)' = Done(i, section, k)
    <3>1. Position(i, section, k)' = Position(i, section, k) /\ Position(i, section, k) \in Nat \ {0}
      BY <2>1, SameTargets, PositionOrder
    <3>2. i = pc.i => Position(i, section, k) < pc.entry
      <4>1. Len(Settings(pc.i)) \in Nat
        BY <2>1, <2>2, SettingsCount
      <4>2. i = pc.i => Position(i, section, k) <= Len(Settings(pc.i))
        BY <2>1, RoundsApplyAll
      <4> QED BY <2>1, <2>2, <3>1, <4>1, <4>2
    <3>3. ~IsConfigured /\ ~IsConfigured'
      BY <2>1 DEF IsConfigured
    <3>4. Done(i, section, k) <=> i <= pc.i
      BY <2>1, <2>2, <3>2, <3>3 DEF Done
    <3>5. Done(i, section, k)' <=> i <= pc.i
      BY <2>1, <2>2, <3>1, <3>3 DEF Done
    <3>6. Done(i, section, k) \in BOOLEAN /\ Done(i, section, k)' \in BOOLEAN
      BY Zenon DEF Done, IsConfigured
    <3> QED BY <3>4, <3>5, <3>6
  <2> QED BY <2>1, <2>3, ConfigKept
<1>6. CASE AllConfigured
  <2>1. /\ pc.at = "configure" /\ pc.i = N + 1 /\ pc' = [at |-> "load", i |-> 1, entry |-> 1]
        /\ UNCHANGED <<model, layout, inst, boards, memory>>
    BY <1>6 DEF AllConfigured, Past, Go
  <2>2. N \in Nat
    BY NumberOfSeeds
  <2>3. ASSUME NEW i \in 1 .. N, NEW section \in Configurable(i), NEW k \in DOMAIN Entries(i, section)
        PROVE  Done(i, section, k)' = Done(i, section, k)
    <3>1. Done(i, section, k)
      BY <2>1, <2>2 DEF Done
    <3>2. Done(i, section, k)'
      BY <2>1 DEF Done, IsConfigured
    <3>3. Done(i, section, k) \in BOOLEAN /\ Done(i, section, k)' \in BOOLEAN
      BY Zenon DEF Done, IsConfigured
    <3> QED BY <3>1, <3>2, <3>3
  <2> QED BY <2>1, <2>3, ConfigKept
<1>7. CASE LoadWorkload \/ HookUpChildren \/ Connect \/ Claim \/ Setup \/ SetupRemote
  <2>1. pc.at \in {"load", "connect", "setup"} /\ UNCHANGED <<model, layout, inst, boards, memory, count>>
    BY <1>7 DEF LoadWorkload, HookUpChildren, Connect, Claim, Setup, SetupRemote, At, Past
  <2>2. pc'.at \in {"load", "connect", "setup", "loaded", "fatal"}
    BY <1>7 DEF LoadWorkload, HookUpChildren, Connect, Claim, Setup, SetupRemote, Go, Exit
  <2>3. CASE IsConfigured'
    <3>1. IsConfigured
      BY <2>1 DEF IsConfigured
    <3>2. ASSUME NEW i \in 1 .. N, NEW section \in Configurable(i), NEW k \in DOMAIN Entries(i, section)
          PROVE  Done(i, section, k)' = Done(i, section, k)
      <4>1. Done(i, section, k) /\ Done(i, section, k)'
        BY <2>3, <3>1 DEF Done
      <4>2. Done(i, section, k) \in BOOLEAN /\ Done(i, section, k)' \in BOOLEAN
        BY Zenon DEF Done, IsConfigured
      <4> QED BY <4>1, <4>2
    <3> QED BY <2>1, <3>2, ConfigKept
  <2>4. CASE ~IsConfigured'
    BY <2>2, <2>4, ConfigNone2
  <2> QED BY <2>3, <2>4
<1>8. CASE Stopped
  <2>1. /\ pc.at = "stop" /\ count' = count
    BY <1>8 DEF Stopped, Past
  <2>2. pc' = [at |-> "loaded", i |-> 1, entry |-> 1]
    BY <1>8, Zenon DEF Stopped, Go
  <2>3. count.runs > 0 /\ count.runs \in Nat
    BY <1>1, <2>1, EngineAssumption DEF CountsOK, Running
  <2> QED BY <2>1, <2>2, <2>3, ConfigNone2 DEF IsConfigured
<1>9. CASE LoadAgain \/ Run \/ Copy \/ CopiesDone \/ TickRoot \/ NextTick \/ BeginStop \/ Stop
           \/ BeginDestroy \/ Destroy \/ Destroyed
  <2>1. pc'.at \in {"fatal", "copy", "tick", "sleep", "stop", "destroy", "gone"}
    BY <1>9 DEF LoadAgain, Run, Copy, CopiesDone, TickRoot, NextTick, BeginStop, Stop, BeginDestroy, Destroy,
       Destroyed, Go, Exit
  <2> QED BY <2>1, ConfigNone2 DEF IsConfigured
<1>10. CASE UNCHANGED vars
  <2>1. UNCHANGED <<model, layout, inst, boards, memory, pc, count>>
    BY <1>10 DEF vars
  <2>2. ASSUME NEW i \in 1 .. N, NEW section \in Configurable(i), NEW k \in DOMAIN Entries(i, section)
        PROVE  Done(i, section, k)' = Done(i, section, k)
    BY <2>1, SameTargets DEF Done, IsConfigured
  <2> QED BY <2>1, <2>2, ConfigKept
<1> QED
  BY <1>2, <1>3, <1>4, <1>5, <1>6, <1>7, <1>8, <1>9, <1>10 DEF Next

(* What the second pass leaves in memory was read from the text of the      *)
(* field.                                                                   *)
LEMMA FieldsHold ==
  ASSUME LayoutInv, BoardsInv, TypeInv, ConfigInv, IsConfigured, NEW f \in ConfiguredFields,
         InUsedSpace(Resolved(f.at, f.type), layout.used)
  PROVE  LET t == Types[f.type].value
         IN /\ t.class \in WithText => ValuesOK(t)
            /\ TextOK(f.text)
            /\ Loaded(memory, f.at, SizeOf(f.type)) \in Parsed(t, f.text)
<1>1. Ready
  <2>1. pc.at \in AfterBinding
    BY DEF IsConfigured, AfterBinding, AfterLoad
  <2> QED BY <2>1, ReadyWhen DEF TypeInv
<1>2. PICK i \in 1 .. N : \E section \in Configurable(i) : f \in LastingEntries(i, section)
  BY DEF ConfiguredFields, Configurable
<1>3. PICK section \in Configurable(i) : f \in LastingEntries(i, section)
  BY <1>2
<1> DEFINE entries == Entries(i, section)
<1> DEFINE target == [k \in DOMAIN entries |-> Target(i, section, k)]
<1>4. PICK k \in DOMAIN entries :
        /\ f = [at |-> target[k].at, type |-> target[k].type, text |-> entries[k].text]
        /\ \A j \in k + 1 .. Len(entries) : Apart(target[k], target[j])
  BY <1>3 DEF LastingEntries, Target, SectionAt, SectionOf, Apart
<1>5. Done(i, section, k)
  BY DEF Done
<1>6. Holds(i, section, k)
  BY <1>4, <1>5 DEF ConfigInv
<1>7. Kept(i, section, k)
  <2> SUFFICES ASSUME NEW j \in DOMAIN entries, k < j
               PROVE  Apart(Target(i, section, k), Target(i, section, j))
    BY DEF Kept
  <2>1. Len(entries) \in Nat /\ DOMAIN entries = 1 .. Len(entries)
    BY <1>1, TargetLocated DEF EntriesOK
  <2>2. j \in k + 1 .. Len(entries)
    BY <2>1
  <2> QED BY <1>4, <2>2
<1> DEFINE r == Target(i, section, k)
<1>8. r \in Locations(i, section) /\ r.found = "yes" /\ TextOK(entries[k].text)
  BY <1>1, <1>6, TargetLocated DEF Holds
<1>9. f = [at |-> r.at, type |-> r.type, text |-> entries[k].text]
  BY <1>4
<1>10. ReadAt(r) \in Parsed(Types[r.type].value, entries[k].text) \/ ~InUsedSpace(r, layout.used)
  BY <1>6, <1>7 DEF Holds
<1> DEFINE text == entries[k].text
<1> HIDE DEF r, text
<1>11. f.at = r.at /\ f.type = r.type /\ f.text = text
  BY <1>9 DEF text
<1>12. r.type \in DOMAIN Types
  BY <1>8 DEF Locations, Located
<1>13. InUsedSpace(r, layout.used)
  BY <1>8, <1>11 DEF InUsedSpace, Resolved
<1>14. Types[r.type].value.class \in WithText => ValuesOK(Types[r.type].value)
  BY <1>12, RegistryAssumption
<1> QED BY <1>8, <1>10, <1>11, <1>13, <1>14 DEF ReadAt, text

(* Once configured, every lasting entry is in memory, means what its text   *)
(* says and is printed as a text that means the same.                       *)
LEMMA ConfigInvImplies ==
  LayoutInv /\ BoardsInv /\ TypeInv /\ ConfigInv => ConfigSticks /\ ValuesReadBack
<1> SUFFICES ASSUME LayoutInv, BoardsInv, TypeInv, ConfigInv, IsConfigured, NEW f \in ConfiguredFields,
                    InUsedSpace(Resolved(f.at, f.type), layout.used)
             PROVE  LET t == Types[f.type].value
                        raw == Loaded(memory, f.at, SizeOf(f.type))
                    IN Means(t, f.text, raw) /\ Parsed(t, ToText(t, raw)) = {raw}
  BY DEF ConfigSticks, ValuesReadBack
<1> DEFINE t == Types[f.type].value
<1> DEFINE raw == Loaded(memory, f.at, SizeOf(f.type))
<1> DEFINE x == f.text
<1>1. (t.class \in WithText => ValuesOK(t)) /\ TextOK(x) /\ raw \in Parsed(t, x)
  BY FieldsHold
<1> HIDE DEF t, raw, x
<1>2. ValuesOK(t) /\ t.class \in WithText /\ Means(t, x, raw)
  BY <1>1, ParsedMeans
<1>3. Parsed(t, ToText(t, raw)) = {raw}
  BY <1>1, <1>2, TextReadsBack
<1> QED BY <1>2, <1>3 DEF t, raw, x

(* The inductive invariant.                                                 *)
LEMMA ConfigInvariant == Spec => [](LayoutInv /\ BoardsInv /\ TypeInv /\ ConfigInv)
<1>1. Init => LayoutInv /\ BoardsInv /\ CallsInv /\ CopyInv /\ TypeInv /\ ConfigInv
  BY LayoutInit, BoardsInit, InitCalls, CopyInit, TypeInit, ConfigInit
<1>2. LayoutInv /\ BoardsInv /\ CallsInv /\ CopyInv /\ TypeInv /\ ConfigInv /\ [Next]_vars
      => LayoutInv' /\ BoardsInv' /\ CallsInv' /\ CopyInv' /\ TypeInv' /\ ConfigInv'
  BY LayoutNext, BoardsNext, CallsNext, CopyNext, TypeNext, ConfigNext
<1> QED BY <1>1, <1>2, PTL DEF Spec

(* From the end of the second pass until the first tick, memory holds, for  *)
(* every entry of config and inputs that no later entry of its section      *)
(* overwrites, a value its text stands for: no other entry, section,        *)
(* workload or blackboard shares a byte with it, whatever the types, the    *)
(* enumerations and the paths of the model (Engine.cpp:233-289,             *)
(* TypeDescriptor.cpp:270-376).                                             *)
THEOREM ConfigTheorem == Spec => []ConfigSticks
BY ConfigInvariant, ConfigInvImplies, PTL

(* What memory then holds for an entry is printed by to_string() as a text  *)
(* from which from_string() reads that value and no other                   *)
(* (TypeDescriptor.cpp:270-527).                                            *)
THEOREM ReadBackTheorem == Spec => []ValuesReadBack
BY ConfigInvariant, ConfigInvImplies, PTL
=============================================================================
