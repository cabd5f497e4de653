---------------------------- MODULE CodecsProofs ----------------------------
(* Decoding inverts encoding, and readers and writers stay in step.        *)
EXTENDS Codecs, SequenceTheorems, WellFoundedInduction, TLAPS

----------------------------------------------------------------------------
(* Induction over the naturals, for sets instead of predicates, and what   *)
(* follows from it for functions that are defined by recursion.            *)

LEMMA LeastNatural ==
    ASSUME NEW T \in SUBSET Nat, T # {}
    PROVE  \E x \in T : \A y \in T : x <= y
<1> DEFINE R == {p \in Nat \X Nat : p[1] < p[2]}
<1>1. IsWellFoundedOn(R, Nat)
    BY NatLessThanWellFounded DEF OpToRel
<1>2. PICK x \in T : \A y \in T : <<y, x>> \notin R
    BY <1>1, WFMin
<1>3. \A y \in T : ~ (y < x)
    BY <1>2
<1> QED
    BY <1>3

LEMMA SetInduction ==
    ASSUME NEW S, 0 \in S, \A n \in Nat : n \in S => n + 1 \in S
    PROVE  \A n \in Nat : n \in S
<1> DEFINE T == {n \in Nat : n \notin S}
<1>1. SUFFICES ASSUME T # {} PROVE FALSE
    OBVIOUS
<1>2. PICK x \in T : \A y \in T : x <= y
    BY <1>1, LeastNatural
<1>3. x \in Nat /\ x # 0
    OBVIOUS
<1>4. x - 1 \in Nat /\ x - 1 \notin T
    BY <1>2, <1>3
<1>5. (x - 1) + 1 \in S
    BY <1>4
<1> QED
    BY <1>3, <1>5

\* Induction up to a bound.
LEMMA BoundedInduction ==
    ASSUME NEW S, NEW N \in Nat, 0 \in S,
           \A n \in Nat : n < N /\ n \in S => n + 1 \in S
    PROVE  \A n \in 0..N : n \in S
<1> DEFINE T == {n \in Nat : n <= N => n \in S}
<1>1. 0 \in T
    OBVIOUS
<1>2. ASSUME NEW n \in Nat, n \in T PROVE n + 1 \in T
    BY <1>2
<1> HIDE DEF T
<1>3. \A n \in Nat : n \in T
    BY <1>1, <1>2, SetInduction
<1> QED
    BY <1>3 DEF T

\* f starts with a and takes a step from each number to the next.
Recurses(f, D, a, step) ==
    \A n \in D : f[n] = IF n = 0 THEN a ELSE step[<<n, f[n - 1]>>]

LEMMA RecursionOnNat ==
    ASSUME NEW S, NEW a \in S, NEW step \in [Nat \X S -> S]
    PROVE  \E f \in [Nat -> S] : Recurses(f, Nat, a, step)
<1> DEFINE Ok(f, n) == /\ f \in [0..n -> S]
                       /\ f[0] = a
                       /\ \A i \in 1..n : f[i] = step[<<i, f[i - 1]>>]
           Has == {n \in Nat : \E f : Ok(f, n)}
<1>1. 0 \in Has
  <2>1. Ok([i \in 0..0 |-> a], 0)
    OBVIOUS
  <2> QED
    BY <2>1
<1>2. ASSUME NEW n \in Nat, n \in Has PROVE n + 1 \in Has
  <2>1. PICK f : Ok(f, n)
    BY <1>2
  <2> DEFINE g == [i \in 0..(n + 1) |-> IF i = n + 1 THEN step[<<i, f[n]>>] ELSE f[i]]
  <2>2. step[<<n + 1, f[n]>>] \in S
    BY <2>1
  <2>3. g \in [0..(n + 1) -> S]
    BY <2>1, <2>2
  <2>4. g[0] = a
    BY <2>1
  <2>5. ASSUME NEW i \in 1..(n + 1) PROVE g[i] = step[<<i, g[i - 1]>>]
    <3>1. g[i - 1] = f[i - 1]
      OBVIOUS
    <3>2. CASE i = n + 1
      BY <3>1, <3>2
    <3>3. CASE i # n + 1
      <4>1. i \in 1..n /\ g[i] = f[i]
        BY <3>3
      <4> QED
        BY <4>1, <3>1, <2>1
    <3> QED
      BY <3>2, <3>3
  <2>6. Ok(g, n + 1)
    BY <2>3, <2>4, <2>5
  <2> HIDE DEF g, Ok
  <2> QED
    BY <2>6
<1>3. \A n \in Nat : \E f : Ok(f, n)
  <2> HIDE DEF Has, Ok
  <2>1. \A n \in Nat : n \in Has
    BY <1>1, <1>2, SetInduction
  <2> QED
    BY <2>1 DEF Has
<1>4. ASSUME NEW m \in Nat, NEW n \in Nat, NEW f, NEW g, Ok(f, m), Ok(g, n)
      PROVE  \A i \in Nat : i <= m /\ i <= n => f[i] = g[i]
  <2> DEFINE Same == {i \in Nat : i <= m /\ i <= n => f[i] = g[i]}
  <2>1. 0 \in Same
    BY <1>4
  <2>2. ASSUME NEW i \in Nat, i \in Same PROVE i + 1 \in Same
    <3>1. SUFFICES ASSUME i + 1 <= m, i + 1 <= n PROVE f[i + 1] = g[i + 1]
      OBVIOUS
    <3>2. f[i] = g[i]
      BY <2>2, <3>1
    <3>3. i + 1 \in 1..m /\ i + 1 \in 1..n /\ (i + 1) - 1 = i
      BY <3>1
    <3>4. f[i + 1] = step[<<i + 1, f[i]>>] /\ g[i + 1] = step[<<i + 1, g[i]>>]
      BY <1>4, <3>3
    <3> QED
      BY <3>2, <3>4
  <2> HIDE DEF Same
  <2>3. \A i \in Nat : i \in Same
    BY <2>1, <2>2, SetInduction
  <2> QED
    BY <2>3 DEF Same
<1> DEFINE F(n) == CHOOSE f : Ok(f, n)
           whole == [n \in Nat |-> F(n)[n]]
<1>5. \A n \in Nat : Ok(F(n), n)
    BY <1>3
<1>6. whole \in [Nat -> S]
  <2>1. \A n \in Nat : F(n) \in [0..n -> S]
    BY <1>5
  <2> HIDE DEF F
  <2>2. \A n \in Nat : F(n)[n] \in S
    BY <2>1
  <2> QED
    BY <2>2
<1>7. ASSUME NEW n \in Nat
      PROVE  whole[n] = IF n = 0 THEN a ELSE step[<<n, whole[n - 1]>>]
  <2>1. CASE n = 0
    BY <1>5, <2>1
  <2>2. CASE n # 0
    <3>1. n - 1 \in Nat /\ n \in 1..n
      BY <2>2
    <3> HIDE DEF Ok, F
    <3>2. Ok(F(n), n) /\ Ok(F(n - 1), n - 1)
      BY <1>5, <3>1
    <3>3. F(n)[n - 1] = F(n - 1)[n - 1]
      BY <1>4, <3>1, <3>2
    <3>4. F(n)[n] = step[<<n, F(n)[n - 1]>>]
      BY <3>1, <3>2 DEF Ok
    <3>5. whole[n] = F(n)[n] /\ whole[n - 1] = F(n - 1)[n - 1]
      BY <3>1
    <3> QED
      BY <2>2, <3>3, <3>4, <3>5
  <2> QED
    BY <2>1, <2>2
<1>8. Recurses(whole, Nat, a, step)
  <2> HIDE DEF whole
  <2> QED
    BY <1>7 DEF Recurses
<1> QED
    BY <1>6, <1>8

\* As a function that is defined on the numbers up to N.
IsRecursion(f, N, a, step) ==
    f = [n \in 0..N |-> IF n = 0 THEN a ELSE step[<<n, f[n - 1]>>]]

LEMMA RecursionUpTo ==
    ASSUME NEW S, NEW a \in S, NEW step \in [Nat \X S -> S], NEW N \in Nat
    PROVE  \E f \in [0..N -> S] : IsRecursion(f, N, a, step)
<1>1. PICK f \in [Nat -> S] : Recurses(f, Nat, a, step)
    BY RecursionOnNat
<1> DEFINE g == [n \in 0..N |-> f[n]]
           h == [n \in 0..N |-> IF n = 0 THEN a ELSE step[<<n, g[n - 1]>>]]
<1>2. g \in [0..N -> S]
    OBVIOUS
<1>3. ASSUME NEW n \in 0..N PROVE g[n] = h[n]
  <2>1. f[n] = IF n = 0 THEN a ELSE step[<<n, f[n - 1]>>]
    BY <1>1 DEF Recurses
  <2>2. n # 0 => g[n - 1] = f[n - 1]
    OBVIOUS
  <2> QED
    BY <2>1, <2>2
<1>4. g = h
    BY <1>3
<1>5. IsRecursion(g, N, a, step)
  <2> HIDE DEF g
  <2> QED
    BY <1>4 DEF IsRecursion
<1> QED
    BY <1>2, <1>5

----------------------------------------------------------------------------
(* Integers and their bytes.                                               *)

LEMMA BaseIsNat == Base \in Nat /\ Base >= 4
    BY BytesAssumption

LEMMA PowerFacts ==
    /\ Power \in [Nat -> Nat]
    /\ Power[0] = 1
    /\ \A n \in Nat : Power[n + 1] = Base * Power[n] /\ Power[n] > n
<1> DEFINE step == [p \in Nat \X Nat |-> Base * p[2]]
<1>1. step \in [Nat \X Nat -> Nat]
    BY BaseIsNat
<1>2. PICK f \in [Nat -> Nat] : Recurses(f, Nat, 1, step)
  <2> HIDE DEF step
  <2> QED
    BY <1>1, RecursionOnNat
<1> DEFINE Whole(g) == [n \in Nat |-> IF n = 0 THEN 1 ELSE Base * g[n - 1]]
<1>3. ASSUME NEW n \in Nat PROVE f[n] = IF n = 0 THEN 1 ELSE Base * f[n - 1]
  <2>1. f[n] = IF n = 0 THEN 1 ELSE step[<<n, f[n - 1]>>]
    BY <1>2 DEF Recurses
  <2>2. n # 0 => f[n - 1] \in Nat
    OBVIOUS
  <2> QED
    BY <2>1, <2>2
<1>4. f = Whole(f)
    BY <1>3
<1>5. Power = CHOOSE g : g = Whole(g)
    BY DEF Power
<1>6. Power = Whole(Power)
  <2> HIDE DEF Whole
  <2> QED
    BY <1>4, <1>5
<1>7. \A n \in Nat : Power[n] = IF n = 0 THEN 1 ELSE Base * Power[n - 1]
    BY <1>6
<1>8. Power[0] = 1
    BY <1>7
<1>9. \A n \in Nat : Power[n + 1] = Base * Power[n]
    BY <1>7
<1> DEFINE Grows == {n \in Nat : Power[n] \in Nat /\ Power[n] > n}
<1>10. 0 \in Grows
    BY <1>8
<1>11. ASSUME NEW n \in Nat, n \in Grows PROVE n + 1 \in Grows
  <2>1. Power[n + 1] = Base * Power[n] /\ Power[n] \in Nat /\ Power[n] > n
    BY <1>9, <1>11
  <2>2. Base * Power[n] \in Nat /\ Base * Power[n] >= 4 * Power[n]
    BY <2>1, BaseIsNat
  <2> QED
    BY <2>1, <2>2
<1>12. \A n \in Nat : Power[n] \in Nat /\ Power[n] > n
  <2> HIDE DEF Grows
  <2>1. \A n \in Nat : n \in Grows
    BY <1>10, <1>11, SetInduction
  <2> QED
    BY <2>1 DEF Grows
<1>13. Power \in [Nat -> Nat]
    BY <1>6, <1>12
<1> QED
    BY <1>8, <1>9, <1>12, <1>13

LEMMA Division ==
    ASSUME NEW v \in Int, NEW p \in Nat, p > 0
    PROVE  \E q \in Int, r \in Nat :
               q = v \div p /\ r = v % p /\ v = p * q + r /\ r < p
<1> DEFINE q == v \div p
           r == v % p
<1>1. \A a \in Int, b \in Int : a = v \div p /\ b = v % p => v = p * a + b
    OBVIOUS
<1>2. q \in Int /\ r \in Nat /\ r < p
    OBVIOUS
<1>3. v = p * q + r
    BY <1>1, <1>2
<1> QED
    BY <1>2, <1>3

\* The quotient and remainder are the only ones.
LEMMA DivisionIsUnique ==
    ASSUME NEW v \in Int, NEW p \in Nat, p > 0, NEW q \in Int, NEW r \in Nat,
           v = p * q + r, r < p
    PROVE  v \div p = q /\ v % p = r
<1>1. PICK d \in Int, m \in Nat :
            d = v \div p /\ m = v % p /\ v = p * d + m /\ m < p
    BY Division
<1>2. ASSUME q < d PROVE FALSE
  <2>1. p * d >= p * (q + 1)
    BY <1>2
  <2>2. p * (q + 1) = p * q + p
    OBVIOUS
  <2> QED
    BY <1>1, <2>1, <2>2
<1>3. ASSUME q > d PROVE FALSE
  <2>1. p * q >= p * (d + 1)
    BY <1>3
  <2>2. p * (d + 1) = p * d + p
    OBVIOUS
  <2> QED
    BY <1>1, <2>1, <2>2
<1>4. q = d
    BY <1>2, <1>3
<1>5. r = m
    BY <1>1, <1>4
<1> QED
    BY <1>1, <1>4, <1>5

LEMMA NextRemainder ==
    ASSUME NEW v \in Int, NEW p \in Nat, p > 0, NEW b \in Nat, b > 0
    PROVE  v % (b * p) = (v % p) + ((v \div p) % b) * p
<1>1. PICK q \in Int, r \in Nat :
            q = v \div p /\ r = v % p /\ v = p * q + r /\ r < p
    BY Division
<1>2. PICK q2 \in Int, r2 \in Nat :
            q2 = q \div b /\ r2 = q % b /\ q = b * q2 + r2 /\ r2 < b
    BY Division
<1>3. b * p \in Nat /\ b * p > 0
    OBVIOUS
<1>4. v = (b * p) * q2 + (r + r2 * p)
  <2>1. p * q = p * (b * q2 + r2)
    BY <1>2
  <2>2. p * (b * q2 + r2) = (b * p) * q2 + r2 * p
    OBVIOUS
  <2>3. p * q \in Int /\ (b * p) * q2 \in Int /\ r2 * p \in Int
    OBVIOUS
  <2> QED
    BY <1>1, <2>1, <2>2, <2>3
<1>5. r2 * p <= (b - 1) * p
    BY <1>2
<1>6. (b - 1) * p = b * p - p
    OBVIOUS
<1>7. r + r2 * p \in Nat /\ r + r2 * p < b * p
    BY <1>1, <1>5, <1>6
<1>8. v % (b * p) = r + r2 * p
    BY <1>3, <1>4, <1>7, DivisionIsUnique
<1> QED
    BY <1>1, <1>2, <1>8

LEMMA ToBytesType ==
    ASSUME NEW v \in Int, NEW n \in Nat
    PROVE  ToBytes(v, n) \in Bytes /\ Len(ToBytes(v, n)) = n
<1>1. \A i \in 1..n : (v \div Power[i - 1]) % Base \in Byte
  <2>1. SUFFICES ASSUME NEW i \in 1..n PROVE (v \div Power[i - 1]) % Base \in Byte
    OBVIOUS
  <2>2. Power[i - 1] \in Nat /\ Power[i - 1] > 0
    BY PowerFacts
  <2>3. v \div Power[i - 1] \in Int
    BY <2>2, Division
  <2> QED
    BY <2>3, Division, BaseIsNat DEF Byte
<1> QED
    BY <1>1 DEF ToBytes, Bytes

LEMMA ValueUpToFacts ==
    ASSUME NEW s \in Bytes
    PROVE  /\ ValueUpTo(s) \in [0..Len(s) -> Nat]
           /\ ValueUpTo(s)[0] = 0
           /\ \A i \in 1..Len(s) :
                  ValueUpTo(s)[i] = ValueUpTo(s)[i - 1] + s[i] * Power[i - 1]
<1> DEFINE N == Len(s)
           step == [p \in Nat \X Nat |->
                      IF p[1] \in 1..N THEN p[2] + s[p[1]] * Power[p[1] - 1] ELSE 0]
           Whole(g) == [i \in 0..N |-> IF i = 0 THEN 0 ELSE g[i - 1] + s[i] * Power[i - 1]]
           Stepped(g) == [i \in 0..N |-> IF i = 0 THEN 0 ELSE step[<<i, g[i - 1]>>]]
<1>1. N \in Nat /\ \A i \in 1..N : s[i] \in Nat
    BY BaseIsNat DEF Bytes, Byte
<1>2. \A i \in 1..N : Power[i - 1] \in Nat
  <2>1. \A i \in 1..N : i - 1 \in Nat
    BY <1>1
  <2> HIDE DEF N
  <2> QED
    BY <2>1, PowerFacts
<1>3. step \in [Nat \X Nat -> Nat]
  <2>1. \A i \in 1..N : s[i] * Power[i - 1] \in Nat
    BY <1>1, <1>2
  <2> HIDE DEF N
  <2> QED
    BY <1>1, <2>1
<1>4. PICK f \in [0..N -> Nat] : IsRecursion(f, N, 0, step)
  <2> HIDE DEF step, N
  <2> QED
    BY <1>1, <1>3, RecursionUpTo
<1>5. f = Whole(f)
  <2>1. ASSUME NEW i \in 0..N PROVE Stepped(f)[i] = Whole(f)[i]
    <3> HIDE DEF N, step
    <3>1. i # 0 => i \in 1..N /\ i - 1 \in 0..N /\ f[i - 1] \in Nat
      BY <1>1, <1>4
    <3> USE DEF step
    <3> QED
      BY <3>1
  <2>2. Stepped(f) = Whole(f)
    BY <2>1
  <2> HIDE DEF step
  <2> QED
    BY <2>2, <1>4 DEF IsRecursion
<1>6. ValueUpTo(s) = CHOOSE g : g = Whole(g)
    BY DEF ValueUpTo
<1>7. ValueUpTo(s) = Whole(ValueUpTo(s))
  <2> HIDE DEF Whole
  <2> QED
    BY <1>5, <1>6
<1> DEFINE V == ValueUpTo(s)
<1> HIDE DEF V
<1>8. /\ V[0] = 0
      /\ \A i \in 1..N : V[i] = V[i - 1] + s[i] * Power[i - 1]
    BY <1>1, <1>7 DEF V
<1> DEFINE Typed == {i \in Nat : i <= N => V[i] \in Nat}
<1>9. 0 \in Typed
    BY <1>8
<1>10. ASSUME NEW i \in Nat, i \in Typed PROVE i + 1 \in Typed
  <2>1. SUFFICES ASSUME i + 1 <= N PROVE V[i + 1] \in Nat
    OBVIOUS
  <2>2. i + 1 \in 1..N /\ V[i] \in Nat
    BY <1>1, <1>10, <2>1
  <2>3. V[i + 1] = V[i] + s[i + 1] * Power[i]
    BY <1>8, <2>2
  <2>4. Power[i] \in Nat /\ s[i + 1] \in Nat
    BY <1>1, <2>2, PowerFacts
  <2>5. s[i + 1] * Power[i] \in Nat
    BY <2>4
  <2> QED
    BY <2>2, <2>3, <2>5
<1>11. \A i \in Nat : i \in Typed
  <2> HIDE DEF Typed
  <2> QED
    BY <1>9, <1>10, SetInduction
<1>12. V \in [0..N -> Nat]
  <2>1. \A i \in 0..N : V[i] \in Nat
    BY <1>1, <1>11
  <2>2. V = [i \in 0..N |-> V[i]]
    BY <1>7 DEF V
  <2> QED
    BY <2>1, <2>2
<1> QED
    BY <1>8, <1>12 DEF V

LEMMA ToBytesValue ==
    ASSUME NEW v \in Int, NEW n \in Nat
    PROVE  Unsigned(ToBytes(v, n)) = v % Power[n]
<1> DEFINE s == ToBytes(v, n)
           V == ValueUpTo(s)
           S == {i \in Nat : i <= n => V[i] = v % Power[i]}
<1>1. s \in Bytes /\ Len(s) = n
    BY ToBytesType
<1>2. V[0] = 0 /\ \A i \in 1..n : V[i] = V[i - 1] + s[i] * Power[i - 1]
    BY <1>1, ValueUpToFacts
<1>3. 0 \in S
  <2>1. v % 1 = 0
    BY DivisionIsUnique
  <2> QED
    BY <1>2, <2>1, PowerFacts
<1>4. ASSUME NEW i \in Nat, i \in S PROVE i + 1 \in S
  <2>1. SUFFICES ASSUME i + 1 <= n PROVE V[i + 1] = v % Power[i + 1]
    OBVIOUS
  <2>2. V[i] = v % Power[i]
    BY <1>4, <2>1
  <2>3. i + 1 \in 1..n /\ (i + 1) - 1 = i
    BY <2>1
  <2>4. s[i + 1] = (v \div Power[i]) % Base
    BY <2>3 DEF ToBytes
  <2>5. V[i + 1] = V[i] + s[i + 1] * Power[i]
    <3> HIDE DEF s, V
    <3> QED
      BY <1>2, <2>3
  <2>6. Power[i] \in Nat /\ Power[i] > 0 /\ Power[i + 1] = Base * Power[i]
    BY PowerFacts
  <2>7. v % (Base * Power[i]) = (v % Power[i]) + ((v \div Power[i]) % Base) * Power[i]
    <3>1. \A p \in Nat : p > 0 => v % (Base * p) = (v % p) + ((v \div p) % Base) * p
      BY BaseIsNat, NextRemainder
    <3> QED
      BY <2>6, <3>1
  <2> HIDE DEF s, V
  <2> QED
    BY <2>2, <2>4, <2>5, <2>6, <2>7
<1>5. n \in S
  <2> HIDE DEF S
  <2> QED
    BY <1>3, <1>4, SetInduction
<1> QED
    BY <1>1, <1>5 DEF Unsigned

LEMMA UnsignedType ==
    ASSUME NEW s \in Bytes
    PROVE  Unsigned(s) \in Nat
<1>1. Len(s) \in 0..Len(s)
    BY DEF Bytes
<1> QED
    BY <1>1, ValueUpToFacts DEF Unsigned

\* int.from_bytes() gives back what int.to_bytes() took, sign and all.
LEMMA FromBytesInverts ==
    ASSUME NEW v \in Int, NEW n \in Nat, NEW signed \in BOOLEAN, Fits(v, n, signed)
    PROVE  FromBytes(ToBytes(v, n), signed) = v
<1> DEFINE p == Power[n]
<1>1. p \in Nat /\ p > 0
    BY PowerFacts
<1>2. Unsigned(ToBytes(v, n)) = v % p /\ Len(ToBytes(v, n)) = n
    BY ToBytesValue, ToBytesType
<1>3. FromBytes(ToBytes(v, n), signed) =
        IF signed /\ 2 * (v % p) >= p THEN (v % p) - p ELSE v % p
    BY <1>2 DEF FromBytes
<1>4. CASE v >= 0
  <2>1. v < p
    BY <1>1, <1>4 DEF Fits
  <2>2. v % p = v
    <3> HIDE DEF p
    <3> QED
      BY <1>1, <1>4, <2>1, DivisionIsUnique
  <2>3. signed => 2 * v < p
    BY DEF Fits
  <2> HIDE DEF p
  <2> QED
    BY <1>1, <1>3, <2>2, <2>3
<1>5. CASE v < 0
  <2>1. signed /\ -p <= 2 * v
    BY <1>5 DEF Fits
  <2> HIDE DEF p
  <2>2. v + p \in Nat /\ v + p < p
    BY <1>1, <1>5, <2>1
  <2>3. v = p * (-1) + (v + p)
    BY <1>1
  <2>4. v % p = v + p
    BY <1>1, <2>2, <2>3, DivisionIsUnique
  <2> QED
    BY <1>1, <1>3, <2>1, <2>4
<1> QED
    BY <1>4, <1>5

----------------------------------------------------------------------------
(* Reading from a stream of bytes.                                         *)

LEMMA BytesConcat ==
    ASSUME NEW a \in Bytes, NEW b \in Bytes
    PROVE  a \o b \in Bytes /\ Len(a \o b) = Len(a) + Len(b)
    BY ConcatProperties DEF Bytes

LEMMA ConcatAssoc ==
    ASSUME NEW a \in Bytes, NEW b \in Bytes, NEW c \in Bytes
    PROVE  (a \o b) \o c = a \o (b \o c)
    BY ConcatAssociative DEF Bytes

LEMMA NoBytes ==
    /\ <<>> \in Bytes /\ Len(<<>>) = 0
    /\ \A s \in Bytes : Len(s) \in Nat /\ <<>> \o s = s /\ s \o <<>> = s
    BY EmptySeq, ConcatEmptySeq DEF Bytes

LEMMA OneByte ==
    ASSUME NEW b \in Byte
    PROVE  <<b>> \in Bytes /\ Len(<<b>>) = 1 /\ <<b>>[1] = b
    BY DEF Bytes

LEMMA ReadInverts ==
    ASSUME NEW a \in Bytes, NEW rest \in Bytes
    PROVE  ReadExactly(Len(a), a \o rest) = Decoded(a, rest)
<1> DEFINE s == a \o rest
<1>1. Len(a) \in Nat /\ Len(rest) \in Nat /\ Len(s) = Len(a) + Len(rest) /\ s \in Bytes
    BY BytesConcat, NoBytes
<1>2. SubSeq(s, 1, Len(a)) = a
    BY DEF Bytes
<1>3. SubSeq(s, Len(a) + 1, Len(s)) = rest
    BY DEF Bytes
<1>4. ~ (Len(s) < Len(a))
    BY <1>1
<1> QED
    BY <1>2, <1>3, <1>4 DEF ReadExactly

LEMMA ReadType ==
    ASSUME NEW n \in Nat, NEW s \in Bytes
    PROVE  \/ ReadExactly(n, s) = Short
           \/ \E v, rest \in Bytes : Len(v) = n /\ ReadExactly(n, s) = Decoded(v, rest)
<1>1. SUFFICES ASSUME ~ (Len(s) < n)
      PROVE \E v, rest \in Bytes : Len(v) = n /\ ReadExactly(n, s) = Decoded(v, rest)
    BY DEF ReadExactly
<1> DEFINE v == SubSeq(s, 1, n)
           rest == SubSeq(s, n + 1, Len(s))
<1>2. Len(s) \in Nat /\ n <= Len(s)
    BY <1>1, NoBytes
<1>3. v \in Bytes /\ Len(v) = n
    BY <1>2 DEF Bytes
<1>4. rest \in Bytes
    BY <1>2 DEF Bytes
<1>5. ReadExactly(n, s) = Decoded(v, rest)
    BY <1>1 DEF ReadExactly
<1> HIDE DEF v, rest
<1> QED
    BY <1>3, <1>4, <1>5

----------------------------------------------------------------------------
(* Each codec reads back what it wrote, and only that, whatever follows.   *)

Encodings == [ok : BOOLEAN, bytes : Bytes]

IsResult(d, V) ==
    \/ d = Short
    \/ d = Unknown
    \/ \E v \in V, rest \in Bytes : d = Decoded(v, rest)

LEMMA DoneFacts ==
    ASSUME NEW s \in Bytes
    PROVE  Done(s) \in Encodings /\ Done(s).ok /\ Done(s).bytes = s
    BY DEF Done, Encodings

LEMMA ThenFacts ==
    ASSUME NEW a \in Encodings, NEW b \in Encodings
    PROVE  /\ Then(a, b) \in Encodings
           /\ Then(a, b).ok <=> a.ok /\ b.ok
           /\ Then(a, b).ok => Then(a, b).bytes = a.bytes \o b.bytes
<1>1. a.bytes \in Bytes /\ b.bytes \in Bytes /\ a.ok \in BOOLEAN /\ b.ok \in BOOLEAN
    BY DEF Encodings
<1>2. a.bytes \o b.bytes \in Bytes
    BY <1>1, BytesConcat
<1>3. CASE a.ok
    BY <1>1, <1>2, <1>3 DEF Then, Encodings
<1>4. CASE ~a.ok
    BY <1>4 DEF Then
<1> QED
    BY <1>3, <1>4

\* Encodings that were put together are read one after the other.
LEMMA ThenSplits ==
    ASSUME NEW a \in Encodings, NEW b \in Encodings, NEW rest \in Bytes, Then(a, b).ok
    PROVE  /\ a.ok /\ b.ok
           /\ a.bytes \in Bytes /\ b.bytes \o rest \in Bytes
           /\ Then(a, b).bytes \o rest = a.bytes \o (b.bytes \o rest)
<1>1. a.ok /\ b.ok /\ Then(a, b).bytes = a.bytes \o b.bytes
    BY ThenFacts
<1>2. a.bytes \in Bytes /\ b.bytes \in Bytes /\ b.bytes \o rest \in Bytes
    BY BytesConcat DEF Encodings
<1>3. (a.bytes \o b.bytes) \o rest = a.bytes \o (b.bytes \o rest)
    BY <1>2, ConcatAssoc
<1> QED
    BY <1>1, <1>2, <1>3

LEMMA EncodeIntType ==
    ASSUME NEW v \in Int, NEW n \in Nat, NEW signed \in BOOLEAN
    PROVE  /\ EncodeInt(v, n, signed) \in Encodings
           /\ EncodeInt(v, n, signed).ok <=> Fits(v, n, signed)
<1>1. CASE Fits(v, n, signed)
    BY <1>1, ToBytesType, DoneFacts DEF EncodeInt
<1>2. CASE ~Fits(v, n, signed)
    BY <1>2, NoBytes DEF EncodeInt, Error, Encodings
<1> QED
    BY <1>1, <1>2

LEMMA IntInverts ==
    ASSUME NEW v \in Int, NEW n \in Nat, NEW signed \in BOOLEAN, NEW rest \in Bytes,
           EncodeInt(v, n, signed).ok
    PROVE  DecodeInt(EncodeInt(v, n, signed).bytes \o rest, n, signed) = Decoded(v, rest)
<1> DEFINE s == ToBytes(v, n)
<1>1. Fits(v, n, signed)
    BY EncodeIntType
<1>2. EncodeInt(v, n, signed).bytes = s
    BY <1>1 DEF EncodeInt, Done
<1>3. s \in Bytes /\ Len(s) = n /\ FromBytes(s, signed) = v
    BY <1>1, ToBytesType, FromBytesInverts
<1> HIDE DEF s
<1>4. ReadExactly(n, s \o rest) = Decoded(s, rest)
    BY <1>3, ReadInverts
<1>5. DecodeInt(s \o rest, n, signed) = Decoded(FromBytes(s, signed), rest)
    BY <1>4 DEF DecodeInt, AfterOk, Decoded
<1> QED
    BY <1>2, <1>3, <1>5

LEMMA DecodeIntType ==
    ASSUME NEW s \in Bytes, NEW n \in Nat
    PROVE  IsResult(DecodeInt(s, n, FALSE), Nat)
<1> DEFINE d == ReadExactly(n, s)
<1>1. CASE d = Short
    BY <1>1 DEF DecodeInt, AfterOk, Short, IsResult
<1>2. CASE \E v, rest \in Bytes : d = Decoded(v, rest)
  <2>1. PICK v \in Bytes, rest \in Bytes : d = Decoded(v, rest)
    BY <1>2
  <2>2. FromBytes(v, FALSE) \in Nat
    BY UnsignedType DEF FromBytes
  <2>3. DecodeInt(s, n, FALSE) = Decoded(FromBytes(v, FALSE), rest)
    BY <2>1 DEF DecodeInt, AfterOk, Decoded
  <2> QED
    BY <2>2, <2>3 DEF IsResult
<1> QED
    BY <1>1, <1>2, ReadType

LEMMA UnsignedEncodes ==
    ASSUME NEW v \in Int, NEW n \in Nat
    PROVE  EncodeUnsigned(v, n) \in Encodings
    BY EncodeIntType DEF EncodeUnsigned

LEMMA UnsignedInverts ==
    ASSUME NEW v \in Int, NEW n \in Nat, NEW rest \in Bytes, EncodeUnsigned(v, n).ok
    PROVE  DecodeUnsigned(EncodeUnsigned(v, n).bytes \o rest, n) = Decoded(v, rest)
    BY IntInverts DEF EncodeUnsigned, DecodeUnsigned

LEMMA UnsignedDecodes ==
    ASSUME NEW s \in Bytes, NEW n \in Nat
    PROVE  IsResult(DecodeUnsigned(s, n), Nat)
    BY DecodeIntType DEF DecodeUnsigned

LEMMA EncodeBytesType ==
    ASSUME NEW s \in Bytes, NEW n \in Nat
    PROVE  EncodeBytes(s, n) \in Encodings
<1>1. EncodeUnsigned(Len(s), n) \in Encodings /\ Done(s) \in Encodings
    BY NoBytes, UnsignedEncodes, DoneFacts
<1>2. Then(EncodeUnsigned(Len(s), n), Done(s)) \in Encodings
    BY <1>1, ThenFacts
<1> QED
    BY <1>2 DEF EncodeBytes

LEMMA BytesInvert ==
    ASSUME NEW s \in Bytes, NEW n \in Nat, NEW rest \in Bytes, EncodeBytes(s, n).ok
    PROVE  DecodeBytes(EncodeBytes(s, n).bytes \o rest, n) = Decoded(s, rest)
<1> DEFINE len == EncodeUnsigned(Len(s), n)
<1>1. Len(s) \in Int /\ len \in Encodings /\ Done(s) \in Encodings /\ Done(s).bytes = s
    BY NoBytes, UnsignedEncodes, DoneFacts
<1>2. EncodeBytes(s, n) = Then(len, Done(s))
    BY DEF EncodeBytes
<1> HIDE DEF len
<1>3. Then(len, Done(s)).ok
    BY <1>2
<1>4. /\ len.ok /\ s \o rest \in Bytes
      /\ EncodeBytes(s, n).bytes \o rest = len.bytes \o (s \o rest)
  <2>1. /\ len.ok /\ Done(s).bytes \o rest \in Bytes
        /\ Then(len, Done(s)).bytes \o rest = len.bytes \o (Done(s).bytes \o rest)
    BY <1>1, <1>3, ThenSplits
  <2> QED
    BY <1>1, <1>2, <2>1
<1>5. DecodeUnsigned(len.bytes \o (s \o rest), n) = Decoded(Len(s), s \o rest)
    BY <1>1, <1>4, UnsignedInverts DEF len
<1>6. ReadExactly(Len(s), s \o rest) = Decoded(s, rest)
    BY ReadInverts
<1> QED
    BY <1>4, <1>5, <1>6 DEF DecodeBytes, AfterOk, Decoded

LEMMA DecodeBytesType ==
    ASSUME NEW s \in Bytes, NEW n \in Nat
    PROVE  IsResult(DecodeBytes(s, n), Bytes)
<1> DEFINE d == DecodeUnsigned(s, n)
<1>1. IsResult(d, Nat)
    BY UnsignedDecodes
<1>2. CASE d = Short \/ d = Unknown
    BY <1>2 DEF DecodeBytes, AfterOk, Short, Unknown, IsResult
<1>3. CASE \E v \in Nat, rest \in Bytes : d = Decoded(v, rest)
  <2>1. PICK v \in Nat, rest \in Bytes : d = Decoded(v, rest)
    BY <1>3
  <2>2. DecodeBytes(s, n) = ReadExactly(v, rest)
    BY <2>1 DEF DecodeBytes, AfterOk, Decoded
  <2> QED
    BY <2>2, ReadType DEF IsResult
<1> QED
    BY <1>1, <1>2, <1>3 DEF IsResult

LEMMA WidthsAreNat ==
    /\ ShortBytes \in Nat /\ IdBytes \in Nat
    /\ ErrorBytes \in Nat /\ DataBytes \in Nat
    BY BytesAssumption

LEMMA DataInverts ==
    ASSUME NEW d \in Data
    PROVE  /\ EncodeData(d) \in Encodings
           /\ EncodeData(d).ok => d \in Bytes
           /\ EncodeData(d).ok => \A rest \in Bytes :
                DecodeData(EncodeData(d).bytes \o rest) = Decoded(d, rest)
<1>1. CASE d = Unencodable
    BY <1>1, NoBytes DEF EncodeData, Error, Encodings
<1>2. CASE d # Unencodable
  <2>1. d \in Bytes /\ EncodeData(d) = EncodeBytes(d, DataBytes)
    BY <1>2 DEF Data, EncodeData
  <2> QED
    BY <2>1, WidthsAreNat, EncodeBytesType, BytesInvert DEF DecodeData
<1> QED
    BY <1>1, <1>2

LEMMA NameInverts ==
    ASSUME NEW s \in Bytes
    PROVE  /\ EncodeName(s) \in Encodings
           /\ EncodeName(s).ok => \A rest \in Bytes :
                DecodeName(EncodeName(s).bytes \o rest) = Decoded(s, rest)
    BY WidthsAreNat, EncodeBytesType, BytesInvert DEF EncodeName, DecodeName

LEMMA ItemInverts ==
    ASSUME NEW p \in Bytes \X Data
    PROVE  /\ EncodeItem(p) \in Encodings
           /\ EncodeItem(p).ok => p \in Bytes \X Bytes
           /\ EncodeItem(p).ok => \A rest \in Bytes :
                DecodeItem(EncodeItem(p).bytes \o rest) = Decoded(p, rest)
<1> DEFINE key == EncodeName(p[1])
           value == EncodeData(p[2])
<1>1. p[1] \in Bytes /\ p[2] \in Data /\ p = <<p[1], p[2]>>
    OBVIOUS
<1>2. key \in Encodings /\ value \in Encodings
    BY <1>1, NameInverts, DataInverts
<1>3. EncodeItem(p) = Then(key, value)
    BY DEF EncodeItem
<1>4. SUFFICES ASSUME EncodeItem(p).ok, NEW rest \in Bytes
      PROVE  /\ p[2] \in Bytes
             /\ DecodeItem(EncodeItem(p).bytes \o rest) = Decoded(p, rest)
  <2>1. EncodeItem(p) \in Encodings
    BY <1>2, <1>3, ThenFacts
  <2> QED
    BY <1>1, <2>1, NoBytes
<1>5. Then(key, value).ok
    BY <1>3, <1>4
<1>6. /\ key.ok /\ value.ok /\ value.bytes \o rest \in Bytes
      /\ EncodeItem(p).bytes \o rest = key.bytes \o (value.bytes \o rest)
  <2> HIDE DEF key, value
  <2>1. /\ key.ok /\ value.ok /\ value.bytes \o rest \in Bytes
        /\ Then(key, value).bytes \o rest = key.bytes \o (value.bytes \o rest)
    BY <1>2, <1>5, ThenSplits
  <2> QED
    BY <1>3, <2>1
<1>7. p[2] \in Bytes
    BY <1>1, <1>6, DataInverts
<1>9. DecodeName(key.bytes \o (value.bytes \o rest)) = Decoded(p[1], value.bytes \o rest)
    BY <1>1, <1>6, NameInverts
<1>10. DecodeData(value.bytes \o rest) = Decoded(p[2], rest)
    BY <1>1, <1>6, DataInverts
<1> HIDE DEF key, value
<1> DEFINE s == EncodeItem(p).bytes \o rest
           more == value.bytes \o rest
<1>11. DecodeItem(s) = Decoded(<<p[1], p[2]>>, rest)
  <2>1. DecodeName(s) = Decoded(p[1], more)
    BY <1>6, <1>9
  <2> HIDE DEF s, more
  <2>2. DecodeItem(s) = AfterOk(DecodeData(more), LAMBDA v :
                            Decoded(<<p[1], v.value>>, v.rest))
    BY <2>1 DEF DecodeItem, AfterOk, Decoded
  <2> QED
    BY <2>2, <1>10 DEF AfterOk, Decoded, more
<1> QED
    BY <1>1, <1>7, <1>11

LEMMA DecodeItemType ==
    ASSUME NEW s \in Bytes
    PROVE  IsResult(DecodeItem(s), Bytes \X Bytes)
<1> DEFINE d == DecodeName(s)
<1>1. IsResult(d, Bytes)
    BY WidthsAreNat, DecodeBytesType DEF DecodeName
<1>2. CASE d = Short \/ d = Unknown
    BY <1>2 DEF DecodeItem, AfterOk, Short, Unknown, IsResult
<1>3. CASE \E v \in Bytes, rest \in Bytes : d = Decoded(v, rest)
  <2>1. PICK key \in Bytes, rest \in Bytes : d = Decoded(key, rest)
    BY <1>3
  <2> DEFINE e == DecodeData(rest)
  <2>2. IsResult(e, Bytes)
    BY WidthsAreNat, DecodeBytesType DEF DecodeData
  <2>3. DecodeItem(s) = AfterOk(e, LAMBDA value : Decoded(<<key, value.value>>, value.rest))
    BY <2>1 DEF DecodeItem, AfterOk, Decoded
  <2>4. CASE e = Short \/ e = Unknown
    BY <2>3, <2>4 DEF AfterOk, Short, Unknown, IsResult
  <2>5. CASE \E v \in Bytes, r \in Bytes : e = Decoded(v, r)
    <3>1. PICK v \in Bytes, r \in Bytes : e = Decoded(v, r)
      BY <2>5
    <3>2. DecodeItem(s) = Decoded(<<key, v>>, r)
      BY <2>3, <3>1 DEF AfterOk, Decoded
    <3>3. <<key, v>> \in Bytes \X Bytes
      OBVIOUS
    <3> QED
      BY <3>2, <3>3 DEF IsResult
  <2> QED
    BY <2>2, <2>4, <2>5 DEF IsResult
<1> QED
    BY <1>1, <1>2, <1>3 DEF IsResult

----------------------------------------------------------------------------
(* A number of parts, one after the other.                                 *)

LEMMA EncodedUpToFacts ==
    ASSUME NEW parts \in Seq(Encodings)
    PROVE  /\ EncodedUpTo(parts) \in [0..Len(parts) -> Encodings]
           /\ EncodedUpTo(parts)[0] = EncodeUnsigned(Len(parts), ShortBytes)
           /\ \A i \in 1..Len(parts) :
                EncodedUpTo(parts)[i] = Then(EncodedUpTo(parts)[i - 1], parts[i])
<1> DEFINE N == Len(parts)
           first == EncodeUnsigned(N, ShortBytes)
           step == [p \in Nat \X Encodings |->
                      IF p[1] \in 1..N THEN Then(p[2], parts[p[1]]) ELSE p[2]]
           Stepped(g) == [i \in 0..N |-> IF i = 0 THEN first ELSE step[<<i, g[i - 1]>>]]
           Whole(g) == [i \in 0..N |-> IF i = 0 THEN first ELSE Then(g[i - 1], parts[i])]
<1>1. N \in Nat /\ \A i \in 1..N : parts[i] \in Encodings
    OBVIOUS
<1>2. first \in Encodings
    BY <1>1, WidthsAreNat, UnsignedEncodes
<1>3. step \in [Nat \X Encodings -> Encodings]
  <2>1. \A i \in 1..N, e \in Encodings : Then(e, parts[i]) \in Encodings
    BY <1>1, ThenFacts
  <2> HIDE DEF N
  <2> QED
    BY <2>1
<1>4. PICK f \in [0..N -> Encodings] : IsRecursion(f, N, first, step)
  <2> HIDE DEF N, first, step
  <2> QED
    BY <1>1, <1>2, <1>3, RecursionUpTo
<1>5. f = Whole(f)
  <2>1. ASSUME NEW i \in 0..N PROVE Stepped(f)[i] = Whole(f)[i]
    <3> HIDE DEF N, first, step
    <3>1. i # 0 => i \in 1..N /\ i \in Nat /\ i - 1 \in 0..N /\ f[i - 1] \in Encodings
      BY <1>1, <1>4
    <3> USE DEF step
    <3> QED
      BY <3>1
  <2>2. Stepped(f) = Whole(f)
    BY <2>1
  <2> HIDE DEF step, first
  <2> QED
    BY <2>2, <1>4 DEF IsRecursion
<1>6. EncodedUpTo(parts) = CHOOSE g : g = Whole(g)
    BY DEF EncodedUpTo
<1>7. EncodedUpTo(parts) = Whole(EncodedUpTo(parts))
  <2> HIDE DEF Whole
  <2> QED
    BY <1>5, <1>6
<1> DEFINE E == EncodedUpTo(parts)
<1> HIDE DEF E, first
<1>8. E[0] = first /\ \A i \in 1..N : E[i] = Then(E[i - 1], parts[i])
    BY <1>1, <1>7 DEF E
<1> DEFINE Typed == {i \in Nat : i <= N => E[i] \in Encodings}
<1>9. 0 \in Typed
    BY <1>2, <1>8
<1>10. ASSUME NEW i \in Nat, i \in Typed PROVE i + 1 \in Typed
  <2>1. SUFFICES ASSUME i + 1 <= N PROVE E[i + 1] \in Encodings
    OBVIOUS
  <2> HIDE DEF N
  <2>2. i + 1 \in 1..N /\ (i + 1) - 1 = i /\ E[i] \in Encodings
    BY <1>1, <1>10, <2>1
  <2>3. E[i + 1] = Then(E[i], parts[i + 1]) /\ parts[i + 1] \in Encodings
    BY <1>1, <1>8, <2>2
  <2>4. Then(E[i], parts[i + 1]) \in Encodings
    BY <2>2, <2>3, ThenFacts
  <2> QED
    BY <2>3, <2>4
<1>11. \A i \in Nat : i \in Typed
  <2> HIDE DEF Typed
  <2> QED
    BY <1>9, <1>10, SetInduction
<1>12. E \in [0..N -> Encodings]
  <2> HIDE DEF N
  <2>1. \A i \in 0..N : E[i] \in Encodings
    BY <1>1, <1>11
  <2>2. E = [i \in 0..N |-> E[i]]
    BY <1>7 DEF E
  <2> QED
    BY <2>1, <2>2
<1> QED
    BY <1>8, <1>12 DEF E, first

\* What decoding a number of parts may make of bytes, the parts being in V.
Partial(V) == [end : {"ok", "short", "unknown"}, value : Seq(V), rest : Bytes]

PartSet(items) == IF items THEN Bytes \X Bytes ELSE Bytes

LEMMA DecodePartType ==
    ASSUME NEW s \in Bytes, NEW items \in BOOLEAN
    PROVE  IsResult(DecodePart(s, items), PartSet(items))
<1>1. IsResult(DecodeData(s), Bytes)
    BY WidthsAreNat, DecodeBytesType DEF DecodeData
<1>2. IsResult(DecodeItem(s), Bytes \X Bytes)
    BY DecodeItemType
<1>3. CASE items
    BY <1>2, <1>3 DEF DecodePart, PartSet
<1>4. CASE ~items
    BY <1>1, <1>4 DEF DecodePart, PartSet
<1> QED
    BY <1>3, <1>4

LEMMA DecodeNextType ==
    ASSUME NEW items \in BOOLEAN, NEW d \in Partial(PartSet(items))
    PROVE  DecodeNext(d, items) \in Partial(PartSet(items))
<1> DEFINE V == PartSet(items)
           e == DecodePart(d.rest, items)
<1>1. CASE d.end # "ok"
    BY <1>1 DEF DecodeNext, AfterOk
<1>2. CASE d.end = "ok"
  <2>1. d.rest \in Bytes /\ d.value \in Seq(V)
    BY DEF Partial
  <2>2. IsResult(e, V)
    BY <2>1, DecodePartType
  <2>3. DecodeNext(d, items) =
            AfterOk(e, LAMBDA last : Decoded(Append(d.value, last.value), last.rest))
    BY <1>2 DEF DecodeNext, AfterOk
  <2> HIDE DEF V, e
  <2>4. CASE e = Short \/ e = Unknown
    <3>1. DecodeNext(d, items) = e
      BY <2>3, <2>4 DEF AfterOk, Short, Unknown
    <3>2. <<>> \in Seq(V)
      BY EmptySeq
    <3>3. Short \in Partial(V) /\ Unknown \in Partial(V)
      BY <3>2, NoBytes DEF Partial, Short, Unknown
    <3> QED
      BY <2>4, <3>1, <3>3 DEF V
  <2>5. CASE \E v \in V, rest \in Bytes : e = Decoded(v, rest)
    <3>1. PICK v \in V, rest \in Bytes : e = Decoded(v, rest)
      BY <2>5
    <3>2. DecodeNext(d, items) = Decoded(Append(d.value, v), rest)
      BY <2>3, <3>1 DEF AfterOk, Decoded
    <3>3. Append(d.value, v) \in Seq(V)
      BY <2>1, AppendProperties
    <3>4. Decoded(Append(d.value, v), rest) \in Partial(V)
      BY <3>3 DEF Partial, Decoded
    <3> QED
      BY <3>2, <3>4 DEF V
  <2> QED
    BY <2>2, <2>4, <2>5 DEF IsResult
<1> QED
    BY <1>1, <1>2

LEMMA DecodedUpToFacts ==
    ASSUME NEW s \in Bytes, NEW n \in Nat, NEW items \in BOOLEAN
    PROVE  /\ DecodedUpTo(s, n, items)[0] = Decoded(<<>>, s)
           /\ \A i \in 1..n : DecodedUpTo(s, n, items)[i] =
                                DecodeNext(DecodedUpTo(s, n, items)[i - 1], items)
<1> DEFINE S == Partial(PartSet(items))
           first == Decoded(<<>>, s)
           step == [p \in Nat \X S |-> DecodeNext(p[2], items)]
           Stepped(g) == [i \in 0..n |-> IF i = 0 THEN first ELSE step[<<i, g[i - 1]>>]]
           Whole(g) == [i \in 0..n |-> IF i = 0 THEN first ELSE DecodeNext(g[i - 1], items)]
<1>1. first \in S
    BY EmptySeq DEF Partial, Decoded
<1>2. step \in [Nat \X S -> S]
  <2>1. \A d \in S : DecodeNext(d, items) \in S
    BY DecodeNextType
  <2> HIDE DEF S
  <2> QED
    BY <2>1
<1> HIDE DEF S, first
<1>3. PICK f \in [0..n -> S] : IsRecursion(f, n, first, step)
  <2> HIDE DEF step
  <2> QED
    BY <1>1, <1>2, RecursionUpTo
<1>4. f = Whole(f)
  <2>1. ASSUME NEW i \in 0..n PROVE Stepped(f)[i] = Whole(f)[i]
    <3>1. i # 0 => i \in Nat /\ i - 1 \in 0..n /\ f[i - 1] \in S
      BY <1>3
    <3> QED
      BY <3>1
  <2>2. Stepped(f) = Whole(f)
    BY <2>1
  <2> HIDE DEF step
  <2> QED
    BY <2>2, <1>3 DEF IsRecursion
<1>5. DecodedUpTo(s, n, items) = CHOOSE g : g = Whole(g)
    BY DEF DecodedUpTo, first
<1>6. DecodedUpTo(s, n, items) = Whole(DecodedUpTo(s, n, items))
  <2> HIDE DEF Whole
  <2> QED
    BY <1>4, <1>5
<1> DEFINE D == DecodedUpTo(s, n, items)
<1> HIDE DEF D
<1>7. D[0] = first /\ \A i \in 1..n : D[i] = DecodeNext(D[i - 1], items)
    BY <1>6 DEF D
<1> QED
    BY <1>7 DEF D, first

LEMMA CancelLeft ==
    ASSUME NEW a \in Bytes, NEW b \in Bytes, NEW c \in Bytes, a \o b = a \o c
    PROVE  b = c
    BY ConcatSimplifications DEF Bytes

LEMMA GrowPrefix ==
    ASSUME NEW W, NEW q \in Seq(W), NEW i \in Nat, i + 1 <= Len(q)
    PROVE  Append(SubSeq(q, 1, i), q[i + 1]) = SubSeq(q, 1, i + 1)
<1>1. i + 1 \in 1..Len(q) /\ 1 \in 1..Len(q) /\ i + 1 \in 1..(i + 1)
    OBVIOUS
<1>2. SubSeq(q, 1, i + 1) = SubSeq(q, 1, i) \o <<q[i + 1]>>
    BY <1>1, SubSeqRecursiveSecond
<1>3. SubSeq(q, 1, i) \in Seq(W) /\ q[i + 1] \in W
    BY <1>1
<1>4. Append(SubSeq(q, 1, i), q[i + 1]) = SubSeq(q, 1, i) \o <<q[i + 1]>>
    BY <1>3, AppendIsConcat
<1> QED
    BY <1>2, <1>4

\* If each part is read back, then so are all of them.
LEMMA AllInvert ==
    ASSUME NEW W, NEW q \in Seq(W), NEW items \in BOOLEAN,
           NEW parts \in Seq(Encodings), Len(parts) = Len(q),
           \A i \in 1..Len(q) : parts[i].ok => \A r \in Bytes :
                DecodePart(parts[i].bytes \o r, items) = Decoded(q[i], r),
           EncodeAll(parts).ok, NEW rest \in Bytes
    PROVE  /\ \A i \in 1..Len(q) : parts[i].ok
           /\ DecodeAll(EncodeAll(parts).bytes \o rest, items) = Decoded(q, rest)
<1> DEFINE n == Len(q)
           E == EncodedUpTo(parts)
           s == E[n].bytes \o rest
           Rest(i, r) == r \in Bytes /\ s = E[i].bytes \o r
<1>1. n \in Nat /\ \A i \in 1..n : parts[i] \in Encodings
    OBVIOUS
<1>2. /\ \A i \in 0..n : E[i] \in Encodings
      /\ E[0] = EncodeUnsigned(n, ShortBytes)
      /\ \A i \in 1..n : E[i] = Then(E[i - 1], parts[i])
    BY EncodedUpToFacts
<1>3. E[n] = EncodeAll(parts) /\ E[n].ok
    BY DEF EncodeAll
<1>4. n \in 0..n /\ 0 \in 0..n
    BY <1>1
<1>5. s \in Bytes
  <2>1. E[n].bytes \in Bytes
    BY <1>2, <1>4 DEF Encodings
  <2> QED
    BY <2>1, BytesConcat
<1> HIDE DEF n, E, s
\* From the end: each part was written, and what follows is left.
<1> DEFINE Written == {k \in Nat : k <= n =>
                          E[n - k].ok /\ \E r \in Bytes : s = E[n - k].bytes \o r}
<1>6. 0 \in Written
  <2>1. n - 0 = n /\ s = E[n].bytes \o rest
    BY <1>1 DEF s
  <2> QED
    BY <1>3, <2>1
<1>7. ASSUME NEW k \in Nat, k \in Written, k + 1 <= n
      PROVE  /\ E[n - (k + 1)].ok /\ parts[n - k].ok
             /\ \E r \in Bytes : s = E[n - (k + 1)].bytes \o r
  <2> DEFINE i == n - (k + 1)
  <2>1. i \in 0..n /\ i + 1 \in 1..n /\ n - k = i + 1 /\ (i + 1) - 1 = i
    BY <1>1, <1>7
  <2> HIDE DEF i
  <2>2. E[i + 1].ok
    BY <1>1, <1>7, <2>1
  <2>3. PICK r \in Bytes : s = E[i + 1].bytes \o r
    BY <1>1, <1>7, <2>1
  <2>4. E[i + 1] = Then(E[i], parts[i + 1])
    BY <1>2, <2>1
  <2>5. E[i] \in Encodings /\ parts[i + 1] \in Encodings
    BY <1>1, <1>2, <2>1
  <2>6. Then(E[i], parts[i + 1]).ok
    BY <2>2, <2>4
  <2>7. /\ E[i].ok /\ parts[i + 1].ok /\ parts[i + 1].bytes \o r \in Bytes
        /\ Then(E[i], parts[i + 1]).bytes \o r = E[i].bytes \o (parts[i + 1].bytes \o r)
    BY <2>5, <2>6, ThenSplits
  <2>8. s = E[i].bytes \o (parts[i + 1].bytes \o r)
    BY <2>3, <2>4, <2>7
  <2>9. E[i].ok /\ parts[i + 1].ok /\ \E t \in Bytes : s = E[i].bytes \o t
    BY <2>7, <2>8
  <2> QED
    BY <2>1, <2>9 DEF i
<1>8. \A k \in Nat : k \in Written
  <2>1. ASSUME NEW k \in Nat, k \in Written PROVE k + 1 \in Written
    <3>1. k + 1 \in Nat
      OBVIOUS
    <3>2. ASSUME k + 1 <= n
          PROVE  E[n - (k + 1)].ok /\ \E r \in Bytes : s = E[n - (k + 1)].bytes \o r
      <4> HIDE DEF Written
      <4> QED
        BY <1>7, <2>1, <3>2
    <3> QED
      BY <3>1, <3>2
  <2> HIDE DEF Written
  <2> QED
    BY <1>6, <2>1, SetInduction
<1>9. \A i \in 1..n : parts[i].ok
  <2>1. SUFFICES ASSUME NEW i \in 1..n PROVE parts[i].ok
    OBVIOUS
  <2>2. n - i \in Nat /\ (n - i) + 1 <= n /\ n - (n - i) = i
    BY <1>1
  <2> HIDE DEF Written
  <2>3. n - i \in Written
    BY <1>8, <2>2
  <2>4. parts[n - (n - i)].ok
    BY <1>7, <2>2, <2>3
  <2> QED
    BY <2>2, <2>4
<1>10. ASSUME NEW i \in 0..n PROVE \E r \in Bytes : s = E[i].bytes \o r
  <2>1. n - i \in Nat /\ n - i <= n /\ n - (n - i) = i
    BY <1>1
  <2>2. \E r \in Bytes : s = E[n - (n - i)].bytes \o r
    BY <1>8, <2>1
  <2> QED
    BY <2>1, <2>2
\* The number of parts comes first.
<1>11. PICK after \in Bytes : s = E[0].bytes \o after
    BY <1>4, <1>10
<1>12. DecodeUnsigned(s, ShortBytes) = Decoded(n, after)
  <2>1. E[0].ok
    <3>1. n - n = 0 /\ n <= n
      BY <1>1
    <3>2. E[n - n].ok
      BY <1>1, <1>8, <3>1
    <3> QED
      BY <3>1, <3>2
  <2>2. EncodeUnsigned(n, ShortBytes).ok
    BY <1>2, <2>1
  <2>3. DecodeUnsigned(EncodeUnsigned(n, ShortBytes).bytes \o after, ShortBytes) = Decoded(n, after)
    BY <1>1, <2>2, WidthsAreNat, UnsignedInverts
  <2> QED
    BY <1>2, <1>11, <2>3
\* From the start: each part is read.
<1> DEFINE D == DecodedUpTo(after, n, items)
<1>13. D[0] = Decoded(<<>>, after) /\ \A i \in 1..n : D[i] = DecodeNext(D[i - 1], items)
    BY <1>1, DecodedUpToFacts
<1> HIDE DEF D
<1> DEFINE Read == {i \in Nat : i <= n => \E r \in Bytes :
                      s = E[i].bytes \o r /\ D[i] = Decoded(SubSeq(q, 1, i), r)}
<1>14. 0 \in Read
  <2>1. SubSeq(q, 1, 0) = <<>>
    BY SubSeqEmpty
  <2> QED
    BY <1>11, <1>13, <2>1
<1>15. ASSUME NEW i \in Nat, i \in Read PROVE i + 1 \in Read
  <2>1. SUFFICES ASSUME i + 1 <= n
        PROVE \E r \in Bytes :
                s = E[i + 1].bytes \o r /\ D[i + 1] = Decoded(SubSeq(q, 1, i + 1), r)
    OBVIOUS
  <2>2. i \in 0..n /\ i + 1 \in 1..n /\ i + 1 \in 0..n /\ (i + 1) - 1 = i
    BY <1>1, <2>1
  <2>3. PICK r \in Bytes : s = E[i].bytes \o r /\ D[i] = Decoded(SubSeq(q, 1, i), r)
    BY <1>15, <2>2
  <2>4. PICK t \in Bytes : s = E[i + 1].bytes \o t
    BY <1>10, <2>2
  <2>5. E[i + 1] = Then(E[i], parts[i + 1])
    BY <1>2, <2>2
  <2>6. E[i] \in Encodings /\ parts[i + 1] \in Encodings /\ parts[i + 1].ok
    BY <1>1, <1>2, <1>9, <2>2
  <2>7. E[i + 1].ok
    <3>1. n - (i + 1) \in Nat /\ n - (i + 1) <= n /\ n - (n - (i + 1)) = i + 1
      BY <1>1, <2>1
    <3>2. E[n - (n - (i + 1))].ok
      BY <1>8, <3>1
    <3> QED
      BY <3>1, <3>2
  <2>8. Then(E[i], parts[i + 1]).ok
    BY <2>5, <2>7
  <2>9. /\ E[i].bytes \in Bytes /\ parts[i + 1].bytes \o t \in Bytes
        /\ Then(E[i], parts[i + 1]).bytes \o t = E[i].bytes \o (parts[i + 1].bytes \o t)
    BY <2>6, <2>8, ThenSplits
  <2>10. E[i].bytes \o r = E[i].bytes \o (parts[i + 1].bytes \o t)
    BY <2>3, <2>4, <2>5, <2>9
  <2>11. r = parts[i + 1].bytes \o t
    BY <2>9, <2>10, CancelLeft
  <2>12. DecodePart(r, items) = Decoded(q[i + 1], t)
    <3>1. DecodePart(parts[i + 1].bytes \o t, items) = Decoded(q[i + 1], t)
      BY <2>2, <2>6 DEF n
    <3> QED
      BY <2>11, <3>1
  <2>13. D[i + 1] = DecodeNext(D[i], items)
    BY <1>13, <2>2
  <2>14. D[i + 1] = Decoded(Append(SubSeq(q, 1, i), q[i + 1]), t)
    <3> DEFINE before == SubSeq(q, 1, i)
    <3> HIDE DEF before
    <3>1. DecodeNext(Decoded(before, r), items) =
            AfterOk(DecodePart(r, items), LAMBDA last :
                Decoded(Append(before, last.value), last.rest))
      BY DEF DecodeNext, AfterOk, Decoded
    <3>2. DecodeNext(Decoded(before, r), items) = Decoded(Append(before, q[i + 1]), t)
      BY <2>12, <3>1 DEF AfterOk, Decoded
    <3> QED
      BY <2>3, <2>13, <3>2 DEF before
  <2>15. Append(SubSeq(q, 1, i), q[i + 1]) = SubSeq(q, 1, i + 1)
    BY <2>1, GrowPrefix DEF n
  <2> QED
    BY <2>4, <2>14, <2>15
<1>16. n \in Read
  <2> HIDE DEF Read
  <2> QED
    BY <1>1, <1>14, <1>15, SetInduction
<1>17. D[n] = Decoded(q, rest)
  <2>1. PICK r \in Bytes : s = E[n].bytes \o r /\ D[n] = Decoded(SubSeq(q, 1, n), r)
    BY <1>1, <1>16
  <2>2. E[n].bytes \in Bytes
    BY <1>2, <1>4 DEF Encodings
  <2>3. r = rest
    BY <2>1, <2>2, CancelLeft DEF s
  <2>4. SubSeq(q, 1, n) = q
    BY SubSeqFull DEF n
  <2> QED
    BY <2>1, <2>3, <2>4
<1>18. DecodeAll(s, items) = D[n]
    BY <1>12 DEF DecodeAll, AfterOk, Decoded, D
<1>19. s = EncodeAll(parts).bytes \o rest
    BY <1>3 DEF s
<1> QED
    BY <1>9, <1>17, <1>18, <1>19 DEF n

LEMMA EncodeAllType ==
    ASSUME NEW parts \in Seq(Encodings)
    PROVE  EncodeAll(parts) \in Encodings
<1>1. Len(parts) \in 0..Len(parts)
    OBVIOUS
<1> QED
    BY <1>1, EncodedUpToFacts DEF EncodeAll

----------------------------------------------------------------------------
(* Messages, requests and responses.                                       *)

LEMMA SequenceInverts ==
    ASSUME NEW q \in Seq(Data)
    PROVE  /\ EncodeSequence(q) \in Encodings
           /\ EncodeSequence(q).ok => \A rest \in Bytes :
                DecodeSequence(EncodeSequence(q).bytes \o rest) = Decoded(q, rest)
<1> DEFINE parts == [i \in DOMAIN q |-> EncodeData(q[i])]
<1>1. \A i \in 1..Len(q) : q[i] \in Data /\ EncodeData(q[i]) \in Encodings
    BY DataInverts
<1>2. /\ parts \in Seq(Encodings) /\ Len(parts) = Len(q)
      /\ \A i \in 1..Len(q) : parts[i] = EncodeData(q[i])
    BY <1>1
<1>3. EncodeSequence(q) = EncodeAll(parts)
    BY DEF EncodeSequence
<1> HIDE DEF parts
<1>4. EncodeAll(parts) \in Encodings
    BY <1>2, EncodeAllType
<1>5. \A i \in 1..Len(q) : parts[i].ok => \A r \in Bytes :
            DecodePart(parts[i].bytes \o r, FALSE) = Decoded(q[i], r)
    BY <1>1, <1>2, DataInverts DEF DecodePart
<1>6. ASSUME EncodeAll(parts).ok, NEW rest \in Bytes
      PROVE DecodeAll(EncodeAll(parts).bytes \o rest, FALSE) = Decoded(q, rest)
    BY <1>2, <1>5, <1>6, AllInvert
<1> QED
    BY <1>3, <1>4, <1>6 DEF DecodeSequence

LEMMA DictInverts ==
    ASSUME NEW q \in Seq(Bytes \X Data)
    PROVE  /\ EncodeDict(q) \in Encodings
           /\ EncodeDict(q).ok => \A rest \in Bytes :
                DecodeDict(EncodeDict(q).bytes \o rest) = Decoded(q, rest)
<1> DEFINE parts == [i \in DOMAIN q |-> EncodeItem(q[i])]
<1>1. \A i \in 1..Len(q) : q[i] \in Bytes \X Data /\ EncodeItem(q[i]) \in Encodings
    BY ItemInverts
<1>2. /\ parts \in Seq(Encodings) /\ Len(parts) = Len(q)
      /\ \A i \in 1..Len(q) : parts[i] = EncodeItem(q[i])
    BY <1>1
<1>3. EncodeDict(q) = EncodeAll(parts)
    BY DEF EncodeDict
<1> HIDE DEF parts
<1>4. EncodeAll(parts) \in Encodings
    BY <1>2, EncodeAllType
<1>5. \A i \in 1..Len(q) : parts[i].ok => \A r \in Bytes :
            DecodePart(parts[i].bytes \o r, TRUE) = Decoded(q[i], r)
    BY <1>1, <1>2, ItemInverts DEF DecodePart
<1>6. ASSUME EncodeAll(parts).ok, NEW rest \in Bytes
      PROVE DecodeAll(EncodeAll(parts).bytes \o rest, TRUE) = Decoded(q, rest)
    BY <1>2, <1>5, <1>6, AllInvert
<1> QED
    BY <1>3, <1>4, <1>6 DEF DecodeDict

LEMMA MessageFields ==
    ASSUME NEW f \in Messages
    PROVE  /\ f.prefix \in {1, 2} /\ f.id \in Nat /\ f.name \in Bytes
           /\ f.args \in Seq(Data) /\ f.kwargs \in Seq(Bytes \X Data)
           /\ f = [prefix |-> f.prefix, id |-> f.id, name |-> f.name,
                   args |-> f.args, kwargs |-> f.kwargs]
    BY DEF Messages

LEMMA BodyInverts ==
    ASSUME NEW f \in Messages
    PROVE  /\ EncodeMessage(f) \in Encodings
           /\ EncodeMessage(f).ok => \A rest \in Bytes :
                DecodeBody(f.prefix, f.id, EncodeMessage(f).bytes \o rest) = Decoded(f, rest)
<1> DEFINE name == EncodeName(f.name)
           args == EncodeSequence(f.args)
           kwargs == EncodeDict(f.kwargs)
<1>1. name \in Encodings /\ args \in Encodings /\ kwargs \in Encodings
    BY MessageFields, NameInverts, SequenceInverts, DictInverts
<1>2. EncodeMessage(f) = Then(name, Then(args, kwargs))
    BY DEF EncodeMessage, EncodeArguments
<1>3. ASSUME name.ok, NEW r \in Bytes
      PROVE DecodeName(name.bytes \o r) = Decoded(f.name, r)
    BY <1>3, MessageFields, NameInverts
<1>4. ASSUME args.ok, NEW r \in Bytes
      PROVE DecodeSequence(args.bytes \o r) = Decoded(f.args, r)
    BY <1>4, MessageFields, SequenceInverts
<1>5. ASSUME kwargs.ok, NEW r \in Bytes
      PROVE DecodeDict(kwargs.bytes \o r) = Decoded(f.kwargs, r)
    BY <1>5, MessageFields, DictInverts
<1> HIDE DEF name, args, kwargs
<1>6. Then(args, kwargs) \in Encodings
    BY <1>1, ThenFacts
<1>7. Then(name, Then(args, kwargs)) \in Encodings
    BY <1>1, <1>6, ThenFacts
<1>8. ASSUME Then(name, Then(args, kwargs)).ok, NEW rest \in Bytes
      PROVE DecodeBody(f.prefix, f.id, Then(name, Then(args, kwargs)).bytes \o rest)
                = Decoded(f, rest)
  <2> DEFINE r2 == kwargs.bytes \o rest
             r1 == Then(args, kwargs).bytes \o rest
             r0 == Then(name, Then(args, kwargs)).bytes \o rest
  <2>1. name.ok /\ Then(args, kwargs).ok /\ r1 \in Bytes /\ r0 = name.bytes \o r1
    BY <1>1, <1>6, <1>8, ThenSplits
  <2>2. args.ok /\ kwargs.ok /\ r2 \in Bytes /\ r1 = args.bytes \o r2
    BY <1>1, <2>1, ThenSplits
  <2>3. DecodeDict(r2) = Decoded(f.kwargs, rest)
    BY <1>5, <2>2
  <2> HIDE DEF r0, r1, r2
  <2>4. DecodeName(r0) = Decoded(f.name, r1)
    BY <1>3, <2>1
  <2>5. DecodeSequence(r1) = Decoded(f.args, r2)
    BY <1>4, <2>2
  <2>6. DecodeBody(f.prefix, f.id, r0) =
            Decoded([prefix |-> f.prefix, id |-> f.id, name |-> f.name,
                     args |-> f.args, kwargs |-> f.kwargs], rest)
    BY <2>3, <2>4, <2>5 DEF DecodeBody, AfterOk, Decoded
  <2> QED
    BY <2>6, MessageFields DEF r0
<1> QED
    BY <1>2, <1>7, <1>8

LEMMA PrefixIsRead ==
    ASSUME NEW b \in Byte, NEW s \in Bytes
    PROVE  ReadExactly(1, <<b>> \o s) = Decoded(<<b>>, s)
    BY OneByte, ReadInverts

LEMMA RequestInverts ==
    ASSUME NEW f \in Messages, f.prefix = RequestPrefix
    PROVE  /\ EncodeRequest(f) \in Encodings
           /\ EncodeRequest(f).ok => \A rest \in Bytes :
                DecodeRequest(EncodeRequest(f).bytes \o rest) = Decoded(f, rest)
<1> DEFINE id == EncodeUnsigned(f.id, IdBytes)
           body == EncodeMessage(f)
<1>1. f.id \in Nat /\ id \in Encodings /\ body \in Encodings
    BY MessageFields, WidthsAreNat, UnsignedEncodes, BodyInverts
<1>2. EncodeRequest(f) = Then(id, body)
    BY DEF EncodeRequest
<1>3. ASSUME id.ok, NEW r \in Bytes
      PROVE DecodeUnsigned(id.bytes \o r, IdBytes) = Decoded(f.id, r)
    BY <1>1, <1>3, WidthsAreNat, UnsignedInverts
<1>4. ASSUME body.ok, NEW r \in Bytes
      PROVE DecodeBody(f.prefix, f.id, body.bytes \o r) = Decoded(f, r)
    BY <1>4, BodyInverts
<1> HIDE DEF id, body
<1>5. Then(id, body) \in Encodings
    BY <1>1, ThenFacts
<1>6. ASSUME Then(id, body).ok, NEW rest \in Bytes
      PROVE DecodeRequest(Then(id, body).bytes \o rest) = Decoded(f, rest)
  <2> DEFINE r1 == body.bytes \o rest
             r0 == Then(id, body).bytes \o rest
  <2>1. id.ok /\ body.ok /\ r1 \in Bytes /\ r0 = id.bytes \o r1
    BY <1>1, <1>6, ThenSplits
  <2>2. DecodeBody(RequestPrefix, f.id, r1) = Decoded(f, rest)
    BY <1>4, <2>1
  <2> HIDE DEF r0, r1
  <2>3. DecodeUnsigned(r0, IdBytes) = Decoded(f.id, r1)
    BY <1>3, <2>1
  <2>4. DecodeRequest(r0) = DecodeBody(RequestPrefix, f.id, r1)
    BY <2>3 DEF DecodeRequest, AfterOk, Decoded
  <2> QED
    BY <2>2, <2>4 DEF r0
<1> QED
    BY <1>2, <1>5, <1>6

LEMMA PrefixesAreBytes == {MessagePrefix, RequestPrefix, Success, Failure} \subseteq Byte
    BY BaseIsNat DEF MessagePrefix, RequestPrefix, Success, Failure, Byte

\* A message or a request is decoded to what was encoded, and to its last byte,
\* whatever follows it: for all names, arguments, keywords and data, and widths
\* of any number of bytes (node/codec.py, topic/codec.py, service/codec.py).
THEOREM FrameInverts ==
    ASSUME NEW f \in Messages, f.prefix = 1 => f.id = 0
    PROVE  /\ EncodeFrame(f) \in Encodings
           /\ EncodeFrame(f).ok => \A rest \in Bytes :
                DecodeFrame(EncodeFrame(f).bytes \o rest) = Decoded(f, rest)
<1> DEFINE p == <<f.prefix>>
           body == IF f.prefix = MessagePrefix THEN EncodeMessage(f) ELSE EncodeRequest(f)
           Rest(s) == IF f.prefix = MessagePrefix THEN DecodeMessage(s) ELSE DecodeRequest(s)
<1>1. f.prefix \in {1, 2} /\ f.prefix \in Byte
    BY MessageFields, PrefixesAreBytes DEF MessagePrefix, RequestPrefix
<1>2. p \in Bytes /\ Done(p) \in Encodings /\ Done(p).bytes = p
    BY <1>1, OneByte, DoneFacts
<1>3. /\ body \in Encodings
      /\ body.ok => \A r \in Bytes : Rest(body.bytes \o r) = Decoded(f, r)
  <2>1. CASE f.prefix = 1
    <3>1. body = EncodeMessage(f) /\ f.id = 0
      BY <2>1 DEF MessagePrefix
    <3>2. \A s : Rest(s) = DecodeBody(f.prefix, f.id, s)
      BY <2>1, <3>1 DEF MessagePrefix, DecodeMessage
    <3> HIDE DEF body, Rest
    <3> QED
      BY <3>1, <3>2, BodyInverts
  <2>2. CASE f.prefix = 2
    <3>1. body = EncodeRequest(f) /\ f.prefix = RequestPrefix
      BY <2>2 DEF MessagePrefix, RequestPrefix
    <3>2. \A s : Rest(s) = DecodeRequest(s)
      BY <2>2 DEF MessagePrefix
    <3> HIDE DEF body, Rest
    <3> QED
      BY <3>1, <3>2, RequestInverts
  <2> QED
    BY <1>1, <2>1, <2>2
<1>4. EncodeFrame(f) = Then(Done(p), body)
    BY DEF EncodeFrame
<1>5. \A s : DecodeFrame(s) =
        IF ReadExactly(1, s).end = "ok"
        THEN CASE ReadExactly(1, s).value[1] = MessagePrefix -> DecodeMessage(ReadExactly(1, s).rest)
               [] ReadExactly(1, s).value[1] = RequestPrefix -> DecodeRequest(ReadExactly(1, s).rest)
               [] OTHER -> Unknown
        ELSE ReadExactly(1, s)
    BY DEF DecodeFrame, AfterOk
<1>6. ASSUME NEW s \in Bytes PROVE DecodeFrame(p \o s) = Rest(s)
  <2>1. ReadExactly(1, p \o s) = Decoded(p, s)
    BY <1>1, PrefixIsRead
  <2>2. p[1] = f.prefix
    OBVIOUS
  <2> HIDE DEF p
  <2>3. DecodeFrame(p \o s) =
            CASE f.prefix = MessagePrefix -> DecodeMessage(s)
              [] f.prefix = RequestPrefix -> DecodeRequest(s)
              [] OTHER -> Unknown
    BY <1>5, <2>1, <2>2 DEF Decoded
  <2> QED
    BY <1>1, <2>3 DEF MessagePrefix, RequestPrefix
<1> HIDE DEF p, body, Rest
<1>7. Then(Done(p), body) \in Encodings
    BY <1>2, <1>3, ThenFacts
<1>8. ASSUME Then(Done(p), body).ok, NEW rest \in Bytes
      PROVE DecodeFrame(Then(Done(p), body).bytes \o rest) = Decoded(f, rest)
  <2>1. /\ body.ok /\ body.bytes \o rest \in Bytes
        /\ Then(Done(p), body).bytes \o rest = Done(p).bytes \o (body.bytes \o rest)
    BY <1>2, <1>3, <1>8, ThenSplits
  <2>2. DecodeFrame(p \o (body.bytes \o rest)) = Rest(body.bytes \o rest)
    BY <1>6, <2>1
  <2>3. Rest(body.bytes \o rest) = Decoded(f, rest)
    BY <1>3, <2>1
  <2> QED
    BY <1>2, <2>1, <2>2, <2>3
<1> QED
    BY <1>4, <1>7, <1>8

LEMMA ResponseFields ==
    ASSUME NEW r \in Responses
    PROVE  /\ r.id \in Nat /\ r.result \in Data /\ r.error \in Bytes
           /\ r = [id |-> r.id, result |-> r.result, error |-> r.error]
    BY DEF Responses

\* So is a response, whether it has a result or an error (service/codec.py).
THEOREM AnswerInverts ==
    ASSUME NEW r \in Responses, r.error # <<>> => r.result = <<>>
    PROVE  /\ EncodeAnswer(r) \in Encodings
           /\ EncodeAnswer(r).ok => \A rest \in Bytes :
                DecodeAnswer(EncodeAnswer(r).bytes \o rest) = Decoded(r, rest)
<1> DEFINE id == EncodeUnsigned(r.id, IdBytes)
           status == IF r.error # <<>> THEN Failure ELSE Success
           body == IF r.error # <<>> THEN EncodeBytes(r.error, ErrorBytes) ELSE EncodeData(r.result)
           Rest(s) == DecodeRest(r.id, status, s, ErrorBytes)
           p == <<status>>
           end == Then(Done(p), body)
<1>1. r.id \in Nat /\ id \in Encodings
    BY ResponseFields, WidthsAreNat, UnsignedEncodes
<1>2. status \in Byte
    BY PrefixesAreBytes
<1>3. p \in Bytes /\ Done(p) \in Encodings /\ Done(p).bytes = p
    BY <1>2, OneByte, DoneFacts
<1>4. /\ body \in Encodings
      /\ body.ok => \A s \in Bytes : Rest(body.bytes \o s) = Decoded(r, s)
  <2>1. CASE r.error # <<>>
    <3>1. body = EncodeBytes(r.error, ErrorBytes) /\ r.error \in Bytes /\ r.result = <<>>
      BY <2>1, ResponseFields
    <3>2. status = Failure
      BY <2>1
    <3> HIDE DEF body, status
    <3>3. body \in Encodings
      BY <3>1, WidthsAreNat, EncodeBytesType
    <3>4. ASSUME body.ok, NEW s \in Bytes PROVE Rest(body.bytes \o s) = Decoded(r, s)
      <4> DEFINE t == body.bytes \o s
      <4>1. DecodeBytes(t, ErrorBytes) = Decoded(r.error, s)
        BY <3>1, <3>4, WidthsAreNat, BytesInvert
      <4> HIDE DEF t
      <4>2. Rest(t) = Decoded([id |-> r.id, result |-> <<>>, error |-> r.error], s)
        BY <3>2, <4>1 DEF DecodeRest, AfterOk, Decoded, Success, Failure
      <4> QED
        BY <3>1, <4>2, ResponseFields DEF t
    <3> QED
      BY <3>3, <3>4
  <2>2. CASE r.error = <<>>
    <3>1. body = EncodeData(r.result) /\ r.result \in Data
      BY <2>2, ResponseFields
    <3>2. status = Success
      BY <2>2
    <3> HIDE DEF body, status
    <3>3. body \in Encodings
      BY <3>1, DataInverts
    <3>4. ASSUME body.ok, NEW s \in Bytes PROVE Rest(body.bytes \o s) = Decoded(r, s)
      <4> DEFINE t == body.bytes \o s
      <4>1. DecodeData(t) = Decoded(r.result, s)
        BY <3>1, <3>4, DataInverts
      <4> HIDE DEF t
      <4>2. Rest(t) = Decoded([id |-> r.id, result |-> r.result, error |-> <<>>], s)
        BY <3>2, <4>1 DEF DecodeRest, AfterOk, Decoded, Success, Failure
      <4> QED
        BY <2>2, <4>2, ResponseFields DEF t
    <3> QED
      BY <3>3, <3>4
  <2> QED
    BY <2>1, <2>2
<1>5. EncodeAnswer(r) = Then(id, end)
    BY DEF EncodeAnswer
<1>6. ASSUME id.ok, NEW s \in Bytes
      PROVE DecodeUnsigned(id.bytes \o s, IdBytes) = Decoded(r.id, s)
    BY <1>1, <1>6, WidthsAreNat, UnsignedInverts
<1>7. ASSUME NEW s \in Bytes PROVE ReadExactly(1, p \o s) = Decoded(p, s) /\ p[1] = status
    BY <1>2, PrefixIsRead
<1> HIDE DEF id, status, body, Rest, p
<1>8. end \in Encodings
    BY <1>3, <1>4, ThenFacts
<1> HIDE DEF end
<1>9. Then(id, end) \in Encodings
    BY <1>1, <1>8, ThenFacts
<1>10. ASSUME Then(id, end).ok, NEW rest \in Bytes
       PROVE DecodeAnswer(Then(id, end).bytes \o rest) = Decoded(r, rest)
  <2> DEFINE r2 == body.bytes \o rest
             r1 == end.bytes \o rest
             r0 == Then(id, end).bytes \o rest
  <2>1. id.ok /\ end.ok /\ r1 \in Bytes /\ r0 = id.bytes \o r1
    BY <1>1, <1>8, <1>10, ThenSplits
  <2>2. Then(Done(p), body).ok /\ r1 = Then(Done(p), body).bytes \o rest
    BY <2>1 DEF end
  <2>3. body.ok /\ r2 \in Bytes /\ Then(Done(p), body).bytes \o rest = Done(p).bytes \o r2
    BY <1>3, <1>4, <2>2, ThenSplits
  <2>4. Rest(r2) = Decoded(r, rest)
    BY <1>4, <2>3
  <2>5. r1 = p \o r2
    BY <1>3, <2>2, <2>3
  <2> HIDE DEF r0, r1, r2
  <2>6. DecodeUnsigned(r0, IdBytes) = Decoded(r.id, r1)
    BY <1>6, <2>1
  <2>7. ReadExactly(1, r1) = Decoded(p, r2) /\ p[1] = status
    BY <1>7, <2>3, <2>5
  <2>8. DecodeResponse(r0, ErrorBytes) =
            AfterOk(ReadExactly(1, r1), LAMBDA st :
                DecodeRest(r.id, st.value[1], st.rest, ErrorBytes))
    BY <2>6 DEF DecodeResponse, AfterOk, Decoded
  <2>9. DecodeResponse(r0, ErrorBytes) = DecodeRest(r.id, status, r2, ErrorBytes)
    BY <2>7, <2>8 DEF AfterOk, Decoded
  <2> QED
    BY <2>4, <2>9 DEF DecodeAnswer, Rest, r0
<1> QED
    BY <1>5, <1>9, <1>10

\* What a response is once it is read.
Read == [id : Nat, result : Bytes, error : Bytes]

LEMMA DecodeAnswerType ==
    ASSUME NEW s \in Bytes
    PROVE  IsResult(DecodeAnswer(s), Read)
<1> DEFINE id == DecodeUnsigned(s, IdBytes)
           d == DecodeAnswer(s)
<1>1. d = AfterOk(id, LAMBDA i : AfterOk(ReadExactly(1, i.rest), LAMBDA status :
            DecodeRest(i.value, status.value[1], status.rest, ErrorBytes)))
    BY DEF DecodeAnswer, DecodeResponse
<1>2. IsResult(id, Nat)
    BY WidthsAreNat, UnsignedDecodes
<1> HIDE DEF d, id
<1>3. CASE id = Short \/ id = Unknown
    BY <1>1, <1>3 DEF AfterOk, Short, Unknown, IsResult, d
<1>4. CASE \E v \in Nat, r \in Bytes : id = Decoded(v, r)
  <2>1. PICK n \in Nat, r \in Bytes : id = Decoded(n, r)
    BY <1>4
  <2>2. d = AfterOk(ReadExactly(1, r), LAMBDA status :
                DecodeRest(n, status.value[1], status.rest, ErrorBytes))
    BY <1>1, <2>1 DEF AfterOk, Decoded
  <2>3. CASE ReadExactly(1, r) = Short
    BY <2>2, <2>3 DEF AfterOk, Short, IsResult, d
  <2>4. CASE \E v, t \in Bytes : ReadExactly(1, r) = Decoded(v, t)
    <3>1. PICK v \in Bytes, t \in Bytes : ReadExactly(1, r) = Decoded(v, t)
      BY <2>4
    <3>2. d = DecodeRest(n, v[1], t, ErrorBytes)
      BY <2>2, <3>1 DEF AfterOk, Decoded
    <3>3. CASE v[1] = Success
      <4> DEFINE e == DecodeData(t)
      <4>1. IsResult(e, Bytes)
        BY WidthsAreNat, DecodeBytesType DEF DecodeData
      <4>2. d = AfterOk(e, LAMBDA result :
                    Decoded([id |-> n, result |-> result.value, error |-> <<>>], result.rest))
        BY <3>2, <3>3 DEF DecodeRest, Success, Failure
      <4> HIDE DEF e
      <4>3. CASE e = Short \/ e = Unknown
        BY <4>2, <4>3 DEF AfterOk, Short, Unknown, IsResult, d
      <4>4. CASE \E b \in Bytes, u \in Bytes : e = Decoded(b, u)
        <5>1. PICK b \in Bytes, u \in Bytes : e = Decoded(b, u)
          BY <4>4
        <5>2. d = Decoded([id |-> n, result |-> b, error |-> <<>>], u)
          BY <4>2, <5>1 DEF AfterOk, Decoded
        <5>3. [id |-> n, result |-> b, error |-> <<>>] \in Read
          BY NoBytes DEF Read
        <5> QED
          BY <5>2, <5>3 DEF IsResult, d
      <4> QED
        BY <4>1, <4>3, <4>4 DEF IsResult
    <3>4. CASE v[1] = Failure
      <4> DEFINE e == DecodeBytes(t, ErrorBytes)
      <4>1. IsResult(e, Bytes)
        BY WidthsAreNat, DecodeBytesType
      <4>2. d = AfterOk(e, LAMBDA error :
                    Decoded([id |-> n, result |-> <<>>, error |-> error.value], error.rest))
        BY <3>2, <3>4 DEF DecodeRest, Success, Failure
      <4> HIDE DEF e
      <4>3. CASE e = Short \/ e = Unknown
        BY <4>2, <4>3 DEF AfterOk, Short, Unknown, IsResult, d
      <4>4. CASE \E b \in Bytes, u \in Bytes : e = Decoded(b, u)
        <5>1. PICK b \in Bytes, u \in Bytes : e = Decoded(b, u)
          BY <4>4
        <5>2. d = Decoded([id |-> n, result |-> <<>>, error |-> b], u)
          BY <4>2, <5>1 DEF AfterOk, Decoded
        <5>3. [id |-> n, result |-> <<>>, error |-> b] \in Read
          BY NoBytes DEF Read
        <5> QED
          BY <5>2, <5>3 DEF IsResult, d
      <4> QED
        BY <4>1, <4>3, <4>4 DEF IsResult
    <3>5. CASE v[1] # Success /\ v[1] # Failure
      BY <3>2, <3>5 DEF DecodeRest, IsResult, d
    <3> QED
      BY <3>3, <3>4, <3>5
  <2> QED
    BY <2>3, <2>4, ReadType
<1> QED
    BY <1>2, <1>3, <1>4 DEF IsResult, d

\* There is nothing to be read from an empty stream.
LEMMA NothingIsRead ==
    DecodeFrame(<<>>) = Short /\ DecodeAnswer(<<>>) = Short
<1>1. \A n \in Nat \ {0} : ReadExactly(n, <<>>) = Short
    BY NoBytes DEF ReadExactly
<1>2. ReadExactly(1, <<>>) = Short /\ ReadExactly(IdBytes, <<>>) = Short
    BY <1>1, BytesAssumption
<1>3. DecodeFrame(<<>>) = Short
    BY <1>2 DEF DecodeFrame, AfterOk, Short
<1>4. DecodeUnsigned(<<>>, IdBytes) = Short
  <2>1. ASSUME NEW signed \in BOOLEAN PROVE DecodeInt(<<>>, IdBytes, signed) = Short
    BY <1>2 DEF DecodeInt, AfterOk, Short
  <2> QED
    BY <2>1 DEF DecodeUnsigned
<1>5. DecodeAnswer(<<>>) = Short
    BY <1>4 DEF DecodeAnswer, DecodeResponse, AfterOk, Short
<1> QED
    BY <1>3, <1>5

----------------------------------------------------------------------------
(* What is refused.                                                        *)

IsShort(q) == Len(q) < Power[ShortBytes]

Encodes(d) == d # Unencodable /\ Len(d) < Power[DataBytes]

LEMMA UnsignedIsOk ==
    ASSUME NEW v \in Nat, NEW n \in Nat
    PROVE  EncodeUnsigned(v, n).ok <=> v < Power[n]
<1>1. ASSUME NEW signed \in BOOLEAN, signed = FALSE
      PROVE  EncodeInt(v, n, signed).ok <=> v < Power[n]
  <2>1. EncodeInt(v, n, signed).ok <=> Fits(v, n, signed)
    BY EncodeIntType
  <2> QED
    BY <1>1, <2>1 DEF Fits
<1> QED
    BY <1>1 DEF EncodeUnsigned

LEMMA BytesAreOk ==
    ASSUME NEW s \in Bytes, NEW n \in Nat
    PROVE  EncodeBytes(s, n).ok <=> Len(s) < Power[n]
<1>1. Len(s) \in Nat /\ EncodeUnsigned(Len(s), n) \in Encodings
      /\ Done(s) \in Encodings /\ Done(s).ok
    BY NoBytes, UnsignedEncodes, DoneFacts
<1>2. EncodeBytes(s, n).ok <=> EncodeUnsigned(Len(s), n).ok /\ Done(s).ok
    BY <1>1, ThenFacts DEF EncodeBytes
<1> QED
    BY <1>1, <1>2, UnsignedIsOk

LEMMA DataIsOk ==
    ASSUME NEW d \in Data
    PROVE  EncodeData(d).ok <=> Encodes(d)
<1>1. CASE d = Unencodable
    BY <1>1 DEF EncodeData, Error, Encodes
<1>2. CASE d # Unencodable
  <2>1. d \in Bytes /\ EncodeData(d) = EncodeBytes(d, DataBytes)
    BY <1>2 DEF Data, EncodeData
  <2>2. EncodeData(d).ok <=> Len(d) < Power[DataBytes]
    BY <2>1, WidthsAreNat, BytesAreOk
  <2> QED
    BY <1>2, <2>2 DEF Encodes
<1> QED
    BY <1>1, <1>2

LEMMA NameIsOk ==
    ASSUME NEW s \in Bytes
    PROVE  EncodeName(s).ok <=> IsShort(s)
    BY WidthsAreNat, BytesAreOk DEF EncodeName, IsShort

LEMMA ItemIsOk ==
    ASSUME NEW p \in Bytes \X Data
    PROVE  EncodeItem(p).ok <=> IsShort(p[1]) /\ Encodes(p[2])
<1>1. p[1] \in Bytes /\ p[2] \in Data
    OBVIOUS
<1>2. EncodeName(p[1]) \in Encodings /\ EncodeData(p[2]) \in Encodings
    BY <1>1, NameInverts, DataInverts
<1>3. EncodeItem(p).ok <=> EncodeName(p[1]).ok /\ EncodeData(p[2]).ok
    BY <1>2, ThenFacts DEF EncodeItem
<1> QED
    BY <1>1, <1>3, NameIsOk, DataIsOk

\* Parts are encoded when each of them is, and they are not too many.
LEMMA AllAreOk ==
    ASSUME NEW parts \in Seq(Encodings)
    PROVE  EncodeAll(parts).ok <=> IsShort(parts) /\ \A i \in 1..Len(parts) : parts[i].ok
<1> DEFINE N == Len(parts)
           E == EncodedUpTo(parts)
           S == {i \in Nat : i <= N =>
                    (E[i].ok <=> IsShort(parts) /\ \A j \in 1..i : parts[j].ok)}
<1>1. N \in Nat /\ \A i \in 1..N : parts[i] \in Encodings
    OBVIOUS
<1>2. /\ E \in [0..N -> Encodings]
      /\ E[0] = EncodeUnsigned(N, ShortBytes)
      /\ \A i \in 1..N : E[i] = Then(E[i - 1], parts[i])
    BY EncodedUpToFacts
<1>3. E[0].ok <=> IsShort(parts)
    BY <1>1, <1>2, WidthsAreNat, UnsignedIsOk DEF IsShort
<1> HIDE DEF E
<1>4. 0 \in S
    BY <1>3
<1>5. ASSUME NEW n \in Nat, n \in S PROVE n + 1 \in S
  <2>1. SUFFICES ASSUME n + 1 <= N
        PROVE E[n + 1].ok <=> IsShort(parts) /\ \A j \in 1..(n + 1) : parts[j].ok
    OBVIOUS
  <2>2. E[n].ok <=> IsShort(parts) /\ \A j \in 1..n : parts[j].ok
    BY <1>1, <1>5, <2>1
  <2> HIDE DEF N, S
  <2>3. n + 1 \in 1..N /\ (n + 1) - 1 = n /\ n \in 0..N
    BY <1>1, <2>1
  <2>4. E[n + 1] = Then(E[n], parts[n + 1])
    BY <1>2, <2>3
  <2>5. E[n] \in Encodings /\ parts[n + 1] \in Encodings
    BY <1>1, <1>2, <2>3
  <2>6. E[n + 1].ok <=> E[n].ok /\ parts[n + 1].ok
    <3>1. Then(E[n], parts[n + 1]).ok <=> E[n].ok /\ parts[n + 1].ok
      BY <2>5, ThenFacts
    <3> QED
      BY <2>4, <3>1
  <2>7. (\A j \in 1..(n + 1) : parts[j].ok) <=> parts[n + 1].ok /\ \A j \in 1..n : parts[j].ok
    <3>1. \A j : j \in 1..(n + 1) <=> j \in 1..n \/ j = n + 1
      OBVIOUS
    <3> QED
      BY <3>1
  <2> QED
    BY <2>2, <2>6, <2>7
<1>6. N \in S
  <2> HIDE DEF S
  <2> QED
    BY <1>1, <1>4, <1>5, SetInduction
<1> QED
    BY <1>1, <1>6 DEF EncodeAll, E

LEMMA SequenceIsOk ==
    ASSUME NEW q \in Seq(Data)
    PROVE  EncodeSequence(q).ok <=> IsShort(q) /\ \A i \in 1..Len(q) : Encodes(q[i])
<1> DEFINE parts == [i \in DOMAIN q |-> EncodeData(q[i])]
<1>1. \A i \in 1..Len(q) : q[i] \in Data /\ EncodeData(q[i]) \in Encodings
    BY DataInverts
<1>2. /\ parts \in Seq(Encodings) /\ Len(parts) = Len(q)
      /\ \A i \in 1..Len(q) : parts[i] = EncodeData(q[i])
    BY <1>1
<1>3. EncodeSequence(q) = EncodeAll(parts)
    BY DEF EncodeSequence
<1> HIDE DEF parts
<1>4. EncodeAll(parts).ok <=> IsShort(parts) /\ \A i \in 1..Len(parts) : parts[i].ok
    BY <1>2, AllAreOk
<1>5. \A i \in 1..Len(q) : parts[i].ok <=> Encodes(q[i])
    BY <1>1, <1>2, DataIsOk
<1>6. IsShort(parts) <=> IsShort(q)
    BY <1>2 DEF IsShort
<1> QED
    BY <1>2, <1>3, <1>4, <1>5, <1>6

LEMMA DictIsOk ==
    ASSUME NEW q \in Seq(Bytes \X Data)
    PROVE  EncodeDict(q).ok <=> IsShort(q) /\ \A i \in 1..Len(q) : IsShort(q[i][1]) /\ Encodes(q[i][2])
<1> DEFINE parts == [i \in DOMAIN q |-> EncodeItem(q[i])]
<1>1. \A i \in 1..Len(q) : q[i] \in Bytes \X Data /\ EncodeItem(q[i]) \in Encodings
    BY ItemInverts
<1>2. /\ parts \in Seq(Encodings) /\ Len(parts) = Len(q)
      /\ \A i \in 1..Len(q) : parts[i] = EncodeItem(q[i])
    BY <1>1
<1>3. EncodeDict(q) = EncodeAll(parts)
    BY DEF EncodeDict
<1> HIDE DEF parts
<1>4. EncodeAll(parts).ok <=> IsShort(parts) /\ \A i \in 1..Len(parts) : parts[i].ok
    BY <1>2, AllAreOk
<1>5. \A i \in 1..Len(q) : parts[i].ok <=> IsShort(q[i][1]) /\ Encodes(q[i][2])
    BY <1>1, <1>2, ItemIsOk
<1>6. IsShort(parts) <=> IsShort(q)
    BY <1>2 DEF IsShort
<1> QED
    BY <1>2, <1>3, <1>4, <1>5, <1>6

\* A message or a request is sent unless its name, its arguments, its keywords
\* or its id are too long for the widths they are given, or some of its data
\* cannot be encoded (codec.py, node/codec.py).
THEOREM FramesRefused ==
    ASSUME NEW f \in Messages
    PROVE  EncodeFrame(f).ok <=>
             /\ f.prefix = RequestPrefix => f.id < Power[IdBytes]
             /\ IsShort(f.name) /\ IsShort(f.args) /\ IsShort(f.kwargs)
             /\ \A i \in 1..Len(f.args) : Encodes(f.args[i])
             /\ \A i \in 1..Len(f.kwargs) : IsShort(f.kwargs[i][1]) /\ Encodes(f.kwargs[i][2])
<1> DEFINE name == EncodeName(f.name)
           args == EncodeSequence(f.args)
           kwargs == EncodeDict(f.kwargs)
           message == EncodeMessage(f)
           id == EncodeUnsigned(f.id, IdBytes)
           p == Done(<<f.prefix>>)
<1>1. /\ f.prefix \in {1, 2} /\ f.id \in Nat /\ f.name \in Bytes
      /\ f.args \in Seq(Data) /\ f.kwargs \in Seq(Bytes \X Data)
    BY MessageFields
<1>2. name \in Encodings /\ args \in Encodings /\ kwargs \in Encodings /\ id \in Encodings
    BY <1>1, WidthsAreNat, NameInverts, SequenceInverts, DictInverts, UnsignedEncodes
<1>3. name.ok <=> IsShort(f.name)
    BY <1>1, NameIsOk
<1>4. args.ok <=> IsShort(f.args) /\ \A i \in 1..Len(f.args) : Encodes(f.args[i])
    BY <1>1, SequenceIsOk
<1>5. kwargs.ok <=> IsShort(f.kwargs)
                    /\ \A i \in 1..Len(f.kwargs) : IsShort(f.kwargs[i][1]) /\ Encodes(f.kwargs[i][2])
    BY <1>1, DictIsOk
<1>6. id.ok <=> f.id < Power[IdBytes]
    BY <1>1, WidthsAreNat, UnsignedIsOk
<1>7. message = Then(name, Then(args, kwargs))
    BY DEF EncodeMessage, EncodeArguments
<1>8. EncodeRequest(f) = Then(id, message)
    BY DEF EncodeRequest
<1>9. EncodeFrame(f) = Then(p, IF f.prefix = MessagePrefix THEN message ELSE EncodeRequest(f))
    BY DEF EncodeFrame
<1>10. p \in Encodings /\ p.ok
  <2>1. f.prefix \in Byte
    BY <1>1, PrefixesAreBytes DEF MessagePrefix, RequestPrefix
  <2> QED
    BY <2>1, OneByte, DoneFacts
<1> HIDE DEF name, args, kwargs, message, id, p
<1>11. message \in Encodings /\ (message.ok <=> name.ok /\ args.ok /\ kwargs.ok)
  <2>1. Then(args, kwargs) \in Encodings /\ (Then(args, kwargs).ok <=> args.ok /\ kwargs.ok)
    BY <1>2, ThenFacts
  <2> QED
    BY <1>2, <1>7, <2>1, ThenFacts
<1>12. EncodeRequest(f) \in Encodings /\ (EncodeRequest(f).ok <=> id.ok /\ message.ok)
    BY <1>2, <1>8, <1>11, ThenFacts
<1>13. CASE f.prefix = 1
  <2>1. EncodeFrame(f) = Then(p, message)
    BY <1>9, <1>13 DEF MessagePrefix
  <2>2. EncodeFrame(f).ok <=> message.ok
    <3>1. Then(p, message).ok <=> p.ok /\ message.ok
      BY <1>10, <1>11, ThenFacts
    <3> QED
      BY <1>10, <2>1, <3>1
  <2>3. f.prefix # RequestPrefix
    BY <1>13 DEF RequestPrefix
  <2> QED
    BY <1>3, <1>4, <1>5, <1>11, <2>2, <2>3
<1>14. CASE f.prefix = 2
  <2>1. EncodeFrame(f) = Then(p, EncodeRequest(f))
    BY <1>9, <1>14 DEF MessagePrefix
  <2>2. EncodeFrame(f).ok <=> id.ok /\ message.ok
    <3>1. Then(p, EncodeRequest(f)).ok <=> p.ok /\ EncodeRequest(f).ok
      BY <1>10, <1>12, ThenFacts
    <3> QED
      BY <1>10, <1>12, <2>1, <3>1
  <2>3. f.prefix = RequestPrefix
    BY <1>14 DEF RequestPrefix
  <2> QED
    BY <1>3, <1>4, <1>5, <1>6, <1>11, <2>2, <2>3
<1> QED
    BY <1>1, <1>13, <1>14

\* A response is written to its end unless its id or its error is too long for
\* the width it is given, or its result is and has no error (service/codec.py).
THEOREM AnswersTorn ==
    ASSUME NEW r \in Responses
    PROVE  EncodeAnswer(r).ok <=>
             /\ r.id < Power[IdBytes]
             /\ IF r.error # <<>> THEN Len(r.error) < Power[ErrorBytes] ELSE Encodes(r.result)
<1> DEFINE id == EncodeUnsigned(r.id, IdBytes)
           failure == Done(<<Failure>>)
           success == Done(<<Success>>)
           error == EncodeBytes(r.error, ErrorBytes)
           result == EncodeData(r.result)
<1>1. r.id \in Nat /\ r.result \in Data /\ r.error \in Bytes
    BY ResponseFields
<1>2. id \in Encodings /\ error \in Encodings /\ result \in Encodings
    BY <1>1, WidthsAreNat, UnsignedEncodes, EncodeBytesType, DataInverts
<1>3. failure \in Encodings /\ failure.ok /\ success \in Encodings /\ success.ok
    BY PrefixesAreBytes, OneByte, DoneFacts
<1>4. id.ok <=> r.id < Power[IdBytes]
    BY <1>1, WidthsAreNat, UnsignedIsOk
<1>5. error.ok <=> Len(r.error) < Power[ErrorBytes]
    BY <1>1, WidthsAreNat, BytesAreOk
<1>6. result.ok <=> Encodes(r.result)
    BY <1>1, DataIsOk
<1>7. EncodeAnswer(r)
        = Then(id, IF r.error # <<>> THEN Then(failure, error) ELSE Then(success, result))
    BY DEF EncodeAnswer
<1> HIDE DEF id, failure, success, error, result
<1>8. Then(failure, error) \in Encodings /\ (Then(failure, error).ok <=> error.ok)
    BY <1>2, <1>3, ThenFacts
<1>9. Then(success, result) \in Encodings /\ (Then(success, result).ok <=> result.ok)
    BY <1>2, <1>3, ThenFacts
<1>10. CASE r.error # <<>>
  <2>1. EncodeAnswer(r).ok <=> id.ok /\ Then(failure, error).ok
    BY <1>2, <1>7, <1>8, <1>10, ThenFacts
  <2> QED
    BY <1>4, <1>5, <1>8, <1>10, <2>1
<1>11. CASE ~ (r.error # <<>>)
  <2>1. EncodeAnswer(r).ok <=> id.ok /\ Then(success, result).ok
    BY <1>2, <1>7, <1>9, <1>11, ThenFacts
  <2> QED
    BY <1>4, <1>6, <1>9, <1>11, <2>1
<1> QED
    BY <1>10, <1>11

----------------------------------------------------------------------------
(* Integers of variable length.                                            *)

LEMMA ByteLengthFacts ==
    ASSUME NEW v \in Int, NEW a \in Nat, a = IF v < 0 THEN -v ELSE v
    PROVE  /\ ByteLength(v) \in Nat
           /\ a < Power[ByteLength(v)]
           /\ \A k \in 0..(ByteLength(v) - 1) : a >= Power[k]
<1> DEFINE T == {n \in Nat : a < Power[n]}
           P(n) == a < Power[n] /\ \A k \in 0..(n - 1) : a >= Power[k]
<1>1. a \in T
    BY PowerFacts
<1>2. PICK x \in T : \A y \in T : x <= y
    BY <1>1, LeastNatural
<1>3. x \in 0..a
    BY <1>1, <1>2
<1>4. P(x)
  <2>1. ASSUME NEW k \in 0..(x - 1) PROVE a >= Power[k]
    <3>1. k \in Nat /\ ~ (x <= k)
      BY <1>3
    <3>2. k \notin T /\ Power[k] \in Nat
      BY <1>2, <3>1, PowerFacts
    <3> QED
      BY <3>1, <3>2
  <2> QED
    BY <2>1
<1>5. ByteLength(v) = CHOOSE n \in 0..a : P(n)
    BY DEF ByteLength
<1>6. ByteLength(v) \in 0..a /\ P(ByteLength(v))
  <2> HIDE DEF P
  <2> QED
    BY <1>3, <1>4, <1>5
<1> QED
    BY <1>6

\* An integer of variable length is read back, of any value and sign, whatever
\* follows it; one that is refused has no bytes; and an unsigned one that fits is
\* never refused (codec.py, VariableLengthIntCodec).
THEOREM VarInverts ==
    ASSUME NEW max \in 1..(Base - 1), NEW signed \in BOOLEAN, NEW v \in Int,
           NEW rest \in Bytes
    PROVE  LET e == EncodeVar(v, max, signed)
           IN  /\ e.ok => DecodeVar(e.bytes \o rest, max, signed) = Decoded(v, rest)
               /\ ~e.ok => e.bytes = <<>>
               /\ ~signed /\ Fits(v, max, FALSE) => e.ok
<1> DEFINE n == ByteLength(v)
           e == EncodeVar(v, max, signed)
           a == IF v < 0 THEN -v ELSE v
<1>1. a \in Nat /\ (v >= 0 => a = v) /\ (a < 1 => v = 0)
    OBVIOUS
<1>2. n \in Nat /\ a < Power[n] /\ \A k \in 0..(n - 1) : a >= Power[k]
    BY <1>1, ByteLengthFacts
<1>3. max \in Nat /\ max < Base
    BY BaseIsNat
<1>4. e = IF n > max THEN Error
          ELSE IF n = 0 THEN Done(<<0>>)
          ELSE IF ~Fits(v, n, signed) THEN Error
          ELSE Done(<<n>> \o ToBytes(v, n))
    BY DEF EncodeVar
<1> HIDE DEF n, e, a
<1>5. ~signed /\ Fits(v, max, FALSE) => e.ok
  <2>1. SUFFICES ASSUME ~signed, 0 <= v, v < Power[max] PROVE e.ok
    BY DEF Fits
  <2>2. ~ (n > max)
    <3>1. SUFFICES ASSUME n > max PROVE FALSE
      OBVIOUS
    <3>2. max \in 0..(n - 1)
      BY <1>2, <1>3, <3>1
    <3>3. v >= Power[max] /\ Power[max] \in Nat
      BY <1>1, <1>2, <1>3, <2>1, <3>2, PowerFacts
    <3> QED
      BY <2>1, <3>3
  <2>3. Fits(v, n, signed)
    BY <1>1, <1>2, <2>1 DEF Fits
  <2> QED
    BY <1>4, <2>2, <2>3 DEF Done
<1>6. ~e.ok => e.bytes = <<>>
    BY <1>4 DEF Done, Error
<1>7. ASSUME e.ok PROVE DecodeVar(e.bytes \o rest, max, signed) = Decoded(v, rest)
  <2> DEFINE Rest(s, h) ==
        IF h = 0 THEN Decoded(0, s)
        ELSE IF h > max THEN Unknown ELSE DecodeInt(s, h, signed)
  <2>1. ~ (n > max) /\ n \in Byte
    BY <1>2, <1>3, <1>4, <1>7, BaseIsNat DEF Error, Byte
  <2>2. ASSUME NEW s \in Bytes PROVE DecodeVar(<<n>> \o s, max, signed) = Rest(s, n)
    <3>1. ReadExactly(1, <<n>> \o s) = Decoded(<<n>>, s) /\ <<n>>[1] = n
      BY <2>1, PrefixIsRead
    <3> QED
      BY <3>1 DEF DecodeVar, AfterOk, Decoded
  <2>3. CASE n = 0
    <3>1. v = 0
      BY <1>1, <1>2, <2>3, PowerFacts
    <3>2. e.bytes = <<n>>
      BY <1>4, <2>1, <2>3 DEF Done
    <3>3. Rest(rest, n) = Decoded(v, rest)
      BY <2>3, <3>1
    <3> QED
      BY <2>2, <3>2, <3>3
  <2>4. CASE n # 0
    <3> DEFINE s == ToBytes(v, n)
    <3>1. Fits(v, n, signed) /\ e.bytes = <<n>> \o s
      BY <1>4, <1>7, <2>1, <2>4 DEF Done, Error
    <3>2. s \in Bytes /\ <<n>> \in Bytes /\ s \o rest \in Bytes
      BY <1>2, <2>1, ToBytesType, OneByte, BytesConcat
    <3>3. (<<n>> \o s) \o rest = <<n>> \o (s \o rest)
      <4> HIDE DEF s
      <4> QED
        BY <3>2, ConcatAssoc
    <3>4. EncodeInt(v, n, signed).ok /\ EncodeInt(v, n, signed).bytes = s
      BY <3>1 DEF EncodeInt, Done
    <3>5. DecodeInt(EncodeInt(v, n, signed).bytes \o rest, n, signed) = Decoded(v, rest)
      BY <1>2, <3>4, IntInverts
    <3> HIDE DEF s
    <3>6. Rest(s \o rest, n) = Decoded(v, rest)
      BY <2>1, <2>4, <3>4, <3>5
    <3> QED
      BY <2>2, <3>1, <3>2, <3>3, <3>6
  <2> QED
    BY <2>3, <2>4
<1> QED
    BY <1>5, <1>6, <1>7 DEF e

----------------------------------------------------------------------------
(* The connection.  A cut of a stream is what is left of it after each     *)
(* number of messages.                                                     *)

TypeOK ==
    /\ sent \in Seq(Frames) /\ got \in Seq(Frames)
    /\ answered \in Seq(Answers) /\ answers \in Seq(Read)
    /\ wire \in Bytes /\ back \in Bytes
    /\ torn \in 0..MaxSent /\ Len(answered) <= MaxSent
    /\ broken \subseteq {"frames", "answers"}

IsFrameCut(cut) ==
    /\ cut \in [0..Len(sent) -> Bytes]
    /\ cut[Len(sent)] = <<>>
    /\ \A i \in 1..Len(sent) : cut[i - 1] = EncodeFrame(sent[i]).bytes \o cut[i]

\* What was sent and not yet read is on its way, and nothing else.
FramesInv ==
    /\ Len(got) <= Len(sent)
    /\ \A i \in 1..Len(sent) : EncodeFrame(sent[i]).ok
    /\ \A i \in 1..Len(got) : got[i] = sent[i]
    /\ "frames" \notin broken
    /\ \E cut : IsFrameCut(cut) /\ wire = cut[Len(got)]

\* How many responses are whole.
Whole == IF torn < Len(answered) THEN torn ELSE Len(answered)

IsAnswerCut(cut) ==
    /\ cut \in [0..Whole -> Bytes]
    /\ torn = MaxSent => cut[Whole] = <<>>
    /\ \A i \in 1..Whole : cut[i - 1] = EncodeAnswer(answered[i]).bytes \o cut[i]

\* The responses that are whole come first, and are read as they were sent.
AnswersInv ==
    /\ torn < MaxSent => torn < Len(answered)
    /\ \A i \in 1..Whole : EncodeAnswer(answered[i]).ok
    /\ \A i \in 1..Len(answers) : i <= Whole => answers[i] = answered[i]
    /\ torn = MaxSent => "answers" \notin broken /\ Len(answers) <= Whole
    /\ Len(answers) <= Whole => \E cut : IsAnswerCut(cut) /\ back = cut[Len(answers)]

IInv == TypeOK /\ FramesInv /\ AnswersInv

LEMMA InitIInv == Init => IInv
<1> SUFFICES ASSUME Init PROVE IInv
    OBVIOUS
<1>1. TypeOK
    BY NoBytes, MaxSentAssumption DEF Init, TypeOK
<1>2. Len(sent) = 0 /\ Len(got) = 0 /\ Len(answered) = 0 /\ Len(answers) = 0
    BY DEF Init
<1> DEFINE cut == [i \in 0..0 |-> <<>>]
<1>3. IsFrameCut(cut) /\ wire = cut[Len(got)]
    BY <1>2, NoBytes DEF IsFrameCut, Init
<1>4. FramesInv
  <2> HIDE DEF cut
  <2> QED
    BY <1>2, <1>3 DEF FramesInv, Init
<1>5. Whole = 0
    BY <1>1, <1>2 DEF Whole, TypeOK
<1>6. IsAnswerCut(cut) /\ back = cut[Len(answers)]
    BY <1>2, <1>5, NoBytes DEF IsAnswerCut, Init
<1>7. AnswersInv
  <2> HIDE DEF cut
  <2> QED
    BY <1>2, <1>5, <1>6, MaxSentAssumption DEF AnswersInv, Init
<1> QED
    BY <1>1, <1>4, <1>7 DEF IInv

LEMMA FrameFacts ==
    ASSUME NEW f \in Frames
    PROVE  /\ EncodeFrame(f).bytes \in Bytes
           /\ EncodeFrame(f).ok => \A rest \in Bytes :
                DecodeFrame(EncodeFrame(f).bytes \o rest) = Decoded(f, rest)
<1>1. f \in Messages /\ (f.prefix = 1 => f.id = 0)
    BY FramesAssumption
<1> QED
    BY <1>1, FrameInverts DEF Encodings

LEMMA AnswerFacts ==
    ASSUME NEW r \in Answers
    PROVE  /\ EncodeAnswer(r).bytes \in Bytes
           /\ EncodeAnswer(r).ok => \A rest \in Bytes :
                DecodeAnswer(EncodeAnswer(r).bytes \o rest) = Decoded(r, rest)
<1>1. r \in Responses /\ (r.error # <<>> => r.result = <<>>)
    BY AnswersAssumption
<1> QED
    BY <1>1, AnswerInverts DEF Encodings

\* Each message that is sent comes last on the connection.
LEMMA SendFrameIInv ==
    ASSUME IInv, NEW f \in Frames, SendFrame(f)
    PROVE  IInv'
<1> DEFINE n == Len(sent)
           b == EncodeFrame(f).bytes
<1>1. /\ n \in Nat /\ Len(got) \in Nat /\ b \in Bytes /\ EncodeFrame(f).ok
      /\ sent' = Append(sent, f) /\ wire' = wire \o b
      /\ UNCHANGED <<got, answered, back, answers, torn, broken>>
    BY FrameFacts DEF IInv, TypeOK, SendFrame
<1>2. /\ sent' \in Seq(Frames) /\ Len(sent') = n + 1
      /\ \A i \in 1..n : sent'[i] = sent[i]
      /\ sent'[n + 1] = f
    BY <1>1 DEF IInv, TypeOK
<1>3. TypeOK'
    BY <1>1, <1>2, BytesConcat DEF IInv, TypeOK
<1>4. AnswersInv'
    BY <1>1 DEF IInv, AnswersInv, IsAnswerCut, Whole
<1>5. PICK cut : IsFrameCut(cut) /\ wire = cut[Len(got)]
    BY DEF IInv, FramesInv
<1>6. cut \in [0..n -> Bytes] /\ cut[n] = <<>>
    BY <1>5 DEF IsFrameCut
<1>7. \A i \in 1..n : cut[i - 1] = EncodeFrame(sent[i]).bytes \o cut[i]
    BY <1>5 DEF IsFrameCut
<1>8. Len(got) <= n /\ \A i \in 1..n : sent[i] \in Frames
    BY DEF IInv, FramesInv, TypeOK
<1> HIDE DEF b, n
<1> DEFINE new == [i \in 0..(n + 1) |-> IF i = n + 1 THEN <<>> ELSE cut[i] \o b]
<1>9. new \in [0..(n + 1) -> Bytes]
  <2>1. \A i \in 0..n : cut[i] \o b \in Bytes
    BY <1>1, <1>6, BytesConcat
  <2>2. \A i \in 0..(n + 1) : i # n + 1 => i \in 0..n
    BY <1>1
  <2> QED
    BY <2>1, <2>2, NoBytes
<1>10. /\ new[n + 1] = <<>>
       /\ \A i \in 0..n : new[i] = cut[i] \o b
    BY <1>1
<1>11. wire' = new[Len(got)]
    BY <1>1, <1>5, <1>8, <1>10
<1> HIDE DEF new
<1>12. ASSUME NEW i \in 1..(n + 1)
       PROVE new[i - 1] = EncodeFrame(sent'[i]).bytes \o new[i]
  <2>1. CASE i = n + 1
    <3>1. i - 1 = n /\ n \in 0..n
      BY <1>1, <2>1
    <3>2. new[i - 1] = <<>> \o b
      BY <1>6, <1>10, <3>1
    <3>3. EncodeFrame(sent'[i]).bytes = b
      BY <1>2, <2>1 DEF b
    <3>4. new[i] = <<>>
      BY <1>10, <2>1
    <3>5. <<>> \o b = b \o <<>>
      BY <1>1, NoBytes
    <3> QED
      BY <3>2, <3>3, <3>4, <3>5
  <2>2. CASE i # n + 1
    <3>1. i \in 1..n /\ i - 1 \in 0..n /\ i \in 0..n
      BY <1>1, <2>2
    <3>2. new[i - 1] = cut[i - 1] \o b /\ new[i] = cut[i] \o b
      BY <1>10, <3>1
    <3>3. sent'[i] = sent[i]
      BY <1>2, <3>1
    <3>4. cut[i - 1] = EncodeFrame(sent[i]).bytes \o cut[i]
      BY <1>7, <3>1
    <3>5. EncodeFrame(sent[i]).bytes \in Bytes /\ cut[i] \in Bytes
      BY <1>6, <1>8, <3>1, FrameFacts
    <3>6. (EncodeFrame(sent[i]).bytes \o cut[i]) \o b = EncodeFrame(sent[i]).bytes \o (cut[i] \o b)
      BY <1>1, <3>5, ConcatAssoc
    <3> QED
      BY <3>2, <3>3, <3>4, <3>6
  <2> QED
    BY <2>1, <2>2
<1>13. /\ new \in [0..Len(sent') -> Bytes]
       /\ new[Len(sent')] = <<>>
       /\ \A i \in 1..Len(sent') : new[i - 1] = EncodeFrame(sent'[i]).bytes \o new[i]
    BY <1>2, <1>9, <1>10, <1>12
<1>14. \A i \in 1..Len(sent') : EncodeFrame(sent'[i]).ok
  <2>1. \A i \in 1..n : EncodeFrame(sent[i]).ok
    BY DEF IInv, FramesInv, n
  <2>2. \A i \in 1..(n + 1) : i \in 1..n \/ i = n + 1
    BY <1>1
  <2> QED
    BY <1>1, <1>2, <2>1, <2>2
<1>15. \A i \in 1..Len(got) : got[i] = sent'[i]
  <2>1. \A i \in 1..Len(got) : got[i] = sent[i] /\ i \in 1..n
    BY <1>1, <1>8 DEF IInv, FramesInv
  <2> QED
    BY <1>2, <2>1
<1>16. FramesInv'
  <2>1. Len(got') <= Len(sent')
    BY <1>1, <1>2, <1>8
  <2>2. wire' = new[Len(got')]
    BY <1>1, <1>11
  <2>3. "frames" \notin broken'
    BY <1>1 DEF IInv, FramesInv
  <2>4. \A i \in 1..Len(got') : got'[i] = sent'[i]
    BY <1>1, <1>15
  <2>5. \E c : /\ c \in [0..Len(sent') -> Bytes]
               /\ c[Len(sent')] = <<>>
               /\ \A i \in 1..Len(sent') : c[i - 1] = EncodeFrame(sent'[i]).bytes \o c[i]
               /\ wire' = c[Len(got')]
    BY <1>13, <2>2
  <2>6. (\E c : IsFrameCut(c) /\ wire = c[Len(got)])'
    BY <2>5 DEF IsFrameCut
  <2> QED
    BY <1>14, <2>1, <2>3, <2>4, <2>6 DEF FramesInv
<1> QED
    BY <1>3, <1>4, <1>16 DEF IInv

\* What is read is what was sent next.
LEMMA ReceiveFrameIInv ==
    ASSUME IInv, ReceiveFrame
    PROVE  IInv'
<1> DEFINE n == Len(got)
<1>1. /\ n \in Nat /\ Len(sent) \in Nat /\ n <= Len(sent)
      /\ \A i \in 1..Len(sent) : sent[i] \in Frames /\ EncodeFrame(sent[i]).ok
    BY DEF IInv, TypeOK, FramesInv
<1>2. PICK cut : IsFrameCut(cut) /\ wire = cut[n]
    BY DEF IInv, FramesInv
<1>3. DecodeFrame(wire).end # "short"
    BY DEF ReceiveFrame
<1>4. n # Len(sent)
  <2>1. SUFFICES ASSUME n = Len(sent) PROVE FALSE
    OBVIOUS
  <2>2. wire = <<>>
    BY <1>2, <2>1 DEF IsFrameCut
  <2> QED
    BY <1>3, <2>2, NothingIsRead DEF Short
<1>5. n + 1 \in 1..Len(sent) /\ (n + 1) - 1 = n /\ n + 1 \in 0..Len(sent)
    BY <1>1, <1>4
<1>6. wire = EncodeFrame(sent[n + 1]).bytes \o cut[n + 1] /\ cut[n + 1] \in Bytes
    BY <1>2, <1>5 DEF IsFrameCut
<1>7. sent[n + 1] \in Frames /\ EncodeFrame(sent[n + 1]).ok
    BY <1>1, <1>5
<1>8. DecodeFrame(wire) = Decoded(sent[n + 1], cut[n + 1])
    BY <1>6, <1>7, FrameFacts
<1>9. /\ got' = Append(got, sent[n + 1]) /\ wire' = cut[n + 1]
      /\ UNCHANGED <<sent, answered, back, answers, torn, broken>>
    BY <1>8 DEF ReceiveFrame, Decoded
<1>10. /\ got' \in Seq(Frames) /\ Len(got') = n + 1
       /\ \A i \in 1..n : got'[i] = got[i]
       /\ got'[n + 1] = sent[n + 1]
    BY <1>7, <1>9 DEF IInv, TypeOK
<1>11. TypeOK'
    BY <1>6, <1>9, <1>10 DEF IInv, TypeOK
<1>12. AnswersInv'
    BY <1>9 DEF IInv, AnswersInv, IsAnswerCut, Whole
<1>13. \A i \in 1..Len(got') : got'[i] = sent'[i]
  <2>1. \A i \in 1..n : got[i] = sent[i]
    BY DEF IInv, FramesInv
  <2> HIDE DEF n
  <2>2. \A i \in 1..(n + 1) : i \in 1..n \/ i = n + 1
    BY <1>1
  <2> QED
    BY <1>9, <1>10, <2>1, <2>2
<1>14. IsFrameCut(cut)'
    BY <1>2, <1>9 DEF IsFrameCut
<1>15. FramesInv'
  <2> HIDE DEF n
  <2>1. Len(got') <= Len(sent') /\ wire' = cut[Len(got')]
    BY <1>1, <1>5, <1>9, <1>10
  <2>2. (\A i \in 1..Len(sent') : EncodeFrame(sent'[i]).ok) /\ "frames" \notin broken'
    BY <1>9 DEF IInv, FramesInv
  <2> QED
    BY <1>13, <1>14, <2>1, <2>2 DEF FramesInv
<1> QED
    BY <1>11, <1>12, <1>15 DEF IInv

LEMMA WholeFacts ==
    ASSUME IInv
    PROVE  /\ Whole \in 0..Len(answered) /\ Whole <= torn
           /\ torn = MaxSent => Whole = Len(answered)
           /\ torn # MaxSent => Whole = torn /\ torn < MaxSent
           /\ Len(answered) \in Nat /\ Len(answers) \in Nat /\ torn \in Nat /\ MaxSent \in Nat
           /\ \A i \in 1..Len(answered) : answered[i] \in Answers
    BY MaxSentAssumption DEF IInv, TypeOK, AnswersInv, Whole

\* What a response leaves comes after every response that is whole, and only
\* makes one more of them when it is complete and none was torn before.
LEMMA AnswerIInv ==
    ASSUME IInv, NEW r \in Answers, Answer(r)
    PROVE  IInv'
<1> DEFINE m == Len(answered)
           w == Whole
           e == EncodeAnswer(r)
           b == e.bytes
<1>1. /\ b \in Bytes
      /\ m < MaxSent
      /\ answered' = Append(answered, r) /\ back' = back \o b
      /\ torn' = IF e.ok \/ torn < MaxSent THEN torn ELSE m
      /\ UNCHANGED <<sent, wire, got, answers, broken>>
    BY AnswerFacts DEF Answer
<1>2. /\ w \in 0..m /\ w <= torn /\ (torn = MaxSent => w = m)
      /\ (torn # MaxSent => w = torn /\ torn < MaxSent)
      /\ m \in Nat /\ Len(answers) \in Nat /\ torn \in Nat /\ MaxSent \in Nat
      /\ \A i \in 1..m : answered[i] \in Answers
    BY WholeFacts
<1>3. /\ answered' \in Seq(Answers) /\ Len(answered') = m + 1
      /\ \A i \in 1..m : answered'[i] = answered[i]
      /\ answered'[m + 1] = r
    BY <1>1 DEF IInv, TypeOK
<1>4. (torn < MaxSent => torn < m) /\ \A i \in 1..w : EncodeAnswer(answered[i]).ok
    BY DEF IInv, AnswersInv
<1>5. \A i \in 1..Len(answers) : i <= w => answers[i] = answered[i]
    BY DEF IInv, AnswersInv
<1>6. torn = MaxSent => "answers" \notin broken /\ Len(answers) <= w
    BY DEF IInv, AnswersInv
<1>7. Len(answers) <= w => \E cut : IsAnswerCut(cut) /\ back = cut[Len(answers)]
    BY DEF IInv, AnswersInv
<1>8. Whole' = IF torn' < m + 1 THEN torn' ELSE m + 1
    BY <1>3 DEF Whole
<1> HIDE DEF m, w, e, b
<1>9. back' \in Bytes
    BY <1>1, BytesConcat DEF IInv, TypeOK
<1>10. torn' \in 0..MaxSent /\ Len(answered') <= MaxSent
    BY <1>1, <1>2, <1>3
<1>11. TypeOK'
    BY <1>1, <1>3, <1>9, <1>10 DEF IInv, TypeOK
<1>12. FramesInv'
    BY <1>1 DEF IInv, FramesInv, IsFrameCut
<1>13. \A i \in 1..w : answered'[i] = answered[i] /\ answered[i] \in Answers
    BY <1>2, <1>3
<1>14. ASSUME NEW cut, IsAnswerCut(cut)
       PROVE  /\ cut \in [0..w -> Bytes]
              /\ \A i \in 0..w : cut[i] \o b \in Bytes
              /\ \A i \in 1..w : cut[i - 1] \o b
                                   = EncodeAnswer(answered'[i]).bytes \o (cut[i] \o b)
  <2>1. cut \in [0..w -> Bytes]
    BY <1>14 DEF IsAnswerCut, w
  <2>2. \A i \in 1..w : cut[i - 1] = EncodeAnswer(answered[i]).bytes \o cut[i]
    BY <1>14 DEF IsAnswerCut, w
  <2>3. ASSUME NEW i \in 1..w
        PROVE  cut[i - 1] \o b = EncodeAnswer(answered'[i]).bytes \o (cut[i] \o b)
    <3>1. i \in 0..w
      BY <1>2
    <3>2. EncodeAnswer(answered[i]).bytes \in Bytes /\ cut[i] \in Bytes
      BY <1>13, <2>1, <3>1, AnswerFacts
    <3>3. (EncodeAnswer(answered[i]).bytes \o cut[i]) \o b
            = EncodeAnswer(answered[i]).bytes \o (cut[i] \o b)
      BY <1>1, <3>2, ConcatAssoc
    <3> QED
      BY <1>13, <2>2, <3>3
  <2>4. \A i \in 0..w : cut[i] \o b \in Bytes
    BY <1>1, <2>1, BytesConcat
  <2> QED
    BY <2>1, <2>3, <2>4
<1>15. ASSUME torn = MaxSent /\ e.ok PROVE AnswersInv'
  <2>1. torn' = torn /\ Whole' = w + 1 /\ w = m /\ Len(answers) <= w
    BY <1>1, <1>2, <1>6, <1>8, <1>15
  <2>2. PICK cut : IsAnswerCut(cut) /\ back = cut[Len(answers)]
    BY <1>7, <2>1
  <2>3. cut[w] = <<>>
    BY <1>15, <2>2 DEF IsAnswerCut, w
  <2> DEFINE new == [i \in 0..(w + 1) |-> IF i = w + 1 THEN <<>> ELSE cut[i] \o b]
  <2>4. new \in [0..(w + 1) -> Bytes]
    <3>1. \A i \in 0..(w + 1) : i # w + 1 => i \in 0..w
      BY <1>2
    <3> QED
      BY <1>14, <2>2, <3>1, NoBytes
  <2>5. new[w + 1] = <<>> /\ \A i \in 0..w : new[i] = cut[i] \o b
    BY <1>2
  <2>6. back' = new[Len(answers)]
    BY <1>1, <1>2, <2>1, <2>2, <2>5
  <2> HIDE DEF new
  <2>7. ASSUME NEW i \in 1..(w + 1)
        PROVE  new[i - 1] = EncodeAnswer(answered'[i]).bytes \o new[i]
    <3>1. CASE i = w + 1
      <4>1. i - 1 = w /\ w \in 0..w
        BY <1>2, <3>1
      <4>2. new[i - 1] = <<>> \o b
        BY <2>3, <2>5, <4>1
      <4>3. EncodeAnswer(answered'[i]).bytes = b
        BY <1>3, <2>1, <3>1 DEF b, e
      <4>4. new[i] = <<>> /\ <<>> \o b = b \o <<>>
        BY <1>1, <2>5, <3>1, NoBytes
      <4> QED
        BY <4>2, <4>3, <4>4
    <3>2. CASE i # w + 1
      <4>1. i \in 1..w /\ i - 1 \in 0..w /\ i \in 0..w
        BY <1>2, <3>2
      <4>2. new[i - 1] = cut[i - 1] \o b /\ new[i] = cut[i] \o b
        BY <2>5, <4>1
      <4>3. cut[i - 1] \o b = EncodeAnswer(answered'[i]).bytes \o (cut[i] \o b)
        BY <1>14, <2>2, <4>1
      <4> QED
        BY <4>2, <4>3
    <3> QED
      BY <3>1, <3>2
  <2>8. \E c : /\ c \in [0..Whole' -> Bytes]
               /\ c[Whole'] = <<>>
               /\ \A i \in 1..Whole' : c[i - 1] = EncodeAnswer(answered'[i]).bytes \o c[i]
               /\ back' = c[Len(answers')]
    BY <1>1, <2>1, <2>4, <2>5, <2>6, <2>7
  <2>9. (\E c : IsAnswerCut(c) /\ back = c[Len(answers)])'
    BY <2>8 DEF IsAnswerCut
  <2>10. \A i \in 1..Whole' : EncodeAnswer(answered'[i]).ok
    <3>1. \A i \in 1..(w + 1) : i \in 1..w \/ i = w + 1
      BY <1>2
    <3>2. EncodeAnswer(answered'[w + 1]).ok
      BY <1>3, <1>15, <2>1 DEF e
    <3> QED
      BY <1>4, <1>13, <2>1, <3>1, <3>2
  <2>11. \A i \in 1..Len(answers') : i <= Whole' => answers'[i] = answered'[i]
    <3>1. \A i \in 1..Len(answers) : i <= w /\ i \in 1..w
      BY <1>2, <2>1
    <3> QED
      BY <1>1, <1>5, <1>13, <3>1
  <2>12. torn' < MaxSent => torn' < Len(answered')
    BY <1>2, <1>15, <2>1
  <2>13. "answers" \notin broken' /\ Len(answers') <= Whole'
    BY <1>1, <1>2, <1>6, <1>15, <2>1
  <2> QED
    BY <2>9, <2>10, <2>11, <2>12, <2>13 DEF AnswersInv
<1>16. ASSUME ~ (torn = MaxSent /\ e.ok) PROVE AnswersInv'
  <2>1. torn' < MaxSent /\ torn' < m + 1 /\ Whole' = w
    BY <1>1, <1>2, <1>4, <1>8, <1>16
  <2>2. torn' # MaxSent
    BY <1>2, <2>1
  <2>3. \A i \in 1..Whole' : EncodeAnswer(answered'[i]).ok
    BY <1>4, <1>13, <2>1
  <2>4. \A i \in 1..Len(answers') : i <= Whole' => answers'[i] = answered'[i]
    <3>1. \A i \in 1..Len(answers) : i <= w => i \in 1..w
      BY <1>2
    <3> QED
      BY <1>1, <1>5, <1>13, <2>1, <3>1
  <2>5. ASSUME Len(answers') <= Whole'
        PROVE  (\E c : IsAnswerCut(c) /\ back = c[Len(answers)])'
    <3>1. Len(answers) <= w /\ Len(answers) \in 0..w
      BY <1>1, <1>2, <2>1, <2>5
    <3>2. PICK cut : IsAnswerCut(cut) /\ back = cut[Len(answers)]
      BY <1>7, <3>1
    <3> DEFINE new == [i \in 0..w |-> cut[i] \o b]
    <3>3. \A i \in 1..w : i \in 0..w /\ i - 1 \in 0..w
      BY <1>2
    <3>4. new \in [0..w -> Bytes]
      BY <1>14, <3>2
    <3>5. \A i \in 1..w : new[i - 1] = EncodeAnswer(answered'[i]).bytes \o new[i]
      BY <1>14, <3>2, <3>3
    <3>6. back' = new[Len(answers)]
      BY <1>1, <3>1, <3>2
    <3> HIDE DEF new
    <3>7. \E c : /\ c \in [0..Whole' -> Bytes]
                 /\ \A i \in 1..Whole' : c[i - 1] = EncodeAnswer(answered'[i]).bytes \o c[i]
                 /\ back' = c[Len(answers')]
      BY <1>1, <2>1, <3>4, <3>5, <3>6
    <3> QED
      BY <2>2, <3>7 DEF IsAnswerCut
  <2> QED
    BY <1>3, <2>1, <2>2, <2>3, <2>4, <2>5 DEF AnswersInv
<1>17. AnswersInv'
    BY <1>15, <1>16
<1> QED
    BY <1>11, <1>12, <1>17 DEF IInv

\* A response that is whole is read as it was sent, without one that was torn
\* there is nothing after them, and after one that was torn nothing is claimed.
LEMMA ReceiveAnswerIInv ==
    ASSUME IInv, ReceiveAnswer
    PROVE  IInv'
<1> DEFINE k == Len(answers)
           w == Whole
           d == DecodeAnswer(back)
<1>1. /\ "answers" \notin broken
      /\ d.end # "short"
      /\ UNCHANGED <<sent, wire, got, answered, torn>>
    BY DEF ReceiveAnswer
<1>2. \/ d.end = "ok" /\ answers' = Append(answers, d.value) /\ back' = d.rest /\ broken' = broken
      \/ d.end # "ok" /\ broken' = broken \cup {"answers"} /\ answers' = answers /\ back' = back
    BY DEF ReceiveAnswer
<1>3. /\ w \in 0..Len(answered) /\ k \in Nat
      /\ (torn # MaxSent => torn < MaxSent)
      /\ \A i \in 1..Len(answered) : answered[i] \in Answers
    BY WholeFacts
<1>4. Whole' = w
    BY <1>1 DEF Whole
<1>5. (torn < MaxSent => torn < Len(answered)) /\ \A i \in 1..w : EncodeAnswer(answered[i]).ok
    BY DEF IInv, AnswersInv
<1>6. \A i \in 1..k : i <= w => answers[i] = answered[i]
    BY DEF IInv, AnswersInv
<1>7. k <= w => \E cut : IsAnswerCut(cut) /\ back = cut[k]
    BY DEF IInv, AnswersInv
<1>8. torn = MaxSent => k <= w
    BY DEF IInv, AnswersInv
<1>9. IsResult(d, Read)
    BY DecodeAnswerType DEF IInv, TypeOK
<1>10. answers \in Seq(Read) /\ back \in Bytes
    BY DEF IInv, TypeOK
<1>11. FramesInv'
  <2>1. "frames" \in broken' => "frames" \in broken
    BY <1>2
  <2> QED
    BY <1>1, <2>1 DEF IInv, FramesInv, IsFrameCut
<1>12. broken' \subseteq {"frames", "answers"}
    BY <1>2 DEF IInv, TypeOK
<1> HIDE DEF k, w, d
<1>13. ASSUME d.end = "ok" PROVE d.value \in Read /\ d.rest \in Bytes
    BY <1>9, <1>13 DEF IsResult, Short, Unknown, Decoded
<1>14. answers' \in Seq(Read) /\ back' \in Bytes
    BY <1>2, <1>10, <1>13
<1>15. TypeOK'
    BY <1>1, <1>12, <1>14 DEF IInv, TypeOK
<1>16. ASSUME k < w PROVE AnswersInv'
  <2>1. PICK cut : IsAnswerCut(cut) /\ back = cut[k]
    BY <1>3, <1>7, <1>16
  <2>2. k + 1 \in 1..w /\ (k + 1) - 1 = k /\ k + 1 \in 0..w /\ k + 1 \in 1..Len(answered)
    BY <1>3, <1>16
  <2>3. back = EncodeAnswer(answered[k + 1]).bytes \o cut[k + 1] /\ cut[k + 1] \in Bytes
    BY <2>1, <2>2 DEF IsAnswerCut, w
  <2>4. answered[k + 1] \in Answers /\ EncodeAnswer(answered[k + 1]).ok
    BY <1>3, <1>5, <2>2
  <2>5. d = Decoded(answered[k + 1], cut[k + 1])
    BY <2>3, <2>4, AnswerFacts DEF d
  <2>6. /\ answers' = Append(answers, answered[k + 1])
        /\ back' = cut[k + 1] /\ broken' = broken
    BY <1>2, <2>5 DEF Decoded
  <2>7. d.value = answered[k + 1] /\ d.value \in Read
    BY <1>13, <2>5 DEF Decoded
  <2>8. /\ Len(answers') = k + 1
        /\ \A i \in 1..k : answers'[i] = answers[i]
        /\ answers'[k + 1] = answered[k + 1]
    BY <1>10, <2>6, <2>7 DEF k
  <2>9. \A i \in 1..Len(answers') : answers'[i] = answered[i]
    <3>1. \A i \in 1..(k + 1) : i \in 1..k \/ i = k + 1
      BY <1>3
    <3>2. \A i \in 1..k : i <= w
      BY <1>3, <1>16
    <3> QED
      BY <1>6, <2>8, <3>1, <3>2
  <2>10. (\E c : IsAnswerCut(c) /\ back = c[Len(answers)])'
    <3>1. IsAnswerCut(cut)'
      BY <1>1, <1>4, <2>1 DEF IsAnswerCut, w
    <3>2. back' = cut[Len(answers')]
      BY <2>6, <2>8
    <3> QED
      BY <3>1, <3>2
  <2>11. Len(answers') <= Whole'
    BY <1>3, <1>4, <1>16, <2>8
  <2>12. \A i \in 1..Whole' : EncodeAnswer(answered'[i]).ok
    BY <1>1, <1>4, <1>5
  <2>13. "answers" \notin broken'
    BY <1>1, <2>6
  <2>14. \A i \in 1..Len(answers') : answers'[i] = answered'[i]
    BY <1>1, <2>9
  <2>15. torn' < MaxSent => torn' < Len(answered')
    BY <1>1, <1>5
  <2> QED
    BY <2>10, <2>11, <2>12, <2>13, <2>14, <2>15 DEF AnswersInv
<1>17. ASSUME ~ (k < w) PROVE AnswersInv'
  <2>1. torn # MaxSent
    <3>1. SUFFICES ASSUME torn = MaxSent PROVE FALSE
      OBVIOUS
    <3>2. k <= w /\ k = w
      BY <1>3, <1>8, <1>17, <3>1
    <3>3. back = <<>>
      BY <1>7, <3>1, <3>2 DEF IsAnswerCut, w
    <3> QED
      BY <1>1, <3>3, NothingIsRead DEF Short, d
  <2>2. torn' # MaxSent /\ (torn' < MaxSent => torn' < Len(answered'))
    BY <1>1, <1>5, <2>1
  <2>3. \A i \in 1..Whole' : EncodeAnswer(answered'[i]).ok
    BY <1>1, <1>4, <1>5
  <2>4. CASE d.end = "ok"
    <3>1. answers' = Append(answers, d.value) /\ d.value \in Read
      BY <1>2, <1>13, <2>4
    <3>2. Len(answers') = k + 1 /\ \A i \in 1..k : answers'[i] = answers[i]
      BY <1>10, <3>1 DEF k
    <3>3. ~ (Len(answers') <= Whole')
      BY <1>3, <1>4, <1>17, <3>2
    <3>4. \A i \in 1..Len(answers') : i <= w => i \in 1..k
      BY <1>3, <1>17, <3>2
    <3>5. \A i \in 1..Len(answers') : i <= Whole' => answers'[i] = answered'[i]
      BY <1>1, <1>4, <1>6, <3>2, <3>4
    <3> QED
      BY <2>2, <2>3, <3>3, <3>5 DEF AnswersInv
  <2>5. CASE d.end # "ok"
    <3>1. answers' = answers /\ back' = back
      BY <1>2, <2>5
    <3>2. \A i \in 1..Len(answers') : i <= Whole' => answers'[i] = answered'[i]
      BY <1>1, <1>4, <1>6, <3>1 DEF k
    <3>3. ASSUME Len(answers') <= Whole'
          PROVE  (\E c : IsAnswerCut(c) /\ back = c[Len(answers)])'
      <4>1. PICK cut : IsAnswerCut(cut) /\ back = cut[k]
        BY <1>4, <1>7, <3>1, <3>3 DEF k
      <4>2. IsAnswerCut(cut)'
        BY <1>1, <1>4, <4>1 DEF IsAnswerCut, w
      <4>3. back' = cut[Len(answers')]
        BY <3>1, <4>1 DEF k
      <4> QED
        BY <4>2, <4>3
    <3> QED
      BY <2>2, <2>3, <3>2, <3>3 DEF AnswersInv
  <2> QED
    BY <2>4, <2>5
<1>18. AnswersInv'
    BY <1>16, <1>17
<1> QED
    BY <1>11, <1>15, <1>18 DEF IInv

LEMMA NextIInv == IInv /\ [Next]_vars => IInv'
<1> SUFFICES ASSUME IInv, [Next]_vars PROVE IInv'
    OBVIOUS
<1>1. CASE \E f \in Frames : SendFrame(f)
    BY <1>1, SendFrameIInv
<1>2. CASE \E r \in Answers : Answer(r)
    BY <1>2, AnswerIInv
<1>3. CASE ReceiveFrame
    BY <1>3, ReceiveFrameIInv
<1>4. CASE ReceiveAnswer
    BY <1>4, ReceiveAnswerIInv
<1>5. CASE UNCHANGED vars
    BY <1>5 DEF vars, IInv, TypeOK, FramesInv, IsFrameCut, AnswersInv, IsAnswerCut, Whole
<1> QED
    BY <1>1, <1>2, <1>3, <1>4, <1>5 DEF Next

LEMMA SpecIInv == Spec => []IInv
    BY InitIInv, NextIInv, PTL DEF Spec

----------------------------------------------------------------------------
(* What holds in every state.                                              *)

LEMMA FirstOfFacts ==
    ASSUME NEW S, NEW q \in Seq(S), NEW n \in Nat
    PROVE  LET m == IF n < Len(q) THEN n ELSE Len(q)
           IN  /\ FirstOf(q, n) \in Seq(S)
               /\ Len(FirstOf(q, n)) = m
               /\ \A i \in 1..m : FirstOf(q, n)[i] = q[i]
    BY DEF FirstOf

\* The streams carry bytes, and what is read has the form of what is sent.
THEOREM TypeCorrect == Spec => []TypeOK
    BY SpecIInv, PTL DEF IInv

\* Messages and requests are read as they were sent and in that order, none is
\* lost, and the reader never meets what it cannot read: whatever was sent and
\* whatever could not be encoded.
THEOREM FramesAlwaysInStep == Spec => []FramesInStep
<1>1. ASSUME IInv PROVE FramesInStep
  <2>1. /\ Len(got) <= Len(sent) /\ Len(got) \in Nat /\ Len(sent) \in Nat
        /\ got \in Seq(Frames) /\ sent \in Seq(Frames)
        /\ \A i \in 1..Len(got) : got[i] = sent[i]
        /\ "frames" \notin broken
    BY <1>1 DEF IInv, TypeOK, FramesInv
  <2>2. /\ FirstOf(sent, Len(got)) \in Seq(Frames)
        /\ Len(FirstOf(sent, Len(got))) = Len(got)
        /\ \A i \in 1..Len(got) : FirstOf(sent, Len(got))[i] = sent[i]
    BY <2>1, FirstOfFacts
  <2>3. got = FirstOf(sent, Len(got))
    BY <2>1, <2>2, SeqEqual
  <2>4. CASE Len(got) = Len(sent)
    <3>1. got = sent
      BY <2>1, <2>4, SeqEqual
    <3> QED
      BY <2>1, <2>3, <3>1 DEF FramesInStep
  <2>5. CASE Len(got) # Len(sent)
    <3> DEFINE n == Len(got)
    <3>1. n + 1 \in 1..Len(sent) /\ (n + 1) - 1 = n /\ n + 1 \in 0..Len(sent)
      BY <2>1, <2>5
    <3>2. PICK cut : IsFrameCut(cut) /\ wire = cut[n]
      BY <1>1 DEF IInv, FramesInv
    <3>3. wire = EncodeFrame(sent[n + 1]).bytes \o cut[n + 1] /\ cut[n + 1] \in Bytes
      BY <3>1, <3>2 DEF IsFrameCut
    <3>4. sent[n + 1] \in Frames /\ EncodeFrame(sent[n + 1]).ok
      BY <1>1, <2>1, <3>1 DEF IInv, FramesInv
    <3>5. DecodeFrame(wire) = Decoded(sent[n + 1], cut[n + 1])
      BY <3>3, <3>4, FrameFacts
    <3>6. DecodeFrame(wire).end = "ok"
      BY <3>5 DEF Decoded
    <3> QED
      BY <2>1, <2>3, <3>6 DEF FramesInStep
  <2> QED
    BY <2>4, <2>5
<1> QED
    BY <1>1, SpecIInv, PTL

\* The responses before the first one that could not be encoded are all read,
\* as they were sent and in that order, and nothing else is read when there is
\* no such response.
THEOREM AnswersAlwaysInStep == Spec => []AnswersInStep
<1>1. ASSUME IInv PROVE AnswersInStep
  <2> DEFINE k == Len(answers)
             w == Whole
             S == Read \cup Answers
             whole == FirstOf(answered, torn)
             m == IF k < w THEN k ELSE w
  <2>1. /\ w \in 0..Len(answered) /\ k \in Nat /\ torn \in Nat
        /\ answers \in Seq(S) /\ answered \in Seq(S)
        /\ \A i \in 1..Len(answered) : answered[i] \in Answers
    BY <1>1, WholeFacts DEF IInv, TypeOK
  <2>2. \A i \in 1..k : i <= w => answers[i] = answered[i]
    BY <1>1 DEF IInv, AnswersInv
  <2>3. torn = MaxSent => "answers" \notin broken /\ k <= w
    BY <1>1 DEF IInv, AnswersInv
  <2>4. whole \in Seq(S) /\ Len(whole) = w /\ \A i \in 1..w : whole[i] = answered[i]
    BY <2>1, FirstOfFacts DEF Whole
  <2> HIDE DEF k, w, S, whole
  <2>5. FirstOf(answers, w) = FirstOf(whole, k)
    <3>1. w \in Nat
      BY <2>1
    <3>2. /\ FirstOf(answers, w) \in Seq(S)
          /\ Len(FirstOf(answers, w)) = m
          /\ \A i \in 1..m : FirstOf(answers, w)[i] = answers[i]
      <4>1. m = IF w < Len(answers) THEN w ELSE Len(answers)
        BY <2>1, <3>1 DEF k
      <4> QED
        BY <2>1, <3>1, <4>1, FirstOfFacts
    <3>3. /\ FirstOf(whole, k) \in Seq(S)
          /\ Len(FirstOf(whole, k)) = m
          /\ \A i \in 1..m : FirstOf(whole, k)[i] = whole[i]
      <4>1. m = IF k < Len(whole) THEN k ELSE Len(whole)
        BY <2>4
      <4> QED
        BY <2>1, <2>4, <4>1, FirstOfFacts
    <3>4. \A i \in 1..m : i \in 1..k /\ i <= w /\ i \in 1..w
      BY <2>1, <3>1
    <3>5. \A i \in 1..m : answers[i] = whole[i]
      BY <2>2, <2>4, <3>4
    <3> HIDE DEF m
    <3> QED
      BY <3>2, <3>3, <3>5, SeqEqual
  <2>6. CASE k < w
    <3>1. PICK cut : IsAnswerCut(cut) /\ back = cut[k]
      BY <1>1, <2>1, <2>6 DEF IInv, AnswersInv, k, w
    <3>2. k + 1 \in 1..w /\ (k + 1) - 1 = k /\ k + 1 \in 0..w /\ k + 1 \in 1..Len(answered)
      BY <2>1, <2>6
    <3>3. back = EncodeAnswer(answered[k + 1]).bytes \o cut[k + 1] /\ cut[k + 1] \in Bytes
      BY <3>1, <3>2 DEF IsAnswerCut, w
    <3>4. answered[k + 1] \in Answers /\ EncodeAnswer(answered[k + 1]).ok
      BY <1>1, <2>1, <3>2 DEF IInv, AnswersInv, w
    <3>5. DecodeAnswer(back) = Decoded(answered[k + 1], cut[k + 1])
      BY <3>3, <3>4, AnswerFacts
    <3>6. DecodeAnswer(back).end = "ok"
      BY <3>5 DEF Decoded
    <3> QED
      BY <2>3, <2>4, <2>5, <3>6 DEF AnswersInStep, k, whole
  <2>7. CASE ~ (k < w)
    <3>1. k >= w
      BY <2>1, <2>7
    <3> QED
      BY <2>3, <2>4, <2>5, <3>1 DEF AnswersInStep, k, whole
  <2> QED
    BY <2>6, <2>7
<1> QED
    BY <1>1, SpecIInv, PTL

\* Integers of variable length are read back as they were written, negative ones
\* too, whatever follows them; what cannot be written leaves no bytes.
THEOREM IntsAlwaysRoundTrip == Spec => []IntsRoundTrip
<1>1. ASSUME IInv PROVE IntsRoundTrip
  <2>1. SUFFICES ASSUME NEW max \in 1..(Base - 1), NEW signed \in BOOLEAN,
                        NEW v \in -(Power[max] + 1)..(Power[max] + 1)
                 PROVE  LET e == EncodeVar(v, max, signed)
                        IN  /\ e.ok => DecodeVar(e.bytes \o back, max, signed) = Decoded(v, back)
                            /\ ~e.ok => e.bytes = <<>>
                            /\ ~signed /\ Fits(v, max, FALSE) => e.ok
    BY DEF IntsRoundTrip
  <2>2. v \in Int
    OBVIOUS
  <2>3. back \in Bytes
    BY <1>1 DEF IInv, TypeOK
  <2> QED
    BY <2>2, <2>3, VarInverts
<1> QED
    BY <1>1, SpecIInv, PTL

=============================================================================
