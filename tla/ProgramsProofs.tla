--------------------------- MODULE ProgramsProofs ---------------------------
(***************************************************************************)
(* Proofs about modules RawDriver, Examples and Programs: that integers and *)
(* speeds survive their bytes, that a command that is acknowledged has set  *)
(* its register, and that a profile is pushed in order.                     *)
(*                                                                         *)
(* The functions of RawDriver are recursive.  That they exist, and what     *)
(* they compute, is proved by induction; the library's induction theorems   *)
(* take an operator, so induction is over sets here: a set with 0 and the   *)
(* successors of its members holds every natural number, because the order  *)
(* of the natural numbers is well-founded.                                  *)
(*                                                                         *)
(* A program is sane when its rows fit (their arguments in the bytes of     *)
(* their commands) and a row that fails goes on in a row of the program.    *)
(* Every program of the table is: it is put together from sane pieces.      *)
(***************************************************************************)
EXTENDS Programs, WellFoundedInduction, TLAPS

Less == {ss \in Nat \X Nat : ss[1] < ss[2]}

\* A set with 0 and the successor of each of its members holds every natural number.
LEMMA Successors ==
    ASSUME NEW T, 0 \in T, \A k \in Nat : k \in T => k + 1 \in T
    PROVE  Nat \subseteq T
PROOF
<1>1. SUFFICES ASSUME Nat \ T # {} PROVE FALSE
      OBVIOUS
<1>2. IsWellFoundedOn(Less, Nat)
  <2>1. OpToRel(<, Nat) = Less
        BY DEF OpToRel, Less
  <2> QED BY <2>1, NatLessThanWellFounded, Zenon
<1>3. PICK x \in Nat \ T : \A y \in Nat \ T : <<y, x>> \notin Less
      BY <1>1, <1>2, WFMin, Zenon
<1>4. x \in Nat /\ x # 0
      BY <1>3
<1>5. x - 1 \in Nat /\ <<x - 1, x>> \in Less
      BY <1>4 DEF Less
<1>6. x - 1 \in T /\ (x - 1) + 1 = x
      BY <1>3, <1>4, <1>5
<1>7. x \in T
      BY <1>5, <1>6
<1> QED BY <1>3, <1>7

\* A start and a function for the step make a recursive function.
RunOf(S, b, step, n) ==
    {f \in [0..n -> S] : f[0] = b /\ \A k \in 0..(n - 1) : f[k + 1] = step[<<k, f[k]>>]}

LEMMA RunsExist ==
    ASSUME NEW S, NEW b \in S, NEW step \in [Nat \X S -> S]
    PROVE  \A n \in Nat : RunOf(S, b, step, n) # {}
PROOF
<1> DEFINE T == {n \in Nat : RunOf(S, b, step, n) # {}}
<1>1. 0 \in T
  <2> DEFINE f == [k \in 0..0 |-> b]
  <2>1. f \in RunOf(S, b, step, 0)
        BY DEF RunOf
  <2> QED BY <2>1
<1>2. ASSUME NEW n \in Nat, n \in T PROVE n + 1 \in T
  <2>1. PICK f \in [0..n -> S] : f[0] = b /\ \A k \in 0..(n - 1) : f[k + 1] = step[<<k, f[k]>>]
        BY <1>2 DEF RunOf
  <2> DEFINE g == [k \in 0..(n + 1) |-> IF k = n + 1 THEN step[<<n, f[n]>>] ELSE f[k]]
  <2>2. g \in [0..(n + 1) -> S]
        BY <2>1
  <2>3. g[0] = b
        BY <2>1
  <2>4. ASSUME NEW k \in 0..n PROVE g[k + 1] = step[<<k, g[k]>>]
    <3>1. CASE k = n
      <4>1. g[n + 1] = step[<<n, f[n]>>] /\ n # n + 1 /\ n \in 0..(n + 1)
            OBVIOUS
      <4> QED BY <3>1, <4>1
    <3>2. CASE k # n
      <4>1. k \in 0..(n - 1) /\ k + 1 # n + 1 /\ k + 1 \in 0..(n + 1) /\ k \in 0..(n + 1) /\ k # n + 1
            BY <3>2
      <4>2. g[k] = f[k]
            BY <4>1
      <4>3. g[k + 1] = f[k + 1]
            BY <4>1
      <4> QED BY <2>1, <4>1, <4>2, <4>3
    <3> QED BY <3>1, <3>2
  <2>5. g \in RunOf(S, b, step, n + 1)
    <3> HIDE DEF g
    <3> QED BY <2>2, <2>3, <2>4 DEF RunOf
  <2> QED BY <2>5
<1> QED BY <1>1, <1>2, Successors

\* Two runs agree as far as both go.
LEMMA RunsAgree ==
    ASSUME NEW S, NEW b \in S, NEW step \in [Nat \X S -> S], NEW m \in Nat, NEW n \in Nat,
           NEW f \in RunOf(S, b, step, m), NEW g \in RunOf(S, b, step, n)
    PROVE  \A k \in Nat : k <= m /\ k <= n => f[k] = g[k]
PROOF
<1> DEFINE T == {k \in Nat : k <= m /\ k <= n => f[k] = g[k]}
<1>1. 0 \in T
      BY DEF RunOf
<1>2. ASSUME NEW k \in Nat, k \in T PROVE k + 1 \in T
  <2>1. SUFFICES ASSUME k + 1 <= m, k + 1 <= n PROVE f[k + 1] = g[k + 1]
        BY DEF T
  <2>2. f[k] = g[k] /\ k \in 0..(m - 1) /\ k \in 0..(n - 1)
        BY <1>2, <2>1
  <2> QED BY <2>2 DEF RunOf
<1> HIDE DEF T
<1>3. Nat \subseteq T
      BY <1>1, <1>2, Successors
<1> QED BY <1>3 DEF T

Endless(S, b, step) ==
    {f \in [Nat -> S] : f[0] = b /\ \A k \in Nat : f[k + 1] = step[<<k, f[k]>>]}

LEMMA Recursion ==
    ASSUME NEW S, NEW b \in S, NEW step \in [Nat \X S -> S]
    PROVE  Endless(S, b, step) # {}
PROOF
<1> DEFINE upTo(n) == CHOOSE f : f \in RunOf(S, b, step, n)
           f == [n \in Nat |-> upTo(n)[n]]
<1>1. ASSUME NEW n \in Nat PROVE upTo(n) \in RunOf(S, b, step, n)
      BY RunsExist
<1>2. f \in [Nat -> S]
      BY <1>1 DEF RunOf
<1>3. f[0] = b
      BY <1>1 DEF RunOf
<1>4. ASSUME NEW k \in Nat PROVE f[k + 1] = step[<<k, f[k]>>]
  <2> HIDE DEF upTo
  <2>1. upTo(k + 1) \in RunOf(S, b, step, k + 1) /\ upTo(k) \in RunOf(S, b, step, k)
        BY <1>1
  <2>2. upTo(k + 1)[k] = upTo(k)[k]
    <3>1. k <= k /\ k <= k + 1 /\ k + 1 \in Nat
          OBVIOUS
    <3>2. \A j \in Nat : j <= k + 1 /\ j <= k => upTo(k + 1)[j] = upTo(k)[j]
          BY <2>1, <3>1, RunsAgree
    <3> QED BY <3>1, <3>2
  <2>3. upTo(k + 1)[k + 1] = step[<<k, upTo(k + 1)[k]>>]
        BY <2>1 DEF RunOf
  <2> QED BY <2>2, <2>3
<1>5. f \in Endless(S, b, step)
  <2> HIDE DEF f
  <2> QED BY <1>2, <1>3, <1>4 DEF Endless
<1> QED BY <1>5

----------------------------------------------------------------------------
(* Integers in bytes.                                                       *)

LEMMA ByteType == Byte \in Nat /\ Byte >= 2 /\ 2 * (Byte \div 2) = Byte /\ Nibble \in Nat \ {0}
PROOF BY DriverAssumption

LEMMA PowerType ==
    /\ Power[0] = 1
    /\ \A k \in Nat : Power[k] \in Nat \ {0} /\ Power[k + 1] = Byte * Power[k]
PROOF
<1> DEFINE P(f) == f = [k \in Nat |-> IF k = 0 THEN 1 ELSE Byte * f[k - 1]]
           step == [p \in Nat \X Nat |-> Byte * p[2]]
<1>1. step \in [Nat \X Nat -> Nat]
      BY ByteType
<1>2. PICK f \in [Nat -> Nat] : f[0] = 1 /\ \A k \in Nat : f[k + 1] = step[<<k, f[k]>>]
  <2>1. Endless(Nat, 1, step) # {}
    <3> HIDE DEF step
    <3>1. 1 \in Nat
          OBVIOUS
    <3> QED BY <1>1, <3>1, Recursion
  <2> QED BY <2>1 DEF Endless
<1>3. P(f)
  <2>1. ASSUME NEW k \in Nat PROVE f[k] = IF k = 0 THEN 1 ELSE Byte * f[k - 1]
    <3>1. CASE k = 0
          BY <1>2, <3>1
    <3>2. CASE k # 0
      <4>1. k - 1 \in Nat /\ (k - 1) + 1 = k
            BY <3>2
      <4>2. f[k] = step[<<k - 1, f[k - 1]>>]
            BY <1>2, <4>1
      <4> QED BY <1>2, <3>2, <4>1, <4>2
    <3> QED BY <3>1, <3>2
  <2> QED BY <1>2, <2>1
<1>4. P(Power)
  <2>1. Power = CHOOSE g : P(g)
        BY DEF Power
  <2> HIDE DEF P
  <2> QED BY <1>3, <2>1
<1>5. Power[0] = 1 /\ \A k \in Nat : Power[k + 1] = Byte * Power[k]
  <2>1. \A k \in Nat : Power[k] = IF k = 0 THEN 1 ELSE Byte * Power[k - 1]
        BY <1>4
  <2>2. ASSUME NEW k \in Nat PROVE Power[k + 1] = Byte * Power[k]
    <3>1. k + 1 \in Nat /\ k + 1 # 0 /\ (k + 1) - 1 = k
          OBVIOUS
    <3> QED BY <2>1, <3>1
  <2> QED BY <2>1, <2>2
<1> DEFINE T == {k \in Nat : Power[k] \in Nat \ {0}}
<1>6. 0 \in T
      BY <1>5
<1>7. ASSUME NEW k \in Nat, k \in T PROVE k + 1 \in T
  <2> DEFINE n == Power[k]
  <2>1. n \in Nat /\ n >= 1
        BY <1>7
  <2>2. Byte * n \in Nat /\ Byte * n # 0
    <3> HIDE DEF n
    <3> QED BY <2>1, ByteType
  <2> QED BY <1>5, <2>2
<1>8. Nat \subseteq T
  <2> HIDE DEF T
  <2> QED BY <1>6, <1>7, Successors
<1> QED BY <1>5, <1>8

\* To divide by Byte^(k + 1) is to divide by Byte^k, and then by Byte.
LEMMA Division ==
    ASSUME NEW n \in Int, NEW m \in Nat \ {0}
    PROVE  n \div m \in Int /\ (n % m) \in 0..(m - 1) /\ n = (n \div m) * m + (n % m)
PROOF OBVIOUS

LEMMA DivisionIsUnique ==
    ASSUME NEW m \in Nat \ {0}, NEW p \in Int, NEW q \in Int, NEW r \in 0..(m - 1), NEW s \in 0..(m - 1),
           p * m + r = q * m + s
    PROVE  p = q
PROOF
<1>1. SUFFICES ASSUME NEW a \in Int, NEW b \in Int, NEW c \in 0..(m - 1), NEW d \in 0..(m - 1),
                      a * m + c = b * m + d, a < b
               PROVE  FALSE
      BY <1>1
<1>2. PICK e \in Nat : b = a + 1 + e
      BY <1>1
<1>3. b * m = a * m + m + e * m
      BY <1>2
<1>4. e * m >= 0
      OBVIOUS
<1>5. a * m \in Int /\ e * m \in Int
      BY <1>2
<1> QED BY <1>1, <1>3, <1>4, <1>5

LEMMA Quotients ==
    ASSUME NEW n \in Int, NEW k \in Nat
    PROVE  n \div Power[k] = (n \div Power[k + 1]) * Byte + ((n \div Power[k]) % Byte)
PROOF
<1> DEFINE m == Power[k]
           q == n \div m
           r == n % m
           high == q \div Byte
           low == q % Byte
<1>1. m \in Nat \ {0} /\ Power[k + 1] = Byte * m /\ Byte \in Nat \ {0}
      BY PowerType, ByteType
<1>2. q \in Int /\ r \in 0..(m - 1) /\ n = q * m + r
  <2> HIDE DEF m
  <2> QED BY <1>1, Division
<1>3. high \in Int /\ low \in 0..(Byte - 1) /\ q = high * Byte + low
  <2> HIDE DEF q
  <2> QED BY <1>1, <1>2, Division
<1> DEFINE t == Byte * m
           rest == low * m + r
<1>4. n = high * t + rest
  <2> HIDE DEF m, q, r, high, low
  <2>1. (high * Byte + low) * m = high * (Byte * m) + low * m
        BY <1>1, <1>3
  <2>2. high * (Byte * m) \in Int /\ low * m \in Int
        BY <1>1, <1>3
  <2>3. n = (high * Byte + low) * m + r
        BY <1>2, <1>3
  <2> QED BY <1>2, <2>1, <2>2, <2>3
<1>5. rest \in 0..(t - 1) /\ t \in Nat \ {0}
  <2> HIDE DEF m, q, r, high, low
  <2>1. low * m \in Nat /\ Byte * m \in Nat
        BY <1>1, <1>3
  <2> DEFINE d == Byte - (low + 1)
  <2>2. d \in Nat /\ Byte = low + 1 + d
        BY <1>1, <1>3
  <2> HIDE DEF d
  <2>3. Byte * m = low * m + m + d * m /\ d * m \in Nat
        BY <1>1, <1>3, <2>2
  <2> QED BY <1>1, <1>2, <2>1, <2>3
<1>6. n \div t \in Int /\ (n % t) \in 0..(t - 1) /\ n = (n \div t) * t + (n % t)
  <2> HIDE DEF t
  <2> QED BY <1>5, Division
<1>7. n \div t = high
  <2> HIDE DEF t, rest, high
  <2> QED BY <1>3, <1>4, <1>5, <1>6, DivisionIsUnique
<1> QED BY <1>1, <1>3, <1>7

\* An integer that fits in its bytes, signed or unsigned, is the integer that
\* decode_int_be() reads from them, whatever their number.
Fits(n, width, signed) ==
    IF signed THEN -(Power[width] \div 2) <= n /\ n < Power[width] \div 2
    ELSE 0 <= n /\ n < Power[width]

THEOREM IntegersSurvive ==
    ASSUME NEW width \in Nat \ {0}, NEW n \in Int, NEW signed \in BOOLEAN, Fits(n, width, signed)
    PROVE  DecodeIntBE(Bytes(n, width), signed) = n
PROOF
<1> DEFINE bytes == Bytes(n, width)
           top == Power[width]
           P(f) == f = [i \in 0..width |-> IF i = 0 THEN 0 ELSE f[i - 1] * Byte + bytes[i]]
           u == CHOOSE f : P(f)
           step == [p \in Nat \X Int |-> IF p[1] < width THEN p[2] * Byte + bytes[p[1] + 1] ELSE 0]
<1>1. bytes \in [1..width -> Nat] /\ Len(bytes) = width
  <2>1. ASSUME NEW i \in 1..width PROVE (n \div Power[width - i]) % Byte \in Nat
        BY PowerType, ByteType
  <2> QED BY <2>1 DEF Bytes
<1>2. PICK g \in [Nat -> Int] : g[0] = 0 /\ \A k \in Nat : g[k + 1] = step[<<k, g[k]>>]
  <2>1. step \in [Nat \X Int -> Int]
    <3> HIDE DEF bytes
    <3> QED BY <1>1, ByteType
  <2>2. Endless(Int, 0, step) # {}
    <3> HIDE DEF step
    <3>1. 0 \in Int
          OBVIOUS
    <3> QED BY <2>1, <3>1, Recursion
  <2> QED BY <2>2 DEF Endless
<1>3. P([i \in 0..width |-> g[i]])
  <2> HIDE DEF bytes
  <2>1. ASSUME NEW i \in 0..width PROVE g[i] = IF i = 0 THEN 0 ELSE g[i - 1] * Byte + bytes[i]
    <3>1. CASE i = 0
          BY <1>2, <3>1
    <3>2. CASE i # 0
      <4>1. i - 1 \in Nat /\ (i - 1) + 1 = i /\ i - 1 < width
            BY <3>2
      <4>2. g[i] = step[<<i - 1, g[i - 1]>>] /\ g[i - 1] \in Int
            BY <1>2, <4>1
      <4>3. step[<<i - 1, g[i - 1]>>] = g[i - 1] * Byte + bytes[i]
            BY <4>1, <4>2
      <4> QED BY <3>2, <4>2, <4>3
    <3> QED BY <3>1, <3>2
  <2>2. ASSUME NEW i \in 0..width, i # 0 PROVE i - 1 \in 0..width
        BY <2>2
  <2> QED BY <2>1, <2>2
<1>4. P(u)
  <2> HIDE DEF P
  <2> QED BY <1>3
<1>5. /\ u[0] = 0
      /\ \A i \in Nat : i < width => u[i + 1] = u[i] * Byte + bytes[i + 1]
  <2> HIDE DEF u, bytes
  <2>1. \A i \in 0..width : u[i] = IF i = 0 THEN 0 ELSE u[i - 1] * Byte + bytes[i]
        BY <1>4
  <2>2. ASSUME NEW i \in Nat, i < width PROVE u[i + 1] = u[i] * Byte + bytes[i + 1]
    <3>1. i + 1 \in 0..width /\ i + 1 # 0 /\ (i + 1) - 1 = i
          BY <2>2
    <3> QED BY <2>1, <3>1
  <2> QED BY <2>1, <2>2
<1>6. DecodeIntBE(bytes, signed) = IF signed /\ u[width] >= top \div 2 THEN u[width] - top ELSE u[width]
  <2> HIDE DEF bytes
  <2> QED BY <1>1 DEF DecodeIntBE
<1>7. /\ n \div top \in Int /\ u[width] \in 0..(top - 1) /\ top \in Nat \ {0}
      /\ n = (n \div top) * top + u[width]
  <2> DEFINE T == {i \in Nat : i <= width =>
                     /\ u[i] \in 0..(Power[i] - 1)
                     /\ n \div Power[width - i] = (n \div top) * Power[i] + u[i]}
  <2>1. top \in Nat \ {0} /\ n \div top \in Int
        BY PowerType, Division
  <2>2. 0 \in T
    <3> HIDE DEF top, u
    <3>1. width - 0 = width /\ (n \div top) * 1 + 0 = n \div top
          BY <2>1
    <3> QED BY <1>5, <3>1, PowerType DEF top
  <2>3. ASSUME NEW i \in Nat, i \in T, i + 1 <= width PROVE
             /\ u[i + 1] \in 0..(Power[i + 1] - 1)
             /\ n \div Power[width - (i + 1)] = (n \div top) * Power[i + 1] + u[i + 1]
    <3> DEFINE k == width - (i + 1)
               p == Power[i]
               low == (n \div Power[k]) % Byte
    <3>1. k \in Nat /\ k + 1 = width - i /\ i < width
          BY <2>3
    <3>2. p \in Nat \ {0} /\ Power[i + 1] = Byte * p /\ Power[k] \in Nat \ {0}
          BY <3>1, PowerType
    <3>3. low \in 0..(Byte - 1)
      <4>1. n \div Power[k] \in Int
        <5> HIDE DEF k
        <5> QED BY <3>2, Division
      <4>2. Byte \in Nat \ {0}
            BY ByteType
      <4> DEFINE q == n \div Power[k]
      <4> HIDE DEF q
      <4> QED BY <4>1, <4>2, Division DEF q
    <3>4. bytes[i + 1] = low
          BY <3>1 DEF Bytes
    <3>5. u[i] \in 0..(p - 1) /\ n \div Power[k + 1] = (n \div top) * p + u[i]
      <4> HIDE DEF u, top, k
      <4> QED BY <2>3, <3>1
    <3>6. n \div Power[k] = (n \div Power[k + 1]) * Byte + low
      <4> HIDE DEF k
      <4> QED BY <3>1, Quotients
    <3>7. u[i + 1] = u[i] * Byte + low
      <4> HIDE DEF u, low, bytes
      <4> QED BY <1>5, <3>1, <3>4
    <3> DEFINE q == n \div top
    <3>8. n \div Power[k] = q * (Byte * p) + (u[i] * Byte + low)
      <4> HIDE DEF u, low, k, p, q
      <4>1. (q * p + u[i]) * Byte = q * (Byte * p) + u[i] * Byte
        <5>1. q \in Int /\ u[i] \in Int /\ p \in Int /\ Byte \in Int
              BY <2>1, <3>2, <3>5, ByteType DEF q
        <5> QED BY <5>1
      <4>2. q * (Byte * p) \in Int /\ u[i] * Byte \in Int
            BY <2>1, <3>2, <3>5, ByteType DEF q
      <4> QED BY <3>3, <3>5, <3>6, <4>1, <4>2 DEF q
    <3>9. u[i] * Byte + low \in 0..(Byte * p - 1)
      <4> HIDE DEF u, low, k, p
      <4> DEFINE d == p - (u[i] + 1)
      <4>1. d \in Nat /\ p = u[i] + 1 + d
            BY <3>2, <3>5
      <4> HIDE DEF d
      <4>2. Byte * p = u[i] * Byte + Byte + Byte * d /\ Byte * d \in Nat /\ u[i] * Byte \in Nat
            BY <3>5, <4>1, ByteType
      <4> QED BY <3>3, <4>2, ByteType
    <3> HIDE DEF u, low
    <3> QED BY <3>2, <3>7, <3>8, <3>9
  <2>4. \A i \in Nat : i \in T => i + 1 \in T
    <3> HIDE DEF u
    <3> QED BY <2>3
  <2>5. width \in T
    <3> HIDE DEF T
    <3> QED BY <2>2, <2>4, Successors
  <2>6. width - width = 0 /\ n \div 1 = n
        OBVIOUS
  <2> HIDE DEF u
  <2> QED BY <2>1, <2>5, <2>6, PowerType
<1>8. top = 2 * (top \div 2) /\ top \div 2 \in Nat
  <2> DEFINE p == Power[width - 1]
             half == Byte \div 2
  <2>1. width - 1 \in Nat /\ (width - 1) + 1 = width
        OBVIOUS
  <2>2. p \in Nat /\ top = Byte * p
        BY <2>1, PowerType
  <2>3. half \in Nat /\ Byte = 2 * half
        BY ByteType
  <2>4. top = 2 * (half * p) /\ half * p \in Nat
    <3> HIDE DEF p, half
    <3> QED BY <2>2, <2>3
  <2> QED BY <2>4
<1> DEFINE value == u[width]
           q == n \div top
           half == top \div 2
<1> HIDE DEF u, top, value, q, half, bytes
<1>9. /\ q \in Int /\ value \in 0..(top - 1) /\ top \in Nat \ {0} /\ n = q * top + value
      /\ top = 2 * half /\ half \in Nat
      BY <1>7, <1>8 DEF value, q, half
<1>10. CASE signed /\ n < 0
  <2>1. n + top \in 0..(top - 1) /\ n = -1 * top + (n + top) /\ n + top >= half
        BY <1>9, <1>10 DEF Fits, top, half
  <2>2. q = -1
        BY <1>9, <2>1, DivisionIsUnique
  <2>3. value = n + top
        BY <1>9, <2>2
  <2> QED BY <1>6, <1>9, <1>10, <2>1, <2>3 DEF value, half, bytes
<1>11. CASE ~(signed /\ n < 0)
  <2>1. n \in 0..(top - 1) /\ n = 0 * top + n /\ (signed => n < half)
        BY <1>9, <1>11 DEF Fits, top, half
  <2>2. q = 0
        BY <1>9, <2>1, DivisionIsUnique
  <2>3. value = n
        BY <1>9, <2>1, <2>2
  <2> QED BY <1>6, <1>9, <2>1, <2>3 DEF value, half, bytes
<1> QED BY <1>10, <1>11

\* The two parts of a speed, the high one in its nibble, make it up again.
LEMMA SpeedParts ==
    ASSUME NEW n \in Nat, n < Byte * Nibble
    PROVE  /\ (n \div Byte) % Nibble = n \div Byte
           /\ n \div Byte \in Nat /\ n \div Byte < Nibble
           /\ (n \div Byte) * Byte + (n % Byte) = n
PROOF
<1>1. Byte \in Nat /\ Byte > 0 /\ Nibble \in Nat /\ Nibble > 0
      BY DriverAssumption
<1>2. DEFINE high == n \div Byte
             low == n % Byte
<1>3. high \in Int /\ low \in 0..(Byte - 1) /\ n = Byte * high + low
      BY <1>1
<1>4. high >= 0
  <2>1. SUFFICES ASSUME high <= -1 PROVE FALSE
        BY <1>3
  <2>2. Byte * high <= -Byte
        BY <1>1, <1>3, <2>1
  <2> QED BY <1>1, <1>3, <2>2
<1>5. high < Nibble
  <2>1. SUFFICES ASSUME high >= Nibble PROVE FALSE
        BY <1>1, <1>3
  <2>2. Byte * high >= Byte * Nibble
        BY <1>1, <1>3, <2>1
  <2> QED BY <1>1, <1>3, <2>2
<1>6. high % Nibble = high
      BY <1>1, <1>3, <1>4, <1>5
<1>7. high * Byte + low = n
      BY <1>1, <1>3
<1>8. high \in Nat
  <2> HIDE DEF high
  <2> QED BY <1>3, <1>4
<1> QED BY <1>5, <1>6, <1>7, <1>8, Zenon

\* move_speed(): any speed that fits in its byte and nibble, in either direction,
\* is the speed that the firmware reads from the bytes, for any width of a byte:
\* the direction bit and the high part, which share a byte, do not disturb each
\* other (raw_driver.hpp:228-231).
THEOREM SpeedSurvives ==
    ASSUME NEW rpm \in Int, NEW acc,
           -(Byte * Nibble) < rpm, rpm < Byte * Nibble
    PROVE  SpeedIn(EncodeSpeed(rpm, acc)) = rpm
PROOF
<1> DEFINE n == IF rpm < 0 THEN -rpm ELSE rpm
           high == n \div Byte
           low == n % Byte
           half == Byte \div 2
<1>1. Byte \in Nat /\ Byte > 0 /\ Nibble \in Nat /\ Nibble > 0
      BY DriverAssumption
<1>2. n \in Nat /\ n < Byte * Nibble
      BY <1>1
<1>3. high % Nibble = high /\ high \in Nat /\ high < Nibble /\ high * Byte + low = n
  <2> HIDE DEF n
  <2> QED BY <1>2, SpeedParts, Zenon
<1>4. half \in Nat /\ Nibble <= half
      BY DriverAssumption, <1>1
<1>5. CASE rpm < 0
  <2>1. EncodeSpeed(rpm, acc) = <<half + high, low, acc>>
        BY <1>3, <1>5 DEF EncodeSpeed
  <2>2. half + high >= half /\ half + high - half = high
        BY <1>3, <1>4
  <2>3. SpeedIn(<<half + high, low, acc>>) = -(high * Byte + low)
    <3>1. low \in Int /\ half \in Int /\ high \in Int
          BY <1>1, <1>2, <1>3, <1>4
    <3>2. SpeedIn(<<half + high, low, acc>>) = -((half + high - half) * Byte + low)
          BY <2>2, <3>1 DEF SpeedIn
    <3> QED BY <2>2, <3>2, Zenon
  <2> QED BY <2>1, <2>3, <1>3, <1>5
<1>6. CASE rpm >= 0
  <2>1. EncodeSpeed(rpm, acc) = <<high, low, acc>>
        BY <1>3, <1>6 DEF EncodeSpeed
  <2>2. ~(high >= half)
    <3> HIDE DEF high, half
    <3> QED BY <1>1, <1>3, <1>4
  <2>3. SpeedIn(<<high, low, acc>>) = high * Byte + low
        BY <2>2 DEF SpeedIn
  <2> QED BY <2>1, <2>3, <1>3, <1>6
<1> QED BY <1>5, <1>6

----------------------------------------------------------------------------
(* Commands and registers.                                                  *)

Commands == Setters \cup {"turn", "stop", "release", "protect", "restart", "defaults", "zero", "read"}

\* The arguments that fit in the bytes of a command.
Fitting(op) ==
    CASE op = "enable"  -> BOOLEAN
      [] op = "speed"   -> {n \in Int : -(Byte * Nibble) < n /\ n < Byte * Nibble}
      [] op = "move"    -> {n \in Int : Fits(n, 4, TRUE)}
      [] op = "current" -> {n \in Int : Fits(n, 2, FALSE)}
      [] op = "micro"   -> 1..Byte
      [] op = "mode"    -> 0..(Byte - 1)

FieldNames == {"on", "rpm", "goal", "latched", "mode", "micro", "current"}
IsFirmware(f) == f = [x \in FieldNames |-> f[x]]

\* A command leaves the registers what they are, and answers.
LEMMA ExecuteType ==
    ASSUME NEW f, IsFirmware(f), NEW op \in Commands, NEW data
    PROVE  /\ IsFirmware(Execute(f, op, data).regs)
           /\ Execute(f, op, data).answer \in {<<0>>, <<1>>}
PROOF
<1>1. DOMAIN f = FieldNames
      BY DEF IsFirmware
<1>2. CASE op \in {"enable", "speed", "move"}
      BY <1>1, <1>2 DEF Execute, IsFirmware, FieldNames
<1>3. CASE op \in {"current", "micro", "mode"}
      BY <1>1, <1>3 DEF Execute, IsFirmware, FieldNames
<1>4. CASE op \in {"turn", "stop", "release", "protect"}
      BY <1>1, <1>4 DEF Execute, IsFirmware, FieldNames
<1>5. CASE op \in {"restart", "defaults", "zero", "read"}
      BY <1>1, <1>5 DEF Execute, IsFirmware, FieldNames
<1> QED BY <1>2, <1>3, <1>4, <1>5 DEF Commands, Setters

\* A setter that the firmware accepts sets its register to what was asked.
LEMMA SetterSets ==
    ASSUME NEW f, IsFirmware(f), NEW op \in Setters, NEW arg \in Fitting(op)
    PROVE  Execute(f, op, Payload(op, arg)).answer = <<1>>
             => Register(Execute(f, op, Payload(op, arg)).regs, op) = arg
PROOF
<1> HAVE Execute(f, op, Payload(op, arg)).answer = <<1>>
<1>1. DOMAIN f = FieldNames
      BY DEF IsFirmware
<1>2. <<0>> # <<1>>
      OBVIOUS
<1>3. CASE op = "enable"
  <2>1. arg = TRUE \/ arg = FALSE
        BY <1>3 DEF Fitting
  <2>2. CASE arg = TRUE
        BY <1>1, <1>3, <2>2 DEF Execute, Payload, Register, FieldNames
  <2>3. CASE arg = FALSE
    <3>1. Payload(op, arg) = <<0>>
          BY <1>3, <2>3 DEF Payload
    <3>2. (<<0>>[1] = 1) = FALSE
          OBVIOUS
    <3>3. Execute(f, op, <<0>>).regs.on = (<<0>>[1] = 1)
          BY <1>1, <1>3 DEF Execute, FieldNames
    <3>4. Execute(f, op, Payload(op, arg)).regs.on = FALSE
          BY <3>1, <3>2, <3>3
    <3> QED BY <1>3, <2>3, <3>4 DEF Register
  <2> QED BY <2>1, <2>2, <2>3
<1>4. CASE op = "speed"
  <2>1. arg \in Int /\ SpeedIn(EncodeSpeed(arg, Acc)) = arg
        BY <1>4, SpeedSurvives DEF Fitting
  <2> QED BY <1>1, <1>2, <1>4, <2>1 DEF Execute, Payload, Register, FieldNames
<1>5. CASE op = "move"
  <2>1. DecodeIntBE(Bytes(arg, 4), TRUE) = arg
    <3>1. Fitting("move") = {n \in Int : Fits(n, 4, TRUE)}
          BY DEF Fitting
    <3>2. arg \in Int /\ Fits(arg, 4, TRUE) /\ TRUE \in BOOLEAN
          BY <1>5, <3>1, Zenon
    <3>3. 4 \in Nat \ {0}
          OBVIOUS
    <3> QED BY <3>2, <3>3, IntegersSurvive, Zenon
  <2>2. SubSeq(EncodeMoveAxis(arg, Rpm, Acc), 4, 7) = Bytes(arg, 4)
        BY DEF EncodeMoveAxis, Bytes
  <2> QED BY <1>1, <1>2, <1>5, <2>1, <2>2 DEF Execute, Payload, Register, FieldNames
<1>6. CASE op = "current"
  <2>1. DecodeIntBE(Bytes(arg, 2), FALSE) = arg
    <3>1. Fitting("current") = {n \in Int : Fits(n, 2, FALSE)}
          BY DEF Fitting
    <3>2. arg \in Int /\ Fits(arg, 2, FALSE) /\ FALSE \in BOOLEAN
          BY <1>6, <3>1, Zenon
    <3>3. 2 \in Nat \ {0}
          OBVIOUS
    <3> QED BY <3>2, <3>3, IntegersSurvive, Zenon
  <2> QED BY <1>1, <1>6, <2>1 DEF Execute, Payload, Register, FieldNames
<1>7. CASE op = "micro"
      BY <1>1, <1>7, ByteType DEF Execute, Payload, Register, Fitting, FieldNames, EncodeSubdivision
<1>8. CASE op = "mode"
      BY <1>1, <1>8 DEF Execute, Payload, Register, Fitting, FieldNames
<1> QED BY <1>3, <1>4, <1>5, <1>6, <1>7, <1>8 DEF Setters

----------------------------------------------------------------------------
(* Rows.                                                                    *)

Fit(op, args) == op \in Setters => \A x \in args : x \in Fitting(op)
Calls == Commands \cup {"clear_and_turn"}
Exits == {"next", "exit", "off"}
Leaving == {"again", "out"}
Sending == {"call", "send"}

\* A row of a line and a command there is, with arguments that fit.  Requests that
\* await no answer set nothing.
RowFits(r) ==
    /\ r = Row(r.kind, r.line, r.op, r.args, r.bad, r.fail)
    /\ r.line \in Buses /\ r.kind # "end"
    /\ r.kind \in Sending => r.op \in Calls /\ Fit(r.op, r.args)
    /\ r.kind = "send" => r.op \notin Setters

\* Rows that may make a motor spin.
Spins(r) == r.kind = "any" \/ (r.kind \in Sending /\ r.op = "speed" /\ r.args # {0})

Plainly(r) == RowFits(r) /\ ~Spins(r) /\ r.kind # "loop" /\ r.fail \in Exits
Skips(r) == RowFits(r) /\ ~Spins(r) /\ r.kind # "loop" /\ r.fail = "skip"
Leaves(r) == RowFits(r) /\ ~Spins(r) /\ r.kind # "loop" /\ r.fail \in Leaving
Loops(r, n) == RowFits(r) /\ r.kind = "loop" /\ r.args = {n} /\ r.fail = "next"
Wild(r) == RowFits(r) /\ Spins(r) /\ r.kind # "loop" /\ r.fail \in {"next", "skip", "again"}

\* A program is sane when its rows fit and it goes on in one of its rows, or ends.
\* It is tame when no row of it can make a motor spin, either.
RowIsTame(rows, i) ==
    \/ Plainly(rows[i])
    \/ Skips(rows[i]) /\ i < Len(rows)
    \/ Leaves(rows[i]) /\ \E j \in i..Len(rows), n \in Nat : Loops(rows[j], n)
    \/ \E n \in Nat : n < i /\ Loops(rows[i], n)
RowIsWild(rows, i) ==
    /\ Wild(rows[i])
    /\ rows[i].fail = "skip" => i < Len(rows)
    /\ rows[i].fail = "again" => \E j \in i..Len(rows), n \in Nat : Loops(rows[j], n)
IsRows(rows) == Len(rows) \in Nat /\ rows = [i \in 1..Len(rows) |-> rows[i]]
Tame(rows) == IsRows(rows) /\ \A i \in 1..Len(rows) : RowIsTame(rows, i)
Sane(rows) == IsRows(rows) /\ \A i \in 1..Len(rows) : RowIsTame(rows, i) \/ RowIsWild(rows, i)

LEMMA TameIsSane == \A rows : Tame(rows) => Sane(rows)
PROOF BY DEF Tame, Sane

LEMMA BusesType == 1 \in Buses /\ 2 \in Buses
PROOF BY LinesAssumption DEF Buses

LEMMA ByteIsWide == Byte >= 8 /\ 30 < Byte * Byte /\ 16 < Power[4] /\ Power[2] = Byte * Byte
PROOF
<1>1. 2 * (Byte * Nibble) <= Byte * Byte
  <2>1. PICK d \in Int : Byte = 2 * Nibble + d /\ d >= 0
    <3>1. Byte = 2 * Nibble + (Byte - 2 * Nibble) /\ Byte - 2 * Nibble \in Int /\ Byte - 2 * Nibble >= 0
          BY DriverAssumption
    <3> QED BY <3>1
  <2>2. Byte * Byte = 2 * (Byte * Nibble) + Byte * d
        BY <2>1, ByteType
  <2>3. Byte * d >= 0 /\ Byte * d \in Int /\ Byte * Nibble \in Int /\ Byte * Byte \in Int
        BY <2>1, ByteType
  <2> QED BY <2>2, <2>3
<1>2. 60 < Byte * Byte
      BY <1>1, SpeedAssumption, ByteType
<1>3. Byte >= 8
  <2>1. SUFFICES ASSUME Byte <= 7 PROVE FALSE
        BY ByteType
  <2>2. Byte * Byte <= 7 * Byte
        BY <2>1, ByteType
  <2> QED BY <1>2, <2>1, <2>2, ByteType
<1>4. /\ Power[1] = Byte /\ Power[2] = Byte * Byte /\ Power[3] = Byte * Power[2]
      /\ Power[4] = Byte * Power[3] /\ Power[3] \in Nat /\ Power[2] \in Nat
  <2>1. /\ 0 + 1 = 1 /\ 1 + 1 = 2 /\ 2 + 1 = 3 /\ 3 + 1 = 4
        /\ 0 \in Nat /\ 1 \in Nat /\ 2 \in Nat /\ 3 \in Nat
        OBVIOUS
  <2>2. \A k \in Nat : Power[k + 1] = Byte * Power[k]
        BY PowerType
  <2>3. Power[1] = Byte * Power[0] /\ Power[2] = Byte * Power[1] /\ Power[3] = Byte * Power[2]
        /\ Power[4] = Byte * Power[3]
        BY <2>1, <2>2
  <2> QED BY <2>1, <2>3, PowerType, ByteType
<1>5. ASSUME NEW k \in Nat, 60 < k PROVE 60 < Byte * k
  <2>1. Byte * k >= 8 * k
        BY <1>3, ByteType
  <2> QED BY <1>5, <2>1, ByteType
<1>6. 60 < Power[3] /\ 60 < Power[4]
  <2>1. 60 < Power[3]
        BY <1>2, <1>4, <1>5
  <2> QED BY <1>4, <1>5, <2>1
<1>7. 16 < Power[4]
      BY <1>4, <1>6, PowerType
<1> QED BY <1>2, <1>3, <1>4, <1>7

\* The arguments of the programs fit.
LEMMA ArgumentsFit ==
    /\ \A args : Fit("turn", args) /\ Fit("stop", args) /\ Fit("release", args)
              /\ Fit("protect", args) /\ Fit("restart", args) /\ Fit("defaults", args)
              /\ Fit("zero", args) /\ Fit("read", args) /\ Fit("clear_and_turn", args)
    /\ Fit("enable", {TRUE}) /\ Fit("enable", {FALSE})
    /\ \A n \in -30..30 : Fit("speed", {n})
    /\ Fit("speed", {3, 30}) /\ Fit("speed", {5, 30})
    /\ \A n \in -8..7 : n \in Fitting("move")
    /\ \A n \in 0..30 : Fit("current", {n})
    /\ Fit("current", {10, 30})
    /\ \A n \in 1..Byte : Fit("micro", {n})
    /\ \A n \in 0..7 : Fit("mode", {n})
    /\ Fit("speed", {0}) /\ Fit("speed", {5}) /\ Fit("speed", {24}) /\ Fit("speed", {30})
    /\ Fit("current", {SafeDefault}) /\ Fit("current", {WorkCurrent})
    /\ Fit("mode", {4}) /\ Fit("mode", {WorkMode}) /\ Fit("micro", {4}) /\ Fit("micro", {Byte})
PROOF
<1>1. \A args : Fit("turn", args) /\ Fit("stop", args) /\ Fit("release", args)
              /\ Fit("protect", args) /\ Fit("restart", args) /\ Fit("defaults", args)
              /\ Fit("zero", args) /\ Fit("read", args) /\ Fit("clear_and_turn", args)
      BY DEF Fit, Setters
<1>2. Fit("enable", {TRUE}) /\ Fit("enable", {FALSE})
  <2>1. Fitting("enable") = BOOLEAN
        BY DEF Fitting
  <2> QED BY <2>1, Zenon DEF Fit
<1>3. \A n \in -30..30 : n \in Fitting("speed")
      BY SpeedAssumption, ByteType DEF Fitting
<1>4. \A n \in 0..30 : n \in Fitting("current")
  <2>1. Fitting("current") = {n \in Int : Fits(n, 2, FALSE)}
        BY DEF Fitting
  <2>2. ASSUME NEW n \in 0..30 PROVE n \in Int /\ Fits(n, 2, FALSE)
        BY ByteIsWide, ByteType DEF Fits
  <2> QED BY <2>1, <2>2, Zenon
<1>5. \A n \in -8..7 : n \in Fitting("move")
  <2>1. Fitting("move") = {n \in Int : Fits(n, 4, TRUE)}
        BY DEF Fitting
  <2>2. Power[4] \in Nat /\ Power[4] >= 16
        BY ByteIsWide, PowerType
  <2>3. ASSUME NEW n \in -8..7 PROVE n \in Int /\ Fits(n, 4, TRUE)
        BY <2>2 DEF Fits
  <2> QED BY <2>1, <2>3, Zenon
<1>6. \A n \in 1..Byte : n \in Fitting("micro")
      BY DEF Fitting
<1>7. \A n \in 0..7 : n \in Fitting("mode")
      BY ByteIsWide, ByteType DEF Fitting
<1>8. \A n \in -30..30 : Fit("speed", {n})
      BY <1>3 DEF Fit
<1>9. Fit("speed", {3, 30}) /\ Fit("speed", {5, 30})
      BY <1>3 DEF Fit
<1>10. (\A n \in 0..30 : Fit("current", {n})) /\ Fit("current", {10, 30})
      BY <1>4 DEF Fit
<1>11. (\A n \in 1..Byte : Fit("micro", {n})) /\ \A n \in 0..7 : Fit("mode", {n})
      BY <1>6, <1>7 DEF Fit
<1>12. Fit("speed", {0}) /\ Fit("speed", {5}) /\ Fit("speed", {24}) /\ Fit("speed", {30})
       BY <1>3 DEF Fit
<1>13. Fit("current", {SafeDefault}) /\ Fit("current", {WorkCurrent})
       BY <1>4 DEF Fit, SafeDefault, WorkCurrent
<1>14. Fit("mode", {4}) /\ Fit("mode", {WorkMode})
       BY <1>7 DEF Fit, WorkMode
<1>15. Fit("micro", {4}) /\ Fit("micro", {Byte})
       BY <1>6, ByteIsWide, ByteType DEF Fit
<1> QED BY <1>1, <1>2, <1>5, <1>8, <1>9, <1>10, <1>11, <1>12, <1>13, <1>14, <1>15

\* What the rows of module Examples are.
LEMMA RowKinds ==
    ASSUME NEW b \in Buses, NEW op \in Calls, NEW args, Fit(op, args), op = "speed" => args = {0}, NEW fail
    PROVE  /\ Plainly(Try(b, op, args))
           /\ fail \in Exits => Plainly(Call(b, op, args, fail)) /\ Plainly(Ack(b, op, args, fail))
           /\ fail = "skip" => Skips(Call(b, op, args, fail)) /\ Skips(Ack(b, op, args, fail))
           /\ fail \in Leaving => Leaves(Call(b, op, args, fail)) /\ Leaves(Ack(b, op, args, fail))
           /\ op \notin Setters =>
                /\ fail \in Exits => Plainly(Send(b, op, args, fail))
                /\ fail \in Leaving => Leaves(Send(b, op, args, fail))
PROOF BY DEF Row, Try, Call, Ack, Send, RowFits, Spins, Plainly, Skips, Leaves, Exits,
         Leaving, Sending

LEMMA LineRows ==
    ASSUME NEW b \in Buses, NEW rate, NEW to, NEW fail
    PROVE  /\ Plainly(Close(b)) /\ Plainly(Tell(b, rate, to)) /\ Plainly(Sound(b, rate))
           /\ Plainly(Found(b)) /\ Plainly(Recheck(b)) /\ Plainly(OpenThere(b)) /\ Plainly(Back(b))
           /\ fail \in Exits =>
                /\ Plainly(Open(b, rate, fail)) /\ Plainly(TellOr(b, rate, to, fail))
                /\ Plainly(Switch(b, fail)) /\ Plainly(Verify(b, fail)) /\ Plainly(Await(b, fail))
           /\ fail \in Leaving => Leaves(Await(b, fail))
PROOF BY DEF Row, Close, Tell, TellOr, Sound, Found, Recheck, OpenThere, Back, Open, Switch, Verify, Await,
            RowFits, Spins, Plainly, Leaves, Exits, Leaving, Sending

LEMMA ControlRows ==
    /\ \A n : Loops(Loop(n), n)
    /\ Loops(Here, 0)
    /\ Plainly(Note) /\ Plainly(Return) /\ Wild(Row("any", 1, "any", Plain, {}, "next"))
    /\ \A fail \in Exits : Plainly(Needs(fail))
PROOF BY BusesType DEF Row, Loop, Here, Note, Return, Needs, RowFits, Spins, Wild, Plainly, Loops,
         Exits, Sending

LEMMA ShortRows ==
    ASSUME NEW b \in Buses
    PROVE  Plainly(Enable(b)) /\ Plainly(Disable(b)) /\ Plainly(Stop(b)) /\ Plainly(Read(b)) /\ Plainly(Turn(b))
PROOF
<1>1. /\ Fit("enable", {TRUE}) /\ Fit("enable", {FALSE}) /\ Fit("read", Plain) /\ Fit("turn", Plain)
      /\ {"enable", "speed", "read", "turn"} \subseteq Calls
      BY ArgumentsFit DEF Calls, Commands, Setters
<1>2. Fit("speed", {0})
  <2>1. 0 \in -30..30
        OBVIOUS
  <2> QED BY <2>1, ArgumentsFit, Zenon
<1> QED BY <1>1, <1>2, RowKinds DEF Enable, Disable, Stop, Read, Turn

LEMMA Concatenated ==
    ASSUME NEW s, IsRows(s), NEW t, IsRows(t)
    PROVE  /\ Len(s) \in Nat /\ Len(t) \in Nat /\ Len(s \o t) = Len(s) + Len(t) /\ IsRows(s \o t)
           /\ \A i \in 1..Len(s) : (s \o t)[i] = s[i]
           /\ \A i \in 1..Len(t) : (s \o t)[Len(s) + i] = t[i]
PROOF
<1> DEFINE S == {s[i] : i \in 1..Len(s)}
           T == {t[i] : i \in 1..Len(t)}
<1>1. Len(s) \in Nat /\ Len(t) \in Nat /\ s = [i \in 1..Len(s) |-> s[i]] /\ t = [i \in 1..Len(t) |-> t[i]]
      BY DEF IsRows
<1>2. s \in [1..Len(s) -> S \cup T] /\ t \in [1..Len(t) -> S \cup T]
      BY <1>1
<1>3. s \in Seq(S \cup T) /\ t \in Seq(S \cup T)
      BY <1>1, <1>2
<1> HIDE DEF S, T
<1>4. s \o t \in Seq(S \cup T) /\ Len(s \o t) = Len(s) + Len(t)
      BY <1>3
<1>5. IsRows(s \o t)
  <2> DEFINE r == s \o t
  <2>1. r \in Seq(S \cup T)
        BY <1>4
  <2> HIDE DEF r
  <2>2. IsRows(r)
        BY <2>1 DEF IsRows
  <2> QED BY <2>2 DEF r
<1> QED BY <1>1, <1>3, <1>4, <1>5

\* A row of one program, or of the other.
LEMMA EitherPart ==
    ASSUME NEW m \in Nat, NEW n \in Nat, NEW i \in 1..(m + n), i \notin 1..m
    PROVE  i - m \in 1..n /\ m + (i - m) = i
PROOF OBVIOUS

\* One sane program after another is a sane program, and so it is with tame ones.
LEMMA Joined ==
    ASSUME NEW s, Sane(s), NEW t, Sane(t)
    PROVE  Sane(s \o t) /\ (Tame(s) /\ Tame(t) => Tame(s \o t))
PROOF
<1> DEFINE r == s \o t
<1>1. /\ Len(s) \in Nat /\ Len(t) \in Nat /\ Len(r) = Len(s) + Len(t) /\ IsRows(r)
      /\ \A i \in 1..Len(s) : r[i] = s[i]
      /\ \A i \in 1..Len(t) : r[Len(s) + i] = t[i]
      BY Concatenated DEF Sane
<1> HIDE DEF r
<1>2. ASSUME NEW i \in 1..Len(s)
      PROVE  (RowIsTame(s, i) => RowIsTame(r, i)) /\ (RowIsWild(s, i) => RowIsWild(r, i))
  <2>1. r[i] = s[i]
        BY <1>1
  <2>2. ASSUME NEW j \in i..Len(s) PROVE j \in i..Len(r) /\ r[j] = s[j]
        BY <1>1
  <2>3. i < Len(s) => i < Len(r)
        BY <1>1
  <2>4. RowIsTame(s, i) => RowIsTame(r, i)
        BY <2>1, <2>2, <2>3 DEF RowIsTame
  <2>5. RowIsWild(s, i) => RowIsWild(r, i)
        BY <2>1, <2>2, <2>3 DEF RowIsWild
  <2> QED BY <2>4, <2>5
<1>3. ASSUME NEW i \in 1..Len(t)
      PROVE  /\ RowIsTame(t, i) => RowIsTame(r, Len(s) + i)
             /\ RowIsWild(t, i) => RowIsWild(r, Len(s) + i)
  <2>1. r[Len(s) + i] = t[i]
        BY <1>1
  <2>2. ASSUME NEW j \in i..Len(t) PROVE Len(s) + j \in (Len(s) + i)..Len(r) /\ r[Len(s) + j] = t[j]
        BY <1>1
  <2>3. i < Len(t) => Len(s) + i < Len(r)
        BY <1>1
  <2>4. ASSUME NEW n \in Nat, n < i PROVE n < Len(s) + i
        BY <1>1, <2>4
  <2>5. RowIsTame(t, i) => RowIsTame(r, Len(s) + i)
        BY <2>1, <2>2, <2>3, <2>4 DEF RowIsTame
  <2>6. RowIsWild(t, i) => RowIsWild(r, Len(s) + i)
        BY <2>1, <2>2, <2>3 DEF RowIsWild
  <2> QED BY <2>5, <2>6
<1>4. ASSUME NEW i \in 1..Len(r)
      PROVE  i \in 1..Len(s) \/ \E k \in 1..Len(t) : Len(s) + k = i
      BY <1>1, EitherPart
<1>5. Sane(r)
  <2>1. ASSUME NEW i \in 1..Len(r) PROVE RowIsTame(r, i) \/ RowIsWild(r, i)
        BY <1>2, <1>3, <1>4 DEF Sane
  <2> QED BY <1>1, <2>1 DEF Sane
<1>6. ASSUME Tame(s), Tame(t) PROVE Tame(r)
  <2>1. ASSUME NEW i \in 1..Len(r) PROVE RowIsTame(r, i)
        BY <1>2, <1>3, <1>4, <1>6 DEF Tame
  <2> QED BY <1>1, <2>1 DEF Tame
<1> QED BY <1>5, <1>6 DEF r

LEMMA TameJoined ==
    ASSUME NEW s, Tame(s), NEW t, Tame(t)
    PROVE  Tame(s \o t)
PROOF BY TameIsSane, Joined, Zenon

\* The same row on every line.
LEMMA RowOnEveryLine ==
    ASSUME NEW rows, rows = [b \in 1..Lines |-> rows[b]], \A b \in 1..Lines : Plainly(rows[b])
    PROVE  Tame(rows)
PROOF
<1>1. Len(rows) = Lines /\ Lines \in Nat
      BY LinesAssumption
<1> QED BY <1>1 DEF Tame, IsRows, RowIsTame

LEMMA EachLine ==
    /\ Tame(Each(Enable)) /\ Tame(Each(Disable)) /\ Tame(Each(Turn))
    /\ Tame(Each(LAMBDA b : Open(b, High, "next")))
    /\ Tame(Plans)
PROOF
<1>1. \A b \in 1..Lines : Plainly(Enable(b)) /\ Plainly(Disable(b)) /\ Plainly(Turn(b))
                          /\ Plainly(Open(b, High, "next"))
      BY ShortRows, LineRows DEF Buses, Exits
<1>2. Tame([b \in 1..Lines |-> Enable(b)]) /\ Tame([b \in 1..Lines |-> Disable(b)])
      /\ Tame([b \in 1..Lines |-> Turn(b)]) /\ Tame([b \in 1..Lines |-> Open(b, High, "next")])
      BY <1>1, RowOnEveryLine
<1>3. Tame([b \in 1..Lines |-> Turn(b)] \o <<Loop(Lines)>>)
  <2> DEFINE t == [b \in 1..Lines |-> Turn(b)]
             r == t \o <<Loop(Lines)>>
             S == {t[b] : b \in 1..Lines} \cup {Loop(Lines)}
  <2>1. t \in Seq(S) /\ Len(t) = Lines /\ Lines \in Nat /\ <<Loop(Lines)>> \in Seq(S)
        BY LinesAssumption
  <2>2. \A i \in 1..Lines : t[i] = Turn(i)
        OBVIOUS
  <2> HIDE DEF t, S
  <2>3. r \in Seq(S) /\ Len(r) = Lines + 1 /\ r[Lines + 1] = Loop(Lines) /\ \A i \in 1..Lines : r[i] = Turn(i)
        BY <2>1, <2>2
  <2> HIDE DEF r
  <2>4. IsRows(r)
        BY <2>3 DEF IsRows
  <2>5. ASSUME NEW i \in 1..Len(r) PROVE RowIsTame(r, i)
    <3>1. CASE i <= Lines
      <4>1. Plainly(r[i])
            BY <1>1, <2>1, <2>3, <3>1
      <4> QED BY <4>1 DEF RowIsTame
    <3>2. CASE i = Lines + 1
      <4>1. Loops(r[i], Lines) /\ Lines < i /\ Lines \in Nat
            BY <2>1, <2>3, <3>2, ControlRows
      <4> QED BY <4>1 DEF RowIsTame
    <3> QED BY <2>1, <2>3, <3>1, <3>2
  <2> QED BY <2>4, <2>5 DEF Tame, r, t
<1> QED BY <1>2, <1>3 DEF Each, Plans

----------------------------------------------------------------------------
(* The programs are sane.                                                   *)

LEMMA TurnRows ==
    /\ Leaves(Ack(1, "turn", Plain, "out")) /\ Leaves(Ack(1, "turn", Plain, "again"))
    /\ Leaves(Send(1, "turn", Plain, "out")) /\ Plainly(Try(1, "turn", Plain))
    /\ Plainly(Send(1, "turn", Plain, "exit")) /\ Plainly(Ack(1, "turn", Plain, "off"))
    /\ Plainly(Try(2, "turn", Plain)) /\ Leaves(Send(1, "turn", Plain, "again"))
    /\ Leaves(Send(2, "turn", Plain, "again")) /\ Plainly(Turn(1)) /\ Plainly(Turn(2))
    /\ Plainly(Try(1, "clear_and_turn", Plain))
PROOF BY BusesType, ArgumentsFit
      DEF Row, Try, Call, Ack, Send, Enable, Disable, Stop, Read, Turn, RowFits, Spins, Plainly, Skips, Leaves,
          Exits, Leaving, Sending, Calls, Commands, Setters

LEMMA QueryRows ==
    /\ Leaves(Ack(1, "read", Plain, "out")) /\ Leaves(Ack(1, "read", Plain, "again"))
    /\ Plainly(Read(1)) /\ Plainly(Ack(1, "read", Plain, "exit")) /\ Plainly(Read(2))
    /\ Plainly(Send(1, "read", Plain, "exit")) /\ Plainly(Call(1, "read", Plain, "exit"))
    /\ Plainly(Call(1, "protect", Plain, "exit")) /\ Plainly(Try(1, "protect", Plain))
    /\ Leaves(Ack(1, "protect", Plain, "out")) /\ Skips(Ack(1, "protect", Plain, "skip"))
    /\ Skips(Ack(2, "protect", Plain, "skip")) /\ Plainly(Try(1, "release", Plain))
    /\ Plainly(Try(2, "release", Plain)) /\ Plainly(Ack(1, "zero", Plain, "exit"))
    /\ Plainly(Ack(1, "zero", Plain, "off")) /\ Plainly(Try(1, "zero", Plain))
    /\ Plainly(Try(2, "zero", Plain)) /\ Leaves(Ack(1, "zero", Plain, "out"))
    /\ Plainly(Try(1, "stop", Plain)) /\ Plainly(Try(2, "stop", Plain))
PROOF BY BusesType, ArgumentsFit
      DEF Row, Try, Call, Ack, Send, Enable, Disable, Stop, Read, Turn, RowFits, Spins, Plainly, Skips, Leaves,
          Exits, Leaving, Sending, Calls, Commands, Setters

LEMMA EnableRows ==
    /\ Plainly(Enable(1)) /\ Plainly(Disable(1))
    /\ Plainly(Call(1, "enable", {TRUE}, "exit"))
    /\ Plainly(Ack(1, "enable", {TRUE}, "exit"))
    /\ Plainly(Call(2, "enable", {TRUE}, "exit")) /\ Plainly(Try(2, "enable", {TRUE}))
    /\ Plainly(Call(1, "enable", {FALSE}, "exit")) /\ Plainly(Disable(2))
PROOF BY BusesType, ArgumentsFit
      DEF Row, Try, Call, Ack, Send, Enable, Disable, Stop, Read, Turn, RowFits, Spins, Plainly, Skips, Leaves,
          Exits, Leaving, Sending, Calls, Commands, Setters

LEMMA SpeedRows ==
    /\ Plainly(Stop(1)) /\ Wild(Call(1, "speed", {5}, "again"))
    /\ Wild(Ack(1, "speed", {24}, "skip")) /\ Wild(Ack(1, "speed", {30}, "skip"))
    /\ Wild(Call(1, "speed", {3, 30}, "again"))
    /\ Wild(Ack(1, "speed", {5, 30}, "again"))
PROOF
<1>1. \A args, bad, fail :
         Fit("speed", args) /\ args # {0} /\ fail \in {"skip", "again"} => Wild(Row("call", 1, "speed", args, bad, fail))
      BY BusesType DEF Row, RowFits, Spins, Wild, Sending, Calls, Commands, Setters
<1>2. {5} # {0} /\ {3, 30} # {0} /\ {5, 30} # {0} /\ {24} # {0} /\ {30} # {0}
      OBVIOUS
<1>3. /\ Fit("speed", {5}) /\ Fit("speed", {24}) /\ Fit("speed", {30})
      /\ Fit("speed", {3, 30}) /\ Fit("speed", {5, 30})
      BY ArgumentsFit
<1>4. Plainly(Stop(1))
      BY BusesType, ShortRows
<1>5. Wild(Call(1, "speed", {5}, "again")) /\ Wild(Call(1, "speed", {3, 30}, "again"))
      BY <1>1, <1>2, <1>3 DEF Call
<1>6. /\ Wild(Ack(1, "speed", {24}, "skip")) /\ Wild(Ack(1, "speed", {30}, "skip"))
      /\ Wild(Ack(1, "speed", {5, 30}, "again"))
      BY <1>1, <1>2, <1>3 DEF Ack
<1> QED BY <1>4, <1>5, <1>6

LEMMA SettingRows ==
    /\ Plainly(Ack(1, "current", {WorkCurrent}, "exit"))
    /\ Leaves(Ack(1, "current", {10, 30}, "again"))
    /\ Plainly(Try(1, "current", {SafeDefault}))
    /\ Plainly(Ack(1, "mode", {WorkMode}, "exit")) /\ Plainly(Ack(1, "mode", {4}, "exit"))
    /\ Plainly(Ack(1, "micro", {4}, "exit")) /\ Plainly(Ack(1, "micro", {Byte}, "exit"))
PROOF BY BusesType, ArgumentsFit
      DEF Row, Try, Call, Ack, Send, Enable, Disable, Stop, Read, Turn, RowFits, Spins, Plainly, Skips, Leaves,
          Exits, Leaving, Sending, Calls, Commands, Setters

LEMMA PortRows ==
    /\ Plainly(Open(1, Low, "exit")) /\ Plainly(Tell(1, Low, High))
    /\ Plainly(Open(1, High, "exit")) /\ Plainly(Close(1)) /\ Plainly(Tell(1, High, Low))
    /\ Leaves(Await(1, "again")) /\ Leaves(Await(1, "out")) /\ Plainly(Await(1, "exit"))
    /\ Plainly(TellOr(1, Low, High, "exit")) /\ Plainly(TellOr(1, High, Low, "exit"))
    /\ Plainly(Open(2, High, "exit")) /\ Plainly(Sound(1, High)) /\ Plainly(Sound(1, Low))
    /\ Plainly(Sound(2, High)) /\ Plainly(Sound(2, Low)) /\ Plainly(Found(1))
    /\ Plainly(Switch(1, "next")) /\ Plainly(Back(1)) /\ Plainly(Verify(1, "next"))
    /\ Plainly(Recheck(1)) /\ Plainly(OpenThere(1)) /\ Plainly(Switch(1, "exit"))
    /\ Plainly(Verify(1, "exit")) /\ Plainly(Found(2)) /\ Plainly(OpenThere(2))
PROOF BY BusesType
      DEF Row, Close, Tell, TellOr, Sound, Found, Recheck, OpenThere, Back, Open, Switch, Verify, Await,
          RowFits, Spins, Plainly, Leaves, Exits, Leaving, Sending

LEMMA LoopRows ==
    /\ Loops(Loop(2), 2) /\ Loops(Loop(1), 1) /\ Loops(Loop(4), 4) /\ Loops(Here, 0)
    /\ Plainly(Note) /\ Plainly(Needs("exit")) /\ Loops(Loop(3), 3) /\ Plainly(Return)
    /\ Loops(Loop(6), 6) /\ Plainly(Needs("off"))
    /\ Wild(Row("any", 1, "any", Plain, {}, "next"))
PROOF BY ControlRows DEF Exits

LEMMA P1PrecisionIsTame == Tame(P1Precision)
PROOF
<1>1. /\ Leaves(Ack(1, "turn", Plain, "out")) /\ Leaves(Ack(1, "read", Plain, "out"))
      /\ Loops(Loop(2), 2)
      BY TurnRows, QueryRows, LoopRows
<1> QED BY <1>1 DEF P1Precision, Tame, IsRows, RowIsTame

LEMMA P3ErrorVsRpmIsTame == Tame(P3ErrorVsRpm)
PROOF
<1>1. /\ Leaves(Ack(1, "turn", Plain, "again")) /\ Leaves(Ack(1, "read", Plain, "again"))
      /\ Loops(Loop(2), 2)
      BY TurnRows, QueryRows, LoopRows
<1> QED BY <1>1 DEF P3ErrorVsRpm, Tame, IsRows, RowIsTame

LEMMA P5FollowErrorIsTame == Tame(P5FollowError)
PROOF
<1>1. /\ Leaves(Ack(1, "turn", Plain, "out")) /\ Leaves(Send(1, "turn", Plain, "out"))
      /\ Leaves(Ack(1, "read", Plain, "out")) /\ Loops(Loop(1), 1)
      BY TurnRows, QueryRows, LoopRows
<1> QED BY <1>1 DEF P5FollowError, Tame, IsRows, RowIsTame

LEMMA ApplyProfileIsTame == Tame(apply_profile(4)) /\ Tame(apply_profile(Byte))
PROOF
<1>1. Tame(<<Open(1, Low, "exit")>>)
  <2>1. /\ Plainly(Open(1, Low, "exit"))
        BY PortRows
  <2> QED BY <2>1 DEF Tame, IsRows, RowIsTame
<1>2. Tame(<<Ack(1, "mode", {WorkMode}, "exit"), Ack(1, "micro", {4}, "exit"),
              Ack(1, "current", {WorkCurrent}, "exit")>>)
  <2>1. /\ Plainly(Ack(1, "mode", {WorkMode}, "exit")) /\ Plainly(Ack(1, "micro", {4}, "exit"))
        /\ Plainly(Ack(1, "current", {WorkCurrent}, "exit"))
        BY SettingRows
  <2> QED BY <2>1 DEF Tame, IsRows, RowIsTame
<1>3. Tame(<<Ack(1, "mode", {WorkMode}, "exit"), Ack(1, "micro", {Byte}, "exit"),
              Ack(1, "current", {WorkCurrent}, "exit")>>)
  <2>1. /\ Plainly(Ack(1, "mode", {WorkMode}, "exit"))
        /\ Plainly(Ack(1, "micro", {Byte}, "exit"))
        /\ Plainly(Ack(1, "current", {WorkCurrent}, "exit"))
        BY SettingRows
  <2> QED BY <2>1 DEF Tame, IsRows, RowIsTame
<1> QED BY <1>1, <1>2, <1>3, TameJoined DEF apply_profile, ApplyProfile

LEMMA BlindIsTame ==
    ASSUME NEW body, Tame(body)
    PROVE  Tame(Blind(body))
PROOF
<1>1. Tame(<<Tell(1, Low, High), Open(1, High, "exit"), Enable(1),
              Ack(1, "zero", Plain, "exit")>>)
  <2>1. /\ Plainly(Tell(1, Low, High)) /\ Plainly(Open(1, High, "exit")) /\ Plainly(Enable(1))
        /\ Plainly(Ack(1, "zero", Plain, "exit"))
        BY PortRows, EnableRows, QueryRows
  <2> QED BY <2>1 DEF Tame, IsRows, RowIsTame
<1>2. Tame(<<Disable(1), Close(1), Tell(1, High, Low)>>)
  <2>1. /\ Plainly(Disable(1)) /\ Plainly(Close(1)) /\ Plainly(Tell(1, High, Low))
        BY EnableRows, PortRows
  <2> QED BY <2>1 DEF Tame, IsRows, RowIsTame
<1> QED BY <1>1, <1>2, TameJoined DEF Blind

LEMMA HilProfileIsTame == Tame(hil_profile)
PROOF
<1>1. Tame(<<Try(1, "turn", Plain), Read(1), Try(1, "turn", Plain), Read(1)>>)
  <2>1. /\ Plainly(Try(1, "turn", Plain)) /\ Plainly(Read(1))
        BY TurnRows, QueryRows
  <2> QED BY <2>1 DEF Tame, IsRows, RowIsTame
<1> QED BY <1>1, BlindIsTame DEF hil_profile

LEMMA HilDiagnosticsIsTame == Tame(hil_diagnostics)
PROOF
<1>1. Tame(<<Call(1, "protect", Plain, "exit"), Read(1), Read(1),
              Try(1, "release", Plain), Try(1, "protect", Plain), Try(1, "turn", Plain),
              Ack(1, "protect", Plain, "out"), Try(1, "release", Plain),
              Try(1, "protect", Plain), Try(1, "turn", Plain), Read(1), Here>>)
  <2>1. /\ Plainly(Call(1, "protect", Plain, "exit")) /\ Plainly(Read(1))
        /\ Plainly(Try(1, "release", Plain)) /\ Plainly(Try(1, "protect", Plain))
        /\ Plainly(Try(1, "turn", Plain)) /\ Leaves(Ack(1, "protect", Plain, "out"))
        /\ Loops(Here, 0)
        BY QueryRows, TurnRows, LoopRows
  <2> QED BY <2>1 DEF Tame, IsRows, RowIsTame
<1> QED BY <1>1, BlindIsTame DEF hil_diagnostics

LEMMA HilDrainTimingIsTame == Tame(hil_drain_timing)
PROOF
<1>1. Tame(<<Ack(1, "turn", Plain, "again"), Read(1), Await(1, "again"), Note, Loop(4),
              Needs("exit")>>)
  <2>1. /\ Leaves(Ack(1, "turn", Plain, "again")) /\ Plainly(Read(1))
        /\ Leaves(Await(1, "again")) /\ Plainly(Note) /\ Loops(Loop(4), 4)
        /\ Plainly(Needs("exit"))
        BY TurnRows, QueryRows, PortRows, LoopRows
  <2> QED BY <2>1 DEF Tame, IsRows, RowIsTame
<1> QED BY <1>1, BlindIsTame DEF hil_drain_timing

LEMMA HilSoakIsTame == Tame(hil_soak)
PROOF
<1>1. Tame(<<Ack(1, "read", Plain, "out"), Ack(1, "turn", Plain, "out"), Await(1, "out"),
              Loop(3)>>)
  <2>1. /\ Leaves(Ack(1, "read", Plain, "out")) /\ Leaves(Ack(1, "turn", Plain, "out"))
        /\ Leaves(Await(1, "out")) /\ Loops(Loop(3), 3)
        BY QueryRows, TurnRows, PortRows, LoopRows
  <2> QED BY <2>1 DEF Tame, IsRows, RowIsTame
<1> QED BY <1>1, BlindIsTame DEF hil_soak

LEMMA HilShortestIsTame == Tame(hil_shortest)
PROOF
<1>1. Tame(<<Ack(1, "read", Plain, "again"), Ack(1, "turn", Plain, "again"),
              Ack(1, "read", Plain, "again"), Loop(3)>>)
  <2>1. /\ Leaves(Ack(1, "read", Plain, "again")) /\ Leaves(Ack(1, "turn", Plain, "again"))
        /\ Loops(Loop(3), 3)
        BY QueryRows, TurnRows, LoopRows
  <2> QED BY <2>1 DEF Tame, IsRows, RowIsTame
<1> QED BY <1>1, BlindIsTame DEF hil_shortest

LEMMA HilMotorGroupIsTame == Tame(hil_motor_group)
PROOF
<1>1. /\ Plainly(Tell(1, Low, High)) /\ Plainly(Open(1, High, "exit"))
      /\ Plainly(Call(1, "enable", {TRUE}, "exit")) /\ Plainly(Ack(1, "zero", Plain, "exit"))
      /\ Plainly(Send(1, "turn", Plain, "exit")) /\ Plainly(Await(1, "exit"))
      /\ Plainly(Read(1)) /\ Loops(Loop(3), 3) /\ Plainly(Disable(1)) /\ Plainly(Close(1))
      /\ Plainly(Tell(1, High, Low))
      BY PortRows, EnableRows, QueryRows, TurnRows, LoopRows
<1> QED BY <1>1 DEF hil_motor_group, Tame, IsRows, RowIsTame

LEMMA BenchQuarterTurnIsTame == Tame(bench_quarter_turn)
PROOF
<1>1. /\ Plainly(TellOr(1, Low, High, "exit")) /\ Plainly(Open(1, High, "exit"))
      /\ Plainly(Call(1, "enable", {TRUE}, "exit")) /\ Plainly(Ack(1, "zero", Plain, "exit"))
      /\ Leaves(Ack(1, "read", Plain, "out")) /\ Leaves(Ack(1, "turn", Plain, "out"))
      /\ Leaves(Await(1, "out")) /\ Loops(Loop(3), 3) /\ Plainly(Disable(1))
      /\ Plainly(Close(1)) /\ Plainly(TellOr(1, High, Low, "exit"))
      /\ Plainly(Open(1, Low, "exit")) /\ Plainly(Read(1))
      BY PortRows, EnableRows, QueryRows, TurnRows, LoopRows
<1> QED BY <1>1 DEF bench_quarter_turn, Tame, IsRows, RowIsTame

LEMMA ReadEncoderIsTame == Tame(read_encoder)
PROOF
<1>1. /\ Plainly(Open(1, Low, "exit")) /\ Plainly(Ack(1, "read", Plain, "exit"))
      /\ Loops(Loop(1), 1)
      BY PortRows, QueryRows, LoopRows
<1> QED BY <1>1 DEF read_encoder, Tame, IsRows, RowIsTame

LEMMA StressReadIsTame == Tame(stress_read)
PROOF
<1>1. /\ Plainly(Open(1, Low, "exit")) /\ Plainly(Read(1)) /\ Loops(Loop(1), 1)
      BY PortRows, QueryRows, LoopRows
<1> QED BY <1>1 DEF stress_read, Tame, IsRows, RowIsTame

LEMMA MoveQuarterTurnIsTame == Tame(move_quarter_turn)
PROOF
<1>1. /\ Plainly(Open(1, Low, "exit")) /\ Plainly(Ack(1, "enable", {TRUE}, "exit"))
      /\ Plainly(Ack(1, "zero", Plain, "off")) /\ Plainly(Ack(1, "turn", Plain, "off"))
      /\ Plainly(Read(1)) /\ Loops(Loop(2), 2) /\ Plainly(Disable(1))
      BY PortRows, EnableRows, QueryRows, TurnRows, LoopRows
<1> QED BY <1>1 DEF move_quarter_turn, Tame, IsRows, RowIsTame

LEMMA HilTwoMotorSequentialCompliantIsTame == Tame(hil_two_motor_sequential_compliant)
PROOF
<1>1. /\ Plainly(Open(1, High, "exit")) /\ Plainly(Open(2, High, "exit"))
      /\ Plainly(Try(1, "stop", Plain)) /\ Plainly(Try(2, "stop", Plain))
      /\ Skips(Ack(1, "protect", Plain, "skip")) /\ Plainly(Try(1, "release", Plain))
      /\ Skips(Ack(2, "protect", Plain, "skip")) /\ Plainly(Try(2, "release", Plain))
      /\ Plainly(Call(1, "enable", {TRUE}, "exit"))
      /\ Plainly(Call(2, "enable", {TRUE}, "exit")) /\ Plainly(Try(1, "zero", Plain))
      /\ Plainly(Try(2, "zero", Plain)) /\ Plainly(Try(1, "turn", Plain)) /\ Plainly(Read(1))
      /\ Plainly(Try(2, "turn", Plain)) /\ Plainly(Read(2)) /\ Loops(Loop(4), 4)
      BY PortRows, QueryRows, EnableRows, TurnRows, LoopRows
<1> QED BY <1>1 DEF hil_two_motor_sequential_compliant, Tame, IsRows, RowIsTame

LEMMA HilAutoClearIsTame == Tame(hil_auto_clear)
PROOF
<1>1. Tame(<<Try(1, "release", Plain), Try(1, "zero", Plain), Try(1, "turn", Plain),
              Try(1, "protect", Plain), Loop(2)>>)
  <2>1. /\ Plainly(Try(1, "release", Plain)) /\ Plainly(Try(1, "zero", Plain))
        /\ Plainly(Try(1, "turn", Plain)) /\ Plainly(Try(1, "protect", Plain))
        /\ Loops(Loop(2), 2)
        BY QueryRows, TurnRows, LoopRows
  <2> QED BY <2>1 DEF Tame, IsRows, RowIsTame
<1>2. Tame(<<Try(1, "release", Plain), Try(1, "zero", Plain),
              Try(1, "clear_and_turn", Plain), Try(1, "protect", Plain), Loop(2)>>)
  <2>1. /\ Plainly(Try(1, "release", Plain)) /\ Plainly(Try(1, "zero", Plain))
        /\ Plainly(Try(1, "clear_and_turn", Plain)) /\ Plainly(Try(1, "protect", Plain))
        /\ Loops(Loop(2), 2)
        BY QueryRows, TurnRows, LoopRows
  <2> QED BY <2>1 DEF Tame, IsRows, RowIsTame
<1> QED BY <1>1, <1>2, TameJoined, BlindIsTame DEF hil_auto_clear

LEMMA ScenarioOnceIsTame == Tame(run_scenario(FALSE))
PROOF
<1>1. /\ Leaves(Ack(1, "zero", Plain, "out")) /\ Leaves(Send(1, "turn", Plain, "out"))
      /\ Leaves(Await(1, "out")) /\ Loops(Here, 0)
      BY QueryRows, TurnRows, PortRows, LoopRows
<1> QED BY <1>1 DEF run_scenario, Tame, IsRows, RowIsTame

LEMMA ScenarioChainedIsTame == Tame(run_scenario(TRUE))
PROOF
<1>1. /\ Leaves(Ack(1, "zero", Plain, "out")) /\ Leaves(Send(1, "turn", Plain, "out"))
      /\ Leaves(Await(1, "out")) /\ Loops(Here, 0)
      BY QueryRows, TurnRows, PortRows, LoopRows
<1> QED BY <1>1 DEF run_scenario, Tame, IsRows, RowIsTame

LEMMA HilChainedMovesIsTame == Tame(hil_chained_moves)
PROOF
<1>1. Tame(<<Tell(1, Low, High), Open(1, High, "exit"), Enable(1)>>)
  <2>1. /\ Plainly(Tell(1, Low, High)) /\ Plainly(Open(1, High, "exit")) /\ Plainly(Enable(1))
        BY PortRows, EnableRows
  <2> QED BY <2>1 DEF Tame, IsRows, RowIsTame
<1>2. Tame(<<Disable(1), Close(1), Tell(1, High, Low)>>)
  <2>1. /\ Plainly(Disable(1)) /\ Plainly(Close(1)) /\ Plainly(Tell(1, High, Low))
        BY EnableRows, PortRows
  <2> QED BY <2>1 DEF Tame, IsRows, RowIsTame
<1> QED BY <1>1, <1>2, ScenarioOnceIsTame, ScenarioChainedIsTame, TameJoined DEF hil_chained_moves

LEMMA ShortIsTame == Tame(EndOff) /\ Tame(Probe(1)) /\ Tame(Probe(2))
PROOF
<1>1. Tame(<<Return, Disable(1)>>)
  <2>1. /\ Plainly(Return) /\ Plainly(Disable(1))
        BY LoopRows, EnableRows
  <2> QED BY <2>1 DEF Tame, IsRows, RowIsTame
<1>2. Tame(<<Sound(1, High), Sound(1, Low)>>)
  <2>1. /\ Plainly(Sound(1, High)) /\ Plainly(Sound(1, Low))
        BY PortRows
  <2> QED BY <2>1 DEF Tame, IsRows, RowIsTame
<1>3. Tame(<<Sound(2, High), Sound(2, Low)>>)
  <2>1. /\ Plainly(Sound(2, High)) /\ Plainly(Sound(2, Low))
        BY PortRows
  <2> QED BY <2>1 DEF Tame, IsRows, RowIsTame
<1> QED BY <1>1, <1>2, <1>3 DEF EndOff, Probe

LEMMA SeekIsTame == Tame(Seek)
PROOF
<1>1. Tame(<<Found(1), Switch(1, "next"), Open(1, High, "exit"),
              Ack(1, "enable", {TRUE}, "exit")>>)
  <2>1. /\ Plainly(Found(1)) /\ Plainly(Switch(1, "next")) /\ Plainly(Open(1, High, "exit"))
        /\ Plainly(Ack(1, "enable", {TRUE}, "exit"))
        BY PortRows, EnableRows
  <2> QED BY <2>1 DEF Tame, IsRows, RowIsTame
<1> QED BY <1>1, ShortIsTame, TameJoined DEF Seek

LEMMA HilAutoCalibrateIsTame == Tame(hil_auto_calibrate)
PROOF
<1>1. Tame(<<Ack(1, "zero", Plain, "off"), Ack(1, "turn", Plain, "out"),
              Ack(1, "zero", Plain, "out"), Try(1, "clear_and_turn", Plain), Read(1),
              Try(1, "clear_and_turn", Plain), Read(1), Here, Disable(1), Close(1),
              Back(1)>>)
  <2>1. /\ Plainly(Ack(1, "zero", Plain, "off")) /\ Leaves(Ack(1, "turn", Plain, "out"))
        /\ Leaves(Ack(1, "zero", Plain, "out")) /\ Plainly(Try(1, "clear_and_turn", Plain))
        /\ Plainly(Read(1)) /\ Loops(Here, 0) /\ Plainly(Disable(1)) /\ Plainly(Close(1))
        /\ Plainly(Back(1))
        BY QueryRows, TurnRows, LoopRows, EnableRows, PortRows
  <2> QED BY <2>1 DEF Tame, IsRows, RowIsTame
<1> QED BY <1>1, SeekIsTame, ShortIsTame, TameJoined DEF hil_auto_calibrate

LEMMA Do90degIsTame == Tame(do_90deg)
PROOF
<1>1. /\ Leaves(Ack(1, "read", Plain, "again")) /\ Leaves(Ack(1, "turn", Plain, "again"))
      /\ Leaves(Await(1, "again")) /\ Plainly(Read(1)) /\ Loops(Loop(4), 4)
      BY QueryRows, TurnRows, PortRows, LoopRows
<1> QED BY <1>1 DEF do_90deg, Tame, IsRows, RowIsTame

LEMMA RunTest1CommsIsTame == Tame(run_test1_comms)
PROOF
<1>1. /\ Plainly(Read(1)) /\ Loops(Loop(1), 1)
      BY QueryRows, LoopRows
<1> QED BY <1>1 DEF run_test1_comms, Tame, IsRows, RowIsTame

LEMMA RunTest5OvershootIsTame == Tame(run_test5_overshoot)
PROOF
<1>1. /\ Leaves(Ack(1, "read", Plain, "out")) /\ Leaves(Ack(1, "turn", Plain, "out"))
      /\ Leaves(Await(1, "out")) /\ Plainly(Read(1)) /\ Plainly(Try(1, "turn", Plain))
      /\ Loops(Here, 0)
      BY QueryRows, TurnRows, PortRows, LoopRows
<1> QED BY <1>1 DEF run_test5_overshoot, Tame, IsRows, RowIsTame

LEMMA HilMotorGroupN2IsTame == Tame(hil_motor_group_n2)
PROOF
<1>1. Tame(<<Found(1), Found(2), OpenThere(1), OpenThere(2),
              Call(1, "enable", {TRUE}, "exit"), Try(2, "enable", {TRUE}),
              Try(1, "zero", Plain), Try(2, "zero", Plain), Read(1), Read(2),
              Send(1, "turn", Plain, "again"), Send(2, "turn", Plain, "again"), Loop(4),
              Call(1, "enable", {FALSE}, "exit"), Disable(2)>>)
  <2>1. /\ Plainly(Found(1)) /\ Plainly(Found(2)) /\ Plainly(OpenThere(1))
        /\ Plainly(OpenThere(2)) /\ Plainly(Call(1, "enable", {TRUE}, "exit"))
        /\ Plainly(Try(2, "enable", {TRUE})) /\ Plainly(Try(1, "zero", Plain))
        /\ Plainly(Try(2, "zero", Plain)) /\ Plainly(Read(1)) /\ Plainly(Read(2))
        /\ Leaves(Send(1, "turn", Plain, "again")) /\ Leaves(Send(2, "turn", Plain, "again"))
        /\ Loops(Loop(4), 4) /\ Plainly(Call(1, "enable", {FALSE}, "exit"))
        /\ Plainly(Disable(2))
        BY PortRows, EnableRows, QueryRows, TurnRows, LoopRows
  <2> QED BY <2>1 DEF Tame, IsRows, RowIsTame
<1> QED BY <1>1, ShortIsTame, TameJoined DEF hil_motor_group_n2

LEMMA FleetIsTame ==
    ASSUME NEW body, Tame(body)
    PROVE  Tame(Fleet(body))
PROOF BY EachLine, TameJoined DEF Fleet

LEMMA SoloIsTame == Tame(Solo)
PROOF
<1>1. /\ Plainly(Turn(1)) /\ Loops(Loop(1), 1) /\ Plainly(Turn(2))
      BY TurnRows, LoopRows
<1> QED BY <1>1 DEF Solo, Tame, IsRows, RowIsTame

LEMMA FleetsAreTame ==
    /\ Tame(hil_scheduler) /\ Tame(hil_scheduler_choreography) /\ Tame(hil_scheduler_n3)
    /\ Tame(hil_motor_profile_demo) /\ Tame(hil_inter_move_rest_sweep)
PROOF
<1>1. Tame(Plans) /\ Tame(Solo \o Plans) /\ Tame(Each(Turn) \o Plans \o Plans)
      BY EachLine, SoloIsTame, TameJoined
<1> QED BY <1>1, FleetIsTame DEF hil_scheduler, hil_scheduler_choreography, hil_scheduler_n3,
                hil_motor_profile_demo, hil_inter_move_rest_sweep

----------------------------------------------------------------------------
(* Programs that make a motor spin.                                         *)

\* What a row may do to a motor that spins is said with a level for each row: a
\* motor that spins there does so for as many lost exchanges, at least; 2 is more
\* than one may lose.  A row that stops the motor raises the level by one: either
\* it does, or an exchange is lost.
Slows(r) ==
    /\ r.kind = "call"
    /\ (r.op = "speed" /\ r.args = {0}) \/ (r.op = "enable" /\ r.args = {FALSE})
Hot(r, L, i) == L[i] < 2 \/ Spins(r)

\* The most that the level behind row i may be.
Behind(r, L, i) == L[i] + IF Slows(r) THEN 1 ELSE 0

Cools(rows, L, i) ==
    LET r == rows[i] IN
    /\ r.line = 1 /\ r.kind \in {"call", "loop"} /\ "done" \notin r.bad /\ L[i] < 2
    /\ L[i + 1] <= IF Spins(r) THEN 0 ELSE Behind(r, L, i)
    /\ r.kind = "loop" => \E n \in Nat : n < i /\ r.args = {n} /\ L[i - n] <= L[i]
    /\ r.kind # "loop" /\ r.bad # {} =>
         \/ r.fail = "skip" /\ i < Len(rows) /\ L[i + 2] <= Behind(r, L, i)
         \/ /\ r.fail = "again"
            /\ \E j \in i..Len(rows) :
                 /\ rows[j].kind = "loop" /\ \A k \in i..(j - 1) : rows[k].kind # "loop"
                 /\ L[j] <= Behind(r, L, i)

\* The program takes a motor from level a to level b.
Levels(n) == [1..(n + 1) -> 0..2]
LevelsFit(rows, a, b, L) ==
    /\ L[1] <= a /\ b <= L[Len(rows) + 1]
    /\ \A i \in 1..Len(rows) : Hot(rows[i], L, i) => Cools(rows, L, i)
Levelled(rows, a, b) == Sane(rows) /\ \E L \in Levels(Len(rows)) : LevelsFit(rows, a, b, L)

LEMMA TameIsLevelled ==
    ASSUME NEW rows, Tame(rows)
    PROVE  Levelled(rows, 2, 2)
PROOF
<1> DEFINE L == [i \in 1..(Len(rows) + 1) |-> 2]
<1>1. Sane(rows) /\ Len(rows) \in Nat
      BY TameIsSane DEF Tame, IsRows
<1>2. L \in Levels(Len(rows)) /\ L[1] = 2 /\ L[Len(rows) + 1] = 2
      BY <1>1 DEF Levels
<1>3. ASSUME NEW i \in 1..Len(rows) PROVE ~Hot(rows[i], L, i)
  <2>1. L[i] = 2
        BY <1>1
  <2>2. ~Spins(rows[i])
        BY DEF Tame, RowIsTame, Plainly, Skips, Leaves, Loops, Spins, Sending
  <2> QED BY <2>1, <2>2 DEF Hot
<1> HIDE DEF L
<1>4. LevelsFit(rows, 2, 2, L)
      BY <1>2, <1>3 DEF LevelsFit
<1> QED BY <1>1, <1>2, <1>4 DEF Levelled

LEMMA LevelJoined ==
    ASSUME NEW s, NEW t, NEW a \in 0..2, NEW b \in 0..2, NEW c \in 0..2,
           Levelled(s, a, b), Levelled(t, b, c)
    PROVE  Levelled(s \o t, a, c)
PROOF
<1> DEFINE r == s \o t
           m == Len(s)
           n == Len(t)
<1>1. PICK L \in Levels(m) : LevelsFit(s, a, b, L)
      BY DEF Levelled
<1>2. PICK M \in Levels(n) : LevelsFit(t, b, c, M)
      BY DEF Levelled
<1>3. /\ m \in Nat /\ n \in Nat /\ Len(r) = m + n /\ Sane(r)
      /\ \A i \in 1..m : r[i] = s[i]
      /\ \A i \in 1..n : r[m + i] = t[i]
  <2>1. Sane(s) /\ Sane(t) /\ IsRows(s) /\ IsRows(t)
        BY DEF Levelled, Sane
  <2> QED BY <2>1, Concatenated, Joined
<1> DEFINE N == [i \in 1..(m + n + 1) |-> IF i <= m THEN L[i] ELSE M[i - m]]
<1> HIDE DEF r, m, n
<1>4. (\A i \in 1..(m + 1) : L[i] \in 0..2) /\ (\A i \in 1..(n + 1) : M[i] \in 0..2)
      BY <1>1, <1>2 DEF Levels
<1>5. N \in Levels(Len(r))
  <2>1. ASSUME NEW i \in 1..(m + n + 1) PROVE (IF i <= m THEN L[i] ELSE M[i - m]) \in 0..2
    <3>1. i <= m => i \in 1..(m + 1)
          BY <1>3
    <3>2. ~(i <= m) => i - m \in 1..(n + 1)
          BY <1>3
    <3> QED BY <1>4, <3>1, <3>2
  <2> QED BY <1>3, <2>1 DEF Levels
<1>6. M[1] <= b /\ b <= L[m + 1] /\ 1 \in 1..(n + 1) /\ m + 1 \in 1..(m + 1)
      BY <1>1, <1>2, <1>3 DEF LevelsFit, m
<1>7. \A i \in 1..m : N[i] = L[i]
      BY <1>3
<1>8. N[m + 1] = M[1] /\ N[m + 1] <= L[m + 1] /\ N[m + 1] \in 0..2
  <2>1. m + 1 \in 1..(m + n + 1) /\ ~(m + 1 <= m) /\ (m + 1) - m = 1
        BY <1>3
  <2> QED BY <1>4, <1>6, <2>1
<1>9. \A i \in 1..(n + 1) : N[m + i] = M[i]
  <2>1. ASSUME NEW i \in 1..(n + 1) PROVE m + i \in 1..(m + n + 1) /\ ~(m + i <= m) /\ (m + i) - m = i
        BY <1>3
  <2> QED BY <2>1
<1>10. N[1] <= a
  <2>1. CASE m = 0
    <3>1. L[1] <= a /\ L[1] \in 0..2 /\ N[1] <= L[1] /\ N[1] \in 0..2
          BY <1>1, <1>4, <1>6, <1>8, <2>1 DEF LevelsFit
    <3> QED BY <3>1
  <2>2. CASE m # 0
        BY <1>1, <1>3, <1>7, <2>2 DEF LevelsFit
  <2> QED BY <2>1, <2>2
<1>11. c <= N[Len(r) + 1]
  <2>1. m + (n + 1) = Len(r) + 1 /\ n + 1 \in 1..(n + 1)
        BY <1>3
  <2>2. N[Len(r) + 1] = M[n + 1] /\ c <= M[n + 1]
        BY <1>2, <1>9, <2>1 DEF LevelsFit, n
  <2> QED BY <2>2
<1> HIDE DEF N
<1>12. \A i \in 1..(m + 1) : N[i] <= L[i] /\ N[i] \in 0..2
  <2>1. ASSUME NEW i \in 1..(m + 1) PROVE N[i] <= L[i] /\ N[i] \in 0..2
    <3>1. CASE i = m + 1
          BY <1>8, <3>1
    <3>2. CASE i # m + 1
          BY <1>3, <1>4, <1>7, <3>2
    <3> QED BY <3>1, <3>2
  <2> QED BY <2>1
<1>13. ASSUME NEW i \in 1..m, Hot(r[i], N, i) PROVE Cools(r, N, i)
  <2> DEFINE q == s[i]
  <2>1. r[i] = q /\ N[i] = L[i] /\ i \in 1..(m + 1) /\ i + 1 \in 1..(m + 1) /\ L[i] \in 0..2
        BY <1>3, <1>4, <1>7
  <2>2. Cools(s, L, i)
        BY <1>1, <1>13, <2>1 DEF LevelsFit, Hot, m
  <2>3. Behind(q, N, i) = Behind(q, L, i) /\ Behind(q, L, i) \in Int
        BY <2>1 DEF Behind
  <2> HIDE DEF q
  <2>4. N[i + 1] <= IF Spins(q) THEN 0 ELSE Behind(q, N, i)
    <3>1. L[i + 1] <= IF Spins(q) THEN 0 ELSE Behind(q, L, i)
          BY <2>2 DEF Cools, q
    <3>2. N[i + 1] <= L[i + 1] /\ N[i + 1] \in Int /\ L[i + 1] \in Int
          BY <1>4, <1>12, <2>1
    <3> QED BY <2>3, <3>1, <3>2
  <2>5. q.kind = "loop" => \E k \in Nat : k < i /\ q.args = {k} /\ N[i - k] <= N[i]
    <3>1. ASSUME NEW k \in Nat, k < i PROVE N[i - k] = L[i - k]
          BY <1>3, <1>7, <3>1
    <3> QED BY <2>1, <2>2, <3>1 DEF Cools, q
  <2>6. ASSUME q.fail = "skip", i < Len(s), L[i + 2] <= Behind(q, L, i)
        PROVE  i < Len(r) /\ N[i + 2] <= Behind(q, N, i)
    <3>1. i + 2 \in 1..(m + 1) /\ i < Len(r)
          BY <1>3, <2>6 DEF m
    <3>2. N[i + 2] <= L[i + 2] /\ N[i + 2] \in Int /\ L[i + 2] \in Int
          BY <1>4, <1>12, <3>1
    <3> QED BY <2>3, <2>6, <3>1, <3>2
  <2>7. ASSUME NEW j \in i..Len(s), s[j].kind = "loop", \A k \in i..(j - 1) : s[k].kind # "loop",
               L[j] <= Behind(q, L, i)
        PROVE  /\ j \in i..Len(r) /\ r[j].kind = "loop" /\ \A k \in i..(j - 1) : r[k].kind # "loop"
               /\ N[j] <= Behind(q, N, i)
    <3>1. j \in i..Len(r) /\ r[j] = s[j] /\ N[j] = L[j]
          BY <1>3, <1>7 DEF m
    <3>2. ASSUME NEW k \in i..(j - 1) PROVE r[k] = s[k]
          BY <1>3 DEF m
    <3> QED BY <2>3, <2>7, <3>1, <3>2
  <2>8. /\ q.line = 1 /\ q.kind \in {"call", "loop"} /\ "done" \notin q.bad /\ N[i] < 2
        /\ q.kind # "loop" /\ q.bad # {} =>
             \/ q.fail = "skip" /\ i < Len(r) /\ N[i + 2] <= Behind(q, N, i)
             \/ /\ q.fail = "again"
                /\ \E j \in i..Len(r) :
                     /\ r[j].kind = "loop" /\ \A k \in i..(j - 1) : r[k].kind # "loop"
                     /\ N[j] <= Behind(q, N, i)
        BY <2>1, <2>2, <2>6, <2>7 DEF Cools, q
  <2> QED BY <2>1, <2>4, <2>5, <2>8 DEF Cools
<1>14. ASSUME NEW h \in 1..n, Hot(r[m + h], N, m + h) PROVE Cools(r, N, m + h)
  <2> DEFINE q == t[h]
             i == m + h
  <2>1. r[i] = q /\ N[i] = M[h] /\ N[i + 1] = M[h + 1] /\ h + 1 \in 1..(n + 1) /\ M[h] \in 0..2
    <3>1. i + 1 = m + (h + 1) /\ h \in 1..(n + 1) /\ h + 1 \in 1..(n + 1)
          BY <1>3
    <3> QED BY <1>3, <1>4, <1>9, <3>1
  <2>2. Cools(t, M, h)
        BY <1>2, <1>14, <2>1 DEF LevelsFit, Hot, n
  <2>3. Behind(q, N, i) = Behind(q, M, h)
        BY <2>1 DEF Behind
  <2>4. i \in Nat /\ h \in Nat
        BY <1>3
  <2> HIDE DEF q, i
  <2>5. N[i + 1] <= IF Spins(q) THEN 0 ELSE Behind(q, N, i)
        BY <2>1, <2>2, <2>3 DEF Cools, q
  <2>6. q.kind = "loop" => \E k \in Nat : k < i /\ q.args = {k} /\ N[i - k] <= N[i]
    <3>1. ASSUME NEW k \in Nat, k < h PROVE k < i /\ N[i - k] = M[h - k]
      <4>1. k < i /\ i - k = m + (h - k) /\ h - k \in 1..(n + 1)
            BY <1>3, <3>1 DEF i
      <4> QED BY <1>9, <4>1
    <3> QED BY <2>1, <2>2, <3>1 DEF Cools, q
  <2>7. ASSUME q.fail = "skip", h < Len(t), M[h + 2] <= Behind(q, M, h)
        PROVE  i < Len(r) /\ N[i + 2] <= Behind(q, N, i)
    <3>1. i + 2 = m + (h + 2) /\ h + 2 \in 1..(n + 1) /\ i < Len(r)
          BY <1>3, <2>7 DEF n, i
    <3> QED BY <1>9, <2>3, <2>7, <3>1
  <2>8. ASSUME NEW j \in h..Len(t), t[j].kind = "loop", \A k \in h..(j - 1) : t[k].kind # "loop",
               M[j] <= Behind(q, M, h)
        PROVE  /\ m + j \in i..Len(r) /\ r[m + j].kind = "loop"
               /\ \A k \in i..((m + j) - 1) : r[k].kind # "loop"
               /\ N[m + j] <= Behind(q, N, i)
    <3>1. m + j \in i..Len(r) /\ r[m + j] = t[j] /\ N[m + j] = M[j]
      <4>1. j \in 1..n /\ j \in 1..(n + 1) /\ m + j \in (m + h)..(m + n)
            BY <1>3 DEF n
      <4> QED BY <1>3, <1>9, <4>1 DEF i
    <3>2. ASSUME NEW k \in i..((m + j) - 1) PROVE r[k].kind # "loop"
      <4>1. k - m \in h..(j - 1) /\ k - m \in 1..n /\ m + (k - m) = k
            BY <1>3 DEF n, i
      <4> QED BY <1>3, <2>8, <4>1
    <3> QED BY <2>3, <2>8, <3>1, <3>2
  <2>9. /\ q.line = 1 /\ q.kind \in {"call", "loop"} /\ "done" \notin q.bad /\ N[i] < 2
        /\ q.kind # "loop" /\ q.bad # {} =>
             \/ q.fail = "skip" /\ i < Len(r) /\ N[i + 2] <= Behind(q, N, i)
             \/ /\ q.fail = "again"
                /\ \E j \in i..Len(r) :
                     /\ r[j].kind = "loop" /\ \A k \in i..(j - 1) : r[k].kind # "loop"
                     /\ N[j] <= Behind(q, N, i)
    <3>1. q.line = 1 /\ q.kind \in {"call", "loop"} /\ "done" \notin q.bad /\ N[i] < 2
          BY <2>1, <2>2 DEF Cools, q
    <3>2. CASE q.fail = "skip" /\ h < Len(t) /\ M[h + 2] <= Behind(q, M, h)
          BY <2>7, <3>1, <3>2
    <3>3. ASSUME q.fail = "again", NEW j \in h..Len(t), t[j].kind = "loop",
                 \A k \in h..(j - 1) : t[k].kind # "loop", M[j] <= Behind(q, M, h)
          PROVE  \E g \in i..Len(r) :
                     /\ r[g].kind = "loop" /\ \A k \in i..(g - 1) : r[k].kind # "loop"
                     /\ N[g] <= Behind(q, N, i)
      <4> DEFINE g == m + j
      <4>1. /\ g \in i..Len(r) /\ r[g].kind = "loop" /\ \A k \in i..(g - 1) : r[k].kind # "loop"
            /\ N[g] <= Behind(q, N, i)
            BY <2>8, <3>3
      <4> HIDE DEF g
      <4> QED BY <4>1
    <3>4. q.kind # "loop" /\ q.bad # {} =>
             \/ q.fail = "skip" /\ h < Len(t) /\ M[h + 2] <= Behind(q, M, h)
             \/ /\ q.fail = "again"
                /\ \E j \in h..Len(t) :
                     /\ t[j].kind = "loop" /\ \A k \in h..(j - 1) : t[k].kind # "loop"
                     /\ M[j] <= Behind(q, M, h)
          BY <2>2 DEF Cools, q
    <3> QED BY <3>1, <3>2, <3>3, <3>4
  <2> QED BY <2>1, <2>5, <2>6, <2>9 DEF Cools, i
<1>15. LevelsFit(r, a, c, N)
  <2>1. ASSUME NEW i \in 1..Len(r), Hot(r[i], N, i) PROVE Cools(r, N, i)
    <3>1. i \in 1..m \/ \E h \in 1..n : m + h = i
          BY <1>3, EitherPart
    <3> QED BY <1>13, <1>14, <2>1, <3>1
  <2> QED BY <1>10, <1>11, <2>1 DEF LevelsFit
<1> QED BY <1>3, <1>5, <1>15 DEF Levelled, r

\* A row that no answer of the firmware diverts.
Steady(r) == r.line = 1 /\ r.kind = "call" /\ r.bad = {} /\ ~Spins(r)
Spurs(r, fail) == r.line = 1 /\ r.kind = "call" /\ r.bad # {} /\ "done" \notin r.bad /\ r.fail = fail /\ Spins(r)

LEMMA HotRows ==
    /\ Steady(Stop(1)) /\ Slows(Stop(1))
    /\ Steady(Disable(1)) /\ Slows(Disable(1))
    /\ Steady(Read(1)) /\ ~Slows(Read(1))
    /\ Steady(Try(1, "current", {SafeDefault})) /\ ~Slows(Try(1, "current", {SafeDefault}))
    /\ Spurs(Call(1, "speed", {5}, "again"), "again") /\ Spurs(Call(1, "speed", {3, 30}, "again"), "again")
    /\ Spurs(Ack(1, "speed", {5, 30}, "again"), "again")
    /\ Spurs(Ack(1, "speed", {24}, "skip"), "skip") /\ Spurs(Ack(1, "speed", {30}, "skip"), "skip")
PROOF
<1>1. \A b, op, args : op # "speed" \/ args = {0} => Steady(Try(1, op, args))
      BY DEF Steady, Spins, Sending, Row, Try
<1>4. Slows(Stop(1)) /\ Slows(Disable(1)) /\ ~Slows(Read(1)) /\ ~Slows(Try(1, "current", {SafeDefault}))
      BY DEF Slows, Row, Stop, Disable, Read, Try
<1>5. Steady(Stop(1)) /\ Steady(Disable(1)) /\ Steady(Read(1)) /\ Steady(Try(1, "current", {SafeDefault}))
      BY <1>1 DEF Stop, Disable, Read
<1>2. {5} # {0} /\ {3, 30} # {0} /\ {5, 30} # {0} /\ {24} # {0} /\ {30} # {0}
      OBVIOUS
<1>3. /\ Spurs(Call(1, "speed", {5}, "again"), "again") /\ Spurs(Call(1, "speed", {3, 30}, "again"), "again")
      /\ Spurs(Ack(1, "speed", {5, 30}, "again"), "again")
      /\ Spurs(Ack(1, "speed", {24}, "skip"), "skip") /\ Spurs(Ack(1, "speed", {30}, "skip"), "skip")
      BY <1>2 DEF Spurs, Spins, Sending, Row, Ack, Call
<1> QED BY <1>3, <1>4, <1>5

\* How the rows keep the levels behind them.
LEMMA LevelType ==
    ASSUME NEW n \in Nat, NEW L \in Levels(n)
    PROVE  \A k \in 1..(n + 1) : L[k] \in 0..2
PROOF BY DEF Levels

LEMMA SteadyCools ==
    ASSUME NEW rows, NEW n \in Nat, NEW i \in 1..n, NEW L \in Levels(n),
           Steady(rows[i]), L[i] < 2, L[i + 1] <= L[i]
    PROVE  Cools(rows, L, i)
PROOF
<1>1. L[i] \in 0..2 /\ L[i + 1] \in 0..2
      BY LevelType
<1> QED BY <1>1 DEF Steady, Cools, Behind

LEMMA SlowCools ==
    ASSUME NEW rows, NEW n \in Nat, NEW i \in 1..n, NEW L \in Levels(n),
           Steady(rows[i]), Slows(rows[i]), L[i] < 2, L[i + 1] <= L[i] + 1
    PROVE  Cools(rows, L, i)
PROOF
<1>1. L[i] \in 0..2 /\ L[i + 1] \in 0..2
      BY LevelType
<1> QED BY <1>1 DEF Steady, Cools, Behind

LEMMA SpursKeep ==
    ASSUME NEW r, NEW fail, Spurs(r, fail)
    PROVE  /\ r.line = 1 /\ r.kind = "call" /\ r.bad # {} /\ "done" \notin r.bad
           /\ r.fail = fail /\ Spins(r) /\ ~Slows(r)
PROOF BY DEF Spurs, Spins, Slows

LEMMA SkipCools ==
    ASSUME NEW rows, NEW n \in Nat, Len(rows) = n, NEW i \in 1..n, NEW L \in Levels(n),
           Spurs(rows[i], "skip"), i < n, L[i] < 2, L[i + 1] = 0, L[i + 2] <= L[i]
    PROVE  Cools(rows, L, i)
PROOF
<1>1. L[i] \in 0..2 /\ L[i + 1] \in 0..2 /\ L[i + 2] \in 0..2
      BY LevelType
<1>2. Behind(rows[i], L, i) = L[i]
      BY <1>1, SpursKeep DEF Behind
<1> QED BY <1>1, <1>2, SpursKeep DEF Cools

LEMMA AgainCools ==
    ASSUME NEW rows, NEW n \in Nat, Len(rows) = n, NEW i \in 1..n, NEW L \in Levels(n),
           Spurs(rows[i], "again"), L[i] < 2, L[i + 1] = 0,
           NEW j \in i..n, L[j] <= L[i], rows[j].kind = "loop", \A k \in i..(j - 1) : rows[k].kind # "loop"
    PROVE  Cools(rows, L, i)
PROOF
<1>1. L[i] \in 0..2 /\ L[i + 1] \in 0..2
      BY LevelType
<1>2. Behind(rows[i], L, i) = L[i]
      BY <1>1, SpursKeep DEF Behind
<1> QED BY <1>1, <1>2, SpursKeep DEF Cools

LEMMA LoopCools ==
    ASSUME NEW rows, NEW n \in Nat, NEW i \in 1..n, NEW L \in Levels(n),
           NEW k \in Nat, rows[i] = Loop(k), k < i, L[i] < 2, L[i + 1] <= L[i], L[i - k] <= L[i]
    PROVE  Cools(rows, L, i)
PROOF
<1>1. L[i] \in 0..2 /\ L[i + 1] \in 0..2
      BY LevelType
<1>2. rows[i].line = 1 /\ rows[i].kind = "loop" /\ rows[i].args = {k} /\ rows[i].bad = {}
      BY DEF Loop, Row
<1>3. ~Spins(rows[i]) /\ Behind(rows[i], L, i) = L[i]
      BY <1>1, <1>2 DEF Behind, Spins, Sending, Slows
<1> QED BY <1>1, <1>2, <1>3 DEF Cools

LEMMA S2IsLevelled == Levelled(S2Acceleration(5), 2, 1)
PROOF
<1> DEFINE rows == S2Acceleration(5)
           L == <<1, 1, 0, 0, 1, 1>>
<1>1. /\ Plainly(Stop(1)) /\ Wild(Call(1, "speed", {5}, "again")) /\ Plainly(Read(1))
      /\ Loops(Loop(4), 4)
      BY SpeedRows, QueryRows, LoopRows, EnableRows, PortRows, SettingRows
<1>2. /\ Len(rows) = 5
      /\ rows[1] = Stop(1) /\ rows[2] = Call(1, "speed", {5}, "again") /\ rows[3] = Read(1)
      /\ rows[4] = Stop(1) /\ rows[5] = Loop(4)
      BY DEF S2Acceleration
<1>3. Sane(rows)
  <2>1. Loops(rows[5], 4)
        BY <1>1, <1>2
  <2> QED BY <1>1, <1>2, <2>1 DEF Sane, IsRows, RowIsTame, RowIsWild, S2Acceleration
<1>4. L \in Levels(5) /\ L[1] = 1 /\ L[2] = 1 /\ L[3] = 0 /\ L[4] = 0 /\ L[5] = 1 /\ L[6] = 1
      BY DEF Levels
<1> HIDE DEF rows, L
<1>5. Cools(rows, L, 1)
      BY <1>2, <1>4, HotRows, SlowCools
<1>6. Cools(rows, L, 2)
  <2>1. rows[5].kind = "loop" /\ \A k \in 2..(5 - 1) : rows[k].kind # "loop"
        BY <1>1, <1>2 DEF Loops, Plainly, Wild, Leaves
  <2>2. Spurs(rows[2], "again")
        BY <1>2, HotRows
  <2>3. /\ 5 \in Nat /\ 2 \in 1..5 /\ 5 \in 2..5
        /\ L[2] < 2 /\ L[2 + 1] = 0 /\ L[5] <= L[2]
        BY <1>4
  <2> QED BY <1>2, <1>4, <2>1, <2>2, <2>3, AgainCools
<1>7. Cools(rows, L, 3)
      BY <1>2, <1>4, HotRows, SteadyCools
<1>8. Cools(rows, L, 4)
      BY <1>2, <1>4, HotRows, SlowCools
<1>9. Cools(rows, L, 5)
  <2>1. 5 - 4 = 1 /\ 4 \in Nat
        OBVIOUS
  <2> QED BY <1>2, <1>4, <2>1, LoopCools
<1>10. LevelsFit(rows, 2, 1, L)
  <2>1. ASSUME NEW i \in 1..5, Hot(rows[i], L, i) PROVE Cools(rows, L, i)
        BY <1>5, <1>6, <1>7, <1>8, <1>9, <2>1
  <2> QED BY <1>2, <1>4, <2>1 DEF LevelsFit
<1> QED BY <1>2, <1>3, <1>4, <1>10 DEF Levelled, rows

LEMMA StopIsLevelled == Levelled(<<Stop(1)>>, 1, 2)
PROOF
<1> DEFINE rows == <<Stop(1)>>
           L == <<1, 2>>
<1>1. /\ Plainly(Stop(1))
      BY SpeedRows, QueryRows, LoopRows, EnableRows, PortRows, SettingRows
<1>2. /\ Len(rows) = 1
      /\ rows[1] = Stop(1)
      OBVIOUS
<1>3. Sane(rows)
  <2> QED BY <1>1, <1>2 DEF Sane, IsRows, RowIsTame, RowIsWild
<1>4. L \in Levels(1) /\ L[1] = 1 /\ L[2] = 2
      BY DEF Levels
<1> HIDE DEF rows, L
<1>5. Cools(rows, L, 1)
      BY <1>2, <1>4, HotRows, SlowCools
<1>6. LevelsFit(rows, 1, 2, L)
  <2>1. ASSUME NEW i \in 1..1, Hot(rows[i], L, i) PROVE Cools(rows, L, i)
        BY <1>5, <2>1
  <2> QED BY <1>2, <1>4, <2>1 DEF LevelsFit
<1> QED BY <1>2, <1>3, <1>4, <1>6 DEF Levelled, rows

LEMMA VoltagesAreLevelled ==
    Levelled(<<Ack(1, "current", {10, 30}, "again"), Ack(1, "speed", {24}, "skip"), Read(1),
            Ack(1, "speed", {30}, "skip"), Read(1), Stop(1), Loop(6)>>, 2, 1)
PROOF
<1> DEFINE rows == <<Ack(1, "current", {10, 30}, "again"), Ack(1, "speed", {24}, "skip"), Read(1),
                    Ack(1, "speed", {30}, "skip"), Read(1), Stop(1), Loop(6)>>
           L == <<1, 1, 0, 0, 0, 0, 1, 1>>
<1>1. /\ Leaves(Ack(1, "current", {10, 30}, "again")) /\ Wild(Ack(1, "speed", {24}, "skip"))
      /\ Plainly(Read(1)) /\ Wild(Ack(1, "speed", {30}, "skip")) /\ Plainly(Stop(1))
      /\ Loops(Loop(6), 6)
      BY SpeedRows, QueryRows, LoopRows, EnableRows, PortRows, SettingRows
<1>2. /\ Len(rows) = 7
      /\ rows[1] = Ack(1, "current", {10, 30}, "again")
      /\ rows[2] = Ack(1, "speed", {24}, "skip") /\ rows[3] = Read(1)
      /\ rows[4] = Ack(1, "speed", {30}, "skip") /\ rows[5] = Read(1) /\ rows[6] = Stop(1)
      /\ rows[7] = Loop(6)
      OBVIOUS
<1>3. Sane(rows)
  <2>1. Loops(rows[7], 6)
        BY <1>1, <1>2
  <2> QED BY <1>1, <1>2, <2>1 DEF Sane, IsRows, RowIsTame, RowIsWild
<1>4. /\ L \in Levels(7)
      /\ L[1] = 1 /\ L[2] = 1 /\ L[3] = 0 /\ L[4] = 0 /\ L[5] = 0 /\ L[6] = 0 /\ L[7] = 1
      /\ L[8] = 1
      BY DEF Levels
<1> HIDE DEF rows, L
<1>5. Cools(rows, L, 1)
  <2>1. rows[7].kind = "loop" /\ \A k \in 1..(7 - 1) : rows[k].kind # "loop"
        BY <1>1, <1>2 DEF Loops, Plainly, Wild, Leaves
  <2>2. /\ rows[1].line = 1 /\ rows[1].kind = "call" /\ rows[1].op = "current" /\ "done" \notin rows[1].bad
        /\ rows[1].fail = "again"
        BY <1>2 DEF Ack, Row
  <2>3. Behind(rows[1], L, 1) = 1
        BY <1>4, <2>2 DEF Behind, Slows
  <2> QED BY <1>2, <1>4, <2>1, <2>2, <2>3 DEF Cools, Spins
<1>6. Cools(rows, L, 2)
  <2>1. Spurs(rows[2], "skip")
        BY <1>2, HotRows
  <2>2. /\ 7 \in Nat /\ 2 \in 1..7 /\ 2 < 7
        /\ L[2] < 2 /\ L[2 + 1] = 0 /\ L[2 + 2] <= L[2]
        BY <1>4
  <2> QED BY <1>2, <1>4, <2>1, <2>2, SkipCools
<1>7. Cools(rows, L, 3)
      BY <1>2, <1>4, HotRows, SteadyCools
<1>8. Cools(rows, L, 4)
  <2>1. Spurs(rows[4], "skip")
        BY <1>2, HotRows
  <2>2. /\ 7 \in Nat /\ 4 \in 1..7 /\ 4 < 7
        /\ L[4] < 2 /\ L[4 + 1] = 0 /\ L[4 + 2] <= L[4]
        BY <1>4
  <2> QED BY <1>2, <1>4, <2>1, <2>2, SkipCools
<1>9. Cools(rows, L, 5)
      BY <1>2, <1>4, HotRows, SteadyCools
<1>10. Cools(rows, L, 6)
      BY <1>2, <1>4, HotRows, SlowCools
<1>11. Cools(rows, L, 7)
  <2>1. 7 - 6 = 1 /\ 6 \in Nat
        OBVIOUS
  <2> QED BY <1>2, <1>4, <2>1, LoopCools
<1>12. LevelsFit(rows, 2, 1, L)
  <2>1. ASSUME NEW i \in 1..7, Hot(rows[i], L, i) PROVE Cools(rows, L, i)
        BY <1>5, <1>6, <1>7, <1>8, <1>9, <1>10, <1>11, <2>1
  <2> QED BY <1>2, <1>4, <2>1 DEF LevelsFit
<1> QED BY <1>2, <1>3, <1>4, <1>12 DEF Levelled, rows

LEMMA SetupEndIsLevelled == Levelled(<<Try(1, "current", {SafeDefault}), Disable(1), Close(1)>>, 1, 2)
PROOF
<1> DEFINE rows == <<Try(1, "current", {SafeDefault}), Disable(1), Close(1)>>
           L == <<1, 1, 2, 2>>
<1>1. /\ Plainly(Try(1, "current", {SafeDefault})) /\ Plainly(Disable(1)) /\ Plainly(Close(1))
      BY SpeedRows, QueryRows, LoopRows, EnableRows, PortRows, SettingRows
<1>2. /\ Len(rows) = 3
      /\ rows[1] = Try(1, "current", {SafeDefault}) /\ rows[2] = Disable(1)
      /\ rows[3] = Close(1)
      OBVIOUS
<1>3. Sane(rows)
  <2> QED BY <1>1, <1>2 DEF Sane, IsRows, RowIsTame, RowIsWild
<1>4. L \in Levels(3) /\ L[1] = 1 /\ L[2] = 1 /\ L[3] = 2 /\ L[4] = 2
      BY DEF Levels
<1> HIDE DEF rows, L
<1>5. Cools(rows, L, 1)
      BY <1>2, <1>4, HotRows, SteadyCools
<1>6. Cools(rows, L, 2)
      BY <1>2, <1>4, HotRows, SlowCools
<1>7. ~Hot(rows[3], L, 3)
      BY <1>1, <1>2, <1>4 DEF Hot, Plainly
<1>8. LevelsFit(rows, 1, 2, L)
  <2>1. ASSUME NEW i \in 1..3, Hot(rows[i], L, i) PROVE Cools(rows, L, i)
        BY <1>5, <1>6, <1>7, <2>1
  <2> QED BY <1>2, <1>4, <2>1 DEF LevelsFit
<1> QED BY <1>2, <1>3, <1>4, <1>8 DEF Levelled, rows

LEMMA RunTest3MaxRpmIsLevelled == Levelled(run_test3_max_rpm, 2, 1)
PROOF
<1> DEFINE rows == run_test3_max_rpm
           L == <<0, 0, 0, 0, 1>>
<1>1. /\ Wild(Call(1, "speed", {3, 30}, "again")) /\ Plainly(Read(1)) /\ Loops(Loop(2), 2)
      /\ Plainly(Stop(1))
      BY SpeedRows, QueryRows, LoopRows, EnableRows, PortRows, SettingRows
<1>2. /\ Len(rows) = 4
      /\ rows[1] = Call(1, "speed", {3, 30}, "again") /\ rows[2] = Read(1) /\ rows[3] = Loop(2)
      /\ rows[4] = Stop(1)
      BY DEF run_test3_max_rpm
<1>3. Sane(rows)
  <2>1. Loops(rows[3], 2)
        BY <1>1, <1>2
  <2> QED BY <1>1, <1>2, <2>1 DEF Sane, IsRows, RowIsTame, RowIsWild, run_test3_max_rpm
<1>4. L \in Levels(4) /\ L[1] = 0 /\ L[2] = 0 /\ L[3] = 0 /\ L[4] = 0 /\ L[5] = 1
      BY DEF Levels
<1> HIDE DEF rows, L
<1>5. Cools(rows, L, 1)
  <2>1. rows[3].kind = "loop" /\ \A k \in 1..(3 - 1) : rows[k].kind # "loop"
        BY <1>1, <1>2 DEF Loops, Plainly, Wild, Leaves
  <2>2. Spurs(rows[1], "again")
        BY <1>2, HotRows
  <2>3. /\ 4 \in Nat /\ 1 \in 1..4 /\ 3 \in 1..4
        /\ L[1] < 2 /\ L[1 + 1] = 0 /\ L[3] <= L[1]
        BY <1>4
  <2> QED BY <1>2, <1>4, <2>1, <2>2, <2>3, AgainCools
<1>6. Cools(rows, L, 2)
      BY <1>2, <1>4, HotRows, SteadyCools
<1>7. Cools(rows, L, 3)
  <2>1. 3 - 2 = 1 /\ 2 \in Nat
        OBVIOUS
  <2> QED BY <1>2, <1>4, <2>1, LoopCools
<1>8. Cools(rows, L, 4)
      BY <1>2, <1>4, HotRows, SlowCools
<1>9. LevelsFit(rows, 2, 1, L)
  <2>1. ASSUME NEW i \in 1..4, Hot(rows[i], L, i) PROVE Cools(rows, L, i)
        BY <1>5, <1>6, <1>7, <1>8, <2>1
  <2> QED BY <1>2, <1>4, <2>1 DEF LevelsFit
<1> QED BY <1>2, <1>3, <1>4, <1>9 DEF Levelled, rows

LEMMA EnvelopeEndIsLevelled == Levelled(<<Disable(1), Close(1), Back(1)>>, 1, 2)
PROOF
<1> DEFINE rows == <<Disable(1), Close(1), Back(1)>>
           L == <<1, 2, 2, 2>>
<1>1. /\ Plainly(Disable(1)) /\ Plainly(Close(1)) /\ Plainly(Back(1))
      BY SpeedRows, QueryRows, LoopRows, EnableRows, PortRows, SettingRows
<1>2. /\ Len(rows) = 3
      /\ rows[1] = Disable(1) /\ rows[2] = Close(1) /\ rows[3] = Back(1)
      OBVIOUS
<1>3. Sane(rows)
  <2> QED BY <1>1, <1>2 DEF Sane, IsRows, RowIsTame, RowIsWild
<1>4. L \in Levels(3) /\ L[1] = 1 /\ L[2] = 2 /\ L[3] = 2 /\ L[4] = 2
      BY DEF Levels
<1> HIDE DEF rows, L
<1>5. Cools(rows, L, 1)
      BY <1>2, <1>4, HotRows, SlowCools
<1>6. ~Hot(rows[2], L, 2)
      BY <1>1, <1>2, <1>4 DEF Hot, Plainly
<1>7. ~Hot(rows[3], L, 3)
      BY <1>1, <1>2, <1>4 DEF Hot, Plainly
<1>8. LevelsFit(rows, 1, 2, L)
  <2>1. ASSUME NEW i \in 1..3, Hot(rows[i], L, i) PROVE Cools(rows, L, i)
        BY <1>5, <1>6, <1>7, <2>1
  <2> QED BY <1>2, <1>4, <2>1 DEF LevelsFit
<1> QED BY <1>2, <1>3, <1>4, <1>8 DEF Levelled, rows

LEMMA SpeedsAreLevelled ==
    Levelled(<<Ack(1, "speed", {5, 30}, "again"), Read(1), Read(1), Stop(1), Loop(4)>>, 2, 1)
PROOF
<1> DEFINE rows == <<Ack(1, "speed", {5, 30}, "again"), Read(1), Read(1), Stop(1), Loop(4)>>
           L == <<1, 0, 0, 0, 1, 1>>
<1>1. /\ Wild(Ack(1, "speed", {5, 30}, "again")) /\ Plainly(Read(1)) /\ Plainly(Stop(1))
      /\ Loops(Loop(4), 4)
      BY SpeedRows, QueryRows, LoopRows, EnableRows, PortRows, SettingRows
<1>2. /\ Len(rows) = 5
      /\ rows[1] = Ack(1, "speed", {5, 30}, "again") /\ rows[2] = Read(1) /\ rows[3] = Read(1)
      /\ rows[4] = Stop(1) /\ rows[5] = Loop(4)
      OBVIOUS
<1>3. Sane(rows)
  <2>1. Loops(rows[5], 4)
        BY <1>1, <1>2
  <2> QED BY <1>1, <1>2, <2>1 DEF Sane, IsRows, RowIsTame, RowIsWild
<1>4. L \in Levels(5) /\ L[1] = 1 /\ L[2] = 0 /\ L[3] = 0 /\ L[4] = 0 /\ L[5] = 1 /\ L[6] = 1
      BY DEF Levels
<1> HIDE DEF rows, L
<1>5. Cools(rows, L, 1)
  <2>1. rows[5].kind = "loop" /\ \A k \in 1..(5 - 1) : rows[k].kind # "loop"
        BY <1>1, <1>2 DEF Loops, Plainly, Wild, Leaves
  <2>2. Spurs(rows[1], "again")
        BY <1>2, HotRows
  <2>3. /\ 5 \in Nat /\ 1 \in 1..5 /\ 5 \in 1..5
        /\ L[1] < 2 /\ L[1 + 1] = 0 /\ L[5] <= L[1]
        BY <1>4
  <2> QED BY <1>2, <1>4, <2>1, <2>2, <2>3, AgainCools
<1>6. Cools(rows, L, 2)
      BY <1>2, <1>4, HotRows, SteadyCools
<1>7. Cools(rows, L, 3)
      BY <1>2, <1>4, HotRows, SteadyCools
<1>8. Cools(rows, L, 4)
      BY <1>2, <1>4, HotRows, SlowCools
<1>9. Cools(rows, L, 5)
  <2>1. 5 - 4 = 1 /\ 4 \in Nat
        OBVIOUS
  <2> QED BY <1>2, <1>4, <2>1, LoopCools
<1>10. LevelsFit(rows, 2, 1, L)
  <2>1. ASSUME NEW i \in 1..5, Hot(rows[i], L, i) PROVE Cools(rows, L, i)
        BY <1>5, <1>6, <1>7, <1>8, <1>9, <2>1
  <2> QED BY <1>2, <1>4, <2>1 DEF LevelsFit
<1> QED BY <1>2, <1>3, <1>4, <1>10 DEF Levelled, rows

LEMMA StopAndDisableAreLevelled == Levelled(<<Stop(1), Disable(1)>>, 1, 2)
PROOF
<1> DEFINE rows == <<Stop(1), Disable(1)>>
           L == <<1, 2, 2>>
<1>1. /\ Plainly(Stop(1)) /\ Plainly(Disable(1))
      BY SpeedRows, QueryRows, LoopRows, EnableRows, PortRows, SettingRows
<1>2. /\ Len(rows) = 2
      /\ rows[1] = Stop(1) /\ rows[2] = Disable(1)
      OBVIOUS
<1>3. Sane(rows)
  <2> QED BY <1>1, <1>2 DEF Sane, IsRows, RowIsTame, RowIsWild
<1>4. L \in Levels(2) /\ L[1] = 1 /\ L[2] = 2 /\ L[3] = 2
      BY DEF Levels
<1> HIDE DEF rows, L
<1>5. Cools(rows, L, 1)
      BY <1>2, <1>4, HotRows, SlowCools
<1>6. ~Hot(rows[2], L, 2)
      BY <1>1, <1>2, <1>4 DEF Hot, Plainly
<1>7. LevelsFit(rows, 1, 2, L)
  <2>1. ASSUME NEW i \in 1..2, Hot(rows[i], L, i) PROVE Cools(rows, L, i)
        BY <1>5, <1>6, <2>1
  <2> QED BY <1>2, <1>4, <2>1 DEF LevelsFit
<1> QED BY <1>2, <1>3, <1>4, <1>7 DEF Levelled, rows

LEMMA BlindIsLevelled ==
    ASSUME NEW body, Levelled(body, 2, 2)
    PROVE  Levelled(Blind(body), 2, 2)
PROOF
<1> DEFINE s == <<Tell(1, Low, High), Open(1, High, "exit"), Enable(1), Ack(1, "zero", Plain, "exit")>>
           t == <<Disable(1), Close(1), Tell(1, High, Low)>>
<1>1. Tame(s)
  <2>1. /\ Plainly(Tell(1, Low, High)) /\ Plainly(Open(1, High, "exit")) /\ Plainly(Enable(1))
        /\ Plainly(Ack(1, "zero", Plain, "exit"))
        BY PortRows, EnableRows, QueryRows
  <2> QED BY <2>1 DEF Tame, IsRows, RowIsTame
<1>2. Tame(t)
  <2>1. /\ Plainly(Disable(1)) /\ Plainly(Close(1)) /\ Plainly(Tell(1, High, Low))
        BY EnableRows, PortRows
  <2> QED BY <2>1 DEF Tame, IsRows, RowIsTame
<1> HIDE DEF s, t
<1>3. Levelled(s, 2, 2) /\ Levelled(t, 2, 2)
      BY <1>1, <1>2, TameIsLevelled
<1>4. Levelled((s \o body) \o t, 2, 2)
      BY <1>3, LevelJoined
<1> QED BY <1>4 DEF Blind, s, t

LEMMA CharacterizeIsLevelled == Levelled(characterize, 2, 2)
PROOF
<1> DEFINE s == P1Precision \o P3ErrorVsRpm \o P5FollowError
<1>1. Levelled(s, 2, 2)
  <2>1. Tame(s)
        BY P1PrecisionIsTame, P3ErrorVsRpmIsTame, P5FollowErrorIsTame, TameJoined
  <2> QED BY <2>1, TameIsLevelled
<1> HIDE DEF s
<1>2. Levelled(s \o S2Acceleration(5), 2, 1)
      BY <1>1, S2IsLevelled, LevelJoined
<1>3. Levelled((s \o S2Acceleration(5)) \o <<Stop(1)>>, 2, 2)
      BY <1>2, StopIsLevelled, LevelJoined
<1> QED BY <1>3, BlindIsLevelled DEF characterize, s

LEMMA HilVoltageSetupIsLevelled == Levelled(hil_voltage_setup, 2, 2)
PROOF
<1> DEFINE s == <<Ack(1, "current", {10, 30}, "again"), Ack(1, "speed", {24}, "skip"), Read(1),
                  Ack(1, "speed", {30}, "skip"), Read(1), Stop(1), Loop(6)>>
           t == <<Try(1, "current", {SafeDefault}), Disable(1), Close(1)>>
           body == <<Ack(1, "current", {10, 30}, "again"), Ack(1, "speed", {24}, "skip"), Read(1),
                     Ack(1, "speed", {30}, "skip"), Read(1), Stop(1), Loop(6),
                     Try(1, "current", {SafeDefault}), Disable(1), Close(1)>>
<1>1. Levelled(s, 2, 1) /\ Levelled(t, 1, 2) /\ Levelled(Seek, 2, 2)
      BY VoltagesAreLevelled, SetupEndIsLevelled, SeekIsTame, TameIsLevelled
<1>2. body = s \o t
      OBVIOUS
<1> HIDE DEF s, t, body
<1>3. Levelled(body, 2, 2)
      BY <1>1, <1>2, LevelJoined
<1>4. Levelled(Seek \o body, 2, 2)
      BY <1>1, <1>3, LevelJoined
<1> QED BY <1>4 DEF hil_voltage_setup, body

LEMMA HilEnvelopeIsLevelled == Levelled(hil_envelope, 2, 2)
PROOF
<1> DEFINE s == <<Found(1), Switch(1, "next"), Verify(1, "next"), Recheck(1), OpenThere(1),
                  Ack(1, "enable", {TRUE}, "exit"), Ack(1, "zero", Plain, "off")>>
           t == <<Disable(1), Close(1), Back(1)>>
           tests == Probe(1) \o s \o run_test1_comms \o do_90deg \o run_test5_overshoot \o do_90deg
<1>1. Tame(s)
  <2>1. /\ Plainly(Found(1)) /\ Plainly(Switch(1, "next")) /\ Plainly(Verify(1, "next"))
        /\ Plainly(Recheck(1)) /\ Plainly(OpenThere(1))
        /\ Plainly(Ack(1, "enable", {TRUE}, "exit")) /\ Plainly(Ack(1, "zero", Plain, "off"))
        BY PortRows, EnableRows, QueryRows
  <2> QED BY <2>1 DEF Tame, IsRows, RowIsTame
<1>2. Levelled(t, 1, 2)
      BY EnvelopeEndIsLevelled
<1> HIDE DEF s, t
<1>3. Levelled(tests, 2, 2) /\ Levelled(EndOff, 2, 2)
  <2>1. Tame(tests) /\ Tame(EndOff)
        BY <1>1, ShortIsTame, Do90degIsTame, RunTest1CommsIsTame, RunTest5OvershootIsTame, TameJoined
  <2> QED BY <2>1, TameIsLevelled
<1> HIDE DEF tests
<1>4. Levelled(tests \o run_test3_max_rpm, 2, 1)
      BY <1>3, RunTest3MaxRpmIsLevelled, LevelJoined
<1>5. Levelled((tests \o run_test3_max_rpm) \o t, 2, 2)
      BY <1>2, <1>4, LevelJoined
<1>6. Levelled(((tests \o run_test3_max_rpm) \o t) \o EndOff, 2, 2)
      BY <1>3, <1>5, LevelJoined
<1> QED BY <1>6 DEF hil_envelope, tests, s, t

LEMMA HilSingleMotorBenchIsLevelled ==
    Levelled(hil_single_motor_bench(TRUE), 2, 2) /\ Levelled(hil_single_motor_bench(FALSE), 2, 2)
PROOF
<1> DEFINE s == <<Found(1), Switch(1, "exit"), Verify(1, "exit"), Open(1, High, "exit")>>
           u == <<Ack(1, "mode", {4}, "exit"), Send(1, "read", Plain, "exit")>>
           v == <<Ack(1, "enable", {TRUE}, "exit"), Call(1, "read", Plain, "exit"), Try(1, "zero", Plain),
                  Ack(1, "read", Plain, "again"), Ack(1, "turn", Plain, "again"), Await(1, "again"), Note,
                  Loop(4), Needs("off"), Try(1, "turn", Plain)>>
           w == <<Ack(1, "speed", {5, 30}, "again"), Read(1), Read(1), Stop(1), Loop(4)>>
           t == <<Stop(1), Disable(1)>>
           body == <<Ack(1, "enable", {TRUE}, "exit"), Call(1, "read", Plain, "exit"), Try(1, "zero", Plain),
                     Ack(1, "read", Plain, "again"), Ack(1, "turn", Plain, "again"), Await(1, "again"), Note,
                     Loop(4), Needs("off"), Try(1, "turn", Plain),
                     Ack(1, "speed", {5, 30}, "again"), Read(1), Read(1), Stop(1), Loop(4),
                     Stop(1), Disable(1)>>
           none == <<>>
<1>1. Tame(s)
  <2>1. /\ Plainly(Found(1)) /\ Plainly(Switch(1, "exit")) /\ Plainly(Verify(1, "exit"))
        /\ Plainly(Open(1, High, "exit"))
        BY PortRows
  <2> QED BY <2>1 DEF Tame, IsRows, RowIsTame
<1>2. Tame(u)
  <2>1. /\ Plainly(Ack(1, "mode", {4}, "exit")) /\ Plainly(Send(1, "read", Plain, "exit"))
        BY SettingRows, QueryRows
  <2> QED BY <2>1 DEF Tame, IsRows, RowIsTame
<1>3. Tame(v)
  <2>1. /\ Plainly(Ack(1, "enable", {TRUE}, "exit")) /\ Plainly(Call(1, "read", Plain, "exit"))
        /\ Plainly(Try(1, "zero", Plain)) /\ Leaves(Ack(1, "read", Plain, "again"))
        /\ Leaves(Ack(1, "turn", Plain, "again")) /\ Leaves(Await(1, "again")) /\ Plainly(Note)
        /\ Loops(Loop(4), 4) /\ Plainly(Needs("off")) /\ Plainly(Try(1, "turn", Plain))
        BY EnableRows, QueryRows, TurnRows, PortRows, LoopRows
  <2> QED BY <2>1 DEF Tame, IsRows, RowIsTame
<1>4. Tame(none)
      BY DEF Tame, IsRows
<1>5. Levelled(w, 2, 1) /\ Levelled(t, 1, 2)
      BY SpeedsAreLevelled, StopAndDisableAreLevelled
<1>6. body = (v \o w) \o t
      OBVIOUS
<1> HIDE DEF s, u, v, w, t, body, none
<1>7. /\ Levelled(Probe(1), 2, 2) /\ Levelled(s, 2, 2) /\ Levelled(u, 2, 2) /\ Levelled(v, 2, 2)
      /\ Levelled(none, 2, 2)
      BY <1>1, <1>2, <1>3, <1>4, ShortIsTame, TameIsLevelled
<1>8. Levelled(v \o w, 2, 1)
      BY <1>5, <1>7, LevelJoined
<1>9. Levelled(body, 2, 2)
      BY <1>5, <1>6, <1>8, LevelJoined
<1>10. Levelled(Probe(1) \o s, 2, 2)
       BY <1>7, LevelJoined
<1>11. Levelled((Probe(1) \o s) \o u, 2, 2) /\ Levelled((Probe(1) \o s) \o none, 2, 2)
       BY <1>7, <1>10, LevelJoined
<1>12. Levelled(((Probe(1) \o s) \o u) \o body, 2, 2) /\ Levelled(((Probe(1) \o s) \o none) \o body, 2, 2)
       BY <1>9, <1>11, LevelJoined
<1> QED BY <1>12 DEF hil_single_motor_bench, s, u, body, none

LEMMA ClientIsSane == Sane(client)
PROOF
<1>1. /\ Plainly(Open(1, Low, "exit")) /\ Wild(Row("any", 1, "any", Plain, {}, "next"))
      /\ Row("any", 1, "any", Plain, {}, "next").fail = "next" /\ Loops(Loop(1), 1)
      BY PortRows, LoopRows DEF Row
<1> QED BY <1>1 DEF client, Sane, IsRows, RowIsTame, RowIsWild

----------------------------------------------------------------------------
(* The program counter stays in the program.                                *)

\* The least of some numbers.
LEMMA LeastExists ==
    ASSUME NEW S, S \subseteq Nat, S # {}
    PROVE  \E j \in S : \A k \in S : j <= k
PROOF
<1>1. IsWellFoundedOn(Less, Nat)
  <2>1. OpToRel(<, Nat) = Less
        BY DEF OpToRel, Less
  <2> QED BY <2>1, NatLessThanWellFounded, Zenon
<1>2. PICK j \in S : \A k \in S : <<k, j>> \notin Less
      BY <1>1, WFMin, Zenon
<1>3. ASSUME NEW k \in S PROVE j <= k
  <2>1. j \in Nat /\ k \in Nat /\ ~(k < j)
        BY <1>2 DEF Less
  <2> QED BY <2>1
<1> QED BY <1>3

\* Where a row that fails goes to.
LEMMA Targets ==
    ASSUME NEW rows, Sane(rows), NEW i \in 1..Len(rows)
    PROVE  Target(rows, i) \in 1..(Len(rows) + 1)
PROOF
<1> DEFINE loops == {j \in i..Len(rows) : rows[j].kind = "loop"}
           loop == CHOOSE j \in loops : \A k \in loops : j <= k
<1>1. Len(rows) \in Nat /\ (RowIsTame(rows, i) \/ RowIsWild(rows, i))
      BY DEF Sane, IsRows
<1>2. CASE rows[i].fail \in Exits
      BY <1>1, <1>2 DEF Target, Exits
<1>3. CASE rows[i].fail = "skip" /\ i < Len(rows)
      BY <1>1, <1>3 DEF Target
<1>4. CASE rows[i].fail \in Leaving /\ \E j \in i..Len(rows), n \in Nat : Loops(rows[j], n)
  <2>1. loops # {} /\ loops \subseteq Nat
        BY <1>1, <1>4 DEF Loops
  <2>2. loop \in i..Len(rows)
    <3>1. \E j \in loops : \A k \in loops : j <= k
      <4> HIDE DEF loops
      <4> QED BY <2>1, LeastExists
    <3>2. loop \in loops
      <4> HIDE DEF loops
      <4> QED BY <3>1
    <3> QED BY <3>2
  <2>3. Target(rows, i) = IF rows[i].fail = "again" THEN loop ELSE loop + 1
        BY <1>4 DEF Target, Leaving
  <2> HIDE DEF loop
  <2> QED BY <1>1, <2>2, <2>3
<1>5. CASE RowIsTame(rows, i)
      BY <1>2, <1>3, <1>4, <1>5 DEF RowIsTame, Plainly, Skips, Leaves, Loops, Exits
<1>6. CASE RowIsWild(rows, i)
      BY <1>2, <1>3, <1>4, <1>6 DEF RowIsWild, Wild, Exits, Leaving
<1> QED BY <1>1, <1>5, <1>6

\* A row that fails "again" goes to the nearest loop behind it.
LEMMA NearestLoop ==
    ASSUME NEW rows, NEW i \in Nat, NEW j \in i..Len(rows), Len(rows) \in Nat, rows[i].fail = "again",
           rows[j].kind = "loop", \A k \in i..(j - 1) : rows[k].kind # "loop"
    PROVE  Target(rows, i) = j
PROOF
<1> DEFINE loops == {k \in i..Len(rows) : rows[k].kind = "loop"}
<1>1. j \in loops /\ \A k \in loops : j <= k
      OBVIOUS
<1>2. ASSUME NEW h \in loops, \A k \in loops : h <= k PROVE h = j
      BY <1>1, <1>2
<1> HIDE DEF loops
<1>3. (CHOOSE h \in loops : \A k \in loops : h <= k) = j
      BY <1>1, <1>2
<1> QED BY <1>3 DEF Target, loops

\* All programs but the client, which may do anything, are levelled.
\* The table, entry by entry.
LEMMA TableIs ==
    /\ DOMAIN Table =
           {"characterize", "hil_profile", "hil_auto_clear", "hil_diagnostics",
            "hil_drain_timing", "hil_soak", "hil_shortest", "hil_chained_moves",
            "hil_motor_group", "bench_quarter_turn", "hil_auto_calibrate",
            "hil_voltage_setup", "hil_envelope", "hil_single_motor_bench",
            "hil_single_motor_bench_skip_setup", "read_encoder", "stress_read",
            "move_quarter_turn", "apply_profile", "apply_profile_finest", "client",
            "hil_two_motor_sequential_compliant", "hil_motor_group_n2",
            "hil_scheduler", "hil_scheduler_choreography", "hil_scheduler_n3",
            "hil_motor_profile_demo", "hil_inter_move_rest_sweep"}
    /\ Table["characterize"] = characterize
    /\ Table["hil_profile"] = hil_profile
    /\ Table["hil_auto_clear"] = hil_auto_clear
    /\ Table["hil_diagnostics"] = hil_diagnostics
    /\ Table["hil_drain_timing"] = hil_drain_timing
    /\ Table["hil_soak"] = hil_soak
    /\ Table["hil_shortest"] = hil_shortest
    /\ Table["hil_chained_moves"] = hil_chained_moves
    /\ Table["hil_motor_group"] = hil_motor_group
    /\ Table["bench_quarter_turn"] = bench_quarter_turn
    /\ Table["hil_auto_calibrate"] = hil_auto_calibrate
    /\ Table["hil_voltage_setup"] = hil_voltage_setup
    /\ Table["hil_envelope"] = hil_envelope
    /\ Table["hil_single_motor_bench"] = hil_single_motor_bench(TRUE)
    /\ Table["hil_single_motor_bench_skip_setup"] = hil_single_motor_bench(FALSE)
    /\ Table["read_encoder"] = read_encoder
    /\ Table["stress_read"] = stress_read
    /\ Table["move_quarter_turn"] = move_quarter_turn
    /\ Table["apply_profile"] = apply_profile(4)
    /\ Table["apply_profile_finest"] = apply_profile(Byte)
    /\ Table["client"] = client
    /\ Table["hil_two_motor_sequential_compliant"] = hil_two_motor_sequential_compliant
    /\ Table["hil_motor_group_n2"] = hil_motor_group_n2
    /\ Table["hil_scheduler"] = hil_scheduler
    /\ Table["hil_scheduler_choreography"] = hil_scheduler_choreography
    /\ Table["hil_scheduler_n3"] = hil_scheduler_n3
    /\ Table["hil_motor_profile_demo"] = hil_motor_profile_demo
    /\ Table["hil_inter_move_rest_sweep"] = hil_inter_move_rest_sweep
PROOF BY DEF Table

LEMMA TableIsLevelled == \A p \in DOMAIN Table \ {"client"} : Levelled(Table[p], 2, 2)
PROOF
<1>1. ASSUME NEW rows, Tame(rows) PROVE Levelled(rows, 2, 2)
      BY <1>1, TameIsLevelled
<1>2. /\ Levelled(hil_profile, 2, 2) /\ Levelled(hil_auto_clear, 2, 2) /\ Levelled(hil_diagnostics, 2, 2)
      /\ Levelled(hil_drain_timing, 2, 2) /\ Levelled(hil_soak, 2, 2) /\ Levelled(hil_shortest, 2, 2)
      /\ Levelled(hil_chained_moves, 2, 2) /\ Levelled(hil_motor_group, 2, 2)
      /\ Levelled(bench_quarter_turn, 2, 2) /\ Levelled(hil_auto_calibrate, 2, 2)
      /\ Levelled(read_encoder, 2, 2) /\ Levelled(stress_read, 2, 2)
      /\ Levelled(move_quarter_turn, 2, 2)
      BY <1>1, HilProfileIsTame, HilAutoClearIsTame, HilDiagnosticsIsTame, HilDrainTimingIsTame,
         HilSoakIsTame, HilShortestIsTame, HilChainedMovesIsTame, HilMotorGroupIsTame,
         BenchQuarterTurnIsTame, HilAutoCalibrateIsTame, ReadEncoderIsTame, StressReadIsTame,
         MoveQuarterTurnIsTame
<1>3. /\ Levelled(apply_profile(4), 2, 2) /\ Levelled(apply_profile(Byte), 2, 2)
      /\ Levelled(hil_two_motor_sequential_compliant, 2, 2) /\ Levelled(hil_motor_group_n2, 2, 2)
      /\ Levelled(hil_scheduler, 2, 2) /\ Levelled(hil_scheduler_choreography, 2, 2)
      /\ Levelled(hil_scheduler_n3, 2, 2) /\ Levelled(hil_motor_profile_demo, 2, 2)
      /\ Levelled(hil_inter_move_rest_sweep, 2, 2)
      BY <1>1, ApplyProfileIsTame, HilTwoMotorSequentialCompliantIsTame, HilMotorGroupN2IsTame, FleetsAreTame
<1> QED BY TableIs, <1>2, <1>3, CharacterizeIsLevelled, HilVoltageSetupIsLevelled,
        HilEnvelopeIsLevelled, HilSingleMotorBenchIsLevelled

LEMMA TableIsSane == \A p \in DOMAIN Table : Sane(Table[p])
PROOF
<1>1. Table["client"] = client
      BY DEF Table
<1> QED BY <1>1, ClientIsSane, TableIsLevelled DEF Levelled

\* Row i of a program of n rows, with the end behind them.
InCode(r, i, n) ==
    /\ r = Row(r.kind, r.line, r.op, r.args, r.bad, r.fail)
    /\ r.line \in Buses
    /\ r.kind \in Sending => r.op \in Calls /\ Fit(r.op, r.args)
    /\ r.kind = "send" => r.op \notin Setters
    /\ r.kind = "loop" => \E k \in Nat : k < i /\ r.args = {k}
    /\ i <= n => r.kind # "end" /\ r.fail \in 1..(n + 1)
    /\ i > n => r.kind = "end"

EndRow == Row("end", 1, "end", Plain, {}, 0)

LEMMA CodeIs ==
    ASSUME NEW p \in DOMAIN Table
    PROVE  /\ Len(Table[p]) \in Nat /\ Sane(Table[p])
           /\ \A i \in 1..Len(Table[p]) : Code[p][i] = [Table[p][i] EXCEPT !.fail = Target(Table[p], i)]
           /\ Code[p][Len(Table[p]) + 1] = EndRow
PROOF
<1> DEFINE rows == Table[p]
           n == Len(rows)
           go == [i \in 1..n |-> [rows[i] EXCEPT !.fail = Target(rows, i)]]
<1>1. Sane(rows)
      BY TableIsSane
<1>2. n \in Nat /\ rows = [i \in 1..n |-> rows[i]]
      BY <1>1 DEF Sane, IsRows
<1> HIDE DEF rows
<1>3. Code[p] = go \o <<EndRow>>
  <2>1. DOMAIN rows = 1..n
        BY <1>2
  <2> QED BY <2>1 DEF Code, rows, EndRow
<1>4. /\ \A i \in 1..n : Code[p][i] = [rows[i] EXCEPT !.fail = Target(rows, i)]
      /\ Code[p][n + 1] = EndRow
  <2> DEFINE S == {go[i] : i \in 1..n} \cup {EndRow}
  <2>1. go \in Seq(S) /\ Len(go) = n /\ <<EndRow>> \in Seq(S) /\ Len(<<EndRow>>) = 1 /\ <<EndRow>>[1] = EndRow
        BY <1>2
  <2>2. \A i \in 1..n : go[i] = [rows[i] EXCEPT !.fail = Target(rows, i)]
        OBVIOUS
  <2> HIDE DEF S, go, n
  <2>3. \A i \in 1..n : (go \o <<EndRow>>)[i] = go[i]
        BY <1>2, <2>1
  <2>4. (go \o <<EndRow>>)[n + 1] = EndRow
        BY <1>2, <2>1
  <2> QED BY <1>3, <2>2, <2>3, <2>4
<1> QED BY <1>1, <1>2, <1>4 DEF rows

LEMMA CodeRows ==
    ASSUME NEW p \in DOMAIN Table
    PROVE  /\ Len(Table[p]) \in Nat
           /\ \A i \in 1..(Len(Table[p]) + 1) : InCode(Code[p][i], i, Len(Table[p]))
PROOF
<1> DEFINE rows == Table[p]
           n == Len(rows)
<1> HIDE DEF rows
<1>1. /\ n \in Nat /\ Sane(rows) /\ Code[p][n + 1] = EndRow
      /\ \A i \in 1..n : Code[p][i] = [rows[i] EXCEPT !.fail = Target(rows, i)]
      BY CodeIs DEF rows
<1>2. ASSUME NEW i \in 1..n PROVE InCode(Code[p][i], i, n)
  <2> DEFINE q == rows[i]
             t == Target(rows, i)
  <2>1. RowFits(q) /\ (q.kind = "loop" => \E k \in Nat : k < i /\ q.args = {k})
        BY <1>1 DEF Sane, RowIsTame, RowIsWild, Wild, Plainly, Skips, Leaves, Loops
  <2>2. t \in 1..(n + 1)
        BY <1>1, Targets
  <2>3. Code[p][i] = [q EXCEPT !.fail = t]
        BY <1>1
  <2> HIDE DEF q, t, n
  <2>4. [q EXCEPT !.fail = t] = Row(q.kind, q.line, q.op, q.args, q.bad, t)
        BY <2>1 DEF RowFits, Row
  <2> QED BY <1>1, <2>1, <2>2, <2>3, <2>4 DEF InCode, RowFits, Row
<1>3. InCode(EndRow, n + 1, n)
      BY <1>1, BusesType DEF InCode, EndRow, Row, Sending
<1>4. ASSUME NEW i \in 1..(n + 1) PROVE InCode(Code[p][i], i, n)
  <2> HIDE DEF n
  <2>1. CASE i = n + 1
        BY <1>1, <1>3, <2>1
  <2>2. CASE i # n + 1
        BY <1>1, <1>2, <2>2
  <2> QED BY <2>1, <2>2
<1> QED BY <1>1, <1>4 DEF rows

----------------------------------------------------------------------------
(* What an exchange does to the registers.                                  *)

LEMMA ClientFits ==
    \A c \in ClientCalls : c[1] \in Calls /\ (c[1] \in Setters => c[2] \in Fitting(c[1]))
PROOF
<1>1. TRUE \in Fitting("enable") /\ FALSE \in Fitting("enable")
      BY ArgumentsFit DEF Fit, Setters
<1>2. -30 \in Fitting("speed") /\ 5 \in Fitting("speed")
  <2>1. Fit("speed", {-30}) /\ Fit("speed", {5})
    <3>1. -30 \in -30..30
          OBVIOUS
    <3> QED BY <3>1, ArgumentsFit, Zenon
  <2> QED BY <2>1 DEF Fit, Setters
<1>3. -2 \in Fitting("move") /\ 3 \in Fitting("move")
  <2>1. -2 \in -8..7 /\ 3 \in -8..7
        OBVIOUS
  <2> QED BY <2>1, ArgumentsFit, Zenon
<1>4. 10 \in Fitting("current")
  <2>1. Fit("current", {10, 30})
        BY ArgumentsFit
  <2> QED BY <2>1 DEF Fit, Setters
<1>5. 2 \in Fitting("micro")
      BY ByteIsWide, ByteType DEF Fitting
<1>6. 4 \in Fitting("mode")
  <2>1. Fit("mode", {4})
        BY ArgumentsFit
  <2> QED BY <2>1 DEF Fit, Setters
<1> DEFINE Fine(c) == c[1] \in Calls /\ (c[1] \in Setters => c[2] \in Fitting(c[1]))
<1>7. Fine(<<"enable", TRUE>>) /\ Fine(<<"enable", FALSE>>)
      BY <1>1 DEF Calls, Commands, Setters
<1>8. Fine(<<"speed", -30>>) /\ Fine(<<"speed", 5>>)
      BY <1>2 DEF Calls, Commands, Setters
<1>9. Fine(<<"move", -2>>) /\ Fine(<<"move", 3>>)
      BY <1>3 DEF Calls, Commands, Setters
<1>10. Fine(<<"current", 10>>) /\ Fine(<<"micro", 2>>) /\ Fine(<<"mode", 4>>)
      BY <1>4, <1>5, <1>6 DEF Calls, Commands, Setters
<1>11. Fine(<<"stop", 0>>) /\ Fine(<<"release", 0>>) /\ Fine(<<"restart", 0>>) /\ Fine(<<"defaults", 0>>)
      BY DEF Calls, Commands, Setters
<1> HIDE DEF Fine
<1>12. \A c \in ClientCalls : Fine(c)
       BY <1>7, <1>8, <1>9, <1>10, <1>11, Zenon DEF ClientCalls
<1> QED BY <1>12 DEF Fine

\* Whatever becomes of a command, the registers stay what they are; a setter is executed.
LEMMA OutcomesType ==
    ASSUME NEW f, IsFirmware(f), NEW op \in Calls, NEW arg, NEW o \in Outcomes(f, op, arg)
    PROVE  /\ IsFirmware(o.regs) /\ o.answer \in {<<0>>, <<1>>}
           /\ op \in Setters => o = Execute(f, op, Payload(op, arg))
PROOF
<1>1. ASSUME NEW g, IsFirmware(g), NEW e \in Turned(g)
      PROVE  IsFirmware(e.regs) /\ e.answer \in {<<0>>, <<1>>}
  <2>1. CASE e = Execute(g, "turn", Nothing)
        BY <1>1, <2>1, ExecuteType DEF Commands
  <2>2. CASE e # Execute(g, "turn", Nothing)
    <3>1. PICK a \in {0, 1} : e = [regs |-> [g EXCEPT !.latched = TRUE, !.rpm = 0], answer |-> <<a>>]
          BY <1>1, <2>2 DEF Turned
    <3> QED BY <1>1, <3>1 DEF IsFirmware, FieldNames
  <2> QED BY <2>1, <2>2
<1>2. CASE op = "turn"
      BY <1>1, <1>2 DEF Outcomes, Setters
<1>3. CASE op = "clear_and_turn"
  <2>1. IsFirmware([f EXCEPT !.latched = FALSE])
        BY DEF IsFirmware, FieldNames
  <2>2. o \in Turned([f EXCEPT !.latched = FALSE])
        BY <1>3 DEF Outcomes
  <2> QED BY <1>1, <1>3, <2>1, <2>2 DEF Setters
<1>4. CASE op \notin {"turn", "clear_and_turn"}
  <2>1. o = Execute(f, op, Payload(op, arg)) /\ op \in Commands
        BY <1>4 DEF Outcomes, Calls
  <2> QED BY <2>1, ExecuteType
<1> QED BY <1>2, <1>3, <1>4

\* What the call of a row may be: a command there is, whose arguments fit.
Possible(r, op, arg) ==
    /\ op \in Calls /\ (op \in Setters => arg \in Fitting(op))
    /\ r.kind = "send" => op \notin Setters
    /\ r.line \in Buses

Registers == regs = [b \in Buses |-> regs[b]] /\ \A b \in Buses : IsFirmware(regs[b])

\* The exchange of one row.
LEMMA ExchangeKeeps ==
    ASSUME Registers, NEW r, NEW op, NEW arg, Possible(r, op, arg), Exchange(r, op, arg)
    PROVE  Registers' /\ AnsweredMeansSet'
PROOF
<1> DEFINE f == regs[r.line]
<1>1. IsFirmware(f) /\ r.line \in Buses /\ op \in Calls
      BY DEF Registers, Possible
<1>2. ASSUME NEW o \in Outcomes(f, op, arg), regs' = [regs EXCEPT ![r.line] = o.regs]
      PROVE  Registers' /\ regs'[r.line] = o.regs
  <2>1. IsFirmware(o.regs)
        BY <1>1, OutcomesType
  <2>2. regs' = [b \in Buses |-> IF b = r.line THEN o.regs ELSE regs[b]]
        BY <1>1, <1>2 DEF Registers
  <2> HIDE DEF f
  <2> QED BY <1>1, <2>1, <2>2 DEF Registers
<1>3. ASSUME regs' = regs PROVE Registers'
      BY <1>3 DEF Registers
<1>4. asked' = IF op \in Setters THEN [line |-> r.line, op |-> op, arg |-> arg] ELSE Nothing
      BY DEF Exchange, Setting
<1>5. CASE op \notin Setters
  <2>1. Registers'
    <3> HIDE DEF f
    <3> QED BY <1>2, <1>3 DEF Exchange, Answered, Lost, Unheard, f
  <2> QED BY <1>4, <1>5, <2>1 DEF AnsweredMeansSet
<1>6. CASE op \in Setters
  <2>1. r.kind # "send" /\ arg \in Fitting(op)
        BY <1>6 DEF Possible
  <2>2. CASE Answered(r, op, arg)
    <3>1. PICK o \in Outcomes(f, op, arg) :
             regs' = [regs EXCEPT ![r.line] = o.regs] /\ res' = AckToBool(o.answer)
          BY <2>1, <2>2 DEF Answered, Yields
    <3>2. o = Execute(f, op, Payload(op, arg)) /\ o.answer \in {<<0>>, <<1>>}
          BY <1>1, <1>6, OutcomesType
    <3>3. res' = "done" => Register(o.regs, op) = arg
      <4>1. res' = "done" => o.answer = <<1>>
            BY <3>1, <3>2 DEF AckToBool
      <4> QED BY <1>1, <1>6, <2>1, <3>2, <4>1, SetterSets
    <3>4. Registers' /\ regs'[r.line] = o.regs
          BY <1>2, <3>1
    <3> QED BY <1>4, <1>6, <3>3, <3>4 DEF AnsweredMeansSet
  <2>3. CASE Lost(r, op, arg) \/ Unheard(r)
    <3>1. res' = "silent"
          BY <2>1, <2>3 DEF Lost, Unheard, Yields, AckToBool, Nothing
    <3>2. Registers'
      <4> HIDE DEF f
      <4> QED BY <1>2, <1>3, <2>3 DEF Lost, Unheard, f
    <3> QED BY <3>1, <3>2 DEF AnsweredMeansSet
  <2> QED BY <2>2, <2>3 DEF Exchange
<1> QED BY <1>5, <1>6

----------------------------------------------------------------------------
(* The invariant.                                                           *)

Inside == pc = 0 \/ (program \in DOMAIN Table /\ pc \in 1..(Len(Table[program]) + 1))

ProgramInv == Inside /\ Registers /\ AnsweredMeansSet

\* Where a row that is not the end goes to, and what it leaves alone but for an exchange.
Goes(r) ==
    /\ program' = program
    /\ pc' \in {r.fail, pc + 1} \/ \E k \in r.args : r.kind = "loop" /\ pc' = pc - k
Quiet == regs' = regs /\ asked' = Nothing

LEMMA RowsGo ==
    ASSUME NEW r
    PROVE  /\ \A op, arg : Exchange(r, op, arg) => Goes(r)
           /\ AwaitTarget(r) \/ OpenPort(r) \/ ClosePort(r) => Goes(r) /\ Quiet
           /\ TellBaud(r) \/ SwitchBaud(r) \/ BackBaud(r) => Goes(r) /\ Quiet
           /\ SoundBaud(r) \/ IsFound(r) \/ VerifyBaud(r) \/ RecheckBaud(r) => Goes(r) /\ Quiet
           /\ Iterate(r) \/ NoteGood(r) \/ NeedGood(r) => Goes(r) /\ Quiet
PROOF
<1>1. \A op, arg : Exchange(r, op, arg) => Goes(r)
      BY DEF Exchange, Answered, Lost, Unheard, Yields, Goes, frame
<1>2. AwaitTarget(r) \/ OpenPort(r) \/ ClosePort(r) => Goes(r) /\ Quiet
      BY DEF AwaitTarget, OpenPort, ClosePort, Yields, Passing, Goes, Quiet, frame
<1>3. TellBaud(r) \/ SwitchBaud(r) \/ BackBaud(r) => Goes(r) /\ Quiet
      BY DEF TellBaud, SwitchBaud, BackBaud, SetBaud, Yields, Passing, Goes, Quiet, frame
<1>4. SoundBaud(r) \/ IsFound(r) => Goes(r) /\ Quiet
      BY DEF SoundBaud, IsFound, Yields, Passing, Goes, Quiet, frame, locals
<1>5. VerifyBaud(r) \/ RecheckBaud(r) => Goes(r) /\ Quiet
      BY DEF VerifyBaud, RecheckBaud, Yields, Passing, Goes, Quiet, frame
<1>6. Iterate(r) \/ NoteGood(r) \/ NeedGood(r) => Goes(r) /\ Quiet
      BY DEF Iterate, NoteGood, NeedGood, Yields, Passing, Goes, Quiet, frame
<1> QED BY <1>1, <1>2, <1>3, <1>4, <1>5, <1>6

LEMMA InitHolds == Init => ProgramInv
PROOF
<1>1. SUFFICES ASSUME Init PROVE ProgramInv
      OBVIOUS
<1>2. Inside /\ AnsweredMeansSet
      BY <1>1 DEF Init, Inside, AnsweredMeansSet
<1>3. Registers
  <2>1. PICK odd : regs = [b \in Buses |-> [Factory EXCEPT !.latched = b = 1 /\ odd = "latched"]]
        BY <1>1 DEF Init
  <2>2. \A l : IsFirmware([Factory EXCEPT !.latched = l])
        BY DEF IsFirmware, Factory, FieldNames
  <2> QED BY <2>1, <2>2 DEF Registers
<1> QED BY <1>2, <1>3 DEF ProgramInv

LEMMA StepKeepsInv == ProgramInv /\ [Next]_vars => ProgramInv'
PROOF
<1> SUFFICES ASSUME ProgramInv, [Next]_vars PROVE ProgramInv'
    OBVIOUS
<1> USE DEF ProgramInv
<1>1. ASSUME Quiet PROVE Registers' /\ AnsweredMeansSet'
      BY <1>1 DEF Quiet, Registers, AnsweredMeansSet
<1>2. ASSUME NEW p \in DOMAIN Table, Start(p) PROVE ProgramInv'
  <2>1. Inside'
        BY <1>2, CodeRows DEF Start, Inside
  <2>2. Quiet
        BY <1>2 DEF Start, Quiet
  <2> QED BY <1>1, <2>1, <2>2
<1>3. ASSUME pc # 0, Step(Code[program][pc]) PROVE ProgramInv'
  <2> DEFINE r == Code[program][pc]
             n == Len(Table[program])
  <2>1. n \in Nat /\ pc \in 1..(n + 1) /\ program \in DOMAIN Table /\ InCode(r, pc, n)
        BY <1>3, CodeRows DEF Inside
  <2> HIDE DEF r, n
  <2>2. ASSUME Gone PROVE ProgramInv'
        BY <1>1, <2>2 DEF Gone, Inside, Quiet
  <2>3. ASSUME Goes(r), r.kind # "end" PROVE Inside'
    <3>1. pc <= n /\ r.fail \in 1..(n + 1)
          BY <2>1, <2>3 DEF InCode
    <3>2. CASE pc' \in {r.fail, pc + 1}
          BY <2>1, <2>3, <3>1, <3>2 DEF Inside, Goes, n
    <3>3. CASE \E k \in r.args : r.kind = "loop" /\ pc' = pc - k
      <4>1. PICK k \in Nat : k < pc /\ pc' = pc - k
            BY <2>1, <3>3 DEF InCode
      <4> QED BY <2>1, <2>3, <3>1, <4>1 DEF Inside, Goes, n
    <3> QED BY <2>3, <3>2, <3>3 DEF Goes
  <2>4. ASSUME NEW op, NEW arg, Possible(r, op, arg), Exchange(r, op, arg), r.kind # "end" PROVE ProgramInv'
        BY <2>3, <2>4, RowsGo, ExchangeKeeps
  <2>5. CASE r.kind \in {"call", "send"} /\ \E a \in r.args : Exchange(r, r.op, a)
    <3>1. PICK a \in r.args : Exchange(r, r.op, a)
          BY <2>5
    <3>2. Possible(r, r.op, a)
          BY <2>1, <2>5 DEF Possible, InCode, Sending, Fit
    <3> QED BY <2>4, <2>5, <3>1, <3>2
  <2>6. CASE r.kind = "any" /\ \E c \in ClientCalls : Exchange(r, c[1], c[2])
    <3>1. PICK c \in ClientCalls : Exchange(r, c[1], c[2])
          BY <2>6
    <3>2. Possible(r, c[1], c[2])
          BY <2>1, <2>6, ClientFits DEF Possible, InCode
    <3> QED BY <2>4, <2>6, <3>1, <3>2
  <2>7. CASE Line(r) \/ AwaitTarget(r) \/ Iterate(r) \/ NoteGood(r) \/ NeedGood(r)
    <3>1. r.kind # "end"
          BY <2>7 DEF Line, AwaitTarget, OpenPort, ClosePort, TellBaud, SwitchBaud, BackBaud, SoundBaud,
             IsFound, VerifyBaud, RecheckBaud, Iterate, NoteGood, NeedGood
    <3>2. Goes(r) /\ Quiet
          BY <2>7, RowsGo DEF Line
    <3> QED BY <1>1, <2>3, <3>1, <3>2
  <2>8. CASE Returns(r) \/ Crash(r)
        BY <2>2, <2>8 DEF Returns, Crash
  <2>9. Step(r)
        BY <1>3 DEF r
  <2> QED BY <2>5, <2>6, <2>7, <2>8, <2>9 DEF Step
<1>4. CASE UNCHANGED vars
      BY <1>4 DEF vars, Inside, Registers, AnsweredMeansSet
<1> QED BY <1>2, <1>3, <1>4 DEF Next

\* A setter that the firmware acknowledges has left in its register what was asked,
\* in every program and for any width of a byte: signs, high bytes and the 0 that
\* stands for the most microsteps survive the bytes (raw_driver.hpp, the encoders).
THEOREM AnsweredIsSet == Spec => []AnsweredMeansSet
PROOF
<1>1. ProgramInv => AnsweredMeansSet
      BY DEF ProgramInv
<1> QED BY <1>1, InitHolds, StepKeepsInv, PTL DEF Spec

----------------------------------------------------------------------------
(* A profile is pushed field by field.                                      *)

Profiles == {"apply_profile", "apply_profile_finest"}
Microsteps(p) == IF p = "apply_profile" THEN 4 ELSE Byte
Push(op, arg) == Row("call", 1, op, {arg}, {"silent", "refused"}, 5)

LEMMA ProfileRows ==
    ASSUME NEW p \in Profiles
    PROVE  /\ p \in DOMAIN Table /\ Len(Table[p]) = 4
           /\ Code[p][1].kind = "open" /\ Code[p][1].bad = {"silent"} /\ Code[p][1].fail = 5
           /\ Code[p][2] = Push("mode", WorkMode)
           /\ Code[p][3] = Push("micro", Microsteps(p))
           /\ Code[p][4] = Push("current", WorkCurrent)
           /\ Code[p][5] = EndRow
PROOF
<1> DEFINE rows == Table[p]
<1>1. p \in DOMAIN Table /\ rows = apply_profile(Microsteps(p))
      BY DEF Table, Profiles, Microsteps
<1>2. /\ Len(rows) = 4 /\ rows[1] = Open(1, Low, "exit")
      /\ rows[2] = Ack(1, "mode", {WorkMode}, "exit")
      /\ rows[3] = Ack(1, "micro", {Microsteps(p)}, "exit")
      /\ rows[4] = Ack(1, "current", {WorkCurrent}, "exit")
  <2>1. \A o, a, b, c : /\ Len(<<o>> \o <<a, b, c>>) = 4
                        /\ (<<o>> \o <<a, b, c>>)[1] = o /\ (<<o>> \o <<a, b, c>>)[2] = a
                        /\ (<<o>> \o <<a, b, c>>)[3] = b /\ (<<o>> \o <<a, b, c>>)[4] = c
        OBVIOUS
  <2> DEFINE a == Ack(1, "mode", {WorkMode}, "exit")
             b == Ack(1, "micro", {Microsteps(p)}, "exit")
             c == Ack(1, "current", {WorkCurrent}, "exit")
             o == Open(1, Low, "exit")
  <2> HIDE DEF rows, a, b, c, o
  <2>2. rows = <<o>> \o <<a, b, c>>
        BY <1>1 DEF apply_profile, ApplyProfile, a, b, c, o
  <2>3. Len(rows) = 4 /\ rows[1] = o /\ rows[2] = a /\ rows[3] = b /\ rows[4] = c
        BY <2>1, <2>2
  <2> QED BY <2>3 DEF a, b, c, o
<1> HIDE DEF rows
<1>3. \A i \in 1..4 : rows[i].fail = "exit"
      BY <1>2 DEF Open, Ack, Row
<1>4. \A i \in 1..4 : Target(rows, i) = 5
      BY <1>2, <1>3 DEF Target
<1>5. (\A i \in 1..4 : Code[p][i] = [rows[i] EXCEPT !.fail = 5]) /\ Code[p][5] = EndRow
  <2>1. \A i \in 1..Len(rows) : Code[p][i] = [rows[i] EXCEPT !.fail = Target(rows, i)]
        BY <1>1, CodeIs DEF rows
  <2>2. Code[p][Len(rows) + 1] = EndRow
        BY <1>1, CodeIs DEF rows
  <2>3. 4 + 1 = 5
        OBVIOUS
  <2>4. ASSUME NEW i \in 1..4 PROVE Code[p][i] = [rows[i] EXCEPT !.fail = 5]
        BY <1>2, <1>4, <2>1, <2>4
  <2> QED BY <1>2, <2>2, <2>3, <2>4
<1>6. /\ Code[p][1] = [rows[1] EXCEPT !.fail = 5] /\ Code[p][2] = [rows[2] EXCEPT !.fail = 5]
      /\ Code[p][3] = [rows[3] EXCEPT !.fail = 5] /\ Code[p][4] = [rows[4] EXCEPT !.fail = 5]
      BY <1>5
<1>7. Code[p][1].kind = "open" /\ Code[p][1].bad = {"silent"} /\ Code[p][1].fail = 5
      BY <1>2, <1>6 DEF Open, Row
<1>8. /\ Code[p][2] = Push("mode", WorkMode) /\ Code[p][3] = Push("micro", Microsteps(p))
      /\ Code[p][4] = Push("current", WorkCurrent)
  <2>1. \A op, args, bad : [Row("call", 1, op, args, bad, "exit") EXCEPT !.fail = 5]
                             = Row("call", 1, op, args, bad, 5)
        BY DEF Row
  <2>2. \A op, args : [Ack(1, op, args, "exit") EXCEPT !.fail = 5]
                       = Row("call", 1, op, args, {"silent", "refused"}, 5)
        BY <2>1, Zenon DEF Ack
  <2>3. Code[p][2] = Row("call", 1, "mode", {WorkMode}, {"silent", "refused"}, 5)
    <3>1. Code[p][2] = [rows[2] EXCEPT !.fail = 5] /\ rows[2] = Ack(1, "mode", {WorkMode}, "exit")
          BY <1>2, <1>6, Zenon
    <3>2. [Ack(1, "mode", {WorkMode}, "exit") EXCEPT !.fail = 5]
            = Row("call", 1, "mode", {WorkMode}, {"silent", "refused"}, 5)
          BY <2>2, Zenon
    <3> QED BY <3>1, <3>2, Zenon
  <2>4. Code[p][3] = Row("call", 1, "micro", {Microsteps(p)}, {"silent", "refused"}, 5)
    <3>1. Code[p][3] = [rows[3] EXCEPT !.fail = 5] /\ rows[3] = Ack(1, "micro", {Microsteps(p)}, "exit")
          BY <1>2, <1>6, Zenon
    <3>2. [Ack(1, "micro", {Microsteps(p)}, "exit") EXCEPT !.fail = 5]
            = Row("call", 1, "micro", {Microsteps(p)}, {"silent", "refused"}, 5)
          BY <2>2, Zenon
    <3> QED BY <3>1, <3>2, Zenon
  <2>5. Code[p][4] = Row("call", 1, "current", {WorkCurrent}, {"silent", "refused"}, 5)
    <3>1. Code[p][4] = [rows[4] EXCEPT !.fail = 5] /\ rows[4] = Ack(1, "current", {WorkCurrent}, "exit")
          BY <1>2, <1>6, Zenon
    <3>2. [Ack(1, "current", {WorkCurrent}, "exit") EXCEPT !.fail = 5]
            = Row("call", 1, "current", {WorkCurrent}, {"silent", "refused"}, 5)
          BY <2>2, Zenon
    <3> QED BY <3>1, <3>2, Zenon
  <2> QED BY <2>3, <2>4, <2>5 DEF Push
<1> QED BY <1>1, <1>2, <1>5, <1>7, <1>8 DEF rows

LEMMA ProfileFits ==
    /\ WorkMode \in Fitting("mode") /\ WorkCurrent \in Fitting("current")
    /\ \A p : Microsteps(p) \in Fitting("micro")
PROOF
<1>1. Fit("mode", {WorkMode}) /\ Fit("current", {WorkCurrent}) /\ Fit("micro", {4}) /\ Fit("micro", {Byte})
      BY ArgumentsFit
<1> QED BY <1>1 DEF Fit, Setters, Microsteps

\* A field is pushed, or it is not and the program gives up; it may then have been.
LEMMA PushStep ==
    ASSUME Registers, NEW op \in {"mode", "micro", "current"}, NEW arg \in Fitting(op),
           Exchange(Push(op, arg), op, arg)
    PROVE  /\ program' = program /\ before' = before
           /\ \/ pc' = pc + 1 /\ Register(regs'[1], op) = arg
              \/ /\ pc' = 5 /\ res' = "silent"
                 /\ regs'[1] = regs[1] \/ Register(regs'[1], op) = arg
           /\ op # "mode" => regs'[1].mode = regs[1].mode
           /\ op # "micro" => regs'[1].micro = regs[1].micro
           /\ op # "current" => regs'[1].current = regs[1].current
PROOF
<1> DEFINE r == Push(op, arg)
           f == regs[1]
           e == Execute(f, op, Payload(op, arg))
<1>1. /\ r.kind = "call" /\ r.line = 1 /\ r.op = op /\ r.args = {arg}
      /\ r.bad = {"silent", "refused"} /\ r.fail = 5
      BY DEF Push, Row
<1>2. IsFirmware(f) /\ 1 \in DOMAIN regs
      BY BusesType DEF Registers
<1>3. e.answer = <<1>> /\ op \in Setters
      BY DEF Execute, Setters
<1>4. Register(e.regs, op) = arg
      BY <1>2, <1>3, SetterSets
<1>5. /\ op # "mode" => e.regs.mode = f.mode
      /\ op # "micro" => e.regs.micro = f.micro
      /\ op # "current" => e.regs.current = f.current
  <2>1. DOMAIN f = FieldNames
        BY <1>2 DEF IsFirmware
  <2> QED BY <2>1 DEF Execute, FieldNames
<1>6. Outcomes(f, op, arg) = {e}
      BY DEF Outcomes
<1> HIDE DEF r, e
<1>7. program' = program /\ before' = before
      BY DEF Exchange, frame
<1>8. CASE Answered(r, op, arg)
  <2>1. /\ regs' = [regs EXCEPT ![1] = e.regs]
        /\ Yields(r, AckToBool(<<1>>))
        BY <1>1, <1>3, <1>6, <1>8 DEF Answered
  <2>2. pc' = pc + 1
        BY <1>1, <2>1 DEF Yields, AckToBool
  <2> QED BY <1>2, <1>4, <1>5, <1>7, <2>1, <2>2
<1>9. CASE Lost(r, op, arg) \/ Unheard(r)
  <2>1. pc' = 5 /\ res' = "silent"
        BY <1>1, <1>9 DEF Lost, Unheard, Yields, AckToBool, Nothing
  <2>2. regs' = regs \/ regs' = [regs EXCEPT ![1] = e.regs]
        BY <1>1, <1>6, <1>9 DEF Lost, Unheard
  <2> QED BY <1>2, <1>4, <1>5, <1>7, <2>1, <2>2
<1> QED BY <1>8, <1>9 DEF Exchange, r

\* The first n fields are the profile's, the others what they were.
Pushed(n) ==
    /\ regs[1].mode = IF 1 <= n THEN WorkMode ELSE before[1].regs.mode
    /\ regs[1].micro = IF 2 <= n THEN Microsteps(program) ELSE before[1].regs.micro
    /\ regs[1].current = IF 3 <= n THEN WorkCurrent ELSE before[1].regs.current

\* At each row, as many as there are rows behind it; at the end, some.
ProfileInv ==
    program \in Profiles =>
        /\ pc \in 1..4 => Pushed(IF pc = 1 THEN 0 ELSE pc - 2)
        /\ pc \notin 1..4 => \E n \in 0..3 : Pushed(n) /\ (res = "done" => n = 3)

LEMMA InitProfile == Init => ProfileInv
PROOF BY DEF Init, ProfileInv, Profiles

LEMMA StepKeepsProfile == ProgramInv /\ ProfileInv /\ [Next]_vars => ProfileInv'
PROOF
<1> SUFFICES ASSUME ProgramInv, ProfileInv, [Next]_vars PROVE ProfileInv'
    OBVIOUS
<1>1. ASSUME NEW p \in DOMAIN Table, Start(p) PROVE ProfileInv'
  <2>1. pc' = 1 /\ before'[1].regs = regs[1] /\ regs' = regs
        BY <1>1, BusesType DEF Start
  <2>2. Pushed(0)'
        BY <2>1 DEF Pushed
  <2> QED BY <2>1, <2>2 DEF ProfileInv
<1>2. ASSUME pc # 0, Step(Code[program][pc]), program \in Profiles PROVE ProfileInv'
  <2>1. pc \in 1..5
    <3>1. Len(Table[program]) = 4 /\ 4 + 1 = 5
          BY <1>2, ProfileRows
    <3> QED BY <1>2, <3>1 DEF ProgramInv, Inside
  <2>10. PICK at \in 1..5 : pc = at
         BY <2>1
  <2> DEFINE r == Code[program][pc]
             done == IF at = 1 THEN 0 ELSE at - 2
  <2>2. /\ pc \in 1..4 => Pushed(done)
        /\ pc = 5 => \E n \in 0..3 : Pushed(n) /\ (res = "done" => n = 3)
        BY <1>2, <2>10 DEF ProfileInv
  <2>3. /\ pc = 1 => r.kind = "open" /\ r.bad = {"silent"} /\ r.fail = 5
        /\ pc = 2 => r = Push("mode", WorkMode)
        /\ pc = 3 => r = Push("micro", Microsteps(program))
        /\ pc = 4 => r = Push("current", WorkCurrent)
        /\ pc = 5 => r = EndRow
        BY <1>2, ProfileRows
  <2>4. Step(r)
        BY <1>2
  <2> HIDE DEF r
  <2>5. ASSUME NEW n \in 0..3, Pushed(n), regs' = regs, before' = before, program' = program PROVE Pushed(n)'
        BY <2>5 DEF Pushed
  <2>6. CASE Returns(r) \/ Crash(r)
    <3>1. pc' = 0 /\ regs' = regs /\ before' = before /\ program' = program
          BY <2>6 DEF Returns, Crash, Gone
    <3>2. CASE pc = 5
      <4>1. res' = res
            BY <2>3, <2>6, <3>2 DEF Returns, Crash, EndRow, Row
      <4> QED BY <2>2, <2>5, <3>1, <3>2, <4>1 DEF ProfileInv
    <3>3. CASE pc # 5
      <4>1. res' = "none"
            BY <2>1, <2>3, <2>6, <3>3 DEF Returns, Crash, Push, Row
      <4>2. Pushed(done)' /\ done \in 0..3
            BY <2>1, <2>2, <2>5, <2>10, <3>1, <3>3
      <4> QED BY <3>1, <4>1, <4>2 DEF ProfileInv
    <3> QED BY <3>2, <3>3
  <2>7. CASE pc = 1 /\ ~Returns(r) /\ ~Crash(r)
    <3>1. OpenPort(r)
          BY <2>3, <2>4, <2>7 DEF Step, Line, ClosePort, TellBaud, SwitchBaud, BackBaud, SoundBaud, IsFound,
             VerifyBaud, RecheckBaud, AwaitTarget, Iterate, NoteGood, NeedGood
    <3>2. /\ regs' = regs /\ before' = before /\ program' = program
          /\ pc' = 2 \/ (pc' = 5 /\ res' = "silent")
          BY <2>3, <2>7, <3>1 DEF OpenPort, Yields, frame
    <3>3. Pushed(0)'
          BY <2>2, <2>5, <2>7, <2>10, <3>2
    <3> QED BY <3>2, <3>3 DEF ProfileInv
  <2>8. CASE pc = 5 /\ ~Returns(r) /\ ~Crash(r)
    <3>1. FALSE
          BY <2>3, <2>4, <2>8 DEF Step, Line, OpenPort, ClosePort, TellBaud, SwitchBaud, BackBaud, SoundBaud,
             IsFound, VerifyBaud, RecheckBaud, AwaitTarget, Iterate, NoteGood, NeedGood, EndRow, Row
    <3> QED BY <3>1
  <2>9. CASE pc \in 2..4 /\ ~Returns(r) /\ ~Crash(r)
    <3>1. PICK op, arg :
             /\ op \in {"mode", "micro", "current"} /\ arg \in Fitting(op)
             /\ r = Push(op, arg)
             /\ pc = 2 => op = "mode" /\ arg = WorkMode
             /\ pc = 3 => op = "micro" /\ arg = Microsteps(program)
             /\ pc = 4 => op = "current" /\ arg = WorkCurrent
      <4>1. CASE pc = 2
            BY <2>3, <4>1, ProfileFits
      <4>2. CASE pc = 3
            BY <2>3, <4>2, ProfileFits
      <4>3. CASE pc = 4
            BY <2>3, <4>3, ProfileFits
      <4> QED BY <2>9, <4>1, <4>2, <4>3
    <3>2. r.kind = "call" /\ r.op = op /\ r.args = {arg}
          BY <3>1 DEF Push, Row
    <3>3. Exchange(r, op, arg)
          BY <2>4, <2>9, <3>2 DEF Step, Line, OpenPort, ClosePort, TellBaud, SwitchBaud, BackBaud, SoundBaud,
             IsFound, VerifyBaud, RecheckBaud, AwaitTarget, Iterate, NoteGood, NeedGood
    <3>4. /\ program' = program /\ before' = before
          /\ \/ pc' = pc + 1 /\ Register(regs'[1], op) = arg
             \/ /\ pc' = 5 /\ res' = "silent"
                /\ regs'[1] = regs[1] \/ Register(regs'[1], op) = arg
          /\ op # "mode" => regs'[1].mode = regs[1].mode
          /\ op # "micro" => regs'[1].micro = regs[1].micro
          /\ op # "current" => regs'[1].current = regs[1].current
          BY <3>1, <3>3, PushStep DEF ProgramInv
    <3>5. ASSUME Register(regs'[1], op) = arg PROVE Pushed(at - 1)'
      <4>1. CASE pc = 2
            BY <2>2, <2>10, <3>1, <3>4, <3>5, <4>1 DEF Pushed, Register
      <4>2. CASE pc = 3
            BY <2>2, <2>10, <3>1, <3>4, <3>5, <4>2 DEF Pushed, Register
      <4>3. CASE pc = 4
            BY <2>2, <2>10, <3>1, <3>4, <3>5, <4>3 DEF Pushed, Register
      <4> QED BY <2>9, <4>1, <4>2, <4>3
    <3>6. ASSUME regs'[1] = regs[1] PROVE Pushed(at - 2)'
          BY <2>2, <2>9, <2>10, <3>4, <3>6 DEF Pushed
    <3>7. CASE pc' = pc + 1 /\ Register(regs'[1], op) = arg
          BY <2>9, <2>10, <3>4, <3>5, <3>7 DEF ProfileInv
    <3>8. CASE pc' = 5 /\ res' = "silent"
          BY <2>9, <2>10, <3>4, <3>5, <3>6, <3>8 DEF ProfileInv
    <3> QED BY <3>4, <3>7, <3>8
  <2> QED BY <2>1, <2>6, <2>7, <2>8, <2>9
<1>3. ASSUME pc # 0, Step(Code[program][pc]), program \notin Profiles PROVE ProfileInv'
  <2> DEFINE r == Code[program][pc]
  <2>1. Step(r)
        BY <1>3
  <2> HIDE DEF r
  <2>2. program' = program
        BY <2>1, RowsGo DEF Step, Line, Returns, Crash, Gone, Goes
  <2> QED BY <1>3, <2>2 DEF ProfileInv
<1>4. CASE UNCHANGED vars
      BY <1>4 DEF vars, ProfileInv, Pushed
<1> QED BY <1>1, <1>2, <1>3, <1>4 DEF Next

\* The firmware has a prefix of the profile, whatever is lost and wherever the
\* program is killed, and all of it when apply_profile_to_firmware() returns OK
\* (profile.hpp).
THEOREM ProfileIsPushedInOrder == Spec => []ProfileIsPrefix
PROOF
<1>1. ProfileInv => ProfileIsPrefix
  <2>1. SUFFICES ASSUME ProfileInv, program \in Profiles PROVE ProfileIsPrefix
        BY DEF ProfileIsPrefix, Profiles
  <2> DEFINE Fields(f) == <<f.mode, f.micro, f.current>>
             profile == <<WorkMode, IF program = "apply_profile" THEN 4 ELSE Byte, WorkCurrent>>
             pushed == {n \in 0..3 : Fields(regs[1]) = [i \in 1..3 |->
                           IF i <= n THEN profile[i] ELSE Fields(before[1].regs)[i]]}
  <2>2. ASSUME NEW n \in 0..3, Pushed(n) PROVE n \in pushed
        BY <2>2 DEF Pushed, Microsteps
  <2>3. PICK n \in 0..3 : Pushed(n) /\ (Ended /\ res = "done" => n = 3)
        BY <2>1 DEF ProfileInv, Ended
  <2> HIDE DEF pushed
  <2>4. pushed # {} /\ (Ended /\ res = "done" => 3 \in pushed)
        BY <2>2, <2>3
  <2> QED BY <2>4 DEF pushed, ProfileIsPrefix
<1> QED BY <1>1, InitHolds, StepKeepsInv, InitProfile, StepKeepsProfile, PTL DEF Spec

----------------------------------------------------------------------------
(* A motor at rest is left at rest.                                         *)

\* The levels of a program, at the rows its rows go to.
SafeRow(p, L, i) ==
    LET r == Code[p][i] IN
    /\ r.line = 1 /\ r.kind \in {"call", "loop"} /\ "done" \notin r.bad /\ L[i] < 2
    /\ L[i + 1] <= IF Spins(r) THEN 0 ELSE Behind(r, L, i)
    /\ r.kind = "loop" => \A k \in r.args : L[i - k] <= L[i]
    /\ r.kind # "loop" /\ r.bad # {} => L[r.fail] <= Behind(r, L, i)
SafeLevels(p, L) ==
    /\ L \in Levels(Len(Table[p])) /\ L[Len(Table[p]) + 1] = 2
    /\ \A i \in 1..Len(Table[p]) : Hot(Code[p][i], L, i) => SafeRow(p, L, i)
Level(p) == CHOOSE L \in Levels(Len(Table[p])) : SafeLevels(p, L)

LEMMA LevelsAreSafe ==
    ASSUME NEW p \in DOMAIN Table, p # "client"
    PROVE  SafeLevels(p, Level(p))
PROOF
<1> DEFINE rows == Table[p]
           n == Len(rows)
<1>1. /\ n \in Nat /\ Sane(rows)
      /\ \A i \in 1..n : Code[p][i] = [rows[i] EXCEPT !.fail = Target(rows, i)]
      BY CodeIs
<1>2. PICK L \in Levels(n) : LevelsFit(rows, 2, 2, L)
      BY TableIsLevelled DEF Levelled
<1>3. \A k \in 1..(n + 1) : L[k] \in 0..2
      BY <1>1, LevelType
<1>4. L[n + 1] = 2
  <2>1. n + 1 \in 1..(n + 1) /\ 2 <= L[n + 1]
        BY <1>1, <1>2 DEF LevelsFit
  <2> QED BY <1>3, <2>1
<1>5. ASSUME NEW i \in 1..n, Hot(Code[p][i], L, i) PROVE SafeRow(p, L, i)
  <2> DEFINE q == rows[i]
             t == Target(rows, i)
             r == Code[p][i]
  <2>1. RowFits(q) /\ i \in Nat
        BY <1>1 DEF Sane, RowIsTame, RowIsWild, Wild, Plainly, Skips, Leaves, Loops
  <2>2. /\ r.kind = q.kind /\ r.line = q.line /\ r.op = q.op /\ r.args = q.args /\ r.bad = q.bad
        /\ r.fail = t
    <3>1. [q EXCEPT !.fail = t] = Row(q.kind, q.line, q.op, q.args, q.bad, t)
      <4> HIDE DEF q, t
      <4> QED BY <2>1 DEF RowFits, Row
    <3> QED BY <1>1, <3>1 DEF Row
  <2>3. (Hot(q, L, i) <=> Hot(r, L, i)) /\ (Spins(q) <=> Spins(r)) /\ Behind(q, L, i) = Behind(r, L, i)
    <3> HIDE DEF q, r
    <3> QED BY <2>2 DEF Hot, Spins, Behind, Slows
  <2>4. Cools(rows, L, i)
        BY <1>2, <1>5, <2>3 DEF LevelsFit
  <2>5. /\ q.line = 1 /\ q.kind \in {"call", "loop"} /\ "done" \notin q.bad /\ L[i] < 2
        /\ L[i + 1] <= IF Spins(q) THEN 0 ELSE Behind(q, L, i)
        BY <2>4 DEF Cools
  <2>6. ASSUME q.kind = "loop" PROVE \A k \in q.args : L[i - k] <= L[i]
        BY <2>4, <2>6 DEF Cools
  <2>7. ASSUME q.kind # "loop", q.bad # {} PROVE L[t] <= Behind(q, L, i)
    <3>1. CASE q.fail = "skip" /\ i < Len(rows) /\ L[i + 2] <= Behind(q, L, i)
          BY <3>1 DEF Target
    <3>2. ASSUME q.fail = "again", NEW j \in i..n, rows[j].kind = "loop",
                 \A k \in i..(j - 1) : rows[k].kind # "loop", L[j] <= Behind(q, L, i)
          PROVE  L[t] <= Behind(q, L, i)
      <4>1. t = j
            BY <1>1, <2>1, <3>2, NearestLoop
      <4> QED BY <3>2, <4>1
    <3> QED BY <2>4, <2>7, <3>1, <3>2 DEF Cools
  <2> HIDE DEF q, t, r
  <2>8. /\ r.line = 1 /\ r.kind \in {"call", "loop"} /\ "done" \notin r.bad /\ L[i] < 2
        /\ L[i + 1] <= IF Spins(r) THEN 0 ELSE Behind(r, L, i)
        /\ r.kind = "loop" => \A k \in r.args : L[i - k] <= L[i]
        /\ r.kind # "loop" /\ r.bad # {} => L[r.fail] <= Behind(r, L, i)
        BY <2>2, <2>3, <2>5, <2>6, <2>7
  <2> QED BY <2>8 DEF SafeRow, r
<1>6. SafeLevels(p, L)
      BY <1>4, <1>5 DEF SafeLevels
<1> QED BY <1>2, <1>6 DEF Level

\* A motor that spins is able to; only a speed makes it spin, and a speed 0 or being
\* disabled brings it to rest.
AbleToSpin(f) == f.rpm # 0 => Able(f)
SpinOutcome(f, op, arg, o) ==
    /\ AbleToSpin(o.regs)
    /\ f.rpm = 0 /\ o.regs.rpm # 0 => op = "speed" /\ arg # 0 /\ AckToBool(o.answer) = "done"
    /\ (op = "speed" /\ arg = 0) \/ (op = "enable" /\ arg = FALSE) => o.regs.rpm = 0

LEMMA SpinOutcomes ==
    ASSUME NEW f, IsFirmware(f), AbleToSpin(f), NEW op \in Calls, NEW arg,
           NEW o \in Outcomes(f, op, arg)
    PROVE  SpinOutcome(f, op, arg, o)
PROOF
<1> USE DEF AbleToSpin, SpinOutcome
<1> DEFINE Kept(g, h) == (g.rpm # 0 => Able(g)) /\ (h.rpm = 0 => g.rpm = 0)
<1>1. DOMAIN f = FieldNames
      BY DEF IsFirmware
<1>2. ASSUME NEW g, DOMAIN g = FieldNames, g.rpm # 0 => Able(g), NEW e \in Turned(g)
      PROVE  Kept(e.regs, g)
  <2>1. CASE e = Execute(g, "turn", Nothing)
        BY <1>2, <2>1 DEF Execute, Able
  <2>2. CASE e # Execute(g, "turn", Nothing)
    <3>1. PICK a \in {0, 1} : e = [regs |-> [g EXCEPT !.latched = TRUE, !.rpm = 0], answer |-> <<a>>]
          BY <1>2, <2>2 DEF Turned
    <3>2. e.regs.rpm = 0
          BY <1>2, <3>1 DEF FieldNames
    <3> QED BY <3>2
  <2> QED BY <2>1, <2>2
<1>3. CASE op = "turn"
  <2>1. o \in Turned(f)
        BY <1>3 DEF Outcomes
  <2> QED BY <1>1, <1>2, <1>3, <2>1
<1>4. CASE op = "clear_and_turn"
  <2> DEFINE g == [f EXCEPT !.latched = FALSE]
  <2>1. o \in Turned(g)
        BY <1>4 DEF Outcomes
  <2>2. DOMAIN g = FieldNames /\ g.rpm = f.rpm /\ (g.rpm # 0 => Able(g))
        BY <1>1 DEF FieldNames, Able
  <2> HIDE DEF g
  <2> QED BY <1>2, <1>4, <2>1, <2>2
<1>5. CASE op = "speed"
  <2>1. o = Execute(f, "speed", EncodeSpeed(arg, Acc))
        BY <1>5 DEF Outcomes, Payload
  <2>2. CASE ~Able(f)
        BY <1>5, <2>1, <2>2 DEF Execute
  <2>3. CASE Able(f)
    <3>1. o = [regs |-> [f EXCEPT !.rpm = SpeedIn(EncodeSpeed(arg, Acc))], answer |-> <<1>>]
          BY <2>1, <2>3 DEF Execute
    <3>2. Able(o.regs) /\ o.regs.rpm = SpeedIn(EncodeSpeed(arg, Acc)) /\ AckToBool(o.answer) = "done"
          BY <1>1, <2>3, <3>1 DEF Able, AckToBool, FieldNames
    <3>3. SpeedIn(EncodeSpeed(0, Acc)) = 0
      <4>1. -(Byte * Nibble) < 0 /\ 0 < Byte * Nibble
            BY SpeedAssumption, ByteType
      <4> QED BY <4>1, SpeedSurvives
    <3> QED BY <1>5, <3>2, <3>3
  <2> QED BY <2>2, <2>3
<1>6. CASE op = "enable"
  <2>1. o = Execute(f, "enable", <<IF arg THEN 1 ELSE 0>>)
        BY <1>6 DEF Outcomes, Payload
  <2> DEFINE d == <<IF arg THEN 1 ELSE 0>>
  <2>2. o.regs = [f EXCEPT !.on = (d[1] = 1), !.rpm = IF d[1] = 1 THEN @ ELSE 0]
        BY <2>1 DEF Execute
  <2>3. arg = FALSE => d[1] # 1
        OBVIOUS
  <2> HIDE DEF d
  <2>4. Kept(o.regs, f) /\ (d[1] # 1 => o.regs.rpm = 0)
        BY <1>1, <2>2 DEF Able, FieldNames
  <2> QED BY <1>6, <2>3, <2>4
<1>7. CASE op \in {"move", "current", "micro", "mode"}
  <2>1. o = Execute(f, op, Payload(op, arg))
        BY <1>7 DEF Outcomes
  <2> DEFINE d == Payload(op, arg)
  <2> HIDE DEF d
  <2>2. Kept(Execute(f, op, d).regs, f)
        BY <1>1, <1>7 DEF Execute, Able, FieldNames
  <2> QED BY <1>7, <2>1, <2>2 DEF d
<1>8. CASE op \in {"stop", "release", "protect", "restart", "defaults", "zero", "read"}
  <2>1. o = Execute(f, op, Payload(op, arg))
        BY <1>8 DEF Outcomes
  <2> DEFINE d == Payload(op, arg)
  <2> HIDE DEF d
  <2>2. Kept(Execute(f, op, d).regs, f)
        BY <1>1, <1>8 DEF Execute, Able, FieldNames
  <2> QED BY <1>8, <2>1, <2>2 DEF d
<1> QED BY <1>3, <1>4, <1>5, <1>6, <1>7, <1>8 DEF Calls, Commands, Setters

\* A motor that was at rest before the program and spins now.
Restless(b) == before[b].regs.rpm = 0 /\ regs[b].rpm # 0
Heard == port[1] # NoBaud /\ Hears(1, port[1])

AbleInv == faults \in Nat /\ \A b \in Buses : regs[b].rpm # 0 => Able(regs[b])
SpinInv ==
    program # "client" => \A b \in Buses : Restless(b) =>
        \/ faults >= 2
        \/ pc = 0 /\ crashed
        \/ pc # 0 /\ b = 1 /\ Heard /\ faults >= Level(program)[pc]

LEMMA InitSpin == Init => AbleInv /\ SpinInv
PROOF BY DEF Init, AbleInv, SpinInv, Restless, Factory

\* Faults are counted, one by one.
LEMMA FaultsGrow ==
    ASSUME NEW r, faults \in Nat
    PROVE  /\ \A op, arg : Exchange(r, op, arg) => faults' \in {faults, faults + 1}
           /\ Line(r) \/ AwaitTarget(r) \/ Iterate(r) \/ NoteGood(r) \/ NeedGood(r)
                => faults' \in {faults, faults + 1}
PROOF
<1>1. \A op, arg : Exchange(r, op, arg) => faults' \in {faults, faults + 1}
      BY DEF Exchange, Answered, Lost, Unheard, Smooth, Fault
<1>2. AwaitTarget(r) \/ Iterate(r) \/ NoteGood(r) \/ NeedGood(r) => faults' \in {faults, faults + 1}
      BY DEF AwaitTarget, Iterate, NoteGood, NeedGood, Smooth
<1>3. OpenPort(r) \/ ClosePort(r) \/ TellBaud(r) \/ SwitchBaud(r) \/ BackBaud(r)
        => faults' \in {faults, faults + 1}
      BY DEF OpenPort, ClosePort, TellBaud, SwitchBaud, BackBaud, SetBaud, Smooth, Fault
<1>4. SoundBaud(r) \/ IsFound(r) \/ VerifyBaud(r) \/ RecheckBaud(r) => faults' \in {faults, faults + 1}
      BY DEF SoundBaud, IsFound, VerifyBaud, RecheckBaud, Smooth, Fault
<1> QED BY <1>1, <1>2, <1>3, <1>4 DEF Line

\* What becomes of one motor in an exchange.
LEMMA ExchangeSpins ==
    ASSUME Registers, AbleInv, NEW r, r.line \in Buses, NEW op \in Calls, NEW arg, Exchange(r, op, arg)
    PROVE  /\ AbleInv'
           /\ UNCHANGED <<program, crashed, before, port, baud, addr>>
           /\ \A b \in Buses : regs'[b] # regs[b] => b = r.line /\ Hearing(r)
           /\ regs[r.line].rpm = 0 /\ regs'[r.line].rpm # 0 =>
                /\ op = "speed" /\ arg # 0
                /\ faults' = faults => res' = "done" /\ pc' = IF "done" \in r.bad THEN r.fail ELSE pc + 1
           /\ ((op = "speed" /\ arg = 0) \/ (op = "enable" /\ arg = FALSE)) /\ regs'[r.line].rpm # 0 =>
                faults' = faults + 1 \/ ~Hearing(r)
           /\ faults' \in {faults, faults + 1}
           /\ pc' = pc + 1 \/ (pc' = r.fail /\ r.bad # {})
PROOF
<1> DEFINE f == regs[r.line]
           Still == (op = "speed" /\ arg = 0) \/ (op = "enable" /\ arg = FALSE)
<1>1. IsFirmware(f) /\ (f.rpm # 0 => Able(f)) /\ faults \in Nat
      BY DEF Registers, AbleInv
<1>2. ASSUME NEW o \in Outcomes(f, op, arg)
      PROVE  /\ o.regs.rpm # 0 => Able(o.regs)
             /\ f.rpm = 0 /\ o.regs.rpm # 0 => op = "speed" /\ arg # 0 /\ AckToBool(o.answer) = "done"
             /\ Still => o.regs.rpm = 0
  <2> HIDE DEF f
  <2>1. AbleToSpin(f)
        BY <1>1 DEF AbleToSpin
  <2>2. SpinOutcome(f, op, arg, o)
        BY <1>1, <1>2, <2>1, SpinOutcomes
  <2> QED BY <2>2 DEF SpinOutcome, AbleToSpin
<1>3. ASSUME NEW o \in Outcomes(f, op, arg), regs' = [regs EXCEPT ![r.line] = o.regs], faults' \in Nat
      PROVE  AbleInv' /\ regs'[r.line] = o.regs /\ \A b \in Buses : b # r.line => regs'[b] = regs[b]
  <2>1. regs'[r.line] = o.regs /\ \A b \in Buses : b # r.line => regs'[b] = regs[b]
    <3>1. DOMAIN regs = Buses
          BY DEF Registers
    <3> QED BY <1>3, <3>1
  <2> HIDE DEF f
  <2>2. AbleInv'
        BY <1>2, <1>3, <2>1 DEF AbleInv
  <2> QED BY <2>1, <2>2
<1>4. UNCHANGED <<program, crashed, before, port, baud, addr>>
      BY DEF Exchange, frame, nature
<1>5. faults' \in {faults, faults + 1} /\ faults' \in Nat
  <2>1. faults' \in {faults, faults + 1}
        BY <1>1, FaultsGrow
  <2> QED BY <1>1, <2>1
<1>6. pc' = pc + 1 \/ (pc' = r.fail /\ r.bad # {})
      BY DEF Exchange, Answered, Lost, Unheard, Yields
<1>7. CASE Answered(r, op, arg)
  <2>1. PICK o \in Outcomes(f, op, arg) :
           /\ regs' = [regs EXCEPT ![r.line] = o.regs] /\ faults' = faults
           /\ Yields(r, IF r.kind = "send" THEN "done" ELSE AckToBool(o.answer))
        BY <1>7 DEF Answered
  <2>2. AbleInv' /\ regs'[r.line] = o.regs /\ \A b \in Buses : b # r.line => regs'[b] = regs[b]
        BY <1>3, <1>5, <2>1
  <2>3. Hearing(r)
        BY <1>7 DEF Answered
  <2>4. f.rpm = 0 /\ o.regs.rpm # 0 =>
           op = "speed" /\ arg # 0 /\ res' = "done" /\ pc' = IF "done" \in r.bad THEN r.fail ELSE pc + 1
    <3> HIDE DEF f
    <3> QED BY <1>2, <2>1 DEF Yields
  <2>5. Still => o.regs.rpm = 0
        BY <1>2
  <2> QED BY <1>4, <1>5, <1>6, <2>2, <2>3, <2>4, <2>5
<1>8. CASE Lost(r, op, arg)
  <2>1. Hearing(r) /\ faults' = faults + 1
        BY <1>8 DEF Lost, Fault
  <2>2. CASE regs' = regs
    <3>1. AbleInv'
          BY <1>5, <2>2 DEF AbleInv
    <3> QED BY <1>1, <1>4, <1>5, <1>6, <2>1, <2>2, <3>1
  <2>3. CASE regs' # regs
    <3>1. PICK o \in Outcomes(f, op, arg) : regs' = [regs EXCEPT ![r.line] = o.regs]
          BY <1>8, <2>3 DEF Lost
    <3>2. AbleInv' /\ regs'[r.line] = o.regs /\ \A b \in Buses : b # r.line => regs'[b] = regs[b]
          BY <1>3, <1>5, <3>1
    <3>3. faults' # faults
          BY <1>1, <2>1
    <3>4. f.rpm = 0 /\ o.regs.rpm # 0 => op = "speed" /\ arg # 0
      <4> HIDE DEF f
      <4> QED BY <1>2
    <3> QED BY <1>4, <1>5, <1>6, <2>1, <3>2, <3>3, <3>4
  <2> QED BY <2>2, <2>3
<1>9. CASE Unheard(r)
  <2>1. ~Hearing(r) /\ regs' = regs
        BY <1>9 DEF Unheard
  <2>2. AbleInv'
        BY <1>5, <2>1 DEF AbleInv
  <2> QED BY <1>1, <1>4, <1>5, <1>6, <2>1, <2>2
<1> QED BY <1>7, <1>8, <1>9 DEF Exchange

\* The levels hold over an exchange.
LEMMA ExchangeIsSafe ==
    ASSUME ProgramInv, AbleInv, SpinInv, pc # 0, NEW r, r = Code[program][pc],
           NEW op \in Calls, NEW arg,
           \/ r.kind \in Sending /\ op = r.op /\ arg \in r.args
           \/ r.kind = "any",
           Exchange(r, op, arg)
    PROVE  AbleInv' /\ SpinInv'
PROOF
<1> DEFINE n == Len(Table[program])
           L == Level(program)
<1>1. program \in DOMAIN Table /\ pc \in 1..(n + 1) /\ n \in Nat /\ InCode(r, pc, n)
      BY CodeRows DEF ProgramInv, Inside
<1>2. r.line \in Buses /\ pc <= n
  <2>1. r.kind # "end"
        BY DEF Sending
  <2> QED BY <1>1, <2>1 DEF InCode
<1>3. /\ AbleInv'
      /\ UNCHANGED <<program, crashed, before, port, baud, addr>>
      /\ \A b \in Buses : regs'[b] # regs[b] => b = r.line /\ Hearing(r)
      /\ regs[r.line].rpm = 0 /\ regs'[r.line].rpm # 0 =>
            /\ op = "speed" /\ arg # 0
            /\ faults' = faults => res' = "done" /\ pc' = IF "done" \in r.bad THEN r.fail ELSE pc + 1
      /\ ((op = "speed" /\ arg = 0) \/ (op = "enable" /\ arg = FALSE)) /\ regs'[r.line].rpm # 0 =>
            faults' = faults + 1 \/ ~Hearing(r)
      /\ faults' \in {faults, faults + 1}
      /\ pc' = pc + 1 \/ (pc' = r.fail /\ r.bad # {})
      BY <1>2, ExchangeSpins DEF ProgramInv
<1>4. faults \in Nat /\ faults' \in Nat
      BY <1>3 DEF AbleInv
<1>5. pc' # 0 /\ pc' \in 1..(n + 1)
      BY <1>1, <1>2, <1>3 DEF InCode
<1>6. ASSUME program # "client", NEW b \in Buses, Restless(b)', faults' < 2
      PROVE  b = 1 /\ Heard' /\ faults' >= L[pc']
  <2>1. SafeLevels(program, L)
        BY <1>1, <1>6, LevelsAreSafe
  <2>2. \A k \in 1..(n + 1) : L[k] \in 0..2
        BY <1>1, <2>1, LevelType DEF SafeLevels
  <2>3. pc \in 1..n /\ (Hot(r, L, pc) => SafeRow(program, L, pc))
        BY <1>1, <1>2, <2>1 DEF SafeLevels
  <2>4. Hot(r, L, pc) =>
           /\ r.line = 1 /\ r.kind \in {"call", "loop"} /\ "done" \notin r.bad /\ L[pc] < 2
           /\ L[pc + 1] <= IF Spins(r) THEN 0 ELSE Behind(r, L, pc)
           /\ r.kind # "loop" /\ r.bad # {} => L[r.fail] <= Behind(r, L, pc)
        BY <2>3 DEF SafeRow
  <2>5. faults < 2 /\ L[pc] \in 0..2 /\ L[pc'] \in 0..2 /\ faults <= faults'
        BY <1>1, <1>3, <1>4, <1>5, <1>6, <2>2
  <2>6. Restless(b) \/ regs[b].rpm = 0
        BY <1>3, <1>6 DEF Restless
  <2>7. CASE Restless(b)
    <3>1. b = 1 /\ Heard /\ faults >= L[pc]
          BY <1>4, <1>6, <2>5, <2>7 DEF SpinInv
    <3>2. Hot(r, L, pc)
          BY <1>4, <2>5, <3>1 DEF Hot
    <3>3. Hearing(r) /\ r.kind = "call"
          BY <2>4, <3>1, <3>2 DEF Heard, Hearing, Sending
    <3>4. faults' >= Behind(r, L, pc)
      <4>1. CASE Slows(r)
        <5>1. faults' = faults + 1
          <6>1. (op = "speed" /\ arg = 0) \/ (op = "enable" /\ arg = FALSE)
                BY <3>3, <4>1 DEF Slows
          <6> QED BY <1>3, <1>6, <2>4, <3>1, <3>2, <3>3, <6>1 DEF Restless
        <5> QED BY <1>4, <2>5, <3>1, <4>1, <5>1 DEF Behind
      <4>2. CASE ~Slows(r)
            BY <1>4, <2>5, <3>1, <4>2 DEF Behind
      <4> QED BY <4>1, <4>2
    <3>5. L[pc'] <= Behind(r, L, pc) /\ Behind(r, L, pc) \in Nat
      <4>1. Behind(r, L, pc) \in Nat
            BY <2>5 DEF Behind
      <4> QED BY <1>3, <2>4, <2>5, <3>2, <3>3, <4>1
    <3>6. Heard'
          BY <1>3, <3>1 DEF Heard, Hears
    <3> QED BY <1>4, <2>5, <3>1, <3>4, <3>5, <3>6
  <2>8. CASE regs[b].rpm = 0
    <3>1. regs'[b].rpm # 0 /\ b = r.line /\ Hearing(r)
          BY <1>3, <1>6, <2>8 DEF Restless
    <3>2. op = "speed" /\ arg # 0
          BY <1>3, <2>8, <3>1
    <3>3. Spins(r)
          BY <3>2 DEF Spins
    <3>4. Hot(r, L, pc)
          BY <3>3 DEF Hot
    <3>5. b = 1 /\ Heard'
          BY <1>3, <2>4, <3>1, <3>4 DEF Heard, Hearing, Hears
    <3>6. CASE pc' = pc + 1
          BY <1>4, <2>4, <2>5, <3>3, <3>4, <3>5, <3>6
    <3>7. CASE pc' # pc + 1
      <4>1. faults' = faults + 1
            BY <1>3, <2>4, <2>8, <3>1, <3>4, <3>7
      <4>2. L[pc'] <= Behind(r, L, pc) /\ ~Slows(r)
        <5>1. ~Slows(r)
              BY <3>3 DEF Spins, Slows
        <5> QED BY <1>3, <2>4, <3>3, <3>4, <3>7, <5>1 DEF Spins, Sending
      <4>3. L[pc'] <= L[pc] /\ L[pc] <= 1
            BY <2>4, <2>5, <3>4, <4>2 DEF Behind
      <4> QED BY <1>4, <2>5, <3>5, <4>1, <4>3
    <3> QED BY <3>6, <3>7
  <2> QED BY <2>6, <2>7, <2>8
<1>7. SpinInv'
  <2> HIDE DEF n, L
  <2>1. program' = program /\ pc' # 0
        BY <1>3, <1>5
  <2>2. L = Level(program)'
        BY <2>1 DEF L
  <2> QED BY <1>4, <1>6, <2>1, <2>2 DEF SpinInv
<1> QED BY <1>3, <1>7

LEMMA StepKeepsSpin == ProgramInv /\ AbleInv /\ SpinInv /\ [Next]_vars => AbleInv' /\ SpinInv'
PROOF
<1> SUFFICES ASSUME ProgramInv, AbleInv, SpinInv, [Next]_vars PROVE AbleInv' /\ SpinInv'
    OBVIOUS
<1>1. ASSUME NEW p \in DOMAIN Table, Start(p) PROVE AbleInv' /\ SpinInv'
  <2>1. regs' = regs /\ faults' = 0 /\ \A b \in Buses : before'[b].regs = regs[b]
        BY <1>1 DEF Start
  <2>2. \A b \in Buses : ~Restless(b)'
        BY <2>1 DEF Restless
  <2> QED BY <2>1, <2>2 DEF AbleInv, SpinInv
<1>2. ASSUME pc # 0, Step(Code[program][pc]) PROVE AbleInv' /\ SpinInv'
  <2> DEFINE r == Code[program][pc]
             n == Len(Table[program])
             L == Level(program)
  <2>1. n \in Nat /\ pc \in 1..(n + 1) /\ program \in DOMAIN Table /\ InCode(r, pc, n)
        BY <1>2, CodeRows DEF ProgramInv, Inside
  <2>2. faults \in Nat
        BY DEF AbleInv
  <2>3. ASSUME program # "client"
        PROVE  /\ SafeLevels(program, L) /\ L[n + 1] = 2 /\ \A k \in 1..(n + 1) : L[k] \in 0..2
               /\ pc <= n /\ L[pc] < 2 => SafeRow(program, L, pc)
    <3>1. SafeLevels(program, L)
          BY <2>1, <2>3, LevelsAreSafe
    <3> QED BY <2>1, <3>1, LevelType DEF SafeLevels, Hot
  <2>4. ASSUME program # "client", NEW b \in Buses, Restless(b), r.kind \notin {"call", "loop"}
        PROVE  faults >= 2
    <3>1. SUFFICES ASSUME faults < 2 PROVE FALSE
          BY <2>2
    <3>2. faults >= L[pc]
          BY <1>2, <2>2, <2>4, <3>1 DEF SpinInv
    <3>3. pc <= n /\ L[pc] < 2
          BY <2>1, <2>2, <2>3, <2>4, <3>1, <3>2
    <3> QED BY <2>3, <2>4, <3>3 DEF SafeRow
  <2>5. ASSUME Gone, crashed' = TRUE \/ (crashed' = crashed /\ r.kind \in {"end", "return"})
        PROVE  AbleInv' /\ SpinInv'
    <3>1. regs' = regs /\ faults' = faults /\ before' = before /\ program' = program /\ pc' = 0
          BY <2>5 DEF Gone
    <3>2. AbleInv'
          BY <3>1 DEF AbleInv
    <3>3. \A b : Restless(b)' <=> Restless(b)
          BY <3>1 DEF Restless
    <3> QED BY <2>4, <2>5, <3>1, <3>2, <3>3 DEF SpinInv
  <2>6. Step(r)
        BY <1>2
  <2>7. CASE Returns(r) \/ Crash(r)
        BY <2>5, <2>7 DEF Returns, Crash
  <2>8. CASE r.kind \in {"call", "send"} /\ \E a \in r.args : Exchange(r, r.op, a)
    <3>1. PICK a \in r.args : Exchange(r, r.op, a)
          BY <2>8
    <3>2. r.op \in Calls /\ r.kind \in Sending
          BY <2>1, <2>8 DEF InCode, Sending
    <3> HIDE DEF r
    <3> QED BY <1>2, <3>1, <3>2, ExchangeIsSafe DEF r
  <2>9. CASE r.kind = "any" /\ \E c \in ClientCalls : Exchange(r, c[1], c[2])
    <3>1. PICK c \in ClientCalls : Exchange(r, c[1], c[2])
          BY <2>9
    <3>2. c[1] \in Calls
          BY ClientFits
    <3> QED BY <1>2, <2>9, <3>1, <3>2, ExchangeIsSafe
  <2>10. CASE Iterate(r)
    <3>1. /\ UNCHANGED <<program, crashed, before, port, baud, addr, regs, faults>> /\ r.kind = "loop"
          /\ pc' = pc + 1 \/ \E k \in r.args : pc' = pc - k
          BY <2>10 DEF Iterate, Smooth, frame, nature
    <3>2. AbleInv'
          BY <3>1 DEF AbleInv
    <3>3. /\ r.kind # "end" /\ pc <= n
          /\ \A k \in r.args : pc - k \in 1..(n + 1)
      <4>1. pc <= n /\ \E k \in Nat : k < pc /\ r.args = {k}
            BY <2>1, <3>1 DEF InCode
      <4> QED BY <2>1, <3>1, <4>1
    <3>4. pc' # 0 /\ pc' \in 1..(n + 1)
          BY <2>1, <3>1, <3>3
    <3>5. ASSUME program # "client", NEW b \in Buses, Restless(b), faults < 2
          PROVE  b = 1 /\ Heard /\ faults >= L[pc']
      <4>1. b = 1 /\ Heard /\ faults >= L[pc]
            BY <1>2, <2>2, <3>5 DEF SpinInv
      <4>2. L[pc] < 2 /\ L[pc] \in 0..2 /\ L[pc'] \in 0..2
            BY <2>1, <2>2, <2>3, <3>4, <3>5, <4>1
      <4>3. SafeRow(program, L, pc)
            BY <2>3, <3>3, <3>5, <4>2
      <4>4. L[pc'] <= L[pc]
        <5>1. L[pc + 1] <= L[pc] /\ \A k \in r.args : L[pc - k] <= L[pc]
          <6>1. ~Spins(r) /\ ~Slows(r)
                BY <3>1 DEF Spins, Slows, Sending
          <6> QED BY <3>1, <4>2, <4>3, <6>1 DEF SafeRow, Behind
        <5> QED BY <3>1, <5>1
      <4> QED BY <2>2, <4>1, <4>2, <4>4
    <3> HIDE DEF r, n, L
    <3>6. L = Level(program)' /\ (Heard' <=> Heard) /\ \A b : Restless(b)' <=> Restless(b)
          BY <3>1 DEF L, Heard, Hears, Restless
    <3> QED BY <2>2, <3>1, <3>2, <3>4, <3>5, <3>6 DEF SpinInv
  <2>11. CASE Line(r) \/ AwaitTarget(r) \/ NoteGood(r) \/ NeedGood(r)
    <3>1. r.kind \notin {"call", "loop"}
          BY <2>11 DEF Line, AwaitTarget, OpenPort, ClosePort, TellBaud, SwitchBaud, BackBaud, SoundBaud,
             IsFound, VerifyBaud, RecheckBaud, NoteGood, NeedGood
    <3>2. UNCHANGED <<program, before, regs>>
          BY <2>11 DEF Line, AwaitTarget, OpenPort, ClosePort, TellBaud, SwitchBaud, BackBaud, SoundBaud,
             IsFound, VerifyBaud, RecheckBaud, NoteGood, NeedGood, frame
    <3>3. faults' \in Nat /\ (faults >= 2 => faults' >= 2)
      <4>1. faults' \in {faults, faults + 1}
            BY <2>2, <2>11, FaultsGrow
      <4> QED BY <2>2, <4>1
    <3>4. AbleInv'
          BY <3>2, <3>3 DEF AbleInv
    <3>5. \A b : Restless(b)' <=> Restless(b)
          BY <3>2 DEF Restless
    <3> QED BY <2>4, <3>1, <3>2, <3>3, <3>4, <3>5 DEF SpinInv
  <2> QED BY <2>6, <2>7, <2>8, <2>9, <2>10, <2>11 DEF Step
<1>3. CASE UNCHANGED vars
  <2>1. UNCHANGED <<program, pc, crashed, before, port, baud, addr, regs, faults>>
        BY <1>3 DEF vars, nature
  <2> QED BY <2>1 DEF AbleInv, SpinInv, Restless, Heard, Hears
<1> QED BY <1>1, <1>2, <1>3 DEF Next

\* A program that ends by itself and has lost at most one exchange, whichever one,
\* leaves at rest a motor that it found at rest: the last speed 0 and the disabling
\* of the motor stand in for one another (hil_envelope, hil_single_motor_bench,
\* hil_voltage_setup, characterize).
THEOREM OneLossIsSurvived == Spec => []OneLossLeavesNoSpin
PROOF
<1>1. AbleInv /\ SpinInv => OneLossLeavesNoSpin
  <2> SUFFICES ASSUME AbleInv, SpinInv, Ended, faults <= 1, program # "client", NEW b \in Buses,
                      before[b].regs.rpm = 0
               PROVE  regs[b].rpm = 0
      BY DEF OneLossLeavesNoSpin
  <2>1. faults \in Nat /\ pc = 0 /\ ~crashed
        BY DEF AbleInv, Ended
  <2> QED BY <2>1 DEF SpinInv, Restless
<1> QED BY <1>1, InitHolds, StepKeepsInv, InitSpin, StepKeepsSpin, PTL DEF Spec
=============================================================================
