-------------------------- MODULE IndicatorsProofs -------------------------
(***************************************************************************)
(* The arithmetic of Indicators for all inputs: exact rationals in lowest   *)
(* terms, recursion over the days, and what each one-pass computation of    *)
(* internal/analytics produces.  Induction is that of the naturals, on sets. *)
(***************************************************************************)
EXTENDS Indicators, StoreProofs, SequenceTheorems

-----------------------------------------------------------------------------
(* Induction.                                                               *)

\* A set of naturals that has a number as soon as it has all smaller ones.
LEMMA Induction ==
    ASSUME NEW T \in SUBSET Nat,
           \A n \in Nat : (\A k \in Nat : k < n => k \in T) => n \in T
    PROVE  \A n \in Nat : n \in T
<1> SUFFICES ASSUME NEW n \in Nat, n \notin T PROVE FALSE
  OBVIOUS
<1> DEFINE F == Nat \ T
<1>1. F \in SUBSET Nat /\ n \in F
  OBVIOUS
<1> HIDE DEF F
<1>2. PICK m \in F : \A j \in F : m <= j
  BY <1>1, LeastNumber
<1>3. \A k \in Nat : k < m => k \in T
  BY <1>1, <1>2 DEF F
<1> QED
  BY <1>2, <1>3 DEF F

-----------------------------------------------------------------------------
(* The greatest common divisor.                                             *)

\* A function that follows Euclid's algorithm for second numbers up to n.
Euclid(g, n) ==
    /\ g \in [Nat \X (0 .. n) -> Nat]
    /\ \A a \in Nat, b \in 0 .. n :
          g[<<a, b>>] = IF b = 0 THEN a ELSE g[<<b, a % b>>]

\* What % and \div give.
LEMMA Remainder ==
    ASSUME NEW a \in Nat, NEW b \in Nat, b # 0
    PROVE  /\ a % b \in Nat /\ a % b < b /\ a \div b \in Nat
           /\ a = b * (a \div b) + (a % b)
<1>1. a % b \in Nat
  OBVIOUS
<1>2. a % b < b
  OBVIOUS
<1>3. a \div b \in Int
  OBVIOUS
<1>4. a \div b >= 0
  OBVIOUS
<1>5. a = b * (a \div b) + (a % b)
  OBVIOUS
<1> QED
  BY <1>1, <1>2, <1>3, <1>4, <1>5

\* There is such a function for any bound, built up from smaller ones.
LEMMA EuclidExists == \A n \in Nat : \E g : Euclid(g, n)
<1> DEFINE T == {n \in Nat : \E g : Euclid(g, n)}
<1>1. ASSUME NEW n \in Nat, \A k \in Nat : k < n => k \in T
      PROVE  n \in T
  <2>1. CASE n = 0
    <3> DEFINE g == [p \in Nat \X (0 .. n) |-> p[1]]
    <3>1. Euclid(g, n)
      BY <2>1 DEF Euclid
    <3> QED
      BY <3>1
  <2>2. CASE n # 0
    <3>1. n - 1 \in Nat /\ n - 1 < n
      BY <2>2
    <3>2. PICK f : Euclid(f, n - 1)
      BY <1>1, <3>1
    <3> DEFINE g == [p \in Nat \X (0 .. n) |->
                       IF p[2] = n THEN f[<<n, p[1] % n>>] ELSE f[p]]
    <3>3. \A a \in Nat, b \in 0 .. n - 1 :
             /\ f[<<a, b>>] \in Nat
             /\ f[<<a, b>>] = IF b = 0 THEN a ELSE f[<<b, a % b>>]
      BY <3>2 DEF Euclid
    <3>4. \A a \in Nat, b \in 0 .. n :
             g[<<a, b>>] = IF b = n THEN f[<<n, a % n>>] ELSE f[<<a, b>>]
      OBVIOUS
    <3>5. \A a \in Nat : a % n \in 0 .. n - 1
      BY <2>2, Remainder
    <3>6. g \in [Nat \X (0 .. n) -> Nat]
      <4>1. ASSUME NEW p \in Nat \X (0 .. n)
            PROVE  (IF p[2] = n THEN f[<<n, p[1] % n>>] ELSE f[p]) \in Nat
        <5>1. PICK a \in Nat, b \in 0 .. n : p = <<a, b>>
          OBVIOUS
        <5>2. CASE b = n
          BY <3>3, <3>5, <5>1, <5>2
        <5>3. CASE b # n
          <6>1. b \in 0 .. n - 1
            BY <5>3
          <6> QED
            BY <3>3, <5>1, <5>3, <6>1
        <5> QED
          BY <5>2, <5>3
      <4> QED
        BY <4>1
    <3> HIDE DEF g
    <3>7. ASSUME NEW a \in Nat, NEW b \in 0 .. n
          PROVE  g[<<a, b>>] = IF b = 0 THEN a ELSE g[<<b, a % b>>]
      <4>1. CASE b = n
        <5>1. a % n \in 0 .. n - 1 /\ a % n \in 0 .. n /\ a % n # n
          BY <3>5
        <5>2. g[<<n, a % n>>] = f[<<n, a % n>>]
          BY <3>4, <5>1
        <5> QED
          BY <2>2, <3>4, <4>1, <5>2
      <4>2. CASE b # n /\ b # 0
        <5>1. b \in 0 .. n - 1 /\ b \in Nat
          BY <4>2
        <5>2. a % b \in 0 .. n - 1 /\ a % b \in 0 .. n /\ a % b # n
          BY <4>2, <5>1, Remainder
        <5>3. g[<<b, a % b>>] = f[<<b, a % b>>]
          BY <3>4, <5>1, <5>2
        <5>4. g[<<a, b>>] = f[<<a, b>>] /\ f[<<a, b>>] = f[<<b, a % b>>]
          BY <3>3, <3>4, <4>2, <5>1
        <5> QED
          BY <4>2, <5>3, <5>4
      <4>3. CASE b = 0
        <5>1. 0 \in 0 .. n - 1 /\ 0 \in 0 .. n /\ 0 # n
          BY <2>2
        <5>2. g[<<a, 0>>] = f[<<a, 0>>]
          BY <3>4, <5>1
        <5>3. f[<<a, 0>>] = a
          BY <3>3, <5>1
        <5> QED
          BY <4>3, <5>2, <5>3
      <4> QED
        BY <4>1, <4>2, <4>3
    <3>8. Euclid(g, n)
      BY <3>6, <3>7 DEF Euclid
    <3> QED
      BY <3>8
  <2> QED
    BY <2>1, <2>2
<1> HIDE DEF T
<1>2. T \in SUBSET Nat
  BY DEF T
<1>3. \A n \in Nat : n \in T
  BY <1>1, <1>2, Induction
<1> QED
  BY <1>3 DEF T

\* Two such functions agree where both are defined.
LEMMA EuclidUnique ==
    ASSUME NEW n \in Nat, NEW m \in Nat, n <= m, NEW g, NEW h, Euclid(g, n), Euclid(h, m)
    PROVE  \A a \in Nat, b \in 0 .. n : g[<<a, b>>] = h[<<a, b>>]
<1> DEFINE T == {b \in Nat : b <= n => \A a \in Nat : g[<<a, b>>] = h[<<a, b>>]}
<1>1. ASSUME NEW b \in Nat, \A k \in Nat : k < b => k \in T
      PROVE  b \in T
  <2> SUFFICES ASSUME b <= n, NEW a \in Nat PROVE g[<<a, b>>] = h[<<a, b>>]
    OBVIOUS
  <2>1. b \in 0 .. n /\ b \in 0 .. m
    OBVIOUS
  <2>2. /\ g[<<a, b>>] = IF b = 0 THEN a ELSE g[<<b, a % b>>]
        /\ h[<<a, b>>] = IF b = 0 THEN a ELSE h[<<b, a % b>>]
    BY <2>1 DEF Euclid
  <2>3. b # 0 => a % b \in Nat /\ a % b < b /\ a % b <= n
    BY Remainder
  <2>4. b # 0 => g[<<b, a % b>>] = h[<<b, a % b>>]
    BY <1>1, <2>3
  <2> QED
    BY <2>2, <2>4
<1> HIDE DEF T
<1>2. T \in SUBSET Nat
  BY DEF T
<1>3. \A b \in Nat : b \in T
  BY <1>1, <1>2, Induction
<1> QED
  BY <1>3 DEF T

\* gcd is Euclid's algorithm.
LEMMA GcdIs ==
    ASSUME NEW a \in Nat, NEW b \in Nat
    PROVE  gcd[<<a, b>>] = IF b = 0 THEN a ELSE gcd[<<b, a % b>>]
<1> DEFINE part(n) == CHOOSE g : Euclid(g, n)
           G == [p \in Nat \X Nat |-> part(p[2])[p]]
<1>1. \A n \in Nat : Euclid(part(n), n)
  BY EuclidExists
<1> HIDE DEF part
<1>2. ASSUME NEW x \in Nat, NEW y \in Nat
      PROVE  G[<<x, y>>] = IF y = 0 THEN x ELSE G[<<y, x % y>>]
  <2>1. G[<<x, y>>] = part(y)[<<x, y>>]
    OBVIOUS
  <2>2. part(y)[<<x, y>>] = IF y = 0 THEN x ELSE part(y)[<<y, x % y>>]
    <3>1. y \in 0 .. y
      OBVIOUS
    <3> QED
      BY <1>1, <3>1 DEF Euclid
  <2>3. ASSUME y # 0 PROVE part(y)[<<y, x % y>>] = G[<<y, x % y>>]
    <3>1. x % y \in Nat /\ x % y <= y /\ x % y \in 0 .. x % y
      BY <2>3, Remainder
    <3>2. G[<<y, x % y>>] = part(x % y)[<<y, x % y>>]
      BY <3>1
    <3>3. Euclid(part(x % y), x % y) /\ Euclid(part(y), y)
      BY <1>1, <3>1
    <3>4. part(x % y)[<<y, x % y>>] = part(y)[<<y, x % y>>]
      BY <3>1, <3>3, EuclidUnique
    <3> QED
      BY <3>2, <3>4
  <2> QED
    BY <2>1, <2>2, <2>3
<1>3. G = [p \in Nat \X Nat |-> IF p[2] = 0 THEN p[1] ELSE G[<<p[2], p[1] % p[2]>>]]
  <2>1. ASSUME NEW p \in Nat \X Nat
        PROVE  G[p] = IF p[2] = 0 THEN p[1] ELSE G[<<p[2], p[1] % p[2]>>]
    <3>1. PICK x \in Nat, y \in Nat : p = <<x, y>>
      OBVIOUS
    <3> HIDE DEF G
    <3>2. p[1] = x /\ p[2] = y
      BY <3>1
    <3> QED
      BY <1>2, <3>1, <3>2
  <2>2. G = [p \in Nat \X Nat |-> G[p]]
    OBVIOUS
  <2> HIDE DEF G
  <2> QED
    BY <2>1, <2>2
<1> HIDE DEF G
<1>4. \E f : f = [p \in Nat \X Nat |-> IF p[2] = 0 THEN p[1] ELSE f[<<p[2], p[1] % p[2]>>]]
  BY <1>3
<1>5. gcd = [p \in Nat \X Nat |-> IF p[2] = 0 THEN p[1] ELSE gcd[<<p[2], p[1] % p[2]>>]]
  BY <1>4 DEF gcd
<1> QED
  BY <1>5

-----------------------------------------------------------------------------
(* Rationals.                                                               *)

\* gcd divides both numbers, and is zero only for two zeros.
GcdDivides(a, b) ==
    /\ gcd[<<a, b>>] \in Nat
    /\ a # 0 \/ b # 0 => gcd[<<a, b>>] # 0
    /\ \E q \in Nat : a = gcd[<<a, b>>] * q
    /\ \E q \in Nat : b = gcd[<<a, b>>] * q

\* It holds for all pairs, by induction on the second.
LEMMA GcdIsDivisor == \A a, b \in Nat : GcdDivides(a, b)
<1> DEFINE T == {b \in Nat : \A a \in Nat : GcdDivides(a, b)}
<1>1. ASSUME NEW b \in Nat, \A k \in Nat : k < b => k \in T
      PROVE  b \in T
  <2> SUFFICES ASSUME NEW a \in Nat PROVE GcdDivides(a, b)
    OBVIOUS
  <2>1. CASE b = 0
    <3>1. gcd[<<a, b>>] = a
      BY <2>1, GcdIs
    <3>2. a = a * 1 /\ 0 = a * 0 /\ 1 \in Nat /\ 0 \in Nat
      OBVIOUS
    <3> QED
      BY <2>1, <3>1, <3>2 DEF GcdDivides
  <2>2. CASE b # 0
    <3>1. /\ a % b \in Nat /\ a % b < b /\ a \div b \in Nat
          /\ a = b * (a \div b) + (a % b)
      BY <2>2, Remainder
    <3>2. GcdDivides(b, a % b)
      BY <1>1, <3>1
    <3>3. gcd[<<a, b>>] = gcd[<<b, a % b>>]
      BY <2>2, GcdIs
    <3>4. PICK g \in Nat, q \in Nat, r \in Nat :
             /\ g = gcd[<<b, a % b>>] /\ g # 0 /\ b = g * q /\ a % b = g * r
      BY <2>2, <3>2 DEF GcdDivides
    <3>5. a = g * (q * (a \div b) + r)
      <4> DEFINE d == a \div b
                 m == a % b
      <4>1. d \in Nat /\ m \in Nat /\ a = b * d + m /\ b = g * q /\ m = g * r
        BY <3>1, <3>4
      <4> HIDE DEF d, m
      <4>2. a = (g * q) * d + g * r
        BY <4>1
      <4>3. a = g * (q * d + r)
        BY <4>1, <4>2
      <4> QED
        BY <4>3 DEF d
    <3>6. q * (a \div b) + r \in Nat
      BY <3>1
    <3> QED
      BY <3>3, <3>4, <3>5, <3>6 DEF GcdDivides
  <2> QED
    BY <2>1, <2>2
<1> HIDE DEF T
<1>2. T \in SUBSET Nat
  BY DEF T
<1>3. \A b \in Nat : b \in T
  BY <1>1, <1>2, Induction
<1> QED
  BY <1>3 DEF T

\* Division with remainder has one result.
LEMMA RemainderIs ==
    ASSUME NEW y \in Nat, NEW q \in Nat, NEW r \in Nat, r < y
    PROVE  (y * q + r) % y = r
<1> DEFINE x == y * q + r
           p == x \div y
           s == x % y
<1>1. x \in Nat /\ y # 0
  OBVIOUS
<1>2. s \in Nat /\ s < y /\ p \in Nat /\ x = y * p + s
  BY <1>1, Remainder
<1>3. y * q + r = y * p + s
  BY <1>2
<1> HIDE DEF x, p, s
<1>4. q = p
  <2>1. CASE q < p
    <3>1. y * (q + 1) <= y * p
      BY <1>2, <2>1
    <3>2. y * (q + 1) = y * q + y
      OBVIOUS
    <3> QED
      BY <1>2, <1>3, <3>1, <3>2
  <2>2. CASE p < q
    <3>1. y * (p + 1) <= y * q
      BY <1>2, <2>2
    <3>2. y * (p + 1) = y * p + y
      BY <1>2
    <3> QED
      BY <1>2, <1>3, <3>1, <3>2
  <2> QED
    BY <1>2, <2>1, <2>2
<1>5. r = s
  BY <1>2, <1>3, <1>4
<1> QED
  BY <1>5 DEF s, x

\* A common factor of both is one of the result.
LEMMA GcdScales ==
    ASSUME NEW k \in Nat, k # 0
    PROVE  \A a, b \in Nat : gcd[<<k * a, k * b>>] = k * gcd[<<a, b>>]
<1> DEFINE T == {b \in Nat : \A a \in Nat : gcd[<<k * a, k * b>>] = k * gcd[<<a, b>>]}
<1>1. ASSUME NEW b \in Nat, \A j \in Nat : j < b => j \in T
      PROVE  b \in T
  <2> SUFFICES ASSUME NEW a \in Nat PROVE gcd[<<k * a, k * b>>] = k * gcd[<<a, b>>]
    OBVIOUS
  <2>0. k * a \in Nat /\ k * b \in Nat /\ (b = 0 <=> k * b = 0)
    OBVIOUS
  <2>1. CASE b = 0
    <3>1. gcd[<<a, b>>] = a
      BY <2>1, GcdIs
    <3>2. gcd[<<k * a, k * b>>] = k * a
      BY <2>0, <2>1, GcdIs
    <3> QED
      BY <3>1, <3>2
  <2>2. CASE b # 0
    <3> DEFINE d == a \div b
               m == a % b
    <3>1. m \in Nat /\ m < b /\ d \in Nat /\ a = b * d + m
      BY <2>2, Remainder
    <3>2. gcd[<<k * b, k * m>>] = k * gcd[<<b, m>>]
      BY <1>1, <3>1
    <3>3. gcd[<<a, b>>] = gcd[<<b, m>>]
      BY <2>2, GcdIs
    <3>4. gcd[<<k * a, k * b>>] = gcd[<<k * b, (k * a) % (k * b)>>]
      BY <2>0, <2>2, GcdIs
    <3> HIDE DEF d, m
    <3>5. k * a = (k * b) * d + k * m
      BY <3>1
    <3>6. k * m \in Nat /\ k * m < k * b
      BY <3>1
    <3>7. (k * a) % (k * b) = k * m
      BY <2>0, <3>1, <3>5, <3>6, RemainderIs
    <3> QED
      BY <3>2, <3>3, <3>4, <3>7
  <2> QED
    BY <2>1, <2>2
<1> HIDE DEF T
<1>2. T \in SUBSET Nat
  BY DEF T
<1>3. \A b \in Nat : b \in T
  BY <1>1, <1>2, Induction
<1> QED
  BY <1>3 DEF T

\* The parts of a number.
Abs(n) == IF n < 0 THEN -n ELSE n
Sign(d) == IF d < 0 THEN -1 ELSE 1

\* What Q divides by, and what is left.
LEMMA QReduces ==
    ASSUME NEW n \in Int, NEW d \in Int, d # 0
    PROVE  \E g \in Nat, p \in Int, q \in Nat :
             /\ g # 0 /\ q # 0 /\ Q(n, d) = <<p, q>>
             /\ g = gcd[<<Abs(n), Abs(d)>>]
             /\ Sign(d) * n = g * p /\ Sign(d) * d = g * q
<1> DEFINE A == Abs(n)
           D == Abs(d)
           N == Sign(d) * n
           g == gcd[<<A, D>>]
<1>1. A \in Nat /\ D \in Nat /\ D # 0 /\ Sign(d) * d = D
  BY DEF Abs, Sign
<1>2. N \in Int /\ (N = A \/ N = -A)
  BY DEF Abs, Sign
<1>3. GcdDivides(A, D)
  BY <1>1, GcdIsDivisor
<1>4. PICK a \in Nat, q \in Nat : g \in Nat /\ g # 0 /\ A = g * a /\ D = g * q
  BY <1>1, <1>3 DEF GcdDivides
<1>5. Q(n, d) = <<N \div g, D \div g>>
  <2>1. Q(n, d) = <<(Sign(d) * n) \div gcd[<<Abs(n), Sign(d) * d>>],
                    (Sign(d) * d) \div gcd[<<Abs(n), Sign(d) * d>>]>>
    BY Zenon DEF Q, Abs, Sign
  <2> QED
    BY <1>1, <2>1
<1> HIDE DEF A, D, N, g
<1>6. q # 0
  BY <1>1, <1>4
<1>7. PICK p \in Int : N = g * p
  <2>1. CASE N = A
    BY <1>4, <2>1
  <2>2. CASE N = -A
    <3>1. N = g * (-a)
      BY <1>4, <2>2
    <3>2. -a \in Int
      OBVIOUS
    <3> QED
      BY <3>1, <3>2
  <2> QED
    BY <1>2, <2>1, <2>2
<1>8. (g * p) \div g = p /\ (g * q) \div g = q
  <2>1. g \in Int /\ g > 0 /\ q \in Int
    BY <1>4
  <2>2. (g * p) \div g = p
    BY <2>1
  <2>3. (g * q) \div g = q
    BY <2>1
  <2> QED
    BY <2>2, <2>3
<1>9. Q(n, d) = <<p, q>>
  BY <1>4, <1>5, <1>7, <1>8
<1>10. g # 0 /\ q # 0 /\ Sign(d) * n = g * p /\ Sign(d) * d = g * q
  BY <1>1, <1>4, <1>6, <1>7 DEF N
<1>11. g \in Nat /\ g = gcd[<<Abs(n), Abs(d)>>]
  BY <1>4 DEF g, A, D
<1> QED
  BY <1>9, <1>10, <1>11

\* A quotient of integers in lowest terms.
Rat == {Q(n, d) : n \in Int, d \in Nat \ {0}}

\* Q is the quotient ...
LEMMA QValue ==
    ASSUME NEW n \in Int, NEW d \in Int, d # 0
    PROVE  /\ Q(n, d)[1] \in Int /\ Q(n, d)[2] \in Nat \ {0}
           /\ Q(n, d) = <<Q(n, d)[1], Q(n, d)[2]>>
           /\ Q(n, d)[1] * d = n * Q(n, d)[2]
           /\ Q(n, d) # <<>>
<1>1. PICK g \in Nat, p \in Int, q \in Nat :
             /\ g # 0 /\ q # 0 /\ Q(n, d) = <<p, q>>
             /\ g = gcd[<<Abs(n), Abs(d)>>]
             /\ Sign(d) * n = g * p /\ Sign(d) * d = g * q
  BY QReduces
<1>2. Sign(d) = 1 \/ Sign(d) = -1
  BY DEF Sign
<1>3. p * d = n * q
  <2>1. CASE Sign(d) = 1
    <3>1. n = g * p /\ d = g * q
      BY <1>1, <2>1
    <3>2. p * (g * q) = (g * p) * q
      OBVIOUS
    <3> QED
      BY <3>1, <3>2
  <2>2. CASE Sign(d) = -1
    <3>1. n = -(g * p) /\ d = -(g * q)
      BY <1>1, <2>2
    <3>2. p * (-(g * q)) = (-(g * p)) * q
      OBVIOUS
    <3> QED
      BY <3>1, <3>2
  <2> QED
    BY <1>2, <2>1, <2>2
<1>4. <<p, q>> # <<>> /\ <<p, q>>[1] = p /\ <<p, q>>[2] = q
  OBVIOUS
<1> QED
  BY <1>1, <1>3, <1>4

\* ... and has one form for it.
LEMMA QEqual ==
    ASSUME NEW n \in Int, NEW d \in Int, d # 0, NEW m \in Int, NEW e \in Int, e # 0,
           n * e = m * d
    PROVE  Q(n, d) = Q(m, e)
<1>1. PICK g \in Nat, p \in Int, q \in Nat :
             /\ g # 0 /\ q # 0 /\ Q(n, d) = <<p, q>>
             /\ g = gcd[<<Abs(n), Abs(d)>>]
             /\ Sign(d) * n = g * p /\ Sign(d) * d = g * q
  BY QReduces
<1>2. PICK h \in Nat, r \in Int, s \in Nat :
             /\ h # 0 /\ s # 0 /\ Q(m, e) = <<r, s>>
             /\ h = gcd[<<Abs(m), Abs(e)>>]
             /\ Sign(e) * m = h * r /\ Sign(e) * e = h * s
  BY QReduces
<1>3. /\ Abs(n) \in Nat /\ Abs(d) \in Nat /\ Abs(d) # 0 /\ Abs(d) = Sign(d) * d
      /\ Abs(m) \in Nat /\ Abs(e) \in Nat /\ Abs(e) # 0 /\ Abs(e) = Sign(e) * e
      /\ Sign(d) \in Int /\ Sign(e) \in Int
  BY DEF Abs, Sign
<1>4. Abs(e) * Abs(n) = Abs(d) * Abs(m)
  <2>1. Abs(e) * Abs(n) = Abs(n * e)
    <3>1. CASE n >= 0 /\ e >= 0
      BY <3>1 DEF Abs
    <3>2. CASE n >= 0 /\ e < 0
      BY <3>2 DEF Abs
    <3>3. CASE n < 0 /\ e >= 0
      BY <3>3 DEF Abs
    <3>4. CASE n < 0 /\ e < 0
      BY <3>4 DEF Abs
    <3> QED
      BY <3>1, <3>2, <3>3, <3>4
  <2>2. Abs(d) * Abs(m) = Abs(m * d)
    <3>1. CASE m >= 0 /\ d >= 0
      BY <3>1 DEF Abs
    <3>2. CASE m >= 0 /\ d < 0
      BY <3>2 DEF Abs
    <3>3. CASE m < 0 /\ d >= 0
      BY <3>3 DEF Abs
    <3>4. CASE m < 0 /\ d < 0
      BY <3>4 DEF Abs
    <3> QED
      BY <3>1, <3>2, <3>3, <3>4
  <2> QED
    BY <2>1, <2>2
<1>5. gcd[<<Abs(e) * Abs(n), Abs(e) * Abs(d)>>] = Abs(e) * g
  BY <1>1, <1>3, GcdScales
<1>6. gcd[<<Abs(d) * Abs(m), Abs(d) * Abs(e)>>] = Abs(d) * h
  BY <1>2, <1>3, GcdScales
<1>7. Abs(e) * Abs(d) = Abs(d) * Abs(e)
  BY <1>3
<1>8. Abs(e) * g = Abs(d) * h
  BY <1>4, <1>5, <1>6, <1>7
<1>9. (h * s) * g = (g * q) * h
  BY <1>1, <1>2, <1>3, <1>8
<1>10. q = s
  <2>1. (g * h) * s = (g * h) * q
    BY <1>9
  <2>2. g * h > 0 /\ g * h \in Int
    BY <1>1, <1>2
  <2> QED
    BY <2>1, <2>2
<1>11. (Sign(d) * n) * (Sign(e) * e) = (Sign(e) * m) * (Sign(d) * d)
  <2>1. (Sign(d) * n) * (Sign(e) * e) = (Sign(d) * Sign(e)) * (n * e)
    BY <1>3
  <2>2. (Sign(e) * m) * (Sign(d) * d) = (Sign(d) * Sign(e)) * (m * d)
    BY <1>3
  <2> QED
    BY <2>1, <2>2
<1>12. (g * p) * (h * s) = (h * r) * (g * q)
  BY <1>1, <1>2, <1>11
<1>13. p = r
  <2>1. ((g * h) * s) * p = ((g * h) * s) * r
    BY <1>10, <1>12
  <2>2. g * h > 0 /\ g * h \in Int
    BY <1>1, <1>2
  <2>3. (g * h) * s > 0 /\ (g * h) * s \in Int
    BY <1>2, <2>2
  <2> DEFINE c == (g * h) * s
  <2>4. c > 0 /\ c \in Int /\ c * p = c * r
    BY <2>1, <2>3
  <2> HIDE DEF c
  <2> QED
    BY <2>4
<1> QED
  BY <1>1, <1>2, <1>10, <1>13

\* An integer is its quotient by 1.
LEMMA WholeIs == \A n \in Int : Whole(n) = Q(n, 1)
<1> SUFFICES ASSUME NEW n \in Int PROVE Whole(n) = Q(n, 1)
  OBVIOUS
<1> DEFINE A == IF n < 0 THEN -n ELSE n
<1>1. A \in Nat /\ 1 \in Nat /\ 0 \in Nat
  OBVIOUS
<1>2. Q(n, 1) = <<(1 * n) \div gcd[<<A, 1 * 1>>], (1 * 1) \div gcd[<<A, 1 * 1>>]>>
  BY DEF Q
<1> HIDE DEF A
<1>3. A % 1 = 0
  BY <1>1
<1>4. gcd[<<A, 1>>] = IF 1 = 0 THEN A ELSE gcd[<<1, A % 1>>]
  BY <1>1, GcdIs
<1>5. gcd[<<1, 0>>] = IF 0 = 0 THEN 1 ELSE gcd[<<0, 1 % 0>>]
  BY <1>1, GcdIs
<1>6. gcd[<<A, 1>>] = 1
  BY <1>3, <1>4, <1>5
<1>7. n \div 1 = n /\ 1 \div 1 = 1
  OBVIOUS
<1> QED
  BY <1>2, <1>6, <1>7 DEF Whole

\* A quotient of any two integers is a rational.
LEMMA QRat == \A n \in Int, d \in Int : d # 0 => Q(n, d) \in Rat
<1> SUFFICES ASSUME NEW n \in Int, NEW d \in Int, d # 0 PROVE Q(n, d) \in Rat
  OBVIOUS
<1>1. CASE d > 0
  BY <1>1 DEF Rat
<1>2. CASE d < 0
  <2>1. -n \in Int /\ -d \in Nat \ {0} /\ -d \in Int /\ -d # 0 /\ n * (-d) = (-n) * d
    BY <1>2
  <2>2. Q(n, d) = Q(-n, -d)
    BY <2>1, QEqual
  <2> QED
    BY <2>1, <2>2 DEF Rat
<1> QED
  BY <1>1, <1>2

\* So is an integer.
LEMMA WholeRat == \A n \in Int : Whole(n) \in Rat
BY WholeIs, QRat

\* Every rational is a quotient with a positive denominator.
LEMMA RatIs ==
    ASSUME NEW x \in Rat
    PROVE  \E n \in Int, d \in Int : d > 0 /\ d # 0 /\ x = Q(n, d)
BY DEF Rat

\* The operations on quotients.
LEMMA AddQ ==
    ASSUME NEW n \in Int, NEW d \in Int, d # 0, NEW m \in Int, NEW e \in Int, e # 0
    PROVE  Add(Q(n, d), Q(m, e)) = Q(n * e + m * d, d * e)
<1> DEFINE a == Q(n, d)[1]
           b == Q(n, d)[2]
           p == Q(m, e)[1]
           q == Q(m, e)[2]
<1>1. a \in Int /\ b \in Int /\ b # 0 /\ p \in Int /\ q \in Int /\ q # 0
  BY QValue
<1>2. a * d = n * b /\ p * e = m * q
  BY QValue
<1>3. Add(Q(n, d), Q(m, e)) = Q(a * q + p * b, b * q)
  BY DEF Add
<1> HIDE DEF a, b, p, q
<1>4. (a * q + p * b) * (d * e) = (a * d) * (q * e) + (p * e) * (b * d)
  BY <1>1
<1>5. (n * e + m * d) * (b * q) = (n * b) * (q * e) + (m * q) * (b * d)
  BY <1>1
<1>6. (a * q + p * b) * (d * e) = (n * e + m * d) * (b * q)
  BY <1>2, <1>4, <1>5
<1>7. /\ a * q + p * b \in Int /\ b * q \in Int /\ b * q # 0
      /\ n * e + m * d \in Int /\ d * e \in Int /\ d * e # 0
  BY <1>1
<1> QED
  BY <1>3, <1>6, <1>7, QEqual

\* The difference of two quotients.
LEMMA MinusQ ==
    ASSUME NEW n \in Int, NEW d \in Int, d # 0, NEW m \in Int, NEW e \in Int, e # 0
    PROVE  Minus(Q(n, d), Q(m, e)) = Q(n * e - m * d, d * e)
<1> DEFINE a == Q(n, d)[1]
           b == Q(n, d)[2]
           p == Q(m, e)[1]
           q == Q(m, e)[2]
<1>1. a \in Int /\ b \in Int /\ b # 0 /\ p \in Int /\ q \in Int /\ q # 0
  BY QValue
<1>2. a * d = n * b /\ p * e = m * q
  BY QValue
<1>3. Minus(Q(n, d), Q(m, e)) = Q(a * q - p * b, b * q)
  BY DEF Minus
<1> HIDE DEF a, b, p, q
<1>4. (a * q - p * b) * (d * e) = (a * d) * (q * e) - (p * e) * (b * d)
  BY <1>1
<1>5. (n * e - m * d) * (b * q) = (n * b) * (q * e) - (m * q) * (b * d)
  BY <1>1
<1>6. (a * q - p * b) * (d * e) = (n * e - m * d) * (b * q)
  BY <1>2, <1>4, <1>5
<1>7. /\ a * q - p * b \in Int /\ b * q \in Int /\ b * q # 0
      /\ n * e - m * d \in Int /\ d * e \in Int /\ d * e # 0
  BY <1>1
<1> QED
  BY <1>3, <1>6, <1>7, QEqual

\* Their product.
LEMMA TimesQ ==
    ASSUME NEW n \in Int, NEW d \in Int, d # 0, NEW m \in Int, NEW e \in Int, e # 0
    PROVE  Times(Q(n, d), Q(m, e)) = Q(n * m, d * e)
<1> DEFINE a == Q(n, d)[1]
           b == Q(n, d)[2]
           p == Q(m, e)[1]
           q == Q(m, e)[2]
<1>1. a \in Int /\ b \in Int /\ b # 0 /\ p \in Int /\ q \in Int /\ q # 0
  BY QValue
<1>2. a * d = n * b /\ p * e = m * q
  BY QValue
<1>3. Times(Q(n, d), Q(m, e)) = Q(a * p, b * q)
  BY DEF Times
<1> HIDE DEF a, b, p, q
<1>4. (a * p) * (d * e) = (a * d) * (p * e)
  BY <1>1
<1>5. (n * m) * (b * q) = (n * b) * (m * q)
  BY <1>1
<1>6. (a * p) * (d * e) = (n * m) * (b * q)
  BY <1>2, <1>4, <1>5
<1>7. a * p \in Int /\ b * q \in Int /\ b * q # 0 /\ n * m \in Int /\ d * e \in Int /\ d * e # 0
  BY <1>1
<1> QED
  BY <1>3, <1>6, <1>7, QEqual

\* The quotient of two quotients.
LEMMA OverQ ==
    ASSUME NEW n \in Int, NEW d \in Int, d # 0,
           NEW m \in Int, m # 0, NEW e \in Int, e # 0
    PROVE  Over(Q(n, d), Q(m, e)) = Q(n * e, d * m)
<1> DEFINE a == Q(n, d)[1]
           b == Q(n, d)[2]
           p == Q(m, e)[1]
           q == Q(m, e)[2]
<1>1. a \in Int /\ b \in Int /\ b # 0 /\ p \in Int /\ q \in Int /\ q # 0
  BY QValue
<1>2. a * d = n * b /\ p * e = m * q
  BY QValue
<1>3. Over(Q(n, d), Q(m, e)) = Q(a * q, b * p)
  BY DEF Over
<1> HIDE DEF a, b, p, q
<1>4. (a * q) * (d * m) = (a * d) * (m * q)
  BY <1>1
<1>5. (n * e) * (b * p) = (n * b) * (p * e)
  BY <1>1
<1>6. (a * q) * (d * m) = (n * e) * (b * p)
  BY <1>2, <1>4, <1>5
<1>7. p # 0
  <2>1. m * q # 0
    BY <1>1
  <2> QED
    BY <1>2, <2>1
<1>8. a * q \in Int /\ b * p \in Int /\ b * p # 0 /\ n * e \in Int /\ d * m \in Int /\ d * m # 0
  BY <1>1, <1>7
<1> QED
  BY <1>3, <1>6, <1>8, QEqual

\* Two quotients compared.
LEMMA AtMostQ ==
    ASSUME NEW n \in Int, NEW d \in Int, d > 0, NEW m \in Int, NEW e \in Int, e > 0
    PROVE  AtMost(Q(n, d), Q(m, e)) <=> n * e <= m * d
<1> DEFINE a == Q(n, d)[1]
           b == Q(n, d)[2]
           p == Q(m, e)[1]
           q == Q(m, e)[2]
<1>1. a \in Int /\ b \in Int /\ b > 0 /\ p \in Int /\ q \in Int /\ q > 0
  BY QValue
<1>2. a * d = n * b /\ p * e = m * q
  BY QValue
<1>3. AtMost(Q(n, d), Q(m, e)) <=> a * q <= p * b
  BY DEF AtMost
<1> HIDE DEF a, b, p, q
<1> DEFINE k == d * e
           h == b * q
           l == a * q
           r == p * b
           u == n * e
           v == m * d
<1>4. l * k = u * h /\ r * k = v * h
  <2>1. (a * q) * (d * e) = (a * d) * (q * e)
    BY <1>1
  <2>2. (n * e) * (b * q) = (n * b) * (q * e)
    BY <1>1
  <2>3. (p * b) * (d * e) = (p * e) * (b * d)
    BY <1>1
  <2>4. (m * d) * (b * q) = (m * q) * (b * d)
    BY <1>1
  <2> QED
    BY <1>2, <2>1, <2>2, <2>3, <2>4
<1>5. k \in Int /\ k > 0 /\ h \in Int /\ h > 0 /\ l \in Int /\ r \in Int /\ u \in Int /\ v \in Int
  BY <1>1
<1> HIDE DEF k, h, l, r, u, v
<1>6. l <= r <=> l * k <= r * k
  BY <1>5
<1>7. u <= v <=> u * h <= v * h
  BY <1>5
<1>8. l <= r <=> u <= v
  BY <1>4, <1>6, <1>7
<1> QED
  BY <1>3, <1>8 DEF l, r, u, v

\* ... and found equal.
LEMMA SameQ ==
    ASSUME NEW n \in Int, NEW d \in Int, d # 0, NEW m \in Int, NEW e \in Int, e # 0,
           Q(n, d) = Q(m, e)
    PROVE  n * e = m * d
<1> DEFINE a == Q(n, d)[1]
           b == Q(n, d)[2]
<1>1. a \in Int /\ b \in Int /\ b # 0
  BY QValue
<1>2. a * d = n * b /\ a * e = m * b
  BY QValue
<1> HIDE DEF a, b
<1>3. (n * e) * b = (m * d) * b
  <2>1. (n * b) * e = (a * d) * e /\ (m * b) * d = (a * e) * d
    BY <1>2
  <2>2. (a * d) * e = (a * e) * d /\ (n * e) * b = (n * b) * e /\ (m * d) * b = (m * b) * d
    BY <1>1
  <2> QED
    BY <2>1, <2>2
<1> DEFINE u == n * e
           v == m * d
<1>4. u \in Int /\ v \in Int /\ u * b = v * b
  BY <1>3
<1> HIDE DEF u, v
<1>5. u = v
  BY <1>1, <1>4
<1> QED
  BY <1>5 DEF u, v

\* The rationals are closed under the operations ...
LEMMA Closed ==
    ASSUME NEW x \in Rat, NEW y \in Rat
    PROVE  /\ Add(x, y) \in Rat /\ Minus(x, y) \in Rat /\ Times(x, y) \in Rat
           /\ y # Whole(0) => Over(x, y) \in Rat
<1>1. PICK n \in Int, d \in Int : d # 0 /\ x = Q(n, d)
  BY RatIs
<1>2. PICK m \in Int, e \in Int : e # 0 /\ y = Q(m, e)
  BY RatIs
<1>3. d * e \in Int /\ d * e # 0 /\ n * e + m * d \in Int /\ n * e - m * d \in Int /\ n * m \in Int
  BY <1>1, <1>2
<1>4. Add(x, y) \in Rat /\ Minus(x, y) \in Rat /\ Times(x, y) \in Rat
  <2>1. Add(x, y) = Q(n * e + m * d, d * e)
    BY <1>1, <1>2, AddQ
  <2>2. Minus(x, y) = Q(n * e - m * d, d * e)
    BY <1>1, <1>2, MinusQ
  <2>3. Times(x, y) = Q(n * m, d * e)
    BY <1>1, <1>2, TimesQ
  <2> QED
    BY <1>3, <2>1, <2>2, <2>3, QRat
<1>5. ASSUME y # Whole(0) PROVE Over(x, y) \in Rat
  <2>1. m # 0
    <3> SUFFICES ASSUME m = 0 PROVE y = Whole(0)
      BY <1>5
    <3>1. 0 \in Int /\ 1 \in Int /\ 1 # 0 /\ m * 1 = 0 * e
      BY <1>2
    <3>2. Q(m, e) = Q(0, 1)
      BY <1>2, <3>1, QEqual
    <3> QED
      BY <1>2, <3>2, WholeIs
  <2>2. Over(x, y) = Q(n * e, d * m)
    BY <1>1, <1>2, <2>1, OverQ
  <2>3. n * e \in Int /\ d * m \in Int /\ d * m # 0
    BY <1>1, <1>2, <2>1
  <2> QED
    BY <2>2, <2>3, QRat
<1> QED
  BY <1>4, <1>5

\* ... which satisfy the laws of a ring.
LEMMA AddComm ==
    ASSUME NEW x \in Rat, NEW y \in Rat
    PROVE  Add(x, y) = Add(y, x)
<1>1. PICK n \in Int, d \in Int : d # 0 /\ x = Q(n, d)
  BY RatIs
<1>2. PICK m \in Int, e \in Int : e # 0 /\ y = Q(m, e)
  BY RatIs
<1>3. n * e + m * d \in Int /\ d * e \in Int /\ d * e # 0
  BY <1>1, <1>2
<1>4. Add(x, y) = Q(n * e + m * d, d * e)
  BY <1>1, <1>2, AddQ
<1>5. m * d + n * e \in Int /\ e * d \in Int /\ e * d # 0
  BY <1>1, <1>2
<1>6. Add(y, x) = Q(m * d + n * e, e * d)
  BY <1>1, <1>2, AddQ
<1>7. (n * e + m * d) * (e * d) = (m * d + n * e) * (d * e)
  BY <1>1, <1>2
<1> QED
  BY <1>1, <1>2, <1>3, <1>4, <1>5, <1>6, <1>7, QEqual

\* Sums associate.
LEMMA AddAssoc ==
    ASSUME NEW x \in Rat, NEW y \in Rat, NEW z \in Rat
    PROVE  Add(Add(x, y), z) = Add(x, Add(y, z))
<1>1. PICK n \in Int, d \in Int : d # 0 /\ x = Q(n, d)
  BY RatIs
<1>2. PICK m \in Int, e \in Int : e # 0 /\ y = Q(m, e)
  BY RatIs
<1>3. PICK k \in Int, h \in Int : h # 0 /\ z = Q(k, h)
  BY RatIs
<1>4. n * e + m * d \in Int /\ d * e \in Int /\ d * e # 0
  BY <1>1, <1>2, <1>3
<1>5. Add(x, y) = Q(n * e + m * d, d * e)
  BY <1>1, <1>2, <1>3, AddQ
<1>6. (n * e + m * d) * h + k * (d * e) \in Int /\ (d * e) * h \in Int /\ (d * e) * h # 0
  BY <1>1, <1>2, <1>3, <1>4, <1>5
<1>7. Add(Add(x, y), z) = Q((n * e + m * d) * h + k * (d * e), (d * e) * h)
  BY <1>1, <1>2, <1>3, <1>4, <1>5, AddQ
<1>8. m * h + k * e \in Int /\ e * h \in Int /\ e * h # 0
  BY <1>1, <1>2, <1>3
<1>9. Add(y, z) = Q(m * h + k * e, e * h)
  BY <1>1, <1>2, <1>3, AddQ
<1>10. n * (e * h) + (m * h + k * e) * d \in Int /\ d * (e * h) \in Int /\ d * (e * h) # 0
  BY <1>1, <1>2, <1>3, <1>8, <1>9
<1>11. Add(x, Add(y, z)) = Q(n * (e * h) + (m * h + k * e) * d, d * (e * h))
  BY <1>1, <1>2, <1>3, <1>8, <1>9, AddQ
<1>12. ((n * e + m * d) * h + k * (d * e)) * (d * (e * h)) = (n * (e * h) + (m * h + k * e) * d) * ((d * e) * h)
  BY <1>1, <1>2, <1>3
<1> QED
  BY <1>1, <1>2, <1>3, <1>6, <1>7, <1>10, <1>11, <1>12, QEqual

\* Products commute.
LEMMA TimesComm ==
    ASSUME NEW x \in Rat, NEW y \in Rat
    PROVE  Times(x, y) = Times(y, x)
<1>1. PICK n \in Int, d \in Int : d # 0 /\ x = Q(n, d)
  BY RatIs
<1>2. PICK m \in Int, e \in Int : e # 0 /\ y = Q(m, e)
  BY RatIs
<1>3. n * m \in Int /\ d * e \in Int /\ d * e # 0
  BY <1>1, <1>2
<1>4. Times(x, y) = Q(n * m, d * e)
  BY <1>1, <1>2, TimesQ
<1>5. m * n \in Int /\ e * d \in Int /\ e * d # 0
  BY <1>1, <1>2
<1>6. Times(y, x) = Q(m * n, e * d)
  BY <1>1, <1>2, TimesQ
<1>7. (n * m) * (e * d) = (m * n) * (d * e)
  BY <1>1, <1>2
<1> QED
  BY <1>1, <1>2, <1>3, <1>4, <1>5, <1>6, <1>7, QEqual

\* Products associate.
LEMMA TimesAssoc ==
    ASSUME NEW x \in Rat, NEW y \in Rat, NEW z \in Rat
    PROVE  Times(Times(x, y), z) = Times(x, Times(y, z))
<1>1. PICK n \in Int, d \in Int : d # 0 /\ x = Q(n, d)
  BY RatIs
<1>2. PICK m \in Int, e \in Int : e # 0 /\ y = Q(m, e)
  BY RatIs
<1>3. PICK k \in Int, h \in Int : h # 0 /\ z = Q(k, h)
  BY RatIs
<1>4. n * m \in Int /\ d * e \in Int /\ d * e # 0
  BY <1>1, <1>2, <1>3
<1>5. Times(x, y) = Q(n * m, d * e)
  BY <1>1, <1>2, <1>3, TimesQ
<1>6. (n * m) * k \in Int /\ (d * e) * h \in Int /\ (d * e) * h # 0
  BY <1>1, <1>2, <1>3, <1>4, <1>5
<1>7. Times(Times(x, y), z) = Q((n * m) * k, (d * e) * h)
  BY <1>1, <1>2, <1>3, <1>4, <1>5, TimesQ
<1>8. m * k \in Int /\ e * h \in Int /\ e * h # 0
  BY <1>1, <1>2, <1>3
<1>9. Times(y, z) = Q(m * k, e * h)
  BY <1>1, <1>2, <1>3, TimesQ
<1>10. n * (m * k) \in Int /\ d * (e * h) \in Int /\ d * (e * h) # 0
  BY <1>1, <1>2, <1>3, <1>8, <1>9
<1>11. Times(x, Times(y, z)) = Q(n * (m * k), d * (e * h))
  BY <1>1, <1>2, <1>3, <1>8, <1>9, TimesQ
<1>12. ((n * m) * k) * (d * (e * h)) = (n * (m * k)) * ((d * e) * h)
  BY <1>1, <1>2, <1>3
<1> QED
  BY <1>1, <1>2, <1>3, <1>6, <1>7, <1>10, <1>11, <1>12, QEqual

\* Products distribute over sums.
LEMMA Distribute ==
    ASSUME NEW x \in Rat, NEW y \in Rat, NEW z \in Rat
    PROVE  Times(Add(x, y), z) = Add(Times(x, z), Times(y, z))
<1>1. PICK n \in Int, d \in Int : d # 0 /\ x = Q(n, d)
  BY RatIs
<1>2. PICK m \in Int, e \in Int : e # 0 /\ y = Q(m, e)
  BY RatIs
<1>3. PICK k \in Int, h \in Int : h # 0 /\ z = Q(k, h)
  BY RatIs
<1>4. n * e + m * d \in Int /\ d * e \in Int /\ d * e # 0
  BY <1>1, <1>2, <1>3
<1>5. Add(x, y) = Q(n * e + m * d, d * e)
  BY <1>1, <1>2, <1>3, AddQ
<1>6. (n * e + m * d) * k \in Int /\ (d * e) * h \in Int /\ (d * e) * h # 0
  BY <1>1, <1>2, <1>3, <1>4, <1>5
<1>7. Times(Add(x, y), z) = Q((n * e + m * d) * k, (d * e) * h)
  BY <1>1, <1>2, <1>3, <1>4, <1>5, TimesQ
<1>8. n * k \in Int /\ d * h \in Int /\ d * h # 0
  BY <1>1, <1>2, <1>3
<1>9. Times(x, z) = Q(n * k, d * h)
  BY <1>1, <1>2, <1>3, TimesQ
<1>10. m * k \in Int /\ e * h \in Int /\ e * h # 0
  BY <1>1, <1>2, <1>3
<1>11. Times(y, z) = Q(m * k, e * h)
  BY <1>1, <1>2, <1>3, TimesQ
<1>12. (n * k) * (e * h) + (m * k) * (d * h) \in Int /\ (d * h) * (e * h) \in Int /\ (d * h) * (e * h) # 0
  BY <1>1, <1>2, <1>3, <1>8, <1>9, <1>10, <1>11
<1>13. Add(Times(x, z), Times(y, z)) = Q((n * k) * (e * h) + (m * k) * (d * h), (d * h) * (e * h))
  BY <1>1, <1>2, <1>3, <1>8, <1>9, <1>10, <1>11, AddQ
<1>14. ((n * e + m * d) * k) * ((d * h) * (e * h)) = ((n * k) * (e * h) + (m * k) * (d * h)) * ((d * e) * h)
  BY <1>1, <1>2, <1>3
<1> QED
  BY <1>1, <1>2, <1>3, <1>6, <1>7, <1>12, <1>13, <1>14, QEqual

\* Adding nothing.
LEMMA AddZero ==
    ASSUME NEW x \in Rat
    PROVE  Add(x, Whole(0)) = x
<1>1. PICK n \in Int, d \in Int : d # 0 /\ x = Q(n, d)
  BY RatIs
<1>2. Whole(0) = Q(0, 1) /\ 0 \in Int /\ 1 \in Int /\ 1 # 0
  BY WholeIs
<1>3. n * 1 + 0 * d \in Int /\ d * 1 \in Int /\ d * 1 # 0
  BY <1>1, <1>2
<1>4. Add(x, Whole(0)) = Q(n * 1 + 0 * d, d * 1)
  BY <1>1, <1>2, AddQ
<1>5. (n * 1 + 0 * d) * (d) = (n) * (d * 1)
  BY <1>1
<1> QED
  BY <1>1, <1>3, <1>4, <1>5, QEqual

\* Once.
LEMMA TimesOne ==
    ASSUME NEW x \in Rat
    PROVE  Times(x, Whole(1)) = x
<1>1. PICK n \in Int, d \in Int : d # 0 /\ x = Q(n, d)
  BY RatIs
<1>2. Whole(1) = Q(1, 1) /\ 1 \in Int /\ 1 \in Int /\ 1 # 0
  BY WholeIs
<1>3. n * 1 \in Int /\ d * 1 \in Int /\ d * 1 # 0
  BY <1>1, <1>2
<1>4. Times(x, Whole(1)) = Q(n * 1, d * 1)
  BY <1>1, <1>2, TimesQ
<1>5. (n * 1) * (d) = (n) * (d * 1)
  BY <1>1
<1> QED
  BY <1>1, <1>3, <1>4, <1>5, QEqual

\* Never.
LEMMA TimesZero ==
    ASSUME NEW x \in Rat
    PROVE  Times(x, Whole(0)) = Whole(0)
<1>1. PICK n \in Int, d \in Int : d # 0 /\ x = Q(n, d)
  BY RatIs
<1>2. Whole(0) = Q(0, 1) /\ 0 \in Int /\ 1 \in Int /\ 1 # 0
  BY WholeIs
<1>3. n * 0 \in Int /\ d * 1 \in Int /\ d * 1 # 0
  BY <1>1, <1>2
<1>4. Times(x, Whole(0)) = Q(n * 0, d * 1)
  BY <1>1, <1>2, TimesQ
<1>5. (n * 0) * (1) = (0) * (d * 1)
  BY <1>1
<1> QED
  BY <1>1, <1>3, <1>4, <1>2, <1>5, QEqual

-----------------------------------------------------------------------------
(* Recursion over the days.                                                 *)

\* f is computed from its first value, a step at a time.
Computes(f, lo, hi, base, step) ==
    \A i \in lo .. hi : f[i] = IF i = lo THEN base ELSE step[<<i, f[i - 1]>>]

\* A function can be defined by its first value and a step.
LEMMA Recursion ==
    ASSUME NEW lo \in Int, NEW hi \in Int, lo <= hi, NEW V, NEW base \in V,
           NEW step \in [(lo .. hi) \X V -> V]
    PROVE  \E f \in [lo .. hi -> V] : Computes(f, lo, hi, base, step)
<1> DEFINE T == {n \in Nat : lo + n <= hi =>
                    \E f \in [lo .. lo + n -> V] : Computes(f, lo, lo + n, base, step)}
<1>1. ASSUME NEW n \in Nat, \A k \in Nat : k < n => k \in T
      PROVE  n \in T
  <2> SUFFICES ASSUME lo + n <= hi
               PROVE  \E f \in [lo .. lo + n -> V] : Computes(f, lo, lo + n, base, step)
    OBVIOUS
  <2>1. CASE n = 0
    <3> DEFINE f == [i \in lo .. lo + n |-> base]
    <3>1. f \in [lo .. lo + n -> V]
      OBVIOUS
    <3>2. \A i \in lo .. lo + n : i = lo /\ f[i] = base
      BY <2>1
    <3>3. Computes(f, lo, lo + n, base, step)
      BY <3>2 DEF Computes
    <3> QED
      BY <3>1, <3>3
  <2>2. CASE n # 0
    <3> DEFINE top == lo + n
    <3>1. n - 1 \in Nat /\ n - 1 < n /\ lo + (n - 1) = top - 1 /\ lo + (n - 1) <= hi
      BY <2>2
    <3>2. PICK f \in [lo .. top - 1 -> V] : Computes(f, lo, top - 1, base, step)
      BY <1>1, <3>1
    <3>3. /\ top \in Int /\ top \in lo .. hi /\ top - 1 \in lo .. top - 1 /\ top # lo
          /\ top \in lo .. top
      BY <2>2
    <3> HIDE DEF top
    <3> DEFINE g == [i \in lo .. top |-> IF i = top THEN step[<<top, f[top - 1]>>] ELSE f[i]]
    <3>4. \A i \in lo .. top : i # top => i \in lo .. top - 1
      BY <3>3
    <3>5. f[top - 1] \in V /\ step[<<top, f[top - 1]>>] \in V
      BY <3>3
    <3>6. g \in [lo .. top -> V]
      BY <3>4, <3>5
    <3>7. Computes(g, lo, top, base, step)
      <4> SUFFICES ASSUME NEW i \in lo .. top
                   PROVE  g[i] = IF i = lo THEN base ELSE step[<<i, g[i - 1]>>]
        BY DEF Computes
      <4>1. CASE i = top
        <5>1. top - 1 \in lo .. top /\ top - 1 # top
          BY <3>3
        <5>2. g[top - 1] = f[top - 1] /\ g[top] = step[<<top, f[top - 1]>>]
          BY <3>3, <5>1
        <5> QED
          BY <3>3, <4>1, <5>2
      <4>2. CASE i # top
        <5>1. i \in lo .. top - 1 /\ i \in Int
          BY <3>3, <3>4, <4>2
        <5>2. f[i] = IF i = lo THEN base ELSE step[<<i, f[i - 1]>>]
          BY <3>2, <5>1 DEF Computes
        <5>3. g[i] = f[i]
          BY <4>2
        <5>4. i # lo => i - 1 \in lo .. top /\ i - 1 # top
          BY <3>3, <5>1
        <5>5. i # lo => g[i - 1] = f[i - 1]
          BY <5>4
        <5> QED
          BY <5>2, <5>3, <5>5
      <4> QED
        BY <4>1, <4>2
    <3> QED
      BY <3>6, <3>7 DEF top
  <2> QED
    BY <2>1, <2>2
<1> HIDE DEF T
<1>2. T \in SUBSET Nat
  BY DEF T
<1>3. \A n \in Nat : n \in T
  BY <1>1, <1>2, Induction
<1>4. hi - lo \in Nat /\ lo + (hi - lo) = hi
  OBVIOUS
<1>5. hi - lo \in T
  BY <1>3, <1>4
<1> QED
  BY <1>4, <1>5 DEF T

\* A sequence of numbers or rationals.
LEMMA SumsIs ==
    ASSUME NEW v, Len(v) \in Nat, \A i \in 1 .. Len(v) : v[i] \in Int
    PROVE  /\ Sums(v) \in [0 .. Len(v) -> Int]
           /\ Sums(v)[0] = 0
           /\ \A i \in 1 .. Len(v) : Sums(v)[i] = Sums(v)[i - 1] + v[i]
<1> DEFINE n == Len(v)
           step == [p \in (0 .. n) \X Int |-> IF p[1] \in 1 .. n THEN p[2] + v[p[1]] ELSE 0]
<1>1. step \in [(0 .. n) \X Int -> Int]
  OBVIOUS
<1>2. \A i \in 1 .. n, x \in Int : step[<<i, x>>] = x + v[i]
  OBVIOUS
<1>3. 0 \in Int /\ n \in Int /\ 0 <= n
  OBVIOUS
<1> HIDE DEF n, step
<1>4. PICK f \in [0 .. n -> Int] : Computes(f, 0, n, 0, step)
  BY <1>1, <1>3, Recursion
<1>5. \A i \in 0 .. n : f[i] = IF i = 0 THEN 0 ELSE f[i - 1] + v[i]
  <2> SUFFICES ASSUME NEW i \in 0 .. n PROVE f[i] = IF i = 0 THEN 0 ELSE f[i - 1] + v[i]
    OBVIOUS
  <2>1. f[i] = IF i = 0 THEN 0 ELSE step[<<i, f[i - 1]>>]
    BY <1>4 DEF Computes
  <2>2. i # 0 => i \in 1 .. n /\ i - 1 \in 0 .. n
    BY <1>3
  <2>3. i # 0 => f[i - 1] \in Int
    BY <2>2
  <2> QED
    BY <1>2, <2>1, <2>2, <2>3
<1>6. f = [i \in 0 .. n |-> IF i = 0 THEN 0 ELSE f[i - 1] + v[i]]
  BY <1>5
<1>7. \E g : g = [i \in 0 .. n |-> IF i = 0 THEN 0 ELSE g[i - 1] + v[i]]
  BY <1>6
<1>8. Sums(v) = [i \in 0 .. n |-> IF i = 0 THEN 0 ELSE Sums(v)[i - 1] + v[i]]
  BY <1>7 DEF Sums, n
<1> DEFINE s == Sums(v)
<1> HIDE DEF s
<1>9. s = [i \in 0 .. n |-> IF i = 0 THEN 0 ELSE s[i - 1] + v[i]]
  BY <1>8 DEF s
<1>10. s[0] = 0 /\ \A i \in 1 .. n : s[i] = s[i - 1] + v[i]
  <2>1. 0 \in 0 .. n
    BY <1>3
  <2>2. s[0] = 0
    BY <1>9, <2>1
  <2>3. ASSUME NEW i \in 1 .. n PROVE s[i] = s[i - 1] + v[i]
    <3>1. i \in 0 .. n /\ i # 0
      BY <1>3
    <3> QED
      BY <1>9, <3>1
  <2> QED
    BY <2>2, <2>3
<1>11. \A i \in 0 .. n : s[i] \in Int
  <2> DEFINE T == {i \in Nat : i <= n => s[i] \in Int}
  <2>1. ASSUME NEW i \in Nat, \A k \in Nat : k < i => k \in T PROVE i \in T
    <3>1. CASE i = 0
      BY <1>10, <3>1
    <3>2. CASE i # 0 /\ i <= n
      <4>1. i - 1 \in Nat /\ i - 1 < i /\ i - 1 <= n /\ i \in 1 .. n
        BY <1>3, <3>2
      <4>2. s[i - 1] \in Int
        BY <2>1, <4>1
      <4>3. v[i] \in Int
        BY <4>1 DEF n
      <4> QED
        BY <1>10, <4>1, <4>2, <4>3
    <3> QED
      BY <3>1, <3>2
  <2> HIDE DEF T
  <2>2. T \in SUBSET Nat
    BY DEF T
  <2>3. \A i \in Nat : i \in T
    BY <2>1, <2>2, Induction
  <2> QED
    BY <1>3, <2>3 DEF T
<1>12. s \in [0 .. n -> Int]
  BY <1>9, <1>11
<1> QED
  BY <1>10, <1>12 DEF s, n

\* Induction along an interval.
LEMMA Along ==
    ASSUME NEW lo \in Int, NEW hi \in Int, NEW T, lo \in T,
           \A i \in lo .. hi : i # lo /\ i - 1 \in T => i \in T
    PROVE  \A i \in lo .. hi : i \in T
<1> DEFINE S == {n \in Nat : lo + n <= hi => lo + n \in T}
<1>1. ASSUME NEW n \in Nat, \A k \in Nat : k < n => k \in S PROVE n \in S
  <2>1. CASE n = 0
    <3>1. lo + n = lo
      BY <2>1
    <3> QED
      BY <3>1
  <2>2. CASE n # 0 /\ lo + n <= hi
    <3>1. /\ n - 1 \in Nat /\ n - 1 < n /\ lo + (n - 1) <= hi
          /\ lo + (n - 1) = (lo + n) - 1 /\ lo + n \in lo .. hi /\ lo + n # lo
      BY <2>2
    <3>2. lo + (n - 1) \in T
      BY <1>1, <3>1
    <3>3. (lo + n) - 1 \in T
      BY <3>1, <3>2
    <3>4. lo + n \in T
      BY <3>1, <3>3
    <3> QED
      BY <3>4
  <2> QED
    BY <2>1, <2>2
<1> HIDE DEF S
<1>2. S \in SUBSET Nat
  BY DEF S
<1>3. \A n \in Nat : n \in S
  BY <1>1, <1>2, Induction
<1> SUFFICES ASSUME NEW i \in lo .. hi PROVE i \in T
  OBVIOUS
<1>4. i - lo \in Nat /\ lo + (i - lo) = i /\ i <= hi
  OBVIOUS
<1>5. i - lo \in S
  BY <1>3, <1>4
<1> QED
  BY <1>4, <1>5 DEF S

\* The sums of rationals.
LEMMA TotalsIs ==
    ASSUME NEW v, Len(v) \in Nat, \A i \in 1 .. Len(v) : v[i] \in Rat
    PROVE  /\ Totals(v) \in [0 .. Len(v) -> Rat]
           /\ Totals(v)[0] = Whole(0)
           /\ \A i \in 1 .. Len(v) : Totals(v)[i] = Add(Totals(v)[i - 1], v[i])
<1> DEFINE n == Len(v)
           zero == Whole(0)
           step == [p \in (0 .. n) \X Rat |-> IF p[1] \in 1 .. n THEN Add(p[2], v[p[1]]) ELSE zero]
<1>1. zero \in Rat
  BY WholeRat
<1>2. /\ step \in [(0 .. n) \X Rat -> Rat]
      /\ \A i \in 1 .. n, x \in Rat : step[<<i, x>>] = Add(x, v[i])
  BY <1>1, Closed
<1>3. 0 \in Int /\ n \in Int /\ 0 <= n /\ 0 + 1 = 1
  OBVIOUS
<1> HIDE DEF n, step
<1>4. PICK f \in [0 .. n -> Rat] : Computes(f, 0, n, zero, step)
  BY <1>1, <1>2, <1>3, Recursion
<1>5. \A i \in 0 .. n : f[i] = IF i = 0 THEN zero ELSE Add(f[i - 1], v[i])
  <2> SUFFICES ASSUME NEW i \in 0 .. n PROVE f[i] = IF i = 0 THEN zero ELSE Add(f[i - 1], v[i])
    OBVIOUS
  <2>1. f[i] = IF i = 0 THEN zero ELSE step[<<i, f[i - 1]>>]
    BY <1>4 DEF Computes
  <2>2. i # 0 => i \in 1 .. n /\ i - 1 \in 0 .. n
    BY <1>3
  <2>3. i # 0 => f[i - 1] \in Rat
    BY <2>2
  <2> QED
    BY <1>2, <2>1, <2>2, <2>3
<1>6. f = [i \in 0 .. n |-> IF i = 0 THEN Whole(0) ELSE Add(f[i - 1], v[i])]
  BY <1>5
<1>7. \E g : g = [i \in 0 .. n |-> IF i = 0 THEN Whole(0) ELSE Add(g[i - 1], v[i])]
  BY <1>6
<1> DEFINE s == Totals(v)
<1>8. s = [i \in 0 .. n |-> IF i = 0 THEN Whole(0) ELSE Add(s[i - 1], v[i])]
  BY <1>7 DEF Totals, n
<1> HIDE DEF s
<1>9. s[0] = Whole(0) /\ \A i \in 1 .. n : s[i] = Add(s[i - 1], v[i])
  <2>1. 0 \in 0 .. n /\ \A i \in 1 .. n : i \in 0 .. n /\ i # 0
    BY <1>3
  <2> QED
    BY <1>8, <2>1
<1>10. \A i \in 0 .. n : s[i] \in Rat
  <2> DEFINE T == {i \in Int : s[i] \in Rat}
  <2>1. 0 \in T
    BY <1>1, <1>9
  <2>2. ASSUME NEW i \in 0 .. n, i # 0, i - 1 \in T PROVE i \in T
    <3>0. i \in 1 .. n /\ s[i - 1] \in Rat
      BY <1>3, <2>2
    <3>1. v[i] \in Rat
      BY <3>0 DEF n
    <3>2. s[i] = Add(s[i - 1], v[i])
      BY <1>9, <3>0
    <3> QED
      BY <3>0, <3>1, <3>2, Closed
  <2> HIDE DEF T
  <2>3. \A i \in 0 .. n : i \in T
    BY <1>3, <2>1, <2>2, Along
  <2> QED
    BY <2>3 DEF T
<1>11. s \in [0 .. n -> Rat]
  BY <1>8, <1>10
<1> QED
  BY <1>9, <1>11 DEF s, n

\* A sum over a part of a sequence.
LEMMA PartSum ==
    ASSUME NEW v \in Seq(Int), NEW a \in 1 .. Len(v), NEW b \in a .. Len(v)
    PROVE  /\ SubSeq(v, a, b) \in Seq(Int) /\ Len(SubSeq(v, a, b)) = b - a + 1
           /\ Sum(SubSeq(v, a, b)) = Sums(v)[b] - Sums(v)[a - 1]
<1> DEFINE w == SubSeq(v, a, b)
           c == a - 1
           k == b - c
           n == Len(v)
           s == Sums(v)
           t == Sums(w)
<1>1. /\ n \in Nat /\ c \in Nat /\ c < b /\ b <= n /\ k \in Nat /\ k \in Int /\ 0 \in Int
      /\ c + k = b /\ k = b - a + 1
  OBVIOUS
<1>2. w \in Seq(Int) /\ Len(w) = k /\ \A i \in 1 .. k : w[i] = v[c + i]
  OBVIOUS
<1>3. \A i \in 1 .. n : v[i] \in Int
  OBVIOUS
<1>4. /\ s \in [0 .. n -> Int]
      /\ \A i \in 1 .. n : s[i] = s[i - 1] + v[i]
  BY <1>1, <1>3, SumsIs
<1>5. Sum(w) = t[k]
  BY <1>2 DEF Sum
<1> HIDE DEF w, c, k, n, s
<1>6. \A i \in 1 .. k : w[i] \in Int /\ c + i \in 1 .. n
  BY <1>1, <1>2
<1>7. /\ t \in [0 .. k -> Int] /\ t[0] = 0
      /\ \A i \in 1 .. k : t[i] = t[i - 1] + w[i]
  BY <1>1, <1>2, <1>6, SumsIs
<1> HIDE DEF t
<1> DEFINE T == {i \in Int : t[i] = s[c + i] - s[c]}
<1>8. \A i \in 0 .. k : c + i \in 0 .. n /\ s[c + i] \in Int
  <2> SUFFICES ASSUME NEW i \in 0 .. k PROVE c + i \in 0 .. n /\ s[c + i] \in Int
    OBVIOUS
  <2>1. c + i \in 0 .. n
    BY <1>1
  <2> QED
    BY <1>4, <2>1
<1>9. 0 \in T
  <2>1. c + 0 = c /\ 0 \in 0 .. k
    BY <1>1
  <2>2. s[c] \in Int
    BY <1>8, <2>1
  <2> QED
    BY <1>7, <2>1, <2>2
<1>10. ASSUME NEW i \in 0 .. k, i # 0, i - 1 \in T PROVE i \in T
  <2>0. i \in 1 .. k /\ t[i - 1] = s[c + (i - 1)] - s[c]
    BY <1>1, <1>10
  <2>1. i - 1 \in 0 .. k /\ 0 \in 0 .. k /\ c + (i - 1) = (c + i) - 1 /\ c + 0 = c
    BY <1>1, <2>0
  <2>2. s[c + i] = s[c + (i - 1)] + v[c + i]
    BY <1>4, <1>6, <2>0, <2>1
  <2>3. t[i] = t[i - 1] + v[c + i]
    BY <1>2, <1>7, <2>0
  <2>4. s[c + (i - 1)] \in Int /\ s[c] \in Int /\ v[c + i] \in Int
    BY <1>3, <1>6, <1>8, <2>0, <2>1
  <2>5. t[i] = s[c + i] - s[c]
    BY <2>0, <2>2, <2>3, <2>4
  <2> QED
    BY <2>5
<1> HIDE DEF T
<1>11. \A i \in 0 .. k : i \in T
  BY <1>1, <1>9, <1>10, Along
<1>12. k \in T
  BY <1>1, <1>11
<1>13. t[k] = s[b] - s[c]
  BY <1>1, <1>12 DEF T
<1> QED
  BY <1>1, <1>2, <1>5, <1>13 DEF w, s, c

\* The running sum of Moving.
Running(v, window) ==
    LET sum[i \in 0 .. Len(v)] ==
            IF i = 0 THEN 0
            ELSE sum[i - 1] + v[i] - (IF i > window THEN v[i - window] ELSE 0)
    IN  sum

\* Dropping the element that leaves the window keeps the sum of the window.
LEMMA RunningIs ==
    ASSUME NEW v \in Seq(Int), NEW window \in Nat, window # 0
    PROVE  \A i \in 0 .. Len(v) :
              Running(v, window)[i] = Sums(v)[i] - (IF i > window THEN Sums(v)[i - window] ELSE 0)
<1> DEFINE n == Len(v)
           s == Sums(v)
           f == [i \in 0 .. n |-> s[i] - (IF i > window THEN s[i - window] ELSE 0)]
           r == Running(v, window)
<1>1. n \in Nat /\ n \in Int /\ 0 \in Int /\ \A i \in 1 .. n : v[i] \in Int
  OBVIOUS
<1>2. /\ s \in [0 .. n -> Int] /\ s[0] = 0
      /\ \A i \in 1 .. n : s[i] = s[i - 1] + v[i]
  BY <1>1, SumsIs
<1> HIDE DEF n, s
<1>3. ASSUME NEW i \in 0 .. n
      PROVE  f[i] = IF i = 0 THEN 0
                    ELSE f[i - 1] + v[i] - (IF i > window THEN v[i - window] ELSE 0)
  <2>1. f[i] = s[i] - (IF i > window THEN s[i - window] ELSE 0)
    OBVIOUS
  <2>2. CASE i = 0
    BY <1>2, <2>1, <2>2
  <2>3. CASE i # 0
    <3>1. i \in 1 .. n /\ i - 1 \in 0 .. n
      BY <1>1, <2>3
    <3>2. f[i - 1] = s[i - 1] - (IF i - 1 > window THEN s[(i - 1) - window] ELSE 0)
      BY <3>1
    <3>3. s[i] = s[i - 1] + v[i] /\ s[i - 1] \in Int /\ v[i] \in Int
      BY <1>1, <1>2, <3>1
    <3> HIDE DEF f
    <3>4. CASE i > window
      <4>1. i - window \in 1 .. n /\ (i - window) - 1 \in 0 .. n /\ (i - 1) - window = (i - window) - 1
        BY <1>1, <3>1, <3>4
      <4>2. /\ s[i - window] = s[(i - window) - 1] + v[i - window]
            /\ s[(i - window) - 1] \in Int /\ v[i - window] \in Int
        BY <1>1, <1>2, <4>1
      <4>3. i - 1 > window \/ (i - window) - 1 = 0
        BY <3>1, <3>4
      <4>4. f[i - 1] = s[i - 1] - s[(i - window) - 1]
        BY <1>2, <3>2, <3>3, <4>1, <4>3
      <4> QED
        BY <2>1, <2>3, <3>3, <3>4, <4>2, <4>4
    <3>5. CASE ~(i > window)
      <4>1. ~(i - 1 > window)
        BY <3>1, <3>5
      <4>2. f[i - 1] = s[i - 1]
        BY <3>2, <3>3, <4>1
      <4> QED
        BY <2>1, <2>3, <3>3, <3>5, <4>2
    <3> QED
      BY <3>4, <3>5
  <2> QED
    BY <2>2, <2>3
<1>4. f = [i \in 0 .. n |-> IF i = 0 THEN 0
                            ELSE f[i - 1] + v[i] - (IF i > window THEN v[i - window] ELSE 0)]
  <2>1. f = [i \in 0 .. n |-> f[i]]
    OBVIOUS
  <2> HIDE DEF f
  <2> QED
    BY <1>3, <2>1
<1>5. \A i \in 0 .. n : f[i] = s[i] - (IF i > window THEN s[i - window] ELSE 0)
  OBVIOUS
<1> HIDE DEF f
<1>6. \E g : g = [i \in 0 .. n |-> IF i = 0 THEN 0
                                   ELSE g[i - 1] + v[i] - (IF i > window THEN v[i - window] ELSE 0)]
  BY <1>4
<1>7. r = [i \in 0 .. n |-> IF i = 0 THEN 0
                            ELSE r[i - 1] + v[i] - (IF i > window THEN v[i - window] ELSE 0)]
  BY <1>6 DEF Running, n
<1> HIDE DEF r
<1> DEFINE T == {i \in Int : r[i] = f[i]}
<1>8. 0 \in T
  <2>1. 0 \in 0 .. n
    BY <1>1
  <2>2. r[0] = 0
    BY <1>7, <2>1
  <2>3. f[0] = 0
    BY <1>3, <2>1
  <2> QED
    BY <2>2, <2>3
<1>9. ASSUME NEW i \in 0 .. n, i # 0, i - 1 \in T PROVE i \in T
  <2>1. i # 0 /\ r[i - 1] = f[i - 1]
    BY <1>9
  <2>2. r[i] = r[i - 1] + v[i] - (IF i > window THEN v[i - window] ELSE 0)
    BY <1>7, <2>1
  <2>3. f[i] = f[i - 1] + v[i] - (IF i > window THEN v[i - window] ELSE 0)
    BY <1>3, <2>1
  <2> QED
    BY <2>1, <2>2, <2>3
<1> HIDE DEF T
<1>10. \A i \in 0 .. n : i \in T
  BY <1>1, <1>8, <1>9, Along
<1>11. \A i \in 0 .. n : r[i] = f[i]
  BY <1>10 DEF T
<1> QED
  BY <1>5, <1>11 DEF r, n, s

\* The rolling mean: the mean of each window.
LEMMA MovingIs ==
    ASSUME NEW v \in Seq(Int), NEW window \in Nat, window # 0, window <= Len(v)
    PROVE  /\ Moving(v, window) \in [1 .. Len(v) - window + 1 -> Rat]
           /\ \A i \in 1 .. Len(v) - window + 1 :
                 Moving(v, window)[i] = Q(Sum(SubSeq(v, i, i + window - 1)), window)
<1> DEFINE n == Len(v)
           m == n - window + 1
           r == Running(v, window)
           s == Sums(v)
<1>1. n \in Nat /\ m \in Nat /\ \A i \in 1 .. n : v[i] \in Int
  OBVIOUS
<1>2. s \in [0 .. n -> Int] /\ s[0] = 0
  BY <1>1, SumsIs
<1>3. Moving(v, window) = [i \in 1 .. m |-> Q(r[i + window - 1], window)]
  BY Zenon DEF Moving, Running
<1>4. \A i \in 0 .. n : r[i] = s[i] - (IF i > window THEN s[i - window] ELSE 0)
  BY RunningIs
<1> HIDE DEF r, s
<1>5. ASSUME NEW i \in 1 .. m
      PROVE  /\ r[i + window - 1] = Sum(SubSeq(v, i, i + window - 1))
             /\ r[i + window - 1] \in Int
  <2> DEFINE b == i + window - 1
  <2>1. /\ i \in 1 .. n /\ b \in i .. n /\ b \in 0 .. n /\ i - 1 \in 0 .. n
        /\ b - window = i - 1 /\ (b > window \/ b - window = 0)
    BY <1>1
  <2>2. Sum(SubSeq(v, i, b)) = s[b] - s[i - 1]
    BY <2>1, PartSum DEF s
  <2>3. r[b] = s[b] - (IF b > window THEN s[b - window] ELSE 0)
    BY <1>4, <2>1
  <2>4. s[b] \in Int /\ s[i - 1] \in Int
    BY <1>2, <2>1
  <2> HIDE DEF b
  <2>5. r[b] = s[b] - s[i - 1]
    BY <1>2, <2>1, <2>3
  <2>6. r[b] = Sum(SubSeq(v, i, b)) /\ r[b] \in Int
    BY <2>2, <2>4, <2>5
  <2> QED
    BY <2>6 DEF b
<1>6. window \in Int
  OBVIOUS
<1> HIDE DEF m
<1>7. \A i \in 1 .. m : Q(r[i + window - 1], window) \in Rat
  BY <1>5, <1>6, QRat
<1> QED
  BY <1>3, <1>5, <1>7 DEF m

\* An average that a new value enters with the weight alpha.
Averaged(x, a, alpha) == Add(Times(Whole(x), alpha), Times(a, Minus(Whole(1), alpha)))

\* It is a rational again.
LEMMA AveragedRat ==
    ASSUME NEW x \in Int, NEW a \in Rat, NEW alpha \in Rat
    PROVE  Averaged(x, a, alpha) \in Rat
<1>1. Whole(x) \in Rat /\ Whole(1) \in Rat
  BY WholeRat
<1>2. Times(Whole(x), alpha) \in Rat /\ Minus(Whole(1), alpha) \in Rat
  BY <1>1, Closed
<1>3. Times(a, Minus(Whole(1), alpha)) \in Rat
  BY <1>2, Closed
<1> QED
  BY <1>2, <1>3, Closed DEF Averaged

\* The series of EMA.
Exponential(p, window) ==
    LET sma == SMA(p, window)
        alpha == Q(2, window + 1)
        out[i \in 1 .. Len(sma.out)] ==
            IF i = 1 THEN sma.out[1]
            ELSE Add(Times(Whole(p[i + window - 1]), alpha),
                     Times(out[i - 1], Minus(Whole(1), alpha)))
    IN  out

\* An average of the values of x, from its first value.
Averages(f, lo, hi, base, x, alpha) ==
    \A i \in lo .. hi : f[i] = IF i = lo THEN base ELSE Averaged(x[i], f[i - 1], alpha)

\* It has a value on every day.
LEMMA AveragedExists ==
    ASSUME NEW lo \in Int, NEW hi \in Int, lo <= hi, NEW base \in Rat, NEW alpha \in Rat,
           NEW x, \A i \in lo .. hi : i # lo => x[i] \in Int
    PROVE  \E f \in [lo .. hi -> Rat] : Averages(f, lo, hi, base, x, alpha)
<1> DEFINE step == [p \in (lo .. hi) \X Rat |->
                      IF p[1] = lo THEN base ELSE Averaged(x[p[1]], p[2], alpha)]
<1>1. step \in [(lo .. hi) \X Rat -> Rat]
  <2> SUFFICES ASSUME NEW p \in (lo .. hi) \X Rat
               PROVE  (IF p[1] = lo THEN base ELSE Averaged(x[p[1]], p[2], alpha)) \in Rat
    OBVIOUS
  <2>1. PICK i \in lo .. hi, a \in Rat : p = <<i, a>>
    OBVIOUS
  <2> QED
    BY <2>1, AveragedRat
<1>2. \A i \in lo .. hi, a \in Rat : i # lo => step[<<i, a>>] = Averaged(x[i], a, alpha)
  OBVIOUS
<1> HIDE DEF step
<1>3. PICK f \in [lo .. hi -> Rat] : Computes(f, lo, hi, base, step)
  BY <1>1, Recursion
<1>4. ASSUME NEW i \in lo .. hi
      PROVE  f[i] = IF i = lo THEN base ELSE Averaged(x[i], f[i - 1], alpha)
  <2>1. f[i] = IF i = lo THEN base ELSE step[<<i, f[i - 1]>>]
    BY <1>3 DEF Computes
  <2>2. i # lo => i - 1 \in lo .. hi
    OBVIOUS
  <2>3. i # lo => f[i - 1] \in Rat
    BY <2>2
  <2> QED
    BY <1>2, <2>1, <2>3
<1> QED
  BY <1>4 DEF Averages

\* ... and that is a rational.
LEMMA AveragedIs ==
    ASSUME NEW lo \in Int, NEW hi \in Int, lo <= hi, NEW base \in Rat, NEW alpha \in Rat,
           NEW x, \A i \in lo .. hi : i # lo => x[i] \in Int, NEW f,
           Averages(f, lo, hi, base, x, alpha)
    PROVE  \A i \in lo .. hi : f[i] \in Rat
<1>1. f[lo] = base /\ \A i \in lo .. hi : i # lo => f[i] = Averaged(x[i], f[i - 1], alpha)
  <2>1. lo \in lo .. hi
    OBVIOUS
  <2> QED
    BY <2>1 DEF Averages
<1> DEFINE T == {i \in Int : f[i] \in Rat}
<1>2. lo \in T
  BY <1>1
<1>3. ASSUME NEW i \in lo .. hi, i # lo, i - 1 \in T PROVE i \in T
  <2>1. f[i - 1] \in Rat
    BY <1>3
  <2>2. f[i] \in Rat
    BY <1>1, <1>3, <2>1, AveragedRat
  <2> QED
    BY <2>2
<1> HIDE DEF T
<1>4. \A i \in lo .. hi : i \in T
  BY <1>2, <1>3, Along
<1> QED
  BY <1>4 DEF T

\* A function on 1 .. n is a sequence.
LEMMA ListIs ==
    ASSUME NEW n \in Nat, NEW S, NEW f \in [1 .. n -> S]
    PROVE  f \in Seq(S) /\ Len(f) = n /\ DOMAIN f = 1 .. n /\ (f = <<>> <=> n = 0)
<1>1. f \in Seq(S)
  BY SeqDef
<1>2. DOMAIN f = 1 .. n
  OBVIOUS
<1>3. Len(f) = n
  BY <1>1, <1>2, LenProperties
<1> QED
  BY <1>1, <1>2, <1>3, EmptySeq

\* The EMA starts as the mean of the first window.
LEMMA ExponentialIs ==
    ASSUME NEW p \in Seq(Int), NEW window \in Nat, window # 0, window <= Len(p), checkPositive(p)
    PROVE  /\ EMA(p, window) = Ok(Exponential(p, window))
           /\ Exponential(p, window) \in [1 .. Len(p) - window + 1 -> Rat]
           /\ Exponential(p, window)[1] = Q(Sum(SubSeq(p, 1, window)), window)
           /\ \A i \in 2 .. Len(p) - window + 1 :
                 Exponential(p, window)[i] =
                    Averaged(p[i + window - 1], Exponential(p, window)[i - 1], Q(2, window + 1))
<1> DEFINE n == Len(p)
           k == n - window + 1
           sma == SMA(p, window)
           alpha == Q(2, window + 1)
           e == Exponential(p, window)
           x == [i \in 2 .. k |-> p[i + window - 1]]
<1>1. n \in Nat /\ k \in Nat /\ k \in Int /\ 1 \in Int /\ 1 <= k /\ 1 + 1 = 2
  OBVIOUS
<1>2. sma = Ok(Moving(p, window)) /\ sma.err = "nil" /\ sma.out = Moving(p, window)
  <2>1. ~(window < 1) /\ ~(n < window)
    OBVIOUS
  <2> QED
    BY <2>1 DEF SMA, Guarded, Ok
<1>3. /\ sma.out \in [1 .. k -> Rat]
      /\ sma.out[1] = Q(Sum(SubSeq(p, 1, window)), window)
  <2>1. /\ Moving(p, window) \in [1 .. k -> Rat]
        /\ \A i \in 1 .. k : Moving(p, window)[i] = Q(Sum(SubSeq(p, i, i + window - 1)), window)
    BY MovingIs
  <2>2. 1 \in 1 .. k /\ 1 + window - 1 = window
    OBVIOUS
  <2>3. Moving(p, window)[1] = Q(Sum(SubSeq(p, 1, 1 + window - 1)), window)
    BY <2>1, <2>2
  <2> HIDE DEF k
  <2> QED
    BY <1>2, <2>1, <2>2, <2>3
<1> DEFINE first == sma.out[1]
<1>4. Len(sma.out) = k /\ first \in Rat
  <2>1. 1 \in 1 .. k
    BY <1>1
  <2> HIDE DEF k, sma
  <2> QED
    BY <1>1, <1>3, <2>1, ListIs
<1>5. alpha \in Rat
  BY QRat
<1>6. \A i \in 1 .. k : i # 1 => x[i] \in Int /\ x[i] = p[i + window - 1]
  OBVIOUS
<1>7. EMA(p, window) = IF sma.err # "nil" THEN sma ELSE Ok(e)
  BY Zenon DEF EMA, Exponential
<1>8. PICK f \in [1 .. k -> Rat] : Averages(f, 1, k, first, x, alpha)
  <2> HIDE DEF x, first, alpha, k
  <2>1. \A i \in 1 .. k : i # 1 => x[i] \in Int
    BY <1>6
  <2> QED
    BY <1>1, <1>4, <1>5, <2>1, AveragedExists
<1> HIDE DEF x
<1>9. \E g : g = [i \in 1 .. Len(sma.out) |->
                     IF i = 1 THEN sma.out[1]
                     ELSE Add(Times(Whole(p[i + window - 1]), alpha),
                              Times(g[i - 1], Minus(Whole(1), alpha)))]
  <2> HIDE DEF sma, alpha, k
  <2>1. \A i \in 1 .. k : f[i] = IF i = 1 THEN sma.out[1] ELSE Averaged(x[i], f[i - 1], alpha)
    BY <1>8 DEF Averages
  <2>2. \A i \in 1 .. k : f[i] = IF i = 1 THEN sma.out[1]
                                 ELSE Add(Times(Whole(p[i + window - 1]), alpha),
                                          Times(f[i - 1], Minus(Whole(1), alpha)))
    BY <1>6, <2>1 DEF Averaged
  <2>3. f = [i \in 1 .. Len(sma.out) |->
               IF i = 1 THEN sma.out[1]
               ELSE Add(Times(Whole(p[i + window - 1]), alpha),
                        Times(f[i - 1], Minus(Whole(1), alpha)))]
    BY <1>4, <2>2
  <2> QED
    BY <2>3
<1>10. e = [i \in 1 .. Len(sma.out) |->
              IF i = 1 THEN sma.out[1]
              ELSE Add(Times(Whole(p[i + window - 1]), alpha),
                       Times(e[i - 1], Minus(Whole(1), alpha)))]
  BY <1>9 DEF Exponential
<1> HIDE DEF e, sma, alpha, k
<1>11. Averages(e, 1, k, first, x, alpha) /\ e = [i \in 1 .. k |-> e[i]]
  BY <1>4, <1>6, <1>10 DEF Averages, Averaged
<1>12. \A i \in 1 .. k : e[i] \in Rat
  <2> HIDE DEF first
  <2>1. \A i \in 1 .. k : i # 1 => x[i] \in Int
    BY <1>6
  <2> QED
    BY <1>1, <1>4, <1>5, <1>11, <2>1, AveragedIs
<1>13. \A i \in 2 .. k : e[i] = Averaged(p[i + window - 1], e[i - 1], alpha)
  <2>1. \A i \in 2 .. k : i \in 1 .. k /\ i # 1
    BY <1>1
  <2> QED
    BY <1>6, <1>11, <2>1 DEF Averages
<1>14. e[1] = first
  <2>1. 1 \in 1 .. k
    BY <1>1
  <2> QED
    BY <1>11, <2>1 DEF Averages
<1>15. EMA(p, window) = Ok(e)
  BY <1>2, <1>7
<1>16. e \in [1 .. k -> Rat]
  BY <1>11, <1>12
<1> QED
  BY <1>3, <1>13, <1>14, <1>15, <1>16 DEF e, k, alpha

\* A step of Wilder's smoothing.
Smoothed(a, x, period) == Over(Add(Times(a, Whole(period - 1)), Whole(x)), Whole(period))

\* The next average as a quotient.
LEMMA SmoothedQ ==
    ASSUME NEW n \in Int, NEW d \in Int, d # 0, NEW x \in Int, NEW period \in Nat, period # 0
    PROVE  /\ Smoothed(Q(n, d), x, period) = Q(n * (period - 1) + x * d, d * period)
           /\ n * (period - 1) + x * d \in Int /\ d * period \in Int /\ d * period # 0
<1>1. /\ period \in Int /\ period - 1 \in Int /\ 1 \in Int /\ 1 # 0
      /\ n * (period - 1) \in Int /\ n * (period - 1) + x * d \in Int
      /\ d * period \in Int /\ d * period # 0
  OBVIOUS
<1>2. /\ Whole(period - 1) = Q(period - 1, 1) /\ Whole(x) = Q(x, 1)
      /\ Whole(period) = Q(period, 1)
  BY <1>1, WholeIs
<1>3. Times(Q(n, d), Whole(period - 1)) = Q(n * (period - 1), d)
  <2>1. Times(Q(n, d), Q(period - 1, 1)) = Q(n * (period - 1), d * 1)
    BY <1>1, TimesQ
  <2>2. d * 1 = d
    OBVIOUS
  <2> QED
    BY <1>2, <2>1, <2>2
<1>4. Add(Q(n * (period - 1), d), Whole(x)) = Q(n * (period - 1) + x * d, d)
  <2>1. Add(Q(n * (period - 1), d), Q(x, 1)) = Q((n * (period - 1)) * 1 + x * d, d * 1)
    BY <1>1, AddQ
  <2>2. (n * (period - 1)) * 1 = n * (period - 1) /\ d * 1 = d
    OBVIOUS
  <2> QED
    BY <1>2, <2>1, <2>2
<1>5. Over(Q(n * (period - 1) + x * d, d), Whole(period)) = Q(n * (period - 1) + x * d, d * period)
  <2>1. Over(Q(n * (period - 1) + x * d, d), Q(period, 1)) =
          Q((n * (period - 1) + x * d) * 1, d * period)
    BY <1>1, OverQ
  <2>2. (n * (period - 1) + x * d) * 1 = n * (period - 1) + x * d
    BY <1>1
  <2> QED
    BY <1>2, <2>1, <2>2
<1> QED
  BY <1>1, <1>3, <1>4, <1>5 DEF Smoothed

\* It gives a new day the weight 1 / period.
LEMMA SmoothedIs ==
    ASSUME NEW a \in Rat, NEW x \in Int, NEW period \in Nat, period # 0
    PROVE  Smoothed(a, x, period) = Averaged(x, a, Q(1, period))
<1>1. PICK n \in Int, d \in Int : d # 0 /\ a = Q(n, d)
  BY RatIs
<1>2. /\ period \in Int /\ period - 1 \in Int /\ 1 \in Int /\ 1 # 0 /\ n * (period - 1) \in Int
      /\ Whole(x) = Q(x, 1) /\ Whole(1) = Q(1, 1)
  BY WholeIs
<1>3. /\ Smoothed(a, x, period) = Q(n * (period - 1) + x * d, d * period)
      /\ n * (period - 1) + x * d \in Int /\ d * period \in Int /\ d * period # 0
  BY <1>1, SmoothedQ
<1>4. Times(Whole(x), Q(1, period)) = Q(x, period)
  <2>1. Times(Q(x, 1), Q(1, period)) = Q(x * 1, 1 * period)
    BY <1>2, TimesQ
  <2>2. x * 1 = x /\ 1 * period = period
    OBVIOUS
  <2> QED
    BY <1>2, <2>1, <2>2
<1>5. Minus(Whole(1), Q(1, period)) = Q(period - 1, period)
  <2>1. Minus(Q(1, 1), Q(1, period)) = Q(1 * period - 1 * 1, 1 * period)
    BY <1>2, MinusQ
  <2>2. 1 * period - 1 * 1 = period - 1 /\ 1 * period = period
    OBVIOUS
  <2> QED
    BY <1>2, <2>1, <2>2
<1>6. Times(a, Q(period - 1, period)) = Q(n * (period - 1), d * period)
  BY <1>1, <1>2, TimesQ
<1>7. Add(Q(x, period), Q(n * (period - 1), d * period)) =
         Q(x * (d * period) + (n * (period - 1)) * period, period * (d * period))
  BY <1>2, <1>3, AddQ
<1>8. (n * (period - 1) + x * d) * (period * (d * period)) =
         (x * (d * period) + (n * (period - 1)) * period) * (d * period)
  BY <1>1
<1>9. /\ x * (d * period) + (n * (period - 1)) * period \in Int
      /\ period * (d * period) \in Int /\ period * (d * period) # 0
  BY <1>1, <1>3
<1>10. Q(n * (period - 1) + x * d, d * period) =
         Q(x * (d * period) + (n * (period - 1)) * period, period * (d * period))
  BY <1>3, <1>8, <1>9, QEqual
<1> QED
  BY <1>3, <1>4, <1>5, <1>6, <1>7, <1>10 DEF Averaged

\* The sign of a quotient is the one of its numerator.
LEMMA NonNegativeQ ==
    ASSUME NEW n \in Int, NEW d \in Int, d > 0
    PROVE  AtMost(Whole(0), Q(n, d)) <=> n >= 0
<1>1. Whole(0) = Q(0, 1) /\ 0 \in Int /\ 1 \in Int /\ 1 > 0
  BY WholeIs
<1>2. AtMost(Q(0, 1), Q(n, d)) <=> 0 * d <= n * 1
  BY <1>1, AtMostQ
<1>3. 0 * d = 0 /\ n * 1 = n
  OBVIOUS
<1> QED
  BY <1>1, <1>2, <1>3

\* An average of gains, or of losses, is not negative.
LEMMA SmoothedNonNegative ==
    ASSUME NEW a \in Rat, AtMost(Whole(0), a), NEW x \in Int, x >= 0,
           NEW period \in Nat, period # 0
    PROVE  AtMost(Whole(0), Smoothed(a, x, period))
<1>1. PICK n \in Int, d \in Int : d > 0 /\ d # 0 /\ a = Q(n, d)
  BY RatIs
<1>2. /\ Smoothed(a, x, period) = Q(n * (period - 1) + x * d, d * period)
      /\ n * (period - 1) + x * d \in Int /\ d * period \in Int
  BY <1>1, SmoothedQ
<1>3. n >= 0
  BY <1>1, NonNegativeQ
<1>4. n * (period - 1) >= 0 /\ x * d >= 0 /\ d * period > 0
  <2>1. n * (period - 1) >= 0
    <3>1. period - 1 \in Int /\ period - 1 >= 0
      OBVIOUS
    <3> QED
      BY <1>3, <3>1
  <2>2. x * d >= 0
    BY <1>1
  <2>3. d * period > 0
    BY <1>1
  <2> QED
    BY <2>1, <2>2, <2>3
<1>5. n * (period - 1) + x * d >= 0
  BY <1>1, <1>4
<1> QED
  BY <1>2, <1>4, <1>5, NonNegativeQ

\* The series of averages.
LEMMA WilderIs ==
    ASSUME NEW x \in Seq(Int), NEW period \in Nat, period # 0, period <= Len(x)
    PROVE  LET base == Q(Sum(SubSeq(x, 1, period)), period)
           IN  /\ \A i \in period .. Len(x) : Wilder(x, period)[i] \in Rat
               /\ Averages(Wilder(x, period), period, Len(x), base, x, Q(1, period))
               /\ Wilder(x, period)[period] = base
               /\ \A i \in period .. Len(x) : i # period =>
                     Wilder(x, period)[i] = Smoothed(Wilder(x, period)[i - 1], x[i], period)
<1> DEFINE n == Len(x)
           base == Q(Sum(SubSeq(x, 1, period)), period)
           alpha == Q(1, period)
           w == Wilder(x, period)
<1>1. n \in Nat /\ n \in Int /\ period \in Int /\ period <= n /\ \A i \in 1 .. n : x[i] \in Int
  OBVIOUS
<1>2. base \in Rat
  <2>1. 1 \in 1 .. n /\ period \in 1 .. n
    BY <1>1
  <2>2. Sum(SubSeq(x, 1, period)) = Sums(x)[period] - Sums(x)[1 - 1]
    BY <2>1, PartSum
  <2>3. Sums(x) \in [0 .. n -> Int] /\ 1 - 1 \in 0 .. n /\ period \in 0 .. n
    BY <1>1, SumsIs
  <2>4. Sum(SubSeq(x, 1, period)) \in Int
    BY <2>2, <2>3
  <2> QED
    BY <1>1, <2>4, QRat
<1>3. alpha \in Rat
  BY QRat
<1>4. \A i \in period .. n : i # period => x[i] \in Int
  BY <1>1
<1>5. PICK f \in [period .. n -> Rat] : Averages(f, period, n, base, x, alpha)
  <2> HIDE DEF base, alpha, n
  <2> QED
    BY <1>1, <1>2, <1>3, <1>4, AveragedExists
<1>6. \E g : g = [i \in period .. n |->
                    IF i = period THEN base
                    ELSE Over(Add(Times(g[i - 1], Whole(period - 1)), Whole(x[i])), Whole(period))]
  <2> HIDE DEF base, alpha, n
  <2>1. ASSUME NEW i \in period .. n
        PROVE  f[i] = IF i = period THEN base ELSE Smoothed(f[i - 1], x[i], period)
    <3>1. f[i] = IF i = period THEN base ELSE Averaged(x[i], f[i - 1], alpha)
      BY <1>5 DEF Averages
    <3>2. i # period => i - 1 \in period .. n
      BY <1>1
    <3>3. i # period => f[i - 1] \in Rat
      BY <3>2
    <3> QED
      BY <1>4, <3>1, <3>3, SmoothedIs DEF alpha
  <2>2. f = [i \in period .. n |->
               IF i = period THEN base
               ELSE Over(Add(Times(f[i - 1], Whole(period - 1)), Whole(x[i])), Whole(period))]
    BY <2>1 DEF Smoothed
  <2> QED
    BY <2>2
<1>7. w = [i \in period .. n |->
             IF i = period THEN base
             ELSE Over(Add(Times(w[i - 1], Whole(period - 1)), Whole(x[i])), Whole(period))]
  BY <1>6 DEF Wilder
<1> HIDE DEF base, alpha, n, w
<1>8. \A i \in period .. n : w[i] = IF i = period THEN base ELSE Smoothed(w[i - 1], x[i], period)
  BY <1>7 DEF Smoothed
<1> DEFINE T == {i \in Int : w[i] \in Rat}
<1>9. period \in period .. n /\ w[period] = base
  BY <1>1, <1>8
<1>10. period \in T
  BY <1>1, <1>2, <1>9
<1>11. ASSUME NEW i \in period .. n, i # period, i - 1 \in T PROVE i \in T
  <2>1. w[i - 1] \in Rat /\ x[i] \in Int
    BY <1>4, <1>11
  <2>2. w[i] = Averaged(x[i], w[i - 1], alpha)
    BY <1>8, <1>11, <2>1, SmoothedIs DEF alpha
  <2>3. w[i] \in Rat
    BY <1>3, <2>1, <2>2, AveragedRat
  <2> QED
    BY <2>3
<1> HIDE DEF T
<1>12. \A i \in period .. n : i \in T
  BY <1>1, <1>10, <1>11, Along
<1>13. \A i \in period .. n : w[i] \in Rat
  BY <1>12 DEF T
<1>14. Averages(w, period, n, base, x, alpha)
  <2> SUFFICES ASSUME NEW i \in period .. n
               PROVE  w[i] = IF i = period THEN base ELSE Averaged(x[i], w[i - 1], alpha)
    BY DEF Averages
  <2>1. i # period => i - 1 \in period .. n
    BY <1>1
  <2> QED
    BY <1>4, <1>8, <1>13, <2>1, SmoothedIs DEF alpha
<1> QED
  BY <1>8, <1>9, <1>13, <1>14 DEF w, base, alpha, n

\* Zero in lowest terms.
LEMMA ZeroQ ==
    ASSUME NEW n \in Int, NEW d \in Int, d # 0
    PROVE  Q(n, d) = Whole(0) <=> n = 0
<1>1. Whole(0) = Q(0, 1) /\ 0 \in Int /\ 1 \in Int /\ 1 # 0
  BY WholeIs
<1>2. n = 0 => Q(n, d) = Q(0, 1)
  <2>1. n = 0 => n * 1 = 0 * d
    OBVIOUS
  <2> QED
    BY <1>1, <2>1, QEqual
<1>3. ASSUME Q(n, d) = Q(0, 1) PROVE n = 0
  <2>1. n * 1 = 0 * d
    BY <1>1, <1>3, SameQ
  <2> QED
    BY <2>1
<1> QED
  BY <1>1, <1>2, <1>3

\* The RSI of two averages as one quotient.
LEMMA RsiQ ==
    ASSUME NEW a \in Int, NEW b \in Int, b > 0, a >= 0,
           NEW c \in Int, NEW d \in Int, d > 0, c >= 0
    PROVE  rsiValue(Q(a, b), Q(c, d)) =
             IF a * d + c * b = 0 THEN Whole(50) ELSE Q(100 * (a * d), a * d + c * b)
<1> DEFINE u == a * d
           v == c * b
<1>1. b # 0 /\ d # 0 /\ u \in Int /\ v \in Int
  OBVIOUS
<1>2. u >= 0 /\ (u = 0 <=> a = 0)
  <2>1. CASE a = 0
    BY <2>1
  <2>2. CASE a > 0
    <3>1. a * d > 0
      BY <2>2
    <3> QED
      BY <2>2, <3>1
  <2> QED
    BY <2>1, <2>2
<1>3. v >= 0 /\ (v = 0 <=> c = 0)
  <2>1. CASE c = 0
    BY <2>1
  <2>2. CASE c > 0
    <3>1. c * b > 0
      BY <2>2
    <3> QED
      BY <2>2, <3>1
  <2> QED
    BY <2>1, <2>2
<1>4. (Q(a, b) = Whole(0) <=> u = 0) /\ (Q(c, d) = Whole(0) <=> v = 0)
  BY <1>1, <1>2, <1>3, ZeroQ
<1>5. /\ Whole(100) = Q(100, 1) /\ Whole(1) = Q(1, 1)
      /\ 100 \in Int /\ 1 \in Int /\ 1 # 0 /\ 100 # 0
  BY WholeIs
<1>6. CASE v = 0 /\ u = 0
  BY <1>4, <1>6 DEF rsiValue
<1>7. CASE v = 0 /\ u # 0
  <2>1. (100 * u) * 1 = 100 * (u + v) /\ 100 * u \in Int /\ u + v \in Int /\ u + v # 0
    BY <1>1, <1>7
  <2>2. Q(100 * u, u + v) = Q(100, 1)
    BY <1>5, <2>1, QEqual
  <2>3. rsiValue(Q(a, b), Q(c, d)) = Whole(100)
    BY <1>4, <1>7 DEF rsiValue
  <2> QED
    BY <1>5, <2>1, <2>2, <2>3
<1>8. CASE v # 0
  <2> DEFINE h == b * c
             s == u + v
  <2>1. h \in Int /\ h # 0 /\ h = v /\ s \in Int /\ s # 0
    BY <1>1, <1>2, <1>3, <1>8
  <2>2. Over(Q(a, b), Q(c, d)) = Q(u, h)
    BY <1>1, <1>3, <1>8, OverQ
  <2>3. Add(Whole(1), Q(u, h)) = Q(s, h)
    <3>1. Add(Q(1, 1), Q(u, h)) = Q(1 * h + u * 1, 1 * h)
      BY <1>1, <1>5, <2>1, AddQ
    <3>2. 1 * h + u * 1 = s /\ 1 * h = h
      BY <1>1, <2>1
    <3> QED
      BY <1>5, <3>1, <3>2
  <2>4. Over(Whole(100), Q(s, h)) = Q(100 * h, s)
    <3>1. Over(Q(100, 1), Q(s, h)) = Q(100 * h, 1 * s)
      BY <1>5, <2>1, OverQ
    <3>2. 1 * s = s
      BY <2>1
    <3> QED
      BY <1>5, <3>1, <3>2
  <2>5. Minus(Whole(100), Q(100 * h, s)) = Q(100 * u, s)
    <3>1. 100 * h \in Int
      BY <2>1
    <3>2. Minus(Q(100, 1), Q(100 * h, s)) = Q(100 * s - (100 * h) * 1, 1 * s)
      BY <1>5, <2>1, <3>1, MinusQ
    <3>3. 100 * s - (100 * h) * 1 = 100 * u /\ 1 * s = s
      BY <1>1, <2>1
    <3> QED
      BY <1>5, <3>2, <3>3
  <2>6. rsiValue(Q(a, b), Q(c, d)) = Q(100 * u, s)
    BY <1>4, <1>8, <2>2, <2>3, <2>4, <2>5 DEF rsiValue
  <2> QED
    BY <2>1, <2>6
<1> QED
  BY <1>6, <1>7, <1>8

\* Sums of scaled values.
LEMMA TotalsScale ==
    ASSUME NEW xs \in Seq(Rat), NEW ys \in Seq(Rat), NEW c \in Rat,
           NEW m \in Nat, m <= Len(xs), m <= Len(ys),
           \A i \in 1 .. m : ys[i] = Times(xs[i], c)
    PROVE  Totals(ys)[m] = Times(Totals(xs)[m], c)
<1> DEFINE s == Totals(xs)
           t == Totals(ys)
<1>1. /\ Len(xs) \in Nat /\ Len(ys) \in Nat /\ m \in Int /\ 0 \in Int /\ m \in 0 .. m
      /\ \A i \in 1 .. Len(xs) : xs[i] \in Rat
      /\ \A i \in 1 .. Len(ys) : ys[i] \in Rat
  OBVIOUS
<1>2. /\ s \in [0 .. Len(xs) -> Rat] /\ s[0] = Whole(0)
      /\ \A i \in 1 .. Len(xs) : s[i] = Add(s[i - 1], xs[i])
  BY <1>1, TotalsIs
<1>3. /\ t[0] = Whole(0)
      /\ \A i \in 1 .. Len(ys) : t[i] = Add(t[i - 1], ys[i])
  BY <1>1, TotalsIs
<1> HIDE DEF s, t
<1> DEFINE T == {i \in Int : t[i] = Times(s[i], c)}
<1>4. 0 \in T
  <2>1. Times(Whole(0), c) = Times(c, Whole(0)) /\ Times(c, Whole(0)) = Whole(0)
    BY WholeRat, TimesComm, TimesZero
  <2> QED
    BY <1>2, <1>3, <2>1
<1>5. ASSUME NEW i \in 0 .. m, i # 0, i - 1 \in T PROVE i \in T
  <2>1. /\ i \in 1 .. m /\ i \in 1 .. Len(xs) /\ i \in 1 .. Len(ys) /\ i - 1 \in 0 .. Len(xs)
        /\ t[i - 1] = Times(s[i - 1], c)
    BY <1>1, <1>5
  <2>2. s[i - 1] \in Rat /\ xs[i] \in Rat
    BY <1>1, <1>2, <2>1
  <2>3. t[i] = Add(Times(s[i - 1], c), Times(xs[i], c))
    BY <1>3, <2>1
  <2>4. s[i] = Add(s[i - 1], xs[i])
    BY <1>2, <2>1
  <2>5. t[i] = Times(s[i], c)
    BY <2>2, <2>3, <2>4, Distribute
  <2> QED
    BY <2>5
<1> HIDE DEF T
<1>6. \A i \in 0 .. m : i \in T
  BY <1>1, <1>4, <1>5, Along
<1> QED
  BY <1>1, <1>6 DEF T, s, t

\* The square of a difference.
LEMMA Square ==
    ASSUME NEW x \in Rat, NEW y \in Rat
    PROVE  Times(Minus(x, y), Minus(x, y)) = Add(Minus(Times(x, x), Times(Times(Whole(2), y), x)), Times(y, y))
<1>1. PICK n \in Int, d \in Int : d # 0 /\ x = Q(n, d)
  BY RatIs
<1>2. PICK m \in Int, e \in Int : e # 0 /\ y = Q(m, e)
  BY RatIs
<1>3. n * e - m * d \in Int /\ d * e \in Int /\ d * e # 0
  BY <1>1, <1>2
<1>4. Minus(x, y) = Q(n * e - m * d, d * e)
  BY <1>1, <1>2, MinusQ
<1>5. (n * e - m * d) * (n * e - m * d) \in Int /\ (d * e) * (d * e) \in Int /\ (d * e) * (d * e) # 0
  BY <1>3, <1>4
<1>6. Times(Minus(x, y), Minus(x, y)) = Q((n * e - m * d) * (n * e - m * d), (d * e) * (d * e))
  BY <1>3, <1>4, TimesQ
<1>7. n * n \in Int /\ d * d \in Int /\ d * d # 0
  BY <1>1
<1>8. Times(x, x) = Q(n * n, d * d)
  BY <1>1, TimesQ
<1>9. Whole(2) = Q(2, 1) /\ 2 \in Int /\ 1 \in Int /\ 1 # 0
  BY WholeIs
<1>10. 2 * m \in Int /\ 1 * e \in Int /\ 1 * e # 0
  BY <1>9, <1>2
<1>11. Times(Whole(2), y) = Q(2 * m, 1 * e)
  BY <1>9, <1>2, TimesQ
<1>12. (2 * m) * n \in Int /\ (1 * e) * d \in Int /\ (1 * e) * d # 0
  BY <1>10, <1>11, <1>1
<1>13. Times(Times(Whole(2), y), x) = Q((2 * m) * n, (1 * e) * d)
  BY <1>10, <1>11, <1>1, TimesQ
<1>14. (n * n) * ((1 * e) * d) - ((2 * m) * n) * (d * d) \in Int /\ (d * d) * ((1 * e) * d) \in Int /\ (d * d) * ((1 * e) * d) # 0
  BY <1>7, <1>8, <1>12, <1>13
<1>15. Minus(Times(x, x), Times(Times(Whole(2), y), x)) = Q((n * n) * ((1 * e) * d) - ((2 * m) * n) * (d * d), (d * d) * ((1 * e) * d))
  BY <1>7, <1>8, <1>12, <1>13, MinusQ
<1>16. m * m \in Int /\ e * e \in Int /\ e * e # 0
  BY <1>2
<1>17. Times(y, y) = Q(m * m, e * e)
  BY <1>2, TimesQ
<1>18. ((n * n) * ((1 * e) * d) - ((2 * m) * n) * (d * d)) * (e * e) + (m * m) * ((d * d) * ((1 * e) * d)) \in Int /\ ((d * d) * ((1 * e) * d)) * (e * e) \in Int /\ ((d * d) * ((1 * e) * d)) * (e * e) # 0
  BY <1>14, <1>15, <1>16, <1>17
<1>19. Add(Minus(Times(x, x), Times(Times(Whole(2), y), x)), Times(y, y)) = Q(((n * n) * ((1 * e) * d) - ((2 * m) * n) * (d * d)) * (e * e) + (m * m) * ((d * d) * ((1 * e) * d)), ((d * d) * ((1 * e) * d)) * (e * e))
  BY <1>14, <1>15, <1>16, <1>17, AddQ
<1>20. ((n * e - m * d) * (n * e - m * d)) * (((d * d) * ((1 * e) * d)) * (e * e)) = (((n * n) * ((1 * e) * d) - ((2 * m) * n) * (d * d)) * (e * e) + (m * m) * ((d * d) * ((1 * e) * d))) * ((d * e) * (d * e))
  BY <1>1, <1>2
<1> QED
  BY <1>5, <1>6, <1>18, <1>19, <1>20, QEqual

\* A sum of differences.
LEMMA AddMinus ==
    ASSUME NEW x \in Rat, NEW y \in Rat, NEW z \in Rat, NEW u \in Rat
    PROVE  Add(Minus(x, y), Minus(z, u)) = Minus(Add(x, z), Add(y, u))
<1>1. PICK n \in Int, d \in Int : d # 0 /\ x = Q(n, d)
  BY RatIs
<1>2. PICK m \in Int, e \in Int : e # 0 /\ y = Q(m, e)
  BY RatIs
<1>3. PICK k \in Int, h \in Int : h # 0 /\ z = Q(k, h)
  BY RatIs
<1>4. PICK p \in Int, q \in Int : q # 0 /\ u = Q(p, q)
  BY RatIs
<1>5. n * e - m * d \in Int /\ d * e \in Int /\ d * e # 0
  BY <1>1, <1>2
<1>6. Minus(x, y) = Q(n * e - m * d, d * e)
  BY <1>1, <1>2, MinusQ
<1>7. k * q - p * h \in Int /\ h * q \in Int /\ h * q # 0
  BY <1>3, <1>4
<1>8. Minus(z, u) = Q(k * q - p * h, h * q)
  BY <1>3, <1>4, MinusQ
<1>9. (n * e - m * d) * (h * q) + (k * q - p * h) * (d * e) \in Int /\ (d * e) * (h * q) \in Int /\ (d * e) * (h * q) # 0
  BY <1>5, <1>6, <1>7, <1>8
<1>10. Add(Minus(x, y), Minus(z, u)) = Q((n * e - m * d) * (h * q) + (k * q - p * h) * (d * e), (d * e) * (h * q))
  BY <1>5, <1>6, <1>7, <1>8, AddQ
<1>11. n * h + k * d \in Int /\ d * h \in Int /\ d * h # 0
  BY <1>1, <1>3
<1>12. Add(x, z) = Q(n * h + k * d, d * h)
  BY <1>1, <1>3, AddQ
<1>13. m * q + p * e \in Int /\ e * q \in Int /\ e * q # 0
  BY <1>2, <1>4
<1>14. Add(y, u) = Q(m * q + p * e, e * q)
  BY <1>2, <1>4, AddQ
<1>15. (n * h + k * d) * (e * q) - (m * q + p * e) * (d * h) \in Int /\ (d * h) * (e * q) \in Int /\ (d * h) * (e * q) # 0
  BY <1>11, <1>12, <1>13, <1>14
<1>16. Minus(Add(x, z), Add(y, u)) = Q((n * h + k * d) * (e * q) - (m * q + p * e) * (d * h), (d * h) * (e * q))
  BY <1>11, <1>12, <1>13, <1>14, MinusQ
<1>17. ((n * e - m * d) * (h * q) + (k * q - p * h) * (d * e)) * ((d * h) * (e * q)) = ((n * h + k * d) * (e * q) - (m * q + p * e) * (d * h)) * ((d * e) * (h * q))
  BY <1>1, <1>2, <1>3, <1>4
<1> QED
  BY <1>9, <1>10, <1>15, <1>16, <1>17, QEqual

\* One more.
LEMMA Once ==
    ASSUME NEW x \in Rat, NEW i \in Int
    PROVE  Add(Times(Whole(i - 1), x), x) = Times(Whole(i), x)
<1>1. PICK n \in Int, d \in Int : d # 0 /\ x = Q(n, d)
  BY RatIs
<1>2. Whole(i - 1) = Q(i - 1, 1) /\ i - 1 \in Int /\ 1 \in Int /\ 1 # 0
  BY WholeIs
<1>3. (i - 1) * n \in Int /\ 1 * d \in Int /\ 1 * d # 0
  BY <1>2, <1>1
<1>4. Times(Whole(i - 1), x) = Q((i - 1) * n, 1 * d)
  BY <1>2, <1>1, TimesQ
<1>5. ((i - 1) * n) * d + n * (1 * d) \in Int /\ (1 * d) * d \in Int /\ (1 * d) * d # 0
  BY <1>3, <1>4, <1>1
<1>6. Add(Times(Whole(i - 1), x), x) = Q(((i - 1) * n) * d + n * (1 * d), (1 * d) * d)
  BY <1>3, <1>4, <1>1, AddQ
<1>7. Whole(i) = Q(i, 1) /\ i \in Int /\ 1 \in Int /\ 1 # 0
  BY WholeIs
<1>8. i * n \in Int /\ 1 * d \in Int /\ 1 * d # 0
  BY <1>7, <1>1
<1>9. Times(Whole(i), x) = Q(i * n, 1 * d)
  BY <1>7, <1>1, TimesQ
<1>10. (((i - 1) * n) * d + n * (1 * d)) * (1 * d) = (i * n) * ((1 * d) * d)
  BY <1>1
<1> QED
  BY <1>5, <1>6, <1>8, <1>9, <1>10, QEqual

\* The mean taken out of a sum of squares.
LEMMA MeanOut ==
    ASSUME NEW x \in Rat, NEW y \in Rat, NEW w \in Int, w # 0
    PROVE  Add(Minus(y, Times(Times(Whole(2), Over(x, Whole(w))), x)), Times(Whole(w), Times(Over(x, Whole(w)), Over(x, Whole(w))))) = Minus(y, Over(Times(x, x), Whole(w)))
<1>1. PICK n \in Int, d \in Int : d # 0 /\ x = Q(n, d)
  BY RatIs
<1>2. PICK m \in Int, e \in Int : e # 0 /\ y = Q(m, e)
  BY RatIs
<1>3. Whole(2) = Q(2, 1) /\ 2 \in Int /\ 1 \in Int /\ 1 # 0
  BY WholeIs
<1>4. Whole(w) = Q(w, 1) /\ w \in Int /\ 1 \in Int /\ 1 # 0
  BY WholeIs
<1>5. n * 1 \in Int /\ d * w \in Int /\ d * w # 0
  BY <1>1, <1>4
<1>6. Over(x, Whole(w)) = Q(n * 1, d * w)
  BY <1>1, <1>4, OverQ
<1>7. 2 * (n * 1) \in Int /\ 1 * (d * w) \in Int /\ 1 * (d * w) # 0
  BY <1>3, <1>5, <1>6
<1>8. Times(Whole(2), Over(x, Whole(w))) = Q(2 * (n * 1), 1 * (d * w))
  BY <1>3, <1>5, <1>6, TimesQ
<1>9. (2 * (n * 1)) * n \in Int /\ (1 * (d * w)) * d \in Int /\ (1 * (d * w)) * d # 0
  BY <1>7, <1>8, <1>1
<1>10. Times(Times(Whole(2), Over(x, Whole(w))), x) = Q((2 * (n * 1)) * n, (1 * (d * w)) * d)
  BY <1>7, <1>8, <1>1, TimesQ
<1>11. m * ((1 * (d * w)) * d) - ((2 * (n * 1)) * n) * e \in Int /\ e * ((1 * (d * w)) * d) \in Int /\ e * ((1 * (d * w)) * d) # 0
  BY <1>2, <1>9, <1>10
<1>12. Minus(y, Times(Times(Whole(2), Over(x, Whole(w))), x)) = Q(m * ((1 * (d * w)) * d) - ((2 * (n * 1)) * n) * e, e * ((1 * (d * w)) * d))
  BY <1>2, <1>9, <1>10, MinusQ
<1>13. (n * 1) * (n * 1) \in Int /\ (d * w) * (d * w) \in Int /\ (d * w) * (d * w) # 0
  BY <1>5, <1>6
<1>14. Times(Over(x, Whole(w)), Over(x, Whole(w))) = Q((n * 1) * (n * 1), (d * w) * (d * w))
  BY <1>5, <1>6, TimesQ
<1>15. w * ((n * 1) * (n * 1)) \in Int /\ 1 * ((d * w) * (d * w)) \in Int /\ 1 * ((d * w) * (d * w)) # 0
  BY <1>4, <1>13, <1>14
<1>16. Times(Whole(w), Times(Over(x, Whole(w)), Over(x, Whole(w)))) = Q(w * ((n * 1) * (n * 1)), 1 * ((d * w) * (d * w)))
  BY <1>4, <1>13, <1>14, TimesQ
<1>17. (m * ((1 * (d * w)) * d) - ((2 * (n * 1)) * n) * e) * (1 * ((d * w) * (d * w))) + (w * ((n * 1) * (n * 1))) * (e * ((1 * (d * w)) * d)) \in Int /\ (e * ((1 * (d * w)) * d)) * (1 * ((d * w) * (d * w))) \in Int /\ (e * ((1 * (d * w)) * d)) * (1 * ((d * w) * (d * w))) # 0
  BY <1>11, <1>12, <1>15, <1>16
<1>18. Add(Minus(y, Times(Times(Whole(2), Over(x, Whole(w))), x)), Times(Whole(w), Times(Over(x, Whole(w)), Over(x, Whole(w))))) = Q((m * ((1 * (d * w)) * d) - ((2 * (n * 1)) * n) * e) * (1 * ((d * w) * (d * w))) + (w * ((n * 1) * (n * 1))) * (e * ((1 * (d * w)) * d)), (e * ((1 * (d * w)) * d)) * (1 * ((d * w) * (d * w))))
  BY <1>11, <1>12, <1>15, <1>16, AddQ
<1>19. n * n \in Int /\ d * d \in Int /\ d * d # 0
  BY <1>1
<1>20. Times(x, x) = Q(n * n, d * d)
  BY <1>1, TimesQ
<1>21. (n * n) * 1 \in Int /\ (d * d) * w \in Int /\ (d * d) * w # 0
  BY <1>19, <1>20, <1>4
<1>22. Over(Times(x, x), Whole(w)) = Q((n * n) * 1, (d * d) * w)
  BY <1>19, <1>20, <1>4, OverQ
<1>23. m * ((d * d) * w) - ((n * n) * 1) * e \in Int /\ e * ((d * d) * w) \in Int /\ e * ((d * d) * w) # 0
  BY <1>2, <1>21, <1>22
<1>24. Minus(y, Over(Times(x, x), Whole(w))) = Q(m * ((d * d) * w) - ((n * n) * 1) * e, e * ((d * d) * w))
  BY <1>2, <1>21, <1>22, MinusQ
<1>25. ((m * ((1 * (d * w)) * d) - ((2 * (n * 1)) * n) * e) * (1 * ((d * w) * (d * w))) + (w * ((n * 1) * (n * 1))) * (e * ((1 * (d * w)) * d))) * (e * ((d * d) * w)) = (m * ((d * d) * w) - ((n * n) * 1) * e) * ((e * ((1 * (d * w)) * d)) * (1 * ((d * w) * (d * w))))
  BY <1>1, <1>2
<1> QED
  BY <1>17, <1>18, <1>23, <1>24, <1>25, QEqual

\* The daily returns as quotients.
LEMMA ReturnsIs ==
    ASSUME NEW p \in Seq(Int), checkPositive(p), Len(p) >= 1
    PROVE  /\ Returns(p) \in [1 .. Len(p) - 1 -> Rat]
           /\ \A i \in 1 .. Len(p) - 1 : Returns(p)[i] = Q(p[i + 1] - p[i], p[i])
<1>1. ASSUME NEW i \in 1 .. Len(p) - 1
      PROVE  /\ Minus(Q(p[i + 1], p[i]), Whole(1)) = Q(p[i + 1] - p[i], p[i])
             /\ Q(p[i + 1] - p[i], p[i]) \in Rat
  <2> DEFINE a == p[i + 1]
             b == p[i]
  <2>1. i \in 1 .. Len(p) /\ i + 1 \in 1 .. Len(p)
    OBVIOUS
  <2>2. a \in Int /\ b \in Int /\ b # 0 /\ a - b \in Int
    BY <2>1 DEF checkPositive
  <2> HIDE DEF a, b
  <2>3. Whole(1) = Q(1, 1) /\ 1 \in Int /\ 1 # 0
    BY WholeIs
  <2>4. Minus(Q(a, b), Q(1, 1)) = Q(a * 1 - 1 * b, b * 1)
    BY <2>2, <2>3, MinusQ
  <2>5. a * 1 - 1 * b = a - b /\ b * 1 = b
    BY <2>2
  <2>6. Minus(Q(a, b), Whole(1)) = Q(a - b, b) /\ Q(a - b, b) \in Rat
    BY <2>2, <2>3, <2>4, <2>5, QRat
  <2> QED
    BY <2>6 DEF a, b
<1> QED
  BY <1>1 DEF Returns

\* variance in volatilitySeries.
SampleVariance(r, window) ==
    LET mean == Over(Total(r), Whole(window))
        sq == [i \in DOMAIN r |-> Times(Minus(r[i], mean), Minus(r[i], mean))]
    IN  Over(Total(sq), Whole(window - 1))

\* The series of Volatility is the sample variance of each window.
LEMMA VolatilityIs ==
    ASSUME NEW p, NEW window
    PROVE  volatilitySeries(p, window) =
             Guarded(p, window, window + 1,
                     [i \in 1 .. Len(p) - window |->
                         SampleVariance(SubSeq(Returns(p), i, i + window - 1), window)])
BY Zenon DEF volatilitySeries, SampleVariance

\* The squares of the deviations from c, summed up.
LEMMA DeviationsSum ==
    ASSUME NEW w \in Nat, NEW r \in [1 .. w -> Rat], NEW c \in Rat
    PROVE  Total([i \in DOMAIN r |-> Times(Minus(r[i], c), Minus(r[i], c))]) =
             Add(Minus(Total([i \in DOMAIN r |-> Times(r[i], r[i])]),
                       Times(Times(Whole(2), c), Total(r))),
                 Times(Whole(w), Times(c, c)))
<1> DEFINE dev == [i \in DOMAIN r |-> Times(Minus(r[i], c), Minus(r[i], c))]
           sqr == [i \in DOMAIN r |-> Times(r[i], r[i])]
           c2 == Times(Whole(2), c)
           cc == Times(c, c)
           D == Totals(dev)
           A == Totals(sqr)
           S == Totals(r)
<1>1. c2 \in Rat /\ cc \in Rat
  BY WholeRat, Closed
<1>2. dev \in [1 .. w -> Rat] /\ sqr \in [1 .. w -> Rat]
  <2>1. \A i \in 1 .. w : r[i] \in Rat
    OBVIOUS
  <2>2. \A i \in 1 .. w : Minus(r[i], c) \in Rat
    BY <2>1, Closed
  <2>3. \A i \in 1 .. w : /\ Times(Minus(r[i], c), Minus(r[i], c)) \in Rat
                          /\ Times(r[i], r[i]) \in Rat
    BY <2>1, <2>2, Closed
  <2>4. DOMAIN r = 1 .. w
    OBVIOUS
  <2> QED
    BY <2>3, <2>4
<1>3. Len(dev) = w /\ Len(sqr) = w /\ Len(r) = w
  <2> HIDE DEF dev, sqr
  <2> QED
    BY <1>2, ListIs
<1>4. \A i \in 1 .. w : /\ r[i] \in Rat /\ sqr[i] = Times(r[i], r[i])
                        /\ dev[i] = Times(Minus(r[i], c), Minus(r[i], c))
  OBVIOUS
<1> HIDE DEF dev, sqr, c2
<1>5. \A i \in 1 .. w : dev[i] \in Rat /\ sqr[i] \in Rat
  BY <1>2
<1>6. /\ D[0] = Whole(0) /\ \A i \in 1 .. w : D[i] = Add(D[i - 1], dev[i])
  BY <1>3, <1>5, TotalsIs
<1>7. /\ A \in [0 .. w -> Rat] /\ A[0] = Whole(0)
      /\ \A i \in 1 .. w : A[i] = Add(A[i - 1], sqr[i])
  BY <1>3, <1>5, TotalsIs
<1>8. /\ S \in [0 .. w -> Rat] /\ S[0] = Whole(0)
      /\ \A i \in 1 .. w : S[i] = Add(S[i - 1], r[i])
  BY <1>3, <1>4, TotalsIs
<1> HIDE DEF D, A, S, cc
<1> DEFINE T == {i \in Int : D[i] = Add(Minus(A[i], Times(c2, S[i])), Times(Whole(i), cc))}
<1>9. 0 \in T
  <2> DEFINE z == Whole(0)
  <2>1. z \in Rat
    BY WholeRat
  <2> HIDE DEF z
  <2>2. Times(c2, z) = z /\ Times(z, cc) = z
    <3>1. Times(c2, Whole(0)) = Whole(0)
      BY <1>1, TimesZero
    <3>2. Times(cc, Whole(0)) = Whole(0)
      BY <1>1, TimesZero
    <3>3. Times(z, cc) = Times(cc, z)
      BY <1>1, <2>1, TimesComm
    <3> QED
      BY <3>1, <3>2, <3>3 DEF z
  <2>3. Minus(z, z) = z /\ Add(z, z) = z
    <3>1. /\ Whole(0) = Q(0, 1) /\ 0 \in Int /\ 1 \in Int /\ 1 # 0
      BY WholeIs
    <3>2. Minus(Q(0, 1), Q(0, 1)) = Q(0 * 1 - 0 * 1, 1 * 1)
      BY <3>1, MinusQ
    <3>3. 0 * 1 - 0 * 1 = 0 /\ 1 * 1 = 1
      OBVIOUS
    <3>4. Add(z, Whole(0)) = z
      BY <2>1, AddZero
    <3> QED
      BY <3>1, <3>2, <3>3, <3>4 DEF z
  <2>4. D[0] = Add(Minus(A[0], Times(c2, S[0])), Times(z, cc))
    BY <1>6, <1>7, <1>8, <2>2, <2>3 DEF z
  <2> QED
    BY <2>4 DEF z
<1>10. ASSUME NEW i \in 0 .. w, i # 0, i - 1 \in T PROVE i \in T
  <2> DEFINE a == A[i - 1]
             s == S[i - 1]
             x == r[i]
             b == Times(c2, s)
             e == Times(c2, x)
             f == Times(Whole(i - 1), cc)
             xx == Times(x, x)
  <2>1. i \in 1 .. w /\ i - 1 \in 0 .. w /\ i \in Int /\ i - 1 \in Int
    BY <1>10
  <2>2. a \in Rat /\ s \in Rat /\ x \in Rat
    BY <1>4, <1>7, <1>8, <2>1
  <2>3. D[i - 1] = Add(Minus(a, b), f)
    BY <1>10
  <2>4. dev[i] = Add(Minus(xx, e), cc)
    BY <1>4, <2>1, <2>2, Square DEF c2, cc
  <2>5. D[i] = Add(D[i - 1], dev[i]) /\ A[i] = Add(a, xx) /\ S[i] = Add(s, x)
    BY <1>4, <1>6, <1>7, <1>8, <2>1
  <2> HIDE DEF a, s, x
  <2>6. b \in Rat /\ e \in Rat /\ xx \in Rat
    BY <1>1, <2>2, Closed
  <2>7. f \in Rat
    BY <1>1, <2>1, WholeRat, Closed
  <2>8. Add(b, e) = Times(c2, Add(s, x))
    <3>1. Times(Add(s, x), c2) = Add(Times(s, c2), Times(x, c2))
      BY <1>1, <2>2, Distribute
    <3>2. Times(s, c2) = b /\ Times(x, c2) = e
      BY <1>1, <2>2, TimesComm
    <3>3. Add(s, x) \in Rat
      BY <2>2, Closed
    <3>4. Times(Add(s, x), c2) = Times(c2, Add(s, x))
      BY <1>1, <3>3, TimesComm
    <3> QED
      BY <3>1, <3>2, <3>4
  <2>9. Add(f, cc) = Times(Whole(i), cc)
    BY <1>1, <2>1, Once
  <2> HIDE DEF b, e, f, xx
  <2>10. Minus(a, b) \in Rat /\ Minus(xx, e) \in Rat
    BY <2>2, <2>6, Closed
  <2> DEFINE g == Minus(a, b)
             h == Minus(xx, e)
  <2>11. Add(Add(g, f), Add(h, cc)) = Add(Add(g, h), Add(f, cc))
    <3>1. g \in Rat /\ h \in Rat
      BY <2>10
    <3> HIDE DEF g, h
    <3>2. Add(h, cc) \in Rat /\ Add(f, cc) \in Rat /\ Add(f, h) \in Rat
      BY <1>1, <2>7, <3>1, Closed
    <3>3. Add(Add(g, f), Add(h, cc)) = Add(g, Add(f, Add(h, cc)))
      BY <2>7, <3>1, <3>2, AddAssoc
    <3>4. Add(f, Add(h, cc)) = Add(Add(f, h), cc)
      BY <1>1, <2>7, <3>1, AddAssoc
    <3>5. Add(f, h) = Add(h, f)
      BY <2>7, <3>1, AddComm
    <3>6. Add(Add(h, f), cc) = Add(h, Add(f, cc))
      BY <1>1, <2>7, <3>1, AddAssoc
    <3>7. Add(g, Add(h, Add(f, cc))) = Add(Add(g, h), Add(f, cc))
      BY <3>1, <3>2, AddAssoc
    <3> QED
      BY <3>3, <3>4, <3>5, <3>6, <3>7
  <2>12. Add(g, h) = Minus(Add(a, xx), Add(b, e))
    BY <2>2, <2>6, AddMinus
  <2>13. D[i] = Add(Minus(A[i], Times(c2, S[i])), Times(Whole(i), cc))
    BY <2>3, <2>4, <2>5, <2>8, <2>9, <2>11, <2>12
  <2> QED
    BY <2>1, <2>13
<1> HIDE DEF T
<1>11. \A i \in 0 .. w : i \in T
  <2>1. 0 \in Int /\ w \in Int
    OBVIOUS
  <2> QED
    BY <1>9, <1>10, <2>1, Along
<1>12. w \in T
  BY <1>11
<1>13. Total(dev) = D[w] /\ Total(sqr) = A[w] /\ Total(r) = S[w]
  BY <1>3 DEF Total, D, A, S
<1>14. Total(dev) = Add(Minus(Total(sqr), Times(c2, Total(r))), Times(Whole(w), cc))
  BY <1>12, <1>13 DEF T
<1> QED
  BY <1>14 DEF dev, sqr, c2, cc

\* A sum of rationals is a rational.
LEMMA TotalRat ==
    ASSUME NEW w \in Nat, NEW r \in [1 .. w -> Rat]
    PROVE  Total(r) \in Rat /\ Len(r) = w
<1>1. Len(r) = w
  BY ListIs
<1>2. \A i \in 1 .. Len(r) : r[i] \in Rat
  BY <1>1
<1>3. Totals(r) \in [0 .. Len(r) -> Rat]
  BY <1>1, <1>2, TotalsIs
<1>4. Len(r) \in 0 .. Len(r)
  BY <1>1
<1> QED
  BY <1>1, <1>3, <1>4 DEF Total

\* Only zero is the rational zero.
LEMMA WholeZero == \A n \in Int : Whole(n) = Whole(0) <=> n = 0
BY DEF Whole

\* The sample variance from the sum and the sum of the squares.
LEMMA VarianceIs ==
    ASSUME NEW w \in Nat, w >= 2, NEW r \in [1 .. w -> Rat]
    PROVE  LET sum == Total(r)
               squares == Total([i \in DOMAIN r |-> Times(r[i], r[i])])
           IN  /\ SampleVariance(r, w) \in Rat
               /\ SampleVariance(r, w) =
                    Over(Minus(squares, Over(Times(sum, sum), Whole(w))),
                         Minus(Whole(w), Whole(1)))
<1> DEFINE sum == Total(r)
           sqr == [i \in DOMAIN r |-> Times(r[i], r[i])]
           squares == Total(sqr)
           mean == Over(sum, Whole(w))
           dev == [i \in DOMAIN r |-> Times(Minus(r[i], mean), Minus(r[i], mean))]
<1>1. sum \in Rat
  BY TotalRat
<1>2. sqr \in [1 .. w -> Rat]
  <2>1. \A i \in 1 .. w : Times(r[i], r[i]) \in Rat
    BY Closed
  <2>2. DOMAIN r = 1 .. w
    OBVIOUS
  <2> QED
    BY <2>1, <2>2
<1>3. squares \in Rat
  <2> HIDE DEF sqr
  <2> QED
    BY <1>2, TotalRat
<1>4. w \in Int /\ w # 0 /\ w - 1 \in Int /\ w - 1 # 0 /\ 1 \in Int
  OBVIOUS
<1>5. Whole(w) \in Rat /\ Whole(w) # Whole(0) /\ Whole(w - 1) \in Rat /\ Whole(w - 1) # Whole(0)
  BY <1>4, WholeRat, WholeZero
<1>6. mean \in Rat
  BY <1>1, <1>5, Closed
<1>7. SampleVariance(r, w) = Over(Total(dev), Whole(w - 1))
  BY Zenon DEF SampleVariance
<1>8. Total(dev) = Add(Minus(squares, Times(Times(Whole(2), mean), sum)),
                       Times(Whole(w), Times(mean, mean)))
  <2> HIDE DEF mean
  <2> QED
    BY <1>6, DeviationsSum
<1> HIDE DEF dev, squares, sum
<1>9. Add(Minus(squares, Times(Times(Whole(2), mean), sum)), Times(Whole(w), Times(mean, mean))) =
        Minus(squares, Over(Times(sum, sum), Whole(w)))
  BY <1>1, <1>3, <1>4, MeanOut
<1>10. Minus(Whole(w), Whole(1)) = Whole(w - 1)
  <2>1. Whole(w) = Q(w, 1) /\ Whole(1) = Q(1, 1) /\ Whole(w - 1) = Q(w - 1, 1) /\ 1 # 0
    BY <1>4, WholeIs
  <2>2. Minus(Q(w, 1), Q(1, 1)) = Q(w * 1 - 1 * 1, 1 * 1)
    BY <1>4, <2>1, MinusQ
  <2>3. w * 1 - 1 * 1 = w - 1 /\ 1 * 1 = 1
    BY <1>4
  <2> QED
    BY <2>1, <2>2, <2>3
<1>11. Times(sum, sum) \in Rat
  BY <1>1, Closed
<1>12. Over(Times(sum, sum), Whole(w)) \in Rat
  BY <1>5, <1>11, Closed
<1>13. Minus(squares, Over(Times(sum, sum), Whole(w))) \in Rat
  BY <1>3, <1>12, Closed
<1>14. Total(dev) \in Rat
  BY <1>8, <1>9, <1>13
<1>15. SampleVariance(r, w) \in Rat
  BY <1>5, <1>7, <1>14, Closed
<1>16. SampleVariance(r, w) =
         Over(Minus(squares, Over(Times(sum, sum), Whole(w))), Minus(Whole(w), Whole(1)))
  BY <1>7, <1>8, <1>9, <1>10
<1> QED
  BY <1>15, <1>16 DEF squares, sum

=============================================================================
