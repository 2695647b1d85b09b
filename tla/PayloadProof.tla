---------------------------- MODULE PayloadProof ----------------------------
(***************************************************************************)
(* Proofs about Payload and ByteTools: for frames and Data_ of any size,    *)
(* deflates on top of each other to any depth, and any chars.               *)
(***************************************************************************)
EXTENDS Payload, SequenceTheorems, FiniteSetTheorems, WellFoundedInduction, TLAPS

LEMMA LeastMember ==
  ASSUME NEW S \in SUBSET Nat, S # {}
  PROVE  \E m \in S : \A k \in S : m <= k
<1>1. PICK m \in S : \A k \in S : ~ (<<k, m>> \in OpToRel(<, Nat))
  BY NatLessThanWellFounded, WFMin
<1>2. ASSUME NEW k \in S PROVE m <= k
  <2>1. k \in Nat /\ m \in Nat /\ <<k, m>> \in Nat \X Nat
    OBVIOUS
  <2>2. ~ (k < m)
    BY <1>1, <2>1 DEF OpToRel
  <2> QED BY <2>1, <2>2
<1> QED BY <1>2

-----------------------------------------------------------------------------
(* The bytes of a length *)

\* What Weight and Number are instances of.
Recursion(f, n, a, c, t) ==
  /\ f \in [0..n -> Nat] /\ f[0] = c
  /\ \A i \in 1..n : f[i] = a * f[i - 1] + t[i]

LEMMA RecursionExists ==
  ASSUME NEW n \in Nat, NEW a \in Nat, NEW c \in Nat, NEW t \in [1..n -> Nat]
  PROVE  \E f : Recursion(f, n, a, c, t)
<1> DEFINE Rec(f, m) == /\ f \in [0..m -> Nat] /\ f[0] = c
                        /\ \A i \in 1..m : f[i] = a * f[i - 1] + t[i]
           Bad == {m \in Nat : m <= n /\ \A f : ~Rec(f, m)}
<1>1. SUFFICES ASSUME Bad # {} PROVE FALSE
  <2> HIDE DEF Rec
  <2>1. n <= n
    OBVIOUS
  <2>2. \E f : Rec(f, n)
    BY <2>1, Zenon
  <2> QED BY <2>2 DEF Rec, Recursion
<1>2. PICK m \in Bad : \A k \in Bad : m <= k
  <2> Bad \in SUBSET Nat
    OBVIOUS
  <2> HIDE DEF Bad
  <2> QED BY <1>1, LeastMember
<1>3. m \in Nat /\ m <= n /\ \A f : ~Rec(f, m)
  OBVIOUS
<1>4. m # 0
  <2> DEFINE f == [i \in 0..0 |-> c]
  <2>1. Rec(f, 0)
    OBVIOUS
  <2> HIDE DEF f, Rec
  <2> QED BY <1>3, <2>1, Zenon
<1>5. PICK f : Rec(f, m - 1)
  <2>1. m - 1 \in Nat /\ m - 1 <= n /\ ~(m <= m - 1)
    BY <1>3, <1>4
  <2>2. m - 1 \notin Bad
    <3> HIDE DEF Bad
    <3> QED BY <1>2, <2>1, Zenon
  <2> HIDE DEF Rec
  <2> QED BY <2>1, <2>2, Zenon
<1> DEFINE last == a * f[m - 1] + t[m]
           g == [i \in 0..m |-> IF i = m THEN last ELSE f[i]]
<1>6. f[m - 1] \in Nat /\ t[m] \in Nat /\ last \in Nat
  <2>1. f[m - 1] \in Nat /\ t[m] \in Nat
    BY <1>3, <1>4, <1>5
  <2>2. \A x, y \in Nat : x * y \in Nat
    OBVIOUS
  <2>3. a * f[m - 1] \in Nat
    BY <2>1, <2>2
  <2> QED BY <2>1, <2>3
<1>7. g \in [0..m -> Nat] /\ g[0] = c /\ g[m] = last
  <2> HIDE DEF last
  <2> QED BY <1>3, <1>4, <1>5, <1>6
<1>8. ASSUME NEW i \in 1..m PROVE g[i] = a * g[i - 1] + t[i]
  <2>1. i - 1 \in 0..(m - 1) /\ g[i - 1] = f[i - 1]
    BY <1>3
  <2>2. CASE i = m
    BY <1>7, <2>1, <2>2
  <2>3. CASE i # m
    <3>1. i \in 1..(m - 1) /\ g[i] = f[i]
      BY <1>3, <2>3
    <3>2. f[i] = a * f[i - 1] + t[i]
      BY <1>5, <3>1
    <3> QED BY <2>1, <3>1, <3>2
  <2> QED BY <2>2, <2>3
<1>9. Rec(g, m)
  <2> HIDE DEF g
  <2> QED BY <1>7, <1>8
<1> QED BY <1>3, <1>9

LEMMA DivModUnique ==
  ASSUME NEW m \in Nat \ {0}, NEW q \in Nat, NEW r \in Nat, r < m
  PROVE  (m * q + r) % m = r
<1> DEFINE n == m * q + r
           p == n \div m
           s == n % m
<1>1. n \in Nat /\ m * q \in Nat
  OBVIOUS
<1>2. n = m * p + s /\ p \in Int /\ s \in 0..(m - 1)
  <2> HIDE DEF n
  <2> QED BY <1>1
<1>3. m * q + r = m * p + s
  BY <1>2
<1> HIDE DEF n, p, s
<1>4. m * (q - p) = s - r
  BY <1>2, <1>3
<1>5. q - p = 0
  <2>1. CASE q - p >= 1
    <3>1. m * (q - p) >= m
      BY <1>2, <2>1
    <3> QED BY <1>2, <1>4, <3>1
  <2>2. CASE q - p <= -1
    <3>1. m * (q - p) <= -m
      BY <1>2, <2>2
    <3> QED BY <1>2, <1>4, <3>1
  <2> QED BY <1>2, <2>1, <2>2
<1>6. s = r
  BY <1>2, <1>3, <1>5
<1> QED BY <1>6 DEF n, s

LEMMA ModProduct ==
  ASSUME NEW n \in Nat, NEW P \in Nat \ {0}, NEW B \in Nat \ {0}
  PROVE  n % (B * P) = (n % P) + ((n \div P) % B) * P
<1> DEFINE q == n \div P
           r == n % P
           h == q \div B
           l == q % B
<1>1. n = P * q + r /\ q \in Nat /\ r \in 0..(P - 1)
  OBVIOUS
<1> HIDE DEF q, r
<1>2. q = B * h + l /\ h \in Nat /\ l \in 0..(B - 1)
  BY <1>1
<1> HIDE DEF h, l
<1>3. B * P \in Nat \ {0}
  OBVIOUS
<1>4. l * P + r \in Nat /\ l * P + r < B * P
  <2>1. l * P <= (B - 1) * P /\ l * P \in Nat
    BY <1>2
  <2>2. (B - 1) * P = B * P - P
    OBVIOUS
  <2> QED BY <1>1, <1>3, <2>1, <2>2
<1>5. n = (B * P) * h + (l * P + r)
  <2>1. P * q = P * (B * h) + P * l
    BY <1>1, <1>2
  <2>2. P * (B * h) = (B * P) * h /\ P * l = l * P
    BY <1>2
  <2> QED BY <1>1, <1>2, <2>1, <2>2
<1>6. n % (B * P) = l * P + r
  <2> DEFINE m == B * P
             s == l * P + r
  <2> HIDE DEF m, s
  <2>1. (m * h + s) % m = s
    BY <1>2, <1>3, <1>4, DivModUnique DEF m, s
  <2> QED BY <1>5, <2>1 DEF m, s
<1>7. l * P \in Int /\ r \in Int
  BY <1>1, <1>2
<1>8. l * P + r = r + l * P
  BY <1>7
<1> QED BY <1>6, <1>8 DEF q, r, l

\* M1LX in numbers.  What full() and parse() work with:
LEMMA WeightFacts ==
  /\ Weight[0] = 1
  /\ \A k \in 1..Width : Weight[k] = Base * Weight[k - 1]
  /\ \A k \in 0..Width : Weight[k] \in Nat \ {0}
<1>1. Width \in Nat /\ Base \in Nat /\ Base # 0
  BY HeaderAssumption
<1> DEFINE zeros == [i \in 1..Width |-> 0]
           IsWeight(f) == f = [k \in 0..Width |-> IF k = 0 THEN 1 ELSE Base * f[k - 1]]
<1>2. PICK f : Recursion(f, Width, Base, 1, zeros)
  <2>1. zeros \in [1..Width -> Nat] /\ 1 \in Nat
    OBVIOUS
  <2> HIDE DEF zeros
  <2> QED BY <1>1, <2>1, RecursionExists, Zenon
<1>3. /\ f \in [0..Width -> Nat] /\ f[0] = 1
      /\ \A i \in 1..Width : f[i] = Base * f[i - 1] + zeros[i]
  BY <1>2 DEF Recursion
<1>4. IsWeight(f)
  <2>1. \A k \in 0..Width : f[k] = IF k = 0 THEN 1 ELSE Base * f[k - 1]
    <3>1. ASSUME NEW k \in 1..Width PROVE f[k] = Base * f[k - 1]
      <4>1. k - 1 \in 0..Width
        BY <1>1
      <4>2. f[k - 1] \in Nat
        BY <1>3, <4>1
      <4>3. Base * f[k - 1] \in Nat
        BY <1>1, <4>2
      <4> QED BY <1>3, <4>3
    <3> QED BY <1>1, <1>3, <3>1
  <2> QED BY <1>3, <2>1
<1>5. Weight = CHOOSE g : IsWeight(g)
  BY DEF Weight
<1>6. IsWeight(Weight)
  <2> HIDE DEF IsWeight
  <2> QED BY <1>4, <1>5, Zenon
<1>7. Weight[0] = 1 /\ \A k \in 1..Width : Weight[k] = Base * Weight[k - 1]
  <2> DEFINE g == Weight
  <2>1. g = [k \in 0..Width |-> IF k = 0 THEN 1 ELSE Base * g[k - 1]]
    BY <1>6
  <2> HIDE DEF g
  <2>2. \A k \in 0..Width : g[k] = IF k = 0 THEN 1 ELSE Base * g[k - 1]
    BY <2>1
  <2>3. g[0] = 1 /\ \A k \in 1..Width : g[k] = Base * g[k - 1]
    BY <1>1, <2>2
  <2> QED BY <2>3 DEF g
<1> DEFINE Bad == {k \in 0..Width : Weight[k] \notin Nat \ {0}}
<1>8. ASSUME Bad # {} PROVE FALSE
  <2>1. PICK k \in Bad : \A j \in Bad : k <= j
    <3>1. Bad \in SUBSET Nat
      BY <1>1
    <3> HIDE DEF Bad
    <3> QED BY <1>8, <3>1, LeastMember
  <2>2. k \in 1..Width /\ Weight[k] \notin Nat \ {0}
    BY <1>1, <1>7
  <2>3. k - 1 \in 0..Width /\ ~(k <= k - 1)
    BY <1>1, <2>2
  <2>4. Weight[k - 1] \in Nat \ {0}
    BY <2>1, <2>3
  <2>5. \A x, y \in Nat \ {0} : x * y \in Nat \ {0}
    OBVIOUS
  <2> QED BY <1>1, <1>7, <2>2, <2>4, <2>5
<1>9. \A k \in 0..Width : Weight[k] \in Nat \ {0}
  BY <1>8
<1> QED BY <1>7, <1>9

LEMMA LowBytesType ==
  ASSUME NEW n \in Nat
  PROVE  LowBytes(n) \in [1..Width -> 0..(Base - 1)]
<1>1. ASSUME NEW i \in 1..Width PROVE (n \div Weight[i - 1]) % Base \in 0..(Base - 1)
  <2>1. Width \in Nat /\ Base \in Nat \ {0} /\ i - 1 \in 0..Width
    BY HeaderAssumption
  <2>2. Weight[i - 1] \in Nat \ {0}
    BY <2>1, WeightFacts
  <2>3. \A w \in Nat \ {0} : n \div w \in Nat
    OBVIOUS
  <2>4. n \div Weight[i - 1] \in Nat
    BY <2>2, <2>3
  <2> QED BY <2>1, <2>4
<1> QED BY <1>1 DEF LowBytes

\* The length that full() cuts to T is the one that parse() puts together.
LEMMA NumberOfLowBytes ==
  ASSUME NEW n \in Nat
  PROVE  Number(LowBytes(n)) = n % Weight[Width]
<1>1. Width \in Nat /\ Base \in Nat \ {0} /\ Base \in Nat
  BY HeaderAssumption
<1>2. /\ Weight[0] = 1 /\ \A k \in 0..Width : Weight[k] \in Nat \ {0}
      /\ \A k \in 1..Width : Weight[k] = Base * Weight[k - 1]
  BY WeightFacts
<1> DEFINE s == LowBytes(n)
           t == [i \in 1..Width |-> s[i] * Weight[i - 1]]
           IsSum(f) == f = [i \in 0..Width |-> IF i = 0 THEN 0 ELSE f[i - 1] + s[i] * Weight[i - 1]]
<1>3. ASSUME NEW i \in 1..Width
      PROVE  /\ i - 1 \in 0..Width /\ Weight[i - 1] \in Nat \ {0}
             /\ s[i] = (n \div Weight[i - 1]) % Base /\ s[i] \in Nat /\ t[i] \in Nat
             /\ t[i] = s[i] * Weight[i - 1]
  <2>1. i - 1 \in 0..Width
    BY <1>1
  <2>2. Weight[i - 1] \in Nat \ {0}
    BY <1>2, <2>1
  <2>3. s[i] = (n \div Weight[i - 1]) % Base
    BY DEF LowBytes
  <2>4. s[i] \in Nat
    BY <1>1, LowBytesType
  <2>5. t[i] = s[i] * Weight[i - 1]
    OBVIOUS
  <2> HIDE DEF s, t
  <2>6. t[i] \in Nat
    BY <2>2, <2>4, <2>5
  <2> QED BY <2>1, <2>2, <2>3, <2>4, <2>5, <2>6
<1> HIDE DEF s
<1>4. t \in [1..Width -> Nat]
  BY <1>3
<1> HIDE DEF t
<1>5. PICK f : Recursion(f, Width, 1, 0, t)
  <2>1. 0 \in Nat /\ 1 \in Nat
    OBVIOUS
  <2> QED BY <1>1, <1>4, <2>1, RecursionExists, Zenon
<1>6. /\ f \in [0..Width -> Nat] /\ f[0] = 0
       /\ \A i \in 1..Width : f[i] = 1 * f[i - 1] + t[i]
  BY <1>5 DEF Recursion
<1>7. IsSum(f)
  <2>1. ASSUME NEW i \in 1..Width PROVE f[i] = f[i - 1] + s[i] * Weight[i - 1]
    <3>1. f[i - 1] \in Nat
      BY <1>3, <1>6
    <3>2. f[i] = 1 * f[i - 1] + t[i] /\ 1 * f[i - 1] = f[i - 1]
      BY <1>6, <3>1
    <3> QED BY <1>3, <3>2
  <2>2. \A i \in 0..Width : f[i] = IF i = 0 THEN 0 ELSE f[i - 1] + s[i] * Weight[i - 1]
    BY <1>1, <1>6, <2>1
  <2> QED BY <1>6, <2>2
<1> DEFINE sum == CHOOSE g : IsSum(g)
<1>8. IsSum(sum)
  <2> HIDE DEF IsSum
  <2> QED BY <1>7, Zenon
<1>9. Number(s) = sum[Width]
  BY DEF Number
<1> HIDE DEF sum
<1>10. sum[0] = 0 /\ \A i \in 1..Width : sum[i] = sum[i - 1] + s[i] * Weight[i - 1]
  <2>1. \A i \in 0..Width : sum[i] = IF i = 0 THEN 0 ELSE sum[i - 1] + s[i] * Weight[i - 1]
    BY <1>8
  <2> QED BY <1>1, <2>1
<1> DEFINE Bad == {i \in 0..Width : sum[i] # n % Weight[i]}
<1>11. ASSUME Bad # {} PROVE FALSE
  <2>1. PICK i \in Bad : \A j \in Bad : i <= j
    <3>1. Bad \in SUBSET Nat
      BY <1>1
    <3> HIDE DEF Bad
    <3> QED BY <1>11, <3>1, LeastMember
  <2>2. i # 0
    <3>1. n % 1 = 0
      OBVIOUS
    <3> QED BY <1>2, <1>10, <3>1
  <2>3. i \in 1..Width /\ sum[i] # n % Weight[i]
    BY <1>1, <2>2
  <2>4. i - 1 \in 0..Width /\ ~(i <= i - 1)
    BY <1>1, <2>3
  <2>5. sum[i - 1] = n % Weight[i - 1]
    BY <2>1, <2>4
  <2> DEFINE w == Weight[i - 1]
  <2>6. w \in Nat \ {0} /\ s[i] = (n \div w) % Base /\ Weight[i] = Base * w /\ sum[i - 1] = n % w
        /\ sum[i] = sum[i - 1] + s[i] * w
    BY <1>2, <1>3, <1>10, <2>3, <2>5
  <2> HIDE DEF w
  <2>7. n % (Base * w) = (n % w) + ((n \div w) % Base) * w
    BY <1>1, <2>6, ModProduct
  <2> QED BY <2>3, <2>6, <2>7
<1>12. sum[Width] = n % Weight[Width]
  BY <1>1, <1>11
<1> QED BY <1>9, <1>12 DEF s

LEMMA ReverseTwice ==
  ASSUME NEW N \in Nat, NEW S, NEW s \in [1..N -> S]
  PROVE  Reverse(s) \in [1..N -> S] /\ Reverse(Reverse(s)) = s
<1> DEFINE r == Reverse(s)
<1>1. Len(s) = N
  OBVIOUS
<1>2. r = [i \in 1..N |-> s[N - i + 1]]
  BY <1>1 DEF Reverse
<1> HIDE DEF r
<1>3. r \in [1..N -> S]
  BY <1>2
<1>4. Reverse(r) = [i \in 1..N |-> r[N - i + 1]]
  <2>1. Len(r) = N
    BY <1>3
  <2> QED BY <2>1 DEF Reverse
<1>5. \A i \in 1..N : N - i + 1 \in 1..N /\ N - (N - i + 1) + 1 = i
  OBVIOUS
<1>6. \A i \in 1..N : r[N - i + 1] = s[i]
  BY <1>2, <1>5
<1>7. Reverse(r) = s
  BY <1>4, <1>6
<1> QED BY <1>3, <1>7 DEF r

\* The bytes of a length as a header has them.
Body(big, n) == IF big THEN Reverse(LowBytes(n)) ELSE LowBytes(n)

LEMMA FullFacts ==
  ASSUME NEW m, NEW n \in Nat, NEW i, m.magic[i] \in 0..(Base - 1)
  PROVE  /\ Full(m, n, i) \in [1..HeaderLength -> 0..(Base - 1)]
         /\ Tail(Full(m, n, i)) = Body(m.big, n)
<1> DEFINE B == 0..(Base - 1)
           x == m.magic[i]
           t == Body(m.big, n)
<1>1. Width \in Nat
  BY HeaderAssumption
<1>2. t \in [1..Width -> B] /\ x \in B
  BY <1>1, LowBytesType, ReverseTwice DEF Body
<1>3. Full(m, n, i) = <<x>> \o t
  BY DEF Full, Body
<1> HIDE DEF B, x, t
<1>4. t \in Seq(B) /\ Len(t) = Width /\ <<x>> \in Seq(B) /\ Len(<<x>>) = 1 /\ <<x>>[1] = x
  BY <1>1, <1>2
<1> DEFINE b == <<x>> \o t
<1>5. /\ b \in Seq(B) /\ Len(b) = 1 + Width
      /\ \A k \in 1..(1 + Width) : b[k] = IF k <= 1 THEN x ELSE t[k - 1]
  BY <1>4, ConcatProperties
<1> HIDE DEF b
<1>6. b \in [1..(Width + 1) -> B]
  <2>1. b \in [1..Len(b) -> B]
    BY <1>5, LenProperties, ElementOfSeq
  <2>2. 1 + Width = Width + 1
    BY <1>1
  <2> QED BY <1>5, <2>1, <2>2
<1>7. Tail(b) = t
  <2>1. b # <<>>
    BY <1>1, <1>5, EmptySeq
  <2>2. /\ Tail(b) \in Seq(B) /\ Len(Tail(b)) = Len(b) - 1
        /\ \A k \in 1..Len(Tail(b)) : Tail(b)[k] = b[k + 1]
    BY <1>5, <2>1, HeadTailProperties
  <2> DEFINE u == Tail(b)
  <2> HIDE DEF u
  <2>3. u \in Seq(B) /\ Len(u) = Width /\ \A k \in 1..Width : u[k] = t[k]
    <3>1. Len(u) = Width
      BY <1>1, <1>5, <2>2 DEF u
    <3>2. ASSUME NEW k \in 1..Width PROVE u[k] = t[k]
      <4>1. k + 1 \in 1..(1 + Width) /\ ~(k + 1 <= 1) /\ k + 1 - 1 = k
        BY <1>1
      <4> QED BY <1>5, <2>2, <3>1, <4>1 DEF u
    <3> QED BY <2>2, <3>1, <3>2 DEF u
  <2>4. u = t
    BY <1>4, <2>3, SeqEqual
  <2> QED BY <2>4 DEF u
<1> QED BY <1>3, <1>6, <1>7 DEF b, t, B, HeaderLength

-----------------------------------------------------------------------------
(* The header in buf is what full() makes of len, whatever became of the magic *)
(* slots since.                                                                *)

M1LXs == [magic : [0..(Slots - 1) -> Magics \cup {0}], big : BOOLEAN]

HeaderInv == TypeOK /\ Tail(buf) = Body(full.big, len)

\* Magic numbers are bytes, the 0 of an unused slot too.
LEMMA MagicBytes ==
  /\ Magics \cup {0} \subseteq 0..(Base - 1)
  /\ 0 \in 0..(Slots - 1)
  /\ \A n \in Lens \cup {0} : n \in Nat
BY HeaderAssumption

LEMMA NewM1LX ==
  ASSUME NEW magic \in Magics \cup {0}, NEW big \in BOOLEAN
  PROVE  M1LX(magic, big) \in M1LXs
BY DEF M1LX, M1LXs

\* full() of an M1LX.
LEMMA FilledHeader ==
  ASSUME full' \in M1LXs, parse' \in M1LXs,
         len' \in Lens \cup {0}, idx' \in 0..(Slots - 1), buf' = Full(full', len', idx')
  PROVE  HeaderInv'
<1>1. full'.magic[idx'] \in 0..(Base - 1) /\ len' \in Nat
  <2>1. full'.magic[idx'] \in Magics \cup {0}
    BY DEF M1LXs
  <2> QED BY <2>1, MagicBytes
<1>2. buf' \in [1..HeaderLength -> 0..(Base - 1)] /\ Tail(buf') = Body(full'.big, len')
  BY <1>1, FullFacts
<1> QED BY <1>2 DEF HeaderInv, TypeOK, M1LXs

LEMMA HeaderInit == Init => HeaderInv
<1> SUFFICES ASSUME Init PROVE HeaderInv
  OBVIOUS
<1>1. PICK a, b \in Magics, p, q \in BOOLEAN : full = M1LX(a, p) /\ parse = M1LX(b, q)
  BY DEF Init
<1>2. len = 0 /\ idx = 0 /\ buf = Full(full, 0, 0)
  BY DEF Init
<1>3. full \in M1LXs /\ parse \in M1LXs
  BY <1>1, NewM1LX
<1>4. full.magic[0] \in 0..(Base - 1) /\ 0 \in 0..(Slots - 1) /\ 0 \in Nat
  <2>1. full.magic[0] \in Magics \cup {0}
    BY <1>3, MagicBytes DEF M1LXs
  <2> QED BY <2>1, MagicBytes
<1>5. buf \in [1..HeaderLength -> 0..(Base - 1)] /\ Tail(buf) = Body(full.big, 0)
  BY <1>2, <1>4, FullFacts
<1> QED BY <1>2, <1>3, <1>4, <1>5 DEF HeaderInv, TypeOK, M1LXs

LEMMA HeaderStep == HeaderInv /\ [Next]_vars => HeaderInv'
<1> SUFFICES ASSUME HeaderInv, [Next]_vars PROVE HeaderInv'
  OBVIOUS
<1>1. full \in M1LXs /\ parse \in M1LXs
  BY DEF HeaderInv, TypeOK, M1LXs
<1>2. CASE Fill
  <2>1. /\ UNCHANGED <<full, parse>> /\ len' \in Lens \cup {0} /\ idx' \in 0..(Slots - 1)
        /\ buf' = Full(full, len', idx')
    BY <1>2 DEF Fill
  <2> QED BY <1>1, <2>1, FilledHeader
<1>3. CASE SetMagic
  <2>1. UNCHANGED <<len, idx, buf>>
    BY <1>3 DEF SetMagic
  <2>2. PICK i \in 0..(Slots - 1), a \in Magics :
          \/ full' = [full EXCEPT !.magic[i] = a] /\ UNCHANGED parse
          \/ parse' = [parse EXCEPT !.magic[i] = a] /\ UNCHANGED full
    BY <1>3 DEF SetMagic
  <2>3. ASSUME NEW m \in M1LXs PROVE LET n == [m EXCEPT !.magic[i] = a] IN n \in M1LXs /\ n.big = m.big
    BY <2>2 DEF M1LXs
  <2>4. full' \in M1LXs /\ parse' \in M1LXs /\ full'.big = full.big
    BY <1>1, <2>2, <2>3
  <2>5. Body(full'.big, len') = Body(full.big, len)
    BY <2>1, <2>4
  <2> QED BY <2>1, <2>4, <2>5 DEF HeaderInv, TypeOK, M1LXs
<1>4. CASE UNCHANGED vars
  BY <1>4 DEF vars, HeaderInv, TypeOK, Body
<1> QED BY <1>2, <1>3, <1>4 DEF Next

\* What parse() makes of a header.
LEMMA HeaderReadBack == HeaderInv => RoundTrip
<1> SUFFICES ASSUME HeaderInv, full.big = parse.big
             PROVE  Parse(parse, buf) = IF buf[1] \in {parse.magic[i] : i \in 0..(Slots - 1)}
                                        THEN len % Weight[Width] ELSE 0
  BY DEF RoundTrip
<1>1. len \in Nat /\ full.big \in BOOLEAN /\ Tail(buf) = Body(full.big, len) /\ Width \in Nat
  BY HeaderAssumption DEF HeaderInv, TypeOK
<1> DEFINE s == LowBytes(len)
<1>2. s \in [1..Width -> 0..(Base - 1)] /\ Number(s) = len % Weight[Width]
  BY <1>1, LowBytesType, NumberOfLowBytes
<1>3. Reverse(Reverse(s)) = s
  <2> DEFINE B == 0..(Base - 1)
  <2> HIDE DEF s, B
  <2>1. s \in [1..Width -> B]
    BY <1>2 DEF B
  <2> QED BY <1>1, <2>1, ReverseTwice, Zenon
<1>4. (IF parse.big THEN Reverse(Tail(buf)) ELSE Tail(buf)) = s
  <2>1. Tail(buf) = IF parse.big THEN Reverse(s) ELSE s
    BY <1>1 DEF Body
  <2> HIDE DEF s
  <2> QED BY <1>1, <1>3, <2>1
<1>5. (\E i \in 0..(Slots - 1) : parse.magic[i] = buf[1]) <=> buf[1] \in {parse.magic[i] : i \in 0..(Slots - 1)}
  OBVIOUS
<1> QED BY <1>2, <1>4, <1>5 DEF Parse

-----------------------------------------------------------------------------
(* DataComparer *)

\* Two different sequences of one length differ somewhere first.
LEMMA FirstDifference ==
  ASSUME NEW a \in Seq(Int), NEW b \in Seq(Int), Len(a) = Len(b), a # b
  PROVE  \E i \in Differ(a, b) : \A j \in Differ(a, b) : i <= j
<1>1. Differ(a, b) \subseteq Nat
  <2>1. Len(a) \in Nat
    BY LenProperties
  <2> QED BY <2>1 DEF Differ
<1>2. Differ(a, b) # {}
  <2> SUFFICES ASSUME \A i \in 1..Len(a) : a[i] = b[i] PROVE FALSE
    BY DEF Differ
  <2> QED BY SeqEqual
<1> QED BY <1>1, <1>2, LeastMember

\* DataComparer is a strict total order of all Data_, whatever their length and
\* whatever the range of a char, and cmp() with one that has chars is its equality.
THEOREM DataComparerOrders == OrdersStrictly(Seq(Int))
<1> SUFFICES ASSUME NEW a \in Seq(Int), NEW b \in Seq(Int)
             PROVE  /\ Less(a, b) => ~Less(b, a) /\ a # b
                    /\ Less(a, b) \/ Less(b, a) \/ a = b
                    /\ \A c \in Seq(Int) : Less(a, b) /\ Less(b, c) => Less(a, c)
                    /\ Len(b) > 0 => \A beyond \in Seq(Int) : Cmp(a, b, beyond) <=> a = b
  BY DEF OrdersStrictly
<1>1. ASSUME NEW s \in Seq(Int) PROVE Len(s) \in Nat /\ \A i \in 1..Len(s) : s[i] \in Int
  BY LenProperties, ElementOfSeq
<1>2. Less(a, b) => ~Less(b, a) /\ a # b
  <2> SUFFICES ASSUME Less(a, b) PROVE ~Less(b, a) /\ a # b
    OBVIOUS
  <2>1. CASE Len(a) # Len(b)
    BY <1>1, <2>1 DEF Less
  <2>2. CASE Len(a) = Len(b)
    <3>1. PICK i \in Differ(a, b) : (\A j \in Differ(a, b) : i <= j) /\ a[i] < b[i]
      BY <2>2 DEF Less
    <3>2. Differ(b, a) = Differ(a, b)
      BY <2>2 DEF Differ
    <3>3. ASSUME NEW k \in Differ(a, b), \A j \in Differ(a, b) : k <= j PROVE ~(b[k] < a[k])
      <4>1. i \in 1..Len(a) /\ k \in 1..Len(a) /\ a[i] \in Int /\ b[i] \in Int
        BY <1>1, <2>2, <3>1 DEF Differ
      <4>2. k = i
        BY <1>1, <3>1, <3>3, <4>1
      <4> QED BY <3>1, <4>1, <4>2
    <3>4. a # b
      BY <3>1 DEF Differ
    <3> QED BY <2>2, <3>2, <3>3, <3>4 DEF Less
  <2> QED BY <2>1, <2>2
<1>3. Less(a, b) \/ Less(b, a) \/ a = b
  <2>1. CASE Len(a) # Len(b)
    BY <1>1, <2>1 DEF Less
  <2>2. CASE Len(a) = Len(b) /\ a # b
    <3>1. PICK i \in Differ(a, b) : \A j \in Differ(a, b) : i <= j
      BY <2>2, FirstDifference
    <3>2. Differ(b, a) = Differ(a, b)
      BY <2>2 DEF Differ
    <3>3. a[i] < b[i] \/ b[i] < a[i]
      BY <1>1, <2>2, <3>1 DEF Differ
    <3> QED BY <2>2, <3>1, <3>2, <3>3 DEF Less
  <2> QED BY <2>1, <2>2
<1>4. ASSUME Len(b) > 0, NEW beyond PROVE Cmp(a, b, beyond) <=> a = b
  <2>1. Len(a) = Len(b) /\ Differ(a, b) = {} => a = b
    BY SeqEqual DEF Differ
  <2>2. a = b => Differ(a, b) = {}
    BY DEF Differ
  <2> QED BY <1>1, <1>4, <2>1, <2>2 DEF Cmp
<1>5. ASSUME NEW c \in Seq(Int), Less(a, b), Less(b, c) PROVE Less(a, c)
  <2>1. CASE Len(a) # Len(b) \/ Len(b) # Len(c)
    BY <1>1, <1>5, <2>1 DEF Less
  <2>2. CASE Len(a) = Len(b) /\ Len(b) = Len(c)
    <3>1. PICK i \in Differ(a, b) : (\A j \in Differ(a, b) : i <= j) /\ a[i] < b[i]
      BY <1>5, <2>2 DEF Less
    <3>2. PICK k \in Differ(b, c) : (\A j \in Differ(b, c) : k <= j) /\ b[k] < c[k]
      BY <1>5, <2>2 DEF Less
    <3>3. /\ i \in 1..Len(a) /\ k \in 1..Len(a) /\ Len(a) \in Nat
          /\ a[i] \in Int /\ b[i] \in Int /\ c[i] \in Int
          /\ a[k] \in Int /\ b[k] \in Int /\ c[k] \in Int
      BY <1>1, <2>2 DEF Differ
    <3>4. /\ \A j \in 1..Len(a) : j < i => a[j] = b[j]
          /\ \A j \in 1..Len(a) : j < k => b[j] = c[j]
      BY <2>2, <3>1, <3>2, <3>3 DEF Differ
    <3>5. PICK m \in 1..Len(a) : m <= i /\ m <= k /\ (m = i \/ m = k)
      BY <3>3
    <3>6. /\ a[m] \in Int /\ b[m] \in Int /\ c[m] \in Int
          /\ (a[m] < b[m] /\ b[m] <= c[m]) \/ (a[m] <= b[m] /\ b[m] < c[m])
      <4>1. CASE m = i /\ m = k
        BY <3>1, <3>2, <3>3, <4>1
      <4>2. CASE m = i /\ m < k
        <5>1. b[m] = c[m]
          BY <3>4, <4>2
        <5>2. a[m] < b[m]
          BY <3>1, <4>2
        <5>3. a[m] \in Int /\ b[m] \in Int
          BY <3>3, <4>2
        <5> QED BY <5>1, <5>2, <5>3
      <4>3. CASE m = k /\ m < i
        <5>1. a[m] = b[m]
          BY <3>4, <4>3
        <5>2. b[m] < c[m]
          BY <3>2, <4>3
        <5>3. b[m] \in Int /\ c[m] \in Int
          BY <3>3, <4>3
        <5> QED BY <5>1, <5>2, <5>3
      <4> QED BY <3>3, <3>5, <4>1, <4>2, <4>3
    <3>7. m \in Differ(a, c) /\ a[m] < c[m]
      <4>1. a[m] < c[m] /\ a[m] # c[m]
        BY <3>6
      <4> QED BY <4>1 DEF Differ
    <3>8. \A j \in Differ(a, c) : m <= j
      BY <3>3, <3>4, <3>5 DEF Differ
    <3> QED BY <2>2, <3>7, <3>8 DEF Less
  <2> QED BY <2>1, <2>2
<1> QED BY <1>2, <1>3, <1>4, <1>5

-----------------------------------------------------------------------------
LEMMA OneElement ==
  ASSUME NEW x, NEW S, S = {x}
  PROVE  IsFiniteSet(S) /\ Cardinality(S) = 1
<1>1. \A v : IsFiniteSet({v}) /\ Cardinality({v}) = 1
  BY FS_Singleton, Zenon
<1> QED BY <1>1, Zenon

\* What v_cwf_log_file skips is a proper part of the path.
LEMMA LogFileInside ==
  ASSUME NEW path \in Nat \ {0}, NEW separators \in SUBSET (0..(path - 1))
  PROVE  LogFile(separators, path) \in 0..(path - 1)
<1> DEFINE S == {o \in separators : 0 < o /\ o < path
                                 /\ Cardinality({p \in separators : o <= p /\ p < path}) = Prefix}
<1>1. S \subseteq 0..(path - 1)
  OBVIOUS
<1>2. LogFile(separators, path) = IF S = {} THEN 0 ELSE CHOOSE o \in S : TRUE
  BY DEF LogFile
<1> HIDE DEF S
<1>3. CASE S = {}
  BY <1>2, <1>3
<1>4. CASE S # {}
  <2>1. (CHOOSE o \in S : TRUE) \in S
    BY <1>4, Zenon
  <2> QED BY <1>1, <1>2, <1>4, <2>1
<1> QED BY <1>3, <1>4

LEMMA DigitsOfLine ==
  ASSUME NEW line \in Nat, line <= 9999
  PROVE  Digits(line) \in 1..4
<1> DEFINE D == {d \in {10, 100, 1000, 10000, 100000} : d <= line}
<1>1. PICK x, y, z \in Nat : x = 10 /\ y = 100 /\ z = 1000
  OBVIOUS
<1> DEFINE S == {x}
<1> DEFINE T == S \cup {y}
<1> DEFINE U == T \cup {z}
<1>2. Cardinality(D) \in Nat /\ Cardinality(D) <= 3
  <2>1. ASSUME NEW d \in D PROVE d = x \/ d = y \/ d = z
    <3>1. d \in {10, 100, 1000, 10000, 100000} /\ d <= line /\ line \in Int /\ line <= 9999
      OBVIOUS
    <3>2. d \in {10, 100, 1000}
      BY <3>1
    <3> QED BY <1>1, <3>2
  <2> HIDE DEF D
  <2>2. D \in SUBSET U
    BY <2>1
  <2>3. IsFiniteSet(S) /\ Cardinality(S) = 1
    BY OneElement
  <2> HIDE DEF S
  <2>4. IsFiniteSet(T) /\ Cardinality(T) \in Nat /\ Cardinality(T) <= 2
    BY <2>3, FS_AddElement
  <2> HIDE DEF T
  <2>5. IsFiniteSet(U) /\ Cardinality(U) \in Nat /\ Cardinality(U) <= 3
    BY <2>4, FS_AddElement
  <2> HIDE DEF U
  <2>6. IsFiniteSet(D) /\ Cardinality(D) <= Cardinality(U)
    BY <2>2, <2>5, FS_Subset
  <2>7. Cardinality(D) \in Nat
    BY <2>6, FS_CardinalityType
  <2> QED BY <2>5, <2>6, <2>7
<1> QED BY <1>2 DEF Digits

\* v_cwf_log_print in a source file of less than 10000 lines: the file's tail is
\* inside the path, and the line fits its buffer, for any path and format.
THEOREM LogLineFits ==
  ASSUME NEW path \in Nat \ {0}, NEW separators \in SUBSET (0..(path - 1)),
         NEW fmt \in Nat, NEW line \in Nat, line <= 9999
  PROVE  LET tfile == path - LogFile(separators, path)
         IN  tfile \in 1..path /\ LogWritten(tfile, line, fmt) <= LogBuffer(tfile, fmt)
<1> DEFINE tfile == path - LogFile(separators, path)
<1>1. tfile \in 1..path
  BY LogFileInside
<1>2. Digits(line) \in 1..4
  BY DigitsOfLine
<1> HIDE DEF tfile
<1>3. LogWritten(tfile, line, fmt) <= LogBuffer(tfile, fmt)
  BY <1>1, <1>2 DEF LogWritten, LogBuffer
<1> QED BY <1>1, <1>3 DEF tfile

-----------------------------------------------------------------------------
(* inflate() and its buffer.                                                   *)

Pack == [offset : Nat, was : Seq(Int)]

\* The bytes above the k-th deflate: the data, or what the deflate before it took.
Above(k) == IF k = 1 THEN data ELSE packs[k - 1].was

\* a and b have the same n bytes, and b more than those.
SharePrefix(a, b, n) == n <= Len(a) /\ n < Len(b) /\ \A i \in 1..n : a[i] = b[i]

\* No deflate touched the bytes before its offset, and none left nothing.
PacksInv ==
  /\ \A k \in 1..Len(packs) : SharePrefix(Above(k), packs[k].was, packs[k].offset)
  /\ data = <<>> => packs = <<>>

\* What inflate() has in ndata: the bytes before the offset, and what it wrote.
JobInv ==
  /\ job # "none" => /\ data # <<>>
                     /\ off <= Len(data) /\ off + out <= Len(ndata)
                     /\ \A i \in 1..off : ndata[i] = data[i]
  /\ job # "none" /\ Streams => /\ off + out <= Len(Head(packs).was)
                                /\ \A i \in 1..(off + out) : ndata[i] = Head(packs).was[i]
  /\ job = "inflate" => off + out < Len(ndata)

PayloadInv == DataTypeOK /\ PacksInv /\ JobInv

LEMMA NotEmpty == \A s : Len(s) # 0 => s # <<>>
BY EmptySeq

\* An array of n chars.
LEMMA Array ==
  ASSUME NEW n \in Nat, NEW f, f \in [1..n -> Int]
  PROVE  f \in Seq(Int) /\ Len(f) = n
OBVIOUS

LEMMA Types ==
  ASSUME DataTypeOK
  PROVE  /\ Len(data) \in Nat /\ Len(ndata) \in Nat /\ Len(packs) \in Nat
         /\ \A i \in 1..Len(data) : data[i] \in Int
         /\ \A i \in 1..Len(ndata) : ndata[i] \in Int
         /\ data # <<>> => Len(data) > 0
         /\ packs # <<>> => /\ Len(packs) > 0 /\ Head(packs) = packs[1]
                            /\ Head(packs) \in Pack /\ Tail(packs) \in Seq(Pack)
                            /\ Len(Head(packs).was) \in Nat
                            /\ \A i \in 1..Len(Head(packs).was) : Head(packs).was[i] \in Int
<1>1. data \in Seq(Int) /\ ndata \in Seq(Int) /\ packs \in Seq(Pack)
  BY DEF DataTypeOK, Pack
<1>2. ASSUME packs # <<>>
      PROVE  /\ Len(packs) > 0 /\ Head(packs) = packs[1]
             /\ Head(packs) \in Pack /\ Tail(packs) \in Seq(Pack)
  BY <1>1, <1>2, HeadTailProperties, EmptySeq, LenProperties
<1>3. ASSUME NEW p \in Pack PROVE Len(p.was) \in Nat /\ \A i \in 1..Len(p.was) : p.was[i] \in Int
  <2>1. p.was \in Seq(Int)
    BY DEF Pack
  <2> QED BY <2>1, LenProperties, ElementOfSeq
<1>4. /\ Len(data) \in Nat /\ Len(ndata) \in Nat /\ Len(packs) \in Nat
      /\ \A i \in 1..Len(data) : data[i] \in Int
      /\ \A i \in 1..Len(ndata) : ndata[i] \in Int
      /\ data # <<>> => Len(data) > 0
  BY <1>1, LenProperties, ElementOfSeq, EmptySeq
<1> QED BY <1>2, <1>3, <1>4

LEMMA InitPayload == PayloadInit => PayloadInv
<1> SUFFICES ASSUME PayloadInit PROVE PayloadInv
  OBVIOUS
<1>1. data = <<>> /\ packs = <<>> /\ ndata = <<>> /\ job = "none" /\ off = 0 /\ out = 0 /\ ret = 0
  BY DEF PayloadInit
<1>2. data \in Seq(Int) /\ ndata \in Seq(Int) /\ packs \in Seq(Pack) /\ Len(packs) = 0
  BY <1>1, EmptySeq
<1>3. DataTypeOK
  BY <1>1, <1>2 DEF DataTypeOK, Pack
<1>4. PacksInv /\ JobInv
  BY <1>1, <1>2 DEF PacksInv, JobInv
<1> QED BY <1>3, <1>4 DEF PayloadInv

\* A step that leaves the data alone, outside of inflate().
LEMMA SamePacks ==
  ASSUME PacksInv, UNCHANGED <<data, packs>>
  PROVE  PacksInv'
<1>1. \A k : Above(k)' = Above(k)
  BY DEF Above
<1> QED BY <1>1 DEF PacksInv

LEMMA DeliverPayload == PayloadInv /\ Deliver => PayloadInv'
<1> SUFFICES ASSUME PayloadInv, Deliver PROVE PayloadInv'
  OBVIOUS
<1>1. PICK n \in Nat \ {0} : data' = [i \in 1..n |-> i]
  BY DEF Deliver
<1>2. data' \in Seq(Int) /\ Len(data') = n /\ data' # <<>>
  <2> DEFINE f == [i \in 1..n |-> i]
  <2>1. f \in [1..n -> Int]
    OBVIOUS
  <2> HIDE DEF f
  <2>2. f \in Seq(Int) /\ Len(f) = n
    BY <2>1, Array
  <2> QED BY <1>1, <2>2, EmptySeq DEF f
<1>3. packs = <<>> /\ UNCHANGED <<packs, job, off, ndata, out, ret>>
  BY DEF PayloadInv, PacksInv, Deliver, zVars
<1>4. job = "none"
  BY DEF PayloadInv, JobInv, Deliver
<1>5. PacksInv'
  BY <1>2, <1>3, EmptySeq DEF PacksInv
<1>6. DataTypeOK' /\ JobInv'
  BY <1>2, <1>3, <1>4 DEF PayloadInv, DataTypeOK, JobInv
<1> QED BY <1>5, <1>6 DEF PayloadInv

\* A deflate on top of the others.
LEMMA DeflatedPacks ==
  ASSUME PayloadInv, data # <<>>, NEW o \in 0..Len(data), NEW n \in 1..(Len(data) - o),
         data' = [i \in 1..(o + n) |-> IF i <= o THEN data[i] ELSE Zipped],
         packs' = <<[offset |-> o, was |-> data]>> \o packs
  PROVE  /\ data' \in Seq(Int) /\ packs' \in Seq(Pack)
         /\ PacksInv'
<1> DEFINE p == [offset |-> o, was |-> data]
<1>1. /\ Len(data) \in Nat /\ data \in Seq(Int) /\ o \in Nat /\ o < Len(data) /\ o + n \in Nat /\ n >= 1
      /\ \A i \in 1..Len(data) : data[i] \in Int
  BY Types DEF PayloadInv, DataTypeOK
<1>2. data' \in Seq(Int) /\ Len(data') = o + n
  <2> DEFINE f == [i \in 1..(o + n) |-> IF i <= o THEN data[i] ELSE Zipped]
  <2>1. f \in [1..(o + n) -> Int]
    BY <1>1 DEF Zipped
  <2>2. data' = f
    OBVIOUS
  <2> HIDE DEF f
  <2> QED BY <1>1, <2>1, <2>2, Array
<1>3. SharePrefix(data', data, o)
  BY <1>1, <1>2 DEF SharePrefix
<1>4. p \in Pack /\ p.offset = o /\ p.was = data
  BY <1>1 DEF Pack
<1> HIDE DEF p
<1>5. packs \in Seq(Pack) /\ <<p>> \in Seq(Pack) /\ Len(<<p>>) = 1 /\ <<p>>[1] = p /\ packs' = <<p>> \o packs
  BY <1>4 DEF PayloadInv, DataTypeOK, Pack, p
<1>6. /\ packs' \in Seq(Pack) /\ Len(packs') = 1 + Len(packs) /\ Len(packs) \in Nat
      /\ \A i \in 1..(1 + Len(packs)) : packs'[i] = IF i <= 1 THEN p ELSE packs[i - 1]
  BY <1>5, ConcatProperties, LenProperties
<1>7. ASSUME NEW k \in 1..Len(packs')
      PROVE  SharePrefix(Above(k)', packs'[k].was, packs'[k].offset)
  <2>1. CASE k = 1
    BY <1>3, <1>4, <1>6, <2>1 DEF Above
  <2>2. CASE k # 1
    <3>1. k - 1 \in 1..Len(packs) /\ packs'[k] = packs[k - 1] /\ k - 1 \in 1..(1 + Len(packs))
      BY <1>6, <2>2
    <3>2. SharePrefix(Above(k - 1), packs[k - 1].was, packs[k - 1].offset)
      BY <3>1 DEF PayloadInv, PacksInv
    <3>3. Above(k)' = packs'[k - 1].was
      BY <2>2 DEF Above
    <3>4. packs'[k - 1].was = Above(k - 1)
      BY <1>4, <1>6, <3>1 DEF Above
    <3> QED BY <3>1, <3>2, <3>3, <3>4
  <2> QED BY <2>1, <2>2
<1>8. data' # <<>>
  <2>1. Len(data') # 0
    BY <1>1, <1>2
  <2> QED BY <2>1, NotEmpty
<1> QED BY <1>2, <1>6, <1>7, <1>8 DEF PacksInv

LEMMA DeflatePayload == PayloadInv /\ Deflate => PayloadInv'
<1> SUFFICES ASSUME PayloadInv, Deflate PROVE PayloadInv'
  OBVIOUS
<1>1. UNCHANGED <<job, off, ndata, out>> /\ ret' \in {0, -1} /\ data # <<>> /\ job = "none"
  BY DEF Deflate
<1>2. CASE UNCHANGED <<data, packs>>
  BY <1>1, <1>2, SamePacks DEF PayloadInv, DataTypeOK, JobInv
<1>3. ASSUME NEW o \in 0..Len(data), NEW n \in 1..(Len(data) - o),
             data' = [i \in 1..(o + n) |-> IF i <= o THEN data[i] ELSE Zipped],
             packs' = <<[offset |-> o, was |-> data]>> \o packs
      PROVE  PayloadInv'
  <2>1. data' \in Seq(Int) /\ packs' \in Seq(Pack) /\ PacksInv'
    BY <1>1, <1>3, DeflatedPacks
  <2> QED BY <1>1, <2>1 DEF PayloadInv, DataTypeOK, JobInv, Pack
<1> QED BY <1>2, <1>3 DEF Deflate

\* The memcpy of what the data has before the offset.
LEMMA InflatePayload == PayloadInv /\ Inflate => PayloadInv'
<1> SUFFICES ASSUME PayloadInv, Inflate PROVE PayloadInv'
  OBVIOUS
<1> DEFINE l == Len(data)
<1>1. l \in Nat /\ l > 0 /\ data # <<>> /\ \A i \in 1..l : data[i] \in Int
  BY Types DEF Inflate, PayloadInv
<1>2. /\ UNCHANGED <<data, packs, ret>> /\ job' = "inflate" /\ out' = 0 /\ off' \in 0..l
      /\ ndata' = [i \in 1..(2 * l) |-> IF i <= off' THEN data[i] ELSE Junk]
  BY DEF Inflate, dataVars
<1> HIDE DEF l
<1>3. off' \in Nat /\ off' <= l /\ 2 * l \in Nat /\ off' < 2 * l
  BY <1>1, <1>2
<1>4. ndata' \in Seq(Int) /\ Len(ndata') = 2 * l
  <2> DEFINE f == [i \in 1..(2 * l) |-> IF i <= off' THEN data[i] ELSE Junk]
  <2>1. f \in [1..(2 * l) -> Int]
    BY <1>1, <1>3 DEF Junk
  <2>2. ndata' = f
    BY <1>2
  <2> HIDE DEF f
  <2> QED BY <1>3, <2>1, <2>2, Array
<1>5. \A i \in 1..off' : ndata'[i] = data[i]
  BY <1>2, <1>3
<1>6. ASSUME Streams'
      PROVE  off' + out' <= Len(Head(packs).was) /\ \A i \in 1..(off' + out') : ndata'[i] = Head(packs).was[i]
  <2>1. packs # <<>> /\ Head(packs).offset = off'
    BY <1>2, <1>6 DEF Streams
  <2>2. Head(packs) = packs[1] /\ 1 \in 1..Len(packs) /\ Len(Head(packs).was) \in Nat
    BY <2>1, Types DEF PayloadInv
  <2>3. SharePrefix(data, Head(packs).was, off')
    BY <2>1, <2>2 DEF PayloadInv, PacksInv, Above
  <2> QED BY <1>2, <1>3, <1>5, <2>2, <2>3 DEF SharePrefix
<1>7. JobInv'
  <2>1. data' # <<>> /\ off' <= Len(data') /\ off' + out' < Len(ndata')
    BY <1>1, <1>2, <1>3, <1>4 DEF l
  <2>2. \A i \in 1..off' : ndata'[i] = data'[i]
    BY <1>2, <1>5
  <2>3. Streams' => /\ off' + out' <= Len(Head(packs').was)
                    /\ \A i \in 1..(off' + out') : ndata'[i] = Head(packs').was[i]
    BY <1>2, <1>6
  <2>4. off' + out' <= Len(ndata')
    BY <1>2, <1>3, <1>4, <2>1
  <2> QED BY <2>1, <2>2, <2>3, <2>4 DEF JobInv
<1>8. DataTypeOK'
  BY <1>2, <1>3, <1>4 DEF PayloadInv, DataTypeOK
<1> QED BY <1>2, <1>7, <1>8, SamePacks DEF PayloadInv

\* What ::inflate writes.
LEMMA WrittenFacts ==
  ASSUME PayloadInv, job = "inflate", NEW n \in Nat, n <= AvailOut, Streams => n <= Rest
  PROVE  /\ Written(n) \in Seq(Int) /\ Len(Written(n)) = Len(ndata)
         /\ \A i \in 1..off : Written(n)[i] = data[i]
         /\ Streams => \A i \in 1..(off + out + n) : Written(n)[i] = Head(packs).was[i]
         /\ off + out + n <= Len(ndata)
         /\ Streams => off + out + n <= Len(Head(packs).was)
<1> DEFINE w == Written(n)
           m == Len(ndata)
           h == Head(packs).was
           a == off + out
<1>1. /\ m \in Nat /\ off \in Nat /\ out \in Nat /\ a \in Nat /\ off <= a
      /\ off <= Len(data) /\ a <= m /\ Len(data) \in Nat
      /\ \A i \in 1..m : ndata[i] \in Int
      /\ \A i \in 1..off : ndata[i] = data[i]
  BY Types DEF PayloadInv, DataTypeOK, JobInv
<1>2. Streams => /\ Len(h) \in Nat /\ a <= Len(h) /\ \A i \in 1..Len(h) : h[i] \in Int
                 /\ \A i \in 1..a : ndata[i] = h[i]
  BY Types DEF PayloadInv, JobInv, Streams
<1>3. a + n <= m /\ (Streams => a + n <= Len(h))
  BY <1>1, <1>2 DEF AvailOut, Rest
<1>4. w = [i \in 1..m |-> IF a < i /\ i <= a + n THEN IF Streams THEN h[i] ELSE Junk ELSE ndata[i]]
  BY DEF Written
<1> HIDE DEF w, m, h, a
<1>5. \A i \in 1..m : w[i] \in Int
  BY <1>1, <1>2, <1>3, <1>4 DEF Junk
<1>6. w \in [1..m -> Int]
  BY <1>4, <1>5
<1>7. w \in Seq(Int) /\ Len(w) = m
  BY <1>1, <1>6, Array
<1>8. \A i \in 1..off : w[i] = data[i]
  BY <1>1, <1>4
<1>9. Streams => \A i \in 1..(a + n) : w[i] = h[i]
  BY <1>1, <1>2, <1>3, <1>4
<1> QED BY <1>3, <1>7, <1>8, <1>9 DEF w, m, h, a

LEMMA InflateSomePayload == PayloadInv /\ InflateSome => PayloadInv'
<1> SUFFICES ASSUME PayloadInv, InflateSome PROVE PayloadInv'
  OBVIOUS
<1>1. /\ UNCHANGED <<data, packs, off, ret>> /\ job = "inflate" /\ job' = "grow"
      /\ off \in Nat /\ out \in Nat /\ Len(ndata) \in Nat
  BY Types DEF InflateSome, dataVars, PayloadInv, DataTypeOK
<1>2. PICK n \in 0..AvailOut : (Streams => n <= Rest) /\ ndata' = Written(n) /\ out' = out + n
  BY DEF InflateSome
<1>3. n \in Nat /\ n <= AvailOut
  BY <1>1, <1>2 DEF AvailOut
<1>4. /\ ndata' \in Seq(Int) /\ Len(ndata') = Len(ndata)
      /\ \A i \in 1..off : ndata'[i] = data[i]
      /\ Streams => \A i \in 1..(off + out + n) : ndata'[i] = Head(packs).was[i]
      /\ off + out + n <= Len(ndata)
      /\ Streams => off + out + n <= Len(Head(packs).was)
  BY <1>1, <1>2, <1>3, WrittenFacts
<1>5. (Streams' = Streams) /\ off' + out' = off + out + n /\ out' \in Nat
  BY <1>1, <1>2, <1>3 DEF Streams
<1>6. JobInv'
  BY <1>1, <1>4, <1>5 DEF PayloadInv, JobInv
<1>7. DataTypeOK'
  BY <1>1, <1>4, <1>5 DEF PayloadInv, DataTypeOK
<1> QED BY <1>1, <1>6, <1>7, SamePacks DEF PayloadInv

\* The memcpy to the larger buffer.
LEMMA GrowPayload == PayloadInv /\ Grow => PayloadInv'
<1> SUFFICES ASSUME PayloadInv, Grow PROVE PayloadInv'
  OBVIOUS
<1> DEFINE m == Len(ndata)
           l == Len(data)
<1>1. /\ UNCHANGED <<data, packs, off, out, ret>> /\ job = "grow" /\ job' = "inflate"
      /\ ndata' = [i \in 1..(m + 2 * l) |-> IF i <= m THEN ndata[i] ELSE Junk]
  BY DEF Grow, dataVars
<1>2. /\ off \in Nat /\ out \in Nat /\ m \in Nat /\ l \in Nat /\ l > 0 /\ off <= m /\ off + out <= m
      /\ \A i \in 1..m : ndata[i] \in Int
  BY <1>1, Types DEF PayloadInv, DataTypeOK, JobInv
<1> HIDE DEF m, l
<1>3. m + 2 * l \in Nat /\ m < m + 2 * l
  BY <1>2
<1>4. ndata' \in Seq(Int) /\ Len(ndata') = m + 2 * l
  <2> DEFINE f == [i \in 1..(m + 2 * l) |-> IF i <= m THEN ndata[i] ELSE Junk]
  <2>1. f \in [1..(m + 2 * l) -> Int]
    BY <1>2 DEF Junk
  <2>2. ndata' = f
    BY <1>1
  <2> HIDE DEF f
  <2> QED BY <1>3, <2>1, <2>2, Array
<1>5. \A i \in 1..m : ndata'[i] = ndata[i]
  BY <1>1, <1>2, <1>3
<1>6. Streams' = Streams
  BY <1>1 DEF Streams
<1>7. \A i \in 1..(off + out) : ndata'[i] = ndata[i]
  BY <1>2, <1>5
<1>8. \A i \in 1..off : ndata'[i] = ndata[i]
  BY <1>2, <1>5
<1>9. off' + out' < Len(ndata')
  BY <1>1, <1>2, <1>3, <1>4
<1>10. JobInv'
  BY <1>1, <1>2, <1>4, <1>6, <1>7, <1>8, <1>9 DEF PayloadInv, JobInv
<1>11. DataTypeOK'
  BY <1>1, <1>2, <1>3, <1>4 DEF PayloadInv, DataTypeOK
<1> QED BY <1>1, <1>10, <1>11, SamePacks DEF PayloadInv

LEMMA InflateFailsPayload == PayloadInv /\ InflateFails => PayloadInv'
<1> SUFFICES ASSUME PayloadInv, InflateFails PROVE PayloadInv'
  OBVIOUS
<1>1. /\ UNCHANGED <<data, packs>> /\ job' = "none" /\ ret' = -1
      /\ off' = 0 /\ ndata' = <<>> /\ out' = 0 /\ ndata' \in Seq(Int)
  <2>1. <<>> \in Seq(Int)
    BY EmptySeq
  <2> QED BY <2>1 DEF InflateFails, dataVars
<1> QED BY <1>1, SamePacks DEF PayloadInv, DataTypeOK, JobInv

\* The data inflate() ends with is what the last deflate() took.
LEMMA Restored ==
  ASSUME PayloadInv, InflateEnd
  PROVE  data' = Head(packs).was
<1> DEFINE h == Head(packs).was
           a == off + out
<1>1. /\ packs # <<>> /\ off \in Nat /\ out \in Nat /\ a \in Nat /\ a <= Len(h) /\ Streams
      /\ job = "inflate" /\ Rest = Len(h) - off - out /\ Rest <= AvailOut
  <2>1. Streams /\ job = "inflate" /\ Rest <= AvailOut
    BY DEF InflateEnd
  <2>2. packs # <<>> /\ Rest = Len(h) - off - out
    BY <2>1 DEF Streams, Rest
  <2>3. off \in Nat /\ out \in Nat /\ a <= Len(h)
    BY <2>1 DEF PayloadInv, DataTypeOK, JobInv
  <2> QED BY <2>1, <2>2, <2>3
<1>2. Len(h) \in Nat /\ h \in Seq(Int)
  BY <1>1, Types DEF PayloadInv, Pack
<1>3. Rest \in Nat /\ off + out + Rest = Len(h)
  <2> DEFINE m == Len(h)
             r == Rest
  <2>1. off \in Nat /\ out \in Nat /\ m \in Nat /\ off + out <= m /\ r = m - off - out
    BY <1>1, <1>2
  <2> HIDE DEF m, r
  <2>2. r \in Nat /\ off + out + r = m
    BY <2>1
  <2> QED BY <2>2 DEF m, r
<1>4. \A i \in 1..Len(h) : Written(Rest)[i] = h[i]
  <2>1. Streams /\ job = "inflate" /\ Rest \in Nat /\ Rest <= AvailOut /\ Rest <= Rest
    BY <1>1, <1>3
  <2>2. ASSUME NEW n \in Nat, n <= AvailOut, n = Rest
        PROVE  Streams => \A i \in 1..(off + out + n) : Written(n)[i] = Head(packs).was[i]
    <3>1. Streams => n <= Rest
      BY <2>1, <2>2
    <3> QED BY <2>1, <2>2, <3>1, WrittenFacts
  <2> QED BY <1>3, <2>1, <2>2
<1>5. data' = [i \in 1..Len(h) |-> Written(Rest)[i]]
  BY <1>3 DEF InflateEnd
<1> HIDE DEF h
<1>6. data' = [i \in 1..Len(h) |-> h[i]]
  BY <1>4, <1>5
<1>7. h = [i \in 1..Len(h) |-> h[i]]
  BY <1>2
<1> QED BY <1>6, <1>7 DEF h

LEMMA InflateEndPayload == PayloadInv /\ InflateEnd => PayloadInv'
<1> SUFFICES ASSUME PayloadInv, InflateEnd PROVE PayloadInv'
  OBVIOUS
<1> DEFINE t == Tail(packs)
           d == Head(packs).was
<1>1. /\ data' = d /\ packs' = t
      /\ job' = "none" /\ ret' = 0 /\ off' = 0 /\ ndata' = <<>> /\ out' = 0
  BY Restored DEF InflateEnd
<1>2. packs # <<>> /\ packs \in Seq(Pack)
  BY DEF InflateEnd, Streams, PayloadInv, DataTypeOK, Pack
<1>3. /\ Head(packs) = packs[1] /\ Head(packs) \in Pack /\ t \in Seq(Pack)
      /\ Len(packs) \in Nat /\ Len(t) = Len(packs) - 1 /\ Len(packs) > 0
      /\ \A i \in 1..Len(t) : t[i] = packs[i + 1]
  BY <1>2, HeadTailProperties, Types, LenProperties DEF PayloadInv
<1>4. d = packs[1].was /\ d \in Seq(Int)
  BY <1>3 DEF Pack
<1> HIDE DEF t, d
<1>5. ASSUME NEW k \in 1..Len(t)
      PROVE  SharePrefix(Above(k)', packs'[k].was, packs'[k].offset)
  <2>1. k + 1 \in 1..Len(packs) /\ packs'[k] = packs[k + 1] /\ k + 1 # 1 /\ k + 1 - 1 = k
    BY <1>1, <1>3
  <2>2. SharePrefix(packs[k].was, packs[k + 1].was, packs[k + 1].offset)
    BY <2>1 DEF PayloadInv, PacksInv, Above
  <2>3. Above(k)' = packs[k].was
    <3>1. CASE k = 1
      BY <1>1, <1>4, <3>1 DEF Above
    <3>2. CASE k # 1
      <4>1. k - 1 \in 1..Len(t) /\ k - 1 + 1 = k
        BY <1>3, <3>2
      <4>2. t[k - 1] = packs[k]
        BY <1>3, <4>1
      <4> QED BY <1>1, <3>2, <4>2 DEF Above
    <3> QED BY <3>1, <3>2
  <2> QED BY <2>1, <2>2, <2>3
<1>6. data' # <<>>
  <2>1. SharePrefix(data, packs[1].was, packs[1].offset)
    BY <1>3 DEF PayloadInv, PacksInv, Above
  <2>2. packs[1].offset \in Nat /\ packs[1].offset < Len(d) /\ Len(d) \in Nat
    BY <1>3, <1>4, <2>1, LenProperties DEF SharePrefix, Pack
  <2> QED BY <1>1, <1>4, <2>2, EmptySeq
<1>7. PacksInv'
  BY <1>1, <1>5, <1>6 DEF PacksInv
<1>8. DataTypeOK' /\ JobInv'
  <2>1. <<>> \in Seq(Int)
    BY EmptySeq
  <2> QED BY <1>1, <1>3, <1>4, <2>1 DEF DataTypeOK, JobInv, Pack
<1> QED BY <1>7, <1>8 DEF PayloadInv

THEOREM PayloadInvariant == PayloadSpec => []PayloadInv
<1>1. PayloadInv /\ [PayloadNext]_allVars => PayloadInv'
  <2> SUFFICES ASSUME PayloadInv, [PayloadNext]_allVars PROVE PayloadInv'
    OBVIOUS
  <2>1. CASE UNCHANGED <<dataVars, zVars>>
    <3>1. UNCHANGED <<data, packs, job, off, ndata, out, ret>>
      BY <2>1 DEF dataVars, zVars
    <3>2. Streams' = Streams
      BY <3>1 DEF Streams
    <3> QED BY <3>1, <3>2, SamePacks DEF PayloadInv, DataTypeOK, JobInv
  <2>2. CASE Deliver BY <2>2, DeliverPayload
  <2>3. CASE Deflate BY <2>3, DeflatePayload
  <2>4. CASE Inflate BY <2>4, InflatePayload
  <2>5. CASE InflateSome BY <2>5, InflateSomePayload
  <2>6. CASE Grow BY <2>6, GrowPayload
  <2>7. CASE InflateEnd BY <2>7, InflateEndPayload
  <2>8. CASE InflateFails BY <2>8, InflateFailsPayload
  <2> QED BY <2>1, <2>2, <2>3, <2>4, <2>5, <2>6, <2>7, <2>8 DEF PayloadNext, allVars
<1> QED BY <1>1, InitPayload, PTL DEF PayloadSpec

\* inflate() never writes beyond its buffer, for frames, offsets and depths of any
\* size: readed's payload, Data_::inflate and its growing ndata.
THEOREM BuffersFit == PayloadSpec => []DataTypeOK
<1>1. PayloadInv => DataTypeOK
  BY DEF PayloadInv
<1> QED BY <1>1, PayloadInvariant, PTL

\* The run's StrictOrder, for any chars and payloads of any size.
THEOREM StrictOrderAlways == PayloadSpec => []StrictOrder
<1>1. ASSUME NEW n \in 0..3 PROVE OrdersStrictly(UNION {[1..k -> Chars] : k \in 0..n})
  <2> DEFINE S == UNION {[1..k -> Chars] : k \in 0..n}
  <2>1. ASSUME NEW s \in S PROVE s \in Seq(Int)
    <3>1. PICK k \in 0..n : s \in [1..k -> Chars]
      OBVIOUS
    <3>2. k \in Nat
      OBVIOUS
    <3>3. \A i \in 1..k : s[i] \in Int
      BY <3>1, PayloadAssumption
    <3>4. s = [i \in 1..k |-> s[i]]
      BY <3>1
    <3> QED BY <3>2, <3>3, <3>4
  <2> HIDE DEF S
  <2>2. OrdersStrictly(S)
    BY <2>1, DataComparerOrders, Zenon DEF OrdersStrictly
  <2> QED BY <2>2 DEF S
<1>2. PayloadInv => StrictOrder
  <2> SUFFICES ASSUME PayloadInv PROVE StrictOrder
    OBVIOUS
  <2>1. Len(data) \in Nat
    BY Types DEF PayloadInv
  <2>2. Min({Len(data), 3}) \in 0..3
    <3> DEFINE S == {Len(data), 3}
               Least(x) == x \in S /\ \A y \in S : x <= y
    <3>1. \E x : Least(x)
      BY <2>1
    <3>2. Min(S) = CHOOSE x : Least(x)
      BY DEF Min
    <3> HIDE DEF S
    <3>3. Least(Min(S))
      BY <3>1, <3>2, Zenon
    <3> QED BY <2>1, <3>3 DEF S
  <2> QED BY <1>1, <2>2 DEF StrictOrder, ShortDataOrdered
<1> QED BY <1>2, PayloadInvariant, PTL

\* The header, beside the payload, which only Deliver reads it for.
THEOREM HeaderInvariant == PayloadSpec => []HeaderInv
<1>1. HeaderInv /\ [PayloadNext]_allVars => HeaderInv'
  <2> SUFFICES ASSUME HeaderInv, [PayloadNext]_allVars PROVE HeaderInv'
    OBVIOUS
  <2>1. CASE Next BY <2>1, HeaderStep
  <2>2. CASE UNCHANGED vars BY <2>2, HeaderStep
  <2>3. CASE Deliver
    <3>1. full' = M1LX(0, FALSE) /\ parse' = full' /\ len' = 0 /\ idx' = 0 /\ buf' = Full(full', 0, 0)
      BY <2>3 DEF Deliver
    <3>2. M1LX(0, FALSE) \in M1LXs
      BY NewM1LX
    <3> HIDE DEF M1LX, Full
    <3> QED BY <3>1, <3>2, FilledHeader, MagicBytes
  <2>4. CASE Deflate \/ Inflate \/ InflateSome \/ Grow \/ InflateEnd \/ InflateFails
    BY <2>2, <2>4 DEF Deflate, Inflate, InflateSome, Grow, InflateEnd, InflateFails
  <2> QED BY <2>1, <2>2, <2>3, <2>4 DEF PayloadNext, allVars
<1>2. PayloadInit => HeaderInv
  BY HeaderInit DEF PayloadInit
<1> QED BY <1>1, <1>2, PTL DEF PayloadSpec

\* Types of the header and of the data, all counts of inflate() in their buffers.
THEOREM PayloadTypeCorrect == PayloadSpec => []PayloadTypeOK
<1>1. HeaderInv /\ DataTypeOK => PayloadTypeOK
  BY DEF HeaderInv, PayloadTypeOK
<1> QED BY <1>1, HeaderInvariant, BuffersFit, PTL

\* parse() reads back what full() wrote, for any number of bytes, both byte orders,
\* any length and any change of the magic slots: the length, cut to the type T.
THEOREM RoundTripAlways == PayloadSpec => []RoundTrip
BY HeaderReadBack, HeaderInvariant, PTL

\* However inflate() came to its end, it gave back, char for char, what the last
\* deflate() took, or it failed and changed nothing: the copies to larger buffers
\* lose nothing, for data, offsets and depths of any size.
THEOREM InflateRestoresAlways == PayloadSpec => InflateRestores
<1>1. PayloadInv /\ [PayloadNext]_allVars =>
        [job # "none" /\ job' = "none" =>
           IF Streams THEN ret' = 0 /\ data' = Head(packs).was
                      ELSE ret' = -1 /\ UNCHANGED dataVars]_allVars
  <2> SUFFICES ASSUME PayloadInv, PayloadNext, job # "none", job' = "none"
               PROVE  IF Streams THEN ret' = 0 /\ data' = Head(packs).was
                                 ELSE ret' = -1 /\ UNCHANGED dataVars
    OBVIOUS
  <2>1. InflateEnd \/ InflateFails
    BY DEF PayloadNext, Deliver, Deflate, Inflate, InflateSome, Grow, zVars
  <2>2. CASE InflateEnd
    BY <2>2, Restored DEF InflateEnd
  <2>3. CASE InflateFails
    BY <2>3 DEF InflateFails
  <2> QED BY <2>1, <2>2, <2>3
<1> QED BY <1>1, PayloadInvariant, PTL DEF PayloadSpec, InflateRestores

-----------------------------------------------------------------------------
(* Why inflate() ends, but for the fairness: each turn of its loop has room.    *)

\* Every turn of inflate()'s loop over a stream leaves strictly less of it, so that
\* a payload of any size is inflated in finitely many.
THEOREM InflateDescends ==
  PayloadSpec => [][InflateSome /\ Streams => Rest' \in Nat /\ Rest' < Rest]_allVars
<1>1. PayloadInv /\ InflateSome /\ Streams => Rest' \in Nat /\ Rest' < Rest
  <2> SUFFICES ASSUME PayloadInv, InflateSome, Streams PROVE Rest' \in Nat /\ Rest' < Rest
    OBVIOUS
  <2> DEFINE b == Len(Head(packs).was)
             m == Len(ndata)
  <2>1. off \in Nat /\ m \in Nat /\ out \in Nat /\ b \in Nat
    BY Types DEF Streams, PayloadInv, DataTypeOK
  <2>2. /\ UNCHANGED <<packs, off>> /\ out' = out + (m - off - out)
        /\ m - off - out <= Rest /\ off + out < m
    BY DEF InflateSome, AvailOut, dataVars, PayloadInv, JobInv
  <2>3. Rest = b - off - out /\ Rest' = b - off - out'
    BY <2>2 DEF Rest
  <2> HIDE DEF b, m
  <2> QED BY <2>1, <2>2, <2>3
<1>2. PayloadInv /\ [PayloadNext]_allVars =>
        [InflateSome /\ Streams => Rest' \in Nat /\ Rest' < Rest]_allVars
  BY <1>1
<1> QED BY <1>2, PayloadInvariant, PTL DEF PayloadSpec
=============================================================================
