--------------------------- MODULE DateText_proofs --------------------------
(***************************************************************************)
(* The date and the time of what from_stream accepts agree with all that   *)
(* it has found, whatever the text, the format and the kind of the value   *)
(* are.                                                                    *)
(***************************************************************************)
EXTENDS DateText, WellFoundedInduction, SequenceTheorems, TLAPS

-----------------------------------------------------------------------------
(* Numbers                                                                 *)

Within(n, a, b) == n \in Int /\ a <= n /\ n <= b

\* A non-empty set of natural numbers has a least element.
LEMMA LeastOf ==
  ASSUME NEW S \in SUBSET Nat, S # {}
  PROVE  Min(S) \in S /\ \A j \in S : Min(S) <= j
<1> DEFINE Less == {pair \in Nat \X Nat : pair[1] < pair[2]}
<1>1. IsWellFoundedOn(Less, Nat)
  BY NatLessThanWellFounded DEF OpToRel
<1> HIDE DEF Less
<1>2. PICK k \in S : \A j \in S : <<j, k>> \notin Less
  BY <1>1, WFMin
<1>3. ASSUME NEW j \in S PROVE k <= j
  <2>1. j \in Nat /\ k \in Nat /\ <<j, k>> \notin Less
    BY <1>2
  <2> QED
    BY <2>1 DEF Less
<1> QED
  BY <1>3 DEF Min

\* One with an upper bound has a greatest one.
LEMMA GreatestOf ==
  ASSUME NEW N \in Nat, NEW S \in SUBSET (1..N), S # {}
  PROVE  Max(S) \in S
<1> DEFINE Bounds == {k \in 0..N : \A j \in S : j <= k}
           k == Min(Bounds)
<1>1. N \in Bounds /\ Bounds \subseteq Nat
  OBVIOUS
<1>2. k \in Bounds /\ \A j \in Bounds : k <= j
  <2> HIDE DEF Bounds
  <2> QED
    BY <1>1, LeastOf
<1> HIDE DEF k
<1>3. k # 0 /\ k \in 0..N
  <2>1. PICK j \in S : j \in 1..N
    OBVIOUS
  <2> QED
    BY <1>2, <2>1
<1>4. k - 1 \notin Bounds /\ k - 1 \in 0..N
  BY <1>2, <1>3
<1>5. PICK j \in S : ~(j <= k - 1)
  BY <1>4
<1>6. k = j
  BY <1>2, <1>3, <1>5
<1>7. k \in S /\ \A i \in S : k >= i
  BY <1>2, <1>5, <1>6
<1> QED
  BY <1>7 DEF Max

\* Induction up to N, with a set for the predicate.
LEMMA UpTo ==
  ASSUME NEW N \in Nat, NEW P, 0 \in P, \A n \in 1..N : n - 1 \in P => n \in P
  PROVE  \A n \in 0..N : n \in P
<1> DEFINE Bad == {n \in 0..N : n \notin P}
           k == Min(Bad)
<1> SUFFICES ASSUME Bad # {} PROVE FALSE
  OBVIOUS
<1>1. Bad \in SUBSET Nat
  OBVIOUS
<1>2. k \in Bad /\ \A j \in Bad : k <= j
  <2> HIDE DEF Bad
  <2> QED
    BY <1>1, LeastOf
<1> HIDE DEF k
<1>3. k \in 0..N /\ k \notin P /\ k # 0
  BY <1>2
<1>4. k - 1 \in Bad
  BY <1>3
<1> QED
  BY <1>2, <1>3, <1>4

\* A sequence of N values after b, each made of the one before, exists.
Iterable(N, S, b, G) == \E f \in [0..N -> S] : f[0] = b /\ \A n \in 1..N : f[n] = G[n][f[n - 1]]

LEMMA Iterates ==
  ASSUME NEW N \in Nat, NEW S, NEW b \in S, NEW G \in [1..N -> [S -> S]]
  PROVE  Iterable(N, S, b, G)
<1> DEFINE To(k) == \E f \in [0..k -> S] : f[0] = b /\ \A n \in 1..k : f[n] = G[n][f[n - 1]]
           P == {k \in 0..N : To(k)}
<1>1. To(0)
  <2> DEFINE f == [x \in 0..0 |-> b]
  <2>1. f \in [0..0 -> S] /\ f[0] = b
    OBVIOUS
  <2>2. 1..0 = {}
    OBVIOUS
  <2> QED
    BY <2>1, <2>2
<1>2. ASSUME NEW k \in 1..N, To(k - 1) PROVE To(k)
  <2>1. PICK g \in [0..(k - 1) -> S] : g[0] = b /\ \A n \in 1..(k - 1) : g[n] = G[n][g[n - 1]]
    BY <1>2
  <2> DEFINE f == [x \in 0..k |-> IF x = k THEN G[k][g[k - 1]] ELSE g[x]]
  <2>2. g[k - 1] \in S
    BY <2>1
  <2>3. G[k][g[k - 1]] \in S
    BY <2>2
  <2>4. f \in [0..k -> S]
    BY <2>3
  <2>5. f[0] = b
    BY <2>1
  <2>6. ASSUME NEW n \in 1..k PROVE f[n] = G[n][f[n - 1]]
    <3>1. f[n - 1] = g[n - 1]
      OBVIOUS
    <3>2. CASE n = k
      BY <3>1, <3>2
    <3>3. CASE n # k
      <4>1. n \in 1..(k - 1) /\ f[n] = g[n]
        BY <3>3
      <4> QED
        BY <2>1, <3>1, <4>1
    <3> QED
      BY <3>2, <3>3
  <2> HIDE DEF f
  <2> QED
    BY <2>4, <2>5, <2>6
<1>3. \A n \in 0..N : n \in P
  <2> HIDE DEF To
  <2>1. 0 \in P /\ \A n \in 1..N : n - 1 \in P => n \in P
    BY <1>1, <1>2
  <2> HIDE DEF P
  <2> QED
    BY <2>1, UpTo
<1> QED
  BY <1>3 DEF Iterable

LEMMA TenType == ASSUME NEW n \in Nat PROVE Ten(n) \in Nat \ {0} /\ Ten(n) > n
<1> DEFINE Body(f) == [k \in 0..n |-> IF k = 0 THEN 1 ELSE 10 * f[k - 1]]
           power == CHOOSE f : f = Body(f)
           P == {k \in 0..n : power[k] \in Nat /\ power[k] > k}
           G == [k \in 1..n |-> [x \in Nat |-> 10 * x]]
<1>1. PICK f \in [0..n -> Nat] : f[0] = 1 /\ \A k \in 1..n : f[k] = G[k][f[k - 1]]
  <2>1. G \in [1..n -> [Nat -> Nat]]
    OBVIOUS
  <2>2. 1 \in Nat
    OBVIOUS
  <2> HIDE DEF G
  <2> QED
    <3>1. Iterable(n, Nat, 1, G)
      BY <2>1, <2>2, Iterates
    <3> QED
      BY <3>1 DEF Iterable
<1>2. f = Body(f)
  <2>1. \A k \in 0..n : f[k] = IF k = 0 THEN 1 ELSE 10 * f[k - 1]
    <3>1. \A k \in 1..n : f[k - 1] \in Nat /\ G[k][f[k - 1]] = 10 * f[k - 1]
      BY SMTT(30)
    <3> HIDE DEF G
    <3>2. ASSUME NEW k \in 1..n PROVE f[k] = 10 * f[k - 1] /\ k # 0
      BY <1>1, <3>1
    <3> QED
      BY <1>1, <3>2
  <2> QED
    BY <2>1
<1>3. power = Body(power)
  BY <1>2
<1> HIDE DEF power
<1>4. power[0] = 1 /\ \A k \in 1..n : power[k] = 10 * power[k - 1]
  BY <1>3
<1>5. \A k \in 0..n : k \in P
  <2>1. 0 \in P /\ \A k \in 1..n : k - 1 \in P => k \in P
    BY <1>4
  <2> HIDE DEF P
  <2> QED
    BY <2>1, UpTo
<1>6. Ten(n) = power[n]
  BY DEF Ten, power
<1> QED
  BY <1>5, <1>6

LEMMA DigitType == ASSUME NEW c, IsDigit(c) PROVE DigitValue(c) \in 0..9
<1>1. \E i \in 1..10 : Digit[i] = c
  BY DEF IsDigit, Range, Digit
<1> QED
  BY <1>1 DEF DigitValue

\* The digits of a number are taken from the left.
LEMMA NumberIs ==
  ASSUME NEW s, Len(s) \in Nat, \A i \in 1..Len(s) : IsDigit(s[i])
  PROVE  \E number : /\ number[0] = 0 /\ Number(s) = number[Len(s)]
                      /\ \A n \in 1..Len(s) : number[n] = 10 * number[n - 1] + DigitValue(s[n])
<1> DEFINE N == Len(s)
           Body(f) == [n \in 0..N |-> IF n = 0 THEN 0 ELSE 10 * f[n - 1] + DigitValue(s[n])]
           number == CHOOSE f : f = Body(f)
           G == [n \in 1..N |-> [x \in Nat |-> 10 * x + DigitValue(s[n])]]
<1>0. \A n \in 1..N : DigitValue(s[n]) \in Nat
  BY DigitType
<1> HIDE DEF N
<1>1. PICK f \in [0..N -> Nat] : f[0] = 0 /\ \A n \in 1..N : f[n] = G[n][f[n - 1]]
  <2>1. G \in [1..N -> [Nat -> Nat]]
    BY <1>0
  <2>2. 0 \in Nat /\ N \in Nat
    BY DEF N
  <2> HIDE DEF G
  <2> QED
    <3>1. Iterable(N, Nat, 0, G)
      BY <2>1, <2>2, Iterates
    <3> QED
      BY <3>1 DEF Iterable
<1>2. f = Body(f)
  <2>1. \A n \in 0..N : f[n] = IF n = 0 THEN 0 ELSE 10 * f[n - 1] + DigitValue(s[n])
    <3>1. ASSUME NEW n \in 1..N PROVE f[n - 1] \in Nat /\ G[n][f[n - 1]] = 10 * f[n - 1] + DigitValue(s[n])
      <4>1. n - 1 \in 0..N
        BY DEF N
      <4>2. f[n - 1] \in Nat
        BY <4>1
      <4> QED
        BY <4>2
    <3> HIDE DEF G
    <3>2. ASSUME NEW n \in 1..N PROVE f[n] = 10 * f[n - 1] + DigitValue(s[n]) /\ n # 0
      BY <1>1, <3>1
    <3> QED
      BY <1>1, <3>2
  <2> QED
    BY <2>1
<1>3. number = Body(number)
  BY <1>2
<1> HIDE DEF number
<1>4. number[0] = 0 /\ \A n \in 1..N : number[n] = 10 * number[n - 1] + DigitValue(s[n])
  BY <1>3 DEF N
<1>5. Number(s) = number[N]
  BY DEF Number, number, N
<1> QED
  BY <1>4, <1>5 DEF N

LEMMA NumberType ==
  ASSUME NEW s, Len(s) \in Nat, \A i \in 1..Len(s) : IsDigit(s[i])
  PROVE  Number(s) \in Nat
<1> DEFINE N == Len(s)
<1>1. PICK number : /\ number[0] = 0 /\ Number(s) = number[N]
                    /\ \A n \in 1..N : number[n] = 10 * number[n - 1] + DigitValue(s[n])
  BY NumberIs
<1> DEFINE P == {n \in 0..N : number[n] \in Nat}
<1>2. \A n \in 1..N : DigitValue(s[n]) \in Nat
  BY DigitType
<1> HIDE DEF N
<1>3. \A n \in 0..N : n \in P
  <2>1. 0 \in P /\ \A n \in 1..N : n - 1 \in P => n \in P
    BY <1>1, <1>2 DEF N
  <2> HIDE DEF P
  <2> QED
    BY <2>1, UpTo DEF N
<1> QED
  BY <1>1, <1>3 DEF N

\* A number of two digits, and of four.
LEMMA NumberBelow ==
  ASSUME NEW s, Len(s) \in Nat, \A i \in 1..Len(s) : IsDigit(s[i])
  PROVE  (Len(s) <= 2 => Number(s) <= 99) /\ (Len(s) <= 4 => Number(s) <= 9999)
<1> DEFINE N == Len(s)
<1>1. PICK number : /\ number[0] = 0 /\ Number(s) = number[N]
                    /\ \A n \in 1..N : number[n] = 10 * number[n - 1] + DigitValue(s[n])
  BY NumberIs
<1>2. \A n \in 1..N : DigitValue(s[n]) \in 0..9
  BY DigitType
<1> HIDE DEF N
<1>3. N \in Nat
  BY DEF N
<1>4. ASSUME NEW n \in 1..N, NEW k, n = k + 1, k \in Nat, NEW b \in Nat, Within(number[k], 0, b),
             NEW c, c = 10 * b + 9
      PROVE  Within(number[n], 0, c)
  <2>1. number[n] = 10 * number[n - 1] + DigitValue(s[n]) /\ DigitValue(s[n]) \in 0..9 /\ n - 1 = k
    BY <1>1, <1>2, <1>4
  <2>2. ASSUME NEW x, Within(x, 0, b), NEW d \in 0..9
        PROVE  Within(10 * x + d, 0, 10 * b + 9)
    BY <2>2 DEF Within
  <2> QED
    BY <1>4, <2>1, <2>2
<1>5. Within(number[0], 0, 0)
  BY <1>1 DEF Within
<1>6. ASSUME 1 <= N PROVE Within(number[1], 0, 9)
  BY <1>3, <1>4, <1>5, <1>6
<1>7. ASSUME 2 <= N PROVE Within(number[2], 0, 99)
  BY <1>3, <1>4, <1>6, <1>7
<1>8. ASSUME 3 <= N PROVE Within(number[3], 0, 999)
  BY <1>3, <1>4, <1>7, <1>8
<1>9. ASSUME 4 <= N PROVE Within(number[4], 0, 9999)
  BY <1>3, <1>4, <1>8, <1>9
<1>10. (N <= 2 => number[N] <= 99) /\ (N <= 4 => number[N] <= 9999)
  <2>1. N <= 2 => Within(number[N], 0, 0) \/ Within(number[N], 0, 9) \/ Within(number[N], 0, 99)
    <3>1. N <= 2 => N = 0 \/ N = 1 \/ N = 2
      BY <1>3
    <3> QED
      BY <1>5, <1>6, <1>7, <3>1
  <2>2. N <= 4 => \/ Within(number[N], 0, 0) \/ Within(number[N], 0, 9) \/ Within(number[N], 0, 99)
                 \/ Within(number[N], 0, 999) \/ Within(number[N], 0, 9999)
    <3>1. N <= 4 => N = 0 \/ N = 1 \/ N = 2 \/ N = 3 \/ N = 4
      BY <1>3
    <3> QED
      BY <1>5, <1>6, <1>7, <1>8, <1>9, <3>1
  <2>3. ASSUME NEW x PROVE /\ Within(x, 0, 0) \/ Within(x, 0, 9) \/ Within(x, 0, 99) => x <= 99
                           /\ Within(x, 0, 999) \/ Within(x, 0, 9999) => x <= 9999
                           /\ Within(x, 0, 99) => x <= 9999
                           /\ Within(x, 0, 0) \/ Within(x, 0, 9) => x <= 9999
    BY DEF Within
  <2> QED
    BY <2>1, <2>2, <2>3
<1> QED
  BY <1>1, <1>10 DEF N

-----------------------------------------------------------------------------
(* Reading                                                                 *)

\* The digits in front of a stream are digits.
LEMMA DigitsInFront ==
  ASSUME NEW st, NEW M \in Nat
  PROVE  LET p == Prefix(st, IsDigit, M)
         IN  Len(p) \in Nat /\ Len(p) <= M /\ \A i \in 1..Len(p) : IsDigit(p[i])
<1> DEFINE long == {n \in 1..Len(st.rest) : n <= M /\ \A i \in 1..n : IsDigit(st.rest[i])}
           k == IF long = {} THEN 0 ELSE Max(long)
           p == SubSeq(st.rest, 1, k)
<1>1. k \in Nat /\ (k # 0 => k \in long)
  <2>1. long \in SUBSET (1..M)
    OBVIOUS
  <2>2. ASSUME long # {} PROVE Max(long) \in long
    <3> HIDE DEF long
    <3> QED
      BY <2>1, <2>2, GreatestOf
  <2>3. ASSUME long # {} PROVE Max(long) \in Nat
    BY <2>1, <2>2, <2>3
  <2> HIDE DEF long
  <2> QED
    BY <2>2, <2>3
<1> HIDE DEF k
<1>2. k <= M /\ \A i \in 1..k : IsDigit(st.rest[i])
  BY <1>1
<1>3. Len(p) = k /\ \A i \in 1..k : p[i] = st.rest[i]
  BY <1>1, SMT
<1>4. Prefix(st, IsDigit, M) = p
  BY DEF Prefix, k
<1> HIDE DEF p
<1> QED
  BY <1>1, <1>2, <1>3, <1>4

LEMMA LimitType == ASSUME NEW M \in Nat PROVE Limit(M) \in Nat
BY DEF Limit

\* An int that holds a number is the number.
LEMMA IntType ==
  ASSUME NEW n \in Int
  PROVE  AsInt(n) \in Int /\ (Within(n, -9999, 9999) => AsInt(n) = n)
<1>1. Size(n) \in {n, -n} /\ (Within(n, -9999, 9999) => Size(n) <= 2147483647)
  BY DEF Size, Within
<1>2. (n + 32768 * 65536) % (65536 * 65536) \in Int
  OBVIOUS
<1> QED
  BY <1>1, <1>2 DEF AsInt

LEMMA ReadUnsigned ==
  ASSUME NEW st, NEW m, NEW M \in Nat
  PROVE  read_unsigned(st, m, M).x \in Int
<1> DEFINE p == Prefix(st, IsDigit, Limit(M))
<1>1. Number(p) \in Nat
  BY LimitType, DigitsInFront, NumberType
<1>2. read_unsigned(st, m, M).x \in {0, AsInt(Number(p))}
  BY DEF read_unsigned
<1> HIDE DEF p
<1> QED
  BY <1>1, <1>2, IntType

LEMMA ReadSigned ==
  ASSUME NEW st, NEW m, NEW M \in Nat
  PROVE  read_signed(st, m, M).x \in Int
<1> DEFINE r == read_unsigned(IF IsDigit(Head(st.rest)) THEN st ELSE Drop(st, 1), m, M)
<1>1. r.x \in Int
  BY ReadUnsigned
<1>2. r = [st |-> r.st, x |-> r.x]
  BY DEF read_unsigned
<1>3. read_signed(st, m, M).x \in {0, r.x, AsInt(-r.x)}
  <2> HIDE DEF r
  <2> QED
  BY <1>2 DEF read_signed, r
<1> QED
  BY <1>1, <1>3, IntType

\* A sequence without its decimal points, and what stands behind a second one.
LEMMA Decimals ==
  ASSUME NEW p, Len(p) \in Nat,
         \A i \in 1..Len(p) : IsDigit(p[i]) \/ p[i] = ".",
         NEW dot \in 1..(Len(p) + 1), NEW n \in 0..Len(p), dot <= n + 1,
         \A i \in 1..n : i # dot => p[i] # "."
  PROVE  LET decimals == SubSeq(p, dot + 1, n)
             digits == SubSeq(p, 1, dot - 1) \o decimals
         IN  Len(decimals) \in Nat /\ Number(digits) \in Nat
<1> DEFINE whole == SubSeq(p, 1, dot - 1)
           decimals == SubSeq(p, dot + 1, n)
           digits == whole \o decimals
<1>1. Len(whole) = dot - 1 /\ \A i \in 1..(dot - 1) : whole[i] = p[i]
  BY SMT
<1>2. Len(decimals) \in Nat /\ \A i \in 1..Len(decimals) : decimals[i] = p[dot + i] /\ dot + i \in 1..n
  BY SMT
<1> HIDE DEF whole, decimals
<1>3. Len(digits) = (dot - 1) + Len(decimals)
  BY <1>1, <1>2, SMT
<1>4. ASSUME NEW i \in 1..Len(digits) PROVE IsDigit(digits[i])
  <2>1. CASE i <= dot - 1
    <3>1. digits[i] = p[i] /\ i \in 1..n /\ i # dot
      BY <1>1, <1>2, <1>3, <2>1, SMT
    <3> QED
      BY <3>1
  <2>2. CASE i > dot - 1
    <3>1. i - (dot - 1) \in 1..Len(decimals)
      BY <1>2, <1>3, <2>2
    <3>2. digits[i] = decimals[i - (dot - 1)]
      BY <1>1, <1>2, <1>3, <2>2, SMT
    <3>3. digits[i] = p[dot + (i - (dot - 1))] /\ dot + (i - (dot - 1)) \in 1..n
          /\ dot + (i - (dot - 1)) # dot
      BY <1>2, <3>1, <3>2
    <3> QED
      BY <3>3
  <2> QED
    BY <2>1, <2>2
<1>5. Number(digits) \in Nat
  <2>1. Len(digits) \in Nat
    BY <1>2, <1>3
  <2> HIDE DEF digits
  <2> QED
    BY <1>4, <2>1, NumberType
<1> QED
  BY <1>2, <1>5 DEF whole, decimals

LEMMA SecondsInFront ==
  ASSUME NEW st, NEW M \in Nat
  PROVE  LET p == Prefix(st, LAMBDA c : IsDigit(c) \/ c = ".", M)
         IN  Len(p) \in Nat /\ \A i \in 1..Len(p) : IsDigit(p[i]) \/ p[i] = "."
<1> DEFINE long == {n \in 1..Len(st.rest) : n <= M
                                  /\ \A i \in 1..n : IsDigit(st.rest[i]) \/ st.rest[i] = "."}
           k == IF long = {} THEN 0 ELSE Max(long)
           p == SubSeq(st.rest, 1, k)
<1>1. k \in Nat /\ (k # 0 => k \in long)
  <2>1. long \in SUBSET (1..M)
    OBVIOUS
  <2>2. ASSUME long # {} PROVE Max(long) \in long
    <3> HIDE DEF long
    <3> QED
      BY <2>1, <2>2, GreatestOf
  <2>3. ASSUME long # {} PROVE Max(long) \in Nat
    BY <2>1, <2>2, <2>3
  <2> HIDE DEF long
  <2> QED
    BY <2>2, <2>3
<1> HIDE DEF k
<1>2. \A i \in 1..k : IsDigit(st.rest[i]) \/ st.rest[i] = "."
  BY <1>1
<1>3. Len(p) = k /\ \A i \in 1..k : p[i] = st.rest[i]
  BY <1>1, SMT
<1>4. Prefix(st, LAMBDA c : IsDigit(c) \/ c = ".", M) = p
  BY DEF Prefix, k
<1> HIDE DEF p
<1> QED
  BY <1>1, <1>2, <1>3, <1>4

LEMMA ReadSeconds ==
  ASSUME NEW st, NEW w \in Nat, NEW M \in Nat
  PROVE  read_seconds(st, w, M).x \in Nat
<1> DEFINE p == Prefix(st, LAMBDA c : IsDigit(c) \/ c = ".", Limit(M))
           points == {i \in 1..Len(p) : p[i] = "."}
           dot == Min(points \cup {Len(p) + 1})
           n == Min((points \ {dot}) \cup {Len(p) + 1}) - 1
           decimals == SubSeq(p, dot + 1, n)
           unit == Ten(Len(decimals))
           x == Number(SubSeq(p, 1, dot - 1) \o decimals) * Ten(w)
           q == x \div unit
           twice == 2 * (x % unit)
<1>1. Len(p) \in Nat /\ \A i \in 1..Len(p) : IsDigit(p[i]) \/ p[i] = "."
  BY LimitType, SecondsInFront
<1>2. read_seconds(st, w, M).x \in {0, q, q + 1}
  BY DEF read_seconds
<1> HIDE DEF p
<1>3. dot \in points \cup {Len(p) + 1} /\ \A j \in points \cup {Len(p) + 1} : dot <= j
  <2>1. points \cup {Len(p) + 1} \in SUBSET Nat /\ points \cup {Len(p) + 1} # {}
    BY <1>1
  <2> HIDE DEF points
  <2> QED
    BY <2>1, LeastOf
<1> HIDE DEF dot
<1>4. n + 1 \in (points \ {dot}) \cup {Len(p) + 1}
      /\ \A j \in (points \ {dot}) \cup {Len(p) + 1} : n + 1 <= j
      /\ n \in Int
  <2> DEFINE rest == (points \ {dot}) \cup {Len(p) + 1}
  <2>1. rest \in SUBSET Nat /\ rest # {}
    BY <1>1
  <2>2. Min(rest) \in rest /\ \A j \in rest : Min(rest) <= j
    <3> HIDE DEF rest
    <3> QED
      BY <2>1, LeastOf
  <2>3. Min(rest) \in Nat
    BY <2>1, <2>2
  <2>4. n = Min(rest) - 1
    OBVIOUS
  <2> HIDE DEF n, rest
  <2>5. n + 1 = Min(rest) /\ n \in Int
    BY <2>3, <2>4
  <2> QED
    BY <2>2, <2>5 DEF rest
<1> HIDE DEF n
<1>5. dot \in 1..(Len(p) + 1) /\ n \in 0..Len(p) /\ dot <= n + 1
  BY <1>1, <1>3, <1>4
<1>6. \A i \in 1..n : i # dot => p[i] # "."
  BY <1>1, <1>4, <1>5
<1>7. Len(decimals) \in Nat /\ Number(SubSeq(p, 1, dot - 1) \o decimals) \in Nat
  BY <1>1, <1>5, <1>6, Decimals
<1> HIDE DEF decimals
<1>8. unit \in Nat \ {0} /\ x \in Nat
  BY <1>7, TenType, SMTT(30)
<1> HIDE DEF unit, x
<1>9. q \in Nat
  BY <1>8
<1> QED
  BY <1>2, <1>9

-----------------------------------------------------------------------------
(* What is found.  Every field but the name of a zone is a number, and that *)
(* of the half of the day has a range of its own.                           *)

FieldNames == {"Y", "y", "g", "G", "C", "m", "d", "j", "wd", "H", "I", "p", "M", "s", "U", "V",
               "W", "z", "Z"}
Fits(f, x) ==
    /\ f # "Z" => x \in Int
    /\ f = "p" => x \in {-1, 0, 1}
Typed(fd) == fd = [f \in FieldNames |-> fd[f]] /\ \A f \in FieldNames : Fits(f, fd[f])
Types ==
    /\ Typed(found) /\ width \in Nat \cup {-1}
    /\ fmt \in Seq(STRING) /\ at \in Nat \ {0}

LEMMA NothingFound == Typed(not_a)
BY DEF Typed, Fits, FieldNames, not_a, MinInt

LEMMA SetTyped ==
  ASSUME NEW fd, Typed(fd), NEW f \in FieldNames, NEW x, NEW st, Fits(f, x)
  PROVE  Typed(checked_set(fd, f, x, not_a, st).fd)
<1>1. CASE checked_set(fd, f, x, not_a, st).fd = fd
  BY <1>1
<1>2. CASE checked_set(fd, f, x, not_a, st).fd = [fd EXCEPT ![f] = x]
  <2> DEFINE new == [fd EXCEPT ![f] = x]
  <2>1. new = [g \in FieldNames |-> IF g = f THEN x ELSE fd[g]]
    BY DEF Typed
  <2> HIDE DEF new
  <2>2. \A g \in FieldNames : new[g] = IF g = f THEN x ELSE fd[g]
    BY <2>1
  <2>3. new = [g \in FieldNames |-> new[g]]
    BY <2>1, <2>2
  <2>4. \A g \in FieldNames : Fits(g, new[g])
    BY <1>2, <2>2 DEF Typed
  <2>5. Typed(new)
    BY <2>3, <2>4 DEF Typed
  <2> QED
    BY <1>2, <2>5 DEF new
<1> QED
  BY <1>1, <1>2 DEF checked_set

LEMMA IntegerFits ==
  ASSUME NEW f \in FieldNames \ {"p"}, NEW x \in Int
  PROVE  Fits(f, x)
BY DEF Fits

\* A conversion that sets fields of their types leaves all fields typed.
LEMMA ReadsTyped ==
  ASSUME Types, NEW chars, NEW mods, NEW s, Reads(chars, mods, s), Typed(s.fd)
  PROVE  Types'
<1>1. found' = s.fd /\ width' = -1 /\ at' = at + 1 /\ fmt' = fmt
  BY DEF Reads, EndCommand, Advance
<1>2. Typed(found')
  BY <1>1
<1>3. at' \in Nat \ {0} /\ fmt' \in Seq(STRING) /\ width' \in Nat \cup {-1}
  BY <1>1 DEF Types
<1> QED
  BY <1>2, <1>3 DEF Types

\* A round that finds nothing takes the next character, if any.
LEMMA NothingFoundTyped ==
  ASSUME Types, found' = found, fmt' = fmt, at' \in {at, at + 1}, width' \in {width, -1}
  PROVE  Types'
<1>1. Typed(found')
  BY DEF Types
<1>2. at' \in Nat \ {0} /\ fmt' \in Seq(STRING) /\ width' \in Nat \cup {-1}
  BY DEF Types
<1> QED
  BY <1>1, <1>2 DEF Types

LEMMA SetOne ==
  ASSUME Types, NEW f \in FieldNames, NEW r, Fits(f, r.x)
  PROVE  Typed(Set(f, r).fd)
BY SetTyped DEF Set, Types

LEMMA SetNext ==
  ASSUME NEW s, Typed(s.fd), NEW f \in FieldNames, NEW x, Fits(f, x)
  PROVE  Typed(AndSet(s, f, x).fd)
BY SetTyped DEF AndSet

LEMMA WidthType == ASSUME Types, NEW n \in Nat PROVE Width(n) \in Nat
BY DEF Types, Width

LEMMA NameType ==
  ASSUME NEW names, DOMAIN names = 1..Len(names), Len(names) \in Nat
  PROVE  read_name(names).x \in Nat
<1> DEFINE i == CHOOSE i \in 1..Len(names) : names[i] = Head(input.rest)
<1>1. CASE Head(input.rest) \in Range(names)
  <2>1. i \in 1..Len(names)
    BY <1>1 DEF Range
  <2>2. read_name(names).x \in {0, i - 1}
    BY DEF read_name
  <2> HIDE DEF i
  <2> QED
    BY <2>1, <2>2
<1>2. CASE Head(input.rest) \notin Range(names)
  BY <1>2 DEF read_name
<1> QED
  BY <1>1, <1>2

LEMMA NamesType ==
  /\ read_name(Weekdays).x \in Nat
  /\ read_name(Months).x \in Nat
  /\ read_name(Halves).x \in Nat
<1>1. /\ DOMAIN Weekdays = 1..Len(Weekdays) /\ Len(Weekdays) \in Nat
      /\ DOMAIN Months = 1..Len(Months) /\ Len(Months) \in Nat
      /\ DOMAIN Halves = 1..Len(Halves) /\ Len(Halves) \in Nat
  BY DEF Weekdays, Months, Halves
<1> QED
  BY <1>1, NameType

LEMMA FacetType ==
  ASSUME NEW n \in Nat, NEW range
  PROVE  facet(n, range).x \in Int
<1> DEFINE r == read_unsigned(input, 1, n)
<1>1. r = [st |-> r.st, x |-> r.x] /\ r.x \in Int
  BY ReadUnsigned DEF read_unsigned
<1> HIDE DEF r
<1>2. facet(n, range).x = r.x
  BY <1>1 DEF facet, FailUnless, r
<1> QED
  BY <1>1, <1>2

\* Whether a result is made to fail or not, its number is the same.
LEMMA FailKeeps ==
  ASSUME NEW r, r = [st |-> r.st, x |-> r.x], NEW ok
  PROVE  FailUnless(r, ok).x = r.x
BY DEF FailUnless

-----------------------------------------------------------------------------
(* One lemma per conversion                                                *)

LEMMA Type_aA == Types /\ Get_aA => Types'
<1> SUFFICES ASSUME Types, Get_aA PROVE Types'
  OBVIOUS
<1> DEFINE r == read_name(Weekdays)
<1>1. r.x \in Int
  BY NamesType 
<1> HIDE DEF r
<1>2. Typed(Set("wd", r).fd)
  BY <1>1, SetOne, IntegerFits DEF FieldNames
<1> QED
  BY <1>2, ReadsTyped DEF Get_aA, r

LEMMA Type_uw == Types /\ Get_uw => Types'
<1> SUFFICES ASSUME Types, Get_uw PROVE Types'
  OBVIOUS
<1> DEFINE r == IF modified = "" THEN read_unsigned(input, 1, Width(1)) ELSE facet(1, 0..7)
           u == FailUnless([r EXCEPT !.x = IF @ = 7 THEN 0 ELSE @], r.x \in 1..7)
           w == FailUnless(r, r.x \in 0..6)
           s == IF Char = "u" THEN Set("wd", u) ELSE Set("wd", w)
<1>1. r = [st |-> r.st, x |-> r.x]
  BY DEF read_unsigned, facet, FailUnless
<1>2. r.x \in Int
  BY ReadUnsigned, FacetType, WidthType
<1> HIDE DEF r
<1>3. u.x \in Int /\ w.x \in Int
  BY <1>1, <1>2 DEF FailUnless
<1> HIDE DEF u, w
<1>4. Typed(s.fd)
  BY <1>3, SetOne, IntegerFits DEF FieldNames
<1> HIDE DEF s
<1> QED
  BY <1>4, ReadsTyped DEF Get_uw, s, u, w, r

LEMMA Type_bBh == Types /\ Get_bBh => Types'
<1> SUFFICES ASSUME Types, Get_bBh PROVE Types'
  OBVIOUS
<1> DEFINE r == [read_name(Months) EXCEPT !.x = @ + 1]
<1>1. r.x \in Int
  BY NamesType DEF read_name
<1> HIDE DEF r
<1>2. Typed(Set("m", r).fd)
  BY <1>1, SetOne, IntegerFits DEF FieldNames
<1> QED
  BY <1>2, ReadsTyped DEF Get_bBh, r

LEMMA Type_C == Types /\ Get_C => Types'
<1> SUFFICES ASSUME Types, Get_C PROVE Types'
  OBVIOUS
<1> DEFINE a == read_signed(input, 1, Width(2))
           b == facet(2, 0..99)
           r == IF modified = "" THEN a ELSE b
<1>1. a.x \in Int /\ b.x \in Int
  BY ReadUnsigned, ReadSigned, FacetType, WidthType
<1> HIDE DEF a, b
<1>2. r.x \in Int
  BY <1>1
<1> HIDE DEF r
<1>3. Typed(Set("C", r).fd)
  BY <1>2, SetOne, IntegerFits DEF FieldNames
<1>4. Reads({"C"}, {"", "E", "O"}, Set("C", r))
  BY DEF Get_C, r, a, b
<1> QED
  BY <1>3, <1>4, ReadsTyped

LEMMA Type_de == Types /\ Get_de => Types'
<1> SUFFICES ASSUME Types, Get_de PROVE Types'
  OBVIOUS
<1> DEFINE a == read_signed(input, 1, Width(2))
           b == facet(2, 1..31)
           r == IF modified = "" THEN a ELSE b
<1>1. a.x \in Int /\ b.x \in Int
  BY ReadUnsigned, ReadSigned, FacetType, WidthType
<1> HIDE DEF a, b
<1>2. r.x \in Int
  BY <1>1
<1> HIDE DEF r
<1>3. Typed(Set("d", r).fd)
  BY <1>2, SetOne, IntegerFits DEF FieldNames
<1>4. Reads({"d", "e"}, {"", "O"}, Set("d", r))
  BY DEF Get_de, r, a, b
<1> QED
  BY <1>3, <1>4, ReadsTyped

LEMMA Type_H == Types /\ Get_H => Types'
<1> SUFFICES ASSUME Types, Get_H PROVE Types'
  OBVIOUS
<1> DEFINE a == read_unsigned(input, 1, Width(2))
           b == facet(2, 0..23)
           r == IF modified = "" THEN a ELSE b
<1>1. a.x \in Int /\ b.x \in Int
  BY ReadUnsigned, ReadSigned, FacetType, WidthType
<1> HIDE DEF a, b
<1>2. r.x \in Int
  BY <1>1
<1> HIDE DEF r
<1>3. Typed(Set("H", r).fd)
  BY <1>2, SetOne, IntegerFits DEF FieldNames
<1>4. Reads({"H"}, {"", "O"}, Set("H", r))
  BY DEF Get_H, r, a, b
<1> QED
  BY <1>3, <1>4, ReadsTyped

LEMMA Type_I == Types /\ Get_I => Types'
<1> SUFFICES ASSUME Types, Get_I PROVE Types'
  OBVIOUS
<1> DEFINE r == read_signed(input, 1, Width(2))
           u == FailUnless(r, r.x \in 1..12)
<1>1. r.x \in Int
  BY ReadSigned, WidthType
<1>2. r = [st |-> r.st, x |-> r.x]
  BY DEF read_signed, read_unsigned
<1> HIDE DEF r
<1>3. u.x \in Int
  BY <1>1, <1>2, FailKeeps
<1> HIDE DEF u
<1>4. Typed(Set("I", u).fd)
  BY <1>3, SetOne, IntegerFits DEF FieldNames
<1> QED
  BY <1>4, ReadsTyped DEF Get_I, u, r

LEMMA Type_j == Types /\ Get_j => Types'
<1> SUFFICES ASSUME Types, Get_j PROVE Types'
  OBVIOUS
<1> DEFINE r == read_unsigned(input, 1, Width(3))
<1>1. r.x \in Int
  BY ReadUnsigned, ReadSigned, FacetType, WidthType 
<1> HIDE DEF r
<1>2. Typed(Set("j", r).fd)
  BY <1>1, SetOne, IntegerFits DEF FieldNames
<1> QED
  BY <1>2, ReadsTyped DEF Get_j, r

LEMMA Type_M == Types /\ Get_M => Types'
<1> SUFFICES ASSUME Types, Get_M PROVE Types'
  OBVIOUS
<1> DEFINE a == read_unsigned(input, 1, Width(2))
           b == facet(2, 0..59)
           r == IF modified = "" THEN a ELSE b
<1>1. a.x \in Int /\ b.x \in Int
  BY ReadUnsigned, ReadSigned, FacetType, WidthType
<1> HIDE DEF a, b
<1>2. r.x \in Int
  BY <1>1
<1> HIDE DEF r
<1>3. Typed(Set("M", r).fd)
  BY <1>2, SetOne, IntegerFits DEF FieldNames
<1>4. Reads({"M"}, {"", "O"}, Set("M", r))
  BY DEF Get_M, r, a, b
<1> QED
  BY <1>3, <1>4, ReadsTyped

LEMMA Type_m == Types /\ Get_m => Types'
<1> SUFFICES ASSUME Types, Get_m PROVE Types'
  OBVIOUS
<1> DEFINE a == read_signed(input, 1, Width(2))
           b == facet(2, 1..12)
           r == IF modified = "" THEN a ELSE b
<1>1. a.x \in Int /\ b.x \in Int
  BY ReadUnsigned, ReadSigned, FacetType, WidthType
<1> HIDE DEF a, b
<1>2. r.x \in Int
  BY <1>1
<1> HIDE DEF r
<1>3. Typed(Set("m", r).fd)
  BY <1>2, SetOne, IntegerFits DEF FieldNames
<1>4. Reads({"m"}, {"", "O"}, Set("m", r))
  BY DEF Get_m, r, a, b
<1> QED
  BY <1>3, <1>4, ReadsTyped

LEMMA Type_Y == Types /\ Get_Y => Types'
<1> SUFFICES ASSUME Types, Get_Y PROVE Types'
  OBVIOUS
<1> DEFINE a == read_signed(input, 1, Width(4))
           b == facet(4, FacetYears)
           r == IF modified = "" THEN a ELSE b
<1>1. a.x \in Int /\ b.x \in Int
  BY ReadUnsigned, ReadSigned, FacetType, WidthType
<1> HIDE DEF a, b
<1>2. r.x \in Int
  BY <1>1
<1> HIDE DEF r
<1>3. Typed(Set("Y", r).fd)
  BY <1>2, SetOne, IntegerFits DEF FieldNames
<1>4. Reads({"Y"}, {"", "E"}, Set("Y", r))
  BY DEF Get_Y, r, a, b
<1> QED
  BY <1>3, <1>4, ReadsTyped

LEMMA Type_g == Types /\ Get_g => Types'
<1> SUFFICES ASSUME Types, Get_g PROVE Types'
  OBVIOUS
<1> DEFINE r == read_unsigned(input, 1, Width(2))
<1>1. r.x \in Int
  BY ReadUnsigned, ReadSigned, FacetType, WidthType 
<1> HIDE DEF r
<1>2. Typed(Set("g", r).fd)
  BY <1>1, SetOne, IntegerFits DEF FieldNames
<1> QED
  BY <1>2, ReadsTyped DEF Get_g, r

LEMMA Type_G == Types /\ Get_G => Types'
<1> SUFFICES ASSUME Types, Get_G PROVE Types'
  OBVIOUS
<1> DEFINE r == read_signed(input, 1, Width(4))
<1>1. r.x \in Int
  BY ReadUnsigned, ReadSigned, FacetType, WidthType 
<1> HIDE DEF r
<1>2. Typed(Set("G", r).fd)
  BY <1>1, SetOne, IntegerFits DEF FieldNames
<1> QED
  BY <1>2, ReadsTyped DEF Get_G, r

LEMMA Type_U == Types /\ Get_U => Types'
<1> SUFFICES ASSUME Types, Get_U PROVE Types'
  OBVIOUS
<1> DEFINE r == read_unsigned(input, 1, Width(2))
<1>1. r.x \in Int
  BY ReadUnsigned, ReadSigned, FacetType, WidthType 
<1> HIDE DEF r
<1>2. Typed(Set("U", r).fd)
  BY <1>1, SetOne, IntegerFits DEF FieldNames
<1> QED
  BY <1>2, ReadsTyped DEF Get_U, r

LEMMA Type_V == Types /\ Get_V => Types'
<1> SUFFICES ASSUME Types, Get_V PROVE Types'
  OBVIOUS
<1> DEFINE r == read_unsigned(input, 1, Width(2))
<1>1. r.x \in Int
  BY ReadUnsigned, ReadSigned, FacetType, WidthType 
<1> HIDE DEF r
<1>2. Typed(Set("V", r).fd)
  BY <1>1, SetOne, IntegerFits DEF FieldNames
<1> QED
  BY <1>2, ReadsTyped DEF Get_V, r

LEMMA Type_W == Types /\ Get_W => Types'
<1> SUFFICES ASSUME Types, Get_W PROVE Types'
  OBVIOUS
<1> DEFINE r == read_unsigned(input, 1, Width(2))
<1>1. r.x \in Int
  BY ReadUnsigned, ReadSigned, FacetType, WidthType 
<1> HIDE DEF r
<1>2. Typed(Set("W", r).fd)
  BY <1>1, SetOne, IntegerFits DEF FieldNames
<1> QED
  BY <1>2, ReadsTyped DEF Get_W, r

LEMMA Type_y == Types /\ Get_y => Types'
<1> SUFFICES ASSUME Types, Get_y PROVE Types'
  OBVIOUS
<1> DEFINE r == facet(2, 0..99)
           full == [r EXCEPT !.x = @ + (IF @ >= 69 THEN 1900 ELSE 2000)]
           two == read_unsigned(input, 1, Width(2))
           s == IF modified = "" THEN Set("y", two) ELSE Set("Y", full)
<1>1. r.x \in Int /\ two.x \in Int
  BY ReadUnsigned, FacetType, WidthType
<1>2. r = [st |-> r.st, x |-> r.x]
  BY DEF facet, FailUnless, read_unsigned
<1> HIDE DEF r, two
<1>3. full.x \in Int
  BY <1>1, <1>2
<1> HIDE DEF full
<1>4. Typed(Set("y", two).fd) /\ Typed(Set("Y", full).fd)
  BY <1>1, <1>3, SetOne, IntegerFits DEF FieldNames
<1>5. Typed(s.fd)
  BY <1>4
<1>6. Reads({"y"}, {"", "E", "O"}, s)
  BY DEF Get_y, s, full, two, r
<1> HIDE DEF s
<1> QED
  BY <1>5, <1>6, ReadsTyped

LEMMA Type_D == Types /\ Get_D => Types'
<1> SUFFICES ASSUME Types, Get_D PROVE Types'
  OBVIOUS
<1> DEFINE m == read_unsigned(input, 1, 2)
           d == Next2(m.st, "/", 2)
           y == read_signed(read_char(d.st, "/"), 1, 2)
           one == Set("y", y)
           two == AndSet(one, "m", m.x)
           s == AndSet(two, "d", d.x)
<1>1. m.x \in Int /\ d.x \in Int /\ y.x \in Int
  BY ReadUnsigned, ReadSigned DEF Next2
<1> HIDE DEF m, d, y
<1>2. Typed(one.fd)
  BY <1>1, SetOne, IntegerFits DEF FieldNames
<1> HIDE DEF one
<1>3. Typed(two.fd)
  BY <1>1, <1>2, SetNext, IntegerFits DEF FieldNames
<1> HIDE DEF two
<1>4. Typed(s.fd)
  BY <1>1, <1>3, SetNext, IntegerFits DEF FieldNames
<1> HIDE DEF s
<1> QED
  BY <1>4, ReadsTyped DEF Get_D, s, two, one, y, d, m

LEMMA Type_F == Types /\ Get_F => Types'
<1> SUFFICES ASSUME Types, Get_F PROVE Types'
  OBVIOUS
<1> DEFINE y == read_signed(input, 1, Width(4))
           m == Next2(y.st, "-", 2)
           d == Next2(m.st, "-", 2)
           r == [st |-> d.st, x |-> y.x]
           one == Set("Y", r)
           two == AndSet(one, "m", m.x)
           s == AndSet(two, "d", d.x)
<1>1. m.x \in Int /\ d.x \in Int /\ r.x \in Int
  BY ReadUnsigned, ReadSigned, WidthType DEF Next2
<1> HIDE DEF m, d, r
<1>2. Typed(one.fd)
  BY <1>1, SetOne, IntegerFits DEF FieldNames
<1> HIDE DEF one
<1>3. Typed(two.fd)
  BY <1>1, <1>2, SetNext, IntegerFits DEF FieldNames
<1> HIDE DEF two
<1>4. Typed(s.fd)
  BY <1>1, <1>3, SetNext, IntegerFits DEF FieldNames
<1> HIDE DEF s
<1> QED
  BY <1>4, ReadsTyped DEF Get_F, s, two, one, r, d, m

LEMMA Type_p == Types /\ Get_p => Types'
<1> SUFFICES ASSUME Types, Get_p PROVE Types'
  OBVIOUS
<1> DEFINE r == read_name(Halves)
           hour == IF r.x = 1 THEN PmHour ELSE 1
           half == IF hour = 1 THEN 0 ELSE IF hour = 13 THEN 1 ELSE not_a.p
           u == [r EXCEPT !.x = half]
<1>1. half \in {-1, 0, 1}
  BY DEF not_a
<1>2. r = [st |-> r.st, x |-> r.x]
  BY DEF read_name
<1> HIDE DEF r, half
<1>3. u.x \in {-1, 0, 1}
  BY <1>1, <1>2
<1> HIDE DEF u
<1>4. Fits("p", u.x)
  BY <1>3 DEF Fits
<1>5. Typed(Set("p", u).fd)
  BY <1>4, SetOne DEF FieldNames
<1> QED
  BY <1>5, ReadsTyped DEF Get_p, u, half, r

LEMMA Type_R == Types /\ Get_R => Types'
<1> SUFFICES ASSUME Types, Get_R PROVE Types'
  OBVIOUS
<1> DEFINE h == read_unsigned(input, 1, 2)
           m == Next2(h.st, ":", 2)
           r == [st |-> m.st, x |-> h.x]
           one == Set("H", r)
           s == AndSet(one, "M", m.x)
<1>1. r.x \in Int /\ m.x \in Int
  BY ReadUnsigned DEF Next2
<1> HIDE DEF m, r
<1>2. Typed(one.fd)
  BY <1>1, SetOne, IntegerFits DEF FieldNames
<1> HIDE DEF one
<1>3. Typed(s.fd)
  BY <1>1, <1>2, SetNext, IntegerFits DEF FieldNames
<1> HIDE DEF s
<1> QED
  BY <1>3, ReadsTyped DEF Get_R, s, one, r, m

LEMMA Type_S == Types /\ Get_S => Types'
<1> SUFFICES ASSUME Types, Get_S PROVE Types'
  OBVIOUS
<1> DEFINE w == facet(2, 0..60)
           a == read_seconds(input, FracWidth, Width(SecondsWidth))
           b == [w EXCEPT !.x = @ * Frac]
           r == IF modified = "" THEN a ELSE b
<1>1. w = [st |-> w.st, x |-> w.x] /\ w.x \in Int
  BY FacetType DEF facet, FailUnless, read_unsigned
<1>2. SecondsWidth \in Nat /\ Frac \in Nat /\ FracWidth \in Nat
  BY DigitsAssumption, TenType DEF SecondsWidth, Frac
<1>3. a.x \in Int
  BY <1>2, ReadSeconds, WidthType
<1> HIDE DEF w, a
<1>4. b.x \in Int
  BY <1>1, <1>2
<1> HIDE DEF b
<1>5. r.x \in Int
  BY <1>3, <1>4
<1> HIDE DEF r
<1>6. Typed(Set("s", r).fd)
  BY <1>5, SetOne, IntegerFits DEF FieldNames
<1>7. Reads({"S"}, {"", "O"}, Set("s", r))
  BY DEF Get_S, r, a, b, w
<1> QED
  BY <1>6, <1>7, ReadsTyped

LEMMA Type_T == Types /\ Get_T => Types'
<1> SUFFICES ASSUME Types, Get_T PROVE Types'
  OBVIOUS
<1> DEFINE h == read_unsigned(input, 1, 2)
           m == Next2(h.st, ":", 2)
           sec == read_seconds(read_char(m.st, ":"), FracWidth, SecondsWidth)
           r == [st |-> sec.st, x |-> h.x]
           one == Set("H", r)
           two == AndSet(one, "M", m.x)
           s == AndSet(two, "s", sec.x)
<1>1. SecondsWidth \in Nat /\ FracWidth \in Nat
  BY DigitsAssumption DEF SecondsWidth
<1>2. r.x \in Int /\ m.x \in Int /\ sec.x \in Int
  BY <1>1, ReadUnsigned, ReadSeconds DEF Next2
<1> HIDE DEF m, r, sec
<1>3. Typed(one.fd)
  BY <1>2, SetOne, IntegerFits DEF FieldNames
<1> HIDE DEF one
<1>4. Typed(two.fd)
  BY <1>2, <1>3, SetNext, IntegerFits DEF FieldNames
<1> HIDE DEF two
<1>5. Typed(s.fd)
  BY <1>2, <1>4, SetNext, IntegerFits DEF FieldNames
<1> HIDE DEF s
<1> QED
  BY <1>5, ReadsTyped DEF Get_T, s, two, one, r, sec, m

LEMMA Type_z == Types /\ Get_z => Types'
<1> SUFFICES ASSUME Types, Get_z PROVE Types'
  OBVIOUS
<1> DEFINE h == read_signed(input, IF modified = "" THEN 2 ELSE 1, 2)
           st == IF Good(h.st) THEN Peeked(h.st) ELSE h.st
           m == read_unsigned(IF modified = "" THEN st ELSE Drop(st, 1), 2, 2)
<1>1. h.x \in Int /\ m.x \in Int
  BY ReadSigned, ReadUnsigned
<1>2. \E k \in {0, m.x} : read_offset.x \in {Size(h.x) * 60 + k, -(Size(h.x) * 60 + k)}
  BY DEF read_offset
<1> HIDE DEF h, st, m
<1>3. read_offset.x \in Int
  BY <1>1, <1>2 DEF Size
<1>4. Typed(Set("z", read_offset).fd)
  BY <1>3, SetOne, IntegerFits DEF FieldNames
<1> QED
  BY <1>4, ReadsTyped DEF Get_z

LEMMA Type_Z == Types /\ Get_Z => Types'
<1> SUFFICES ASSUME Types, Get_Z PROVE Types'
  OBVIOUS
<1>1. ASSUME NEW r PROVE Typed(Set("Z", r).fd)
  BY SetOne DEF Fits, FieldNames
<1> QED
  BY <1>1, ReadsTyped DEF Get_Z

\* The width of a command is a number.
LEMMA Type_width == Types /\ Get_width => Types'
<1> SUFFICES ASSUME Types, Get_width PROVE Types'
  OBVIOUS
<1> DEFINE rest == SubSeq(fmt, at, Len(fmt))
           digits == Prefix(Input(rest), IsDigit, Len(rest))
<1>1. width' \in Nat /\ at' \in Nat \ {0}
  <2>1. rest \in Seq(STRING) /\ Len(rest) \in Nat
    BY DEF Types
  <2>2. Number(digits) \in Nat /\ Len(digits) \in Nat
    BY <2>1, DigitsInFront, NumberType
  <2>3. width' = Number(digits) /\ at' = at + Len(digits)
    BY DEF Get_width
  <2> HIDE DEF digits
  <2> QED
    BY <2>2, <2>3 DEF Types
<1>2. found' = found /\ fmt' = fmt
  BY DEF Get_width
<1>3. Typed(found') /\ fmt' \in Seq(STRING)
  BY <1>2 DEF Types
<1> QED
  BY <1>1, <1>3 DEF Types

\* The other rounds of the loop find nothing.
LEMMA Type_others ==
  Types /\ (Get_nt \/ Get_EO \/ Get_percent \/ Get_modified \/ Get_plain \/ Get_unknown
            \/ Get_literal \/ Get_end \/ Get_fields) => Types'
<1> USE NothingFoundTyped DEF EndCommand, Advance
<1>1. Types /\ Get_nt => Types'
  BY DEF Get_nt
<1>2. Types /\ Get_EO => Types'
  BY DEF Get_EO
<1>3. Types /\ Get_percent => Types'
  BY DEF Get_percent
<1>4. Types /\ Get_modified => Types'
  BY DEF Get_modified, Unmodifiable
<1>5. Types /\ Get_plain => Types'
  BY DEF Get_plain, Plain
<1>6. Types /\ Get_unknown => Types'
  BY DEF Get_unknown
<1>7. Types /\ Get_literal => Types'
  BY DEF Get_literal
<1>8. Types /\ Get_end => Types'
  BY DEF Get_end
<1>9. Types /\ Get_fields => Types'
  BY DEF Get_fields
<1> QED
  BY <1>1, <1>2, <1>3, <1>4, <1>5, <1>6, <1>7, <1>8, <1>9

LEMMA TypesStep == Types /\ from_stream => Types'
BY Type_aA, Type_uw, Type_bBh, Type_C, Type_D, Type_F, Type_de, Type_H, Type_I, Type_j, Type_M,
   Type_m, Type_p, Type_R, Type_S, Type_T, Type_Y, Type_y, Type_g, Type_G, Type_U, Type_V,
   Type_W, Type_z, Type_Z, Type_width, Type_others DEF from_stream

-----------------------------------------------------------------------------
(* What is made of the fields                                              *)

\* That an hour is not negative is true only of one that fits.
Counts(f, x) == (f # "Z" => x \in Int) /\ (f = "p" => x \in {-1, 0, 1})

AllNames == FieldNames \cup {"ok", "computed"}
Full(f) ==
    /\ f = [x \in AllNames |-> f[x]]
    /\ \A x \in FieldNames : Counts(x, f[x])
    /\ f.ok \in BOOLEAN
\* From f to g, only the fields in S change, and what did not fit does not.
Changes(f, g, S) ==
    /\ Full(g)
    /\ g.ok => f.ok
    /\ \A x \in FieldNames \ S : g[x] = f[x]

LEMMA IntegerCounts ==
  ASSUME NEW f \in FieldNames \ {"p"}, NEW x \in Int
  PROVE  Counts(f, x)
BY DEF Counts

LEMMA ChangesNothing == ASSUME NEW f, Full(f), NEW S PROVE Changes(f, f, S)
BY DEF Changes

LEMMA ChangesOn ==
  ASSUME NEW f, NEW g, NEW h, NEW S, NEW T, Changes(f, g, S), Changes(g, h, T)
  PROVE  Changes(f, h, S \cup T)
BY DEF Changes

LEMMA SetChanges ==
  ASSUME NEW f, Full(f), NEW part \in FieldNames, NEW x, Counts(part, x)
  PROVE  LET g == [f EXCEPT ![part] = x]
         IN  /\ Changes(f, g, {part})
             /\ g.ok = f.ok /\ g.computed = f.computed
             /\ \A y \in FieldNames : g[y] = IF y = part THEN x ELSE f[y]
<1> DEFINE g == [f EXCEPT ![part] = x]
<1>1. g = [y \in AllNames |-> IF y = part THEN x ELSE f[y]]
  BY DEF Full, AllNames
<1> HIDE DEF g
<1>2. \A y \in AllNames : g[y] = IF y = part THEN x ELSE f[y]
  BY <1>1
<1>3. g = [y \in AllNames |-> g[y]]
  BY <1>1, <1>2
<1>4. part # "ok" /\ part # "computed" /\ "ok" \in AllNames /\ "computed" \in AllNames
  BY DEF FieldNames, AllNames
<1>5. g.ok = f.ok /\ g.computed = f.computed
  BY <1>2, <1>4
<1>6. \A y \in FieldNames : g[y] = IF y = part THEN x ELSE f[y]
  BY <1>2 DEF AllNames
<1>7. \A y \in FieldNames : Counts(y, g[y])
  BY <1>6 DEF Full
<1>8. Full(g)
  BY <1>3, <1>5, <1>7 DEF Full
<1>9. Changes(f, g, {part})
  BY <1>5, <1>6, <1>8 DEF Changes
<1> QED
  BY <1>5, <1>6, <1>9 DEF g

LEMMA NeedChanges ==
  ASSUME NEW f, Full(f), NEW cond \in BOOLEAN
  PROVE  LET g == Need(f, cond)
         IN  /\ Changes(f, g, {})
             /\ g.ok = (f.ok /\ cond) /\ g.computed = f.computed
<1> DEFINE g == Need(f, cond)
<1>1. g = [y \in AllNames |-> IF y = "ok" THEN f.ok /\ cond ELSE f[y]]
  BY DEF Full, AllNames, Need
<1> HIDE DEF g
<1>2. \A y \in AllNames : g[y] = IF y = "ok" THEN f.ok /\ cond ELSE f[y]
  BY <1>1
<1>3. g = [y \in AllNames |-> g[y]]
  BY <1>1, <1>2
<1>4. "ok" \notin FieldNames /\ "ok" \in AllNames /\ "computed" \in AllNames
  BY DEF FieldNames, AllNames
<1>5. g.ok = (f.ok /\ cond) /\ g.computed = f.computed
  BY <1>2, <1>4
<1>6. \A y \in FieldNames : g[y] = f[y]
  BY <1>2, <1>4 DEF AllNames
<1>7. g.ok \in BOOLEAN /\ (g.ok => f.ok)
  BY <1>5 DEF Full
<1>8. Full(g)
  BY <1>3, <1>6, <1>7 DEF Full
<1>9. Changes(f, g, {})
  BY <1>6, <1>7, <1>8 DEF Changes
<1> QED
  BY <1>5, <1>9 DEF g

LEMMA ComputedChanges ==
  ASSUME NEW f, Full(f)
  PROVE  LET g == [f EXCEPT !.computed = TRUE]
         IN  Changes(f, g, {}) /\ g.ok = f.ok /\ g.computed
<1> DEFINE g == [f EXCEPT !.computed = TRUE]
<1>1. g = [y \in AllNames |-> IF y = "computed" THEN TRUE ELSE f[y]]
  BY DEF Full, AllNames
<1> HIDE DEF g
<1>2. \A y \in AllNames : g[y] = IF y = "computed" THEN TRUE ELSE f[y]
  BY <1>1
<1>3. g = [y \in AllNames |-> g[y]]
  BY <1>1, <1>2
<1>4. "computed" \notin FieldNames /\ "ok" \in AllNames /\ "computed" \in AllNames
  BY DEF FieldNames, AllNames
<1>5. g.ok = f.ok /\ g.computed
  BY <1>2, <1>4
<1>6. \A y \in FieldNames : g[y] = f[y]
  BY <1>2, <1>4 DEF AllNames
<1>7. Full(g)
  BY <1>3, <1>5, <1>6 DEF Full
<1>8. Changes(f, g, {})
  BY <1>5, <1>6, <1>7 DEF Changes
<1> QED
  BY <1>5, <1>8 DEF g

LEMMA AllFound ==
  ASSUME Typed(found)
  PROVE  /\ Full(Collected) /\ Collected.ok /\ ~Collected.computed
         /\ \A x \in FieldNames : Collected[x] = found[x]
<1>1. DOMAIN not_a = FieldNames
  BY DEF not_a, FieldNames
<1>2. Collected = [x \in AllNames |-> IF x \in FieldNames THEN found[x] ELSE x = "ok"]
  BY <1>1 DEF Collected, AllNames
<1>3. "ok" \notin FieldNames /\ "computed" \notin FieldNames
  BY DEF FieldNames
<1>4. Collected.ok = TRUE /\ Collected.computed = FALSE
  BY <1>2, <1>3 DEF AllNames
<1>5. \A x \in FieldNames : Collected[x] = found[x]
  BY <1>2 DEF AllNames
<1>6. Collected = [x \in AllNames |-> Collected[x]]
  BY <1>2
<1>7. \A x \in FieldNames : Counts(x, Collected[x])
  BY <1>5 DEF Typed, Fits, Counts, MinInt
<1>8. Full(Collected)
  BY <1>4, <1>6, <1>7 DEF Full
<1> QED
  BY <1>4, <1>5, <1>8

-----------------------------------------------------------------------------
(* The numbers of dates                                                    *)

YearRange == {n \in Int : -32768 <= n /\ n <= 32767}

LEMMA YearsInRange == MinYear..MaxYear \subseteq YearRange
<1>1. \A a, b \in Int : \A n \in a..b : n \in Int /\ a <= n /\ n <= b
  OBVIOUS
<1>2. MinYear \in Int /\ MaxYear \in Int /\ -32768 <= MinYear /\ MaxYear <= 32767
  BY DEF MinYear, MaxYear
<1>3. ASSUME NEW n \in MinYear..MaxYear PROVE n \in Int /\ MinYear <= n /\ n <= MaxYear
  BY <1>1, <1>2
<1>4. ASSUME NEW n \in MinYear..MaxYear PROVE n \in YearRange
  BY <1>2, <1>3 DEF YearRange
<1> QED
  BY <1>4

LEMMA Narrowed ==
  ASSUME NEW n \in Int
  PROVE  year(n) \in YearRange /\ month(n) \in 0..255 /\ day(n) \in 0..255 /\ weekday(n) \in 0..255
<1>1. year(n) \in YearRange
  BY DEF year, Short, YearRange
<1>2. month(n) \in 0..255 /\ day(n) \in 0..255
  BY DEF month, day, UChar
<1>3. weekday(n) \in 0..255
  BY DEF weekday, UChar
<1> QED
  BY <1>1, <1>2, <1>3

LEMMA QuotientType == ASSUME NEW n \in Int, NEW k \in Nat \ {0} PROVE Quotient(n, k) \in Int
BY DEF Quotient

LEMMA DaysType ==
  ASSUME NEW t, t.y \in Int, t.m \in Int, t.d \in Int
  PROVE  to_days(t) \in Int
<1> DEFINE y == t.y - (IF t.m <= 2 THEN 1 ELSE 0)
           era == Quotient(IF y >= 0 THEN y ELSE y - 399, 400)
           yoe == y - era * 400
           doy == (153 * (IF t.m > 2 THEN t.m - 3 ELSE t.m + 9) + 2) \div 5 + t.d - 1
           doe == yoe * 365 + yoe \div 4 - yoe \div 100 + doy
<1>1. y \in Int
  OBVIOUS
<1> HIDE DEF y
<1>2. era \in Int
  BY <1>1, QuotientType
<1>3. doy \in Int
  OBVIOUS
<1> HIDE DEF era, doy
<1>4. doe \in Int
  BY <1>1, <1>2, <1>3
<1>5. to_days(t) = era * 146097 + doe - 719468
  BY DEF to_days, doe, yoe, doy, era, y
<1> HIDE DEF doe
<1> QED
  BY <1>2, <1>4, <1>5

LEMMA DateType ==
  ASSUME NEW n \in Int
  PROVE  LET t == from_days(n)
         IN  t.y \in YearRange /\ t.m \in 0..255 /\ t.d \in 0..255
<1> DEFINE z == n + 719468
           era == Quotient(IF z >= 0 THEN z ELSE z - 146096, 146097)
           doe == z - era * 146097
           yoe == (doe - doe \div 1460 + doe \div 36524 - doe \div 146096) \div 365
           doy == doe - (365 * yoe + yoe \div 4 - yoe \div 100)
           mp == (5 * doy + 2) \div 153
           m == IF mp < 10 THEN mp + 3 ELSE mp - 9
           y == yoe + era * 400 + (IF m <= 2 THEN 1 ELSE 0)
           d == doy - (153 * mp + 2) \div 5 + 1
<1>1. from_days(n) = ymd(year(y), month(m), day(d))
  BY SMTT(30) DEF from_days
<1>2. era \in Int
  BY QuotientType
<1> HIDE DEF era
<1>3. doe \in Int
  BY <1>2
<1> HIDE DEF doe
<1>4. yoe \in Int
  BY <1>3
<1> HIDE DEF yoe
<1>5. doy \in Int
  BY <1>3, <1>4
<1> HIDE DEF doy
<1>6. mp \in Int
  BY <1>5
<1> HIDE DEF mp
<1>7. m \in Int
  BY <1>6
<1> HIDE DEF m
<1>8. y \in Int /\ d \in Int
  BY <1>2, <1>4, <1>5, <1>6, <1>7, SMTT(30)
<1> HIDE DEF y, d
<1> QED
  BY <1>1, <1>7, <1>8, Narrowed DEF ymd

LEMMA WeekdayType == ASSUME NEW n \in Int PROVE weekday_from_days(n) \in 0..6
BY DEF weekday_from_days, UnsignedMod7

LEMMA BetweenWeekdays ==
  ASSUME NEW v \in Int, NEW w \in Int
  PROVE  weekday_minus(v, w) \in Int
<1>1. Weeks(v - w) \in Int
  BY QuotientType DEF Weeks
<1> QED
  BY <1>1 DEF weekday_minus

LEMMA IsoStartType == ASSUME NEW y \in Int PROVE IsoStart(y) \in Int
<1> DEFINE t == ymd(year_plus(y, -1), 12, last_day(year_plus(y, -1), 12))
           end == to_days(t)
<1>1. year_plus(y, -1) \in Int
  <2>1. y + (-1) \in Int
    OBVIOUS
  <2>2. year(y + (-1)) \in YearRange
    BY <2>1, Narrowed
  <2> QED
    BY <2>2 DEF year_plus, YearRange
<1>2. last_day(year_plus(y, -1), 12) \in Int
  BY DEF last_day, Lengths, month_ok
<1>3. t.y \in Int /\ t.m \in Int /\ t.d \in Int
  BY <1>1, <1>2 DEF ymd
<1> HIDE DEF t
<1>4. end \in Int
  BY <1>3, DaysType
<1>5. IsoStart(y) = end - weekday_minus(weekday_from_days(end), 4) + weekday_minus(1, 4)
  BY DEF IsoStart, ymwdl_to_days, end, t
<1> HIDE DEF end
<1>6. weekday_from_days(end) \in Int
  BY <1>4, WeekdayType
<1>7. weekday_minus(weekday_from_days(end), 4) \in Int /\ weekday_minus(1, 4) \in Int
  BY <1>6, BetweenWeekdays, SMTT(30)
<1> QED
  BY <1>4, <1>5, <1>7

LEMMA FirstWeekType == ASSUME NEW y \in Int, NEW w \in 0..1 PROVE FirstWeek(y, w) \in Int
<1> DEFINE t == ymd(y, 1, 1)
           first == to_days(t)
<1>1. t.y \in Int /\ t.m \in Int /\ t.d \in Int
  BY DEF ymd
<1> HIDE DEF t
<1>2. first \in Int
  BY <1>1, DaysType
<1>3. FirstWeek(y, w) = first + weekday_minus(w, weekday_from_days(first)) + (1 - 1) * 7
  BY DEF FirstWeek, ymwd_to_days, weekday_indexed, Nibble, first, t
<1> HIDE DEF first
<1>4. weekday_from_days(first) \in Int
  BY <1>2, WeekdayType
<1>5. weekday_minus(w, weekday_from_days(first)) \in Int
  BY <1>4, BetweenWeekdays
<1> QED
  BY <1>2, <1>3, <1>5

-----------------------------------------------------------------------------
(* What each step of from_stream's end changes                             *)

LEMMA Numbers ==
  ASSUME NEW f, Full(f)
  PROVE  /\ f.Y \in Int /\ f.y \in Int /\ f.g \in Int /\ f.G \in Int /\ f.C \in Int
         /\ f.m \in Int /\ f.d \in Int /\ f.j \in Int /\ f.wd \in Int
         /\ f.U \in Int /\ f.V \in Int /\ f.W \in Int
         /\ f.I \in Int /\ f.M \in Int /\ f.s \in Int /\ f.z \in Int
         /\ f.H \in Int /\ f.p \in {-1, 0, 1}
<1>1. \A x \in FieldNames : Counts(x, f[x])
  BY DEF Full
<1> QED
  BY <1>1 DEF FieldNames, Counts

LEMMA FitPartChanges ==
  ASSUME NEW f, Full(f), NEW part \in FieldNames, NEW have, NEW x, Counts(part, x)
  PROVE  Changes(f, FitPart(f, part, have, x), {part})
<1>1. Changes(f, [f EXCEPT ![part] = x], {part})
  BY SetChanges
<1>2. Changes(f, Need(f, have = x), {})
  BY NeedChanges
<1>3. Changes(f, Need(f, have = x), {part})
  BY <1>2 DEF Changes
<1> QED
  BY <1>1, <1>3 DEF FitPart

LEMMA FitMonthDayChanges ==
  ASSUME NEW f, Full(f), NEW t, t.m \in Int, t.d \in Int
  PROVE  Changes(f, FitMonthDay(f, t), {"m", "d"})
<1> DEFINE g == FitPart(f, "m", month(f.m), t.m)
<1>1. Changes(f, g, {"m"})
  BY FitPartChanges, IntegerCounts DEF FieldNames
<1>2. Full(g)
  BY <1>1 DEF Changes
<1> HIDE DEF g
<1>3. Changes(g, FitPart(g, "d", day(f.d), t.d), {"d"})
  BY <1>2, FitPartChanges, IntegerCounts DEF FieldNames
<1>4. Changes(f, FitPart(g, "d", day(f.d), t.d), {"m"} \cup {"d"})
  BY <1>1, <1>3, ChangesOn
<1>5. {"m"} \cup {"d"} = {"m", "d"}
  OBVIOUS
<1> QED
  BY <1>4, <1>5 DEF FitMonthDay, g

LEMMA FitDateChanges ==
  ASSUME NEW f, Full(f), NEW t, t.y \in Int, t.m \in Int, t.d \in Int
  PROVE  Changes(f, FitDate(f, t), {"Y", "m", "d"})
<1> DEFINE g == FitPart(f, "Y", year(f.Y), t.y)
           h == FitMonthDay(g, t)
<1>1. Changes(f, g, {"Y"})
  BY FitPartChanges, IntegerCounts DEF FieldNames
<1>2. Full(g)
  BY <1>1 DEF Changes
<1> HIDE DEF g
<1>3. Changes(g, h, {"m", "d"})
  BY <1>2, FitMonthDayChanges
<1>4. Full(h)
  BY <1>3 DEF Changes
<1> HIDE DEF h
<1>5. Changes(h, [h EXCEPT !.computed = TRUE], {})
  BY <1>4, ComputedChanges
<1>6. Changes(f, [h EXCEPT !.computed = TRUE], ({"Y"} \cup {"m", "d"}) \cup {})
  BY <1>1, <1>3, <1>5, ChangesOn
<1>7. ({"Y"} \cup {"m", "d"}) \cup {} = {"Y", "m", "d"}
  OBVIOUS
<1> QED
  BY <1>6, <1>7 DEF FitDate, h, g

LEMMA FitYearChanges ==
  ASSUME NEW f, Full(f), NEW two \in {"y", "g"}, NEW full \in {"Y", "G"}
  PROVE  Changes(f, FitYear(f, two, full), {"C", full})
<1>1. CASE ~Has(f, two)
  <2>1. FitYear(f, two, full) = f
    BY <1>1 DEF FitYear
  <2> QED
    BY <2>1, ChangesNothing
<1>2. CASE Has(f, two)
  <2> DEFINE c == Century(f, two, full)
             y == JoinYear(c, f[two])
             ok == f[two] \in 0..99 /\ (Has(f, full) => f[full] = y)
             g == [f EXCEPT !.C = c]
             h == [g EXCEPT ![full] = y]
  <2>1. f[full] \in Int /\ f[two] \in Int /\ f.C \in Int
    BY Numbers
  <2>2. c \in Int
    BY <2>1, QuotientType DEF Century
  <2> HIDE DEF c
  <2>3. y \in Int
    BY <2>1, <2>2 DEF JoinYear
  <2> HIDE DEF y
  <2>4. ok \in BOOLEAN
    OBVIOUS
  <2> HIDE DEF ok
  <2>5. Changes(f, g, {"C"})
    BY <2>2, SetChanges, IntegerCounts DEF FieldNames
  <2>6. Full(g)
    BY <2>5 DEF Changes
  <2> HIDE DEF g
  <2>7. Changes(g, h, {full})
    BY <2>3, <2>6, SetChanges, IntegerCounts DEF FieldNames
  <2>8. Full(h)
    BY <2>7 DEF Changes
  <2> HIDE DEF h
  <2>9. Changes(h, Need(h, ok), {})
    BY <2>4, <2>8, NeedChanges
  <2>10. Changes(f, Need(h, ok), ({"C"} \cup {full}) \cup {})
    BY <2>5, <2>7, <2>9, ChangesOn
  <2>11. ({"C"} \cup {full}) \cup {} = {"C", full}
    OBVIOUS
  <2>12. FitYear(f, two, full) = Need(h, ok)
    BY <1>2 DEF FitYear, h, g, ok, y, c
  <2> QED
    BY <2>10, <2>11, <2>12
<1> QED
  BY <1>1, <1>2

LEMMA LimitYearChanges ==
  ASSUME NEW f, Full(f)
  PROVE  Changes(f, LimitYear(f), {"Y"}) /\ LimitYear(f).Y \in YearRange
<1>1. not_a.Y \in Int /\ not_a.Y \in YearRange
  BY DEF not_a, YearRange
<1>2. Changes(f, [f EXCEPT !.Y = not_a.Y], {"Y"}) /\ [f EXCEPT !.Y = not_a.Y].Y = not_a.Y
  <2>1. Counts("Y", not_a.Y) /\ "Y" \in FieldNames
    BY <1>1, IntegerCounts DEF FieldNames
  <2> QED
    BY <2>1, SetChanges
<1>3. Changes(f, f, {"Y"})
  BY ChangesNothing
<1>4. f.Y \in MinYear..MaxYear => f.Y \in YearRange
  BY YearsInRange
<1> QED
  BY <1>1, <1>2, <1>3, <1>4 DEF LimitYear

LEMMA FitDateYear ==
  ASSUME NEW f, Full(f), NEW t, t.y \in Int, t.m \in Int, t.d \in Int
  PROVE  FitDate(f, t).Y \in {f.Y, t.y}
<1> DEFINE g == FitPart(f, "Y", year(f.Y), t.y)
           h == FitMonthDay(g, t)
<1>1. Changes(f, g, {"Y"})
  BY FitPartChanges, IntegerCounts DEF FieldNames
<1>2. Full(g)
  BY <1>1 DEF Changes
<1>3. g.Y \in {f.Y, t.y}
  <2>1. CASE g = [f EXCEPT !.Y = t.y]
    <3>1. Counts("Y", t.y) /\ "Y" \in FieldNames
      BY IntegerCounts DEF FieldNames
    <3>2. [f EXCEPT !.Y = t.y].Y = t.y
      BY <3>1, SetChanges
    <3> QED
      BY <2>1, <3>2
  <2>2. CASE g = Need(f, year(f.Y) = t.y)
    <3>1. Changes(f, g, {})
      BY <2>2, NeedChanges
    <3> QED
      BY <3>1 DEF Changes, FieldNames
  <2> QED
    BY <2>1, <2>2 DEF FitPart
<1> HIDE DEF g
<1>4. Changes(g, h, {"m", "d"})
  BY <1>2, FitMonthDayChanges
<1>5. Full(h)
  BY <1>4 DEF Changes
<1>6. h.Y = g.Y
  BY <1>4 DEF Changes, FieldNames
<1> HIDE DEF h
<1>7. Changes(h, [h EXCEPT !.computed = TRUE], {})
  BY <1>5, ComputedChanges
<1>8. [h EXCEPT !.computed = TRUE].Y = h.Y
  BY <1>7 DEF Changes, FieldNames
<1> QED
  BY <1>3, <1>6, <1>8 DEF FitDate, h, g

\* A date that a week gives, or none.
ByDays(f, g) ==
    /\ Changes(f, g, {"Y", "m", "d"})
    /\ f.Y \in YearRange => g.Y \in YearRange

LEMMA FitDays ==
  ASSUME NEW f, Full(f), NEW n \in Int
  PROVE  ByDays(f, FitDate(f, from_days(n)))
<1> DEFINE t == from_days(n)
<1>1. t.y \in YearRange /\ t.m \in 0..255 /\ t.d \in 0..255
  BY DateType
<1>2. t.y \in Int /\ t.m \in Int /\ t.d \in Int
  BY <1>1 DEF YearRange
<1> HIDE DEF t
<1> QED
  BY <1>1, <1>2, FitDateChanges, FitDateYear DEF ByDays, t

LEMMA FitNoDays == ASSUME NEW f, Full(f) PROVE ByDays(f, f)
BY ChangesNothing DEF ByDays

LEMMA FitIsoWeekChanges == ASSUME NEW f, Full(f) PROVE ByDays(f, FitIsoWeek(f))
<1> DEFINE n == IsoStart(f.G) + 7 * (f.V - 1) + weekday_minus(f.wd, 1)
<1>1. n \in Int
  <2>1. f.G \in Int /\ f.V \in Int /\ f.wd \in Int
    BY Numbers
  <2>2. IsoStart(f.G) \in Int
    BY <2>1, IsoStartType
  <2>3. weekday_minus(f.wd, 1) \in Int
    <3>1. \A v \in Int : weekday_minus(v, 1) \in Int
      BY BetweenWeekdays
    <3> QED
      BY <2>1, <3>1
  <2> QED
    BY <2>1, <2>2, <2>3
<1> HIDE DEF n
<1> QED
  BY <1>1, FitDays, FitNoDays DEF FitIsoWeek, n

LEMMA FitWeekChanges ==
  ASSUME NEW f, Full(f), NEW week \in {"U", "W"}, NEW w \in 0..1
  PROVE  ByDays(f, FitWeek(f, week, w))
<1> DEFINE n == FirstWeek(year(f.Y), w) + 7 * (f[week] - 1) + weekday_minus(f.wd, w)
<1>1. n \in Int
  <2>1. f.Y \in Int /\ f[week] \in Int /\ f.wd \in Int
    BY Numbers
  <2>2. year(f.Y) \in Int
    BY <2>1, Narrowed DEF YearRange
  <2>3. FirstWeek(year(f.Y), w) \in Int
    BY <2>2, FirstWeekType
  <2>4. weekday_minus(f.wd, w) \in Int
    <3>1. \A v \in Int : weekday_minus(v, w) \in Int
      BY BetweenWeekdays
    <3> QED
      BY <2>1, <3>1
  <2> QED
    BY <2>1, <2>3, <2>4
<1> HIDE DEF n
<1> QED
  BY <1>1, FitDays, FitNoDays DEF FitWeek, n

\* The day of the year counts for the date, or later for the time.
LEMMA FitDayOfYearChanges ==
  ASSUME NEW f, Full(f)
  PROVE  LET g == FitDayOfYear(f)
         IN  /\ Changes(f, g, {"m", "d", "j"})
             /\ g.j = IF f.Y = not_a.Y THEN f.j ELSE not_a.j
<1>1. CASE Has(f, "j") /\ Has(f, "Y")
  <2> DEFINE first == ymd(year(f.Y), 1, 1)
             n == to_days(first) + f.j - 1
             t == from_days(n)
             h == FitMonthDay(f, t)
  <2>1. f.Y \in Int /\ f.j \in Int
    BY Numbers
  <2>2. first.y \in Int /\ first.m \in Int /\ first.d \in Int
    BY <2>1, Narrowed DEF YearRange, ymd
  <2> HIDE DEF first
  <2>3. n \in Int
    BY <2>1, <2>2, DaysType
  <2> HIDE DEF n
  <2>4. t.m \in Int /\ t.d \in Int
    BY <2>3, DateType, SMTT(30)
  <2> HIDE DEF t
  <2>5. Changes(f, h, {"m", "d"})
    BY <2>4, FitMonthDayChanges
  <2>6. Full(h)
    BY <2>5 DEF Changes
  <2> HIDE DEF h
  <2>7. Counts("j", not_a.j) /\ "j" \in FieldNames
    BY DEF Counts, not_a, FieldNames
  <2>8. Changes(h, [h EXCEPT !.j = not_a.j], {"j"}) /\ [h EXCEPT !.j = not_a.j].j = not_a.j
    BY <2>6, <2>7, SetChanges
  <2>9. Changes(f, [h EXCEPT !.j = not_a.j], {"m", "d"} \cup {"j"})
    BY <2>5, <2>8, ChangesOn
  <2>10. {"m", "d"} \cup {"j"} = {"m", "d", "j"}
    OBVIOUS
  <2>11. FitDayOfYear(f) = [h EXCEPT !.j = not_a.j]
    BY <1>1 DEF FitDayOfYear, h, t, n, first
  <2> QED
    BY <1>1, <2>8, <2>9, <2>10, <2>11 DEF Has
<1>2. CASE ~(Has(f, "j") /\ Has(f, "Y"))
  <2>1. FitDayOfYear(f) = f
    BY <1>2 DEF FitDayOfYear
  <2> QED
    BY <1>2, <2>1, ChangesNothing DEF Has
<1> QED
  BY <1>1, <1>2

LEMMA NeedChangesTo ==
  ASSUME NEW f, NEW g, NEW S, Changes(f, g, S), NEW cond \in BOOLEAN
  PROVE  Changes(f, Need(g, cond), S)
<1>1. Changes(g, Need(g, cond), {})
  BY NeedChanges DEF Changes
<1>2. Changes(f, Need(g, cond), S \cup {})
  BY <1>1, ChangesOn
<1>3. S \cup {} = S
  OBVIOUS
<1> QED
  BY <1>2, <1>3

LEMMA CheckDateChanges == ASSUME NEW f, Full(f) PROVE Changes(f, CheckDate(f), {"wd"})
<1> DEFINE h == CheckWeekday(f)
           i == CheckIsoWeek(h)
           u == CheckWeek(i, "U", 0)
<1>1. Changes(f, h, {"wd"})
  <2> DEFINE w == weekday_from_days(to_days(DateOf(f)))
  <2>1. f.Y \in Int /\ f.m \in Int /\ f.d \in Int
    BY Numbers
  <2>2. year(f.Y) \in Int /\ month(f.m) \in Int /\ day(f.d) \in Int
    <3>1. year(f.Y) \in YearRange
      BY <2>1, Narrowed
    <3>2. month(f.m) \in 0..255 /\ day(f.d) \in 0..255
      BY <2>1, Narrowed
    <3> QED
      BY <3>1, <3>2 DEF YearRange
  <2>3. to_days(DateOf(f)) \in Int
    BY <2>2, DaysType DEF DateOf, ymd
  <2>4. w \in Int
    BY <2>3, WeekdayType
  <2> HIDE DEF w
  <2>5. Changes(f, [f EXCEPT !.wd = w], {"wd"})
    BY <2>4, SetChanges, IntegerCounts DEF FieldNames
  <2>6. Changes(f, Need(f, f.wd = w), {"wd"})
    BY ChangesNothing, NeedChangesTo
  <2> QED
    BY <2>5, <2>6 DEF CheckWeekday, w
<1> HIDE DEF h
<1>2. Changes(f, i, {"wd"})
  BY <1>1, NeedChangesTo DEF CheckIsoWeek
<1> HIDE DEF i
<1>3. Changes(f, u, {"wd"})
  BY <1>2, NeedChangesTo DEF CheckWeek
<1> HIDE DEF u
<1>4. Changes(f, CheckWeek(u, "W", 1), {"wd"})
  BY <1>3, NeedChangesTo DEF CheckWeek
<1>5. Changes(f, f, {"wd"})
  BY ChangesNothing
<1> QED
  BY <1>1, <1>4, <1>5 DEF CheckDate, u, i, h

FullHour(f) == f.I + 12 * (IF f.I = 12 THEN f.p - 1 ELSE f.p)
LEMMA FitHourChanges ==
  ASSUME NEW f, Full(f)
  PROVE  LET g == FitHour(f)
         IN  /\ Changes(f, g, {"H"})
             /\ g.ok /\ Has(f, "H") => g.H = f.H
             /\ g.ok /\ Has(f, "I") => f.I \in 1..12
             /\ g.ok /\ Has(f, "I") /\ Has(f, "p") => g.H = FullHour(f)
             /\ ~(Has(f, "I") /\ Has(f, "p")) => g.H = f.H
             /\ g.ok /\ Has(f, "I") /\ ~Has(f, "p") /\ Has(f, "H")
                  => f.H \in IF f.I = 12 THEN {0, 12} ELSE {f.I, f.I - 12}
<1> DEFINE h == Need(f, f.I \in 1..12)
           cond == Has(f, "H") => f.H \in IF f.I = 12 THEN {0, 12} ELSE {f.I, f.I - 12}
           full == FullHour(f)
<1>0. f.I \in Int /\ f.p \in {-1, 0, 1} /\ f.H \in Int /\ not_a.p = -1
  BY Numbers DEF not_a
<1>1. CASE ~Has(f, "I")
  <2>1. FitHour(f) = f
    BY <1>1 DEF FitHour
  <2> QED
    BY <1>1, <2>1, ChangesNothing
<1>2. Changes(f, h, {}) /\ h.ok = (f.ok /\ f.I \in 1..12)
  <2>1. (f.I \in 1..12) \in BOOLEAN
    OBVIOUS
  <2> QED
    BY <2>1, NeedChanges
<1>3. Full(h) /\ h.H = f.H
  BY <1>2 DEF Changes, FieldNames
<1>4. CASE Has(f, "I") /\ ~Has(f, "p")
  <2> DEFINE g == Need(h, cond)
  <2>1. Changes(h, g, {}) /\ g.ok = (h.ok /\ cond)
    <3> HIDE DEF h
    <3>1. cond \in BOOLEAN
      BY DEF Has
    <3> HIDE DEF cond
    <3> QED
      BY <1>3, <3>1, NeedChanges
  <2>2. Changes(f, g, {} \cup {})
    BY <1>2, <2>1, ChangesOn
  <2>3. Changes(f, g, {"H"}) /\ g.H = f.H
    BY <2>2 DEF Changes, FieldNames
  <2>4. FitHour(f) = g
    BY <1>4 DEF FitHour
  <2> HIDE DEF g, h
  <2> QED
    BY <1>2, <1>4, <2>1, <2>3, <2>4
<1>5. CASE Has(f, "I") /\ Has(f, "p")
  <2> DEFINE g == FitPart(h, "H", f.H, full)
  <2>1. FitHour(f) = g
    BY <1>5 DEF FitHour, FullHour
  <2>2. Has(h, "H") = Has(f, "H")
    BY <1>3 DEF Has
  <2> HIDE DEF h
  <2>3. CASE Has(f, "H")
    <3>1. g = Need(h, f.H = full)
      BY <2>2, <2>3 DEF FitPart
    <3> HIDE DEF full
    <3>2. Changes(h, g, {}) /\ g.ok = (h.ok /\ f.H = full)
      BY <1>3, <3>1, NeedChanges
    <3>3. Changes(f, g, {} \cup {})
      BY <1>2, <3>2, ChangesOn
    <3>4. Changes(f, g, {"H"}) /\ g.H = f.H
      BY <3>3 DEF Changes, FieldNames
    <3> HIDE DEF g
    <3> QED
      BY <1>2, <1>5, <2>1, <2>3, <3>2, <3>4 DEF full
  <2>4. CASE ~Has(f, "H")
    <3>1. g = [h EXCEPT !.H = full]
      BY <2>2, <2>4 DEF FitPart
    <3>2. full \in Int
      BY <1>0 DEF FullHour
    <3> HIDE DEF full
    <3>3. Counts("H", full) /\ "H" \in FieldNames
      BY <3>2, IntegerCounts DEF FieldNames
    <3>4. Changes(h, g, {"H"}) /\ g.H = full /\ g.ok = h.ok
      <4> HIDE DEF g
      <4> QED
        BY <1>3, <3>1, <3>3, SetChanges
    <3>5. Changes(f, g, {} \cup {"H"})
      BY <1>2, <3>4, ChangesOn
    <3>6. {} \cup {"H"} = {"H"}
      OBVIOUS
    <3> HIDE DEF g
    <3> QED
      BY <1>2, <1>5, <2>1, <2>4, <3>4, <3>5, <3>6 DEF full
  <2> QED
    BY <2>3, <2>4
<1> QED
  BY <1>1, <1>4, <1>5

\* What is left of the fields when all has been made to fit.
LEMMA FittedIs ==
  ASSUME Typed(found)
  PROVE  LET f == Fitted
         IN  /\ Full(f) /\ f.Y \in YearRange
             /\ \A x \in {"I", "p", "M", "s", "z"} : f[x] = found[x]
             /\ f.j = IF f.Y = not_a.Y THEN found.j ELSE not_a.j
             /\ f.ok /\ Has(found, "H") => f.H = found.H
             /\ f.ok /\ Has(found, "I") => found.I \in 1..12
             /\ f.ok /\ Has(found, "I") /\ Has(found, "p") => f.H = FullHour(found)
             /\ ~(Has(found, "I") /\ Has(found, "p")) => f.H = found.H
             /\ f.ok /\ Has(found, "I") /\ ~Has(found, "p") /\ Has(found, "H")
                  => found.H \in IF found.I = 12 THEN {0, 12} ELSE {found.I, found.I - 12}
<1> DEFINE years1 == FitYear(Collected, "y", "Y")
           years2 == FitYear(years1, "g", "G")
           years == LimitYear(years2)
           weeks1 == FitIsoWeek(years)
           weeks2 == FitWeek(weeks1, "U", 0)
           weeks == FitWeek(weeks2, "W", 1)
           days == FitDayOfYear(weeks)
           checked == CheckDate(days)
           f == FitHour(checked)
           Time == {"H", "I", "p", "M", "s", "z"}
<1>0. Full(Collected) /\ \A x \in FieldNames : Collected[x] = found[x]
  BY AllFound
<1>1. Changes(Collected, years1, {"C", "Y"}) /\ Full(years1)
  BY <1>0, FitYearChanges DEF Changes
<1> HIDE DEF years1
<1>2. Changes(years1, years2, {"C", "G"}) /\ Full(years2)
  BY <1>1, FitYearChanges DEF Changes
<1> HIDE DEF years2
<1>3. Changes(years2, years, {"Y"}) /\ Full(years) /\ years.Y \in YearRange
  BY <1>2, LimitYearChanges DEF Changes
<1> HIDE DEF years
<1>4. ByDays(years, weeks1) /\ Full(weeks1) /\ weeks1.Y \in YearRange
  BY <1>3, FitIsoWeekChanges DEF ByDays, Changes
<1> HIDE DEF weeks1
<1>5. ByDays(weeks1, weeks2) /\ Full(weeks2) /\ weeks2.Y \in YearRange
  BY <1>4, FitWeekChanges DEF ByDays, Changes
<1> HIDE DEF weeks2
<1>6. ByDays(weeks2, weeks) /\ Full(weeks) /\ weeks.Y \in YearRange
  BY <1>5, FitWeekChanges DEF ByDays, Changes
<1> HIDE DEF weeks
<1>7. /\ Changes(weeks, days, {"m", "d", "j"}) /\ Full(days)
      /\ days.j = IF weeks.Y = not_a.Y THEN weeks.j ELSE not_a.j
  BY <1>6, FitDayOfYearChanges DEF Changes
<1> HIDE DEF days
<1>8. Changes(days, checked, {"wd"}) /\ Full(checked)
  BY <1>7, CheckDateChanges DEF Changes
<1> HIDE DEF checked
<1>9. \A x \in Time : checked[x] = found[x]
  <2>1. \A x \in Time : years1[x] = found[x]
    BY <1>0, <1>1 DEF Changes, FieldNames
  <2>2. \A x \in Time : years[x] = found[x]
    BY <2>1, <1>2, <1>3 DEF Changes, FieldNames
  <2>3. \A x \in Time : weeks[x] = found[x]
    BY <2>2, <1>4, <1>5, <1>6 DEF ByDays, Changes, FieldNames
  <2>4. \A x \in Time : days[x] = found[x]
    BY <2>3, <1>7 DEF Changes, FieldNames
  <2> QED
    BY <2>4, <1>8 DEF Changes, FieldNames
<1>10. weeks.j = found.j
  <2>1. years.j = found.j
    BY <1>0, <1>1, <1>2, <1>3 DEF Changes, FieldNames
  <2> QED
    BY <2>1, <1>4, <1>5, <1>6 DEF ByDays, Changes, FieldNames
<1>11. checked.Y = weeks.Y /\ checked.j = days.j
  BY <1>7, <1>8 DEF Changes, FieldNames
<1>12. /\ Changes(checked, f, {"H"})
       /\ f.ok /\ Has(checked, "H") => f.H = checked.H
       /\ f.ok /\ Has(checked, "I") => checked.I \in 1..12
       /\ f.ok /\ Has(checked, "I") /\ Has(checked, "p") => f.H = FullHour(checked)
       /\ ~(Has(checked, "I") /\ Has(checked, "p")) => f.H = checked.H
       /\ f.ok /\ Has(checked, "I") /\ ~Has(checked, "p") /\ Has(checked, "H")
            => checked.H \in IF checked.I = 12 THEN {0, 12} ELSE {checked.I, checked.I - 12}
  BY <1>8, FitHourChanges
<1> HIDE DEF f
<1>13. f.Y = checked.Y /\ f.j = checked.j /\ \A x \in {"I", "p", "M", "s", "z"} : f[x] = checked[x]
  BY <1>12 DEF Changes, FieldNames
<1>14. checked.H = found.H /\ checked.I = found.I /\ checked.p = found.p
  BY <1>9
<1>15. Fitted = f
  BY DEF Fitted, f, checked, days, weeks, weeks2, weeks1, years, years2, years1
<1>16. Full(f) /\ f.Y \in YearRange /\ f.j = IF f.Y = not_a.Y THEN found.j ELSE not_a.j
  BY <1>6, <1>7, <1>10, <1>11, <1>12, <1>13 DEF Changes
<1>17. \A x \in {"I", "p", "M", "s", "z"} : f[x] = found[x]
  BY <1>9, <1>13
<1>18. /\ Has(checked, "H") = Has(found, "H") /\ Has(checked, "I") = Has(found, "I")
       /\ Has(checked, "p") = Has(found, "p") /\ FullHour(checked) = FullHour(found)
  BY <1>14 DEF Has, FullHour
<1> QED
  BY <1>12, <1>14, <1>15, <1>16, <1>17, <1>18

-----------------------------------------------------------------------------
(* The time of day                                                         *)

LEMMA FracType == Frac \in Nat \ {0}
BY DigitsAssumption, TenType DEF Frac

LEMMA Divided == ASSUME NEW n \in Nat, NEW k \in Nat \ {0} PROVE (n * k) \div k = n
<1> DEFINE q == (n * k) \div k
<1>1. q \in Int /\ n * k \in Int /\ k * q <= n * k /\ n * k < k * q + k
  BY Z3
<1> HIDE DEF q
<1>2. n - q \in Int /\ k * (n - q) >= 0 /\ k * (n - q) < k
  BY <1>1
<1>3. ASSUME NEW x \in Int, k * x >= 0, k * x < k PROVE x = 0
  <2>1. ASSUME x >= 1 PROVE FALSE
    BY <1>3, <2>1
  <2>2. ASSUME x <= -1 PROVE FALSE
    BY <1>3, <2>2
  <2> QED
    BY <2>1, <2>2
<1>4. n - q = 0
  BY <1>2, <1>3
<1> QED
  BY <1>1, <1>4 DEF q

\* A time of h hours, and some minutes and seconds.
Hours(h) == h * 3600 * Frac
IsHour(h, t) ==
    t.h = h /\ t.m \in Int /\ t.s.s \in Int /\ t.s.sub \in Int /\ t.neg = FALSE
LEMMA HourIs ==
  ASSUME NEW h \in Nat
  PROVE  IsHour(h, hh_mm_ss(Hours(h), Frac))
<1> DEFINE a == h * 3600 * Frac
           k == 3600 * Frac
           m == a \div (60 * Frac) - h * 60
           rest == a - h * 3600 * Frac - m * 60 * Frac
           t == hh_mm_ss(a, Frac)
<1>1. k \in Nat \ {0} /\ Frac \in Nat \ {0} /\ 60 * Frac \in Nat \ {0}
  BY FracType
<1>2. a = h * k /\ a \in Nat
  BY <1>1
<1>3. a \div k = h
  BY <1>1, <1>2, Divided
<1>4. t = [h |-> a \div k, m |-> a \div (60 * Frac) - (a \div k) * 60,
           s |-> decimal_format_seconds(a - (a \div k) * 3600 * Frac
                                          - (a \div (60 * Frac) - (a \div k) * 60) * 60 * Frac, Frac),
           neg |-> a < 0]
  BY <1>2 DEF hh_mm_ss
<1>5. t = [h |-> h, m |-> m, s |-> decimal_format_seconds(rest, Frac), neg |-> a < 0]
  BY <1>3, <1>4
<1> HIDE DEF t
<1>6. m \in Int
  BY <1>1, <1>2
<1> HIDE DEF m
<1>7. rest \in Int
  BY <1>1, <1>2, <1>6
<1>8. (a < 0) = FALSE
  BY <1>2
<1> HIDE DEF rest, a
<1>9. Quotient(rest, Frac) \in Int
  BY <1>1, <1>7, QuotientType
<1>10. /\ decimal_format_seconds(rest, Frac).s \in Int
       /\ decimal_format_seconds(rest, Frac).sub \in Int
  BY <1>1, <1>7, <1>9 DEF decimal_format_seconds
<1>11. t.h = h /\ t.m = m /\ t.s = decimal_format_seconds(rest, Frac) /\ t.neg = FALSE
  BY <1>5, <1>8
<1> HIDE DEF m
<1>12. t.m \in Int /\ t.s.s \in Int /\ t.s.sub \in Int
  BY <1>6, <1>10, <1>11
<1> QED
  BY <1>11, <1>12 DEF t, a, IsHour, Hours

\* The time that fields stand for, part by part.
LEMMA TimeIs ==
  ASSUME NEW f, Full(f), Has(f, "H") => f.H \in Nat
  PROVE  LET t == TimeOf(f)
         IN  /\ t.h = (IF Has(f, "H") THEN f.H ELSE 0) + (IF Has(f, "j") THEN 24 * f.j ELSE 0)
             /\ t.h \in Int /\ t.m \in Int /\ t.s.s \in Int /\ t.s.sub \in Int
             /\ t.neg = FALSE
             /\ Has(f, "M") => t.m = f.M
             /\ Has(f, "s") => t.s.s * Frac + t.s.sub = f.s
<1> DEFINE h == IF Has(f, "H") THEN f.H ELSE 0
           u == IF Has(f, "H") THEN hh_mm_ss(f.H * 3600 * Frac, Frac) ELSE NoTime
           t == TimeOf(f)
           sec == IF Has(f, "s") THEN decimal_format_seconds(f.s, Frac) ELSE u.s
           days == IF Has(f, "j") THEN 24 * f.j ELSE 0
<1>0. f.j \in Int /\ f.M \in Int /\ f.s \in Int /\ Frac \in Nat \ {0}
  BY Numbers, FracType
<1>1. h \in Nat
  OBVIOUS
<1>2. u = hh_mm_ss(Hours(h), Frac)
  <2>1. Hours(0) = 0
    BY <1>0 DEF Hours
  <2>2. u = IF Has(f, "H") THEN hh_mm_ss(Hours(f.H), Frac) ELSE NoTime
    BY DEF Hours
  <2> HIDE DEF u
  <2> QED
    BY <2>1, <2>2 DEF NoTime
<1>3. u.h = h /\ u.m \in Int /\ u.s.s \in Int /\ u.s.sub \in Int /\ u.neg = FALSE
  <2> HIDE DEF h, u
  <2>1. IsHour(h, hh_mm_ss(Hours(h), Frac))
    BY <1>1, HourIs
  <2>2. IsHour(h, u)
    BY <1>2, <2>1
  <2> QED
    BY <2>2 DEF IsHour
<1>4. u = [h |-> u.h, m |-> u.m, s |-> u.s, neg |-> u.neg]
  <2> HIDE DEF h
  <2> QED
    BY <1>2 DEF hh_mm_ss
<1>5. TimeOf(f) = [u EXCEPT !.h = @ + days, !.m = IF Has(f, "M") THEN f.M ELSE @, !.s = sec]
  BY DEF TimeOf
<1>6. days \in Int
  BY <1>0
<1> HIDE DEF u, h, days, sec
<1>7. t = [h |-> h + days, m |-> IF Has(f, "M") THEN f.M ELSE u.m, s |-> sec, neg |-> FALSE]
  BY <1>3, <1>4, <1>5
<1> HIDE DEF t
<1>8. sec.s \in Int /\ sec.sub \in Int /\ (Has(f, "s") => sec.s * Frac + sec.sub = f.s)
  <2>1. CASE Has(f, "s")
    <3>1. Quotient(f.s, Frac) \in Int
      BY <1>0, QuotientType
    <3>2. sec = [s |-> Quotient(f.s, Frac), sub |-> f.s - Quotient(f.s, Frac) * Frac]
      BY <2>1 DEF sec, decimal_format_seconds
    <3> QED
      BY <1>0, <3>1, <3>2
  <2>2. CASE ~Has(f, "s")
    BY <1>3, <2>2 DEF sec
  <2> QED
    BY <2>1, <2>2
<1> QED
  BY <1>0, <1>1, <1>3, <1>6, <1>7, <1>8 DEF t, h, days

-----------------------------------------------------------------------------
(* The invariant                                                           *)

Results ==
    /\ phase \in {"write", "sent"} => got = Unread
    /\ phase = "read" /\ got # Unread => Stopped
    /\ got # Unread => got = Outcome
    /\ phase \in {"rewrite", "done"} /\ got # Unread /\ Accepts(request.kind)
         => taken = Take(request.kind)
    /\ taken # NoValue
         => phase \in {"rewrite", "done"} /\ got # Unread /\ Accepts(request.kind)
TInv == Types /\ Results

\* A round of to_stream keeps the format.
LEMMA Written ==
  ASSUME Writer!to_stream
  PROVE  fmt' = fmt /\ at' \in {at, at + 1}
<1>1. ASSUME NEW chars, NEW mods, NEW has, NEW s, Writer!Writes(chars, mods, has, s)
      PROVE  fmt' = fmt /\ at' = at + 1
  BY <1>1 DEF Writer!Writes, Writer!Advance
<1>2. ASSUME NEW chars, NEW mods, NEW s, Writer!WritesSigned(chars, mods, s)
      PROVE  fmt' = fmt /\ at' = at + 1
  BY <1>2 DEF Writer!WritesSigned, Writer!Advance
<1>3. ASSUME Writer!Put_aA \/ Writer!Put_bBh \/ Writer!Put_C \/ Writer!Put_d \/ Writer!Put_e
      PROVE  fmt' = fmt /\ at' = at + 1
  BY <1>1, <1>2, <1>3 DEF Writer!Put_aA, Writer!Put_bBh, Writer!Put_C, Writer!Put_d, Writer!Put_e
<1>4. ASSUME Writer!Put_D \/ Writer!Put_F \/ Writer!Put_G \/ Writer!Put_g \/ Writer!Put_H
      PROVE  fmt' = fmt /\ at' = at + 1
  BY <1>1, <1>2, <1>4 DEF Writer!Put_D, Writer!Put_F, Writer!Put_G, Writer!Put_g, Writer!Put_H
<1>5. ASSUME Writer!Put_I \/ Writer!Put_m \/ Writer!Put_M \/ Writer!Put_n
      PROVE  fmt' = fmt /\ at' = at + 1
  BY <1>1, <1>2, <1>5 DEF Writer!Put_I, Writer!Put_m, Writer!Put_M, Writer!Put_n
<1>6. ASSUME Writer!Put_j PROVE fmt' = fmt /\ at' = at + 1
  BY Zenon, <1>1, <1>6 DEF Writer!Put_j
<1>7. ASSUME Writer!Put_p \/ Writer!Put_Q \/ Writer!Put_q \/ Writer!Put_R \/ Writer!Put_S
      PROVE  fmt' = fmt /\ at' = at + 1
  BY <1>1, <1>2, <1>7 DEF Writer!Put_p, Writer!Put_Q, Writer!Put_q, Writer!Put_R, Writer!Put_S
<1>8. ASSUME Writer!Put_t \/ Writer!Put_T \/ Writer!Put_u \/ Writer!Put_U \/ Writer!Put_V
      PROVE  fmt' = fmt /\ at' = at + 1
  BY <1>1, <1>2, <1>8 DEF Writer!Put_t, Writer!Put_T, Writer!Put_u, Writer!Put_U, Writer!Put_V
<1>9. ASSUME Writer!Put_w \/ Writer!Put_W \/ Writer!Put_y \/ Writer!Put_Y \/ Writer!Put_z \/ Writer!Put_Z
      PROVE  fmt' = fmt /\ at' = at + 1
  BY <1>1, <1>2, <1>9 DEF Writer!Put_w, Writer!Put_W, Writer!Put_y, Writer!Put_Y, Writer!Put_z, Writer!Put_Z
<1>10. ASSUME Writer!Put_EO \/ Writer!Put_percent \/ Writer!Put_modified \/ Writer!Put_plain
             \/ Writer!Put_default \/ Writer!Put_end
      PROVE  fmt' = fmt /\ at' \in {at, at + 1}
  BY <1>10 DEF Writer!Put_EO, Writer!Put_percent, Writer!Put_modified, Writer!Unmodifiable,
       Writer!Put_plain, Writer!Plain, Writer!Put_default, Writer!Put_end, Writer!Advance
<1> QED
  BY <1>3, <1>4, <1>5, <1>6, <1>7, <1>8, <1>9, <1>10 DEF Writer!to_stream

\* What from_stream returns is settled once its loop is over.
LEMMA Settled ==
  ASSUME Types, from_stream
  PROVE  \/ ~Stopped /\ got' = got
         \/ Stopped /\ Stopped' /\ got' = Outcome /\ found' = found /\ input' = input
<1>1. ~(at <= Len(fmt) /\ at > Len(fmt))
  BY DEF Types
<1>2. ASSUME NEW chars, Reading(chars), Advance PROVE ~Stopped /\ got' = got
  BY <1>1, <1>2 DEF Reading, Advance, Stopped
<1>3. ASSUME NEW chars, NEW mods, NEW s, Reads(chars, mods, s) PROVE ~Stopped /\ got' = got
  BY <1>2, <1>3 DEF Reads
<1>4. ASSUME Get_aA \/ Get_uw \/ Get_bBh \/ Get_C \/ Get_D \/ Get_F \/ Get_de \/ Get_H \/ Get_I
             \/ Get_j \/ Get_M \/ Get_m \/ Get_p
      PROVE  ~Stopped /\ got' = got
  BY <1>3, <1>4 DEF Get_aA, Get_uw, Get_bBh, Get_C, Get_D, Get_F, Get_de, Get_H, Get_I, Get_j,
       Get_M, Get_m, Get_p
<1>5. ASSUME Get_R \/ Get_S \/ Get_T PROVE ~Stopped /\ got' = got
  BY <1>3, <1>5 DEF Get_R, Get_S, Get_T
<1>6. ASSUME Get_y PROVE ~Stopped /\ got' = got
  BY <1>2, <1>6 DEF Get_y, Reads
<1>7. ASSUME Get_Y PROVE ~Stopped /\ got' = got
  <2> DEFINE s == Set("Y", IF modified = "" THEN read_signed(input, 1, Width(4))
                           ELSE facet(4, FacetYears))
  <2>1. Reads({"Y"}, {"", "E"}, s)
    BY <1>7 DEF Get_Y
  <2> HIDE DEF s
  <2> QED
    BY <1>3, <2>1
<1>8. ASSUME Get_g \/ Get_G \/ Get_U \/ Get_V \/ Get_W PROVE ~Stopped /\ got' = got
  BY <1>2, <1>3, <1>8 DEF Get_g, Get_G, Get_U, Get_V, Get_W
<1>9. ASSUME Get_z \/ Get_Z PROVE ~Stopped /\ got' = got
  BY <1>2, <1>3, <1>9 DEF Get_z, Get_Z
<1>10. ASSUME Get_nt \/ Get_EO \/ Get_percent \/ Get_modified \/ Get_plain
      PROVE  ~Stopped /\ got' = got
  BY <1>2, <1>10 DEF Get_nt, Get_EO, Get_percent, Get_modified, Unmodifiable, Get_plain, Plain
<1>11. ASSUME Get_width \/ Get_unknown \/ Get_literal PROVE ~Stopped /\ got' = got
  BY <1>1, <1>11 DEF Get_width, Get_unknown, Get_literal, Other, Advance, Stopped
<1>12. ASSUME Get_end PROVE ~Stopped /\ got' = got
  BY <1>12 DEF Get_end, Stopped, Good
<1>13. ASSUME Get_fields
      PROVE  Stopped /\ Stopped' /\ got' = Outcome /\ found' = found /\ input' = input
  BY <1>13 DEF Get_fields, Stopped
<1> QED
  BY <1>4, <1>5, <1>6, <1>7, <1>8, <1>9, <1>10, <1>11, <1>12, <1>13 DEF from_stream

\* Results depend on these variables only.
LEMMA SameResults ==
  ASSUME found' = found, input' = input, got' = got
  PROVE  /\ Outcome' = Outcome
         /\ request' = request => Accepts(request.kind)' = Accepts(request.kind)
                                  /\ Take(request.kind)' = Take(request.kind)
<1>1. Outcome' = Outcome
  BY DEF Outcome, Fitted, Collected
<1>2. ASSUME request' = request PROVE Accepts(request.kind)' = Accepts(request.kind)
  BY <1>2 DEF Accepts
<1>3. ASSUME request' = request PROVE Take(request.kind)' = Take(request.kind)
  BY <1>3 DEF Take
<1> QED
  BY <1>1, <1>2, <1>3

LEMMA TInvInit == Init => TInv
<1> SUFFICES ASSUME Init PROVE TInv
  OBVIOUS
<1>1. found = not_a /\ width = -1 /\ at = 1 /\ request \in Requests /\ fmt = request.fmt
  BY DEF Init
<1>2. Typed(found)
  BY <1>1, NothingFound
<1>3. fmt \in Seq(STRING)
  BY <1>1, RequestsAssumption
<1>4. Types
  BY <1>1, <1>2, <1>3 DEF Types
<1>5. Results
  BY DEF Init, Results
<1> QED
  BY <1>4, <1>5 DEF TInv

LEMMA TInvNext == TInv /\ [Next]_vars => TInv'
<1> SUFFICES ASSUME TInv, [Next]_vars PROVE TInv'
  OBVIOUS
<1> USE DEF TInv
<1>1. CASE Write
  <2>1. /\ UNCHANGED <<phase, request, taken, width, found, input, got>>
        /\ fmt' = fmt /\ at' \in {at, at + 1} /\ phase # "read"
    BY <1>1, Written DEF Write
  <2>2. Types'
    BY <2>1, NothingFoundTyped
  <2>3. Results'
    BY <2>1, SameResults DEF Results
  <2> QED
    BY <2>2, <2>3
<1>2. CASE Sent
  <2>1. UNCHANGED <<fmt, at, width, found, got>> /\ got = Unread /\ phase' # "read"
    BY <1>2 DEF Sent, Results
  <2>2. Types'
    BY <2>1, NothingFoundTyped
  <2>3. Results'
    BY <1>2, <2>1 DEF Sent, Results, Unread
  <2> QED
    BY <2>2, <2>3
<1>3. CASE Slip
  <2>1. UNCHANGED <<phase, fmt, at, width, found, got>> /\ phase = "sent" /\ got = Unread
        /\ taken' = NoValue
    BY <1>3 DEF Slip, Results
  <2>2. Types'
    BY <2>1, NothingFoundTyped
  <2>3. Results'
    BY <2>1 DEF Results, Unread, Nothing, NoValue
  <2> QED
    BY <2>2, <2>3
<1>4. CASE Begin
  <2>1. UNCHANGED <<fmt, width, found, got>> /\ phase' = "read" /\ got = Unread /\ at' = 1
        /\ taken' = NoValue
    BY <1>4 DEF Begin, Results
  <2>2. Types'
    <3>1. Typed(found') /\ width' \in Nat \cup {-1} /\ fmt' \in Seq(STRING)
      BY <2>1 DEF Types
    <3> QED
      BY <2>1, <3>1 DEF Types
  <2>3. Results'
    BY <2>1 DEF Results, Unread, Nothing, NoValue
  <2> QED
    BY <2>2, <2>3
<1>5. CASE Read
  <2>1. UNCHANGED <<phase, request, taken>> /\ phase = "read" /\ from_stream
    BY <1>5 DEF Read
  <2>2. Types'
    BY <2>1, TypesStep
  <2>3. CASE ~Stopped /\ got' = got
    <3>1. got = Unread
      BY <2>1, <2>3 DEF Results
    <3> QED
      BY <2>1, <2>2, <2>3, <3>1 DEF Results, Unread, Nothing
  <2>4. CASE Stopped /\ Stopped' /\ got' = Outcome /\ found' = found /\ input' = input
    <3>1. Outcome' = Outcome
      BY <2>4 DEF Outcome, Fitted, Collected
    <3>2. Results'
      BY <2>1, <2>4, <3>1 DEF Results
    <3> QED
      BY <2>2, <3>2
  <2> QED
    BY <2>1, <2>3, <2>4, Settled
<1>6. CASE Received
  <2>1. UNCHANGED <<request, fmt, found, input, got>> /\ phase' \in {"rewrite", "done"}
        /\ at' \in {at, 1} /\ width' \in {width, -1}
    BY <1>6 DEF Received
  <2>2. Types'
    <3>1. Typed(found') /\ width' \in Nat \cup {-1} /\ fmt' \in Seq(STRING) /\ at' \in Nat \ {0}
      BY <2>1 DEF Types
    <3> QED
      BY <3>1 DEF Types
  <2>3. Accepts(request.kind) => taken' = Take(request.kind)
    BY <1>6 DEF Received
  <2>4. /\ ~Accepts(request.kind) => taken' = taken
        /\ got # Unread /\ taken = NoValue
    BY <1>6 DEF Received, Results
  <2>5. taken' # NoValue => Accepts(request.kind)
    BY <2>4
  <2>6. Results'
    BY <2>1, <2>3, <2>4, <2>5, SameResults DEF Results, NoValue
  <2> QED
    BY <2>2, <2>6
<1>7. CASE Rewritten
  <2>1. UNCHANGED <<request, taken, fmt, at, width, found, input, got>> /\ phase = "rewrite"
        /\ phase' = "done"
    BY <1>7 DEF Rewritten
  <2>2. Types'
    BY <2>1, NothingFoundTyped
  <2>3. Results'
    BY <2>1, SameResults DEF Results
  <2> QED
    BY <2>2, <2>3
<1>8. CASE Done \/ UNCHANGED vars
  <2>1. UNCHANGED <<phase, request, taken, fmt, at, command, width, found, input, got>>
    BY <1>8 DEF Done, vars
  <2>2. Types'
    BY <2>1, NothingFoundTyped
  <2>3. Results'
    BY <2>1, SameResults DEF Results, Stopped
  <2> QED
    BY <2>2, <2>3
<1> QED
  BY <1>1, <1>2, <1>3, <1>4, <1>5, <1>6, <1>7, <1>8 DEF Next

\* What is accepted says the time that was found.
LEMMA TimeAgrees == TInv => TimeIsTrue
<1> SUFFICES ASSUME TInv, Accepted, HasTime(request.kind), Found("H") => found.H >= 0
             PROVE  TimeIsTrue
  BY DEF TimeIsTrue
<1> DEFINE f == Fitted
           t == TimeOf(f)
           hour == t.h - (IF Found("j") /\ ~year_ok(got.ymd.y) THEN 24 * found.j ELSE 0)
<1>1. got # Unread /\ Accepts(request.kind) /\ ~got.fail /\ got = Outcome
      /\ taken = Take(request.kind)
  BY DEF Accepted, Ended, Accepts, TInv, Results
<1>2. f.ok /\ got.tod = t /\ got.ymd.y = year(f.Y) /\ got.offset = f.z
  <2>1. ~(input.fail \/ ~Fitted.ok)
    BY <1>1 DEF Outcome, Nothing
  <2> QED
    BY <1>1, <2>1 DEF Outcome, DateOf, ymd
<1>3. Typed(found)
  BY DEF TInv, Types
<1>4. /\ Full(f) /\ f.Y \in YearRange
      /\ \A x \in {"I", "p", "M", "s", "z"} : f[x] = found[x]
      /\ f.j = IF f.Y = not_a.Y THEN found.j ELSE not_a.j
      /\ Has(found, "H") => f.H = found.H
      /\ Has(found, "I") => found.I \in 1..12
      /\ Has(found, "I") /\ Has(found, "p") => f.H = FullHour(found)
      /\ ~(Has(found, "I") /\ Has(found, "p")) => f.H = found.H
      /\ Has(found, "I") /\ ~Has(found, "p") /\ Has(found, "H")
           => found.H \in IF found.I = 12 THEN {0, 12} ELSE {found.I, found.I - 12}
  BY <1>2, <1>3, FittedIs
<1> HIDE DEF f
<1>5. (Has(found, "H") => found.H \in Nat) /\ found.p \in {-1, 0, 1} /\ found.j \in Int /\ found.M \in Int
      /\ not_a.p = -1 /\ not_a.H = MinInt
  <2>1. \A x \in FieldNames : Fits(x, found[x])
    BY <1>3 DEF Typed
  <2> QED
    BY <2>1 DEF FieldNames, Fits, not_a, Found
<1>6. Has(found, "I") /\ Has(found, "p") => FullHour(found) \in 0..23
  BY <1>4, <1>5 DEF Has, FullHour
<1>7. Has(f, "H") => f.H \in Nat
  BY <1>4, <1>5, <1>6 DEF Has
<1>8. /\ t.h = (IF Has(f, "H") THEN f.H ELSE 0) + (IF Has(f, "j") THEN 24 * f.j ELSE 0)
      /\ t.h \in Int /\ t.m \in Int /\ t.s.s \in Int /\ t.s.sub \in Int
      /\ t.neg = FALSE
      /\ Has(f, "M") => t.m = f.M
      /\ Has(f, "s") => t.s.s * Frac + t.s.sub = f.s
  BY <1>4, <1>7, TimeIs
<1> HIDE DEF t
<1>9. year_ok(got.ymd.y) = (f.Y # not_a.Y)
  BY <1>2, <1>4 DEF year_ok, year, Short, YearRange, not_a
<1>10. hour = IF Has(f, "H") THEN f.H ELSE 0
  <2>1. (IF Has(f, "j") THEN 24 * f.j ELSE 0)
          = (IF Found("j") /\ ~year_ok(got.ymd.y) THEN 24 * found.j ELSE 0)
    BY <1>4, <1>9 DEF Has, Found
  <2>2. (IF Has(f, "H") THEN f.H ELSE 0) \in Int
    BY <1>7
  <2>3. (IF Found("j") /\ ~year_ok(got.ymd.y) THEN 24 * found.j ELSE 0) \in Int
    BY <1>5
  <2> QED
    BY <1>8, <2>1, <2>2, <2>3
<1> HIDE DEF hour
<1>11. Found("H") => hour = found.H
  BY <1>4, <1>10 DEF Found, Has
<1>12. Found("M") => t.m = found.M
  BY <1>4, <1>8 DEF Found, Has
<1>13. Found("s") => t.s.s * Frac + t.s.sub = found.s
  BY <1>4, <1>8 DEF Found, Has
<1>14. ASSUME Found("I"), Found("p")
       PROVE  make12(hour) = found.I /\ is_pm(hour) = (found.p = 1)
              /\ hour = make24(found.I, found.p = 1)
  <2>1. f.H = FullHour(found) /\ found.I \in 1..12 /\ found.p \in {0, 1}
    BY <1>4, <1>5, <1>14 DEF Found, Has
  <2>2. hour = FullHour(found)
    <3>1. FullHour(found) # MinInt
      BY <1>6, <1>14 DEF Found, MinInt
    <3> QED
      BY <1>5, <1>10, <2>1, <3>1 DEF Has
  <2> QED
    BY <2>1, <2>2 DEF FullHour, make12, is_pm, make24
<1>15. ASSUME Found("I"), Found("H"), ~Found("p")
       PROVE  make12(hour) = found.I
  <2>1. found.I \in 1..12 /\ found.H \in IF found.I = 12 THEN {0, 12} ELSE {found.I, found.I - 12}
    BY <1>4, <1>15 DEF Found
  <2>2. found.H \in Nat
    BY <1>5, <1>15 DEF Found, Has
  <2> QED
    BY <1>11, <1>15, <2>1, <2>2 DEF make12
<1>16. ASSUME request.kind # "duration" PROVE taken.n \in 0..(86400 * Frac - 1)
  <2> DEFINE offset == IF request.kind = "sys_time" /\ got.offset # not_a.z
                       THEN got.offset * 60 * Frac ELSE 0
             n == to_duration(got.tod, Frac) - offset
             whole == 86400 * Frac
  <2>1. f.z \in Int /\ Frac \in Nat \ {0}
    BY <1>4, Numbers, FracType
  <2>2. offset \in Int
    BY <1>2, <2>1
  <2>3. to_duration(got.tod, Frac) \in Int
    <3>1. to_duration(t, Frac) = (((t.h * 60 + t.m) * 60 + t.s.s) * Frac + t.s.sub) * 1
      BY <1>8 DEF to_duration
    <3> QED
      BY <1>2, <1>8, <2>1, <3>1
  <2> HIDE DEF offset
  <2>4. n \in Int
    BY <2>2, <2>3
  <2> HIDE DEF n
  <2>5. n % whole \in 0..(whole - 1)
    BY <2>1, <2>4
  <2>6. request.kind # "weekday"
    BY DEF HasTime
  <2>7. taken.n = n % whole
    BY <1>1, <1>16, <2>6 DEF Take, NoValue, n, offset
  <2> QED
    BY <2>5, <2>7
<1> QED
  BY <1>2, <1>11, <1>12, <1>13, <1>14, <1>15, <1>16 DEF TimeIsTrue, hour, t

-----------------------------------------------------------------------------
(* The calendar                                                            *)
Cal == INSTANCE Calendar_proofs WITH z <- 0, Walks <- {}, Shifts <- {}

LEMMA SameToDays == \A t : to_days(t) = Cal!to_days(t)
BY SMT DEF to_days, Cal!to_days, Quotient, Cal!Quotient

LEMMA SameFromDays == ASSUME NEW n \in Int PROVE from_days(n) = Cal!from_days(n)
<1> DEFINE z == n + 719468
           era == Quotient(IF z >= 0 THEN z ELSE z - 146096, 146097)
           doe == z - era * 146097
           yoe == (doe - doe \div 1460 + doe \div 36524 - doe \div 146096) \div 365
           doy == doe - (365 * yoe + yoe \div 4 - yoe \div 100)
           mp == (5 * doy + 2) \div 153
           m == IF mp < 10 THEN mp + 3 ELSE mp - 9
<1>1. \A a, b : Cal!Quotient(a, b) = Quotient(a, b)
  BY SMT DEF Quotient, Cal!Quotient
<1>2. \A a : Cal!year(a) = year(a) /\ Cal!month(a) = month(a) /\ Cal!day(a) = day(a)
  BY SMT DEF year, Cal!year, Short, Cal!Short, month, Cal!month, day, Cal!day, UChar, Cal!UChar
<1>3. \A a, b, c : Cal!ymd(a, b, c) = ymd(a, b, c)
  BY SMT DEF ymd, Cal!ymd
<1>4. from_days(n) = ymd(year(yoe + era * 400 + (IF m <= 2 THEN 1 ELSE 0)), month(m),
                        day(doy - (153 * mp + 2) \div 5 + 1))
  BY SMTT(30) DEF from_days
<1>5. era = Cal!Quotient(IF z >= 0 THEN z ELSE z - 146096, 146097)
  BY <1>1, SMT
<1>6. Cal!from_days(n) = Cal!ymd(Cal!year(yoe + era * 400 + (IF m <= 2 THEN 1 ELSE 0)), Cal!month(m),
                        Cal!day(doy - (153 * mp + 2) \div 5 + 1))
  <2> HIDE DEF era
  <2> QED BY <1>5, SMT DEF Cal!from_days
<1> HIDE DEF m, mp, doy, yoe, era
<1> QED
  BY <1>2, <1>3, <1>4, <1>6, SMT

LEMMA SameRules ==
  /\ \A a, b : Cal!Quotient(a, b) = Quotient(a, b)
  /\ \A a, b, c : Cal!ymd(a, b, c) = ymd(a, b, c)
  /\ \A n : Cal!weekday_from_days(n) = weekday_from_days(n)
  /\ \A v, w : Cal!weekday_minus(v, w) = weekday_minus(v, w)
  /\ \A y : Cal!is_leap(y) = is_leap(y)
  /\ \A y, m : Cal!last_day(y, m) = last_day(y, m)
  /\ \A y, n : Cal!year_plus(y, n) = year_plus(y, n)
  /\ \A w, n : Cal!weekday_indexed(w, n) = weekday_indexed(w, n)
  /\ \A t : Cal!ymd_ok(t) = ymd_ok(t)
<1>1. \A a, b : Cal!Quotient(a, b) = Quotient(a, b)
  BY SMT DEF Quotient, Cal!Quotient
<1>2. \A a, b, c : Cal!ymd(a, b, c) = ymd(a, b, c)
  BY SMT DEF ymd, Cal!ymd
<1>3. \A n : Cal!weekday_from_days(n) = weekday_from_days(n)
  BY SMT DEF weekday_from_days, Cal!weekday_from_days, UnsignedMod7, Cal!UnsignedMod7
<1>4. \A n : Cal!Weeks(n) = Weeks(n)
  BY <1>1, SMT DEF Weeks, Cal!Weeks
<1>5. \A v, w : Cal!weekday_minus(v, w) = weekday_minus(v, w)
  BY <1>4, SMT DEF weekday_minus, Cal!weekday_minus
<1>6. \A y : Cal!is_leap(y) = is_leap(y)
  BY SMT DEF is_leap, Cal!is_leap
<1>7. \A y, m : Cal!last_day(y, m) = last_day(y, m)
  BY <1>6, SMT DEF last_day, Cal!last_day, month_ok, Cal!month_ok, Lengths, Cal!Lengths
<1>8. \A y, n : Cal!year_plus(y, n) = year_plus(y, n)
  BY SMT DEF year_plus, Cal!year_plus, year, Cal!year, Short, Cal!Short
<1>9. \A w, n : Cal!weekday_indexed(w, n) = weekday_indexed(w, n)
  BY SMT DEF weekday_indexed, Cal!weekday_indexed, Nibble, Cal!Nibble
<1>10. \A t : Cal!ymd_ok(t) = ymd_ok(t)
  BY <1>7, SMT DEF ymd_ok, Cal!ymd_ok, year_ok, Cal!year_ok, month_ok, Cal!month_ok
<1> QED
  BY <1>1, <1>2, <1>3, <1>5, <1>6, <1>7, <1>8, <1>9, <1>10, SMT

LEMMA SameWeeks ==
  /\ \A y : Cal!IsoStart(y) = IsoStart(y)
  /\ \A y, w : Cal!FirstWeek(y, w) = FirstWeek(y, w)
<1>1. ASSUME NEW y PROVE Cal!IsoStart(y) = IsoStart(y)
  <2> DEFINE last == year_plus(y, -1)
             end == to_days(ymd(last, 12, last_day(last, 12)))
  <2>1. Cal!IsoStart(y) = end - weekday_minus(weekday_from_days(end), 4) + weekday_minus(1, 4)
    BY SameRules, SameToDays, SMT DEF Cal!IsoStart, Cal!ymwdl_to_days
  <2>2. IsoStart(y) = end - weekday_minus(weekday_from_days(end), 4) + weekday_minus(1, 4)
    BY SMT DEF IsoStart, ymwdl_to_days
  <2> QED
    BY <2>1, <2>2, SMT
<1>2. ASSUME NEW y, NEW w PROVE Cal!FirstWeek(y, w) = FirstWeek(y, w)
  <2> DEFINE i == weekday_indexed(w, 1)
             first == to_days(ymd(y, 1, 1))
  <2>1. Cal!FirstWeek(y, w) = first + weekday_minus(i.wd, weekday_from_days(first)) + (i.index - 1) * 7
    BY SameRules, SameToDays, SMT DEF Cal!FirstWeek, Cal!ymwd_to_days
  <2>2. FirstWeek(y, w) = first + weekday_minus(i.wd, weekday_from_days(first)) + (i.index - 1) * 7
    BY SMT DEF FirstWeek, ymwd_to_days
  <2> QED
    BY <2>1, <2>2, SMT
<1> QED
  BY <1>1, <1>2, SMT

NewYear(y) == to_days(ymd(y, 1, 1))
YearDays(y) == IF is_leap(y) THEN 366 ELSE 365
AYear(y) == y \in Int /\ -32767 < y /\ y < 32767

LEMMA SameYears == \A y : Cal!NewYear(y) = NewYear(y) /\ Cal!YearDays(y) = YearDays(y)
<1>1. ASSUME NEW y PROVE Cal!NewYear(y) = NewYear(y)
  BY SameRules, SameToDays, SMT DEF NewYear, Cal!NewYear
<1>2. ASSUME NEW y PROVE Cal!YearDays(y) = YearDays(y)
  BY SameRules, SMT DEF YearDays, Cal!YearDays
<1> QED
  BY <1>1, <1>2, SMT

\* The years follow one another.
LEMMA Years ==
  ASSUME NEW y \in Int
  PROVE  /\ NewYear(y) \in Int /\ NewYear(y + 1) \in Int
         /\ NewYear(y + 1) = NewYear(y) + YearDays(y) /\ YearDays(y) \in {365, 366}
         /\ \A x \in Int : x < y => NewYear(x + 1) <= NewYear(y)
<1>1. \A x \in Int : Cal!NewYear(x) \in Int /\ Cal!NewYear(x + 1) = Cal!NewYear(x) + Cal!YearDays(x)
  BY Cal!NewYears, SMT
<1>2. \A x \in Int : x < y => Cal!NewYear(x + 1) <= Cal!NewYear(y)
  BY Cal!NewYears, SMT
<1>3. YearDays(y) \in {365, 366} /\ y + 1 \in Int
  BY SMT DEF YearDays
<1> QED
  BY <1>1, <1>2, <1>3, SameYears, SMT

\* A day of a year, and a date of it.
IsDateOf(t, n) ==
    /\ t = ymd(t.y, t.m, t.d) /\ t.y \in Int /\ t.m \in 1..12 /\ t.d \in 1..31
    /\ ymd_ok(t) /\ to_days(t) = n /\ from_days(n) = t /\ n \in Int

LEMMA DayOf ==
  ASSUME NEW y, AYear(y), NEW n \in Int, NewYear(y) <= n, n < NewYear(y + 1)
  PROVE  from_days(n).y = y /\ IsDateOf(from_days(n), n)
<1> DEFINE t == from_days(n)
<1>1. Cal!IsDay(n) /\ Cal!from_days(n).y = y
  <2>1. y \in Int /\ Cal!MinYear <= y /\ y <= Cal!MaxYear
    BY SMT DEF AYear, Cal!MinYear, Cal!MaxYear
  <2> QED
    BY <2>1, Cal!YearOfDay, SameYears, SMT
<1>2. t = Cal!from_days(n)
  BY SameFromDays, SMT
<1>3. t \in Cal!Date /\ Cal!ymd_ok(t) /\ Cal!to_days(t) = n
  BY <1>1, <1>2, Cal!ToDaysOfFromDays, SMT
<1> HIDE DEF t
<1>4. t = ymd(t.y, t.m, t.d) /\ t.y \in Int /\ t.m \in Int /\ t.d \in Int
  BY <1>3, SMT DEF Cal!Date, ymd
<1>5. ymd_ok(t) /\ to_days(t) = n
  BY <1>3, SameRules, SameToDays, SMT
<1>6. t.m \in 1..12 /\ t.d \in 1..31
  BY <1>4, <1>5, SMT DEF ymd_ok, month_ok, last_day, Lengths
<1> QED
  BY <1>1, <1>2, <1>4, <1>5, <1>6, SMT DEF t, IsDateOf

\* A day between two years lies in one of them.
LEMMA DayIn ==
  ASSUME NEW a, NEW b, AYear(a), AYear(b), NEW n \in Int, NewYear(a) <= n, n < NewYear(b)
  PROVE  LET t == from_days(n)
         IN  /\ IsDateOf(t, n) /\ a <= t.y /\ t.y < b
             /\ NewYear(t.y) <= n /\ n < NewYear(t.y + 1)
<1> DEFINE y == from_days(n).y
<1>1. Cal!IsDay(n)
  <2>1. a \in Int /\ b \in Int /\ Cal!MinYear <= a /\ b <= Cal!MaxYear + 1
    BY SMT DEF AYear, Cal!MinYear, Cal!MaxYear
  <2>2. Cal!NewYear(a) <= n /\ n < Cal!NewYear(b)
    BY SameYears, SMT
  <2> QED
    BY <2>1, <2>2, Cal!DaysOfYears, SMT
<1>2. y = Cal!from_days(n).y
  BY SameFromDays, SMT
<1>3. y \in Int /\ NewYear(y) <= n /\ n < NewYear(y + 1)
  BY <1>1, <1>2, Cal!DayInYear, SameYears, SMT
<1> HIDE DEF y
<1>4. a \in Int /\ b \in Int
  BY DEF AYear
<1>5. \A x \in Int : NewYear(x) \in Int /\ NewYear(x + 1) \in Int
  BY Years, SMT
<1>6. \A x1, x2 \in Int : x1 < x2 => NewYear(x1 + 1) <= NewYear(x2)
  BY Years, SMT
<1>7. ~(y < a)
  BY <1>3, <1>4, <1>5, <1>6, SMT
<1>8. ~(b <= y)
  <2>1. b = y => FALSE
    BY <1>3, <1>4, <1>5, SMT
  <2>2. b < y => FALSE
    <3>1. NewYear(b + 1) = NewYear(b) + YearDays(b) /\ YearDays(b) \in {365, 366}
      BY <1>4, Years, SMT
    <3> QED
      BY <1>3, <1>4, <1>5, <1>6, <3>1, SMT
  <2> QED
    BY <1>3, <1>4, <2>1, <2>2, SMT
<1>9. AYear(y)
  BY <1>3, <1>4, <1>7, <1>8, SMT DEF AYear
<1> QED
  BY <1>3, <1>4, <1>7, <1>8, <1>9, DayOf, SMT DEF y

LEMMA InItsYear ==
  ASSUME NEW t, AYear(t.y), t.m \in Int, t.d \in Int, t = ymd(t.y, t.m, t.d), ymd_ok(t)
  PROVE  /\ IsDateOf(t, to_days(t))
         /\ NewYear(t.y) <= to_days(t) /\ to_days(t) < NewYear(t.y + 1)
<1>1. t \in Cal!Date /\ Cal!ymd_ok(t) /\ Cal!InYears(t)
  <2>1. t.y \in Int /\ Cal!MinYear <= t.y /\ t.y <= Cal!MaxYear
    BY SMT DEF AYear, Cal!MinYear, Cal!MaxYear
  <2> QED
    BY <2>1, SameRules, SMT DEF Cal!Date, Cal!InYears, ymd
<1>2. /\ Cal!IsDay(Cal!to_days(t)) /\ Cal!from_days(Cal!to_days(t)) = t
      /\ Cal!NewYear(t.y) <= Cal!to_days(t) /\ Cal!to_days(t) < Cal!NewYear(t.y + 1)
  BY <1>1, Cal!DateInYear, SMT
<1>3. to_days(t) = Cal!to_days(t)
  BY SameToDays, SMT
<1>4. to_days(t) \in Int
  BY <1>2, <1>3, SMT DEF Cal!IsDay
<1>5. from_days(to_days(t)) = t
  BY <1>2, <1>3, <1>4, SameFromDays, SMT
<1>6. t.m \in 1..12 /\ t.d \in 1..31
  BY SMT DEF ymd_ok, month_ok, last_day, Lengths
<1> QED
  BY <1>2, <1>3, <1>4, <1>5, <1>6, SameYears, SMT DEF IsDateOf, AYear

LEMMA IsoStarts ==
  ASSUME NEW y, AYear(y)
  PROVE  /\ IsoStart(y) \in Int /\ NewYear(y) - 3 <= IsoStart(y) /\ IsoStart(y) <= NewYear(y) + 3
         /\ \A x : AYear(x) /\ x < y
              => IsoStart(x) + 364 <= IsoStart(y) /\ IsoStart(x) % 7 = IsoStart(y) % 7
<1>1. Cal!MinYear = -32767 /\ Cal!MaxYear = 32767 /\ y \in Int
  BY SMT DEF Cal!MinYear, Cal!MaxYear, AYear
<1>2. /\ Cal!IsoStart(y) \in Int /\ Cal!NewYear(y) - 3 <= Cal!IsoStart(y)
      /\ Cal!IsoStart(y) <= Cal!NewYear(y) + 3
      /\ \A x \in Int : Cal!MinYear < x /\ x < y
           => Cal!IsoStart(x) + 364 <= Cal!IsoStart(y) /\ Cal!IsoStart(x) % 7 = Cal!IsoStart(y) % 7
  <2>1. Cal!MinYear < y /\ y <= Cal!MaxYear
    BY <1>1, SMT DEF AYear
  <2> QED
    BY <1>1, <2>1, Cal!IsoStarts, SMT
<1>3. ASSUME NEW x, AYear(x), x < y
      PROVE  IsoStart(x) + 364 <= IsoStart(y) /\ IsoStart(x) % 7 = IsoStart(y) % 7
  <2>1. x \in Int /\ Cal!MinYear < x
    BY <1>1, <1>3, SMT DEF AYear
  <2> QED
    BY <1>2, <1>3, <2>1, SameWeeks, SMT
<1> QED
  BY <1>2, <1>3, SameWeeks, SameYears, SMT

LEMMA FirstWeeks ==
  ASSUME NEW y \in Int, NEW w \in 0..1
  PROVE  FirstWeek(y, w) \in Int /\ NewYear(y) <= FirstWeek(y, w) /\ FirstWeek(y, w) <= NewYear(y) + 6
<1>1. w \in Int /\ 0 <= w /\ w <= 1
  BY SMT
<1>2. /\ Cal!FirstWeek(y, w) \in Int /\ Cal!NewYear(y) <= Cal!FirstWeek(y, w)
      /\ Cal!FirstWeek(y, w) <= Cal!NewYear(y) + 6
  BY <1>1, Cal!FirstWeeks, SMT
<1> QED
  BY <1>2, SameWeeks, SameYears, SMT

LEMMA BetweenTwo ==
  ASSUME NEW v \in Int, NEW w \in Int
  PROVE  weekday_minus(v, w) = (v - w) % 7 /\ weekday_minus(v, w) \in 0..6
<1>1. \A a, b \in Int : Cal!weekday_minus(a, b) = (a - b) % 7
  BY Cal!WeekdayMinus, SMT
<1>2. weekday_minus(v, w) = (v - w) % 7
  BY <1>1, SameRules, SMT
<1> QED
  BY <1>2, SMT
-----------------------------------------------------------------------------
(* What the writer says of a date                                           *)

LEMMA WriterToDays == \A t : to_days(t) = Writer!to_days(t)
BY SMT DEF to_days, Writer!to_days, Quotient, Writer!Quotient

LEMMA WriterFromDays == ASSUME NEW n \in Int PROVE from_days(n) = Writer!from_days(n)
<1> DEFINE z == n + 719468
           era == Quotient(IF z >= 0 THEN z ELSE z - 146096, 146097)
           doe == z - era * 146097
           yoe == (doe - doe \div 1460 + doe \div 36524 - doe \div 146096) \div 365
           doy == doe - (365 * yoe + yoe \div 4 - yoe \div 100)
           mp == (5 * doy + 2) \div 153
           m == IF mp < 10 THEN mp + 3 ELSE mp - 9
<1>1. \A a, b : Writer!Quotient(a, b) = Quotient(a, b)
  BY SMT DEF Quotient, Writer!Quotient
<1>2. \A a : Writer!year(a) = year(a) /\ Writer!month(a) = month(a) /\ Writer!day(a) = day(a)
  BY SMT DEF year, Writer!year, Short, Writer!Short, month, Writer!month, day, Writer!day, UChar, Writer!UChar
<1>3. \A a, b, c : Writer!ymd(a, b, c) = ymd(a, b, c)
  BY SMT DEF ymd, Writer!ymd
<1>4. from_days(n) = ymd(year(yoe + era * 400 + (IF m <= 2 THEN 1 ELSE 0)), month(m),
                        day(doy - (153 * mp + 2) \div 5 + 1))
  BY SMTT(30) DEF from_days
<1>5. era = Writer!Quotient(IF z >= 0 THEN z ELSE z - 146096, 146097)
  BY <1>1, SMT
<1>6. Writer!from_days(n) = Writer!ymd(Writer!year(yoe + era * 400 + (IF m <= 2 THEN 1 ELSE 0)), Writer!month(m),
                        Writer!day(doy - (153 * mp + 2) \div 5 + 1))
  <2> HIDE DEF era
  <2> QED BY <1>5, SMT DEF Writer!from_days
<1> HIDE DEF m, mp, doy, yoe, era
<1> QED
  BY <1>2, <1>3, <1>4, <1>6, SMT

LEMMA WriterRules ==
  /\ \A a, b : Writer!Quotient(a, b) = Quotient(a, b)
  /\ \A a, b, c : Writer!ymd(a, b, c) = ymd(a, b, c)
  /\ \A n : Writer!weekday_from_days(n) = weekday_from_days(n)
  /\ \A v, w : Writer!weekday_minus(v, w) = weekday_minus(v, w)
  /\ \A y : Writer!is_leap(y) = is_leap(y)
  /\ \A y, m : Writer!last_day(y, m) = last_day(y, m)
  /\ \A y, n : Writer!year_plus(y, n) = year_plus(y, n)
  /\ \A w, n : Writer!weekday_indexed(w, n) = weekday_indexed(w, n)
  /\ \A t : Writer!ymd_ok(t) = ymd_ok(t)
<1>1. \A a, b : Writer!Quotient(a, b) = Quotient(a, b)
  BY SMT DEF Quotient, Writer!Quotient
<1>2. \A a, b, c : Writer!ymd(a, b, c) = ymd(a, b, c)
  BY SMT DEF ymd, Writer!ymd
<1>3. \A n : Writer!weekday_from_days(n) = weekday_from_days(n)
  BY SMT DEF weekday_from_days, Writer!weekday_from_days, UnsignedMod7, Writer!UnsignedMod7
<1>4. \A n : Writer!Weeks(n) = Weeks(n)
  BY <1>1, SMT DEF Weeks, Writer!Weeks
<1>5. \A v, w : Writer!weekday_minus(v, w) = weekday_minus(v, w)
  BY <1>4, SMT DEF weekday_minus, Writer!weekday_minus
<1>6. \A y : Writer!is_leap(y) = is_leap(y)
  BY SMT DEF is_leap, Writer!is_leap
<1>7. \A y, m : Writer!last_day(y, m) = last_day(y, m)
  BY <1>6, SMT DEF last_day, Writer!last_day, month_ok, Writer!month_ok, Lengths, Writer!Lengths
<1>8. \A y, n : Writer!year_plus(y, n) = year_plus(y, n)
  BY SMT DEF year_plus, Writer!year_plus, year, Writer!year, Short, Writer!Short
<1>9. \A w, n : Writer!weekday_indexed(w, n) = weekday_indexed(w, n)
  BY SMT DEF weekday_indexed, Writer!weekday_indexed, Nibble, Writer!Nibble
<1>10. \A t : Writer!ymd_ok(t) = ymd_ok(t)
  BY <1>7, SMT DEF ymd_ok, Writer!ymd_ok, year_ok, Writer!year_ok, month_ok, Writer!month_ok
<1> QED
  BY <1>1, <1>2, <1>3, <1>5, <1>6, <1>7, <1>8, <1>9, <1>10, SMT

LEMMA WriterWeeks ==
  /\ \A y : Writer!IsoStart(y) = IsoStart(y)
  /\ \A y, w : Writer!FirstWeek(y, w) = FirstWeek(y, w)
<1>1. ASSUME NEW y PROVE Writer!IsoStart(y) = IsoStart(y)
  <2> DEFINE last == year_plus(y, -1)
             end == to_days(ymd(last, 12, last_day(last, 12)))
  <2>1. Writer!IsoStart(y) = end - weekday_minus(weekday_from_days(end), 4) + weekday_minus(1, 4)
    BY WriterRules, WriterToDays, SMT DEF Writer!IsoStart, Writer!ymwdl_to_days
  <2>2. IsoStart(y) = end - weekday_minus(weekday_from_days(end), 4) + weekday_minus(1, 4)
    BY SMT DEF IsoStart, ymwdl_to_days
  <2> QED
    BY <2>1, <2>2, SMT
<1>2. ASSUME NEW y, NEW w PROVE Writer!FirstWeek(y, w) = FirstWeek(y, w)
  <2> DEFINE i == weekday_indexed(w, 1)
             first == to_days(ymd(y, 1, 1))
  <2>1. Writer!FirstWeek(y, w) = first + weekday_minus(i.wd, weekday_from_days(first)) + (i.index - 1) * 7
    BY WriterRules, WriterToDays, SMT DEF Writer!FirstWeek, Writer!ymwd_to_days
  <2>2. FirstWeek(y, w) = first + weekday_minus(i.wd, weekday_from_days(first)) + (i.index - 1) * 7
    BY SMT DEF FirstWeek, ymwd_to_days
  <2> QED
    BY <2>1, <2>2, SMT
<1> QED
  BY <1>1, <1>2, SMT

LEMMA WriterSays ==
  ASSUME NEW t, NEW n, IsDateOf(t, n)
  PROVE  /\ Writer!IsoYear(t) = LET y == from_days(n + 3).y
                                IN IF n < IsoStart(y) THEN year_plus(y, -1) ELSE y
         /\ Writer!IsoWeek(t) = (n - IsoStart(Writer!IsoYear(t))) \div 7 + 1
         /\ \A w : Writer!WeekOfYear(t, w) = IF n < FirstWeek(t.y, w) THEN 0
                                             ELSE (n - FirstWeek(t.y, w)) \div 7 + 1
         /\ Writer!DayOfYear(t) = n - NewYear(t.y) + 1
<1>1. n \in Int /\ Writer!to_days(t) = n
  BY WriterToDays, SMT DEF IsDateOf
<1>2. Writer!from_days(n + 3) = from_days(n + 3)
  <2>1. n + 3 \in Int
    BY <1>1, SMT
  <2> QED
    BY <2>1, WriterFromDays, SMT
<1>3. Writer!IsoYear(t) = LET y == from_days(n + 3).y
                          IN IF n < IsoStart(y) THEN year_plus(y, -1) ELSE y
  BY <1>1, <1>2, WriterRules, WriterWeeks, SMT DEF Writer!IsoYear
<1>4. Writer!IsoWeek(t) = (n - IsoStart(Writer!IsoYear(t))) \div 7 + 1
  BY <1>1, WriterWeeks, SMT DEF Writer!IsoWeek
<1>5. ASSUME NEW w
      PROVE  Writer!WeekOfYear(t, w) = IF n < FirstWeek(t.y, w) THEN 0
                                       ELSE (n - FirstWeek(t.y, w)) \div 7 + 1
  BY <1>1, WriterWeeks, SMT DEF Writer!WeekOfYear
<1>6. Writer!DayOfYear(t) = n - NewYear(t.y) + 1
  BY <1>1, WriterRules, WriterToDays, SMT DEF Writer!DayOfYear, NewYear
<1> QED
  BY <1>3, <1>4, <1>5, <1>6, SMT

Near(y) == y \in Int /\ -32000 < y /\ y < 32000

\* The ISO year of a date is the one whose weeks it lies in.
LEMMA IsoYearOf ==
  ASSUME NEW t, NEW n, IsDateOf(t, n), Near(t.y), NewYear(t.y) <= n, n < NewYear(t.y + 1)
  PROVE  LET y == Writer!IsoYear(t)
         IN  /\ y \in Int /\ t.y - 1 <= y /\ y <= t.y + 1
             /\ IsoStart(y) <= n /\ n < IsoStart(y + 1)
<1> DEFINE trial == from_days(n + 3).y
<1>1. n \in Int /\ to_days(t) = n /\ t.y \in Int
  BY DEF IsDateOf
<1>2. /\ AYear(t.y - 1) /\ AYear(t.y) /\ AYear(t.y + 1) /\ AYear(t.y + 2)
      /\ t.y - 1 \in Int /\ t.y + 1 \in Int
  BY SMT DEF Near, AYear
<1>3. \A x \in Int : NewYear(x) \in Int /\ NewYear(x) + 365 <= NewYear(x + 1)
  <2>1. \A x \in Int : NewYear(x) \in Int /\ NewYear(x + 1) = NewYear(x) + YearDays(x)
                        /\ YearDays(x) \in {365, 366}
    BY Years, SMT
  <2> QED
    BY <2>1, SMT
<1>4. NewYear(t.y + 1) + 365 <= NewYear(t.y + 2) /\ NewYear(t.y) \in Int
      /\ NewYear(t.y + 1) \in Int /\ NewYear(t.y + 2) \in Int
  <2>1. (t.y + 1) + 1 = t.y + 2 /\ t.y + 2 \in Int
    BY <1>1, SMT
  <2> QED
    BY <1>1, <1>2, <1>3, <2>1, SMT
<1>5. /\ trial \in Int /\ t.y <= trial /\ trial <= t.y + 1
      /\ NewYear(trial) <= n + 3 /\ n + 3 < NewYear(trial + 1)
  <2>1. n + 3 \in Int /\ NewYear(t.y) <= n + 3 /\ n + 3 < NewYear(t.y + 2)
    BY <1>1, <1>4, SMT
  <2>2. /\ IsDateOf(from_days(n + 3), n + 3) /\ t.y <= trial /\ trial < t.y + 2
        /\ NewYear(trial) <= n + 3 /\ n + 3 < NewYear(trial + 1)
    BY <1>2, <2>1, DayIn, SMT
  <2>3. trial \in Int
    BY <2>2 DEF IsDateOf
  <2> QED
    BY <1>1, <2>2, <2>3, SMT
<1>6. Writer!IsoYear(t) = IF n < IsoStart(trial) THEN year_plus(trial, -1) ELSE trial
  BY WriterSays, SMT
<1> HIDE DEF trial
<1>7. year_plus(trial, -1) = trial - 1 /\ AYear(trial - 1) /\ AYear(trial) /\ AYear(trial + 1)
  BY <1>5, SMT DEF Near, year_plus, year, Short, AYear
<1>8. /\ IsoStart(trial - 1) \in Int /\ IsoStart(trial) \in Int /\ IsoStart(trial + 1) \in Int
      /\ IsoStart(trial - 1) + 364 <= IsoStart(trial)
      /\ NewYear(trial) - 3 <= IsoStart(trial) /\ IsoStart(trial) <= NewYear(trial) + 3
      /\ NewYear(trial + 1) - 3 <= IsoStart(trial + 1)
      /\ IsoStart(trial - 1) <= NewYear(trial - 1) + 3
  <2>1. trial - 1 < trial
    BY <1>5, SMT
  <2> QED
    BY <1>7, <2>1, IsoStarts, SMT
<1>9. NewYear(trial - 1) + 365 <= NewYear(trial)
  <2>1. trial - 1 \in Int /\ (trial - 1) + 1 = trial
    BY <1>5, SMT
  <2> QED
    BY <1>3, <2>1, SMT
<1>10. NewYear(trial - 1) \in Int /\ NewYear(trial) \in Int /\ NewYear(trial + 1) \in Int
  BY <1>3, <1>5, SMT
<1>11. CASE n < IsoStart(trial)
  <2>1. Writer!IsoYear(t) = trial - 1 /\ (trial - 1) + 1 = trial
    BY <1>5, <1>6, <1>7, <1>11, SMT
  <2>2. IsoStart(trial - 1) <= n
    BY <1>1, <1>5, <1>8, <1>9, <1>10, SMT
  <2> QED
    BY <1>1, <1>5, <1>11, <2>1, <2>2, SMT
<1>12. CASE ~(n < IsoStart(trial))
  <2>1. Writer!IsoYear(t) = trial
    BY <1>6, <1>12, SMT
  <2>2. n < IsoStart(trial + 1) /\ IsoStart(trial) <= n
    BY <1>1, <1>5, <1>8, <1>10, <1>12, SMT
  <2> QED
    BY <1>1, <1>5, <2>1, <2>2, SMT
<1> QED
  BY <1>11, <1>12

\* There is no other such year.
LEMMA IsoYearIs ==
  ASSUME NEW t, NEW n, IsDateOf(t, n), Near(t.y), NewYear(t.y) <= n, n < NewYear(t.y + 1),
         NEW G, Near(G), IsoStart(G) <= n, n < IsoStart(G + 1)
  PROVE  Writer!IsoYear(t) = G
<1> DEFINE y == Writer!IsoYear(t)
<1>1. n \in Int
  BY DEF IsDateOf
<1>2. y \in Int /\ t.y - 1 <= y /\ y <= t.y + 1 /\ IsoStart(y) <= n /\ n < IsoStart(y + 1)
  BY IsoYearOf, SMT
<1> HIDE DEF y
<1>3. AYear(y) /\ AYear(y + 1) /\ AYear(G) /\ AYear(G + 1) /\ G \in Int
  BY <1>2, SMT DEF Near, AYear
<1>4. \A a, b : AYear(a) /\ AYear(b) /\ a <= b => IsoStart(a) <= IsoStart(b) /\ IsoStart(a) \in Int
  <2>1. ASSUME NEW a, NEW b, AYear(a), AYear(b), a <= b PROVE IsoStart(a) <= IsoStart(b) /\ IsoStart(a) \in Int
    <3>1. IsoStart(a) \in Int /\ IsoStart(b) \in Int /\ (a < b => IsoStart(a) + 364 <= IsoStart(b))
      BY <2>1, IsoStarts, SMT
    <3>2. a < b \/ a = b
      BY <2>1, SMT DEF AYear
    <3> QED
      BY <3>1, <3>2, SMT
  <2> QED
    BY <2>1
<1>5. ~(y < G)
  <2>1. y < G => y + 1 <= G
    BY <1>2, <1>3, SMT
  <2>2. y < G => IsoStart(y + 1) <= IsoStart(G)
    BY <1>3, <1>4, <2>1
  <2>3. IsoStart(y + 1) \in Int /\ IsoStart(G) \in Int
    BY <1>3, IsoStarts
  <2> QED
    BY <1>1, <1>2, <2>2, <2>3, SMT
<1>6. ~(G < y)
  <2>1. G < y => G + 1 <= y
    BY <1>2, <1>3, SMT
  <2>2. G < y => IsoStart(G + 1) <= IsoStart(y)
    BY <1>3, <1>4, <2>1
  <2>3. IsoStart(G + 1) \in Int /\ IsoStart(y) \in Int
    BY <1>3, IsoStarts
  <2> QED
    BY <1>1, <1>2, <2>2, <2>3, SMT
<1> QED
  BY <1>2, <1>3, <1>5, <1>6, SMT DEF y

-----------------------------------------------------------------------------
(* The years that are found                                                 *)

LEMMA Centuries ==
  ASSUME NEW c, Within(c, -100, 99), NEW y, Within(y, 0, 99)
  PROVE  LET Y == JoinYear(c, y)
         IN  Within(Y, -10000, 9999) /\ Size(Y) % 100 = y /\ Y \div 100 = c
<1> USE DEF Within
<1>1. CASE c >= 0
  BY <1>1, SMT DEF JoinYear, Size
<1>2. CASE c < 0 /\ y = 0
  BY <1>2, SMT DEF JoinYear, Size
<1>3. CASE c < 0 /\ y # 0
  BY <1>3, SMT DEF JoinYear, Size
<1> QED
  BY <1>1, <1>2, <1>3, SMT

LEMMA CenturyIs ==
  ASSUME NEW f, NEW two, NEW full \in {"Y", "G"}, (Within(f.C, -100, 99) \/ f.C = -327),
         (Within(f[full], -9999, 9999) \/ f[full] = -32768)
  PROVE  LET c == Century(f, two, full) IN Within(c, -100, 99) /\ (Has(f, "C") => c = f.C)
<1>1. not_a.C = -327 /\ not_a[full] = -32768
  BY DEF not_a
<1>2. CASE Has(f, "C")
  BY <1>1, <1>2 DEF Has, Century
<1>3. CASE ~Has(f, "C") /\ Has(f, full)
  <2>1. Century(f, two, full) = Quotient(IF f[full] >= 0 THEN f[full] ELSE f[full] - 100, 100)
    BY <1>3 DEF Century
  <2>2. Within(f[full], -9999, 9999)
    BY <1>1, <1>3 DEF Has
  <2>3. ASSUME NEW y, Within(y, -9999, 9999)
        PROVE  Within(Quotient(IF y >= 0 THEN y ELSE y - 100, 100), -100, 99)
    BY <2>3, SMT DEF Quotient, Within
  <2> QED
    BY <1>3, <2>1, <2>2, <2>3
<1>4. CASE ~Has(f, "C") /\ ~Has(f, full)
  BY <1>4 DEF Century, Within
<1> QED
  BY <1>2, <1>3, <1>4

LEMMA FitYearSets ==
  ASSUME NEW f, Full(f), NEW two \in {"y", "g"}, NEW full \in {"Y", "G"}
  PROVE  LET g == FitYear(f, two, full)
             c == Century(f, two, full)
         IN  /\ g.computed = f.computed
             /\ ~Has(f, two) => g = f
             /\ Has(f, two) => g.C = c /\ g[full] = JoinYear(c, f[two])
             /\ Has(f, two) /\ g.ok
                  => Within(f[two], 0, 99) /\ (Has(f, full) => f[full] = JoinYear(c, f[two]))
<1>1. CASE ~Has(f, two)
  BY <1>1 DEF FitYear
<1>2. CASE Has(f, two)
  <2> DEFINE c == Century(f, two, full)
             y == JoinYear(c, f[two])
             ok == f[two] \in 0..99 /\ (Has(f, full) => f[full] = y)
             g == [f EXCEPT !.C = c]
             h == [g EXCEPT ![full] = y]
             k == Need(h, ok)
  <2>1. f[full] \in Int /\ f[two] \in Int /\ f.C \in Int
    BY Numbers
  <2>2. c \in Int
    BY <2>1, QuotientType DEF Century
  <2> HIDE DEF c
  <2>3. y \in Int
    BY <2>1, <2>2 DEF JoinYear
  <2>4. ok \in BOOLEAN
    OBVIOUS
  <2> HIDE DEF ok, y
  <2>5. Changes(f, g, {"C"}) /\ g.C = c /\ g.computed = f.computed
    <3>1. Counts("C", c) /\ "C" \in FieldNames
      BY <2>2, IntegerCounts DEF FieldNames
    <3> QED
      BY <3>1, SetChanges
  <2>6. Full(g)
    BY <2>5 DEF Changes
  <2> HIDE DEF g
  <2>7. Changes(g, h, {full}) /\ h[full] = y /\ h.computed = g.computed
    <3>1. Counts(full, y) /\ full \in FieldNames
      BY <2>3, IntegerCounts DEF FieldNames
    <3> QED
      BY <2>6, <3>1, SetChanges
  <2>8. Full(h) /\ h.C = c
    BY <2>5, <2>7 DEF Changes, FieldNames
  <2> HIDE DEF h
  <2>9. Changes(h, k, {}) /\ (k.ok = (h.ok /\ ok)) /\ k.computed = h.computed
    BY <2>4, <2>8, NeedChanges
  <2> HIDE DEF k
  <2>10. k.C = c /\ k[full] = y /\ k.computed = f.computed
    BY <2>5, <2>7, <2>8, <2>9 DEF Changes, FieldNames
  <2>11. FitYear(f, two, full) = k
    BY <1>2 DEF FitYear, k, h, g, ok, y, c
  <2>12. k.ok => Within(f[two], 0, 99) /\ (Has(f, full) => f[full] = y)
    <3>1. k.ok => ok
      BY <2>9
    <3>2. ok => Within(f[two], 0, 99) /\ (Has(f, full) => f[full] = y)
      BY <2>1 DEF ok, Within
    <3> QED
      BY <3>1, <3>2
  <2> QED
    BY <1>2, <2>10, <2>11, <2>12 DEF y, c
<1> QED
  BY <1>1, <1>2

LEMMA FitYearIs ==
  ASSUME NEW f, Full(f), NEW two \in {"y", "g"}, NEW full \in {"Y", "G"},
         Within(f.C, -100, 99) \/ f.C = -327, Within(f[full], -9999, 9999) \/ f[full] = -32768
  PROVE  LET g == FitYear(f, two, full)
         IN  /\ ~Has(f, two) => g = f
             /\ Has(f, two) /\ g.ok
                  => /\ Within(f[two], 0, 99) /\ Within(g.C, -100, 99) /\ (Has(f, "C") => g.C = f.C)
                     /\ g[full] = JoinYear(g.C, f[two]) /\ (Has(f, full) => f[full] = g[full])
<1> DEFINE c == Century(f, two, full)
<1>1. Within(c, -100, 99) /\ (Has(f, "C") => c = f.C)
  BY CenturyIs
<1> HIDE DEF c
<1> QED
  BY <1>1, FitYearSets DEF c

\* The numbers of a format that gives no width have the digits of its commands.
Narrow ==
    /\ (Within(found.Y, -9999, 9999) \/ found.Y = not_a.Y) /\ (Within(found.G, -9999, 9999) \/ found.G = not_a.G)
    /\ (Within(found.C, -99, 99) \/ found.C = not_a.C)
    /\ Within(found.m, -99, 99) /\ Within(found.d, -99, 99)
    /\ Within(found.U, 0, 100) /\ Within(found.V, 0, 100) /\ Within(found.W, 0, 100)

Years1 == FitYear(Collected, "y", "Y")
Years2 == FitYear(Years1, "g", "G")
YearsFound == LimitYear(Years2)

\* What has been found of a year is true of the year that is made of it.
TrueYear(f, two, full) ==
    /\ (Within(f[full], -10000, 9999) \/ f[full] = -32768)
    /\ Has(found, full) => f[full] = found[full]
    /\ Has(found, two) => /\ Within(found[two], 0, 99) /\ Has(f, full)
                          /\ \E c \in Int : /\ Within(c, -100, 99) /\ f[full] = JoinYear(c, found[two])
                                            /\ Has(found, "C") => c = found.C
    /\ Has(f, full) => Has(found, full) \/ Has(found, two)

LEMMA TwoDigits ==
  ASSUME NEW f, Full(f), NEW two \in {"y", "g"}, NEW full \in {"Y", "G"},
         (Within(f.C, -100, 99) \/ f.C = -327), (Within(f[full], -9999, 9999) \/ f[full] = -32768),
         f[two] = found[two], f[full] = found[full], Has(found, "C") => f.C = found.C,
         FitYear(f, two, full).ok
  PROVE  LET g == FitYear(f, two, full)
         IN  /\ TrueYear(g, two, full) /\ (Within(g.C, -100, 99) \/ g.C = -327)
             /\ Has(found, "C") => g.C = found.C
<1> DEFINE g == FitYear(f, two, full)
<1>0. not_a.C = -327 /\ not_a[full] = -32768
  BY DEF not_a
<1>1. /\ ~Has(f, two) => g = f
      /\ Has(f, two) => /\ Within(f[two], 0, 99) /\ Within(g.C, -100, 99) /\ (Has(f, "C") => g.C = f.C)
                        /\ g[full] = JoinYear(g.C, f[two]) /\ (Has(f, full) => f[full] = g[full])
  BY FitYearIs
<1> HIDE DEF g
<1>2. Has(f, two) = Has(found, two) /\ Has(f, full) = Has(found, full)
  BY DEF Has
<1>3. Has(found, "C") => Has(f, "C")
  BY DEF Has
<1>4. CASE ~Has(found, two)
  <2>1. Within(f[full], -10000, 9999) \/ f[full] = -32768
    BY DEF Within
  <2> QED
    BY <1>1, <1>2, <1>4, <2>1 DEF TrueYear, g
<1>5. CASE Has(found, two)
  <2>1. /\ Within(f[two], 0, 99) /\ Within(g.C, -100, 99) /\ (Has(f, "C") => g.C = f.C)
        /\ g[full] = JoinYear(g.C, f[two]) /\ (Has(f, full) => f[full] = g[full])
    BY <1>1, <1>2, <1>5
  <2>2. Within(JoinYear(g.C, f[two]), -10000, 9999)
    BY <2>1, Centuries
  <2>3. (Within(g[full], -10000, 9999) \/ g[full] = -32768) /\ Has(g, full)
    BY <1>0, <2>1, <2>2 DEF Has, Within
  <2>4. Has(found, "C") => g.C = found.C
    BY <1>3, <2>1
  <2>5. \E c \in Int : Within(c, -100, 99) /\ g[full] = JoinYear(c, found[two]) /\ (Has(found, "C") => c = found.C)
    BY <2>1, <2>4 DEF Within
  <2>6. Has(found, full) => g[full] = found[full]
    BY <1>2, <2>1
  <2>7. TrueYear(g, two, full)
    BY <1>5, <2>1, <2>3, <2>5, <2>6 DEF TrueYear
  <2> QED
    BY <2>1, <2>4, <2>7 DEF g
<1> QED
  BY <1>4, <1>5

LEMMA YearsAre ==
  ASSUME Typed(found), Narrow, YearsFound.ok
  PROVE  /\ Full(YearsFound) /\ ~YearsFound.computed
         /\ \A x \in FieldNames \ {"C", "Y", "G"} : YearsFound[x] = found[x]
         /\ TrueYear(YearsFound, "y", "Y") /\ TrueYear(YearsFound, "g", "G")
<1>0. /\ Full(Collected) /\ ~Collected.computed
      /\ \A x \in FieldNames : Collected[x] = found[x]
  BY AllFound
<1>1. not_a.Y = -32768 /\ not_a.G = -32768 /\ not_a.C = -327
  BY DEF not_a
<1>2. Changes(Collected, Years1, {"C", "Y"}) /\ Full(Years1)
  BY <1>0, FitYearChanges DEF Years1, Changes
<1>3. Changes(Years1, Years2, {"C", "G"}) /\ Full(Years2)
  BY <1>2, FitYearChanges DEF Years2, Changes
<1>4. Changes(Years2, YearsFound, {"Y"}) /\ Full(YearsFound)
  BY <1>3, LimitYearChanges DEF YearsFound, Changes
<1>5. Years1.ok /\ Years2.ok
  BY <1>3, <1>4 DEF Changes
<1>6. /\ Collected.C = found.C /\ Collected.Y = found.Y /\ Collected.y = found.y
      /\ (Within(found.C, -100, 99) \/ found.C = -327) /\ (Within(found.Y, -9999, 9999) \/ found.Y = -32768)
      /\ (Within(found.G, -9999, 9999) \/ found.G = -32768)
  BY <1>0, <1>1 DEF Narrow, FieldNames, Within
<1>7. TrueYear(Years1, "y", "Y") /\ (Within(Years1.C, -100, 99) \/ Years1.C = -327) /\ (Has(found, "C") => Years1.C = found.C)
  BY <1>0, <1>5, <1>6, TwoDigits DEF Years1
<1>8. Years1.G = found.G /\ Years1.g = found.g
  BY <1>0, <1>2 DEF Changes, FieldNames
<1>9. TrueYear(Years2, "g", "G")
  BY <1>2, <1>5, <1>6, <1>7, <1>8, TwoDigits DEF Years2
<1>10. Years2.Y = Years1.Y
  BY <1>3 DEF Changes, FieldNames
<1>11. YearsFound.G = Years2.G
  BY <1>4 DEF Changes, FieldNames
<1>12. YearsFound.Y = Years2.Y
  <2>1. CASE Years2.Y \in MinYear..MaxYear
    BY <2>1 DEF YearsFound, LimitYear
  <2>2. CASE Years2.Y \notin MinYear..MaxYear
    <3>1. Years2.Y = not_a.Y
      <4>1. (Within(Years2.Y, -10000, 9999) \/ Years2.Y = -32768)
        BY <1>7, <1>10 DEF TrueYear
      <4>2. \A a, b, n \in Int : a <= n /\ n <= b => n \in a..b
        OBVIOUS
      <4>3. Within(Years2.Y, -10000, 9999) => Years2.Y \in MinYear..MaxYear
        <5>1. MinYear \in Int /\ MaxYear \in Int /\ MinYear <= -10000 /\ 9999 <= MaxYear
          BY DEF MinYear, MaxYear
        <5> QED
          BY <4>2, <5>1 DEF Within
      <4> QED
        BY <1>1, <2>2, <4>1, <4>3
    <3>2. YearsFound = [Years2 EXCEPT !.Y = not_a.Y]
      BY <2>2 DEF YearsFound, LimitYear
    <3>3. Counts("Y", not_a.Y) /\ "Y" \in FieldNames
      BY <1>1, IntegerCounts DEF FieldNames
    <3> QED
      BY <1>3, <3>1, <3>2, <3>3, SetChanges
  <2> QED
    BY <2>1, <2>2
<1>13. TrueYear(YearsFound, "y", "Y") /\ TrueYear(YearsFound, "g", "G")
  BY <1>7, <1>9, <1>10, <1>11, <1>12 DEF TrueYear, Has
<1>14. ASSUME NEW x \in FieldNames \ {"C", "Y", "G"} PROVE YearsFound[x] = found[x]
  BY <1>0, <1>2, <1>3, <1>4 DEF Changes
<1>15. ~YearsFound.computed
  <2>1. Years1.computed = Collected.computed
    BY <1>0, FitYearSets DEF Years1
  <2>2. Years2.computed = Years1.computed
    BY <1>2, FitYearSets DEF Years2
  <2>3. YearsFound.computed = Years2.computed
    <3>1. Counts("Y", not_a.Y) /\ "Y" \in FieldNames
      BY <1>1, IntegerCounts DEF FieldNames
    <3>2. [Years2 EXCEPT !.Y = not_a.Y].computed = Years2.computed
      BY <1>3, <3>1, SetChanges
    <3> QED
      BY <3>2 DEF YearsFound, LimitYear
  <2> QED
    BY <1>0, <2>1, <2>2, <2>3
<1> QED
  BY <1>4, <1>13, <1>14, <1>15

-----------------------------------------------------------------------------
(* The parts of a date                                                     *)

\* From f to g what is known stays, but for the day of the year.
Kept(f, g) ==
    /\ Full(g)
    /\ g.ok => f.ok /\ \A x \in FieldNames \ {"j"} : Has(f, x) => g[x] = f[x]

LEMMA KeptOn == ASSUME NEW f, NEW g, NEW h, Kept(f, g), Kept(g, h) PROVE Kept(f, h)
<1> SUFFICES ASSUME h.ok PROVE f.ok /\ \A x \in FieldNames \ {"j"} : Has(f, x) => h[x] = f[x]
  BY DEF Kept
<1>1. g.ok /\ \A x \in FieldNames \ {"j"} : Has(g, x) => h[x] = g[x]
  BY DEF Kept
<1>2. f.ok /\ \A x \in FieldNames \ {"j"} : Has(f, x) => g[x] = f[x]
  BY <1>1 DEF Kept
<1>3. ASSUME NEW x \in FieldNames \ {"j"}, Has(f, x) PROVE h[x] = f[x]
  BY <1>1, <1>2, <1>3 DEF Has
<1> QED
  BY <1>2, <1>3

LEMMA KeptSame == ASSUME NEW f, Full(f) PROVE Kept(f, f)
BY DEF Kept

LEMMA FitPartSets ==
  ASSUME NEW f, Full(f), NEW part \in FieldNames, NEW have, NEW x, Counts(part, x)
  PROVE  LET g == FitPart(f, part, have, x)
         IN  /\ Changes(f, g, {part}) /\ Kept(f, g) /\ g.computed = f.computed
             /\ Has(f, part) => g[part] = f[part] /\ (g.ok => have = x)
             /\ ~Has(f, part) => g[part] = x
<1>1. CASE Has(f, part)
  <2> DEFINE g == Need(f, have = x)
  <2>1. Changes(f, g, {}) /\ g.ok = (f.ok /\ have = x) /\ g.computed = f.computed
    BY NeedChanges
  <2>2. FitPart(f, part, have, x) = g
    BY <1>1 DEF FitPart
  <2> HIDE DEF g
  <2> QED
    BY <1>1, <2>1, <2>2 DEF Changes, Kept
<1>2. CASE ~Has(f, part)
  <2> DEFINE g == [f EXCEPT ![part] = x]
  <2>1. /\ Changes(f, g, {part}) /\ g.ok = f.ok /\ g.computed = f.computed
        /\ \A y \in FieldNames : g[y] = IF y = part THEN x ELSE f[y]
    BY SetChanges
  <2>2. FitPart(f, part, have, x) = g
    BY <1>2 DEF FitPart
  <2> HIDE DEF g
  <2>3. \A y \in FieldNames : Has(f, y) => g[y] = f[y]
    BY <1>2, <2>1
  <2>4. Kept(f, g)
    BY <2>1, <2>3 DEF Changes, Kept
  <2> QED
    BY <1>2, <2>1, <2>2, <2>4
<1> QED
  BY <1>1, <1>2

LEMMA FitMonthDayIs ==
  ASSUME NEW f, Full(f), NEW t, t.m \in Int, t.d \in Int
  PROVE  LET g == FitMonthDay(f, t)
         IN  /\ Changes(f, g, {"m", "d"}) /\ Kept(f, g) /\ g.computed = f.computed
             /\ g.ok /\ t.m \in 1..12 /\ t.d \in 1..31
                  => /\ Has(g, "m") /\ Has(g, "d") /\ month(g.m) = t.m /\ day(g.d) = t.d
<1> DEFINE g == FitPart(f, "m", month(f.m), t.m)
           h == FitPart(g, "d", day(f.d), t.d)
<1>1. /\ Changes(f, g, {"m"}) /\ Kept(f, g) /\ g.computed = f.computed
      /\ Has(f, "m") => g.m = f.m /\ (g.ok => month(f.m) = t.m)
      /\ ~Has(f, "m") => g.m = t.m
  BY FitPartSets, IntegerCounts DEF FieldNames
<1>2. Full(g)
  BY <1>1 DEF Changes
<1> HIDE DEF g
<1>3. /\ Changes(g, h, {"d"}) /\ Kept(g, h) /\ h.computed = g.computed
      /\ Has(g, "d") => h.d = g.d /\ (h.ok => day(f.d) = t.d)
      /\ ~Has(g, "d") => h.d = t.d
  BY <1>2, FitPartSets, IntegerCounts DEF FieldNames
<1>4. FitMonthDay(f, t) = h
  BY DEF FitMonthDay, h, g
<1> HIDE DEF h
<1>5. Changes(f, h, {"m", "d"})
  BY <1>4, FitMonthDayChanges
<1>6. Kept(f, h)
  BY <1>1, <1>3, KeptOn
<1>7. g.d = f.d /\ h.m = g.m
  BY <1>1, <1>3 DEF Changes, FieldNames
<1>8. ASSUME h.ok, t.m \in 1..12, t.d \in 1..31
      PROVE  Has(h, "m") /\ Has(h, "d") /\ month(h.m) = t.m /\ day(h.d) = t.d
  <2>1. not_a.m = 0 /\ not_a.d = 0
    BY DEF not_a
  <2>2. month(t.m) = t.m /\ day(t.d) = t.d
    BY <1>8, SMT DEF month, day, UChar
  <2>3. g.ok
    BY <1>3, <1>8 DEF Changes
  <2>4. t.m # 0 /\ t.d # 0
    BY <1>8
  <2>5. Has(h, "m") /\ month(h.m) = t.m
    BY <1>1, <1>7, <2>1, <2>2, <2>3, <2>4 DEF Has
  <2>6. Has(h, "d") /\ day(h.d) = t.d
    BY <1>3, <1>7, <1>8, <2>1, <2>2, <2>4 DEF Has
  <2> QED
    BY <2>5, <2>6
<1> QED
  BY <1>1, <1>3, <1>4, <1>5, <1>6, <1>8

LEMMA YearOf == ASSUME NEW y, Within(y, -32767, 32767) PROVE year(y) = y /\ y # -32768
BY SMT DEF Within, year, Short

\* The fields have a date.
Gives(f, t) == Has(f, "Y") /\ Has(f, "m") /\ Has(f, "d") /\ DateOf(f) = t

LEMMA GivesOn ==
  ASSUME NEW f, NEW g, Kept(f, g), g.ok, NEW t, Gives(f, t)
  PROVE  Gives(g, t)
<1>1. g.Y = f.Y /\ g.m = f.m /\ g.d = f.d
  BY DEF Kept, Gives, FieldNames
<1> QED
  BY <1>1 DEF Gives, Has, DateOf

LEMMA FitDateIs ==
  ASSUME NEW f, Full(f), NEW t, t = ymd(t.y, t.m, t.d), Within(t.y, -32767, 32767),
         t.m \in 1..12, t.d \in 1..31
  PROVE  LET g == FitDate(f, t)
         IN  /\ Changes(f, g, {"Y", "m", "d"}) /\ Kept(f, g) /\ g.computed
             /\ g.ok => Gives(g, t)
             /\ Has(f, "Y") => g.Y = f.Y /\ (g.ok => year(f.Y) = t.y)
             /\ ~Has(f, "Y") => g.Y = t.y
<1> DEFINE g == FitPart(f, "Y", year(f.Y), t.y)
           h == FitMonthDay(g, t)
           k == [h EXCEPT !.computed = TRUE]
<1>0. t.y \in Int /\ t.m \in Int /\ t.d \in Int /\ year(t.y) = t.y /\ t.y # -32768
  BY YearOf DEF Within
<1>1. /\ Changes(f, g, {"Y"}) /\ Kept(f, g)
      /\ Has(f, "Y") => g.Y = f.Y /\ (g.ok => year(f.Y) = t.y)
      /\ ~Has(f, "Y") => g.Y = t.y
  BY <1>0, FitPartSets, IntegerCounts DEF FieldNames
<1>2. Full(g)
  BY <1>1 DEF Changes
<1> HIDE DEF g
<1>3. /\ Changes(g, h, {"m", "d"}) /\ Kept(g, h)
      /\ h.ok => Has(h, "m") /\ Has(h, "d") /\ month(h.m) = t.m /\ day(h.d) = t.d
  BY <1>0, <1>2, FitMonthDayIs
<1>4. Full(h)
  BY <1>3 DEF Changes
<1> HIDE DEF h
<1>5. Changes(h, k, {}) /\ k.ok = h.ok /\ k.computed
  BY <1>4, ComputedChanges
<1>6. FitDate(f, t) = k
  BY DEF FitDate, k, h, g
<1> HIDE DEF k
<1>7. Changes(f, k, {"Y", "m", "d"})
  BY <1>0, <1>6, FitDateChanges
<1>8. k.Y = g.Y /\ k.m = h.m /\ k.d = h.d
  BY <1>3, <1>5 DEF Changes, FieldNames
<1>9. Kept(h, k)
  BY <1>5 DEF Changes, Kept
<1>10. Kept(f, k)
  BY <1>1, <1>3, <1>9, KeptOn
<1>11. ASSUME k.ok PROVE Gives(k, t)
  <2>1. h.ok /\ g.ok
    BY <1>3, <1>5, <1>11 DEF Changes
  <2>2. Has(k, "m") /\ Has(k, "d") /\ month(k.m) = t.m /\ day(k.d) = t.d
    BY <1>3, <1>8, <2>1 DEF Has
  <2>3. not_a.Y = -32768
    BY DEF not_a
  <2>4. Has(k, "Y") /\ year(k.Y) = t.y
    BY <1>0, <1>1, <1>8, <2>1, <2>3 DEF Has
  <2> QED
    BY <2>2, <2>4 DEF Gives, DateOf
<1>12. k.ok => g.ok
  BY <1>3, <1>5 DEF Changes
<1> QED
  BY <1>1, <1>5, <1>6, <1>7, <1>8, <1>10, <1>11, <1>12

\* A day of a year, or of the weeks that belong to it.
LEMMA WeekIn ==
  ASSUME NEW y, Within(y, -20000, 20000), NEW n \in Int, NewYear(y) - 10 <= n, n < NewYear(y) + 730
  PROVE  LET t == from_days(n)
         IN  /\ IsDateOf(t, n) /\ Within(t.y, y - 1, y + 1)
             /\ NewYear(t.y) <= n /\ n < NewYear(t.y + 1)
<1>1. y \in Int /\ y - 1 \in Int /\ y + 1 \in Int /\ (y - 1) + 1 = y /\ (y + 1) + 1 = y + 2
  BY DEF Within
<1>2. \A x \in Int : NewYear(x) \in Int /\ NewYear(x + 1) \in Int /\ NewYear(x) + 365 <= NewYear(x + 1)
  <2>1. \A x \in Int : /\ NewYear(x) \in Int /\ NewYear(x + 1) \in Int
                       /\ NewYear(x + 1) = NewYear(x) + YearDays(x) /\ YearDays(x) \in {365, 366}
    BY Years
  <2> QED
    BY <2>1
<1>3. NewYear(y - 1) \in Int /\ NewYear(y - 1) + 365 <= NewYear(y) /\ NewYear(y) \in Int
  BY <1>1, <1>2
<1>4. NewYear(y + 2) \in Int /\ NewYear(y) + 730 <= NewYear(y + 2)
  <2>1. NewYear(y) + 365 <= NewYear(y + 1) /\ NewYear(y + 1) \in Int
    BY <1>1, <1>2
  <2>2. NewYear(y + 1) + 365 <= NewYear(y + 2) /\ NewYear(y + 2) \in Int
    BY <1>1, <1>2
  <2> QED
    BY <1>3, <2>1, <2>2
<1>5. NewYear(y - 1) <= n /\ n < NewYear(y + 2)
  BY <1>3, <1>4
<1>6. AYear(y - 1) /\ AYear(y + 2)
  BY DEF AYear, Within
<1>7. LET t == from_days(n)
      IN  /\ IsDateOf(t, n) /\ y - 1 <= t.y /\ t.y < y + 2
          /\ NewYear(t.y) <= n /\ n < NewYear(t.y + 1)
  BY <1>5, <1>6, DayIn
<1>8. from_days(n).y \in Int
  BY <1>7 DEF IsDateOf
<1> QED
  BY <1>1, <1>7, <1>8 DEF Within

\* The date of a weekday of a week.
IsoDay(f) == IsoStart(f.G) + 7 * (f.V - 1) + weekday_minus(f.wd, 1)
WeekDay(f, week, w) == FirstWeek(f.Y, w) + 7 * (f[week] - 1) + weekday_minus(f.wd, w)

\* A day of the calendar, with its year.
ADay(n) ==
    LET t == from_days(n)
    IN IsDateOf(t, n) /\ Within(t.y, -20010, 20010) /\ NewYear(t.y) <= n /\ n < NewYear(t.y + 1)

LEMMA DayFits ==
  ASSUME NEW f, Full(f), NEW n, ADay(n)
  PROVE  LET g == FitDate(f, from_days(n))
         IN  /\ Changes(f, g, {"Y", "m", "d"}) /\ Kept(f, g) /\ g.computed
             /\ g.ok => Gives(g, from_days(n))
             /\ Has(f, "Y") => g.Y = f.Y /\ (g.ok => year(f.Y) = from_days(n).y)
             /\ ~Has(f, "Y") => g.Y = from_days(n).y
<1> DEFINE t == from_days(n)
<1>1. t = ymd(t.y, t.m, t.d) /\ t.m \in 1..12 /\ t.d \in 1..31 /\ Within(t.y, -20010, 20010)
  BY DEF ADay, IsDateOf
<1> HIDE DEF t
<1>2. Within(t.y, -32767, 32767)
  BY <1>1 DEF Within
<1> QED
  BY <1>1, <1>2, FitDateIs DEF t

LEMMA IsoDayIs ==
  ASSUME NEW G, Within(G, -10000, 9999), NEW V, Within(V, 0, 99), NEW w \in Int
  PROVE  LET r == weekday_minus(w, 1)
             n == IsoStart(G) + 7 * (V - 1) + r
         IN  /\ r \in 0..6 /\ IsoStart(G) \in Int /\ IsoStart(G + 1) \in Int
             /\ IsoStart(G) + 364 <= IsoStart(G + 1) /\ n \in Int
             /\ ADay(n) /\ Within(from_days(n).y, G - 1, G + 1)
<1> DEFINE r == weekday_minus(w, 1)
           n == IsoStart(G) + 7 * (V - 1) + r
<1>1. r \in 0..6
  BY BetweenTwo
<1> HIDE DEF r
<1>2. AYear(G) /\ AYear(G + 1) /\ G < G + 1 /\ G \in Int /\ V \in Int /\ 0 <= V /\ V <= 99
  BY DEF Within, AYear
<1>3. IsoStart(G) \in Int /\ NewYear(G) - 3 <= IsoStart(G) /\ IsoStart(G) <= NewYear(G) + 3
  BY <1>2, IsoStarts
<1>4. IsoStart(G + 1) \in Int /\ IsoStart(G) + 364 <= IsoStart(G + 1)
  BY <1>2, IsoStarts
<1>5. NewYear(G) \in Int
  BY <1>2, Years
<1>6. n \in Int /\ NewYear(G) - 10 <= n /\ n < NewYear(G) + 730
  BY <1>1, <1>2, <1>3, <1>5
<1> HIDE DEF n
<1>7. Within(G, -20000, 20000)
  BY DEF Within
<1>8. LET t == from_days(n)
      IN  IsDateOf(t, n) /\ Within(t.y, G - 1, G + 1) /\ NewYear(t.y) <= n /\ n < NewYear(t.y + 1)
  BY <1>6, <1>7, WeekIn
<1>9. Within(from_days(n).y, -20010, 20010)
  BY <1>8 DEF Within
<1> QED
  BY <1>1, <1>3, <1>4, <1>6, <1>8, <1>9 DEF ADay, n, r

\* The years of the stages.
Stage(f) == Full(f) /\ (Within(f.Y, -10001, 10001) \/ f.Y = -32768)

LEMMA IsoWeekFits ==
  ASSUME NEW f, Stage(f), Has(f, "G") => Within(f.G, -10000, 9999), Within(f.V, 0, 100)
  PROVE  LET g == FitIsoWeek(f)
         IN  /\ Stage(g) /\ Changes(f, g, {"Y", "m", "d"}) /\ Kept(f, g)
             /\ Has(f, "G") /\ Has(f, "V") /\ Has(f, "wd")
                  => /\ g.computed /\ ADay(IsoDay(f)) /\ (g.ok => Gives(g, from_days(IsoDay(f))))
             /\ ~(Has(f, "G") /\ Has(f, "V") /\ Has(f, "wd")) => g = f
<1>1. CASE Has(f, "G") /\ Has(f, "V") /\ Has(f, "wd")
  <2> DEFINE n == IsoDay(f)
             g == FitDate(f, from_days(n))
  <2>1. not_a.V = 100 /\ not_a.Y = -32768
    BY DEF not_a
  <2>2. Within(f.V, 0, 99) /\ f.wd \in Int /\ Within(f.G, -10000, 9999) /\ Full(f)
    BY <1>1, <2>1, Numbers DEF Has, Within, Stage
  <2>3. ADay(n) /\ Within(from_days(n).y, f.G - 1, f.G + 1)
    BY <2>2, IsoDayIs DEF IsoDay
  <2>4. FitIsoWeek(f) = g
    BY <1>1 DEF FitIsoWeek, IsoDay
  <2> HIDE DEF n
  <2>5. /\ Changes(f, g, {"Y", "m", "d"}) /\ Kept(f, g) /\ g.computed
        /\ g.ok => Gives(g, from_days(n))
        /\ Has(f, "Y") => g.Y = f.Y
        /\ ~Has(f, "Y") => g.Y = from_days(n).y
    BY <2>2, <2>3, DayFits
  <2> HIDE DEF g
  <2>6. Within(from_days(n).y, -10001, 10001)
    BY <2>2, <2>3 DEF Within
  <2>7. Stage(g)
    BY <2>5, <2>6 DEF Stage, Changes
  <2> QED
    BY <1>1, <2>3, <2>4, <2>5, <2>7 DEF n
<1>2. CASE ~(Has(f, "G") /\ Has(f, "V") /\ Has(f, "wd"))
  <2>1. FitIsoWeek(f) = f
    BY <1>2 DEF FitIsoWeek
  <2>2. Changes(f, f, {"Y", "m", "d"}) /\ Kept(f, f)
    BY ChangesNothing, KeptSame DEF Stage
  <2> QED
    BY <1>2, <2>1, <2>2
<1> QED
  BY <1>1, <1>2

LEMMA WeekFits ==
  ASSUME NEW f, Stage(f), NEW week \in {"U", "W"}, NEW w \in 0..1, Within(f[week], 0, 100)
  PROVE  LET g == FitWeek(f, week, w)
             n == WeekDay(f, week, w)
         IN  /\ Stage(g) /\ Changes(f, g, {"Y", "m", "d"}) /\ Kept(f, g) /\ g.Y = f.Y
             /\ Has(f, "Y") /\ Has(f, week) /\ Has(f, "wd")
                  => /\ g.computed /\ ADay(n) /\ weekday_minus(f.wd, w) \in 0..6
                     /\ g.ok => Gives(g, from_days(n)) /\ from_days(n).y = f.Y
             /\ ~(Has(f, "Y") /\ Has(f, week) /\ Has(f, "wd")) => g = f
<1>1. CASE Has(f, "Y") /\ Has(f, week) /\ Has(f, "wd")
  <2> DEFINE r == weekday_minus(f.wd, w)
             n == FirstWeek(f.Y, w) + 7 * (f[week] - 1) + r
             g == FitDate(f, from_days(n))
  <2>1. not_a[week] = 100 /\ not_a.Y = -32768
    BY DEF not_a
  <2>2. Within(f[week], 0, 99) /\ f.wd \in Int /\ Within(f.Y, -10001, 10001) /\ Full(f)
    BY <1>1, <2>1, Numbers DEF Has, Within, Stage
  <2>3. year(f.Y) = f.Y
    <3>1. Within(f.Y, -32767, 32767)
      BY <2>2 DEF Within
    <3> QED
      BY <3>1, YearOf
  <2>4. r \in 0..6
    <3>1. w \in Int
      OBVIOUS
    <3>2. \A v, u \in Int : weekday_minus(v, u) \in 0..6
      BY BetweenTwo
    <3> QED
      BY <2>2, <3>1, <3>2
  <2>5. FitWeek(f, week, w) = g
    BY <1>1, <2>3 DEF FitWeek
  <2> HIDE DEF r
  <2>6. f.Y \in Int /\ f[week] \in Int /\ 0 <= f[week] /\ f[week] <= 99
    BY <2>2 DEF Within
  <2>7. /\ FirstWeek(f.Y, w) \in Int /\ NewYear(f.Y) <= FirstWeek(f.Y, w)
        /\ FirstWeek(f.Y, w) <= NewYear(f.Y) + 6 /\ NewYear(f.Y) \in Int
    <3>1. NewYear(f.Y) \in Int
      BY <2>6, Years
    <3>2. /\ FirstWeek(f.Y, w) \in Int /\ NewYear(f.Y) <= FirstWeek(f.Y, w)
          /\ FirstWeek(f.Y, w) <= NewYear(f.Y) + 6
      BY <2>6, FirstWeeks
    <3> QED
      BY <3>1, <3>2
  <2>8. n \in Int /\ NewYear(f.Y) - 10 <= n /\ n < NewYear(f.Y) + 730
    BY <2>4, <2>6, <2>7
  <2> HIDE DEF n
  <2>9. ADay(n)
    <3>1. Within(f.Y, -20000, 20000)
      BY <2>2 DEF Within
    <3>2. LET t == from_days(n)
          IN  IsDateOf(t, n) /\ Within(t.y, f.Y - 1, f.Y + 1) /\ NewYear(t.y) <= n /\ n < NewYear(t.y + 1)
      BY <2>8, <3>1, WeekIn
    <3>3. Within(from_days(n).y, -20010, 20010)
      BY <2>2, <3>2 DEF Within
    <3> QED
      BY <3>2, <3>3 DEF ADay
  <2>10. /\ Changes(f, g, {"Y", "m", "d"}) /\ Kept(f, g) /\ g.computed
         /\ g.ok => Gives(g, from_days(n))
         /\ g.Y = f.Y /\ (g.ok => f.Y = from_days(n).y)
    BY <1>1, <2>2, <2>3, <2>9, DayFits
  <2> HIDE DEF g
  <2>11. Stage(g)
    BY <2>2, <2>10 DEF Stage, Changes
  <2>12. n = WeekDay(f, week, w)
    BY DEF n, r, WeekDay
  <2> QED
    BY <1>1, <2>4, <2>5, <2>9, <2>10, <2>11, <2>12 DEF r
<1>2. CASE ~(Has(f, "Y") /\ Has(f, week) /\ Has(f, "wd"))
  <2>1. FitWeek(f, week, w) = f
    BY <1>2 DEF FitWeek
  <2>2. Changes(f, f, {"Y", "m", "d"}) /\ Kept(f, f)
    BY ChangesNothing, KeptSame DEF Stage
  <2> QED
    BY <1>2, <2>1, <2>2
<1> QED
  BY <1>1, <1>2

LEMMA DayOfYearFits ==
  ASSUME NEW f, Stage(f)
  PROVE  LET g == FitDayOfYear(f)
             n == NewYear(f.Y) + f.j - 1
         IN  /\ Stage(g) /\ Changes(f, g, {"m", "d", "j"}) /\ Kept(f, g) /\ g.computed = f.computed
             /\ Has(f, "Y") /\ Has(f, "j") /\ 1 <= f.j /\ f.j <= YearDays(f.Y) /\ g.ok
                  => Gives(g, from_days(n)) /\ IsDateOf(from_days(n), n) /\ from_days(n).y = f.Y
<1>0. Full(f) /\ not_a.Y = -32768
  BY DEF Stage, not_a
<1>1. CASE Has(f, "j") /\ Has(f, "Y")
  <2> DEFINE n == NewYear(f.Y) + f.j - 1
             t == from_days(n)
             h == FitMonthDay(f, t)
             g == [h EXCEPT !.j = not_a.j]
  <2>1. f.Y \in Int /\ f.j \in Int /\ Within(f.Y, -10001, 10001)
    BY <1>0, <1>1, Numbers DEF Has, Stage
  <2>2. year(f.Y) = f.Y
    <3>1. Within(f.Y, -32767, 32767)
      BY <2>1 DEF Within
    <3> QED
      BY <3>1, YearOf
  <2>3. FitDayOfYear(f) = g
    BY <1>1, <2>2 DEF FitDayOfYear, NewYear
  <2>4. NewYear(f.Y) \in Int /\ NewYear(f.Y + 1) = NewYear(f.Y) + YearDays(f.Y) /\ YearDays(f.Y) \in {365, 366}
    BY <2>1, Years
  <2>5. n \in Int
    BY <2>1, <2>4
  <2> HIDE DEF n
  <2>6. t.m \in Int /\ t.d \in Int
    <3>1. t.m \in 0..255 /\ t.d \in 0..255
      BY <2>5, DateType
    <3> QED
      BY <3>1
  <2> HIDE DEF t
  <2>7. /\ Changes(f, h, {"m", "d"}) /\ Kept(f, h) /\ h.computed = f.computed
        /\ h.ok /\ t.m \in 1..12 /\ t.d \in 1..31
             => /\ Has(h, "m") /\ Has(h, "d") /\ month(h.m) = t.m /\ day(h.d) = t.d
    BY <1>0, <2>6, FitMonthDayIs
  <2>8. Full(h)
    BY <2>7 DEF Changes
  <2> HIDE DEF h
  <2>9. /\ Changes(h, g, {"j"}) /\ g.ok = h.ok /\ g.computed = h.computed
    <3>1. Counts("j", not_a.j) /\ "j" \in FieldNames
      BY DEF Counts, not_a, FieldNames
    <3> QED
      BY <2>8, <3>1, SetChanges
  <2> HIDE DEF g
  <2>10. Changes(f, g, {"m", "d", "j"})
    <3>1. {"m", "d"} \cup {"j"} = {"m", "d", "j"}
      OBVIOUS
    <3> QED
      BY <2>7, <2>9, <3>1, ChangesOn
  <2>11. Kept(f, g)
    <3>1. Kept(h, g)
      BY <2>9 DEF Changes, Kept
    <3> QED
      BY <2>7, <3>1, KeptOn
  <2>12. g.Y = f.Y
    BY <2>10 DEF Changes, FieldNames
  <2>13. Stage(g)
    BY <2>10, <2>12 DEF Stage, Changes
  <2>14. ASSUME 1 <= f.j, f.j <= YearDays(f.Y), g.ok
         PROVE  Gives(g, t) /\ IsDateOf(t, n) /\ t.y = f.Y
    <3>1. NewYear(f.Y) <= n /\ n < NewYear(f.Y + 1)
      BY <2>1, <2>4, <2>14 DEF n
    <3>2. AYear(f.Y)
      BY <2>1 DEF AYear, Within
    <3>3. t.y = f.Y /\ IsDateOf(t, n)
      BY <2>5, <3>1, <3>2, DayOf DEF t
    <3>4. t.m \in 1..12 /\ t.d \in 1..31 /\ t = ymd(t.y, t.m, t.d)
      BY <3>3 DEF IsDateOf
    <3>5. Has(h, "m") /\ Has(h, "d") /\ month(h.m) = t.m /\ day(h.d) = t.d
      BY <2>7, <2>9, <2>14, <3>4
    <3>6. g.m = h.m /\ g.d = h.d
      BY <2>9 DEF Changes, FieldNames
    <3> QED
      BY <1>1, <2>2, <2>12, <3>3, <3>4, <3>5, <3>6 DEF Gives, Has, DateOf
  <2> QED
    BY <2>3, <2>7, <2>9, <2>10, <2>11, <2>13, <2>14 DEF t, n
<1>2. CASE ~(Has(f, "j") /\ Has(f, "Y"))
  <2>1. FitDayOfYear(f) = f
    BY <1>2 DEF FitDayOfYear
  <2>2. Changes(f, f, {"m", "d", "j"}) /\ Kept(f, f)
    BY <1>0, ChangesNothing, KeptSame
  <2> QED
    BY <1>2, <2>1, <2>2
<1> QED
  BY <1>1, <1>2

-----------------------------------------------------------------------------
(* The checks of a date                                                    *)

IsoTrial(n) == LET y == from_days(n + 3).y IN IF n < IsoStart(y) THEN year_plus(y, -1) ELSE y

LEMMA CheckWeekdayIs ==
  ASSUME NEW f, Full(f)
  PROVE  LET g == CheckWeekday(f)
         IN  /\ Changes(f, g, {"wd"}) /\ Kept(f, g) /\ g.computed = f.computed
             /\ g.ok /\ Has(f, "wd") => f.wd = weekday_from_days(to_days(DateOf(f)))
<1> DEFINE w == weekday_from_days(to_days(DateOf(f)))
<1>1. w \in Int
  <2>1. f.Y \in Int /\ f.m \in Int /\ f.d \in Int
    BY Numbers
  <2>2. year(f.Y) \in YearRange /\ month(f.m) \in 0..255 /\ day(f.d) \in 0..255
    BY <2>1, Narrowed
  <2>3. year(f.Y) \in Int /\ month(f.m) \in Int /\ day(f.d) \in Int
    BY <2>2 DEF YearRange
  <2>4. to_days(DateOf(f)) \in Int
    BY <2>3, DaysType DEF DateOf, ymd
  <2> QED
    BY <2>4, WeekdayType
<1>2. CASE Has(f, "wd")
  <2> DEFINE g == Need(f, f.wd = w)
  <2>1. Changes(f, g, {}) /\ g.ok = (f.ok /\ f.wd = w) /\ g.computed = f.computed
    BY NeedChanges
  <2>2. CheckWeekday(f) = g
    BY <1>2 DEF CheckWeekday
  <2> HIDE DEF g
  <2> QED
    BY <2>1, <2>2 DEF Changes, Kept
<1>3. CASE ~Has(f, "wd")
  <2> DEFINE g == [f EXCEPT !.wd = w]
  <2>1. Counts("wd", w) /\ "wd" \in FieldNames
    BY <1>1, IntegerCounts DEF FieldNames
  <2>2. CheckWeekday(f) = g
    BY <1>3 DEF CheckWeekday
  <2> HIDE DEF w
  <2>3. /\ Changes(f, g, {"wd"}) /\ g.ok = f.ok /\ g.computed = f.computed
    BY <2>1, SetChanges
  <2> HIDE DEF g
  <2>4. \A y \in FieldNames : Has(f, y) => g[y] = f[y]
    BY <1>3, <2>3 DEF Changes
  <2> QED
    BY <1>3, <2>2, <2>3, <2>4 DEF Changes, Kept
<1> QED
  BY <1>2, <1>3

LEMMA CheckIsoWeekIs ==
  ASSUME NEW f, Full(f)
  PROVE  LET g == CheckIsoWeek(f)
             n == to_days(DateOf(f))
         IN  /\ Changes(f, g, {}) /\ g.computed = f.computed
             /\ g.ok /\ Has(f, "G") => f.G = IsoTrial(n)
             /\ g.ok /\ Has(f, "V") => f.V = Quotient(n - IsoStart(IsoTrial(n)), 7) + 1
<1>1. CASE ~(Has(f, "G") \/ Has(f, "V"))
  BY <1>1, ChangesNothing DEF CheckIsoWeek
<1>2. CASE Has(f, "G") \/ Has(f, "V")
  <2> DEFINE n == to_days(DateOf(f))
             cond == /\ Has(f, "G") => f.G = IsoTrial(n)
                     /\ Has(f, "V") => f.V = Quotient(n - IsoStart(IsoTrial(n)), 7) + 1
             g == Need(f, cond)
  <2>1. Changes(f, g, {}) /\ g.ok = (f.ok /\ cond) /\ g.computed = f.computed
    <3>1. cond \in BOOLEAN
      OBVIOUS
    <3> HIDE DEF cond
    <3> QED
      BY <3>1, NeedChanges
  <2>2. CheckIsoWeek(f) = g
    BY <1>2 DEF CheckIsoWeek, IsoTrial
  <2> HIDE DEF g, n
  <2> QED
    BY <2>1, <2>2 DEF n
<1> QED
  BY <1>1, <1>2

LEMMA CheckWeekIs ==
  ASSUME NEW f, Full(f), NEW week \in {"U", "W"}, NEW w \in 0..1
  PROVE  LET g == CheckWeek(f, week, w)
             n == to_days(DateOf(f))
         IN  /\ Changes(f, g, {}) /\ g.computed = f.computed
             /\ g.ok /\ Has(f, week) => f[week] = (n - FirstWeek(DateOf(f).y, w)) \div 7 + 1
<1> DEFINE n == to_days(DateOf(f))
           cond == Has(f, week) => f[week] = (n - FirstWeek(DateOf(f).y, w)) \div 7 + 1
           g == Need(f, cond)
<1>1. Changes(f, g, {}) /\ g.ok = (f.ok /\ cond) /\ g.computed = f.computed
  <2>1. cond \in BOOLEAN
    OBVIOUS
  <2> HIDE DEF cond
  <2> QED
    BY <2>1, NeedChanges
<1>2. CheckWeek(f, week, w) = g
  BY DEF CheckWeek
<1> HIDE DEF g, n
<1> QED
  BY <1>1, <1>2 DEF n

LEMMA SameDate ==
  ASSUME NEW f, NEW g, Changes(f, g, {}) \/ Changes(f, g, {"wd"}) \/ Changes(f, g, {"H"})
  PROVE  DateOf(g) = DateOf(f)
<1>1. g.Y = f.Y /\ g.m = f.m /\ g.d = f.d
  BY DEF Changes, FieldNames
<1> QED
  BY <1>1 DEF DateOf

LEMMA DateIsChecked ==
  ASSUME NEW f, Full(f), ymd_ok(DateOf(f))
  PROVE  LET g == CheckDate(f)
             t == DateOf(f)
             n == to_days(t)
         IN  /\ Changes(f, g, {"wd"}) /\ Kept(f, g)
             /\ g.ok /\ Has(f, "wd") => f.wd = weekday_from_days(n)
             /\ g.ok /\ ~f.computed
                  => /\ Has(f, "G") => f.G = IsoTrial(n)
                     /\ Has(f, "V") => f.V = Quotient(n - IsoStart(IsoTrial(n)), 7) + 1
                     /\ Has(f, "U") => f.U = (n - FirstWeek(t.y, 0)) \div 7 + 1
                     /\ Has(f, "W") => f.W = (n - FirstWeek(t.y, 1)) \div 7 + 1
<1> DEFINE t == DateOf(f)
           n == to_days(t)
           h == CheckWeekday(f)
           i == CheckIsoWeek(h)
           u == CheckWeek(i, "U", 0)
           k == CheckWeek(u, "W", 1)
<1>1. /\ Changes(f, h, {"wd"}) /\ Kept(f, h) /\ h.computed = f.computed
      /\ h.ok /\ Has(f, "wd") => f.wd = weekday_from_days(n)
  BY CheckWeekdayIs
<1>2. Full(h) /\ DateOf(h) = t
  <2> HIDE DEF h
  <2>1. DateOf(h) = DateOf(f)
    BY <1>1, SameDate
  <2> QED
    BY <1>1, <2>1 DEF Changes
<1> HIDE DEF h, t
<1>3. /\ Changes(h, i, {})
      /\ i.ok /\ Has(h, "G") => h.G = IsoTrial(n)
      /\ i.ok /\ Has(h, "V") => h.V = Quotient(n - IsoStart(IsoTrial(n)), 7) + 1
  BY <1>2, CheckIsoWeekIs
<1>4. Full(i) /\ DateOf(i) = t
  <2> HIDE DEF i
  <2>1. DateOf(i) = DateOf(h)
    BY <1>3, SameDate
  <2> QED
    BY <1>2, <1>3, <2>1 DEF Changes
<1> HIDE DEF i
<1>5. Changes(i, u, {}) /\ (u.ok /\ Has(i, "U") => i.U = (n - FirstWeek(t.y, 0)) \div 7 + 1)
  BY <1>4, CheckWeekIs
<1>6. Full(u) /\ DateOf(u) = t
  <2> HIDE DEF u
  <2>1. DateOf(u) = DateOf(i)
    BY <1>5, SameDate
  <2> QED
    BY <1>4, <1>5, <2>1 DEF Changes
<1> HIDE DEF u
<1>7. Changes(u, k, {}) /\ (k.ok /\ Has(u, "W") => u.W = (n - FirstWeek(t.y, 1)) \div 7 + 1)
  BY <1>6, CheckWeekIs
<1> HIDE DEF k
<1>8. CheckDate(f) = IF h.computed THEN h ELSE k
  BY DEF CheckDate, h, i, u, k
<1>9. /\ h.G = f.G /\ h.V = f.V /\ h.U = f.U /\ h.W = f.W
      /\ i.U = h.U /\ i.W = h.W /\ u.W = i.W
  BY <1>1, <1>3, <1>5 DEF Changes, FieldNames
<1>10. Kept(h, i) /\ Kept(i, u) /\ Kept(u, k)
  BY <1>3, <1>5, <1>7 DEF Changes, Kept
<1>11. Kept(f, k)
  BY <1>1, <1>10, KeptOn
<1>12. Changes(f, k, {"wd"})
  BY <1>1, <1>3, <1>5, <1>7 DEF Changes
<1>13. CASE f.computed
  <2>1. CheckDate(f) = h
    BY <1>1, <1>8, <1>13
  <2> QED
    BY <1>1, <1>13, <2>1 DEF t
<1>14. CASE ~f.computed
  <2>1. CheckDate(f) = k
    BY <1>1, <1>8, <1>14
  <2>2. k.ok => h.ok /\ i.ok /\ u.ok
    BY <1>3, <1>5, <1>7 DEF Changes
  <2>3. ASSUME k.ok
        PROVE  /\ Has(f, "wd") => f.wd = weekday_from_days(n)
               /\ Has(f, "G") => f.G = IsoTrial(n)
               /\ Has(f, "V") => f.V = Quotient(n - IsoStart(IsoTrial(n)), 7) + 1
               /\ Has(f, "U") => f.U = (n - FirstWeek(t.y, 0)) \div 7 + 1
               /\ Has(f, "W") => f.W = (n - FirstWeek(t.y, 1)) \div 7 + 1
    BY <1>1, <1>3, <1>5, <1>7, <1>9, <2>2, <2>3 DEF Has
  <2> QED
    BY <1>11, <1>12, <2>1, <2>3 DEF t
<1> QED
  BY <1>13, <1>14

LEMMA HourIsKept == ASSUME NEW f, Full(f) PROVE Changes(f, FitHour(f), {"H"}) /\ Kept(f, FitHour(f))
<1>1. Changes(f, FitHour(f), {"H"}) /\ (FitHour(f).ok /\ Has(f, "H") => FitHour(f).H = f.H)
  BY FitHourChanges
<1> QED
  BY <1>1 DEF Changes, Kept
-----------------------------------------------------------------------------
(* From the fields to the date                                              *)

Iso == FitIsoWeek(YearsFound)
WeekU == FitWeek(Iso, "U", 0)
Dated == FitWeek(WeekU, "W", 1)
Days == FitDayOfYear(Dated)
Checked == CheckDate(Days)

LEMMA TheStages == Fitted = FitHour(Checked)
BY DEF Fitted, Checked, Days, Dated, WeekU, Iso, YearsFound, Years2, Years1

LEMMA YearsStage ==
  ASSUME Typed(found), Narrow, YearsFound.ok
  PROVE  /\ Stage(YearsFound) /\ (Has(YearsFound, "G") => Within(YearsFound.G, -10000, 9999))
         /\ Within(YearsFound.V, 0, 100) /\ Within(YearsFound.U, 0, 100) /\ Within(YearsFound.W, 0, 100)
<1>1. /\ Full(YearsFound) /\ \A x \in FieldNames \ {"C", "Y", "G"} : YearsFound[x] = found[x]
      /\ TrueYear(YearsFound, "y", "Y") /\ TrueYear(YearsFound, "g", "G")
  BY YearsAre
<1>2. YearsFound.V = found.V /\ YearsFound.U = found.U /\ YearsFound.W = found.W
  BY <1>1 DEF FieldNames
<1>3. not_a.G = -32768
  BY DEF not_a
<1> QED
  BY <1>1, <1>2, <1>3 DEF Narrow, TrueYear, Stage, Within, Has

LEMMA StagesFull ==
  ASSUME Typed(found)
  PROVE  /\ Full(YearsFound) /\ Full(Iso) /\ Full(WeekU) /\ Full(Dated) /\ Full(Days) /\ Full(Checked)
         /\ Fitted.ok => YearsFound.ok /\ Iso.ok /\ WeekU.ok /\ Dated.ok /\ Days.ok /\ Checked.ok
<1>1. Full(Collected)
  BY AllFound
<1>2. Full(Years1)
  BY <1>1, FitYearChanges DEF Changes, Years1
<1>3. Full(Years2)
  BY <1>2, FitYearChanges DEF Changes, Years2
<1>4. Full(YearsFound)
  BY <1>3, LimitYearChanges DEF Changes, YearsFound
<1>5. Full(Iso) /\ (Iso.ok => YearsFound.ok)
  BY <1>4, FitIsoWeekChanges DEF ByDays, Changes, Iso
<1>6. Full(WeekU) /\ (WeekU.ok => Iso.ok)
  BY <1>5, FitWeekChanges DEF ByDays, Changes, WeekU
<1>7. Full(Dated) /\ (Dated.ok => WeekU.ok)
  BY <1>6, FitWeekChanges DEF ByDays, Changes, Dated
<1>8. Full(Days) /\ (Days.ok => Dated.ok)
  BY <1>7, FitDayOfYearChanges DEF Changes, Days
<1>9. Full(Checked) /\ (Checked.ok => Days.ok)
  BY <1>8, CheckDateChanges DEF Changes, Checked
<1>10. Fitted.ok => Checked.ok
  BY <1>9, TheStages, HourIsKept DEF Kept
<1> QED
  BY <1>4, <1>5, <1>6, <1>7, <1>8, <1>9, <1>10

\* What has been found makes a date.
Dates == Typed(found) /\ Narrow /\ Fitted.ok /\ ymd_ok(DateOf(Fitted))

LEMMA YearsKnown ==
  ASSUME Dates
  PROVE  /\ YearsFound.ok /\ ~YearsFound.computed /\ Stage(YearsFound)
         /\ Has(YearsFound, "G") => Within(YearsFound.G, -10000, 9999)
         /\ \A x \in FieldNames \ {"C", "Y", "G"} : YearsFound[x] = found[x]
         /\ Within(found.V, 0, 100) /\ Within(found.U, 0, 100) /\ Within(found.W, 0, 100)
         /\ TrueYear(YearsFound, "y", "Y") /\ TrueYear(YearsFound, "g", "G")
<1>1. YearsFound.ok
  BY StagesFull DEF Dates
<1> QED
  BY <1>1, YearsAre, YearsStage DEF Dates, Narrow

LEMMA IsoKnown ==
  ASSUME Dates
  PROVE  /\ Stage(Iso) /\ Iso.ok /\ Changes(YearsFound, Iso, {"Y", "m", "d"}) /\ Kept(YearsFound, Iso)
         /\ Has(YearsFound, "G") /\ Has(found, "V") /\ Has(found, "wd")
              => /\ ADay(IsoDay(YearsFound)) /\ Gives(Iso, from_days(IsoDay(YearsFound)))
         /\ ~(Has(YearsFound, "G") /\ Has(found, "V") /\ Has(found, "wd")) => ~Iso.computed
         /\ \A x \in {"U", "V", "W", "wd", "j"} : Iso[x] = found[x]
         /\ Iso.G = YearsFound.G
<1>1. /\ ~YearsFound.computed /\ Stage(YearsFound)
      /\ Has(YearsFound, "G") => Within(YearsFound.G, -10000, 9999)
      /\ \A x \in FieldNames \ {"C", "Y", "G"} : YearsFound[x] = found[x]
      /\ Within(found.V, 0, 100)
  BY YearsKnown
<1>2. YearsFound.V = found.V /\ YearsFound.wd = found.wd
  BY <1>1 DEF FieldNames
<1>3. Has(YearsFound, "V") = Has(found, "V") /\ Has(YearsFound, "wd") = Has(found, "wd")
  BY <1>2 DEF Has
<1>4. Iso.ok
  BY StagesFull DEF Dates
<1>5. /\ Stage(Iso) /\ Changes(YearsFound, Iso, {"Y", "m", "d"}) /\ Kept(YearsFound, Iso)
      /\ Has(YearsFound, "G") /\ Has(YearsFound, "V") /\ Has(YearsFound, "wd")
           => /\ Iso.computed /\ ADay(IsoDay(YearsFound))
              /\ (Iso.ok => Gives(Iso, from_days(IsoDay(YearsFound))))
      /\ ~(Has(YearsFound, "G") /\ Has(YearsFound, "V") /\ Has(YearsFound, "wd")) => Iso = YearsFound
  BY <1>1, <1>2, IsoWeekFits DEF Iso
<1>6. \A x \in {"U", "V", "W", "wd", "j"} : Iso[x] = found[x]
  BY <1>1, <1>5 DEF Changes, FieldNames
<1>7. Iso.G = YearsFound.G
  BY <1>5 DEF Changes, FieldNames
<1> QED
  BY <1>1, <1>3, <1>4, <1>5, <1>6, <1>7

LEMMA WeekUKnown ==
  ASSUME Dates
  PROVE  LET n == WeekDay(Iso, "U", 0)
         IN  /\ Stage(WeekU) /\ WeekU.ok /\ Kept(Iso, WeekU) /\ WeekU.Y = Iso.Y
             /\ Has(Iso, "Y") /\ Has(found, "U") /\ Has(found, "wd")
                  => /\ ADay(n) /\ weekday_minus(found.wd, 0) \in 0..6
                     /\ Gives(WeekU, from_days(n)) /\ from_days(n).y = Iso.Y
             /\ ~(Has(found, "U") /\ Has(found, "wd")) => WeekU.computed = Iso.computed
             /\ \A x \in {"U", "V", "W", "wd", "j", "G"} : WeekU[x] = Iso[x]
<1>1. Stage(Iso) /\ Iso.U = found.U /\ Iso.wd = found.wd
  BY IsoKnown
<1>2. Has(Iso, "U") = Has(found, "U") /\ Has(Iso, "wd") = Has(found, "wd")
  BY <1>1 DEF Has
<1>3. Within(Iso.U, 0, 100)
  BY <1>1, YearsKnown
<1>4. WeekU.ok
  BY StagesFull DEF Dates
<1>5. LET n == WeekDay(Iso, "U", 0)
      IN  /\ Stage(WeekU) /\ Changes(Iso, WeekU, {"Y", "m", "d"}) /\ Kept(Iso, WeekU) /\ WeekU.Y = Iso.Y
          /\ Has(Iso, "Y") /\ Has(Iso, "U") /\ Has(Iso, "wd")
               => /\ WeekU.computed /\ ADay(n) /\ weekday_minus(Iso.wd, 0) \in 0..6
                  /\ WeekU.ok => Gives(WeekU, from_days(n)) /\ from_days(n).y = Iso.Y
          /\ ~(Has(Iso, "Y") /\ Has(Iso, "U") /\ Has(Iso, "wd")) => WeekU = Iso
  BY <1>1, <1>3, WeekFits DEF WeekU
<1>6. \A x \in {"U", "V", "W", "wd", "j", "G"} : WeekU[x] = Iso[x]
  BY <1>5 DEF Changes, FieldNames
<1> QED
  BY <1>1, <1>2, <1>4, <1>5, <1>6

LEMMA DatedKnown ==
  ASSUME Dates
  PROVE  LET n == WeekDay(WeekU, "W", 1)
         IN  /\ Stage(Dated) /\ Dated.ok /\ Kept(WeekU, Dated) /\ Dated.Y = Iso.Y
             /\ Has(Iso, "Y") /\ Has(found, "W") /\ Has(found, "wd")
                  => /\ ADay(n) /\ weekday_minus(found.wd, 1) \in 0..6
                     /\ Gives(Dated, from_days(n)) /\ from_days(n).y = Iso.Y
             /\ ~(Has(found, "W") /\ Has(found, "wd")) => Dated.computed = WeekU.computed
             /\ \A x \in {"U", "V", "W", "wd", "j", "G"} : Dated[x] = Iso[x]
<1>1. Stage(WeekU) /\ WeekU.W = found.W /\ WeekU.wd = found.wd /\ WeekU.Y = Iso.Y
  BY IsoKnown, WeekUKnown
<1>2. /\ Has(WeekU, "W") = Has(found, "W") /\ Has(WeekU, "wd") = Has(found, "wd")
      /\ Has(WeekU, "Y") = Has(Iso, "Y")
  BY <1>1 DEF Has
<1>3. Within(WeekU.W, 0, 100)
  BY <1>1, YearsKnown
<1>4. Dated.ok
  BY StagesFull DEF Dates
<1>5. LET n == WeekDay(WeekU, "W", 1)
      IN  /\ Stage(Dated) /\ Changes(WeekU, Dated, {"Y", "m", "d"}) /\ Kept(WeekU, Dated) /\ Dated.Y = WeekU.Y
          /\ Has(WeekU, "Y") /\ Has(WeekU, "W") /\ Has(WeekU, "wd")
               => /\ Dated.computed /\ ADay(n) /\ weekday_minus(WeekU.wd, 1) \in 0..6
                  /\ Dated.ok => Gives(Dated, from_days(n)) /\ from_days(n).y = WeekU.Y
          /\ ~(Has(WeekU, "Y") /\ Has(WeekU, "W") /\ Has(WeekU, "wd")) => Dated = WeekU
  BY <1>1, <1>3, WeekFits DEF Dated
<1>6. \A x \in {"U", "V", "W", "wd", "j", "G"} : Dated[x] = WeekU[x]
  BY <1>5 DEF Changes, FieldNames
<1>7. \A x \in {"U", "V", "W", "wd", "j", "G"} : Dated[x] = Iso[x]
  BY <1>6, WeekUKnown
<1> QED
  BY <1>1, <1>2, <1>4, <1>5, <1>7

LEMMA DaysKnown ==
  ASSUME Dates
  PROVE  LET n == NewYear(Iso.Y) + found.j - 1
         IN  /\ Full(Days) /\ Days.ok /\ Kept(Dated, Days) /\ Days.Y = Iso.Y
             /\ Has(Iso, "Y") /\ Has(found, "j") /\ 1 <= found.j /\ found.j <= YearDays(Iso.Y)
                  => Gives(Days, from_days(n)) /\ IsDateOf(from_days(n), n) /\ from_days(n).y = Iso.Y
             /\ Days.computed = Dated.computed
             /\ \A x \in {"U", "V", "W", "wd"} : Days[x] = found[x]
             /\ Days.G = YearsFound.G
<1>1. Stage(Dated) /\ Dated.Y = Iso.Y /\ Dated.j = found.j /\ Dated.G = YearsFound.G
  BY IsoKnown, DatedKnown
<1>2. \A x \in {"U", "V", "W", "wd"} : Dated[x] = found[x]
  BY IsoKnown, DatedKnown
<1>3. Has(Dated, "Y") = Has(Iso, "Y") /\ Has(Dated, "j") = Has(found, "j")
  BY <1>1 DEF Has
<1>4. Days.ok
  BY StagesFull DEF Dates
<1>5. LET n == NewYear(Dated.Y) + Dated.j - 1
      IN  /\ Stage(Days) /\ Changes(Dated, Days, {"m", "d", "j"}) /\ Kept(Dated, Days)
          /\ Days.computed = Dated.computed
          /\ Has(Dated, "Y") /\ Has(Dated, "j") /\ 1 <= Dated.j /\ Dated.j <= YearDays(Dated.Y) /\ Days.ok
               => Gives(Days, from_days(n)) /\ IsDateOf(from_days(n), n) /\ from_days(n).y = Dated.Y
  BY <1>1, DayOfYearFits DEF Days
<1>6. Days.Y = Dated.Y /\ Days.G = Dated.G /\ \A x \in {"U", "V", "W", "wd"} : Days[x] = Dated[x]
  BY <1>5 DEF Changes, FieldNames
<1> QED
  BY <1>1, <1>2, <1>3, <1>4, <1>5, <1>6 DEF Stage

TheDate == DateOf(Fitted)
TheDay == to_days(TheDate)

LEMMA LastKnown ==
  ASSUME Dates
  PROVE  /\ Kept(Days, Fitted) /\ Fitted.Y = Iso.Y /\ DateOf(Days) = TheDate
         /\ Has(found, "wd") => found.wd = weekday_from_days(TheDay)
         /\ ~Days.computed
              => /\ Has(YearsFound, "G") => YearsFound.G = IsoTrial(TheDay)
                 /\ Has(found, "V") => found.V = Quotient(TheDay - IsoStart(IsoTrial(TheDay)), 7) + 1
                 /\ Has(found, "U") => found.U = (TheDay - FirstWeek(TheDate.y, 0)) \div 7 + 1
                 /\ Has(found, "W") => found.W = (TheDay - FirstWeek(TheDate.y, 1)) \div 7 + 1
<1>1. Full(Days) /\ Full(Checked) /\ Checked.ok /\ Fitted.ok
  BY StagesFull DEF Dates
<1>2. Changes(Days, Checked, {"wd"})
  BY <1>1, CheckDateChanges DEF Checked
<1>3. Changes(Checked, Fitted, {"H"}) /\ Kept(Checked, Fitted)
  BY <1>1, TheStages, HourIsKept
<1>4. DateOf(Fitted) = DateOf(Checked) /\ DateOf(Checked) = DateOf(Days)
  BY <1>2, <1>3, SameDate
<1>5. ymd_ok(DateOf(Days)) /\ DateOf(Days) = TheDate
  BY <1>4 DEF Dates, TheDate
<1>6. /\ Kept(Days, Checked)
      /\ Has(Days, "wd") => Days.wd = weekday_from_days(TheDay)
      /\ ~Days.computed
           => /\ Has(Days, "G") => Days.G = IsoTrial(TheDay)
              /\ Has(Days, "V") => Days.V = Quotient(TheDay - IsoStart(IsoTrial(TheDay)), 7) + 1
              /\ Has(Days, "U") => Days.U = (TheDay - FirstWeek(TheDate.y, 0)) \div 7 + 1
              /\ Has(Days, "W") => Days.W = (TheDay - FirstWeek(TheDate.y, 1)) \div 7 + 1
  BY <1>1, <1>5, DateIsChecked DEF Checked, TheDay
<1>7. Kept(Days, Fitted)
  BY <1>3, <1>6, KeptOn
<1>8. Fitted.Y = Checked.Y /\ Checked.Y = Days.Y
  BY <1>2, <1>3 DEF Changes, FieldNames
<1>9. /\ Days.Y = Iso.Y /\ Days.G = YearsFound.G
      /\ Days.V = found.V /\ Days.U = found.U /\ Days.W = found.W /\ Days.wd = found.wd
  BY DaysKnown
<1>10. /\ Has(Days, "G") = Has(YearsFound, "G") /\ Has(Days, "V") = Has(found, "V")
       /\ Has(Days, "U") = Has(found, "U") /\ Has(Days, "W") = Has(found, "W")
       /\ Has(Days, "wd") = Has(found, "wd")
  BY <1>9 DEF Has
<1> QED
  BY <1>5, <1>6, <1>7, <1>8, <1>9, <1>10

LEMMA AllKept ==
  ASSUME Dates
  PROVE  /\ Fitted.ok /\ Kept(YearsFound, Fitted) /\ Kept(Iso, Fitted) /\ Kept(WeekU, Fitted)
         /\ Kept(Dated, Fitted) /\ Kept(Days, Fitted)
<1>1. Kept(Days, Fitted)
  BY LastKnown
<1>2. Kept(Dated, Fitted)
  BY <1>1, DaysKnown, KeptOn
<1>3. Kept(WeekU, Fitted)
  BY <1>2, DatedKnown, KeptOn
<1>4. Kept(Iso, Fitted)
  BY <1>3, WeekUKnown, KeptOn
<1>5. Kept(YearsFound, Fitted)
  BY <1>4, IsoKnown, KeptOn
<1> QED
  BY <1>1, <1>2, <1>3, <1>4, <1>5 DEF Dates

\* The date is one of the calendar, and its year has been known since Iso.
LEMMA DateKnown ==
  ASSUME Dates
  PROVE  /\ IsDateOf(TheDate, TheDay) /\ Within(TheDate.y, -10001, 10001)
         /\ NewYear(TheDate.y) <= TheDay /\ TheDay < NewYear(TheDate.y + 1)
         /\ Has(Iso, "Y") /\ Iso.Y = TheDate.y
<1>1. /\ Fitted.Y = Iso.Y /\ Stage(Iso) /\ ymd_ok(TheDate) /\ not_a.Y = -32768
      /\ TheDate = ymd(year(Fitted.Y), month(Fitted.m), day(Fitted.d))
  BY LastKnown, IsoKnown DEF Dates, TheDate, not_a, DateOf
<1>2. TheDate.y = year(Iso.Y) /\ TheDate.m = month(Fitted.m) /\ TheDate.d = day(Fitted.d)
  BY <1>1 DEF ymd
<1>3. TheDate = ymd(TheDate.y, TheDate.m, TheDate.d)
  BY <1>1, <1>2
<1>4. TheDate.y # -32768
  BY <1>1 DEF ymd_ok, year_ok
<1>5. Iso.Y # -32768
  <2>1. year(-32768) = -32768
    BY DEF year, Short
  <2> QED
    BY <1>2, <1>4, <2>1
<1>6. Within(Iso.Y, -10001, 10001)
  BY <1>1, <1>5 DEF Stage
<1>7. TheDate.y = Iso.Y
  <2>1. Within(Iso.Y, -32767, 32767)
    BY <1>6 DEF Within
  <2> QED
    BY <1>2, <2>1, YearOf
<1>8. AYear(TheDate.y)
  BY <1>6, <1>7 DEF AYear, Within
<1>9. TheDate.m \in Int /\ TheDate.d \in Int
  <2>1. Full(Fitted)
    BY AllKept DEF Kept
  <2>2. Fitted.m \in Int /\ Fitted.d \in Int
    BY <2>1, Numbers
  <2>3. month(Fitted.m) \in 0..255 /\ day(Fitted.d) \in 0..255
    BY <2>2, Narrowed
  <2> QED
    BY <1>2, <2>3
<1>10. IsDateOf(TheDate, TheDay) /\ NewYear(TheDate.y) <= TheDay /\ TheDay < NewYear(TheDate.y + 1)
  BY <1>1, <1>3, <1>8, <1>9, InItsYear DEF TheDay
<1> QED
  BY <1>1, <1>5, <1>6, <1>7, <1>10 DEF Has

-----------------------------------------------------------------------------
(* What is found is true                                                    *)

\* The fields of a stage that have a date keep it.
LEMMA Fixed ==
  ASSUME Dates, NEW f, Kept(f, Fitted), NEW n, IsDateOf(from_days(n), n), Gives(f, from_days(n))
  PROVE  TheDate = from_days(n) /\ TheDay = n
<1>1. Gives(Fitted, from_days(n))
  BY AllKept, GivesOn
<1>2. TheDate = from_days(n)
  BY <1>1 DEF Gives, TheDate
<1> QED
  BY <1>2 DEF TheDay, IsDateOf

LEMMA YearTrue ==
  ASSUME Dates
  PROVE  /\ Has(found, "Y") => found.Y = TheDate.y
         /\ Has(found, "y") => found.y = Size(TheDate.y) % 100
         /\ Has(found, "y") /\ Has(found, "C") => found.C = TheDate.y \div 100
<1>1. TrueYear(YearsFound, "y", "Y")
  BY YearsKnown
<1>2. Fitted.Y = TheDate.y
  BY LastKnown, DateKnown
<1>3. Has(YearsFound, "Y") => YearsFound.Y = TheDate.y
  BY <1>2, AllKept DEF Kept, FieldNames
<1>4. ASSUME Has(found, "Y") PROVE found.Y = TheDate.y
  <2>1. YearsFound.Y = found.Y
    BY <1>1, <1>4 DEF TrueYear
  <2> QED
    BY <1>3, <1>4, <2>1 DEF Has
<1>5. ASSUME Has(found, "y")
      PROVE  found.y = Size(TheDate.y) % 100 /\ (Has(found, "C") => found.C = TheDate.y \div 100)
  <2>1. PICK c \in Int : /\ Within(c, -100, 99) /\ YearsFound.Y = JoinYear(c, found.y)
                         /\ Has(found, "C") => c = found.C
    BY <1>1, <1>5 DEF TrueYear
  <2>2. Within(found.y, 0, 99) /\ Has(YearsFound, "Y")
    BY <1>1, <1>5 DEF TrueYear
  <2>3. Size(JoinYear(c, found.y)) % 100 = found.y /\ JoinYear(c, found.y) \div 100 = c
    BY <2>1, <2>2, Centuries
  <2> QED
    BY <1>3, <2>1, <2>2, <2>3
<1> QED
  BY <1>4, <1>5

LEMMA MonthDayTrue ==
  ASSUME Dates
  PROVE  (Has(found, "m") => found.m = TheDate.m) /\ (Has(found, "d") => found.d = TheDate.d)
<1>1. YearsFound.m = found.m /\ YearsFound.d = found.d
  BY YearsKnown DEF FieldNames
<1>2. (Has(found, "m") => Fitted.m = found.m) /\ (Has(found, "d") => Fitted.d = found.d)
  BY <1>1, AllKept DEF Kept, Has, FieldNames
<1>3. TheDate.m = month(Fitted.m) /\ TheDate.d = day(Fitted.d)
  BY DEF TheDate, DateOf, ymd
<1>4. TheDate.m \in 1..12 /\ TheDate.d \in 1..31
  BY DateKnown DEF IsDateOf
<1>5. Within(found.m, -99, 99) /\ Within(found.d, -99, 99)
  BY DEF Dates, Narrow
<1>6. ASSUME NEW x, Within(x, -99, 99), x % 256 \in 1..31 PROVE x % 256 = x
  BY <1>6, SMT DEF Within
<1> QED
  BY <1>2, <1>3, <1>4, <1>5, <1>6 DEF month, day, UChar

LEMMA DayOfYearTrue ==
  ASSUME Dates, Has(found, "j"), found.j \in 1..(IF is_leap(TheDate.y) THEN 366 ELSE 365)
  PROVE  found.j = Writer!DayOfYear(TheDate)
<1> DEFINE n == NewYear(TheDate.y) + found.j - 1
<1>1. Has(Iso, "Y") /\ Iso.Y = TheDate.y /\ IsDateOf(TheDate, TheDay) /\ TheDate.y \in Int
  BY DateKnown DEF Within
<1>2. found.j \in Int /\ 1 <= found.j /\ found.j <= YearDays(TheDate.y)
  BY DEF YearDays
<1>3. Gives(Days, from_days(n)) /\ IsDateOf(from_days(n), n)
  BY <1>1, <1>2, DaysKnown
<1>4. TheDay = n
  BY <1>3, AllKept, Fixed
<1>5. Writer!DayOfYear(TheDate) = TheDay - NewYear(TheDate.y) + 1
  BY <1>1, WriterSays
<1>6. NewYear(TheDate.y) \in Int
  BY <1>1, Years
<1> QED
  BY <1>2, <1>4, <1>5, <1>6

LEMMA WeekNumber ==
  ASSUME NEW n \in Int, NEW s \in Int, NEW u \in Int, 0 <= u,
         \/ u = (n - s) \div 7 + 1 /\ s - 6 <= n
         \/ \E r \in 0..6 : n = s + 7 * (u - 1) + r
  PROVE  u = IF n < s THEN 0 ELSE (n - s) \div 7 + 1
<1>1. CASE u = (n - s) \div 7 + 1 /\ s - 6 <= n
  BY <1>1, SMT
<1>2. ASSUME NEW r \in 0..6, n = s + 7 * (u - 1) + r
      PROVE  u = IF n < s THEN 0 ELSE (n - s) \div 7 + 1
  BY <1>2, SMT
<1> QED
  BY <1>1, <1>2

LEMMA WeeksTrue ==
  ASSUME Dates
  PROVE  /\ Has(found, "U") => found.U = Writer!WeekOfYear(TheDate, 0)
         /\ Has(found, "W") => found.W = Writer!WeekOfYear(TheDate, 1)
<1>1. /\ Has(Iso, "Y") /\ Iso.Y = TheDate.y /\ IsDateOf(TheDate, TheDay) /\ TheDate.y \in Int
      /\ TheDay \in Int /\ NewYear(TheDate.y) <= TheDay
  BY DateKnown DEF Within, IsDateOf
<1>2. \A w \in 0..1 : Writer!WeekOfYear(TheDate, w)
                       = IF TheDay < FirstWeek(TheDate.y, w) THEN 0
                         ELSE (TheDay - FirstWeek(TheDate.y, w)) \div 7 + 1
  BY <1>1, WriterSays
<1>3. \A w \in 0..1 : FirstWeek(TheDate.y, w) \in Int /\ FirstWeek(TheDate.y, w) - 6 <= TheDay
  <2>1. \A w \in 0..1 : FirstWeek(TheDate.y, w) \in Int /\ FirstWeek(TheDate.y, w) <= NewYear(TheDate.y) + 6
    BY <1>1, FirstWeeks
  <2>2. NewYear(TheDate.y) \in Int
    BY <1>1, Years
  <2> QED
    BY <1>1, <2>1, <2>2
<1>4. found.U \in Int /\ 0 <= found.U /\ found.W \in Int /\ 0 <= found.W
  BY YearsKnown DEF Within
<1>5. /\ Iso.U = found.U /\ Iso.wd = found.wd
      /\ WeekU.W = found.W /\ WeekU.wd = found.wd /\ WeekU.Y = Iso.Y
  BY IsoKnown, WeekUKnown
<1>6. ~Has(found, "wd") => ~Days.computed
  BY IsoKnown, WeekUKnown, DatedKnown, DaysKnown
<1>7. ASSUME Has(found, "U") PROVE found.U = Writer!WeekOfYear(TheDate, 0)
  <2> DEFINE s == FirstWeek(TheDate.y, 0)
  <2>1. CASE Has(found, "wd")
    <3> DEFINE n == WeekDay(Iso, "U", 0)
    <3>1. ADay(n) /\ Gives(WeekU, from_days(n)) /\ weekday_minus(found.wd, 0) \in 0..6
      BY <1>1, <1>7, <2>1, WeekUKnown
    <3>2. TheDay = n
      <4> HIDE DEF n
      <4> QED
        BY <3>1, AllKept, Fixed DEF ADay
    <3>3. n = s + 7 * (found.U - 1) + weekday_minus(found.wd, 0)
      BY <1>1, <1>5 DEF WeekDay
    <3> HIDE DEF n, s
    <3>4. \E r \in 0..6 : TheDay = s + 7 * (found.U - 1) + r
      BY <3>1, <3>2, <3>3
    <3>5. s \in Int
      BY <1>3 DEF s
    <3>6. found.U = IF TheDay < s THEN 0 ELSE (TheDay - s) \div 7 + 1
      BY <1>1, <1>4, <3>4, <3>5, WeekNumber
    <3> QED
      BY <1>2, <3>6 DEF s
  <2>2. CASE ~Has(found, "wd")
    <3>1. found.U = (TheDay - s) \div 7 + 1
      BY <1>6, <1>7, <2>2, LastKnown
    <3>2. s \in Int /\ s - 6 <= TheDay
      BY <1>3
    <3> HIDE DEF s
    <3>3. found.U = IF TheDay < s THEN 0 ELSE (TheDay - s) \div 7 + 1
      BY <1>1, <1>4, <3>1, <3>2, WeekNumber
    <3> QED
      BY <1>2, <3>3 DEF s
  <2> QED
    BY <2>1, <2>2
<1>8. ASSUME Has(found, "W") PROVE found.W = Writer!WeekOfYear(TheDate, 1)
  <2> DEFINE s == FirstWeek(TheDate.y, 1)
  <2>1. CASE Has(found, "wd")
    <3> DEFINE n == WeekDay(WeekU, "W", 1)
    <3>1. ADay(n) /\ Gives(Dated, from_days(n)) /\ weekday_minus(found.wd, 1) \in 0..6
      BY <1>1, <1>8, <2>1, DatedKnown
    <3>2. TheDay = n
      <4> HIDE DEF n
      <4> QED
        BY <3>1, AllKept, Fixed DEF ADay
    <3>3. n = s + 7 * (found.W - 1) + weekday_minus(found.wd, 1)
      BY <1>1, <1>5 DEF WeekDay
    <3> HIDE DEF n, s
    <3>4. \E r \in 0..6 : TheDay = s + 7 * (found.W - 1) + r
      BY <3>1, <3>2, <3>3
    <3>5. s \in Int
      BY <1>3 DEF s
    <3>6. found.W = IF TheDay < s THEN 0 ELSE (TheDay - s) \div 7 + 1
      BY <1>1, <1>4, <3>4, <3>5, WeekNumber
    <3> QED
      BY <1>2, <3>6 DEF s
  <2>2. CASE ~Has(found, "wd")
    <3>1. found.W = (TheDay - s) \div 7 + 1
      BY <1>6, <1>8, <2>2, LastKnown
    <3>2. s \in Int /\ s - 6 <= TheDay
      BY <1>3
    <3> HIDE DEF s
    <3>3. found.W = IF TheDay < s THEN 0 ELSE (TheDay - s) \div 7 + 1
      BY <1>1, <1>4, <3>1, <3>2, WeekNumber
    <3> QED
      BY <1>2, <3>3 DEF s
  <2> QED
    BY <2>1, <2>2
<1> QED
  BY <1>7, <1>8

LEMMA IsoTrue ==
  ASSUME Dates, ~ByWeek, ~NoSuchWeek(TheDate)
  PROVE  /\ Has(YearsFound, "G") => Writer!IsoYear(TheDate) = YearsFound.G
         /\ Has(found, "V") => found.V = Writer!IsoWeek(TheDate)
<1> DEFINE y == Writer!IsoYear(TheDate)
<1>1. /\ IsDateOf(TheDate, TheDay) /\ TheDay \in Int /\ Near(TheDate.y)
      /\ NewYear(TheDate.y) <= TheDay /\ TheDay < NewYear(TheDate.y + 1)
  BY DateKnown DEF Near, Within, IsDateOf
<1>2. y = IsoTrial(TheDay) /\ Writer!IsoWeek(TheDate) = (TheDay - IsoStart(y)) \div 7 + 1
  BY <1>1, WriterSays DEF IsoTrial
<1>3. /\ y \in Int /\ TheDate.y - 1 <= y /\ y <= TheDate.y + 1
      /\ IsoStart(y) <= TheDay /\ TheDay < IsoStart(y + 1)
  BY <1>1, IsoYearOf
<1>4. AYear(y) /\ IsoStart(y) \in Int
  <2>1. AYear(y)
    BY <1>1, <1>3, DateKnown DEF AYear, Near, Within
  <2> QED
    BY <2>1, IsoStarts
<1>5. CASE Has(YearsFound, "G") /\ Has(found, "V") /\ Has(found, "wd")
  <2> DEFINE n == IsoDay(YearsFound)
             G == YearsFound.G
             V == found.V
             r == weekday_minus(found.wd, 1)
  <2>1. ADay(n) /\ Gives(Iso, from_days(n))
    BY <1>5, IsoKnown
  <2>2. TheDay = n
    <3> HIDE DEF n
    <3> QED
      BY <2>1, AllKept, Fixed DEF ADay
  <2>3. YearsFound.V = found.V /\ YearsFound.wd = found.wd
    BY YearsKnown DEF FieldNames
  <2>4. n = IsoStart(G) + 7 * (V - 1) + r
    BY <2>3 DEF IsoDay
  <2> HIDE DEF n
  <2>5. Within(G, -10000, 9999) /\ Within(V, 0, 99)
    <3>1. Within(V, 0, 100) /\ V # 100
      BY <1>5, YearsKnown DEF Has, not_a
    <3> QED
      BY <1>5, <3>1, YearsKnown DEF Within
  <2>6. /\ r \in 0..6 /\ IsoStart(G) \in Int /\ IsoStart(G + 1) \in Int
        /\ IsoStart(G) + 364 <= IsoStart(G + 1)
    <3>1. found.wd \in Int
      BY <2>3, StagesFull, Numbers DEF Dates
    <3> QED
      BY <2>5, <3>1, IsoDayIs
  <2> HIDE DEF r
  <2>7. V \in Int /\ 0 <= V /\ V <= 99 /\ Near(G) /\ AYear(G)
    BY <2>5 DEF Within, Near, AYear
  <2>8. TheDay = IsoStart(G) + 7 * (V - 1) + r
    BY <2>2, <2>4
  <2> HIDE DEF G, V, y
  <2>9. CASE V \in 1..52
    <3>1. IsoStart(G) <= TheDay /\ TheDay < IsoStart(G + 1)
      BY <2>6, <2>7, <2>8, <2>9
    <3>2. y = G
      BY <1>1, <2>7, <3>1, IsoYearIs DEF y
    <3>3. (TheDay - IsoStart(y)) \div 7 + 1 = V
      BY <2>6, <2>7, <2>8, <3>2
    <3> QED
      BY <1>2, <3>2, <3>3 DEF y, G, V
  <2>10. CASE V \notin 1..52
    <3>1. V = (TheDay - IsoStart(y)) \div 7 + 1
      BY <1>2, <1>5, <2>10 DEF NoSuchWeek, Found, y, V
    <3>2. \E s \in 0..6 : TheDay = IsoStart(y) + 7 * (V - 1) + s
      <4> DEFINE s == (TheDay - IsoStart(y)) % 7
      <4>1. s \in 0..6 /\ TheDay - IsoStart(y) = 7 * ((TheDay - IsoStart(y)) \div 7) + s
        <5>1. \A a \in Int : a % 7 \in 0..6 /\ a = 7 * (a \div 7) + (a % 7)
          OBVIOUS
        <5>2. TheDay - IsoStart(y) \in Int
          BY <1>1, <1>4
        <5> QED
          BY <5>1, <5>2
      <4> HIDE DEF s
      <4>2. TheDay = IsoStart(y) + 7 * (V - 1) + s
        BY <1>1, <1>4, <2>7, <3>1, <4>1
      <4> QED
        BY <4>1, <4>2
    <3>3. IsoStart(y) - IsoStart(G) < 7 /\ IsoStart(G) - IsoStart(y) < 7
      <4>1. PICK s \in 0..6 : TheDay = IsoStart(y) + 7 * (V - 1) + s
        BY <3>2
      <4> QED
        BY <1>1, <1>4, <2>6, <2>7, <2>8, <4>1
    <3>4. ~(y < G)
      <4>1. y < G => IsoStart(y) + 364 <= IsoStart(G)
        BY <1>4, <2>7, IsoStarts
      <4> QED
        BY <1>4, <2>6, <3>3, <4>1
    <3>5. ~(G < y)
      <4>1. G < y => IsoStart(G) + 364 <= IsoStart(y)
        BY <1>4, <2>7, IsoStarts
      <4> QED
        BY <1>4, <2>6, <3>3, <4>1
    <3>6. y = G
      BY <1>4, <2>7, <3>4, <3>5 DEF AYear
    <3> QED
      BY <1>2, <3>1, <3>6 DEF y, G, V
  <2> QED
    BY <2>9, <2>10
<1>6. CASE ~(Has(YearsFound, "G") /\ Has(found, "V") /\ Has(found, "wd"))
  <2>1. ~Days.computed
    <3>1. ~Iso.computed
      BY <1>6, IsoKnown
    <3>2. ~(Has(found, "U") /\ Has(found, "wd")) /\ ~(Has(found, "W") /\ Has(found, "wd"))
      BY DEF ByWeek, Found
    <3>3. WeekU.computed = Iso.computed /\ Dated.computed = WeekU.computed
      BY <3>2, WeekUKnown, DatedKnown
    <3> QED
      BY <3>1, <3>3, DaysKnown
  <2>2. Has(YearsFound, "G") => YearsFound.G = y
    BY <1>2, <2>1, LastKnown
  <2>3. Has(found, "V") => found.V = Quotient(TheDay - IsoStart(y), 7) + 1
    BY <1>2, <2>1, LastKnown
  <2> HIDE DEF y
  <2>4. Quotient(TheDay - IsoStart(y), 7) = (TheDay - IsoStart(y)) \div 7
    BY <1>1, <1>3, <1>4 DEF Quotient
  <2> QED
    BY <1>2, <2>2, <2>3, <2>4 DEF y
<1> QED
  BY <1>5, <1>6

LEMMA IsoYearTrue ==
  ASSUME Dates, ~ByWeek, ~NoSuchWeek(TheDate)
  PROVE  LET y == Writer!IsoYear(TheDate)
         IN  /\ Has(found, "G") => found.G = y
             /\ Has(found, "g") => found.g = Size(y) % 100
             /\ Has(found, "g") /\ Has(found, "C") => found.C = y \div 100
<1> DEFINE y == Writer!IsoYear(TheDate)
<1>1. TrueYear(YearsFound, "g", "G")
  BY YearsKnown
<1>2. Has(YearsFound, "G") => y = YearsFound.G
  BY IsoTrue
<1> HIDE DEF y
<1>3. ASSUME Has(found, "G") PROVE found.G = y
  <2>1. YearsFound.G = found.G
    BY <1>1, <1>3 DEF TrueYear
  <2> QED
    BY <1>2, <1>3, <2>1 DEF Has
<1>4. ASSUME Has(found, "g")
      PROVE  found.g = Size(y) % 100 /\ (Has(found, "C") => found.C = y \div 100)
  <2>1. PICK c \in Int : /\ Within(c, -100, 99) /\ YearsFound.G = JoinYear(c, found.g)
                         /\ Has(found, "C") => c = found.C
    BY <1>1, <1>4 DEF TrueYear
  <2>2. Within(found.g, 0, 99) /\ Has(YearsFound, "G")
    BY <1>1, <1>4 DEF TrueYear
  <2>3. Size(JoinYear(c, found.g)) % 100 = found.g /\ JoinYear(c, found.g) \div 100 = c
    BY <2>1, <2>2, Centuries
  <2> QED
    BY <1>2, <2>1, <2>2, <2>3
<1> QED
  BY <1>3, <1>4 DEF y

LEMMA FoundAgrees == TInv /\ Narrow => FoundIsTrue
<1> SUFFICES ASSUME TInv, Narrow, Accepted,
                    request.kind \in {"year_month_day", "local_time", "sys_time"}
             PROVE  \A f \in {"Y", "y", "C", "m", "d", "j", "wd", "G", "g", "V", "U", "W"} :
                       Found(f) => found[f] = Says(f, got.ymd) \/ NotLookedAt(f, got.ymd)
  BY DEF FoundIsTrue
<1>1. got # Unread /\ ~got.fail /\ got = Outcome /\ ymd_ok(got.ymd)
  BY DEF Accepted, Ended, Accepts, TInv, Results
<1>2. Fitted.ok /\ got.ymd = TheDate
  <2>1. ~(input.fail \/ ~Fitted.ok)
    BY <1>1 DEF Outcome, Nothing
  <2> QED
    BY <1>1, <2>1 DEF Outcome, TheDate
<1>3. Dates
  BY <1>1, <1>2 DEF Dates, TInv, Types, TheDate
<1> DEFINE t == got.ymd
           IsTrue(f) == found[f] = Says(f, t) \/ NotLookedAt(f, t)
<1>4. (Found("Y") => found.Y = t.y) /\ (Found("y") => found.y = Size(t.y) % 100)
  BY <1>2, <1>3, YearTrue DEF Found
<1>5. (Found("m") => found.m = t.m) /\ (Found("d") => found.d = t.d)
  BY <1>2, <1>3, MonthDayTrue DEF Found
<1>6. Found("j") => found.j = Writer!DayOfYear(t) \/ NotLookedAt("j", t)
  BY <1>2, <1>3, DayOfYearTrue DEF Found, NotLookedAt
<1>7. Found("wd") => found.wd = weekday_from_days(to_days(t))
  BY <1>2, <1>3, LastKnown DEF Found, TheDay
<1>8. (Found("U") => found.U = Writer!WeekOfYear(t, 0)) /\ (Found("W") => found.W = Writer!WeekOfYear(t, 1))
  BY <1>2, <1>3, WeeksTrue DEF Found
<1>9. ASSUME ~(ByWeek \/ NoSuchWeek(t))
      PROVE  /\ Found("V") => found.V = Writer!IsoWeek(t)
             /\ Found("G") => found.G = Writer!IsoYear(t)
             /\ Found("g") => found.g = Size(Writer!IsoYear(t)) % 100
             /\ Found("g") /\ Found("C") => found.C = Writer!IsoYear(t) \div 100
  BY <1>2, <1>3, <1>9, IsoTrue, IsoYearTrue DEF Found
<1>10. Found("y") /\ Found("C") => found.C = t.y \div 100
  BY <1>2, <1>3, YearTrue DEF Found
<1> HIDE DEF t
<1>11. \A f \in {"Y", "y", "m", "d", "wd", "U", "W"} : Found(f) => IsTrue(f)
  BY <1>4, <1>5, <1>7, <1>8 DEF Says
<1>12. Found("j") => IsTrue("j")
  BY <1>6 DEF Says
<1>13. \A f \in {"G", "g", "V"} : Found(f) => IsTrue(f)
  BY <1>9 DEF Says, NotLookedAt
<1>14. Found("C") => IsTrue("C")
  BY <1>9, <1>10 DEF Says, NotLookedAt
<1> HIDE DEF IsTrue
<1>15. \A f \in {"Y", "y", "C", "m", "d", "j", "wd", "G", "g", "V", "U", "W"} : Found(f) => IsTrue(f)
  BY <1>11, <1>12, <1>13, <1>14
<1> QED
  BY <1>15 DEF IsTrue, t

-----------------------------------------------------------------------------
(* A format that gives no width has no number that is longer than the       *)
(* field it is read for.                                                    *)

Unwidened == \A i \in 1..Len(fmt) : ~IsDigit(fmt[i])
Small(f, x) ==
    /\ f \in {"Y", "G"} => Within(x, -9999, 9999) \/ x = not_a[f]
    /\ f = "C" => Within(x, -99, 99) \/ x = not_a.C
    /\ f \in {"m", "d"} => Within(x, -99, 99)
    /\ f \in {"U", "V", "W"} => Within(x, 0, 100)
Slim(fd) == DOMAIN fd = FieldNames /\ \A f \in FieldNames : Small(f, fd[f])
Slender == width = -1 /\ Slim(found)

LEMMA SlimIsNarrow == Slim(found) => Narrow
BY DEF Slim, Small, Narrow, FieldNames

LEMMA NothingSlim == Slim(not_a)
BY DEF Slim, Small, FieldNames, not_a, Within

LEMMA ReadBelow ==
  ASSUME NEW st, NEW m
  PROVE  /\ Within(read_unsigned(st, m, 2).x, 0, 99)
         /\ Within(read_unsigned(st, m, 4).x, 0, 9999)
<1>1. ASSUME NEW M \in {2, 4}, NEW b, IF M = 2 THEN b = 99 ELSE b = 9999
      PROVE  Within(read_unsigned(st, m, M).x, 0, b)
  <2> DEFINE p == Prefix(st, IsDigit, Limit(M))
  <2>1. Len(p) \in Nat /\ Len(p) <= M /\ \A i \in 1..Len(p) : IsDigit(p[i])
    <3>1. Limit(M) = M /\ M \in Nat
      BY DEF Limit
    <3> QED
      BY <3>1, DigitsInFront
  <2> HIDE DEF p
  <2>2. Number(p) \in Nat /\ (Len(p) <= 2 => Number(p) <= 99) /\ (Len(p) <= 4 => Number(p) <= 9999)
    BY <2>1, NumberType, NumberBelow
  <2>3. Within(Number(p), 0, b)
    BY <1>1, <2>1, <2>2 DEF Within
  <2>4. Within(0, 0, b)
    BY <1>1 DEF Within
  <2>5. AsInt(Number(p)) = Number(p)
    <3>1. ASSUME NEW k, Within(k, 0, b) PROVE Within(k, -9999, 9999) /\ k \in Int
      <4>1. b \in {99, 9999}
        BY <1>1
      <4> QED
        BY <3>1, <4>1 DEF Within
    <3> QED
      BY <2>3, <3>1, IntType
  <2>6. read_unsigned(st, m, M).x \in {0, AsInt(Number(p))}
    BY DEF read_unsigned, p
  <2> QED
    BY <2>3, <2>4, <2>5, <2>6
<1> QED
  BY <1>1

LEMMA SignedBelow ==
  ASSUME NEW st, NEW m
  PROVE  /\ Within(read_signed(st, m, 2).x, -99, 99)
         /\ Within(read_signed(st, m, 4).x, -9999, 9999)
<1>1. ASSUME NEW M \in {2, 4}, NEW b, IF M = 2 THEN b = 99 ELSE b = 9999
      PROVE  Within(read_signed(st, m, M).x, -b, b)
  <2> DEFINE r == read_unsigned(IF IsDigit(Head(st.rest)) THEN st ELSE Drop(st, 1), m, M)
  <2>1. Within(r.x, 0, b)
    BY <1>1, ReadBelow
  <2>2. r = [st |-> r.st, x |-> r.x]
    BY DEF read_unsigned
  <2>3. read_signed(st, m, M).x \in {0, r.x, AsInt(-r.x)}
    <3> HIDE DEF r
    <3> QED
      BY <2>2 DEF read_signed, r
  <2>4. ASSUME NEW k, Within(k, 0, b)
        PROVE  Within(0, -b, b) /\ Within(k, -b, b) /\ Within(AsInt(-k), -b, b)
    <3>1. b \in {99, 9999}
      BY <1>1
    <3>2. Within(0, -b, b) /\ Within(k, -b, b) /\ Within(-k, -b, b)
          /\ Within(-k, -9999, 9999) /\ -k \in Int
      BY <2>4, <3>1 DEF Within
    <3> QED
      BY <3>2, IntType
  <2> HIDE DEF r
  <2> QED
    BY <2>1, <2>3, <2>4
<1> QED
  BY <1>1

LEMMA FacetBelow ==
  ASSUME NEW range
  PROVE  Within(facet(2, range).x, 0, 99) /\ Within(facet(4, range).x, 0, 9999)
<1>1. ASSUME NEW n PROVE facet(n, range).x = read_unsigned(input, 1, n).x
  <2> DEFINE r == read_unsigned(input, 1, n)
  <2>1. r = [st |-> r.st, x |-> r.x]
    BY DEF read_unsigned
  <2> HIDE DEF r
  <2> QED
    BY <2>1 DEF facet, FailUnless, r
<1> QED
  BY <1>1, ReadBelow

LEMMA MonthBelow == Within(read_name(Months).x, 0, 11)
<1> DEFINE i == CHOOSE i \in 1..Len(Months) : Months[i] = Head(input.rest)
<1>1. Len(Months) = 12 /\ DOMAIN Months = 1..12
  BY DEF Months
<1>2. CASE Head(input.rest) \in Range(Months)
  <2>1. i \in 1..12
    BY <1>1, <1>2 DEF Range
  <2>2. read_name(Months).x \in {0, i - 1}
    BY DEF read_name
  <2> HIDE DEF i
  <2> QED
    BY <2>1, <2>2 DEF Within
<1>3. CASE Head(input.rest) \notin Range(Months)
  BY <1>3 DEF read_name, Within
<1> QED
  BY <1>2, <1>3

LEMMA SetSlim ==
  ASSUME NEW fd, Slim(fd), NEW f \in FieldNames, NEW x, NEW st, Small(f, x)
  PROVE  Slim(checked_set(fd, f, x, not_a, st).fd)
<1>1. CASE checked_set(fd, f, x, not_a, st).fd = fd
  BY <1>1
<1>2. CASE checked_set(fd, f, x, not_a, st).fd = [fd EXCEPT ![f] = x]
  <2> DEFINE new == [fd EXCEPT ![f] = x]
  <2>1. DOMAIN new = FieldNames /\ \A g \in FieldNames : new[g] = IF g = f THEN x ELSE fd[g]
    BY DEF Slim
  <2> HIDE DEF new
  <2>2. \A g \in FieldNames : Small(g, new[g])
    BY <2>1 DEF Slim
  <2> QED
    BY <1>2, <2>1, <2>2 DEF Slim, new
<1> QED
  BY <1>1, <1>2 DEF checked_set

LEMMA SlimOne ==
  ASSUME Slender, NEW f \in FieldNames, NEW r, Small(f, r.x)
  PROVE  Slim(Set(f, r).fd)
BY SetSlim DEF Set, Slender

LEMMA SlimNext ==
  ASSUME NEW s, Slim(s.fd), NEW f \in FieldNames, NEW x, Small(f, x)
  PROVE  Slim(AndSet(s, f, x).fd)
BY SetSlim DEF AndSet

LEMMA ReadsSlim ==
  ASSUME Slender, NEW chars, NEW mods, NEW s, Slim(s.fd), Reads(chars, mods, s)
  PROVE  Slender'
<1>1. found' = s.fd /\ width' = -1
  BY DEF Reads, EndCommand
<1> QED
  BY <1>1 DEF Slender

LEMMA NoWidth == ASSUME Slender, NEW n PROVE Width(n) = n
BY DEF Slender, Width

-----------------------------------------------------------------------------
(* One step per conversion                                                  *)

\* Those that set no field of a date but its weekday and the day of the year.
LEMMA SlimTimes ==
  ASSUME Slender, \/ Get_aA \/ Get_uw \/ Get_H \/ Get_I \/ Get_j \/ Get_M \/ Get_p \/ Get_R \/ Get_S
                  \/ Get_T \/ Get_g \/ Get_z \/ Get_Z
  PROVE  Slender'
<1> DEFINE Free == {"wd", "H", "I", "j", "M", "p", "s", "g", "z", "Z"}
<1>1. \A f \in Free : f \in FieldNames /\ \A x : Small(f, x)
  BY DEF FieldNames, Small
<1>2. ASSUME NEW f \in Free, NEW r PROVE Slim(Set(f, r).fd)
  BY <1>1, SlimOne
<1>3. ASSUME NEW s, Slim(s.fd), NEW f \in Free, NEW x PROVE Slim(AndSet(s, f, x).fd)
  BY <1>1, <1>3, SlimNext
<1>4. Get_aA => Slender'
  BY <1>2, ReadsSlim DEF Get_aA
<1>5. Get_uw => Slender'
  BY <1>2, ReadsSlim DEF Get_uw
<1>6. Get_H => Slender'
  BY <1>2, ReadsSlim DEF Get_H
<1>7. Get_I => Slender'
  BY <1>2, ReadsSlim DEF Get_I
<1>8. Get_j => Slender'
  BY <1>2, ReadsSlim DEF Get_j
<1>9. Get_M => Slender'
  BY <1>2, ReadsSlim DEF Get_M
<1>10. Get_p => Slender'
  BY <1>2, ReadsSlim DEF Get_p
<1>11. Get_R => Slender'
  BY <1>2, <1>3, ReadsSlim DEF Get_R
<1>12. Get_S => Slender'
  BY <1>2, ReadsSlim DEF Get_S
<1>13. Get_T => Slender'
  BY <1>2, <1>3, ReadsSlim DEF Get_T
<1>14. Get_g => Slender'
  BY <1>2, ReadsSlim DEF Get_g
<1>15. Get_z => Slender'
  BY <1>2, ReadsSlim DEF Get_z
<1>16. Get_Z => Slender'
  BY <1>2, ReadsSlim DEF Get_Z
<1> QED
  BY <1>4, <1>5, <1>6, <1>7, <1>8, <1>9, <1>10, <1>11, <1>12, <1>13, <1>14, <1>15, <1>16

\* Small enough are two digits for a century, a month, a day and a week, and
\* four for a year.
LEMMA SmallEnough ==
  ASSUME NEW x
  PROVE  /\ Within(x, -99, 99) => Small("C", x) /\ Small("m", x) /\ Small("d", x)
         /\ Within(x, -9999, 9999) => Small("Y", x) /\ Small("G", x)
         /\ Within(x, 0, 99) => Small("U", x) /\ Small("V", x) /\ Small("W", x) /\ Within(x, -99, 99)
         /\ Within(x, 0, 9999) => Within(x, -9999, 9999)
         /\ Small("y", x)
BY DEF Small, Within

LEMMA SlimNumbers ==
  ASSUME Slender, Get_C \/ Get_de \/ Get_m \/ Get_Y \/ Get_G \/ Get_U \/ Get_V \/ Get_W
  PROVE  Slender'
<1>1. Width(2) = 2 /\ Width(4) = 4
  BY NoWidth
<1>2. ASSUME NEW range PROVE Within(facet(2, range).x, -99, 99) /\ Within(facet(4, range).x, -9999, 9999)
  BY FacetBelow, SmallEnough
<1>3. ASSUME NEW f \in {"C", "m", "d"}, NEW range
      PROVE  Slim(Set(f, IF modified = "" THEN read_signed(input, 1, Width(2)) ELSE facet(2, range)).fd)
  <2> DEFINE a == read_signed(input, 1, Width(2))
             b == facet(2, range)
             r == IF modified = "" THEN a ELSE b
  <2>1. Within(a.x, -99, 99) /\ Within(b.x, -99, 99)
    BY <1>1, <1>2, SignedBelow
  <2> HIDE DEF a, b
  <2>2. Within(r.x, -99, 99)
    BY <2>1
  <2> HIDE DEF r
  <2>3. Small(f, r.x) /\ f \in FieldNames
    BY <2>2, SmallEnough DEF FieldNames
  <2> QED
    BY <2>3, SlimOne DEF r, a, b
<1>4. Get_C => Slender'
  BY <1>3, ReadsSlim DEF Get_C
<1>5. Get_de => Slender'
  BY <1>3, ReadsSlim DEF Get_de
<1>6. Get_m => Slender'
  BY <1>3, ReadsSlim DEF Get_m
<1>7. Get_Y => Slender'
  <2> DEFINE a == read_signed(input, 1, Width(4))
             b == facet(4, FacetYears)
             r == IF modified = "" THEN a ELSE b
  <2>1. Within(a.x, -9999, 9999) /\ Within(b.x, -9999, 9999)
    BY <1>1, <1>2, SignedBelow
  <2> HIDE DEF a, b
  <2>2. Within(r.x, -9999, 9999)
    <3>1. r = a \/ r = b
      OBVIOUS
    <3> HIDE DEF r
    <3> QED
      BY <2>1, <3>1
  <2> HIDE DEF r
  <2>3. Small("Y", r.x) /\ "Y" \in FieldNames
    BY <2>2, SmallEnough DEF FieldNames
  <2>4. Slim(Set("Y", r).fd)
    BY <2>3, SlimOne
  <2> QED
    BY <2>4, ReadsSlim DEF Get_Y, r, a, b
<1>8. Get_G => Slender'
  <2>1. Slim(Set("G", read_signed(input, 1, Width(4))).fd)
    BY <1>1, SignedBelow, SmallEnough, SlimOne DEF FieldNames
  <2> QED
    BY <2>1, ReadsSlim DEF Get_G
<1>9. ASSUME NEW f \in {"U", "V", "W"} PROVE Slim(Set(f, read_unsigned(input, 1, Width(2))).fd)
  BY <1>1, ReadBelow, SmallEnough, SlimOne DEF FieldNames
<1>10. Get_U => Slender'
  BY <1>9, ReadsSlim DEF Get_U
<1>11. Get_V => Slender'
  BY <1>9, ReadsSlim DEF Get_V
<1>12. Get_W => Slender'
  BY <1>9, ReadsSlim DEF Get_W
<1> QED
  BY <1>4, <1>5, <1>6, <1>7, <1>8, <1>10, <1>11, <1>12

LEMMA Slim_bBh == ASSUME Slender, Get_bBh PROVE Slender'
<1> DEFINE r == read_name(Months)
           u == [r EXCEPT !.x = @ + 1]
<1>1. r = [st |-> r.st, x |-> r.x] /\ Within(r.x, 0, 11)
  BY MonthBelow DEF read_name
<1> HIDE DEF r
<1>2. Within(u.x, -99, 99)
  BY <1>1 DEF Within
<1> HIDE DEF u
<1>3. Slim(Set("m", u).fd)
  BY <1>2, SmallEnough, SlimOne DEF FieldNames
<1> QED
  BY <1>3, ReadsSlim DEF Get_bBh, u, r

\* %Ey and %Oy set the whole year.
LEMMA Slim_y == ASSUME Slender, Get_y PROVE Slender'
<1> DEFINE r == facet(2, 0..99)
           full == [r EXCEPT !.x = @ + (IF @ >= 69 THEN 1900 ELSE 2000)]
           two == read_unsigned(input, 1, Width(2))
           s == IF modified = "" THEN Set("y", two) ELSE Set("Y", full)
<1>1. r = [st |-> r.st, x |-> r.x] /\ Within(r.x, 0, 99)
  <2>1. r = [st |-> r.st, x |-> r.x]
    BY DEF facet, FailUnless, read_unsigned
  <2> QED
    BY <2>1, FacetBelow
<1> HIDE DEF r
<1>2. Within(full.x, -9999, 9999)
  BY <1>1 DEF Within
<1> HIDE DEF full, two
<1>3. Slim(Set("y", two).fd) /\ Slim(Set("Y", full).fd)
  BY <1>2, SmallEnough, SlimOne DEF FieldNames
<1>4. Slim(s.fd)
  BY <1>3
<1>5. Reads({"y"}, {"", "E", "O"}, s)
  BY DEF Get_y, s, full, two, r
<1> HIDE DEF s
<1> QED
  BY <1>4, <1>5, ReadsSlim

LEMMA Slim_D == ASSUME Slender, Get_D PROVE Slender'
<1> DEFINE m == read_unsigned(input, 1, 2)
           d == Next2(m.st, "/", 2)
           y == read_signed(read_char(d.st, "/"), 1, 2)
           one == Set("y", y)
           two == AndSet(one, "m", m.x)
           s == AndSet(two, "d", d.x)
<1>1. Within(m.x, -99, 99) /\ Within(d.x, -99, 99)
  BY ReadBelow, SmallEnough DEF Next2
<1> HIDE DEF m, d, y
<1>2. Slim(one.fd)
  BY SmallEnough, SlimOne DEF FieldNames
<1> HIDE DEF one
<1>3. Slim(two.fd)
  BY <1>1, <1>2, SmallEnough, SlimNext DEF FieldNames
<1> HIDE DEF two
<1>4. Slim(s.fd)
  BY <1>1, <1>3, SmallEnough, SlimNext DEF FieldNames
<1> HIDE DEF s
<1> QED
  BY <1>4, ReadsSlim DEF Get_D, s, two, one, y, d, m

LEMMA Slim_F == ASSUME Slender, Get_F PROVE Slender'
<1> DEFINE y == read_signed(input, 1, Width(4))
           m == Next2(y.st, "-", 2)
           d == Next2(m.st, "-", 2)
           r == [st |-> d.st, x |-> y.x]
           one == Set("Y", r)
           two == AndSet(one, "m", m.x)
           s == AndSet(two, "d", d.x)
<1>1. Within(m.x, -99, 99) /\ Within(d.x, -99, 99) /\ Within(r.x, -9999, 9999)
  BY ReadBelow, SignedBelow, NoWidth, SmallEnough DEF Next2
<1> HIDE DEF m, d, r
<1>2. Slim(one.fd)
  BY <1>1, SmallEnough, SlimOne DEF FieldNames
<1> HIDE DEF one
<1>3. Slim(two.fd)
  BY <1>1, <1>2, SmallEnough, SlimNext DEF FieldNames
<1> HIDE DEF two
<1>4. Slim(s.fd)
  BY <1>1, <1>3, SmallEnough, SlimNext DEF FieldNames
<1> HIDE DEF s
<1> QED
  BY <1>4, ReadsSlim DEF Get_F, s, two, one, r, d, m

\* The other rounds of the loop find nothing, and none of them finds a width.
LEMMA SlimOthers ==
  ASSUME Slender, Types, Unwidened,
         \/ Get_nt \/ Get_EO \/ Get_percent \/ Get_modified \/ Get_plain \/ Get_unknown
         \/ Get_literal \/ Get_end \/ Get_fields \/ Get_width
  PROVE  Slender'
<1>1. ~Get_width
  <2>1. SUFFICES ASSUME Get_width PROVE FALSE
    OBVIOUS
  <2>2. at <= Len(fmt) /\ IsDigit(fmt[at])
    BY <2>1 DEF Get_width, Other, Char
  <2>3. at \in 1..Len(fmt)
    BY <2>2 DEF Types
  <2> QED
    BY <2>2, <2>3 DEF Unwidened
<1>2. found' = found /\ width' \in {width, -1}
  BY <1>1 DEF Get_nt, Get_EO, Get_percent, Get_modified, Unmodifiable, Get_plain, Plain, Get_unknown,
              Get_literal, Get_end, Get_fields, EndCommand, Advance
<1> QED
  BY <1>2 DEF Slender

LEMMA SlimStep == ASSUME Slender, Types, Unwidened, from_stream PROVE Slender'
BY SlimTimes, SlimNumbers, Slim_bBh, Slim_y, Slim_D, Slim_F, SlimOthers DEF from_stream

LEMMA FormatStays == from_stream => fmt' = fmt
<1>1. \A chars, mods, s : Reads(chars, mods, s) => fmt' = fmt
  BY DEF Reads, Advance
<1> USE <1>1 DEF Advance
<1>2. Get_aA \/ Get_uw \/ Get_bBh \/ Get_C \/ Get_D \/ Get_F \/ Get_de \/ Get_H \/ Get_I => fmt' = fmt
  BY DEF Get_aA, Get_uw, Get_bBh, Get_C, Get_D, Get_F, Get_de, Get_H, Get_I
<1>3. Get_j \/ Get_M \/ Get_m \/ Get_p \/ Get_R \/ Get_S \/ Get_T \/ Get_Y => fmt' = fmt
  BY DEF Get_j, Get_M, Get_m, Get_p, Get_R, Get_S, Get_T, Get_Y
<1>4. Get_g \/ Get_G \/ Get_U \/ Get_V \/ Get_W \/ Get_z \/ Get_Z => fmt' = fmt
  BY DEF Get_g, Get_G, Get_U, Get_V, Get_W, Get_z, Get_Z
<1>5. \/ Get_nt \/ Get_EO \/ Get_percent \/ Get_modified \/ Get_plain \/ Get_width
      \/ Get_unknown \/ Get_literal \/ Get_end \/ Get_fields
      => fmt' = fmt
  BY DEF Get_nt, Get_EO, Get_percent, Get_modified, Unmodifiable, Get_plain, Plain, Get_width,
         Get_unknown, Get_literal, Get_end, Get_fields
<1>6. ASSUME Get_y PROVE fmt' = fmt
  <2> DEFINE r == facet(2, 0..99)
             s == IF modified = "" THEN Set("y", read_unsigned(input, 1, Width(2)))
                  ELSE Set("Y", [r EXCEPT !.x = @ + (IF @ >= 69 THEN 1900 ELSE 2000)])
  <2>1. Reads({"y"}, {"", "E", "O"}, s)
    BY <1>6 DEF Get_y
  <2> HIDE DEF s
  <2> QED
    BY <2>1
<1> QED
  BY <1>2, <1>3, <1>4, <1>5, <1>6 DEF from_stream

\* What has been found stays narrow as long as the format has no width.
NarrowInv == Unwidened => Slender

LEMMA NarrowInit == Init => NarrowInv
BY NothingSlim DEF Init, NarrowInv, Slender

LEMMA NarrowNext == TInv /\ NarrowInv /\ [Next]_vars => NarrowInv'
<1> SUFFICES ASSUME TInv, NarrowInv, [Next]_vars, Unwidened' PROVE Slender'
  BY DEF NarrowInv
<1>1. CASE Write
  <2>1. fmt' = fmt /\ width' = width /\ found' = found
    BY <1>1, Written DEF Write
  <2> QED
    BY <2>1 DEF NarrowInv, Slender, Unwidened
<1>2. CASE Sent \/ Slip \/ Begin \/ Received \/ Rewritten \/ Done \/ UNCHANGED vars
  <2>1. fmt' = fmt /\ width' \in {width, -1} /\ found' = found
    BY <1>2 DEF Sent, Slip, Begin, Received, Rewritten, Done, vars
  <2> QED
    BY <2>1 DEF NarrowInv, Slender, Unwidened
<1>3. CASE Read
  <2>1. from_stream /\ fmt' = fmt
    BY <1>3, FormatStays DEF Read
  <2>2. Unwidened /\ Slender /\ Types
    BY <2>1 DEF NarrowInv, Unwidened, TInv
  <2> QED
    BY <2>1, <2>2, SlimStep
<1> QED
  BY <1>1, <1>2, <1>3 DEF Next

-----------------------------------------------------------------------------
(* Streams                                                                 *)

Sequence(s) == \E S : s \in Seq(S)

\* The ends of the text, and a stream that has one of them left.
Ends == {SubSeq(text, n + 1, Len(text)) : n \in 0..Len(text)}
Left(st) == st \in [rest : Ends, fail : BOOLEAN, eof : BOOLEAN]

LEMMA EndOf ==
  ASSUME Sequence(text), NEW s \in Ends
  PROVE  /\ \E S : s \in Seq(S)
         /\ Len(s) \in Nat /\ Len(s) <= Len(text)
         /\ \A i \in 1..Len(s) : s[i] = text[Len(text) - Len(s) + i]
         /\ \A n \in Nat : SubSeq(s, n + 1, Len(s)) \in Ends
<1>1. PICK S : text \in Seq(S)
  BY DEF Sequence
<1>2. PICK a \in 0..Len(text) : s = SubSeq(text, a + 1, Len(text))
  BY DEF Ends
<1> DEFINE L == Len(text)
<1>3. L \in Nat
  BY <1>1
<1>4. \A k \in (a + 1)..L : text[k] \in S
  BY <1>1
<1>5. s \in Seq(S) /\ Len(s) = L - a /\ \A i \in 1..(L - a) : s[i] = text[a + i]
  <2>1. /\ SubSeq(text, a + 1, L) \in Seq(S)
        /\ Len(SubSeq(text, a + 1, L)) = IF a + 1 <= L THEN L - (a + 1) + 1 ELSE 0
        /\ \A i \in 1..(L - (a + 1) + 1) : SubSeq(text, a + 1, L)[i] = text[a + 1 + i - 1]
    BY <1>3, <1>4, SubSeqProperties
  <2>2. (IF a + 1 <= L THEN L - (a + 1) + 1 ELSE 0) = L - a /\ L - (a + 1) + 1 = L - a
    BY <1>3
  <2>3. \A i \in 1..(L - a) : a + 1 + i - 1 = a + i
    BY <1>3
  <2> HIDE DEF L
  <2> QED
    BY <1>2, <2>1, <2>2, <2>3 DEF L
<1>6. ASSUME NEW n \in Nat PROVE SubSeq(s, n + 1, Len(s)) \in Ends
  <2> DEFINE b == IF a + n <= L THEN a + n ELSE L
             u == SubSeq(s, n + 1, L - a)
             v == SubSeq(text, b + 1, L)
  <2>1. b \in 0..L /\ L - b \in Nat
    BY <1>3
  <2>2. v \in Seq(S) /\ Len(v) = L - b /\ \A i \in 1..(L - b) : v[i] = text[b + i]
    <3>1. \A k \in (b + 1)..L : text[k] \in S
      BY <1>1, <2>1
    <3> HIDE DEF b
    <3>2. /\ v \in Seq(S)
          /\ Len(v) = IF b + 1 <= L THEN L - (b + 1) + 1 ELSE 0
          /\ \A i \in 1..(L - (b + 1) + 1) : v[i] = text[b + 1 + i - 1]
      BY <1>3, <2>1, <3>1, SubSeqProperties
    <3>3. (IF b + 1 <= L THEN L - (b + 1) + 1 ELSE 0) = L - b /\ L - (b + 1) + 1 = L - b
      BY <1>3, <2>1
    <3>4. \A i \in 1..(L - b) : b + 1 + i - 1 = b + i
      BY <1>3, <2>1
    <3> HIDE DEF v, L
    <3> QED
      BY <3>2, <3>3, <3>4
  <2>3. u \in Seq(S) /\ Len(u) = L - b /\ \A i \in 1..(L - b) : u[i] = s[n + i]
    <3>1. \A k \in (n + 1)..(L - a) : s[k] \in S
      BY <1>3, <1>5
    <3>2. /\ u \in Seq(S)
          /\ Len(u) = IF n + 1 <= L - a THEN (L - a) - (n + 1) + 1 ELSE 0
          /\ \A i \in 1..((L - a) - (n + 1) + 1) : u[i] = s[n + 1 + i - 1]
      BY <1>3, <3>1, SubSeqProperties
    <3>3. (IF n + 1 <= L - a THEN (L - a) - (n + 1) + 1 ELSE 0) = L - b
      <4>1. ASSUME NEW l \in Nat, NEW x \in 0..l
            PROVE  (IF n + 1 <= l - x THEN (l - x) - (n + 1) + 1 ELSE 0) = l - (IF x + n <= l THEN x + n ELSE l)
        <5>1. CASE x + n = l
          BY <5>1
        <5>2. CASE x + n < l
          BY <5>2
        <5>3. CASE x + n > l
          BY <5>3
        <5> QED
          BY <5>1, <5>2, <5>3
      <4> HIDE DEF L
      <4> QED
        BY <1>3, <4>1 DEF L
    <3>4. ASSUME NEW i \in 1..(L - b) PROVE i \in 1..((L - a) - (n + 1) + 1) /\ n + 1 + i - 1 = n + i
      <4>1. i \in Int /\ 1 <= i /\ i <= L - b /\ (b = a + n \/ b = L)
        BY <1>3
      <4> HIDE DEF b, L
      <4>2. b = a + n
        BY <1>3, <2>1, <4>1 DEF L
      <4> QED
        BY <1>3, <4>1, <4>2 DEF L
    <3> HIDE DEF u, L, b
    <3> QED
      BY <3>2, <3>3, <3>4
  <2>4. \A i \in 1..(L - b) : u[i] = v[i]
    <3>1. ASSUME NEW i \in 1..(L - b) PROVE n + i \in 1..(L - a) /\ a + (n + i) = b + i
      BY <1>3
    <3> HIDE DEF u, v, L, b
    <3> QED
      BY <1>5, <2>2, <2>3, <3>1
  <2>5. u = v
    <3> HIDE DEF u, v, b
    <3> QED
      BY <2>2, <2>3, <2>4, SeqEqual
  <2>6. v \in Ends
    <3> HIDE DEF b
    <3> QED
      BY <2>1 DEF Ends
  <2> QED
    BY <1>5, <2>5, <2>6
<1>7. Len(s) \in Nat /\ Len(s) <= L /\ \A i \in 1..Len(s) : s[i] = text[L - Len(s) + i]
  <2>1. Len(s) = L - a /\ L - a \in Nat /\ L - a <= L /\ L - (L - a) = a
    BY <1>3, <1>5
  <2> HIDE DEF L
  <2> QED
    BY <1>5, <2>1
<1> QED
  BY <1>5, <1>6, <1>7

LEMMA LeftSame ==
  ASSUME NEW st, Left(st)
  PROVE  /\ st.rest \in Ends /\ st.fail \in BOOLEAN /\ st.eof \in BOOLEAN
         /\ Left(Failed(st)) /\ Left(Peeked(st))
         /\ Left([st EXCEPT !.fail = TRUE, !.eof = TRUE])
<1>1. st = [rest |-> st.rest, fail |-> st.fail, eof |-> st.eof]
      /\ st.rest \in Ends /\ st.fail \in BOOLEAN /\ st.eof \in BOOLEAN
  BY DEF Left
<1> QED
  BY <1>1 DEF Left, Failed, Peeked

LEMMA LeftDrop ==
  ASSUME Sequence(text), NEW st, Left(st), NEW n \in Nat
  PROVE  Left(Drop(st, n))
<1>1. st = [rest |-> st.rest, fail |-> st.fail, eof |-> st.eof]
      /\ st.rest \in Ends /\ st.fail \in BOOLEAN /\ st.eof \in BOOLEAN
  BY DEF Left
<1> DEFINE r == SubSeq(st.rest, n + 1, Len(st.rest))
<1>2. r \in Ends
  BY <1>1, EndOf
<1>3. Drop(st, n) = [st EXCEPT !.rest = r]
  BY DEF Drop
<1> HIDE DEF r
<1> QED
  BY <1>1, <1>2, <1>3 DEF Left

LEMMA LeftChar ==
  ASSUME Sequence(text), NEW st, Left(st), NEW c
  PROVE  Left(read_char(st, c))
<1>1. Left(Drop(st, 1))
  BY LeftDrop
<1> QED
  BY <1>1, LeftSame DEF read_char

LEMMA LeftChars ==
  ASSUME Sequence(text), NEW st, Left(st), NEW cs, Sequence(cs)
  PROVE  Left(read_chars(st, cs))
<1> DEFINE N == Len(cs)
           Streams == [rest : Ends, fail : BOOLEAN, eof : BOOLEAN]
           Body(f) == [n \in 0..N |-> IF n = 0 THEN st ELSE read_char(f[n - 1], cs[n])]
           upTo == CHOOSE f : f = Body(f)
           G == [n \in 1..N |-> [x \in Streams |-> read_char(x, cs[n])]]
<1>0. N \in Nat /\ st \in Streams
  BY DEF Sequence, Left
<1>1. \A x \in Streams : \A n \in 1..N : read_char(x, cs[n]) \in Streams
  BY LeftChar DEF Left
<1> HIDE DEF N, Streams
<1>2. PICK f \in [0..N -> Streams] : f[0] = st /\ \A n \in 1..N : f[n] = G[n][f[n - 1]]
  <2>1. G \in [1..N -> [Streams -> Streams]]
    BY <1>1
  <2> HIDE DEF G
  <2>2. Iterable(N, Streams, st, G)
    BY <1>0, <2>1, Iterates
  <2> QED
    BY <2>2 DEF Iterable
<1>3. f = Body(f)
  <2>1. \A n \in 0..N : f[n] = IF n = 0 THEN st ELSE read_char(f[n - 1], cs[n])
    <3>1. ASSUME NEW n \in 1..N PROVE f[n - 1] \in Streams /\ G[n][f[n - 1]] = read_char(f[n - 1], cs[n])
      <4>1. n - 1 \in 0..N
        BY <1>0
      <4>2. f[n - 1] \in Streams
        BY <4>1
      <4> QED
        BY <4>2
    <3> HIDE DEF G
    <3>2. ASSUME NEW n \in 1..N PROVE f[n] = read_char(f[n - 1], cs[n]) /\ n # 0
      BY <1>0, <1>2, <3>1
    <3> QED
      BY <1>0, <1>2, <3>2
  <2> QED
    BY <2>1
<1>4. upTo = Body(upTo)
  BY <1>3
<1> HIDE DEF upTo
<1>5. upTo[0] = st /\ \A n \in 1..N : upTo[n] = read_char(upTo[n - 1], cs[n])
  BY <1>0, <1>4
<1> DEFINE P == {n \in 0..N : upTo[n] \in Streams}
<1>6. \A n \in 0..N : n \in P
  <2>1. 0 \in P /\ \A n \in 1..N : n - 1 \in P => n \in P
    BY <1>0, <1>1, <1>5
  <2> HIDE DEF P
  <2> QED
    BY <1>0, <2>1, UpTo
<1>7. read_chars(st, cs) = upTo[N]
  BY DEF read_chars, upTo, N
<1>8. upTo[N] \in Streams
  BY <1>0, <1>6
<1> QED
  BY <1>7, <1>8 DEF Left, Streams

LEMMA LeftAfter ==
  ASSUME Sequence(text), NEW st, Left(st), NEW n \in Nat, NEW m, NEW M
  PROVE  Left(After(st, n, m, M))
<1> DEFINE rest == Drop(st, n)
           seen == IF n < Limit(M) THEN Peeked(rest) ELSE rest
<1>1. Left(rest)
  BY LeftDrop
<1> HIDE DEF rest
<1>2. Left(seen)
  BY <1>1, LeftSame
<1>3. After(st, n, m, M) = IF n < m THEN Failed(seen) ELSE seen
  BY DEF After, rest
<1> HIDE DEF seen
<1> QED
  BY <1>2, <1>3, LeftSame

LEMMA LeftUnsigned ==
  ASSUME Sequence(text), NEW st, Left(st), NEW m, NEW M \in Nat
  PROVE  Left(read_unsigned(st, m, M).st)
<1> DEFINE p == Prefix(st, IsDigit, Limit(M))
<1>1. Len(p) \in Nat
  BY LimitType, DigitsInFront
<1>2. read_unsigned(st, m, M).st \in {st, After(st, Len(p), m, M)}
  BY DEF read_unsigned
<1> HIDE DEF p
<1> QED
  BY <1>1, <1>2, LeftAfter

LEMMA LeftSigned ==
  ASSUME Sequence(text), NEW st, Left(st), NEW m, NEW M \in Nat
  PROVE  Left(read_signed(st, m, M).st)
<1> DEFINE from == IF IsDigit(Head(st.rest)) THEN st ELSE Drop(st, 1)
           r == read_unsigned(from, m, M)
<1>1. Left(from)
  BY LeftDrop
<1> HIDE DEF from
<1>2. Left(r.st)
  BY <1>1, LeftUnsigned
<1>3. r = [st |-> r.st, x |-> r.x]
  BY DEF read_unsigned
<1>4. read_signed(st, m, M).st \in {st, Failed(Peeked(st)), r.st}
  <2> HIDE DEF r
  <2> QED
    BY <1>3 DEF read_signed, r, from
<1>5. Left(Failed(Peeked(st)))
  <2>1. Left(Peeked(st))
    BY LeftSame
  <2> HIDE DEF r
  <2> QED
    BY <2>1, LeftSame
<1> HIDE DEF r
<1> QED
  BY <1>2, <1>4, <1>5

LEMMA LeftSeconds ==
  ASSUME Sequence(text), NEW st, Left(st), NEW w, NEW M \in Nat
  PROVE  Left(read_seconds(st, w, M).st)
<1> DEFINE p == Prefix(st, LAMBDA c : IsDigit(c) \/ c = ".", Limit(M))
           points == {i \in 1..Len(p) : p[i] = "."}
           dot == Min(points \cup {Len(p) + 1})
           rest == (points \ {dot}) \cup {Len(p) + 1}
           n == Min(rest) - 1
<1>1. Len(p) \in Nat
  BY LimitType, SecondsInFront
<1>2. read_seconds(st, w, M).st \in {st, After(st, n, 1, M)}
  BY DEF read_seconds
<1> HIDE DEF p
<1>3. rest \in SUBSET (Nat \ {0}) /\ rest # {}
  <2> HIDE DEF dot
  <2> QED
    BY <1>1
<1>4. Min(rest) \in Nat \ {0}
  <2> HIDE DEF rest
  <2> QED
    BY <1>3, LeastOf
<1>5. n \in Nat
  <2> HIDE DEF rest
  <2> QED
    BY <1>4
<1> HIDE DEF n
<1> QED
  BY <1>2, <1>5, LeftAfter

LEMMA LeftNext ==
  ASSUME Sequence(text), NEW st, Left(st), NEW c, NEW M \in Nat
  PROVE  Left(Next2(st, c, M).st)
<1>1. Left(read_char(st, c))
  BY LeftChar
<1> QED
  BY <1>1, LeftUnsigned DEF Next2

LEMMA LeftFacet ==
  ASSUME Sequence(text), Left(input), NEW n \in Nat, NEW range
  PROVE  Left(facet(n, range).st)
<1> DEFINE r == read_unsigned(input, 1, n)
           u == [r EXCEPT !.st = Peeked(@)]
<1>1. r = [st |-> r.st, x |-> r.x] /\ Left(r.st)
  BY LeftUnsigned DEF read_unsigned
<1> HIDE DEF r
<1>2. u = [st |-> Peeked(r.st), x |-> r.x]
  BY <1>1
<1>3. Left(u.st) /\ Left(Failed(u.st))
  BY <1>1, <1>2, LeftSame
<1>4. facet(n, range) = FailUnless(u, r.x \in range)
  BY DEF facet, r
<1> HIDE DEF u
<1>5. FailUnless(u, r.x \in range).st \in {u.st, Failed(u.st)}
  BY <1>2 DEF FailUnless
<1> QED
  BY <1>3, <1>4, <1>5

LEMMA LeftName ==
  ASSUME Sequence(text), Left(input), NEW names
  PROVE  Left(read_name(names).st)
<1>1. read_name(names).st \in {Failed(input), Drop(input, 1)}
  BY DEF read_name
<1> QED
  BY <1>1, LeftSame, LeftDrop

LEMMA LeftSet ==
  ASSUME NEW fd, NEW f, NEW x, NEW st, Left(st)
  PROVE  Left(checked_set(fd, f, x, not_a, st).st)
BY LeftSame DEF checked_set

LEMMA LeftUnless ==
  ASSUME NEW r, r = [st |-> r.st, x |-> r.x], Left(r.st), NEW ok
  PROVE  Left(FailUnless(r, ok).st)
BY LeftSame DEF FailUnless

-----------------------------------------------------------------------------
(* Every command leaves an end of the text                                 *)

Flow == Types /\ Sequence(text) /\ Left(input)

LEMMA SetLeft == ASSUME NEW f, NEW r, Left(r.st) PROVE Left(Set(f, r).st)
BY LeftSet DEF Set

LEMMA NextLeft == ASSUME NEW s, Left(s.st), NEW f, NEW x PROVE Left(AndSet(s, f, x).st)
BY LeftSet DEF AndSet

LEMMA ReadsLeft ==
  ASSUME NEW chars, NEW mods, NEW s, Reads(chars, mods, s), Left(s.st)
  PROVE  Left(input')
BY DEF Reads

LEMMA OneLeft ==
  ASSUME NEW chars, NEW mods, NEW f, NEW r, Reads(chars, mods, Set(f, r)), Left(r.st)
  PROVE  Left(input')
BY SetLeft, ReadsLeft

\* What a command reads without a modifier, and what it reads with one.
LEMMA NumberLeft ==
  ASSUME Flow, NEW n \in Nat
  PROVE  /\ Left(read_unsigned(input, 1, Width(n)).st)
         /\ Left(read_signed(input, 1, Width(n)).st)
         /\ \A range : Left(facet(n, range).st)
BY LeftUnsigned, LeftSigned, LeftFacet, WidthType DEF Flow

LEMMA EitherLeft == ASSUME NEW a, NEW b, Left(a.st), Left(b.st), NEW C PROVE Left((IF C THEN a ELSE b).st)
OBVIOUS

LEMMA Left_names == ASSUME Flow, Get_aA \/ Get_bBh \/ Get_p PROVE Left(input')
<1>1. CASE Get_aA
  BY <1>1, LeftName, OneLeft DEF Get_aA, Flow
<1>2. CASE Get_bBh
  <2> DEFINE n == read_name(Months)
             r == [n EXCEPT !.x = @ + 1]
  <2>1. n = [st |-> n.st, x |-> n.x] /\ Left(n.st)
    BY LeftName DEF read_name, Flow
  <2>2. Reads({"b", "B", "h"}, {""}, Set("m", r))
    BY <1>2 DEF Get_bBh
  <2> HIDE DEF n
  <2>3. Left(r.st)
    BY <2>1
  <2> HIDE DEF r
  <2> QED
    BY <2>2, <2>3, OneLeft
<1>3. CASE Get_p
  <2> DEFINE n == read_name(Halves)
             hour == IF n.x = 1 THEN PmHour ELSE 1
             half == IF hour = 1 THEN 0 ELSE IF hour = 13 THEN 1 ELSE not_a.p
             r == [n EXCEPT !.x = half]
  <2>1. n = [st |-> n.st, x |-> n.x] /\ Left(n.st)
    BY LeftName DEF read_name, Flow
  <2>2. Reads({"p"}, {""}, Set("p", r))
    BY <1>3 DEF Get_p
  <2> HIDE DEF n, half
  <2>3. Left(r.st)
    BY <2>1
  <2> HIDE DEF r
  <2> QED
    BY <2>2, <2>3, OneLeft
<1> QED
  BY <1>1, <1>2, <1>3

\* The conversions that read one number.
LEMMA Left_numbers ==
  ASSUME Flow, \/ Get_j \/ Get_g \/ Get_G \/ Get_U \/ Get_V \/ Get_W \/ Get_I
               \/ Get_C \/ Get_de \/ Get_H \/ Get_M \/ Get_m \/ Get_Y
  PROVE  Left(input')

<1>1. CASE Get_j
  <2>1. Left(read_unsigned(input, 1, Width(3)).st)
    BY NumberLeft
  <2> QED
    BY <1>1, <2>1, OneLeft DEF Get_j
<1>2. CASE Get_g
  <2>1. Left(read_unsigned(input, 1, Width(2)).st)
    BY NumberLeft
  <2> QED
    BY <1>2, <2>1, OneLeft DEF Get_g
<1>3. CASE Get_G
  <2>1. Left(read_signed(input, 1, Width(4)).st)
    BY NumberLeft
  <2> QED
    BY <1>3, <2>1, OneLeft DEF Get_G
<1>4. CASE Get_U
  <2>1. Left(read_unsigned(input, 1, Width(2)).st)
    BY NumberLeft
  <2> QED
    BY <1>4, <2>1, OneLeft DEF Get_U
<1>5. CASE Get_V
  <2>1. Left(read_unsigned(input, 1, Width(2)).st)
    BY NumberLeft
  <2> QED
    BY <1>5, <2>1, OneLeft DEF Get_V
<1>6. CASE Get_W
  <2>1. Left(read_unsigned(input, 1, Width(2)).st)
    BY NumberLeft
  <2> QED
    BY <1>6, <2>1, OneLeft DEF Get_W
<1>7. CASE Get_I
  <2> DEFINE r == read_signed(input, 1, Width(2))
             u == FailUnless(r, r.x \in 1..12)
  <2>1. r = [st |-> r.st, x |-> r.x] /\ Left(r.st)
    BY NumberLeft DEF read_signed, read_unsigned
  <2>2. Reads({"I"}, {""}, Set("I", u))
    BY <1>7 DEF Get_I
  <2> HIDE DEF r
  <2>3. Left(u.st)
    BY <2>1, LeftUnless
  <2> HIDE DEF u
  <2> QED
    BY <2>2, <2>3, OneLeft
<1>8. CASE Get_C
  <2> DEFINE a == read_signed(input, 1, Width(2))
             b == facet(2, 0..99)
             r == IF modified = "" THEN a ELSE b
  <2>1. Left(a.st) /\ Left(b.st)
    BY NumberLeft
  <2>2. Reads({"C"}, {"", "E", "O"}, Set("C", r))
    BY <1>8 DEF Get_C
  <2> HIDE DEF a, b
  <2>3. Left(r.st)
    BY <2>1
  <2> HIDE DEF r
  <2> QED
    BY <2>2, <2>3, OneLeft
<1>9. CASE Get_de
  <2> DEFINE a == read_signed(input, 1, Width(2))
             b == facet(2, 1..31)
             r == IF modified = "" THEN a ELSE b
  <2>1. Left(a.st) /\ Left(b.st)
    BY NumberLeft
  <2>2. Reads({"d", "e"}, {"", "O"}, Set("d", r))
    BY <1>9 DEF Get_de
  <2> HIDE DEF a, b
  <2>3. Left(r.st)
    BY <2>1
  <2> HIDE DEF r
  <2> QED
    BY <2>2, <2>3, OneLeft
<1>10. CASE Get_H
  <2> DEFINE a == read_unsigned(input, 1, Width(2))
             b == facet(2, 0..23)
             r == IF modified = "" THEN a ELSE b
  <2>1. Left(a.st) /\ Left(b.st)
    BY NumberLeft
  <2>2. Reads({"H"}, {"", "O"}, Set("H", r))
    BY <1>10 DEF Get_H
  <2> HIDE DEF a, b
  <2>3. Left(r.st)
    BY <2>1
  <2> HIDE DEF r
  <2> QED
    BY <2>2, <2>3, OneLeft
<1>11. CASE Get_M
  <2> DEFINE a == read_unsigned(input, 1, Width(2))
             b == facet(2, 0..59)
             r == IF modified = "" THEN a ELSE b
  <2>1. Left(a.st) /\ Left(b.st)
    BY NumberLeft
  <2>2. Reads({"M"}, {"", "O"}, Set("M", r))
    BY <1>11 DEF Get_M
  <2> HIDE DEF a, b
  <2>3. Left(r.st)
    BY <2>1
  <2> HIDE DEF r
  <2> QED
    BY <2>2, <2>3, OneLeft
<1>12. CASE Get_m
  <2> DEFINE a == read_signed(input, 1, Width(2))
             b == facet(2, 1..12)
             r == IF modified = "" THEN a ELSE b
  <2>1. Left(a.st) /\ Left(b.st)
    BY NumberLeft
  <2>2. Reads({"m"}, {"", "O"}, Set("m", r))
    BY <1>12 DEF Get_m
  <2> HIDE DEF a, b
  <2>3. Left(r.st)
    BY <2>1
  <2> HIDE DEF r
  <2> QED
    BY <2>2, <2>3, OneLeft
<1>13. CASE Get_Y
  <2> DEFINE a == read_signed(input, 1, Width(4))
             b == facet(4, FacetYears)
             r == IF modified = "" THEN a ELSE b
  <2>1. Left(a.st) /\ Left(b.st)
    BY NumberLeft
  <2>2. Reads({"Y"}, {"", "E"}, Set("Y", r))
    BY <1>13 DEF Get_Y
  <2> HIDE DEF a, b
  <2>3. Left(r.st)
    BY <2>1
  <2> HIDE DEF r
  <2> QED
    BY <2>2, <2>3, OneLeft
<1> QED
  BY <1>1, <1>2, <1>3, <1>4, <1>5, <1>6, <1>7, <1>8, <1>9, <1>10, <1>11, <1>12, <1>13

LEMMA Left_uw == ASSUME Flow, Get_uw PROVE Left(input')
<1> DEFINE a == read_unsigned(input, 1, Width(1))
           b == facet(1, 0..7)
           r == IF modified = "" THEN a ELSE b
           sunday == [r EXCEPT !.x = IF @ = 7 THEN 0 ELSE @]
           u == FailUnless(sunday, r.x \in 1..7)
           w == FailUnless(r, r.x \in 0..6)
<1>1. Left(a.st) /\ Left(b.st) /\ a = [st |-> a.st, x |-> a.x] /\ b = [st |-> b.st, x |-> b.x]
  BY NumberLeft DEF facet, FailUnless, read_unsigned
<1>2. \/ Reads({"u", "w"}, {"", "O"}, Set("wd", u))
      \/ Reads({"u", "w"}, {"", "O"}, Set("wd", w))
  BY DEF Get_uw
<1> HIDE DEF a, b
<1>3. Left(r.st) /\ r = [st |-> r.st, x |-> r.x]
  BY <1>1
<1> HIDE DEF r
<1>4. Left(sunday.st) /\ sunday = [st |-> sunday.st, x |-> sunday.x]
  BY <1>3
<1> HIDE DEF sunday
<1>5. Left(u.st) /\ Left(w.st)
  BY <1>3, <1>4, LeftUnless
<1> HIDE DEF u, w
<1> QED
  BY <1>2, <1>5, OneLeft

LEMMA Left_y == ASSUME Flow, Get_y PROVE Left(input')
<1> DEFINE r == facet(2, 0..99)
           full == [r EXCEPT !.x = @ + (IF @ >= 69 THEN 1900 ELSE 2000)]
           two == read_unsigned(input, 1, Width(2))
           s == IF modified = "" THEN Set("y", two) ELSE Set("Y", full)
<1>1. Left(r.st) /\ Left(two.st) /\ r = [st |-> r.st, x |-> r.x]
  BY NumberLeft DEF facet, FailUnless, read_unsigned
<1>2. Reads({"y"}, {"", "E", "O"}, s)
  BY DEF Get_y
<1> HIDE DEF r, two
<1>3. Left(full.st)
  BY <1>1
<1> HIDE DEF full
<1>4. Left(s.st)
  BY <1>1, <1>3, SetLeft
<1> HIDE DEF s
<1> QED
  BY <1>2, <1>4, ReadsLeft

LEMMA Left_D == ASSUME Flow, Get_D PROVE Left(input')
<1> DEFINE m == read_unsigned(input, 1, 2)
           d == Next2(m.st, "/", 2)
           e == read_char(d.st, "/")
           y == read_signed(e, 1, 2)
           one == Set("y", y)
           two == AndSet(one, "m", m.x)
           s == AndSet(two, "d", d.x)
<1>1. Left(m.st)
  BY LeftUnsigned DEF Flow
<1> HIDE DEF m
<1>2. Left(d.st)
  BY <1>1, LeftNext DEF Flow
<1> HIDE DEF d
<1>3. Left(e)
  BY <1>2, LeftChar DEF Flow
<1> HIDE DEF e
<1>4. Left(y.st)
  BY <1>3, LeftSigned DEF Flow
<1> HIDE DEF y
<1>5. Left(one.st)
  BY <1>4, SetLeft
<1> HIDE DEF one
<1>6. Left(two.st)
  BY <1>5, NextLeft
<1> HIDE DEF two
<1>7. Left(s.st)
  BY <1>6, NextLeft
<1> HIDE DEF s
<1> QED
  BY <1>7, ReadsLeft DEF Get_D, s, two, one, y, e, d, m

LEMMA Left_F == ASSUME Flow, Get_F PROVE Left(input')
<1> DEFINE y == read_signed(input, 1, Width(4))
           m == Next2(y.st, "-", 2)
           d == Next2(m.st, "-", 2)
           r == [st |-> d.st, x |-> y.x]
           one == Set("Y", r)
           two == AndSet(one, "m", m.x)
           s == AndSet(two, "d", d.x)
<1>1. Left(y.st)
  BY NumberLeft
<1> HIDE DEF y
<1>2. Left(m.st)
  BY <1>1, LeftNext DEF Flow
<1> HIDE DEF m
<1>3. Left(d.st)
  BY <1>2, LeftNext DEF Flow
<1> HIDE DEF d
<1>4. Left(r.st)
  BY <1>3
<1> HIDE DEF r
<1>5. Left(one.st)
  BY <1>4, SetLeft
<1> HIDE DEF one
<1>6. Left(two.st)
  BY <1>5, NextLeft
<1> HIDE DEF two
<1>7. Left(s.st)
  BY <1>6, NextLeft
<1> HIDE DEF s
<1> QED
  BY <1>7, ReadsLeft DEF Get_F, s, two, one, r, d, m, y

LEMMA Left_R == ASSUME Flow, Get_R PROVE Left(input')
<1> DEFINE h == read_unsigned(input, 1, 2)
           m == Next2(h.st, ":", 2)
           r == [st |-> m.st, x |-> h.x]
           one == Set("H", r)
           s == AndSet(one, "M", m.x)
<1>1. Left(h.st)
  BY LeftUnsigned DEF Flow
<1> HIDE DEF h
<1>2. Left(m.st)
  BY <1>1, LeftNext DEF Flow
<1> HIDE DEF m
<1>3. Left(r.st)
  BY <1>2
<1> HIDE DEF r
<1>4. Left(one.st)
  BY <1>3, SetLeft
<1> HIDE DEF one
<1>5. Left(s.st)
  BY <1>4, NextLeft
<1> HIDE DEF s
<1> QED
  BY <1>5, ReadsLeft DEF Get_R, s, one, r, m, h

LEMMA Left_S == ASSUME Flow, Get_S PROVE Left(input')
<1> DEFINE w == facet(2, 0..60)
           a == read_seconds(input, FracWidth, Width(SecondsWidth))
           b == [w EXCEPT !.x = @ * Frac]
           r == IF modified = "" THEN a ELSE b
<1>1. w = [st |-> w.st, x |-> w.x] /\ Left(w.st)
  BY NumberLeft DEF facet, FailUnless, read_unsigned
<1>2. SecondsWidth \in Nat
  BY DigitsAssumption DEF SecondsWidth
<1>3. Left(a.st)
  BY <1>2, LeftSeconds, WidthType DEF Flow
<1>4. Reads({"S"}, {"", "O"}, Set("s", r))
  BY DEF Get_S
<1> HIDE DEF w, a
<1>5. Left(b.st)
  BY <1>1
<1> HIDE DEF b
<1>6. Left(r.st)
  BY <1>3, <1>5
<1> HIDE DEF r
<1> QED
  BY <1>4, <1>6, OneLeft

LEMMA Left_T == ASSUME Flow, Get_T PROVE Left(input')
<1> DEFINE h == read_unsigned(input, 1, 2)
           m == Next2(h.st, ":", 2)
           e == read_char(m.st, ":")
           sec == read_seconds(e, FracWidth, SecondsWidth)
           r == [st |-> sec.st, x |-> h.x]
           one == Set("H", r)
           two == AndSet(one, "M", m.x)
           s == AndSet(two, "s", sec.x)
<1>0. SecondsWidth \in Nat
  BY DigitsAssumption DEF SecondsWidth
<1>1. Left(h.st)
  BY LeftUnsigned DEF Flow
<1> HIDE DEF h
<1>2. Left(m.st)
  BY <1>1, LeftNext DEF Flow
<1> HIDE DEF m
<1>3. Left(e)
  BY <1>2, LeftChar DEF Flow
<1> HIDE DEF e
<1>4. Left(sec.st)
  BY <1>0, <1>3, LeftSeconds DEF Flow
<1> HIDE DEF sec
<1>5. Left(r.st)
  BY <1>4
<1> HIDE DEF r
<1>6. Left(one.st)
  BY <1>5, SetLeft
<1> HIDE DEF one
<1>7. Left(two.st)
  BY <1>6, NextLeft
<1> HIDE DEF two
<1>8. Left(s.st)
  BY <1>7, NextLeft
<1> HIDE DEF s
<1> QED
  BY <1>8, ReadsLeft DEF Get_T, s, two, one, r, sec, e, m, h

LEMMA Left_z == ASSUME Flow, Get_z PROVE Left(input')
<1> DEFINE h == read_signed(input, IF modified = "" THEN 2 ELSE 1, 2)
           st == IF Good(h.st) THEN Peeked(h.st) ELSE h.st
           e == IF modified = "" THEN st ELSE Drop(st, 1)
           m == read_unsigned(e, 2, 2)
<1>1. Left(st)
  <2>1. Left(h.st)
    BY LeftSigned DEF Flow
  <2> HIDE DEF h
  <2> QED
    BY <2>1, LeftSame
<1>2. read_offset.st \in {st, m.st}
  BY DEF read_offset
<1> HIDE DEF st
<1>3. Left(e)
  BY <1>1, LeftDrop DEF Flow
<1> HIDE DEF e
<1>4. Left(m.st)
  BY <1>3, LeftUnsigned DEF Flow
<1> HIDE DEF m
<1>5. Left(read_offset.st)
  BY <1>1, <1>2, <1>4
<1> QED
  BY <1>5, OneLeft DEF Get_z

-----------------------------------------------------------------------------
(* What is written and what is read literally are sequences                *)

LEMMA SequenceOf ==
  ASSUME NEW N \in Int, NEW s, s = [i \in 1..N |-> s[i]]
  PROVE  Sequence(s)
<1> DEFINE S == {s[i] : i \in 1..N}
           M == IF N >= 0 THEN N ELSE 0
<1>1. M \in Nat /\ 1..N = 1..M
  OBVIOUS
<1>2. s \in [1..M -> S]
  BY <1>1
<1>3. s \in Seq(S)
  <2> HIDE DEF M, S
  <2> QED
    BY <1>1, <1>2, SeqDef
<1> QED
  BY <1>3 DEF Sequence

LEMMA Concatenated ==
  ASSUME NEW s, Sequence(s), NEW t, Sequence(t)
  PROVE  Sequence(s \o t)
<1>1. PICK S : s \in Seq(S)
  BY DEF Sequence
<1>2. PICK T : t \in Seq(T)
  BY DEF Sequence
<1>3. s \in Seq(S \cup T) /\ t \in Seq(S \cup T)
  BY <1>1, <1>2, SeqDef
<1>4. s \o t \in Seq(S \cup T)
  BY <1>3, ConcatProperties
<1> QED
  BY <1>4 DEF Sequence

LEMMA Tuples ==
  /\ Sequence(<<>>)
  /\ \A a : Sequence(<<a>>)
  /\ \A a, b : Sequence(<<a, b>>)
  /\ \A a, b, c : Sequence(<<a, b, c>>)
<1>1. <<>> \in Seq({})
  OBVIOUS
<1>2. \A a : <<a>> \in Seq({a})
  OBVIOUS
<1>3. \A a, b : <<a, b>> \in Seq({a, b})
  OBVIOUS
<1>4. \A a, b, c : <<a, b, c>> \in Seq({a, b, c})
  OBVIOUS
<1> QED
  BY <1>1, <1>2, <1>3, <1>4 DEF Sequence

\* A number has as many digits as it needs.
LEMMA DigitsNeeded ==
  ASSUME NEW n \in Int
  PROVE  \E k \in 1..(Size(n) + 1) : Ten(k) > n /\ (k = 1 \/ Ten(k - 1) <= n)
<1> DEFINE enough == {k \in 1..(Size(n) + 1) : Ten(k) > n}
           k == Min(enough)
<1>1. Size(n) \in Nat /\ Size(n) >= n
  BY DEF Size
<1>2. Size(n) + 1 \in enough /\ enough \subseteq Nat
  <2>1. Ten(Size(n) + 1) \in Nat /\ Ten(Size(n) + 1) > Size(n) + 1
    BY <1>1, TenType
  <2> QED
    BY <1>1, <2>1
<1>3. k \in enough /\ \A j \in enough : k <= j
  <2> HIDE DEF enough
  <2> QED
    BY <1>2, LeastOf
<1> HIDE DEF k
<1>4. k \in 1..(Size(n) + 1) /\ Ten(k) > n
  BY <1>3
<1>5. ASSUME k # 1 PROVE Ten(k - 1) <= n
  <2>1. k - 1 \in 1..(Size(n) + 1) /\ ~(k <= k - 1) /\ k - 1 \in Nat
    BY <1>1, <1>4, <1>5
  <2>2. ~(Ten(k - 1) > n)
    BY <1>3, <2>1
  <2>3. Ten(k - 1) \in Nat
    BY <2>1, TenType
  <2> QED
    BY <2>2, <2>3
<1> QED
  BY <1>4, <1>5

LEMMA FilledIs ==
  ASSUME NEW n \in Int, NEW w \in Int, NEW fill
  PROVE  Sequence(Filled(n, w, fill)) /\ Len(Filled(n, w, fill)) \in Nat
<1> DEFINE k == CHOOSE k \in 1..(Size(n) + 1) : Ten(k) > n /\ (k = 1 \/ Ten(k - 1) <= n)
           r == IF w > k THEN w ELSE k
           s == [i \in 1..r |-> IF i <= r - k THEN fill ELSE Digit[((n \div Ten(r - i)) % 10) + 1]]
<1>1. k \in 1..(Size(n) + 1) /\ Size(n) \in Nat
  <2>1. Size(n) \in Nat
    BY DEF Size
  <2> QED
    BY <2>1, DigitsNeeded
<1> HIDE DEF k
<1>2. r \in Int /\ r >= 1
  BY <1>1
<1>3. s = [i \in 1..r |-> s[i]]
  OBVIOUS
<1>4. Filled(n, w, fill) = s
  BY DEF Filled, k
<1> HIDE DEF r, s
<1>5. Sequence(s)
  BY <1>2, <1>3, SequenceOf
<1>6. Len(s) \in Nat
  BY <1>5 DEF Sequence
<1> QED
  BY <1>4, <1>5, <1>6

LEMMA NumbersWritten ==
  ASSUME NEW n \in Int, NEW w \in Int
  PROVE  /\ Sequence(Digits(n, w)) /\ \A f : Sequence(Filled(n, w, f))
         /\ Sequence(Internal(n, w)) /\ Sequence(Right(n, w))
<1>1. \A m \in Int : Sequence(Digits(m, w)) /\ Sequence(Digits(m, 1))
  BY FilledIs DEF Digits
<1>2. Size(n) \in Int /\ Sequence(Sign(n))
  BY Tuples DEF Size, Sign
<1>3. Sequence(Internal(n, w)) /\ Sequence(Internal(n, 1))
  BY <1>1, <1>2, Concatenated DEF Internal
<1>4. Sequence(Right(n, w))
  <2> DEFINE s == Internal(n, 1)
             fill == [i \in 1..(w - Len(s)) |-> "0"]
  <2>1. Len(s) \in Nat
    BY <1>3 DEF Sequence
  <2> HIDE DEF s
  <2>2. Sequence(fill)
    <3>1. w - Len(s) \in Int /\ fill = [i \in 1..(w - Len(s)) |-> fill[i]]
      BY <2>1
    <3> HIDE DEF fill
    <3> QED
      BY <3>1, SequenceOf
  <2> HIDE DEF fill
  <2>3. Sequence(fill \o s)
    BY <1>3, <2>2, Concatenated DEF s
  <2> QED
    BY <1>1, <2>3 DEF Right, fill, s
<1> QED
  BY <1>1, <1>3, <1>4, FilledIs

-----------------------------------------------------------------------------
(* What is read literally                                                  *)

LEMMA WidthRead == ASSUME Types PROVE Sequence(WidthDigits)
<1>1. CASE width = -1
  BY <1>1, Tuples DEF WidthDigits
<1>2. CASE width # -1
  <2>1. width \in Int /\ 1 \in Int
    BY <1>2 DEF Types
  <2> QED
    BY <1>2, <2>1, NumbersWritten DEF WidthDigits
<1> QED
  BY <1>1, <1>2

LEMMA CommandRead ==
  ASSUME Types, NEW s, Sequence(s)
  PROVE  Sequence(<<"%">> \o WidthDigits \o s)
BY Tuples, WidthRead, Concatenated

LEMMA Left_command ==
  ASSUME Flow, Get_percent \/ Get_modified \/ Get_unknown \/ Get_end \/ Get_plain \/ Get_EO
  PROVE  Left(input')
<1> DEFINE Start == <<"%">> \o WidthDigits
<1>1. ASSUME NEW s, Sequence(s) PROVE Left(read_chars(input, s)) /\ Left(read_chars(input, Start \o s))
  BY <1>1, CommandRead, LeftChars DEF Flow
<1> HIDE DEF Start
<1>2. CASE Get_percent
  <2>1. input' \in {read_chars(input, <<"%">>), read_chars(input, Start \o <<modified, "%">>), input}
    BY <1>2 DEF Get_percent, Start
  <2>2. Sequence(<<"%">>) /\ Sequence(<<modified, "%">>)
    BY Tuples
  <2> QED
    BY <1>1, <2>1, <2>2 DEF Flow
<1>3. CASE Get_modified
  <2>1. input' = read_chars(input, Start \o <<modified, Char>>)
    BY <1>3 DEF Get_modified, Unmodifiable, Start
  <2> QED
    BY <1>1, <2>1, Tuples
<1>4. CASE Get_unknown
  <2>1. input' = read_chars(input, Start \o Optional(modified) \o <<Char>>)
    BY <1>4 DEF Get_unknown, Start
  <2>2. Sequence(Start \o Optional(modified))
    BY CommandRead, Tuples DEF Optional, Flow, Start
  <2>3. Sequence((Start \o Optional(modified)) \o <<Char>>)
    BY <2>2, Tuples, Concatenated
  <2> QED
    BY <1>1, <2>1, <2>3
<1>5. CASE Get_end
  <2>1. input' = read_chars(input, Start \o Optional(modified))
    BY <1>5 DEF Get_end, Start
  <2>2. Sequence(Optional(modified))
    BY Tuples DEF Optional
  <2> QED
    BY <1>1, <2>1, <2>2
<1>6. CASE Get_plain
  BY <1>6, LeftChar DEF Get_plain, Plain, Flow
<1>7. CASE Get_EO
  BY <1>7 DEF Get_EO, Flow
<1> QED
  BY <1>2, <1>3, <1>4, <1>5, <1>6, <1>7

LEMMA Left_nt == ASSUME Flow, Get_nt PROVE Left(input')
<1>1. input' \in {Failed(Peeked(input)), Peeked(input), Drop(input, 1), Failed(input), input}
  BY DEF Get_nt
<1>2. Left(Peeked(input)) /\ Left(Drop(input, 1))
  BY LeftSame, LeftDrop DEF Flow
<1> QED
  BY <1>1, <1>2, LeftSame DEF Flow

\* Of the characters in front at most as many as there are.
LEMMA InFront ==
  ASSUME NEW M \in Nat, NEW long \in SUBSET (1..M), NEW s
  PROVE  Len(SubSeq(s, 1, IF long = {} THEN 0 ELSE Max(long))) \in Nat
<1> DEFINE k == IF long = {} THEN 0 ELSE Max(long)
<1>1. k \in Nat
  <2>1. CASE long # {}
    <3>1. Max(long) \in long
      BY <2>1, GreatestOf
    <3>2. long \in SUBSET (1..M) /\ M \in Nat
      OBVIOUS
    <3>3. Max(long) \in 1..M
      BY <3>1, <3>2
    <3>4. k = Max(long)
      BY <2>1
    <3> HIDE DEF k
    <3> QED
      BY <3>3, <3>4
  <2> QED
    BY <2>1
<1> HIDE DEF k
<1>2. Len(SubSeq(s, 1, k)) = k
  BY <1>1, SMT
<1> QED
  BY <1>1, <1>2 DEF k

LEMMA Left_Z == ASSUME Flow, Get_Z PROVE Left(input')
<1> DEFINE zone(c) == IsDigit(c) \/ c \in {"UTC", "/", "-", "+"} \cup Range(Weekdays) \cup Range(Months) \cup Range(Halves)
           M == Len(input.rest)
           long == {n \in 1..M : n <= Len(input.rest) /\ \A i \in 1..n : zone(input.rest[i])}
           f == Prefix(input, zone, M)
           p == IF Good(input) THEN f ELSE <<>>
           r == [st |-> After(input, Len(p), 1, Len(p) + 1), x |-> p]
<1>1. M \in Nat
  BY EndOf, LeftSame DEF Flow
<1>2. Len(f) \in Nat
  <2>1. f = SubSeq(input.rest, 1, IF long = {} THEN 0 ELSE Max(long))
    BY DEF Prefix
  <2>2. long \in SUBSET (1..M)
    OBVIOUS
  <2> HIDE DEF f, long
  <2> QED
    BY <1>1, <2>1, <2>2, InFront
<1>3. Reads({"Z"}, {""}, Set("Z", r))
  BY DEF Get_Z
<1> HIDE DEF f
<1>4. Len(p) \in Nat
  BY <1>2
<1> HIDE DEF p
<1>5. Left(r.st)
  BY <1>4, LeftAfter DEF Flow
<1> HIDE DEF r
<1> QED
  BY <1>3, <1>5, OneLeft

LEMMA Left_literal == ASSUME Flow, Get_literal PROVE Left(input')
<1> DEFINE M == Len(input.rest)
           long == {n \in 1..M : n <= Len(input.rest) /\ \A i \in 1..n : IsSpace(input.rest[i])}
           f == Prefix(input, IsSpace, M)
           n == Len(f)
<1>1. M \in Nat
  BY EndOf, LeftSame DEF Flow
<1>2. n \in Nat
  <2>1. f = SubSeq(input.rest, 1, IF long = {} THEN 0 ELSE Max(long))
    BY DEF Prefix
  <2>2. long \in SUBSET (1..M)
    OBVIOUS
  <2> HIDE DEF f, long
  <2> QED
    BY <1>1, <2>1, <2>2, InFront
<1>3. input' \in {read_char(input, Char), Peeked(Drop(input, n)), Drop(input, n), input}
  BY DEF Get_literal
<1> HIDE DEF n
<1>4. Left(Drop(input, n))
  BY <1>2, LeftDrop DEF Flow
<1>5. Left(Peeked(Drop(input, n)))
  BY <1>4, LeftSame
<1>6. Left(read_char(input, Char))
  BY LeftChar DEF Flow
<1> QED
  BY <1>3, <1>4, <1>5, <1>6 DEF Flow

LEMMA LeftStep == ASSUME Flow, from_stream PROVE Left(input')
<1>1. CASE Get_width \/ Get_fields
  BY <1>1 DEF Get_width, Get_fields, Flow
<1> QED
  BY <1>1, Left_names, Left_numbers, Left_uw, Left_y, Left_D, Left_F, Left_R, Left_S, Left_T,
     Left_z, Left_Z, Left_nt, Left_command, Left_literal DEF from_stream

-----------------------------------------------------------------------------
(* The format is read to its end, a command at a time                      *)

Place == at \in 1..(Len(fmt) + 1)
Command == command \in BOOLEAN /\ modified \in {"", "E", "O"} /\ (modified # "" => command)
\* A command ends with its character.
Turn ==
    at <= Len(fmt) /\ at' = at + 1 /\ command' = FALSE /\ modified' = "" /\ width' = -1

LEMMA ReadsTurn ==
  \/ Get_aA \/ Get_uw \/ Get_bBh \/ Get_C \/ Get_D \/ Get_F \/ Get_de \/ Get_H \/ Get_I
  \/ Get_j \/ Get_M \/ Get_m \/ Get_p \/ Get_R \/ Get_S \/ Get_T \/ Get_Y \/ Get_y \/ Get_g
  \/ Get_G \/ Get_U \/ Get_V \/ Get_W \/ Get_z \/ Get_Z
  => Turn
<1>1. \A chars, mods, s : Reads(chars, mods, s) => Turn
  BY DEF Reads, Reading, Advance, EndCommand, Turn
<1> USE <1>1
<1>2. Get_aA \/ Get_uw \/ Get_bBh \/ Get_C \/ Get_D \/ Get_F \/ Get_de \/ Get_H \/ Get_I => Turn
  BY DEF Get_aA, Get_uw, Get_bBh, Get_C, Get_D, Get_F, Get_de, Get_H, Get_I
<1>3. Get_j \/ Get_M \/ Get_m \/ Get_p \/ Get_R \/ Get_S \/ Get_T \/ Get_Y => Turn
  BY DEF Get_j, Get_M, Get_m, Get_p, Get_R, Get_S, Get_T, Get_Y
<1>4. Get_g \/ Get_G \/ Get_U \/ Get_V \/ Get_W \/ Get_z \/ Get_Z => Turn
  BY DEF Get_g, Get_G, Get_U, Get_V, Get_W, Get_z, Get_Z
<1>5. ASSUME Get_y PROVE Turn
  <2> DEFINE r == facet(2, 0..99)
             s == IF modified = "" THEN Set("y", read_unsigned(input, 1, Width(2)))
                  ELSE Set("Y", [r EXCEPT !.x = @ + (IF @ >= 69 THEN 1900 ELSE 2000)])
  <2>1. Reads({"y"}, {"", "E", "O"}, s)
    BY <1>5 DEF Get_y
  <2> HIDE DEF s
  <2> QED
    BY <2>1
<1> QED
  BY <1>2, <1>3, <1>4, <1>5

\* The other rounds of the loop but those that take a modifier or a width.
LEMMA OthersTurn ==
  ASSUME Get_nt \/ Get_percent \/ Get_modified \/ Get_plain \/ Get_unknown \/ Get_literal
  PROVE  \/ Turn
         \/ at <= Len(fmt) /\ at' = at + 1 /\ UNCHANGED <<command, modified, width>>
         \/ at <= Len(fmt) /\ at' = at + 1 /\ ~command /\ command' = TRUE
            /\ UNCHANGED <<modified, width>>
<1> USE DEF Advance, EndCommand, Turn
<1>1. CASE Get_nt
  BY <1>1 DEF Get_nt, Reading
<1>2. CASE Get_percent
  BY <1>2 DEF Get_percent, Reading
<1>3. CASE Get_modified
  BY <1>3 DEF Get_modified, Unmodifiable, Reading
<1>4. CASE Get_plain
  BY <1>4 DEF Get_plain, Plain, Reading
<1>5. CASE Get_unknown
  BY <1>5 DEF Get_unknown, Other
<1>6. CASE Get_literal
  BY <1>6 DEF Get_literal, Other
<1> QED
  BY <1>1, <1>2, <1>3, <1>4, <1>5, <1>6

LEMMA CommandKept ==
  ASSUME Command, width # -1 => command, from_stream
  PROVE  Command' /\ (width' # -1 => command')
<1>1. CASE Turn
  BY <1>1 DEF Turn, Command
<1>2. CASE UNCHANGED <<command, modified, width>>
  BY <1>2 DEF Command
<1>3. CASE ~command /\ command' = TRUE /\ UNCHANGED <<modified, width>>
  BY <1>3 DEF Command
<1>4. CASE Get_EO
  <2>1. command /\ command' = command /\ fmt[at] \in {"E", "O"} /\ modified' = fmt[at]
    BY <1>4 DEF Get_EO, Reading, Char
  <2> QED
    BY <2>1 DEF Command
<1>5. CASE Get_width
  BY <1>5 DEF Get_width, Command
<1>6. CASE Get_end
  BY <1>6 DEF Get_end, EndCommand, Command
<1>7. CASE Get_fields
  BY <1>2, <1>7 DEF Get_fields
<1> QED
  BY <1>1, <1>2, <1>3, <1>4, <1>5, <1>6, <1>7, ReadsTurn, OthersTurn DEF from_stream

LEMMA PlaceRead == ASSUME Types, Place, from_stream PROVE Place'
<1>0. Len(fmt) \in Nat /\ fmt' = fmt
  BY FormatStays DEF Types
<1> DEFINE L == Len(fmt)
<1>1. Place' <=> at' \in 1..(L + 1)
  BY <1>0 DEF Place
<1>2. L \in Nat /\ at \in 1..(L + 1)
  BY <1>0 DEF Place
<1>3. CASE at' = at
  BY <1>1, <1>2, <1>3
<1>4. CASE at <= L /\ at' = at + 1
  <2> HIDE DEF L
  <2> QED
    BY <1>1, <1>2, <1>4
<1>5. CASE Get_width
  <2> DEFINE rest == SubSeq(fmt, at, Len(fmt))
             digits == Prefix(Input(rest), IsDigit, Len(rest))
  <2>1. at' = at + Len(digits) /\ at <= L
    BY <1>5 DEF Get_width, Other
  <2>2. Len(rest) = L - at + 1
    BY <1>0, <1>2, <2>1, SMT
  <2> HIDE DEF rest, L
  <2>3. Len(rest) \in Nat
    BY <1>2, <2>1, <2>2
  <2>4. Len(digits) \in Nat /\ Len(digits) <= Len(rest)
    BY <2>3, DigitsInFront
  <2> HIDE DEF digits
  <2> QED
    BY <1>1, <1>2, <2>1, <2>2, <2>4
<1>6. CASE Get_EO
  BY <1>4, <1>6 DEF Get_EO, Reading, Advance
<1>7. CASE Get_end \/ Get_fields
  BY <1>3, <1>7 DEF Get_end, Get_fields
<1> QED
  BY <1>3, <1>4, <1>5, <1>6, <1>7, ReadsTurn, OthersTurn DEF from_stream, Turn

-----------------------------------------------------------------------------
(* What is written is a sequence                                           *)

\* The writer's characters are the reader's.
LEMMA WriterNumbers ==
  ASSUME NEW n \in Int, NEW w \in Int
  PROVE  /\ Sequence(Writer!Digits(n, w)) /\ \A f : Sequence(Writer!Filled(n, w, f))
         /\ Sequence(Writer!Internal(n, w)) /\ Sequence(Writer!Right(n, w))
<1>1. \A m : Writer!Ten(m) = Ten(m) /\ Writer!Size(m) = Size(m) /\ Writer!Sign(m) = Sign(m)
  BY DEF Writer!Ten, Ten, Writer!Size, Size, Writer!Sign, Sign
<1>2. ASSUME NEW m, NEW v, NEW f PROVE Writer!Filled(m, v, f) = Filled(m, v, f)
  BY Zenon DEF Writer!Filled, Filled, Writer!Ten, Ten, Writer!Size, Size, Writer!Digit, Digit
<1>3. \A m, v : Writer!Digits(m, v) = Digits(m, v)
  BY <1>2 DEF Writer!Digits, Digits
<1>4. \A m, v : Writer!Internal(m, v) = Internal(m, v)
  BY <1>1, <1>3 DEF Writer!Internal, Internal
<1>5. \A m, v : Writer!Right(m, v) = Right(m, v)
  BY Zenon, <1>3, <1>4 DEF Writer!Right, Right
<1> QED
  BY <1>2, <1>3, <1>4, <1>5, NumbersWritten

LEMMA SameFrac == Writer!Frac = Frac
<1>1. \A m : Writer!Ten(m) = Ten(m)
  BY DEF Writer!Ten, Ten
<1> QED
  BY <1>1 DEF Writer!Frac, Frac

IsDate(t) == t.y \in Int /\ t.m \in Int /\ t.d \in Int
IsTime(t) == t.h \in Int /\ t.m \in Int /\ t.s.s \in Int /\ t.s.sub \in Int /\ t.neg \in BOOLEAN
FieldsType == IsDate(fds.ymd) /\ fds.wd \in Int /\ IsTime(fds.tod) /\ fds.has_tod \in BOOLEAN

LEMMA TimeType == ASSUME NEW n \in Int PROVE IsTime(hh_mm_ss(n, Frac))
<1> DEFINE a == IF n >= 0 THEN n ELSE -n
           h == a \div (3600 * Frac)
           m == a \div (60 * Frac) - h * 60
           rest == a - h * 3600 * Frac - m * 60 * Frac
           q == Quotient(rest, Frac)
<1>1. a \in Nat /\ Frac \in Nat \ {0} /\ 3600 * Frac \in Nat \ {0} /\ 60 * Frac \in Nat \ {0}
  BY FracType
<1>2. hh_mm_ss(n, Frac) = [h |-> h, m |-> m, s |-> [s |-> q, sub |-> rest - q * Frac], neg |-> n < 0]
  BY DEF hh_mm_ss, decimal_format_seconds
<1> HIDE DEF a
<1>3. h \in Int
  BY <1>1
<1> HIDE DEF h
<1>4. m \in Int
  BY <1>1, <1>3
<1> HIDE DEF m
<1>5. rest \in Int
  BY <1>1, <1>3, <1>4
<1> HIDE DEF rest
<1>6. q \in Int
  BY <1>1, <1>5, QuotientType
<1> HIDE DEF q
<1>7. rest - q * Frac \in Int
  BY <1>1, <1>5, <1>6
<1> QED
  BY <1>2, <1>3, <1>4, <1>6, <1>7 DEF IsTime

LEMMA DatesWritten ==
  ASSUME NEW t, IsDate(t)
  PROVE  /\ Writer!IsoYear(t) \in Int /\ Writer!IsoWeek(t) \in Int
         /\ Writer!DayOfYear(t) \in Int
         /\ \A w \in 0..1 : Writer!WeekOfYear(t, w) \in Int
<1> DEFINE n == Writer!to_days(t)
           y == Writer!from_days(n + 3).y
<1>1. n \in Int
  BY WriterToDays, DaysType DEF IsDate
<1>2. y \in Int
  <2>1. n + 3 \in Int
    BY <1>1
  <2> HIDE DEF n
  <2>2. from_days(n + 3).y \in YearRange /\ Writer!from_days(n + 3) = from_days(n + 3)
    BY <2>1, DateType, WriterFromDays
  <2> QED
    BY <2>2 DEF YearRange
<1>3. \A x \in Int : Writer!IsoStart(x) \in Int
  BY IsoStartType, WriterWeeks
<1>4. Writer!year_plus(y, -1) \in Int
  <2>1. y + (-1) \in Int
    BY <1>2
  <2> HIDE DEF y
  <2>2. year(y + (-1)) \in YearRange
    BY <2>1, Narrowed
  <2> QED
    BY <2>2, WriterRules DEF year_plus, YearRange
<1>5. Writer!IsoYear(t) \in {y, Writer!year_plus(y, -1)}
  BY DEF Writer!IsoYear
<1> HIDE DEF y
<1>6. Writer!IsoYear(t) \in Int
  BY <1>2, <1>4, <1>5
<1> HIDE DEF n
<1>7. Writer!IsoWeek(t) \in Int
  <2>1. Writer!IsoStart(Writer!IsoYear(t)) \in Int
    BY <1>3, <1>6
  <2> QED
    BY <1>1, <2>1 DEF Writer!IsoWeek, n
<1>8. Writer!DayOfYear(t) \in Int
  <2> DEFINE first == Writer!ymd(t.y, 1, 1)
  <2>1. first.y \in Int /\ first.m \in Int /\ first.d \in Int
    BY DEF IsDate, Writer!ymd
  <2> HIDE DEF first
  <2>2. Writer!to_days(first) \in Int
    BY <2>1, WriterToDays, DaysType
  <2> QED
    BY <1>1, <2>2 DEF Writer!DayOfYear, n, first
<1>9. ASSUME NEW w \in 0..1 PROVE Writer!WeekOfYear(t, w) \in Int
  <2>1. Writer!FirstWeek(t.y, w) \in Int
    BY FirstWeekType, WriterWeeks DEF IsDate
  <2> QED
    BY <1>1, <2>1 DEF Writer!WeekOfYear, n
<1> QED
  BY <1>6, <1>7, <1>8, <1>9

LEMMA WeekdayWritten == ASSUME FieldsType PROVE Writer!extract_weekday \in Int
<1>1. Writer!to_days(fds.ymd) \in Int
  BY WriterToDays, DaysType DEF FieldsType, IsDate
<1>2. Writer!weekday_from_days(Writer!to_days(fds.ymd)) \in Int
  BY <1>1, WriterRules, WeekdayType
<1> QED
  BY <1>2 DEF Writer!extract_weekday, FieldsType

LEMMA DurationWritten ==
  ASSUME FieldsType
  PROVE  Writer!to_duration(fds.tod, Writer!Frac) \in Int /\ Writer!WholeDays \in Int
<1> DEFINE t == fds.tod
           n == ((t.h * 60 + t.m) * 60 + t.s.s) * Frac + t.s.sub
           d == Writer!to_duration(fds.tod, Writer!Frac)
<1>1. t.h \in Int /\ t.m \in Int /\ t.s.s \in Int /\ t.s.sub \in Int /\ Frac \in Nat \ {0}
  BY FracType DEF FieldsType, IsTime
<1>2. n \in Int
  BY <1>1
<1>3. d = n * (IF t.neg THEN -1 ELSE 1)
  BY SameFrac DEF Writer!to_duration
<1> HIDE DEF n
<1>4. d \in Int
  BY <1>2, <1>3
<1>5. Writer!WholeDays = Writer!Quotient(d, 86400 * Writer!Frac)
  BY DEF Writer!WholeDays
<1> HIDE DEF d
<1>6. 86400 * Frac \in Nat \ {0}
  BY <1>1
<1>7. Writer!WholeDays = Quotient(d, 86400 * Frac)
  BY <1>5, SameFrac, WriterRules
<1>8. Writer!WholeDays \in Int
  BY <1>4, <1>6, <1>7, QuotientType
<1> QED
  BY <1>4, <1>8 DEF d

LEMMA OutWritten ==
  ASSUME Sequence(out), NEW chars, NEW mods, NEW s, Sequence(s)
  PROVE  /\ \A has : Writer!Writes(chars, mods, has, s) => Sequence(out')
         /\ Writer!WritesSigned(chars, mods, s) => Sequence(out')
<1>1. ASSUME NEW has, Writer!Writes(chars, mods, has, s) PROVE Sequence(out')
  <2>1. out' \in {out, out \o s}
    BY <1>1 DEF Writer!Writes
  <2> QED
    BY <2>1, Concatenated
<1>2. ASSUME Writer!WritesSigned(chars, mods, s) PROVE Sequence(out')
  <2> DEFINE sign == IF insert_negative THEN <<"-">> ELSE <<>>
  <2>1. out' \in {out, out \o sign \o s}
    BY <1>2 DEF Writer!WritesSigned
  <2>2. Sequence(sign)
    BY Tuples
  <2> HIDE DEF sign
  <2> QED
    BY <2>1, <2>2, Concatenated
<1> QED
  BY <1>1, <1>2

\* What a conversion writes is made of digits, names and separators.
LEMMA PartsWritten ==
  ASSUME FieldsType
  PROVE  /\ \A n, w \in Int : Sequence(Writer!Digits(n, w)) /\ Sequence(Writer!Internal(n, w))
                              /\ Sequence(Writer!Right(n, w)) /\ \A f : Sequence(Writer!Filled(n, w, f))
         /\ \A names, n : Sequence(Writer!Names(names, n))
         /\ fds.ymd.y \in Int /\ fds.ymd.m \in Int /\ fds.ymd.d \in Int
         /\ fds.tod.h \in Int /\ fds.tod.m \in Int /\ fds.tod.s.s \in Int /\ fds.tod.s.sub \in Int
         /\ Sequence(Writer!Seconds)
<1>1. \A n, w \in Int : Sequence(Writer!Digits(n, w)) /\ Sequence(Writer!Internal(n, w))
                        /\ Sequence(Writer!Right(n, w)) /\ \A f : Sequence(Writer!Filled(n, w, f))
  BY WriterNumbers
<1>2. \A names, n : Sequence(Writer!Names(names, n))
  BY Tuples DEF Writer!Names
<1>3. /\ fds.ymd.y \in Int /\ fds.ymd.m \in Int /\ fds.ymd.d \in Int
      /\ fds.tod.h \in Int /\ fds.tod.m \in Int /\ fds.tod.s.s \in Int /\ fds.tod.s.sub \in Int
  BY DEF FieldsType, IsDate, IsTime
<1>4. Sequence(Writer!Seconds)
  <2> DEFINE a == Writer!Digits(fds.tod.s.s, 2)
             b == Writer!Digits(fds.tod.s.sub, FracWidth)
             c == IF FracWidth = 0 THEN <<>> ELSE <<".">> \o b
  <2>1. Sequence(a) /\ Sequence(b)
    BY <1>1, <1>3, DigitsAssumption
  <2> HIDE DEF a, b
  <2>2. Sequence(c)
    BY <2>1, Tuples, Concatenated
  <2> HIDE DEF c
  <2>3. Sequence(a \o c)
    BY <2>1, <2>2, Concatenated
  <2> QED
    BY <2>3 DEF Writer!Seconds, a, c, b
<1> QED
  BY <1>1, <1>2, <1>3, <1>4

LEMMA NamesOut ==
  ASSUME FieldsType, Sequence(out), Writer!Put_aA \/ Writer!Put_bBh \/ Writer!Put_p \/ Writer!Put_n \/ Writer!Put_t \/ Writer!Put_q \/ Writer!Put_Z
  PROVE  Sequence(out')
<1>1. CASE Writer!Put_aA
  <2> DEFINE s == Writer!Names(Writer!Weekdays, Writer!extract_weekday)
  <2>1. Writer!Writes({"a", "A"}, {""}, Writer!HasWeekday, s)
    BY <1>1 DEF Writer!Put_aA
  <2>2. Sequence(s)
    BY PartsWritten
  <2> HIDE DEF s
  <2> QED
    BY <2>1, <2>2, OutWritten
<1>2. CASE Writer!Put_bBh
  <2> DEFINE s == Writer!Names(Writer!Months, fds.ymd.m - 1)
  <2>1. Writer!Writes({"b", "B", "h"}, {""}, Writer!month_ok(fds.ymd.m), s)
    BY <1>2 DEF Writer!Put_bBh
  <2>2. Sequence(s)
    BY PartsWritten
  <2> HIDE DEF s
  <2> QED
    BY <2>1, <2>2, OutWritten
<1>3. CASE Writer!Put_p
  <2> DEFINE s == Writer!Names(Writer!Halves, IF fds.tod.h < 12 THEN 0 ELSE 1)
  <2>1. Writer!Writes({"p"}, {""}, fds.has_tod, s)
    BY <1>3 DEF Writer!Put_p
  <2>2. Sequence(s)
    BY PartsWritten
  <2> HIDE DEF s
  <2> QED
    BY <2>1, <2>2, OutWritten
<1>4. CASE Writer!Put_n
  <2> DEFINE s == <<"\n">>
  <2>1. Writer!Writes({"n"}, {""}, TRUE, s)
    BY <1>4 DEF Writer!Put_n
  <2>2. Sequence(s)
    BY Tuples
  <2> HIDE DEF s
  <2> QED
    BY <2>1, <2>2, OutWritten
<1>5. CASE Writer!Put_t
  <2> DEFINE s == <<"\t">>
  <2>1. Writer!Writes({"t"}, {""}, TRUE, s)
    BY <1>5 DEF Writer!Put_t
  <2>2. Sequence(s)
    BY Tuples
  <2> HIDE DEF s
  <2> QED
    BY <2>1, <2>2, OutWritten
<1>6. CASE Writer!Put_q
  <2> DEFINE s == <<"unit">>
  <2>1. Writer!Writes({"q"}, {""}, fds.has_tod, s)
    BY <1>6 DEF Writer!Put_q
  <2>2. Sequence(s)
    BY Tuples
  <2> HIDE DEF s
  <2> QED
    BY <2>1, <2>2, OutWritten
<1>7. CASE Writer!Put_Z
  <2> DEFINE s == <<"UTC">>
  <2>1. Writer!Writes({"Z"}, {""}, fds.utc, s)
    BY <1>7 DEF Writer!Put_Z
  <2>2. Sequence(s)
    BY Tuples
  <2> HIDE DEF s
  <2> QED
    BY <2>1, <2>2, OutWritten
<1> QED
  BY <1>1, <1>2, <1>3, <1>4, <1>5, <1>6, <1>7

LEMMA NumbersOut ==
  ASSUME FieldsType, Sequence(out), Writer!Put_d \/ Writer!Put_e \/ Writer!Put_m \/ Writer!Put_H \/ Writer!Put_M \/ Writer!Put_G \/ Writer!Put_U \/ Writer!Put_V \/ Writer!Put_W \/ Writer!Put_w \/ Writer!Put_Q
  PROVE  Sequence(out')
<1>1. CASE Writer!Put_d
  <2> DEFINE s == Writer!Digits(fds.ymd.d, 2)
  <2>1. Writer!Writes({"d"}, {"", "O"}, Writer!day_ok(fds.ymd.d), s)
    BY <1>1 DEF Writer!Put_d
  <2>2. Sequence(s)
    BY PartsWritten
  <2> HIDE DEF s
  <2> QED
    BY <2>1, <2>2, OutWritten
<1>2. CASE Writer!Put_e
  <2> DEFINE s == Writer!Filled(fds.ymd.d, 2, " ")
  <2>1. Writer!Writes({"e"}, {"", "O"}, Writer!day_ok(fds.ymd.d), s)
    BY <1>2 DEF Writer!Put_e
  <2>2. Sequence(s)
    <3>1. \A f : Sequence(Writer!Filled(fds.ymd.d, 2, f))
      BY PartsWritten
    <3> QED
      BY <3>1, Zenon
  <2> HIDE DEF s
  <2> QED
    BY <2>1, <2>2, OutWritten
<1>3. CASE Writer!Put_m
  <2> DEFINE s == Writer!Digits(fds.ymd.m, 2)
  <2>1. Writer!Writes({"m"}, {"", "O"}, Writer!month_ok(fds.ymd.m), s)
    BY <1>3 DEF Writer!Put_m
  <2>2. Sequence(s)
    BY PartsWritten
  <2> HIDE DEF s
  <2> QED
    BY <2>1, <2>2, OutWritten
<1>4. CASE Writer!Put_H
  <2> DEFINE s == Writer!Digits(fds.tod.h, 2)
  <2>1. Writer!WritesSigned({"H"}, {"", "O"}, s)
    BY <1>4 DEF Writer!Put_H
  <2>2. Sequence(s)
    BY PartsWritten
  <2> HIDE DEF s
  <2> QED
    BY <2>1, <2>2, OutWritten
<1>5. CASE Writer!Put_M
  <2> DEFINE s == Writer!Digits(fds.tod.m, 2)
  <2>1. Writer!WritesSigned({"M"}, {"", "O"}, s)
    BY <1>5 DEF Writer!Put_M
  <2>2. Sequence(s)
    BY PartsWritten
  <2> HIDE DEF s
  <2> QED
    BY <2>1, <2>2, OutWritten
<1>6. CASE Writer!Put_G
  <2> DEFINE s == Writer!Internal(Writer!IsoYear(fds.ymd), 4)
  <2>1. Writer!Writes({"G"}, {""}, Writer!HasDate, s)
    BY <1>6 DEF Writer!Put_G
  <2>2. Sequence(s)
    BY PartsWritten, DatesWritten DEF FieldsType
  <2> HIDE DEF s
  <2> QED
    BY <2>1, <2>2, OutWritten
<1>7. CASE Writer!Put_U
  <2> DEFINE s == Writer!Digits(Writer!WeekOfYear(fds.ymd, 0), 2)
  <2>1. Writer!Writes({"U"}, {"", "O"}, Writer!HasDate, s)
    BY <1>7 DEF Writer!Put_U
  <2>2. Sequence(s)
    BY PartsWritten, DatesWritten DEF FieldsType
  <2> HIDE DEF s
  <2> QED
    BY <2>1, <2>2, OutWritten
<1>8. CASE Writer!Put_V
  <2> DEFINE s == Writer!Digits(Writer!IsoWeek(fds.ymd), 2)
  <2>1. Writer!Writes({"V"}, {"", "O"}, Writer!HasDate, s)
    BY <1>8 DEF Writer!Put_V
  <2>2. Sequence(s)
    BY PartsWritten, DatesWritten DEF FieldsType
  <2> HIDE DEF s
  <2> QED
    BY <2>1, <2>2, OutWritten
<1>9. CASE Writer!Put_W
  <2> DEFINE s == Writer!Digits(Writer!WeekOfYear(fds.ymd, 1), 2)
  <2>1. Writer!Writes({"W"}, {"", "O"}, Writer!HasDate, s)
    BY <1>9 DEF Writer!Put_W
  <2>2. Sequence(s)
    BY PartsWritten, DatesWritten DEF FieldsType
  <2> HIDE DEF s
  <2> QED
    BY <2>1, <2>2, OutWritten
<1>10. CASE Writer!Put_w
  <2> DEFINE s == IF modified = "E" THEN <<"%", "E", "w">>
                  ELSE Writer!Digits(Writer!extract_weekday, 1)
  <2>1. Writer!Writes({"w"}, {"", "E", "O"}, Writer!HasWeekday, s)
    BY <1>10 DEF Writer!Put_w
  <2>2. Sequence(s)
    <3>1. Sequence(<<"%", "E", "w">>)
      BY Tuples
    <3>2. Sequence(Writer!Digits(Writer!extract_weekday, 1))
      BY PartsWritten, WeekdayWritten
    <3> QED
      BY <3>1, <3>2
  <2> HIDE DEF s
  <2> QED
    BY <2>1, <2>2, OutWritten
<1>11. CASE Writer!Put_Q
  <2> DEFINE s == Writer!Internal(Writer!to_duration(fds.tod, Writer!Frac), 1)
  <2>1. Writer!Writes({"Q"}, {""}, fds.has_tod, s)
    BY <1>11 DEF Writer!Put_Q
  <2>2. Sequence(s)
    BY PartsWritten, DurationWritten
  <2> HIDE DEF s
  <2> QED
    BY <2>1, <2>2, OutWritten
<1> QED
  BY <1>1, <1>2, <1>3, <1>4, <1>5, <1>6, <1>7, <1>8, <1>9, <1>10, <1>11

LEMMA ComputedOut ==
  ASSUME FieldsType, Sequence(out), Writer!Put_g \/ Writer!Put_I \/ Writer!Put_u \/ Writer!Put_y
  PROVE  Sequence(out')
<1>1. CASE Writer!Put_g
  <2> DEFINE n == Writer!Size(Writer!IsoYear(fds.ymd)) % 100
             s == Writer!Digits(n, 2)
  <2>1. Writer!Writes({"g"}, {""}, Writer!HasDate, s)
    BY <1>1 DEF Writer!Put_g
  <2>2. n \in Int
    BY DatesWritten DEF FieldsType, Writer!Size
  <2> HIDE DEF n
  <2>3. Sequence(s)
    BY <2>2, PartsWritten
  <2> HIDE DEF s
  <2> QED
    BY <2>1, <2>3, OutWritten
<1>2. CASE Writer!Put_I
  <2> DEFINE n == Writer!make12(fds.tod.h)
             s == Writer!Digits(n, 2)
  <2>1. Writer!WritesSigned({"I"}, {"", "O"}, s)
    BY <1>2 DEF Writer!Put_I
  <2>2. n \in Int
    BY PartsWritten DEF Writer!make12
  <2> HIDE DEF n
  <2>3. Sequence(s)
    BY <2>2, PartsWritten
  <2> HIDE DEF s
  <2> QED
    BY <2>1, <2>3, OutWritten
<1>3. CASE Writer!Put_u
  <2> DEFINE n == Writer!iso_encoding(Writer!extract_weekday)
             s == Writer!Digits(n, 1)
  <2>1. Writer!Writes({"u"}, {"", "O"}, Writer!HasWeekday, s)
    BY <1>3 DEF Writer!Put_u
  <2>2. n \in Int
    BY WeekdayWritten DEF Writer!iso_encoding
  <2> HIDE DEF n
  <2>3. Sequence(s)
    BY <2>2, PartsWritten
  <2> HIDE DEF s
  <2> QED
    BY <2>1, <2>3, OutWritten
<1>4. CASE Writer!Put_y
  <2> DEFINE n == (IF modified = "" THEN Writer!Size(fds.ymd.y) ELSE fds.ymd.y) % 100
             s == Writer!Digits(n, 2)
  <2>1. Writer!Writes({"y"}, {"", "E", "O"}, Writer!year_ok(fds.ymd.y), s)
    BY <1>4 DEF Writer!Put_y
  <2>2. n \in Int
    <3>1. fds.ymd.y \in Int
      BY PartsWritten
    <3>2. Writer!Size(fds.ymd.y) \in Int
      BY <3>1 DEF Writer!Size
    <3> DEFINE k == IF modified = "" THEN Writer!Size(fds.ymd.y) ELSE fds.ymd.y
    <3>3. k \in Int
      BY <3>1, <3>2
    <3> HIDE DEF k
    <3>4. k % 100 \in Int
      BY <3>3
    <3> QED
      BY <3>4 DEF k
  <2> HIDE DEF n
  <2>3. Sequence(s)
    BY <2>2, PartsWritten
  <2> HIDE DEF s
  <2> QED
    BY <2>1, <2>3, OutWritten
<1> QED
  BY <1>1, <1>2, <1>3, <1>4

LEMMA YearOut ==
  ASSUME FieldsType, Sequence(out), Writer!Put_Y \/ Writer!Put_C \/ Writer!Put_D \/ Writer!Put_F
  PROVE  Sequence(out')
<1> DEFINE t == fds.ymd
           y == t.y
<1>0. t.y \in Int /\ t.m \in Int /\ t.d \in Int
  BY PartsWritten
<1>1. CASE Writer!Put_Y
  <2> DEFINE w == IF modified = "" THEN 4 ELSE 1
             s == Writer!Internal(y, w)
  <2>1. Writer!Writes({"Y"}, {"", "E"}, Writer!year_ok(y), s)
    BY <1>1 DEF Writer!Put_Y
  <2>2. w \in Int
    OBVIOUS
  <2> HIDE DEF w
  <2>3. Sequence(s)
    BY <1>0, <2>2, PartsWritten
  <2> HIDE DEF s
  <2> QED
    BY <2>1, <2>3, OutWritten
<1>2. CASE Writer!Put_C
  <2> DEFINE c == Writer!Quotient(-(y - 99), 100)
             a == Writer!Internal(y \div 100, 2)
             b == Writer!Digits(y \div 100, 2)
             d == <<"-">> \o Writer!Digits(c, 2)
             s == IF modified = "E" THEN a ELSE IF y >= 0 THEN b ELSE d
  <2>1. Writer!Writes({"C"}, {"", "E"}, Writer!year_ok(y), s)
    BY <1>2 DEF Writer!Put_C
  <2>2. y \div 100 \in Int /\ c \in Int
    <3>1. -(y - 99) \in Int
      BY <1>0
    <3> QED
      BY <1>0, <3>1, WriterRules, QuotientType
  <2>3. Sequence(a) /\ Sequence(b)
    BY <2>2, PartsWritten
  <2> HIDE DEF c
  <2>4. Sequence(d)
    <3>1. Sequence(Writer!Digits(c, 2)) /\ Sequence(<<"-">>)
      BY <2>2, PartsWritten, Tuples
    <3> QED
      BY <3>1, Concatenated
  <2> HIDE DEF a, b, d
  <2>5. Sequence(s)
    BY <2>3, <2>4
  <2> HIDE DEF s
  <2> QED
    BY <2>1, <2>5, OutWritten
<1>3. CASE Writer!Put_D
  <2> DEFINE q == Writer!Quotient(y, 100)
             m == Writer!Digits(t.m, 2)
             d == Writer!Digits(t.d, 2)
             r == Writer!Right(y - 100 * q, 2)
             s == m \o <<"/">> \o d \o <<"/">> \o r
  <2>1. Writer!Writes({"D"}, {""}, Writer!HasDate, s)
    BY <1>3 DEF Writer!Put_D
  <2>2. q \in Int
    BY <1>0, WriterRules, QuotientType
  <2> HIDE DEF q
  <2>3. y - 100 * q \in Int
    BY <1>0, <2>2
  <2>4. Sequence(m) /\ Sequence(d) /\ Sequence(r) /\ Sequence(<<"/">>)
    BY <1>0, <2>3, PartsWritten, Tuples
  <2> HIDE DEF m, d, r
  <2>5. Sequence(s)
    BY <2>4, Concatenated
  <2> HIDE DEF s
  <2> QED
    BY <2>1, <2>5, OutWritten
<1>4. CASE Writer!Put_F
  <2> DEFINE m == Writer!Digits(t.m, 2)
             d == Writer!Digits(t.d, 2)
             r == Writer!Right(y, 4)
             s == r \o <<"-">> \o m \o <<"-">> \o d
  <2>1. Writer!Writes({"F"}, {""}, Writer!HasDate, s)
    BY <1>4 DEF Writer!Put_F
  <2>2. Sequence(m) /\ Sequence(d) /\ Sequence(r) /\ Sequence(<<"-">>)
    BY <1>0, PartsWritten, Tuples
  <2> HIDE DEF m, d, r
  <2>3. Sequence(s)
    BY <2>2, Concatenated
  <2> HIDE DEF s
  <2> QED
    BY <2>1, <2>3, OutWritten
<1> QED
  BY <1>1, <1>2, <1>3, <1>4

LEMMA TimeOut ==
  ASSUME FieldsType, Sequence(out),
         Writer!Put_j \/ Writer!Put_R \/ Writer!Put_S \/ Writer!Put_T \/ Writer!Put_z
  PROVE  Sequence(out')
<1> DEFINE t == fds.tod
           h == Writer!Digits(t.h, 2)
           m == Writer!Digits(t.m, 2)
<1>0. Sequence(h) /\ Sequence(m) /\ Sequence(<<":">>) /\ Sequence(Writer!Seconds)
  BY PartsWritten, Tuples
<1>1. CASE Writer!Put_j
  <2> DEFINE a == Writer!Digits(Writer!DayOfYear(fds.ymd), 3)
             b == Writer!Right(Writer!WholeDays, 3)
             s == IF Writer!HasDate THEN a ELSE b
  <2>1. Writer!Writes({"j"}, {""}, Writer!HasDate \/ fds.has_tod, s)
    BY Zenon, <1>1 DEF Writer!Put_j
  <2>2. Writer!DayOfYear(fds.ymd) \in Int /\ Writer!WholeDays \in Int
    BY DatesWritten, DurationWritten DEF FieldsType
  <2>3. Sequence(a) /\ Sequence(b)
    BY <2>2, PartsWritten
  <2> HIDE DEF a, b
  <2>4. Sequence(s)
    BY <2>3
  <2> HIDE DEF s
  <2> QED
    BY <2>1, <2>4, OutWritten
<1>2. CASE Writer!Put_R
  <2> DEFINE s == h \o <<":">> \o m
  <2>1. Writer!Writes({"R"}, {""}, fds.has_tod, s)
    BY <1>2 DEF Writer!Put_R
  <2> HIDE DEF h, m
  <2>2. Sequence(s)
    BY <1>0, Concatenated
  <2> HIDE DEF s
  <2> QED
    BY <2>1, <2>2, OutWritten
<1>3. CASE Writer!Put_S
  <2> DEFINE a == Writer!Digits(t.s.s, 2)
             s == IF modified = "" THEN Writer!Seconds ELSE a
  <2>1. Writer!WritesSigned({"S"}, {"", "O"}, s)
    BY <1>3 DEF Writer!Put_S
  <2>2. Sequence(a)
    BY PartsWritten
  <2> HIDE DEF a
  <2>3. Sequence(s)
    BY <1>0, <2>2
  <2> HIDE DEF s
  <2> QED
    BY <2>1, <2>3, OutWritten
<1>4. CASE Writer!Put_T
  <2> DEFINE sign == IF fds.tod.neg THEN <<"-">> ELSE <<>>
             s == sign \o h \o <<":">> \o m \o <<":">> \o Writer!Seconds
  <2>1. Writer!Writes({"T"}, {""}, fds.has_tod, s)
    BY <1>4 DEF Writer!Put_T
  <2>2. Sequence(sign)
    BY Tuples
  <2> HIDE DEF sign, h, m
  <2>3. Sequence(s)
    BY <1>0, <2>2, Concatenated
  <2> HIDE DEF s
  <2> QED
    BY <2>1, <2>3, OutWritten
<1>5. CASE Writer!Put_z
  <2> DEFINE colon == IF modified = "" THEN <<>> ELSE <<":">>
             s == <<"+", "0", "0">> \o colon \o <<"0", "0">>
  <2>1. Writer!Writes({"z"}, {"", "E", "O"}, fds.utc, s)
    BY <1>5 DEF Writer!Put_z
  <2>2. Sequence(colon) /\ Sequence(<<"+", "0", "0">>) /\ Sequence(<<"0", "0">>)
    BY Tuples
  <2> HIDE DEF colon
  <2>3. Sequence(s)
    BY <2>2, Concatenated
  <2> HIDE DEF s
  <2> QED
    BY <2>1, <2>3, OutWritten
<1> QED
  BY <1>1, <1>2, <1>3, <1>4, <1>5

LEMMA LiteralOut ==
  ASSUME Sequence(out), \/ Writer!Put_EO \/ Writer!Put_percent \/ Writer!Put_modified
                        \/ Writer!Put_plain \/ Writer!Put_default \/ Writer!Put_end
  PROVE  Sequence(out')
<1>0. ASSUME NEW s, Writer!Literally(s), Sequence(s) PROVE Sequence(out')
  BY <1>0, Concatenated DEF Writer!Literally
<1>1. CASE Writer!Put_EO
  BY <1>1 DEF Writer!Put_EO
<1>2. CASE Writer!Put_percent
  <2>1. CASE command
    <3> DEFINE s == IF modified = "" THEN <<"%">> ELSE <<"%", modified, "%">>
    <3>1. Writer!Literally(s)
      BY <1>2, <2>1 DEF Writer!Put_percent
    <3>2. Sequence(s)
      BY Tuples
    <3> HIDE DEF s
    <3> QED
      BY <1>0, <3>1, <3>2
  <2>2. CASE ~command
    BY <1>2, <2>2 DEF Writer!Put_percent
  <2> QED
    BY <2>1, <2>2
<1>3. CASE Writer!Put_modified
  <2>1. Writer!Literally(<<"%", modified, Writer!Char>>)
    BY <1>3 DEF Writer!Put_modified, Writer!Unmodifiable
  <2> QED
    BY <1>0, <2>1, Tuples
<1>4. CASE Writer!Put_plain
  <2>1. Writer!Literally(<<Writer!Char>>)
    BY <1>4 DEF Writer!Put_plain, Writer!Plain
  <2> QED
    BY <1>0, <2>1, Tuples
<1> DEFINE c == IF command THEN <<"%">> ELSE <<>>
           m == IF modified # "" THEN <<modified>> ELSE <<>>
<1>5. Sequence(c) /\ Sequence(m) /\ Sequence(<<"%">>) /\ \A a : Sequence(<<a>>)
  BY Tuples
<1>6. CASE Writer!Put_default
  <2>1. Writer!Literally(c \o m \o <<Writer!Char>>)
    BY <1>6 DEF Writer!Put_default
  <2> HIDE DEF c, m
  <2>2. Sequence(c \o m \o <<Writer!Char>>)
    BY <1>5, Concatenated
  <2> QED
    BY <1>0, <2>1, <2>2
<1>7. CASE Writer!Put_end
  <2>1. Writer!Literally(<<"%">> \o m)
    BY <1>7 DEF Writer!Put_end
  <2> HIDE DEF m
  <2>2. Sequence(<<"%">> \o m)
    BY <1>5, Concatenated
  <2> QED
    BY <1>0, <2>1, <2>2
<1> QED
  BY <1>1, <1>2, <1>3, <1>4, <1>6, <1>7

LEMMA OutStep == ASSUME FieldsType, Sequence(out), Writer!to_stream PROVE Sequence(out')
BY NamesOut, NumbersOut, ComputedOut, YearOut, TimeOut, LiteralOut DEF Writer!to_stream

-----------------------------------------------------------------------------
(* The format is written to its end                                        *)

Flags == wfail \in BOOLEAN /\ insert_negative \in BOOLEAN
WriterTurn ==
    /\ at <= Len(fmt) /\ at' = at + 1 /\ command' = FALSE /\ modified' = "" /\ fds' = fds
    /\ Flags'

LEMMA WritesTurn ==
  ASSUME Flags,
         \/ Writer!Put_aA \/ Writer!Put_bBh \/ Writer!Put_C \/ Writer!Put_d \/ Writer!Put_e
         \/ Writer!Put_D \/ Writer!Put_F \/ Writer!Put_G \/ Writer!Put_g \/ Writer!Put_H
         \/ Writer!Put_I \/ Writer!Put_j \/ Writer!Put_m \/ Writer!Put_M \/ Writer!Put_n
         \/ Writer!Put_p \/ Writer!Put_Q \/ Writer!Put_q \/ Writer!Put_R \/ Writer!Put_S
         \/ Writer!Put_t \/ Writer!Put_T \/ Writer!Put_u \/ Writer!Put_U \/ Writer!Put_V
         \/ Writer!Put_w \/ Writer!Put_W \/ Writer!Put_y \/ Writer!Put_Y \/ Writer!Put_z
         \/ Writer!Put_Z
  PROVE  WriterTurn
<1>1. ASSUME NEW chars, NEW mods, NEW has, NEW s, Writer!Writes(chars, mods, has, s)
      PROVE  WriterTurn
  BY <1>1 DEF Writer!Writes, Writer!Writing, Writer!Advance, Writer!EndCommand, WriterTurn, Flags
<1>2. ASSUME NEW chars, NEW mods, NEW s, Writer!WritesSigned(chars, mods, s)
      PROVE  WriterTurn
  BY <1>2 DEF Writer!WritesSigned, Writer!Writing, Writer!Advance, Writer!EndCommand, WriterTurn,
       Flags
<1>3. ASSUME Writer!Put_aA \/ Writer!Put_bBh \/ Writer!Put_C \/ Writer!Put_d \/ Writer!Put_e
      PROVE  WriterTurn
  BY <1>1, <1>2, <1>3 DEF Writer!Put_aA, Writer!Put_bBh, Writer!Put_C, Writer!Put_d, Writer!Put_e
<1>4. ASSUME Writer!Put_D \/ Writer!Put_F \/ Writer!Put_G \/ Writer!Put_g \/ Writer!Put_H
      PROVE  WriterTurn
  BY <1>1, <1>2, <1>4 DEF Writer!Put_D, Writer!Put_F, Writer!Put_G, Writer!Put_g, Writer!Put_H
<1>5. ASSUME Writer!Put_I \/ Writer!Put_m \/ Writer!Put_M \/ Writer!Put_n
      PROVE  WriterTurn
  BY <1>1, <1>2, <1>5 DEF Writer!Put_I, Writer!Put_m, Writer!Put_M, Writer!Put_n
<1>6. ASSUME Writer!Put_j PROVE WriterTurn
  BY Zenon, <1>1, <1>6 DEF Writer!Put_j
<1>7. ASSUME Writer!Put_p \/ Writer!Put_Q \/ Writer!Put_q \/ Writer!Put_R \/ Writer!Put_S
      PROVE  WriterTurn
  BY <1>1, <1>2, <1>7 DEF Writer!Put_p, Writer!Put_Q, Writer!Put_q, Writer!Put_R, Writer!Put_S
<1>8. ASSUME Writer!Put_t \/ Writer!Put_T \/ Writer!Put_u \/ Writer!Put_U \/ Writer!Put_V
      PROVE  WriterTurn
  BY <1>1, <1>2, <1>8 DEF Writer!Put_t, Writer!Put_T, Writer!Put_u, Writer!Put_U, Writer!Put_V
<1>9. ASSUME Writer!Put_w \/ Writer!Put_W \/ Writer!Put_y \/ Writer!Put_Y \/ Writer!Put_z \/ Writer!Put_Z
      PROVE  WriterTurn
  BY <1>1, <1>2, <1>9 DEF Writer!Put_w, Writer!Put_W, Writer!Put_y, Writer!Put_Y, Writer!Put_z, Writer!Put_Z
<1> QED
  BY <1>3, <1>4, <1>5, <1>6, <1>7, <1>8, <1>9

\* The other rounds of the loop write what stands in the format.
LEMMA LiteralTurn ==
  ASSUME Flags, Writer!Put_EO \/ Writer!Put_percent \/ Writer!Put_modified \/ Writer!Put_plain
                \/ Writer!Put_default \/ Writer!Put_end
  PROVE  /\ fds' = fds /\ Flags'
         /\ at' = at \/ (at <= Len(fmt) /\ at' = at + 1)
         /\ Command => Command'
<1> USE DEF Flags
<1>1. CASE Writer!Put_EO
  <2>1. /\ command /\ command' = command /\ fmt[at] \in {"E", "O"} /\ modified' = fmt[at]
        /\ at <= Len(fmt) /\ at' = at + 1 /\ UNCHANGED <<fds, wfail, insert_negative>>
    BY <1>1 DEF Writer!Put_EO, Writer!Writing, Writer!Char, Writer!Advance
  <2> QED
    BY <2>1 DEF Command
<1>2. CASE Writer!Put_percent
  <2>1. /\ at <= Len(fmt) /\ at' = at + 1 /\ UNCHANGED <<fds, wfail, insert_negative>>
        /\ \/ command' = FALSE /\ modified' = ""
           \/ ~command /\ command' = TRUE /\ modified' = modified
    BY <1>2 DEF Writer!Put_percent, Writer!Writing, Writer!Advance, Writer!EndCommand,
         Writer!Literally
  <2> QED
    BY <2>1 DEF Command
<1>3. CASE Writer!Put_modified \/ Writer!Put_default
  <2>1. /\ at <= Len(fmt) /\ at' = at + 1 /\ UNCHANGED <<fds, wfail, insert_negative>>
        /\ command' = FALSE /\ modified' = ""
    BY <1>3 DEF Writer!Put_modified, Writer!Unmodifiable, Writer!Put_default, Writer!Writing,
         Writer!Advance, Writer!EndCommand, Writer!Literally
  <2> QED
    BY <2>1 DEF Command
<1>4. CASE Writer!Put_plain
  <2>1. /\ at <= Len(fmt) /\ at' = at + 1
        /\ UNCHANGED <<fds, wfail, insert_negative, command, modified>>
    BY <1>4 DEF Writer!Put_plain, Writer!Plain, Writer!Writing, Writer!Advance, Writer!Literally
  <2> QED
    BY <2>1 DEF Command
<1>5. CASE Writer!Put_end
  <2>1. UNCHANGED <<at, fds, wfail, insert_negative>> /\ command' = FALSE /\ modified' = ""
    BY <1>5 DEF Writer!Put_end, Writer!EndCommand, Writer!Literally
  <2> QED
    BY <2>1 DEF Command
<1> QED
  BY <1>1, <1>2, <1>3, <1>4, <1>5

LEMMA WriterStep ==
  ASSUME Types, Flags, Place, Command, Writer!to_stream
  PROVE  Flags' /\ Place' /\ Command' /\ fds' = fds
<1>1. \/ WriterTurn
      \/ /\ fds' = fds /\ Flags' /\ Command'
         /\ at' = at \/ (at <= Len(fmt) /\ at' = at + 1)
  BY WritesTurn, LiteralTurn DEF Writer!to_stream
<1>2. fds' = fds /\ Flags' /\ (at' = at \/ (at <= Len(fmt) /\ at' = at + 1))
  BY <1>1 DEF WriterTurn
<1>3. Command'
  BY <1>1 DEF WriterTurn, Command
<1> DEFINE L == Len(fmt)
<1>4. L \in Nat /\ (Place' <=> at' \in 1..(L + 1)) /\ at \in 1..(L + 1)
  BY Written DEF Types, Place
<1> HIDE DEF L
<1>5. Place'
  BY <1>2, <1>4 DEF L
<1> QED
  BY <1>2, <1>3, <1>5

-----------------------------------------------------------------------------
(* The invariant                                                           *)

Shapes ==
    /\ phase \in {"write", "sent", "read", "rewrite", "done"} /\ request \in Requests
    /\ Place /\ Command /\ Flags /\ damaged \in BOOLEAN
    /\ width # -1 => command /\ phase \in {"read", "done"}
    /\ phase \in {"write", "sent"} => input = Input(<<>>)
    /\ phase = "write" => fds = FieldsOf(request.kind, request.value) /\ Sequence(out)
    /\ Sequence(text) /\ Left(input)

LEMMA LeftWhole == ASSUME Sequence(text) PROVE Left(Input(text)) /\ Left(Input(<<>>))
<1>1. PICK S : text \in Seq(S)
  BY DEF Sequence
<1>2. SubSeq(text, 0 + 1, Len(text)) = text /\ SubSeq(text, Len(text) + 1, Len(text)) = <<>>
      /\ Len(text) \in Nat
  BY <1>1
<1>3. text \in Ends /\ <<>> \in Ends
  <2>1. 0 \in 0..Len(text) /\ Len(text) \in 0..Len(text)
    BY <1>2
  <2> QED
    BY <1>2, <2>1 DEF Ends
<1> QED
  BY <1>3 DEF Left, Input

LEMMA FieldsWritten ==
  ASSUME request \in Requests, fds = FieldsOf(request.kind, request.value)
  PROVE  FieldsType
<1> DEFINE v == request.value
           t == hh_mm_ss(v.n, Frac)
<1>1. v.ymd.y \in Int /\ v.ymd.m \in Int /\ v.ymd.d \in Int /\ v.wd \in Int /\ v.n \in Int
  BY RequestsAssumption
<1> HIDE DEF v
<1>2. IsTime(t)
  BY <1>1, TimeType
<1> HIDE DEF t
<1>3. /\ fds.ymd = v.ymd /\ fds.wd = v.wd /\ fds.tod = t
      /\ fds.has_tod = HasTime(request.kind)
  BY DEF FieldsOf, v, t
<1>4. HasTime(request.kind) \in BOOLEAN
  BY DEF HasTime
<1> QED
  BY <1>1, <1>2, <1>3, <1>4 DEF FieldsType, IsDate

LEMMA FirstPlace == ASSUME NEW f \in Seq(STRING) PROVE 1 \in 1..(Len(f) + 1)
<1>1. Len(f) \in Nat
  OBVIOUS
<1> QED
  BY <1>1

LEMMA ShapesInit == Init => Shapes
<1> SUFFICES ASSUME Init PROVE Shapes
  OBVIOUS
<1>1. /\ request \in Requests /\ phase = "write" /\ at = 1 /\ command = FALSE /\ modified = ""
      /\ out = <<>> /\ wfail = FALSE /\ text = <<>> /\ damaged = FALSE /\ width = -1
      /\ input = Input(<<>>) /\ fds = FieldsOf(request.kind, request.value) /\ fmt = request.fmt
  BY DEF Init
<1>2. Sequence(text) /\ Sequence(out)
  BY <1>1, Tuples
<1>3. Left(input)
  BY <1>1, <1>2, LeftWhole
<1>4. Place
  <2>1. fmt \in Seq(STRING)
    BY <1>1, RequestsAssumption
  <2> QED
    BY <1>1, <2>1, FirstPlace DEF Place
<1>5. Command
  BY <1>1 DEF Command
<1>6. Flags
  BY <1>1 DEF Init, Flags
<1> QED
  BY <1>1, <1>2, <1>3, <1>4, <1>5, <1>6 DEF Shapes

\* Whatever leaves the text and the stream alone leaves what is left of it.
LEMMA SameLeft ==
  ASSUME text' = text
  PROVE  /\ Sequence(text) => Sequence(text)'
         /\ Left(input') => Left(input)'
BY DEF Sequence, Left, Ends

LEMMA ShapesNext == TInv /\ Shapes /\ [Next]_vars => Shapes'
<1> SUFFICES ASSUME TInv, Shapes, [Next]_vars PROVE Shapes'
  OBVIOUS
<1>0. Types /\ Sequence(text) /\ Left(input) /\ request \in Requests /\ Place /\ Command /\ Flags
  BY DEF TInv, Shapes
<1>1. CASE Write
  <2>1. /\ UNCHANGED <<phase, request, text, damaged, width, input>>
        /\ phase \in {"write", "rewrite"} /\ Writer!to_stream
    BY <1>1 DEF Write
  <2>2. Flags' /\ Place' /\ Command' /\ fds' = fds
    BY <1>0, <2>1, WriterStep
  <2>3. Sequence(text)' /\ Left(input)'
    BY <1>0, <2>1, SameLeft
  <2>4. phase = "write" => fds' = FieldsOf(request.kind, request.value)' /\ Sequence(out)'
    <3>1. ASSUME phase = "write" PROVE Sequence(out')
      <4>1. FieldsType /\ Sequence(out)
        BY <3>1, FieldsWritten DEF Shapes
      <4> QED
        BY <2>1, <4>1, OutStep
    <3>2. Sequence(out') => Sequence(out)'
      BY DEF Sequence
    <3>3. FieldsOf(request.kind, request.value)' = FieldsOf(request.kind, request.value)
      BY <2>1 DEF FieldsOf
    <3> QED
      BY <2>2, <3>1, <3>2, <3>3 DEF Shapes
  <2>5. width' = -1 /\ (phase' \in {"write", "sent"} => input' = Input(<<>>))
    BY <2>1 DEF Shapes
  <2> QED
    BY <2>1, <2>2, <2>3, <2>4, <2>5 DEF Shapes
<1>2. CASE Sent
  <2>1. /\ UNCHANGED <<request, damaged, fmt, at, command, modified, width, insert_negative, wfail, input>>
        /\ phase = "write" /\ phase' \in {"done", "sent"} /\ text' = out
    BY <1>2 DEF Sent
  <2>2. Sequence(out) /\ input = Input(<<>>) /\ width = -1
    BY <2>1 DEF Shapes
  <2>3. Sequence(text)'
    BY <2>1, <2>2 DEF Sequence
  <2>4. Left(Input(<<>>))'
    BY <2>3, LeftWhole, PTL
  <2>5. Left(input)'
    BY <2>1, <2>2, <2>4 DEF Left, Input
  <2>6. Place' /\ Command' /\ Flags'
    BY <1>0, <2>1 DEF Place, Command, Flags
  <2>7. request' \in Requests /\ damaged' \in BOOLEAN
    BY <2>1 DEF Shapes
  <2> QED
    BY <2>1, <2>2, <2>3, <2>5, <2>6, <2>7 DEF Shapes
<1>3. CASE Slip
  <2>1. /\ UNCHANGED <<phase, request, fmt, at, command, modified, width, insert_negative, wfail, input>>
        /\ phase = "sent" /\ damaged' = TRUE
    BY <1>3 DEF Slip
  <2>2. PICK i \in 1..Len(text) : text' = [text EXCEPT ![i] = text'[i]]
    <3>1. PICK i \in 1..Len(text) :
              text' = [text EXCEPT ![i] = Digit[((DigitValue(@) + 1) % 10) + 1]]
      BY <1>3 DEF Slip
    <3> DEFINE c == Digit[((DigitValue(text[i]) + 1) % 10) + 1]
    <3>2. text' = [text EXCEPT ![i] = c]
      BY <3>1
    <3> HIDE DEF c
    <3>3. text'[i] = c
      BY <1>0, <3>2 DEF Sequence
    <3> QED
      BY <3>2, <3>3
  <2> DEFINE c == text'[i]
  <2>3. Sequence(text)'
    <3>1. PICK S : text \in Seq(S)
      BY <1>0 DEF Sequence
    <3>2. text' \in Seq(S \cup {c})
      <4>1. text \in Seq(S \cup {c})
        BY <3>1, SeqDef
      <4> QED
        BY <2>2, <4>1, ExceptSeq
    <3> QED
      BY <3>2 DEF Sequence
  <2>4. Left(Input(<<>>))'
    BY <2>3, LeftWhole, PTL
  <2>5. input = Input(<<>>) /\ width = -1
    BY <2>1 DEF Shapes
  <2>6. Left(input)'
    BY <2>1, <2>4, <2>5 DEF Left, Input
  <2>7. Place' /\ Command' /\ Flags'
    BY <1>0, <2>1 DEF Place, Command, Flags
  <2>8. request' \in Requests /\ damaged' \in BOOLEAN
    BY <2>1 DEF Shapes
  <2> QED
    BY <2>1, <2>3, <2>5, <2>6, <2>7, <2>8 DEF Shapes
<1>4. CASE Begin
  <2>1. /\ UNCHANGED <<request, text, damaged, fmt, command, modified, width, insert_negative, wfail>>
        /\ phase' = "read" /\ at' = 1 /\ input' = Input(text) /\ phase = "sent"
    BY <1>4 DEF Begin
  <2>2. Sequence(text)' /\ Left(input)'
    BY <1>0, <2>1, LeftWhole, SameLeft
  <2>3. Place'
    <3>1. fmt' \in Seq(STRING)
      BY <1>0, <2>1 DEF Types
    <3> QED
      BY <2>1, <3>1, FirstPlace DEF Place
  <2>4. Command' /\ Flags'
    BY <1>0, <2>1 DEF Command, Flags
  <2>5. request' \in Requests /\ damaged' \in BOOLEAN /\ width' = -1
    BY <2>1 DEF Shapes
  <2> QED
    BY <2>1, <2>2, <2>3, <2>4, <2>5 DEF Shapes
<1>5. CASE Read
  <2>1. /\ UNCHANGED <<phase, request, text, damaged, insert_negative, wfail>>
        /\ phase = "read" /\ from_stream
    BY <1>5 DEF Read
  <2>2. Sequence(text)' /\ Left(input)'
    BY <1>0, <2>1, LeftStep, SameLeft DEF Flow
  <2>3. Place'
    BY <1>0, <2>1, PlaceRead
  <2>4. Command' /\ (width' # -1 => command')
    <3>1. width # -1 => command
      BY DEF Shapes
    <3> QED
      BY <1>0, <2>1, <3>1, CommandKept
  <2>5. Flags' /\ request' \in Requests /\ damaged' \in BOOLEAN
    BY <1>0, <2>1 DEF Flags, Shapes
  <2> QED
    BY <2>1, <2>2, <2>3, <2>4, <2>5 DEF Shapes
<1>6. CASE Received
  <2>1. UNCHANGED <<request, text, damaged, fmt, input>> /\ phase' \in {"rewrite", "done"}
        /\ phase = "read"
    BY <1>6 DEF Received
  <2>2. Sequence(text)' /\ Left(input)'
    BY <1>0, <2>1, SameLeft
  <2>3. CASE Accepts(request.kind)
    <3>1. /\ at' = 1 /\ command' = FALSE /\ modified' = "" /\ width' = -1 /\ wfail' = FALSE
          /\ insert_negative' = (fds'.has_tod /\ fds'.tod.neg) /\ phase' = "rewrite"
      BY <1>6, <2>3 DEF Received
    <3>2. Place'
      <4>1. fmt' \in Seq(STRING)
        BY <1>0, <2>1 DEF Types
      <4> QED
        BY <3>1, <4>1, FirstPlace DEF Place
    <3>3. Command' /\ Flags'
      BY <3>1 DEF Command, Flags
    <3> QED
      BY <2>1, <2>2, <3>1, <3>2, <3>3 DEF Shapes
  <2>4. CASE ~Accepts(request.kind)
    <3>1. UNCHANGED <<at, command, modified, width, insert_negative, wfail>> /\ phase' = "done"
      BY <1>6, <2>4 DEF Received
    <3>2. Place' /\ Command' /\ Flags'
      BY <1>0, <2>1, <3>1 DEF Place, Command, Flags
    <3> QED
      BY <2>1, <2>2, <3>1, <3>2 DEF Shapes
  <2> QED
    BY <2>3, <2>4
<1>7. CASE Rewritten
  <2>1. /\ UNCHANGED <<request, text, damaged, fmt, at, command, modified, width, insert_negative, wfail, input>>
        /\ phase' = "done" /\ phase = "rewrite"
    BY <1>7 DEF Rewritten
  <2>2. Sequence(text)' /\ Left(input)'
    BY <1>0, <2>1, SameLeft
  <2>3. Place' /\ Command' /\ Flags'
    BY <1>0, <2>1 DEF Place, Command, Flags
  <2> QED
    BY <2>1, <2>2, <2>3 DEF Shapes
<1>8. CASE Done \/ UNCHANGED vars
  <2>1. UNCHANGED vars
    BY <1>8 DEF Done
  <2>2. Sequence(text)' /\ Left(input)'
    BY <1>0, <2>1, SameLeft DEF vars
  <2>3. Place' /\ Command' /\ Flags'
    BY <1>0, <2>1 DEF Place, Command, Flags, vars
  <2>4. phase' = "write" => fds' = FieldsOf(request.kind, request.value)' /\ Sequence(out)'
    BY <2>1 DEF vars, Shapes, FieldsOf, Sequence
  <2> QED
    BY <2>1, <2>2, <2>3, <2>4 DEF Shapes, vars
<1> QED
  BY <1>1, <1>2, <1>3, <1>4, <1>5, <1>6, <1>7, <1>8 DEF Next

LEMMA ShapesAgree == TInv /\ Shapes => TypeOK
<1> SUFFICES ASSUME TInv, Shapes PROVE TypeOK
  OBVIOUS
<1>1. Types /\ Left(input) /\ Sequence(text) /\ Place /\ Command /\ Flags
  BY DEF TInv, Shapes
<1>2. input.rest \in Ends /\ input.fail \in BOOLEAN /\ input.eof \in BOOLEAN
  BY <1>1, LeftSame
<1>3. \A i \in 1..Len(input.rest) : input.rest[i] = text[Len(text) - Len(input.rest) + i]
  BY <1>1, <1>2, EndOf
<1>4. {insert_negative, wfail, damaged, input.fail, input.eof} \subseteq BOOLEAN
  BY <1>1, <1>2 DEF Flags, Shapes
<1>5. request.kind \in Kinds
  BY RequestsAssumption DEF Shapes
<1>6. width \in Nat \cup {-1} /\ (width # -1 => command)
  BY <1>1 DEF Types, Shapes
<1>7. at \in 1..(Len(fmt) + 1) /\ command \in BOOLEAN /\ modified \in {"", "E", "O"}
      /\ (modified # "" => command)
  BY <1>1 DEF Place, Command
<1>8. phase \in {"write", "sent", "read", "rewrite", "done"}
  BY DEF Shapes
<1>9. taken # NoValue => got # Unread /\ ~input.fail /\ ~got.fail
  <2> SUFFICES ASSUME taken # NoValue PROVE got # Unread /\ ~input.fail /\ ~got.fail
    OBVIOUS
  <2>1. got # Unread /\ ~got.fail /\ got = Outcome
    BY DEF TInv, Results, Accepts
  <2> QED
    BY <2>1 DEF Outcome, Nothing
<1> QED
  BY <1>3, <1>4, <1>5, <1>6, <1>7, <1>8, <1>9 DEF TypeOK

-----------------------------------------------------------------------------
(* The theorems                                                            *)

\* However the text and the format are made, what has been found keeps its
\* types through every conversion, and the result is settled when the loop of
\* from_stream is over (date.h:6413-7434).
THEOREM Invariance == Spec => []TInv
  BY TInvInit, TInvNext, PTL DEF Spec

\* from_stream makes a time of the fields it has found, in whatever order and
\* however often they occur, and parse accepts it only if each of them is true
\* of that time (date.h:7614-7667, 7792-7848), as long as the hour is not one
\* that has become negative in an int.
THEOREM TimeCorrect == Spec => []TimeIsTrue
  BY Invariance, TimeAgrees, PTL

\* from_stream makes a date of the fields it has found (date.h:7437-7613): of
\* a year, of its century and two digits, of a week and a weekday, of a day of
\* the year.  parse accepts it only if each of them is true of that date, as
\* long as the numbers that were found fit into the types that they become: a
\* width of more digits than that wraps them around, and 257 is a month then.
THEOREM FoundCorrect == Spec => [](Narrow => FoundIsTrue)
  BY Invariance, FoundAgrees, PTL

\* Without digits in the format there is no width, and what its conversions
\* read by themselves is never too long (date.h:6422-7434).
THEOREM FoundWithoutWidth == Spec => [](Unwidened => FoundIsTrue)
<1>1. Init => NarrowInv
  BY NarrowInit
<1>2. TInv /\ NarrowInv /\ [Next]_vars => NarrowInv'
  BY NarrowNext
<1>3. TInv /\ NarrowInv => (Unwidened => FoundIsTrue)
  BY SlimIsNarrow, FoundAgrees DEF NarrowInv, Slender
<1> QED
  BY <1>1, <1>2, <1>3, Invariance, PTL DEF Spec

\* The loops of to_stream and from_stream take the format a command at a time
\* and do not go beyond its end, a modifier and a width belong to a command,
\* what from_stream has not read yet is always an end of the text that was
\* written, damaged or not, and no value comes of a stream that has failed
\* (date.h:4880-5932, 6413-7435, 7677-7678).
THEOREM TypeCorrect == Spec => []TypeOK
<1>1. Init => Shapes
  BY ShapesInit
<1>2. TInv /\ Shapes /\ [Next]_vars => Shapes'
  BY ShapesNext
<1>3. TInv /\ Shapes => TypeOK
  BY ShapesAgree
<1> QED
  BY <1>1, <1>2, <1>3, Invariance, PTL DEF Spec
=============================================================================
