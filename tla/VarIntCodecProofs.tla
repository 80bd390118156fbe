------------------------- MODULE VarIntCodecProofs -------------------------
(***************************************************************************)
(* Proofs about VarIntCodec for any base, length and number of values (so  *)
(* for VarInt and VarLong both) and any bytes: what the reader's verdicts  *)
(* mean, that its loop computes FromBytes, and the round trip.             *)
(***************************************************************************)
EXTENDS VarIntCodec, SequenceTheorems, WellFoundedInduction, TLAPS

Assumptions == BaseAssumption /\ SizeAssumption /\ WeightAssumption /\ ForeignAssumption

-----------------------------------------------------------------------------
\* Induction over the natural numbers, for a set in the place of a predicate.
Below == {p \in Nat \X Nat : p[1] < p[2]}

LEMMA BelowIsWellFounded == IsWellFoundedOn(Below, Nat)
<1> SUFFICES ASSUME NEW f \in [Nat -> Nat], \A n \in Nat : <<f[n + 1], f[n]>> \in Below
             PROVE  FALSE
  BY DEF IsWellFoundedOn
<1> QED BY NatLessThanWellFounded DEF OpToRel, IsWellFoundedOn, Below

\* A nonempty set of natural numbers has a least element, which Min finds.
LEMMA LeastOf ==
  ASSUME NEW S, S \subseteq Nat, S # {}
  PROVE  Min(S) \in S /\ \A y \in S : Min(S) <= y
<1>1. PICK x \in S : \A y \in S : ~(<<y, x>> \in Below)
  BY BelowIsWellFounded, WFMin
<1>2. ASSUME NEW y \in S PROVE x <= y
  <2>1. x \in Nat /\ y \in Nat /\ ~(<<y, x>> \in Below)
    BY <1>1
  <2> QED BY <2>1 DEF Below
<1> QED BY <1>2, Zenon DEF Min

LEMMA MinIs ==
  ASSUME NEW S, S \subseteq Nat, NEW x \in S, \A y \in S : x <= y
  PROVE  Min(S) = x
<1>1. Min(S) \in S /\ \A y \in S : Min(S) <= y
  BY LeastOf
<1>2. Min(S) \in Nat /\ x \in Nat /\ Min(S) <= x /\ x <= Min(S)
  BY <1>1
<1> QED BY <1>2

\* A set with 0 and with the successor of each number in it has them all.
LEMMA NatSetInduction ==
  ASSUME NEW T, 0 \in T, \A n \in Nat : n \in T => n + 1 \in T
  PROVE  Nat \subseteq T
<1> SUFFICES ASSUME Nat \ T # {} PROVE FALSE
  OBVIOUS
<1> DEFINE x == Min(Nat \ T)
<1>1. x \in Nat \ T /\ \A y \in Nat \ T : x <= y
  BY LeastOf
<1> HIDE DEF x
<1>2. x - 1 \in Nat
  BY <1>1
<1>3. x - 1 \in T
  BY <1>1, <1>2
<1> QED BY <1>1, <1>2, <1>3

-----------------------------------------------------------------------------
\* Division by a positive number, and its quotient and remainder from any
\* decomposition.
LEMMA Division ==
  ASSUME NEW a \in Nat, NEW b \in Nat, b > 0
  PROVE  /\ a \div b \in Nat
         /\ a % b \in 0..(b - 1)
         /\ a = b * (a \div b) + (a % b)
         /\ a \div b = 0 <=> a < b
<1>1. a \div b \in Nat /\ a % b \in 0..(b - 1) /\ a = b * (a \div b) + (a % b)
  OBVIOUS
<1>2. a \div b >= 1 => a >= b
  BY <1>1
<1> QED BY <1>1, <1>2

LEMMA Multiple ==
  ASSUME NEW b \in Nat, NEW k \in Int, k >= 1
  PROVE  b * k >= b
OBVIOUS

LEMMA Quotient ==
  ASSUME NEW b \in Nat, b > 0, NEW q \in Nat, NEW r \in 0..(b - 1), NEW a \in Nat, a = b * q + r
  PROVE  a \div b = q /\ a % b = r
<1> DEFINE p == a \div b
           s == a % b
<1>1. p \in Nat /\ s \in 0..(b - 1) /\ a = b * p + s
  BY Division
<1> HIDE DEF p, s
<1>2. b * (q - p) = s - r /\ b * (p - q) = r - s
  BY <1>1
<1>3. ~(q >= p + 1)
  BY <1>1, <1>2, Multiple
<1>4. ~(p >= q + 1)
  BY <1>1, <1>2, Multiple
<1>5. p = q /\ s = r
  BY <1>1, <1>3, <1>4
<1> QED BY <1>5 DEF p, s

\* Shifting by one more group: what is left above, and what is below.
LEMMA OneMoreGroup ==
  ASSUME NEW a \in Nat, NEW w \in Nat, w > 0, NEW b \in Nat, b > 0
  PROVE  /\ b * w \in Nat /\ b * w > 0
         /\ a \div (b * w) = (a \div w) \div b
         /\ a % (b * w) = (a % w) + ((a \div w) % b) * w
<1> DEFINE q == a \div w
           r == a % w
           p == q \div b
           s == q % b
<1>1. q \in Nat /\ r \in 0..(w - 1) /\ a = w * q + r
  BY Division
<1> HIDE DEF q, r
<1>2. p \in Nat /\ s \in 0..(b - 1) /\ q = b * p + s
  BY <1>1, Division
<1> HIDE DEF p, s
<1>3. b * w \in Nat /\ b * w > 0
  BY Multiple
<1>4. s * w \in Nat /\ s * w <= (b - 1) * w
  <2>1. w * (b - 1 - s) \in Nat
    BY <1>2
  <2> QED BY <2>1, <1>2
<1>5. s * w + r \in 0..(b * w - 1)
  <2>1. (b - 1) * w = b * w - w
    OBVIOUS
  <2> QED BY <1>1, <1>3, <1>4, <2>1
<1>6. a = (b * w) * p + (s * w + r)
  <2>1. w * (b * p + s) = (b * w) * p + s * w
    BY <1>2
  <2> QED BY <1>1, <1>2, <2>1
<1>7. \A c \in Nat, e \in Nat : c > 0 /\ e \in 0..(c - 1) /\ a = c * p + e => a \div c = p /\ a % c = e
  BY <1>2, Quotient
<1>8. a \div (b * w) = p /\ a % (b * w) = s * w + r
  <2> DEFINE c == b * w
             e == s * w + r
  <2>1. c \in Nat /\ e \in Nat /\ c > 0 /\ e \in 0..(c - 1) /\ a = c * p + e
    BY <1>1, <1>3, <1>4, <1>5, <1>6
  <2> HIDE DEF c, e
  <2>2. a \div c = p /\ a % c = e
    BY <1>7, <2>1
  <2> QED BY <2>2 DEF c, e
<1> QED BY <1>1, <1>3, <1>4, <1>8, <1>2 DEF p, q, r, s

\* A remainder added to is the remainder of the sum.
LEMMA ModOfSum ==
  ASSUME NEW a \in Nat, NEW c \in Nat, NEW b \in Nat, b > 0
  PROVE  ((a % b) + c) % b = (a + c) % b
<1> DEFINE q == a \div b
           r == a % b
           p == (r + c) \div b
           s == (r + c) % b
<1>1. q \in Nat /\ r \in 0..(b - 1) /\ a = b * q + r
  BY Division
<1> HIDE DEF q, r
<1>2. p \in Nat /\ s \in 0..(b - 1) /\ r + c = b * p + s
  BY <1>1, Division
<1> HIDE DEF p, s
<1>3. a + c = b * (q + p) + s
  BY <1>1, <1>2
<1>4. (a + c) % b = s
  <2>1. a + c \in Nat /\ q + p \in Nat
    BY <1>1, <1>2
  <2> QED BY <1>2, <1>3, <2>1, Quotient
<1> QED BY <1>4 DEF s, r

-----------------------------------------------------------------------------
\* The weights are positive.
LEMMA WeightsArePositive ==
  ASSUME BaseAssumption, SizeAssumption, WeightAssumption
  PROVE  \A n \in 0..MaxBytes : Weight[n] \in Nat /\ Weight[n] > 0
<1> DEFINE T == {n \in Nat : n <= MaxBytes => Weight[n] > 0}
<1>1. 0 \in T
  BY DEF WeightAssumption
<1>2. ASSUME NEW n \in Nat, n \in T PROVE n + 1 \in T
  <2> SUFFICES ASSUME n + 1 <= MaxBytes PROVE Weight[n + 1] > 0
    OBVIOUS
  <2>1. Weight[n + 1] = Base * Weight[n] /\ Weight[n] \in Nat /\ Weight[n] > 0
    <3>1. n + 1 \in 1..MaxBytes /\ (n + 1) - 1 = n /\ n \in 0..MaxBytes
      BY DEF SizeAssumption
    <3> QED BY <3>1, <1>2 DEF WeightAssumption
  <2> QED BY <2>1, Multiple DEF BaseAssumption
<1> HIDE DEF T
<1>3. Nat \subseteq T
  BY <1>1, <1>2, NatSetInduction
<1> QED BY <1>3 DEF T, WeightAssumption, SizeAssumption

\* The groups of a value: the least number that leaves nothing, and what the
\* other encoded_len announces.
LEMMA GroupsOf ==
  ASSUME BaseAssumption, SizeAssumption, WeightAssumption, NEW a \in 0..(Size - 1)
  PROVE  /\ Groups(a) \in 1..MaxBytes
         /\ a \div Weight[Groups(a)] = 0
         /\ \A n \in 1..MaxBytes : a \div Weight[n] = 0 => Groups(a) <= n
         /\ EncodedLen(a) = Groups(a)
<1> DEFINE G == {n \in 1..MaxBytes : a \div Weight[n] = 0}
           E == {n \in 1..MaxBytes : a < Weight[n]} \cup {MaxBytes}
<1>1. \A n \in 1..MaxBytes : a \div Weight[n] = 0 <=> a < Weight[n]
  BY WeightsArePositive, Division DEF SizeAssumption
<1>2. MaxBytes \in 1..MaxBytes /\ a < Weight[MaxBytes]
  BY DEF SizeAssumption, WeightAssumption
<1>3. MaxBytes \in G /\ G \subseteq Nat /\ E = G
  BY <1>1, <1>2
<1>4. Min(G) \in G /\ \A y \in G : Min(G) <= y
  BY <1>3, LeastOf
<1>5. Groups(a) = Min(G) /\ EncodedLen(a) = Min(E)
  BY DEF Groups, EncodedLen
<1> QED BY <1>3, <1>4, <1>5

\* The groups of n bytes, summed: there is one function that the definition in
\* ValueOf chooses, and it has the values that the loop computes.
IsSum(g, s, n) == g = [i \in 0..n |-> IF i = 0 THEN 0
                                      ELSE g[i - 1] + (s[i] % Base) * Weight[i - 1]]
Group(s, i) == (s[i] % Base) * Weight[i - 1]

LEMMA GroupsAreNumbers ==
  ASSUME BaseAssumption, SizeAssumption, WeightAssumption,
         NEW s, NEW i \in Nat \ {0}, i <= MaxBytes, s[i] \in Nat
  PROVE  Group(s, i) \in Nat
<1>1. s[i] \in Nat
  OBVIOUS
<1>2. i - 1 \in 0..MaxBytes /\ Weight[i - 1] \in Nat
  <2>1. i - 1 \in 0..MaxBytes
    BY DEF SizeAssumption
  <2> QED BY <2>1 DEF WeightAssumption
<1>3. s[i] % Base \in Nat
  BY <1>1, Division DEF BaseAssumption
<1> QED BY <1>2, <1>3 DEF Group

LEMMA SumExists ==
  ASSUME NEW s
  PROVE  \A n \in Nat : \E g : IsSum(g, s, n)
<1> DEFINE T == {n \in Nat : \E g : IsSum(g, s, n)}
<1>1. 0 \in T
  <2>1. IsSum([i \in 0..0 |-> 0], s, 0)
    BY DEF IsSum
  <2> QED BY <2>1
<1>2. ASSUME NEW n \in Nat, n \in T PROVE n + 1 \in T
  <2>1. PICK g : IsSum(g, s, n)
    BY <1>2
  <2> DEFINE h == [i \in 0..(n + 1) |-> IF i = n + 1 THEN g[n] + Group(s, n + 1) ELSE g[i]]
  <2>2. ASSUME NEW i \in 0..(n + 1)
        PROVE  h[i] = IF i = 0 THEN 0 ELSE h[i - 1] + (s[i] % Base) * Weight[i - 1]
    <3>1. CASE i = 0
      BY <3>1, <2>1 DEF IsSum
    <3>2. CASE i \in 1..n
      <4>1. h[i] = g[i] /\ h[i - 1] = g[i - 1] /\ i # 0
        BY <3>2
      <4>2. g[i] = g[i - 1] + (s[i] % Base) * Weight[i - 1]
        BY <2>1, <3>2 DEF IsSum
      <4> QED BY <4>1, <4>2
    <3>3. CASE i = n + 1
      BY <3>3 DEF Group
    <3> QED BY <3>1, <3>2, <3>3
  <2> HIDE DEF h
  <2>3. h = [i \in 0..(n + 1) |-> h[i]]
    BY DEF h
  <2>4. IsSum(h, s, n + 1)
    BY <2>2, <2>3 DEF IsSum
  <2> QED BY <2>4
<1> HIDE DEF T
<1>3. Nat \subseteq T
  BY <1>1, <1>2, NatSetInduction
<1> QED BY <1>3 DEF T

LEMMA SumsAgree ==
  ASSUME NEW s, NEW m \in Nat, NEW n \in Nat, m <= n,
         NEW g, IsSum(g, s, m), NEW h, IsSum(h, s, n)
  PROVE  g[m] = h[m]
<1> DEFINE T == {i \in Nat : i <= m => g[i] = h[i]}
<1>1. 0 \in T
  BY DEF IsSum
<1>2. ASSUME NEW i \in Nat, i \in T PROVE i + 1 \in T
  <2> SUFFICES ASSUME i + 1 <= m PROVE g[i + 1] = h[i + 1]
    OBVIOUS
  <2>1. i + 1 \in 0..m /\ i + 1 \in 0..n /\ i + 1 # 0 /\ (i + 1) - 1 = i /\ g[i] = h[i]
    BY <1>2
  <2>2. g[i + 1] = g[(i + 1) - 1] + (s[i + 1] % Base) * Weight[(i + 1) - 1]
    BY <2>1 DEF IsSum
  <2>3. h[i + 1] = h[(i + 1) - 1] + (s[i + 1] % Base) * Weight[(i + 1) - 1]
    BY <2>1 DEF IsSum
  <2> QED BY <2>1, <2>2, <2>3
<1> HIDE DEF T
<1>3. m \in T
  BY <1>1, <1>2, NatSetInduction
<1> QED BY <1>3 DEF T

LEMMA SumsAreNumbers ==
  ASSUME BaseAssumption, SizeAssumption, WeightAssumption,
         NEW s, NEW n \in Nat, n <= MaxBytes, \A i \in 1..n : s[i] \in Nat,
         NEW g, IsSum(g, s, n)
  PROVE  g[n] \in Nat
<1> DEFINE T == {i \in Nat : i <= n => g[i] \in Nat}
<1>1. 0 \in T
  BY DEF IsSum
<1>2. ASSUME NEW i \in Nat, i \in T PROVE i + 1 \in T
  <2> SUFFICES ASSUME i + 1 <= n PROVE g[i + 1] \in Nat
    OBVIOUS
  <2>1. i + 1 \in Nat \ {0} /\ i + 1 <= MaxBytes /\ i + 1 \in 0..n /\ s[i + 1] \in Nat
    BY DEF SizeAssumption
  <2>2. Group(s, i + 1) \in Nat /\ g[i] \in Nat
    BY <1>2, <2>1, GroupsAreNumbers
  <2>3. g[i + 1] = g[(i + 1) - 1] + Group(s, i + 1)
    BY <2>1 DEF IsSum, Group
  <2> QED BY <2>2, <2>3
<1> HIDE DEF T
<1>3. n \in T
  BY <1>1, <1>2, NatSetInduction
<1> QED BY <1>3 DEF T

LEMMA ValueIsSum ==
  ASSUME NEW s
  PROVE  \A n \in Nat : \E g : IsSum(g, s, n) /\ ValueOf(s, n) = g[n] % Size
<1> TAKE n \in Nat
<1> DEFINE g == CHOOSE h : IsSum(h, s, n)
<1>1. IsSum(g, s, n)
  BY SumExists, Zenon
<1>2. ValueOf(s, n) = g[n] % Size
  BY DEF ValueOf, IsSum
<1> QED BY <1>1, <1>2

\* What from_bytes finds in numbers is a value, and takes bytes that are there.
LEMMA Found ==
  ASSUME BaseAssumption, SizeAssumption, WeightAssumption, NEW s \in Seq(Nat),
         FromBytes(s).is = "ok"
  PROVE  FromBytes(s).value \in 0..(Size - 1) /\ FromBytes(s).consumed \in 1..Len(s)
<1>1. Ends(s) # {} /\ Ends(s) \subseteq Nat
  BY DEF FromBytes, Ends
<1> PICK n : n = Min(Ends(s))
  OBVIOUS
<1>2. n \in Ends(s)
  BY <1>1, LeastOf
<1>3. n \in 1..Len(s) /\ n \in Nat /\ n <= MaxBytes /\ \A i \in 1..n : s[i] \in Nat
  <2>1. n \in 1..Len(s) /\ n <= MaxBytes
    BY <1>2 DEF Ends
  <2>2. Len(s) \in Nat /\ \A i \in 1..Len(s) : s[i] \in Nat
    BY LenProperties, ElementOfSeq
  <2> QED BY <2>1, <2>2
<1>4. PICK g : IsSum(g, s, n) /\ ValueOf(s, n) = g[n] % Size
  BY <1>3, ValueIsSum
<1>5. g[n] \in Nat
  BY <1>3, <1>4, SumsAreNumbers
<1>6. ValueOf(s, n) \in 0..(Size - 1)
  <2>1. Size \in Nat /\ Size > 0
    BY DEF SizeAssumption
  <2> QED BY <1>4, <1>5, <2>1, Division
<1> QED BY <1>1, <1>3, <1>6 DEF FromBytes

LEMMA ValueStep ==
  ASSUME BaseAssumption, SizeAssumption, WeightAssumption, NEW s \in Seq(Byte)
  PROVE  /\ ValueOf(s, 0) = 0
         /\ \A n \in Nat : n + 1 <= Len(s) /\ n + 1 <= MaxBytes =>
               ValueOf(s, n + 1) = (ValueOf(s, n) + Group(s, n + 1)) % Size
<1>1. /\ \A n \in Nat : \E g : IsSum(g, s, n) /\ ValueOf(s, n) = g[n] % Size
      /\ \A i \in 1..Len(s) : s[i] \in Nat
  <2>1. \A i \in 1..Len(s) : s[i] \in Nat
    BY ElementOfSeq DEF Byte, BaseAssumption
  <2> QED BY <2>1, ValueIsSum
<1>2. ValueOf(s, 0) = 0
  <2>1. PICK g : IsSum(g, s, 0) /\ ValueOf(s, 0) = g[0] % Size
    BY <1>1
  <2>2. g[0] = 0
    BY <2>1 DEF IsSum
  <2>3. 0 % Size = 0
    BY Quotient DEF SizeAssumption
  <2> QED BY <2>1, <2>2, <2>3
<1>3. ASSUME NEW n \in Nat, n + 1 <= Len(s), n + 1 <= MaxBytes
      PROVE  ValueOf(s, n + 1) = (ValueOf(s, n) + Group(s, n + 1)) % Size
  <2>1. PICK g : IsSum(g, s, n) /\ ValueOf(s, n) = g[n] % Size
    BY <1>1
  <2>2. PICK h : IsSum(h, s, n + 1) /\ ValueOf(s, n + 1) = h[n + 1] % Size
    BY <1>1
  <2>3. g[n] \in Nat
    <3>1. n <= MaxBytes /\ \A i \in 1..n : s[i] \in Nat
      BY <1>1, <1>3, LenProperties DEF SizeAssumption
    <3> QED BY <2>1, <3>1, SumsAreNumbers
  <2>4. g[n] = h[n]
    <3>1. n + 1 \in Nat /\ n <= n + 1
      OBVIOUS
    <3>2. h[n] = g[n]
      <4> DEFINE T == {i \in Nat : i <= n => g[i] = h[i]}
      <4> QED BY <2>1, <2>2, <3>1, SumsAgree
    <3> QED BY <3>2
  <2>5. h[n + 1] = h[(n + 1) - 1] + Group(s, n + 1)
    BY <2>2 DEF IsSum, Group
  <2>6. Group(s, n + 1) \in Nat
    <3>1. n + 1 \in Nat \ {0} /\ s[n + 1] \in Nat
      BY <1>1, <1>3, LenProperties
    <3> QED BY <1>3, <3>1, GroupsAreNumbers
  <2>7. \A a, c \in Nat : ((a % Size) + c) % Size = (a + c) % Size
    <3>1. Size \in Nat /\ Size > 0
      BY DEF SizeAssumption
    <3> QED BY <3>1, ModOfSum
  <2>8. ((g[n] % Size) + Group(s, n + 1)) % Size = (g[n] + Group(s, n + 1)) % Size
    BY <2>3, <2>6, <2>7, Zenon
  <2>9. (n + 1) - 1 = n
    OBVIOUS
  <2> QED BY <2>1, <2>2, <2>4, <2>5, <2>8, <2>9
<1> QED BY <1>2, <1>3

\* The bytes a value is written in: one for each group, all but the last with
\* the continuation bit.
LEMMA BytesWritten ==
  ASSUME BaseAssumption, SizeAssumption, WeightAssumption, NEW a \in 0..(Size - 1)
  PROVE  /\ ToBytes(a) \in Seq(Byte)
         /\ Len(ToBytes(a)) = Groups(a)
         /\ \A i \in 1..Groups(a) : More(ToBytes(a)[i]) <=> i < Groups(a)
<1> PICK g : g = Groups(a)
  OBVIOUS
<1>1. g \in 1..MaxBytes /\ MaxBytes \in Nat /\ a \in Nat /\ Base \in Nat /\ Base > 1
  BY GroupsOf DEF SizeAssumption, BaseAssumption
<1>2. ToBytes(a) = [i \in 1..g |-> ((a \div Weight[i - 1]) % Base) + (IF i < g THEN Base ELSE 0)]
  BY DEF ToBytes
<1>3. ASSUME NEW i \in 1..g PROVE (a \div Weight[i - 1]) % Base \in 0..(Base - 1)
  <2>1. i - 1 \in 0..MaxBytes
    BY <1>1
  <2>2. Weight[i - 1] \in Nat /\ Weight[i - 1] > 0
    BY <2>1, WeightsArePositive
  <2>3. a \div Weight[i - 1] \in Nat
    BY <1>1, <2>2, Division
  <2> QED BY <1>1, <2>3, Division
<1>4. ASSUME NEW i \in 1..g PROVE ToBytes(a)[i] \in Byte /\ (More(ToBytes(a)[i]) <=> i < g)
  <2> PICK d \in 0..(Base - 1) : d = (a \div Weight[i - 1]) % Base
    BY <1>3
  <2>1. ToBytes(a)[i] = d + (IF i < g THEN Base ELSE 0)
    BY <1>2
  <2> QED BY <1>1, <2>1 DEF Byte, More
<1>5. ToBytes(a) \in [1..g -> Byte]
  BY <1>2, <1>4
<1>6. ToBytes(a) \in Seq(Byte) /\ Len(ToBytes(a)) = g
  BY <1>1, <1>2, <1>5, LenProperties
<1> QED BY <1>4, <1>6

\* One more byte read of those a value is written in.
LEMMA GroupAdds ==
  ASSUME BaseAssumption, SizeAssumption, WeightAssumption,
         NEW a \in 0..(Size - 1), NEW n \in Nat, n < Groups(a)
  PROVE  ((a % Weight[n]) + Group(ToBytes(a), n + 1)) % Size = a % Weight[n + 1]
<1> PICK b : b = ToBytes(a)[n + 1]
  OBVIOUS
<1>1. /\ Groups(a) \in 1..MaxBytes /\ MaxBytes \in Nat /\ n \in 0..MaxBytes
      /\ n + 1 \in 1..MaxBytes /\ n + 1 \in 1..Groups(a) /\ (n + 1) - 1 = n
  BY GroupsOf DEF SizeAssumption
<1>2. a \in Nat /\ Size \in Nat /\ Size > 0 /\ a < Size
  BY DEF SizeAssumption
<1>3. /\ Weight[n + 1] = Base * Weight[n] /\ Weight[n] \in Nat /\ Weight[n] > 0
      /\ Base \in Nat /\ Base > 0
  <2>1. Weight[n + 1] = Base * Weight[(n + 1) - 1]
    BY <1>1, Zenon DEF WeightAssumption
  <2>2. Weight[n] \in Nat /\ Weight[n] > 0
    BY <1>1, WeightsArePositive, Zenon
  <2>3. Base \in Nat /\ Base > 0
    BY DEF BaseAssumption
  <2> QED BY ONLY <1>1, <2>1, <2>2, <2>3
<1>4. b % Base = (a \div Weight[n]) % Base
  <2> DEFINE d == (a \div Weight[n]) % Base
  <2>1. d \in 0..(Base - 1)
    BY <1>2, <1>3, Division
  <2>2. b = d \/ b = d + Base
    BY <1>1, <2>1 DEF ToBytes
  <2> HIDE DEF d
  <2>3. d % Base = d /\ (d + Base) % Base = d
    <3>1. d = Base * 0 + d /\ d + Base = Base * 1 + d
      BY <2>1, <1>3
    <3> QED BY <2>1, <1>3, <3>1, Quotient
  <2>4. b % Base = d
    BY <2>2, <2>3
  <2> QED BY <2>4 DEF d
<1>5. a % Weight[n + 1] = (a % Weight[n]) + ((a \div Weight[n]) % Base) * Weight[n]
  <2>1. \A w \in Nat : w > 0 => a % (Base * w) = (a % w) + ((a \div w) % Base) * w
    BY <1>2, <1>3, OneMoreGroup
  <2>2. a % (Base * Weight[n]) = (a % Weight[n]) + ((a \div Weight[n]) % Base) * Weight[n]
    BY <1>3, <2>1, Zenon
  <2> QED BY <1>3, <2>2
<1>6. Group(ToBytes(a), n + 1) = ((a \div Weight[n]) % Base) * Weight[n]
  BY <1>1, <1>4 DEF Group
<1>7. a % Weight[n + 1] \in 0..(Size - 1)
  <2> PICK w \in Nat : w = Weight[n + 1] /\ w > 0
    BY <1>1, WeightsArePositive
  <2>1. /\ a % w \in 0..(w - 1) /\ a \div w \in Nat
        /\ a = w * (a \div w) + (a % w)
    BY <1>2, Division
  <2>2. w * (a \div w) \in Nat
    <3>1. \A x, y \in Nat : x * y \in Nat
      OBVIOUS
    <3> QED BY <2>1, <3>1, Zenon
  <2>3. a % w \in 0..(Size - 1)
    BY <1>2, <2>1, <2>2
  <2> QED BY <2>3
<1>8. \A r \in 0..(Size - 1) : r % Size = r
  <2> TAKE r \in 0..(Size - 1)
  <2>1. r = Size * 0 + r
    BY <1>2
  <2> QED BY <1>2, <2>1, Quotient
<1> QED BY <1>5, <1>6, <1>7, <1>8

\* A value is below the weight of its groups.
LEMMA WholeValue ==
  ASSUME BaseAssumption, SizeAssumption, WeightAssumption, NEW a \in 0..(Size - 1)
  PROVE  a % Weight[Groups(a)] = a
<1>1. /\ Groups(a) \in 1..MaxBytes /\ a \div Weight[Groups(a)] = 0 /\ a \in Nat
      /\ Weight[Groups(a)] \in Nat /\ Weight[Groups(a)] > 0
  BY GroupsOf, WeightsArePositive DEF SizeAssumption
<1>2. a < Weight[Groups(a)]
  BY <1>1, Division
<1>3. ASSUME NEW w \in Nat, a < w PROVE a % w = a
  <2>1. a = w * 0 + a /\ a \in 0..(w - 1) /\ w > 0
    BY <1>1, <1>3
  <2> QED BY <1>1, <2>1, Quotient
<1> QED BY <1>1, <1>2, <1>3, Zenon

\* from_bytes reads the bytes that to_bytes writes.
LEMMA ReadsOwn ==
  ASSUME BaseAssumption, SizeAssumption, WeightAssumption, NEW a \in 0..(Size - 1)
  PROVE  FromBytes(ToBytes(a)) = [is |-> "ok", value |-> a, consumed |-> Groups(a)]
<1> PICK s : s = ToBytes(a)
  OBVIOUS
<1> PICK g : g = Groups(a)
  OBVIOUS
<1>1. g \in 1..MaxBytes /\ MaxBytes \in Nat /\ a \in Nat
  BY GroupsOf DEF SizeAssumption
<1>2. s \in Seq(Byte) /\ Len(s) = g /\ \A i \in 1..g : More(s[i]) <=> i < g
  BY BytesWritten
<1>3. g \in Ends(s) /\ Ends(s) \subseteq Nat /\ \A y \in Ends(s) : g <= y
  BY <1>1, <1>2 DEF Ends
<1>4. Ends(s) # {} /\ Min(Ends(s)) = g
  BY <1>3, MinIs
<1> DEFINE T == {n \in Nat : n <= g => ValueOf(s, n) = a % Weight[n]}
<1>5. 0 \in T
  <2>1. a % 1 = 0
    <3>1. a = 1 * a + 0 /\ 0 \in 0..(1 - 1) /\ 1 \in Nat /\ 1 > 0
      BY <1>1
    <3> QED BY <1>1, <3>1, Quotient
  <2> QED BY <1>2, <2>1, ValueStep DEF WeightAssumption
<1>6. ASSUME NEW n \in Nat, n \in T PROVE n + 1 \in T
  <2> SUFFICES ASSUME n + 1 <= g PROVE ValueOf(s, n + 1) = a % Weight[n + 1]
    OBVIOUS
  <2>1. n < g /\ n <= g /\ n + 1 <= Len(s) /\ n + 1 <= MaxBytes
    BY <1>1, <1>2
  <2>2. ValueOf(s, n + 1) = (ValueOf(s, n) + Group(s, n + 1)) % Size
    BY <1>2, <2>1, ValueStep
  <2> QED BY <1>6, <2>1, <2>2, GroupAdds
<1> HIDE DEF T
<1>7. g \in T
  BY <1>1, <1>5, <1>6, NatSetInduction
<1>8. ValueOf(s, g) = a
  BY <1>1, <1>7, WholeValue DEF T
<1> QED BY <1>4, <1>8 DEF FromBytes

LEMMA ZeroIsOneByte ==
  ASSUME BaseAssumption, SizeAssumption, WeightAssumption
  PROVE  ToBytes(0) = <<0>>
<1>1. 1 \in 1..MaxBytes /\ 0 \in 0..(Size - 1) /\ Base \in Nat /\ Base > 0
  BY DEF SizeAssumption, BaseAssumption
<1>2. \A b \in Nat : b > 0 => 0 \div b = 0 /\ 0 % b = 0
  <2> TAKE b \in Nat
  <2>1. 0 = b * 0 + 0 /\ (b > 0 => 0 \in 0..(b - 1))
    OBVIOUS
  <2> QED BY <2>1, Quotient
<1>3. Weight[1] \in Nat /\ Weight[1] > 0 /\ Weight[0] \in Nat /\ Weight[0] > 0
  <2>1. 1 \in 0..MaxBytes /\ 0 \in 0..MaxBytes
    BY <1>1 DEF SizeAssumption
  <2> QED BY <2>1, WeightsArePositive
<1>4. Groups(0) = 1
  <2>1. Groups(0) \in 1..MaxBytes /\ \A n \in 1..MaxBytes : 0 \div Weight[n] = 0 => Groups(0) <= n
    BY <1>1, GroupsOf
  <2>2. 0 \div Weight[1] = 0
    BY <1>2, <1>3, Zenon
  <2> QED BY <1>1, <2>1, <2>2
<1>5. ((0 \div Weight[1 - 1]) % Base) + (IF 1 < 1 THEN Base ELSE 0) = 0
  <2>1. 0 \div Weight[0] = 0 /\ 0 % Base = 0
    BY <1>1, <1>2, <1>3, Zenon
  <2> QED BY <2>1
<1>6. ToBytes(0) = [i \in 1..1 |-> 0]
  <2>1. \A i \in 1..1 : ((0 \div Weight[i - 1]) % Base) + (IF i < 1 THEN Base ELSE 0) = 0
    BY <1>5
  <2> QED BY <1>4, <2>1 DEF ToBytes
<1> QED BY <1>6

\* The value of n bytes depends on no other byte.
LEMMA ValuesAgree ==
  ASSUME NEW s, NEW t, NEW n \in Nat, \A i \in 1..n : s[i] = t[i]
  PROVE  ValueOf(s, n) = ValueOf(t, n)
<1> DEFINE g == CHOOSE f : IsSum(f, s, n)
           h == CHOOSE f : IsSum(f, t, n)
<1>1. IsSum(g, s, n) /\ IsSum(h, t, n)
  BY SumExists, Zenon
<1>2. ValueOf(s, n) = g[n] % Size /\ ValueOf(t, n) = h[n] % Size
  BY DEF ValueOf, IsSum
<1> HIDE DEF g, h
<1>3. IsSum(g, t, n)
  <2>1. \A i \in 0..n : (IF i = 0 THEN 0 ELSE g[i - 1] + (s[i] % Base) * Weight[i - 1])
                        = (IF i = 0 THEN 0 ELSE g[i - 1] + (t[i] % Base) * Weight[i - 1])
    OBVIOUS
  <2> QED BY <1>1, <2>1 DEF IsSum
<1>4. g[n] = h[n]
  BY <1>1, <1>3, SumsAgree
<1> QED BY <1>2, <1>4

\* A verdict other than "incomplete" stands, whatever bytes follow.
LEMMA PrefixDecides ==
  ASSUME BaseAssumption, SizeAssumption,
         NEW s, Len(s) \in Nat, NEW t, Len(t) \in Nat, Len(t) <= Len(s),
         \A i \in 1..Len(t) : s[i] = t[i], FromBytes(t).is # "incomplete"
  PROVE  FromBytes(s) = FromBytes(t)
<1>1. \A n \in 1..Len(t) : n \in Ends(s) <=> n \in Ends(t)
  BY DEF Ends
<1>2. Ends(s) \subseteq Nat /\ Ends(t) \subseteq 1..Len(t) /\ MaxBytes \in Nat
  BY DEF Ends, SizeAssumption
<1>3. CASE Ends(t) # {}
  <2> PICK m : m = Min(Ends(t))
    OBVIOUS
  <2>1. m \in Ends(t) /\ \A y \in Ends(t) : m <= y
    BY <1>2, <1>3, LeastOf
  <2>2. m \in 1..Len(t) /\ m \in Ends(s)
    BY <1>1, <1>2, <2>1
  <2>3. ASSUME NEW y \in Ends(s) PROVE m <= y
    <3>1. y \in 1..Len(t) => m <= y
      BY <1>1, <2>1
    <3>2. y \in 1..Len(s)
      BY DEF Ends
    <3> QED BY <2>2, <3>1, <3>2
  <2>4. Min(Ends(s)) = m
    BY <1>2, <2>2, <2>3, MinIs
  <2>5. ValueOf(s, m) = ValueOf(t, m)
    <3>1. m \in Nat /\ \A i \in 1..m : s[i] = t[i]
      BY <2>2
    <3> QED BY <3>1, ValuesAgree
  <2> QED BY <1>3, <2>2, <2>4, <2>5 DEF FromBytes
<1>4. CASE Ends(t) = {}
  <2>1. ~(Len(t) < MaxBytes)
    BY <1>4 DEF FromBytes
  <2>2. Ends(s) = {}
    <3> SUFFICES ASSUME NEW n \in Ends(s) PROVE FALSE
      OBVIOUS
    <3>1. n \in 1..Len(t)
      BY <1>2, <2>1 DEF Ends
    <3> QED BY <1>1, <1>4, <3>1
  <2> QED BY <1>2, <1>4, <2>1, <2>2 DEF FromBytes
<1> QED BY <1>3, <1>4

-----------------------------------------------------------------------------
Reading == {"read", "ok", "incomplete", "toolarge"}

TypeOK == /\ pc \in {"write", "wire"} \cup Reading
          /\ given \in 0..Size
          /\ v \in Nat
          /\ src \in Seq(Byte)
          /\ whole \in BOOLEAN
          /\ {pos, shift, value} \subseteq Nat

\* Group i of the value, as it is written when others follow.
Continued(i) == ((given \div Weight[i - 1]) % Base) + Base

WriteInv ==
    /\ pc = "write" => /\ given < Size /\ Len(src) < MaxBytes
                       /\ v = given \div Weight[Len(src)]
                       /\ \A i \in 1..Len(src) : src[i] = Continued(i) /\ given \div Weight[i] # 0
    /\ pc = "wire" => given < Size /\ src = ToBytes(given)
    /\ pc \in {"write", "wire"} => pos = 0 /\ shift = 0 /\ value = 0

\* The reader has a prefix of what was written.
PrefixInv == pc \in Reading /\ given < Size =>
    /\ Len(src) <= Groups(given)
    /\ \A i \in 1..Len(src) : src[i] = ToBytes(given)[i]
    /\ whole => Len(src) = Groups(given)

\* What it has passed, and the value so far.
ReadInv == pc \in Reading =>
    /\ pos <= Len(src) /\ pos <= MaxBytes
    /\ value = ValueOf(src, pos)
    /\ given < Size => value = given % Weight[pos]
    /\ pc # "ok" => shift = pos /\ \A i \in 1..pos : More(src[i])
    /\ pc = "read" => pos < MaxBytes
    /\ pc = "incomplete" => pos = Len(src) /\ pos < MaxBytes
    /\ pc = "toolarge" => pos = MaxBytes
    /\ pc = "ok" => /\ pos # 0 /\ ~More(src[pos])
                    /\ \A i \in 1..(pos - 1) : More(src[i])

IInv == TypeOK /\ WriteInv /\ PrefixInv /\ ReadInv

LEMMA Initial == Assumptions /\ Init => IInv
<1> SUFFICES ASSUME Assumptions, Init PROVE IInv
  OBVIOUS
<1> USE DEF Assumptions
<1>1. ValueOf(<<>>, 0) = 0 /\ \A s \in Foreign : s \in Seq(Byte) /\ ValueOf(s, 0) = 0
  BY ValueStep, EmptySeq DEF ForeignAssumption
<1>2. TypeOK
  <2>1. src \in Seq(Byte)
    BY <1>1, EmptySeq DEF Init
  <2>2. given \in 0..Size /\ v \in Nat
    BY DEF Init, SizeAssumption
  <2>3. pc \in {"write", "read"} /\ whole \in BOOLEAN /\ pos = 0 /\ shift = 0 /\ value = 0
    BY DEF Init
  <2> QED BY <2>1, <2>2, <2>3 DEF TypeOK, Reading
<1>3. WriteInv
  <2> SUFFICES ASSUME pc = "write" PROVE WriteInv
    BY DEF Init, WriteInv
  <2>1. Len(src) = 0 /\ given \in 0..(Size - 1) /\ v = given /\ Weight[0] = 1 /\ MaxBytes > 0
    BY EmptySeq DEF Init, WeightAssumption, SizeAssumption
  <2>2. given \div 1 = given
    BY <2>1, Quotient
  <2> QED BY <2>1, <2>2 DEF Init, WriteInv, SizeAssumption
<1>4. PrefixInv /\ ReadInv
  <2> SUFFICES ASSUME pc = "read" PROVE PrefixInv /\ ReadInv
    BY DEF Init, PrefixInv, ReadInv, Reading
  <2>1. given = Size /\ src \in Seq(Byte) /\ pos = 0 /\ shift = 0 /\ value = 0
    BY <1>1 DEF Init
  <2>2. value = ValueOf(src, pos)
    BY <1>1, <2>1 DEF Init
  <2> QED BY <2>1, <2>2, LenProperties DEF PrefixInv, ReadInv, Reading, SizeAssumption
<1> QED BY <1>2, <1>3, <1>4 DEF IInv

\* An iteration of write.
LEMMA WriteKeeps == Assumptions /\ IInv /\ Write => IInv'
<1> SUFFICES ASSUME Assumptions, IInv, Write PROVE IInv'
  OBVIOUS
<1> USE DEF Assumptions
<1> PICK n \in Nat : n = Len(src)
  BY LenProperties DEF IInv, TypeOK
<1> DEFINE rest == v \div Base
           b == IF rest # 0 THEN (v % Base) + Base ELSE v % Base
<1>1. /\ given \in 0..(Size - 1) /\ n < MaxBytes /\ n \in 0..MaxBytes /\ n + 1 \in 1..MaxBytes
      /\ v = given \div Weight[n] /\ v \in Nat /\ src \in Seq(Byte)
      /\ \A i \in 1..n : src[i] = Continued(i) /\ given \div Weight[i] # 0
      /\ pos = 0 /\ shift = 0 /\ value = 0
  BY DEF IInv, TypeOK, WriteInv, Write, SizeAssumption
<1>2. rest \in Nat /\ v % Base \in 0..(Base - 1) /\ b \in Byte
  <2>1. Base \in Nat /\ Base > 0
    BY DEF BaseAssumption
  <2>2. rest \in Nat /\ v % Base \in 0..(Base - 1)
    BY <1>1, <2>1, Division
  <2> QED BY <2>1, <2>2 DEF Byte
<1>3. /\ src' = Append(src, b) /\ v' = rest
      /\ pc' = IF rest = 0 THEN "wire" ELSE "write"
      /\ UNCHANGED <<given, whole, pos, shift, value>>
  BY DEF Write
<1>4. given \div Weight[n + 1] = rest
  <2>1. Weight[n + 1] = Base * Weight[n] /\ Weight[n] \in Nat /\ Weight[n] > 0
    <3>1. (n + 1) - 1 = n
      OBVIOUS
    <3> QED BY <1>1, <3>1, WeightsArePositive DEF WeightAssumption
  <2>2. given \in Nat /\ Base \in Nat /\ Base > 0
    BY <1>1 DEF BaseAssumption
  <2>3. \A w \in Nat : w > 0 => given \div (Base * w) = (given \div w) \div Base
    BY <2>2, OneMoreGroup
  <2>4. given \div (Base * Weight[n]) = (given \div Weight[n]) \div Base
    BY <2>1, <2>3, Zenon
  <2> QED BY <1>1, <2>1, <2>4, Zenon
<1> HIDE DEF rest
<1>5. /\ src' \in Seq(Byte) /\ Len(src') = n + 1
      /\ \A i \in 1..n : src'[i] = src[i]
      /\ src'[n + 1] = b
  BY <1>1, <1>2, <1>3, AppendProperties
<1>6. b = (IF rest # 0 THEN Base ELSE 0) + ((given \div Weight[(n + 1) - 1]) % Base)
  <2>1. (n + 1) - 1 = n
    OBVIOUS
  <2> QED BY <1>1, <1>2, <2>1 DEF BaseAssumption
<1> HIDE DEF b
<1>7. TypeOK'
  BY <1>1, <1>2, <1>3, <1>5 DEF IInv, TypeOK
<1>8. CASE rest # 0
  <2>1. n + 1 < MaxBytes
    <3>1. given \div Weight[MaxBytes] = 0
      <4>1. given < Weight[MaxBytes] /\ Weight[MaxBytes] \in Nat /\ Weight[MaxBytes] > 0 /\ given \in Nat
        BY <1>1, WeightsArePositive DEF SizeAssumption, WeightAssumption
      <4> QED BY <4>1, Division
    <3> QED BY <1>1, <1>4, <1>8, <3>1 DEF SizeAssumption
  <2>2. \A i \in 1..(n + 1) : src'[i] = Continued(i) /\ given \div Weight[i] # 0
    <3> TAKE i \in 1..(n + 1)
    <3>1. CASE i = n + 1
      <4>1. b = Continued(n + 1)
        BY <1>6, <1>8, <1>1, <1>2 DEF Continued, BaseAssumption
      <4> QED BY <3>1, <1>4, <1>5, <1>8, <4>1
    <3>2. CASE i \in 1..n
      BY <3>2, <1>1, <1>5
    <3> QED BY <3>1, <3>2
  <2>3. pc' = "write" /\ given' = given /\ given < Size /\ v' = given \div Weight[n + 1]
        /\ Len(src') = n + 1 /\ pos' = 0 /\ shift' = 0 /\ value' = 0
    BY <1>1, <1>3, <1>4, <1>5, <1>8 DEF SizeAssumption
  <2>4. WriteInv'
    BY <2>1, <2>2, <2>3 DEF WriteInv, Continued
  <2> QED BY <1>7, <2>3, <2>4 DEF IInv, PrefixInv, ReadInv, Reading
<1>9. CASE rest = 0
  <2>1. Groups(given) = n + 1
    <3>1. /\ Groups(given) \in 1..MaxBytes
          /\ given \div Weight[Groups(given)] = 0
          /\ \A k \in 1..MaxBytes : given \div Weight[k] = 0 => Groups(given) <= k
      BY <1>1, GroupsOf
    <3>2. Groups(given) <= n + 1
      BY <1>1, <1>4, <1>9, <3>1
    <3>3. ~(Groups(given) \in 1..n)
      BY <1>1, <3>1
    <3> QED BY <3>1, <3>2, <3>3
  <2>2. \A i \in 1..(n + 1) : src'[i] =
            ((given \div Weight[i - 1]) % Base) + (IF i < n + 1 THEN Base ELSE 0)
    <3> TAKE i \in 1..(n + 1)
    <3>1. CASE i = n + 1
      BY <3>1, <1>5, <1>6, <1>9, <1>1, <1>2
    <3>2. CASE i \in 1..n
      BY <3>2, <1>1, <1>5 DEF Continued
    <3> QED BY <3>1, <3>2
  <2>3. src' = ToBytes(given)
    <3>1. src' = [i \in 1..(n + 1) |-> src'[i]]
      BY <1>5, LenProperties
    <3> QED BY <2>1, <2>2, <3>1 DEF ToBytes
  <2>4. /\ pc' = "wire" /\ given' = given /\ given < Size
        /\ pos' = 0 /\ shift' = 0 /\ value' = 0
    BY <1>1, <1>3, <1>9 DEF SizeAssumption
  <2>5. WriteInv'
    <3>1. ToBytes(given)' = ToBytes(given)
      BY <2>4 DEF ToBytes, Groups
    <3> QED BY <2>3, <2>4, <3>1 DEF WriteInv
  <2> QED BY <1>7, <2>4, <2>5 DEF IInv, PrefixInv, ReadInv, Reading
<1> QED BY <1>8, <1>9

\* The reader is given what the network delivers.
LEMMA DeliverKeeps ==
  ASSUME Assumptions, IInv, NEW n \in 0..Len(src), Deliver(n)
  PROVE  IInv'
<1> USE DEF Assumptions
<1>1. /\ given \in 0..(Size - 1) /\ src = ToBytes(given) /\ src \in Seq(Byte)
      /\ pos = 0 /\ shift = 0 /\ value = 0
  BY DEF IInv, TypeOK, WriteInv, Deliver, SizeAssumption
<1>2. Groups(given) \in 1..MaxBytes
  BY <1>1, GroupsOf
<1>3. Len(src) = Groups(given) /\ Len(src) \in Nat
  BY <1>1, <1>2, LenProperties DEF ToBytes
<1>4. /\ src' = SubSeq(src, 1, n) /\ whole' = (n = Len(src)) /\ pc' = "read"
      /\ UNCHANGED <<given, v, pos, shift, value>>
  BY DEF Deliver
<1>5. src' \in Seq(Byte) /\ Len(src') = n /\ \A i \in 1..n : src'[i] = src[i]
  BY <1>1, <1>3, <1>4, SubSeqProperties
<1>6. TypeOK'
  BY <1>1, <1>4, <1>5 DEF IInv, TypeOK, Reading
<1>7. WriteInv'
  BY <1>4 DEF WriteInv
<1>8. PrefixInv'
  <2>1. given' = given /\ Groups(given)' = Groups(given) /\ ToBytes(given)' = ToBytes(given)
    BY <1>4 DEF ToBytes, Groups
  <2>2. Len(src') <= Groups(given)
    BY <1>2, <1>3, <1>5
  <2>3. whole' => Len(src') = Groups(given)
    BY <1>3, <1>4, <1>5, Zenon
  <2>4. \A i \in 1..n : src'[i] = ToBytes(given)[i]
    BY <1>1, <1>5
  <2> QED BY <1>5, <2>1, <2>2, <2>3, <2>4 DEF PrefixInv
<1>9. ReadInv'
  <2>1. ValueOf(src', 0) = 0
    BY <1>5, ValueStep
  <2>2. given % Weight[0] = 0
    <3>1. Weight[0] = 1 /\ given \in Nat
      BY <1>1 DEF WeightAssumption
    <3> QED BY <3>1, Division
  <2> QED BY <1>1, <1>4, <1>5, <2>1, <2>2 DEF ReadInv, SizeAssumption
<1> QED BY <1>6, <1>7, <1>8, <1>9 DEF IInv

\* The reader finds no byte.
LEMMA ExhaustedKeeps == Assumptions /\ IInv /\ Exhausted => IInv'
<1> SUFFICES ASSUME Assumptions, IInv, Exhausted PROVE IInv'
  OBVIOUS
<1>1. /\ pc = "read" /\ pc' = "incomplete" /\ pos = Len(src)
      /\ UNCHANGED <<given, v, src, whole, pos, shift, value>>
  BY DEF Exhausted
<1>2. TypeOK' /\ WriteInv'
  BY <1>1 DEF IInv, TypeOK, WriteInv, Reading
<1>3. PrefixInv'
  <2>1. Groups(given)' = Groups(given) /\ ToBytes(given)' = ToBytes(given)
    BY <1>1 DEF ToBytes, Groups
  <2> QED BY <1>1, <2>1 DEF IInv, PrefixInv, Reading
<1>4. ReadInv'
  <2>1. ValueOf(src, pos)' = ValueOf(src, pos) /\ (\A i : More(src[i])' <=> More(src[i]))
    BY <1>1 DEF ValueOf, More
  <2> QED BY <1>1, <2>1 DEF IInv, ReadInv, Reading
<1> QED BY <1>2, <1>3, <1>4 DEF IInv

\* An iteration of read.
LEMMA ReadKeeps == Assumptions /\ IInv /\ Read => IInv'
<1> SUFFICES ASSUME Assumptions, IInv, Read PROVE IInv'
  OBVIOUS
<1> USE DEF Assumptions
<1> PICK n \in Nat : n = pos
  BY DEF IInv, TypeOK
<1> DEFINE b == src[n + 1]
<1>1. /\ pc = "read" /\ n < Len(src) /\ n < MaxBytes /\ shift = n
      /\ src \in Seq(Byte) /\ Len(src) \in Nat /\ MaxBytes \in Nat
      /\ n + 1 \in 1..Len(src) /\ n + 1 \in 1..MaxBytes
      /\ value = ValueOf(src, n) /\ given \in Nat
      /\ given < Size => value = given % Weight[n]
      /\ \A i \in 1..n : More(src[i])
  BY LenProperties DEF IInv, TypeOK, ReadInv, Read, Reading, SizeAssumption
<1>2. /\ pos' = n + 1
      /\ value' = (value + Group(src, n + 1)) % Size
      /\ IF More(b) THEN shift' = n + 1 /\ pc' = IF n + 1 >= MaxBytes THEN "toolarge" ELSE "read"
                    ELSE pc' = "ok" /\ shift' = n
      /\ UNCHANGED <<given, v, src, whole>>
  <2>1. (n + 1) - 1 = n
    OBVIOUS
  <2> QED BY <1>1, <2>1 DEF Read, Group
<1>3. pc' \in Reading /\ pc' # "incomplete" /\ shift' \in Nat
  BY <1>2 DEF Reading
<1>4. value' = ValueOf(src, n + 1) /\ value' \in Nat
  <2>1. ValueOf(src, n + 1) = (ValueOf(src, n) + Group(src, n + 1)) % Size
    BY <1>1, ValueStep
  <2>2. Group(src, n + 1) \in Nat /\ value \in Nat /\ Size \in Nat /\ Size > 0
    <3>1. src[n + 1] \in Nat
      BY <1>1, ElementOfSeq DEF Byte, BaseAssumption
    <3>2. n + 1 \in Nat \ {0} /\ n + 1 <= MaxBytes
      BY <1>1
    <3> QED BY <3>1, <3>2, GroupsAreNumbers DEF IInv, TypeOK, SizeAssumption
  <2>3. (value + Group(src, n + 1)) % Size \in Nat
    BY <2>2, Division
  <2> QED BY <1>1, <1>2, <2>1, <2>3
<1>5. ASSUME given < Size PROVE value' = given % Weight[n + 1]
  <2>1. given \in 0..(Size - 1)
    BY <1>1, <1>5 DEF SizeAssumption
  <2>2. src[n + 1] = ToBytes(given)[n + 1] /\ n < Groups(given)
    <3>1. Groups(given) \in Nat
      BY <2>1, GroupsOf
    <3> QED BY <1>1, <1>5, <3>1 DEF IInv, PrefixInv, Reading
  <2>3. Group(src, n + 1) = Group(ToBytes(given), n + 1)
    BY <2>2 DEF Group
  <2> QED BY <1>1, <1>2, <1>5, <2>1, <2>2, <2>3, GroupAdds
<1>6. TypeOK'
  BY <1>2, <1>3, <1>4 DEF IInv, TypeOK
<1>7. WriteInv'
  BY <1>3 DEF WriteInv, Reading
<1>8. PrefixInv'
  <2>1. Groups(given)' = Groups(given) /\ ToBytes(given)' = ToBytes(given)
    BY <1>2 DEF ToBytes, Groups
  <2> QED BY <1>1, <1>2, <2>1 DEF IInv, PrefixInv, Reading
<1>9. ReadInv'
  <2>1. (\A i : More(src[i])' <=> More(src[i])) /\ src' = src /\ given' = given /\ pos' = n + 1
    BY <1>2 DEF More
  <2>2. value' = ValueOf(src, pos)' /\ (given' < Size => value' = given' % Weight[pos'])
    <3>1. ValueOf(src, n + 1)' = ValueOf(src, n + 1)
      BY <1>2 DEF ValueOf
    <3>2. ValueOf(src, pos)' = ValueOf(src, n + 1)
      BY <2>1 DEF ValueOf
    <3> QED BY <1>4, <1>5, <2>1, <3>2
  <2>3. pos' <= Len(src') /\ pos' <= MaxBytes /\ pos' # 0
    BY <1>1, <2>1
  <2>4. CASE More(b)
    <3>1. \A i \in 1..(n + 1) : More(src[i])
      BY <1>1, <2>4
    <3>2. /\ pc' \in {"read", "toolarge"} /\ shift' = n + 1
          /\ pc' = "read" => n + 1 < MaxBytes
          /\ pc' = "toolarge" => n + 1 = MaxBytes
      BY <1>1, <1>2, <2>4
    <3> QED BY <2>1, <2>2, <2>3, <3>1, <3>2 DEF ReadInv
  <2>5. CASE ~More(b)
    <3>1. pc' = "ok" /\ (n + 1) - 1 = n
      BY <1>2, <2>5
    <3> QED BY <1>1, <2>1, <2>2, <2>3, <2>5, <3>1 DEF ReadInv
  <2> QED BY <2>4, <2>5
<1> QED BY <1>6, <1>7, <1>8, <1>9 DEF IInv

-----------------------------------------------------------------------------
\* What the inductive invariant says of the verdicts.
LEMMA Verdicts == Assumptions /\ IInv => VerdictIsExact
<1> SUFFICES ASSUME Assumptions, IInv PROVE VerdictIsExact
  OBVIOUS
<1>1. pos \in Nat /\ MaxBytes \in Nat
  BY DEF IInv, TypeOK, Assumptions, SizeAssumption
<1>2. pc \in Reading =>
        /\ pos <= Len(src) /\ pos <= MaxBytes
        /\ pc # "ok" => \A i \in 1..pos : More(src[i])
        /\ pc = "incomplete" => pos = Len(src) /\ pos < MaxBytes
        /\ pc = "toolarge" => pos = MaxBytes
        /\ pc = "ok" => /\ pos # 0 /\ ~More(src[pos])
                        /\ \A i \in 1..(pos - 1) : More(src[i])
  BY DEF IInv, ReadInv
<1> QED BY <1>1, <1>2 DEF VerdictIsExact, Reading

\* What the verdicts and the value are by definition.
LEMMA VerdictsAgree ==
  ASSUME Assumptions, IInv, pc \in {"ok", "incomplete", "toolarge"}
  PROVE  LET r == FromBytes(src) IN r.is = pc /\ (pc = "ok" => r.value = value /\ r.consumed = pos)
<1>1. /\ pos \in Nat /\ MaxBytes \in Nat /\ src \in Seq(Byte) /\ Len(src) \in Nat
      /\ pos <= Len(src) /\ pos <= MaxBytes /\ value = ValueOf(src, pos)
  BY LenProperties DEF IInv, TypeOK, ReadInv, Reading, Assumptions, SizeAssumption
<1>2. VerdictIsExact
  BY Verdicts
<1>3. CASE pc = "ok"
  <2>1. /\ pos \in Ends(src) /\ Ends(src) \subseteq Nat
        /\ \A n \in Ends(src) : pos <= n
    BY <1>1, <1>2, <1>3 DEF Ends, VerdictIsExact
  <2>2. Ends(src) # {} /\ Min(Ends(src)) = pos
    BY <2>1, MinIs
  <2>3. FromBytes(src) = [is |-> "ok", value |-> ValueOf(src, pos), consumed |-> pos]
    BY <2>2 DEF FromBytes
  <2> QED BY <1>1, <1>3, <2>3
<1>4. CASE pc \in {"incomplete", "toolarge"}
  <2>1. Ends(src) = {}
    BY <1>1, <1>2, <1>4 DEF Ends, VerdictIsExact
  <2>2. Len(src) < MaxBytes <=> pc = "incomplete"
    BY <1>1, <1>2, <1>4 DEF VerdictIsExact
  <2>3. FromBytes(src) = [is |-> IF Len(src) < MaxBytes THEN "incomplete" ELSE "toolarge"]
    BY <2>1 DEF FromBytes
  <2> QED BY <1>4, <2>2, <2>3
<1> QED BY <1>3, <1>4

\* Given all that was written, the reader finds the value and the end.
LEMMA WholeIsRead ==
  ASSUME Assumptions, IInv, pc \in {"ok", "incomplete", "toolarge"}, whole, given < Size
  PROVE  pc = "ok" /\ value = given /\ pos = Len(src)
<1> DEFINE G == Groups(given)
<1>1. /\ pos \in Nat /\ MaxBytes \in Nat /\ given \in Nat /\ given \in 0..(Size - 1)
      /\ pos <= Len(src) /\ value = given % Weight[pos]
      /\ Len(src) = G /\ \A i \in 1..G : src[i] = ToBytes(given)[i]
  BY DEF IInv, TypeOK, ReadInv, PrefixInv, Reading, Assumptions, SizeAssumption
<1>2. G \in 1..MaxBytes /\ given \div Weight[G] = 0 /\ Weight[G] \in Nat /\ Weight[G] > 0
  BY <1>1, GroupsOf, WeightsArePositive DEF Assumptions
<1>3. VerdictIsExact
  BY Verdicts
<1>4. \A i \in 1..G : More(src[i]) <=> i < G
  BY <1>1, BytesWritten DEF Assumptions
<1> HIDE DEF G
<1>5. pc = "ok" /\ pos = G
  BY <1>1, <1>2, <1>3, <1>4 DEF VerdictIsExact
<1>6. given % Weight[G] = given
  BY <1>1, WholeValue DEF G, Assumptions
<1> QED BY <1>1, <1>5, <1>6

\* One case for each action.
LEMMA Inductive == ASSUME Assumptions, IInv, [Next]_vars PROVE IInv'
<1>1. CASE UNCHANGED vars
  <2>1. /\ Groups(given)' = Groups(given) /\ ToBytes(given)' = ToBytes(given)
        /\ ValueOf(src, pos)' = ValueOf(src, pos) /\ (\A i : More(src[i])' <=> More(src[i]))
    BY <1>1 DEF ToBytes, Groups, ValueOf, More, vars
  <2> QED BY <1>1, <2>1 DEF IInv, TypeOK, WriteInv, PrefixInv, ReadInv, Reading, vars, Continued
<1> QED BY <1>1, WriteKeeps, ExhaustedKeeps, ReadKeeps, DeliverKeeps DEF Next

\* What is read back is what was written.
LEMMA RoundTrips == Assumptions /\ IInv => RoundTrip
<1> SUFFICES ASSUME Assumptions, IInv PROVE RoundTrip
  OBVIOUS
<1>1. ASSUME pc = "wire"
      PROVE  Len(src) = EncodedLen(given) /\ Len(src) = Groups(given) /\ src = ToBytes(given)
  <2>1. given \in 0..(Size - 1) /\ src = ToBytes(given)
    BY <1>1 DEF IInv, TypeOK, WriteInv, Assumptions, SizeAssumption
  <2>2. Groups(given) \in 1..MaxBytes /\ EncodedLen(given) = Groups(given)
    BY <2>1, GroupsOf DEF Assumptions
  <2>3. Len(src) = Groups(given)
    BY <2>1, <2>2, LenProperties DEF ToBytes, Assumptions, SizeAssumption
  <2> QED BY <2>1, <2>2, <2>3
<1> QED BY <1>1, VerdictsAgree, WholeIsRead DEF RoundTrip

LEMMA InvariantHolds == ASSUME Assumptions PROVE Spec => []IInv
<1>1. Init => IInv
  BY Initial
<1>2. IInv /\ [Next]_vars => IInv'
  BY Inductive
<1> QED BY <1>1, <1>2, PTL DEF Spec

\* TypeOK: the loops keep within the lengths and values they declare.
THEOREM TypeCorrect == ASSUME Assumptions PROVE Spec => []TypeOK
<1>1. IInv => TypeOK
  BY DEF IInv
<1> QED BY <1>1, InvariantHolds, PTL

\* VerdictIsExact: whatever bytes it meets, read says "incomplete" exactly when
\* more could still make a VarInt.
THEOREM VerdictExact == ASSUME Assumptions PROVE Spec => []VerdictIsExact
<1>1. IInv => VerdictIsExact
  BY Verdicts
<1> QED BY <1>1, InvariantHolds, PTL

\* RoundTrip: every value is written in the number of bytes both encoded_len
\* announce and read back from them; read's loop computes FromBytes.
THEOREM RoundTripHolds == ASSUME Assumptions PROVE Spec => []RoundTrip
<1>1. IInv => RoundTrip
  BY RoundTrips
<1> QED BY <1>1, InvariantHolds, PTL
=============================================================================
