------------------------------ MODULE Asn1Proofs ------------------------------
(***************************************************************************)
(* Proofs about Asn1, for any arrays, any tags and a size_t of any number  *)
(* of bytes.  They begin with what recursive functions and the folds of    *)
(* FoldLeft compute, by induction; then come the header of a tag, the      *)
(* types, through each turn and each call, and the invariant that says     *)
(* where in the array the levels and the tags of Parse are.  The second    *)
(* half is about encoding: one tag is read as it was written, the tree     *)
(* that Encode is given can be read back, and Parse reads it back.         *)
(***************************************************************************)
EXTENDS Asn1, FiniteSetTheorems, WellFoundedInduction, TLAPS

-----------------------------------------------------------------------------
(* Induction over the numbers up to n, for a set instead of a predicate.   *)

(* A set of numbers has a least one. *)
LEMMA LeastElement ==
  ASSUME NEW T \in SUBSET Nat, T # {}
  PROVE  \E x \in T : \A y \in T : x <= y
<1>. DEFINE R == {ss \in Nat \X Nat : ss[1] < ss[2]}
<1>1. IsWellFoundedOn(R, Nat)
  BY NatLessThanWellFounded DEF OpToRel
<1>2. PICK x \in T : \A y \in T : <<y, x>> \notin R
  <2>. HIDE DEF R
  <2>. QED  BY <1>1, WFMin
<1>3. ASSUME NEW y \in T PROVE x <= y
  <2>1. y < x => <<y, x>> \in R
    OBVIOUS
  <2>. QED  BY <1>2, <2>1
<1>. QED  BY <1>3

LEMMA Induction ==
  ASSUME NEW T, NEW n \in Nat, 0 \in T, \A m \in 0 .. n - 1 : m \in T => m + 1 \in T
  PROVE  \A m \in 0 .. n : m \in T
<1>1. SUFFICES ASSUME NEW k \in 0 .. n, k \notin T PROVE FALSE
  OBVIOUS
<1>. DEFINE U == {m \in 0 .. n : m \notin T}
<1>2. PICK x \in U : \A y \in U : x <= y
  <2>1. U \in SUBSET Nat /\ U # {}
    BY <1>1
  <2>. HIDE DEF U
  <2>. QED  BY <2>1, LeastElement
<1>3. x # 0
  OBVIOUS
<1>. QED  BY <1>2, <1>3

LEMMA MinOf ==
  ASSUME NEW T \in SUBSET Nat, T # {}
  PROVE  Min(T) \in T /\ \A y \in T : Min(T) <= y
BY LeastElement DEF Min

LEMMA MaxIs ==
  ASSUME NEW T, T \in SUBSET Int, NEW m \in T, \A y \in T : y <= m
  PROVE  Max(T) = m
<1>1. \A x \in T : x \in Int
  OBVIOUS
<1>2. \E x \in T : \A y \in T : x >= y
  BY <1>1
<1>3. Max(T) \in T /\ \A y \in T : Max(T) >= y
  BY <1>2 DEF Max
<1>4. ASSUME NEW x \in T, \A y \in T : x >= y PROVE x = m
  <2>1. x \in Int /\ m \in Int /\ x >= m /\ x <= m
    BY <1>1, <1>4
  <2>. QED  BY <2>1
<1>. QED  BY <1>3, <1>4

LEMMA MaxUpTo ==
  ASSUME NEW m \in Nat
  PROVE  /\ Max(1 .. m + 1) = m + 1
         /\ (1 .. m + 1) \ {m + 1} = 1 .. m
         /\ 1 .. m + 1 # {}
<1>1. 1 .. m + 1 \in SUBSET Int /\ m + 1 \in 1 .. m + 1 /\ \A y \in 1 .. m + 1 : y <= m + 1
  OBVIOUS
<1>2. Max(1 .. m + 1) = m + 1
  BY <1>1, MaxIs
<1>3. (1 .. m + 1) \ {m + 1} = 1 .. m
  OBVIOUS
<1>. QED  BY <1>1, <1>2, <1>3

LEMMA MaxOf ==
  ASSUME NEW n \in Nat, NEW T \in SUBSET (1 .. n), T # {}
  PROVE  Max(T) \in T /\ \A y \in T : y <= Max(T)
<1>. DEFINE U == {n - x : x \in T}
<1>1. \A x \in T : x \in 1 .. n /\ n - x \in Nat
  OBVIOUS
<1>2. U \in SUBSET Nat /\ U # {}
  BY <1>1
<1>3. PICK z \in U : \A y \in U : z <= y
  <2>. HIDE DEF U
  <2>. QED  BY <1>2, LeastElement
<1>4. PICK x \in T : z = n - x
  OBVIOUS
<1>5. ASSUME NEW y \in T PROVE x >= y
  <2>1. n - y \in U /\ x \in 1 .. n /\ y \in 1 .. n
    BY <1>1
  <2>. HIDE DEF U
  <2>. QED  BY <1>3, <1>4, <2>1
<1>6. Max(T) \in T /\ \A y \in T : Max(T) >= y
  BY <1>5 DEF Max
<1>. QED  BY <1>6

LEMMA Remainder ==
  ASSUME NEW a \in Nat, NEW k \in Nat \ {0}
  PROVE  a % k \in 0 .. k - 1 /\ (a < k => a % k = a)
OBVIOUS

LEMMA BytesOf ==
  ASSUME NEW q \in Seq(Byte)
  PROVE  Len(q) \in Nat /\ DOMAIN q = 1 .. Len(q) /\ q \in [1 .. Len(q) -> 0 .. 255]
<1>1. Len(q) \in Nat /\ DOMAIN q = 1 .. Len(q) /\ q \in [1 .. Len(q) -> Byte]
  OBVIOUS
<1>2. Byte = 0 .. 255
  BY DEF Byte
<1>. QED  BY <1>1, <1>2

(* The function by which FoldLeft is defined, of all the sets of indices,  *)
(* when op takes an accumulator in X and an index.                         *)
FoldOf(it, n, X, b, op) ==
  /\ it \in [SUBSET (1 .. n) -> X]
  /\ \A s \in SUBSET (1 .. n) :
       it[s] = IF s = {} THEN b ELSE op[<<it[s \ {Max(s)}], Max(s)>>]

(* There is such a function. *)
LEMMA FoldExists ==
  ASSUME NEW n \in Nat, NEW X, NEW b \in X, NEW op \in [X \X (1 .. n) -> X]
  PROVE  \E it : FoldOf(it, n, X, b, op)
<1>. USE DEF FoldOf
<1>. DEFINE Is(it, m) == FoldOf(it, m, X, b, op)
            T == {m \in 0 .. n : \E it : Is(it, m)}
<1>1. 0 \in T
  <2>. DEFINE it == [s \in SUBSET (1 .. 0) |-> b]
  <2>1. \A s \in SUBSET (1 .. 0) : s = {}
    OBVIOUS
  <2>2. it \in [SUBSET (1 .. 0) -> X] /\ \A s \in SUBSET (1 .. 0) : it[s] = b
    OBVIOUS
  <2>3. Is(it, 0)
    <3>. HIDE DEF it
    <3>1. ASSUME NEW s \in SUBSET (1 .. 0)
          PROVE  it[s] = IF s = {} THEN b ELSE op[<<it[s \ {Max(s)}], Max(s)>>]
      <4>1. s = {} /\ it[s] = b
        BY <2>1, <2>2
      <4>. QED  BY <4>1
    <3>. QED  BY <2>2, <3>1
  <2>. HIDE DEF Is
  <2>. QED  BY <2>3
<1>2. ASSUME NEW m \in 0 .. n - 1, m \in T PROVE m + 1 \in T
  <2>1. PICK g : Is(g, m)
    BY <1>2
  <2>. DEFINE h == [s \in SUBSET (1 .. m + 1) |->
                      IF m + 1 \in s THEN op[<<g[s \ {m + 1}], m + 1>>] ELSE g[s]]
  <2>2. ASSUME NEW s \in SUBSET (1 .. m + 1), m + 1 \notin s
        PROVE  s \in SUBSET (1 .. m) /\ h[s] = g[s]
    BY <2>2
  <2>3. ASSUME NEW s \in SUBSET (1 .. m + 1), m + 1 \in s
        PROVE  /\ Max(s) = m + 1
               /\ s \ {Max(s)} \in SUBSET (1 .. m)
               /\ h[s \ {Max(s)}] = g[s \ {m + 1}]
               /\ h[s] = op[<<g[s \ {m + 1}], m + 1>>]
    <3>1. Max(s) = m + 1
      <4>1. s \in SUBSET Int /\ \A y \in s : y <= m + 1
        OBVIOUS
      <4>. QED  BY <4>1, <2>3, MaxIs
    <3>. QED  BY <3>1, <2>3
  <2>4. h \in [SUBSET (1 .. m + 1) -> X]
    <3>1. ASSUME NEW s \in SUBSET (1 .. m + 1) PROVE h[s] \in X
      <4>1. CASE m + 1 \in s
        <5>1. g[s \ {m + 1}] \in X
          BY <2>1
        <5>. QED  BY <5>1, <4>1, <2>3
      <4>2. CASE m + 1 \notin s
        BY <4>2, <2>1, <2>2
      <4>. QED  BY <4>1, <4>2
    <3>. QED  BY <3>1
  <2>5. ASSUME NEW s \in SUBSET (1 .. m + 1)
        PROVE  h[s] = IF s = {} THEN b ELSE op[<<h[s \ {Max(s)}], Max(s)>>]
    <3>1. CASE m + 1 \in s
      BY <3>1, <2>3
    <3>2. CASE m + 1 \notin s
      <4>1. s \in SUBSET (1 .. m) /\ h[s] = g[s]
        BY <3>2, <2>2
      <4>2. h[s \ {Max(s)}] = g[s \ {Max(s)}]
        <5>1. s \ {Max(s)} \in SUBSET (1 .. m + 1) /\ m + 1 \notin s \ {Max(s)}
          BY <3>2
        <5>. HIDE DEF h
        <5>. QED  BY <5>1, <2>2
      <4>. HIDE DEF h
      <4>. QED  BY <4>1, <4>2, <2>1
    <3>. QED  BY <3>1, <3>2
  <2>6. Is(h, m + 1)
    <3>. HIDE DEF h
    <3>. QED  BY <2>4, <2>5
  <2>. HIDE DEF Is, h
  <2>. QED  BY <2>6
<1>3. n \in T
  <2>. HIDE DEF T
  <2>. QED  BY <1>1, <1>2, Induction
<1>. QED  BY <1>3

(* Pow256 is the function that its definition says. *)
LEMMA Powers ==
  /\ Pow256[0] = 1
  /\ \A n \in Nat : Pow256[n] \in Nat \ {0} /\ Pow256[n + 1] = 256 * Pow256[n]
<1>. DEFINE Is(g, m) == /\ g \in [0 .. m -> Nat \ {0}]
                        /\ \A k \in 0 .. m : g[k] = IF k = 0 THEN 1 ELSE 256 * g[k - 1]
<1>1. ASSUME NEW n \in Nat PROVE \E g : Is(g, n)
  <2>. DEFINE T == {m \in 0 .. n : \E g : Is(g, m)}
  <2>1. 0 \in T
    <3>. DEFINE g == [k \in 0 .. 0 |-> 1]
    <3>1. g \in [0 .. 0 -> Nat \ {0}] /\ g[0] = 1
      OBVIOUS
    <3>2. Is(g, 0)
      <4>. HIDE DEF g
      <4>. QED  BY <3>1
    <3>. HIDE DEF Is
    <3>. QED  BY <3>2
  <2>2. ASSUME NEW m \in 0 .. n - 1, m \in T PROVE m + 1 \in T
    <3>1. PICK g : Is(g, m)
      BY <2>2
    <3>. DEFINE h == [k \in 0 .. m + 1 |-> IF k = m + 1 THEN 256 * g[m] ELSE g[k]]
    <3>2. h \in [0 .. m + 1 -> Nat \ {0}]
      BY <3>1
    <3>3. \A k \in 0 .. m + 1 : h[k] = IF k = 0 THEN 1 ELSE 256 * h[k - 1]
      BY <3>1
    <3>4. Is(h, m + 1)
      <4>. HIDE DEF h
      <4>. QED  BY <3>2, <3>3
    <3>. HIDE DEF h, Is
    <3>. QED  BY <3>4
  <2>. HIDE DEF T
  <2>3. n \in T
    BY <2>1, <2>2, Induction
  <2>. QED  BY <2>3 DEF T
<1>2. ASSUME NEW n \in Nat, NEW m \in 0 .. n, NEW f, NEW g, Is(f, m), Is(g, n)
      PROVE  f[m] = g[m]
  <2>. DEFINE T == {k \in 0 .. m : f[k] = g[k]}
  <2>1. 0 \in T
    BY <1>2
  <2>2. ASSUME NEW k \in 0 .. m - 1, k \in T PROVE k + 1 \in T
    BY <1>2, <2>2
  <2>. HIDE DEF T
  <2>3. m \in T
    BY <2>1, <2>2, Induction
  <2>. QED  BY <2>3 DEF T
<1>. DEFINE F(n) == CHOOSE g : Is(g, n)
            f == [n \in Nat |-> F(n)[n]]
            Rec(p) == p = [n \in Nat |-> IF n = 0 THEN 1 ELSE 256 * p[n - 1]]
<1>3. ASSUME NEW n \in Nat PROVE Is(F(n), n)
  <2>. HIDE DEF Is
  <2>. QED  BY <1>1
<1>4. Rec(f)
  <2>1. ASSUME NEW n \in Nat
        PROVE f[n] = IF n = 0 THEN 1 ELSE 256 * f[n - 1]
    <3>. HIDE DEF F
    <3>1. CASE n = 0
      BY <3>1, <1>3
    <3>2. CASE n # 0
      <4>1. f[n] = 256 * F(n)[n - 1]
        BY <3>2, <1>3
      <4>2. F(n - 1)[n - 1] = F(n)[n - 1]
        <5>. HIDE DEF Is
        <5>1. Is(F(n), n) /\ Is(F(n - 1), n - 1)
          BY <3>2, <1>3
        <5>. QED  BY <3>2, <5>1, <1>2
      <4>. QED  BY <3>2, <4>1, <4>2
    <3>. QED  BY <3>1, <3>2
  <2>. HIDE DEF F
  <2>. QED  BY <2>1
<1>5. Pow256 = CHOOSE p : Rec(p)
  BY DEF Pow256
<1>6. Rec(Pow256)
  <2>. HIDE DEF Rec, f
  <2>. QED  BY <1>4, <1>5
<1>7. Pow256[0] = 1 /\ \A n \in Nat : Pow256[n + 1] = 256 * Pow256[n]
  <2>. HIDE DEF f
  <2>. QED  BY <1>6
<1>8. ASSUME NEW n \in Nat PROVE Pow256[n] \in Nat \ {0}
  <2>. DEFINE T == {m \in 0 .. n : Pow256[m] \in Nat \ {0}}
  <2>1. 0 \in T /\ \A m \in 0 .. n - 1 : m \in T => m + 1 \in T
    BY <1>7
  <2>. HIDE DEF T
  <2>2. n \in T
    BY <2>1, Induction
  <2>. QED  BY <2>2 DEF T
<1>. HIDE DEF f
<1>. QED  BY <1>7, <1>8

LEMMA PowersGrow ==
  ASSUME NEW n \in Nat, NEW m \in 0 .. n
  PROVE  Pow256[m] <= Pow256[n]
<1>. DEFINE T == {k \in 0 .. n : k < m \/ Pow256[m] <= Pow256[k]}
<1>1. 0 \in T
  BY Powers
<1>2. ASSUME NEW k \in 0 .. n - 1, k \in T PROVE k + 1 \in T
  <2>1. Pow256[k + 1] = 256 * Pow256[k] /\ Pow256[k] \in Nat /\ Pow256[m] \in Nat
    BY Powers
  <2>. QED  BY <1>2, <2>1
<1>. HIDE DEF T
<1>3. n \in T
  BY <1>1, <1>2, Induction
<1>4. Pow256[m] \in Nat /\ Pow256[n] \in Nat
  BY Powers
<1>. QED  BY <1>3, <1>4 DEF T

-----------------------------------------------------------------------------
(* The header of a tag. *)

(* The number that these digits write, the first of them lost if they are  *)
(* too many: the length of DataLen.                                        *)
Number(q) == FoldLeft(LAMBDA len, digit : (len * 256 + digit) % SizeT, 0, q)

(* What is assumed of a size_t. *)
LEMMA SizeTIs ==
  /\ SizeT \in Nat /\ SizeBytes \in Nat \ {0} /\ MaxArray \in Nat
  /\ 256 * Pow256[SizeBytes - 1] = SizeT
  /\ Pow256[SizeBytes - 1] \in Nat \ {0}
  /\ 2 * MaxArray <= SizeT
<1>1. SizeBytes - 1 \in Nat /\ SizeBytes \in Nat
  BY SizeAssumption
<1>2. Pow256[SizeBytes - 1] \in Nat \ {0} /\ Pow256[SizeBytes - 1 + 1] = 256 * Pow256[SizeBytes - 1]
  BY <1>1, Powers
<1>. QED  BY <1>1, <1>2, SizeAssumption

(* One digit more makes the number 256 times as large, at most. *)
LEMMA DigitStep ==
  ASSUME NEW a \in Nat, NEW d \in 0 .. 255
  PROVE  /\ (a * 256 + d) % SizeT \in 0 .. SizeT - 1
         /\ \A p \in Nat : a < p => (a * 256 + d) % SizeT < 256 * p
<1>1. SizeT \in Nat \ {0}
  BY SizeTIs, Powers
<1>2. ASSUME NEW b \in Nat PROVE b % SizeT \in 0 .. SizeT - 1 /\ b % SizeT <= b
  <2>1. b % SizeT \in 0 .. SizeT - 1 /\ (b < SizeT => b % SizeT = b)
    BY <1>1, Remainder
  <2>. QED  BY <1>1, <2>1
<1>3. a * 256 + d \in Nat /\ \A p \in Nat : a < p => a * 256 + d < 256 * p
  OBVIOUS
<1>. DEFINE b == a * 256 + d
<1>4. b \in Nat
  BY <1>3
<1>. HIDE DEF b
<1>5. b % SizeT \in 0 .. SizeT - 1 /\ b % SizeT <= b
  BY <1>2, <1>4
<1>. QED  BY <1>3, <1>4, <1>5 DEF b

(* The fold of a length goes on as this function does. *)
Counted(g, n, q) ==
  /\ g \in [0 .. n -> 0 .. SizeT - 1] /\ g[0] = 0
  /\ \A j \in 0 .. n - 1 : g[j + 1] = (g[j] * 256 + q[j + 1]) % SizeT
  /\ \A j \in 0 .. n : g[j] < Pow256[j]
  /\ Number(q) = g[n]

LEMMA NumberSteps ==
  ASSUME NEW n \in Nat, NEW q \in [1 .. n -> 0 .. 255]
  PROVE  \E g : Counted(g, n, q)
<1>. DEFINE X == 0 .. SizeT - 1
            op == [a \in X \X (1 .. n) |-> (a[1] * 256 + q[a[2]]) % SizeT]
            Iter(it) == it = [s \in SUBSET DOMAIN q |->
                        IF s = {} THEN 0 ELSE (it[s \ {Max(s)}] * 256 + q[Max(s)]) % SizeT]
<1>1. DOMAIN q = 1 .. n /\ \A i \in 1 .. n : q[i] \in 0 .. 255
  OBVIOUS
<1>2. 0 \in X /\ \A x \in X : x \in Nat
  BY SizeTIs
<1>3. ASSUME NEW a \in X, NEW i \in 1 .. n PROVE (a * 256 + q[i]) % SizeT \in X
  <2>1. q[i] \in 0 .. 255 /\ a \in Nat
    BY <1>1, <1>2
  <2>. QED  BY <2>1, DigitStep
<1>4. op \in [X \X (1 .. n) -> X]
  <2>1. ASSUME NEW a \in X \X (1 .. n) PROVE (a[1] * 256 + q[a[2]]) % SizeT \in X
    <3>. HIDE DEF X
    <3>1. a[1] \in X /\ a[2] \in 1 .. n
      OBVIOUS
    <3>. QED  BY <3>1, <1>3
  <2>. HIDE DEF X
  <2>. QED  BY <2>1
<1>5. PICK it : FoldOf(it, n, X, 0, op)
  <2>. HIDE DEF op, X
  <2>. QED  BY <1>2, <1>4, FoldExists
<1>6. Iter(it)
  <2>1. ASSUME NEW s \in SUBSET (1 .. n), s # {}
        PROVE  it[s] = (it[s \ {Max(s)}] * 256 + q[Max(s)]) % SizeT
    <3>. HIDE DEF X, op
    <3>1. Max(s) \in s /\ s \ {Max(s)} \in SUBSET (1 .. n)
      BY <2>1, MaxOf
    <3>2. it[s \ {Max(s)}] \in X /\ Max(s) \in 1 .. n
      BY <3>1, <1>5 DEF FoldOf
    <3>3. op[<<it[s \ {Max(s)}], Max(s)>>] = (it[s \ {Max(s)}] * 256 + q[Max(s)]) % SizeT
      BY <3>2 DEF op
    <3>. QED  BY <2>1, <1>5, <3>3 DEF FoldOf
  <2>. HIDE DEF op
  <2>. QED  BY <2>1, <1>1, <1>5 DEF FoldOf
<1>. DEFINE F == CHOOSE f : Iter(f)
<1>7. Number(q) = F[DOMAIN q]
  BY DEF Number, FoldLeft, MapThenFoldSet
<1>8. Iter(F)
  <2>. HIDE DEF Iter
  <2>. QED  BY <1>6
<1>. HIDE DEF F
<1>. DEFINE T == {m \in 0 .. n : F[1 .. m] \in X /\ F[1 .. m] < Pow256[m]}
<1>9. 0 \in T
  <2>1. 1 .. 0 = {} /\ {} \in SUBSET DOMAIN q
    OBVIOUS
  <2>2. F[1 .. 0] = 0
    <3>. HIDE DEF X
    <3>. QED  BY <2>1, <1>8
  <2>3. F[1 .. 0] \in X /\ F[1 .. 0] < Pow256[0] /\ 0 \in 0 .. n
    <3>. HIDE DEF X
    <3>. QED  BY <2>2, <1>2, Powers
  <2>. HIDE DEF X
  <2>. QED  BY <2>3
<1>10. ASSUME NEW m \in 0 .. n - 1, m \in T PROVE m + 1 \in T
  <2>1. m \in Nat /\ 1 .. m + 1 \in SUBSET (1 .. n)
    OBVIOUS
  <2>2. Max(1 .. m + 1) = m + 1 /\ (1 .. m + 1) \ {m + 1} = 1 .. m /\ 1 .. m + 1 # {}
    BY <2>1, MaxUpTo
  <2>3. F[1 .. m + 1] = (F[1 .. m] * 256 + q[m + 1]) % SizeT
    <3>. HIDE DEF X
    <3>. QED  BY <2>1, <2>2, <1>1, <1>8
  <2>4. q[m + 1] \in 0 .. 255 /\ m + 1 \in 0 .. n /\ m \in Nat
    BY <1>1
  <2>5. F[1 .. m] \in Nat /\ F[1 .. m] < Pow256[m]
    <3>. HIDE DEF X
    <3>. QED  BY <1>10, <1>2
  <2>6. Pow256[m + 1] = 256 * Pow256[m] /\ Pow256[m] \in Nat
    BY <2>4, Powers
  <2>7. F[1 .. m + 1] \in X /\ F[1 .. m + 1] < Pow256[m + 1]
    <3>1. /\ (F[1 .. m] * 256 + q[m + 1]) % SizeT \in X
          /\ \A p \in Nat : F[1 .. m] < p => (F[1 .. m] * 256 + q[m + 1]) % SizeT < 256 * p
      BY <2>4, <2>5, DigitStep
    <3>. HIDE DEF X
    <3>. QED  BY <3>1, <2>3, <2>5, <2>6
  <2>. HIDE DEF X
  <2>. QED  BY <2>4, <2>7
<1>. HIDE DEF T
<1>11. \A m \in 0 .. n : m \in T
  <2>1. \A m \in 0 .. n - 1 : m \in T => m + 1 \in T
    BY <1>10
  <2>. QED  BY <1>9, <2>1, Induction, Zenon
<1>. DEFINE g == [m \in 0 .. n |-> F[1 .. m]]
<1>12. g \in [0 .. n -> X] /\ \A m \in 0 .. n : g[m] < Pow256[m]
  <2>. HIDE DEF X
  <2>. QED  BY <1>11 DEF T
<1>13. g[0] = 0 /\ Number(q) = g[n]
  <2>1. 1 .. 0 = {} /\ {} \in SUBSET DOMAIN q
    OBVIOUS
  <2>2. F[1 .. 0] = 0
    <3>. HIDE DEF X
    <3>. QED  BY <2>1, <1>8
  <2>. HIDE DEF X
  <2>. QED  BY <1>1, <1>7, <2>2
<1>14. ASSUME NEW j \in 0 .. n - 1 PROVE g[j + 1] = (g[j] * 256 + q[j + 1]) % SizeT
  <2>1. j \in Nat /\ 1 .. j + 1 \in SUBSET (1 .. n) /\ j \in 0 .. n /\ j + 1 \in 0 .. n
    OBVIOUS
  <2>2. Max(1 .. j + 1) = j + 1 /\ (1 .. j + 1) \ {j + 1} = 1 .. j /\ 1 .. j + 1 # {}
    BY <2>1, MaxUpTo
  <2>3. F[1 .. j + 1] = (F[1 .. j] * 256 + q[j + 1]) % SizeT
    <3>. HIDE DEF X
    <3>. QED  BY <2>1, <2>2, <1>1, <1>8
  <2>. QED  BY <2>1, <2>3
<1>. HIDE DEF g
<1>15. Counted(g, n, q)
  BY <1>12, <1>13, <1>14 DEF Counted
<1>. QED  BY <1>15

(* It is less than a power of 256. *)
LEMMA NumberIs ==
  ASSUME NEW n \in Nat, NEW q \in [1 .. n -> 0 .. 255]
  PROVE  Number(q) \in 0 .. SizeT - 1 /\ Number(q) < Pow256[n]
<1>1. PICK g : Counted(g, n, q)
  BY NumberSteps
<1>2. n \in 0 .. n
  OBVIOUS
<1>. QED  BY <1>1, <1>2 DEF Counted

(* A level of bytes of the array, at whose position l a tag begins. *)
IsTurn(v) == v \in Levels /\ v.l < v.size /\ v.size <= Len(v.bytes) /\ Len(v.bytes) <= MaxArray

(* A tag ends in the level, or nowhere. *)
LEMMA TagEndIs ==
  ASSUME NEW v, IsTurn(v)
  PROVE  TagEnd(v) \in v.l .. v.size
<1>1. v.l \in Nat /\ v.size \in Nat /\ v.l < v.size
  BY DEF IsTurn, Levels
<1>. DEFINE ends == {i \in v.l + 1 .. v.size - 1 : v.bytes[i + 1] < 128}
<1>2. CASE ends = {} \/ v.bytes[v.l + 1] % 32 # 31
  <2>1. TagEnd(v) = v.l \/ TagEnd(v) = v.size
    BY <1>2 DEF TagEnd
  <2>. QED  BY <2>1, <1>1
<1>3. CASE ends # {} /\ v.bytes[v.l + 1] % 32 = 31
  <2>1. ends \in SUBSET Nat /\ ends \in SUBSET (v.l .. v.size)
    BY <1>1
  <2>2. TagEnd(v) = Min(ends)
    BY <1>3 DEF TagEnd
  <2>3. TagEnd(v) \in ends
    <3>. HIDE DEF ends
    <3>. QED  BY <2>1, <2>2, <1>3, MinOf
  <2>. HIDE DEF ends
  <2>. QED  BY <2>1, <2>3
<1>. QED  BY <1>2, <1>3

(* The three forms of a length. *)
LEMMA DataLenIs ==
  ASSUME NEW v, NEW at
  PROVE  DataLen(v, at) =
           IF v.bytes[at + 2] < 128 THEN v.bytes[at + 2]
           ELSE IF v.bytes[at + 2] = 128 THEN (v.size - at - 2) % SizeT
           ELSE Number(SubSeq(v.bytes, at + 3, at + 2 + Digits(v, at)))
BY DEF DataLen, Number

(* The digits of a length that is in the array. *)
LEMMA DigitsIs ==
  ASSUME NEW v, IsTurn(v), NEW at \in Nat, LengthInArray(v, at)
  PROVE  /\ v.bytes \in Seq(Byte) /\ Len(v.bytes) \in Nat /\ Len(v.bytes) <= MaxArray
         /\ v.size \in Nat /\ v.size <= Len(v.bytes)
         /\ v.bytes[at + 2] \in 0 .. 255
         /\ Digits(v, at) = IF v.bytes[at + 2] < 128 THEN 0 ELSE v.bytes[at + 2] - 128
         /\ Digits(v, at) \in 0 .. 127
         /\ LengthLen(v, at) = 1 + Digits(v, at)
         /\ at + 2 + Digits(v, at) <= Len(v.bytes)
<1>1. /\ v.bytes \in Seq(Byte) /\ Len(v.bytes) \in Nat /\ Len(v.bytes) <= MaxArray
      /\ v.size \in Nat /\ v.size <= Len(v.bytes)
  BY DEF IsTurn, Levels
<1>2. at + 2 \in 1 .. Len(v.bytes)
  BY <1>1 DEF LengthInArray
<1>3. v.bytes[at + 2] \in 0 .. 255
  BY <1>1, <1>2, BytesOf
<1>4. Digits(v, at) = (IF v.bytes[at + 2] < 128 THEN 0 ELSE v.bytes[at + 2] - 128)
  BY DEF Digits
<1>5. Digits(v, at) \in 0 .. 127
  BY <1>3, <1>4
<1>. QED  BY <1>1, <1>3, <1>4, <1>5 DEF LengthLen, LengthInArray

(* How large the length may be. *)
LEMMA LengthIs ==
  ASSUME NEW v, IsTurn(v), NEW at \in Nat, LengthInArray(v, at)
  PROVE  /\ DataLen(v, at) \in 0 .. SizeT - 1
         /\ \/ DataLen(v, at) < 128
            \/ DataLen(v, at) < Pow256[Digits(v, at)]
            \/ at + 2 > v.size
            \/ LengthLen(v, at) = 1 /\ DataLen(v, at) = v.size - at - 2
<1>. DEFINE b == v.bytes[at + 2]
            d == Digits(v, at)
            D == DataLen(v, at)
            q == SubSeq(v.bytes, at + 3, at + 2 + d)
<1>1. /\ v.bytes \in Seq(Byte) /\ Len(v.bytes) \in Nat /\ Len(v.bytes) <= MaxArray
      /\ v.size \in Nat /\ v.size <= Len(v.bytes)
      /\ b \in 0 .. 255
      /\ d = IF b < 128 THEN 0 ELSE b - 128
      /\ d \in 0 .. 127
      /\ LengthLen(v, at) = 1 + d
      /\ at + 2 + d <= Len(v.bytes)
  BY DigitsIs
<1>2. D = IF b < 128 THEN b ELSE IF b = 128 THEN (v.size - at - 2) % SizeT ELSE Number(q)
  BY DataLenIs
<1>3. SizeT \in Nat \ {0} /\ 256 <= SizeT /\ MaxArray \in Nat /\ MaxArray < SizeT
  <2>1. /\ 256 * Pow256[SizeBytes - 1] = SizeT /\ Pow256[SizeBytes - 1] \in Nat \ {0}
        /\ MaxArray \in Nat /\ 2 * MaxArray <= SizeT
    BY SizeTIs
  <2>. QED  BY <2>1
<1>. HIDE DEF b, d, D
<1>4. CASE b < 128
  <2>1. D = b
    BY <1>2, <1>4
  <2>2. D \in 0 .. SizeT - 1 /\ D < 128
    BY <1>1, <1>3, <1>4, <2>1
  <2>. QED  BY <2>2 DEF D
<1>5. CASE b = 128
  <2>. DEFINE k == v.size - at - 2
  <2>1. D = k % SizeT /\ LengthLen(v, at) = 1
    BY <1>1, <1>2, <1>5
  <2>2. k \in Int /\ (at + 2 <= v.size => k \in 0 .. SizeT - 1)
    BY <1>1, <1>3
  <2>3. ASSUME NEW z \in Int PROVE z % SizeT \in 0 .. SizeT - 1
    BY <1>3
  <2>4. D \in 0 .. SizeT - 1 /\ (at + 2 <= v.size => D = k)
    <3>. HIDE DEF k
    <3>1. k % SizeT \in 0 .. SizeT - 1
      BY <2>2, <2>3
    <3>2. ASSUME k \in 0 .. SizeT - 1 PROVE k % SizeT = k
      <4>1. k \in Nat /\ k < SizeT
        BY <1>3, <3>2
      <4>. QED  BY <1>3, <4>1, Remainder
    <3>. QED  BY <3>1, <3>2, <2>1, <2>2
  <2>5. at + 2 > v.size \/ at + 2 <= v.size
    BY <1>1
  <2>. QED  BY <2>1, <2>4, <2>5 DEF D
<1>6. CASE b > 128
  <2>1. D = Number(q)
    BY <1>1, <1>2, <1>6
  <2>2. q \in Seq(Byte) /\ Len(q) = d
    <3>. DEFINE s == v.bytes
    <3>1. s \in Seq(Byte) /\ at + 2 + d <= Len(s) /\ d \in Nat
      BY <1>1
    <3>2. SubSeq(s, at + 3, at + 2 + d) \in Seq(Byte) /\ Len(SubSeq(s, at + 3, at + 2 + d)) = d
      <4>. HIDE DEF s
      <4>. QED  BY <3>1
    <3>. QED  BY <3>2
  <2>3. q \in [1 .. d -> 0 .. 255]
    BY <2>2, BytesOf
  <2>4. Number(q) \in 0 .. SizeT - 1 /\ Number(q) < Pow256[d]
    <3>. HIDE DEF q
    <3>. QED  BY <2>3, <1>1, NumberIs
  <2>. HIDE DEF q
  <2>. QED  BY <2>1, <2>4 DEF D, d
<1>7. b < 128 \/ b = 128 \/ b > 128
  BY <1>1
<1>. QED  BY <1>4, <1>5, <1>6, <1>7

(* A sum wraps around only in a header that the level cuts off, or that    *)
(* has too many digits.                                                    *)
LEMMA SumWraps ==
  ASSUME NEW v, IsTurn(v), NEW at \in Nat, LengthInArray(v, at),
         Bounded(v, at), End(v, at) > v.size,
         at + 2 + Digits(v, at) <= v.size, Digits(v, at) < SizeBytes
  PROVE  FALSE
<1>. DEFINE D == DataLen(v, at)
            d == Digits(v, at)
            P == Pow256[SizeBytes - 1]
            sum == at + 2 + d + D
<1>1. /\ v.size \in Nat /\ v.size <= MaxArray
      /\ d \in 0 .. 127 /\ LengthLen(v, at) = 1 + d
  <2>1. MaxArray \in Nat
    BY SizeTIs
  <2>2. v.size \in Nat /\ Len(v.bytes) \in Nat /\ Len(v.bytes) <= MaxArray /\ v.size <= Len(v.bytes)
    BY DigitsIs
  <2>3. d \in 0 .. 127 /\ LengthLen(v, at) = 1 + d
    BY DigitsIs
  <2>. QED  BY <2>1, <2>2, <2>3
<1>2. /\ 256 * P = SizeT /\ P \in Nat \ {0} /\ SizeT \in Nat /\ SizeBytes \in Nat \ {0}
      /\ MaxArray \in Nat /\ 2 * MaxArray <= SizeT
  BY SizeTIs
<1>3. /\ D \in 0 .. SizeT - 1
      /\ D < 128 \/ D < Pow256[d] \/ at + 2 > v.size \/ (d = 0 /\ D = v.size - at - 2)
  <2>1. /\ D \in 0 .. SizeT - 1
        /\ D < 128 \/ D < Pow256[d] \/ at + 2 > v.size \/ (LengthLen(v, at) = 1 /\ D = v.size - at - 2)
    BY LengthIs
  <2>. HIDE DEF D, d
  <2>. QED  BY <2>1, <1>1
<1>4. End(v, at) = at + 1 + LengthLen(v, at) + D /\ (at + D + LengthLen(v, at) + 1) % SizeT <= v.size
  BY DEF End, Bounded
<1>5. at + 2 + d <= v.size /\ d < SizeBytes /\ End(v, at) > v.size
  OBVIOUS
<1>6. Pow256[d] <= P
  <2>1. SizeBytes - 1 \in Nat /\ d \in 0 .. SizeBytes - 1
    <3>. HIDE DEF d
    <3>. QED  BY <1>1, <1>2, <1>5
  <2>. HIDE DEF d
  <2>. QED  BY <2>1, PowersGrow
<1>7. Pow256[d] \in Nat
  <2>. HIDE DEF d
  <2>. QED  BY <1>1, Powers
<1>. HIDE DEF D, d, P
<1>8. sum \in Nat /\ End(v, at) = sum /\ at + D + LengthLen(v, at) + 1 = sum
  BY <1>1, <1>2, <1>3, <1>4
<1>9. sum < SizeT
  <2>1. CASE d = 0 /\ D = v.size - at - 2
    BY <2>1, <1>1, <1>4, <1>5, <1>8
  <2>2. CASE D < 128 \/ D < P
    BY <2>2, <1>1, <1>2, <1>3, <1>5
  <2>3. at + 2 <= v.size /\ (D < Pow256[d] => D < P)
    BY <1>1, <1>2, <1>3, <1>5, <1>6, <1>7
  <2>4. ~(at + 2 > v.size)
    BY <2>3, <1>1
  <2>. QED  BY <2>1, <2>2, <2>3, <2>4, <1>3
<1>10. sum % SizeT = sum
  <2>1. SizeT \in Nat \ {0}
    BY <1>2
  <2>. HIDE DEF sum
  <2>. QED  BY <2>1, <1>8, <1>9, Remainder
<1>11. sum > v.size /\ sum <= v.size
  <2>. HIDE DEF sum
  <2>. QED  BY <1>4, <1>5, <1>8, <1>10
<1>. HIDE DEF sum
<1>. QED  BY <1>1, <1>8, <1>11

-----------------------------------------------------------------------------
(* The types. *)

(* Whatever the parser keeps can be allocated; with AsnTypeOK, this is     *)
(* inductive.                                                              *)
Small ==
  /\ Len(input) <= MaxArray
  /\ \A k \in DOMAIN levels : Len(levels[k].bytes) <= MaxArray
  /\ \A i \in DOMAIN elements : Len(elements[i].content) <= MaxArray
  /\ Len(encoded) <= MaxArray
  /\ Parsing \/ phase = "undefined" => levels # <<>>

LEMMA FrontIs ==
  ASSUME NEW X, NEW s \in Seq(X), s # <<>>
  PROVE  /\ Front(s) \in Seq(X) /\ Len(Front(s)) = Len(s) - 1
         /\ \A k \in 1 .. Len(s) - 1 : Front(s)[k] = s[k]
<1>1. Front(s) = SubSeq(s, 1, Len(s) - 1)
  BY DEF Front
<1>2. PICK n \in Nat : Len(s) = n + 1
  <2>1. Len(s) \in Nat /\ Len(s) # 0
    OBVIOUS
  <2>. QED  BY <2>1, Len(s) - 1 \in Nat, Len(s) = (Len(s) - 1) + 1
<1>3. /\ SubSeq(s, 1, n) \in Seq(X) /\ Len(SubSeq(s, 1, n)) = n
      /\ \A k \in 1 .. n : SubSeq(s, 1, n)[k] = s[k]
  BY <1>2
<1>4. Len(s) - 1 = n
  BY <1>2
<1>. QED  BY <1>1, <1>3, <1>4

LEMMA TypeParts ==
  ASSUME AsnTypeOK, Small
  PROVE  /\ levels \in Seq(Levels)
         /\ elements \in Seq(CASNTag)
         /\ \A k \in DOMAIN levels :
              /\ levels[k] \in Levels
              /\ levels[k].parent <= Len(elements) /\ levels[k].l <= levels[k].size
              /\ levels[k].size <= Len(levels[k].bytes) /\ Len(levels[k].bytes) <= MaxArray
BY DEF AsnTypeOK, Small, Range

LEMMA LastLevel ==
  ASSUME AsnTypeOK, Small, Parsing
  PROVE  /\ levels # <<>> /\ Len(levels) \in Nat \ {0} /\ Last(levels) = levels[Len(levels)]
         /\ Last(levels) \in Levels
         /\ Last(levels).parent <= Len(elements)
         /\ Last(levels).l < Last(levels).size => IsTurn(Last(levels))
<1>1. levels # <<>> /\ levels \in Seq(Levels)
  BY DEF AsnTypeOK, Small
<1>2. Len(levels) \in DOMAIN levels /\ Len(levels) \in Nat \ {0} /\ Last(levels) = levels[Len(levels)]
  BY <1>1 DEF Last
<1>. QED  BY <1>1, <1>2, TypeParts DEF IsTurn

LEMMA StopType ==
  ASSUME AsnTypeOK, Small, Throw \/ (Parsing /\ Stray)
  PROVE  AsnTypeOK' /\ Small'
BY DEF AsnTypeOK, Small, Throw, Stray, Parsing

(* Each step keeps the types.  The return of Parse, with the tags given to the target. *)
LEMMA ReturnType ==
  ASSUME AsnTypeOK, Small, Parsing, ReturnFromParse
  PROVE  AsnTypeOK' /\ Small'
<1>1. /\ levels # <<>> /\ Len(levels) \in Nat \ {0} /\ levels \in Seq(Levels)
      /\ elements \in Seq(CASNTag)
  BY LastLevel DEF AsnTypeOK
<1>2. /\ levels' \in Seq(Levels) /\ Len(levels') = Len(levels) - 1
      /\ \A k \in DOMAIN levels' : k \in DOMAIN levels /\ levels'[k] = levels[k]
  <2>1. levels' = Front(levels)
    BY DEF ReturnFromParse
  <2>. QED  BY <1>1, <2>1, FrontIs
<1>3. /\ elements' \in Seq(CASNTag) /\ Len(elements') = Len(elements)
      /\ \A i \in DOMAIN elements' :
           /\ i \in DOMAIN elements /\ elements'[i].parent = elements[i].parent
           /\ Len(elements'[i].content) <= Len(elements[i].content)
  <2>1. CASE elements' = elements
    BY <2>1, <1>1
  <2>2. CASE elements' # elements
    <3>1. elements' = [elements EXCEPT ![target].forced = TRUE, ![target].content = <<>>] /\ target # 0
      BY <2>2 DEF ReturnFromParse
    <3>2. target \in DOMAIN elements
      BY <3>1, <1>1 DEF AsnTypeOK
    <3>. DEFINE e == [elements[target] EXCEPT !.forced = TRUE, !.content = <<>>]
    <3>3. elements' = [elements EXCEPT ![target] = e]
      BY <3>1, <3>2, <1>1
    <3>4. elements[target] \in CASNTag
      BY <3>2, <1>1
    <3>5. e \in CASNTag /\ e.parent = elements[target].parent /\ e.content = <<>>
      <4>1. <<>> \in Seq(Byte)
        OBVIOUS
      <4>. QED  BY <3>4, <4>1 DEF CASNTag
    <3>6. \A i \in DOMAIN elements : Len(elements[i].content) \in Nat
      BY <1>1 DEF CASNTag
    <3>7. Len(e.content) = 0
      BY <3>5
    <3>. HIDE DEF e
    <3>. QED  BY <1>1, <3>2, <3>3, <3>5, <3>6, <3>7
  <2>. QED  BY <2>1, <2>2
<1>4. /\ UNCHANGED <<input, target, encoded>>
      /\ phase' = phase \/ (Len(levels) = 1 /\ phase' = AfterParse)
  BY DEF ReturnFromParse
<1>5. /\ phase' \in {"parsing", "reparsing", "rereading", "parsed", "reparsed", "reread"}
      /\ Parsing' => Len(levels) # 1
  BY <1>4 DEF Parsing, AfterParse, ReturnFromParse
<1>6. ASSUME NEW k \in DOMAIN levels'
      PROVE  /\ levels'[k].parent <= Len(elements')
             /\ levels'[k].l <= levels'[k].size
             /\ levels'[k].size <= Len(levels'[k].bytes)
             /\ Len(levels'[k].bytes) <= MaxArray
  BY <1>2, <1>3, TypeParts
<1>7. AsnTypeOK'
  <2>1. \A v \in Range(levels') : v.parent <= Len(elements') /\ v.l <= v.size /\ v.size <= Len(v.bytes)
    BY <1>6 DEF Range
  <2>2. \A i \in DOMAIN elements' : elements'[i].parent < i
    BY <1>3 DEF AsnTypeOK
  <2>3. input' \in Seq(Byte) /\ target' \in 0 .. Len(elements') /\ encoded' \in Seq(Byte)
    BY <1>3, <1>4 DEF AsnTypeOK
  <2>. QED  BY <1>2, <1>3, <1>5, <2>1, <2>2, <2>3 DEF AsnTypeOK
<1>8. Small'
  <2>1. \A i \in DOMAIN elements' : Len(elements'[i].content) <= MaxArray
    <3>1. MaxArray \in Nat
      BY SizeTIs
    <3>2. ASSUME NEW i \in DOMAIN elements' PROVE Len(elements'[i].content) <= MaxArray
      <4>1. /\ Len(elements'[i].content) <= Len(elements[i].content)
            /\ Len(elements[i].content) <= MaxArray
        BY <1>3 DEF Small
      <4>2. elements'[i].content \in Seq(Byte) /\ elements[i].content \in Seq(Byte)
        <5>1. i \in DOMAIN elements /\ elements'[i] \in CASNTag /\ elements[i] \in CASNTag
          BY <1>1, <1>3
        <5>. QED  BY <5>1 DEF CASNTag
      <4>3. Len(elements'[i].content) \in Nat /\ Len(elements[i].content) \in Nat
        BY <4>2
      <4>. QED  BY <3>1, <4>1, <4>3
    <3>. QED  BY <3>2
  <2>2. Len(input') <= MaxArray /\ Len(encoded') <= MaxArray
    BY <1>4 DEF Small
  <2>3. Parsing' \/ phase' = "undefined" => levels' # <<>>
    BY <1>1, <1>2, <1>5
  <2>. QED  BY <1>6, <2>1, <2>2, <2>3 DEF Small
<1>. QED  BY <1>7, <1>8

LEMMA SubSeqIs ==
  ASSUME NEW X, NEW s \in Seq(X), NEW m \in Nat, NEW n \in Nat, m <= n, n <= Len(s)
  PROVE  /\ SubSeq(s, m + 1, n) \in Seq(X) /\ Len(SubSeq(s, m + 1, n)) = n - m
         /\ \A i \in 1 .. n - m : SubSeq(s, m + 1, n)[i] = s[m + i]
<1>1. /\ SubSeq(s, m + 1, n) \in Seq(X) /\ Len(SubSeq(s, m + 1, n)) = n - m
      /\ \A i \in 1 .. n - m : SubSeq(s, m + 1, n)[i] = s[m + 1 + i - 1]
  OBVIOUS
<1>2. \A i \in Int : m + 1 + i - 1 = m + i
  OBVIOUS
<1>. QED  BY <1>1, <1>2

(* A tag whose value lies in the level. *)
Fits(v, at) ==
  /\ IsTurn(v) /\ at \in Nat /\ v.l <= at /\ at < v.size
  /\ LengthInArray(v, at) /\ End(v, at) <= v.size

LEMMA FitsIs ==
  ASSUME NEW v, NEW at, Fits(v, at)
  PROVE  /\ v.l \in Nat /\ v.size \in Nat /\ v.startseq \in Nat /\ v.parent \in Nat
         /\ v.bytes \in Seq(Byte) /\ Len(v.bytes) \in Nat
         /\ v.size <= Len(v.bytes) /\ Len(v.bytes) <= MaxArray
         /\ v.l <= at /\ at < v.size /\ at \in Nat
         /\ LengthLen(v, at) \in Nat \ {0} /\ DataLen(v, at) \in Nat
         /\ End(v, at) = at + 1 + LengthLen(v, at) + DataLen(v, at)
         /\ End(v, at) \in Nat /\ End(v, at) <= v.size
<1>1. IsTurn(v) /\ at \in Nat /\ LengthInArray(v, at)
  BY DEF Fits
<1>2. /\ v.l \in Nat /\ v.size \in Nat /\ v.startseq \in Nat /\ v.parent \in Nat
      /\ v.bytes \in Seq(Byte) /\ Len(v.bytes) \in Nat
      /\ v.size <= Len(v.bytes) /\ Len(v.bytes) <= MaxArray
  BY <1>1 DEF IsTurn, Levels
<1>3. LengthLen(v, at) \in Nat \ {0}
  <2>1. Digits(v, at) \in 0 .. 127 /\ LengthLen(v, at) = 1 + Digits(v, at)
    BY <1>1, DigitsIs
  <2>. QED  BY <2>1
<1>4. DataLen(v, at) \in Nat
  <2>1. DataLen(v, at) \in 0 .. SizeT - 1
    BY <1>1, LengthIs
  <2>. QED  BY <2>1, SizeTIs
<1>5. /\ v.l <= at /\ at < v.size /\ End(v, at) <= v.size
      /\ End(v, at) = at + 1 + LengthLen(v, at) + DataLen(v, at)
  BY DEF Fits, End
<1>6. End(v, at) \in Nat
  BY <1>1, <1>3, <1>4, <1>5
<1>. QED  BY <1>1, <1>2, <1>3, <1>4, <1>5, <1>6

LEMMA ContentIs ==
  ASSUME NEW v, NEW at, Fits(v, at)
  PROVE  /\ Content(v, at) \in Seq(Byte) /\ Len(Content(v, at)) = DataLen(v, at)
         /\ \A i \in 1 .. DataLen(v, at) : Content(v, at)[i] = v.bytes[at + LengthLen(v, at) + 1 + i]
<1>. DEFINE L == LengthLen(v, at)
            D == DataLen(v, at)
<1>1. /\ v.bytes \in Seq(Byte) /\ Len(v.bytes) \in Nat
      /\ v.size \in Nat /\ v.size <= Len(v.bytes) /\ at \in Nat
      /\ L \in Nat \ {0} /\ D \in Nat
      /\ End(v, at) = at + 1 + L + D /\ End(v, at) <= v.size /\ End(v, at) \in Nat
  BY FitsIs
<1>2. Content(v, at) = SubSeq(v.bytes, at + L + 2, End(v, at))
  BY DEF Content
<1>. HIDE DEF L, D
<1>. DEFINE m == at + L + 1
<1>3. /\ m \in Nat /\ m <= End(v, at) /\ End(v, at) <= Len(v.bytes)
      /\ End(v, at) - m = D /\ at + L + 2 = m + 1
  BY <1>1
<1>. HIDE DEF m
<1>4. /\ Content(v, at) \in Seq(Byte) /\ Len(Content(v, at)) = D
      /\ \A i \in 1 .. D : Content(v, at)[i] = v.bytes[m + i]
  BY <1>1, <1>2, <1>3, SubSeqIs
<1>. QED  BY <1>4 DEF L, D, m

LEMMA InsideIs ==
  ASSUME NEW v, NEW at, Fits(v, at), elements \in Seq(CASNTag), NEW w, w = Inside(v, at)
  PROVE  /\ w \in Levels
         /\ w.parent = Len(elements) + 1 /\ w.l = 0 /\ w.size = DataLen(v, at)
         /\ w.startseq = v.startseq + at + LengthLen(v, at) + 1
         /\ Len(w.bytes) = Len(v.bytes) - (at + LengthLen(v, at) + 1)
         /\ w.size <= Len(w.bytes) /\ Len(w.bytes) <= MaxArray
         /\ \A i \in 1 .. Len(w.bytes) : w.bytes[i] = v.bytes[at + LengthLen(v, at) + 1 + i]
<1>. DEFINE L == LengthLen(v, at)
            D == DataLen(v, at)
            n == Len(v.bytes)
<1>1. /\ v.bytes \in Seq(Byte) /\ n \in Nat /\ n <= MaxArray
      /\ v.size \in Nat /\ v.size <= n /\ at \in Nat /\ v.startseq \in Nat
      /\ L \in Nat \ {0} /\ D \in Nat
      /\ at + 1 + L + D <= v.size
  <2>. HIDE DEF L, D, n
  <2>. QED  BY FitsIs DEF L, D, n
<1>2. /\ w.bytes = SubSeq(v.bytes, at + L + 2, n)
      /\ w.parent = Len(elements) + 1 /\ w.l = 0 /\ w.size = D
      /\ w.startseq = v.startseq + at + L + 1
      /\ w = [parent |-> w.parent, bytes |-> w.bytes, size |-> w.size, l |-> w.l,
              startseq |-> w.startseq]
  BY DEF Inside, Level
<1>. HIDE DEF L, D, n
<1>. DEFINE m == at + L + 1
<1>3. /\ m \in Nat /\ m <= n /\ at + L + 2 = m + 1
      /\ w.startseq \in Nat
      /\ D <= n - m /\ n - m \in Nat /\ n - m <= MaxArray
  <2>1. MaxArray \in Nat
    BY SizeTIs
  <2>2. w.startseq \in Nat
    <3>1. v.startseq + at + L + 1 \in Nat
      BY <1>1
    <3>. QED  BY <3>1, <1>2, Zenon
  <2>3. m \in Nat /\ m <= n /\ at + L + 2 = m + 1 /\ D <= n - m
    BY <1>1
  <2>4. n - m \in Nat /\ n - m <= MaxArray
    <3>. HIDE DEF m
    <3>. QED  BY <1>1, <2>1, <2>3
  <2>. HIDE DEF m
  <2>. QED  BY <2>2, <2>3, <2>4
<1>. HIDE DEF m
<1>4. /\ w.bytes \in Seq(Byte) /\ Len(w.bytes) = n - m
      /\ \A i \in 1 .. n - m : w.bytes[i] = v.bytes[m + i]
  <2>1. n = Len(v.bytes)
    BY DEF n
  <2>2. w.bytes = SubSeq(v.bytes, m + 1, n)
    BY <1>2, <1>3
  <2>3. /\ SubSeq(v.bytes, m + 1, n) \in Seq(Byte) /\ Len(SubSeq(v.bytes, m + 1, n)) = n - m
        /\ \A i \in 1 .. n - m : SubSeq(v.bytes, m + 1, n)[i] = v.bytes[m + i]
    <3>1. v.bytes \in Seq(Byte) /\ m \in Nat /\ n \in Nat /\ m <= n /\ n <= Len(v.bytes)
      BY <1>1, <1>3, <2>1
    <3>. QED  BY <3>1, SubSeqIs, Zenon
  <2>. QED  BY <2>2, <2>3
<1>5. w \in Levels
  <2>1. w.parent \in Nat /\ w.l \in Nat /\ w.size \in Nat
    BY <1>1, <1>2
  <2>. QED  BY <1>2, <1>3, <1>4, <2>1 DEF Levels
<1>6. w.size <= Len(w.bytes) /\ Len(w.bytes) <= MaxArray
  BY <1>2, <1>3, <1>4
<1>. QED  BY <1>2, <1>4, <1>5, <1>6 DEF L, D, n, m

LEMMA WithContent ==
  ASSUME NEW e \in CASNTag, NEW c \in Seq(Byte)
  PROVE  /\ [e EXCEPT !.content = c] \in CASNTag
         /\ [e EXCEPT !.content = c].content = c
         /\ [e EXCEPT !.content = c].parent = e.parent
         /\ [e EXCEPT !.content = c].forced = e.forced
         /\ [e EXCEPT !.content = c].tag = e.tag
         /\ [e EXCEPT !.content = c].startPos = e.startPos
         /\ [e EXCEPT !.content = c].endPos = e.endPos
BY DEF CASNTag

LEMMA NewElementIs ==
  ASSUME NEW v, NEW at, Fits(v, at)
  PROVE  /\ NewElement(v, at) \in CASNTag
         /\ NewElement(v, at).parent = v.parent
         /\ NewElement(v, at).content = <<>>
         /\ NewElement(v, at).forced = FALSE
         /\ NewElement(v, at).startPos = v.startseq + at
         /\ NewElement(v, at).endPos = v.startseq + End(v, at)
         /\ Last(NewElement(v, at).tag) = v.bytes[at + 1]
<1>. DEFINE e == NewElement(v, at)
<1>1. /\ v.bytes \in Seq(Byte) /\ Len(v.bytes) \in Nat
      /\ v.size \in Nat /\ v.size <= Len(v.bytes) /\ at \in Nat /\ v.l \in Nat
      /\ v.startseq \in Nat /\ v.parent \in Nat /\ v.l <= at /\ at < v.size
      /\ End(v, at) \in Nat
  BY FitsIs
<1>2. /\ e.parent = v.parent /\ e.content = <<>> /\ e.forced = FALSE
      /\ e.startPos = v.startseq + at /\ e.endPos = v.startseq + End(v, at)
      /\ e.tag = SubSeq(v.bytes, v.l + 1, at + 1)
      /\ e = [tag |-> e.tag, parent |-> e.parent, content |-> e.content, forced |-> e.forced,
              startPos |-> e.startPos, endPos |-> e.endPos]
  BY DEF NewElement
<1>. HIDE DEF e
<1>. DEFINE n == at + 1
            k == n - v.l
<1>3. /\ n \in Nat /\ v.l <= n /\ n <= Len(v.bytes)
      /\ k \in Nat \ {0} /\ v.l + k = n
  BY <1>1
<1>. HIDE DEF n
<1>4. /\ e.tag \in Seq(Byte) /\ Len(e.tag) = k
      /\ \A i \in 1 .. k : e.tag[i] = v.bytes[v.l + i]
  <2>1. e.tag = SubSeq(v.bytes, v.l + 1, n)
    BY <1>2 DEF n
  <2>2. /\ SubSeq(v.bytes, v.l + 1, n) \in Seq(Byte) /\ Len(SubSeq(v.bytes, v.l + 1, n)) = n - v.l
        /\ \A i \in 1 .. n - v.l : SubSeq(v.bytes, v.l + 1, n)[i] = v.bytes[v.l + i]
    <3>1. v.bytes \in Seq(Byte) /\ v.l \in Nat /\ n \in Nat /\ v.l <= n /\ n <= Len(v.bytes)
      BY <1>1, <1>3
    <3>. QED  BY <3>1, SubSeqIs, Zenon
  <2>. QED  BY <2>1, <2>2
<1>5. e.tag # <<>> /\ Last(e.tag) = v.bytes[at + 1]
  <2>. HIDE DEF k
  <2>1. k \in 1 .. k /\ Len(e.tag) # 0
    BY <1>3, <1>4
  <2>2. e.tag[k] = v.bytes[n]
    BY <1>3, <1>4, <2>1
  <2>. QED  BY <1>4, <2>1, <2>2 DEF Last, n
<1>6. <<>> \in Seq(Byte) /\ v.startseq + at \in Nat /\ v.startseq + End(v, at) \in Nat
  BY <1>1
<1>. HIDE DEF k
<1>7. e \in CASNTag
  BY <1>1, <1>2, <1>4, <1>5, <1>6 DEF CASNTag
<1>. QED  BY <1>2, <1>5, <1>7 DEF e

(* A turn that finds a tag. *)
Found(v, at, e) ==
  /\ Parsing /\ v = Last(levels) /\ at = TagEnd(v) /\ Fits(v, at)
  /\ ~IsEndOfContents(v, at)
  /\ LET next == [levels EXCEPT ![Len(levels)].l = End(v, at)] IN
     \/ /\ IsSequence(e) /\ e = NewElement(v, at)
        /\ elements' = Append(elements, e)
        /\ levels' = Append(next, Inside(v, at))
     \/ /\ ~IsSequence(e) /\ e = [NewElement(v, at) EXCEPT !.content = Content(v, at)]
        /\ elements' = Append(elements, e)
        /\ levels' = next
  /\ UNCHANGED <<input, target, phase, encoded, written>>

(* A turn throws, strays, returns or finds a tag that lies in the level. *)
LEMMA TurnIs ==
  ASSUME AsnTypeOK, Small, Turn
  PROVE  \/ Throw \/ Stray \/ ReturnFromParse
         \/ \E v, at, e : Found(v, at, e)
<1>. DEFINE v == Last(levels)
            at == TagEnd(v)
<1>1. Parsing /\ v.l < v.size /\ IsTurn(v)
  BY LastLevel DEF Turn
<1>2. at \in v.l .. v.size /\ v.l \in Nat /\ v.size \in Nat
  <2>1. v.l \in Nat /\ v.size \in Nat
    BY <1>1 DEF IsTurn, Levels
  <2>. QED  BY <1>1, <2>1, TagEndIs
<1>3. \/ Throw
      \/ ReadBeyondArray(v, at)
      \/ EndOfContents(v, at)
      \/ at < v.size /\ Element(v, at)
  BY DEF Turn
<1>4. CASE ReadBeyondArray(v, at)
  BY <1>4 DEF ReadBeyondArray
<1>5. CASE EndOfContents(v, at)
  BY <1>5 DEF EndOfContents
<1>6. CASE at < v.size /\ Element(v, at)
  <2>. DEFINE e == NewElement(v, at)
              f == [e EXCEPT !.content = Content(v, at)]
  <2>1. CASE Throw \/ Stray
    BY <2>1
  <2>2. CASE /\ Bounded(v, at) /\ End(v, at) <= v.size
             /\ IF IsSequence(e)
                THEN /\ elements' = Append(elements, e)
                     /\ levels' = Append([levels EXCEPT ![Len(levels)].l = End(v, at)], Inside(v, at))
                ELSE /\ elements' = Append(elements, [e EXCEPT !.content = Content(v, at)])
                     /\ levels' = [levels EXCEPT ![Len(levels)].l = End(v, at)]
             /\ UNCHANGED <<input, target, phase, encoded, written>>
    <3>1. Fits(v, at) /\ ~IsEndOfContents(v, at)
      BY <1>1, <1>2, <1>6, <2>2 DEF Fits, Element
    <3>2. f.tag = e.tag /\ f.forced = e.forced
      <4>1. e \in CASNTag /\ Content(v, at) \in Seq(Byte)
        BY <3>1, NewElementIs, ContentIs
      <4>. HIDE DEF e
      <4>. QED  BY <4>1, WithContent
    <3>3. IsSequence(f) = IsSequence(e)
      BY <3>2 DEF IsSequence
    <3>4. CASE IsSequence(e)
      <4>1. Found(v, at, e)
        BY <1>1, <2>2, <3>1, <3>4 DEF Found
      <4>. QED  BY <4>1
    <3>5. CASE ~IsSequence(e)
      <4>1. Found(v, at, f)
        BY <1>1, <2>2, <3>1, <3>3, <3>5 DEF Found
      <4>. QED  BY <4>1
    <3>. QED  BY <3>4, <3>5
  <2>. QED  BY <1>6, <2>1, <2>2 DEF Element
<1>. HIDE DEF v, at
<1>. QED  BY <1>3, <1>4, <1>5, <1>6

(* The level, behind the tag. *)
Behind(v, at) == [v EXCEPT !.l = End(v, at)]

(* What it does to the n levels and the m tags. *)
Adds(v, at, e, n, m) ==
  /\ n = Len(levels) /\ n \in Nat \ {0} /\ levels \in Seq(Levels) /\ v = levels[n]
  /\ m = Len(elements) /\ m \in Nat
  /\ elements \in Seq(CASNTag) /\ elements' \in Seq(CASNTag)
  /\ Len(elements') = m + 1
  /\ \A i \in 1 .. m : elements'[i] = elements[i]
  /\ elements'[m + 1] = e /\ e \in CASNTag
  /\ levels' \in Seq(Levels)
  /\ Len(levels') = n \/ (Len(levels') = n + 1 /\ levels'[n + 1] = Inside(v, at))
  /\ \A k \in 1 .. n - 1 : levels'[k] = levels[k]
  /\ levels'[n] = Behind(v, at) /\ Behind(v, at) \in Levels
  /\ e.parent = v.parent /\ e.forced = FALSE
  /\ e.startPos = v.startseq + at /\ e.endPos = v.startseq + End(v, at)
  /\ Last(e.tag) = v.bytes[at + 1]
  /\ e.content = <<>> \/ e.content = Content(v, at)
  /\ ~IsSequence(e) => e.content = Content(v, at)

LEMMA FoundIs ==
  ASSUME AsnTypeOK, Small, NEW v, NEW at, NEW e, Found(v, at, e)
  PROVE  Adds(v, at, e, Len(levels), Len(elements))
<1>. DEFINE n == Len(levels)
            m == Len(elements)
            w == Behind(v, at)
<1>1. /\ n \in Nat \ {0} /\ levels \in Seq(Levels) /\ v = levels[n]
      /\ elements \in Seq(CASNTag) /\ Fits(v, at) /\ v \in Levels
  BY LastLevel DEF AsnTypeOK, Found
<1>2. /\ e \in CASNTag
      /\ e.parent = v.parent /\ e.forced = FALSE
      /\ e.startPos = v.startseq + at /\ e.endPos = v.startseq + End(v, at)
      /\ Last(e.tag) = v.bytes[at + 1]
      /\ e.content = <<>> \/ e.content = Content(v, at)
      /\ ~IsSequence(e) => e.content = Content(v, at)
  <2>. DEFINE g == NewElement(v, at)
              c == Content(v, at)
              f == [g EXCEPT !.content = c]
  <2>1. /\ g \in CASNTag
        /\ g.parent = v.parent /\ g.content = <<>> /\ g.forced = FALSE
        /\ g.startPos = v.startseq + at /\ g.endPos = v.startseq + End(v, at)
        /\ Last(g.tag) = v.bytes[at + 1]
    BY <1>1, NewElementIs
  <2>2. /\ f \in CASNTag /\ f.content = c /\ f.parent = g.parent /\ f.forced = g.forced
        /\ f.tag = g.tag /\ f.startPos = g.startPos /\ f.endPos = g.endPos
    <3>1. c \in Seq(Byte)
      BY <1>1, ContentIs
    <3>. HIDE DEF c, g
    <3>. QED  BY <2>1, <3>1, WithContent
  <2>3. (e = g /\ IsSequence(e)) \/ e = f
    BY DEF Found
  <2>. HIDE DEF g, c, f
  <2>4. CASE e = g /\ IsSequence(e)
    BY <2>1, <2>4
  <2>5. CASE e = f
    BY <2>1, <2>2, <2>5 DEF c
  <2>. QED  BY <2>3, <2>4, <2>5
<1>3. elements' = Append(elements, e)
  BY DEF Found
<1>4. /\ elements' \in Seq(CASNTag) /\ Len(elements') = m + 1
      /\ \A i \in 1 .. m : elements'[i] = elements[i]
      /\ elements'[m + 1] = e
  BY <1>1, <1>2, <1>3
<1>5. w \in Levels
  <2>1. End(v, at) \in Nat
    BY <1>1, FitsIs
  <2>. QED  BY <1>1, <2>1 DEF Levels, Behind
<1>. DEFINE next == [levels EXCEPT ![n].l = End(v, at)]
<1>6. /\ next \in Seq(Levels) /\ Len(next) = n /\ next[n] = w
      /\ \A k \in 1 .. n - 1 : next[k] = levels[k]
  <2>1. next = [levels EXCEPT ![n] = w]
    BY <1>1 DEF Behind
  <2>. HIDE DEF w, next
  <2>. QED  BY <1>1, <1>5, <2>1
<1>7. Inside(v, at) \in Levels
  BY <1>1, InsideIs
<1>8. levels' = next \/ levels' = Append(next, Inside(v, at))
  BY DEF Found
<1>. HIDE DEF w, next
<1>9. /\ levels' \in Seq(Levels)
      /\ Len(levels') = n \/ (Len(levels') = n + 1 /\ levels'[n + 1] = Inside(v, at))
      /\ \A k \in 1 .. n : levels'[k] = next[k]
  <2>. DEFINE u == Inside(v, at)
  <2>1. u \in Levels /\ (levels' = next \/ levels' = Append(next, u))
    BY <1>7, <1>8
  <2>. HIDE DEF u
  <2>2. CASE levels' = next
    BY <2>2, <1>6
  <2>3. CASE levels' = Append(next, u)
    <3>1. /\ Append(next, u) \in Seq(Levels) /\ Len(Append(next, u)) = n + 1
          /\ Append(next, u)[n + 1] = u
          /\ \A k \in 1 .. n : Append(next, u)[k] = next[k]
      BY <1>1, <1>6, <2>1
    <3>. QED  BY <2>3, <3>1 DEF u
  <2>. QED  BY <2>1, <2>2, <2>3
<1>10. /\ levels'[n] = w /\ \A k \in 1 .. n - 1 : levels'[k] = levels[k]
  <2>. QED  BY <1>1, <1>6, <1>9
<1>11. n = Len(levels) /\ m = Len(elements) /\ m \in Nat
  BY <1>1
<1>. HIDE DEF n, m
<1>. QED  BY <1>1, <1>2, <1>4, <1>5, <1>9, <1>10, <1>11 DEF w, Adds

LEMMA FoundType ==
  ASSUME AsnTypeOK, Small, NEW v, NEW at, NEW e, Found(v, at, e)
  PROVE  AsnTypeOK' /\ Small'
<1>. DEFINE n == Len(levels)
            m == Len(elements)
            w == Behind(v, at)
            u == Inside(v, at)
<1>1. Adds(v, at, e, n, m)
  BY FoundIs
<1>0. m \in Nat /\ n \in Nat \ {0} /\ n = Len(levels) /\ m = Len(elements)
  BY <1>1 DEF Adds
<1>. HIDE DEF n, m, w, u
<1>2. Fits(v, at) /\ Parsing /\ v \in Levels /\ v.parent <= m
  <2>1. Fits(v, at) /\ Parsing /\ v = Last(levels)
    BY DEF Found
  <2>. QED  BY <1>0, <2>1, LastLevel
<1>3. /\ v.size <= Len(v.bytes) /\ Len(v.bytes) <= MaxArray /\ v.size \in Nat /\ Len(v.bytes) \in Nat
      /\ End(v, at) \in Nat /\ End(v, at) <= v.size /\ v.parent \in Nat /\ DataLen(v, at) \in Nat
      /\ at \in Nat /\ LengthLen(v, at) \in Nat \ {0} /\ End(v, at) = at + 1 + LengthLen(v, at) + DataLen(v, at)
  BY <1>2, FitsIs
<1>4. /\ w.parent <= m + 1 /\ w.l <= w.size /\ w.size <= Len(w.bytes) /\ Len(w.bytes) <= MaxArray
  <2>1. w.parent = v.parent /\ w.l = End(v, at) /\ w.size = v.size /\ w.bytes = v.bytes
    BY <1>2 DEF Levels, Behind, w
  <2>. QED  BY <1>0, <1>2, <1>3, <2>1
<1>5. /\ u.parent <= m + 1 /\ u.l <= u.size /\ u.size <= Len(u.bytes) /\ Len(u.bytes) <= MaxArray
  <2>1. /\ u.parent = m + 1 /\ u.l = 0 /\ u.size = DataLen(v, at)
        /\ u.size <= Len(u.bytes) /\ Len(u.bytes) <= MaxArray
    <3>1. elements \in Seq(CASNTag)
      BY <1>1 DEF Adds
    <3>. QED  BY <1>0, <1>2, <3>1, InsideIs DEF u
  <2>. QED  BY <1>0, <1>3, <2>1
<1>6. ASSUME NEW k \in DOMAIN levels'
      PROVE  /\ levels'[k].parent <= m + 1
             /\ levels'[k].l <= levels'[k].size
             /\ levels'[k].size <= Len(levels'[k].bytes)
             /\ Len(levels'[k].bytes) <= MaxArray
  <2>1. k \in 1 .. n - 1 \/ k = n \/ (k = n + 1 /\ levels'[k] = u)
    <3>1. /\ levels' \in Seq(Levels)
          /\ Len(levels') = n \/ (Len(levels') = n + 1 /\ levels'[n + 1] = u)
      BY <1>1 DEF Adds, u
    <3>. QED  BY <1>0, <3>1
  <2>2. CASE k \in 1 .. n - 1
    <3>1. k \in DOMAIN levels /\ levels'[k] = levels[k]
      BY <2>2, <1>0, <1>1 DEF Adds
    <3>2. /\ levels[k] \in Levels /\ levels[k].parent <= m /\ levels[k].l <= levels[k].size
          /\ levels[k].size <= Len(levels[k].bytes) /\ Len(levels[k].bytes) <= MaxArray
      BY <1>0, <3>1, TypeParts
    <3>3. levels[k].parent \in Nat
      BY <3>2 DEF Levels
    <3>. QED  BY <3>1, <3>2, <3>3, <1>0
  <2>3. levels'[n] = w
    BY <1>1 DEF Adds, w
  <2>. QED  BY <2>1, <2>2, <2>3, <1>4, <1>5
<1>7. AsnTypeOK'
  <2>1. \A x \in Range(levels') : x.parent <= Len(elements') /\ x.l <= x.size /\ x.size <= Len(x.bytes)
    BY <1>0, <1>1, <1>6 DEF Range, Adds
  <2>2. \A i \in DOMAIN elements' : elements'[i].parent < i
    <3>1. ASSUME NEW i \in DOMAIN elements' PROVE elements'[i].parent < i
      <4>1. i \in 1 .. m \/ i = m + 1
        BY <1>0, <1>1 DEF Adds
      <4>2. CASE i \in 1 .. m
        <5>1. i \in DOMAIN elements /\ elements'[i] = elements[i]
          BY <4>2, <1>0, <1>1 DEF Adds
        <5>. QED  BY <5>1 DEF AsnTypeOK
      <4>3. CASE i = m + 1
        <5>1. v.parent < m + 1
          <6>1. v.parent \in Nat
            BY <1>3
          <6>. QED  BY <6>1, <1>0, <1>2
        <5>2. elements'[i].parent = v.parent
          BY <4>3, <1>0, <1>1 DEF Adds
        <5>. QED  BY <4>3, <5>1, <5>2
      <4>. QED  BY <4>1, <4>2, <4>3
    <3>. QED  BY <3>1
  <2>3. input' \in Seq(Byte) /\ target' \in 0 .. Len(elements') /\ encoded' \in Seq(Byte)
    BY <1>0, <1>1 DEF AsnTypeOK, Found, Adds
  <2>4. phase' = phase
    BY DEF Found
  <2>. QED  BY <1>0, <1>1, <2>1, <2>2, <2>3, <2>4 DEF AsnTypeOK, Adds
<1>8. Small'
  <2>1. Len(e.content) <= MaxArray
    <3>1. Len(Content(v, at)) = DataLen(v, at)
      BY <1>2, ContentIs
    <3>2. MaxArray \in Nat /\ Len(<<>>) = 0
      BY SizeTIs
    <3>3. DataLen(v, at) <= MaxArray
      BY <1>3, <3>2
    <3>. QED  BY <1>0, <1>1, <3>1, <3>2, <3>3 DEF Adds
  <2>2. ASSUME NEW i \in DOMAIN elements' PROVE Len(elements'[i].content) <= MaxArray
    <3>1. i \in 1 .. m \/ i = m + 1
      BY <1>0, <1>1 DEF Adds
    <3>. QED  BY <3>1, <2>1, <1>0, <1>1 DEF Small, Adds
  <2>3. Len(input') <= MaxArray /\ Len(encoded') <= MaxArray
    BY DEF Small, Found
  <2>4. levels' # <<>>
    BY <1>0, <1>1 DEF Adds
  <2>. QED  BY <1>6, <2>2, <2>3, <2>4 DEF Small
<1>. QED  BY <1>7, <1>8

(* A turn of the loop. *)
LEMMA TurnType ==
  ASSUME AsnTypeOK, Small, Turn
  PROVE  AsnTypeOK' /\ Small'
<1>1. Parsing
  BY DEF Turn
<1>. QED  BY <1>1, TurnIs, StopType, ReturnType, FoundType

(* The array that a call of Parse is given. *)
LEMMA BeginType ==
  ASSUME NEW data \in Seq(Byte), Len(data) <= MaxArray, NEW parent \in Nat
  PROVE  LET v == Level(parent, data, Len(data), 0) IN
         /\ <<v>> \in Seq(Levels) /\ Len(<<v>>) = 1 /\ <<v>>[1] = v
         /\ v.parent = parent /\ v.l <= v.size /\ v.size <= Len(v.bytes)
         /\ Len(v.bytes) <= MaxArray
<1>1. Level(parent, data, Len(data), 0) \in Levels
  BY DEF Level, Levels
<1>. QED  BY <1>1 DEF Level

LEMMA ParseType ==
  ASSUME AsnTypeOK, Small, Parse
  PROVE  AsnTypeOK' /\ Small'
<1>1. PICK data \in Inputs : input' = data /\ levels' = <<Level(0, data, Len(data), 0)>>
  BY DEF Parse
<1>2. data \in Seq(Byte) /\ Len(data) <= MaxArray
  BY InputsAssumption
<1>. DEFINE v == Level(0, data, Len(data), 0)
<1>3. /\ levels' \in Seq(Levels) /\ Len(levels') = 1 /\ levels'[1] = v
      /\ v.parent = 0 /\ v.l <= v.size /\ v.size <= Len(v.bytes)
      /\ Len(v.bytes) <= MaxArray
  <2>1. 0 \in Nat
    OBVIOUS
  <2>. HIDE DEF v
  <2>. QED  BY <1>1, <1>2, <2>1, BeginType DEF v
<1>. HIDE DEF v
<1>4. UNCHANGED <<elements, target, encoded>> /\ phase' = "parsing"
  BY DEF Parse
<1>5. \A k \in DOMAIN levels' : levels'[k] = v
  BY <1>3
<1>6. Len(elements) \in Nat
  BY DEF AsnTypeOK
<1>7. AsnTypeOK'
  BY <1>1, <1>2, <1>3, <1>4, <1>5, <1>6 DEF AsnTypeOK, Range
<1>8. Small'
  BY <1>1, <1>2, <1>3, <1>4, <1>5 DEF Small
<1>. QED  BY <1>7, <1>8

-----------------------------------------------------------------------------
(* The encoding is an array of bytes. *)

LEMMA QuotientByte ==
  ASSUME NEW len \in Nat, NEW k \in Nat
  PROVE  (len \div Pow256[k]) % 256 \in Byte
<1>1. Pow256[k] \in Nat \ {0}
  BY Powers
<1>2. ASSUME NEW p \in Nat \ {0} PROVE len \div p \in Nat
  OBVIOUS
<1>3. len \div Pow256[k] \in Nat
  BY <1>1, <1>2
<1>. QED  BY <1>3 DEF Byte

LEMMA PutLengthType ==
  ASSUME NEW len \in Nat
  PROVE  PutLength(len) \in Seq(Byte)
<1>. DEFINE digits == IF len < Pow256[1] THEN 1 ELSE IF len < Pow256[2] THEN 2
                      ELSE IF len < Pow256[3] THEN 3 ELSE 4
            q == [i \in 1 .. digits |-> (len \div Pow256[digits - i]) % 256]
<1>1. digits \in 1 .. 4
  OBVIOUS
<1>. HIDE DEF digits
<1>2. q \in Seq(Byte)
  <2>1. ASSUME NEW i \in 1 .. digits PROVE q[i] \in Byte
    BY <1>1, QuotientByte
  <2>. QED  BY <1>1, <2>1
<1>3. CASE len < 128
  BY <1>3 DEF PutLength, Byte
<1>4. CASE ~(len < 128)
  <2>1. PutLength(len) = <<128 + digits>> \o q
    BY <1>4 DEF PutLength, digits
  <2>2. 128 + digits \in Byte
    BY <1>1 DEF Byte
  <2>. HIDE DEF q
  <2>. QED  BY <1>2, <2>1, <2>2
<1>. QED  BY <1>3, <1>4

LEMMA TlvType ==
  ASSUME NEW tag \in Seq(Byte), NEW content \in Seq(Byte)
  PROVE  Tlv(tag, content) \in Seq(Byte)
<1>1. PutLength(Len(content)) \in Seq(Byte)
  BY PutLengthType
<1>. QED  BY <1>1 DEF Tlv

LEMMA TagType ==
  ASSUME NEW tag \in Nat
  PROVE  putASN1Tag(tag) \in Seq(Byte)
<1>1. ASN1TLength(tag) \in Nat
  <2>. DEFINE S == {i \in 0 .. 3 : tag \div Pow256[i] # 0}
  <2>1. IsFiniteSet(0 .. 3)
    <3>1. ASSUME NEW a \in Int, NEW b \in Int PROVE IsFiniteSet(a .. b)
      BY FS_Interval, Zenon
    <3>2. 0 \in Int /\ 3 \in Int
      OBVIOUS
    <3>. QED  BY <3>1, <3>2, Zenon
  <2>2. S \in SUBSET (0 .. 3)
    OBVIOUS
  <2>3. ASN1TLength(tag) = Cardinality(S)
    BY DEF ASN1TLength
  <2>. HIDE DEF S
  <2>4. IsFiniteSet(S)
    BY <2>1, <2>2, FS_Subset
  <2>. QED  BY <2>3, <2>4, FS_CardinalityType
<1>. DEFINE L == ASN1TLength(tag)
<1>. HIDE DEF L
<1>2. L \in Nat
  BY <1>1 DEF L
<1>3. putASN1Tag(tag) = [i \in 1 .. L |-> (tag \div Pow256[L - i]) % 256]
  BY DEF putASN1Tag, L
<1>4. ASSUME NEW i \in 1 .. L PROVE (tag \div Pow256[L - i]) % 256 \in Byte
  BY <1>2, QuotientByte
<1>. QED  BY <1>2, <1>3, <1>4

(* The content of the tag i, of what is in it, and its code. *)
Children(es, code, i) ==
  FoldLeft(LAMBDA bytes, j : IF es[j].parent = i THEN bytes \o code[j] ELSE bytes,
           <<>>, [j \in DOMAIN es |-> j])
CodeOf(es, code, i) ==
  IF i = 0 THEN Children(es, code, i)
  ELSE Tlv(es[i].tag, IF IsSequence(es[i]) THEN Children(es, code, i) ELSE es[i].content)
IsCode(es, code) == code = [i \in 0 .. Len(es) |-> CodeOf(es, code, i)]

(* The encoding is the code of the whole, that has no tag. *)
LEMMA EncodingIs ==
  ASSUME NEW es
  PROVE  Encoding(es) = (CHOOSE code : IsCode(es, code))[0]
BY DEF Encoding, IsCode, CodeOf, Children

(* How far the content has come with each tag. *)
Gathered(g, es, code, i) ==
  /\ g \in [0 .. Len(es) -> Seq(Byte)]
  /\ g[0] = <<>>
  /\ \A j \in 1 .. Len(es) :
       g[j] = IF es[j].parent = i THEN g[j - 1] \o code[j] ELSE g[j - 1]
  /\ Children(es, code, i) = g[Len(es)]

(* The fold over the tags goes on as Gathered says. *)
LEMMA ChildrenAre ==
  ASSUME NEW es \in Seq(CASNTag), NEW code, NEW i,
         \A j \in 1 .. Len(es) : es[j].parent = i => code[j] \in Seq(Byte)
  PROVE  \E g : Gathered(g, es, code, i)
<1>. DEFINE n == Len(es)
            X == Seq(Byte)
            q == [j \in DOMAIN es |-> j]
            add(a, j) == IF es[j].parent = i THEN a \o code[j] ELSE a
            op == [a \in X \X (1 .. n) |-> add(a[1], a[2])]
            Iter(it) == it = [s \in SUBSET DOMAIN q |->
                        IF s = {} THEN <<>> ELSE add(it[s \ {Max(s)}], q[Max(s)])]
<1>1. n \in Nat /\ DOMAIN q = 1 .. n /\ \A j \in 1 .. n : q[j] = j
  OBVIOUS
<1>2. <<>> \in X
  OBVIOUS
<1>3. ASSUME NEW a \in X, NEW j \in 1 .. n PROVE add(a, j) \in X
  OBVIOUS
<1>. HIDE DEF n, X, q, add
<1>4. op \in [X \X (1 .. n) -> X]
  <2>1. ASSUME NEW a \in X \X (1 .. n) PROVE add(a[1], a[2]) \in X
    <3>1. a[1] \in X /\ a[2] \in 1 .. n
      OBVIOUS
    <3>. QED  BY <3>1, <1>3
  <2>. QED  BY <2>1
<1>5. PICK it : FoldOf(it, n, X, <<>>, op)
  <2>. HIDE DEF op
  <2>. QED  BY <1>1, <1>2, <1>4, FoldExists
<1>6. Iter(it)
  <2>1. ASSUME NEW s \in SUBSET (1 .. n), s # {}
        PROVE  it[s] = add(it[s \ {Max(s)}], q[Max(s)])
    <3>. HIDE DEF op
    <3>1. Max(s) \in s /\ s \ {Max(s)} \in SUBSET (1 .. n)
      BY <2>1, <1>1, MaxOf
    <3>2. it[s \ {Max(s)}] \in X /\ Max(s) \in 1 .. n
      BY <3>1, <1>5 DEF FoldOf
    <3>3. op[<<it[s \ {Max(s)}], Max(s)>>] = add(it[s \ {Max(s)}], Max(s))
      BY <3>2 DEF op
    <3>4. q[Max(s)] = Max(s)
      BY <3>2, <1>1
    <3>. QED  BY <2>1, <1>5, <3>3, <3>4 DEF FoldOf
  <2>. HIDE DEF op
  <2>. QED  BY <2>1, <1>1, <1>5 DEF FoldOf
<1>. DEFINE F == CHOOSE f : Iter(f)
<1>7. Children(es, code, i) = F[DOMAIN q]
  BY DEF Children, FoldLeft, MapThenFoldSet, q, add
<1>8. Iter(F)
  <2>. HIDE DEF Iter
  <2>. QED  BY <1>6
<1>. HIDE DEF F
<1>9. F[1 .. 0] = <<>>
  <2>1. 1 .. 0 = {} /\ {} \in SUBSET DOMAIN q
    OBVIOUS
  <2>. QED  BY <2>1, <1>8
<1>10. ASSUME NEW m \in 0 .. n - 1 PROVE F[1 .. m + 1] = add(F[1 .. m], m + 1)
  <2>1. m \in Nat /\ 1 .. m + 1 \in SUBSET (1 .. n) /\ m + 1 \in 1 .. n
    BY <1>1
  <2>2. Max(1 .. m + 1) = m + 1 /\ (1 .. m + 1) \ {m + 1} = 1 .. m /\ 1 .. m + 1 # {}
    BY <2>1, MaxUpTo
  <2>3. q[m + 1] = m + 1
    BY <1>1, <2>1
  <2>. QED  BY <2>1, <2>2, <2>3, <1>1, <1>8
<1>. HIDE DEF Iter
<1>. DEFINE T == {m \in 0 .. n : F[1 .. m] \in X}
<1>11. 0 \in T
  BY <1>1, <1>2, <1>9
<1>12. ASSUME NEW m \in 0 .. n - 1, m \in T PROVE m + 1 \in T
  <2>1. m + 1 \in 1 .. n /\ F[1 .. m] \in X
    BY <1>1, <1>12
  <2>2. add(F[1 .. m], m + 1) \in X
    BY <2>1, <1>3
  <2>. QED  BY <1>10, <2>1, <2>2
<1>. HIDE DEF T
<1>13. \A m \in 0 .. n : m \in T
  BY <1>1, <1>11, <1>12, Induction
<1>. DEFINE g == [m \in 0 .. n |-> F[1 .. m]]
<1>14. g \in [0 .. n -> X]
  BY <1>13 DEF T
<1>15. g[0] = <<>> /\ g[n] = Children(es, code, i)
  BY <1>1, <1>7, <1>9
<1>16. ASSUME NEW j \in 1 .. n PROVE g[j] = add(g[j - 1], j)
  <2>1. j - 1 \in 0 .. n - 1 /\ j - 1 + 1 = j /\ j \in 0 .. n /\ j - 1 \in 0 .. n
    BY <1>1
  <2>2. F[1 .. j - 1 + 1] = add(F[1 .. j - 1], j - 1 + 1)
    BY <2>1, <1>10
  <2>. QED  BY <2>1, <2>2
<1>. HIDE DEF g
<1>17. Gathered(g, es, code, i)
  BY <1>14, <1>15, <1>16 DEF Gathered, n, X, add
<1>. QED  BY <1>17

(* A code is bytes, if those of the tags in it are. *)
LEMMA CodeType ==
  ASSUME NEW es \in Seq(CASNTag), NEW code, NEW i \in 0 .. Len(es),
         \A j \in 1 .. Len(es) : es[j].parent = i => code[j] \in Seq(Byte)
  PROVE  CodeOf(es, code, i) \in Seq(Byte)
<1>1. PICK g : Gathered(g, es, code, i)
  BY ChildrenAre
<1>2. Children(es, code, i) \in Seq(Byte)
  BY <1>1 DEF Gathered
<1>3. CASE i = 0
  BY <1>2, <1>3 DEF CodeOf
<1>4. CASE i # 0
  <2>1. es[i] \in CASNTag
    BY <1>4
  <2>2. es[i].tag \in Seq(Byte) /\ es[i].content \in Seq(Byte)
    BY <2>1 DEF CASNTag
  <2>. DEFINE c == IF IsSequence(es[i]) THEN Children(es, code, i) ELSE es[i].content
  <2>3. c \in Seq(Byte)
    BY <1>2, <2>2
  <2>4. CodeOf(es, code, i) = Tlv(es[i].tag, c)
    BY <1>4 DEF CodeOf
  <2>. HIDE DEF c
  <2>. QED  BY <2>2, <2>3, <2>4, TlvType
<1>. QED  BY <1>3, <1>4

(* A code depends on those of the tags in it only. *)
LEMMA CodeAgrees ==
  ASSUME NEW es \in Seq(CASNTag), NEW f, NEW h, NEW i \in 0 .. Len(es),
         \A j \in 1 .. Len(es) : es[j].parent = i => f[j] = h[j] /\ f[j] \in Seq(Byte)
  PROVE  CodeOf(es, f, i) = CodeOf(es, h, i)
<1>1. PICK g : Gathered(g, es, f, i)
  BY ChildrenAre
<1>2. PICK k : Gathered(k, es, h, i)
  BY ChildrenAre
<1>. DEFINE n == Len(es)
            T == {m \in 0 .. n : g[m] = k[m]}
<1>3. n \in Nat
  OBVIOUS
<1>4. 0 \in T
  BY <1>1, <1>2, <1>3 DEF Gathered
<1>5. ASSUME NEW m \in 0 .. n - 1, m \in T PROVE m + 1 \in T
  <2>1. m + 1 \in 1 .. n /\ m + 1 - 1 = m /\ g[m] = k[m]
    BY <1>3, <1>5
  <2>. HIDE DEF n
  <2>2. /\ g[m + 1] = IF es[m + 1].parent = i THEN g[m] \o f[m + 1] ELSE g[m]
        /\ k[m + 1] = IF es[m + 1].parent = i THEN k[m] \o h[m + 1] ELSE k[m]
    BY <1>1, <1>2, <2>1 DEF Gathered, n
  <2>3. es[m + 1].parent = i => f[m + 1] = h[m + 1]
    BY <2>1 DEF n
  <2>4. m + 1 \in 0 .. n
    BY <1>3, <2>1
  <2>. QED  BY <2>1, <2>2, <2>3, <2>4
<1>. HIDE DEF T, n
<1>6. n \in T
  <2>1. \A m \in 0 .. n - 1 : m \in T => m + 1 \in T
    BY <1>5
  <2>2. \A m \in 0 .. n : m \in T
    BY <1>3, <1>4, <2>1, Induction, Zenon
  <2>. QED  BY <1>3, <2>2
<1>7. Children(es, f, i) = Children(es, h, i)
  BY <1>1, <1>2, <1>6 DEF Gathered, T, n
<1>. QED  BY <1>7 DEF CodeOf

(* From the last tag to the first, each has a code. *)
LEMMA CodeExists ==
  ASSUME NEW es \in Seq(CASNTag), \A i \in DOMAIN es : es[i].parent < i
  PROVE  \E code : IsCode(es, code)
<1>. DEFINE n == Len(es)
            X == Seq(Byte)
            Is(c, m) == /\ c \in [0 .. n -> X]
                        /\ \A i \in 0 .. n : n - m < i => c[i] = CodeOf(es, c, i)
            T == {m \in 0 .. n + 1 : \E c : Is(c, m)}
<1>1. n \in Nat /\ <<>> \in X /\ \A i \in 1 .. n : es[i] \in CASNTag
  OBVIOUS
<1>2. 0 \in T
  <2>. DEFINE c == [i \in 0 .. n |-> <<>>]
  <2>1. c \in [0 .. n -> X]
    BY <1>1
  <2>. HIDE DEF c, X
  <2>2. Is(c, 0)
    BY <1>1, <2>1
  <2>. HIDE DEF Is
  <2>. QED  BY <1>1, <2>2
<1>3. ASSUME NEW m \in 0 .. n, m \in T PROVE m + 1 \in T
  <2>1. PICK c : Is(c, m)
    BY <1>3
  <2>. DEFINE at == n - m
              d == [c EXCEPT ![at] = CodeOf(es, c, at)]
  <2>2. at \in 0 .. n /\ at \in Int
    BY <1>1
  <2>3. c \in [0 .. n -> X]
    BY <2>1
  <2>4. CodeOf(es, c, at) \in X
    <3>1. \A j \in 1 .. n : es[j].parent = at => c[j] \in X
      BY <2>3, <1>1
    <3>. HIDE DEF at
    <3>. QED  BY <2>2, <3>1, CodeType
  <2>5. d \in [0 .. n -> X]
    <3>. HIDE DEF at, X
    <3>. QED  BY <2>2, <2>3, <2>4
  <2>6. ASSUME NEW i \in 0 .. n, at <= i PROVE d[i] = CodeOf(es, d, i)
    <3>1. d[i] = CodeOf(es, c, i)
      <4>. HIDE DEF X
      <4>1. CASE i = at
        BY <4>1, <2>2, <2>3
      <4>2. CASE i # at
        <5>1. n - m < i
          BY <1>1, <2>6, <4>2
        <5>. QED  BY <5>1, <4>2, <2>1, <2>2, <2>3
      <4>. QED  BY <4>1, <4>2
    <3>2. ASSUME NEW j \in 1 .. n, es[j].parent = i PROVE c[j] = d[j] /\ c[j] \in X
      <4>1. i < j
        BY <3>2
      <4>2. j # at /\ j \in 0 .. n
        BY <1>1, <2>2, <2>6, <4>1
      <4>. HIDE DEF X, at
      <4>. QED  BY <4>2, <2>2, <2>3
    <3>3. CodeOf(es, c, i) = CodeOf(es, d, i)
      <4>. HIDE DEF d, at
      <4>. QED  BY <3>2, CodeAgrees
    <3>. QED  BY <3>1, <3>3
  <2>7. Is(d, m + 1)
    <3>1. \A i \in 0 .. n : n - (m + 1) < i => at <= i
      BY <1>1
    <3>. HIDE DEF d, at, X
    <3>. QED  BY <2>5, <2>6, <3>1
  <2>8. m + 1 \in 0 .. n + 1
    BY <1>1
  <2>. HIDE DEF d, Is
  <2>. QED  BY <2>7, <2>8
<1>. HIDE DEF T
<1>4. n + 1 \in T
  <2>. DEFINE k == n + 1
  <2>1. k \in Nat /\ k - 1 = n /\ k \in 0 .. k
    BY <1>1
  <2>2. \A m \in 0 .. k - 1 : m \in T => m + 1 \in T
    <3>. HIDE DEF n, k
    <3>. QED  BY <1>3, <2>1
  <2>. HIDE DEF n, k
  <2>3. \A m \in 0 .. k : m \in T
    BY <1>2, <2>1, <2>2, Induction, Zenon
  <2>4. k \in T
    BY <2>1, <2>3
  <2>. QED  BY <2>4 DEF k
<1>5. PICK c : Is(c, n + 1)
  BY <1>4 DEF T
<1>6. c \in [0 .. n -> X] /\ \A i \in 0 .. n : c[i] = CodeOf(es, c, i)
  <2>1. \A i \in 0 .. n : n - (n + 1) < i
    BY <1>1
  <2>. HIDE DEF X
  <2>. QED  BY <1>5, <2>1
<1>7. IsCode(es, c)
  <2>. HIDE DEF X
  <2>. QED  BY <1>6 DEF IsCode
<1>. QED  BY <1>7

(* The codes of a tree are bytes. *)
LEMMA CodesType ==
  ASSUME NEW es \in Seq(CASNTag), \A i \in DOMAIN es : es[i].parent < i,
         NEW c, IsCode(es, c)
  PROVE  \A i \in 0 .. Len(es) : c[i] \in Seq(Byte)
<1>. DEFINE n == Len(es)
            T == {m \in 0 .. n + 1 : \A i \in 0 .. n : n - m < i => c[i] \in Seq(Byte)}
<1>1. n \in Nat
  OBVIOUS
<1>3. \A i \in 0 .. n : c[i] = CodeOf(es, c, i)
  BY DEF IsCode
<1>4. 0 \in T
  BY <1>1
<1>5. ASSUME NEW m \in 0 .. n, m \in T PROVE m + 1 \in T
  <2>1. ASSUME NEW i \in 0 .. n, n - (m + 1) < i PROVE c[i] \in Seq(Byte)
    <3>1. ASSUME NEW j \in 1 .. n, es[j].parent = i PROVE c[j] \in Seq(Byte)
      <4>1. i < j
        BY <3>1
      <4>2. n - m < j /\ j \in 0 .. n
        BY <1>1, <2>1, <4>1
      <4>. QED  BY <1>5, <4>2
    <3>2. CodeOf(es, c, i) \in Seq(Byte)
      BY <3>1, CodeType
    <3>. QED  BY <1>3, <3>2
  <2>2. m + 1 \in 0 .. n + 1
    BY <1>1
  <2>. QED  BY <2>1, <2>2
<1>. HIDE DEF T
<1>6. n + 1 \in T
  <2>. DEFINE k == n + 1
  <2>1. k \in Nat /\ k - 1 = n /\ k \in 0 .. k
    BY <1>1
  <2>2. \A m \in 0 .. k - 1 : m \in T => m + 1 \in T
    <3>. HIDE DEF n, k
    <3>. QED  BY <1>5, <2>1
  <2>. HIDE DEF n, k
  <2>3. \A m \in 0 .. k : m \in T
    BY <1>4, <2>1, <2>2, Induction, Zenon
  <2>4. k \in T
    BY <2>1, <2>3
  <2>. QED  BY <2>4 DEF k
<1>7. \A i \in 0 .. n : c[i] \in Seq(Byte)
  <2>1. \A i \in 0 .. n : n - (n + 1) < i
    BY <1>1
  <2>. QED  BY <1>6, <2>1 DEF T
<1>. QED  BY <1>7

(* So is its encoding. *)
LEMMA EncodingType ==
  ASSUME NEW es \in Seq(CASNTag), \A i \in DOMAIN es : es[i].parent < i
  PROVE  Encoding(es) \in Seq(Byte)
<1>. DEFINE c == CHOOSE code : IsCode(es, code)
<1>1. IsCode(es, c)
  BY CodeExists
<1>2. 0 \in 0 .. Len(es)
  OBVIOUS
<1>. HIDE DEF c
<1>3. c[0] \in Seq(Byte)
  BY <1>1, <1>2, CodesType
<1>. QED  BY <1>3, EncodingIs DEF c

LEMMA TailIs ==
  ASSUME NEW X, NEW s \in Seq(X), s # <<>>
  PROVE  Tail(s) \in Seq(X) /\ Len(Tail(s)) = Len(s) - 1 /\ Len(s) \in Nat
OBVIOUS

LEMMA ReparseType ==
  ASSUME AsnTypeOK, Small, NEW i \in DOMAIN elements, Reparse(i)
  PROVE  AsnTypeOK' /\ Small'
<1>. DEFINE b == elements[i].tag = <<3>>
            c == elements[i].content
            d == IF b THEN Tail(c) ELSE c
            v == Level(i, d, Len(d), 0)
<1>1. CASE Throw
  BY <1>1, StopType
<1>2. CASE ~Throw
  <2>1. /\ ~(b /\ c = <<>>)
        /\ phase' = "reparsing" /\ target' = i /\ levels' = <<v>>
        /\ UNCHANGED <<input, elements, encoded, written>>
    BY <1>2 DEF Reparse
  <2>2. elements \in Seq(CASNTag) /\ i \in 1 .. Len(elements) /\ Len(elements) \in Nat
    BY DEF AsnTypeOK
  <2>3. c \in Seq(Byte) /\ Len(c) \in Nat /\ Len(c) <= MaxArray
    <3>1. elements[i] \in CASNTag
      BY <2>2
    <3>. QED  BY <3>1, <2>2 DEF CASNTag, Small
  <2>4. d \in Seq(Byte) /\ Len(d) <= MaxArray
    <3>1. b => Tail(c) \in Seq(Byte) /\ Len(Tail(c)) = Len(c) - 1
      <4>. HIDE DEF c
      <4>. QED  BY <2>1, <2>3, TailIs
    <3>2. MaxArray \in Nat
      BY SizeTIs
    <3>. HIDE DEF b, c
    <3>. QED  BY <2>3, <3>1, <3>2
  <2>. HIDE DEF d
  <2>5. /\ levels' \in Seq(Levels) /\ Len(levels') = 1 /\ levels'[1] = v
        /\ v.parent = i /\ v.l <= v.size /\ v.size <= Len(v.bytes)
        /\ Len(v.bytes) <= MaxArray
    <3>1. i \in Nat
      BY <2>2
    <3>. HIDE DEF v
    <3>. QED  BY <2>1, <2>4, <3>1, BeginType DEF v
  <2>. HIDE DEF v
  <2>6. \A k \in DOMAIN levels' : levels'[k] = v
    BY <2>5
  <2>7. AsnTypeOK'
    <3>1. \A w \in Range(levels') : w = v
      BY <2>6 DEF Range
    <3>2. v.parent <= Len(elements')
      BY <2>1, <2>2, <2>5
    <3>3. target' \in 0 .. Len(elements')
      BY <2>1, <2>2
    <3>. QED  BY <2>1, <2>5, <3>1, <3>2, <3>3 DEF AsnTypeOK
  <2>8. Small'
    BY <2>1, <2>5, <2>6 DEF Small
  <2>. QED  BY <2>7, <2>8
<1>. QED  BY <1>1, <1>2

LEMMA EncodeType ==
  ASSUME AsnTypeOK, Small, Encode
  PROVE  AsnTypeOK' /\ Small'
<1>1. CASE Throw
  BY <1>1, StopType
<1>2. CASE ~Throw
  <2>. DEFINE code == Encoding(elements)
  <2>1. code \in Seq(Byte)
    BY EncodingType DEF AsnTypeOK
  <2>2. /\ Len(code) <= MaxArray /\ phase' = "encoded" /\ encoded' = code
        /\ UNCHANGED <<input, levels, elements, target>>
    BY <1>2 DEF Encode
  <2>. HIDE DEF code
  <2>. QED  BY <2>1, <2>2 DEF AsnTypeOK, Small, Parsing
<1>. QED  BY <1>1, <1>2

LEMMA WrapType ==
  ASSUME AsnTypeOK, Small, NEW tag \in Tags, getASN1Tag(tag)
  PROVE  AsnTypeOK' /\ Small'
<1>. DEFINE code == Tlv(putASN1Tag(tag), encoded)
<1>1. code \in Seq(Byte)
  <2>1. putASN1Tag(tag) \in Seq(Byte)
    BY TagType, TagsAssumption
  <2>2. encoded \in Seq(Byte)
    BY DEF AsnTypeOK
  <2>. QED  BY <2>1, <2>2, TlvType
<1>2. /\ Len(code) <= MaxArray /\ phase' = "wrapped" /\ encoded' = code
      /\ UNCHANGED <<input, levels, elements, target>>
  BY DEF getASN1Tag
<1>. HIDE DEF code
<1>. QED  BY <1>1, <1>2 DEF AsnTypeOK, Small, Parsing

LEMMA ParseEncodedType ==
  ASSUME AsnTypeOK, Small, ParseEncoded
  PROVE  AsnTypeOK' /\ Small'
<1>. DEFINE v == Level(0, encoded, Len(encoded), 0)
<1>1. /\ input' = encoded /\ levels' = <<v>> /\ elements' = <<>> /\ target' = 0
      /\ encoded' = encoded /\ phase' = "rereading"
  BY DEF ParseEncoded
<1>2. encoded \in Seq(Byte) /\ Len(encoded) <= MaxArray
  BY DEF AsnTypeOK, Small
<1>3. /\ levels' \in Seq(Levels) /\ Len(levels') = 1 /\ levels'[1] = v
      /\ v.parent = 0 /\ v.l <= v.size /\ v.size <= Len(v.bytes)
      /\ Len(v.bytes) <= MaxArray
  <2>1. 0 \in Nat
    OBVIOUS
  <2>. HIDE DEF v
  <2>. QED  BY <1>1, <1>2, <2>1, BeginType DEF v
<1>. HIDE DEF v
<1>4. \A k \in DOMAIN levels' : levels'[k] = v
  BY <1>3
<1>5. elements' \in Seq(CASNTag) /\ Len(elements') = 0 /\ DOMAIN elements' = {}
  BY <1>1
<1>6. AsnTypeOK'
  <2>1. \A w \in Range(levels') : w = v
    BY <1>4 DEF Range
  <2>2. target' \in 0 .. Len(elements') /\ v.parent <= Len(elements')
    BY <1>1, <1>3, <1>5
  <2>. QED  BY <1>1, <1>2, <1>3, <1>5, <2>1, <2>2 DEF AsnTypeOK
<1>7. Small'
  BY <1>1, <1>2, <1>3, <1>4, <1>5 DEF Small
<1>. QED  BY <1>6, <1>7

LEMMA TypeInit ==
  ASSUME AsnInit
  PROVE  AsnTypeOK /\ Small
<1>1. input \in Seq(Byte) /\ Len(input) = 0 /\ levels \in Seq(Levels) /\ elements \in Seq(CASNTag)
      /\ encoded \in Seq(Byte) /\ Len(encoded) = 0
      /\ DOMAIN levels = {} /\ DOMAIN elements = {} /\ Len(elements) = 0
  BY DEF AsnInit
<1>2. MaxArray \in Nat
  BY SizeTIs
<1>. QED  BY <1>1, <1>2 DEF AsnInit, AsnTypeOK, Small, Range, Parsing

LEMMA TypeStep ==
  ASSUME AsnTypeOK, Small, [AsnNext]_asnvars
  PROVE  AsnTypeOK' /\ Small'
<1>1. CASE Parse
  BY <1>1, ParseType
<1>2. CASE LevelEnds
  BY <1>2, ReturnType DEF LevelEnds
<1>3. CASE Turn
  BY <1>3, TurnType
<1>4. CASE \E i \in DOMAIN elements : Reparse(i)
  BY <1>4, ReparseType
<1>5. CASE Encode
  BY <1>5, EncodeType
<1>6. CASE \E tag \in Tags : getASN1Tag(tag)
  BY <1>6, WrapType
<1>7. CASE ParseEncoded
  BY <1>7, ParseEncodedType
<1>8. CASE UNCHANGED asnvars
  BY <1>8 DEF asnvars, AsnTypeOK, Small, Parsing
<1>. QED  BY <1>1, <1>2, <1>3, <1>4, <1>5, <1>6, <1>7, <1>8 DEF AsnNext

(* The state is of its types, for any arrays: also a level keeps to its    *)
(* bytes, a tag comes after the one it is in, and what Encode and          *)
(* getASN1Tag write are bytes.                                             *)
THEOREM TypeCorrect == AsnSpec => [](AsnTypeOK /\ Small)
<1>1. AsnInit => AsnTypeOK /\ Small
  BY TypeInit
<1>2. AsnTypeOK /\ Small /\ [AsnNext]_asnvars => (AsnTypeOK /\ Small)'
  BY TypeStep
<1>. QED  BY <1>1, <1>2, PTL DEF AsnSpec

-----------------------------------------------------------------------------
(* Where the levels and the tags are. *)

Fresh == phase \in {"parsing", "parsed"}
Idle == phase = "idle" => elements = <<>> /\ target = 0

(* A level is the end of the array from startseq on; its data end where    *)
(* its tag ends, and the tags found in it do before l.                     *)
LevelPlaced(v, data, es) ==
  /\ v.startseq + Len(v.bytes) = Len(data)
  /\ \A j \in 1 .. Len(v.bytes) : v.bytes[j] = data[v.startseq + j]
  /\ v.parent # 0 =>
       /\ es[v.parent].startPos < v.startseq
       /\ es[v.parent].endPos = v.startseq + v.size
  /\ \A i \in DOMAIN es :
       es[i].parent = v.parent => es[i].endPos <= v.startseq + v.l

(* So are all of them, and an inner level is that of a later tag.          *)
LevelsPlaced ==
  Fresh =>
    /\ \A k \in DOMAIN levels : LevelPlaced(levels[k], input, elements)
    /\ \A k \in DOMAIN levels, j \in DOMAIN levels :
         j < k => levels[j].parent < levels[k].parent

(* AsnNested and AsnSlices, at each turn. *)
Nested ==
  Fresh =>
    \A i \in DOMAIN elements :
      LET e == elements[i] IN
      /\ e.endPos <= Len(input)
      /\ e.parent # 0 => /\ elements[e.parent].startPos < e.startPos
                         /\ e.endPos <= elements[e.parent].endPos
      /\ \A j \in i + 1 .. Len(elements) :
           elements[j].parent = e.parent => e.endPos <= elements[j].startPos

(* The slice of a tag, as a level. *)
SliceOf(e, data) ==
  LET slice == SubSeq(data, e.startPos + 1, e.endPos)
  IN Level(0, slice, Len(slice), 0)

IsOneTag(e, data) ==
  LET v == SliceOf(e, data) IN
  /\ v.bytes[1] = Last(e.tag)
  /\ LengthInArray(v, 0) /\ End(v, 0) = Len(v.bytes)
  /\ ~IsSequence(e) => Content(v, 0) = e.content

Slices ==
  Fresh =>
    /\ target = 0
    /\ \A i \in DOMAIN elements :
         ~elements[i].forced /\ IsOneTag(elements[i], input)

(* The inductive invariant. *)
AsnInv == AsnTypeOK /\ Small /\ Idle /\ LevelsPlaced /\ Nested /\ Slices

(* The return of Parse keeps it. *)
LEMMA PlacedReturn ==
  ASSUME AsnInv, Parsing, ReturnFromParse, Fresh'
  PROVE  LevelsPlaced' /\ Nested' /\ Slices'
<1>1. Fresh /\ phase = "parsing" /\ AsnTypeOK /\ Small
  BY DEF AsnInv, Fresh, Parsing, ReturnFromParse, AfterParse
<1>2. target = 0
  BY <1>1 DEF AsnInv, Slices
<1>3. elements' = elements /\ levels' = Front(levels) /\ input' = input /\ target' = target
  BY <1>2 DEF ReturnFromParse
<1>4. /\ levels # <<>> /\ Len(levels) \in Nat \ {0} /\ levels \in Seq(Levels)
  BY <1>1, LastLevel, TypeParts
<1>5. \A k \in DOMAIN levels' : k \in DOMAIN levels /\ levels'[k] = levels[k]
  BY <1>3, <1>4, FrontIs
<1>6. LevelsPlaced'
  BY <1>1, <1>3, <1>5 DEF AsnInv, LevelsPlaced, LevelPlaced
<1>7. Nested' /\ Slices'
  BY <1>1, <1>3 DEF AsnInv, Nested, Slices
<1>. QED  BY <1>6, <1>7

(* A tag that is found keeps the levels where they are, and puts its own there. *)
LEMMA PlacedFound ==
  ASSUME AsnInv, Fresh, NEW v, NEW at, NEW e, Found(v, at, e)
  PROVE  LevelsPlaced'
<1>. DEFINE n == Len(levels)
            m == Len(elements)
            w == Behind(v, at)
            u == Inside(v, at)
            L == LengthLen(v, at)
            D == DataLen(v, at)
<1>1. Adds(v, at, e, n, m)
  BY FoundIs DEF AsnInv
<1>2. n \in Nat \ {0} /\ n = Len(levels) /\ m \in Nat /\ m = Len(elements) /\ v = levels[n]
  BY <1>1 DEF Adds
<1>3. /\ v.l \in Nat /\ v.size \in Nat /\ v.startseq \in Nat /\ v.parent \in Nat
      /\ Len(v.bytes) \in Nat /\ v.size <= Len(v.bytes) /\ v.l <= at /\ at < v.size /\ at \in Nat
      /\ L \in Nat \ {0} /\ D \in Nat /\ End(v, at) = at + 1 + L + D /\ End(v, at) <= v.size
  BY FitsIs DEF Found
<1>4. /\ w.parent = v.parent /\ w.l = End(v, at) /\ w.size = v.size /\ w.bytes = v.bytes
      /\ w.startseq = v.startseq
  <2>1. v \in Levels
    BY <1>1 DEF Adds
  <2>. QED  BY <2>1 DEF Levels, Behind
<1>5. /\ u.parent = m + 1 /\ u.l = 0 /\ u.size = D
      /\ u.startseq = v.startseq + at + L + 1
      /\ Len(u.bytes) = Len(v.bytes) - (at + L + 1)
      /\ \A i \in 1 .. Len(u.bytes) : u.bytes[i] = v.bytes[at + L + 1 + i]
  <2>1. Fits(v, at) /\ elements \in Seq(CASNTag)
    BY <1>1 DEF Found, Adds
  <2>. HIDE DEF u, L, D, m
  <2>. QED  BY <2>1, InsideIs DEF u, L, D, m
<1>. HIDE DEF n, m, w, u, L, D
<1>6. /\ elements' \in Seq(CASNTag) /\ Len(elements') = m + 1 /\ DOMAIN elements' = 1 .. m + 1
      /\ \A i \in 1 .. m : elements'[i] = elements[i]
      /\ elements'[m + 1] = e
      /\ e.parent = v.parent /\ e.startPos = v.startseq + at /\ e.endPos = v.startseq + End(v, at)
      /\ input' = input
  <2>1. /\ elements' \in Seq(CASNTag) /\ Len(elements') = m + 1
        /\ \A i \in 1 .. m : elements'[i] = elements[i]
        /\ elements'[m + 1] = e
        /\ e.parent = v.parent /\ e.startPos = v.startseq + at /\ e.endPos = v.startseq + End(v, at)
    BY <1>1 DEF Adds
  <2>2. DOMAIN elements' = 1 .. m + 1
    BY <2>1
  <2>3. input' = input
    BY DEF Found
  <2>. QED  BY <2>1, <2>2, <2>3
<1>7. /\ levels' \in Seq(Levels)
      /\ Len(levels') = n \/ (Len(levels') = n + 1 /\ levels'[n + 1] = u)
      /\ \A k \in 1 .. n - 1 : levels'[k] = levels[k]
      /\ levels'[n] = w
  BY <1>1 DEF Adds, w, u
<1>8. DOMAIN levels' = 1 .. n \/ (DOMAIN levels' = 1 .. n + 1 /\ levels'[n + 1] = u)
  BY <1>2, <1>7
<1>9. /\ \A k \in 1 .. n : LevelPlaced(levels[k], input, elements) /\ levels[k].parent \in Nat /\ levels[k].parent <= m
      /\ \A k \in 1 .. n, j \in 1 .. n : j < k => levels[j].parent < levels[k].parent
  <2>1. levels \in Seq(Levels) /\ DOMAIN levels = 1 .. n
    BY <1>1, <1>2 DEF Adds
  <2>2. /\ \A k \in 1 .. n : LevelPlaced(levels[k], input, elements)
        /\ \A k \in 1 .. n, j \in 1 .. n : j < k => levels[j].parent < levels[k].parent
    BY <2>1 DEF AsnInv, LevelsPlaced
  <2>3. \A k \in 1 .. n : levels[k] \in Levels /\ levels[k].parent <= m
    BY <2>1, <1>2, TypeParts DEF AsnInv
  <2>. QED  BY <2>2, <2>3 DEF Levels
<1>10. DOMAIN elements = 1 .. m /\ \A i \in 1 .. m : elements[i].parent < i
  <2>1. elements \in Seq(CASNTag) /\ \A i \in DOMAIN elements : elements[i].parent < i
    BY DEF AsnInv, AsnTypeOK
  <2>. QED  BY <2>1, <1>2
<1>11. /\ v.startseq + Len(v.bytes) = Len(input)
       /\ \A j \in 1 .. Len(v.bytes) : v.bytes[j] = input[v.startseq + j]
       /\ v.parent # 0 =>
            /\ elements[v.parent].startPos < v.startseq
            /\ elements[v.parent].endPos = v.startseq + v.size
       /\ \A i \in 1 .. m : elements[i].parent = v.parent => elements[i].endPos <= v.startseq + v.l
       /\ v.parent <= m
  <2>1. LevelPlaced(v, input, elements) /\ v.parent <= m
    BY <1>2, <1>9
  <2>. QED  BY <2>1, <1>10 DEF LevelPlaced
<1>12. ASSUME NEW k \in 1 .. n - 1 PROVE LevelPlaced(levels'[k], input', elements')
  <2>. DEFINE x == levels[k]
  <2>1. /\ k \in 1 .. n /\ LevelPlaced(x, input, elements)
        /\ x.parent \in Nat /\ x.parent <= m /\ x.parent < v.parent
    BY <1>2, <1>9
  <2>2. levels'[k] = x
    BY <1>7
  <2>. HIDE DEF x
  <2>3. x.parent # 0 => elements'[x.parent] = elements[x.parent]
    <3>1. x.parent # 0 => x.parent \in 1 .. m
      BY <1>2, <2>1
    <3>. QED  BY <3>1, <1>6
  <2>4. ASSUME NEW i \in 1 .. m + 1, elements'[i].parent = x.parent
        PROVE  elements'[i].endPos <= x.startseq + x.l
    <3>1. i # m + 1
      BY <1>3, <1>6, <2>1, <2>4
    <3>2. i \in 1 .. m
      BY <3>1, <1>2
    <3>3. elements'[i] = elements[i]
      BY <3>2, <1>6
    <3>. QED  BY <3>2, <3>3, <2>1, <2>4, <1>10 DEF LevelPlaced
  <2>. QED  BY <1>6, <2>1, <2>2, <2>3, <2>4 DEF LevelPlaced
<1>13. LevelPlaced(w, input', elements')
  <2>1. v.parent # 0 => elements'[v.parent] = elements[v.parent]
    <3>1. v.parent # 0 => v.parent \in 1 .. m
      BY <1>2, <1>3, <1>11
    <3>. QED  BY <3>1, <1>6
  <2>2. ASSUME NEW i \in 1 .. m + 1, elements'[i].parent = v.parent
        PROVE  elements'[i].endPos <= v.startseq + End(v, at)
    <3>1. CASE i = m + 1
      BY <3>1, <1>3, <1>6
    <3>2. CASE i # m + 1
      <4>1. i \in 1 .. m
        BY <3>2, <1>2
      <4>2. elements'[i] = elements[i] /\ elements[i] \in CASNTag
        BY <4>1, <1>1, <1>2, <1>6 DEF Adds
      <4>3. elements[i].endPos <= v.startseq + v.l /\ elements[i].endPos \in Nat
        BY <4>1, <4>2, <2>2, <1>11 DEF CASNTag
      <4>4. elements[i].endPos <= v.startseq + End(v, at)
        BY <4>3, <1>3
      <4>. QED  BY <4>2, <4>4
    <3>. QED  BY <3>1, <3>2
  <2>. QED  BY <1>4, <1>6, <1>11, <2>1, <2>2 DEF LevelPlaced
<1>14. LevelPlaced(u, input', elements')
  <2>1. u.startseq + Len(u.bytes) = Len(input)
    BY <1>3, <1>5, <1>11
  <2>2. ASSUME NEW j \in 1 .. Len(u.bytes) PROVE u.bytes[j] = input[u.startseq + j]
    <3>. DEFINE p == at + L + 1 + j
    <3>1. p \in 1 .. Len(v.bytes) /\ v.startseq + p = u.startseq + j
      <4>1. /\ Len(u.bytes) = Len(v.bytes) - (at + L + 1) /\ j \in 1 .. Len(u.bytes)
            /\ u.startseq = v.startseq + at + L + 1
        BY <1>5
      <4>2. j \in Nat \ {0} /\ j <= Len(v.bytes) - (at + L + 1)
        BY <1>3, <4>1
      <4>. QED  BY <1>3, <4>1, <4>2
    <3>2. u.bytes[j] = v.bytes[p]
      BY <1>5
    <3>. HIDE DEF p
    <3>. QED  BY <3>1, <3>2, <1>11
  <2>3. e.startPos < u.startseq /\ e.endPos = u.startseq + u.size
    BY <1>3, <1>5, <1>6
  <2>4. ASSUME NEW i \in 1 .. m + 1 PROVE elements'[i].parent # m + 1
    <3>1. CASE i = m + 1
      BY <3>1, <1>2, <1>3, <1>6, <1>11
    <3>2. CASE i # m + 1
      <4>1. i \in 1 .. m
        BY <3>2, <1>2
      <4>2. elements'[i] = elements[i] /\ elements[i].parent < i /\ elements[i] \in CASNTag
        BY <4>1, <1>1, <1>2, <1>6, <1>10 DEF Adds
      <4>3. elements[i].parent \in Nat
        BY <4>2 DEF CASNTag
      <4>. QED  BY <4>1, <4>2, <4>3, <1>2
    <3>. QED  BY <3>1, <3>2
  <2>. QED  BY <1>5, <1>6, <2>1, <2>2, <2>3, <2>4 DEF LevelPlaced
<1>15. ASSUME NEW k \in DOMAIN levels' PROVE LevelPlaced(levels'[k], input', elements')
  <2>1. k \in 1 .. n - 1 \/ (k = n /\ levels'[k] = w) \/ (k = n + 1 /\ levels'[k] = u)
    BY <1>2, <1>7, <1>8
  <2>. QED  BY <2>1, <1>12, <1>13, <1>14
<1>16. ASSUME NEW k \in DOMAIN levels', NEW j \in DOMAIN levels', j < k
       PROVE  levels'[j].parent < levels'[k].parent
  <2>1. \A i \in 1 .. n : levels'[i].parent = levels[i].parent
    BY <1>2, <1>4, <1>7
  <2>2. j \in 1 .. n /\ (k \in 1 .. n \/ (k = n + 1 /\ levels'[k] = u))
    BY <1>2, <1>8, <1>16
  <2>. QED  BY <1>2, <1>5, <1>9, <1>16, <2>1, <2>2
<1>. QED  BY <1>15, <1>16 DEF LevelsPlaced

(* It ends in the level, and begins behind the tags before it. *)
LEMMA NestedFound ==
  ASSUME AsnInv, Fresh, NEW v, NEW at, NEW e, Found(v, at, e)
  PROVE  Nested'
<1>. DEFINE n == Len(levels)
            m == Len(elements)
<1>1. Adds(v, at, e, n, m)
  BY FoundIs DEF AsnInv
<1>2. n \in Nat \ {0} /\ n = Len(levels) /\ m \in Nat /\ m = Len(elements) /\ v = levels[n]
  BY <1>1 DEF Adds
<1>. HIDE DEF n, m
<1>3. /\ v.l \in Nat /\ v.size \in Nat /\ v.startseq \in Nat /\ v.parent \in Nat
      /\ Len(v.bytes) \in Nat /\ v.size <= Len(v.bytes) /\ v.l <= at /\ at < v.size /\ at \in Nat
      /\ End(v, at) \in Nat /\ End(v, at) <= v.size
  BY FitsIs DEF Found
<1>4. /\ elements' \in Seq(CASNTag) /\ Len(elements') = m + 1
      /\ \A i \in 1 .. m : elements'[i] = elements[i]
      /\ elements'[m + 1] = e
      /\ e.parent = v.parent /\ e.startPos = v.startseq + at /\ e.endPos = v.startseq + End(v, at)
  BY <1>1 DEF Adds
<1>5. input' = input /\ Len(input) \in Nat
  BY DEF Found, AsnInv, AsnTypeOK
<1>6. DOMAIN elements' = 1 .. m + 1
  BY <1>4
<1>7. /\ v.startseq + Len(v.bytes) = Len(input)
      /\ v.parent # 0 =>
           /\ elements[v.parent].startPos < v.startseq
           /\ elements[v.parent].endPos = v.startseq + v.size
      /\ \A i \in 1 .. m : elements[i].parent = v.parent => elements[i].endPos <= v.startseq + v.l
      /\ v.parent <= m
  <2>1. n \in DOMAIN levels /\ elements \in Seq(CASNTag)
    BY <1>1, <1>2 DEF Adds
  <2>2. LevelPlaced(v, input, elements)
    BY <1>2, <2>1 DEF AsnInv, LevelsPlaced
  <2>3. v.parent <= m
    BY <1>2, <2>1, TypeParts DEF AsnInv
  <2>4. DOMAIN elements = 1 .. m
    BY <1>2, <2>1
  <2>. QED  BY <2>2, <2>3, <2>4 DEF LevelPlaced
<1>8. ASSUME NEW i \in 1 .. m
      PROVE  /\ elements'[i] = elements[i] /\ elements[i] \in CASNTag
             /\ elements[i].startPos \in Nat /\ elements[i].endPos \in Nat /\ elements[i].parent \in Nat
             /\ elements[i].parent < i
             /\ elements[i].endPos <= Len(input)
             /\ elements[i].parent # 0 =>
                  /\ elements[elements[i].parent].startPos < elements[i].startPos
                  /\ elements[i].endPos <= elements[elements[i].parent].endPos
             /\ \A j \in i + 1 .. m :
                  elements[j].parent = elements[i].parent => elements[i].endPos <= elements[j].startPos
  <2>1. elements \in Seq(CASNTag) /\ \A k \in DOMAIN elements : elements[k].parent < k
    BY DEF AsnInv, AsnTypeOK
  <2>2. i \in DOMAIN elements /\ elements[i] \in CASNTag
    BY <1>2, <2>1
  <2>3. /\ elements[i].endPos <= Len(input)
        /\ elements[i].parent # 0 =>
             /\ elements[elements[i].parent].startPos < elements[i].startPos
             /\ elements[i].endPos <= elements[elements[i].parent].endPos
        /\ \A j \in i + 1 .. m :
             elements[j].parent = elements[i].parent => elements[i].endPos <= elements[j].startPos
    BY <2>2 DEF AsnInv, Nested, m
  <2>. QED  BY <1>4, <2>1, <2>2, <2>3 DEF CASNTag
<1>9. ASSUME NEW i \in DOMAIN elements'
      PROVE  LET x == elements'[i] IN
             /\ x.endPos <= Len(input')
             /\ x.parent # 0 => /\ elements'[x.parent].startPos < x.startPos
                                /\ x.endPos <= elements'[x.parent].endPos
             /\ \A j \in i + 1 .. Len(elements') :
                  elements'[j].parent = x.parent => x.endPos <= elements'[j].startPos
  <2>1. CASE i \in 1 .. m
    <3>. DEFINE x == elements[i]
    <3>1. /\ elements'[i] = x /\ x.startPos \in Nat /\ x.endPos \in Nat /\ x.parent \in Nat
          /\ x.parent < i
          /\ x.endPos <= Len(input)
          /\ x.parent # 0 => /\ elements[x.parent].startPos < x.startPos
                             /\ x.endPos <= elements[x.parent].endPos
          /\ \A j \in i + 1 .. m : elements[j].parent = x.parent => x.endPos <= elements[j].startPos
      BY <2>1, <1>8
    <3>2. x.parent # 0 => elements'[x.parent] = elements[x.parent]
      <4>1. x.parent # 0 => x.parent \in 1 .. m
        <5>. HIDE DEF x
        <5>. QED  BY <1>2, <2>1, <3>1
      <4>. HIDE DEF x
      <4>. QED  BY <4>1, <1>4
    <3>3. ASSUME NEW j \in i + 1 .. m + 1, elements'[j].parent = x.parent
          PROVE  x.endPos <= elements'[j].startPos
      <4>1. CASE j = m + 1
        <5>1. x.endPos <= v.startseq + v.l
          BY <2>1, <3>3, <4>1, <1>4, <1>7
        <5>2. x.endPos <= v.startseq + at
          <6>. HIDE DEF x
          <6>. QED  BY <5>1, <3>1, <1>3
        <5>. QED  BY <4>1, <5>2, <1>4
      <4>2. CASE j # m + 1
        <5>1. j \in i + 1 .. m /\ j \in 1 .. m
          BY <4>2, <2>1, <1>2
        <5>2. elements'[j] = elements[j]
          BY <5>1, <1>4
        <5>. HIDE DEF x
        <5>. QED  BY <5>1, <5>2, <3>1, <3>3
      <4>. QED  BY <4>1, <4>2
    <3>. HIDE DEF x
    <3>. QED  BY <1>4, <1>5, <3>1, <3>2, <3>3
  <2>2. CASE i = m + 1
    <3>1. elements'[i] = e
      BY <2>2, <1>4
    <3>2. e.endPos <= Len(input)
      BY <1>3, <1>4, <1>7
    <3>3. ASSUME v.parent # 0
          PROVE  elements'[v.parent].startPos < e.startPos /\ e.endPos <= elements'[v.parent].endPos
      <4>1. v.parent \in 1 .. m
        BY <3>3, <1>2, <1>3, <1>7
      <4>2. /\ elements'[v.parent] = elements[v.parent]
            /\ elements[v.parent].startPos \in Nat
        BY <4>1, <1>8
      <4>. QED  BY <3>3, <4>2, <1>3, <1>4, <1>7
    <3>4. \A j \in i + 1 .. m + 1 : FALSE
      BY <2>2, <1>2
    <3>. QED  BY <1>4, <1>5, <3>1, <3>2, <3>3, <3>4
  <2>3. i \in 1 .. m \/ i = m + 1
    BY <1>2, <1>6
  <2>. QED  BY <2>1, <2>2, <2>3
<1>. QED  BY <1>9 DEF Nested

(* Two slices of the same bytes. *)
LEMMA SameSlice ==
  ASSUME NEW X, NEW s \in Seq(X), NEW t \in Seq(X), NEW p \in Nat, NEW m \in Nat, NEW n \in Nat,
         m <= n, n <= Len(t), p + n <= Len(s), \A i \in m + 1 .. n : t[i] = s[p + i]
  PROVE  SubSeq(t, m + 1, n) = SubSeq(s, p + m + 1, p + n)
<1>. DEFINE a == SubSeq(t, m + 1, n)
            b == SubSeq(s, p + m + 1, p + n)
<1>1. a \in Seq(X) /\ Len(a) = n - m /\ \A i \in 1 .. n - m : a[i] = t[m + i]
  BY SubSeqIs
<1>2. b \in Seq(X) /\ Len(b) = n - m /\ \A i \in 1 .. n - m : b[i] = s[p + m + i]
  <2>. DEFINE q == p + m
              r == p + n
  <2>1. q \in Nat /\ r \in Nat /\ q <= r /\ r <= Len(s) /\ r - q = n - m
    OBVIOUS
  <2>. HIDE DEF q, r
  <2>2. /\ SubSeq(s, q + 1, r) \in Seq(X) /\ Len(SubSeq(s, q + 1, r)) = r - q
        /\ \A i \in 1 .. r - q : SubSeq(s, q + 1, r)[i] = s[q + i]
    BY <2>1, SubSeqIs
  <2>3. b = SubSeq(s, q + 1, r)
    BY DEF q, r
  <2>. QED  BY <2>1, <2>2, <2>3 DEF q
<1>. HIDE DEF a, b
<1>3. ASSUME NEW i \in 1 .. n - m PROVE a[i] = b[i]
  <2>1. m + i \in m + 1 .. n /\ p + (m + i) = p + m + i
    OBVIOUS
  <2>2. t[m + i] = s[p + (m + i)]
    BY <2>1
  <2>. QED  BY <1>1, <1>2, <2>1, <2>2
<1>4. a = b
  BY <1>1, <1>2, <1>3
<1>. QED  BY <1>4 DEF a, b

(* The bytes from a tag's last one to its end, and they as an array of     *)
(* their own.                                                              *)
Cut(v, at) == SubSeq(v.bytes, at + 1, End(v, at))
Alone(s) == Level(0, s, Len(s), 0)

(* They are one tag in their turn. *)
LEMMA CutIs ==
  ASSUME NEW v, NEW at, Fits(v, at)
  PROVE  LET w == Alone(Cut(v, at)) IN
         /\ w.bytes[1] = v.bytes[at + 1]
         /\ LengthInArray(w, 0) /\ End(w, 0) = Len(w.bytes)
         /\ Content(w, 0) = Content(v, at)
<1>. DEFINE s == Cut(v, at)
            w == Alone(s)
            b == v.bytes[at + 2]
            d == Digits(v, at)
            L == LengthLen(v, at)
            D == DataLen(v, at)
            E == End(v, at)
            n == 2 + d + D
<1>1. /\ v.bytes \in Seq(Byte) /\ Len(v.bytes) \in Nat /\ v.size <= Len(v.bytes)
      /\ v.size \in Nat /\ at \in Nat /\ D \in Nat /\ E <= v.size /\ E = at + 1 + L + D
  BY FitsIs
<1>2. /\ b \in 0 .. 255 /\ d = (IF b < 128 THEN 0 ELSE b - 128) /\ d \in 0 .. 127
      /\ L = 1 + d
  BY DigitsIs DEF Fits
<1>3. D \in 0 .. SizeT - 1
  BY LengthIs DEF Fits
<1>4. D = IF b < 128 THEN b ELSE IF b = 128 THEN (v.size - at - 2) % SizeT
          ELSE Number(SubSeq(v.bytes, at + 3, at + 2 + d))
  BY DataLenIs
<1>5. s = SubSeq(v.bytes, at + 1, E)
  BY DEF Cut
<1>50. w.bytes = s /\ w.size = Len(s)
  BY DEF Alone, Level
<1>. HIDE DEF s, w, b, d, L, D, E
<1>6. n \in Nat /\ E = at + n /\ at + n <= Len(v.bytes) /\ n >= 2
  BY <1>1, <1>2
<1>7. s \in Seq(Byte) /\ Len(s) = n /\ \A i \in 1 .. n : s[i] = v.bytes[at + i]
  <2>1. E \in Nat /\ at <= E /\ E <= Len(v.bytes) /\ E - at = n
    BY <1>1, <1>6
  <2>2. v.bytes \in Seq(Byte) /\ at \in Nat
    BY <1>1
  <2>. HIDE DEF n
  <2>3. /\ SubSeq(v.bytes, at + 1, E) \in Seq(Byte) /\ Len(SubSeq(v.bytes, at + 1, E)) = E - at
        /\ \A i \in 1 .. E - at : SubSeq(v.bytes, at + 1, E)[i] = v.bytes[at + i]
    BY <2>1, <2>2, SubSeqIs
  <2>. QED  BY <1>5, <2>1, <2>3
<1>8. w.bytes = s /\ w.size = n
  BY <1>7, <1>50
<1>9. s[2] = b
  <2>. HIDE DEF n
  <2>. QED  BY <1>6, <1>7 DEF b
<1>10. Digits(w, 0) = d
  <2>1. Digits(w, 0) = IF s[2] < 128 THEN 0 ELSE s[2] - 128
    BY <1>8 DEF Digits
  <2>. QED  BY <2>1, <1>2, <1>9
<1>11. LengthInArray(w, 0)
  BY <1>2, <1>6, <1>7, <1>8, <1>10, <1>3 DEF LengthInArray
<1>12. LengthLen(w, 0) = L
  BY <1>2, <1>10 DEF LengthLen
<1>13. DataLen(w, 0) = D
  <2>1. DataLen(w, 0) =
          IF s[2] < 128 THEN s[2]
          ELSE IF s[2] = 128 THEN (n - 2) % SizeT
          ELSE Number(SubSeq(s, 3, 2 + d))
    <3>1. DataLen(w, 0) =
            IF w.bytes[0 + 2] < 128 THEN w.bytes[0 + 2]
            ELSE IF w.bytes[0 + 2] = 128 THEN (w.size - 0 - 2) % SizeT
            ELSE Number(SubSeq(w.bytes, 0 + 3, 0 + 2 + Digits(w, 0)))
      BY DataLenIs
    <3>2. 0 + 2 = 2 /\ 0 + 3 = 3 /\ n - 0 - 2 = n - 2 /\ 0 + 2 + d = 2 + d
      BY <1>6, <1>2
    <3>. QED  BY <3>1, <3>2, <1>8, <1>10
  <2>2. CASE b < 128
    BY <2>1, <2>2, <1>4, <1>9
  <2>3. CASE b = 128
    <3>1. n - 2 = D
      BY <1>2, <1>3, <2>3
    <3>2. SizeT \in Nat \ {0}
      BY SizeTIs
    <3>3. D % SizeT = D
      BY <1>3, <3>2
    <3>4. DataLen(w, 0) = (n - 2) % SizeT
      BY <2>1, <2>3, <1>9
    <3>. HIDE DEF n
    <3>. QED  BY <3>1, <3>3, <3>4
  <2>4. CASE b > 128
    <3>1. SubSeq(s, 2 + 1, 2 + d) = SubSeq(v.bytes, at + 2 + 1, at + (2 + d))
      <4>. DEFINE r == 2 + d
      <4>1. r \in Nat /\ 2 <= r /\ r <= n /\ at + r <= Len(v.bytes)
        BY <1>1, <1>2, <1>3, <1>6
      <4>. HIDE DEF r, n
      <4>2. \A i \in 2 + 1 .. r : s[i] = v.bytes[at + i]
        BY <1>6, <1>7, <4>1
      <4>3. SubSeq(s, 2 + 1, r) = SubSeq(v.bytes, at + 2 + 1, at + r)
        BY <1>1, <1>7, <4>1, <4>2, SameSlice
      <4>. QED  BY <4>3 DEF r
    <3>2. SubSeq(s, 3, 2 + d) = SubSeq(v.bytes, at + 3, at + 2 + d)
      <4>1. 2 + 1 = 3 /\ at + 2 + 1 = at + 3 /\ at + (2 + d) = at + 2 + d
        BY <1>1, <1>2
      <4>. QED  BY <3>1, <4>1
    <3>. QED  BY <2>1, <2>4, <3>2, <1>2, <1>4, <1>9
  <2>. QED  BY <1>2, <2>2, <2>3, <2>4
<1>14. End(w, 0) = Len(w.bytes)
  BY <1>2, <1>3, <1>7, <1>8, <1>12, <1>13 DEF End
<1>15. Content(w, 0) = Content(v, at)
  <2>. DEFINE m == L + 1
  <2>1. m \in Nat /\ m <= n /\ at + m + 1 = at + L + 2 /\ m + 1 = 0 + L + 2 /\ 1 <= m
    BY <1>1, <1>2, <1>3
  <2>2. Content(w, 0) = SubSeq(s, m + 1, n)
    BY <1>7, <1>8, <1>12, <1>14, <2>1 DEF Content
  <2>3. Content(v, at) = SubSeq(v.bytes, at + m + 1, at + n)
    <3>1. Content(v, at) = SubSeq(v.bytes, at + L + 2, E)
      BY DEF Content, L, E
    <3>. QED  BY <3>1, <2>1, <1>6
  <2>. HIDE DEF m, n
  <2>4. \A i \in m + 1 .. n : s[i] = v.bytes[at + i]
    BY <1>6, <1>7, <2>1
  <2>5. SubSeq(s, m + 1, n) = SubSeq(v.bytes, at + m + 1, at + n)
    <3>1. v.bytes \in Seq(Byte) /\ at \in Nat /\ n \in Nat /\ at + n <= Len(v.bytes)
      BY <1>1, <1>6
    <3>2. s \in Seq(Byte) /\ n <= Len(s)
      BY <1>7, <3>1
    <3>3. m \in Nat /\ m <= n
      BY <2>1
    <3>. QED  BY <3>1, <3>2, <3>3, <2>4, SameSlice
  <2>. QED  BY <2>2, <2>3, <2>5
<1>16. w.bytes[1] = v.bytes[at + 1]
  <2>. HIDE DEF n
  <2>. QED  BY <1>6, <1>7, <1>8
<1>. QED  BY <1>11, <1>14, <1>15, <1>16 DEF s, w

(* Its slice of the array is one tag. *)
LEMMA SlicesFound ==
  ASSUME AsnInv, Fresh, NEW v, NEW at, NEW e, Found(v, at, e)
  PROVE  Slices'
<1>. DEFINE n == Len(levels)
            m == Len(elements)
            E == End(v, at)
            s == Cut(v, at)
            w == Alone(s)
<1>1. Adds(v, at, e, n, m)
  BY FoundIs DEF AsnInv
<1>2. n \in Nat \ {0} /\ n = Len(levels) /\ m \in Nat /\ m = Len(elements) /\ v = levels[n]
  BY <1>1 DEF Adds
<1>3. /\ v.size \in Nat /\ v.startseq \in Nat /\ v.bytes \in Seq(Byte)
      /\ Len(v.bytes) \in Nat /\ v.size <= Len(v.bytes) /\ at < v.size /\ at \in Nat
      /\ E = at + 1 + LengthLen(v, at) + DataLen(v, at) /\ E \in Nat /\ E <= v.size
      /\ LengthLen(v, at) \in Nat /\ DataLen(v, at) \in Nat
  BY FitsIs DEF Found
<1>4. /\ w.bytes[1] = v.bytes[at + 1]
      /\ LengthInArray(w, 0) /\ End(w, 0) = Len(w.bytes)
      /\ Content(w, 0) = Content(v, at)
  BY CutIs DEF Found
<1>. HIDE DEF n, m, w, s, E
<1>5. /\ elements' \in Seq(CASNTag) /\ Len(elements') = m + 1
      /\ \A i \in 1 .. m : elements'[i] = elements[i]
      /\ elements'[m + 1] = e
      /\ e.forced = FALSE
      /\ e.startPos = v.startseq + at /\ e.endPos = v.startseq + E
      /\ Last(e.tag) = v.bytes[at + 1]
      /\ ~IsSequence(e) => e.content = Content(v, at)
  BY <1>1 DEF Adds, E
<1>6. input' = input /\ input \in Seq(Byte) /\ target' = 0
  BY DEF Found, AsnInv, AsnTypeOK, Slices
<1>7. /\ v.startseq + Len(v.bytes) = Len(input)
      /\ \A j \in 1 .. Len(v.bytes) : v.bytes[j] = input[v.startseq + j]
  <2>1. n \in DOMAIN levels
    BY <1>1, <1>2 DEF Adds
  <2>2. LevelPlaced(v, input, elements)
    BY <1>2, <2>1 DEF AsnInv, LevelsPlaced
  <2>. QED  BY <2>2 DEF LevelPlaced
<1>8. SliceOf(e, input) = w
  <2>1. /\ at <= E /\ E <= Len(v.bytes) /\ v.startseq + E <= Len(input)
        /\ \A j \in at + 1 .. E : v.bytes[j] = input[v.startseq + j]
    <3>1. /\ at \in Nat /\ E \in Nat /\ at <= E /\ E <= Len(v.bytes)
          /\ Len(v.bytes) \in Nat /\ v.startseq \in Nat
      BY <1>3
    <3>2. \A j \in at + 1 .. E : j \in 1 .. Len(v.bytes)
      BY <3>1
    <3>3. v.startseq + E <= Len(input)
      BY <1>7, <3>1
    <3>. QED  BY <1>7, <3>1, <3>2, <3>3
  <2>2. SubSeq(v.bytes, at + 1, E) = SubSeq(input, v.startseq + at + 1, v.startseq + E)
    <3>1. v.bytes \in Seq(Byte) /\ v.startseq \in Nat /\ at \in Nat /\ E \in Nat
      BY <1>3
    <3>2. input \in Seq(Byte)
      BY <1>6
    <3>. DEFINE b == v.bytes
                p == v.startseq
    <3>3. /\ b \in Seq(Byte) /\ p \in Nat /\ at <= E /\ E <= Len(b) /\ p + E <= Len(input)
          /\ \A j \in at + 1 .. E : b[j] = input[p + j]
      BY <2>1, <3>1
    <3>. HIDE DEF b, p
    <3>4. SubSeq(b, at + 1, E) = SubSeq(input, p + at + 1, p + E)
      BY <3>1, <3>2, <3>3, SameSlice
    <3>. QED  BY <3>4 DEF b, p
  <2>3. SubSeq(input, e.startPos + 1, e.endPos) = s
    BY <1>5, <2>2 DEF s, Cut, E
  <2>. QED  BY <2>3 DEF SliceOf, w, Alone
<1>9. IsOneTag(e, input)
  BY <1>4, <1>5, <1>8 DEF IsOneTag
<1>10. ASSUME NEW i \in DOMAIN elements'
       PROVE  ~elements'[i].forced /\ IsOneTag(elements'[i], input)
  <2>1. i \in 1 .. m \/ i = m + 1
    BY <1>2, <1>5
  <2>2. CASE i = m + 1
    BY <2>2, <1>5, <1>9
  <2>3. CASE i \in 1 .. m
    <3>1. i \in DOMAIN elements /\ elements'[i] = elements[i]
      <4>1. elements \in Seq(CASNTag)
        BY DEF AsnInv, AsnTypeOK
      <4>. QED  BY <4>1, <2>3, <1>2, <1>5
    <3>. QED  BY <3>1, <1>6 DEF AsnInv, Slices
  <2>. QED  BY <2>1, <2>2, <2>3
<1>. QED  BY <1>6, <1>10 DEF Slices

(* Parse begins with the whole array, and no tags. *)
LEMMA BeginParse ==
  ASSUME AsnInv, Parse
  PROVE  LevelsPlaced' /\ Nested' /\ Slices'
<1>1. PICK data \in Inputs : input' = data /\ levels' = <<Level(0, data, Len(data), 0)>>
  BY DEF Parse
<1>2. elements' = <<>> /\ target' = 0 /\ phase' = "parsing"
  BY DEF Parse, AsnInv, Idle
<1>3. data \in Seq(Byte)
  BY InputsAssumption
<1>. DEFINE v == Level(0, data, Len(data), 0)
<1>4. /\ v.parent = 0 /\ v.bytes = data /\ v.startseq = 0
      /\ levels' = <<v>> /\ DOMAIN levels' = {1} /\ levels'[1] = v
  BY <1>1 DEF Level
<1>. HIDE DEF v
<1>6. DOMAIN elements' = {}
  BY <1>2
<1>7. LevelPlaced(v, input', elements')
  <2>1. v.startseq + Len(v.bytes) = Len(data) /\ \A j \in 1 .. Len(v.bytes) : v.startseq + j = j
    BY <1>3, <1>4
  <2>. QED  BY <1>1, <1>4, <1>6, <2>1 DEF LevelPlaced
<1>8. LevelsPlaced'
  BY <1>4, <1>7 DEF LevelsPlaced
<1>9. Nested' /\ Slices'
  BY <1>2, <1>6 DEF Nested, Slices
<1>. QED  BY <1>8, <1>9

(* Out of Parse, nothing is said of the tags. *)
LEMMA NotFresh ==
  ASSUME ~Fresh'
  PROVE  LevelsPlaced' /\ Nested' /\ Slices'
BY DEF LevelsPlaced, Nested, Slices

LEMMA PlacedTurn ==
  ASSUME AsnInv, Turn
  PROVE  LevelsPlaced' /\ Nested' /\ Slices'
<1>1. CASE ~Fresh'
  BY <1>1, NotFresh
<1>2. CASE Fresh' /\ ReturnFromParse
  BY <1>2, PlacedReturn DEF Turn
<1>3. CASE Fresh' /\ \E v, at, e : Found(v, at, e)
  <2>1. Fresh
    BY <1>3 DEF Found, Fresh
  <2>. QED  BY <2>1, <1>3, PlacedFound, NestedFound, SlicesFound
<1>4. CASE Throw \/ Stray
  <2>1. ~Fresh'
    BY <1>4 DEF Throw, Stray, Fresh
  <2>. QED  BY <2>1, NotFresh
<1>5. Throw \/ Stray \/ ReturnFromParse \/ \E v, at, e : Found(v, at, e)
  BY TurnIs DEF AsnInv
<1>. QED  BY <1>1, <1>2, <1>3, <1>4, <1>5

LEMMA IdleStep ==
  ASSUME AsnInv, [AsnNext]_asnvars
  PROVE  Idle'
<1>1. CASE phase' # "idle"
  BY <1>1 DEF Idle
<1>2. CASE UNCHANGED asnvars
  BY <1>2 DEF asnvars, AsnInv, Idle
<1>3. CASE AsnNext /\ phase' = "idle"
  <2>1. ~ReturnFromParse \/ ~Parsing
    BY <1>3 DEF ReturnFromParse, AfterParse, Parsing
  <2>2. ~Throw /\ ~Stray /\ \A v, at, e : ~Found(v, at, e)
    BY <1>3 DEF Throw, Stray, Found, Parsing
  <2>3. ~LevelEnds /\ ~Turn
    BY <2>1, <2>2, TurnIs DEF LevelEnds, Turn, AsnInv
  <2>4. ~Parse /\ ~Encode /\ ~ParseEncoded
    BY <1>3, <2>2 DEF Parse, Encode, ParseEncoded
  <2>5. \A i : ~Reparse(i)
    BY <1>3, <2>2 DEF Reparse
  <2>6. \A tag : ~getASN1Tag(tag)
    BY <1>3 DEF getASN1Tag
  <2>. QED  BY <1>3, <2>3, <2>4, <2>5, <2>6 DEF AsnNext
<1>. QED  BY <1>1, <1>2, <1>3

LEMMA AsnInvStep ==
  ASSUME AsnInv, [AsnNext]_asnvars
  PROVE  AsnInv'
<1>1. AsnTypeOK' /\ Small'
  BY TypeStep DEF AsnInv
<1>2. Idle'
  BY IdleStep
<1>3. LevelsPlaced' /\ Nested' /\ Slices'
  <2>1. CASE Parse
    BY <2>1, BeginParse
  <2>2. CASE LevelEnds
    <3>1. Parsing /\ ReturnFromParse
      BY <2>2 DEF LevelEnds
    <3>. QED  BY <3>1, PlacedReturn, NotFresh
  <2>3. CASE Turn
    BY <2>3, PlacedTurn
  <2>4. CASE \E i \in DOMAIN elements : Reparse(i)
    <3>1. ~Fresh'
      BY <2>4 DEF Reparse, Throw, Fresh
    <3>. QED  BY <3>1, NotFresh
  <2>5. CASE Encode
    <3>1. ~Fresh'
      BY <2>5 DEF Encode, Throw, Fresh
    <3>. QED  BY <3>1, NotFresh
  <2>6. CASE \E tag \in Tags : getASN1Tag(tag)
    <3>1. ~Fresh'
      BY <2>6 DEF getASN1Tag, Fresh
    <3>. QED  BY <3>1, NotFresh
  <2>7. CASE ParseEncoded
    <3>1. ~Fresh'
      BY <2>7 DEF ParseEncoded, Fresh
    <3>. QED  BY <3>1, NotFresh
  <2>8. CASE UNCHANGED asnvars
    BY <2>8 DEF asnvars, AsnInv, LevelsPlaced, Nested, Slices, Fresh
  <2>. QED  BY <2>1, <2>2, <2>3, <2>4, <2>5, <2>6, <2>7, <2>8 DEF AsnNext
<1>. QED  BY <1>1, <1>2, <1>3 DEF AsnInv

LEMMA AsnInvInit ==
  ASSUME AsnInit
  PROVE  AsnInv
<1>1. AsnTypeOK /\ Small
  BY TypeInit
<1>2. ~Fresh /\ Idle
  BY DEF AsnInit, Fresh, Idle
<1>. QED  BY <1>1, <1>2 DEF AsnInv, LevelsPlaced, Nested, Slices

(* The levels and the tags lie in the array as AsnInv says, at each turn.  *)
THEOREM Invariance == AsnSpec => []AsnInv
<1>1. AsnInit => AsnInv
  BY AsnInvInit
<1>2. AsnInv /\ [AsnNext]_asnvars => AsnInv'
  BY AsnInvStep
<1>. QED  BY <1>1, <1>2, PTL DEF AsnSpec

(* Parse of any array makes tags that end in the array, before the tag     *)
(* they are in does, and before the next one of it begins.                 *)
THEOREM NestedTags == AsnSpec => []AsnNested
<1>1. AsnInv => AsnNested
  BY DEF AsnInv, AsnNested, Nested, Fresh
<1>. QED  BY <1>1, Invariance, PTL

(* The slice of the array from startPos to endPos, which verifySod hashes  *)
(* and decodes, is one tag in its turn, of a sequence too: its length      *)
(* stands for the rest of the slice, no more and no less, which is the     *)
(* content of a tag that is not a sequence.                                *)
THEOREM SlicesOfTags == AsnSpec => []AsnSlices
<1>1. AsnInv => AsnSlices
  <2>. SUFFICES ASSUME AsnInv, phase = "parsed"
                PROVE  \A e \in Range(elements) : IsOneTag(e, input)
    BY DEF AsnSlices, IsOneTag, SliceOf, Level
  <2>. SUFFICES ASSUME NEW e \in Range(elements)
                PROVE  IsOneTag(e, input)
    OBVIOUS
  <2>1. PICK i \in DOMAIN elements : e = elements[i]
    BY DEF Range
  <2>. QED  BY <2>1 DEF AsnInv, Slices, Fresh
<1>. QED  BY <1>1, Invariance, PTL

(* Why a turn strays: SumWraps. *)
LEMMA StrayStep ==
  ASSUME AsnInv, Turn, Stray
  PROVE  AsnStraysOnlyIfTruncated'
<1>. DEFINE v == Last(levels)
            at == TagEnd(v)
<1>1. /\ IsTurn(v) /\ levels' = levels
      /\ ReadBeyondArray(v, at) \/ Element(v, at) \/ Throw \/ EndOfContents(v, at)
  BY LastLevel DEF AsnInv, Turn, Stray
<1>2. at \in v.l .. v.size /\ at \in Nat
  <2>1. v.l \in Nat /\ v.size \in Nat
    BY <1>1 DEF IsTurn, Levels
  <2>2. at \in v.l .. v.size
    BY <1>1, TagEndIs
  <2>. QED  BY <2>1, <2>2
<1>3. \/ ~LengthInArray(v, at)
      \/ LengthInArray(v, at) /\ Bounded(v, at) /\ End(v, at) > v.size
  <2>1. ~Throw /\ ~ReturnFromParse
    BY DEF Throw, Stray, ReturnFromParse, AfterParse, Turn, Parsing
  <2>2. ~UNCHANGED phase
    BY DEF Stray, Turn, Parsing
  <2>. QED  BY <1>1, <2>1, <2>2 DEF ReadBeyondArray, Element, EndOfContents
<1>4. at + 2 > v.size \/ at + 2 + Digits(v, at) > v.size \/ Digits(v, at) >= SizeBytes
  <2>1. v.size \in Nat /\ Len(v.bytes) \in Nat /\ v.size <= Len(v.bytes) /\ v.bytes \in Seq(Byte)
    BY <1>1 DEF IsTurn, Levels
  <2>2. CASE at + 2 > Len(v.bytes)
    BY <2>1, <2>2, <1>2
  <2>3. CASE at + 2 <= Len(v.bytes)
    <3>1. v.bytes[at + 2] \in 0 .. 255
      <4>1. at + 2 \in 1 .. Len(v.bytes)
        BY <1>2, <2>3
      <4>. QED  BY <4>1, <2>1, BytesOf
    <3>2. Digits(v, at) \in Nat
      BY <3>1 DEF Digits
    <3>3. SizeBytes \in Nat
      BY SizeTIs
    <3>4. CASE ~LengthInArray(v, at)
      BY <3>4, <2>1, <2>3, <1>2, <3>2 DEF LengthInArray
    <3>5. CASE LengthInArray(v, at) /\ Bounded(v, at) /\ End(v, at) > v.size
      <4>1. ~(at + 2 + Digits(v, at) <= v.size /\ Digits(v, at) < SizeBytes)
        BY <3>5, <1>1, <1>2, SumWraps
      <4>. HIDE DEF at
      <4>. QED  BY <4>1, <1>2, <2>1, <3>2, <3>3
    <3>. QED  BY <3>4, <3>5, <1>3
  <2>4. at + 2 > Len(v.bytes) \/ at + 2 <= Len(v.bytes)
    BY <1>2, <2>1
  <2>. QED  BY <2>2, <2>3, <2>4
<1>. QED  BY <1>1, <1>4 DEF AsnStraysOnlyIfTruncated

(* Parse reads what is not of the array only if a level ends within the    *)
(* header of a tag, or a length has as many digits as a size_t.            *)
THEOREM StraysOnlyIfTruncated == AsnSpec => []AsnStraysOnlyIfTruncated
<1>1. AsnInit => AsnStraysOnlyIfTruncated
  BY DEF AsnInit, AsnStraysOnlyIfTruncated
<1>2. AsnInv /\ AsnStraysOnlyIfTruncated /\ [AsnNext]_asnvars => AsnStraysOnlyIfTruncated'
  <2>. SUFFICES ASSUME AsnInv, AsnStraysOnlyIfTruncated, [AsnNext]_asnvars, phase' = "undefined"
                PROVE  AsnStraysOnlyIfTruncated'
    BY DEF AsnStraysOnlyIfTruncated
  <2>1. CASE UNCHANGED asnvars
    BY <2>1 DEF asnvars, AsnStraysOnlyIfTruncated
  <2>2. CASE Turn
    <3>1. ~Throw /\ ~ReturnFromParse /\ \A v, at, e : ~Found(v, at, e)
      BY <2>2 DEF Throw, ReturnFromParse, AfterParse, Turn, Parsing, Found
    <3>2. Stray
      BY <2>2, <3>1, TurnIs DEF AsnInv
    <3>. QED  BY <2>2, <3>2, StrayStep
  <2>3. ~Parse /\ ~LevelEnds /\ ~Encode /\ ~ParseEncoded /\ (\A i : ~Reparse(i)) /\ \A t : ~getASN1Tag(t)
    BY DEF Parse, LevelEnds, Encode, ParseEncoded, Reparse, getASN1Tag, Throw, ReturnFromParse,
           AfterParse, Parsing
  <2>. QED  BY <2>1, <2>2, <2>3 DEF AsnNext
<1>. QED  BY <1>1, <1>2, Invariance, PTL DEF AsnSpec

-----------------------------------------------------------------------------
(* putASN1Length writes the fewest digits of a length, and they count to it. *)

(* Division, by what it leaves. *)
LEMMA DivisionIs ==
  ASSUME NEW a \in Nat, NEW k \in Nat \ {0}
  PROVE  /\ a \div k \in Nat
         /\ k * (a \div k) <= a /\ a < k * (a \div k) + k
         /\ \A b \in Nat : k * b <= a /\ a < k * b + k => a \div k = b
OBVIOUS
LEMMA NextQuotient ==
  ASSUME NEW len \in Nat, NEW p \in Nat \ {0}
  PROVE  /\ len \div p \in Nat /\ len \div p <= len
         /\ (len \div (256 * p)) * 256 + ((len \div p) % 256) = len \div p
<1>. DEFINE a == len \div p
            b == a \div 256
<1>1. a \in Nat /\ p * a <= len /\ len < p * a + p
  BY DivisionIs
<1>2. b \in Nat /\ 256 * b <= a /\ a <= 256 * b + 255 /\ b * 256 + (a % 256) = a
  <2>. HIDE DEF a
  <2>. QED  BY <1>1
<1>3. 256 * p \in Nat \ {0}
  OBVIOUS
<1>. HIDE DEF a, b
<1>4. \A x, y \in Nat : x <= y => p * x <= p * y
  OBVIOUS
<1>5. p * (256 * b) <= p * a /\ p * a <= p * (256 * b + 255)
  <2>1. 256 * b \in Nat /\ 256 * b + 255 \in Nat
    BY <1>2
  <2>. QED  BY <1>1, <1>2, <1>4, <2>1
<1>6. p * (256 * b) = (256 * p) * b /\ p * (256 * b + 255) + p = (256 * p) * b + 256 * p
  BY <1>2
<1>7. (256 * p) * b <= len /\ len < (256 * p) * b + 256 * p
  <2>. DEFINE x == p * a
              y == (256 * p) * b
              z == p * (256 * b + 255)
  <2>1. x \in Nat /\ y \in Nat /\ z \in Nat
    BY <1>1, <1>2
  <2>2. y <= x /\ x <= z /\ z + p = y + 256 * p /\ x <= len /\ len < x + p
    BY <1>1, <1>5, <1>6
  <2>. HIDE DEF x, y, z
  <2>3. y <= len /\ len < y + 256 * p
    BY <2>1, <2>2
  <2>. QED  BY <2>3 DEF y
<1>8. len \div (256 * p) = b
  BY <1>2, <1>3, <1>7, DivisionIs
<1>9. a <= len
  <2>1. 1 * a <= p * a
    BY <1>1
  <2>. QED  BY <1>1, <2>1
<1>. QED  BY <1>1, <1>2, <1>8, <1>9 DEF a

(* The length of an array, as the bytes that are written for it. *)
PutLengthAs(len) ==
  \/ len < 128 /\ PutLength(len) = <<len>>
  \/ \E q \in Seq(Byte) :
       /\ len >= 128 /\ Len(q) \in 1 .. 4
       /\ PutLength(len) = <<128 + Len(q)>> \o q
       /\ Number(q) = len

LEMMA PutLengthIs ==
  ASSUME NEW len \in Nat, len <= MaxArray
  PROVE  PutLengthAs(len)
<1>. DEFINE d == IF len < Pow256[1] THEN 1 ELSE IF len < Pow256[2] THEN 2
                 ELSE IF len < Pow256[3] THEN 3 ELSE 4
            q == [j \in 1 .. d |-> (len \div Pow256[d - j]) % 256]
<1>1. CASE len < 128
  BY <1>1 DEF PutLength, PutLengthAs
<1>2. CASE len >= 128
  <2>1. d \in 1 .. 4
    OBVIOUS
  <2>2. len < Pow256[d] /\ len < SizeT /\ SizeT \in Nat
    <3>1. len < Pow256[4]
      <4>1. Pow256[3] \in Nat /\ Pow256[3 + 1] = 256 * Pow256[3]
        BY Powers
      <4>2. MaxArray \div 256 < Pow256[3] /\ MaxArray \in Nat
        BY SizeAssumption
      <4>. QED  BY <4>1, <4>2
    <3>2. len < SizeT /\ SizeT \in Nat
      BY SizeTIs
    <3>. QED  BY <3>1, <3>2
  <2>3. PutLength(len) = <<128 + d>> \o q
    BY <1>2 DEF PutLength
  <2>. HIDE DEF d
  <2>4. \A j \in 1 .. d : (len \div Pow256[d - j]) % 256 \in Byte
    BY <2>1, QuotientByte
  <2>5. q \in Seq(Byte) /\ Len(q) = d /\ q \in [1 .. d -> 0 .. 255]
    <3>1. q \in [1 .. d -> Byte]
      BY <2>4
    <3>. HIDE DEF q
    <3>. QED  BY <2>1, <3>1 DEF Byte
  <2>6. PICK g : Counted(g, d, q)
    <3>1. d \in Nat
      BY <2>1
    <3>. HIDE DEF q
    <3>. QED  BY <2>5, <3>1, NumberSteps
  <2>. DEFINE T == {m \in 0 .. d : g[m] = len \div Pow256[d - m]}
  <2>7. 0 \in T
    <3>1. len \div Pow256[d] = 0
      <4>1. Pow256[d] \in Nat \ {0}
        BY <2>1, Powers
      <4>. QED  BY <4>1, <2>2
    <3>2. g[0] = 0 /\ d - 0 = d /\ 0 \in 0 .. d
      BY <2>1, <2>6 DEF Counted
    <3>. QED  BY <3>1, <3>2
  <2>8. ASSUME NEW m \in 0 .. d - 1, m \in T PROVE m + 1 \in T
    <3>. DEFINE k == d - (m + 1)
    <3>1. k \in 0 .. 3 /\ k + 1 = d - m /\ m + 1 \in 1 .. d /\ m + 1 \in 0 .. d /\ m \in 0 .. d
      BY <2>1
    <3>2. g[m] = len \div Pow256[k + 1]
      BY <2>8, <3>1
    <3>3. q[m + 1] = (len \div Pow256[k]) % 256
      BY <3>1
    <3>4. g[m + 1] = (g[m] * 256 + q[m + 1]) % SizeT
      <4>. HIDE DEF q
      <4>. QED  BY <2>6 DEF Counted
    <3>. HIDE DEF k, q
    <3>5. /\ len \div Pow256[k] \in Nat /\ len \div Pow256[k] <= len
          /\ g[m] * 256 + q[m + 1] = len \div Pow256[k]
      <4>1. Pow256[k] \in Nat \ {0} /\ Pow256[k + 1] = 256 * Pow256[k]
        BY <3>1, Powers
      <4>. DEFINE pw == Pow256[k]
      <4>2. pw \in Nat \ {0} /\ Pow256[k + 1] = 256 * pw
        BY <4>1
      <4>. HIDE DEF pw
      <4>3. /\ len \div pw \in Nat /\ len \div pw <= len
            /\ (len \div (256 * pw)) * 256 + ((len \div pw) % 256) = len \div pw
        BY <4>2, NextQuotient
      <4>4. g[m] = len \div (256 * pw) /\ q[m + 1] = (len \div pw) % 256
        BY <3>2, <3>3, <4>2 DEF pw
      <4>. QED  BY <4>3, <4>4 DEF pw
    <3>6. g[m + 1] = len \div Pow256[k]
      <4>. DEFINE x == len \div Pow256[k]
      <4>1. x \in Nat /\ x <= len /\ g[m + 1] = x % SizeT
        BY <3>4, <3>5
      <4>. HIDE DEF x
      <4>2. x < SizeT /\ SizeT \in Nat \ {0}
        BY <4>1, <2>2
      <4>3. x % SizeT = x
        BY <4>1, <4>2, Remainder
      <4>. QED  BY <4>1, <4>3 DEF x
    <3>. QED  BY <3>1, <3>6 DEF k
  <2>. HIDE DEF T, q
  <2>9. d \in T
    <3>1. d \in Nat /\ d \in 0 .. d
      BY <2>1
    <3>2. \A m \in 0 .. d - 1 : m \in T => m + 1 \in T
      BY <2>8
    <3>3. \A m \in 0 .. d : m \in T
      BY <2>7, <3>1, <3>2, Induction, Zenon
    <3>. QED  BY <3>1, <3>3
  <2>10. Number(q) = len
    <3>1. g[d] = len \div Pow256[0] /\ Number(q) = g[d]
      <4>1. d - d = 0
        BY <2>1
      <4>. QED  BY <2>6, <2>9, <4>1 DEF T, Counted
    <3>2. len \div 1 = len
      OBVIOUS
    <3>. QED  BY <3>1, <3>2, Powers
  <2>. QED  BY <1>2, <2>1, <2>3, <2>5, <2>10 DEF PutLengthAs
<1>. QED  BY <1>1, <1>2

-----------------------------------------------------------------------------
(* The header of a tag that was encoded is read as it was written.         *)

(* Two arrays, one after the other. *)
LEMMA ConcatIs ==
  ASSUME NEW X, NEW s \in Seq(X), NEW t \in Seq(X)
  PROVE  /\ s \o t \in Seq(X) /\ Len(s) \in Nat /\ Len(t) \in Nat
         /\ Len(s \o t) = Len(s) + Len(t)
         /\ \A j \in 1 .. Len(s) : (s \o t)[j] = s[j]
         /\ \A j \in 1 .. Len(t) : (s \o t)[Len(s) + j] = t[j]
OBVIOUS

LEMMA SameArray ==
  ASSUME NEW X, NEW s \in Seq(X), NEW t \in Seq(X), Len(s) = Len(t),
         \A j \in 1 .. Len(s) : s[j] = t[j]
  PROVE  s = t
OBVIOUS

(* The bytes of t are in s from the position at on. *)
LiesAt(t, s, at) == \A j \in 1 .. Len(t) : s[at + j] = t[j]

(* So are those of both halves of t. *)
LEMMA HalvesLie ==
  ASSUME NEW X, NEW s \in Seq(X), NEW t \in Seq(X), NEW b, NEW at \in Nat,
         LiesAt(s \o t, b, at)
  PROVE  LiesAt(s, b, at) /\ LiesAt(t, b, at + Len(s))
<1>1. /\ Len(s) \in Nat /\ Len(t) \in Nat
      /\ Len(s \o t) = Len(s) + Len(t)
      /\ \A j \in 1 .. Len(s) : (s \o t)[j] = s[j]
      /\ \A j \in 1 .. Len(t) : (s \o t)[Len(s) + j] = t[j]
  BY ConcatIs
<1>. DEFINE u == s \o t
<1>2. \A j \in 1 .. Len(u) : b[at + j] = u[j]
  BY DEF LiesAt
<1>. HIDE DEF u
<1>3. ASSUME NEW j \in 1 .. Len(s) PROVE b[at + j] = s[j]
  <2>1. j \in 1 .. Len(u)
    BY <1>1 DEF u
  <2>. QED  BY <1>1, <1>2, <2>1 DEF u
<1>4. ASSUME NEW j \in 1 .. Len(t) PROVE b[at + Len(s) + j] = t[j]
  <2>1. Len(s) + j \in 1 .. Len(u) /\ at + (Len(s) + j) = at + Len(s) + j
    BY <1>1 DEF u
  <2>. QED  BY <1>1, <1>2, <2>1 DEF u
<1>. QED  BY <1>3, <1>4 DEF LiesAt

(* What lies in an array is a slice of it. *)
LEMMA SliceLies ==
  ASSUME NEW X, NEW s \in Seq(X), NEW t \in Seq(X), NEW at \in Nat,
         at + Len(t) <= Len(s), LiesAt(t, s, at)
  PROVE  SubSeq(s, at + 1, at + Len(t)) = t
<1>. DEFINE n == at + Len(t)
            u == SubSeq(s, at + 1, n)
<1>1. n \in Nat /\ at <= n /\ n <= Len(s) /\ n - at = Len(t) /\ Len(t) \in Nat
  OBVIOUS
<1>. HIDE DEF n
<1>2. u \in Seq(X) /\ Len(u) = Len(t) /\ \A j \in 1 .. Len(t) : u[j] = s[at + j]
  BY <1>1, SubSeqIs
<1>3. \A j \in 1 .. Len(u) : u[j] = t[j]
  BY <1>2 DEF LiesAt
<1>. HIDE DEF u
<1>4. u = t
  BY <1>2, <1>3, SameArray
<1>. QED  BY <1>4 DEF u, n

(* The length that is written is the one that is read. *)
LEMMA LengthIsRead ==
  ASSUME NEW v, IsTurn(v), NEW at \in Nat, NEW len \in Nat, len <= MaxArray,
         at + 1 + Len(PutLength(len)) <= v.size,
         LiesAt(PutLength(len), v.bytes, at + 1)
  PROVE  /\ LengthInArray(v, at)
         /\ DataLen(v, at) = len
         /\ LengthLen(v, at) = Len(PutLength(len))
<1>1. /\ v.size \in Nat /\ v.size <= Len(v.bytes) /\ v.bytes \in Seq(Byte) /\ Len(v.bytes) \in Nat
  BY DEF IsTurn, Levels
<1>. DEFINE L == PutLength(len)
            s == v.bytes
<1>2. PutLengthAs(len)
  BY PutLengthIs
<1>3. CASE len < 128 /\ L = <<len>>
  <2>1. Len(L) = 1 /\ L[1] = len
    BY <1>3
  <2>2. s[at + 2] = len
    <3>1. 1 \in 1 .. Len(L) /\ at + 1 + 1 = at + 2
      BY <2>1
    <3>. HIDE DEF L, s
    <3>. QED  BY <2>1, <3>1 DEF LiesAt, L, s
  <2>3. Digits(v, at) = 0 /\ DataLen(v, at) = len
    BY <2>2, <1>3, DataLenIs DEF Digits
  <2>4. LengthInArray(v, at)
    BY <1>1, <2>1, <2>3 DEF LengthInArray
  <2>. QED  BY <2>1, <2>3, <2>4 DEF LengthLen
<1>4. ASSUME NEW q \in Seq(Byte), len >= 128, Len(q) \in 1 .. 4,
             L = <<128 + Len(q)>> \o q, Number(q) = len
      PROVE  LengthInArray(v, at) /\ DataLen(v, at) = len /\ LengthLen(v, at) = Len(L)
  <2>. DEFINE d == Len(q)
              one == <<128 + Len(q)>>
  <2>1. one \in Seq(Byte) /\ Len(one) = 1 /\ one[1] = 128 + d
    <3>1. 128 + d \in Byte
      <4>1. d \in 1 .. 4
        BY <1>4
      <4>. HIDE DEF d
      <4>. QED  BY <4>1 DEF Byte
    <3>. HIDE DEF d
    <3>2. one = <<128 + d>>
      BY DEF d
    <3>. HIDE DEF one
    <3>. QED  BY <3>1, <3>2
  <2>. HIDE DEF one
  <2>2. L = one \o q
    BY <1>4 DEF one
  <2>. HIDE DEF L, d
  <2>3. LiesAt(one, s, at + 1) /\ LiesAt(q, s, at + 1 + Len(one))
    <3>1. LiesAt(one \o q, s, at + 1) /\ at + 1 \in Nat
      BY <2>2 DEF L
    <3>. HIDE DEF s
    <3>. QED  BY <1>4, <2>1, <3>1, HalvesLie
  <2>4. Len(L) = 1 + d /\ d \in 1 .. 4
    <3>1. Len(one \o q) = Len(one) + Len(q)
      BY <1>4, <2>1, ConcatIs
    <3>. QED  BY <1>4, <2>1, <2>2, <3>1 DEF d
  <2>5. s[at + 2] = 128 + d
    <3>1. 1 \in 1 .. Len(one) /\ at + 1 + 1 = at + 2
      BY <2>1
    <3>. HIDE DEF s
    <3>. QED  BY <2>1, <2>3, <3>1 DEF LiesAt
  <2>6. Digits(v, at) = d
    BY <2>4, <2>5 DEF Digits
  <2>7. LengthInArray(v, at)
    BY <1>1, <2>4, <2>6 DEF LengthInArray, L
  <2>8. SubSeq(s, at + 3, at + 2 + d) = q
    <3>. DEFINE k == at + 2
    <3>1. k \in Nat /\ at + 1 + Len(one) = k /\ k + 1 = at + 3 /\ k + d <= Len(s)
      BY <1>1, <2>1, <2>4 DEF L
    <3>. HIDE DEF k, s
    <3>2. SubSeq(s, k + 1, k + d) = q
      BY <1>1, <1>4, <2>3, <3>1, SliceLies DEF d, s
    <3>. QED  BY <3>1, <3>2 DEF k
  <2>9. DataLen(v, at) = len
    <3>1. ~(v.bytes[at + 2] < 128) /\ v.bytes[at + 2] # 128
      BY <2>4, <2>5
    <3>. QED  BY <2>6, <2>8, <3>1, <1>4, DataLenIs
  <2>. QED  BY <2>4, <2>6, <2>7, <2>9 DEF LengthLen, L
<1>. QED  BY <1>2, <1>3, <1>4 DEF PutLengthAs

(* The tag that is written is the one that is read. *)
LEMMA TagIsRead ==
  ASSUME NEW v, IsTurn(v), NEW tag \in Seq(Byte), tag # <<>>, IsTag(tag),
         v.l + Len(tag) <= v.size, LiesAt(tag, v.bytes, v.l)
  PROVE  TagEnd(v) = v.l + Len(tag) - 1
<1>1. v.l \in Nat /\ v.size \in Nat /\ Len(tag) \in Nat \ {0}
  BY DEF IsTurn, Levels
<1>. DEFINE n == Len(tag)
            s == v.bytes
<1>2. \A j \in 1 .. n : s[v.l + j] = tag[j]
  BY DEF LiesAt
<1>. HIDE DEF n, s
<1>3. s[v.l + 1] = tag[1]
  BY <1>1, <1>2 DEF n
<1>4. CASE tag[1] % 32 # 31
  <2>1. n = 1 /\ TagEnd(v) = v.l
    BY <1>3, <1>4 DEF IsTag, TagEnd, n, s
  <2>. QED  BY <2>1, <1>1 DEF n
<1>5. CASE tag[1] % 32 = 31
  <2>. DEFINE ends == {i \in v.l + 1 .. v.size - 1 : v.bytes[i + 1] < 128}
              e == v.l + n - 1
  <2>1. n > 1 /\ tag[n] < 128 /\ \A j \in 2 .. n - 1 : tag[j] >= 128
    BY <1>5 DEF IsTag, n
  <2>2. n \in Nat /\ e \in v.l + 1 .. v.size - 1 /\ e + 1 = v.l + n /\ n \in 1 .. n
    BY <1>1, <2>1 DEF n
  <2>3. s[e + 1] = tag[n]
    <3>. HIDE DEF e
    <3>. QED  BY <1>2, <2>2
  <2>4. e \in ends
    <3>. HIDE DEF e
    <3>. QED  BY <2>1, <2>2, <2>3 DEF s
  <2>5. ASSUME NEW i \in ends PROVE e <= i
    <3>. SUFFICES ASSUME i < e PROVE FALSE
      BY <1>1, <2>2
    <3>. DEFINE j == i + 1 - v.l
    <3>1. i \in v.l + 1 .. v.size - 1 /\ s[i + 1] < 128
      BY DEF s
    <3>2. j \in 2 .. n - 1 /\ j \in 1 .. n /\ v.l + j = i + 1
      <4>. DEFINE b == v.l
      <4>1. b \in Nat /\ n \in Nat /\ v.size \in Nat /\ i \in b + 1 .. v.size - 1 /\ i < b + n - 1
        BY <1>1, <2>2, <3>1
      <4>. HIDE DEF b, ends
      <4>2. i + 1 - b \in 2 .. n - 1 /\ b + (i + 1 - b) = i + 1
        BY <4>1
      <4>3. i + 1 - b \in 1 .. n
        BY <4>1, <4>2
      <4>. QED  BY <4>2, <4>3 DEF b
    <3>3. s[i + 1] = tag[j]
      <4>. HIDE DEF j
      <4>. QED  BY <1>2, <3>2
    <3>4. tag[j] \in 0 .. 255
      <4>. HIDE DEF j
      <4>1. j \in 1 .. Len(tag)
        BY <3>2 DEF n
      <4>. QED  BY <4>1, BytesOf
    <3>5. tag[j] >= 128
      <4>. HIDE DEF j
      <4>. QED  BY <2>1, <3>2
    <3>. HIDE DEF j, e, ends
    <3>6. tag[j] < 128
      BY <3>1, <3>3
    <3>. DEFINE x == tag[j]
    <3>7. x \in 0 .. 255 /\ x >= 128 /\ x < 128
      BY <3>4, <3>5, <3>6
    <3>. HIDE DEF x
    <3>. QED  BY <3>7
  <2>6. ends \in SUBSET Nat
    BY <1>1
  <2>7. TagEnd(v) = Min(ends)
    <3>1. v.bytes[v.l + 1] % 32 = 31 /\ ends # {}
      BY <1>3, <1>5, <2>4 DEF s
    <3>. QED  BY <3>1 DEF TagEnd
  <2>. HIDE DEF ends
  <2>8. Min(ends) \in ends /\ \A y \in ends : Min(ends) <= y
    BY <2>4, <2>6, MinOf
  <2>9. Min(ends) = e
    <3>1. Min(ends) \in Nat /\ Min(ends) <= e /\ e <= Min(ends) /\ e \in Nat
      BY <2>4, <2>5, <2>6, <2>8
    <3>. HIDE DEF e
    <3>. QED  BY <3>1
  <2>. QED  BY <2>7, <2>9 DEF n
<1>. QED  BY <1>4, <1>5

(* What Tlv writes. *)
LEMMA TlvIs ==
  ASSUME NEW tag \in Seq(Byte), NEW content \in Seq(Byte)
  PROVE  /\ PutLength(Len(content)) \in Seq(Byte) /\ Len(PutLength(Len(content))) \in Nat
         /\ Len(tag) \in Nat /\ Len(content) \in Nat
         /\ Tlv(tag, content) \in Seq(Byte)
         /\ Len(Tlv(tag, content)) = Len(tag) + Len(PutLength(Len(content))) + Len(content)
<1>. DEFINE p == PutLength(Len(content))
<1>1. p \in Seq(Byte) /\ Len(p) \in Nat /\ Len(tag) \in Nat /\ Len(content) \in Nat
  BY PutLengthType
<1>. HIDE DEF p
<1>2. tag \o p \in Seq(Byte) /\ Len(tag \o p) = Len(tag) + Len(p)
  BY <1>1, ConcatIs
<1>3. (tag \o p) \o content \in Seq(Byte) /\ Len((tag \o p) \o content) = Len(tag \o p) + Len(content)
  BY <1>2, ConcatIs
<1>4. Tlv(tag, content) = (tag \o p) \o content
  BY DEF Tlv, p
<1>. QED  BY <1>1, <1>2, <1>3, <1>4 DEF p

(* What the parser makes of the header of a tag whose code lies at the     *)
(* position of the level.                                                  *)
Reads(v, at, tag, content) ==
  /\ at = v.l + Len(tag) - 1 /\ at \in Nat /\ at < v.size
  /\ LengthInArray(v, at) /\ Bounded(v, at)
  /\ DataLen(v, at) = Len(content)
  /\ End(v, at) = v.l + Len(Tlv(tag, content)) /\ End(v, at) <= v.size
  /\ SubSeq(v.bytes, v.l + 1, at + 1) = tag
  /\ LiesAt(content, v.bytes, at + 1 + LengthLen(v, at))
  /\ Content(v, at) = content

(* Encoding and parsing a tag, whatever comes after it, is the identity.   *)
LEMMA TlvIsRead ==
  ASSUME NEW v, IsTurn(v), NEW tag \in Seq(Byte), tag # <<>>, IsTag(tag),
         NEW content \in Seq(Byte),
         v.l + Len(Tlv(tag, content)) <= v.size,
         LiesAt(Tlv(tag, content), v.bytes, v.l)
  PROVE  Reads(v, TagEnd(v), tag, content)
<1>. DEFINE at == TagEnd(v)
            p == PutLength(Len(content))
            len == Len(content)
            s == v.bytes
<1>1. /\ v.l \in Nat /\ v.size \in Nat /\ v.size <= Len(s) /\ s \in Seq(Byte) /\ Len(s) \in Nat
      /\ Len(s) <= MaxArray /\ MaxArray \in Nat /\ MaxArray < SizeT /\ SizeT \in Nat \ {0}
  <2>1. /\ 256 * Pow256[SizeBytes - 1] = SizeT /\ Pow256[SizeBytes - 1] \in Nat \ {0}
        /\ MaxArray \in Nat /\ 2 * MaxArray <= SizeT
    BY SizeTIs
  <2>2. MaxArray < SizeT /\ SizeT \in Nat \ {0}
    BY <2>1
  <2>. QED  BY <2>1, <2>2 DEF IsTurn, Levels
<1>2. /\ p \in Seq(Byte) /\ Len(p) \in Nat /\ Len(tag) \in Nat /\ Len(content) \in Nat
      /\ Len(Tlv(tag, content)) = Len(tag) + Len(p) + len
  BY TlvIs
<1>3. Len(tag) # 0
  OBVIOUS
<1>. HIDE DEF p, s
<1>4. LiesAt(tag \o p, s, v.l) /\ LiesAt(content, s, v.l + Len(tag \o p))
  <2>1. tag \o p \in Seq(Byte) /\ LiesAt((tag \o p) \o content, s, v.l)
    BY <1>2 DEF Tlv, p, s
  <2>. QED  BY <1>1, <2>1, HalvesLie
<1>5. LiesAt(tag, s, v.l) /\ LiesAt(p, s, v.l + Len(tag)) /\ Len(tag \o p) = Len(tag) + Len(p)
  BY <1>1, <1>2, <1>4, HalvesLie, ConcatIs
<1>6. v.l + Len(tag) + Len(p) + len <= v.size
  BY <1>1, <1>2
<1>7. at = v.l + Len(tag) - 1
  <2>1. v.l + Len(tag) <= v.size
    BY <1>1, <1>2, <1>6
  <2>. QED  BY <1>5, <2>1, TagIsRead DEF s
<1>. HIDE DEF at
<1>8. at \in Nat /\ at + 1 = v.l + Len(tag)
  BY <1>1, <1>2, <1>3, <1>7
<1>9. LengthInArray(v, at) /\ DataLen(v, at) = len /\ LengthLen(v, at) = Len(p)
  <2>1. len \in Nat /\ len <= MaxArray /\ at + 1 + Len(p) <= v.size
    BY <1>1, <1>2, <1>6, <1>8
  <2>2. LiesAt(p, s, at + 1)
    BY <1>5, <1>8
  <2>. HIDE DEF len
  <2>. QED  BY <1>8, <2>1, <2>2, LengthIsRead DEF p, s, len
<1>. HIDE DEF len
<1>10. /\ End(v, at) = v.l + Len(tag) + Len(p) + len /\ End(v, at) \in Nat
       /\ at + DataLen(v, at) + LengthLen(v, at) + 1 = End(v, at)
  <2>1. len \in Nat
    BY <1>2 DEF len
  <2>2. /\ End(v, at) = at + 1 + Len(p) + len
        /\ at + DataLen(v, at) + LengthLen(v, at) + 1 = at + len + Len(p) + 1
    BY <1>9 DEF End
  <2>3. /\ at + 1 + Len(p) + len = v.l + Len(tag) + Len(p) + len
        /\ at + len + Len(p) + 1 = v.l + Len(tag) + Len(p) + len
        /\ v.l + Len(tag) + Len(p) + len \in Nat
    <3>. DEFINE a == v.l + Len(tag)
                b == Len(p)
    <3>1. a \in Nat /\ b \in Nat /\ len \in Nat /\ at \in Nat /\ at + 1 = a
      BY <1>1, <1>2, <1>8, <2>1
    <3>. HIDE DEF a, b, len
    <3>2. at + 1 + b + len = a + b + len /\ at + len + b + 1 = a + b + len /\ a + b + len \in Nat
      BY <3>1
    <3>. QED  BY <3>2 DEF a, b
  <2>. QED  BY <2>2, <2>3
<1>11. End(v, at) = v.l + Len(Tlv(tag, content)) /\ End(v, at) <= v.size
  BY <1>1, <1>2, <1>6, <1>10 DEF len
<1>12. Bounded(v, at)
  <2>1. End(v, at) < SizeT
    BY <1>1, <1>10, <1>11
  <2>2. End(v, at) % SizeT = End(v, at)
    BY <1>1, <1>10, <2>1, Remainder
  <2>. QED  BY <1>10, <1>11, <2>2 DEF Bounded
<1>13. SubSeq(s, v.l + 1, at + 1) = tag
  <2>1. v.l + Len(tag) <= Len(s)
    BY <1>1, <1>2, <1>6 DEF len
  <2>2. SubSeq(s, v.l + 1, v.l + Len(tag)) = tag
    BY <1>1, <1>5, <2>1, SliceLies
  <2>. QED  BY <1>8, <2>2
<1>14. LiesAt(content, s, at + 1 + LengthLen(v, at))
  BY <1>1, <1>2, <1>4, <1>5, <1>8, <1>9
<1>15. Content(v, at) = content
  <2>. DEFINE k == at + 1 + LengthLen(v, at)
  <2>1. k \in Nat /\ k + 1 = at + LengthLen(v, at) + 2 /\ k + len = End(v, at) /\ k + len <= Len(s)
    <3>. DEFINE z == End(v, at)
    <3>1. /\ k = at + 1 + Len(p) /\ at + LengthLen(v, at) + 2 = at + Len(p) + 2
          /\ z = at + 1 + Len(p) + len
      BY <1>8, <1>9, <1>10
    <3>2. /\ at \in Nat /\ Len(p) \in Nat /\ len \in Nat /\ Len(s) \in Nat /\ v.size \in Nat
          /\ z <= v.size /\ v.size <= Len(s)
      BY <1>1, <1>2, <1>8, <1>11 DEF len
    <3>. HIDE DEF k, z
    <3>3. k \in Nat /\ k + 1 = at + Len(p) + 2 /\ k + len = z
      BY <3>1, <3>2
    <3>4. z <= Len(s)
      BY <3>2, <3>3
    <3>. QED  BY <3>1, <3>3, <3>4 DEF z
  <2>. HIDE DEF k
  <2>2. SubSeq(s, k + 1, k + len) = content
    BY <1>1, <1>14, <2>1, SliceLies DEF len, k
  <2>. QED  BY <2>1, <2>2 DEF Content, s
<1>16. at < v.size
  BY <1>1, <1>2, <1>3, <1>6, <1>8 DEF len
<1>. QED  BY <1>7, <1>8, <1>9, <1>11, <1>12, <1>13, <1>14, <1>15, <1>16 DEF Reads, at, s, len

-----------------------------------------------------------------------------
(* The content of a sequence is the codes of its tags, one after another.  *)

(* What the fold does with each tag determines what it makes of them. *)
Gathers(g, es, code, i) ==
  /\ g \in [0 .. Len(es) -> Seq(Byte)]
  /\ g[0] = <<>>
  /\ \A j \in 1 .. Len(es) :
       g[j] = IF es[j].parent = i THEN g[j - 1] \o code[j] ELSE g[j - 1]

LEMMA GatheredBy ==
  ASSUME NEW es \in Seq(CASNTag), NEW code, NEW i,
         \A j \in 1 .. Len(es) : es[j].parent = i => code[j] \in Seq(Byte),
         NEW g, Gathers(g, es, code, i)
  PROVE  Children(es, code, i) = g[Len(es)]
<1>1. PICK h : Gathered(h, es, code, i)
  BY ChildrenAre
<1>. DEFINE n == Len(es)
            T == {m \in 0 .. n : g[m] = h[m]}
<1>2. n \in Nat
  OBVIOUS
<1>3. 0 \in T
  BY <1>1, <1>2 DEF Gathered, Gathers
<1>4. ASSUME NEW m \in 0 .. n - 1, m \in T PROVE m + 1 \in T
  <2>1. m + 1 \in 1 .. n /\ m + 1 - 1 = m /\ g[m] = h[m] /\ m + 1 \in 0 .. n
    BY <1>2, <1>4
  <2>. HIDE DEF n
  <2>2. /\ g[m + 1] = IF es[m + 1].parent = i THEN g[m] \o code[m + 1] ELSE g[m]
        /\ h[m + 1] = IF es[m + 1].parent = i THEN h[m] \o code[m + 1] ELSE h[m]
    BY <1>1, <2>1 DEF Gathered, Gathers, n
  <2>. QED  BY <2>1, <2>2
<1>. HIDE DEF T, n
<1>5. n \in T
  <2>1. \A m \in 0 .. n - 1 : m \in T => m + 1 \in T
    BY <1>4
  <2>2. \A m \in 0 .. n : m \in T
    BY <1>2, <1>3, <2>1, Induction, Zenon
  <2>. QED  BY <1>2, <2>2
<1>. QED  BY <1>1, <1>5 DEF Gathered, T, n

(* How far the content of the tag i has come with each tag. *)
Part(es, code, i) == CHOOSE g : Gathered(g, es, code, i)

LEMMA PartIs ==
  ASSUME NEW es \in Seq(CASNTag), NEW code, NEW i,
         \A j \in 1 .. Len(es) : es[j].parent = i => code[j] \in Seq(Byte)
  PROVE  Gathered(Part(es, code, i), es, code, i)
<1>1. \E g : Gathered(g, es, code, i)
  BY ChildrenAre
<1>. QED  BY <1>1 DEF Part

(* The content only grows, and no tag leaves out what was there.           *)
LEMMA PartsGrow ==
  ASSUME NEW es \in Seq(CASNTag), NEW code, NEW i, NEW g, Gathered(g, es, code, i),
         \A j \in 1 .. Len(es) : es[j].parent = i => code[j] \in Seq(Byte),
         NEW m \in 0 .. Len(es)
  PROVE  \A k \in m .. Len(es) :
           /\ g[m] \in Seq(Byte) /\ g[k] \in Seq(Byte)
           /\ Len(g[m]) \in Nat /\ Len(g[k]) \in Nat /\ Len(g[m]) <= Len(g[k])
           /\ LiesAt(g[m], g[k], 0)
<1>. DEFINE n == Len(es)
            Is(k) == Len(g[m]) <= Len(g[k]) /\ LiesAt(g[m], g[k], 0)
            T == {k \in 0 .. n : k < m \/ Is(k)}
<1>1. n \in Nat /\ m \in 0 .. n
  OBVIOUS
<1>2. ASSUME NEW k \in 0 .. n PROVE g[k] \in Seq(Byte) /\ Len(g[k]) \in Nat
  BY DEF Gathered
<1>3. Is(m)
  BY <1>1, <1>2 DEF LiesAt
<1>. HIDE DEF Is, n
<1>4. 0 \in T
  BY <1>1, <1>3
<1>5. ASSUME NEW k \in 0 .. n - 1, k \in T PROVE k + 1 \in T
  <2>1. k + 1 \in 1 .. n /\ k + 1 - 1 = k /\ k + 1 \in 0 .. n /\ k \in 0 .. n
    BY <1>1
  <2>2. CASE k < m
    <3>1. k + 1 < m \/ k + 1 = m
      BY <1>1, <2>1, <2>2
    <3>. QED  BY <3>1, <2>1, <1>3
  <2>3. CASE ~(k < m)
    <3>1. Is(k)
      BY <1>5, <2>3
    <3>2. g[k + 1] = IF es[k + 1].parent = i THEN g[k] \o code[k + 1] ELSE g[k]
      BY <2>1 DEF Gathered, n
    <3>3. CASE es[k + 1].parent = i
      <4>1. g[k] \in Seq(Byte) /\ code[k + 1] \in Seq(Byte) /\ g[k + 1] = g[k] \o code[k + 1]
        BY <1>2, <2>1, <3>2, <3>3 DEF n
      <4>2. /\ Len(g[k + 1]) = Len(g[k]) + Len(code[k + 1])
            /\ Len(g[k]) \in Nat /\ Len(code[k + 1]) \in Nat
            /\ \A j \in 1 .. Len(g[k]) : g[k + 1][j] = g[k][j]
        <5>. DEFINE a == g[k]
                    b == code[k + 1]
        <5>1. a \in Seq(Byte) /\ b \in Seq(Byte) /\ g[k + 1] = a \o b
          BY <4>1
        <5>. HIDE DEF a, b
        <5>2. /\ Len(a \o b) = Len(a) + Len(b) /\ Len(a) \in Nat /\ Len(b) \in Nat
              /\ \A j \in 1 .. Len(a) : (a \o b)[j] = a[j]
          BY <5>1, ConcatIs
        <5>. QED  BY <5>1, <5>2 DEF a, b
      <4>3. Len(g[m]) \in Nat
        BY <1>1, <1>2
      <4>4. Len(g[m]) <= Len(g[k]) /\ \A j \in 1 .. Len(g[m]) : g[k][0 + j] = g[m][j]
        BY <3>1 DEF Is, LiesAt
      <4>5. Len(g[m]) <= Len(g[k + 1])
        <5>. DEFINE x == Len(g[m])
                    y == Len(g[k])
                    z == Len(g[k + 1])
                    u == Len(code[k + 1])
        <5>1. x \in Nat /\ y \in Nat /\ u \in Nat /\ z = y + u /\ x <= y
          BY <4>2, <4>3, <4>4
        <5>. HIDE DEF x, y, z, u
        <5>2. x <= z
          BY <5>1
        <5>. QED  BY <5>2 DEF x, z
      <4>6. ASSUME NEW j \in 1 .. Len(g[m]) PROVE g[k + 1][0 + j] = g[m][j]
        <5>1. j \in 1 .. Len(g[k]) /\ 0 + j = j
          BY <4>2, <4>3, <4>4
        <5>. QED  BY <4>2, <4>4, <5>1
      <4>7. Is(k + 1)
        BY <4>5, <4>6 DEF Is, LiesAt
      <4>. QED  BY <2>1, <4>7
    <3>4. CASE es[k + 1].parent # i
      <4>1. Is(k + 1)
        BY <3>1, <3>2, <3>4 DEF Is
      <4>. QED  BY <2>1, <4>1
    <3>. QED  BY <3>3, <3>4
  <2>. QED  BY <2>2, <2>3
<1>. HIDE DEF T
<1>6. \A k \in 0 .. n : k \in T
  <2>1. \A k \in 0 .. n - 1 : k \in T => k + 1 \in T
    BY <1>5
  <2>. QED  BY <1>1, <1>4, <2>1, Induction, Zenon
<1>7. ASSUME NEW k \in m .. n
      PROVE  /\ g[m] \in Seq(Byte) /\ g[k] \in Seq(Byte)
             /\ Len(g[m]) \in Nat /\ Len(g[k]) \in Nat /\ Is(k)
  <2>1. k \in 0 .. n /\ ~(k < m)
    BY <1>1
  <2>2. Is(k)
    BY <1>6, <2>1 DEF T
  <2>. QED  BY <1>1, <1>2, <2>1, <2>2
<1>. QED  BY <1>7 DEF Is, n

(* Without a tag of it in between, it stays the same.                      *)
LEMMA PartsStay ==
  ASSUME NEW es \in Seq(CASNTag), NEW code, NEW i, NEW g, Gathered(g, es, code, i),
         NEW m \in 0 .. Len(es), NEW k \in m .. Len(es),
         \A j \in m + 1 .. k : es[j].parent # i
  PROVE  g[k] = g[m]
<1>. DEFINE n == Len(es)
            T == {j \in 0 .. k : j < m \/ g[j] = g[m]}
<1>1. n \in Nat /\ m \in 0 .. n /\ k \in m .. n /\ k \in Nat
  OBVIOUS
<1>. HIDE DEF n
<1>2. 0 \in T
  BY <1>1
<1>3. ASSUME NEW j \in 0 .. k - 1, j \in T PROVE j + 1 \in T
  <2>1. j + 1 \in 1 .. n /\ j + 1 - 1 = j /\ j + 1 \in 0 .. k
    BY <1>1
  <2>2. CASE j < m
    <3>1. j + 1 < m \/ j + 1 = m
      BY <1>1, <2>1, <2>2
    <3>. QED  BY <3>1, <2>1
  <2>3. CASE ~(j < m)
    <3>1. g[j] = g[m]
      BY <1>3, <2>3
    <3>2. g[j + 1] = IF es[j + 1].parent = i THEN g[j] \o code[j + 1] ELSE g[j]
      BY <2>1 DEF Gathered, n
    <3>3. j + 1 \in m + 1 .. k
      BY <1>1, <2>3
    <3>. QED  BY <2>1, <3>1, <3>2, <3>3
  <2>. QED  BY <2>2, <2>3
<1>. HIDE DEF T
<1>4. k \in T
  <2>1. \A j \in 0 .. k - 1 : j \in T => j + 1 \in T
    BY <1>3
  <2>2. \A j \in 0 .. k : j \in T
    BY <1>1, <1>2, <2>1, Induction, Zenon
  <2>. QED  BY <1>1, <2>2
<1>. QED  BY <1>1, <1>4 DEF T

(* The tag j is the next one in the tag i, after the tag m. *)
IsNext(es, code, i, g, m, j) ==
  /\ j \in m + 1 .. Len(es) /\ es[j].parent = i /\ g[j] = g[m] \o code[j]
  /\ \A k \in m + 1 .. j - 1 : es[k].parent # i

(* The content grows with the next tag of it. *)
LEMMA NextChild ==
  ASSUME NEW es \in Seq(CASNTag), NEW code, NEW i, NEW g, Gathered(g, es, code, i),
         NEW m \in 0 .. Len(es), Len(g[m]) < Len(g[Len(es)])
  PROVE  \E j : IsNext(es, code, i, g, m, j)
<1>. DEFINE n == Len(es)
            S == {j \in m + 1 .. n : es[j].parent = i}
<1>1. n \in Nat /\ m \in 0 .. n /\ n \in m .. n
  OBVIOUS
<1>2. S # {}
  <2>. SUFFICES ASSUME S = {} PROVE FALSE
    OBVIOUS
  <2>1. \A j \in m + 1 .. n : es[j].parent # i
    OBVIOUS
  <2>2. g[n] = g[m]
    <3>. HIDE DEF S
    <3>. QED  BY <1>1, <2>1, PartsStay
  <2>3. g[m] \in Seq(Byte)
    BY <1>1 DEF Gathered
  <2>4. Len(g[m]) < Len(g[m]) /\ Len(g[m]) \in Nat
    BY <2>2, <2>3
  <2>. DEFINE x == Len(g[m])
  <2>. HIDE DEF x, S
  <2>5. x < x /\ x \in Nat
    BY <2>4 DEF x
  <2>. QED  BY <2>5
<1>3. S \in SUBSET Nat
  BY <1>1
<1>. DEFINE j == Min(S)
<1>4. j \in S /\ \A y \in S : j <= y
  <2>. HIDE DEF S
  <2>. QED  BY <1>2, <1>3, MinOf
<1>. HIDE DEF j
<1>5. j \in m + 1 .. n /\ es[j].parent = i
  BY <1>4
<1>6. \A k \in m + 1 .. j - 1 : es[k].parent # i
  <2>. SUFFICES ASSUME NEW k \in m + 1 .. j - 1, es[k].parent = i PROVE FALSE
    OBVIOUS
  <2>1. k \in S /\ k < j
    BY <1>1, <1>5
  <2>2. j <= k /\ k \in Nat /\ j \in Nat
    BY <1>1, <1>4, <1>5, <2>1
  <2>. HIDE DEF S
  <2>. QED  BY <2>1, <2>2
<1>7. g[j] = g[m] \o code[j]
  <2>1. j - 1 \in m .. n /\ j \in 1 .. n
    BY <1>1, <1>5
  <2>2. g[j - 1] = g[m]
    BY <2>1, <1>6, PartsStay
  <2>. QED  BY <1>5, <2>1, <2>2 DEF Gathered
<1>8. IsNext(es, code, i, g, m, j)
  BY <1>5, <1>6, <1>7 DEF IsNext
<1>. QED  BY <1>8

(* None of its tags comes after it has all been there. *)
LEMMA NoMoreChildren ==
  ASSUME NEW es \in Seq(CASNTag), NEW code, NEW i, NEW g, Gathered(g, es, code, i),
         \A j \in 1 .. Len(es) : es[j].parent = i => code[j] \in Seq(Byte) /\ Len(code[j]) > 0,
         NEW m \in 0 .. Len(es), Len(g[m]) >= Len(g[Len(es)])
  PROVE  \A j \in m + 1 .. Len(es) : es[j].parent # i
<1>. SUFFICES ASSUME NEW j \in m + 1 .. Len(es), es[j].parent = i PROVE FALSE
  OBVIOUS
<1>. DEFINE n == Len(es)
<1>1. /\ n \in Nat /\ j - 1 \in m .. n /\ j \in 1 .. n /\ j \in 0 .. n /\ n \in j .. n
      /\ m \in 0 .. n
  OBVIOUS
<1>. DEFINE a == Len(g[m])
            b == Len(g[j - 1])
            c == Len(g[j])
            d == Len(g[n])
<1>2. \A k \in 1 .. n : es[k].parent = i => code[k] \in Seq(Byte)
  OBVIOUS
<1>3. a \in Nat /\ b \in Nat /\ a <= b /\ g[j - 1] \in Seq(Byte)
  <2>. HIDE DEF n
  <2>. QED  BY <1>1, <1>2, PartsGrow DEF n
<1>4. c \in Nat /\ d \in Nat /\ c <= d
  <2>. HIDE DEF n
  <2>. QED  BY <1>1, <1>2, PartsGrow DEF n
<1>5. code[j] \in Seq(Byte) /\ Len(code[j]) > 0
  BY <1>1
<1>6. g[j] = g[j - 1] \o code[j]
  BY <1>1 DEF Gathered
<1>7. c = b + Len(code[j]) /\ Len(code[j]) \in Nat
  <2>. DEFINE x == g[j - 1]
              y == code[j]
  <2>1. x \in Seq(Byte) /\ y \in Seq(Byte) /\ g[j] = x \o y
    BY <1>3, <1>5, <1>6
  <2>. HIDE DEF x, y
  <2>2. Len(x \o y) = Len(x) + Len(y) /\ Len(y) \in Nat
    BY <2>1, ConcatIs
  <2>. QED  BY <2>1, <2>2 DEF x, y
<1>8. a >= d
  OBVIOUS
<1>. DEFINE u == Len(code[j])
<1>9. u \in Nat /\ u > 0 /\ c = b + u
  BY <1>5, <1>7
<1>. HIDE DEF a, b, c, d, u
<1>. QED  BY <1>3, <1>4, <1>8, <1>9

(* One tag more. *)
LEMMA ChildrenOfMore ==
  ASSUME NEW es \in Seq(CASNTag), NEW e \in CASNTag, NEW code, NEW more, NEW i,
         \A j \in 1 .. Len(es) : es[j].parent = i => more[j] = code[j] /\ code[j] \in Seq(Byte),
         e.parent = i => more[Len(es) + 1] \in Seq(Byte)
  PROVE  Children(Append(es, e), more, i) =
           IF e.parent = i THEN Children(es, code, i) \o more[Len(es) + 1]
           ELSE Children(es, code, i)
<1>. DEFINE n == Len(es)
            ds == Append(es, e)
<1>1. /\ n \in Nat /\ ds \in Seq(CASNTag) /\ Len(ds) = n + 1 /\ ds[n + 1] = e
      /\ \A j \in 1 .. n : ds[j] = es[j]
  OBVIOUS
<1>. HIDE DEF ds, n
<1>2. \A j \in 1 .. Len(ds) : ds[j].parent = i => more[j] \in Seq(Byte)
  <2>1. \A j \in 1 .. n + 1 : j \in 1 .. n \/ j = n + 1
    BY <1>1
  <2>. QED  BY <1>1, <2>1 DEF n
<1>3. PICK h : Gathered(h, ds, more, i)
  BY <1>1, <1>2, ChildrenAre
<1>. DEFINE g == [k \in 0 .. n |-> h[k]]
<1>4. h \in [0 .. n + 1 -> Seq(Byte)]
  BY <1>1, <1>3 DEF Gathered
<1>5. Gathers(g, es, code, i)
  <2>1. g \in [0 .. n -> Seq(Byte)]
    BY <1>1, <1>4
  <2>2. g[0] = <<>>
    BY <1>1, <1>3 DEF Gathered
  <2>3. ASSUME NEW j \in 1 .. n
        PROVE  g[j] = IF es[j].parent = i THEN g[j - 1] \o code[j] ELSE g[j - 1]
    <3>1. j \in 1 .. n + 1 /\ j \in 0 .. n /\ j - 1 \in 0 .. n
      BY <1>1
    <3>2. h[j] = IF ds[j].parent = i THEN h[j - 1] \o more[j] ELSE h[j - 1]
      BY <1>1, <1>3, <3>1 DEF Gathered
    <3>3. ds[j] = es[j] /\ (es[j].parent = i => more[j] = code[j])
      BY <1>1 DEF n
    <3>4. g[j] = h[j] /\ g[j - 1] = h[j - 1]
      BY <3>1
    <3>. HIDE DEF g
    <3>. QED  BY <3>2, <3>3, <3>4
  <2>. HIDE DEF g
  <2>. QED  BY <2>1, <2>2, <2>3 DEF Gathers, n
<1>6. Children(es, code, i) = h[n]
  <2>1. \A j \in 1 .. Len(es) : es[j].parent = i => code[j] \in Seq(Byte)
    OBVIOUS
  <2>2. g[n] = h[n]
    BY <1>1
  <2>. HIDE DEF g
  <2>. QED  BY <1>5, <2>1, <2>2, GatheredBy DEF n
<1>7. Children(ds, more, i) = h[n + 1]
  BY <1>1, <1>3 DEF Gathered
<1>8. h[n + 1] = IF e.parent = i THEN h[n] \o more[n + 1] ELSE h[n]
  <2>1. n + 1 \in 1 .. Len(ds) /\ n + 1 - 1 = n
    BY <1>1
  <2>. QED  BY <1>1, <1>3, <2>1 DEF Gathered
<1>. QED  BY <1>6, <1>7, <1>8 DEF n, ds

(* No tags. *)
LEMMA ChildrenOfNone ==
  ASSUME NEW code, NEW i
  PROVE  Children(<<>>, code, i) = <<>>
<1>. DEFINE es == <<>>
            g == [k \in 0 .. 0 |-> <<>>]
<1>1. es \in Seq(CASNTag) /\ Len(es) = 0 /\ 1 .. Len(es) = {}
  OBVIOUS
<1>2. g \in [0 .. 0 -> Seq(Byte)] /\ g[0] = <<>>
  <2>1. <<>> \in Seq(Byte)
    OBVIOUS
  <2>. QED  BY <2>1
<1>. HIDE DEF es, g
<1>3. Gathers(g, es, code, i)
  BY <1>1, <1>2 DEF Gathers
<1>4. Children(es, code, i) = g[Len(es)]
  BY <1>1, <1>3, GatheredBy
<1>. QED  BY <1>1, <1>2, <1>4 DEF es

(* A tree has one code. *)
LEMMA CodeIsUnique ==
  ASSUME NEW es \in Seq(CASNTag), \A i \in DOMAIN es : es[i].parent < i,
         NEW c, IsCode(es, c), NEW d, IsCode(es, d)
  PROVE  \A i \in 0 .. Len(es) : c[i] = d[i]
<1>. DEFINE n == Len(es)
            T == {m \in 0 .. n + 1 : \A i \in 0 .. n : n - m < i => c[i] = d[i]}
<1>1. n \in Nat
  OBVIOUS
<1>2. \A i \in 0 .. n : c[i] = CodeOf(es, c, i) /\ d[i] = CodeOf(es, d, i)
  BY DEF IsCode
<1>3. \A i \in 0 .. n : c[i] \in Seq(Byte)
  BY CodesType
<1>4. 0 \in T
  BY <1>1
<1>5. ASSUME NEW m \in 0 .. n, m \in T PROVE m + 1 \in T
  <2>1. ASSUME NEW i \in 0 .. n, n - (m + 1) < i PROVE c[i] = d[i]
    <3>1. ASSUME NEW j \in 1 .. n, es[j].parent = i PROVE c[j] = d[j] /\ c[j] \in Seq(Byte)
      <4>1. i < j
        BY <3>1
      <4>2. n - m < j /\ j \in 0 .. n
        BY <1>1, <2>1, <4>1
      <4>. QED  BY <1>3, <1>5, <4>2
    <3>2. CodeOf(es, c, i) = CodeOf(es, d, i)
      BY <3>1, CodeAgrees
    <3>. QED  BY <1>2, <3>2
  <2>2. m + 1 \in 0 .. n + 1
    BY <1>1
  <2>. QED  BY <2>1, <2>2
<1>. HIDE DEF T
<1>6. n + 1 \in T
  <2>. DEFINE k == n + 1
  <2>1. k \in Nat /\ k - 1 = n /\ k \in 0 .. k
    BY <1>1
  <2>2. \A m \in 0 .. k - 1 : m \in T => m + 1 \in T
    <3>. HIDE DEF n, k
    <3>. QED  BY <1>5, <2>1
  <2>. HIDE DEF n, k
  <2>3. \A m \in 0 .. k : m \in T
    BY <1>4, <2>1, <2>2, Induction, Zenon
  <2>4. k \in T
    BY <2>1, <2>3
  <2>. QED  BY <2>4 DEF k
<1>7. \A i \in 0 .. n : n - (n + 1) < i
  BY <1>1
<1>. QED  BY <1>6, <1>7 DEF T

(* The encoding is the code at the root. *)
LEMMA EncodingOf ==
  ASSUME NEW es \in Seq(CASNTag), \A i \in DOMAIN es : es[i].parent < i,
         NEW c, IsCode(es, c)
  PROVE  Encoding(es) = c[0]
<1>. DEFINE d == CHOOSE code : IsCode(es, code)
<1>1. IsCode(es, d)
  BY CodeExists
<1>2. 0 \in 0 .. Len(es)
  OBVIOUS
<1>. HIDE DEF d
<1>3. c[0] = d[0]
  BY <1>1, <1>2, CodeIsUnique
<1>. QED  BY <1>3, EncodingIs DEF d

-----------------------------------------------------------------------------
(* The tree before it is encoded: legible, and each tag before those in it. *)

(* What a tree must be for its encoding to be read: its tags are tags, a   *)
(* sequence has no content of its own, and what could be taken for an end  *)
(* of contents is not empty.                                               *)
Legible(es) ==
  \A k \in DOMAIN es :
    /\ IsTag(es[k].tag)
    /\ IsSequence(es[k]) => es[k].content = <<>>
    /\ es[k].tag[1] = 0 =>
         IF IsSequence(es[k]) THEN \E j \in DOMAIN es : es[j].parent = k
         ELSE es[k].content # <<>>

(* The tags are in the order in which Parse finds them. *)
DepthFirst(es) ==
  /\ \A k, j \in DOMAIN es : k < j /\ es[j].parent < k => es[j].parent <= es[k].parent
  /\ \A k \in DOMAIN es : es[k].parent # 0 => IsSequence(es[es[k].parent])

(* No tag was parsed again. *)
Unforced(es) == \A k \in DOMAIN es : ~es[k].forced

IsTree(es) == es \in Seq(CASNTag) /\ \A i \in DOMAIN es : es[i].parent < i

(* These tags, whose codes are c, were encoded into these bytes. *)
IsWritten(w, c, bytes) ==
  /\ IsTree(w) /\ IsCode(w, c) /\ c[0] = bytes
  /\ Legible(w) /\ (Unforced(w) => DepthFirst(w))

(* The tags ds are those of es, in one more. *)
Shifted(ds, es, outer) ==
  /\ ds \in Seq(CASNTag) /\ Len(ds) = Len(es) + 1
  /\ ds[1] = outer /\ outer.parent = 0 /\ outer.tag \in Seq(Byte)
  /\ \A j \in 1 .. Len(es) :
       /\ ds[j + 1].parent = es[j].parent + 1
       /\ ds[j + 1].tag = es[j].tag /\ ds[j + 1].content = es[j].content
       /\ ds[j + 1].forced = es[j].forced

(* Their codes. *)
ShiftedCode(es, c, code) == [i \in 0 .. Len(es) + 1 |-> IF i <= 1 THEN code ELSE c[i - 1]]

LEMMA TreeIs ==
  ASSUME NEW es, IsTree(es)
  PROVE  /\ es \in Seq(CASNTag) /\ Len(es) \in Nat /\ DOMAIN es = 1 .. Len(es)
         /\ \A j \in 1 .. Len(es) :
              /\ es[j] \in CASNTag /\ es[j].parent \in Nat /\ es[j].parent < j
              /\ es[j].tag \in Seq(Byte) /\ es[j].tag # <<>> /\ es[j].content \in Seq(Byte)
              /\ es[j].forced \in BOOLEAN
<1>1. es \in Seq(CASNTag) /\ Len(es) \in Nat /\ DOMAIN es = 1 .. Len(es)
      /\ \A j \in 1 .. Len(es) : es[j] \in CASNTag /\ es[j].parent < j
  BY DEF IsTree
<1>2. \A e \in CASNTag : /\ e.parent \in Nat /\ e.tag \in Seq(Byte) /\ e.tag # <<>>
                         /\ e.content \in Seq(Byte) /\ e.forced \in BOOLEAN
  BY DEF CASNTag
<1>. QED  BY <1>1, <1>2

LEMMA ChildrenOfShifted ==
  ASSUME NEW es, IsTree(es), NEW c, \A i \in 0 .. Len(es) : c[i] \in Seq(Byte),
         NEW ds, NEW outer, Shifted(ds, es, outer), NEW code \in Seq(Byte)
  PROVE  /\ Children(ds, ShiftedCode(es, c, code), 0) = code
         /\ \A q \in 0 .. Len(es) :
              Children(ds, ShiftedCode(es, c, code), q + 1) = Children(es, c, q)
<1>. DEFINE n == Len(es)
            d == ShiftedCode(es, c, code)
<1>1. /\ es \in Seq(CASNTag) /\ n \in Nat
      /\ \A j \in 1 .. n : es[j].parent \in Nat /\ es[j].parent < j
  BY TreeIs
<1>2. /\ ds \in Seq(CASNTag) /\ Len(ds) = n + 1 /\ ds[1].parent = 0
      /\ \A j \in 1 .. n : ds[j + 1].parent = es[j].parent + 1
  BY DEF Shifted
<1>. HIDE DEF n
<1>3. /\ d[0] = code /\ d[1] = code /\ \A j \in 1 .. n : d[j + 1] = c[j]
      /\ \A i \in 0 .. n + 1 : d[i] \in Seq(Byte)
  <2>1. d = [i \in 0 .. n + 1 |-> IF i <= 1 THEN code ELSE c[i - 1]]
    BY DEF ShiftedCode, n
  <2>. HIDE DEF d
  <2>2. d[0] = code /\ d[1] = code
    BY <1>1, <2>1
  <2>3. ASSUME NEW j \in 1 .. n PROVE d[j + 1] = c[j]
    <3>1. j + 1 \in 0 .. n + 1 /\ ~(j + 1 <= 1) /\ j + 1 - 1 = j
      BY <1>1
    <3>. QED  BY <2>1, <3>1
  <2>4. ASSUME NEW i \in 0 .. n + 1 PROVE d[i] \in Seq(Byte)
    <3>1. CASE i <= 1
      BY <2>1, <3>1
    <3>2. CASE ~(i <= 1)
      <4>1. i - 1 \in 0 .. n
        BY <1>1, <3>2
      <4>2. c[i - 1] \in Seq(Byte)
        BY <4>1 DEF n
      <4>. QED  BY <2>1, <3>2, <4>2
    <3>. QED  BY <3>1, <3>2
  <2>. QED  BY <2>2, <2>3, <2>4
<1>. HIDE DEF d
<1>4. \A k \in 1 .. Len(ds) : d[k] \in Seq(Byte)
  BY <1>1, <1>2, <1>3
<1>5. ASSUME NEW k \in 1 .. n + 1, k # 1
      PROVE  k - 1 \in 1 .. n /\ k - 1 + 1 = k /\ k - 1 \in 0 .. n + 1 /\ k \in 0 .. n + 1
  BY <1>1, <1>5
<1>6. Children(ds, d, 0) = code
  <2>. DEFINE h == [k \in 0 .. n + 1 |-> IF k = 0 THEN <<>> ELSE code]
  <2>1. h \in [0 .. n + 1 -> Seq(Byte)] /\ h[0] = <<>> /\ \A k \in 1 .. n + 1 : h[k] = code
    <3>1. <<>> \in Seq(Byte)
      OBVIOUS
    <3>. QED  BY <1>1, <3>1
  <2>. HIDE DEF h
  <2>2. ASSUME NEW k \in 1 .. n + 1
        PROVE  h[k] = IF ds[k].parent = 0 THEN h[k - 1] \o d[k] ELSE h[k - 1]
    <3>1. CASE k = 1
      <4>1. h[1] = code /\ h[0] = <<>> /\ d[1] = code /\ ds[1].parent = 0 /\ 1 - 1 = 0
        BY <1>1, <1>2, <1>3, <2>1
      <4>2. <<>> \o code = code
        OBVIOUS
      <4>. QED  BY <3>1, <4>1, <4>2
    <3>2. CASE k # 1
      <4>1. k - 1 \in 1 .. n /\ k - 1 + 1 = k
        BY <3>2, <1>5
      <4>2. ds[k].parent = es[k - 1].parent + 1 /\ es[k - 1].parent \in Nat
        BY <1>1, <1>2, <4>1
      <4>3. ds[k].parent # 0
        BY <4>2
      <4>4. h[k] = code /\ h[k - 1] = code
        <5>1. k - 1 \in 1 .. n + 1
          BY <1>1, <4>1
        <5>. QED  BY <2>1, <5>1
      <4>. QED  BY <4>3, <4>4
    <3>. QED  BY <3>1, <3>2
  <2>3. Gathers(h, ds, d, 0)
    BY <1>2, <2>1, <2>2 DEF Gathers
  <2>4. Children(ds, d, 0) = h[Len(ds)]
    BY <1>2, <1>4, <2>3, GatheredBy
  <2>5. n + 1 \in 1 .. n + 1
    BY <1>1
  <2>. QED  BY <1>2, <2>1, <2>4, <2>5
<1>7. ASSUME NEW q \in 0 .. n PROVE Children(ds, d, q + 1) = Children(es, c, q)
  <2>1. \A j \in 1 .. n : c[j] \in Seq(Byte)
    BY <1>1 DEF n
  <2>2. PICK g : Gathered(g, es, c, q)
    BY <1>1, <2>1, ChildrenAre DEF n
  <2>3. /\ g \in [0 .. n -> Seq(Byte)] /\ g[0] = <<>> /\ Children(es, c, q) = g[n]
        /\ \A j \in 1 .. n : g[j] = IF es[j].parent = q THEN g[j - 1] \o c[j] ELSE g[j - 1]
    BY <2>2 DEF Gathered, n
  <2>. DEFINE h == [k \in 0 .. n + 1 |-> IF k = 0 THEN <<>> ELSE g[k - 1]]
  <2>4. h \in [0 .. n + 1 -> Seq(Byte)] /\ h[0] = <<>> /\ \A k \in 1 .. n + 1 : h[k] = g[k - 1]
    <3>1. <<>> \in Seq(Byte)
      OBVIOUS
    <3>2. ASSUME NEW k \in 0 .. n + 1, k # 0 PROVE g[k - 1] \in Seq(Byte)
      <4>1. k - 1 \in 0 .. n
        BY <1>1, <3>2
      <4>. QED  BY <2>3, <4>1
    <3>. QED  BY <1>1, <3>1, <3>2
  <2>. HIDE DEF h
  <2>5. ASSUME NEW k \in 1 .. n + 1
        PROVE  h[k] = IF ds[k].parent = q + 1 THEN h[k - 1] \o d[k] ELSE h[k - 1]
    <3>1. CASE k = 1
      <4>1. h[1] = g[0] /\ h[0] = <<>> /\ ds[1].parent = 0 /\ 1 - 1 = 0
        BY <1>1, <1>2, <2>4
      <4>2. 0 # q + 1
        BY <1>1
      <4>. QED  BY <3>1, <4>1, <4>2, <2>3
    <3>2. CASE k # 1
      <4>. DEFINE j == k - 1
      <4>1. j \in 1 .. n /\ j + 1 = k
        BY <3>2, <1>5
      <4>2. j \in 1 .. n + 1 /\ j - 1 \in 0 .. n
        BY <1>1, <4>1
      <4>. HIDE DEF j
      <4>3. ds[k].parent = es[j].parent + 1 /\ d[k] = c[j] /\ es[j].parent \in Nat
        BY <1>1, <1>2, <1>3, <4>1
      <4>4. ds[k].parent = q + 1 <=> es[j].parent = q
        BY <1>1, <4>3
      <4>5. h[k] = g[j] /\ h[j] = g[j - 1]
        BY <2>4, <4>2 DEF j
      <4>6. g[j] = IF es[j].parent = q THEN g[j - 1] \o c[j] ELSE g[j - 1]
        BY <2>3, <4>1
      <4>. QED  BY <4>3, <4>4, <4>5, <4>6 DEF j
    <3>. QED  BY <3>1, <3>2
  <2>6. Gathers(h, ds, d, q + 1)
    BY <1>2, <2>4, <2>5 DEF Gathers
  <2>7. Children(ds, d, q + 1) = h[Len(ds)]
    BY <1>2, <1>4, <2>6, GatheredBy
  <2>. DEFINE z == n + 1
  <2>8. z \in 1 .. n + 1 /\ z - 1 = n
    BY <1>1
  <2>. HIDE DEF z
  <2>9. Len(ds) = n + 1 /\ Children(es, c, q) = g[n]
    BY <1>2, <2>3
  <2>10. h[z] = g[z - 1]
    BY <2>4, <2>8
  <2>. QED  BY <2>7, <2>8, <2>9, <2>10 DEF z
<1>. QED  BY <1>6, <1>7 DEF n, d

(* The codes of the tags in one more are those, and the one around them.   *)
LEMMA ShiftedIsCode ==
  ASSUME NEW es, IsTree(es), NEW c, IsCode(es, c),
         NEW ds, NEW outer, Shifted(ds, es, outer),
         NEW content \in Seq(Byte),
         IF IsSequence(outer) THEN content = c[0] ELSE es = <<>> /\ content = outer.content
  PROVE  IsCode(ds, ShiftedCode(es, c, Tlv(outer.tag, content)))
<1>. DEFINE n == Len(es)
            code == Tlv(outer.tag, content)
            d == ShiftedCode(es, c, code)
<1>1. /\ es \in Seq(CASNTag) /\ n \in Nat
  BY TreeIs
<1>2. /\ Len(ds) = n + 1 /\ ds[1] = outer /\ outer.tag \in Seq(Byte)
      /\ \A j \in 1 .. n : /\ ds[j + 1].tag = es[j].tag /\ ds[j + 1].content = es[j].content
                           /\ ds[j + 1].forced = es[j].forced
  BY DEF Shifted
<1>3. \A i \in 0 .. n : c[i] \in Seq(Byte) /\ c[i] = CodeOf(es, c, i)
  <2>1. \A i \in 0 .. n : c[i] \in Seq(Byte)
    BY CodesType DEF IsTree
  <2>. QED  BY <2>1 DEF IsCode
<1>4. code \in Seq(Byte)
  BY <1>2, TlvType
<1>. HIDE DEF n, code
<1>5. Children(ds, d, 0) = code /\ \A q \in 0 .. n : Children(ds, d, q + 1) = Children(es, c, q)
  <2>1. \A i \in 0 .. Len(es) : c[i] \in Seq(Byte)
    BY <1>3 DEF n
  <2>. QED  BY <1>4, <2>1, ChildrenOfShifted DEF n
<1>6. d = [i \in 0 .. n + 1 |-> IF i <= 1 THEN code ELSE c[i - 1]]
  BY DEF ShiftedCode, n
<1>. HIDE DEF d
<1>7. ASSUME NEW i \in 0 .. n + 1 PROVE d[i] = CodeOf(ds, d, i)
  <2>1. CASE i = 0
    BY <2>1, <1>1, <1>5, <1>6 DEF CodeOf
  <2>2. CASE i = 1
    <3>1. d[1] = code
      BY <1>1, <1>6
    <3>2. CodeOf(ds, d, 1) = Tlv(outer.tag, IF IsSequence(outer) THEN Children(ds, d, 1) ELSE outer.content)
      BY <1>2 DEF CodeOf
    <3>3. Children(ds, d, 1) = Children(es, c, 0)
      <4>1. 0 \in 0 .. n /\ 0 + 1 = 1
        BY <1>1
      <4>. QED  BY <1>5, <4>1
    <3>4. c[0] = Children(es, c, 0)
      <4>1. 0 \in 0 .. n
        BY <1>1
      <4>. QED  BY <1>3, <4>1 DEF CodeOf
    <3>5. content = IF IsSequence(outer) THEN Children(ds, d, 1) ELSE outer.content
      BY <3>3, <3>4
    <3>. QED  BY <2>2, <3>1, <3>2, <3>5 DEF code
  <2>3. CASE i # 0 /\ i # 1
    <3>. DEFINE k == i - 1
    <3>1. k \in 1 .. n /\ k \in 0 .. n /\ k + 1 = i /\ ~(i <= 1) /\ k # 0
      BY <1>1, <2>3
    <3>. HIDE DEF k
    <3>2. d[i] = c[k]
      BY <1>6, <3>1 DEF k
    <3>3. c[k] = Tlv(es[k].tag, IF IsSequence(es[k]) THEN Children(es, c, k) ELSE es[k].content)
      BY <1>3, <3>1 DEF CodeOf
    <3>4. CodeOf(ds, d, i) = Tlv(ds[i].tag, IF IsSequence(ds[i]) THEN Children(ds, d, i) ELSE ds[i].content)
      BY <2>3 DEF CodeOf
    <3>5. ds[i].tag = es[k].tag /\ ds[i].content = es[k].content /\ ds[i].forced = es[k].forced
      BY <1>2, <3>1
    <3>6. IsSequence(ds[i]) = IsSequence(es[k])
      BY <3>5 DEF IsSequence
    <3>7. Children(ds, d, i) = Children(es, c, k)
      BY <1>5, <3>1
    <3>. QED  BY <3>2, <3>3, <3>4, <3>5, <3>6, <3>7
  <2>. QED  BY <2>1, <2>2, <2>3
<1>8. d = [i \in 0 .. Len(ds) |-> CodeOf(ds, d, i)]
  BY <1>2, <1>6, <1>7
<1>. QED  BY <1>8 DEF IsCode, d, code

(* They are a tree in the same order, that can be read. *)
LEMMA ShiftedIsTree ==
  ASSUME NEW es, IsTree(es), Legible(es), Unforced(es) => DepthFirst(es),
         NEW ds, NEW outer, Shifted(ds, es, outer),
         IsTag(outer.tag), outer.tag[1] # 0, ~outer.forced,
         IF IsSequence(outer) THEN outer.content = <<>> ELSE es = <<>>
  PROVE  /\ IsTree(ds) /\ Legible(ds) /\ (Unforced(ds) => DepthFirst(ds))
<1>. DEFINE n == Len(es)
<1>1. /\ es \in Seq(CASNTag) /\ n \in Nat /\ DOMAIN es = 1 .. n
      /\ \A j \in 1 .. n : es[j] \in CASNTag /\ es[j].parent \in Nat /\ es[j].parent < j
  BY TreeIs
<1>2. /\ ds \in Seq(CASNTag) /\ Len(ds) = n + 1 /\ ds[1] = outer /\ outer.parent = 0
      /\ \A j \in 1 .. n :
           /\ ds[j + 1].parent = es[j].parent + 1
           /\ ds[j + 1].tag = es[j].tag /\ ds[j + 1].content = es[j].content
           /\ ds[j + 1].forced = es[j].forced
  BY DEF Shifted
<1>. HIDE DEF n
<1>3. DOMAIN ds = 1 .. n + 1
  BY <1>1, <1>2
<1>4. ASSUME NEW k \in 1 .. n + 1
      PROVE  k = 1 \/ (k - 1 \in 1 .. n /\ k - 1 + 1 = k)
  BY <1>1
<1>5. ASSUME NEW j \in 1 .. n
      PROVE  /\ j + 1 \in 1 .. n + 1 /\ j + 1 # 1
             /\ IsSequence(ds[j + 1]) = IsSequence(es[j])
  BY <1>1, <1>2 DEF IsSequence
<1>6. IsTree(ds)
  <2>1. ASSUME NEW k \in 1 .. n + 1 PROVE ds[k].parent < k
    <3>1. CASE k = 1
      BY <3>1, <1>2
    <3>2. CASE k # 1
      <4>. DEFINE j == k - 1
      <4>1. j \in 1 .. n /\ j + 1 = k
        BY <3>2, <1>4
      <4>. HIDE DEF j
      <4>2. ds[j + 1].parent = es[j].parent + 1 /\ es[j].parent \in Nat /\ es[j].parent < j
        BY <1>1, <1>2, <4>1
      <4>. QED  BY <4>1, <4>2
    <3>. QED  BY <3>1, <3>2
  <2>. QED  BY <1>2, <1>3, <2>1 DEF IsTree
<1>7. Legible(ds)
  <2>1. ASSUME NEW k \in 1 .. n + 1
        PROVE  /\ IsTag(ds[k].tag)
               /\ IsSequence(ds[k]) => ds[k].content = <<>>
               /\ ds[k].tag[1] = 0 =>
                    IF IsSequence(ds[k]) THEN \E j \in DOMAIN ds : ds[j].parent = k
                    ELSE ds[k].content # <<>>
    <3>1. CASE k = 1
      BY <3>1, <1>2
    <3>2. CASE k # 1
      <4>. DEFINE i == k - 1
      <4>1. i \in 1 .. n /\ i + 1 = k
        BY <3>2, <1>4
      <4>. HIDE DEF i
      <4>2. /\ IsTag(es[i].tag)
            /\ IsSequence(es[i]) => es[i].content = <<>>
            /\ es[i].tag[1] = 0 =>
                 IF IsSequence(es[i]) THEN \E j \in DOMAIN es : es[j].parent = i
                 ELSE es[i].content # <<>>
        BY <1>1, <4>1 DEF Legible
      <4>3. IsSequence(ds[k]) = IsSequence(es[i]) /\ ds[k].tag = es[i].tag /\ ds[k].content = es[i].content
        BY <1>2, <1>5, <4>1
      <4>4. ASSUME NEW j \in DOMAIN es, es[j].parent = i PROVE \E x \in DOMAIN ds : ds[x].parent = k
        <5>1. j \in 1 .. n
          BY <1>1
        <5>2. j + 1 \in DOMAIN ds /\ ds[j + 1].parent = i + 1
          BY <1>2, <1>3, <1>5, <4>4, <5>1
        <5>. QED  BY <4>1, <5>2
      <4>. QED  BY <4>2, <4>3, <4>4
    <3>. QED  BY <3>1, <3>2
  <2>. QED  BY <1>3, <2>1 DEF Legible
<1>8. ASSUME Unforced(ds) PROVE DepthFirst(ds)
  <2>1. Unforced(es)
    <3>1. ASSUME NEW j \in 1 .. n PROVE ~es[j].forced
      <4>1. j + 1 \in DOMAIN ds
        BY <1>3, <1>5
      <4>. QED  BY <1>2, <1>8, <4>1 DEF Unforced
    <3>. QED  BY <1>1, <3>1 DEF Unforced
  <2>2. /\ \A k, j \in 1 .. n : k < j /\ es[j].parent < k => es[j].parent <= es[k].parent
        /\ \A k \in 1 .. n : es[k].parent # 0 => IsSequence(es[es[k].parent])
    BY <1>1, <2>1 DEF DepthFirst
  <2>3. ASSUME NEW k \in 1 .. n + 1, NEW j \in 1 .. n + 1, k < j, ds[j].parent < k
        PROVE  ds[j].parent <= ds[k].parent
    <3>. DEFINE x == j - 1
                y == k - 1
    <3>1. x \in 1 .. n /\ x + 1 = j
      BY <1>1, <2>3
    <3>2. ds[j].parent = es[x].parent + 1 /\ es[x].parent \in Nat
      BY <1>1, <1>2, <3>1
    <3>3. k # 1
      <4>. HIDE DEF x
      <4>. QED  BY <2>3, <3>2
    <3>4. y \in 1 .. n /\ y + 1 = k
      BY <3>3, <1>4
    <3>5. ds[k].parent = es[y].parent + 1 /\ es[y].parent \in Nat
      BY <1>1, <1>2, <3>4
    <3>. HIDE DEF x, y
    <3>6. y < x /\ es[x].parent < y
      BY <1>1, <2>3, <3>1, <3>2, <3>4
    <3>7. es[x].parent <= es[y].parent
      BY <2>2, <3>1, <3>4, <3>6
    <3>. QED  BY <3>2, <3>5, <3>7
  <2>4. ASSUME NEW k \in 1 .. n + 1, ds[k].parent # 0 PROVE IsSequence(ds[ds[k].parent])
    <3>. DEFINE y == k - 1
                p == es[y].parent
    <3>1. k # 1
      BY <1>2, <2>4
    <3>2. y \in 1 .. n /\ y + 1 = k
      BY <3>1, <1>4
    <3>. HIDE DEF y
    <3>3. ds[k].parent = p + 1 /\ p \in Nat /\ p < y
      BY <1>1, <1>2, <3>2
    <3>4. p # 0 => IsSequence(es[p])
      BY <2>2, <3>2
    <3>. HIDE DEF p
    <3>5. CASE p = 0
      <4>1. es # <<>>
        BY <1>1, <3>2 DEF n
      <4>2. ds[k].parent = 1
        BY <3>3, <3>5
      <4>. QED  BY <1>2, <4>1, <4>2
    <3>6. CASE p # 0
      <4>1. p \in 1 .. n
        BY <1>1, <3>2, <3>3, <3>6
      <4>. QED  BY <1>5, <3>3, <3>4, <3>6, <4>1
    <3>. QED  BY <3>5, <3>6
  <2>. QED  BY <1>3, <2>3, <2>4 DEF DepthFirst
<1>. QED  BY <1>6, <1>7, <1>8

(* The tag that is found, and the level of a sequence. *)
LEMMA FoundHas ==
  ASSUME AsnTypeOK, Small, NEW v, NEW at, NEW e, Found(v, at, e)
  PROVE  /\ e.tag = SubSeq(v.bytes, v.l + 1, at + 1)
         /\ elements' = Append(elements, e)
         /\ IsSequence(e) => e.content = <<>> /\ Len(levels') = Len(levels) + 1
         /\ ~IsSequence(e) => Len(levels') = Len(levels)
<1>1. Fits(v, at) /\ levels \in Seq(Levels)
  BY DEF Found, AsnTypeOK
<1>2. NewElement(v, at) \in CASNTag /\ Content(v, at) \in Seq(Byte) /\ NewElement(v, at).content = <<>>
  BY <1>1, NewElementIs, ContentIs
<1>3. NewElement(v, at).tag = SubSeq(v.bytes, v.l + 1, at + 1)
  BY DEF NewElement
<1>. DEFINE next == [levels EXCEPT ![Len(levels)].l = End(v, at)]
<1>4. Len(next) = Len(levels)
  BY <1>1
<1>5. \A s, x : Len(s) \in Nat => Len(Append(s, x)) = Len(s) + 1 \/ s \notin Seq(Levels)
  OBVIOUS
<1>6. CASE /\ IsSequence(e) /\ e = NewElement(v, at)
           /\ elements' = Append(elements, e)
           /\ levels' = Append(next, Inside(v, at))
  <2>1. Len(Append(next, Inside(v, at))) = Len(next) + 1
    <3>1. /\ v = levels[Len(levels)] /\ Behind(v, at) \in Levels
      BY FoundIs DEF Adds
    <3>2. next = [levels EXCEPT ![Len(levels)] = Behind(v, at)]
      BY <3>1 DEF Behind
    <3>3. next \in Seq(Levels)
      <4>. DEFINE b == Behind(v, at)
      <4>1. b \in Levels /\ next = [levels EXCEPT ![Len(levels)] = b]
        BY <3>1, <3>2
      <4>. HIDE DEF next, b
      <4>. DEFINE n == Len(levels)
      <4>2. n \in Nat /\ levels \in [1 .. n -> Levels]
        BY <1>1
      <4>3. next \in [1 .. n -> Levels]
        BY <4>1, <4>2
      <4>. HIDE DEF n
      <4>. QED  BY <4>2, <4>3
    <3>. HIDE DEF next
    <3>. QED  BY <3>3
  <2>. HIDE DEF next
  <2>. QED  BY <1>2, <1>3, <1>4, <1>6, <2>1
<1>7. CASE /\ ~IsSequence(e) /\ e = [NewElement(v, at) EXCEPT !.content = Content(v, at)]
           /\ elements' = Append(elements, e)
           /\ levels' = next
  <2>1. e.tag = NewElement(v, at).tag
    BY <1>2, <1>7, WithContent
  <2>. HIDE DEF next
  <2>. QED  BY <1>3, <1>4, <1>7, <2>1
<1>. QED  BY <1>6, <1>7 DEF Found

(* It is a tag, and not one that ends the level. *)
LEMMA TagIsFound ==
  ASSUME AsnTypeOK, Small, NEW v, NEW at, NEW e, Found(v, at, e)
  PROVE  /\ IsTag(e.tag) /\ e.tag[1] = v.bytes[v.l + 1]
         /\ e.tag[1] = 0 => ~IsSequence(e) /\ e.content # <<>>
<1>1. /\ v.l \in Nat /\ v.size \in Nat /\ v.bytes \in Seq(Byte) /\ Len(v.bytes) \in Nat
      /\ v.size <= Len(v.bytes) /\ v.l <= at /\ at < v.size /\ at \in Nat
      /\ DataLen(v, at) \in Nat
  BY FitsIs DEF Found
<1>. DEFINE n == at + 1
            k == n - v.l
            tag == e.tag
<1>2. /\ n \in Nat /\ v.l <= n /\ n <= Len(v.bytes) /\ k \in Nat \ {0} /\ v.l + k = n
  BY <1>1
<1>3. Len(tag) = k /\ \A i \in 1 .. k : tag[i] = v.bytes[v.l + i]
  <2>1. tag = SubSeq(v.bytes, v.l + 1, n)
    BY FoundHas
  <2>. DEFINE b == v.bytes
              l == v.l
  <2>2. b \in Seq(Byte) /\ l \in Nat /\ n \in Nat /\ l <= n /\ n <= Len(b) /\ k = n - l
    BY <1>1, <1>2
  <2>. HIDE DEF n, tag, b, l, k
  <2>3. /\ SubSeq(b, l + 1, n) \in Seq(Byte) /\ Len(SubSeq(b, l + 1, n)) = n - l
        /\ \A i \in 1 .. n - l : SubSeq(b, l + 1, n)[i] = b[l + i]
    BY <2>2, SubSeqIs
  <2>. QED  BY <2>1, <2>2, <2>3 DEF b, l
<1>. HIDE DEF tag
<1>4. tag[1] = v.bytes[v.l + 1]
  <2>1. 1 \in 1 .. k
    BY <1>2
  <2>. QED  BY <1>3, <2>1
<1>. DEFINE ends == {i \in v.l + 1 .. v.size - 1 : v.bytes[i + 1] < 128}
<1>5. at = TagEnd(v)
  BY DEF Found
<1>6. ASSUME tag[1] % 32 # 31 PROVE IsTag(tag)
  <2>1. at = v.l
    BY <1>4, <1>5, <1>6 DEF TagEnd
  <2>2. k = 1
    BY <1>1, <2>1
  <2>3. Len(tag) = 1
    <3>. HIDE DEF k
    <3>. QED  BY <1>3, <2>2
  <2>4. IsTag(tag)
    BY <1>6, <2>3 DEF IsTag
  <2>. QED  BY <2>4
<1>7. ASSUME tag[1] % 32 = 31 PROVE IsTag(tag)
  <2>1. ends # {} /\ at = Min(ends)
    <3>1. IF ends = {} THEN at = v.size ELSE at = Min(ends)
      BY <1>4, <1>5, <1>7 DEF TagEnd
    <3>. HIDE DEF ends
    <3>. QED  BY <1>1, <3>1
  <2>2. ends \in SUBSET Nat
    BY <1>1
  <2>3. at \in ends /\ \A y \in ends : at <= y
    <3>. HIDE DEF ends
    <3>. QED  BY <2>1, <2>2, MinOf
  <2>4. at >= v.l + 1 /\ v.bytes[n] < 128
    BY <1>1, <2>3
  <2>5. k > 1 /\ k \in 1 .. k
    BY <1>1, <1>2, <2>4
  <2>6. tag[k] < 128
    <3>. HIDE DEF k, n
    <3>. QED  BY <1>2, <1>3, <2>4, <2>5
  <2>7. ASSUME NEW j \in 2 .. k - 1 PROVE tag[j] >= 128
    <3>. DEFINE i == v.l + j - 1
    <3>1. i \in v.l + 1 .. v.size - 1 /\ i < at /\ i + 1 = v.l + j /\ j \in 1 .. k /\ i \in Nat
      <4>. DEFINE l == v.l
                  z == v.size
      <4>. HIDE DEF ends, i
      <4>1. l \in Nat /\ z \in Nat /\ at \in Nat /\ at < z /\ k = at + 1 - l /\ k \in Nat
        <5>1. l \in Nat /\ z \in Nat /\ at \in Nat /\ at < z
          BY <1>1
        <5>2. k \in Nat
          BY <1>2
        <5>. QED  BY <5>1, <5>2
      <4>. HIDE DEF l, z, k, ends
      <4>2. j \in 2 .. k - 1
        OBVIOUS
      <4>3. j \in Nat /\ j >= 2 /\ j <= k - 1
        BY <4>1, <4>2
      <4>4. l + j - 1 \in l + 1 .. z - 1 /\ l + j - 1 < at /\ l + j - 1 + 1 = l + j
            /\ j \in 1 .. k /\ l + j - 1 \in Nat
        BY <4>1, <4>3
      <4>. QED  BY <4>4 DEF l, z, i
    <3>2. i \notin ends
      <4>. HIDE DEF i, ends
      <4>. QED  BY <1>1, <2>3, <3>1
    <3>3. ~(v.bytes[v.l + j] < 128)
      <4>. HIDE DEF i
      <4>. QED  BY <3>1, <3>2
    <3>4. v.bytes[v.l + j] \in 0 .. 255
      <4>1. v.l + j \in 1 .. Len(v.bytes)
        <5>. HIDE DEF ends, i, k
        <5>1. i + 1 \in 1 .. Len(v.bytes)
          BY <1>1, <3>1
        <5>. QED  BY <3>1, <5>1
      <4>. QED  BY <1>1, <4>1, BytesOf
    <3>5. tag[j] = v.bytes[v.l + j]
      <4>. HIDE DEF k
      <4>. QED  BY <1>3, <3>1
    <3>. HIDE DEF i, ends
    <3>. QED  BY <3>3, <3>4, <3>5
  <2>. HIDE DEF k, ends
  <2>8. tag[1] % 32 = 31 /\ Len(tag) > 1 /\ tag[Len(tag)] < 128
    BY <1>3, <1>7, <2>5, <2>6
  <2>9. \A j \in 2 .. Len(tag) - 1 : tag[j] >= 128
    BY <1>3, <2>7
  <2>10. IsTag(tag)
    BY <2>8, <2>9 DEF IsTag
  <2>. QED  BY <2>10
<1>8. ASSUME tag[1] = 0 PROVE ~IsSequence(e) /\ e.content # <<>>
  <2>1. ~IsSequence(e) /\ e.forced = FALSE
    <3>1. e.forced = FALSE
      BY FoundIs DEF Adds
    <3>2. (0 \div 32) % 2 = 0
      OBVIOUS
    <3>3. (e.tag[1] \div 32) % 2 = 0
      BY <1>8, <3>2 DEF tag
    <3>4. ~((e.tag[1] \div 32) % 2 = 1)
      BY <3>3
    <3>. QED  BY <3>1, <3>4 DEF IsSequence
  <2>2. e.content = Content(v, at)
    <3>1. Adds(v, at, e, Len(levels), Len(elements))
      BY FoundIs
    <3>2. ~IsSequence(e) => e.content = Content(v, at)
      BY <3>1, Zenon DEF Adds
    <3>. QED  BY <2>1, <3>2
  <2>3. DataLen(v, at) # 0
    BY <1>4, <1>8 DEF Found, IsEndOfContents
  <2>4. Len(Content(v, at)) = DataLen(v, at)
    BY ContentIs DEF Found
  <2>. QED  BY <2>1, <2>2, <2>3, <2>4
<1>. QED  BY <1>4, <1>6, <1>7, <1>8 DEF tag

(* A tree with one tag more, and with one that was parsed again. *)
LEMMA LegibleFound ==
  ASSUME AsnTypeOK, Small, Legible(elements), NEW v, NEW at, NEW e, Found(v, at, e)
  PROVE  Legible(elements)'
<1>. DEFINE m == Len(elements)
            es == elements'
<1>1. /\ m \in Nat /\ DOMAIN elements = 1 .. m /\ DOMAIN es = 1 .. m + 1
      /\ es[m + 1] = e /\ \A i \in 1 .. m : es[i] = elements[i]
  <2>1. /\ m \in Nat /\ elements \in Seq(CASNTag) /\ es \in Seq(CASNTag) /\ Len(es) = m + 1
        /\ es[m + 1] = e /\ \A i \in 1 .. m : es[i] = elements[i]
    BY FoundIs DEF Adds
  <2>. HIDE DEF es
  <2>. QED  BY <2>1
<1>2. /\ IsTag(e.tag) /\ (IsSequence(e) => e.content = <<>>)
      /\ e.tag[1] = 0 => ~IsSequence(e) /\ e.content # <<>>
  BY FoundHas, TagIsFound
<1>. HIDE DEF m, es
<1>3. ASSUME NEW k \in 1 .. m + 1
      PROVE  /\ IsTag(es[k].tag)
             /\ IsSequence(es[k]) => es[k].content = <<>>
             /\ es[k].tag[1] = 0 =>
                  IF IsSequence(es[k]) THEN \E j \in DOMAIN es : es[j].parent = k
                  ELSE es[k].content # <<>>
  <2>1. CASE k = m + 1
    BY <2>1, <1>1, <1>2
  <2>2. CASE k \in 1 .. m
    <3>1. es[k] = elements[k] /\ k \in DOMAIN elements
      BY <2>2, <1>1
    <3>2. /\ IsTag(elements[k].tag)
          /\ IsSequence(elements[k]) => elements[k].content = <<>>
          /\ elements[k].tag[1] = 0 =>
               IF IsSequence(elements[k]) THEN \E j \in DOMAIN elements : elements[j].parent = k
               ELSE elements[k].content # <<>>
      BY <3>1 DEF Legible
    <3>3. ASSUME NEW j \in DOMAIN elements, elements[j].parent = k
          PROVE  \E x \in DOMAIN es : es[x].parent = k
      <4>1. j \in 1 .. m + 1 /\ es[j] = elements[j]
        BY <1>1
      <4>. QED  BY <1>1, <3>3, <4>1
    <3>. QED  BY <3>1, <3>2, <3>3
  <2>3. k \in 1 .. m \/ k = m + 1
    BY <1>1
  <2>. QED  BY <2>1, <2>2, <2>3
<1>. QED  BY <1>1, <1>3 DEF Legible, es

LEMMA LegibleReturn ==
  ASSUME AsnTypeOK, Legible(elements), ReturnFromParse
  PROVE  Legible(elements)'
<1>1. CASE elements' = elements
  BY <1>1 DEF Legible
<1>2. CASE elements' # elements
  <2>. DEFINE es == elements'
  <2>1. /\ es = [elements EXCEPT ![target].forced = TRUE, ![target].content = <<>>]
        /\ target # 0 /\ \E e \in Range(elements) : e.parent = target
    BY <1>2 DEF ReturnFromParse
  <2>2. target \in DOMAIN elements /\ elements \in Seq(CASNTag)
    BY <2>1 DEF AsnTypeOK
  <2>3. PICK i \in DOMAIN elements : elements[i].parent = target
    BY <2>1 DEF Range
  <2>4. /\ DOMAIN es = DOMAIN elements
        /\ \A k \in DOMAIN elements : k # target => es[k] = elements[k]
        /\ es[target].tag = elements[target].tag /\ es[target].content = <<>>
        /\ es[target].forced = TRUE
        /\ \A k \in DOMAIN elements : es[k].parent = elements[k].parent
    <3>1. elements[target] \in CASNTag
      BY <2>2
    <3>. DEFINE a == elements[target]
                x == [a EXCEPT !.forced = TRUE, !.content = <<>>]
    <3>2. x.tag = a.tag /\ x.content = <<>> /\ x.forced = TRUE /\ x.parent = a.parent
      <4>. HIDE DEF a
      <4>1. a \in CASNTag
        BY <3>1 DEF a
      <4>. QED  BY <4>1 DEF CASNTag
    <3>3. es = [elements EXCEPT ![target] = x]
      BY <2>1, <2>2
    <3>. HIDE DEF es, x
    <3>4. /\ DOMAIN es = DOMAIN elements
          /\ \A k \in DOMAIN elements : k # target => es[k] = elements[k]
          /\ es[target] = x
      BY <2>2, <3>3
    <3>5. ASSUME NEW k \in DOMAIN elements PROVE es[k].parent = elements[k].parent
      <4>1. CASE k = target
        BY <4>1, <3>2, <3>4
      <4>2. CASE k # target
        BY <4>2, <3>4
      <4>. QED  BY <4>1, <4>2
    <3>. QED  BY <3>2, <3>4, <3>5
  <2>. HIDE DEF es
  <2>5. ASSUME NEW k \in DOMAIN es
        PROVE  /\ IsTag(es[k].tag)
               /\ IsSequence(es[k]) => es[k].content = <<>>
               /\ es[k].tag[1] = 0 =>
                    IF IsSequence(es[k]) THEN \E j \in DOMAIN es : es[j].parent = k
                    ELSE es[k].content # <<>>
    <3>1. /\ IsTag(elements[k].tag)
          /\ IsSequence(elements[k]) => elements[k].content = <<>>
          /\ elements[k].tag[1] = 0 =>
               IF IsSequence(elements[k]) THEN \E j \in DOMAIN elements : elements[j].parent = k
               ELSE elements[k].content # <<>>
      BY <2>4 DEF Legible
    <3>2. CASE k = target
      <4>1. IsSequence(es[k]) /\ es[k].content = <<>> /\ IsTag(es[k].tag)
        BY <2>4, <3>1, <3>2 DEF IsSequence
      <4>2. i \in DOMAIN es /\ es[i].parent = k
        BY <2>3, <2>4, <3>2
      <4>. QED  BY <4>1, <4>2
    <3>3. CASE k # target
      <4>1. es[k] = elements[k]
        BY <2>4, <3>3
      <4>. QED  BY <2>4, <3>1, <4>1
    <3>. QED  BY <3>2, <3>3
  <2>. QED  BY <2>5 DEF Legible, es
<1>. QED  BY <1>1, <1>2

(* Nothing is written before Encode, nor by what fails. *)
Unwritten ==
  phase \in {"idle", "parsing", "parsed", "reparsing", "reparsed", "error", "undefined"} =>
    written = <<>>

LegibleTags ==
  phase \in {"parsing", "parsed", "reparsing", "reparsed"} => Legible(elements)

(* The tags that follow the one a level is of are inside it. *)
Follows(v, es) ==
  /\ v.parent # 0 => IsSequence(es[v.parent])
  /\ \A j \in v.parent + 1 .. Len(es) : es[j].parent >= v.parent

Ordered ==
  /\ Fresh => Unforced(elements) /\ DepthFirst(elements)
  /\ phase = "parsing" => \A k \in DOMAIN levels : Follows(levels[k], elements)

(* The tag that is parsed again is given those that are found in it. *)
Gives(es, i) == ~IsSequence(es[i]) /\ \E j \in DOMAIN es : es[j].parent = i

Reordered ==
  /\ phase = "reparsing" =>
       /\ target # 0 /\ Unforced(elements)
       /\ \/ Gives(elements, target)
          \/ DepthFirst(elements) /\ \A k \in DOMAIN levels : levels[k].parent = target
       /\ IsSequence(elements[target]) => \A k \in DOMAIN levels : levels[k].size = 0
  /\ phase = "reparsed" /\ Unforced(elements) => DepthFirst(elements)

(* What Encode is given. *)
TreeInv == Unwritten /\ LegibleTags /\ Ordered /\ Reordered

(* A tag of the innermost level is the next one of the order. *)
LEMMA OrderedFound ==
  ASSUME AsnInv, TreeInv, phase = "parsing", NEW v, NEW at, NEW e, Found(v, at, e)
  PROVE  Ordered'
<1>. DEFINE m == Len(elements)
            n == Len(levels)
            es == elements'
            ls == levels'
<1>1. Adds(v, at, e, n, m)
  BY FoundIs DEF AsnInv
<1>2. /\ n \in Nat \ {0} /\ m \in Nat /\ levels \in Seq(Levels) /\ v = levels[n]
      /\ elements \in Seq(CASNTag) /\ es \in Seq(CASNTag) /\ Len(es) = m + 1
      /\ es[m + 1] = e /\ (\A i \in 1 .. m : es[i] = elements[i])
      /\ e.parent = v.parent /\ e.forced = FALSE
      /\ ls \in Seq(Levels)
      /\ \A k \in 1 .. n - 1 : ls[k] = levels[k]
      /\ ls[n] = Behind(v, at)
      /\ Len(ls) = n \/ (Len(ls) = n + 1 /\ ls[n + 1] = Inside(v, at))
  BY <1>1 DEF Adds
<1>3. Len(ls) = n + 1 => IsSequence(e)
  BY <1>2, FoundHas DEF AsnInv
<1>. HIDE DEF m, n, es, ls
<1>4. /\ DOMAIN elements = 1 .. m /\ DOMAIN es = 1 .. m + 1 /\ DOMAIN levels = 1 .. n
      /\ DOMAIN ls = 1 .. Len(ls)
  BY <1>2 DEF m, n
<1>5. Unforced(elements) /\ DepthFirst(elements) /\ Fresh
      /\ \A k \in 1 .. n : Follows(levels[k], elements)
  BY <1>4 DEF TreeInv, Ordered, Fresh
<1>6. ASSUME NEW k \in 1 .. m PROVE elements[k] \in CASNTag /\ elements[k].parent \in Nat /\ elements[k].parent < k
  <2>1. k \in DOMAIN elements /\ elements \in Seq(CASNTag)
    BY <1>2, <1>4
  <2>2. elements[k] \in CASNTag
    BY <2>1
  <2>3. elements[k].parent < k
    BY <2>1 DEF AsnInv, AsnTypeOK
  <2>. QED  BY <2>2, <2>3 DEF CASNTag
<1>7. ASSUME NEW k \in 1 .. n
      PROVE  levels[k].parent \in Nat /\ levels[k].parent <= m /\ levels[k].parent <= v.parent
  <2>1. k \in DOMAIN levels /\ n \in DOMAIN levels /\ levels[k] \in Levels /\ levels[n] \in Levels
    <3>1. k \in DOMAIN levels /\ n \in DOMAIN levels /\ levels \in Seq(Levels)
      BY <1>2, <1>4
    <3>. QED  BY <3>1
  <2>2. levels[k].parent \in Nat /\ levels[n].parent \in Nat /\ levels[k].parent <= m
    BY <2>1, TypeParts DEF AsnInv, Levels, m
  <2>3. k < n => levels[k].parent < levels[n].parent
    BY <1>5, <2>1 DEF AsnInv, LevelsPlaced
  <2>4. k = n \/ k < n
    BY <1>2
  <2>. QED  BY <1>2, <2>2, <2>3, <2>4
<1>8. v.parent \in Nat /\ v.parent <= m /\ Follows(v, elements)
  <2>1. n \in 1 .. n
    BY <1>2
  <2>. QED  BY <1>2, <1>5, <1>7, <2>1
<1>9. Unforced(es)
  <2>1. \A k \in 1 .. m + 1 : k \in 1 .. m \/ k = m + 1
    BY <1>2
  <2>. QED  BY <1>2, <1>4, <1>5, <2>1 DEF Unforced
<1>10. DepthFirst(es)
  <2>1. ASSUME NEW k \in 1 .. m + 1, NEW j \in 1 .. m + 1, k < j, es[j].parent < k
        PROVE  es[j].parent <= es[k].parent
    <3>1. k \in 1 .. m /\ es[k] = elements[k]
      BY <1>2, <2>1
    <3>2. CASE j = m + 1
      <4>1. es[j].parent = v.parent
        BY <1>2, <3>2
      <4>2. k \in v.parent + 1 .. m
        BY <1>8, <2>1, <3>1, <4>1
      <4>3. elements[k].parent >= v.parent
        BY <1>8, <4>2 DEF Follows, m
      <4>. QED  BY <1>6, <1>8, <3>1, <4>1, <4>3
    <3>3. CASE j \in 1 .. m
      BY <1>2, <1>4, <1>5, <2>1, <3>1, <3>3 DEF DepthFirst
    <3>4. j \in 1 .. m \/ j = m + 1
      BY <1>2
    <3>. QED  BY <3>2, <3>3, <3>4
  <2>2. ASSUME NEW k \in 1 .. m + 1, es[k].parent # 0 PROVE IsSequence(es[es[k].parent])
    <3>1. CASE k = m + 1
      <4>1. es[k].parent = v.parent /\ v.parent \in 1 .. m
        BY <1>2, <1>8, <2>2, <3>1
      <4>2. IsSequence(elements[v.parent])
        BY <1>8, <4>1 DEF Follows
      <4>. QED  BY <1>2, <4>1, <4>2
    <3>2. CASE k \in 1 .. m
      <4>1. es[k] = elements[k] /\ elements[k].parent \in 1 .. m
        BY <1>2, <1>6, <2>2, <3>2
      <4>2. IsSequence(elements[elements[k].parent])
        BY <1>4, <1>5, <2>2, <3>2, <4>1 DEF DepthFirst
      <4>. QED  BY <1>2, <4>1, <4>2
    <3>3. k \in 1 .. m \/ k = m + 1
      BY <1>2
    <3>. QED  BY <3>1, <3>2, <3>3
  <2>. QED  BY <1>4, <2>1, <2>2 DEF DepthFirst
<1>11. ASSUME NEW k \in 1 .. n PROVE Follows(levels[k], es)
  <2>. DEFINE p == levels[k].parent
  <2>1. p \in Nat /\ p <= m /\ p <= v.parent
    BY <1>7
  <2>2. (p # 0 => IsSequence(elements[p])) /\ \A j \in p + 1 .. m : elements[j].parent >= p
    BY <1>5 DEF Follows, m
  <2>. HIDE DEF p
  <2>3. p # 0 => IsSequence(es[p])
    <3>1. p # 0 => p \in 1 .. m
      BY <1>2, <2>1
    <3>. QED  BY <1>2, <2>2, <3>1
  <2>4. ASSUME NEW j \in p + 1 .. m + 1 PROVE es[j].parent >= p
    <3>1. CASE j = m + 1
      BY <1>2, <1>8, <2>1, <3>1
    <3>2. CASE j # m + 1
      <4>1. j \in 1 .. m /\ j \in p + 1 .. m
        BY <1>2, <2>1, <3>2
      <4>. QED  BY <1>2, <2>2, <4>1
    <3>. QED  BY <3>1, <3>2
  <2>. QED  BY <1>2, <2>3, <2>4 DEF Follows, p
<1>12. ASSUME NEW k \in 1 .. Len(ls) PROVE Follows(ls[k], es)
  <2>1. CASE k \in 1 .. n - 1
    <3>1. k \in 1 .. n /\ ls[k] = levels[k]
      BY <1>2, <2>1
    <3>. QED  BY <1>11, <3>1
  <2>2. CASE k = n
    <3>1. n \in 1 .. n
      BY <1>2
    <3>2. Behind(v, at).parent = v.parent
      <4>1. v \in Levels
        BY <1>2, <3>1 DEF n
      <4>. QED  BY <4>1 DEF Behind, Levels
    <3>3. Follows(v, es)
      BY <1>2, <1>11, <3>1
    <3>. QED  BY <1>2, <2>2, <3>2, <3>3 DEF Follows
  <2>3. CASE k = n + 1
    <3>1. Len(ls) = n + 1 /\ ls[k] = Inside(v, at)
      BY <1>2, <2>3
    <3>2. ls[k].parent = m + 1
      BY <3>1 DEF Inside, Level, m
    <3>3. IsSequence(es[m + 1])
      BY <1>2, <1>3, <3>1
    <3>4. m + 1 + 1 .. m + 1 = {}
      BY <1>2
    <3>5. \A j \in m + 1 + 1 .. Len(es) : es[j].parent >= m + 1
      BY <1>2, <3>4
    <3>. QED  BY <3>2, <3>3, <3>5 DEF Follows
  <2>4. k \in 1 .. n - 1 \/ k = n \/ k = n + 1
    BY <1>2
  <2>. QED  BY <2>1, <2>2, <2>3, <2>4
<1>. QED  BY <1>4, <1>9, <1>10, <1>12 DEF Ordered, es, ls

(* A tag that is found is given to the one that is parsed again. *)
LEMMA ReorderedFound ==
  ASSUME AsnInv, TreeInv, phase = "reparsing", NEW v, NEW at, NEW e, Found(v, at, e)
  PROVE  Reordered'
<1>. DEFINE m == Len(elements)
            n == Len(levels)
            es == elements'
<1>1. Adds(v, at, e, n, m)
  BY FoundIs DEF AsnInv
<1>2. /\ n \in Nat \ {0} /\ m \in Nat /\ levels \in Seq(Levels) /\ v = levels[n]
      /\ elements \in Seq(CASNTag) /\ es \in Seq(CASNTag) /\ Len(es) = m + 1
      /\ es[m + 1] = e /\ (\A i \in 1 .. m : es[i] = elements[i])
      /\ e.parent = v.parent /\ e.forced = FALSE
  BY <1>1 DEF Adds
<1>. HIDE DEF m, n, es
<1>3. /\ DOMAIN elements = 1 .. m /\ DOMAIN es = 1 .. m + 1 /\ DOMAIN levels = 1 .. n
      /\ n \in 1 .. n
  BY <1>2 DEF m, n
<1>4. phase' = "reparsing" /\ target' = target /\ v.l < v.size /\ v.l \in Nat /\ v.size \in Nat
  BY FitsIs DEF Found, Fits, IsTurn
<1>5. /\ target # 0 /\ Unforced(elements)
      /\ \/ Gives(elements, target)
         \/ DepthFirst(elements) /\ \A k \in DOMAIN levels : levels[k].parent = target
      /\ IsSequence(elements[target]) => \A k \in DOMAIN levels : levels[k].size = 0
  BY DEF TreeInv, Reordered
<1>6. target \in 1 .. m
  BY <1>5 DEF AsnInv, AsnTypeOK, m
<1>7. ~IsSequence(elements[target])
  <2>1. n \in DOMAIN levels /\ levels[n].size # 0
    BY <1>2, <1>3, <1>4
  <2>. QED  BY <1>5, <2>1
<1>8. es[target] = elements[target]
  BY <1>2, <1>6
<1>9. \E j \in 1 .. m + 1 : es[j].parent = target
  <2>1. CASE Gives(elements, target)
    <3>1. PICK j \in 1 .. m : elements[j].parent = target
      BY <1>3, <2>1 DEF Gives
    <3>. QED  BY <1>2, <3>1
  <2>2. CASE \A k \in DOMAIN levels : levels[k].parent = target
    <3>1. es[m + 1].parent = target /\ m + 1 \in 1 .. m + 1
      BY <1>2, <1>3, <2>2
    <3>. QED  BY <3>1
  <2>. QED  BY <1>5, <2>1, <2>2
<1>10. Gives(es, target)
  BY <1>3, <1>7, <1>8, <1>9 DEF Gives
<1>11. Unforced(es)
  <2>1. \A k \in 1 .. m + 1 : k \in 1 .. m \/ k = m + 1
    BY <1>2
  <2>. QED  BY <1>2, <1>3, <1>5, <2>1 DEF Unforced
<1>. QED  BY <1>4, <1>5, <1>7, <1>8, <1>10, <1>11 DEF Reordered, es

LEMMA TreeFound ==
  ASSUME AsnInv, TreeInv, NEW v, NEW at, NEW e, Found(v, at, e)
  PROVE  TreeInv'
<1>1. phase' = phase /\ written' = written /\ phase \in {"parsing", "reparsing", "rereading"}
  BY DEF Found, Parsing
<1>2. Unwritten'
  BY <1>1 DEF TreeInv, Unwritten
<1>3. LegibleTags'
  <2>1. CASE phase = "rereading"
    BY <1>1, <2>1 DEF LegibleTags
  <2>2. CASE phase # "rereading"
    <3>1. Legible(elements)
      BY <1>1, <2>2 DEF TreeInv, LegibleTags
    <3>2. Legible(elements)'
      BY <3>1, LegibleFound DEF AsnInv
    <3>. QED  BY <3>2 DEF LegibleTags
  <2>. QED  BY <2>1, <2>2
<1>4. Ordered'
  <2>1. CASE phase = "parsing"
    BY <2>1, OrderedFound
  <2>2. CASE phase # "parsing"
    BY <1>1, <2>2 DEF Ordered, Fresh
  <2>. QED  BY <2>1, <2>2
<1>5. Reordered'
  <2>1. CASE phase = "reparsing"
    BY <2>1, ReorderedFound
  <2>2. CASE phase # "reparsing"
    BY <1>1, <2>2 DEF Reordered
  <2>. QED  BY <2>1, <2>2
<1>. QED  BY <1>2, <1>3, <1>4, <1>5 DEF TreeInv

(* The levels that are left are as they were. *)
LEMMA LevelsLeft ==
  ASSUME AsnInv, Parsing, ReturnFromParse
  PROVE  /\ Len(levels) \in Nat \ {0} /\ DOMAIN levels' = 1 .. Len(levels) - 1
         /\ \A k \in 1 .. Len(levels) - 1 : k \in DOMAIN levels /\ levels'[k] = levels[k]
<1>. DEFINE n == Len(levels)
            ls == levels'
<1>1. levels \in Seq(Levels) /\ levels # <<>> /\ n \in Nat \ {0} /\ ls = Front(levels)
  BY LastLevel, TypeParts DEF AsnInv, ReturnFromParse
<1>. HIDE DEF ls
<1>2. ls \in Seq(Levels) /\ Len(ls) = n - 1 /\ \A k \in 1 .. n - 1 : ls[k] = levels[k]
  BY <1>1, FrontIs
<1>3. DOMAIN ls = 1 .. n - 1 /\ DOMAIN levels = 1 .. n
  BY <1>1, <1>2
<1>4. \A k \in 1 .. n - 1 : k \in 1 .. n
  BY <1>1
<1>. QED  BY <1>1, <1>2, <1>3, <1>4 DEF ls

LEMMA TreeReturn ==
  ASSUME AsnInv, TreeInv, Parsing, ReturnFromParse
  PROVE  TreeInv'
<1>. DEFINE n == Len(levels)
<1>1. /\ n \in Nat \ {0} /\ DOMAIN levels' = 1 .. n - 1
      /\ \A k \in 1 .. n - 1 : k \in DOMAIN levels /\ levels'[k] = levels[k]
  BY LevelsLeft
<1>2. /\ phase' = IF n = 1 THEN AfterParse ELSE phase
      /\ written' = written /\ target' = target
  BY DEF ReturnFromParse
<1>3. CASE phase = "parsing"
  <2>1. phase' \in {"parsing", "parsed"}
    BY <1>2, <1>3 DEF AfterParse
  <2>2. elements' = elements
    <3>1. target = 0
      BY <1>3 DEF AsnInv, Slices, Fresh
    <3>. QED  BY <3>1 DEF ReturnFromParse
  <2>3. Unwritten' /\ LegibleTags' /\ Reordered'
    <3>1. Unwritten'
      BY <1>2, <1>3, <2>1 DEF TreeInv, Unwritten
    <3>2. Legible(elements)
      BY <1>3 DEF TreeInv, LegibleTags
    <3>3. LegibleTags'
      BY <2>2, <3>2 DEF LegibleTags
    <3>. QED  BY <2>1, <3>1, <3>3 DEF Reordered
  <2>4. /\ Unforced(elements) /\ DepthFirst(elements)
        /\ \A k \in DOMAIN levels : Follows(levels[k], elements)
    BY <1>3 DEF TreeInv, Ordered, Fresh
  <2>5. \A k \in DOMAIN levels' : Follows(levels'[k], elements)
    BY <1>1, <2>4
  <2>6. Ordered'
    BY <2>2, <2>4, <2>5 DEF Ordered
  <2>. QED  BY <2>3, <2>6 DEF TreeInv
<1>4. CASE phase = "reparsing"
  <2>1. phase' = IF n = 1 THEN "reparsed" ELSE "reparsing"
    BY <1>2, <1>4 DEF AfterParse
  <2>2. Unwritten' /\ LegibleTags' /\ Ordered'
    <3>1. Unwritten'
      BY <1>2, <1>4, <2>1 DEF TreeInv, Unwritten
    <3>2. Legible(elements)'
      BY <1>4, LegibleReturn DEF TreeInv, LegibleTags, AsnInv
    <3>3. LegibleTags'
      BY <3>2 DEF LegibleTags
    <3>. QED  BY <2>1, <3>1, <3>3 DEF Ordered, Fresh
  <2>3. /\ target # 0 /\ Unforced(elements)
        /\ \/ Gives(elements, target)
           \/ DepthFirst(elements) /\ \A k \in DOMAIN levels : levels[k].parent = target
        /\ IsSequence(elements[target]) => \A k \in DOMAIN levels : levels[k].size = 0
    BY <1>4 DEF TreeInv, Reordered
  <2>4. CASE n = 1
    <3>. DEFINE es == elements'
    <3>1. CASE Gives(elements, target)
      <4>1. PICK j \in DOMAIN elements : elements[j].parent = target
        BY <3>1 DEF Gives
      <4>2. elements[j] \in Range(elements)
        BY DEF Range
      <4>3. \E e \in Range(elements) : e.parent = target
        BY <4>1, <4>2
      <4>4. es = [elements EXCEPT ![target].forced = TRUE, ![target].content = <<>>]
        BY <2>3, <2>4, <3>1, <4>3 DEF ReturnFromParse, Gives
      <4>5. target \in DOMAIN elements /\ elements \in Seq(CASNTag)
        BY <2>3 DEF AsnInv, AsnTypeOK
      <4>. DEFINE a == elements[target]
                  x == [a EXCEPT !.forced = TRUE, !.content = <<>>]
      <4>6. a \in CASNTag
        BY <4>5
      <4>7. x.forced = TRUE
        <5>. HIDE DEF a
        <5>. QED  BY <4>6 DEF CASNTag
      <4>8. es = [elements EXCEPT ![target] = x]
        BY <4>4, <4>5
      <4>. HIDE DEF x, a, es
      <4>9. target \in DOMAIN es /\ es[target].forced
        BY <4>5, <4>7, <4>8
      <4>10. ~Unforced(es)
        BY <4>9 DEF Unforced
      <4>. QED  BY <2>1, <2>2, <2>4, <4>10 DEF TreeInv, Reordered, es
    <3>2. CASE ~Gives(elements, target)
      <4>1. ~(~IsSequence(elements[target]) /\ \E e \in Range(elements) : e.parent = target)
        BY <3>2 DEF Gives, Range
      <4>2. es = elements
        BY <4>1 DEF ReturnFromParse
      <4>3. DepthFirst(elements)
        BY <2>3, <3>2
      <4>. QED  BY <2>1, <2>2, <2>4, <4>2, <4>3 DEF TreeInv, Reordered
    <3>. QED  BY <3>1, <3>2
  <2>5. CASE n # 1
    <3>1. elements' = elements
      BY <2>5 DEF ReturnFromParse
    <3>2. \A k \in DOMAIN levels' : k \in DOMAIN levels /\ levels'[k] = levels[k]
      BY <1>1
    <3>3. (\A k \in DOMAIN levels : levels[k].parent = target) =>
            \A k \in DOMAIN levels' : levels'[k].parent = target
      BY <3>2
    <3>4. (\A k \in DOMAIN levels : levels[k].size = 0) =>
            \A k \in DOMAIN levels' : levels'[k].size = 0
      BY <3>2
    <3>5. Reordered'
      BY <1>2, <2>1, <2>3, <2>5, <3>1, <3>3, <3>4 DEF Reordered
    <3>. QED  BY <2>2, <3>5 DEF TreeInv
  <2>. QED  BY <2>4, <2>5
<1>5. CASE phase = "rereading"
  <2>1. phase' \in {"rereading", "reread"}
    BY <1>2, <1>5 DEF AfterParse
  <2>. QED  BY <2>1 DEF TreeInv, Unwritten, LegibleTags, Ordered, Reordered, Fresh
<1>. QED  BY <1>3, <1>4, <1>5 DEF Parsing

LEMMA TreeStop ==
  ASSUME TreeInv, Throw \/ Stray,
         phase \in {"idle", "parsing", "parsed", "reparsing", "reparsed"}
  PROVE  TreeInv'
<1>1. phase' \in {"error", "undefined"} /\ written' = written
  BY DEF Throw, Stray
<1>2. written = <<>>
  BY DEF TreeInv, Unwritten
<1>. QED  BY <1>1, <1>2 DEF TreeInv, Unwritten, LegibleTags, Ordered, Reordered, Fresh

LEMMA TreeParse ==
  ASSUME AsnInv, TreeInv, Parse
  PROVE  TreeInv'
<1>1. /\ phase = "idle" /\ phase' = "parsing" /\ elements' = elements /\ written' = written
      /\ elements = <<>>
  BY DEF Parse, AsnInv, Idle
<1>2. PICK data \in Inputs : levels' = <<Level(0, data, Len(data), 0)>>
  BY DEF Parse
<1>3. Unwritten'
  BY <1>1 DEF TreeInv, Unwritten
<1>4. DOMAIN elements = {} /\ Len(elements) = 0
  BY <1>1
<1>5. Legible(elements) /\ Unforced(elements) /\ DepthFirst(elements)
  BY <1>4 DEF Legible, Unforced, DepthFirst
<1>6. \A k \in DOMAIN levels' : Follows(levels'[k], elements)
  <2>. DEFINE v == Level(0, data, Len(data), 0)
  <2>1. Follows(v, elements)
    <3>1. v.parent = 0 /\ 0 + 1 .. 0 = {}
      BY DEF Level
    <3>. HIDE DEF v
    <3>. QED  BY <1>4, <3>1 DEF Follows
  <2>. HIDE DEF v
  <2>2. \A k \in DOMAIN <<v>> : <<v>>[k] = v
    OBVIOUS
  <2>. QED  BY <1>2, <2>1, <2>2 DEF v
<1>7. LegibleTags' /\ Ordered' /\ Reordered'
  BY <1>1, <1>5, <1>6 DEF LegibleTags, Ordered, Reordered
<1>. QED  BY <1>3, <1>7 DEF TreeInv

LEMMA TreeReparse ==
  ASSUME AsnInv, TreeInv, NEW i \in DOMAIN elements, Reparse(i)
  PROVE  TreeInv'
<1>1. phase = "parsed"
  BY DEF Reparse
<1>2. CASE Throw
  BY <1>1, <1>2, TreeStop
<1>3. CASE ~Throw
  <2>. DEFINE bitString == elements[i].tag = <<3>>
              content == IF bitString THEN Tail(elements[i].content) ELSE elements[i].content
              v == Level(i, content, Len(content), 0)
  <2>1. /\ phase' = "reparsing" /\ target' = i /\ levels' = <<v>>
        /\ elements' = elements /\ written' = written
    BY <1>3 DEF Reparse
  <2>2. Unforced(elements) /\ DepthFirst(elements) /\ Legible(elements)
    BY <1>1 DEF TreeInv, Ordered, Fresh, LegibleTags
  <2>3. v.parent = i /\ v.size = Len(content)
    BY DEF Level
  <2>4. IsSequence(elements[i]) => Len(content) = 0
    <3>1. CASE bitString
      <4>1. elements[i].tag[1] = 3 /\ (3 \div 32) % 2 = 0
        BY <3>1
      <4>2. (elements[i].tag[1] \div 32) % 2 = 0
        BY <4>1
      <4>3. ~elements[i].forced
        BY <2>2 DEF Unforced
      <4>4. ~IsSequence(elements[i])
        BY <4>2, <4>3 DEF IsSequence
      <4>. QED  BY <4>4
    <3>2. CASE ~bitString
      <4>1. IsSequence(elements[i]) => elements[i].content = <<>>
        BY <2>2 DEF Legible
      <4>2. Len(<<>>) = 0
        OBVIOUS
      <4>. QED  BY <3>2, <4>1, <4>2
    <3>. QED  BY <3>1, <3>2
  <2>. HIDE DEF v, content
  <2>5. \A k \in DOMAIN <<v>> : <<v>>[k] = v
    OBVIOUS
  <2>6. i # 0
    BY DEF AsnInv, AsnTypeOK
  <2>7. Reordered'
    BY <2>1, <2>2, <2>3, <2>4, <2>5, <2>6 DEF Reordered
  <2>8. Unwritten' /\ LegibleTags' /\ Ordered'
    BY <1>1, <2>1, <2>2 DEF TreeInv, Unwritten, LegibleTags, Ordered, Fresh
  <2>. QED  BY <2>7, <2>8 DEF TreeInv
<1>. QED  BY <1>2, <1>3

LEMMA TreeInit ==
  ASSUME AsnInit
  PROVE  TreeInv
BY DEF AsnInit, TreeInv, Unwritten, LegibleTags, Ordered, Reordered, Fresh

(* What is read again neither throws nor strays: see ReadInv. *)
LEMMA TreeStep ==
  ASSUME AsnInv, TreeInv, [AsnNext]_asnvars,
         phase = "rereading" => ~(Throw \/ Stray)
  PROVE  TreeInv'
<1>1. CASE Parse
  BY <1>1, TreeParse
<1>2. CASE LevelEnds
  BY <1>2, TreeReturn DEF LevelEnds
<1>3. CASE Turn
  <2>1. Parsing
    BY <1>3 DEF Turn
  <2>2. CASE Throw \/ Stray
    BY <2>1, <2>2, TreeStop DEF Parsing
  <2>3. CASE ReturnFromParse
    BY <2>1, <2>3, TreeReturn
  <2>4. CASE \E v, at, e : Found(v, at, e)
    BY <2>4, TreeFound
  <2>. QED  BY <1>3, <2>2, <2>3, <2>4, TurnIs DEF AsnInv
<1>4. CASE \E i \in DOMAIN elements : Reparse(i)
  BY <1>4, TreeReparse
<1>5. CASE Encode
  <2>1. phase \in {"parsed", "reparsed"} /\ (Throw \/ phase' = "encoded")
    BY <1>5 DEF Encode
  <2>2. CASE Throw
    BY <2>1, <2>2, TreeStop
  <2>3. CASE phase' = "encoded"
    BY <2>3 DEF TreeInv, Unwritten, LegibleTags, Ordered, Reordered, Fresh
  <2>. QED  BY <2>1, <2>2, <2>3
<1>6. CASE \E tag \in Tags : getASN1Tag(tag)
  <2>1. phase' = "wrapped"
    BY <1>6 DEF getASN1Tag
  <2>. QED  BY <2>1 DEF TreeInv, Unwritten, LegibleTags, Ordered, Reordered, Fresh
<1>7. CASE ParseEncoded
  <2>1. phase' = "rereading"
    BY <1>7 DEF ParseEncoded
  <2>. QED  BY <2>1 DEF TreeInv, Unwritten, LegibleTags, Ordered, Reordered, Fresh
<1>8. CASE UNCHANGED asnvars
  BY <1>8 DEF asnvars, TreeInv, Unwritten, LegibleTags, Ordered, Reordered, Fresh,
    Legible, Unforced, DepthFirst, Follows, Gives, IsSequence
<1>. QED  BY <1>1, <1>2, <1>3, <1>4, <1>5, <1>6, <1>7, <1>8 DEF AsnNext

-----------------------------------------------------------------------------
(* The tags that are read, as copies of those that were written.           *)

(* The content of a tag, in its code. *)
Body(es, code, i) == IF IsSequence(es[i]) THEN Children(es, code, i) ELSE es[i].content

Open(es, p) == p = 0 \/ IsSequence(es[p])

(* The tag j is the tag f[j] of those that were written. *)
Copies(es, w, c, f) ==
  /\ f \in [0 .. Len(es) -> 0 .. Len(w)] /\ f[0] = 0
  /\ \A j \in 1 .. Len(es) :
       /\ f[j] # 0 /\ es[j].tag = w[f[j]].tag /\ ~es[j].forced
       /\ es[j].content = IF IsSequence(es[j]) THEN <<>> ELSE Body(w, c, f[j])

CodesOf(es, c, f) == [i \in 0 .. Len(es) |-> c[f[i]]]

(* Of what is in the tag p, those up to the tag r[p] have been read. *)
Covers(es, w, c, f, r) ==
  /\ r \in [0 .. Len(es) -> 0 .. Len(w)]
  /\ \A p \in 0 .. Len(es) :
       Open(es, p) => Children(es, CodesOf(es, c, f), p) = Part(w, c, f[p])[r[p]]

(* The data of a level are what is in its tag. *)
LevelReads(v, es, w, c, f, r) ==
  /\ v.parent \in 0 .. Len(es) /\ Open(es, v.parent)
  /\ v.size = Len(Children(w, c, f[v.parent]))
  /\ v.l = Len(Part(w, c, f[v.parent])[r[v.parent]])
  /\ LiesAt(Children(w, c, f[v.parent]), v.bytes, 0)

LevelsRead(ls, es, w, c, f, r) ==
  /\ \A k \in DOMAIN ls : LevelReads(ls[k], es, w, c, f, r)
  /\ \A j, k \in DOMAIN ls : j < k => ls[j].parent < ls[k].parent

(* The other tags have been read to their end. *)
Closed(ls, es, w, f, r) ==
  \A p \in 0 .. Len(es) :
    Open(es, p) /\ (\A k \in DOMAIN ls : ls[k].parent # p) =>
      \A j \in r[p] + 1 .. Len(w) : w[j].parent # f[p]

(* The tags are those that were written, and in the same order. *)
InOrder(es, w, f, r) ==
  /\ \A j \in 1 .. Len(es) : f[j] = j /\ es[j].parent = w[j].parent
  /\ \A p \in 0 .. Len(es) :
       Open(es, p) => /\ r[p] <= Len(es)
                      /\ \A j \in 1 .. Len(es) : w[j].parent = p => j <= r[p]

ReadBack(ls, es, w, c, f, r) ==
  /\ Copies(es, w, c, f) /\ Covers(es, w, c, f, r)
  /\ LevelsRead(ls, es, w, c, f, r) /\ Closed(ls, es, w, f, r)
  /\ Unforced(w) => InOrder(es, w, f, r)

(* What holds of the tags that were written. *)
LEMMA WrittenIs ==
  ASSUME NEW w, NEW c, NEW bytes, IsWritten(w, c, bytes)
  PROVE  /\ \A i \in 0 .. Len(w) : c[i] \in Seq(Byte)
         /\ c[0] = bytes /\ c[0] = Children(w, c, 0)
         /\ \A k \in 1 .. Len(w) :
              /\ c[k] = Tlv(w[k].tag, Body(w, c, k)) /\ Body(w, c, k) \in Seq(Byte)
              /\ Len(c[k]) > 0
         /\ \A i \in 0 .. Len(w) :
              /\ Gathered(Part(w, c, i), w, c, i)
              /\ Children(w, c, i) = Part(w, c, i)[Len(w)] /\ Children(w, c, i) \in Seq(Byte)
<1>. DEFINE n == Len(w)
<1>1. /\ w \in Seq(CASNTag) /\ n \in Nat /\ DOMAIN w = 1 .. n
      /\ \A j \in 1 .. n : /\ w[j] \in CASNTag /\ w[j].tag \in Seq(Byte) /\ w[j].tag # <<>>
                           /\ w[j].content \in Seq(Byte)
  BY TreeIs DEF IsWritten
<1>2. IsCode(w, c) /\ c[0] = bytes /\ \A i \in DOMAIN w : w[i].parent < i
  BY DEF IsWritten, IsTree
<1>3. \A i \in 0 .. n : c[i] \in Seq(Byte)
  BY <1>1, <1>2, CodesType
<1>4. \A i \in 0 .. n : c[i] = CodeOf(w, c, i)
  BY <1>2 DEF IsCode
<1>5. ASSUME NEW i \in 0 .. n
      PROVE  /\ Gathered(Part(w, c, i), w, c, i)
             /\ Children(w, c, i) = Part(w, c, i)[n] /\ Children(w, c, i) \in Seq(Byte)
  <2>1. \A j \in 1 .. Len(w) : w[j].parent = i => c[j] \in Seq(Byte)
    BY <1>1, <1>3
  <2>2. Gathered(Part(w, c, i), w, c, i)
    BY <1>1, <2>1, PartIs
  <2>3. n \in 0 .. n
    BY <1>1
  <2>. QED  BY <2>2, <2>3 DEF Gathered
<1>6. 0 \in 0 .. n
  BY <1>1
<1>7. c[0] = Children(w, c, 0)
  BY <1>4, <1>6 DEF CodeOf
<1>8. ASSUME NEW k \in 1 .. n
      PROVE  /\ c[k] = Tlv(w[k].tag, Body(w, c, k)) /\ Body(w, c, k) \in Seq(Byte)
             /\ Len(c[k]) > 0
  <2>1. k \in 0 .. n /\ k # 0
    BY <1>1
  <2>2. c[k] = Tlv(w[k].tag, Body(w, c, k))
    BY <1>4, <2>1 DEF CodeOf, Body
  <2>3. Body(w, c, k) \in Seq(Byte)
    BY <1>1, <1>5, <2>1 DEF Body
  <2>. DEFINE tag == w[k].tag
              body == Body(w, c, k)
  <2>4. tag \in Seq(Byte) /\ tag # <<>> /\ body \in Seq(Byte)
    BY <1>1, <2>3
  <2>. HIDE DEF tag, body
  <2>5. /\ Len(tag) \in Nat /\ Len(body) \in Nat /\ Len(PutLength(Len(body))) \in Nat
        /\ Len(Tlv(tag, body)) = Len(tag) + Len(PutLength(Len(body))) + Len(body)
    BY <2>4, TlvIs
  <2>6. Len(tag) # 0
    BY <2>4
  <2>7. Len(Tlv(tag, body)) > 0
    <3>. DEFINE x == Len(PutLength(Len(body)))
                y == Len(body)
                z == Len(tag)
    <3>. HIDE DEF x, y, z
    <3>. QED  BY <2>5, <2>6 DEF x, y, z
  <2>. QED  BY <2>2, <2>3, <2>7 DEF tag, body
<1>. HIDE DEF n
<1>. QED  BY <1>2, <1>3, <1>5, <1>7, <1>8 DEF n

(* What could be taken for an end of contents is not empty. *)
LEMMA BodyNotEmpty ==
  ASSUME NEW w, NEW c, NEW bytes, IsWritten(w, c, bytes),
         NEW k \in 1 .. Len(w), w[k].tag[1] = 0
  PROVE  Len(Body(w, c, k)) > 0
<1>. DEFINE n == Len(w)
<1>1. w \in Seq(CASNTag) /\ n \in Nat /\ DOMAIN w = 1 .. n /\ w[k].content \in Seq(Byte)
  BY TreeIs DEF IsWritten
<1>2. IF IsSequence(w[k]) THEN \E j \in DOMAIN w : w[j].parent = k ELSE w[k].content # <<>>
  BY <1>1 DEF IsWritten, Legible
<1>3. CASE ~IsSequence(w[k])
  <2>. DEFINE a == w[k].content
  <2>1. a \in Seq(Byte) /\ a # <<>> /\ Body(w, c, k) = a
    BY <1>1, <1>2, <1>3 DEF Body
  <2>. HIDE DEF a
  <2>. QED  BY <2>1
<1>4. CASE IsSequence(w[k])
  <2>. SUFFICES ASSUME ~(Len(Body(w, c, k)) > 0) PROVE FALSE
    OBVIOUS
  <2>1. PICK j \in 1 .. n : w[j].parent = k
    BY <1>1, <1>2, <1>4
  <2>. DEFINE g == Part(w, c, k)
  <2>2. Gathered(g, w, c, k) /\ Body(w, c, k) = g[n] /\ g[n] \in Seq(Byte)
    <3>1. k \in 0 .. n
      BY <1>1
    <3>. QED  BY <1>4, <3>1, WrittenIs DEF Body
  <2>3. \A i \in 1 .. n : w[i].parent = k => c[i] \in Seq(Byte) /\ Len(c[i]) > 0
    BY <1>1, WrittenIs
  <2>. HIDE DEF g
  <2>4. 0 \in 0 .. n /\ Len(g[0]) = 0 /\ Len(g[n]) \in Nat /\ ~(Len(g[n]) > 0)
    BY <1>1, <2>2 DEF Gathered
  <2>5. Len(g[0]) >= Len(g[n])
    <3>. DEFINE x == Len(g[n])
    <3>1. x \in Nat /\ ~(x > 0)
      BY <2>4
    <3>. HIDE DEF x
    <3>2. 0 >= x
      BY <3>1
    <3>. QED  BY <2>4, <3>2 DEF x
  <2>6. \A i \in 0 + 1 .. n : w[i].parent # k
    BY <1>1, <2>2, <2>3, <2>4, <2>5, NoMoreChildren
  <2>. QED  BY <2>1, <2>6
<1>. QED  BY <1>3, <1>4

(* The tag j is the next one in the tag q of those that were written, of   *)
(* which those up to m have been read, and the header at the position of   *)
(* the level is its own.                                                   *)
NextTag(w, c, q, m, v, j) ==
  /\ j \in m + 1 .. Len(w) /\ w[j].parent = q
  /\ \A k \in m + 1 .. j - 1 : w[k].parent # q
  /\ Part(w, c, q)[j] = Part(w, c, q)[m] \o c[j]
  /\ Reads(v, TagEnd(v), w[j].tag, Body(w, c, j))
  /\ End(v, TagEnd(v)) = Len(Part(w, c, q)[j])

LEMMA NextIsRead ==
  ASSUME NEW w, NEW c, NEW bytes, IsWritten(w, c, bytes),
         NEW q \in 0 .. Len(w), NEW m \in 0 .. Len(w), NEW v, IsTurn(v),
         v.size = Len(Children(w, c, q)), v.l = Len(Part(w, c, q)[m]),
         LiesAt(Children(w, c, q), v.bytes, 0)
  PROVE  \E j : NextTag(w, c, q, m, v, j)
<1>. DEFINE n == Len(w)
            g == Part(w, c, q)
<1>1. /\ w \in Seq(CASNTag) /\ n \in Nat /\ v.l < v.size
      /\ \A j \in 1 .. n : /\ w[j].tag \in Seq(Byte) /\ w[j].tag # <<>>
  BY TreeIs DEF IsWritten, IsTurn
<1>2. Gathered(g, w, c, q) /\ Children(w, c, q) = g[n]
  BY WrittenIs
<1>3. \A j \in 1 .. n : w[j].parent = q => c[j] \in Seq(Byte)
  BY <1>1, WrittenIs
<1>. HIDE DEF g
<1>4. Len(g[m]) < Len(g[n])
  <2>1. v.l = Len(g[m])
    BY DEF g
  <2>2. v.size = Len(g[n])
    BY <1>2
  <2>3. v.l < v.size
    BY <1>1
  <2>. HIDE DEF n
  <2>. QED  BY <2>1, <2>2, <2>3, Zenon
<1>5. PICK j : IsNext(w, c, q, g, m, j)
  <2>1. Gathered(g, w, c, q) /\ Len(g[m]) < Len(g[Len(w)]) /\ w \in Seq(CASNTag)
    BY <1>1, <1>2, <1>4
  <2>. QED  BY <2>1, NextChild
<1>6. j \in 1 .. n /\ j \in 0 .. n /\ n \in j .. n /\ m \in 0 .. n
      /\ j \in m + 1 .. n
  BY <1>1, <1>5 DEF IsNext
<1>. DEFINE tag == w[j].tag
            body == Body(w, c, j)
            code == c[j]
<1>7. /\ code = Tlv(tag, body) /\ body \in Seq(Byte) /\ code \in Seq(Byte)
      /\ tag \in Seq(Byte) /\ tag # <<>>
  BY <1>1, <1>6, WrittenIs
<1>8. IsTag(tag)
  <2>1. j \in DOMAIN w
    BY <1>1, <1>6
  <2>. QED  BY <2>1 DEF IsWritten, Legible
<1>9. /\ g[j] \in Seq(Byte) /\ Len(g[j]) \in Nat /\ Len(g[n]) \in Nat
      /\ Len(g[j]) <= Len(g[n]) /\ LiesAt(g[j], g[n], 0)
  BY <1>1, <1>2, <1>3, <1>6, PartsGrow
<1>10. g[m] \in Seq(Byte)
  BY <1>2 DEF Gathered
<1>. HIDE DEF tag, body, code, n
<1>. DEFINE a == g[m]
<1>11. a \in Seq(Byte) /\ g[j] = a \o code
  BY <1>5, <1>10 DEF code, IsNext
<1>12. LiesAt(a \o code, v.bytes, 0)
  <2>1. \A i \in 1 .. Len(g[n]) : v.bytes[0 + i] = g[n][i]
    BY <1>2 DEF LiesAt
  <2>2. ASSUME NEW i \in 1 .. Len(g[j]) PROVE v.bytes[0 + i] = g[j][i]
    <3>1. i \in 1 .. Len(g[n]) /\ 0 + i = i
      BY <1>9
    <3>2. g[n][0 + i] = g[j][i]
      BY <1>9 DEF LiesAt
    <3>. QED  BY <2>1, <3>1, <3>2
  <2>3. LiesAt(g[j], v.bytes, 0)
    BY <2>2 DEF LiesAt
  <2>. HIDE DEF a
  <2>. QED  BY <1>11, <2>3
<1>13. v.l = Len(a)
  BY DEF g
<1>. HIDE DEF a
<1>14. LiesAt(code, v.bytes, v.l) /\ Len(g[j]) = v.l + Len(code)
  <2>1. LiesAt(code, v.bytes, 0 + Len(a))
    BY <1>7, <1>11, <1>12, HalvesLie
  <2>2. Len(a \o code) = Len(a) + Len(code) /\ Len(a) \in Nat
    BY <1>7, <1>11, ConcatIs
  <2>. QED  BY <1>11, <1>13, <2>1, <2>2
<1>15. v.l + Len(code) <= v.size
  BY <1>2, <1>9, <1>14
<1>16. Reads(v, TagEnd(v), tag, body)
  <2>1. LiesAt(Tlv(tag, body), v.bytes, v.l) /\ v.l + Len(Tlv(tag, body)) <= v.size
    BY <1>7, <1>14, <1>15
  <2>. QED  BY <1>7, <1>8, <2>1, TlvIsRead
<1>17. End(v, TagEnd(v)) = Len(g[j])
  <2>1. End(v, TagEnd(v)) = v.l + Len(Tlv(tag, body))
    BY <1>16 DEF Reads
  <2>. QED  BY <1>7, <1>14, <2>1
<1>18. NextTag(w, c, q, m, v, j)
  BY <1>5, <1>16, <1>17 DEF NextTag, IsNext, g, n, tag, body, code
<1>. QED  BY <1>18

(* The turn finds the tag of the header that is read. *)
LEMMA TurnReads ==
  ASSUME AsnInv, Turn, target = 0, NEW v, v = Last(levels),
         NEW tag, tag # <<>>, NEW content, content \in Seq(Byte),
         tag[1] = 0 => Len(content) > 0,
         Reads(v, TagEnd(v), tag, content)
  PROVE  \E e : /\ Found(v, TagEnd(v), e)
                /\ e.tag = tag /\ e.content = IF IsSequence(e) THEN <<>> ELSE content
<1>. DEFINE at == TagEnd(v)
<1>1. Parsing /\ v.l < v.size /\ IsTurn(v) /\ elements \in Seq(CASNTag)
  BY LastLevel, TypeParts DEF Turn, AsnInv
<1>2. /\ at < v.size /\ LengthInArray(v, at) /\ Bounded(v, at) /\ at \in Nat
      /\ DataLen(v, at) = Len(content) /\ End(v, at) <= v.size
      /\ SubSeq(v.bytes, v.l + 1, at + 1) = tag /\ Content(v, at) = content
      /\ at = v.l + Len(tag) - 1
  BY DEF Reads
<1>3. v.l \in Nat /\ v.size \in Nat /\ v.l <= at /\ End(v, at) \in Nat
  <2>1. v.l \in Nat /\ v.size \in Nat /\ at \in v.l .. v.size
    BY <1>1, TagEndIs DEF IsTurn, Levels
  <2>2. Fits(v, at)
    BY <1>1, <1>2, <2>1 DEF Fits
  <2>. QED  BY <2>1, <2>2, FitsIs
<1>4. tag[1] = v.bytes[v.l + 1]
  <2>1. v.bytes \in Seq(Byte) /\ at + 1 <= Len(v.bytes) /\ Len(v.bytes) \in Nat
    <3>1. v.bytes \in Seq(Byte) /\ v.size <= Len(v.bytes)
      BY <1>1 DEF IsTurn, Levels
    <3>. DEFINE z == Len(v.bytes)
    <3>2. z \in Nat /\ at < v.size /\ v.size <= z /\ v.size \in Nat /\ at \in Nat
      BY <1>2, <1>3, <3>1
    <3>. HIDE DEF z, at
    <3>3. at + 1 <= z
      BY <3>2
    <3>. QED  BY <3>1, <3>2, <3>3 DEF z
  <2>2. SubSeq(v.bytes, v.l + 1, at + 1)[1] = v.bytes[v.l + 1] /\ 1 \in 1 .. (at + 1) - v.l
    <3>. DEFINE s == v.bytes
    <3>1. s \in Seq(Byte) /\ v.l \in Nat /\ at + 1 \in Nat /\ v.l <= at + 1 /\ at + 1 <= Len(s)
      BY <1>2, <1>3, <2>1
    <3>2. 1 \in 1 .. (at + 1) - v.l
      BY <1>2, <1>3
    <3>. HIDE DEF s, at
    <3>. DEFINE l == v.l
                k == at + 1
    <3>3. s \in Seq(Byte) /\ l \in Nat /\ k \in Nat /\ l <= k /\ k <= Len(s) /\ 1 \in 1 .. k - l
      BY <3>1, <3>2
    <3>. HIDE DEF l, k
    <3>4. \A i \in 1 .. k - l : SubSeq(s, l + 1, k)[i] = s[l + i]
      BY <3>3, SubSeqIs
    <3>5. SubSeq(s, l + 1, k)[1] = s[l + 1]
      BY <3>3, <3>4
    <3>. QED  BY <3>2, <3>5 DEF s, l, k
  <2>. QED  BY <1>2, <2>2
<1>. HIDE DEF at
<1>5. ~IsEndOfContents(v, at)
  <2>1. v.bytes[v.l + 1] = 0 => Len(content) > 0
    BY <1>4
  <2>2. Len(content) > 0 => Len(content) # 0
    OBVIOUS
  <2>. QED  BY <1>2, <2>1, <2>2 DEF IsEndOfContents
<1>6. Element(v, at)
  <2>1. at # v.size
    BY <1>2, <1>3
  <2>. QED  BY <1>2, <1>5, <2>1 DEF Turn, ReadBeyondArray, EndOfContents, at
<1>. DEFINE e0 == NewElement(v, at)
<1>7. /\ \/ elements' = Append(elements, e0)
         \/ elements' = Append(elements, [e0 EXCEPT !.content = Content(v, at)])
  <2>1. ~(End(v, at) > v.size)
    BY <1>2, <1>3
  <2>. HIDE DEF e0
  <2>. QED  BY <1>2, <1>6, <2>1 DEF Element, e0
<1>8. elements' # elements
  <2>1. ASSUME NEW x PROVE Append(elements, x) # elements
    <3>. DEFINE ds == Append(elements, x)
    <3>1. Len(ds) = Len(elements) + 1 /\ Len(elements) \in Nat
      BY <1>1
    <3>2. Len(elements) + 1 # Len(elements)
      BY <3>1
    <3>. HIDE DEF ds
    <3>3. ds # elements
      BY <3>1, <3>2
    <3>. QED  BY <3>3 DEF ds
  <2>. HIDE DEF e0
  <2>. QED  BY <1>7, <2>1
<1>9. ~Throw /\ ~Stray /\ ~ReturnFromParse
  BY <1>8 DEF Throw, Stray, ReturnFromParse
<1>10. PICK u, a, e : Found(u, a, e)
  BY <1>9, TurnIs DEF AsnInv
<1>11. u = v /\ a = at
  BY <1>10 DEF Found, at
<1>12. Found(v, at, e)
  BY <1>10, <1>11
<1>13. e.tag = tag /\ (IsSequence(e) => e.content = <<>>)
  <2>1. e.tag = SubSeq(v.bytes, v.l + 1, at + 1) /\ (IsSequence(e) => e.content = <<>>)
    BY <1>12, FoundHas DEF AsnInv
  <2>. QED  BY <1>2, <2>1
<1>14. ~IsSequence(e) => e.content = content
  <2>1. Adds(v, at, e, Len(levels), Len(elements))
    BY <1>12, FoundIs DEF AsnInv
  <2>2. ~IsSequence(e) => e.content = Content(v, at)
    BY <2>1, Zenon DEF Adds
  <2>. QED  BY <1>2, <2>2
<1>. QED  BY <1>12, <1>13, <1>14 DEF at

(* The tag e that is found is the tag j, the next one of those written in  *)
(* the tag that it is in.                                                  *)
Finds(es, w, c, f, r, e, j) ==
  /\ IsTree(es) /\ Copies(es, w, c, f) /\ Covers(es, w, c, f, r)
  /\ e \in CASNTag /\ e.parent \in 0 .. Len(es) /\ Open(es, e.parent) /\ ~e.forced
  /\ e.tag = w[j].tag /\ e.content = IF IsSequence(e) THEN <<>> ELSE Body(w, c, j)
  /\ IsNext(w, c, f[e.parent], Part(w, c, f[e.parent]), r[e.parent], j)

(* Which one it is, and how far the tag that it is in has been read. *)
WithTag(f, n, j) == [i \in 0 .. n + 1 |-> IF i = n + 1 THEN j ELSE f[i]]
ReadTo(r, n, p, j) ==
  [i \in 0 .. n + 1 |-> IF i = n + 1 THEN 0 ELSE IF i = p THEN j ELSE r[i]]

(* The tags, with it. *)
FindsMore(es, w, f, r, e, j, ds, f2, r2, n) ==
  /\ n = Len(es) /\ n \in Nat /\ es \in Seq(CASNTag) /\ ds \in Seq(CASNTag) /\ Len(ds) = n + 1
  /\ ds[n + 1] = e /\ \A i \in 1 .. n : ds[i] = es[i]
  /\ j \in 1 .. Len(w) /\ Len(w) \in Nat
  /\ f2 \in [0 .. n + 1 -> 0 .. Len(w)] /\ f2[n + 1] = j /\ \A i \in 0 .. n : f2[i] = f[i]
  /\ r2 \in [0 .. n + 1 -> 0 .. Len(w)] /\ r2[n + 1] = 0 /\ r2[e.parent] = j
  /\ \A i \in 0 .. n : i # e.parent => r2[i] = r[i]
  /\ \A i \in 0 .. n : Open(ds, i) = Open(es, i)
  /\ (Open(ds, n + 1) <=> IsSequence(e))
  /\ e.parent \in 0 .. n /\ n + 1 \notin 0 .. n

LEMMA FindsMoreIs ==
  ASSUME NEW w, NEW c, NEW bytes, IsWritten(w, c, bytes),
         NEW es, NEW f, NEW r, NEW e, NEW j, Finds(es, w, c, f, r, e, j)
  PROVE  FindsMore(es, w, f, r, e, j, Append(es, e), WithTag(f, Len(es), j),
                   ReadTo(r, Len(es), e.parent, j), Len(es))
<1>. DEFINE n == Len(es)
            m == Len(w)
            ds == Append(es, e)
            f2 == WithTag(f, n, j)
            r2 == ReadTo(r, n, e.parent, j)
<1>1. es \in Seq(CASNTag) /\ e \in CASNTag /\ e.parent \in 0 .. n
  BY DEF Finds, IsTree
<1>2. /\ n \in Nat /\ ds \in Seq(CASNTag) /\ Len(ds) = n + 1 /\ ds[n + 1] = e
      /\ \A i \in 1 .. n : ds[i] = es[i]
  BY <1>1
<1>3. m \in Nat
  BY TreeIs DEF IsWritten
<1>4. f \in [0 .. n -> 0 .. m] /\ r \in [0 .. n -> 0 .. m]
  BY DEF Finds, Copies, Covers
<1>5. j \in r[e.parent] + 1 .. m
  BY DEF Finds, IsNext
<1>. HIDE DEF n, m, ds
<1>6. j \in 1 .. m /\ j \in 0 .. m
  <2>1. r[e.parent] \in 0 .. m
    BY <1>1, <1>4
  <2>. QED  BY <1>3, <1>5, <2>1
<1>7. n + 1 \in 0 .. n + 1 /\ n + 1 \notin 0 .. n /\ (\A i \in 0 .. n : i \in 0 .. n + 1)
      /\ \A i \in 0 .. n + 1 : i = n + 1 \/ i \in 0 .. n
  BY <1>2
<1>8. /\ f2 \in [0 .. n + 1 -> 0 .. m] /\ f2[n + 1] = j /\ \A i \in 0 .. n : f2[i] = f[i]
  <2>1. f2 = [i \in 0 .. n + 1 |-> IF i = n + 1 THEN j ELSE f[i]]
    BY DEF WithTag
  <2>2. \A i \in 0 .. n + 1 : (IF i = n + 1 THEN j ELSE f[i]) \in 0 .. m
    BY <1>4, <1>6, <1>7
  <2>. HIDE DEF f2
  <2>. QED  BY <1>7, <2>1, <2>2
<1>9. /\ r2 \in [0 .. n + 1 -> 0 .. m] /\ r2[n + 1] = 0 /\ r2[e.parent] = j
      /\ \A i \in 0 .. n : i # e.parent => r2[i] = r[i]
  <2>1. r2 = [i \in 0 .. n + 1 |-> IF i = n + 1 THEN 0 ELSE IF i = e.parent THEN j ELSE r[i]]
    BY DEF ReadTo
  <2>2. 0 \in 0 .. m
    BY <1>3
  <2>3. \A i \in 0 .. n + 1 : (IF i = n + 1 THEN 0 ELSE IF i = e.parent THEN j ELSE r[i]) \in 0 .. m
    BY <1>4, <1>6, <1>7, <2>2
  <2>. HIDE DEF r2
  <2>. QED  BY <1>1, <1>7, <2>1, <2>3
<1>10. ASSUME NEW i \in 0 .. n PROVE Open(ds, i) = Open(es, i)
  <2>1. i = 0 \/ i \in 1 .. n
    BY <1>2
  <2>. QED  BY <1>2, <2>1 DEF Open
<1>11. (Open(ds, n + 1) <=> IsSequence(e))
  <2>1. n + 1 # 0
    BY <1>2
  <2>2. ds[n + 1] = e
    BY <1>2
  <2>. QED  BY <2>1, <2>2, Zenon DEF Open
<1>. HIDE DEF f2, r2
<1>. QED  BY <1>1, <1>2, <1>3, <1>6, <1>7, <1>8, <1>9, <1>10, <1>11
         DEF FindsMore, n, m, ds, f2, r2

LEMMA CopiesMore ==
  ASSUME NEW w, NEW c, NEW bytes, IsWritten(w, c, bytes),
         NEW es, NEW f, NEW r, NEW e, NEW j, Finds(es, w, c, f, r, e, j),
         NEW ds, NEW f2, NEW r2, NEW n, FindsMore(es, w, f, r, e, j, ds, f2, r2, n)
  PROVE  Copies(ds, w, c, f2)
<1>1. /\ n = Len(es) /\ n \in Nat /\ Len(ds) = n + 1
      /\ ds[n + 1] = e /\ (\A i \in 1 .. n : ds[i] = es[i])
      /\ f2 \in [0 .. n + 1 -> 0 .. Len(w)] /\ f2[n + 1] = j /\ (\A i \in 0 .. n : f2[i] = f[i])
      /\ j \in 1 .. Len(w) /\ Len(w) \in Nat
  BY DEF FindsMore
<1>2. /\ f[0] = 0
      /\ \A i \in 1 .. n :
           /\ f[i] # 0 /\ es[i].tag = w[f[i]].tag /\ ~es[i].forced
           /\ es[i].content = IF IsSequence(es[i]) THEN <<>> ELSE Body(w, c, f[i])
  BY <1>1 DEF Finds, Copies
<1>3. /\ ~e.forced /\ e.tag = w[j].tag
      /\ e.content = IF IsSequence(e) THEN <<>> ELSE Body(w, c, j)
  BY DEF Finds
<1>4. f2[0] = 0
  BY <1>1, <1>2
<1>5. ASSUME NEW i \in 1 .. n + 1
      PROVE  /\ f2[i] # 0 /\ ds[i].tag = w[f2[i]].tag /\ ~ds[i].forced
             /\ ds[i].content = IF IsSequence(ds[i]) THEN <<>> ELSE Body(w, c, f2[i])
  <2>1. CASE i = n + 1
    <3>1. ds[i] = e /\ f2[i] = j /\ j # 0
      BY <1>1, <2>1
    <3>. QED  BY <1>3, <3>1
  <2>2. CASE i \in 1 .. n
    <3>1. ds[i] = es[i] /\ f2[i] = f[i]
      BY <1>1, <2>2
    <3>. QED  BY <1>2, <2>2, <3>1
  <2>3. i \in 1 .. n \/ i = n + 1
    BY <1>1
  <2>. QED  BY <2>1, <2>2, <2>3
<1>. QED  BY <1>1, <1>4, <1>5 DEF Copies

LEMMA CoversMore ==
  ASSUME NEW w, NEW c, NEW bytes, IsWritten(w, c, bytes),
         NEW es, NEW f, NEW r, NEW e, NEW j, Finds(es, w, c, f, r, e, j),
         NEW n, NEW f2, NEW r2, FindsMore(es, w, f, r, e, j, Append(es, e), f2, r2, n)
  PROVE  Covers(Append(es, e), w, c, f2, r2)
<1>. DEFINE ds == Append(es, e)
            d == CodesOf(es, c, f)
            d2 == CodesOf(ds, c, f2)
            p == e.parent
<1>1. /\ n = Len(es) /\ n \in Nat /\ es \in Seq(CASNTag) /\ Len(ds) = n + 1
      /\ f2 \in [0 .. n + 1 -> 0 .. Len(w)] /\ f2[n + 1] = j /\ (\A i \in 0 .. n : f2[i] = f[i])
      /\ r2 \in [0 .. n + 1 -> 0 .. Len(w)] /\ r2[n + 1] = 0 /\ r2[p] = j
      /\ (\A i \in 0 .. n : i # p => r2[i] = r[i])
      /\ (\A i \in 0 .. n : Open(ds, i) = Open(es, i))
      /\ p \in 0 .. n /\ n + 1 \notin 0 .. n
  BY DEF FindsMore
<1>2. /\ e \in CASNTag /\ Open(es, p)
      /\ IsNext(w, c, f[p], Part(w, c, f[p]), r[p], j)
  BY DEF Finds
<1>3. \A i \in 0 .. n : Open(es, i) => Children(es, d, i) = Part(w, c, f[i])[r[i]]
  BY <1>1 DEF Finds, Covers
<1>4. \A i \in 0 .. Len(w) : c[i] \in Seq(Byte)
  BY WrittenIs
<1>5. \A i \in 0 .. n : d[i] = c[f[i]]
  BY <1>1 DEF CodesOf
<1>6. \A i \in 0 .. n + 1 : d2[i] = c[f2[i]]
  BY <1>1 DEF CodesOf
<1>. HIDE DEF ds, d, d2, p
<1>7. (\A i \in 0 .. n : d2[i] = d[i] /\ d[i] \in Seq(Byte)) /\ d2[n + 1] = c[j]
      /\ c[j] \in Seq(Byte)
  <2>1. ASSUME NEW i \in 0 .. n PROVE d2[i] = d[i] /\ d[i] \in Seq(Byte)
    <3>1. i \in 0 .. n + 1 /\ f2[i] \in 0 .. Len(w) /\ f2[i] = f[i]
      BY <1>1
    <3>. QED  BY <1>4, <1>5, <1>6, <3>1
  <2>2. n + 1 \in 0 .. n + 1 /\ j \in 0 .. Len(w)
    BY <1>1
  <2>. QED  BY <1>1, <1>4, <1>6, <2>1, <2>2
<1>8. ASSUME NEW i \in 0 .. n + 1
      PROVE  Children(ds, d2, i) = IF p = i THEN Children(es, d, i) \o c[j] ELSE Children(es, d, i)
  <2>1. \A x \in 1 .. Len(es) : es[x].parent = i => d2[x] = d[x] /\ d[x] \in Seq(Byte)
    BY <1>1, <1>7
  <2>2. e.parent = i => d2[Len(es) + 1] \in Seq(Byte)
    BY <1>1, <1>7
  <2>3. Children(Append(es, e), d2, i) =
           IF e.parent = i THEN Children(es, d, i) \o d2[Len(es) + 1] ELSE Children(es, d, i)
    BY <1>1, <1>2, <2>1, <2>2, ChildrenOfMore
  <2>. QED  BY <1>1, <1>7, <2>3 DEF ds, p
<1>9. ASSUME NEW i \in 0 .. n, Open(ds, i)
      PROVE  Children(ds, d2, i) = Part(w, c, f2[i])[r2[i]]
  <2>1. Open(es, i) /\ f2[i] = f[i] /\ i \in 0 .. n + 1
    BY <1>1, <1>9
  <2>2. Children(es, d, i) = Part(w, c, f[i])[r[i]]
    BY <1>3, <2>1
  <2>3. CASE i = p
    <3>1. Part(w, c, f[p])[j] = Part(w, c, f[p])[r[p]] \o c[j]
      BY <1>2 DEF IsNext
    <3>. QED  BY <1>1, <1>8, <2>1, <2>2, <2>3, <3>1
  <2>4. CASE i # p
    BY <1>1, <1>8, <2>1, <2>2, <2>4
  <2>. QED  BY <2>3, <2>4
<1>10. Children(ds, d2, n + 1) = Part(w, c, f2[n + 1])[r2[n + 1]]
  <2>1. n + 1 \in 0 .. n + 1 /\ p # n + 1
    BY <1>1
  <2>2. Children(ds, d2, n + 1) = Children(es, d, n + 1)
    BY <1>8, <2>1
  <2>3. Children(es, d, n + 1) = <<>>
    <3>1. \A x \in 1 .. Len(es) : es[x].parent # n + 1
      <4>1. IsTree(es)
        BY DEF Finds
      <4>2. \A x \in 1 .. Len(es) : es[x].parent \in Nat /\ es[x].parent < x
        BY <4>1, TreeIs
      <4>. QED  BY <1>1, <4>2
    <3>2. PICK g : Gathered(g, es, d, n + 1)
      <4>1. \A x \in 1 .. Len(es) : es[x].parent = n + 1 => d[x] \in Seq(Byte)
        BY <3>1
      <4>. QED  BY <1>1, <4>1, ChildrenAre
    <3>3. g[n] = g[0]
      <4>. DEFINE q == n + 1
      <4>1. Gathered(g, es, d, q) /\ \A x \in 0 + 1 .. n : es[x].parent # q
        BY <1>1, <3>1, <3>2
      <4>2. es \in Seq(CASNTag) /\ 0 \in 0 .. Len(es) /\ n \in 0 .. Len(es)
        BY <1>1
      <4>. HIDE DEF q
      <4>. QED  BY <4>1, <4>2, PartsStay
    <3>. QED  BY <1>1, <3>2, <3>3 DEF Gathered
  <2>4. Part(w, c, j)[0] = <<>>
    <3>1. j \in 0 .. Len(w)
      BY <1>1, <2>1
    <3>2. Gathered(Part(w, c, j), w, c, j)
      BY <3>1, WrittenIs
    <3>. QED  BY <3>2 DEF Gathered
  <2>. QED  BY <1>1, <2>2, <2>3, <2>4
<1>11. ASSUME NEW i \in 0 .. n + 1, Open(ds, i)
       PROVE  Children(ds, d2, i) = Part(w, c, f2[i])[r2[i]]
  <2>1. i \in 0 .. n \/ i = n + 1
    BY <1>1
  <2>. QED  BY <1>9, <1>10, <1>11, <2>1
<1>. QED  BY <1>1, <1>11 DEF Covers, ds, d2, p

(* The innermost of the levels is behind the tag e, and one that has its   *)
(* content follows if that is a sequence.                                  *)
LevelsGo(ls, l2, e, n, l, content) ==
  /\ ls \in Seq(Levels) /\ l2 \in Seq(Levels) /\ Len(ls) \in Nat \ {0}
  /\ \A k \in 1 .. Len(ls) - 1 : l2[k] = ls[k]
  /\ ls[Len(ls)].parent = e.parent
  /\ l2[Len(ls)].parent = e.parent /\ l2[Len(ls)].l = l
  /\ l2[Len(ls)].size = ls[Len(ls)].size /\ l2[Len(ls)].bytes = ls[Len(ls)].bytes
  /\ IF IsSequence(e)
     THEN /\ Len(l2) = Len(ls) + 1
          /\ l2[Len(ls) + 1].parent = n + 1 /\ l2[Len(ls) + 1].l = 0
          /\ l2[Len(ls) + 1].size = Len(content) /\ LiesAt(content, l2[Len(ls) + 1].bytes, 0)
     ELSE Len(l2) = Len(ls)

LEMMA LevelsMore ==
  ASSUME NEW w, NEW c, NEW bytes, IsWritten(w, c, bytes),
         NEW es, NEW f, NEW r, NEW e, NEW j, Finds(es, w, c, f, r, e, j),
         NEW ds, NEW f2, NEW r2, NEW n, FindsMore(es, w, f, r, e, j, ds, f2, r2, n),
         NEW ls, LevelsRead(ls, es, w, c, f, r),
         NEW l2, LevelsGo(ls, l2, e, n, Len(Part(w, c, f[e.parent])[j]), Body(w, c, j))
  PROVE  LevelsRead(l2, ds, w, c, f2, r2)
<1>. DEFINE z == Len(ls)
            p == e.parent
<1>1. /\ n = Len(es) /\ n \in Nat /\ Len(ds) = n + 1
      /\ f2[n + 1] = j /\ (\A i \in 0 .. n : f2[i] = f[i])
      /\ r2[n + 1] = 0 /\ r2[p] = j
      /\ (\A i \in 0 .. n : i # p => r2[i] = r[i])
      /\ (\A i \in 0 .. n : Open(ds, i) = Open(es, i))
      /\ (Open(ds, n + 1) <=> IsSequence(e))
      /\ p \in 0 .. n /\ n + 1 \notin 0 .. n /\ j \in 1 .. Len(w)
  BY DEF FindsMore
<1>2. /\ z \in Nat \ {0} /\ ls \in Seq(Levels) /\ l2 \in Seq(Levels)
      /\ (\A k \in 1 .. z - 1 : l2[k] = ls[k])
      /\ ls[z].parent = p /\ l2[z].parent = p
      /\ l2[z].l = Len(Part(w, c, f[p])[j])
      /\ l2[z].size = ls[z].size /\ l2[z].bytes = ls[z].bytes
      /\ IF IsSequence(e) THEN Len(l2) = z + 1 ELSE Len(l2) = z
  BY DEF LevelsGo
<1>3. DOMAIN ls = 1 .. z /\ DOMAIN l2 = 1 .. Len(l2)
  BY <1>2
<1>. HIDE DEF z, p
<1>4. /\ \A k \in 1 .. z : LevelReads(ls[k], es, w, c, f, r)
      /\ \A i, k \in 1 .. z : i < k => ls[i].parent < ls[k].parent
  BY <1>3 DEF LevelsRead
<1>5. ASSUME NEW k \in 1 .. z PROVE ls[k].parent \in 0 .. n
  BY <1>1, <1>4 DEF LevelReads
<1>6. ASSUME NEW k \in 1 .. z - 1
      PROVE  k \in 1 .. z /\ l2[k] = ls[k] /\ ls[k].parent \in 0 .. n /\ ls[k].parent < p
  <2>1. k \in 1 .. z /\ z \in 1 .. z /\ k < z
    BY <1>2
  <2>. QED  BY <1>2, <1>4, <1>5, <2>1
<1>7. \A i \in 0 .. n : i \in 0 .. Len(ds)
  BY <1>1
<1>8. ASSUME NEW k \in 1 .. z - 1 PROVE LevelReads(l2[k], ds, w, c, f2, r2)
  <2>. DEFINE v == ls[k]
              q == v.parent
  <2>1. q \in 0 .. n /\ q < p /\ q # p /\ l2[k] = v /\ q \in 0 .. Len(ds)
    BY <1>1, <1>6, <1>7
  <2>2. LevelReads(v, es, w, c, f, r)
    BY <1>4, <1>6
  <2>3. f2[q] = f[q] /\ r2[q] = r[q] /\ Open(ds, q) = Open(es, q)
    BY <1>1, <2>1
  <2>. HIDE DEF v
  <2>. QED  BY <2>1, <2>2, <2>3 DEF LevelReads
<1>9. LevelReads(l2[z], ds, w, c, f2, r2)
  <2>. DEFINE v == ls[z]
              y == l2[z]
  <2>1. z \in 1 .. z
    BY <1>2
  <2>2. LevelReads(v, es, w, c, f, r)
    BY <1>4, <2>1
  <2>3. v.parent = p /\ y.parent = p /\ y.size = v.size /\ y.bytes = v.bytes
        /\ y.l = Len(Part(w, c, f[p])[j])
    BY <1>2
  <2>4. p \in 0 .. Len(ds) /\ f2[p] = f[p] /\ r2[p] = j /\ Open(ds, p) = Open(es, p)
    BY <1>1, <1>7
  <2>. HIDE DEF v, y
  <2>5. LevelReads(y, ds, w, c, f2, r2)
    BY <2>2, <2>3, <2>4 DEF LevelReads
  <2>. QED  BY <2>5 DEF y
<1>10. ASSUME IsSequence(e) PROVE LevelReads(l2[z + 1], ds, w, c, f2, r2) /\ l2[z + 1].parent = n + 1
  <2>. DEFINE x == l2[z + 1]
  <2>1. x.parent = n + 1 /\ x.l = 0 /\ x.size = Len(Body(w, c, j)) /\ LiesAt(Body(w, c, j), x.bytes, 0)
    BY <1>10 DEF LevelsGo, z
  <2>2. Body(w, c, j) = Children(w, c, j)
    <3>1. ~e.forced /\ e.tag = w[j].tag
      BY DEF Finds
    <3>2. IsSequence(w[j])
      BY <1>10, <3>1 DEF IsSequence
    <3>. QED  BY <3>2 DEF Body
  <2>3. Part(w, c, j)[0] = <<>> /\ Len(<<>>) = 0
    <3>1. j \in 0 .. Len(w)
      BY <1>1
    <3>2. Gathered(Part(w, c, j), w, c, j)
      BY <3>1, WrittenIs
    <3>. QED  BY <3>2 DEF Gathered
  <2>4. n + 1 \in 0 .. Len(ds) /\ Open(ds, n + 1)
    BY <1>1, <1>10
  <2>. HIDE DEF x
  <2>5. LevelReads(x, ds, w, c, f2, r2)
    <3>1. x.l = Len(Part(w, c, f2[n + 1])[r2[n + 1]])
      BY <1>1, <2>1, <2>3
    <3>. QED  BY <1>1, <2>1, <2>2, <2>4, <3>1 DEF LevelReads
  <2>. QED  BY <2>1, <2>5 DEF x
<1>11. \A k \in 1 .. Len(l2) : k \in 1 .. z - 1 \/ k = z \/ (k = z + 1 /\ IsSequence(e))
  BY <1>2
<1>12. \A k \in 1 .. Len(l2) : LevelReads(l2[k], ds, w, c, f2, r2)
  BY <1>8, <1>9, <1>10, <1>11
<1>13. ASSUME NEW i \in 1 .. Len(l2), NEW k \in 1 .. Len(l2), i < k
       PROVE  l2[i].parent < l2[k].parent
  <2>1. CASE k = z + 1 /\ IsSequence(e)
    <3>1. l2[k].parent = n + 1
      BY <1>10, <2>1
    <3>2. i \in 1 .. z - 1 \/ i = z
      BY <1>2, <1>13, <2>1
    <3>3. l2[i].parent \in 0 .. n
      BY <1>1, <1>2, <1>6, <3>2
    <3>. QED  BY <1>1, <3>1, <3>3
  <2>2. CASE k = z
    <3>1. i \in 1 .. z - 1
      BY <1>2, <1>13, <2>2
    <3>. QED  BY <1>2, <1>6, <2>2, <3>1
  <2>3. CASE k \in 1 .. z - 1
    <3>1. i \in 1 .. z - 1 /\ i \in 1 .. z /\ k \in 1 .. z
      BY <1>2, <1>13, <2>3
    <3>. QED  BY <1>4, <1>6, <1>13, <2>3, <3>1
  <2>. QED  BY <1>11, <2>1, <2>2, <2>3
<1>. QED  BY <1>3, <1>12, <1>13 DEF LevelsRead

LEMMA ClosedMore ==
  ASSUME NEW w, NEW c, NEW es, NEW f, NEW r, NEW e, NEW j,
         NEW ds, NEW f2, NEW r2, NEW n, FindsMore(es, w, f, r, e, j, ds, f2, r2, n),
         NEW ls, Closed(ls, es, w, f, r),
         NEW l2, LevelsGo(ls, l2, e, n, Len(Part(w, c, f[e.parent])[j]), Body(w, c, j))
  PROVE  Closed(l2, ds, w, f2, r2)
<1>. DEFINE z == Len(ls)
            p == e.parent
<1>1. /\ n = Len(es) /\ n \in Nat /\ Len(ds) = n + 1
      /\ (\A i \in 0 .. n : f2[i] = f[i])
      /\ (\A i \in 0 .. n : i # p => r2[i] = r[i])
      /\ (\A i \in 0 .. n : Open(ds, i) = Open(es, i))
      /\ (Open(ds, n + 1) <=> IsSequence(e))
  BY DEF FindsMore
<1>2. /\ z \in Nat \ {0} /\ ls \in Seq(Levels) /\ l2 \in Seq(Levels)
      /\ (\A k \in 1 .. z - 1 : l2[k] = ls[k])
      /\ ls[z].parent = p /\ l2[z].parent = p
      /\ (Len(l2) = z \/ Len(l2) = z + 1)
      /\ (IsSequence(e) => Len(l2) = z + 1 /\ l2[z + 1].parent = n + 1)
  BY DEF LevelsGo
<1>3. DOMAIN ls = 1 .. z /\ DOMAIN l2 = 1 .. Len(l2)
  BY <1>2
<1>. HIDE DEF z, p
<1>4. SUFFICES ASSUME NEW i \in 0 .. n + 1, Open(ds, i), \A k \in 1 .. Len(l2) : l2[k].parent # i
               PROVE  \A k \in r2[i] + 1 .. Len(w) : w[k].parent # f2[i]
  BY <1>1, <1>3 DEF Closed
<1>5. i \in 0 .. n
  <2>1. CASE i = n + 1
    <3>1. Len(l2) = z + 1 /\ l2[z + 1].parent = i /\ z + 1 \in 1 .. z + 1
      BY <1>1, <1>2, <1>4, <2>1
    <3>. QED  BY <1>4, <3>1
  <2>2. i \in 0 .. n \/ i = n + 1
    BY <1>1
  <2>. QED  BY <2>1, <2>2
<1>6. i # p
  <2>1. z \in 1 .. Len(l2)
    BY <1>2
  <2>. QED  BY <1>2, <1>4, <2>1
<1>7. \A k \in 1 .. z : ls[k].parent # i
  <2>1. \A k \in 1 .. z : k = z \/ (k \in 1 .. z - 1 /\ k \in 1 .. Len(l2))
    BY <1>2
  <2>. QED  BY <1>2, <1>4, <1>6, <2>1
<1>8. \A k \in r[i] + 1 .. Len(w) : w[k].parent # f[i]
  BY <1>1, <1>3, <1>4, <1>5, <1>7 DEF Closed
<1>. QED  BY <1>1, <1>5, <1>6, <1>8

LEMMA InOrderMore ==
  ASSUME NEW w, NEW c, NEW bytes, IsWritten(w, c, bytes), Unforced(w),
         NEW es, NEW f, NEW r, NEW e, NEW j, Finds(es, w, c, f, r, e, j),
         NEW ds, NEW f2, NEW r2, NEW n, FindsMore(es, w, f, r, e, j, ds, f2, r2, n),
         InOrder(es, w, f, r),
         \A s \in e.parent + 1 .. n : Open(es, s) => \A k \in r[s] + 1 .. Len(w) : w[k].parent # f[s]
  PROVE  InOrder(ds, w, f2, r2)
<1>. DEFINE p == e.parent
            m == Len(w)
<1>1. /\ n = Len(es) /\ n \in Nat /\ Len(ds) = n + 1
      /\ ds[n + 1] = e /\ (\A i \in 1 .. n : ds[i] = es[i])
      /\ f2[n + 1] = j /\ (\A i \in 0 .. n : f2[i] = f[i])
      /\ r2[n + 1] = 0 /\ r2[p] = j
      /\ (\A i \in 0 .. n : i # p => r2[i] = r[i])
      /\ (\A i \in 0 .. n : Open(ds, i) = Open(es, i))
      /\ p \in 0 .. n /\ n + 1 \notin 0 .. n /\ j \in 1 .. m /\ m \in Nat
  BY DEF FindsMore
<1>2. /\ \A i \in 1 .. n : f[i] = i /\ es[i].parent = w[i].parent
      /\ \A i \in 0 .. n :
           Open(es, i) => /\ r[i] <= n
                          /\ \A k \in 1 .. n : w[k].parent = i => k <= r[i]
  BY <1>1 DEF InOrder
<1>3. /\ Copies(es, w, c, f) /\ Covers(es, w, c, f, r) /\ Open(es, p)
      /\ IsNext(w, c, f[p], Part(w, c, f[p]), r[p], j)
  BY DEF Finds
<1>4. /\ f[0] = 0 /\ r \in [0 .. n -> 0 .. m]
      /\ \A i \in 1 .. n : es[i].tag = w[f[i]].tag
  BY <1>1, <1>3 DEF Copies, Covers
<1>5. \A i \in 0 .. n : f[i] = i
  <2>1. \A i \in 0 .. n : i = 0 \/ i \in 1 .. n
    BY <1>1
  <2>. QED  BY <1>2, <1>4, <2>1
<1>6. /\ DepthFirst(w) /\ DOMAIN w = 1 .. m
      /\ \A i \in 1 .. m : w[i].parent \in Nat /\ w[i].parent < i
  BY TreeIs DEF IsWritten
<1>7. /\ j \in r[p] + 1 .. m /\ w[j].parent = p
      /\ \A k \in r[p] + 1 .. j - 1 : w[k].parent # p
  BY <1>1, <1>3, <1>5 DEF IsNext
<1>8. r[p] \in 0 .. m /\ r[p] <= n /\ \A k \in 1 .. n : w[k].parent = p => k <= r[p]
  BY <1>1, <1>2, <1>3, <1>4
<1>. HIDE DEF p, m
<1>9. j > n
  <2>1. j \in Nat /\ j > r[p]
    BY <1>1, <1>7, <1>8
  <2>2. ~(j \in 1 .. n)
    BY <1>1, <1>7, <1>8, <2>1
  <2>. QED  BY <1>1, <2>2
<1>10. j = n + 1
  <2>. SUFFICES ASSUME j # n + 1 PROVE FALSE
    OBVIOUS
  <2>. DEFINE k == n + 1
              s == w[k].parent
  <2>1. k < j /\ k \in 1 .. m /\ k \in r[p] + 1 .. j - 1
    BY <1>1, <1>8, <1>9
  <2>2. s # p /\ s \in Nat /\ s < k
    BY <1>6, <1>7, <2>1
  <2>3. p < k
    BY <1>1
  <2>. HIDE DEF k, s
  <2>4. p <= s
    <3>1. w[j].parent < k
      BY <1>7, <2>3
    <3>2. w[j].parent <= w[k].parent
      BY <1>1, <1>6, <2>1, <3>1 DEF DepthFirst
    <3>. QED  BY <1>7, <3>2 DEF s
  <2>5. s \in p + 1 .. n /\ s # 0 /\ s \in 1 .. n /\ s \in 0 .. n
    BY <1>1, <2>2, <2>4 DEF k
  <2>6. IsSequence(w[s])
    <3>1. w[k].parent # 0 /\ k \in DOMAIN w
      BY <1>6, <2>1, <2>5 DEF s
    <3>. QED  BY <1>6, <3>1 DEF DepthFirst, s
  <2>7. Open(es, s)
    <3>1. es[s].tag = w[s].tag
      BY <1>2, <1>4, <2>5
    <3>2. ~w[s].forced
      <4>1. s \in 1 .. m
        BY <1>1, <2>1, <2>2, <2>5
      <4>. QED  BY <1>6, <4>1 DEF Unforced
    <3>3. IsSequence(es[s])
      BY <2>6, <3>1, <3>2 DEF IsSequence
    <3>. QED  BY <3>3 DEF Open
  <2>8. \A x \in r[s] + 1 .. m : w[x].parent # s
    BY <1>5, <2>5, <2>7 DEF p, m
  <2>9. r[s] <= n /\ r[s] \in 0 .. m
    BY <1>2, <1>4, <2>5, <2>7
  <2>10. k \in r[s] + 1 .. m
    BY <1>1, <2>1, <2>9 DEF k
  <2>. QED  BY <2>8, <2>10 DEF s
<1>11. ASSUME NEW i \in 1 .. n + 1 PROVE f2[i] = i /\ ds[i].parent = w[i].parent
  <2>1. CASE i = n + 1
    BY <1>1, <1>7, <1>10, <2>1 DEF p
  <2>2. CASE i \in 1 .. n
    <3>1. i \in 0 .. n
      BY <2>2
    <3>. QED  BY <1>1, <1>2, <2>2, <3>1
  <2>3. i \in 1 .. n \/ i = n + 1
    BY <1>1
  <2>. QED  BY <2>1, <2>2, <2>3
<1>12. ASSUME NEW i \in 0 .. n + 1, Open(ds, i)
       PROVE  r2[i] <= n + 1 /\ \A k \in 1 .. n + 1 : w[k].parent = i => k <= r2[i]
  <2>1. CASE i = n + 1
    <3>1. ASSUME NEW k \in 1 .. n + 1, w[k].parent = i PROVE FALSE
      <4>1. k \in 1 .. m /\ w[k].parent < k /\ w[k].parent \in Nat
        BY <1>1, <1>6, <1>10
      <4>. QED  BY <1>1, <2>1, <3>1, <4>1
    <3>2. r2[i] <= n + 1
      BY <1>1, <2>1
    <3>. QED  BY <3>1, <3>2
  <2>2. CASE i \in 0 .. n /\ i = p
    BY <1>1, <1>10, <2>2
  <2>3. CASE i \in 0 .. n /\ i # p
    <3>1. r2[i] = r[i] /\ Open(es, i)
      BY <1>1, <1>12, <2>3
    <3>2. r[i] <= n /\ r[i] \in 0 .. m
      BY <1>2, <1>4, <2>3, <3>1
    <3>3. ASSUME NEW k \in 1 .. n + 1, w[k].parent = i PROVE k <= r2[i]
      <4>1. k # n + 1
        BY <1>7, <1>10, <2>3, <3>3
      <4>2. k \in 1 .. n
        BY <1>1, <4>1
      <4>. QED  BY <1>2, <2>3, <3>1, <3>3, <4>2
    <3>4. r2[i] <= n + 1
      BY <1>1, <3>1, <3>2
    <3>. QED  BY <3>3, <3>4
  <2>4. i \in 0 .. n \/ i = n + 1
    BY <1>1
  <2>. QED  BY <2>1, <2>2, <2>3, <2>4
<1>. QED  BY <1>1, <1>11, <1>12 DEF InOrder

-----------------------------------------------------------------------------
(* The invariant of reading back, step by step.                            *)

(* What was encoded can be read, and has been as far as the levels are. *)
ReadInv ==
  /\ phase \in {"encoded", "wrapped"} => \E c : IsWritten(written, c, encoded)
  /\ phase \in {"rereading", "reread"} =>
       /\ target = 0
       /\ \E c, f, r : IsWritten(written, c, encoded) /\ ReadBack(levels, elements, written, c, f, r)
  /\ phase = "reread" => levels = <<>>

(* The levels go on behind the tag that is found. *)
LEMMA LevelsGoOn ==
  ASSUME AsnInv, NEW v, NEW at, NEW e, Found(v, at, e),
         NEW tag, NEW content \in Seq(Byte), Reads(v, at, tag, content)
  PROVE  LevelsGo(levels, levels', e, Len(elements), End(v, at), content)
<1>. DEFINE z == Len(levels)
            n == Len(elements)
            y == levels'[z]
            x == levels'[z + 1]
<1>1. Adds(v, at, e, z, n)
  BY FoundIs DEF AsnInv
<1>2. /\ z \in Nat \ {0} /\ levels \in Seq(Levels) /\ levels' \in Seq(Levels) /\ v = levels[z]
      /\ n \in Nat /\ elements \in Seq(CASNTag)
      /\ (\A k \in 1 .. z - 1 : levels'[k] = levels[k])
      /\ y = Behind(v, at) /\ e.parent = v.parent
      /\ Len(levels') = z \/ (Len(levels') = z + 1 /\ x = Inside(v, at))
  BY <1>1 DEF Adds
<1>3. IF IsSequence(e) THEN Len(levels') = z + 1 ELSE Len(levels') = z
  BY FoundHas DEF AsnInv
<1>. HIDE DEF x, y
<1>4. v \in Levels
  BY <1>2
<1>5. y.parent = v.parent /\ y.l = End(v, at) /\ y.size = v.size /\ y.bytes = v.bytes
  BY <1>2, <1>4 DEF Behind, Levels
<1>6. ASSUME IsSequence(e)
      PROVE  /\ x.parent = n + 1 /\ x.l = 0 /\ x.size = Len(content) /\ LiesAt(content, x.bytes, 0)
  <2>1. x = Inside(v, at)
    BY <1>2, <1>3, <1>6
  <2>2. Fits(v, at)
    BY DEF Found
  <2>3. /\ x.parent = n + 1 /\ x.l = 0 /\ x.size = DataLen(v, at)
        /\ x.size <= Len(x.bytes)
        /\ \A i \in 1 .. Len(x.bytes) : x.bytes[i] = v.bytes[at + LengthLen(v, at) + 1 + i]
        /\ x \in Levels
    BY <1>2, <2>1, <2>2, InsideIs
  <2>4. /\ DataLen(v, at) = Len(content) /\ LiesAt(content, v.bytes, at + 1 + LengthLen(v, at))
        /\ at \in Nat
    BY DEF Reads
  <2>5. LengthLen(v, at) \in Nat
    BY <2>2, FitsIs
  <2>6. ASSUME NEW i \in 1 .. Len(content) PROVE x.bytes[0 + i] = content[i]
    <3>1. Len(content) \in Nat /\ Len(x.bytes) \in Nat /\ Len(content) <= Len(x.bytes)
      BY <2>3, <2>4 DEF Levels
    <3>2. i \in 1 .. Len(x.bytes) /\ 0 + i = i
      BY <3>1
    <3>. DEFINE k == LengthLen(v, at)
    <3>3. k \in Nat /\ at \in Nat /\ i \in Nat
      BY <2>4, <2>5
    <3>. HIDE DEF k
    <3>4. at + k + 1 + i = at + 1 + k + i
      BY <3>3
    <3>5. v.bytes[at + 1 + k + i] = content[i]
      BY <2>4 DEF LiesAt, k
    <3>6. x.bytes[i] = v.bytes[at + k + 1 + i]
      BY <2>3, <3>2 DEF k
    <3>. QED  BY <3>2, <3>4, <3>5, <3>6
  <2>. QED  BY <2>3, <2>4, <2>6 DEF LiesAt
<1>. HIDE DEF z, n
<1>7. levels[z].parent = e.parent
  BY <1>2
<1>. QED  BY <1>2, <1>3, <1>5, <1>6, <1>7 DEF LevelsGo, x, y, z, n

(* A tag that is found is the one that was written there. *)
LEMMA ReadFound ==
  ASSUME AsnInv, NEW c, IsWritten(written, c, encoded),
         NEW f, NEW r, ReadBack(levels, elements, written, c, f, r),
         NEW v, NEW at, NEW e, Found(v, at, e),
         NEW j, NextTag(written, c, f[v.parent], r[v.parent], v, j),
         e.tag = written[j].tag,
         e.content = IF IsSequence(e) THEN <<>> ELSE Body(written, c, j)
  PROVE  \E f2, r2 : ReadBack(levels', elements', written, c, f2, r2)
<1>. DEFINE n == Len(elements)
            z == Len(levels)
            p == e.parent
            f2 == WithTag(f, n, j)
            r2 == ReadTo(r, n, p, j)
            ds == Append(elements, e)
<1>1. Adds(v, at, e, z, n)
  BY FoundIs DEF AsnInv
<1>2. /\ z \in Nat \ {0} /\ levels \in Seq(Levels) /\ v = levels[z] /\ n \in Nat
      /\ elements \in Seq(CASNTag) /\ e \in CASNTag /\ p = v.parent /\ e.forced = FALSE
  BY <1>1 DEF Adds
<1>3. elements' = ds /\ at = TagEnd(v)
  BY FoundHas DEF AsnInv, Found
<1>4. DOMAIN levels = 1 .. z /\ z \in 1 .. z
  BY <1>2
<1>5. /\ Copies(elements, written, c, f) /\ Covers(elements, written, c, f, r)
      /\ LevelsRead(levels, elements, written, c, f, r) /\ Closed(levels, elements, written, f, r)
      /\ (Unforced(written) => InOrder(elements, written, f, r))
  BY DEF ReadBack
<1>6. p \in 0 .. n /\ Open(elements, p)
  BY <1>2, <1>4, <1>5 DEF LevelsRead, LevelReads
<1>7. IsTree(elements)
  BY DEF IsTree, AsnInv, AsnTypeOK
<1>8. IsNext(written, c, f[p], Part(written, c, f[p]), r[p], j)
  BY <1>2 DEF NextTag, IsNext
<1>9. Finds(elements, written, c, f, r, e, j)
  BY <1>2, <1>5, <1>6, <1>7, <1>8 DEF Finds
<1>10. FindsMore(elements, written, f, r, e, j, ds, f2, r2, n)
  BY <1>9, FindsMoreIs
<1>11. Body(written, c, j) \in Seq(Byte)
  <2>1. j \in 1 .. Len(written)
    BY <1>10 DEF FindsMore
  <2>. QED  BY <2>1, WrittenIs
<1>12. LevelsGo(levels, levels', e, n, Len(Part(written, c, f[p])[j]), Body(written, c, j))
  <2>1. Reads(v, at, written[j].tag, Body(written, c, j))
        /\ End(v, at) = Len(Part(written, c, f[p])[j])
    BY <1>2, <1>3 DEF NextTag
  <2>2. LevelsGo(levels, levels', e, n, End(v, at), Body(written, c, j))
    BY <1>11, <2>1, LevelsGoOn
  <2>. QED  BY <2>1, <2>2
<1>13. \A s \in p + 1 .. n : Open(elements, s) =>
         \A k \in r[s] + 1 .. Len(written) : written[k].parent # f[s]
  <2>. SUFFICES ASSUME NEW s \in p + 1 .. n, Open(elements, s)
                PROVE  \A k \in r[s] + 1 .. Len(written) : written[k].parent # f[s]
    OBVIOUS
  <2>1. s \in 0 .. n /\ p < s
    BY <1>2, <1>6
  <2>2. ASSUME NEW k \in 1 .. z PROVE levels[k].parent # s
    <3>1. k = z \/ k < z
      BY <1>2
    <3>2. k < z => levels[k].parent < levels[z].parent
      BY <1>4, <1>5 DEF LevelsRead
    <3>3. levels[k].parent \in 0 .. n
      BY <1>4, <1>5 DEF LevelsRead, LevelReads
    <3>. QED  BY <1>2, <1>6, <2>1, <3>1, <3>2, <3>3
  <2>. QED  BY <1>4, <1>5, <2>1, <2>2 DEF Closed
<1>. HIDE DEF n, z, p, f2, r2
<1>14. Copies(ds, written, c, f2)
  BY <1>9, <1>10, CopiesMore
<1>15. Covers(ds, written, c, f2, r2)
  BY <1>9, <1>10, CoversMore
<1>. HIDE DEF ds
<1>16. LevelsRead(levels', ds, written, c, f2, r2)
  BY <1>5, <1>9, <1>10, <1>12, LevelsMore DEF p
<1>17. Closed(levels', ds, written, f2, r2)
  BY <1>5, <1>10, <1>12, ClosedMore DEF p
<1>18. Unforced(written) => InOrder(ds, written, f2, r2)
  BY <1>5, <1>9, <1>10, <1>13, InOrderMore DEF p
<1>19. ReadBack(levels', ds, written, c, f2, r2)
  BY <1>14, <1>15, <1>16, <1>17, <1>18 DEF ReadBack
<1>. QED  BY <1>3, <1>19

(* A turn finds a tag. *)
LEMMA ReadTurn ==
  ASSUME AsnInv, ReadInv, phase = "rereading", Turn
  PROVE  \E c, f, r, v, at, e, j :
           /\ IsWritten(written, c, encoded) /\ ReadBack(levels, elements, written, c, f, r)
           /\ Found(v, at, e) /\ NextTag(written, c, f[v.parent], r[v.parent], v, j)
           /\ e.tag = written[j].tag
           /\ e.content = IF IsSequence(e) THEN <<>> ELSE Body(written, c, j)
<1>. DEFINE v == Last(levels)
            at == TagEnd(v)
            w == written
            z == Len(levels)
<1>1. /\ target = 0
      /\ \E c, f, r : IsWritten(w, c, encoded) /\ ReadBack(levels, elements, w, c, f, r)
  BY DEF ReadInv
<1>2. PICK c, f, r : IsWritten(w, c, encoded) /\ ReadBack(levels, elements, w, c, f, r)
  BY <1>1
<1>3. /\ z \in Nat \ {0} /\ v = levels[z] /\ IsTurn(v) /\ levels \in Seq(Levels)
  BY LastLevel, TypeParts DEF AsnInv, Turn
<1>4. z \in DOMAIN levels
  BY <1>3
<1>. DEFINE p == v.parent
<1>5. /\ p \in 0 .. Len(elements)
      /\ v.size = Len(Children(w, c, f[p])) /\ v.l = Len(Part(w, c, f[p])[r[p]])
      /\ LiesAt(Children(w, c, f[p]), v.bytes, 0)
      /\ f \in [0 .. Len(elements) -> 0 .. Len(w)] /\ r \in [0 .. Len(elements) -> 0 .. Len(w)]
  BY <1>2, <1>3, <1>4 DEF ReadBack, LevelsRead, LevelReads, Copies, Covers
<1>6. f[p] \in 0 .. Len(w) /\ r[p] \in 0 .. Len(w)
  BY <1>5
<1>. HIDE DEF v, p, w
<1>7. PICK j : NextTag(w, c, f[p], r[p], v, j)
  BY <1>2, <1>3, <1>5, <1>6, NextIsRead
<1>8. j \in 1 .. Len(w)
  <2>1. Len(w) \in Nat
    BY <1>2, TreeIs DEF IsWritten
  <2>2. j \in r[p] + 1 .. Len(w)
    BY <1>7 DEF NextTag
  <2>. QED  BY <1>6, <2>1, <2>2
<1>9. w[j].tag # <<>> /\ Body(w, c, j) \in Seq(Byte)
  BY <1>2, <1>8, TreeIs, WrittenIs DEF IsWritten
<1>10. w[j].tag[1] = 0 => Len(Body(w, c, j)) > 0
  BY <1>2, <1>8, BodyNotEmpty
<1>11. Reads(v, TagEnd(v), w[j].tag, Body(w, c, j))
  BY <1>7 DEF NextTag
<1>12. \E e : /\ Found(v, TagEnd(v), e)
              /\ e.tag = w[j].tag /\ e.content = IF IsSequence(e) THEN <<>> ELSE Body(w, c, j)
  <2>. DEFINE tag == w[j].tag
              content == Body(w, c, j)
  <2>1. /\ tag # <<>> /\ content \in Seq(Byte) /\ (tag[1] = 0 => Len(content) > 0)
        /\ Reads(v, TagEnd(v), tag, content) /\ v = Last(levels)
    BY <1>9, <1>10, <1>11 DEF v
  <2>. HIDE DEF tag, content
  <2>2. \E e : /\ Found(v, TagEnd(v), e)
               /\ e.tag = tag /\ e.content = IF IsSequence(e) THEN <<>> ELSE content
    BY <1>1, <2>1, TurnReads
  <2>. QED  BY <2>2 DEF tag, content
<1>. QED  BY <1>2, <1>7, <1>12 DEF w, p

(* Parse returns: the tag of the innermost level has been read. *)
LEMMA ReadReturn ==
  ASSUME AsnInv, ReadInv, phase = "rereading", LevelEnds
  PROVE  ReadInv'
<1>. DEFINE n == Len(levels)
            w == written
<1>1. /\ n \in Nat \ {0} /\ DOMAIN levels' = 1 .. n - 1 /\ levels' = Front(levels)
      /\ \A k \in 1 .. n - 1 : k \in DOMAIN levels /\ levels'[k] = levels[k]
  BY LevelsLeft DEF LevelEnds, ReturnFromParse
<1>2. /\ target = 0
      /\ \E c, f, r : IsWritten(w, c, encoded) /\ ReadBack(levels, elements, w, c, f, r)
  BY DEF ReadInv
<1>3. PICK c, f, r : IsWritten(w, c, encoded) /\ ReadBack(levels, elements, w, c, f, r)
  BY <1>2
<1>4. /\ elements' = elements /\ written' = w /\ encoded' = encoded /\ target' = target
      /\ phase' = IF n = 1 THEN "reread" ELSE "rereading"
  BY <1>2 DEF LevelEnds, ReturnFromParse, AfterParse
<1>. DEFINE v == levels[n]
            p == v.parent
            g == Part(w, c, f[p])
<1>5. v = Last(levels) /\ levels \in Seq(Levels) /\ v.l >= v.size
  BY LastLevel, TypeParts DEF LevelEnds, AsnInv
<1>6. DOMAIN levels = 1 .. n /\ n \in DOMAIN levels
  BY <1>1, <1>5
<1>. HIDE DEF n
<1>7. /\ Copies(elements, w, c, f) /\ Covers(elements, w, c, f, r)
      /\ LevelsRead(levels, elements, w, c, f, r) /\ Closed(levels, elements, w, f, r)
      /\ (Unforced(w) => InOrder(elements, w, f, r))
  BY <1>3 DEF ReadBack
<1>8. LevelReads(v, elements, w, c, f, r)
  BY <1>6, <1>7 DEF LevelsRead
<1>9. LevelsRead(levels', elements, w, c, f, r)
  <2>1. \A k \in DOMAIN levels' : LevelReads(levels'[k], elements, w, c, f, r)
    BY <1>1, <1>7 DEF LevelsRead
  <2>2. \A j, k \in DOMAIN levels' : j < k => levels'[j].parent < levels'[k].parent
    BY <1>1, <1>7 DEF LevelsRead
  <2>. QED  BY <2>1, <2>2 DEF LevelsRead
<1>10. \A j \in r[p] + 1 .. Len(w) : w[j].parent # f[p]
  <2>1. /\ p \in 0 .. Len(elements)
        /\ v.size = Len(Children(w, c, f[p])) /\ v.l = Len(g[r[p]])
    BY <1>8 DEF LevelReads
  <2>2. f[p] \in 0 .. Len(w) /\ r[p] \in 0 .. Len(w)
    BY <1>7, <2>1 DEF Copies, Covers
  <2>3. Gathered(g, w, c, f[p]) /\ Children(w, c, f[p]) = g[Len(w)]
    BY <1>3, <2>2, WrittenIs
  <2>4. w \in Seq(CASNTag)
    BY <1>3, TreeIs DEF IsWritten
  <2>5. ASSUME NEW j \in 1 .. Len(w) PROVE c[j] \in Seq(Byte) /\ Len(c[j]) > 0
    <3>1. j \in 0 .. Len(w)
      OBVIOUS
    <3>. QED  BY <1>3, <3>1, WrittenIs
  <2>6. Len(g[r[p]]) >= Len(g[Len(w)])
    <3>1. v.l = Len(g[r[p]]) /\ v.size = Len(g[Len(w)])
      BY <2>1, <2>3
    <3>. HIDE DEF g, v
    <3>. QED  BY <1>5, <3>1, Zenon
  <2>. DEFINE q == f[p]
              m == r[p]
  <2>7. /\ Gathered(g, w, c, q) /\ m \in 0 .. Len(w) /\ Len(g[m]) >= Len(g[Len(w)])
    BY <2>2, <2>3, <2>6
  <2>. HIDE DEF g, w, q, m
  <2>8. \A j \in m + 1 .. Len(w) : w[j].parent # q
    BY <2>4, <2>5, <2>7, NoMoreChildren
  <2>. QED  BY <2>8 DEF q, m
<1>. HIDE DEF p, v, w
<1>11. Closed(levels', elements, w, f, r)
  <2>. SUFFICES ASSUME NEW i \in 0 .. Len(elements), Open(elements, i),
                       \A k \in DOMAIN levels' : levels'[k].parent # i
                PROVE  \A j \in r[i] + 1 .. Len(w) : w[j].parent # f[i]
    BY DEF Closed
  <2>1. CASE i = p
    BY <1>10, <2>1
  <2>2. CASE i # p
    <3>1. ASSUME NEW k \in DOMAIN levels PROVE levels[k].parent # i
      <4>1. k = n \/ k \in 1 .. n - 1
        BY <1>1, <1>6
      <4>2. CASE k = n
        BY <2>2, <4>2 DEF p, v
      <4>3. CASE k \in 1 .. n - 1
        BY <1>1, <4>3
      <4>. QED  BY <4>1, <4>2, <4>3
    <3>. QED  BY <1>7, <3>1 DEF Closed
  <2>. QED  BY <2>1, <2>2
<1>12. ReadBack(levels', elements, w, c, f, r)
  BY <1>7, <1>9, <1>11 DEF ReadBack
<1>13. n = 1 => levels' = <<>>
  <2>. SUFFICES ASSUME n = 1 PROVE levels' = <<>>
    OBVIOUS
  <2>. DEFINE ls == levels'
  <2>1. ls \in Seq(Levels) /\ Len(ls) = 0
    BY <1>1, <1>5, FrontIs DEF n
  <2>. HIDE DEF ls
  <2>2. ls = <<>>
    BY <2>1
  <2>. QED  BY <2>2 DEF ls
<1>14. (\E c2, f2, r2 : IsWritten(w, c2, encoded) /\ ReadBack(levels, elements, w, c2, f2, r2))'
  BY <1>3, <1>4, <1>12 DEF w
<1>. QED  BY <1>2, <1>4, <1>13, <1>14 DEF ReadInv, w

(* What Encode writes can be read. *)
LEMMA ReadEncode ==
  ASSUME AsnInv, TreeInv, Encode
  PROVE  ReadInv'
<1>1. CASE Throw
  BY <1>1 DEF Throw, ReadInv
<1>2. CASE ~Throw
  <2>1. /\ phase \in {"parsed", "reparsed"} /\ phase' = "encoded"
        /\ encoded' = Encoding(elements) /\ written' = elements
    BY <1>2 DEF Encode
  <2>2. Legible(elements)
    BY <2>1 DEF TreeInv, LegibleTags
  <2>3. Unforced(elements) => DepthFirst(elements)
    BY <2>1 DEF TreeInv, Ordered, Reordered, Fresh
  <2>4. IsTree(elements)
    BY DEF IsTree, AsnInv, AsnTypeOK
  <2>5. PICK c : IsCode(elements, c)
    BY <2>4, CodeExists DEF IsTree
  <2>6. c[0] = Encoding(elements)
    BY <2>4, <2>5, EncodingOf DEF IsTree
  <2>7. IsWritten(elements, c, Encoding(elements))
    BY <2>2, <2>3, <2>4, <2>5, <2>6 DEF IsWritten
  <2>. QED  BY <2>1, <2>7 DEF ReadInv
<1>. QED  BY <1>1, <1>2

(* The tag that getASN1Tag puts around it. *)
LEMMA TagNotEmpty ==
  ASSUME NEW tag \in Tags
  PROVE  LET bytes == putASN1Tag(tag) IN
         bytes \in Seq(Byte) /\ bytes # <<>> /\ bytes[1] # 0 /\ IsTag(bytes)
<1>. DEFINE n == ASN1TLength(tag)
            bytes == putASN1Tag(tag)
            S == {i \in 0 .. 3 : tag \div Pow256[i] # 0}
<1>1. tag \in Nat \ {0} /\ 0 \notin Range(bytes) /\ IsTag(bytes)
  BY TagsAssumption
<1>2. bytes \in Seq(Byte)
  BY <1>1, TagType
<1>3. 0 \in S
  <2>1. tag \div 1 = tag
    BY <1>1
  <2>2. tag \div Pow256[0] # 0
    BY <1>1, <2>1, Powers
  <2>. QED  BY <2>2
<1>4. IsFiniteSet(S)
  <2>1. IsFiniteSet(0 .. 3)
    <3>1. ASSUME NEW a \in Int, NEW b \in Int PROVE IsFiniteSet(a .. b)
      BY FS_Interval, Zenon
    <3>2. 0 \in Int /\ 3 \in Int
      OBVIOUS
    <3>. QED  BY <3>1, <3>2, Zenon
  <2>2. S \in SUBSET (0 .. 3)
    OBVIOUS
  <2>. HIDE DEF S
  <2>. QED  BY <2>1, <2>2, FS_Subset
<1>5. n = Cardinality(S)
  BY DEF ASN1TLength
<1>. HIDE DEF S
<1>6. n \in Nat \ {0}
  <2>1. Cardinality(S) \in Nat
    BY <1>4, FS_CardinalityType
  <2>2. Cardinality(S) # 0
    BY <1>3, <1>4, FS_EmptySet
  <2>. QED  BY <1>5, <2>1, <2>2
<1>7. DOMAIN bytes = 1 .. n
  BY DEF putASN1Tag
<1>. HIDE DEF bytes, n
<1>8. 1 \in DOMAIN bytes
  BY <1>6, <1>7
<1>9. bytes # <<>>
  BY <1>8
<1>10. bytes[1] # 0
  <2>1. bytes[1] \in Range(bytes)
    BY <1>8 DEF Range
  <2>. QED  BY <1>1, <2>1
<1>. QED  BY <1>1, <1>2, <1>9, <1>10 DEF bytes

LEMMA WithParent ==
  ASSUME NEW e \in CASNTag, NEW p \in Nat
  PROVE  /\ [e EXCEPT !.parent = p] \in CASNTag
         /\ [e EXCEPT !.parent = p].parent = p
         /\ [e EXCEPT !.parent = p].tag = e.tag
         /\ [e EXCEPT !.parent = p].content = e.content
         /\ [e EXCEPT !.parent = p].forced = e.forced
BY DEF CASNTag

(* The tags in one more. *)
LEMMA ShiftIs ==
  ASSUME NEW es, IsTree(es), NEW outer \in CASNTag, outer.parent = 0,
         NEW ds, ds = <<outer>> \o [j \in DOMAIN es |-> [es[j] EXCEPT !.parent = @ + 1]]
  PROVE  Shifted(ds, es, outer)
<1>. DEFINE n == Len(es)
            ts == [j \in DOMAIN es |-> [es[j] EXCEPT !.parent = @ + 1]]
<1>1. n \in Nat /\ DOMAIN es = 1 .. n /\ \A j \in 1 .. n : es[j] \in CASNTag
  BY TreeIs
<1>3. ASSUME NEW j \in 1 .. n
      PROVE  /\ ts[j] \in CASNTag /\ ts[j].parent = es[j].parent + 1
             /\ ts[j].tag = es[j].tag /\ ts[j].content = es[j].content
             /\ ts[j].forced = es[j].forced
  <2>. DEFINE e == es[j]
              p == e.parent + 1
  <2>1. e \in CASNTag /\ p \in Nat
    BY <1>1 DEF CASNTag
  <2>2. ts[j] = [e EXCEPT !.parent = p]
    BY <1>1
  <2>. HIDE DEF e, p, ts
  <2>. QED  BY <2>1, <2>2, WithParent DEF e, p
<1>4. ts \in Seq(CASNTag) /\ Len(ts) = n
  <2>1. DOMAIN ts = 1 .. n /\ ts = [j \in 1 .. n |-> ts[j]]
    BY <1>1
  <2>. HIDE DEF ts
  <2>2. ts \in [1 .. n -> CASNTag]
    BY <1>3, <2>1
  <2>. QED  BY <1>1, <2>2
<1>. HIDE DEF ts
<1>5. <<outer>> \in Seq(CASNTag) /\ Len(<<outer>>) = 1 /\ <<outer>>[1] = outer
  OBVIOUS
<1>. DEFINE s == <<outer>>
<1>6. s \in Seq(CASNTag) /\ Len(s) = 1 /\ s[1] = outer /\ ds = s \o ts
  BY <1>5 DEF ts
<1>. HIDE DEF s
<1>7. /\ ds \in Seq(CASNTag) /\ Len(ds) = 1 + n /\ ds[1] = s[1]
      /\ \A j \in 1 .. n : ds[1 + j] = ts[j]
  <2>1. /\ s \o ts \in Seq(CASNTag) /\ Len(s \o ts) = Len(s) + Len(ts)
        /\ \A j \in 1 .. Len(s) : (s \o ts)[j] = s[j]
        /\ \A j \in 1 .. Len(ts) : (s \o ts)[Len(s) + j] = ts[j]
    BY <1>4, <1>6, ConcatIs
  <2>2. 1 \in 1 .. 1
    OBVIOUS
  <2>. HIDE DEF n
  <2>. QED  BY <1>4, <1>6, <2>1, <2>2
<1>8. outer.tag \in Seq(Byte)
  BY DEF CASNTag
<1>9. ASSUME NEW j \in 1 .. n PROVE ds[j + 1] = ts[j]
  <2>1. j + 1 = 1 + j
    BY <1>1
  <2>. QED  BY <1>7, <2>1
<1>10. Len(ds) = n + 1
  BY <1>1, <1>7
<1>. HIDE DEF n
<1>. QED  BY <1>3, <1>6, <1>7, <1>8, <1>9, <1>10 DEF Shifted, n

(* What is put into another tag can be read. *)
LEMMA ReadWrap ==
  ASSUME AsnInv, ReadInv, NEW tag \in Tags, getASN1Tag(tag)
  PROVE  ReadInv'
<1>. DEFINE outer == [tag |-> putASN1Tag(tag), parent |-> 0, content |-> <<>>, forced |-> FALSE,
                      startPos |-> 0, endPos |-> 0]
            bytes == putASN1Tag(tag)
            code == Tlv(bytes, encoded)
            w2 == written'
<1>1. /\ bytes \in Seq(Byte) /\ bytes # <<>> /\ bytes[1] # 0 /\ IsTag(bytes)
  BY TagNotEmpty
<1>2. /\ phase = "encoded" /\ phase' = "wrapped" /\ encoded' = code
      /\ w2 = IF IsSequence(outer)
              THEN <<outer>> \o [j \in DOMAIN written |-> [written[j] EXCEPT !.parent = @ + 1]]
              ELSE <<[outer EXCEPT !.content = encoded]>>
  BY DEF getASN1Tag
<1>3. PICK c : IsWritten(written, c, encoded)
  BY <1>2 DEF ReadInv
<1>4. encoded \in Seq(Byte)
  BY DEF AsnInv, AsnTypeOK
<1>. HIDE DEF bytes, w2, code
<1>5. /\ outer \in CASNTag /\ outer.parent = 0 /\ outer.tag = bytes /\ outer.forced = FALSE
      /\ outer.content = <<>>
  BY <1>1 DEF CASNTag, bytes
<1>. HIDE DEF outer
<1>6. CASE IsSequence(outer)
  <2>. DEFINE d == ShiftedCode(written, c, code)
  <2>1. /\ IsTree(written) /\ IsCode(written, c) /\ c[0] = encoded
        /\ Legible(written) /\ (Unforced(written) => DepthFirst(written))
    BY <1>3 DEF IsWritten
  <2>2. Shifted(w2, written, outer)
    BY <1>2, <1>5, <1>6, <2>1, ShiftIs
  <2>3. IsCode(w2, d)
    BY <1>4, <1>5, <1>6, <2>1, <2>2, ShiftedIsCode DEF code
  <2>4. IsTree(w2) /\ Legible(w2) /\ (Unforced(w2) => DepthFirst(w2))
    BY <1>1, <1>5, <1>6, <2>1, <2>2, ShiftedIsTree
  <2>5. d[0] = code
    <3>1. Len(written) \in Nat
      BY <2>1, TreeIs
    <3>2. 0 \in 0 .. Len(written) + 1
      BY <3>1
    <3>. QED  BY <3>2 DEF ShiftedCode
  <2>6. IsWritten(w2, d, code)
    BY <2>3, <2>4, <2>5 DEF IsWritten
  <2>. QED  BY <1>2, <2>6 DEF ReadInv, w2
<1>7. CASE ~IsSequence(outer)
  <2>. DEFINE e == [outer EXCEPT !.content = encoded]
              es == <<>>
  <2>1. /\ e \in CASNTag /\ e.content = encoded /\ e.parent = 0 /\ e.tag = bytes
        /\ e.forced = FALSE
    BY <1>4, <1>5, WithContent
  <2>2. w2 = <<e>>
    BY <1>2, <1>7
  <2>. HIDE DEF e
  <2>3. ~IsSequence(e)
    BY <1>5, <1>7, <2>1 DEF IsSequence
  <2>4. /\ es \in Seq(CASNTag) /\ DOMAIN es = {} /\ Len(es) = 0
    OBVIOUS
  <2>. HIDE DEF es
  <2>5. IsTree(es) /\ Legible(es) /\ DepthFirst(es)
    BY <2>4 DEF IsTree, Legible, DepthFirst
  <2>6. Shifted(w2, es, e)
    <3>1. <<e>> \in Seq(CASNTag) /\ Len(<<e>>) = 0 + 1 /\ <<e>>[1] = e /\ 1 .. 0 = {}
      BY <2>1
    <3>2. e.tag \in Seq(Byte)
      BY <1>1, <2>1
    <3>. QED  BY <2>1, <2>2, <2>4, <3>1, <3>2 DEF Shifted
  <2>7. PICK c0 : IsCode(es, c0)
    BY <2>4, <2>5, CodeExists DEF IsTree
  <2>. DEFINE d == ShiftedCode(es, c0, code)
  <2>8. IsCode(w2, d)
    <3>1. es = <<>>
      BY DEF es
    <3>. QED  BY <1>4, <2>1, <2>3, <2>5, <2>6, <2>7, <3>1, ShiftedIsCode DEF code
  <2>9. IsTree(w2) /\ Legible(w2) /\ (Unforced(w2) => DepthFirst(w2))
    <3>1. es = <<>>
      BY DEF es
    <3>. QED  BY <1>1, <2>1, <2>3, <2>5, <2>6, <3>1, ShiftedIsTree
  <2>10. d[0] = code
    <3>1. 0 \in 0 .. Len(es) + 1
      BY <2>4
    <3>. QED  BY <3>1 DEF ShiftedCode
  <2>11. IsWritten(w2, d, code)
    BY <2>8, <2>9, <2>10 DEF IsWritten
  <2>. QED  BY <1>2, <2>11 DEF ReadInv, w2
<1>. QED  BY <1>6, <1>7

(* The reading of what was written begins. *)
LEMMA ReadBegin ==
  ASSUME AsnInv, ReadInv, ParseEncoded
  PROVE  ReadInv'
<1>. DEFINE w == written
            v == Level(0, encoded, Len(encoded), 0)
            es == <<>>
            f == [i \in 0 .. 0 |-> 0]
<1>1. /\ phase \in {"encoded", "wrapped"} /\ phase' = "rereading"
      /\ levels' = <<v>> /\ elements' = es /\ target' = 0 /\ encoded' = encoded /\ written' = w
  BY DEF ParseEncoded
<1>2. PICK c : IsWritten(w, c, encoded)
  BY <1>1 DEF ReadInv
<1>3. Len(w) \in Nat
  BY <1>2, TreeIs DEF IsWritten
<1>4. v.parent = 0 /\ v.bytes = encoded /\ v.size = Len(encoded) /\ v.l = 0
  BY DEF Level
<1>5. DOMAIN <<v>> = {1} /\ <<v>>[1] = v
  OBVIOUS
<1>. HIDE DEF w, v
<1>. DEFINE ls == <<v>>
<1>6. /\ Len(es) = 0 /\ 0 .. 0 = {0} /\ 1 .. 0 = {}
      /\ f \in [0 .. 0 -> 0 .. Len(w)] /\ f[0] = 0
  BY <1>3
<1>7. /\ Children(w, c, 0) = encoded /\ Part(w, c, 0)[0] = <<>> /\ Len(<<>>) = 0
  <2>1. 0 \in 0 .. Len(w)
    BY <1>3
  <2>2. Gathered(Part(w, c, 0), w, c, 0)
    BY <1>2, <2>1, WrittenIs
  <2>3. Children(w, c, 0) = encoded
    BY <1>2, WrittenIs
  <2>. QED  BY <2>2, <2>3 DEF Gathered
<1>8. \A d, i : Children(es, d, i) = <<>>
  BY ChildrenOfNone
<1>. HIDE DEF es, f, ls
<1>9. Copies(es, w, c, f)
  BY <1>6 DEF Copies
<1>10. Covers(es, w, c, f, f)
  BY <1>6, <1>7, <1>8 DEF Covers
<1>11. LevelsRead(ls, es, w, c, f, f)
  <2>1. LevelReads(v, es, w, c, f, f)
    <3>1. LiesAt(encoded, encoded, 0)
      <4>1. encoded \in Seq(Byte)
        BY DEF AsnInv, AsnTypeOK
      <4>2. \A j \in 1 .. Len(encoded) : 0 + j = j
        BY <4>1
      <4>. QED  BY <4>2 DEF LiesAt
    <3>. QED  BY <1>4, <1>6, <1>7, <3>1 DEF LevelReads, Open
  <2>2. DOMAIN ls = {1} /\ ls[1] = v
    BY <1>5 DEF ls
  <2>3. \A j, k \in DOMAIN ls : ~(j < k)
    BY <2>2
  <2>. QED  BY <2>1, <2>2, <2>3 DEF LevelsRead
<1>12. Closed(ls, es, w, f, f)
  BY <1>4, <1>5, <1>6 DEF Closed, ls
<1>13. InOrder(es, w, f, f)
  BY <1>6 DEF InOrder
<1>14. ReadBack(ls, es, w, c, f, f)
  BY <1>9, <1>10, <1>11, <1>12, <1>13 DEF ReadBack
<1>. QED  BY <1>1, <1>2, <1>14 DEF ReadInv, w, ls

LEMMA ReadStep ==
  ASSUME AsnInv, TreeInv, ReadInv, [AsnNext]_asnvars
  PROVE  ReadInv' /\ (phase = "rereading" => ~(Throw \/ Stray))
<1>. DEFINE Done == ReadInv' /\ (phase = "rereading" => ~(Throw \/ Stray))
            Other == phase' \in {"parsing", "parsed", "reparsing", "reparsed", "error", "undefined"}
<1>1. Other => ReadInv'
  BY DEF ReadInv
<1>. HIDE DEF Other
<1>2. CASE Parse
  <2>1. phase = "idle" /\ phase' = "parsing"
    BY <1>2 DEF Parse
  <2>. QED  BY <1>1, <2>1 DEF Other
<1>3. CASE LevelEnds
  <2>1. CASE phase = "rereading"
    <3>1. phase' \in {"rereading", "reread"}
      BY <1>3, <2>1 DEF LevelEnds, ReturnFromParse, AfterParse
    <3>2. ~(Throw \/ Stray)
      BY <3>1 DEF Throw, Stray
    <3>. QED  BY <1>3, <2>1, <3>2, ReadReturn
  <2>2. CASE phase # "rereading"
    <3>1. Other
      BY <1>3, <2>2 DEF LevelEnds, ReturnFromParse, AfterParse, Parsing, Other
    <3>. QED  BY <1>1, <2>2, <3>1
  <2>. QED  BY <2>1, <2>2
<1>4. CASE Turn
  <2>1. CASE phase = "rereading"
    <3>1. PICK c, f, r, v, at, e, j :
           /\ IsWritten(written, c, encoded) /\ ReadBack(levels, elements, written, c, f, r)
           /\ Found(v, at, e) /\ NextTag(written, c, f[v.parent], r[v.parent], v, j)
           /\ e.tag = written[j].tag
           /\ e.content = IF IsSequence(e) THEN <<>> ELSE Body(written, c, j)
      BY <1>4, <2>1, ReadTurn
    <3>2. /\ phase' = phase /\ target' = target /\ written' = written /\ encoded' = encoded
      BY <3>1 DEF Found
    <3>3. \E f2, r2 : ReadBack(levels', elements', written, c, f2, r2)
      BY <3>1, ReadFound
    <3>4. target = 0
      BY <2>1 DEF ReadInv
    <3>5. ReadInv'
      BY <2>1, <3>1, <3>2, <3>3, <3>4 DEF ReadInv
    <3>6. ~(Throw \/ Stray)
      BY <2>1, <3>2 DEF Throw, Stray
    <3>. QED  BY <3>5, <3>6
  <2>2. CASE phase # "rereading"
    <3>1. phase \in {"parsing", "reparsing"}
      BY <1>4, <2>2 DEF Turn, Parsing
    <3>2. CASE Throw \/ Stray
      BY <1>1, <2>2, <3>2 DEF Throw, Stray, Other
    <3>3. CASE ReturnFromParse
      <4>1. Other
        BY <3>1, <3>3 DEF ReturnFromParse, AfterParse, Other
      <4>. QED  BY <1>1, <2>2, <4>1
    <3>4. CASE \E v, at, e : Found(v, at, e)
      <4>1. Other
        BY <3>1, <3>4 DEF Found, Other
      <4>. QED  BY <1>1, <2>2, <4>1
    <3>. QED  BY <1>4, <3>2, <3>3, <3>4, TurnIs DEF AsnInv
  <2>. QED  BY <2>1, <2>2
<1>5. CASE \E i \in DOMAIN elements : Reparse(i)
  <2>1. phase = "parsed" /\ phase' \in {"error", "reparsing"}
    BY <1>5 DEF Reparse, Throw
  <2>. QED  BY <1>1, <2>1 DEF Other
<1>6. CASE Encode
  <2>1. phase # "rereading"
    BY <1>6 DEF Encode
  <2>. QED  BY <1>6, <2>1, ReadEncode
<1>7. CASE \E tag \in Tags : getASN1Tag(tag)
  <2>1. phase # "rereading"
    BY <1>7 DEF getASN1Tag
  <2>2. ReadInv'
    BY <1>7, ReadWrap
  <2>. QED  BY <2>1, <2>2
<1>8. CASE ParseEncoded
  <2>1. phase # "rereading"
    BY <1>8 DEF ParseEncoded
  <2>. QED  BY <1>8, <2>1, ReadBegin
<1>9. CASE UNCHANGED asnvars
  <2>1. /\ phase' = phase /\ target' = target /\ written' = written /\ encoded' = encoded
        /\ levels' = levels /\ elements' = elements
    BY <1>9 DEF asnvars
  <2>2. ReadInv'
    BY <2>1 DEF ReadInv
  <2>3. phase = "rereading" => ~(Throw \/ Stray)
    BY <2>1 DEF Throw, Stray
  <2>. QED  BY <2>2, <2>3
<1>. QED  BY <1>2, <1>3, <1>4, <1>5, <1>6, <1>7, <1>8, <1>9 DEF AsnNext

(* Once everything has been read, the tags have the code that was read.    *)
LEMMA ReadCode ==
  ASSUME NEW w, NEW c, NEW bytes, IsWritten(w, c, bytes), NEW es, IsTree(es),
         NEW f, NEW r, ReadBack(<<>>, es, w, c, f, r)
  PROVE  Encoding(es) = bytes
<1>. DEFINE n == Len(es)
            d == CodesOf(es, c, f)
<1>1. /\ n \in Nat /\ es \in Seq(CASNTag) /\ \A i \in DOMAIN es : es[i].parent < i
  BY TreeIs DEF IsTree
<1>2. /\ Copies(es, w, c, f) /\ Covers(es, w, c, f, r) /\ Closed(<<>>, es, w, f, r)
  BY DEF ReadBack
<1>3. /\ f \in [0 .. n -> 0 .. Len(w)] /\ f[0] = 0 /\ r \in [0 .. n -> 0 .. Len(w)]
      /\ \A j \in 1 .. n :
           /\ f[j] # 0 /\ es[j].tag = w[f[j]].tag /\ ~es[j].forced
           /\ es[j].content = IF IsSequence(es[j]) THEN <<>> ELSE Body(w, c, f[j])
      /\ \A p \in 0 .. n : Open(es, p) => Children(es, d, p) = Part(w, c, f[p])[r[p]]
  BY <1>2 DEF Copies, Covers
<1>4. Len(w) \in Nat /\ w \in Seq(CASNTag)
  BY TreeIs DEF IsWritten
<1>. HIDE DEF n, d
<1>5. ASSUME NEW p \in 0 .. n, Open(es, p) PROVE Children(es, d, p) = Children(w, c, f[p])
  <2>1. DOMAIN <<>> = {}
    OBVIOUS
  <2>2. \A j \in r[p] + 1 .. Len(w) : w[j].parent # f[p]
    BY <1>2, <1>5, <2>1 DEF Closed, n
  <2>. DEFINE q == f[p]
              m == r[p]
              g == Part(w, c, q)
  <2>3. q \in 0 .. Len(w) /\ m \in 0 .. Len(w)
    BY <1>3
  <2>4. Gathered(g, w, c, q) /\ Children(w, c, q) = g[Len(w)]
    BY <2>3, WrittenIs
  <2>5. Children(es, d, p) = g[m]
    BY <1>3, <1>5
  <2>. HIDE DEF g
  <2>6. g[Len(w)] = g[m]
    <3>1. \A j \in m + 1 .. Len(w) : w[j].parent # q
      BY <2>2
    <3>. HIDE DEF q, m
    <3>2. Len(w) \in m .. Len(w)
      BY <1>4, <2>3
    <3>. QED  BY <1>4, <2>3, <2>4, <3>1, <3>2, PartsStay
  <2>. QED  BY <2>4, <2>5, <2>6
<1>6. ASSUME NEW i \in 0 .. n PROVE d[i] = CodeOf(es, d, i)
  <2>1. d[i] = c[f[i]]
    BY DEF d, CodesOf, n
  <2>2. CASE i = 0
    <3>1. Children(es, d, 0) = Children(w, c, 0)
      BY <1>3, <1>5, <2>2 DEF Open
    <3>2. c[0] = Children(w, c, 0)
      BY WrittenIs
    <3>. QED  BY <1>3, <2>1, <2>2, <3>1, <3>2 DEF CodeOf
  <2>3. CASE i \in 1 .. n
    <3>. DEFINE k == f[i]
    <3>1. k \in 1 .. Len(w) /\ i # 0
      <4>1. k \in 0 .. Len(w) /\ k # 0
        BY <1>3, <2>3
      <4>. QED  BY <1>1, <1>4, <2>3, <4>1
    <3>2. c[k] = Tlv(w[k].tag, Body(w, c, k))
      BY <3>1, WrittenIs
    <3>3. es[i].tag = w[k].tag
      BY <1>3, <2>3
    <3>4. Body(w, c, k) = IF IsSequence(es[i]) THEN Children(es, d, i) ELSE es[i].content
      <4>1. CASE IsSequence(es[i])
        <5>1. IsSequence(w[k])
          BY <1>3, <2>3, <4>1 DEF IsSequence
        <5>2. Children(es, d, i) = Children(w, c, k)
          BY <1>5, <4>1 DEF Open
        <5>. QED  BY <4>1, <5>1, <5>2 DEF Body
      <4>2. CASE ~IsSequence(es[i])
        BY <1>3, <2>3, <4>2
      <4>. QED  BY <4>1, <4>2
    <3>. HIDE DEF k
    <3>5. d[i] = c[k]
      BY <2>1 DEF k
    <3>. QED  BY <3>1, <3>2, <3>3, <3>4, <3>5 DEF CodeOf
  <2>4. i = 0 \/ i \in 1 .. n
    BY <1>1
  <2>. QED  BY <2>2, <2>3, <2>4
<1>7. IsCode(es, d)
  <2>1. d = [i \in 0 .. n |-> d[i]]
    BY DEF d, CodesOf, n
  <2>2. d = [i \in 0 .. n |-> CodeOf(es, d, i)]
    BY <1>6, <2>1
  <2>. QED  BY <2>2 DEF IsCode, n
<1>8. Encoding(es) = d[0]
  BY <1>1, <1>7, EncodingOf
<1>9. d[0] = c[0]
  <2>1. 0 \in 0 .. n
    BY <1>1
  <2>. QED  BY <1>3, <2>1 DEF d, CodesOf, n
<1>. QED  BY <1>8, <1>9 DEF IsWritten

(* If none of the tags was parsed again, they are those that were written. *)
LEMMA ReadTree ==
  ASSUME NEW w, NEW c, NEW bytes, IsWritten(w, c, bytes), Unforced(w), NEW es, IsTree(es),
         NEW f, NEW r, ReadBack(<<>>, es, w, c, f, r)
  PROVE  /\ DOMAIN es = DOMAIN w
         /\ \A i \in DOMAIN es : /\ es[i].tag = w[i].tag /\ es[i].parent = w[i].parent
                                 /\ es[i].content = w[i].content
<1>. DEFINE n == Len(es)
            m == Len(w)
<1>1. n \in Nat /\ DOMAIN es = 1 .. n
  BY TreeIs
<1>2. /\ m \in Nat /\ DOMAIN w = 1 .. m
      /\ \A i \in 1 .. m : w[i].parent \in Nat /\ w[i].parent < i
  BY TreeIs DEF IsWritten
<1>3. /\ f \in [0 .. n -> 0 .. m] /\ f[0] = 0 /\ r \in [0 .. n -> 0 .. m]
      /\ \A j \in 1 .. n :
           /\ f[j] # 0 /\ es[j].tag = w[f[j]].tag /\ ~es[j].forced
           /\ es[j].content = IF IsSequence(es[j]) THEN <<>> ELSE Body(w, c, f[j])
  BY DEF ReadBack, Copies, Covers
<1>4. Closed(<<>>, es, w, f, r) /\ InOrder(es, w, f, r)
  BY DEF ReadBack
<1>5. /\ \A i \in 1 .. n : f[i] = i /\ es[i].parent = w[i].parent
      /\ \A i \in 0 .. n : Open(es, i) => r[i] <= n
  BY <1>4 DEF InOrder
<1>. HIDE DEF n, m
<1>6. n <= m
  <2>1. CASE n = 0
    BY <1>2, <2>1
  <2>2. CASE n # 0
    <3>1. n \in 1 .. n /\ n \in 0 .. n
      BY <1>1, <2>2
    <3>2. f[n] = n /\ f[n] \in 0 .. m
      BY <1>3, <1>5, <3>1
    <3>. QED  BY <1>1, <1>2, <3>2
  <2>. QED  BY <2>1, <2>2
<1>7. DepthFirst(w) /\ Legible(w)
  BY DEF IsWritten
<1>8. n = m
  <2>. SUFFICES ASSUME n # m PROVE FALSE
    OBVIOUS
  <2>. DEFINE k == n + 1
              s == w[k].parent
  <2>1. k \in 1 .. m /\ k \in DOMAIN w
    BY <1>1, <1>2, <1>6
  <2>2. s \in Nat /\ s < k
    BY <1>2, <2>1
  <2>3. s \in 0 .. n
    BY <1>1, <2>2
  <2>4. Open(es, s) /\ f[s] = s
    <3>1. CASE s = 0
      BY <1>3, <3>1 DEF Open
    <3>2. CASE s # 0
      <4>1. IsSequence(w[s])
        BY <1>7, <2>1, <3>2 DEF DepthFirst
      <4>2. s \in 1 .. n /\ s \in 1 .. m
        BY <1>1, <1>2, <1>6, <2>3, <3>2
      <4>. HIDE DEF s
      <4>3. f[s] = s /\ es[s].tag = w[s].tag
        BY <1>3, <1>5, <4>2
      <4>4. ~w[s].forced
        BY <1>2, <4>2 DEF Unforced
      <4>5. IsSequence(es[s])
        BY <4>1, <4>3, <4>4 DEF IsSequence
      <4>. QED  BY <4>3, <4>5 DEF Open
    <3>. QED  BY <3>1, <3>2
  <2>. HIDE DEF k, s
  <2>5. \A j \in r[s] + 1 .. m : w[j].parent # s
    <3>1. DOMAIN <<>> = {}
      OBVIOUS
    <3>2. s \in 0 .. Len(es)
      BY <2>3 DEF n
    <3>. QED  BY <1>4, <2>4, <3>1, <3>2 DEF Closed, m
  <2>6. r[s] <= n /\ r[s] \in 0 .. m
    BY <1>3, <1>5, <2>3, <2>4
  <2>7. k \in r[s] + 1 .. m
    BY <1>1, <2>1, <2>6 DEF k
  <2>. QED  BY <2>5, <2>7 DEF s
<1>9. ASSUME NEW i \in 1 .. n
      PROVE  /\ es[i].tag = w[i].tag /\ es[i].parent = w[i].parent
             /\ es[i].content = w[i].content
  <2>1. f[i] = i /\ i \in DOMAIN w /\ es[i].tag = w[i].tag /\ es[i].parent = w[i].parent
        /\ ~es[i].forced
    BY <1>2, <1>3, <1>5, <1>8
  <2>2. ~w[i].forced
    BY <2>1 DEF Unforced
  <2>3. IsSequence(es[i]) <=> IsSequence(w[i])
    BY <2>1, <2>2 DEF IsSequence
  <2>4. es[i].content = IF IsSequence(es[i]) THEN <<>> ELSE Body(w, c, i)
    BY <1>3, <2>1
  <2>5. IsSequence(w[i]) => w[i].content = <<>>
    BY <1>7, <2>1 DEF Legible
  <2>. QED  BY <2>1, <2>3, <2>4, <2>5 DEF Body
<1>. QED  BY <1>1, <1>2, <1>8, <1>9

(* Encoding loses nothing: what Encode or getASN1Tag wrote is parsed, with *)
(* no error, into tags that have the same encoding, and into the same tree *)
(* unless a tag was parsed again before.                                   *)
THEOREM RoundTrip == AsnSpec => []AsnRoundTrip
<1>1. AsnInit => AsnInv /\ TreeInv /\ ReadInv
  <2>1. AsnInit => ReadInv
    BY DEF AsnInit, ReadInv
  <2>. QED  BY <2>1, AsnInvInit, TreeInit
<1>2. AsnInv /\ TreeInv /\ ReadInv /\ [AsnNext]_asnvars => (AsnInv /\ TreeInv /\ ReadInv)'
  <2>. SUFFICES ASSUME AsnInv, TreeInv, ReadInv, [AsnNext]_asnvars
                PROVE  AsnInv' /\ TreeInv' /\ ReadInv'
    OBVIOUS
  <2>1. AsnInv'
    BY AsnInvStep
  <2>2. ReadInv' /\ (phase = "rereading" => ~(Throw \/ Stray))
    BY ReadStep
  <2>3. TreeInv'
    BY <2>2, TreeStep
  <2>. QED  BY <2>1, <2>2, <2>3
<1>3. AsnInv /\ TreeInv /\ ReadInv => AsnRoundTrip
  <2>. SUFFICES ASSUME AsnInv, TreeInv, ReadInv PROVE AsnRoundTrip
    OBVIOUS
  <2>1. phase \in {"error", "undefined"} => written = <<>>
    BY DEF TreeInv, Unwritten
  <2>2. ASSUME phase = "reread"
        PROVE  /\ Encoding(elements) = encoded
               /\ (\E e \in Range(written) : e.forced)
                  \/ [i \in DOMAIN elements |->
                        [tag |-> elements[i].tag, parent |-> elements[i].parent,
                         content |-> elements[i].content]]
                     = [i \in DOMAIN written |->
                          [tag |-> written[i].tag, parent |-> written[i].parent,
                           content |-> written[i].content]]
    <3>1. PICK c, f, r :
            IsWritten(written, c, encoded) /\ ReadBack(levels, elements, written, c, f, r)
      BY <2>2 DEF ReadInv
    <3>2. ReadBack(<<>>, elements, written, c, f, r)
      BY <2>2, <3>1 DEF ReadInv
    <3>3. IsTree(elements)
      BY DEF IsTree, AsnInv, AsnTypeOK
    <3>4. Encoding(elements) = encoded
      BY <3>1, <3>2, <3>3, ReadCode
    <3>5. CASE Unforced(written)
      <4>1. /\ DOMAIN elements = DOMAIN written
            /\ \A i \in DOMAIN elements :
                 /\ elements[i].tag = written[i].tag /\ elements[i].parent = written[i].parent
                 /\ elements[i].content = written[i].content
        BY <3>1, <3>2, <3>3, <3>5, ReadTree
      <4>. QED  BY <3>4, <4>1
    <3>6. CASE ~Unforced(written)
      BY <3>4, <3>6 DEF Unforced, Range
    <3>. QED  BY <3>5, <3>6
  <2>. QED  BY <2>1, <2>2 DEF AsnRoundTrip
<1>. QED  BY <1>1, <1>2, <1>3, PTL DEF AsnSpec
=============================================================================
