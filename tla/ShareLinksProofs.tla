--------------------------- MODULE ShareLinksProofs ---------------------------
(***************************************************************************)
(* Theorems about ShareLinks, for every tree of files, every set of        *)
(* symbolic links to files and directories and every content of the        *)
(* documents: nothing outside of the share is shown (Scoped), and the      *)
(* links of the program open what they name (LinksOpen).                   *)
(***************************************************************************)
EXTENDS ShareLinks, FoldFacts, SequenceTheorems, TLAPS

-----------------------------------------------------------------------------
(* Paths. *)

LEMMA PrefixOfItself ==
  ASSUME NEW S, NEW p \in Seq(S)
  PROVE  Within(p, p)
  BY DEF Within, IsPrefix

LEMMA PrefixOfBelow ==
  ASSUME NEW S, NEW p \in Seq(S), NEW q \in Seq(S)
  PROVE  Within(p, p \o q)
<1>1. Len(p) <= Len(p \o q) /\ Len(p) \in Nat
  BY ConcatProperties, LenProperties
<1>2. SubSeq(p, 1, Len(p)) = SubSeq(p \o q, 1, Len(p))
  <2>1. CASE p = <<>>
    <3>1. Len(p) < 1 /\ Len(p) \in Int
      BY <2>1, EmptySeq
    <3> QED
      BY <3>1, SubSeqEmpty
  <2>2. CASE p # <<>>
    <3>1. 1 \in 1..Len(p) /\ Len(p) \in 1..Len(p)
      BY <2>2, EmptySeq
    <3> QED
      BY <3>1, SubSeqOfConcat1
  <2> QED
    BY <2>1, <2>2
<1> QED
  BY <1>1, <1>2 DEF Within, IsPrefix

LEMMA BelowSubtracted ==
  ASSUME NEW S, NEW p \in Seq(S), NEW q \in Seq(S)
  PROVE  SubSeq(p \o q, Len(p) + 1, Len(p \o q)) = q
<1> DEFINE m == Len(p)
           n == Len(q)
           r == p \o q
           d == SubSeq(r, m + 1, m + n)
<1>1. m \in Nat /\ n \in Nat /\ Len(r) = m + n /\ r \in Seq(S)
      /\ \A k \in 1..(m + n) : r[k] = IF k <= m THEN p[k] ELSE q[k - m]
  BY ConcatProperties, LenProperties
<1>2. \A k \in (m + 1)..(m + n) : r[k] \in S
  BY <1>1, ElementOfSeq
<1> HIDE DEF m, n, r
<1>3. m + 1 \in Int /\ m + n \in Int
  BY <1>1
<1>4. /\ d \in Seq(S)
      /\ Len(d) = (IF m + 1 <= m + n THEN (m + n) - (m + 1) + 1 ELSE 0)
      /\ \A k \in 1..((m + n) - (m + 1) + 1) : d[k] = r[(m + 1) + k - 1]
  BY <1>2, <1>3, SubSeqProperties
<1> HIDE DEF d
<1>5. Len(d) = n /\ \A k \in 1..n : d[k] = r[m + k]
  BY <1>1, <1>4
<1>6. \A k \in 1..n : r[m + k] = q[k]
  BY <1>1
<1>7. d = q
  BY <1>4, <1>5, <1>6, SeqEqual DEF n
<1> QED
  BY <1>1, <1>7 DEF d, m, r

LEMMA ParentTyped ==
  ASSUME NEW S, NEW p \in Seq(S), p # <<>>
  PROVE  /\ Parent(p) \in Seq(S) /\ Len(Parent(p)) = Len(p) - 1
         /\ \A k \in 1..(Len(p) - 1) : Parent(p)[k] = p[k]
         /\ Last(p) \in S /\ Last(p) = p[Len(p)] /\ Len(p) \in Nat \ {0}
<1>1. Len(p) \in Nat \ {0} /\ \A k \in 1..Len(p) : p[k] \in S
  BY EmptySeq, ElementOfSeq
<1> DEFINE n == Len(p) - 1
<1>2. n \in Nat /\ \A k \in 1..n : p[k] \in S
  BY <1>1
<1>3. /\ SubSeq(p, 1, n) \in Seq(S)
      /\ Len(SubSeq(p, 1, n)) = (IF 1 <= n THEN n - 1 + 1 ELSE 0)
      /\ \A k \in 1..(n - 1 + 1) : SubSeq(p, 1, n)[k] = p[1 + k - 1]
  <2> HIDE DEF n
  <2> QED
    BY <1>2, SubSeqProperties
<1>4. n = Len(p) - 1 /\ Parent(p) = SubSeq(p, 1, n)
  BY DEF Parent
<1> DEFINE a == SubSeq(p, 1, n)
<1>5. Parent(p) = a
  BY <1>4
<1> HIDE DEF a, n
<1>6. a \in Seq(S) /\ Len(a) = n /\ \A k \in 1..n : a[k] = p[k]
  <2>1. \A k \in 1..n : k \in 1..(n - 1 + 1) /\ 1 + k - 1 = k
    BY <1>2
  <2> QED
    BY <1>2, <1>3, <2>1 DEF a
<1> QED
  BY <1>1, <1>4, <1>5, <1>6 DEF Last

LEMMA ParentAndLast ==
  ASSUME NEW S, NEW p \in Seq(S), p # <<>>
  PROVE  Parent(p) \o <<Last(p)>> = p
<1> DEFINE a == Parent(p)
           b == <<Last(p)>>
<1>1. a \in Seq(S) /\ Len(a) = Len(p) - 1 /\ Len(p) \in Nat \ {0} /\ Last(p) = p[Len(p)]
      /\ \A k \in 1..(Len(p) - 1) : a[k] = p[k]
  BY ParentTyped
<1>2. b \in Seq(S) /\ Len(b) = 1 /\ b[1] = Last(p)
  <2>1. Last(p) \in S
    BY ParentTyped
  <2> QED
    BY <2>1
<1> HIDE DEF a, b
<1>3. a \o b \in Seq(S) /\ Len(a \o b) = Len(p)
      /\ \A k \in 1..Len(p) : (a \o b)[k] = IF k <= Len(p) - 1 THEN a[k] ELSE b[k - (Len(p) - 1)]
  <2>1. /\ a \o b \in Seq(S) /\ Len(a \o b) = Len(a) + Len(b)
        /\ \A k \in 1..(Len(a) + Len(b)) : (a \o b)[k] = IF k <= Len(a) THEN a[k] ELSE b[k - Len(a)]
    BY <1>1, <1>2, ConcatProperties
  <2>2. Len(a) + Len(b) = Len(p)
    BY <1>1, <1>2
  <2> QED
    BY <1>1, <2>1, <2>2
<1>4. \A k \in 1..Len(p) : (a \o b)[k] = p[k]
  BY <1>1, <1>2, <1>3
<1> QED
  BY <1>3, <1>4, SeqEqual DEF a, b

LEMMA ParentBelow ==
  ASSUME NEW S, NEW p \in Seq(S), NEW q \in Seq(S), q # <<>>
  PROVE  Parent(p \o q) = p \o Parent(q) /\ p \o q # <<>> /\ Last(p \o q) = Last(q)
<1> DEFINE r == p \o q
           c == Parent(q)
           a == Parent(r)
           b == p \o c
<1>1. r \in Seq(S) /\ Len(p) \in Nat /\ Len(q) \in Nat \ {0} /\ Len(r) = Len(p) + Len(q)
      /\ \A k \in 1..(Len(p) + Len(q)) : r[k] = IF k <= Len(p) THEN p[k] ELSE q[k - Len(p)]
  BY ConcatProperties, LenProperties, EmptySeq
<1>2. c \in Seq(S) /\ Len(c) = Len(q) - 1 /\ \A k \in 1..(Len(q) - 1) : c[k] = q[k]
  BY ParentTyped
<1> HIDE DEF r, c
<1>3. r # <<>>
  BY <1>1, EmptySeq
<1>4. a \in Seq(S) /\ Len(a) = Len(r) - 1 /\ \A k \in 1..(Len(r) - 1) : a[k] = r[k]
  BY <1>1, <1>3, ParentTyped
<1>5. b \in Seq(S) /\ Len(b) = Len(p) + Len(c)
      /\ \A k \in 1..(Len(p) + Len(c)) : b[k] = IF k <= Len(p) THEN p[k] ELSE c[k - Len(p)]
  BY <1>2, ConcatProperties
<1> HIDE DEF a, b
<1>6. Len(a) = Len(b) /\ \A k \in 1..Len(a) : a[k] = b[k]
  <2>1. Len(a) = Len(b) /\ Len(a) = Len(p) + Len(q) - 1
    BY <1>1, <1>2, <1>4, <1>5
  <2>2. ASSUME NEW k \in 1..Len(a) PROVE a[k] = b[k]
    <3>1. k \in 1..(Len(r) - 1) /\ k \in 1..(Len(p) + Len(q)) /\ k \in 1..(Len(p) + Len(c))
      BY <1>1, <1>2, <2>1
    <3>2. a[k] = (IF k <= Len(p) THEN p[k] ELSE q[k - Len(p)])
      BY <1>1, <1>4, <3>1
    <3>3. b[k] = (IF k <= Len(p) THEN p[k] ELSE c[k - Len(p)])
      BY <1>5, <3>1
    <3>4. ~(k <= Len(p)) => k - Len(p) \in 1..(Len(q) - 1)
      BY <1>1, <2>1
    <3> QED
      BY <1>2, <3>2, <3>3, <3>4
  <2> QED
    BY <2>1, <2>2
<1>7. a = b
  BY <1>4, <1>5, <1>6, SeqEqual
<1>8. r[Len(r)] = q[Len(q)]
  <2> DEFINE k == Len(p) + Len(q)
  <2>1. k \in 1..(Len(p) + Len(q)) /\ ~(k <= Len(p)) /\ k - Len(p) = Len(q) /\ k = Len(r)
    BY <1>1
  <2> HIDE DEF k
  <2> QED
    BY <1>1, <2>1
<1> QED
  BY <1>3, <1>7, <1>8 DEF a, b, c, r, Last

\* The path p below the directory root.
Under(root, p) == root \o p

LEMMA AppendBelow ==
  ASSUME NEW S, NEW p \in Seq(S), NEW q \in Seq(S), NEW n \in S
  PROVE  Append(Under(p, q), n) = Under(p, Append(q, n))
<1> DEFINE one == <<n>>
<1>1. one \in Seq(S)
  OBVIOUS
<1>2. p \o q \in Seq(S)
  BY ConcatProperties
<1>3. Append(p \o q, n) = (p \o q) \o one
  BY <1>2, AppendIsConcat
<1>4. Append(q, n) = q \o one
  BY AppendIsConcat
<1> HIDE DEF one
<1>5. (p \o q) \o one = p \o (q \o one)
  BY <1>1, ConcatAssociative, SMTT(30)
<1> QED
  BY <1>3, <1>4, <1>5 DEF Under

LEMMA Wider ==
  ASSUME NEW S, NEW T, NEW p \in Seq(S)
  PROVE  p \in Seq(S \cup T)
<1>1. Len(p) \in Nat /\ p = [k \in 1..Len(p) |-> p[k]] /\ \A k \in 1..Len(p) : p[k] \in S
  BY LenProperties, ElementOfSeq
<1>2. p \in [1..Len(p) -> S \cup T]
  BY <1>1
<1> QED
  BY <1>1, <1>2, SeqDef

-----------------------------------------------------------------------------
(* Folds over the names of a path. *)

LEMMA MaxIn ==
  ASSUME NEW n \in Nat, NEW s \in SUBSET (1..n), s # {}
  PROVE  Max(s) \in s
<1> DEFINE T == {k \in Nat : \A u \in SUBSET (1..k) : u # {} => \E x \in u : \A y \in u : x >= y}
<1>1. 0 \in T
  <2>1. \A u \in SUBSET (1..0) : u = {}
    OBVIOUS
  <2> QED
    BY <2>1
<1>2. ASSUME NEW k \in Nat, k \in T PROVE k + 1 \in T
  <2>1. ASSUME NEW u \in SUBSET (1..(k + 1)), u # {} PROVE \E x \in u : \A y \in u : x >= y
    <3>1. CASE k + 1 \in u
      BY <2>1, <3>1
    <3>2. CASE k + 1 \notin u
      <4>1. u \in SUBSET (1..k)
        BY <2>1, <3>2
      <4> QED
        BY <1>2, <2>1, <4>1
    <3> QED
      BY <3>1, <3>2
  <2> QED
    BY <2>1
<1>3. Nat \subseteq T
  <2> HIDE DEF T
  <2> QED
    BY <1>1, <1>2, SetInduction
<1>4. \E x \in s : \A y \in s : x >= y
  BY <1>3
<1> QED
  BY <1>4 DEF Max

LEMMA FirstNames ==
  ASSUME NEW n \in Nat, NEW k \in 1..n
  PROVE  /\ 1..k \in SUBSET (1..n) /\ 1..k # {} /\ Max(1..k) = k /\ (1..k) \ {k} = 1..(k - 1)
         /\ k \in 0..n /\ k - 1 \in 0..n
<1>1. k \in 1..k /\ \A j \in 1..k : k >= j
  OBVIOUS
<1>2. \A m \in 1..k : (\A j \in 1..k : m >= j) => m = k
  BY <1>1
<1>3. Max(1..k) = k
  BY <1>1, <1>2 DEF Max
<1> QED
  BY <1>3

\* A fold over n names, by the function h, for every set of them.
FoldOf(f, n, h) ==
    \A s \in SUBSET (1..n) : f[s] = IF s = {} THEN <<>> ELSE h[<<Max(s), f[s \ {Max(s)}]>>]

LEMMA NamesFold ==
  ASSUME NEW n \in Nat, NEW V, <<>> \in V, NEW h, \A k \in 1..n, v \in V : h[<<k, v>>] \in V
  PROVE  \E f \in [SUBSET (1..n) -> V] : FoldOf(f, n, h)
<1> DEFINE W == 1..n
           c == [s \in SUBSET W |-> IF s = {} THEN 0 ELSE Max(s)]
<1>1. IsFiniteSet(W)
  <2>1. 1 \in Int /\ n \in Int
    OBVIOUS
  <2> QED
    BY <2>1, FS_Interval
<1>2. \A s \in SUBSET W : s # {} => c[s] \in s
  BY MaxIn
<1>3. PICK f \in [SUBSET W -> V] : Folds(f, W, <<>>, c, h)
  <2> HIDE DEF W, c
  <2>1. \A k \in W, v \in V : h[<<k, v>>] \in V
    BY DEF W
  <2> QED
    BY <1>1, <1>2, <2>1, FoldExists
<1>4. ASSUME NEW s \in SUBSET W
      PROVE  f[s] = IF s = {} THEN <<>> ELSE h[<<Max(s), f[s \ {Max(s)}]>>]
  <2>1. CASE s = {}
    BY <1>3, <2>1 DEF Folds
  <2>2. CASE s # {}
    <3>1. c[s] = Max(s)
      BY <2>2
    <3>2. f[s] = h[<<Max(s), f[s \ {Max(s)}]>>]
      <4> HIDE DEF c, W
      <4> QED
        BY <1>3, <2>2, <3>1 DEF Folds
    <3> QED
      BY <2>2, <3>2
  <2> QED
    BY <2>1, <2>2
<1>5. FoldOf(f, n, h)
  BY <1>4 DEF FoldOf
<1>6. f \in [SUBSET (1..n) -> V]
  BY <1>3
<1> HIDE DEF W, c
<1> QED
  BY <1>5, <1>6, Zenon

-----------------------------------------------------------------------------
(* Where a path leads. *)

LinksTyped(S) == \A p \in DOMAIN Links : Links[p] \in Seq(S)

LEMMA FollowTyped ==
  ASSUME NEW S, LinksTyped(S), NEW p \in Seq(S), NEW n \in S
  PROVE  Follow(Append(p, n)) \in Seq(S)
  BY AppendProperties DEF Follow, LinksTyped

RealIter(path) ==
    CHOOSE iter : iter = [s \in SUBSET DOMAIN path |->
                            IF s = {} THEN <<>>
                            ELSE Follow(Append(iter[s \ {Max(s)}], path[Max(s)]))]

LEMMA RealUnfold ==
  ASSUME NEW path
  PROVE  Real(path) = RealIter(path)[DOMAIN path]
  BY DEF Real, RealIter, FoldLeft, MapThenFoldSet

\* Where the first names of a path lead.
Followed(D, path, S) ==
    /\ D \in [0..Len(path) -> Seq(S)]
    /\ D[0] = <<>>
    /\ \A k \in 1..Len(path) : D[k] = Follow(Append(D[k - 1], path[k]))
    /\ Real(path) = D[Len(path)]

LEMMA RealSteps ==
  ASSUME NEW S, LinksTyped(S), NEW path \in Seq(S)
  PROVE  \E D : Followed(D, path, S)
<1> DEFINE n == Len(path)
           W == 1..n
           h == [x \in W \X Seq(S) |-> Follow(Append(x[2], path[x[1]]))]
           Step(f, s) == IF s = {} THEN <<>> ELSE Follow(Append(f[s \ {Max(s)}], path[Max(s)]))
<1>1. n \in Nat /\ DOMAIN path = W /\ \A k \in W : path[k] \in S
  BY LenProperties, ElementOfSeq
<1>2. \A k \in W, v \in Seq(S) : /\ h[<<k, v>>] \in Seq(S)
                                 /\ h[<<k, v>>] = Follow(Append(v, path[k]))
  BY <1>1, FollowTyped
<1> HIDE DEF h
<1>3. PICK f \in [SUBSET W -> Seq(S)] : FoldOf(f, n, h)
  <2>1. <<>> \in Seq(S)
    BY EmptySeq
  <2>2. \A k \in 1..n, v \in Seq(S) : h[<<k, v>>] \in Seq(S)
    BY <1>2
  <2>3. n \in Nat
    BY <1>1
  <2> DEFINE V == Seq(S)
  <2>4. <<>> \in V /\ \A k \in 1..n, v \in V : h[<<k, v>>] \in V
    BY <2>1, <2>2
  <2> HIDE DEF n, Step, V
  <2>5. \E f \in [SUBSET (1..n) -> V] : FoldOf(f, n, h)
    BY <2>3, <2>4, NamesFold
  <2> QED
    BY <2>5 DEF V
<1>4. ASSUME NEW s \in SUBSET W PROVE f[s] = Step(f, s)
  <2>1. CASE s = {}
    BY <1>3, <2>1 DEF FoldOf
  <2>2. CASE s # {}
    <3>1. Max(s) \in W /\ s \ {Max(s)} \in SUBSET W
      BY <1>1, <2>2, MaxIn
    <3>2. f[s \ {Max(s)}] \in Seq(S)
      BY <3>1
    <3> QED
      BY <1>2, <1>3, <2>2, <3>1, <3>2 DEF FoldOf
  <2> QED
    BY <2>1, <2>2
<1>5. f = [s \in SUBSET W |-> Step(f, s)]
  <2> HIDE DEF Step, W
  <2> QED
    BY <1>4
<1> DEFINE I == RealIter(path)
<1>6. I = [s \in SUBSET W |-> Step(I, s)]
  BY <1>1, <1>5 DEF RealIter
<1>7. \A s \in SUBSET W : I[s] = Step(I, s)
  <2> HIDE DEF I, Step, W
  <2> QED
    BY <1>6
<1> DEFINE D == [k \in 0..n |-> I[1..k]]
<1>8. Real(path) = D[n]
  BY <1>1, RealUnfold
<1> HIDE DEF I
<1>9. D[0] = <<>>
  <2>1. 1..0 = {} /\ {} \in SUBSET W /\ 0 \in 0..n
    BY <1>1
  <2> QED
    BY <1>7, <2>1
<1>10. ASSUME NEW k \in 1..n PROVE D[k] = Follow(Append(D[k - 1], path[k]))
  <2>1. /\ 1..k \in SUBSET W /\ 1..k # {} /\ Max(1..k) = k /\ (1..k) \ {k} = 1..(k - 1)
        /\ k \in 0..n /\ k - 1 \in 0..n
    <3> HIDE DEF n
    <3> QED
      BY <1>1, FirstNames
  <2>2. I[1..k] = Step(I, 1..k)
    <3> HIDE DEF Step, W
    <3> QED
      BY <1>7, <2>1
  <2> QED
    BY <2>1, <2>2
<1> HIDE DEF D
<1>11. \A k \in 0..n : D[k] \in Seq(S)
  <2> DEFINE T == {k \in Nat : k <= n => D[k] \in Seq(S)}
  <2>1. 0 \in T
    BY <1>9, EmptySeq
  <2>2. ASSUME NEW k \in Nat, k \in T PROVE k + 1 \in T
    <3> SUFFICES ASSUME k + 1 <= n PROVE D[k + 1] \in Seq(S)
      OBVIOUS
    <3>1. k + 1 \in 1..n /\ (k + 1) - 1 = k /\ D[k] \in Seq(S) /\ path[k + 1] \in S
      BY <1>1, <2>2
    <3>2. D[k + 1] = Follow(Append(D[k], path[k + 1]))
      BY <1>10, <3>1
    <3> QED
      BY <3>1, <3>2, FollowTyped
  <2>3. Nat \subseteq T
    <3> HIDE DEF T
    <3> QED
      BY <2>1, <2>2, SetInduction
  <2> QED
    BY <1>1, <2>3
<1>12. D \in [0..n -> Seq(S)]
  BY <1>11 DEF D
<1> QED
  BY <1>8, <1>9, <1>10, <1>12 DEF Followed

\* The root leads to itself, a path to where its last name leads in the directory that
\* its parent leads to.
LEMMA RealStep ==
  ASSUME NEW S, LinksTyped(S)
  PROVE  /\ Real(<<>>) = <<>>
         /\ \A p \in Seq(S) : /\ Real(p) \in Seq(S)
                              /\ \A n \in S : Real(Append(p, n)) = Follow(Append(Real(p), n))
<1>1. Real(<<>>) = <<>>
  <2>1. <<>> \in Seq(S) /\ Len(<<>>) = 0
    BY EmptySeq
  <2>2. PICK D : Followed(D, <<>>, S)
    BY <2>1, RealSteps
  <2> QED
    BY <2>1, <2>2 DEF Followed
<1>2. ASSUME NEW p \in Seq(S) PROVE Real(p) \in Seq(S)
  <2>1. PICK D : Followed(D, p, S)
    BY RealSteps
  <2>2. Len(p) \in 0..Len(p)
    BY LenProperties
  <2> QED
    BY <2>1, <2>2 DEF Followed
<1>3. ASSUME NEW p \in Seq(S), NEW n \in S PROVE Real(Append(p, n)) = Follow(Append(Real(p), n))
  <2> DEFINE m == Len(p)
             q == Append(p, n)
  <2>1. q \in Seq(S) /\ Len(q) = m + 1 /\ q[m + 1] = n /\ m \in Nat /\ \A k \in 1..m : q[k] = p[k]
    BY AppendProperties, LenProperties
  <2> HIDE DEF q
  <2>2. PICK D : Followed(D, p, S)
    BY RealSteps
  <2>3. PICK E : Followed(E, q, S)
    BY <2>1, RealSteps
  <2> DEFINE T == {k \in Nat : k <= m => E[k] = D[k]}
  <2>4. 0 \in T
    BY <2>2, <2>3 DEF Followed
  <2>5. ASSUME NEW k \in Nat, k \in T PROVE k + 1 \in T
    <3> SUFFICES ASSUME k + 1 <= m PROVE E[k + 1] = D[k + 1]
      OBVIOUS
    <3>1. k + 1 \in 1..m /\ k + 1 \in 1..Len(q) /\ (k + 1) - 1 = k /\ E[k] = D[k]
      BY <2>1, <2>5
    <3>2. E[k + 1] = Follow(Append(E[k], q[k + 1])) /\ D[k + 1] = Follow(Append(D[k], p[k + 1]))
      <4> HIDE DEF T
      <4> QED
        BY <2>2, <2>3, <3>1 DEF Followed
    <3> QED
      BY <2>1, <3>1, <3>2
  <2>6. Nat \subseteq T
    <3> HIDE DEF T
    <3> QED
      BY <2>4, <2>5, SetInduction
  <2>7. E[m] = D[m] /\ m + 1 \in 1..Len(q) /\ (m + 1) - 1 = m
    BY <2>1, <2>6
  <2>8. E[m + 1] = Follow(Append(E[m], q[m + 1]))
    <3> HIDE DEF T, m
    <3> QED
      BY <2>3, <2>7 DEF Followed
  <2>9. Real(q) = E[m + 1] /\ Real(p) = D[m]
    BY <2>1, <2>2, <2>3 DEF Followed
  <2> QED
    BY <2>1, <2>7, <2>8, <2>9 DEF q
<1> QED
  BY <1>1, <1>2, <1>3

-----------------------------------------------------------------------------
(* Nothing outside of the share. *)

\* The disk: paths are sequences, and links end somewhere.  What they end at, files,
\* directories, or nothing, is not assumed.
Disk(S) ==
    /\ Tree \subseteq Seq(S) /\ Places \subseteq Seq(S)
    /\ LinksTyped(S)

\* No page comes before there is a share; where the share leads is within itself.
Rooted == share # NoShare => Within(Real(share.root), Real(share.root))
Early == share = NoShare => at.page.path = Nowhere /\ at.page.as = "error"

Inv == Rooted /\ Early /\ StaysInside

\* resolveTarget gives no path, or one that stays in the share also when links are
\* followed.
LEMMA ResolveInside ==
  ASSUME NEW s, NEW rel, Within(Real(s.root), Real(s.root)),
         ResolveTarget(s, rel) # Nowhere
  PROVE  Within(Real(s.root), Real(ResolveTarget(s, rel)))
  BY DEF ResolveTarget

\* Every handler answers with a file that resolveTarget gave, or with none.
LEMMA RequestInside ==
  ASSUME NEW s, NEW url, Within(Real(s.root), Real(s.root)),
         Request(s, url).path # Nowhere
  PROVE  Within(Real(s.root), Real(Request(s, url).path))
<1> DEFINE Inside(p) == p = Nowhere \/ Within(Real(s.root), Real(p))
<1>1. \A rel : Inside(ResolveTarget(s, rel))
  BY ResolveInside
<1>2. ASSUME NEW u PROVE Inside(HandleRaw(s, u).path)
  <2>1. HandleRaw(s, u).path \in {Nowhere, ResolveTarget(s, Decode(u.segments))}
    BY DEF HandleRaw, Page, NoPage
  <2> HIDE DEF Inside
  <2> QED
    BY <1>1, <2>1 DEF Inside
<1>3. Inside(HandlePreview(s, url).path)
  <2>1. HandlePreview(s, url).path \in
          {Nowhere, ResolveTarget(s, Decode(url.segments)),
           HandleRaw(s, BuildRawPath(Decode(url.segments))).path}
    BY DEF HandlePreview, Page, NoPage
  <2> HIDE DEF Inside
  <2> QED
    BY <1>1, <1>2, <2>1 DEF Inside
<1>4. Inside(HandleHTMLArtifact(s, url).path)
  <2>1. HandleHTMLArtifact(s, url).path \in {Nowhere, ResolveTarget(s, Decode(url.segments))}
    BY DEF HandleHTMLArtifact, Page, NoPage
  <2> HIDE DEF Inside
  <2> QED
    BY <1>1, <2>1 DEF Inside
<1>5. Inside(Request(s, url).path)
  <2> HIDE DEF Inside
  <2> QED
    BY <1>2, <1>3, <1>4 DEF Request
<1> QED
  BY <1>5

LEMMA InitInv == Init => Inv
  BY DEF Init, Inv, Rooted, Early, StaysInside, Outside, NoPage, Page

LEMMA EditInv ==
  ASSUME Inv, NEW p, NEW targets, Edit(p, targets)
  PROVE  Inv'
  BY DEF Edit, Inv, Rooted, Early, StaysInside, Outside, NoPage, Page

LEMMA PublishInv ==
  ASSUME NEW S, Disk(S), Inv, NEW p \in Places, NEW snapshot, Publish(p, snapshot)
  PROVE  Inv'
<1>1. p \in Seq(S) /\ Parent(p) \in Seq(S)
  <2>1. p \in Seq(S)
    BY DEF Disk
  <2>2. CASE p = <<>>
    <3>1. Len(p) - 1 < 1 /\ Len(p) - 1 \in Int
      BY <2>2, EmptySeq
    <3>2. Parent(p) = <<>>
      BY <3>1, SubSeqEmpty DEF Parent
    <3> QED
      BY <2>1, <3>2, EmptySeq
  <2> QED
    BY <2>1, <2>2, ParentTyped
<1>2. Plan(p).root \in {p, Parent(p)}
  BY DEF Plan
<1>3. Real(Plan(p).root) \in Seq(S)
  BY <1>1, <1>2, RealStep DEF Disk
<1>4. share'.root = Plan(p).root
  BY DEF Publish
<1>5. Rooted'
  BY <1>3, <1>4, PrefixOfItself DEF Rooted
<1>6. Early' /\ StaysInside'
  BY DEF Publish, Inv, Early, StaysInside
<1> QED
  BY <1>5, <1>6 DEF Inv

\* A request of a published share, for any URL.
LEMMA VisitInv ==
  ASSUME Inv, share # NoShare, NEW via, NEW want, NEW bytes, NEW url,
         Visit(via, want, bytes, url)
  PROVE  Inv'
<1>1. at'.page = Request(share, url) /\ share' = share
  BY DEF Visit
<1>2. Rooted' /\ Early'
  BY <1>1 DEF Inv, Rooted, Early
<1>3. StaysInside'
  BY <1>1, RequestInside DEF Inv, Rooted, StaysInside
<1> QED
  BY <1>2, <1>3 DEF Inv

LEMMA FollowTargetInv ==
  ASSUME Inv, NEW t, FollowTarget(t)
  PROVE  Inv'
<1>1. share # NoShare
  BY DEF FollowTarget, Inv, Early
<1>2. CASE t.abs \/ share.isDir
  BY <1>1, <1>2, VisitInv DEF FollowTarget
<1>3. CASE ~(t.abs \/ share.isDir)
  <2>1. at'.page.path = Nowhere /\ share' = share
    BY <1>3 DEF FollowTarget, NoPage, Page
  <2> QED
    BY <1>1, <2>1 DEF Inv, Rooted, Early, StaysInside
<1> QED
  BY <1>2, <1>3

LEMMA NextInv ==
  ASSUME NEW S, Disk(S), Inv, [Next]_vars
  PROVE  Inv'
<1>1. ASSUME NEW p, NEW targets, Edit(p, targets) PROVE Inv'
  BY <1>1, EditInv
<1>2. ASSUME NEW p \in Places, NEW snapshot, Publish(p, snapshot) PROVE Inv'
  BY <1>2, PublishInv
<1>3. CASE OpenPrinted
  BY <1>3, VisitInv DEF OpenPrinted
<1>4. ASSUME NEW name, NEW raw, OpenEntry(name, raw) PROVE Inv'
  <2>1. share # NoShare
    BY <1>4 DEF OpenEntry, Inv, Early
  <2> QED
    BY <1>4, <2>1, VisitInv DEF OpenEntry
<1>5. ASSUME NEW k, OpenBreadcrumb(k) PROVE Inv'
  <2>1. share # NoShare
    BY <1>5 DEF OpenBreadcrumb, Inv, Early
  <2> QED
    BY <1>5, <2>1, VisitInv DEF OpenBreadcrumb
<1>6. CASE OpenRaw
  <2>1. share # NoShare
    BY <1>6 DEF OpenRaw, Inv, Early
  <2> QED
    BY <1>6, <2>1, VisitInv DEF OpenRaw
<1>7. CASE LoadFrame
  <2>1. share # NoShare
    BY <1>7 DEF LoadFrame, Inv, Early
  <2> QED
    BY <1>7, <2>1, VisitInv DEF LoadFrame
<1>8. ASSUME NEW t, FollowTarget(t) PROVE Inv'
  BY <1>8, FollowTargetInv
<1>9. CASE UNCHANGED vars
  BY <1>9 DEF vars, Inv, Rooted, Early, StaysInside
<1> QED
  BY <1>1, <1>2, <1>3, <1>4, <1>5, <1>6, <1>7, <1>8, <1>9 DEF Next

\* Whatever is published, itself perhaps a link or behind one, and whatever the links
\* of its pages and documents lead to, no page and no bytes come from outside of where
\* it leads: on every disk, with links to files, directories or nothing, as
\* ResolveScopedPath sees it.  A link turned between that look and the opening of the
\* file is not covered.
THEOREM Scoped ==
  ASSUME NEW S, Disk(S)
  PROVE  Spec => []StaysInside
<1>1. Init => Inv
  BY InitInv
<1>2. Inv /\ [Next]_vars => Inv'
  BY NextInv
<1>3. Inv => StaysInside
  BY DEF Inv
<1> QED
  BY <1>1, <1>2, <1>3, PTL DEF Spec

-----------------------------------------------------------------------------
(* Clean, step by step. *)

CleanStep(done, n) ==
    IF n # Up THEN Append(done, n) ELSE IF done = <<>> THEN <<>> ELSE Parent(done)

LEMMA CleanStepTyped ==
  ASSUME NEW S, NEW done \in Seq(S), NEW n \in S
  PROVE  CleanStep(done, n) \in Seq(S)
<1>1. CASE done = <<>>
  BY <1>1, AppendProperties, EmptySeq DEF CleanStep
<1>2. CASE done # <<>>
  BY <1>2, AppendProperties, ParentTyped DEF CleanStep
<1> QED
  BY <1>1, <1>2

\* A step that does not go up from the root is the same below any directory.
LEMMA CleanStepUnder ==
  ASSUME NEW S, NEW root \in Seq(S), NEW done \in Seq(S), NEW n \in S, n = Up => done # <<>>
  PROVE  /\ CleanStep(Under(root, done), n) = Under(root, CleanStep(done, n))
         /\ Len(CleanStep(done, n)) = IF n = Up THEN Len(done) - 1 ELSE Len(done) + 1
<1>1. CASE n # Up
  <2>1. CleanStep(done, n) = Append(done, n)
    BY <1>1 DEF CleanStep
  <2>2. CleanStep(Under(root, done), n) = Append(Under(root, done), n)
    BY <1>1 DEF CleanStep
  <2>3. Append(Under(root, done), n) = Under(root, Append(done, n))
    BY AppendBelow
  <2>4. Len(Append(done, n)) = Len(done) + 1
    BY AppendProperties
  <2> QED
    BY <1>1, <2>1, <2>2, <2>3, <2>4
<1>2. CASE n = Up
  <2>1. Parent(root \o done) = root \o Parent(done) /\ root \o done # <<>>
    BY <1>2, ParentBelow
  <2>2. CleanStep(done, n) = Parent(done) /\ Len(Parent(done)) = Len(done) - 1
    BY <1>2, ParentTyped DEF CleanStep
  <2>3. CleanStep(root \o done, n) = Parent(root \o done)
    BY <1>2, <2>1 DEF CleanStep
  <2> QED
    BY <1>2, <2>1, <2>2, <2>3 DEF Under
<1> QED
  BY <1>1, <1>2

CleanIter(path) ==
    CHOOSE iter : iter = [s \in SUBSET DOMAIN path |->
                            IF s = {} THEN <<>> ELSE CleanStep(iter[s \ {Max(s)}], path[Max(s)])]

LEMMA CleanUnfold ==
  ASSUME NEW path
  PROVE  Clean(path) = CleanIter(path)[DOMAIN path]
  BY DEF Clean, CleanIter, CleanStep, FoldLeft, MapThenFoldSet

\* What is cleaned of the first names of a path.
CleanedUpTo(D, path, S) ==
    /\ D \in [0..Len(path) -> Seq(S)]
    /\ D[0] = <<>>
    /\ \A k \in 1..Len(path) : D[k] = CleanStep(D[k - 1], path[k])
    /\ Clean(path) = D[Len(path)]

LEMMA CleanSteps ==
  ASSUME NEW S, NEW path \in Seq(S)
  PROVE  \E D : CleanedUpTo(D, path, S)
<1> DEFINE n == Len(path)
           W == 1..n
           h == [x \in W \X Seq(S) |-> CleanStep(x[2], path[x[1]])]
           Step(f, s) == IF s = {} THEN <<>> ELSE CleanStep(f[s \ {Max(s)}], path[Max(s)])
<1>1. n \in Nat /\ DOMAIN path = W /\ \A k \in W : path[k] \in S
  BY LenProperties, ElementOfSeq
<1>2. \A k \in W, v \in Seq(S) : /\ h[<<k, v>>] \in Seq(S)
                                 /\ h[<<k, v>>] = CleanStep(v, path[k])
  BY <1>1, CleanStepTyped
<1> HIDE DEF h
<1>3. PICK f \in [SUBSET W -> Seq(S)] : FoldOf(f, n, h)
  <2>1. <<>> \in Seq(S)
    BY EmptySeq
  <2>2. \A k \in 1..n, v \in Seq(S) : h[<<k, v>>] \in Seq(S)
    BY <1>2
  <2>3. n \in Nat
    BY <1>1
  <2> DEFINE V == Seq(S)
  <2>4. <<>> \in V /\ \A k \in 1..n, v \in V : h[<<k, v>>] \in V
    BY <2>1, <2>2
  <2> HIDE DEF n, Step, V
  <2>5. \E f \in [SUBSET (1..n) -> V] : FoldOf(f, n, h)
    BY <2>3, <2>4, NamesFold
  <2> QED
    BY <2>5 DEF V
<1>4. ASSUME NEW s \in SUBSET W PROVE f[s] = Step(f, s)
  <2>1. CASE s = {}
    BY <1>3, <2>1 DEF FoldOf
  <2>2. CASE s # {}
    <3>1. Max(s) \in W /\ s \ {Max(s)} \in SUBSET W
      BY <1>1, <2>2, MaxIn
    <3>2. f[s \ {Max(s)}] \in Seq(S)
      BY <3>1
    <3> QED
      BY <1>2, <1>3, <2>2, <3>1, <3>2 DEF FoldOf
  <2> QED
    BY <2>1, <2>2
<1>5. f = [s \in SUBSET W |-> Step(f, s)]
  <2> HIDE DEF Step, W
  <2> QED
    BY <1>4
<1> DEFINE I == CleanIter(path)
<1>6. I = [s \in SUBSET W |-> Step(I, s)]
  BY <1>1, <1>5 DEF CleanIter
<1>7. \A s \in SUBSET W : I[s] = Step(I, s)
  <2> HIDE DEF I, Step, W
  <2> QED
    BY <1>6
<1> DEFINE D == [k \in 0..n |-> I[1..k]]
<1>8. Clean(path) = D[n]
  BY <1>1, CleanUnfold
<1> HIDE DEF I
<1>9. D[0] = <<>>
  <2>1. 1..0 = {} /\ {} \in SUBSET W /\ 0 \in 0..n
    BY <1>1
  <2> QED
    BY <1>7, <2>1
<1>10. ASSUME NEW k \in 1..n PROVE D[k] = CleanStep(D[k - 1], path[k])
  <2>1. /\ 1..k \in SUBSET W /\ 1..k # {} /\ Max(1..k) = k /\ (1..k) \ {k} = 1..(k - 1)
        /\ k \in 0..n /\ k - 1 \in 0..n
    <3> HIDE DEF n
    <3> QED
      BY <1>1, FirstNames
  <2>2. I[1..k] = Step(I, 1..k)
    <3> HIDE DEF Step, W
    <3> QED
      BY <1>7, <2>1
  <2> QED
    BY <2>1, <2>2
<1> HIDE DEF D
<1>11. \A k \in 0..n : D[k] \in Seq(S)
  <2> DEFINE T == {k \in Nat : k <= n => D[k] \in Seq(S)}
  <2>1. 0 \in T
    BY <1>9, EmptySeq
  <2>2. ASSUME NEW k \in Nat, k \in T PROVE k + 1 \in T
    <3> SUFFICES ASSUME k + 1 <= n PROVE D[k + 1] \in Seq(S)
      OBVIOUS
    <3>1. k + 1 \in 1..n /\ (k + 1) - 1 = k /\ D[k] \in Seq(S) /\ path[k + 1] \in S
      BY <1>1, <2>2
    <3>2. D[k + 1] = CleanStep(D[k], path[k + 1])
      BY <1>10, <3>1
    <3> QED
      BY <3>1, <3>2, CleanStepTyped
  <2>3. Nat \subseteq T
    <3> HIDE DEF T
    <3> QED
      BY <2>1, <2>2, SetInduction
  <2> QED
    BY <1>1, <2>3
<1>12. D \in [0..n -> Seq(S)]
  BY <1>11 DEF D
<1> QED
  BY <1>8, <1>9, <1>10, <1>12 DEF CleanedUpTo

LEMMA CleanTyped ==
  ASSUME NEW S, NEW path \in Seq(S)
  PROVE  Clean(path) \in Seq(S)
<1>1. PICK D : CleanedUpTo(D, path, S)
  BY CleanSteps
<1>2. Len(path) \in 0..Len(path)
  BY LenProperties
<1> QED
  BY <1>1, <1>2 DEF CleanedUpTo

\* How often the first k names of a path go up.
Ups(path, k) == Cardinality({j \in 1..k : path[j] = Up})

LEMMA UpsNext ==
  ASSUME NEW S, NEW path \in Seq(S)
  PROVE  /\ Ups(path, 0) = 0
         /\ \A k \in Nat : Ups(path, k) \in Nat
                           /\ Ups(path, k + 1) = Ups(path, k) + (IF path[k + 1] = Up THEN 1 ELSE 0)
<1>1. Ups(path, 0) = 0
  <2>1. {j \in 1..0 : path[j] = Up} = {}
    OBVIOUS
  <2> QED
    BY <2>1, FS_EmptySet DEF Ups
<1>2. ASSUME NEW k \in Nat
      PROVE  Ups(path, k) \in Nat
             /\ Ups(path, k + 1) = Ups(path, k) + (IF path[k + 1] = Up THEN 1 ELSE 0)
  <2> DEFINE U == {j \in 1..k : path[j] = Up}
             V == {j \in 1..(k + 1) : path[j] = Up}
  <2>1. IsFiniteSet(U)
    <3>1. 1 \in Int /\ k \in Int
      OBVIOUS
    <3>2. IsFiniteSet(1..k) /\ U \subseteq 1..k
      BY <3>1, FS_Interval
    <3> HIDE DEF U
    <3> QED
      BY <3>2, FS_Subset
  <2>2. Cardinality(U) \in Nat
    BY <2>1, FS_CardinalityType
  <2>3. CASE path[k + 1] = Up
    <3>1. V = U \cup {k + 1} /\ k + 1 \notin U
      BY <2>3
    <3>2. Cardinality(V) = Cardinality(U) + 1
      <4> HIDE DEF U, V
      <4> QED
        BY <2>1, <3>1, FS_AddElement
    <3> QED
      BY <2>2, <2>3, <3>2 DEF Ups
  <2>4. CASE path[k + 1] # Up
    <3>1. V = U
      BY <2>4
    <3>2. Ups(path, k + 1) = Ups(path, k) /\ Ups(path, k) = Cardinality(U)
      BY <3>1 DEF Ups
    <3> HIDE DEF U, V
    <3> QED
      BY <2>2, <2>4, <3>2
  <2> QED
    BY <2>3, <2>4
<1> QED
  BY <1>1, <1>2

\* A path that never goes up above where it begins is cleaned below it as it is cleaned
\* by itself.
LEMMA CleanBelow ==
  ASSUME NEW S, NEW root \in Seq(S), NEW path \in Seq(S),
         \A k \in 1..Len(root) : root[k] # Up,
         ~EscapesRoot(path)
  PROVE  Clean(root \o path) = root \o Clean(path)
<1> DEFINE m == Len(root)
           n == Len(path)
           r == root \o path
<1>1. /\ m \in Nat /\ n \in Nat /\ r \in Seq(S) /\ Len(r) = m + n
      /\ \A k \in 1..(m + n) : r[k] = IF k <= m THEN root[k] ELSE path[k - m]
      /\ \A k \in 1..m : root[k] \in S /\ root[k] # Up
      /\ \A k \in 1..n : path[k] \in S
  BY ConcatProperties, LenProperties, ElementOfSeq
<1>2. PICK D : CleanedUpTo(D, path, S)
  BY CleanSteps
<1>3. PICK E : CleanedUpTo(E, r, S)
  <2> HIDE DEF r
  <2> QED
    BY <1>1, CleanSteps
<1>4. \A k \in 1..n : 2 * Ups(path, k) <= k
  <2> SUFFICES ASSUME NEW k \in 1..n PROVE 2 * Ups(path, k) <= k
    OBVIOUS
  <2>1. ~(2 * Ups(path, k) > k)
    BY DEF EscapesRoot, Ups
  <2>2. Ups(path, k) \in Nat /\ k \in Nat
    BY <1>1, UpsNext
  <2> QED
    BY <2>1, <2>2
<1>5. /\ D[0] = <<>> /\ E[0] = <<>>
      /\ \A k \in 0..n : D[k] \in Seq(S)
      /\ \A k \in 1..n : D[k] = CleanStep(D[k - 1], path[k])
      /\ \A k \in 1..(m + n) : E[k] = CleanStep(E[k - 1], r[k])
      /\ Clean(path) = D[n] /\ Clean(r) = E[m + n]
  BY <1>1, <1>2, <1>3 DEF CleanedUpTo
<1> HIDE DEF r
\* The names of the root are kept.
<1>6. E[m] = root
  <2> DEFINE T == {k \in Nat : k <= m => E[k] = SubSeq(root, 1, k)}
  <2>1. 0 \in T
    <3>1. SubSeq(root, 1, 0) = <<>>
      BY SubSeqEmpty
    <3> QED
      BY <1>5, <3>1
  <2>2. ASSUME NEW k \in Nat, k \in T PROVE k + 1 \in T
    <3> SUFFICES ASSUME k + 1 <= m PROVE E[k + 1] = SubSeq(root, 1, k + 1)
      OBVIOUS
    <3>1. k + 1 \in 1..m /\ k + 1 \in 1..(m + n) /\ (k + 1) - 1 = k /\ k <= m
      BY <1>1
    <3>2. E[k + 1] = CleanStep(SubSeq(root, 1, k), root[k + 1])
      BY <1>1, <1>5, <2>2, <3>1
    <3>3. SubSeq(root, 1, k) \in Seq(S)
      <4>1. 1 \in Int /\ k \in Int /\ \A j \in 1..k : root[j] \in S
        BY <1>1, <3>1
      <4> QED
        BY <4>1, SubSeqProperties
    <3>4. E[k + 1] = SubSeq(root, 1, k) \o <<root[k + 1]>>
      BY <1>1, <3>1, <3>2, <3>3, AppendIsConcat DEF CleanStep
    <3>5. SubSeq(root, 1, k + 1) = SubSeq(root, 1, (k + 1) - 1) \o <<root[k + 1]>>
      <4>1. 1 \in 1..Len(root) /\ k + 1 \in 1..Len(root)
        BY <3>1
      <4> QED
        BY <4>1, SubSeqRecursiveSecond
    <3> QED
      BY <3>1, <3>4, <3>5
  <2>3. Nat \subseteq T
    <3> HIDE DEF T
    <3> QED
      BY <2>1, <2>2, SetInduction
  <2>4. E[m] = SubSeq(root, 1, m)
    BY <1>1, <2>3
  <2> QED
    BY <2>4, SubSeqFull
\* And what is done below it leaves it alone.
<1>7. E[m + n] = Under(root, D[n])
  <2> DEFINE T == {k \in Nat : k <= n => /\ E[m + k] = Under(root, D[k])
                                         /\ Len(D[k]) = k - 2 * Ups(path, k)}
  <2>1. 0 \in T
    <3>1. root \o <<>> = root /\ Len(<<>>) = 0 /\ m + 0 = m
      BY <1>1, ConcatEmptySeq, EmptySeq
    <3>2. Ups(path, 0) = 0
      BY UpsNext
    <3> QED
      BY <1>5, <1>6, <3>1, <3>2 DEF Under
  <2>2. ASSUME NEW k \in Nat, k \in T PROVE k + 1 \in T
    <3> SUFFICES ASSUME k + 1 <= n
                 PROVE  /\ E[m + (k + 1)] = Under(root, D[k + 1])
                        /\ Len(D[k + 1]) = (k + 1) - 2 * Ups(path, k + 1)
      OBVIOUS
    <3> DEFINE d == D[k]
               u == Ups(path, k)
               x == path[k + 1]
    <3>1. /\ k + 1 \in 1..n /\ m + (k + 1) \in 1..(m + n) /\ (m + (k + 1)) - 1 = m + k
          /\ (m + (k + 1)) - m = k + 1 /\ ~(m + (k + 1) <= m) /\ (k + 1) - 1 = k /\ k \in 0..n
      BY <1>1
    <3>2. d \in Seq(S) /\ x \in S /\ u \in Nat /\ Len(d) = k - 2 * u /\ E[m + k] = Under(root, d)
      <4>1. d \in Seq(S) /\ x \in S
        BY <1>1, <1>5, <3>1
      <4>2. u \in Nat
        BY UpsNext
      <4>3. Len(d) = k - 2 * u /\ E[m + k] = Under(root, d)
        BY <1>1, <2>2, <3>1
      <4> QED
        BY <4>1, <4>2, <4>3
    <3>3. D[k + 1] = CleanStep(d, x)
      BY <1>5, <3>1
    <3>4. E[m + (k + 1)] = CleanStep(Under(root, d), x)
      <4> DEFINE j == m + (k + 1)
      <4>1. j \in 1..(m + n) /\ j - 1 = m + k /\ r[j] = x
        BY <1>1, <3>1
      <4>2. E[j] = CleanStep(E[j - 1], r[j])
        <5> HIDE DEF j, r, m, n
        <5> QED
          BY <1>5, <4>1
      <4> QED
        BY <3>2, <4>1, <4>2
    <3>5. Ups(path, k + 1) = u + (IF x = Up THEN 1 ELSE 0) /\ 2 * Ups(path, k + 1) <= k + 1
      BY <1>4, <3>1, UpsNext
    <3> HIDE DEF d, u, x, m, n, r, T
    <3>6. x = Up => d # <<>>
      <4> SUFFICES ASSUME x = Up PROVE d # <<>>
        OBVIOUS
      <4>1. Len(d) >= 1
        BY <3>2, <3>5
      <4> QED
        BY <4>1, EmptySeq
    <3>7. /\ CleanStep(Under(root, d), x) = Under(root, CleanStep(d, x))
          /\ Len(CleanStep(d, x)) = IF x = Up THEN Len(d) - 1 ELSE Len(d) + 1
      <4>1. root \in Seq(S) /\ d \in Seq(S) /\ x \in S
        BY <3>2
      <4> QED
        BY <3>6, <4>1, CleanStepUnder
    <3>8. E[m + (k + 1)] = Under(root, D[k + 1])
      BY <3>3, <3>4, <3>7
    <3>9. Len(D[k + 1]) = (k + 1) - 2 * Ups(path, k + 1)
      <4>1. CASE x = Up
        BY <3>2, <3>3, <3>5, <3>7, <4>1
      <4>2. CASE x # Up
        BY <3>2, <3>3, <3>5, <3>7, <4>2
      <4> QED
        BY <4>1, <4>2
    <3> QED
      BY <3>8, <3>9
  <2>3. Nat \subseteq T
    <3> HIDE DEF T
    <3> QED
      BY <2>1, <2>2, SetInduction
  <2> QED
    BY <1>1, <2>3
<1> QED
  BY <1>5, <1>7 DEF r, Under

-----------------------------------------------------------------------------
(* URLs. *)

LEMMA Escaped ==
  ASSUME NEW S, NEW path \in Seq(S)
  PROVE  /\ Decode(Escape(path)) = path
         /\ DOMAIN Escape(path) = 1..Len(path)
<1>1. DOMAIN Escape(path) = DOMAIN path /\ DOMAIN path = 1..Len(path)
      /\ path = [k \in DOMAIN path |-> path[k]]
  BY LenProperties DEF Escape
<1>2. \A k \in DOMAIN path : Escape(path)[k].name = path[k] /\ Escape(path)[k].esc \in {0, 1}
  BY DEF Escape
<1>3. Decode(Escape(path)) = [k \in DOMAIN path |-> path[k]]
  BY <1>1, <1>2 DEF Decode
<1> QED
  BY <1>1, <1>3

\* escapeRel keeps a path unless it begins or ends with a blank.
LEMMA RelEscaped ==
  ASSUME NEW S, NEW path \in Seq(S), ~Blank(path)
  PROVE  Decode(EscapeRel(path)) = path
<1>1. DOMAIN path = 1..Len(path) /\ Len(path) \in Nat /\ path = [k \in DOMAIN path |-> path[k]]
  BY LenProperties
<1>2. ASSUME NEW k \in DOMAIN path
      PROVE  ~((k = 1 /\ path[k].stem \in Padded) \/ (k = Len(path) /\ path[k].stem \in Trailing))
  <2>1. path # <<>>
    BY <1>1, <1>2, EmptySeq
  <2> QED
    BY <2>1 DEF Blank, Last
<1>3. Trim(path) = [k \in DOMAIN path |-> path[k]]
  BY <1>2 DEF Trim
<1>4. EscapeRel(path) = Escape(path)
  BY <1>1, <1>3 DEF EscapeRel
<1> QED
  BY <1>4, Escaped

\* A URL is a route and a sequence of segments, whatever was escaped in them.
IsURL(url) ==
    /\ url = [route |-> url.route, segments |-> url.segments]
    /\ \E T : url.segments \in Seq(T)

LEMMA ListOf ==
  ASSUME NEW n \in Nat, NEW f, DOMAIN f = 1..n, f = [k \in 1..n |-> f[k]]
  PROVE  \E T : f \in Seq(T)
<1> DEFINE T == {f[k] : k \in 1..n}
<1>1. f \in [1..n -> T]
  OBVIOUS
<1>2. f \in Seq(T)
  <2> HIDE DEF T
  <2> QED
    BY <1>1, SeqDef
<1> QED
  BY <1>2

LEMMA EscapeSegments ==
  ASSUME NEW S, NEW path \in Seq(S), NEW route
  PROVE  /\ IsURL([route |-> route, segments |-> Escape(path)])
         /\ IsURL([route |-> route, segments |-> EscapeRel(path)])
<1>1. DOMAIN path = 1..Len(path) /\ Len(path) \in Nat
  BY LenProperties
<1>2. ASSUME NEW q, DOMAIN q = 1..Len(path) PROVE \E T : Escape(q) \in Seq(T)
  <2>1. DOMAIN Escape(q) = 1..Len(path) /\ Escape(q) = [k \in 1..Len(path) |-> Escape(q)[k]]
    BY <1>2 DEF Escape
  <2> QED
    BY <1>1, <2>1, ListOf
<1>3. DOMAIN Trim(path) = DOMAIN path
  BY DEF Trim
<1>4. \E T : EscapeRel(path) \in Seq(T)
  <2>1. \E q : DOMAIN q = 1..Len(path) /\ EscapeRel(path) = Escape(q)
    BY <1>1, <1>3 DEF EscapeRel
  <2> QED
    BY <1>2, <2>1
<1> QED
  BY <1>1, <1>2, <1>4 DEF IsURL

LEMMA Decoded ==
  ASSUME NEW T, NEW segments \in Seq(T)
  PROVE  /\ \E U : Decode(segments) \in Seq(U)
         /\ DOMAIN Decode(segments) = 1..Len(segments) /\ Len(segments) \in Nat
         /\ Len(Decode(segments)) = Len(segments)
<1> DEFINE n == Len(segments)
           rel == Decode(segments)
<1>1. n \in Nat /\ DOMAIN segments = 1..n
  BY LenProperties
<1>2. DOMAIN rel = 1..n /\ rel = [k \in 1..n |-> rel[k]]
  BY <1>1 DEF Decode
<1> HIDE DEF n, rel
<1>3. PICK U : rel \in Seq(U)
  BY <1>1, <1>2, ListOf
<1>4. Len(rel) \in Nat /\ DOMAIN rel = 1..Len(rel)
  BY <1>3, LenProperties
<1>5. Len(rel) = n
  BY <1>1, <1>2, <1>4
<1> QED
  BY <1>1, <1>2, <1>3, <1>5 DEF n, rel

-----------------------------------------------------------------------------
(* The disk. *)

LEMMA DiskPaths ==
  ASSUME NEW S, Tidy(S)
  PROVE  /\ \A p \in Tree \cup Dirs : /\ p \in Seq(S)
                                      /\ \A k \in 1..Len(p) : p[k] \in S \ {Up, NoName}
                                      /\ p # Nowhere
         /\ \A p \in Tree \cup Dirs, k \in Nat : k < Len(p) => SubSeq(p, 1, k) \in Dirs
         /\ \A p \in Tree \cup Dirs : p # <<>> => Parent(p) \in Dirs
<1>1. ASSUME NEW p \in Tree PROVE p \in Seq(S) /\ \A k \in 1..Len(p) : p[k] \in S \ {Up, NoName}
  BY ElementOfSeq DEF Tidy
<1>2. ASSUME NEW p \in Dirs
      PROVE  \E q \in Tree, m \in Nat : /\ m < Len(q) /\ p = SubSeq(q, 1, m) /\ Len(p) = m
                                        /\ p \in Seq(S) /\ \A k \in 1..m : p[k] = q[k]
  <2>0. PICK q \in Tree : p \in {SubSeq(q, 1, k) : k \in 0..(Len(q) - 1)}
    BY Zenon DEF Dirs
  <2>1. PICK m \in 0..(Len(q) - 1) : p = SubSeq(q, 1, m)
    BY <2>0
  <2>2. Len(q) \in Nat /\ m \in Nat /\ m < Len(q) /\ \A k \in 1..m : q[k] \in S
    BY <1>1, <2>1, LenProperties
  <2>3. /\ SubSeq(q, 1, m) \in Seq(S)
        /\ Len(SubSeq(q, 1, m)) = (IF 1 <= m THEN m - 1 + 1 ELSE 0)
        /\ \A k \in 1..(m - 1 + 1) : SubSeq(q, 1, m)[k] = q[1 + k - 1]
    <3>1. 1 \in Int /\ m \in Int
      BY <2>2
    <3> QED
      BY <2>2, <3>1, SubSeqProperties
  <2>4. Len(p) = m /\ p \in Seq(S)
    BY <2>1, <2>2, <2>3
  <2>5. ASSUME NEW k \in 1..m PROVE p[k] = q[k]
    <3>1. k \in 1..(m - 1 + 1) /\ 1 + k - 1 = k
      BY <2>2
    <3> QED
      BY <2>1, <2>3, <3>1
  <2> QED
    BY <2>1, <2>2, <2>4, <2>5
<1>3. ASSUME NEW p \in Tree \cup Dirs
      PROVE  p \in Seq(S) /\ \A k \in 1..Len(p) : p[k] \in S \ {Up, NoName}
  <2>1. CASE p \in Tree
    BY <1>1, <2>1
  <2>2. CASE p \in Dirs
    <3>1. PICK q \in Tree, m \in Nat : /\ m < Len(q) /\ p = SubSeq(q, 1, m) /\ Len(p) = m
                                       /\ p \in Seq(S) /\ \A k \in 1..m : p[k] = q[k]
      BY <1>2, <2>2
    <3>2. Len(q) \in Nat /\ \A k \in 1..Len(q) : q[k] \in S \ {Up, NoName}
      BY <1>1, LenProperties
    <3> QED
      BY <3>1, <3>2
  <2> QED
    BY <2>1, <2>2
<1>4. ASSUME NEW p \in Tree \cup Dirs, p = Nowhere PROVE FALSE
  <2>1. Len(p) = 1 /\ p[1] = NoName
    BY <1>4 DEF Nowhere
  <2> QED
    BY <1>3, <2>1
<1>5. ASSUME NEW p \in Tree, NEW k \in Nat, k < Len(p) PROVE SubSeq(p, 1, k) \in Dirs
  <2>1. k \in 0..(Len(p) - 1)
    BY <1>1, <1>5, LenProperties
  <2> QED
    BY <2>1 DEF Dirs
<1>6. ASSUME NEW p \in Dirs, NEW k \in Nat, k < Len(p) PROVE SubSeq(p, 1, k) \in Dirs
  <2>1. PICK q \in Tree, m \in Nat : /\ m < Len(q) /\ p = SubSeq(q, 1, m) /\ Len(p) = m
                                     /\ p \in Seq(S) /\ \A j \in 1..m : p[j] = q[j]
    BY <1>2
  <2>2. k < Len(q) /\ q \in Seq(S) /\ Len(q) \in Nat
    BY <1>1, <1>6, <2>1, LenProperties
  <2>3. SubSeq(p, 1, k) = SubSeq(q, 1, k)
    <3>1. CASE k = 0
      <4>1. k \in Int /\ k < 1
        BY <3>1
      <4> QED
        BY <4>1, SubSeqEmpty
    <3>2. CASE k # 0
      <4>1. 1 \in 1..Len(q) /\ m \in 1..Len(q) /\ 1 \in 1..(m - 1 + 1) /\ k \in 1..(m - 1 + 1)
        BY <1>6, <2>1, <2>2, <3>2
      <4>2. SubSeq(SubSeq(q, 1, m), 1, k) = SubSeq(q, 1 + 1 - 1, 1 + k - 1)
        BY <2>2, <4>1, SubSeqOfSubSeq
      <4>3. 1 + 1 - 1 = 1 /\ 1 + k - 1 = k
        OBVIOUS
      <4> QED
        BY <2>1, <4>2, <4>3
    <3> QED
      BY <3>1, <3>2
  <2> QED
    BY <1>5, <2>2, <2>3
<1>7. ASSUME NEW p \in Tree \cup Dirs, p # <<>> PROVE Parent(p) \in Dirs
  <2>1. Len(p) - 1 \in Nat /\ Len(p) - 1 < Len(p)
    BY <1>3, <1>7, EmptySeq
  <2> QED
    BY <1>5, <1>6, <2>1 DEF Parent
<1> QED
  BY <1>3, <1>4, <1>5, <1>6, <1>7

LEMMA TidyDisk ==
  ASSUME NEW S, Tidy(S)
  PROVE  Disk(S) /\ LinksTyped(S) /\ \A p \in DOMAIN Links : Links[p] \in (Tree \cup Dirs)
<1>1. \A p \in DOMAIN Links : Links[p] \in (Tree \cup Dirs)
  BY DEF Tidy, Files
<1>2. LinksTyped(S)
  BY <1>1, DiskPaths DEF LinksTyped
<1> QED
  BY <1>1, <1>2 DEF Tidy, Disk

LEMMA Appended ==
  ASSUME NEW S, NEW p \in Seq(S), NEW n \in S
  PROVE  /\ Append(p, n) \in Seq(S) /\ Append(p, n) # <<>>
         /\ Parent(Append(p, n)) = p /\ Last(Append(p, n)) = n
<1> DEFINE q == Append(p, n)
<1>1. q \in Seq(S) /\ Len(q) = Len(p) + 1 /\ q[Len(q)] = n /\ Len(p) \in Nat
      /\ \A k \in 1..Len(p) : q[k] = p[k]
  BY AppendProperties, LenProperties
<1> HIDE DEF q
<1>2. q # <<>>
  BY <1>1, EmptySeq
<1>3. Parent(q) \in Seq(S) /\ Len(Parent(q)) = Len(q) - 1 /\ \A k \in 1..(Len(q) - 1) : Parent(q)[k] = q[k]
  BY <1>1, <1>2, ParentTyped
<1>4. Len(Parent(q)) = Len(p) /\ \A k \in 1..Len(p) : Parent(q)[k] = p[k]
  BY <1>1, <1>3
<1>5. Parent(q) = p
  BY <1>3, <1>4, SeqEqual
<1> QED
  BY <1>1, <1>2, <1>5 DEF q, Last

\* What a path names, when links are followed.
Exists(p) == IsFile(p) \/ IsDir(p)

\* The parent of what exists is a directory, and its last name one of a file.
LEMMA StepUp ==
  ASSUME NEW S, Tidy(S), NEW U, S \subseteq U, NEW p \in Seq(U), NEW n \in U,
         Exists(Append(p, n))
  PROVE  /\ IsDir(p) /\ n \in S \ {Up, NoName}
         /\ IsFile(Append(p, n)) => n.ext \in DOMAIN KindOfExtension
<1> DEFINE here == Real(p)
           r == Append(here, n)
<1>1. LinksTyped(U)
  <2>1. LinksTyped(S) /\ \A q \in Seq(S) : q \in Seq(U)
    <3>1. S \cup U = U
      OBVIOUS
    <3> QED
      BY <3>1, TidyDisk, Wider
  <2> QED
    BY <2>1 DEF LinksTyped
<1>2. here \in Seq(U) /\ Real(Append(p, n)) = Follow(r)
  BY <1>1, RealStep
<1>3. r \in Tree \cup Dirs /\ (IsFile(Append(p, n)) => r \in Tree)
  <2>1. Follow(r) \in Tree \cup Dirs
    BY <1>2 DEF Exists, IsFile, IsDir, Files
  <2>2. CASE r \in DOMAIN Links
    BY <2>2 DEF Tidy
  <2>3. CASE r \notin DOMAIN Links
    <3>1. Follow(r) = r
      BY <2>3 DEF Follow
    <3> QED
      BY <1>2, <2>1, <3>1 DEF IsFile, Files
  <2> QED
    BY <2>2, <2>3
<1>4. r # <<>> /\ Parent(r) = here /\ Last(r) = n
  <2> HIDE DEF here
  <2> QED
    BY <1>2, Appended
<1> HIDE DEF r
<1>5. r \in Seq(S) /\ (\A k \in 1..Len(r) : r[k] \in S \ {Up, NoName}) /\ Parent(r) \in Dirs
  BY <1>3, <1>4, DiskPaths
<1>6. IsDir(p)
  BY <1>4, <1>5 DEF IsDir
<1>7. n \in S \ {Up, NoName}
  <2>1. Len(r) \in Nat \ {0} /\ Last(r) = r[Len(r)]
    BY <1>4, <1>5, ParentTyped
  <2>2. Len(r) \in 1..Len(r)
    BY <2>1
  <2> QED
    BY <1>4, <1>5, <2>1, <2>2
<1>8. IsFile(Append(p, n)) => n.ext \in DOMAIN KindOfExtension
  BY <1>3, <1>4 DEF Tidy
<1> QED
  BY <1>6, <1>7, <1>8

\* What exists has a path of names of files, and directories above it.
LEMMA Existing ==
  ASSUME NEW S, Tidy(S), NEW T, NEW p \in Seq(T), Exists(p)
  PROVE  /\ p \in Seq(S) /\ \A k \in 1..Len(p) : p[k] \in S \ {Up, NoName}
         /\ p # Nowhere
         /\ \A k \in Nat : k < Len(p) => IsDir(SubSeq(p, 1, k))
         /\ p # <<>> => IsDir(Parent(p))
         /\ IsFile(p) => p # <<>> /\ Last(p).ext \in DOMAIN KindOfExtension /\ ~IsDir(p)
<1> DEFINE U == S \cup T
           n == Len(p)
           First(k) == SubSeq(p, 1, k)
<1>1. p \in Seq(U) /\ n \in Nat /\ \A k \in 1..n : p[k] \in U
  <2>1. T \cup S = U
    OBVIOUS
  <2> HIDE DEF U
  <2>2. p \in Seq(U)
    BY <2>1, Wider
  <2> QED
    BY <2>2, LenProperties, ElementOfSeq
<1>2. ASSUME NEW k \in Nat, k <= n PROVE First(k) \in Seq(U)
  <2>1. 1 \in Int /\ k \in Int /\ \A j \in 1..k : p[j] \in U
    BY <1>1, <1>2
  <2> HIDE DEF U
  <2> QED
    BY <2>1, SubSeqProperties
<1>3. First(n) = p /\ First(0) = <<>>
  <2>1. First(0) = <<>>
    BY SubSeqEmpty
  <2> QED
    BY <1>1, <2>1, SubSeqFull
<1>4. ASSUME NEW k \in Nat, k < n PROVE First(k + 1) = Append(First(k), p[k + 1])
  <2>1. 1 \in 1..Len(p) /\ k + 1 \in 1..Len(p) /\ (k + 1) - 1 = k /\ p[k + 1] \in U
    BY <1>1, <1>4
  <2>2. SubSeq(p, 1, k + 1) = SubSeq(p, 1, (k + 1) - 1) \o <<p[k + 1]>>
    <3> HIDE DEF U
    <3> QED
      BY <1>1, <2>1, SubSeqRecursiveSecond
  <2>3. First(k) \in Seq(U)
    BY <1>1, <1>2, <1>4
  <2> HIDE DEF U
  <2>4. Append(SubSeq(p, 1, k), p[k + 1]) = SubSeq(p, 1, k) \o <<p[k + 1]>>
    BY <2>1, <2>3, AppendIsConcat
  <2> QED
    BY <2>1, <2>2, <2>4
<1> HIDE DEF U, n, First
<1>5. ASSUME NEW k \in Nat, k < n, Exists(First(k + 1))
      PROVE  /\ IsDir(First(k)) /\ p[k + 1] \in S \ {Up, NoName}
             /\ IsFile(First(k + 1)) => p[k + 1].ext \in DOMAIN KindOfExtension
  <2>1. First(k) \in Seq(U) /\ p[k + 1] \in U /\ First(k + 1) = Append(First(k), p[k + 1])
    BY <1>1, <1>2, <1>4, <1>5
  <2>2. S \subseteq U /\ Exists(Append(First(k), p[k + 1]))
    BY <1>5, <2>1 DEF U
  <2>3. /\ IsDir(First(k)) /\ p[k + 1] \in S \ {Up, NoName}
        /\ IsFile(Append(First(k), p[k + 1])) => p[k + 1].ext \in DOMAIN KindOfExtension
    BY <2>1, <2>2, StepUp
  <2> QED
    BY <2>1, <2>3
<1>6. \A k \in 0..n : Exists(First(k))
  <2> DEFINE G == {j \in Nat : j <= n => Exists(First(n - j))}
  <2>1. 0 \in G
    <3>1. n - 0 = n
      BY <1>1
    <3> QED
      BY <1>3, <3>1
  <2>2. ASSUME NEW j \in Nat, j \in G PROVE j + 1 \in G
    <3> SUFFICES ASSUME j + 1 <= n PROVE Exists(First(n - (j + 1)))
      OBVIOUS
    <3> DEFINE k == n - (j + 1)
    <3>1. k \in Nat /\ k < n /\ k + 1 = n - j /\ j <= n
      BY <1>1
    <3>2. Exists(First(k + 1))
      BY <2>2, <3>1
    <3> HIDE DEF k, G
    <3>3. IsDir(First(k))
      BY <1>5, <3>1, <3>2
    <3> QED
      BY <3>3 DEF Exists, k
  <2>3. Nat \subseteq G
    <3> HIDE DEF G
    <3> QED
      BY <2>1, <2>2, SetInduction
  <2>4. ASSUME NEW k \in 0..n PROVE Exists(First(k))
    <3>1. n - k \in Nat /\ n - k <= n /\ n - (n - k) = k
      BY <1>1
    <3>2. n - k \in G
      BY <2>3, <3>1
    <3> QED
      BY <3>1, <3>2
  <2> QED
    BY <2>4
<1>7. ASSUME NEW k \in Nat, k < n PROVE IsDir(First(k)) /\ p[k + 1] \in S \ {Up, NoName}
  <2>1. k + 1 \in 0..n
    BY <1>1, <1>7
  <2> QED
    BY <1>5, <1>6, <1>7, <2>1
<1>8. \A k \in 1..n : p[k] \in S \ {Up, NoName}
  <2> SUFFICES ASSUME NEW k \in 1..n PROVE p[k] \in S \ {Up, NoName}
    OBVIOUS
  <2>1. k - 1 \in Nat /\ k - 1 < n /\ (k - 1) + 1 = k
    BY <1>1
  <2> QED
    BY <1>7, <2>1
<1>9. p \in Seq(S)
  <2>1. p = [k \in 1..n |-> p[k]]
    BY LenProperties DEF n
  <2>2. p \in [1..n -> S]
    BY <1>8, <2>1
  <2> QED
    BY <1>1, <2>2, SeqDef
<1>10. p # Nowhere
  <2> SUFFICES ASSUME p = Nowhere PROVE FALSE
    OBVIOUS
  <2>1. n = 1 /\ p[1] = NoName
    BY DEF Nowhere, n
  <2> QED
    BY <1>8, <2>1
<1>11. \A k \in Nat : k < Len(p) => IsDir(SubSeq(p, 1, k))
  BY <1>7 DEF n, First
<1>12. p # <<>> => IsDir(Parent(p))
  <2> SUFFICES ASSUME p # <<>> PROVE IsDir(Parent(p))
    OBVIOUS
  <2>1. Len(p) - 1 \in Nat /\ Len(p) - 1 < Len(p)
    BY EmptySeq
  <2> QED
    BY <1>11, <2>1 DEF Parent
<1>13. IsFile(p) => p # <<>> /\ Last(p).ext \in DOMAIN KindOfExtension /\ ~IsDir(p)
  <2> SUFFICES ASSUME IsFile(p)
               PROVE  p # <<>> /\ Last(p).ext \in DOMAIN KindOfExtension /\ ~IsDir(p)
    OBVIOUS
  <2>1. ~IsDir(p)
    BY DEF IsFile, IsDir, Files, Tidy
  <2>2. p # <<>>
    <3> SUFFICES ASSUME p = <<>> PROVE FALSE
      OBVIOUS
    <3>1. Real(p) = <<>>
      BY TidyDisk, RealStep
    <3> QED
      BY <3>1 DEF IsFile, Files, Tidy
  <2>3. n - 1 \in Nat /\ n - 1 < n /\ (n - 1) + 1 = n /\ p[n] = Last(p)
    BY <1>1, <2>2, EmptySeq DEF n, Last
  <2>4. First((n - 1) + 1) = p
    BY <1>3, <2>3
  <2>5. Last(p).ext \in DOMAIN KindOfExtension
    BY <1>5, <2>3, <2>4 DEF Exists
  <2> QED
    BY <2>1, <2>2, <2>5
<1> QED
  BY <1>8, <1>9, <1>10, <1>11, <1>12, <1>13 DEF n


\* What is below something on the disk is named by files.
LEMMA Below ==
  ASSUME NEW S, Tidy(S), NEW root \in Seq(S), NEW T, NEW rel \in Seq(T), Exists(root \o rel)
  PROVE  /\ rel \in Seq(S)
         /\ \A k \in 1..Len(rel) : rel[k] \notin {Up, NoName}
         /\ SubSeq(root \o rel, Len(root) + 1, Len(root \o rel)) = rel
<1> DEFINE m == Len(root)
           n == Len(rel)
           p == root \o rel
           U == S \cup T
<1>1. root \in Seq(U) /\ rel \in Seq(U)
  <2>1. rel \in Seq(T \cup S) /\ T \cup S = U
    BY Wider
  <2> QED
    BY <2>1, Wider
<1> HIDE DEF U
<1>2. \A k \in 1..Len(p) : p[k] \in S \ {Up, NoName}
  <2>1. p \in Seq(U)
    BY <1>1, ConcatProperties
  <2> HIDE DEF p
  <2>2. Exists(p)
    BY DEF p
  <2> QED
    BY <2>1, <2>2, Existing
<1>3. /\ m \in Nat /\ n \in Nat /\ Len(p) = m + n
      /\ \A k \in 1..(m + n) : p[k] = IF k <= m THEN root[k] ELSE rel[k - m]
      /\ rel = [k \in 1..n |-> rel[k]]
  BY <1>1, ConcatProperties, LenProperties
<1>4. SubSeq(p, m + 1, Len(p)) = rel
  BY <1>1, BelowSubtracted
<1> HIDE DEF m, n, p
<1>5. ASSUME NEW k \in 1..n PROVE rel[k] \in S /\ rel[k] \notin {Up, NoName}
  <2>1. m + k \in 1..(m + n) /\ ~(m + k <= m) /\ (m + k) - m = k
    BY <1>3
  <2>2. p[m + k] = rel[k] /\ m + k \in 1..Len(p)
    BY <1>3, <2>1
  <2> QED
    BY <1>2, <2>2
<1>6. rel \in [1..n -> S]
  BY <1>3, <1>5
<1>7. rel \in Seq(S)
  BY <1>3, <1>6, SeqDef
<1> QED
  BY <1>4, <1>5, <1>7 DEF m, n, p

-----------------------------------------------------------------------------
(* The invariant. *)

\* What documents contain.
TextTyped ==
    /\ text \in [Files -> SUBSET Targets]
    /\ share # NoShare => share.text \in [Files -> SUBSET Targets]

\* The share is a directory, or a file whose targets, if it is a document, are not
\* looked at; the printed link is the one of the share, or of the document whose
\* directory is shared.
Published ==
    share # NoShare =>
        /\ share.isDir \in BOOLEAN
        /\ \E T : share.root \in Seq(T)
        /\ share.isDir => IsDir(share.root)
        /\ ~share.isDir => IsFile(share.root)
        /\ ~share.isDir /\ IsMarkdownPreviewName(Last(share.root)) => PublishedAlone
        /\ \/ printed.url = ToResponse /\ printed.want = share.root
           \/ /\ share.isDir /\ IsFile(printed.want) /\ (\E T : printed.want \in Seq(T))
              /\ share.root = Parent(printed.want)
              /\ printed.url = ResolvePublishURL(ToResponse, <<Last(printed.want)>>)

\* A page is the one of a file or directory of the share, by its kind.
PageOf(s, page) ==
    /\ page.as \in {"error", "listing", "raw", "markdown", "html", "preview", "artifact"}
    /\ page.as = "error" <=> page.path = Nowhere
    /\ page.as # "error" =>
          /\ page.path = s.root \o page.rel
          /\ \E T : page.rel \in Seq(T)
          /\ page.rel = Decode(page.url.segments) /\ IsURL(page.url)
          /\ ~s.isDir => page.rel = <<>> /\ IsFile(page.path)
          /\ s.isDir => Has(s, page.path)
          /\ Within(Real(s.root), Real(page.path))
    /\ page.as = "listing" => s.isDir
    /\ page.as \notin {"error", "listing"} => IsFile(page.path)
    /\ page.as = "markdown" => ClassifyPreviewKind(Last(page.path)) = "markdown"
    /\ page.as = "html" => ClassifyPreviewKind(Last(page.path)) = "html" /\ page.url.route = "s"

Shown == (share = NoShare => at = Outside) /\ PageOf(share, at.page)

LinkInv == TextTyped /\ Published /\ Shown /\ LinkOpensUnlessNamed

\* A share that the lemmas are about.
ShareOf(s) ==
    /\ s.isDir \in BOOLEAN
    /\ \E T : s.root \in Seq(T)
    /\ s.isDir => IsDir(s.root)
    /\ ~s.isDir => IsFile(s.root)

LEMMA ShareRoot ==
  ASSUME NEW S, Tidy(S), NEW s, ShareOf(s)
  PROVE  /\ s.root \in Seq(S) /\ s.root # Nowhere /\ s.root \o <<>> = s.root
         /\ Exists(s.root) /\ Within(Real(s.root), Real(s.root))
         /\ \A k \in 1..Len(s.root) : s.root[k] # Up
<1> DEFINE root == s.root
<1>1. Exists(root)
  BY DEF ShareOf, Exists
<1>2. PICK T : root \in Seq(T)
  BY DEF ShareOf
<1>3. root \in Seq(S) /\ root # Nowhere /\ \A k \in 1..Len(root) : root[k] # Up
  <2> HIDE DEF root
  <2> QED
    BY <1>1, <1>2, Existing
<1>4. Real(root) \in Seq(S)
  BY <1>3, RealStep, TidyDisk
<1>5. Within(Real(root), Real(root))
  BY <1>4, PrefixOfItself
<1> QED
  BY <1>1, <1>3, <1>5, ConcatEmptySeq

\* What resolveTarget gives.
LEMMA Resolved ==
  ASSUME NEW S, Tidy(S), NEW s, ShareOf(s), NEW rel
  PROVE  LET p == ResolveTarget(s, rel) IN
         p # Nowhere => /\ p = s.root \o rel
                        /\ ~s.isDir => rel = <<>> /\ IsFile(p)
                        /\ s.isDir => Has(s, p)
                        /\ Within(Real(s.root), Real(p))
<1> DEFINE p == ResolveTarget(s, rel)
<1>1. s.root \o <<>> = s.root /\ Within(Real(s.root), Real(s.root))
  BY ShareRoot
<1> SUFFICES ASSUME p # Nowhere
             PROVE  /\ p = s.root \o rel
                    /\ ~s.isDir => rel = <<>> /\ IsFile(p)
                    /\ s.isDir => Has(s, p)
                    /\ Within(Real(s.root), Real(p))
  OBVIOUS
<1>2. CASE ~s.isDir
  <2>1. rel = <<>> /\ p = s.root
    BY <1>2 DEF ResolveTarget
  <2> QED
    BY <1>1, <1>2, <2>1 DEF ShareOf
<1>3. CASE s.isDir
  <2>1. p = s.root \o rel /\ Has(s, p) /\ Within(Real(s.root), Real(p))
    BY <1>3 DEF ResolveTarget
  <2> QED
    BY <1>3, <2>1
<1> QED
  BY <1>2, <1>3

\* And when it gives the file that was asked for.
LEMMA Resolves ==
  ASSUME NEW S, Tidy(S), NEW s, ShareOf(s), NEW T, NEW rel \in Seq(T),
         ~s.isDir => rel = <<>>,
         s.isDir => /\ Has(s, s.root \o rel)
                    /\ Within(Real(s.root), Real(s.root \o rel))
  PROVE  ResolveTarget(s, rel) = s.root \o rel /\ s.root \o rel # Nowhere
<1>1. s.root \in Seq(S) /\ s.root # Nowhere /\ s.root \o <<>> = s.root
  BY ShareRoot
<1>2. CASE ~s.isDir
  BY <1>1, <1>2 DEF ResolveTarget
<1>3. CASE s.isDir
  <2> DEFINE root == s.root
             p == root \o rel
  <2>1. Exists(p)
    BY <1>3 DEF Has, Exists
  <2>2. rel \in Seq(S) /\ \A k \in 1..Len(rel) : rel[k] # Up
    <3>1. root \in Seq(S)
      BY <1>1
    <3> HIDE DEF root
    <3> QED
      BY <2>1, <3>1, Below
  <2>3. p # Nowhere
    <3>1. p \in Seq(S)
      BY <1>1, <2>2, ConcatProperties
    <3> HIDE DEF p
    <3> QED
      BY <2>1, <3>1, Existing
  <2>4. DOMAIN rel = 1..Len(rel)
    BY LenProperties
  <2> QED
    BY <1>3, <2>2, <2>3, <2>4 DEF ResolveTarget
<1> QED
  BY <1>2, <1>3 DEF ShareOf

\* The page of what was resolved.
LEMMA ResolvedPage ==
  ASSUME NEW S, Tidy(S), NEW s, ShareOf(s), NEW url, IsURL(url), NEW as,
         LET p == ResolveTarget(s, Decode(url.segments))
             kind == ClassifyPreviewKind(Last(p)) IN
         /\ p # Nowhere
         /\ as \in {"listing", "raw", "markdown", "html", "preview", "artifact"}
         /\ as = "listing" => s.isDir
         /\ as # "listing" => ~(s.isDir /\ IsDir(p))
         /\ as = "markdown" => kind = "markdown"
         /\ as = "html" => kind = "html" /\ url.route = "s"
  PROVE  LET rel == Decode(url.segments) IN PageOf(s, Page(as, ResolveTarget(s, rel), rel, url))
<1> DEFINE rel == Decode(url.segments)
           p == ResolveTarget(s, rel)
           page == Page(as, p, rel, url)
           kind == ClassifyPreviewKind(Last(p))
<1>1. page.as = as /\ page.path = p /\ page.rel = rel /\ page.url = url
  BY DEF Page
<1>2. \E T : rel \in Seq(T)
  BY Decoded DEF IsURL
<1>3. /\ p # Nowhere /\ p = s.root \o rel
      /\ ~s.isDir => rel = <<>> /\ IsFile(p)
      /\ s.isDir => Has(s, p)
      /\ Within(Real(s.root), Real(p))
  <2> HIDE DEF rel
  <2> QED
    BY Resolved DEF rel
<1>4. as # "listing" => IsFile(p)
  BY <1>3 DEF Has, ShareOf
<1>5. /\ as \in {"listing", "raw", "markdown", "html", "preview", "artifact"}
      /\ as = "listing" => s.isDir
      /\ as = "markdown" => kind = "markdown"
      /\ as = "html" => kind = "html" /\ url.route = "s"
  OBVIOUS
<1> HIDE DEF p, page, rel
<1>6. page.as # "error" /\ page.path # Nowhere
  BY <1>1, <1>3, <1>5
<1>7. /\ page.path = s.root \o page.rel /\ (\E T : page.rel \in Seq(T))
      /\ page.rel = Decode(page.url.segments) /\ IsURL(page.url)
      /\ ~s.isDir => page.rel = <<>> /\ IsFile(page.path)
      /\ s.isDir => Has(s, page.path)
      /\ Within(Real(s.root), Real(page.path))
  BY <1>1, <1>2, <1>3 DEF rel
<1> QED
  BY <1>1, <1>4, <1>5, <1>6, <1>7 DEF PageOf, page, p, rel

LEMMA NoPageOf ==
  ASSUME NEW s, NEW url
  PROVE  PageOf(s, NoPage(url))
  BY DEF PageOf, NoPage, Page

LEMMA RawPage ==
  ASSUME NEW S, Tidy(S), NEW s, ShareOf(s), NEW url, IsURL(url)
  PROVE  PageOf(s, HandleRaw(s, url))
<1> DEFINE rel == Decode(url.segments)
           p == ResolveTarget(s, rel)
<1>1. CASE HandleRaw(s, url) = NoPage(url)
  BY <1>1, NoPageOf
<1>2. CASE HandleRaw(s, url) = Page("raw", p, rel, url) /\ p # Nowhere /\ ~IsDir(p)
  <2>1. PageOf(s, Page("raw", p, rel, url))
    BY <1>2, ResolvedPage
  <2> QED
    BY <1>2, <2>1
<1> QED
  BY <1>1, <1>2 DEF HandleRaw

\* The page of a request.
LEMMA RequestPage ==
  ASSUME NEW S, Tidy(S), NEW s, ShareOf(s), NEW url, IsURL(url)
  PROVE  PageOf(s, Request(s, url))
<1> DEFINE rel == Decode(url.segments)
           p == ResolveTarget(s, rel)
           kind == ClassifyPreviewKind(Last(p))
           as == IF kind \in {"markdown", "html"} THEN kind ELSE "preview"
           page == Request(s, url)
<1>1. CASE page = NoPage(url)
  BY <1>1, NoPageOf
<1>2. CASE page = HandleRaw(s, url)
  BY <1>2, RawPage
<1>3. CASE page = HandleRaw(s, BuildRawPath(rel))
  <2>1. PICK T : rel \in Seq(T)
    BY Decoded DEF IsURL
  <2>2. IsURL(BuildRawPath(rel))
    <3> HIDE DEF rel
    <3> QED
      BY <2>1, EscapeSegments DEF BuildRawPath
  <2> HIDE DEF rel
  <2> QED
    BY <1>3, <2>2, RawPage
<1>4. CASE page = Page("listing", p, rel, url) /\ p # Nowhere /\ s.isDir
  <2>1. PageOf(s, Page("listing", p, rel, url))
    BY <1>4, ResolvedPage
  <2> QED
    BY <1>4, <2>1
<1>5. CASE page = Page(as, p, rel, url) /\ p # Nowhere /\ ~(s.isDir /\ IsDir(p)) /\ url.route = "s"
  <2>1. /\ as \in {"listing", "raw", "markdown", "html", "preview", "artifact"} /\ as # "listing"
        /\ as = "markdown" => kind = "markdown"
        /\ as = "html" => kind = "html"
    <3> HIDE DEF kind
    <3> QED
      OBVIOUS
  <2> HIDE DEF as
  <2>2. PageOf(s, Page(as, p, rel, url))
    BY <1>5, <2>1, ResolvedPage
  <2> QED
    BY <1>5, <2>2
<1>6. CASE page = Page("artifact", p, rel, url) /\ p # Nowhere /\ ~IsDir(p)
  <2>1. PageOf(s, Page("artifact", p, rel, url))
    BY <1>6, ResolvedPage
  <2> QED
    BY <1>6, <2>1
<1>7. CASE url.route = "s"
  <2>1. page = HandlePreview(s, url)
    BY <1>7 DEF Request
  <2> HIDE DEF page
  <2> QED
    BY <1>1, <1>3, <1>4, <1>5, <1>7, <2>1 DEF HandlePreview
<1>8. CASE url.route = "r"
  BY <1>2, <1>8 DEF Request
<1>9. CASE url.route \notin {"s", "r"}
  <2>1. page = HandleHTMLArtifact(s, url)
    BY <1>9 DEF Request
  <2> HIDE DEF page
  <2> QED
    BY <1>1, <1>6, <2>1 DEF HandleHTMLArtifact
<1> QED
  BY <1>7, <1>8, <1>9

-----------------------------------------------------------------------------
(* What a request shows. *)

Shows(page, want, bytes) == page.path = want /\ (page.as = "raw" <=> bytes)

\* The request names a file or directory of the share.
Reaches(s, rel) ==
    /\ \E T : rel \in Seq(T)
    /\ ~s.isDir => rel = <<>>
    /\ s.isDir => /\ Has(s, s.root \o rel)
                  /\ Within(Real(s.root), Real(s.root \o rel))
                  /\ ~Blank(rel)

LEMMA Reaching ==
  ASSUME NEW S, Tidy(S), NEW s, ShareOf(s), NEW rel, Reaches(s, rel)
  PROVE  /\ ResolveTarget(s, rel) = s.root \o rel /\ s.root \o rel # Nowhere
         /\ ~s.isDir => IsFile(s.root \o rel)
         /\ Exists(s.root \o rel) /\ s.root \o rel \in Seq(S)
         /\ rel \in Seq(S) /\ Decode(EscapeRel(rel)) = rel
         /\ IsFile(s.root \o rel) => ~IsDir(s.root \o rel)
<1>1. PICK T : rel \in Seq(T)
  BY DEF Reaches
<1>2. ResolveTarget(s, rel) = s.root \o rel /\ s.root \o rel # Nowhere
  BY <1>1, Resolves DEF Reaches
<1>3. s.root \in Seq(S) /\ s.root \o <<>> = s.root
  BY ShareRoot
<1>4. ~s.isDir => IsFile(s.root \o rel)
  BY <1>3 DEF Reaches, ShareOf
<1>5. Exists(s.root \o rel)
  BY <1>4 DEF Exists, Reaches, Has, ShareOf
<1>6. rel \in Seq(S)
  <2> DEFINE root == s.root
  <2>1. root \in Seq(S) /\ Exists(root \o rel)
    BY <1>3, <1>5
  <2> HIDE DEF root
  <2> QED
    BY <1>1, <2>1, Below
<1>7. s.root \o rel \in Seq(S)
  BY <1>3, <1>6, ConcatProperties
<1>8. ~Blank(rel)
  BY DEF Reaches, Blank, ShareOf
<1>9. Decode(EscapeRel(rel)) = rel
  BY <1>6, <1>8, RelEscaped
<1>10. IsFile(s.root \o rel) => ~IsDir(s.root \o rel)
  BY <1>5, <1>7, Existing
<1> QED
  BY <1>2, <1>4, <1>5, <1>6, <1>7, <1>9, <1>10

LEMMA HandleRawShows ==
  ASSUME NEW S, Tidy(S), NEW s, ShareOf(s), NEW url,
         Reaches(s, Decode(url.segments)), ~IsDir(s.root \o Decode(url.segments)),
         LET rel == Decode(url.segments) IN rel # <<>> => Last(rel) # Index
  PROVE  Shows(HandleRaw(s, url), s.root \o Decode(url.segments), TRUE)
<1> DEFINE rel == Decode(url.segments)
           p == s.root \o rel
<1>1. ResolveTarget(s, rel) = p /\ p # Nowhere
  BY Reaching
<1>2. HandleRaw(s, url) = Page("raw", p, rel, url)
  BY <1>1 DEF HandleRaw
<1> HIDE DEF p, rel
<1>3. HandleRaw(s, url).path = p /\ HandleRaw(s, url).as = "raw"
  BY <1>2 DEF Page
<1> QED
  BY <1>3 DEF Shows, p, rel

LEMMA RawShows ==
  ASSUME NEW S, Tidy(S), NEW s, ShareOf(s), NEW url, url.route = "r",
         Reaches(s, Decode(url.segments)), ~IsDir(s.root \o Decode(url.segments)),
         LET rel == Decode(url.segments) IN rel # <<>> => Last(rel) # Index
  PROVE  Shows(Request(s, url), s.root \o Decode(url.segments), TRUE)
<1>1. Request(s, url) = HandleRaw(s, url)
  BY DEF Request
<1> QED
  BY <1>1, HandleRawShows

\* A PDF is shown by the URL of its bytes: it is no index.html.
LEMMA PreviewShows ==
  ASSUME NEW S, Tidy(S), NEW s, ShareOf(s), NEW url, url.route = "s",
         Reaches(s, Decode(url.segments)), NEW bytes,
         LET p == s.root \o Decode(url.segments) IN
         bytes <=> ~IsDir(p) /\ ClassifyPreviewKind(Last(p)) = "pdf"
  PROVE  Shows(Request(s, url), s.root \o Decode(url.segments), bytes)
<1> DEFINE rel == Decode(url.segments)
           p == s.root \o rel
           kind == ClassifyPreviewKind(Last(p))
           page == Request(s, url)
<1>1. /\ ResolveTarget(s, rel) = p /\ p # Nowhere /\ (~s.isDir => IsFile(p))
      /\ (IsFile(p) => ~IsDir(p)) /\ s.isDir \in BOOLEAN
      /\ rel \in Seq(S) /\ Decode(EscapeRel(rel)) = rel
  <2>1. /\ ResolveTarget(s, rel) = p /\ p # Nowhere /\ (~s.isDir => IsFile(p))
        /\ (IsFile(p) => ~IsDir(p))
        /\ rel \in Seq(S) /\ Decode(EscapeRel(rel)) = rel
    BY Reaching
  <2> QED
    BY <2>1 DEF ShareOf
<1>2. bytes <=> ~IsDir(p) /\ kind = "pdf"
  OBVIOUS
<1>3. page = HandlePreview(s, url)
  BY DEF Request
<1>4. CASE IsDir(p)
  <2>1. page = Page("listing", p, rel, url)
    BY <1>1, <1>3, <1>4 DEF HandlePreview
  <2> HIDE DEF p, rel, kind, page
  <2>2. page.path = p /\ page.as = "listing"
    BY <2>1 DEF Page
  <2> QED
    BY <1>2, <1>4, <2>2 DEF Shows, p, rel, page
<1>5. CASE ~IsDir(p) /\ kind = "pdf"
  <2> DEFINE raw == BuildRawPath(rel)
  <2>1. page = HandleRaw(s, raw)
    BY <1>1, <1>3, <1>5 DEF HandlePreview
  <2>2. Decode(raw.segments) = rel
    BY <1>1 DEF BuildRawPath
  <2>3. rel # <<>> => Last(rel) # Index
    <3> SUFFICES ASSUME rel # <<>>, Last(rel) = Index PROVE FALSE
      OBVIOUS
    <3>1. s.root \in Seq(S)
      BY ShareRoot
    <3>2. Last(p) = Index
      <4> HIDE DEF rel
      <4> QED
        BY <1>1, <3>1, ParentBelow
    <3> QED
      BY <1>5, <3>2 DEF Tidy, ClassifyPreviewKind, KindOfExtension
  <2> HIDE DEF raw
  <2>4. Shows(HandleRaw(s, raw), p, TRUE)
    <3> HIDE DEF rel
    <3> QED
      BY <1>5, <2>2, <2>3, HandleRawShows DEF rel
  <2> QED
    BY <1>2, <1>5, <2>1, <2>4
<1>6. CASE ~IsDir(p) /\ kind # "pdf"
  <2>1. page = Page(IF kind \in {"markdown", "html"} THEN kind ELSE "preview", p, rel, url)
    BY <1>1, <1>3, <1>6 DEF HandlePreview
  <2> HIDE DEF p, rel, kind, page
  <2>2. page.path = p /\ page.as # "raw"
    BY <2>1 DEF Page
  <2> QED
    BY <1>2, <1>6, <2>2 DEF Shows, p, rel, page
<1> QED
  BY <1>4, <1>5, <1>6

LEMMA ArtifactShows ==
  ASSUME NEW S, Tidy(S), NEW s, ShareOf(s), NEW url, url.route = "h",
         Reaches(s, Decode(url.segments)), ~IsDir(s.root \o Decode(url.segments)),
         ClassifyPreviewKind(Last(s.root \o Decode(url.segments))) = "html"
  PROVE  Shows(Request(s, url), s.root \o Decode(url.segments), FALSE)
<1> DEFINE rel == Decode(url.segments)
           p == s.root \o rel
<1>1. ResolveTarget(s, rel) = p /\ p # Nowhere
  BY Reaching
<1>2. Request(s, url) = HandleHTMLArtifact(s, url)
  BY DEF Request
<1>3. Request(s, url) = Page("artifact", p, rel, url)
  BY <1>1, <1>2 DEF HandleHTMLArtifact
<1> HIDE DEF p, rel
<1>4. Request(s, url).path = p /\ Request(s, url).as = "artifact"
  BY <1>3 DEF Page
<1> QED
  BY <1>4 DEF Shows, p, rel

-----------------------------------------------------------------------------
(* Steps. *)

\* The links that need not open what they name.
Excused(via, want, bytes) ==
    \/ via = "none"
    \/ via = "printed" /\ want # share.root /\ NeedsEscape(Last(want))
    \/ /\ via = "frame" /\ share.isDir
       /\ \/ DirS \in ToSet(Parent(RelOf(want)))
          \/ Last(want).stem \in Odd \cup Schemed \cup Padded
    \/ bytes /\ share.isDir /\ Last(want) = Index
    \/ ~Within(Real(share.root), Real(want))
    \/ share.isDir /\ Blank(RelOf(want))
    \/ ~Kept(share, want)
    \/ via = "unwritten" /\ PublishedAlone
    \/ via = "detour"

LEMMA SharePublished == LinkInv /\ share # NoShare => ShareOf(share)
  BY DEF LinkInv, Published, ShareOf

LEMMA Visited ==
  ASSUME NEW S, Tidy(S), LinkInv, share # NoShare,
         NEW via, NEW want, NEW bytes, NEW url, IsURL(url), Visit(via, want, bytes, url),
         Shows(Request(share, url), want, bytes) \/ Excused(via, want, bytes)
  PROVE  LinkInv'
<1>1. /\ share' = share /\ text' = text /\ printed' = printed
      /\ at' = [via |-> via, want |-> want, bytes |-> bytes, page |-> Request(share, url)]
  BY DEF Visit
<1>2. TextTyped' /\ Published'
  BY <1>1 DEF LinkInv, TextTyped, Published, PublishedAlone
<1>3. PageOf(share, Request(share, url))
  BY SharePublished, RequestPage
<1>4. Shown'
  <2>1. PageOf(share', at'.page)
    BY <1>1, <1>3
  <2> QED
    BY <1>1, <2>1 DEF Shown, PageOf, Has, Kept
<1>5. LinkOpensUnlessNamed'
  BY <1>1 DEF LinkOpensUnlessNamed, Opened, Shows, Excused, RelOf, PublishedAlone
<1> QED
  BY <1>2, <1>4, <1>5 DEF LinkInv

LEMMA OutsideShown == (\A s : PageOf(s, Outside.page)) /\ Outside.via = "none"
  BY NoPageOf DEF Outside

LEMMA InitLinks == Init => LinkInv
<1> SUFFICES ASSUME Init PROVE LinkInv
  OBVIOUS
<1>1. TextTyped
  BY DEF Init, TextTyped
<1>2. Published
  BY DEF Init, Published
<1>3. at = Outside
  BY DEF Init
<1>4. Shown /\ LinkOpensUnlessNamed
  BY <1>3, OutsideShown DEF Shown, LinkOpensUnlessNamed
<1> QED
  BY <1>1, <1>2, <1>4 DEF LinkInv

LEMMA EditLinks ==
  ASSUME LinkInv, NEW p \in Documents, NEW targets \in Texts, Edit(p, targets)
  PROVE  LinkInv'
<1>1. /\ text' = [text EXCEPT ![p] = targets]
      /\ at' = Outside /\ share' = share /\ printed' = printed
  BY DEF Edit
<1>2. targets \in SUBSET Targets
  BY DEF Targets
<1>3. TextTyped'
  BY <1>1, <1>2 DEF LinkInv, TextTyped
<1>4. Published'
  BY <1>1 DEF LinkInv, Published, PublishedAlone
<1>5. PageOf(share', at'.page) /\ at'.via = "none"
  BY <1>1, OutsideShown
<1>6. Shown'
  BY <1>1, <1>5 DEF Shown, PageOf, Has, Kept
<1>7. LinkOpensUnlessNamed'
  BY <1>5 DEF LinkOpensUnlessNamed
<1> QED
  BY <1>3, <1>4, <1>6, <1>7 DEF LinkInv

LEMMA PublishLinks ==
  ASSUME NEW S, Tidy(S), LinkInv, NEW p \in Places, NEW snapshot, Publish(p, snapshot)
  PROVE  LinkInv'
<1> DEFINE plan == Plan(p)
           targets == text[Real(p)]
<1>1. /\ share' = [root |-> plan.root, isDir |-> plan.isDir, snapshot |-> snapshot, text |-> text]
      /\ printed' = [url |-> ResolvePublishURL(ToResponse, plan.entry), want |-> p]
      /\ text' = text /\ at' = at /\ share = NoShare
      /\ IsFile(p) \/ IsDir(p)
  BY DEF Publish
<1>2. at' = Outside
  BY <1>1 DEF LinkInv, Shown
<1>3. TextTyped'
  BY <1>1 DEF LinkInv, TextTyped
<1>4. PageOf(share', at'.page) /\ at'.via = "none"
  BY <1>2, OutsideShown
<1>5. Shown' /\ LinkOpensUnlessNamed'
  <2>1. share' # NoShare \/ at' = Outside
    BY <1>2
  <2> QED
    BY <1>2, <1>4 DEF Shown, PageOf, Has, Kept, LinkOpensUnlessNamed
<1>6. p \in Seq(S) /\ Exists(p)
  BY <1>1 DEF Exists, Tidy
<1>7. /\ IsFile(p) => ~IsDir(p)
      /\ p # <<>> => IsDir(Parent(p)) /\ Parent(p) \in Seq(S)
      /\ IsFile(p) => p # <<>>
  BY <1>6, Existing, ParentTyped
<1>8. CASE IsDir(p)
  <2>1. plan = [root |-> p, isDir |-> IsDir(p), entry |-> <<>>, refused |-> FALSE]
    BY <1>8 DEF Plan
  <2>2. share'.root = p /\ share'.isDir = TRUE /\ printed'.want = p /\ printed'.url = ToResponse
    BY <1>1, <1>8, <2>1 DEF ResolvePublishURL
  <2>3. Published'
    BY <1>6, <1>8, <2>2 DEF Published
  <2> QED
    BY <1>3, <1>5, <2>3 DEF LinkInv
<1>9. CASE IsFile(p) /\ ~IsMarkdownPreviewName(Last(p))
  <2>1. plan = [root |-> p, isDir |-> IsDir(p), entry |-> <<>>, refused |-> FALSE]
    BY <1>9 DEF Plan
  <2>2. share'.root = p /\ share'.isDir = FALSE /\ printed'.want = p /\ printed'.url = ToResponse
    BY <1>1, <1>7, <1>9, <2>1 DEF ResolvePublishURL
  <2>3. Published'
    BY <1>6, <1>9, <2>2 DEF Published
  <2> QED
    BY <1>3, <1>5, <2>3 DEF LinkInv
<1>10. CASE /\ IsFile(p) /\ IsMarkdownPreviewName(Last(p))
            /\ ~AnalyzeMarkdown(targets).needsDirectory
  <2>1. plan = [root |-> p, isDir |-> FALSE, entry |-> <<>>, refused |-> FALSE]
    BY <1>7, <1>10 DEF Plan
  <2>2. share'.root = p /\ share'.isDir = FALSE /\ printed'.want = p
        /\ printed'.url = ToResponse /\ share'.text = text
    BY <1>1, <2>1 DEF ResolvePublishURL
  <2>3. ASSUME NEW t \in targets
        PROVE  t.abs \/ t.el = "media" \/ (t.el = "img" /\ IsMedia(Last(t.path)))
    <3>1. t.el \in {"a", "img", "media"}
      <4>1. targets \subseteq Targets
        BY <1>10 DEF LinkInv, TextTyped, IsFile
      <4> QED
        BY <4>1 DEF Tidy, Targets
    <3>2. ~Counted(t)
      BY <1>10 DEF AnalyzeMarkdown
    <3> QED
      BY <3>1, <3>2 DEF Counted, Element
  <2>4. PublishedAlone'
    BY <2>2, <2>3 DEF PublishedAlone
  <2>5. Published'
    BY <1>6, <1>10, <2>2, <2>4 DEF Published
  <2> QED
    BY <1>3, <1>5, <2>5 DEF LinkInv
<1>11. CASE /\ IsFile(p) /\ IsMarkdownPreviewName(Last(p))
            /\ AnalyzeMarkdown(targets).needsDirectory
  <2>1. plan.root = Parent(p) /\ plan.isDir = TRUE /\ plan.entry = <<Last(p)>>
    BY <1>7, <1>11 DEF Plan
  <2>2. share'.root = Parent(p) /\ share'.isDir = TRUE /\ printed'.want = p
        /\ printed'.url = ResolvePublishURL(ToResponse, <<Last(p)>>)
    BY <1>1, <2>1
  <2>3. Published'
    BY <1>6, <1>7, <1>11, <2>2 DEF Published
  <2> QED
    BY <1>3, <1>5, <2>3 DEF LinkInv
<1> QED
  BY <1>1, <1>8, <1>9, <1>10, <1>11

LEMMA OpenPrintedLinks ==
  ASSUME NEW S, Tidy(S), LinkInv, OpenPrinted
  PROVE  LinkInv'
<1> DEFINE want == printed.want
           url == printed.url
           bytes == IsFile(want) /\ ClassifyPreviewKind(Last(want)) = "pdf"
           rel == Decode(url.segments)
<1>1. share # NoShare /\ Visit("printed", want, bytes, url)
  BY DEF OpenPrinted
<1>2. ShareOf(share) /\ share.root \in Seq(S) /\ share.root \o <<>> = share.root
      /\ Within(Real(share.root), Real(share.root))
  BY <1>1, SharePublished, ShareRoot
<1>3. CASE url = ToResponse /\ want = share.root
  <2>1. url.route = "s" /\ url.segments = <<>> /\ rel = <<>> /\ IsURL(url) /\ \E T : rel \in Seq(T)
    <3>1. url.route = "s" /\ url.segments = <<>>
      BY <1>3 DEF ToResponse
    <3>2. rel = <<>>
      BY <3>1 DEF Decode
    <3>3. <<>> \in Seq({})
      BY EmptySeq
    <3> QED
      BY <1>3, <3>1, <3>2, <3>3 DEF IsURL, ToResponse
  <2>2. share.root \o rel = share.root
    BY <1>2, <2>1
  <2>3. Reaches(share, rel)
    <3>1. ~Blank(rel) /\ Kept(share, share.root)
      BY <2>1 DEF Blank, Kept
    <3> HIDE DEF rel
    <3> QED
      BY <1>2, <2>1, <2>2, <3>1 DEF Reaches, Has, ShareOf
  <2>4. bytes <=> ~IsDir(want) /\ ClassifyPreviewKind(Last(want)) = "pdf"
    <3>1. Exists(share.root) /\ (IsFile(share.root) => ~IsDir(share.root))
      BY <1>2, <2>2, <2>3, Reaching
    <3> QED
      BY <1>3, <3>1 DEF Exists
  <2> HIDE DEF want, url, bytes
  <2>5. Shows(Request(share, url), share.root \o rel, bytes)
    BY <1>2, <1>3, <2>1, <2>2, <2>3, <2>4, PreviewShows
  <2> QED
    BY <1>1, <1>3, <2>1, <2>2, <2>5, Visited
<1>4. CASE /\ share.isDir /\ IsFile(want) /\ (\E T : want \in Seq(T))
           /\ share.root = Parent(want) /\ url = ResolvePublishURL(ToResponse, <<Last(want)>>)
  <2> DEFINE one == [name |-> Last(want), esc |-> IF NeedsEscape(Last(want)) THEN 2 ELSE 0]
  <2>1. url.route = "s" /\ url.segments = <<one>> /\ IsURL(url)
    <3>1. [i \in DOMAIN <<Last(want)>> |->
             [name |-> <<Last(want)>>[i], esc |-> IF NeedsEscape(<<Last(want)>>[i]) THEN 2 ELSE 0]]
          = <<one>>
      OBVIOUS
    <3>2. <<Last(want)>> # <<>>
      OBVIOUS
    <3> DEFINE list == [i \in DOMAIN <<Last(want)>> |->
             [name |-> <<Last(want)>>[i], esc |-> IF NeedsEscape(<<Last(want)>>[i]) THEN 2 ELSE 0]]
    <3>3. url = [route |-> "s", segments |-> <<>> \o list]
      BY <1>4, <3>2 DEF ResolvePublishURL, ToResponse
    <3>4. <<one>> \in Seq({one})
      OBVIOUS
    <3> HIDE DEF one, list
    <3>5. <<>> \o <<one>> = <<one>>
      BY <3>4, ConcatEmptySeq
    <3>6. url = [route |-> "s", segments |-> <<one>>]
      BY <3>1, <3>3, <3>5 DEF list
    <3> HIDE DEF url
    <3>7. url.route = "s" /\ url.segments = <<one>>
      BY <3>6
    <3> QED
      BY <3>4, <3>6, <3>7 DEF IsURL
  <2>2. CASE Excused("printed", want, bytes)
    <3> HIDE DEF want, url, bytes
    <3> QED
      BY <1>1, <2>1, <2>2, Visited
  <2>3. CASE ~Excused("printed", want, bytes)
    <3>1. want \in Seq(S) /\ want # <<>> /\ ~IsDir(want)
      <4>1. PICK T : want \in Seq(T)
        BY <1>4
      <4>2. Exists(want)
        BY <1>4 DEF Exists
      <4> HIDE DEF want
      <4> QED
        BY <1>4, <4>1, <4>2, Existing
    <3>2. ~NeedsEscape(Last(want))
      <4>1. want # share.root
        <5>1. Len(Parent(want)) = Len(want) - 1 /\ Len(want) \in Nat
          BY <3>1, ParentTyped
        <5> QED
          BY <1>4, <5>1
      <4> QED
        BY <2>3, <4>1 DEF Excused
    <3>3. rel = <<Last(want)>>
      <4>1. one.esc = 0 /\ one.name = Last(want)
        BY <3>2
      <4> HIDE DEF one, want
      <4>2. Decode(<<one>>) = <<one.name>>
        BY <4>1 DEF Decode
      <4> QED
        BY <2>1, <4>1, <4>2
    <3>4. share.root \o rel = want /\ rel \in Seq(S)
      <4>1. Parent(want) \o <<Last(want)>> = want /\ Last(want) \in S
        BY <3>1, ParentAndLast, ParentTyped
      <4> HIDE DEF want, rel
      <4> QED
        BY <1>4, <3>3, <4>1
    <3>5. ~Blank(rel)
      BY <3>2, <3>3 DEF Blank, NeedsEscape, Last
    <3>6. Reaches(share, rel)
      <4>1. Has(share, want) /\ Within(Real(share.root), Real(want))
        BY <1>4, <2>3 DEF Excused, Has
      <4> HIDE DEF rel, want
      <4> QED
        BY <1>4, <3>4, <3>5, <4>1 DEF Reaches
    <3>7. bytes <=> ~IsDir(want) /\ ClassifyPreviewKind(Last(want)) = "pdf"
      BY <1>4, <3>1
    <3> HIDE DEF want, url, bytes
    <3>8. Shows(Request(share, url), share.root \o rel, bytes)
      BY <1>2, <2>1, <3>4, <3>6, <3>7, PreviewShows
    <3> QED
      BY <1>1, <2>1, <3>4, <3>8, Visited
  <2> QED
    BY <2>2, <2>3
<1> QED
  BY <1>1, <1>3, <1>4 DEF LinkInv, Published

\* A page was asked of the share.
LEMMA OfShare ==
  ASSUME NEW S, Tidy(S), LinkInv, at.page.as # "error"
  PROVE  /\ share # NoShare /\ ShareOf(share) /\ share.root \in Seq(S)
         /\ share.root \o <<>> = share.root
         /\ at.page.path = share.root \o at.page.rel
         /\ Exists(at.page.path) /\ at.page.path \in Seq(S)
         /\ at.page.rel \in Seq(S)
         /\ \A k \in 1..Len(at.page.rel) : at.page.rel[k] \notin {Up, NoName}
         /\ RelOf(at.page.path) = at.page.rel
<1>1. share # NoShare
  BY DEF LinkInv, Shown, Outside, NoPage, Page
<1>2. ShareOf(share) /\ share.root \in Seq(S) /\ share.root \o <<>> = share.root
  BY <1>1, SharePublished, ShareRoot
<1>3. PageOf(share, at.page)
  BY DEF LinkInv, Shown
<1>4. at.page.path = share.root \o at.page.rel
  BY <1>3 DEF PageOf
<1>5. Exists(at.page.path)
  BY <1>2, <1>3 DEF PageOf, Has, Exists, ShareOf
<1>6. PICK T : at.page.rel \in Seq(T)
  BY <1>3 DEF PageOf
<1> DEFINE root == share.root
           rel == at.page.rel
           p == root \o rel
<1>7. /\ rel \in Seq(S)
      /\ \A k \in 1..Len(rel) : rel[k] \notin {Up, NoName}
      /\ SubSeq(p, Len(root) + 1, Len(p)) = rel
  <2>1. rel \in Seq(T) /\ root \in Seq(S) /\ Exists(p)
    BY <1>2, <1>4, <1>5, <1>6
  <2> HIDE DEF root, rel
  <2> QED
    BY <2>1, Below DEF p
<1>8. RelOf(at.page.path) = rel
  BY <1>4, <1>7, Zenon DEF RelOf
<1>9. at.page.path \in Seq(S)
  BY <1>2, <1>4, <1>7, ConcatProperties
<1> QED
  BY <1>1, <1>2, <1>4, <1>5, <1>7, <1>8, <1>9

\* A path below the directory that is shared is excused, or reaches what it names.
LEMMA Reached ==
  ASSUME NEW S, Tidy(S), LinkInv, share # NoShare, share.isDir,
         NEW rel \in Seq(S), Exists(share.root \o rel),
         NEW via, NEW bytes, ~Excused(via, share.root \o rel, bytes)
  PROVE  /\ Decode(EscapeRel(rel)) = rel /\ Reaches(share, rel)
         /\ bytes /\ rel # <<>> => Last(rel) # Index
<1> DEFINE root == share.root
           want == root \o rel
<1>1. ShareOf(share) /\ root \in Seq(S)
  BY SharePublished, ShareRoot
<1>2. RelOf(want) = rel
  <2>1. SubSeq(root \o rel, Len(root) + 1, Len(root \o rel)) = rel
    <3> HIDE DEF root
    <3> QED
      BY <1>1, Below DEF root
  <2> QED
    BY <2>1, Zenon DEF RelOf
<1>3. Within(Real(root), Real(want)) /\ Kept(share, want) /\ ~Blank(rel)
  BY <1>2 DEF Excused
<1>4. Decode(EscapeRel(rel)) = rel
  BY <1>3, RelEscaped
<1>5. Reaches(share, rel)
  BY <1>3 DEF Reaches, Has, Exists
<1>6. bytes /\ rel # <<>> => Last(rel) # Index
  <2> SUFFICES ASSUME bytes, rel # <<>> PROVE Last(rel) # Index
    OBVIOUS
  <2>1. Last(want) = Last(rel)
    BY <1>1, ParentBelow
  <2>2. Last(want) # Index
    BY DEF Excused
  <2> QED
    BY <2>1, <2>2
<1> QED
  BY <1>4, <1>5, <1>6

LEMMA OpenEntryLinks ==
  ASSUME NEW S, Tidy(S), LinkInv, NEW name, NEW raw \in BOOLEAN, OpenEntry(name, raw)
  PROVE  LinkInv'
<1> DEFINE rel == Append(at.page.rel, name)
           p == share.root \o rel
           bytes == raw \/ (IsFile(p) /\ ClassifyPreviewKind(name) = "pdf")
           url == IF raw THEN BuildRawPath(rel) ELSE BuildPreviewPath(rel)
<1>1. /\ at.page.as = "listing"
      /\ Has(share, p) /\ (raw => IsFile(p))
      /\ Visit("entry", p, bytes, url)
  BY DEF OpenEntry
<1>2. share # NoShare /\ ShareOf(share) /\ at.page.rel \in Seq(S) /\ share.root \in Seq(S)
  BY <1>1, OfShare
<1>3. share.isDir /\ Exists(p)
  BY <1>1 DEF LinkInv, Shown, PageOf, Has, Exists
<1>4. rel \in Seq(S) /\ Last(rel) = name /\ rel # <<>>
  <2> DEFINE U == S \cup {name}
  <2>1. at.page.rel \in Seq(U) /\ name \in U
    BY <1>2, Wider
  <2> HIDE DEF U
  <2>2. rel \in Seq(U) /\ Last(rel) = name /\ rel # <<>>
    BY <2>1, Appended
  <2> HIDE DEF rel
  <2>3. rel \in Seq(S)
    <3> DEFINE root == share.root
    <3>1. root \in Seq(S) /\ Exists(root \o rel)
      BY <1>2, <1>3
    <3> HIDE DEF root
    <3> QED
      BY <2>2, <3>1, Below
  <2> QED
    BY <2>2, <2>3
<1> HIDE DEF rel
<1>5. Last(p) = name /\ p \in Seq(S)
  BY <1>2, <1>4, ParentBelow, ConcatProperties
<1>6. url.route = (IF raw THEN "r" ELSE "s") /\ url.segments = EscapeRel(rel) /\ IsURL(url)
  BY <1>4, EscapeSegments DEF BuildRawPath, BuildPreviewPath
<1>7. IsFile(p) <=> ~IsDir(p)
  <2> HIDE DEF p
  <2> QED
    BY <1>3, <1>5, Existing DEF Exists
<1>8. CASE Excused("entry", p, bytes)
  <2> HIDE DEF p, url, bytes
  <2> QED
    BY <1>1, <1>2, <1>6, <1>8, Visited
<1>9. CASE ~Excused("entry", p, bytes)
  <2>1. Decode(url.segments) = rel /\ Reaches(share, rel) /\ (bytes => Last(rel) # Index)
    <3> HIDE DEF bytes
    <3> QED
      BY <1>2, <1>3, <1>4, <1>6, <1>9, Reached
  <2>2. Shows(Request(share, url), p, bytes)
    <3>1. CASE raw
      <4>1. bytes = TRUE /\ url.route = "r" /\ ~IsDir(p)
        BY <1>1, <1>6, <1>7, <3>1
      <4> HIDE DEF url, bytes
      <4>2. Shows(Request(share, url), p, TRUE)
        BY <1>2, <2>1, <4>1, RawShows
      <4> QED
        BY <4>1, <4>2
    <3>2. CASE ~raw
      <4>1. (bytes <=> ~IsDir(p) /\ ClassifyPreviewKind(Last(p)) = "pdf") /\ url.route = "s"
        BY <1>5, <1>6, <1>7, <3>2
      <4> HIDE DEF url, bytes
      <4> QED
        BY <1>2, <2>1, <4>1, PreviewShows
    <3> QED
      BY <3>1, <3>2
  <2> HIDE DEF p, url, bytes
  <2> QED
    BY <1>1, <1>2, <1>6, <2>2, Visited
<1> QED
  BY <1>8, <1>9

\* The first names of a path below a directory are the first ones of the whole path.
LEMMA FirstBelow ==
  ASSUME NEW S, NEW root \in Seq(S), NEW rel \in Seq(S), NEW k \in 0..Len(rel)
  PROVE  /\ SubSeq(rel, 1, k) \in Seq(S)
         /\ SubSeq(root \o rel, 1, Len(root) + k) = root \o SubSeq(rel, 1, k)
<1> DEFINE m == Len(root)
           n == Len(rel)
           q == SubSeq(rel, 1, k)
           r == root \o rel
           a == SubSeq(r, 1, m + k)
           b == root \o q
<1>1. /\ m \in Nat /\ n \in Nat /\ k \in Nat /\ k <= n
      /\ \A j \in 1..n : rel[j] \in S
      /\ \A j \in 1..m : root[j] \in S
  BY LenProperties, ElementOfSeq
<1>2. /\ q \in Seq(S) /\ Len(q) = k
      /\ \A j \in 1..k : q[j] = rel[j]
  <2>1. 1 \in Int /\ k \in Int /\ \A j \in 1..k : rel[j] \in S
    BY <1>1
  <2>2. /\ q \in Seq(S) /\ Len(q) = (IF 1 <= k THEN k - 1 + 1 ELSE 0)
        /\ \A j \in 1..(k - 1 + 1) : q[j] = rel[1 + j - 1]
    BY <2>1, SubSeqProperties
  <2> HIDE DEF q
  <2>3. Len(q) = k /\ \A j \in 1..k : j \in 1..(k - 1 + 1) /\ 1 + j - 1 = j
    BY <1>1, <2>2
  <2> QED
    BY <2>2, <2>3
<1> HIDE DEF q
<1>3. r \in Seq(S) /\ \A j \in 1..(m + n) : r[j] = IF j <= m THEN root[j] ELSE rel[j - m]
  BY ConcatProperties
<1>4. b \in Seq(S) /\ Len(b) = m + k
      /\ \A j \in 1..(m + k) : b[j] = IF j <= m THEN root[j] ELSE q[j - m]
  BY <1>2, ConcatProperties
<1> HIDE DEF m, n, r, b
<1>5. ASSUME NEW j \in 1..(m + k) PROVE r[j] \in S /\ r[j] = b[j]
  <2>1. j \in 1..(m + n) /\ (~(j <= m) => j - m \in 1..k /\ j - m \in 1..n) /\ (j <= m => j \in 1..m)
    BY <1>1
  <2> QED
    BY <1>1, <1>2, <1>3, <1>4, <2>1
<1>6. /\ a \in Seq(S) /\ Len(a) = (IF 1 <= m + k THEN (m + k) - 1 + 1 ELSE 0)
      /\ \A j \in 1..((m + k) - 1 + 1) : a[j] = r[1 + j - 1]
  <2>1. 1 \in Int /\ m + k \in Int
    BY <1>1
  <2> QED
    BY <1>5, <2>1, SubSeqProperties
<1> HIDE DEF a
<1>7. Len(a) = m + k /\ \A j \in 1..(m + k) : a[j] = r[j]
  <2>1. Len(a) = m + k /\ \A j \in 1..(m + k) : j \in 1..((m + k) - 1 + 1) /\ 1 + j - 1 = j
    BY <1>1, <1>6
  <2> QED
    BY <1>6, <2>1
<1>8. a = b
  <2>1. \A j \in 1..(m + k) : a[j] = b[j]
    BY <1>5, <1>7
  <2> QED
    BY <1>4, <1>6, <1>7, <2>1, SeqEqual
<1> QED
  BY <1>2, <1>8 DEF a, b, r, q, m

LEMMA OpenBreadcrumbLinks ==
  ASSUME NEW S, Tidy(S), LinkInv, NEW k, OpenBreadcrumb(k)
  PROVE  LinkInv'
<1> DEFINE rel == at.page.rel
           q == SubSeq(rel, 1, k)
           p == share.root \o q
           url == BuildPreviewPath(q)
<1>1. /\ share.isDir /\ at.page.as # "error" /\ k \in 0..(Len(rel) - 1)
      /\ Visit("crumb", p, FALSE, url)
  BY DEF OpenBreadcrumb
<1>2. /\ share # NoShare /\ ShareOf(share) /\ rel \in Seq(S) /\ share.root \in Seq(S)
      /\ Exists(share.root \o rel) /\ share.root \o rel \in Seq(S)
  BY <1>1, OfShare
<1>3. q \in Seq(S) /\ IsDir(p)
  <2> DEFINE r == share.root \o rel
             j == Len(share.root) + k
  <2>1. k \in 0..Len(rel) /\ Len(rel) \in Nat /\ Len(share.root) \in Nat
        /\ Len(r) = Len(share.root) + Len(rel)
    BY <1>1, <1>2, LenProperties, ConcatProperties
  <2>2. q \in Seq(S) /\ SubSeq(r, 1, j) = p
    <3> DEFINE root == share.root
    <3>1. rel \in Seq(S) /\ root \in Seq(S)
      BY <1>2
    <3> HIDE DEF rel, root
    <3>2. SubSeq(rel, 1, k) \in Seq(S)
          /\ SubSeq(root \o rel, 1, Len(root) + k) = root \o SubSeq(rel, 1, k)
      BY <2>1, <3>1, FirstBelow
    <3> QED
      BY <3>2 DEF root
  <2>3. j \in Nat /\ j < Len(r)
    <3> DEFINE n == Len(rel)
               m == Len(share.root)
    <3>1. k \in 0..(n - 1) /\ n \in Nat /\ m \in Nat /\ Len(r) = m + n /\ j = m + k
      BY <1>1, <2>1
    <3> HIDE DEF n, m, r, j
    <3> QED
      BY <3>1
  <2>4. IsDir(SubSeq(r, 1, j))
    <3>1. r \in Seq(S) /\ Exists(r)
      BY <1>2
    <3> HIDE DEF r, j
    <3> QED
      BY <2>3, <3>1, Existing
  <2> QED
    BY <2>2, <2>4
<1> HIDE DEF q
<1>4. url.route = "s" /\ url.segments = EscapeRel(q) /\ IsURL(url)
  BY <1>3, EscapeSegments DEF BuildPreviewPath
<1> HIDE DEF url, p
<1>5. CASE Excused("crumb", p, FALSE)
  BY <1>1, <1>2, <1>4, <1>5, Visited
<1>6. CASE ~Excused("crumb", p, FALSE)
  <2>1. Exists(share.root \o q) /\ ~Excused("crumb", share.root \o q, FALSE)
    BY <1>3, <1>6 DEF Exists, p
  <2>2. Decode(url.segments) = q /\ Reaches(share, q)
    BY <1>1, <1>2, <1>3, <1>4, <2>1, Reached
  <2>3. Shows(Request(share, url), share.root \o q, FALSE)
    BY <1>2, <1>3, <1>4, <2>2, PreviewShows DEF p
  <2> QED
    BY <1>1, <1>2, <1>4, <2>3, Visited DEF p
<1> QED
  BY <1>5, <1>6

\* A page of a file is of one that the share has.
LEMMA OfFile ==
  ASSUME NEW S, Tidy(S), LinkInv, at.page.as \in {"markdown", "html", "preview"}
  PROVE  /\ IsFile(at.page.path) /\ ~IsDir(at.page.path)
         /\ Last(at.page.path).ext \in DOMAIN KindOfExtension
         /\ ~share.isDir => at.page.rel = <<>>
         /\ share.isDir => at.page.rel # <<>>
<1> DEFINE p == at.page.path
<1>1. PageOf(share, at.page)
  BY DEF LinkInv, Shown
<1>2. IsFile(p) /\ (~share.isDir => at.page.rel = <<>>)
  BY <1>1 DEF PageOf
<1>3. ShareOf(share) /\ share.root \o <<>> = share.root
      /\ p = share.root \o at.page.rel /\ p \in Seq(S)
  BY OfShare
<1>4. ~IsDir(p) /\ Last(p).ext \in DOMAIN KindOfExtension
  <2>1. IsFile(p) /\ Exists(p) /\ p \in Seq(S)
    BY <1>2, <1>3 DEF Exists
  <2> HIDE DEF p
  <2>2. p # <<>> /\ Last(p).ext \in DOMAIN KindOfExtension /\ ~IsDir(p)
    BY <2>1, Existing
  <2> QED
    BY <2>2
<1>5. share.isDir => at.page.rel # <<>>
  <2> SUFFICES ASSUME share.isDir, at.page.rel = <<>> PROVE FALSE
    OBVIOUS
  <2>1. p = share.root
    BY <1>3, Zenon
  <2> QED
    BY <1>3, <1>4, <2>1 DEF ShareOf
<1> QED
  BY <1>2, <1>4, <1>5

LEMMA OpenRawLinks ==
  ASSUME NEW S, Tidy(S), LinkInv, OpenRaw
  PROVE  LinkInv'
<1> DEFINE rel == at.page.rel
           p == share.root \o rel
           url == BuildRawPath(rel)
<1>1. at.page.as \in {"markdown", "html", "preview"} /\ Visit("raw", at.page.path, TRUE, url)
  BY DEF OpenRaw
<1>2. /\ share # NoShare /\ ShareOf(share) /\ rel \in Seq(S) /\ at.page.path = p
      /\ Exists(p) /\ IsFile(p) /\ ~IsDir(p)
      /\ ~share.isDir => rel = <<>>
  BY <1>1, OfShare, OfFile
<1>3. url.route = "r" /\ url.segments = EscapeRel(rel) /\ IsURL(url)
  BY <1>2, EscapeSegments DEF BuildRawPath
<1> HIDE DEF url
<1>4. CASE Excused("raw", p, TRUE)
  BY <1>1, <1>2, <1>3, <1>4, Visited
<1>5. CASE ~Excused("raw", p, TRUE)
  <2>1. Decode(url.segments) = rel /\ Reaches(share, rel) /\ (rel # <<>> => Last(rel) # Index)
    <3>1. CASE share.isDir
      BY <1>2, <1>3, <1>5, <3>1, Reached
    <3>2. CASE ~share.isDir
      <4>1. ~Blank(rel)
        BY <1>2, <3>2 DEF Blank
      <4>2. Decode(EscapeRel(rel)) = rel
        BY <1>2, <4>1, RelEscaped
      <4> QED
        BY <1>2, <1>3, <3>2, <4>2 DEF Reaches
    <3> QED
      BY <3>1, <3>2
  <2>2. Shows(Request(share, url), p, TRUE)
    BY <1>2, <1>3, <2>1, RawShows
  <2> QED
    BY <1>1, <1>2, <1>3, <2>2, Visited
<1> QED
  BY <1>4, <1>5

\* A redirection and the script of a preview rename one segment of a URL.
LEMMA Renamed ==
  ASSUME NEW u, IsURL(u), NEW k, NEW name
  PROVE  IsURL([u EXCEPT !.segments[k].name = name])
<1> DEFINE n == Len(u.segments)
           list == [u.segments EXCEPT ![k].name = name]
           v == [u EXCEPT !.segments[k].name = name]
<1>1. PICK T : u.segments \in Seq(T)
  BY DEF IsURL
<1>2. n \in Nat /\ DOMAIN u.segments = 1..n
  BY <1>1, LenProperties
<1>3. DOMAIN list = 1..n /\ list = [j \in 1..n |-> list[j]]
  BY <1>2
<1>4. \E V : list \in Seq(V)
  <2> HIDE DEF list, n
  <2> QED
    BY <1>2, <1>3, ListOf
<1>5. v = [route |-> u.route, segments |-> list]
  BY DEF IsURL
<1> HIDE DEF list, v
<1>6. v.route = u.route /\ v.segments = list
  BY <1>5
<1>7. IsURL(v)
  BY <1>4, <1>5, <1>6 DEF IsURL
<1> QED
  BY <1>7 DEF v

LEMMA LoadFrameLinks ==
  ASSUME NEW S, Tidy(S), LinkInv, LoadFrame
  PROVE  LinkInv'
<1> DEFINE rel == at.page.rel
           p == share.root \o rel
           from == at.page.url
           n == Len(from.segments)
           url == Redirected(ArtifactURL(from))
           markers == {i \in 1..(n - 1) : from.segments[i].name = DirS}
<1>1. at.page.as = "html" /\ Visit("frame", at.page.path, FALSE, url)
  BY DEF LoadFrame
<1>2. /\ share # NoShare /\ ShareOf(share) /\ rel \in Seq(S) /\ share.root \in Seq(S)
      /\ at.page.path = p /\ RelOf(p) = rel /\ Exists(p)
      /\ \A k \in 1..Len(rel) : rel[k] \notin {Up, NoName}
      /\ ~IsDir(p)
      /\ (~share.isDir => rel = <<>>) /\ (share.isDir => rel # <<>>)
  BY <1>1, OfShare, OfFile
<1>3. /\ rel = Decode(from.segments) /\ IsURL(from) /\ from.route = "s"
      /\ ClassifyPreviewKind(Last(p)) = "html"
  BY <1>1, <1>2 DEF LinkInv, Shown, PageOf
<1>4. PICK T : from.segments \in Seq(T)
  BY <1>3 DEF IsURL
<1>5. /\ n \in Nat /\ DOMAIN from.segments = 1..n /\ Len(rel) = n /\ DOMAIN rel = 1..n
      /\ from = [route |-> from.route, segments |-> from.segments]
  BY <1>3, <1>4, Decoded, LenProperties DEF IsURL
<1>6. \A i \in 1..n : rel[i] = from.segments[i].name
  <2> SUFFICES ASSUME NEW i \in 1..n PROVE rel[i] = from.segments[i].name
    OBVIOUS
  <2>1. rel[i] = IF from.segments[i].esc > 1 THEN NoName ELSE from.segments[i].name
    BY <1>3, <1>5 DEF Decode
  <2>2. rel[i] # NoName
    BY <1>2, <1>5
  <2> QED
    BY <2>1, <2>2
<1>7. IsURL(url)
  <2>1. \A u : IsURL(u) => IsURL(Redirected(u))
    BY Renamed DEF Redirected
  <2>2. IsURL(ArtifactURL(from))
    <3>1. CASE ArtifactURL(from) = [from EXCEPT !.route = "h"]
      <4>1. ArtifactURL(from) = [route |-> "h", segments |-> from.segments]
        BY <1>5, <3>1
      <4> QED
        BY <1>4, <4>1 DEF IsURL
    <3>2. CASE ArtifactURL(from) = [from EXCEPT !.segments[Max(markers)].name = DirH]
      <4> DEFINE k0 == Max(markers)
      <4>1. ArtifactURL(from) = [from EXCEPT !.segments[k0].name = DirH]
        BY <3>2
      <4> HIDE DEF k0, from
      <4>2. IsURL([from EXCEPT !.segments[k0].name = DirH])
        BY <1>3, Renamed
      <4> QED
        BY <4>1, <4>2
    <3> QED
      BY <3>1, <3>2 DEF ArtifactURL
  <2> QED
    BY <2>1, <2>2
<1>8. CASE Excused("frame", p, FALSE)
  <2> HIDE DEF url
  <2> QED
    BY <1>1, <1>2, <1>7, <1>8, Visited
<1>9. CASE ~Excused("frame", p, FALSE)
  <2>1. n > 0 => share.isDir
    <3> SUFFICES ASSUME n > 0, ~share.isDir PROVE FALSE
      OBVIOUS
    <3>1. rel = <<>> /\ Len(rel) > 0
      BY <1>2, <1>5
    <3> QED
      BY <3>1, EmptySeq
  <2>2. markers = {}
    <3> SUFFICES ASSUME NEW i \in 1..(n - 1), from.segments[i].name = DirS PROVE FALSE
      OBVIOUS
    <3>1. share.isDir /\ i \in 1..n /\ i \in 1..(Len(rel) - 1)
      BY <1>5, <2>1
    <3>2. rel[i] = DirS
      BY <1>6, <3>1
    <3>3. /\ Parent(rel)[i] = rel[i] /\ Parent(rel) \in Seq(S)
          /\ Len(Parent(rel)) = Len(rel) - 1
      <4>1. rel \in Seq(S) /\ rel # <<>>
        BY <1>2, <3>1
      <4> HIDE DEF rel
      <4> QED
        BY <3>1, <4>1, ParentTyped
    <3>4. i \in DOMAIN Parent(rel)
      BY <3>1, <3>3, LenProperties
    <3>5. DirS \in ToSet(Parent(rel))
      BY <3>2, <3>3, <3>4 DEF ToSet
    <3> QED
      BY <1>2, <1>9, <3>1, <3>5 DEF Excused
  <2>3. ArtifactURL(from) = [route |-> "h", segments |-> from.segments]
    <3>1. ArtifactURL(from) = [from EXCEPT !.route = "h"]
      BY <2>2 DEF ArtifactURL
    <3> QED
      BY <1>5, <3>1
  <2>4. n > 0 => from.segments[n].name.stem \notin Odd \cup Schemed \cup Padded
    <3> SUFFICES ASSUME n > 0
                 PROVE  from.segments[n].name.stem \notin Odd \cup Schemed \cup Padded
      OBVIOUS
    <3>1. share.isDir /\ rel # <<>>
      BY <1>2, <2>1
    <3>2. Last(p) = Last(rel) /\ Last(rel) = rel[Len(rel)]
      <4>1. rel \in Seq(S) /\ share.root \in Seq(S) /\ rel # <<>>
        BY <1>2, <3>1
      <4> HIDE DEF rel
      <4>2. Last(share.root \o rel) = Last(rel)
        BY <4>1, ParentBelow
      <4>3. Last(rel) = rel[Len(rel)]
        BY <4>1, ParentTyped
      <4> QED
        BY <4>2, <4>3
    <3>3. n \in 1..n
      BY <1>5
    <3>4. Last(p) = from.segments[n].name
      BY <1>5, <1>6, <3>2, <3>3
    <3> QED
      BY <1>9, <3>1, <3>4 DEF Excused
  <2>5. url = [route |-> "h", segments |-> from.segments]
    <3> DEFINE u == ArtifactURL(from)
    <3>1. u.segments = from.segments
      BY <2>3
    <3>2. LET m == Len(u.segments) IN
          m = 0 \/ u.segments[m].name.stem \notin Odd \cup Schemed \cup Padded
      <4> HIDE DEF u
      <4>1. Len(u.segments) = n
        BY <3>1
      <4> HIDE DEF n
      <4> QED
        BY <1>5, <2>4, <3>1, <4>1
    <3> HIDE DEF u
    <3>3. Redirected(u) = u
      BY <3>2 DEF Redirected
    <3> QED
      BY <2>3, <3>3 DEF u
  <2>6. url.route = "h" /\ url.segments = from.segments
    BY <2>5
  <2> HIDE DEF url, from
  <2>7. Decode(url.segments) = rel
    BY <1>3, <2>6
  <2>8. Reaches(share, rel)
    <3>1. CASE share.isDir
      BY <1>2, <1>9, <3>1, Reached
    <3>2. CASE ~share.isDir
      BY <1>2, <3>2 DEF Reaches
    <3> QED
      BY <3>1, <3>2
  <2>9. Shows(Request(share, url), p, FALSE)
    BY <1>2, <1>3, <2>6, <2>7, <2>8, ArtifactShows
  <2> QED
    BY <1>1, <1>2, <1>7, <2>9, Visited
<1> QED
  BY <1>8, <1>9

\* A target of a document is one that it may contain.
LEMMA TargetTyped ==
  ASSUME NEW S, Tidy(S), LinkInv, at.page.as = "markdown",
         NEW t \in TextOf(share, at.page.path)
  PROVE  /\ t.path \in Seq(S) /\ t.path # <<>>
         /\ IsMarkdownPreviewName(Last(at.page.path))
<1> DEFINE name == Last(at.page.path)
<1>1. share # NoShare /\ IsFile(at.page.path) /\ name.ext \in DOMAIN KindOfExtension
  BY OfShare, OfFile
<1>2. ClassifyPreviewKind(name) = "markdown"
  BY DEF LinkInv, Shown, PageOf
<1> HIDE DEF name
<1>3. IsMarkdownPreviewName(name)
  BY <1>1, <1>2 DEF ClassifyPreviewKind, MarkdownExtensions, KindOfExtension,
                    IsMarkdownPreviewName
<1>4. t \in Targets
  <2>1. TextOf(share, at.page.path) \in SUBSET Targets
    BY <1>1 DEF LinkInv, TextTyped, TextOf, IsFile
  <2> QED
    BY <2>1
<1> QED
  BY <1>3, <1>4 DEF Tidy, Targets, name

LEMMA FollowTargetLinks ==
  ASSUME NEW S, Tidy(S), LinkInv, NEW t, FollowTarget(t)
  PROVE  LinkInv'
<1> DEFINE rel == at.page.rel
           root == share.root
           want == Named(t)
           detour == ~t.abs /\ EscapesRoot(Parent(rel) \o t.path)
           via == IF detour THEN "detour" ELSE "target"
           bytes == t.el # "a" \/ ClassifyPreviewKind(Last(want)) = "pdf"
           url == IF t.abs THEN RewriteServePreviewPath(t) ELSE RewriteMarkdownTarget(rel, t)
<1>1. at.page.as = "markdown" /\ t \in TextOf(share, at.page.path) /\ IsFile(want)
  BY DEF FollowTarget
<1>2. /\ share # NoShare /\ ShareOf(share) /\ rel \in Seq(S) /\ root \in Seq(S)
      /\ at.page.path = root \o rel /\ root \o <<>> = root
      /\ (\A k \in 1..Len(root) : root[k] # Up)
      /\ (~share.isDir => rel = <<>>) /\ (share.isDir => rel # <<>>)
  BY <1>1, OfShare, OfFile, ShareRoot
<1>3. t.path \in Seq(S) /\ t.path # <<>> /\ IsMarkdownPreviewName(Last(at.page.path))
  BY <1>1, TargetTyped
<1>4. ~IsDir(want) /\ Exists(want)
  BY <1>1 DEF Exists, IsFile, IsDir, Files, Tidy
<1>5. CASE ~(t.abs \/ share.isDir)
  <2>1. at' = [via |-> "unwritten", want |-> want, bytes |-> FALSE, page |-> NoPage(ToResponse)]
        /\ text' = text /\ share' = share /\ printed' = printed
    BY <1>5 DEF FollowTarget
  <2>2. IsMarkdownPreviewName(Last(root)) /\ ~share.isDir
    <3>1. at.page.path = root
      BY <1>2, <1>5, Zenon
    <3> QED
      BY <1>3, <1>5, <3>1
  <2>3. PublishedAlone
    BY <1>2, <2>2 DEF LinkInv, Published
  <2>4. LinkOpensUnlessNamed'
    BY <2>1, <2>3 DEF LinkOpensUnlessNamed, PublishedAlone
  <2>5. TextTyped' /\ Published'
    BY <2>1 DEF LinkInv, TextTyped, Published, PublishedAlone
  <2>6. PageOf(share', at'.page)
    BY <2>1, NoPageOf
  <2>7. Shown'
    BY <1>2, <2>1, <2>6 DEF Shown, PageOf, Has, Kept
  <2> QED
    BY <2>4, <2>5, <2>7 DEF LinkInv
<1>6. CASE t.abs \/ share.isDir
  <2>1. Visit(via, want, bytes, url)
    BY <1>6 DEF FollowTarget
  <2>2. IsURL(url) /\ url.route \in {"s", "r"} /\ (url.route = "s" <=> t.el = "a")
    <3>1. CASE t.abs
      BY <1>3, <3>1, EscapeSegments DEF RewriteServePreviewPath
    <3>2. CASE ~t.abs
      <4> DEFINE path == Parent(rel) \o t.path
      <4>1. path \in Seq(S)
        BY <1>2, <1>3, <1>6, <3>2, ParentTyped, ConcatProperties
      <4> HIDE DEF path
      <4>2. Clean(path) \in Seq(S)
        BY <4>1, CleanTyped
      <4>3. url = IF t.el = "a" THEN BuildPreviewPath(Clean(path)) ELSE BuildRawPath(Clean(path))
        BY <3>2 DEF RewriteMarkdownTarget, path
      <4> HIDE DEF url
      <4> QED
        BY <4>2, <4>3, EscapeSegments DEF BuildPreviewPath, BuildRawPath
    <3> QED
      BY <3>1, <3>2
  <2>3. CASE Excused(via, want, bytes)
    <3> HIDE DEF url, via, want, bytes
    <3> QED
      BY <1>2, <2>1, <2>2, <2>3, Visited
  \* Where the target is below the root of the share, if it is no detour.
  <2>4. ASSUME ~Excused(via, want, bytes)
        PROVE  share.isDir /\ \E q \in Seq(S) :
                 /\ want = root \o q /\ Decode(url.segments) = q /\ Reaches(share, q)
                 /\ bytes /\ q # <<>> => Last(q) # Index
    <3>1. CASE t.abs
      <4>1. want = root \o t.path
        BY <3>1 DEF Named
      <4>2. share.isDir
        <5> SUFFICES ASSUME ~share.isDir PROVE FALSE
          OBVIOUS
        <5> DEFINE m == Len(root)
                   p == root \o t.path
        <5>1. IsFile(root) /\ root \in Seq(S)
          BY <1>2 DEF ShareOf
        <5>2. p \in Seq(S) /\ m \in Nat /\ m < Len(p)
          <6>1. m \in Nat /\ Len(p) = m + Len(t.path) /\ Len(t.path) \in Nat \ {0}
            BY <1>2, <1>3, ConcatProperties, LenProperties, EmptySeq
          <6>2. p \in Seq(S)
            BY <1>2, <1>3, ConcatProperties
          <6> HIDE DEF m, p
          <6> QED
            BY <6>1, <6>2
        <5>3. SubSeq(p, 1, m) = root
          <6>1. CASE m = 0
            <7>1. m \in Int /\ m < 1 /\ root = <<>>
              BY <1>2, <6>1, EmptySeq
            <7> HIDE DEF m, p
            <7> QED
              BY <7>1, SubSeqEmpty
          <6>2. CASE m # 0
            <7>1. Within(root, p)
              BY <1>2, <1>3, PrefixOfBelow
            <7>2. SubSeq(root, 1, m) = SubSeq(p, 1, m)
              BY <7>1 DEF Within, IsPrefix
            <7>3. SubSeq(root, 1, m) = root
              BY <1>2, SubSeqFull
            <7> QED
              BY <7>2, <7>3
          <6> QED
            BY <6>1, <6>2
        <5>4. Exists(p) /\ Exists(root)
          BY <1>4, <4>1, <5>1 DEF Exists
        <5> HIDE DEF m, p, root
        <5>5. IsDir(SubSeq(p, 1, m))
          BY <5>2, <5>4, Existing
        <5>6. ~IsDir(root)
          BY <5>1, <5>4, Existing
        <5> QED
          BY <5>3, <5>5, <5>6
      <4>3. Decode(url.segments) = t.path
        BY <1>3, <3>1, Escaped DEF RewriteServePreviewPath
      <4>4. Exists(share.root \o t.path) /\ ~Excused(via, share.root \o t.path, bytes)
        BY <1>4, <2>4, <4>1
      <4>5. Reaches(share, t.path) /\ (bytes /\ t.path # <<>> => Last(t.path) # Index)
        <5> HIDE DEF via, bytes
        <5> QED
          BY <1>2, <1>3, <4>2, <4>4, Reached
      <4> QED
        BY <1>3, <4>1, <4>2, <4>3, <4>5
    <3>2. CASE ~t.abs
      <4> DEFINE here == Parent(rel)
                 path == here \o t.path
                 q == Clean(path)
      <4>1. share.isDir /\ rel # <<>>
        BY <1>2, <1>6, <3>2
      <4>2. here \in Seq(S) /\ path \in Seq(S)
        BY <1>2, <1>3, <4>1, ParentTyped, ConcatProperties
      <4>3. ~EscapesRoot(path)
        BY <2>4, <3>2 DEF Excused
      <4>4. want = Clean(root \o path)
        <5>1. Parent(root \o rel) = root \o here
          BY <1>2, <4>1, ParentBelow
        <5>2. (root \o here) \o t.path = root \o path
          <6> DEFINE more == t.path
          <6>1. root \in Seq(S) /\ here \in Seq(S) /\ more \in Seq(S)
            BY <1>2, <1>3, <4>2
          <6> HIDE DEF root, here, more
          <6>2. (root \o here) \o more = root \o (here \o more)
            BY <6>1, ConcatAssociative, SMTT(30)
          <6> QED
            BY <6>2 DEF more
        <5>3. want = Clean(Parent(at.page.path) \o t.path)
          BY <3>2 DEF Named
        <5>4. Parent(at.page.path) = root \o here
          BY <1>2, <5>1
        <5> HIDE DEF root, here, want, path
        <5> QED
          BY <5>2, <5>3, <5>4
      <4>5. Clean(root \o path) = root \o q
        <5> HIDE DEF root, path
        <5> QED
          BY <1>2, <4>2, <4>3, CleanBelow
      <4>6. q \in Seq(S)
        <5> HIDE DEF path
        <5> QED
          BY <4>2, CleanTyped
      <4>7. url.segments = EscapeRel(q)
        BY <3>2 DEF RewriteMarkdownTarget, BuildPreviewPath, BuildRawPath
      <4> HIDE DEF q, path, url, want
      <4>8. want = root \o q
        BY <4>4, <4>5
      <4>9. /\ Decode(EscapeRel(q)) = q /\ Reaches(share, q)
            /\ bytes /\ q # <<>> => Last(q) # Index
        <5>1. Exists(share.root \o q) /\ ~Excused(via, share.root \o q, bytes)
          BY <1>4, <2>4, <4>8
        <5> HIDE DEF via, bytes
        <5> QED
          BY <1>2, <4>1, <4>6, <5>1, Reached
      <4> QED
        BY <4>1, <4>6, <4>7, <4>8, <4>9
    <3> QED
      BY <3>1, <3>2
  <2>5. CASE ~Excused(via, want, bytes)
    <3>1. PICK q \in Seq(S) : /\ want = root \o q /\ Decode(url.segments) = q /\ Reaches(share, q)
                              /\ bytes /\ q # <<>> => Last(q) # Index
      BY <2>4, <2>5
    <3>2. CASE t.el = "a"
      <4>1. url.route = "s" /\ (bytes <=> ~IsDir(want) /\ ClassifyPreviewKind(Last(want)) = "pdf")
        BY <1>4, <2>2, <3>2
      <4> HIDE DEF url, want, bytes, via
      <4>2. Shows(Request(share, url), share.root \o Decode(url.segments), bytes)
        BY <1>2, <3>1, <4>1, PreviewShows
      <4> QED
        BY <1>2, <2>1, <2>2, <3>1, <4>2, Visited
    <3>3. CASE t.el # "a"
      <4>1. url.route = "r" /\ bytes = TRUE
        BY <2>2, <3>3
      <4> HIDE DEF url, want, bytes, via
      <4>2. Shows(Request(share, url), share.root \o Decode(url.segments), bytes)
        BY <1>2, <1>4, <3>1, <4>1, RawShows
      <4> QED
        BY <1>2, <2>1, <2>2, <3>1, <4>2, Visited
    <3> QED
      BY <3>2, <3>3
  <2> QED
    BY <2>3, <2>5
<1> QED
  BY <1>5, <1>6

LEMMA NextLinks ==
  ASSUME NEW S, Tidy(S), LinkInv, [Next]_vars
  PROVE  LinkInv'
<1>1. ASSUME NEW p \in Documents, NEW targets \in Texts, Edit(p, targets) PROVE LinkInv'
  BY <1>1, EditLinks
<1>2. ASSUME NEW p \in Places, NEW snapshot \in BOOLEAN, Publish(p, snapshot) PROVE LinkInv'
  BY <1>2, PublishLinks
<1>3. CASE OpenPrinted
  BY <1>3, OpenPrintedLinks
<1>4. ASSUME NEW name \in Names, NEW raw \in BOOLEAN, OpenEntry(name, raw) PROVE LinkInv'
  BY <1>4, OpenEntryLinks
<1>5. ASSUME NEW k \in 0..Len(at.page.rel), OpenBreadcrumb(k) PROVE LinkInv'
  BY <1>5, OpenBreadcrumbLinks
<1>6. CASE OpenRaw
  BY <1>6, OpenRawLinks
<1>7. CASE LoadFrame
  BY <1>7, LoadFrameLinks
<1>8. ASSUME NEW t \in Targets, FollowTarget(t) PROVE LinkInv'
  BY <1>8, FollowTargetLinks
<1>9. CASE UNCHANGED vars
  <2>1. text' = text /\ share' = share /\ printed' = printed /\ at' = at
    BY <1>9 DEF vars
  <2>2. TextTyped' /\ Published'
    BY <2>1 DEF LinkInv, TextTyped, Published, PublishedAlone
  <2>3. Shown'
    BY <2>1 DEF LinkInv, Shown, PageOf, Has, Kept
  <2>4. LinkOpensUnlessNamed'
    BY <2>1 DEF LinkInv, LinkOpensUnlessNamed, Opened, RelOf, PublishedAlone
  <2> QED
    BY <2>2, <2>3, <2>4 DEF LinkInv
<1> QED
  BY <1>1, <1>2, <1>3, <1>4, <1>5, <1>6, <1>7, <1>8, <1>9 DEF Next

-----------------------------------------------------------------------------
(* The theorem. *)

\* The links of listings, breadcrumbs, pages and documents open the file they name,
\* with the exceptions that the property lists and no other (an index.html behind the
\* raw route, a name that the artifact's redirection breaks and a link that leaves the
\* share among them): whatever names and links are on the disk, whatever is published,
\* edited, and linked from where (publish, renderDirectoryListing, buildBreadcrumbs,
\* rewriteMarkdownTarget, cleanMarkdownPath, escapeRel, resolveTarget).
THEOREM LinksOpen ==
  ASSUME NEW S, Tidy(S)
  PROVE  Spec => []LinkOpensUnlessNamed
<1>1. Init => LinkInv
  BY InitLinks
<1>2. LinkInv /\ [Next]_vars => LinkInv'
  BY NextLinks
<1>3. LinkInv => LinkOpensUnlessNamed
  BY DEF LinkInv
<1> QED
  BY <1>1, <1>2, <1>3, PTL DEF Spec
=============================================================================
