-------------------------- MODULE SnapshotCopyProofs --------------------------
(***************************************************************************)
(* Theorems about SnapshotCopy, for every number of files, every size,     *)
(* limit and number of changes.                                            *)
(***************************************************************************)
EXTENDS SnapshotCopy, FoldFacts, TLAPS

USE DEF Files, None, Kinds

-----------------------------------------------------------------------------
(* The inductive invariant. *)

\* The budget: the first walk goes on while it is within the limit; what is written and
\* what remains are the limit, the open file has at most one byte more than what
\* remains, and it is one of the walk.
Budget ==
    /\ pc = "measure" /\ i <= Last => total \in 0..limit /\ (~isDir => total = 0)
    /\ pc \in {"measure", "copy", "read", "ok"} => written + remaining = limit
    /\ pc = "read" => /\ i <= Last /\ i <= N
                      /\ copied <= remaining + 1
                      /\ dst[i] = copied

\* The sizes of a file lie between the smallest and the largest it has had, the open
\* file has given no more than the largest, and the second walk found what is there.
Sizes ==
    /\ \A f \in Files : low[f] <= source[f].size /\ source[f].size <= high[f]
    /\ pc = "read" => copied <= high[i]
    /\ pc \in {"copy", "read", "ok"} => \A f \in Files : source[f].kind = "regular" => f \in listed

\* The files that the copy has passed are complete.
Passed ==
    limit < MaxInt =>
        /\ pc \in {"copy", "read"} =>
              \A f \in Files : f < i /\ f <= Last /\ Unchanged(f) => dst[f] = source[f].size
        /\ pc = "ok" =>
              \A f \in Files : f <= Last /\ Unchanged(f) => dst[f] = source[f].size

Cleared == pc \in {"refused", "failed"} => \A f \in Files : dst[f] = -1

Inv == TypeOK /\ Budget /\ Sizes /\ Passed /\ Cleared

-----------------------------------------------------------------------------
(* Facts of arithmetic. *)

LEMMA Constants ==
  /\ N \in Nat \ {0}
  /\ MaxSize \in Nat /\ MaxInt \in Nat /\ MaxChanges \in Nat
  /\ \A l \in Limits : l \in Nat /\ 1 <= l /\ l <= MaxInt
  BY CopyAssumption

LEMMA Numbers ==
  ASSUME TypeOK
  PROVE  /\ limit \in Nat /\ 1 <= limit /\ limit <= MaxInt
         /\ i \in Nat /\ 1 <= i /\ i <= N + 1
         /\ total \in Int
         /\ remaining \in Nat /\ remaining <= limit
         /\ copied \in Nat /\ copied <= limit + 1
         /\ written \in Nat
         /\ Last \in Nat /\ 1 <= Last /\ Last <= N
<1>1. limit \in Nat /\ 1 <= limit /\ limit <= MaxInt
  BY Constants DEF TypeOK, SourceTypeOK
<1>2. total \in Int
  BY <1>1, Constants DEF TypeOK, CopyTypeOK, Wrap
<1> QED
  BY <1>1, <1>2, Constants DEF TypeOK, SourceTypeOK, CopyTypeOK, Last

LEMMA FileSizes ==
  ASSUME TypeOK
  PROVE  \A f \in Files :
           /\ source[f].size \in Nat /\ source[f].size <= MaxSize
           /\ source[f].kind \in {"regular", "link", "fifo", "gone"}
           /\ low[f] \in Nat /\ high[f] \in Nat
  BY Constants DEF TypeOK, SourceTypeOK

LEMMA UnchangedSame ==
  ASSUME Environment
  PROVE  /\ SourceTypeOK => SourceTypeOK'
         /\ Last' = Last /\ limit' = limit
         /\ \A g \in Files : (Unchanged(g)' <=> Unchanged(g)) /\ source'[g] = source[g]
                             /\ low'[g] = low[g] /\ high'[g] = high[g]
  BY DEF Environment, Unchanged, SourceTypeOK, Last

LEMMA InitInv == Init => Inv
<1> SUFFICES ASSUME Init PROVE Inv
  OBVIOUS
<1> USE Constants DEF Init
<1>1. SourceTypeOK
  BY DEF SourceTypeOK
<1>2. CopyTypeOK
  BY DEF CopyTypeOK
<1>3. Budget /\ Passed /\ Cleared
  BY DEF Budget, Passed, Cleared
<1>4. Sizes
  BY <1>1 DEF Sizes, SourceTypeOK
<1> QED
  BY <1>1, <1>2, <1>3, <1>4 DEF Inv, TypeOK

-----------------------------------------------------------------------------
(* The steps of the owner. *)

LEMMA ChangeInv ==
  ASSUME Inv, NEW f \in Files, NEW size \in 0..MaxSize, Change(f, size)
  PROVE  Inv'
<1> USE Constants, FileSizes, Numbers DEF Inv, Change, Running
<1>0. size \in Nat
  OBVIOUS
<1>1. SourceTypeOK'
  <2>1. source' \in [Files -> [kind : Kinds, size : 0..MaxSize]]
    <3>1. source \in [Files -> [kind : Kinds, size : 0..MaxSize]]
      BY DEF TypeOK, SourceTypeOK
    <3>2. [source[f] EXCEPT !.size = size] \in [kind : Kinds, size : 0..MaxSize]
      BY <3>1
    <3>3. source' = [source EXCEPT ![f] = [source[f] EXCEPT !.size = size]]
      BY <3>1
    <3> QED
      BY <3>1, <3>2, <3>3
  <2>2. low' \in [Files -> 0..MaxSize] /\ high' \in [Files -> 0..MaxSize]
    BY DEF TypeOK, SourceTypeOK
  <2>3. changes' \in 0..MaxChanges
    <3>1. changes \in 0..MaxChanges /\ changes < MaxChanges /\ changes' = changes + 1
      BY DEF TypeOK, SourceTypeOK
    <3> QED
      BY <3>1, Constants
  <2> QED
    BY <2>1, <2>2, <2>3 DEF TypeOK, SourceTypeOK
<1>2. CopyTypeOK'
  BY DEF TypeOK, CopyTypeOK
<1>3. /\ source'[f].size = size /\ source'[f].kind = source[f].kind
      /\ low'[f] = (IF size < low[f] THEN size ELSE low[f])
      /\ high'[f] = (IF size > high[f] THEN size ELSE high[f])
      /\ \A g \in Files \ {f} : source'[g] = source[g] /\ low'[g] = low[g] /\ high'[g] = high[g]
  BY DEF TypeOK, SourceTypeOK
<1>4. low'[f] < high'[f]
  BY <1>0, <1>3 DEF Sizes
<1>5. Budget'
  BY DEF Budget, Last
<1>6. Sizes'
  <2>1. \A g \in Files : low'[g] <= source'[g].size /\ source'[g].size <= high'[g]
                         /\ high[g] <= high'[g]
    BY <1>0, <1>3 DEF Sizes
  <2>2. pc = "read" => copied <= high'[i]
    BY <2>1, <1>0, <1>3 DEF Sizes, Budget
  <2>3. pc' \in {"copy", "read", "ok"} => \A g \in Files : source'[g].kind = "regular" => g \in listed'
    BY <1>3 DEF Sizes
  <2> QED
    BY <2>1, <2>2, <2>3 DEF Sizes
<1>7. \A g \in Files : Unchanged(g)' => Unchanged(g) /\ source'[g] = source[g]
  BY <1>0, <1>3, <1>4 DEF Unchanged
<1>8. Passed'
  BY <1>7 DEF Passed, Last
<1>9. Cleared'
  BY DEF Cleared
<1> QED
  BY <1>1, <1>2, <1>5, <1>6, <1>8, <1>9 DEF TypeOK

LEMMA RemoveInv ==
  ASSUME Inv, NEW f \in Files, Remove(f)
  PROVE  Inv'
<1> USE Constants, FileSizes, Numbers DEF Inv, Remove, Running
<1>1. SourceTypeOK'
  <2>1. source' \in [Files -> [kind : Kinds, size : 0..MaxSize]]
    <3>1. source \in [Files -> [kind : Kinds, size : 0..MaxSize]]
      BY DEF TypeOK, SourceTypeOK
    <3>2. [source[f] EXCEPT !.kind = "gone"] \in [kind : Kinds, size : 0..MaxSize]
      BY <3>1
    <3>3. source' = [source EXCEPT ![f] = [source[f] EXCEPT !.kind = "gone"]]
      BY <3>1
    <3> QED
      BY <3>1, <3>2, <3>3
  <2>2. changes' \in 0..MaxChanges
    <3>1. changes \in 0..MaxChanges /\ changes < MaxChanges /\ changes' = changes + 1
      BY DEF TypeOK, SourceTypeOK
    <3> QED
      BY <3>1, Constants
  <2> QED
    BY <2>1, <2>2 DEF TypeOK, SourceTypeOK
<1>2. CopyTypeOK'
  BY DEF TypeOK, CopyTypeOK
<1>3. /\ source'[f].size = source[f].size /\ source'[f].kind = "gone"
      /\ \A g \in Files \ {f} : source'[g] = source[g]
  BY DEF TypeOK, SourceTypeOK
<1>4. Budget'
  BY DEF Budget, Last
<1>5. Sizes'
  BY <1>3 DEF Sizes
<1>6. \A g \in Files : Unchanged(g)' => Unchanged(g) /\ source'[g] = source[g]
  BY <1>3 DEF Unchanged
<1>7. Passed'
  BY <1>6 DEF Passed, Last
<1>8. Cleared'
  BY DEF Cleared
<1> QED
  BY <1>1, <1>2, <1>4, <1>5, <1>7, <1>8 DEF TypeOK

-----------------------------------------------------------------------------
(* The steps of the copy. *)

\* A failure clears the copy, whatever failed.
LEMMA FailInv ==
  ASSUME Inv, NEW result \in {"refused", "failed"}, Fail(result)
  PROVE  Inv'
<1> USE Constants, Numbers, UnchangedSame DEF Inv, Fail
<1>1. CopyTypeOK'
  BY DEF TypeOK, CopyTypeOK, Wrap, Environment
<1>2. Sizes'
  BY DEF Sizes
<1>3. Budget' /\ Passed' /\ Cleared'
  BY DEF Budget, Passed, Cleared
<1> QED
  BY <1>1, <1>2, <1>3 DEF TypeOK

LEMMA MeasureInv ==
  ASSUME Inv, Measure
  PROVE  Inv'
<1> DEFINE size == IF source[i].kind = "regular" THEN source[i].size ELSE 0
<1>1. CASE Fail("failed")
  BY <1>1, FailInv
<1>2. CASE /\ \/ TooLarge(size) /\ total' = Wrap(limit + 1) /\ i' = Last + 1
              \/ ~TooLarge(size) /\ total' = total + size /\ i' = i + 1
           /\ UNCHANGED <<pc, listed, remaining, copied, dst, written>>
           /\ Environment
  <2> USE Constants, Numbers, FileSizes, UnchangedSame, <1>2 DEF Inv, Measure
  <2>1. i \in Files /\ i <= Last /\ size \in Nat /\ size <= MaxSize
    OBVIOUS
  <2>2. total \in 0..limit /\ (~isDir => total = 0)
    BY <2>1 DEF Budget
  <2>3. i' \in 1..(N + 1)
    BY <2>1
  <2>4. ~TooLarge(size) =>
           total' \in Nat /\ (isDir => total' <= limit) /\ (~isDir => total' <= MaxSize)
    BY <2>1, <2>2 DEF TooLarge
  <2> HIDE DEF size
  <2>5. limit' = limit /\ isDir' = isDir /\ Last' = Last
    BY DEF Environment
  <2>6. total' \in 0..limit \cup (IF isDir THEN {Wrap(limit + 1)} ELSE 0..MaxSize)
    <3>1. CASE TooLarge(size)
      BY <3>1 DEF TooLarge
    <3>2. CASE ~TooLarge(size)
      BY <3>2, <2>4
    <3> QED
      BY <3>1, <3>2
  <2>7. CopyTypeOK'
    BY <2>3, <2>5, <2>6 DEF TypeOK, CopyTypeOK, Wrap
  <2>8. (pc = "measure" /\ i <= Last => total \in 0..limit /\ (~isDir => total = 0))'
    <3>1. CASE TooLarge(size)
      BY <2>5, <3>1
    <3>2. CASE ~TooLarge(size)
      <4>1. ~isDir => ~(i' <= Last')
        BY <2>1, <2>5, <3>2 DEF Last
      <4> QED
        BY <2>4, <2>5, <3>2, <4>1
    <3> QED
      BY <3>1, <3>2
  <2>9. Sizes'
    BY DEF Sizes
  <2>10. Budget'
    BY <2>8 DEF Budget
  <2>11. Passed' /\ Cleared'
    BY DEF Passed, Cleared
  <2> QED
    BY <2>7, <2>9, <2>10, <2>11 DEF TypeOK
<1> QED
  BY <1>1, <1>2 DEF Measure

LEMMA MeasuredInv ==
  ASSUME Inv, Measured
  PROVE  Inv'
<1>1. CASE Fail("refused")
  BY <1>1, FailInv
<1>2. CASE /\ pc' = "copy" /\ i' = 1
           /\ listed' = IF isDir THEN {f \in Files : source[f].kind # "gone"} ELSE Files
           /\ UNCHANGED <<total, remaining, copied, dst, written>>
           /\ Environment
  <2> USE Constants, Numbers, UnchangedSame, <1>2 DEF Inv, Measured
  <2>1. CopyTypeOK'
    <3>1. 1 \in 1..(N + 1) /\ listed' \subseteq Files
      BY DEF TypeOK, CopyTypeOK
    <3>2. isDir' = isDir /\ limit' = limit /\ Wrap(limit + 1)' = Wrap(limit + 1)
      BY DEF Environment, Wrap
    <3> QED
      BY <3>1, <3>2 DEF TypeOK, CopyTypeOK
  <2>2. Budget' /\ Cleared'
    BY DEF Budget, Cleared
  <2>3. Sizes'
    BY DEF Sizes
  <2>4. Passed'
    BY DEF Passed
  <2> QED
    BY <2>1, <2>2, <2>3, <2>4 DEF TypeOK
<1> QED
  BY <1>1, <1>2 DEF Measured

LEMMA SkipInv ==
  ASSUME Inv, Skip
  PROVE  Inv'
<1> USE Constants, Numbers, UnchangedSame DEF Inv, Skip
<1>1. i \in Files
  OBVIOUS
<1>2. CopyTypeOK'
  <2>1. i' \in 1..(N + 1)
    BY <1>1
  <2>2. /\ pc' = pc /\ listed' = listed /\ total' = total /\ remaining' = remaining
        /\ copied' = copied /\ dst' = dst /\ written' = written
        /\ limit' = limit /\ isDir' = isDir
    BY DEF Environment
  <2> HIDE Constants, Numbers, UnchangedSame DEF Skip
  <2> QED
    BY <2>1, <2>2 DEF TypeOK, CopyTypeOK, Wrap
<1>3. Budget' /\ Cleared'
  BY DEF Budget, Cleared
<1>4. Sizes'
  BY DEF Sizes
<1>5. ~Unchanged(i)
  BY <1>1 DEF Sizes, Unchanged
<1>6. \A f \in Files : f < i' => f < i \/ f = i
  BY <1>1
<1>7. Passed'
  BY <1>1, <1>5, <1>6 DEF Passed
<1> QED
  BY <1>2, <1>3, <1>4, <1>7 DEF TypeOK

LEMMA OpenFileInv ==
  ASSUME Inv, OpenFile
  PROVE  Inv'
<1>1. CASE Fail("failed")
  BY <1>1, FailInv
<1>2. CASE /\ pc' = "read"
           /\ dst' = [dst EXCEPT ![i] = 0]
           /\ copied' = 0
           /\ UNCHANGED <<i, listed, total, remaining, written>>
           /\ Environment
  <2> USE Constants, Numbers, FileSizes, UnchangedSame, <1>2 DEF Inv, OpenFile
  <2>1. i \in Files /\ i <= Last
    OBVIOUS
  <2>2. CopyTypeOK'
    <3>1. dst' \in [Files -> None..(limit' + 1)]
      <4>1. dst \in [Files -> None..(limit + 1)]
        BY DEF TypeOK, CopyTypeOK
      <4>2. 0 \in None..(limit' + 1)
        OBVIOUS
      <4> QED
        BY <4>1, <4>2, <2>1
    <3>2. copied' \in 0..(limit' + 1)
      OBVIOUS
    <3> QED
      BY <3>1, <3>2 DEF TypeOK, CopyTypeOK, Wrap, Environment
  <2>3. Budget'
    BY <2>1 DEF Budget, TypeOK, CopyTypeOK
  <2>4. Sizes'
    BY <2>1 DEF Sizes
  <2>5. \A f \in Files : f # i => dst'[f] = dst[f]
    BY DEF TypeOK, CopyTypeOK
  <2>6. Passed'
    BY <2>1, <2>5 DEF Passed
  <2>7. Cleared'
    BY DEF Cleared
  <2> QED
    BY <2>2, <2>3, <2>4, <2>6, <2>7 DEF TypeOK
<1> QED
  BY <1>1, <1>2 DEF OpenFile

\* The reader gives at most one byte more than the budget.
LEMMA ReadableBound ==
  ASSUME TypeOK
  PROVE  /\ Readable \in Int
         /\ Readable <= remaining + 1
         /\ limit < MaxInt => Readable = remaining + 1
  BY Constants, Numbers DEF Readable, Wrap

LEMMA ReadByteInv ==
  ASSUME Inv, ReadByte
  PROVE  Inv'
<1> USE Constants, Numbers, FileSizes, UnchangedSame DEF Inv, ReadByte
<1>1. i \in Files /\ i <= Last
  BY DEF Budget
<1>2. copied + 1 <= remaining + 1 /\ copied + 1 <= limit + 1
  BY ReadableBound
<1>3. CopyTypeOK'
  BY <1>1, <1>2 DEF TypeOK, CopyTypeOK, Wrap, Environment
<1>4. Budget'
  BY <1>1, <1>2 DEF Budget, TypeOK, CopyTypeOK
<1>5. Sizes'
  BY <1>1 DEF Sizes, AtEnd
<1>6. \A f \in Files : f # i => dst'[f] = dst[f]
  BY DEF TypeOK, CopyTypeOK
<1>7. Passed'
  BY <1>1, <1>6 DEF Passed
<1>8. Cleared'
  BY DEF Cleared
<1> QED
  BY <1>3, <1>4, <1>5, <1>7, <1>8 DEF TypeOK

LEMMA EndOfFileInv ==
  ASSUME Inv, EndOfFile
  PROVE  Inv'
<1>1. CASE Fail("refused")
  BY <1>1, FailInv
<1>2. CASE copied <= remaining /\ Copied
  <2> USE Constants, Numbers, FileSizes, UnchangedSame, <1>2 DEF Inv, EndOfFile, Copied
  <2>1. i \in Files /\ i <= Last
    BY DEF Budget
  <2>2. CopyTypeOK'
    <3>1. i + 1 \in 1..(N + 1)
      BY <2>1
    <3>2. remaining - copied \in 0..limit /\ written + copied \in Nat
      BY DEF TypeOK, CopyTypeOK
    <3> HIDE <1>2, Constants, Numbers, FileSizes, UnchangedSame DEF Inv, EndOfFile, Copied
    <3>3. /\ pc' = "copy" /\ i' = i + 1
          /\ remaining' = remaining - copied /\ written' = written + copied
          /\ listed' = listed /\ total' = total /\ copied' = copied /\ dst' = dst
          /\ limit' = limit /\ isDir' = isDir
      BY <1>2 DEF Copied, Environment
    <3>4. CopyTypeOK
      BY DEF Inv, TypeOK
    <3> QED
      BY <3>1, <3>2, <3>3, <3>4 DEF CopyTypeOK, Wrap
  <2>3. Budget'
    BY DEF Budget
  <2>4. Sizes'
    BY DEF Sizes
  <2>5. limit < MaxInt => source[i].size <= copied
    BY ReadableBound, <2>1 DEF AtEnd
  <2>6. limit < MaxInt /\ Unchanged(i) => dst[i] = source[i].size
    BY <2>1, <2>5 DEF Sizes, Unchanged, Budget
  <2>7. \A f \in Files : f < i' => f < i \/ f = i
    BY <2>1
  <2>8. Passed'
    BY <2>1, <2>6, <2>7 DEF Passed
  <2>9. Cleared'
    BY DEF Cleared
  <2> QED
    BY <2>2, <2>3, <2>4, <2>8, <2>9 DEF TypeOK
<1>3. Inv => copied > remaining \/ copied <= remaining
  BY Numbers DEF Inv
<1> QED
  BY <1>1, <1>2, <1>3 DEF EndOfFile

LEMMA FinishInv ==
  ASSUME Inv, Finish
  PROVE  Inv'
<1> USE Constants, Numbers, UnchangedSame DEF Inv, Finish
<1>1. CopyTypeOK'
  BY DEF TypeOK, CopyTypeOK, Wrap, Environment
<1>2. Budget' /\ Cleared'
  BY DEF Budget, Cleared
<1>3. Sizes'
  BY DEF Sizes
<1>4. \A f \in Files : f <= Last => f < i
  OBVIOUS
<1>5. Passed'
  BY <1>4 DEF Passed
<1> QED
  BY <1>1, <1>2, <1>3, <1>5 DEF TypeOK

LEMMA StutterInv ==
  ASSUME Inv, UNCHANGED vars
  PROVE  Inv'
<1> USE DEF vars
<1>1. TypeOK'
  BY DEF Inv, TypeOK, SourceTypeOK, CopyTypeOK
<1>2. Budget' /\ Sizes' /\ Passed' /\ Cleared'
  BY DEF Inv, Budget, Sizes, Passed, Cleared, Unchanged, Last
<1> QED
  BY <1>1, <1>2 DEF Inv

LEMMA NextInv == Inv /\ [Next]_vars => Inv'
<1> SUFFICES ASSUME Inv, [Next]_vars PROVE Inv'
  OBVIOUS
<1>1. ASSUME NEW f \in Files, NEW size \in 0..MaxSize, Change(f, size) PROVE Inv'
  BY <1>1, ChangeInv
<1>2. ASSUME NEW f \in Files, Remove(f) PROVE Inv'
  BY <1>2, RemoveInv
<1>3. CASE Step
  BY <1>3, MeasureInv, MeasuredInv, SkipInv, OpenFileInv, ReadByteInv, EndOfFileInv, FinishInv
     DEF Step
<1>4. CASE UNCHANGED vars
  BY <1>4, StutterInv
<1> QED
  BY <1>1, <1>2, <1>3, <1>4 DEF Next

-----------------------------------------------------------------------------
(* The theorems. *)

LEMMA AlwaysInv == Spec => []Inv
  BY InitInv, NextInv, PTL DEF Spec

\* The variables of a copy keep their types (snapshotSize, copyTree, copyFile): the
\* budget is never negative, also when the source grows during the copy.
THEOREM TypeCorrect == Spec => []TypeOK
<1>1. Inv => TypeOK
  BY DEF Inv
<1> QED
  BY <1>1, AlwaysInv, PTL

\* The files of a copy together never take more than the limit (copyFile), for any
\* number of files and any changes of the source.
THEOREM BudgetHolds == Spec => []BudgetKept
<1>1. Inv => BudgetKept
  BY Numbers DEF Inv, Budget, BudgetKept
<1> QED
  BY <1>1, AlwaysInv, PTL

\* A copy that succeeds has each file that nobody touched in full length, and one
\* that does not leaves nothing (CreateSnapshot), below the largest integer.
THEOREM CopyComplete == Spec => []CompleteUnlessWrapped
<1>1. Inv => CompleteUnlessWrapped
  <2> SUFFICES ASSUME Inv PROVE CompleteUnlessWrapped
    OBVIOUS
  <2>1. \A f \in Walked : f \in Files /\ f <= Last
    BY Numbers, Constants DEF Inv, Walked
  <2> QED
    BY <2>1 DEF Inv, Passed, Cleared, CompleteUnlessWrapped
<1> QED
  BY <1>1, AlwaysInv, PTL

-----------------------------------------------------------------------------
(* The limit is exact.  The sums go over any number of files; what is proved *)
(* about them in FoldFacts is used for three facts: what the copy of one     *)
(* file does to the sum of the copy, that the largest sizes only grow, and   *)
(* that they add up.                                                         *)

\* The files that are in the copy, and the open one's part.
Held == {f \in Files : dst[f] # None}
OpenPart == IF pc = "read" THEN copied ELSE 0

\* The first files of the walk, each at its largest.
Largest(n) == SumOver(high, 1..n)

\* What is on disk is what was counted, the files to come are not there, and what was
\* counted is no more than the files had at their largest.
Exact ==
    /\ pc = "measure" => /\ written = 0 /\ \A f \in Files : dst[f] = None
                         /\ total <= Largest(i - 1) /\ i <= Last + 1
    /\ pc \in {"copy", "read", "ok"} =>
         /\ SumOver(dst, Held) = written + OpenPart
         /\ \A f \in Files : f > i \/ (f = i /\ pc # "read") => dst[f] = None
         /\ written <= Largest(i - 1)
    /\ pc = "refused" => Largest(Last) > limit

LEMMA WalkFinite == \A n \in Nat : IsFiniteSet(1..n)
<1> SUFFICES ASSUME NEW n \in Nat PROVE IsFiniteSet(1..n)
  OBVIOUS
<1>1. 1 \in Int /\ n \in Int
  OBVIOUS
<1> QED
  BY <1>1, FS_Interval

LEMMA HeldFinite ==
  ASSUME NEW U \in SUBSET Files
  PROVE  IsFiniteSet(U)
<1>1. IsFiniteSet(Files)
  BY WalkFinite, Constants
<1> QED
  BY <1>1, FS_Subset

LEMMA LargestType ==
  ASSUME TypeOK, NEW n \in 0..N
  PROVE  Largest(n) \in Int
<1>1. IsFiniteSet(1..n)
  BY WalkFinite, Constants
<1>2. \A f \in 1..n : high[f] \in Int
  BY FileSizes, Constants
<1> QED
  BY <1>1, <1>2, SumType DEF Largest

LEMMA LargestNext ==
  ASSUME TypeOK, NEW n \in 1..N
  PROVE  Largest(n) = Largest(n - 1) + high[n]
<1>1. IsFiniteSet(1..n)
  BY WalkFinite, Constants
<1>2. \A f \in 1..n : high[f] \in Int
  BY FileSizes, Constants
<1>3. n \in 1..n /\ (1..n) \ {n} = 1..(n - 1)
  BY Constants
<1>4. SumOver(high, 1..n) = high[n] + SumOver(high, (1..n) \ {n})
  BY <1>1, <1>2, <1>3, SumTakeOut
<1>5. n - 1 \in 0..N /\ high[n] \in Int
  BY <1>2, <1>3, Constants
<1>6. Largest(n - 1) \in Int
  BY <1>5, LargestType
<1>7. Largest(n) = high[n] + Largest(n - 1)
  BY <1>3, <1>4 DEF Largest
<1> QED
  BY <1>5, <1>6, <1>7

LEMMA LargestGrows ==
  ASSUME TypeOK, NEW m \in 0..N, NEW n \in 0..N, m <= n
  PROVE  Largest(m) <= Largest(n)
<1>1. IsFiniteSet(1..n)
  BY WalkFinite, Constants
<1>2. \A f \in 1..n : high[f] \in Nat /\ high[f] \in Int /\ high[f] <= high[f]
  BY FileSizes, Constants
<1>3. 1..m \in SUBSET (1..n)
  BY Constants
<1>4. \A f \in 1..m : high[f] \in Int /\ high[f] <= high[f]
  BY <1>2, <1>3
<1> QED
  BY <1>1, <1>2, <1>3, <1>4, SumMonotone DEF Largest

LEMMA LargestZero == Largest(0) = 0
<1>1. 1..0 = {}
  OBVIOUS
<1> QED
  BY <1>1, SumEmpty DEF Largest

\* What one file adds to the copy, or takes from it.
LEMMA OneFile ==
  ASSUME TypeOK, TypeOK', NEW g \in Files,
         \A f \in Files : f # g => dst'[f] = dst[f],
         dst'[g] # None
  PROVE  SumOver(dst, Held)' = SumOver(dst, Held) + dst'[g]
                                 - (IF dst[g] = None THEN 0 ELSE dst[g])
<1> DEFINE R == Held \ {g}
           a == dst
           b == dst'
           H == {f \in Files : b[f] # None}
<1>1. /\ \A f \in Files : a[f] \in Int /\ (a[f] # None => a[f] \in Nat)
      /\ \A f \in Files : b[f] \in Int /\ (b[f] # None => b[f] \in Nat)
  <2>1. limit \in Nat /\ limit' \in Nat
    <3>1. limit \in Limits /\ limit' \in Limits
      BY DEF TypeOK, SourceTypeOK
    <3> QED
      BY <3>1, Constants
  <2>2. dst \in [Files -> None..(limit + 1)] /\ dst' \in [Files -> None..(limit' + 1)]
    BY DEF TypeOK, CopyTypeOK
  <2>3. \A n \in Nat : \A k \in None..(n + 1) : k \in Int /\ (k # None => k \in Nat)
    OBVIOUS
  <2>4. /\ \A f \in Files : a[f] \in None..(limit + 1)
        /\ \A f \in Files : b[f] \in None..(limit' + 1)
    BY <2>2
  <2> QED
    BY <2>1, <2>3, <2>4
<1>2. Held \in SUBSET Files /\ H \in SUBSET Files /\ R \in SUBSET Files
  BY DEF Held
<1>3. g \in H /\ H \ {g} = R
  BY DEF Held
<1>4. \A f \in R : a[f] \in Nat /\ b[f] = a[f]
  BY <1>1 DEF Held
<1> HIDE DEF R, a, b
<1>5. IsFiniteSet(Held) /\ IsFiniteSet(H) /\ IsFiniteSet(R)
  BY <1>2, HeldFinite
<1> HIDE DEF H
<1>6. SumOver(b, H) = b[g] + SumOver(b, R)
  <2>1. \A f \in H : b[f] \in Int
    BY <1>1, <1>2
  <2> QED
    BY <1>3, <1>5, <2>1, SumTakeOut
<1>7. SumOver(a, R) = SumOver(b, R)
  BY <1>4, <1>5, SumSame
<1>8. SumOver(a, R) \in Int /\ b[g] \in Int
  <2>1. \A f \in R : a[f] \in Int
    BY <1>1, <1>2
  <2> QED
    BY <1>1, <1>5, <2>1, SumType
<1>9. SumOver(dst, Held)' = SumOver(b, H)
  BY DEF Held, H, b
<1>10. CASE dst[g] = None
  <2>1. R = Held
    BY <1>10 DEF R, Held
  <2>2. SumOver(dst, Held) = SumOver(a, R)
    BY <2>1 DEF a
  <2> QED
    BY <1>6, <1>7, <1>8, <1>9, <1>10, <2>2 DEF b
<1>11. CASE dst[g] # None
  <2>1. g \in Held /\ \A f \in Held : a[f] \in Int
    BY <1>1, <1>11 DEF Held
  <2>2. SumOver(a, Held) = a[g] + SumOver(a, R)
    BY <1>5, <2>1, SumTakeOut DEF R
  <2>3. SumOver(dst, Held) = SumOver(a, Held) /\ a[g] = dst[g] /\ b[g] = dst'[g]
    BY DEF a, b
  <2>4. a[g] \in Int
    BY <1>1
  <2> QED
    BY <1>6, <1>7, <1>8, <1>9, <1>11, <2>2, <2>3, <2>4
<1> QED
  BY <1>10, <1>11

LEMMA HighType ==
  ASSUME TypeOK, TypeOK'
  PROVE  \A f \in Files : high[f] \in Nat /\ high[f] \in Int /\ high'[f] \in Nat /\ high'[f] \in Int
<1>1. high \in [Files -> 0..MaxSize] /\ high' \in [Files -> 0..MaxSize]
  BY DEF TypeOK, SourceTypeOK
<1> QED
  BY <1>1, Constants

\* A change of the source only raises what the files have at their largest.
LEMMA LargestRises ==
  ASSUME TypeOK, TypeOK', \A f \in Files : high[f] <= high'[f], NEW n \in 0..N
  PROVE  Largest(n) <= Largest(n)'
<1> DEFINE b == high'
<1>1. IsFiniteSet(1..n) /\ 1..n \in SUBSET (1..n)
  BY WalkFinite, Constants
<1>2. \A f \in 1..n : high[f] \in Int /\ b[f] \in Nat /\ high[f] <= b[f]
  BY HighType, Constants
<1> HIDE DEF b
<1>3. SumOver(high, 1..n) <= SumOver(b, 1..n)
  BY <1>1, <1>2, SumMonotone
<1> QED
  BY <1>3 DEF Largest, b

\* The steps of the owner leave the copy alone.
LEMMA OwnerExact ==
  ASSUME Inv, Inv', Exact,
         Running, UNCHANGED <<isDir, limit, pc, i, total, copied, dst, written>>,
         \A f \in Files : high[f] <= high'[f]
  PROVE  Exact'
<1>1. TypeOK /\ TypeOK' /\ N \in Nat /\ i - 1 \in 0..N
  BY Numbers, Constants DEF Inv
<1>2. Largest(i - 1) <= Largest(i - 1)'
  BY <1>1, LargestRises
<1>3. Largest(i - 1) \in Int /\ Largest(i - 1)' \in Int
  <2>1. IsFiniteSet(1..(i - 1))
    BY <1>1, WalkFinite
  <2>2. \A f \in 1..(i - 1) : high'[f] \in Int
    BY <1>1, HighType
  <2> DEFINE b == high'
  <2>3. SumOver(b, 1..(i - 1)) \in Int
    <3>1. \A f \in 1..(i - 1) : b[f] \in Int
      BY <2>2
    <3> HIDE DEF b
    <3> QED
      BY <2>1, <3>1, SumType
  <2>4. i' = i
    OBVIOUS
  <2> QED
    BY <1>1, <2>3, <2>4, LargestType DEF Largest
<1>4. total \in Int /\ written \in Int
  BY <1>1, Numbers
<1>5. SumOver(dst, Held)' = SumOver(dst, Held) /\ OpenPart' = OpenPart
  BY DEF Held, OpenPart
<1>6. CASE pc = "measure"
  <2>1. (total <= Largest(i - 1) /\ i <= Last + 1)'
    BY <1>2, <1>3, <1>4, <1>6 DEF Exact, Last
  <2> QED
    BY <1>6, <2>1 DEF Exact
<1>7. CASE pc \in {"copy", "read"}
  <2>1. (written <= Largest(i - 1))'
    BY <1>2, <1>3, <1>4, <1>7 DEF Exact
  <2>2. (SumOver(dst, Held) = written + OpenPart)'
    BY <1>5, <1>7 DEF Exact
  <2>3. (\A f \in Files : f > i \/ (f = i /\ pc # "read") => dst[f] = None)'
    BY <1>7 DEF Exact
  <2> QED
    BY <1>7, <2>1, <2>2, <2>3 DEF Exact
<1> QED
  BY <1>6, <1>7 DEF Running

\* A failure clears the copy; a refusal is to be justified.
LEMMA FailExact ==
  ASSUME NEW result \in {"failed", "refused"}, Fail(result),
         result = "refused" => (Largest(Last) > limit)'
  PROVE  Exact'
  BY DEF Fail, Exact

\* The steps of the copy leave the sizes of the source alone.
LEMMA LargestStays ==
  ASSUME Environment
  PROVE  \A n : Largest(n)' = Largest(n)
  BY DEF Environment, Largest

\* An entry that does not fit: with what came before, the files are too large.
LEMMA TooMuch ==
  ASSUME TypeOK, NEW n \in 1..Last, NEW before \in Int, NEW size \in Int,
         before <= Largest(n - 1), size <= high[n], before + size > limit
  PROVE  Largest(Last) > limit
<1>1. N \in Nat /\ Last \in 1..N /\ n \in 1..N /\ limit \in Int
  BY Numbers, Constants
<1>2. Largest(n) = Largest(n - 1) + high[n]
  BY <1>1, LargestNext
<1>3. Largest(n) <= Largest(Last)
  BY <1>1, LargestGrows
<1>4. Largest(n) \in Int /\ Largest(n - 1) \in Int /\ Largest(Last) \in Int /\ high[n] \in Int
  BY <1>1, LargestType, FileSizes
<1> QED
  BY <1>1, <1>2, <1>3, <1>4

\* What is counted of an entry that fits is no more than it had at its largest.
LEMMA StillNoMore ==
  ASSUME TypeOK, NEW n \in 1..N, NEW before \in Int, NEW size \in Int,
         before <= Largest(n - 1), size <= high[n]
  PROVE  before + size <= Largest(n)
<1>1. Largest(n) = Largest(n - 1) + high[n]
  BY LargestNext
<1>2. Largest(n) \in Int /\ Largest(n - 1) \in Int /\ high[n] \in Int
  BY Constants, LargestType, FileSizes
<1> QED
  BY <1>1, <1>2

LEMMA MeasureExact ==
  ASSUME Inv, Exact, Measure
  PROVE  Exact'
<1>1. /\ TypeOK /\ i \in 1..N /\ i \in 1..Last /\ pc = "measure" /\ limit \in Int
      /\ total \in Int /\ total <= Largest(i - 1)
      /\ source[i].size \in Int /\ source[i].size <= high[i]
  <2>1. TypeOK /\ pc = "measure" /\ i <= Last
    BY DEF Inv, Measure
  <2>2. i \in 1..N /\ i \in 1..Last /\ limit \in Int /\ total \in Int
    BY <2>1, Numbers, Constants
  <2>3. source[i].size \in Int /\ source[i].size <= high[i]
    BY <2>1, <2>2, FileSizes DEF Inv, Sizes
  <2> QED
    BY <2>1, <2>2, <2>3 DEF Exact
<1>2. CASE Fail("failed")
  BY <1>2, FailExact
<1>3. CASE /\ source[i].size > limit - total
           /\ pc' = "measure" /\ i' = Last + 1 /\ dst' = dst /\ written' = written /\ Environment
           /\ total' = Wrap(limit + 1)
  <2>1. total + source[i].size > limit
    BY <1>1, <1>3
  <2>2. Largest(Last) > limit
    BY <1>1, <2>1, TooMuch
  <2>3. Last \in 1..N /\ Last \in 0..N /\ MaxInt \in Nat
    BY <1>1, Numbers, Constants
  <2>4. Largest(Last) \in Int
    BY <1>1, <2>3, LargestType
  <2>5. total' <= Largest(Last)
    BY <1>1, <1>3, <2>2, <2>3, <2>4 DEF Wrap
  <2>6. i' - 1 = Last /\ Last' = Last /\ i' <= Last' + 1
    BY <1>3, <2>3 DEF Environment, Last
  <2>7. Largest(i - 1)' = Largest(Last)
    BY <1>3, <2>6 DEF Environment, Largest
  <2> QED
    BY <1>1, <1>3, <2>5, <2>6, <2>7 DEF Exact
<1>4. CASE /\ pc' = "measure" /\ i' = i + 1 /\ dst' = dst /\ written' = written /\ Environment
           /\ \/ total' = total + source[i].size
              \/ total' = total + 0
  <2>1. PICK size \in {0, source[i].size} : total' = total + size
    BY <1>4
  <2>2. size \in Int /\ size <= high[i]
    BY <1>1, <2>1, FileSizes
  <2>3. total + size <= Largest(i)
    BY <1>1, <2>2, StillNoMore
  <2>4. i' - 1 = i /\ Last' = Last /\ i' <= Last' + 1
    BY <1>1, <1>4, Numbers DEF Environment, Last
  <2>5. Largest(i - 1)' = Largest(i)
    BY <1>4, <2>4 DEF Environment, Largest
  <2> QED
    BY <1>1, <1>4, <2>1, <2>3, <2>4, <2>5 DEF Exact
<1>5. limit - total >= 0
  BY <1>1, Numbers DEF Inv, Budget
<1> QED
  BY <1>1, <1>2, <1>3, <1>4, <1>5 DEF Measure, TooLarge

\* The second walk starts with nothing.
LEMMA CopyStartsExact ==
  ASSUME Exact, pc = "measure",
         pc' = "copy" /\ i' = 1 /\ dst' = dst /\ written' = written /\ Environment
  PROVE  Exact'
<1>1. pc' = "copy" /\ i' = 1 /\ dst' = dst /\ written' = 0 /\ \A f \in Files : dst'[f] = None
  BY DEF Exact
<1>2. (SumOver(dst, Held) = written + OpenPart)'
  <2>1. Held' = {}
    BY <1>1 DEF Held
  <2>2. SumOver(dst, Held)' = 0
    <3>1. SumOver(dst, Held)' = SumOver(dst', {})
      BY <2>1
    <3> QED
      BY <3>1, SumEmpty
  <2> QED
    BY <1>1, <2>2 DEF OpenPart
<1>3. (written <= Largest(i - 1))'
  <2>1. Largest(i - 1)' = Largest(0)
    <3>1. i' - 1 = 0 /\ high' = high
      BY <1>1 DEF Environment
    <3> QED
      BY <3>1 DEF Largest
  <2> QED
    BY <1>1, <2>1, LargestZero
<1> QED
  BY <1>1, <1>2, <1>3 DEF Exact

LEMMA MeasuredExact ==
  ASSUME Inv, Inv', Exact, Measured
  PROVE  Exact'
<1>1. CASE total > limit /\ Fail("refused")
  <2>1. pc = "measure" /\ i > Last /\ i <= Last + 1 /\ total <= Largest(i - 1)
    BY DEF Measured, Exact
  <2>2. Last \in Int /\ i \in Int /\ total \in Int /\ limit \in Int /\ Last \in 0..N /\ TypeOK
    BY Numbers, Constants DEF Inv
  <2>3. i - 1 = Last
    BY <2>1, <2>2
  <2>4. Largest(Last) \in Int
    BY <2>2, LargestType
  <2>5. Largest(Last) > limit
    BY <1>1, <2>1, <2>2, <2>3, <2>4
  <2>6. (Largest(Last) > limit)'
    <3>1. Environment
      BY <1>1 DEF Fail
    <3> QED
      BY <2>5, <3>1 DEF Environment, Largest, Last
  <2> QED
    BY <1>1, <2>6, FailExact
<1>2. CASE /\ pc' = "copy" /\ i' = 1
           /\ UNCHANGED <<total, remaining, copied, dst, written>>
           /\ Environment
  BY <1>2, CopyStartsExact DEF Measured
<1> QED
  BY <1>1, <1>2 DEF Measured

LEMMA SkipExact ==
  ASSUME Inv, Exact, Skip
  PROVE  Exact'
<1>1. /\ TypeOK /\ i \in 1..N /\ i - 1 \in 0..N /\ i - 1 <= i /\ i \in 0..N
      /\ pc = "copy" /\ written \in Int
  <2>1. TypeOK /\ pc = "copy" /\ i <= Last
    BY DEF Inv, Skip
  <2> QED
    BY <2>1, Numbers, Constants
<1>2. pc' = "copy" /\ i' = i + 1 /\ dst' = dst /\ written' = written /\ Environment
  BY DEF Skip
<1>3. (SumOver(dst, Held) = written + OpenPart)'
  BY <1>1, <1>2 DEF Exact, Held, OpenPart
<1>4. (written <= Largest(i - 1))'
  <2>1. Largest(i - 1)' = Largest(i)
    <3>1. i' - 1 = i /\ high' = high
      BY <1>1, <1>2 DEF Environment
    <3> QED
      BY <3>1 DEF Largest
  <2>2. Largest(i - 1) <= Largest(i) /\ Largest(i - 1) \in Int /\ Largest(i) \in Int
    BY <1>1, LargestGrows, LargestType
  <2>3. written <= Largest(i - 1)
    BY <1>1 DEF Exact
  <2> QED
    BY <1>1, <1>2, <2>1, <2>2, <2>3
<1>5. (\A f \in Files : f > i \/ (f = i /\ pc # "read") => dst[f] = None)'
  BY <1>1, <1>2 DEF Exact
<1> QED
  BY <1>2, <1>3, <1>4, <1>5 DEF Exact

LEMMA OpenFileExact ==
  ASSUME Inv, Inv', Exact, OpenFile
  PROVE  Exact'
<1>1. TypeOK /\ TypeOK' /\ i \in Files /\ pc = "copy" /\ written \in Int
  <2>1. TypeOK /\ TypeOK' /\ pc = "copy" /\ i <= Last
    BY DEF Inv, OpenFile
  <2> QED
    BY <2>1, Numbers, Constants
<1>2. CASE Fail("failed")
  BY <1>2, FailExact
<1>3. CASE /\ pc' = "read" /\ dst' = [dst EXCEPT ![i] = 0] /\ copied' = 0
           /\ i' = i /\ written' = written /\ Environment
  <2>1. dst \in [Files -> None..(limit + 1)]
    BY <1>1 DEF TypeOK, CopyTypeOK
  <2>2. dst[i] = None /\ dst'[i] = 0 /\ \A f \in Files : f # i => dst'[f] = dst[f]
    BY <1>1, <1>3, <2>1 DEF Exact
  <2>3. SumOver(dst, Held)' = SumOver(dst, Held) + 0 - 0
    BY <1>1, <2>2, OneFile
  <2>4. SumOver(dst, Held) = written
    BY <1>1 DEF Exact, OpenPart
  <2>5. (SumOver(dst, Held) = written + OpenPart)'
    BY <1>1, <1>3, <2>3, <2>4 DEF OpenPart
  <2>6. (written <= Largest(i - 1))'
    BY <1>1, <1>3 DEF Exact, Environment, Largest
  <2>7. (\A f \in Files : f > i \/ (f = i /\ pc # "read") => dst[f] = None)'
    BY <1>1, <1>3, <2>2 DEF Exact
  <2> QED
    BY <1>3, <2>5, <2>6, <2>7 DEF Exact
<1> QED
  BY <1>2, <1>3 DEF OpenFile

LEMMA ReadByteExact ==
  ASSUME Inv, Inv', Exact, ReadByte
  PROVE  Exact'
<1>1. /\ TypeOK /\ TypeOK' /\ i \in Files /\ pc = "read" /\ dst[i] = copied
      /\ written \in Int /\ copied \in Nat
  <2>1. TypeOK /\ TypeOK' /\ pc = "read" /\ i <= Last /\ dst[i] = copied
    BY DEF Inv, Budget, ReadByte
  <2> QED
    BY <2>1, Numbers, Constants
<1>2. /\ pc' = "read" /\ copied' = copied + 1 /\ dst' = [dst EXCEPT ![i] = copied + 1]
      /\ i' = i /\ written' = written /\ Environment
  BY DEF ReadByte
<1>3. dst \in [Files -> None..(limit + 1)]
  BY <1>1 DEF TypeOK, CopyTypeOK
<1>4. dst[i] # None /\ dst'[i] = copied + 1 /\ \A f \in Files : f # i => dst'[f] = dst[f]
  BY <1>1, <1>2, <1>3
<1>5. SumOver(dst, Held)' = SumOver(dst, Held) + (copied + 1) - copied
  <2>1. dst'[i] # None
    BY <1>1, <1>4
  <2> QED
    BY <1>1, <1>4, <2>1, OneFile
<1>6. SumOver(dst, Held) = written + copied
  BY <1>1 DEF Exact, OpenPart
<1>7. (SumOver(dst, Held) = written + OpenPart)'
  BY <1>1, <1>2, <1>5, <1>6 DEF OpenPart
<1>8. (written <= Largest(i - 1))'
  BY <1>1, <1>2 DEF Exact, Environment, Largest
<1>9. (\A f \in Files : f > i \/ (f = i /\ pc # "read") => dst[f] = None)'
  BY <1>1, <1>2, <1>4 DEF Exact
<1> QED
  BY <1>2, <1>7, <1>8, <1>9 DEF Exact

LEMMA EndOfFileExact ==
  ASSUME Inv, Exact, EndOfFile
  PROVE  Exact'
<1>1. /\ TypeOK /\ i \in 1..N /\ i \in 1..Last /\ pc = "read" /\ limit \in Int /\ dst[i] = copied
      /\ written \in Int /\ copied \in Int /\ remaining \in Int /\ copied <= high[i]
      /\ written + remaining = limit
      /\ written <= Largest(i - 1)
  <2>1. TypeOK /\ pc = "read" /\ i <= Last /\ dst[i] = copied /\ copied <= high[i]
        /\ written + remaining = limit
    BY DEF Inv, Budget, Sizes, EndOfFile
  <2> QED
    BY <2>1, Numbers, Constants DEF Exact
<1>2. CASE copied > remaining /\ Fail("refused")
  <2>1. written + copied > limit
    BY <1>1, <1>2
  <2>2. Largest(Last) > limit
    BY <1>1, <2>1, TooMuch
  <2>3. (Largest(Last) > limit)'
    <3>1. Environment
      BY <1>2 DEF Fail
    <3> QED
      BY <2>2, <3>1 DEF Environment, Largest, Last
  <2> QED
    BY <1>2, <2>3, FailExact
<1>3. CASE Copied
  <2>1. i' = i + 1 /\ pc' = "copy" /\ written' = written + copied /\ dst' = dst /\ Environment
    BY <1>3 DEF Copied
  <2>2. written + copied <= Largest(i)
    BY <1>1, StillNoMore
  <2>3. (written <= Largest(i - 1))'
    <3>1. i' - 1 = i /\ high' = high
      BY <1>1, <2>1 DEF Environment
    <3>2. Largest(i - 1)' = Largest(i)
      BY <3>1 DEF Largest
    <3> QED
      BY <2>1, <2>2, <3>2
  <2>4. (SumOver(dst, Held) = written + OpenPart)'
    <3>1. SumOver(dst, Held)' = SumOver(dst, Held)
      BY <2>1 DEF Held
    <3> QED
      BY <1>1, <2>1, <3>1 DEF Exact, OpenPart
  <2>5. (\A f \in Files : f > i \/ (f = i /\ pc # "read") => dst[f] = None)'
    BY <1>1, <2>1 DEF Exact
  <2> QED
    BY <2>1, <2>3, <2>4, <2>5 DEF Exact
<1> QED
  BY <1>2, <1>3 DEF EndOfFile

LEMMA FinishExact ==
  ASSUME Inv, Exact, Finish
  PROVE  Exact'
<1>1. pc = "copy" /\ pc' = "ok" /\ i' = i /\ dst' = dst /\ written' = written /\ Environment
  BY DEF Finish
<1>2. (SumOver(dst, Held) = written + OpenPart)'
  BY <1>1 DEF Exact, Held, OpenPart
<1>3. (written <= Largest(i - 1))'
  BY <1>1 DEF Exact, Environment, Largest
<1>4. (\A f \in Files : f > i \/ (f = i /\ pc # "read") => dst[f] = None)'
  BY <1>1 DEF Exact
<1> QED
  BY <1>1, <1>2, <1>3, <1>4 DEF Exact

LEMMA NextExact == Inv /\ Inv' /\ Exact /\ [Next]_vars => Exact'
<1> SUFFICES ASSUME Inv, Inv', Exact, [Next]_vars PROVE Exact'
  OBVIOUS
<1>1. TypeOK
  BY DEF Inv
<1>2. ASSUME NEW f \in Files, NEW size \in 0..MaxSize, Change(f, size) PROVE Exact'
  <2>1. \A g \in Files : high[g] <= high'[g]
    <3>1. high' = [high EXCEPT ![f] = IF size > @ THEN size ELSE @] /\ size \in Int
      BY <1>2, Constants DEF Change
    <3>2. high \in [Files -> 0..MaxSize] /\ \A g \in Files : high[g] \in Int
      BY <1>1, FileSizes DEF TypeOK, SourceTypeOK
    <3> QED
      BY <3>1, <3>2
  <2> QED
    BY <1>2, <2>1, OwnerExact DEF Change
<1>3. ASSUME NEW f \in Files, Remove(f) PROVE Exact'
  <2>1. \A g \in Files : high[g] <= high'[g]
    BY <1>1, <1>3, FileSizes DEF Remove
  <2> QED
    BY <1>3, <2>1, OwnerExact DEF Remove
<1>4. CASE Step
  BY <1>4, MeasureExact, MeasuredExact, SkipExact, OpenFileExact, ReadByteExact, EndOfFileExact,
     FinishExact DEF Step
<1>5. CASE UNCHANGED vars
  <2>1. OpenPart' = OpenPart /\ SumOver(dst, Held)' = SumOver(dst, Held)
    BY <1>5 DEF vars, OpenPart, Held
  <2>2. Largest(i - 1)' = Largest(i - 1) /\ Largest(Last)' = Largest(Last) /\ Last' = Last
    BY <1>5 DEF vars, Largest, Last
  <2> QED
    BY <1>5, <2>1, <2>2 DEF vars, Exact
<1> QED
  BY <1>2, <1>3, <1>4, <1>5 DEF Next

LEMMA InitExact == Init => Exact
<1> SUFFICES ASSUME Init PROVE Exact
  OBVIOUS
<1>1. pc = "measure" /\ i - 1 = 0 /\ total = 0 /\ written = 0 /\ \A f \in Files : dst[f] = None
  BY DEF Init
<1>2. total <= Largest(i - 1) /\ i <= Last + 1
  BY <1>1, LargestZero, Constants DEF Init, Last
<1> QED
  BY <1>1, <1>2 DEF Exact

\* The limit is exact: what a finished copy takes is what was counted, and what is
\* refused had, with every file at its largest, more than the limit (snapshotSize,
\* copyFile), for any number of files.
THEOREM LimitExact == Spec => []LimitIsExact
<1>1. Inv /\ Exact => LimitIsExact
  <2> SUFFICES ASSUME Inv, Exact PROVE LimitIsExact
    OBVIOUS
  <2>1. OnDisk = SumOver(dst, Held)
    BY DEF OnDisk, SumOver, Held
  <2>2. MapThenSumSet(LAMBDA f : high[f], Walked) = Largest(Last)
    BY DEF Largest, SumOver, Walked
  <2>3. pc = "ok" => OnDisk = written
    <3>1. TypeOK
      BY DEF Inv
    <3> QED
      BY <2>1, <3>1, Numbers DEF Exact, OpenPart
  <2>4. pc = "refused" => MapThenSumSet(LAMBDA f : high[f], Walked) > limit
    BY <2>2 DEF Exact
  <2> QED
    BY <2>3, <2>4 DEF LimitIsExact
<1> QED
  BY <1>1, InitExact, NextExact, AlwaysInv, PTL DEF Spec
=============================================================================
