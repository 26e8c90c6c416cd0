---------------------------- MODULE SnapshotCopy ----------------------------
(***************************************************************************)
(* CreateSnapshot (share/snapshot.go): measure the source, refuse what is  *)
(* too large, then copy it file by file on one budget, while the owner     *)
(* goes on to write, truncate and remove the files.  The files are         *)
(* numbered in the order of the walk.  Sizes are small numbers that stand  *)
(* for bytes; MaxInt stands for the largest 64-bit integer.                *)
(***************************************************************************)
EXTENDS Integers, FiniteSets, FiniteSetsExt

CONSTANTS
    N,           \* number of files of a directory
    MaxSize,     \* the largest file
    Limits,      \* values of --snapshot-max-bytes (zero is replaced by a default)
    MaxInt,
    MaxChanges   \* bound: changes of the source during the copy

ASSUME CopyAssumption ==
    /\ N \in Nat \ {0}
    /\ {MaxSize, MaxInt, MaxChanges} \subseteq Nat
    /\ Limits \subseteq 1..MaxInt

Files == 1..N
None == -1

VARIABLES
    source,     \* kind and size of each file; one that is removed is "gone"
    low, high,  \* history: the smallest and the largest size since the copy began
    changes,    \* changes so far
    isDir,      \* a directory is copied, or its first file alone
    limit,      \* the configured limit
    pc,         \* measure, copy, read (a file is open), ok, refused, failed
    i,          \* the file of the walk
    listed,     \* the files the walk has found in the directory
    total,      \* what has been measured
    remaining,  \* what is left of the budget
    copied,     \* bytes of the open file so far
    dst,        \* the copy: size of each file, None if there is none
    written     \* history: bytes of the files that are copied

vars == <<source, low, high, changes, isDir, limit, pc, i, listed, total, remaining, copied, dst, written>>

Kinds == {"regular", "link", "fifo", "gone"}

Init ==
    /\ isDir \in BOOLEAN
    /\ source \in [Files -> [kind : Kinds \ {"gone"}, size : 0..MaxSize]]
    /\ \A f \in Files : source[f].kind # "regular" => source[f].size = 0
    /\ ~isDir => source[1].kind # "link"
    /\ low = [f \in Files |-> source[f].size]
    /\ high = low
    /\ changes = 0
    /\ limit \in Limits
    /\ pc = "measure" /\ i = 1 /\ listed = Files /\ total = 0 /\ remaining = limit /\ copied = 0
    /\ dst = [f \in Files |-> None]
    /\ written = 0

Last == IF isDir THEN N ELSE 1
Running == pc \in {"measure", "copy", "read"}

\* The owner writes or truncates a file.
Change(f, size) ==
    /\ Running /\ changes < MaxChanges
    /\ source[f].kind = "regular" /\ source[f].size # size
    /\ source' = [source EXCEPT ![f].size = size]
    /\ low' = [low EXCEPT ![f] = IF size < @ THEN size ELSE @]
    /\ high' = [high EXCEPT ![f] = IF size > @ THEN size ELSE @]
    /\ changes' = changes + 1
    /\ UNCHANGED <<isDir, limit, pc, i, listed, total, remaining, copied, dst, written>>

\* The owner removes a file.  Who has it open can still read it.
Remove(f) ==
    /\ Running /\ changes < MaxChanges
    /\ source[f].kind = "regular"
    /\ source' = [source EXCEPT ![f].kind = "gone"]
    /\ changes' = changes + 1
    /\ UNCHANGED <<low, high, isDir, limit, pc, i, listed, total, remaining, copied, dst, written>>

Environment == UNCHANGED <<source, low, high, changes, isDir, limit>>

\* A failure removes what is copied so far.
Fail(result) ==
    /\ pc' = result
    /\ dst' = [f \in Files |-> None]
    /\ written' = 0
    /\ UNCHANGED <<i, listed, total, remaining, copied>>
    /\ Environment

\* Integers of 64 bits wrap.
Wrap(n) == IF n > MaxInt THEN n - 2 * (MaxInt + 1) ELSE n

\* Slip: a directory of exactly the limit is too large.
TooLargeAtLimit(size) == isDir /\ size >= limit - total

TooLarge(size) == isDir /\ size > limit - total

\* snapshotSize: one entry of the walk.  A file that is gone since its directory was
\* read ends the walk with an error, one too many for the limit ends it with a size
\* above the limit, and links and special files do not count.  The size of a file that
\* is shared alone is returned as it is.
Measure ==
    /\ pc = "measure" /\ i <= Last
    /\ LET file == source[i]
           size == IF file.kind = "regular" THEN file.size ELSE 0 IN
        IF file.kind = "gone" \/ (~isDir /\ file.kind # "regular") THEN Fail("failed")
        ELSE /\ IF TooLarge(size)
                THEN total' = Wrap(limit + 1) /\ i' = Last + 1
                ELSE total' = total + size /\ i' = i + 1
             /\ UNCHANGED <<pc, listed, remaining, copied, dst, written>>
             /\ Environment

\* CreateSnapshot compares the size with the limit and starts the second walk.
Measured ==
    /\ pc = "measure" /\ i > Last
    /\ IF total > limit THEN Fail("refused")
       ELSE /\ pc' = "copy" /\ i' = 1
            /\ listed' = IF isDir THEN {f \in Files : source[f].kind # "gone"} ELSE Files
            /\ UNCHANGED <<total, remaining, copied, dst, written>>
            /\ Environment

\* copyTree: links are left out, and so is what the second walk has not found.
Skip ==
    /\ pc = "copy" /\ i <= Last
    /\ i \notin listed \/ source[i].kind = "link"
    /\ i' = i + 1
    /\ UNCHANGED <<pc, listed, total, remaining, copied, dst, written>>
    /\ Environment

\* Whatever else is no directory is opened, and the open of a named pipe waits for a
\* writer.
OpenFile ==
    /\ pc = "copy" /\ i <= Last
    /\ i \in listed /\ source[i].kind \notin {"link", "fifo"}
    /\ IF source[i].kind = "gone" THEN Fail("failed")
       ELSE /\ pc' = "read"
            /\ dst' = [dst EXCEPT ![i] = 0]
            /\ copied' = 0
            /\ UNCHANGED <<i, listed, total, remaining, written>>
            /\ Environment

\* Slip: the reader stops at the budget and cannot see that there is more.
ReadableToBudget == remaining

\* One byte more than the budget, to tell a file that fits from one that does not.
Readable == Wrap(remaining + 1)

AtEnd == copied >= source[i].size

ReadByte ==
    /\ pc = "read"
    /\ copied < Readable /\ ~AtEnd
    /\ copied' = copied + 1
    /\ dst' = [dst EXCEPT ![i] = copied + 1]
    /\ UNCHANGED <<pc, i, listed, total, remaining, written>>
    /\ Environment

\* Slip: every file has the whole budget.
CopiedKeepsBudget ==
    /\ i' = i + 1 /\ pc' = "copy"
    /\ written' = written + copied
    /\ UNCHANGED <<listed, total, remaining, copied, dst>>
    /\ Environment

Copied ==
    /\ i' = i + 1 /\ pc' = "copy"
    /\ remaining' = remaining - copied
    /\ written' = written + copied
    /\ UNCHANGED <<listed, total, copied, dst>>
    /\ Environment

\* Slip: one byte too many is not looked for.
EndOfFileUnchecked ==
    /\ pc = "read"
    /\ copied >= Readable \/ AtEnd
    /\ Copied

\* Slip: a file that ends early is waited for.
EndOfFileWaits ==
    /\ pc = "read"
    /\ copied >= Readable
    /\ IF copied > remaining THEN Fail("refused") ELSE Copied

\* The source or the limit of the reader has come to its end.
EndOfFile ==
    /\ pc = "read"
    /\ copied >= Readable \/ AtEnd
    /\ IF copied > remaining THEN Fail("refused") ELSE Copied

\* CreateSnapshot returns the copy.
Finish ==
    /\ pc = "copy" /\ i > Last
    /\ pc' = "ok"
    /\ UNCHANGED <<i, listed, total, remaining, copied, dst, written>>
    /\ Environment

Step == Measure \/ Measured \/ Skip \/ OpenFile \/ ReadByte \/ EndOfFile \/ Finish

Next ==
    \/ \E f \in Files, size \in 0..MaxSize : Change(f, size)
    \/ \E f \in Files : Remove(f)
    \/ Step

Spec == Init /\ [][Next]_vars

\* The handler that copies is a goroutine of a running process.
FairSpec == Spec /\ WF_vars(Step)

-----------------------------------------------------------------------------
SourceTypeOK ==
    /\ source \in [Files -> [kind : Kinds, size : 0..MaxSize]]
    /\ low \in [Files -> 0..MaxSize] /\ high \in [Files -> 0..MaxSize]
    /\ changes \in 0..MaxChanges
    /\ isDir \in BOOLEAN /\ limit \in Limits

CopyTypeOK ==
    /\ pc \in {"measure", "copy", "read", "ok", "refused", "failed"}
    /\ i \in 1..(N + 1) /\ listed \subseteq Files
    /\ total \in 0..limit \cup (IF isDir THEN {Wrap(limit + 1)} ELSE 0..MaxSize)
    /\ remaining \in 0..limit /\ copied \in 0..(limit + 1)
    /\ dst \in [Files -> None..(limit + 1)]
    /\ written \in Nat

\* The budget is never negative, and no more than one byte above it is ever read.
TypeOK == SourceTypeOK /\ CopyTypeOK

\* Whatever the owner does to the source, the files of the copy together never take
\* more than the limit, but for one byte of a file that will be refused.
BudgetKept ==
    /\ pc \in {"copy", "ok"} => written <= limit
    /\ pc = "read" => written + copied <= limit + 1

OnDisk == MapThenSumSet(LAMBDA f : dst[f], {f \in Files : dst[f] # None})
Walked == 1..Last
Unchanged(f) == source[f].kind = "regular" /\ low[f] = high[f]

\* A copy that succeeds has every file that nobody touched in full length, and one
\* that does not succeed leaves nothing; unless the limit is the largest integer,
\* where one byte more than the budget is none.
CompleteUnlessWrapped ==
    /\ pc = "ok" /\ limit < MaxInt =>
          \A f \in Walked : Unchanged(f) => dst[f] = source[f].size
    /\ pc \in {"refused", "failed"} => \A f \in Files : dst[f] = None

\* The limit is exact: what is on disk is what the budget has counted, and what is
\* refused had, with every file at its largest, more than the limit.
LimitIsExact ==
    /\ pc = "ok" => OnDisk = written
    /\ pc = "refused" => MapThenSumSet(LAMBDA f : high[f], Walked) > limit

\* The handler that copies comes to an end, unless there is a named pipe on its way.
EndsUnlessPipe == <>(~Running \/ \E f \in Walked : source[f].kind = "fifo")

=============================================================================
