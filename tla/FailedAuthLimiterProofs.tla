------------------------ MODULE FailedAuthLimiterProofs ------------------------
(***************************************************************************)
(* Proofs about FailedAuthLimiter, for every set of addresses, every finite *)
(* set of request slots, every limit and every window.                      *)
(***************************************************************************)
EXTENDS FailedAuthLimiter, FiniteSetTheorems, TLAPS

\* Every state is well typed.
THEOREM TypeCorrect == Spec => []TypeOK
<1>1. Init => TypeOK
  BY LimiterAssumption DEF Init, TypeOK, NoEntry, Idle
<1>2. TypeOK /\ [Next]_vars => TypeOK'
  <2> SUFFICES ASSUME TypeOK, [Next]_vars PROVE TypeOK'
    OBVIOUS
  <2> USE LimiterAssumption
  <2>1. ASSUME NEW r \in Requests, NEW ip \in IPs, Ask(r, ip) PROVE TypeOK'
    BY <2>1 DEF TypeOK, Ask
  <2>2. ASSUME NEW r \in Requests, Allow(r) PROVE TypeOK'
    BY <2>2 DEF TypeOK, Allow, NoEntry, Idle
  <2>3. ASSUME NEW r \in Requests, Pass(r) PROVE TypeOK'
    BY <2>3 DEF TypeOK, Pass, Idle
  <2>4. ASSUME NEW r \in Requests, Fail(r) PROVE TypeOK'
    BY <2>4 DEF TypeOK, Fail
  <2>5. ASSUME NEW r \in Requests, RecordFailure(r) PROVE TypeOK'
    <3> DEFINE ip == req[r].ip
               entry == Current(ip, req[r].now)
    <3>1. ip \in IPs
      BY <2>5 DEF TypeOK, RecordFailure
    <3>2. entry \in [count : Nat, expiresAt : Nat]
      BY <3>1 DEF TypeOK, Current
    <3>3. entries' = [entries EXCEPT ![ip] = [entry EXCEPT !.count = @ + 1]]
      BY <2>5 DEF RecordFailure
    <3>4. entries' \in [IPs -> [count : Nat, expiresAt : Nat]]
      <4> HIDE DEF entry, ip
      <4>1. [entry EXCEPT !.count = @ + 1] \in [count : Nat, expiresAt : Nat]
        BY <3>2
      <4>2. QED
        BY <3>1, <3>3, <4>1 DEF TypeOK
    <3>5. log' \in [IPs -> Seq(Nat)]
      BY <2>5, <3>1 DEF TypeOK, RecordFailure
    <3>6. QED
      BY <2>5, <3>4, <3>5 DEF TypeOK, RecordFailure, Idle
  <2>6. CASE Cleanup
    BY <2>6 DEF TypeOK, Cleanup, NoEntry
  <2>7. CASE Tick
    BY <2>7 DEF TypeOK, Tick
  <2>8. CASE UNCHANGED vars
    BY <2>8 DEF TypeOK, vars
  <2>9. QED
    BY <2>1, <2>2, <2>3, <2>4, <2>5, <2>6, <2>7, <2>8 DEF Next
<1>3. QED
  BY <1>1, <1>2, PTL DEF Spec

-----------------------------------------------------------------------------
\* What has been counted and what may still be counted, together: a request is
\* let in only below the limit, and it moves from the one to the other.
CountInv ==
    \A ip \in IPs :
        entries[ip].count + Cardinality(Pending(ip)) <= Limit - 1 + Cardinality(Requests)

LEMMA PendingFinite ==
    ASSUME NEW ip
    PROVE  /\ IsFiniteSet(Pending(ip))
           /\ Cardinality(Pending(ip)) \in Nat
           /\ Cardinality(Pending(ip)) <= Cardinality(Requests)
           /\ Cardinality(Requests) \in Nat
<1>1. Pending(ip) \in SUBSET Requests
  BY DEF Pending
<1>2. QED
  BY <1>1, LimiterAssumption, FS_Subset, FS_CardinalityType

\* A step after which no entry counts more and no more requests are pending
\* keeps the bound.
LEMMA CountKept ==
    ASSUME TypeOK, TypeOK', CountInv,
           \A ip \in IPs : entries'[ip].count <= entries[ip].count /\ Pending(ip)' \subseteq Pending(ip)
    PROVE  CountInv'
<1> SUFFICES ASSUME NEW ip \in IPs
             PROVE  entries'[ip].count + Cardinality(Pending(ip)') <= Limit - 1 + Cardinality(Requests)
  BY DEF CountInv, Pending
<1>1. /\ Cardinality(Pending(ip)') \in Nat
      /\ Cardinality(Pending(ip)') <= Cardinality(Pending(ip))
  BY PendingFinite, FS_Subset, FS_CardinalityType
<1>2. entries[ip].count + Cardinality(Pending(ip)) <= Limit - 1 + Cardinality(Requests)
  BY DEF CountInv
<1>3. entries[ip].count \in Nat /\ entries'[ip].count \in Nat
  BY DEF TypeOK
<1>4. QED
  BY <1>1, <1>2, <1>3, PendingFinite, LimiterAssumption

\* The check of Allow and the count of RecordFailure are apart, and still one
\* window counts at most Limit - 1 failures and one for each slot.
THEOREM CountBounded == Spec => []FailuresBounded
<1>1. Init => CountInv
  <2> SUFFICES ASSUME Init, NEW ip \in IPs
               PROVE  entries[ip].count + Cardinality(Pending(ip)) <= Limit - 1 + Cardinality(Requests)
    BY DEF CountInv
  <2>1. entries[ip].count = 0 /\ Pending(ip) = {}
    BY DEF Init, NoEntry, Idle, Pending
  <2>2. QED
    BY <2>1, PendingFinite, FS_EmptySet, LimiterAssumption
<1>2. TypeOK /\ TypeOK' /\ CountInv /\ [Next]_vars => CountInv'
  <2> SUFFICES ASSUME TypeOK, TypeOK', CountInv, [Next]_vars PROVE CountInv'
    OBVIOUS
  <2>1. ASSUME NEW r \in Requests, NEW ip \in IPs, Ask(r, ip) PROVE CountInv'
    BY <2>1, CountKept DEF Ask, Pending, TypeOK
  <2>2. ASSUME NEW r \in Requests, Allow(r) PROVE CountInv'
    <3> SUFFICES ASSUME NEW ip \in IPs
                 PROVE  entries'[ip].count + Cardinality(Pending(ip)') <= Limit - 1 + Cardinality(Requests)
      BY DEF CountInv, Pending
    <3> DEFINE admitted == Expired(req[r].ip, req[r].now) \/ entries[req[r].ip].count < Limit
    <3>1. CASE ip = req[r].ip /\ admitted
      <4>1. entries'[ip].count <= Limit - 1 /\ entries'[ip].count \in Nat
        BY <2>2, <3>1, LimiterAssumption DEF Allow, TypeOK, NoEntry
      <4>2. Pending(ip)' \in SUBSET Requests
        BY DEF Pending
      <4>3. Cardinality(Pending(ip)') \in Nat /\ Cardinality(Pending(ip)') <= Cardinality(Requests)
        BY <4>2, LimiterAssumption, FS_Subset, FS_CardinalityType
      <4>4. QED
        BY <4>1, <4>3, PendingFinite, LimiterAssumption
    <3>2. CASE ~(ip = req[r].ip /\ admitted)
      <4>1. entries'[ip] = entries[ip]
        BY <2>2, <3>2 DEF Allow, TypeOK
      <4>2. Pending(ip)' = Pending(ip)
        BY <2>2, <3>2 DEF Allow, Pending, TypeOK, Idle
      <4>3. QED
        BY <4>1, <4>2 DEF CountInv
    <3>3. QED
      BY <3>1, <3>2
  <2>3. ASSUME NEW r \in Requests, Pass(r) PROVE CountInv'
    BY <2>3, CountKept DEF Pass, Pending, TypeOK, Idle
  <2>4. ASSUME NEW r \in Requests, Fail(r) PROVE CountInv'
    <3>1. UNCHANGED entries /\ \A ip \in IPs : Pending(ip)' = Pending(ip)
      BY <2>4 DEF Fail, Pending, TypeOK
    <3>2. QED
      BY <3>1, CountKept DEF TypeOK
  <2>5. ASSUME NEW r \in Requests, RecordFailure(r) PROVE CountInv'
    <3> SUFFICES ASSUME NEW ip \in IPs
                 PROVE  entries'[ip].count + Cardinality(Pending(ip)') <= Limit - 1 + Cardinality(Requests)
      BY DEF CountInv, Pending
    <3>1. CASE ip = req[r].ip
      <4>1. entries'[ip].count = Current(ip, req[r].now).count + 1
        BY <2>5, <3>1 DEF RecordFailure, TypeOK, Current
      <4>2. entries'[ip].count \in Nat /\ entries'[ip].count <= entries[ip].count + 1
        BY <4>1 DEF Current, TypeOK
      <4>3. r \in Pending(ip) /\ Pending(ip)' = Pending(ip) \ {r}
        BY <2>5, <3>1 DEF RecordFailure, TypeOK, Pending, Idle
      <4>4. Cardinality(Pending(ip)') = Cardinality(Pending(ip)) - 1
        BY <4>3, PendingFinite, FS_RemoveElement
      <4>5. entries[ip].count + Cardinality(Pending(ip)) <= Limit - 1 + Cardinality(Requests)
        BY DEF CountInv
      <4>6. entries[ip].count \in Nat
        BY DEF TypeOK
      <4>7. QED
        BY <4>2, <4>4, <4>5, <4>6, PendingFinite, LimiterAssumption
    <3>2. CASE ip # req[r].ip
      <4>1. entries'[ip] = entries[ip] /\ Pending(ip)' = Pending(ip)
        BY <2>5, <3>2 DEF RecordFailure, TypeOK, Pending, Idle
      <4>2. QED
        BY <4>1 DEF CountInv
    <3>3. QED
      BY <3>1, <3>2
  <2>6. CASE Cleanup
    BY <2>6, CountKept DEF Cleanup, Pending, TypeOK, NoEntry
  <2>7. CASE Tick
    BY <2>7, CountKept DEF Tick, Pending, TypeOK
  <2>8. CASE UNCHANGED vars
    BY <2>8, CountKept DEF vars, Pending, TypeOK
  <2>9. QED
    BY <2>1, <2>2, <2>3, <2>4, <2>5, <2>6, <2>7, <2>8 DEF Next
<1>3. TypeOK /\ CountInv => FailuresBounded
  <2> SUFFICES ASSUME TypeOK, CountInv, NEW ip \in IPs
               PROVE  entries[ip].count <= Limit - 1 + Cardinality(Requests)
    BY DEF FailuresBounded
  <2>1. entries[ip].count \in Nat
    BY DEF TypeOK
  <2>2. QED
    BY <2>1, PendingFinite, LimiterAssumption DEF CountInv
<1>4. QED
  BY <1>1, <1>2, <1>3, TypeCorrect, PTL DEF Spec

-----------------------------------------------------------------------------
\* A call is given a time that has been, and no entry ends later than a window
\* begun now.
NowInv ==
    /\ \A r \in Requests : req[r].now <= clock
    /\ \A ip \in IPs : entries[ip].expiresAt <= clock + Window

\* The failures an entry counts are the last ones of the log, and the entry
\* ends at most one window after each of them.
CountedLast(ip) ==
    /\ entries[ip].count <= Len(log[ip])
    /\ \A k \in (Len(log[ip]) - entries[ip].count + 1)..Len(log[ip]) :
          log[ip][k] + Window >= entries[ip].expiresAt

RecentInv == NowInv /\ \A ip \in IPs : CountedLast(ip)

\* A step that keeps an entry and its log, or drops the entry, keeps its part.
LEMMA CountedKept ==
    ASSUME TypeOK, NEW ip \in IPs, CountedLast(ip), log'[ip] = log[ip],
           entries'[ip] = entries[ip] \/ entries'[ip] = NoEntry
    PROVE  CountedLast(ip)'
  BY DEF TypeOK, CountedLast, NoEntry

LEMMA RecentInductive == Spec => []RecentInv
<1>1. Init => RecentInv
  BY LimiterAssumption DEF Init, RecentInv, NowInv, CountedLast, NoEntry, Idle
<1>2. TypeOK /\ TypeOK' /\ RecentInv /\ [Next]_vars => RecentInv'
  <2> SUFFICES ASSUME TypeOK, TypeOK', RecentInv, [Next]_vars
               PROVE  NowInv' /\ \A ip \in IPs : CountedLast(ip)'
    BY DEF RecentInv
  <2>1. NowInv /\ \A ip \in IPs : CountedLast(ip)
    BY DEF RecentInv
  <2>2. NowInv'
    <3> USE LimiterAssumption DEF NowInv, TypeOK, Idle, NoEntry
    <3>1. ASSUME NEW r \in Requests, NEW ip \in IPs, Ask(r, ip) PROVE NowInv'
      BY <2>1, <3>1 DEF Ask
    <3>2. ASSUME NEW r \in Requests, Allow(r) PROVE NowInv'
      BY <2>1, <3>2 DEF Allow
    <3>3. ASSUME NEW r \in Requests, Pass(r) \/ Fail(r) PROVE NowInv'
      <4>1. CASE Pass(r)
        BY <2>1, <4>1 DEF Pass
      <4>2. CASE Fail(r)
        BY <2>1, <4>2 DEF Fail
      <4>3. QED
        BY <3>3, <4>1, <4>2
    <3>4. ASSUME NEW r \in Requests, RecordFailure(r) PROVE NowInv'
      BY <2>1, <3>4 DEF RecordFailure, Current
    <3>5. CASE Cleanup
      BY <2>1, <3>5 DEF Cleanup
    <3>6. CASE Tick \/ UNCHANGED vars
      BY <2>1, <3>6 DEF Tick, vars
    <3>7. QED
      BY <3>1, <3>2, <3>3, <3>4, <3>5, <3>6 DEF Next
  <2>3. ASSUME NEW ip \in IPs PROVE CountedLast(ip)'
    <3>1. ASSUME NEW r \in Requests, NEW ip2 \in IPs, Ask(r, ip2) PROVE CountedLast(ip)'
      BY <2>1, <3>1, CountedKept DEF Ask
    <3>2. ASSUME NEW r \in Requests, Allow(r) PROVE CountedLast(ip)'
      BY <2>1, <3>2, CountedKept DEF Allow, TypeOK
    <3>3. ASSUME NEW r \in Requests, Pass(r) \/ Fail(r) PROVE CountedLast(ip)'
      BY <2>1, <3>3, CountedKept DEF Pass, Fail
    <3>4. ASSUME NEW r \in Requests, RecordFailure(r), ip # req[r].ip PROVE CountedLast(ip)'
      BY <2>1, <3>4, CountedKept DEF RecordFailure, TypeOK
    <3>5. ASSUME NEW r \in Requests, RecordFailure(r), ip = req[r].ip PROVE CountedLast(ip)'
      <4> DEFINE entry == Current(ip, req[r].now)
                 n == Len(log[ip])
      <4>1. log[ip] \in Seq(Nat) /\ n \in Nat /\ req[r].now \in Nat /\ clock \in Nat
        BY DEF TypeOK
      <4>2. entry.count \in Nat /\ entry.expiresAt \in Nat
        BY <4>1, LimiterAssumption DEF TypeOK, Current
      <4>3. entries'[ip].count = entry.count + 1 /\ entries'[ip].expiresAt = entry.expiresAt
        BY <3>5 DEF RecordFailure, TypeOK, Current
      <4>4. log'[ip] = Append(log[ip], clock)
        BY <3>5 DEF RecordFailure, TypeOK
      <4>5. /\ entry.count <= n
            /\ \A k \in (n - entry.count + 1)..n : log[ip][k] + Window >= entry.expiresAt
        BY <2>1, <4>1 DEF Current, CountedLast
      <4>6. entry.expiresAt <= clock + Window
        BY <2>1, <4>1, LimiterAssumption DEF NowInv, Current
      <4>7. QED
        <5>1. Len(log'[ip]) = n + 1
          BY <4>1, <4>4
        <5>2. \A k \in 1..n : log'[ip][k] = log[ip][k]
          BY <4>1, <4>4
        <5>3. log'[ip][n + 1] = clock
          BY <4>1, <4>4
        <5>4. ASSUME NEW k \in (n + 1 - (entry.count + 1) + 1)..(n + 1)
              PROVE  log'[ip][k] + Window >= entry.expiresAt
          <6> HIDE DEF entry, n
          <6>1. CASE k = n + 1
            BY <4>1, <4>2, <4>6, <5>3, <6>1, LimiterAssumption
          <6>2. CASE k # n + 1
            <7>1. k \in (n - entry.count + 1)..n /\ k \in 1..n
              BY <4>1, <4>2, <4>5, <6>2
            <7>2. QED
              BY <4>5, <5>2, <7>1
          <6>3. QED
            BY <6>1, <6>2
        <5>5. entry.count + 1 <= n + 1
          <6> HIDE DEF entry, n
          <6> QED BY <4>1, <4>2, <4>5
        <5>6. entries'[ip].count <= Len(log'[ip])
          <6> HIDE DEF entry, n
          <6> QED BY <4>3, <5>1, <5>5
        <5>7. \A k \in (Len(log'[ip]) - entries'[ip].count + 1)..Len(log'[ip]) :
                 log'[ip][k] + Window >= entries'[ip].expiresAt
          <6> HIDE DEF entry, n
          <6> QED BY <4>1, <4>2, <4>3, <5>1, <5>4
        <5>8. QED
          BY <5>6, <5>7 DEF CountedLast
    <3>6. ASSUME Cleanup PROVE CountedLast(ip)'
      BY <2>1, <3>6, CountedKept DEF Cleanup
    <3>7. CASE Tick \/ UNCHANGED vars
      BY <2>1, <3>7, CountedKept DEF Tick, vars
    <3>8. QED
      BY <3>1, <3>2, <3>3, <3>4, <3>5, <3>6, <3>7 DEF Next
  <2>4. QED
    BY <2>2, <2>3
<1>3. QED
  BY <1>1, <1>2, TypeCorrect, PTL DEF Spec

\* An address is blocked only for failures of the last window.
THEOREM BlockJustified == Spec => []BlockedOnlyForRecentFailures
<1>1. TypeOK /\ RecentInv => BlockedOnlyForRecentFailures
  <2> SUFFICES ASSUME TypeOK, RecentInv, NEW ip \in IPs, Blocked(ip)
               PROVE  /\ Len(log[ip]) >= Limit
                      /\ \A k \in (Len(log[ip]) - Limit + 1)..Len(log[ip]) : log[ip][k] + Window > clock
    BY DEF BlockedOnlyForRecentFailures
  <2>1. CountedLast(ip) /\ entries[ip].count >= Limit /\ clock < entries[ip].expiresAt
    BY DEF RecentInv, Blocked, Expired, TypeOK
  <2>2. entries[ip].count \in Nat /\ Len(log[ip]) \in Nat /\ clock \in Nat
    BY DEF TypeOK
  <2>3. entries[ip].expiresAt \in Nat /\ \A k \in 1..Len(log[ip]) : log[ip][k] \in Nat
    BY DEF TypeOK
  <2>4. Len(log[ip]) >= Limit
    BY <2>1, <2>2, LimiterAssumption DEF CountedLast
  <2>5. ASSUME NEW k \in (Len(log[ip]) - Limit + 1)..Len(log[ip])
        PROVE  log[ip][k] + Window > clock
    <3>1. k \in (Len(log[ip]) - entries[ip].count + 1)..Len(log[ip]) /\ k \in 1..Len(log[ip])
      BY <2>1, <2>2, <2>4, LimiterAssumption
    <3>2. log[ip][k] + Window >= entries[ip].expiresAt
      BY <2>1, <3>1 DEF CountedLast
    <3>3. QED
      BY <2>1, <2>2, <2>3, <3>1, <3>2, LimiterAssumption
  <2>6. QED
    BY <2>4, <2>5
<1>2. QED
  BY <1>1, TypeCorrect, RecentInductive, PTL

\* Until its window ends a blocked address stays blocked, and the end stays put.
THEOREM BlockStands == Spec => BlockHolds
<1> DEFINE Stands(ip) == Blocked(ip) /\ clock' < entries[ip].expiresAt
                           => Blocked(ip)' /\ entries'[ip].expiresAt = entries[ip].expiresAt
<1>1. TypeOK /\ TypeOK' /\ RecentInv /\ [Next]_vars => [\A ip \in IPs : Stands(ip)]_vars
  <2> SUFFICES ASSUME TypeOK, TypeOK', NowInv, [Next]_vars, NEW ip \in IPs,
                      Blocked(ip), clock' < entries[ip].expiresAt
               PROVE  Blocked(ip)' /\ entries'[ip].expiresAt = entries[ip].expiresAt
    BY DEF RecentInv
  <2> USE LimiterAssumption DEF Blocked, Expired, TypeOK
  <2>1. ASSUME NEW r \in Requests, NEW ip2 \in IPs, Ask(r, ip2)
        PROVE  Blocked(ip)' /\ entries'[ip].expiresAt = entries[ip].expiresAt
    BY <2>1 DEF Ask
  <2>2. ASSUME NEW r \in Requests, Allow(r)
        PROVE  Blocked(ip)' /\ entries'[ip].expiresAt = entries[ip].expiresAt
    <3>1. req[r].now <= clock /\ clock' = clock
      BY <2>2 DEF NowInv, Allow
    <3>2. entries'[ip] = entries[ip]
      BY <2>2, <3>1 DEF Allow
    <3>3. QED
      BY <3>1, <3>2
  <2>3. ASSUME NEW r \in Requests, Pass(r) \/ Fail(r)
        PROVE  Blocked(ip)' /\ entries'[ip].expiresAt = entries[ip].expiresAt
    BY <2>3 DEF Pass, Fail
  <2>4. ASSUME NEW r \in Requests, RecordFailure(r)
        PROVE  Blocked(ip)' /\ entries'[ip].expiresAt = entries[ip].expiresAt
    <3>1. req[r].now <= clock /\ clock' = clock
      BY <2>4 DEF NowInv, RecordFailure
    <3>2. CASE req[r].ip = ip
      <4>1. Current(ip, req[r].now) = entries[ip]
        BY <3>1 DEF Current
      <4>2. entries'[ip].count = entries[ip].count + 1 /\ entries'[ip].expiresAt = entries[ip].expiresAt
        BY <2>4, <3>2, <4>1 DEF RecordFailure
      <4>3. QED
        BY <3>1, <4>2
    <3>3. CASE req[r].ip # ip
      BY <2>4, <3>1, <3>3 DEF RecordFailure
    <3>4. QED
      BY <3>2, <3>3
  <2>5. CASE Cleanup
    BY <2>5 DEF Cleanup
  <2>6. CASE Tick \/ UNCHANGED vars
    BY <2>6 DEF Tick, vars
  <2>7. QED
    BY <2>1, <2>2, <2>3, <2>4, <2>5, <2>6 DEF Next
<1>2. QED
  BY <1>1, TypeCorrect, RecentInductive, PTL DEF Spec, BlockHolds

=============================================================================
