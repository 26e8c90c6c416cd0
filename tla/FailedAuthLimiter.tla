--------------------------- MODULE FailedAuthLimiter ---------------------------
(***************************************************************************)
(* share/failed_auth_limiter.go: the limiter of failed authentications that *)
(* the public and the loopback listener share.                              *)
(*                                                                         *)
(* A request asks Allow before its handler runs and calls RecordFailure     *)
(* after the handler answered 401.  Each call holds the mutex, but the two  *)
(* calls of one request are apart, and the time a call is given is read     *)
(* before it waits for the mutex.                                           *)
(***************************************************************************)
EXTENDS Integers, Sequences, FiniteSets

CONSTANTS
    IPs,                \* remote addresses
    NoIP,               \* of a slot no request uses
    Requests,           \* slots for the requests in flight
    Limit,              \* failures a window takes before the address is blocked
    Window,             \* length of a window
    MaxClock            \* bound: the last instant

ASSUME LimiterAssumption ==
    /\ NoIP \notin IPs
    /\ IsFiniteSet(Requests)
    /\ Limit \in Nat \ {0}
    /\ Window \in Nat \ {0}
    /\ MaxClock \in Nat

VARIABLES
    clock,
    entries,            \* entries[ip]; a count of 0 is an address without an entry
    req,                \* req[r]: the request in slot r, and the time it has read
    log                 \* history: log[ip], the instants at which failures were recorded

vars == <<clock, entries, req, log>>

NoEntry == [count |-> 0, expiresAt |-> 0]
Idle == [pc |-> "idle", ip |-> NoIP, now |-> 0]

TypeOK ==
    /\ clock \in Nat
    /\ entries \in [IPs -> [count : Nat, expiresAt : Nat]]
    /\ req \in [Requests -> [pc : {"idle", "asks", "allowed", "failed"}, ip : IPs \cup {NoIP}, now : Nat]]
    /\ \A r \in Requests : req[r].pc # "idle" => req[r].ip \in IPs
    /\ log \in [IPs -> Seq(Nat)]

Init ==
    /\ clock = 0
    /\ entries = [ip \in IPs |-> NoEntry]
    /\ req = [r \in Requests |-> Idle]
    /\ log = [ip \in IPs |-> <<>>]

Expired(ip, now) == now >= entries[ip].expiresAt

-----------------------------------------------------------------------------

\* Slip: the address of the request is not found.
AskWithoutAddress(r, ip) ==
    /\ req[r].pc = "idle"
    /\ req' = [req EXCEPT ![r] = [pc |-> "asks", ip |-> NoIP, now |-> clock]]
    /\ UNCHANGED <<clock, entries, log>>

\* failedAuthRateLimit, on a path under /s/ or /r/: the time for Allow is read.
Ask(r, ip) ==
    /\ req[r].pc = "idle"
    /\ req' = [req EXCEPT ![r] = [pc |-> "asks", ip |-> ip, now |-> clock]]
    /\ UNCHANGED <<clock, entries, log>>

\* Slip: count <= limit.
AllowOneMore(r) ==
    /\ req[r].pc = "asks"
    /\ LET ip == req[r].ip
           expired == Expired(ip, req[r].now)
       IN /\ entries' = IF expired THEN [entries EXCEPT ![ip] = NoEntry] ELSE entries
          /\ req' = [req EXCEPT ![r] = IF expired \/ entries[ip].count <= Limit
                                       THEN [@ EXCEPT !.pc = "allowed"] ELSE Idle]
    /\ UNCHANGED <<clock, log>>

\* Allow: an entry past its time is deleted.  A refusal answers 429.
Allow(r) ==
    /\ req[r].pc = "asks"
    /\ LET ip == req[r].ip
           expired == Expired(ip, req[r].now)
       IN /\ entries' = IF expired THEN [entries EXCEPT ![ip] = NoEntry] ELSE entries
          /\ req' = [req EXCEPT ![r] = IF expired \/ entries[ip].count < Limit
                                       THEN [@ EXCEPT !.pc = "allowed"] ELSE Idle]
    /\ UNCHANGED <<clock, log>>

\* The handler answers something else than 401.
Pass(r) ==
    /\ req[r].pc = "allowed"
    /\ req' = [req EXCEPT ![r] = Idle]
    /\ UNCHANGED <<clock, entries, log>>

\* The handler answers 401; the time for RecordFailure is read.
Fail(r) ==
    /\ req[r].pc = "allowed"
    /\ req' = [req EXCEPT ![r].pc = "failed", ![r].now = clock]
    /\ UNCHANGED <<clock, entries, log>>

\* Slip: a new window keeps the count of the old one.
CurrentKeepsCount(ip, now) ==
    IF Expired(ip, now) THEN [entries[ip] EXCEPT !.expiresAt = now + Window] ELSE entries[ip]

\* Slip: the window slides with every failure.
CurrentSlides(ip, now) ==
    [count |-> IF Expired(ip, now) THEN 0 ELSE entries[ip].count, expiresAt |-> now + Window]

\* The entry RecordFailure counts in.
Current(ip, now) ==
    IF entries[ip].count = 0 \/ Expired(ip, now)
    THEN [count |-> 0, expiresAt |-> now + Window] ELSE entries[ip]

RecordFailure(r) ==
    /\ req[r].pc = "failed"
    /\ LET ip == req[r].ip
           entry == Current(ip, req[r].now)
       IN /\ entries' = [entries EXCEPT ![ip] = [entry EXCEPT !.count = @ + 1]]
          /\ log' = [log EXCEPT ![ip] = Append(@, clock)]
    /\ req' = [req EXCEPT ![r] = Idle]
    /\ UNCHANGED clock

\* failedAuthCleanupTicker
Cleanup ==
    /\ entries' = [ip \in IPs |-> IF Expired(ip, clock) THEN NoEntry ELSE entries[ip]]
    /\ UNCHANGED <<clock, req, log>>

Tick ==
    /\ clock < MaxClock
    /\ clock' = clock + 1
    /\ UNCHANGED <<entries, req, log>>

Next ==
    \/ \E r \in Requests :
         (\E ip \in IPs : Ask(r, ip)) \/ Allow(r) \/ Pass(r) \/ Fail(r) \/ RecordFailure(r)
    \/ Cleanup \/ Tick

Spec == Init /\ [][Next]_vars

-----------------------------------------------------------------------------
Blocked(ip) == entries[ip].count >= Limit /\ ~Expired(ip, clock)

\* Requests of ip that were let through and may still be counted.
Pending(ip) == {r \in Requests : req[r].ip = ip /\ req[r].pc \in {"allowed", "failed"}}

\* The check in Allow and the count in RecordFailure are apart, so the limit
\* is exceeded, but by no more than the requests that were in flight when it
\* was reached: one window never counts more than Limit - 1 and one for each slot.
FailuresBounded ==
    \A ip \in IPs : entries[ip].count <= Limit - 1 + Cardinality(Requests)

\* An address is blocked only for failures of the last window: the last Limit
\* failures recorded for it are all younger than Window.
BlockedOnlyForRecentFailures ==
    \A ip \in IPs : Blocked(ip) =>
        /\ Len(log[ip]) >= Limit
        /\ \A k \in (Len(log[ip]) - Limit + 1)..Len(log[ip]) : log[ip][k] + Window > clock

\* Until its window ends a blocked address stays blocked, and the end of the
\* window does not move: neither a sweep, nor a late answer of a request let in
\* before, nor a call with a time read earlier changes that.
BlockHolds ==
    [][\A ip \in IPs : Blocked(ip) /\ clock' < entries[ip].expiresAt
         => Blocked(ip)' /\ entries'[ip].expiresAt = entries[ip].expiresAt]_vars

=============================================================================
