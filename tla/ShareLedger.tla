------------------------------ MODULE ShareLedger ------------------------------
(***************************************************************************)
(* What ferryd promises of its links, without files, handlers or crashes:   *)
(*   - an identifier is issued once, and a revoked share is never open again *)
(*     nor given another expiry;                                            *)
(*   - a visit is granted at an instant, between its question and its        *)
(*     answer, at which the share is open and has not expired;              *)
(*   - only a granted visit marks a share as served, and it may do so after *)
(*     the share was revoked.                                               *)
(***************************************************************************)
EXTENDS Integers

CONSTANTS Ids, NoId, Requests

VARIABLES clock, life, expiry, served, visit

ledgerVars == <<clock, life, expiry, served, visit>>

NoVisit == [pc |-> "idle", id |-> NoId]

Init ==
    /\ clock = 0
    /\ life = [id \in Ids |-> "unused"]
    /\ expiry = [id \in Ids |-> 0]
    /\ served = {}
    /\ visit = [r \in Requests |-> NoVisit]

Tick ==
    /\ clock' = clock + 1
    /\ UNCHANGED <<life, expiry, served, visit>>

SetExpiry(id) ==
    /\ expiry'[id] \in Nat
    /\ expiry' = [expiry EXCEPT ![id] = expiry'[id]]

Issue(id) ==
    /\ life[id] = "unused"
    /\ life' = [life EXCEPT ![id] = "open"]
    /\ SetExpiry(id)
    /\ UNCHANGED <<clock, served, visit>>

Renew(id) ==
    /\ life[id] = "open"
    /\ SetExpiry(id)
    /\ UNCHANGED <<clock, life, served, visit>>

Revoke(id) ==
    /\ life[id] = "open"
    /\ life' = [life EXCEPT ![id] = "revoked"]
    /\ UNCHANGED <<clock, expiry, served, visit>>

Ask(r, id) ==
    /\ visit[r].pc = "idle"
    /\ visit' = [visit EXCEPT ![r] = [pc |-> "asking", id |-> id]]
    /\ UNCHANGED <<clock, life, expiry, served>>

Grant(r) ==
    /\ visit[r].pc = "asking"
    /\ life[visit[r].id] = "open"
    /\ expiry[visit[r].id] > clock
    /\ visit' = [visit EXCEPT ![r].pc = "granted"]
    /\ UNCHANGED <<clock, life, expiry, served>>

\* The visit ends without the mark: refused, or nothing to show.
Leave(r) ==
    /\ visit' = [visit EXCEPT ![r] = NoVisit]
    /\ UNCHANGED <<clock, life, expiry, served>>

Serve(r) ==
    /\ visit[r].pc = "granted"
    /\ served' = served \cup {visit[r].id}
    /\ visit' = [visit EXCEPT ![r] = NoVisit]
    /\ UNCHANGED <<clock, life, expiry>>

\* A process ends and its visits with it; another may be serving others.
Interrupt ==
    /\ \E lost \in SUBSET Requests :
         visit' = [r \in Requests |-> IF r \in lost THEN NoVisit ELSE visit[r]]
    /\ UNCHANGED <<clock, life, expiry, served>>

Next ==
    \/ Tick \/ Interrupt
    \/ \E id \in Ids : Issue(id) \/ Renew(id) \/ Revoke(id)
    \/ \E r \in Requests : Leave(r) \/ Grant(r) \/ Serve(r) \/ \E id \in Ids : Ask(r, id)

Spec == Init /\ [][Next]_ledgerVars

=============================================================================
