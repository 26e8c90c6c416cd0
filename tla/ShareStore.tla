------------------------------ MODULE ShareStore ------------------------------
(***************************************************************************)
(* The table of shares: share/store.go over the row of share/model.go.      *)
(*                                                                         *)
(* Every method of Store is one SQL statement, so each is one step here.    *)
(* What a row keeps of its columns is what the daemon decides by: the mode, *)
(* expires_at, whether revoked_at is set, whether last_served_at is set.    *)
(* source_path, is_dir and created_at are written once and the daemon never *)
(* decides by them; clients do, and ShareClients adds the two they use.     *)
(*                                                                         *)
(* Times are whole Unix seconds, as in the table.  Comparing a whole second *)
(* with the running clock by ExpiresAt.After(now) and comparing it with     *)
(* now.Unix() give the same answer, so IsActive is both IsActive of         *)
(* model.go and the WHERE clause of ListShares.                             *)
(***************************************************************************)
EXTENDS Integers

CONSTANT Ids            \* share identifiers: 64 random bits, taken as never drawn twice

VARIABLES
    stored,             \* the identifiers that have a row
    row                 \* the row of each of them; BlankRow before the insert

storeVars == <<stored, row>>

Modes == {"live", "snapshot"}

Row == [mode : Modes, expires : Nat, revoked : BOOLEAN, served : BOOLEAN]

BlankRow == [mode |-> "live", expires |-> 0, revoked |-> FALSE, served |-> FALSE]

StoreTypeOK ==
    /\ stored \subseteq Ids
    /\ row \in [Ids -> Row]

OpenStore ==
    /\ stored = {}
    /\ row = [id \in Ids |-> BlankRow]

\* Slip: revoked_at is not looked at.
ActiveByTimeOnly(id, now) == id \in stored /\ row[id].expires > now

IsActive(id, now) ==
    /\ id \in stored
    /\ ~row[id].revoked
    /\ row[id].expires > now

-----------------------------------------------------------------------------
\* The INSERT.  The private-mode pass over the files that follows it in the
\* same method can still fail: the caller decides what happens then.
CreateShare(id, mode, expires) ==
    /\ id \notin stored
    /\ stored' = stored \cup {id}
    /\ row' = [row EXCEPT ![id] =
                  [mode |-> mode, expires |-> expires, revoked |-> FALSE, served |-> FALSE]]

\* UPDATE ... WHERE id = ? AND revoked_at IS NULL; a row that has expired is
\* not excluded.  No row matches: ErrNotFound and no change.
CanUpdate(id) == id \in stored /\ ~row[id].revoked

\* Slip: the UPDATE without AND revoked_at IS NULL.
RenewAnyRow(id, expires) ==
    /\ id \in stored
    /\ row' = [row EXCEPT ![id].expires = expires]
    /\ UNCHANGED stored

RenewShare(id, expires) ==
    /\ CanUpdate(id)
    /\ row' = [row EXCEPT ![id].expires = expires]
    /\ UNCHANGED stored

RevokeShare(id) ==
    /\ CanUpdate(id)
    /\ row' = [row EXCEPT ![id].revoked = TRUE]
    /\ UNCHANGED stored

TouchLastServed(id) ==
    /\ row' = [row EXCEPT ![id].served = TRUE]
    /\ UNCHANGED stored

\* Slip: a share in its last second is not kept.
ActiveSnapshotsButLast(now) == {id \in stored : row[id].mode = "snapshot" /\ IsActive(id, now + 1)}

\* What gcSnapshots keeps of ListShares(false).
ActiveSnapshots(now) == {id \in stored : row[id].mode = "snapshot" /\ IsActive(id, now)}

=============================================================================
