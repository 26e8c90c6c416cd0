--------------------------- MODULE ShareDaemonProofs ---------------------------
(***************************************************************************)
(* Proofs about ShareDaemon, for every set of identifiers, files, request   *)
(* slots and booting processes, and whatever may fail.                      *)
(***************************************************************************)
EXTENDS ShareDaemon, TLAPS

USE DEF processVars, historyVars

LEMMA TTLType == \A secs \in Seconds : TTL(secs) \in Nat
  BY ShareDaemonAssumption DEF TTL

-----------------------------------------------------------------------------
(* Typing.  Each action is typed variable by variable; the record sets stay *)
(* closed except where a record is built.                                   *)

LEMMA IdleTyped == /\ Idle \in RequestState /\ BlankRow \in Row
                    /\ Ended \in CreateState /\ FreshCreate \in CreateState
                    /\ NoSweep \in SweepState /\ \A s \in Sweepers : AfterSweep(s) \in SweepState
  BY DEF Idle, RequestState, NoSweep, AfterSweep, SweepState, BlankRow, Row, Modes,
         FreshCreate, Ended, CreateState

LEMMA BusyTyped ==
    ASSUME NEW id \in Ids
    PROVE  /\ \A e \in Nat, o \in BOOLEAN :
                 [Idle EXCEPT !.pc = "renew", !.id = id, !.old = o, !.expires = e] \in RequestState
           /\ \A o \in BOOLEAN : [Idle EXCEPT !.pc = "revoked", !.id = id, !.old = o] \in RequestState
           /\ \A l \in BOOLEAN, o \in BOOLEAN :
                 [Idle EXCEPT !.pc = "authorize", !.id = id, !.old = o, !.late = l] \in RequestState
  BY DEF Idle, RequestState

LEMMA CreateTyped ==
    ASSUME NEW c \in CreateState
    PROVE  /\ c.pc \in {"new", "copy", "insert", "lock", "ended"}
           /\ c.mode \in Modes /\ c.expires \in Nat /\ c.left \subseteq Parts /\ c.old \in BOOLEAN
           /\ [c EXCEPT !.old = TRUE] \in CreateState
           /\ \A p \in {"new", "copy", "insert", "lock", "ended"} : [c EXCEPT !.pc = p] \in CreateState
           /\ \A p \in {"new", "copy", "insert", "lock", "ended"}, l \in SUBSET Parts :
                 [c EXCEPT !.left = l, !.pc = p] \in CreateState
  BY DEF CreateState

LEMMA RequestTyped ==
    ASSUME NEW q \in RequestState
    PROVE  /\ q.pc \in {"idle", "renew", "revoked", "authorize", "resolve", "touch"}
           /\ q.id \in Ids \cup {NoId} /\ q.expires \in Nat /\ q.late \in BOOLEAN /\ q.old \in BOOLEAN
           /\ [q EXCEPT !.old = TRUE] \in RequestState
           /\ [q EXCEPT !.old = TRUE].pc = q.pc /\ [q EXCEPT !.old = TRUE].id = q.id
           /\ \A p \in {"idle", "renew", "revoked", "authorize", "resolve", "touch"} :
                 [q EXCEPT !.pc = p] \in RequestState
  BY DEF RequestState

LEMMA SweepTyped ==
    ASSUME NEW w \in SweepState
    PROVE  /\ w.pc \in {"idle", "readdir", "remove", "bind"} /\ w.keep \subseteq Ids /\ w.todo \subseteq Ids
           /\ \A t \in SUBSET Ids : [w EXCEPT !.todo = t] \in SweepState
           /\ \A t \in SUBSET Ids : [w EXCEPT !.pc = "remove", !.keep = {}, !.todo = t] \in SweepState
           /\ \A k \in SUBSET Ids : [NoSweep EXCEPT !.pc = "readdir", !.keep = k] \in SweepState
  BY DEF SweepState, NoSweep

LEMMA RowTyped ==
    ASSUME NEW x \in Row
    PROVE  /\ x.mode \in Modes /\ x.expires \in Nat /\ x.revoked \in BOOLEAN /\ x.served \in BOOLEAN
           /\ \A e \in Nat : [x EXCEPT !.expires = e] \in Row
           /\ [x EXCEPT !.revoked = TRUE] \in Row
           /\ [x EXCEPT !.served = TRUE] \in Row
  BY DEF Row

\* Every state is well typed.
THEOREM TypeCorrect == Spec => []TypeOK
<1>1. Init => TypeOK
  <2> SUFFICES ASSUME Init PROVE TypeOK
    OBVIOUS
  <2>1. StoreTypeOK
    BY IdleTyped DEF Init, OpenStore, StoreTypeOK
  <2>2. /\ create \in [Ids -> CreateState] /\ reqs \in [Requests -> RequestState]
        /\ sweep \in [Sweepers -> SweepState]
    BY IdleTyped DEF Init
  <2>3. \A r \in Requests : reqs[r].pc = "idle"
    BY DEF Init, Idle
  <2>4. QED
    BY <2>1, <2>2, <2>3 DEF Init, TypeOK
<1>2. TypeOK /\ [Next]_vars => TypeOK'
  <2> SUFFICES ASSUME TypeOK, [Next]_vars PROVE TypeOK'
    OBVIOUS
  <2> USE DEF TypeOK
  <2>0. ASSUME NEW id \in Ids PROVE Meet(id) \in [Boots -> SUBSET Ids]
    BY DEF Meet
  <2>1. ASSUME NEW id \in Ids, CreateBegin(id) PROVE TypeOK'
    <3>1. create' \in [Ids -> CreateState]
      BY <2>1, TTLType DEF CreateBegin, CreateState, Modes
    <3>2. exposed' \subseteq Ids /\ met' \in [Boots -> SUBSET Ids]
      BY <2>0, <2>1 DEF CreateBegin
    <3>3. QED
      BY <2>1, <3>1, <3>2 DEF CreateBegin, storeVars, StoreTypeOK
  <2>2. ASSUME NEW id \in Ids, CreateProgress(id) PROVE TypeOK'
    <3> create[id] \in CreateState /\ disk[id] \subseteq Parts
      OBVIOUS
    <3>1. CASE CopyPart(id)
      <4>1. PICK f \in create[id].left :
              /\ disk' = [disk EXCEPT ![id] = @ \cup {f}]
              /\ create' = [create EXCEPT ![id].left = @ \ {f},
                                          ![id].pc = IF create[id].left = {f} THEN "insert" ELSE "copy"]
        BY <3>1 DEF CopyPart
      <4>2. create' \in [Ids -> CreateState]
        BY <4>1, CreateTyped
      <4>3. disk' \in [Ids -> SUBSET Parts]
        BY <4>1, CreateTyped
      <4>4. QED
        BY <3>1, <4>2, <4>3 DEF CopyPart, storeVars, StoreTypeOK
    <3>2. CASE CopyFail(id) \/ CreateInsertFail(id) \/ CreateLockFail(id)
      <4>1. /\ create' = [create EXCEPT ![id] = Ended]
            /\ disk' = [disk EXCEPT ![id] = {}]
        BY <3>2 DEF CopyFail, CreateInsertFail, CreateLockFail
      <4> create' \in [Ids -> CreateState] /\ disk' \in [Ids -> SUBSET Parts]
        BY <4>1, IdleTyped
      <4>2. exposed' \subseteq Ids
        BY <3>2 DEF CopyFail, CreateInsertFail, CreateLockFail
      <4>3. QED
        BY <3>2, <4>1, <4>2 DEF CopyFail, CreateInsertFail, CreateLockFail, storeVars, StoreTypeOK
    <3>3. CASE CreateInsert(id)
      <4>1. row' \in [Ids -> Row] /\ stored' \subseteq Ids
        BY <3>3, CreateTyped DEF CreateInsert, CreateShare, StoreTypeOK, Row
      <4>2. create' \in [Ids -> CreateState]
        BY <3>3, CreateTyped DEF CreateInsert
      <4>3. QED
        BY <3>3, <4>1, <4>2 DEF CreateInsert, StoreTypeOK
    <3>4. CASE CreateReply(id)
      BY <3>4, IdleTyped DEF CreateReply, storeVars, StoreTypeOK
    <3>5. QED
      BY <2>2, <3>1, <3>2, <3>3, <3>4 DEF CreateProgress
  <2>3. ASSUME NEW id \in Ids, Cleanup(id) \/ PartlyRemoved(id) PROVE TypeOK'
    <3>1. disk' \in [Ids -> SUBSET Parts]
      BY <2>3 DEF Cleanup, PartlyRemoved
    <3>2. QED
      BY <2>3, <3>1 DEF Cleanup, PartlyRemoved, storeVars, StoreTypeOK
  <2>4. ASSUME NEW r \in Requests, RequestBegin(r) PROVE TypeOK'
    <3>1. ASSUME NEW id \in Ids, RenewBegin(r, id) PROVE TypeOK'
      <4>1. PICK secs \in Seconds, old \in BOOLEAN :
              reqs' = [reqs EXCEPT ![r] = [Idle EXCEPT !.pc = "renew", !.id = id, !.old = old,
                                                       !.expires = clock + TTL(secs)]]
        BY <3>1 DEF RenewBegin
      <4>2. [Idle EXCEPT !.pc = "renew", !.id = id, !.old = old, !.expires = clock + TTL(secs)]
              \in RequestState
        <5>1. clock + TTL(secs) \in Nat
          BY TTLType
        <5>2. QED
          BY <5>1, BusyTyped
      <4>3. QED
        BY <3>1, <4>1, <4>2 DEF RenewBegin, storeVars, StoreTypeOK
    <3>2. ASSUME NEW id \in Ids, RevokeUpdate(r, id) PROVE TypeOK'
      <4>1. PICK old \in BOOLEAN :
              reqs' = [reqs EXCEPT ![r] = [Idle EXCEPT !.pc = "revoked", !.id = id, !.old = old]]
        BY <3>2 DEF RevokeUpdate
      <4>3. [Idle EXCEPT !.pc = "revoked", !.id = id, !.old = old] \in RequestState
        BY BusyTyped
      <4>2. StoreTypeOK'
        BY <3>2, RowTyped DEF RevokeUpdate, RevokeShare, StoreTypeOK
      <4>4. QED
        BY <2>0, <3>2, <4>1, <4>2, <4>3 DEF RevokeUpdate
    <3>3. ASSUME NEW id \in Ids, ViewBegin(r, id) PROVE TypeOK'
      <4>1. PICK old \in BOOLEAN :
              reqs' = [reqs EXCEPT ![r] = [Idle EXCEPT !.pc = "authorize", !.id = id, !.old = old,
                                                       !.late = id \in acked]]
        BY <3>3 DEF ViewBegin
      <4>2. [Idle EXCEPT !.pc = "authorize", !.id = id, !.old = old, !.late = id \in acked]
              \in RequestState
        <5>1. (id \in acked) \in BOOLEAN
          OBVIOUS
        <5>2. QED
          BY <5>1, BusyTyped, Zenon
      <4>3. QED
        BY <3>3, <4>1, <4>2 DEF ViewBegin, storeVars, StoreTypeOK
    <3>4. QED
      BY <2>4, <3>1, <3>2, <3>3 DEF RequestBegin
  <2>5. ASSUME NEW r \in Requests, RequestProgress(r) PROVE TypeOK'
    <3> reqs[r] \in RequestState /\ Idle \in RequestState /\ Idle.pc = "idle"
      BY IdleTyped DEF Idle
    <3>1. CASE RenewUpdate(r)
      <4>1. StoreTypeOK'
        BY <3>1, RowTyped, RequestTyped DEF RenewUpdate, RenewShare, CanUpdate, StoreTypeOK
      <4>2. exposed' \subseteq Ids
        BY <3>1 DEF RenewUpdate, RenewShare, CanUpdate, StoreTypeOK
      <4>3. QED
        BY <3>1, <4>1, <4>2 DEF RenewUpdate
    <3>2. CASE RenewNotFound(r) \/ RevokeLockFail(r)
      BY <3>2 DEF RenewNotFound, RevokeLockFail, storeVars, StoreTypeOK
    <3>3. CASE RevokeReply(r)
      BY <3>3 DEF RevokeReply, storeVars, StoreTypeOK
    <3>4. CASE Authorize(r)
      <4>1. [reqs[r] EXCEPT !.pc = "resolve"] \in RequestState
        BY RequestTyped
      <4>2. [reqs[r] EXCEPT !.pc = "resolve"].id = reqs[r].id
        BY DEF RequestState
      <4>3. reqs[r].pc # "idle"
        BY <3>4 DEF Authorize
      <4>4. QED
        BY <3>4, <4>1, <4>2, <4>3 DEF Authorize, storeVars, StoreTypeOK
    <3>5. CASE Resolve(r)
      <4>1. [reqs[r] EXCEPT !.pc = "touch"] \in RequestState
        BY RequestTyped
      <4>2. [reqs[r] EXCEPT !.pc = "touch"].id = reqs[r].id
        BY DEF RequestState
      <4>3. reqs[r].pc # "idle" /\ reqs' = [reqs EXCEPT ![r] = [reqs[r] EXCEPT !.pc = "touch"]]
        BY <3>5 DEF Resolve
      <4>4. QED
        BY <3>5, <4>1, <4>2, <4>3 DEF Resolve, storeVars, StoreTypeOK
    <3>6. CASE LeaveUnmarked(r)
      BY <3>6 DEF LeaveUnmarked, storeVars, StoreTypeOK
    <3>7. CASE Touch(r)
      <4>1. StoreTypeOK'
        BY <3>7, RowTyped DEF Touch, TouchLastServed, StoreTypeOK
      <4>2. QED
        BY <3>7, <4>1 DEF Touch
    <3>8. QED
      BY <2>5, <3>1, <3>2, <3>3, <3>4, <3>5, <3>6, <3>7 DEF RequestProgress
  <2>6. ASSUME NEW s \in Sweepers, SweepList(s) PROVE sweep' \in [Sweepers -> SweepState] /\ exposed' \subseteq Ids
    <3>1. ActiveSnapshots(clock) \subseteq Ids
      BY DEF ActiveSnapshots, StoreTypeOK
    <3>2. sweep' \in [Sweepers -> SweepState]
      BY <2>6, <3>1, SweepTyped, IdleTyped DEF SweepList
    <3>3. QED
      BY <2>6, <3>2 DEF SweepList, Copying
  <2>7. ASSUME NEW s \in Sweepers, SweepStep(s) PROVE TypeOK'
    <3> sweep[s] \in SweepState
      OBVIOUS
    <3>2. CASE SweepReadDir(s)
      <4>1. {id \in Ids : disk[id] # {}} \ sweep[s].keep \in SUBSET Ids
        OBVIOUS
      <4>2. sweep' \in [Sweepers -> SweepState]
        BY <3>2, <4>1, SweepTyped DEF SweepReadDir
      <4>3. QED
        BY <3>2, <4>2 DEF SweepReadDir, storeVars, StoreTypeOK
    <3>3. ASSUME NEW id \in Ids, SweepRemove(s, id) \/ SweepSkip(s, id) PROVE TypeOK'
      <4>1. sweep' \in [Sweepers -> SweepState]
        <5>1. sweep' = [sweep EXCEPT ![s] = [sweep[s] EXCEPT !.todo = sweep[s].todo \ {id}]]
          BY <3>3 DEF SweepRemove, SweepSkip
        <5>2. sweep[s].todo \ {id} \in SUBSET Ids
          BY SweepTyped
        <5>3. QED
          BY <5>1, <5>2, SweepTyped
      <4>2. disk' \in [Ids -> SUBSET Parts]
        BY <3>3 DEF SweepRemove, SweepSkip
      <4>3. QED
        BY <3>3, <4>1, <4>2 DEF SweepRemove, SweepSkip, storeVars, StoreTypeOK
    <3>4. CASE SweepEnd(s) \/ SweepAbort(s)
      BY <3>4, IdleTyped DEF SweepEnd, SweepAbort, storeVars, StoreTypeOK
    <3>5. QED
      BY <2>7, <3>2, <3>3, <3>4 DEF SweepStep
  <2>11. ASSUME NEW s \in Boots, BootStep(s) PROVE TypeOK'
    <3> s \in Sweepers
      BY DEF Sweepers
    <3>1. CASE Start(s)
      <4>1. met' \in [Boots -> SUBSET Ids]
        BY <3>1 DEF Start, Copying
      <4>2. QED
        BY <2>6, <3>1, <4>1 DEF Start, storeVars, StoreTypeOK
    <3>2. CASE Listen(s) \/ BindFail(s) \/ BootKilled(s)
      <4>1. sweep' \in [Sweepers -> SweepState] /\ met' \in [Boots -> SUBSET Ids]
        BY <3>2, IdleTyped DEF Listen, BindFail, BootKilled, BootOver
      <4>2. QED
        BY <3>2, <4>1 DEF Listen, BindFail, BootKilled, storeVars, StoreTypeOK
    <3>3. QED
      BY <2>11, <3>1, <3>2 DEF BootStep
  <2>8. CASE ProcessStep
    <3> Loop \in Sweepers
      BY DEF Sweepers
    <3>1. CASE Tick
      BY <3>1 DEF Tick, storeVars, StoreTypeOK
    <3>2. CASE TickerFires
      BY <2>6, <3>2 DEF TickerFires, storeVars, StoreTypeOK
    <3>3. CASE Stop
      <4>1. create' \in [Ids -> CreateState]
        BY <3>3, CreateTyped DEF Stop
      <4>2. /\ reqs' \in [Requests -> RequestState]
            /\ \A r \in Requests : reqs'[r].pc = reqs[r].pc /\ reqs'[r].id = reqs[r].id
        <5>1. ASSUME NEW r \in Requests
              PROVE  reqs'[r] \in RequestState /\ reqs'[r].pc = reqs[r].pc /\ reqs'[r].id = reqs[r].id
          <6>1. reqs[r] \in RequestState
            OBVIOUS
          <6>2. reqs'[r] = IF reqs[r].pc = "idle" THEN reqs[r] ELSE [reqs[r] EXCEPT !.old = TRUE]
            BY <3>3 DEF Stop
          <6>3. QED
            BY <6>1, <6>2, RequestTyped
        <5>2. reqs' = [r \in Requests |-> reqs'[r]]
          BY <3>3 DEF Stop
        <5>3. QED
          BY <5>1, <5>2
      <4>3. \A r \in Requests : reqs'[r].pc # "idle" => reqs'[r].id \in Ids
        BY <4>2
      <4>4. StoreTypeOK' /\ leaving' \subseteq Ids /\ phase' = "down" /\ stopping' = TRUE /\ crashes' \in Nat
        BY <3>3 DEF Stop, storeVars, StoreTypeOK
      <4>5. UNCHANGED <<clock, disk, cleanups, sweep, met, acked, exposed>>
        BY <3>3 DEF Stop
      <4>6. QED
        BY <4>1, <4>2, <4>3, <4>4, <4>5
    <3>4. CASE Crash \/ Exit
      <4>1. create' \in [Ids -> CreateState]
        BY <3>4, IdleTyped DEF Crash, Exit
      <4>2. sweep' \in [Sweepers -> SweepState] /\ reqs' \in [Requests -> RequestState]
        BY <3>4, IdleTyped DEF Crash, Exit
      <4>3. \A r \in Requests : reqs'[r].pc = "idle" \/ reqs'[r] = reqs[r]
        BY <3>4 DEF Crash, Exit, Idle
      <4>4. \A r \in Requests : reqs'[r].pc # "idle" => reqs'[r].id \in Ids
        BY <4>3 DEF TypeOK
      <4>5. StoreTypeOK' /\ UNCHANGED <<clock, disk, met, acked, exposed>>
        BY <3>4 DEF Crash, Exit, storeVars, historyVars, StoreTypeOK
      <4>6. /\ phase' \in {"down", "listening"} /\ stopping' \in BOOLEAN /\ crashes' \in Nat
            /\ cleanups' \subseteq Ids /\ leaving' \subseteq Ids
        <5>1. CASE Crash
          BY <5>1 DEF Crash
        <5>2. CASE Exit
          <6>1. UNCHANGED <<phase, crashes>> /\ stopping' = FALSE
            BY <5>2 DEF Exit
          <6>2. cleanups' = cleanups \ leaving /\ leaving' = {}
            BY <5>2 DEF Exit
          <6>3. QED
            BY <6>1, <6>2
        <5>3. QED
          BY <3>4, <5>1, <5>2
      <4>7. QED
        BY <4>1, <4>2, <4>4, <4>5, <4>6
    <3>5. QED
      BY <2>8, <3>1, <3>2, <3>3, <3>4 DEF ProcessStep
  <2>9. CASE UNCHANGED vars
    BY <2>9 DEF vars, daemonVars, storeVars, StoreTypeOK
  <2>10. QED
    BY <2>1, <2>2, <2>3, <2>4, <2>5, <2>7, <2>8, <2>9, <2>11 DEF Next
<1>3. QED
  BY <1>1, <1>2, PTL DEF Spec

-----------------------------------------------------------------------------
(* A revocation that was answered is final, and refuses every later visit. *)

Revoked(id) == id \in stored /\ row[id].revoked

RevokedInv ==
    /\ \A id \in acked \cup cleanups : Revoked(id)
    /\ \A r \in Requests : reqs[r].pc = "revoked" \/ reqs[r].late => Revoked(reqs[r].id)
    /\ \A r \in Requests : reqs[r].pc \in {"resolve", "touch"} => ~reqs[r].late

\* No step brings back a revoked row.
LEMMA RevokedStays ==
    ASSUME TypeOK, [Next]_vars, NEW id \in Ids, Revoked(id)
    PROVE  Revoked(id)'
<1>1. ASSUME UNCHANGED storeVars PROVE Revoked(id)'
  BY <1>1 DEF storeVars, Revoked
<1>2. ASSUME NEW j \in Ids, CreateInsert(j) PROVE Revoked(id)'
  BY <1>2 DEF CreateInsert, CreateShare, Revoked, TypeOK, StoreTypeOK
<1>3. ASSUME NEW r \in Requests, RenewUpdate(r) PROVE Revoked(id)'
  BY <1>3 DEF RenewUpdate, RenewShare, CanUpdate, Revoked, TypeOK, StoreTypeOK
<1>4. ASSUME NEW r \in Requests, NEW j \in Ids, RevokeUpdate(r, j) PROVE Revoked(id)'
  BY <1>4 DEF RevokeUpdate, RevokeShare, CanUpdate, Revoked, TypeOK, StoreTypeOK
<1>5. ASSUME NEW r \in Requests, Touch(r) PROVE Revoked(id)'
  <2>1. row' = [row EXCEPT ![reqs[r].id] = [row[reqs[r].id] EXCEPT !.served = TRUE]]
    BY <1>5 DEF Touch, TouchLastServed
  <2>2. row[id] \in Row
    BY DEF TypeOK, StoreTypeOK
  <2>3. row'[id].revoked = row[id].revoked
    BY <2>1, <2>2 DEF Row, TypeOK, StoreTypeOK
  <2>4. QED
    BY <1>5, <2>3 DEF Touch, TouchLastServed, Revoked
<1>6. QED
  BY <1>1, <1>2, <1>3, <1>4, <1>5
     DEF Next, CreateBegin, CreateProgress, CopyPart, CopyFail, CreateInsertFail, CreateReply,
         CreateLockFail, Cleanup, PartlyRemoved, RequestBegin, RequestProgress, RenewBegin,
         ViewBegin, RenewNotFound, RevokeReply, RevokeLockFail, Authorize, Resolve, LeaveUnmarked,
         SweepStep, SweepReadDir, SweepRemove, SweepSkip, SweepEnd, SweepAbort,
         BootStep, Start, Listen, BindFail, BootKilled, ProcessStep, Tick, TickerFires, Stop, Exit, Crash, vars

LEMMA RevokedInductive == Spec => []RevokedInv
<1>1. Init => RevokedInv
  BY DEF Init, RevokedInv, Idle
<1>2. TypeOK /\ RevokedInv /\ [Next]_vars => RevokedInv'
  <2> SUFFICES ASSUME TypeOK, RevokedInv, [Next]_vars PROVE RevokedInv'
    OBVIOUS
  <2>1. \A id \in Ids : Revoked(id) => Revoked(id)'
    BY RevokedStays
  <2>2. \A r \in Requests : reqs[r].pc = "revoked" \/ reqs[r].late
                              => reqs[r].id \in Ids /\ Revoked(reqs[r].id)
    BY DEF RevokedInv, Revoked, TypeOK, StoreTypeOK
  <2>3. acked \cup cleanups \subseteq Ids
    BY DEF TypeOK
  <2>4. ASSUME UNCHANGED reqs, acked' = acked, cleanups' \subseteq cleanups PROVE RevokedInv'
    BY <2>1, <2>2, <2>3, <2>4 DEF RevokedInv, Revoked
  <2>5. ASSUME NEW r \in Requests, reqs' = [reqs EXCEPT ![r] = Idle],
               UNCHANGED <<acked, cleanups>>
        PROVE  RevokedInv'
    BY <2>1, <2>2, <2>3, <2>5 DEF RevokedInv, Revoked, TypeOK, Idle
  <2>6. ASSUME NEW r \in Requests, NEW id \in Ids, RenewBegin(r, id) PROVE RevokedInv'
    <3>1. PICK secs \in Seconds, old \in BOOLEAN :
            reqs' = [reqs EXCEPT ![r] = [Idle EXCEPT !.pc = "renew", !.id = id, !.old = old,
                                                     !.expires = clock + TTL(secs)]]
      BY <2>6 DEF RenewBegin
    <3> DEFINE new == [Idle EXCEPT !.pc = "renew", !.id = id, !.old = old, !.expires = clock + TTL(secs)]
    <3>3. reqs' = [reqs EXCEPT ![r] = new] /\ new.pc = "renew" /\ ~new.late
      BY <3>1 DEF Idle
    <3> HIDE DEF new
    <3>2. QED
      BY <2>1, <2>2, <2>3, <2>6, <3>3 DEF RevokedInv, Revoked, TypeOK, RenewBegin
  <2>7. ASSUME NEW r \in Requests, NEW id \in Ids, RevokeUpdate(r, id) PROVE RevokedInv'
    <3>1. Revoked(id)'
      BY <2>7 DEF RevokeUpdate, RevokeShare, CanUpdate, Revoked, TypeOK, StoreTypeOK
    <3>2. PICK old \in BOOLEAN :
            reqs' = [reqs EXCEPT ![r] = [Idle EXCEPT !.pc = "revoked", !.id = id, !.old = old]]
      BY <2>7 DEF RevokeUpdate
    <3> DEFINE new == [Idle EXCEPT !.pc = "revoked", !.id = id, !.old = old]
    <3>3. reqs' = [reqs EXCEPT ![r] = new] /\ new.pc = "revoked" /\ new.id = id
      BY <3>2 DEF Idle
    <3> HIDE DEF new
    <3>4. QED
      BY <2>1, <2>2, <2>3, <2>7, <3>1, <3>3 DEF RevokedInv, Revoked, TypeOK, RevokeUpdate
  <2>8. ASSUME NEW r \in Requests, NEW id \in Ids, ViewBegin(r, id) PROVE RevokedInv'
    <3>0. PICK old \in BOOLEAN :
            /\ reqs' = [reqs EXCEPT ![r] = [Idle EXCEPT !.pc = "authorize", !.id = id, !.old = old,
                                                       !.late = id \in acked]]
            /\ UNCHANGED <<acked, cleanups>>
      BY <2>8 DEF ViewBegin
    <3> DEFINE late == id \in acked
               visit == [Idle EXCEPT !.pc = "authorize", !.id = id, !.old = old, !.late = late]
    <3>1. reqs' = [reqs EXCEPT ![r] = visit] /\ UNCHANGED <<acked, cleanups>>
      BY <3>0
    <3>2. visit.pc = "authorize" /\ visit.id = id /\ (visit.late => id \in acked)
      BY DEF Idle
    <3>3. visit.late => Revoked(id)'
      BY <2>1, <3>2 DEF RevokedInv
    <3> HIDE DEF visit
    <3>4. QED
      BY <2>1, <2>2, <2>3, <3>1, <3>2, <3>3 DEF RevokedInv, Revoked, TypeOK
  <2>9. ASSUME NEW r \in Requests, RevokeReply(r) PROVE RevokedInv'
    BY <2>1, <2>2, <2>3, <2>9 DEF RevokedInv, Revoked, TypeOK, RevokeReply, Idle
  <2>10. ASSUME NEW r \in Requests, Authorize(r) PROVE RevokedInv'
    <3>1. CASE IsActive(reqs[r].id, clock)
      <4>1. ~reqs[r].late
        BY <3>1, <2>2 DEF IsActive, Revoked
      <4>2. reqs' = [reqs EXCEPT ![r] = [reqs[r] EXCEPT !.pc = "resolve"]]
        BY <2>10, <3>1 DEF Authorize
      <4>3. UNCHANGED <<acked, cleanups, storeVars>>
        BY <2>10 DEF Authorize
      <4>4. \A q \in Requests : /\ reqs'[q].late = reqs[q].late /\ reqs'[q].id = reqs[q].id
                                /\ reqs'[q].pc = IF q = r THEN "resolve" ELSE reqs[q].pc
        BY <4>2 DEF TypeOK, RequestState
      <4>5. QED
        BY <4>1, <4>3, <4>4 DEF RevokedInv, Revoked, storeVars
    <3>2. CASE ~IsActive(reqs[r].id, clock)
      BY <2>5, <2>10, <3>2 DEF Authorize
    <3>3. QED
      BY <3>1, <3>2
  <2>11. ASSUME NEW r \in Requests, Resolve(r) PROVE RevokedInv'
    <3>1. \A q \in Requests : /\ reqs'[q].late = reqs[q].late /\ reqs'[q].id = reqs[q].id
                              /\ reqs'[q].pc = IF q = r THEN "touch" ELSE reqs[q].pc
      BY <2>11 DEF TypeOK, RequestState, Resolve
    <3>2. reqs[r].pc = "resolve" /\ UNCHANGED <<acked, cleanups, storeVars>>
      BY <2>11 DEF Resolve
    <3>3. QED
      BY <3>1, <3>2 DEF RevokedInv, Revoked, storeVars
  <2>12. CASE Crash \/ Stop \/ Exit
    <3>1. \A r \in Requests : \/ reqs'[r].pc = "idle" /\ ~reqs'[r].late
                              \/ /\ reqs'[r].pc = reqs[r].pc /\ reqs'[r].id = reqs[r].id
                                 /\ reqs'[r].late = reqs[r].late
      BY <2>12 DEF Crash, Stop, Exit, Idle, TypeOK, RequestState
    <3>2. acked' = acked /\ cleanups' \subseteq cleanups
      BY <2>12 DEF Crash, Stop, Exit
    <3>3. QED
      BY <2>1, <2>2, <2>3, <3>1, <3>2 DEF RevokedInv
  <2>13. QED
    BY <2>4, <2>5, <2>6, <2>7, <2>8, <2>9, <2>10, <2>11, <2>12
       DEF Next, CreateBegin, CreateProgress, CopyPart, CopyFail, CreateInsert, CreateInsertFail,
           CreateReply, CreateLockFail, Cleanup, PartlyRemoved, RequestBegin, RequestProgress,
           RenewUpdate, RenewNotFound, RevokeLockFail, LeaveUnmarked, Touch,
           SweepStep, SweepReadDir, SweepRemove, SweepSkip, SweepEnd, SweepAbort,
           BootStep, Start, Listen, BindFail, BootKilled, ProcessStep, Tick, TickerFires, vars, daemonVars
<1>3. QED
  BY <1>1, <1>2, TypeCorrect, PTL DEF Spec

\* A visit that began after the answer to a revocation is never authorized.
THEOREM RevocationHolds == Spec => []RevokedIsRefused
<1>1. RevokedInv => RevokedIsRefused
  BY DEF RevokedInv, RevokedIsRefused
<1>2. QED
  BY <1>1, RevokedInductive, PTL

-----------------------------------------------------------------------------
(* An active snapshot share keeps its content, but for the races that       *)
(* "exposed" records.  The invariant follows a snapshot from its copy to    *)
(* the end of its share, and says of every sweep that what it is about to   *)
(* remove cannot come to be needed.                                         *)

Content(id) ==
    /\ create[id].pc = "new" => disk[id] = {} /\ id \notin stored /\ ~create[id].old
    /\ create[id].pc = "copy" => create[id].mode = "snapshot"
    /\ create[id].pc \in {"copy", "insert"} => id \notin stored
    /\ id \notin exposed =>
         /\ create[id].pc = "copy" => disk[id] = Parts \ create[id].left
         /\ create[id].pc = "insert" /\ create[id].mode = "snapshot" => disk[id] = Parts
         /\ id \in stored /\ row[id].mode = "snapshot" /\ IsActive(id, clock) => disk[id] = Parts

Swept(s, id) ==
    id \notin exposed =>
        /\ sweep[s].pc = "readdir" /\ id \notin sweep[s].keep => ~Vital(id)
        /\ sweep[s].pc = "remove" /\ id \in sweep[s].todo => ~Vital(id) /\ create[id].pc # "new"

ContentInv == \A id \in Ids : Content(id) /\ \A s \in Sweepers : Swept(s, id)

\* What an action must leave alone for its share to keep its part.
LEMMA ContentKept ==
    ASSUME NEW j \in Ids, Content(j),
           create'[j] = create[j], disk'[j] = disk[j], row'[j].mode = row[j].mode,
           j \in stored' <=> j \in stored,
           IsActive(j, clock)' => IsActive(j, clock),
           exposed \subseteq exposed'
    PROVE  Content(j)'
  BY DEF Content

LEMMA SweptKept ==
    ASSUME NEW j \in Ids, NEW s \in Sweepers, Swept(s, j),
           sweep'[s] = sweep[s],
           create'[j].pc = "new" => create[j].pc = "new",
           Vital(j)' => Vital(j),
           exposed \subseteq exposed'
    PROVE  Swept(s, j)'
  BY DEF Swept

\* An action on the requests and their bookkeeping only.
LEMMA ContentUntouched ==
    ASSUME ContentInv, UNCHANGED <<storeVars, clock, disk, create, sweep, exposed>>
    PROVE  ContentInv'
  BY DEF ContentInv, Content, Swept, Vital, Copying, IsActive, storeVars

\* An action that removes files of entries nobody will need.
LEMMA ContentRemoved ==
    ASSUME TypeOK, ContentInv, UNCHANGED <<storeVars, clock, exposed>>,
           \A j \in Ids : \/ disk'[j] = disk[j]
                          \/ /\ ~Vital(j) \/ j \in exposed
                             /\ create[j].pc # "new",
           \A j \in Ids : create'[j] = create[j],
           \A s \in Sweepers : sweep'[s] = sweep[s]
    PROVE  ContentInv'
<1> SUFFICES ASSUME NEW j \in Ids PROVE Content(j)' /\ \A s \in Sweepers : Swept(s, j)'
  BY DEF ContentInv
<1>1. Content(j) /\ \A s \in Sweepers : Swept(s, j)
  BY DEF ContentInv
<1>2. Vital(j)' <=> Vital(j)
  BY DEF Vital, Copying, IsActive, storeVars
<1>3. Content(j)'
  BY <1>1 DEF Content, Vital, Copying, IsActive, storeVars
<1>4. QED
  BY <1>1, <1>2, <1>3, SweptKept

LEMMA ContentStep ==
    ASSUME TypeOK, RevokedInv, ContentInv, [Next]_vars
    PROVE  ContentInv'
<1> DEFINE Goal(j) == Content(j)' /\ \A s \in Sweepers : Swept(s, j)'
<1>0. ASSUME \A j \in Ids : Goal(j) PROVE ContentInv'
  BY <1>0 DEF ContentInv
<1>a. \A j \in Ids : Content(j) /\ \A s \in Sweepers : Swept(s, j)
  BY DEF ContentInv
\* A step that moves one handler, and at most its own files, keeps the others.
<1>b. ASSUME NEW id \in Ids, NEW j \in Ids, j # id,
             \E c : create' = [create EXCEPT ![id] = c],
             disk'[j] = disk[j], j \in stored' <=> j \in stored, row'[j] = row[j],
             UNCHANGED <<clock, sweep>>, exposed \subseteq exposed'
      PROVE  Goal(j)
  <2>1. create'[j] = create[j]
    BY <1>b DEF TypeOK
  <2>2. IsActive(j, clock)' <=> IsActive(j, clock)
    BY <1>b DEF IsActive
  <2>3. Vital(j)' <=> Vital(j)
    BY <1>b, <2>1, <2>2 DEF Vital, Copying
  <2>4. QED
    BY <1>a, <1>b, <2>1, <2>2, <2>3, ContentKept, SweptKept
<1>1. ASSUME NEW id \in Ids, CreateBegin(id) PROVE ContentInv'
  <2>1. PICK mode \in Modes, secs \in Seconds, old \in BOOLEAN :
          /\ create' = [create EXCEPT ![id] =
                          [pc      |-> IF mode = "snapshot" THEN "copy" ELSE "insert",
                           mode    |-> mode,
                           expires |-> clock + TTL(secs),
                           left    |-> IF mode = "snapshot" THEN Parts ELSE {},
                           old     |-> old]]
          /\ exposed' = IF mode = "snapshot" /\ \E s \in Sweepers : sweep[s].pc = "readdir"
                        THEN exposed \cup {id} ELSE exposed
    BY <1>1 DEF CreateBegin
  <2>2. /\ create[id].pc = "new" /\ exposed \subseteq exposed'
        /\ UNCHANGED <<storeVars, clock, disk, sweep>>
    BY <1>1, <2>1 DEF CreateBegin
  <2>3. disk[id] = {} /\ id \notin stored
    BY <1>a, <2>2 DEF Content
  <2>4. ASSUME NEW j \in Ids, j # id PROVE Goal(j)
    BY <1>b, <2>1, <2>2, <2>4 DEF storeVars
  <2>5. create'[id] = [pc |-> IF mode = "snapshot" THEN "copy" ELSE "insert", mode |-> mode,
                       expires |-> clock + TTL(secs), left |-> IF mode = "snapshot" THEN Parts ELSE {},
                       old |-> old]
    BY <2>1 DEF TypeOK
  <2>6. Content(id)'
    BY <2>2, <2>3, <2>5 DEF Content, storeVars
  <2>7. ASSUME NEW s \in Sweepers PROVE Swept(s, id)'
    <3>1. CASE mode = "snapshot"
      BY <1>a, <2>1, <2>2, <3>1 DEF Swept
    <3>2. CASE mode # "snapshot"
      <4>1. ~Vital(id)'
        BY <2>2, <2>3, <2>5, <3>2 DEF Vital, Copying, storeVars
      <4>2. create'[id].pc # "new"
        BY <2>5
      <4>3. QED
        BY <4>1, <4>2 DEF Swept
    <3>3. QED
      BY <3>1, <3>2
  <2>8. QED
    BY <1>0, <2>4, <2>6, <2>7
<1>2. ASSUME NEW id \in Ids, CopyPart(id) PROVE ContentInv'
  <2>1. PICK f \in create[id].left :
          /\ disk' = [disk EXCEPT ![id] = @ \cup {f}]
          /\ create' = [create EXCEPT ![id] = [create[id] EXCEPT
                          !.left = create[id].left \ {f},
                          !.pc = IF create[id].left = {f} THEN "insert" ELSE "copy"]]
    BY <1>2 DEF CopyPart
  <2>2. create[id].pc = "copy" /\ UNCHANGED <<storeVars, clock, sweep, exposed>>
    BY <1>2 DEF CopyPart
  <2>3. ASSUME NEW j \in Ids, j # id PROVE Goal(j)
    BY <1>b, <2>1, <2>2, <2>3 DEF storeVars, TypeOK
  <2>4. /\ create'[id].left = create[id].left \ {f} /\ create'[id].mode = create[id].mode
        /\ create'[id].pc = IF create[id].left = {f} THEN "insert" ELSE "copy"
        /\ disk'[id] = disk[id] \cup {f}
    BY <2>1 DEF TypeOK, CreateState
  <2>5. create[id].left \subseteq Parts
    BY DEF TypeOK, CreateState
  <2>6. Content(id)'
    BY <1>a, <2>2, <2>4, <2>5 DEF Content, storeVars
  <2>7. Vital(id)
    BY <1>a, <2>2 DEF Vital, Copying, Content
  <2>8. \A s \in Sweepers : Swept(s, id)'
    BY <1>a, <2>2, <2>4, <2>7, SweptKept
  <2>9. QED
    BY <1>0, <2>3, <2>6, <2>8
<1>3. ASSUME NEW id \in Ids, CopyFail(id) \/ CreateInsertFail(id) \/ CreateLockFail(id)
      PROVE  ContentInv'
  <2>1. /\ disk' = [disk EXCEPT ![id] = {}]
        /\ create' = [create EXCEPT ![id] = Ended]
        /\ UNCHANGED <<storeVars, clock, sweep>>
        /\ exposed \subseteq exposed'
        /\ create[id].pc # "new"
        /\ create[id].pc \in {"copy", "insert"} \/ id \in exposed'
    BY <1>3 DEF CopyFail, CreateInsertFail, CreateLockFail
  <2>2. ASSUME NEW j \in Ids, j # id PROVE Goal(j)
    BY <1>b, <2>1, <2>2 DEF storeVars, TypeOK
  <2>3. create'[id].pc = "ended"
    BY <2>1 DEF TypeOK, Ended, FreshCreate
  <2>4. id \notin stored \/ id \in exposed'
    BY <1>a, <2>1 DEF Content
  <2>5. Content(id)'
    BY <2>1, <2>3, <2>4 DEF Content, storeVars
  <2>6. Vital(id)' => id \in exposed'
    BY <2>1, <2>3, <2>4 DEF Vital, Copying, IsActive, storeVars
  <2>7. \A s \in Sweepers : Swept(s, id)'
    BY <2>3, <2>6 DEF Swept
  <2>8. QED
    BY <1>0, <2>2, <2>5, <2>7
<1>4. ASSUME NEW id \in Ids, CreateInsert(id) PROVE ContentInv'
  <2>1. /\ stored' = stored \cup {id}
        /\ create' = [create EXCEPT ![id] = [create[id] EXCEPT !.pc = "lock"]]
        /\ create[id].pc = "insert"
        /\ UNCHANGED <<clock, disk, sweep, exposed>>
    BY <1>4 DEF CreateInsert, CreateShare
  <2>2. row'[id].mode = create[id].mode /\ \A j \in Ids : j # id => row'[j] = row[j]
    BY <1>4 DEF CreateInsert, CreateShare, TypeOK, StoreTypeOK
  <2>3. ASSUME NEW j \in Ids, j # id PROVE Goal(j)
    BY <1>b, <2>1, <2>2, <2>3
  <2>4. create'[id].pc = "lock"
    BY <2>1 DEF TypeOK, CreateState
  <2>5. Content(id)'
    BY <1>a, <2>1, <2>2, <2>4 DEF Content
  <2>6. Vital(id)' => Vital(id)
    BY <2>1, <2>2, <2>4 DEF Vital, Copying
  <2>7. \A s \in Sweepers : Swept(s, id)'
    BY <1>a, <2>1, <2>4, <2>6, SweptKept
  <2>8. QED
    BY <1>0, <2>3, <2>5, <2>7
<1>5. ASSUME NEW id \in Ids, CreateReply(id) PROVE ContentInv'
  <2>1. /\ create' = [create EXCEPT ![id] = Ended]
        /\ UNCHANGED <<storeVars, clock, disk, sweep, exposed>>
    BY <1>5 DEF CreateReply
  <2>2. ASSUME NEW j \in Ids, j # id PROVE Goal(j)
    BY <1>b, <2>1, <2>2 DEF storeVars
  <2>3. create'[id].pc = "ended"
    BY <2>1 DEF TypeOK, Ended, FreshCreate
  <2>4. Content(id)'
    BY <1>a, <2>1, <2>3 DEF Content, IsActive, storeVars
  <2>5. Vital(id)' => Vital(id)
    BY <2>1, <2>3 DEF Vital, Copying, IsActive, storeVars
  <2>6. \A s \in Sweepers : Swept(s, id)'
    BY <1>a, <2>1, <2>3, <2>5, SweptKept
  <2>7. QED
    BY <1>0, <2>2, <2>4, <2>6
<1>6. ASSUME NEW id \in Ids, Cleanup(id) \/ PartlyRemoved(id) PROVE ContentInv'
  <2>1. ASSUME id \in cleanups PROVE ~Vital(id) /\ create[id].pc # "new"
    BY <1>a, <2>1 DEF RevokedInv, Revoked, Content, Vital, Copying, IsActive
  <2>2. ASSUME NEW s \in Sweepers, sweep[s].pc = "remove", id \in sweep[s].todo
        PROVE  id \in exposed \/ (~Vital(id) /\ create[id].pc # "new")
    BY <1>a, <2>2 DEF Swept
  <2>3. disk[id] # {} => create[id].pc # "new"
    BY <1>a DEF Content
  <2>4. ~Vital(id) \/ id \in exposed
    BY <1>6, <2>1, <2>2 DEF Cleanup, PartlyRemoved
  <2>5. \A j \in Ids : disk'[j] = disk[j] \/ (j = id /\ create[j].pc # "new")
    BY <1>6, <2>1, <2>3 DEF Cleanup, PartlyRemoved, TypeOK
  <2>6. UNCHANGED <<storeVars, clock, exposed, create, sweep>>
    BY <1>6 DEF Cleanup, PartlyRemoved
  <2>7. QED
    BY <2>4, <2>5, <2>6, ContentRemoved
<1>7. ASSUME UNCHANGED <<clock, disk, create, sweep>>, exposed \subseteq exposed',
             UNCHANGED stored, \A j \in Ids : row'[j].mode = row[j].mode,
             \A j \in Ids \ exposed' : IsActive(j, clock)' => IsActive(j, clock)
      PROVE  ContentInv'
  BY <1>a, <1>7 DEF ContentInv, Content, Swept, Vital, Copying
<1>8. ASSUME NEW r \in Requests, RenewUpdate(r) PROVE ContentInv'
  <2>1. reqs[r].id \in Ids
    BY <1>8 DEF RenewUpdate, TypeOK
  <2>2. row' = [row EXCEPT ![reqs[r].id] = [row[reqs[r].id] EXCEPT !.expires = reqs[r].expires]]
    BY <1>8 DEF RenewUpdate, RenewShare
  <2>3. /\ \A j \in Ids : row'[j].mode = row[j].mode
        /\ \A j \in Ids : j # reqs[r].id => row'[j] = row[j]
    BY <2>2 DEF TypeOK, StoreTypeOK, Row
  <2>4. UNCHANGED <<clock, disk, create, sweep, stored>>
    BY <1>8 DEF RenewUpdate, RenewShare
  <2>5. exposed' = IF IsActive(reqs[r].id, clock) THEN exposed ELSE exposed \cup {reqs[r].id}
    BY <1>8 DEF RenewUpdate
  <2>6. ASSUME NEW j \in Ids \ exposed' PROVE IsActive(j, clock)' => IsActive(j, clock)
    <3>1. CASE j = reqs[r].id
      BY <2>5, <3>1
    <3>2. CASE j # reqs[r].id
      BY <2>3, <2>4, <3>2 DEF IsActive
    <3>3. QED
      BY <3>1, <3>2
  <2>7. QED
    BY <1>7, <2>3, <2>4, <2>5, <2>6
<1>9. ASSUME NEW r \in Requests, NEW id \in Ids, RevokeUpdate(r, id) PROVE ContentInv'
  <2>1. row' = [row EXCEPT ![id] = [row[id] EXCEPT !.revoked = TRUE]]
    BY <1>9 DEF RevokeUpdate, RevokeShare
  <2>2. /\ \A j \in Ids : row'[j].mode = row[j].mode /\ row'[j].expires = row[j].expires
        /\ \A j \in Ids : row[j].revoked => row'[j].revoked
    BY <2>1 DEF TypeOK, StoreTypeOK, Row
  <2>3. UNCHANGED <<clock, disk, create, sweep, stored, exposed>>
    BY <1>9 DEF RevokeUpdate, RevokeShare
  <2>4. QED
    BY <1>7, <2>2, <2>3 DEF IsActive
<1>10. ASSUME NEW r \in Requests, Touch(r) PROVE ContentInv'
  <2>1. row' = [row EXCEPT ![reqs[r].id] = [row[reqs[r].id] EXCEPT !.served = TRUE]]
    BY <1>10 DEF Touch, TouchLastServed
  <2>2. \A j \in Ids : /\ row'[j].mode = row[j].mode /\ row'[j].expires = row[j].expires
                       /\ row'[j].revoked = row[j].revoked
    BY <2>1 DEF TypeOK, StoreTypeOK, Row
  <2>3. UNCHANGED <<clock, disk, create, sweep, stored, exposed>>
    BY <1>10 DEF Touch, TouchLastServed
  <2>4. QED
    BY <1>7, <2>2, <2>3 DEF IsActive
<1>11. ASSUME NEW s \in Sweepers, SweepList(s), UNCHANGED <<storeVars, clock, disk, create>>
       PROVE  ContentInv'
  <2>1. /\ sweep' = [sweep EXCEPT ![s] = [NoSweep EXCEPT !.pc = "readdir", !.keep = ActiveSnapshots(clock)]]
        /\ exposed' = exposed \cup Copying
    BY <1>11 DEF SweepList
  <2>2. /\ sweep'[s].pc = "readdir" /\ sweep'[s].keep = ActiveSnapshots(clock)
        /\ \A t \in Sweepers : t # s => sweep'[t] = sweep[t]
    BY <2>1 DEF TypeOK, NoSweep
  <2>3. ASSUME NEW j \in Ids PROVE Goal(j)
    <3>1. Vital(j)' <=> Vital(j)
      BY <1>11 DEF Vital, Copying, IsActive, storeVars
    <3>2. Content(j)'
      BY <1>a, <1>11, <2>1 DEF Content, IsActive, storeVars
    <3>3. Swept(s, j)'
      BY <2>1, <2>2, <3>1 DEF Swept, Vital, ActiveSnapshots
    <3>4. \A t \in Sweepers : t # s => Swept(t, j)'
      BY <1>a, <1>11, <2>1, <2>2, <3>1 DEF Swept
    <3>5. QED
      BY <3>2, <3>3, <3>4
  <2>4. QED
    BY <1>0, <2>3
\* A sweep that does not list the table: what it takes up it may remove.
<1>12. ASSUME NEW s \in Sweepers, UNCHANGED <<storeVars, clock, create, exposed>>,
              \A t \in Sweepers : t # s => sweep'[t] = sweep[t],
              \A j \in Ids : disk'[j] = disk[j] \/ ~Vital(j) \/ j \in exposed,
              \A j \in Ids : disk'[j] = disk[j] \/ disk'[j] = {},
              \A j \in Ids : Swept(s, j)'
       PROVE  ContentInv'
  <2>1. ASSUME NEW j \in Ids PROVE Goal(j)
    <3>1. Vital(j)' <=> Vital(j)
      BY <1>12 DEF Vital, Copying, IsActive, storeVars
    <3>2. Content(j)'
      BY <1>a, <1>12 DEF Content, Vital, Copying, IsActive, storeVars
    <3>3. \A t \in Sweepers : t # s => Swept(t, j)'
      BY <1>a, <1>12, <3>1 DEF Swept
    <3>4. QED
      BY <1>12, <3>2, <3>3
  <2>2. QED
    BY <1>0, <2>1
<1>13. ASSUME NEW s \in Sweepers, SweepReadDir(s) PROVE ContentInv'
  <2>1. /\ sweep' = [sweep EXCEPT ![s] = [sweep[s] EXCEPT !.pc = "remove", !.keep = {},
                                            !.todo = {id \in Ids : disk[id] # {}} \ sweep[s].keep]]
        /\ sweep[s].pc = "readdir"
        /\ UNCHANGED <<storeVars, clock, disk, create, exposed>>
    BY <1>13 DEF SweepReadDir
  <2>2. /\ sweep'[s].pc = "remove" /\ sweep'[s].todo = {id \in Ids : disk[id] # {}} \ sweep[s].keep
        /\ \A t \in Sweepers : t # s => sweep'[t] = sweep[t]
    BY <2>1 DEF TypeOK, SweepState
  <2>3. ASSUME NEW j \in Ids PROVE Swept(s, j)'
    <3>1. Vital(j)' <=> Vital(j)
      BY <2>1 DEF Vital, Copying, IsActive, storeVars
    <3>2. QED
      BY <1>a, <2>1, <2>2, <3>1 DEF Swept, Content
  <2>4. QED
    BY <1>12, <2>1, <2>2, <2>3
<1>14. ASSUME NEW s \in Sweepers, NEW id \in Ids, SweepRemove(s, id) \/ SweepSkip(s, id)
       PROVE  ContentInv'
  <2>1. /\ sweep' = [sweep EXCEPT ![s] = [sweep[s] EXCEPT !.todo = sweep[s].todo \ {id}]]
        /\ sweep[s].pc = "remove" /\ id \in sweep[s].todo
        /\ UNCHANGED <<storeVars, clock, create, exposed>>
    BY <1>14 DEF SweepRemove, SweepSkip
  <2>2. \A j \in Ids : disk'[j] = disk[j] \/ (j = id /\ disk'[j] = {})
    BY <1>14 DEF SweepRemove, SweepSkip, TypeOK
  <2>3. /\ sweep'[s].pc = "remove" /\ sweep'[s].todo \subseteq sweep[s].todo
        /\ \A t \in Sweepers : t # s => sweep'[t] = sweep[t]
    BY <2>1 DEF TypeOK, SweepState
  <2>4. ~Vital(id) \/ id \in exposed
    BY <1>a, <2>1 DEF Swept
  <2>5. ASSUME NEW j \in Ids PROVE Swept(s, j)'
    <3>1. Vital(j)' <=> Vital(j)
      BY <2>1 DEF Vital, Copying, IsActive, storeVars
    <3>2. QED
      BY <1>a, <2>1, <2>3, <3>1 DEF Swept
  <2>6. QED
    BY <1>12, <2>1, <2>2, <2>3, <2>4, <2>5
<1>15. ASSUME NEW s \in Sweepers,
              SweepEnd(s) \/ SweepAbort(s) \/ Listen(s) \/ BindFail(s) \/ BootKilled(s)
       PROVE  ContentInv'
  <2>1. UNCHANGED <<storeVars, clock, disk, create, exposed>>
    BY <1>15 DEF SweepEnd, SweepAbort, Listen, BindFail, BootKilled
  <2>2. /\ sweep'[s].pc \in {"idle", "bind"}
        /\ \A t \in Sweepers : t # s => sweep'[t] = sweep[t]
    BY <1>15 DEF SweepEnd, SweepAbort, Listen, BindFail, BootKilled, BootOver, AfterSweep, TypeOK, NoSweep
  <2>3. \A j \in Ids : Swept(s, j)'
    BY <2>2 DEF Swept
  <2>4. QED
    BY <1>12, <2>1, <2>2, <2>3
<1>16. CASE Tick
  <2>1. clock' = clock + 1 /\ UNCHANGED <<storeVars, disk, create, sweep, exposed>>
    BY <1>16 DEF Tick
  <2>2. ASSUME NEW j \in Ids PROVE IsActive(j, clock)' => IsActive(j, clock)
    BY <2>1 DEF IsActive, storeVars, TypeOK, StoreTypeOK, Row
  <2>3. ASSUME NEW j \in Ids PROVE Goal(j)
    <3>1. Vital(j)' => Vital(j)
      BY <2>1, <2>2 DEF Vital, Copying, storeVars
    <3>2. QED
      BY <1>a, <2>1, <2>2, <3>1, ContentKept, SweptKept DEF storeVars
  <2>4. QED
    BY <1>0, <2>3
\* A process stops, ends or is killed: handlers are marked or lost.
<1>17. CASE Crash \/ Stop \/ Exit
  <2>1. UNCHANGED <<storeVars, clock, disk, exposed>>
    BY <1>17 DEF Crash, Stop, Exit
  <2>2. ASSUME NEW j \in Ids
        PROVE  \/ create'[j].pc = "ended" /\ create[j].pc # "new"
               \/ /\ create'[j].pc = create[j].pc /\ create'[j].mode = create[j].mode
                  /\ create'[j].left = create[j].left /\ (create[j].pc = "new" => create'[j] = create[j])
    <3>1. create[j] \in CreateState /\ (create[j].old => create[j].pc # "new")
      BY <1>a DEF TypeOK, Content
    <3>2. CASE Stop
      BY <3>1, <3>2 DEF Stop, CreateState
    <3>3. CASE Crash \/ Exit
      BY <3>1, <3>3 DEF Crash, Exit, Ended, FreshCreate
    <3>4. QED
      BY <1>17, <3>2, <3>3
  <2>3. \A s \in Sweepers : sweep'[s] = sweep[s] \/ sweep'[s].pc = "idle"
    BY <1>17 DEF Crash, Stop, Exit, TypeOK, NoSweep
  <2>4. ASSUME NEW j \in Ids PROVE Goal(j)
    <3>1. Vital(j)' => Vital(j)
      BY <2>1, <2>2 DEF Vital, Copying, IsActive, storeVars
    <3>2. Content(j)'
      BY <1>a, <2>1, <2>2 DEF Content, IsActive, storeVars
    <3>3. QED
      BY <1>a, <2>1, <2>2, <2>3, <3>1, <3>2 DEF Swept
  <2>5. QED
    BY <1>0, <2>4
<1>18. ASSUME UNCHANGED <<storeVars, clock, disk, create, sweep, exposed>> PROVE ContentInv'
  BY <1>18, ContentUntouched
<1>19. Loop \in Sweepers
  BY DEF Sweepers
<1>20. ASSUME NEW id \in Ids, CreateProgress(id) PROVE ContentInv'
  BY <1>2, <1>3, <1>4, <1>5, <1>20 DEF CreateProgress
<1>21. ASSUME NEW r \in Requests, RequestBegin(r) \/ RequestProgress(r) PROVE ContentInv'
  BY <1>8, <1>9, <1>10, <1>18, <1>21
     DEF RequestBegin, RequestProgress, RenewBegin, ViewBegin, RenewNotFound, RevokeReply,
         RevokeLockFail, Authorize, Resolve, LeaveUnmarked
<1>22. ASSUME NEW s \in Sweepers, SweepStep(s) PROVE ContentInv'
  BY <1>13, <1>14, <1>15, <1>22 DEF SweepStep
<1>26. ASSUME NEW s \in Boots, BootStep(s) PROVE ContentInv'
  BY <1>11, <1>15, <1>26 DEF BootStep, Start, Sweepers
<1>23. CASE ProcessStep
  BY <1>11, <1>16, <1>17, <1>19, <1>23 DEF ProcessStep, TickerFires
<1>24. CASE UNCHANGED vars
  BY <1>18, <1>24 DEF vars, daemonVars
<1>25. QED
  BY <1>1, <1>6, <1>20, <1>21, <1>22, <1>23, <1>24, <1>26 DEF Next

LEMMA ContentInductive == Spec => []ContentInv
<1>1. Init => ContentInv
  <2>1. SUFFICES ASSUME Init, NEW id \in Ids
                 PROVE  Content(id) /\ \A s \in Sweepers : Swept(s, id)
    BY DEF ContentInv
  <2>2. create[id].pc = "new" /\ ~create[id].old /\ id \notin stored /\ disk[id] = {}
    BY <2>1 DEF Init, OpenStore, FreshCreate
  <2>3. \A s \in Sweepers : sweep[s].pc = "idle"
    BY <2>1 DEF Init, NoSweep
  <2>4. QED
    BY <2>2, <2>3 DEF Content, Swept
<1>2. TypeOK /\ RevokedInv /\ ContentInv /\ [Next]_vars => ContentInv'
  BY ContentStep
<1>3. QED
  BY <1>1, <1>2, TypeCorrect, RevokedInductive, PTL DEF Spec

\* Content goes missing from an active snapshot share by the named races only.
THEOREM ContentHolds == Spec => []IntactUnlessExposed
<1>1. TypeOK /\ ContentInv => IntactUnlessExposed
  BY DEF ContentInv, Content, IntactUnlessExposed, TypeOK, StoreTypeOK
<1>2. QED
  BY <1>1, TypeCorrect, ContentInductive, PTL

-----------------------------------------------------------------------------
(* The sweep of a boot.  What it has listed it keeps, and what it has found *)
(* and not kept is removed before the process takes the ports; nothing is   *)
(* added behind it but by handlers of the other processes, and those are in *)
(* its "met".  Sweeps of other processes may run beside it: they only       *)
(* remove.                                                                  *)

\* An entry of the directory that belongs to a snapshot share that is not revoked.
Owned(id) == CanUpdate(id) /\ row[id].mode = "snapshot"

\* What the first sweep of s still has to find, to remove, or has finished with.
BootSwept(s, id) ==
    sweep[s].pc # "idle" /\ id \notin met[s] =>
        /\ id \notin Copying
        /\ sweep[s].pc = "readdir" /\ id \in sweep[s].keep => Owned(id)
        /\ sweep[s].pc = "remove" => disk[id] = {} \/ id \in sweep[s].todo \/ Owned(id)
        /\ sweep[s].pc = "bind" => disk[id] = {} \/ Owned(id)

BootInv == \A s \in Boots, id \in Ids : BootSwept(s, id)

\* A step beside the sweep of s that copies, gives away or adds nothing of a share it has not met.
LEMMA BootKept ==
    ASSUME NEW s \in Boots, NEW id \in Ids, BootSwept(s, id), sweep'[s] = sweep[s],
           sweep[s].pc # "idle" /\ id \notin met'[s] =>
             /\ id \notin met[s]
             /\ id \in Copying' => id \in Copying
             /\ Owned(id) => Owned(id)'
             /\ disk'[id] \subseteq disk[id]
    PROVE  BootSwept(s, id)'
  BY DEF BootSwept

\* A share that is not revoked stays so, unless it is this step that revokes it.
LEMMA OwnedKept ==
    ASSUME TypeOK, NEW id \in Ids, Owned(id),
           \/ UNCHANGED storeVars
           \/ \E j \in Ids : CreateInsert(j)
           \/ \E r \in Requests : RenewUpdate(r) \/ Touch(r) \/ \E j \in Ids \ {id} : RevokeUpdate(r, j)
    PROVE  Owned(id)'
<1>1. row \in [Ids -> Row] /\ stored \subseteq Ids /\ row[id] \in Row
  BY DEF TypeOK, StoreTypeOK
<1>2. ASSUME UNCHANGED storeVars PROVE Owned(id)'
  BY <1>2 DEF storeVars, Owned, CanUpdate
<1>3. ASSUME NEW j \in Ids, CreateInsert(j) PROVE Owned(id)'
  BY <1>1, <1>3 DEF CreateInsert, CreateShare, Owned, CanUpdate
<1>4. ASSUME NEW r \in Requests, RenewUpdate(r) PROVE Owned(id)'
  BY <1>1, <1>4 DEF RenewUpdate, RenewShare, CanUpdate, Owned, Row
<1>5. ASSUME NEW r \in Requests, NEW j \in Ids \ {id}, RevokeUpdate(r, j) PROVE Owned(id)'
  BY <1>1, <1>5 DEF RevokeUpdate, RevokeShare, CanUpdate, Owned
<1>6. ASSUME NEW r \in Requests, Touch(r) PROVE Owned(id)'
  <2>1. row' = [row EXCEPT ![reqs[r].id] = [row[reqs[r].id] EXCEPT !.served = TRUE]] /\ stored' = stored
    BY <1>6 DEF Touch, TouchLastServed
  <2>2. row'[id].mode = row[id].mode /\ row'[id].revoked = row[id].revoked
    BY <1>1, <2>1 DEF Row
  <2>3. QED
    BY <2>1, <2>2 DEF Owned, CanUpdate
<1>7. QED
  BY <1>2, <1>3, <1>4, <1>5, <1>6

LEMMA BootInductive ==
    ASSUME "sweep" \notin Faults, TypeOK, ContentInv, BootInv, [Next]_vars,
           NEW s \in Boots, NEW id \in Ids
    PROVE  BootSwept(s, id)'
<1>a. /\ BootSwept(s, id) /\ Content(id)
      /\ s \in Sweepers /\ s # Loop /\ sweep[s] \in SweepState
      /\ create \in [Ids -> CreateState] /\ disk \in [Ids -> SUBSET Parts] /\ met \in [Boots -> SUBSET Ids]
      /\ sweep \in [Sweepers -> SweepState]
  BY ShareDaemonAssumption DEF BootInv, ContentInv, Sweepers, TypeOK
\* A share the boot has met by the end of the step is out of the question.
<1>b. ASSUME sweep'[s] = sweep[s], sweep[s].pc # "idle" => id \in met'[s] PROVE BootSwept(s, id)'
  BY <1>b DEF BootSwept
<1>c. ASSUME UNCHANGED <<storeVars, create>>, sweep'[s] = sweep[s], met'[s] = met[s],
             disk'[id] \subseteq disk[id]
      PROVE  BootSwept(s, id)'
  <2>1. (Owned(id) => Owned(id)') /\ Copying' = Copying
    BY <1>c, OwnedKept DEF Copying
  <2>2. QED
    BY <1>a, <1>c, <2>1, BootKept
\* The handler of a create, whichever process it is of, moves on or ends.
<1>d. ASSUME NEW j \in Ids, NEW c, create' = [create EXCEPT ![j] = c],
             c.pc \in {"copy", "insert"} /\ c.mode = "snapshot" => j \in Copying,
             \/ UNCHANGED storeVars
             \/ CreateInsert(j),
             UNCHANGED <<sweep, met>>,
             disk'[id] \subseteq disk[id] \/ (j = id /\ j \in Copying)
      PROVE  BootSwept(s, id)'
  <2>1. id \in Copying' => id \in Copying
    BY <1>a, <1>d DEF Copying
  <2>2. Owned(id) => Owned(id)'
    BY <1>d, OwnedKept
  <2>3. sweep[s].pc # "idle" /\ id \in Copying => id \in met[s]
    BY <1>a DEF BootSwept
  <2>4. CASE disk'[id] \subseteq disk[id]
    BY <1>a, <1>d, <2>1, <2>2, <2>4, BootKept
  <2>5. CASE j = id /\ j \in Copying
    BY <1>b, <1>d, <2>3, <2>5
  <2>6. QED
    BY <1>d, <2>4, <2>5
<1>1. ASSUME NEW j \in Ids, CreateBegin(j) PROVE BootSwept(s, id)'
  <2>0. PICK mode \in Modes, secs \in Seconds, old \in BOOLEAN :
          /\ create' = [create EXCEPT ![j] =
                          [pc      |-> IF mode = "snapshot" THEN "copy" ELSE "insert",
                           mode    |-> mode,
                           expires |-> clock + TTL(secs),
                           left    |-> IF mode = "snapshot" THEN Parts ELSE {},
                           old     |-> old]]
          /\ met' = IF mode = "snapshot" THEN Meet(j) ELSE met
    BY <1>1 DEF CreateBegin
  <2> DEFINE c == [pc      |-> IF mode = "snapshot" THEN "copy" ELSE "insert",
                   mode    |-> mode,
                   expires |-> clock + TTL(secs),
                   left    |-> IF mode = "snapshot" THEN Parts ELSE {},
                   old     |-> old]
  <2>1. /\ create' = [create EXCEPT ![j] = c]
        /\ c.pc = (IF mode = "snapshot" THEN "copy" ELSE "insert") /\ c.mode = mode
        /\ met' = IF mode = "snapshot" THEN Meet(j) ELSE met
    BY <2>0
  <2> HIDE DEF c
  <2>2. UNCHANGED <<storeVars, disk, sweep>>
    BY <1>1 DEF CreateBegin
  <2>3. CASE mode # "snapshot"
    BY <1>d, <2>1, <2>2, <2>3
  <2>4. CASE mode = "snapshot" /\ j = id
    BY <1>a, <1>b, <2>1, <2>2, <2>4 DEF Meet
  <2>5. CASE mode = "snapshot" /\ j # id
    <3>1. sweep[s].pc # "idle" /\ id \notin met'[s] => id \notin met[s]
      BY <1>a, <2>1, <2>5 DEF Meet
    <3>2. id \in Copying' => id \in Copying
      BY <1>a, <2>1, <2>5 DEF Copying
    <3>3. Owned(id) => Owned(id)'
      BY <2>2, OwnedKept
    <3>4. QED
      BY <1>a, <2>2, <3>1, <3>2, <3>3, BootKept
  <2>6. QED
    BY <2>3, <2>4, <2>5
<1>2. ASSUME NEW j \in Ids, CreateProgress(j) PROVE BootSwept(s, id)'
  <2> create[j] \in CreateState
    BY <1>a
  <2>1. CASE CopyPart(j)
    <3>0. PICK f \in create[j].left :
            create' = [create EXCEPT ![j].left = @ \ {f},
                                     ![j].pc = IF create[j].left = {f} THEN "insert" ELSE "copy"]
      BY <2>1 DEF CopyPart
    <3>1. PICK p \in {"copy", "insert"}, l \in SUBSET Parts :
            create' = [create EXCEPT ![j] = [create[j] EXCEPT !.left = l, !.pc = p]]
      <4>1. create[j].left \ {f} \in SUBSET Parts
        BY DEF CreateState
      <4>2. (IF create[j].left = {f} THEN "insert" ELSE "copy") \in {"copy", "insert"}
        OBVIOUS
      <4>3. create' = [create EXCEPT ![j] = [create[j] EXCEPT !.left = create[j].left \ {f},
                              !.pc = IF create[j].left = {f} THEN "insert" ELSE "copy"]]
        BY <3>0
      <4>4. QED
        BY <4>1, <4>2, <4>3
    <3>2. j \in Copying
      BY <2>1 DEF CopyPart, ContentInv, Content, Copying
    <3>3. UNCHANGED <<storeVars, sweep, met>> /\ (j # id => disk'[id] = disk[id])
      BY <1>a, <2>1 DEF CopyPart
    <3>4. QED
      BY <1>d, <3>1, <3>2, <3>3
  <2>2. CASE CopyFail(j) \/ CreateInsertFail(j) \/ CreateLockFail(j) \/ CreateReply(j)
    <3>1. create' = [create EXCEPT ![j] = Ended] /\ UNCHANGED <<storeVars, sweep, met>>
      BY <2>2 DEF CopyFail, CreateInsertFail, CreateLockFail, CreateReply
    <3>2. disk'[id] \subseteq disk[id]
      BY <1>a, <2>2 DEF CopyFail, CreateInsertFail, CreateLockFail, CreateReply
    <3>3. QED
      BY <1>d, <3>1, <3>2 DEF Ended, FreshCreate
  <2>3. CASE CreateInsert(j)
    <3>1. create' = [create EXCEPT ![j] = [create[j] EXCEPT !.pc = "lock"]] /\ UNCHANGED <<disk, sweep, met>>
      BY <2>3 DEF CreateInsert
    <3>2. [create[j] EXCEPT !.pc = "lock"].pc = "lock"
      BY DEF CreateState
    <3>3. QED
      BY <1>d, <2>3, <3>1, <3>2
  <2>4. QED
    BY <1>2, <2>1, <2>2, <2>3 DEF CreateProgress
<1>3. ASSUME NEW j \in Ids, Cleanup(j) \/ PartlyRemoved(j) PROVE BootSwept(s, id)'
  BY <1>a, <1>c, <1>3 DEF Cleanup, PartlyRemoved
<1>4. ASSUME NEW r \in Requests, RequestBegin(r) PROVE BootSwept(s, id)'
  <2>1. PICK j \in Ids : RenewBegin(r, j) \/ RevokeUpdate(r, j) \/ ViewBegin(r, j)
    BY <1>4 DEF RequestBegin
  <2>2. CASE RenewBegin(r, j) \/ ViewBegin(r, j)
    BY <1>c, <2>2 DEF RenewBegin, ViewBegin
  <2>3. CASE RevokeUpdate(r, j)
    <3>1. met' = Meet(j) /\ UNCHANGED <<sweep, create, disk>>
      BY <2>3 DEF RevokeUpdate
    <3>2. CASE j = id
      BY <1>a, <1>b, <3>1, <3>2 DEF Meet
    <3>3. CASE j # id
      <4>1. sweep[s].pc # "idle" /\ id \notin met'[s] => id \notin met[s]
        BY <1>a, <3>1 DEF Meet
      <4>2. Owned(id) => Owned(id)'
        BY <2>3, <3>3, OwnedKept
      <4>3. Copying' = Copying
        BY <3>1 DEF Copying
      <4>4. QED
        BY <1>a, <3>1, <4>1, <4>2, <4>3, BootKept
    <3>4. QED
      BY <3>2, <3>3
  <2>4. QED
    BY <2>1, <2>2, <2>3
<1>5. ASSUME NEW r \in Requests, RequestProgress(r) PROVE BootSwept(s, id)'
  <2>1. CASE RenewUpdate(r) \/ Touch(r)
    <3>1. UNCHANGED <<create, disk, sweep, met>>
      BY <2>1 DEF RenewUpdate, Touch
    <3>2. Owned(id) => Owned(id)'
      BY <2>1, OwnedKept
    <3>3. Copying' = Copying
      BY <3>1 DEF Copying
    <3>4. QED
      BY <1>a, <3>1, <3>2, <3>3, BootKept
  <2>2. CASE ~(RenewUpdate(r) \/ Touch(r))
    BY <1>c, <1>5, <2>2 DEF RequestProgress, RenewNotFound, RevokeReply, RevokeLockFail, Authorize,
       Resolve, LeaveUnmarked
  <2>3. QED
    BY <2>1, <2>2
\* The sweeps of the others only remove.
<1>6. ASSUME NEW t \in Sweepers, t # s, SweepStep(t) PROVE BootSwept(s, id)'
  BY <1>a, <1>c, <1>6 DEF SweepStep, SweepReadDir, SweepRemove, SweepSkip, SweepEnd, SweepAbort
<1>7. CASE SweepStep(s)
  <2>1. CASE SweepReadDir(s)
    <3>1. /\ sweep[s].pc = "readdir" /\ sweep'[s].pc = "remove"
          /\ sweep'[s].todo = {i \in Ids : disk[i] # {}} \ sweep[s].keep
          /\ UNCHANGED <<storeVars, disk, create, met>>
      BY <1>a, <2>1 DEF SweepReadDir, SweepState
    <3>2. Owned(id)' <=> Owned(id)
      BY <3>1 DEF Owned, CanUpdate, storeVars
    <3>3. QED
      BY <1>a, <3>1, <3>2 DEF BootSwept, Copying
  <2>2. ASSUME NEW j \in Ids, SweepRemove(s, j) PROVE BootSwept(s, id)'
    <3>1. /\ sweep[s].pc = "remove" /\ sweep'[s].pc = "remove"
          /\ sweep'[s].todo = sweep[s].todo \ {j}
          /\ disk'[j] = {} /\ \A i \in Ids : i # j => disk'[i] = disk[i]
          /\ UNCHANGED <<storeVars, create, met>>
      BY <1>a, <2>2 DEF SweepRemove, SweepState
    <3>2. Owned(id)' <=> Owned(id)
      BY <3>1 DEF Owned, CanUpdate, storeVars
    <3>3. QED
      BY <1>a, <3>1, <3>2 DEF BootSwept, Copying
  <2>3. CASE SweepEnd(s)
    <3>1. /\ sweep[s].pc = "remove" /\ sweep[s].todo = {} /\ sweep'[s].pc = "bind"
          /\ UNCHANGED <<storeVars, disk, create, met>>
      BY <1>a, <2>3 DEF SweepEnd, AfterSweep, NoSweep
    <3>2. Owned(id)' <=> Owned(id)
      BY <3>1 DEF Owned, CanUpdate, storeVars
    <3>3. QED
      BY <1>a, <3>1, <3>2 DEF BootSwept, Copying
  <2>4. QED
    BY <1>7, <2>1, <2>2, <2>3 DEF SweepStep, SweepSkip, SweepAbort
<1>8. ASSUME NEW t \in Boots, t # s, BootStep(t) PROVE BootSwept(s, id)'
  BY <1>a, <1>c, <1>8 DEF BootStep, Start, SweepList, Listen, BindFail, BootKilled, BootOver
<1>9. CASE BootStep(s)
  <2>1. CASE Start(s)
    <3>1. /\ sweep'[s].pc = "readdir" /\ sweep'[s].keep = ActiveSnapshots(clock)
          /\ met'[s] = Copying /\ UNCHANGED <<storeVars, create>>
      BY <1>a, <2>1 DEF Start, SweepList, NoSweep
    <3>2. id \in ActiveSnapshots(clock) => Owned(id)'
      BY <3>1 DEF storeVars, ActiveSnapshots, IsActive, Owned, CanUpdate
    <3>3. QED
      BY <3>1, <3>2 DEF BootSwept, Copying
  <2>2. CASE Listen(s) \/ BindFail(s) \/ BootKilled(s)
    <3>1. sweep'[s].pc = "idle"
      BY <1>a, <2>2 DEF Listen, BindFail, BootKilled, BootOver, NoSweep
    <3>2. QED
      BY <3>1 DEF BootSwept
  <2>3. QED
    BY <1>9, <2>1, <2>2 DEF BootStep
<1>10. CASE ProcessStep
  <2>1. CASE Tick \/ TickerFires
    BY <1>a, <1>c, <2>1 DEF Tick, TickerFires, SweepList
  <2>2. CASE Crash \/ Stop \/ Exit
    <3>1. UNCHANGED <<storeVars, disk, met>> /\ sweep'[s] = sweep[s]
      BY <1>a, <2>2 DEF Crash, Stop, Exit
    <3>2. \/ create'[id].pc = "ended"
          \/ create'[id].pc = create[id].pc /\ create'[id].mode = create[id].mode
      BY <1>a, <2>2 DEF Crash, Stop, Exit, Ended, FreshCreate, CreateState
    <3>3. id \in Copying' => id \in Copying
      BY <3>2 DEF Copying
    <3>4. Owned(id) => Owned(id)'
      BY <3>1, OwnedKept
    <3>5. QED
      BY <1>a, <3>1, <3>3, <3>4, BootKept
  <2>3. QED
    BY <1>10, <2>1, <2>2 DEF ProcessStep
<1>11. CASE UNCHANGED vars
  BY <1>c, <1>11 DEF vars, daemonVars
<1>12. QED
  BY <1>1, <1>2, <1>3, <1>4, <1>5, <1>6, <1>7, <1>8, <1>9, <1>10, <1>11 DEF Next

\* A process whose first sweep met no error takes the ports over a directory in which every
\* entry belongs to a snapshot share that is not revoked, whatever crashes and shutdowns left
\* behind and whatever other processes sweep meanwhile; but for the shares that a handler of
\* another process, also of one that is stopping, copied or revoked beside that sweep.
THEOREM BootHolds ==
    ASSUME "sweep" \notin Faults
    PROVE  Spec => BootLeavesNoOrphan
<1>1. Init => BootInv
  BY DEF Init, BootInv, BootSwept, NoSweep, Sweepers
<1>2. TypeOK /\ ContentInv /\ BootInv /\ [Next]_vars => BootInv'
  BY BootInductive DEF BootInv
<1>3. TypeOK /\ BootInv /\ [Next]_vars
        => [\A s \in Boots : Listen(s)
              => \A id \in Ids \ met[s] : disk[id] # {} => CanUpdate(id) /\ row[id].mode = "snapshot"]_vars
  BY DEF Listen, BootInv, BootSwept, Owned
<1>4. QED
  BY <1>1, <1>2, <1>3, TypeCorrect, ContentInductive, PTL DEF Spec, BootLeavesNoOrphan

-----------------------------------------------------------------------------
(* The daemon keeps the promise of its links: ShareDaemon implements        *)
(* ShareLedger under the mapping of its instance Ledger.                    *)
(*                                                                         *)
(* The mapping reads the table, the clock and the visits, so the lemmas     *)
(* below go through the ways a step may change those three; everything the  *)
(* daemon does to files, sweeps, handlers and processes is a stutter.       *)

-----------------------------------------------------------------------------
(* A visit that was let in is for a share that has a row: rows stay.        *)

GrantedInv == \A r \in Requests : reqs[r].pc \in {"resolve", "touch"} => reqs[r].id \in stored

LEMMA GrantedInductive == Spec => []GrantedInv
<1>1. Init => GrantedInv
  BY DEF Init, GrantedInv, Idle
<1>2. TypeOK /\ GrantedInv /\ [Next]_vars => GrantedInv'
  <2> SUFFICES ASSUME TypeOK, GrantedInv, [Next]_vars PROVE GrantedInv'
    OBVIOUS
  <2>1. reqs \in [Requests -> RequestState]
    BY DEF TypeOK
  <2>2. ASSUME UNCHANGED reqs, stored \subseteq stored' PROVE GrantedInv'
    BY <2>2 DEF GrantedInv
  <2>3. ASSUME NEW r \in Requests, stored' = stored, NEW new,
               reqs' = [reqs EXCEPT ![r] = new], new.pc \notin {"resolve", "touch"}
        PROVE  GrantedInv'
    BY <2>1, <2>3 DEF GrantedInv
  <2>4. ASSUME NEW id \in Ids, CreateBegin(id) \/ CreateProgress(id) \/ Cleanup(id) \/ PartlyRemoved(id)
        PROVE  GrantedInv'
    <3>1. UNCHANGED reqs /\ stored \subseteq stored'
      BY <2>4 DEF CreateBegin, CreateProgress, CopyPart, CopyFail, CreateInsert, CreateShare, CreateInsertFail,
                  CreateReply, CreateLockFail, Cleanup, PartlyRemoved, storeVars
    <3>2. QED
      BY <2>2, <3>1
  <2>5. ASSUME NEW r \in Requests, RequestBegin(r) PROVE GrantedInv'
    <3>1. PICK id \in Ids : RenewBegin(r, id) \/ RevokeUpdate(r, id) \/ ViewBegin(r, id)
      BY <2>5 DEF RequestBegin
    <3>2. CASE RenewBegin(r, id)
      BY <2>3, <3>2 DEF RenewBegin, Idle, storeVars
    <3>3. CASE RevokeUpdate(r, id)
      BY <2>3, <3>3 DEF RevokeUpdate, RevokeShare, Idle
    <3>4. CASE ViewBegin(r, id)
      BY <2>3, <3>4 DEF ViewBegin, Idle, storeVars
    <3>5. QED
      BY <3>1, <3>2, <3>3, <3>4
  <2>6. ASSUME NEW r \in Requests, RequestProgress(r) PROVE GrantedInv'
    <3>1. CASE RenewUpdate(r) \/ RenewNotFound(r) \/ RevokeReply(r) \/ RevokeLockFail(r)
                 \/ LeaveUnmarked(r) \/ Touch(r)
      <4>1. reqs' = [reqs EXCEPT ![r] = Idle] /\ stored' = stored
        BY <3>1 DEF RenewUpdate, RenewShare, RenewNotFound, RevokeReply, RevokeLockFail, LeaveUnmarked,
                    Touch, TouchLastServed, storeVars
      <4>2. QED
        BY <2>3, <4>1 DEF Idle
    <3>2. CASE Authorize(r) \/ Resolve(r)
      <4>1. \/ reqs' = [reqs EXCEPT ![r] = Idle]
            \/ /\ reqs[r].id \in stored
               /\ \E p \in {"resolve", "touch"} : reqs' = [reqs EXCEPT ![r] = [reqs[r] EXCEPT !.pc = p]]
        BY <3>2 DEF Authorize, Resolve, IsActive, GrantedInv
      <4>2. stored' = stored
        BY <3>2 DEF Authorize, Resolve, storeVars
      <4>3. QED
        BY <2>1, <2>3, <4>1, <4>2 DEF GrantedInv, Idle, RequestState
    <3>3. QED
      BY <2>6, <3>1, <3>2 DEF RequestProgress
  <2>7. ASSUME NEW s \in Sweepers, SweepStep(s) PROVE GrantedInv'
    BY <2>2, <2>7 DEF SweepStep, SweepReadDir, SweepRemove, SweepSkip, SweepEnd, SweepAbort, storeVars
  <2>11. ASSUME NEW s \in Boots, BootStep(s) PROVE GrantedInv'
    BY <2>2, <2>11 DEF BootStep, Start, Listen, BindFail, BootKilled, storeVars
  <2>8. CASE ProcessStep
    <3>1. CASE Tick \/ TickerFires
      BY <2>2, <3>1 DEF Tick, TickerFires, storeVars
    <3>2. CASE Crash \/ Stop \/ Exit
      <4>1. \A r \in Requests : \/ reqs'[r].pc = "idle"
                                \/ reqs'[r].pc = reqs[r].pc /\ reqs'[r].id = reqs[r].id
        BY <2>1, <3>2 DEF Crash, Stop, Exit, Idle, RequestState
      <4>2. stored' = stored
        BY <3>2 DEF Crash, Stop, Exit, storeVars
      <4>3. QED
        BY <4>1, <4>2 DEF GrantedInv
    <3>3. QED
      BY <2>8, <3>1, <3>2 DEF ProcessStep
  <2>9. CASE UNCHANGED vars
    BY <2>2, <2>9 DEF vars, daemonVars, storeVars
  <2>10. QED
    BY <2>4, <2>5, <2>6, <2>7, <2>8, <2>9, <2>11 DEF Next
<1>3. QED
  BY <1>1, <1>2, TypeCorrect, PTL DEF Spec

-----------------------------------------------------------------------------
(* Steps of the ledger *)

\* A step that leaves the table, the clock and the visits alone is a stutter.
LEMMA LedgerStutters ==
    ASSUME UNCHANGED <<storeVars, clock>>,
           \A r \in Requests : Visit(r)' = Visit(r)
    PROVE  UNCHANGED Ledger!ledgerVars
<1>1. [id \in Ids |-> Life(id)]' = [id \in Ids |-> Life(id)]
  BY DEF Life, storeVars
<1>2. [id \in Ids |-> row[id].expires]' = [id \in Ids |-> row[id].expires]
  BY DEF storeVars
<1>3. {id \in stored : row[id].served}' = {id \in stored : row[id].served}
  BY DEF storeVars
<1>4. [r \in Requests |-> Visit(r)]' = [r \in Requests |-> Visit(r)]
  OBVIOUS
<1>5. QED
  BY <1>1, <1>2, <1>3, <1>4 DEF Ledger!ledgerVars

\* One visit moves and nothing else does.
LEMMA VisitMoves ==
    ASSUME NEW r \in Requests, NEW new,
           UNCHANGED <<storeVars, clock>>,
           Visit(r)' = new,
           \A q \in Requests \ {r} : Visit(q)' = Visit(q)
    PROVE  /\ [q \in Requests |-> Visit(q)]' = [[q \in Requests |-> Visit(q)] EXCEPT ![r] = new]
           /\ [id \in Ids |-> Life(id)]' = [id \in Ids |-> Life(id)]
           /\ [id \in Ids |-> row[id].expires]' = [id \in Ids |-> row[id].expires]
           /\ {id \in stored : row[id].served}' = {id \in stored : row[id].served}
<1>1. [q \in Requests |-> Visit(q)]' = [[q \in Requests |-> Visit(q)] EXCEPT ![r] = new]
  OBVIOUS
<1>2. QED
  BY <1>1 DEF Life, storeVars

\* A step on the table that leaves the clock alone and keeps every visit.
LEMMA RowsMove ==
    ASSUME TypeOK, clock' = clock,
           \A r \in Requests : Visit(r)' = Visit(r),
           NEW id \in Ids,
           \/ \E mode \in Modes, e \in Nat : CreateShare(id, mode, e)
           \/ \E e \in Nat : RenewShare(id, e)
           \/ RevokeShare(id)
    PROVE  Ledger!Next
<1>1. [r \in Requests |-> Visit(r)]' = [r \in Requests |-> Visit(r)]
  OBVIOUS
<1>2. row \in [Ids -> Row] /\ stored \subseteq Ids
  BY DEF TypeOK, StoreTypeOK
<1>3. CASE \E mode \in Modes, e \in Nat : CreateShare(id, mode, e)
  <2>1. PICK mode \in Modes, e \in Nat : CreateShare(id, mode, e)
    BY <1>3
  <2>2. [i \in Ids |-> Life(i)]' = [[i \in Ids |-> Life(i)] EXCEPT ![id] = "open"]
    BY <1>2, <2>1 DEF CreateShare, Life
  <2>3. [i \in Ids |-> row[i].expires]' = [[i \in Ids |-> row[i].expires] EXCEPT ![id] = e]
    BY <1>2, <2>1 DEF CreateShare
  <2>4. {i \in stored : row[i].served}' = {i \in stored : row[i].served}
    BY <1>2, <2>1 DEF CreateShare
  <2>5. Life(id) = "unused"
    BY <2>1 DEF CreateShare, Life
  <2>6. QED
    BY <1>1, <2>2, <2>3, <2>4, <2>5 DEF Ledger!Next, Ledger!Issue, Ledger!SetExpiry
<1>4. CASE \E e \in Nat : RenewShare(id, e)
  <2>1. PICK e \in Nat : RenewShare(id, e)
    BY <1>4
  <2>2. [i \in Ids |-> Life(i)]' = [i \in Ids |-> Life(i)]
    BY <1>2, <2>1 DEF RenewShare, Life
  <2>3. [i \in Ids |-> row[i].expires]' = [[i \in Ids |-> row[i].expires] EXCEPT ![id] = e]
    BY <1>2, <2>1 DEF RenewShare, Row
  <2>4. {i \in stored : row[i].served}' = {i \in stored : row[i].served}
    BY <1>2, <2>1 DEF RenewShare, Row
  <2>5. Life(id) = "open"
    BY <2>1 DEF RenewShare, CanUpdate, Life
  <2>6. QED
    BY <1>1, <2>2, <2>3, <2>4, <2>5 DEF Ledger!Next, Ledger!Renew, Ledger!SetExpiry
<1>5. CASE RevokeShare(id)
  <2>1. [i \in Ids |-> Life(i)]' = [[i \in Ids |-> Life(i)] EXCEPT ![id] = "revoked"]
    BY <1>2, <1>5 DEF RevokeShare, CanUpdate, Life, Row
  <2>2. [i \in Ids |-> row[i].expires]' = [i \in Ids |-> row[i].expires]
    BY <1>2, <1>5 DEF RevokeShare
  <2>3. {i \in stored : row[i].served}' = {i \in stored : row[i].served}
    BY <1>2, <1>5 DEF RevokeShare, Row
  <2>4. Life(id) = "open"
    BY <1>5 DEF RevokeShare, CanUpdate, Life
  <2>5. QED
    BY <1>1, <2>1, <2>2, <2>3, <2>4 DEF Ledger!Next, Ledger!Revoke
<1>6. QED
  BY <1>3, <1>4, <1>5

\* A visit: its question, the grant or the refusal, the mark.
LEMMA VisitRefines ==
    ASSUME TypeOK, GrantedInv, NEW r \in Requests,
           (\E id \in Ids : ViewBegin(r, id)) \/ Authorize(r) \/ LeaveUnmarked(r) \/ Touch(r)
    PROVE  Ledger!Next
<1>1. /\ reqs \in [Requests -> RequestState]
      /\ reqs[r].pc # "idle" => reqs[r].id \in Ids
      /\ row \in [Ids -> Row]
  BY DEF TypeOK, StoreTypeOK
<1>2. ASSUME NEW id \in Ids, ViewBegin(r, id) PROVE Ledger!Next
  <2>1. Visit(r).pc = "idle"
    BY <1>2 DEF ViewBegin, Visit
  <2>2. UNCHANGED <<storeVars, clock>>
    BY <1>2 DEF ViewBegin
  <2>3. Visit(r)' = [pc |-> "asking", id |-> id]
    BY <1>1, <1>2 DEF ViewBegin, Visit, Idle
  <2>4. \A q \in Requests \ {r} : Visit(q)' = Visit(q)
    BY <1>1, <1>2 DEF ViewBegin, Visit
  <2>5. Ledger!Ask(r, id)
    BY <2>1, <2>2, <2>3, <2>4, VisitMoves DEF Ledger!Ask
  <2>6. QED
    BY <2>5 DEF Ledger!Next
<1>3. ASSUME UNCHANGED <<storeVars, clock>>, Visit(r)' = [pc |-> "idle", id |-> NoId],
             \A q \in Requests \ {r} : Visit(q)' = Visit(q)
      PROVE  Ledger!Next
  <2>1. Ledger!Leave(r)
    BY <1>3, VisitMoves DEF Ledger!Leave, Ledger!NoVisit
  <2>2. QED
    BY <2>1 DEF Ledger!Next
<1>4. CASE Authorize(r)
  <2>1. UNCHANGED <<storeVars, clock>>
    BY <1>4 DEF Authorize
  <2>2. \A q \in Requests \ {r} : Visit(q)' = Visit(q)
    BY <1>1, <1>4 DEF Authorize, Visit
  <2>3. CASE IsActive(reqs[r].id, clock)
    <3>1. Visit(r) = [pc |-> "asking", id |-> reqs[r].id]
      BY <1>4 DEF Authorize, Visit
    <3>2. reqs'[r].pc = "resolve" /\ reqs'[r].id = reqs[r].id
      BY <1>1, <1>4, <2>3 DEF Authorize, RequestState
    <3>3. Visit(r)' = [pc |-> "granted", id |-> reqs[r].id]
      BY <3>2 DEF Visit
    <3>4. [Visit(r) EXCEPT !.pc = "granted"] = [pc |-> "granted", id |-> reqs[r].id]
      BY <3>1
    <3>5. reqs[r].id \in Ids /\ Life(reqs[r].id) = "open" /\ row[reqs[r].id].expires > clock
      BY <1>1, <1>4, <2>3 DEF Authorize, IsActive, Life
    <3>6. Ledger!Grant(r)
      BY <2>1, <2>2, <3>1, <3>3, <3>4, <3>5, VisitMoves DEF Ledger!Grant
    <3>7. QED
      BY <3>6 DEF Ledger!Next
  <2>4. CASE ~IsActive(reqs[r].id, clock)
    <3>1. Visit(r)' = [pc |-> "idle", id |-> NoId]
      BY <1>1, <1>4, <2>4 DEF Authorize, Visit, Idle
    <3>2. QED
      BY <1>3, <2>1, <2>2, <3>1
  <2>5. QED
    BY <2>3, <2>4
<1>5. CASE LeaveUnmarked(r)
  <2>1. Visit(r)' = [pc |-> "idle", id |-> NoId]
    BY <1>1, <1>5 DEF LeaveUnmarked, Visit, Idle
  <2>2. \A q \in Requests \ {r} : Visit(q)' = Visit(q)
    BY <1>1, <1>5 DEF LeaveUnmarked, Visit
  <2>3. QED
    BY <1>3, <1>5, <2>1, <2>2 DEF LeaveUnmarked
<1>6. CASE Touch(r)
  <2>1. Visit(r) = [pc |-> "granted", id |-> reqs[r].id] /\ reqs[r].id \in stored
    BY <1>1, <1>6 DEF Touch, Visit, GrantedInv
  <2>2. Visit(r)' = [pc |-> "idle", id |-> NoId]
    BY <1>1, <1>6 DEF Touch, Visit, Idle
  <2>3. \A q \in Requests \ {r} : Visit(q)' = Visit(q)
    BY <1>1, <1>6 DEF Touch, Visit
  <2>4. [q \in Requests |-> Visit(q)]' =
          [[q \in Requests |-> Visit(q)] EXCEPT ![r] = [pc |-> "idle", id |-> NoId]]
    BY <2>2, <2>3
  <2>5. row' = [row EXCEPT ![reqs[r].id].served = TRUE] /\ stored' = stored /\ clock' = clock
    BY <1>6 DEF Touch, TouchLastServed
  <2>6. [i \in Ids |-> Life(i)]' = [i \in Ids |-> Life(i)]
    BY <1>1, <2>5 DEF Life
  <2>7. [i \in Ids |-> row[i].expires]' = [i \in Ids |-> row[i].expires]
    BY <1>1, <2>5
  <2>8. {i \in stored : row[i].served}' = {i \in stored : row[i].served} \cup {reqs[r].id}
    BY <1>1, <2>1, <2>5 DEF Row, TypeOK, StoreTypeOK
  <2>9. Ledger!Serve(r)
    BY <2>1, <2>4, <2>5, <2>6, <2>7, <2>8 DEF Ledger!Serve, Ledger!NoVisit
  <2>10. QED
    BY <2>9 DEF Ledger!Next
<1>7. QED
  BY <1>2, <1>4, <1>5, <1>6

\* Every step of the daemon is a step of the ledger or a stutter.
LEMMA StepRefines ==
    ASSUME TypeOK, GrantedInv, [Next]_vars
    PROVE  [Ledger!Next]_(Ledger!ledgerVars)
<1>1. reqs \in [Requests -> RequestState]
  BY DEF TypeOK
\* The steps that the ledger does not see.
<1>2. ASSUME UNCHANGED <<storeVars, clock, reqs>> PROVE UNCHANGED Ledger!ledgerVars
  <2>1. \A r \in Requests : Visit(r)' = Visit(r)
    BY <1>2 DEF Visit
  <2>2. QED
    BY <1>2, <2>1, LedgerStutters
<1>3. ASSUME UNCHANGED <<storeVars, clock>>, NEW r \in Requests, NEW new,
             reqs' = [reqs EXCEPT ![r] = new],
             reqs[r].pc \notin {"authorize", "resolve", "touch"},
             new.pc \notin {"authorize", "resolve", "touch"}
      PROVE  UNCHANGED Ledger!ledgerVars
  <2>1. \A q \in Requests : Visit(q)' = Visit(q)
    BY <1>1, <1>3 DEF Visit
  <2>2. QED
    BY <1>3, <2>1, LedgerStutters
<1>4. ASSUME NEW id \in Ids, CreateBegin(id) \/ CreateProgress(id) \/ Cleanup(id) \/ PartlyRemoved(id)
      PROVE  [Ledger!Next]_(Ledger!ledgerVars)
  <2>1. CASE CreateInsert(id)
    <3>1. create[id].mode \in Modes /\ create[id].expires \in Nat
      BY DEF TypeOK, CreateState
    <3>2. \E mode \in Modes, e \in Nat : CreateShare(id, mode, e)
      BY <2>1, <3>1 DEF CreateInsert
    <3>3. clock' = clock /\ \A r \in Requests : Visit(r)' = Visit(r)
      BY <2>1 DEF CreateInsert, Visit
    <3>4. QED
      BY <3>2, <3>3, RowsMove
  <2>2. CASE ~CreateInsert(id)
    <3>1. UNCHANGED <<storeVars, clock, reqs>>
      BY <1>4, <2>2 DEF CreateBegin, CreateProgress, CopyPart, CopyFail, CreateInsertFail, CreateReply,
                        CreateLockFail, Cleanup, PartlyRemoved
    <3>2. QED
      BY <1>2, <3>1
  <2>3. QED
    BY <2>1, <2>2
<1>5. ASSUME NEW r \in Requests, RequestBegin(r) PROVE [Ledger!Next]_(Ledger!ledgerVars)
  <2>1. PICK id \in Ids : RenewBegin(r, id) \/ RevokeUpdate(r, id) \/ ViewBegin(r, id)
    BY <1>5 DEF RequestBegin
  <2>2. CASE RenewBegin(r, id)
    BY <1>3, <2>2 DEF RenewBegin, Idle
  <2>3. CASE RevokeUpdate(r, id)
    <3>1. clock' = clock /\ \A q \in Requests : Visit(q)' = Visit(q)
      BY <1>1, <2>3 DEF RevokeUpdate, Visit, Idle
    <3>2. QED
      BY <2>3, <3>1, RowsMove DEF RevokeUpdate
  <2>4. CASE ViewBegin(r, id)
    BY <2>4, VisitRefines
  <2>5. QED
    BY <2>1, <2>2, <2>3, <2>4
<1>6. ASSUME NEW r \in Requests, RequestProgress(r) PROVE [Ledger!Next]_(Ledger!ledgerVars)
  <2>1. CASE RenewUpdate(r)
    <3>1. reqs[r].id \in Ids /\ reqs[r].expires \in Nat
      BY <1>1, <2>1 DEF RenewUpdate, TypeOK, RequestState
    <3>2. \E e \in Nat : RenewShare(reqs[r].id, e)
      BY <2>1, <3>1 DEF RenewUpdate
    <3>3. clock' = clock /\ \A q \in Requests : Visit(q)' = Visit(q)
      BY <1>1, <2>1 DEF RenewUpdate, Visit, Idle
    <3>4. QED
      BY <3>1, <3>2, <3>3, RowsMove
  <2>2. CASE RenewNotFound(r) \/ RevokeReply(r) \/ RevokeLockFail(r)
    BY <1>3, <2>2 DEF RenewNotFound, RevokeReply, RevokeLockFail, Idle
  <2>3. CASE Resolve(r)
    <3>1. UNCHANGED <<storeVars, clock>> /\ \A q \in Requests : Visit(q)' = Visit(q)
      BY <1>1, <2>3 DEF Resolve, Visit, RequestState
    <3>2. QED
      BY <3>1, LedgerStutters
  <2>4. CASE Authorize(r) \/ LeaveUnmarked(r) \/ Touch(r)
    BY <2>4, VisitRefines
  <2>5. QED
    BY <1>6, <2>1, <2>2, <2>3, <2>4 DEF RequestProgress
<1>7. ASSUME NEW s \in Sweepers, SweepStep(s) PROVE UNCHANGED Ledger!ledgerVars
  BY <1>2, <1>7 DEF SweepStep, SweepReadDir, SweepRemove, SweepSkip, SweepEnd, SweepAbort
<1>11. ASSUME NEW s \in Boots, BootStep(s) PROVE UNCHANGED Ledger!ledgerVars
  BY <1>2, <1>11 DEF BootStep, Start, Listen, BindFail, BootKilled
<1>8. CASE ProcessStep
  <2>1. CASE Tick
    <3>1. Ledger!Tick
      BY <2>1 DEF Tick, Ledger!Tick, Life, Visit, storeVars
    <3>2. QED
      BY <3>1 DEF Ledger!Next
  <2>2. CASE Crash \/ Exit
    <3> DEFINE lost == {r \in Requests : reqs'[r] = Idle}
    <3>1. \A r \in Requests : reqs'[r] = Idle \/ reqs'[r] = reqs[r]
      BY <1>1, <2>2 DEF Crash, Exit
    <3>2. [r \in Requests |-> Visit(r)]' =
            [r \in Requests |-> IF r \in lost THEN [pc |-> "idle", id |-> NoId]
                               ELSE [q \in Requests |-> Visit(q)][r]]
      <4>1. ASSUME NEW r \in Requests
            PROVE  Visit(r)' = IF r \in lost THEN [pc |-> "idle", id |-> NoId] ELSE Visit(r)
        <5>1. CASE reqs'[r] = Idle
          BY <5>1 DEF Visit, Idle
        <5>2. CASE reqs'[r] # Idle
          <6>1. reqs'[r] = reqs[r] /\ r \notin lost
            BY <3>1, <5>2
          <6>2. QED
            BY <6>1 DEF Visit
        <5>3. QED
          BY <5>1, <5>2
      <4> HIDE DEF lost
      <4>2. QED
        BY <4>1
    <3>3. Ledger!Interrupt
      BY <2>2, <3>2 DEF Crash, Exit, Ledger!Interrupt, Ledger!NoVisit, Life, storeVars
    <3>4. QED
      BY <3>3 DEF Ledger!Next
  <2>3. CASE TickerFires
    BY <1>2, <2>3 DEF TickerFires
  <2>4. CASE Stop
    <3>1. \A r \in Requests : Visit(r)' = Visit(r)
      BY <1>1, <2>4 DEF Stop, Visit, RequestState
    <3>2. QED
      BY <2>4, <3>1, LedgerStutters DEF Stop
  <2>5. QED
    BY <1>8, <2>1, <2>2, <2>3, <2>4 DEF ProcessStep
<1>9. CASE UNCHANGED vars
  BY <1>2, <1>9 DEF vars, daemonVars
<1>10. QED
  BY <1>4, <1>5, <1>6, <1>7, <1>8, <1>9, <1>11 DEF Next

\* The daemon implements the promise of its links, whatever happens to the
\* files, the handlers and the process.
THEOREM LedgerImplemented == Spec => ImplementsLedger
<1>1. Init => Ledger!Init
  BY DEF Init, OpenStore, BlankRow, Ledger!Init, Ledger!NoVisit, Life, Visit, Idle
<1>2. TypeOK /\ GrantedInv /\ [Next]_vars => [Ledger!Next]_(Ledger!ledgerVars)
  BY StepRefines
<1>3. QED
  BY <1>1, <1>2, TypeCorrect, GrantedInductive, PTL DEF Spec, ImplementsLedger, Ledger!Spec

=============================================================================
