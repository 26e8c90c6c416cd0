------------------------------ MODULE ShareDaemon ------------------------------
(***************************************************************************)
(* ferryd's handlers over the table of shares and the snapshots directory.  *)
(*                                                                         *)
(* The admin handlers (share/server_admin.go), the public handlers          *)
(* (share/server_public.go), the goroutine a revocation leaves behind and   *)
(* the garbage collection of snapshots (share/server.go) run concurrently   *)
(* and share no lock: each step below is one statement of the table or one  *)
(* operation on the directory, and everything a handler holds between two   *)
(* steps is in its own record.  Every ferryd sweeps the directory before it *)
(* binds its ports (server.go:108), also while another one runs, and one    *)
(* that is told to stop gives up its ports first and lets its handlers run  *)
(* on for up to five seconds (server.go:188-194).                           *)
(***************************************************************************)
EXTENDS ShareStore, FiniteSets

CONSTANTS
    NoId,               \* the id of a request slot nobody uses
    Parts,              \* the files of a source, each copied in one step
    Requests,           \* slots for the requests in flight on existing shares
    Loop,               \* the hourly sweep of the daemon that listens
    Boots,              \* ferryd processes on their way to the ports, each with its first sweep
    Seconds,            \* values of expires_in_seconds
    DefaultTTL,         \* defaultShareTTL, in seconds
    Faults,             \* which operations of the file system may fail
    Overlaps,           \* bound: which processes may be there beside the one that listens:
                        \* "rival", one that boots, "stop", one that is shutting down
    MaxClock,           \* bound: the last second
    MaxCrashes          \* bound: how often a process is stopped or killed

ASSUME ShareDaemonAssumption ==
    /\ NoId \notin Ids
    /\ Parts # {}
    /\ Loop \notin Boots
    /\ Seconds \subseteq Int
    /\ DefaultTTL \in Nat \ {0}
    /\ Faults \subseteq {"copy", "insert", "lock", "sweep"}
    /\ Overlaps \subseteq {"rival", "stop"}
    /\ MaxClock \in Nat
    /\ MaxCrashes \in Nat

VARIABLES
    clock,              \* Unix seconds
    phase,              \* is there a process that holds the ports: "down", "listening"
    stopping,           \* a process gave up its ports and has not ended
    crashes,
    disk,               \* disk[id]: the files under snapshots/id; {} when there is no such entry
    create,             \* create[id]: the handler that drew id
    reqs,               \* reqs[r]: a renew, revoke or public handler
    cleanups,           \* ids whose revocation goroutine has not run yet
    leaving,            \* those of them whose goroutine is of the process that stops
    sweep,              \* sweep[s]: a call of gcSnapshots
    met,                \* history: what other processes worked on beside the sweep of a boot
    acked,              \* history: ids whose revocation was answered 200
    exposed             \* history: snapshots that met a race of IntactUnlessExposed

processVars == <<phase, stopping, crashes, leaving>>
historyVars == <<met, acked, exposed>>
daemonVars == <<clock, processVars, disk, create, reqs, cleanups, sweep, historyVars>>
vars == <<storeVars, daemonVars>>

Sweepers == {Loop} \cup Boots

\* "old" marks a handler of the process that stops.
FreshCreate == [pc |-> "new", mode |-> "live", expires |-> 0, left |-> {}, old |-> FALSE]
Ended == [FreshCreate EXCEPT !.pc = "ended"]
Idle == [pc |-> "idle", id |-> NoId, expires |-> 0, late |-> FALSE, old |-> FALSE]
NoSweep == [pc |-> "idle", keep |-> {}, todo |-> {}]

CreateState == [pc : {"new", "copy", "insert", "lock", "ended"}, mode : Modes,
                expires : Nat, left : SUBSET Parts, old : BOOLEAN]

RequestState == [pc : {"idle", "renew", "revoked", "authorize", "resolve", "touch"},
                 id : Ids \cup {NoId}, expires : Nat, late : BOOLEAN, old : BOOLEAN]

SweepState == [pc : {"idle", "readdir", "remove", "bind"}, keep : SUBSET Ids, todo : SUBSET Ids]

TypeOK ==
    /\ StoreTypeOK
    /\ clock \in Nat
    /\ phase \in {"down", "listening"}
    /\ stopping \in BOOLEAN
    /\ crashes \in Nat
    /\ disk \in [Ids -> SUBSET Parts]
    /\ create \in [Ids -> CreateState]
    /\ reqs \in [Requests -> RequestState]
    /\ cleanups \subseteq Ids
    /\ leaving \subseteq Ids
    /\ sweep \in [Sweepers -> SweepState]
    /\ met \in [Boots -> SUBSET Ids]
    /\ acked \subseteq Ids
    /\ exposed \subseteq Ids
    /\ \A r \in Requests : reqs[r].pc # "idle" => reqs[r].id \in Ids

Init ==
    /\ OpenStore
    /\ clock = 0
    /\ phase = "down"
    /\ stopping = FALSE
    /\ crashes = 0
    /\ disk = [id \in Ids |-> {}]
    /\ create = [id \in Ids |-> FreshCreate]
    /\ reqs = [r \in Requests |-> Idle]
    /\ cleanups = {}
    /\ leaving = {}
    /\ sweep = [s \in Sweepers |-> NoSweep]
    /\ met = [s \in Boots |-> {}]
    /\ acked = {}
    /\ exposed = {}

\* Both handlers that take expires_in_seconds replace a value that is not
\* positive by the default.
TTL(secs) == IF secs <= 0 THEN DefaultTTL ELSE secs

\* A request reaches the process that listens, or, over a connection made
\* before, one that stops.
Answering(old) == IF old THEN stopping ELSE phase = "listening"

\* Which boots have listed the table by now.
Meet(id) == [s \in Boots |-> IF sweep[s].pc = "idle" THEN met[s] ELSE met[s] \cup {id}]

-----------------------------------------------------------------------------
(* handleAdminCreateShare and CreateSnapshot *)

\* The body is decoded, the path is there, now is read and the id is drawn.
\* The refusals before that point change nothing and are left out.
CreateBegin(id) ==
    /\ create[id].pc = "new"
    /\ \E mode \in Modes, secs \in Seconds, old \in BOOLEAN :
         /\ Answering(old)
         /\ create' = [create EXCEPT ![id] =
                         [pc      |-> IF mode = "snapshot" THEN "copy" ELSE "insert",
                          mode    |-> mode,
                          expires |-> clock + TTL(secs),
                          left    |-> IF mode = "snapshot" THEN Parts ELSE {},
                          old     |-> old]]
         /\ met' = IF mode = "snapshot" THEN Meet(id) ELSE met
         /\ exposed' = IF mode = "snapshot" /\ \E s \in Sweepers : sweep[s].pc = "readdir"
                       THEN exposed \cup {id} ELSE exposed
    /\ UNCHANGED <<storeVars, clock, processVars, disk, reqs, cleanups, sweep, acked>>

\* copyFile: makes the directories the file needs, whoever removed them, and
\* the file.
CopyPart(id) ==
    /\ create[id].pc = "copy"
    /\ \E f \in create[id].left :
         /\ disk' = [disk EXCEPT ![id] = @ \cup {f}]
         /\ create' = [create EXCEPT ![id].left = @ \ {f},
                                     ![id].pc = IF create[id].left = {f} THEN "insert" ELSE "copy"]
    /\ UNCHANGED <<storeVars, clock, processVars, reqs, cleanups, sweep, historyVars>>

\* The source is over the limit or cannot be read: what was copied goes, 400 or 500.
CopyFail(id) ==
    /\ "copy" \in Faults
    /\ create[id].pc = "copy"
    /\ disk' = [disk EXCEPT ![id] = {}]
    /\ create' = [create EXCEPT ![id] = Ended]
    /\ UNCHANGED <<storeVars, clock, processVars, reqs, cleanups, sweep, historyVars>>

CreateInsert(id) ==
    /\ create[id].pc = "insert"
    /\ CreateShare(id, create[id].mode, create[id].expires)
    /\ create' = [create EXCEPT ![id].pc = "lock"]
    /\ UNCHANGED <<clock, processVars, disk, reqs, cleanups, sweep, historyVars>>

\* The INSERT fails: no row, CleanupSnapshot, 500.
CreateInsertFail(id) ==
    /\ "insert" \in Faults
    /\ create[id].pc = "insert"
    /\ disk' = [disk EXCEPT ![id] = {}]
    /\ create' = [create EXCEPT ![id] = Ended]
    /\ UNCHANGED <<storeVars, clock, processVars, reqs, cleanups, sweep, historyVars>>

CreateReply(id) ==
    /\ create[id].pc = "lock"
    /\ create' = [create EXCEPT ![id] = Ended]
    /\ UNCHANGED <<storeVars, clock, processVars, disk, reqs, cleanups, sweep, historyVars>>

\* ensurePrivateState fails after the INSERT: the handler takes the same error
\* path as for a failed INSERT, with the row in the table.
CreateLockFail(id) ==
    /\ "lock" \in Faults
    /\ create[id].pc = "lock"
    /\ disk' = [disk EXCEPT ![id] = {}]
    /\ create' = [create EXCEPT ![id] = Ended]
    /\ exposed' = exposed \cup {id}
    /\ UNCHANGED <<storeVars, clock, processVars, reqs, cleanups, sweep, met, acked>>

-----------------------------------------------------------------------------
(* handleAdminRenewShare and the DELETE of handleAdminShareByID *)

\* expiresAt is computed from the time of the request, before the UPDATE.
RenewBegin(r, id) ==
    /\ reqs[r].pc = "idle"
    /\ \E secs \in Seconds, old \in BOOLEAN :
         /\ Answering(old)
         /\ reqs' = [reqs EXCEPT ![r] = [Idle EXCEPT !.pc = "renew", !.id = id, !.old = old,
                                                     !.expires = clock + TTL(secs)]]
    /\ UNCHANGED <<storeVars, clock, processVars, disk, create, cleanups, sweep, historyVars>>

\* The UPDATE.  The lock of the files, the GetShare and the reply that follow
\* change no state.
RenewUpdate(r) ==
    /\ reqs[r].pc = "renew"
    /\ RenewShare(reqs[r].id, reqs[r].expires)
    /\ reqs' = [reqs EXCEPT ![r] = Idle]
    /\ exposed' = IF IsActive(reqs[r].id, clock) THEN exposed ELSE exposed \cup {reqs[r].id}
    /\ UNCHANGED <<clock, processVars, disk, create, cleanups, sweep, met, acked>>

RenewNotFound(r) ==
    /\ reqs[r].pc = "renew"
    /\ ~CanUpdate(reqs[r].id)
    /\ reqs' = [reqs EXCEPT ![r] = Idle]
    /\ UNCHANGED <<storeVars, clock, processVars, disk, create, cleanups, sweep, historyVars>>

\* The UPDATE of a revocation; when no row matches the answer is 404 and
\* nothing changes.
RevokeUpdate(r, id) ==
    /\ reqs[r].pc = "idle"
    /\ RevokeShare(id)
    /\ \E old \in BOOLEAN :
         /\ Answering(old)
         /\ reqs' = [reqs EXCEPT ![r] = [Idle EXCEPT !.pc = "revoked", !.id = id, !.old = old]]
    /\ met' = Meet(id)
    /\ UNCHANGED <<clock, processVars, disk, create, cleanups, sweep, acked, exposed>>

\* 200, then the goroutine that removes the snapshot is started.
RevokeReply(r) ==
    /\ reqs[r].pc = "revoked"
    /\ acked' = acked \cup {reqs[r].id}
    /\ cleanups' = cleanups \cup {reqs[r].id}
    /\ leaving' = IF reqs[r].old THEN leaving \cup {reqs[r].id} ELSE leaving
    /\ reqs' = [reqs EXCEPT ![r] = Idle]
    /\ UNCHANGED <<storeVars, clock, phase, stopping, crashes, disk, create, sweep, met, exposed>>

\* ensurePrivateState fails after the UPDATE: 500, and no goroutine.
RevokeLockFail(r) ==
    /\ "lock" \in Faults
    /\ reqs[r].pc = "revoked"
    /\ reqs' = [reqs EXCEPT ![r] = Idle]
    /\ UNCHANGED <<storeVars, clock, processVars, disk, create, cleanups, sweep, historyVars>>

\* Slip: the goroutine removes the whole snapshots directory.
CleanupAll(id) ==
    /\ id \in cleanups
    /\ cleanups' = cleanups \ {id}
    /\ leaving' = leaving \ {id}
    /\ disk' = [i \in Ids |-> {}]
    /\ UNCHANGED <<storeVars, clock, phase, stopping, crashes, create, reqs, sweep, historyVars>>

Cleanup(id) ==
    /\ id \in cleanups
    /\ cleanups' = cleanups \ {id}
    /\ leaving' = leaving \ {id}
    /\ disk' = [disk EXCEPT ![id] = {}]
    /\ UNCHANGED <<storeVars, clock, phase, stopping, crashes, create, reqs, sweep, historyVars>>

-----------------------------------------------------------------------------
(* handlePreview, handleRaw and handleHTMLArtifact, for a visitor with the link *)

\* Slip: the id of the path does not reach the handler.
ViewWithoutId(r, id) ==
    /\ reqs[r].pc = "idle"
    /\ \E old \in BOOLEAN :
         /\ Answering(old)
         /\ reqs' = [reqs EXCEPT ![r] = [Idle EXCEPT !.pc = "authorize", !.old = old,
                                                     !.late = id \in acked]]
    /\ UNCHANGED <<storeVars, clock, processVars, disk, create, cleanups, sweep, historyVars>>

ViewBegin(r, id) ==
    /\ reqs[r].pc = "idle"
    /\ \E old \in BOOLEAN :
         /\ Answering(old)
         /\ reqs' = [reqs EXCEPT ![r] = [Idle EXCEPT !.pc = "authorize", !.id = id, !.old = old,
                                                     !.late = id \in acked]]
    /\ UNCHANGED <<storeVars, clock, processVars, disk, create, cleanups, sweep, historyVars>>

\* authorizeShareToken: the row is read once and used to the end of the
\* request.  Otherwise 404 or 410.
Authorize(r) ==
    /\ reqs[r].pc = "authorize"
    /\ reqs' = [reqs EXCEPT ![r] = IF IsActive(reqs[r].id, clock)
                                   THEN [reqs[r] EXCEPT !.pc = "resolve"] ELSE Idle]
    /\ UNCHANGED <<storeVars, clock, processVars, disk, create, cleanups, sweep, historyVars>>

\* resolveTarget: a snapshot answers with a file that is still there; a live
\* share with whatever the source is now.
Resolve(r) ==
    /\ reqs[r].pc = "resolve"
    /\ row[reqs[r].id].mode = "snapshot" => disk[reqs[r].id] # {}
    /\ reqs' = [reqs EXCEPT ![r].pc = "touch"]
    /\ UNCHANGED <<storeVars, clock, processVars, disk, create, cleanups, sweep, historyVars>>

\* The visit ends without the mark: nothing is under the path it asked for, a
\* directory is asked for raw, the page cannot be rendered, or /h/ redirected
\* to take the token out of the address.
LeaveUnmarked(r) ==
    /\ reqs[r].pc \in {"resolve", "touch"}
    /\ reqs' = [reqs EXCEPT ![r] = Idle]
    /\ UNCHANGED <<storeVars, clock, processVars, disk, create, cleanups, sweep, historyVars>>

Touch(r) ==
    /\ reqs[r].pc = "touch"
    /\ TouchLastServed(reqs[r].id)
    /\ reqs' = [reqs EXCEPT ![r] = Idle]
    /\ UNCHANGED <<clock, processVars, disk, create, cleanups, sweep, historyVars>>

-----------------------------------------------------------------------------
(* gcSnapshots *)

\* Handlers that have drawn an id for a snapshot and have no row yet.
Copying == {id \in Ids : create[id].pc \in {"copy", "insert"} /\ create[id].mode = "snapshot"}

\* now, then the rows.  A share that expires between the two is kept where it
\* is swept here: the sweep that skips it is SweepSkip.
SweepList(s) ==
    /\ sweep[s].pc = "idle"
    /\ sweep' = [sweep EXCEPT ![s] = [NoSweep EXCEPT !.pc = "readdir", !.keep = ActiveSnapshots(clock)]]
    /\ exposed' = exposed \cup Copying

\* gcTicker
TickerFires ==
    /\ phase = "listening"
    /\ SweepList(Loop)
    /\ UNCHANGED <<storeVars, clock, processVars, disk, create, reqs, cleanups, met, acked>>

\* Slip: only entries of shares that have a row are looked at.
SweepKnownEntries(s) ==
    /\ sweep[s].pc = "readdir"
    /\ sweep' = [sweep EXCEPT ![s].pc = "remove", ![s].keep = {},
                              ![s].todo = {id \in stored : disk[id] # {}} \ sweep[s].keep]
    /\ UNCHANGED <<storeVars, clock, processVars, disk, create, reqs, cleanups, historyVars>>

SweepReadDir(s) ==
    /\ sweep[s].pc = "readdir"
    /\ sweep' = [sweep EXCEPT ![s].pc = "remove", ![s].keep = {},
                              ![s].todo = {id \in Ids : disk[id] # {}} \ sweep[s].keep]
    /\ UNCHANGED <<storeVars, clock, processVars, disk, create, reqs, cleanups, historyVars>>

SweepRemove(s, id) ==
    /\ sweep[s].pc = "remove"
    /\ id \in sweep[s].todo
    /\ disk' = [disk EXCEPT ![id] = {}]
    /\ sweep' = [sweep EXCEPT ![s].todo = @ \ {id}]
    /\ UNCHANGED <<storeVars, clock, processVars, create, reqs, cleanups, historyVars>>

\* RemoveAll's error is dropped and the entry stays.
SweepSkip(s, id) ==
    /\ "sweep" \in Faults
    /\ sweep[s].pc = "remove"
    /\ id \in sweep[s].todo
    /\ sweep' = [sweep EXCEPT ![s].todo = @ \ {id}]
    /\ UNCHANGED <<storeVars, clock, processVars, disk, create, reqs, cleanups, historyVars>>

\* A process that boots goes on to its ports, whatever became of the sweep.
AfterSweep(s) == IF s = Loop THEN NoSweep ELSE [NoSweep EXCEPT !.pc = "bind"]

SweepEnd(s) ==
    /\ sweep[s].pc = "remove"
    /\ sweep[s].todo = {}
    /\ sweep' = [sweep EXCEPT ![s] = AfterSweep(s)]
    /\ UNCHANGED <<storeVars, clock, processVars, disk, create, reqs, cleanups, historyVars>>

\* ReadDir fails; or ListShares did, and nothing was read.
SweepAbort(s) ==
    /\ "sweep" \in Faults
    /\ sweep[s].pc = "readdir"
    /\ sweep' = [sweep EXCEPT ![s] = AfterSweep(s)]
    /\ UNCHANGED <<storeVars, clock, processVars, disk, create, reqs, cleanups, historyVars>>

\* os.RemoveAll, of a sweep or of a revocation's goroutine, on its way through
\* an entry: one of its files is gone.
PartlyRemoved(id) ==
    /\ id \in cleanups \/ \E s \in Sweepers : sweep[s].pc = "remove" /\ id \in sweep[s].todo
    /\ \E f \in disk[id] : disk' = [disk EXCEPT ![id] = @ \ {f}]
    /\ UNCHANGED <<storeVars, clock, processVars, create, reqs, cleanups, sweep, historyVars>>

-----------------------------------------------------------------------------
(* The processes *)

Tick ==
    /\ clock < MaxClock
    /\ clock' = clock + 1
    /\ UNCHANGED <<storeVars, processVars, disk, create, reqs, cleanups, sweep, historyVars>>

\* Slip: the process goes to its ports without the first sweep.
StartUnswept(s) ==
    /\ phase = "down" \/ "rival" \in Overlaps
    /\ sweep[s].pc = "idle"
    /\ sweep' = [sweep EXCEPT ![s].pc = "bind"]
    /\ UNCHANGED <<storeVars, clock, processVars, disk, create, reqs, cleanups, historyVars>>

\* Run: the sweep comes before the listeners, whether or not another process
\* holds the ports, and begins with the rows.
Start(s) ==
    /\ phase = "down" \/ "rival" \in Overlaps
    /\ SweepList(s)
    /\ met' = [met EXCEPT ![s] = Copying]
    /\ UNCHANGED <<storeVars, clock, processVars, disk, create, reqs, cleanups, acked>>

BootOver(s) ==
    /\ sweep' = [sweep EXCEPT ![s] = NoSweep]
    /\ met' = [met EXCEPT ![s] = {}]

\* The ports are free.  That of the admin API always is: listenAdmin unlinks
\* the socket file.
Listen(s) ==
    /\ sweep[s].pc = "bind"
    /\ phase = "down"
    /\ phase' = "listening"
    /\ BootOver(s)
    /\ UNCHANGED <<storeVars, clock, stopping, crashes, leaving, disk, create, reqs, cleanups, acked, exposed>>

\* A port is taken or Tailscale is not up: Run returns the error.
BindFail(s) ==
    /\ sweep[s].pc = "bind"
    /\ BootOver(s)
    /\ UNCHANGED <<storeVars, clock, processVars, disk, create, reqs, cleanups, acked, exposed>>

\* A process is killed in its first sweep.
BootKilled(s) ==
    /\ sweep[s].pc \in {"readdir", "remove"}
    /\ crashes < MaxCrashes
    /\ crashes' = crashes + 1
    /\ BootOver(s)
    /\ UNCHANGED <<storeVars, clock, phase, stopping, leaving, disk, create, reqs, cleanups, acked, exposed>>

\* The signal: Run, between two sweeps, shuts the three servers down.  The step
\* is the moment at which both ports are free; until the process ends its
\* handlers and goroutines run on.  One process at a time is stopping (bound).
Stop ==
    /\ "stop" \in Overlaps
    /\ phase = "listening"
    /\ sweep[Loop].pc = "idle"
    /\ ~stopping
    /\ crashes < MaxCrashes
    /\ crashes' = crashes + 1
    /\ phase' = "down"
    /\ stopping' = TRUE
    /\ create' = [id \in Ids |-> IF create[id].pc \in {"new", "ended"} THEN create[id]
                                 ELSE [create[id] EXCEPT !.old = TRUE]]
    /\ reqs' = [r \in Requests |-> IF reqs[r].pc = "idle" THEN reqs[r] ELSE [reqs[r] EXCEPT !.old = TRUE]]
    /\ leaving' = cleanups
    /\ UNCHANGED <<storeVars, clock, disk, cleanups, sweep, historyVars>>

\* The process that stops ends: its connections are done, or the five seconds
\* are over and the handlers still running are lost.  It waits for no goroutine.
Exit ==
    /\ stopping
    /\ stopping' = FALSE
    /\ create' = [id \in Ids |-> IF create[id].old THEN Ended ELSE create[id]]
    /\ reqs' = [r \in Requests |-> IF reqs[r].old THEN Idle ELSE reqs[r]]
    /\ cleanups' = cleanups \ leaving
    /\ leaving' = {}
    /\ UNCHANGED <<storeVars, clock, phase, crashes, disk, sweep, historyVars>>

\* The process that listens is killed: its handlers and goroutines are lost,
\* the table and the directory stay.
Crash ==
    /\ phase = "listening"
    /\ crashes < MaxCrashes
    /\ crashes' = crashes + 1
    /\ phase' = "down"
    /\ create' = [id \in Ids |-> IF create[id].pc = "new" \/ create[id].old THEN create[id]
                                 ELSE Ended]
    /\ reqs' = [r \in Requests |-> IF reqs[r].old THEN reqs[r] ELSE Idle]
    /\ cleanups' = cleanups \cap leaving
    /\ sweep' = [sweep EXCEPT ![Loop] = NoSweep]
    /\ UNCHANGED <<storeVars, clock, stopping, leaving, disk, historyVars>>

-----------------------------------------------------------------------------
CreateProgress(id) ==
    \/ CopyPart(id) \/ CopyFail(id) \/ CreateInsert(id)
    \/ CreateInsertFail(id) \/ CreateReply(id) \/ CreateLockFail(id)

RequestBegin(r) == \E id \in Ids : RenewBegin(r, id) \/ RevokeUpdate(r, id) \/ ViewBegin(r, id)

RequestProgress(r) ==
    \/ RenewUpdate(r) \/ RenewNotFound(r) \/ RevokeReply(r) \/ RevokeLockFail(r)
    \/ Authorize(r) \/ Resolve(r) \/ LeaveUnmarked(r) \/ Touch(r)

SweepStep(s) ==
    \/ SweepReadDir(s)
    \/ \E id \in Ids : SweepRemove(s, id) \/ SweepSkip(s, id)
    \/ SweepEnd(s) \/ SweepAbort(s)

BootStep(s) == Start(s) \/ Listen(s) \/ BindFail(s) \/ BootKilled(s)

ProcessStep == Tick \/ TickerFires \/ Stop \/ Exit \/ Crash

Next ==
    \/ \E id \in Ids : CreateBegin(id) \/ CreateProgress(id) \/ Cleanup(id) \/ PartlyRemoved(id)
    \/ \E r \in Requests : RequestBegin(r) \/ RequestProgress(r)
    \/ \E s \in Sweepers : SweepStep(s)
    \/ \E s \in Boots : BootStep(s)
    \/ ProcessStep

Spec == Init /\ [][Next]_vars

\* The goroutines of a process are scheduled, the ticker of one that listens
\* ticks, five seconds pass, and launchd (KeepAlive) or the next ferry command
\* starts a process when none listens.  Nothing makes a client send a request,
\* another ferryd boot, or a process find its ports free.
Fairness ==
    /\ \A id \in Ids : WF_vars(CreateProgress(id)) /\ WF_vars(Cleanup(id))
    /\ \A r \in Requests : WF_vars(RequestProgress(r))
    /\ \A s \in Sweepers :
         /\ WF_vars(SweepReadDir(s)) /\ WF_vars(SweepEnd(s))
         /\ \A id \in Ids : WF_vars(SweepRemove(s, id))
    /\ \A s \in Boots : WF_vars(Listen(s) \/ BindFail(s))
    /\ WF_vars(phase = "down" /\ \E s \in Boots : Start(s))
    /\ WF_vars(TickerFires) /\ WF_vars(Exit)

FairSpec == Spec /\ Fairness

-----------------------------------------------------------------------------
(* Correctness *)

\* A visit that began after the revocation of its share was answered is never
\* authorized: authorizeShareToken reads the row afresh for every request, and
\* neither a renewal nor the mark of a late visit brings a revoked row back.
RevokedIsRefused ==
    \A r \in Requests : reqs[r].pc \in {"resolve", "touch"} => ~reqs[r].late

\* A snapshot that may still be served: its handler is between the copy and
\* the insert, or its share is active.
Vital(id) ==
    \/ id \in Copying
    \/ id \in stored /\ row[id].mode = "snapshot" /\ IsActive(id, clock)

\* What the test of gcSnapshots asserts of one call, as an invariant of the
\* daemon: an active snapshot share has its whole content.
ActiveSnapshotIntact ==
    \A id \in stored : row[id].mode = "snapshot" /\ IsActive(id, clock) => disk[id] = Parts

\* Content goes missing from an active share by three races only: a sweep lists
\* the table while the copy is under way (or the copy begins before that sweep
\* reads the directory), a renewal revives a share that had expired, or the
\* lock of the files fails after the insert.  Every other interleaving of
\* create, renew, revoke, its goroutine, sweeps and crashes leaves the content whole.
IntactUnlessExposed ==
    \A id \in stored \ exposed :
        row[id].mode = "snapshot" /\ IsActive(id, clock) => disk[id] = Parts

\* A process that takes the ports has removed what the processes before it
\* left behind: whatever is in the directory then belongs to a share that is
\* not revoked.  Left out are the shares that another process, one that still
\* listened or was stopping, copied or revoked beside this boot's sweep: their
\* files may be there, without a row, under a daemon whose first sweep is over.
BootLeavesNoOrphan ==
    [][\A s \in Boots : Listen(s)
         => \A id \in Ids \ met[s] : disk[id] # {} => CanUpdate(id) /\ row[id].mode = "snapshot"]_vars

\* Files nobody will serve: the handler is gone and the share is not active.
Dead(id) == disk[id] # {} /\ create[id].pc = "ended" /\ ~IsActive(id, clock)

\* The files of a share that expired, was revoked, or never got its row are
\* removed, unless a renewal revives the share first.
DeadSnapshotSwept == \A id \in Ids : Dead(id) ~> ~Dead(id)

\* What the store and the visitors promise, whatever happens to the files.
Visit(r) ==
    [pc |-> IF reqs[r].pc = "authorize" THEN "asking"
            ELSE IF reqs[r].pc \in {"resolve", "touch"} THEN "granted" ELSE "idle",
     id |-> IF reqs[r].pc \in {"authorize", "resolve", "touch"} THEN reqs[r].id ELSE NoId]

Life(id) == IF id \notin stored THEN "unused" ELSE IF row[id].revoked THEN "revoked" ELSE "open"

Ledger == INSTANCE ShareLedger
    WITH life   <- [id \in Ids |-> Life(id)],
         expiry <- [id \in Ids |-> row[id].expires],
         served <- {id \in stored : row[id].served},
         visit  <- [r \in Requests |-> Visit(r)]

ImplementsLedger == Ledger!Spec

=============================================================================
