------------------------------ MODULE DaemonStart ------------------------------
(***************************************************************************)
(* How one ferryd comes up, stays reachable and goes away: share/server.go  *)
(* (Run, listenAdmin), share/token.go (LoadOrCreateSecret), and             *)
(* internal/daemon/daemon.go with share/client.go (Ensure, Health), by      *)
(* which every applied ferry command starts a daemon that is down.          *)
(*                                                                         *)
(* Nothing elects a daemon: any command may spawn one, or have launchd      *)
(* restart its own, and the one that binds the ports wins.  The ports       *)
(* belong to a process and are freed when it ends.  The admin socket is a   *)
(* file: whoever binds it removes the one before, and whoever closes it     *)
(* removes what is there.                                                   *)
(*                                                                         *)
(* pc[d] names the step that process d takes next.                          *)
(***************************************************************************)
EXTENDS Naturals

CONSTANTS
    Daemons,            \* processes; one that ended can be spawned again
    Jobs,               \* the processes of those that launchd runs
    Labels,             \* whether a command may know the label of a job: subset of BOOLEAN
    Clients,            \* processes that call Ensure
    Secrets,            \* what LoadOrCreateSecret may draw
    Free,               \* a port nobody listens on
    NoFile,             \* an admin socket, or a secret, that does not exist
    Stale,              \* the socket file of a process that was killed
    Empty,              \* a secret file that was truncated and not yet written
    Checks,             \* health checks before a client spawns a daemon
    Waits,              \* health checks after it
    MaxFaults,          \* bound: kills and failures
    MaxStops            \* bound: SIGTERMs and kickstarts

ASSUME StartAssumption ==
    /\ Jobs \subseteq Daemons /\ Labels \subseteq BOOLEAN
    /\ {Free, NoFile, Stale} \cap Daemons = {}
    /\ NoFile # Stale
    /\ {NoFile, Empty} \cap Secrets = {}
    /\ Checks \in Nat \ {0}
    /\ Waits \in Nat \ {0}
    /\ MaxFaults \in Nat
    /\ MaxStops \in Nat

VARIABLES
    pc,
    loaded,             \* loaded[d]: the secret d signs with
    public, loopback,   \* who listens on the two ports
    sock,               \* who listens behind the file admin.sock
    secretFile,
    client,             \* client[c]: an Ensure, and the checks it has left
    faults, stops,
    overlapped,         \* history: daemons that bound the socket while another was stopping
    clashed             \* history: processes that began to create the secret beside another

procs == <<pc, loaded>>
files == <<sock, secretFile>>
ports == <<public, loopback>>
bounds == <<faults, stops>>
history == <<overlapped, clashed>>
vars == <<procs, files, ports, client, bounds, history>>

Steps == {"off", "read", "truncate", "write", "public", "loopback", "unlink", "bind",
          "serving", "unwind", "stopLoopback", "stopAdmin"}

Idle == [pc |-> "idle", left |-> 0, label |-> FALSE, spawned |-> FALSE]

TypeOK ==
    /\ pc \in [Daemons -> Steps]
    /\ loaded \in [Daemons -> Secrets \cup {NoFile}]
    /\ public \in Daemons \cup {Free}
    /\ loopback \in Daemons \cup {Free}
    /\ sock \in Daemons \cup {NoFile, Stale}
    /\ secretFile \in Secrets \cup {NoFile, Empty}
    /\ client \in [Clients -> [pc : {"idle", "ask", "probe", "kick", "spawn", "up", "failed"},
                               left : Nat, label : BOOLEAN, spawned : BOOLEAN]]
    /\ \A c \in Clients : client[c].pc \in {"ask", "probe"} => client[c].left > 0
    /\ faults \in Nat
    /\ stops \in Nat
    /\ overlapped \subseteq Daemons
    /\ clashed \subseteq Daemons

Init ==
    /\ pc = [d \in Daemons |-> "off"]
    /\ loaded = [d \in Daemons |-> NoFile]
    /\ public = Free
    /\ loopback = Free
    /\ sock = NoFile
    /\ secretFile = NoFile
    /\ client = [c \in Clients |-> Idle]
    /\ faults = 0
    /\ stops = 0
    /\ overlapped = {}
    /\ clashed = {}

-----------------------------------------------------------------------------
(* NewDaemon: the secret is read, or drawn and written in two steps.        *)

\* Processes between the read that found no secret and their write.
Creating == {d \in Daemons : pc[d] \in {"truncate", "write"}}

\* Slip: an empty file is taken for a secret.
ReadAnySecret(d) ==
    /\ pc[d] = "read"
    /\ IF secretFile # NoFile
       THEN /\ pc' = [pc EXCEPT ![d] = "public"]
            /\ loaded' = [loaded EXCEPT ![d] = secretFile]
            /\ UNCHANGED clashed
       ELSE /\ pc' = [pc EXCEPT ![d] = "truncate"]
            /\ clashed' = IF Creating = {} THEN clashed ELSE clashed \cup {d}
            /\ UNCHANGED loaded
    /\ UNCHANGED <<files, ports, client, bounds, overlapped>>

ReadSecret(d) ==
    /\ pc[d] = "read"
    /\ IF secretFile \in Secrets
       THEN /\ pc' = [pc EXCEPT ![d] = "public"]
            /\ loaded' = [loaded EXCEPT ![d] = secretFile]
            /\ UNCHANGED clashed
       ELSE /\ pc' = [pc EXCEPT ![d] = "truncate"]
            /\ clashed' = IF Creating = {} THEN clashed ELSE clashed \cup {d}
            /\ UNCHANGED loaded
    /\ UNCHANGED <<files, ports, client, bounds, overlapped>>

TruncateSecret(d) ==
    /\ pc[d] = "truncate"
    /\ pc' = [pc EXCEPT ![d] = "write"]
    /\ secretFile' = Empty
    /\ UNCHANGED <<loaded, sock, ports, client, bounds, history>>

\* Slip: the error of the write is dropped.
WriteSecretUnchecked(d) ==
    /\ pc[d] = "write"
    /\ \E s \in Secrets \ {secretFile} :
        /\ \A e \in Daemons : loaded[e] # s
        /\ secretFile' \in {s, secretFile}
        /\ loaded' = [loaded EXCEPT ![d] = s]
    /\ pc' = [pc EXCEPT ![d] = "public"]
    /\ UNCHANGED <<sock, ports, client, bounds, history>>

\* 32 random bytes: a secret that nobody has.
WriteSecret(d) ==
    /\ pc[d] = "write"
    /\ \E s \in Secrets \ {secretFile} :
        /\ \A e \in Daemons : loaded[e] # s
        /\ secretFile' = s
        /\ loaded' = [loaded EXCEPT ![d] = s]
    /\ pc' = [pc EXCEPT ![d] = "public"]
    /\ UNCHANGED <<sock, ports, client, bounds, history>>

-----------------------------------------------------------------------------
(* Run: the two ports, then the admin socket.                               *)

\* The process has ended and its listeners are closed.
Gone(d) ==
    /\ pc' = [pc EXCEPT ![d] = "off"]
    /\ loaded' = [loaded EXCEPT ![d] = NoFile]
    /\ public' = IF public = d THEN Free ELSE public
    /\ loopback' = IF loopback = d THEN Free ELSE loopback
    /\ overlapped' = overlapped \ {d}

ListenPublic(d) ==
    /\ pc[d] = "public"
    /\ public = Free
    /\ public' = d
    /\ pc' = [pc EXCEPT ![d] = "loopback"]
    /\ UNCHANGED <<loaded, loopback, files, client, bounds, history>>

ListenLoopback(d) ==
    /\ pc[d] = "loopback"
    /\ loopback = Free
    /\ loopback' = d
    /\ pc' = [pc EXCEPT ![d] = "unlink"]
    /\ UNCHANGED <<loaded, public, files, client, bounds, history>>

\* Slip: a process that gives up removes the socket file as well.
PortTakenUnlinks(d) ==
    /\ \/ pc[d] = "public" /\ public # Free
       \/ pc[d] = "loopback" /\ loopback # Free
    /\ sock' = NoFile
    /\ Gone(d)
    /\ UNCHANGED <<secretFile, client, bounds, clashed>>

\* A port is taken: the process gives up, and frees what it holds.
PortTaken(d) ==
    /\ \/ pc[d] = "public" /\ public # Free
       \/ pc[d] = "loopback" /\ loopback # Free
    /\ Gone(d)
    /\ UNCHANGED <<files, client, bounds, clashed>>

\* Slip: the stale file is not removed.
LeaveStale(d) ==
    /\ pc[d] = "unlink"
    /\ pc' = [pc EXCEPT ![d] = IF sock = Stale THEN "unwind" ELSE "bind"]
    /\ sock' = IF sock = Stale THEN Stale ELSE NoFile
    /\ UNCHANGED <<loaded, ports, secretFile, client, bounds, history>>

\* os.Remove: the file goes, whoever listens behind it.
UnlinkAdmin(d) ==
    /\ pc[d] = "unlink"
    /\ sock' = NoFile
    /\ pc' = [pc EXCEPT ![d] = "bind"]
    /\ UNCHANGED <<loaded, ports, secretFile, client, bounds, history>>

BindAdmin(d) ==
    /\ pc[d] = "bind"
    /\ sock = NoFile
    /\ sock' = d
    /\ pc' = [pc EXCEPT ![d] = "serving"]
    /\ overlapped' = IF \E e \in Daemons \ {d} : pc[e] = "stopAdmin"
                     THEN overlapped \cup {d} ELSE overlapped
    /\ UNCHANGED <<loaded, ports, secretFile, client, bounds, clashed>>

\* listenAdmin fails after it has removed the file.
BindFails(d) ==
    /\ pc[d] = "bind"
    /\ faults < MaxFaults
    /\ faults' = faults + 1
    /\ Gone(d)
    /\ UNCHANGED <<files, stops, client, clashed>>

-----------------------------------------------------------------------------
(* The end of a process.                                                    *)

\* SIGTERM reaches the select loop: the public listener is closed first.
Terminate(d) ==
    /\ pc[d] = "serving"
    /\ stops < MaxStops
    /\ stops' = stops + 1
    /\ public' = Free
    /\ pc' = [pc EXCEPT ![d] = "stopLoopback"]
    /\ UNCHANGED <<loaded, loopback, files, client, faults, history>>

\* The requests of the public listener have ended, or five seconds have passed.
StopLoopback(d) ==
    /\ pc[d] = "stopLoopback"
    /\ loopback' = Free
    /\ pc' = [pc EXCEPT ![d] = "stopAdmin"]
    /\ UNCHANGED <<loaded, public, files, client, bounds, history>>

\* Closing the admin listener removes the file at its path, and Run returns.
StopAdmin(d) ==
    /\ pc[d] = "stopAdmin"
    /\ sock' = NoFile
    /\ Gone(d)
    /\ UNCHANGED <<secretFile, client, bounds, clashed>>

\* A server fails: the deferred calls close the admin listener, then the ports.
ServeFails(d) ==
    /\ pc[d] = "serving"
    /\ faults < MaxFaults
    /\ faults' = faults + 1
    /\ sock' = NoFile
    /\ pc' = [pc EXCEPT ![d] = "unwind"]
    /\ UNCHANGED <<loaded, ports, secretFile, client, stops, history>>

Unwind(d) ==
    /\ pc[d] = "unwind"
    /\ Gone(d)
    /\ UNCHANGED <<files, client, bounds, clashed>>

\* SIGKILL, a panic, or an error on the way up.  The socket file stays.
Kill(d) ==
    /\ pc[d] # "off"
    /\ faults < MaxFaults
    /\ faults' = faults + 1
    /\ sock' = IF sock = d THEN Stale ELSE sock
    /\ Gone(d)
    /\ UNCHANGED <<secretFile, client, stops, clashed>>

-----------------------------------------------------------------------------
(* Ensure.  A health check asks the admin API and then probes the loopback  *)
(* port; the two answers may come from different processes.                 *)

Serving(d) == pc[d] \in {"serving", "stopLoopback"}

AdminAnswers == \E d \in Daemons : sock = d /\ pc[d] \in {"serving", "stopLoopback", "stopAdmin"}
LoopbackAnswers == \E d \in Daemons : loopback = d /\ Serving(d)

Begin(c) ==
    /\ client[c].pc \in {"idle", "up", "failed"}
    /\ \E label \in Labels :
        client' = [client EXCEPT ![c] =
            [pc |-> "ask", left |-> Checks, label |-> label, spawned |-> FALSE]]
    /\ UNCHANGED <<procs, files, ports, bounds, history>>

\* Where an Ensure goes on when it has so many checks left.
Ahead(left, spawned) ==
    IF left > 0 THEN "ask" ELSE IF spawned THEN "failed" ELSE "spawn"

\* A check failed: check again, or spawn a daemon, or give up.  The first one to fail
\* has the job restarted, if the command knows its label.
Missed(c) ==
    LET me == client[c] IN
    client' = [client EXCEPT
        ![c].pc = IF me.label THEN "kick" ELSE Ahead(me.left - 1, me.spawned),
        ![c].left = @ - 1]

AskAdmin(c) ==
    /\ client[c].pc = "ask"
    /\ IF AdminAnswers THEN client' = [client EXCEPT ![c].pc = "probe"] ELSE Missed(c)
    /\ UNCHANGED <<procs, files, ports, bounds, history>>

ProbePublic(c) ==
    /\ client[c].pc = "probe"
    /\ IF LoopbackAnswers THEN client' = [client EXCEPT ![c].pc = "up"] ELSE Missed(c)
    /\ UNCHANGED <<procs, files, ports, bounds, history>>

\* The checks that are left follow, whatever became of the kickstart.
KickDone(c) ==
    client' = [client EXCEPT ![c] = [pc |-> Ahead(client[c].left, FALSE),
                                     left |-> client[c].left,
                                     label |-> FALSE, spawned |-> FALSE]]

\* launchctl kickstart -k: the job's process is killed, if there is one, and started
\* anew.
Kickstart(c) ==
    /\ client[c].pc = "kick"
    /\ stops < MaxStops
    /\ stops' = stops + 1
    /\ \E d \in Jobs :
        /\ pc' = [pc EXCEPT ![d] = "read"]
        /\ loaded' = [loaded EXCEPT ![d] = NoFile]
        /\ public' = IF public = d THEN Free ELSE public
        /\ loopback' = IF loopback = d THEN Free ELSE loopback
        /\ sock' = IF sock = d THEN Stale ELSE sock
        /\ overlapped' = overlapped \ {d}
    /\ KickDone(c)
    /\ UNCHANGED <<secretFile, faults, clashed>>

\* Nothing is known of the label, or launchctl fails: the error is dropped.
KickstartFails(c) ==
    /\ client[c].pc = "kick"
    /\ KickDone(c)
    /\ UNCHANGED <<procs, files, ports, bounds, history>>

Spawn(c) ==
    /\ client[c].pc = "spawn"
    /\ \E d \in Daemons \ Jobs :
        /\ pc[d] = "off"
        /\ pc' = [pc EXCEPT ![d] = "read"]
    /\ client' = [client EXCEPT ![c] =
        [pc |-> "ask", left |-> Waits, label |-> FALSE, spawned |-> TRUE]]
    /\ UNCHANGED <<loaded, files, ports, bounds, history>>

SpawnFails(c) ==
    /\ client[c].pc = "spawn"
    /\ faults < MaxFaults
    /\ faults' = faults + 1
    /\ client' = [client EXCEPT ![c].pc = "failed"]
    /\ UNCHANGED <<procs, files, ports, stops, history>>

-----------------------------------------------------------------------------

\* What a process does by itself, once it runs.
Boot(d) ==
    \/ ReadSecret(d) \/ TruncateSecret(d) \/ WriteSecret(d)
    \/ ListenPublic(d) \/ ListenLoopback(d) \/ PortTaken(d)
    \/ UnlinkAdmin(d) \/ BindAdmin(d)

Stop(d) == StopLoopback(d) \/ StopAdmin(d) \/ Unwind(d)

Daemon(d) == Boot(d) \/ Stop(d) \/ BindFails(d) \/ Terminate(d) \/ ServeFails(d) \/ Kill(d)

Ensure(c) == AskAdmin(c) \/ ProbePublic(c) \/ Kickstart(c) \/ KickstartFails(c) \/ Spawn(c)

Client(c) == Begin(c) \/ Ensure(c) \/ SpawnFails(c)

Next ==
    \/ \E d \in Daemons : Daemon(d)
    \/ \E c \in Clients : Client(c)

Spec == Init /\ [][Next]_vars

\* A process that runs goes on, and so does a command that was begun.  Nobody
\* has to begin one, to stop a daemon or to fail.
FairSpec ==
    /\ Spec
    /\ \A d \in Daemons : WF_vars(Boot(d)) /\ WF_vars(Stop(d))
    /\ \A c \in Clients : WF_vars(Ensure(c))

-----------------------------------------------------------------------------
(* Properties.                                                              *)

\* Whoever serves the links is who answers on admin.sock, after any kills, failed
\* starts and restarts, except a daemon that came up while another was stopping
\* (Run takes the ports before it touches the socket).
ReachableUnlessOverlap ==
    \A d \in Daemons : pc[d] = "serving" => sock = d \/ d \in overlapped

\* A daemon that serves signs with the secret on disk, so its links outlive it,
\* except if two processes created the secret at once (LoadOrCreateSecret).
SecretUnlessClash ==
    \A d \in Daemons : Serving(d) /\ clashed = {} => loaded[d] \in Secrets /\ loaded[d] = secretFile

\* Ensure starts a daemon that is down: who calls it ever again finds a daemon
\* up ever again.
EnsureWorks ==
    \A c \in Clients : []<>(client[c].pc = "ask") => []<>(client[c].pc = "up")

\* The same, as long as no daemon that bound its socket while another was stopping
\* lives on: kills, failed starts and orderly stops do no lasting harm.
RecoversUnlessOverlap == []<>(overlapped = {}) => EnsureWorks
=============================================================================
