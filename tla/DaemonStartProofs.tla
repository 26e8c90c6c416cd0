--------------------------- MODULE DaemonStartProofs ---------------------------
(***************************************************************************)
(* Proofs about DaemonStart, for every set of processes, clients and        *)
(* secrets and any number of checks, faults and stops.                      *)
(***************************************************************************)
EXTENDS DaemonStart, TLAPS

USE DEF procs, files, ports, bounds, history

\* Every state is well typed.
THEOREM TypeCorrect == Spec => []TypeOK
<1>1. Init => TypeOK
  BY StartAssumption DEF Init, TypeOK, Steps, Idle
<1>2. TypeOK /\ [Next]_vars => TypeOK'
  <2> SUFFICES ASSUME TypeOK, [Next]_vars PROVE TypeOK'
    OBVIOUS
  <2> USE StartAssumption
  <2>1. ASSUME NEW d \in Daemons, ReadSecret(d) PROVE TypeOK'
    BY <2>1 DEF TypeOK, Steps, ReadSecret
  <2>2. ASSUME NEW d \in Daemons, TruncateSecret(d) PROVE TypeOK'
    BY <2>2 DEF TypeOK, Steps, TruncateSecret
  <2>3. ASSUME NEW d \in Daemons, WriteSecret(d) PROVE TypeOK'
    BY <2>3 DEF TypeOK, Steps, WriteSecret
  <2>4. ASSUME NEW d \in Daemons, ListenPublic(d) PROVE TypeOK'
    BY <2>4 DEF TypeOK, Steps, ListenPublic
  <2>5. ASSUME NEW d \in Daemons, ListenLoopback(d) PROVE TypeOK'
    BY <2>5 DEF TypeOK, Steps, ListenLoopback
  <2>6. ASSUME NEW d \in Daemons, PortTaken(d) PROVE TypeOK'
    BY <2>6 DEF TypeOK, Steps, PortTaken, Gone
  <2>7. ASSUME NEW d \in Daemons, UnlinkAdmin(d) PROVE TypeOK'
    BY <2>7 DEF TypeOK, Steps, UnlinkAdmin
  <2>8. ASSUME NEW d \in Daemons, BindAdmin(d) PROVE TypeOK'
    BY <2>8 DEF TypeOK, Steps, BindAdmin
  <2>9. ASSUME NEW d \in Daemons, BindFails(d) PROVE TypeOK'
    BY <2>9 DEF TypeOK, Steps, BindFails, Gone
  <2>10. ASSUME NEW d \in Daemons, Terminate(d) PROVE TypeOK'
    BY <2>10 DEF TypeOK, Steps, Terminate
  <2>11. ASSUME NEW d \in Daemons, StopLoopback(d) PROVE TypeOK'
    BY <2>11 DEF TypeOK, Steps, StopLoopback
  <2>12. ASSUME NEW d \in Daemons, StopAdmin(d) PROVE TypeOK'
    BY <2>12 DEF TypeOK, Steps, StopAdmin, Gone
  <2>13. ASSUME NEW d \in Daemons, ServeFails(d) PROVE TypeOK'
    BY <2>13 DEF TypeOK, Steps, ServeFails
  <2>14. ASSUME NEW d \in Daemons, Unwind(d) PROVE TypeOK'
    BY <2>14 DEF TypeOK, Steps, Unwind, Gone
  <2>15. ASSUME NEW d \in Daemons, Kill(d) PROVE TypeOK'
    BY <2>15 DEF TypeOK, Steps, Kill, Gone
  <2>16. ASSUME NEW c \in Clients, Begin(c) PROVE TypeOK'
    BY <2>16 DEF TypeOK, Steps, Begin
  <2>17. ASSUME NEW c \in Clients, AskAdmin(c) PROVE TypeOK'
    BY <2>17 DEF TypeOK, AskAdmin, Missed, Ahead
  <2>18. ASSUME NEW c \in Clients, ProbePublic(c) PROVE TypeOK'
    BY <2>18 DEF TypeOK, ProbePublic, Missed, Ahead
  <2>19. ASSUME NEW c \in Clients, Spawn(c) PROVE TypeOK'
    BY <2>19 DEF TypeOK, Steps, Spawn
  <2>20. ASSUME NEW c \in Clients, SpawnFails(c) PROVE TypeOK'
    BY <2>20 DEF TypeOK, Steps, SpawnFails
  <2>21. ASSUME NEW c \in Clients, Kickstart(c) PROVE TypeOK'
    <3>1. client' \in [Clients -> [pc : {"idle", "ask", "probe", "kick", "spawn", "up", "failed"},
                                   left : Nat, label : BOOLEAN, spawned : BOOLEAN]]
      BY <2>21 DEF TypeOK, Kickstart, KickDone, Ahead
    <3>2. \A e \in Clients : client'[e].pc \in {"ask", "probe"} => client'[e].left > 0
      BY <2>21 DEF TypeOK, Kickstart, KickDone, Ahead
    <3>3. QED
      BY <2>21, <3>1, <3>2 DEF TypeOK, Steps, Kickstart
  <2>22. ASSUME NEW c \in Clients, KickstartFails(c) PROVE TypeOK'
    <3>1. client' \in [Clients -> [pc : {"idle", "ask", "probe", "kick", "spawn", "up", "failed"},
                                   left : Nat, label : BOOLEAN, spawned : BOOLEAN]]
      BY <2>22 DEF TypeOK, KickstartFails, KickDone, Ahead
    <3>2. \A e \in Clients : client'[e].pc \in {"ask", "probe"} => client'[e].left > 0
      BY <2>22 DEF TypeOK, KickstartFails, KickDone, Ahead
    <3>3. QED
      BY <2>22, <3>1, <3>2 DEF TypeOK, KickstartFails
  <2>23. CASE UNCHANGED vars
    BY <2>23 DEF TypeOK, vars
  <2>24. QED
    BY <2>1, <2>2, <2>3, <2>4, <2>5, <2>6, <2>7, <2>8, <2>9, <2>10, <2>11, <2>12, <2>13, <2>14, <2>15, <2>16, <2>17, <2>18, <2>19, <2>20, <2>21, <2>22, <2>23 DEF Next, Daemon, Boot, Stop, Client, Ensure
<1>3. QED
  BY <1>1, <1>2, PTL DEF Spec

-----------------------------------------------------------------------------
\* A process between its bind of the loopback port and the close of it holds the
\* port.  So no other one binds, or begins to stop, while a daemon serves.
ReachInv ==
    /\ \A d \in Daemons :
        pc[d] \in {"unlink", "bind", "serving", "unwind", "stopLoopback"} => loopback = d
    /\ \A d \in Daemons : pc[d] = "serving" /\ d \notin overlapped =>
        /\ sock = d
        /\ \A e \in Daemons : pc[e] # "stopAdmin"

\* Whoever serves answers on admin.sock, unless it came up while another stopped.
THEOREM Reachable == Spec => []ReachableUnlessOverlap
<1>1. Init => ReachInv
  BY StartAssumption DEF Init, ReachInv
<1>2. TypeOK /\ ReachInv /\ [Next]_vars => ReachInv'
  <2> SUFFICES ASSUME TypeOK, ReachInv, [Next]_vars PROVE ReachInv'
    OBVIOUS
  <2> USE StartAssumption DEF TypeOK, ReachInv
  <2>1. ASSUME NEW d \in Daemons, ReadSecret(d) PROVE ReachInv'
    BY <2>1 DEF ReadSecret
  <2>2. ASSUME NEW d \in Daemons, TruncateSecret(d) PROVE ReachInv'
    BY <2>2 DEF TruncateSecret
  <2>3. ASSUME NEW d \in Daemons, WriteSecret(d) PROVE ReachInv'
    BY <2>3 DEF WriteSecret
  <2>4. ASSUME NEW d \in Daemons, ListenPublic(d) PROVE ReachInv'
    BY <2>4 DEF ListenPublic
  <2>5. ASSUME NEW d \in Daemons, ListenLoopback(d) PROVE ReachInv'
    BY <2>5 DEF ListenLoopback
  <2>6. ASSUME NEW d \in Daemons, PortTaken(d) PROVE ReachInv'
    BY <2>6 DEF PortTaken, Gone
  <2>7. ASSUME NEW d \in Daemons, UnlinkAdmin(d) PROVE ReachInv'
    BY <2>7 DEF UnlinkAdmin
  <2>8. ASSUME NEW d \in Daemons, BindAdmin(d) PROVE ReachInv'
    BY <2>8 DEF BindAdmin
  <2>9. ASSUME NEW d \in Daemons, BindFails(d) PROVE ReachInv'
    BY <2>9 DEF BindFails, Gone
  <2>10. ASSUME NEW d \in Daemons, Terminate(d) PROVE ReachInv'
    BY <2>10 DEF Terminate
  <2>11. ASSUME NEW d \in Daemons, StopLoopback(d) PROVE ReachInv'
    BY <2>11 DEF StopLoopback
  <2>12. ASSUME NEW d \in Daemons, StopAdmin(d) PROVE ReachInv'
    BY <2>12 DEF StopAdmin, Gone
  <2>13. ASSUME NEW d \in Daemons, ServeFails(d) PROVE ReachInv'
    BY <2>13 DEF ServeFails
  <2>14. ASSUME NEW d \in Daemons, Unwind(d) PROVE ReachInv'
    BY <2>14 DEF Unwind, Gone
  <2>15. ASSUME NEW d \in Daemons, Kill(d) PROVE ReachInv'
    BY <2>15 DEF Kill, Gone
  <2>16. ASSUME NEW c \in Clients, Begin(c) PROVE ReachInv'
    BY <2>16 DEF Begin
  <2>17. ASSUME NEW c \in Clients, AskAdmin(c) PROVE ReachInv'
    BY <2>17 DEF AskAdmin
  <2>18. ASSUME NEW c \in Clients, ProbePublic(c) PROVE ReachInv'
    BY <2>18 DEF ProbePublic
  <2>19. ASSUME NEW c \in Clients, Spawn(c) PROVE ReachInv'
    BY <2>19 DEF Spawn
  <2>20. ASSUME NEW c \in Clients, SpawnFails(c) PROVE ReachInv'
    BY <2>20 DEF SpawnFails
  <2>21. ASSUME NEW c \in Clients, Kickstart(c) PROVE ReachInv'
    BY <2>21 DEF Kickstart
  <2>22. ASSUME NEW c \in Clients, KickstartFails(c) PROVE ReachInv'
    BY <2>22 DEF KickstartFails
  <2>23. CASE UNCHANGED vars
    BY <2>23 DEF vars
  <2>24. QED
    BY <2>1, <2>2, <2>3, <2>4, <2>5, <2>6, <2>7, <2>8, <2>9, <2>10, <2>11, <2>12, <2>13, <2>14, <2>15, <2>16, <2>17, <2>18, <2>19, <2>20, <2>21, <2>22, <2>23 DEF Next, Daemon, Boot, Stop, Client, Ensure
<1>3. ReachInv => ReachableUnlessOverlap
  BY DEF ReachInv, ReachableUnlessOverlap
<1>4. QED
  BY <1>1, <1>2, <1>3, TypeCorrect, PTL DEF Spec

-----------------------------------------------------------------------------
\* One process creates the secret, as long as there is none on disk, and nobody
\* has loaded another one.
SecretInv ==
    /\ \A d \in Daemons : pc[d] \notin {"off", "read", "truncate", "write"} => loaded[d] \in Secrets
    /\ clashed = {} =>
        /\ \A d, e \in Creating : d = e
        /\ Creating # {} => secretFile \notin Secrets
        /\ \A d \in Daemons : loaded[d] \in Secrets => loaded[d] = secretFile

\* A daemon signs with the secret on disk, unless two processes created it at once.
THEOREM SecretKept == Spec => []SecretUnlessClash
<1>1. Init => SecretInv
  BY StartAssumption DEF Init, SecretInv, Creating
<1>2. TypeOK /\ SecretInv /\ [Next]_vars => SecretInv'
  <2> SUFFICES ASSUME TypeOK, SecretInv, [Next]_vars PROVE SecretInv'
    OBVIOUS
  <2> USE StartAssumption DEF TypeOK, SecretInv, Creating
  <2>1. ASSUME NEW d \in Daemons, ReadSecret(d) PROVE SecretInv'
    BY <2>1 DEF ReadSecret
  <2>2. ASSUME NEW d \in Daemons, TruncateSecret(d) PROVE SecretInv'
    BY <2>2 DEF TruncateSecret
  <2>3. ASSUME NEW d \in Daemons, WriteSecret(d) PROVE SecretInv'
    BY <2>3 DEF WriteSecret
  <2>4. ASSUME NEW d \in Daemons, ListenPublic(d) PROVE SecretInv'
    BY <2>4 DEF ListenPublic
  <2>5. ASSUME NEW d \in Daemons, ListenLoopback(d) PROVE SecretInv'
    BY <2>5 DEF ListenLoopback
  <2>6. ASSUME NEW d \in Daemons, PortTaken(d) PROVE SecretInv'
    BY <2>6 DEF PortTaken, Gone
  <2>7. ASSUME NEW d \in Daemons, UnlinkAdmin(d) PROVE SecretInv'
    BY <2>7 DEF UnlinkAdmin
  <2>8. ASSUME NEW d \in Daemons, BindAdmin(d) PROVE SecretInv'
    BY <2>8 DEF BindAdmin
  <2>9. ASSUME NEW d \in Daemons, BindFails(d) PROVE SecretInv'
    BY <2>9 DEF BindFails, Gone
  <2>10. ASSUME NEW d \in Daemons, Terminate(d) PROVE SecretInv'
    BY <2>10 DEF Terminate
  <2>11. ASSUME NEW d \in Daemons, StopLoopback(d) PROVE SecretInv'
    BY <2>11 DEF StopLoopback
  <2>12. ASSUME NEW d \in Daemons, StopAdmin(d) PROVE SecretInv'
    BY <2>12 DEF StopAdmin, Gone
  <2>13. ASSUME NEW d \in Daemons, ServeFails(d) PROVE SecretInv'
    BY <2>13 DEF ServeFails
  <2>14. ASSUME NEW d \in Daemons, Unwind(d) PROVE SecretInv'
    BY <2>14 DEF Unwind, Gone
  <2>15. ASSUME NEW d \in Daemons, Kill(d) PROVE SecretInv'
    BY <2>15 DEF Kill, Gone
  <2>16. ASSUME NEW c \in Clients, Begin(c) PROVE SecretInv'
    BY <2>16 DEF Begin
  <2>17. ASSUME NEW c \in Clients, AskAdmin(c) PROVE SecretInv'
    BY <2>17 DEF AskAdmin
  <2>18. ASSUME NEW c \in Clients, ProbePublic(c) PROVE SecretInv'
    BY <2>18 DEF ProbePublic
  <2>19. ASSUME NEW c \in Clients, Spawn(c) PROVE SecretInv'
    BY <2>19 DEF Spawn
  <2>20. ASSUME NEW c \in Clients, SpawnFails(c) PROVE SecretInv'
    BY <2>20 DEF SpawnFails
  <2>21. ASSUME NEW c \in Clients, Kickstart(c) PROVE SecretInv'
    BY <2>21 DEF Kickstart
  <2>22. ASSUME NEW c \in Clients, KickstartFails(c) PROVE SecretInv'
    BY <2>22 DEF KickstartFails
  <2>23. CASE UNCHANGED vars
    BY <2>23 DEF vars
  <2>24. QED
    BY <2>1, <2>2, <2>3, <2>4, <2>5, <2>6, <2>7, <2>8, <2>9, <2>10, <2>11, <2>12, <2>13, <2>14, <2>15, <2>16, <2>17, <2>18, <2>19, <2>20, <2>21, <2>22, <2>23 DEF Next, Daemon, Boot, Stop, Client, Ensure
<1>3. SecretInv => SecretUnlessClash
  BY DEF SecretInv, SecretUnlessClash, Serving
<1>4. QED
  BY <1>1, <1>2, <1>3, TypeCorrect, PTL DEF Spec

=============================================================================
