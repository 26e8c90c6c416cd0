----------------------------- MODULE ShareClients -----------------------------
(***************************************************************************)
(* The commands of ops/publish.go and ops/shares.go as clients of the admin *)
(* API (share/client.go): each command is a series of requests, and between *)
(* two of them other commands change the table.                             *)
(*                                                                         *)
(* publish (live)   list; renew the newest live share of the path, or create*)
(* publish (snapshot)  create                                               *)
(* renew            renew                                                   *)
(* unshare          revoke by id; if there is none, or for a path: list,    *)
(*                  then revoke each share of the path                      *)
(*                                                                         *)
(* A request is one step of the daemon: what happens inside of create,      *)
(* renew and revoke is in ShareDaemon.  A client waits for three seconds.   *)
(* Then the command goes on as if the request had failed, and the request   *)
(* may be lost or still take effect (late).                                 *)
(***************************************************************************)
EXTENDS ShareStore

CONSTANTS
    Clients,
    Paths,              \* source paths
    NoPath,             \* the path a share id stands for: no share has it
    NoId,               \* of a request that names no share
    Lifetimes,          \* what --expires-in and --for may ask for, in half seconds
    DefaultLife,        \* what the daemon gives a request for none, in seconds
    MaxClock,           \* bound: the last second
    MaxFaults,          \* bound: requests that time out or meet a failing store
    MaxCommands         \* bound: commands begun; each may draw one id

ASSUME ClientsAssumption ==
    /\ NoPath \notin Paths
    /\ NoId \notin Ids
    /\ Lifetimes \subseteq Nat \ {0}
    /\ DefaultLife \in Nat \ {0}
    /\ MaxClock \in Nat
    /\ MaxFaults \in Nat
    /\ MaxCommands \in Nat

VARIABLES
    clock,
    path, created,      \* the columns source_path and created_at
    client,             \* client[c]: the command c runs
    wire,               \* wire[c]: its request, until the daemon has handled it
    late,               \* late[c]: a request that c no longer waits for
    reply,              \* reply[c]: the answer that c has not read
    faults, commands,
    since,              \* history: shares that became active since an unshare's list
    raced,              \* history: paths a duplicate may have been made for
    granted             \* history: what was asked for when a share's time was set

columns == <<path, created>>
bounds == <<faults, commands>>
history == <<since, raced, granted>>
vars == <<storeVars, clock, columns, client, wire, late, reply, bounds, history>>

Kinds == {"none", "list", "create", "renew", "revoke"}

Request == [kind : Kinds, id : Ids \cup {NoId},
            path : Paths \cup {NoPath}, mode : Modes, life : Nat, asked : Nat]
Reply == [code : {"none", "ok", "notFound", "error"}, ids : SUBSET Ids]

NoRequest == [kind |-> "none", id |-> NoId, path |-> NoPath, mode |-> "live", life |-> 0,
              asked |-> 0]
NoReply == [code |-> "none", ids |-> {}]

Command == [op : {"none", "publish", "renew", "unshare"}, awaits : Kinds,
            id : Ids \cup {NoId}, path : Paths \cup {NoPath}, mode : Modes, life : Nat,
            todo : SUBSET Ids, revoked : SUBSET Ids, failed : BOOLEAN,
            answer : {"none", "ok", "notFound", "error"}]

NoCommand == [op |-> "none", awaits |-> "none", id |-> NoId, path |-> NoPath, mode |-> "live",
              life |-> 0, todo |-> {}, revoked |-> {}, failed |-> FALSE, answer |-> "none"]

TableTypeOK ==
    /\ StoreTypeOK
    /\ clock \in Nat
    /\ path \in [Ids -> Paths \cup {NoPath}]
    /\ \A id \in stored : path[id] \in Paths
    /\ created \in [Ids -> Nat]
    /\ since \in [Clients -> SUBSET Ids]
    /\ raced \subseteq Paths
    /\ granted \in [Ids -> [at : Nat, asked : Nat]]

MailTypeOK ==
    /\ client \in [Clients -> Command]
    /\ wire \in [Clients -> Request]
    /\ late \in [Clients -> Request]
    /\ reply \in [Clients -> Reply]

TypeOK == TableTypeOK /\ MailTypeOK /\ {faults, commands} \subseteq Nat

Init ==
    /\ OpenStore
    /\ clock = 0
    /\ path = [id \in Ids |-> NoPath]
    /\ created = [id \in Ids |-> 0]
    /\ client = [c \in Clients |-> NoCommand]
    /\ wire = [c \in Clients |-> NoRequest]
    /\ late = [c \in Clients |-> NoRequest]
    /\ reply = [c \in Clients |-> NoReply]
    /\ faults = 0
    /\ commands = 0
    /\ since = [c \in Clients |-> {}]
    /\ raced = {}
    /\ granted = [id \in Ids |-> [at |-> 0, asked |-> 0]]

Active == {id \in Ids : IsActive(id, clock)}
LiveShares(p) == {id \in Active : row[id].mode = "live" /\ path[id] = p}

\* Commands that publish p live and have not ended.
Publishing(p) == {c \in Clients : client[c].op = "publish" /\ client[c].awaits # "none"
                                  /\ client[c].mode = "live" /\ client[c].path = p}

-----------------------------------------------------------------------------
(* The daemon handles a request.                                            *)

\* The shares in ids become active, if they were not.
Activated(ids) ==
    since' = [c \in Clients |-> IF client[c].op = "unshare" THEN since[c] \cup (ids \ Active)
                                                           ELSE {}]

HandleList(q, c) ==
    /\ q.kind = "list"
    /\ since' = [since EXCEPT ![c] = {}]
    /\ reply' = [reply EXCEPT ![c] = [code |-> "ok", ids |-> Active]]
    /\ UNCHANGED <<storeVars, columns, raced, granted>>

\* A request for no lifetime gets seven days.
Expiry(q) == clock + (IF q.life = 0 THEN DefaultLife ELSE q.life)

Granted(q, id) == granted' = [granted EXCEPT ![id] = [at |-> clock, asked |-> q.asked]]

Insert(q, id) ==
    /\ q.kind = "create"
    /\ CreateShare(id, q.mode, Expiry(q))
    /\ path' = [path EXCEPT ![id] = q.path]
    /\ created' = [created EXCEPT ![id] = clock]
    /\ Activated({id})
    /\ Granted(q, id)
    /\ UNCHANGED raced

Update(q) ==
    /\ \/ /\ q.kind = "renew"
          /\ RenewShare(q.id, Expiry(q))
          /\ Activated({q.id})
          /\ Granted(q, q.id)
          /\ raced' = IF q.id \in Active THEN raced ELSE raced \cup {path[q.id]}
       \/ /\ q.kind = "revoke"
          /\ RevokeShare(q.id)
          /\ UNCHANGED history
    /\ UNCHANGED columns

\* A renewal or a revocation of no share, or of one that is revoked.
NoneToUpdate(q) ==
    /\ q.kind \in {"renew", "revoke"}
    /\ ~CanUpdate(q.id)
    /\ UNCHANGED <<storeVars, columns, history>>

Answered(c, code, ids) ==
    /\ wire' = [wire EXCEPT ![c] = NoRequest]
    /\ reply' = [reply EXCEPT ![c] = [code |-> code, ids |-> ids]]

Handle(c) ==
    /\ \/ \E id \in Ids : Insert(wire[c], id) /\ Answered(c, "ok", {id})
       \/ Update(wire[c]) /\ Answered(c, "ok", {wire[c].id})
       \/ NoneToUpdate(wire[c]) /\ Answered(c, "notFound", {})
       \/ HandleList(wire[c], c) /\ wire' = [wire EXCEPT ![c] = NoRequest]
    /\ UNCHANGED <<clock, client, late, bounds>>

\* 500: the statement failed, or the step that follows it in the same method.
HandleFails(c) ==
    /\ faults < MaxFaults
    /\ faults' = faults + 1
    /\ \/ wire[c].kind # "none" /\ UNCHANGED <<storeVars, columns, history>>
       \/ \E id \in Ids : Insert(wire[c], id)
       \/ Update(wire[c])
    /\ Answered(c, "error", {})
    /\ UNCHANGED <<clock, client, late, commands>>

\* The client has waited for three seconds.  A request that was not handled yet
\* may still be (a list changes nothing and is as good as lost).
TimeOut(c) ==
    /\ wire[c].kind # "none"
    /\ late[c].kind = "none"
    /\ faults < MaxFaults
    /\ faults' = faults + 1
    /\ \/ wire[c].kind # "list" /\ late' = [late EXCEPT ![c] = wire[c]]
       \/ UNCHANGED late
    /\ raced' = IF late'[c].kind = "create" /\ late'[c].mode = "live"
                THEN raced \cup {wire[c].path} ELSE raced
    /\ Answered(c, "error", {})
    /\ UNCHANGED <<storeVars, clock, columns, client, commands, since, granted>>

HandleLate(c) ==
    /\ \/ \E id \in Ids : Insert(late[c], id)
       \/ Update(late[c])
       \/ NoneToUpdate(late[c])
    /\ late' = [late EXCEPT ![c] = NoRequest]
    /\ UNCHANGED <<clock, client, wire, reply, bounds>>

-----------------------------------------------------------------------------
(* A command sends a request, and goes on with its answer.                   *)

\* Slip: a lifetime is rounded up.
SecondsUp(asked) == (asked + 1) \div 2

\* lifetime has refused what is not positive; a request carries whole seconds.
Seconds(asked) == asked \div 2

\* Slip: the request does not carry the path.
SendWithoutPath(c, command, kind, id) ==
    /\ client' = [client EXCEPT ![c] = [command EXCEPT !.awaits = kind]]
    /\ wire' = [wire EXCEPT ![c] = [kind |-> kind, id |-> id, path |-> NoPath,
                                    mode |-> command.mode, life |-> Seconds(command.life),
                                    asked |-> command.life]]

\* The command goes on with a request, or ends with an answer.
Send(c, command, kind, id) ==
    /\ client' = [client EXCEPT ![c] = [command EXCEPT !.awaits = kind]]
    /\ wire' = [wire EXCEPT ![c] = [kind |-> kind, id |-> id, path |-> command.path,
                                    mode |-> command.mode, life |-> Seconds(command.life),
                                    asked |-> command.life]]

End(c, command, answer) ==
    /\ client' = [client EXCEPT ![c] = [command EXCEPT !.awaits = "none", !.life = 0,
                            !.todo = {}, !.revoked = {}, !.answer = answer]]
    /\ UNCHANGED wire

Begin(c) ==
    /\ client[c].awaits = "none"
    /\ commands < MaxCommands
    /\ commands' = commands + 1

Publish(c) ==
    /\ Begin(c)
    /\ \E p \in Paths, mode \in Modes, life \in Lifetimes :
        /\ Send(c, [NoCommand EXCEPT !.op = "publish", !.path = p, !.mode = mode, !.life = life],
                IF mode = "live" THEN "list" ELSE "create", NoId)
        /\ raced' = IF mode = "live" /\ Publishing(p) # {} THEN raced \cup {p} ELSE raced
    /\ UNCHANGED <<storeVars, clock, columns, late, reply, faults, since, granted>>

Renew(c) ==
    /\ Begin(c)
    /\ \E id \in stored, life \in Lifetimes :
        Send(c, [NoCommand EXCEPT !.op = "renew", !.id = id, !.life = life], "renew", id)
    /\ UNCHANGED <<storeVars, clock, columns, late, reply, faults, history>>

Unshare(c) ==
    /\ Begin(c)
    /\ \/ \E id \in stored : Send(c, [NoCommand EXCEPT !.op = "unshare", !.id = id], "revoke", id)
       \/ \E p \in Paths : Send(c, [NoCommand EXCEPT !.op = "unshare", !.path = p], "list", NoId)
    /\ UNCHANGED <<storeVars, clock, columns, late, reply, faults, history>>

\* The client takes the answer to the request it awaits.
Receive(c, kind) ==
    /\ client[c].awaits = kind
    /\ reply[c].code # "none"
    /\ reply' = [reply EXCEPT ![c] = NoReply]
    /\ UNCHANGED <<storeVars, clock, columns, late, bounds, history>>

\* The list is in the order of created_at, newest first, in whole seconds.
Newest(ids) == {id \in ids : \A other \in ids : created[other] <= created[id]}

\* Slip: the mode of a listed share is not looked at.
ReusableAnyMode(ids, p) == {id \in ids : path[id] = p}

\* Slip: a share in its last second is not reused.
ReusableButLast(ids, p) ==
    {id \in ids : row[id].mode = "live" /\ path[id] = p /\ row[id].expires > clock + 1}

\* findExistingLiveShareIn.
Reusable(ids, p) == {id \in ids : row[id].mode = "live" /\ path[id] = p}

PublishListed(c) ==
    /\ client[c].op = "publish"
    /\ Receive(c, "list")
    /\ LET found == Reusable(reply[c].ids, client[c].path) IN
        \/ /\ reply[c].code = "ok"
           /\ \E id \in Newest(found) : Send(c, client[c], "renew", id)
        \/ /\ reply[c].code = "ok"
           /\ found = {}
           /\ Send(c, client[c], "create", NoId)
        \/ /\ reply[c].code = "error"
           /\ End(c, client[c], "error")

\* publish prints the share that was created or renewed; renew prints its own.
Printed(c) ==
    /\ \E kind \in {"create", "renew"} : Receive(c, kind)
    /\ \/ \E id \in reply[c].ids : End(c, [client[c] EXCEPT !.id = id], "ok")
       \/ /\ reply[c].code # "ok"
          /\ End(c, client[c], reply[c].code)

\* unshare: the target was an id.  If it is none, the target may be a path.
UnsharedById(c) ==
    /\ client[c].todo = {}
    /\ Receive(c, "revoke")
    /\ \/ /\ reply[c].code # "notFound"
          /\ End(c, client[c], reply[c].code)
       \/ /\ reply[c].code = "notFound"
          /\ Send(c, client[c], "list", NoId)

\* The revocation of the next share of those the list has shown.
RevokeNext(c, command) ==
    \E id \in Newest(command.todo) : Send(c, [command EXCEPT !.id = id], "revoke", id)

UnshareListed(c) ==
    /\ client[c].op = "unshare"
    /\ Receive(c, "list")
    /\ LET matched == {id \in reply[c].ids : path[id] = client[c].path} IN
        \/ /\ reply[c].code = "ok"
           /\ matched # {}
           /\ RevokeNext(c, [client[c] EXCEPT !.todo = matched])
        \/ /\ reply[c].code = "ok"
           /\ matched = {}
           /\ End(c, client[c], "notFound")
        \/ /\ reply[c].code = "error"
           /\ End(c, client[c], "error")

\* The revocation of client[c].id has been answered.
Counted(c) ==
    LET id == client[c].id IN
    [client[c] EXCEPT !.todo = @ \ {id},
                      !.revoked = IF reply[c].code = "ok" THEN @ \cup {id} ELSE @,
                      !.failed = @ \/ reply[c].code = "error"]

\* Slip: the first share that is revoked ends the command.
UnsharedFirst(c) ==
    /\ client[c].todo # {}
    /\ Receive(c, "revoke")
    /\ \/ /\ Counted(c).todo # {}
          /\ Counted(c).revoked = {}
          /\ RevokeNext(c, Counted(c))
       \/ /\ Counted(c).todo = {} \/ Counted(c).revoked # {}
          /\ End(c, Counted(c), IF Counted(c).revoked = {} THEN "notFound" ELSE "ok")

\* The error of a single revocation is dropped; only none at all is reported.
UnsharedOne(c) ==
    /\ client[c].todo # {}
    /\ Receive(c, "revoke")
    /\ \/ RevokeNext(c, Counted(c))
       \/ /\ Counted(c).todo = {}
          /\ End(c, Counted(c), IF Counted(c).revoked = {} THEN "notFound" ELSE "ok")

Tick ==
    /\ clock < MaxClock
    /\ clock' = clock + 1
    /\ UNCHANGED <<storeVars, columns, client, wire, late, reply, bounds, history>>

-----------------------------------------------------------------------------

Step(c) ==
    \/ Publish(c) \/ Renew(c) \/ Unshare(c)
    \/ PublishListed(c) \/ Printed(c)
    \/ UnsharedById(c) \/ UnshareListed(c) \/ UnsharedOne(c)

Daemon(c) == Handle(c) \/ HandleFails(c) \/ TimeOut(c) \/ HandleLate(c)

Next == Tick \/ \E c \in Clients : Step(c) \/ Daemon(c)

Spec == Init /\ [][Next]_vars

-----------------------------------------------------------------------------
(* Properties.                                                              *)

\* A path has one active live share, as long as no two publish commands of it
\* overlapped, none timed out with its create under way, and no share of it was
\* renewed after it had expired (publish lists first and creates or renews after).
OneLiveShareUnlessRaced ==
    \A p \in Paths \ raced : \A a, b \in LiveShares(p) : a = b

\* publish in live mode reuses the active live share of a path.
OneLiveShare ==
    \A p \in Paths : \A a, b \in LiveShares(p) : a = b

\* An unshare of a path that ends without a failed request has closed every share
\* of the path, except those that became active after its list.
UnshareCloses ==
    \A c \in Clients :
        LET cmd == client[c] IN
        cmd.op = "unshare" /\ cmd.answer \in {"ok", "notFound"} /\ ~cmd.failed
            => {id \in Active : path[id] = cmd.path} \subseteq since[c]

\* The link that publish prints is one for the path and in the mode it was asked
\* for, whether the share was created or found.
PrintsWhatWasAsked ==
    \A c \in Clients :
        LET cmd == client[c] IN
        cmd.op = "publish" /\ cmd.answer = "ok"
            => row[cmd.id].mode = cmd.mode /\ path[cmd.id] = cmd.path

\* A share lives as long as the last request that was handled for it had asked for,
\* less a part of a second, whichever command sent that request and however late it
\* came.  A lifetime below one second is sent as none, and becomes the default.
LivesAsAskedUnlessTooShort ==
    \A id \in stored :
        LET g == granted[id] IN
        g.asked < 2 \/ 2 * (row[id].expires - g.at) \in g.asked - 1..g.asked

\* An unshare whose revocation failed does not say that there is no share.
FailureIsNotNotFound ==
    \A c \in Clients : client[c].answer = "notFound" => ~client[c].failed
=============================================================================
