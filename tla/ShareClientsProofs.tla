-------------------------- MODULE ShareClientsProofs --------------------------
(***************************************************************************)
(* Proofs about ShareClients, for every set of clients, paths, ids and      *)
(* lifetimes, and any bounds.                                               *)
(***************************************************************************)
EXTENDS ShareClients, TLAPS

-----------------------------------------------------------------------------
(* The inductive invariant. *)

\* A request on its way is the one its command waits for, and has no answer yet.
WireInv ==
    \A c \in Clients : wire[c].kind # "none" =>
        /\ reply[c].code = "none"
        /\ wire[c].kind = client[c].awaits
        /\ wire[c].path = client[c].path
        /\ wire[c].mode = client[c].mode
        /\ wire[c].kind = "revoke" => wire[c].id = client[c].id

\* An answer is read by the command that waits for it.
ReplyInv ==
    \A c \in Clients : reply[c].code # "none" =>
        /\ wire[c].kind = "none"
        /\ client[c].awaits # "none"

\* A request that is handled late is one that was sent.
Sent(q) ==
    /\ q.life = Seconds(q.asked)
    /\ q.kind = "create" => q.path \in Paths

SentInv == \A c \in Clients : Sent(wire[c]) /\ Sent(late[c])

\* Which requests a command makes, and what for.
Fits(cmd) ==
    /\ cmd.awaits = "list" => cmd.op \in {"publish", "unshare"}
    /\ cmd.awaits = "create" => cmd.op = "publish"
    /\ cmd.awaits = "renew" => cmd.op \in {"publish", "renew"}
    /\ cmd.awaits = "revoke" => cmd.op = "unshare"
    /\ cmd.awaits # "none" => cmd.answer = "none"
    /\ cmd.op = "publish" => cmd.path \in Paths
    /\ cmd.op = "publish" /\ cmd.awaits \in {"list", "renew"} => cmd.mode = "live"
    /\ cmd.op = "unshare" /\ cmd.awaits = "revoke" =>
          cmd.id \in Ids /\ (cmd.todo = {} => cmd.path = NoPath)

CommandInv == \A c \in Clients : Fits(client[c])

\* What the daemon has answered with are shares.
StoredInv ==
    \A c \in Clients :
        /\ reply[c].ids \subseteq stored
        /\ reply[c].code # "ok" => reply[c].ids = {}

Inv == TypeOK /\ WireInv /\ ReplyInv /\ SentInv /\ CommandInv /\ StoredInv

\* A path that is not raced has one publish command at a time and no create that comes
\* late.  Its list shows every share that is live until the command goes on, and there is
\* none when it creates one.
LiveInv ==
    \A p \in Paths \ raced :
        /\ \A a, b \in LiveShares(p) : a = b
        /\ \A a, b \in Publishing(p) : a = b
        /\ \A c \in Clients :
            /\ ~(late[c].kind = "create" /\ late[c].mode = "live" /\ late[c].path = p)
            /\ c \in Publishing(p) /\ client[c].awaits = "list" /\ reply[c].code = "ok"
                  => LiveShares(p) \subseteq reply[c].ids
            /\ c \in Publishing(p) /\ wire[c].kind = "create" => LiveShares(p) = {}

\* A share, once made, is for the path and in the mode of the command that waits for it.
IsFor(id, cmd) == id \in stored /\ row[id].mode = cmd.mode /\ path[id] = cmd.path

PrintInv ==
    \A c \in Clients :
        LET cmd == client[c] IN
        cmd.op = "publish" =>
            /\ wire[c].kind = "renew" => IsFor(wire[c].id, cmd)
            /\ cmd.awaits \in {"create", "renew"} => \A id \in reply[c].ids : IsFor(id, cmd)
            /\ cmd.answer = "ok" => IsFor(cmd.id, cmd)

\* What an unshare has still to close: what its list has shown, less what was answered.
ToClose(c) ==
    IF reply[c].code \in {"ok", "notFound"} THEN client[c].todo \ {client[c].id}
                                            ELSE client[c].todo

OfPath(p) == {id \in Active : path[id] = p}

CloseInv ==
    \A c \in Clients :
        LET cmd == client[c] IN
        cmd.op = "unshare" /\ ~cmd.failed =>
            /\ cmd.awaits = "list" /\ reply[c].code = "ok"
                  => OfPath(cmd.path) \subseteq since[c] \cup reply[c].ids
            /\ cmd.awaits = "revoke"
                  => OfPath(cmd.path) \subseteq since[c] \cup ToClose(c)
            /\ cmd.answer \in {"ok", "notFound"}
                  => OfPath(cmd.path) \subseteq since[c]

-----------------------------------------------------------------------------
(* What is sent is well typed. *)

LEMMA SecondsTyped ==
  ASSUME NEW asked \in Nat
  PROVE  Seconds(asked) \in Nat
  BY DEF Seconds

LEMMA BlankTyped == NoRequest \in Request /\ NoReply \in Reply /\ NoCommand \in Command
  BY DEF NoRequest, NoReply, NoCommand, Request, Reply, Command, Kinds, Modes

\* A request that is answered.  A client whose command waits is the only one concerned.
Answer(c) ==
    /\ wire[c].kind # "none"
    /\ wire' = [wire EXCEPT ![c] = NoRequest]
    /\ \E r \in Reply :
        /\ r.code # "none"
        /\ r.code # "ok" => r.ids = {}
        /\ r.ids \subseteq stored'
        /\ reply' = [reply EXCEPT ![c] = r]
    /\ client' = client
    /\ late' \in {late, [late EXCEPT ![c] = wire[c]]}

\* The parts of the invariant that requests and answers have.
MailInv == MailTypeOK /\ WireInv /\ ReplyInv /\ SentInv /\ CommandInv /\ StoredInv

LEMMA AnswerMail ==
  ASSUME Inv, NEW c \in Clients, Answer(c), stored \subseteq stored'
  PROVE  MailInv'
<1> USE BlankTyped DEF Inv, TypeOK, MailTypeOK, Answer
<1>1. MailTypeOK'
  OBVIOUS
<1>2. WireInv'
  BY DEF WireInv, NoRequest
<1>3. ReplyInv'
  BY DEF ReplyInv, WireInv, NoRequest
<1>4. SentInv'
  BY DEF SentInv, Sent, NoRequest, Seconds
<1>5. CommandInv'
  BY DEF CommandInv, Fits
<1>6. StoredInv'
  BY DEF StoredInv
<1> QED
  BY <1>1, <1>2, <1>3, <1>4, <1>5, <1>6 DEF MailInv

LEMMA SendMail ==
  ASSUME Inv, NEW c \in Clients, NEW command \in Command, NEW kind \in Kinds \ {"none"},
         NEW id \in Ids \cup {NoId},
         Send(c, command, kind, id), Fits([command EXCEPT !.awaits = kind]),
         kind = "revoke" => id = command.id, reply' = [reply EXCEPT ![c] = NoReply],
         late' = late, stored' = stored
  PROVE  MailInv'
<1> DEFINE q == [kind |-> kind, id |-> id, path |-> command.path, mode |-> command.mode,
                 life |-> Seconds(command.life), asked |-> command.life]
           cmd == [command EXCEPT !.awaits = kind]
<1>1. cmd \in Command /\ q \in Request
  BY SecondsTyped DEF Command, Request
<1>2. client' = [client EXCEPT ![c] = cmd] /\ wire' = [wire EXCEPT ![c] = q]
  BY DEF Send
<1>3. /\ cmd.awaits = kind /\ cmd.path = q.path /\ cmd.mode = q.mode
      /\ q.kind = "create" => q.path \in Paths
  BY DEF Fits, Command
<1>4. q.life = Seconds(q.asked) /\ q.kind = kind /\ (kind = "revoke" => q.id = cmd.id)
  BY DEF Command
<1> HIDE DEF q, cmd
<1> USE <1>1, <1>2, <1>3, <1>4, BlankTyped DEF Inv, TypeOK, MailTypeOK
<1>5. MailTypeOK'
  OBVIOUS
<1>6. WireInv'
  BY DEF WireInv, NoReply
<1>7. ReplyInv'
  BY DEF ReplyInv, NoReply
<1>8. SentInv'
  BY DEF SentInv, Sent
<1>9. CommandInv'
  BY DEF CommandInv, cmd
<1>10. StoredInv'
  BY DEF StoredInv, NoReply
<1> QED
  BY <1>5, <1>6, <1>7, <1>8, <1>9, <1>10 DEF MailInv

LEMMA EndMail ==
  ASSUME Inv, NEW c \in Clients, NEW command \in Command, NEW answer \in {"ok", "notFound", "error"},
         End(c, command, answer), command.op = "publish" => command.path \in Paths,
         reply[c].code # "none", reply' = [reply EXCEPT ![c] = NoReply],
         late' = late, stored' = stored
  PROVE  MailInv'
<1> DEFINE cmd == [command EXCEPT !.awaits = "none", !.life = 0, !.todo = {},
                                  !.revoked = {}, !.answer = answer]
<1>1. cmd \in Command
  BY DEF Command, Kinds
<1>2. client' = [client EXCEPT ![c] = cmd] /\ wire' = wire
  BY DEF End
<1>3. cmd.awaits = "none" /\ Fits(cmd)
  BY DEF Fits, Command
<1> HIDE DEF cmd
<1> USE <1>1, <1>2, <1>3, BlankTyped DEF Inv, TypeOK, MailTypeOK
<1>4. wire[c].kind = "none"
  BY DEF ReplyInv
<1>5. MailTypeOK'
  OBVIOUS
<1>6. WireInv'
  BY <1>4 DEF WireInv
<1>7. ReplyInv'
  BY DEF ReplyInv, NoReply
<1>8. SentInv'
  BY DEF SentInv
<1>9. CommandInv'
  BY DEF CommandInv
<1>10. StoredInv'
  BY DEF StoredInv, NoReply
<1> QED
  BY <1>5, <1>6, <1>7, <1>8, <1>9, <1>10 DEF MailInv

-----------------------------------------------------------------------------
(* What the daemon does to the table, for a request that is on time or late. *)

Write(q) == (\E id \in Ids : Insert(q, id)) \/ Update(q)

TableSame == UNCHANGED <<storeVars, columns, raced, granted>>

LEMMA ExpiryTyped ==
  ASSUME TableTypeOK, NEW q \in Request
  PROVE  Expiry(q) \in Nat /\ Expiry(q) > clock
  BY ClientsAssumption DEF TableTypeOK, Request, Expiry

LEMMA InsertTyped ==
  ASSUME TableTypeOK, NEW q \in Request, Sent(q), NEW id \in Ids, Insert(q, id), clock' = clock
  PROVE  TableTypeOK' /\ stored \subseteq stored'
<1> USE ExpiryTyped, ClientsAssumption DEF TableTypeOK, Insert, CreateShare, Granted
<1>1. StoreTypeOK'
  BY DEF StoreTypeOK, Row, Request
<1>2. q.path \in Paths /\ q.asked \in Nat
  BY DEF Sent, Request
<1>3. path' \in [Ids -> Paths \cup {NoPath}] /\ \A e \in stored' : path'[e] \in Paths
  BY <1>2
<1>4. since' \in [Clients -> SUBSET Ids]
  BY DEF Activated
<1>5. granted' \in [Ids -> [at : Nat, asked : Nat]]
  BY <1>2
<1> QED
  BY <1>1, <1>3, <1>4, <1>5

LEMMA UpdateTyped ==
  ASSUME TableTypeOK, NEW q \in Request, Update(q), clock' = clock
  PROVE  TableTypeOK' /\ stored' = stored /\ q.id \in stored
<1> USE ExpiryTyped, ClientsAssumption DEF TableTypeOK, Update, CanUpdate, columns
<1>0. q.id \in stored /\ q.id \in Ids /\ stored' = stored
  BY DEF RenewShare, RevokeShare, StoreTypeOK
<1>1. CASE q.kind = "renew"
  <2>1. StoreTypeOK'
    BY <1>0, <1>1 DEF StoreTypeOK, RenewShare, Row
  <2>2. since' \in [Clients -> SUBSET Ids]
    BY <1>0, <1>1 DEF Activated
  <2>3. granted' \in [Ids -> [at : Nat, asked : Nat]]
    BY <1>0, <1>1 DEF Granted, Request
  <2> QED
    BY <1>0, <1>1, <2>1, <2>2, <2>3
<1>2. CASE q.kind = "revoke"
  <2>1. RevokeShare(q.id) /\ UNCHANGED <<path, created, since, raced, granted>>
    BY <1>2 DEF history
  <2>2. StoreTypeOK'
    <3>1. row \in [Ids -> Row] /\ row[q.id] \in Row
      BY <1>0 DEF StoreTypeOK
    <3>2. [row[q.id] EXCEPT !.revoked = TRUE] \in Row
      BY <3>1 DEF Row
    <3>3. row' = [row EXCEPT ![q.id] = [row[q.id] EXCEPT !.revoked = TRUE]]
      BY <2>1 DEF RevokeShare
    <3>4. row' \in [Ids -> Row]
      BY <3>1, <3>2, <3>3
    <3> QED
      BY <1>0, <3>4 DEF StoreTypeOK
  <2> QED
    BY <1>0, <2>1, <2>2
<1> QED
  BY <1>1, <1>2

LEMMA WriteTyped ==
  ASSUME TableTypeOK, NEW q \in Request, Sent(q), Write(q), clock' = clock
  PROVE  TableTypeOK' /\ stored \subseteq stored'
  BY InsertTyped, UpdateTyped DEF Write

\* The same for a step that only reads, or does nothing.
LEMMA SameTyped ==
  ASSUME TableTypeOK, TableSame, clock' = clock, since' \in [Clients -> SUBSET Ids]
  PROVE  TableTypeOK' /\ stored' = stored
  BY DEF TableTypeOK, TableSame, StoreTypeOK, storeVars, columns

LEMMA ActiveStored == Active \subseteq stored
  BY DEF Active, IsActive

-----------------------------------------------------------------------------
(* Every step keeps the invariant. *)

LEMMA HandleInv ==
  ASSUME Inv, NEW c \in Clients, Handle(c)
  PROVE  Inv'
<1> USE DEF Inv, TypeOK, bounds
<1>0. wire[c] \in Request /\ Sent(wire[c]) /\ clock' = clock
  BY DEF MailTypeOK, SentInv, Handle
<1>1. ASSUME NEW id \in Ids, Insert(wire[c], id), Answered(c, "ok", {id}) PROVE Inv'
  <2>1. TableTypeOK' /\ stored \subseteq stored' /\ id \in stored'
    BY <1>0, <1>1, InsertTyped DEF Insert, CreateShare
  <2>2. [code |-> "ok", ids |-> {id}] \in Reply
    BY DEF Reply
  <2>3. Answer(c)
    BY <1>1, <2>1, <2>2 DEF Handle, Answered, Answer, Insert
  <2> QED
    BY <2>1, <2>3, AnswerMail DEF MailInv, Handle
<1>2. ASSUME Update(wire[c]), Answered(c, "ok", {wire[c].id}) PROVE Inv'
  <2>1. TableTypeOK' /\ stored' = stored /\ wire[c].id \in stored
    BY <1>0, <1>2, UpdateTyped
  <2>2. [code |-> "ok", ids |-> {wire[c].id}] \in Reply
    BY <2>1 DEF Reply, TableTypeOK, StoreTypeOK
  <2>3. Answer(c)
    BY <1>2, <2>1, <2>2 DEF Handle, Answered, Answer, Update
  <2> QED
    BY <2>1, <2>3, AnswerMail DEF MailInv, Handle
<1>3. ASSUME NoneToUpdate(wire[c]), Answered(c, "notFound", {}) PROVE Inv'
  <2>1. TableTypeOK' /\ stored' = stored
    BY <1>0, <1>3, SameTyped DEF NoneToUpdate, TableSame, history, TableTypeOK
  <2>2. [code |-> "notFound", ids |-> {}] \in Reply
    BY DEF Reply
  <2>3. Answer(c)
    BY <1>3, <2>1, <2>2 DEF Handle, Answered, Answer, NoneToUpdate
  <2> QED
    BY <2>1, <2>3, AnswerMail DEF MailInv, Handle
<1>4. ASSUME HandleList(wire[c], c), wire' = [wire EXCEPT ![c] = NoRequest] PROVE Inv'
  <2>1. TableTypeOK' /\ stored' = stored
    BY <1>0, <1>4, SameTyped DEF HandleList, TableSame, TableTypeOK
  <2>2. [code |-> "ok", ids |-> Active] \in Reply
    BY ActiveStored DEF Reply, TableTypeOK, StoreTypeOK
  <2>3. Answer(c)
    BY <1>4, <2>1, <2>2, ActiveStored DEF Handle, Answer, HandleList
  <2> QED
    BY <2>1, <2>3, AnswerMail DEF MailInv, Handle
<1> QED
  BY <1>1, <1>2, <1>3, <1>4 DEF Handle

LEMMA HandleFailsInv ==
  ASSUME Inv, NEW c \in Clients, HandleFails(c)
  PROVE  Inv'
<1> USE DEF Inv, TypeOK
<1>0. wire[c] \in Request /\ Sent(wire[c]) /\ clock' = clock
  BY DEF MailTypeOK, SentInv, HandleFails
<1>1. TableTypeOK' /\ stored \subseteq stored'
  <2>1. CASE UNCHANGED <<storeVars, columns, history>>
    BY <1>0, <2>1, SameTyped DEF TableSame, history, TableTypeOK
  <2>2. CASE Write(wire[c])
    BY <1>0, <2>2, WriteTyped
  <2> QED
    BY <2>1, <2>2 DEF HandleFails, Write
<1>2. [code |-> "error", ids |-> {}] \in Reply
  BY DEF Reply
<1>3. wire[c].kind # "none"
  BY DEF HandleFails, Insert, Update
<1>4. Answer(c)
  BY <1>2, <1>3 DEF HandleFails, Answered, Answer
<1> QED
  BY <1>1, <1>4, AnswerMail DEF MailInv, HandleFails

LEMMA TimeOutInv ==
  ASSUME Inv, NEW c \in Clients, TimeOut(c)
  PROVE  Inv'
<1> USE DEF Inv, TypeOK, TimeOut
<1>1. raced' \subseteq Paths
  BY DEF TableTypeOK, MailTypeOK, SentInv, Sent
<1>2. TableTypeOK' /\ stored' = stored
  BY <1>1 DEF TableTypeOK, StoreTypeOK, storeVars, columns
<1>3. [code |-> "error", ids |-> {}] \in Reply
  BY DEF Reply
<1>4. Answer(c)
  BY <1>3 DEF Answered, Answer
<1> QED
  BY <1>2, <1>4, AnswerMail DEF MailInv

LEMMA HandleLateInv ==
  ASSUME Inv, NEW c \in Clients, HandleLate(c)
  PROVE  Inv'
<1> USE BlankTyped DEF Inv, TypeOK, HandleLate
<1>0. late[c] \in Request /\ Sent(late[c]) /\ clock' = clock
  BY DEF MailTypeOK, SentInv
<1>1. TableTypeOK' /\ stored \subseteq stored'
  <2>1. CASE NoneToUpdate(late[c])
    BY <1>0, <2>1, SameTyped DEF NoneToUpdate, TableSame, history, TableTypeOK
  <2>2. CASE Write(late[c])
    BY <1>0, <2>2, WriteTyped
  <2> QED
    BY <2>1, <2>2 DEF Write
<1>2. MailTypeOK' /\ WireInv' /\ ReplyInv' /\ CommandInv'
  BY DEF MailTypeOK, WireInv, ReplyInv, CommandInv
<1>3. SentInv'
  BY DEF SentInv, Sent, MailTypeOK, NoRequest, Seconds
<1>4. StoredInv'
  BY <1>1 DEF StoredInv
<1> QED
  BY <1>1, <1>2, <1>3, <1>4 DEF bounds

\* A step that reads the answer a command waits for, or begins a command.
Quiet(c) ==
    /\ UNCHANGED <<storeVars, clock, columns, late, faults, since, granted>>
    /\ raced \subseteq raced' /\ raced' \subseteq Paths
    /\ reply' = [reply EXCEPT ![c] = NoReply]
    /\ commands' \in Nat

LEMMA QuietTyped ==
  ASSUME Inv, NEW c \in Clients, Quiet(c)
  PROVE  TableTypeOK' /\ {faults', commands'} \subseteq Nat
  BY DEF Inv, TypeOK, TableTypeOK, StoreTypeOK, Quiet, storeVars, columns

LEMMA SendInv ==
  ASSUME Inv, NEW c \in Clients, NEW command \in Command, NEW kind \in Kinds \ {"none"},
         NEW id \in Ids \cup {NoId},
         Send(c, command, kind, id), Fits([command EXCEPT !.awaits = kind]),
         kind = "revoke" => id = command.id, Quiet(c)
  PROVE  Inv'
  BY SendMail, QuietTyped DEF Quiet, Inv, TypeOK, MailInv, storeVars

LEMMA EndInv ==
  ASSUME Inv, NEW c \in Clients, NEW command \in Command,
         NEW answer \in {"ok", "notFound", "error"},
         End(c, command, answer), command.op = "publish" => command.path \in Paths,
         reply[c].code # "none", Quiet(c)
  PROVE  Inv'
  BY EndMail, QuietTyped DEF Quiet, Inv, TypeOK, MailInv, storeVars

\* Whoever begins a command has no answer to read.
LEMMA BeginQuiet ==
  ASSUME Inv, NEW c \in Clients, Begin(c)
  PROVE  reply = [reply EXCEPT ![c] = NoReply] /\ commands' \in Nat
  BY DEF Inv, TypeOK, MailTypeOK, Reply, ReplyInv, StoredInv, NoReply, Begin

LEMMA ReceiveQuiet ==
  ASSUME Inv, NEW c \in Clients, NEW kind, Receive(c, kind)
  PROVE  /\ Quiet(c)
         /\ client[c] \in Command /\ client[c].awaits = kind /\ Fits(client[c])
         /\ reply[c].code \in {"ok", "notFound", "error"}
         /\ reply[c].ids \subseteq Ids
  BY DEF Inv, TypeOK, TableTypeOK, MailTypeOK, Reply, CommandInv, Receive, Quiet, bounds, history

LEMMA PublishInv ==
  ASSUME Inv, NEW c \in Clients, Publish(c)
  PROVE  Inv'
<1>1. PICK p \in Paths, mode \in Modes, life \in Lifetimes :
        /\ Send(c, [NoCommand EXCEPT !.op = "publish", !.path = p, !.mode = mode, !.life = life],
                IF mode = "live" THEN "list" ELSE "create", NoId)
        /\ raced' = IF mode = "live" /\ Publishing(p) # {} THEN raced \cup {p} ELSE raced
  BY DEF Publish
<1> DEFINE command == [NoCommand EXCEPT !.op = "publish", !.path = p, !.mode = mode, !.life = life]
           kind == IF mode = "live" THEN "list" ELSE "create"
<1>2. command \in Command
  BY ClientsAssumption DEF NoCommand, Command, Kinds
<1>3. Fits([command EXCEPT !.awaits = kind]) /\ kind \in Kinds \ {"none"}
  BY DEF NoCommand, Fits, Kinds
<1>4. Quiet(c)
  BY <1>1, BeginQuiet DEF Publish, Quiet, Inv, TypeOK, TableTypeOK
<1> QED
  BY <1>1, <1>2, <1>3, <1>4, SendInv

LEMMA RenewInv ==
  ASSUME Inv, NEW c \in Clients, Renew(c)
  PROVE  Inv'
<1>1. PICK id \in stored, life \in Lifetimes :
        Send(c, [NoCommand EXCEPT !.op = "renew", !.id = id, !.life = life], "renew", id)
  BY DEF Renew
<1> DEFINE command == [NoCommand EXCEPT !.op = "renew", !.id = id, !.life = life]
<1>2. command \in Command /\ id \in Ids
  BY ClientsAssumption DEF NoCommand, Command, Kinds, Modes, Inv, TypeOK, TableTypeOK, StoreTypeOK
<1>3. Fits([command EXCEPT !.awaits = "renew"]) /\ "renew" \in Kinds \ {"none"}
  BY DEF NoCommand, Fits, Kinds
<1>4. Quiet(c)
  BY BeginQuiet DEF Renew, Quiet, Inv, TypeOK, TableTypeOK, history
<1> QED
  BY <1>1, <1>2, <1>3, <1>4, SendInv

LEMMA UnshareInv ==
  ASSUME Inv, NEW c \in Clients, Unshare(c)
  PROVE  Inv'
<1>1. Quiet(c)
  BY BeginQuiet DEF Unshare, Quiet, Inv, TypeOK, TableTypeOK, history
<1>2. ASSUME NEW id \in stored,
             Send(c, [NoCommand EXCEPT !.op = "unshare", !.id = id], "revoke", id)
      PROVE  Inv'
  <2> DEFINE command == [NoCommand EXCEPT !.op = "unshare", !.id = id]
  <2>1. command \in Command /\ id \in Ids /\ command.id = id
    BY DEF NoCommand, Command, Kinds, Modes, Inv, TypeOK, TableTypeOK, StoreTypeOK
  <2>2. Fits([command EXCEPT !.awaits = "revoke"]) /\ "revoke" \in Kinds \ {"none"}
    BY <2>1 DEF NoCommand, Fits, Kinds
  <2> QED
    BY <1>1, <1>2, <2>1, <2>2, SendInv
<1>3. ASSUME NEW p \in Paths,
             Send(c, [NoCommand EXCEPT !.op = "unshare", !.path = p], "list", NoId)
      PROVE  Inv'
  <2> DEFINE command == [NoCommand EXCEPT !.op = "unshare", !.path = p]
  <2>1. command \in Command
    BY DEF NoCommand, Command, Kinds, Modes
  <2>2. Fits([command EXCEPT !.awaits = "list"]) /\ "list" \in Kinds \ {"none"}
    BY DEF NoCommand, Fits, Kinds
  <2> QED
    BY <1>1, <1>3, <2>1, <2>2, SendInv
<1> QED
  BY <1>2, <1>3 DEF Unshare

\* The newest of a set of shares, and what is reused, are among them.
LEMMA PublishListedInv ==
  ASSUME Inv, NEW c \in Clients, PublishListed(c)
  PROVE  Inv'
<1>1. Receive(c, "list") /\ client[c].op = "publish"
  BY DEF PublishListed
<1> USE <1>1, ReceiveQuiet DEF Fits
<1>2. ASSUME NEW id \in Newest(Reusable(reply[c].ids, client[c].path)),
             Send(c, client[c], "renew", id)
      PROVE  Inv'
  <2>1. id \in Ids
    BY DEF Newest, Reusable
  <2>2. Fits([client[c] EXCEPT !.awaits = "renew"])
    BY DEF Command
  <2> QED
    BY <1>2, <2>1, <2>2, SendInv DEF Kinds
<1>3. ASSUME Send(c, client[c], "create", NoId) PROVE Inv'
  <2>1. Fits([client[c] EXCEPT !.awaits = "create"])
    BY DEF Command
  <2> QED
    BY <1>3, <2>1, SendInv DEF Kinds
<1>4. ASSUME End(c, client[c], "error") PROVE Inv'
  BY <1>4, EndInv DEF Fits
<1> QED
  BY <1>2, <1>3, <1>4 DEF PublishListed

LEMMA PrintedInv ==
  ASSUME Inv, NEW c \in Clients, Printed(c)
  PROVE  Inv'
<1>1. PICK kind \in {"create", "renew"} : Receive(c, kind)
  BY DEF Printed
<1> USE <1>1, ReceiveQuiet
<1>2. ASSUME NEW id \in reply[c].ids, End(c, [client[c] EXCEPT !.id = id], "ok") PROVE Inv'
  <2>1. [client[c] EXCEPT !.id = id] \in Command
    BY DEF Command
  <2>2. [client[c] EXCEPT !.id = id].op = client[c].op /\ [client[c] EXCEPT !.id = id].path = client[c].path
    BY DEF Command
  <2> QED
    BY <1>2, <2>1, <2>2, EndInv DEF Fits
<1>3. ASSUME End(c, client[c], reply[c].code) PROVE Inv'
  BY <1>3, EndInv DEF Fits
<1> QED
  BY <1>2, <1>3 DEF Printed

LEMMA UnsharedByIdInv ==
  ASSUME Inv, NEW c \in Clients, UnsharedById(c)
  PROVE  Inv'
<1>1. Receive(c, "revoke")
  BY DEF UnsharedById
<1> USE <1>1, ReceiveQuiet
<1>2. ASSUME End(c, client[c], reply[c].code) PROVE Inv'
  BY <1>2, EndInv DEF Fits
<1>3. ASSUME Send(c, client[c], "list", NoId) PROVE Inv'
  <2>1. Fits([client[c] EXCEPT !.awaits = "list"])
    BY DEF Fits, Command
  <2> QED
    BY <1>3, <2>1, SendInv DEF Kinds
<1> QED
  BY <1>2, <1>3 DEF UnsharedById

\* An unshare goes on with the next of the shares that it has to close.
LEMMA RevokeNextInv ==
  ASSUME Inv, NEW c \in Clients, NEW command \in Command,
         command.op = "unshare", command.answer = "none",
         RevokeNext(c, command), Quiet(c)
  PROVE  Inv'
<1>1. PICK id \in Newest(command.todo) : Send(c, [command EXCEPT !.id = id], "revoke", id)
  BY DEF RevokeNext
<1>2. id \in Ids /\ id \in command.todo
  BY DEF Newest, Command
<1> DEFINE next == [command EXCEPT !.id = id]
<1>3. next \in Command /\ next.id = id
  BY <1>2 DEF Command
<1>4. Fits([next EXCEPT !.awaits = "revoke"])
  BY <1>2 DEF Fits, Command
<1> QED
  BY <1>1, <1>2, <1>3, <1>4, SendInv DEF Kinds

LEMMA UnshareListedInv ==
  ASSUME Inv, NEW c \in Clients, UnshareListed(c)
  PROVE  Inv'
<1>1. Receive(c, "list") /\ client[c].op = "unshare"
  BY DEF UnshareListed
<1> DEFINE matched == {id \in reply[c].ids : path[id] = client[c].path}
           command == [client[c] EXCEPT !.todo = matched]
<1> USE <1>1, ReceiveQuiet
<1>2. command \in Command /\ command.op = "unshare" /\ command.answer = "none"
  BY DEF Command, Fits
<1>3. ASSUME RevokeNext(c, command) PROVE Inv'
  BY <1>2, <1>3, RevokeNextInv
<1>4. ASSUME NEW answer \in {"notFound", "error"}, End(c, client[c], answer) PROVE Inv'
  BY <1>4, EndInv DEF Fits
<1> QED
  BY <1>3, <1>4 DEF UnshareListed

LEMMA CountedTyped ==
  ASSUME Inv, NEW c \in Clients, Receive(c, "revoke")
  PROVE  /\ Counted(c) \in Command
         /\ Counted(c).op = "unshare" /\ Counted(c).answer = "none"
         /\ Counted(c).awaits = "revoke" /\ Counted(c).path = client[c].path
         /\ Counted(c).todo = client[c].todo \ {client[c].id}
         /\ (Counted(c).failed <=> client[c].failed \/ reply[c].code = "error")
<1>1. client[c] \in Command /\ client[c].awaits = "revoke" /\ Fits(client[c])
  BY ReceiveQuiet
<1>2. client[c].id \in Ids
  BY <1>1 DEF Fits
<1> QED
  BY <1>1, <1>2 DEF Counted, Command, Fits

LEMMA UnsharedOneInv ==
  ASSUME Inv, NEW c \in Clients, UnsharedOne(c)
  PROVE  Inv'
<1>1. Receive(c, "revoke")
  BY DEF UnsharedOne
<1> USE <1>1, ReceiveQuiet, CountedTyped
<1>2. ASSUME RevokeNext(c, Counted(c)) PROVE Inv'
  BY <1>2, RevokeNextInv
<1>3. ASSUME NEW answer \in {"ok", "notFound"}, End(c, Counted(c), answer) PROVE Inv'
  BY <1>3, EndInv DEF Fits
<1> QED
  BY <1>2, <1>3 DEF UnsharedOne

LEMMA TickInv ==
  ASSUME Inv, Tick
  PROVE  Inv'
<1> USE DEF Inv, TypeOK, Tick
<1>1. TableTypeOK' /\ stored' = stored
  BY DEF TableTypeOK, StoreTypeOK, storeVars, columns, history
<1>2. MailTypeOK' /\ WireInv' /\ ReplyInv' /\ SentInv' /\ CommandInv'
  BY DEF MailTypeOK, WireInv, ReplyInv, SentInv, CommandInv
<1>3. StoredInv'
  BY <1>1 DEF StoredInv
<1> QED
  BY <1>1, <1>2, <1>3 DEF bounds

LEMMA InitInv == Init => Inv
<1> SUFFICES ASSUME Init PROVE Inv
  OBVIOUS
<1> USE BlankTyped, ClientsAssumption DEF Init
<1>1. TableTypeOK
  BY DEF TableTypeOK, StoreTypeOK, OpenStore, BlankRow, Row, Modes
<1>2. MailTypeOK
  BY DEF MailTypeOK
<1>3. WireInv /\ ReplyInv /\ StoredInv
  BY DEF WireInv, ReplyInv, StoredInv, NoRequest, NoReply
<1>4. SentInv
  BY DEF SentInv, Sent, NoRequest, Seconds
<1>5. CommandInv
  BY DEF CommandInv, Fits, NoCommand
<1> QED
  BY <1>1, <1>2, <1>3, <1>4, <1>5 DEF Inv, TypeOK

LEMMA StutterInv ==
  ASSUME Inv, UNCHANGED vars
  PROVE  Inv'
<1> USE DEF Inv, TypeOK, vars
<1>1. TableTypeOK' /\ stored' = stored
  BY DEF TableTypeOK, StoreTypeOK, storeVars, columns, history
<1>2. MailTypeOK' /\ WireInv' /\ ReplyInv' /\ SentInv' /\ CommandInv'
  BY DEF MailTypeOK, WireInv, ReplyInv, SentInv, CommandInv
<1>3. StoredInv'
  BY <1>1 DEF StoredInv
<1> QED
  BY <1>1, <1>2, <1>3 DEF bounds

LEMMA NextInv == Inv /\ [Next]_vars => Inv'
<1> SUFFICES ASSUME Inv, [Next]_vars PROVE Inv'
  OBVIOUS
<1>1. ASSUME NEW c \in Clients, Step(c) PROVE Inv'
  BY <1>1, PublishInv, RenewInv, UnshareInv, PublishListedInv, PrintedInv,
     UnsharedByIdInv, UnshareListedInv, UnsharedOneInv DEF Step
<1>2. ASSUME NEW c \in Clients, Daemon(c) PROVE Inv'
  BY <1>2, HandleInv, HandleFailsInv, TimeOutInv, HandleLateInv DEF Daemon
<1> QED
  BY <1>1, <1>2, TickInv, StutterInv DEF Next

LEMMA AlwaysInv == Spec => []Inv
<1> QED
  BY InitInv, NextInv, PTL DEF Spec

\* The table, the commands and what is on the wire are well typed, and every share has
\* the path of a source.
THEOREM TypeCorrect == Spec => []TypeOK
<1>1. Inv => TypeOK
  BY DEF Inv
<1> QED
  BY <1>1, AlwaysInv, PTL

-----------------------------------------------------------------------------
(* What a request changes about the shares that are active.  Mode and path of a share  *)
(* never change; a revoked one stays closed.                                           *)

\* The same after a step.
IsNow(id, cmd) == id \in stored' /\ row'[id].mode = cmd.mode /\ path'[id] = cmd.path

Kept == \A id \in stored : id \in stored' /\ row'[id].mode = row[id].mode /\ path'[id] = path[id]

LEMMA InsertEffect ==
  ASSUME Inv, NEW q \in Request, Sent(q), NEW id \in Ids, Insert(q, id), clock' = clock
  PROVE  /\ Kept /\ raced' = raced
         /\ Active' = Active \cup {id} /\ id \notin Active
         /\ IsNow(id, q)
         /\ \A p \in Paths : LiveShares(p)' = IF q.mode = "live" /\ q.path = p
                                              THEN LiveShares(p) \cup {id} ELSE LiveShares(p)
<1> USE DEF Inv, TypeOK, TableTypeOK, StoreTypeOK, Insert, CreateShare
<1>1. Expiry(q) > clock
  BY ExpiryTyped
<1>2. /\ \A e \in stored : row'[e] = row[e] /\ path'[e] = path[e]
      /\ id \notin stored /\ stored' = stored \cup {id}
      /\ row'[id] = [mode |-> q.mode, expires |-> Expiry(q), revoked |-> FALSE, served |-> FALSE]
      /\ path'[id] = q.path
  OBVIOUS
<1>3. Kept /\ raced' = raced /\ IsNow(id, q)
  BY <1>2 DEF Kept, IsNow, Request
<1>4. Active' = Active \cup {id} /\ id \notin Active
  BY <1>1, <1>2 DEF Active, IsActive
<1>5. \A p \in Paths : LiveShares(p)' = IF q.mode = "live" /\ q.path = p
                                        THEN LiveShares(p) \cup {id} ELSE LiveShares(p)
  BY <1>2, <1>4, ActiveStored DEF LiveShares
<1> QED
  BY <1>3, <1>4, <1>5

LEMMA UpdateEffect ==
  ASSUME Inv, NEW q \in Request, Update(q), clock' = clock
  PROVE  /\ Kept /\ raced \subseteq raced'
         /\ \A p \in Paths \ raced' : p \notin raced /\ LiveShares(p)' \subseteq LiveShares(p)
         /\ q.kind = "renew" => Active' \subseteq Active \cup {q.id}
         /\ q.kind = "revoke" => Active' \subseteq Active \ {q.id}
<1> USE DEF Inv, TypeOK, TableTypeOK, StoreTypeOK, Update, CanUpdate, columns
<1>1. Kept /\ stored' = stored
  BY DEF Kept, RenewShare, RevokeShare, Row
<1>2. CASE q.kind = "renew"
  <2>1. /\ q.id \in stored /\ path' = path
        /\ row' = [row EXCEPT ![q.id].expires = Expiry(q)]
        /\ raced' = IF q.id \in Active THEN raced ELSE raced \cup {path[q.id]}
    BY <1>2 DEF RenewShare
  <2>2. Active' \subseteq Active \cup {q.id}
    BY <1>1, <2>1 DEF Active, IsActive
  <2>3. \A p \in Paths \ raced' : LiveShares(p)' \subseteq LiveShares(p)
    BY <1>1, <2>1, <2>2, ActiveStored DEF LiveShares, Kept
  <2> QED
    BY <1>1, <1>2, <2>1, <2>2, <2>3
<1>3. CASE q.kind = "revoke"
  <2>1. /\ q.id \in stored /\ path' = path /\ raced' = raced
        /\ row' = [row EXCEPT ![q.id].revoked = TRUE]
    BY <1>3 DEF RevokeShare, history
  <2>2. Active' \subseteq Active \ {q.id}
    BY <1>1, <2>1 DEF Active, IsActive, Row
  <2>3. \A p \in Paths : LiveShares(p)' \subseteq LiveShares(p)
    BY <1>1, <2>1, <2>2, ActiveStored DEF LiveShares, Kept
  <2> QED
    BY <1>1, <1>3, <2>1, <2>2, <2>3
<1> QED
  BY <1>2, <1>3

LEMMA SameEffect ==
  ASSUME UNCHANGED <<storeVars, path, clock>>
  PROVE  /\ Kept /\ Active' = Active
         /\ \A p : LiveShares(p)' = LiveShares(p)
<1> USE DEF storeVars
<1>1. Active' = Active
  BY DEF Active, IsActive
<1> QED
  BY <1>1 DEF Kept, LiveShares

-----------------------------------------------------------------------------
(* One live share for a path. *)

\* A step of the daemon that makes no live share, of a path that is not raced.
LEMMA DaemonLive ==
  ASSUME Inv, LiveInv, NEW c \in Clients,
         client' = client, wire' \in {wire, [wire EXCEPT ![c] = NoRequest]},
         raced \subseteq raced',
         \A p \in Paths \ raced' : LiveShares(p)' \subseteq LiveShares(p),
         \A d \in Clients :
            /\ \/ late'[d] = late[d]
               \/ late'[d].kind = "create" /\ late'[d].mode = "live" => late'[d].path \in raced'
            /\ \/ reply'[d] = reply[d]
               \/ client[d].awaits = "list" /\ reply'[d].code = "ok" => Active \subseteq reply'[d].ids
  PROVE  LiveInv'
<1> SUFFICES ASSUME NEW p \in Paths \ raced'
             PROVE  /\ \A a, b \in LiveShares(p)' : a = b
                    /\ \A a, b \in Publishing(p)' : a = b
                    /\ \A d \in Clients :
                        /\ ~(late'[d].kind = "create" /\ late'[d].mode = "live" /\ late'[d].path = p)
                        /\ d \in Publishing(p)' /\ client'[d].awaits = "list" /\ reply'[d].code = "ok"
                              => LiveShares(p)' \subseteq reply'[d].ids
                        /\ d \in Publishing(p)' /\ wire'[d].kind = "create" => LiveShares(p)' = {}
  BY DEF LiveInv
<1>1. p \notin raced /\ LiveShares(p) \subseteq Active
  BY DEF LiveShares
<1>2. Publishing(p)' = Publishing(p)
  BY DEF Publishing
<1>3. \A d \in Clients : wire'[d].kind = "create" => wire[d].kind = "create"
  BY DEF Inv, TypeOK, MailTypeOK, NoRequest
<1> QED
  BY <1>1, <1>2, <1>3 DEF LiveInv

\* A step of a command: the table stays, and the shares with it.
LEMMA CommandLive ==
  ASSUME Inv, LiveInv, NEW c \in Clients, Quiet(c),
         \A d \in Clients \ {c} : client'[d] = client[d] /\ wire'[d] = wire[d],
         \A p \in Paths \ raced' : c \in Publishing(p)' =>
            /\ Publishing(p) \subseteq {c}
            /\ wire'[c].kind = "create" => LiveShares(p) = {}
  PROVE  LiveInv'
<1> SUFFICES ASSUME NEW p \in Paths \ raced'
             PROVE  /\ \A a, b \in LiveShares(p)' : a = b
                    /\ \A a, b \in Publishing(p)' : a = b
                    /\ \A d \in Clients :
                        /\ ~(late'[d].kind = "create" /\ late'[d].mode = "live" /\ late'[d].path = p)
                        /\ d \in Publishing(p)' /\ client'[d].awaits = "list" /\ reply'[d].code = "ok"
                              => LiveShares(p)' \subseteq reply'[d].ids
                        /\ d \in Publishing(p)' /\ wire'[d].kind = "create" => LiveShares(p)' = {}
  BY DEF LiveInv
<1>1. p \notin raced /\ late' = late /\ LiveShares(p)' = LiveShares(p)
  BY SameEffect DEF Quiet, columns
<1>2. \A d \in Clients \ {c} : d \in Publishing(p)' <=> d \in Publishing(p)
  BY DEF Publishing
<1>3. reply'[c].code = "none" /\ \A d \in Clients \ {c} : reply'[d] = reply[d]
  BY DEF Quiet, Inv, TypeOK, MailTypeOK, NoReply
<1>4. Publishing(p)' \subseteq Clients
  BY DEF Publishing
<1> QED
  BY <1>1, <1>2, <1>3, <1>4 DEF LiveInv

\* A create on time: the command is the only one of its path, and found no share.
LEMMA InsertLive ==
  ASSUME Inv, LiveInv, NEW c \in Clients, NEW id \in Ids, Insert(wire[c], id), clock' = clock,
         client' = client, wire' = [wire EXCEPT ![c] = NoRequest], late' = late,
         \A d \in Clients \ {c} : reply'[d] = reply[d]
  PROVE  LiveInv'
<1> DEFINE q == wire[c]
<1>1. q \in Request /\ Sent(q) /\ q.kind = "create"
  BY DEF Inv, TypeOK, MailTypeOK, SentInv, Insert
<1>2. /\ client[c].awaits = "create" /\ client[c].op = "publish"
      /\ client[c].mode = q.mode /\ client[c].path = q.path
  BY <1>1 DEF Inv, WireInv, CommandInv, Fits
<1>3. /\ raced' = raced
      /\ \A p \in Paths : LiveShares(p)' = IF q.mode = "live" /\ q.path = p
                                           THEN LiveShares(p) \cup {id} ELSE LiveShares(p)
  BY <1>1, InsertEffect
<1> SUFFICES ASSUME NEW p \in Paths \ raced
             PROVE  /\ \A a, b \in LiveShares(p)' : a = b
                    /\ \A a, b \in Publishing(p)' : a = b
                    /\ \A d \in Clients :
                        /\ ~(late'[d].kind = "create" /\ late'[d].mode = "live" /\ late'[d].path = p)
                        /\ d \in Publishing(p)' /\ client'[d].awaits = "list" /\ reply'[d].code = "ok"
                              => LiveShares(p)' \subseteq reply'[d].ids
                        /\ d \in Publishing(p)' /\ wire'[d].kind = "create" => LiveShares(p)' = {}
  BY <1>3 DEF LiveInv
<1>4. Publishing(p)' = Publishing(p)
  BY DEF Publishing
<1>5. wire'[c].kind = "none" /\ \A d \in Clients \ {c} : wire'[d] = wire[d]
  BY DEF Inv, TypeOK, MailTypeOK, NoRequest
<1>6. CASE q.mode = "live" /\ q.path = p
  <2>1. Publishing(p) = {c}
    BY <1>2, <1>6 DEF Publishing, LiveInv
  <2>2. LiveShares(p) = {}
    BY <1>1, <2>1 DEF LiveInv
  <2> QED
    BY <1>2, <1>3, <1>4, <1>5, <1>6, <2>1, <2>2 DEF LiveInv
<1>7. CASE ~(q.mode = "live" /\ q.path = p)
  BY <1>2, <1>3, <1>4, <1>5, <1>7 DEF LiveInv
<1> QED
  BY <1>6, <1>7

LEMMA HandleLive ==
  ASSUME Inv, LiveInv, NEW c \in Clients, Handle(c)
  PROVE  LiveInv'
<1>0. /\ client' = client /\ clock' = clock /\ late' = late
      /\ wire' = [wire EXCEPT ![c] = NoRequest]
      /\ \A d \in Clients \ {c} : reply'[d] = reply[d]
      /\ wire[c] \in Request
  BY DEF Handle, Answered, HandleList, Inv, TypeOK, MailTypeOK
<1>1. ASSUME NEW id \in Ids, Insert(wire[c], id) PROVE LiveInv'
  BY <1>0, <1>1, InsertLive
<1>2. ASSUME Update(wire[c]) PROVE LiveInv'
  <2>1. client[c].awaits # "list"
    BY <1>2 DEF Update, Inv, WireInv
  <2> QED
    BY <1>0, <1>2, <2>1, UpdateEffect, DaemonLive
<1>3. ASSUME NoneToUpdate(wire[c]) PROVE LiveInv'
  <2>1. client[c].awaits # "list"
    BY <1>3 DEF NoneToUpdate, Inv, WireInv
  <2>2. UNCHANGED <<storeVars, path, clock>> /\ raced' = raced
    BY <1>0, <1>3 DEF NoneToUpdate, columns, history
  <2> QED
    BY <1>0, <2>1, <2>2, SameEffect, DaemonLive
<1>4. ASSUME HandleList(wire[c], c) PROVE LiveInv'
  <2>1. reply'[c].ids = Active
    BY <1>4 DEF HandleList, Inv, TypeOK, MailTypeOK
  <2>2. UNCHANGED <<storeVars, path, clock>> /\ raced' = raced
    BY <1>0, <1>4 DEF HandleList, columns
  <2> QED
    BY <1>0, <2>1, <2>2, SameEffect, DaemonLive
<1> QED
  BY <1>1, <1>2, <1>3, <1>4 DEF Handle

LEMMA HandleFailsLive ==
  ASSUME Inv, LiveInv, NEW c \in Clients, HandleFails(c)
  PROVE  LiveInv'
<1>0. /\ client' = client /\ clock' = clock /\ late' = late
      /\ wire' = [wire EXCEPT ![c] = NoRequest]
      /\ reply'[c].code = "error"
      /\ \A d \in Clients \ {c} : reply'[d] = reply[d]
      /\ wire[c] \in Request
  BY DEF HandleFails, Answered, Inv, TypeOK, MailTypeOK
<1>1. ASSUME NEW id \in Ids, Insert(wire[c], id) PROVE LiveInv'
  BY <1>0, <1>1, InsertLive
<1>2. ASSUME Update(wire[c]) PROVE LiveInv'
  BY <1>0, <1>2, UpdateEffect, DaemonLive
<1>3. ASSUME UNCHANGED <<storeVars, columns, history>> PROVE LiveInv'
  <2>1. UNCHANGED <<storeVars, path, clock>> /\ raced' = raced
    BY <1>0, <1>3 DEF columns, history
  <2> QED
    BY <1>0, <2>1, SameEffect, DaemonLive
<1> QED
  BY <1>1, <1>2, <1>3 DEF HandleFails

LEMMA TimeOutLive ==
  ASSUME Inv, LiveInv, NEW c \in Clients, TimeOut(c)
  PROVE  LiveInv'
<1>1. /\ client' = client /\ UNCHANGED <<storeVars, path, clock>>
      /\ wire' = [wire EXCEPT ![c] = NoRequest]
      /\ reply'[c].code = "error"
      /\ \A d \in Clients \ {c} : reply'[d] = reply[d] /\ late'[d] = late[d]
      /\ raced \subseteq raced'
  BY DEF TimeOut, Answered, columns, Inv, TypeOK, MailTypeOK
<1>2. \/ late'[c] = late[c]
      \/ late'[c].kind = "create" /\ late'[c].mode = "live" => late'[c].path \in raced'
  BY DEF TimeOut, Inv, TypeOK, MailTypeOK
<1> QED
  BY <1>1, <1>2, SameEffect, DaemonLive

LEMMA HandleLateLive ==
  ASSUME Inv, LiveInv, NEW c \in Clients, HandleLate(c)
  PROVE  LiveInv'
<1>0. /\ client' = client /\ clock' = clock /\ wire' = wire /\ reply' = reply
      /\ late'[c].kind = "none"
      /\ \A d \in Clients \ {c} : late'[d] = late[d]
      /\ late[c] \in Request /\ Sent(late[c])
  BY DEF HandleLate, Inv, TypeOK, MailTypeOK, SentInv, NoRequest
<1>1. ASSUME NEW id \in Ids, Insert(late[c], id) PROVE LiveInv'
  <2>1. \A p \in Paths \ raced : ~(late[c].mode = "live" /\ late[c].path = p)
    BY <1>1 DEF Insert, LiveInv
  <2> QED
    BY <1>0, <1>1, <2>1, InsertEffect, DaemonLive
<1>2. ASSUME Update(late[c]) PROVE LiveInv'
  BY <1>0, <1>2, UpdateEffect, DaemonLive
<1>3. ASSUME NoneToUpdate(late[c]) PROVE LiveInv'
  <2>1. UNCHANGED <<storeVars, path, clock>> /\ raced' = raced
    BY <1>0, <1>3 DEF NoneToUpdate, columns, history
  <2> QED
    BY <1>0, <2>1, SameEffect, DaemonLive
<1> QED
  BY <1>1, <1>2, <1>3 DEF HandleLate

LEMMA TickLive ==
  ASSUME Inv, LiveInv, Tick
  PROVE  LiveInv'
<1>1. \A p : LiveShares(p)' \subseteq LiveShares(p)
  BY DEF Tick, storeVars, columns, LiveShares, Active, IsActive, Inv, TypeOK, TableTypeOK,
         StoreTypeOK, Row
<1>2. \A p : Publishing(p)' = Publishing(p)
  BY DEF Tick, Publishing
<1> QED
  BY <1>1, <1>2 DEF LiveInv, Tick, history

LEMMA StutterLive ==
  ASSUME LiveInv, UNCHANGED vars
  PROVE  LiveInv'
<1>1. \A p : LiveShares(p)' = LiveShares(p)
  BY SameEffect DEF vars, columns
<1>2. \A p : Publishing(p)' = Publishing(p)
  BY DEF vars, Publishing
<1> QED
  BY <1>1, <1>2 DEF LiveInv, vars, history

LEMMA SendShape ==
  ASSUME Inv, NEW c \in Clients, NEW command \in Command, NEW kind, NEW id,
         Send(c, command, kind, id)
  PROVE  /\ client'[c] = [command EXCEPT !.awaits = kind]
         /\ client'[c].awaits = kind /\ client'[c].op = command.op /\ client'[c].mode = command.mode
         /\ client'[c].path = command.path /\ client'[c].answer = command.answer
         /\ client'[c].todo = command.todo /\ client'[c].failed = command.failed
         /\ client'[c].id = command.id
         /\ \A d \in Clients \ {c} : client'[d] = client[d] /\ wire'[d] = wire[d]
  BY DEF Send, Inv, TypeOK, MailTypeOK, Command

LEMMA EndShape ==
  ASSUME Inv, NEW c \in Clients, NEW command \in Command, NEW answer,
         End(c, command, answer)
  PROVE  /\ client'[c].awaits = "none" /\ client'[c].op = command.op
         /\ client'[c].mode = command.mode /\ client'[c].path = command.path
         /\ client'[c].id = command.id /\ client'[c].failed = command.failed
         /\ client'[c].answer = answer
         /\ wire' = wire
         /\ \A d \in Clients \ {c} : client'[d] = client[d]
  BY DEF End, Inv, TypeOK, MailTypeOK, Command

\* A renew or an unshare goes on.
Aside(c) ==
    /\ Quiet(c)
    /\ \A d \in Clients \ {c} : client'[d] = client[d] /\ wire'[d] = wire[d]
    /\ client'[c].op # "publish"

LEMMA RenewAside ==
  ASSUME Inv, NEW c \in Clients, Renew(c)
  PROVE  Aside(c)
<1>1. PICK id \in stored, life \in Lifetimes :
        Send(c, [NoCommand EXCEPT !.op = "renew", !.id = id, !.life = life], "renew", id)
  BY DEF Renew
<1> DEFINE command == [NoCommand EXCEPT !.op = "renew", !.id = id, !.life = life]
<1>2. command \in Command /\ command.op = "renew"
  BY ClientsAssumption DEF NoCommand, Command, Kinds, Modes, Inv, TypeOK, TableTypeOK, StoreTypeOK
<1>3. Quiet(c)
  BY BeginQuiet DEF Renew, Quiet, Inv, TypeOK, TableTypeOK, history
<1> QED
  BY <1>1, <1>2, <1>3, SendShape DEF Aside

LEMMA UnshareAside ==
  ASSUME Inv, NEW c \in Clients, Unshare(c)
  PROVE  Aside(c)
<1>1. Quiet(c)
  BY BeginQuiet DEF Unshare, Quiet, Inv, TypeOK, TableTypeOK, history
<1>2. ASSUME NEW id \in stored,
             Send(c, [NoCommand EXCEPT !.op = "unshare", !.id = id], "revoke", id)
      PROVE  Aside(c)
  <2> DEFINE command == [NoCommand EXCEPT !.op = "unshare", !.id = id]
  <2>1. command \in Command /\ command.op = "unshare"
    BY DEF NoCommand, Command, Kinds, Modes, Inv, TypeOK, TableTypeOK, StoreTypeOK
  <2> QED
    BY <1>1, <1>2, <2>1, SendShape DEF Aside
<1>3. ASSUME NEW p \in Paths,
             Send(c, [NoCommand EXCEPT !.op = "unshare", !.path = p], "list", NoId)
      PROVE  Aside(c)
  <2> DEFINE command == [NoCommand EXCEPT !.op = "unshare", !.path = p]
  <2>1. command \in Command /\ command.op = "unshare"
    BY DEF NoCommand, Command, Kinds, Modes
  <2> QED
    BY <1>1, <1>3, <2>1, SendShape DEF Aside
<1> QED
  BY <1>2, <1>3 DEF Unshare

LEMMA UnsharingAside ==
  ASSUME Inv, NEW c \in Clients, UnsharedById(c) \/ UnshareListed(c) \/ UnsharedOne(c)
  PROVE  Aside(c)
<1>1. /\ Quiet(c) /\ client[c] \in Command /\ client[c].op = "unshare"
      /\ reply[c].ids \subseteq Ids
  BY ReceiveQuiet DEF UnsharedById, UnshareListed, UnsharedOne, Fits
<1>2. ASSUME NEW command \in Command, command.op = "unshare",
             \/ \E kind, id : Send(c, command, kind, id)
             \/ \E answer : End(c, command, answer)
             \/ RevokeNext(c, command)
      PROVE  Aside(c)
  <2>1. ASSUME NEW kind, NEW id, Send(c, command, kind, id) PROVE Aside(c)
    BY <1>1, <1>2, <2>1, SendShape DEF Aside
  <2>2. ASSUME NEW answer, End(c, command, answer) PROVE Aside(c)
    BY <1>1, <1>2, <2>2, EndShape DEF Aside
  <2>3. ASSUME RevokeNext(c, command) PROVE Aside(c)
    <3>1. PICK id \in Newest(command.todo) : Send(c, [command EXCEPT !.id = id], "revoke", id)
      BY <2>3 DEF RevokeNext
    <3>2. [command EXCEPT !.id = id] \in Command /\ [command EXCEPT !.id = id].op = "unshare"
      BY <1>2, <3>1 DEF Newest, Command
    <3> QED
      BY <1>1, <3>1, <3>2, SendShape DEF Aside
  <2> QED
    BY <1>2, <2>1, <2>2, <2>3
<1>3. CASE UnsharedById(c)
  BY <1>1, <1>2, <1>3 DEF UnsharedById
<1>4. CASE UnshareListed(c)
  <2> DEFINE matched == {id \in reply[c].ids : path[id] = client[c].path}
             command == [client[c] EXCEPT !.todo = matched]
  <2>1. command \in Command /\ command.op = "unshare"
    BY <1>1 DEF Command
  <2>2. \/ RevokeNext(c, command)
        \/ End(c, client[c], "notFound")
        \/ End(c, client[c], "error")
    BY <1>4 DEF UnshareListed
  <2> QED
    BY <1>1, <1>2, <2>1, <2>2
<1>5. CASE UnsharedOne(c)
  <2>1. Counted(c) \in Command /\ Counted(c).op = "unshare"
    BY <1>5, CountedTyped DEF UnsharedOne
  <2> QED
    BY <1>2, <1>5, <2>1 DEF UnsharedOne
<1> QED
  BY <1>3, <1>4, <1>5

\* A command that ends, or is no publish, is in nobody's way.
LEMMA AsideLive ==
  ASSUME Inv, LiveInv, NEW c \in Clients, Quiet(c),
         \A d \in Clients \ {c} : client'[d] = client[d] /\ wire'[d] = wire[d],
         client'[c].op # "publish" \/ client'[c].awaits = "none"
  PROVE  LiveInv'
  BY CommandLive DEF Publishing

LEMMA PublishLive ==
  ASSUME Inv, LiveInv, NEW c \in Clients, Publish(c)
  PROVE  LiveInv'
<1>1. PICK p \in Paths, mode \in Modes, life \in Lifetimes :
        /\ Send(c, [NoCommand EXCEPT !.op = "publish", !.path = p, !.mode = mode, !.life = life],
                IF mode = "live" THEN "list" ELSE "create", NoId)
        /\ raced' = IF mode = "live" /\ Publishing(p) # {} THEN raced \cup {p} ELSE raced
  BY DEF Publish
<1> DEFINE command == [NoCommand EXCEPT !.op = "publish", !.path = p, !.mode = mode, !.life = life]
<1>2. command \in Command /\ command.path = p /\ command.mode = mode
  BY ClientsAssumption DEF NoCommand, Command, Kinds
<1> HIDE DEF command
<1>3. /\ \A d \in Clients \ {c} : client'[d] = client[d] /\ wire'[d] = wire[d]
      /\ client'[c].path = p /\ client'[c].mode = mode
  BY <1>1, <1>2, SendShape DEF command
<1>5. mode = "live" => wire'[c].kind # "create"
  BY <1>1 DEF Send, Inv, TypeOK, MailTypeOK
<1>4. Quiet(c)
  BY <1>1, BeginQuiet DEF Publish, Quiet, Inv, TypeOK, TableTypeOK
<1> QED
  BY <1>1, <1>3, <1>4, <1>5, CommandLive DEF Publishing

\* What the list has shown is still all there is when the command goes on.
LEMMA PublishListedLive ==
  ASSUME Inv, LiveInv, NEW c \in Clients, PublishListed(c)
  PROVE  LiveInv'
<1>1. Receive(c, "list") /\ client[c].op = "publish"
  BY DEF PublishListed
<1>2. /\ Quiet(c) /\ client[c] \in Command /\ client[c].awaits = "list"
      /\ client[c].mode = "live"
  BY <1>1, ReceiveQuiet DEF Fits
<1>3. \A p \in Paths \ raced : c \in Publishing(p) => Publishing(p) \subseteq {c}
  BY DEF LiveInv
<1>4. ASSUME NEW id, Send(c, client[c], "renew", id) PROVE LiveInv'
  <2>0. wire'[c].kind = "renew"
    BY <1>4 DEF Send, Inv, TypeOK, MailTypeOK
  <2>1. /\ client'[c].path = client[c].path
        /\ \A d \in Clients \ {c} : client'[d] = client[d] /\ wire'[d] = wire[d]
    BY <1>2, <1>4, SendShape
  <2>2. \A p : c \in Publishing(p)' => c \in Publishing(p)
    BY <1>1, <1>2, <2>1 DEF Publishing
  <2> QED
    BY <1>2, <1>3, <2>0, <2>1, <2>2, CommandLive DEF Quiet
<1>5. ASSUME reply[c].code = "ok", Reusable(reply[c].ids, client[c].path) = {},
             Send(c, client[c], "create", NoId)
      PROVE  LiveInv'
  <2>1. /\ client'[c].path = client[c].path
        /\ \A d \in Clients \ {c} : client'[d] = client[d] /\ wire'[d] = wire[d]
    BY <1>2, <1>5, SendShape
  <2>2. \A p : c \in Publishing(p)' => p = client[c].path /\ c \in Publishing(p)
    BY <1>1, <1>2, <2>1 DEF Publishing
  <2>3. \A p \in Paths \ raced : c \in Publishing(p) => LiveShares(p) \subseteq reply[c].ids
    BY <1>2, <1>5 DEF LiveInv
  <2>4. \A p \in Paths \ raced : c \in Publishing(p) /\ p = client[c].path => LiveShares(p) = {}
    BY <1>5, <2>3 DEF LiveShares, Reusable
  <2> QED
    BY <1>2, <1>3, <2>1, <2>2, <2>4, CommandLive DEF Quiet
<1>6. ASSUME End(c, client[c], "error") PROVE LiveInv'
  BY <1>2, <1>6, EndShape, AsideLive
<1> QED
  BY <1>4, <1>5, <1>6 DEF PublishListed

LEMMA PrintedLive ==
  ASSUME Inv, LiveInv, NEW c \in Clients, Printed(c)
  PROVE  LiveInv'
<1>1. PICK kind \in {"create", "renew"} : Receive(c, kind)
  BY DEF Printed
<1>2. Quiet(c) /\ client[c] \in Command /\ reply[c].ids \subseteq Ids
  BY <1>1, ReceiveQuiet
<1>3. \A id \in reply[c].ids : [client[c] EXCEPT !.id = id] \in Command
  BY <1>2 DEF Command
<1>4. PICK command \in Command : \E answer : End(c, command, answer)
  BY <1>2, <1>3 DEF Printed
<1> QED
  BY <1>2, <1>4, EndShape, AsideLive

LEMMA NextLive == Inv /\ LiveInv /\ [Next]_vars => LiveInv'
<1> SUFFICES ASSUME Inv, LiveInv, [Next]_vars PROVE LiveInv'
  OBVIOUS
<1>1. ASSUME NEW c \in Clients, Step(c) PROVE LiveInv'
  BY <1>1, PublishLive, PublishListedLive, PrintedLive, RenewAside, UnshareAside,
     UnsharingAside, AsideLive DEF Step, Aside
<1>2. ASSUME NEW c \in Clients, Daemon(c) PROVE LiveInv'
  BY <1>2, HandleLive, HandleFailsLive, TimeOutLive, HandleLateLive DEF Daemon
<1> QED
  BY <1>1, <1>2, TickLive, StutterLive DEF Next

\* A path has one live share, unless publish commands of it overlapped, a create came
\* late or an expired share was renewed, for any number of clients.
THEOREM OneLink == Spec => []OneLiveShareUnlessRaced
<1>1. Init => LiveInv
  BY DEF Init, OpenStore, LiveInv, LiveShares, Active, IsActive, Publishing, NoCommand, NoRequest
<1>2. LiveInv => OneLiveShareUnlessRaced
  BY DEF LiveInv, OneLiveShareUnlessRaced
<1> QED
  BY <1>1, <1>2, NextLive, AlwaysInv, PTL DEF Spec

-----------------------------------------------------------------------------
(* Shares live as long as was asked. *)

\* The time of a share is what a request had asked for, whoever sent it.
Lives(id) ==
    LET g == granted[id] IN
    g.asked < 2 \/ 2 * (row[id].expires - g.at) \in g.asked - 1..g.asked

LEMMA ExpiryLives ==
  ASSUME TableTypeOK, NEW q \in Request, Sent(q)
  PROVE  q.asked < 2 \/ 2 * (Expiry(q) - clock) \in q.asked - 1..q.asked
<1>1. q.asked \in Nat /\ clock \in Nat
  BY DEF Request, TableTypeOK
<1>2. CASE q.asked >= 2
  <2>1. q.life = q.asked \div 2 /\ q.life # 0 /\ q.life \in Nat
    BY <1>1, <1>2 DEF Sent, Seconds
  <2> QED
    BY <1>1, <2>1 DEF Expiry
<1> QED
  BY <1>1, <1>2

LEMMA WriteLives ==
  ASSUME TableTypeOK, LivesAsAskedUnlessTooShort, NEW q \in Request, Sent(q), Write(q)
  PROVE  LivesAsAskedUnlessTooShort'
<1> USE DEF TableTypeOK, StoreTypeOK
<1>1. \A id \in stored : Lives(id)
  BY DEF LivesAsAskedUnlessTooShort, Lives
<1>2. ASSUME NEW id \in Ids, Insert(q, id) PROVE \A e \in stored' : Lives(e)'
  <2>1. /\ stored' = stored \cup {id}
        /\ row'[id].expires = Expiry(q) /\ granted'[id] = [at |-> clock, asked |-> q.asked]
        /\ \A e \in stored \ {id} : row'[e] = row[e] /\ granted'[e] = granted[e]
    BY <1>2 DEF Insert, CreateShare, Granted
  <2> QED
    BY <1>1, <2>1, ExpiryLives DEF Lives
<1>3. ASSUME Update(q) PROVE \A e \in stored' : Lives(e)'
  <2>1. CASE q.kind = "renew"
    <3>1. /\ stored' = stored /\ q.id \in stored
          /\ row'[q.id].expires = Expiry(q) /\ granted'[q.id] = [at |-> clock, asked |-> q.asked]
          /\ \A e \in stored \ {q.id} : row'[e] = row[e] /\ granted'[e] = granted[e]
      BY <1>3, <2>1 DEF Update, RenewShare, CanUpdate, Granted, Row
    <3> QED
      BY <1>1, <3>1, ExpiryLives DEF Lives
  <2>2. CASE q.kind = "revoke"
    <3>1. /\ stored' = stored /\ granted' = granted
          /\ \A e \in stored : row'[e].expires = row[e].expires
      BY <1>3, <2>2 DEF Update, RevokeShare, CanUpdate, Row, history
    <3> QED
      BY <1>1, <3>1 DEF Lives
  <2> QED
    BY <1>3, <2>1, <2>2 DEF Update
<1> QED
  BY <1>2, <1>3 DEF Write, LivesAsAskedUnlessTooShort, Lives

LEMMA SameLives ==
  ASSUME LivesAsAskedUnlessTooShort, UNCHANGED <<storeVars, granted>>
  PROVE  LivesAsAskedUnlessTooShort'
  BY DEF LivesAsAskedUnlessTooShort, storeVars

\* A share lives as long as the last request asked for it, to the second, whichever command
\* sent it and however late it came.
THEOREM LifetimeKept == Spec => []LivesAsAskedUnlessTooShort
<1>1. Init => LivesAsAskedUnlessTooShort
  BY DEF Init, OpenStore, LivesAsAskedUnlessTooShort
<1>2. ASSUME Inv, LivesAsAskedUnlessTooShort, [Next]_vars PROVE LivesAsAskedUnlessTooShort'
  <2>1. ASSUME NEW c \in Clients, Daemon(c) PROVE LivesAsAskedUnlessTooShort'
    <3>1. /\ wire[c] \in Request /\ Sent(wire[c]) /\ late[c] \in Request /\ Sent(late[c])
          /\ TableTypeOK
      BY <1>2 DEF Inv, TypeOK, MailTypeOK, SentInv
    <3>2. Write(wire[c]) \/ Write(late[c]) \/ UNCHANGED <<storeVars, granted>>
      BY <2>1 DEF Daemon, Handle, HandleFails, TimeOut, HandleLate, NoneToUpdate, HandleList,
                  Write, history
    <3> QED
      BY <1>2, <3>1, <3>2, WriteLives, SameLives
  <2>2. ASSUME NEW c \in Clients, Step(c) PROVE UNCHANGED <<storeVars, granted>>
    BY <2>2 DEF Step, Publish, Renew, Unshare, PublishListed, Printed, UnsharedById,
                UnshareListed, UnsharedOne, Receive, history
  <2>3. CASE Tick \/ UNCHANGED vars
    BY <1>2, <2>3, SameLives DEF Tick, vars, history
  <2> QED
    BY <1>2, <2>1, <2>2, <2>3, SameLives DEF Next
<1> QED
  BY <1>1, <1>2, AlwaysInv, PTL DEF Spec

-----------------------------------------------------------------------------
(* What publish prints. *)

LEMMA ForKept ==
  ASSUME Kept, NEW id, NEW cmd, IsFor(id, cmd)
  PROVE  IsNow(id, cmd)
  BY DEF Kept, IsFor, IsNow

\* A step of the daemon: what it answers a create or a renewal with is for its command.
LEMMA DaemonPrint ==
  ASSUME Inv, PrintInv, NEW c \in Clients, Kept,
         client' = client, wire' \in {wire, [wire EXCEPT ![c] = NoRequest]},
         \A d \in Clients \ {c} : reply'[d] = reply[d],
         \/ reply'[c] = reply[c]
         \/ client[c].awaits = "list"
         \/ client[c].op = "publish" => \A id \in reply'[c].ids : IsNow(id, client[c])
  PROVE  PrintInv'
<1> SUFFICES ASSUME NEW d \in Clients, client[d].op = "publish"
             PROVE  /\ wire'[d].kind = "renew" => IsNow(wire'[d].id, client[d])
                    /\ client[d].awaits \in {"create", "renew"} =>
                          \A id \in reply'[d].ids : IsNow(id, client[d])
                    /\ client[d].answer = "ok" => IsNow(client[d].id, client[d])
  BY DEF PrintInv, IsFor, IsNow
<1>1. wire'[d].kind = "renew" => IsNow(wire'[d].id, client[d])
  <2>1. wire'[d].kind = "renew" => wire'[d] = wire[d]
    BY DEF Inv, TypeOK, MailTypeOK, NoRequest
  <2> QED
    BY <2>1, ForKept DEF PrintInv
<1>2. client[d].awaits \in {"create", "renew"} => \A id \in reply'[d].ids : IsNow(id, client[d])
  BY ForKept DEF PrintInv
<1>3. client[d].answer = "ok" => IsNow(client[d].id, client[d])
  BY ForKept DEF PrintInv
<1> QED
  BY <1>1, <1>2, <1>3

LEMMA InsertPrint ==
  ASSUME Inv, PrintInv, NEW c \in Clients, NEW id \in Ids, Insert(wire[c], id), clock' = clock,
         client' = client, wire' = [wire EXCEPT ![c] = NoRequest],
         \A d \in Clients \ {c} : reply'[d] = reply[d], reply'[c].ids \subseteq {id}
  PROVE  PrintInv'
<1>1. wire[c] \in Request /\ Sent(wire[c]) /\ wire[c].kind = "create"
  BY DEF Inv, TypeOK, MailTypeOK, SentInv, Insert
<1>2. Kept /\ IsNow(id, wire[c])
  BY <1>1, InsertEffect
<1>3. wire[c].path = client[c].path /\ wire[c].mode = client[c].mode
  BY <1>1 DEF Inv, WireInv
<1>4. IsNow(id, client[c])
  <2>1. id \in stored' /\ row'[id].mode = wire[c].mode /\ path'[id] = wire[c].path
    BY <1>1 DEF Insert, CreateShare, Inv, TypeOK, TableTypeOK, StoreTypeOK
  <2> QED
    BY <1>3, <2>1 DEF IsNow
<1> QED
  BY <1>2, <1>4, DaemonPrint

LEMMA UpdatePrint ==
  ASSUME Inv, PrintInv, NEW c \in Clients, Update(wire[c]), clock' = clock,
         client' = client, wire' = [wire EXCEPT ![c] = NoRequest],
         \A d \in Clients \ {c} : reply'[d] = reply[d], reply'[c].ids \subseteq {wire[c].id}
  PROVE  PrintInv'
<1>1. wire[c] \in Request
  BY DEF Inv, TypeOK, MailTypeOK
<1>2. Kept
  BY <1>1, UpdateEffect
<1>3. CASE wire[c].kind = "renew"
  <2>1. client[c].op = "publish" => IsFor(wire[c].id, client[c])
    BY <1>3 DEF PrintInv
  <2>2. client[c].op = "publish" => IsNow(wire[c].id, client[c])
    BY <1>2, <2>1, ForKept
  <2>3. client[c].op = "publish" => \A id \in reply'[c].ids : IsNow(id, client[c])
    BY <2>2
  <2> QED
    BY <1>2, <2>3, DaemonPrint
<1>4. CASE wire[c].kind = "revoke"
  <2>1. client[c].op # "publish"
    BY <1>4 DEF Inv, WireInv, CommandInv, Fits
  <2> QED
    BY <1>2, <2>1, DaemonPrint
<1> QED
  BY <1>3, <1>4 DEF Update

LEMMA HandlePrint ==
  ASSUME Inv, PrintInv, NEW c \in Clients, Handle(c) \/ HandleFails(c)
  PROVE  PrintInv'
<1>0. /\ client' = client /\ clock' = clock
      /\ wire' = [wire EXCEPT ![c] = NoRequest]
      /\ \A d \in Clients \ {c} : reply'[d] = reply[d]
  BY DEF Handle, HandleFails, Answered, HandleList, Inv, TypeOK, MailTypeOK
<1>1. ASSUME NEW id \in Ids, Insert(wire[c], id),
             Answered(c, "ok", {id}) \/ Answered(c, "error", {})
      PROVE  PrintInv'
  <2>1. reply'[c].ids \subseteq {id}
    BY <1>1 DEF Answered, Inv, TypeOK, MailTypeOK
  <2> QED
    BY <1>0, <1>1, <2>1, InsertPrint
<1>2. ASSUME Update(wire[c]), Answered(c, "ok", {wire[c].id}) \/ Answered(c, "error", {})
      PROVE  PrintInv'
  <2>1. reply'[c].ids \subseteq {wire[c].id}
    BY <1>2 DEF Answered, Inv, TypeOK, MailTypeOK
  <2> QED
    BY <1>0, <1>2, <2>1, UpdatePrint
<1>3. ASSUME UNCHANGED <<storeVars, columns>>,
             Answered(c, "notFound", {}) \/ Answered(c, "error", {})
      PROVE  PrintInv'
  <2>1. Kept
    BY <1>0, <1>3, SameEffect DEF columns
  <2>2. reply'[c].ids = {}
    BY <1>3 DEF Answered, Inv, TypeOK, MailTypeOK
  <2> QED
    BY <1>0, <2>1, <2>2, DaemonPrint
<1>4. ASSUME HandleList(wire[c], c) PROVE PrintInv'
  <2>1. Kept /\ client[c].awaits = "list"
    BY <1>0, <1>4, SameEffect DEF HandleList, columns, Inv, WireInv
  <2> QED
    BY <1>0, <2>1, DaemonPrint
<1> QED
  BY <1>1, <1>2, <1>3, <1>4 DEF Handle, HandleFails, NoneToUpdate

LEMMA TimeOutPrint ==
  ASSUME Inv, PrintInv, NEW c \in Clients, TimeOut(c)
  PROVE  PrintInv'
<1>1. Kept
  BY SameEffect DEF TimeOut, columns
<1>2. /\ client' = client /\ wire' = [wire EXCEPT ![c] = NoRequest] /\ reply'[c].ids = {}
      /\ \A d \in Clients \ {c} : reply'[d] = reply[d]
  BY DEF TimeOut, Answered, Inv, TypeOK, MailTypeOK
<1> QED
  BY <1>1, <1>2, DaemonPrint

LEMMA HandleLatePrint ==
  ASSUME Inv, PrintInv, NEW c \in Clients, HandleLate(c)
  PROVE  PrintInv'
<1>1. late[c] \in Request /\ Sent(late[c]) /\ clock' = clock
  BY DEF HandleLate, Inv, TypeOK, MailTypeOK, SentInv
<1>2. Kept
  BY <1>1, InsertEffect, UpdateEffect, SameEffect DEF HandleLate, NoneToUpdate, columns
<1> QED
  BY <1>2, DaemonPrint DEF HandleLate

\* A step of a command.
LEMMA CommandPrint ==
  ASSUME Inv, PrintInv, NEW c \in Clients, Quiet(c),
         \A d \in Clients \ {c} : client'[d] = client[d] /\ wire'[d] = wire[d],
         client'[c].op = "publish" =>
            /\ wire'[c].kind = "renew" => IsFor(wire'[c].id, client'[c])
            /\ client'[c].answer = "ok" => IsFor(client'[c].id, client'[c])
  PROVE  PrintInv'
<1>1. UNCHANGED <<stored, row, path>>
  BY DEF Quiet, storeVars, columns
<1>2. reply'[c].ids = {} /\ \A d \in Clients \ {c} : reply'[d] = reply[d]
  BY DEF Quiet, Inv, TypeOK, MailTypeOK, NoReply
<1> QED
  BY <1>1, <1>2 DEF PrintInv, IsFor

LEMMA PublishPrint ==
  ASSUME Inv, PrintInv, NEW c \in Clients, Publish(c)
  PROVE  PrintInv'
<1>1. PICK p \in Paths, mode \in Modes, life \in Lifetimes :
        /\ Send(c, [NoCommand EXCEPT !.op = "publish", !.path = p, !.mode = mode, !.life = life],
                IF mode = "live" THEN "list" ELSE "create", NoId)
        /\ raced' = IF mode = "live" /\ Publishing(p) # {} THEN raced \cup {p} ELSE raced
  BY DEF Publish
<1> DEFINE command == [NoCommand EXCEPT !.op = "publish", !.path = p, !.mode = mode, !.life = life]
           kind == IF mode = "live" THEN "list" ELSE "create"
<1>2. command \in Command /\ command.answer = "none"
  BY ClientsAssumption DEF NoCommand, Command, Kinds
<1>3. Send(c, command, kind, NoId) /\ kind # "renew"
  BY <1>1
<1> HIDE DEF command, kind
<1>4. /\ \A d \in Clients \ {c} : client'[d] = client[d] /\ wire'[d] = wire[d]
      /\ client'[c].answer = "none"
  BY <1>2, <1>3, SendShape
<1>5. wire'[c].kind # "renew"
  BY <1>3 DEF Send, Inv, TypeOK, MailTypeOK
<1>6. Quiet(c)
  BY <1>1, BeginQuiet DEF Publish, Quiet, Inv, TypeOK, TableTypeOK
<1> QED
  BY <1>4, <1>5, <1>6, CommandPrint

LEMMA PublishListedPrint ==
  ASSUME Inv, PrintInv, NEW c \in Clients, PublishListed(c)
  PROVE  PrintInv'
<1>1. Receive(c, "list") /\ client[c].op = "publish"
  BY DEF PublishListed
<1>2. /\ Quiet(c) /\ client[c] \in Command /\ client[c].answer = "none"
      /\ client[c].mode = "live"
  BY <1>1, ReceiveQuiet DEF Fits
<1>3. ASSUME NEW id \in Newest(Reusable(reply[c].ids, client[c].path)),
             Send(c, client[c], "renew", id)
      PROVE  PrintInv'
  <2>1. IsFor(id, client[c])
    BY <1>2 DEF Newest, Reusable, IsFor, Inv, StoredInv
  <2>2. wire'[c].id = id
    BY <1>3 DEF Send, Inv, TypeOK, MailTypeOK
  <2>3. /\ client'[c].mode = client[c].mode /\ client'[c].path = client[c].path
        /\ client'[c].answer = "none"
        /\ \A d \in Clients \ {c} : client'[d] = client[d] /\ wire'[d] = wire[d]
    BY <1>2, <1>3, SendShape
  <2>4. IsFor(wire'[c].id, client'[c])
    BY <2>1, <2>2, <2>3 DEF IsFor
  <2> QED
    BY <1>2, <2>3, <2>4, CommandPrint
<1>4. ASSUME Send(c, client[c], "create", NoId) PROVE PrintInv'
  <2>1. wire'[c].kind # "renew"
    BY <1>4 DEF Send, Inv, TypeOK, MailTypeOK
  <2>2. /\ client'[c].answer = "none"
        /\ \A d \in Clients \ {c} : client'[d] = client[d] /\ wire'[d] = wire[d]
    BY <1>2, <1>4, SendShape
  <2> QED
    BY <1>2, <2>1, <2>2, CommandPrint
<1>5. ASSUME End(c, client[c], "error") PROVE PrintInv'
  <2>1. wire[c].kind = "none"
    BY <1>1 DEF Receive, Inv, ReplyInv
  <2> QED
    BY <1>2, <1>5, <2>1, EndShape, CommandPrint
<1> QED
  BY <1>3, <1>4, <1>5 DEF PublishListed

LEMMA PrintedPrint ==
  ASSUME Inv, PrintInv, NEW c \in Clients, Printed(c)
  PROVE  PrintInv'
<1>1. PICK kind \in {"create", "renew"} : Receive(c, kind)
  BY DEF Printed
<1>2. /\ Quiet(c) /\ client[c] \in Command /\ reply[c].ids \subseteq Ids
      /\ client[c].awaits \in {"create", "renew"}
      /\ wire[c].kind = "none"
  BY <1>1, ReceiveQuiet DEF Receive, Inv, ReplyInv
<1>3. ASSUME NEW id \in reply[c].ids, End(c, [client[c] EXCEPT !.id = id], "ok") PROVE PrintInv'
  <2> DEFINE command == [client[c] EXCEPT !.id = id]
  <2>1. /\ command \in Command /\ command.id = id /\ command.op = client[c].op
        /\ command.mode = client[c].mode /\ command.path = client[c].path
    BY <1>2 DEF Command
  <2>2. client[c].op = "publish" => IsFor(id, client[c])
    BY <1>2 DEF PrintInv
  <2> HIDE DEF command
  <2>3. /\ client'[c].id = id /\ client'[c].op = client[c].op
        /\ client'[c].mode = client[c].mode /\ client'[c].path = client[c].path
        /\ wire' = wire
        /\ \A d \in Clients \ {c} : client'[d] = client[d]
    BY <1>3, <2>1, EndShape DEF command
  <2>4. client'[c].op = "publish" => IsFor(client'[c].id, client'[c])
    BY <2>2, <2>3 DEF IsFor
  <2> QED
    BY <1>2, <2>3, <2>4, CommandPrint
<1>4. ASSUME reply[c].code # "ok", End(c, client[c], reply[c].code) PROVE PrintInv'
  BY <1>2, <1>4, EndShape, CommandPrint
<1> QED
  BY <1>3, <1>4 DEF Printed

LEMMA AsidePrint ==
  ASSUME Inv, PrintInv, NEW c \in Clients, Aside(c)
  PROVE  PrintInv'
  BY CommandPrint DEF Aside

\* The link that publish prints is for the path and in the mode that it was asked for.
THEOREM PrintsLink == Spec => []PrintsWhatWasAsked
<1>1. Init => PrintInv
  BY DEF Init, PrintInv, NoCommand
<1>2. ASSUME Inv, PrintInv, [Next]_vars PROVE PrintInv'
  <2>1. ASSUME NEW c \in Clients, Step(c) PROVE PrintInv'
    BY <1>2, <2>1, PublishPrint, PublishListedPrint, PrintedPrint, RenewAside, UnshareAside,
       UnsharingAside, AsidePrint DEF Step
  <2>2. ASSUME NEW c \in Clients, Daemon(c) PROVE PrintInv'
    BY <1>2, <2>2, HandlePrint, TimeOutPrint, HandleLatePrint DEF Daemon
  <2>3. CASE Tick \/ UNCHANGED vars
    BY <1>2, <2>3 DEF PrintInv, IsFor, Tick, vars, storeVars, columns
  <2> QED
    BY <1>2, <2>1, <2>2, <2>3 DEF Next
<1>3. PrintInv => PrintsWhatWasAsked
  BY DEF PrintInv, PrintsWhatWasAsked, IsFor
<1> QED
  BY <1>1, <1>2, <1>3, AlwaysInv, PTL DEF Spec

-----------------------------------------------------------------------------
(* What an unshare closes. *)

\* Whatever becomes active after the list of an unshare is counted since then.
Counting ==
    \A d \in Clients : client[d].op = "unshare" =>
        since[d] \subseteq since'[d] /\ Active' \subseteq Active \cup since'[d]

LEMMA WriteCounts ==
  ASSUME Inv, NEW q \in Request, Sent(q), Write(q), clock' = clock
  PROVE  Kept /\ Counting /\ (q.kind = "revoke" => q.id \notin Active')
<1>1. ASSUME NEW id \in Ids, Insert(q, id) PROVE Kept /\ Counting /\ q.kind # "revoke"
  <2>1. Kept /\ Active' = Active \cup {id} /\ Activated({id}) /\ q.kind # "revoke"
    BY <1>1, InsertEffect DEF Insert
  <2> QED
    BY <2>1 DEF Counting, Activated
<1>2. ASSUME Update(q) PROVE Kept /\ Counting /\ (q.kind = "revoke" => q.id \notin Active')
  <2>1. /\ Kept
        /\ q.kind = "renew" => Active' \subseteq Active \cup {q.id}
        /\ q.kind = "revoke" => Active' \subseteq Active \ {q.id}
    BY <1>2, UpdateEffect
  <2>2. CASE q.kind = "renew"
    <3>1. Activated({q.id})
      BY <1>2, <2>2 DEF Update
    <3> QED
      BY <2>1, <2>2, <3>1 DEF Counting, Activated
  <2>3. CASE q.kind = "revoke"
    <3>1. since' = since
      BY <1>2, <2>3 DEF Update, history
    <3> QED
      BY <2>1, <2>3, <3>1 DEF Counting
  <2> QED
    BY <1>2, <2>2, <2>3 DEF Update
<1> QED
  BY <1>1, <1>2 DEF Write

\* A step that answers at most the client c, and not its list.
LEMMA DaemonClose ==
  ASSUME Inv, CloseInv, NEW c \in Clients, Kept, Counting, client' = client,
         \A d \in Clients \ {c} : reply'[d] = reply[d],
         \/ reply'[c] = reply[c]
         \/ /\ client[c].awaits = "list" => reply'[c].code # "ok"
            /\ client[c].awaits = "revoke" /\ reply'[c].code \in {"ok", "notFound"}
                  => reply[c].code = "none" /\ client[c].id \notin Active'
  PROVE  CloseInv'
<1>1. \A d \in Clients : client[d].op = "unshare" =>
        OfPath(client[d].path)' \subseteq OfPath(client[d].path) \cup since'[d]
  BY ActiveStored DEF OfPath, Counting, Kept
<1>2. \A d \in Clients : client[d].op = "unshare" /\ client[d].awaits = "revoke" /\ reply'[d] = reply[d]
        => ToClose(d)' = ToClose(d)
  BY DEF ToClose
<1>3. client[c].awaits = "revoke" /\ reply'[c] # reply[c]
        => OfPath(client[c].path)' \cap ToClose(c) \subseteq ToClose(c)'
  BY DEF ToClose, OfPath
<1> QED
  BY <1>1, <1>2, <1>3 DEF CloseInv, Counting

\* An answer to c's revocation says that the share is closed.
LEMMA RevokeCloses ==
  ASSUME Inv, NEW c \in Clients, Handle(c), client[c].awaits = "revoke"
  PROVE  reply[c].code = "none" /\ client[c].id \notin Active'
<1>1. wire[c] \in Request /\ Sent(wire[c]) /\ clock' = clock /\ wire[c].kind # "none"
  BY DEF Handle, Insert, Update, NoneToUpdate, HandleList, Inv, TypeOK, MailTypeOK, SentInv
<1>2. wire[c].kind = "revoke" /\ wire[c].id = client[c].id /\ reply[c].code = "none"
  BY <1>1 DEF Inv, WireInv
<1>3. CASE Update(wire[c])
  BY <1>1, <1>2, <1>3, WriteCounts DEF Write
<1>4. CASE NoneToUpdate(wire[c])
  <2>1. Active' = Active
    BY <1>1, <1>4, SameEffect DEF NoneToUpdate, columns
  <2> QED
    BY <1>2, <1>4, <2>1 DEF NoneToUpdate, CanUpdate, Active, IsActive
<1> QED
  BY <1>2, <1>3, <1>4 DEF Handle, Insert, HandleList

LEMMA HandleClose ==
  ASSUME Inv, CloseInv, NEW c \in Clients, Handle(c)
  PROVE  CloseInv'
<1>0. /\ client' = client /\ clock' = clock
      /\ \A d \in Clients \ {c} : reply'[d] = reply[d]
      /\ wire[c] \in Request /\ Sent(wire[c])
  BY DEF Handle, Answered, HandleList, Inv, TypeOK, MailTypeOK, SentInv
<1>1. CASE HandleList(wire[c], c)
  <2>1. /\ client[c].awaits = "list" /\ reply'[c].ids = Active
        /\ \A d \in Clients \ {c} : since'[d] = since[d]
    BY <1>1 DEF HandleList, Inv, TypeOK, TableTypeOK, MailTypeOK, WireInv
  <2>2. Active' = Active /\ path' = path
    BY <1>0, <1>1, SameEffect DEF HandleList, columns
  <2>3. \A p : OfPath(p)' = OfPath(p) /\ OfPath(p) \subseteq Active
    BY <2>2 DEF OfPath
  <2>4. \A d \in Clients \ {c} : ToClose(d)' = ToClose(d)
    BY <1>0 DEF ToClose
  <2>5. client[c].answer = "none"
    BY <2>1 DEF Inv, CommandInv, Fits
  <2> QED
    BY <1>0, <2>1, <2>3, <2>4, <2>5 DEF CloseInv
<1>2. CASE ~HandleList(wire[c], c)
  <2>1. Kept /\ Counting
    <3>1. CASE NoneToUpdate(wire[c])
      <4>1. Kept /\ Active' = Active /\ since' = since
        BY <1>0, <3>1, SameEffect DEF NoneToUpdate, columns, history
      <4> QED
        BY <4>1 DEF Counting
    <3>2. CASE Write(wire[c])
      BY <1>0, <3>2, WriteCounts
    <3> QED
      BY <1>2, <3>1, <3>2 DEF Handle, Write
  <2>2. client[c].awaits # "list"
    BY <1>2 DEF Handle, Insert, Update, NoneToUpdate, Inv, WireInv
  <2> QED
    BY <1>0, <2>1, <2>2, RevokeCloses, DaemonClose
<1> QED
  BY <1>1, <1>2

LEMMA HandleFailsClose ==
  ASSUME Inv, CloseInv, NEW c \in Clients, HandleFails(c)
  PROVE  CloseInv'
<1>0. /\ client' = client /\ clock' = clock /\ reply'[c].code = "error"
      /\ \A d \in Clients \ {c} : reply'[d] = reply[d]
      /\ wire[c] \in Request /\ Sent(wire[c])
  BY DEF HandleFails, Answered, Inv, TypeOK, MailTypeOK, SentInv
<1>1. Kept /\ Counting
  <2>1. CASE UNCHANGED <<storeVars, columns, history>>
    <3>1. Kept /\ Active' = Active /\ since' = since
      BY <1>0, <2>1, SameEffect DEF columns, history
    <3> QED
      BY <3>1 DEF Counting
  <2>2. CASE Write(wire[c])
    BY <1>0, <2>2, WriteCounts
  <2> QED
    BY <2>1, <2>2 DEF HandleFails, Write
<1> QED
  BY <1>0, <1>1, DaemonClose

LEMMA TimeOutClose ==
  ASSUME Inv, CloseInv, NEW c \in Clients, TimeOut(c)
  PROVE  CloseInv'
<1>1. Kept /\ Active' = Active /\ since' = since
  BY SameEffect DEF TimeOut, columns
<1>2. /\ client' = client /\ reply'[c].code = "error"
      /\ \A d \in Clients \ {c} : reply'[d] = reply[d]
  BY DEF TimeOut, Answered, Inv, TypeOK, MailTypeOK
<1> QED
  BY <1>1, <1>2, DaemonClose DEF Counting

LEMMA HandleLateClose ==
  ASSUME Inv, CloseInv, NEW c \in Clients, HandleLate(c)
  PROVE  CloseInv'
<1>0. client' = client /\ clock' = clock /\ reply' = reply /\ late[c] \in Request /\ Sent(late[c])
  BY DEF HandleLate, Inv, TypeOK, MailTypeOK, SentInv
<1>1. Kept /\ Counting
  <2>1. CASE NoneToUpdate(late[c])
    <3>1. Kept /\ Active' = Active /\ since' = since
      BY <1>0, <2>1, SameEffect DEF NoneToUpdate, columns, history
    <3> QED
      BY <3>1 DEF Counting
  <2>2. CASE Write(late[c])
    BY <1>0, <2>2, WriteCounts
  <2> QED
    BY <2>1, <2>2 DEF HandleLate, Write
<1> QED
  BY <1>0, <1>1, DaemonClose

\* A step of a command changes no share, and what is counted since a list.
LEMMA CommandClose ==
  ASSUME Inv, CloseInv, NEW c \in Clients, Quiet(c),
         \A d \in Clients \ {c} : client'[d] = client[d],
         client'[c].op = "unshare" /\ ~client'[c].failed =>
            /\ client'[c].awaits = "revoke"
                  => OfPath(client'[c].path) \subseteq since[c] \cup client'[c].todo
            /\ client'[c].answer \in {"ok", "notFound"}
                  => OfPath(client'[c].path) \subseteq since[c]
  PROVE  CloseInv'
<1>1. since' = since /\ path' = path /\ Active' = Active
  BY SameEffect DEF Quiet, columns
<1>2. reply'[c].code = "none" /\ \A d \in Clients \ {c} : reply'[d] = reply[d]
  BY DEF Quiet, Inv, TypeOK, MailTypeOK, NoReply
<1>3. client'[c].awaits = "revoke" => ToClose(c)' = client'[c].todo
  BY <1>2 DEF ToClose
<1>4. \A d \in Clients \ {c} : ToClose(d)' = ToClose(d)
  BY <1>2 DEF ToClose
<1> SUFFICES ASSUME NEW d \in Clients, client'[d].op = "unshare", ~client'[d].failed
             PROVE  \A id \in Active' : path'[id] = client'[d].path =>
                    /\ client'[d].awaits = "list" /\ reply'[d].code = "ok"
                          => id \in since'[d] \cup reply'[d].ids
                    /\ client'[d].awaits = "revoke"
                          => id \in since'[d] \cup ToClose(d)'
                    /\ client'[d].answer \in {"ok", "notFound"}
                          => id \in since'[d]
  BY DEF CloseInv, OfPath
<1>5. CASE d = c
  BY <1>1, <1>2, <1>3, <1>5 DEF OfPath
<1>6. CASE d # c
  BY <1>1, <1>2, <1>4, <1>6 DEF CloseInv, OfPath
<1> QED
  BY <1>5, <1>6

\* No share has the path of an unshare by id.
LEMMA NoPathEmpty == Inv => OfPath(NoPath) = {}
  BY ActiveStored, ClientsAssumption DEF OfPath, Inv, TypeOK, TableTypeOK

\* A command that was begun: an unshare begins with a list, or with an id.
LEMMA BegunClose ==
  ASSUME Inv, CloseInv, NEW c \in Clients, Quiet(c),
         NEW command \in Command, NEW kind, NEW id, Send(c, command, kind, id),
         command.answer = "none",
         command.op = "unshare" /\ kind = "revoke" => command.path = NoPath
  PROVE  CloseInv'
<1>1. /\ client'[c].op = command.op /\ client'[c].path = command.path
      /\ client'[c].awaits = kind /\ client'[c].answer = "none"
      /\ \A d \in Clients \ {c} : client'[d] = client[d]
  BY DEF Send, Inv, TypeOK, MailTypeOK, Command
<1>2. CASE command.op = "unshare" /\ kind = "revoke"
  <2>1. OfPath(client'[c].path) = {}
    BY <1>1, <1>2, NoPathEmpty
  <2> QED
    BY <1>1, <2>1, CommandClose
<1>3. CASE ~(command.op = "unshare" /\ kind = "revoke")
  BY <1>1, <1>3, CommandClose
<1> QED
  BY <1>2, <1>3

LEMMA BeginClose ==
  ASSUME Inv, CloseInv, NEW c \in Clients, Publish(c) \/ Renew(c) \/ Unshare(c)
  PROVE  CloseInv'
<1>1. Quiet(c)
  BY BeginQuiet DEF Publish, Renew, Unshare, Quiet, Inv, TypeOK, TableTypeOK, history
<1>2. ASSUME NEW p \in Paths, NEW mode \in Modes, NEW life \in Lifetimes, NEW kind,
             Send(c, [NoCommand EXCEPT !.op = "publish", !.path = p, !.mode = mode, !.life = life],
                  kind, NoId)
      PROVE  CloseInv'
  <2> DEFINE command == [NoCommand EXCEPT !.op = "publish", !.path = p, !.mode = mode, !.life = life]
  <2>1. command \in Command /\ command.op = "publish" /\ command.answer = "none"
    BY ClientsAssumption DEF NoCommand, Command, Kinds
  <2> QED
    BY <1>1, <1>2, <2>1, BegunClose
<1>3. ASSUME NEW id \in stored, NEW life \in Lifetimes,
             Send(c, [NoCommand EXCEPT !.op = "renew", !.id = id, !.life = life], "renew", id)
      PROVE  CloseInv'
  <2> DEFINE command == [NoCommand EXCEPT !.op = "renew", !.id = id, !.life = life]
  <2>1. command \in Command /\ command.op = "renew" /\ command.answer = "none"
    BY ClientsAssumption DEF NoCommand, Command, Kinds, Modes, Inv, TypeOK, TableTypeOK, StoreTypeOK
  <2> QED
    BY <1>1, <1>3, <2>1, BegunClose
<1>4. ASSUME NEW id \in stored,
             Send(c, [NoCommand EXCEPT !.op = "unshare", !.id = id], "revoke", id)
      PROVE  CloseInv'
  <2> DEFINE command == [NoCommand EXCEPT !.op = "unshare", !.id = id]
  <2>1. command \in Command /\ command.answer = "none" /\ command.path = NoPath
    BY DEF NoCommand, Command, Kinds, Modes, Inv, TypeOK, TableTypeOK, StoreTypeOK
  <2> QED
    BY <1>1, <1>4, <2>1, BegunClose
<1>5. ASSUME NEW p \in Paths,
             Send(c, [NoCommand EXCEPT !.op = "unshare", !.path = p], "list", NoId)
      PROVE  CloseInv'
  <2> DEFINE command == [NoCommand EXCEPT !.op = "unshare", !.path = p]
  <2>1. command \in Command /\ command.answer = "none"
    BY DEF NoCommand, Command, Kinds, Modes
  <2> QED
    BY <1>1, <1>5, <2>1, BegunClose
<1> QED
  BY <1>2, <1>3, <1>4, <1>5 DEF Publish, Renew, Unshare

LEMMA PublishingClose ==
  ASSUME Inv, CloseInv, NEW c \in Clients, PublishListed(c) \/ Printed(c)
  PROVE  CloseInv'
<1>1. /\ Quiet(c) /\ client[c] \in Command /\ client[c].op # "unshare"
      /\ reply[c].ids \subseteq Ids
  BY ReceiveQuiet DEF PublishListed, Printed, Fits
<1>2. \A id \in Ids : /\ [client[c] EXCEPT !.id = id] \in Command
                      /\ [client[c] EXCEPT !.id = id].op # "unshare"
  BY <1>1 DEF Command
<1>3. PICK command \in Command : /\ command.op # "unshare"
                                 /\ \/ \E kind, id : Send(c, command, kind, id)
                                    \/ \E answer : End(c, command, answer)
  BY <1>1, <1>2 DEF PublishListed, Printed
<1>4. client'[c].op # "unshare" /\ \A d \in Clients \ {c} : client'[d] = client[d]
  BY <1>3, SendShape, EndShape
<1> QED
  BY <1>1, <1>4, CommandClose

LEMMA UnsharedByIdClose ==
  ASSUME Inv, CloseInv, NEW c \in Clients, UnsharedById(c)
  PROVE  CloseInv'
<1>1. /\ Quiet(c) /\ client[c] \in Command /\ client[c].path = NoPath /\ client[c].answer = "none"
  BY ReceiveQuiet DEF UnsharedById, Fits
<1>2. ASSUME NEW answer, End(c, client[c], answer) PROVE CloseInv'
  BY <1>1, <1>2, EndShape, NoPathEmpty, CommandClose
<1>3. ASSUME Send(c, client[c], "list", NoId) PROVE CloseInv'
  <2>1. /\ client'[c].awaits = "list" /\ client'[c].answer = "none"
        /\ \A d \in Clients \ {c} : client'[d] = client[d]
    BY <1>1, <1>3 DEF Send, Inv, TypeOK, MailTypeOK, Command
  <2> QED
    BY <1>1, <2>1, CommandClose
<1> QED
  BY <1>2, <1>3 DEF UnsharedById

\* The rest of what the list has shown is revoked.
LEMMA RevokeNextClose ==
  ASSUME Inv, CloseInv, NEW c \in Clients, Quiet(c), NEW command \in Command,
         command.answer = "none", RevokeNext(c, command),
         ~command.failed => OfPath(command.path) \subseteq since[c] \cup command.todo
  PROVE  CloseInv'
<1>1. PICK id \in Newest(command.todo) : Send(c, [command EXCEPT !.id = id], "revoke", id)
  BY DEF RevokeNext
<1> DEFINE next == [command EXCEPT !.id = id]
<1>2. /\ next \in Command /\ next.answer = "none" /\ next.path = command.path
      /\ next.todo = command.todo /\ next.failed = command.failed
  BY DEF Newest, Command
<1> HIDE DEF next
<1>3. Send(c, next, "revoke", id)
  BY <1>1 DEF next
<1>4. /\ client'[c].awaits = "revoke" /\ client'[c].answer = "none"
      /\ client'[c].path = command.path /\ client'[c].todo = command.todo
      /\ client'[c].failed = command.failed
      /\ \A d \in Clients \ {c} : client'[d] = client[d]
  BY <1>2, <1>3 DEF Send, Inv, TypeOK, MailTypeOK, Command
<1> QED
  BY <1>4, CommandClose

LEMMA UnshareListedClose ==
  ASSUME Inv, CloseInv, NEW c \in Clients, UnshareListed(c)
  PROVE  CloseInv'
<1> DEFINE matched == {id \in reply[c].ids : path[id] = client[c].path}
           command == [client[c] EXCEPT !.todo = matched]
<1>1. /\ Receive(c, "list") /\ client[c].op = "unshare" /\ Quiet(c)
      /\ client[c] \in Command /\ client[c].awaits = "list" /\ client[c].answer = "none"
      /\ reply[c].ids \subseteq Ids
  BY ReceiveQuiet DEF UnshareListed, Fits
<1>2. reply[c].code = "ok" /\ ~client[c].failed => OfPath(client[c].path) \subseteq since[c] \cup matched
  BY <1>1 DEF CloseInv, OfPath
<1>3. ASSUME reply[c].code = "ok", RevokeNext(c, command) PROVE CloseInv'
  <2>1. /\ command \in Command /\ command.answer = "none" /\ command.path = client[c].path
        /\ command.todo = matched /\ command.failed = client[c].failed
    BY <1>1 DEF Command
  <2> QED
    BY <1>1, <1>2, <1>3, <2>1, RevokeNextClose
<1>4. ASSUME reply[c].code = "ok", matched = {}, End(c, client[c], "notFound") PROVE CloseInv'
  BY <1>1, <1>2, <1>4, EndShape, CommandClose
<1>5. ASSUME End(c, client[c], "error") PROVE CloseInv'
  BY <1>1, <1>5, EndShape, CommandClose
<1> QED
  BY <1>3, <1>4, <1>5 DEF UnshareListed

LEMMA UnsharedOneClose ==
  ASSUME Inv, CloseInv, NEW c \in Clients, UnsharedOne(c)
  PROVE  CloseInv'
<1>1. Receive(c, "revoke") /\ Quiet(c) /\ reply[c].code \in {"ok", "notFound", "error"}
      /\ client[c].awaits = "revoke"
  BY ReceiveQuiet DEF UnsharedOne
<1>2. /\ Counted(c) \in Command /\ Counted(c).op = "unshare" /\ Counted(c).answer = "none"
      /\ Counted(c).path = client[c].path /\ Counted(c).todo = client[c].todo \ {client[c].id}
      /\ Counted(c).failed <=> client[c].failed \/ reply[c].code = "error"
  BY <1>1, CountedTyped
<1>3. client[c].op = "unshare"
  BY <1>1 DEF Inv, CommandInv, Fits
<1>4. ~Counted(c).failed => OfPath(Counted(c).path) \subseteq since[c] \cup Counted(c).todo
  BY <1>1, <1>2, <1>3 DEF CloseInv, ToClose
<1>5. ASSUME RevokeNext(c, Counted(c)) PROVE CloseInv'
  BY <1>1, <1>2, <1>4, <1>5, RevokeNextClose
<1>6. ASSUME Counted(c).todo = {}, NEW answer, End(c, Counted(c), answer) PROVE CloseInv'
  BY <1>1, <1>2, <1>4, <1>6, EndShape, CommandClose
<1> QED
  BY <1>5, <1>6 DEF UnsharedOne

LEMMA TickClose ==
  ASSUME Inv, CloseInv, Tick
  PROVE  CloseInv'
<1>1. Active' \subseteq Active /\ path' = path
  BY DEF Tick, storeVars, columns, Active, IsActive, Inv, TypeOK, TableTypeOK, StoreTypeOK, Row
<1>2. client' = client /\ reply' = reply /\ since' = since
  BY DEF Tick, history
<1>3. \A p : OfPath(p)' \subseteq OfPath(p)
  BY <1>1 DEF OfPath
<1>4. \A d \in Clients : ToClose(d)' = ToClose(d)
  BY <1>2 DEF ToClose
<1> QED
  BY <1>2, <1>3, <1>4 DEF CloseInv

LEMMA StutterClose ==
  ASSUME CloseInv, UNCHANGED vars
  PROVE  CloseInv'
<1>1. Active' = Active /\ path' = path
  BY SameEffect DEF vars, columns
<1>2. client' = client /\ reply' = reply /\ since' = since
  BY DEF vars, history
<1>3. \A p : OfPath(p)' = OfPath(p)
  BY <1>1 DEF OfPath
<1>4. \A d \in Clients : ToClose(d)' = ToClose(d)
  BY <1>2 DEF ToClose
<1> QED
  BY <1>2, <1>3, <1>4 DEF CloseInv

\* An unshare that met no failure leaves no share of its path, but for those that became
\* active after it had listed them.
THEOREM UnshareIsComplete == Spec => []UnshareCloses
<1>1. Init => CloseInv
  BY DEF Init, CloseInv, NoCommand
<1>2. ASSUME Inv, CloseInv, [Next]_vars PROVE CloseInv'
  <2>1. ASSUME NEW c \in Clients, Step(c) PROVE CloseInv'
    BY <1>2, <2>1, BeginClose, PublishingClose, UnsharedByIdClose, UnshareListedClose,
       UnsharedOneClose DEF Step
  <2>2. ASSUME NEW c \in Clients, Daemon(c) PROVE CloseInv'
    BY <1>2, <2>2, HandleClose, HandleFailsClose, TimeOutClose, HandleLateClose DEF Daemon
  <2> QED
    BY <1>2, <2>1, <2>2, TickClose, StutterClose DEF Next
<1>3. CloseInv => UnshareCloses
  BY DEF CloseInv, UnshareCloses, OfPath
<1> QED
  BY <1>1, <1>2, <1>3, AlwaysInv, PTL DEF Spec

=============================================================================
