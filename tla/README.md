# Verification of tailscale-ferry

`ferry` publishes files and directories of one machine as links that expire.
A daemon, `ferryd`, keeps a table of shares (SQLite) and a directory of
snapshots, serves an admin API on a Unix socket and the links themselves on two
public listeners. This directory models that system in TLA+: modules translated
from the Go code, TLC runs over small instances, and proofs for every instance.

## 1. Inventory

| Component | State it keeps | Operations | Talks to |
|---|---|---|---|
| Share store (`share/store.go`, `share/model.go`) | table `shares`: mode, `expires_at`, `revoked_at`, `last_served_at` | insert, get, list, renew, revoke, mark a visit; then the private modes of the files | called by every handler and by the collection |
| Admin handlers (`share/server_admin.go`) | what a request holds: drawn id, `now`, expiry | create, list, get, renew, revoke (and its goroutine), health | store, snapshots directory |
| Public handlers (`share/server_public.go`) | the row a visit has read | preview, raw, HTML artifact: authorize, resolve, answer, mark | store, snapshots or the live source |
| Snapshots (`share/snapshot.go`) | `snapshots/<id>/`, byte budget of a copy | measure, copy, clean up | called by create |
| Collection (`share/server.go`, `gcSnapshots`) | ids kept by this sweep, entries still to remove | list, read the directory, remove; at boot and hourly | store, snapshots directory |
| Process lifetime (`share/server.go`, `Run`) | listeners, admin socket, tickers | first sweep, listen on three addresses, select loop, shutdown | everything above; other `ferryd` processes |
| Failed-authentication limiter (`share/failed_auth_limiter.go`) | per address: count, end of its window | allow, record a failure, clean up | wraps the public handlers |
| Secret, tokens, ids (`share/token.go`) | file `secret` | load or create, sign, validate, draw an id | handlers |
| State directory (`share/paths.go`) | modes of files and directories | ensure private, resolve a path inside a root | store, public handlers |
| Rendering (`share/render*.go`) | none in the daemon; in the browser: header and frame of an artifact, copy buttons, zoom of an image | front matter, directive tags, rewriting of links, listings, the scripts of pages | public handlers; page and artifact by messages |
| Admin client (`share/client.go`, `share/tailscale.go`) | none; 3 s timeouts | one call per endpoint, health probe of both sides | admin handlers |
| Command line (`ops/*.go`) | none between calls | publish (list, then renew or create), list, get, renew, unshare (list, then revoke each), doctor | admin client |
| Daemon start (`internal/daemon/daemon.go`, `cmd/ferryd`) | none | probe, kickstart, spawn, wait for health | client, launchd, `ferryd` |

Hard behaviours, and what makes each component correct:

- **No lock joins the table and the directory.** Create copies first and inserts
  after; the collection lists first and removes after; a revocation answers first
  and removes after. Correct: an active snapshot share has its whole content; files
  of a share that ended go away in the end; a starting daemon leaves no orphan.
- **Every handler works on a row it has read before.** Correct: a visit that begins
  after a revocation was answered is refused; nothing brings a revoked row back.
- **Durable steps that report failure.** The insert and the update are followed by a
  pass over file modes that can fail after the row is written.
- **Two processes.** `Run` sweeps before it binds its port, so a second `ferryd`
  removes entries of the first one's directory and only then gives up. One that is told
  to stop frees its ports first, and its handlers go on to copy, insert and revoke for up
  to five seconds, while the next one sweeps, binds and serves.
- **Crashes and restarts.** Handlers and goroutines die; table and directory stay.
- **The limiter checks and counts under the mutex, but not in one piece**, and reads
  the time before it waits for the mutex. Correct: the overshoot is bounded, a block
  is justified by recent failures, and it ends exactly when its window ends.
- **Clients time out after 3 s** while the daemon goes on; they list, then act.
- **Byte positions**: the copy's budget while the sources change, the ranges of an HTML
  page with a script in it while the file is saved. Correct: a copy within the limit is
  complete and one beyond it leaves nothing; a range is that range of the page.
- **Names become addresses in many places, each with an escape of its own.** Correct: a link opens
  the file it names, and no link opens a file outside of the share.
- **Two programs with messages only**: a preview page and the artifact in its frame.
  Correct: at rest the header lies over an artifact that has made room for it.

The list in `PROJECT.json` under `hazards` names each of these at its line.

## 2. Modules

| Module | Models |
|---|---|
| `ShareStore` | the table, one action operator per SQL statement |
| `ShareDaemon` | admin and public handlers, copies, the revocation's goroutine, sweeps of processes that boot, shutdown beside the next daemon, crash and restart |
| `ShareLedger` | abstract specification: what the daemon promises of its links, without files, handlers or processes |
| `MCShareDaemon` | small instances of `ShareDaemon` |
| `ShareDaemonProofs` | theorems about `ShareDaemon`, the last one that it implements `ShareLedger` |
| `FailedAuthLimiter`, `MCFailedAuthLimiter`, `FailedAuthLimiterProofs` | the limiter, its instance, its theorems |
| `DaemonStart`, `MCDaemonStart`, `DaemonStartProofs` | several `ferryd` processes over ports, admin socket and secret file, and the clients that spawn them |
| `ShareClients`, `MCShareClients`, `ShareClientsProofs` | the commands publish, renew and unshare over `ShareStore`, with lost and late requests, and lifetimes in whole seconds |
| `SnapshotCopy`, `SnapshotCopyProofs` | `CreateSnapshot`: measure, then copy on one budget, while the owner changes the source |
| `ShareLinks`, `ShareLinksProofs` | from the path given to publish to the file a visitor sees: plan, every kind of link, resolution of a request |
| `ArtifactReader` | the scan for the doctype and the reader that serves an artifact with a script in it |
| `MarkdownSource` | front matter and directive tags of a document, before it is rendered |
| `HeaderBridge` | the header of an HTML preview and the artifact in its frame: handshake, scrolling, resizes, navigation |
| `CopyButton`, `ImageViewer` | the two other scripts of pages that react to events in any order |
| `MCPreviews` | small instances of the seven modules above; a behaviour is one of one of them |
| `PreviewProofs` | theorems about the header, the copy buttons, the image viewer, the links, the bytes of an artifact and the text of a document, in the composition `MCPreviews` |
| `FoldFacts` | lemmas of no component: induction and recursion over the numbers, and sums over sets |

How they compose. `ShareDaemon` and `ShareClients` extend `ShareStore`. `ShareDaemon`
implements `ShareLedger`. A copy is several steps of `ShareDaemon` (`CopyPart`,
`CopyFail`), without sizes; `SnapshotCopy` is what happens in those steps. A visit of
`ShareDaemon` is let in or refused; `ShareLinks` says which file one that is let in
gets, and `ArtifactReader` how its bytes are sent.

### State and actions of `ShareDaemon`

`stored`, `row` are the table. `disk[id]` is the set of files under
`snapshots/<id>`. `create[id]` is the create handler that drew `id`: copying,
inserting, setting modes (`lock`), ended. `reqs` holds renew, revoke and public
handlers between two of their steps; `cleanups` the goroutines of revocations;
`sweep` the calls of `gcSnapshots`: the hourly one of the daemon that listens (`Loop`),
and the first one of each process on its way to the ports (`Boots`). `acked`, `exposed`
and `met` are history: revocations that were answered, snapshots that met one of three
races, and the shares that other processes copied or revoked beside the first sweep of a
boot.

Processes. `phase` tells whether one holds the ports. `Start` begins a boot with its
sweep, `AfterSweep` takes it to the ports, where it listens (`Listen`) or gives up
(`BindFail`); it may be killed on the way (`BootKilled`). The listener is killed or
returns the error of a server (`Crash`), or is told to stop: `Stop` is the moment at
which both ports are free, `Exit` the end of the process. In between its handlers,
marked `old`, and its goroutines (`leaving`) go on, and new requests may reach it over
its admin socket or connections made before (`Answering(TRUE)`), while another process
sweeps, listens and answers too. What still runs at `Exit` is lost.

One action is one SQL statement or one operation on the directory. `os.RemoveAll`
can be seen half done (`PartlyRemoved`). A handler that fails on the way takes the
error path of the code: `CopyFail`, `CreateInsertFail` and `CreateLockFail` remove
the copy, `RevokeLockFail` starts no goroutine.

What is abstracted, and why it is sound for the properties:

- Times are whole seconds, as in the table. `ExpiresAt.After(now)` with a whole
  second on the left agrees with the comparison of `now.Unix()`.
- Identifiers are never drawn twice (64 random bits). Tokens are right or wrong; a
  visitor of the model has the link.
- A request refused before an id is drawn or a row is looked at changes nothing and
  is left out. What follows the update of a renewal changes nothing and is left out.
- A source has at least one file. A directory without files under a removed entry is
  the same as no entry: nothing can be served from it.
- `gcSnapshots` reads its `now` just before it lists the table; both are `SweepList`.
- The five seconds of `Shutdown` are no time of the model: `Exit` may come at any moment
  after `Stop`, so handlers get anything between nothing and all they need. The order of
  the three listeners and the socket file are the subject of `DaemonStart`; here a boot is
  held up by the two ports alone, since `listenAdmin` unlinks whatever socket is there.
- `Stop` comes between two hourly sweeps, as the select loop of `Run` has it. At most one
  process is stopping (bound), so a second one is stopped when the first has ended.
- Live shares serve the source as it is: nothing of the daemon's state can be lost.

### State and actions of `FailedAuthLimiter`

`entries[ip]` is the map; a count of 0 is a missing key. `req[r]` is a request in
flight with the time it has read: `Ask` reads it, `Allow` takes the mutex, the
handler answers (`Pass`, or `Fail` which reads the time again), `RecordFailure`
takes the mutex. `log` is history: when failures were recorded.

### State and actions of `DaemonStart`

`pc[d]` is the next step of process `d`: read, truncate, write the secret; listen on
the public port, on the loopback port; remove the old socket file, bind a new one;
serve; on SIGTERM close public, loopback, admin, in that order. A failing server takes
the deferred closes instead, which run in the opposite order (`ServeFails`, `Unwind`).
`public` and `loopback` belong to a process and are freed when it ends (`Gone`); `sock`
and `secretFile` are files and stay. `client[c]` is a call of `Ensure`: each health
check is two requests, to the admin socket and to the loopback port. The counts of
checks (11 before the spawn, 30 after) are the constants `Checks` and `Waits`: fewer
checks give up earlier, so more orders are seen. A command may know the label of a job
(`label`): after its first check that fails, and only then, launchd kills a process of
`Jobs` and starts it anew (`Kickstart`), or fails to, which `Ensure` ignores
(`KickstartFails`). The kill strikes a job that serves or is coming up as well as a dead
one. `launchctl` is external: `-k` is modelled as a kill that cannot be caught; an orderly
stop is `Terminate`. Processes of `Jobs` are never spawned by a command; `Labels = {FALSE}`
is a system without launchd. `Kill` also stands for an error of
`Run` before it listens. A SIGTERM that comes before the select loop is acted on there.
`overlapped` and `clashed` are history, for the two overlaps the properties exempt.
`faults` is shared by kills, failing servers, failing binds and failing spawns,
`stops` by SIGTERMs and kickstarts.

### State and actions of `ShareClients`

`client[c]` is a command and the kind of request it awaits; `wire[c]` that request
until the daemon handles it, `reply[c]` its answer until the client reads it, `late[c]`
a request the client gave up on (at most one for each client). A request is one step of
the daemon; the time inside of it is the subject of `ShareDaemon`. `HandleFails` is a
500 before or after the statement took effect, `TimeOut` the three seconds of the
client. `since` and `raced` are history. An id that names no row is not sent: a revoked
one gives the same 404. The order of the list is `created_at` in whole seconds, with
ties in any order, as the query leaves it.

A lifetime is asked for in half seconds (`Lifetimes`), sent in whole ones (`Seconds`), and
zero becomes `DefaultLife` in the daemon. `granted` is history: what the last request
that was handled for a share had asked for, and when.

### State and actions of `SnapshotCopy`

`pc`, `i`, `total`, `remaining`, `copied` are the variables of `snapshotSize`, `copyTree`
and `copyFile`; `dst` is what is on disk. The actions are an entry of the first walk
(`Measure`), of the second one (`Skip`, `OpenFile`), a byte of `io.Copy` (`ReadByte`), and
what follows it (`EndOfFile`). The owner writes, truncates or removes files between any
two of them (`Change`, `Remove`); `low`, `high` and `written` are history. New files that
appear during the copy, and a file that is replaced by a directory or a link, are left
out. The second walk reads the directory once, at its start (`listed`). A directory
with subdirectories is read piece by piece: that only moves the instant at which a
removed file is missed. `Wrap` is 64-bit arithmetic with `MaxInt` for its largest number.

### State and actions of `ShareLinks`

A file name has a stem, an extension and perhaps a template suffix; of a stem only what
the code is sensitive to is told (`Spaced`, `Padded`, `Trailing`, `Odd`, `Schemed`).
The disk is `Tree` with `Links`, symbolic links to files and to directories; `Real` follows
those on the way and at the end of a path, as `EvalSymlinks` does, and `Kept` is what a
snapshot has of it: no links, and nothing behind them. A URL is a route and
segments, each with the number of times it was escaped; the daemon undoes one. `Publish`
is the command: it reads the document (`Plan`), chooses the share and prints a link.
Every action after it is a visitor who follows one of the links the program makes:
the printed one, an entry of a listing, a breadcrumb, the bytes of a page, the frame of an
artifact, a target in a document. `Edit` is the owner, before and after the command. `HandleRaw` ends in `http.ServeFile`,
which redirects `.../index.html` to `./`; that is a directory, and the raw route refuses it.
The links of the disk are the same at the check of a path (`paths.go:122`) and when the
file is opened: what its owner does to them between the two is not modelled.
`at.want` is the file the link named, as a reader of the document, of the listing or of
the terminal understands it; `at.page` what came.

### State and actions of `ArtifactReader` and `MarkdownSource`

Both read a sequence of tokens: bytes as far as the scan for the doctype distinguishes
them, and lines as far as the scan for directive tags and CommonMark distinguish them.
The reference definitions (`AfterDoctype`, `PageOf`, `Reference`) are written from what a
browser and a Markdown renderer do, not from the code. `HeadFrom` is the tokenizer of the
HTML standard up to the doctype: comments that end at `-->`, at `--!>` or abruptly, and the
bogus ones that begin with `<?`, with another `<!`, or with `</` and no letter; files are in
UTF-8. In `ArtifactReader` one action is
one byte of the scan (a token, where several are compared at once) or one turn of the
loop of `ReadAt`, with buffers of any size up to
`MaxPiece`; `Rewrite` saves the file in place while it is served. In `MarkdownSource`
one action is one line.

### State and actions of `HeaderBridge`, `CopyButton`, `ImageViewer`

One action is one callback of an event loop. `toPage` and `toFrame` are the message queues
of the two windows, in order; a message to the frame goes to the document that was there
when it was sent. `doc` is the document in the frame: its phase, the insets that wait for
`DOMContentLoaded`, what it has reserved and told its pinned elements (`visible`). `plain`
stands for a document without the script: an error page, or a file that is no HTML.
`abandoned` and `missed` are history. In `CopyButton` a click starts a request that
settles at any time, and `timers` are `setTimeout`s that fire late or in time. In
`ImageViewer` widths are numbers of pixels and scales are in halves.

Definitions with a comment that begins "Slip" are deliberately wrong variants of the
definition that follows. No specification uses them: they exist to show that each
property is violated when the code is changed the way they are.

## 3. Runs

| Run | Instance | Shows |
|---|---|---|
| `daemon_races` | 1 share, 2 files, 2 requests, own sweep, all faults, 1 crash or shutdown, clock to 1 | content is lost by the named races only; revocation is final; `ShareDaemon` implements `ShareLedger` |
| `daemon_boot` | 2 shares, 1 file, 1 request, 1 crash or shutdown, no faults, clock at 0 | a daemon that takes the ports has removed all orphans, but those of shares that a stopping daemon worked on beside its sweep, and nothing that is served; a goroutine removes its own share only |
| `daemon_sweeps` | 1 share, 1 file, boots beside the listener and beside a stopping process, faults of create and revoke, 1 crash or shutdown, clock to 1, with fairness | files of an ended share are removed in the end; neither a second daemon's sweep nor one that stops adds a way to lose content; whoever takes the ports has swept what nobody worked on meanwhile |
| `daemon_renew_after_sweep` | 1 share, 2 requests, own sweep, no faults | counterexample: an active snapshot share without its files |
| `start_races` | 3 processes, one of them launchd's job, 1 client, 1 fault, 1 SIGTERM or kickstart, with fairness | who serves is reachable and has the secret on disk, but for two overlaps; a client that calls again and again finds a daemon again and again |
| `start_deaf` | 2 processes, 1 client, no fault, 1 SIGTERM, with fairness | counterexample: a daemon that nobody can reach holds the ports for good |
| `clients_races` | 2 clients, 3 ids, 1 path, 4 commands, 1 fault, clock to 1 | one live share for a path, but for three races; the printed link is the one asked for; an unshare that met no failure closes the path; a share lives as long as the last request asked, if that was a second or more |
| `clients_two_links` | 2 clients, 2 commands, no fault | counterexample: two live shares of one path |
| `clients_unshare_error` | 1 client, 2 commands, 1 fault | counterexample: a failed revocation is reported as not found |
| `previews` | see the bounds below; with fairness | a copy keeps its budget, is complete or gone, and ends; the header lies only over what made room for it, and moves with it; links open what they name and nothing outside; ranges are in place; the script is behind the doctype; tags are shown; labels and widths are right after any order of events |
| `links_broken` | the links of `previews` | counterexample: the printed link of a document whose name has a space opens nothing |
| `limiter` | 1 address, 3 requests, limit 2, window 2, clock to 4 | overshoot is bounded, blocks are justified and hold |

**Bounds.** Two shares share nothing but the sweep and the goroutines: one share shows
each race (two requests where requests race with each other, two sweeps where sweeps
do), two shares show that a removal hits the right entry. A lifetime of one second and
a clock that reaches 1 let a share be created, expire, be swept and be renewed; in
`daemon_renew_after_sweep` it reaches 2, and the share is renewed for a second second. In
`daemon_boot` no time passes: shares end there by revocation. Two
files let a copy be swept half way. One crash or shutdown (`MaxCrashes`) is enough for every
state a restart can find, because a second one finds the same kinds of remains; `Overlaps`
names which processes may be there beside the listener: one that stops in all passing
runs, one that boots (`"rival"`) in `daemon_sweeps`, and none in the counterexample, which needs none. In the limiter one address
suffices since addresses share nothing; three requests overshoot a limit of two, and
four instants span two windows. Requests and files are symmetric in the runs without
liveness. Of two `ferryd` processes that
commands spawn one stops, or finds the ports taken, while the other takes its place; the
third is launchd's, which a kickstart restarts beside either. One client can have all of
them started, by giving up on the others (776 thousand states). Without launchd the run was
also made with two clients (731 thousand states), with the same result. A lifetime of one second and
a clock to one let a share expire and be renewed after it. Four commands are a publish
for each of two shares, a third that may reuse one of them, and an unshare; one path
suffices since commands of different paths share nothing. The runs may stop when the
clock, the ids and the crashes are used up. TLC checks deadlock in all runs but those
of `ShareClients`, where all commands may have ended; in the others requests can
always begin.

In `previews` two files are enough for a budget that one of them has used up, and for one
that is left out between the two walks; limits below and at the largest integer, and
files that are empty, fit exactly or do not fit, are among the instances (files up to 2,
limits 1, 2 and 3, largest integer 3, two changes). The header takes three heights, one of
them above what an artifact accepts, and may be resized once; the frame has two documents,
and the artifact scrolls once, to less than the header or to as much. The tree of
`ShareLinks` has one file of each kind of name (a space, a blank at either end, `#`, a colon,
`index.html`, a template), a directory `s`, and four symbolic links: to a file outside, to
a directory outside, to one inside, and to the directory that is shared; eight
paths are published (`Places`), three of which are links themselves and one lies behind one. The
texts of documents have one target of each kind, and are edited twice. Pages are all those
of up to two tokens, all comments with up to three tokens before a doctype, and the bogus ones
with up to one; ranges are all ranges of them. Documents are all those of up to four lines of eleven kinds. Three
clicks let two timers be under way while a third copy is. CHECK_DEADLOCK is off in the two
runs: copies, ranges and documents come to their end.

**Fairness** (`FairSpec`): goroutines of a running process are scheduled, the ticker of one
that listens ticks, one that stops ends (`Exit`: five seconds pass), and when none listens one
is started (launchd's KeepAlive, or the next `ferry` command), which listens or gives up
(`WF(Listen \/ BindFail)`; no process has to find its ports free). No client is obliged to send
anything, and nobody to boot a second daemon. `daemon_sweeps` leaves out the
fault `sweep`: an entry whose removal fails every time stays, by design. In
`DaemonStart` a process that runs goes on with its boot and its shutdown (which is
bounded by five seconds in the code), and a command that was begun makes its checks.
Nobody has to begin a command: `EnsureWorks` says so in its premise, and
`RecoversUnlessOverlap` adds that no overlapped process stays for good. In `SnapshotCopy`
the goroutine of the handler goes on (`WF(Step)`; the open of a named pipe is no step it
could take). In `HeaderBridge` the event loops of page and frame do something as long as
they have something to do (`WF(Tasks)`, no matter what first); nobody has to scroll, resize or
navigate. The other modules state no liveness.

**Findings.**

- `gcSnapshots` can remove the files of an active snapshot share. The sweep lists the
  table while a create is copying (or before it inserts), then finds an entry it does
  not know. Or: a snapshot share expires, is swept, and is then renewed, since
  `RenewShare` excludes revoked rows and not expired ones. `IntactUnlessExposed` says
  these, and the failed file-mode pass after an insert, are the only ways.
- A daemon that is shutting down frees its ports before it removes `admin.sock`. One
  that starts in between has its socket removed, keeps the ports, and is never healthy:
  every command fails until it is killed. `RecoversUnlessOverlap` and
  `ReachableUnlessOverlap` say that it is the only window.
- Two first starts both create the secret; the one that serves may have lost, and links it
  signs stop working at its restart. `SecretUnlessClash` says that this is the only way
  (history variable `clashed`).
- The link printed for a Markdown document in a share of its directory is escaped twice
  (`resolvePublishURL`): a name with a space gives `%2520` and a 404. Run `links_broken`.
- Two publishes of one path make two live shares; so do a timed-out create and a
  renewal of an expired share. `OneLiveShareUnlessRaced` says nothing else does.
- `ferry unshare PATH` drops errors: it says "no active share matched target" when every
  revocation failed.
- A lifetime below one second passes the check "greater than zero" and becomes seven days
  (exempted by name in `LivesAsAskedUnlessTooShort`).
- `LinkOpensUnlessNamed` names every other way for a link to miss its file: a directory
  called `s` above an artifact (the page takes the last `/s/` of its own address); a name of
  an artifact that the redirection of `/h/` changes, because it is sent as it is: one with `#`,
  `?` or `%`, one whose stem and a colon look like a scheme (`a:b.html`), one that begins with a
  blank; the bytes of an `index.html` in a shared directory (`http.ServeFile` redirects
  `/r/<id>/index.html` to the directory, which the raw route answers with 400); a path that begins or ends with a
  blank (`escapeRel` trims it); whatever leads out of the share by a symbolic link, which is listed
  all the same; a symbolic link, or a file behind one, which a snapshot left out (a snapshot of
  a directory that is itself a link is empty: `filepath.Walk` does not follow it); a document
  whose only local targets are films or sounds is published alone, and one that is edited later
  may lead out of its share; a target that takes the detour below.
- A daemon that stops may leave files that belong to no share under the next one: a
  create it was working on adds them after that one's first sweep, and ends with the process
  or fails. `BootLeavesNoOrphan` exempts the shares it worked on (`met`) and no
  other; the next hourly sweep removes them (`DeadSnapshotSwept`).
- The header of a preview stays over content that made no room for it if a document that
  has said hello is replaced before its load by a plain one, or if the header is resized
  between the hello and the confirmation (also when it is back at the height that the
  observer saw last before the observer is called, which then sees no change), or is higher
  than 400 pixels (the artifact then ignores it). `OverlayReservedUnlessRaced` says that
  these are all. The case of the height that came back was found by its proof, with more
  resizes than the run has.
- A relative target of a Markdown document that leaves the share and comes back into it
  (`../../d/notes.md` in a share of `d`) opens another file or none: `cleanMarkdownPath`
  drops the `..` that would leave the share, and what follows starts at its root. Found by
  the proof of `LinkOpensUnlessNamed`, which now exempts it by name
  (`at.via = "detour"`).
- A copy waits for ever on a named pipe in the directory (`EndsUnlessPipe`). With the limit
  set to the largest 64-bit integer the reader's limit wraps and all files are copied empty,
  with success (`CompleteUnlessWrapped`).
- The scan for directive tags and the renderer disagree on a fence that is indented by four
  or more, has backticks in its info string, or has an info string where one is open
  (`TagsShownUnlessOdd`).
- The scan for the doctype knows one form of comment, `<!--` with the first `-->` behind it.
  A browser also takes `<!-->` and `<!--->` for whole comments, ends one at `--!>`, and skips
  `<?...>`, `<!...>` and `</` without a letter as comments. Before a doctype they make the scan give up or end
  elsewhere, and the script comes before the doctype (`AfterDoctypeUnlessOdd`, `HasOddComment`).

## 4. Proofs

Checked by TLAPS for every set of ids, files, requests, booting processes, every set of
faults and overlaps, and any bounds.

| Theorem | Module | States |
|---|---|---|
| `TypeCorrect` | `ShareDaemonProofs` | `Spec => []TypeOK` |
| `RevocationHolds` | `ShareDaemonProofs` | `Spec => []RevokedIsRefused` |
| `ContentHolds` | `ShareDaemonProofs` | `Spec => []IntactUnlessExposed` |
| `BootHolds` | `ShareDaemonProofs` | `Spec => BootLeavesNoOrphan`, where removals do not fail |
| `LedgerImplemented` | `ShareDaemonProofs` | `Spec => ImplementsLedger` |
| `TypeCorrect` | `FailedAuthLimiterProofs` | `Spec => []TypeOK` |
| `CountBounded` | `FailedAuthLimiterProofs` | `Spec => []FailuresBounded` |
| `BlockJustified` | `FailedAuthLimiterProofs` | `Spec => []BlockedOnlyForRecentFailures` |
| `BlockStands` | `FailedAuthLimiterProofs` | `Spec => BlockHolds` |
| `TypeCorrect` | `DaemonStartProofs` | `Spec => []TypeOK` |
| `Reachable` | `DaemonStartProofs` | `Spec => []ReachableUnlessOverlap` |
| `SecretKept` | `DaemonStartProofs` | `Spec => []SecretUnlessClash` |
| `TypeCorrect` | `SnapshotCopyProofs` | `Spec => []TypeOK` |
| `BudgetHolds` | `SnapshotCopyProofs` | `Spec => []BudgetKept` |
| `CopyComplete` | `SnapshotCopyProofs` | `Spec => []CompleteUnlessWrapped` |
| `LimitExact` | `SnapshotCopyProofs` | `Spec => []LimitIsExact` |
| `TypeCorrect` | `ShareClientsProofs` | `Spec => []TypeOK` |
| `OneLink` | `ShareClientsProofs` | `Spec => []OneLiveShareUnlessRaced` |
| `LifetimeKept` | `ShareClientsProofs` | `Spec => []LivesAsAskedUnlessTooShort` |
| `PrintsLink` | `ShareClientsProofs` | `Spec => []PrintsWhatWasAsked` |
| `UnshareIsComplete` | `ShareClientsProofs` | `Spec => []UnshareCloses` |
| `Scoped` | `ShareLinksProofs` | `Spec => []StaysInside`, on every disk, with symbolic links to files and directories |
| `LinksOpen` | `ShareLinksProofs` | `Spec => []LinkOpensUnlessNamed`, on every tidy disk |
| `HeaderShown` | `PreviewProofs` | `MCSpec => [](BridgeTypeOK /\ OverlayReservedUnlessRaced /\ MovesTogether)` |
| `LabelShown` | `PreviewProofs` | `MCSpec => OutcomeStands` |
| `ImageShown` | `PreviewProofs` | `MCSpec => []ImageFits` |
| `InsideShown` | `PreviewProofs` | `MCSpec => []StaysInside`, from `Scoped`'s invariant |
| `TargetShown` | `PreviewProofs` | `MCSpec => []LinkOpensUnlessNamed`, from `LinksOpen`'s invariant and `DiskAssumption` |
| `RangeServed` | `PreviewProofs` | `MCSpec => []RangeIsInPlace` |
| `ScriptPlaced` | `PreviewProofs` | `MCSpec => []AfterDoctypeUnlessOdd` |
| `TagsShown` | `PreviewProofs` | `MCSpec => []TagsShownUnlessOdd` |

The last eight are about `MCSpec`, for any value of its constants: any heights, numbers of
resizes, navigations, scrolls, clicks and edits, heads of pages (`MaxHead`), comments
(`MaxComment`), pieces of a range and documents (`MaxLines`) of any length (the run has one
resize, two documents, three clicks, heads of two tokens, four lines). The tree of files in `InsideShown` and `TargetShown` is that of the run;
`Scoped` and `LinksOpen` are for every tree, and `MCPreviews` takes its instance of
`ShareLinks` through `ShareLinksProofs` so that their lemmas can be cited. `HeaderReserved`, `HeaderMoves`, `LabelStands` and `ImageIsFitted` say the same of
each module by itself.

Assumptions: the named `ASSUME`s of `ShareDaemon`, `FailedAuthLimiter`, `DaemonStart`,
`SnapshotCopy`, `ShareClients` and `MCPreviews`, and nothing else (the null ids are no ids,
lifetimes and the window are positive, a source has a file, finitely many requests are in
flight, a limit is between one and the largest integer, heights and bounds are numbers), but
for these:

- `BootHolds` assumes that `"sweep"` is no fault: `gcSnapshots` ignores an entry it could
  not remove, and such an entry stays. Rival sweeps and processes that are stopping
  are allowed.
- `Scoped` assumes `Disk`: paths and what links end at are sequences. A link may end at a
  file, a directory or nothing, and what is published may be a link or lie behind one. Links stay
  as they are between the check of a path and its open.
- `LinksOpen` assumes `Tidy`: beside that, links end at a file or a directory, a file is no directory,
  no file is called `..`, extensions are those of the model, and a target names something. TLC
  evaluates it for the tree of `previews` (`DiskAssumption` of `MCPreviews`).

The inductive invariants:

- *Revocation* (`RevokedInv`). `RevokedIsRefused` alone is not inductive: nothing ties
  a late visit to its row. It is strengthened with: every id that was answered, or
  waits for its goroutine, has a revoked row, and so does every late visit.
  `RevokedStays` shows that no step brings such a row back.
- *Content* (`ContentInv`). Two parts. `Content` follows a snapshot: during the copy
  its files are those not left to copy, before the insert they are complete, and they
  stay complete while the share is active. `Swept` speaks of every sweep: an id it
  does not keep, or is about to remove, is not one that is being copied or is active.
  Both hold of ids outside `exposed` only, and every action that could break them for
  an id puts the id there.
- *Refinement* (`GrantedInv`). The mapping reads table, clock and visits. A visit that
  was let in is for a stored row, rows never go, so its mark is the ledger's `Serve`.
- *Limiter*. The count plus the requests let in and not counted yet (`Pending`) never
  exceeds `Limit - 1` plus the number of slots. The window that an entry counts in
  began at most as late as each of the failures counted in it.
- *Start* (`ReachInv`). From its bind of the loopback port to the close of it a process
  holds that port, so nobody else touches the socket or begins to stop while a daemon
  serves; what is left is a process that had closed its ports before, which is the
  exempted overlap.
- *Secret* (`SecretInv`). Without a clash at most one process is between read and write,
  there is no secret on disk as long as it is, and whoever has loaded one has that one.
- *Copy* (`Inv` of `SnapshotCopyProofs`). `Budget`: what the finished files have taken and
  what remains are the limit together. `Sizes`: the open file has as many bytes as were copied,
  and no more than it ever had. `Passed`: each file the walk has passed and nobody
  touched has its full length, unless the limit wraps. `Cleared`: a copy that failed has nothing on disk.
- *Boot* (`BootInv`). `BootSwept`, for every boot under way and every share it has not met:
  nothing is being copied for the share; what the sweep keeps is owned by a share; an entry is owned or
  still to be removed; at the ports, owned. Every handler that could add an entry or take its
  owner away, of whichever process, puts the share into `met` of every boot under way (`Meet`, and
  `Copying` at `Start`), and that is where the steps of a stopping daemon go.
- *Limit* (`Exact`). The sum over the files on disk is what was written and the part of the open
  file; what was measured, and what was written, is at most the sum of the files passed, each
  at its largest; files to come are not there. `LargestGrows` and `OneFile` are
  what one step adds to a sum.
- *Clients* (`Inv` of `ShareClientsProofs`). A request on the wire, an answer and a late
  request belong to what the command of their client awaits, and ids in them are of rows.
  `LiveInv`, for a path that is not raced: at most one live share and one publish of it;
  a list that was answered has its live share; while a create is on its way it has none.
  `PrintInv`: a renewal, and every id that came back, is of the path and mode asked for.
  `CloseInv`: what an unshare has not seen became active since; what it has seen is
  revoked, or still to be.
- *Links* (`Inv` of `ShareLinksProofs`, for `Scoped`). Where the root of a share leads lies
  within itself; before there is a share there is no page. Every page comes from
  `ResolveTarget`, which has compared where root and target lead. `RealSteps` follows the
  links of a path name by name.
- *Links* (`LinkInv`, for `LinksOpen`). `Published`: the printed link is the share's, or the
  one of a document in it, and a document that is a share by itself was published
  alone. `Shown`: a page is of the path that its own URL decodes to, below the root,
  and of the kind that it is shown as. Each link is then followed once: it is excused, or
  decodes to the path below the root it was made of (`RelEscaped`), which is the file it named.
  For targets that is `CleanBelow`: a path that never goes above where it begins is cleaned below a
  directory as it is by itself, by induction over its names with the count of `..` (`Ups`) as
  the length that is left.
- *Header* (`BridgeInv`). What the messages under way say about the state they lead to.
  `ConfirmInv`: a confirmation has an offset behind it, and an artifact that clips its viewport
  has confirmed nothing. `SentInv`: the height the page sent last is on its way, waits for
  the document to be parsed, or is reserved. `KnownInv`: it is the height of the header,
  but for an observer that missed it or is due. `OffsetInv`: the page knows the
  offset of the artifact, or is told of it. `LoadInv`: behind each hello comes a load,
  so the load of a plain document takes the header off. The lemmas about queues say what
  taking the first and adding a last message does to each.
- *Button* (`ButtonInv`). At most one timer runs, it is the registered one, and it was set
  by the outcome that is shown.
- *Image* (`ViewerInv`). Between two animation frames the fitted width is that of the viewport;
  width and controls are those of scale and fitted width.
- *Range* (`ReaderInv`). The reader has the size of the file it opened and a place in it, and
  what is to be sent ends before the page does. Each byte sent is in place (`InPlace`), one
  lemma for each of the three parts that a piece comes from (`ReaderBefore`, `ReaderIn`,
  `ReaderAfter`); less than was asked for is sent only if the file changed. The range is
  then the page's by `PageIs`.
- *Doctype* (`ScanInv`, beside `ReaderInv`, for contents without an odd comment). The
  scan and the reference are at the same place: in the prolog the reference continues
  where the scan is (`Heads`); in a comment that opened at `k`, no end of it
  lies behind, and `matched` is how much of `-->` lies right before (`Dashes`); in the doctype it
  has not been closed. When the file is served the script's place is the reference's.
- *Tags* (`DocumentInv`). For a body without odd lines (`WrittenInv`): the fence that the scan
  holds is the renderer's at that line (`FenceAgrees`); what was written, blank lines
  aside, is the reference up to that line; quoted lines have blank neighbours, and the last
  line is not quoted.

Recursion over data. The library's induction theorems cannot be used (they take an operator
as a parameter), but `SetInduction` of `FoldFacts` states induction over the numbers for a
set, from the least element of a set of numbers. `FoldExists` and `FoldUnique`
give the function that a fold of the community modules defines, `SumUnfold` and what
follows it the sum over a set, and `CleanSteps` does the same for `cleanMarkdownPath`.
`StepsExist` gives a function that is recursive over `0..n` (`FenceIs`, `KeptIs`);
`HeadExists` does it for `HeadFrom`, where every place looks at a later one.
`TagsShownUnlessOdd` takes the blank lines out of a text with `KeptAfter`, a function of that
kind: `SelectSeq` is defined by an operator that is recursive.

Only model-checked: liveness (`DeadSnapshotSwept`, `RecoversUnlessOverlap`,
`EndsUnlessPipe`, `OverlaidInTheEnd`), which is out of the prover's reach. Every invariant and
every other action property of a passing run is stated by a theorem.

## 5. Plan

1. The step half of the liveness properties: what each of them waits for is, once reached,
   never undone by another process (action properties, provable).
2. `RangeServed` for any script and any rewrites: its lemmas use no more of them than
   `Contents`, the theorem is about those of `MCPreviews`.

## 6. Not modelled

Cryptography (an HMAC is right or wrong), page layout, HTTP parsing, SQLite's own
recovery, file modes other than as a failure, packaging, tests and scripts. The HTML and
style sheets of pages, syntax colours, tables of CSV files, diffs, diagrams and the sanitizer
are text or other people's programs, without state of their own. The cookie of `/h/` carries the token
from one request to the next and decides nothing else. `get`, `list`, `doctor` and the
previews of commands change nothing.
`RevokeSharesByPath` and `ExpiredShares` have no caller outside tests.
