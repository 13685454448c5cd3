# clued: TLA+ models of its concurrent core

clued is a Claude Code plugin: bash hooks (`src/hooks`) and one Go binary
(`src/mind-palace`) that record what a session does, mirror its transcript,
keep planning documents, and sync repositories from GitHub. This directory holds
TLA+ modules for the parts of it whose correctness depends on the order of
things, TLC configurations that check them on small instances, and TLAPS proofs
for the properties that matter most.

## 1. Inventory

| Component | State | Operations | Interacts with | What is hard |
|---|---|---|---|---|
| Hook scripts (`hooks/event-relay`, `hooks/session-start`) | none; append to `events.wal` | post an event, start or replace the daemon, start a backfill | daemon (HTTP), WAL file | the daemon may be down, starting, or being replaced |
| Capture daemon (`session/daemon`) | tracked sessions, tailers, background work | handle an event, flush the WAL every minute, tail transcripts, shut down | ingest, tail, enrich, store | detached goroutines; crash between two store writes |
| Ingest and WAL (`session/ingest`, `session/wal`) | `events.wal`, a mutex per process | insert an event or buffer it, flush the buffer | session store, every relay process | at-least-once delivery; several processes on one file |
| Remote relay (`cli/hook_relay.go`) | none | ingest, catch up, flush, sync code, all within 5 s | ingest, catchup, codesync | one short-lived process per hook, many at a time |
| Catch-up (`session/catchup`) | `<session>.json` (offset, seq), `<session>.lock` | push the new transcript lines and artifacts | transcript file, session store | stale locks, truncated transcripts, crash between upsert and save |
| Transcript mirror (`session/tail`, `session/backfill`) | offsets in memory | tail a file, mirror artifacts, re-read everything | session store | two writers of one line number |
| Observers (`session/livestate`, `session/modeltrack`, `session/sidecar`, `session/memory`) | session fields | set when different, add an event | session store | applied out of order |
| Enrichment (`session/enrich`, `session/enrichers`) | enrichment per line | find unenriched lines, run an enricher, record result or failure | session store, model endpoints | a line rewritten while it is enriched |
| Document store (`store`, `store/*`) | documents, templates, leases | put, conditional put, fan-out to several stores, sync with conflict modes, lease | service, remote API | read-compare-put races, partial fan-out, lease expiry |
| Planning service (`service`, `ops`, `kind`, `model`) | documents and links | lifecycle, dependencies, schedule, review | store | cascades, cycles |
| GitHub sync queue (`ghsync/jobs.go`, `ghsync/memjobs.go`) | queue, leases, pauses, dead letters | enqueue, claim, extend, done, retry, pause | workers | order per repository, leases that run out, retries |
| GitHub sync workers (`ghsync/service.go` and `code.go`, `docs.go`, `events.go`, `policy.go`) | repository sync state | handle a delivery, import, reconcile, sweep | queue, GitHub client, code store, document store | a body that outlives its lease, rate limits |
| GitHub app client (`ghapp`) | token cache | requests, webhooks | GitHub | retries |
| Code index (`codeindex`, `codegraph`, `code`, `codeparse`, `codefilter`) | change log, cursor with lease, graph of layers | turn, check, rebuild, purge | code store, graph | failure inside a batch, a lease that lapses, trees newer than the changes read |
| Code sync (`session/codesync`) | state file and lock per worktree | push working tree changes, remove a worktree | git, code store | a worktree that changes under the run, budgets, lost answers |
| Server (`server`, `server/*`) | tokens, projects, device grants, WebSocket subscribers | HTTP and MCP endpoints, device login | everything above | device grants decided while polled |
| Client (`remote`, `remotesession`, `remotecode`, `clientcfg`, `config`, `cli`) | configuration | commands | server | none that outlives a call |
| Rendering and queries (`render`, `markdown`, `session/query`, `session/summary`, `session/digest`, `session/export`, `session/restore`, `eval`) | none | pure or read-only | stores | none concurrent |

What makes each concurrent component correct: the queue hands out the jobs of a
repository one at a time and in order and loses none; an event a hook was told
is handled is in the store or in the log; a transcript line is stored under its
own number, once, whoever pushes it; an observer leaves the session with the
newest observation; an enrichment belongs to the text it was computed from; a
conditional put never overwrites a version its writer has not read; a device
token goes to the machine it was approved for; the state file of a code sync says
what the store has; the graph is what the trees of the code store select.

## 2. Plan

| Step | Modules | State |
|---|---|---|
| GitHub sync queue and its workers | `JobQueue`, `KeyedQueue` (abstract), `JobWorkers` (composition), `JobWorkersProofs` | done, proved with its refinement |
| Event capture | `EventWal`, composed with the local daemon in `LocalCapture` and with the relay in `RemoteCapture`; `CaptureProofs` | done, proved |
| Transcript push under a lock file | `Catchup`, `CatchupProofs` | done but for artifacts, proved |
| Tailer, backfill and enrichment of one transcript | `TranscriptMirror`, `SessionProofs` | done, proved |
| Detached observations of a session | `SessionObservers`, `SessionProofs` | done, proved |
| Documents, their stores, claims and syncs | `DocStore`, `Palace`, `PalaceProofs` | done, proved |
| Tokens and the device login | `TokenFile`, `DeviceLogin`, `DeviceLoginProofs` | done, proved |
| Working tree to code store | `CodeStore`, `CodeSync`, `CodeSyncProofs` | done, proved |
| Code store to code graph | `CodeLayers` (pure), `CodeIndex`, `CodeIndexProofs` | done, proved |
| Repository sync bodies, artifacts, auto memory | | not started |

Every safety property of the passing runs is proved; what is left is what the last row names.

## 3. Modules and the code

### JobQueue, KeyedQueue, JobWorkers

`JobQueue` is `ghsync.MemJobs`. A job is the number of its enqueueing, so the
slice's order is the order of numbers and `queue`, `finished` and `dead` are sets.
`token`, `until`, `attempts` and `notBefore` are the entry's fields. There is no
absolute clock: `until`, `notBefore` and `paused` count the ticks left, and
`TimePasses` counts them down, so `until[j] = 0` is a lease that has run out. `Claim`
takes expired leases back first (`expireLocked`), as the code does, and only
there. The token is the worker in place of a random text: a worker asks only about the job it
has in hand, and lets go of that job before it claims again, so an old token is
never taken for a new one.

`JobWorkers` adds `Service.Work`, `RunOne`, `keepLease`, the fan-out of
an installation job, and `finish`. A body ends with one of three outcomes; what it did
to code and documents is left out. `keepLease` runs beside the body and may be
arbitrarily late.

`KeyedQueue` is what the `Jobs` port promises without a clock: expiry is a step
of its own that takes a lease back the moment it happens. `LazyExpiryUnobservable`
maps every `JobWorkers` state to one of `KeyedQueue` by treating an expired lease
as already taken back, and says that every step is a step of `KeyedQueue` or
none.

### EventWal, LocalCapture, RemoteCapture

`EventWal` has the store (`up`, `copies`: how often each line is in
`hook_events`), the file `events.wal` and, per process, the `Flush` it is in. `Flush` is four
kinds of steps: read, one insert per line with its three outcomes, truncate, write back. An
insert may commit and time out. The disk may refuse: an append fails, whole or after half a
line (`cut`), which the next line then continues; the log cannot be opened for the rewriting
(`FlushOpenFails`); the rewriting ends after some of the kept lines (`FlushWriteFails`).
History variables record why an event was lost (`overrun`, `torn`, `spilled`) or may be double
(`doubtful`); no action reads them. `overrun` are lines a flush wiped unread, `torn` those a crash
or a failed write caught after the truncate, `spilled` events that did not become a line of their own.

`LocalCapture` adds the hook script (post, then append when curl fails), the
daemon's handler and its life: it binds before it flushes, closes the listener
before it has finished, and exits after five seconds even if a handler still
waits for a store call that may take ten. `walMu` is `WalMuFree`: it keeps a
daemon's handlers and flush apart and nobody else.

`RemoteCapture` has one relay per event (`OneRelayPerEvent`, which TLC evaluates on
the run's instance and the theorems have as a hypothesis). Its flush may find the budget
spent at any line; it then rewrites the file as it read it. A relay that cannot open the
server's store drops its event (`RelayCannotOpen`). Its operators carry the
prefix `Relay`, so that one module can reason about both captures.

### Catchup

The steps of `acquireLock` (open, stat, remove), `loadState`, `pushTranscript` in
batches, `saveState` and release, for several runs of one session, with
transcripts that grow or are replaced. Offsets count complete lines, so a partial last
line, which `ReadLines` leaves for the next run, is a line not yet written. The
transcript is the set of positions of the lines that are not blank (`written`); a run has
the set it still has to push in hand, a batch is the first `BatchSize` of them, and a line's
sequence number is its rank among the positions. A model is known by the position
that names it. The session is assumed to be in the store (`modeltrack.Lines` skips its
work otherwise). `gen` in the state is no field of the code: it says which file the
offset counts, for `SavedStateTrue`.

### DocStore, Palace

`DocStore` holds what the stores do in one step: the primary's document, each
client's file copy, the stamps `remotestore` remembers (`seen`), leases and lock
files. The deployment is chosen in `Init`: a clued server (conditional writes,
leases, fan-out to a file copy) or a file store that several processes share
(unconditional writes, lock files). `version` is no field of the code: it names
the write a document comes from, so that "over a version its writer had not
read" can be said, and `stamp` in an operation is the `If-Match` its client had at
the time of the read. Each client has a clock of its own, ahead of the slowest by one of the
values `Ahead` gives it, at most `Skew`; the server's leases go by `now`. `Palace` is the service: every operation is resolve, check,
(for a claim) lock, re-read, gate, save (which stamps the document), put, copy to the other store, re-check,
unlock, each step on its own, several operations at a time in one client. `Create` makes a document in any
status and asks neither the workflow nor the dependencies; `ungated` names the documents made so, or forced.
The last read of a claim may fail, after which the claim is reported as won: `unchecked` names those.

### TokenFile, DeviceLogin

`TokenFile` is `server/auth`: processes that each hold the tokens in memory,
reload when the file's time or size has changed, and replace the file by rename; a
call is the steps stat, read, change, rename, second stat. `lost` records every change
that leaves the file again after it was reported, with the reason. `DeviceLogin` adds the
flow (`server/device`) with its requests in memory, approval that mints under
`name`, `name-2`, ..., the login command that polls, token commands of an
operator, lost answers and a restart.

### TranscriptMirror, SessionObservers

`TranscriptMirror` is one transcript: lines are written in two steps, so that half
a line can be read; the tailer delivers whole lines and counts them even when the
upsert fails; the backfill reads everything at once, the half line included, and
writes batch by batch; both set model and titles, each call a step. A title is its kind, as far as the
rule between them goes; `untitled` is the history of the tailer's lines whose title it could not write, or that a
backfill which had not read them wrote over. The
enrichment loop queries a batch, the first `BatchLimit` lines that need an enrichment, and
settles its documents one at a time in their order, against whatever the line is by then. Both modules
name their state after the store's (`sessionDoc`, `stateChanges`). `SessionObservers` is `ingest.Service` with `Detach`:
`tasks` is the set of goroutines, and any of them may run next; `overlap` is the history of what was still under
way for one event when the next came, and `unmet` says that the latest observation came before the session was
there.

### CodeStore, CodeSync

`CodeStore` is one worktree's part of `memcode`. `CodeSync` is a run of
`session/codesync`: `Resolve` (git's refs), `Scan` (lock, state file, capabilities,
git status), `Look` (lstat), `Hash` (read, mask, compare, queue), `Upload`, `CommitBatch`
until nothing is left, `Save`. The loop over the files is one step each: what matters is
what happens between the listing, the stamp and the content, which is between `Scan`, `Look` and
`Hash`. A run that fails saves the state as it is by then, the recorded capability included. Contents are numbers and a stamp names the edit. A commit of git has a tree and an
identity of its own, since the state file compares commits and not trees: two commits
with one tree are different heads. What a change still has to send is a set (`todo`) and
a batch the first `Batch` of it in the order the code sends, upserts before deletes. A lock that
passes for stale may be taken, or removed, under a run that goes on. `known` is the history of
what may have set store and state file apart: a crash, a purge, a lost answer, a full change
that was cut off, a run `overtaken` by another, content `raced` by an edit between git's listing and
the read, a full change that recorded another capability and failed before it queued anything (`toggled`), a branch `switched` between the refs and the scan.

### CodeLayers, CodeIndex

`CodeLayers` has the pure part of `codeindex`: `Select` with its votes and ties,
`Diff`, `hiddenBy`, and the visibility of a file in a view. `CodeIndex` replays the
change log: `Fetch` a batch, `Plan`, one `Write` per call to the graph in the order
`write` and `Apply` make them, `Save`. Check, rebuild and purge take the same
lease. A `Fail` between any two calls leaves the graph as it is; `Lapse` takes the
lease from an operation that goes on writing, and the check and the turns of one server,
which name themselves alike in the lease, take it from each other.
Three histories name what the code gives no promise for: `drift` (someone wrote without the
lease, or beside the turns), `owed` (the selection that an interrupted batch was writing,
until the next batch has settled it; losing the lease interrupts a batch like a failed
call) and `spoiled` (the selection changed before the retry, or the batch moved a layer, so that
nothing recomputes what is left). `Start` are the commits made before the project was first
indexed, `Does` says which operation a process runs. Of a file the graph keeps the hash,
the object id, whether it is a tombstone, and what hides it; symbols and edges
go with their file.

## 4. Runs

| Run | Expect | Shows |
|---|---|---|
| Jobs | pass | jobs of a key leave in order, one worker at a time is honoured, pauses are waited out, every job is done or dead in the end, and `JobWorkers` refines `KeyedQueue` |
| LocalCapture | pass | an event is lost or doubled only in the windows named, never by its own daemon's flush, and with a store and a daemon that stay up every other event handed over is stored |
| RemoteSafety | pass | the same windows for loss, with three relays at once |
| CatchupSafety | pass | offsets, numbers and lines agree through failures, crashes and replaced transcripts; with a growing transcript even when two runs overlap |
| CatchupLive | pass | neither a dead run's lock nor an old state saved over a new one stops the catch-up; the model follows the lines pushed |
| Palace | pass | a server's document is written over unread only through three named holes; claims exclude each other; a winner keeps its document; nothing is put under way before what it depends on, unless forced or created so; a save takes a stamp back by no more than the clocks are apart, and a sync in no case it was not told to |
| DeviceLogin | pass | a token reaches the machine it was approved for, once, or is a known orphan; an acknowledged change of the token file is lost only to a save at the same time; what was revoked is refused, and a key takes its tokens along |
| TranscriptMirror | pass | lines delivered are stored whole and under their number, enrichments belong to their line, model changes form a chain, a custom title the tailer has passed is shown; every line is stored and enriched in the end |
| SessionObservers | pass | live state, time and origin when all goroutines are done, also when an observation came before the session was there; and the chain of recorded changes |
| CodeSync | pass | the state file tells the truth about the store, no difference escapes the next Stop, a completed full change leaves exactly the worktree's files; a lock may be taken from a run that goes on |
| CodeIndex | pass | a graph at rest is the selection of the trees, files are hidden by exactly the layers above, a checkout's view shows its own files, a late save does not take the cursor back |
| HiddenStale | violation | a batch interrupted between hiding a file and writing what hides it leaves the file hidden when the checkout is changed back before the retry |

Most properties name the circumstances in which the code gives less (a history
variable such as `overrun`, `torn`, `known`, `orphans`, `clobbers`): the claim is that
there are no others. The history variables are read by no guard.

### Disagreements met

HiddenStale is kept as a run; its finding is in PROJECT.json. The others are
exceptions in the properties above and were seen as counterexamples while these were
written:

- Bodies of one key can overlap when an extension comes late, although jobs of one
  key "run one at a time" (`ghsync/jobs.go:92`) and a job that lost its lease is
  to stop "rather than run beside" another (`ghsync/service.go:428`). The queue
  refuses the late one's outcome.
- "the hook script appends only while the daemon is down" (`session/wal/wal.go:56`):
  a script may append while a starting daemon flushes, and its line is wiped. The
  relays of a remote client do the same to each other (docs/server.md:669-671). A line
  the script buffers has no account and host (PROTOCOL.md:408).
- A disk that fails under a flush: the log is truncated before the kept lines are written, so a failed
  write loses them without a crash (`session/wal/wal.go:115`), and one that cannot be opened keeps lines that
  are stored, which the next flush stores again (`session/wal/wal.go:109`).
- "it buffers a failed insert itself" (`hooks/event-relay:61`): a relay that cannot open the
  store neither stores nor buffers its event (`cli/hook_relay.go:107`).
- "concurrent runs for the same session serialized by a lock file"
  (`session/catchup/catchup.go:5`): two runs that both find a stale lock both take it.
  `filestore/lock.go` has the same race.
- A model that could not be recorded once is not recorded later, since the state
  already names it.
- `remotestore` sends the stamp its process saw last, not the one the caller read
  (`store/remotestore/remotestore.go:73`): two calls of one client can lose an update.
- "a custom title is never replaced by a generated one"
  (`session/sidecar/sidecar.go:88`): a restarted tailer, which begins with an empty
  tracker, does so until it reaches the custom title again. A backfill that read the file
  before the custom title was written does so too, and then the tailer takes its own title for stored until it
  is restarted. The title of a line delivered before the session is there, "left for the next call"
  (`session/sidecar/sidecar.go:98`), is not written by the next call, which has other lines.
- The late git lookup may reach the store before the first-sight upsert has made the
  session; the origin then counts as known and is not stored.
- "so this reconcile reads, uploads and commits them again" (`session/codesync/codesync.go:696`): a forced full
  run that finds the capability turned off and then fails, in git, in lstat or in a read, has saved the cleared marks and
  the new capability; the runs that follow do not look at these files before the next full one.
- Code sync: a file whose commit was taken but not answered and which is then changed
  back is taken for synced; a file deleted, left out by a run and restored as git has it is
  seen by the next full run only. A branch switched between `resolve` and the scan leaves
  the other branch's git facts cached under the first one's commit, and not even a full run reads
  them again until HEAD moves.

### Bounds

*Jobs*: two workers, one repository and its installation's own key, two jobs (an
installation job fans out into the second): one is held back behind the other, is claimed
after an expired lease, or is of another key and overtakes; two attempts reach the dead letters
by both paths; leases and pauses of one or two ticks put every expiry before and after every
other step. *Captures*: two events and two daemons with a fault and a crash let a flush of one
process meet an append, a flush and a crash of another, and a log of two lines fail at the
first or the second, when it is inserted and when it is written back (a flush has lines to write back without
an outage when a starting or closing daemon is cancelled); three relays with two faults and a kill let a third see what two did
to each other. *Catch-up*: two lines in batches of one, with blank lines anywhere, let every
step fall between two batches; one replacement at any point of a run. *Palace*: two
operations in one process and one in another are what the shared stamp and the claims
need; a clock of two or three ticks, so that stamps tie, follow each other, and leases and lock files run out; one client's clock is a tick ahead, so that an ordinary save takes a stamp back.
*DeviceLogin*: two logins want one name while a command changes the file; one place for
pending requests, so that it is full. *TranscriptMirror*: one line is settled while the other is
half written; a restart and a backfill. *SessionObservers*: three events, so that a late
lookup and two observations are under way together. *CodeSync*: batches of one, so that a
full change takes two; two steps of the user make an edit and its revert, a commit and a push, or a
switch and an edit. *CodeIndex*: a base, a branch layer and two overlays are the deepest stack
there is; two commits before the first turn and two events after it; one fault.

Each fault happens at most once or twice per behaviour; the bounds are the `Max...` constants and
appear only in guards. Agents, relays and devices are interchangeable where a cfg says
SYMMETRY; no liveness property is checked under it. Deadlock is not checked where the
environment may fall silent at its bound.

### Fairness

`JobWorkers`: weak fairness of the steps a worker takes by itself (it polls for as
long as its context lives, `maxJobRun` bounds a body, a stopped worker is started again
with the server) and of time; nothing obliges an extension to be in time.
`LocalCapture`: curl, handlers, the flush ticker and a flush go on, a
starting daemon serves and a closing one exits; each is a goroutine that waits for
nothing but calls with timeouts. Neither the store's recovery nor a new daemon is
assumed: `BufferedEventsReplayed` has them as its premise. `Catchup`: a live run goes
on, because the relay's budget bounds it, and files get older. That hooks keep
firing is the premise of `CatchesUp`. `TranscriptMirror`: the tailer and the enrichment
loop are loops of the daemon on tickers, so each of their steps is taken if it stays
possible; the backfill and Claude Code owe nothing.

## 5. Proofs

Each theorem holds for every value of the constants: any number of workers, processes,
events, documents, tokens or lines, and any bound on faults, since a bound only disables
actions. The bounds of section 4 do not limit them. Every proof has the same shape: an
inductive invariant, one lemma per operation that says what it keeps, one lemma that assembles
them over `Next`, and theorems that read the properties off the invariant. TLC checked each
inductive invariant on the run's instance before it was proved.

| Module | Inductive invariant | Theorems |
|---|---|---|
| `JobWorkersProofs` | `IInv` | `TypeCorrect`, `LeasedIsOldestAlways`, `OneLeasePerKeyAlways`, `EveryJobAccountedAlways`, `OneHonouredWorkerAlways`; the steps: `JobsLeaveInOrder`, `PausesWaitedOut`, `LeasesEndedByHolder`; the refinement `LazyExpiryRefines` |
| `CaptureProofs` | `WalInv`; `CaptureInv`, `OwnInv`; `RelayInv` | `CaptureTypes`, `NoSilentLoss`, `ReplayNeverDuplicates`, `OwnLinesSafe`; `RelaysLoseNothingSilently`, `RelaysNeverDuplicate` |
| `CatchupProofs` | `CatchupInv`, `ModelInv` | `CatchupTypes`, `SavedStateHolds`, `LinesKeepTheirNumbers`, `ModelFollowsPushedLines` |
| `DeviceLoginProofs` | `LoginInv` | `LoginTypes`, `NoChangeLostAlone`, `RevocationHolds`, `KeysRevokeTheirTokens`, `TokensHandedOnce`, `NoUnknownOrphans` |
| `PalaceProofs` | `PalaceInv` | `NoBlindOverwrite`, `ClaimsExcludeEachOther`, `WinnerHolds`, `DependenciesFirst`; the steps: `StampsForward` |
| `SessionProofs` | `ObserversInv`; `MirrorInv`, `TitleInv` | `ObserversTypes`, `OneLookupAtATime`, `QuietIsCurrent`, `ChangesChain`, `OriginStored`; `MirrorTypes`, `DeliveredStored`, `EnrichmentOfTheLine`, `ModelChain`, `CustomTitleSeen` |
| `CodeSyncProofs` | `SyncInv`, `GitInv` | `CodeSyncTypes`, `StateFileIsTrue`, `NothingGoesUnseen`, `CompletedReconciles` |
| `CodeIndexProofs` | `GraphInv`, `HiddenInv`, `ToldInv` | `CodeIndexTypes`, `RestingGraph`, `HiddenByTheLayersAbove`, `CheckoutsSeen`; the steps: `CursorGoesForward` |

That the named formulas are invariants is itself a theorem of each module (`CaptureInvariance`,
`CatchupInvariance`, ...).

### Why the invariants are what they are

*Jobs.* `OneLeasePerKey` is not inductive by itself: to see that a claim breaks no
other lease of its key one must know that a leased job is the oldest of its key,
and to see that a new job does not become older than a leased one, that
numbers not yet used carry no lease. The inductive invariant is therefore types,
`LeasedIsOldest`, `EveryJobAccounted` (a job is in exactly one of queue,
finished and dead, and its attempts reach the limit exactly when it is dead), the
freshness of unused numbers, and, for the workers, that a running one has a job
in hand. `OneLeasePerKey` and `OneHonouredWorkerPerKey` follow from `LeasedIsOldest`,
since two oldest jobs of one key are the same job. The action properties use the same
invariant: a step takes only leased jobs out of the queue (`LeavesLeased`), and a leased
one is the oldest; a claim takes only what carries no token once the expired leases
are taken back, and Done, Retry and Pause compare tokens, so none of them reaches
another worker's lease.

*Refinement of `KeyedQueue`.* One lemma per queue operation (`EagerEnqueue`, `EagerClaim`, ...)
says which abstract step it is. A claim is `Take` of the abstract queue, although it takes
expired leases back first: under the mapping these were back already (`EagerExpire`).
A tick is the abstract step that gives back the leases it ends, and a tick that ends none
is a stutter. Extend, Done, Retry and Pause are steps on a job that is held abstractly too, because
`find` refuses a lease that has run out (`EagerHeld`).

*Captures.* `LostOnlyInKnownWindows` needs to know where every line is while a flush has it in
hand: `FlushInv` says that each line a flush has read is stored, kept for the rewriting, or
still to be tried. `OnceUnlessDoubtful` needs more: an event nobody doubts is in
the log once, in the hands of one flush at most, not yet stored if anyone may still store it,
and a stored one is still in the log only while the flush that stored it is about to truncate
it (`OnceFor`). A flush that leaves, dead or refused by the disk, is one lemma (`LeaveKeeps`), and so is one that
writes back the first of its lines and loses the others, which may be none (`WriteKeeps`). These are the log's own and are proved once; `Told` and
`FirstHand` tie them to what a hook or a relay has been told. `OwnLinesNeverOverrun` rests on
an invariant of its own: while one daemon only has run, its flush has read every line its
handlers appended, because `walMu` keeps them apart.

*Login.* The token file exists in several copies, so the invariant is about all of them: each copy
is sound by itself (an exchanged token expires, its key is there and takes it along), and any
two mean the same token by the same id. `KnowsFile` is what a process may rely on: if
it believes to have the current version, and did not take another's version for its own, its
tokens extend the file's, but for what may be pruned. From this a save loses nothing that
was acknowledged before the call began (`NothingUndone`). The flow adds that an approval holds its
request pending, that an approved request holds a token of its own machine which nobody was
given yet, and where each issued token is (`IssuedKnown`).

*Palace.* A conditional write is safe when the stamp sent names the version read. That needs one stamp per
version wherever a copy of it is (`StampInv`), and that until its client reads something newer
the stamp it will send is the one of its read (`IfMatchInv`). `DependInv` says of every copy of a
document, in stores and in operations under way, that it was started after its
dependencies: a sync may bring any of them back. `LeaseInv` and `LockFileInv` say who
holds a lease or lock file in each step of a claim. `SeenInv` and `SaveInv` say of the clocks that no stamp a
client remembers is beyond what one may say, and that save's stamp is no further behind the one that was read than the clocks are apart. `HeldByWinner` needs `FoundFree` besides: a claim
that re-read the document under its lock and found it free is the only one that may be told to
hold it, of those that look again after their write.

*Observers.* State and chain are properties of histories in which each event is observed before the next one
comes (`Orderly`), whatever else is still under way: one goroutine at most observes the state, and what it has
set, recorded and remembered fits together after each of its steps. That the session is there, and has the time of its
last event, is an invariant of its own (`Presence`), since a touch may be overtaken where no observation is.
`KnownOriginIsStored` and the
single git lookup hold in any order, from the flag that guards the lookup.

*Mirror.* Every text is kept under its line's number in the store and in the enrichment pass, the
tailer is never past the complete lines of the file, and at most one writer has a
change to record, which leads from the end of the chain to the session's model. `TitleInv` follows the tailer's
own knowledge: of a custom title it has passed it knows, but for the line it is at, and what it knows of is
stored.

*Catch-up.* A saved state is true when its offset and number fit and every line before
the offset is stored. While a run pushes, this must be known of the state it will save, so `RunInv`
says of every run under way that the lines it has in hand are exactly those that follow its
state's offset, in the generation it read; a run that read an older file may go on as long as no two
runs overlap (`Fits`). Two runs may push the same lines: a line's number is its rank among
the positions written, which growth never changes, so both write the same line under the same number.
`ModelInv` adds where the batch began whose models are not recorded yet.

*Code sync.* `SyncInv` says, for a history without crash, purge, cut, lost answer or second
run, what each step of the run that holds the lock may rely on: a loaded state that counts as fresh is true of
the branch's tree, a change that is not full touches only what it has queued, and during a full
change, when the tree holds neither the old files nor all the new ones, the tree is exactly what has been sent
and the state agrees with it (`Sent`). `GitInv` serves `StopSeesDifference` and
`FullReconciles` and needs no such history: stamps and commits are numbered by the user's steps, so a content
read late never carries an old stamp; cached git facts are those of the commit whose identity the
state has; and a content the server refuses is never among its blobs.

*Code index.* The graph changes call by call, and at any point another operation may have the lease. `GraphInv`
therefore says what the calls already made have done and what those to come will find (`Written`):
layer by layer and path by path, the graph agrees with the new selection where the call is done
and with the old one where it is not. The holder of the lease goes on from the cursor (`Leased`); a tree the turn
has read is as it is now, or a change of it is still in the log (`Cached`); a batch that ends with the log writes
the selection of the trees (`Wanted`), and that is what a quiet graph holds (`Rests`). `HiddenInv`
adds which files are hidden as they should be after the batch: those whose call is done or that need none (`Hidden`).
An interrupted batch is safe to retry (`Retry`) because puts and removes are its last calls but the drops: what
still differs is exactly where the next batch recomputes, unless a layer moved (`CutOffRetries`). The
folding of the log is a recursive function; a replay that went wrong somewhere went wrong first
somewhere (`LeastNat`), which is how lemmas about it are proved without induction.

*Checkouts.* What a checkout sees depends on what git promises of commits, so the proof has to know that trees are
checkouts. `ToldInv` says it by the log: the last change of a tree that has files tells the commit it was made at
(`TreeTold`), and the states folded from the log, in the cursor and in every operation, tell of each tree its last
change (`StateTold`). At rest these meet, and what is selected from are checkouts (`ReadingTold`). The sources of
the base, and of a branch layer, were then pushed to one commit (`SourcesAgree`) and tell one content of a path, so that
there is nothing to vote on (`PushedIs`); what is clean in a checkout on that commit is as it is below
(`CleanIsBelow`); and with the `by` sets exact, the view shows the overlay's file, else the branch's, else the
base's (`TopShows`, `BelowShows`).

### Assumptions

The constants' types, named in the module that declares them (`QueueAssumption`,
`WorkerAssumption`, `WalAssumption`, `LocalAssumption`, `RemoteAssumption`, `CatchupAssumption`, `TokenFileAssumption`,
`DeviceAssumption`, `DocStoreAssumption`, `PalaceAssumption`, `ObserversAssumption`, `MirrorAssumption`,
`CodeSyncAssumption`, `CodeIndexAssumption`, `CheckoutAssumption`). Those that say more
than a type:

- `BackoffAssumption`: back-offs are positive naturals. `Backoff` is a recursive function,
  whose values the provers cannot compute by induction; TLC evaluates the assumption.
- `TokenFileAssumption`: a key's tokens live longer than no time (`TokenTTL` is a positive constant), so
  that an expiry of 0 means none, as in the code.
- `DeviceAssumption`: there is a name to try for every device, since `mint` begins with the one asked for.
- `DocStoreAssumption`: no client's clock is more than `Skew` ahead of the slowest.
- `PalaceAssumption`: the documents at the start respect their links, and a status
  command or a create names a status.
- `NoTokenAssumption`, `NoRequestAssumption`, `NoDocumentAssumption`, `NoLockAssumption`,
  `NoOperationAssumption`, `NoDocAssumption`, `NoneIsNothingElse`: `None` is no record, so that an absent one is told from a
  present one.
- `CodeSyncAssumption`: paths are numbered in their order and 0, which stands for no content, is not among the contents
  the server refuses.
- `CodeIndexAssumption`: the keys of trees are pairs of a worktree and a ref, 0 is no ref, and what checkouts
  commit has the types of the code store's entries.
- `CheckoutAssumption`: what git promises of checkouts. HEAD has a file that is neither dirty nor unpushed; trees that
  were pushed to one commit of a branch tell the same of a path, and GitHub's tells of all paths; the commits made before
  the start are of different trees and among the checkouts; worktrees are numbered in their order. `CheckoutsSeen`
  and `ToldInvariance` are the only theorems that rest on it.

The theorems about relays have the hypothesis `OneRelayPerEvent`: a hook starts one relay process for its event.

TLC evaluates all of them on the instances of the runs.

### What the attempts changed

Not every property was true as it had been written for TLC; on a small instance nothing
told the difference. `StampsGoForward` had to name the client that has no stamp for the document and, once every
client had its own clock, the save of one that is behind; `HeldByWinner` the claim whose last read fails, `StartedAfterDependencies` the
document that is created under way.
`KeyTakesItsTokens`, which had an exception for lost changes, turned out to need none. The start of `Palace`
had to respect the links. Several CASEs with overlapping guards, where TLA+ leaves open which arm is
taken, became IF and ELSE. `FullReconciles` had to say that git's facts were read while the worktree stayed on its
branch, and that a head is a commit with an identity: with trees in place of commits a commit and its revert looked alike,
which they are not in the code. A batch of the indexer that lost its lease had to count as interrupted, like one whose call
failed; and it owes something only while the cursor is behind the log. In `Catchup` numbers of lines became ranks
among positions, so that they can be reasoned about without counting through a sequence.

`LeasedIsOldest`, `OneLeasePerKey`, `EveryJobAccounted`, `LeaseOnlyEndedByHolder` and the
single git lookup are left to the proofs, which cover the instances of the runs too.

### Only model-checked

Liveness, because fairness and ENABLED are out of the prover's reach: `EveryJobSettles`,
`BufferedEventsReplayed`, `CatchesUp`, `EveryLineSettles`. What a recursive definition computes for every
input cannot be proved either, which concerns `Backoff`. `HiddenThroughInterruptions` is refuted, not proved.

## 6. Not modelled

PROJECT.json lists every component with its reason. The repository is some 88,000 lines
of Go outside its unit tests; most of it has no state of its own between two calls, or none that more
than one actor sees:

- fakes and conformance suites (`sessiontest`, `codetest`, `codegraphtest`, `ghapptest`);
- drivers (`mongosession`, `mongostore`, FalkorDB): where a modelled component has an
  in-memory implementation of the same port, that one is modelled;
- parsers, symbol resolution, code filters, text enrichers and prompts: pure functions of large
  inputs, whose correctness is not a question of order;
- queries, exports, rendering, the command line and the HTTP and MCP endpoints that only pass
  a call through.

Left out of the modelled parts: log lines that are malformed from the start and one the store refuses for good,
the artifacts of a catch-up and of the watcher, unreadable state files, templates and
the layout of file stores, validation and progress roll-up of documents, an assignee given at the create, the projects
of a token, the files the code filters let through, symbols and edges of the graph and
the back-off of the indexer's loop. The repository sync bodies (`ghsync/code.go`,
`docs.go`) are the largest stateful part without a module; they run under the queue that
is modelled and write through the stores that are.
