# TLA+ specifications of octo-matter

octo-matter is a Go service that keeps *matters* (tasks) of a chat workspace:
their status, assignees, linked IM channels, a timeline of progress entries with
files, and an audit trail of activities.  Matters and entries can also be made
by a language model from chat messages.  The service is stateless except for
its in-memory structures (a rate limiter, caches of what the IM server said, a
notification queue);
everything else is in MySQL, and one goroutine per HTTP request works on it,
statement by statement.

This directory holds specifications of that code, the TLC configurations that
check them, and TLAPS proofs about them.  Paths are relative to the repository.
`PROJECT.json` lists every run, mutant, hazard and finding, and for every
definition the lines it models.

Run a check with `tlc -config X.cfg MCM.tla`, a proof with `tlapm MProofs.tla`.  Every
proof module is checked within a few minutes.

## 1. Inventory

| Component | Code | State | Operations | What is hard about it |
|---|---|---|---|---|
| Matter lifecycle and editing | `internal/service/matter_svc.go`, `internal/repository/{matter,assignee,matter_channel,activity}_repo.go`, `tx.go` | rows of `matters`, `matter_assignees`, `matter_channels`, `matter_activities` | UpdateMatter, SetStatus, SoftDelete, Add/RemoveAssignee, Link/UnlinkChannel | only SetStatus has a transaction; every other method reads, decides, and writes later; activities follow outside the transaction and their failures are only logged |
| Matter creation and numbering | `matter_svc.go` (Create), `matter_repo.go` (Create, nextSeqNo) | `matters.seq_no` under the unique key `uk_space_seq` | Create | read-then-insert of the next number with retries, at an isolation level the code does not set; partial failure |
| Timeline | `timeline_svc.go`, `timeline_repo.go`, `timeline_attachment_repo.go`, `participant_repo.go` | `matter_timelines`, `matter_timeline_attachments`, `matter_participants`, links | create directly, create from messages, delete, outputs | a model call of many seconds between the checks and the transaction; references to link rows that may vanish; duplicate files |
| Paged lists | `cursor.go` and the List methods of four repositories | none; a cursor in the hands of the client | ListMatters, timeline, activities, outputs | the table changes between pages; ties of time; rows that become visible late |
| Membership and identity caches | `internal/octoim/client.go`, `internal/auth/middleware.go` | maps with a TTL and a cap, a sweeping goroutine | IsMember and the like, verify of user and bot tokens, Close | answers that are stale, late, partial, or failures taken for a no |
| Rate limiter | `internal/middleware/rate_limit.go` | `sync.Map` of stamps, a sweeping goroutine | Allow, sweep, Close | lock-free read-then-swap against the sweep |
| Notification worker, shutdown | `internal/notification`, `cmd/main.go` | a bounded channel, four goroutines, a WaitGroup | Submit, the tasks, Shutdown; main's order of stopping | sends on a closed channel; the database closed under queued tasks; shutdown that must end |
| Extraction and what a model says | `extract_svc.go`, `timeline_svc.go` | none of its own | extract a matter, write a progress entry | ids, people and dates a model made up |
| Rich text and prompts | `richtext.go`, `prompts.go`, `llm/promptstore` | files read once at the start | layout | none |
| Language model clients | `internal/llm`, `llm_caller.go` | none | one remote call | late or missing answers (choices of `Timeline`) |
| HTTP surface and access | `internal/handler`, `internal/auth/middleware.go`, `canAccessMatter`, `RequireChannelMember`, `HasAccess`, `ListBySpace` | the caches above; roles and links | authentication, space, channel and role gates of every operation | a decision mixes answers of different ages, and memberships, roles and links change between the gates |
| Errors, configuration, translation, request ids | `apperr`, `config`, `i18n`, `middleware/request_id.go` | none | | none |
| Database pool, migrations | `repository/db.go`, `migrate.go`, `src/migrations` | schema | | unique keys and cascades, part of the modules that use the tables |

How they interact.  A handler passes the gates (token, space and, for some
operations, membership of a channel through the caches; the limiter for the
endpoints that ask a model), calls one service method, and that method calls
repositories in turn, some inside `TxManager.Do`.  After the method succeeded the
handler submits a task to the notification worker, which reads the matter again
and posts to the IM server.  `main` starts the server and the worker, and stops
them in the order server, database, worker.

What makes each correct:

* lifecycle: status moves only as the rules allow the caller, decided on the row
  that is updated; no write to a deleted matter; activities and replies agree
  with what was committed;
* numbering: the numbers of a space are 1..n, and a creation is refused only for
  contention; a matter appears with its children or not at all;
* timeline: references hold, bots introduce no links, authors are participants,
  only authors delete, a file is shown once;
* lists: no row twice, no row that was there all the time left out;
* access: who is shown a matter, adds to it or links a channel was entitled to, at a
  time that the caches and the length of a request bound; who has a lasting role is not
  turned away because of a channel he also names;
* caches: an admission rests on something that was true a bounded time ago; a
  refusal on denials; the cap holds;
* limiter: accepted calls are a cooldown apart; the map does not grow forever;
* worker: never blocks, never sends on a closed queue, an orderly exit drains it,
  the stop ends;
* model answers: what is stored comes from the messages that were sent.

The full list of hazards, each at its line and with the properties that would
notice it going wrong, is in `PROJECT.json`; those without a property have a note.

## 2. Modules

Every component has a specification `M`, an `MCM` that gives the constants their
values for TLC, and an `MProofs`; `CreationProofs` is about `MatterCreate` and about
`ModelAnswers`, whose matters it creates.

| Module | Models | Abstract specification |
|---|---|---|
| `MatterLifecycle` | what the API promises of one matter: its committed status steps | (is one) |
| `MatterService` | the requests that change one matter, one action per statement | implements `MatterLifecycle` |
| `MatterCreate` | creations in one space | |
| `Timeline` | entries, files, links and participants of one matter | |
| `PagedList` | one client's walk over a list that changes | |
| `AnswerCache` | the membership cache, and the token caches of the same shape | |
| `Access` | requests on their way through authentication, space, channel and role gates, with the three caches and a world that changes | |
| `RateLimiter` | `Allow`, the sweep, `Close` | |
| `TaskPool` | what a bounded pool promises its callers | (is one) |
| `NotifyWorker` | handlers, queue, goroutines and `main` | implements `TaskPool` |
| `ModelAnswers` | the validators of what a model says | |

### MatterService

`row`, `assignees`, `channels`, `activity` are the tables; `lock` is the
exclusive row lock of `SELECT ... FOR UPDATE`; `pc[r]` is the next statement of
request `r`, `snap[r]` the row it last loaded, `todo[r]` the activities it has still to
insert.  `UpdateMatter`, `SetStatus`, `SoftDelete`, `AddAssignee`,
`RemoveAssignee`, `LinkChannel` and `UnlinkChannel` are the methods, each a
disjunction of its statements.  `Fail` is any statement that returns an error
(or the request's context ending): what was committed stays, a transaction is
rolled back.  A statement on a row that somebody has locked waits
(`RowFree`).  MySQL reports *changed* rows, so an update to equal values within the
resolution of `updated_at` may count none (`Unnoticed`).  `history` is a ghost:
the committed status steps and the deletion, with the request that took each.

`SetStatus` reads the matter once before the transaction, where only existence
matters, then selects it under lock, decides on the *locked* status, writes and
commits, inserts the activity, and reads the detail for the reply.  If that read fails, or
the matter is deleted by then, the caller is told of a failure although the status was
changed; `ReplyIsExplained` bounds what he may be told: never that he may not.

### MatterCreate

`NextSeqNo`, `Insert`, `InsertChildren`, `Commit`, `Record` are the statements of
a creation.  What locks the `FOR UPDATE` aggregate takes depends on the isolation
level, so the model rules no interleaving out: a number that was read may be stale
in every way, and an open insert of the same number makes another wait or fail.
`Fail` is a deadlock, an error or a cancelled request at any statement.  Deleted
matters keep their numbers.

### Timeline

`link` maps a channel to the id of its `matter_channels` row, `entries`, `atts` and
`participants` are the tables, `seen` is what was committed at the first read of a
request's transaction: a plain read later in it returns either that or what is
committed now, because the isolation level is left to the server.
`AskModel` is the model call, between the checks and the transaction; `Find`,
`CreateLink`, `Refind`, `InsertEntry`, `CheckFile` and `CommitLLMEntry` are the
transaction; a row of a file has the place `nr` in its entry's list, and with the entry
that stands for its random id (an entry written directly may list a file twice); `Others` is everything else that happens to the matter meanwhile
(links made and removed, the matter deleted, time).  The foreign keys act as the
migrations say: unlinking sets the entries' reference to null, deleting an entry
takes its attachments along.

### PagedList

The four lists share their cursor scheme; `Ascending`, `Dedup` and `Gated` tell
them apart.  A writer takes a row's time in the process (`Write`) and commits it
later (`Commit`), so rows appear before the cursor.  A page is the rows beyond the
cursor, one more than the limit asked for.  `Cursor` is the position that comes back
from the client: `EncodeCursor` takes nanoseconds of 64 bits, which do not reach beyond the
years 1678 to 2262, and the time of a file is what the client said of its message; `Carried`
is what becomes of a time, and `Exact` says that it came to no harm so far.  `Filters` is
what the filter of the list leaves out from the first page on (for the files a search,
applied after the anti-join), and `Refilter` moves rows of the list of matters in and out.  `steady` and `lasting` are ghosts: rows listed, or stored, ever
since the first page.

### AnswerCache

A lookup has a sequence of facts (uids of a channel) and a token; the first *yes*
ends it, *no* goes on to the next.  `Answer` is the IM server at the moment it looks,
which may be any time between `Send` and the timeout, and may be a failure with the
status of a refusal.  `Set` stores under the cap, emptying a full map.  `Evict`,
`Stop` and `Close` are the goroutine and `Client.Close`.  The verify caches of
`auth/middleware.go` are the same with one fact, positive answers only and no
`Close` (`CacheNegatives = FALSE`, `Closable = FALSE`).

### Access

`holds` is the set of facts that are true now: of the IM server, for which uids a token
acts (`Acts`), which spaces (`In`) and channels (`Member`) it admits, and who owns a
bot (`Owns`) and what its space is (`Home`), both told with the answer about its token and
kept with it; of the database,
the roles (`Assignee`, `Participant`), the links (`Link`) and that the matter is not deleted
(`Live`).  `flip` is a ghost, the time at which each fact last changed.  `ids` is `verifyCache`
and `botVerifyCache` (a token is of one kind), `answers` is `spaceCache` and the client's
`membershipCache`.  `req[r].pc` goes through the gates:

| Actions | Code |
|---|---|
| `Authenticate`, `AnswerAuth`, `Authenticated` | `AuthMiddleware`, `verify`, `verifyBot` and their caches |
| `EnterSpace`, `AnswerSpace`, `Entered` | `SpaceMiddleware`; a bot with a home goes there, a bot without one where its header says, and is asked about if it sends a token header beside its own token (`Asking`) |
| `Handle` | what the handler refuses before it calls its service, and the channels it will have to ask about (`Claims`) |
| `Load` | `GetByID` and the creator's fast path of `canAccessMatter` and `LinkChannel` |
| `Gate`, `AnswerMember`, `Confirmed` | `IsChannelMember`, asked for one uid after the other; `Judge` is what each caller does with the answer: `canAccessMatter` and `ListMatters` drop a claim that is denied, `RequireChannelMember` ends the request |
| `Decide` | `HasAccess`, `IsAssigneeAny` |
| `QueryList`, `Show` | `ListBySpace` with its filters; the reads after an accepted role |
| `AskModel`, `Act` | the call of the model; the write, with the link and the participant it adds |
| `Decline`, `TimeOut`, `Fail` | the IM server refuses, fails or is down (an answer of verify other than 200 is taken for an invalid token), its five seconds pass, any other error |
| `Change`, `Evict`, `Tick` | others, the tickers of the caches, time |

The space cache is keyed by the first 16 characters of a token (`Prefix`) and the space, so
two tokens may share an entry; the properties about spaces speak of some token of the same
prefix.  What a request reads after its role was accepted is read without another look, so
all statements are of the form *was so at some time since the request began*; for what a
cache may answer, *or a TTL and a timeout before*.

### RateLimiter

One step per operation of `sync.Map`: `Store` (LoadOrStore), `Load`, `Swap`
(CompareAndSwap), `Visit` and `CompareAndDelete` of the sweep.  The clock is read in
`Begin` and may be old when the map is reached.  `ShortRequests` (`MaxDelay <=
Grace`) names what the sweep's comment relies on: no call is delayed by more than the
grace of 60 s between reading the clock and its answer.

### TaskPool, NotifyWorker

`handler[r]` follows a request from its arrival to its `Submit`; `queue` and `open`
are the channel; `busy[w]` is the task of a goroutine; `main` moves through signal,
`Shutdown` of the server (which returns when the handlers have, or after its ten
seconds), `CloseDB`, `CloseQueue`, `Wait`.  When the server's Shutdown times out,
`main` ends through `log.Fatal` and runs no deferred call.  A task first reads the
matter (if its kind does), then posts.

### ModelAnswers

Pure functions with a small machine around them: `Accept` checks a batch of
messages, `Reply` or `ModelFails` is the model, `Extract` and `Progress` store what the
validators keep.  `Kept` is the loop of a filter, `AddFiles` and `Collected` the two
nested ones of `buildLLMAttachments`, as functions from the number of rounds to what has
been gathered.  `Trim` is a constant function, so that blanks around names are part
of the model and characters are not.  A deadline is a day number.

## 3. Runs

Every passing run finds no error in the whole state space.  Deadlock is checked
except where the system really stops (`NotifyWorker`: the process ends;
`PagedList`, `AnswerCache`, `ModelAnswers`: a walk ends, a client is closed, a reply is given).

| Run | Asks | Bounds and why they are enough |
|---|---|---|
| `matter_requests` | `LockedRowIsStable`, `StatusTrail`, `ReplyIsExplained`, `NoPhantomActivity`, `AssigneeAccounting`, `ImplementsLifecycle`, `DeletedIsFrozen`, `Answered` | any two requests of all seven kinds, two columns, two values, by the creator, an assignee and an outsider, and a bot that acts for the creator: what these properties forbid takes one request that overtakes another between its check and its write, or one that holds the lock the other waits for |
| `create_matter` | `SeqNosAreDense`, `RefusalsAreContention`, `CreatedWhole` | three creations, two attempts each: a creation can be overtaken twice and give up; repeated assignees, whose insert fails on the key |
| `timeline_entries` | `NoOrphanLink`, `BotsNeverLink`, `AuthorsParticipate`, `OneRowPerFile`, `OnlyAuthorsDelete`, `TypeOK` | two requests, two files, two times, two link ids: a channel linked, unlinked and linked again around each writer; an entry and a deletion of it; entries written directly with up to two files, the same one twice among them |
| `list_outputs` | `PagesAscend`, `WalkIsComplete`, `ShowsOriginal` | pages of one row, two times that a cursor can carry and one that it cannot, rows of equal time on both sides of the cursor, copies added before and after it, with no search or one that leaves out a file or its first copy.  The other lists differ in `Ascending`, `Dedup` and `Gated`, for all of which the theorems hold |
| `cache_members` | `Bounded`, `YesIsFresh`, `NoIsFounded` | two requests, two uids in both orders, a cap of one, three ticks with a TTL and a timeout of one: an entry is made, used, expires and is made again |
| `cache_sweep` | `Answered`, `ExpiredIsSwept` | one request, a server that may be silent, a sweep and a Close |
| `access` | `ShownWasPermitted`, `WrittenWasPermitted`, `ChannelsOfMembers`, `RefusedWasBarred` | two requests out of nine queries (`MCQuery`) in two worlds (`MCStart`).  In one, a user who owns the bot that created the matter sees it, lists it, reads its audit log and writes to it, being in its linked channel; in the other an assignee links a channel he is in and has a model write and extract from it; in both the bot writes for its owner, with a user's token beside its own.  One change by others (`MaxChanges`): the user's token, his membership of the channel, his assignment, the link, the owner or the home of the bot, the deletion, beside what the requests change themselves.  Three ticks with a TTL and a timeout of one, caches of one entry: an entry is made by one request, outlives the fact, and is used by the other.  Two requests are under way at once only if both read the audit log (`Overlap`), which take part in the same caches; otherwise they follow one another, with the changes in between and between the gates of each.  Lookups that overlap in a cache are the subject of `AnswerCache`; the theorems hold for any number of everything |
| `limiter` | `Spacing`, `EntryIsLatest`, `KeysAreSwept` | three calls on one key: a holder, one that swaps, one that comes after a sweep; delays up to the grace; time enough after the last call for its entry to be swept |
| `worker` | `HandlersFinishFirst`, `ExitDrains`, `ImplementsPool`, `ShutdownEnds` | four submissions, two workers, a buffer of one, tasks of the kind that reads the matter again: the queue is full while both workers are busy, and one more comes |
| `model_answers` | `PeopleAreReal`, `SourcesAreReal`, `FilesAreCited`, `DeadlinesAreNear` | two messages, citations up to three with repeats, inventions and gaps, a cap of two files, two names in every blank variant, and years of ten days: a deadline on every day of six years against the first and the last day of one |

The type invariant of `Timeline` is part of its run, for it says that entries refer to
links that exist.  Those of the other modules are not part of a run, for they are proved.
For each property of each passing run `PROJECT.json` names a mutated definition
(beside the one it replaces, marked "Mutant": a missing lock, a retry that is not
counted, a grace that is forgotten ...) under which the same run finds the property
violated.

### Disagreements between code and documentation

Two runs check what the repository says of itself and find it violated; `PROJECT.json`
quotes the sentences.

* `matter_lost_edit` (`KeepsUntouchedFields`): an edit that names one field writes all of them back as it read them, so it undoes a concurrent edit of another field.
* `timeline_cited` (`CitedFilesAreShown`): a file is stored for the first entry that cites it only, and goes with that entry although another one still cites it.

Six more are stated in the modules under the comment they contradict.  Each is violated
on a small instance; put the definition in a configuration of its module to see how.

* `CompleteAuditTrail` (`MatterService`, against `src/README.md:90`, "a complete audit trail"): the activity of a committed status change may be lost.
* `PersistedTogether` (`MatterCreate`, against `src/README.md:88`, "in one transaction"): the created record is inserted after the commit, by a statement of its own.
* `OneOfThemSucceeds` (`RateLimiter`, against `rate_limit.go:65-66`): a caller may lose its swap to the sweep, and then nobody succeeds.
* `TasksComplete` (`NotifyWorker`, against `worker.go:54`): queued tasks are drained after main has closed the database they read.
* `OutputsShowOriginal` (`Timeline`, against `timeline_attachment_repo.go:124-127`): an earlier upload that is cited later is not stored, so the forward stays on show.
* `FailuresAreNotCached` (`AnswerCache`, against `octoim/client.go:112`): a failure of the IM server's database, which comes as a 400, is kept as a no.  `NoIsFounded` speaks of failures that are reported as such.

One limit of the lists is not contradicted by any comment: with a file whose time a cursor
cannot carry, the walk may leave out rows or, when the time comes back as a later one,
repeat them.  `PagesAscend` and `WalkIsComplete` therefore reserve `Exact`; without it TLC
finds a walk in `list_outputs` that violates `WalkIsComplete`.

## 4. Fairness

Only the runs with a liveness property use it (`FairSpec`).

* `MatterService`: weak fairness of every request's own next step once it has
  arrived (Go schedules every goroutine; the database answers every statement or the
  request's context ends it; nobody holds the row lock without a step left to
  take).  `Fail` is *not* fair: errors are possible, never owed.  A request need not arrive.
* `RateLimiter`: every call goes on, the goroutine's select and sweep go on, time passes.
* `NotifyWorker`: `Leave` (what main does after a signal) and each worker's task: a task
  ends because its HTTP client has a timeout.  Handlers are not fair: one may hang in a
  model call, and the ten seconds of the server's Shutdown must do.
* `AnswerCache`: each request's own steps, time, the goroutine, a Close that has begun.  The
  IM server is not fair: it may never answer, and the timeout must do.

## 5. Proofs

TLAPS checks these for every value of the constants that satisfies the modules' named
assumptions.  Few of the properties are inductive as they stand; the proof modules
name what strengthens them.  TLC has checked each strengthened invariant on the instance of
its run (but `Access`'s, which speaks of what an idle request asks, a thing TLC cannot
evaluate).  Every safety property and every action property of the passing runs has
its theorem.

**MatterServiceProofs** (assumes `ServiceAssumption`): `TypesAreKept`, `LockProtectsRow`,
`Refinement`, `LivesAreLegal`, `DeletedForGood`.  `IInv` is `TypeOK` with: `RecorderOwes` (a request in
its recording loop has something to record), `DeciderHoldsLock` (from the locked read
to the commit the request *is* the lock's holder), `CommitIsPermitted` (the step
about to be committed is permitted from the row's present status),
`DeleteIsByCreator`, `RowMatchesHistory` (the row's status and `deleted` are those
of the last step of `history`) and `SteppedIsPast` (a request in the history is past
its write).  `LockedRowIsStable` alone is not inductive: it needs the holder's identity.
The refinement maps a committing `UpdateStatus` and a
`RepoSoftDelete` to a `Step`, everything else to a stutter; that `Step` is enabled is
`CommitIsPermitted`, `DeleteIsByCreator`, `RowMatchesHistory` and `SteppedIsPast`.
`LivesAreLegal` is what a client gains from the refinement: `LegalLife` of
`MatterLifecycle`, for the history of `MatterService`.

A second invariant on top of it, `AInv`, carries `TrailIsTrue`, `NothingIsMadeUp`,
`AnswersAreExplained` and `AssigneesAreAccounted`: an answer is the last thing of a request
(`AnswerIsLast`), so that none is given before the commit; a request that has not written yet owes and
has recorded nothing (`EarlyIsClean`); what is recorded and what is still *owed* has its
write behind it (`RecordedIsBacked`, `OwedIsBacked`), which must be known when a request is
past its transaction and before it records; a transition owes its report or has recorded
it, never both (`OneReport`); the row of a transition on its way to its answer is at the
target or somebody moved it from there (`TargetOrMoved`).  So that not every action meets every conjunct,
`StepEffect` sorts the steps into six by what they do to the tables (`Arrives`, `Moves`,
`Writes`, `Deletes`, `Commits`, `Records`), and the conjuncts are proved against these.
`AssigneeAccounting` counts requests without a bound on their number; it is meaningful since
only finitely many have written at any time (`FewWriters`).

**CreationProofs**, part 1 (`CreateAssumption`): `DenseSeqNos`, `RefusalsAreOvertakings`,
`TypesAreKept`, `MattersAreWhole`.  `CInv` adds that a computed number is at most the next one, and that every commit that
made it lag behind has been counted (`NumberIsRecent`); that a number inserted and not
yet committed *is* the next one, and in one transaction only (`PendingIsNext`); and that
a creation before its commit has no matter (`NotYet`).  Density needs this since numbers
are read long before they are committed.  No lock takes part in the argument: the
unique key and the computation from the highest number are enough.  `WInv` says what the
transaction of a creation holds at each statement (`StoredTogether`), from which a commit
makes a whole matter and a refusal nothing; and that a creation at work has an attempt
left (`AttemptLeft`).

**CreationProofs**, part 2 (`ModelAnswersAssumption`): `SourcesAreFromTheBatch`,
`PeopleAreFromTheBatch`, `FilesOfCitations`, `DeadlinesInWindow`, for batches and answers of any length.
The validators are loops over slices; `ModelAnswers` writes them as functions of the
round (`Kept`, `AddFiles`, `Collected`).  The prover cannot apply the library's induction, so
`EveryRound` derives the one that is needed from the least number principle, for sets instead
of predicates, and `LoopRuns` derives that such a function exists.  `KeptOf` and `RowsOf`
are the loop invariants: what has been kept after some rounds is what these rounds
saw.  For the nested loop of the files, `RowsOf` is stated for any set of places
(message, file) and follows the loop through `UpTo`.  At the end the first gives the
reference `IsSelection` (`DistinctSelects`), the second `FilesAreCited`
(`AttachmentsStand`).  `WindowInDays` is the arithmetic of the deadlines: years that differ by
at most the window, seen in days.  `AnswersInv` says that what is stored is what the
validators made of the answer.

**RateLimiterProofs** (`LimiterAssumption`, `ShortRequests`): `LimiterSpacing`,
`LimiterRemembers`.  `LInv` adds `InTime` (no call is older than its delay),
`SwapperIsPast` (what a swapper loaded is a cooldown behind its clock), `SweepIsLate` (a
cutoff is a cooldown and a grace in the past) and `EntryIsLatest`.  `ShortRequests` is
used once: a key that has been swept had its last accepted call so long ago that
no call still under way can be too close to it.

**NotifyWorkerProofs** (`WorkerAssumption`): `NoSendOnClosed`, `NothingLeftBehind`, by `NInv`: main
is past the server's Shutdown, or has closed anything, only when no handler is left
(`ClosedAfterHandlers`), and a goroutine returns only from a closed, empty queue
(`ReturnedIsDrained`).  Both are false if main goes on after a Shutdown that timed out.
`PInv` is `TypeOK` with `OnePlace`: a task is at one place only, in its handler's hands, once in
the queue, with one goroutine, or over.  From it follow `WorkerTypes` and `WorkerIsPool`, the
refinement of `TaskPool`: a task that is queued or with a goroutine is held, so what a queue and
the goroutines can hold bounds the pool (`TakenBound`, `QueueCounts`), a submission to a full
queue is a refusal with a buffer full of others held, taking a task from the queue is no
step of the pool, and the end of a task is its one step to over.

**TimelineProofs** (`TimelineAssumption`): `TimelineTypes`, `LinksHaveEntries`,
`LinksAreMadeByUsers`, `AuthorsAreParticipants`, `DeletionsAreTheAuthors`, `OutputsAreUnique`.  `TInv` names
what a row of `link` is: a number given out once (`Numbered`), in one place
(`Placed`), inserted by one transaction (`Exclusive`), referred to by entries of its
own channel only (`Referred`); and that stored entries are their requests' (`Authored`).
That the outputs show a file once needs that the order in which they prefer rows, by time and
then by id, is total on the rows of a file, those of one entry included, and has a first
(`OneRowIsFirst`).

**PagedListProofs** (`PagedListAssumption`): `ListTypes`, `NothingTwice`,
`NothingSkipped`, `OriginalsShown`.  `PInv` says that what was delivered is not after the
cursor (`Behind`), that a walk has a cursor between its first page and its last
(`Resumable`), and that a steady row that was not delivered is beyond it
(`Ahead`), both as long as `Exact` holds: then the cursor is the place of a row in the order
(`ExactPosition`).  `Order` shows that the comparison of the query is a strict total order on
(time, id); everything about pages of any size follows from it and `TwoLimits`.

**AnswerCacheProofs** (`AnswerCacheAssumption`): `CacheTypes`, `CacheBounded`,
`PositivesAreFresh`, `NegativesAreFounded`.  `CInv` dates every answer: a waiting call's facts
so far were denied since it began (`CallsFounded`), and each entry's answer is founded
in a truth, or in denials, no older than its expiry allows (`EntriesFounded`).  The bound
on a no grows with the position of a fact in the lookup: one timeout for each.

**AccessProofs** (`AccessAssumption`): `TypesAreKept`, `WhoIsShownWasPermitted`,
`WhoWritesWasPermitted`, `ChannelsAreOfMembers`, `WhoIsRefusedWasBarred`.  `IInv` dates everything a request
or a cache relies on: `RecentIn(h, fl, f, at, w)` says that `f` holds or has changed at
`at - w` or later.  What a call has answered is recent since the call was sent, with no
allowance; what a cache has is recent since its *expiry* less a TTL and a timeout
(`IdsFounded`, `AnswersFounded`), since an entry expires a TTL after an answer that is at
most a timeout old; what a request was granted is recent since it *began* less the same
(`Identified`, `Admitted`, `Vouched`), since it used only entries that had not expired.
`Weaker` is the arithmetic of these dates, `Moved` that they survive any change of
facts.  `Staged`, `Owned`, `Outsider`, `Loaded` and `Decided` say what must lie behind
a request at each place: where a claim is still to be asked about, that the creator is past
its gate, that the matter was live, which role was found.  The dual of `RecentIn`
(`SteadyIn`, true all the time) carries the argument that nobody is left out of a cached
identity who belongs there, which the refusals need.

### Only model-checked

* Liveness: `Answered` (both), `KeysAreSwept`, `ShutdownEnds`, `ExpiredIsSwept` are out
  of the prover's reach (they need fairness, hence `ENABLED`).
* That the six definitions of section 3 and the two runs that expect a violation are
  violated: a counterexample on one instance is all there is to show.

## 6. Not modelled

* The text of prompts, messages, summaries, rich text and translations.
* Crashes of the process.  Nothing but MySQL survives one; a crash between two
  statements leaves the tables as a `Fail` there does.  There is no request id that would
  tell the retry of a commit whose answer was lost from a new creation, so nothing is
  stated about it.
* The choice of notification targets: `dedupTargets` is a pure filter; what a task knows of the matter when it
  runs is a snapshot of another time, and the code promises nothing about it.
* What each filter of `ListMatters` selects (only that rows enter and leave the list), the channels excepted; language negotiation, request ids, configuration, migrations.
* A webhook notifier: `src/README.md` names one, the code has only the OCTO IM one.
* `RateLimiter.Close` is modelled although `main` never calls it.

## 7. Plan

The order was: what users see first (lifecycle, then numbering), the in-memory
concurrency (limiter, worker), the timeline with its long model call, the lists, the
caches, the validators, and last the gates that use the caches (`Access`).  All of these
are in place.  What is left:

1. Liveness of `Access` (every request is answered): by the same fairness as `AnswerCache`.
2. Notification targets against the matter as the task reads it again.
3. Language model clients: retries are left to their libraries, so there is little state.
