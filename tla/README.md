# Models of the document intake backend

The program takes PDF and image files from members, stores them in a bucket, fingerprints
them to find duplicates, asks an engine for their titles, compares titles, and holds a
member's duplicates until an administrator approves or declines them. This directory holds
TLA+ models of that program, TLC runs that check them on small instances, and TLAPS proofs
of what matters most for instances of any size. The source has no documentation of its own;
what it promises is quoted from its comments, tests and migrations.

## 1. Inventory

| Part | State | Operations | Correct when |
|---|---|---|---|
| `documents.Repo` | rows of `documents`, `sources`, `duplicate_matches`, `title_similarities` | insert, publish a fingerprint, approve, decline, delete, set and defer titles, replace similarities | statuses, roles and match rows agree with the fingerprints in any order of events; held duplicates stay off the share page |
| `documents.Service` | maps of claimed sources (`hashing`, `titling`, `similaring`), slots (`heavy`, `titles`, `put`) | Create, AddSources, Delete, Approve, Reject; the three jobs; the recovery sweep | a row keeps its file, a file keeps its row or goes, every source is fingerprinted and compared in the end, every pending document has a reviewer who was asked |
| `worker.Pool` | bounded channel of jobs, workers, a cancelled context | Start, Submit, TrySubmit, Stop | nothing waits for ever, stopping ends every worker |
| `blob.R2`, `blob.Local` | objects in a bucket, a directory of copies, a table of counted locks | Put, Open, LocalPath, Delete, ImportDir, trimCache, PurgeAll | each call takes effect once, or fails; a copy is no staler than its object |
| `engine.Client` | two gates, a count of interactive calls | Title, TitleNow, Health | every slot comes back, interactive calls end whatever background ones do |
| `realtime.Hub` | channels of the event streams | Subscribe, Publish, ListenRedis | order per publisher, no waiting for slow streams |
| `notifications.Repo` | rows of `notifications` | NotifyAdminsOnce, NotifyUser, NotifyAdmins, MarkRead, MarkAllRead | one unread notice asks for a review |
| `postgres.Pool`, `redisx.Client` | a handle that is there or not, a failure count, `schema_migrations` | Run, watch, set, Close, migrate | a handle is replaced without breaking its users, a migration runs once |
| `auth` | users, sessions, a table of failed logins | login, logout, create, disable, enable, sweep | a disabling ends the sessions, an administrator remains, guesses are bounded |
| `fingerprint`, `titlesim` | none | hashes, distances, scores | duplicates are the files that resemble each other, scores are sound |
| `httpapi`, `cmd/api`, `config`, `memlimit`, `cmd/r2-purge` | upload slots, limits | routes, start and shutdown | they call the parts above in the order those expect |

How they interact: a handler calls the Service, which calls Repo and the store and hands
jobs to the Pool. Jobs call the same Repo and store, publish to the Hub and write notices.
Title jobs call the engine through its gates and hand comparisons to the Pool they run in.
Several processes may share one database, one bucket and one Redis; each has its own pool,
cache, gates, throttle and hub.

What is hard here: fingerprints that commit in any order; transactions of several workers on
the same rows; two stores that no transaction spans; a COMMIT whose answer is lost, so that
`retry.Do` runs a transaction that is already there; a full queue fed by its own workers; a
cache that is trimmed while its files are in use; a call that holds up to four kinds of slot
and may give up at any of them; a handle that is replaced under its users; checks of an
account that are old when they are used; channels that drop events while others fill them;
shutdown and crashes between any two of these steps.

## 2. Modules

| Module | Models | Used by |
|---|---|---|
| `Documents` | the tables and every transaction of Repo that changes documents, sources or matches, as atomic steps: the abstract specification | `DocumentsTx`, `Intake`, `Announce` |
| `DocumentsTx` | `FinalizeFingerprint` statement by statement: advisory locks, reads, row locks, computation, commit, rollback and retry, for several workers | shown to implement `Documents` |
| `Announce` | what a job does after its commit: it reads its document again and asks for a review; lost answers, failed reads, reruns | shown to implement `Documents` |
| `Fingerprint` | what a fingerprint is, bands, distances, scores, thresholds, the lock keys, and the three queries that compare it with a stored one | meets the assumptions of `Documents` and `DocumentsTx` |
| `Intake` | Create, AddSources, Approve, Reject, Delete and the fingerprint job over the tables of `Documents` and the object store, with faults, crashes, and the move from the Local driver to R2 | shown to implement `Documents` |
| `Pipeline` | the pool, the three kinds of job, uploads from their INSERT on, the sweeper, shutdown and restart of one process | |
| `Gates` | uploads, form suggestions, hash and title jobs on their way through all slots: `uploads`, `put`, `heavy`, workers, `titles`, `sem`, `fast` | |
| `Store` | what a store promises its callers: the abstract specification | `R2Cache` |
| `R2Cache` | `blob.R2`: calls step by step under the counted locks, the cache and its trimming | shown to implement `Store` |
| `TitleSimilar` | titles that arrive, comparisons query by query, the sweep that finds uncompared sources | |
| `TitleScore` | `titlesim.Align`, word by word | |
| `Hub`, `Notices` | the hub on several processes with Redis between them; on top of it, the notices | `Notices` extends `Hub` |
| `Postgres` | `postgres.Pool` in several processes with one database: connecting, migrating, watching, replacing and closing the handle | |
| `LoginGate` | the throttle of logins | |
| `Accounts` | users, sessions and the requests that are checked against them, statement by statement | |
| `MCDocuments`, `MCDocumentsTx`, `MCIntake`, `MCPipeline`, `MCTitleSimilar` | constants of small instances | TLC |
| `MCTitles` | `TitleSimilar`, `Gates`, `TitleScore`, `Fingerprint`, one of them in each behaviour | TLC |
| `MCServices` | `Notices`, `Postgres`, `LoginGate`, `Accounts`, one of them in each behaviour | TLC |
| `DocumentsProofs`, `IntakeProofs`, `R2CacheProofs`, `HubProofs` | theorems about the module of that name (`HubProofs` with the notices on top of the hub) | TLAPS |
| `DocumentsTxProofs`, `PipelineProofs`, `TitlesProofs`, `ServicesProofs` | theorems about `DocumentsTx` and `Announce`; `Pipeline` and `Gates`; `Fingerprint`, `TitleSimilar` and `TitleScore`; `Accounts`, `Notices`, `Postgres` and `LoginGate` | TLAPS |

How state and actions correspond to the code:

* `Documents`: one function per column (`status`, `notified`, `requested`, `hash`, `role`,
  `released`), the set of rows of `duplicate_matches`, and the state of each row (not yet
  inserted, there, deleted). Ids are never reused. `reviewed` is a history variable: the
  sources an administrator let through. `Finalize` is the whole transaction: roles of the
  source and of its confident matches, match rows, `released` of the source alone, then the
  status of every touched document. `Near` are the pairs the match queries return and
  `Match` those `confidentMatches` keeps; both are symmetric, neither is transitive.
* `DocumentsTx`: `tx[w]` is what worker `w` remembers between statements. Other transactions
  are atomic and enabled while nobody holds the row of their document, which is what
  `SELECT ... FOR UPDATE` on it makes of them.
* `Announce`: `todo` are the jobs between their commit and their second look. `asked` and
  `unheard` are histories: what was asked, and what a lost answer kept from being asked.
  `RejectPending` and uploads between the two are steps of `Documents`.
* `Fingerprint`: a hash is the set of its bits that are 1, so `Hamming` is the size of a
  symmetric difference and a band is an interval of bits. `fresh` is being published,
  `stored` is a row, `hit` the best result so far; scores are counted in 640ths. Digests and
  hashes are inputs; equal texts have equal hashes.
* `Pipeline`: `queue` is the channel, `hashing`, `titling` and `similaring` the three maps,
  `worker[w]` the place of a job in its code, `sweep` and `upload` those of the sweeper and
  of the requests. What the sweeper lists is any sequence that is the oldest rows in their
  order, of which there is one (`OldestOf`). Time is left out: a timer may fire at any moment.
* `Gates`: a gate is a line of calls of which the first `Slots` are inside, as Go serves who
  blocks on a channel. `at[c]` is the gate or step a call is at; `kind[c]` what it is.
  `fastLive` counts interactive calls. A context may end at every wait.
* `R2Cache`: `table`, `refs` and `holder` are `cacheLocks`, the reference counts and the
  mutexes; `thread[t]` the place of a call. A lock is allocated from a finite set of
  values and free again when nobody refers to it. Mapped to `Store`, a call has its answer
  from the step on that decides it, and an object is stored when the bucket has it.
* `TitleSimilar`: `titled` stands for a `title_norm` that is not empty, `scanned` for a
  `title_similar_at` that is set. `Near` is a directed relation on titles here, because
  `Align` is not symmetric; what is stored is both directions of a hit.
* `TitleScore`: `bHit` are the words of the second title that are taken, `next` the word of
  the first whose turn it is.
* `Intake`: `call[t]` is a request: the files still to be stored and those stored. A commit
  with a lost answer is a step that changes the rows and lets the call fail; the second
  attempt of the transaction is taken to follow at once. `read[s]` is a hash job between
  `LocalPath` and its commit: `path` while it waits for a heavy slot, `gone` when the copy was
  trimmed meanwhile (`Trim`), `file` or `missing` after the open (`Analyze`). `driver` is the
  driver of the process; `Move` is a restart with R2 after Local, `local` what StorageDir then
  holds and `Import` one file of `ImportDir`. A move back to Local is not modelled. Histories:
  `lost` (sources inserted by a commit with a lost answer), `trimmed`, and `orphans` (objects
  that a fault or the import left behind).
* `Hub`: the three selects of `sendLatest` are three actions of a sender. An event is told
  apart by its publisher and its number. Redis keeps the order and may lose or repeat.
* `Notices`: `lock` is `pg_advisory_xact_lock`, `unread` counts the unread review notices.
* `Postgres`: `run[p]` is `Run` of process `p`: the script it is at, the pool it is
  connecting, the pings that failed. `key[p]` is the row of `schema_migrations` it has
  inserted and not committed, which others that insert the same wait for.
* `LoginGate`: times are ages, so that nothing counts up for ever; a request that has read
  the clock waits for the mutex at most `Wait`. The slice of a key is a function from the
  numbers of its failures to their ages, because only the count of those in the window
  matters. `wrong` is a history of the wrong passwords, under the numbers they have in `fails`.
* `Accounts`: `request[c]` is a request between two statements: logged in but without a
  session, its session found but its user not checked again, in the handler, about to delete
  sessions. `late` is a history: an actor was disabled while its own disabling of another was
  under way. `doomed` is another: the sessions a disabling has to end.

Operators commented "Fault" are variants of the definition below them, with a plausible
mistake in it; no specification uses them. They are there to see that a property fails
when the code is wrong.

## 3. Runs

| Run | Instance | Shows |
|---|---|---|
| `documents` | 5 sources in 3 documents, matches 5-2-4-3 and 1-2; 4 of them with announcements, 1 lost answer or failed read | statuses, roles and match rows exact; held duplicates hidden; only a review shares them; a review is final; every pending document was announced |
| `documents_share` | same | finding 1 |
| `documents_tx` | 2 workers, 3 sources, 3 lock keys | nothing missed, nothing stale, implements `Documents`, every transaction ends |
| `pipeline` | 2 workers, queue of 1, 1 source, shutdown | exact claims on every path; stopping ends every worker |
| `pipeline_no_engine` | 1 worker, 2 sources, a failed job, a crash | every upload is answered, every source is fingerprinted |
| `pipeline_stall` | 1 worker, 2 sources, one with a printed title, engine | finding 2 |
| `r2cache` | 2 goroutines, 2 keys, cache of 1 file | locks exclude, table exact, calls return, implements `Store` |
| `r2cache_missing` | same, without imports | finding 3 |
| `titles` | 3 sources, 1 worker; 5 calls through 7 gates; titles of 3 words; 3 texts, 4 images | pairs sound and complete, every settled source compared; slots exact, interactive calls end; scores sound; duplicates exactly those that resemble each other, under a common lock |
| `title_similar_lost` | 3 sources, 2 workers | finding 4 |
| `intake` | 2 calls at a time, 3 sources, 2 documents, either driver, 1 fault or move to R2 | rows keep their files, no files without rows, missing only for the causes named |
| `services` | 2 processes, 2 publishers, 1 stream with room for 1 event, 3 events; 2 migrations, 1 outage; 2 logins at once; 3 users, 2 administrators, 2 sessions, 2 requests | order, latest event, no waiting, one unread notice; migrations once, handles open, a process gets ready; guesses bounded, table sweepable; an administrator remains, a disabling ends the sessions for good |

`titles` and `services` hold parts that share no variable, and each behaviour runs one of
them (`part`): what holds in the run holds for each part alone, and fairness is that of the
part that runs.

Why these bounds are enough to be interesting. `documents` needs three documents (two of
members, one of an administrator) and matches that do not compose, 5-2-4-3 and 1-2, for roles
that depend on roles of roles; three sources in one document (1, 2 and 4) let it be reviewed
twice, with a duplicate let through in between, and 5 elsewhere is compared with 2 while 2 is
held as a duplicate of 1. Behaviours with announcements leave out the upload of 3 (`Later`),
which no announcement depends on. `documents_tx` has a source that
shares keys with two others that share none, so that two transactions meet only at row locks.
`pipeline` runs with a queue of one because each of its waits is for a full queue or an empty
one; the code's 512 places make the states rarer, not different. `r2cache` needs a second key
to make the trim run and a second lock to see an entry deleted and made anew. `titles` has two
sources in one document, because a comparison waits for siblings, and one in another; one call
of each kind and a fifth that is another form or another title job, so that every gate has
somebody waiting; two workers, so that one may wait for the engine while another works; three
words of which one is spelt like both others, the least for a greedy choice to miss one; hashes
with bits at both ends of bands, and page counts around 0 and 8, where the rules change.
`intake` has two documents with one ERP number, two matching sources in one of them so that a
review declines part of a document, and one fault or the move to R2, anywhere; the theorems have
any number of them. `services` has a buffer of one so that three events fill it twice; two publishers on two processes are the
least for overlapping senders, and two processes for a contested migration; the pools of one
process are two, one used and one about to be closed; one key is enough for the throttle, as
keys do not interact but for the sweep. There are two sessions because a request keeps its token
until its answer: with them two administrators are in handlers at once and disable each other
(`late` becomes true), or one enables whom another is disabling. The process
without a stream does not listen to Redis in `services` (`Listener`): nobody would see what it hears.

Every bound is a constant or an explicit function (`MaxSources`, `MaxLosses`, `MaxFailures`,
`MaxRestarts`, `MaxFaults`, `MaxEvents`, `MaxOutages`, `MaxWords`, `Pools`, `Batch`, `Capacity`,
`Buffer`, `MaxCache`, `Attempts`, `Window`, `Wait`). Ids are finite sets that
are used up, so the models stop when nothing is left to upload or delete; deadlock is not
checked for that reason, and waiting for ever is what the liveness properties are for.

The type invariants of `Documents`, `DocumentsTx`, `Intake`, `R2Cache` and `TitleSimilar` are
parts of inductive invariants that are proved, so the runs leave them out.

Fairness, and what justifies it:

* `DocumentsTx`: strong fairness of each transaction's next step. PostgreSQL grants locks in
  the order of the requests, and statements have a timeout. Nothing makes a job start.
* `Pipeline`: weak fairness of workers, requests, sweeper and shutdown (the Go scheduler runs
  whoever can run, timers fire), strong fairness of a worker's exit after the stop, because
  `select` chooses among ready branches at random. No job is assumed to succeed.
* `R2Cache`: weak fairness of steps inside a call (contexts have deadlines) and strong
  fairness of taking a mutex (Go's mutex hands over to waiters that starve).
* `TitleSimilar`: weak fairness of queries, strong fairness of the swept comparison of a
  source getting a worker. That is an assumption on the queue: in `pipeline_stall` it fails.
* `Gates`: weak fairness of the steps of uploads, hash jobs and forms. Title jobs need not go
  on and no timer need fire: `ForegroundEnds` is the claim that neither matters for a form to
  end and for an upload to store its files. An upload then keeps its `uploads` slot until
  `Create` or `AddSources` returns (`UploadStored`), for which no fairness is assumed: those
  calls may wait for the queue, which is finding 2.
* `Notices`: weak fairness of the statements of a sender; nothing of streams or Redis.
* `Postgres`: weak fairness of `Run` and of the goroutines that close old pools. `GetsReady`
  asks only for what happens when the database stays.

## 4. Findings

1. `documents_share`: a member's duplicate can reach the share page without a review. The
   later upload is fingerprinted first, is unique and `released`; when the earlier one is
   fingerprinted the later becomes a duplicate, but only the source being fingerprinted gets
   its `released` column computed (`repo_fingerprint.go:210`).
2. `pipeline_stall`: title jobs submit comparisons to their own pool and wait, and so does an
   upload whose title the form has printed, inside its request (`service.go:697`, 733). When the
   queue is full and all workers do that, nobody takes a job: that upload never ends, against "A
   saturated pool must never stall an upload" (`service.go:668`), and fingerprinting stops,
   against "so a slow engine can never stall duplicate detection" (`service.go:63-65`). The run
   assumes that a waiting sender gets room if there is room again and again (`SendersInTurn`).
3. `r2cache_missing`: a copy found by `LocalPath` may be trimmed before it is opened, and the
   job then publishes the placeholder of a missing file for an object that exists (`r2.go:524`).
4. `title_similar_lost`: a comparison that listed its candidates early deletes a pair that another
   has stored since (`repo_title_similar.go:237`).

`FilesBacked` and `NoOrphans` of `Intake` hold with exceptions that are themselves part of
the statement: a COMMIT whose answer was lost makes an upload delete the files of rows that
stay, or a deletion forget files; so do a put that failed after the object was written and a
deletion of an object that failed. `ImportDir` puts a deleted file again, because the copy in
StorageDir stays. `MissingExplained` names the causes of a placeholder hash; two of them, a
trimmed copy (finding 3) and a file still to be imported, concern files that exist.
`AskedForReview` holds but for announcements that failed: after a lost answer the next attempt
finds the hash and announces nothing.

What a reader of the code may want to know besides, none of it against a claim of the
repository: two administrators can disable each other at once (`late` in `AdminRemains`); a
login that overlaps its account's being disabled may insert its session after the DELETE: it is
of no use until the account is enabled, and valid then (`DisablingEndsSessions` is about all
other sessions); the throttle allows `MaxFails - 1` wrong passwords and as many more as
requests run at once; the event stream reads its user once, when it opens; `EnsureAdmin` tries
once, when the handle is there.

## 5. Proofs

TLAPS checks every theorem in the `*Proofs` modules, for any sets of documents, sources,
workers, goroutines, calls, keys, processes, streams, users, words and hashes.

* `DocumentsProofs`. `IInv` is inductive: types, consistency of the columns of one row,
  exact statuses, sound roles, exact match table, bookkeeping. None of these is inductive
  alone: a status is exact because roles changed only in touched documents, a role keeps its
  justification because match rows and hashes stay, `HeldHidden` follows from exact statuses.
  `OnlyReviewShares` and `ReviewIsFinal` are action properties proved from it. Assumptions:
  the relations are symmetric, ranks are distinct.
* `DocumentsTxProofs`. Two transactions whose sources match share a lock key
  (`KeysAssumption`: equal digests or a common LSH band), so what one found stays complete
  until it commits (`FoundComplete`); rows it computes from are under its row locks, so what
  it computed stays current (`ComputedIsCurrent`); hence its commit is a `Finalize` of
  `Documents` and every other step stutters (`Refinement`). Locks exclude (`LocksExclude`).
  Announcements: `ASpec => Spec`, so all of `DocumentsProofs` holds beside announcements. The
  lemma behind `AskedForReview` is that a source is withheld only as a duplicate
  (`WithheldIsDuplicate`): the commit of a fingerprint withholds no source but its own, and every
  other transaction releases or keeps. So a document becomes pending only in the commit of one
  of its own sources, and that job is the one that asks.
* `TitlesProofs`, fingerprints: it discharges what these two assume of the fingerprints
  (`PrintsFulfilAssumptions`). Two hashes that differ in one bit agree on a band, or two bits
  would differ (`NearShareBand`), so the buckets lose nothing; then each query is a symmetric
  relation, and what it joins takes a common lock. `PrintInv` says what the best hit is after
  each query, and `ResemblanceCorrect` follows by cases of the query that gave it.
  Titles: pairs are sound for any number of workers, and complete for one.
  Scores: the pairs Align made so far are a pairing, and when a word keeps no partner, all it
  resembles is taken (`AlignInv`). So each pair of any other pairing shares a word with one of
  Align's, on one side or the other, and there are at most twice as many (`NoLargerPairing`).
* `IntakeProofs`. `IntakeInv` says of each call which files it may still insert or delete, that
  no two calls share a file to be inserted, and that what a job read stays true. From it
  `FilesBacked`, `NoOrphans` and `MissingExplained` follow, and `ISpec => Spec`: every theorem
  of `DocumentsProofs` holds under any interleaving of the calls. What a job read stays true
  because nothing leaves `lost`, `trimmed` or `local` (`ReadsRight`).
* `R2CacheProofs`. The count of an entry is the number of calls that use its path, hence an
  entry that others wait for is never deleted, hence one path has one mutex; under it the copy
  is no staler than the object, so each call is one step of `Store` (`StoreRefinement`).
* `PipelineProofs`, the pool. `MarksExact` counts jobs, and a count says too little of where
  they are: `ClaimInv` says that a marked source has its job in exactly one place (a worker; for
  titles and comparisons also the queue, the sweeper or an upload about to submit it) and that
  an unmarked one has none. It needs to know that a request under way has its row (`RowsFirst`)
  and that the sweeper has what it is about to submit (`SubmitsFirst`). Every action then moves
  a job from one place to another, ends it with its mark, or makes both; a restart drops both.
* `PipelineProofs`, the gates. `GatesInv` adds to `GatesExact` where each kind of call can be
  (`OnRoute`) and that a title job which asks the engine is among the first `Slots` of the line
  of `titles` (`AsksWithSlot`), which leaving calls preserve because who stays only moves forward
  (`WithoutIs`). `OneWaitForTitles` follows by counting: whoever is in the line of `sem` is
  inside `titles`, which has as many slots.
* `HubProofs`. That channels are in order is not inductive: what arrives later must fit. `HubInv`
  adds that the event of a sender fits behind every channel it has still to serve (`Follows`),
  that the wire of Redis is in order and what it will deliver fits as well, and that the place
  a sender made by dropping is still there or was taken by another publisher (`MadeRoom`),
  which is `LatestKept` one step before. Overlapping senders of one publisher do not exist: a
  thread publishes its next event after the last, and a process has one listener.
* `ServicesProofs`. `AccountsInv`: who a request is for exists, and one that disables is an
  administrator's and about somebody else; so the last administrator can only be disabled by
  one that was disabled meanwhile (`AdminAlwaysRemains`). `doomed` are the sessions a disabling
  has to end; a token leaves it when it is given out again or when a DELETE failed, and each
  that is still a session has a request under way that will delete it (`DisabledSessionsEnd`).
  Under the advisory lock a sender that
  is about to insert has seen no unread notice and nobody else inserts (`OneNoticeAsks`). A
  process has seen every script before the one it is at, and the key of its uncommitted row is
  its own and the next one (`MigrationsAppliedOnce`). A pool is in one place at a time: being
  connected, the handle, or about to be closed (`HandleStaysOpen`). Logins: `GuessesBounded` is
  not inductive, because `Allow` looks at `fails` and not at `wrong`. `Remembered` says that each
  wrong password that counts is in `fails`, with the age it has, recent enough for the next
  `Allow` to see it, whatever older clocks other requests bring; the sweep drops none of them
  because `lastSeen` is behind no hit by more than the wait (`TableSweepable`).

What these proofs rest on: TLAPS with its SMT, Zenon and LS4 backends, the library's theorems
on finite sets, sequences and well-founded orders (that a set of numbers has a least element
gives the `Min` and `Max` of `TitlesProofs`), and the assumptions on constants that each module
names. `IsFiniteSet(Request)` in `LoginGate` is there for the proofs: goroutines are finite.

Only model-checked: everything about liveness (`FinalizeEnds`, `StopEnds`, `EveryUploadServed`,
`CallsReturn`, `ComparedInTheEnd`, `PublishEnds`, `ForegroundEnds`, `GetsReady`), which under
fairness is beyond the prover. Every safety property that a run checks and that holds is also
a theorem.

## 6. Not modelled, and what is left

Next would come, in this order:

1. Statement-level `RejectPending` and `ReplaceSimilar` with their retries (`deleted` keeps what
   an attempt that was rolled back has found), a second title of a source.
2. `R2Cache`: readers that remove a copy of the wrong size (`service.go:426`), temporary files
   after a crash; a composition of `R2Cache` with `Intake`, which has the trim as one step.
3. `Pipeline`: batches smaller than the rows that always fail; a panic that keeps a heavy slot
   (`service.go:1120`).
4. The limit of hits that are kept (`maxSimilarKept`), `NextERPNumber`, `Normalize`.

Part of a component is left out where it says so in `PROJECT.json`: lists and counts, notes,
audiences of notices, retries inside clients, `PurgeAll`.

Left out for good: `blob.Local` (a file is written under another name and renamed; `Intake` and
`Store` say what callers rely on), HTML, cookies, passwords, parsing of forms and PDFs, pixels,
`SimHash64` and the perceptual hash (bit by bit arithmetic of one input, without state),
`levenshtein` on characters, the S3, Redis and HTTP clients, configuration, memory limits, the
purge command: they hold no state that these properties are about.
