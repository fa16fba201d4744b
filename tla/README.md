# A verification project for SYCO23 SetCrawler

TLA+ modules that model the parts of the crawler whose correctness rests on the
order of steps: background jobs that several workers and a redriver may run at
once, discovery that pages through a provider under such jobs, the curation and
merging of what was imported, creator uploads, the acquisition of a provider's
audio, and private audio whose bytes and rows live in two stores. TLC checks the
modules on small instances; the TLA+ proof system checks theorems about every
one of these components for every instance.

Paths below are relative to `src/apps/api/app/` of the repository unless they
start with `supabase/` or `docs/`.

## The system

An API (FastAPI) and Celery workers share a PostgreSQL database, which is the
only durable truth; Redis carries messages; a MinIO store holds private audio.

| Component | State it keeps | Operations | Interacts through | What makes it correct |
|---|---|---|---|---|
| **Import jobs** (`routers/imports.py`, `routers/dispatching.py`, `workers/*_importer.py`, `workers/normalize_worker.py`, `workers/recovery.py`, `services/import_pipeline.py`) | `import_jobs`, rows of `sets`, messages in Redis | create, retry, publish, claim, fetch, record a failure, process, complete, redrive | rows and messages | one set per provider item; terminal rows stay; a superseded owner is fenced; failures are counted once; every job ends |
| **Audio lifecycle** (`services/audio_lifecycle.py`, `repositories/audio_lifecycle_postgres.py`, trigger in `supabase/migrations/20260808010000_...`) | `audio_assets`, `audio_asset_lifecycle_jobs`, tombstones, two buckets | hand over a decision, enqueue, claim, promote, delete, complete, record a failure | rows, objects | one verdict per asset, true of the buckets; promotion loses no bytes; quarantine ends |
| **Profile discovery** (`workers/youtube_poller.py`, `ftm_scraper.py`, `provider_discovery.py`, `profile_jobs.py`, `profile_scheduler.py`, `routers/search_profiles.py`) | parent jobs with page checkpoints, child jobs, provider cursors | queue, page, checkpoint, spawn children, finalize, schedule, delete | `import_jobs`, messages | a page is not lost when a run dies; the cursor moves only over finished work; a parent ends after its children |
| **Merge review** (`routers/merge_candidates.py`, `services/merge_scoring.py`) | merge candidates, decisions, `sets`, provider sources | suggest, approve, reject, restore | `sets` | whatever is approved and restored in whatever order, no provider item is lost or mixed up; merges are those that are decided; nothing publishes itself; no pair is left uncompared |
| **Sets and candidate review** (`routers/sets.py`, `candidates.py`, `services/enricher.py`) | `sets`, events, artists, candidates | edit, accept, reject, reverse a decision | `sets` | fields show the decisions and nothing of earlier ones; what an editor has typed is kept |
| **Rights reviews** (`routers/rights_reviews.py`, `services/rights_policy.py`) | reviews, permissions, events | create, approve, reject, expire | rows, trigger of the audio lifecycle | a permission is in force exactly while its review is approved |
| **Audio acquisition** (`services/audio_acquisition.py`, `repositories/audio.py`) | input jobs, assets | queue, claim, store, complete | buckets, reviews | a job is completed by its rightful worker, under a review that permits it then, and owns exactly one asset with the right bytes |
| **Creator upload** (`services/creator_upload_*.py`, `repositories/creator_upload*.py`) | upload sessions, manifests, parts, cleanup records | start, upload a part, abort, finalize, clean up | buckets, reviews | a session becomes at most one asset; what was uploaded in vain is cleaned up |
| **Pure algorithms** (`services/cron_schedule.py`, `heuristic.py`, `normalizer.py`, `merge_scoring.py`) | none | next run, score, fingerprint | called by the above | agree with a reference definition |
| Provider adapters, registry, authentication, observability, web front end | none that the above depend on | HTTP calls, parsing, reports | HTTP | left out |

The behaviours that are hard to test are listed with their lines under
`hazards` in `PROJECT.json`: late, lost and duplicated deliveries, leases that
expire under work, crashes between two stores, decisions that race with
executors, counters that are read in one transaction and written in another.

## Modules

| Module | What it is |
|---|---|
| `ImportJobs` | direct imports: API, broker, provider workers, process workers, redriver |
| `JobLedger` | what a reader of jobs and sets may rely on; `ImportJobs` implements it |
| `ImportJobs_proofs` | the theorems about `ImportJobs` |
| `AudioLifecycle` | rights decisions, lifecycle jobs, executor runs, two buckets |
| `AudioVault` | what private audio may count on; `AudioLifecycle` implements it |
| `AudioLifecycle_proofs` | the theorems about `AudioLifecycle` |
| `ProfileJobs` | discovery: parent jobs, page checkpoints, children, finalizer, cursor, scheduler |
| `ProfileWalk` | what discovery promises of a profile; `ProfileJobs` implements it |
| `ProfileJobs_proofs` | the theorems about `ProfileJobs` |
| `CreatorUpload` | one upload session: concurrent clients of coordinator and finalizer, part ledger, MinIO's multipart upload and object |
| `CreatorUpload_proofs` | the theorems about `CreatorUpload` |
| `MergeReview` | the import of sets with their provider items, suggestions of merges, approval, rejection, restoration, review status |
| `MergeReview_proofs` | the theorems about `MergeReview` |
| `SetReview` | curation: candidates of a set's fields, decisions on them, patches of editors. It extends `MergeReview`, adds its own variables, and implements `MergeSpec` |
| `SetReview_proofs` | the theorems about `SetReview`, the refinement among them |
| `AudioAcquisition` | rights reviews and permissions, input jobs, workers that download into quarantine |
| `AudioAcquisition_proofs` | the theorems about `AudioAcquisition` |
| `MCImportJobs`, `MCAudioLifecycle`, `MCProfileJobs`, `MCCreatorUpload`, `MCMergeReview`, `MCSetReview`, `MCAudioAcquisition` | symmetry and constant values for TLC |

`ProfileJobs` uses of a child's pipeline what `ImportJobs` shows of a job.
`MergeReview` begins where `ImportJobs` persists a set, and `SetReview` runs
beside it. `AudioAcquisition` ends with an object in quarantine, where
`AudioLifecycle` begins.

### ImportJobs

A row of `jobs` is a row of `import_jobs` of type `url_import`. `msgs` are the
messages waiting in Redis; a worker takes one (`Deliver`), walks through the
task by `pc`, and acknowledges at the end (`Finish`). Each transaction and each
publication is one action:

| Actions | Code |
|---|---|
| `ImportUrl` with `CreateJob`, `RetryJob` | `create_job`, `create_retry_job` called by `routers/imports.py` |
| `ApiPublish`, `ApiPublishFails`, `ApiTerminalize` | `dispatch_or_terminalize` |
| `StartImport`, `Reread` | `claim_or_reschedule` and the fetch of `import_soundcloud`, `import_url`, `import_ftm` |
| `Terminate`, `Dispatch`, `DispatchFails` | the three outcomes of a fetch |
| `ReadFailure`, `MarkRetry`, `MarkExhausted`, `MarkDead`, `Republish` | `_record_retry` and `self.retry` |
| `StartProcess`, `ClaimRetry` | the entry of `process_raw_payload` |
| `Lookup`, `CompleteDuplicate`, `CompleteDiscarded`, `PersistProcessedSet` with `InsertSet`, `ProcessRaises` | `process_payload` and the completing transactions |
| `Redrive`, `RedriveFails` | `redrive_import_jobs` |
| `TaskDies`, `Redeliver`, `BrokerLoss`, `ApiCrash` | faults |
| `LeaseExpires`, `RetryFallsDue` | time |

What is abstracted, and why that is sound:

* The ownership token is `started_at`; `attempt_count` is raised by the same
  statement, so `claims` stands for both. Two claims never share a timestamp.
* Times are a Boolean `elapsed` set by steps that may come at any moment. A
  countdown of a message may run out at any time too: a message is deliverable
  once it is published.
* `details.retry_count` is `failures`. `self.request.retries` never exceeds it
  and is left out of the maximum.
* An item is what a payload's identities name. That two payloads may agree in
  their fingerprint only, is the case of one item.
* The first read of a task (`get_job`) decides nothing that the claim does not
  decide again, and is merged with it. The fetch has no effect on the state;
  its outcome is chosen with the claim.
* `msgs` is a set: a second copy of a waiting message is not counted, but a
  message that is being worked on may wait again (`Redeliver`, `Republish`,
  `Redrive`).
* An exception outside the tasks' own error paths leaves the job as it is; the
  delivery is rejected without requeue (`task_acks_on_failure_or_timeout` is
  off), while a lost worker's delivery is requeued: `TaskDies` does either.
* `redrive_import_jobs` reads and publishes in one step; a publication that
  comes later is a message that waits longer.

### AudioLifecycle

`reviews`, `assets`, `jobs` are tables; `quarantine` and `originals` are the
buckets; each executor is a run of the periodic task that may overlap others.
The database and the store share no transaction, so every call of `_promote`
and `_delete` is an action (`StatPromoted`, `CopyToOriginals`, `StatDoomed`,
`RemoveFromQuarantine`, `CompleteLifecycle`), any of which may fail, take effect
and fail (`StorageFails`), or never come (`RunDies`).

* `owner` stands for `claim_token`: a run never claims one job twice while it
  executes it. `attempts` is `attempt_count`; `completed` stands for the
  tombstone too, inserted in the same transaction.
* A failed row no run holds may be forgotten (its slot is used again). A run
  has at most two jobs of one asset in hand, so `2 * |Executors| + 1` slots per
  asset never make an insert wait.
* `Requests` are the actions asked of `enqueue_lifecycle`, which nothing in the
  application calls; `{}` is the system as it is deployed. Then a job to
  approve comes only from the decision on a creator upload, whose object has no
  digest metadata (`creator_upload_storage.py:115`), so no promotion succeeds;
  the runs about promotion therefore let an operator ask for one.
* The second `claim_due` of a run uses the first one's clock, so it finds only
  rows queued since.
* A commit whose reply is lost is a commit: the error path reads the job again.

### ProfileJobs

One search profile. A row of `jobs` is a row of `import_jobs` of type
`search_profile`, and its `page` is the checkpoint in `details`; `children` are
the `url_import` rows that `import_jobs_profile_child_idx` keeps unique per
parent and payload. Identifiers are in the order of `created_at`, which decides
which parent may write the cursor (`Latest`).

| Actions | Code |
|---|---|
| `RunProfile`, `RetryParent` with `CreateRetry`, `DeleteProfile`, `ChangeSchedule` | requests: `queue_profile_with_creation`, `create_retry_job`, `delete_profile`, `update_profile` |
| `ApiPublish`, `ApiPublishFails`, `ApiTerminalize` | `dispatch_or_terminalize` |
| `ListDue`, `ScheduleQueue`, `SchedulePublish`, `MarkScheduled`, `SchedulerFails`, `FallsDue` | `schedule_due_profiles` |
| `StartRun`, `Reread` | `claim_profile_job` |
| `Load` with `AskProvider`, `Checkpoint` | `_load_profile_checkpoint`, `_load_ftm_checkpoint`, `checkpoint_profile_page` |
| `StoreDiscovery` | `complete_provider_discovery` (direct profiles) |
| `EnsureChild`, `ClaimChild`, `LookChild`, `DispatchChild`, `DispatchChildFails`, `ReadChildFailure`, `MarkChildRetry` | the loop of `_process_profile` over the payloads |
| `PublishFinalizer`, `PublishFinalizerFails` | its end |
| `ReadFailure`, `MarkRetry`, `MarkExhausted`, `MarkDead`, `Republish` | `_record_retry` of the parent |
| `ReadCursor`, `Conclude` | `finalize_profile_failure`, `finalize_profile_job` |
| `StartFinalizer`, `Collect`, `Conclude` | `finalize_youtube_profile`, `finalize_ftm_profile` |
| `RestartChild`, `ChildEnds`, `ChildFails`, `ChildElapses`, `ChildIsLost` | a child's own pipeline |
| `Redrive`, `Deliver`, `TaskDies`, `Redeliver`, `BrokerLoss`, `LeaseExpires`, `RetryFallsDue` | as in `ImportJobs` |

* `kind` is `paged` for a YouTube channel (several pages) and for an FTM crawl
  (which receives one page and never has a token: `LastPage = 0`), `direct` for
  the providers of `discover_profile`. The two paged tasks have the same
  control.
* A page token is the number of the page it leads to; no token is page 0. The
  provider's answer is taken in the step that reads the profile and the row: the
  request has no effect here, and `Checkpoint` looks at the row again.
* A page may be empty (`PageSize = 0`): `FirstItem` then goes straight to the
  finalizer. The runs have full pages; the proofs include empty ones.
* Children are described by what `ImportJobs` shows of jobs: a terminal row
  stays, a claim supersedes the earlier one, a job ends. `claimer` and `sent` are
  what the parent's task needs of that: whether the claim it made is still the
  current one.
* `Collect` reads all children at once. They are read one by one in the code,
  but a terminal child stays so, and if the last one read is terminal all were at
  that moment.
* A child's retry on request is refused by the unique index (its copy of
  `details` has the same key), so children have no such action. The counts of
  outcomes in the parent's `details` are left out, and so is the redriver's batch
  limit, which `RedriveBatchJobs` of `ImportJobs` models.
* `MaxParents` and `MaxFailures` are bounds per kind of profile: a paged one has
  more steps per parent, a direct one needs more parents (`MCProfileJobs`).
* Between the two transactions of `_record_retry` an exhausted parent can be
  claimed again (see the observations below); here such a claim counts as a
  fault, so that the number of claims is bounded.

### CreatorUpload

One session. `session` is its row with manifest and parts, `job` and `asset` the
rows of `audio_input_jobs` and `audio_assets`; `uploads` and `objects` are what
MinIO keeps. Each client is in one call of `CreatorUploadCoordinator` or
`CreatorUploadFinalizer`; `op` says which, `pc` where. Routes for these calls
are not enabled yet; any number of callers may make them in any order.

| Actions | Code |
|---|---|
| `Create`, `StartRequest`, `CreateMultipart`, `AttachManifest` | `start_upload`, `start`, `attach_manifest` |
| `PartRequest`, `PutPart`, `RecordPart` | `upload_part`, `record_part` |
| `FinalizeRequest`, `CompleteUpload`, `Verify`, `DeleteBroken` | `finalize` up to the end of the storage's `complete` |
| `Commit`, `Resolve`, `DeleteStored` | `complete_creator_upload` and what follows its failures |
| `AbortSession`, `AbortTransport` | the compensations, in the order each caller has them |
| `ReviewEnds`, `SessionElapses`, `ClientDies` | surroundings |

* The reads that open a call are merged: once a session is past `initiated` it
  has a manifest, and the ledger of a session that awaits attestation is whole
  and stays as it is.
* A part's content stands for its ETag, size and checksum; only data of the
  planned length gets past `expected_part_size`.
* `Verify` is `stat_object` and the reading of the object: a key is written
  once, so between the two the object can only disappear, which fails either.
* Nobody knows the id of a session before the call that creates it has returned
  or died (`Known`).
* The repository the finalizer is given must have the methods of
  `PostgresCreatorUploadRepository`, of its multipart and of its coordinator
  counterpart; the repository has no class that joins them yet.

### MergeReview

`status`, `mergedInto` are columns of `sets`, `links` and `primary` are
`set_provider_items`, `candidate` and `before` are `merge_candidates` and the
`before_state` of the approval in `merge_decisions`. A set is imported from one
provider item and stands for it. Each worker is in one import.

| Actions | Code |
|---|---|
| `Admit`, `Persist` | `find_duplicate`, `persist_processed_set` |
| `List`, `Compare`, `Finish`, `Abandon` | `suggest_merge_candidates`, `create_merge_candidate` |
| `Approve`, `Reject`, `Restore` | `approve_merge_candidate`, `reject_merge_candidate`, `restore_merge_candidate` |
| `SetStatus` | `update_set` with a review status, from PATCH and the publish and reject routes |

* Every transaction is one step: it locks the candidate and both sets before it
  reads what it decides on. `publish_set` reads the set in a transaction of its
  own, so its check is no guard of `SetStatus`. An import's three transactions
  are steps of their own.
* The score of a pair is left open, for editors change what it is made of, and
  so is the order in which an import compares.
* `passed` and `byHand` are history: what has been compared, and what somebody
  has published.

### SetReview

`accepted` is `field_candidates.accepted`; `linked` and `event` are `set_events`
and the columns of the event, `artists` is `set_artists`; `typed` is history,
the columns whose value an editor has typed.

| Actions | Code |
|---|---|
| `Accept`, `RejectCandidate` | `decide_candidate`, `_apply_candidate`, `_reverse_candidate` |
| `PatchText`, `PatchYear` | `update_set`, `_update_event` |
| those of `MergeReview` | as above |

* The extractor finds at most one event, date, year, venue and city in a
  description, and no artist twice. A text stands for the texts that differ from
  it in case only, as every comparison in the code ignores case.
* A date is a year and a day of the year; a year alone is its first day. A patch
  that would make 29 February of another year raises and changes nothing.
* An event belongs to one set. A row of `events` that is no longer linked stays
  in the table and is left out.
* The title of a set is left out: decisions do not read or write it.

### AudioAcquisition

`review` is `rights_reviews` with its evidence, `permission` the rows of
`audio_permissions` that are not revoked, `job` `audio_input_jobs` of the kind
`provider_acquisition`, `assets` `audio_assets`, `objects` the quarantine
bucket.

| Actions | Code |
|---|---|
| `CreateReview`; `ApproveReview`, `RejectReview`, `ExpireReview`, each a `Decide` | `create_rights_review`, `_decide_rights_review` |
| `Queue`, `Claim`, `Complete` | `queue_provider_acquisition`, `claim_audio_job`, `complete_audio_acquisition` |
| `Put`, `Check`, `Abandon` | `AuthorizedAudioAcquirer.acquire`, `MinioAudioStorage.put_stream` |

* No worker in `src/` calls these yet. The parameters of `complete` (a claimed
  job, its token, a stored object) allow one order, claim, acquire, complete,
  which is `Work`; a worker may be cut short anywhere.
* The token of a claim is the time it was made, on the clock of whoever makes
  it: `Claim` reads any time, so that clocks may run back and disagree.
* `complete` of a review says whether its evidence asserts what an approval
  needs; an object is what was meant, something else, or of the wrong length.
* A request that changes nothing (a pending review or an active job that is
  returned as it is, a denied request) is no step. That a review needs an
  unmerged set is left open: `MergeReview` merges and restores it at any time.
* `expires_at` of a review is never written, so approvals do not lapse by
  themselves. The statuses `retry`, `failed` and `dead_letter` of a job are never
  written for this kind of job, and its `attempt_count` is never read.

## Runs

Every run finishes in minutes; the bounds are chosen so that each behaviour
named can happen. `MaxFailures` bounds the failures of a job's tasks,
`MaxFaults` the crashes, losses, redeliveries and leases that expire under
work.

| Run | Bounds | Question |
|---|---|---|
| `ImportJobsRaces` | 2 jobs, 1 item, 1+2 workers, no delay, 1 failure, 1 fault | are owners fenced, terminal rows final, failures counted, outcomes true, is there one set per item, and does a reader see the ledger? Two jobs of one item race, or one retries the other; two process workers give an owner and a superseded owner at every step. |
| `ImportJobsLiveness` | 1 job, 1 delay, 2 failures, 2 faults, fair | does every job end? A failure that is delayed, one that exhausts the job, and two faults among them. |
| `AudioLifecycleOverlap` | 1 asset, 2 runs, batches of 2, 2 attempts, 3 faults | one verdict; do rows and buckets behave as an `AudioVault`; no bytes lost in promotion; stale runs are fenced from the tables. Three faults give a lost reply, a dead run and a lease that expires under work. |
| `AudioLifecycleProgress` | 1 asset, 2 runs, batches of 1, 2 attempts, 1 fault, fair | does every lifecycle job end, and does every object with its digest leave quarantine? |
| `AudioLifecycleDigest` | 1 asset | violated: an object without its digest stays for ever |
| `ProfileJobsRaces` | 2 paged parents with a failure, or 3 direct ones without; 2 workers, 2 pages of 1 payload, no delay, 1 fault | is a page skipped or reported complete too early; do parents, children and cursor behave as a `ProfileWalk`; does a failure move the cursor; are superseded runs fenced? Two active parents need a retry beside a run, and a cursor that is written back late needs the parent that failed before them. |
| `ProfileJobsEnds` | 1 parent, 1 worker, 1 page of 2 payloads, 1 delay, 1 failure, 1 fault, scheduler, fair | does every parent end? |
| `CreatorUploadRaces` | 2 clients, 2 multipart uploads, 2 parts, 2 contents of each, 2 faults | is the asset what was uploaded and declared; does a session end once; who may delete referenced bytes; what do races leave behind? Two faults give a dead client and a lost reply. (A third client with one fault adds nothing: 1.6 million states, no error.) |
| `CreatorUploadDoubleFinalize` | 2 clients, 1 part, 1 fault | violated: a failed verification deletes the object of a completed session |
| `MergeReview` | 3 sets of different providers, 2 imports, editors publish | are items lost, copied or mixed up; are merges what was decided; does anything publish itself; is a pair overlooked? Three sets give a chain of two merges, two merges into one set, and a candidate whose set was merged elsewhere since; two imports find each other. |
| `SetReview` | 2 sets, 1 import, a date, its year, a venue and an artist as candidates, two typed venues and two typed years | does a field show what was decided; is an event there exactly if it says something; is a typed value kept; do merges go on as `MergeReview` says? The date is a leap day and shares its column with the year; the typed venue may equal the extracted one. |
| `AudioAcquisition` | 1 item, 2 reviews, 2 jobs, 2 workers, 2 objects, clocks in 0..2, claims that last 1 | do permissions, reviews, jobs, assets and objects agree; who completes a job, and under which review? Three times give a claim, one that takes it over, and one too early for that. |

Clients of an upload may stop at any time, and one session comes to rest when it
has ended; acquisition ends with its ids. The runs of these two modules do not
look for deadlock.

The single fault of a run is enough for each property to be at stake: a slow
lease alone gives two owners, and a redelivery, a dead task, a lost message and
a failing broker are alternatives to it. `ImportJobsLiveness` and
`AudioLifecycleOverlap` combine several.

The violated runs state what a document of the repository says; `findings` in
`PROJECT.json` quotes it beside the line of code that differs. More
observations have no run. `_record_retry` writes the exhausted job as a due
retry in one transaction and as `dead_letter` in a second one; a delivery that
comes between them claims the job and may complete it, although
`docs/architecture.md:79` says that "a fourth failure becomes `dead_letter`".
`create_retry_job` copies the spent `retry_count`, so that the retry of a
dead-lettered job is dead-lettered by its first failure. A verified object whose
session elapses before its finalizer commits is deleted by nobody.
`docs/minio-operations.md:39` asks that the source of a
promotion be removed after its row is written; `_promote` removes it first, and
`PromotionKeepsBytes` shows that no bytes are lost in that order either. And
`README.md:211` has the finalizer derive the cursor from the children's
outcomes; a run that meets a failed child ends the parent itself and keeps the
cursor, while the finalizer that meets it moves the cursor past the page
(`finalize_profile_job` with status `failed`). Either way `NoPageIsSkipped`
holds.

Of merges and curation: `create_merge_candidate` raises when a set has been
merged since it was listed, and the import then compares its set with none of
the remaining ones. A restored set is never compared with those imported while
it was merged. `update_set` patches merged sets too, and a restoration writes
over the status an editor has given such a set; one that was in the inbox and
was decided on while merged is in the inbox again. A year typed over an accepted
date keeps the date's month and day, also when the date is rejected later. And
a typed value that equals the accepted candidate's is cleared with it.

Of acquisition and what follows it: the trigger that hands audio to the
lifecycle fires when a review changes its status, and assets of a provider are
recorded only under reviews already approved (`RecordsAgree`). So no decision
ever asks for their promotion, and they expire, although
`docs/superpowers/plans/2026-07-30-setcrawler-v0.2-to-v1.0.md:18` says that authorized
files "expire after 30 days unless approved". A completion whose permission has
ended leaves its job in `processing` for good, to be claimed again in vain, and
its object without a row; a worker that has been superseded leaves such an
object, too. Nobody deletes them. And `_delete` of the lifecycle
removes only the copy in quarantine, so that the copy a failed promotion has
made outlives the deletion of its asset (`services/audio_lifecycle.py:193`), where line 262 of
the same plan says "delete bytes".

### Fairness

`ImportJobs`: a task or handler that has begun takes its next step (a worker
process runs, and when it dies that is a fault), the redriver ticks (Celery
beat), leases and delays end (clocks), and a message is not passed over for ever
(strong fairness of its delivery: Redis queues are first in, first out, and a
free worker takes the head). No request and no fault is ever owed. Without the
bound on failures a retry could follow every dead letter for ever; liveness
speaks of one job, whose retries are bounded by the code.

`AudioLifecycle`: the beat starts runs, a run goes on, time passes. No request is
owed, and none can starve an object: with its digest in place a promotion fails
only by a fault.

`ProfileJobs`: as `ImportJobs`; a scheduler run that has begun goes on; a child
that is worked on ends and one whose message or worker was lost is redriven,
which is what `ImportJobsLiveness` shows of a job. The finalizer is delivered
again and again while it polls; strong fairness of its delivery says that it is
not passed over for ever.

`CreatorUpload`, `MergeReview`, `SetReview` and `AudioAcquisition` state no
liveness and assume no fairness: clients and administrators owe nothing, and no
schedule runs a worker of an acquisition.

## Proofs

`ImportJobs_proofs` proves, for any sets of jobs, items and workers and any
bounds, each safety and action property that the runs check: `TypeCorrect`,
`OneSet`, `TrueOutcomes`, `Finality`, `FailuresCounted`, `Fencing`, and
`Refinement`: `ImportJobs` implements `JobLedger`. The only assumptions are
those `ImportJobs` declares (jobs are positive numbers, finitely many; the pools
are disjoint; the null values are not members).

The argument. `TypeOK` alone is not enough: that the failure count written is
one more than the current one depends on the read under the claim being
current, and that an outcome is true depends on a duplicate found earlier still
existing. The invariant `IInv` therefore adds: messages, tasks and handlers name
rows that exist (`References`); what `Lookup` found is still there
(`DuplicateExists`); and the count a task has read is the row's, as long as the
task holds the claim (`SeenIsCurrent`).

Instead of proving each conjunct once per action, the proof first classifies
steps. `JobStep`: every step leaves the tables alone, changes one row in one of
a few ways (`RowChange`), or persists a set with its job. `TaskStep`: each
worker ends, rests, starts, reclaims or moves. The conjuncts, the action
properties and the refinement are then proved from these few cases.

`AudioLifecycle_proofs` proves, for any reviews, assets, runs, requests of an
operator, batch sizes and limits, `TypeCorrect`, `OneVerdictHolds`
(`OneVerdict`), `BucketsMatch` (`BucketsMatchVerdicts`), `PromotionKeeps`
(`PromotionKeepsBytes`), `StaleClaimsFenced` (`StaleClaimsAreFenced`) and
`Refinement` (`ImplementsVault`): `AudioLifecycle` implements `AudioVault`. It
assumes what `AudioLifecycle` declares of slots, null values and limits; the
slots of an asset may be any number.

The argument. The properties speak of tables and buckets, and a step of a run
writes to one of them on the strength of what it has seen of the other. `IInv`
says what each of these steps relies on. `JobAgrees`: an active job belongs to a
quarantined asset, a completed one to an asset with its verdict, and an asset
has at most one of each. `AssetAgrees`: a verdict has its completed job, and the
buckets bear it out. `RunAgrees` is the part that makes late runs harmless. The
row of a job in hand is not used again, whoever owns the job by now, so its
action stays while the run works. When the run removes the object or completes
a promotion, the original is there; when it completes any job, the object has
left quarantine. Nothing puts an object back into quarantine and nothing removes
an original, so what a run has seen stays true until its row is written.

For the refinement a step is mapped to the vault's by what it does to one asset.
A copy or a removal by a run that is late by any measure still meets an
undecided asset, or does nothing (`QuarantinedIsUndecided`): an object that is in
quarantine has not been decided on. A completion decides as the vault may, with
the quarantine clear and, for an approval, the original there, by `RunAgrees`.
Every other step leaves states and buckets alone.

`ProfileJobs_proofs` proves, for any parents, workers, pages, payloads of a page
(none included) and bounds, `TypeCorrect`, `PagesAreWorkedOff`
(`NoPageIsSkipped`), `CompletionIsEarned` (`CompleteMeansChildren`),
`CheckpointStays` (`CheckpointIsKept`), `FailuresKeepTheCursor`
(`FailureKeepsCursor`), `StaleRunsChangeNothing` (`StaleRunsAreFenced`) and
`Refinement` (`ImplementsWalk`): `ProfileJobs` implements `ProfileWalk`.

The argument. `NoPageIsSkipped` alone is not inductive: a cursor is computed from
a page that was read long before it is written. `Before(p)` says that all pages
before `p` are settled, and settled pages stay settled, because a received page
is never replaced and a terminal child never restarts. `IInv` then has `Before`
of every page number there is: the cursor (its own property), the page of each
parent, the page a task is about to check in, and the cursor a task is about to
write. `Delivers` says which claim a task holds, and that a finalizer was
published for a claim that was made. `Remembers` says what a task has read and
still relies on: under its current claim, the page it will write back with a
failure is the row's, and the cursor a failing run has read is the profile's, as
long as it is the latest parent. For that `ClaimsDiffer` is needed: no two runs
hold one claim of a parent, while a finalizer may share one with a second
delivery of itself. Steps are classified by table (`JobsStep`, `ChildrenStep`,
`ProfileStep`), and a task that does not move keeps what it relies on
(`TaskKept`).

The walk sees of a parent its state, its page and the payloads of it that ended,
and of the profile the cursor; everything else is hidden: claims, leases, retries
of a task, messages, the finalizer's polls. Two facts are needed besides
(`Walks`). A finalizer about to conclude holds the cursor behind the page of its
parent, and all children of that page have ended: so its one write of end and
cursor is the walk's `End`, though the children were read before. And a parent
without its page has no child, so what ends belongs to a page. Every step changes
one parent, one child or the profile (`NextKinds`), and is the walk's step of that
name, or none if the walk sees no difference (`StaysOpen`). A run that ends its
parent maps to `Fail`, which leaves the cursor alone, by what `Remembers` says of
the cursor it writes back. A deleted profile has no cursor for the walk: the code
may still move the one in the row, which nobody will read.

`CreatorUpload_proofs` proves, for any clients, parts, contents of a part,
multipart uploads and faults, `TypeCorrect`, `TrueAsset` (`TrueToTheLedger`),
`Ends` (`EndsOnce`), `BytesKept` (`ReferencedBytesAreKept`) and
`NothingIsLeftBehind` (`RacesSettle`). It assumes what `CreatorUpload` declares: the null values are not members, the declared content
is a content, part numbers are numbers.

The argument. Its `IInv` relates three places. The rows agree with each other
(`RowsAgree`: the job and the asset follow the status, past "initiated" there is
a multipart upload, from "awaiting_attestation" on the ledger is whole). An object
is the whole ledger of the session under its key (`ObjectsAgree`). And what a
client has read is still true where it acts on it (`TaskAgrees`): a finalizer's
handle and ledger are the session's until it has committed, what it verified is
the ledger and the declared content, and a removal decided on an earlier read
still meets an aborted session. That last part is why the properties hold for
late clients, and it rests on one fact: a session with its whole ledger keeps
handle, ledger and checksum (`SessionStays`). Steps are classified again:
`RowsStep` for the rows, `StorageStep` for the objects, `Moves` for the client.

`RacesSettle` needs an invariant of its own, `TidyInv`, on top of `IInv`. It
speaks of calm states (no call has failed, the session has not elapsed), which
are reached through calm states only (`CalmStep`), and has three phases. Before
there is a session, everybody is idle. While it is "initiated" its creator is
alone, for nobody else knows it (`Creator`), and makes the only multipart upload.
From then on (`Underway`) a call is where the code of its kind can be (`Calls`),
a client that gets past `complete` has found the upload closed, and what an end
leaves has somebody who sees to it (`Kept`): an upload that is open under an
aborted session has a client on its way to close it, an object under one has a
client that is still to verify, commit, resolve or delete. A verification that
fails in calm means wrong content, and then no session was completed; that is
where the theorem fails once calls may fail, as `CreatorUploadDoubleFinalize`
shows.

`MergeReview_proofs` proves, for any sets, providers, imports and statuses that
editors write, `Types` (`TypeOK`), `Links` (`LinksFollowMerges`), `Decided`
(`MergesAreDecided`), `Published` (`NeverAutoPublished`) and `PairsMeet`
(`NoPairIsOverlooked`); it assumes only that the null set is no set and that
statuses are statuses. `LinksFollowMerges`
has to be strengthened: that the items of a set are those of what was merged
into it does not say that restoring one of them leaves the others theirs. `IInv`
adds what does: what sets hold that are merged into the same one, or into none,
is disjoint, and a target's own item comes from no source (`Disjoint`); what an
approval has saved is disjoint from what its target had, and a saved "published"
was by hand (`SavedStates`); and all that is held, suggested, listed or compared
has been imported (`HeldAreImported`, `WorkAgrees`). `PairsMeet` rests on the
order of an import's transactions: it persists its set before it lists the
others, so of two imports the later to persist is certain to list the set of the
earlier, unless that one has been merged (`ListedOrMerged`, `NewImport`); and it
lets go of a set it has listed only by comparing it, by being cut short, which
`passed` counts as compared, or when one of the two has been merged (`HandStep`).

`SetReview_proofs` proves `CurationRefines`: every step of curation is one of
`MergeReview` (a decision that takes a set out of the inbox is a patch of its
status) or changes none of its variables, so that the invariants above hold of
curation too. And for any candidates and typed values it proves
`CurationTypes`, `FieldsFollow`, `EventsSay` and `TypedKept`. The invariant
`CInv` is `IInv` with the three invariants of curation, which need each other:
that a reversal clears the right value follows because at most one candidate of
a column is accepted, and that it unlinks the event exactly when nothing is left
because an event is linked as long as it says something. The assumptions are
those on candidates the extractor guarantees (at most one of a kind in a set).

`AudioAcquisition_proofs` proves, for any ids, clocks and time to live, `Types`,
`Records` (`RecordsAgree`) and `Rightful` (`RightfulClaims`). Its `IInv` has one
part per table row (`PermissionAgrees`, `JobAgrees`, `AssetAgrees`) and two for
what a worker holds. `ClaimAgrees`: a token is no later than the claim of its
job, and equal to it only for the last claimant, as a claim is taken over only
by a later one (`ClaimTTL` is positive; that is where it is needed).
`ObjectAgrees`: the object a worker has stored is its own, is in no asset, and
has been verified once the worker gets to completing. So a late worker can
neither pass for the claimant nor record another's object.

## What is only model-checked

Every invariant and every action property of the runs is proved. What remains
with TLC is liveness, which needs fairness and is out of the prover's reach:
`EveryJobSettles` of `ImportJobs`, `EveryJobEnds` and `QuarantineEnds` of
`AudioLifecycle`, `EveryParentEnds` of `ProfileJobs`; and the two properties
that the code violates.

## What is not modelled, and the plan

1. `ImportJobs`, `JobLedger` and proofs: done. That the redriver's batch limit
   starves no job needs two jobs in a liveness run with faults and retries,
   which has too many states.
2. `AudioLifecycle`, `AudioVault` and proofs: done.
3. `ProfileJobs`, `ProfileWalk` and proofs: done.
4. `CreatorUpload`: done but for the cleanup ledger
   (`repositories/creator_upload_cleanup.py`), which nothing enqueues or executes
   yet, and `begin_creator_upload` and `record_creator_upload_progress`, which no
   service calls. Proofs: done. Abstract specification to come: a session becomes
   one asset or nothing.
5. `MergeReview` and proofs: done.
6. `SetReview` and proofs: done.
7. `AudioAcquisition` with rights reviews and proofs: done.
8. Pure algorithms: `cron_schedule`, `merge_scoring`, `heuristic`, `normalizer`,
   against reference definitions over bounded inputs, where a definition can say
   more than the code.

Theorem worth proving next: that `CreatorUpload` implements its abstract
specification, from the inductive invariant that is there.

Left out for good: provider adapters and their parsers (their outcomes are
inputs), audio probing and transcoding (one file through external programs,
which only tests ask for), the in-memory repositories (test doubles of what is
modelled), authentication, observability, the web front end.
