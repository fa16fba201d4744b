--------------------------- MODULE AudioLifecycle ---------------------------
(***************************************************************************)
(* Private audio from quarantine to its verdict: the rights reviews and    *)
(* the trigger that hands a decision to lifecycle jobs, the tables         *)
(* audio_assets and audio_asset_lifecycle_jobs, the periodic executor that *)
(* claims jobs and promotes or deletes objects, and the two buckets it     *)
(* works on.                                                               *)
(*                                                                         *)
(* Every database transaction and every storage call is one step; the      *)
(* database and the object store share no transaction.  Clocks are         *)
(* abstract: a claim grows stale, a retry falls due and an asset's         *)
(* retention ends by a step of their own.                                  *)
(*                                                                         *)
(* A definition introduced as a mutant is a plausible mistake in the one   *)
(* that follows it; nothing uses it but the experiment that shows that a   *)
(* property would notice.                                                  *)
(***************************************************************************)
EXTENDS Naturals, FiniteSets

CONSTANTS
    Reviews,      \* rights reviews
    Assets,       \* rows of audio_assets; an asset has one object key, which
                  \* promotion keeps, so the asset stands for its object too
    Slots,        \* numbers of the lifecycle jobs kept in mind per asset
    Executors,    \* runs of the periodic task that may overlap
    NoReview, NoJob, NoOwner,
    MaxAttempts,  \* audio_lifecycle_max_attempts, 5 by default
    BatchSize,    \* audio_lifecycle_batch_size, 25 by default
    Requests,     \* actions an operator may ask of enqueue_lifecycle
    MaxFaults     \* bound: failed calls, dead runs, claims outlived by work

Actions == {"approve", "reject", "expire"}
JobIds == Assets \X Slots

ASSUME SlotsAssumption == Slots \subseteq Nat /\ IsFiniteSet(Slots)
ASSUME NullsAssumption ==
    NoReview \notin Reviews /\ NoJob \notin JobIds /\ NoOwner \notin Executors
ASSUME LimitsAssumption ==
    /\ MaxAttempts \in Nat \ {0}
    /\ BatchSize \in Nat \ {0}
    /\ Requests \subseteq Actions
    /\ MaxFaults \in Nat

ReviewStatus == {"pending", "approved", "rejected", "expired"}

(***************************************************************************)
(* due: expires_at is set and has passed.  digest: the object carries its  *)
(* SHA-256 as metadata, which stat compares with the row's checksum.  An   *)
(* asset leaves the quarantine bucket in the row only when approved.       *)
(***************************************************************************)
AssetRow == [state  : {"absent", "quarantine", "approved", "rejected", "expired"},
             review : Reviews \cup {NoReview},
             digest : BOOLEAN,
             due    : BOOLEAN]
NoAsset == [state |-> "absent", review |-> NoReview, digest |-> FALSE, due |-> FALSE]

(***************************************************************************)
(* owner stands for claim_token: the run that made the claim.  elapsed:    *)
(* claim_started_at is older than the claim timeout, or next_retry_at has  *)
(* passed.  A completed row also stands for its tombstone, inserted by the *)
(* same statement block.  A failed row nobody holds may be forgotten.      *)
(***************************************************************************)
ActiveStatus == {"queued", "claimed", "retry"}

JobRow == [action   : Actions,
           status   : {"absent", "completed", "failed"} \cup ActiveStatus,
           attempts : Nat,
           elapsed  : BOOLEAN,
           owner    : Executors \cup {NoOwner}]

\* (Mutant of NewJob: the initial status is that of a review.)
NewJobPending(action) == [action |-> action, status |-> "pending", attempts |-> 0,
                          elapsed |-> FALSE, owner |-> NoOwner]

NewJob(action) == [action |-> action, status |-> "queued", attempts |-> 0,
                   elapsed |-> FALSE, owner |-> NoOwner]

PC == {"idle", "enqueue", "claimMore", "next", "promote", "copy", "discard",
       "remove", "complete", "error", "record"}

VARIABLES
    reviews,     \* rights_reviews.status
    assets,      \* audio_assets
    jobs,        \* audio_asset_lifecycle_jobs
    quarantine,  \* objects of the bucket audio-quarantine
    originals,   \* objects of the bucket audio-originals
    pc,          \* next step of a run
    batch,       \* claimed jobs the run has not come to yet
    cur,         \* job the run executes
    faults       \* faults so far

vars == <<reviews, assets, jobs, quarantine, originals, pc, batch, cur, faults>>
tables == <<reviews, assets, jobs>>
storage == <<quarantine, originals>>
local == <<pc, batch, cur>>

TypeOK ==
    /\ reviews \in [Reviews -> ReviewStatus]
    /\ assets \in [Assets -> AssetRow]
    /\ jobs \in [JobIds -> JobRow]
    /\ quarantine \subseteq Assets
    /\ originals \subseteq Assets
    /\ pc \in [Executors -> PC]
    /\ batch \in [Executors -> SUBSET JobIds]
    /\ cur \in [Executors -> JobIds \cup {NoJob}]
    /\ faults \in Nat
    /\ \A e \in Executors :
          pc[e] \notin {"idle", "enqueue", "claimMore", "next"} => cur[e] # NoJob

Init ==
    /\ reviews = [r \in Reviews |-> "pending"]
    /\ assets = [a \in Assets |-> NoAsset]
    /\ jobs = [n \in JobIds |-> [NewJob("expire") EXCEPT !.status = "absent"]]
    /\ quarantine = {}
    /\ originals = {}
    /\ pc = [e \in Executors |-> "idle"]
    /\ batch = [e \in Executors |-> {}]
    /\ cur = [e \in Executors |-> NoJob]
    /\ faults = 0

Fault == faults < MaxFaults /\ faults' = faults + 1

-----------------------------------------------------------------------------
(* The job table. *)

AssetOf(n) == n[1]

\* The unique partial index allows one active job per asset.
ActiveJobs(a) == {n \in JobIds : AssetOf(n) = a /\ jobs[n].status \in ActiveStatus}

\* Some run still works on the job, or has it ahead.
Held(n) == \E e \in Executors : n \in batch[e] \cup {cur[e]}

FreeJobs(a) ==
    {n \in JobIds : /\ AssetOf(n) = a
                    /\ \/ jobs[n].status = "absent"
                       \/ jobs[n].status = "failed" /\ ~Held(n)}

\* One queued job for each asset of S.
Insert(S, action) ==
    /\ \A a \in S : FreeJobs(a) # {}
    /\ jobs' = [n \in JobIds |->
                   IF /\ AssetOf(n) \in S
                      /\ n \in FreeJobs(AssetOf(n))
                      /\ \A m \in FreeJobs(AssetOf(n)) : n[2] <= m[2]
                   THEN NewJob(action) ELSE jobs[n]]

-----------------------------------------------------------------------------
(* Where assets come from and who decides on them. *)

\* complete_creator_upload, under a review that is not closed (its objects
\* never carry the digest), and complete_audio_acquisition, under an approved
\* one (they do when the provider declared it).  The bytes are stored first.
StoreAsset(a, r, digest) ==
    /\ assets[a].state = "absent"
    /\ \/ reviews[r] = "approved"
       \/ reviews[r] = "pending" /\ ~digest
    /\ assets' = [assets EXCEPT ![a] = [NoAsset EXCEPT !.state = "quarantine",
                                                       !.review = r,
                                                       !.digest = digest]]
    /\ quarantine' = quarantine \cup {a}
    /\ UNCHANGED <<reviews, jobs, originals, local, faults>>

Quarantined(r) == {a \in Assets : assets[a].review = r /\ assets[a].state = "quarantine"}

\* _decide_rights_review with the trigger enqueue_rights_lifecycle_handoff in
\* its transaction: an active job of any of the assets violates the unique
\* index and undoes the decision.  Expiry of a review hands off nothing.
DecideReview(r, status) ==
    /\ \/ reviews[r] = "pending" /\ status \in {"approved", "rejected", "expired"}
       \/ reviews[r] = "approved" /\ status = "expired"
    /\ reviews' = [reviews EXCEPT ![r] = status]
    /\ IF status = "expired"
       THEN UNCHANGED jobs
       ELSE /\ \A a \in Quarantined(r) : ActiveJobs(a) = {}
            /\ Insert(Quarantined(r),
                      IF status = "approved" THEN "approve" ELSE "reject")
    /\ UNCHANGED <<assets, storage, local, faults>>

MayEnqueue(a, action) ==
    /\ assets[a].state = "quarantine"
    /\ action = "expire" => assets[a].due

\* enqueue_lifecycle; an active job is returned, or refuses another action.
EnqueueLifecycle(a, action) ==
    /\ MayEnqueue(a, action)
    /\ ActiveJobs(a) = {}
    /\ Insert({a}, action)
    /\ UNCHANGED <<reviews, assets, storage, local, faults>>

-----------------------------------------------------------------------------
(* Passage of time. *)

AssetFallsDue(a) ==
    /\ assets[a].state = "quarantine" /\ ~assets[a].due
    /\ assets' = [assets EXCEPT ![a].due = TRUE]
    /\ UNCHANGED <<reviews, jobs, storage, local, faults>>

RetryFallsDue(n) ==
    /\ jobs[n].status = "retry" /\ ~jobs[n].elapsed
    /\ jobs' = [jobs EXCEPT ![n].elapsed = TRUE]
    /\ UNCHANGED <<reviews, assets, storage, local, faults>>

\* A batch is claimed at once and worked off one by one; that the claim
\* timeout outlasts the work is the normal case, the contrary a fault.
ClaimGrowsStale(n) ==
    /\ jobs[n].status = "claimed" /\ ~jobs[n].elapsed
    /\ jobs' = [jobs EXCEPT ![n].elapsed = TRUE]
    /\ IF \E e \in Executors : jobs[n].owner = e /\ n \in batch[e] \cup {cur[e]}
       THEN Fault ELSE UNCHANGED faults
    /\ UNCHANGED <<reviews, assets, storage, local>>

-----------------------------------------------------------------------------
(* run_once: claim, enqueue what has expired, claim again. *)

Goto(e, label) == pc' = [pc EXCEPT ![e] = label]

Waiting(n) == jobs[n].status \in {"claimed", "retry"} /\ jobs[n].elapsed

\* (Mutant of Exhausted: the limit is exceeded by one attempt.)
ExhaustedLate(n) == Waiting(n) /\ jobs[n].attempts > MaxAttempts

Exhausted(n) == Waiting(n) /\ jobs[n].attempts >= MaxAttempts

\* (Mutant of Due: a claim is never taken over.)
DueUnclaimed(n) ==
    /\ \/ jobs[n].status = "queued"
       \/ jobs[n].status = "retry" /\ jobs[n].elapsed
    /\ jobs[n].attempts < MaxAttempts

Due(n) ==
    /\ jobs[n].status = "queued" \/ Waiting(n)
    /\ jobs[n].attempts < MaxAttempts

AtMost(limit, S) == IF Cardinality(S) < limit THEN Cardinality(S) ELSE limit

\* claim_due, in one transaction: the exhausted jobs fail, then up to limit of
\* the due ones are claimed.
ClaimDue(e, exhausted, due, limit) ==
    \E S \in SUBSET due :
        /\ Cardinality(S) = AtMost(limit, due)
        /\ jobs' = [n \in JobIds |->
              CASE n \in S ->
                     [jobs[n] EXCEPT !.status = "claimed", !.owner = e,
                                     !.attempts = @ + 1, !.elapsed = FALSE]
                [] n \in exhausted ->
                     [jobs[n] EXCEPT !.status = "failed", !.owner = NoOwner,
                                     !.elapsed = FALSE]
                [] OTHER -> jobs[n]]
        /\ batch' = [batch EXCEPT ![e] = @ \cup S]

\* The beat starts a run.
StartRun(e) ==
    /\ pc[e] = "idle"
    /\ ClaimDue(e, {n \in JobIds : Exhausted(n)}, {n \in JobIds : Due(n)}, BatchSize)
    /\ Goto(e, IF Cardinality(batch'[e]) < BatchSize THEN "enqueue" ELSE "next")
    /\ UNCHANGED <<reviews, assets, storage, cur, faults>>

Room(e) == BatchSize - Cardinality(batch[e])

EnqueueExpiredAssets(e) ==
    LET expired == {a \in Assets : /\ assets[a].state = "quarantine"
                                   /\ assets[a].due
                                   /\ ActiveJobs(a) = {}} IN
    /\ pc[e] = "enqueue"
    /\ \E S \in SUBSET expired :
          Cardinality(S) = AtMost(Room(e), expired) /\ Insert(S, "expire")
    /\ Goto(e, "claimMore")
    /\ UNCHANGED <<reviews, assets, storage, batch, cur, faults>>

\* The second call is made with the clock of the first, which left nothing
\* due behind: only rows queued since can be.
ClaimMore(e) ==
    /\ pc[e] = "claimMore"
    /\ ClaimDue(e, {}, {n \in JobIds : jobs[n].status = "queued"}, Room(e))
    /\ Goto(e, "next")
    /\ UNCHANGED <<reviews, assets, storage, cur, faults>>

\* The run ends; what it had claimed and not finished stays claimed.
End(e) ==
    /\ Goto(e, "idle")
    /\ batch' = [batch EXCEPT ![e] = {}]
    /\ cur' = [cur EXCEPT ![e] = NoJob]

\* The run goes on with the rest of its batch.
Resume(e) == Goto(e, "next") /\ cur' = [cur EXCEPT ![e] = NoJob]

\* The worker is lost, or a query outside the executor's error path raises.
RunDies(e) ==
    /\ pc[e] # "idle"
    /\ Fault
    /\ End(e)
    /\ UNCHANGED <<tables, storage>>

-----------------------------------------------------------------------------
(* _execute, _promote and _delete for one job. *)

CurAsset(e) == AssetOf(cur[e])

\* The object, when it is found, is what the row says.
Valid(a) == assets[a].digest

\* The copy of an object, which is read back and compared with the row; a
\* source that is missing or not valid has been refused.
CopyTo(a) == a \in quarantine /\ Valid(a) /\ originals' = originals \cup {a}

\* The next job of the batch, and a fresh read of its asset.
NextJob(e) ==
    /\ pc[e] = "next"
    /\ \/ batch[e] = {} /\ End(e)
       \/ \E n \in batch[e] :
             /\ batch' = [batch EXCEPT ![e] = @ \ {n}]
             /\ cur' = [cur EXCEPT ![e] = n]
             /\ Goto(e, IF assets[AssetOf(n)].state # "quarantine" THEN "error"
                        ELSE IF jobs[n].action = "approve" THEN "promote"
                        ELSE "discard")
    /\ UNCHANGED <<tables, storage, faults>>

\* A call that raises may have taken effect all the same.
StorageFails(e) ==
    LET a == CurAsset(e) IN
    /\ pc[e] \in {"promote", "copy", "discard", "remove", "complete"}
    /\ Fault
    /\ \/ UNCHANGED storage
       \/ pc[e] = "copy" /\ CopyTo(a) /\ UNCHANGED quarantine
       \/ /\ pc[e] = "remove"
          /\ quarantine' = quarantine \ {a}
          /\ UNCHANGED originals
    /\ Goto(e, "error")
    /\ UNCHANGED <<tables, batch, cur>>

\* (Mutant of StatPromoted: the object is looked for in its current bucket.)
StatPromotedAnywhere(e) ==
    /\ pc[e] = "promote"
    /\ Goto(e, IF CurAsset(e) \notin originals \cup quarantine THEN "copy"
               ELSE IF Valid(CurAsset(e)) THEN "remove" ELSE "error")
    /\ UNCHANGED <<tables, storage, batch, cur, faults>>

\* An object that is promoted already is not copied again.
StatPromoted(e) ==
    /\ pc[e] = "promote"
    /\ Goto(e, IF CurAsset(e) \notin originals THEN "copy"
               ELSE IF Valid(CurAsset(e)) THEN "remove" ELSE "error")
    /\ UNCHANGED <<tables, storage, batch, cur, faults>>

\* (Mutant of CopyToOriginals: a missing source goes unnoticed.)
CopyUnverified(e) ==
    LET a == CurAsset(e) IN
    /\ pc[e] = "copy"
    /\ originals' = originals \cup ({a} \cap quarantine)
    /\ Goto(e, "remove")
    /\ UNCHANGED <<tables, quarantine, batch, cur, faults>>

\* The source must be there and match the row; so must the copy.
CopyToOriginals(e) ==
    LET a == CurAsset(e) IN
    /\ pc[e] = "copy"
    /\ \/ CopyTo(a) /\ Goto(e, "remove")
       \/ ~(a \in quarantine /\ Valid(a)) /\ Goto(e, "error") /\ UNCHANGED originals
    /\ UNCHANGED <<tables, quarantine, batch, cur, faults>>

\* An object that is gone already is as good as deleted.
StatDoomed(e) ==
    LET a == CurAsset(e) IN
    /\ pc[e] = "discard"
    /\ Goto(e, IF a \in quarantine /\ ~Valid(a) THEN "error" ELSE "remove")
    /\ UNCHANGED <<tables, storage, batch, cur, faults>>

RemoveFromQuarantine(e) ==
    /\ pc[e] = "remove"
    /\ quarantine' = quarantine \ {CurAsset(e)}
    /\ Goto(e, "complete")
    /\ UNCHANGED <<tables, originals, batch, cur, faults>>

Verdict == [approve |-> "approved", reject |-> "rejected", expire |-> "expired"]

\* (Mutant of OwnsJob: the token is not compared.)
SomebodyOwnsJob(e, n) == jobs[n].status = "claimed"

\* The claim token and the status claimed, which complete_lifecycle and
\* record_failure ask for.
OwnsJob(e, n) == jobs[n].status = "claimed" /\ jobs[n].owner = e

\* (Mutant of CompleteLifecycle: whoever comes completes the job.)
CompleteUnowned(e) ==
    LET n == cur[e] IN
    /\ pc[e] = "complete"
    /\ IF assets[AssetOf(n)].state = "quarantine"
       THEN /\ jobs' = [jobs EXCEPT ![n] = [@ EXCEPT !.status = "completed",
                                                     !.owner = NoOwner,
                                                     !.elapsed = FALSE]]
            /\ assets' = [assets EXCEPT ![AssetOf(n)] =
                              [@ EXCEPT !.state = Verdict[jobs[n].action],
                                        !.due = FALSE]]
            /\ Resume(e)
       ELSE Goto(e, "error") /\ UNCHANGED <<jobs, assets, cur>>
    /\ UNCHANGED <<reviews, storage, batch, faults>>

\* complete_lifecycle: the row of the asset, the tombstone and the job, in one
\* transaction.  A reply lost after the commit ends the same way: the error
\* path finds the job completed and goes on.
CompleteLifecycle(e) ==
    LET n == cur[e] IN
    /\ pc[e] = "complete"
    /\ IF OwnsJob(e, n) /\ assets[AssetOf(n)].state = "quarantine"
       THEN /\ jobs' = [jobs EXCEPT ![n] = [@ EXCEPT !.status = "completed",
                                                     !.owner = NoOwner,
                                                     !.elapsed = FALSE]]
            /\ assets' = [assets EXCEPT ![AssetOf(n)] =
                              [@ EXCEPT !.state = Verdict[jobs[n].action],
                                        !.due = FALSE]]
            /\ Resume(e)
       ELSE Goto(e, "error") /\ UNCHANGED <<jobs, assets, cur>>
    /\ UNCHANGED <<reviews, storage, batch, faults>>

\* The error path reads the job again: completed by somebody is fine.
HandleError(e) ==
    /\ pc[e] = "error"
    /\ IF jobs[cur[e]].status = "completed"
       THEN Resume(e) ELSE Goto(e, "record") /\ UNCHANGED cur
    /\ UNCHANGED <<tables, storage, batch, faults>>

\* record_failure.  A claim lost in the meantime raises a conflict that
\* nothing catches: the run ends with the rest of its batch claimed.
RecordFailure(e) ==
    LET n == cur[e] IN
    /\ pc[e] = "record"
    /\ IF OwnsJob(e, n)
       THEN /\ jobs' = [jobs EXCEPT ![n] =
                  [@ EXCEPT !.status = IF jobs[n].attempts >= MaxAttempts
                                       THEN "failed" ELSE "retry",
                            !.owner = NoOwner, !.elapsed = FALSE]]
            /\ Resume(e)
            /\ UNCHANGED batch
       ELSE End(e) /\ UNCHANGED jobs
    /\ UNCHANGED <<reviews, assets, storage, faults>>

-----------------------------------------------------------------------------
Step(e) ==
    \/ EnqueueExpiredAssets(e) \/ ClaimMore(e) \/ NextJob(e)
    \/ StatPromoted(e) \/ CopyToOriginals(e) \/ StatDoomed(e)
    \/ RemoveFromQuarantine(e) \/ CompleteLifecycle(e)
    \/ HandleError(e) \/ RecordFailure(e)

Next ==
    \/ \E a \in Assets, r \in Reviews, digest \in BOOLEAN : StoreAsset(a, r, digest)
    \/ \E r \in Reviews, status \in ReviewStatus : DecideReview(r, status)
    \/ \E a \in Assets, action \in Requests : EnqueueLifecycle(a, action)
    \/ \E a \in Assets : AssetFallsDue(a)
    \/ \E n \in JobIds : RetryFallsDue(n) \/ ClaimGrowsStale(n)
    \/ \E e \in Executors : StartRun(e) \/ Step(e) \/ StorageFails(e) \/ RunDies(e)

Spec == Init /\ [][Next]_vars

\* The beat keeps starting runs, a run that has begun goes on, time passes.
\* No decision, no upload, no request and no fault is owed.
Fairness ==
    /\ \A e \in Executors : WF_vars(StartRun(e)) /\ WF_vars(Step(e))
    /\ \A a \in Assets : WF_vars(AssetFallsDue(a))
    /\ \A n \in JobIds : WF_vars(RetryFallsDue(n))
                         /\ WF_vars(ClaimGrowsStale(n) /\ UNCHANGED faults)

FairSpec == Spec /\ Fairness

-----------------------------------------------------------------------------
(* The rows of the assets and the two buckets, as an AudioVault. *)

Vault == INSTANCE AudioVault WITH state <- [a \in Assets |-> assets[a].state]

-----------------------------------------------------------------------------
(* Properties. *)

Completed(a) == {n \in JobIds : AssetOf(n) = a /\ jobs[n].status = "completed"}

\* Every asset has at most one verdict, the one its only tombstone tells of,
\* and at most one job at a time works towards it (complete_lifecycle and
\* audio_asset_lifecycle_one_active_idx), whatever runs overlapped.
OneVerdict ==
    \A a \in Assets :
        /\ Cardinality(Completed(a)) = IF assets[a].state \in {"absent", "quarantine"}
                                       THEN 0 ELSE 1
        /\ \A n \in Completed(a) : assets[a].state = Verdict[jobs[n].action]
        /\ Cardinality(ActiveJobs(a)) <= 1
        /\ ActiveJobs(a) # {} => assets[a].state = "quarantine"

\* The row of a decided asset is true of the buckets: an approved object is
\* in audio-originals and nowhere else, a rejected or expired one is no longer
\* in audio-quarantine (_promote, _delete, then complete_lifecycle), although
\* the copy, the removal and the row are written by separate calls, by runs
\* that die between them or work on under a lost claim.
BucketsMatchVerdicts ==
    \A a \in Assets :
        /\ assets[a].state = "approved" => a \in originals \ quarantine
        /\ assets[a].state \in {"rejected", "expired"} => a \notin quarantine

\* Jobs, claims, overlapping runs, lost calls and retries are invisible:
\* whoever looks at audio_assets and the two buckets sees every asset decided
\* at most once, an approval only over an original that is there, and neither
\* row nor bytes change after a decision, by however late a run (_promote,
\* _delete and complete_lifecycle, which write them by separate calls).
\* BucketsMatchVerdicts follows from it.
ImplementsVault == Vault!Spec

\* The last copy of an object goes only by a run that executes a rejection or
\* an expiry: no promotion loses bytes, whatever part of it failed, was
\* repeated or was done by another run (_promote stats, copies, validates and
\* only then deletes).
PromotionKeepsBytes ==
    [][\A a \in quarantine \cup originals :
          a \notin quarantine' \cup originals' =>
             \E e \in Executors : /\ cur[e] # NoJob
                                  /\ AssetOf(cur[e]) = a
                                  /\ jobs[cur[e]].action # "approve"]_vars

\* A run that lost its claim can change no row of any table any more, at
\* whichever call it was when it lost it (complete_lifecycle, record_failure).
StaleClaimsAreFenced ==
    [][\A e \in Executors :
          (/\ cur[e] # NoJob /\ pc'[e] # pc[e]
           /\ jobs[cur[e]].status # "claimed" \/ jobs[cur[e]].owner # e)
          => UNCHANGED tables]_vars

\* Every job ends, completed or failed: claims of dead runs are taken over
\* and attempts are bounded.
EveryJobEnds ==
    \A n \in JobIds : jobs[n].status \in ActiveStatus
                         ~> jobs[n].status \in {"completed", "failed"}

\* Quarantine is temporary: promoted or deleted, every object with its digest
\* leaves it (enqueue_expired_assets makes up for jobs that failed).
QuarantineEnds ==
    \A a \in Assets : assets[a].state = "quarantine" /\ assets[a].digest
                          ~> assets[a].state # "quarantine"

\* docs/superpowers/plans, v0.2 to v1.0: "Authorized files enter private
\* quarantine immediately and expire after 30 days unless approved."  An
\* object without its digest, as every creator upload, can never be deleted.
EveryQuarantineEnds ==
    \A a \in Assets : assets[a].state = "quarantine" ~> assets[a].state # "quarantine"
=============================================================================
