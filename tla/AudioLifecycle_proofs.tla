------------------------ MODULE AudioLifecycle_proofs ------------------------
(***************************************************************************)
(* Safety of the lifecycle, for any reviews, assets, executors and limits. *)
(***************************************************************************)
EXTENDS AudioLifecycle, FiniteSetTheorems, TLAPS

-----------------------------------------------------------------------------
(* The inductive invariant. *)

\* What a job says of its asset; no other job of the asset is completed or
\* active at the same time.
JobAgrees(n) ==
    /\ jobs[n].status # "absent" => assets[AssetOf(n)].state # "absent"
    /\ jobs[n].status \in ActiveStatus => assets[AssetOf(n)].state = "quarantine"
    /\ jobs[n].status = "completed" =>
          assets[AssetOf(n)].state = Verdict[jobs[n].action]
    /\ \A m \in JobIds \ {n} : AssetOf(m) = AssetOf(n) =>
          /\ jobs[m].status = "completed" => jobs[n].status # "completed"
          /\ jobs[m].status \in ActiveStatus => jobs[n].status \notin ActiveStatus

AssetAgrees(a) ==
    /\ assets[a].state \notin {"absent", "quarantine"} =>
          \E n \in JobIds : AssetOf(n) = a /\ jobs[n].status = "completed"
    /\ assets[a].state = "approved" => a \in originals \ quarantine
    /\ assets[a].state \in {"rejected", "expired"} => a \notin quarantine

Works == PC \ {"idle", "enqueue", "claimMore", "next"}

\* The row of a job a run holds is not used for another job, whoever owns the
\* job now; and a run never gets further with it than the buckets are.
RunAgrees(e) ==
    /\ \A n \in JobIds : n \in batch[e] \cup {cur[e]} =>
                            jobs[n].status \notin {"absent", "queued"}
    /\ pc[e] \in Works <=> cur[e] # NoJob
    /\ pc[e] \in {"promote", "copy"} => jobs[cur[e]].action = "approve"
    /\ pc[e] = "discard" => jobs[cur[e]].action # "approve"
    /\ pc[e] \in {"remove", "complete"} /\ jobs[cur[e]].action = "approve" =>
          AssetOf(cur[e]) \in originals
    /\ pc[e] = "complete" => AssetOf(cur[e]) \notin quarantine

IInv ==
    /\ TypeOK
    /\ \A n \in JobIds : JobAgrees(n)
    /\ \A a \in Assets : AssetAgrees(a)
    /\ \A e \in Executors : RunAgrees(e)

LEMMA AssetOfType == ASSUME NEW n \in JobIds PROVE AssetOf(n) \in Assets
  BY DEF JobIds, AssetOf

LEMMA CurType ==
  ASSUME TypeOK, NEW e \in Executors, pc[e] \in Works
  PROVE  cur[e] \in JobIds /\ CurAsset(e) \in Assets /\ CurAsset(e) = AssetOf(cur[e])
  <1>1. cur[e] \in JobIds
    BY DEF TypeOK, Works, PC
  <1> QED BY <1>1, AssetOfType DEF CurAsset

LEMMA InitIInv == ASSUME Init PROVE IInv
  <1> DEFINE row == [NewJob("expire") EXCEPT !.status = "absent"]
  <1>1. row \in JobRow /\ row.status = "absent"
    BY DEF NewJob, JobRow, Actions
  <1>2. NoAsset \in AssetRow /\ NoAsset.state = "absent"
    BY DEF NoAsset, AssetRow
  <1>3. /\ jobs = [n \in JobIds |-> row] /\ assets = [a \in Assets |-> NoAsset]
        /\ reviews = [r \in Reviews |-> "pending"]
        /\ quarantine = {} /\ originals = {} /\ faults = 0
        /\ pc = [e \in Executors |-> "idle"] /\ batch = [e \in Executors |-> {}]
        /\ cur = [e \in Executors |-> NoJob]
    BY DEF Init
  <1> HIDE DEF row
  <1>4. TypeOK
    BY <1>1, <1>2, <1>3 DEF TypeOK, ReviewStatus, PC
  <1>5. \A n \in JobIds : JobAgrees(n)
    BY <1>1, <1>3 DEF JobAgrees, ActiveStatus
  <1>6. \A a \in Assets : AssetAgrees(a)
    BY <1>2, <1>3 DEF AssetAgrees
  <1>7. \A e \in Executors : RunAgrees(e)
    BY <1>3, NullsAssumption DEF RunAgrees, Works, PC
  <1> QED BY <1>4, <1>5, <1>6, <1>7 DEF IInv

-----------------------------------------------------------------------------
(* The job table. *)

\* The row of n is reused for a new job.
Born(n, S, action) ==
    AssetOf(n) \in S /\ n \in FreeJobs(AssetOf(n)) /\ jobs'[n] = NewJob(action)

\* The job goes on, at most to another status of an active job or to failed.
Moved(n) ==
    /\ jobs'[n].action = jobs[n].action
    /\ \/ jobs'[n].status = jobs[n].status
       \/ /\ jobs[n].status \in ActiveStatus
          /\ jobs'[n].status \in {"claimed", "retry", "failed"}

LEMMA NewJobType ==
  ASSUME NEW action \in Actions
  PROVE  NewJob(action) \in JobRow /\ NewJob(action).status = "queued"
  BY DEF NewJob, JobRow, ActiveStatus

\* The lowest free slot of an asset is one.
LEMMA LowestIsOne ==
  ASSUME NEW m \in JobIds, NEW n \in JobIds, AssetOf(m) = AssetOf(n),
         m[2] <= n[2], n[2] <= m[2]
  PROVE  m = n
  <1>1. PICK a \in Assets, i \in Slots : m = <<a, i>>
    BY DEF JobIds
  <1>2. PICK b \in Assets, j \in Slots : n = <<b, j>>
    BY DEF JobIds
  <1>3. a = b
    BY <1>1, <1>2 DEF AssetOf
  <1>4. i \in Nat /\ j \in Nat /\ i <= j /\ j <= i
    BY <1>1, <1>2, SlotsAssumption
  <1>5. i = j
    BY <1>4
  <1> QED BY <1>1, <1>2, <1>3, <1>5

LEMMA InsertEffect ==
  ASSUME TypeOK, NEW S, NEW action \in Actions, Insert(S, action)
  PROVE  /\ jobs' \in [JobIds -> JobRow]
         /\ \A n \in JobIds : jobs'[n] = jobs[n] \/ Born(n, S, action)
         /\ \A m, n \in JobIds :
               Born(m, S, action) /\ Born(n, S, action) /\ AssetOf(m) = AssetOf(n) => m = n
  <1> DEFINE Lowest(n) == /\ AssetOf(n) \in S /\ n \in FreeJobs(AssetOf(n))
                          /\ \A m \in FreeJobs(AssetOf(n)) : n[2] <= m[2]
  <1>1. jobs' = [n \in JobIds |-> IF Lowest(n) THEN NewJob(action) ELSE jobs[n]]
    BY DEF Insert
  <1>2. \A n \in JobIds : Lowest(n) => AssetOf(n) \in S /\ n \in FreeJobs(AssetOf(n))
    OBVIOUS
  <1>3. \A m, n \in JobIds : Lowest(m) /\ Lowest(n) /\ AssetOf(m) = AssetOf(n) => m = n
    BY LowestIsOne
  <1>4. \A n \in JobIds : n \in FreeJobs(AssetOf(n)) => jobs[n].status \in {"absent", "failed"}
    BY DEF FreeJobs
  <1> HIDE DEF Lowest
  <1>5. jobs' \in [JobIds -> JobRow]
    BY <1>1, NewJobType DEF TypeOK
  <1>6. \A n \in JobIds : jobs'[n] = jobs[n] \/ Born(n, S, action)
    BY <1>1, <1>2 DEF Born
  <1>7. \A n \in JobIds : Born(n, S, action) => Lowest(n)
    BY <1>1, <1>4, NewJobType DEF Born
  <1>8. \A m, n \in JobIds :
           Born(m, S, action) /\ Born(n, S, action) /\ AssetOf(m) = AssetOf(n) => m = n
    BY <1>3, <1>7
  <1> QED BY <1>5, <1>6, <1>8

\* The row of a job that e claims, and of one that is given up.
LEMMA ClaimedRow ==
  ASSUME NEW row \in JobRow, NEW e \in Executors
  PROVE  LET new == [row EXCEPT !.status = "claimed", !.owner = e,
                                !.attempts = @ + 1, !.elapsed = FALSE]
         IN  new \in JobRow /\ new.status = "claimed" /\ new.action = row.action
  <1>1. PICK new : new = [row EXCEPT !.status = "claimed", !.owner = e,
                                     !.attempts = @ + 1, !.elapsed = FALSE]
    OBVIOUS
  <1>2. "claimed" \in ActiveStatus
    BY DEF ActiveStatus
  <1>3. new = [action |-> row.action, status |-> "claimed", attempts |-> row.attempts + 1,
               elapsed |-> FALSE, owner |-> e]
    BY <1>1 DEF JobRow
  <1>4. row.action \in Actions /\ row.attempts + 1 \in Nat
    BY DEF JobRow
  <1>5. new \in JobRow /\ new.status = "claimed" /\ new.action = row.action
    BY <1>2, <1>3, <1>4 DEF JobRow
  <1> QED BY <1>1, <1>5

LEMMA GivenUpRow ==
  ASSUME NEW row \in JobRow
  PROVE  LET new == [row EXCEPT !.status = "failed", !.owner = NoOwner,
                                !.elapsed = FALSE]
         IN  new \in JobRow /\ new.status = "failed" /\ new.action = row.action
  BY DEF JobRow

\* A claim, and the jobs that fail with it.
LEMMA ClaimEffect ==
  ASSUME TypeOK, NEW e \in Executors, NEW limit,
         NEW exhausted \in SUBSET JobIds, NEW due \in SUBSET JobIds,
         exhausted \cap due = {},
         \A n \in exhausted \cup due : jobs[n].status \in ActiveStatus,
         ClaimDue(e, exhausted, due, limit)
  PROVE  /\ jobs' \in [JobIds -> JobRow]
         /\ \A n \in JobIds : Moved(n)
         /\ batch' \in [Executors -> SUBSET JobIds]
         /\ \A d \in Executors \ {e} : batch'[d] = batch[d]
         /\ \A n \in batch'[e] : n \in batch[e] \/ jobs'[n].status = "claimed"
  <1>1. PICK S \in SUBSET due :
          /\ jobs' = [n \in JobIds |->
              CASE n \in S ->
                     [jobs[n] EXCEPT !.status = "claimed", !.owner = e,
                                     !.attempts = @ + 1, !.elapsed = FALSE]
                [] n \in exhausted ->
                     [jobs[n] EXCEPT !.status = "failed", !.owner = NoOwner,
                                     !.elapsed = FALSE]
                [] OTHER -> jobs[n]]
          /\ batch' = [batch EXCEPT ![e] = @ \cup S]
    BY DEF ClaimDue
  <1> DEFINE claimed(n) == [jobs[n] EXCEPT !.status = "claimed", !.owner = e,
                                           !.attempts = @ + 1, !.elapsed = FALSE]
             failed(n) == [jobs[n] EXCEPT !.status = "failed", !.owner = NoOwner,
                                          !.elapsed = FALSE]
  <1>2. ASSUME NEW n \in JobIds
        PROVE  /\ claimed(n) \in JobRow /\ claimed(n).status = "claimed"
               /\ claimed(n).action = jobs[n].action
               /\ failed(n) \in JobRow /\ failed(n).status = "failed"
               /\ failed(n).action = jobs[n].action
    <2>1. jobs[n] \in JobRow
      BY DEF TypeOK
    <2> QED BY <2>1, ClaimedRow, GivenUpRow
  <1>3. /\ jobs' = [n \in JobIds |-> CASE n \in S -> claimed(n)
                                       [] n \in exhausted -> failed(n)
                                       [] OTHER -> jobs[n]]
        /\ batch' = [batch EXCEPT ![e] = batch[e] \cup S]
    BY <1>1
  <1> HIDE DEF claimed, failed
  <1>4. \A n \in JobIds : \/ n \in S /\ jobs'[n] = claimed(n)
                          \/ n \in exhausted /\ jobs'[n] = failed(n)
                          \/ jobs'[n] = jobs[n]
    BY <1>3
  <1>5. jobs' \in [JobIds -> JobRow]
    BY <1>2, <1>3 DEF TypeOK
  <1>6. \A n \in JobIds : Moved(n)
    BY <1>2, <1>4 DEF Moved
  <1>7. batch' \in [Executors -> SUBSET JobIds] /\ batch'[e] = batch[e] \cup S
    BY <1>3 DEF TypeOK
  <1>8. \A n \in S : n \in JobIds /\ jobs'[n].status = "claimed"
    <2>1. S \subseteq JobIds
      OBVIOUS
    <2>2. \A n \in S : jobs'[n] = claimed(n)
      BY <1>3, <2>1
    <2> QED BY <1>2, <2>1, <2>2
  <1>9. \A d \in Executors \ {e} : batch'[d] = batch[d]
    BY <1>3 DEF TypeOK
  <1>10. \A n \in batch'[e] : n \in batch[e] \/ jobs'[n].status = "claimed"
    BY <1>7, <1>8
  <1> QED BY <1>5, <1>6, <1>7, <1>9, <1>10

-----------------------------------------------------------------------------
(* What a step does to the tables: three kinds of steps. *)

\* Jobs move on; assets at most come to be.
Quiet ==
    /\ jobs' \in [JobIds -> JobRow] /\ assets' \in [Assets -> AssetRow]
    /\ \A n \in JobIds : Moved(n)
    /\ \A a \in Assets : \/ assets'[a].state = assets[a].state
                         \/ assets[a].state = "absent" /\ assets'[a].state = "quarantine"

\* New jobs for assets in quarantine that have none.
Enqueued ==
    /\ assets' = assets
    /\ \E S \in SUBSET Assets, action \in Actions :
          /\ \A a \in S : assets[a].state = "quarantine" /\ ActiveJobs(a) = {}
          /\ Insert(S, action)

\* A claimed job is completed, and with it its asset decided.
Completes(n) ==
    /\ jobs[n].status = "claimed" /\ assets[AssetOf(n)].state = "quarantine"
    /\ jobs' = [jobs EXCEPT ![n] = [@ EXCEPT !.status = "completed", !.owner = NoOwner,
                                             !.elapsed = FALSE]]
    /\ assets' = [assets EXCEPT ![AssetOf(n)] =
                      [@ EXCEPT !.state = Verdict[jobs[n].action], !.due = FALSE]]

TableStep ==
    \/ Quiet
    \/ Enqueued
    \/ \E e \in Executors : pc[e] = "complete" /\ Completes(cur[e])

LEMMA SameTablesAreQuiet ==
  ASSUME TypeOK, jobs' = jobs, assets' = assets
  PROVE  Quiet
  BY DEF Quiet, TypeOK, Moved

\* One job moves on.
LEMMA OneJobMoves ==
  ASSUME TypeOK, NEW n \in JobIds, NEW row \in JobRow, jobs' = [jobs EXCEPT ![n] = row],
         assets' = assets, row.action = jobs[n].action,
         \/ row.status = jobs[n].status
         \/ jobs[n].status \in ActiveStatus /\ row.status \in {"claimed", "retry", "failed"}
  PROVE  Quiet
  <1>1. jobs' \in [JobIds -> JobRow] /\ assets' \in [Assets -> AssetRow]
    BY DEF TypeOK
  <1>2. jobs'[n] = row /\ \A m \in JobIds \ {n} : jobs'[m] = jobs[m]
    BY DEF TypeOK
  <1>3. \A m \in JobIds : Moved(m)
    BY <1>2 DEF Moved
  <1> QED BY <1>1, <1>3 DEF Quiet

LEMMA StoreAssetTables ==
  ASSUME TypeOK, NEW a \in Assets, NEW r \in Reviews, NEW digest \in BOOLEAN,
         StoreAsset(a, r, digest)
  PROVE  Quiet
  <1> DEFINE row == [NoAsset EXCEPT !.state = "quarantine", !.review = r, !.digest = digest]
  <1>1. row \in AssetRow /\ row.state = "quarantine"
    BY DEF NoAsset, AssetRow
  <1>2. assets[a].state = "absent" /\ jobs' = jobs /\ assets' = [assets EXCEPT ![a] = row]
    BY DEF StoreAsset
  <1> HIDE DEF row
  <1>3. assets' \in [Assets -> AssetRow] /\ assets'[a] = row
        /\ \A b \in Assets \ {a} : assets'[b] = assets[b]
    BY <1>1, <1>2 DEF TypeOK
  <1>4. \A n \in JobIds : Moved(n)
    BY <1>2 DEF Moved
  <1> QED BY <1>1, <1>2, <1>3, <1>4 DEF Quiet, TypeOK

LEMMA DueTables ==
  ASSUME TypeOK, NEW a \in Assets, AssetFallsDue(a)
  PROVE  Quiet
  <1>1. assets' = [assets EXCEPT ![a].due = TRUE] /\ jobs' = jobs
    BY DEF AssetFallsDue
  <1>2. assets' \in [Assets -> AssetRow]
        /\ \A b \in Assets : assets'[b].state = assets[b].state
    BY <1>1 DEF TypeOK, AssetRow
  <1>3. \A n \in JobIds : Moved(n)
    BY <1>1 DEF Moved
  <1> QED BY <1>1, <1>2, <1>3 DEF Quiet, TypeOK

LEMMA ElapsedTables ==
  ASSUME TypeOK, NEW n \in JobIds, RetryFallsDue(n) \/ ClaimGrowsStale(n)
  PROVE  Quiet
  <1> DEFINE row == [jobs[n] EXCEPT !.elapsed = TRUE]
  <1>1. row \in JobRow /\ row.action = jobs[n].action /\ row.status = jobs[n].status
    BY DEF TypeOK, JobRow
  <1>2. jobs' = [jobs EXCEPT ![n] = row] /\ assets' = assets
    BY DEF RetryFallsDue, ClaimGrowsStale
  <1> HIDE DEF row
  <1> QED BY <1>1, <1>2, OneJobMoves

LEMMA RecordFailureTables ==
  ASSUME TypeOK, NEW e \in Executors, RecordFailure(e)
  PROVE  Quiet
  <1>1. cur[e] \in JobIds
    BY CurType DEF RecordFailure, Works, PC
  <1>2. assets' = assets
    BY DEF RecordFailure
  <1>3. CASE OwnsJob(e, cur[e])
    <2> DEFINE next == IF jobs[cur[e]].attempts >= MaxAttempts THEN "failed" ELSE "retry"
               row == [jobs[cur[e]] EXCEPT !.status = next, !.owner = NoOwner, !.elapsed = FALSE]
    <2>1. jobs' = [jobs EXCEPT ![cur[e]] = row] /\ jobs[cur[e]].status = "claimed"
      BY <1>3 DEF RecordFailure, OwnsJob
    <2>2. next \in {"failed", "retry"}
      OBVIOUS
    <2> HIDE DEF next
    <2>3. row \in JobRow /\ row.status = next /\ row.action = jobs[cur[e]].action
      <3>1. PICK old \in JobRow : old = jobs[cur[e]]
        BY <1>1 DEF TypeOK
      <3>2. PICK new : new = [old EXCEPT !.status = next, !.owner = NoOwner, !.elapsed = FALSE]
        OBVIOUS
      <3>3. new \in JobRow /\ new.status = next /\ new.action = old.action
        BY <2>2, <3>2 DEF JobRow, ActiveStatus
      <3> QED BY <3>1, <3>2, <3>3
    <2> HIDE DEF row
    <2> QED BY <1>1, <1>2, <2>1, <2>2, <2>3, OneJobMoves DEF ActiveStatus
  <1>4. CASE ~OwnsJob(e, cur[e])
    BY <1>2, <1>4, SameTablesAreQuiet DEF RecordFailure
  <1> QED BY <1>3, <1>4

\* The two claims of a run.
LEMMA StartRunEffect ==
  ASSUME TypeOK, NEW e \in Executors, StartRun(e) \/ ClaimMore(e)
  PROVE  /\ jobs' \in [JobIds -> JobRow] /\ \A n \in JobIds : Moved(n)
         /\ batch' \in [Executors -> SUBSET JobIds]
         /\ \A d \in Executors \ {e} : batch'[d] = batch[d]
         /\ \A n \in batch'[e] : n \in batch[e] \/ jobs'[n].status = "claimed"
  <1>1. CASE StartRun(e)
    <2> DEFINE X == {n \in JobIds : Exhausted(n)}
               D == {n \in JobIds : Due(n)}
    <2>1. ClaimDue(e, X, D, BatchSize)
      BY <1>1 DEF StartRun
    <2>2. X \in SUBSET JobIds /\ D \in SUBSET JobIds
      OBVIOUS
    <2>3. \A n \in JobIds : Exhausted(n) \/ Due(n) => jobs[n].status \in ActiveStatus
      BY DEF Exhausted, Due, Waiting, ActiveStatus
    <2>4. \A n \in JobIds : ~(Exhausted(n) /\ Due(n))
      <3>1. \A n \in JobIds : jobs[n].attempts \in Nat
        BY DEF TypeOK, JobRow
      <3> QED BY <3>1, LimitsAssumption DEF Exhausted, Due
    <2>5. X \cap D = {} /\ \A n \in X \cup D : jobs[n].status \in ActiveStatus
      BY <2>3, <2>4
    <2> HIDE DEF X, D
    <2> QED BY <2>1, <2>2, <2>5, ClaimEffect
  <1>2. CASE ClaimMore(e)
    <2> DEFINE D == {n \in JobIds : jobs[n].status = "queued"}
    <2>1. ClaimDue(e, {}, D, Room(e))
      BY <1>2 DEF ClaimMore
    <2>2. {} \in SUBSET JobIds /\ D \in SUBSET JobIds /\ {} \cap D = {}
          /\ \A n \in {} \cup D : jobs[n].status \in ActiveStatus
      BY DEF ActiveStatus
    <2> HIDE DEF D
    <2> QED BY <2>1, <2>2, ClaimEffect
  <1> QED BY <1>1, <1>2

LEMMA EnqueueTables ==
  ASSUME TypeOK, NEW e \in Executors, EnqueueExpiredAssets(e)
  PROVE  Enqueued
  <1> DEFINE X == {a \in Assets : /\ assets[a].state = "quarantine"
                                  /\ assets[a].due
                                  /\ ActiveJobs(a) = {}}
  <1>1. assets' = assets /\ \E S \in SUBSET X : Insert(S, "expire")
    BY DEF EnqueueExpiredAssets
  <1> QED BY <1>1 DEF Enqueued, Actions

LEMMA DecideTables ==
  ASSUME TypeOK, NEW r \in Reviews, NEW status \in ReviewStatus, DecideReview(r, status)
  PROVE  TableStep
  <1>1. assets' = assets
    BY DEF DecideReview
  <1>2. CASE status = "expired"
    BY <1>1, <1>2, SameTablesAreQuiet DEF DecideReview, TableStep
  <1>3. CASE status # "expired"
    <2>1. PICK action \in Actions : Insert(Quarantined(r), action)
      BY <1>3 DEF DecideReview, Actions
    <2>2. \A a \in Quarantined(r) : ActiveJobs(a) = {}
      BY <1>3 DEF DecideReview
    <2>3. /\ Quarantined(r) \in SUBSET Assets
          /\ \A a \in Quarantined(r) : assets[a].state = "quarantine"
      BY DEF Quarantined
    <2> QED BY <1>1, <2>1, <2>2, <2>3 DEF Enqueued, TableStep
  <1> QED BY <1>2, <1>3

LEMMA NextTables ==
  ASSUME TypeOK, Next
  PROVE  TableStep
  <1>1. ASSUME NEW a \in Assets, NEW r \in Reviews, NEW digest \in BOOLEAN,
               StoreAsset(a, r, digest)
        PROVE  TableStep
    BY <1>1, StoreAssetTables DEF TableStep
  <1>2. ASSUME NEW r \in Reviews, NEW status \in ReviewStatus, DecideReview(r, status)
        PROVE  TableStep
    BY <1>2, DecideTables
  <1>3. ASSUME NEW a \in Assets, NEW action \in Requests, EnqueueLifecycle(a, action)
        PROVE  TableStep
    <2>1. {a} \in SUBSET Assets /\ action \in Actions
      BY LimitsAssumption
    <2>2. assets' = assets /\ assets[a].state = "quarantine" /\ ActiveJobs(a) = {}
          /\ Insert({a}, action)
      BY <1>3 DEF EnqueueLifecycle, MayEnqueue
    <2> QED BY <2>1, <2>2 DEF Enqueued, TableStep
  <1>4. ASSUME NEW a \in Assets, AssetFallsDue(a) PROVE TableStep
    BY <1>4, DueTables DEF TableStep
  <1>5. ASSUME NEW n \in JobIds, RetryFallsDue(n) \/ ClaimGrowsStale(n) PROVE TableStep
    BY <1>5, ElapsedTables DEF TableStep
  <1>6. ASSUME NEW e \in Executors, StartRun(e) \/ ClaimMore(e) PROVE TableStep
    <2>1. assets' = assets
      BY <1>6 DEF StartRun, ClaimMore
    <2> QED BY <1>6, <2>1, StartRunEffect DEF Quiet, TableStep, TypeOK
  <1>7. ASSUME NEW e \in Executors, EnqueueExpiredAssets(e) PROVE TableStep
    BY <1>7, EnqueueTables DEF TableStep
  <1>8. ASSUME NEW e \in Executors, RecordFailure(e) PROVE TableStep
    BY <1>8, RecordFailureTables DEF TableStep
  <1>9. ASSUME NEW e \in Executors, CompleteLifecycle(e) PROVE TableStep
    <2>1. CASE OwnsJob(e, cur[e]) /\ assets[AssetOf(cur[e])].state = "quarantine"
      <3>1. Completes(cur[e])
        BY <1>9, <2>1 DEF CompleteLifecycle, Completes, OwnsJob
      <3>2. pc[e] = "complete"
        BY <1>9 DEF CompleteLifecycle
      <3> QED BY <3>1, <3>2 DEF TableStep
    <2>2. CASE ~(OwnsJob(e, cur[e]) /\ assets[AssetOf(cur[e])].state = "quarantine")
      BY <1>9, <2>2, SameTablesAreQuiet DEF CompleteLifecycle, TableStep
    <2> QED BY <2>1, <2>2
  <1>10. ASSUME NEW e \in Executors,
                \/ NextJob(e) \/ StatPromoted(e) \/ CopyToOriginals(e) \/ StatDoomed(e)
                \/ RemoveFromQuarantine(e) \/ HandleError(e) \/ StorageFails(e) \/ RunDies(e)
         PROVE  TableStep
    <2>1. UNCHANGED tables
      BY <1>10 DEF NextJob, StatPromoted, CopyToOriginals, StatDoomed,
                   RemoveFromQuarantine, HandleError, StorageFails, RunDies
    <2> QED BY <2>1, SameTablesAreQuiet DEF tables, TableStep
  <1> QED BY <1>1, <1>2, <1>3, <1>4, <1>5, <1>6, <1>7, <1>8, <1>9, <1>10 DEF Next, Step

-----------------------------------------------------------------------------
(* Jobs and assets agree after every step. *)

LEMMA VerdictType ==
  ASSUME NEW action \in Actions
  PROVE  /\ Verdict[action] \in {"approved", "rejected", "expired"}
         /\ Verdict[action] = "approved" => action = "approve"
  BY DEF Actions, Verdict

LEMMA ActionType == ASSUME TypeOK, NEW n \in JobIds PROVE jobs[n].action \in Actions
  BY DEF TypeOK, JobRow

\* What the completion of job k leaves.
LEMMA CompletesEffect ==
  ASSUME TypeOK, NEW k \in JobIds, Completes(k)
  PROVE  /\ jobs' \in [JobIds -> JobRow] /\ assets' \in [Assets -> AssetRow]
         /\ jobs'[k].status = "completed" /\ jobs'[k].action = jobs[k].action
         /\ \A n \in JobIds \ {k} : jobs'[n] = jobs[n]
         /\ assets'[AssetOf(k)].state = Verdict[jobs[k].action]
         /\ \A a \in Assets \ {AssetOf(k)} : assets'[a] = assets[a]
  <1> DEFINE b == AssetOf(k)
             job == [jobs[k] EXCEPT !.status = "completed", !.owner = NoOwner,
                                    !.elapsed = FALSE]
             row == [assets[b] EXCEPT !.state = Verdict[jobs[k].action], !.due = FALSE]
  <1>1. b \in Assets
    BY AssetOfType
  <1>2. jobs' = [jobs EXCEPT ![k] = job] /\ assets' = [assets EXCEPT ![b] = row]
    BY DEF Completes
  <1>3. job \in JobRow /\ job.status = "completed" /\ job.action = jobs[k].action
    <2>1. jobs[k] \in JobRow
      BY DEF TypeOK
    <2> QED BY <2>1 DEF JobRow
  <1>4. row \in AssetRow /\ row.state = Verdict[jobs[k].action]
    <2>1. assets[b] \in AssetRow
      BY <1>1 DEF TypeOK
    <2>2. Verdict[jobs[k].action] \in {"approved", "rejected", "expired"}
      BY ActionType, VerdictType
    <2> QED BY <2>1, <2>2 DEF AssetRow
  <1> HIDE DEF job, row
  <1>5. jobs' \in [JobIds -> JobRow] /\ assets' \in [Assets -> AssetRow]
    BY <1>1, <1>2, <1>3, <1>4 DEF TypeOK
  <1>6. jobs'[k] = job /\ \A n \in JobIds \ {k} : jobs'[n] = jobs[n]
    BY <1>2 DEF TypeOK
  <1>7. assets'[b] = row /\ \A a \in Assets \ {b} : assets'[a] = assets[a]
    BY <1>1, <1>2 DEF TypeOK
  <1> QED BY <1>3, <1>4, <1>5, <1>6, <1>7

LEMMA CompletingJob ==
  ASSUME TypeOK, NEW e \in Executors, pc[e] = "complete"
  PROVE  cur[e] \in JobIds /\ AssetOf(cur[e]) \in Assets
  BY CurType, AssetOfType DEF Works, PC

LEMMA TableTypes ==
  ASSUME TypeOK, TableStep
  PROVE  jobs' \in [JobIds -> JobRow] /\ assets' \in [Assets -> AssetRow]
  <1>1. CASE Quiet
    BY <1>1 DEF Quiet
  <1>2. CASE Enqueued
    <2>1. PICK S \in SUBSET Assets, action \in Actions : Insert(S, action)
      BY <1>2 DEF Enqueued
    <2>2. jobs' \in [JobIds -> JobRow]
      BY <2>1, InsertEffect
    <2> QED BY <1>2, <2>2 DEF Enqueued, TypeOK
  <1>3. ASSUME NEW e \in Executors, pc[e] = "complete", Completes(cur[e])
        PROVE  jobs' \in [JobIds -> JobRow] /\ assets' \in [Assets -> AssetRow]
    BY <1>3, CompletingJob, CompletesEffect
  <1> QED BY <1>1, <1>2, <1>3 DEF TableStep

LEMMA QuietJobs ==
  ASSUME IInv, Quiet, NEW n \in JobIds
  PROVE  JobAgrees(n)'
  <1>1. JobAgrees(n) /\ Moved(n) /\ \A m \in JobIds : Moved(m)
    BY DEF IInv, Quiet
  <1>2. \A m \in JobIds : /\ jobs'[m].status \in ActiveStatus => jobs[m].status \in ActiveStatus
                          /\ jobs'[m].status = "completed" => jobs[m].status = "completed"
                          /\ jobs'[m].status # "absent" => jobs[m].status # "absent"
                          /\ jobs'[m].action = jobs[m].action
    BY <1>1 DEF Moved, ActiveStatus
  <1>3. AssetOf(n) \in Assets
    BY AssetOfType
  <1>4. \/ assets'[AssetOf(n)].state = assets[AssetOf(n)].state
        \/ assets[AssetOf(n)].state = "absent" /\ assets'[AssetOf(n)].state = "quarantine"
    BY <1>3 DEF Quiet
  <1>5. Verdict[jobs[n].action] # "absent"
    BY ActionType, VerdictType DEF IInv
  <1>6. jobs'[n].status # "absent" => assets'[AssetOf(n)].state # "absent"
    BY <1>1, <1>2, <1>4 DEF JobAgrees
  <1>7. jobs'[n].status \in ActiveStatus => assets'[AssetOf(n)].state = "quarantine"
    BY <1>1, <1>2, <1>4 DEF JobAgrees
  <1>8. jobs'[n].status = "completed" => assets'[AssetOf(n)].state = Verdict[jobs'[n].action]
    BY <1>1, <1>2, <1>4, <1>5 DEF JobAgrees
  <1>9. \A m \in JobIds \ {n} : AssetOf(m) = AssetOf(n) =>
          /\ jobs'[m].status = "completed" => jobs'[n].status # "completed"
          /\ jobs'[m].status \in ActiveStatus => jobs'[n].status \notin ActiveStatus
    BY <1>1, <1>2 DEF JobAgrees
  <1> QED BY <1>6, <1>7, <1>8, <1>9 DEF JobAgrees

LEMMA EnqueuedJobs ==
  ASSUME IInv, Enqueued, NEW n \in JobIds
  PROVE  JobAgrees(n)'
  <1>1. PICK S \in SUBSET Assets, action \in Actions :
          /\ \A a \in S : assets[a].state = "quarantine" /\ ActiveJobs(a) = {}
          /\ Insert(S, action)
    BY DEF Enqueued
  <1>2. assets' = assets
    BY DEF Enqueued
  <1>3. /\ \A m \in JobIds : jobs'[m] = jobs[m] \/ Born(m, S, action)
        /\ \A m, k \in JobIds :
              Born(m, S, action) /\ Born(k, S, action) /\ AssetOf(m) = AssetOf(k) => m = k
    BY <1>1, InsertEffect DEF IInv
  <1>4. \A m \in JobIds : Born(m, S, action) =>
          /\ jobs'[m].status = "queued"
          /\ assets[AssetOf(m)].state = "quarantine"
          /\ \A k \in JobIds : AssetOf(k) = AssetOf(m) => jobs[k].status \notin ActiveStatus
    BY <1>1, NewJobType DEF Born, ActiveJobs
  <1>5. JobAgrees(n)
    BY DEF IInv
  <1>6. /\ jobs'[n].status # "absent" => assets'[AssetOf(n)].state # "absent"
        /\ jobs'[n].status \in ActiveStatus => assets'[AssetOf(n)].state = "quarantine"
        /\ jobs'[n].status = "completed" => assets'[AssetOf(n)].state = Verdict[jobs'[n].action]
    BY <1>2, <1>3, <1>4, <1>5 DEF JobAgrees
  <1>7. ASSUME NEW m \in JobIds \ {n}, AssetOf(m) = AssetOf(n)
        PROVE  /\ jobs'[m].status = "completed" => jobs'[n].status # "completed"
               /\ jobs'[m].status \in ActiveStatus => jobs'[n].status \notin ActiveStatus
    <2>1. CASE jobs'[m] = jobs[m] /\ jobs'[n] = jobs[n]
      BY <1>5, <1>7, <2>1 DEF JobAgrees
    <2>2. CASE Born(m, S, action)
      <3>1. jobs'[n] = jobs[n] /\ jobs[n].status \notin ActiveStatus
        BY <1>3, <1>4, <1>7, <2>2
      <3> QED BY <1>4, <2>2, <3>1
    <2>3. CASE Born(n, S, action)
      <3>1. jobs'[m] = jobs[m] /\ jobs[m].status \notin ActiveStatus
        BY <1>3, <1>4, <1>7, <2>3
      <3> QED BY <1>4, <2>3, <3>1
    <2> QED BY <1>3, <2>1, <2>2, <2>3
  <1> QED BY <1>6, <1>7 DEF JobAgrees

LEMMA CompletesJobs ==
  ASSUME IInv, NEW k \in JobIds, Completes(k), NEW n \in JobIds
  PROVE  JobAgrees(n)'
  <1>1. /\ jobs'[k].status = "completed" /\ jobs'[k].action = jobs[k].action
        /\ \A m \in JobIds \ {k} : jobs'[m] = jobs[m]
        /\ assets'[AssetOf(k)].state = Verdict[jobs[k].action]
        /\ \A a \in Assets \ {AssetOf(k)} : assets'[a] = assets[a]
    BY CompletesEffect DEF IInv
  <1>2. jobs[k].status \in ActiveStatus /\ assets[AssetOf(k)].state = "quarantine"
    BY DEF Completes, ActiveStatus
  <1>3. Verdict[jobs[k].action] \in {"approved", "rejected", "expired"}
    BY ActionType, VerdictType DEF IInv
  <1>4. \A m \in JobIds \ {k} : AssetOf(m) = AssetOf(k) =>
          jobs[m].status \notin ActiveStatus \cup {"completed"}
    <2>1. ASSUME NEW m \in JobIds \ {k}, AssetOf(m) = AssetOf(k)
          PROVE  jobs[m].status \notin ActiveStatus \cup {"completed"}
      <3>1. JobAgrees(m) /\ JobAgrees(k)
        BY DEF IInv
      <3>2. Verdict[jobs[m].action] \in {"approved", "rejected", "expired"}
        BY ActionType, VerdictType DEF IInv
      <3> QED BY <1>2, <2>1, <3>1, <3>2 DEF JobAgrees
    <2> QED BY <2>1
  <1>5. AssetOf(n) \in Assets /\ JobAgrees(n)
    BY AssetOfType DEF IInv
  <1>6. "completed" \notin ActiveStatus
    BY DEF ActiveStatus
  <1>7. CASE n = k
    BY <1>1, <1>3, <1>4, <1>6, <1>7 DEF JobAgrees
  <1>8. CASE n # k /\ AssetOf(n) = AssetOf(k)
    <2>1. jobs'[n] = jobs[n] /\ jobs[n].status \notin ActiveStatus \cup {"completed"}
      BY <1>1, <1>4, <1>8
    <2> QED BY <1>1, <1>3, <1>8, <2>1 DEF JobAgrees
  <1>9. CASE AssetOf(n) # AssetOf(k)
    <2>1. /\ jobs'[n] = jobs[n] /\ assets'[AssetOf(n)] = assets[AssetOf(n)]
          /\ \A m \in JobIds : AssetOf(m) = AssetOf(n) => jobs'[m] = jobs[m]
      BY <1>1, <1>5, <1>9
    <2> QED BY <1>5, <2>1 DEF JobAgrees
  <1> QED BY <1>7, <1>8, <1>9

LEMMA JobsAgreeAfter ==
  ASSUME IInv, TableStep
  PROVE  \A n \in JobIds : JobAgrees(n)'
  <1>1. ASSUME NEW e \in Executors, pc[e] = "complete", Completes(cur[e])
        PROVE  \A n \in JobIds : JobAgrees(n)'
    BY <1>1, CompletingJob, CompletesJobs DEF IInv
  <1> QED BY <1>1, QuietJobs, EnqueuedJobs DEF TableStep

-----------------------------------------------------------------------------
(* The buckets: originals are never removed, and only a new asset comes to  *)
(* quarantine.                                                              *)

BucketStep ==
    /\ quarantine' \subseteq Assets /\ originals' \subseteq Assets
    /\ originals \subseteq originals'
    /\ \A a \in quarantine' : a \in quarantine \/ assets[a].state = "absent"

LEMMA NextBuckets == ASSUME TypeOK, Next PROVE BucketStep
  <1>1. ASSUME storage' = storage PROVE BucketStep
    BY <1>1 DEF BucketStep, storage, TypeOK
  <1>2. ASSUME NEW a \in Assets, NEW r \in Reviews, NEW digest \in BOOLEAN,
               StoreAsset(a, r, digest)
        PROVE  BucketStep
    BY <1>2 DEF StoreAsset, BucketStep, TypeOK
  <1>3. ASSUME NEW e \in Executors, CopyToOriginals(e) PROVE BucketStep
    <2>1. CurAsset(e) \in Assets
      BY <1>3, CurType DEF CopyToOriginals, Works, PC
    <2> QED BY <1>3, <2>1 DEF CopyToOriginals, CopyTo, BucketStep, TypeOK
  <1>4. ASSUME NEW e \in Executors, RemoveFromQuarantine(e) PROVE BucketStep
    BY <1>4 DEF RemoveFromQuarantine, BucketStep, TypeOK
  <1>5. ASSUME NEW e \in Executors, StorageFails(e) PROVE BucketStep
    <2>1. CurAsset(e) \in Assets
      BY <1>5, CurType DEF StorageFails, Works, PC
    <2> QED BY <1>5, <2>1 DEF StorageFails, CopyTo, BucketStep, TypeOK, storage
  <1>6. ASSUME NEW r \in Reviews, NEW status \in ReviewStatus, DecideReview(r, status)
        PROVE  BucketStep
    BY <1>1, <1>6 DEF DecideReview
  <1>7. ASSUME NEW a \in Assets, NEW action \in Requests, EnqueueLifecycle(a, action)
        PROVE  BucketStep
    BY <1>1, <1>7 DEF EnqueueLifecycle
  <1>8. ASSUME NEW a \in Assets, AssetFallsDue(a) PROVE BucketStep
    BY <1>1, <1>8 DEF AssetFallsDue
  <1>9. ASSUME NEW n \in JobIds, RetryFallsDue(n) \/ ClaimGrowsStale(n) PROVE BucketStep
    BY <1>1, <1>9 DEF RetryFallsDue, ClaimGrowsStale
  <1>10. ASSUME NEW e \in Executors,
                \/ StartRun(e) \/ EnqueueExpiredAssets(e) \/ ClaimMore(e) \/ NextJob(e)
                \/ StatPromoted(e) \/ StatDoomed(e) \/ CompleteLifecycle(e)
                \/ HandleError(e) \/ RecordFailure(e) \/ RunDies(e)
         PROVE  BucketStep
    <2>1. storage' = storage
      BY <1>10 DEF StartRun, EnqueueExpiredAssets, ClaimMore, NextJob, StatPromoted,
           StatDoomed, CompleteLifecycle, HandleError, RecordFailure, RunDies, storage
    <2> QED BY <1>1, <2>1
  <1> QED BY <1>2, <1>3, <1>4, <1>5, <1>6, <1>7, <1>8, <1>9, <1>10 DEF Next, Step

LEMMA AssetsAgreeAfter ==
  ASSUME IInv, TableStep, BucketStep, NEW a \in Assets
  PROVE  AssetAgrees(a)'
  <1>1. AssetAgrees(a)
    BY DEF IInv
  <1>2. assets[a].state = "approved" => a \in originals' \ quarantine'
    BY <1>1 DEF AssetAgrees, BucketStep
  <1>3. assets[a].state \in {"rejected", "expired"} => a \notin quarantine'
    BY <1>1 DEF AssetAgrees, BucketStep
  <1>4. CASE Quiet
    <2>1. \A n \in JobIds : jobs[n].status = "completed" => jobs'[n].status = "completed"
      BY <1>4 DEF Quiet, Moved, ActiveStatus
    <2>2. \/ assets'[a].state = assets[a].state
          \/ assets[a].state = "absent" /\ assets'[a].state = "quarantine"
      BY <1>4 DEF Quiet
    <2> QED BY <1>1, <1>2, <1>3, <2>1, <2>2 DEF AssetAgrees
  <1>5. CASE Enqueued
    <2>1. PICK S \in SUBSET Assets, action \in Actions : Insert(S, action)
      BY <1>5 DEF Enqueued
    <2>2. \A n \in JobIds : jobs[n].status = "completed" => jobs'[n] = jobs[n]
      BY <2>1, InsertEffect DEF IInv, Born, FreeJobs
    <2>3. assets' = assets
      BY <1>5 DEF Enqueued
    <2> QED BY <1>1, <1>2, <1>3, <2>2, <2>3 DEF AssetAgrees
  <1>6. ASSUME NEW e \in Executors, pc[e] = "complete", Completes(cur[e])
        PROVE  AssetAgrees(a)'
    <2> DEFINE k == cur[e]
    <2>1. k \in JobIds /\ AssetOf(k) \in Assets
      BY <1>6, CompletingJob DEF IInv
    <2>2. /\ jobs'[k].status = "completed"
          /\ \A m \in JobIds \ {k} : jobs'[m] = jobs[m]
          /\ assets'[AssetOf(k)].state = Verdict[jobs[k].action]
          /\ \A b \in Assets \ {AssetOf(k)} : assets'[b] = assets[b]
      BY <1>6, <2>1, CompletesEffect DEF IInv
    <2>3. CASE a = AssetOf(k)
      <3>1. RunAgrees(e) /\ assets[a].state = "quarantine"
        BY <1>6, <2>3 DEF IInv, Completes
      <3>2. a \notin quarantine' /\ (jobs[k].action = "approve" => a \in originals')
        BY <1>6, <2>3, <3>1 DEF RunAgrees, BucketStep
      <3>3. Verdict[jobs[k].action] = "approved" => jobs[k].action = "approve"
        BY <2>1, ActionType, VerdictType DEF IInv
      <3> QED BY <2>1, <2>2, <2>3, <3>2, <3>3 DEF AssetAgrees
    <2>4. CASE a # AssetOf(k)
      <3>1. assets'[a] = assets[a]
            /\ \A m \in JobIds : AssetOf(m) = a => jobs'[m] = jobs[m]
        BY <2>2, <2>4
      <3> QED BY <1>1, <1>2, <1>3, <3>1 DEF AssetAgrees
    <2> QED BY <2>3, <2>4
  <1> QED BY <1>4, <1>5, <1>6 DEF TableStep

-----------------------------------------------------------------------------
(* Runs agree with the tables and the buckets after every step. *)

\* What a run may rely on of a job it holds, whatever the step is.
HeldKept ==
    /\ originals \subseteq originals'
    /\ \A n \in JobIds : Held(n) =>
          /\ jobs'[n].action = jobs[n].action
          /\ jobs'[n].status \notin {"absent", "queued"}
          /\ AssetOf(n) \in quarantine' => AssetOf(n) \in quarantine

LEMMA HeldAgrees ==
  ASSUME IInv, NEW n \in JobIds, Held(n)
  PROVE  jobs[n].status \notin {"absent", "queued"} /\ assets[AssetOf(n)].state # "absent"
  <1>1. jobs[n].status \notin {"absent", "queued"}
    BY DEF IInv, RunAgrees, Held
  <1>2. JobAgrees(n)
    BY DEF IInv
  <1> QED BY <1>1, <1>2 DEF JobAgrees

LEMMA HeldIsKept == ASSUME IInv, TableStep, BucketStep PROVE HeldKept
  <1>1. ASSUME NEW n \in JobIds, Held(n)
        PROVE  jobs'[n].action = jobs[n].action /\ jobs'[n].status \notin {"absent", "queued"}
    <2>1. jobs[n].status \notin {"absent", "queued"}
      BY <1>1, HeldAgrees
    <2>2. CASE Quiet
      BY <2>1, <2>2 DEF Quiet, Moved
    <2>3. CASE Enqueued
      <3>1. PICK S \in SUBSET Assets, action \in Actions : Insert(S, action)
        BY <2>3 DEF Enqueued
      <3>2. ~Born(n, S, action)
        BY <1>1, <2>1 DEF Born, FreeJobs
      <3>3. jobs'[n] = jobs[n]
        BY <3>1, <3>2, InsertEffect DEF IInv
      <3> QED BY <2>1, <3>3
    <2>4. ASSUME NEW e \in Executors, pc[e] = "complete", Completes(cur[e])
          PROVE  jobs'[n].action = jobs[n].action /\ jobs'[n].status \notin {"absent", "queued"}
      BY <2>1, <2>4, CompletingJob, CompletesEffect DEF IInv
    <2> QED BY <2>2, <2>3, <2>4 DEF TableStep
  <1>2. ASSUME NEW n \in JobIds, Held(n), AssetOf(n) \in quarantine'
        PROVE  AssetOf(n) \in quarantine
    BY <1>2, HeldAgrees DEF BucketStep
  <1> QED BY <1>1, <1>2 DEF HeldKept, BucketStep

\* A run that does not come to another place or job.
LEMMA RunStays ==
  ASSUME IInv, HeldKept, NEW e \in Executors, pc'[e] = pc[e], cur'[e] = cur[e],
         \A n \in batch'[e] : n \in batch[e] \/ jobs'[n].status = "claimed"
  PROVE  RunAgrees(e)'
  <1>1. RunAgrees(e)
    BY DEF IInv
  <1>2. \A n \in JobIds : n \in batch'[e] \cup {cur'[e]} =>
                             jobs'[n].status \notin {"absent", "queued"}
    BY DEF HeldKept, Held
  <1>3. CASE pc[e] \in Works
    <2>1. cur[e] \in JobIds
      BY <1>3, CurType DEF IInv
    <2>2. Held(cur[e])
      BY DEF Held
    <2> QED BY <1>1, <1>2, <2>1, <2>2 DEF RunAgrees, HeldKept
  <1>4. CASE pc[e] \notin Works
    BY <1>1, <1>2, <1>4 DEF RunAgrees, Works, PC
  <1> QED BY <1>3, <1>4

\* A run without a job.
LEMMA RunWithoutJob ==
  ASSUME IInv, HeldKept, NEW e \in Executors, cur'[e] = NoJob,
         pc'[e] \in {"idle", "enqueue", "claimMore", "next"},
         \A n \in batch'[e] : n \in batch[e] \/ jobs'[n].status = "claimed"
  PROVE  RunAgrees(e)'
  <1>1. \A n \in JobIds : n \in batch'[e] \cup {cur'[e]} =>
                             jobs'[n].status \notin {"absent", "queued"}
    BY NullsAssumption DEF HeldKept, Held
  <1> QED BY <1>1 DEF RunAgrees, Works, PC

\* A run that goes on with a job it held.
LEMMA RunGoesOn ==
  ASSUME IInv, HeldKept, NEW e \in Executors, NEW n \in JobIds, Held(n), cur'[e] = n,
         batch'[e] \subseteq batch[e], pc'[e] \in Works,
         pc'[e] \in {"promote", "copy"} => jobs[n].action = "approve",
         pc'[e] = "discard" => jobs[n].action # "approve",
         pc'[e] \in {"remove", "complete"} /\ jobs[n].action = "approve" =>
            AssetOf(n) \in originals',
         pc'[e] = "complete" => AssetOf(n) \notin quarantine'
  PROVE  RunAgrees(e)'
  <1>1. \A m \in JobIds : m \in batch'[e] \cup {cur'[e]} => Held(m)
    BY DEF Held
  <1>2. \A m \in JobIds : m \in batch'[e] \cup {cur'[e]} =>
                             jobs'[m].status \notin {"absent", "queued"}
    BY <1>1 DEF HeldKept
  <1>3. jobs'[n].action = jobs[n].action /\ n # NoJob
    BY NullsAssumption DEF HeldKept
  <1> QED BY <1>2, <1>3 DEF RunAgrees

LocalTypes ==
    /\ pc' \in [Executors -> PC]
    /\ batch' \in [Executors -> SUBSET JobIds]
    /\ cur' \in [Executors -> JobIds \cup {NoJob}]

\* Only e acts.
Acts(e) ==
    \A d \in Executors \ {e} : pc'[d] = pc[d] /\ batch'[d] = batch[d] /\ cur'[d] = cur[d]

LEMMA GotoEffect ==
  ASSUME TypeOK, NEW e \in Executors, NEW label \in PC, Goto(e, label)
  PROVE  /\ pc' \in [Executors -> PC] /\ pc'[e] = label
         /\ \A d \in Executors \ {e} : pc'[d] = pc[d]
  BY DEF Goto, TypeOK

\* A run ends, or leaves its job and goes on with its batch.
LEMMA EndEffect ==
  ASSUME TypeOK, NEW e \in Executors,
         \/ End(e)
         \/ Resume(e) /\ UNCHANGED batch
  PROVE  /\ LocalTypes /\ Acts(e) /\ pc'[e] \in {"idle", "next"} /\ cur'[e] = NoJob
         /\ batch'[e] \subseteq batch[e]
  <1>1. CASE End(e)
    <2>1. /\ pc' \in [Executors -> PC] /\ pc'[e] = "idle"
          /\ \A d \in Executors \ {e} : pc'[d] = pc[d]
      BY <1>1, GotoEffect DEF End, PC
    <2>2. /\ batch' \in [Executors -> SUBSET JobIds] /\ batch'[e] = {}
          /\ cur' \in [Executors -> JobIds \cup {NoJob}] /\ cur'[e] = NoJob
          /\ \A d \in Executors \ {e} : batch'[d] = batch[d] /\ cur'[d] = cur[d]
      BY <1>1 DEF End, TypeOK
    <2> QED BY <2>1, <2>2 DEF LocalTypes, Acts
  <1>2. CASE Resume(e) /\ UNCHANGED batch
    <2>1. /\ pc' \in [Executors -> PC] /\ pc'[e] = "next"
          /\ \A d \in Executors \ {e} : pc'[d] = pc[d]
      BY <1>2, GotoEffect DEF Resume, PC
    <2>2. /\ cur' \in [Executors -> JobIds \cup {NoJob}] /\ cur'[e] = NoJob
          /\ \A d \in Executors \ {e} : cur'[d] = cur[d]
      BY <1>2 DEF Resume, TypeOK
    <2> QED BY <1>2, <2>1, <2>2 DEF LocalTypes, Acts, TypeOK
  <1> QED BY <1>1, <1>2

LEMMA EndAgrees ==
  ASSUME IInv, HeldKept, NEW e \in Executors,
         \/ End(e)
         \/ Resume(e) /\ UNCHANGED batch
  PROVE  LocalTypes /\ Acts(e) /\ RunAgrees(e)'
  <1>1. /\ LocalTypes /\ Acts(e) /\ pc'[e] \in {"idle", "next"} /\ cur'[e] = NoJob
        /\ batch'[e] \subseteq batch[e]
    BY EndEffect DEF IInv
  <1>2. RunAgrees(e)'
    BY <1>1, RunWithoutJob
  <1> QED BY <1>1, <1>2

\* A run works on at another place.
LEMMA WorkAgrees ==
  ASSUME IInv, HeldKept, NEW e \in Executors, NEW label \in Works, pc[e] \in Works,
         Goto(e, label), UNCHANGED <<batch, cur>>,
         label \in {"promote", "copy"} => jobs[cur[e]].action = "approve",
         label = "discard" => jobs[cur[e]].action # "approve",
         label \in {"remove", "complete"} /\ jobs[cur[e]].action = "approve" =>
            AssetOf(cur[e]) \in originals',
         label = "complete" => AssetOf(cur[e]) \notin quarantine'
  PROVE  LocalTypes /\ Acts(e) /\ RunAgrees(e)'
  <1>1. /\ pc' \in [Executors -> PC] /\ pc'[e] = label
        /\ \A d \in Executors \ {e} : pc'[d] = pc[d]
    BY GotoEffect DEF IInv, Works
  <1>2. LocalTypes /\ Acts(e)
    BY <1>1 DEF LocalTypes, Acts, IInv, TypeOK
  <1>3. cur[e] \in JobIds /\ Held(cur[e])
    BY CurType DEF IInv, Held
  <1>4. RunAgrees(e)'
    BY <1>1, <1>3, RunGoesOn
  <1> QED BY <1>2, <1>4

LEMMA ClaimRuns ==
  ASSUME IInv, HeldKept, NEW e \in Executors, StartRun(e) \/ ClaimMore(e)
  PROVE  LocalTypes /\ Acts(e) /\ RunAgrees(e)'
  <1>1. /\ batch' \in [Executors -> SUBSET JobIds]
        /\ \A d \in Executors \ {e} : batch'[d] = batch[d]
        /\ \A n \in batch'[e] : n \in batch[e] \/ jobs'[n].status = "claimed"
    BY StartRunEffect DEF IInv
  <1>2. PICK label \in {"enqueue", "next"} : Goto(e, label)
    BY DEF StartRun, ClaimMore
  <1>3. /\ pc' \in [Executors -> PC] /\ pc'[e] = label
        /\ \A d \in Executors \ {e} : pc'[d] = pc[d]
    BY <1>2, GotoEffect DEF IInv, PC
  <1>4. pc[e] \in {"idle", "claimMore"} /\ cur' = cur
    BY DEF StartRun, ClaimMore
  <1>5. LocalTypes /\ Acts(e)
    BY <1>1, <1>3, <1>4 DEF LocalTypes, Acts, IInv, TypeOK
  <1>6. cur[e] = NoJob
    BY <1>4 DEF IInv, RunAgrees, Works
  <1>7. RunAgrees(e)'
    BY <1>1, <1>3, <1>4, <1>6, RunWithoutJob
  <1> QED BY <1>5, <1>7

LEMMA EnqueueRuns ==
  ASSUME IInv, HeldKept, NEW e \in Executors, EnqueueExpiredAssets(e)
  PROVE  LocalTypes /\ Acts(e) /\ RunAgrees(e)'
  <1>1. Goto(e, "claimMore") /\ pc[e] = "enqueue" /\ cur' = cur /\ batch' = batch
    BY DEF EnqueueExpiredAssets
  <1>2. /\ pc' \in [Executors -> PC] /\ pc'[e] = "claimMore"
        /\ \A d \in Executors \ {e} : pc'[d] = pc[d]
    BY <1>1, GotoEffect DEF IInv, PC
  <1>3. LocalTypes /\ Acts(e)
    BY <1>1, <1>2 DEF LocalTypes, Acts, IInv, TypeOK
  <1>4. cur[e] = NoJob
    BY <1>1 DEF IInv, RunAgrees, Works
  <1>5. RunAgrees(e)'
    BY <1>1, <1>2, <1>4, RunWithoutJob
  <1> QED BY <1>3, <1>5

LEMMA NextJobRuns ==
  ASSUME IInv, HeldKept, NEW e \in Executors, NextJob(e)
  PROVE  LocalTypes /\ Acts(e) /\ RunAgrees(e)'
  <1>1. CASE batch[e] = {} /\ End(e)
    BY <1>1, EndAgrees
  <1>2. ASSUME NEW n \in batch[e],
               batch' = [batch EXCEPT ![e] = @ \ {n}],
               cur' = [cur EXCEPT ![e] = n],
               Goto(e, IF assets[AssetOf(n)].state # "quarantine" THEN "error"
                       ELSE IF jobs[n].action = "approve" THEN "promote"
                       ELSE "discard")
        PROVE  LocalTypes /\ Acts(e) /\ RunAgrees(e)'
    <2>1. PICK label \in {"error", "promote", "discard"} :
            /\ Goto(e, label)
            /\ label = "discard" => jobs[n].action # "approve"
            /\ label = "promote" => jobs[n].action = "approve"
      BY <1>2
    <2>2. /\ pc' \in [Executors -> PC] /\ pc'[e] = label
          /\ \A d \in Executors \ {e} : pc'[d] = pc[d]
      BY <2>1, GotoEffect DEF IInv, PC
    <2>3. n \in JobIds /\ Held(n)
      BY DEF IInv, TypeOK, Held
    <2>4. /\ batch' \in [Executors -> SUBSET JobIds] /\ batch'[e] = batch[e] \ {n}
          /\ cur' \in [Executors -> JobIds \cup {NoJob}] /\ cur'[e] = n
          /\ \A d \in Executors \ {e} : batch'[d] = batch[d] /\ cur'[d] = cur[d]
      BY <1>2, <2>3 DEF IInv, TypeOK
    <2>5. LocalTypes /\ Acts(e)
      BY <2>2, <2>4 DEF LocalTypes, Acts
    <2>6. RunAgrees(e)'
      BY <2>1, <2>2, <2>3, <2>4, RunGoesOn DEF Works, PC
    <2> QED BY <2>5, <2>6
  <1> QED BY <1>1, <1>2 DEF NextJob

LEMMA PromoteRuns ==
  ASSUME IInv, HeldKept, NEW e \in Executors, StatPromoted(e) \/ CopyToOriginals(e)
  PROVE  LocalTypes /\ Acts(e) /\ RunAgrees(e)'
  <1>1. pc[e] \in Works /\ UNCHANGED <<batch, cur>> /\ jobs[cur[e]].action = "approve"
    BY DEF StatPromoted, CopyToOriginals, IInv, RunAgrees, Works, PC
  <1>2. CurAsset(e) = AssetOf(cur[e]) /\ originals \subseteq originals'
    BY DEF CurAsset, HeldKept
  <1>3. PICK label \in {"copy", "remove", "error"} :
          Goto(e, label) /\ (label = "remove" => AssetOf(cur[e]) \in originals')
    <2>1. CASE StatPromoted(e)
      <3>1. CASE CurAsset(e) \notin originals
        BY <2>1, <3>1 DEF StatPromoted
      <3>2. CASE CurAsset(e) \in originals
        BY <1>2, <2>1, <3>2 DEF StatPromoted
      <3> QED BY <3>1, <3>2
    <2>2. CASE CopyToOriginals(e)
      <3>1. CASE CopyTo(CurAsset(e)) /\ Goto(e, "remove")
        BY <1>2, <3>1 DEF CopyTo
      <3>2. CASE Goto(e, "error")
        BY <3>2
      <3> QED BY <2>2, <3>1, <3>2 DEF CopyToOriginals
    <2> QED BY <2>1, <2>2
  <1>4. label \in Works
    BY DEF Works, PC
  <1> QED BY <1>1, <1>3, <1>4, WorkAgrees

LEMMA DiscardRuns ==
  ASSUME IInv, HeldKept, NEW e \in Executors, StatDoomed(e)
  PROVE  LocalTypes /\ Acts(e) /\ RunAgrees(e)'
  <1>1. pc[e] \in Works /\ UNCHANGED <<batch, cur>> /\ jobs[cur[e]].action # "approve"
    BY DEF StatDoomed, IInv, RunAgrees, Works, PC
  <1>2. PICK label \in {"error", "remove"} : Goto(e, label)
    BY DEF StatDoomed
  <1>3. label \in Works
    BY DEF Works, PC
  <1> QED BY <1>1, <1>2, <1>3, WorkAgrees

LEMMA RemoveRuns ==
  ASSUME IInv, HeldKept, NEW e \in Executors, RemoveFromQuarantine(e)
  PROVE  LocalTypes /\ Acts(e) /\ RunAgrees(e)'
  <1>1. /\ pc[e] = "remove" /\ Goto(e, "complete") /\ UNCHANGED <<originals, batch, cur>>
        /\ quarantine' = quarantine \ {AssetOf(cur[e])}
    BY DEF RemoveFromQuarantine, CurAsset
  <1>2. jobs[cur[e]].action = "approve" => AssetOf(cur[e]) \in originals'
    BY <1>1 DEF IInv, RunAgrees
  <1>3. pc[e] \in Works /\ "complete" \in Works /\ AssetOf(cur[e]) \notin quarantine'
    BY <1>1 DEF Works, PC
  <1> QED BY <1>1, <1>2, <1>3, WorkAgrees

LEMMA OtherRuns ==
  ASSUME IInv, HeldKept, NEW e \in Executors,
         \/ StorageFails(e) \/ CompleteLifecycle(e) \/ HandleError(e) \/ RecordFailure(e)
         \/ RunDies(e)
  PROVE  LocalTypes /\ Acts(e) /\ RunAgrees(e)'
  <1>1. ASSUME NEW label \in {"error", "record"}, pc[e] \in Works, Goto(e, label),
               UNCHANGED <<batch, cur>>
        PROVE  LocalTypes /\ Acts(e) /\ RunAgrees(e)'
    <2>1. label \in Works
      BY DEF Works, PC
    <2> QED BY <1>1, <2>1, WorkAgrees
  <1>2. CASE StorageFails(e)
    BY <1>1, <1>2 DEF StorageFails, Works, PC
  <1>3. CASE CompleteLifecycle(e)
    <2>1. pc[e] \in Works /\ UNCHANGED batch
      BY <1>3 DEF CompleteLifecycle, Works, PC
    <2>2. Resume(e) \/ (Goto(e, "error") /\ UNCHANGED cur)
      BY <1>3 DEF CompleteLifecycle
    <2> QED BY <1>1, <2>1, <2>2, EndAgrees
  <1>4. CASE HandleError(e)
    <2>1. pc[e] \in Works /\ UNCHANGED batch
      BY <1>4 DEF HandleError, Works, PC
    <2>2. Resume(e) \/ (Goto(e, "record") /\ UNCHANGED cur)
      BY <1>4 DEF HandleError
    <2> QED BY <1>1, <2>1, <2>2, EndAgrees
  <1>5. CASE RecordFailure(e)
    <2>1. (Resume(e) /\ UNCHANGED batch) \/ End(e)
      BY <1>5 DEF RecordFailure
    <2> QED BY <2>1, EndAgrees
  <1>6. CASE RunDies(e)
    BY <1>6, EndAgrees DEF RunDies
  <1> QED BY <1>2, <1>3, <1>4, <1>5, <1>6

LEMMA NextRuns ==
  ASSUME IInv, HeldKept, Next
  PROVE  LocalTypes /\ \A e \in Executors : RunAgrees(e)'
  <1>1. ASSUME NEW e \in Executors, LocalTypes /\ Acts(e) /\ RunAgrees(e)'
        PROVE  LocalTypes /\ \A d \in Executors : RunAgrees(d)'
    <2>1. ASSUME NEW d \in Executors \ {e} PROVE RunAgrees(d)'
      BY <1>1, RunStays DEF Acts
    <2> QED BY <1>1, <2>1
  <1>2. ASSUME UNCHANGED local
        PROVE  LocalTypes /\ \A d \in Executors : RunAgrees(d)'
    <2>1. pc' = pc /\ batch' = batch /\ cur' = cur
      BY <1>2 DEF local
    <2>2. LocalTypes
      BY <2>1 DEF LocalTypes, IInv, TypeOK
    <2>3. \A d \in Executors : RunAgrees(d)'
      BY <2>1, RunStays
    <2> QED BY <2>2, <2>3
  <1>3. ASSUME NEW a \in Assets, NEW r \in Reviews, NEW digest \in BOOLEAN,
               StoreAsset(a, r, digest)
        PROVE  UNCHANGED local
    BY <1>3 DEF StoreAsset
  <1>4. ASSUME NEW r \in Reviews, NEW status \in ReviewStatus, DecideReview(r, status)
        PROVE  UNCHANGED local
    BY <1>4 DEF DecideReview
  <1>5. ASSUME NEW a \in Assets, NEW action \in Requests, EnqueueLifecycle(a, action)
        PROVE  UNCHANGED local
    BY <1>5 DEF EnqueueLifecycle
  <1>6. ASSUME NEW a \in Assets, AssetFallsDue(a) PROVE UNCHANGED local
    BY <1>6 DEF AssetFallsDue
  <1>7. ASSUME NEW n \in JobIds, RetryFallsDue(n) \/ ClaimGrowsStale(n) PROVE UNCHANGED local
    BY <1>7 DEF RetryFallsDue, ClaimGrowsStale
  <1>8. ASSUME NEW e \in Executors, StartRun(e) \/ Step(e) \/ StorageFails(e) \/ RunDies(e)
        PROVE  LocalTypes /\ Acts(e) /\ RunAgrees(e)'
    <2>1. CASE StartRun(e) \/ ClaimMore(e)
      BY <2>1, ClaimRuns
    <2>2. CASE EnqueueExpiredAssets(e)
      BY <2>2, EnqueueRuns
    <2>3. CASE NextJob(e)
      BY <2>3, NextJobRuns
    <2>4. CASE StatPromoted(e) \/ CopyToOriginals(e)
      BY <2>4, PromoteRuns
    <2>5. CASE StatDoomed(e)
      BY <2>5, DiscardRuns
    <2>6. CASE RemoveFromQuarantine(e)
      BY <2>6, RemoveRuns
    <2>7. CASE \/ StorageFails(e) \/ CompleteLifecycle(e) \/ HandleError(e)
               \/ RecordFailure(e) \/ RunDies(e)
      BY <2>7, OtherRuns
    <2> QED BY <1>8, <2>1, <2>2, <2>3, <2>4, <2>5, <2>6, <2>7 DEF Step
  <1> QED BY <1>1, <1>2, <1>3, <1>4, <1>5, <1>6, <1>7, <1>8 DEF Next

-----------------------------------------------------------------------------
(* The theorems. *)

LEMMA NextOthers ==
  ASSUME TypeOK, Next
  PROVE  faults' \in Nat /\ reviews' \in [Reviews -> ReviewStatus]
  <1>1. Fault => faults' \in Nat
    BY DEF Fault, TypeOK
  <1>2. ASSUME NEW r \in Reviews, NEW status \in ReviewStatus, DecideReview(r, status)
        PROVE  faults' \in Nat /\ reviews' \in [Reviews -> ReviewStatus]
    BY <1>2 DEF DecideReview, TypeOK
  <1>3. ASSUME UNCHANGED reviews, Fault \/ UNCHANGED faults
        PROVE  faults' \in Nat /\ reviews' \in [Reviews -> ReviewStatus]
    BY <1>1, <1>3 DEF TypeOK
  <1>4. ASSUME NEW a \in Assets, NEW r \in Reviews, NEW digest \in BOOLEAN,
               StoreAsset(a, r, digest)
        PROVE  UNCHANGED <<reviews, faults>>
    BY <1>4 DEF StoreAsset
  <1>5. ASSUME NEW a \in Assets, NEW action \in Requests, EnqueueLifecycle(a, action)
        PROVE  UNCHANGED <<reviews, faults>>
    BY <1>5 DEF EnqueueLifecycle
  <1>6. ASSUME NEW a \in Assets, AssetFallsDue(a) PROVE UNCHANGED <<reviews, faults>>
    BY <1>6 DEF AssetFallsDue
  <1>7. ASSUME NEW n \in JobIds, RetryFallsDue(n) \/ ClaimGrowsStale(n)
        PROVE  UNCHANGED reviews /\ (Fault \/ UNCHANGED faults)
    BY <1>7 DEF RetryFallsDue, ClaimGrowsStale
  <1>8. ASSUME NEW e \in Executors, StartRun(e) \/ Step(e) PROVE UNCHANGED <<reviews, faults>>
    <2>1. CASE StartRun(e) \/ EnqueueExpiredAssets(e) \/ ClaimMore(e) \/ NextJob(e)
      BY <2>1 DEF StartRun, EnqueueExpiredAssets, ClaimMore, NextJob, tables
    <2>2. CASE StatPromoted(e) \/ CopyToOriginals(e) \/ StatDoomed(e) \/ RemoveFromQuarantine(e)
      BY <2>2 DEF StatPromoted, CopyToOriginals, StatDoomed, RemoveFromQuarantine, tables
    <2>3. CASE CompleteLifecycle(e) \/ HandleError(e) \/ RecordFailure(e)
      BY <2>3 DEF CompleteLifecycle, HandleError, RecordFailure, tables
    <2> QED BY <1>8, <2>1, <2>2, <2>3 DEF Step
  <1>9. ASSUME NEW e \in Executors, StorageFails(e) \/ RunDies(e)
        PROVE  UNCHANGED reviews /\ (Fault \/ UNCHANGED faults)
    BY <1>9 DEF StorageFails, RunDies, tables
  <1> QED BY <1>2, <1>3, <1>4, <1>5, <1>6, <1>7, <1>8, <1>9 DEF Next

LEMMA NextIInv == ASSUME IInv, Next PROVE IInv'
  <1>1. TypeOK
    BY DEF IInv
  <1>2. TableStep /\ BucketStep
    BY <1>1, NextTables, NextBuckets
  <1>3. HeldKept
    BY <1>2, HeldIsKept
  <1>4. LocalTypes /\ \A e \in Executors : RunAgrees(e)'
    BY <1>3, NextRuns
  <1>5. (\A n \in JobIds : JobAgrees(n)') /\ \A a \in Assets : AssetAgrees(a)'
    BY <1>2, JobsAgreeAfter, AssetsAgreeAfter
  <1>6. TypeOK'
    <2>1. jobs' \in [JobIds -> JobRow] /\ assets' \in [Assets -> AssetRow]
      BY <1>1, <1>2, TableTypes
    <2>2. quarantine' \subseteq Assets /\ originals' \subseteq Assets
      BY <1>2 DEF BucketStep
    <2>3. faults' \in Nat /\ reviews' \in [Reviews -> ReviewStatus]
      BY <1>1, NextOthers
    <2>4. \A e \in Executors :
             pc'[e] \notin {"idle", "enqueue", "claimMore", "next"} => cur'[e] # NoJob
      BY <1>4 DEF LocalTypes, RunAgrees, Works
    <2> QED BY <1>4, <2>1, <2>2, <2>3, <2>4 DEF TypeOK, LocalTypes
  <1> QED BY <1>4, <1>5, <1>6 DEF IInv

LEMMA StutterIInv == ASSUME IInv, UNCHANGED vars PROVE IInv'
  <1>1. TypeOK'
    BY DEF IInv, TypeOK, vars
  <1>2. \A n \in JobIds : JobAgrees(n)'
    BY DEF IInv, JobAgrees, vars
  <1>3. \A a \in Assets : AssetAgrees(a)'
    BY DEF IInv, AssetAgrees, vars
  <1>4. \A e \in Executors : RunAgrees(e)'
    BY DEF IInv, RunAgrees, vars
  <1> QED BY <1>1, <1>2, <1>3, <1>4 DEF IInv

\* The inductive invariant holds of the tables, the buckets and every run.
THEOREM Inductive == Spec => []IInv
  <1>1. Init => IInv
    BY InitIInv
  <1>2. IInv /\ [Next]_vars => IInv'
    BY NextIInv, StutterIInv
  <1> QED BY <1>1, <1>2, PTL DEF Spec

\* Every variable has its type, whatever the number of assets and runs.
THEOREM TypeCorrect == Spec => []TypeOK
  <1>1. IInv => TypeOK
    BY DEF IInv
  <1> QED BY <1>1, Inductive, PTL

\* A set without two different members has none or one.
LEMMA AtMostOne ==
  ASSUME NEW S, \A m, n \in S : m = n
  PROVE  IsFiniteSet(S) /\ Cardinality(S) = IF S = {} THEN 0 ELSE 1
  <1>1. CASE S = {}
    BY <1>1, FS_EmptySet
  <1>2. CASE S # {}
    <2>1. PICK x : x \in S
      BY <1>2
    <2>2. S = {x}
      BY <2>1
    <2> QED BY <1>2, <2>2, FS_Singleton
  <1> QED BY <1>1, <1>2

LEMMA OneVerdictFollows == ASSUME IInv PROVE OneVerdict
  <1> SUFFICES ASSUME NEW a \in Assets
               PROVE  /\ Cardinality(Completed(a)) =
                            IF assets[a].state \in {"absent", "quarantine"} THEN 0 ELSE 1
                      /\ \A n \in Completed(a) : assets[a].state = Verdict[jobs[n].action]
                      /\ Cardinality(ActiveJobs(a)) <= 1
                      /\ ActiveJobs(a) # {} => assets[a].state = "quarantine"
    BY DEF OneVerdict
  <1>1. \A n \in JobIds : JobAgrees(n)
    BY DEF IInv
  <1>2. \A m, n \in Completed(a) : m = n
    BY <1>1 DEF Completed, JobAgrees
  <1>3. \A m, n \in ActiveJobs(a) : m = n
    BY <1>1 DEF ActiveJobs, JobAgrees
  <1>4. \A n \in Completed(a) :
           /\ assets[a].state = Verdict[jobs[n].action]
           /\ assets[a].state \in {"approved", "rejected", "expired"}
    <2>1. ASSUME NEW n \in Completed(a)
          PROVE  /\ assets[a].state = Verdict[jobs[n].action]
                 /\ assets[a].state \in {"approved", "rejected", "expired"}
      <3>1. n \in JobIds /\ assets[a].state = Verdict[jobs[n].action]
        BY <1>1 DEF Completed, JobAgrees
      <3> QED BY <3>1, ActionType, VerdictType DEF IInv
    <2> QED BY <2>1
  <1>5. Completed(a) = {} <=> assets[a].state \in {"absent", "quarantine"}
    <2>1. AssetAgrees(a)
      BY DEF IInv
    <2> QED BY <1>4, <2>1 DEF AssetAgrees, Completed
  <1>6. Cardinality(Completed(a)) = IF assets[a].state \in {"absent", "quarantine"} THEN 0 ELSE 1
    BY <1>2, <1>5, AtMostOne
  <1>7. Cardinality(ActiveJobs(a)) \in {0, 1}
    BY <1>3, AtMostOne
  <1>8. ActiveJobs(a) # {} => assets[a].state = "quarantine"
    BY <1>1 DEF ActiveJobs, JobAgrees
  <1> QED BY <1>4, <1>6, <1>7, <1>8

\* However many runs overlap, die or outlive their claims, an asset gets one
\* verdict, its only tombstone's, and one job at a time works towards it.
THEOREM OneVerdictHolds == Spec => []OneVerdict
  <1>1. IInv => OneVerdict
    BY OneVerdictFollows
  <1> QED BY <1>1, Inductive, PTL

\* The row of a decided asset is true of both buckets at every moment.
THEOREM BucketsMatch == Spec => []BucketsMatchVerdicts
  <1>1. IInv => BucketsMatchVerdicts
    BY DEF IInv, AssetAgrees, BucketsMatchVerdicts
  <1> QED BY <1>1, Inductive, PTL

\* What an object loses its last copy by.
Bytes ==
    \A a \in quarantine \cup originals :
       a \notin quarantine' \cup originals' =>
          \E e \in Executors : /\ cur[e] # NoJob
                               /\ AssetOf(cur[e]) = a
                               /\ jobs[cur[e]].action # "approve"

LEMMA KeptIsBytes == ASSUME quarantine \subseteq quarantine', originals \subseteq originals' PROVE Bytes
  BY DEF Bytes

LEMMA RemovalIsBytes ==
  ASSUME IInv, NEW e \in Executors, pc[e] = "remove",
         quarantine' = quarantine \ {CurAsset(e)}, originals \subseteq originals'
  PROVE  Bytes
  <1>1. /\ cur[e] # NoJob
        /\ jobs[cur[e]].action = "approve" => AssetOf(cur[e]) \in originals
    BY DEF IInv, RunAgrees, Works, PC
  <1> QED BY <1>1 DEF Bytes, CurAsset

LEMMA NextBytes == ASSUME IInv, Next PROVE Bytes
  <1>1. originals \subseteq originals'
    BY NextBuckets DEF IInv, BucketStep
  <1>2. ASSUME NEW e \in Executors, RemoveFromQuarantine(e) PROVE Bytes
    BY <1>1, <1>2, RemovalIsBytes DEF RemoveFromQuarantine
  <1>3. ASSUME NEW e \in Executors, StorageFails(e) PROVE Bytes
    <2>1. CASE pc[e] = "remove" /\ quarantine' = quarantine \ {CurAsset(e)}
      BY <1>1, <2>1, RemovalIsBytes
    <2>2. CASE UNCHANGED quarantine
      BY <1>1, <2>2, KeptIsBytes
    <2> QED BY <1>3, <2>1, <2>2 DEF StorageFails, storage
  <1>4. ASSUME NEW a \in Assets, NEW r \in Reviews, NEW digest \in BOOLEAN,
               StoreAsset(a, r, digest)
        PROVE  quarantine \subseteq quarantine'
    BY <1>4 DEF StoreAsset
  <1>5. ASSUME NEW r \in Reviews, NEW status \in ReviewStatus, DecideReview(r, status)
        PROVE  quarantine \subseteq quarantine'
    BY <1>5 DEF DecideReview, storage
  <1>6. ASSUME NEW a \in Assets, NEW action \in Requests, EnqueueLifecycle(a, action)
        PROVE  quarantine \subseteq quarantine'
    BY <1>6 DEF EnqueueLifecycle, storage
  <1>7. ASSUME NEW a \in Assets, AssetFallsDue(a) PROVE quarantine \subseteq quarantine'
    BY <1>7 DEF AssetFallsDue, storage
  <1>8. ASSUME NEW n \in JobIds, RetryFallsDue(n) \/ ClaimGrowsStale(n)
        PROVE  quarantine \subseteq quarantine'
    BY <1>8 DEF RetryFallsDue, ClaimGrowsStale, storage
  <1>9. ASSUME NEW e \in Executors,
               \/ StartRun(e) \/ EnqueueExpiredAssets(e) \/ ClaimMore(e) \/ NextJob(e)
               \/ StatPromoted(e) \/ CopyToOriginals(e) \/ StatDoomed(e)
               \/ CompleteLifecycle(e) \/ HandleError(e) \/ RecordFailure(e) \/ RunDies(e)
        PROVE  quarantine \subseteq quarantine'
    <2>1. quarantine' = quarantine
      BY <1>9 DEF StartRun, EnqueueExpiredAssets, ClaimMore, NextJob, StatPromoted,
         CopyToOriginals, StatDoomed, CompleteLifecycle, HandleError, RecordFailure,
         RunDies, storage
    <2> QED BY <2>1
  <1> QED BY <1>1, <1>2, <1>3, <1>4, <1>5, <1>6, <1>7, <1>8, <1>9, KeptIsBytes DEF Next, Step

\* No promotion loses bytes: the last copy of an object goes only by a run
\* that executes a rejection or an expiry.
THEOREM PromotionKeeps == Spec => PromotionKeepsBytes
  <1>1. IInv /\ [Next]_vars => [Bytes]_vars
    BY NextBytes
  <1>2. Bytes <=> \A a \in quarantine \cup originals :
                     a \notin quarantine' \cup originals' =>
                        \E e \in Executors : /\ cur[e] # NoJob
                                             /\ AssetOf(cur[e]) = a
                                             /\ jobs[cur[e]].action # "approve"
    BY DEF Bytes
  <1> QED BY <1>1, <1>2, Inductive, PTL DEF Spec, PromotionKeepsBytes

\* A run that moves with a job it does not own.
Fenced ==
    \A e \in Executors :
       (/\ cur[e] # NoJob /\ pc'[e] # pc[e]
        /\ jobs[cur[e]].status # "claimed" \/ jobs[cur[e]].owner # e)
       => UNCHANGED tables

LEMMA NextFenced == ASSUME IInv, Next PROVE Fenced
  <1> SUFFICES ASSUME NEW e \in Executors, cur[e] # NoJob, pc'[e] # pc[e],
                      ~OwnsJob(e, cur[e])
               PROVE  UNCHANGED tables
    BY DEF Fenced, OwnsJob
  <1>1. pc[e] \in Works
    BY DEF IInv, RunAgrees
  <1>2. ASSUME NEW d \in Executors, StartRun(d) \/ Step(d) \/ StorageFails(d) \/ RunDies(d)
        PROVE  d = e
    <2>1. HeldKept
      BY <1>2, NextTables, NextBuckets, HeldIsKept DEF IInv
    <2>2. Acts(d)
      <3>1. CASE StartRun(d) \/ ClaimMore(d)
        BY <2>1, <3>1, ClaimRuns
      <3>2. CASE EnqueueExpiredAssets(d)
        BY <2>1, <3>2, EnqueueRuns
      <3>3. CASE NextJob(d)
        BY <2>1, <3>3, NextJobRuns
      <3>4. CASE StatPromoted(d) \/ CopyToOriginals(d)
        BY <2>1, <3>4, PromoteRuns
      <3>5. CASE StatDoomed(d)
        BY <2>1, <3>5, DiscardRuns
      <3>6. CASE RemoveFromQuarantine(d)
        BY <2>1, <3>6, RemoveRuns
      <3>7. CASE \/ StorageFails(d) \/ CompleteLifecycle(d) \/ HandleError(d)
                 \/ RecordFailure(d) \/ RunDies(d)
        BY <2>1, <3>7, OtherRuns
      <3> QED BY <1>2, <3>1, <3>2, <3>3, <3>4, <3>5, <3>6, <3>7 DEF Step
    <2> QED BY <2>2 DEF Acts
  <1>3. ASSUME StartRun(e) \/ Step(e) \/ StorageFails(e) \/ RunDies(e)
        PROVE  UNCHANGED tables
    <2>1. CASE StartRun(e) \/ EnqueueExpiredAssets(e) \/ ClaimMore(e)
      BY <1>1, <2>1 DEF StartRun, EnqueueExpiredAssets, ClaimMore, Works
    <2>2. CASE CompleteLifecycle(e)
      BY <2>2 DEF CompleteLifecycle, tables
    <2>3. CASE RecordFailure(e)
      BY <2>3 DEF RecordFailure, tables
    <2>4. CASE \/ NextJob(e) \/ StatPromoted(e) \/ CopyToOriginals(e) \/ StatDoomed(e)
               \/ RemoveFromQuarantine(e) \/ HandleError(e) \/ StorageFails(e) \/ RunDies(e)
      BY <2>4 DEF NextJob, StatPromoted, CopyToOriginals, StatDoomed,
                  RemoveFromQuarantine, HandleError, StorageFails, RunDies
    <2> QED BY <1>3, <2>1, <2>2, <2>3, <2>4 DEF Step
  <1>4. ASSUME NEW a \in Assets, NEW r \in Reviews, NEW digest \in BOOLEAN,
               StoreAsset(a, r, digest)
        PROVE  FALSE
    BY <1>4 DEF StoreAsset, local
  <1>5. ASSUME NEW r \in Reviews, NEW status \in ReviewStatus, DecideReview(r, status)
        PROVE  FALSE
    BY <1>5 DEF DecideReview, local
  <1>6. ASSUME NEW a \in Assets, NEW action \in Requests, EnqueueLifecycle(a, action)
        PROVE  FALSE
    BY <1>6 DEF EnqueueLifecycle, local
  <1>7. ASSUME NEW a \in Assets, AssetFallsDue(a) PROVE FALSE
    BY <1>7 DEF AssetFallsDue, local
  <1>8. ASSUME NEW n \in JobIds, RetryFallsDue(n) \/ ClaimGrowsStale(n) PROVE FALSE
    BY <1>8 DEF RetryFallsDue, ClaimGrowsStale, local
  <1> QED BY <1>2, <1>3, <1>4, <1>5, <1>6, <1>7, <1>8 DEF Next

\* A run that lost its claim changes no row of any table any more.
THEOREM StaleClaimsFenced == Spec => StaleClaimsAreFenced
  <1>1. IInv /\ [Next]_vars => [Fenced]_vars
    BY NextFenced
  <1>2. Fenced <=> \A e \in Executors :
                      (/\ cur[e] # NoJob /\ pc'[e] # pc[e]
                       /\ jobs[cur[e]].status # "claimed" \/ jobs[cur[e]].owner # e)
                      => UNCHANGED tables
    BY DEF Fenced
  <1> QED BY <1>1, <1>2, Inductive, PTL DEF Spec, StaleClaimsAreFenced

-----------------------------------------------------------------------------
(* Refinement of the vault. *)

States == [a \in Assets |-> assets[a].state]

VaultStep == [Vault!Next]_<<States, quarantine, originals>>

LEMMA InitVault == Init => Vault!Init
  BY DEF Init, Vault!Init, NoAsset

\* One asset changed: so did one state, at most.
LEMMA StateChanges ==
  ASSUME TypeOK, NEW a \in Assets, NEW row, assets' = [assets EXCEPT ![a] = row]
  PROVE  States' = [States EXCEPT ![a] = row.state]
  <1>1. assets'[a] = row /\ \A b \in Assets \ {a} : assets'[b] = assets[b]
    BY DEF TypeOK
  <1>2. States' = [b \in Assets |-> assets'[b].state]
    BY DEF States
  <1>3. \A b \in Assets : assets'[b].state = [States EXCEPT ![a] = row.state][b]
    BY <1>1 DEF States
  <1> QED BY <1>2, <1>3 DEF States

LEMMA SameStates == ASSUME UNCHANGED <<States, storage>> PROVE VaultStep
  BY DEF VaultStep, storage

\* The object a run works on is undecided as long as it is in quarantine,
\* however late the run.
LEMMA QuarantinedIsUndecided ==
  ASSUME IInv, NEW e \in Executors, pc[e] \in Works, CurAsset(e) \in quarantine
  PROVE  CurAsset(e) \in Assets /\ Vault!Undecided(CurAsset(e))
  <1>1. cur[e] \in JobIds /\ CurAsset(e) \in Assets /\ CurAsset(e) = AssetOf(cur[e])
    BY CurType DEF IInv
  <1>2. assets[CurAsset(e)].state # "absent"
    <2>1. Held(cur[e])
      BY DEF Held
    <2> QED BY <1>1, <2>1, HeldAgrees
  <1>3. assets[CurAsset(e)].state \notin {"approved", "rejected", "expired"}
    BY <1>1 DEF IInv, AssetAgrees
  <1>4. assets[CurAsset(e)].state \in {"absent", "quarantine", "approved", "rejected", "expired"}
    BY <1>1 DEF IInv, TypeOK, AssetRow
  <1> QED BY <1>1, <1>2, <1>3, <1>4 DEF Vault!Undecided

LEMMA StoreIsVaultStep ==
  ASSUME IInv, NEW a \in Assets, NEW r \in Reviews, NEW digest \in BOOLEAN,
         StoreAsset(a, r, digest)
  PROVE  VaultStep
  <1> DEFINE row == [NoAsset EXCEPT !.state = "quarantine", !.review = r, !.digest = digest]
  <1>1. row.state = "quarantine"
    BY DEF NoAsset
  <1>2. /\ assets' = [assets EXCEPT ![a] = row] /\ assets[a].state = "absent"
        /\ quarantine' = quarantine \cup {a} /\ originals' = originals
    BY DEF StoreAsset
  <1> HIDE DEF row
  <1>3. States' = [States EXCEPT ![a] = "quarantine"]
    BY <1>1, <1>2, StateChanges DEF IInv
  <1>4. Vault!Store(a)
    BY <1>2, <1>3 DEF Vault!Store, States
  <1> QED BY <1>4 DEF VaultStep, Vault!Next

\* A copy or a removal of the run's object, or of one that is gone.
LEMMA CopyIsVaultStep ==
  ASSUME IInv, NEW e \in Executors, pc[e] = "copy",
         CopyTo(CurAsset(e)), assets' = assets, quarantine' = quarantine
  PROVE  VaultStep
  <1>1. CurAsset(e) \in quarantine /\ originals' = originals \cup {CurAsset(e)}
    BY DEF CopyTo
  <1>2. CurAsset(e) \in Assets /\ Vault!Undecided(CurAsset(e))
    BY <1>1, QuarantinedIsUndecided DEF Works, PC
  <1>3. States' = States
    BY DEF States
  <1>4. Vault!Copy(CurAsset(e))
    BY <1>1, <1>2, <1>3 DEF Vault!Copy, States
  <1> QED BY <1>2, <1>4 DEF VaultStep, Vault!Next

LEMMA RemovalIsVaultStep ==
  ASSUME IInv, NEW e \in Executors, pc[e] = "remove",
         quarantine' = quarantine \ {CurAsset(e)}, assets' = assets, originals' = originals
  PROVE  VaultStep
  <1>1. States' = States
    BY DEF States
  <1>2. CASE CurAsset(e) \in quarantine
    <2>1. CurAsset(e) \in Assets /\ Vault!Undecided(CurAsset(e))
      BY <1>2, QuarantinedIsUndecided DEF Works, PC
    <2>2. Vault!Remove(CurAsset(e))
      BY <1>1, <1>2, <2>1 DEF Vault!Remove, States
    <2> QED BY <2>1, <2>2 DEF VaultStep, Vault!Next
  <1>3. CASE CurAsset(e) \notin quarantine
    <2>1. quarantine' = quarantine
      BY <1>3
    <2> QED BY <1>1, <2>1, SameStates DEF storage
  <1> QED BY <1>2, <1>3

LEMMA StorageFailsIsVaultStep ==
  ASSUME IInv, NEW e \in Executors, StorageFails(e)
  PROVE  VaultStep
  <1>1. assets' = assets /\ States' = States
    BY DEF StorageFails, tables, States
  <1>2. CASE UNCHANGED storage
    BY <1>1, <1>2, SameStates
  <1>3. CASE pc[e] = "copy" /\ CopyTo(CurAsset(e)) /\ UNCHANGED quarantine
    BY <1>1, <1>3, CopyIsVaultStep
  <1>4. CASE pc[e] = "remove" /\ quarantine' = quarantine \ {CurAsset(e)} /\ UNCHANGED originals
    BY <1>1, <1>4, RemovalIsVaultStep
  <1> QED BY <1>2, <1>3, <1>4 DEF StorageFails

\* The completion of a job decides its asset: the run saw the quarantine
\* clear, and the original if it is an approval, and they still are.
LEMMA CompletionIsVaultStep ==
  ASSUME IInv, NEW e \in Executors, CompleteLifecycle(e)
  PROVE  VaultStep
  <1>1. pc[e] = "complete" /\ UNCHANGED storage
    BY DEF CompleteLifecycle
  <1>2. CASE ~(OwnsJob(e, cur[e]) /\ assets[AssetOf(cur[e])].state = "quarantine")
    <2>1. assets' = assets
      BY <1>2 DEF CompleteLifecycle
    <2>2. States' = States
      BY <2>1 DEF States
    <2> QED BY <1>1, <2>2, SameStates
  <1>3. CASE OwnsJob(e, cur[e]) /\ assets[AssetOf(cur[e])].state = "quarantine"
    <2> DEFINE a == AssetOf(cur[e])
               verdict == Verdict[jobs[cur[e]].action]
               row == [assets[a] EXCEPT !.state = verdict, !.due = FALSE]
    <2>1. cur[e] \in JobIds /\ a \in Assets
      BY <1>1, CompletingJob DEF IInv
    <2>2. assets' = [assets EXCEPT ![a] = row]
      BY <1>3 DEF CompleteLifecycle
    <2>3. row.state = verdict
      BY <2>1 DEF IInv, TypeOK, AssetRow
    <2>4. /\ verdict \in {"approved", "rejected", "expired"}
          /\ verdict = "approved" => jobs[cur[e]].action = "approve"
      BY <2>1, ActionType, VerdictType DEF IInv
    <2>5. a \notin quarantine /\ (jobs[cur[e]].action = "approve" => a \in originals)
      BY <1>1 DEF IInv, RunAgrees
    <2> HIDE DEF row, verdict
    <2>6. States' = [States EXCEPT ![a] = verdict]
      BY <2>1, <2>2, <2>3, StateChanges DEF IInv
    <2>7. PICK b \in Assets, v \in {"approved", "rejected", "expired"} : b = a /\ v = verdict
      BY <2>1, <2>4
    <2>8. States' = [States EXCEPT ![b] = v] /\ States[b] = "quarantine"
      BY <1>3, <2>6, <2>7 DEF States
    <2>9. b \notin quarantine /\ (v = "approved" => b \in originals)
      BY <2>4, <2>5, <2>7
    <2>10. Vault!Decide(b, v)
      BY <1>1, <2>8, <2>9 DEF Vault!Decide, Vault!Undecided, States, storage
    <2> QED BY <2>10 DEF VaultStep, Vault!Next
  <1> QED BY <1>2, <1>3

LEMMA NextIsVaultStep == ASSUME IInv, Next PROVE VaultStep
  <1>1. ASSUME NEW a \in Assets, NEW r \in Reviews, NEW digest \in BOOLEAN,
               StoreAsset(a, r, digest)
        PROVE  VaultStep
    BY <1>1, StoreIsVaultStep
  <1>2. ASSUME UNCHANGED <<assets, storage>> PROVE VaultStep
    BY <1>2, SameStates DEF States
  <1>3. ASSUME NEW r \in Reviews, NEW status \in ReviewStatus, DecideReview(r, status)
        PROVE  VaultStep
    BY <1>2, <1>3 DEF DecideReview
  <1>4. ASSUME NEW a \in Assets, NEW action \in Requests, EnqueueLifecycle(a, action)
        PROVE  VaultStep
    BY <1>2, <1>4 DEF EnqueueLifecycle
  <1>5. ASSUME NEW a \in Assets, AssetFallsDue(a) PROVE VaultStep
    <2> DEFINE row == [assets[a] EXCEPT !.due = TRUE]
    <2>1. assets' = [assets EXCEPT ![a] = row] /\ UNCHANGED storage
      BY <1>5 DEF AssetFallsDue
    <2>2. row.state = assets[a].state
      BY DEF IInv, TypeOK, AssetRow
    <2> HIDE DEF row
    <2>3. States' = States
      BY <2>1, <2>2, StateChanges DEF IInv, States
    <2> QED BY <2>1, <2>3, SameStates
  <1>6. ASSUME NEW n \in JobIds, RetryFallsDue(n) \/ ClaimGrowsStale(n) PROVE VaultStep
    BY <1>2, <1>6 DEF RetryFallsDue, ClaimGrowsStale
  <1>7. ASSUME NEW e \in Executors, CopyToOriginals(e) PROVE VaultStep
    <2>1. pc[e] = "copy" /\ assets' = assets /\ quarantine' = quarantine
      BY <1>7 DEF CopyToOriginals, tables
    <2>2. CASE CopyTo(CurAsset(e))
      BY <2>1, <2>2, CopyIsVaultStep
    <2>3. CASE UNCHANGED originals
      BY <1>2, <2>1, <2>3 DEF storage
    <2> QED BY <1>7, <2>2, <2>3 DEF CopyToOriginals
  <1>8. ASSUME NEW e \in Executors, RemoveFromQuarantine(e) PROVE VaultStep
    BY <1>8, RemovalIsVaultStep DEF RemoveFromQuarantine, tables
  <1>9. ASSUME NEW e \in Executors, StorageFails(e) \/ CompleteLifecycle(e) PROVE VaultStep
    BY <1>9, StorageFailsIsVaultStep, CompletionIsVaultStep
  <1>10. ASSUME NEW e \in Executors,
                \/ StartRun(e) \/ EnqueueExpiredAssets(e) \/ ClaimMore(e) \/ NextJob(e)
                \/ StatPromoted(e) \/ StatDoomed(e) \/ HandleError(e)
                \/ RecordFailure(e) \/ RunDies(e)
         PROVE  VaultStep
    <2>1. UNCHANGED <<assets, storage>>
      BY <1>10 DEF StartRun, EnqueueExpiredAssets, ClaimMore, NextJob, StatPromoted,
         StatDoomed, HandleError, RecordFailure, RunDies, tables
    <2> QED BY <1>2, <2>1
  <1> QED BY <1>1, <1>3, <1>4, <1>5, <1>6, <1>7, <1>8, <1>9, <1>10 DEF Next, Step

\* The lifecycle implements the vault: every step stores, copies, removes or
\* decides as the vault does, or leaves rows and buckets alone.
THEOREM Refinement == Spec => ImplementsVault
  <1>1. ASSUME IInv, [Next]_vars
        PROVE  [Vault!Next]_(Vault!vaultVars)
    <2>1. CASE Next
      BY <1>1, <2>1, NextIsVaultStep DEF VaultStep, States, Vault!vaultVars
    <2>2. CASE UNCHANGED vars
      BY <2>2 DEF vars, Vault!vaultVars
    <2> QED BY <1>1, <2>1, <2>2
  <1> QED BY <1>1, InitVault, Inductive, PTL DEF ImplementsVault, Vault!Spec, Spec
=============================================================================
