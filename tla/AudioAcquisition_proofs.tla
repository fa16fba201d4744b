---------------------- MODULE AudioAcquisition_proofs ----------------------
(***************************************************************************)
(* Safety of acquisition, for any reviews, jobs, workers and clocks.       *)
(***************************************************************************)
EXTENDS AudioAcquisition, TLAPS

-----------------------------------------------------------------------------
(* The inductive invariant. *)

\* The conjuncts of RecordsAgree, row by row.
PermissionAgrees(r) ==
    permission[r] = IF review[r].status = "approved" THEN review[r].granted ELSE {}

JobAgrees(j) ==
    /\ job[j].status = "completed" <=> job[j].asset # None
    /\ job[j].status = "completed" =>
          /\ assets[job[j].asset] = job[j].review
          /\ objects[job[j].asset] \in IF job[j].checked THEN {"meant"} ELSE {"meant", "other"}
          /\ \A i \in Jobs \ {j} : job[i].asset # job[j].asset

AssetAgrees(o) == assets[o] # None =>
    /\ \E j \in Jobs : job[j].asset = o
    /\ review[assets[o]].status \in {"approved", "expired"}

\* A claim is a time; a worker holds a claim of its job that is no newer than
\* the job's, and the same only if it is the last to have claimed it.
ClaimAgrees(w) == task[w].pc # "idle" =>
    /\ task[w].job \in Jobs /\ task[w].token \in Times
    /\ job[task[w].job].status \in {"processing", "completed"}
    /\ task[w].token <= job[task[w].job].claimed
    /\ task[w].token = job[task[w].job].claimed => claimant[task[w].job] = w

ClaimsAreTimed ==
    \A j \in Jobs : job[j].status \in {"processing", "completed"} => job[j].claimed \in Times

\* The object a worker holds is no other worker's and no asset's.
Holds(w) == task[w].pc \in {"check", "complete"}

ObjectAgrees(w) == Holds(w) =>
    /\ task[w].object \in Objects
    /\ objects[task[w].object] \in Content
    /\ assets[task[w].object] = None
    /\ \A v \in Workers \ {w} : Holds(v) => task[v].object # task[w].object
    /\ task[w].pc = "complete" => Verified(w)

IInv ==
    /\ TypeOK
    /\ \A r \in Reviews : PermissionAgrees(r)
    /\ \A j \in Jobs : JobAgrees(j)
    /\ \A o \in Objects : AssetAgrees(o)
    /\ \A w \in Workers : ClaimAgrees(w) /\ ObjectAgrees(w)
    /\ ClaimsAreTimed

LEMMA RecordsPerRow ==
  ASSUME IInv
  PROVE  RecordsAgree
  BY DEF IInv, RecordsAgree, PermissionAgrees, JobAgrees, AssetAgrees

\* An object that has not been used has no asset and no holder.
LEMMA UnusedIsFree ==
  ASSUME IInv, NEW o \in Objects, objects[o] = "unused"
  PROVE  assets[o] = None /\ \A w \in Workers : Holds(w) => task[w].object # o
  <1>1. \A j \in Jobs : job[j].asset # o
    BY NoneAssumption DEF IInv, JobAgrees
  <1>2. assets[o] = None
    BY <1>1 DEF IInv, AssetAgrees
  <1>3. \A w \in Workers : Holds(w) => task[w].object # o
    BY DEF IInv, ObjectAgrees, Content
  <1> QED BY <1>2, <1>3

LEMMA InitIInv == ASSUME Init PROVE IInv
  <1> USE DEF Init
  <1>1. TypeOK
    BY DEF TypeOK, Task, Idle
  <1>2. \A r \in Reviews : PermissionAgrees(r)
    BY DEF PermissionAgrees, NoReview
  <1>3. \A j \in Jobs : JobAgrees(j)
    BY DEF JobAgrees, NoJob
  <1>4. \A o \in Objects : AssetAgrees(o)
    BY DEF AssetAgrees
  <1>5. \A w \in Workers : ClaimAgrees(w) /\ ObjectAgrees(w)
    BY DEF ClaimAgrees, ObjectAgrees, Holds, Idle
  <1>6. ClaimsAreTimed
    BY DEF ClaimsAreTimed, NoJob
  <1> QED BY <1>1, <1>2, <1>3, <1>4, <1>5, <1>6 DEF IInv

-----------------------------------------------------------------------------
(* Decisions on reviews. *)

\* A step that changes only reviews and permissions keeps the rest, if it
\* leaves no review that has been approved pending or rejected.
LEMMA ReviewOnly ==
  ASSUME IInv, TypeOK', \A r \in Reviews : PermissionAgrees(r)',
         UNCHANGED <<job, assets, objects, task, claimant>>,
         \A r \in Reviews : review[r].status \in {"approved", "expired"} =>
                            review'[r].status \in {"approved", "expired"}
  PROVE  IInv'
  <1>1. \A j \in Jobs : JobAgrees(j)'
    BY DEF IInv, JobAgrees
  <1>2. \A o \in Objects : AssetAgrees(o)'
    BY DEF IInv, TypeOK, AssetAgrees
  <1>3. \A w \in Workers : ClaimAgrees(w)' /\ ObjectAgrees(w)'
    BY DEF IInv, ClaimAgrees, ObjectAgrees, Holds, Verified
  <1>4. ClaimsAreTimed'
    BY DEF IInv, ClaimsAreTimed
  <1> QED BY <1>1, <1>2, <1>3, <1>4 DEF IInv

LEMMA CreateReviewStep ==
  ASSUME IInv, NEW r \in Reviews, NEW item \in Items, NEW requested \in SUBSET Uses \ {{}},
         NEW complete \in BOOLEAN, CreateReview(r, item, requested, complete)
  PROVE  IInv'
  <1> USE DEF CreateReview
  <1>1. review'[r] \in ReviewRow /\ review[r].status = "none"
    BY DEF IInv, TypeOK, ReviewRow, NoReview
  <1>2. TypeOK'
    BY <1>1 DEF IInv, TypeOK
  <1>3. \A q \in Reviews : PermissionAgrees(q)'
    BY <1>1 DEF IInv, TypeOK, PermissionAgrees
  <1> QED BY <1>1, <1>2, <1>3, ReviewOnly DEF IInv, TypeOK

\* A review with a status is a row.
LEMMA ReviewIsRow ==
  ASSUME IInv, NEW r \in Reviews, review[r].status # "none"
  PROVE  review[r] \in ReviewRow
  BY DEF IInv, TypeOK, NoReview

LEMMA ApproveReviewStep ==
  ASSUME IInv, NEW r \in Reviews, NEW uses \in SUBSET Uses, ApproveReview(r, uses)
  PROVE  IInv'
  <1> USE DEF ApproveReview, Decide, EvidenceComplete
  <1>1. review[r] \in ReviewRow
    BY ReviewIsRow
  <1>2. TypeOK'
    BY <1>1 DEF IInv, TypeOK, ReviewRow
  <1>3. \A q \in Reviews : PermissionAgrees(q)'
    BY <1>1 DEF IInv, TypeOK, PermissionAgrees, ReviewRow
  <1> QED BY <1>1, <1>2, <1>3, ReviewOnly DEF IInv, TypeOK, ReviewRow

LEMMA RejectReviewStep ==
  ASSUME IInv, NEW r \in Reviews, RejectReview(r)
  PROVE  IInv'
  <1> USE DEF RejectReview, Decide, EvidenceComplete
  <1>1. review[r] \in ReviewRow
    BY ReviewIsRow
  <1>2. TypeOK'
    BY <1>1 DEF IInv, TypeOK, ReviewRow
  <1>3. \A q \in Reviews : PermissionAgrees(q)'
    BY <1>1 DEF IInv, TypeOK, PermissionAgrees, ReviewRow
  <1> QED BY <1>1, <1>2, <1>3, ReviewOnly DEF IInv, TypeOK, ReviewRow

LEMMA ExpireReviewStep ==
  ASSUME IInv, NEW r \in Reviews, ExpireReview(r)
  PROVE  IInv'
  <1> USE DEF ExpireReview, Decide, EvidenceComplete
  <1>1. review[r] \in ReviewRow
    BY ReviewIsRow
  <1>2. TypeOK'
    BY <1>1 DEF IInv, TypeOK, ReviewRow
  <1>3. \A q \in Reviews : PermissionAgrees(q)'
    BY <1>1 DEF IInv, TypeOK, PermissionAgrees, ReviewRow
  <1> QED BY <1>1, <1>2, <1>3, ReviewOnly DEF IInv, TypeOK, ReviewRow

-----------------------------------------------------------------------------
(* Jobs and claims. *)

\* A job with a status is a row.
LEMMA JobIsRow ==
  ASSUME IInv, NEW j \in Jobs, job[j].status # "none"
  PROVE  job[j] \in JobRow
  BY DEF IInv, TypeOK, NoJob

LEMMA QueueStep ==
  ASSUME IInv, NEW j \in Jobs, NEW r \in Reviews, NEW checked \in BOOLEAN, Queue(j, r, checked)
  PROVE  IInv'
  <1> USE DEF Queue
  <1>1. /\ job' = [job EXCEPT ![j] = NewJob(r, checked)]
        /\ NewJob(r, checked) \in JobRow
        /\ job[j].status = "none" /\ job[j].asset = None
    BY DEF NewJob, JobRow, NoJob
  <1>2. /\ job'[j] = NewJob(r, checked)
        /\ \A i \in Jobs \ {j} : job'[i] = job[i]
    BY <1>1 DEF IInv, TypeOK
  <1>3. TypeOK'
    BY <1>1 DEF IInv, TypeOK
  <1>4. \A q \in Reviews : PermissionAgrees(q)'
    BY DEF IInv, PermissionAgrees
  <1>5. ASSUME NEW i \in Jobs PROVE JobAgrees(i)'
    <2>1. CASE i = j
      BY <1>2, <2>1 DEF JobAgrees, NewJob
    <2>2. CASE i # j
      <3>1. JobAgrees(i) /\ job'[i] = job[i]
        BY <1>2, <2>2 DEF IInv
      <3>2. job'[j].asset = None
        BY <1>2 DEF NewJob
      <3> QED BY <1>2, <3>1, <3>2 DEF JobAgrees
    <2> QED BY <2>1, <2>2
  <1>6. ASSUME NEW o \in Objects PROVE AssetAgrees(o)'
    <2>1. AssetAgrees(o)
      BY DEF IInv
    <2>2. \A i \in Jobs : job[i].asset = o => i # j
      BY <1>1, NoneAssumption
    <2> QED BY <1>2, <2>1, <2>2 DEF AssetAgrees
  <1>7. ASSUME NEW w \in Workers PROVE ClaimAgrees(w)' /\ ObjectAgrees(w)'
    <2>1. ClaimAgrees(w) /\ ObjectAgrees(w)
      BY DEF IInv
    <2>2. task[w].pc # "idle" => task[w].job \in Jobs \ {j}
      BY <1>1, <2>1 DEF ClaimAgrees
    <2>3. Holds(w) => task[w].pc # "idle"
      BY DEF Holds
    <2>4. Verified(w) /\ Holds(w) => Verified(w)'
      BY <1>2, <2>2, <2>3 DEF Verified
    <2>5. task[w].pc = "complete" => Holds(w)
      BY DEF Holds
    <2> QED BY <1>2, <2>1, <2>2, <2>4, <2>5 DEF ClaimAgrees, ObjectAgrees, Holds
  <1>8. ClaimsAreTimed'
    BY <1>2 DEF IInv, ClaimsAreTimed, NewJob
  <1> QED BY <1>3, <1>4, <1>5, <1>6, <1>7, <1>8 DEF IInv

\* A new claim is newer than every claim of the job that a worker holds: the
\* job was queued, and nobody holds one, or it was claimed a time to live ago.
LEMMA ClaimIsNewer ==
  ASSUME IInv, NEW j \in Jobs, NEW now \in Times,
         job[j].status = "queued" \/ (job[j].status = "processing" /\ Stale(j, now)),
         NEW v \in Workers, task[v].pc # "idle", task[v].job = j
  PROVE  task[v].token < now
  <1>1. /\ job[j].status = "processing" /\ task[v].token \in Times
        /\ task[v].token <= job[j].claimed
    BY DEF IInv, ClaimAgrees
  <1>2. job[j].claimed \in Times
    BY <1>1 DEF IInv, ClaimsAreTimed
  <1>3. job[j].claimed + ClaimTTL <= now
    BY <1>1 DEF Stale
  <1>4. now \in Nat /\ job[j].claimed \in Nat /\ task[v].token \in Nat
    BY <1>1, <1>2, TimesAssumption
  <1> QED BY <1>1, <1>3, <1>4, ClaimTTLAssumption

LEMMA ClaimStep ==
  ASSUME IInv, NEW w \in Workers, NEW j \in Jobs, NEW now \in Times, Claim(w, j, now)
  PROVE  IInv'
  <1> DEFINE row == [job[j] EXCEPT !.status = "processing", !.claimed = now]
             work == [pc |-> "download", job |-> j, token |-> now, object |-> None]
  <1>1. job[j] \in JobRow /\ job[j].status \in {"queued", "processing"}
    BY JobIsRow DEF Claim
  <1>2. /\ row \in JobRow /\ row.status = "processing" /\ row.claimed = now
        /\ row.asset = job[j].asset /\ row.review = job[j].review
        /\ row.checked = job[j].checked
    <2>1. PICK old \in JobRow : old = job[j]
      BY <1>1
    <2>2. PICK new : new = [old EXCEPT !.status = "processing", !.claimed = now]
      OBVIOUS
    <2>3. /\ new \in JobRow /\ new.status = "processing" /\ new.claimed = now
          /\ new.asset = old.asset /\ new.review = old.review
          /\ new.checked = old.checked
      BY <2>2 DEF JobRow
    <2>4. row = new
      BY <2>1, <2>2
    <2> QED BY <2>1, <2>3, <2>4
  <1>3. /\ work \in Task /\ work.pc = "download" /\ work.job = j /\ work.token = now
    BY DEF Task
  <1>4. /\ job' = [job EXCEPT ![j] = row] /\ task' = [task EXCEPT ![w] = work]
        /\ claimant' = [claimant EXCEPT ![j] = w]
        /\ UNCHANGED <<review, permission, assets, objects>>
        /\ job[j].status = "queued" \/ (job[j].status = "processing" /\ Stale(j, now))
    BY DEF Claim
  <1> HIDE DEF row, work
  <1>5. /\ job'[j] = row /\ \A i \in Jobs \ {j} : job'[i] = job[i]
        /\ task'[w] = work /\ \A v \in Workers \ {w} : task'[v] = task[v]
        /\ claimant'[j] = w /\ \A i \in Jobs \ {j} : claimant'[i] = claimant[i]
    BY <1>4 DEF IInv, TypeOK
  <1>6. TypeOK'
    BY <1>2, <1>3, <1>4 DEF IInv, TypeOK
  <1>7. \A q \in Reviews : PermissionAgrees(q)'
    BY <1>4 DEF IInv, PermissionAgrees
  <1>8. \A i \in Jobs : job'[i].asset = job[i].asset
    BY <1>2, <1>5
  <1>9. ASSUME NEW i \in Jobs PROVE JobAgrees(i)'
    <2>1. JobAgrees(i)
      BY DEF IInv
    <2>2. CASE i = j
      BY <1>1, <1>2, <1>5, <2>1, <2>2 DEF JobAgrees
    <2>3. CASE i # j
      BY <1>4, <1>5, <1>8, <2>1, <2>3 DEF JobAgrees
    <2> QED BY <2>2, <2>3
  <1>10. \A o \in Objects : AssetAgrees(o)'
    BY <1>4, <1>8 DEF IInv, AssetAgrees
  <1>11. ASSUME NEW v \in Workers PROVE ClaimAgrees(v)'
    <2>1. CASE v = w
      <3>1. now <= now
        BY TimesAssumption
      <3> QED BY <1>2, <1>3, <1>5, <2>1, <3>1 DEF ClaimAgrees
    <2>2. CASE v # w
      <3>1. ClaimAgrees(v) /\ task'[v] = task[v]
        BY <1>5, <2>2 DEF IInv
      <3>2. CASE task[v].pc # "idle" /\ task[v].job = j
        <4>1. task[v].token < now
          BY <1>4, <3>2, ClaimIsNewer
        <4>2. task[v].token \in Times
          BY <3>1, <3>2 DEF ClaimAgrees
        <4>3. task[v].token <= now /\ task[v].token # now
          BY <4>1, <4>2, TimesAssumption
        <4> QED BY <1>2, <1>5, <3>1, <3>2, <4>2, <4>3 DEF ClaimAgrees
      <3>3. CASE task[v].pc = "idle" \/ task[v].job # j
        BY <1>5, <3>1, <3>3 DEF ClaimAgrees
      <3> QED BY <3>2, <3>3
    <2> QED BY <2>1, <2>2
  <1>12. ASSUME NEW v \in Workers PROVE ObjectAgrees(v)'
    <2>1. CASE v = w
      BY <1>3, <1>5, <2>1 DEF ObjectAgrees, Holds
    <2>2. CASE v # w
      <3>1. ObjectAgrees(v) /\ task'[v] = task[v]
        BY <1>5, <2>2 DEF IInv
      <3>2. \A u \in Workers : Holds(u)' => Holds(u) /\ task'[u] = task[u]
        BY <1>3, <1>5 DEF Holds
      <3>3. Holds(v) => task[v].job \in Jobs
        BY DEF IInv, ClaimAgrees, Holds
      <3>4. \A i \in Jobs : job'[i].checked = job[i].checked
        BY <1>2, <1>5
      <3>5. Holds(v) /\ Verified(v) => Verified(v)'
        BY <1>4, <3>1, <3>3, <3>4 DEF Verified
      <3>6. task[v].pc = "complete" => Holds(v)
        BY DEF Holds
      <3> QED BY <1>4, <3>1, <3>2, <3>5, <3>6 DEF ObjectAgrees, Holds
    <2> QED BY <2>1, <2>2
  <1>13. ClaimsAreTimed'
    BY <1>2, <1>5 DEF IInv, ClaimsAreTimed
  <1> QED BY <1>6, <1>7, <1>9, <1>10, <1>11, <1>12, <1>13 DEF IInv

-----------------------------------------------------------------------------
(* Downloads. *)

\* A step that leaves jobs and assets alone and moves one worker on.
LEMMA WorkerOnly ==
  ASSUME IInv, TypeOK', NEW w \in Workers,
         UNCHANGED <<review, permission, job, assets, claimant>>,
         \A v \in Workers \ {w} : task'[v] = task[v],
         \A o \in Objects : objects'[o] # objects[o] =>
            \/ objects[o] = "unused"
            \/ Holds(w) /\ o = task[w].object,
         ClaimAgrees(w)', ObjectAgrees(w)',
         Holds(w)' => Holds(w) \/ objects[task'[w].object] = "unused",
         Holds(w)' /\ Holds(w) => task'[w].object = task[w].object
  PROVE  IInv'
  <1>1. \A q \in Reviews : PermissionAgrees(q)'
    BY DEF IInv, PermissionAgrees
  <1>2. ASSUME NEW o \in Objects, assets[o] # None PROVE objects'[o] = objects[o]
    <2>1. objects[o] # "unused"
      BY <1>2, UnusedIsFree
    <2>2. Holds(w) => task[w].object # o
      BY <1>2 DEF IInv, ObjectAgrees
    <2> QED BY <2>1, <2>2
  <1>3. ASSUME NEW j \in Jobs PROVE JobAgrees(j)'
    <2>1. JobAgrees(j)
      BY DEF IInv
    <2>2. job[j].status = "completed" =>
            /\ job[j].asset \in Objects
            /\ assets[job[j].asset] # None
      <3> SUFFICES ASSUME job[j].status = "completed"
                   PROVE  job[j].asset \in Objects /\ assets[job[j].asset] # None
        OBVIOUS
      <3>1. job[j] \in JobRow
        BY JobIsRow
      <3>2. job[j].asset \in Objects /\ job[j].review \in Reviews
        BY <2>1, <3>1 DEF JobAgrees, JobRow
      <3> QED BY <2>1, <3>2, NoneAssumption DEF JobAgrees
    <2> QED BY <1>2, <2>1, <2>2 DEF JobAgrees
  <1>4. \A o \in Objects : AssetAgrees(o)'
    BY DEF IInv, AssetAgrees
  <1>5. ASSUME NEW v \in Workers, v # w PROVE ClaimAgrees(v)' /\ ObjectAgrees(v)'
    <2>1. ClaimAgrees(v) /\ ObjectAgrees(v) /\ task'[v] = task[v] /\ (Holds(v)' <=> Holds(v))
      BY <1>5 DEF IInv, Holds
    <2>2. ClaimAgrees(v)'
      BY <2>1 DEF ClaimAgrees
    <2>3. ASSUME Holds(v) PROVE /\ objects'[task[v].object] = objects[task[v].object]
                                /\ Holds(w)' => task'[w].object # task[v].object
      <3>1. task[v].object \in Objects /\ objects[task[v].object] # "unused"
        BY <2>1, <2>3 DEF ObjectAgrees, Content
      <3>2. Holds(w) => task[w].object # task[v].object
        BY <1>5, <2>1, <2>3 DEF ObjectAgrees
      <3> QED BY <3>1, <3>2
    <2>4. Holds(v) /\ Verified(v) => Verified(v)'
      BY <2>1, <2>3 DEF Verified
    <2>5. task[v].pc = "complete" => Holds(v)
      BY DEF Holds
    <2>6. \A u \in Workers \ {v} : Holds(u)' /\ Holds(v) => task'[u].object # task[v].object
      <3> SUFFICES ASSUME NEW u \in Workers \ {v}, Holds(u)', Holds(v)
                   PROVE  task'[u].object # task[v].object
        OBVIOUS
      <3>1. CASE u = w
        BY <2>3, <3>1
      <3>2. CASE u # w
        <4>1. task'[u] = task[u] /\ Holds(u)
          BY <3>2 DEF Holds
        <4> QED BY <2>1, <4>1 DEF ObjectAgrees
      <3> QED BY <3>1, <3>2
    <2> QED BY <2>1, <2>2, <2>3, <2>4, <2>5, <2>6 DEF ObjectAgrees
  <1>6. ClaimsAreTimed'
    BY DEF IInv, ClaimsAreTimed
  <1> QED BY <1>1, <1>3, <1>4, <1>5, <1>6 DEF IInv

LEMMA AbandonStep ==
  ASSUME IInv, NEW w \in Workers, Abandon(w)
  PROVE  IInv'
  <1> USE DEF Abandon
  <1>1. /\ task'[w] = Idle /\ \A v \in Workers \ {w} : task'[v] = task[v]
        /\ TypeOK'
    BY DEF IInv, TypeOK, Idle, Task
  <1>2. ~Holds(w)' /\ ClaimAgrees(w)' /\ ObjectAgrees(w)'
    BY <1>1 DEF Holds, ClaimAgrees, ObjectAgrees, Idle
  <1> QED BY <1>1, <1>2, WorkerOnly

LEMMA PutStep ==
  ASSUME IInv, NEW w \in Workers, NEW o \in Objects, NEW content \in Content,
         Put(w, o, content)
  PROVE  IInv'
  <1>1. /\ task[w].pc = "download" /\ objects[o] = "unused"
        /\ objects' = [objects EXCEPT ![o] = content]
        /\ task' = [task EXCEPT ![w] = [@ EXCEPT !.pc = "check", !.object = o]]
        /\ UNCHANGED <<review, permission, job, assets, claimant>>
    BY DEF Put
  <1>2. task[w] \in Task
    BY DEF IInv, TypeOK
  <1>3. PICK new : new = [task[w] EXCEPT !.pc = "check", !.object = o]
    OBVIOUS
  <1>4. /\ new \in Task /\ new.pc = "check" /\ new.object = o
        /\ new.job = task[w].job /\ new.token = task[w].token
    <2>1. PICK old \in Task : old = task[w]
      BY <1>2
    <2>2. new = [old EXCEPT !.pc = "check", !.object = o]
      BY <1>3, <2>1
    <2> QED BY <2>1, <2>2 DEF Task
  <1>5. /\ task' = [task EXCEPT ![w] = new] /\ task'[w] = new
        /\ \A v \in Workers \ {w} : task'[v] = task[v]
        /\ objects'[o] = content /\ \A x \in Objects \ {o} : objects'[x] = objects[x]
    BY <1>1, <1>3 DEF IInv, TypeOK
  <1>6. TypeOK'
    BY <1>1, <1>4, <1>5 DEF IInv, TypeOK
  <1>7. ClaimAgrees(w)'
    BY <1>1, <1>4, <1>5 DEF IInv, ClaimAgrees
  <1>8. ObjectAgrees(w)'
    <2>1. assets[o] = None /\ \A v \in Workers : Holds(v) => task[v].object # o
      BY <1>1, UnusedIsFree
    <2>2. \A v \in Workers \ {w} : Holds(v)' => task'[v].object # o
      BY <1>5, <2>1 DEF Holds
    <2> QED BY <1>1, <1>4, <1>5, <2>1, <2>2 DEF ObjectAgrees
  <1>9. ~Holds(w)
    BY <1>1 DEF Holds
  <1> QED BY <1>1, <1>4, <1>5, <1>6, <1>7, <1>8, <1>9, WorkerOnly

LEMMA CheckStep ==
  ASSUME IInv, NEW w \in Workers, Check(w)
  PROVE  IInv'
  <1>1. /\ task[w].pc = "check" /\ Holds(w)
        /\ UNCHANGED <<review, permission, job, assets, claimant>>
        /\ task[w] \in Task /\ task[w].object \in Objects
    BY DEF Check, Holds, IInv, TypeOK, ObjectAgrees
  <1>2. CASE Verified(w) /\ task' = [task EXCEPT ![w].pc = "complete"] /\ UNCHANGED objects
    <2>1. PICK new : new = [task[w] EXCEPT !.pc = "complete"]
      OBVIOUS
    <2>2. /\ new \in Task /\ new.pc = "complete" /\ new.object = task[w].object
          /\ new.job = task[w].job /\ new.token = task[w].token
      <3>1. PICK old \in Task : old = task[w]
        BY <1>1
      <3>2. new = [old EXCEPT !.pc = "complete"]
        BY <2>1, <3>1
      <3> QED BY <3>1, <3>2 DEF Task
    <2>3. /\ task' = [task EXCEPT ![w] = new] /\ task'[w] = new
          /\ \A v \in Workers \ {w} : task'[v] = task[v]
      BY <1>2, <2>1 DEF IInv, TypeOK
    <2>4. TypeOK'
      BY <1>1, <1>2, <2>2, <2>3 DEF IInv, TypeOK
    <2>5. ClaimAgrees(w)'
      BY <1>1, <2>2, <2>3 DEF IInv, ClaimAgrees
    <2>6. ObjectAgrees(w)'
      <3>1. Verified(w)'
        BY <1>1, <1>2, <2>2, <2>3 DEF Verified
      <3>2. \A v \in Workers \ {w} : Holds(v)' => Holds(v) /\ task'[v] = task[v]
        BY <2>3 DEF Holds
      <3> QED BY <1>1, <1>2, <2>2, <2>3, <3>1, <3>2 DEF IInv, ObjectAgrees
    <2> QED BY <1>1, <1>2, <2>2, <2>3, <2>4, <2>5, <2>6, WorkerOnly
  <1>3. CASE /\ task' = [task EXCEPT ![w] = Idle]
             /\ \/ objects' = [objects EXCEPT ![task[w].object] = "removed"]
                \/ UNCHANGED objects
    <2>1. /\ task'[w] = Idle /\ \A v \in Workers \ {w} : task'[v] = task[v]
          /\ task' \in [Workers -> Task]
      BY <1>3 DEF IInv, TypeOK, Idle, Task
    <2>2. /\ objects' \in [Objects -> Content \cup {"unused", "removed"}]
          /\ \A o \in Objects \ {task[w].object} : objects'[o] = objects[o]
      BY <1>1, <1>3 DEF IInv, TypeOK
    <2>3. TypeOK'
      BY <1>1, <2>1, <2>2 DEF IInv, TypeOK
    <2>4. ~Holds(w)' /\ ClaimAgrees(w)' /\ ObjectAgrees(w)'
      BY <2>1 DEF Holds, ClaimAgrees, ObjectAgrees, Idle
    <2> QED BY <1>1, <2>1, <2>2, <2>3, <2>4, WorkerOnly
  <1> QED BY <1>2, <1>3 DEF Check

-----------------------------------------------------------------------------
(* Completion. *)

\* What a completing worker finds: its object, its job and its claim.
LEMMA CompleteFacts ==
  ASSUME IInv, NEW w \in Workers, task[w].pc = "complete", Owns(w)
  PROVE  /\ task[w].object \in Objects /\ assets[task[w].object] = None
         /\ task[w].job \in Jobs /\ job[task[w].job] \in JobRow
         /\ job[task[w].job].status = "processing"
         /\ job[task[w].job].asset = None
         /\ claimant[task[w].job] = w
         /\ objects[task[w].object] \in
               IF job[task[w].job].checked THEN {"meant"} ELSE {"meant", "other"}
  <1>1. ClaimAgrees(w) /\ ObjectAgrees(w) /\ Holds(w)
    BY DEF IInv, Holds
  <1>2. /\ task[w].object \in Objects /\ assets[task[w].object] = None
        /\ objects[task[w].object] \in Content /\ Verified(w)
    BY <1>1 DEF ObjectAgrees
  <1>3. /\ task[w].job \in Jobs /\ job[task[w].job].status = "processing"
        /\ claimant[task[w].job] = w
    BY <1>1 DEF ClaimAgrees, Owns
  <1>4. job[task[w].job] \in JobRow
    BY <1>3, JobIsRow
  <1>5. job[task[w].job].asset = None
    BY <1>3 DEF IInv, JobAgrees
  <1>6. objects[task[w].object] \in
           IF job[task[w].job].checked THEN {"meant"} ELSE {"meant", "other"}
    BY <1>2 DEF Verified, Content
  <1> QED BY <1>2, <1>3, <1>4, <1>5, <1>6

LEMMA RecordAsset ==
  ASSUME IInv, NEW w \in Workers, NEW j \in Jobs, NEW o \in Objects, NEW r \in Reviews,
         j = task[w].job, o = task[w].object, r = job[j].review,
         task[w].pc = "complete", Owns(w), Permitted(r),
         assets' = [assets EXCEPT ![o] = r],
         job' = [job EXCEPT ![j] = [@ EXCEPT !.status = "completed", !.asset = o]],
         task' = [task EXCEPT ![w] = Idle],
         UNCHANGED <<review, permission, objects, claimant>>
  PROVE  IInv'
  <1>1. /\ assets[o] = None /\ job[j] \in JobRow /\ job[j].status = "processing"
        /\ job[j].asset = None
        /\ objects[o] \in IF job[j].checked THEN {"meant"} ELSE {"meant", "other"}
    BY CompleteFacts
  <1>2. PICK new : new = [job[j] EXCEPT !.status = "completed", !.asset = o]
    OBVIOUS
  <1>3. /\ new \in JobRow /\ new.status = "completed" /\ new.asset = o /\ new.review = r
        /\ new.checked = job[j].checked /\ new.claimed = job[j].claimed
    <2>1. PICK old \in JobRow : old = job[j]
      BY <1>1
    <2>2. new = [old EXCEPT !.status = "completed", !.asset = o]
      BY <1>2, <2>1
    <2> QED BY <2>1, <2>2 DEF JobRow
  <1>4. job' = [job EXCEPT ![j] = new]
    BY <1>2
  <1>5. /\ job'[j] = new /\ \A i \in Jobs \ {j} : job'[i] = job[i]
        /\ assets'[o] = r /\ \A x \in Objects \ {o} : assets'[x] = assets[x]
        /\ task'[w] = Idle /\ \A v \in Workers \ {w} : task'[v] = task[v]
    BY <1>4 DEF IInv, TypeOK
  <1>6. TypeOK'
    BY <1>3, <1>4 DEF IInv, TypeOK, Idle, Task
  <1>7. \A q \in Reviews : PermissionAgrees(q)'
    BY DEF IInv, PermissionAgrees
  <1>8. \A i \in Jobs \ {j} : job[i].asset # o
    <2> SUFFICES ASSUME NEW i \in Jobs \ {j}, job[i].asset = o PROVE FALSE
      OBVIOUS
    <2>1. JobAgrees(i)
      BY DEF IInv
    <2>2. job[i].status = "completed" /\ assets[o] = job[i].review
      BY <2>1, NoneAssumption DEF JobAgrees
    <2>3. job[i].review \in Reviews
      BY <2>2, JobIsRow DEF JobRow
    <2> QED BY <1>1, <2>2, <2>3, NoneAssumption
  <1>9. ASSUME NEW i \in Jobs PROVE JobAgrees(i)'
    <2>1. CASE i = j
      BY <1>1, <1>3, <1>5, <1>8, <2>1, NoneAssumption DEF JobAgrees
    <2>2. CASE i # j
      <3>1. JobAgrees(i) /\ job'[i] = job[i]
        BY <1>5, <2>2 DEF IInv
      <3>2. job[i].asset # o /\ job'[j].asset = o
        BY <1>3, <1>5, <1>8, <2>2
      <3>3. job[i].status = "completed" => job[i].asset \in Objects
        BY <3>1, JobIsRow DEF JobAgrees, JobRow
      <3>4. job[i].status = "completed" => assets'[job[i].asset] = assets[job[i].asset]
        BY <1>5, <3>2, <3>3
      <3>5. \A k \in Jobs : job'[k].asset = IF k = j THEN o ELSE job[k].asset
        BY <1>3, <1>5
      <3> QED BY <2>2, <3>1, <3>2, <3>4, <3>5 DEF JobAgrees
    <2> QED BY <2>1, <2>2
  <1>10. ASSUME NEW x \in Objects PROVE AssetAgrees(x)'
    <2>1. CASE x = o
      <3>1. review'[r].status = "approved"
        BY DEF Permitted, EvidenceComplete
      <3> QED BY <1>3, <1>5, <2>1, <3>1 DEF AssetAgrees
    <2>2. CASE x # o
      <3>1. AssetAgrees(x)
        BY DEF IInv
      <3>2. \A i \in Jobs : job[i].asset = x => i # j
        BY <1>1, NoneAssumption
      <3> QED BY <1>5, <2>2, <3>1, <3>2 DEF AssetAgrees
    <2> QED BY <2>1, <2>2
  <1>11. ASSUME NEW v \in Workers PROVE ClaimAgrees(v)'
    <2>1. CASE v = w
      BY <1>5, <2>1 DEF ClaimAgrees, Idle
    <2>2. CASE v # w
      BY <1>3, <1>5, <2>2 DEF IInv, ClaimAgrees
    <2> QED BY <2>1, <2>2
  <1>12. ASSUME NEW v \in Workers PROVE ObjectAgrees(v)'
    <2>1. CASE v = w
      BY <1>5, <2>1 DEF ObjectAgrees, Holds, Idle
    <2>2. CASE v # w
      <3>1. ObjectAgrees(v) /\ task'[v] = task[v]
        BY <1>5, <2>2 DEF IInv
      <3>2. \A u \in Workers : Holds(u)' => Holds(u) /\ task'[u] = task[u]
        BY <1>5 DEF Holds, Idle
      <3>3. Holds(w) /\ (Holds(v) => task[v].object # o)
        BY <2>2, <3>1 DEF Holds, ObjectAgrees
      <3>4. Holds(v) => task[v].job \in Jobs
        BY DEF IInv, ClaimAgrees, Holds
      <3>5. Holds(v) /\ Verified(v) => Verified(v)'
        BY <1>3, <1>5, <3>1, <3>4 DEF Verified
      <3>6. task[v].pc = "complete" => Holds(v)
        BY DEF Holds
      <3>7. Holds(v) => assets'[task[v].object] = None
        BY <1>5, <3>1, <3>3 DEF ObjectAgrees
      <3> QED BY <3>1, <3>2, <3>5, <3>6, <3>7 DEF ObjectAgrees, Holds
    <2> QED BY <2>1, <2>2
  <1>13. ClaimsAreTimed'
    BY <1>1, <1>3, <1>5 DEF IInv, ClaimsAreTimed
  <1> QED BY <1>6, <1>7, <1>9, <1>10, <1>11, <1>12, <1>13 DEF IInv

LEMMA CompleteStep ==
  ASSUME IInv, NEW w \in Workers, Complete(w)
  PROVE  IInv'
  <1>1. CASE UNCHANGED <<assets, job>>
    <2>1. /\ task'[w] = Idle /\ \A v \in Workers \ {w} : task'[v] = task[v]
          /\ UNCHANGED <<review, permission, objects, claimant>> /\ TypeOK'
      BY <1>1 DEF Complete, IInv, TypeOK, Idle, Task
    <2>2. ~Holds(w)' /\ ClaimAgrees(w)' /\ ObjectAgrees(w)'
      BY <2>1 DEF Holds, ClaimAgrees, ObjectAgrees, Idle
    <2> QED BY <1>1, <2>1, <2>2, WorkerOnly
  <1>2. CASE ~UNCHANGED <<assets, job>>
    <2>1. task[w].pc = "complete" /\ Owns(w) /\ Permitted(job[task[w].job].review)
      BY <1>2 DEF Complete
    <2>2. /\ task[w].object \in Objects /\ task[w].job \in Jobs
          /\ job[task[w].job].review \in Reviews
      BY <2>1, CompleteFacts DEF JobRow
    <2> QED BY <1>2, <2>1, <2>2, RecordAsset DEF Complete
  <1> QED BY <1>1, <1>2

LEMMA NextIInv == ASSUME IInv, [Next]_vars PROVE IInv'
  <1>1. ASSUME NEW r \in Reviews, Review(r) PROVE IInv'
    BY <1>1, CreateReviewStep, ApproveReviewStep, RejectReviewStep, ExpireReviewStep DEF Review
  <1>2. ASSUME NEW j \in Jobs, NEW r \in Reviews, NEW checked \in BOOLEAN,
               Queue(j, r, checked)
        PROVE  IInv'
    BY <1>2, QueueStep
  <1>3. ASSUME NEW w \in Workers, Work(w) PROVE IInv'
    BY <1>3, ClaimStep, PutStep, CheckStep, CompleteStep, AbandonStep DEF Work
  <1>4. CASE UNCHANGED vars
    BY <1>4 DEF vars, IInv, TypeOK, PermissionAgrees, JobAgrees, AssetAgrees, ClaimAgrees,
                ObjectAgrees, Holds, Verified, ClaimsAreTimed
  <1> QED BY <1>1, <1>2, <1>3, <1>4 DEF Next

LEMMA Invariance == Spec => []IInv
  <1>1. IInv /\ [Next]_vars => IInv'
    BY NextIInv
  <1> QED BY <1>1, InitIInv, PTL DEF Spec

\* The tables, the bucket and the workers have their types.
THEOREM Types == Spec => []TypeOK
  <1>1. IInv => TypeOK
    BY DEF IInv
  <1> QED BY <1>1, Invariance, PTL

\* Permissions, jobs, assets and objects agree, however many reviews, jobs and
\* workers there are.
THEOREM Records == Spec => []RecordsAgree
  <1> QED BY RecordsPerRow, Invariance, PTL

\* No worker ends a job that another one has claimed since, whatever the
\* clocks of the hosts show, and none without a permission in force.
THEOREM Rightful == Spec => RightfulClaims
  <1> DEFINE Earned ==
        \A j \in Jobs :
          job'[j].status = "completed" /\ job[j].status # "completed" =>
              /\ job'[j].asset = task[claimant[j]].object
              /\ "download" \in review[job[j].review].granted
  <1>1. IInv /\ [Next]_vars => [Earned]_vars
    <2> SUFFICES ASSUME IInv, Next, NEW j \in Jobs,
                        job'[j].status = "completed", job[j].status # "completed"
                 PROVE  /\ job'[j].asset = task[claimant[j]].object
                        /\ "download" \in review[job[j].review].granted
      OBVIOUS
    <2>1. ASSUME NEW r \in Reviews, Review(r) PROVE FALSE
      BY <2>1 DEF Review, CreateReview, ApproveReview, Decide, EvidenceComplete, RejectReview, ExpireReview
    <2>2. ASSUME NEW i \in Jobs, NEW r \in Reviews, NEW checked \in BOOLEAN,
                 Queue(i, r, checked)
          PROVE  FALSE
      BY <2>2 DEF Queue, NewJob, IInv, TypeOK
    <2>3. ASSUME NEW w \in Workers, Work(w)
          PROVE  /\ job'[j].asset = task[claimant[j]].object
                 /\ "download" \in review[job[j].review].granted
      <3>1. ASSUME NEW i \in Jobs, NEW now \in Times, Claim(w, i, now) PROVE FALSE
        <4>1. job[i] \in JobRow
          BY <3>1, JobIsRow DEF Claim
        <4>2. job'[i].status = "processing" /\ \A k \in Jobs \ {i} : job'[k] = job[k]
          BY <3>1, <4>1 DEF Claim, IInv, TypeOK, JobRow
        <4> QED BY <4>2
      <3>2. ASSUME NEW o \in Objects, NEW content \in Content, Put(w, o, content) PROVE FALSE
        BY <3>2 DEF Put
      <3>3. CASE Check(w) \/ Abandon(w)
        BY <3>3 DEF Check, Abandon
      <3>4. CASE Complete(w)
        <4>1. task[w].pc = "complete" /\ Owns(w) /\ Permitted(job[task[w].job].review)
          BY <3>4 DEF Complete
        <4>2. /\ claimant[task[w].job] = w /\ task[w].job \in Jobs
              /\ job[task[w].job] \in JobRow
          BY <4>1, CompleteFacts
        <4>3. j = task[w].job
          BY <3>4, <4>1, <4>2 DEF Complete, IInv, TypeOK
        <4>4. job'[j].asset = task[w].object
          <5>1. PICK old \in JobRow : old = job[j]
            BY <4>2, <4>3
          <5>2. job' = [job EXCEPT ![j] = [old EXCEPT !.status = "completed",
                                                      !.asset = task[w].object]]
            BY <3>4, <4>1, <4>3, <5>1 DEF Complete
          <5>3. job'[j] = [old EXCEPT !.status = "completed", !.asset = task[w].object]
            BY <5>2 DEF IInv, TypeOK
          <5> QED BY <5>3 DEF JobRow
        <4> QED BY <4>1, <4>2, <4>3, <4>4 DEF Permitted, EvidenceComplete
      <3> QED BY <2>3, <3>1, <3>2, <3>3, <3>4 DEF Work
    <2> QED BY <2>1, <2>2, <2>3 DEF Next
  <1> QED BY <1>1, Invariance, PTL DEF Spec, RightfulClaims

=============================================================================
