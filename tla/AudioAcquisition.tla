-------------------------- MODULE AudioAcquisition --------------------------
(***************************************************************************)
(* Audio of a provider: the rights reviews that permit its download, the   *)
(* input jobs that are queued under them, the workers that claim a job,    *)
(* download into audio-quarantine and record an asset, and the decisions   *)
(* that end a permission meanwhile.                                        *)
(*                                                                         *)
(* Every transaction is one step: it locks the job it is about first, then *)
(* its review.  A host's clock is not trusted: a claim reads any time.     *)
(* What becomes of an asset in quarantine is the subject of AudioLifecycle.*)
(***************************************************************************)
EXTENDS Naturals

CONSTANTS
    Items,     \* provider items linked to sets
    Reviews,   \* ids of rights_reviews
    Jobs,      \* ids of audio_input_jobs
    Workers,   \* callers of claim, acquire and complete
    Objects,   \* object keys, each drawn at most once
    None,      \* null
    Times,     \* what the clock of a host may show
    ClaimTTL   \* claim_ttl_seconds

ASSUME NoneAssumption == None \notin Items \cup Reviews \cup Jobs \cup Workers \cup Objects \cup Times
ASSUME TimesAssumption == Times \subseteq Nat
ASSUME ClaimTTLAssumption == ClaimTTL \in Nat \ {0}

Uses == {"stream", "download"}

\* A review, with the uses that are requested and those that are granted, and
\* whether some evidence of it asserts all the rights that an approval needs.
ReviewRow == [item : Items, requested : SUBSET Uses \ {{}}, granted : SUBSET Uses,
              status : {"pending", "approved", "rejected", "expired"},
              complete : BOOLEAN]
NoReview == [item |-> None, requested |-> {}, granted |-> {}, status |-> "none",
             complete |-> FALSE]

\* A job of input_kind provider_acquisition; checked: it knows the SHA-256 of
\* what it is to download.
JobRow == [review : Reviews, status : {"queued", "processing", "completed"},
           checked : BOOLEAN, claimed : Times \cup {None}, asset : Objects \cup {None}]
NoJob == [review |-> None, status |-> "none", checked |-> FALSE, claimed |-> None,
          asset |-> None]

\* What has been stored: the bytes meant, others, or not as many as declared.
Content == {"meant", "other", "short"}

Task == [pc : {"idle", "download", "check", "complete"}, job : Jobs \cup {None},
         token : Times \cup {None}, object : Objects \cup {None}]
Idle == [pc |-> "idle", job |-> None, token |-> None, object |-> None]

VARIABLES
    review,      \* rights_reviews and their evidence
    permission,  \* audio_permissions that are not revoked
    job,         \* audio_input_jobs
    assets,      \* audio_assets: the review of the asset of an object
    objects,     \* audio-quarantine: content of a key, "unused" or "removed"
    task,        \* what each worker is doing
    claimant     \* history: the worker that has claimed a job last

vars == <<review, permission, job, assets, objects, task, claimant>>

TypeOK ==
    /\ review \in [Reviews -> ReviewRow \cup {NoReview}]
    /\ permission \in [Reviews -> SUBSET Uses]
    /\ job \in [Jobs -> JobRow \cup {NoJob}]
    /\ assets \in [Objects -> Reviews \cup {None}]
    /\ objects \in [Objects -> Content \cup {"unused", "removed"}]
    /\ task \in [Workers -> Task]
    /\ claimant \in [Jobs -> Workers \cup {None}]

Init ==
    /\ review = [r \in Reviews |-> NoReview]
    /\ permission = [r \in Reviews |-> {}]
    /\ job = [j \in Jobs |-> NoJob]
    /\ assets = [o \in Objects |-> None]
    /\ objects = [o \in Objects |-> "unused"]
    /\ task = [w \in Workers |-> Idle]
    /\ claimant = [j \in Jobs |-> None]

-----------------------------------------------------------------------------
(* Rights reviews.  Whether the set of the item is there to be reviewed is  *)
(* up to its merges: see MergeReview.                                       *)

Pending(item, requested) ==
    {r \in Reviews : /\ review[r].status = "pending" /\ review[r].item = item
                     /\ review[r].requested = requested}

\* A pending review of the same request is returned as it is: the evidence
\* that comes with the request is dropped.
CreateReview(r, item, requested, complete) ==
    /\ review[r] = NoReview
    /\ Pending(item, requested) = {}
    /\ review' = [review EXCEPT ![r] =
          [item |-> item, requested |-> requested, granted |-> {},
           status |-> "pending", complete |-> complete]]
    /\ UNCHANGED <<permission, job, assets, objects, task, claimant>>

\* Some evidence of the review asserts all the rights there are to assert.
EvidenceComplete(r) == review[r].complete

\* _decide_rights_review: the review and its permission are one transaction.
\* Expiry ends a pending request, too.
Decide(r, status, uses) ==
    /\ review[r].status \in
          IF status = "expired" THEN {"pending", "approved"} ELSE {"pending"}
    /\ uses \subseteq review[r].requested
    /\ status = "approved" => uses # {} /\ EvidenceComplete(r)
    /\ review' = [review EXCEPT ![r].status = status, ![r].granted = uses]
    /\ permission' = IF status = "rejected" THEN permission
                     ELSE [permission EXCEPT ![r] = uses]
    /\ UNCHANGED <<job, assets, objects, task, claimant>>

ApproveReview(r, uses) == Decide(r, "approved", uses)
RejectReview(r) == Decide(r, "rejected", {})
ExpireReview(r) == Decide(r, "expired", {})

-----------------------------------------------------------------------------
(* The input jobs. *)

\* What is read with a review: a permission that nobody has revoked.
InForce(r) == "download" \in permission[r]

\* What queueing and completing ask of a review: an approval of downloads, in
\* the review and in its permission.
Permitted(r) ==
    /\ review[r].status = "approved" /\ EvidenceComplete(r)
    /\ "download" \in review[r].granted /\ InForce(r)

ActiveJobs(r) == {j \in Jobs : job[j].review = r /\ job[j].status \in {"queued", "processing"}}

\* (Mutant of NewJob: the status of a review is taken for that of a job.)
NewJobPending(r, checked) ==
    [review |-> r, status |-> "pending", checked |-> checked, claimed |-> None, asset |-> None]

NewJob(r, checked) ==
    [review |-> r, status |-> "queued", checked |-> checked, claimed |-> None, asset |-> None]

\* The one candidate of a review is its own item.  An active job of it is
\* returned as it is, whatever digest the new request knows.
Queue(j, r, checked) ==
    /\ job[j] = NoJob /\ Permitted(r) /\ ActiveJobs(r) = {}
    /\ job' = [job EXCEPT ![j] = NewJob(r, checked)]
    /\ UNCHANGED <<review, permission, assets, objects, task, claimant>>

\* (Mutant of Stale: the claim is as old as the new one, or older.)
StaleAtOnce(j, now) == job[j].claimed <= now

\* The claim is older than its time to live.
Stale(j, now) == job[j].claimed + ClaimTTL <= now

\* The time of the claim is its token.
Claim(w, j, now) ==
    /\ task[w].pc = "idle"
    /\ \/ job[j].status = "queued"
       \/ job[j].status = "processing" /\ Stale(j, now)
    /\ job' = [job EXCEPT ![j] = [@ EXCEPT !.status = "processing", !.claimed = now]]
    /\ task' = [task EXCEPT ![w] =
          [pc |-> "download", job |-> j, token |-> now, object |-> None]]
    /\ claimant' = [claimant EXCEPT ![j] = w]
    /\ UNCHANGED <<review, permission, assets, objects>>

\* The worker dies, or its download is refused or fails.  Nothing records it.
Abandon(w) ==
    /\ task[w].pc # "idle"
    /\ task' = [task EXCEPT ![w] = Idle]
    /\ UNCHANGED <<review, permission, job, assets, objects, claimant>>

-----------------------------------------------------------------------------
(* The download: acquire and put_stream. *)

\* The stream goes to a new key before anything is known of it.
Put(w, o, content) ==
    /\ task[w].pc = "download" /\ objects[o] = "unused"
    /\ objects' = [objects EXCEPT ![o] = content]
    /\ task' = [task EXCEPT ![w] = [@ EXCEPT !.pc = "check", !.object = o]]
    /\ UNCHANGED <<review, permission, job, assets, claimant>>

\* (Mutant of Verified: the digest is compared with nothing.)
VerifiedLength(w) == objects[task[w].object] # "short"

\* The length is as declared, and the digest as expected if one is known.
Verified(w) ==
    /\ objects[task[w].object] # "short"
    /\ job[task[w].job].checked => objects[task[w].object] = "meant"

\* An object that is not what it should be is removed, if the storage obeys.
Check(w) ==
    /\ task[w].pc = "check"
    /\ \/ /\ Verified(w)
          /\ task' = [task EXCEPT ![w].pc = "complete"]
          /\ UNCHANGED objects
       \/ /\ ~Verified(w)
          /\ task' = [task EXCEPT ![w] = Idle]
          /\ \/ objects' = [objects EXCEPT ![task[w].object] = "removed"]
             \/ UNCHANGED objects
    /\ UNCHANGED <<review, permission, job, assets, claimant>>

\* The job is being processed under the worker's claim.
Owns(w) == LET j == task[w].job IN
    job[j].status = "processing" /\ job[j].claimed = task[w].token

\* The asset and the end of the job are one transaction, which validates the
\* review again.  A worker that has lost its claim gets nothing, one whose
\* review has ended an error, which leaves the job in processing; the object
\* of either stays where it is.
Complete(w) ==
    LET j == task[w].job r == job[j].review o == task[w].object IN
    /\ task[w].pc = "complete"
    /\ \/ /\ Owns(w) /\ Permitted(r)
          /\ assets' = [assets EXCEPT ![o] = r]
          /\ job' = [job EXCEPT ![j] = [@ EXCEPT !.status = "completed", !.asset = o]]
       \/ /\ ~Owns(w) \/ ~Permitted(r)
          /\ UNCHANGED <<assets, job>>
    /\ task' = [task EXCEPT ![w] = Idle]
    /\ UNCHANGED <<review, permission, objects, claimant>>

-----------------------------------------------------------------------------
Review(r) ==
    \/ \E item \in Items, requested \in SUBSET Uses \ {{}}, complete \in BOOLEAN :
          CreateReview(r, item, requested, complete)
    \/ \E uses \in SUBSET Uses : ApproveReview(r, uses)
    \/ RejectReview(r)
    \/ ExpireReview(r)

Work(w) ==
    \/ \E j \in Jobs, now \in Times : Claim(w, j, now)
    \/ \E o \in Objects, content \in Content : Put(w, o, content)
    \/ Check(w) \/ Complete(w) \/ Abandon(w)

Next == \/ \E r \in Reviews : Review(r)
        \/ \E j \in Jobs, r \in Reviews, checked \in BOOLEAN : Queue(j, r, checked)
        \/ \E w \in Workers : Work(w)

Spec == Init /\ [][Next]_vars

-----------------------------------------------------------------------------
(* What acquisition promises. *)

\* Whatever is decided, claimed and stored side by side, the tables and the
\* bucket agree.  A permission is in force exactly while its review is
\* approved.  Every asset is that of one completed job, of the same review,
\* whose object is there with the bytes the job knows to expect, and every
\* completed job has one.  There are assets only of reviews that have been
\* approved: no later approval or rejection of theirs finds one to hand over.
RecordsAgree ==
    /\ \A r \in Reviews :
          permission[r] = IF review[r].status = "approved" THEN review[r].granted ELSE {}
    /\ \A j \in Jobs :
          /\ job[j].status = "completed" <=> job[j].asset # None
          /\ job[j].status = "completed" =>
                LET o == job[j].asset IN
                /\ assets[o] = job[j].review
                /\ objects[o] \in IF job[j].checked THEN {"meant"} ELSE {"meant", "other"}
                /\ \A i \in Jobs \ {j} : job[i].asset # o
    /\ \A o \in Objects : assets[o] # None =>
          /\ \E j \in Jobs : job[j].asset = o
          /\ review[assets[o]].status \in {"approved", "expired"}

\* A job ends with the object of the worker that has claimed it last, however
\* late another one comes and whatever the clocks show, and under a review that
\* grants the download at that moment, not only when the job was queued.
RightfulClaims ==
    [][\A j \in Jobs :
          job'[j].status = "completed" /\ job[j].status # "completed" =>
              /\ job'[j].asset = task[claimant[j]].object
              /\ "download" \in review[job[j].review].granted
      ]_vars
=============================================================================
