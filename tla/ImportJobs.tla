----------------------------- MODULE ImportJobs -----------------------------
(***************************************************************************)
(* Direct (single URL) imports: the durable import_jobs table, the HTTP    *)
(* handlers that create and retry jobs, the Celery tasks that fetch from a *)
(* provider and that process the fetched payload, the periodic redriver,   *)
(* and the broker between them.                                            *)
(*                                                                         *)
(* Every database transaction and every publication is one step, so that   *)
(* what a task read may be out of date when it writes.  Clocks are         *)
(* abstract: a lease grows stale and a retry falls due by a step of their  *)
(* own, at any moment.                                                     *)
(*                                                                         *)
(* A definition introduced as a mutant is a plausible mistake in the one   *)
(* that follows it; nothing uses it but the experiment that shows that a   *)
(* property would notice.                                                  *)
(***************************************************************************)
EXTENDS Naturals, FiniteSets

CONSTANTS
    Jobs,          \* identifiers of rows of import_jobs, in created_at order
    Items,         \* provider items: what a (source, source_id) names
    NoItem,        \* the item of a row that does not exist yet
    Importers,     \* workers of the provider queues
    Processors,    \* workers of the process queue
    NoMsg,         \* what an idle worker is delivering
    MaxRetries,    \* Len(RETRY_DELAYS), 3 in the code
    RedriveBatch,  \* job_redrive_batch_size
    MaxFailures,   \* bound: failures a job's tasks may meet
    MaxFaults      \* bound: crashes, losses, redeliveries and slow leases

ASSUME JobsAssumption == Jobs \subseteq Nat \ {0} /\ IsFiniteSet(Jobs)
ASSUME ItemsAssumption == NoItem \notin Items
ASSUME PoolsAssumption == Importers \cap Processors = {}
ASSUME BoundsAssumption ==
    /\ MaxRetries \in Nat
    /\ RedriveBatch \in Nat \ {0}
    /\ MaxFailures \in Nat
    /\ MaxFaults \in Nat

Workers == Importers \cup Processors

(***************************************************************************)
(* The durable row.  claims is attempt_count; started_at is written by the *)
(* same statement and only ever compared for equality, so the number of    *)
(* the claim stands for it.  elapsed: the time the row makes others wait    *)
(* is over (processing: started_at is older than the claim TTL; retry:     *)
(* next_retry_at is null or has passed).  failures is details.retry_count, *)
(* retryOf is details.retry_of_job_id.                                     *)
(***************************************************************************)
NoJob == 0
Active == {"queued", "processing", "retry"}
Terminal == {"completed", "failed", "blocked", "dead_letter"}
JobStatus == Active \cup Terminal

JobRow == [status   : JobStatus \cup {"absent"},
           item     : Items \cup {NoItem},
           claims   : Nat,
           elapsed  : BOOLEAN,
           failures : Nat,
           outcome  : {"none", "persisted", "duplicate", "discarded"},
           retryOf  : Jobs \cup {NoJob}]

NoRow == [status |-> "absent", item |-> NoItem, claims |-> 0,
          elapsed |-> FALSE, failures |-> 0, outcome |-> "none", retryOf |-> NoJob]

\* (Mutant of AllowedTransitions: failed may follow any status.)
LaxTransitions == [s \in JobStatus |->
    CASE s = "retry" -> {"processing", "dead_letter", "failed"}
      [] OTHER       -> {"processing", "completed", "retry", "failed", "blocked"}]

\* ALLOWED_JOB_TRANSITIONS, enforced by validate_job_transition.
AllowedTransitions == [s \in JobStatus |->
    CASE s = "queued"     -> {"processing", "failed", "blocked"}
      [] s = "processing" -> {"completed", "retry", "failed", "blocked"}
      [] s = "retry"      -> {"processing", "dead_letter"}
      [] OTHER            -> {}]

(***************************************************************************)
(* Messages.  A provider message names the job; a process message carries  *)
(* the payload and the claim (started_at) it was fetched under.            *)
(***************************************************************************)
Messages == [kind : {"provider", "process"}, job : Jobs, claim : Nat]
ProviderMsg(j) == [kind |-> "provider", job |-> j, claim |-> 0]
ProcessMsg(j, c) == [kind |-> "process", job |-> j, claim |-> c]

WorkerPC == {"idle", "reread", "fail", "block", "dispatch",
             "claim", "lookup", "duplicate", "discard", "persist",
             "readFailure", "markRetry", "markExhausted", "markDead",
             "republish"}

VARIABLES
    jobs,    \* import_jobs
    rows,    \* number of rows of sets per provider item
    msgs,    \* messages waiting in Redis
    api,     \* progress of the request handler that created the job
    pc,      \* next step of the task a worker runs
    msg,     \* the unacknowledged delivery of that task
    claim,   \* the ownership token the task holds
    seen,    \* the failure count the task has read
    faults   \* faults so far

vars == <<jobs, rows, msgs, api, pc, msg, claim, seen, faults>>
local == <<pc, msg, claim, seen>>

ApiPC == {"none", "dispatch", "terminalize", "done"}

TypeOK ==
    /\ jobs \in [Jobs -> JobRow]
    /\ rows \in [Items -> Nat]
    /\ msgs \in SUBSET Messages
    /\ api \in [Jobs -> ApiPC]
    /\ pc \in [Workers -> WorkerPC]
    /\ msg \in [Workers -> Messages \cup {NoMsg}]
    /\ claim \in [Workers -> Nat]
    /\ seen \in [Workers -> Nat]
    /\ faults \in Nat
    /\ \A w \in Workers : pc[w] # "idle" => msg[w] \in Messages

Init ==
    /\ jobs = [j \in Jobs |-> NoRow]
    /\ rows = [i \in Items |-> 0]
    /\ msgs = {}
    /\ api = [j \in Jobs |-> "none"]
    /\ pc = [w \in Workers |-> "idle"]
    /\ msg = [w \in Workers |-> NoMsg]
    /\ claim = [w \in Workers |-> 0]
    /\ seen = [w \in Workers |-> 0]
    /\ faults = 0

-----------------------------------------------------------------------------
(* The repository's claim and compare-and-set predicates. *)

\* (Mutant of Claimable: an expired lease is not claimable.)
ClaimableNoLease(j) ==
    \/ jobs[j].status = "queued"
    \/ jobs[j].status = "retry" /\ jobs[j].elapsed

Claimable(j) ==
    \/ jobs[j].status = "queued"
    \/ jobs[j].status \in {"retry", "processing"} /\ jobs[j].elapsed

\* (Mutant of ClaimedRow: a status that is not in the enumeration.)
ClaimedRowMisspelt(r) == [r EXCEPT !.status = "running", !.claims = @ + 1,
                                   !.elapsed = FALSE]

\* (Mutant of ClaimedRow: every claim starts with a fresh budget.)
ClaimedRowAfresh(r) == [r EXCEPT !.status = "processing", !.claims = @ + 1,
                                 !.elapsed = FALSE, !.failures = 0]

\* The row claim_job writes, with a fresh started_at.
ClaimedRow(r) == [r EXCEPT !.status = "processing", !.claims = @ + 1,
                           !.elapsed = FALSE]

\* (Mutant of Owned: the token is not compared.)
OwnedByAnyone(j, c) == jobs[j].status \in {"processing", "retry"}

\* The rows transition_claimed_job finds: processing or retry, same token.
Owned(j, c) == jobs[j].status \in {"processing", "retry"} /\ jobs[j].claims = c

\* The rows the completing transactions find: processing, same token.
Held(j, c) == jobs[j].status = "processing" /\ jobs[j].claims = c

\* transition_claimed_job: no row when the claim was lost, an exception when
\* the transition is not allowed; the row is then left alone.
MayTransition(j, c, target) ==
    Owned(j, c) /\ target \in AllowedTransitions[jobs[j].status]

TransitionClaimed(j, c, target) ==
    jobs' = IF MayTransition(j, c, target)
            THEN [jobs EXCEPT ![j] = [@ EXCEPT !.status = target]]
            ELSE jobs

Goto(w, label) == pc' = [pc EXCEPT ![w] = label]

Fault == faults < MaxFaults /\ faults' = faults + 1

-----------------------------------------------------------------------------
(* HTTP handlers. *)

\* create_job: a queued row with the next identifier.
CreateJob(j, i) ==
    /\ jobs[j].status = "absent"
    /\ \A k \in Jobs : jobs[k].status = "absent" => j <= k
    /\ jobs' = [jobs EXCEPT ![j] = [NoRow EXCEPT !.status = "queued",
                                                 !.item = i]]

\* POST /imports/url: the durable row exists before anything is published.
ImportUrl(j, i) ==
    /\ CreateJob(j, i)
    /\ api' = [api EXCEPT ![j] = "dispatch"]
    /\ UNCHANGED <<rows, msgs, local, faults>>

ActiveRetries(j) ==
    {k \in Jobs : jobs[k].retryOf = j /\ jobs[k].status \in Active}

\* (Mutant of RetryJob: the row is queued again in place.)
RetryJobInPlace(j, k) ==
    /\ j = k
    /\ jobs[j].status \in {"failed", "dead_letter"}
    /\ jobs' = [jobs EXCEPT ![j] = [@ EXCEPT !.status = "queued"]]
    /\ api' = [api EXCEPT ![j] = "dispatch"]
    /\ UNCHANGED <<rows, msgs, local, faults>>

\* POST /imports/queue/{id}/retry: create_retry_job locks the terminal row,
\* returns its active retry when there is one (nothing changes), and else
\* inserts a job with a copy of the details, the failure count among them.
RetryJob(j, k) ==
    /\ jobs[j].status \in {"failed", "dead_letter"}
    /\ ActiveRetries(j) = {}
    /\ jobs[k].status = "absent"
    /\ \A n \in Jobs : jobs[n].status = "absent" => k <= n
    /\ jobs' = [jobs EXCEPT ![k] =
                    [NoRow EXCEPT !.status = "queued",
                                  !.item = jobs[j].item,
                                  !.failures = jobs[j].failures,
                                  !.retryOf = j]]
    /\ api' = [api EXCEPT ![k] = "dispatch"]
    /\ UNCHANGED <<rows, msgs, local, faults>>

ApiPublish(j) ==
    /\ api[j] = "dispatch"
    /\ msgs' = msgs \cup {ProviderMsg(j)}
    /\ api' = [api EXCEPT ![j] = "done"]
    /\ UNCHANGED <<jobs, rows, local, faults>>

\* The publication raises; the broker may have the message all the same.
ApiPublishFails(j) ==
    /\ api[j] = "dispatch"
    /\ Fault
    /\ \E reached \in BOOLEAN :
          msgs' = IF reached THEN msgs \cup {ProviderMsg(j)} ELSE msgs
    /\ api' = [api EXCEPT ![j] = "terminalize"]
    /\ UNCHANGED <<jobs, rows, local>>

\* transition_job, which asks for no token: any claim the job has meanwhile
\* is overruled where the transition is allowed.
TransitionJob(j, target) ==
    jobs' = IF target \in AllowedTransitions[jobs[j].status]
            THEN [jobs EXCEPT ![j] = [@ EXCEPT !.status = target]]
            ELSE jobs

ApiTerminalize(j) ==
    /\ api[j] = "terminalize"
    /\ TransitionJob(j, "failed")
    /\ api' = [api EXCEPT ![j] = "done"]
    /\ UNCHANGED <<rows, msgs, local, faults>>

ApiCrash(j) ==
    /\ api[j] \in {"dispatch", "terminalize"}
    /\ Fault
    /\ api' = [api EXCEPT ![j] = "done"]
    /\ UNCHANGED <<jobs, rows, msgs, local>>

-----------------------------------------------------------------------------
(* The redriver (Celery beat). *)

Recoverable == {j \in Jobs : Claimable(j)}

\* list_recoverable_jobs: order by created_at limit RedriveBatch.
RedriveBatchJobs ==
    {j \in Recoverable :
        Cardinality({k \in Recoverable : k < j}) < RedriveBatch}

\* redrive_import_jobs.  A publication that comes later than the read is a
\* message that waits in the queue.
Redrive ==
    /\ msgs' = msgs \cup {ProviderMsg(j) : j \in RedriveBatchJobs}
    /\ UNCHANGED <<jobs, rows, api, local, faults>>

\* A failed publication is logged and the loop continues.
RedriveFails(j) ==
    /\ j \in RedriveBatchJobs
    /\ Fault
    /\ msgs' = msgs \cup {ProviderMsg(k) : k \in RedriveBatchJobs \ {j}}
    /\ UNCHANGED <<jobs, rows, api, local>>

-----------------------------------------------------------------------------
(* Deliveries.  A task is acknowledged late, when it has returned or       *)
(* raised; a worker that dies returns its delivery to the queue, and the   *)
(* broker may redeliver a message that is being worked on.                 *)

Deliver(w, m) ==
    /\ pc[w] = "idle"
    /\ m \in msgs
    /\ msgs' = msgs \ {m}
    /\ UNCHANGED <<rows, api, seen, faults>>

\* The task returns or raises: its delivery is acknowledged.
Finish(w) ==
    /\ Goto(w, "idle")
    /\ msg' = [msg EXCEPT ![w] = NoMsg]
    /\ claim' = [claim EXCEPT ![w] = 0]
    /\ seen' = [seen EXCEPT ![w] = 0]

\* The task goes on to the step label.
Continue(w, label) == Goto(w, label) /\ UNCHANGED <<msg, claim, seen>>

\* Worker loss (the delivery returns to the queue), or an exception outside
\* the handlers' own error paths, such as a lost database (it does not).
TaskDies(w) ==
    /\ pc[w] # "idle"
    /\ Fault
    /\ \E requeued \in BOOLEAN :
          msgs' = IF requeued THEN msgs \cup {msg[w]} ELSE msgs
    /\ Finish(w)
    /\ UNCHANGED <<jobs, rows, api>>

Redeliver(w) ==
    /\ pc[w] # "idle"
    /\ Fault
    /\ msgs' = msgs \cup {msg[w]}
    /\ UNCHANGED <<jobs, rows, api, local>>

\* Total loss of Redis data.
BrokerLoss ==
    /\ msgs # {}
    /\ Fault
    /\ msgs' = {}
    /\ UNCHANGED <<jobs, rows, api, local>>

-----------------------------------------------------------------------------
(* Passage of time. *)

\* Somebody still works, or waits in the process queue, under the claim.
ClaimInUse(j) ==
    \/ \E w \in Workers : pc[w] # "idle" /\ msg[w].job = j
                           /\ claim[w] = jobs[j].claims
    \/ ProcessMsg(j, jobs[j].claims) \in msgs

\* The lease is never renewed.  That it outlasts the work under it is the
\* normal case; that it does not counts as a fault.
LeaseExpires(j) ==
    /\ jobs[j].status = "processing" /\ ~jobs[j].elapsed
    /\ jobs' = [jobs EXCEPT ![j] = [@ EXCEPT !.elapsed = TRUE]]
    /\ IF ClaimInUse(j) THEN Fault ELSE UNCHANGED faults
    /\ UNCHANGED <<rows, msgs, api, local>>

RetryFallsDue(j) ==
    /\ jobs[j].status = "retry" /\ ~jobs[j].elapsed
    /\ jobs' = [jobs EXCEPT ![j] = [@ EXCEPT !.elapsed = TRUE]]
    /\ UNCHANGED <<rows, msgs, api, local, faults>>

-----------------------------------------------------------------------------
(* The provider task (import_soundcloud, import_url, import_ftm). *)

\* claim_job, when it finds a claimable row: a fresh token for the task.
TakeClaim(w, j) ==
    /\ Claimable(j)
    /\ jobs' = [jobs EXCEPT ![j] = ClaimedRow(@)]
    /\ claim' = [claim EXCEPT ![w] = jobs[j].claims + 1]

\* What the adapter's fetch leads to: a payload, a permanent ProviderError,
\* (FTM) a ProviderBlockedError, or a ProviderTemporaryError.
FetchResults(j) ==
    {"dispatch", "fail", "block"}
       \cup (IF jobs[j].failures < MaxFailures THEN {"readFailure"} ELSE {})

\* The task starts by claiming its job, then fetches.
StartImport(w, m) ==
    /\ w \in Importers /\ m.kind = "provider"
    /\ Deliver(w, m)
    /\ msg' = [msg EXCEPT ![w] = m]
    /\ \/ /\ TakeClaim(w, m.job)
          /\ \E label \in FetchResults(m.job) : Goto(w, label)
       \/ /\ ~Claimable(m.job)
          /\ Goto(w, "reread")
          /\ UNCHANGED <<jobs, claim>>

\* claim_or_reschedule, after a refused claim: a live lease or a pending
\* delay republishes the message with a countdown; a row that has become
\* claimable meanwhile raises; a terminal one returns.
Reread(w) ==
    LET r == jobs[msg[w].job] IN
    /\ pc[w] = "reread"
    /\ msgs' = IF r.status = "processing" \/ (r.status = "retry" /\ ~r.elapsed)
               THEN msgs \cup {msg[w]}
               ELSE msgs
    /\ Finish(w)
    /\ UNCHANGED <<jobs, rows, api, faults>>

\* _fail_job, _block_job, _fail_invalid_payload, _transition_terminal.
Terminate(w) ==
    /\ pc[w] \in {"fail", "block"}
    /\ TransitionClaimed(msg[w].job, claim[w],
                         IF pc[w] = "fail" THEN "failed" ELSE "blocked")
    /\ Finish(w)
    /\ UNCHANGED <<rows, msgs, api, faults>>

\* dispatch_process_payload.
Dispatch(w) ==
    /\ pc[w] = "dispatch"
    /\ msgs' = msgs \cup {ProcessMsg(msg[w].job, claim[w])}
    /\ Finish(w)
    /\ UNCHANGED <<jobs, rows, api, faults>>

DispatchFails(w) ==
    /\ pc[w] = "dispatch"
    /\ jobs[msg[w].job].failures < MaxFailures
    /\ Fault
    /\ \E reached \in BOOLEAN :
          msgs' = IF reached
                  THEN msgs \cup {ProcessMsg(msg[w].job, claim[w])}
                  ELSE msgs
    /\ Continue(w, "readFailure")
    /\ UNCHANGED <<jobs, rows, api>>

-----------------------------------------------------------------------------
(* _record_retry: a read, then one or two compare-and-set transactions.    *)

ReadFailure(w) ==
    LET r == jobs[msg[w].job] IN
    /\ pc[w] = "readFailure"
    /\ IF r.status = "processing"
       THEN /\ seen' = [seen EXCEPT ![w] = r.failures]
            /\ Goto(w, IF r.failures + 1 <= MaxRetries
                       THEN "markRetry" ELSE "markExhausted")
            /\ UNCHANGED <<msg, claim>>
       ELSE Finish(w)
    /\ UNCHANGED <<jobs, rows, msgs, api, faults>>

\* The details written are those read by ReadFailure plus one.
RecordFailure(w, elapsed, label) ==
    LET j == msg[w].job IN
    /\ IF MayTransition(j, claim[w], "retry")
       THEN /\ jobs' = [jobs EXCEPT ![j] = [@ EXCEPT !.status = "retry",
                                                  !.elapsed = elapsed,
                                                  !.failures = seen[w] + 1]]
            /\ Continue(w, label)
       ELSE UNCHANGED jobs /\ Finish(w)
    /\ UNCHANGED <<rows, msgs, api, faults>>

MarkRetry(w) ==
    /\ pc[w] = "markRetry"
    /\ RecordFailure(w, FALSE, "republish")

\* The budget is spent: first retry with next_retry_at null ...
MarkExhausted(w) ==
    /\ pc[w] = "markExhausted"
    /\ RecordFailure(w, TRUE, "markDead")

\* ... and then, in a second transaction, dead_letter.
MarkDead(w) ==
    /\ pc[w] = "markDead"
    /\ TransitionClaimed(msg[w].job, claim[w], "dead_letter")
    /\ Finish(w)
    /\ UNCHANGED <<rows, msgs, api, faults>>

\* self.retry publishes the task's own arguments again, with the countdown.
Republish(w) ==
    /\ pc[w] = "republish"
    /\ msgs' = msgs \cup {msg[w]}
    /\ Finish(w)
    /\ UNCHANGED <<jobs, rows, api, faults>>

-----------------------------------------------------------------------------
(* The process task (process_raw_payload, process_payload). *)

\* A completed job returns; a retrying one is claimed anew, under a token of
\* the task's own; a processing one must still have the message's token.
\* A payload that does not validate fails the job.
StartProcess(w, m) ==
    /\ w \in Processors /\ m.kind = "process"
    /\ Deliver(w, m)
    /\ \/ /\ jobs[m.job].status = "retry"
          /\ msg' = [msg EXCEPT ![w] = m]
          /\ Goto(w, "claim")
          /\ UNCHANGED claim
       \/ /\ Held(m.job, m.claim)
          /\ msg' = [msg EXCEPT ![w] = m]
          /\ claim' = [claim EXCEPT ![w] = m.claim]
          /\ \E label \in {"lookup", "fail"} : Goto(w, label)
       \/ /\ jobs[m.job].status # "retry" /\ ~Held(m.job, m.claim)
          /\ UNCHANGED <<msg, pc, claim>>
    /\ UNCHANGED jobs

\* A refused claim returns.
ClaimRetry(w) ==
    /\ pc[w] = "claim"
    /\ \/ /\ TakeClaim(w, msg[w].job)
          /\ \E label \in {"lookup", "fail"} : Goto(w, label)
          /\ UNCHANGED <<msg, seen>>
       \/ /\ ~Claimable(msg[w].job)
          /\ Finish(w)
          /\ UNCHANGED jobs
    /\ UNCHANGED <<rows, msgs, api, faults>>

\* process_payload up to its decision: re-check the claim, find_duplicate,
\* score.  The score may change between attempts with heuristic_config.
Lookup(w) ==
    LET j == msg[w].job IN
    /\ pc[w] = "lookup"
    /\ IF ~Held(j, claim[w])
       THEN Finish(w)
       ELSE \E label \in IF rows[jobs[j].item] > 0
                         THEN {"duplicate"} ELSE {"discard", "persist"} :
               Continue(w, label)
    /\ UNCHANGED <<jobs, rows, msgs, api, faults>>

\* (Mutant of Complete: the outcome is written before the claim is checked.)
CompleteUnchecked(w, outcome) ==
    LET j == msg[w].job IN
    /\ jobs' = [jobs EXCEPT ![j] =
                    [@ EXCEPT !.status = IF Held(j, claim[w]) THEN "completed" ELSE @,
                              !.outcome = outcome]]
    /\ Finish(w) \/ Continue(w, "readFailure")
    /\ UNCHANGED <<msgs, api, faults>>

\* The transaction that completes the job, if the claim is still held.  The
\* task then returns, or enters the error path all the same: the connection
\* is lost after the commit, or suggest_merge_candidates raises.
Complete(w, outcome) ==
    LET j == msg[w].job IN
    /\ jobs' = IF Held(j, claim[w])
               THEN [jobs EXCEPT ![j] = [@ EXCEPT !.status = "completed",
                                               !.outcome = outcome]]
               ELSE jobs
    /\ Finish(w) \/ Continue(w, "readFailure")
    /\ UNCHANGED <<msgs, api, faults>>

CompleteDuplicate(w) ==
    /\ pc[w] = "duplicate"
    /\ Complete(w, "duplicate")
    /\ UNCHANGED rows

CompleteDiscarded(w) ==
    /\ pc[w] = "discard"
    /\ Complete(w, "discarded")
    /\ UNCHANGED rows

\* (Mutant of PersistProcessedSet: trusts the lookup made before it.)
PersistWithoutRecheck(w) ==
    LET j == msg[w].job
        i == jobs[j].item IN
    /\ pc[w] = "persist"
    /\ IF Held(j, claim[w]) THEN rows' = [rows EXCEPT ![i] = @ + 1]
                            ELSE UNCHANGED rows
    /\ Complete(w, "persisted")

\* The set with all that belongs to it, and the end of its job.
InsertSet(w) ==
    /\ rows' = [rows EXCEPT ![jobs[msg[w].job].item] = @ + 1]
    /\ Complete(w, "persisted")

\* persist_processed_set: one transaction under the advisory locks of the
\* payload's identities, which looks for a duplicate again.
PersistProcessedSet(w) ==
    LET j == msg[w].job IN
    /\ pc[w] = "persist"
    /\ IF Held(j, claim[w]) /\ rows[jobs[j].item] = 0
       THEN InsertSet(w)
       ELSE /\ UNCHANGED rows
            /\ Complete(w, "duplicate")

\* Anything raised before the commit reaches _record_retry.
ProcessRaises(w) ==
    /\ pc[w] \in {"lookup", "duplicate", "discard", "persist"}
    /\ jobs[msg[w].job].failures < MaxFailures
    /\ Continue(w, "readFailure")
    /\ UNCHANGED <<jobs, rows, msgs, api, faults>>

-----------------------------------------------------------------------------
ApiStep(j) == ApiPublish(j) \/ ApiPublishFails(j) \/ ApiTerminalize(j)

\* How a provider task goes on; its failure path is the process task's, too.
ImportStep(w) ==
    \/ Reread(w) \/ Terminate(w)
    \/ Dispatch(w) \/ DispatchFails(w)
    \/ ReadFailure(w) \/ MarkRetry(w) \/ MarkExhausted(w) \/ MarkDead(w)
    \/ Republish(w)

ProcessStep(w) ==
    \/ ClaimRetry(w) \/ Lookup(w) \/ CompleteDuplicate(w) \/ CompleteDiscarded(w)
    \/ PersistProcessedSet(w) \/ ProcessRaises(w)

WorkerStep(w) == ImportStep(w) \/ ProcessStep(w)

Delivery(m) == \E w \in Workers : StartImport(w, m) \/ StartProcess(w, m)

Next ==
    \/ \E j \in Jobs, i \in Items : ImportUrl(j, i)
    \/ \E j, k \in Jobs : RetryJob(j, k)
    \/ \E j \in Jobs : ApiStep(j) \/ ApiCrash(j)
    \/ Redrive
    \/ \E j \in Jobs : RedriveFails(j)
    \/ \E m \in msgs : Delivery(m)
    \/ \E w \in Workers : WorkerStep(w)
    \/ \E w \in Workers : TaskDies(w) \/ Redeliver(w)
    \/ BrokerLoss
    \/ \E j \in Jobs : LeaseExpires(j) \/ RetryFallsDue(j)

Spec == Init /\ [][Next]_vars

\* Handlers and tasks that have begun go on, beat ticks and time passes.
\* The queues are first in, first out: a message does not wait for ever while
\* others of its queue are taken.  No request and no fault is ever owed.
Fairness ==
    /\ \A j \in Jobs : WF_vars(ApiStep(j))
    /\ \A j \in Jobs, kind \in {"provider", "process"} :
          SF_vars(\E m \in msgs : m.job = j /\ m.kind = kind /\ Delivery(m))
    /\ \A w \in Workers : WF_vars(WorkerStep(w))
    /\ WF_vars(Redrive)
    /\ \A j \in Jobs : WF_vars(LeaseExpires(j) /\ UNCHANGED faults)
                       /\ WF_vars(RetryFallsDue(j))

FairSpec == Spec /\ Fairness
-----------------------------------------------------------------------------
(* What a reader of import_jobs and sets sees, as a JobLedger. *)

LedgerState(r) ==
    CASE r.status = "absent" -> "unsubmitted"
      [] r.status \in Active -> "open"
      [] r.status = "completed" -> r.outcome
      [] OTHER -> "closed"

Ledger == INSTANCE JobLedger WITH
    ledger <- [j \in Jobs |-> [state |-> LedgerState(jobs[j]),
                               item  |-> jobs[j].item]],
    catalogue <- {i \in Items : rows[i] > 0}

-----------------------------------------------------------------------------
(* Properties. *)

PersistedBy(i) == {j \in Jobs : jobs[j].item = i /\ jobs[j].outcome = "persisted"}

\* A provider item becomes at most one set, and every set is the recorded
\* outcome of exactly one completed job: the set and the job's completion
\* commit together (persist_processed_set), however many deliveries, claims
\* and crashes raced for it.
OneSetPerItem ==
    \A i \in Items : rows[i] <= 1 /\ Cardinality(PersistedBy(i)) = rows[i]

\* What a finished job tells the operator is true: an outcome is there
\* exactly when the job is completed, and "persisted" or "duplicate" only
\* when the set it points at exists (result_set_id of import_jobs).
OutcomeIsTrue ==
    \A j \in Jobs :
        /\ jobs[j].outcome # "none" <=> jobs[j].status = "completed"
        /\ jobs[j].outcome \in {"persisted", "duplicate"} => rows[jobs[j].item] > 0

\* Claims, leases, redeliveries, retries and crashes are invisible: whoever
\* reads import_jobs and sets sees every job settled at most once, in a way
\* that agrees with the sets (the completing transactions, transition_job and
\* transition_claimed_job).
ImplementsLedger == Ledger!Spec

\* A task whose claim has been superseded can no longer touch a job or
\* create a set, wherever it was when it lost the claim
\* (transition_claimed_job and the completing transactions).
StaleOwnersAreFenced ==
    [][\A w \in Workers :
          (/\ pc[w] \notin {"idle", "claim"} /\ pc'[w] # pc[w]
           /\ claim[w] # jobs[msg[w].job].claims)
          => UNCHANGED <<jobs, rows>>]_vars

\* A terminal row never changes again: not by a late delivery, a second
\* owner, the redriver or the request handler that failed to publish it.
TerminalIsFinal ==
    [][\A j \in Jobs : jobs[j].status \in Terminal => jobs'[j] = jobs[j]]_vars

\* No failure is lost from or counted twice in the durable retry budget,
\* although _record_retry computes the new count from an earlier read.
EveryFailureIsCounted ==
    [][\A j \in Jobs :
          jobs[j].status # "absent" =>
             jobs'[j].failures = jobs[j].failures +
                (IF jobs[j].status = "processing" /\ jobs'[j].status = "retry"
                 THEN 1 ELSE 0)]_vars

\* Every accepted job ends: lost messages, dead workers and expired leases
\* are made good by the redriver, and retries are bounded.
EveryJobSettles ==
    \A j \in Jobs : jobs[j].status \in Active ~> jobs[j].status \in Terminal
=============================================================================
