---------------------------- MODULE ProfileJobs ----------------------------
(***************************************************************************)
(* Discovery for one search profile: the parent jobs its admins and the    *)
(* scheduler queue, the page each parent receives from the provider and    *)
(* checkpoints in its own row, the child job of every payload of the page, *)
(* the finalizer that polls the children, and the profile's cursor, from   *)
(* which the next parent goes on.                                          *)
(*                                                                         *)
(* What happens inside a child is the subject of ImportJobs; here a child  *)
(* is claimed, is worked on by "the pipeline" and ends.                    *)
(*                                                                         *)
(* A definition introduced as a mutant is a plausible mistake in the one   *)
(* that follows it; nothing uses it but the experiment that shows that a   *)
(* property would notice.                                                  *)
(***************************************************************************)
EXTENDS Naturals, FiniteSets

CONSTANTS
    Jobs,          \* identifiers of parent jobs, in created_at order
    Workers,       \* workers that run profile and finalizer tasks
    NoWorker,
    NoMsg,         \* what an idle worker is delivering
    NoPage,        \* the page of a parent that has received none
    LastPage,      \* the provider has the pages 0 .. LastPage
    PageSize,      \* payloads of a page
    Kinds,         \* kinds of profile: "paged" or "direct"
    Requests,      \* what is asked of the system, out of "run", "retry",
                   \* "delete" and "schedule"
    MaxRetries,    \* Len(RETRY_DELAYS), 3 in the code
    MaxParents,    \* bound: parents of a profile of each kind
    MaxFailures,   \* bound: temporary failures of a parent's search, by kind
    MaxFaults      \* bound: crashes, losses, slow leases, failing children

ASSUME JobsAssumption == Jobs \subseteq Nat \ {0} /\ IsFiniteSet(Jobs)
ASSUME NullsAssumption == NoWorker \notin Workers /\ NoPage \notin Nat
ASSUME KindsAssumption == Kinds \subseteq {"paged", "direct"}
ASSUME RequestsAssumption == Requests \subseteq {"run", "retry", "delete", "schedule"}
ASSUME BoundsAssumption ==
    /\ {LastPage, PageSize, MaxRetries, MaxFaults} \subseteq Nat
    /\ MaxParents \in [Kinds -> Nat] /\ MaxFailures \in [Kinds -> Nat]

(***************************************************************************)
(* The provider's pages.  A page token names the page it leads to; no      *)
(* token (null) is the token of page 0, and what the last page answers.    *)
(***************************************************************************)
Pages == 0 .. LastPage
Items == 1 .. PageSize
NextPage(p) == IF p = LastPage THEN 0 ELSE p + 1

NoJob == 0
Active == {"queued", "processing", "retry"}
Terminal == {"completed", "failed", "blocked", "dead_letter"}

(***************************************************************************)
(* A parent job.  claims, elapsed and failures are those of ImportJobs;    *)
(* page is the checkpoint in details: the page received, with its          *)
(* next_page_token and payloads.  (For a direct profile: the page whose    *)
(* items complete_provider_discovery stored.)                              *)
(***************************************************************************)
ParentRow == [status   : Active \cup Terminal \cup {"absent"},
              claims   : Nat,
              elapsed  : BOOLEAN,
              failures : Nat,
              page     : Pages \cup {NoPage},
              retryOf  : Jobs \cup {NoJob}]

NoParent == [status |-> "absent", claims |-> 0, elapsed |-> FALSE,
             failures |-> 0, page |-> NoPage, retryOf |-> NoJob]

(***************************************************************************)
(* A child job, unique per parent and payload.  "failed" stands for        *)
(* failed, blocked and dead_letter.  claimer: the parent's task that made  *)
(* the latest claim and may still record its failure.  sent: the pipeline  *)
(* works on that claim.                                                    *)
(***************************************************************************)
ChildActive == {"queued", "processing", "retry"}
ChildTerminal == {"completed", "failed"}
ChildRow == [status  : ChildActive \cup ChildTerminal \cup {"absent"},
             elapsed : BOOLEAN,
             claimer : Workers \cup {NoWorker},
             sent    : BOOLEAN]

NoChild == [status |-> "absent", elapsed |-> FALSE,
            claimer |-> NoWorker, sent |-> FALSE]

Messages == [kind : {"run", "finalize"}, job : Jobs, claim : Nat]
RunMsg(j) == [kind |-> "run", job |-> j, claim |-> 0]
FinalizeMsg(j, c) == [kind |-> "finalize", job |-> j, claim |-> c]

TaskPC == {"idle", "reread", "load", "checkpoint", "store",
           "child", "claimChild", "lookChild", "dispatchChild",
           "readChildFailure", "markChildRetry", "publishFinalizer",
           "readFailure", "markRetry", "markExhausted", "markDead", "republish",
           "readCursor", "conclude", "collect"}

(***************************************************************************)
(* What a task remembers: its delivery, its ownership token, the page it   *)
(* has fetched or read back, the payload it is at, the failure count it    *)
(* read, the end it has decided on and the cursor it will write.           *)
(***************************************************************************)
Task == [pc : TaskPC, msg : Messages \cup {NoMsg}, claim : Nat,
         page : Pages \cup {NoPage}, item : Items \cup {0}, seen : Nat,
         end : Terminal \cup {"none"}, cursor : Pages]

NoTask == [pc |-> "idle", msg |-> NoMsg, claim |-> 0, page |-> NoPage,
           item |-> 0, seen |-> 0, end |-> "none", cursor |-> 0]

SchedulerPC == {"idle", "queue", "publish", "mark"}
ApiPC == {"none", "dispatch", "terminalize"}

VARIABLES
    profile,    \* the row of search_profiles, and whether it is due
    jobs,       \* its parent jobs
    children,   \* the child jobs of every parent
    msgs,       \* messages waiting in Redis
    api,        \* progress of the request handler that created the parent
    scheduler,  \* progress of schedule_due_profiles
    task,       \* the task each worker runs
    faults      \* faults so far

vars == <<profile, jobs, children, msgs, api, scheduler, task, faults>>

TypeOK ==
    /\ profile \in [kind : Kinds, cursor : Pages, due : BOOLEAN, deleted : BOOLEAN]
    /\ jobs \in [Jobs -> ParentRow]
    /\ children \in [Jobs -> [Items -> ChildRow]]
    /\ msgs \in SUBSET Messages
    /\ api \in [Jobs -> ApiPC]
    /\ scheduler \in [pc : SchedulerPC, job : Jobs \cup {NoJob}]
    /\ task \in [Workers -> Task]
    /\ faults \in Nat

Init ==
    /\ profile \in [kind : Kinds, cursor : {0}, due : {FALSE}, deleted : {FALSE}]
    /\ jobs = [j \in Jobs |-> NoParent]
    /\ children = [j \in Jobs |-> [i \in Items |-> NoChild]]
    /\ msgs = {}
    /\ api = [j \in Jobs |-> "none"]
    /\ scheduler = [pc |-> "idle", job |-> NoJob]
    /\ task = [w \in Workers |-> NoTask]
    /\ faults = 0

-----------------------------------------------------------------------------
(* The repository's predicates and the rows it writes. *)

\* (Mutant of Claimable: an expired lease is not claimable.)
ClaimableNoLease(r) ==
    \/ r.status = "queued"
    \/ r.status = "retry" /\ r.elapsed

Claimable(r) ==
    \/ r.status = "queued"
    \/ r.status \in {"retry", "processing"} /\ r.elapsed

\* processing, and the token is still the one of the latest claim.
Held(j, c) == jobs[j].status = "processing" /\ jobs[j].claims = c

\* (Mutant of Latest: any parent may write the cursor.)
AnyParent(j) == TRUE

\* order by created_at desc limit 1
Latest(j) == \A k \in Jobs : jobs[k].status # "absent" => k <= j

ActiveParents == {j \in Jobs : jobs[j].status \in Active}

\* The next identifier.
Fresh(j) ==
    /\ jobs[j].status = "absent"
    /\ Cardinality({k \in Jobs : jobs[k].status # "absent"}) < MaxParents[profile.kind]
    /\ \A k \in Jobs : jobs[k].status = "absent" => j <= k

\* (Mutant of ClaimedChild: a status that is not in the enumeration.)
ClaimedChildMisspelt(c, w) == [c EXCEPT !.status = "running", !.elapsed = FALSE,
                                        !.claimer = w, !.sent = FALSE]

\* What claim_job makes of a child's row.
ClaimedChild(c, w) == [c EXCEPT !.status = "processing", !.elapsed = FALSE,
                                !.claimer = w, !.sent = FALSE]

Fault == faults < MaxFaults /\ faults' = faults + 1

Goto(w, label) == task' = [task EXCEPT ![w].pc = label]
Finish(w) == task' = [task EXCEPT ![w] = NoTask]

-----------------------------------------------------------------------------
(* Requests of an admin. *)

\* queue_profile_with_creation: an active parent is returned instead of a
\* new one.
QueueProfile(j) ==
    /\ ~profile.deleted
    /\ ActiveParents = {}
    /\ Fresh(j)
    /\ jobs' = [jobs EXCEPT ![j] = [NoParent EXCEPT !.status = "queued"]]

\* POST /search-profiles/{id}/run
RunProfile(j) ==
    /\ "run" \in Requests
    /\ QueueProfile(j)
    /\ api' = [api EXCEPT ![j] = "dispatch"]
    /\ UNCHANGED <<profile, children, msgs, scheduler, task, faults>>

ActiveRetries(j) ==
    {k \in Jobs : jobs[k].retryOf = j /\ jobs[k].status \in Active}

\* create_retry_job: the copy of the details holds the checkpoint and the
\* failure count.  The profile is not looked at: it may be deleted, or have
\* another active parent.  (The retry of a child would copy the key of
\* import_jobs_profile_child_idx; the insert fails.)
CreateRetry(j, k) ==
    /\ jobs[j].status \in {"failed", "dead_letter"}
    /\ ActiveRetries(j) = {}
    /\ Fresh(k)
    /\ jobs' = [jobs EXCEPT ![k] = [NoParent EXCEPT !.status = "queued",
                                                    !.failures = jobs[j].failures,
                                                    !.page = jobs[j].page,
                                                    !.retryOf = j]]

\* POST /imports/queue/{id}/retry of a parent.  Its own look at the status
\* comes before the transaction's; a job that has failed stays so.
RetryParent(j, k) ==
    /\ "retry" \in Requests
    /\ CreateRetry(j, k)
    /\ api' = [api EXCEPT ![k] = "dispatch"]
    /\ UNCHANGED <<profile, children, msgs, scheduler, task, faults>>

DeleteProfile ==
    /\ "delete" \in Requests
    /\ ~profile.deleted
    /\ ActiveParents = {}
    /\ profile' = [profile EXCEPT !.deleted = TRUE]
    /\ UNCHANGED <<jobs, children, msgs, api, scheduler, task, faults>>

\* update_profile: a changed schedule clears next_scheduled_at, and the
\* profile is due if the new schedule has an occurrence since its creation.
ChangeSchedule ==
    /\ "schedule" \in Requests
    /\ ~profile.deleted
    /\ \E due \in BOOLEAN : profile' = [profile EXCEPT !.due = due]
    /\ UNCHANGED <<jobs, children, msgs, api, scheduler, task, faults>>

\* dispatch_or_terminalize
ApiPublish(j) ==
    /\ api[j] = "dispatch"
    /\ msgs' = msgs \cup {RunMsg(j)}
    /\ api' = [api EXCEPT ![j] = "none"]
    /\ UNCHANGED <<profile, jobs, children, scheduler, task, faults>>

ApiPublishFails(j) ==
    /\ api[j] = "dispatch"
    /\ Fault
    /\ \E reached \in BOOLEAN :
          msgs' = IF reached THEN msgs \cup {RunMsg(j)} ELSE msgs
    /\ api' = [api EXCEPT ![j] = "terminalize"]
    /\ UNCHANGED <<profile, jobs, children, scheduler, task>>

\* transition_job, without a token.
ApiTerminalize(j) ==
    /\ api[j] = "terminalize"
    /\ jobs' = IF jobs[j].status \in {"queued", "processing"}
               THEN [jobs EXCEPT ![j].status = "failed"] ELSE jobs
    /\ api' = [api EXCEPT ![j] = "none"]
    /\ UNCHANGED <<profile, children, msgs, scheduler, task, faults>>

-----------------------------------------------------------------------------
(* schedule_due_profiles, as far as this profile is concerned. *)

SchedulerGoto(label, j) == scheduler' = [pc |-> label, job |-> j]

\* The list of profiles is read before any is queued.
ListDue ==
    /\ scheduler.pc = "idle"
    /\ profile.due /\ ~profile.deleted
    /\ SchedulerGoto("queue", NoJob)
    /\ UNCHANGED <<profile, jobs, children, msgs, api, task, faults>>

ScheduleQueue ==
    /\ scheduler.pc = "queue"
    /\ \/ \E j \in Jobs : QueueProfile(j) /\ SchedulerGoto("publish", j)
       \/ /\ profile.deleted \/ ActiveParents # {}
          /\ SchedulerGoto("idle", NoJob)
          /\ UNCHANGED jobs
    /\ UNCHANGED <<profile, children, msgs, api, task, faults>>

SchedulePublish ==
    /\ scheduler.pc = "publish"
    /\ msgs' = msgs \cup {RunMsg(scheduler.job)}
    /\ SchedulerGoto("mark", NoJob)
    /\ UNCHANGED <<profile, jobs, children, api, task, faults>>

\* A failed publication ends the task: neither this profile is marked nor
\* the following ones looked at, and the job stays queued.  A worker that
\* dies leaves the same behind.
SchedulerFails ==
    /\ scheduler.pc # "idle"
    /\ Fault
    /\ SchedulerGoto("idle", NoJob)
    /\ UNCHANGED <<profile, jobs, children, msgs, api, task>>

\* mark_profile_scheduled
MarkScheduled ==
    /\ scheduler.pc = "mark"
    /\ profile' = IF profile.deleted THEN profile
                  ELSE [profile EXCEPT !.due = FALSE]
    /\ SchedulerGoto("idle", NoJob)
    /\ UNCHANGED <<jobs, children, msgs, api, task, faults>>

\* next_scheduled_at passes.
FallsDue ==
    /\ "schedule" \in Requests
    /\ ~profile.due /\ ~profile.deleted
    /\ profile' = [profile EXCEPT !.due = TRUE]
    /\ UNCHANGED <<jobs, children, msgs, api, scheduler, task, faults>>

-----------------------------------------------------------------------------
(* The redriver, deliveries and faults, as in ImportJobs. *)

\* redrive_import_jobs, for the parents; RestartChild is it for the children.
Redrive ==
    /\ msgs' = msgs \cup {RunMsg(j) : j \in {k \in Jobs : Claimable(jobs[k])}}
    /\ UNCHANGED <<profile, jobs, children, api, scheduler, task, faults>>

Deliver(w, m) ==
    /\ task[w].pc = "idle"
    /\ m \in msgs
    /\ msgs' = msgs \ {m}
    /\ UNCHANGED <<profile, children, api, scheduler>>

TaskDies(w) ==
    /\ task[w].pc # "idle"
    /\ Fault
    /\ \E requeued \in BOOLEAN :
          msgs' = IF requeued THEN msgs \cup {task[w].msg} ELSE msgs
    /\ Finish(w)
    /\ UNCHANGED <<profile, jobs, children, api, scheduler>>

Redeliver(w) ==
    /\ task[w].pc # "idle"
    /\ Fault
    /\ msgs' = msgs \cup {task[w].msg}
    /\ UNCHANGED <<profile, jobs, children, api, scheduler, task>>

BrokerLoss ==
    /\ msgs # {}
    /\ Fault
    /\ msgs' = {}
    /\ UNCHANGED <<profile, jobs, children, api, scheduler, task>>

\* Somebody still works, or is to work, under the parent's claim.
ClaimInUse(j) ==
    \/ \E w \in Workers : /\ task[w].pc # "idle" /\ task[w].msg.job = j
                          /\ task[w].claim = jobs[j].claims
    \/ FinalizeMsg(j, jobs[j].claims) \in msgs

LeaseExpires(j) ==
    /\ jobs[j].status = "processing" /\ ~jobs[j].elapsed
    /\ jobs' = [jobs EXCEPT ![j].elapsed = TRUE]
    /\ IF ClaimInUse(j) THEN Fault ELSE UNCHANGED faults
    /\ UNCHANGED <<profile, children, msgs, api, scheduler, task>>

RetryFallsDue(j) ==
    /\ jobs[j].status = "retry" /\ ~jobs[j].elapsed
    /\ jobs' = [jobs EXCEPT ![j].elapsed = TRUE]
    /\ UNCHANGED <<profile, children, msgs, api, scheduler, task, faults>>

-----------------------------------------------------------------------------
(* The children's own pipeline: what ImportJobs promises of it. *)

SetChild(j, i, row) == children' = [children EXCEPT ![j][i] = row]
PipelineFrame == UNCHANGED <<profile, jobs, msgs, api, scheduler, task>>

\* Redriven, or claimed for its retry, and fetched again if need be.
RestartChild(j, i) ==
    /\ Claimable(children[j][i])
    /\ SetChild(j, i, [ClaimedChild(children[j][i], NoWorker) EXCEPT !.sent = TRUE])
    /\ PipelineFrame /\ UNCHANGED faults

ChildEnds(j, i) ==
    /\ children[j][i].status = "processing" /\ children[j][i].sent
    /\ \E end \in ChildTerminal :
          SetChild(j, i, [children[j][i] EXCEPT !.status = end,
                                                !.claimer = NoWorker, !.sent = FALSE])
    /\ PipelineFrame /\ UNCHANGED faults

ChildFails(j, i) ==
    /\ children[j][i].status = "processing" /\ children[j][i].sent
    /\ Fault
    /\ SetChild(j, i, [children[j][i] EXCEPT !.status = "retry", !.elapsed = FALSE,
                                             !.sent = FALSE])
    /\ PipelineFrame

\* The task that claimed the child is still at it.
ClaimerAtWork(j, i) ==
    \E w \in Workers : /\ children[j][i].claimer = w
                       /\ task[w].pc \in {"dispatchChild", "readChildFailure",
                                          "markChildRetry"}
                       /\ task[w].msg.job = j /\ task[w].item = i

\* The lease of a child nobody works on expires, or a delay ends.
ChildElapses(j, i) ==
    LET c == children[j][i] IN
    /\ ~c.elapsed
    /\ \/ c.status = "retry"
       \/ c.status = "processing" /\ ~c.sent /\ ~ClaimerAtWork(j, i)
    /\ SetChild(j, i, [children[j][i] EXCEPT !.elapsed = TRUE])
    /\ PipelineFrame /\ UNCHANGED faults

\* Its message is lost, or its lease is too short for the work under it.
ChildIsLost(j, i) ==
    /\ children[j][i].status = "processing" /\ ~children[j][i].elapsed
    /\ Fault
    /\ \E sent \in {children[j][i].sent, FALSE} :
          SetChild(j, i, [children[j][i] EXCEPT !.elapsed = TRUE, !.sent = sent])
    /\ PipelineFrame

-----------------------------------------------------------------------------
(* run_youtube_profile, run_ftm_profile, discover_profile. *)

TaskFrame == UNCHANGED <<profile, api, scheduler, faults>>

\* The job is exhausted, and its dead letter not yet written.
DeadLetterPending(j) ==
    \E w \in Workers : /\ task[w].pc = "markDead" /\ task[w].msg.job = j
                       /\ task[w].claim = jobs[j].claims

\* claim_profile_job: a terminal job returns.  A claim that comes before a
\* dead letter that is to be written counts as a fault.
StartRun(w, m) ==
    /\ m.kind = "run"
    /\ Deliver(w, m)
    /\ IF DeadLetterPending(m.job) THEN Fault ELSE UNCHANGED faults
    /\ IF jobs[m.job].status \in Terminal
       THEN UNCHANGED <<jobs, task>>
       ELSE IF Claimable(jobs[m.job])
       THEN /\ jobs' = [jobs EXCEPT ![m.job].status = "processing",
                                    ![m.job].claims = @ + 1,
                                    ![m.job].elapsed = FALSE]
            /\ \/ task' = [task EXCEPT ![w] =
                     [NoTask EXCEPT !.pc = "load", !.msg = m,
                                    !.claim = jobs[m.job].claims + 1]]
               \* provider_mode is not live, or the provider is disabled
               \/ task' = [task EXCEPT ![w] =
                     [NoTask EXCEPT !.pc = "readCursor", !.msg = m,
                                    !.claim = jobs[m.job].claims + 1,
                                    !.end = "blocked"]]
       ELSE /\ task' = [task EXCEPT ![w] =
                  [NoTask EXCEPT !.pc = "reread", !.msg = m]]
            /\ UNCHANGED jobs

\* claim_or_reschedule, after a refused claim.
Reread(w) ==
    LET r == jobs[task[w].msg.job] IN
    /\ task[w].pc = "reread"
    /\ msgs' = IF r.status = "processing" \/ (r.status = "retry" /\ ~r.elapsed)
               THEN msgs \cup {task[w].msg} ELSE msgs
    /\ Finish(w)
    /\ UNCHANGED <<jobs, children>> /\ TaskFrame

\* finalize_profile_failure is entered with the status to write.
GiveUp(w, status) ==
    task' = [task EXCEPT ![w].pc = "readCursor", ![w].end = status]

\* The loop over the payloads of the checkpoint; an empty page has none.
FirstItem(w) ==
    task' = IF PageSize = 0
            THEN [task EXCEPT ![w].pc = "publishFinalizer", ![w].page = NoPage]
            ELSE [task EXCEPT ![w].pc = "child", ![w].page = NoPage, ![w].item = 1]

\* The provider answers with the page at the cursor, asks to come back, fails
\* for good, or (FTM) forbids.
AskProvider(w) ==
    LET fetched == IF profile.kind = "direct" THEN "store" ELSE "checkpoint" IN
    \/ task' = [task EXCEPT ![w].pc = fetched, ![w].page = profile.cursor]
    \/ /\ jobs[task[w].msg.job].failures < MaxFailures[profile.kind]
       /\ Goto(w, "readFailure")
    \/ \E end \in {"failed", "blocked"} : GiveUp(w, end)

\* _load_profile_checkpoint, _load_ftm_checkpoint, _request_from_job: read
\* the profile and the parent, and ask the provider if there is no
\* checkpoint.  A deleted profile raises.
Load(w) ==
    /\ task[w].pc = "load"
    /\ IF profile.deleted
       THEN GiveUp(w, "failed")
       ELSE IF jobs[task[w].msg.job].page # NoPage
       THEN FirstItem(w)
       ELSE AskProvider(w)
    /\ UNCHANGED <<jobs, children, msgs>> /\ TaskFrame

\* checkpoint_profile_page keeps the checkpoint that is there.
Checkpoint(w) ==
    LET j == task[w].msg.job IN
    /\ task[w].pc = "checkpoint"
    /\ IF Held(j, task[w].claim)
       THEN /\ jobs' = [jobs EXCEPT ![j].page = IF @ = NoPage THEN task[w].page ELSE @]
            /\ FirstItem(w)
       ELSE Finish(w) /\ UNCHANGED jobs
    /\ UNCHANGED <<children, msgs>> /\ TaskFrame

\* complete_provider_discovery: the items, the cursor and the completion
\* commit together.
StoreDiscovery(w) ==
    LET j == task[w].msg.job
        p == task[w].page IN
    /\ task[w].pc = "store"
    /\ IF Held(j, task[w].claim)
       THEN /\ jobs' = [jobs EXCEPT ![j].status = "completed", ![j].page = p]
            /\ profile' = IF Latest(j) THEN [profile EXCEPT !.cursor = NextPage(p)]
                          ELSE profile
       ELSE UNCHANGED <<jobs, profile>>
    /\ Finish(w)
    /\ UNCHANGED <<children, msgs, api, scheduler, faults>>

\* The next payload, or the finalizer after the last one.
NextItem(w) ==
    task' = IF task[w].item < PageSize
            THEN [task EXCEPT ![w].pc = "child", ![w].item = @ + 1]
            ELSE [task EXCEPT ![w].pc = "publishFinalizer"]

\* (Mutant of EnsureChild: the parent's token is not asked for.)
EnsureChildUnfenced(w) ==
    LET j == task[w].msg.job
        i == task[w].item
        c == children[j][i] IN
    /\ task[w].pc = "child"
    /\ IF c.status = "absent"
       THEN SetChild(j, i, [c EXCEPT !.status = "queued"])
       ELSE UNCHANGED children
    /\ CASE c.status = "completed" -> NextItem(w)
         [] c.status = "failed" -> GiveUp(w, "failed")
         [] OTHER -> Goto(w, "claimChild")
    /\ UNCHANGED <<jobs, msgs>> /\ TaskFrame

\* get_or_create_child_job, under the parent's token, and what the loop makes
\* of the child's status.
EnsureChild(w) ==
    LET j == task[w].msg.job
        i == task[w].item
        c == children[j][i] IN
    /\ task[w].pc = "child"
    /\ IF Held(j, task[w].claim)
       THEN /\ IF c.status = "absent"
               THEN SetChild(j, i, [c EXCEPT !.status = "queued"])
               ELSE UNCHANGED children
            /\ CASE c.status = "completed" -> NextItem(w)
                 [] c.status = "failed" -> GiveUp(w, "failed")
                 [] OTHER -> Goto(w, "claimChild")
       ELSE Finish(w) /\ UNCHANGED children
    /\ UNCHANGED <<jobs, msgs>> /\ TaskFrame

\* claim_job of the child; the parent's token is not looked at.
ClaimChild(w) ==
    LET j == task[w].msg.job
        i == task[w].item IN
    /\ task[w].pc = "claimChild"
    /\ IF Claimable(children[j][i])
       THEN SetChild(j, i, ClaimedChild(children[j][i], w)) /\ Goto(w, "dispatchChild")
       ELSE UNCHANGED children /\ Goto(w, "lookChild")
    /\ UNCHANGED <<jobs, msgs>> /\ TaskFrame

\* A child somebody else processes is left to them; any other that could not
\* be claimed is a temporary failure of the parent.
LookChild(w) ==
    LET c == children[task[w].msg.job][task[w].item] IN
    /\ task[w].pc = "lookChild"
    /\ IF c.status = "processing" THEN NextItem(w) ELSE Goto(w, "readFailure")
    /\ UNCHANGED <<jobs, children, msgs>> /\ TaskFrame

\* The message to the process queue carries the child's claim; it is void
\* when the child has been claimed again.
Sent(j, i, w, claimer) ==
    IF children[j][i].claimer = w /\ children[j][i].status = "processing"
    THEN SetChild(j, i, [children[j][i] EXCEPT !.sent = TRUE, !.claimer = claimer])
    ELSE UNCHANGED children

DispatchChild(w) ==
    /\ task[w].pc = "dispatchChild"
    /\ Sent(task[w].msg.job, task[w].item, w, NoWorker)
    /\ NextItem(w)
    /\ UNCHANGED <<jobs, msgs>> /\ TaskFrame

DispatchChildFails(w) ==
    /\ task[w].pc = "dispatchChild"
    /\ Fault
    /\ Sent(task[w].msg.job, task[w].item, w, w) \/ UNCHANGED children
    /\ Goto(w, "readChildFailure")
    /\ UNCHANGED <<profile, jobs, msgs, api, scheduler>>

\* _record_retry of the child raises when somebody else has taken it further
\* than processing, and that ends the parent.
ReadChildFailure(w) ==
    LET c == children[task[w].msg.job][task[w].item] IN
    /\ task[w].pc = "readChildFailure"
    /\ CASE c.status = "processing" -> Goto(w, "markChildRetry")
         [] c.status = "completed" -> Goto(w, "readFailure")
         [] OTHER -> GiveUp(w, "failed")
    /\ UNCHANGED <<jobs, children, msgs>> /\ TaskFrame

\* The failures of a child are not counted here: it may have had its last.
\* A second mark under the same claim is no allowed transition, and raises.
MarkChildRetry(w) ==
    LET j == task[w].msg.job
        i == task[w].item
        c == children[j][i] IN
    /\ task[w].pc = "markChildRetry"
    /\ IF c.claimer = w /\ c.status = "processing"
       THEN \E status \in {"retry", "failed"} :
               SetChild(j, i, [c EXCEPT !.status = status, !.elapsed = FALSE,
                                        !.sent = FALSE])
       ELSE UNCHANGED children
    /\ IF c.claimer = w /\ c.status = "retry"
       THEN GiveUp(w, "failed")
       ELSE Goto(w, "readFailure")
    /\ UNCHANGED <<jobs, msgs>> /\ TaskFrame

PublishFinalizer(w) ==
    /\ task[w].pc = "publishFinalizer"
    /\ msgs' = msgs \cup {FinalizeMsg(task[w].msg.job, task[w].claim)}
    /\ Finish(w)
    /\ UNCHANGED <<jobs, children>> /\ TaskFrame

PublishFinalizerFails(w) ==
    /\ task[w].pc = "publishFinalizer"
    /\ Fault
    /\ \E reached \in BOOLEAN :
          msgs' = IF reached
                  THEN msgs \cup {FinalizeMsg(task[w].msg.job, task[w].claim)}
                  ELSE msgs
    /\ Goto(w, "readFailure")
    /\ UNCHANGED <<profile, jobs, children, api, scheduler>>

-----------------------------------------------------------------------------
(* _record_retry of the parent.  The details it writes, checkpoint         *)
(* included, are those it has read.                                        *)

ReadFailure(w) ==
    LET r == jobs[task[w].msg.job] IN
    /\ task[w].pc = "readFailure"
    /\ IF r.status = "processing"
       THEN task' = [task EXCEPT ![w].pc = IF r.failures + 1 <= MaxRetries
                                           THEN "markRetry" ELSE "markExhausted",
                                 ![w].seen = r.failures, ![w].page = r.page]
       ELSE Finish(w)
    /\ UNCHANGED <<jobs, children, msgs>> /\ TaskFrame

\* (Mutant of RecordFailure: the count is written over the other details.)
RecordFailureAlone(w, elapsed, label) ==
    LET j == task[w].msg.job IN
    /\ IF Held(j, task[w].claim)
       THEN /\ jobs' = [jobs EXCEPT ![j].status = "retry",
                                    ![j].elapsed = elapsed,
                                    ![j].failures = task[w].seen + 1,
                                    ![j].page = NoPage]
            /\ Goto(w, label)
       ELSE UNCHANGED jobs /\ Finish(w)
    /\ UNCHANGED <<children, msgs>> /\ TaskFrame

\* transition_claimed_job to retry.
RecordFailure(w, elapsed, label) ==
    LET j == task[w].msg.job IN
    /\ IF Held(j, task[w].claim)
       THEN /\ jobs' = [jobs EXCEPT ![j].status = "retry",
                                    ![j].elapsed = elapsed,
                                    ![j].failures = task[w].seen + 1,
                                    ![j].page = task[w].page]
            /\ Goto(w, label)
       ELSE UNCHANGED jobs /\ Finish(w)
    /\ UNCHANGED <<children, msgs>> /\ TaskFrame

MarkRetry(w) == task[w].pc = "markRetry" /\ RecordFailure(w, FALSE, "republish")
MarkExhausted(w) == task[w].pc = "markExhausted" /\ RecordFailure(w, TRUE, "markDead")

MarkDead(w) ==
    LET j == task[w].msg.job IN
    /\ task[w].pc = "markDead"
    /\ jobs' = IF jobs[j].status = "retry" /\ jobs[j].claims = task[w].claim
               THEN [jobs EXCEPT ![j].status = "dead_letter"] ELSE jobs
    /\ Finish(w)
    /\ UNCHANGED <<children, msgs>> /\ TaskFrame

Republish(w) ==
    /\ task[w].pc = "republish"
    /\ msgs' = msgs \cup {task[w].msg}
    /\ Finish(w)
    /\ UNCHANGED <<jobs, children>> /\ TaskFrame

-----------------------------------------------------------------------------
(* The end of a parent. *)

\* finalize_profile_failure reads the cursor it will write back ...
ReadCursor(w) ==
    /\ task[w].pc = "readCursor"
    /\ task' = [task EXCEPT ![w].pc = "conclude",
                            ![w].cursor = IF profile.deleted THEN 0 ELSE profile.cursor]
    /\ UNCHANGED <<jobs, children, msgs>> /\ TaskFrame

\* ... with finalize_profile_job, which the finalizer ends with too.  Only
\* the profile's latest parent writes the cursor.
Conclude(w) ==
    LET j == task[w].msg.job IN
    /\ task[w].pc = "conclude"
    /\ IF Held(j, task[w].claim)
       THEN /\ jobs' = [jobs EXCEPT ![j].status = task[w].end]
            /\ profile' = IF Latest(j) THEN [profile EXCEPT !.cursor = task[w].cursor]
                          ELSE profile
       ELSE UNCHANGED <<jobs, profile>>
    /\ Finish(w)
    /\ UNCHANGED <<children, msgs, api, scheduler, faults>>

\* finalize_youtube_profile, finalize_ftm_profile: only for the claim that
\* published it.
StartFinalizer(w, m) ==
    /\ m.kind = "finalize"
    /\ Deliver(w, m)
    /\ task' = IF Held(m.job, m.claim)
               THEN [task EXCEPT ![w] = [NoTask EXCEPT !.pc = "collect", !.msg = m,
                                                       !.claim = m.claim]]
               ELSE task
    /\ UNCHANGED <<jobs, faults>>

\* (Mutant of Collect: children that still run are not waited for.)
CollectImpatient(w) ==
    LET j == task[w].msg.job
        statuses == {children[j][i].status : i \in Items} IN
    /\ task[w].pc = "collect"
    /\ IF ~Held(j, task[w].claim)
       THEN Finish(w)
       ELSE task' = [task EXCEPT
                  ![w].pc = "conclude",
                  ![w].end = IF "failed" \in statuses THEN "failed" ELSE "completed",
                  ![w].cursor = NextPage(jobs[j].page)]
    /\ UNCHANGED <<jobs, children, msgs>> /\ TaskFrame

\* (Mutant of Collect: a failed child is counted like any other.)
CollectLenient(w) ==
    LET j == task[w].msg.job
        statuses == {children[j][i].status : i \in Items} IN
    /\ task[w].pc = "collect"
    /\ IF ~Held(j, task[w].claim)
       THEN Finish(w) /\ UNCHANGED msgs
       ELSE IF statuses \cap (ChildActive \cup {"absent"}) # {}
       THEN Finish(w) /\ msgs' = msgs \cup {task[w].msg}
       ELSE /\ task' = [task EXCEPT ![w].pc = "conclude", ![w].end = "completed",
                                    ![w].cursor = NextPage(jobs[j].page)]
            /\ UNCHANGED msgs
    /\ UNCHANGED <<jobs, children>> /\ TaskFrame

\* The children are read one by one, each under the parent's token.  A
\* terminal child stays so: reading them at once makes no difference.
Collect(w) ==
    LET j == task[w].msg.job
        statuses == {children[j][i].status : i \in Items} IN
    /\ task[w].pc = "collect"
    /\ IF ~Held(j, task[w].claim)
       THEN Finish(w) /\ UNCHANGED msgs
       ELSE IF statuses \cap (ChildActive \cup {"absent"}) # {}
       THEN Finish(w) /\ msgs' = msgs \cup {task[w].msg}
       ELSE /\ task' = [task EXCEPT
                  ![w].pc = "conclude",
                  ![w].end = IF "failed" \in statuses THEN "failed" ELSE "completed",
                  ![w].cursor = NextPage(jobs[j].page)]
            /\ UNCHANGED msgs
    /\ UNCHANGED <<jobs, children>> /\ TaskFrame

-----------------------------------------------------------------------------
ApiStep(j) == ApiPublish(j) \/ ApiPublishFails(j) \/ ApiTerminalize(j)

SchedulerStep == ListDue \/ ScheduleQueue \/ SchedulePublish \/ MarkScheduled

\* How a run goes on, its failure path included.
RunStep(w) ==
    \/ Reread(w) \/ Load(w) \/ Checkpoint(w) \/ StoreDiscovery(w)
    \/ EnsureChild(w) \/ ClaimChild(w) \/ LookChild(w)
    \/ DispatchChild(w) \/ DispatchChildFails(w)
    \/ ReadChildFailure(w) \/ MarkChildRetry(w)
    \/ PublishFinalizer(w) \/ PublishFinalizerFails(w)
    \/ ReadFailure(w) \/ MarkRetry(w) \/ MarkExhausted(w) \/ MarkDead(w)
    \/ Republish(w) \/ ReadCursor(w)

WorkerStep(w) == RunStep(w) \/ Collect(w) \/ Conclude(w)

Delivery(m) == \E w \in Workers : StartRun(w, m) \/ StartFinalizer(w, m)

Next ==
    \/ \E j \in Jobs : RunProfile(j)
    \/ \E j, k \in Jobs : RetryParent(j, k)
    \/ DeleteProfile
    \/ ChangeSchedule
    \/ \E j \in Jobs : ApiStep(j)
    \/ SchedulerStep
    \/ SchedulerFails
    \/ FallsDue
    \/ Redrive
    \/ \E m \in msgs : Delivery(m)
    \/ \E w \in Workers : WorkerStep(w)
    \/ \E w \in Workers : TaskDies(w) \/ Redeliver(w)
    \/ BrokerLoss
    \/ \E j \in Jobs : LeaseExpires(j) \/ RetryFallsDue(j)
    \/ \E j \in Jobs, i \in Items :
          \/ RestartChild(j, i) \/ ChildEnds(j, i) \/ ChildFails(j, i)
          \/ ChildElapses(j, i) \/ ChildIsLost(j, i)

Spec == Init /\ [][Next]_vars

\* As in ImportJobs; a child that is worked on ends, and one that is not is
\* redriven.
Fairness ==
    /\ \A j \in Jobs : WF_vars(ApiStep(j))
    /\ WF_vars(SchedulerStep)
    /\ \A j \in Jobs, kind \in {"run", "finalize"} :
          SF_vars(\E m \in msgs : m.job = j /\ m.kind = kind /\ Delivery(m))
    /\ \A w \in Workers : WF_vars(WorkerStep(w))
    /\ WF_vars(Redrive)
    /\ \A j \in Jobs : WF_vars(LeaseExpires(j) /\ UNCHANGED faults)
                       /\ WF_vars(RetryFallsDue(j))
    /\ \A j \in Jobs, i \in Items :
          /\ WF_vars(RestartChild(j, i)) /\ WF_vars(ChildEnds(j, i))
          /\ WF_vars(ChildElapses(j, i))

FairSpec == Spec /\ Fairness

-----------------------------------------------------------------------------
(* The parents, their children and the cursor, as a ProfileWalk. *)

WalkState(r) ==
    CASE r.status = "absent" -> "absent"
      [] r.status \in Active -> "open"
      [] r.status = "completed" -> "completed"
      [] OTHER -> "failed"

\* The payloads of the page of j that came to an end.
EndedItems(j) ==
    IF profile.kind = "direct"
    THEN {i \in Items : jobs[j].status = "completed"}
    ELSE {i \in Items : children[j][i].status \in ChildTerminal}

WalkParent(j) == [state |-> WalkState(jobs[j]), page |-> jobs[j].page,
                  ended |-> EndedItems(j)]

Walk == INSTANCE ProfileWalk WITH
    parents <- [j \in Jobs |-> WalkParent(j)],
    cursor <- IF profile.deleted THEN NoPage ELSE profile.cursor

-----------------------------------------------------------------------------
(* Properties. *)

\* The page has been worked off: every payload of it came to an end.
Settled(p) ==
    \E j \in Jobs :
        /\ jobs[j].page = p
        /\ IF profile.kind = "direct"
           THEN jobs[j].status = "completed"
           ELSE \A i \in Items : children[j][i].status \in ChildTerminal

\* docs/architecture.md: profile checkpoints "allow recovery without losing
\* a received page".  The cursor never gets ahead of the work: every page
\* before it was worked off, whatever crashed, was retried or ran twice
\* (finalize_profile_job, complete_provider_discovery).
NoPageIsSkipped == \A p \in Pages : p < profile.cursor => Settled(p)

\* A parent is reported complete only when every payload of its page is;
\* README.md: the counts come "only from those durable child outcomes".
CompleteMeansChildren ==
    \A j \in Jobs :
        (jobs[j].status = "completed" /\ profile.kind = "paged") =>
           /\ jobs[j].page # NoPage
           /\ \A i \in Items : children[j][i].status = "completed"

\* The received page is immutable: neither a second fetch nor the details
\* that a failing task writes back replaces or erases it, so all children
\* of a parent come from one page (checkpoint_profile_page, _record_retry).
CheckpointIsKept ==
    [][\A j \in Jobs : jobs[j].page # NoPage => jobs'[j].page = jobs[j].page]_vars

\* Claims, finalizers, redeliveries and retries are invisible: whoever reads
\* the parents, their children and the cursor sees a walk through the pages,
\* although page, children, end and cursor are written in transactions of
\* their own, on the strength of earlier reads (checkpoint_profile_page,
\* finalize_profile_job, finalize_profile_failure,
\* complete_provider_discovery).  CheckpointIsKept follows from it.
ImplementsWalk == Walk!Spec

\* A parent that ends on its failure path leaves the cursor where it is,
\* although it writes back a cursor it read in an earlier transaction and
\* other parents of the profile end in between (finalize_profile_failure).
FailureKeepsCursor ==
    [][\A w \in Workers :
          (/\ task[w].pc = "conclude" /\ task[w].msg.kind = "run"
           /\ ~profile.deleted)
          => (task'[w].pc = "conclude" \/ profile'.cursor = profile.cursor)]_vars

\* A superseded run or finalizer creates no child, ends no parent and moves
\* no cursor.
StaleRunsAreFenced ==
    [][\A w \in Workers :
          (/\ task[w].pc \notin {"idle", "reread"} /\ task'[w] # task[w]
           /\ task[w].claim # jobs[task[w].msg.job].claims)
          => /\ UNCHANGED <<jobs, profile>>
             /\ \A j \in Jobs, i \in Items :
                   children[j][i].status = "absent" => UNCHANGED children[j][i]]_vars

\* Every parent ends, although its finalizer polls without a limit and its
\* own lease expires meanwhile.
EveryParentEnds ==
    \A j \in Jobs : jobs[j].status \in Active ~> jobs[j].status \in Terminal
=============================================================================
