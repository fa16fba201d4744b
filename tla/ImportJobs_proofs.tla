------------------------- MODULE ImportJobs_proofs -------------------------
(***************************************************************************)
(* Safety of direct imports, for every number of jobs, items, workers,     *)
(* failures and faults.                                                    *)
(***************************************************************************)
EXTENDS ImportJobs, FiniteSetTheorems, TLAPS

\* Every variable has its type in the initial state.
LEMMA InitTypeOK == Init => TypeOK
  BY JobsAssumption DEF Init, TypeOK, JobRow, NoRow, NoJob, JobStatus, Active,
     Terminal, ApiPC, WorkerPC

\* A table stays a table when one of its rows is replaced by a row.
LEMMA ReplaceRow ==
  ASSUME TypeOK, NEW j \in Jobs, NEW r \in JobRow, jobs' = [jobs EXCEPT ![j] = r]
  PROVE  jobs' \in [Jobs -> JobRow]
  BY DEF TypeOK

\* A row stays a row when its status, its waiting time, its failures and its
\* outcome are overwritten.
LEMMA RowUpdates ==
  ASSUME NEW r \in JobRow
  PROVE  /\ \A e \in BOOLEAN : [r EXCEPT !.elapsed = e] \in JobRow
         /\ \A s \in JobStatus : [r EXCEPT !.status = s] \in JobRow
         /\ \A o \in {"none", "persisted", "duplicate", "discarded"} :
               [r EXCEPT !.status = "completed", !.outcome = o] \in JobRow
         /\ \A e \in BOOLEAN, n \in Nat :
               [r EXCEPT !.status = "retry", !.elapsed = e, !.failures = n] \in JobRow
         /\ ClaimedRow(r) \in JobRow
<1> USE DEF JobRow
<1>1. \A e \in BOOLEAN : [r EXCEPT !.elapsed = e] \in JobRow
  OBVIOUS
<1>2. \A s \in JobStatus : [r EXCEPT !.status = s] \in JobRow
  OBVIOUS
<1>3. \A o \in {"none", "persisted", "duplicate", "discarded"} :
         [r EXCEPT !.status = "completed", !.outcome = o] \in JobRow
  BY DEF JobStatus, Terminal
<1>4. \A e \in BOOLEAN, n \in Nat :
         [r EXCEPT !.status = "retry", !.elapsed = e, !.failures = n] \in JobRow
  BY DEF JobStatus, Active
<1>5. ClaimedRow(r) \in JobRow
  <2>1. r.claims + 1 \in Nat
    OBVIOUS
  <2>2. "processing" \in JobStatus \cup {"absent"} /\ FALSE \in BOOLEAN
    BY DEF JobStatus, Active
  <2>3. \A n \in Nat : [r EXCEPT !.status = "processing", !.claims = n,
                                !.elapsed = FALSE] \in JobRow
    BY <2>2
  <2> QED
    BY <2>1, <2>3 DEF ClaimedRow
<1> QED
  BY <1>1, <1>2, <1>3, <1>4, <1>5

\* A new row is a row.
LEMMA NewRow ==
  ASSUME NEW i \in Items \cup {NoItem}, NEW n \in Nat, NEW k \in Jobs \cup {NoJob}
  PROVE  /\ [NoRow EXCEPT !.status = "queued", !.item = i] \in JobRow
         /\ [NoRow EXCEPT !.status = "queued", !.item = i, !.failures = n,
                          !.retryOf = k] \in JobRow
  BY DEF NoRow, JobRow, JobStatus, Active

\* Every step of the HTTP handlers, the redriver, the broker and the clocks
\* keeps the variables within their types.
LEMMA EnvironmentTypeOK ==
  ASSUME TypeOK,
         \/ \E j \in Jobs, i \in Items : ImportUrl(j, i)
         \/ \E j, k \in Jobs : RetryJob(j, k)
         \/ \E j \in Jobs : ApiStep(j) \/ ApiCrash(j)
         \/ Redrive
         \/ \E j \in Jobs : RedriveFails(j)
         \/ BrokerLoss
         \/ \E j \in Jobs : LeaseExpires(j) \/ RetryFallsDue(j)
  PROVE  TypeOK'
<1> USE DEF TypeOK, local
<1>1. ASSUME NEW j \in Jobs, NEW i \in Items, ImportUrl(j, i) PROVE TypeOK'
  <2>1. jobs' \in [Jobs -> JobRow]
    BY <1>1, NewRow, ReplaceRow DEF ImportUrl, CreateJob
  <2> QED
    BY <1>1, <2>1 DEF ImportUrl, CreateJob, ApiPC
<1>2. ASSUME NEW j \in Jobs, NEW k \in Jobs, RetryJob(j, k) PROVE TypeOK'
  <2>1. jobs[j].item \in Items \cup {NoItem} /\ jobs[j].failures \in Nat
    BY DEF JobRow
  <2>2. jobs' \in [Jobs -> JobRow]
    BY <1>2, <2>1, NewRow, ReplaceRow DEF RetryJob
  <2> QED
    BY <1>2, <2>2 DEF RetryJob, ApiPC
<1>3. ASSUME NEW j \in Jobs, ApiPublish(j) PROVE TypeOK'
  BY <1>3 DEF ApiPublish, ProviderMsg, Messages, ApiPC
<1>4. ASSUME NEW j \in Jobs, ApiPublishFails(j) PROVE TypeOK'
  BY <1>4, BoundsAssumption DEF ApiPublishFails, ProviderMsg, Messages, ApiPC, Fault
<1>5. ASSUME NEW j \in Jobs, ApiTerminalize(j) PROVE TypeOK'
  BY <1>5 DEF ApiTerminalize, TransitionJob, JobRow, JobStatus, Active, Terminal, ApiPC
<1>6. ASSUME NEW j \in Jobs, ApiCrash(j) PROVE TypeOK'
  BY <1>6 DEF ApiCrash, ApiPC, Fault
<1>7. CASE Redrive
  <2>1. \A j \in Jobs : ProviderMsg(j) \in Messages
    BY DEF ProviderMsg, Messages
  <2>2. msgs' \subseteq Messages
    BY <1>7, <2>1 DEF Redrive, RedriveBatchJobs, Recoverable
  <2> QED
    BY <1>7, <2>2 DEF Redrive
<1>8. ASSUME NEW j \in Jobs, RedriveFails(j) PROVE TypeOK'
  <2>1. \A k \in Jobs : ProviderMsg(k) \in Messages
    BY DEF ProviderMsg, Messages
  <2>2. msgs' \subseteq Messages
    BY <1>8, <2>1 DEF RedriveFails, RedriveBatchJobs, Recoverable
  <2> QED
    BY <1>8, <2>2 DEF RedriveFails, Fault
<1>9. CASE BrokerLoss
  BY <1>9 DEF BrokerLoss, Fault
<1>10. ASSUME NEW j \in Jobs, LeaseExpires(j) PROVE TypeOK'
  <2>1. jobs' = [jobs EXCEPT ![j] = [jobs[j] EXCEPT !.elapsed = TRUE]]
    BY <1>10 DEF LeaseExpires
  <2>2. jobs' \in [Jobs -> JobRow]
    BY <2>1, RowUpdates, ReplaceRow
  <2>3. faults' \in Nat
    BY <1>10 DEF LeaseExpires, Fault
  <2> QED
    BY <1>10, <2>2, <2>3 DEF LeaseExpires
<1>11. ASSUME NEW j \in Jobs, RetryFallsDue(j) PROVE TypeOK'
  <2>1. jobs' = [jobs EXCEPT ![j] = [jobs[j] EXCEPT !.elapsed = TRUE]]
    BY <1>11 DEF RetryFallsDue
  <2>2. jobs' \in [Jobs -> JobRow]
    BY <2>1, RowUpdates, ReplaceRow
  <2> QED
    BY <1>11, <2>2 DEF RetryFallsDue
<1> QED
  BY <1>1, <1>2, <1>3, <1>4, <1>5, <1>6, <1>7, <1>8, <1>9, <1>10, <1>11 DEF ApiStep

\* The part of TypeOK that is about the workers.
WorkersTypeOK ==
    /\ pc \in [Workers -> WorkerPC]
    /\ msg \in [Workers -> Messages \cup {NoMsg}]
    /\ claim \in [Workers -> Nat]
    /\ seen \in [Workers -> Nat]
    /\ \A w \in Workers : pc[w] # "idle" => msg[w] \in Messages

\* A task that returns leaves the workers well typed.
LEMMA FinishType ==
  ASSUME TypeOK, NEW w \in Workers, Finish(w)
  PROVE  WorkersTypeOK'
  BY DEF TypeOK, WorkersTypeOK, Finish, Goto, WorkerPC

\* So does a task that goes on.
LEMMA ContinueType ==
  ASSUME TypeOK, NEW w \in Workers, pc[w] # "idle", NEW label \in WorkerPC,
         Continue(w, label)
  PROVE  WorkersTypeOK'
  BY DEF TypeOK, WorkersTypeOK, Continue, Goto, WorkerPC

\* The job of a delivery is a job, and its row a row.
LEMMA TaskJob ==
  ASSUME TypeOK, NEW w \in Workers, pc[w] # "idle"
  PROVE  msg[w] \in Messages /\ msg[w].job \in Jobs /\ jobs[msg[w].job] \in JobRow
  BY DEF TypeOK, Messages

\* The guarded transition of a claimed job leaves the table a table.
LEMMA TransitionClaimedType ==
  ASSUME TypeOK, NEW j \in Jobs, NEW c \in Nat, NEW target \in JobStatus,
         TransitionClaimed(j, c, target)
  PROVE  jobs' \in [Jobs -> JobRow]
<1>1. jobs[j] \in JobRow
  BY DEF TypeOK
<1>2. [jobs[j] EXCEPT !.status = target] \in JobRow
  BY <1>1, RowUpdates
<1> QED
  BY <1>2, ReplaceRow DEF TypeOK, TransitionClaimed

\* Deliveries, their losses and their redeliveries keep the types.
LEMMA DeliveryTypeOK ==
  ASSUME TypeOK, NEW w \in Workers,
         \/ \E m \in msgs : StartImport(w, m) \/ StartProcess(w, m)
         \/ TaskDies(w) \/ Redeliver(w)
  PROVE  TypeOK'
<1>1. ASSUME NEW m \in msgs, StartImport(w, m) PROVE TypeOK'
  <2>1. m \in Messages /\ m.job \in Jobs /\ jobs[m.job] \in JobRow
    BY DEF TypeOK, Messages
  <2>2. jobs' \in [Jobs -> JobRow] /\ claim' \in [Workers -> Nat]
    <3>1. CASE TakeClaim(w, m.job)
      <4>1. jobs' = [jobs EXCEPT ![m.job] = ClaimedRow(jobs[m.job])]
        BY <3>1 DEF TakeClaim
      <4>2. jobs' \in [Jobs -> JobRow]
        BY <2>1, <4>1, RowUpdates, ReplaceRow
      <4> QED
        BY <2>1, <3>1, <4>2 DEF TakeClaim, TypeOK, JobRow
    <3>2. CASE UNCHANGED <<jobs, claim>>
      BY <3>2 DEF TypeOK
    <3> QED
      BY <1>1, <3>1, <3>2 DEF StartImport
  <2>3. \E label \in WorkerPC \ {"idle"} : Goto(w, label)
    BY <1>1 DEF StartImport, FetchResults, WorkerPC
  <2> QED
    BY <1>1, <2>1, <2>2, <2>3 DEF StartImport, Deliver, Goto, TypeOK
<1>2. ASSUME NEW m \in msgs, StartProcess(w, m) PROVE TypeOK'
  <2>1. m \in Messages /\ m.claim \in Nat
    BY DEF TypeOK, Messages
  <2>2. \/ \E label \in WorkerPC \ {"idle"} :
              Goto(w, label) /\ msg' = [msg EXCEPT ![w] = m]
        \/ UNCHANGED <<msg, pc>>
    BY <1>2 DEF StartProcess, WorkerPC
  <2>3. claim' \in [Workers -> Nat]
    BY <1>2, <2>1 DEF StartProcess, TypeOK
  <2> QED
    BY <1>2, <2>1, <2>2, <2>3 DEF StartProcess, Deliver, Goto, TypeOK
<1>3. CASE TaskDies(w)
  <2>1. msgs' \subseteq Messages
    BY <1>3, TaskJob DEF TaskDies, TypeOK
  <2> QED
    BY <1>3, <2>1, FinishType DEF TaskDies, TypeOK, WorkersTypeOK, Fault
<1>4. CASE Redeliver(w)
  BY <1>4, TaskJob DEF Redeliver, TypeOK, Fault, local
<1> QED
  BY <1>1, <1>2, <1>3, <1>4

\* Every step of a task keeps the types.
LEMMA WorkerTypeOK ==
  ASSUME TypeOK, NEW w \in Workers, WorkerStep(w)
  PROVE  TypeOK'
<1> DEFINE j == msg[w].job
<1>1. /\ msg[w] \in Messages /\ j \in Jobs /\ jobs[j] \in JobRow
      /\ pc[w] # "idle" /\ claim[w] \in Nat /\ seen[w] \in Nat
  <2>1. pc[w] # "idle"
    BY DEF WorkerStep, ImportStep, ProcessStep, Reread, Terminate, Dispatch, DispatchFails, ReadFailure,
       MarkRetry, MarkExhausted, MarkDead, Republish, ClaimRetry, Lookup,
       CompleteDuplicate, CompleteDiscarded, PersistProcessedSet, InsertSet, ProcessRaises
  <2> QED
    BY <2>1, TaskJob DEF TypeOK
<1>2. \A label \in WorkerPC : Continue(w, label) => WorkersTypeOK'
  BY <1>1, ContinueType
<1>3. Finish(w) => WorkersTypeOK'
  BY FinishType
<1>4. ASSUME WorkersTypeOK', jobs' \in [Jobs -> JobRow], rows' \in [Items -> Nat],
             msgs' \subseteq Messages, UNCHANGED api, faults' \in Nat
      PROVE  TypeOK'
  BY <1>4 DEF TypeOK, WorkersTypeOK
<1>5. ProcessMsg(j, claim[w]) \in Messages
  BY <1>1 DEF ProcessMsg, Messages
<1>6. CASE Reread(w)
  <2>1. msgs' \subseteq Messages
    BY <1>6, <1>1 DEF Reread, TypeOK
  <2> QED
    BY <1>6, <2>1, <1>3, <1>4 DEF Reread, TypeOK
<1>7. CASE Terminate(w)
  <2>1. jobs' \in [Jobs -> JobRow]
    BY <1>7, <1>1, TransitionClaimedType DEF Terminate, JobStatus, Terminal
  <2> QED
    BY <1>7, <2>1, <1>3, <1>4 DEF Terminate, TypeOK
<1>8. CASE Dispatch(w)
  BY <1>8, <1>3, <1>4, <1>5 DEF Dispatch, TypeOK
<1>9. CASE DispatchFails(w)
  <2>1. msgs' \subseteq Messages
    BY <1>9, <1>5 DEF DispatchFails, TypeOK
  <2> QED
    BY <1>9, <2>1, <1>2, <1>4 DEF DispatchFails, TypeOK, Fault, WorkerPC
<1>10. CASE ReadFailure(w)
  <2>1. CASE Finish(w)
    BY <1>10, <2>1, <1>3, <1>4 DEF ReadFailure, TypeOK
  <2>2. CASE ~Finish(w)
    <3>1. /\ seen' = [seen EXCEPT ![w] = jobs[j].failures]
          /\ \E label \in WorkerPC : Goto(w, label)
          /\ UNCHANGED <<msg, claim>>
      BY <1>10, <2>2 DEF ReadFailure, WorkerPC
    <3>2. WorkersTypeOK'
      BY <3>1, <1>1 DEF WorkersTypeOK, TypeOK, Goto, JobRow
    <3> QED
      BY <1>10, <3>2, <1>4 DEF ReadFailure, TypeOK
  <2> QED
    BY <2>1, <2>2
<1>11. ASSUME NEW e \in BOOLEAN, NEW label \in WorkerPC, RecordFailure(w, e, label)
       PROVE  TypeOK'
  <2>1. CASE MayTransition(j, claim[w], "retry")
    <3>1. jobs' = [jobs EXCEPT ![j] = [jobs[j] EXCEPT !.status = "retry",
                              !.elapsed = e, !.failures = seen[w] + 1]]
      BY <1>11, <2>1 DEF RecordFailure
    <3>2. seen[w] + 1 \in Nat
      BY <1>1
    <3>3. [jobs[j] EXCEPT !.status = "retry", !.elapsed = e,
                          !.failures = seen[w] + 1] \in JobRow
      BY <3>2, <1>1, RowUpdates
    <3>4. jobs' \in [Jobs -> JobRow]
      BY <3>1, <3>3, <1>1, ReplaceRow
    <3> QED
      BY <1>11, <2>1, <3>4, <1>2, <1>4 DEF RecordFailure, TypeOK
  <2>2. CASE ~MayTransition(j, claim[w], "retry")
    BY <1>11, <2>2, <1>3, <1>4 DEF RecordFailure, TypeOK
  <2> QED
    BY <2>1, <2>2
<1>12. CASE MarkRetry(w)
  BY <1>12, <1>11 DEF MarkRetry, WorkerPC
<1>13. CASE MarkExhausted(w)
  BY <1>13, <1>11 DEF MarkExhausted, WorkerPC
<1>14. CASE MarkDead(w)
  <2>1. jobs' \in [Jobs -> JobRow]
    BY <1>14, <1>1, TransitionClaimedType DEF MarkDead, JobStatus, Terminal
  <2> QED
    BY <1>14, <2>1, <1>3, <1>4 DEF MarkDead, TypeOK
<1>15. CASE Republish(w)
  BY <1>15, <1>1, <1>3, <1>4 DEF Republish, TypeOK
<1>16. CASE ClaimRetry(w)
  <2>1. CASE TakeClaim(w, j)
    <3>1. jobs' = [jobs EXCEPT ![j] = ClaimedRow(jobs[j])]
      BY <2>1 DEF TakeClaim
    <3>2. jobs' \in [Jobs -> JobRow]
      BY <3>1, <1>1, RowUpdates, ReplaceRow
    <3>3. WorkersTypeOK'
      <4>1. claim' = [claim EXCEPT ![w] = jobs[j].claims + 1]
            /\ jobs[j].claims + 1 \in Nat
        BY <2>1, <1>1 DEF TakeClaim, JobRow
      <4>2. UNCHANGED <<msg, seen>> /\ \E label \in WorkerPC : Goto(w, label)
        BY <1>16, <2>1 DEF ClaimRetry, TakeClaim, WorkerPC
      <4> QED
        BY <4>1, <4>2, <1>1 DEF WorkersTypeOK, TypeOK, Goto
    <3> QED
      BY <1>16, <3>2, <3>3, <1>4 DEF ClaimRetry, TypeOK
  <2>2. CASE ~TakeClaim(w, j)
    BY <1>16, <2>2, <1>3, <1>4 DEF ClaimRetry, TypeOK
  <2> QED
    BY <2>1, <2>2
<1>17. CASE Lookup(w)
  <2>1. WorkersTypeOK'
    BY <1>17, <1>2, <1>3 DEF Lookup, WorkerPC
  <2> QED
    BY <1>17, <2>1, <1>4 DEF Lookup, TypeOK
<1>18. ASSUME NEW o \in {"persisted", "duplicate", "discarded"}, Complete(w, o),
              rows' \in [Items -> Nat]
       PROVE  TypeOK'
  <2>1. jobs' \in [Jobs -> JobRow]
    <3>1. CASE Held(j, claim[w])
      <4>1. jobs' = [jobs EXCEPT ![j] = [jobs[j] EXCEPT !.status = "completed",
                                                        !.outcome = o]]
        BY <1>18, <3>1 DEF Complete
      <4> QED
        BY <4>1, <1>1, RowUpdates, ReplaceRow
    <3>2. CASE ~Held(j, claim[w])
      BY <1>18, <3>2 DEF Complete, TypeOK
    <3> QED
      BY <3>1, <3>2
  <2> QED
    BY <1>18, <2>1, <1>2, <1>3, <1>4 DEF Complete, TypeOK, WorkerPC
<1>19. CASE CompleteDuplicate(w)
  BY <1>19, <1>18 DEF CompleteDuplicate, TypeOK
<1>20. CASE CompleteDiscarded(w)
  BY <1>20, <1>18 DEF CompleteDiscarded, TypeOK
<1>21. CASE PersistProcessedSet(w)
  <2>1. rows' \in [Items -> Nat]
    BY <1>21 DEF PersistProcessedSet, InsertSet, TypeOK
  <2> QED
    BY <1>21, <2>1, <1>18 DEF PersistProcessedSet, InsertSet
<1>22. CASE ProcessRaises(w)
  BY <1>22, <1>2, <1>4 DEF ProcessRaises, TypeOK, WorkerPC
<1> QED
  BY <1>6, <1>7, <1>8, <1>9, <1>10, <1>12, <1>13, <1>14, <1>15, <1>16, <1>17,
     <1>19, <1>20, <1>21, <1>22 DEF WorkerStep, ImportStep, ProcessStep

\* TypeOK is inductive.
LEMMA NextTypeOK == TypeOK /\ [Next]_vars => TypeOK'
<1> SUFFICES ASSUME TypeOK, [Next]_vars PROVE TypeOK'
  OBVIOUS
<1>1. CASE Next
  BY <1>1, EnvironmentTypeOK, DeliveryTypeOK, WorkerTypeOK DEF Next, Delivery
<1>2. CASE UNCHANGED vars
  BY <1>2 DEF vars, TypeOK
<1> QED
  BY <1>1, <1>2

\* In every reachable state the job table holds rows of import_jobs, the
\* queues hold messages, and a busy worker has the delivery it works on.
THEOREM TypeCorrect == Spec => []TypeOK
  BY InitTypeOK, NextTypeOK, PTL DEF Spec

-----------------------------------------------------------------------------
(* The inductive invariant.  Behind the properties stand references that   *)
(* never dangle and numbers that only grow: whatever a message, a task or  *)
(* a handler refers to exists, no token is from the future, and what a     *)
(* task has read is current for as long as its claim holds.                *)

Present(j) == jobs[j].status # "absent"

RowsHaveItems == \A j \in Jobs : Present(j) => jobs[j].item \in Items

HandlersHaveJobs == \A j \in Jobs : api[j] # "none" => Present(j)

MessagesHaveJobs ==
    \A m \in msgs : Present(m.job) /\ m.claim <= jobs[m.job].claims

TasksHaveJobs ==
    \A w \in Workers :
        IF pc[w] = "idle"
        THEN claim[w] = 0
        ELSE /\ Present(msg[w].job)
             /\ msg[w].claim <= jobs[msg[w].job].claims
             /\ claim[w] <= jobs[msg[w].job].claims

DuplicateExists ==
    \A w \in Workers : pc[w] = "duplicate" => rows[jobs[msg[w].job].item] > 0

SeenIsCurrent ==
    \A w \in Workers :
        (pc[w] \in {"markRetry", "markExhausted"} /\ Held(msg[w].job, claim[w]))
            => seen[w] = jobs[msg[w].job].failures

References ==
    /\ RowsHaveItems
    /\ HandlersHaveJobs
    /\ MessagesHaveJobs
    /\ TasksHaveJobs

IInv ==
    /\ TypeOK
    /\ References
    /\ DuplicateExists
    /\ SeenIsCurrent
    /\ OutcomeIsTrue
    /\ OneSetPerItem

-----------------------------------------------------------------------------
(* What a step may do to import_jobs and sets: change nothing, change one  *)
(* row of import_jobs, or complete a job together with the set it found.   *)

Closings == {"failed", "blocked", "dead_letter"}

Created(j, r) ==
    /\ jobs[j].status = "absent"
    /\ r.status = "queued" /\ r.item \in Items /\ r.outcome = "none"

Rescheduled(j, r) ==
    /\ jobs[j].status \in Active
    /\ \/ r = ClaimedRow(jobs[j])
       \/ r = [jobs[j] EXCEPT !.elapsed = TRUE]

Closed(j, r) ==
    /\ jobs[j].status \in Active
    /\ \E s \in Closings : r = [jobs[j] EXCEPT !.status = s]

FailureCounted(j, r) ==
    /\ jobs[j].status = "processing"
    /\ \E e \in BOOLEAN :
          r = [jobs[j] EXCEPT !.status = "retry", !.elapsed = e,
                              !.failures = jobs[j].failures + 1]

CompletedWithoutSet(j, r) ==
    /\ jobs[j].status = "processing"
    /\ \/ r = [jobs[j] EXCEPT !.status = "completed", !.outcome = "discarded"]
       \/ /\ r = [jobs[j] EXCEPT !.status = "completed", !.outcome = "duplicate"]
          /\ rows[jobs[j].item] > 0

RowChange(j, r) ==
    \/ Created(j, r) \/ Rescheduled(j, r) \/ Closed(j, r)
    \/ FailureCounted(j, r) \/ CompletedWithoutSet(j, r)

OneRowChanges ==
    /\ \E j \in Jobs, r \in JobRow :
          RowChange(j, r) /\ jobs' = [jobs EXCEPT ![j] = r]
    /\ UNCHANGED rows

SetPersisted ==
    \E j \in Jobs :
        /\ jobs[j].status = "processing" /\ rows[jobs[j].item] = 0
        /\ jobs' = [jobs EXCEPT ![j] = [@ EXCEPT !.status = "completed",
                                                 !.outcome = "persisted"]]
        /\ rows' = [rows EXCEPT ![jobs[j].item] = 1]

JobStep == UNCHANGED <<jobs, rows>> \/ OneRowChanges \/ SetPersisted

\* A granted claim reschedules the job.
LEMMA TakeClaimIsJobStep ==
  ASSUME IInv, NEW w \in Workers, NEW j \in Jobs, TakeClaim(w, j), UNCHANGED rows
  PROVE  JobStep
<1>1. jobs[j] \in JobRow
  BY DEF IInv, TypeOK
<1>2. ClaimedRow(jobs[j]) \in JobRow /\ RowChange(j, ClaimedRow(jobs[j]))
  BY <1>1, RowUpdates DEF TakeClaim, Claimable, RowChange, Rescheduled, Active
<1>3. jobs' = [jobs EXCEPT ![j] = ClaimedRow(jobs[j])]
  BY DEF TakeClaim
<1> QED
  BY <1>2, <1>3 DEF JobStep, OneRowChanges

\* A guarded closing transition closes the job or leaves it alone.
LEMMA TransitionIsJobStep ==
  ASSUME IInv, NEW j \in Jobs, NEW c \in Nat, NEW target \in Closings,
         TransitionClaimed(j, c, target), UNCHANGED rows
  PROVE  JobStep
<1>1. jobs[j] \in JobRow
  BY DEF IInv, TypeOK
<1>2. CASE MayTransition(j, c, target)
  <2> DEFINE r == [jobs[j] EXCEPT !.status = target]
  <2>1. r \in JobRow
    BY <1>1, RowUpdates DEF Closings, JobStatus, Terminal
  <2>2. RowChange(j, r)
    BY <1>2 DEF MayTransition, Owned, RowChange, Closed, Active
  <2>3. jobs' = [jobs EXCEPT ![j] = r]
    BY <1>2 DEF TransitionClaimed
  <2> QED
    BY <2>1, <2>2, <2>3 DEF JobStep, OneRowChanges
<1>3. CASE ~MayTransition(j, c, target)
  BY <1>3 DEF TransitionClaimed, JobStep
<1> QED
  BY <1>2, <1>3

\* A failure recorded under a live claim is counted once: what the task read
\* is still the count of the row.
LEMMA RecordFailureIsJobStep ==
  ASSUME IInv, NEW w \in Workers, NEW e \in BOOLEAN, NEW label \in WorkerPC,
         pc[w] \in {"markRetry", "markExhausted"}, RecordFailure(w, e, label)
  PROVE  JobStep
<1> DEFINE j == msg[w].job
<1>1. j \in Jobs /\ jobs[j] \in JobRow
  BY TaskJob DEF IInv
<1>2. CASE MayTransition(j, claim[w], "retry")
  <2>1. Held(j, claim[w])
    BY <1>1, <1>2 DEF MayTransition, Owned, Held, AllowedTransitions, JobStatus,
       Active, Terminal
  <2>2. seen[w] = jobs[j].failures
    BY <2>1 DEF IInv, SeenIsCurrent
  <2> DEFINE r == [jobs[j] EXCEPT !.status = "retry", !.elapsed = e,
                                  !.failures = jobs[j].failures + 1]
  <2>3. r \in JobRow
    <3>1. jobs[j].failures + 1 \in Nat
      BY <1>1 DEF JobRow
    <3> QED
      BY <3>1, <1>1, RowUpdates
  <2>4. RowChange(j, r)
    BY <2>1 DEF Held, RowChange, FailureCounted
  <2>5. jobs' = [jobs EXCEPT ![j] = r]
    BY <1>2, <2>2 DEF RecordFailure
  <2> QED
    BY <1>1, <2>3, <2>4, <2>5 DEF JobStep, OneRowChanges, RecordFailure
<1>3. CASE ~MayTransition(j, claim[w], "retry")
  BY <1>3 DEF RecordFailure, JobStep
<1> QED
  BY <1>2, <1>3

\* A completing transaction completes the job, or leaves it alone when the
\* claim was lost.
LEMMA CompletionIsJobStep ==
  ASSUME IInv, NEW w \in Workers, pc[w] # "idle", NEW o \in {"duplicate", "discarded"},
         Complete(w, o), UNCHANGED rows,
         o = "duplicate" => rows[jobs[msg[w].job].item] > 0
  PROVE  JobStep
<1> DEFINE j == msg[w].job
<1>1. j \in Jobs /\ jobs[j] \in JobRow
  BY TaskJob DEF IInv
<1>2. CASE Held(j, claim[w])
  <2> DEFINE r == [jobs[j] EXCEPT !.status = "completed", !.outcome = o]
  <2>1. r \in JobRow
    BY <1>1, RowUpdates
  <2>2. RowChange(j, r)
    BY <1>2 DEF Held, RowChange, CompletedWithoutSet
  <2>3. jobs' = [jobs EXCEPT ![j] = r]
    BY <1>2 DEF Complete
  <2> QED
    BY <1>1, <2>1, <2>2, <2>3 DEF JobStep, OneRowChanges
<1>3. CASE ~Held(j, claim[w])
  BY <1>3 DEF Complete, JobStep
<1> QED
  BY <1>2, <1>3

\* persist_processed_set persists the set, or finds its duplicate.
LEMMA PersistIsJobStep ==
  ASSUME IInv, NEW w \in Workers, PersistProcessedSet(w)
  PROVE  JobStep
<1> DEFINE j == msg[w].job
           i == jobs[j].item
<1>1. pc[w] # "idle" /\ pc[w] = "persist"
  BY DEF PersistProcessedSet, InsertSet
<1>2. j \in Jobs /\ jobs[j] \in JobRow
  BY <1>1, TaskJob DEF IInv
<1>3. CASE Held(j, claim[w]) /\ rows[i] = 0
  <2>1. jobs' = [jobs EXCEPT ![j] = [jobs[j] EXCEPT !.status = "completed",
                                                    !.outcome = "persisted"]]
    BY <1>3 DEF PersistProcessedSet, InsertSet, Complete
  <2>2. i \in Items
    BY <1>1, <1>2, <1>3 DEF IInv, References, RowsHaveItems, TasksHaveJobs
  <2>3. rows' = [rows EXCEPT ![i] = 1]
    BY <1>3, <2>2 DEF PersistProcessedSet, InsertSet, IInv, TypeOK
  <2> QED
    BY <1>2, <1>3, <2>1, <2>3 DEF JobStep, SetPersisted, Held
<1>4. CASE Held(j, claim[w]) /\ rows[i] # 0
  <2>1. i \in Items /\ rows[i] \in Nat
    BY <1>1, <1>2 DEF IInv, References, RowsHaveItems, TasksHaveJobs, TypeOK
  <2>2. rows[i] > 0
    BY <1>4, <2>1
  <2> QED
    BY <1>1, <1>4, <2>2, CompletionIsJobStep DEF PersistProcessedSet, InsertSet
<1>5. CASE ~Held(j, claim[w])
  BY <1>5 DEF PersistProcessedSet, InsertSet, Complete, JobStep
<1> QED
  BY <1>3, <1>4, <1>5

\* Every step of the system is a job step.
LEMMA NextIsJobStep ==
  ASSUME IInv, [Next]_vars
  PROVE  JobStep
<1> USE DEF local
<1>1. ASSUME NEW j \in Jobs, NEW i \in Items, ImportUrl(j, i) PROVE JobStep
  <2> DEFINE r == [NoRow EXCEPT !.status = "queued", !.item = i]
  <2>1. r \in JobRow
    BY NewRow
  <2>2. RowChange(j, r)
    BY <1>1 DEF ImportUrl, CreateJob, RowChange, Created, NoRow
  <2> QED
    BY <1>1, <2>1, <2>2 DEF ImportUrl, CreateJob, JobStep, OneRowChanges
<1>2. ASSUME NEW j \in Jobs, NEW k \in Jobs, RetryJob(j, k) PROVE JobStep
  <2> DEFINE r == [NoRow EXCEPT !.status = "queued", !.item = jobs[j].item,
                                !.failures = jobs[j].failures, !.retryOf = j]
  <2>1. jobs[j].item \in Items /\ jobs[j].failures \in Nat
    BY <1>2 DEF RetryJob, IInv, TypeOK, JobRow, References, RowsHaveItems, Present
  <2>2. r \in JobRow
    BY <2>1, NewRow
  <2>3. RowChange(k, r)
    BY <1>2, <2>1 DEF RetryJob, RowChange, Created, NoRow
  <2> QED
    BY <1>2, <2>2, <2>3 DEF RetryJob, JobStep, OneRowChanges
<1>3. ASSUME NEW j \in Jobs, ApiTerminalize(j) PROVE JobStep
  <2>1. jobs[j] \in JobRow /\ jobs[j].status \in JobStatus
    BY <1>3 DEF ApiTerminalize, TransitionJob, IInv, TypeOK, JobRow, References, HandlersHaveJobs,
       Present
  <2>2. CASE "failed" \in AllowedTransitions[jobs[j].status]
    <3> DEFINE r == [jobs[j] EXCEPT !.status = "failed"]
    <3>1. r \in JobRow
      BY <2>1, RowUpdates DEF JobStatus, Terminal
    <3>2. RowChange(j, r)
      BY <2>1, <2>2 DEF AllowedTransitions, RowChange, Closed, Closings, Active,
         Terminal, JobStatus
    <3>3. jobs' = [jobs EXCEPT ![j] = r]
      BY <1>3, <2>2 DEF ApiTerminalize, TransitionJob
    <3> QED
      BY <1>3, <3>1, <3>2, <3>3 DEF ApiTerminalize, TransitionJob, JobStep, OneRowChanges
  <2>3. CASE "failed" \notin AllowedTransitions[jobs[j].status]
    BY <1>3, <2>3 DEF ApiTerminalize, TransitionJob, JobStep
  <2> QED
    BY <2>2, <2>3
<1>4. ASSUME NEW j \in Jobs, LeaseExpires(j) \/ RetryFallsDue(j) PROVE JobStep
  <2> DEFINE r == [jobs[j] EXCEPT !.elapsed = TRUE]
  <2>1. r \in JobRow
    BY RowUpdates DEF IInv, TypeOK
  <2>2. RowChange(j, r)
    BY <1>4 DEF LeaseExpires, RetryFallsDue, RowChange, Rescheduled, Active
  <2> QED
    BY <1>4, <2>1, <2>2 DEF LeaseExpires, RetryFallsDue, JobStep, OneRowChanges
<1>5. ASSUME NEW m \in msgs, NEW w \in Workers, StartImport(w, m) PROVE JobStep
  <2>1. m.job \in Jobs
    BY DEF IInv, TypeOK, Messages
  <2> QED
    BY <1>5, <2>1, TakeClaimIsJobStep DEF StartImport, Deliver, JobStep
<1>6. ASSUME NEW w \in Workers, ClaimRetry(w) PROVE JobStep
  <2>1. msg[w].job \in Jobs
    BY <1>6, TaskJob DEF ClaimRetry, IInv
  <2> QED
    BY <1>6, <2>1, TakeClaimIsJobStep DEF ClaimRetry, JobStep
<1>7. ASSUME NEW w \in Workers, Terminate(w) \/ MarkDead(w) PROVE JobStep
  <2>1. msg[w].job \in Jobs /\ claim[w] \in Nat
    BY <1>7, TaskJob DEF Terminate, MarkDead, IInv, TypeOK
  <2> QED
    BY <1>7, <2>1, TransitionIsJobStep DEF Terminate, MarkDead, Closings
<1>8. ASSUME NEW w \in Workers, MarkRetry(w) \/ MarkExhausted(w) PROVE JobStep
  BY <1>8, RecordFailureIsJobStep DEF MarkRetry, MarkExhausted, WorkerPC
<1>9. ASSUME NEW w \in Workers, CompleteDuplicate(w) PROVE JobStep
  BY <1>9, CompletionIsJobStep DEF CompleteDuplicate, IInv, DuplicateExists
<1>10. ASSUME NEW w \in Workers, CompleteDiscarded(w) PROVE JobStep
  BY <1>10, CompletionIsJobStep DEF CompleteDiscarded
<1>11. ASSUME NEW w \in Workers, PersistProcessedSet(w) PROVE JobStep
  BY <1>11, PersistIsJobStep
<1>12. ASSUME UNCHANGED <<jobs, rows>> PROVE JobStep
  BY <1>12 DEF JobStep
<1>13. CASE \E j \in Jobs : ApiStep(j) \/ ApiCrash(j)
  BY <1>13, <1>3, <1>12 DEF ApiStep, ApiPublish, ApiPublishFails, ApiCrash
<1>14. CASE Redrive \/ (\E j \in Jobs : RedriveFails(j)) \/ BrokerLoss
  BY <1>14, <1>12 DEF Redrive, RedriveFails, BrokerLoss
<1>15. CASE \E m \in msgs : Delivery(m)
  BY <1>15, <1>5, <1>12 DEF Delivery, StartProcess, Deliver
<1>16. CASE \E w \in Workers : WorkerStep(w)
  BY <1>16, <1>6, <1>7, <1>8, <1>9, <1>10, <1>11, <1>12 DEF WorkerStep, ImportStep, ProcessStep, Reread,
     Dispatch, DispatchFails, ReadFailure, Republish, Lookup, ProcessRaises
<1>17. CASE \E w \in Workers : TaskDies(w) \/ Redeliver(w)
  BY <1>17, <1>12 DEF TaskDies, Redeliver
<1>18. CASE UNCHANGED vars
  BY <1>18, <1>12 DEF vars
<1> QED
  BY <1>1, <1>2, <1>4, <1>13, <1>14, <1>15, <1>16, <1>17, <1>18 DEF Next

-----------------------------------------------------------------------------
(* What follows from the shape of a job step. *)

\* Rows are never deleted, keep their item, and count their claims upwards;
\* sets are never deleted.
Growth ==
    /\ \A j \in Jobs : Present(j) =>
          /\ Present(j)'
          /\ jobs'[j].item = jobs[j].item
          /\ jobs[j].claims <= jobs'[j].claims
    /\ \A i \in Items : rows[i] <= rows'[i]

\* Every kind of step of the tables lets them only grow: sets are added and
\* rows keep their item (no statement of the repository deletes either).
LEMMA JobStepGrowth ==
  ASSUME IInv, JobStep
  PROVE  Growth
<1> USE DEF Present
<1>1. CASE UNCHANGED <<jobs, rows>>
  BY <1>1 DEF Growth, IInv, TypeOK, JobRow
<1>2. CASE OneRowChanges
  <2>1. PICK j \in Jobs, r \in JobRow :
           RowChange(j, r) /\ jobs' = [jobs EXCEPT ![j] = r]
    BY <1>2 DEF OneRowChanges
  <2>2. Present(j) => /\ r.status # "absent" /\ r.item = jobs[j].item
                      /\ jobs[j].claims <= r.claims
    <3>1. jobs[j] \in JobRow /\ jobs[j].claims <= jobs[j].claims + 1
          /\ jobs[j].claims <= jobs[j].claims
      BY DEF IInv, TypeOK, JobRow
    <3>2. CASE Created(j, r)
      BY <3>2 DEF Created
    <3>3. CASE Rescheduled(j, r)
      BY <3>1, <3>3 DEF Rescheduled, ClaimedRow, JobRow, Active
    <3>4. CASE Closed(j, r)
      BY <3>1, <3>4 DEF Closed, Closings, JobRow
    <3>5. CASE FailureCounted(j, r)
      BY <3>1, <3>5 DEF FailureCounted, JobRow
    <3>6. CASE CompletedWithoutSet(j, r)
      BY <3>1, <3>6 DEF CompletedWithoutSet, JobRow
    <3> QED
      BY <2>1, <3>2, <3>3, <3>4, <3>5, <3>6 DEF RowChange
  <2>3. \A k \in Jobs : jobs'[k] = IF k = j THEN r ELSE jobs[k]
    BY <2>1 DEF IInv, TypeOK
  <2> QED
    BY <1>2, <2>2, <2>3 DEF Growth, OneRowChanges, IInv, TypeOK, JobRow
<1>3. CASE SetPersisted
  <2>1. PICK j \in Jobs :
           /\ jobs[j].status = "processing" /\ rows[jobs[j].item] = 0
           /\ jobs' = [jobs EXCEPT ![j] = [@ EXCEPT !.status = "completed",
                                                    !.outcome = "persisted"]]
           /\ rows' = [rows EXCEPT ![jobs[j].item] = 1]
    BY <1>3 DEF SetPersisted
  <2>2. \A k \in Jobs : jobs'[k] = IF k = j THEN [jobs[j] EXCEPT !.status = "completed",
                                                       !.outcome = "persisted"]
                                   ELSE jobs[k]
    BY <2>1 DEF IInv, TypeOK
  <2> QED
    BY <2>1, <2>2 DEF Growth, IInv, TypeOK, JobRow
<1> QED
  BY <1>1, <1>2, <1>3 DEF JobStep

\* The outcome of a job goes on to say what became of its item.
LEMMA JobStepOutcome ==
  ASSUME IInv, JobStep
  PROVE  OutcomeIsTrue' /\ RowsHaveItems'
<1> USE DEF Present
<1>1. CASE UNCHANGED <<jobs, rows>>
  BY <1>1 DEF IInv, References, RowsHaveItems, OutcomeIsTrue
<1>2. CASE OneRowChanges
  <2>1. PICK j \in Jobs, r \in JobRow :
           RowChange(j, r) /\ jobs' = [jobs EXCEPT ![j] = r]
    BY <1>2 DEF OneRowChanges
  <2>2. /\ r.outcome # "none" <=> r.status = "completed"
        /\ r.outcome \in {"persisted", "duplicate"} => rows[r.item] > 0
        /\ r.item \in Items
    BY <2>1 DEF RowChange, Created, Rescheduled, ClaimedRow, Closed, Closings,
       FailureCounted, CompletedWithoutSet, Active, IInv, TypeOK, JobRow,
       OutcomeIsTrue, References, RowsHaveItems
  <2>3. \A k \in Jobs : jobs'[k] = IF k = j THEN r ELSE jobs[k]
    BY <2>1 DEF IInv, TypeOK
  <2> QED
    BY <1>2, <2>2, <2>3 DEF OneRowChanges, IInv, References, RowsHaveItems, OutcomeIsTrue
<1>3. CASE SetPersisted
  <2>1. PICK j \in Jobs :
           /\ jobs[j].status = "processing" /\ rows[jobs[j].item] = 0
           /\ jobs' = [jobs EXCEPT ![j] = [@ EXCEPT !.status = "completed",
                                                    !.outcome = "persisted"]]
           /\ rows' = [rows EXCEPT ![jobs[j].item] = 1]
    BY <1>3 DEF SetPersisted
  <2>2. /\ jobs'[j].status = "completed" /\ jobs'[j].outcome = "persisted"
        /\ jobs'[j].item = jobs[j].item
        /\ \A k \in Jobs \ {j} : jobs'[k] = jobs[k]
    BY <2>1 DEF IInv, TypeOK, JobRow
  <2>3. jobs[j].item \in Items
    BY <2>1 DEF IInv, References, RowsHaveItems
  <2>4. rows'[jobs[j].item] = 1 /\ \A i \in Items : rows[i] > 0 => rows'[i] > 0
    BY <2>1, <2>3 DEF IInv, TypeOK
  <2>5. \A k \in Jobs \ {j} : jobs[k].outcome \in {"persisted", "duplicate"}
           => jobs[k].item \in Items
    BY DEF IInv, References, RowsHaveItems, OutcomeIsTrue
  <2> QED
    BY <2>2, <2>3, <2>4, <2>5 DEF IInv, References, RowsHaveItems, OutcomeIsTrue
<1> QED
  BY <1>1, <1>2, <1>3 DEF JobStep

\* There is still one set at most for an item, and one job that persisted it.
LEMMA JobStepOneSet ==
  ASSUME IInv, JobStep
  PROVE  OneSetPerItem'
<1>1. CASE UNCHANGED <<jobs, rows>>
  BY <1>1 DEF IInv, OneSetPerItem, PersistedBy
<1>2. CASE OneRowChanges
  <2>1. PICK j \in Jobs, r \in JobRow :
           RowChange(j, r) /\ jobs' = [jobs EXCEPT ![j] = r]
    BY <1>2 DEF OneRowChanges
  <2>2. \/ r.item = jobs[j].item /\ r.outcome = jobs[j].outcome
        \/ jobs[j].outcome # "persisted" /\ r.outcome # "persisted"
    BY <2>1 DEF RowChange, Created, Rescheduled, ClaimedRow, Closed, Closings,
       FailureCounted, CompletedWithoutSet, Active, IInv, TypeOK, JobRow,
       OutcomeIsTrue
  <2>3. \A k \in Jobs : jobs'[k] = IF k = j THEN r ELSE jobs[k]
    BY <2>1 DEF IInv, TypeOK
  <2>4. \A i \in Items : PersistedBy(i)' = PersistedBy(i)
    BY <2>2, <2>3 DEF PersistedBy
  <2> QED
    BY <1>2, <2>4 DEF OneRowChanges, IInv, OneSetPerItem
<1>3. CASE SetPersisted
  <2>1. PICK j \in Jobs :
           /\ jobs[j].status = "processing" /\ rows[jobs[j].item] = 0
           /\ jobs' = [jobs EXCEPT ![j] = [@ EXCEPT !.status = "completed",
                                                    !.outcome = "persisted"]]
           /\ rows' = [rows EXCEPT ![jobs[j].item] = 1]
    BY <1>3 DEF SetPersisted
  <2>0. PICK i \in Items : i = jobs[j].item
    BY <2>1 DEF IInv, References, RowsHaveItems, Present
  <2>2. /\ jobs'[j].outcome = "persisted" /\ jobs'[j].item = i
        /\ \A k \in Jobs \ {j} : jobs'[k] = jobs[k]
    BY <2>0, <2>1 DEF IInv, TypeOK, JobRow
  <2>3. jobs[j].outcome = "none"
    BY <2>1 DEF IInv, OutcomeIsTrue
  <2>4. rows'[i] = 1 /\ \A n \in Items \ {i} : rows'[n] = rows[n]
    BY <2>0, <2>1, <2>3 DEF IInv, TypeOK
  <2>5. PersistedBy(i) = {}
    <3>1. IsFiniteSet(PersistedBy(i))
      BY JobsAssumption, FS_Subset DEF PersistedBy
    <3>2. Cardinality(PersistedBy(i)) = 0
      BY <2>0, <2>1, <2>3 DEF IInv, OneSetPerItem
    <3> QED
      BY <3>1, <3>2, FS_EmptySet
  <2>6. PersistedBy(i)' = {j}
    BY <2>2, <2>5 DEF PersistedBy
  <2>7. \A n \in Items \ {i} : PersistedBy(n)' = PersistedBy(n)
    BY <2>2, <2>3 DEF PersistedBy
  <2>8. Cardinality({j}) = 1
    BY FS_Singleton
  <2> SUFFICES ASSUME NEW n \in Items
               PROVE  rows'[n] <= 1 /\ Cardinality(PersistedBy(n)') = rows'[n]
    BY DEF OneSetPerItem
  <2>9. CASE n = i
    BY <2>4, <2>6, <2>8, <2>9
  <2>10. CASE n # i
    BY <2>4, <2>7, <2>10 DEF IInv, OneSetPerItem
  <2> QED
    BY <2>9, <2>10
<1> QED
  BY <1>1, <1>2, <1>3 DEF JobStep

\* A claim that holds after a step and is not from the future held before it,
\* and the failures of its row are the same: every new claim has a new token.
LEMMA HeldBefore ==
  ASSUME IInv, JobStep, NEW j \in Jobs, NEW c \in Nat, c <= jobs[j].claims,
         Held(j, c)'
  PROVE  Held(j, c) /\ jobs'[j].failures = jobs[j].failures
<1>1. jobs'[j].status = "processing" /\ jobs'[j].claims = c
  BY DEF Held
<1>2. CASE UNCHANGED <<jobs, rows>>
  BY <1>1, <1>2 DEF Held
<1>3. CASE OneRowChanges
  <2>1. PICK k \in Jobs, r \in JobRow :
           RowChange(k, r) /\ jobs' = [jobs EXCEPT ![k] = r]
    BY <1>3 DEF OneRowChanges
  <2>2. CASE k # j
    BY <1>1, <2>1, <2>2 DEF Held, IInv, TypeOK
  <2>3. CASE k = j
    <3>1. jobs'[j] = r /\ r.status = "processing" /\ r.claims = c
      BY <1>1, <2>1, <2>3 DEF IInv, TypeOK
    <3>2. jobs[j] \in JobRow /\ jobs[j].claims \in Nat
      BY DEF IInv, TypeOK, JobRow
    <3>3. r # ClaimedRow(jobs[j])
      <4>1. ClaimedRow(jobs[j]).claims = jobs[j].claims + 1
        BY <3>2 DEF ClaimedRow, JobRow
      <4> QED
        BY <3>1, <3>2, <4>1
    <3>4. r = [jobs[j] EXCEPT !.elapsed = TRUE]
      <4>1. ~Created(j, r)
        BY <3>1 DEF Created
      <4>2. ~Closed(j, r)
        BY <3>1, <3>2 DEF Closed, Closings, JobRow
      <4>3. ~FailureCounted(j, r)
        BY <3>1, <3>2 DEF FailureCounted, JobRow
      <4>4. ~CompletedWithoutSet(j, r)
        BY <3>1, <3>2 DEF CompletedWithoutSet, JobRow
      <4> QED
        BY <2>1, <2>3, <3>3, <4>1, <4>2, <4>3, <4>4 DEF RowChange, Rescheduled
    <3> QED
      BY <3>1, <3>2, <3>4 DEF Held, JobRow
  <2> QED
    BY <2>2, <2>3
<1>4. CASE SetPersisted
  <2>1. PICK k \in Jobs :
           jobs' = [jobs EXCEPT ![k] = [@ EXCEPT !.status = "completed",
                                                 !.outcome = "persisted"]]
    BY <1>4 DEF SetPersisted
  <2>2. k # j
    BY <1>1, <2>1 DEF IInv, TypeOK, JobRow
  <2> QED
    BY <1>1, <2>1, <2>2 DEF Held, IInv, TypeOK
<1> QED
  BY <1>2, <1>3, <1>4 DEF JobStep

-----------------------------------------------------------------------------
(* What a step may do to the task a worker runs. *)

Stale == {"duplicate", "markRetry", "markExhausted"}

TaskEnds(w) == pc'[w] = "idle" /\ claim'[w] = 0

TaskRests(w) ==
    /\ pc'[w] = pc[w] /\ msg'[w] = msg[w]
    /\ claim'[w] = claim[w] /\ seen'[w] = seen[w]

TaskStarts(w) ==
    /\ pc[w] = "idle" /\ pc'[w] \notin Stale \cup {"idle"}
    /\ msg'[w] \in msgs
    /\ claim'[w] \in {claim[w], msg'[w].claim, jobs'[msg'[w].job].claims}

TaskReclaims(w) ==
    /\ pc[w] = "claim" /\ pc'[w] \notin Stale \cup {"idle"}
    /\ msg'[w] = msg[w]
    /\ claim'[w] = jobs'[msg[w].job].claims

TaskMoves(w) ==
    /\ pc[w] # "idle" /\ pc'[w] # "idle"
    /\ msg'[w] = msg[w] /\ claim'[w] = claim[w]
    /\ pc'[w] = "duplicate" => rows[jobs[msg[w].job].item] > 0
    /\ pc'[w] \in {"markRetry", "markExhausted"} =>
          UNCHANGED jobs /\ seen'[w] = jobs[msg[w].job].failures

TaskStep(w) ==
    \/ TaskEnds(w) \/ TaskRests(w) \/ TaskStarts(w)
    \/ TaskReclaims(w) \/ TaskMoves(w)

\* A task that returns ends, one that goes on moves; the others rest.
LEMMA FinishIsTaskStep ==
  ASSUME TypeOK, NEW w \in Workers, Finish(w), NEW v \in Workers
  PROVE  TaskStep(v)
  BY DEF TypeOK, Finish, Goto, TaskStep, TaskEnds, TaskRests

\* A task that goes on moves, provided that what it claims to have found is there.
LEMMA ContinueIsTaskStep ==
  ASSUME TypeOK, NEW w \in Workers, pc[w] # "idle", NEW label, Continue(w, label),
         label \notin {"idle", "markRetry", "markExhausted"},
         label = "duplicate" => rows[jobs[msg[w].job].item] > 0,
         NEW v \in Workers
  PROVE  TaskStep(v)
  BY DEF TypeOK, Continue, Goto, TaskStep, TaskMoves, TaskRests

\* Steps of the API, the redriver, the broker and the clocks leave tasks alone.
LEMMA LocalIsTaskStep ==
  ASSUME UNCHANGED local, NEW v \in Workers
  PROVE  TaskStep(v)
  BY DEF local, TaskStep, TaskRests

\* Whatever happens, each worker ends, rests, starts, reclaims or moves.
LEMMA NextIsTaskStep ==
  ASSUME TypeOK, [Next]_vars, NEW v \in Workers
  PROVE  TaskStep(v)
<1>1. ASSUME NEW w \in Workers, NEW m \in msgs, StartImport(w, m)
      PROVE  TaskStep(v)
  <2>1. pc[w] = "idle" /\ msg' = [msg EXCEPT ![w] = m] /\ UNCHANGED seen
        /\ \E label : /\ Goto(w, label)
                      /\ label \notin Stale \cup {"idle"}
    BY <1>1 DEF StartImport, Deliver, FetchResults, Stale
  <2>2. m.job \in Jobs /\ jobs[m.job] \in JobRow
    BY DEF TypeOK, Messages
  <2>3. \/ claim' = [claim EXCEPT ![w] = jobs'[m.job].claims]
        \/ UNCHANGED claim
    <3>1. CASE TakeClaim(w, m.job)
      BY <2>2, <3>1 DEF TakeClaim, TypeOK, ClaimedRow, JobRow
    <3> QED
      BY <1>1, <3>1 DEF StartImport
  <2> QED
    BY <2>1, <2>3 DEF TypeOK, Goto, TaskStep, TaskStarts, TaskRests
<1>2. ASSUME NEW w \in Workers, NEW m \in msgs, StartProcess(w, m)
      PROVE  TaskStep(v)
  <2>1. pc[w] = "idle" /\ UNCHANGED seen
    BY <1>2 DEF StartProcess, Deliver
  <2>2. \/ /\ msg' = [msg EXCEPT ![w] = m]
           /\ claim' = [claim EXCEPT ![w] = m.claim] \/ UNCHANGED claim
           /\ \E label : Goto(w, label) /\ label \notin Stale \cup {"idle"}
        \/ UNCHANGED <<msg, pc, claim>>
    BY <1>2 DEF StartProcess, Stale
  <2> QED
    BY <2>1, <2>2 DEF TypeOK, Goto, TaskStep, TaskStarts, TaskRests
<1>3. ASSUME NEW w \in Workers, ClaimRetry(w) PROVE TaskStep(v)
  <2>1. CASE TakeClaim(w, msg[w].job)
    <3>1. pc[w] = "claim" /\ UNCHANGED <<msg, seen>>
          /\ \E label : Goto(w, label) /\ label \notin Stale \cup {"idle"}
      BY <1>3, <2>1 DEF ClaimRetry, TakeClaim, Stale
    <3>2. msg[w].job \in Jobs /\ jobs[msg[w].job] \in JobRow
      BY <3>1, TaskJob
    <3>3. claim' = [claim EXCEPT ![w] = jobs'[msg[w].job].claims]
      BY <2>1, <3>2 DEF TakeClaim, TypeOK, ClaimedRow, JobRow
    <3> QED
      BY <3>1, <3>3 DEF TypeOK, Goto, TaskStep, TaskReclaims, TaskRests
  <2>2. CASE ~TakeClaim(w, msg[w].job)
    BY <1>3, <2>2, FinishIsTaskStep DEF ClaimRetry
  <2> QED
    BY <2>1, <2>2
<1>4. ASSUME NEW w \in Workers, ReadFailure(w) PROVE TaskStep(v)
  BY <1>4, FinishIsTaskStep DEF ReadFailure, TypeOK, Goto, TaskStep, TaskMoves,
     TaskRests
<1>5. ASSUME NEW w \in Workers, Lookup(w) PROVE TaskStep(v)
  BY <1>5, FinishIsTaskStep, ContinueIsTaskStep DEF Lookup
<1>6. ASSUME NEW w \in Workers, pc[w] # "idle",
             \E label \in {"readFailure", "republish", "markDead"} : Continue(w, label)
      PROVE  TaskStep(v)
  BY <1>6, ContinueIsTaskStep
<1>7. ASSUME NEW w \in Workers, Finish(w) PROVE TaskStep(v)
  BY <1>7, FinishIsTaskStep
<1>8. CASE \E m \in msgs : Delivery(m)
  BY <1>8, <1>1, <1>2 DEF Delivery
<1>9. CASE \E w \in Workers : WorkerStep(w)
  <2> SUFFICES ASSUME NEW w \in Workers, WorkerStep(w) PROVE TaskStep(v)
    BY <1>9
  <2>1. CASE Reread(w) \/ Terminate(w) \/ Dispatch(w) \/ MarkDead(w) \/ Republish(w)
    BY <2>1, <1>7 DEF Reread, Terminate, Dispatch, MarkDead, Republish
  <2>2. CASE DispatchFails(w) \/ ProcessRaises(w)
    BY <2>2, <1>6 DEF DispatchFails, ProcessRaises
  <2>3. CASE MarkRetry(w) \/ MarkExhausted(w)
    BY <2>3, <1>6, <1>7 DEF MarkRetry, MarkExhausted, RecordFailure
  <2>4. CASE CompleteDuplicate(w) \/ CompleteDiscarded(w) \/ PersistProcessedSet(w)
    BY <2>4, <1>6, <1>7 DEF CompleteDuplicate, CompleteDiscarded,
       PersistProcessedSet, InsertSet, Complete
  <2> QED
    BY <2>1, <2>2, <2>3, <2>4, <1>3, <1>4, <1>5 DEF WorkerStep, ImportStep, ProcessStep
<1>10. CASE \E w \in Workers : TaskDies(w) \/ Redeliver(w)
  BY <1>10, <1>7, LocalIsTaskStep DEF TaskDies, Redeliver
<1>11. CASE \/ \E j \in Jobs, i \in Items : ImportUrl(j, i)
            \/ \E j, k \in Jobs : RetryJob(j, k)
            \/ \E j \in Jobs : ApiStep(j) \/ ApiCrash(j)
            \/ Redrive \/ BrokerLoss
            \/ \E j \in Jobs : RedriveFails(j) \/ LeaseExpires(j) \/ RetryFallsDue(j)
            \/ UNCHANGED vars
  BY <1>11, LocalIsTaskStep DEF ImportUrl, CreateJob, RetryJob, ApiStep, ApiPublish,
     ApiPublishFails, ApiTerminalize, TransitionJob, ApiCrash, Redrive, BrokerLoss, RedriveFails,
     LeaseExpires, RetryFallsDue, vars, local
<1> QED
  BY <1>8, <1>9, <1>10, <1>11 DEF Next

-----------------------------------------------------------------------------
(* The references that messages, tasks and handlers hold stay good. *)

Grounded(m) ==
    m \in Messages /\ Present(m.job) /\ m.claim <= jobs[m.job].claims

\* Whatever is published names a job that exists, and no claim to come.
LEMMA NextPublishes ==
  ASSUME IInv, [Next]_vars, NEW m \in msgs'
  PROVE  Grounded(m)
<1>1. \A n \in msgs : Grounded(n)
  BY DEF IInv, TypeOK, References, MessagesHaveJobs, Grounded
<1>2. \A j \in Jobs : Present(j) => Grounded(ProviderMsg(j))
  BY DEF Grounded, ProviderMsg, Messages, IInv, TypeOK, JobRow
<1>3. \A w \in Workers : pc[w] # "idle" =>
         Grounded(msg[w]) /\ Grounded(ProcessMsg(msg[w].job, claim[w]))
  BY DEF Grounded, ProcessMsg, Messages, IInv, TypeOK, References, TasksHaveJobs
<1>4. \A j \in Jobs : Claimable(j) => Present(j)
  BY DEF Claimable, Present
<1>5. CASE m \in msgs
  BY <1>1, <1>5
<1> SUFFICES ASSUME m \notin msgs PROVE Grounded(m)
  BY <1>5
<1>6. CASE \E j \in Jobs : ApiStep(j)
  BY <1>6, <1>2 DEF ApiStep, ApiPublish, ApiPublishFails, ApiTerminalize, TransitionJob, IInv,
     References, HandlersHaveJobs
<1>7. CASE Redrive \/ \E j \in Jobs : RedriveFails(j)
  BY <1>7, <1>2, <1>4 DEF Redrive, RedriveFails, RedriveBatchJobs, Recoverable
<1>8. CASE \E w \in Workers : TaskDies(w) \/ Redeliver(w)
  BY <1>8, <1>3 DEF TaskDies, Redeliver
<1>9. CASE \E w \in Workers : Reread(w) \/ Dispatch(w) \/ DispatchFails(w) \/ Republish(w)
  BY <1>9, <1>3 DEF Reread, Dispatch, DispatchFails, Republish
<1>10. CASE \E w \in Workers : WorkerStep(w)
  BY <1>10, <1>9 DEF WorkerStep, ImportStep, ProcessStep, Terminate, ReadFailure, MarkRetry, MarkExhausted,
     RecordFailure, MarkDead, ClaimRetry, Lookup, CompleteDuplicate,
     CompleteDiscarded, PersistProcessedSet, InsertSet, Complete, ProcessRaises
<1>11. CASE \/ \E j \in Jobs, i \in Items : ImportUrl(j, i)
            \/ \E j, k \in Jobs : RetryJob(j, k)
            \/ \E j \in Jobs : ApiCrash(j)
            \/ BrokerLoss
            \/ \E n \in msgs : Delivery(n)
            \/ \E j \in Jobs : LeaseExpires(j) \/ RetryFallsDue(j)
            \/ UNCHANGED vars
  BY <1>11 DEF ImportUrl, CreateJob, RetryJob, ApiCrash, BrokerLoss, Delivery, StartImport,
     StartProcess, Deliver, LeaseExpires, RetryFallsDue, vars
<1> QED
  BY <1>6, <1>7, <1>8, <1>10, <1>11 DEF Next

\* A handler's job exists.
LEMMA NextHandlers ==
  ASSUME IInv, [Next]_vars, Growth
  PROVE  HandlersHaveJobs'
<1> SUFFICES ASSUME NEW j \in Jobs, api'[j] # "none" PROVE Present(j)'
  BY DEF HandlersHaveJobs
<1>1. CASE api[j] # "none"
  BY <1>1 DEF IInv, References, HandlersHaveJobs, Growth
<1>2. CASE api[j] = "none"
  <2>1. \/ \E i \in Items : ImportUrl(j, i)
        \/ \E k \in Jobs : RetryJob(k, j)
    <3>1. \/ UNCHANGED api
          \/ \E k \in Jobs : ApiStep(k) \/ ApiCrash(k)
          \/ \E k \in Jobs, i \in Items : ImportUrl(k, i)
          \/ \E k, n \in Jobs : RetryJob(k, n)
      <4>1. ASSUME NEW w \in Workers, WorkerStep(w)
            PROVE  UNCHANGED api
        <5>1. CASE ImportStep(w)
          BY <5>1 DEF ImportStep, Reread, Terminate, Dispatch, DispatchFails, ReadFailure,
             MarkRetry, MarkExhausted, RecordFailure, MarkDead, Republish
        <5>2. CASE ProcessStep(w)
          BY <5>2 DEF ProcessStep, ClaimRetry, Lookup, CompleteDuplicate,
             CompleteDiscarded, PersistProcessedSet, InsertSet, Complete, ProcessRaises
        <5> QED
          BY <4>1, <5>1, <5>2 DEF WorkerStep
      <4>2. ASSUME NEW m \in msgs, Delivery(m)
            PROVE  UNCHANGED api
        BY <4>2 DEF Delivery, StartImport, StartProcess, Deliver
      <4> QED
        BY <4>1, <4>2 DEF Next, vars, Redrive, RedriveFails, TaskDies, Redeliver,
           BrokerLoss, LeaseExpires, RetryFallsDue
    <3>2. ASSUME NEW k \in Jobs, ApiStep(k) \/ ApiCrash(k)
          PROVE  api'[j] = "none"
      BY <1>2, <3>2 DEF ApiStep, ApiPublish, ApiPublishFails, ApiTerminalize, ApiCrash,
         IInv, TypeOK
    <3>3. ASSUME NEW k \in Jobs, NEW i \in Items, ImportUrl(k, i)
          PROVE  k = j
      BY <1>2, <3>3 DEF ImportUrl, IInv, TypeOK
    <3>4. ASSUME NEW k \in Jobs, NEW n \in Jobs, RetryJob(k, n)
          PROVE  n = j
      BY <1>2, <3>4 DEF RetryJob, IInv, TypeOK
    <3> QED
      BY <1>2, <3>1, <3>2, <3>3, <3>4
  <2> QED
    BY <2>1 DEF ImportUrl, CreateJob, RetryJob, Present, NoRow, IInv, TypeOK
<1> QED
  BY <1>1, <1>2

\* A task's job exists and its claim is one the job has had.
LEMMA NextTasks ==
  ASSUME IInv, [Next]_vars, TypeOK', Growth
  PROVE  TasksHaveJobs'
<1> SUFFICES ASSUME NEW w \in Workers
             PROVE  IF pc'[w] = "idle" THEN claim'[w] = 0
                    ELSE /\ jobs'[msg'[w].job].status # "absent"
                         /\ msg'[w].claim <= jobs'[msg'[w].job].claims
                         /\ claim'[w] <= jobs'[msg'[w].job].claims
  BY DEF TasksHaveJobs, Present
<1>1. TaskStep(w)
  BY NextIsTaskStep DEF IInv
<1>2. /\ pc[w] = "idle" => claim[w] = 0
      /\ pc[w] # "idle" => Grounded(msg[w]) /\ claim[w] <= jobs[msg[w].job].claims
  BY DEF IInv, TypeOK, References, TasksHaveJobs, Grounded
<1>3. \A m : Grounded(m) => /\ jobs'[m.job].status # "absent"
                            /\ m.claim <= jobs'[m.job].claims
                            /\ \A c \in Nat : c <= jobs[m.job].claims
                                              => c <= jobs'[m.job].claims
  <2> SUFFICES ASSUME NEW m, Grounded(m)
               PROVE  /\ jobs'[m.job].status # "absent" /\ m.claim <= jobs'[m.job].claims
                      /\ \A c \in Nat : c <= jobs[m.job].claims
                                        => c <= jobs'[m.job].claims
    OBVIOUS
  <2>1. m.job \in Jobs /\ m.claim \in Nat
    BY DEF Grounded, Messages
  <2>2. jobs[m.job].claims \in Nat /\ jobs'[m.job].claims \in Nat
    BY <2>1 DEF IInv, TypeOK, JobRow
  <2>3. jobs'[m.job].status # "absent" /\ jobs[m.job].claims <= jobs'[m.job].claims
    BY <2>1 DEF Growth, Grounded, Present
  <2> QED
    BY <2>1, <2>2, <2>3 DEF Grounded
<1>4. claim[w] \in Nat
  BY DEF IInv, TypeOK
<1>5. CASE TaskEnds(w)
  BY <1>5 DEF TaskEnds
<1>6. CASE TaskRests(w)
  BY <1>2, <1>3, <1>4, <1>6 DEF TaskRests
<1>7. CASE TaskStarts(w)
  <2>1. Grounded(msg'[w]) /\ claim[w] = 0
    BY <1>2, <1>7 DEF TaskStarts, IInv, TypeOK, References, MessagesHaveJobs, Grounded
  <2>2. jobs'[msg'[w].job].claims \in Nat
    BY <2>1 DEF Grounded, Messages, TypeOK, JobRow
  <2> QED
    BY <1>3, <1>7, <2>1, <2>2 DEF TaskStarts
<1>8. CASE TaskReclaims(w)
  <2>1. jobs'[msg[w].job].claims \in Nat
    BY <1>2, <1>8 DEF TaskReclaims, Grounded, Messages, TypeOK, JobRow
  <2> QED
    BY <1>2, <1>3, <1>8, <2>1 DEF TaskReclaims
<1>9. CASE TaskMoves(w)
  BY <1>2, <1>3, <1>4, <1>9 DEF TaskMoves
<1> QED
  BY <1>1, <1>5, <1>6, <1>7, <1>8, <1>9 DEF TaskStep

\* What a task has read is out of date only when its claim is lost.
LEMMA NextReads ==
  ASSUME IInv, [Next]_vars, JobStep, Growth
  PROVE  DuplicateExists' /\ SeenIsCurrent'
<1>1. ASSUME NEW w \in Workers, pc'[w] = "duplicate"
      PROVE  rows'[jobs'[msg'[w].job].item] > 0
  <2>1. TaskRests(w) \/ TaskMoves(w)
    BY <1>1, NextIsTaskStep DEF IInv, TaskStep, TaskEnds, TaskStarts, TaskReclaims,
       Stale
  <2>2. /\ pc[w] # "idle" /\ msg'[w] = msg[w]
        /\ rows[jobs[msg[w].job].item] > 0
    BY <1>1, <2>1 DEF TaskRests, TaskMoves, IInv, DuplicateExists
  <2>3. /\ msg[w].job \in Jobs /\ Present(msg[w].job)
        /\ jobs[msg[w].job].item \in Items
    BY <2>2, TaskJob DEF IInv, References, TasksHaveJobs, RowsHaveItems
  <2>4. rows[jobs[msg[w].job].item] <= rows'[jobs[msg[w].job].item]
        /\ jobs'[msg[w].job].item = jobs[msg[w].job].item
    BY <2>3 DEF Growth
  <2>5. rows[jobs[msg[w].job].item] \in Nat
    BY <2>3 DEF IInv, TypeOK
  <2>6. rows'[jobs[msg[w].job].item] \in Nat
    BY <2>3, NextTypeOK DEF IInv, TypeOK
  <2> QED
    BY <2>2, <2>4, <2>5, <2>6
<1>2. ASSUME NEW w \in Workers, pc'[w] \in {"markRetry", "markExhausted"},
             jobs'[msg'[w].job].status = "processing",
             jobs'[msg'[w].job].claims = claim'[w]
      PROVE  seen'[w] = jobs'[msg'[w].job].failures
  <2>1. TaskRests(w) \/ TaskMoves(w)
    BY <1>2, NextIsTaskStep DEF IInv, TaskStep, TaskEnds, TaskStarts, TaskReclaims,
       Stale
  <2>2. CASE TaskMoves(w)
    BY <1>2, <2>2 DEF TaskMoves
  <2>3. CASE TaskRests(w)
    <3>1. pc[w] \in {"markRetry", "markExhausted"} /\ pc[w] # "idle"
          /\ msg'[w] = msg[w] /\ claim'[w] = claim[w] /\ seen'[w] = seen[w]
      BY <1>2, <2>3 DEF TaskRests
    <3>2. PICK j \in Jobs, c \in Nat : j = msg[w].job /\ c = claim[w]
      BY <3>1, TaskJob DEF IInv, TypeOK
    <3>3. c <= jobs[j].claims
      BY <3>1, <3>2 DEF IInv, References, TasksHaveJobs
    <3>4. Held(j, c)'
      BY <1>2, <3>1, <3>2 DEF Held
    <3>5. Held(j, c) /\ jobs'[j].failures = jobs[j].failures
      BY <3>3, <3>4, HeldBefore
    <3> QED
      BY <3>1, <3>2, <3>5 DEF IInv, SeenIsCurrent
  <2> QED
    BY <2>1, <2>2, <2>3
<1> QED
  BY <1>1, <1>2 DEF DuplicateExists, SeenIsCurrent, Held

-----------------------------------------------------------------------------
(* The theorems. *)

\* The inductive invariant holds before the first request.
LEMMA InitIInv == Init => IInv
<1> SUFFICES ASSUME Init PROVE IInv
  OBVIOUS
<1>1. TypeOK
  BY InitTypeOK
<1>2. References /\ DuplicateExists /\ SeenIsCurrent /\ OutcomeIsTrue
  BY DEF Init, References, RowsHaveItems, HandlersHaveJobs, MessagesHaveJobs,
     TasksHaveJobs, DuplicateExists, SeenIsCurrent, OutcomeIsTrue, NoRow, Present
<1>3. OneSetPerItem
  <2>1. \A i \in Items : PersistedBy(i) = {}
    BY DEF Init, PersistedBy, NoRow
  <2> QED
    BY <2>1, FS_EmptySet DEF Init, OneSetPerItem
<1> QED
  BY <1>1, <1>2, <1>3 DEF IInv

\* Every step preserves the inductive invariant.
LEMMA NextIInv == IInv /\ [Next]_vars => IInv'
<1> SUFFICES ASSUME IInv, [Next]_vars PROVE IInv'
  OBVIOUS
<1>1. TypeOK'
  BY NextTypeOK DEF IInv
<1>2. JobStep
  BY NextIsJobStep
<1>3. Growth
  BY <1>2, JobStepGrowth
<1>4. MessagesHaveJobs'
  <2> SUFFICES ASSUME NEW m \in msgs'
               PROVE  Present(m.job)' /\ m.claim <= jobs'[m.job].claims
    BY DEF MessagesHaveJobs
  <2>1. Grounded(m)
    BY NextPublishes
  <2>2. m.job \in Jobs /\ m.claim \in Nat
    BY <2>1 DEF Grounded, Messages
  <2>3. jobs[m.job].claims \in Nat /\ jobs'[m.job].claims \in Nat
    BY <1>1, <2>2 DEF IInv, TypeOK, JobRow
  <2> QED
    BY <1>3, <2>1, <2>2, <2>3 DEF Grounded, Growth
<1>5. References'
  BY <1>2, <1>3, <1>4, <1>1, JobStepOutcome, NextHandlers, NextTasks DEF References
<1> QED
  BY <1>1, <1>2, <1>3, <1>5, JobStepOutcome, JobStepOneSet, NextReads DEF IInv

\* IInv holds in every reachable state.
THEOREM Invariance == Spec => []IInv
  BY InitIInv, NextIInv, PTL DEF Spec

\* However many deliveries, claims and crashes race, an item becomes one set
\* at most, and a set is the outcome of exactly one job.
THEOREM OneSet == Spec => []OneSetPerItem
<1>1. IInv => OneSetPerItem
  BY DEF IInv
<1> QED
  BY <1>1, Invariance, PTL

\* A job has an outcome exactly when it is completed, and a persisted or
\* duplicate outcome only when the set exists.
THEOREM TrueOutcomes == Spec => []OutcomeIsTrue
<1>1. IInv => OutcomeIsTrue
  BY DEF IInv
<1> QED
  BY <1>1, Invariance, PTL

\* No step changes a row that has reached a terminal status.
LEMMA TerminalStep ==
  ASSUME IInv, JobStep, NEW j \in Jobs, jobs[j].status \in Terminal
  PROVE  jobs'[j] = jobs[j]
<1>1. CASE UNCHANGED <<jobs, rows>>
  BY <1>1
<1>2. CASE OneRowChanges
  <2>1. PICK k \in Jobs, r \in JobRow :
           RowChange(k, r) /\ jobs' = [jobs EXCEPT ![k] = r]
    BY <1>2 DEF OneRowChanges
  <2>2. k # j
    BY <2>1 DEF RowChange, Created, Rescheduled, Closed, FailureCounted,
       CompletedWithoutSet, Active, Terminal
  <2> QED
    BY <2>1, <2>2 DEF IInv, TypeOK
<1>3. CASE SetPersisted
  BY <1>3 DEF SetPersisted, Terminal, IInv, TypeOK
<1> QED
  BY <1>1, <1>2, <1>3 DEF JobStep

\* A terminal row never changes again: not by a late delivery, a second
\* owner, the redriver or the handler that failed to publish it.
THEOREM Finality == Spec => TerminalIsFinal
<1>1. ASSUME IInv, [Next]_vars
      PROVE  [\A j \in Jobs : jobs[j].status \in Terminal => jobs'[j] = jobs[j]]_vars
  BY <1>1, NextIsJobStep, TerminalStep
<1> QED
  BY <1>1, Invariance, PTL DEF TerminalIsFinal, Spec

\* The failures of a row grow by one exactly when it goes from processing to
\* retry.
LEMMA FailureStep ==
  ASSUME IInv, JobStep, NEW j \in Jobs, jobs[j].status # "absent"
  PROVE  jobs'[j].failures = jobs[j].failures +
            (IF jobs[j].status = "processing" /\ jobs'[j].status = "retry"
             THEN 1 ELSE 0)
<1>1. jobs[j] \in JobRow /\ jobs[j].failures \in Nat
  BY DEF IInv, TypeOK, JobRow
<1>2. CASE jobs'[j] = jobs[j]
  BY <1>1, <1>2
<1>3. CASE OneRowChanges
  <2>1. PICK k \in Jobs, r \in JobRow :
           RowChange(k, r) /\ jobs' = [jobs EXCEPT ![k] = r]
    BY <1>3 DEF OneRowChanges
  <2>2. CASE k # j
    BY <2>1, <2>2, <1>2 DEF IInv, TypeOK
  <2>3. CASE k = j
    <3>1. jobs'[j] = r
      BY <2>1, <2>3 DEF IInv, TypeOK
    <3>2. ~Created(j, r)
      BY DEF Created
    <3>3. CASE Rescheduled(j, r)
      <4>1. r.failures = jobs[j].failures
        BY <1>1, <3>3 DEF Rescheduled, ClaimedRow, JobRow
      <4>2. r.status \in {"processing", jobs[j].status}
        BY <1>1, <3>3 DEF Rescheduled, ClaimedRow, JobRow
      <4> QED
        BY <1>1, <3>1, <4>1, <4>2
    <3>4. CASE Closed(j, r)
      BY <1>1, <3>1, <3>4 DEF Closed, Closings, JobRow
    <3>5. CASE FailureCounted(j, r)
      <4>1. r.failures = jobs[j].failures + 1 /\ r.status = "retry"
        BY <1>1, <3>5 DEF FailureCounted, JobRow
      <4> QED
        BY <3>1, <3>5, <4>1 DEF FailureCounted
    <3>6. CASE CompletedWithoutSet(j, r)
      <4>1. r.failures = jobs[j].failures /\ r.status = "completed"
        BY <1>1, <3>6 DEF CompletedWithoutSet, JobRow
      <4> QED
        BY <1>1, <3>1, <4>1
    <3> QED
      BY <2>1, <2>3, <3>2, <3>3, <3>4, <3>5, <3>6 DEF RowChange
  <2> QED
    BY <2>2, <2>3
<1>4. CASE SetPersisted
  <2>1. PICK k \in Jobs :
           jobs' = [jobs EXCEPT ![k] = [@ EXCEPT !.status = "completed",
                                                 !.outcome = "persisted"]]
    BY <1>4 DEF SetPersisted
  <2> QED
    BY <1>1, <1>2, <2>1 DEF IInv, TypeOK, JobRow
<1> QED
  BY <1>2, <1>3, <1>4 DEF JobStep

\* No failure is lost from or counted twice in the durable retry budget.
THEOREM FailuresCounted == Spec => EveryFailureIsCounted
<1>1. ASSUME IInv, [Next]_vars
      PROVE  [\A j \in Jobs :
                jobs[j].status # "absent" =>
                   jobs'[j].failures = jobs[j].failures +
                      (IF jobs[j].status = "processing" /\ jobs'[j].status = "retry"
                       THEN 1 ELSE 0)]_vars
  BY <1>1, NextIsJobStep, FailureStep
<1> QED
  BY <1>1, Invariance, PTL DEF EveryFailureIsCounted, Spec

\* A step of one worker moves no other.
LEMMA OneWorkerMoves ==
  ASSUME TypeOK, NEW w \in Workers, NEW v \in Workers, v # w,
         WorkerStep(v) \/ TaskDies(v)
  PROVE  pc'[w] = pc[w]
<1>1. ASSUME Finish(v) \/ \E label : Goto(v, label) \/ Continue(v, label)
      PROVE  pc'[w] = pc[w]
  BY <1>1 DEF TypeOK, Finish, Continue, Goto
<1>2. CASE \/ Reread(v) \/ Terminate(v) \/ Dispatch(v) \/ MarkDead(v) \/ Republish(v)
           \/ TaskDies(v)
  BY <1>1, <1>2 DEF Reread, Terminate, Dispatch, MarkDead, Republish, TaskDies
<1>3. CASE DispatchFails(v) \/ ProcessRaises(v) \/ ReadFailure(v) \/ Lookup(v)
  BY <1>1, <1>3 DEF DispatchFails, ProcessRaises, ReadFailure, Lookup
<1>4. CASE MarkRetry(v) \/ MarkExhausted(v)
  BY <1>1, <1>4 DEF MarkRetry, MarkExhausted, RecordFailure
<1>5. CASE CompleteDuplicate(v) \/ CompleteDiscarded(v) \/ PersistProcessedSet(v)
  BY <1>1, <1>5 DEF CompleteDuplicate, CompleteDiscarded, PersistProcessedSet, InsertSet, Complete
<1>6. CASE ClaimRetry(v)
  BY <1>1, <1>6 DEF ClaimRetry
<1> QED
  BY <1>2, <1>3, <1>4, <1>5, <1>6 DEF WorkerStep, ImportStep, ProcessStep

\* A step of a task that has lost its claim leaves the tables alone.
LEMMA FencedStep ==
  ASSUME IInv, [Next]_vars, NEW w \in Workers,
         pc[w] \notin {"idle", "claim"}, pc'[w] # pc[w],
         claim[w] # jobs[msg[w].job].claims
  PROVE  UNCHANGED <<jobs, rows>>
<1>1. TaskDies(w) \/ WorkerStep(w)
  <2>1. ASSUME UNCHANGED local PROVE FALSE
    BY <2>1 DEF local
  <2>2. ASSUME NEW m \in msgs, NEW v \in Workers,
               StartImport(v, m) \/ StartProcess(v, m)
        PROVE  FALSE
    <3>1. pc[v] = "idle"
      BY <2>2 DEF StartImport, StartProcess, Deliver
    <3>2. UNCHANGED pc \/ \E label : Goto(v, label)
      BY <2>2 DEF StartImport, StartProcess
    <3> QED
      BY <3>1, <3>2 DEF Goto, IInv, TypeOK
  <2>3. ASSUME NEW v \in Workers, v # w, WorkerStep(v) \/ TaskDies(v)
        PROVE  FALSE
    BY <2>3, OneWorkerMoves DEF IInv
  <2>4. CASE \/ \E m \in msgs : Delivery(m)
             \/ \E v \in Workers : WorkerStep(v)
             \/ \E v \in Workers : TaskDies(v) \/ Redeliver(v)
    BY <2>4, <2>1, <2>2, <2>3 DEF Delivery, Redeliver
  <2>5. CASE \/ \E j \in Jobs, i \in Items : ImportUrl(j, i)
             \/ \E j, k \in Jobs : RetryJob(j, k)
             \/ \E j \in Jobs : ApiStep(j) \/ ApiCrash(j)
             \/ Redrive \/ BrokerLoss
             \/ \E j \in Jobs : RedriveFails(j) \/ LeaseExpires(j) \/ RetryFallsDue(j)
             \/ UNCHANGED vars
    BY <2>5, <2>1 DEF ImportUrl, CreateJob, RetryJob, ApiStep, ApiPublish, ApiPublishFails,
       ApiTerminalize, TransitionJob, ApiCrash, Redrive, BrokerLoss, RedriveFails, LeaseExpires,
       RetryFallsDue, vars, local
  <2> QED
    BY <2>4, <2>5 DEF Next
<1>2. ~Owned(msg[w].job, claim[w]) /\ ~Held(msg[w].job, claim[w])
  BY DEF Owned, Held
<1>3. CASE TaskDies(w)
  BY <1>3 DEF TaskDies
<1>4. CASE WorkerStep(w)
  BY <1>2, <1>4 DEF WorkerStep, ImportStep, ProcessStep, Reread, Terminate, TransitionClaimed, MayTransition,
     Dispatch, DispatchFails, ReadFailure, MarkRetry, MarkExhausted, RecordFailure,
     MarkDead, Republish, ClaimRetry, Lookup, CompleteDuplicate, CompleteDiscarded,
     PersistProcessedSet, InsertSet, Complete, ProcessRaises
<1> QED
  BY <1>1, <1>3, <1>4

\* A task whose claim has been superseded can no longer touch a job or create
\* a set, wherever it was when it lost the claim.
THEOREM Fencing == Spec => StaleOwnersAreFenced
<1>1. ASSUME IInv, [Next]_vars
      PROVE  [\A w \in Workers :
                (/\ pc[w] \notin {"idle", "claim"} /\ pc'[w] # pc[w]
                 /\ claim[w] # jobs[msg[w].job].claims)
                => UNCHANGED <<jobs, rows>>]_vars
  BY <1>1, FencedStep
<1> QED
  BY <1>1, Invariance, PTL DEF StaleOwnersAreFenced, Spec

-----------------------------------------------------------------------------
(* Refinement of the ledger. *)

Entries == [j \in Jobs |-> [state |-> LedgerState(jobs[j]), item |-> jobs[j].item]]
Catalogue == {i \in Items : rows[i] > 0}

\* One row of import_jobs changed: so did one entry of the ledger, at most.
LEMMA EntryChanges ==
  ASSUME TypeOK, NEW j \in Jobs, NEW r, jobs' = [jobs EXCEPT ![j] = r]
  PROVE  Entries' = [Entries EXCEPT ![j] = [state |-> LedgerState(r), item |-> r.item]]
<1>1. \A k \in Jobs : jobs'[k] = IF k = j THEN r ELSE jobs[k]
  BY DEF TypeOK
<1>2. Entries' = [k \in Jobs |-> [state |-> LedgerState(jobs'[k]),
                                  item |-> jobs'[k].item]]
  BY DEF Entries, LedgerState
<1> QED
  BY <1>1, <1>2 DEF Entries

\* The jobs start as an empty ledger.
LEMMA InitLedger == Init => Ledger!Init
<1> SUFFICES ASSUME Init PROVE Ledger!Init
  OBVIOUS
<1>1. \A j \in Jobs : LedgerState(jobs[j]) = "unsubmitted" /\ jobs[j].item = NoItem
  <2>1. NoRow.status = "absent" /\ NoRow.item = NoItem
    BY DEF NoRow
  <2>2. LedgerState(NoRow) = "unsubmitted"
    BY <2>1 DEF LedgerState, Active
  <2>3. \A j \in Jobs : jobs[j] = NoRow
    BY DEF Init
  <2> QED
    BY <2>1, <2>2, <2>3
<1>2. {i \in Items : rows[i] > 0} = {}
  BY DEF Init
<1> QED
  BY <1>1, <1>2 DEF Ledger!Init

\* A change of one row submits, settles or closes the job, or is not seen.
LEMMA OneRowLedgerStep ==
  ASSUME IInv, OneRowChanges
  PROVE  [Ledger!Next]_<<Entries, Catalogue>>
<1>1. PICK j \in Jobs, r \in JobRow :
         RowChange(j, r) /\ jobs' = [jobs EXCEPT ![j] = r]
  BY DEF OneRowChanges
<1>2. Entries' = [Entries EXCEPT ![j] = [state |-> LedgerState(r), item |-> r.item]]
  BY <1>1, EntryChanges DEF IInv
<1>3. UNCHANGED Catalogue
  BY DEF OneRowChanges, Catalogue
<1>4. jobs[j] \in JobRow
  BY DEF IInv, TypeOK
<1>5. Entries[j] = [state |-> LedgerState(jobs[j]), item |-> jobs[j].item]
      /\ Entries = [Entries EXCEPT ![j] = Entries[j]]
  BY DEF Entries
<1>6. CASE Created(j, r)
  <2>1. LedgerState(r) = "open" /\ LedgerState(jobs[j]) = "unsubmitted"
    BY <1>6 DEF Created, LedgerState, Active
  <2>2. Ledger!Submit(j, r.item)
    BY <1>2, <1>3, <1>5, <2>1 DEF Ledger!Submit, Entries, Catalogue
  <2> QED
    BY <1>6, <2>2 DEF Created, Ledger!Next
<1>7. CASE Rescheduled(j, r) \/ FailureCounted(j, r)
  <2>1. r.item = jobs[j].item /\ r.status \in Active
    BY <1>4, <1>7 DEF Rescheduled, FailureCounted, ClaimedRow, JobRow, Active
  <2>2. jobs[j].status \in Active
    BY <1>7 DEF Rescheduled, FailureCounted, Active
  <2>3. LedgerState(r) = "open" /\ LedgerState(jobs[j]) = "open"
    BY <2>1, <2>2 DEF LedgerState, Active
  <2>4. UNCHANGED Entries
    BY <1>2, <1>5, <2>1, <2>3
  <2> QED
    BY <1>3, <2>4
<1>8. CASE Closed(j, r)
  <2>1. r.item = jobs[j].item /\ r.status \in Closings
    BY <1>4, <1>8 DEF Closed, JobRow
  <2>2. LedgerState(r) = "closed" /\ LedgerState(jobs[j]) = "open"
    BY <1>8, <2>1 DEF Closed, Closings, LedgerState, Active
  <2>3. Ledger!Close(j)
    BY <1>2, <1>3, <1>5, <2>1, <2>2 DEF Ledger!Close, Ledger!Settle, Entries, Catalogue
  <2> QED
    BY <2>3 DEF Ledger!Next
<1>9. CASE CompletedWithoutSet(j, r)
  <2>1. /\ r.item = jobs[j].item /\ r.status = "completed"
        /\ \/ r.outcome = "discarded"
           \/ r.outcome = "duplicate" /\ rows[jobs[j].item] > 0
    BY <1>4, <1>9 DEF CompletedWithoutSet, JobRow
  <2>2. LedgerState(r) = r.outcome /\ LedgerState(jobs[j]) = "open"
    BY <1>9, <2>1 DEF CompletedWithoutSet, LedgerState, Active
  <2>3. jobs[j].item \in Items
    BY <1>9 DEF CompletedWithoutSet, IInv, References, RowsHaveItems, Present
  <2>4. Ledger!Discard(j) \/ Ledger!RecogniseDuplicate(j)
    <3>1. Entries' = [Entries EXCEPT ![j] = [state |-> r.outcome,
                                             item |-> jobs[j].item]]
      BY <1>2, <2>1, <2>2
    <3>2. Entries[j] = [state |-> "open", item |-> jobs[j].item]
      BY <1>5, <2>2
    <3>3. CASE r.outcome = "discarded"
      BY <1>3, <3>1, <3>2, <3>3 DEF Ledger!Discard, Ledger!Settle, Entries, Catalogue
    <3>4. CASE r.outcome = "duplicate" /\ rows[jobs[j].item] > 0
      BY <1>3, <2>3, <3>1, <3>2, <3>4 DEF Ledger!RecogniseDuplicate, Ledger!Settle,
         Entries, Catalogue
    <3> QED
      BY <2>1, <3>3, <3>4
  <2> QED
    BY <2>4 DEF Ledger!Next
<1> QED
  BY <1>1, <1>6, <1>7, <1>8, <1>9 DEF RowChange

\* The transaction that persists a set settles its job and extends the
\* catalogue in one step.
LEMMA PersistLedgerStep ==
  ASSUME IInv, SetPersisted
  PROVE  [Ledger!Next]_<<Entries, Catalogue>>
<1>1. PICK j \in Jobs :
         /\ jobs[j].status = "processing" /\ rows[jobs[j].item] = 0
         /\ jobs' = [jobs EXCEPT ![j] = [@ EXCEPT !.status = "completed",
                                                  !.outcome = "persisted"]]
         /\ rows' = [rows EXCEPT ![jobs[j].item] = 1]
  BY DEF SetPersisted
<1> DEFINE r == [jobs[j] EXCEPT !.status = "completed", !.outcome = "persisted"]
<1>2. jobs[j] \in JobRow /\ jobs[j].item \in Items
  BY <1>1 DEF IInv, TypeOK, References, RowsHaveItems, Present
<1>3. r.status = "completed" /\ r.outcome = "persisted" /\ r.item = jobs[j].item
  BY <1>2 DEF JobRow
<1>4. LedgerState(r) = "persisted" /\ LedgerState(jobs[j]) = "open"
  BY <1>1, <1>3 DEF LedgerState, Active
<1>5. jobs' = [jobs EXCEPT ![j] = r]
  BY <1>1
<1>6. Entries' = [Entries EXCEPT ![j] = [state |-> LedgerState(r), item |-> r.item]]
  BY <1>5, EntryChanges DEF IInv
<1>7. Catalogue' = Catalogue \cup {jobs[j].item} /\ jobs[j].item \notin Catalogue
  BY <1>1, <1>2 DEF Catalogue, IInv, TypeOK
<1>8. Entries[j] = [state |-> "open", item |-> jobs[j].item]
  BY <1>4 DEF Entries
<1>9. Ledger!Persist(j)
  BY <1>3, <1>4, <1>6, <1>7, <1>8 DEF Ledger!Persist, Ledger!Settle, Entries, Catalogue
<1> QED
  BY <1>9 DEF Ledger!Next

\* Whoever reads import_jobs and sets sees a JobLedger.
THEOREM Refinement == Spec => ImplementsLedger
<1>1. ASSUME IInv, [Next]_vars
      PROVE  [Ledger!Next]_(Ledger!ledgerVars)
  <2>1. CASE UNCHANGED <<jobs, rows>>
    BY <2>1 DEF Ledger!ledgerVars, LedgerState
  <2>2. CASE OneRowChanges \/ SetPersisted
    BY <1>1, <2>2, OneRowLedgerStep, PersistLedgerStep DEF Ledger!ledgerVars,
       Entries, Catalogue
  <2> QED
    BY <1>1, <2>1, <2>2, NextIsJobStep DEF JobStep
<1> QED
  BY <1>1, InitLedger, Invariance, PTL DEF ImplementsLedger, Ledger!Spec, Spec
=============================================================================
