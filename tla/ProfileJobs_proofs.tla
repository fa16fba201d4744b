------------------------- MODULE ProfileJobs_proofs -------------------------
(***************************************************************************)
(* Safety of profile discovery, for any parents, workers, pages and        *)
(* payloads, page size 0 included.                                         *)
(***************************************************************************)
EXTENDS ProfileJobs, TLAPS

-----------------------------------------------------------------------------
(* The inductive invariant. *)

\* Every page before p has been worked off.
Before(p) == \A q \in Pages : q < p => Settled(q)

\* A parent receives a page only when the pages before it are settled; a
\* direct one with its completion.
ParentAgrees(j) ==
    /\ jobs[j].status = "absent" => jobs[j] = NoParent
    /\ jobs[j].page # NoPage =>
          /\ Before(jobs[j].page)
          /\ (profile.kind = "direct" => jobs[j].status = "completed")
    /\ jobs[j].status = "completed" /\ profile.kind # "direct" =>
          /\ jobs[j].page # NoPage
          /\ \A i \in Items : children[j][i].status = "completed"

\* A finalizer is published for a claim that was made, of a parent that has
\* its page.
Published(m) == m.claim \in 1 .. jobs[m.job].claims /\ jobs[m.job].page # NoPage

Owning(t) == t.pc \notin {"idle", "reread"}
Finalizes(t) == t.msg.kind = "finalize"
Current(t) == t.claim = jobs[t.msg.job].claims
Loop == {"child", "claimChild", "lookChild", "dispatchChild", "readChildFailure",
         "markChildRetry", "publishFinalizer"}

\* What a task delivers and the claim it holds, which may be outdated.
Delivers(t) ==
    /\ t.pc # "idle" => t.msg \in Messages
    /\ t.pc = "reread" => ~Finalizes(t)
    /\ Owning(t) => t.claim \in 1 .. jobs[t.msg.job].claims
    /\ Owning(t) /\ Finalizes(t) =>
          t.pc \in {"collect", "conclude"} /\ t.msg.claim = t.claim /\ Published(t.msg)
    /\ t.pc = "collect" => Finalizes(t)

\* What a task remembers at each place; what it has read of the row of its
\* parent is still there if its claim is.
Remembers(t) ==
    /\ t.pc \in {"checkpoint", "store"} => t.page \in Pages /\ Before(t.page)
    /\ t.pc = "checkpoint" => profile.kind # "direct"
    /\ t.pc = "store" =>
          profile.kind = "direct" /\ (Current(t) => jobs[t.msg.job].page = NoPage)
    /\ t.pc \in Loop => jobs[t.msg.job].page # NoPage
    /\ t.pc \in Loop \ {"publishFinalizer"} => t.item \in Items
    /\ t.pc \in {"markRetry", "markExhausted"} /\ Current(t) =>
          t.page = jobs[t.msg.job].page
    /\ t.pc \in {"readCursor", "conclude"} => t.end \in Terminal
    /\ t.pc \in {"readCursor", "conclude"} /\ t.end = "completed" =>
          Finalizes(t) /\ \A i \in Items : children[t.msg.job][i].status = "completed"
    /\ t.pc = "conclude" => Before(t.cursor)
    /\ /\ t.pc = "conclude" /\ ~Finalizes(t) /\ ~profile.deleted
       /\ Held(t.msg.job, t.claim) /\ Latest(t.msg.job)
       => t.cursor = profile.cursor

\* Every claim of a parent is a run's own.
ClaimsDiffer(t, u) ==
    Owning(t) /\ Owning(u) /\ ~Finalizes(t) /\ ~Finalizes(u) /\ t.msg.job = u.msg.job
       => t.claim # u.claim

IInv ==
    /\ TypeOK
    /\ Before(profile.cursor)
    /\ \A j \in Jobs : ParentAgrees(j)
    /\ \A m \in msgs : m.kind = "finalize" => Published(m)
    /\ \A w \in Workers : Delivers(task[w]) /\ Remembers(task[w])
    /\ \A w, v \in Workers : w # v => ClaimsDiffer(task[w], task[v])
    /\ scheduler.pc = "publish" => scheduler.job \in Jobs

LEMMA PagesAreNat == Pages \subseteq Nat /\ 0 \in Pages /\ NoPage \notin Pages
  BY BoundsAssumption, NullsAssumption DEF Pages

LEMMA NextPageType == ASSUME NEW p \in Pages PROVE NextPage(p) \in Pages
  BY BoundsAssumption DEF Pages, NextPage

LEMMA NoParentType ==
  /\ NoParent \in ParentRow /\ NoParent.status = "absent" /\ NoParent.page = NoPage
  /\ NoParent.claims = 0
  BY DEF NoParent, ParentRow, NoJob

LEMMA NoTaskType == NoTask \in Task /\ NoTask.pc = "idle"
  BY PagesAreNat DEF NoTask, Task, TaskPC

LEMMA IdleAgrees ==
  ASSUME NEW t, t.pc = "idle"
  PROVE  Delivers(t) /\ Remembers(t) /\ ~Owning(t)
  BY DEF Delivers, Remembers, Owning, Loop

LEMMA InitIInv == ASSUME Init PROVE IInv
  <1> USE DEF Init
  <1>1. TypeOK
    <2>1. NoChild \in ChildRow
      BY DEF NoChild, ChildRow
    <2>2. profile \in [kind : Kinds, cursor : Pages, due : BOOLEAN, deleted : BOOLEAN]
      BY PagesAreNat
    <2> QED BY <2>1, <2>2, NoParentType, NoTaskType DEF TypeOK, ApiPC, SchedulerPC, NoJob
  <1>2. profile.cursor = 0
    OBVIOUS
  <1>3. Before(0)
    BY PagesAreNat DEF Before
  <1>4. \A j \in Jobs : ParentAgrees(j)
    BY NoParentType DEF ParentAgrees
  <1>5. \A w \in Workers : task[w] = NoTask
    OBVIOUS
  <1>6. \A w \in Workers : Delivers(task[w]) /\ Remembers(task[w])
    BY <1>5, NoTaskType, IdleAgrees
  <1>7. \A w, v \in Workers : w # v => ClaimsDiffer(task[w], task[v])
    BY <1>5, NoTaskType DEF ClaimsDiffer, Owning
  <1> QED BY <1>1, <1>2, <1>3, <1>4, <1>6, <1>7 DEF IInv

-----------------------------------------------------------------------------
(* Parents. *)

LEMMA ParentType ==
  ASSUME TypeOK, NEW j \in Jobs
  PROVE  /\ jobs[j] \in ParentRow /\ jobs[j].claims \in Nat
         /\ jobs[j].page \in Pages \cup {NoPage}
  BY DEF TypeOK, ParentRow

\* No step takes a page, a claim or a completion back, or lets a claim be
\* valid again that was not.
RowKept(j) ==
    /\ jobs'[j].claims >= jobs[j].claims
    /\ jobs[j].page # NoPage => jobs'[j].page = jobs[j].page
    /\ jobs[j].status = "completed" => jobs'[j].status = "completed"
    /\ jobs[j].status # "absent" => jobs'[j].status # "absent"
    /\ jobs'[j].status = "processing" /\ jobs'[j].claims = jobs[j].claims =>
          jobs[j].status = "processing"

\* A row that has changed agrees with what was known before the step.
RowAgrees(j) ==
    /\ jobs'[j].status # "absent"
    /\ jobs'[j].page # NoPage =>
          /\ Before(jobs'[j].page)
          /\ (profile.kind = "direct" => jobs'[j].status = "completed")
    /\ jobs'[j].status = "completed" /\ profile.kind # "direct" =>
          /\ jobs'[j].page # NoPage
          /\ \A i \in Items : children[j][i].status = "completed"

\* A page comes to a new parent, or by the task that holds the claim.
Receives(j) ==
    \/ jobs[j].status = "absent"
    \/ \E v \in Workers : /\ task[v].pc \in {"checkpoint", "store"}
                          /\ task'[v].pc # task[v].pc
                          /\ task[v].msg.job = j
                          /\ Held(j, task[v].claim)

JobsStep ==
    /\ jobs' \in [Jobs -> ParentRow]
    /\ \A j \in Jobs : /\ RowKept(j)
                       /\ jobs'[j] = jobs[j] \/ RowAgrees(j)
                       /\ jobs'[j].page = jobs[j].page \/ Receives(j)

LEMMA SameJobs == ASSUME TypeOK, jobs' = jobs PROVE JobsStep
  <1>1. \A j \in Jobs : RowKept(j)
    BY ParentType DEF RowKept
  <1> QED BY <1>1 DEF JobsStep, TypeOK

LEMMA OneRow ==
  ASSUME TypeOK, NEW j \in Jobs, NEW row \in ParentRow, jobs' = [jobs EXCEPT ![j] = row],
         jobs'[j] = row => /\ RowKept(j) /\ RowAgrees(j)
                           /\ row.page = jobs[j].page \/ Receives(j)
  PROVE  JobsStep
  <1>1. jobs' \in [Jobs -> ParentRow] /\ jobs'[j] = row
        /\ \A k \in Jobs \ {j} : jobs'[k] = jobs[k]
    BY DEF TypeOK
  <1>2. \A k \in Jobs \ {j} : RowKept(k)
    BY <1>1, ParentType DEF RowKept
  <1> QED BY <1>1, <1>2 DEF JobsStep

\* A row that keeps its page and neither was nor is completed.
LEMMA PlainRow ==
  ASSUME IInv, NEW j \in Jobs, NEW row \in ParentRow, jobs' = [jobs EXCEPT ![j] = row],
         row.page = jobs[j].page, row.claims >= jobs[j].claims,
         jobs[j].status \notin {"absent", "completed"},
         row.status \notin {"absent", "completed"},
         row.status = "processing" /\ row.claims = jobs[j].claims =>
            jobs[j].status = "processing"
  PROVE  JobsStep
  <1>1. ParentAgrees(j)
    BY DEF IInv
  <1>2. ASSUME jobs'[j] = row PROVE RowKept(j) /\ RowAgrees(j)
    BY <1>1, <1>2 DEF RowKept, RowAgrees, ParentAgrees
  <1> QED BY <1>2, OneRow DEF IInv

\* A row that was absent.
LEMMA NewRow ==
  ASSUME IInv, NEW j \in Jobs, jobs[j].status = "absent", NEW row \in ParentRow,
         jobs' = [jobs EXCEPT ![j] = row], row.status = "queued",
         row.page # NoPage => Before(row.page) /\ profile.kind # "direct"
  PROVE  JobsStep
  <1>1. jobs[j] = NoParent
    BY DEF IInv, ParentAgrees
  <1>2. ASSUME jobs'[j] = row PROVE RowKept(j) /\ RowAgrees(j) /\ Receives(j)
    <2>1. row.claims >= 0
      BY DEF ParentRow
    <2> QED BY <1>1, <1>2, <2>1, NoParentType DEF RowKept, RowAgrees, Receives
  <1> QED BY <1>2, OneRow DEF IInv

LEMMA QueueJobs ==
  ASSUME IInv, NEW j \in Jobs, QueueProfile(j)
  PROVE  JobsStep
  <1> DEFINE row == [NoParent EXCEPT !.status = "queued"]
  <1>1. row \in ParentRow /\ row.status = "queued" /\ row.page = NoPage
    BY NoParentType DEF ParentRow, Active
  <1>2. jobs[j].status = "absent" /\ jobs' = [jobs EXCEPT ![j] = row]
    BY DEF QueueProfile, Fresh
  <1> HIDE DEF row
  <1> QED BY <1>1, <1>2, NewRow

LEMMA RetryJobs ==
  ASSUME IInv, NEW j \in Jobs, NEW k \in Jobs, CreateRetry(j, k)
  PROVE  JobsStep
  <1> DEFINE row == [NoParent EXCEPT !.status = "queued", !.failures = jobs[j].failures,
                                     !.page = jobs[j].page, !.retryOf = j]
  <1>1. jobs[j].failures \in Nat /\ jobs[j].page \in Pages \cup {NoPage}
    BY DEF IInv, TypeOK, ParentRow
  <1>2. row \in ParentRow /\ row.status = "queued" /\ row.page = jobs[j].page
    BY <1>1, NoParentType DEF ParentRow, Active
  <1>3. /\ jobs[k].status = "absent" /\ jobs' = [jobs EXCEPT ![k] = row]
        /\ jobs[j].status \in {"failed", "dead_letter"}
    BY DEF CreateRetry, Fresh
  <1>4. jobs[j].page # NoPage => Before(jobs[j].page) /\ profile.kind # "direct"
    BY <1>3 DEF IInv, ParentAgrees
  <1> HIDE DEF row
  <1> QED BY <1>2, <1>3, <1>4, NewRow

\* The rows in which only the status changes, and in which a delay ends.
LEMMA StatusRow ==
  ASSUME NEW row \in ParentRow, NEW status \in Active \cup Terminal
  PROVE  LET new == [row EXCEPT !.status = status]
         IN  /\ new \in ParentRow /\ new.status = status /\ new.page = row.page
             /\ new.claims = row.claims
  BY DEF ParentRow

LEMMA StatusJobs ==
  ASSUME IInv, NEW j \in Jobs, NEW row \in ParentRow,
         row.status \in Terminal \ {"completed"}, row.page = jobs[j].page,
         row.claims = jobs[j].claims, jobs' = [jobs EXCEPT ![j] = row],
         jobs[j].status \notin {"absent", "completed"}
  PROVE  JobsStep
  <1>1. row.claims >= jobs[j].claims
    BY ParentType DEF IInv
  <1>2. row.status \notin {"absent", "completed", "processing"}
    BY DEF Terminal
  <1> QED BY <1>1, <1>2, PlainRow

LEMMA ElapsedJobs ==
  ASSUME IInv, NEW j \in Jobs, jobs' = [jobs EXCEPT ![j].elapsed = TRUE],
         jobs[j].status \in {"processing", "retry"}
  PROVE  JobsStep
  <1> DEFINE row == [jobs[j] EXCEPT !.elapsed = TRUE]
  <1>1. jobs[j] \in ParentRow /\ jobs[j].claims \in Nat
    BY ParentType DEF IInv
  <1>2. /\ row \in ParentRow /\ row.status = jobs[j].status /\ row.page = jobs[j].page
        /\ row.claims = jobs[j].claims
    BY <1>1 DEF ParentRow
  <1>3. jobs' = [jobs EXCEPT ![j] = row]
    OBVIOUS
  <1> HIDE DEF row
  <1>4. row.claims >= jobs[j].claims
    BY <1>1, <1>2
  <1> QED BY <1>2, <1>3, <1>4, PlainRow

\* A task that holds a claim works for a parent.
LEMMA Working ==
  ASSUME IInv, NEW w \in Workers, Owning(task[w])
  PROVE  /\ task[w] \in Task /\ task[w].msg \in Messages /\ task[w].msg.job \in Jobs
         /\ task[w].claim \in Nat
         /\ Delivers(task[w]) /\ Remembers(task[w])
  <1>1. task[w] \in Task /\ Delivers(task[w]) /\ Remembers(task[w])
    BY DEF IInv, TypeOK
  <1>2. task[w].msg \in Messages
    BY <1>1 DEF Delivers, Owning
  <1>3. task[w].msg.job \in Jobs
    BY <1>2 DEF Messages
  <1>4. task[w].claim \in Nat
    BY <1>1 DEF Task
  <1> QED BY <1>1, <1>2, <1>3, <1>4

LEMMA FinishEffect ==
  ASSUME TypeOK, NEW w \in Workers, Finish(w)
  PROVE  /\ task' \in [Workers -> Task] /\ task'[w] = NoTask
         /\ \A v \in Workers \ {w} : task'[v] = task[v]
  BY NoTaskType DEF Finish, TypeOK

LEMMA StartRunJobs ==
  ASSUME IInv, NEW w \in Workers, NEW m \in msgs, StartRun(w, m)
  PROVE  JobsStep
  <1> DEFINE j == m.job
             row == [jobs[j] EXCEPT !.status = "processing", !.claims = @ + 1,
                                    !.elapsed = FALSE]
  <1>1. j \in Jobs
    BY DEF IInv, TypeOK, Messages
  <1>2. CASE UNCHANGED jobs
    BY <1>2, SameJobs DEF IInv
  <1>3. CASE Claimable(jobs[j]) /\ jobs' = [jobs EXCEPT ![j].status = "processing",
                                                        ![j].claims = @ + 1,
                                                        ![j].elapsed = FALSE]
    <2>1. jobs[j] \in ParentRow /\ jobs[j].claims \in Nat
      BY <1>1, ParentType DEF IInv
    <2>2. jobs' = [jobs EXCEPT ![j] = row]
      BY <1>3
    <2>3. /\ row \in ParentRow /\ row.status = "processing" /\ row.page = jobs[j].page
          /\ row.claims = jobs[j].claims + 1
      <3>1. PICK old \in ParentRow : old = jobs[j]
        BY <2>1
      <3>2. PICK new : new = [old EXCEPT !.status = "processing", !.claims = @ + 1,
                                         !.elapsed = FALSE]
        OBVIOUS
      <3>3. "processing" \in Active /\ old.claims + 1 \in Nat
        BY DEF Active, ParentRow
      <3>4. new = [status |-> "processing", claims |-> old.claims + 1, elapsed |-> FALSE,
                   failures |-> old.failures, page |-> old.page, retryOf |-> old.retryOf]
        BY <3>2 DEF ParentRow
      <3>5. /\ new \in ParentRow /\ new.status = "processing" /\ new.page = old.page
            /\ new.claims = old.claims + 1
        BY <3>3, <3>4 DEF ParentRow
      <3> QED BY <3>1, <3>2, <3>5
    <2>4. jobs[j].status \notin {"absent", "completed"}
      BY <1>3 DEF Claimable
    <2> HIDE DEF row
    <2>5. row.claims >= jobs[j].claims /\ row.claims # jobs[j].claims
      BY <2>1, <2>3
    <2> QED BY <1>1, <2>2, <2>3, <2>4, <2>5, PlainRow
  <1> QED BY <1>2, <1>3 DEF StartRun

LEMMA CheckpointJobs ==
  ASSUME IInv, NEW w \in Workers, Checkpoint(w)
  PROVE  JobsStep
  <1> DEFINE j == task[w].msg.job
             p == task[w].page
             row == [jobs[j] EXCEPT !.page = IF @ = NoPage THEN p ELSE @]
  <1>1. task[w].pc = "checkpoint"
    BY DEF Checkpoint
  <1>2. j \in Jobs /\ Remembers(task[w]) /\ task[w] \in Task
    BY <1>1, Working DEF Owning
  <1>3. p \in Pages /\ Before(p) /\ profile.kind # "direct"
    BY <1>1, <1>2 DEF Remembers
  <1>4. CASE ~Held(j, task[w].claim)
    BY <1>4, SameJobs DEF Checkpoint, IInv
  <1>5. CASE Held(j, task[w].claim)
    <2>1. jobs[j] \in ParentRow /\ jobs[j].claims \in Nat /\ jobs[j].status = "processing"
      BY <1>2, <1>5, ParentType DEF IInv, Held
    <2>2. jobs' = [jobs EXCEPT ![j] = row]
      BY <1>5 DEF Checkpoint
    <2>3. /\ row \in ParentRow /\ row.status = "processing" /\ row.claims = jobs[j].claims
          /\ row.page = IF jobs[j].page = NoPage THEN p ELSE jobs[j].page
      BY <1>3, <2>1 DEF ParentRow
    <2>4. task'[w].pc \in {"child", "publishFinalizer"}
      <3>1. FirstItem(w)
        BY <1>5 DEF Checkpoint
      <3> QED BY <3>1 DEF FirstItem, IInv, TypeOK, Task
    <2>5. Receives(j)
      BY <1>1, <1>5, <2>4 DEF Receives
    <2> HIDE DEF row
    <2>6. ParentAgrees(j)
      BY <1>2 DEF IInv
    <2>7. ASSUME jobs'[j] = row PROVE RowKept(j) /\ RowAgrees(j)
      <3>1. RowKept(j)
        BY <2>1, <2>3, <2>7 DEF RowKept
      <3>2. RowAgrees(j)
        BY <1>3, <2>1, <2>3, <2>6, <2>7 DEF RowAgrees, ParentAgrees
      <3> QED BY <3>1, <3>2
    <2> QED BY <1>2, <2>2, <2>3, <2>5, <2>7, OneRow DEF IInv
  <1> QED BY <1>4, <1>5

LEMMA StoreJobs ==
  ASSUME IInv, NEW w \in Workers, StoreDiscovery(w)
  PROVE  JobsStep
  <1> DEFINE j == task[w].msg.job
             p == task[w].page
             row == [jobs[j] EXCEPT !.status = "completed", !.page = p]
  <1>1. task[w].pc = "store"
    BY DEF StoreDiscovery
  <1>2. j \in Jobs /\ Remembers(task[w]) /\ task[w] \in Task
    BY <1>1, Working DEF Owning
  <1>3. p \in Pages /\ Before(p) /\ profile.kind = "direct"
    BY <1>1, <1>2 DEF Remembers
  <1>4. CASE ~Held(j, task[w].claim)
    BY <1>4, SameJobs DEF StoreDiscovery, IInv
  <1>5. CASE Held(j, task[w].claim)
    <2>1. jobs[j] \in ParentRow /\ jobs[j].claims \in Nat /\ jobs[j].page = NoPage
      BY <1>1, <1>2, <1>5, ParentType DEF IInv, Held, Remembers, Current
    <2>2. jobs' = [jobs EXCEPT ![j] = row]
      BY <1>5 DEF StoreDiscovery
    <2>3. /\ row \in ParentRow /\ row.status = "completed" /\ row.claims = jobs[j].claims
          /\ row.page = p
      BY <1>3, <2>1 DEF ParentRow, Terminal
    <2>4. task'[w].pc = "idle"
      BY FinishEffect, NoTaskType DEF StoreDiscovery, IInv
    <2>5. Receives(j)
      BY <1>1, <1>5, <2>4 DEF Receives
    <2> HIDE DEF row
    <2>6. ASSUME jobs'[j] = row PROVE RowKept(j) /\ RowAgrees(j)
      BY <1>3, <2>1, <2>3, <2>6 DEF RowKept, RowAgrees
    <2> QED BY <1>2, <2>2, <2>3, <2>5, <2>6, OneRow DEF IInv
  <1> QED BY <1>4, <1>5

LEMMA RecordJobs ==
  ASSUME IInv, NEW w \in Workers, MarkRetry(w) \/ MarkExhausted(w)
  PROVE  JobsStep
  <1> DEFINE j == task[w].msg.job
  <1>1. task[w].pc \in {"markRetry", "markExhausted"}
    BY DEF MarkRetry, MarkExhausted
  <1>2. j \in Jobs /\ Remembers(task[w]) /\ task[w] \in Task
    BY <1>1, Working DEF Owning
  <1>3. PICK elapsed \in BOOLEAN, label \in TaskPC : RecordFailure(w, elapsed, label)
    BY DEF MarkRetry, MarkExhausted, TaskPC
  <1>4. CASE ~Held(j, task[w].claim)
    BY <1>3, <1>4, SameJobs DEF RecordFailure, IInv
  <1>5. CASE Held(j, task[w].claim)
    <2> DEFINE row == [jobs[j] EXCEPT !.status = "retry", !.elapsed = elapsed,
                                      !.failures = task[w].seen + 1, !.page = task[w].page]
    <2>1. jobs[j] \in ParentRow /\ jobs[j].claims \in Nat /\ jobs[j].status = "processing"
      BY <1>2, <1>5, ParentType DEF IInv, Held
    <2>2. jobs' = [jobs EXCEPT ![j] = row]
      BY <1>3, <1>5 DEF RecordFailure
    <2>3. task[w].page = jobs[j].page /\ task[w].seen + 1 \in Nat
      BY <1>1, <1>2, <1>5 DEF Remembers, Current, Held, Task
    <2>4. /\ row \in ParentRow /\ row.status = "retry" /\ row.claims = jobs[j].claims
          /\ row.page = jobs[j].page
      <3>1. PICK old \in ParentRow : old = jobs[j]
        BY <2>1
      <3>2. PICK new : new = [old EXCEPT !.status = "retry", !.elapsed = elapsed,
                                         !.failures = task[w].seen + 1, !.page = task[w].page]
        OBVIOUS
      <3>3. task[w].page \in Pages \cup {NoPage}
        BY <1>2 DEF Task
      <3>4. /\ new \in ParentRow /\ new.status = "retry" /\ new.claims = old.claims
            /\ new.page = task[w].page
        BY <2>3, <3>2, <3>3 DEF ParentRow, Active
      <3> QED BY <2>3, <3>1, <3>2, <3>4
    <2> HIDE DEF row
    <2>5. row.claims >= jobs[j].claims
      BY <2>1, <2>4
    <2> QED BY <1>2, <2>1, <2>2, <2>4, <2>5, PlainRow
  <1> QED BY <1>4, <1>5

LEMMA MarkDeadJobs ==
  ASSUME IInv, NEW w \in Workers, MarkDead(w)
  PROVE  JobsStep
  <1> DEFINE j == task[w].msg.job
  <1>1. j \in Jobs
    BY Working DEF MarkDead, Owning
  <1>2. CASE jobs' = jobs
    BY <1>2, SameJobs DEF IInv
  <1>3. CASE jobs[j].status = "retry" /\ jobs' = [jobs EXCEPT ![j].status = "dead_letter"]
    <2> DEFINE row == [jobs[j] EXCEPT !.status = "dead_letter"]
    <2>1. "dead_letter" \in Terminal \ {"completed"} /\ jobs[j] \in ParentRow
      BY <1>1, ParentType DEF Terminal, IInv
    <2>2. /\ row \in ParentRow /\ row.status = "dead_letter" /\ row.page = jobs[j].page
          /\ row.claims = jobs[j].claims
      BY <2>1, StatusRow
    <2>3. jobs' = [jobs EXCEPT ![j] = row]
      BY <1>3
    <2> HIDE DEF row
    <2> QED BY <1>1, <1>3, <2>1, <2>2, <2>3, StatusJobs
  <1> QED BY <1>2, <1>3 DEF MarkDead

LEMMA ConcludeJobs ==
  ASSUME IInv, NEW w \in Workers, Conclude(w)
  PROVE  JobsStep
  <1> DEFINE j == task[w].msg.job
             t == task[w]
             row == [jobs[j] EXCEPT !.status = t.end]
  <1>1. t.pc = "conclude"
    BY DEF Conclude
  <1>2. j \in Jobs /\ Remembers(t) /\ Delivers(t)
    BY <1>1, Working DEF Owning
  <1>3. t.end \in Terminal
    BY <1>1, <1>2 DEF Remembers
  <1>4. CASE ~Held(j, t.claim)
    BY <1>4, SameJobs DEF Conclude, IInv
  <1>5. CASE Held(j, t.claim) /\ t.end # "completed"
    <2>1. jobs' = [jobs EXCEPT ![j] = row] /\ jobs[j].status = "processing"
      BY <1>5 DEF Conclude, Held
    <2>2. jobs[j] \in ParentRow
      BY <1>2, ParentType DEF IInv
    <2>3. /\ row \in ParentRow /\ row.status = t.end /\ row.page = jobs[j].page
          /\ row.claims = jobs[j].claims
      BY <1>3, <2>2, StatusRow
    <2> HIDE DEF row
    <2> QED BY <1>2, <1>3, <1>5, <2>1, <2>3, StatusJobs
  <1>6. CASE Held(j, t.claim) /\ t.end = "completed"
    <2>1. jobs[j] \in ParentRow /\ jobs[j].claims \in Nat /\ jobs[j].status = "processing"
      BY <1>2, <1>6, ParentType DEF IInv, Held
    <2>2. jobs' = [jobs EXCEPT ![j] = row]
      BY <1>6 DEF Conclude
    <2>3. /\ row \in ParentRow /\ row.status = "completed" /\ row.claims = jobs[j].claims
          /\ row.page = jobs[j].page
      BY <1>3, <1>6, <2>1, StatusRow
    <2>4. jobs[j].page # NoPage /\ \A i \in Items : children[j][i].status = "completed"
      BY <1>1, <1>2, <1>6 DEF Remembers, Delivers, Published, Owning
    <2>5. Before(jobs[j].page) /\ profile.kind # "direct"
      BY <1>2, <2>1, <2>4 DEF IInv, ParentAgrees
    <2> HIDE DEF row
    <2>6. ASSUME jobs'[j] = row PROVE RowKept(j) /\ RowAgrees(j)
      BY <2>1, <2>3, <2>4, <2>5, <2>6 DEF RowKept, RowAgrees
    <2> QED BY <1>2, <2>2, <2>3, <2>6, OneRow DEF IInv
  <1> QED BY <1>4, <1>5, <1>6

LEMMA WorkerJobs ==
  ASSUME IInv, NEW w \in Workers, WorkerStep(w)
  PROVE  JobsStep
  <1>1. ASSUME UNCHANGED jobs PROVE JobsStep
    BY <1>1, SameJobs DEF IInv
  <1>2. CASE Reread(w) \/ Load(w) \/ ReadFailure(w) \/ Republish(w) \/ ReadCursor(w)
    BY <1>1, <1>2 DEF Reread, Load, ReadFailure, Republish, ReadCursor
  <1>3. CASE EnsureChild(w) \/ ClaimChild(w) \/ LookChild(w) \/ DispatchChild(w)
    BY <1>1, <1>3 DEF EnsureChild, ClaimChild, LookChild, DispatchChild
  <1>4. CASE DispatchChildFails(w) \/ ReadChildFailure(w) \/ MarkChildRetry(w)
    BY <1>1, <1>4 DEF DispatchChildFails, ReadChildFailure, MarkChildRetry
  <1>5. CASE PublishFinalizer(w) \/ PublishFinalizerFails(w) \/ Collect(w)
    BY <1>1, <1>5 DEF PublishFinalizer, PublishFinalizerFails, Collect
  <1>6. CASE Checkpoint(w) \/ StoreDiscovery(w) \/ MarkRetry(w) \/ MarkExhausted(w)
             \/ MarkDead(w) \/ Conclude(w)
    BY <1>6, CheckpointJobs, StoreJobs, RecordJobs, MarkDeadJobs, ConcludeJobs
  <1> QED BY <1>2, <1>3, <1>4, <1>5, <1>6 DEF WorkerStep, RunStep

\* The steps of everybody but the workers; none of them touches a task.
Outside ==
    \/ \E j \in Jobs : RunProfile(j) \/ ApiStep(j)
    \/ \E j, k \in Jobs : RetryParent(j, k)
    \/ DeleteProfile \/ ChangeSchedule \/ SchedulerStep \/ SchedulerFails \/ FallsDue
    \/ Redrive \/ BrokerLoss
    \/ \E w \in Workers : Redeliver(w)
    \/ \E j \in Jobs : LeaseExpires(j) \/ RetryFallsDue(j)
    \/ \E j \in Jobs, i \in Items :
          \/ RestartChild(j, i) \/ ChildEnds(j, i) \/ ChildFails(j, i)
          \/ ChildElapses(j, i) \/ ChildIsLost(j, i)

LEMMA NextSplit ==
  ASSUME Next
  PROVE  \/ Outside
         \/ \E w \in Workers : \/ WorkerStep(w) \/ TaskDies(w)
                               \/ \E m \in msgs : StartRun(w, m) \/ StartFinalizer(w, m)
  BY DEF Next, Outside, Delivery

LEMMA OutsideJobs == ASSUME IInv, Outside PROVE JobsStep
  <1>1. ASSUME UNCHANGED jobs PROVE JobsStep
    BY <1>1, SameJobs DEF IInv
  <1>2. ASSUME NEW j \in Jobs, RunProfile(j) PROVE JobsStep
    BY <1>2, QueueJobs DEF RunProfile
  <1>3. ASSUME NEW j \in Jobs, NEW k \in Jobs, RetryParent(j, k) PROVE JobsStep
    BY <1>3, RetryJobs DEF RetryParent
  <1>4. ASSUME NEW j \in Jobs, ApiStep(j) PROVE JobsStep
    <2>1. CASE ApiPublish(j) \/ ApiPublishFails(j)
      BY <1>1, <2>1 DEF ApiPublish, ApiPublishFails
    <2>2. CASE ApiTerminalize(j)
      <3>1. CASE jobs[j].status \in {"queued", "processing"}
        <4> DEFINE row == [jobs[j] EXCEPT !.status = "failed"]
        <4>1. "failed" \in Terminal \ {"completed"} /\ jobs[j] \in ParentRow
          BY ParentType DEF Terminal, IInv
        <4>2. /\ row \in ParentRow /\ row.status = "failed" /\ row.page = jobs[j].page
              /\ row.claims = jobs[j].claims
          BY <4>1, StatusRow
        <4>3. jobs' = [jobs EXCEPT ![j] = row]
          BY <2>2, <3>1 DEF ApiTerminalize
        <4> HIDE DEF row
        <4> QED BY <3>1, <4>1, <4>2, <4>3, StatusJobs
      <3>2. CASE jobs[j].status \notin {"queued", "processing"}
        BY <1>1, <2>2, <3>2 DEF ApiTerminalize
      <3> QED BY <3>1, <3>2
    <2> QED BY <1>4, <2>1, <2>2 DEF ApiStep
  <1>5. CASE SchedulerStep
    BY <1>1, <1>5, QueueJobs
       DEF SchedulerStep, ListDue, ScheduleQueue, SchedulePublish, MarkScheduled
  <1>6. CASE DeleteProfile \/ ChangeSchedule \/ SchedulerFails \/ FallsDue \/ Redrive \/ BrokerLoss
    BY <1>1, <1>6 DEF DeleteProfile, ChangeSchedule, SchedulerFails, FallsDue, Redrive, BrokerLoss
  <1>7. ASSUME NEW w \in Workers, Redeliver(w) PROVE JobsStep
    BY <1>1, <1>7 DEF Redeliver
  <1>8. ASSUME NEW j \in Jobs, LeaseExpires(j) \/ RetryFallsDue(j) PROVE JobsStep
    BY <1>8, ElapsedJobs DEF LeaseExpires, RetryFallsDue
  <1>9. ASSUME NEW j \in Jobs, NEW i \in Items,
               \/ RestartChild(j, i) \/ ChildEnds(j, i) \/ ChildFails(j, i)
               \/ ChildElapses(j, i) \/ ChildIsLost(j, i)
        PROVE  JobsStep
    BY <1>1, <1>9 DEF RestartChild, ChildEnds, ChildFails, ChildElapses, ChildIsLost,
                      PipelineFrame
  <1> QED BY <1>2, <1>3, <1>4, <1>5, <1>6, <1>7, <1>8, <1>9 DEF Outside

LEMMA NextJobs == ASSUME IInv, Next PROVE JobsStep
  <1>1. ASSUME NEW w \in Workers, TaskDies(w) PROVE JobsStep
    BY <1>1, SameJobs DEF TaskDies, IInv
  <1>2. ASSUME NEW w \in Workers, NEW m \in msgs, StartFinalizer(w, m) PROVE JobsStep
    BY <1>2, SameJobs DEF StartFinalizer, IInv
  <1> QED BY <1>1, <1>2, NextSplit, WorkerJobs, OutsideJobs, StartRunJobs

-----------------------------------------------------------------------------
(* Children: an end is an end, and nobody but a parent under its claim      *)
(* creates one.                                                             *)

ChildrenStep ==
    /\ children' \in [Jobs -> [Items -> ChildRow]]
    /\ \A j \in Jobs, i \in Items :
          children[j][i].status \in ChildTerminal =>
             children'[j][i].status = children[j][i].status

LEMMA ChildType ==
  ASSUME TypeOK, NEW j \in Jobs, NEW i \in Items
  PROVE  children[j][i] \in ChildRow
  BY DEF TypeOK

LEMMA SameChildren == ASSUME TypeOK, children' = children PROVE ChildrenStep
  BY DEF ChildrenStep, TypeOK

LEMMA SetChildEffect ==
  ASSUME TypeOK, NEW j \in Jobs, NEW i \in Items, NEW row \in ChildRow, SetChild(j, i, row)
  PROVE  /\ children' \in [Jobs -> [Items -> ChildRow]]
         /\ children'[j][i] = row
         /\ \A k \in Jobs, l \in Items : k # j \/ l # i => children'[k][l] = children[k][l]
  BY DEF SetChild, TypeOK

LEMMA OneChild ==
  ASSUME TypeOK, NEW j \in Jobs, NEW i \in Items, NEW row \in ChildRow, SetChild(j, i, row),
         children[j][i].status \notin ChildTerminal
  PROVE  ChildrenStep
  <1>1. /\ children' \in [Jobs -> [Items -> ChildRow]]
        /\ \A k \in Jobs, l \in Items : k # j \/ l # i => children'[k][l] = children[k][l]
    BY SetChildEffect
  <1> QED BY <1>1 DEF ChildrenStep

LEMMA ClaimedChildType ==
  ASSUME NEW c \in ChildRow, NEW w \in Workers \cup {NoWorker}
  PROVE  ClaimedChild(c, w) \in ChildRow
         /\ [ClaimedChild(c, w) EXCEPT !.sent = TRUE] \in ChildRow
  BY DEF ClaimedChild, ChildRow, ChildActive

LEMMA ChildStatusType ==
  ASSUME NEW c \in ChildRow, NEW status \in ChildActive \cup ChildTerminal
  PROVE  /\ [c EXCEPT !.status = status] \in ChildRow
         /\ [c EXCEPT !.status = status, !.elapsed = FALSE, !.sent = FALSE] \in ChildRow
         /\ [c EXCEPT !.status = status, !.claimer = NoWorker, !.sent = FALSE] \in ChildRow
  BY DEF ChildRow

\* The pipeline of the children.
LEMMA PipelineChildren ==
  ASSUME TypeOK, NEW j \in Jobs, NEW i \in Items,
         \/ RestartChild(j, i) \/ ChildEnds(j, i) \/ ChildFails(j, i)
         \/ ChildElapses(j, i) \/ ChildIsLost(j, i)
  PROVE  ChildrenStep
  <1>1. children[j][i] \in ChildRow
    BY ChildType
  <1>2. CASE RestartChild(j, i)
    <2>1. [ClaimedChild(children[j][i], NoWorker) EXCEPT !.sent = TRUE] \in ChildRow
      BY <1>1, ClaimedChildType
    <2>2. children[j][i].status \notin ChildTerminal
      BY <1>2 DEF RestartChild, Claimable, ChildTerminal
    <2> QED BY <1>2, <2>1, <2>2, OneChild DEF RestartChild
  <1>3. CASE ChildEnds(j, i)
    <2>1. PICK end \in ChildTerminal :
            SetChild(j, i, [children[j][i] EXCEPT !.status = end, !.claimer = NoWorker,
                                                  !.sent = FALSE])
      BY <1>3 DEF ChildEnds
    <2>2. children[j][i].status \notin ChildTerminal
      BY <1>3 DEF ChildEnds, ChildTerminal
    <2>3. [children[j][i] EXCEPT !.status = end, !.claimer = NoWorker, !.sent = FALSE] \in ChildRow
      BY <1>1, ChildStatusType
    <2> QED BY <2>1, <2>2, <2>3, OneChild
  <1>4. CASE ChildFails(j, i)
    <2>1. [children[j][i] EXCEPT !.status = "retry", !.elapsed = FALSE, !.sent = FALSE] \in ChildRow
      BY <1>1, ChildStatusType DEF ChildActive
    <2>2. children[j][i].status \notin ChildTerminal
      BY <1>4 DEF ChildFails, ChildTerminal
    <2> QED BY <1>4, <2>1, <2>2, OneChild DEF ChildFails
  <1>5. CASE ChildElapses(j, i)
    <2>1. [children[j][i] EXCEPT !.elapsed = TRUE] \in ChildRow
      BY <1>1 DEF ChildRow
    <2>2. children[j][i].status \notin ChildTerminal
      BY <1>5 DEF ChildElapses, ChildTerminal
    <2> QED BY <1>5, <2>1, <2>2, OneChild DEF ChildElapses
  <1>6. CASE ChildIsLost(j, i)
    <2>1. PICK sent \in {children[j][i].sent, FALSE} :
            SetChild(j, i, [children[j][i] EXCEPT !.elapsed = TRUE, !.sent = sent])
      BY <1>6 DEF ChildIsLost
    <2>2. [children[j][i] EXCEPT !.elapsed = TRUE, !.sent = sent] \in ChildRow
      BY <1>1 DEF ChildRow
    <2>3. children[j][i].status \notin ChildTerminal
      BY <1>6 DEF ChildIsLost, ChildTerminal
    <2> QED BY <2>1, <2>2, <2>3, OneChild
  <1> QED BY <1>2, <1>3, <1>4, <1>5, <1>6

\* The place of a task in its page.
LEMMA InLoop ==
  ASSUME IInv, NEW w \in Workers, task[w].pc \in Loop \ {"publishFinalizer"}
  PROVE  /\ task[w].msg.job \in Jobs /\ task[w].item \in Items
         /\ children[task[w].msg.job][task[w].item] \in ChildRow
  <1>1. Owning(task[w])
    BY DEF Owning, Loop
  <1>2. task[w].msg.job \in Jobs /\ task[w].item \in Items
    BY <1>1, Working DEF Remembers
  <1> QED BY <1>2, ChildType DEF IInv

LEMMA EnsureChildren ==
  ASSUME IInv, NEW w \in Workers, EnsureChild(w)
  PROVE  ChildrenStep
  <1> DEFINE j == task[w].msg.job
             i == task[w].item
             c == children[j][i]
  <1>1. j \in Jobs /\ i \in Items /\ c \in ChildRow
    BY InLoop DEF EnsureChild, Loop
  <1>2. \/ UNCHANGED children
        \/ c.status = "absent" /\ SetChild(j, i, [c EXCEPT !.status = "queued"])
    BY DEF EnsureChild
  <1>3. [c EXCEPT !.status = "queued"] \in ChildRow
    BY <1>1, ChildStatusType DEF ChildActive
  <1> QED BY <1>1, <1>2, <1>3, OneChild, SameChildren DEF IInv, ChildTerminal

LEMMA ClaimChildren ==
  ASSUME IInv, NEW w \in Workers, ClaimChild(w)
  PROVE  ChildrenStep
  <1> DEFINE j == task[w].msg.job
             i == task[w].item
             c == children[j][i]
  <1>1. j \in Jobs /\ i \in Items /\ c \in ChildRow
    BY InLoop DEF ClaimChild, Loop
  <1>2. \/ UNCHANGED children
        \/ Claimable(c) /\ SetChild(j, i, ClaimedChild(c, w))
    BY DEF ClaimChild
  <1>3. ClaimedChild(c, w) \in ChildRow
    BY <1>1, ClaimedChildType
  <1>4. Claimable(c) => c.status \notin ChildTerminal
    BY DEF Claimable, ChildTerminal
  <1> QED BY <1>1, <1>2, <1>3, <1>4, OneChild, SameChildren DEF IInv

LEMMA DispatchChildren ==
  ASSUME IInv, NEW w \in Workers, DispatchChild(w) \/ DispatchChildFails(w)
  PROVE  ChildrenStep
  <1> DEFINE j == task[w].msg.job
             i == task[w].item
             c == children[j][i]
  <1>1. j \in Jobs /\ i \in Items /\ c \in ChildRow
    BY InLoop DEF DispatchChild, DispatchChildFails, Loop
  <1>2. \/ UNCHANGED children
        \/ \E claimer \in {w, NoWorker} :
              /\ c.status = "processing"
              /\ SetChild(j, i, [c EXCEPT !.sent = TRUE, !.claimer = claimer])
    BY DEF DispatchChild, DispatchChildFails, Sent
  <1>3. \A claimer \in {w, NoWorker} : [c EXCEPT !.sent = TRUE, !.claimer = claimer] \in ChildRow
    BY <1>1 DEF ChildRow
  <1> QED BY <1>1, <1>2, <1>3, OneChild, SameChildren DEF IInv, ChildTerminal

LEMMA MarkChildren ==
  ASSUME IInv, NEW w \in Workers, MarkChildRetry(w)
  PROVE  ChildrenStep
  <1> DEFINE j == task[w].msg.job
             i == task[w].item
             c == children[j][i]
  <1>1. j \in Jobs /\ i \in Items /\ c \in ChildRow
    BY InLoop DEF MarkChildRetry, Loop
  <1>2. \/ UNCHANGED children
        \/ \E status \in {"retry", "failed"} :
              /\ c.status = "processing"
              /\ SetChild(j, i, [c EXCEPT !.status = status, !.elapsed = FALSE, !.sent = FALSE])
    BY DEF MarkChildRetry
  <1>3. \A status \in {"retry", "failed"} :
           [c EXCEPT !.status = status, !.elapsed = FALSE, !.sent = FALSE] \in ChildRow
    BY <1>1, ChildStatusType DEF ChildActive, ChildTerminal
  <1> QED BY <1>1, <1>2, <1>3, OneChild, SameChildren DEF IInv, ChildTerminal

LEMMA WorkerChildren ==
  ASSUME IInv, NEW w \in Workers, WorkerStep(w)
  PROVE  ChildrenStep
  <1>1. ASSUME UNCHANGED children PROVE ChildrenStep
    BY <1>1, SameChildren DEF IInv
  <1>2. CASE Reread(w) \/ Load(w) \/ ReadFailure(w) \/ Republish(w) \/ ReadCursor(w)
    BY <1>1, <1>2 DEF Reread, Load, ReadFailure, Republish, ReadCursor
  <1>3. CASE EnsureChild(w) \/ ClaimChild(w) \/ DispatchChild(w) \/ DispatchChildFails(w)
             \/ MarkChildRetry(w)
    BY <1>3, EnsureChildren, ClaimChildren, DispatchChildren, MarkChildren
  <1>4. CASE LookChild(w) \/ ReadChildFailure(w) \/ PublishFinalizer(w)
             \/ PublishFinalizerFails(w) \/ Collect(w)
    BY <1>1, <1>4 DEF LookChild, ReadChildFailure, PublishFinalizer, PublishFinalizerFails,
                      Collect
  <1>5. CASE Checkpoint(w) \/ StoreDiscovery(w) \/ MarkDead(w) \/ Conclude(w)
    BY <1>1, <1>5 DEF Checkpoint, StoreDiscovery, MarkDead, Conclude
  <1>6. CASE MarkRetry(w) \/ MarkExhausted(w)
    BY <1>1, <1>6 DEF MarkRetry, MarkExhausted, RecordFailure
  <1> QED BY <1>2, <1>3, <1>4, <1>5, <1>6 DEF WorkerStep, RunStep

LEMMA NextChildren == ASSUME IInv, Next PROVE ChildrenStep
  <1>1. ASSUME UNCHANGED children PROVE ChildrenStep
    BY <1>1, SameChildren DEF IInv
  <1>2. ASSUME NEW w \in Workers, TaskDies(w) PROVE ChildrenStep
    BY <1>1, <1>2 DEF TaskDies
  <1>3. ASSUME NEW w \in Workers, NEW m \in msgs, StartRun(w, m) \/ StartFinalizer(w, m)
        PROVE  ChildrenStep
    BY <1>1, <1>3 DEF StartRun, StartFinalizer, Deliver
  <1>4. CASE Outside
    <2>1. ASSUME NEW j \in Jobs, RunProfile(j) \/ ApiStep(j) PROVE ChildrenStep
      BY <1>1, <2>1 DEF RunProfile, ApiStep, ApiPublish, ApiPublishFails, ApiTerminalize
    <2>2. ASSUME NEW j \in Jobs, NEW k \in Jobs, RetryParent(j, k) PROVE ChildrenStep
      BY <1>1, <2>2 DEF RetryParent
    <2>3. CASE SchedulerStep
      BY <1>1, <2>3 DEF SchedulerStep, ListDue, ScheduleQueue, SchedulePublish, MarkScheduled
    <2>4. CASE DeleteProfile \/ ChangeSchedule \/ SchedulerFails \/ FallsDue \/ Redrive
               \/ BrokerLoss
      BY <1>1, <2>4 DEF DeleteProfile, ChangeSchedule, SchedulerFails, FallsDue, Redrive,
                        BrokerLoss
    <2>5. ASSUME NEW w \in Workers, Redeliver(w) PROVE ChildrenStep
      BY <1>1, <2>5 DEF Redeliver
    <2>6. ASSUME NEW j \in Jobs, LeaseExpires(j) \/ RetryFallsDue(j) PROVE ChildrenStep
      BY <1>1, <2>6 DEF LeaseExpires, RetryFallsDue
    <2>7. ASSUME NEW j \in Jobs, NEW i \in Items,
                 \/ RestartChild(j, i) \/ ChildEnds(j, i) \/ ChildFails(j, i)
                 \/ ChildElapses(j, i) \/ ChildIsLost(j, i)
          PROVE  ChildrenStep
      BY <2>7, PipelineChildren DEF IInv
    <2> QED BY <1>4, <2>1, <2>2, <2>3, <2>4, <2>5, <2>6, <2>7 DEF Outside
  <1> QED BY <1>2, <1>3, <1>4, NextSplit, WorkerChildren

-----------------------------------------------------------------------------
(* The profile. *)

ProfileRow == [kind : Kinds, cursor : Pages, due : BOOLEAN, deleted : BOOLEAN]

\* The task u, which holds the claim of the latest parent, ends that parent.
Ends(u) ==
    /\ task[u].pc \in {"conclude", "store"}
    /\ Held(task[u].msg.job, task[u].claim) /\ Latest(task[u].msg.job)
    /\ jobs'[task[u].msg.job].status \in Terminal

\* The cursor moves with the end of the latest parent, and behind settled
\* pages.
ProfileStep ==
    /\ profile' \in ProfileRow
    /\ profile'.kind = profile.kind
    /\ profile.deleted => profile'.deleted
    /\ \/ profile'.cursor = profile.cursor
       \/ /\ \E u \in Workers : Ends(u)
          /\ \/ Before(profile'.cursor)
             \/ \E p \in Pages : /\ Before(p) /\ profile'.cursor = NextPage(p)
                                 /\ \E j \in Jobs : /\ jobs'[j].page = p
                                                    /\ jobs'[j].status = "completed"
                                 /\ profile.kind = "direct"

LEMMA ProfileType == ASSUME TypeOK PROVE profile \in ProfileRow
  BY DEF TypeOK, ProfileRow

LEMMA SameProfile == ASSUME TypeOK, UNCHANGED profile PROVE ProfileStep
  BY ProfileType DEF ProfileStep

LEMMA PlainProfile ==
  ASSUME TypeOK, NEW due \in BOOLEAN,
         \/ profile' = [profile EXCEPT !.due = due]
         \/ profile' = [profile EXCEPT !.deleted = TRUE]
  PROVE  ProfileStep
  BY ProfileType DEF ProfileStep, ProfileRow

LEMMA StatusEffect ==
  ASSUME TypeOK, NEW j \in Jobs, NEW status, NEW page,
         jobs' = [jobs EXCEPT ![j].status = status]
         \/ jobs' = [jobs EXCEPT ![j].status = status, ![j].page = page]
  PROVE  jobs'[j].status = status
  BY ParentType DEF TypeOK, ParentRow

LEMMA CursorEffect ==
  ASSUME TypeOK, NEW p \in Pages, profile' = [profile EXCEPT !.cursor = p]
  PROVE  /\ profile' \in ProfileRow /\ profile'.kind = profile.kind /\ profile'.cursor = p
         /\ profile'.deleted = profile.deleted
  BY ProfileType DEF ProfileRow

LEMMA ConcludeProfile ==
  ASSUME IInv, NEW w \in Workers, Conclude(w)
  PROVE  ProfileStep
  <1> DEFINE t == task[w]
             j == t.msg.job
  <1>1. t.pc = "conclude"
    BY DEF Conclude
  <1>2. j \in Jobs /\ Remembers(t) /\ t \in Task
    BY <1>1, Working DEF Owning
  <1>3. t.end \in Terminal /\ Before(t.cursor) /\ t.cursor \in Pages
    BY <1>1, <1>2 DEF Remembers, Task
  <1>4. CASE UNCHANGED profile
    BY <1>4, SameProfile DEF IInv
  <1>5. CASE Held(j, t.claim) /\ Latest(j) /\ profile' = [profile EXCEPT !.cursor = t.cursor]
    <2>1. jobs'[j].status = t.end
      BY <1>2, <1>5, StatusEffect DEF Conclude, IInv
    <2>2. Ends(w)
      BY <1>1, <1>3, <1>5, <2>1 DEF Ends
    <2>3. /\ profile' \in ProfileRow /\ profile'.kind = profile.kind
          /\ profile'.cursor = t.cursor /\ profile'.deleted = profile.deleted
      BY <1>3, <1>5, CursorEffect DEF IInv
    <2> QED BY <1>3, <2>2, <2>3 DEF ProfileStep
  <1> QED BY <1>4, <1>5 DEF Conclude

LEMMA StoreProfile ==
  ASSUME IInv, NEW w \in Workers, StoreDiscovery(w)
  PROVE  ProfileStep
  <1> DEFINE t == task[w]
             j == t.msg.job
             p == t.page
  <1>1. t.pc = "store"
    BY DEF StoreDiscovery
  <1>2. j \in Jobs /\ Remembers(t)
    BY <1>1, Working DEF Owning
  <1>3. p \in Pages /\ Before(p) /\ profile.kind = "direct"
    BY <1>1, <1>2 DEF Remembers
  <1>4. CASE UNCHANGED profile
    BY <1>4, SameProfile DEF IInv
  <1>5. CASE Held(j, t.claim) /\ Latest(j) /\ profile' = [profile EXCEPT !.cursor = NextPage(p)]
    <2>1. jobs' = [jobs EXCEPT ![j].status = "completed", ![j].page = p]
      BY <1>5 DEF StoreDiscovery
    <2>2. jobs'[j].status = "completed" /\ jobs'[j].page = p
      BY <1>2, <2>1, ParentType DEF TypeOK, ParentRow, IInv
    <2>3. Ends(w)
      BY <1>1, <1>5, <2>2 DEF Ends, Terminal
    <2>4. /\ profile' \in ProfileRow /\ profile'.kind = profile.kind
          /\ profile'.cursor = NextPage(p) /\ profile'.deleted = profile.deleted
      BY <1>3, <1>5, NextPageType, CursorEffect DEF IInv
    <2> QED BY <1>2, <1>3, <2>2, <2>3, <2>4 DEF ProfileStep
  <1> QED BY <1>4, <1>5 DEF StoreDiscovery

LEMMA WorkerProfile ==
  ASSUME IInv, NEW w \in Workers, WorkerStep(w)
  PROVE  ProfileStep
  <1>1. ASSUME UNCHANGED profile PROVE ProfileStep
    BY <1>1, SameProfile DEF IInv
  <1>2. CASE Reread(w) \/ Load(w) \/ Checkpoint(w) \/ ReadFailure(w) \/ MarkDead(w)
             \/ Republish(w) \/ ReadCursor(w)
    BY <1>1, <1>2
       DEF Reread, Load, Checkpoint, ReadFailure, MarkDead, Republish, ReadCursor, TaskFrame
  <1>3. CASE EnsureChild(w) \/ ClaimChild(w) \/ LookChild(w) \/ DispatchChild(w)
             \/ DispatchChildFails(w)
    BY <1>1, <1>3
       DEF EnsureChild, ClaimChild, LookChild, DispatchChild, DispatchChildFails, TaskFrame
  <1>4. CASE ReadChildFailure(w) \/ MarkChildRetry(w) \/ PublishFinalizer(w)
             \/ PublishFinalizerFails(w) \/ Collect(w)
    BY <1>1, <1>4 DEF ReadChildFailure, MarkChildRetry, PublishFinalizer,
                      PublishFinalizerFails, Collect, TaskFrame
  <1>5. CASE MarkRetry(w) \/ MarkExhausted(w)
    BY <1>1, <1>5 DEF MarkRetry, MarkExhausted, RecordFailure, TaskFrame
  <1>6. CASE StoreDiscovery(w) \/ Conclude(w)
    BY <1>6, StoreProfile, ConcludeProfile
  <1> QED BY <1>2, <1>3, <1>4, <1>5, <1>6 DEF WorkerStep, RunStep

LEMMA OutsideProfile ==
  ASSUME IInv, Outside
  PROVE  ProfileStep /\ profile'.cursor = profile.cursor
  <1>1. ASSUME UNCHANGED profile PROVE ProfileStep /\ profile'.cursor = profile.cursor
    BY <1>1, SameProfile DEF IInv
  <1>2. ASSUME NEW due \in BOOLEAN,
               \/ profile' = [profile EXCEPT !.due = due]
               \/ profile' = [profile EXCEPT !.deleted = TRUE]
        PROVE  ProfileStep /\ profile'.cursor = profile.cursor
    <2>1. profile'.cursor = profile.cursor
      BY <1>2, ProfileType DEF ProfileRow, IInv
    <2> QED BY <1>2, <2>1, PlainProfile DEF IInv
  <1>3. ASSUME NEW j \in Jobs, RunProfile(j) \/ ApiStep(j)
        PROVE  ProfileStep /\ profile'.cursor = profile.cursor
    BY <1>1, <1>3 DEF RunProfile, ApiStep, ApiPublish, ApiPublishFails, ApiTerminalize
  <1>4. ASSUME NEW j \in Jobs, NEW k \in Jobs, RetryParent(j, k)
        PROVE  ProfileStep /\ profile'.cursor = profile.cursor
    BY <1>1, <1>4 DEF RetryParent
  <1>5. CASE DeleteProfile \/ ChangeSchedule \/ FallsDue \/ MarkScheduled
    BY <1>1, <1>2, <1>5 DEF DeleteProfile, ChangeSchedule, FallsDue, MarkScheduled
  <1>6. CASE ListDue \/ ScheduleQueue \/ SchedulePublish \/ SchedulerFails \/ Redrive
             \/ BrokerLoss
    BY <1>1, <1>6 DEF ListDue, ScheduleQueue, SchedulePublish, SchedulerFails, Redrive,
                      BrokerLoss
  <1>7. ASSUME NEW w \in Workers, Redeliver(w)
        PROVE  ProfileStep /\ profile'.cursor = profile.cursor
    BY <1>1, <1>7 DEF Redeliver
  <1>8. ASSUME NEW j \in Jobs, LeaseExpires(j) \/ RetryFallsDue(j)
        PROVE  ProfileStep /\ profile'.cursor = profile.cursor
    BY <1>1, <1>8 DEF LeaseExpires, RetryFallsDue
  <1>9. ASSUME NEW j \in Jobs, NEW i \in Items,
               \/ RestartChild(j, i) \/ ChildEnds(j, i) \/ ChildFails(j, i)
               \/ ChildElapses(j, i) \/ ChildIsLost(j, i)
        PROVE  ProfileStep /\ profile'.cursor = profile.cursor
    BY <1>1, <1>9 DEF RestartChild, ChildEnds, ChildFails, ChildElapses, ChildIsLost,
                      PipelineFrame
  <1> QED BY <1>3, <1>4, <1>5, <1>6, <1>7, <1>8, <1>9 DEF Outside, SchedulerStep

LEMMA NextProfile == ASSUME IInv, Next PROVE ProfileStep
  <1>1. ASSUME NEW w \in Workers, TaskDies(w) PROVE ProfileStep
    BY <1>1, SameProfile DEF TaskDies, IInv
  <1>2. ASSUME NEW w \in Workers, NEW m \in msgs, StartRun(w, m) \/ StartFinalizer(w, m)
        PROVE  ProfileStep
    BY <1>2, SameProfile DEF StartRun, StartFinalizer, Deliver, IInv
  <1> QED BY <1>1, <1>2, NextSplit, WorkerProfile, OutsideProfile

-----------------------------------------------------------------------------
(* What every step keeps. *)

Progress == JobsStep /\ ChildrenStep /\ ProfileStep

LEMMA NextProgress == ASSUME IInv, Next PROVE Progress
  BY NextJobs, NextChildren, NextProfile DEF Progress

LEMMA SameProgress == ASSUME TypeOK, UNCHANGED <<jobs, children, profile>> PROVE Progress
  BY SameJobs, SameChildren, SameProfile DEF Progress

LEMMA EndKept ==
  ASSUME Progress, NEW j \in Jobs, NEW i \in Items, children[j][i].status \in ChildTerminal
  PROVE  children'[j][i].status = children[j][i].status
  BY DEF Progress, ChildrenStep

LEMMA RowsKept == ASSUME Progress, NEW j \in Jobs PROVE RowKept(j)
  BY DEF Progress, JobsStep

\* What has been worked off stays so.
LEMMA SettledKept ==
  ASSUME Progress, NEW p \in Pages, Settled(p)
  PROVE  Settled(p)'
  <1>1. PICK j \in Jobs :
          /\ jobs[j].page = p
          /\ IF profile.kind = "direct" THEN jobs[j].status = "completed"
             ELSE \A i \in Items : children[j][i].status \in ChildTerminal
    BY DEF Settled
  <1>2. jobs'[j].page = p
    BY <1>1, RowsKept, PagesAreNat DEF RowKept
  <1>3. profile'.kind = profile.kind
    BY DEF Progress, ProfileStep
  <1>4. CASE profile.kind = "direct"
    BY <1>1, <1>2, <1>3, <1>4, RowsKept DEF RowKept, Settled
  <1>5. CASE profile.kind # "direct"
    <2>1. \A i \in Items : children'[j][i].status \in ChildTerminal
      BY <1>1, <1>5, EndKept
    <2> QED BY <1>2, <1>3, <1>5, <2>1 DEF Settled
  <1> QED BY <1>4, <1>5

LEMMA BeforeKept == ASSUME Progress, NEW p, Before(p) PROVE Before(p)'
  BY SettledKept DEF Before

LEMMA ClaimKept ==
  ASSUME IInv, Progress, NEW j \in Jobs, NEW c \in Nat, c <= jobs[j].claims
  PROVE  /\ c <= jobs'[j].claims
         /\ c = jobs'[j].claims => c = jobs[j].claims
         /\ Held(j, c)' => Held(j, c)
  <1>1. jobs'[j] \in ParentRow
    BY DEF Progress, JobsStep
  <1>2. jobs'[j].claims \in Nat /\ jobs[j].claims \in Nat /\ jobs'[j].claims >= jobs[j].claims
    BY <1>1, ParentType, RowsKept DEF ParentRow, RowKept, IInv
  <1>3. c <= jobs'[j].claims /\ (c = jobs'[j].claims => c = jobs[j].claims)
    BY <1>2
  <1>4. Held(j, c)' => Held(j, c)
    BY <1>3, RowsKept DEF RowKept, Held
  <1> QED BY <1>3, <1>4

LEMMA LatestKept == ASSUME Progress, NEW j \in Jobs, Latest(j)' PROVE Latest(j)
  BY RowsKept DEF RowKept, Latest

LEMMA OneLatest ==
  ASSUME NEW j \in Jobs, NEW k \in Jobs, Latest(j), Latest(k),
         jobs[j].status # "absent", jobs[k].status # "absent"
  PROVE  j = k
  <1>1. j \in Nat /\ k \in Nat /\ j <= k /\ k <= j
    BY JobsAssumption DEF Latest
  <1> QED BY <1>1

LEMMA PageKept ==
  ASSUME Progress, NEW j \in Jobs, jobs[j].page # NoPage
  PROVE  jobs'[j].page = jobs[j].page
  BY RowsKept DEF RowKept

LEMMA PublishedKept ==
  ASSUME IInv, Progress, NEW m \in Messages, Published(m)
  PROVE  Published(m)'
  <1>1. m.job \in Jobs /\ m.claim \in Nat
    BY DEF Messages
  <1>2. jobs[m.job].claims \in Nat /\ m.claim >= 1 /\ m.claim <= jobs[m.job].claims
        /\ jobs[m.job].page # NoPage
    BY <1>1, ParentType DEF Published, IInv
  <1>3. m.claim <= jobs'[m.job].claims /\ jobs'[m.job].page # NoPage
    BY <1>1, <1>2, ClaimKept, PageKept
  <1>4. jobs'[m.job].claims \in Nat
    BY <1>1 DEF Progress, JobsStep, ParentRow
  <1>5. m.claim \in 1 .. jobs'[m.job].claims
    BY <1>1, <1>2, <1>3, <1>4
  <1> QED BY <1>3, <1>5 DEF Published

LEMMA ParentKept ==
  ASSUME IInv, Progress, NEW j \in Jobs
  PROVE  ParentAgrees(j)'
  <1>1. ParentAgrees(j)
    BY DEF IInv
  <1>2. profile'.kind = profile.kind
    BY DEF Progress, ProfileStep
  <1>3. \A i \in Items : children[j][i].status = "completed" =>
                            children'[j][i].status = "completed"
    BY EndKept DEF ChildTerminal
  <1>4. \A p \in Pages : Before(p) => Before(p)'
    BY BeforeKept
  <1>5. PICK p \in Pages \cup {NoPage} : p = jobs'[j].page
    BY DEF Progress, JobsStep, ParentRow
  <1>6. /\ jobs'[j].status = "absent" => jobs'[j] = NoParent
        /\ p # NoPage =>
              /\ Before(p)
              /\ (profile.kind = "direct" => jobs'[j].status = "completed")
        /\ jobs'[j].status = "completed" /\ profile.kind # "direct" =>
              /\ p # NoPage
              /\ \A i \in Items : children[j][i].status = "completed"
    <2>1. CASE jobs'[j] = jobs[j]
      BY <1>1, <1>5, <2>1 DEF ParentAgrees
    <2>2. CASE RowAgrees(j)
      BY <1>5, <2>2 DEF RowAgrees
    <2> QED BY <2>1, <2>2 DEF Progress, JobsStep
  <1>7. p # NoPage => Before(p)'
    BY <1>4, <1>5, <1>6
  <1> QED BY <1>2, <1>3, <1>5, <1>6, <1>7 DEF ParentAgrees

LEMMA CursorKept == ASSUME IInv, Progress PROVE Before(profile.cursor)'
  <1>1. PICK c \in Pages : c = profile'.cursor
    BY DEF Progress, ProfileStep, ProfileRow
  <1>2. CASE Before(c)
    BY <1>1, <1>2, BeforeKept
  <1>3. ASSUME NEW p \in Pages, Before(p), c = NextPage(p), profile.kind = "direct",
               NEW j \in Jobs, jobs'[j].page = p, jobs'[j].status = "completed"
        PROVE  Before(c)'
    <2>1. profile'.kind = "direct"
      BY <1>3 DEF Progress, ProfileStep
    <2>2. Settled(p)'
      BY <1>3, <2>1 DEF Settled
    <2>3. \A q \in Pages : q < p => Settled(q)'
      BY <1>3, BeforeKept DEF Before
    <2>4. \A q \in Pages : q < c => q < p \/ q = p
      <3>1. p \in Nat /\ \A q \in Pages : q \in Nat
        BY PagesAreNat
      <3>2. c = 0 \/ c = p + 1
        BY <1>3 DEF NextPage
      <3> QED BY <3>1, <3>2
    <2>5. \A q \in Pages : q < c => Settled(q)'
      BY <2>2, <2>3, <2>4
    <2> QED BY <2>5 DEF Before
  <1>4. Before(profile.cursor)
    BY DEF IInv
  <1>5. Before(c)'
    BY <1>1, <1>2, <1>3, <1>4, BeforeKept DEF Progress, ProfileStep
  <1> QED BY <1>1, <1>5

-----------------------------------------------------------------------------
(* Messages. *)

\* A message that a step may publish.
Sound(m) == m \in Messages /\ (m.kind = "finalize" => Published(m))

LEMMA RunMsgSound == ASSUME NEW j \in Jobs PROVE Sound(RunMsg(j))
  BY DEF Sound, RunMsg, Messages

LEMMA WaitingSound == ASSUME IInv PROVE \A m \in msgs : Sound(m)
  BY DEF IInv, TypeOK, Sound

LEMMA DeliveredSound ==
  ASSUME IInv, NEW w \in Workers, task[w].pc # "idle"
  PROVE  Sound(task[w].msg)
  <1>1. Delivers(task[w])
    BY DEF IInv
  <1> QED BY <1>1 DEF Delivers, Owning, Finalizes, Sound

LEMMA FinalizerSound ==
  ASSUME IInv, NEW w \in Workers, task[w].pc = "publishFinalizer"
  PROVE  Sound(FinalizeMsg(task[w].msg.job, task[w].claim))
  <1>1. /\ task[w].msg.job \in Jobs /\ task[w].claim \in Nat
        /\ Delivers(task[w]) /\ Remembers(task[w])
    BY Working DEF Owning
  <1>2. jobs[task[w].msg.job].page # NoPage /\ task[w].claim \in 1 .. jobs[task[w].msg.job].claims
    BY <1>1 DEF Remembers, Delivers, Owning, Loop
  <1> QED BY <1>1, <1>2 DEF Sound, FinalizeMsg, Messages, Published

LEMMA WorkerMsgs ==
  ASSUME IInv, NEW w \in Workers, WorkerStep(w)
  PROVE  \A m \in msgs' : Sound(m)
  <1>1. ASSUME msgs' \subseteq msgs PROVE \A m \in msgs' : Sound(m)
    BY <1>1, WaitingSound
  <1>2. ASSUME msgs' \subseteq msgs \cup {task[w].msg}, task[w].pc # "idle"
        PROVE  \A m \in msgs' : Sound(m)
    BY <1>2, WaitingSound, DeliveredSound
  <1>3. CASE Reread(w)
    BY <1>2, <1>3 DEF Reread
  <1>4. CASE Republish(w)
    BY <1>2, <1>4 DEF Republish
  <1>5. CASE Collect(w)
    BY <1>2, <1>5 DEF Collect
  <1>6. CASE PublishFinalizer(w) \/ PublishFinalizerFails(w)
    BY <1>6, WaitingSound, FinalizerSound DEF PublishFinalizer, PublishFinalizerFails
  <1>7. CASE Load(w) \/ Checkpoint(w) \/ StoreDiscovery(w) \/ ReadFailure(w) \/ MarkDead(w)
             \/ ReadCursor(w) \/ Conclude(w)
    BY <1>1, <1>7
       DEF Load, Checkpoint, StoreDiscovery, ReadFailure, MarkDead, ReadCursor, Conclude
  <1>8. CASE EnsureChild(w) \/ ClaimChild(w) \/ LookChild(w) \/ DispatchChild(w)
             \/ DispatchChildFails(w) \/ ReadChildFailure(w) \/ MarkChildRetry(w)
    BY <1>1, <1>8 DEF EnsureChild, ClaimChild, LookChild, DispatchChild,
                      DispatchChildFails, ReadChildFailure, MarkChildRetry
  <1>9. CASE MarkRetry(w) \/ MarkExhausted(w)
    BY <1>1, <1>9 DEF MarkRetry, MarkExhausted, RecordFailure
  <1> QED BY <1>3, <1>4, <1>5, <1>6, <1>7, <1>8, <1>9 DEF WorkerStep, RunStep

LEMMA OutsideMsgs == ASSUME IInv, Outside PROVE \A m \in msgs' : Sound(m)
  <1>1. ASSUME msgs' \subseteq msgs PROVE \A m \in msgs' : Sound(m)
    BY <1>1, WaitingSound
  <1>2. ASSUME msgs' \subseteq msgs \cup {RunMsg(j) : j \in Jobs} PROVE \A m \in msgs' : Sound(m)
    BY <1>2, WaitingSound, RunMsgSound
  <1>3. ASSUME NEW j \in Jobs, RunProfile(j) \/ ApiTerminalize(j)
        PROVE  \A m \in msgs' : Sound(m)
    BY <1>1, <1>3 DEF RunProfile, ApiTerminalize
  <1>4. ASSUME NEW j \in Jobs, ApiPublish(j) \/ ApiPublishFails(j)
        PROVE  \A m \in msgs' : Sound(m)
    BY <1>2, <1>4 DEF ApiPublish, ApiPublishFails
  <1>5. ASSUME NEW j \in Jobs, NEW k \in Jobs, RetryParent(j, k)
        PROVE  \A m \in msgs' : Sound(m)
    BY <1>1, <1>5 DEF RetryParent
  <1>6. CASE DeleteProfile \/ ChangeSchedule \/ FallsDue \/ MarkScheduled \/ ListDue
             \/ ScheduleQueue \/ SchedulerFails \/ BrokerLoss
    BY <1>1, <1>6 DEF DeleteProfile, ChangeSchedule, FallsDue, MarkScheduled, ListDue,
                      ScheduleQueue, SchedulerFails, BrokerLoss
  <1>7. CASE SchedulePublish
    <2>1. scheduler.job \in Jobs
      BY <1>7 DEF SchedulePublish, IInv
    <2> QED BY <1>2, <1>7, <2>1 DEF SchedulePublish
  <1>8. CASE Redrive
    BY <1>2, <1>8 DEF Redrive
  <1>9. ASSUME NEW w \in Workers, Redeliver(w) PROVE \A m \in msgs' : Sound(m)
    BY <1>9, WaitingSound, DeliveredSound DEF Redeliver
  <1>10. ASSUME NEW j \in Jobs, LeaseExpires(j) \/ RetryFallsDue(j)
         PROVE  \A m \in msgs' : Sound(m)
    BY <1>1, <1>10 DEF LeaseExpires, RetryFallsDue
  <1>11. ASSUME NEW j \in Jobs, NEW i \in Items,
                \/ RestartChild(j, i) \/ ChildEnds(j, i) \/ ChildFails(j, i)
                \/ ChildElapses(j, i) \/ ChildIsLost(j, i)
         PROVE  \A m \in msgs' : Sound(m)
    BY <1>1, <1>11 DEF RestartChild, ChildEnds, ChildFails, ChildElapses, ChildIsLost,
                       PipelineFrame
  <1> QED BY <1>3, <1>4, <1>5, <1>6, <1>7, <1>8, <1>9, <1>10, <1>11
          DEF Outside, ApiStep, SchedulerStep

LEMMA NextMsgs ==
  ASSUME IInv, Next
  PROVE  /\ msgs' \in SUBSET Messages
         /\ (\A m \in msgs : m.kind = "finalize" => Published(m))'
  <1>1. ASSUME NEW w \in Workers, TaskDies(w) PROVE \A m \in msgs' : Sound(m)
    BY <1>1, WaitingSound, DeliveredSound DEF TaskDies
  <1>2. ASSUME NEW w \in Workers, NEW m \in msgs, StartRun(w, m) \/ StartFinalizer(w, m)
        PROVE  \A n \in msgs' : Sound(n)
    BY <1>2, WaitingSound DEF StartRun, StartFinalizer, Deliver
  <1>3. \A m \in msgs' : Sound(m)
    BY <1>1, <1>2, NextSplit, WorkerMsgs, OutsideMsgs
  <1>4. Progress
    BY NextProgress
  <1> QED BY <1>3, <1>4, PublishedKept DEF Sound

-----------------------------------------------------------------------------
(* The request handlers, the scheduler and the count of faults. *)

OthersOK ==
    /\ api \in [Jobs -> ApiPC]
    /\ scheduler \in [pc : SchedulerPC, job : Jobs \cup {NoJob}]
    /\ faults \in Nat
    /\ scheduler.pc = "publish" => scheduler.job \in Jobs

LEMMA FaultType ==
  ASSUME IInv
  PROVE  (Fault => faults' \in Nat) /\ (UNCHANGED faults => faults' \in Nat)
  BY DEF Fault, IInv, TypeOK

LEMMA SchedulerType ==
  ASSUME NEW label \in SchedulerPC, NEW j \in Jobs \cup {NoJob}, SchedulerGoto(label, j),
         label = "publish" => j \in Jobs
  PROVE  /\ scheduler' \in [pc : SchedulerPC, job : Jobs \cup {NoJob}]
         /\ scheduler'.pc = "publish" => scheduler'.job \in Jobs
  BY DEF SchedulerGoto

LEMMA NextOthers == ASSUME IInv, Next PROVE OthersOK'
  <1>1. OthersOK
    BY DEF IInv, TypeOK, OthersOK
  <1>2. ASSUME UNCHANGED api \/ \E j \in Jobs, pc \in ApiPC : api' = [api EXCEPT ![j] = pc],
               UNCHANGED scheduler, Fault \/ UNCHANGED faults
        PROVE  OthersOK'
    BY <1>1, <1>2, FaultType DEF OthersOK
  <1>3. ASSUME NEW w \in Workers, WorkerStep(w) PROVE OthersOK'
    <2>1. UNCHANGED <<api, scheduler>> /\ (Fault \/ UNCHANGED faults)
      <3>1. CASE Reread(w) \/ Load(w) \/ Checkpoint(w) \/ ReadFailure(w) \/ MarkDead(w)
                 \/ Republish(w) \/ ReadCursor(w) \/ Collect(w)
        BY <3>1 DEF Reread, Load, Checkpoint, ReadFailure, MarkDead, Republish, ReadCursor,
                    Collect, TaskFrame
      <3>2. CASE EnsureChild(w) \/ ClaimChild(w) \/ LookChild(w) \/ DispatchChild(w)
                 \/ ReadChildFailure(w) \/ MarkChildRetry(w) \/ PublishFinalizer(w)
        BY <3>2 DEF EnsureChild, ClaimChild, LookChild, DispatchChild, ReadChildFailure,
                    MarkChildRetry, PublishFinalizer, TaskFrame
      <3>3. CASE DispatchChildFails(w) \/ PublishFinalizerFails(w) \/ StoreDiscovery(w)
                 \/ Conclude(w)
        BY <3>3 DEF DispatchChildFails, PublishFinalizerFails, StoreDiscovery, Conclude
      <3>4. CASE MarkRetry(w) \/ MarkExhausted(w)
        BY <3>4 DEF MarkRetry, MarkExhausted, RecordFailure, TaskFrame
      <3> QED BY <1>3, <3>1, <3>2, <3>3, <3>4 DEF WorkerStep, RunStep
    <2> QED BY <1>2, <2>1
  <1>4. ASSUME NEW w \in Workers, TaskDies(w) \/ Redeliver(w) PROVE OthersOK'
    BY <1>2, <1>4 DEF TaskDies, Redeliver
  <1>5. ASSUME NEW w \in Workers, NEW m \in msgs, StartRun(w, m) \/ StartFinalizer(w, m)
        PROVE  OthersOK'
    BY <1>2, <1>5 DEF StartRun, StartFinalizer, Deliver
  <1>6. CASE Outside
    <2>1. ASSUME NEW j \in Jobs, RunProfile(j) \/ ApiStep(j) PROVE OthersOK'
      <3>1. {"none", "dispatch", "terminalize"} \subseteq ApiPC
        BY DEF ApiPC
      <3> QED BY <1>2, <2>1, <3>1
              DEF RunProfile, ApiStep, ApiPublish, ApiPublishFails, ApiTerminalize
    <2>2. ASSUME NEW j \in Jobs, NEW k \in Jobs, RetryParent(j, k) PROVE OthersOK'
      BY <1>2, <2>2 DEF RetryParent, ApiPC
    <2>3. ASSUME NEW label \in SchedulerPC, NEW j \in Jobs \cup {NoJob},
                 SchedulerGoto(label, j), label = "publish" => j \in Jobs,
                 UNCHANGED api, Fault \/ UNCHANGED faults
          PROVE  OthersOK'
      BY <1>1, <2>3, FaultType, SchedulerType DEF OthersOK
    <2>4. CASE SchedulerStep \/ SchedulerFails
      <3>1. {"idle", "queue", "publish", "mark"} \subseteq SchedulerPC
        BY DEF SchedulerPC
      <3> QED BY <2>3, <2>4, <3>1 DEF SchedulerStep, ListDue, ScheduleQueue,
                                      SchedulePublish, MarkScheduled, SchedulerFails
    <2>5. CASE DeleteProfile \/ ChangeSchedule \/ FallsDue \/ Redrive \/ BrokerLoss
      BY <1>2, <2>5 DEF DeleteProfile, ChangeSchedule, FallsDue, Redrive, BrokerLoss
    <2>6. ASSUME NEW j \in Jobs, LeaseExpires(j) \/ RetryFallsDue(j) PROVE OthersOK'
      BY <1>2, <2>6 DEF LeaseExpires, RetryFallsDue
    <2>7. ASSUME NEW j \in Jobs, NEW i \in Items,
                 \/ RestartChild(j, i) \/ ChildEnds(j, i) \/ ChildFails(j, i)
                 \/ ChildElapses(j, i) \/ ChildIsLost(j, i)
          PROVE  OthersOK'
      BY <1>2, <2>7 DEF RestartChild, ChildEnds, ChildFails, ChildElapses, ChildIsLost,
                        PipelineFrame
    <2> QED BY <1>4, <1>6, <2>1, <2>2, <2>4, <2>5, <2>6, <2>7 DEF Outside
  <1> QED BY <1>3, <1>4, <1>5, <1>6, NextSplit

-----------------------------------------------------------------------------
(* Tasks that do not move keep what they know. *)

\* Nobody but the task that holds the claim changes the page of its parent.
LEMMA PageStays ==
  ASSUME IInv, Progress, NEW v \in Workers, task'[v] = task[v], Owning(task[v]),
         ~Finalizes(task[v]), jobs'[task[v].msg.job].claims = task[v].claim
  PROVE  Current(task[v]) /\ jobs'[task[v].msg.job].page = jobs[task[v].msg.job].page
  <1> DEFINE j == task[v].msg.job
  <1>1. j \in Jobs /\ task[v].claim \in Nat /\ Delivers(task[v])
    BY Working
  <1>2. jobs[j].claims \in Nat /\ task[v].claim >= 1 /\ task[v].claim <= jobs[j].claims
    BY <1>1, ParentType DEF Delivers, IInv
  <1>3. task[v].claim = jobs[j].claims
    BY <1>1, <1>2, ClaimKept
  <1>4. jobs[j].status # "absent"
    BY <1>1, <1>2, NoParentType DEF IInv, ParentAgrees
  <1>5. ASSUME NEW u \in Workers, task[u].pc \in {"checkpoint", "store"},
               task'[u].pc # task[u].pc, task[u].msg.job = j, Held(j, task[u].claim)
        PROVE  FALSE
    <2>1. u # v
      BY <1>5
    <2>2. Owning(task[u]) /\ ~Finalizes(task[u])
      BY <1>5 DEF Owning, IInv, Delivers
    <2>3. task[u].claim = task[v].claim
      BY <1>3, <1>5 DEF Held
    <2> QED BY <1>5, <2>1, <2>2, <2>3 DEF IInv, ClaimsDiffer
  <1>6. jobs'[j].page = jobs[j].page
    BY <1>1, <1>4, <1>5 DEF Progress, JobsStep, Receives
  <1> QED BY <1>3, <1>6 DEF Current

\* The latest parent has one end: who still holds its claim has seen the cursor.
LEMMA CursorStays ==
  ASSUME IInv, Progress, NEW v \in Workers, Owning(task[v]),
         Held(task[v].msg.job, task[v].claim)', Latest(task[v].msg.job)',
         task'[v] = task[v]
  PROVE  /\ profile'.cursor = profile.cursor
         /\ Held(task[v].msg.job, task[v].claim) /\ Latest(task[v].msg.job)
  <1> DEFINE j == task[v].msg.job
  <1>1. j \in Jobs /\ task[v].claim \in Nat /\ Delivers(task[v])
    BY Working
  <1>2. task[v].claim <= jobs[j].claims
    BY <1>1, ParentType DEF Delivers, IInv
  <1>3. PICK c \in Nat : c = task[v].claim
    BY <1>1
  <1>4. PICK k \in Jobs : k = j
    BY <1>1
  <1>5. Held(k, c)' /\ Latest(k)'
    BY <1>3, <1>4 DEF Held, Latest
  <1>6. Held(k, c) /\ Latest(k)
    BY <1>2, <1>3, <1>4, <1>5, ClaimKept, LatestKept
  <1>7. ASSUME NEW u \in Workers, Ends(u) PROVE FALSE
    <2>1. task[u].msg.job \in Jobs
      BY <1>7, Working DEF Ends, Owning
    <2>2. jobs[k].status # "absent" /\ jobs[task[u].msg.job].status # "absent"
      BY <1>6, <1>7 DEF Ends, Held
    <2>3. task[u].msg.job = k
      BY <1>6, <1>7, <2>1, <2>2, OneLatest DEF Ends
    <2>4. jobs'[k].status = "processing"
      BY <1>5 DEF Held
    <2> QED BY <1>7, <2>3, <2>4 DEF Ends, Terminal
  <1>8. profile'.cursor = profile.cursor
    BY <1>7 DEF Progress, ProfileStep
  <1> QED BY <1>3, <1>4, <1>6, <1>8

LEMMA DeliversKept ==
  ASSUME IInv, Progress, NEW t \in Task, Delivers(t)
  PROVE  Delivers(t)'
  <1>1. CASE t.pc = "idle"
    BY <1>1 DEF Delivers, Owning
  <1>2. CASE t.pc # "idle"
    <2>1. t.msg \in Messages /\ t.msg.job \in Jobs /\ t.claim \in Nat
      BY <1>2 DEF Delivers, Messages, Task
    <2>2. ASSUME Owning(t) PROVE t.claim \in 1 .. jobs'[t.msg.job].claims
      <3>1. jobs[t.msg.job].claims \in Nat /\ t.claim >= 1 /\ t.claim <= jobs[t.msg.job].claims
        BY <2>1, <2>2, ParentType DEF Delivers, IInv
      <3>2. jobs'[t.msg.job].claims \in Nat
        BY <2>1 DEF Progress, JobsStep, ParentRow
      <3>3. t.claim <= jobs'[t.msg.job].claims
        BY <2>1, <3>1, ClaimKept
      <3> QED BY <2>1, <3>1, <3>2, <3>3
    <2>3. Published(t.msg) => Published(t.msg)'
      BY <2>1, PublishedKept
    <2> QED BY <2>1, <2>2, <2>3 DEF Delivers, Owning, Finalizes
  <1> QED BY <1>1, <1>2

LEMMA TaskKept ==
  ASSUME IInv, Progress, NEW v \in Workers, task'[v] = task[v]
  PROVE  Delivers(task[v])' /\ Remembers(task[v])'
  <1>1. PICK t \in Task : t = task[v]
    BY DEF IInv, TypeOK
  <1>2. Delivers(t) /\ Remembers(t)
    BY <1>1 DEF IInv
  <1>3. Delivers(t)'
    BY <1>2, DeliversKept
  <1>4. CASE ~Owning(t)
    BY <1>1, <1>3, <1>4 DEF Remembers, Owning, Loop
  <1>5. CASE Owning(t)
    <2> DEFINE j == t.msg.job
    <2>1. j \in Jobs
      BY <1>1, <1>5, Working
    <2>2. profile'.kind = profile.kind /\ (profile.deleted => profile'.deleted)
      BY DEF Progress, ProfileStep
    <2>3. /\ t.pc \in {"checkpoint", "store"} => t.page \in Pages /\ Before(t.page)'
          /\ t.pc = "checkpoint" => profile'.kind # "direct"
      BY <1>2, <2>2, BeforeKept DEF Remembers
    <2>4. t.pc = "store" => profile'.kind = "direct"
                            /\ (Current(t)' => jobs'[j].page = NoPage)
      BY <1>1, <1>2, <1>5, <2>2, PageStays DEF Remembers, Current, Delivers, Owning
    <2>5. /\ t.pc \in Loop => jobs'[j].page # NoPage
          /\ t.pc \in Loop \ {"publishFinalizer"} => t.item \in Items
      BY <1>2, <2>1, PageKept DEF Remembers
    <2>6. t.pc \in {"markRetry", "markExhausted"} /\ Current(t)' => t.page = jobs'[j].page
      BY <1>1, <1>2, <1>5, PageStays DEF Remembers, Current, Delivers, Owning
    <2>7. /\ t.pc \in {"readCursor", "conclude"} => t.end \in Terminal
          /\ t.pc \in {"readCursor", "conclude"} /\ t.end = "completed" =>
                Finalizes(t) /\ \A i \in Items : children'[j][i].status = "completed"
      BY <1>2, <2>1, EndKept DEF Remembers, ChildTerminal
    <2>8. t.pc = "conclude" => Before(t.cursor)'
      BY <1>2, BeforeKept DEF Remembers
    <2>9. /\ t.pc = "conclude" /\ ~Finalizes(t) /\ ~profile'.deleted
          /\ Held(j, t.claim)' /\ Latest(j)'
          => t.cursor = profile'.cursor
      <3>1. SUFFICES ASSUME t.pc = "conclude", ~Finalizes(t), ~profile'.deleted,
                            Held(j, t.claim)', Latest(j)'
                     PROVE  t.cursor = profile'.cursor
        OBVIOUS
      <3>2. Held(task[v].msg.job, task[v].claim)' /\ Latest(task[v].msg.job)'
        BY <1>1, <3>1 DEF Held, Latest
      <3>3. profile'.cursor = profile.cursor /\ Held(j, t.claim) /\ Latest(j)
        BY <1>1, <1>5, <3>2, CursorStays
      <3> QED BY <1>2, <2>2, <3>1, <3>3 DEF Remembers
    <2>10. Remembers(t)'
      BY <2>3, <2>4, <2>5, <2>6, <2>7, <2>8, <2>9 DEF Remembers, Finalizes
    <2> QED BY <1>1, <1>3, <2>10
  <1> QED BY <1>1, <1>3, <1>4, <1>5

-----------------------------------------------------------------------------
(* The task that moves. *)

TaskStep(w) ==
    /\ task' \in [Workers -> Task]
    /\ \A v \in Workers \ {w} : task'[v] = task[v]
    /\ Delivers(task[w])' /\ Remembers(task[w])'
    /\ Owning(task'[w]) /\ ~Finalizes(task'[w]) =>
          \/ /\ Owning(task[w]) /\ ~Finalizes(task[w])
             /\ task'[w].msg = task[w].msg /\ task'[w].claim = task[w].claim
          \/ task'[w].claim > jobs[task'[w].msg.job].claims

LEMMA TaskRow ==
  ASSUME TypeOK, NEW w \in Workers, NEW row \in Task, task' = [task EXCEPT ![w] = row]
  PROVE  /\ task' \in [Workers -> Task] /\ task'[w] = row
         /\ \A v \in Workers \ {w} : task'[v] = task[v]
  BY DEF TypeOK

LEMMA FinishTask == ASSUME TypeOK, NEW w \in Workers, Finish(w) PROVE TaskStep(w)
  <1>1. PICK t : t = NoTask
    OBVIOUS
  <1>2. t.pc = "idle" /\ task'[w] = t
    BY <1>1, NoTaskType, FinishEffect
  <1>3. Delivers(t)' /\ Remembers(t)' /\ ~Owning(t)
    BY <1>2 DEF Delivers, Remembers, Owning, Loop
  <1>4. Delivers(task[w])' /\ Remembers(task[w])' /\ ~Owning(task'[w])
    BY <1>2, <1>3
  <1> QED BY <1>4, FinishEffect DEF TaskStep

\* A run that goes on under its claim.
LEMMA RunRow ==
  ASSUME IInv, Progress, NEW w \in Workers, Owning(task[w]), ~Finalizes(task[w]),
         NEW row \in Task, task' = [task EXCEPT ![w] = row],
         row.msg = task[w].msg, row.claim = task[w].claim,
         row.pc \notin {"idle", "reread", "collect"},
         Remembers(row)'
  PROVE  TaskStep(w)
  <1>1. /\ task' \in [Workers -> Task] /\ task'[w] = row
        /\ \A v \in Workers \ {w} : task'[v] = task[v]
    BY TaskRow DEF IInv
  <1>2. /\ task[w].msg \in Messages /\ task[w].msg.job \in Jobs /\ task[w].claim \in Nat
        /\ Delivers(task[w])
    BY Working
  <1>3. row.claim \in 1 .. jobs'[row.msg.job].claims
    <2>1. /\ jobs[row.msg.job].claims \in Nat /\ row.claim >= 1
          /\ row.claim <= jobs[row.msg.job].claims
      BY <1>2, ParentType DEF Delivers, IInv
    <2>2. jobs'[row.msg.job].claims \in Nat
      BY <1>2 DEF Progress, JobsStep, ParentRow
    <2>3. row.claim <= jobs'[row.msg.job].claims
      BY <1>2, <2>1, ClaimKept
    <2> QED BY <1>2, <2>1, <2>2, <2>3
  <1>4. ~Finalizes(row) /\ row.msg \in Messages
    BY <1>2 DEF Finalizes
  <1>5. Delivers(row)'
    BY <1>3, <1>4 DEF Delivers, Owning, Finalizes
  <1>6. Delivers(task[w])' /\ Remembers(task[w])'
    BY <1>1, <1>5
  <1> QED BY <1>1, <1>6 DEF TaskStep

\* Places at which a run remembers nothing, or only its end.
LEMMA PlainTask ==
  ASSUME IInv, Progress, NEW w \in Workers, Owning(task[w]), ~Finalizes(task[w]),
         NEW row \in Task, task' = [task EXCEPT ![w] = row],
         row.msg = task[w].msg, row.claim = task[w].claim,
         \/ row.pc \in {"readFailure", "republish", "markDead"}
         \/ row.pc = "readCursor" /\ row.end \in Terminal \ {"completed"}
  PROVE  TaskStep(w)
  <1>1. Remembers(row)'
    BY DEF Remembers, Loop
  <1> QED BY <1>1, RunRow

LEMMA LoopTask ==
  ASSUME IInv, Progress, NEW w \in Workers, Owning(task[w]), ~Finalizes(task[w]),
         NEW row \in Task, task' = [task EXCEPT ![w] = row],
         row.msg = task[w].msg, row.claim = task[w].claim,
         row.pc \in Loop, row.pc # "publishFinalizer" => row.item \in Items,
         jobs'[task[w].msg.job].page # NoPage
  PROVE  TaskStep(w)
  <1>1. Remembers(row)'
    BY DEF Remembers, Loop
  <1>2. row.pc \notin {"idle", "reread", "collect"}
    BY DEF Loop
  <1> QED BY <1>1, <1>2, RunRow

LEMMA GotoRow ==
  ASSUME NEW t \in Task, NEW label \in TaskPC
  PROVE  LET row == [t EXCEPT !.pc = label]
         IN  /\ row \in Task /\ row.pc = label /\ row.msg = t.msg /\ row.claim = t.claim
             /\ row.item = t.item
  BY DEF Task

LEMMA GotoTask ==
  ASSUME IInv, Progress, NEW w \in Workers, Owning(task[w]), ~Finalizes(task[w]),
         NEW label \in {"readFailure", "republish", "markDead"}, Goto(w, label)
  PROVE  TaskStep(w)
  <1> DEFINE row == [task[w] EXCEPT !.pc = label]
  <1>1. label \in TaskPC /\ task[w] \in Task
    BY Working DEF TaskPC
  <1>2. /\ row \in Task /\ row.pc = label /\ row.msg = task[w].msg
        /\ row.claim = task[w].claim
    BY <1>1, GotoRow
  <1>3. task' = [task EXCEPT ![w] = row]
    BY DEF Goto
  <1> HIDE DEF row
  <1> QED BY <1>2, <1>3, PlainTask

LEMMA GotoLoop ==
  ASSUME IInv, Progress, NEW w \in Workers, task[w].pc \in Loop \ {"publishFinalizer"},
         NEW label \in Loop, Goto(w, label)
  PROVE  TaskStep(w)
  <1> DEFINE row == [task[w] EXCEPT !.pc = label]
  <1>1. Owning(task[w]) /\ task[w].pc \notin {"collect", "conclude"}
    BY DEF Owning, Loop
  <1>2. /\ label \in TaskPC /\ task[w] \in Task /\ task[w].msg.job \in Jobs
        /\ Remembers(task[w]) /\ ~Finalizes(task[w])
    BY <1>1, Working DEF TaskPC, Loop, Delivers
  <1>3. /\ row \in Task /\ row.pc = label /\ row.msg = task[w].msg
        /\ row.claim = task[w].claim /\ row.item = task[w].item
    BY <1>2, GotoRow
  <1>4. task' = [task EXCEPT ![w] = row]
    BY DEF Goto
  <1>5. row.item \in Items /\ jobs'[task[w].msg.job].page # NoPage
    BY <1>2, <1>3, PageKept DEF Remembers, Loop
  <1> HIDE DEF row
  <1> QED BY <1>1, <1>2, <1>3, <1>4, <1>5, LoopTask

LEMMA GiveUpTask ==
  ASSUME IInv, Progress, NEW w \in Workers, Owning(task[w]), ~Finalizes(task[w]),
         NEW status \in {"failed", "blocked"}, GiveUp(w, status)
  PROVE  TaskStep(w)
  <1> DEFINE row == [task[w] EXCEPT !.pc = "readCursor", !.end = status]
  <1>1. task[w] \in Task /\ status \in Terminal \ {"completed"}
    BY Working DEF Terminal
  <1>2. /\ row \in Task /\ row.pc = "readCursor" /\ row.end = status
        /\ row.msg = task[w].msg /\ row.claim = task[w].claim
    BY <1>1 DEF Task, TaskPC
  <1>3. task' = [task EXCEPT ![w] = row]
    BY DEF GiveUp
  <1> HIDE DEF row
  <1> QED BY <1>1, <1>2, <1>3, PlainTask

\* The next payload of the page, or the finalizer.
LEMMA NextItemTask ==
  ASSUME IInv, Progress, NEW w \in Workers, task[w].pc \in Loop \ {"publishFinalizer"},
         NextItem(w)
  PROVE  TaskStep(w)
  <1>1. Owning(task[w]) /\ task[w].pc \notin {"collect", "conclude"}
    BY DEF Owning, Loop
  <1>2. /\ task[w] \in Task /\ task[w].msg.job \in Jobs
        /\ Remembers(task[w]) /\ ~Finalizes(task[w])
    BY <1>1, Working DEF Delivers
  <1>3. task[w].item \in Items /\ jobs'[task[w].msg.job].page # NoPage
    BY <1>2, PageKept DEF Remembers, Loop
  <1>4. CASE task[w].item < PageSize
    <2> DEFINE row == [task[w] EXCEPT !.pc = "child", !.item = task[w].item + 1]
    <2>1. task[w].item + 1 \in Items
      BY <1>3, <1>4, BoundsAssumption DEF Items
    <2>2. /\ row \in Task /\ row.pc = "child" /\ row.item = task[w].item + 1
          /\ row.msg = task[w].msg /\ row.claim = task[w].claim
      BY <1>2, <2>1 DEF Task, TaskPC
    <2>3. task' = [task EXCEPT ![w] = row]
      BY <1>4 DEF NextItem
    <2> HIDE DEF row
    <2> QED BY <1>1, <1>2, <1>3, <2>1, <2>2, <2>3, LoopTask DEF Loop
  <1>5. CASE ~(task[w].item < PageSize)
    <2>1. Goto(w, "publishFinalizer")
      BY <1>5 DEF NextItem, Goto
    <2> QED BY <2>1, GotoLoop DEF Loop
  <1> QED BY <1>4, <1>5

\* The first payload, of a page that is in the parent's row.
LEMMA FirstItemTask ==
  ASSUME IInv, Progress, NEW w \in Workers, Owning(task[w]), ~Finalizes(task[w]),
         FirstItem(w), jobs'[task[w].msg.job].page # NoPage
  PROVE  TaskStep(w)
  <1>1. task[w] \in Task
    BY Working
  <1>2. CASE PageSize = 0
    <2> DEFINE row == [task[w] EXCEPT !.pc = "publishFinalizer", !.page = NoPage]
    <2>1. /\ row \in Task /\ row.pc = "publishFinalizer"
          /\ row.msg = task[w].msg /\ row.claim = task[w].claim
      BY <1>1 DEF Task, TaskPC
    <2>2. task' = [task EXCEPT ![w] = row]
      BY <1>2 DEF FirstItem
    <2> HIDE DEF row
    <2> QED BY <2>1, <2>2, LoopTask DEF Loop
  <1>3. CASE PageSize # 0
    <2> DEFINE row == [task[w] EXCEPT !.pc = "child", !.page = NoPage, !.item = 1]
    <2>1. 1 \in Items
      BY <1>3, BoundsAssumption DEF Items
    <2>2. /\ row \in Task /\ row.pc = "child" /\ row.item = 1
          /\ row.msg = task[w].msg /\ row.claim = task[w].claim
      BY <1>1, <2>1 DEF Task, TaskPC
    <2>3. task' = [task EXCEPT ![w] = row]
      BY <1>3 DEF FirstItem
    <2> HIDE DEF row
    <2> QED BY <2>1, <2>2, <2>3, LoopTask DEF Loop
  <1> QED BY <1>2, <1>3

\* A run at any place but the end is no finalizer.
LEMMA RunTask ==
  ASSUME IInv, NEW w \in Workers, task[w].pc \notin {"idle", "reread", "collect", "conclude"}
  PROVE  /\ Owning(task[w]) /\ ~Finalizes(task[w])
         /\ task[w] \in Task /\ task[w].msg.job \in Jobs
         /\ Delivers(task[w]) /\ Remembers(task[w])
  <1>1. Owning(task[w])
    BY DEF Owning
  <1> QED BY <1>1, Working DEF Delivers

LEMMA LoadTask ==
  ASSUME IInv, Progress, NEW w \in Workers, Load(w)
  PROVE  TaskStep(w)
  <1> DEFINE t == task[w]
             j == t.msg.job
             c == profile.cursor
  <1>1. t.pc = "load" /\ UNCHANGED <<jobs, profile>>
    BY DEF Load, TaskFrame
  <1>2. Owning(t) /\ ~Finalizes(t) /\ t \in Task /\ j \in Jobs
    BY <1>1, RunTask
  <1>3. CASE \E end \in {"failed", "blocked"} : GiveUp(w, end)
    BY <1>2, <1>3, GiveUpTask
  <1>4. CASE jobs[j].page # NoPage /\ FirstItem(w)
    BY <1>1, <1>2, <1>4, FirstItemTask
  <1>5. CASE Goto(w, "readFailure")
    BY <1>2, <1>5, GotoTask
  <1>6. ASSUME NEW fetched \in {"store", "checkpoint"}, jobs[j].page = NoPage,
               fetched = "store" <=> profile.kind = "direct",
               task' = [task EXCEPT ![w].pc = fetched, ![w].page = c]
        PROVE  TaskStep(w)
    <2> DEFINE row == [t EXCEPT !.pc = fetched, !.page = c]
    <2>1. c \in Pages /\ Before(c)
      BY ProfileType DEF IInv, ProfileRow
    <2>2. fetched \in TaskPC
      BY DEF TaskPC
    <2>3. /\ row \in Task /\ row.pc = fetched /\ row.page = c
          /\ row.msg = t.msg /\ row.claim = t.claim
      BY <1>2, <2>1, <2>2 DEF Task
    <2>4. task' = [task EXCEPT ![w] = row]
      BY <1>6
    <2> HIDE DEF row
    <2>5. PICK r \in Task : r = row
      BY <2>3
    <2>6. PICK p \in Pages : p = r.page /\ Before(p)
      BY <2>1, <2>3, <2>5
    <2>7. Before(p)'
      BY <2>6, BeforeKept
    <2>8. Remembers(r)'
      BY <1>1, <1>6, <2>3, <2>5, <2>6, <2>7 DEF Remembers, Loop
    <2> QED BY <1>2, <2>3, <2>4, <2>5, <2>8, RunRow
  <1> QED BY <1>3, <1>4, <1>5, <1>6 DEF Load, AskProvider

LEMMA CheckpointTask ==
  ASSUME IInv, Progress, NEW w \in Workers, Checkpoint(w)
  PROVE  TaskStep(w)
  <1> DEFINE j == task[w].msg.job
  <1>1. task[w].pc = "checkpoint"
    BY DEF Checkpoint
  <1>2. /\ Owning(task[w]) /\ ~Finalizes(task[w]) /\ j \in Jobs
        /\ Remembers(task[w])
    BY <1>1, RunTask
  <1>3. CASE Finish(w)
    BY <1>3, FinishTask DEF IInv
  <1>4. CASE FirstItem(w)
        /\ jobs' = [jobs EXCEPT ![j].page = IF @ = NoPage THEN task[w].page ELSE @]
    <2>1. jobs[j] \in ParentRow /\ task[w].page # NoPage
      BY <1>1, <1>2, ParentType, PagesAreNat DEF Remembers, IInv
    <2>2. jobs'[j].page = IF jobs[j].page = NoPage THEN task[w].page ELSE jobs[j].page
      BY <1>2, <1>4, <2>1 DEF IInv, TypeOK, ParentRow
    <2> QED BY <1>2, <1>4, <2>1, <2>2, FirstItemTask
  <1> QED BY <1>3, <1>4 DEF Checkpoint

LEMMA ReadFailureTask ==
  ASSUME IInv, Progress, NEW w \in Workers, ReadFailure(w)
  PROVE  TaskStep(w)
  <1> DEFINE t == task[w]
             r == jobs[t.msg.job]
  <1>1. t.pc = "readFailure" /\ UNCHANGED jobs
    BY DEF ReadFailure
  <1>2. Owning(t) /\ ~Finalizes(t) /\ t \in Task /\ t.msg.job \in Jobs
    BY <1>1, RunTask
  <1>3. CASE Finish(w)
    BY <1>3, FinishTask DEF IInv
  <1>4. ASSUME NEW label \in {"markRetry", "markExhausted"},
               task' = [task EXCEPT ![w].pc = label, ![w].seen = r.failures,
                                    ![w].page = r.page]
        PROVE  TaskStep(w)
    <2> DEFINE row == [t EXCEPT !.pc = label, !.seen = r.failures, !.page = r.page]
    <2>1. r.failures \in Nat /\ r.page \in Pages \cup {NoPage} /\ label \in TaskPC
      BY <1>2, ParentType DEF IInv, ParentRow, TaskPC
    <2>2. /\ row \in Task /\ row.pc = label /\ row.page = r.page
          /\ row.msg = t.msg /\ row.claim = t.claim
      BY <1>2, <2>1 DEF Task
    <2>3. task' = [task EXCEPT ![w] = row]
      BY <1>4
    <2> HIDE DEF row
    <2>4. PICK s \in Task : s = row
      BY <2>2
    <2>5. s.page = jobs'[s.msg.job].page
      BY <1>1, <2>2, <2>4
    <2>6. Remembers(s)'
      BY <1>4, <2>2, <2>4, <2>5 DEF Remembers, Loop
    <2> QED BY <1>2, <1>4, <2>2, <2>3, <2>4, <2>6, RunRow
  <1> QED BY <1>3, <1>4 DEF ReadFailure

LEMMA ReadCursorTask ==
  ASSUME IInv, Progress, NEW w \in Workers, ReadCursor(w)
  PROVE  TaskStep(w)
  <1> DEFINE t == task[w]
             c == IF profile.deleted THEN 0 ELSE profile.cursor
             row == [t EXCEPT !.pc = "conclude", !.cursor = c]
  <1>1. t.pc = "readCursor" /\ UNCHANGED <<jobs, profile>> /\ task' = [task EXCEPT ![w] = row]
    BY DEF ReadCursor, TaskFrame
  <1>2. Owning(t) /\ ~Finalizes(t) /\ t \in Task /\ Remembers(t)
    BY <1>1, RunTask
  <1>3. t.end \in Terminal \ {"completed"}
    BY <1>1, <1>2 DEF Remembers
  <1>4. c \in Pages /\ Before(c)
    <2>1. Before(0)
      BY PagesAreNat DEF Before
    <2> QED BY <2>1, PagesAreNat, ProfileType DEF IInv, ProfileRow
  <1>5. /\ row \in Task /\ row.pc = "conclude" /\ row.cursor = c /\ row.end = t.end
        /\ row.msg = t.msg /\ row.claim = t.claim
    BY <1>2, <1>4 DEF Task, TaskPC
  <1>6. ~profile.deleted => row.cursor = profile.cursor
    BY <1>5
  <1> HIDE DEF row, c
  <1>7. PICK s \in Task : s = row
    BY <1>5
  <1>8. PICK p \in Pages : p = s.cursor /\ Before(p)
    BY <1>4, <1>5, <1>7
  <1>9. Before(p)'
    BY <1>8, BeforeKept
  <1>10. Remembers(s)'
    BY <1>1, <1>3, <1>5, <1>6, <1>7, <1>8, <1>9 DEF Remembers, Loop
  <1> QED BY <1>1, <1>2, <1>5, <1>7, <1>10, RunRow

\* The children of a page that have all ended settle it.
LEMMA CollectTask ==
  ASSUME IInv, Progress, NEW w \in Workers, Collect(w)
  PROVE  TaskStep(w)
  <1> DEFINE t == task[w]
             j == t.msg.job
             statuses == {children[j][i].status : i \in Items}
             end == IF "failed" \in statuses THEN "failed" ELSE "completed"
             c == NextPage(jobs[j].page)
             row == [t EXCEPT !.pc = "conclude", !.end = end, !.cursor = c]
  <1>1. t.pc = "collect" /\ UNCHANGED <<jobs, children, profile>>
    BY DEF Collect, TaskFrame
  <1>2. Owning(t)
    BY <1>1 DEF Owning
  <1>3. t \in Task /\ t.msg \in Messages /\ j \in Jobs /\ Delivers(t)
    BY <1>2, Working
  <1>4. Finalizes(t) /\ t.msg.claim = t.claim /\ Published(t.msg)
        /\ t.claim \in 1 .. jobs[j].claims
    BY <1>1, <1>2, <1>3 DEF Delivers
  <1>5. CASE Finish(w)
    BY <1>5, FinishTask DEF IInv
  <1>6. CASE /\ Held(j, t.claim)
             /\ statuses \cap (ChildActive \cup {"absent"}) = {}
             /\ task' = [task EXCEPT ![w] = row]
    <2>1. jobs[j].page \in Pages /\ Before(jobs[j].page) /\ profile.kind # "direct"
      <3>1. jobs[j].page \in Pages /\ jobs[j].page # NoPage
        BY <1>3, <1>4, ParentType DEF IInv, Published
      <3>2. jobs[j].status = "processing" /\ ParentAgrees(j)
        BY <1>3, <1>6 DEF Held, IInv
      <3> QED BY <3>1, <3>2 DEF ParentAgrees
    <2>2. ASSUME NEW i \in Items
          PROVE  /\ children[j][i].status \in ChildTerminal
                 /\ end = "completed" => children[j][i].status = "completed"
      <3>1. children[j][i] \in ChildRow
        BY <1>3, ChildType DEF IInv
      <3>2. children[j][i].status \in ChildTerminal
        BY <1>6, <3>1 DEF ChildRow
      <3> QED BY <3>2 DEF ChildTerminal
    <2>3. Settled(jobs[j].page)
      BY <1>3, <2>1, <2>2 DEF Settled
    <2>4. c \in Pages /\ Before(c)
      <3>1. PICK p \in Pages : p = jobs[j].page
        BY <2>1
      <3>2. Before(p) /\ Settled(p)
        BY <2>1, <2>3, <3>1
      <3>3. p \in Nat /\ \A q \in Pages : q \in Nat
        BY PagesAreNat
      <3>4. NextPage(p) = 0 \/ NextPage(p) = p + 1
        BY DEF NextPage
      <3>5. \A q \in Pages : q < NextPage(p) => q < p \/ q = p
        BY <3>3, <3>4
      <3>6. Before(NextPage(p))
        BY <3>2, <3>5 DEF Before
      <3> QED BY <3>1, <3>6, NextPageType
    <2>5. end \in Terminal
      BY DEF Terminal
    <2> HIDE DEF end, c, statuses
    <2>6. /\ row \in Task /\ row.pc = "conclude" /\ row.end = end /\ row.cursor = c
          /\ row.msg = t.msg /\ row.claim = t.claim
      BY <1>3, <2>4, <2>5 DEF Task, TaskPC
    <2> HIDE DEF row
    <2>7. PICK s \in Task : s = row
      BY <2>6
    <2>8. PICK p \in Pages : p = s.cursor /\ Before(p)
      BY <2>4, <2>6, <2>7
    <2>9. Before(p)'
      BY <2>8, BeforeKept
    <2>10. Finalizes(s)
      BY <1>4, <2>6, <2>7 DEF Finalizes
    <2>11. Remembers(s)'
      BY <1>1, <2>2, <2>5, <2>6, <2>7, <2>8, <2>9, <2>10 DEF Remembers, Loop, Finalizes
    <2>12. Published(s.msg)'
      BY <1>3, <1>4, <2>6, <2>7, PublishedKept
    <2>13. Delivers(s)'
      BY <1>1, <1>3, <1>4, <2>6, <2>7, <2>10, <2>12 DEF Delivers, Owning, Finalizes
    <2>14. /\ task' \in [Workers -> Task] /\ task'[w] = s
           /\ \A v \in Workers \ {w} : task'[v] = task[v]
      BY <1>6, <2>7, TaskRow DEF IInv
    <2>15. Delivers(task[w])' /\ Remembers(task[w])'
      BY <2>11, <2>13, <2>14
    <2> QED BY <2>10, <2>14, <2>15 DEF TaskStep
  <1> QED BY <1>5, <1>6 DEF Collect

LEMMA WorkerTask ==
  ASSUME IInv, Progress, NEW w \in Workers, WorkerStep(w)
  PROVE  TaskStep(w)
  <1>1. ASSUME Finish(w) PROVE TaskStep(w)
    BY <1>1, FinishTask DEF IInv
  <1>2. CASE Reread(w) \/ StoreDiscovery(w) \/ MarkDead(w) \/ Republish(w) \/ Conclude(w)
             \/ PublishFinalizer(w)
    BY <1>1, <1>2
       DEF Reread, StoreDiscovery, MarkDead, Republish, Conclude, PublishFinalizer
  <1>3. CASE Load(w) \/ Checkpoint(w) \/ ReadFailure(w) \/ ReadCursor(w) \/ Collect(w)
    BY <1>3, LoadTask, CheckpointTask, ReadFailureTask, ReadCursorTask, CollectTask
  <1>4. ASSUME task[w].pc \notin {"idle", "reread", "collect", "conclude"},
               \/ \E label \in {"readFailure", "republish", "markDead"} : Goto(w, label)
               \/ \E status \in {"failed", "blocked"} : GiveUp(w, status)
        PROVE  TaskStep(w)
    BY <1>4, RunTask, GotoTask, GiveUpTask
  <1>5. ASSUME task[w].pc \in Loop \ {"publishFinalizer"},
               NextItem(w) \/ \E label \in Loop : Goto(w, label)
        PROVE  TaskStep(w)
    BY <1>5, NextItemTask, GotoLoop
  <1>6. CASE EnsureChild(w)
    <2>1. /\ task[w].pc = "child"
          /\ \/ NextItem(w) \/ GiveUp(w, "failed") \/ Goto(w, "claimChild") \/ Finish(w)
      BY <1>6, Zenon DEF EnsureChild
    <2> QED BY <1>1, <1>4, <1>5, <2>1 DEF Loop
  <1>7. CASE ClaimChild(w)
    BY <1>5, <1>7 DEF ClaimChild, Loop
  <1>8. CASE LookChild(w)
    BY <1>4, <1>5, <1>8 DEF LookChild, Loop
  <1>9. CASE DispatchChild(w) \/ DispatchChildFails(w)
    BY <1>5, <1>9 DEF DispatchChild, DispatchChildFails, Loop
  <1>10. CASE ReadChildFailure(w)
    <2>1. /\ task[w].pc = "readChildFailure"
          /\ \/ Goto(w, "markChildRetry") \/ Goto(w, "readFailure") \/ GiveUp(w, "failed")
      BY <1>10, Zenon DEF ReadChildFailure
    <2> QED BY <1>4, <1>5, <2>1 DEF Loop
  <1>11. CASE MarkChildRetry(w)
    BY <1>4, <1>11 DEF MarkChildRetry
  <1>12. CASE PublishFinalizerFails(w)
    BY <1>4, <1>12 DEF PublishFinalizerFails
  <1>13. CASE MarkRetry(w) \/ MarkExhausted(w)
    BY <1>1, <1>4, <1>13 DEF MarkRetry, MarkExhausted, RecordFailure
  <1> QED BY <1>2, <1>3, <1>6, <1>7, <1>8, <1>9, <1>10, <1>11, <1>12, <1>13
          DEF WorkerStep, RunStep

LEMMA SameTask ==
  ASSUME IInv, Progress, NEW w \in Workers, UNCHANGED task
  PROVE  TaskStep(w)
  <1>1. Delivers(task[w])' /\ Remembers(task[w])'
    BY TaskKept
  <1>2. Owning(task'[w]) /\ ~Finalizes(task'[w]) =>
          /\ Owning(task[w]) /\ ~Finalizes(task[w])
          /\ task'[w].msg = task[w].msg /\ task'[w].claim = task[w].claim
    OBVIOUS
  <1> QED BY <1>1, <1>2 DEF TaskStep, IInv, TypeOK

\* A claim is one more than all that were made.
LEMMA StartRunTask ==
  ASSUME IInv, Progress, NEW w \in Workers, NEW m \in msgs, StartRun(w, m)
  PROVE  TaskStep(w)
  <1> DEFINE j == m.job
             claim == jobs[j].claims + 1
  <1>1. m \in Messages /\ m.kind = "run" /\ j \in Jobs
    BY DEF StartRun, IInv, TypeOK, Messages
  <1>2. jobs[j] \in ParentRow /\ jobs[j].claims \in Nat
    BY <1>1, ParentType DEF IInv
  <1>3. CASE UNCHANGED task
    BY <1>3, SameTask
  <1>4. CASE task' = [task EXCEPT ![w] = [NoTask EXCEPT !.pc = "reread", !.msg = m]]
    <2> DEFINE row == [NoTask EXCEPT !.pc = "reread", !.msg = m]
    <2>1. row \in Task /\ row.pc = "reread" /\ row.msg = m
      BY <1>1, NoTaskType DEF Task, TaskPC
    <2> HIDE DEF row
    <2>2. PICK s \in Task : s = row
      BY <2>1
    <2>3. Delivers(s)' /\ Remembers(s)' /\ ~Owning(s)
      BY <1>1, <2>1, <2>2 DEF Delivers, Remembers, Loop, Owning, Finalizes
    <2>4. /\ task' \in [Workers -> Task] /\ task'[w] = s
          /\ \A v \in Workers \ {w} : task'[v] = task[v]
      BY <1>4, <2>2, TaskRow DEF IInv, row
    <2>5. Delivers(task[w])' /\ Remembers(task[w])' /\ ~Owning(task'[w])
      BY <2>3, <2>4
    <2> QED BY <2>4, <2>5 DEF TaskStep
  <1>5. ASSUME NEW row \in Task, row.pc \in {"load", "readCursor"},
               row.pc = "readCursor" => row.end = "blocked",
               row.msg = m, row.claim = claim, task' = [task EXCEPT ![w] = row],
               jobs'[j].claims = claim
        PROVE  TaskStep(w)
    <2>1. Owning(row) /\ ~Finalizes(row)
      BY <1>1, <1>5 DEF Owning, Finalizes
    <2>2. row.claim \in 1 .. jobs'[row.msg.job].claims
      BY <1>2, <1>5
    <2>3. Delivers(row)'
      BY <1>1, <1>5, <2>1, <2>2 DEF Delivers, Owning, Finalizes
    <2>4. Remembers(row)'
      BY <1>5 DEF Remembers, Loop, Terminal
    <2>5. /\ task' \in [Workers -> Task] /\ task'[w] = row
          /\ \A v \in Workers \ {w} : task'[v] = task[v]
      BY <1>5, TaskRow DEF IInv
    <2>6. Delivers(task[w])' /\ Remembers(task[w])'
      BY <2>3, <2>4, <2>5
    <2>7. row.claim > jobs[row.msg.job].claims
      BY <1>2, <1>5
    <2> QED BY <2>5, <2>6, <2>7 DEF TaskStep
  <1>6. CASE /\ jobs' = [jobs EXCEPT ![j].status = "processing", ![j].claims = @ + 1,
                                     ![j].elapsed = FALSE]
             /\ \/ task' = [task EXCEPT ![w] =
                      [NoTask EXCEPT !.pc = "load", !.msg = m, !.claim = claim]]
                \/ task' = [task EXCEPT ![w] =
                      [NoTask EXCEPT !.pc = "readCursor", !.msg = m, !.claim = claim,
                                     !.end = "blocked"]]
    <2>1. jobs'[j].claims = claim
      <3>1. PICK old \in ParentRow : old = jobs[j]
        BY <1>2
      <3>2. jobs'[j] = [old EXCEPT !.status = "processing", !.claims = @ + 1, !.elapsed = FALSE]
        BY <1>1, <1>6, <3>1 DEF IInv, TypeOK
      <3>3. jobs'[j].claims = old.claims + 1
        BY <3>2 DEF ParentRow
      <3> QED BY <3>1, <3>3
    <2>2. claim \in Nat
      BY <1>2
    <2> HIDE DEF claim
    <2> DEFINE load == [NoTask EXCEPT !.pc = "load", !.msg = m, !.claim = claim]
               stop == [NoTask EXCEPT !.pc = "readCursor", !.msg = m, !.claim = claim,
                                      !.end = "blocked"]
    <2>3. load \in Task /\ load.pc = "load" /\ load.msg = m /\ load.claim = claim
      BY <1>1, <2>2, NoTaskType DEF Task, TaskPC
    <2>4. /\ stop \in Task /\ stop.pc = "readCursor" /\ stop.end = "blocked"
          /\ stop.msg = m /\ stop.claim = claim
      BY <1>1, <2>2, NoTaskType DEF Task, TaskPC, Terminal
    <2>5. task' = [task EXCEPT ![w] = load] \/ task' = [task EXCEPT ![w] = stop]
      BY <1>6
    <2> HIDE DEF load, stop, j
    <2>6. CASE task' = [task EXCEPT ![w] = load]
      BY <1>5, <2>1, <2>3, <2>6
    <2>7. CASE task' = [task EXCEPT ![w] = stop]
      BY <1>5, <2>1, <2>4, <2>7
    <2> QED BY <2>5, <2>6, <2>7
  <1> QED BY <1>3, <1>4, <1>6 DEF StartRun

LEMMA StartFinalizerTask ==
  ASSUME IInv, Progress, NEW w \in Workers, NEW m \in msgs, StartFinalizer(w, m)
  PROVE  TaskStep(w)
  <1> DEFINE row == [NoTask EXCEPT !.pc = "collect", !.msg = m, !.claim = m.claim]
  <1>1. m \in Messages /\ m.kind = "finalize" /\ m.job \in Jobs /\ m.claim \in Nat
    BY DEF StartFinalizer, IInv, TypeOK, Messages
  <1>2. Published(m)
    BY <1>1 DEF IInv
  <1>3. CASE UNCHANGED task
    BY <1>3, SameTask
  <1>4. CASE task' = [task EXCEPT ![w] = row] /\ UNCHANGED jobs
    <2>1. row \in Task /\ row.pc = "collect" /\ row.msg = m /\ row.claim = m.claim
      BY <1>1, NoTaskType DEF Task, TaskPC
    <2> HIDE DEF row
    <2>2. PICK s \in Task : s = row
      BY <2>1
    <2>3. Finalizes(s)
      BY <1>1, <2>1, <2>2 DEF Finalizes
    <2>4. Published(s.msg)' /\ s.claim \in 1 .. jobs[s.msg.job].claims
      BY <1>1, <1>2, <2>1, <2>2, PublishedKept DEF Published
    <2>5. Delivers(s)' /\ Remembers(s)'
      BY <1>1, <1>4, <2>1, <2>2, <2>3, <2>4
         DEF Delivers, Remembers, Loop, Owning, Finalizes
    <2>6. /\ task' \in [Workers -> Task] /\ task'[w] = s
          /\ \A v \in Workers \ {w} : task'[v] = task[v]
      BY <1>4, <2>2, TaskRow DEF IInv
    <2>7. Delivers(task[w])' /\ Remembers(task[w])' /\ Finalizes(task'[w])
      BY <2>3, <2>5, <2>6
    <2> QED BY <2>6, <2>7 DEF TaskStep
  <1> QED BY <1>3, <1>4 DEF StartFinalizer

-----------------------------------------------------------------------------
(* The invariant is inductive. *)

TasksAgree ==
    /\ task \in [Workers -> Task]
    /\ \A w \in Workers : Delivers(task[w]) /\ Remembers(task[w])
    /\ \A w, v \in Workers : w # v => ClaimsDiffer(task[w], task[v])

LEMMA MovedClaim ==
  ASSUME IInv, NEW w \in Workers, TaskStep(w), NEW v \in Workers \ {w},
         Owning(task'[w]), Owning(task[v]), ~Finalizes(task'[w]), ~Finalizes(task[v]),
         task'[w].msg.job = task[v].msg.job
  PROVE  task'[w].claim # task[v].claim
  <1>1. CASE /\ Owning(task[w]) /\ ~Finalizes(task[w])
             /\ task'[w].msg = task[w].msg /\ task'[w].claim = task[w].claim
    BY <1>1 DEF IInv, ClaimsDiffer
  <1>2. CASE task'[w].claim > jobs[task'[w].msg.job].claims
    <2>1. task[v].msg.job \in Jobs /\ task[v].claim \in Nat /\ Delivers(task[v])
      BY Working
    <2>2. jobs[task[v].msg.job].claims \in Nat /\ task[v].claim <= jobs[task[v].msg.job].claims
      BY <2>1, ParentType DEF IInv, Delivers
    <2>3. PICK c : c = task'[w].claim
      OBVIOUS
    <2>4. c > jobs[task[v].msg.job].claims
      BY <1>2, <2>3
    <2>5. c # task[v].claim
      BY <2>1, <2>2, <2>4
    <2> QED BY <2>3, <2>5
  <1> QED BY <1>1, <1>2 DEF TaskStep

LEMMA StepAgrees ==
  ASSUME IInv, Progress, NEW w \in Workers, TaskStep(w)
  PROVE  TasksAgree'
  <1>1. ASSUME NEW v \in Workers PROVE Delivers(task[v])' /\ Remembers(task[v])'
    BY TaskKept DEF TaskStep
  <1>2. ASSUME NEW u \in Workers, NEW v \in Workers, u # v
        PROVE  ClaimsDiffer(task[u], task[v])'
    <2> SUFFICES ASSUME Owning(task'[u]), Owning(task'[v]), ~Finalizes(task'[u]),
                        ~Finalizes(task'[v]), task'[u].msg.job = task'[v].msg.job
                 PROVE  task'[u].claim # task'[v].claim
      BY DEF ClaimsDiffer, Owning, Finalizes
    <2>1. \A t \in Workers \ {w} : task'[t] = task[t]
      BY DEF TaskStep
    <2>2. CASE u = w
      <3>1. task'[v] = task[v]
        BY <1>2, <2>1, <2>2
      <3> QED BY <1>2, <2>2, <3>1, MovedClaim
    <2>3. CASE v = w
      <3>1. task'[u] = task[u]
        BY <1>2, <2>1, <2>3
      <3> QED BY <1>2, <2>3, <3>1, MovedClaim
    <2>4. CASE u # w /\ v # w
      <3>1. task'[u] = task[u] /\ task'[v] = task[v]
        BY <2>1, <2>4
      <3> QED BY <1>2, <3>1 DEF IInv, ClaimsDiffer
    <2> QED BY <2>2, <2>3, <2>4
  <1>3. \A u, v \in Workers : u # v => ClaimsDiffer(task[u], task[v])'
    BY <1>2
  <1> QED BY <1>1, <1>3 DEF TaskStep, TasksAgree

LEMMA SameAgrees == ASSUME IInv, Progress, UNCHANGED task PROVE TasksAgree'
  <1>1. ASSUME NEW v \in Workers PROVE Delivers(task[v])' /\ Remembers(task[v])'
    BY TaskKept
  <1>2. \A u, v \in Workers : u # v => ClaimsDiffer(task[u], task[v])'
    BY DEF IInv, ClaimsDiffer, Owning, Finalizes
  <1> QED BY <1>1, <1>2 DEF TasksAgree, IInv, TypeOK

LEMMA OutsideTasks == ASSUME Outside PROVE UNCHANGED task
  <1>1. ASSUME NEW j \in Jobs, RunProfile(j) \/ ApiStep(j) PROVE UNCHANGED task
    BY <1>1 DEF RunProfile, ApiStep, ApiPublish, ApiPublishFails, ApiTerminalize
  <1>2. ASSUME NEW j \in Jobs, NEW k \in Jobs, RetryParent(j, k) PROVE UNCHANGED task
    BY <1>2 DEF RetryParent
  <1>3. CASE SchedulerStep \/ SchedulerFails
    BY <1>3 DEF SchedulerStep, ListDue, ScheduleQueue, SchedulePublish, MarkScheduled,
                SchedulerFails
  <1>4. CASE DeleteProfile \/ ChangeSchedule \/ FallsDue \/ Redrive \/ BrokerLoss
    BY <1>4 DEF DeleteProfile, ChangeSchedule, FallsDue, Redrive, BrokerLoss
  <1>5. ASSUME NEW w \in Workers, Redeliver(w) PROVE UNCHANGED task
    BY <1>5 DEF Redeliver
  <1>6. ASSUME NEW j \in Jobs, LeaseExpires(j) \/ RetryFallsDue(j) PROVE UNCHANGED task
    BY <1>6 DEF LeaseExpires, RetryFallsDue
  <1>7. ASSUME NEW j \in Jobs, NEW i \in Items,
               \/ RestartChild(j, i) \/ ChildEnds(j, i) \/ ChildFails(j, i)
               \/ ChildElapses(j, i) \/ ChildIsLost(j, i)
        PROVE  UNCHANGED task
    BY <1>7 DEF RestartChild, ChildEnds, ChildFails, ChildElapses, ChildIsLost, PipelineFrame
  <1> QED BY <1>1, <1>2, <1>3, <1>4, <1>5, <1>6, <1>7 DEF Outside

LEMMA NextTasks == ASSUME IInv, Next PROVE TasksAgree'
  <1>1. Progress
    BY NextProgress
  <1>2. CASE Outside
    BY <1>1, <1>2, OutsideTasks, SameAgrees
  <1>3. ASSUME NEW w \in Workers, WorkerStep(w) PROVE TasksAgree'
    BY <1>1, <1>3, WorkerTask, StepAgrees
  <1>4. ASSUME NEW w \in Workers, TaskDies(w) PROVE TasksAgree'
    BY <1>1, <1>4, FinishTask, StepAgrees DEF TaskDies, IInv
  <1>5. ASSUME NEW w \in Workers, NEW m \in msgs, StartRun(w, m) \/ StartFinalizer(w, m)
        PROVE  TasksAgree'
    BY <1>1, <1>5, StartRunTask, StartFinalizerTask, StepAgrees
  <1> QED BY <1>2, <1>3, <1>4, <1>5, NextSplit

LEMMA NextIInv == ASSUME IInv, Next PROVE IInv'
  <1>1. Progress
    BY NextProgress
  <1>2. OthersOK' /\ TasksAgree'
    BY NextOthers, NextTasks
  <1>3. msgs' \in SUBSET Messages /\ (\A m \in msgs : m.kind = "finalize" => Published(m))'
    BY NextMsgs
  <1>4. TypeOK'
    BY <1>1, <1>2, <1>3
       DEF TypeOK, Progress, JobsStep, ChildrenStep, ProfileStep, ProfileRow, OthersOK,
           TasksAgree
  <1>5. Before(profile.cursor)' /\ \A j \in Jobs : ParentAgrees(j)'
    BY <1>1, CursorKept, ParentKept
  <1> QED BY <1>2, <1>3, <1>4, <1>5 DEF IInv, OthersOK, TasksAgree

LEMMA Stutter == ASSUME IInv, UNCHANGED vars PROVE IInv'
  <1> USE DEF vars
  <1>1. Progress
    BY SameProgress DEF IInv
  <1>2. TasksAgree'
    BY <1>1, SameAgrees
  <1>3. TypeOK'
    BY DEF IInv, TypeOK
  <1>4. Before(profile.cursor)' /\ \A j \in Jobs : ParentAgrees(j)'
    BY <1>1, CursorKept, ParentKept
  <1>5. (\A m \in msgs : m.kind = "finalize" => Published(m))'
    BY DEF IInv, Published
  <1>6. (scheduler.pc = "publish" => scheduler.job \in Jobs)'
    BY DEF IInv
  <1> QED BY <1>2, <1>3, <1>4, <1>5, <1>6 DEF IInv, TasksAgree

\* Everything the places of the code rely on holds in every reachable state.
THEOREM Inductive == Spec => []IInv
  <1>1. IInv /\ [Next]_vars => IInv'
    BY NextIInv, Stutter
  <1> QED BY InitIInv, <1>1, PTL DEF Spec

-----------------------------------------------------------------------------
(* What a reader asked for. *)

\* Every variable keeps the type of its table, queue or task.
THEOREM TypeCorrect == Spec => []TypeOK
  <1>1. IInv => TypeOK
    BY DEF IInv
  <1> QED BY Inductive, <1>1, PTL

\* The cursor never gets ahead of the work, whatever crashes, is retried or
\* runs twice (finalize_profile_job, complete_provider_discovery).
THEOREM PagesAreWorkedOff == Spec => []NoPageIsSkipped
  <1>1. IInv => NoPageIsSkipped
    BY DEF IInv, Before, NoPageIsSkipped
  <1> QED BY Inductive, <1>1, PTL

\* A parent is complete only when every payload of its page is
\* (finalize_youtube_profile, finalize_ftm_profile).
THEOREM CompletionIsEarned == Spec => []CompleteMeansChildren
  <1>1. IInv => CompleteMeansChildren
    BY KindsAssumption DEF IInv, ParentAgrees, CompleteMeansChildren
  <1> QED BY Inductive, <1>1, PTL

\* A received page is neither replaced nor erased, by a second fetch or by
\* what a failing task writes back (checkpoint_profile_page, _record_retry).
THEOREM CheckpointStays == Spec => CheckpointIsKept
  <1>1. ASSUME IInv, [Next]_vars
        PROVE  \A j \in Jobs : jobs[j].page # NoPage => jobs'[j].page = jobs[j].page
    <2>1. CASE Next
      BY <1>1, <2>1, NextProgress, PageKept
    <2>2. CASE UNCHANGED vars
      BY <2>2 DEF vars
    <2> QED BY <1>1, <2>1, <2>2
  <1> QED BY Inductive, <1>1, PTL DEF Spec, CheckpointIsKept

\* Only its own worker moves a task.
LEMMA OwnStep ==
  ASSUME IInv, Next, NEW w \in Workers, task'[w] # task[w]
  PROVE  \/ WorkerStep(w) \/ TaskDies(w)
         \/ \E m \in msgs : StartRun(w, m) \/ StartFinalizer(w, m)
  <1>1. Progress
    BY NextProgress
  <1>2. ASSUME NEW v \in Workers, TaskStep(v) PROVE v = w
    BY <1>2 DEF TaskStep
  <1>3. ASSUME NEW v \in Workers, WorkerStep(v) PROVE v = w
    BY <1>1, <1>2, <1>3, WorkerTask
  <1>4. ASSUME NEW v \in Workers, TaskDies(v) PROVE v = w
    BY <1>2, <1>4, FinishTask DEF TaskDies, IInv
  <1>5. ASSUME NEW v \in Workers, NEW m \in msgs, StartRun(v, m) \/ StartFinalizer(v, m)
        PROVE  v = w
    BY <1>1, <1>2, <1>5, StartRunTask, StartFinalizerTask
  <1> QED BY <1>3, <1>4, <1>5, NextSplit, OutsideTasks

LEMMA ConcludeOnly ==
  ASSUME NEW w \in Workers, WorkerStep(w), task[w].pc = "conclude"
  PROVE  Conclude(w)
  <1>1. ~(Reread(w) \/ Load(w) \/ Checkpoint(w) \/ StoreDiscovery(w) \/ ReadFailure(w)
          \/ MarkRetry(w) \/ MarkExhausted(w) \/ MarkDead(w) \/ Republish(w)
          \/ ReadCursor(w) \/ Collect(w))
    BY DEF Reread, Load, Checkpoint, StoreDiscovery, ReadFailure, MarkRetry, MarkExhausted,
           MarkDead, Republish, ReadCursor, Collect
  <1>2. ~(EnsureChild(w) \/ ClaimChild(w) \/ LookChild(w) \/ DispatchChild(w)
          \/ DispatchChildFails(w) \/ ReadChildFailure(w) \/ MarkChildRetry(w)
          \/ PublishFinalizer(w) \/ PublishFinalizerFails(w))
    BY DEF EnsureChild, ClaimChild, LookChild, DispatchChild, DispatchChildFails,
           ReadChildFailure, MarkChildRetry, PublishFinalizer, PublishFinalizerFails
  <1> QED BY <1>1, <1>2 DEF WorkerStep, RunStep

LEMMA FailureStep ==
  ASSUME IInv, Next, NEW w \in Workers, task[w].pc = "conclude", task[w].msg.kind = "run",
         ~profile.deleted, task'[w].pc # "conclude"
  PROVE  profile'.cursor = profile.cursor
  <1>1. CASE TaskDies(w)
    BY <1>1 DEF TaskDies
  <1>2. CASE WorkerStep(w)
    <2> DEFINE t == task[w]
    <2>1. Conclude(w)
      BY <1>2, ConcludeOnly
    <2>2. Remembers(t) /\ t \in Task
      BY Working DEF Owning
    <2>3. CASE Held(t.msg.job, t.claim) /\ Latest(t.msg.job)
      <3>1. t.cursor = profile.cursor /\ t.cursor \in Pages
        BY <2>2, <2>3 DEF Remembers, Finalizes, Task
      <3>2. profile' = [profile EXCEPT !.cursor = t.cursor]
        BY <2>1, <2>3 DEF Conclude
      <3> QED BY <3>1, <3>2, CursorEffect DEF IInv
    <2>4. CASE ~(Held(t.msg.job, t.claim) /\ Latest(t.msg.job))
      BY <2>1, <2>4 DEF Conclude
    <2> QED BY <2>3, <2>4
  <1>3. ~ \E m \in msgs : StartRun(w, m) \/ StartFinalizer(w, m)
    BY DEF StartRun, StartFinalizer, Deliver
  <1>4. task'[w] # task[w]
    OBVIOUS
  <1> QED BY <1>1, <1>2, <1>3, <1>4, OwnStep

\* The failure path leaves the cursor where it is, although the cursor it
\* writes back was read in an earlier transaction (finalize_profile_failure).
THEOREM FailuresKeepTheCursor == Spec => FailureKeepsCursor
  <1>1. ASSUME IInv, [Next]_vars
        PROVE  \A w \in Workers :
                  (/\ task[w].pc = "conclude" /\ task[w].msg.kind = "run"
                   /\ ~profile.deleted)
                  => (task'[w].pc = "conclude" \/ profile'.cursor = profile.cursor)
    <2>1. CASE Next
      BY <1>1, <2>1, FailureStep
    <2>2. CASE UNCHANGED vars
      BY <2>2 DEF vars
    <2> QED BY <1>1, <2>1, <2>2
  <1> QED BY Inductive, <1>1, PTL DEF Spec, FailureKeepsCursor

\* The children that are still to be created stay so.
Fenced ==
    /\ UNCHANGED <<jobs, profile>>
    /\ \A j \in Jobs, i \in Items :
          children[j][i].status = "absent" => UNCHANGED children[j][i]

LEMMA KnownChild ==
  ASSUME TypeOK, NEW j \in Jobs, NEW i \in Items, NEW row, SetChild(j, i, row),
         children[j][i].status # "absent"
  PROVE  \A k \in Jobs, l \in Items :
            children[k][l].status = "absent" => UNCHANGED children[k][l]
  BY DEF SetChild, TypeOK

LEMMA StaleStep ==
  ASSUME IInv, NEW w \in Workers, WorkerStep(w), Owning(task[w]), ~Current(task[w])
  PROVE  Fenced
  <1> DEFINE j == task[w].msg.job
             i == task[w].item
  <1>1. ~Held(j, task[w].claim)
    BY DEF Held, Current
  <1>2. ASSUME UNCHANGED <<jobs, profile, children>> PROVE Fenced
    BY <1>2 DEF Fenced
  <1>3. CASE Reread(w) \/ Load(w) \/ ReadFailure(w) \/ Republish(w) \/ ReadCursor(w)
             \/ Collect(w) \/ LookChild(w) \/ ReadChildFailure(w) \/ PublishFinalizer(w)
             \/ PublishFinalizerFails(w)
    BY <1>2, <1>3 DEF Reread, Load, ReadFailure, Republish, ReadCursor, Collect, LookChild,
                      ReadChildFailure, PublishFinalizer, PublishFinalizerFails, TaskFrame
  <1>4. CASE Checkpoint(w) \/ StoreDiscovery(w) \/ Conclude(w) \/ EnsureChild(w)
    BY <1>1, <1>2, <1>4 DEF Checkpoint, StoreDiscovery, Conclude, EnsureChild, TaskFrame
  <1>5. CASE MarkRetry(w) \/ MarkExhausted(w) \/ MarkDead(w)
    BY <1>1, <1>2, <1>5
       DEF MarkRetry, MarkExhausted, MarkDead, RecordFailure, TaskFrame, Current
  <1>6. CASE ClaimChild(w) \/ DispatchChild(w) \/ DispatchChildFails(w) \/ MarkChildRetry(w)
    <2>1. task[w].pc \in {"claimChild", "dispatchChild", "markChildRetry"}
      BY <1>6 DEF ClaimChild, DispatchChild, DispatchChildFails, MarkChildRetry
    <2>2. j \in Jobs /\ i \in Items
      BY <2>1, InLoop DEF Loop
    <2>3. UNCHANGED <<jobs, profile>>
      BY <1>6 DEF ClaimChild, DispatchChild, DispatchChildFails, MarkChildRetry, TaskFrame
    <2>4. UNCHANGED children \/ \E row : SetChild(j, i, row) /\ children[j][i].status # "absent"
      BY <1>6 DEF ClaimChild, DispatchChild, DispatchChildFails, MarkChildRetry, Sent, Claimable
    <2> QED BY <1>2, <2>2, <2>3, <2>4, KnownChild DEF Fenced, IInv
  <1> QED BY <1>3, <1>4, <1>5, <1>6 DEF WorkerStep, RunStep

\* A superseded run or finalizer creates no child, ends no parent and moves
\* no cursor (transition_claimed_job, get_or_create_child_job,
\* checkpoint_profile_page, finalize_profile_job).
THEOREM StaleRunsChangeNothing == Spec => StaleRunsAreFenced
  <1>1. ASSUME IInv, Next, NEW w \in Workers, Owning(task[w]), task'[w] # task[w],
               ~Current(task[w])
        PROVE  Fenced
    <2>1. CASE WorkerStep(w)
      BY <1>1, <2>1, StaleStep
    <2>2. CASE TaskDies(w)
      BY <2>2 DEF TaskDies, Fenced
    <2>3. ~ \E m \in msgs : StartRun(w, m) \/ StartFinalizer(w, m)
      BY <1>1 DEF StartRun, StartFinalizer, Deliver, Owning
    <2> QED BY <1>1, <2>1, <2>2, <2>3, OwnStep
  <1>2. ASSUME IInv, [Next]_vars
        PROVE  \A w \in Workers :
                  (/\ task[w].pc \notin {"idle", "reread"} /\ task'[w] # task[w]
                   /\ task[w].claim # jobs[task[w].msg.job].claims)
                  => /\ UNCHANGED <<jobs, profile>>
                     /\ \A j \in Jobs, i \in Items :
                           children[j][i].status = "absent" => UNCHANGED children[j][i]
    <2>1. CASE Next
      BY <1>1, <1>2, <2>1 DEF Owning, Current, Fenced
    <2>2. CASE UNCHANGED vars
      BY <2>2 DEF vars
    <2> QED BY <1>2, <2>1, <2>2
  <1> QED BY Inductive, <1>2, PTL DEF Spec, StaleRunsAreFenced

-----------------------------------------------------------------------------
(* What the walk relies on besides.  A finalizer that is about to conclude  *)
(* has seen all children of the page end; a parent without a page has no    *)
(* child.                                                                   *)

Collected(t) ==
    /\ t.cursor = NextPage(jobs[t.msg.job].page)
    /\ \A i \in Items : children[t.msg.job][i].status \in ChildTerminal

Walks ==
    /\ \A w \in Workers :
          task[w].pc = "conclude" /\ Finalizes(task[w]) => Collected(task[w])
    /\ \A j \in Jobs, i \in Items :
          jobs[j].page = NoPage => children[j][i].status = "absent"

LEMMA InitWalks == Init => Walks
  BY NoTaskType DEF Init, Walks, NoChild

\* A child that is written is there already, or its parent has its page.
ChildMoves ==
    \E j \in Jobs, i \in Items, row \in ChildRow :
        /\ SetChild(j, i, row)
        /\ children[j][i].status # "absent" \/ jobs[j].page # NoPage

LEMMA WorkerMoves ==
  ASSUME IInv, NEW w \in Workers,
         \/ EnsureChild(w) \/ ClaimChild(w) \/ DispatchChild(w)
         \/ DispatchChildFails(w) \/ MarkChildRetry(w)
  PROVE  UNCHANGED children \/ ChildMoves
  <1> DEFINE j == task[w].msg.job
             i == task[w].item
             c == children[j][i]
  <1>1. task[w].pc \in Loop \ {"publishFinalizer"}
    BY DEF EnsureChild, ClaimChild, DispatchChild, DispatchChildFails, MarkChildRetry, Loop
  <1>2. j \in Jobs /\ i \in Items /\ c \in ChildRow
    BY <1>1, InLoop
  <1>3. jobs[j].page # NoPage
    BY <1>1, Working DEF Remembers, Owning, Loop
  <1>4. ASSUME NEW row \in ChildRow, SetChild(j, i, row) PROVE ChildMoves
    BY <1>2, <1>3, <1>4 DEF ChildMoves
  <1>5. CASE EnsureChild(w)
    <2>1. [c EXCEPT !.status = "queued"] \in ChildRow
      BY <1>2, ChildStatusType DEF ChildActive
    <2> QED BY <1>4, <1>5, <2>1 DEF EnsureChild
  <1>6. CASE ClaimChild(w)
    BY <1>2, <1>4, <1>6, ClaimedChildType DEF ClaimChild
  <1>7. CASE DispatchChild(w) \/ DispatchChildFails(w)
    <2>1. \A claimer \in {w, NoWorker} :
             [c EXCEPT !.sent = TRUE, !.claimer = claimer] \in ChildRow
      BY <1>2 DEF ChildRow
    <2> QED BY <1>4, <1>7, <2>1 DEF DispatchChild, DispatchChildFails, Sent
  <1>8. CASE MarkChildRetry(w)
    <2>1. \A status \in {"retry", "failed"} :
             [c EXCEPT !.status = status, !.elapsed = FALSE, !.sent = FALSE] \in ChildRow
      BY <1>2, ChildStatusType DEF ChildActive, ChildTerminal
    <2> QED BY <1>4, <1>8, <2>1 DEF MarkChildRetry
  <1> QED BY <1>5, <1>6, <1>7, <1>8

LEMMA PipelineMoves ==
  ASSUME TypeOK, NEW j \in Jobs, NEW i \in Items,
         \/ RestartChild(j, i) \/ ChildEnds(j, i) \/ ChildFails(j, i)
         \/ ChildElapses(j, i) \/ ChildIsLost(j, i)
  PROVE  ChildMoves
  <1> DEFINE c == children[j][i]
  <1>1. c \in ChildRow
    BY ChildType
  <1>2. ASSUME NEW row \in ChildRow, SetChild(j, i, row), c.status # "absent"
        PROVE  ChildMoves
    BY <1>2 DEF ChildMoves
  <1>3. CASE RestartChild(j, i)
    <2>1. [ClaimedChild(c, NoWorker) EXCEPT !.sent = TRUE] \in ChildRow
      BY <1>1, ClaimedChildType
    <2> QED BY <1>2, <1>3, <2>1 DEF RestartChild, Claimable
  <1>4. CASE ChildEnds(j, i)
    <2>1. \A end \in ChildTerminal :
             [c EXCEPT !.status = end, !.claimer = NoWorker, !.sent = FALSE] \in ChildRow
      BY <1>1, ChildStatusType
    <2> QED BY <1>2, <1>4, <2>1 DEF ChildEnds
  <1>5. CASE ChildFails(j, i)
    <2>1. [c EXCEPT !.status = "retry", !.elapsed = FALSE, !.sent = FALSE] \in ChildRow
      BY <1>1, ChildStatusType DEF ChildActive
    <2> QED BY <1>2, <1>5, <2>1 DEF ChildFails
  <1>6. CASE ChildElapses(j, i)
    <2>1. [c EXCEPT !.elapsed = TRUE] \in ChildRow
      BY <1>1 DEF ChildRow
    <2> QED BY <1>2, <1>6, <2>1 DEF ChildElapses
  <1>7. CASE ChildIsLost(j, i)
    <2>1. \A sent \in {c.sent, FALSE} :
             [c EXCEPT !.elapsed = TRUE, !.sent = sent] \in ChildRow
      BY <1>1 DEF ChildRow
    <2> QED BY <1>2, <1>7, <2>1 DEF ChildIsLost
  <1> QED BY <1>3, <1>4, <1>5, <1>6, <1>7

\* The steps that touch the rows of the parents or of the profile; they leave
\* the children alone.
RowStep ==
    \/ DeleteProfile \/ ChangeSchedule \/ FallsDue \/ MarkScheduled
    \/ \E j \in Jobs : \/ QueueProfile(j) /\ UNCHANGED profile
                       \/ ApiTerminalize(j) \/ LeaseExpires(j) \/ RetryFallsDue(j)
    \/ \E j, k \in Jobs : CreateRetry(j, k) /\ UNCHANGED profile
    \/ \E w \in Workers :
          \/ \E m \in msgs : StartRun(w, m)
          \/ Checkpoint(w) \/ StoreDiscovery(w)
          \/ MarkRetry(w) \/ MarkExhausted(w) \/ MarkDead(w) \/ Conclude(w)

StepKinds ==
    \/ UNCHANGED <<jobs, profile>> /\ (UNCHANGED children \/ ChildMoves)
    \/ UNCHANGED children /\ RowStep

LEMMA WorkerKinds ==
  ASSUME IInv, NEW w \in Workers, WorkerStep(w)
  PROVE  StepKinds
  <1>1. CASE Reread(w) \/ Load(w) \/ LookChild(w) \/ ReadChildFailure(w) \/ PublishFinalizer(w)
             \/ PublishFinalizerFails(w) \/ ReadFailure(w) \/ Republish(w) \/ ReadCursor(w)
             \/ Collect(w)
    <2>1. UNCHANGED <<jobs, profile, children>>
      BY <1>1 DEF Reread, Load, LookChild, ReadChildFailure, PublishFinalizer,
         PublishFinalizerFails, ReadFailure, Republish, ReadCursor, Collect, TaskFrame
    <2> QED BY <2>1 DEF StepKinds
  <1>2. CASE EnsureChild(w) \/ ClaimChild(w) \/ DispatchChild(w) \/ DispatchChildFails(w)
             \/ MarkChildRetry(w)
    <2>1. UNCHANGED <<jobs, profile>>
      BY <1>2 DEF EnsureChild, ClaimChild, DispatchChild, DispatchChildFails, MarkChildRetry,
         TaskFrame
    <2> QED BY <1>2, <2>1, WorkerMoves DEF StepKinds
  <1>3. CASE Checkpoint(w) \/ StoreDiscovery(w) \/ MarkDead(w) \/ Conclude(w)
    <2>1. UNCHANGED children
      BY <1>3 DEF Checkpoint, StoreDiscovery, MarkDead, Conclude
    <2> QED BY <1>3, <2>1 DEF StepKinds, RowStep
  <1>4. CASE MarkRetry(w) \/ MarkExhausted(w)
    <2>1. UNCHANGED children
      BY <1>4 DEF MarkRetry, MarkExhausted, RecordFailure
    <2> QED BY <1>4, <2>1 DEF StepKinds, RowStep
  <1> QED BY <1>1, <1>2, <1>3, <1>4 DEF WorkerStep, RunStep

LEMMA NextKinds == ASSUME IInv, Next PROVE StepKinds
  <1>1. ASSUME UNCHANGED <<jobs, profile, children>> PROVE StepKinds
    BY <1>1 DEF StepKinds
  <1>2. ASSUME NEW j \in Jobs, RunProfile(j) \/ ApiStep(j) PROVE StepKinds
    <2>1. CASE RunProfile(j) \/ ApiTerminalize(j)
      <3>1. UNCHANGED children
        BY <2>1 DEF RunProfile, ApiTerminalize
      <3> QED BY <2>1, <3>1 DEF StepKinds, RowStep, RunProfile
    <2>2. CASE ApiPublish(j) \/ ApiPublishFails(j)
      BY <1>1, <2>2 DEF ApiPublish, ApiPublishFails
    <2> QED BY <1>2, <2>1, <2>2 DEF ApiStep
  <1>3. ASSUME NEW j \in Jobs, NEW k \in Jobs, RetryParent(j, k) PROVE StepKinds
    BY <1>3 DEF StepKinds, RowStep, RetryParent
  <1>4. CASE DeleteProfile \/ ChangeSchedule \/ FallsDue \/ MarkScheduled
    <2>1. UNCHANGED children
      BY <1>4 DEF DeleteProfile, ChangeSchedule, FallsDue, MarkScheduled
    <2> QED BY <1>4, <2>1 DEF StepKinds, RowStep
  <1>5. CASE ScheduleQueue
    <2>1. UNCHANGED <<children, profile>>
      BY <1>5 DEF ScheduleQueue
    <2>2. UNCHANGED jobs \/ \E j \in Jobs : QueueProfile(j)
      BY <1>5 DEF ScheduleQueue
    <2> QED BY <2>1, <2>2 DEF StepKinds, RowStep
  <1>6. CASE ListDue \/ SchedulePublish \/ SchedulerFails \/ Redrive \/ BrokerLoss
    BY <1>1, <1>6 DEF ListDue, SchedulePublish, SchedulerFails, Redrive, BrokerLoss
  <1>7. ASSUME NEW w \in Workers, Redeliver(w) \/ TaskDies(w) PROVE StepKinds
    BY <1>1, <1>7 DEF Redeliver, TaskDies
  <1>8. ASSUME NEW j \in Jobs, LeaseExpires(j) \/ RetryFallsDue(j) PROVE StepKinds
    <2>1. UNCHANGED children
      BY <1>8 DEF LeaseExpires, RetryFallsDue
    <2> QED BY <1>8, <2>1 DEF StepKinds, RowStep
  <1>9. ASSUME NEW j \in Jobs, NEW i \in Items,
               \/ RestartChild(j, i) \/ ChildEnds(j, i) \/ ChildFails(j, i)
               \/ ChildElapses(j, i) \/ ChildIsLost(j, i)
        PROVE  StepKinds
    <2>1. UNCHANGED <<jobs, profile>>
      BY <1>9 DEF RestartChild, ChildEnds, ChildFails, ChildElapses, ChildIsLost, PipelineFrame
    <2>2. ChildMoves
      BY <1>9, PipelineMoves DEF IInv
    <2> QED BY <2>1, <2>2 DEF StepKinds
  <1>10. ASSUME NEW w \in Workers, NEW m \in msgs, StartRun(w, m) PROVE StepKinds
    <2>1. UNCHANGED children
      BY <1>10 DEF StartRun, Deliver
    <2> QED BY <1>10, <2>1 DEF StepKinds, RowStep
  <1>11. ASSUME NEW w \in Workers, NEW m \in msgs, StartFinalizer(w, m) PROVE StepKinds
    BY <1>1, <1>11 DEF StartFinalizer, Deliver
  <1>12. ASSUME Outside PROVE StepKinds
    BY <1>2, <1>3, <1>4, <1>5, <1>6, <1>7, <1>8, <1>9, <1>12 DEF Outside, SchedulerStep
  <1> QED BY <1>7, <1>10, <1>11, <1>12, NextSplit, WorkerKinds

\* A task gets to its conclusion by the cursor it read, or as a finalizer.
LEMMA IntoConclude ==
  ASSUME IInv, NEW w \in Workers, WorkerStep(w), task'[w].pc = "conclude"
  PROVE  Collect(w) \/ ReadCursor(w)
  <1> USE DEF IInv, TypeOK
  <1>1. task \in [Workers -> Task]
    OBVIOUS
  <1>2. ASSUME Finish(w) PROVE FALSE
    BY <1>2, FinishEffect, NoTaskType
  <1>3. ASSUME NEW label, label # "conclude", Goto(w, label) PROVE FALSE
    BY <1>1, <1>3 DEF Goto, Task
  <1>4. ASSUME NEW status, GiveUp(w, status) PROVE FALSE
    BY <1>1, <1>4 DEF GiveUp, Task
  <1>5. ASSUME NextItem(w) \/ FirstItem(w) PROVE FALSE
    BY <1>1, <1>5 DEF NextItem, FirstItem, Task
  <1>6. CASE Reread(w) \/ StoreDiscovery(w) \/ MarkDead(w) \/ Republish(w) \/ Conclude(w)
             \/ PublishFinalizer(w)
    BY <1>2, <1>6
       DEF Reread, StoreDiscovery, MarkDead, Republish, Conclude, PublishFinalizer
  <1>7. CASE Load(w)
    <2>1. ASSUME AskProvider(w) PROVE FALSE
      <3>1. \/ task' = [task EXCEPT ![w].pc = "store", ![w].page = profile.cursor]
            \/ task' = [task EXCEPT ![w].pc = "checkpoint", ![w].page = profile.cursor]
            \/ Goto(w, "readFailure")
            \/ \E end \in {"failed", "blocked"} : GiveUp(w, end)
        BY <2>1 DEF AskProvider
      <3> QED BY <1>1, <1>3, <1>4, <3>1 DEF Task
    <2> QED BY <1>4, <1>5, <1>7, <2>1 DEF Load
  <1>8. CASE Checkpoint(w)
    BY <1>2, <1>5, <1>8 DEF Checkpoint
  <1>9. CASE EnsureChild(w)
    <2>1. NextItem(w) \/ GiveUp(w, "failed") \/ Goto(w, "claimChild") \/ Finish(w)
      BY <1>9, Zenon DEF EnsureChild
    <2> QED BY <1>2, <1>3, <1>4, <1>5, <2>1
  <1>10. CASE ClaimChild(w) \/ LookChild(w) \/ DispatchChild(w) \/ DispatchChildFails(w)
    BY <1>3, <1>5, <1>10 DEF ClaimChild, LookChild, DispatchChild, DispatchChildFails
  <1>11. CASE ReadChildFailure(w)
    <2>1. Goto(w, "markChildRetry") \/ Goto(w, "readFailure") \/ GiveUp(w, "failed")
      BY <1>11, Zenon DEF ReadChildFailure
    <2> QED BY <1>3, <1>4, <2>1
  <1>12. CASE MarkChildRetry(w)
    BY <1>3, <1>4, <1>12 DEF MarkChildRetry
  <1>13. CASE PublishFinalizerFails(w)
    BY <1>3, <1>13 DEF PublishFinalizerFails
  <1>14. CASE MarkRetry(w) \/ MarkExhausted(w)
    BY <1>2, <1>3, <1>14 DEF MarkRetry, MarkExhausted, RecordFailure
  <1>15. CASE ReadFailure(w)
    <2> DEFINE r == jobs[task[w].msg.job]
               label == IF r.failures + 1 <= MaxRetries THEN "markRetry" ELSE "markExhausted"
    <2>1. CASE Finish(w)
      BY <1>2, <2>1
    <2>2. CASE task' = [task EXCEPT ![w].pc = label, ![w].seen = r.failures,
                                    ![w].page = r.page]
      <3>1. label # "conclude"
        OBVIOUS
      <3> HIDE DEF label
      <3>2. task'[w].pc = label
        BY <1>1, <2>2 DEF Task
      <3> QED BY <3>1, <3>2
    <2> QED BY <1>15, <2>1, <2>2 DEF ReadFailure
  <1> QED BY <1>6, <1>7, <1>8, <1>9, <1>10, <1>11, <1>12, <1>13, <1>14, <1>15
          DEF WorkerStep, RunStep

LEMMA CollectedByCollect ==
  ASSUME IInv, NEW w \in Workers, Collect(w), task'[w].pc = "conclude"
  PROVE  Collected(task[w])'
  <1> DEFINE t == task[w]
             j == t.msg.job
             statuses == {children[j][i].status : i \in Items}
             end == IF "failed" \in statuses THEN "failed" ELSE "completed"
             c == NextPage(jobs[j].page)
  <1>1. t.pc = "collect" /\ UNCHANGED <<jobs, children>>
    BY DEF Collect
  <1>2. j \in Jobs /\ t \in Task
    BY <1>1, Working DEF Owning
  <1>3. ~Finish(w)
    BY FinishEffect, NoTaskType DEF IInv
  <1>4. /\ statuses \cap (ChildActive \cup {"absent"}) = {}
        /\ task' = [task EXCEPT ![w].pc = "conclude", ![w].end = end, ![w].cursor = c]
    BY <1>3 DEF Collect
  <1>5. \A i \in Items : children[j][i].status \in ChildTerminal
    <2> SUFFICES ASSUME NEW i \in Items PROVE children[j][i].status \in ChildTerminal
      OBVIOUS
    <2>1. children[j][i] \in ChildRow
      BY <1>2, ChildType DEF IInv
    <2> QED BY <1>4, <2>1 DEF ChildRow
  <1> HIDE DEF end, c, statuses
  <1>6. task'[w].msg = t.msg /\ task'[w].cursor = c
    BY <1>2, <1>4 DEF IInv, TypeOK, Task
  <1> QED BY <1>1, <1>5, <1>6 DEF Collected, c

LEMMA WalksKept == ASSUME IInv, Walks, Next PROVE Walks'
  <1>1. Progress
    BY NextProgress
  <1>2. ASSUME NEW w \in Workers, task'[w].pc = "conclude", Finalizes(task'[w])
        PROVE  Collected(task[w])'
    <2>1. CASE task'[w] = task[w]
      <3>1. PICK t \in Task : t = task[w]
        BY DEF IInv, TypeOK
      <3>2. t.pc = "conclude" /\ Finalizes(t) /\ Collected(t)
        BY <1>2, <2>1, <3>1 DEF Walks
      <3>3. t.msg.job \in Jobs /\ Delivers(t)
        BY <3>1, <3>2, Working DEF Owning
      <3>4. jobs[t.msg.job].page # NoPage
        BY <3>2, <3>3 DEF Delivers, Owning, Published
      <3>5. jobs'[t.msg.job].page = jobs[t.msg.job].page
        BY <1>1, <3>3, <3>4, PageKept
      <3>6. \A i \in Items : children'[t.msg.job][i].status \in ChildTerminal
        BY <1>1, <3>2, <3>3, EndKept DEF Collected
      <3>7. Collected(t)'
        BY <3>2, <3>5, <3>6 DEF Collected
      <3> QED BY <2>1, <3>1, <3>7 DEF Collected
    <2>2. CASE task'[w] # task[w]
      <3>1. WorkerStep(w) \/ TaskDies(w)
            \/ \E m \in msgs : StartRun(w, m) \/ StartFinalizer(w, m)
        BY <2>2, OwnStep
      <3>2. CASE WorkerStep(w)
        <4>1. CASE Collect(w)
          BY <1>2, <4>1, CollectedByCollect
        <4>2. CASE ReadCursor(w)
          <5>1. task[w].pc = "readCursor"
            BY <4>2 DEF ReadCursor
          <5>2. ~Finalizes(task[w])
            BY <5>1, Working DEF Delivers, Owning
          <5>3. task'[w].msg = task[w].msg
            BY <4>2 DEF ReadCursor, IInv, TypeOK, Task
          <5> QED BY <1>2, <5>2, <5>3 DEF Finalizes
        <4> QED BY <1>2, <3>2, <4>1, <4>2, IntoConclude
      <3>3. ~TaskDies(w)
        BY <1>2, FinishEffect, NoTaskType DEF TaskDies, IInv
      <3>4. ASSUME NEW m \in msgs, StartRun(w, m) PROVE FALSE
        <4> DEFINE c == jobs[m.job].claims + 1
                   loading == [NoTask EXCEPT !.pc = "load", !.msg = m, !.claim = c]
                   blocked == [NoTask EXCEPT !.pc = "readCursor", !.msg = m, !.claim = c,
                                             !.end = "blocked"]
                   refused == [NoTask EXCEPT !.pc = "reread", !.msg = m]
        <4>1. loading.pc = "load" /\ blocked.pc = "readCursor" /\ refused.pc = "reread"
          BY DEF NoTask
        <4>2. \/ task' = [task EXCEPT ![w] = loading]
              \/ task' = [task EXCEPT ![w] = blocked]
              \/ task' = [task EXCEPT ![w] = refused]
          BY <2>2, <3>4 DEF StartRun
        <4> HIDE DEF loading, blocked, refused
        <4> QED BY <1>2, <4>1, <4>2 DEF IInv, TypeOK
      <3>5. ASSUME NEW m \in msgs, StartFinalizer(w, m) PROVE FALSE
        <4>1. task'[w].pc = "collect"
          BY <2>2, <3>5 DEF StartFinalizer, IInv, TypeOK, NoTask
        <4> QED BY <1>2, <4>1
      <3> QED BY <3>1, <3>2, <3>3, <3>4, <3>5
    <2> QED BY <2>1, <2>2
  <1>3. ASSUME NEW j \in Jobs, NEW i \in Items, jobs'[j].page = NoPage
        PROVE  children'[j][i].status = "absent"
    <2>1. jobs[j].page = NoPage
      BY <1>1, <1>3, PageKept
    <2>2. children[j][i].status = "absent"
      BY <2>1 DEF Walks
    <2>3. CASE ChildMoves
      <3>1. PICK k \in Jobs, l \in Items, row \in ChildRow :
              /\ SetChild(k, l, row)
              /\ children[k][l].status # "absent" \/ jobs[k].page # NoPage
        BY <2>3 DEF ChildMoves
      <3>2. k # j \/ l # i
        BY <2>1, <2>2, <3>1
      <3>3. children'[j][i] = children[j][i]
        BY <3>1, <3>2, SetChildEffect DEF IInv
      <3> QED BY <2>2, <3>3
    <2> QED BY <2>2, <2>3, NextKinds DEF StepKinds
  <1>4. (\A w \in Workers :
           task[w].pc = "conclude" /\ Finalizes(task[w]) => Collected(task[w]))'
    BY <1>2 DEF Finalizes
  <1> QED BY <1>3, <1>4 DEF Walks

THEOREM WalkInductive == Spec => [](IInv /\ Walks)
  <1>1. ASSUME Walks, UNCHANGED vars PROVE Walks'
    BY <1>1 DEF vars, Walks, Collected, Finalizes
  <1>2. IInv /\ Walks /\ [Next]_vars => (IInv /\ Walks)'
    BY <1>1, NextIInv, Stutter, WalksKept
  <1> QED BY InitIInv, InitWalks, <1>2, PTL DEF Spec

-----------------------------------------------------------------------------
(* Refinement of the walk. *)

Parents == [j \in Jobs |-> WalkParent(j)]
Cursor == IF profile.deleted THEN NoPage ELSE profile.cursor

WalkStep == Walk!Step \/ UNCHANGED <<Parents, Cursor>>

LEMMA StateOf ==
  ASSUME NEW r
  PROVE  /\ WalkState(r) = "absent" <=> r.status = "absent"
         /\ r.status \in Active => WalkState(r) = "open"
         /\ r.status = "completed" => WalkState(r) = "completed"
         /\ r.status \in Terminal \ {"completed"} => WalkState(r) = "failed"
  BY DEF WalkState, Active, Terminal

LEMMA InitWalk == ASSUME Init PROVE Walk!Init
  <1>1. profile.cursor = 0 /\ ~profile.deleted
    BY DEF Init
  <1>2. ASSUME NEW j \in Jobs
        PROVE  WalkParent(j) = [state |-> "absent", page |-> NoPage, ended |-> {}]
    <2>1. jobs[j].status = "absent" /\ jobs[j].page = NoPage
      BY DEF Init, NoParent
    <2>2. \A i \in Items : children[j][i].status = "absent"
      BY DEF Init, NoChild
    <2>3. EndedItems(j) = {}
      BY <2>1, <2>2 DEF EndedItems, ChildTerminal
    <2>4. WalkState(jobs[j]) = "absent"
      BY <2>1, StateOf
    <2> QED BY <2>1, <2>3, <2>4 DEF WalkParent
  <1> QED BY <1>1, <1>2 DEF Walk!Init

\* What the walk sees of a parent and of the cursor.
LEMMA ParentOf ==
  ASSUME NEW j \in Jobs
  PROVE  /\ Parents[j].state = WalkState(jobs[j]) /\ Parents[j].page = jobs[j].page
         /\ Parents[j].ended = EndedItems(j)
  BY DEF Parents, WalkParent

LEMMA SeenLatest == ASSUME NEW j \in Jobs PROVE Walk!Latest(j) <=> Latest(j)
  BY StateOf DEF Walk!Latest, Latest, WalkParent

LEMMA SeenIdle == ASSUME TypeOK, ActiveParents = {} PROVE Walk!Idle
  <1>1. ASSUME NEW j \in Jobs PROVE WalkState(jobs[j]) # "open"
    <2>1. jobs[j].status \in Terminal \cup {"absent"}
      BY DEF ActiveParents, TypeOK, ParentRow
    <2> QED BY <2>1, StateOf
  <1> QED BY <1>1 DEF Walk!Idle, WalkParent

LEMMA SeenDone == ASSUME NEW p \in Pages, Before(p) PROVE Walk!EarlierPagesDone(p)
  <1>1. ASSUME NEW q \in Pages, q < p
        PROVE  \E k \in Jobs : jobs[k].page = q /\ EndedItems(k) = Items
    <2>1. PICK k \in Jobs :
            /\ jobs[k].page = q
            /\ IF profile.kind = "direct" THEN jobs[k].status = "completed"
               ELSE \A i \in Items : children[k][i].status \in ChildTerminal
      BY <1>1 DEF Before, Settled
    <2> QED BY <2>1 DEF EndedItems
  <1> QED BY <1>1 DEF Walk!EarlierPagesDone, Walk!Pages, Pages, Walk!Items, Items, WalkParent

\* One parent changes, and what the walk sees of it.
LEMMA ParentChanges ==
  ASSUME NEW j \in Jobs, NEW s, NEW p, NEW e,
         WalkState(jobs[j])' = s, jobs'[j].page = p, EndedItems(j)' = e,
         \A k \in Jobs \ {j} : /\ WalkState(jobs[k])' = WalkState(jobs[k])
                               /\ jobs'[k].page = jobs[k].page
                               /\ EndedItems(k)' = EndedItems(k)
  PROVE  /\ Parents' = [Parents EXCEPT ![j] = [state |-> s, page |-> p, ended |-> e]]
         /\ p = jobs[j].page /\ e = EndedItems(j) =>
               Parents' = [Parents EXCEPT ![j].state = s]
         /\ s = WalkState(jobs[j]) /\ e = EndedItems(j) =>
               Parents' = [Parents EXCEPT ![j].page = p]
         /\ s = WalkState(jobs[j]) /\ p = jobs[j].page =>
               Parents' = [Parents EXCEPT ![j].ended = e]
         /\ s = WalkState(jobs[j]) /\ p = jobs[j].page /\ e = EndedItems(j) =>
               Parents' = Parents
  <1> DEFINE row == [state |-> s, page |-> p, ended |-> e]
             old == [state |-> WalkState(jobs[j]), page |-> jobs[j].page,
                     ended |-> EndedItems(j)]
  <1>1. Parents[j] = old /\ WalkParent(j)' = row
    BY DEF Parents, WalkParent
  <1>2. \A k \in Jobs \ {j} : WalkParent(k)' = WalkParent(k)
    BY DEF WalkParent
  <1>3. Parents' = [k \in Jobs |-> WalkParent(k)'] /\ Parents = [k \in Jobs |-> WalkParent(k)]
    BY DEF Parents
  <1>4. Parents' = [Parents EXCEPT ![j] = row]
    BY <1>1, <1>2, <1>3
  <1>5. /\ p = old.page /\ e = old.ended => row = [old EXCEPT !.state = s]
        /\ s = old.state /\ e = old.ended => row = [old EXCEPT !.page = p]
        /\ s = old.state /\ p = old.page => row = [old EXCEPT !.ended = e]
        /\ s = old.state /\ p = old.page /\ e = old.ended => row = old
    <2>1. PICK s0, p0, e0 : s0 = WalkState(jobs[j]) /\ p0 = jobs[j].page /\ e0 = EndedItems(j)
      OBVIOUS
    <2>2. old = [state |-> s0, page |-> p0, ended |-> e0]
      BY <2>1
    <2> HIDE DEF old
    <2>3. old.state = s0 /\ old.page = p0 /\ old.ended = e0
      BY <2>2
    <2>4. [old EXCEPT !.state = s] = [state |-> s, page |-> p0, ended |-> e0]
      BY <2>2
    <2>5. [old EXCEPT !.page = p] = [state |-> s0, page |-> p, ended |-> e0]
      BY <2>2
    <2>6. [old EXCEPT !.ended = e] = [state |-> s0, page |-> p0, ended |-> e]
      BY <2>2
    <2> QED BY <2>2, <2>3, <2>4, <2>5, <2>6
  <1>6. old.page = jobs[j].page /\ old.state = WalkState(jobs[j]) /\ old.ended = EndedItems(j)
    OBVIOUS
  <1> HIDE DEF row, old
  <1>7. [Parents EXCEPT ![j] = Parents[j]] = Parents
    BY <1>3
  <1>8. /\ [Parents EXCEPT ![j].state = s] = [Parents EXCEPT ![j] = [old EXCEPT !.state = s]]
        /\ [Parents EXCEPT ![j].page = p] = [Parents EXCEPT ![j] = [old EXCEPT !.page = p]]
        /\ [Parents EXCEPT ![j].ended = e] = [Parents EXCEPT ![j] = [old EXCEPT !.ended = e]]
    BY <1>1
  <1> QED BY <1>1, <1>4, <1>5, <1>6, <1>7, <1>8 DEF row

\* The row of one parent changes.
LEMMA RowChanges ==
  ASSUME TypeOK, NEW j \in Jobs, NEW row, jobs' = [jobs EXCEPT ![j] = row],
         UNCHANGED children, profile'.kind = profile.kind
  PROVE  /\ WalkState(jobs[j])' = WalkState(row) /\ jobs'[j].page = row.page
         /\ EndedItems(j)' = IF profile.kind = "direct"
                             THEN {i \in Items : row.status = "completed"}
                             ELSE EndedItems(j)
         /\ \A k \in Jobs \ {j} : /\ WalkState(jobs[k])' = WalkState(jobs[k])
                                  /\ jobs'[k].page = jobs[k].page
                                  /\ EndedItems(k)' = EndedItems(k)
  <1>1. jobs'[j] = row /\ \A k \in Jobs \ {j} : jobs'[k] = jobs[k]
    BY DEF TypeOK
  <1>2. EndedItems(j)' = IF profile.kind = "direct"
                         THEN {i \in Items : row.status = "completed"} ELSE EndedItems(j)
    BY <1>1 DEF EndedItems
  <1>3. \A k \in Jobs \ {j} : EndedItems(k)' = EndedItems(k)
    BY <1>1 DEF EndedItems
  <1> QED BY <1>1, <1>2, <1>3

\* ... and neither was nor is completed: the walk sees its state and its page.
LEMMA PlainChange ==
  ASSUME TypeOK, NEW j \in Jobs, NEW row, jobs' = [jobs EXCEPT ![j] = row],
         UNCHANGED children, profile'.kind = profile.kind,
         row.status = "completed" => profile.kind # "direct",
         jobs[j].status = "completed" => profile.kind # "direct"
  PROVE  /\ row.page = jobs[j].page => Parents' = [Parents EXCEPT ![j].state = WalkState(row)]
         /\ WalkState(row) = WalkState(jobs[j]) =>
               Parents' = [Parents EXCEPT ![j].page = row.page]
         /\ row.page = jobs[j].page /\ WalkState(row) = WalkState(jobs[j]) =>
               Parents' = Parents
  <1>1. EndedItems(j)' = EndedItems(j)
    <2>1. CASE profile.kind = "direct"
      <3>1. row.status # "completed" /\ jobs[j].status # "completed"
        BY <2>1
      <3>2. EndedItems(j)' = {i \in Items : row.status = "completed"}
        BY <2>1, RowChanges
      <3>3. EndedItems(j) = {i \in Items : jobs[j].status = "completed"}
        BY <2>1 DEF EndedItems
      <3> QED BY <3>1, <3>2, <3>3
    <2>2. CASE profile.kind # "direct"
      BY <2>2, RowChanges
    <2> QED BY <2>1, <2>2
  <1> DEFINE s == WalkState(row)
             p == row.page
             e == EndedItems(j)
  <1>2. WalkState(jobs[j])' = s /\ jobs'[j].page = p /\ EndedItems(j)' = e
        /\ \A k \in Jobs \ {j} : /\ WalkState(jobs[k])' = WalkState(jobs[k])
                                 /\ jobs'[k].page = jobs[k].page
                                 /\ EndedItems(k)' = EndedItems(k)
    BY <1>1, RowChanges
  <1> HIDE DEF s, p, e
  <1>3. /\ p = jobs[j].page /\ e = EndedItems(j) =>
               Parents' = [Parents EXCEPT ![j].state = s]
        /\ s = WalkState(jobs[j]) /\ e = EndedItems(j) =>
               Parents' = [Parents EXCEPT ![j].page = p]
        /\ s = WalkState(jobs[j]) /\ p = jobs[j].page /\ e = EndedItems(j) =>
               Parents' = Parents
    BY <1>2, ParentChanges
  <1> QED BY <1>3 DEF s, p, e

LEMMA StaysOpen ==
  ASSUME TypeOK, NEW j \in Jobs, NEW row, jobs' = [jobs EXCEPT ![j] = row],
         UNCHANGED <<children, profile>>, row.page = jobs[j].page,
         row.status \in Active, jobs[j].status \in Active
  PROVE  WalkStep
  <1>1. WalkState(row) = "open" /\ WalkState(jobs[j]) = "open"
    BY StateOf
  <1>2. row.status # "completed" /\ jobs[j].status # "completed"
    BY DEF Active
  <1>3. Parents' = Parents
    BY <1>1, <1>2, PlainChange
  <1>4. Cursor' = Cursor
    BY DEF Cursor
  <1> QED BY <1>3, <1>4 DEF WalkStep

LEMMA FailIsWalkStep ==
  ASSUME TypeOK, NEW j \in Jobs, NEW row, jobs' = [jobs EXCEPT ![j] = row],
         UNCHANGED children, profile'.kind = profile.kind, Cursor' = Cursor,
         row.page = jobs[j].page,
         row.status \in Terminal \ {"completed"}, jobs[j].status \in Active
  PROVE  WalkStep
  <1>1. WalkState(row) = "failed" /\ Parents[j].state = "open"
    BY StateOf, ParentOf
  <1>2. row.status # "completed" /\ jobs[j].status # "completed"
    BY DEF Active
  <1>3. Parents' = [Parents EXCEPT ![j].state = "failed"]
    <2>1. Parents' = [Parents EXCEPT ![j].state = WalkState(row)]
      BY <1>2, PlainChange
    <2> QED BY <1>1, <2>1
  <1>4. Walk!Fail(j)
    BY <1>1, <1>3 DEF Walk!Fail, Parents, Cursor
  <1> QED BY <1>4 DEF WalkStep, Walk!Step

LEMMA SameCursor == ASSUME UNCHANGED profile PROVE Cursor' = Cursor
  BY DEF Cursor

LEMMA QueueIsWalkStep ==
  ASSUME IInv, NEW j \in Jobs, QueueProfile(j), UNCHANGED <<children, profile>>
  PROVE  WalkStep
  <1> DEFINE row == [NoParent EXCEPT !.status = "queued"]
  <1>1. row.status = "queued" /\ row.page = NoPage
    BY DEF NoParent
  <1>2. jobs[j].status = "absent" /\ jobs[j].page = NoPage /\ ActiveParents = {}
    BY NoParentType DEF QueueProfile, Fresh, IInv, ParentAgrees
  <1>3. jobs' = [jobs EXCEPT ![j] = row]
    BY DEF QueueProfile
  <1> HIDE DEF row
  <1>4. WalkState(row) = "open" /\ Parents[j].state = "absent"
    BY <1>1, <1>2, StateOf, ParentOf DEF Active
  <1>5. Parents' = [Parents EXCEPT ![j].state = "open"]
    <2>1. Parents' = [Parents EXCEPT ![j].state = WalkState(row)]
      <3>1. TypeOK /\ row.page = jobs[j].page /\ profile'.kind = profile.kind
            /\ row.status # "completed" /\ jobs[j].status # "completed"
        BY <1>1, <1>2 DEF IInv
      <3> QED BY <1>3, <3>1, PlainChange
    <2> QED BY <1>4, <2>1
  <1>6. Walk!Idle
    BY <1>2, SeenIdle DEF IInv
  <1>7. Walk!Open(j)
    BY <1>4, <1>5, <1>6, SameCursor DEF Walk!Open, Parents, Cursor
  <1> QED BY <1>7 DEF WalkStep, Walk!Step

LEMMA RetryIsWalkStep ==
  ASSUME IInv, Walks, NEW j \in Jobs, NEW k \in Jobs, CreateRetry(j, k),
         UNCHANGED <<children, profile>>
  PROVE  WalkStep
  <1> DEFINE row == [NoParent EXCEPT !.status = "queued", !.failures = jobs[j].failures,
                                     !.page = jobs[j].page, !.retryOf = j]
  <1>1. row.status = "queued" /\ row.page = jobs[j].page
    BY DEF NoParent
  <1>2. /\ jobs[k].status = "absent" /\ jobs[k].page = NoPage
        /\ jobs[j].status \in {"failed", "dead_letter"}
    BY NoParentType DEF CreateRetry, Fresh, IInv, ParentAgrees
  <1>3. jobs' = [jobs EXCEPT ![k] = row]
    BY DEF CreateRetry
  <1> HIDE DEF row
  <1>4. WalkState(row) = "open" /\ Parents[k].state = "absent" /\ Parents[j].state = "failed"
    BY <1>1, <1>2, StateOf, ParentOf DEF Active, Terminal
  <1>5. EndedItems(k)' = {}
    <2>1. CASE profile.kind = "direct"
      <3>1. EndedItems(k)' = {i \in Items : row.status = "completed"}
        BY <1>3, <2>1, RowChanges DEF IInv
      <3> QED BY <1>1, <3>1
    <2>2. CASE profile.kind # "direct"
      <3>1. EndedItems(k)' = EndedItems(k)
        BY <1>3, <2>2, RowChanges DEF IInv
      <3>2. \A i \in Items : children[k][i].status \notin ChildTerminal
        BY <1>2 DEF Walks, ChildTerminal
      <3>3. EndedItems(k) = {}
        BY <2>2, <3>2 DEF EndedItems
      <3> QED BY <3>1, <3>3
    <2> QED BY <2>1, <2>2
  <1>6. Parents' = [Parents EXCEPT ![k] = [state |-> "open", page |-> jobs[j].page,
                                           ended |-> {}]]
    <2>1. WalkState(jobs[k])' = "open" /\ jobs'[k].page = jobs[j].page
          /\ \A l \in Jobs \ {k} : /\ WalkState(jobs[l])' = WalkState(jobs[l])
                                   /\ jobs'[l].page = jobs[l].page
                                   /\ EndedItems(l)' = EndedItems(l)
      BY <1>1, <1>3, <1>4, RowChanges DEF IInv
    <2> QED BY <1>5, <2>1, ParentChanges
  <1>7. Parents[j].page = jobs[j].page
    BY ParentOf
  <1>8. Walk!Retry(k, j)
    BY <1>4, <1>6, <1>7, SameCursor DEF Walk!Retry, Parents, Cursor
  <1> QED BY <1>8 DEF WalkStep, Walk!Step

LEMMA DeleteIsWalkStep ==
  ASSUME IInv, DeleteProfile
  PROVE  WalkStep
  <1>1. /\ ActiveParents = {} /\ UNCHANGED <<jobs, children>>
        /\ profile' = [profile EXCEPT !.deleted = TRUE]
    BY DEF DeleteProfile
  <1>2. profile'.deleted /\ profile'.kind = profile.kind
    BY <1>1, ProfileType DEF ProfileRow, IInv
  <1>3. Cursor' = NoPage
    BY <1>2 DEF Cursor
  <1>4. Parents' = Parents
    BY <1>1, <1>2 DEF Parents, WalkParent, WalkState, EndedItems
  <1>5. Walk!Delete
    BY <1>1, <1>3, <1>4, SeenIdle DEF Walk!Delete, Parents, Cursor, IInv
  <1> QED BY <1>5 DEF WalkStep, Walk!Step

LEMMA DueIsWalkStep ==
  ASSUME IInv, UNCHANGED <<jobs, children>>,
         profile'.kind = profile.kind, profile'.cursor = profile.cursor,
         profile'.deleted = profile.deleted
  PROVE  WalkStep
  <1>1. Cursor' = Cursor
    BY DEF Cursor
  <1>2. Parents' = Parents
    BY DEF Parents, WalkParent, WalkState, EndedItems
  <1> QED BY <1>1, <1>2 DEF WalkStep

\* The rows that the delays, the claims and the failures of a parent change
\* stay open.
LEMMA StartRunIsWalkStep ==
  ASSUME IInv, NEW w \in Workers, NEW m \in msgs, StartRun(w, m), UNCHANGED <<children, profile>>
  PROVE  WalkStep
  <1> DEFINE j == m.job
             row == [jobs[j] EXCEPT !.status = "processing", !.claims = @ + 1,
                                    !.elapsed = FALSE]
  <1>1. j \in Jobs
    BY DEF IInv, TypeOK, Messages
  <1>2. CASE UNCHANGED jobs
    BY <1>2, DueIsWalkStep
  <1>3. CASE Claimable(jobs[j]) /\ jobs' = [jobs EXCEPT ![j].status = "processing",
                                                        ![j].claims = @ + 1,
                                                        ![j].elapsed = FALSE]
    <2>1. jobs' = [jobs EXCEPT ![j] = row]
      BY <1>3
    <2>2. row.status = "processing" /\ row.page = jobs[j].page
      <3>1. PICK old \in ParentRow : old = jobs[j]
        BY <1>1, ParentType DEF IInv
      <3>2. PICK new : new = [old EXCEPT !.status = "processing", !.claims = @ + 1,
                                         !.elapsed = FALSE]
        OBVIOUS
      <3>3. new.status = "processing" /\ new.page = old.page
        BY <3>2 DEF ParentRow
      <3> QED BY <3>1, <3>2, <3>3
    <2>3. row.status \in Active /\ jobs[j].status \in Active
      BY <1>3, <2>2 DEF Claimable, Active
    <2> HIDE DEF row
    <2> QED BY <1>1, <2>1, <2>2, <2>3, StaysOpen DEF IInv
  <1> QED BY <1>2, <1>3 DEF StartRun

LEMMA ElapsedIsWalkStep ==
  ASSUME IInv, NEW j \in Jobs, jobs' = [jobs EXCEPT ![j].elapsed = TRUE],
         jobs[j].status \in {"processing", "retry"}, UNCHANGED <<children, profile>>
  PROVE  WalkStep
  <1> DEFINE row == [jobs[j] EXCEPT !.elapsed = TRUE]
  <1>1. row.status = jobs[j].status /\ row.page = jobs[j].page
    BY ParentType DEF ParentRow, IInv
  <1>2. jobs' = [jobs EXCEPT ![j] = row]
    OBVIOUS
  <1> HIDE DEF row
  <1>3. row.status \in Active /\ jobs[j].status \in Active
    BY <1>1 DEF Active
  <1> QED BY <1>1, <1>2, <1>3, StaysOpen DEF IInv

LEMMA RecordIsWalkStep ==
  ASSUME IInv, NEW w \in Workers, MarkRetry(w) \/ MarkExhausted(w)
  PROVE  WalkStep
  <1> DEFINE j == task[w].msg.job
  <1>1. task[w].pc \in {"markRetry", "markExhausted"}
    BY DEF MarkRetry, MarkExhausted
  <1>2. j \in Jobs /\ Remembers(task[w]) /\ task[w] \in Task
    BY <1>1, Working DEF Owning
  <1>3. PICK elapsed \in BOOLEAN, label \in TaskPC : RecordFailure(w, elapsed, label)
    BY DEF MarkRetry, MarkExhausted, TaskPC
  <1>4. UNCHANGED <<children, profile>>
    BY <1>3 DEF RecordFailure, TaskFrame
  <1>5. CASE ~Held(j, task[w].claim)
    BY <1>3, <1>4, <1>5, DueIsWalkStep DEF RecordFailure
  <1>6. CASE Held(j, task[w].claim)
    <2> DEFINE row == [jobs[j] EXCEPT !.status = "retry", !.elapsed = elapsed,
                                      !.failures = task[w].seen + 1, !.page = task[w].page]
    <2>1. jobs[j] \in ParentRow /\ jobs[j].status = "processing"
      BY <1>2, <1>6, ParentType DEF IInv, Held
    <2>2. jobs' = [jobs EXCEPT ![j] = row]
      BY <1>3, <1>6 DEF RecordFailure
    <2>3. task[w].page = jobs[j].page
      BY <1>1, <1>2, <1>6 DEF Remembers, Current, Held
    <2>4. row.status = "retry" /\ row.page = task[w].page
      <3>1. PICK old \in ParentRow : old = jobs[j]
        BY <2>1
      <3>2. PICK new : new = [old EXCEPT !.status = "retry", !.elapsed = elapsed,
                                         !.failures = task[w].seen + 1, !.page = task[w].page]
        OBVIOUS
      <3>3. new.status = "retry" /\ new.page = task[w].page
        BY <3>2 DEF ParentRow
      <3> QED BY <3>1, <3>2, <3>3
    <2> HIDE DEF row
    <2>5. row.status \in Active /\ jobs[j].status \in Active /\ row.page = jobs[j].page
      BY <2>1, <2>3, <2>4 DEF Active
    <2> QED BY <1>2, <1>4, <2>2, <2>5, StaysOpen DEF IInv
  <1> QED BY <1>5, <1>6

\* A publication that failed, or retries that are exhausted, end a parent
\* without its page.
LEMMA StatusIsWalkStep ==
  ASSUME IInv, NEW j \in Jobs, NEW status \in Terminal \ {"completed"},
         jobs' = [jobs EXCEPT ![j].status = status], jobs[j].status \in Active,
         UNCHANGED children, profile'.kind = profile.kind, Cursor' = Cursor
  PROVE  WalkStep
  <1> DEFINE row == [jobs[j] EXCEPT !.status = status]
  <1>1. row.status = status /\ row.page = jobs[j].page
    BY ParentType DEF ParentRow, IInv
  <1>2. jobs' = [jobs EXCEPT ![j] = row]
    OBVIOUS
  <1> HIDE DEF row
  <1> QED BY <1>1, <1>2, FailIsWalkStep DEF IInv

LEMMA TerminalizeIsWalkStep ==
  ASSUME IInv, NEW j \in Jobs, ApiTerminalize(j)
  PROVE  WalkStep
  <1>1. UNCHANGED <<children, profile>> /\ Cursor' = Cursor
    BY SameCursor DEF ApiTerminalize
  <1>2. CASE jobs[j].status \in {"queued", "processing"}
    <2>1. jobs' = [jobs EXCEPT ![j].status = "failed"] /\ jobs[j].status \in Active
      BY <1>2 DEF ApiTerminalize, Active
    <2> QED BY <1>1, <2>1, StatusIsWalkStep DEF Terminal
  <1>3. CASE jobs[j].status \notin {"queued", "processing"}
    BY <1>1, <1>3, DueIsWalkStep DEF ApiTerminalize
  <1> QED BY <1>2, <1>3

LEMMA MarkDeadIsWalkStep ==
  ASSUME IInv, NEW w \in Workers, MarkDead(w)
  PROVE  WalkStep
  <1> DEFINE j == task[w].msg.job
  <1>1. j \in Jobs
    BY Working DEF MarkDead, Owning
  <1>2. UNCHANGED <<children, profile>> /\ Cursor' = Cursor
    BY SameCursor DEF MarkDead, TaskFrame
  <1>3. CASE jobs' = jobs
    BY <1>2, <1>3, DueIsWalkStep
  <1>4. CASE jobs[j].status = "retry" /\ jobs' = [jobs EXCEPT ![j].status = "dead_letter"]
    <2>1. jobs[j].status \in Active /\ "dead_letter" \in Terminal \ {"completed"}
      BY <1>4 DEF Active, Terminal
    <2> QED BY <1>1, <1>2, <1>4, <2>1, StatusIsWalkStep
  <1> QED BY <1>3, <1>4 DEF MarkDead

\* A checkpoint gives the parent its page, unless it is there.
LEMMA CheckpointIsWalkStep ==
  ASSUME IInv, NEW w \in Workers, Checkpoint(w)
  PROVE  WalkStep
  <1> DEFINE j == task[w].msg.job
             p == task[w].page
             row == [jobs[j] EXCEPT !.page = IF @ = NoPage THEN p ELSE @]
  <1>1. task[w].pc = "checkpoint" /\ UNCHANGED <<children, profile>>
    BY DEF Checkpoint, TaskFrame
  <1>2. j \in Jobs /\ Remembers(task[w]) /\ task[w] \in Task
    BY <1>1, Working DEF Owning
  <1>3. p \in Pages /\ Before(p)
    BY <1>1, <1>2 DEF Remembers
  <1>4. CASE ~Held(j, task[w].claim)
    BY <1>1, <1>4, DueIsWalkStep DEF Checkpoint
  <1>5. CASE Held(j, task[w].claim)
    <2>1. jobs[j] \in ParentRow /\ jobs[j].status = "processing"
      BY <1>2, <1>5, ParentType DEF IInv, Held
    <2>2. jobs' = [jobs EXCEPT ![j] = row]
      BY <1>5 DEF Checkpoint
    <2>3. /\ row.status = "processing"
          /\ row.page = IF jobs[j].page = NoPage THEN p ELSE jobs[j].page
      BY <2>1 DEF ParentRow
    <2> HIDE DEF row
    <2>4. row.status \in Active /\ jobs[j].status \in Active
      BY <2>1, <2>3 DEF Active
    <2>5. CASE jobs[j].page # NoPage
      BY <1>1, <1>2, <2>2, <2>3, <2>4, <2>5, StaysOpen DEF IInv
    <2>6. CASE jobs[j].page = NoPage
      <3>1. WalkState(row) = "open" /\ Parents[j].state = "open" /\ Parents[j].page = NoPage
            /\ WalkState(jobs[j]) = "open"
        BY <1>2, <2>4, <2>6, StateOf, ParentOf
      <3>2. row.status # "completed" /\ jobs[j].status # "completed" /\ row.page = p
        BY <2>1, <2>3, <2>6
      <3>3. TypeOK /\ profile'.kind = profile.kind
        BY <1>1 DEF IInv
      <3>4. Parents' = [Parents EXCEPT ![j].page = row.page]
        BY <1>1, <1>2, <2>2, <3>1, <3>2, <3>3, PlainChange
      <3>5. PICK k \in Jobs, q \in Pages : k = j /\ q = p
        BY <1>2, <1>3
      <3>6. Before(q)
        BY <1>3, <3>5
      <3>7. Walk!EarlierPagesDone(q)
        BY <3>6, SeenDone
      <3>8. Walk!Receive(k, q)
        BY <1>1, <3>1, <3>2, <3>4, <3>5, <3>7, SameCursor
           DEF Walk!Receive, Walk!MayReceive, Parents, Cursor
      <3> QED BY <3>8 DEF WalkStep, Walk!Step, Walk!Pages, Pages
    <2> QED BY <2>5, <2>6
  <1> QED BY <1>4, <1>5

\* What the cursor of the walk becomes when the latest parent writes it.
LEMMA LeadsCursor ==
  ASSUME IInv, NEW j \in Jobs, NEW p \in Pages,
         profile' = IF Latest(j) THEN [profile EXCEPT !.cursor = NextPage(p)] ELSE profile
  PROVE  Walk!Lead(j, p)
  <1>1. Walk!NextPage(p) = NextPage(p)
    BY DEF Walk!NextPage, NextPage
  <1>2. CASE ~Latest(j)
    <2>1. Cursor' = Cursor
      BY <1>2, SameCursor
    <2> QED BY <1>2, <2>1, SeenLatest DEF Walk!Lead, Cursor
  <1>3. CASE Latest(j)
    <2>1. profile'.cursor = NextPage(p) /\ profile'.deleted = profile.deleted
      BY <1>3, NextPageType, CursorEffect DEF IInv
    <2>2. profile.cursor # NoPage
      BY PagesAreNat DEF IInv, TypeOK
    <2>3. Cursor' = IF Cursor # NoPage THEN NextPage(p) ELSE Cursor
      BY <2>1, <2>2 DEF Cursor
    <2>4. Walk!Latest(j)
      BY <1>3, SeenLatest
    <2> QED BY <1>1, <2>3, <2>4 DEF Walk!Lead, Cursor
  <1> QED BY <1>2, <1>3

LEMMA StoreIsWalkStep ==
  ASSUME IInv, NEW w \in Workers, StoreDiscovery(w)
  PROVE  WalkStep
  <1> DEFINE t == task[w]
  <1>1. t.pc = "store" /\ UNCHANGED children
    BY DEF StoreDiscovery
  <1>2. PICK j \in Jobs : j = t.msg.job
    BY <1>1, Working DEF Owning
  <1>3. Remembers(t)
    BY <1>1, Working DEF Owning
  <1>4. t.page \in Pages /\ Before(t.page) /\ profile.kind = "direct"
    BY <1>1, <1>3 DEF Remembers
  <1>5. PICK p \in Pages : p = t.page
    BY <1>4
  <1>6. CASE ~Held(j, t.claim)
    BY <1>1, <1>2, <1>6, DueIsWalkStep DEF StoreDiscovery
  <1>7. CASE Held(j, t.claim)
    <2> DEFINE row == [jobs[j] EXCEPT !.status = "completed", !.page = p]
    <2>1. jobs[j] \in ParentRow /\ jobs[j].status = "processing" /\ jobs[j].page = NoPage
      BY <1>1, <1>2, <1>3, <1>7, ParentType DEF IInv, Held, Remembers, Current
    <2>2. jobs' = [jobs EXCEPT ![j] = row]
          /\ profile' = IF Latest(j) THEN [profile EXCEPT !.cursor = NextPage(p)] ELSE profile
      BY <1>2, <1>5, <1>7 DEF StoreDiscovery
    <2>3. row.status = "completed" /\ row.page = p
      BY <2>1 DEF ParentRow
    <2> HIDE DEF row
    <2>4. profile'.kind = profile.kind
      BY <2>2, NextPageType, CursorEffect DEF IInv
    <2>5. WalkState(row) = "completed" /\ Parents[j].state = "open" /\ Parents[j].page = NoPage
      BY <2>1, <2>3, StateOf, ParentOf DEF Active
    <2>6. EndedItems(j)' = Items
      <3>1. EndedItems(j)' = {i \in Items : row.status = "completed"}
        BY <1>1, <1>4, <2>2, <2>4, RowChanges DEF IInv
      <3> QED BY <2>3, <3>1
    <2>7. Parents' = [Parents EXCEPT ![j] = [state |-> "completed", page |-> p,
                                             ended |-> Items]]
      <3>1. TypeOK
        BY DEF IInv
      <3>2. WalkState(jobs[j])' = "completed" /\ jobs'[j].page = p
            /\ \A k \in Jobs \ {j} : /\ WalkState(jobs[k])' = WalkState(jobs[k])
                                     /\ jobs'[k].page = jobs[k].page
                                     /\ EndedItems(k)' = EndedItems(k)
        BY <1>1, <2>2, <2>3, <2>4, <2>5, <3>1, RowChanges
      <3> QED BY <2>6, <3>2, ParentChanges
    <2>8. Walk!EarlierPagesDone(p)
      <3>1. Before(p)
        BY <1>4, <1>5
      <3> QED BY <3>1, SeenDone
    <2>9. Walk!Lead(j, p)
      BY <2>2, LeadsCursor
    <2>10. Walk!Deliver(j, p)
      BY <2>5, <2>7, <2>8, <2>9
         DEF Walk!Deliver, Walk!MayReceive, Walk!Items, Items, Parents, Cursor
    <2> QED BY <2>10 DEF WalkStep, Walk!Step, Walk!Pages, Pages
  <1> QED BY <1>6, <1>7

\* A finalizer has collected all children; it leads the cursor past the page.
LEMMA FinalizerIsWalkStep ==
  ASSUME IInv, Walks, NEW w \in Workers, Conclude(w), Finalizes(task[w]),
         Held(task[w].msg.job, task[w].claim)
  PROVE  WalkStep
  <1> DEFINE t == task[w]
  <1>1. t.pc = "conclude" /\ UNCHANGED children
    BY DEF Conclude
  <1>2. PICK j \in Jobs : j = t.msg.job
    BY <1>1, Working DEF Owning
  <1>3. Delivers(t) /\ Remembers(t) /\ Collected(t)
    BY <1>1, Working DEF Owning, Walks
  <1>4. jobs[j] \in ParentRow /\ jobs[j].status = "processing"
    BY <1>2, ParentType DEF IInv, Held
  <1>5. jobs[j].page # NoPage
    BY <1>1, <1>2, <1>3 DEF Delivers, Owning, Published
  <1>6. profile.kind # "direct"
    BY <1>2, <1>4, <1>5 DEF IInv, ParentAgrees
  <1>7. PICK p \in Pages : p = jobs[j].page
    BY <1>4, <1>5 DEF ParentRow
  <1>8. EndedItems(j) = Items
    BY <1>2, <1>3, <1>6 DEF Collected, EndedItems
  <1> DEFINE row == [jobs[j] EXCEPT !.status = t.end]
  <1>9. row.status = t.end /\ row.page = jobs[j].page
    BY <1>4 DEF ParentRow
  <1>10. /\ jobs' = [jobs EXCEPT ![j] = row]
         /\ profile' = IF Latest(j) THEN [profile EXCEPT !.cursor = NextPage(p)] ELSE profile
    BY <1>2, <1>3, <1>7 DEF Conclude, Collected
  <1> HIDE DEF row
  <1>11. profile'.kind = profile.kind
    BY <1>10, NextPageType, CursorEffect DEF IInv
  <1>12. WalkState(row) \in {"completed", "failed"}
    BY <1>1, <1>3, <1>9, StateOf DEF Remembers
  <1>13. PICK s \in {"completed", "failed"} : s = WalkState(row)
    BY <1>12
  <1>14. Parents' = [Parents EXCEPT ![j].state = s]
    <2>1. TypeOK
      BY DEF IInv
    <2>2. Parents' = [Parents EXCEPT ![j].state = WalkState(row)]
      BY <1>1, <1>6, <1>9, <1>10, <1>11, <2>1, PlainChange
    <2> QED BY <1>13, <2>2
  <1>15. Parents[j].state = "open" /\ Parents[j].page = p /\ Parents[j].ended = Items
    BY <1>4, <1>7, <1>8, StateOf, ParentOf DEF Active
  <1>16. Walk!Lead(j, p)
    BY <1>10, LeadsCursor
  <1>17. Walk!Lead(j, Parents[j].page)
    BY <1>15, <1>16 DEF Walk!Lead
  <1>18. Walk!End(j, s)
    BY <1>5, <1>7, <1>14, <1>15, <1>17 DEF Walk!End, Walk!Items, Items, Parents, Cursor
  <1> QED BY <1>18 DEF WalkStep, Walk!Step

LEMMA ConcludeIsWalkStep ==
  ASSUME IInv, Walks, NEW w \in Workers, Conclude(w)
  PROVE  WalkStep
  <1> DEFINE t == task[w]
             j == t.msg.job
  <1>1. t.pc = "conclude" /\ UNCHANGED children
    BY DEF Conclude
  <1>2. j \in Jobs /\ Remembers(t) /\ t \in Task
    BY <1>1, Working DEF Owning
  <1>3. CASE ~Held(j, t.claim)
    BY <1>1, <1>3, DueIsWalkStep DEF Conclude
  <1>4. CASE Held(j, t.claim) /\ Finalizes(t)
    BY <1>4, FinalizerIsWalkStep
  <1>5. CASE Held(j, t.claim) /\ ~Finalizes(t)
    <2>1. t.end \in Terminal \ {"completed"} /\ jobs[j].status \in Active
      BY <1>1, <1>2, <1>5 DEF Remembers, Held, Active
    <2>2. /\ jobs' = [jobs EXCEPT ![j].status = t.end]
          /\ profile' = IF Latest(j) THEN [profile EXCEPT !.cursor = t.cursor] ELSE profile
      BY <1>5 DEF Conclude
    <2>3. profile'.kind = profile.kind /\ Cursor' = Cursor
      <3>1. CASE ~Latest(j)
        BY <2>2, <3>1, SameCursor
      <3>2. CASE Latest(j)
        <4>1. t.cursor \in Pages
          BY <1>2 DEF Task
        <4>2. /\ profile'.cursor = t.cursor /\ profile'.deleted = profile.deleted
              /\ profile'.kind = profile.kind
          BY <2>2, <3>2, <4>1, CursorEffect DEF IInv
        <4>3. ~profile.deleted => t.cursor = profile.cursor
          BY <1>1, <1>2, <1>5, <3>2 DEF Remembers
        <4> QED BY <4>2, <4>3 DEF Cursor
      <3> QED BY <3>1, <3>2
    <2> QED BY <1>1, <1>2, <2>1, <2>2, <2>3, StatusIsWalkStep
  <1> QED BY <1>3, <1>4, <1>5

\* A child that ends is one of a page the parent has received.
LEMMA ChildIsWalkStep ==
  ASSUME IInv, Walks, Progress, ChildMoves, UNCHANGED <<jobs, profile>>
  PROVE  WalkStep
  <1>1. PICK j \in Jobs, i \in Items, row \in ChildRow :
          /\ SetChild(j, i, row)
          /\ children[j][i].status # "absent" \/ jobs[j].page # NoPage
    BY DEF ChildMoves
  <1>2. /\ children'[j][i] = row
        /\ \A k \in Jobs, l \in Items : k # j \/ l # i => children'[k][l] = children[k][l]
    BY <1>1, SetChildEffect DEF IInv
  <1>3. jobs[j].page # NoPage
    BY <1>1 DEF Walks
  <1>4. \A k \in Jobs \ {j} : EndedItems(k)' = EndedItems(k)
    BY <1>2 DEF EndedItems
  <1>5. \A k \in Jobs : WalkState(jobs[k])' = WalkState(jobs[k]) /\ jobs'[k].page = jobs[k].page
    BY DEF WalkState
  <1>6. Cursor' = Cursor
    BY SameCursor
  <1>7. CASE EndedItems(j)' = EndedItems(j)
    <2>1. Parents' = Parents
      BY <1>4, <1>5, <1>7 DEF Parents, WalkParent
    <2> QED BY <1>6, <2>1 DEF WalkStep
  <1>8. CASE EndedItems(j)' # EndedItems(j)
    <2>1. profile.kind # "direct"
      BY <1>8 DEF EndedItems
    <2>2. /\ EndedItems(j) = {l \in Items : children[j][l].status \in ChildTerminal}
          /\ EndedItems(j)' = {l \in Items : children'[j][l].status \in ChildTerminal}
      BY <2>1 DEF EndedItems
    <2>3. \A l \in Items : children[j][l].status \in ChildTerminal =>
                              children'[j][l].status \in ChildTerminal
      BY EndKept
    <2>4. \A l \in Items \ {i} : children'[j][l] = children[j][l]
      BY <1>2
    <2>5. EndedItems(j)' = EndedItems(j) \cup {i}
      BY <1>8, <2>2, <2>3, <2>4
    <2>6. Parents[j].page # NoPage /\ Parents[j].ended = EndedItems(j)
      BY <1>3, ParentOf
    <2> DEFINE e == EndedItems(j) \cup {i}
    <2>7. Parents' = [Parents EXCEPT ![j].ended = e]
      BY <1>4, <1>5, <2>5, ParentChanges
    <2>8. Parents' = [Parents EXCEPT ![j].ended = @ \cup {i}]
      BY <2>6, <2>7
    <2>9. Walk!EndItem(j, i)
      BY <1>6, <2>6, <2>8 DEF Walk!EndItem, Parents, Cursor
    <2> QED BY <2>9 DEF WalkStep, Walk!Step, Walk!Items, Items
  <1> QED BY <1>7, <1>8

LEMMA NextIsWalkStep == ASSUME IInv, Walks, Next PROVE WalkStep
  <1>1. CASE UNCHANGED <<jobs, profile>> /\ (UNCHANGED children \/ ChildMoves)
    BY <1>1, NextProgress, DueIsWalkStep, ChildIsWalkStep
  <1>2. CASE UNCHANGED children /\ RowStep
    <2>1. CASE DeleteProfile
      BY <2>1, DeleteIsWalkStep
    <2>2. CASE ChangeSchedule \/ FallsDue \/ MarkScheduled
      <3>1. UNCHANGED jobs /\ (UNCHANGED profile \/ \E due \in BOOLEAN :
                                  profile' = [profile EXCEPT !.due = due])
        BY <2>2 DEF ChangeSchedule, FallsDue, MarkScheduled
      <3>2. profile'.kind = profile.kind /\ profile'.cursor = profile.cursor
            /\ profile'.deleted = profile.deleted
        BY <3>1, ProfileType DEF ProfileRow, IInv
      <3> QED BY <1>2, <3>1, <3>2, DueIsWalkStep
    <2>3. ASSUME NEW j \in Jobs, QueueProfile(j) /\ UNCHANGED profile PROVE WalkStep
      BY <1>2, <2>3, QueueIsWalkStep
    <2>4. ASSUME NEW j \in Jobs, NEW k \in Jobs, CreateRetry(j, k) /\ UNCHANGED profile
          PROVE  WalkStep
      BY <1>2, <2>4, RetryIsWalkStep
    <2>5. ASSUME NEW j \in Jobs, ApiTerminalize(j) PROVE WalkStep
      BY <2>5, TerminalizeIsWalkStep
    <2>6. ASSUME NEW j \in Jobs, LeaseExpires(j) \/ RetryFallsDue(j) PROVE WalkStep
      BY <2>6, ElapsedIsWalkStep DEF LeaseExpires, RetryFallsDue
    <2>7. ASSUME NEW w \in Workers, NEW m \in msgs, StartRun(w, m) PROVE WalkStep
      BY <2>7, StartRunIsWalkStep DEF StartRun, Deliver
    <2>8. ASSUME NEW w \in Workers,
                 \/ Checkpoint(w) \/ StoreDiscovery(w) \/ MarkRetry(w) \/ MarkExhausted(w)
                 \/ MarkDead(w) \/ Conclude(w)
          PROVE  WalkStep
      BY <2>8, CheckpointIsWalkStep, StoreIsWalkStep, RecordIsWalkStep, MarkDeadIsWalkStep,
         ConcludeIsWalkStep
    <2> QED BY <1>2, <2>1, <2>2, <2>3, <2>4, <2>5, <2>6, <2>7, <2>8 DEF RowStep
  <1> QED BY <1>1, <1>2, NextKinds DEF StepKinds

\* Discovery implements the walk: of all that claims, finalizers, retries and
\* redeliveries do, a reader of the parents, their children and the cursor
\* sees the walk's steps only (finalize_profile_job, checkpoint_profile_page,
\* complete_provider_discovery).
THEOREM Refinement == Spec => ImplementsWalk
  <1>1. ASSUME IInv, Walks, [Next]_vars
        PROVE  [Walk!Next]_(Walk!walkVars)
    <2>1. CASE Next
      <3>1. WalkStep
        BY <1>1, <2>1, NextIsWalkStep
      <3> QED BY <3>1 DEF WalkStep, Parents, Cursor, Walk!Next, Walk!walkVars
    <2>2. CASE UNCHANGED vars
      <3>1. Parents' = Parents /\ Cursor' = Cursor
        BY <2>2 DEF vars, Parents, Cursor, WalkParent, WalkState, EndedItems
      <3> QED BY <3>1 DEF Parents, Cursor, Walk!walkVars
    <2> QED BY <1>1, <2>1, <2>2
  <1> QED BY <1>1, InitWalk, WalkInductive, PTL DEF ImplementsWalk, Walk!Spec, Spec

=============================================================================
