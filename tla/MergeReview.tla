---------------------------- MODULE MergeReview ----------------------------
(***************************************************************************)
(* Canonical sets: imports that store a set with its provider item and     *)
(* suggest merges with sets of other providers, and the administrators     *)
(* who approve, reject and restore these merges while editors change the   *)
(* review status of the same sets.                                         *)
(*                                                                         *)
(* A set is imported from one provider item, so the set stands for its     *)
(* item too.  Every transaction is one step: it locks the rows of the sets *)
(* and of the candidate it decides on before it reads them.                *)
(***************************************************************************)
EXTENDS Naturals, FiniteSets

CONSTANTS
    Sets,       \* sets, each named by the provider item it is imported from
    NoSet,
    Workers,    \* imports that run at the same time
    Provider,   \* provider of the item of a set
    Patches     \* review statuses the editors of this instance write

ReviewStatus == {"inbox", "reviewing", "accepted", "rejected", "published"}

ASSUME SetsAssumption == NoSet \notin Sets
ASSUME PatchesAssumption == Patches \subseteq ReviewStatus

\* A pair is a candidate: its source is to be merged into its target.
Pairs == {p \in Sets \X Sets : p[1] # p[2]}
Source(p) == p[1]
Target(p) == p[2]
Turned(p) == <<p[2], p[1]>>

CandidateStatus == {"none", "pending", "approved", "rejected", "restored"}

(***************************************************************************)
(* before_state of the approval of a candidate: the items of both sets,    *)
(* which of the source's is its primary one, and the source's status.      *)
(***************************************************************************)
BeforeState == [items   : SUBSET Sets,
                primary : Sets \cup {NoSet},
                status  : ReviewStatus,
                target  : SUBSET Sets]
Nothing == [items |-> {}, primary |-> NoSet, status |-> "none", target |-> {}]

\* What an import does: it has found no duplicate and is to persist, then to
\* list the other sets, then to compare its set with each of them.
Task == [pc : {"idle", "persist", "list", "compare"},
         set : Sets \cup {NoSet}, others : SUBSET Sets]
Idle == [pc |-> "idle", set |-> NoSet, others |-> {}]

VARIABLES
    status,      \* sets.review_status, "none" before the import
    mergedInto,  \* sets.merged_into_id
    links,       \* set_provider_items: the items of a set
    primary,     \* set_provider_items.is_primary: at most one item of a set
    candidate,   \* merge_candidates.status, "none" without a row
    before,      \* before_state of the approval in merge_decisions
    task,        \* what each import is doing
    passed,      \* history: pairs that have been compared, or that an import
                 \* was to compare when it was cut short
    byHand       \* history: sets an editor has ever published

vars == <<status, mergedInto, links, primary, candidate, before, task,
          passed, byHand>>
sets == <<status, mergedInto, links, primary>>
decisions == <<candidate, before>>
history == <<passed, byHand>>

TypeOK ==
    /\ status \in [Sets -> ReviewStatus \cup {"none"}]
    /\ mergedInto \in [Sets -> Sets \cup {NoSet}]
    /\ links \in [Sets -> SUBSET Sets]
    /\ primary \in [Sets -> Sets \cup {NoSet}]
    /\ candidate \in [Pairs -> CandidateStatus]
    /\ before \in [Pairs -> BeforeState \cup {Nothing}]
    /\ \A p \in Pairs : candidate[p] = "approved" => before[p] \in BeforeState
    /\ task \in [Workers -> Task]
    /\ passed \subseteq SUBSET Sets
    /\ byHand \subseteq Sets

Init ==
    /\ status = [s \in Sets |-> "none"]
    /\ mergedInto = [s \in Sets |-> NoSet]
    /\ links = [s \in Sets |-> {}]
    /\ primary = [s \in Sets |-> NoSet]
    /\ candidate = [p \in Pairs |-> "none"]
    /\ before = [p \in Pairs |-> Nothing]
    /\ task = [w \in Workers |-> Idle]
    /\ passed = {}
    /\ byHand = {}

Imported(s) == status[s] # "none"
Unmerged(s) == Imported(s) /\ mergedInto[s] = NoSet

\* The projection every read of an unmerged set, and a second import of its
\* item, insist on: its primary link is to its own item.
Projected(s) == primary[s] = s

-----------------------------------------------------------------------------
(* The import of a set: process_import_job and what it calls. *)

\* find_duplicate sees no set of the item.
Admit(w, s) ==
    /\ task[w].pc = "idle" /\ ~Imported(s)
    /\ task' = [task EXCEPT ![w] = [pc |-> "persist", set |-> s, others |-> {}]]
    /\ UNCHANGED <<sets, decisions, history>>

\* The set and the primary link are inserted unless another import has done
\* it since; then the set must have its projection.
Persist(w) ==
    LET s == task[w].set IN
    /\ task[w].pc = "persist"
    /\ \/ /\ ~Imported(s)
          /\ status' = [status EXCEPT ![s] = "inbox"]
          /\ links' = [links EXCEPT ![s] = {s}]
          /\ primary' = [primary EXCEPT ![s] = s]
          /\ task' = [task EXCEPT ![w].pc = "list"]
       \/ /\ Imported(s) /\ Projected(s)
          /\ task' = [task EXCEPT ![w].pc = "list"]
          /\ UNCHANGED <<status, links, primary>>
       \/ /\ Imported(s) /\ ~Projected(s)   \* SourceIntegrityError
          /\ task' = [task EXCEPT ![w] = Idle]
          /\ UNCHANGED <<status, links, primary>>
    /\ UNCHANGED <<mergedInto, decisions, history>>

\* (Mutant of Others: only sets nobody has begun to review.)
OthersInInbox(s) ==
    {t \in Sets \ {s} : /\ Unmerged(t) /\ primary[t] # NoSet
                        /\ status[t] = "inbox"
                        /\ Provider[primary[t]] # Provider[primary[s]]}

\* The sets to compare a set with: the unmerged ones of other providers.
Others(s) ==
    {t \in Sets \ {s} : /\ Unmerged(t) /\ primary[t] # NoSet
                        /\ Provider[primary[t]] # Provider[primary[s]]}

\* A merged set, or one without a primary link, suggests nothing.
List(w) ==
    LET s == task[w].set IN
    /\ task[w].pc = "list"
    /\ task' = [task EXCEPT ![w] =
          IF Unmerged(s) /\ primary[s] # NoSet
          THEN [@ EXCEPT !.pc = "compare", !.others = Others(s)]
          ELSE Idle]
    /\ UNCHANGED <<sets, decisions, history>>

\* The guards of create_merge_candidate.
MaySuggest(s, t) ==
    /\ Unmerged(s) /\ Unmerged(t)
    /\ primary[s] # NoSet /\ primary[t] # NoSet
    /\ Provider[primary[s]] # Provider[primary[t]]

\* (Mutant of Suggested: a candidate that names the sets the other way round
\* is not the candidate of this pair.)
SuggestedThisWay(p) == candidate[p] # "none"

\* A pair has one candidate, whichever way it names the two sets and whatever
\* has been decided on it.
Suggested(p) == candidate[p] # "none" \/ candidate[Turned(p)] # "none"

Remaining(w, t) == IF task[w].others = {t} THEN Idle
                   ELSE [task[w] EXCEPT !.others = @ \ {t}]

\* The score of two sets lies below the threshold or not: editors change the
\* titles it depends on.  The order of the comparisons is left open.
Compare(w, t) ==
    LET p == <<task[w].set, t>> IN
    /\ task[w].pc = "compare" /\ t \in task[w].others
    /\ \/ UNCHANGED candidate
       \/ /\ MaySuggest(Source(p), t) /\ ~Suggested(p)
          /\ candidate' = [candidate EXCEPT ![p] = "pending"]
    /\ task' = [task EXCEPT ![w] = Remaining(w, t)]
    /\ passed' = passed \cup {{Source(p), t}}
    /\ UNCHANGED <<sets, before, byHand>>

\* create_merge_candidate raises for a set merged since it was listed, or the
\* worker dies: the set is compared with none of the remaining ones.
Abandon(w) ==
    /\ task[w].pc # "idle"
    /\ passed' = passed \cup
          {{task[w].set, t} : t \in CASE task[w].pc = "compare" -> task[w].others
                                      [] task[w].pc = "list" -> Sets \ {task[w].set}
                                      [] OTHER -> {}}
    /\ task' = [task EXCEPT ![w] = Idle]
    /\ UNCHANGED <<sets, decisions, byHand>>

\* Nothing is left to compare the set with.
Finish(w) ==
    /\ task[w].pc = "compare" /\ task[w].others = {}
    /\ task' = [task EXCEPT ![w] = Idle]
    /\ UNCHANGED <<sets, decisions, history>>

-----------------------------------------------------------------------------
(* Decisions on a candidate, and the review status of a set. *)

\* (Mutant of Snapshot: nothing is saved.)
SnapshotNothing(p) == Nothing

\* (Mutant of Snapshot: the status is that of the target.)
SnapshotOfTarget(p) ==
    [items |-> links[Source(p)], primary |-> primary[Source(p)],
     status |-> status[Target(p)], target |-> links[Target(p)]]

Snapshot(p) ==
    [items |-> links[Source(p)], primary |-> primary[Source(p)],
     status |-> status[Source(p)], target |-> links[Target(p)]]

Approve(p) ==
    LET s == Source(p) t == Target(p) IN
    /\ candidate[p] = "pending"
    /\ Unmerged(s) /\ Unmerged(t) /\ links[s] # {}
    /\ before' = [before EXCEPT ![p] = Snapshot(p)]
    /\ links' = [links EXCEPT ![s] = {}, ![t] = @ \cup links[s]]
    /\ primary' = [primary EXCEPT ![s] = NoSet]
    /\ mergedInto' = [mergedInto EXCEPT ![s] = t]
    /\ status' = [status EXCEPT ![s] = "rejected"]
    /\ candidate' = [candidate EXCEPT ![p] = "approved"]
    /\ UNCHANGED <<task, history>>

Reject(p) ==
    /\ candidate[p] = "pending"
    /\ candidate' = [candidate EXCEPT ![p] = "rejected"]
    /\ UNCHANGED <<sets, before, task, history>>

\* (Mutant of GivenBack: the target is put back to what it had before the
\* approval, without what was merged into it since.)
GivenBackWhole(p) == links[Target(p)] \ before[p].target

\* The items the target gives back: what the source brought, except what the
\* target had already.
GivenBack(p) == before[p].items \ before[p].target

Restore(p) ==
    LET s == Source(p) t == Target(p) IN
    /\ candidate[p] = "approved"
    /\ mergedInto[s] = t /\ Unmerged(t)
    /\ links' = [links EXCEPT ![s] = @ \cup before[p].items,
                              ![t] = @ \ GivenBack(p)]
    /\ primary' = [primary EXCEPT ![s] = before[p].primary]
    /\ mergedInto' = [mergedInto EXCEPT ![s] = NoSet]
    /\ status' = [status EXCEPT ![s] = before[p].status]
    /\ candidate' = [candidate EXCEPT ![p] = "restored"]
    /\ UNCHANGED <<before, task, history>>

\* update_set with a review status, by PATCH or by the publish and reject
\* routes; publish_set has read the set in an earlier transaction, so what it
\* has checked need not hold any more.  A merged set is patched like any.
SetStatus(s, st) ==
    /\ Imported(s)
    /\ status' = [status EXCEPT ![s] = st]
    /\ byHand' = IF st = "published" THEN byHand \cup {s} ELSE byHand
    /\ UNCHANGED <<mergedInto, links, primary, decisions, task, passed>>

-----------------------------------------------------------------------------
Import(w) == \/ \E s \in Sets : Admit(w, s) \/ Compare(w, s)
             \/ Persist(w) \/ List(w) \/ Finish(w) \/ Abandon(w)

Decide(p) == Approve(p) \/ Reject(p) \/ Restore(p)

Patch(s) == \E st \in Patches : SetStatus(s, st)

MergeNext == \/ \E w \in Workers : Import(w)
             \/ \E p \in Pairs : Decide(p)
             \/ \E s \in Sets : Patch(s)

MergeSpec == Init /\ [][MergeNext]_vars

-----------------------------------------------------------------------------
(* What merge review promises. *)

\* What a set has, or had when it was merged, with all that had been merged
\* into it.
Holding(s) == IF mergedInto[s] = NoSet THEN links[s]
              ELSE before[<<s, mergedInto[s]>>].items

MergedInto(t) == {s \in Sets : mergedInto[s] = t}

\* Merges lose, copy and mix up no provider item, in whatever order they are
\* approved and restored: a set has its own item and those of the sets merged
\* into it, a merged set has none, and every unmerged set has its own item as
\* its primary one, without which no read of it succeeds.
LinksFollowMerges ==
    \A s \in Sets : Imported(s) =>
        /\ Holding(s) = {s} \cup UNION {Holding(u) : u \in MergedInto(s)}
        /\ mergedInto[s] # NoSet => links[s] = {} /\ primary[s] = NoSet
        /\ mergedInto[s] = NoSet => Projected(s)

\* A set is merged into another exactly if the candidate that says so is
\* approved, so that it can be restored; and a pair has one candidate, also if
\* the imports of its two sets suggest it at the same time, each its own way:
\* no set is merged into another and suggested the other way round.
MergesAreDecided ==
    \A p \in Pairs :
        /\ candidate[p] = "approved" <=> mergedInto[Source(p)] = Target(p)
        /\ candidate[p] = "none" \/ candidate[Turned(p)] = "none"

\* No set is published unless somebody has published it: neither an import,
\* nor a decision on a merge, nor its restoration does.
NeverAutoPublished == \A s \in Sets : status[s] = "published" => s \in byHand

InHand(s, t) ==
    \E w \in Workers :
        /\ task[w].set = s
        /\ \/ task[w].pc = "list"
           \/ task[w].pc = "compare" /\ t \in task[w].others

EverMerged(s) == \E p \in Pairs : Source(p) = s /\ candidate[p] \in {"approved", "restored"}

\* Of two sets of different providers, whichever is imported first and however
\* their imports interleave, one is compared with the other: an import lists
\* the others only after its own set is there to be listed.  Excepted are sets
\* that have been merged and imports that were cut short.
NoPairIsOverlooked ==
    \A s, t \in Sets :
        Imported(s) /\ Imported(t) /\ Provider[s] # Provider[t] =>
            \/ {s, t} \in passed
            \/ InHand(s, t) \/ InHand(t, s)
            \/ EverMerged(s) \/ EverMerged(t)
=============================================================================
