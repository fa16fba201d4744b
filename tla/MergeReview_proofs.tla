------------------------- MODULE MergeReview_proofs -------------------------
(***************************************************************************)
(* Safety of merges, for any sets, providers and imports.                  *)
(***************************************************************************)
EXTENDS MergeReview, TLAPS

-----------------------------------------------------------------------------
(* The inductive invariant. *)

\* Before its import a set has nothing; after it, its primary link is to its
\* own item unless it is merged; a merge leads from an import to another.
RowAgrees(s) ==
    /\ ~Imported(s) =>
          mergedInto[s] = NoSet /\ links[s] = {} /\ primary[s] = NoSet
    /\ mergedInto[s] # NoSet =>
          /\ Imported(s) /\ Imported(mergedInto[s])
          /\ mergedInto[s] # s
          /\ links[s] = {} /\ primary[s] = NoSet
    /\ Unmerged(s) => primary[s] = s

RowsAgree == \A s \in Sets : RowAgrees(s)

\* What an approval has saved is disjoint from what its target had.
SavedStates ==
    \A p \in Pairs : candidate[p] = "approved" =>
        /\ mergedInto[Source(p)] = Target(p)
        /\ before[p].primary = Source(p)
        /\ before[p].items \cap before[p].target = {}
        /\ before[p].status = "published" => Source(p) \in byHand

\* The items of a set, and why those a source brings are no one else's: what
\* two unmerged sets hold is disjoint, and so is what two sets held that are
\* merged into the same one; a target's own item comes from no source.
Composition ==
    \A s \in Sets : Imported(s) =>
        Holding(s) = {s} \cup UNION {Holding(u) : u \in MergedInto(s)}

Disjoint ==
    \A s, t \in Sets :
        /\ s # t /\ mergedInto[s] = mergedInto[t] => Holding(s) \cap Holding(t) = {}
        /\ mergedInto[s] = t => t \notin Holding(s)

HeldAreImported == \A s \in Sets : \A i \in Holding(s) : Imported(i)

\* Only imported sets are suggested, listed or compared.
WorkAgrees ==
    /\ \A p \in Pairs : candidate[p] # "none" => Imported(Source(p)) /\ Imported(Target(p))
    /\ \A w \in Workers : task[w].pc # "idle" => task[w].set \in Sets

IInv == /\ TypeOK /\ RowsAgree /\ SavedStates /\ Composition /\ Disjoint
        /\ HeldAreImported /\ WorkAgrees /\ MergesAreDecided /\ NeverAutoPublished

-----------------------------------------------------------------------------
(* Lemmas about pairs. *)

LEMMA PairFacts ==
  ASSUME NEW p \in Pairs
  PROVE  /\ Source(p) \in Sets /\ Target(p) \in Sets /\ Source(p) # Target(p)
         /\ p = <<Source(p), Target(p)>>
         /\ Turned(p) \in Pairs /\ Turned(p) # p /\ Turned(Turned(p)) = p
  BY DEF Pairs, Source, Target, Turned

LEMMA PairIsPair ==
  ASSUME NEW s \in Sets, NEW t \in Sets, s # t
  PROVE  <<s, t>> \in Pairs /\ Source(<<s, t>>) = s /\ Target(<<s, t>>) = t
  BY DEF Pairs, Source, Target

\* A merged set has an approved candidate with its saved state.
LEMMA MergedHasCandidate ==
  ASSUME IInv, NEW s \in Sets, mergedInto[s] # NoSet
  PROVE  /\ mergedInto[s] \in Sets
         /\ <<s, mergedInto[s]>> \in Pairs
         /\ candidate[<<s, mergedInto[s]>>] = "approved"
         /\ before[<<s, mergedInto[s]>>] \in BeforeState
  <1>1. mergedInto[s] \in Sets /\ mergedInto[s] # s
    BY DEF IInv, TypeOK, RowsAgree, RowAgrees
  <1>2. /\ <<s, mergedInto[s]>> \in Pairs
        /\ Source(<<s, mergedInto[s]>>) = s
        /\ Target(<<s, mergedInto[s]>>) = mergedInto[s]
    BY <1>1, PairIsPair
  <1>3. candidate[<<s, mergedInto[s]>>] = "approved"
    BY <1>2 DEF IInv, MergesAreDecided
  <1> QED
    BY <1>1, <1>2, <1>3 DEF IInv, TypeOK

\* What a set holds are sets.
LEMMA HoldingType ==
  ASSUME IInv, NEW s \in Sets
  PROVE  Holding(s) \subseteq Sets
  <1>1. CASE mergedInto[s] = NoSet
    BY <1>1 DEF Holding, IInv, TypeOK
  <1>2. CASE mergedInto[s] # NoSet
    BY <1>2, MergedHasCandidate DEF Holding, BeforeState
  <1> QED BY <1>1, <1>2

-----------------------------------------------------------------------------
(* A step that moves no item keeps what the sets hold. *)

LEMMA NothingMoves ==
  ASSUME IInv, TypeOK', MergesAreDecided', NeverAutoPublished', WorkAgrees',
         UNCHANGED <<mergedInto, links, primary, before>>,
         byHand \subseteq byHand',
         \A s \in Sets : Imported(s)' <=> Imported(s),
         \A p \in Pairs : candidate'[p] = "approved" => candidate[p] = "approved"
  PROVE  IInv'
  <1>1. \A s : Holding(s)' = Holding(s)
    BY DEF Holding
  <1>2. \A s : MergedInto(s)' = MergedInto(s)
    BY DEF MergedInto
  <1>3. RowsAgree'
    <2> SUFFICES ASSUME NEW s \in Sets PROVE RowAgrees(s)'
      BY DEF RowsAgree
    <2>1. RowAgrees(s)
      BY DEF IInv, RowsAgree
    <2>2. mergedInto[s] # NoSet => mergedInto[s] \in Sets
      BY DEF IInv, TypeOK
    <2> QED BY <2>1, <2>2 DEF RowAgrees, Unmerged
  <1>4. SavedStates'
    BY DEF IInv, SavedStates
  <1>5. Composition'
    BY <1>1, <1>2 DEF IInv, Composition
  <1>6. Disjoint'
    BY <1>1 DEF IInv, Disjoint
  <1>7. HeldAreImported'
    BY <1>1, HoldingType DEF IInv, HeldAreImported
  <1> QED BY <1>3, <1>4, <1>5, <1>6, <1>7 DEF IInv

LEMMA InitIInv == ASSUME Init PROVE IInv
  <1>1. TypeOK
    BY PairFacts DEF Init, TypeOK, Nothing, CandidateStatus, Task, Idle
  <1>2. RowsAgree /\ SavedStates /\ WorkAgrees /\ NeverAutoPublished
    BY PairFacts DEF Init, RowsAgree, RowAgrees, SavedStates, WorkAgrees, NeverAutoPublished,
                     Imported, Unmerged, Idle
  <1>3. MergesAreDecided
    BY PairFacts, SetsAssumption DEF Init, MergesAreDecided
  <1>4. Composition
    BY DEF Init, Composition, Imported
  <1>5. Disjoint /\ HeldAreImported
    BY SetsAssumption DEF Init, Disjoint, HeldAreImported, Holding
  <1> QED BY <1>1, <1>2, <1>3, <1>4, <1>5 DEF IInv

-----------------------------------------------------------------------------
(* The steps of an import that moves no item. *)

USE DEF sets, decisions, history

LEMMA AdmitStep ==
  ASSUME IInv, NEW w \in Workers, NEW s \in Sets, Admit(w, s)
  PROVE  IInv'
  <1> USE DEF Admit
  <1>1. TypeOK'
    BY DEF IInv, TypeOK, Task
  <1>2. WorkAgrees'
    BY DEF IInv, TypeOK, WorkAgrees, Imported
  <1>3. MergesAreDecided' /\ NeverAutoPublished'
    BY DEF IInv, MergesAreDecided, NeverAutoPublished
  <1> QED BY <1>1, <1>2, <1>3, NothingMoves DEF Imported

\* The work of one import changes, and no row does.
LEMMA TaskStep ==
  ASSUME IInv, NEW w \in Workers, task[w].pc # "idle",
         UNCHANGED <<sets, decisions, byHand>>, passed' \subseteq SUBSET Sets,
         NEW t \in Task, task' = [task EXCEPT ![w] = t],
         t.pc # "idle" => t.set = task[w].set
  PROVE  IInv'
  <1>1. TypeOK'
    BY DEF IInv, TypeOK
  <1>2. WorkAgrees'
    BY DEF IInv, TypeOK, WorkAgrees, Imported
  <1>3. MergesAreDecided' /\ NeverAutoPublished'
    BY DEF IInv, MergesAreDecided, NeverAutoPublished
  <1> QED BY <1>1, <1>2, <1>3, NothingMoves DEF Imported

LEMMA IdleIsTask == Idle \in Task
  BY DEF Idle, Task

LEMMA ListStep ==
  ASSUME IInv, NEW w \in Workers, List(w)
  PROVE  IInv'
  <1> DEFINE s == task[w].set
             t == IF Unmerged(s) /\ primary[s] # NoSet
                  THEN [task[w] EXCEPT !.pc = "compare", !.others = Others(s)] ELSE Idle
  <1>1. task[w] \in Task /\ task[w].pc = "list" /\ task' = [task EXCEPT ![w] = t]
    BY DEF List, IInv, TypeOK
  <1>2. t \in Task /\ (t.pc # "idle" => t.set = task[w].set)
    BY <1>1, IdleIsTask DEF Task, Others, Idle
  <1>3. UNCHANGED <<sets, decisions, history>> /\ passed' \subseteq SUBSET Sets
    BY DEF List, IInv, TypeOK
  <1> QED
    BY <1>1, <1>2, <1>3, TaskStep

LEMMA AbandonStep ==
  ASSUME IInv, NEW w \in Workers, Abandon(w)
  PROVE  IInv'
  <1>1. task[w] \in Task /\ task[w].pc # "idle" /\ task[w].set \in Sets
    BY DEF Abandon, IInv, TypeOK, WorkAgrees
  <1>2. passed' \subseteq SUBSET Sets
    BY <1>1 DEF Abandon, IInv, TypeOK, Task
  <1>3. Idle \in Task /\ Idle.pc = "idle"
    BY IdleIsTask DEF Idle
  <1> QED
    BY <1>1, <1>2, <1>3, TaskStep DEF Abandon

LEMMA FinishStep ==
  ASSUME IInv, NEW w \in Workers, Finish(w)
  PROVE  IInv'
  <1>1. Idle \in Task /\ Idle.pc = "idle" /\ passed \subseteq SUBSET Sets
    BY IdleIsTask DEF Idle, IInv, TypeOK
  <1> QED
    BY <1>1, TaskStep DEF Finish

\* A candidate is suggested for two imported sets of different providers, so
\* for a pair, which has none yet.
LEMMA CompareStep ==
  ASSUME IInv, NEW w \in Workers, NEW t \in Sets, Compare(w, t)
  PROVE  IInv'
  <1> DEFINE s == task[w].set
             p == <<s, t>>
  <1>1. task[w] \in Task /\ task[w].pc # "idle" /\ s \in Sets
    BY DEF Compare, IInv, TypeOK, WorkAgrees
  <1>2. Remaining(w, t) \in Task
        /\ (Remaining(w, t).pc # "idle" => Remaining(w, t).set = task[w].set)
    BY <1>1, IdleIsTask DEF Remaining, Task, Idle
  <1>3. passed' \subseteq SUBSET Sets
    BY <1>1 DEF Compare, Source, IInv, TypeOK
  <1>4. CASE UNCHANGED candidate
    BY <1>1, <1>2, <1>3, <1>4, TaskStep DEF Compare
  <1>5. CASE /\ MaySuggest(s, t) /\ ~Suggested(p)
             /\ candidate' = [candidate EXCEPT ![p] = "pending"]
    <2>1. s # t /\ p \in Pairs /\ Source(p) = s /\ Target(p) = t
      BY <1>1, <1>5, PairIsPair DEF MaySuggest
    <2>2. Turned(p) \in Pairs /\ Turned(p) # p /\ Turned(Turned(p)) = p
      BY <2>1, PairFacts
    <2>3. UNCHANGED <<sets, before, byHand>> /\ task' = [task EXCEPT ![w] = Remaining(w, t)]
      BY DEF Compare
    <2>4. TypeOK'
      BY <1>2, <1>3, <1>5, <2>1, <2>3 DEF IInv, TypeOK, CandidateStatus
    <2>5. \A q \in Pairs : candidate'[q] = IF q = p THEN "pending" ELSE candidate[q]
      BY <1>5, <2>1 DEF IInv, TypeOK
    <2>6. candidate[p] = "none" /\ candidate[Turned(p)] = "none"
      BY <1>5 DEF Suggested
    <2>7. \A q \in Pairs : Turned(q) = p => q = Turned(p)
      BY PairFacts
    <2>8. MergesAreDecided'
      <3> SUFFICES ASSUME NEW q \in Pairs
                   PROVE  /\ candidate'[q] = "approved" <=> mergedInto'[Source(q)] = Target(q)
                          /\ candidate'[q] = "none" \/ candidate'[Turned(q)] = "none"
        BY DEF MergesAreDecided
      <3>1. Turned(q) \in Pairs
        BY PairFacts
      <3>2. candidate[q] = "approved" <=> mergedInto[Source(q)] = Target(q)
        BY DEF IInv, MergesAreDecided
      <3>3. candidate'[q] = "approved" <=> candidate[q] = "approved"
        BY <2>5, <2>6
      <3>4. candidate[q] = "none" \/ candidate[Turned(q)] = "none"
        BY DEF IInv, MergesAreDecided
      <3>5. candidate'[q] = "none" \/ candidate'[Turned(q)] = "none"
        BY <2>2, <2>5, <2>6, <2>7, <3>1, <3>4
      <3> QED BY <2>3, <3>2, <3>3, <3>5
    <2>9. WorkAgrees'
      <3>1. Imported(s) /\ Imported(t)
        BY <1>5 DEF MaySuggest, Unmerged
      <3>2. \A q \in Pairs : candidate'[q] # "none" => Imported(Source(q)) /\ Imported(Target(q))
        BY <2>1, <2>5, <3>1 DEF IInv, WorkAgrees
      <3>3. \A v \in Workers : task'[v].pc # "idle" => task'[v].set \in Sets
        BY <1>1, <1>2, <2>3 DEF IInv, TypeOK, WorkAgrees
      <3> QED BY <2>3, <3>2, <3>3 DEF WorkAgrees, Imported
    <2>10. NeverAutoPublished'
      BY <2>3 DEF IInv, NeverAutoPublished
    <2>11. \A q \in Pairs : candidate'[q] = "approved" => candidate[q] = "approved"
      BY <2>5
    <2> QED
      BY <2>3, <2>4, <2>8, <2>9, <2>10, <2>11, NothingMoves DEF Imported
  <1> QED BY <1>4, <1>5 DEF Compare, Source

-----------------------------------------------------------------------------
(* An import stores its set, or finds it stored. *)

LEMMA PersistStep ==
  ASSUME IInv, NEW w \in Workers, NEW s, s = task[w].set, Persist(w)
  PROVE  IInv'
  <1>1. task[w] \in Task /\ task[w].pc = "persist" /\ s \in Sets
    BY DEF Persist, IInv, TypeOK, WorkAgrees
  <1>2. /\ [task[w] EXCEPT !.pc = "list"] \in Task
        /\ [task[w] EXCEPT !.pc = "list"].set = s
        /\ Idle \in Task /\ Idle.pc = "idle" /\ passed \subseteq SUBSET Sets
    BY <1>1, IdleIsTask DEF Task, Idle, IInv, TypeOK
  <1>3. CASE Imported(s)
    <2>1. CASE task' = [task EXCEPT ![w] = [task[w] EXCEPT !.pc = "list"]]
      BY <1>1, <1>2, <1>3, <2>1, TaskStep DEF Persist
    <2>2. CASE task' = [task EXCEPT ![w] = Idle]
      BY <1>1, <1>2, <1>3, <2>2, TaskStep DEF Persist
    <2> QED BY <1>1, <1>3, <2>1, <2>2 DEF Persist
  <1>4. CASE ~Imported(s)
    <2>1. /\ status' = [status EXCEPT ![s] = "inbox"]
          /\ links' = [links EXCEPT ![s] = {s}]
          /\ primary' = [primary EXCEPT ![s] = s]
          /\ task' = [task EXCEPT ![w] = [task[w] EXCEPT !.pc = "list"]]
          /\ UNCHANGED <<mergedInto, decisions, history>>
      BY <1>4 DEF Persist
    <2>2. TypeOK'
      BY <1>1, <1>2, <2>1 DEF IInv, TypeOK, ReviewStatus
    <2>3. /\ mergedInto[s] = NoSet /\ links[s] = {} /\ primary[s] = NoSet
          /\ MergedInto(s) = {}
      BY <1>1, <1>4, SetsAssumption DEF IInv, RowsAgree, RowAgrees, MergedInto
    <2>4. \A u \in Sets : Imported(u)' <=> (Imported(u) \/ u = s)
      BY <1>1, <2>1 DEF IInv, TypeOK, Imported
    <2>5. /\ Holding(s)' = {s} /\ Holding(s) = {}
          /\ \A u \in Sets \ {s} : Holding(u)' = Holding(u)
      BY <1>1, <2>1, <2>3 DEF Holding, IInv, TypeOK
    <2>6. \A u : MergedInto(u)' = MergedInto(u)
      BY <2>1 DEF MergedInto
    <2>7. RowsAgree'
      <3> SUFFICES ASSUME NEW u \in Sets PROVE RowAgrees(u)'
        BY DEF RowsAgree
      <3>1. RowAgrees(u)
        BY DEF IInv, RowsAgree
      <3>2. mergedInto[u] # NoSet => mergedInto[u] \in Sets
        BY DEF IInv, TypeOK
      <3>3. CASE u = s
        BY <1>1, <2>1, <2>3, <2>4, <3>3 DEF IInv, TypeOK, RowAgrees, Unmerged
      <3>4. CASE u # s
        <4>1. links'[u] = links[u] /\ primary'[u] = primary[u] /\ mergedInto' = mergedInto
          BY <1>1, <2>1, <3>4 DEF IInv, TypeOK
        <4> QED BY <2>4, <3>1, <3>2, <3>4, <4>1 DEF RowAgrees, Unmerged
      <3> QED BY <3>3, <3>4
    <2>8. SavedStates'
      BY <2>1 DEF IInv, SavedStates
    <2>9. Composition'
      <3> SUFFICES ASSUME NEW u \in Sets, Imported(u)'
                   PROVE  Holding(u)' = {u} \cup UNION {Holding(v)' : v \in MergedInto(u)'}
        BY DEF Composition
      <3>1. CASE u = s
        <4>1. UNION {Holding(v)' : v \in MergedInto(u)'} = {}
          BY <2>3, <2>6, <3>1
        <4> QED BY <2>5, <3>1, <4>1
      <3>2. CASE u # s
        <4>1. Holding(u) = {u} \cup UNION {Holding(v) : v \in MergedInto(u)}
          BY <2>4, <3>2 DEF IInv, Composition
        <4>2. s \notin MergedInto(u)
          BY <2>3, SetsAssumption DEF MergedInto
        <4>3. \A v \in MergedInto(u) : Holding(v)' = Holding(v)
          BY <2>5, <4>2 DEF MergedInto
        <4> QED BY <2>5, <2>6, <3>2, <4>1, <4>3
      <3> QED BY <3>1, <3>2
    <2>10. \A u \in Sets : s \notin Holding(u)
      BY <1>1, <1>4 DEF IInv, HeldAreImported
    <2>11. Disjoint'
      BY <1>1, <2>1, <2>3, <2>5, <2>10, SetsAssumption DEF IInv, Disjoint
    <2>12. HeldAreImported'
      <3> SUFFICES ASSUME NEW u \in Sets, NEW i \in Holding(u)'
                   PROVE  Imported(i)'
        BY DEF HeldAreImported
      <3>1. CASE u = s
        BY <2>4, <2>5, <3>1
      <3>2. CASE u # s
        <4>1. i \in Holding(u)
          BY <2>5, <3>2
        <4>2. i \in Sets /\ Imported(i)
          BY <4>1, HoldingType DEF IInv, HeldAreImported
        <4> QED BY <2>4, <4>2
      <3> QED BY <3>1, <3>2
    <2>13. WorkAgrees'
      <3>1. \A p \in Pairs : candidate'[p] # "none" => Imported(Source(p))' /\ Imported(Target(p))'
        BY <2>1, <2>4, PairFacts DEF IInv, WorkAgrees
      <3>2. \A v \in Workers : task'[v].pc # "idle" => task'[v].set \in Sets
        BY <1>1, <1>2, <2>1 DEF IInv, TypeOK, WorkAgrees
      <3> QED BY <3>1, <3>2 DEF WorkAgrees
    <2>14. MergesAreDecided'
      BY <2>1 DEF IInv, MergesAreDecided
    <2>15. NeverAutoPublished'
      BY <1>1, <2>1 DEF IInv, TypeOK, NeverAutoPublished
    <2> QED
      BY <2>2, <2>7, <2>8, <2>9, <2>11, <2>12, <2>13, <2>14, <2>15 DEF IInv
  <1> QED BY <1>3, <1>4

-----------------------------------------------------------------------------
(* Editors, and the decisions on a candidate. *)

LEMMA SetStatusStep ==
  ASSUME IInv, NEW s \in Sets, NEW st \in Patches, SetStatus(s, st)
  PROVE  IInv'
  <1> USE DEF SetStatus
  <1>1. st \in ReviewStatus /\ st # "none"
    BY PatchesAssumption DEF ReviewStatus
  <1>2. \A u \in Sets : Imported(u)' <=> Imported(u)
    BY <1>1 DEF IInv, TypeOK, Imported
  <1>3. TypeOK'
    BY <1>1 DEF IInv, TypeOK
  <1>4. WorkAgrees'
    BY <1>2, PairFacts DEF IInv, WorkAgrees
  <1>5. MergesAreDecided'
    BY DEF IInv, MergesAreDecided
  <1>6. NeverAutoPublished' /\ byHand \subseteq byHand'
    BY DEF IInv, TypeOK, NeverAutoPublished
  <1> QED BY <1>2, <1>3, <1>4, <1>5, <1>6, NothingMoves

LEMMA RejectStep ==
  ASSUME IInv, NEW p \in Pairs, Reject(p)
  PROVE  IInv'
  <1> USE DEF Reject
  <1>1. TypeOK'
    BY DEF IInv, TypeOK, CandidateStatus
  <1>2. \A q \in Pairs : candidate'[q] = IF q = p THEN "rejected" ELSE candidate[q]
    BY DEF IInv, TypeOK
  <1>3. WorkAgrees'
    BY <1>2 DEF IInv, WorkAgrees, Imported
  <1>4. MergesAreDecided'
    <2> SUFFICES ASSUME NEW q \in Pairs
                 PROVE  /\ candidate'[q] = "approved" <=> mergedInto'[Source(q)] = Target(q)
                        /\ candidate'[q] = "none" \/ candidate'[Turned(q)] = "none"
      BY DEF MergesAreDecided
    <2>1. Turned(q) \in Pairs
      BY PairFacts
    <2>2. /\ candidate[q] = "approved" <=> mergedInto[Source(q)] = Target(q)
          /\ candidate[q] = "none" \/ candidate[Turned(q)] = "none"
      BY DEF IInv, MergesAreDecided
    <2> QED BY <1>2, <2>1, <2>2
  <1>5. NeverAutoPublished'
    BY DEF IInv, NeverAutoPublished
  <1>6. \A q \in Pairs : candidate'[q] = "approved" => candidate[q] = "approved"
    BY <1>2
  <1> QED BY <1>1, <1>3, <1>4, <1>5, <1>6, NothingMoves DEF Imported

\* An approval hands what the source holds to the target; every other set
\* holds what it held.
LEMMA ApproveStep ==
  ASSUME IInv, NEW p \in Pairs, NEW s, NEW t, s = Source(p), t = Target(p), Approve(p)
  PROVE  IInv'
  <1>1. s \in Sets /\ t \in Sets /\ s # t /\ p = <<s, t>>
    BY PairFacts
  <1>2. /\ candidate[p] = "pending" /\ Imported(s) /\ Imported(t)
        /\ mergedInto[s] = NoSet /\ mergedInto[t] = NoSet
        /\ before' = [before EXCEPT ![p] = Snapshot(p)]
        /\ links' = [links EXCEPT ![s] = {}, ![t] = @ \cup links[s]]
        /\ primary' = [primary EXCEPT ![s] = NoSet]
        /\ mergedInto' = [mergedInto EXCEPT ![s] = t]
        /\ status' = [status EXCEPT ![s] = "rejected"]
        /\ candidate' = [candidate EXCEPT ![p] = "approved"]
        /\ UNCHANGED <<task, history>>
    BY DEF Approve, Unmerged
  <1>3. Snapshot(p) = [items |-> links[s], primary |-> primary[s],
                       status |-> status[s], target |-> links[t]]
        /\ Snapshot(p) \in BeforeState
    BY <1>1, <1>2 DEF Snapshot, BeforeState, IInv, TypeOK, Imported
  <1>4. TypeOK'
    BY <1>1, <1>2, <1>3 DEF IInv, TypeOK, CandidateStatus, ReviewStatus
  <1>5. \A u \in Sets : Imported(u)' <=> Imported(u)
    BY <1>1, <1>2 DEF IInv, TypeOK, Imported
  <1>6. /\ Holding(s) = links[s] /\ Holding(t) = links[t] /\ primary[s] = s
        /\ Holding(s) \cap Holding(t) = {}
    <2>1. Holding(s) = links[s] /\ Holding(t) = links[t]
      BY <1>2 DEF Holding
    <2>2. RowAgrees(s)
      BY <1>1 DEF IInv, RowsAgree
    <2>3. primary[s] = s
      BY <1>2, <2>2 DEF RowAgrees, Unmerged
    <2>4. Holding(s) \cap Holding(t) = {}
      BY <1>1, <1>2 DEF IInv, Disjoint
    <2> QED BY <2>1, <2>3, <2>4
  <1>7. Holding(s)' = Holding(s) /\ Holding(t)' = Holding(t) \cup Holding(s)
    BY <1>1, <1>2, <1>3, <1>6, SetsAssumption DEF Holding, IInv, TypeOK
  <1>8. \A u \in Sets \ {s, t} : Holding(u)' = Holding(u)
    <2> SUFFICES ASSUME NEW u \in Sets \ {s, t} PROVE Holding(u)' = Holding(u)
      OBVIOUS
    <2>1. mergedInto'[u] = mergedInto[u] /\ links'[u] = links[u]
      BY <1>1, <1>2 DEF IInv, TypeOK
    <2>2. CASE mergedInto[u] # NoSet
      <3>1. <<u, mergedInto[u]>> \in Pairs /\ <<u, mergedInto[u]>> # p
        BY <1>1, <2>2, MergedHasCandidate
      <3>2. before'[<<u, mergedInto[u]>>] = before[<<u, mergedInto[u]>>]
        BY <1>2, <3>1 DEF IInv, TypeOK
      <3> QED BY <2>1, <2>2, <3>2 DEF Holding
    <2>3. CASE mergedInto[u] = NoSet
      BY <2>1, <2>3 DEF Holding
    <2> QED BY <2>2, <2>3
  <1>9. /\ MergedInto(t)' = MergedInto(t) \cup {s}
        /\ \A u \in Sets \ {t} : MergedInto(u)' = MergedInto(u)
        /\ \A u \in Sets : s \notin MergedInto(u) /\ t \notin MergedInto(u)
    BY <1>1, <1>2, SetsAssumption DEF MergedInto, IInv, TypeOK
  <1>10. RowsAgree'
    <2> SUFFICES ASSUME NEW u \in Sets PROVE RowAgrees(u)'
      BY DEF RowsAgree
    <2>1. RowAgrees(u)
      BY DEF IInv, RowsAgree
    <2>2. mergedInto[u] # NoSet => mergedInto[u] \in Sets
      BY DEF IInv, TypeOK
    <2>3. CASE u = s
      BY <1>1, <1>2, <1>5, <2>3, SetsAssumption DEF IInv, TypeOK, RowAgrees, Unmerged
    <2>4. CASE u # s
      <3>1. /\ mergedInto'[u] = mergedInto[u] /\ primary'[u] = primary[u]
            /\ u # t => links'[u] = links[u]
        BY <1>1, <1>2, <2>4 DEF IInv, TypeOK
      <3>2. CASE u = t
        BY <1>1, <1>2, <1>5, <2>1, <3>1, <3>2 DEF RowAgrees, Unmerged
      <3>3. CASE u # t
        BY <1>5, <2>1, <2>2, <3>1, <3>3 DEF RowAgrees, Unmerged
      <3> QED BY <3>2, <3>3
    <2> QED BY <2>3, <2>4
  <1>11. \A q \in Pairs \ {p} : /\ candidate'[q] = candidate[q] /\ before'[q] = before[q]
                                /\ mergedInto'[Source(q)] = Target(q) <=>
                                      mergedInto[Source(q)] = Target(q)
    <2> SUFFICES ASSUME NEW q \in Pairs \ {p}
                 PROVE  /\ candidate'[q] = candidate[q] /\ before'[q] = before[q]
                        /\ mergedInto'[Source(q)] = Target(q) <=>
                              mergedInto[Source(q)] = Target(q)
      OBVIOUS
    <2>1. /\ Source(q) \in Sets /\ Target(q) \in Sets /\ q = <<Source(q), Target(q)>>
          /\ Target(q) # NoSet
      BY PairFacts, SetsAssumption
    <2>2. Source(q) = s => Target(q) # t
      BY <1>1, <2>1
    <2> QED BY <1>1, <1>2, <2>1, <2>2 DEF IInv, TypeOK
  <1>12. candidate'[p] = "approved" /\ before'[p] = Snapshot(p) /\ mergedInto'[s] = t
    BY <1>1, <1>2 DEF IInv, TypeOK
  <1>13. SavedStates'
    <2> SUFFICES ASSUME NEW q \in Pairs, candidate'[q] = "approved"
                 PROVE  /\ mergedInto'[Source(q)] = Target(q)
                        /\ before'[q].primary = Source(q)
                        /\ before'[q].items \cap before'[q].target = {}
                        /\ before'[q].status = "published" => Source(q) \in byHand'
      BY DEF SavedStates
    <2>1. CASE q = p
      <3>1. status[s] = "published" => s \in byHand
        BY <1>1 DEF IInv, NeverAutoPublished
      <3> QED BY <1>2, <1>3, <1>6, <1>12, <2>1, <3>1
    <2>2. CASE q # p
      BY <1>2, <1>11, <2>2 DEF IInv, SavedStates
    <2> QED BY <2>1, <2>2
  <1>14. Composition'
    <2> SUFFICES ASSUME NEW u \in Sets, Imported(u)'
                 PROVE  Holding(u)' = {u} \cup UNION {Holding(v)' : v \in MergedInto(u)'}
      BY DEF Composition
    <2>1. Holding(u) = {u} \cup UNION {Holding(v) : v \in MergedInto(u)}
      BY <1>5 DEF IInv, Composition
    <2>2. \A v \in MergedInto(u) : Holding(v)' = Holding(v)
      BY <1>8, <1>9 DEF MergedInto
    <2>3. CASE u = t
      BY <1>7, <1>9, <2>1, <2>2, <2>3
    <2>4. CASE u # t
      <3>1. Holding(u)' = Holding(u)
        BY <1>7, <1>8, <2>4
      <3> QED BY <1>9, <2>1, <2>2, <2>4, <3>1
    <2> QED BY <2>3, <2>4
  <1>15. Disjoint'
    <2> SUFFICES ASSUME NEW a \in Sets, NEW b \in Sets
                 PROVE  /\ a # b /\ mergedInto'[a] = mergedInto'[b] =>
                             Holding(a)' \cap Holding(b)' = {}
                        /\ mergedInto'[a] = b => b \notin Holding(a)'
      BY DEF Disjoint
    <2>1. \A c \in Sets : mergedInto'[c] = IF c = s THEN t ELSE mergedInto[c]
      BY <1>1, <1>2 DEF IInv, TypeOK
    <2>2. \A c, d \in Sets : c # d /\ mergedInto[c] = mergedInto[d] =>
                               Holding(c) \cap Holding(d) = {}
      BY DEF IInv, Disjoint
    <2>3. \A c \in Sets : mergedInto[c] = t => Holding(c) \subseteq Holding(t)
      BY <1>1, <1>2 DEF IInv, Composition, MergedInto
    <2>4. \A c \in Sets : c # s /\ mergedInto[c] = t =>
                            Holding(c) \cap Holding(s) = {}
      BY <1>6, <2>3
    <2>5. ASSUME a # b, mergedInto'[a] = mergedInto'[b]
          PROVE  Holding(a)' \cap Holding(b)' = {}
      <3>1. CASE a = s
        <4>1. b # t /\ mergedInto[b] = t
          BY <1>1, <1>2, <2>1, <2>5, <3>1, SetsAssumption
        <4> QED BY <1>7, <1>8, <2>4, <2>5, <3>1, <4>1
      <3>2. CASE b = s
        <4>1. a # t /\ mergedInto[a] = t
          BY <1>1, <1>2, <2>1, <2>5, <3>2, SetsAssumption
        <4> QED BY <1>7, <1>8, <2>4, <2>5, <3>2, <4>1
      <3>3. CASE a # s /\ b # s
        <4>1. mergedInto[a] = mergedInto[b]
          BY <2>1, <2>5, <3>3
        <4>2. Holding(a) \cap Holding(b) = {}
          BY <2>2, <2>5, <4>1
        <4>3. a = t => Holding(s) \cap Holding(b) = {}
          BY <1>1, <1>2, <2>2, <3>3, <4>1
        <4>4. b = t => Holding(s) \cap Holding(a) = {}
          BY <1>1, <1>2, <2>2, <3>3, <4>1
        <4> QED BY <1>7, <1>8, <2>5, <3>3, <4>2, <4>3, <4>4
      <3> QED BY <3>1, <3>2, <3>3
    <2>6. ASSUME mergedInto'[a] = b
          PROVE  b \notin Holding(a)'
      <3>1. CASE a = s
        <4>1. t \in Holding(t)
          BY <1>1, <1>2 DEF IInv, Composition
        <4> QED BY <1>6, <1>7, <2>1, <2>6, <3>1, <4>1
      <3>2. CASE a # s
        <4>1. mergedInto[a] = b /\ a # t
          BY <1>2, <2>1, <2>6, <3>2, SetsAssumption
        <4> QED BY <1>8, <3>2, <4>1 DEF IInv, Disjoint
      <3> QED BY <3>1, <3>2
    <2> QED BY <2>5, <2>6
  <1>16. HeldAreImported'
    <2> SUFFICES ASSUME NEW u \in Sets, NEW i \in Holding(u)'
                 PROVE  Imported(i)'
      BY DEF HeldAreImported
    <2>1. \E v \in Sets : i \in Holding(v)
      BY <1>1, <1>7, <1>8
    <2>2. i \in Sets /\ Imported(i)
      BY <2>1, HoldingType DEF IInv, HeldAreImported
    <2> QED BY <1>5, <2>2
  <1>17. WorkAgrees'
    <2>1. \A q \in Pairs : candidate'[q] # "none" => Imported(Source(q))' /\ Imported(Target(q))'
      BY <1>1, <1>2, <1>5, <1>11, PairFacts DEF IInv, WorkAgrees
    <2> QED BY <1>2, <2>1 DEF IInv, WorkAgrees
  <1>18. MergesAreDecided'
    <2> SUFFICES ASSUME NEW q \in Pairs
                 PROVE  /\ candidate'[q] = "approved" <=> mergedInto'[Source(q)] = Target(q)
                        /\ candidate'[q] = "none" \/ candidate'[Turned(q)] = "none"
      BY DEF MergesAreDecided
    <2>1. Turned(q) \in Pairs
      BY PairFacts
    <2>2. \A r \in Pairs : candidate'[r] = "none" <=> candidate[r] = "none"
      BY <1>2, <1>11, <1>12
    <2>3. /\ candidate[q] = "approved" <=> mergedInto[Source(q)] = Target(q)
          /\ candidate[q] = "none" \/ candidate[Turned(q)] = "none"
      BY DEF IInv, MergesAreDecided
    <2> QED BY <1>11, <1>12, <2>1, <2>2, <2>3
  <1>19. NeverAutoPublished'
    BY <1>1, <1>2 DEF IInv, TypeOK, NeverAutoPublished
  <1> QED
    BY <1>4, <1>10, <1>13, <1>14, <1>15, <1>16, <1>17, <1>18, <1>19 DEF IInv

\* A restoration takes from the target exactly what the source held, whatever
\* has been merged into the target since.
LEMMA RestoreStep ==
  ASSUME IInv, NEW p \in Pairs, NEW s, NEW t, s = Source(p), t = Target(p), Restore(p)
  PROVE  IInv'
  <1>1. s \in Sets /\ t \in Sets /\ s # t /\ p = <<s, t>>
    BY PairFacts
  <1>2. /\ candidate[p] = "approved" /\ mergedInto[s] = t
        /\ Imported(t) /\ mergedInto[t] = NoSet
        /\ links' = [links EXCEPT ![s] = @ \cup before[p].items, ![t] = @ \ GivenBack(p)]
        /\ primary' = [primary EXCEPT ![s] = before[p].primary]
        /\ mergedInto' = [mergedInto EXCEPT ![s] = NoSet]
        /\ status' = [status EXCEPT ![s] = before[p].status]
        /\ candidate' = [candidate EXCEPT ![p] = "restored"]
        /\ UNCHANGED <<before, task, history>>
    BY DEF Restore, Unmerged
  <1>3. before[p] \in BeforeState
    BY <1>2 DEF IInv, TypeOK
  <1>4. t # NoSet
    BY <1>1, SetsAssumption
  <1>5. /\ Imported(s) /\ links[s] = {}
        /\ \A u \in Sets : mergedInto[u] # NoSet => u # t
    BY <1>1, <1>2, <1>4 DEF IInv, RowsAgree, RowAgrees
  <1>6. /\ Holding(s) = before[p].items /\ Holding(t) = links[t]
        /\ GivenBack(p) = Holding(s) /\ before[p].primary = s
    <2>1. before[p].items \cap before[p].target = {} /\ before[p].primary = s
      BY <1>2 DEF IInv, SavedStates
    <2>2. Holding(s) = before[p].items /\ Holding(t) = links[t]
      BY <1>1, <1>2, <1>4 DEF Holding
    <2> QED BY <2>1, <2>2 DEF GivenBack
  <1>7. TypeOK'
    BY <1>1, <1>2, <1>3 DEF IInv, TypeOK, CandidateStatus, BeforeState
  <1>8. \A u \in Sets : Imported(u)' <=> Imported(u)
    BY <1>1, <1>2, <1>3, <1>5 DEF IInv, TypeOK, Imported, BeforeState, ReviewStatus
  <1>9. \A c \in Sets : mergedInto'[c] = IF c = s THEN NoSet ELSE mergedInto[c]
    BY <1>1, <1>2 DEF IInv, TypeOK
  <1>10. Holding(s)' = Holding(s) /\ Holding(t)' = Holding(t) \ Holding(s)
    BY <1>1, <1>2, <1>5, <1>6, <1>9 DEF Holding, IInv, TypeOK
  <1>11. \A u \in Sets \ {s, t} : Holding(u)' = Holding(u)
    BY <1>1, <1>2, <1>9 DEF Holding, IInv, TypeOK
  <1>12. /\ MergedInto(t)' = MergedInto(t) \ {s} /\ s \in MergedInto(t)
         /\ \A u \in Sets \ {t} : /\ MergedInto(u)' = MergedInto(u)
                                  /\ s \notin MergedInto(u)
         /\ \A u \in Sets : t \notin MergedInto(u)
    BY <1>1, <1>2, <1>4, <1>9, SetsAssumption DEF MergedInto
  <1>13. RowsAgree'
    <2> SUFFICES ASSUME NEW u \in Sets PROVE RowAgrees(u)'
      BY DEF RowsAgree
    <2>1. RowAgrees(u)
      BY DEF IInv, RowsAgree
    <2>2. mergedInto[u] # NoSet => mergedInto[u] \in Sets
      BY DEF IInv, TypeOK
    <2>3. CASE u = s
      BY <1>1, <1>2, <1>5, <1>6, <1>8, <1>9, <2>3
         DEF IInv, TypeOK, RowAgrees, Unmerged
    <2>4. CASE u # s
      <3>1. /\ mergedInto'[u] = mergedInto[u] /\ primary'[u] = primary[u]
            /\ u # t => links'[u] = links[u]
        BY <1>1, <1>2, <2>4 DEF IInv, TypeOK
      <3>2. CASE u = t
        BY <1>1, <1>2, <1>8, <2>1, <3>1, <3>2 DEF RowAgrees, Unmerged
      <3>3. CASE u # t
        BY <1>8, <2>1, <2>2, <3>1, <3>3 DEF RowAgrees, Unmerged
      <3> QED BY <3>2, <3>3
    <2> QED BY <2>3, <2>4
  <1>14. \A q \in Pairs : candidate'[q] = IF q = p THEN "restored" ELSE candidate[q]
    BY <1>2 DEF IInv, TypeOK
  <1>15. \A q \in Pairs : Source(q) = s /\ q # p =>
            mergedInto[s] # Target(q) /\ mergedInto'[s] # Target(q)
    <2> SUFFICES ASSUME NEW q \in Pairs, Source(q) = s, q # p
                 PROVE  mergedInto[s] # Target(q) /\ mergedInto'[s] # Target(q)
      OBVIOUS
    <2>1. Target(q) \in Sets /\ q = <<s, Target(q)>>
      BY PairFacts
    <2> QED BY <1>1, <1>2, <1>9, <2>1, SetsAssumption
  <1>16. SavedStates'
    <2> SUFFICES ASSUME NEW q \in Pairs, candidate'[q] = "approved"
                 PROVE  /\ mergedInto'[Source(q)] = Target(q)
                        /\ before'[q].primary = Source(q)
                        /\ before'[q].items \cap before'[q].target = {}
                        /\ before'[q].status = "published" => Source(q) \in byHand'
      BY DEF SavedStates
    <2>1. q # p /\ candidate[q] = "approved"
      BY <1>14
    <2>2. /\ mergedInto[Source(q)] = Target(q)
          /\ before[q].primary = Source(q)
          /\ before[q].items \cap before[q].target = {}
          /\ before[q].status = "published" => Source(q) \in byHand
      BY <2>1 DEF IInv, SavedStates
    <2>3. Source(q) \in Sets /\ Source(q) # s
      BY <1>15, <2>1, <2>2, PairFacts
    <2> QED BY <1>2, <1>9, <2>2, <2>3
  <1>17. Composition'
    <2> SUFFICES ASSUME NEW u \in Sets, Imported(u)'
                 PROVE  Holding(u)' = {u} \cup UNION {Holding(v)' : v \in MergedInto(u)'}
      BY DEF Composition
    <2>1. Holding(u) = {u} \cup UNION {Holding(v) : v \in MergedInto(u)}
      BY <1>8 DEF IInv, Composition
    <2>2. CASE u = t
      <3>1. \A v \in MergedInto(t) \ {s} :
               Holding(v)' = Holding(v) /\ Holding(v) \cap Holding(s) = {}
        BY <1>1, <1>2, <1>11, <1>12 DEF MergedInto, IInv, Disjoint
      <3>2. t \notin Holding(s)
        BY <1>1, <1>2 DEF IInv, Disjoint
      <3>3. Holding(t) = {t} \cup Holding(s)
                            \cup UNION {Holding(v) : v \in MergedInto(t) \ {s}}
        BY <1>12, <2>1, <2>2
      <3>4. UNION {Holding(v)' : v \in MergedInto(t)'}
               = UNION {Holding(v) : v \in MergedInto(t) \ {s}}
        BY <1>12, <3>1
      <3>5. Holding(s) \cap UNION {Holding(v) : v \in MergedInto(t) \ {s}} = {}
        BY <3>1
      <3> QED BY <1>10, <2>2, <3>2, <3>3, <3>4, <3>5
    <2>3. CASE u # t
      <3>1. \A v \in MergedInto(u) : Holding(v)' = Holding(v)
        BY <1>10, <1>11, <1>12 DEF MergedInto
      <3>2. Holding(u)' = Holding(u) /\ MergedInto(u)' = MergedInto(u)
        BY <1>10, <1>11, <1>12, <2>3
      <3> QED BY <2>1, <3>1, <3>2
    <2> QED BY <2>2, <2>3
  <1>18. Disjoint'
    <2> SUFFICES ASSUME NEW a \in Sets, NEW b \in Sets
                 PROVE  /\ a # b /\ mergedInto'[a] = mergedInto'[b] =>
                             Holding(a)' \cap Holding(b)' = {}
                        /\ mergedInto'[a] = b => b \notin Holding(a)'
      BY DEF Disjoint
    <2>1. \A c, d \in Sets : c # d /\ mergedInto[c] = mergedInto[d] =>
                               Holding(c) \cap Holding(d) = {}
      BY DEF IInv, Disjoint
    <2>2. Holding(s) \subseteq Holding(t)
      BY <1>1, <1>2 DEF IInv, Composition, MergedInto
    <2>3. \A c \in Sets : c # t /\ mergedInto[c] = NoSet =>
                            Holding(c) \cap Holding(s) = {}
      BY <1>1, <1>2, <2>1, <2>2
    <2>4. ASSUME a # b, mergedInto'[a] = mergedInto'[b]
          PROVE  Holding(a)' \cap Holding(b)' = {}
      <3>1. CASE a = s
        <4>1. mergedInto[b] = NoSet
          BY <1>9, <2>4, <3>1
        <4>2. b # t => Holding(b) \cap Holding(s) = {}
          BY <2>3, <4>1
        <4> QED BY <1>10, <1>11, <2>4, <3>1, <4>2
      <3>2. CASE b = s
        <4>1. mergedInto[a] = NoSet
          BY <1>9, <2>4, <3>2
        <4>2. a # t => Holding(a) \cap Holding(s) = {}
          BY <2>3, <4>1
        <4> QED BY <1>10, <1>11, <2>4, <3>2, <4>2
      <3>3. CASE a # s /\ b # s
        <4>1. Holding(a) \cap Holding(b) = {}
          BY <1>9, <2>1, <2>4, <3>3
        <4>2. Holding(a)' \subseteq Holding(a) /\ Holding(b)' \subseteq Holding(b)
          BY <1>10, <1>11, <3>3
        <4> QED BY <4>1, <4>2
      <3> QED BY <3>1, <3>2, <3>3
    <2>5. ASSUME mergedInto'[a] = b
          PROVE  b \notin Holding(a)'
      <3>1. a # s /\ mergedInto[a] = b
        BY <1>9, <2>5, SetsAssumption
      <3>2. Holding(a)' \subseteq Holding(a)
        BY <1>10, <1>11, <3>1
      <3> QED BY <3>1, <3>2 DEF IInv, Disjoint
    <2> QED BY <2>4, <2>5
  <1>19. HeldAreImported'
    <2> SUFFICES ASSUME NEW u \in Sets, NEW i \in Holding(u)'
                 PROVE  Imported(i)'
      BY DEF HeldAreImported
    <2>1. i \in Holding(u)
      BY <1>10, <1>11
    <2>2. i \in Sets /\ Imported(i)
      BY <2>1, HoldingType DEF IInv, HeldAreImported
    <2> QED BY <1>8, <2>2
  <1>20. WorkAgrees'
    <2>1. \A q \in Pairs : candidate'[q] # "none" => Imported(Source(q))' /\ Imported(Target(q))'
      BY <1>2, <1>8, <1>14, PairFacts DEF IInv, WorkAgrees
    <2> QED BY <1>2, <2>1 DEF IInv, WorkAgrees
  <1>21. MergesAreDecided'
    <2> SUFFICES ASSUME NEW q \in Pairs
                 PROVE  /\ candidate'[q] = "approved" <=> mergedInto'[Source(q)] = Target(q)
                        /\ candidate'[q] = "none" \/ candidate'[Turned(q)] = "none"
      BY DEF MergesAreDecided
    <2>1. Turned(q) \in Pairs /\ Source(q) \in Sets
      BY PairFacts
    <2>2. \A r \in Pairs : candidate'[r] = "none" <=> candidate[r] = "none"
      BY <1>2, <1>14
    <2>3. /\ candidate[q] = "approved" <=> mergedInto[Source(q)] = Target(q)
          /\ candidate[q] = "none" \/ candidate[Turned(q)] = "none"
      BY DEF IInv, MergesAreDecided
    <2>4. CASE q = p
      BY <1>1, <1>4, <1>9, <1>14, <2>1, <2>2, <2>3, <2>4
    <2>5. CASE q # p
      BY <1>9, <1>14, <1>15, <2>1, <2>2, <2>3, <2>5
    <2> QED BY <2>4, <2>5
  <1>22. NeverAutoPublished'
    <2>1. before[p].status = "published" => s \in byHand
      BY <1>2 DEF IInv, SavedStates
    <2> QED BY <1>1, <1>2, <2>1 DEF IInv, TypeOK, NeverAutoPublished
  <1> QED
    BY <1>7, <1>13, <1>16, <1>17, <1>18, <1>19, <1>20, <1>21, <1>22 DEF IInv

-----------------------------------------------------------------------------
(* The theorems. *)

LEMMA NextIInv == ASSUME IInv, [MergeNext]_vars PROVE IInv'
  <1>1. ASSUME NEW w \in Workers, Import(w) PROVE IInv'
    BY <1>1, AdmitStep, CompareStep, PersistStep, ListStep, FinishStep, AbandonStep DEF Import
  <1>2. ASSUME NEW p \in Pairs, Decide(p) PROVE IInv'
    BY <1>2, ApproveStep, RejectStep, RestoreStep DEF Decide
  <1>3. ASSUME NEW s \in Sets, Patch(s) PROVE IInv'
    BY <1>3, SetStatusStep DEF Patch
  <1>4. CASE UNCHANGED vars
    <2>1. /\ TypeOK' /\ MergesAreDecided' /\ NeverAutoPublished' /\ WorkAgrees'
          /\ \A s \in Sets : Imported(s)' <=> Imported(s)
      BY <1>4 DEF vars, IInv, TypeOK, MergesAreDecided, NeverAutoPublished, WorkAgrees, Imported
    <2> QED BY <1>4, <2>1, NothingMoves DEF vars
  <1> QED BY <1>1, <1>2, <1>3, <1>4 DEF MergeNext

THEOREM Invariance == MergeSpec => []IInv
  <1>1. Init => IInv
    BY InitIInv
  <1>2. IInv /\ [MergeNext]_vars => IInv'
    BY NextIInv
  <1> QED BY <1>1, <1>2, PTL DEF MergeSpec

\* The tables have their types.
THEOREM Types == MergeSpec => []TypeOK
  <1>1. IInv => TypeOK
    BY DEF IInv
  <1> QED BY <1>1, Invariance, PTL

\* Merges lose, copy and mix up no provider item, whatever the order in which
\* any number of them is approved and restored.
THEOREM Links == MergeSpec => []LinksFollowMerges
  <1>1. IInv => LinksFollowMerges
    BY DEF IInv, Composition, RowsAgree, RowAgrees, LinksFollowMerges, Unmerged, Projected
  <1> QED BY <1>1, Invariance, PTL

\* A merge is one approved candidate, and two sets have one candidate.
THEOREM Decided == MergeSpec => []MergesAreDecided
  <1>1. IInv => MergesAreDecided
    BY DEF IInv
  <1> QED BY <1>1, Invariance, PTL

\* Nothing but an editor publishes a set.
THEOREM Published == MergeSpec => []NeverAutoPublished
  <1>1. IInv => NeverAutoPublished
    BY DEF IInv
  <1> QED BY <1>1, Invariance, PTL

-----------------------------------------------------------------------------
(* Every two sets meet. *)

\* The import w is to compare s with t.
Has(w, s, t) ==
    /\ task[w].set = s
    /\ \/ task[w].pc = "list"
       \/ task[w].pc = "compare" /\ t \in task[w].others

Met(s, t) ==
    \/ {s, t} \in passed
    \/ \E w \in Workers : Has(w, s, t) \/ Has(w, t, s)
    \/ EverMerged(s) \/ EverMerged(t)

LEMMA MetDefinition ==
  NoPairIsOverlooked <=>
     \A s, t \in Sets : Imported(s) /\ Imported(t) /\ Provider[s] # Provider[t] => Met(s, t)
  BY DEF NoPairIsOverlooked, InHand, Met, Has

\* A merge leaves its mark, and a pair that has been compared stays so.
LEMMA MarksStay ==
  ASSUME IInv, MergeNext
  PROVE  /\ passed \subseteq passed'
         /\ \A s : EverMerged(s) => EverMerged(s)'
  <1>1. ASSUME NEW w \in Workers, Import(w) PROVE passed \subseteq passed'
    BY <1>1 DEF Import, Admit, Compare, Persist, List, Finish, Abandon, history
  <1>2. ASSUME NEW p \in Pairs, Decide(p) PROVE passed \subseteq passed'
    BY <1>2 DEF Decide, Approve, Reject, Restore, history
  <1>3. ASSUME NEW s \in Sets, Patch(s) PROVE passed \subseteq passed'
    BY <1>3 DEF Patch, SetStatus
  <1>4. ASSUME NEW q \in Pairs, candidate[q] \in {"approved", "restored"}
        PROVE  candidate'[q] \in {"approved", "restored"}
    <2>1. candidate \in [Pairs -> CandidateStatus]
      BY DEF IInv, TypeOK
    <2>2. ASSUME NEW w \in Workers, NEW t \in Sets, Compare(w, t)
          PROVE  candidate'[q] = candidate[q]
      BY <1>4, <2>1, <2>2 DEF Compare, Suggested
    <2>3. ASSUME NEW w \in Workers, Import(w) PROVE candidate'[q] = candidate[q]
      BY <2>2, <2>3 DEF Import, Admit, Persist, List, Finish, Abandon, decisions
    <2>4. ASSUME NEW p \in Pairs, Decide(p)
          PROVE  candidate'[q] \in {"approved", "restored"}
      BY <1>4, <2>1, <2>4 DEF Decide, Approve, Reject, Restore
    <2>5. ASSUME NEW s \in Sets, Patch(s) PROVE candidate'[q] = candidate[q]
      BY <2>5 DEF Patch, SetStatus, decisions
    <2> QED BY <1>4, <2>3, <2>4, <2>5 DEF MergeNext
  <1>5. \A s : EverMerged(s) => EverMerged(s)'
    BY <1>4 DEF EverMerged
  <1> QED BY <1>1, <1>2, <1>3, <1>5 DEF MergeNext

\* A set that is imported by this step is in the hands of its import.
LEMMA NewImport ==
  ASSUME IInv, MergeNext, NEW s \in Sets, Imported(s)', ~Imported(s)
  PROVE  \E w \in Workers : \A t : Has(w, s, t)'
  <1>1. status \in [Sets -> ReviewStatus \cup {"none"}] /\ task \in [Workers -> Task]
    BY DEF IInv, TypeOK
  <1>2. ASSUME NEW w \in Workers, Persist(w) PROVE \A t : Has(w, s, t)'
    <2>1. ~Imported(task[w].set) /\ status' = [status EXCEPT ![task[w].set] = "inbox"]
          /\ task' = [task EXCEPT ![w].pc = "list"]
      BY <1>2 DEF Persist, Imported
    <2>2. task[w].set = s
      BY <1>1, <2>1 DEF Imported
    <2>3. task'[w].set = s /\ task'[w].pc = "list"
      BY <1>1, <2>1, <2>2 DEF Task
    <2> QED BY <2>3 DEF Has
  <1>3. ASSUME UNCHANGED status PROVE FALSE
    BY <1>3 DEF Imported
  <1>4. ASSUME NEW w \in Workers, Import(w) PROVE Persist(w)
    BY <1>3, <1>4 DEF Import, Admit, Compare, List, Finish, Abandon, sets
  <1>5. ASSUME NEW p \in Pairs, Decide(p) PROVE FALSE
    <2>1. Source(p) \in Sets /\ Target(p) \in Sets /\ Target(p) # NoSet
      BY PairFacts, SetsAssumption
    <2>2. CASE Approve(p)
      <3>1. Imported(Source(p)) /\ status' = [status EXCEPT ![Source(p)] = "rejected"]
        BY <2>2 DEF Approve, Unmerged
      <3> QED BY <1>1, <2>1, <3>1 DEF Imported
    <2>3. CASE Restore(p)
      <3>1. /\ mergedInto[Source(p)] # NoSet
            /\ status' = [status EXCEPT ![Source(p)] = before[p].status]
        BY <2>1, <2>3 DEF Restore
      <3>2. Imported(Source(p))
        BY <2>1, <3>1 DEF IInv, RowsAgree, RowAgrees
      <3> QED BY <1>1, <2>1, <3>1, <3>2 DEF Imported
    <2>4. CASE Reject(p)
      BY <1>3, <2>4 DEF Reject, sets
    <2> QED BY <1>5, <2>2, <2>3, <2>4 DEF Decide
  <1>6. ASSUME NEW u \in Sets, Patch(u) PROVE FALSE
    BY <1>1, <1>6 DEF Patch, SetStatus, Imported
  <1> QED BY <1>2, <1>4, <1>5, <1>6 DEF MergeNext

\* A set that is not there to be listed has been merged.
LEMMA ListedOrMerged ==
  ASSUME IInv, NEW s \in Sets, Imported(s), ~EverMerged(s)
  PROVE  Unmerged(s) /\ primary[s] = s /\ primary[s] # NoSet
  <1>1. mergedInto[s] = NoSet
    BY MergedHasCandidate, PairIsPair DEF EverMerged, Source
  <1>2. Unmerged(s)
    BY <1>1 DEF Unmerged
  <1> QED BY <1>2, SetsAssumption DEF IInv, RowsAgree, RowAgrees

\* An import lets go of a set it has in hand only when it has compared it, or
\* when one of the two has been merged.
LEMMA HandStep ==
  ASSUME IInv, NEW w \in Workers, NEW s \in Sets, NEW t \in Sets,
         Imported(s), Imported(t), Provider[s] # Provider[t], Has(w, s, t), Import(w)
  PROVE  Has(w, s, t)' \/ {s, t} \in passed' \/ EverMerged(s) \/ EverMerged(t)
  <1>1. task \in [Workers -> Task] /\ task[w] \in Task /\ task[w].set = s
        /\ task[w].pc \in {"list", "compare"}
    BY DEF IInv, TypeOK, Has
  <1>2. CASE List(w)
    <2> SUFFICES ASSUME ~EverMerged(s), ~EverMerged(t) PROVE Has(w, s, t)'
      OBVIOUS
    <2>1. /\ Unmerged(s) /\ primary[s] = s /\ primary[s] # NoSet
          /\ Unmerged(t) /\ primary[t] = t /\ primary[t] # NoSet
      BY ListedOrMerged
    <2>2. t \in Others(s)
      BY <2>1 DEF Others
    <2>3. task' = [task EXCEPT ![w] = [@ EXCEPT !.pc = "compare", !.others = Others(s)]]
      BY <1>1, <1>2, <2>1 DEF List
    <2>4. task'[w].pc = "compare" /\ task'[w].others = Others(s) /\ task'[w].set = s
      BY <1>1, <2>3 DEF Task
    <2> QED BY <2>2, <2>4 DEF Has
  <1>3. ASSUME NEW u \in Sets, Compare(w, u) PROVE Has(w, s, t)' \/ {s, t} \in passed'
    <2>1. CASE u = t
      BY <1>1, <1>3, <2>1 DEF Compare, Source
    <2>2. CASE u # t
      <3>1. task[w].pc = "compare" /\ t \in task[w].others
        BY <1>3 DEF Compare, Has
      <3>2. task' = [task EXCEPT ![w] = [task[w] EXCEPT !.others = @ \ {u}]]
        BY <1>3, <2>2, <3>1 DEF Compare, Remaining
      <3>3. task'[w].pc = "compare" /\ t \in task'[w].others /\ task'[w].set = s
        BY <1>1, <2>2, <3>1, <3>2 DEF Task
      <3> QED BY <3>3 DEF Has
    <2> QED BY <2>1, <2>2
  <1>4. CASE Abandon(w)
    <2>1. CASE task[w].pc = "list"
      <3>1. passed' = passed \cup {{s, u} : u \in Sets \ {s}}
        BY <1>1, <1>4, <2>1 DEF Abandon
      <3> QED BY <3>1
    <2>2. CASE task[w].pc = "compare"
      <3>1. passed' = passed \cup {{s, u} : u \in task[w].others} /\ t \in task[w].others
        BY <1>1, <1>4, <2>2 DEF Abandon, Has
      <3> QED BY <3>1
    <2> QED BY <1>1, <2>1, <2>2
  <1>5. CASE Finish(w)
    BY <1>1, <1>5 DEF Finish, Has
  <1>6. ~Persist(w) /\ \A u \in Sets : ~Admit(w, u)
    BY <1>1 DEF Persist, Admit
  <1> QED BY <1>2, <1>3, <1>4, <1>5, <1>6 DEF Import

LEMMA HandKept ==
  ASSUME IInv, MergeNext, NEW w \in Workers, NEW s \in Sets, NEW t \in Sets,
         Imported(s), Imported(t), Provider[s] # Provider[t], Has(w, s, t)
  PROVE  Has(w, s, t)' \/ {s, t} \in passed' \/ EverMerged(s) \/ EverMerged(t)
  <1>1. ASSUME task'[w] = task[w] PROVE Has(w, s, t)'
    BY <1>1 DEF Has
  <1>2. ASSUME NEW v \in Workers, v # w, Import(v) PROVE task'[w] = task[w]
    BY <1>2 DEF Import, Admit, Compare, Persist, List, Finish, Abandon, IInv, TypeOK
  <1>3. ASSUME NEW p \in Pairs, Decide(p) PROVE task'[w] = task[w]
    BY <1>3 DEF Decide, Approve, Reject, Restore
  <1>4. ASSUME NEW u \in Sets, Patch(u) PROVE task'[w] = task[w]
    BY <1>4 DEF Patch, SetStatus
  <1> QED BY <1>1, <1>2, <1>3, <1>4, HandStep DEF MergeNext

LEMMA PairsStep ==
  ASSUME IInv, NoPairIsOverlooked, [MergeNext]_vars
  PROVE  NoPairIsOverlooked'
  <1>1. CASE UNCHANGED vars
    BY <1>1 DEF vars, NoPairIsOverlooked, Imported, InHand, EverMerged
  <1>2. CASE MergeNext
    <2>1. ASSUME NEW s \in Sets, NEW t \in Sets, Imported(s)', Imported(t)',
                 Provider[s] # Provider[t]
          PROVE  Met(s, t)'
      <3>1. CASE ~Imported(s) \/ ~Imported(t)
        BY <1>2, <2>1, <3>1, NewImport DEF Met
      <3>2. CASE Imported(s) /\ Imported(t)
        <4>1. Met(s, t)
          BY <2>1, <3>2, MetDefinition
        <4>2. {s, t} = {t, s}
          OBVIOUS
        <4>3. ASSUME NEW w \in Workers, Has(w, s, t) \/ Has(w, t, s)
              PROVE  \/ Has(w, s, t)' \/ Has(w, t, s)' \/ {s, t} \in passed'
                     \/ EverMerged(s) \/ EverMerged(t)
          BY <1>2, <2>1, <3>2, <4>2, <4>3, HandKept
        <4> QED BY <1>2, <4>1, <4>3, MarksStay DEF Met
      <3> QED BY <3>1, <3>2
    <2> QED BY <2>1, MetDefinition DEF NoPairIsOverlooked, InHand, Met, Has
  <1> QED BY <1>1, <1>2

\* Of two sets of different providers one is compared with the other, however
\* their imports interleave: an import lists the others only after its own set
\* is there to be listed (process_import_job, create_merge_candidate).
THEOREM PairsMeet == MergeSpec => []NoPairIsOverlooked
  <1>1. Init => IInv /\ NoPairIsOverlooked
    BY InitIInv DEF Init, NoPairIsOverlooked, Imported
  <1>2. IInv /\ NoPairIsOverlooked /\ [MergeNext]_vars => IInv' /\ NoPairIsOverlooked'
    BY NextIInv, PairsStep
  <1> QED BY <1>1, <1>2, PTL DEF MergeSpec

=============================================================================
