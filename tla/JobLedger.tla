----------------------------- MODULE JobLedger -----------------------------
(***************************************************************************)
(* What the import pipeline promises whoever submits jobs, whatever the    *)
(* broker, the workers and the clocks do: a job is open until it is        *)
(* settled, once; it is settled as persisted when it put its item into the *)
(* catalogue of sets, as duplicate when the item was there, as discarded   *)
(* when the item scored too low, and else it is closed, with no effect.    *)
(***************************************************************************)
CONSTANTS Jobs, Items, NoItem

VARIABLES ledger, catalogue

ledgerVars == <<ledger, catalogue>>

Settled == {"persisted", "duplicate", "discarded", "closed"}

Entry == [state : {"unsubmitted", "open"} \cup Settled,
          item  : Items \cup {NoItem}]

LedgerTypeOK ==
    /\ ledger \in [Jobs -> Entry]
    /\ catalogue \subseteq Items

Init ==
    /\ ledger = [j \in Jobs |-> [state |-> "unsubmitted", item |-> NoItem]]
    /\ catalogue = {}

Submit(j, i) ==
    /\ ledger[j].state = "unsubmitted"
    /\ ledger' = [ledger EXCEPT ![j] = [state |-> "open", item |-> i]]
    /\ UNCHANGED catalogue

Settle(j, state) ==
    /\ ledger[j].state = "open"
    /\ ledger' = [ledger EXCEPT ![j].state = state]

Persist(j) ==
    /\ ledger[j].item \notin catalogue
    /\ Settle(j, "persisted")
    /\ catalogue' = catalogue \cup {ledger[j].item}

RecogniseDuplicate(j) ==
    /\ ledger[j].item \in catalogue
    /\ Settle(j, "duplicate")
    /\ UNCHANGED catalogue

Discard(j) == Settle(j, "discarded") /\ UNCHANGED catalogue

Close(j) == Settle(j, "closed") /\ UNCHANGED catalogue

Next ==
    \E j \in Jobs :
        \/ \E i \in Items : Submit(j, i)
        \/ Persist(j) \/ RecogniseDuplicate(j) \/ Discard(j) \/ Close(j)

Spec == Init /\ [][Next]_ledgerVars
=============================================================================
