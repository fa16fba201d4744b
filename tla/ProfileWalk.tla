---------------------------- MODULE ProfileWalk ----------------------------
(***************************************************************************)
(* What discovery promises of a profile, whatever is retried, redelivered, *)
(* claimed twice or lost: its parents walk through the provider's pages.   *)
(* A parent receives one page, and only when all pages before it have been *)
(* worked off by somebody; it ends once; and the cursor is led past a page *)
(* by the latest parent, as it ends, when every payload of its page has    *)
(* come to an end.  A parent that fails otherwise leaves the cursor alone. *)
(***************************************************************************)
EXTENDS Naturals

CONSTANTS Jobs, NoPage, LastPage, PageSize

VARIABLES
    parents,   \* of each job: its state, its page and the payloads that ended
    cursor     \* where the next parent begins; a deleted profile has none

walkVars == <<parents, cursor>>

Pages == 0 .. LastPage
Items == 1 .. PageSize
NextPage(p) == IF p = LastPage THEN 0 ELSE p + 1

Parent == [state : {"absent", "open", "completed", "failed"},
           page  : Pages \cup {NoPage},
           ended : SUBSET Items]

WalkTypeOK ==
    /\ parents \in [Jobs -> Parent]
    /\ cursor \in Pages \cup {NoPage}

Init ==
    /\ parents = [j \in Jobs |-> [state |-> "absent", page |-> NoPage, ended |-> {}]]
    /\ cursor = 0

Idle == \A j \in Jobs : parents[j].state # "open"

Latest(j) == \A k \in Jobs : parents[k].state # "absent" => k <= j

EarlierPagesDone(p) ==
    \A q \in Pages :
        q < p => \E k \in Jobs : parents[k].page = q /\ parents[k].ended = Items

Lead(j, p) ==
    cursor' = IF Latest(j) /\ cursor # NoPage THEN NextPage(p) ELSE cursor

Open(j) ==
    /\ Idle
    /\ parents[j].state = "absent"
    /\ parents' = [parents EXCEPT ![j].state = "open"]
    /\ UNCHANGED cursor

\* The retry of k goes on with its page.
Retry(j, k) ==
    /\ parents[j].state = "absent" /\ parents[k].state = "failed"
    /\ parents' = [parents EXCEPT ![j] = [state |-> "open", page |-> parents[k].page,
                                          ended |-> {}]]
    /\ UNCHANGED cursor

MayReceive(j, p) ==
    parents[j].state = "open" /\ parents[j].page = NoPage /\ EarlierPagesDone(p)

Receive(j, p) ==
    /\ MayReceive(j, p)
    /\ parents' = [parents EXCEPT ![j].page = p]
    /\ UNCHANGED cursor

EndItem(j, i) ==
    /\ parents[j].page # NoPage
    /\ parents' = [parents EXCEPT ![j].ended = @ \cup {i}]
    /\ UNCHANGED cursor

End(j, state) ==
    /\ parents[j].state = "open" /\ parents[j].page # NoPage
    /\ parents[j].ended = Items
    /\ parents' = [parents EXCEPT ![j].state = state]
    /\ Lead(j, parents[j].page)

\* A direct profile stores its page, ends and leads the cursor at once.
Deliver(j, p) ==
    /\ MayReceive(j, p)
    /\ parents' = [parents EXCEPT ![j] = [state |-> "completed", page |-> p,
                                          ended |-> Items]]
    /\ Lead(j, p)

Fail(j) ==
    /\ parents[j].state = "open"
    /\ parents' = [parents EXCEPT ![j].state = "failed"]
    /\ UNCHANGED cursor

Delete ==
    /\ Idle
    /\ cursor' = NoPage
    /\ UNCHANGED parents

Step ==
    \/ \E j \in Jobs :
          \/ Open(j) \/ Fail(j)
          \/ \E k \in Jobs : Retry(j, k)
          \/ \E p \in Pages : Receive(j, p) \/ Deliver(j, p)
          \/ \E i \in Items : EndItem(j, i)
          \/ \E state \in {"completed", "failed"} : End(j, state)
    \/ Delete

\* That something changes, [Next]_walkVars says anyway; here TLC decides it
\* before it looks at the actions.
Next == walkVars' # walkVars /\ Step

Spec == Init /\ [][Next]_walkVars
=============================================================================
