----------------------------- MODULE AudioVault -----------------------------
(***************************************************************************)
(* What private audio may count on whoever decides, whatever runs overlap  *)
(* or die and whatever calls fail: an object is stored in quarantine with  *)
(* its row, may be copied to the originals and removed while nothing has   *)
(* been decided, and is decided once, as approved when the original is     *)
(* there and the quarantine is clear, as rejected or expired when the      *)
(* quarantine is clear.  After that neither its row nor its bytes change.  *)
(***************************************************************************)
CONSTANT Assets

VARIABLES state, quarantine, originals

vaultVars == <<state, quarantine, originals>>

VaultTypeOK ==
    /\ state \in [Assets -> {"absent", "quarantine", "approved", "rejected", "expired"}]
    /\ quarantine \subseteq Assets
    /\ originals \subseteq Assets

Init ==
    /\ state = [a \in Assets |-> "absent"]
    /\ quarantine = {}
    /\ originals = {}

Store(a) ==
    /\ state[a] = "absent"
    /\ state' = [state EXCEPT ![a] = "quarantine"]
    /\ quarantine' = quarantine \cup {a}
    /\ UNCHANGED originals

Undecided(a) == state[a] = "quarantine"

Copy(a) ==
    /\ Undecided(a) /\ a \in quarantine
    /\ originals' = originals \cup {a}
    /\ UNCHANGED <<state, quarantine>>

Remove(a) ==
    /\ Undecided(a) /\ a \in quarantine
    /\ quarantine' = quarantine \ {a}
    /\ UNCHANGED <<state, originals>>

Decide(a, verdict) ==
    /\ Undecided(a) /\ a \notin quarantine
    /\ verdict = "approved" => a \in originals
    /\ state' = [state EXCEPT ![a] = verdict]
    /\ UNCHANGED <<quarantine, originals>>

Next ==
    \E a \in Assets :
        \/ Store(a) \/ Copy(a) \/ Remove(a)
        \/ \E verdict \in {"approved", "rejected", "expired"} : Decide(a, verdict)

Spec == Init /\ [][Next]_vaultVars
=============================================================================
