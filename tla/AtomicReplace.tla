---------------------------- MODULE AtomicReplace ----------------------------
(***************************************************************************)
(* What rollback promises, without files, markers, locks or recovery:      *)
(* every space always has one home; a replacement is announced before it   *)
(* happens, happens at most once while announced, and only replaces a home *)
(* whose current content was saved first; then it is over, or it never     *)
(* happened.  ("old, new, or marked rollback_in_progress".)                *)
(***************************************************************************)
EXTENDS Naturals

CONSTANTS Names, Trees

VARIABLES
    home,       \* the tree that is the home of each space
    phase,      \* "idle", "announced" or "replaced"
    written,    \* number of writes to each tree
    saved       \* published snapshots: tree and content

vars == <<home, phase, written, saved>>

Init ==
    /\ home = [n \in Names |-> n]
    /\ phase = [n \in Names |-> "idle"]
    /\ written = [x \in Trees |-> 0]
    /\ saved = {}

Announce(n) ==
    /\ phase[n] = "idle"
    /\ phase' = [phase EXCEPT ![n] = "announced"]
    /\ UNCHANGED <<home, written, saved>>

Replace(n, x) ==
    /\ phase[n] = "announced"
    /\ <<home[n], written[home[n]]>> \in saved
    /\ x # home[n]
    /\ home' = [home EXCEPT ![n] = x]
    /\ phase' = [phase EXCEPT ![n] = "replaced"]
    /\ UNCHANGED <<written, saved>>

Settle(n) ==
    /\ phase[n] # "idle"
    /\ phase' = [phase EXCEPT ![n] = "idle"]
    /\ UNCHANGED <<home, written, saved>>

WriteHome(n) ==
    /\ written' = [written EXCEPT ![home[n]] = @ + 1]
    /\ UNCHANGED <<home, phase, saved>>

Save(n) ==
    /\ saved' = saved \cup {<<home[n], written[home[n]]>>}
    /\ UNCHANGED <<home, phase, written>>

Next ==
    \E n \in Names :
        \/ Announce(n)
        \/ \E x \in Trees : Replace(n, x)
        \/ Settle(n)
        \/ WriteHome(n)
        \/ Save(n)

Spec == Init /\ [][Next]_vars
=============================================================================
