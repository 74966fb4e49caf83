--------------------------- MODULE UpdateContract ---------------------------
(***************************************************************************)
(* What a firmware update promises, whoever performs it: a session picks a *)
(* target image, acknowledges pages that hold their target content, and    *)
(* may succeed only when every used page is acknowledged.  An acknowledged *)
(* page does not change during the session, and nothing changes after a    *)
(* success until a new session begins.  All else may change at any time,   *)
(* one page at a time: an update that fails promises nothing.              *)
(***************************************************************************)
CONSTANTS
    Page,         \* the pages of the store
    Value,        \* what a page can hold
    Target,       \* the images, functions from Page to Value
    Needed(_)     \* the pages of an image a session must program

VARIABLES store, target, acked, phase

contractVars == <<store, target, acked, phase>>

ContractInit ==
    /\ store \in [Page -> Value]
    /\ target \in Target
    /\ acked = {}
    /\ phase = "idle"

\* A page outside the acknowledged ones changes, except after a success.
Disturb ==
    /\ phase # "ok"
    /\ \E p \in Page \ acked, v \in Value : store' = [store EXCEPT ![p] = v]
    /\ UNCHANGED <<target, acked, phase>>

\* A file is read, before a session or to begin one.
Choose(next) ==
    /\ target' \in Target
    /\ acked' = {}
    /\ phase' = next
    /\ UNCHANGED store

Acknowledge ==
    /\ phase = "active"
    /\ \E p \in Needed(target) :
         store[p] = target[p] /\ acked' = acked \cup {p}
    /\ UNCHANGED <<store, target, phase>>

Succeed ==
    /\ phase = "active" /\ acked = Needed(target)
    /\ phase' = "ok"
    /\ UNCHANGED <<store, target, acked>>

Fail ==
    /\ phase = "active"
    /\ phase' = "idle" /\ acked' = {}
    /\ UNCHANGED <<store, target>>

ContractNext ==
    \/ Disturb \/ Acknowledge \/ Succeed \/ Fail
    \/ Choose("idle")
    \/ phase = "idle" /\ Choose("active")

ContractSpec == ContractInit /\ [][ContractNext]_contractVars
=============================================================================
