--------------------------- MODULE EvidenceLedger ---------------------------
(***************************************************************************)
(* What the validator promises about slashing evidence, without handlers,  *)
(* receipts or an event loop:                                              *)
(*   - evidence enters the in-memory list at the moment it is produced,    *)
(*     before anything is told to the chain, and is never produced twice;  *)
(*   - the list only grows, until a restart of the process empties it;     *)
(*   - the chain takes produced evidence only, each item at most once,     *)
(*     possibly after the process that produced it has gone;               *)
(*   - what the chain took stays.                                          *)
(***************************************************************************)
CONSTANT Evidence

VARIABLES
    produced,   \* every item ever produced, by any incarnation of the process
    retained,   \* the items the running process lists
    landed      \* the items the chain took

vars == <<produced, retained, landed>>

Init ==
    /\ produced = {}
    /\ retained = {}
    /\ landed = {}

Produce(e) ==
    /\ e \notin produced
    /\ produced' = produced \cup {e}
    /\ retained' = retained \cup {e}
    /\ UNCHANGED landed

Land(e) ==
    /\ e \in produced \ landed
    /\ landed' = landed \cup {e}
    /\ UNCHANGED <<produced, retained>>

Restart ==
    /\ retained' = {}
    /\ UNCHANGED <<produced, landed>>

Next ==
    \/ \E e \in Evidence : Produce(e) \/ Land(e)
    \/ Restart

Spec == Init /\ [][Next]_vars
=============================================================================
