-------------------------- MODULE PolicyActivation --------------------------
(***************************************************************************)
(* What the policy engine promises its callers, without threads, locks or  *)
(* rebuilds: commits advance the saved version of some sections of the     *)
(* configuration, and activations move the sections that decisions use     *)
(* forward, never back and never past what has been saved.  An activation  *)
(* may skip versions and may lag behind further commits.                   *)
(***************************************************************************)
EXTENDS Naturals

CONSTANTS Sections, MaxVersion

VARIABLES saved, active

Versions == [Sections -> 0..MaxVersion]

Init ==
    /\ saved = [s \in Sections |-> 0]
    /\ active = saved

Save ==
    /\ \E changed \in SUBSET Sections :
        saved' = [s \in Sections |-> saved[s] + IF s \in changed THEN 1 ELSE 0]
    /\ saved' \in Versions
    /\ UNCHANGED active

Activate ==
    /\ active' \in Versions
    /\ \A s \in Sections : active[s] <= active'[s] /\ active'[s] <= saved[s]
    /\ UNCHANGED saved

Next == Save \/ Activate

Spec == Init /\ [][Next]_<<saved, active>>
=============================================================================
