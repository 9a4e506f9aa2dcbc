-------------------------------- MODULE Tenure --------------------------------
(***************************************************************************)
(* What the mesh's event log promises each member, in the abstract: a      *)
(* sequence of tenures. Within an epoch one issuer acts alone, its acts    *)
(* numbered without a gap, and once a later epoch has begun no earlier one *)
(* is ever heard from again.                                               *)
(***************************************************************************)
EXTENDS Integers

CONSTANTS Members, Issuers, Epochs

VARIABLES tenures,   \* per member: the <<epoch, issuer>> pairs that have acted
          acts       \* per member: acts so far in the latest tenure

Init == /\ tenures = [m \in Members |-> {}]
        /\ acts = [m \in Members |-> 0]

(* An issuer begins a later epoch with its first act. *)
TakeOver(m, epoch, issuer) ==
  /\ \A t \in tenures[m] : t[1] < epoch
  /\ tenures' = [tenures EXCEPT ![m] = @ \cup {<<epoch, issuer>>}]
  /\ acts' = [acts EXCEPT ![m] = 1]

(* The issuer of the latest epoch acts once more. *)
Act(m) == /\ tenures[m] # {}
          /\ acts' = [acts EXCEPT ![m] = @ + 1]
          /\ UNCHANGED tenures

Next == \E m \in Members : Act(m) \/ \E epoch \in Epochs, issuer \in Issuers : TakeOver(m, epoch, issuer)

Spec == Init /\ [][Next]_<<tenures, acts>>
=============================================================================
