-------------------------------- MODULE Wanted --------------------------------
(***************************************************************************)
(* What an agent does with an event its log accepted: the refusal layer    *)
(* (agent/src/refuse.rs) and the desired state (agent/src/wanted.rs), as   *)
(* functions of the state.                                                 *)
(*                                                                         *)
(* A manifest's TOML is the part of it these two read: its lease policy    *)
(* (who may control it and with which operations), or None when it does    *)
(* not parse.                                                              *)
(***************************************************************************)
EXTENDS Integers, FiniteSets

CONSTANTS Controllers,   \* node ids of controllers
          Manifests,     \* manifest ids
          Tomls,         \* manifest texts: lease policies, and None
          None

DEFAULT_SAFE_OPS == {"assign", "unassign", "balloon", "start", "shutdown"}

LeasePolicy(controllers, operations) ==
  [controllers_allowed |-> controllers, operations_allowed |-> operations]

Claim       == [kind |-> "claim_lease"]
Release     == [kind |-> "release_lease"]
Heartbeat   == [kind |-> "heartbeat"]
Assign(id, toml) == [kind |-> "assign", id |-> id, toml |-> toml]
Unassign(id)     == [kind |-> "unassign", id |-> id]
Balloon(id)      == [kind |-> "balloon", id |-> id]

EventBody == {Claim, Release, Heartbeat}
             \cup {Assign(id, toml) : id \in Manifests, toml \in Tomls}
             \cup {Unassign(id) : id \in Manifests}
             \cup {Balloon(id) : id \in Manifests}

(* A manifest's entry and the epoch of the event that set it. *)
Entry(toml, epoch) == [toml |-> toml, assigned_at_epoch |-> epoch]

NoWanted == [manifests |-> [id \in Manifests |-> None],
             lease_holder |-> None, lease_epoch |-> 0]

-----------------------------------------------------------------------------
(* may_apply *)

ControllerAllowed(policy, issuer) ==
  policy.controllers_allowed = {} \/ issuer \in policy.controllers_allowed

OperationAllowed(policy, op) ==
  op \in IF policy.operations_allowed = {} THEN DEFAULT_SAFE_OPS
                                            ELSE policy.operations_allowed

(* The policy consulted: the text an Assign carries, otherwise what is      *)
(* stored. A text that does not parse is no policy at all.                  *)
GoverningPolicy(wanted, body) ==
  CASE body.kind = "assign" -> body.toml
    [] wanted.manifests[body.id] = None -> None
    [] OTHER -> wanted.manifests[body.id].toml

MayApply(wanted, issuer, body) ==
  \/ body.kind \in {"claim_lease", "release_lease", "heartbeat"}
  \/ LET policy == GoverningPolicy(wanted, body)
     IN  /\ policy # None
         /\ ControllerAllowed(policy, issuer)
         /\ OperationAllowed(policy, body.kind)

-----------------------------------------------------------------------------
(* apply_event: every error leaves the state as it was. *)

StaleClaim(wanted, epoch) == epoch <= wanted.lease_epoch /\ wanted.lease_holder # None

(* Mutant: any lease will do, whoever holds it. *)
SomeLease(wanted, issuer) == wanted.lease_holder # None

HoldsLease(wanted, issuer) == wanted.lease_holder # None /\ wanted.lease_holder = issuer

ApplyClaim(wanted, issuer, epoch) ==
  IF StaleClaim(wanted, epoch) THEN wanted
  ELSE [wanted EXCEPT !.lease_holder = issuer, !.lease_epoch = epoch]

ApplyRelease(wanted, issuer) ==
  IF HoldsLease(wanted, issuer) THEN [wanted EXCEPT !.lease_holder = None] ELSE wanted

ApplyAssign(wanted, issuer, epoch, body) ==
  IF HoldsLease(wanted, issuer) /\ body.toml # None
  THEN [wanted EXCEPT !.manifests[body.id] = Entry(body.toml, epoch)]
  ELSE wanted

ApplyUnassign(wanted, issuer, body) ==
  IF HoldsLease(wanted, issuer) THEN [wanted EXCEPT !.manifests[body.id] = None] ELSE wanted

(* A balloon command and a heartbeat leave the desired state alone. *)
ApplyEvent(wanted, issuer, epoch, body) ==
  CASE body.kind = "claim_lease"   -> ApplyClaim(wanted, issuer, epoch)
    [] body.kind = "release_lease" -> ApplyRelease(wanted, issuer)
    [] body.kind = "assign"        -> ApplyAssign(wanted, issuer, epoch, body)
    [] body.kind = "unassign"      -> ApplyUnassign(wanted, issuer, body)
    [] OTHER                       -> wanted
=============================================================================
