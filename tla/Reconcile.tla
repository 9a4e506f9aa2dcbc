-------------------------------- MODULE Reconcile --------------------------------
(***************************************************************************)
(* The agent's reconcile (agent/src/reconcile.rs): from what is wanted and *)
(* what libxl shows (agent/src/truth.rs) to a plan of actions.  It is a    *)
(* function of the two; nothing in the repository carries the plan out     *)
(* yet, so what is proved (in Mesh_proofs) is about the plan and about a   *)
(* host on which exactly the plan is done.                                 *)
(*                                                                         *)
(* wanted maps a manifest to its profile: whether it parsed, the node it   *)
(* is anchored to, its memory_active in MB.  truth maps a domain to its    *)
(* manifest, its state and its memory.  The plan's actions are a set: they *)
(* are sorted by manifest and domain, which nothing below depends on.      *)
(***************************************************************************)
EXTENDS Naturals

CONSTANTS Manifests, Domains, Nodes,
          None,      \* no manifest, no domain, no anchor
          ThisNode   \* the node's id; its hex suffix stands for it

Anchors == Nodes \cup {None, "this-host"}
Profiles == [parsed : BOOLEAN, anchor : Anchors, active : Nat]
TruthEntry == [manifest : Manifests \cup {None}, state : {"running", "transient", "absent"}, memory : Nat]

Action(op, manifest, domain, mb) == [op |-> op, manifest |-> manifest, domain |-> domain, mb |-> mb]

\* Truth::find_by_manifest: the first in the order of the ids, which is not modelled.
Matching(truth, m) == {d \in DOMAIN truth : truth[d].manifest = m}
Find(truth, m) == CHOOSE d \in Matching(truth, m) : TRUE

Elsewhere(profile) == profile.anchor \notin {None, "this-host", ThisNode}

\* consider_wanted, one operator for each outcome.
Bad(wanted, m) == ~wanted[m].parsed
WrongAnchor(wanted, m) == wanted[m].parsed /\ Elsewhere(wanted[m])
Ours(wanted, m) == wanted[m].parsed /\ ~Elsewhere(wanted[m])
Missing(truth, m) == Matching(truth, m) = {} \/ truth[Find(truth, m)].state = "absent"
Present(truth, m, state) == Matching(truth, m) # {} /\ truth[Find(truth, m)].state = state
Drifted(wanted, truth, m) ==
    Present(truth, m, "running") /\ truth[Find(truth, m)].memory # wanted[m].active

ConsiderWanted(wanted, truth) ==
    {Action("bad_manifest", m, None, 0) : m \in {n \in DOMAIN wanted : Bad(wanted, n)}}
    \cup {Action("wrong_anchor", m, None, 0) : m \in {n \in DOMAIN wanted : WrongAnchor(wanted, n)}}
    \cup {Action("create", m, None, 0) :
             m \in {n \in DOMAIN wanted : Ours(wanted, n) /\ Missing(truth, n)}}
    \cup {Action("balloon", m, Find(truth, m), wanted[m].active) :
             m \in {n \in DOMAIN wanted : Ours(wanted, n) /\ Drifted(wanted, truth, n)}}

\* The domains of manifests that are not wanted; one without a manifest is left alone.
Withdrawn(wanted, truth) ==
    {d \in DOMAIN truth : truth[d].manifest # None /\ truth[d].manifest \notin DOMAIN wanted}

Plan(wanted, truth) ==
    ConsiderWanted(wanted, truth)
    \cup {Action("destroy", None, d, 0) : d \in Withdrawn(wanted, truth)}

RetickNeeded(wanted, truth) ==
    \E m \in DOMAIN wanted : Ours(wanted, m) /\ Present(truth, m, "transient")

IsWanted(wanted) == \E S \in SUBSET Manifests : wanted \in [S -> Profiles]
IsTruth(truth) == \E S \in SUBSET Domains : truth \in [S -> TruthEntry]

\* A host on which exactly the plan is done: born are the ids libxl gives to what is
\* created, which runs.
Created(wanted, truth) == {m \in DOMAIN wanted : Ours(wanted, m) /\ Missing(truth, m)}
Ballooned(wanted, truth, d) ==
    LET m == truth[d].manifest
    IN  m \in DOMAIN wanted /\ Ours(wanted, m) /\ Drifted(wanted, truth, m) /\ d = Find(truth, m)

Left(wanted, truth) == DOMAIN truth \ Withdrawn(wanted, truth)

IsDone(after, wanted, truth, born) ==
    /\ DOMAIN after = Left(wanted, truth) \cup {born[m] : m \in Created(wanted, truth)}
    /\ \A m \in Created(wanted, truth) :
         /\ born[m] \notin DOMAIN truth
         /\ after[born[m]].manifest = m /\ after[born[m]].state = "running"
         /\ after[born[m]].memory = wanted[m].active
    /\ \A d \in Left(wanted, truth) :
         /\ after[d].manifest = truth[d].manifest /\ after[d].state = truth[d].state
         /\ after[d].memory = IF Ballooned(wanted, truth, d)
                              THEN wanted[truth[d].manifest].active ELSE truth[d].memory

\* No two domains of one manifest, and none in transition.
Plain(truth) ==
    /\ \A d \in DOMAIN truth : truth[d].state = "running"
    /\ \A m, d, e : d \in Matching(truth, m) /\ e \in Matching(truth, m) => d = e

=============================================================================
