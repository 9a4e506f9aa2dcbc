--------------------------------- MODULE Mesh ---------------------------------
(***************************************************************************)
(* The mesh: controllers and agents, each with its own copy of the event   *)
(* log, over a network that loses, repeats, reorders and damages           *)
(* envelopes. An agent applies what its log accepts to its desired state,  *)
(* behind the refusal layer.                                               *)
(*                                                                         *)
(* The repository has the log, the refusal layer and the desired state;    *)
(* the loop that feeds one with the other's result is described in their   *)
(* comments (agent/src/refuse.rs:3-7, agent/src/wanted.rs:102-104) and the *)
(* transport is a trait: both are modelled from there.                     *)
(***************************************************************************)
EXTENDS Wanted, Sequences

CONSTANTS Agents,     \* node ids of agents
          Bodies,     \* the event bodies that get signed
          MaxEpoch,   \* bound: lease epochs
          MaxSent     \* bound: envelopes signed

ASSUME MeshAssumption == /\ MaxEpoch \in Nat /\ MaxSent \in Nat
                         /\ Agents \cap Controllers = {}
                         /\ Bodies \subseteq EventBody
                         /\ None \notin Agents \cup Controllers
                         /\ None \notin [controllers_allowed : SUBSET Controllers,
                                         operations_allowed : SUBSET STRING]
                         /\ Tomls \subseteq {None} \cup
                              [controllers_allowed : SUBSET Controllers,
                               operations_allowed : SUBSET STRING]

Members == Agents \cup Controllers

INSTANCE EventLog WITH Issuers <- Members, Bodies <- EventBody

WantedEntry == [toml : Tomls \ {None}, assigned_at_epoch : Nat]

ASSUME NoneAssumption == None \notin Hash /\ None \notin WantedEntry

VARIABLES log,      \* per member: its event log
          trust,    \* per member: the issuers in its trust store
          sent,     \* the envelopes signed so far
          wanted    \* per agent: its desired state

vars == <<log, trust, sent, wanted>>

(* Controllers know one another from mesh.toml; an agent knows nobody yet.  *)
Init == /\ log = [m \in Members |-> EmptyLog]
        /\ trust = [m \in Members |-> IF m \in Controllers THEN Members ELSE {m}]
        /\ sent = {}
        /\ wanted = [a \in Agents |-> NoWanted]

(* TrustStore::insert *)
Trust(m, issuer) == /\ issuer \notin trust[m]
                    /\ trust' = [trust EXCEPT ![m] = @ \cup {issuer}]
                    /\ UNCHANGED <<log, sent, wanted>>

(* Log, then refusal, then desired state. *)
React(w, env) ==
  IF MayApply(w, env.issuer, env.body)
  THEN ApplyEvent(w, env.issuer, env.lease_epoch, env.body)
  ELSE w

(* An agent applies what its log has accepted. *)
Take(m, env) ==
  /\ Accepts(log[m], env, trust[m])
  /\ log' = [log EXCEPT ![m] = Committed(@, env)]
  /\ wanted' = IF m \in Agents THEN [wanted EXCEPT ![m] = React(@, env)] ELSE wanted

(* A member signs on top of its own head, with the seq and epoch of its     *)
(* choice, what its own log then takes; agents only send heartbeats.        *)
Sign(m, seq, epoch, body) ==
  LET env == SignEnvelope(m, seq, epoch, HeadHash(log[m]), body)
  IN  /\ Cardinality(sent) < MaxSent
      /\ m \in Agents <=> body = Heartbeat
      /\ Take(m, env)
      /\ sent' = sent \cup {env}
      /\ UNCHANGED trust

(* An envelope reaches a member: late, again, out of order, or damaged.     *)
(* One that append rejects leaves no trace, so it is a stuttering step.     *)
Deliver(m, sentEnv) == \E env \in {sentEnv, Damaged(sentEnv)} :
                         Take(m, env) /\ UNCHANGED <<trust, sent>>

Next == \/ \E m \in Members, seq \in 0..MaxSent, epoch \in 1..MaxEpoch, body \in Bodies :
             Sign(m, seq, epoch, body)
        \/ \E m \in Members, env \in sent : Deliver(m, env)
        \/ \E m \in Members, issuer \in Members : Trust(m, issuer)

Spec == Init /\ [][Next]_vars

-----------------------------------------------------------------------------
EventLogs == [events : Seq(Envelope), head_hash : Hash \cup {None}, head_epoch : Nat,
              head_issuer : Members \cup {None}, head_seq : Nat \cup {None}]

WantedStates == [manifests : [Manifests -> WantedEntry \cup {None}],
                 lease_holder : Members \cup {None}, lease_epoch : Nat]

(* The shape of the state, and the cached head of every log is the head:    *)
(* hash, epoch, issuer and seq of its last event (chain.rs, EventLog).      *)
HeadCached(l) ==
  IF l.events = <<>> THEN l = EmptyLog
  ELSE LET head == l.events[Len(l.events)]
       IN  /\ l.head_hash = HashOf(head)
           /\ l.head_epoch = head.lease_epoch
           /\ l.head_issuer = head.issuer
           /\ l.head_seq = head.seq

TypeOK == /\ log \in [Members -> EventLogs]
          /\ trust \in [Members -> SUBSET Members]
          /\ sent \subseteq Envelope
          /\ wanted \in [Agents -> WantedStates]
          /\ \A m \in Members : HeadCached(log[m])

(* In every log, whatever the network did: epochs never decrease, the       *)
(* events of one epoch all have one issuer, and their seqs count on without *)
(* a gap (chain.rs header, rules 4 to 6).                                   *)
OneIssuerPerEpoch ==
  \A m \in Members :
    LET events == log[m].events
    IN  \A i, j \in 1..Len(events) : i < j =>
          /\ events[i].lease_epoch <= events[j].lease_epoch
          /\ events[i].lease_epoch = events[j].lease_epoch =>
               /\ events[i].issuer = events[j].issuer
               /\ events[j].seq = events[i].seq + (j - i)

(* Two members whose heads have the same hash have the same history, event  *)
(* for event, so comparing heads detects divergence (event.rs:17-21,        *)
(* Heartbeat's last_applied_hash).                                          *)
SameHeadSameHistory ==
  \A m, n \in Members : HeadHash(log[m]) = HeadHash(log[n]) => log[m].events = log[n].events

(* The lease an agent honours is the one its log shows: the holder is the   *)
(* issuer of the last claim in the log unless it has released the lease     *)
(* since, and the lease epoch is that claim's. apply_event alone does not   *)
(* ensure it; it relies on append for the order of epochs and issuers       *)
(* (wanted.rs:102-104).                                                     *)
LeaseFollowsLog ==
  \A a \in Agents :
    LET events == log[a].events
        claims == {i \in 1..Len(events) : events[i].body.kind = "claim_lease"}
    IN  IF claims = {}
        THEN wanted[a].lease_holder = None /\ wanted[a].lease_epoch = 0
        ELSE \E last \in claims :
               /\ \A i \in claims : i <= last
               /\ wanted[a].lease_epoch = events[last].lease_epoch
               /\ wanted[a].lease_holder =
                    IF \E i \in last..Len(events) : /\ events[i].body.kind = "release_lease"
                                                    /\ events[i].issuer = events[last].issuer
                    THEN None ELSE events[last].issuer

(* An agent never moves back to an earlier lease: its lease epoch only      *)
(* grows, although a claim after a release is not compared with it.         *)
LeaseEpochGrows == [][\A a \in Agents : wanted'[a].lease_epoch >= wanted[a].lease_epoch]_vars

(* A manifest is set or withdrawn only by an event of the controller that   *)
(* holds the lease, and only one whose lease policy (the new text's for an  *)
(* assignment, the stored one's for a withdrawal) allows that controller.   *)
ManifestsMoveUnderLease ==
  [][\A a \in Agents, id \in Manifests :
       wanted'[a].manifests[id] # wanted[a].manifests[id] =>
         LET actor  == log'[a].head_issuer
             policy == IF wanted'[a].manifests[id] # None
                       THEN wanted'[a].manifests[id].toml ELSE wanted[a].manifests[id].toml
         IN  /\ actor = wanted[a].lease_holder
             /\ policy.controllers_allowed = {} \/ actor \in policy.controllers_allowed]_vars

(* Every log implements the abstract sequence of tenures. *)
Tenures == INSTANCE Tenure WITH
  Issuers <- Members, Epochs <- 1..MaxEpoch,
  tenures <- [m \in Members |-> {<<log[m].events[i].lease_epoch, log[m].events[i].issuer>> :
                                   i \in 1..Len(log[m].events)}],
  acts <- [m \in Members |-> IF log[m].events = <<>> THEN 0 ELSE log[m].head_seq + 1]

ImplementsTenures == Tenures!Spec

(* wanted.rs:57 says of lease_epoch "Increases on every successful          *)
(* ClaimLease"; event.rs:54 that agents accept a claim only above the       *)
(* current epoch.                                                           *)
ClaimsRaiseEpoch ==
  [][\A a \in Agents :
       (wanted[a].lease_holder = None /\ wanted'[a].lease_holder # None) =>
         wanted'[a].lease_epoch > wanted[a].lease_epoch]_vars
=============================================================================
