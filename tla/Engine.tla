-------------------------------- MODULE Engine --------------------------------
(***************************************************************************)
(* The memory control loop of the daemon (orchestratord/src/engine.rs): a  *)
(* thread that ticks once a second, gives every domain it has not seen a   *)
(* default policy, and moves each domain whose memory lies outside its     *)
(* policy to the nearest bound. Client connections change policies and     *)
(* balloon domains between any two steps of a tick; domains come and go.   *)
(*                                                                         *)
(* The engine reaches libxl through the actor, one call at a time, so a    *)
(* call is one step. Between the calls it works on what it read before:    *)
(* the domain list of this tick, a clone of the policies, one reading of   *)
(* the clock. Memory is in MB (the actor rounds down to MB), time in units *)
(* of one tick. The events it sends are counted here, the bus is EventBus. *)
(***************************************************************************)
EXTENDS Integers, FiniteSets

CONSTANTS Domids,         \* domain ids; 0 is dom0
          Memory,         \* memory sizes a domain can have or be given
          Maxima,         \* the memory a domain can be created with, its maximum
          UserPolicies,   \* what clients send with engine.set_policy
          Dom0Cooldown,   \* cooldown_s of the default policy of dom0
          DomUCooldown,   \* and of any other domain
          MaxLate,        \* bound: how far the clock runs within one tick
          Horizon,        \* bound: elapsed times are not told apart from here on
          MaxOps,         \* bound: operator calls and domain starts and deaths
          None            \* no entry, no bound, no cooldown

Policy(min, max, cooldown) == [min_mb |-> min, max_mb |-> max, cooldown_s |-> cooldown]
Directions == {"Up", "Down"}

Bounds    == Memory \cup {0, None}
Longest   == Horizon - MaxLate   \* no cooldown is longer
Cooldowns == 0..Longest

PolicyType == [min_mb : Bounds, max_mb : Bounds, cooldown_s : Cooldowns \cup {None}]
Sizes      == Memory \cup {0}
Info       == [mem : Sizes, max : Sizes]   \* what the engine uses of a DomainInfo

ASSUME EngineAssumption ==
  /\ 0 \in Domids /\ Domids \subseteq Nat
  /\ Memory \subseteq Nat /\ Maxima \subseteq Memory /\ None \notin Nat
  /\ MaxLate \in Nat /\ MaxOps \in Nat /\ Horizon \in Nat
  /\ MaxLate <= Horizon
  /\ {Dom0Cooldown, DomUCooldown} \subseteq Cooldowns
  /\ UserPolicies \subseteq PolicyType
  /\ None \notin PolicyType /\ None \notin Info

VARIABLES libxl,       \* whether the actor opened libxl when the daemon started
          dom,         \* Xen's domains: life, memory now, memory asked of the guest, maximum
          policies,    \* the shared policy map, None where there is no entry
          pc,          \* where the engine thread is in its tick
          ready,       \* the sleep between ticks is over
          listed,      \* what domain_list gave this tick: memory_mb and memory_max_mb, or None
          snapshot,    \* the clone of the policies this tick works with
          todo,        \* listed domains the loop has not come to
          late,        \* time since the tick read the clock
          since,       \* per domain and direction: time since the recorded move
          available,   \* backend_was_available
          ops,         \* operator calls and domain changes so far
          \* history
          userPolicy,  \* the policy last set by a client, None if never
          defaulted,   \* EnginePolicyAutoDefault events per domain
          edges,       \* BackendStateChange events
          quiet,       \* per domain and direction: time since a move really took place
          move         \* the move of this step, None if it made none

engineVars  == <<pc, ready, listed, snapshot, todo, late, available>>
historyVars == <<userPolicy, defaulted, edges, quiet>>
NoMove == move' = None
vars == <<libxl, dom, policies, since, ops, engineVars, historyVars, move>>

(***************************************************************************)
(* The planner.                                                            *)
(***************************************************************************)
(* Mutant: the ceiling is forgotten once there is a floor. *)
PlanFloorFirst(current, policy) ==
  IF policy.min_mb # None
  THEN IF current < policy.min_mb THEN [target |-> policy.min_mb, dir |-> "Up"] ELSE None
  ELSE IF policy.max_mb # None /\ current > policy.max_mb
       THEN [target |-> policy.max_mb, dir |-> "Down"] ELSE None

(* Mutant: stops one short of the ceiling. *)
PlanBelowCeiling(current, policy) ==
  IF policy.max_mb # None /\ current > policy.max_mb
  THEN [target |-> policy.max_mb - 1, dir |-> "Down"]
  ELSE IF policy.min_mb # None /\ current < policy.min_mb
       THEN [target |-> policy.min_mb, dir |-> "Up"] ELSE None

plan_move(current, policy) ==
  IF policy.max_mb # None /\ current > policy.max_mb
  THEN [target |-> policy.max_mb, dir |-> "Down"]
  ELSE IF policy.min_mb # None /\ current < policy.min_mb
       THEN [target |-> policy.min_mb, dir |-> "Up"]
       ELSE None

default_policy_for(d, current, max) ==
  IF d = 0 THEN Policy(current, current, Dom0Cooldown) ELSE Policy(0, max, DomUCooldown)

NoPolicies == [d \in Domids |-> None]
Domain(life, mem, target, max) == [life |-> life, mem |-> mem, target |-> target, max |-> max]
Unborn  == Domain("unborn", 0, 0, 0)
Running == UNION {{Domain("up", m, m, max) : m \in {n \in Memory : n <= max}} : max \in Maxima}
Up(d) == dom[d].life = "up"

(* The daemon may be started on a host whose domains already run. *)
Init == /\ libxl \in {"open", "none"}
        /\ dom \in [Domids -> {Unborn} \cup Running]
        /\ Up(0)
        /\ policies = NoPolicies
        /\ pc = "sleep" /\ ready = TRUE
        /\ listed = NoPolicies /\ snapshot = NoPolicies /\ todo = {}
        /\ late = 0
        /\ since = [d \in Domids |-> [dir \in Directions |-> Horizon]]
        /\ available = TRUE
        /\ ops = 0
        /\ userPolicy = NoPolicies
        /\ defaulted = [d \in Domids |-> 0]
        /\ edges = 0
        /\ quiet = [d \in Domids |-> [dir \in Directions |-> Longest]]
        /\ move = None

(***************************************************************************)
(* One tick, call by call and lock by lock. The list and the clone are     *)
(* locals of run_tick: they are gone when it returns.                      *)
(***************************************************************************)
Sleep == /\ pc' = "sleep" /\ ready' = FALSE
         /\ listed' = NoPolicies /\ snapshot' = NoPolicies

(* domain_list answers with the domains that are up. list() swallows a      *)
(* failing libxl_list_domain, so the answer may also be empty.              *)
ListOk(found) ==
  /\ pc = "sleep" /\ ready /\ libxl = "open"
  /\ found \in {{}, {d \in Domids : Up(d)}}
  /\ listed' = [d \in Domids |-> IF d \in found THEN [mem |-> dom[d].mem, max |-> dom[d].max] ELSE None]
  /\ edges' = IF available THEN edges ELSE edges + 1
  /\ available' = TRUE
  /\ pc' = "defaults"
  /\ NoMove
  /\ UNCHANGED <<libxl, dom, policies, ready, snapshot, todo, late, since, ops,
                 userPolicy, defaulted, quiet>>

ListUnavailable ==
  /\ pc = "sleep" /\ ready /\ libxl = "none"
  /\ edges' = IF available THEN edges + 1 ELSE edges
  /\ available' = FALSE
  /\ Sleep
  /\ NoMove
  /\ UNCHANGED <<libxl, dom, policies, todo, late, since, ops,
                 userPolicy, defaulted, quiet>>

(* The status of some domain failed for another reason than its absence. *)
ListFails ==
  /\ pc = "sleep" /\ ready /\ libxl = "open"
  /\ Sleep
  /\ NoMove
  /\ UNCHANGED <<libxl, dom, policies, todo, late, available, since, ops,
                 userPolicy, defaulted, edges, quiet>>

(* Mutant: does not look for the entry. *)
FreshAlways == {d \in Domids : listed[d] # None}

(* Mutant: takes an entry with no floor for no entry. *)
FreshIfFloorless == {d \in Domids : /\ listed[d] # None
                                    /\ policies[d] = None \/ policies[d].min_mb = 0}

(* The auto-default pass, under one write lock: listed domains without an   *)
(* entry.                                                                   *)
Fresh == {d \in Domids : listed[d] # None /\ policies[d] = None}

InsertDefaults ==
  /\ pc = "defaults"
  /\ policies' = [d \in Domids |-> IF d \in Fresh
                                   THEN default_policy_for(d, listed[d].mem, listed[d].max)
                                   ELSE policies[d]]
  /\ defaulted' = [d \in Domids |-> IF d \in Fresh THEN defaulted[d] + 1 ELSE defaulted[d]]
  /\ pc' = "snapshot"
  /\ NoMove
  /\ UNCHANGED <<libxl, dom, ready, listed, snapshot, todo, late, available, since, ops,
                 userPolicy, edges, quiet>>

(* Mutant: loops over the policies instead of the list. *)
EveryEntry == {d \in Domids : policies[d] # None}

Listed == {d \in Domids : listed[d] # None}

(* The clone is taken under a lock of its own, and the clock read after it. *)
TakeSnapshot ==
  /\ pc = "snapshot"
  /\ todo' = Listed
  /\ NoMove
  /\ late' = 0
  /\ IF todo' = {} THEN Sleep ELSE /\ pc' = "apply" /\ snapshot' = policies
                                  /\ UNCHANGED <<ready, listed>>
  /\ UNCHANGED <<libxl, dom, policies, available, since, ops, historyVars>>

Plan(d) == IF snapshot[d] = None THEN None ELSE plan_move(listed[d].mem, snapshot[d])

CoolingDown(d) ==
  /\ snapshot[d].cooldown_s # None
  /\ since[d][Plan(d).dir] - late < snapshot[d].cooldown_s

Due(d) == Plan(d) # None /\ ~ CoolingDown(d)

Finish(d) == /\ pc = "apply" /\ d \in todo
             /\ todo' = todo \ {d}
             /\ IF todo' = {} THEN Sleep ELSE UNCHANGED <<pc, ready, listed, snapshot>>
             /\ UNCHANGED <<libxl, policies, late, available, ops,
                            userPolicy, defaulted, edges>>

(* Nothing planned, or an EngineSkip for the cooldown. *)
Skip(d) == /\ Finish(d)
           /\ ~ Due(d)
           /\ NoMove
           /\ UNCHANGED <<dom, since, quiet>>

(* domain_balloon fails: always for a domain that is gone or a target above *)
(* the domain's maximum, and whenever libxl says so.                        *)
MoveFails(d) == /\ Finish(d)
                /\ Due(d)
                /\ NoMove
                /\ UNCHANGED <<dom, since, quiet>>

(* Mutant: the time of the move is not recorded. *)
NotRecorded(d, dir) == since

Recorded(d, dir) == [since EXCEPT ![d][dir] = late]

MoveOk(d) ==
  LET plan == Plan(d)
  IN  /\ Finish(d)
      /\ Due(d)
      /\ Up(d) /\ plan.target <= dom[d].max
      /\ dom' = [dom EXCEPT ![d].target = plan.target]
      /\ since' = Recorded(d, plan.dir)
      /\ quiet' = [quiet EXCEPT ![d][plan.dir] = 0]
      /\ move' = [domid |-> d, target |-> plan.target, policy |-> snapshot[d],
                  quiet |-> quiet[d][plan.dir]]

EngineStep == \/ ListUnavailable \/ ListFails \/ InsertDefaults \/ TakeSnapshot
              \/ \E found \in SUBSET Domids : ListOk(found)
              \/ \E d \in Domids : Skip(d) \/ MoveFails(d) \/ MoveOk(d)

(***************************************************************************)
(* Client connections, Xen and the clock.                                  *)
(***************************************************************************)
Operate == ops < MaxOps /\ ops' = ops + 1 /\ NoMove

SetPolicy(d, policy) ==
  /\ Operate
  /\ policies' = [policies EXCEPT ![d] = policy]
  /\ userPolicy' = [userPolicy EXCEPT ![d] = policy]
  /\ UNCHANGED <<libxl, dom, since, engineVars, defaulted, edges, quiet>>

(* domain.balloon of a client: nothing relates it to the policy. *)
Balloon(d, target) ==
  /\ Operate /\ libxl = "open"
  /\ Up(d) /\ target <= dom[d].max
  /\ dom' = [dom EXCEPT ![d].target = target]
  /\ UNCHANGED <<libxl, policies, since, engineVars, historyVars>>

DomainStarts(d, mem) ==
  /\ Operate
  /\ dom[d].life = "unborn"
  /\ dom' = [dom EXCEPT ![d] = Domain("up", mem, mem, mem)]
  /\ UNCHANGED <<libxl, policies, since, engineVars, historyVars>>

(* dom0 lives as long as the host. A domid is not given out again. *)
DomainDies(d) ==
  /\ Operate
  /\ d # 0 /\ Up(d)
  /\ dom' = [dom EXCEPT ![d] = Domain("dead", 0, 0, 0)]
  /\ UNCHANGED <<libxl, policies, since, engineVars, historyVars>>

(* The balloon driver of the guest reaches the target it was given. *)
GuestBalloons(d) ==
  /\ Up(d) /\ dom[d].mem # dom[d].target
  /\ dom' = [dom EXCEPT ![d].mem = dom[d].target]
  /\ NoMove
  /\ UNCHANGED <<libxl, policies, since, ops, engineVars, historyVars>>

(* Times are told apart up to a limit only. *)
Aged(times, limit) == [d \in Domids |-> [dir \in Directions |->
                         IF times[d][dir] < limit THEN times[d][dir] + 1 ELSE limit]]

(* Time passes between ticks, and within one while libxl is slow to balloon. *)
Clock == /\ pc = "sleep" \/ (pc = "apply" /\ late < MaxLate)
         /\ late' = IF pc = "apply" THEN late + 1 ELSE 0
         /\ ready' = (pc = "sleep" \/ ready)
         /\ since' = Aged(since, Horizon)
         /\ quiet' = Aged(quiet, Longest)
         /\ NoMove
         /\ UNCHANGED <<libxl, dom, policies, ops, pc, listed, snapshot, todo, available,
                        userPolicy, defaulted, edges>>

Environment == \/ Clock
               \/ \E d \in Domids : \/ GuestBalloons(d)
                                    \/ DomainDies(d)
                                    \/ \E policy \in UserPolicies : SetPolicy(d, policy)
                                    \/ \E m \in Memory : Balloon(d, m)
                                    \/ \E m \in Maxima : DomainStarts(d, m)

Next == EngineStep \/ Environment

Spec == Init /\ [][Next]_vars

(* The engine thread runs and time passes; a guest that is told to balloon  *)
(* does. libxl may fail again and again, but not for ever.                  *)
Fairness == /\ WF_vars(EngineStep) /\ WF_vars(Clock)
            /\ SF_vars(\E found \in SUBSET Domids : found # {} /\ ListOk(found))
            /\ \A d \in Domids : SF_vars(MoveOk(d)) /\ WF_vars(GuestBalloons(d))

LiveSpec == Spec /\ Fairness
-----------------------------------------------------------------------------
Sane(d) == LET p == policies[d]
           IN  /\ p # None
               /\ p.min_mb # None => p.min_mb <= dom[d].max
               /\ (p.min_mb # None /\ p.max_mb # None) => p.min_mb <= p.max_mb

Within(amount, p) == /\ p.min_mb # None => amount >= p.min_mb
                     /\ p.max_mb # None => amount <= p.max_mb

TypeOK ==
  /\ libxl \in {"open", "none"}
  /\ dom \in [Domids -> [life : {"unborn", "up", "dead"}, mem : Sizes, target : Sizes, max : Sizes]]
  /\ policies \in [Domids -> PolicyType \cup {None}]
  /\ snapshot \in [Domids -> PolicyType \cup {None}]
  /\ userPolicy \in [Domids -> PolicyType \cup {None}]
  /\ pc \in {"sleep", "defaults", "snapshot", "apply"}
  /\ ready \in BOOLEAN /\ available \in BOOLEAN
  /\ listed \in [Domids -> Info \cup {None}]
  /\ todo \subseteq {d \in Domids : listed[d] # None}
  /\ pc = "apply" <=> todo # {}
  /\ late \in 0..MaxLate /\ ops \in 0..MaxOps /\ edges \in Nat
  /\ since \in [Domids -> [Directions -> 0..Horizon]]
  /\ quiet \in [Domids -> [Directions -> 0..Longest]]
  /\ defaulted \in [Domids -> Nat]
  /\ move # None => move.domid \in Domids /\ move.target \in Sizes

(* EventKind::EnginePolicyAutoDefault: "Emitted once per domain per daemon  *)
(* run; user-set policies are never overwritten". A client's policy stays   *)
(* in the map until that client or another replaces it, whichever point of  *)
(* a tick its engine.set_policy met.                                        *)
UserPolicyKept == \A d \in Domids : userPolicy[d] # None => policies[d] = userPolicy[d]

DefaultOnce == \A d \in Domids : defaulted[d] <= 1

(* The header of the engine: "never below min_mb, never above max_mb", of   *)
(* the policy its tick works with, although the memory it plans from, the   *)
(* policy map and the domain itself change under it. engine.set_policy      *)
(* takes a floor above its ceiling, and no move can respect both: such a    *)
(* policy is excused.                                                       *)
MovesWithinPolicy ==
  move # None => LET p == move.policy
                 IN  (p.min_mb # None /\ p.max_mb # None /\ p.min_mb > p.max_mb)
                       \/ Within(move.target, p)

(* "Cooldown is per (domid, direction)": between two moves of a domain in   *)
(* one direction the clock runs for the cooldown. A tick reads the clock    *)
(* once, so by that reading; a move made late in its tick counts as made    *)
(* when the clock was read.                                                 *)
CooldownKept ==
  (move # None /\ move.policy.cooldown_s # None)
    => move.quiet + MaxLate >= move.policy.cooldown_s

(* default_policy_for: "dom0 gets a no-op policy (min == max == current) so *)
(* we don't shrink the host out from under the user". Until a client sets a *)
(* policy for dom0 the engine does not move it.                             *)
Dom0LeftAlone == (move # None /\ move.domid = 0) => userPolicy[0] # None

(* The loop does its work: once clients have stopped, every domain that     *)
(* stays up under a policy that can be met ends up inside it for good.      *)
Satisfied(d) == (libxl = "open" /\ Up(d) /\ Sane(d)) => Within(dom[d].mem, policies[d])

Converges == <>[](\A d \in Domids : Satisfied(d))
=============================================================================
