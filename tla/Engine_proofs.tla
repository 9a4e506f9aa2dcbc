---------------------------- MODULE Engine_proofs ----------------------------
(***************************************************************************)
(* What holds of the memory control loop for every set of domains, sizes,  *)
(* policies and cooldowns, and of the bus that it sends its events to for  *)
(* every capacity, every set of clients and every limit.                   *)
(***************************************************************************)
EXTENDS Engine, EventBus, FiniteSetTheorems, SequenceTheorems, TLAPS

(* A domain without an entry has had none from a client and no event; an    *)
(* entry that a client set is still the client's.                           *)
PolicyInv == \A d \in Domids :
               /\ policies[d] = None => defaulted[d] = 0 /\ userPolicy[d] = None
               /\ userPolicy[d] # None => policies[d] = userPolicy[d]
               /\ defaulted[d] <= 1

(* The engine reads the clock before it moves, so what it takes for the     *)
(* time since a move is at most MaxLate more than the time that passed.     *)
ClockInv == \A d \in Domids : \A dir \in Directions :
              since[d][dir] <= quiet[d][dir] + MaxLate

Inv == TypeOK /\ PolicyInv /\ ClockInv

LEMMA InitInv == Init => Inv
<1> SUFFICES ASSUME Init PROVE Inv
  OBVIOUS
<1> USE EngineAssumption DEF Init
<1>1. Unborn \in [life : {"unborn", "up", "dead"}, mem : Sizes, target : Sizes, max : Sizes]
  BY DEF Unborn, Domain, Sizes
<1>2. Running \subseteq [life : {"unborn", "up", "dead"}, mem : Sizes, target : Sizes, max : Sizes]
  BY DEF Running, Domain, Sizes
<1>3. TypeOK
  BY <1>1, <1>2 DEF TypeOK, NoPolicies, Longest
<1>4. PolicyInv
  BY DEF PolicyInv, NoPolicies
<1>5. ClockInv
  BY DEF ClockInv, Longest
<1> QED BY <1>3, <1>4, <1>5 DEF Inv

(* The bound a plan names is the policy's. *)
LEMMA PlanType ==
  ASSUME NEW current \in Sizes, NEW p \in PolicyType, plan_move(current, p) # None
  PROVE  /\ plan_move(current, p).target \in Sizes
         /\ plan_move(current, p).dir \in Directions
         /\ \/ p.min_mb # None /\ p.max_mb # None /\ p.min_mb > p.max_mb
            \/ Within(plan_move(current, p).target, p)
<1>1. /\ p.min_mb \in Sizes \cup {None} /\ p.max_mb \in Sizes \cup {None}
      /\ Sizes \subseteq Nat /\ None \notin Nat
  BY EngineAssumption DEF PolicyType, Bounds, Sizes
<1>2. CASE p.max_mb # None /\ current > p.max_mb
  <2>1. plan_move(current, p) = [target |-> p.max_mb, dir |-> "Down"]
    BY <1>2 DEF plan_move
  <2>2. p.max_mb \in Sizes /\ p.max_mb \in Nat
    BY <1>1, <1>2
  <2>3. (p.min_mb # None /\ p.min_mb > p.max_mb) \/ Within(p.max_mb, p)
    <3>1. /\ p.min_mb # None => p.min_mb \in Nat
          /\ p.max_mb # None => p.max_mb \in Nat
      BY <1>1
    <3> QED BY <2>2, <3>1 DEF Within
  <2> QED BY <2>1, <2>2, <2>3, <1>2 DEF Directions
<1>3. CASE ~ (p.max_mb # None /\ current > p.max_mb)
  <2>1. /\ p.min_mb # None
        /\ plan_move(current, p) = [target |-> p.min_mb, dir |-> "Up"]
    BY <1>3 DEF plan_move
  <2>2. p.min_mb \in Sizes /\ p.min_mb \in Nat
    BY <2>1, <1>1
  <2>3. (p.max_mb # None /\ p.min_mb > p.max_mb) \/ Within(p.min_mb, p)
    <3>1. /\ p.min_mb # None => p.min_mb \in Nat
          /\ p.max_mb # None => p.max_mb \in Nat
      BY <1>1
    <3> QED BY <2>2, <3>1 DEF Within
  <2> QED BY <2>1, <2>2, <2>3 DEF Directions
<1> QED BY <1>2, <1>3

LEMMA DefaultType ==
  ASSUME NEW d \in Domids, NEW i \in Info
  PROVE  default_policy_for(d, i.mem, i.max) \in PolicyType
<1>1. /\ i.mem \in Bounds /\ i.max \in Bounds /\ 0 \in Bounds
      /\ Dom0Cooldown \in Cooldowns \cup {None} /\ DomUCooldown \in Cooldowns \cup {None}
  BY EngineAssumption DEF Info, Sizes, Bounds
<1> HIDE DEF Bounds, Cooldowns
<1> QED BY <1>1 DEF default_policy_for, Policy, PolicyType

(* What a step of the engine's loop over the domains works with. *)
LEMMA LoopFacts ==
  ASSUME TypeOK, NEW d \in Domids, Finish(d), Due(d)
  PROVE  /\ listed[d] \in Info /\ snapshot[d] \in PolicyType
         /\ Plan(d) = plan_move(listed[d].mem, snapshot[d])
         /\ Plan(d).target \in Sizes /\ Plan(d).dir \in Directions
         /\ \/ /\ snapshot[d].min_mb # None /\ snapshot[d].max_mb # None
               /\ snapshot[d].min_mb > snapshot[d].max_mb
            \/ Within(Plan(d).target, snapshot[d])
<1>1. listed[d] \in Info
  BY DEF TypeOK, Finish
<1>2. snapshot[d] # None /\ Plan(d) = plan_move(listed[d].mem, snapshot[d]) /\ Plan(d) # None
  BY DEF Due, Plan
<1>3. snapshot[d] \in PolicyType
  BY <1>2 DEF TypeOK
<1>4. listed[d].mem \in Sizes
  BY <1>1 DEF Info
<1> QED BY <1>1, <1>2, <1>3, <1>4, PlanType

LEMMA FinishType ==
  ASSUME TypeOK, NEW d \in Domids, Finish(d)
  PROVE  /\ pc' \in {"sleep", "defaults", "snapshot", "apply"}
         /\ ready' \in BOOLEAN
         /\ listed' \in [Domids -> Info \cup {None}]
         /\ snapshot' \in [Domids -> PolicyType \cup {None}]
         /\ todo' \subseteq {c \in Domids : listed'[c] # None}
         /\ pc' = "apply" <=> todo' # {}
<1>1. todo' = todo \ {d} /\ pc = "apply"
  BY DEF Finish
<1>2. CASE todo' = {}
  BY <1>1, <1>2 DEF Finish, Sleep, NoPolicies, TypeOK
<1>3. CASE todo' # {}
  <2>1. UNCHANGED <<pc, ready, listed, snapshot>>
    BY <1>3 DEF Finish
  <2> QED BY <2>1, <1>1, <1>3 DEF TypeOK
<1> QED BY <1>2, <1>3

DomainType == [life : {"unborn", "up", "dead"}, mem : Sizes, target : Sizes, max : Sizes]

LEMMA ResizeType ==
  ASSUME NEW f \in [Domids -> DomainType], NEW d \in Domids, NEW m \in Sizes
  PROVE  /\ [f EXCEPT ![d].target = m] \in [Domids -> DomainType]
         /\ [f EXCEPT ![d].mem = m] \in [Domids -> DomainType]
BY DEF DomainType

LEMMA SleepType ==
  ASSUME Sleep
  PROVE  /\ pc' = "sleep" /\ ready' \in BOOLEAN
         /\ listed' \in [Domids -> Info \cup {None}]
         /\ snapshot' \in [Domids -> PolicyType \cup {None}]
BY DEF Sleep, NoPolicies

LEMMA TypeStep ==
  ASSUME TypeOK, [Next]_vars
  PROVE  TypeOK'
<1> USE EngineAssumption
<1>1. ASSUME NEW found, ListOk(found) PROVE TypeOK'
  <2>1. \A d \in Domids : [mem |-> dom[d].mem, max |-> dom[d].max] \in Info
    BY DEF TypeOK, Info
  <2>2. listed' \in [Domids -> Info \cup {None}]
    BY <1>1, <2>1 DEF ListOk
  <2>3. todo = {}
    BY <1>1 DEF ListOk, TypeOK
  <2> QED BY <1>1, <2>2, <2>3 DEF ListOk, NoMove, TypeOK
<1>2. CASE ListUnavailable
  <2>1. edges' \in Nat /\ todo' = {}
    BY <1>2 DEF ListUnavailable, TypeOK
  <2> QED BY <1>2, <2>1, SleepType DEF ListUnavailable, NoMove, TypeOK
<1>3. CASE ListFails
  <2>1. todo' = {}
    BY <1>3 DEF ListFails, TypeOK
  <2> QED BY <1>3, <2>1, SleepType DEF ListFails, NoMove, TypeOK
<1>4. CASE InsertDefaults
  <2>1. \A d \in Fresh : default_policy_for(d, listed[d].mem, listed[d].max) \in PolicyType
    BY DefaultType DEF Fresh, TypeOK
  <2>2. policies' \in [Domids -> PolicyType \cup {None}]
    BY <1>4, <2>1 DEF InsertDefaults, TypeOK
  <2>3. defaulted' \in [Domids -> Nat]
    BY <1>4 DEF InsertDefaults, TypeOK
  <2> QED BY <1>4, <2>2, <2>3 DEF InsertDefaults, NoMove, TypeOK
<1>5. CASE TakeSnapshot
  <2>1. CASE todo' = {}
    <3>1. Sleep /\ late' \in 0..MaxLate
      BY <1>5, <2>1 DEF TakeSnapshot
    <3> QED BY <1>5, <2>1, <3>1, SleepType DEF TakeSnapshot, historyVars, NoMove, TypeOK
  <2>2. CASE todo' # {}
    BY <1>5, <2>2 DEF TakeSnapshot, Listed, historyVars, NoMove, TypeOK
  <2> QED BY <2>1, <2>2
<1>6. ASSUME NEW d \in Domids, Skip(d) PROVE TypeOK'
  BY <1>6, FinishType DEF Skip, Finish, NoMove, TypeOK
<1>7. ASSUME NEW d \in Domids, MoveFails(d) PROVE TypeOK'
  BY <1>7, FinishType DEF MoveFails, Finish, NoMove, TypeOK
<1>8. ASSUME NEW d \in Domids, MoveOk(d) PROVE TypeOK'
  <2>1. Finish(d) /\ Due(d)
    BY <1>8 DEF MoveOk
  <2>2. Plan(d).target \in Sizes /\ Plan(d).dir \in Directions
    BY <2>1, LoopFacts
  <2>3. dom' \in [Domids -> [life : {"unborn", "up", "dead"}, mem : Sizes, target : Sizes, max : Sizes]]
    BY <1>8, <2>2, ResizeType DEF MoveOk, TypeOK, DomainType
  <2>4. /\ since' \in [Domids -> [Directions -> 0..Horizon]]
        /\ quiet' \in [Domids -> [Directions -> 0..Longest]]
    <3>1. late \in 0..Horizon /\ 0 \in 0..Longest
      BY DEF TypeOK, Longest
    <3> QED BY <1>8, <2>2, <3>1 DEF MoveOk, Recorded, TypeOK
  <2>5. move'.domid \in Domids /\ move'.target \in Sizes
    BY <1>8, <2>2 DEF MoveOk
  <2> QED BY <1>8, <2>1, <2>3, <2>4, <2>5, FinishType DEF Finish, TypeOK
<1>9. ASSUME NEW d \in Domids, NEW policy \in UserPolicies, SetPolicy(d, policy) PROVE TypeOK'
  <2>1. policy \in PolicyType /\ ops' \in 0..MaxOps
    BY <1>9 DEF SetPolicy, Operate, TypeOK
  <2> QED BY <1>9, <2>1 DEF SetPolicy, Operate, NoMove, engineVars, TypeOK
<1>10. ASSUME NEW d \in Domids, NEW m \in Memory, Balloon(d, m) PROVE TypeOK'
  <2>1. m \in Sizes /\ ops' \in 0..MaxOps
    BY <1>10 DEF Balloon, Operate, TypeOK, Sizes
  <2>2. dom' \in [Domids -> DomainType]
    BY <1>10, <2>1, ResizeType DEF Balloon, TypeOK, DomainType
  <2> QED BY <1>10, <2>1, <2>2 DEF DomainType, Balloon, Operate, NoMove, engineVars, historyVars, TypeOK
<1>11. ASSUME NEW d \in Domids, NEW m \in Maxima, DomainStarts(d, m) PROVE TypeOK'
  <2>1. m \in Sizes /\ ops' \in 0..MaxOps
    BY <1>11 DEF DomainStarts, Operate, TypeOK, Sizes
  <2> QED BY <1>11, <2>1 DEF DomainStarts, Domain, Operate, NoMove, engineVars, historyVars, TypeOK
<1>12. ASSUME NEW d \in Domids, DomainDies(d) PROVE TypeOK'
  <2>1. 0 \in Sizes /\ ops' \in 0..MaxOps
    BY <1>12 DEF DomainDies, Operate, TypeOK, Sizes
  <2> QED BY <1>12, <2>1 DEF DomainDies, Domain, Operate, NoMove, engineVars, historyVars, TypeOK
<1>13. ASSUME NEW d \in Domids, GuestBalloons(d) PROVE TypeOK'
  <2>1. dom \in [Domids -> DomainType] /\ dom[d].target \in Sizes
    BY DEF TypeOK, DomainType
  <2>2. dom' \in [Domids -> DomainType]
    BY <1>13, <2>1, ResizeType DEF GuestBalloons
  <2> QED BY <1>13, <2>2 DEF DomainType, GuestBalloons, NoMove, engineVars, historyVars, TypeOK
<1>14. CASE Clock
  <2>1. late' \in 0..MaxLate
    BY <1>14 DEF Clock, TypeOK
  <2>2. /\ Longest \in Nat
        /\ \A limit \in Nat : \A times \in [Domids -> [Directions -> 0..limit]] :
             Aged(times, limit) \in [Domids -> [Directions -> 0..limit]]
    BY DEF Aged, Longest
  <2>3. /\ since' \in [Domids -> [Directions -> 0..Horizon]]
        /\ quiet' \in [Domids -> [Directions -> 0..Longest]]
    BY <1>14, <2>2 DEF Clock, TypeOK
  <2> QED BY <1>14, <2>1, <2>3 DEF Clock, NoMove, TypeOK
<1>15. CASE UNCHANGED vars
  BY <1>15 DEF vars, engineVars, historyVars, TypeOK
<1> QED BY <1>1, <1>2, <1>3, <1>4, <1>5, <1>6, <1>7, <1>8, <1>9, <1>10, <1>11, <1>12, <1>13,
           <1>14, <1>15 DEF Next, EngineStep, Environment

(* The engine touches the map only where it has no entry, and then counts    *)
(* one event; whatever a client stores is remembered as the client's.       *)
LEMMA PolicyStep ==
  ASSUME TypeOK, PolicyInv, [Next]_vars
  PROVE  PolicyInv'
<1>1. CASE InsertDefaults
  <2> SUFFICES ASSUME NEW d \in Domids
               PROVE  /\ policies'[d] = None => defaulted'[d] = 0 /\ userPolicy'[d] = None
                      /\ userPolicy'[d] # None => policies'[d] = userPolicy'[d]
                      /\ defaulted'[d] <= 1
    BY DEF PolicyInv
  <2>1. UNCHANGED userPolicy
    BY <1>1 DEF InsertDefaults
  <2>2. CASE d \in Fresh
    <3>1. policies[d] = None /\ listed[d] \in Info
      BY <2>2 DEF Fresh, TypeOK
    <3>2. policies'[d] # None
      BY <1>1, <2>2, <3>1, DefaultType, EngineAssumption DEF InsertDefaults
    <3>3. defaulted'[d] = 1 /\ userPolicy'[d] = None
      BY <1>1, <2>1, <2>2, <3>1 DEF InsertDefaults, PolicyInv
    <3> QED BY <3>2, <3>3
  <2>3. CASE d \notin Fresh
    BY <1>1, <2>1, <2>3 DEF InsertDefaults, PolicyInv
  <2> QED BY <2>2, <2>3
<1>2. ASSUME NEW c \in Domids, NEW policy \in UserPolicies, SetPolicy(c, policy) PROVE PolicyInv'
  <2>1. policy # None
    BY EngineAssumption
  <2> QED BY <1>2, <2>1 DEF SetPolicy, PolicyInv, TypeOK
<1>3. CASE UNCHANGED <<policies, userPolicy, defaulted>>
  BY <1>3 DEF PolicyInv
<1>4. ASSUME NEW d \in Domids, Skip(d) \/ MoveFails(d) \/ MoveOk(d)
      PROVE  UNCHANGED <<policies, userPolicy, defaulted>>
  BY <1>4 DEF Skip, MoveFails, MoveOk, Finish
<1>5. ASSUME NEW found, \/ ListOk(found) \/ ListUnavailable \/ ListFails \/ TakeSnapshot
                        \/ Clock \/ UNCHANGED vars
      PROVE  UNCHANGED <<policies, userPolicy, defaulted>>
  BY <1>5 DEF ListOk, ListUnavailable, ListFails, TakeSnapshot, Clock, vars, historyVars
<1>6. ASSUME NEW d \in Domids, NEW m, \/ Balloon(d, m) \/ DomainStarts(d, m)
                                      \/ DomainDies(d) \/ GuestBalloons(d)
      PROVE  UNCHANGED <<policies, userPolicy, defaulted>>
  BY <1>6 DEF Balloon, DomainStarts, DomainDies, GuestBalloons, historyVars
<1> QED BY <1>1, <1>2, <1>3, <1>4, <1>5, <1>6 DEF Next, EngineStep, Environment

LEMMA ClockStep ==
  ASSUME TypeOK, ClockInv, [Next]_vars
  PROVE  ClockInv'
<1>1. ASSUME NEW c \in Domids, MoveOk(c) PROVE ClockInv'
  <2>1. Plan(c).dir \in Directions
    BY <1>1, LoopFacts DEF MoveOk
  <2>2. late <= MaxLate /\ late \in Nat /\ MaxLate \in Nat
    BY EngineAssumption DEF TypeOK
  <2> SUFFICES ASSUME NEW d \in Domids, NEW dir \in Directions
               PROVE  since'[d][dir] <= quiet'[d][dir] + MaxLate
    BY DEF ClockInv
  <2>3. CASE d = c /\ dir = Plan(c).dir
    BY <1>1, <2>1, <2>2, <2>3 DEF MoveOk, Recorded, TypeOK
  <2>4. CASE ~ (d = c /\ dir = Plan(c).dir)
    <3>1. since'[d][dir] = since[d][dir] /\ quiet'[d][dir] = quiet[d][dir]
      BY <1>1, <2>1, <2>4 DEF MoveOk, Recorded, TypeOK
    <3> QED BY <3>1 DEF ClockInv
  <2> QED BY <2>3, <2>4
<1>2. CASE Clock
  <2> SUFFICES ASSUME NEW d \in Domids, NEW dir \in Directions
               PROVE  since'[d][dir] <= quiet'[d][dir] + MaxLate
    BY DEF ClockInv
  <2>1. /\ since[d][dir] \in 0..Horizon /\ quiet[d][dir] \in 0..Longest
        /\ since[d][dir] <= quiet[d][dir] + MaxLate
    BY DEF TypeOK, ClockInv
  <2>2. /\ since'[d][dir] = IF since[d][dir] < Horizon THEN since[d][dir] + 1 ELSE Horizon
        /\ quiet'[d][dir] = IF quiet[d][dir] < Longest THEN quiet[d][dir] + 1 ELSE Longest
    BY <1>2 DEF Clock, Aged
  <2> QED BY <2>1, <2>2, EngineAssumption DEF Longest
<1>3. CASE UNCHANGED <<since, quiet>>
  BY <1>3 DEF ClockInv
<1>4. ASSUME NEW d \in Domids, Skip(d) \/ MoveFails(d) PROVE UNCHANGED <<since, quiet>>
  BY <1>4 DEF Skip, MoveFails
<1>5. ASSUME NEW found, \/ ListOk(found) \/ ListUnavailable \/ ListFails \/ InsertDefaults
                        \/ TakeSnapshot \/ UNCHANGED vars
      PROVE  UNCHANGED <<since, quiet>>
  BY <1>5 DEF ListOk, ListUnavailable, ListFails, InsertDefaults, TakeSnapshot, vars, historyVars
<1>6. ASSUME NEW d \in Domids, NEW m, \/ Balloon(d, m) \/ DomainStarts(d, m) \/ SetPolicy(d, m)
                                      \/ DomainDies(d) \/ GuestBalloons(d)
      PROVE  UNCHANGED <<since, quiet>>
  BY <1>6 DEF Balloon, DomainStarts, SetPolicy, DomainDies, GuestBalloons, historyVars
<1> QED BY <1>1, <1>2, <1>3, <1>4, <1>5, <1>6 DEF Next, EngineStep, Environment

(* A move names a bound of the tick's policy, and is made only when the      *)
(* engine's own measure of the cooldown, which ClockInv relates to the time *)
(* that passed, has run out.                                                *)
LEMMA MoveStep ==
  ASSUME Inv, [Next]_vars, MovesWithinPolicy, CooldownKept
  PROVE  MovesWithinPolicy' /\ CooldownKept'
<1>1. ASSUME NEW d \in Domids, MoveOk(d) PROVE MovesWithinPolicy' /\ CooldownKept'
  <2>1. Finish(d) /\ Due(d) /\ TypeOK /\ ClockInv
    BY <1>1 DEF MoveOk, Inv
  <2>2. /\ move' = [domid |-> d, target |-> Plan(d).target, policy |-> snapshot[d],
                    quiet |-> quiet[d][Plan(d).dir]]
    BY <1>1 DEF MoveOk
  <2>3. MovesWithinPolicy'
    BY <2>1, <2>2, LoopFacts DEF MovesWithinPolicy, Within
  <2>4. ASSUME snapshot[d].cooldown_s # None
        PROVE  quiet[d][Plan(d).dir] + MaxLate >= snapshot[d].cooldown_s
    <3>1. Plan(d).dir \in Directions /\ snapshot[d] \in PolicyType
      BY <2>1, LoopFacts
    <3>2. /\ since[d][Plan(d).dir] \in Nat /\ quiet[d][Plan(d).dir] \in Nat
          /\ since[d][Plan(d).dir] <= quiet[d][Plan(d).dir] + MaxLate
      BY <2>1, <3>1, EngineAssumption DEF TypeOK, ClockInv, Longest
    <3>3. ~ (since[d][Plan(d).dir] - late < snapshot[d].cooldown_s)
      BY <2>1, <2>4 DEF Due, CoolingDown
    <3>4. snapshot[d].cooldown_s \in Nat /\ late \in Nat /\ MaxLate \in Nat
      BY <2>1, <2>4, <3>1, EngineAssumption DEF PolicyType, Cooldowns, Longest, TypeOK
    <3> QED BY <3>2, <3>3, <3>4
  <2>5. CooldownKept'
    BY <2>2, <2>4 DEF CooldownKept
  <2> QED BY <2>3, <2>5
<1>2. CASE NoMove
  BY <1>2 DEF NoMove, MovesWithinPolicy, CooldownKept
<1>3. CASE UNCHANGED vars
  BY <1>3 DEF vars, MovesWithinPolicy, CooldownKept, Within
<1>4. ASSUME NEW d \in Domids, Skip(d) \/ MoveFails(d) PROVE NoMove
  BY <1>4 DEF Skip, MoveFails
<1>5. ASSUME NEW found, \/ ListOk(found) \/ ListUnavailable \/ ListFails \/ InsertDefaults
                        \/ TakeSnapshot \/ Clock
      PROVE  NoMove
  BY <1>5 DEF ListOk, ListUnavailable, ListFails, InsertDefaults, TakeSnapshot, Clock
<1>6. ASSUME NEW d \in Domids, NEW m, \/ Balloon(d, m) \/ DomainStarts(d, m) \/ SetPolicy(d, m)
                                      \/ DomainDies(d) \/ GuestBalloons(d)
      PROVE  NoMove
  BY <1>6 DEF Balloon, DomainStarts, SetPolicy, DomainDies, GuestBalloons, Operate
<1> QED BY <1>1, <1>2, <1>3, <1>4, <1>5, <1>6 DEF Next, EngineStep, Environment

LEMMA InvStep == Inv /\ [Next]_vars => Inv'
BY TypeStep, PolicyStep, ClockStep DEF Inv

LEMMA Invariance == Spec => []Inv
BY InitInv, InvStep, PTL DEF Spec

(* The state of the engine, its policies and the domains stays well formed. *)
THEOREM TypeCorrect == Spec => []TypeOK
<1>1. Inv => TypeOK
  BY DEF Inv
<1> QED BY <1>1, Invariance, PTL

(* A policy a client set is never overwritten by the engine, wherever in a  *)
(* tick it arrived.                                                         *)
THEOREM UserPoliciesKept == Spec => []UserPolicyKept
<1>1. Inv => UserPolicyKept
  BY DEF Inv, PolicyInv, UserPolicyKept
<1> QED BY <1>1, Invariance, PTL

(* One EnginePolicyAutoDefault event per domain at most. *)
THEOREM DefaultsOnce == Spec => []DefaultOnce
<1>1. Inv => DefaultOnce
  BY DEF Inv, PolicyInv, DefaultOnce
<1> QED BY <1>1, Invariance, PTL

LEMMA Moves == Spec => [](MovesWithinPolicy /\ CooldownKept)
<1>1. Init => MovesWithinPolicy /\ CooldownKept
  BY DEF Init, MovesWithinPolicy, CooldownKept
<1>2. Inv /\ [Next]_vars /\ (MovesWithinPolicy /\ CooldownKept)
        => (MovesWithinPolicy /\ CooldownKept)'
  BY MoveStep
<1> QED BY <1>1, <1>2, Invariance, PTL DEF Spec

(* Every move of the engine ends inside the policy its tick works with.     *)
THEOREM AllMovesWithinPolicy == Spec => []MovesWithinPolicy
BY Moves, PTL

(* Two moves of a domain in one direction are a cooldown apart, by the      *)
(* clock as the tick reads it.                                              *)
THEOREM CooldownsKept == Spec => []CooldownKept
BY Moves, PTL

-----------------------------------------------------------------------------
(* The event bus. *)

(* The part of BusTypeOK the ring's invariant needs. *)
BusOK == /\ run \in Nat
         /\ bus \in [ring : Seq([seq : Nat, val : Nat \X Nat]), next_seq : Nat \ {0}]

RingInv == BusOK /\ RingContiguous

(* Appending to a full sequence after dropping its head, or to one that is  *)
(* not full: every element but the last moves down by one, or stays.        *)
LEMMA PushShifts ==
  ASSUME NEW S, NEW s \in Seq(S), NEW e \in S, NEW cap \in Nat \ {0},
         NEW t, t = Append(IF Len(s) = cap THEN Tail(s) ELSE s, e), Len(s) <= cap
  PROVE  /\ t \in Seq(S)
         /\ Len(t) = IF Len(s) = cap THEN cap ELSE Len(s) + 1
         /\ t[Len(t)] = e
         /\ \A i \in 1..(Len(t) - 1) : t[i] = IF Len(s) = cap THEN s[i + 1] ELSE s[i]
<1>1. CASE Len(s) = cap
  <2>1. s # <<>>
    BY <1>1
  <2>2. /\ Tail(s) \in Seq(S)
        /\ Len(Tail(s)) = cap - 1
        /\ \A i \in 1..(cap - 1) : Tail(s)[i] = s[i + 1]
    BY <2>1, <1>1, HeadTailProperties
  <2>3. /\ Append(Tail(s), e) \in Seq(S)
        /\ Len(Append(Tail(s), e)) = cap
        /\ \A i \in 1..(cap - 1) : Append(Tail(s), e)[i] = Tail(s)[i]
        /\ Append(Tail(s), e)[cap] = e
    BY <2>2, AppendProperties
  <2> QED BY <2>2, <2>3, <1>1
<1>2. CASE Len(s) # cap
  <2>1. t = Append(s, e)
    BY <1>2
  <2>2. /\ t \in Seq(S)
        /\ Len(t) = Len(s) + 1
        /\ \A i \in 1..Len(s) : t[i] = s[i]
        /\ t[Len(s) + 1] = e
    BY <2>1, AppendProperties
  <2> QED BY <2>2, <1>2
<1> QED BY <1>1, <1>2

(* One send keeps the ring contiguous: it appends the next number, and lets *)
(* go of the oldest entry exactly when the ring is full.                    *)
LEMMA SendContiguous ==
  ASSUME RingInv, bus' = Send(bus, <<run, bus.next_seq>>), run' = run
  PROVE  RingInv'
<1> DEFINE R == [seq : Nat, val : Nat \X Nat]
           e == [seq |-> bus.next_seq, val |-> <<run, bus.next_seq>>]
           s == bus.ring
           t == bus'.ring
           k == Len(bus.ring)
           m == Len(bus'.ring)
           last == bus.next_seq - 1
<1>1. /\ s \in Seq(R) /\ run \in Nat /\ bus.next_seq \in Nat \ {0}
      /\ CAPACITY \in Nat \ {0} /\ e \in R
  BY CapacityAssumption DEF RingInv, BusOK
<1>2. /\ t = Append(IF k = CAPACITY THEN Tail(s) ELSE s, e)
      /\ bus'.next_seq = bus.next_seq + 1
      /\ bus' \in [ring : {bus'.ring}, next_seq : {bus'.next_seq}]
  BY DEF Send
<1>3. /\ k = IF last < CAPACITY THEN last ELSE CAPACITY
      /\ \A i \in 1..k : s[i] = [seq |-> last - k + i, val |-> <<run, last - k + i>>]
  BY DEF RingInv, RingContiguous, LastSeq
<1>4. /\ k \in Nat /\ last \in Nat /\ k <= CAPACITY /\ k <= last
      /\ CAPACITY \in Nat \ {0} /\ bus.next_seq = last + 1
      /\ k = IF last < CAPACITY THEN last ELSE CAPACITY
  BY <1>1, <1>3
<1>5. /\ t \in Seq(R)
      /\ m = IF k = CAPACITY THEN CAPACITY ELSE k + 1
      /\ t[m] = e
      /\ \A i \in 1..(m - 1) : t[i] = IF k = CAPACITY THEN s[i + 1] ELSE s[i]
  <2>1. CAPACITY \in Nat \ {0} /\ k = Len(s) /\ m = Len(t)
    BY <1>1
  <2> HIDE DEF R, e, s, t, k, m
  <2> QED BY <1>1, <1>2, <1>4, <2>1, PushShifts
<1>6. BusOK'
  <2>1. run' \in Nat /\ bus'.next_seq \in Nat \ {0} /\ bus'.ring \in Seq(R)
    BY <1>1, <1>2, <1>5, SMTT(30)
  <2> HIDE DEF e, s, t, k, m, last
  <2> QED BY <2>1, <1>2 DEF BusOK
<1> HIDE DEF s, t, k, m, last
<1>7. m = IF last + 1 < CAPACITY THEN last + 1 ELSE CAPACITY
  BY <1>4, <1>5, SMTT(30)
<1>8. ASSUME NEW i \in 1..m
      PROVE  t[i] = [seq |-> last + 1 - m + i, val |-> <<run, last + 1 - m + i>>]
  <2>0. m \in Nat /\ i \in Nat /\ bus.next_seq = last + 1
    BY <1>4, <1>5
  <2>1. CASE i = m
    <3>1. last + 1 - m + i = bus.next_seq
      BY <2>0, <2>1, <1>4
    <3> QED BY <3>1, <2>1, <1>5
  <2>2. CASE i # m /\ k = CAPACITY
    <3>0. m = k
      BY <2>2, <1>5
    <3>1. i + 1 \in 1..k /\ i \in 1..(m - 1) /\ last - k + (i + 1) = last + 1 - m + i
      BY <3>0, <2>0, <2>2, <1>4
    <3> QED BY <3>1, <2>2, <1>3, <1>5
  <2>3. CASE i # m /\ k # CAPACITY
    <3>1. i \in 1..k /\ i \in 1..(m - 1) /\ last - k + i = last + 1 - m + i
      BY <2>0, <2>3, <1>4, <1>5
    <3> QED BY <3>1, <2>3, <1>3, <1>5
  <2> QED BY <2>1, <2>2, <2>3
<1>9. bus'.next_seq - 1 = last + 1 /\ run' = run
  BY <1>2, <1>4
<1>10. RingContiguous'
  <2>1. RingContiguous' <=>
          /\ m = IF bus'.next_seq - 1 < CAPACITY THEN bus'.next_seq - 1 ELSE CAPACITY
          /\ \A i \in 1..m : t[i] = [seq |-> bus'.next_seq - 1 - m + i,
                                     val |-> <<run', bus'.next_seq - 1 - m + i>>]
    BY DEF RingContiguous, LastSeq, m, t
  <2> HIDE DEF R, e
  <2>2. m = IF bus'.next_seq - 1 < CAPACITY THEN bus'.next_seq - 1 ELSE CAPACITY
    BY <1>7, <1>9
  <2>3. ASSUME NEW i \in 1..m
        PROVE  t[i] = [seq |-> bus'.next_seq - 1 - m + i,
                       val |-> <<run', bus'.next_seq - 1 - m + i>>]
    <3>1. m \in Nat /\ i \in Nat
      BY <1>4, <1>5
    <3>2. last + 1 - m + i = bus'.next_seq - 1 - m + i
      BY <3>1, <1>4, <1>9
    <3> QED BY <3>2, <1>8, <1>9
  <2> QED BY <2>1, <2>2, <2>3
<1> QED BY <1>6, <1>10 DEF RingInv

LEMMA EmptyContiguous ==
  ASSUME bus = Channel, run \in Nat
  PROVE  RingInv
BY CapacityAssumption DEF Channel, RingInv, BusOK, RingContiguous, LastSeq

LEMMA RingStep ==
  ASSUME RingInv, [BusNext]_busVars
  PROVE  RingInv'
<1>1. CASE Publish
  BY <1>1, SendContiguous DEF Publish
<1>2. CASE Restart
  <2>1. bus' = Channel /\ run' \in Nat
    BY <1>2 DEF Restart, RingInv, BusOK
  <2> QED BY <2>1, CapacityAssumption
          DEF Channel, RingInv, BusOK, RingContiguous, LastSeq
<1>3. CASE UNCHANGED <<run, bus>>
  BY <1>3 DEF RingInv, BusOK, RingContiguous, LastSeq
<1> QED BY <1>1, <1>2, <1>3 DEF BusNext, Ask, Serve, Receive, Disconnect, busVars

(* RingContiguous for every CAPACITY: the ring always holds exactly the     *)
(* latest values sent, in order and consecutively numbered.                 *)
THEOREM RingIsContiguous == BusSpec => []RingContiguous
<1>1. BusInit => RingInv
  BY EmptyContiguous DEF BusInit
<1>2. RingInv /\ [BusNext]_busVars => RingInv'
  BY RingStep
<1>3. RingInv => RingContiguous
  BY DEF RingInv
<1> QED BY <1>1, <1>2, <1>3, PTL DEF BusSpec
-----------------------------------------------------------------------------
(* What drain_since gives: of a contiguous ring, the consecutive numbers    *)
(* from some k on that is no lower than the cursor, up to the new cursor;   *)
(* k is the cursor itself unless the ring has turned over in between.       *)
LEMMA Drained ==
  ASSUME RingInv, NEW from \in Nat
  PROVE  LET d == DrainSince(bus, from)
         IN  /\ d.events \in Seq(Nat \X Nat)
             /\ d.cursor \in Nat
             /\ d.cursor = from \/ d.cursor = LastSeq(bus)
             /\ \E k \in Nat :
                  /\ from <= k
                  /\ d.cursor = k + Len(d.events)
                  /\ \A i \in 1..Len(d.events) : d.events[i] = <<run, k + i>>
<1> DEFINE L == Len(bus.ring)
           base == LastSeq(bus) - L
           d == DrainSince(bus, from)
           skip == Passed(bus, from)
<1>1. /\ bus.ring \in Seq([seq : Nat, val : Nat \X Nat]) /\ run \in Nat
      /\ L \in Nat /\ LastSeq(bus) \in Nat /\ L <= LastSeq(bus) /\ base \in Nat
  BY CapacityAssumption DEF RingInv, BusOK, RingContiguous, LastSeq
<1>2. ASSUME NEW i \in 1..L
      PROVE  bus.ring[i].seq = base + i /\ bus.ring[i].val = <<run, base + i>>
  <2>1. bus.ring[i] = [seq |-> base + i, val |-> <<run, base + i>>]
    BY DEF RingInv, RingContiguous
  <2> QED BY <2>1
<1> DEFINE p == IF from <= base THEN 0 ELSE IF from - base <= L THEN from - base ELSE L
<1> HIDE DEF L, base, d, skip
<1>3. p \in 0..L
  BY <1>1, SMT
<1> USE DEF d, skip
<1> HIDE DEF p
<1>4. skip = p
  <2>1. {i \in 1..L : bus.ring[i].seq <= from} = 1..p
    <3>1. ASSUME NEW i \in 1..L PROVE bus.ring[i].seq <= from <=> i \in 1..p
      <4>1. bus.ring[i].seq = base + i
        BY <1>2
      <4>2. base + i <= from <=> i <= p
        BY <1>1 DEF p
      <4> QED BY <4>1, <4>2, <1>1, <1>3
    <3>2. 1..p \subseteq 1..L
      BY <1>1, <1>3
    <3> QED BY <3>1, <3>2
  <2>2. Cardinality(1..p) = p
    BY <1>1, <1>3, FS_Interval
  <2> QED BY <2>1, <2>2 DEF Passed, L
<1>5. /\ d.cursor = IF L - p = 0 THEN from ELSE bus.ring[L].seq
      /\ d.events = [i \in 1..(L - p) |-> bus.ring[p + i].val]
  BY <1>4 DEF DrainSince, L
<1>6. ASSUME NEW i \in 1..(L - p)
      PROVE  bus.ring[p + i].val = <<run, base + p + i>>
  <2>1. p + i \in 1..L /\ base + (p + i) = base + p + i
    BY <1>1, <1>3
  <2>2. bus.ring[p + i].val = <<run, base + (p + i)>>
    BY <2>1, <1>2
  <2> QED BY <2>1, <2>2
<1>7. /\ d.events \in Seq(Nat \X Nat) /\ Len(d.events) = L - p
  <2>1. L - p \in Nat /\ \A i \in 1..(L - p) : base + p + i \in Nat
    BY <1>1, <1>3
  <2>2. [i \in 1..(L - p) |-> bus.ring[p + i].val] \in Seq(Nat \X Nat)
    <3>1. ASSUME NEW i \in 1..(L - p) PROVE bus.ring[p + i].val \in Nat \X Nat
      <4>1. bus.ring[p + i].val = <<run, base + p + i>> /\ base + p + i \in Nat
        BY <1>6, <2>1
      <4> QED BY <4>1, <1>1, SMTT(30)
    <3> QED BY <2>1, <3>1
  <2> QED BY <1>5, <2>1, <2>2
<1>8. CASE L - p = 0
  <2>1. d.cursor = from /\ Len(d.events) = 0
    BY <1>5, <1>7, <1>8
  <2> QED BY <2>1, <1>7
<1>9. CASE L - p # 0
  <2>1. L \in 1..L /\ base + p \in Nat /\ from <= base + p /\ base + L = base + p + (L - p)
    BY <1>1, <1>3, <1>9 DEF p
  <2>2. d.cursor = base + L
    <3>1. bus.ring[L].seq = base + L
      BY <1>2, <2>1
    <3>2. d.cursor = bus.ring[L].seq
      BY <1>5, <1>9
    <3> QED BY <3>1, <3>2
  <2>3. base + L = LastSeq(bus)
    BY <1>1 DEF base
  <2>4. \A i \in 1..Len(d.events) : d.events[i] = <<run, base + p + i>>
    BY <1>5, <1>6, <1>7
  <2> QED BY <1>1, <1>7, <2>1, <2>2, <2>3, <2>4
<1> QED BY <1>8, <1>9

-----------------------------------------------------------------------------
(* The clients.                                                             *)

ClientsOK ==
  /\ cursor \in [Clients -> Nat]
  /\ call \in [Clients -> {Idle} \cup [state : {"asked"}, since : Nat, limit : Nat]]
  /\ reply \in [Clients -> {NoReply} \cup
                   [state : {"answered"}, cursor : Nat, events : Seq(Nat \X Nat)]]
  /\ seen \in [Clients -> Seq(Nat \X Nat)]
  /\ gap \in [Clients -> BOOLEAN]

(* What a client is asked to go on from is what it has.                     *)
AsksFromCursor(c) == call[c] # Idle => call[c].since = cursor[c]

(* An answer holds consecutive events of this life, above the cursor asked  *)
(* from and none above its own cursor.                                      *)
Consecutive(answer, from) ==
  /\ answer.cursor = from \/ answer.cursor <= LastSeq(bus)
  /\ \E k \in Nat : /\ from <= k
                     /\ k + Len(answer.events) <= answer.cursor
                     /\ \A i \in 1..Len(answer.events) : answer.events[i] = <<run, k + i>>

AnswersTheCall(c) ==
  reply[c] # NoReply => call[c] # Idle /\ Consecutive(reply[c], call[c].since)

(* The cursor covers every event of this life that was received.            *)
CursorCovers(c) ==
  \A i \in 1..Len(seen[c]) :
    seen[c][i][1] < run \/ (seen[c][i][1] = run /\ seen[c][i][2] <= cursor[c])

InOrder(c) == \A i, j \in 1..Len(seen[c]) : i < j => Before(seen[c][i], seen[c][j])

Client(c) == AsksFromCursor(c) /\ AnswersTheCall(c) /\ CursorCovers(c) /\ InOrder(c)

ClientInv == RingInv /\ ClientsOK /\ \A c \in Clients : Client(c)

(* events.tail answers with consecutive events, whatever the limit cuts off. *)
LEMMA TailConsecutive ==
  ASSUME RingInv, NEW from \in Nat, NEW limit \in Nat
  PROVE  LET a == EventsTail(from, limit)
         IN  /\ a \in [state : {"answered"}, cursor : Nat, events : Seq(Nat \X Nat)]
             /\ Consecutive(a, from)
<1> DEFINE d == DrainSince(bus, from)
           n == IF Len(d.events) > limit THEN limit ELSE Len(d.events)
           cut == SubSeq(d.events, 1, n)
           a == EventsTail(from, limit)
<1>1. /\ d.events \in Seq(Nat \X Nat) /\ d.cursor \in Nat
      /\ d.cursor = from \/ d.cursor = LastSeq(bus)
      /\ LastSeq(bus) \in Nat
  BY Drained DEF RingInv, BusOK, LastSeq
<1>2. PICK k \in Nat : /\ from <= k
                       /\ d.cursor = k + Len(d.events)
                       /\ \A i \in 1..Len(d.events) : d.events[i] = <<run, k + i>>
  BY Drained
<1>3. a.cursor = d.cursor /\ a.events = cut /\ a = [state |-> "answered", cursor |-> d.cursor, events |-> cut]
  BY DEF EventsTail, Truncated, Reply
<1> HIDE DEF d, a
<1>4. n \in 0..Len(d.events) /\ n \in Nat
  BY <1>1
<1>5. /\ cut \in Seq(Nat \X Nat) /\ Len(cut) = n
      /\ \A i \in 1..n : cut[i] = d.events[i]
  BY <1>1, <1>4
<1> HIDE DEF n, cut
<1>6. a \in [state : {"answered"}, cursor : Nat, events : Seq(Nat \X Nat)]
  BY <1>1, <1>3, <1>5
<1>7. ASSUME NEW i \in 1..Len(a.events) PROVE a.events[i] = <<run, k + i>>
  <2>1. i \in 1..n /\ i \in 1..Len(d.events)
    BY <1>1, <1>3, <1>4, <1>5
  <2> QED BY <2>1, <1>2, <1>3, <1>5
<1>8. k + Len(a.events) <= a.cursor
  BY <1>1, <1>2, <1>3, <1>4, <1>5
<1>9. a.cursor = from \/ a.cursor <= LastSeq(bus)
  BY <1>1, <1>3
<1>10. Consecutive(a, from)
  BY <1>2, <1>7, <1>8, <1>9 DEF Consecutive
<1> QED BY <1>6, <1>10 DEF a

(* Taking such an answer keeps what was received in order and covered.      *)
UpTo(s, life, cur) ==
  \A i \in 1..Len(s) : s[i][1] < life \/ (s[i][1] = life /\ s[i][2] <= cur)

Sorted(s) == \A i, j \in 1..Len(s) : i < j => Before(s[i], s[j])

NumberedFrom(s, life, k) == \A i \in 1..Len(s) : s[i] = <<life, k + i>>

LEMMA TakenInOrder ==
  ASSUME NEW old \in Seq(Nat \X Nat), NEW cur \in Nat, NEW life \in Nat,
         NEW evs \in Seq(Nat \X Nat), NEW new \in Nat, NEW k \in Nat,
         cur <= k, k + Len(evs) <= new,
         NumberedFrom(evs, life, k), UpTo(old, life, cur), Sorted(old)
  PROVE  /\ old \o evs \in Seq(Nat \X Nat)
         /\ UpTo(old \o evs, life, new)
         /\ Sorted(old \o evs)
<1> DEFINE all == old \o evs
           m == Len(old)
           n == Len(evs)
<1>1. /\ all \in Seq(Nat \X Nat) /\ Len(all) = m + n
      /\ m \in Nat /\ n \in Nat
  BY ConcatProperties
<1>2a. \A i \in 1..m + n : all[i] = IF i <= m THEN old[i] ELSE evs[i - m]
  BY ConcatProperties
<1>2b. \A i \in 1..m : old[i] \in Nat \X Nat
  OBVIOUS
<1>2. /\ \A i \in 1..m + n : all[i] = IF i <= m THEN old[i] ELSE evs[i - m]
      /\ \A i \in 1..m : old[i] \in Nat \X Nat
  BY <1>2a, <1>2b
<1> HIDE DEF all, m, n
<1>3. ASSUME NEW i \in 1..Len(all), i > m
      PROVE  \E e \in Nat : all[i] = <<life, e>> /\ e = k + (i - m) /\ cur < e /\ e <= new
  <2>1. i \in 1..m + n /\ ~(i <= m) /\ i - m \in 1..n
    BY <1>1, <1>3
  <2>2. all[i] = evs[i - m]
    BY <1>2, <2>1
  <2>3. all[i] = <<life, k + (i - m)>>
    BY <2>1, <2>2 DEF n, NumberedFrom
  <2>4. k + (i - m) \in Nat /\ cur < k + (i - m) /\ k + (i - m) <= new
    BY <1>1, <2>1 DEF n
  <2> QED BY <2>3, <2>4
<1>4. ASSUME NEW i \in 1..Len(all), i <= m
      PROVE  i \in 1..m /\ all[i] = old[i] /\ old[i] \in Nat \X Nat
  <2>1. i \in 1..m /\ i \in 1..m + n
    BY <1>1, <1>4
  <2> QED BY <2>1, <1>2, <1>4
<1>5. ASSUME NEW i \in 1..Len(all)
      PROVE  all[i][1] < life \/ (all[i][1] = life /\ all[i][2] <= new)
  <2>1. CASE i <= m
    <3>1. all[i] = old[i] /\ old[i][2] \in Nat
      BY <1>4, <2>1
    <3>2. old[i][1] < life \/ (old[i][1] = life /\ old[i][2] <= cur)
      BY <1>4, <2>1 DEF m, UpTo
    <3>3. cur <= new
      BY <1>1 DEF n
    <3>4. old[i][2] <= cur => old[i][2] <= new
      BY <3>1, <3>3, SMTT(30)
    <3> QED BY <3>1, <3>2, <3>4
  <2>2. CASE i > m
    BY <1>3, <2>2
  <2> QED BY <2>1, <2>2, <1>1
<1>6. ASSUME NEW i \in 1..Len(all), NEW j \in 1..Len(all), i < j
      PROVE  Before(all[i], all[j])
  <2>1. CASE j <= m
    <3>1. i <= m
      BY <1>1, <1>6, <2>1
    <3> QED BY <3>1, <1>4, <1>6, <2>1 DEF m, Sorted
  <2>2. CASE i <= m /\ j > m
    <3>1. PICK e \in Nat : all[j] = <<life, e>> /\ cur < e
      BY <1>3, <2>2
    <3>2. all[i] = old[i] /\ old[i][2] \in Nat
      BY <1>4, <2>2
    <3>3. old[i][1] < life \/ (old[i][1] = life /\ old[i][2] <= cur)
      BY <1>4, <2>2 DEF m, UpTo
    <3>4. \A x \in Nat : x <= cur => x < e
      BY <3>1
    <3>5. old[i][2] <= cur => old[i][2] < e
      BY <3>2, <3>4
    <3> QED BY <3>1, <3>2, <3>3, <3>5, SMTT(30) DEF Before
  <2>3. CASE i > m /\ j > m
    <3>1. PICK d \in Nat : all[i] = <<life, d>> /\ d = k + (i - m)
      BY <1>3, <2>3
    <3>2. PICK e \in Nat : all[j] = <<life, e>> /\ e = k + (j - m)
      BY <1>3, <2>3
    <3>3. d < e
      BY <1>1, <1>6, <3>1, <3>2
    <3> QED BY <3>1, <3>2, <3>3 DEF Before
  <2>4. i <= m \/ i > m
    BY <1>1
  <2>5. j <= m \/ j > m
    BY <1>1
  <2>6. i > m => ~(j <= m)
    BY <1>1, <1>6
  <2> QED BY <2>1, <2>2, <2>3, <2>4, <2>5, <2>6
<1>7. UpTo(all, life, new) /\ Sorted(all)
  BY <1>5, <1>6 DEF UpTo, Sorted
<1> QED BY <1>1, <1>7 DEF all

LEMMA ClientInit == BusInit => ClientInv
<1> SUFFICES ASSUME BusInit PROVE ClientInv
  OBVIOUS
<1>1. RingInv
  BY EmptyContiguous DEF BusInit
<1>2. ClientsOK
  BY DEF BusInit, ClientsOK
<1>3. ASSUME NEW c \in Clients PROVE Client(c)
  BY DEF BusInit, Client, AsksFromCursor, AnswersTheCall, CursorCovers, InOrder
<1> QED BY <1>1, <1>2, <1>3 DEF ClientInv

(* LastSeq never falls within a life.                                       *)
LEMMA Later ==
  ASSUME RingInv, run' = run, LastSeq(bus)' >= LastSeq(bus), LastSeq(bus)' \in Nat,
         NEW answer, NEW from, answer.cursor \in Nat, Consecutive(answer, from)
  PROVE  Consecutive(answer, from)'
<1>1. LastSeq(bus) \in Nat
  BY DEF RingInv, BusOK, LastSeq
<1> QED BY <1>1 DEF Consecutive

LEMMA ClientStep ==
  ASSUME ClientInv, [BusNext]_busVars
  PROVE  ClientInv'
<1>0. RingInv /\ ClientsOK /\ RingInv'
  BY RingStep DEF ClientInv
<1>1. CASE Publish
  <2>1. /\ run' = run /\ LastSeq(bus)' >= LastSeq(bus) /\ LastSeq(bus)' \in Nat
        /\ UNCHANGED <<cursor, call, reply, seen, gap>>
    BY <1>0, <1>1, SMTT(30) DEF Publish, Send, LastSeq, RingInv, BusOK
  <2>2. ClientsOK'
    BY <1>0, <2>1 DEF ClientsOK
  <2>3. ASSUME NEW c \in Clients PROVE Client(c)'
    <3>1. Client(c)
      BY DEF ClientInv
    <3>2. AnswersTheCall(c)'
      <4>1. CASE reply[c] = NoReply
        BY <2>1, <4>1 DEF AnswersTheCall
      <4>2. CASE reply[c] # NoReply
        <5>1. reply[c].cursor \in Nat /\ Consecutive(reply[c], call[c].since) /\ call[c] # Idle
          BY <1>0, <3>1, <4>2 DEF ClientsOK, Client, AnswersTheCall
        <5>2. \A s : Consecutive(reply[c], s) => Consecutive(reply[c], s)'
          BY <1>0, <2>1, <5>1, Later
        <5> QED BY <2>1, <5>1, <5>2 DEF AnswersTheCall, Consecutive
      <4> QED BY <4>1, <4>2
    <3> QED BY <2>1, <3>1, <3>2 DEF Client, AsksFromCursor, CursorCovers, InOrder
  <2> QED BY <1>0, <2>2, <2>3 DEF ClientInv
<1>2. CASE Restart
  <2>1. /\ run' = run + 1 /\ run \in Nat /\ seen' = seen
        /\ call' = [c \in Clients |-> Idle] /\ reply' = [c \in Clients |-> NoReply]
    BY <1>0, <1>2 DEF Restart, RingInv, BusOK
  <2>2. ClientsOK'
    BY <1>0, <1>2 DEF Restart, ClientsOK, OnReconnect
  <2>3. ASSUME NEW c \in Clients PROVE Client(c)'
    <3>1. CursorCovers(c)'
      <4>1. ASSUME NEW i \in 1..Len(seen[c]) PROVE seen[c][i][1] < run + 1
        <5>1. seen[c] \in Seq(Nat \X Nat)
          BY <1>0 DEF ClientsOK
        <5>2. seen[c][i] \in Nat \X Nat
          BY <5>1
        <5> QED BY <2>1, <5>2 DEF ClientInv, Client, CursorCovers
      <4> QED BY <2>1, <4>1 DEF CursorCovers
    <3> QED BY <2>1, <3>1 DEF ClientInv, Client, AsksFromCursor, AnswersTheCall, InOrder
  <2> QED BY <1>0, <2>2, <2>3 DEF ClientInv
<1>3. ASSUME NEW c \in Clients, NEW limit \in Limits, Ask(c, limit)
      PROVE  ClientInv'
  <2>1. ClientsOK'
    BY <1>0, <1>3, BusAssumption DEF Ask, ClientsOK, Call
  <2>2. ASSUME NEW d \in Clients PROVE Client(d)'
    <3>1. reply[c] = NoReply
      BY <1>3 DEF Ask, ClientInv, Client, AnswersTheCall
    <3>2. Client(d) /\ UNCHANGED <<run, bus, cursor, reply, seen>>
      BY <1>3 DEF Ask, ClientInv
    <3>3. AsksFromCursor(d)'
      BY <1>0, <1>3, <3>2 DEF Ask, Client, AsksFromCursor, Call, ClientsOK
    <3>4. AnswersTheCall(d)'
      BY <1>0, <1>3, <3>1, <3>2 DEF Ask, Client, AnswersTheCall, Consecutive, LastSeq, ClientsOK
    <3> QED BY <3>2, <3>3, <3>4 DEF Client, CursorCovers, InOrder
  <2> QED BY <1>0, <2>1, <2>2 DEF ClientInv
<1>4. ASSUME NEW c \in Clients, Serve(c)
      PROVE  ClientInv'
  <2> DEFINE answer == EventsTail(call[c].since, call[c].limit)
  <2>1. call[c] # Idle /\ call[c].since \in Nat /\ call[c].limit \in Nat
    BY <1>0, <1>4 DEF Serve, ClientsOK, Idle
  <2>2. /\ answer \in [state : {"answered"}, cursor : Nat, events : Seq(Nat \X Nat)]
        /\ Consecutive(answer, call[c].since)
    BY <1>0, <2>1, TailConsecutive
  <2>3. reply' = [reply EXCEPT ![c] = answer] /\ UNCHANGED <<run, bus, cursor, call, seen, gap>>
    BY <1>4 DEF Serve
  <2> HIDE DEF answer
  <2>4. ClientsOK'
    BY <1>0, <2>2, <2>3 DEF ClientsOK
  <2>5. ASSUME NEW d \in Clients PROVE Client(d)'
    <3>1. Client(d)
      BY DEF ClientInv
    <3>2. AnswersTheCall(d)'
      BY <1>0, <2>1, <2>2, <2>3, <3>1
         DEF ClientsOK, Client, AnswersTheCall, Consecutive, LastSeq
    <3> QED BY <2>3, <3>1, <3>2 DEF Client, AsksFromCursor, CursorCovers, InOrder
  <2> QED BY <1>0, <2>4, <2>5 DEF ClientInv
<1>5. ASSUME NEW c \in Clients, Receive(c)
      PROVE  ClientInv'
  <2>1. /\ reply[c] # NoReply /\ reply[c].cursor \in Nat
        /\ reply[c].events \in Seq(Nat \X Nat) /\ seen[c] \in Seq(Nat \X Nat)
        /\ cursor[c] \in Nat /\ run \in Nat /\ Client(c)
    BY <1>0, <1>5 DEF Receive, ClientsOK, NoReply, ClientInv, RingInv, BusOK
  <2>2. PICK k \in Nat :
          /\ cursor[c] <= k /\ k + Len(reply[c].events) <= reply[c].cursor
          /\ \A i \in 1..Len(reply[c].events) : reply[c].events[i] = <<run, k + i>>
    BY <2>1 DEF Client, AsksFromCursor, AnswersTheCall, Consecutive
  <2> DEFINE all == seen[c] \o reply[c].events
  <2>3. all \in Seq(Nat \X Nat) /\ UpTo(all, run, reply[c].cursor) /\ Sorted(all)
    <3>1. UpTo(seen[c], run, cursor[c]) /\ Sorted(seen[c])
      BY <2>1 DEF Client, CursorCovers, InOrder, UpTo, Sorted
    <3>2. NumberedFrom(reply[c].events, run, k)
      BY <2>2 DEF NumberedFrom
    <3> QED BY <2>1, <2>2, <3>1, <3>2, TakenInOrder
  <2>4. /\ seen' = [seen EXCEPT ![c] = all] /\ run' = run /\ bus' = bus
        /\ cursor' = [cursor EXCEPT ![c] = reply[c].cursor]
        /\ call' = [call EXCEPT ![c] = Idle] /\ reply' = [reply EXCEPT ![c] = NoReply]
        /\ gap' = [gap EXCEPT ![c] = gap[c] \/ reply[c].cursor # call[c].since + Len(reply[c].events)]
    BY <1>5 DEF Receive
  <2> HIDE DEF all
  <2>5. ClientsOK'
    <3>1. gap' \in [Clients -> BOOLEAN]
      BY <1>0, <2>4 DEF ClientsOK
    <3>2. /\ cursor' \in [Clients -> Nat] /\ seen' \in [Clients -> Seq(Nat \X Nat)]
      BY <1>0, <2>1, <2>3, <2>4 DEF ClientsOK
    <3> QED BY <1>0, <2>4, <3>1, <3>2 DEF ClientsOK
  <2>6. ASSUME NEW d \in Clients PROVE Client(d)'
    <3>1. Client(d)
      BY DEF ClientInv
    <3>2. CASE d = c
      <4>1. seen'[d] = all /\ cursor'[d] = reply[c].cursor /\ call'[d] = Idle /\ reply'[d] = NoReply
        BY <1>0, <2>4, <3>2 DEF ClientsOK
      <4>2. CursorCovers(d)' /\ InOrder(d)'
        BY <2>3, <2>4, <4>1 DEF CursorCovers, InOrder, UpTo, Sorted
      <4> QED BY <4>1, <4>2 DEF Client, AsksFromCursor, AnswersTheCall
    <3>3. CASE d # c
      <4>1. /\ seen'[d] = seen[d] /\ cursor'[d] = cursor[d] /\ call'[d] = call[d]
            /\ reply'[d] = reply[d] /\ run' = run /\ bus' = bus
        BY <1>0, <2>4, <3>3 DEF ClientsOK
      <4> QED BY <3>1, <4>1 DEF Client, AsksFromCursor, AnswersTheCall, CursorCovers, InOrder,
                                Consecutive, LastSeq
    <3> QED BY <3>2, <3>3
  <2> QED BY <1>0, <2>5, <2>6 DEF ClientInv
<1>6. ASSUME NEW c \in Clients, Disconnect(c)
      PROVE  ClientInv'
  <2>1. ClientsOK'
    BY <1>0, <1>6 DEF Disconnect, ClientsOK
  <2>2. ASSUME NEW d \in Clients PROVE Client(d)'
    <3>1. /\ Client(d) /\ UNCHANGED <<run, bus, cursor, seen>>
          /\ IF d = c THEN call'[d] = Idle /\ reply'[d] = NoReply
             ELSE call'[d] = call[d] /\ reply'[d] = reply[d]
      BY <1>0, <1>6 DEF Disconnect, ClientInv, ClientsOK
    <3> QED BY <3>1 DEF Client, AsksFromCursor, AnswersTheCall, CursorCovers, InOrder,
                        Consecutive, LastSeq
  <2> QED BY <1>0, <2>1, <2>2 DEF ClientInv
<1>7. CASE UNCHANGED busVars
  <2>1. ASSUME NEW c \in Clients PROVE Client(c)'
    BY <1>7 DEF ClientInv, busVars, Client, AsksFromCursor, AnswersTheCall, CursorCovers, InOrder,
                Consecutive, LastSeq
  <2> QED BY <1>0, <1>7, <2>1 DEF ClientInv, busVars, ClientsOK
<1> QED BY <1>1, <1>2, <1>3, <1>4, <1>5, <1>6, <1>7 DEF BusNext

(* InOrderOnce for every capacity, whatever the limits, and whether or not  *)
(* a client starts from 0 on a new connection: no event is received twice   *)
(* and none after a later one.                                              *)
THEOREM EventsInOrderOnce == BusSpec => []InOrderOnce
<1>1. BusInit => ClientInv
  BY ClientInit
<1>2. ClientInv /\ [BusNext]_busVars => ClientInv'
  BY ClientStep
<1>3. ClientInv => InOrderOnce
  <2> SUFFICES ASSUME ClientInv, NEW c \in Clients, NEW i \in DOMAIN seen[c],
                      NEW j \in DOMAIN seen[c], i < j
               PROVE  Before(seen[c][i], seen[c][j])
    BY DEF InOrderOnce
  <2>1. seen[c] \in Seq(Nat \X Nat) /\ Client(c)
    BY DEF ClientInv, ClientsOK
  <2>2. DOMAIN seen[c] = 1..Len(seen[c])
    BY <2>1, LenProperties
  <2> QED BY <2>1, <2>2 DEF Client, InOrder
<1> QED BY <1>1, <1>2, <1>3, PTL DEF BusSpec

(* Nothing is lost silently. A cursor never runs ahead of the values sent   *)
(* (this is where starting from 0 on a new connection is needed: a cursor   *)
(* kept over a restart would be ahead of the new numbering), and as long as *)
(* no comparison failed everything up to the cursor was received.           *)
Has(s, e) == \E i \in 1..Len(s) : s[i] = e

HasUpTo(s, life, cur) == \A n \in Nat : 1 <= n /\ n <= cur => Has(s, <<life, n>>)

NoLoss(c) == /\ cursor[c] <= LastSeq(bus)
             /\ ~ gap[c] => HasUpTo(seen[c], run, cursor[c])

NoLossInv == ClientInv /\ \A c \in Clients : NoLoss(c)

(* An answer whose cursor is the old one plus the number of its events left *)
(* nothing out: it starts right above the old cursor.                       *)
LEMMA NothingLeftOut ==
  ASSUME NEW old \in Seq(Nat \X Nat), NEW evs \in Seq(Nat \X Nat),
         NEW life \in Nat, NEW cur \in Nat, NEW k \in Nat,
         cur <= k, k + Len(evs) <= cur + Len(evs),
         NumberedFrom(evs, life, k), HasUpTo(old, life, cur)
  PROVE  HasUpTo(old \o evs, life, cur + Len(evs))
<1> DEFINE all == old \o evs
           m == Len(old)
           len == Len(evs)
<1>1. Len(all) = m + len /\ m \in Nat /\ len \in Nat
  BY ConcatProperties
<1>2. \A i \in 1..m + len : all[i] = IF i <= m THEN old[i] ELSE evs[i - m]
  BY ConcatProperties
<1>3. k = cur
  OBVIOUS
<1> SUFFICES ASSUME NEW n \in Nat, 1 <= n, n <= cur + len
             PROVE  Has(all, <<life, n>>)
  BY DEF HasUpTo
<1> HIDE DEF all, m, len
<1>4. CASE n <= cur
  <2>1. PICK i \in 1..Len(old) : old[i] = <<life, n>>
    BY <1>4 DEF HasUpTo, Has
  <2>2. i \in 1..m /\ i \in 1..m + len /\ i <= m
    BY <1>1, <2>1 DEF m
  <2>3. all[i] = <<life, n>> /\ i \in 1..Len(all)
    BY <1>1, <1>2, <2>1, <2>2
  <2> QED BY <2>3 DEF Has
<1>5. CASE n > cur
  <2> DEFINE j == n - cur
  <2>1. j \in 1..len /\ m + j \in 1..m + len /\ ~(m + j <= m) /\ (m + j) - m = j
    BY <1>1, <1>5
  <2>2. all[m + j] = evs[j]
    BY <1>2, <2>1
  <2>3. evs[j] = <<life, k + j>>
    BY <2>1 DEF NumberedFrom, len
  <2>4. k + j = n
    BY <1>3
  <2>5. all[m + j] = <<life, n>> /\ m + j \in 1..Len(all)
    BY <1>1, <2>1, <2>2, <2>3, <2>4
  <2> QED BY <2>5 DEF Has
<1> QED BY <1>4, <1>5

LEMMA NoLossStep ==
  ASSUME ResetOnReconnect, NoLossInv, [BusNext]_busVars
  PROVE  NoLossInv'
<1>1. ClientInv /\ ClientInv'
  BY ClientStep DEF NoLossInv
<1>2. /\ LastSeq(bus) \in Nat /\ run \in Nat
      /\ ClientsOK
      /\ \A c \in Clients : NoLoss(c) /\ Client(c)
  BY <1>1 DEF NoLossInv, ClientInv, RingInv, BusOK, LastSeq
<1>3. CASE Publish
  <2>1. /\ run' = run /\ LastSeq(bus)' >= LastSeq(bus) /\ LastSeq(bus)' \in Nat
        /\ UNCHANGED <<cursor, seen, gap>>
    BY <1>1, <1>3, SMTT(30) DEF Publish, Send, LastSeq, ClientInv, RingInv, BusOK
  <2>2. ASSUME NEW c \in Clients PROVE NoLoss(c)'
    <3>1. cursor[c] \in Nat
      BY <1>2 DEF ClientsOK
    <3> QED BY <1>2, <2>1, <3>1 DEF NoLoss
  <2> QED BY <1>1, <2>2 DEF NoLossInv
<1>4. CASE Restart
  <2>1. ASSUME NEW c \in Clients PROVE NoLoss(c)'
    <3>1. cursor'[c] = 0 /\ bus' = Channel
      BY <1>4 DEF Restart, OnReconnect
    <3>2. LastSeq(bus') = 0
      BY <3>1 DEF Channel, LastSeq
    <3> QED BY <3>1, <3>2 DEF NoLoss, HasUpTo
  <2> QED BY <1>1, <2>1 DEF NoLossInv
<1>5. ASSUME NEW c \in Clients, Receive(c)
      PROVE  NoLossInv'
  <2> DEFINE r == reply[c]
  <2>1. /\ r # NoReply /\ r.cursor \in Nat /\ r.events \in Seq(Nat \X Nat)
        /\ seen[c] \in Seq(Nat \X Nat) /\ cursor[c] \in Nat
    BY <1>2, <1>5 DEF Receive, ClientsOK, NoReply
  <2>2. call[c].since = cursor[c] /\ Consecutive(r, cursor[c])
    BY <1>2, <2>1 DEF Client, AsksFromCursor, AnswersTheCall
  <2>3. PICK k \in Nat : /\ cursor[c] <= k /\ k + Len(r.events) <= r.cursor
                         /\ NumberedFrom(r.events, run, k)
    BY <2>2 DEF Consecutive, NumberedFrom
  <2>4. r.cursor <= LastSeq(bus)
    BY <1>2, <2>2 DEF Consecutive, NoLoss
  <2>5. /\ seen' = [seen EXCEPT ![c] = seen[c] \o r.events] /\ run' = run /\ bus' = bus
        /\ cursor' = [cursor EXCEPT ![c] = r.cursor]
        /\ gap' = [gap EXCEPT ![c] = gap[c] \/ r.cursor # cursor[c] + Len(r.events)]
    BY <1>5, <2>2 DEF Receive
  <2> HIDE DEF r
  <2>6. /\ seen'[c] = seen[c] \o r.events /\ cursor'[c] = r.cursor
        /\ gap'[c] = (gap[c] \/ r.cursor # cursor[c] + Len(r.events))
        /\ \A d \in Clients \ {c} : seen'[d] = seen[d] /\ cursor'[d] = cursor[d] /\ gap'[d] = gap[d]
    BY <1>2, <2>5 DEF ClientsOK
  <2>7. ASSUME ~ gap'[c] PROVE HasUpTo(seen'[c], run', cursor'[c])
    <3>1. ~ gap[c] /\ r.cursor = cursor[c] + Len(r.events)
      BY <2>6, <2>7
    <3>2. HasUpTo(seen[c], run, cursor[c])
      BY <1>2, <3>1 DEF NoLoss
    <3>3. HasUpTo(seen[c] \o r.events, run, cursor[c] + Len(r.events))
      BY <1>2, <2>1, <2>3, <3>1, <3>2, NothingLeftOut
    <3> QED BY <2>5, <2>6, <3>1, <3>3
  <2>8. ASSUME NEW d \in Clients PROVE NoLoss(d)'
    <3>1. CASE d = c
      BY <2>4, <2>5, <2>6, <2>7, <3>1 DEF NoLoss
    <3>2. CASE d # c
      BY <1>2, <2>5, <2>6, <3>2 DEF NoLoss
    <3> QED BY <3>1, <3>2
  <2> QED BY <1>1, <2>8 DEF NoLossInv
<1>6. ASSUME UNCHANGED <<run, bus, cursor, seen, gap>>
      PROVE  NoLossInv'
  <2>1. ASSUME NEW c \in Clients PROVE NoLoss(c)'
    BY <1>2, <1>6 DEF NoLoss
  <2> QED BY <1>1, <2>1 DEF NoLossInv
<1>7. ASSUME NEW c \in Clients,
             (\E limit \in Limits : Ask(c, limit)) \/ Serve(c) \/ Disconnect(c)
      PROVE  NoLossInv'
  BY <1>6, <1>7 DEF Ask, Serve, Disconnect
<1>8. CASE UNCHANGED busVars
  BY <1>6, <1>8 DEF busVars
<1> QED BY <1>3, <1>4, <1>5, <1>7, <1>8 DEF BusNext

(* NoSilentLoss for every capacity and every limit, when a client starts    *)
(* from 0 on a new connection: one whose comparisons never failed has       *)
(* received every event its cursor has passed.                              *)
THEOREM NothingLostSilently ==
  ASSUME ResetOnReconnect
  PROVE  BusSpec => []NoSilentLoss
<1>1. BusInit => NoLossInv
  <2> SUFFICES ASSUME BusInit PROVE NoLossInv
    OBVIOUS
  <2>1. ClientInv
    BY ClientInit
  <2>2. ASSUME NEW c \in Clients PROVE NoLoss(c)
    BY DEF BusInit, NoLoss, HasUpTo, LastSeq, Channel
  <2> QED BY <2>1, <2>2 DEF NoLossInv
<1>2. NoLossInv /\ [BusNext]_busVars => NoLossInv'
  BY NoLossStep
<1>3. NoLossInv => NoSilentLoss
  <2> SUFFICES ASSUME NoLossInv, NEW c \in Clients, ~ gap[c],
                      NEW n \in 1..LastSeq(bus), n <= cursor[c]
               PROVE  <<run, n>> \in Received(c)
    BY DEF NoSilentLoss
  <2>1. seen[c] \in Seq(Nat \X Nat) /\ n \in Nat /\ 1 <= n
    BY DEF NoLossInv, ClientInv, ClientsOK, RingInv, BusOK, LastSeq
  <2>2. PICK i \in 1..Len(seen[c]) : seen[c][i] = <<run, n>>
    BY <2>1 DEF NoLossInv, NoLoss, HasUpTo, Has
  <2>3. DOMAIN seen[c] = 1..Len(seen[c])
    BY <2>1, LenProperties
  <2> QED BY <2>2, <2>3 DEF Received
<1> QED BY <1>1, <1>2, <1>3, PTL DEF BusSpec
=============================================================================
