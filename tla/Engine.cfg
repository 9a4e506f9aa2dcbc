SPECIFICATION LiveSpec
CONSTANTS
  Domids = {0, 1}
  Memory = {1, 2}
  Maxima = {2}
  UserPolicies <- MCPolicies
  Dom0Cooldown = 3
  DomUCooldown = 1
  MaxLate = 1
  Horizon = 4
  MaxOps = 2
  None = None
INVARIANTS UserPolicyKept MovesWithinPolicy CooldownKept
PROPERTY Converges
