SPECIFICATION FairSpec
CONSTANTS
  q = q
  normal = normal
  v0 = v0
  v1 = v1
  Names = {q, normal}
  System = {normal}
  Attributes = {"priority", "usage_factor", "grp_tres"}
  Computed = {"usage_factor", "grp_tres"}
  Lagging = {"grp_tres"}
  Values = {v0, v1}
  Null = Null
  Unknown = Unknown
  NoQos = NoQos
  SoftDeleted = SoftDeleted
  Default <- DefaultDef
  Hidden <- HiddenDef
  Unsent <- UnsentDef
  Configs <- LimitConfigs
  MaxEdits = 2
  MaxFaults = 1
  MaxInterference = 1
INVARIANTS TypeOK ApplyIsInForce EmptyPlanMeansInForce RejectedForAReason
PROPERTIES OmittedIsKept Converges
