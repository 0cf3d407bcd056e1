SPECIFICATION Spec
CONSTANTS
  q = q
  normal = normal
  v0 = v0
  v1 = v1
  Names = {q, normal}
  System = {normal}
  Attributes = {"priority", "usage_factor", "grp_tres"}
  Computed = {"usage_factor", "grp_tres"}
  Lagging = {"grp_tres"}
  Values = {v0, v1}
  Null = Null
  Unknown = Unknown
  NoQos = NoQos
  SoftDeleted = SoftDeleted
  Default <- DefaultDef
  Hidden <- HiddenDef
  Unsent <- UnsentDef
  Configs <- ZeroConfigs
  MaxEdits = 0
  MaxFaults = 0
  MaxInterference = 0
INVARIANT ZeroAvoidsDrift
