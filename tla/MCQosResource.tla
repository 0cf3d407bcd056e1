---------------------------- MODULE MCQosResource ----------------------------
(* Small instances of QosResource: an optional, a computed and a TRES      *)
(* attribute, "0" being the zero, or the empty list of TRES.               *)
EXTENDS QosResource

CONSTANTS q, normal, v0, v1

DefaultDef ==
  [a \in Attributes |-> IF a = "usage_factor" THEN v1 ELSE v0]
HiddenDef ==
  [a \in Attributes |-> IF a = "usage_factor" THEN {} ELSE {v0}]
UnsentDef ==
  [a \in Attributes |-> IF a \in {"grace_time", "grp_tres"} THEN {v0} ELSE {}]

Of(name, p, u, t) ==
  [name |-> name,
   attrs |-> [a \in Attributes |-> CASE a = "usage_factor" -> u [] a = "grp_tres" -> t [] OTHER -> p]]

\* Limits declared and withdrawn, another name, a destroy.
LimitConfigs ==
  {Of(q, p, u, t) : p \in {Null, v1}, u \in {Null, v0}, t \in {Null, v1}}
  \cup {Of(normal, v1, Null, Null), NoQos}

\* A declared zero.
ZeroConfigs == {Of(q, v0, Null, Null), NoQos}
=============================================================================
