--------------------------- MODULE MCUserResource ---------------------------
(***************************************************************************)
(* Small instances of UserResource: two accounts, one partition, a         *)
(* fairshare weight (API default "one", hidden on import), the default QOS *)
(* the account passes on, and a QOS list (never imported).  The QOS one is *)
(* denied below the account chem.                                          *)
(***************************************************************************)
EXTENDS UserResource

CONSTANTS phys, chem, gpu, one, five, operator, wk

MCInherited == [f \in Fields |-> IF f = "fairshare" THEN one ELSE Null]
MCInheritedLimit == [f \in Fields |-> IF f = "fairshare" THEN one ELSE five]
MCImportHides ==
  [f \in Fields |-> CASE f = "fairshare" -> {one} [] f = "allowed_qos" -> Values [] OTHER -> {}]
MCQosDenied ==
  [k \in Key |-> {r \in ServerRow : k[1] = chem /\ r["default_qos"] = one}]

\* An association map from a set of <<key, attribute, value>> declarations.
Declared(ks, ds) ==
  [k \in Key |-> IF k \notin ks THEN NoAssoc
                 ELSE [f \in Fields |-> IF \E d \in ds : d[1] = k /\ d[2] = f
                                        THEN (CHOOSE d \in ds : d[1] = k /\ d[2] = f)[3]
                                        ELSE Null]]

User(admin, wckey, default, ks, ds) ==
  [admin |-> admin, wckey |-> wckey, default |-> default, assocs |-> Declared(ks, ds)]

P == <<phys, NoPartition>>
C == <<chem, NoPartition>>
G == <<chem, gpu>>

\* Moves between accounts, the default with them.
MoveConfigs == {
  User(Null, Null, phys, {P}, {<<P, "fairshare", five>>}),
  User(Null, Null, chem, {C}, {<<C, "fairshare", one>>}),
  User(Null, Null, chem, {P, C}, {<<P, "default_qos", five>>}),
  User(operator, Null, phys, {P, G}, {<<P, "fairshare", one>>, <<G, "default_qos", one>>}) }

\* Attributes declared, changed and withdrawn; no default below the partition.
LimitConfigs == {
  NoUser,
  User(NoneLevel, Null, phys, {P}, {}),
  User(operator, wk, phys, {P, C}, {<<P, "fairshare", five>>, <<C, "default_qos", one>>}),
  User(Null, Null, chem, {C}, {<<C, "default_qos", five>>, <<C, "fairshare", one>>}) }

\* A default account declared with a partition only, an empty list, and a block
\* whose default account has no association.
PartitionConfigs == {
  User(Null, Null, chem, {G}, {<<G, "default_qos", five>>, <<G, "allowed_qos", EmptyList>>}),
  User(Null, Null, chem, {C, G}, {}),
  User(Null, Null, phys, {P, G}, {<<G, "default_qos", five>>}),
  User(Null, Null, chem, {P}, {}),
  NoUser }

FailureConfigs == MoveConfigs \cup PartitionConfigs
AllConfigs == LimitConfigs \cup FailureConfigs
=============================================================================
