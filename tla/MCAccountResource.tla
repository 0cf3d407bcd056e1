-------------------------- MODULE MCAccountResource --------------------------
(***************************************************************************)
(* Small instances of AccountResource: the built-in account and another    *)
(* one, a description, a parent (absent below root), and a job limit       *)
(* (absent when cleared) or a QOS list (inherited when cleared).           *)
(***************************************************************************)
EXTENDS AccountResource

CONSTANTS root, phys, one, five, blank

MCInherited ==
  [a \in Attributes |-> CASE a = "description" -> blank
                          [] a = "allowed_qos" -> one
                          [] OTHER -> Null]

\* An account from its name and a set of <<attribute, value>> declarations.
Account(name, ds) ==
  [name |-> name,
   attrs |-> [a \in Attributes |-> IF \E d \in ds : d[1] = a
                                   THEN (CHOOSE d \in ds : d[1] = a)[2] ELSE Null]]

\* Limits declared, withdrawn and emptied; the built-in account adopted and
\* renamed; the account renamed and removed.
MCConfigs == {
  NoAccount,
  Account(root, {<<"allowed_qos", five>>}),
  Account(phys, {<<"description", five>>, <<"parent_account", five>>, <<"allowed_qos", EmptyList>>}),
  Account(phys, {<<"parent_account", one>>, <<"max_jobs", five>>}),
  Account(phys, {<<"max_jobs", one>>, <<"allowed_qos", five>>}) }
=============================================================================
