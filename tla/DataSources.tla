----------------------------- MODULE DataSources -----------------------------
(***************************************************************************)
(* One data source and one resource that copies its attributes, as in      *)
(* examples/data-sources: a sub-account with the QOS list of its parent, a *)
(* QOS with the wall-clock limit of another, an output of the              *)
(* configuration.  A plan reads the source in one GET, or in two for       *)
(* accounts and users, whose limits are in their associations; an apply    *)
(* writes what the read showed.                                            *)
(*                                                                         *)
(* Two attributes stand for all: a limit (a tri-state integer) and a list  *)
(* of names (QOS, access lists, arrays of a configuration file; not the    *)
(* preempt modes of a QOS, of which one is never shown).  A QOS has two    *)
(* limits whose zero is not shown, priority and grace_time: they are a     *)
(* kind of their own.  Only the call that delivers the attributes counts:  *)
(* slurmrestd answers it, or it fails.                                     *)
(***************************************************************************)
EXTENDS Integers, FiniteSets

CONSTANTS
  Kinds,               \* the data sources: a subset of AllKinds
  Numbers, Names,      \* the values of the limit and the members of the list
  Unset, Infinite,     \* the limit without a number
  Null,                \* an attribute that Terraform shows as null
  Gone,                \* the object does not exist
  MaxChanges, MaxFaults   \* bounds of the environment

\* "qos_priority" is the QOS data source where the limit is its priority or its
\* grace time.
AllKinds == {"user", "account", "qos", "qos_priority", "partition", "slurm_conf", "dbd_conf"}
ConfKinds == {"slurm_conf", "dbd_conf"}
\* The kinds whose limits take a second request.
AssocKinds == {"user", "account"}

Limits == Numbers \cup {Unset, Infinite}
Object == [limit : Limits, list : SUBSET Names]
Shown == [limit : {Null} \cup Limits, list : {Null} \cup SUBSET Names]
Nothing == [limit |-> Null, list |-> Null]
Fresh == [limit |-> Unset, list |-> {}]

ASSUME DataSourcesAssumption ==
  /\ Kinds \subseteq AllKinds
  /\ 0 \in Numbers /\ Numbers \subseteq Nat
  /\ Unset \notin Numbers /\ Infinite \notin Numbers /\ Unset # Infinite
  /\ Null \notin Limits /\ \A list \in SUBSET Names : list # Null
  /\ Gone \notin Object
  /\ MaxChanges \in Nat /\ MaxFaults \in Nat

VARIABLES
  kind,     \* which data source
  api,      \* the provider's api_version: "old", "current", or "exotic"
  server,   \* the release of the server: "old" or "current"
  object,   \* the object of the data source in Slurm
  member,   \* account: the association of a member, in the same answer
  copy,     \* what the resource that copies it has in Slurm
  pc,       \* "idle", "object", "associations", "planned"
  shown,    \* what the read showed
  result,   \* how the last plan ended
  quiet,    \* history: no change since the last plan began
  past,     \* history: every limit and list that the object had
  changes, faults   \* what the environment did so far

vars == <<kind, api, server, object, member, copy, pc, shown, result, quiet, past, changes, faults>>

-----------------------------------------------------------------------------
(* How an attribute is read *)

\* slurmrestd's integer.
SlurmInt(limit) ==
  [set |-> limit \in Numbers, infinite |-> limit = Infinite,
   number |-> IF limit \in Numbers THEN limit ELSE 0]

\* Mutant: the number of an unset integer is read.
SlurmIntNumber(si) == si.number

\* Mutant: infinite reads as -1, which removes a limit in sacctmgr.
InfiniteIsMinusOne(si) ==
  IF si.infinite THEN -1 ELSE IF si.set THEN si.number ELSE Null

slurmIntOrNull(si) == IF ~si.set \/ si.infinite THEN Null ELSE si.number

\* Zero, the default of Slurm, is skipped.
nonZeroOrNull(si) == IF si.set /\ si.number # 0 THEN si.number ELSE Null

\* Mutant: zero reads as unset, here too.
AssocZeroIsUnset(si) == nonZeroOrNull(si)

dsAssocJobsScalar(si) == IF si.set THEN si.number ELSE Null

\* The string of a tri-state; "infinite" and "" as the values they stand for.
stringifySlurmInt(si) ==
  IF si.infinite THEN Infinite ELSE IF ~si.set THEN Unset ELSE si.number

\* An empty list, or the empty string of an access list, is null; a map of
\* strings has no null.
ListOrNull(list) == IF list = {} THEN Null ELSE list

qosAPIToState(o) ==
  [limit |-> IF kind = "qos_priority" THEN nonZeroOrNull(SlurmInt(o.limit))
                                      ELSE slurmIntOrNull(SlurmInt(o.limit)),
   list |-> ListOrNull(o.list)]
partitionToState(o) == [limit |-> slurmIntOrNull(SlurmInt(o.limit)), list |-> ListOrNull(o.list)]
stringifyConfMap(o) == [limit |-> stringifySlurmInt(SlurmInt(o.limit)), list |-> o.list]
assocToState(o) == [limit |-> dsAssocJobsScalar(SlurmInt(o.limit)), list |-> ListOrNull(o.list)]

-----------------------------------------------------------------------------
(* The environment's part of a plan *)

\* Terraform core plans a change of the copy for what is not null.
Pending(values) == \E a \in DOMAIN values : values[a] # Null /\ values[a] # copy[a]

EndPlan(values, how) ==
  /\ shown' = values
  /\ IF Pending(values) THEN pc' = "planned" ELSE pc' = "idle"
  /\ result' = how

Stop(how) == pc' = "idle" /\ shown' = Nothing /\ result' = how

\* The paths carry api_version: an old server has no newer one, and no
\* endpoint for the configuration at all.
Serves == IF kind \in ConfKinds THEN server = "current" ELSE server = "current" \/ api = "old"

-----------------------------------------------------------------------------
(* The read *)

\* Mutant: what is not known to be new is refused.
requireKnownVersion == api = "current"

\* An api_version that cannot be parsed passes.
requireAPIVersion == api # "old"

StartRead ==
  /\ pc = "idle"
  /\ quiet' = TRUE
  /\ IF kind \in ConfKinds /\ ~requireAPIVersion
     THEN Stop("version")
     ELSE pc' = "object" /\ UNCHANGED <<shown, result>>
  /\ UNCHANGED <<kind, api, server, object, member, copy, past, changes, faults>>

ReadOf(o) ==
  IF kind \in {"qos", "qos_priority"} THEN qosAPIToState(o)
  ELSE IF kind = "partition" THEN partitionToState(o) ELSE stringifyConfMap(o)

\* GetUser, GetAccount, GetQOS, GetPartition, GetSlurmConf, GetSlurmdbdConf.
ReadObject ==
  /\ pc = "object"
  /\ IF ~Serves THEN Stop(IF kind \in ConfKinds THEN "hint" ELSE "error")
     ELSE IF object = Gone THEN Stop("missing")
     ELSE IF kind \in AssocKinds THEN pc' = "associations" /\ UNCHANGED <<shown, result>>
     ELSE EndPlan(ReadOf(object), "ok")
  /\ UNCHANGED <<kind, api, server, object, member, copy, quiet, past, changes, faults>>

\* The rows of the answer: a deleted object has none, an account also has
\* those of its members.
Rows ==
  (IF object = Gone THEN {} ELSE {[user |-> IF kind = "user" THEN "alice" ELSE "", of |-> object]})
  \cup (IF kind = "account" /\ member # Gone THEN {[user |-> "alice", of |-> member]} ELSE {})

\* Mutant: the first row of the answer is taken.
AnyRow == Rows

\* A user's own associations, or the association of the account itself.
OwnRows == {r \in Rows : r.user # "" <=> kind = "user"}

\* GetAssociations: the rest of userAPIToState and accountAPIToState.
ReadAssociations ==
  /\ pc = "associations"
  /\ IF OwnRows = {} THEN EndPlan(Nothing, "ok")
     ELSE \E r \in OwnRows : EndPlan(assocToState(r.of), "ok")
  /\ UNCHANGED <<kind, api, server, object, member, copy, quiet, past, changes, faults>>

\* A call fails.  Reading an account goes on without its associations.
FailRead ==
  /\ pc \in {"object", "associations"} /\ faults < MaxFaults
  /\ IF pc = "associations" /\ kind = "account" THEN EndPlan(Nothing, "warning") ELSE Stop("error")
  /\ faults' = faults + 1
  /\ UNCHANGED <<kind, api, server, object, member, copy, quiet, past, changes>>

\* The resource is created or updated: null is left out of the request.
Apply ==
  /\ pc = "planned"
  /\ copy' = [a \in DOMAIN copy |-> IF shown[a] = Null THEN copy[a] ELSE shown[a]]
  /\ pc' = "idle"
  /\ UNCHANGED <<kind, api, server, object, member, shown, result, quiet, past, changes, faults>>

-----------------------------------------------------------------------------
(* The environment *)

\* sacctmgr, or slurm.conf: the object changes, is removed, or comes back.
\* A configuration and its keys are always there.
ChangeObject ==
  /\ changes < MaxChanges
  /\ \E o \in Object \cup {Gone} :
       /\ o # object /\ (kind \in ConfKinds => o # Gone)
       /\ object' = o
       /\ past' = IF o = Gone THEN past ELSE past \cup {o}
  /\ quiet' = FALSE
  /\ changes' = changes + 1
  /\ UNCHANGED <<kind, api, server, member, copy, pc, shown, result, faults>>

Init ==
  /\ kind \in Kinds
  /\ api \in {"old", "current", "exotic"} /\ server \in {"old", "current"}
  /\ object \in Object
  /\ member \in IF kind = "account" THEN Object \cup {Gone} ELSE {Gone}
  /\ copy = Fresh
  /\ pc = "idle" /\ shown = Nothing /\ result = "none"
  /\ quiet = TRUE /\ past = {object}
  /\ changes = 0 /\ faults = 0

Next == StartRead \/ ReadObject \/ ReadAssociations \/ FailRead \/ Apply \/ ChangeObject
Spec == Init /\ [][Next]_vars

\* The operator plans again and again; a plan that shows a change is applied.
FairSpec == Spec /\ WF_vars(StartRead) /\ WF_vars(ReadObject \/ ReadAssociations) /\ WF_vars(Apply)

-----------------------------------------------------------------------------
(* Properties *)

(* Every variable keeps its type.                                          *)
TypeOK ==
  /\ kind \in Kinds /\ api \in {"old", "current", "exotic"} /\ server \in {"old", "current"}
  /\ object \in Object \cup {Gone} /\ member \in Object \cup {Gone} /\ past \subseteq Object
  /\ copy \in Object /\ shown \in Shown
  /\ pc \in {"idle", "object", "associations", "planned"}
  /\ result \in {"none", "ok", "warning", "error", "missing", "version", "hint"}
  /\ quiet \in BOOLEAN
  /\ changes \in 0..MaxChanges /\ faults \in 0..MaxFaults

Answered == pc \in {"planned", "idle"}

\* A limit that the data source shows as a number.
Visible(limit) == limit \in Numbers /\ ~(kind = "qos_priority" /\ limit = 0)

\* null stands for no limit and for no names, and for a zero that is not shown.
Says(values, o) ==
  /\ values.limit = o.limit \/ (values.limit = Null /\ ~Visible(o.limit))
  /\ values.list = o.list \/ (values.list = Null /\ o.list = {})

(* "Callers want the truth of what's in Slurm": a plan that nothing        *)
(* disturbed and that warned of nothing shows the object as it is, zero,   *)
(* unset and infinite told apart, but for a priority or a grace time of    *)
(* zero, which reads as null; it says "not found" only of what is not      *)
(* there, and blames the release only when the release is old.             *)
AnswerIsTrue ==
  /\ Answered /\ quiet /\ result = "ok" => object # Gone /\ Says(shown, object)
  /\ Answered /\ quiet /\ result = "missing" => object = Gone
  /\ result = "hint" => server = "old"
  /\ result = "version" => api = "old"

(* However reads, changes and failures interleave, the resource that       *)
(* copies the attributes never gets a value that the object never had: no  *)
(* 0 for an unset limit, no value of another association.                  *)
CopyWasTrue ==
  /\ \E o \in past \cup {Fresh} : copy.limit = o.limit
  /\ \E o \in past \cup {Fresh} : copy.list = o.list

\* The copy has what the object has: everything, or what is not null.
Agrees ==
  IF kind \in ConfKinds THEN copy = object
  ELSE /\ Visible(object.limit) => copy.limit = object.limit
       /\ object.list # {} => copy.list = object.list

(* "An exotic api_version never blocks a request": where the server can    *)
(* answer, the copy follows the object for good in what the object shows.  *)
(* What reads as null leaves the copy as it is: a limit that was taken     *)
(* away, an emptied list, a priority set back to zero.                     *)
Follows ==
  <>[]\/ object = Gone
      \/ ~Serves
      \/ kind \in ConfKinds /\ api = "old"
      \/ Agrees
=============================================================================
