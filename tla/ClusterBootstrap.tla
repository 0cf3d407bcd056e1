--------------------------- MODULE ClusterBootstrap ---------------------------
(***************************************************************************)
(* Provider configuration (src/internal/provider/provider.go) and the      *)
(* registration of the cluster (src/internal/client/cluster.go).  Every    *)
(* plan and every apply starts a provider process of its own, so several   *)
(* of them look for a cluster, and create it if they miss it, while        *)
(* slurmctld registers it with its TRES and an administrator removes it.   *)
(*                                                                         *)
(* One call is what CallContract says: it takes effect at some moments     *)
(* while it is under way, at least once if it succeeds.  A POST its client *)
(* gave up on may be executed later (`late`).                              *)
(***************************************************************************)
EXTENDS Naturals

CONSTANTS
  Processes,
  Clusters,
  Given,        \* any endpoint or token
  Null,         \* an HCL attribute that is not set
  Unknown,      \* an HCL attribute that is not known during the plan
  Empty,        \* the empty string, and a variable that is not set
  Setups,       \* the provider blocks and environments processes may run with
  MaxAttempts,  \* how often the client sends one POST
  MaxRemovals, MaxFaults   \* bounds of the environment

Settings == {"endpoint", "token", "cluster"}
Strings == Clusters \cup {Given, Empty}

ASSUME BootstrapAssumption ==
  /\ Empty \notin Clusters \cup {Given} /\ Given \notin Clusters
  /\ Null \notin Strings /\ Unknown \notin Strings
  /\ Setups \subseteq [hcl : [Settings -> Strings \cup {Null, Unknown}], env : [Settings -> Strings]]
  /\ \A s \in Setups : {s.hcl["cluster"], s.env["cluster"]} \subseteq Clusters \cup {Null, Unknown, Empty}
  /\ MaxAttempts \in Nat \ {0} /\ MaxRemovals \in Nat /\ MaxFaults \in Nat

VARIABLES
  setup,       \* Processes -> its provider block and environment
  pc,          \* Processes -> where its Configure is
  cluster,     \* Processes -> the cluster it resolved, Empty before
  attempts,    \* Processes -> how often its POST was executed
  registered,  \* the clusters slurmdbd knows
  tres,        \* Clusters -> does slurmdbd hold TRES of it?
  late,        \* clusters with a POST nobody waits for any more
  missed,      \* history: Processes -> was the cluster missing at some moment of Configure?
  removed,     \* history: Processes -> was the cluster removed since Configure began?
  removals, faults   \* what the environment did so far

procs == <<setup, pc, cluster, attempts>>
slurmdbd == <<registered, tres>>
history == <<missed, removed>>
vars == <<procs, slurmdbd, late, history, removals, faults>>

Running == {"ping", "get", "post"}

-----------------------------------------------------------------------------
(* Resolving the provider block *)

\* The provider block wins over the environment, also when it says "".
resolveConfigValue(s, name) ==
  IF s.hcl[name] \notin {Null, Unknown} THEN s.hcl[name] ELSE s.env[name]

Complete(s) == \A name \in Settings : resolveConfigValue(s, name) # Empty

Init ==
  /\ setup \in [Processes -> Setups]
  /\ pc = [p \in Processes |-> "idle"]
  /\ cluster = [p \in Processes |-> Empty]
  /\ attempts = [p \in Processes |-> 0]
  /\ registered = {} /\ tres = [c \in Clusters |-> FALSE]
  /\ late = {}
  /\ missed = [p \in Processes |-> FALSE]
  /\ removed = [p \in Processes |-> FALSE]
  /\ removals = 0 /\ faults = 0

Goto(p, l) == pc' = [pc EXCEPT ![p] = l]

\* Mutant: the required settings are not checked.
ConfigureUnchecked(p) ==
  LET c == resolveConfigValue(setup[p], "cluster")
  IN /\ pc[p] \notin Running
     /\ Goto(p, "ping")
     /\ cluster' = [cluster EXCEPT ![p] = c]
     /\ attempts' = [attempts EXCEPT ![p] = 0]
     /\ missed' = [missed EXCEPT ![p] = c \notin registered]
     /\ removed' = [removed EXCEPT ![p] = FALSE]
     /\ UNCHANGED <<setup, slurmdbd, late, removals, faults>>

\* A command starts a provider process, which resolves its settings and
\* stops before any call if one is missing.
Configure(p) ==
  LET s == setup[p]
      c == resolveConfigValue(s, "cluster")
  IN /\ pc[p] \notin Running
     /\ Goto(p, IF Complete(s) THEN "ping" ELSE "failed")
     /\ cluster' = [cluster EXCEPT ![p] = IF Complete(s) THEN c ELSE Empty]
     /\ attempts' = [attempts EXCEPT ![p] = 0]
     /\ missed' = [missed EXCEPT ![p] = Complete(s) /\ c \notin registered]
     /\ removed' = [removed EXCEPT ![p] = FALSE]
     /\ UNCHANGED <<setup, slurmdbd, late, removals, faults>>

Ping(p) ==
  /\ pc[p] = "ping"
  /\ Goto(p, "get")
  /\ UNCHANGED <<setup, cluster, attempts, slurmdbd, late, history, removals, faults>>

-----------------------------------------------------------------------------
(* EnsureCluster *)

\* Mutant: the cluster is created without a look.
GetClusterSkipped(p) ==
  /\ pc[p] = "get"
  /\ Goto(p, "post")
  /\ UNCHANGED <<setup, cluster, attempts, slurmdbd, late, history, removals, faults>>

\* Mutant: a missing cluster counts as an existing one.
GetClusterUnread(p) ==
  /\ pc[p] = "get"
  /\ Goto(p, "ready")
  /\ UNCHANGED <<setup, cluster, attempts, slurmdbd, late, history, removals, faults>>

\* Mutant: a missing cluster is an error.
GetClusterStrict(p) ==
  /\ pc[p] = "get"
  /\ Goto(p, IF cluster[p] \in registered THEN "ready" ELSE "failed")
  /\ UNCHANGED <<setup, cluster, attempts, slurmdbd, late, history, removals, faults>>

\* GET cluster/<name>: an existing cluster is left alone.
GetCluster(p) ==
  /\ pc[p] = "get"
  /\ Goto(p, IF cluster[p] \in registered THEN "ready" ELSE "post")
  /\ UNCHANGED <<setup, cluster, attempts, slurmdbd, late, history, removals, faults>>

\* slurmdbd creates the cluster or updates it with the empty object, which
\* may overwrite its TRES.
Upsert(c) ==
  /\ registered' = registered \cup {c}
  /\ tres' \in {tres, [tres EXCEPT ![c] = FALSE]}

\* POST clusters/ is executed; the client may send it again when the answer
\* is lost.
CreateCluster(p) ==
  /\ pc[p] = "post" /\ attempts[p] < MaxAttempts
  /\ Upsert(cluster[p])
  /\ attempts' = [attempts EXCEPT ![p] = @ + 1]
  /\ UNCHANGED <<setup, pc, cluster, late, history, removals, faults>>

\* The answer arrives, and resources and data sources get the client.
Configured(p) ==
  /\ pc[p] = "post" /\ attempts[p] > 0
  /\ Goto(p, "ready")
  /\ UNCHANGED <<setup, cluster, attempts, slurmdbd, late, history, removals, faults>>

\* A call returns an error: no resource is ever configured.
Fail(p) ==
  /\ pc[p] \in Running /\ faults < MaxFaults
  /\ Goto(p, "failed")
  /\ late' \in {late, IF pc[p] = "post" THEN late \cup {cluster[p]} ELSE late}
  /\ faults' = faults + 1
  /\ UNCHANGED <<setup, cluster, attempts, slurmdbd, history, removals>>

-----------------------------------------------------------------------------
(* The rest of the world *)

\* slurmrestd executes, or loses, a POST nobody waits for.
FinishLate(c) ==
  /\ c \in late
  /\ \/ Upsert(c)
     \/ UNCHANGED slurmdbd
  /\ late' = late \ {c}
  /\ UNCHANGED <<procs, history, removals, faults>>

\* slurmctld starts: slurmdbd learns its TRES, and the cluster if it has to.
ControllerRegisters(c) ==
  /\ registered' = registered \cup {c}
  /\ tres' = [tres EXCEPT ![c] = TRUE]
  /\ UNCHANGED <<procs, late, history, removals, faults>>

\* sacctmgr delete cluster.
RemoveCluster(c) ==
  /\ c \in registered /\ removals < MaxRemovals
  /\ registered' = registered \ {c}
  /\ tres' = [tres EXCEPT ![c] = FALSE]
  /\ missed' = [p \in Processes |-> missed[p] \/ cluster[p] = c]
  /\ removed' = [p \in Processes |-> removed[p] \/ cluster[p] = c]
  /\ removals' = removals + 1
  /\ UNCHANGED <<procs, late, faults>>

-----------------------------------------------------------------------------
\* The calls of a Configure that get an answer.
Progress(p) == Ping(p) \/ GetCluster(p) \/ (attempts[p] = 0 /\ CreateCluster(p)) \/ Configured(p)

Next ==
  \/ \E p \in Processes : Configure(p) \/ Ping(p) \/ GetCluster(p) \/ CreateCluster(p)
                          \/ Configured(p) \/ Fail(p)
  \/ \E c \in Clusters : FinishLate(c) \/ ControllerRegisters(c) \/ RemoveCluster(c)

Spec == Init /\ [][Next]_vars

\* Every call returns, and commands are started again and again.
FairSpec == Spec /\ \A p \in Processes : WF_vars(Progress(p)) /\ WF_vars(Configure(p))

-----------------------------------------------------------------------------
(* Properties *)

(* Every variable keeps its type, and no call is made without a cluster.   *)
TypeOK ==
  /\ setup \in [Processes -> Setups]
  /\ pc \in [Processes -> Running \cup {"idle", "ready", "failed"}]
  /\ cluster \in [Processes -> Clusters \cup {Empty}]
  /\ \A p \in Processes : pc[p] \in Running \cup {"ready"} => cluster[p] \in Clusters
  /\ attempts \in [Processes -> 0..MaxAttempts]
  /\ registered \subseteq Clusters /\ tres \in [Clusters -> BOOLEAN]
  /\ late \subseteq Clusters
  /\ missed \in [Processes -> BOOLEAN] /\ removed \in [Processes -> BOOLEAN]
  /\ removals \in 0..MaxRemovals /\ faults \in 0..MaxFaults

(* EnsureCluster: the resources of a configured process find their cluster *)
(* in slurmdbd, whatever the other processes did meanwhile, unless an      *)
(* administrator removed it since.                                         *)
ConfiguredHasCluster ==
  \A p \in Processes : pc[p] = "ready" /\ ~removed[p] => cluster[p] \in registered

(* EnsureCluster, "We intentionally do NOT update an existing cluster to   *)
(* avoid overwriting its TRES configuration", as far as it goes: TRES are  *)
(* lost to a removal, to a late request, or to a process whose Configure   *)
(* saw a moment without the cluster; never to one that began after         *)
(* slurmctld had registered it.                                            *)
ExistingClusterIsKept ==
  [][\A c \in Clusters : tres[c] /\ ~tres'[c] =>
       \/ c \notin registered'
       \/ c \in late
       \/ \E p \in Processes : pc[p] = "post" /\ cluster[p] = c /\ missed[p]]_vars

(* However often calls failed and the cluster was removed, repeated        *)
(* commands register it for good and get through.                          *)
Bootstraps ==
  \A p \in Processes :
    /\ Complete(setup[p]) => <>[](resolveConfigValue(setup[p], "cluster") \in registered)
    /\ Complete(setup[p]) => []<>(pc[p] = "ready")
=============================================================================
