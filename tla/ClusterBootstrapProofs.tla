----------------------- MODULE ClusterBootstrapProofs -----------------------
(***************************************************************************)
(* Proofs about ClusterBootstrap, for any number of processes, clusters,   *)
(* attempts, removals and failures.                                        *)
(***************************************************************************)
EXTENDS ClusterBootstrap, TLAPS

\* Until it has looked, a process has created nothing, and either finds the
\* cluster or has seen a moment without it.
LooksOrMissed ==
  \A p \in Processes : pc[p] \in {"ping", "get"} =>
    attempts[p] = 0 /\ (missed[p] \/ cluster[p] \in registered)

\* Only a process that missed the cluster creates it.
CreatesMissed == \A p \in Processes : pc[p] = "post" => missed[p]

\* What a POST has created is there until it is removed.
CreatedIsThere ==
  \A p \in Processes : pc[p] = "post" /\ attempts[p] > 0 => removed[p] \/ cluster[p] \in registered

IInv == TypeOK /\ LooksOrMissed /\ CreatesMissed /\ CreatedIsThere /\ ConfiguredHasCluster

-----------------------------------------------------------------------------
(* An upsert only adds the cluster, and only takes its TRES away.          *)
LEMMA UpsertAdds ==
  ASSUME TypeOK, NEW c \in Clusters, Upsert(c)
  PROVE  /\ registered \subseteq registered' /\ c \in registered' /\ registered' \subseteq Clusters
         /\ tres' \in [Clusters -> BOOLEAN]
         /\ \A d \in Clusters : tres[d] /\ ~tres'[d] => d = c
<1>1. registered' = registered \cup {c}
  BY DEF Upsert
<1>2. CASE tres' = tres
  BY <1>1, <1>2 DEF TypeOK
<1>3. CASE tres' = [tres EXCEPT ![c] = FALSE]
  <2>1. tres' \in [Clusters -> BOOLEAN]
    BY <1>3 DEF TypeOK
  <2>2. \A d \in Clusters : d # c => tres'[d] = tres[d]
    BY <1>3 DEF TypeOK
  <2> QED BY <1>1, <2>1, <2>2 DEF TypeOK
<1> QED BY <1>2, <1>3 DEF Upsert

(* A resolved setting of a complete setup names a cluster.                 *)
LEMMA CompleteNamesCluster ==
  ASSUME NEW s \in Setups, Complete(s)
  PROVE  resolveConfigValue(s, "cluster") \in Clusters
<1>1. /\ s.hcl["cluster"] \in Clusters \cup {Null, Unknown, Empty}
      /\ s.env["cluster"] \in Clusters \cup {Null, Unknown, Empty}
      /\ s.env["cluster"] \in Strings
  BY BootstrapAssumption DEF Settings
<1>2. resolveConfigValue(s, "cluster") # Empty
  BY DEF Complete, Settings
<1> QED BY <1>1, <1>2, BootstrapAssumption DEF resolveConfigValue, Strings

-----------------------------------------------------------------------------
LEMMA InitInv == Init => IInv
<1> SUFFICES ASSUME Init PROVE IInv
  OBVIOUS
<1>1. tres \in [Clusters -> BOOLEAN]
  BY DEF Init
<1>2. missed \in [Processes -> BOOLEAN] /\ removed \in [Processes -> BOOLEAN]
  BY DEF Init
<1> QED
  BY <1>1, <1>2, BootstrapAssumption
  DEF Init, IInv, TypeOK, Running, LooksOrMissed, CreatesMissed, CreatedIsThere, ConfiguredHasCluster

LEMMA ConfigureInv == ASSUME IInv, NEW p \in Processes, Configure(p) PROVE IInv'
<1> DEFINE s == setup[p]
           c == resolveConfigValue(s, "cluster")
           l == IF Complete(s) THEN "ping" ELSE "failed"
           k == IF Complete(s) THEN c ELSE Empty
           m == Complete(s) /\ c \notin registered
<1>1. /\ pc' = [pc EXCEPT ![p] = l] /\ cluster' = [cluster EXCEPT ![p] = k]
      /\ attempts' = [attempts EXCEPT ![p] = 0]
      /\ missed' = [missed EXCEPT ![p] = m] /\ removed' = [removed EXCEPT ![p] = FALSE]
      /\ UNCHANGED <<setup, registered, tres, late, removals, faults>>
  BY DEF Configure, Goto, slurmdbd
<1>2. Complete(s) => c \in Clusters
  BY CompleteNamesCluster DEF IInv, TypeOK
<1>3. missed' \in [Processes -> BOOLEAN] /\ removed' \in [Processes -> BOOLEAN]
  BY <1>1 DEF IInv, TypeOK
<1>4. l \in {"ping", "failed"} /\ k \in Clusters \cup {Empty} /\ (l = "ping" => k \in Clusters)
  BY <1>2
<1>5. l = "ping" => attempts'[p] = 0 /\ (missed'[p] \/ cluster'[p] \in registered')
  BY <1>1 DEF IInv, TypeOK
<1> HIDE DEF s, c, l, k, m
<1>6. TypeOK'
  BY <1>1, <1>3, <1>4, BootstrapAssumption DEF IInv, TypeOK, Running
<1> QED
  BY <1>1, <1>4, <1>5, <1>6
  DEF IInv, TypeOK, LooksOrMissed, CreatesMissed, CreatedIsThere, ConfiguredHasCluster

\* The three answers that only move the process on.
LEMMA AnswerInv ==
  ASSUME IInv, NEW p \in Processes, Ping(p) \/ GetCluster(p) \/ Configured(p)
  PROVE  IInv'
<1>1. CASE Ping(p)
  BY <1>1 DEF Ping, Goto, slurmdbd, history, IInv, TypeOK, Running, LooksOrMissed,
              CreatesMissed, CreatedIsThere, ConfiguredHasCluster
<1>2. CASE GetCluster(p)
  <2> DEFINE l == IF cluster[p] \in registered THEN "ready" ELSE "post"
  <2>1. /\ pc[p] = "get" /\ pc' = [pc EXCEPT ![p] = l]
        /\ UNCHANGED <<setup, cluster, attempts, registered, tres, late, missed, removed, removals, faults>>
    BY <1>2 DEF GetCluster, Goto, slurmdbd, history
  <2>2. l = "post" => missed[p]
    BY <2>1 DEF IInv, LooksOrMissed
  <2>3. l = "ready" => cluster[p] \in registered
    OBVIOUS
  <2>4. l \in {"ready", "post"}
    OBVIOUS
  <2>5. cluster[p] \in Clusters
    BY <2>1 DEF IInv, TypeOK, Running
  <2> HIDE DEF l
  <2>6. TypeOK'
    BY <2>1, <2>4, <2>5 DEF IInv, TypeOK, Running
  <2>7. LooksOrMissed' /\ CreatesMissed' /\ CreatedIsThere' /\ ConfiguredHasCluster'
    <3>1. \A q \in Processes : q # p => pc'[q] = pc[q]
      BY <2>1 DEF IInv, TypeOK
    <3>2. pc'[p] = l
      BY <2>1 DEF IInv, TypeOK
    <3>3. attempts[p] = 0
      BY <2>1 DEF IInv, LooksOrMissed
    <3> QED
      BY <2>1, <2>2, <2>3, <2>4, <3>1, <3>2, <3>3
      DEF IInv, LooksOrMissed, CreatesMissed, CreatedIsThere, ConfiguredHasCluster
  <2> QED BY <2>6, <2>7 DEF IInv
<1>3. CASE Configured(p)
  BY <1>3 DEF Configured, Goto, slurmdbd, history, IInv, TypeOK, Running, LooksOrMissed,
              CreatesMissed, CreatedIsThere, ConfiguredHasCluster
<1> QED BY <1>1, <1>2, <1>3

LEMMA CreateInv == ASSUME IInv, NEW p \in Processes, CreateCluster(p) PROVE IInv'
<1>1. pc[p] = "post" /\ cluster[p] \in Clusters /\ attempts[p] < MaxAttempts
  BY DEF CreateCluster, IInv, TypeOK, Running
<1>2. Upsert(cluster[p])
  BY DEF CreateCluster
<1>3. /\ registered \subseteq registered' /\ cluster[p] \in registered' /\ registered' \subseteq Clusters
      /\ tres' \in [Clusters -> BOOLEAN]
  BY <1>1, <1>2, UpsertAdds DEF IInv
<1>4. /\ attempts' = [attempts EXCEPT ![p] = @ + 1]
      /\ UNCHANGED <<setup, pc, cluster, late, missed, removed, removals, faults>>
  BY DEF CreateCluster, history
<1>5. attempts' \in [Processes -> 0..MaxAttempts]
  BY <1>1, <1>4, BootstrapAssumption DEF IInv, TypeOK
<1>6. TypeOK'
  BY <1>3, <1>4, <1>5 DEF IInv, TypeOK
<1>7. CreatedIsThere'
  <2> SUFFICES ASSUME NEW q \in Processes, pc[q] = "post", attempts'[q] > 0
               PROVE  removed[q] \/ cluster[q] \in registered'
    BY <1>4 DEF CreatedIsThere
  <2>1. CASE q = p
    BY <1>3, <2>1
  <2>2. CASE q # p
    BY <1>3, <1>4, <2>2 DEF IInv, TypeOK, CreatedIsThere
  <2> QED BY <2>1, <2>2
<1>8. LooksOrMissed'
  <2> SUFFICES ASSUME NEW q \in Processes, pc[q] \in {"ping", "get"}
               PROVE  attempts'[q] = 0 /\ (missed[q] \/ cluster[q] \in registered')
    BY <1>4 DEF LooksOrMissed
  <2>1. q # p
    BY <1>1
  <2> QED BY <1>3, <1>4, <2>1 DEF IInv, TypeOK, LooksOrMissed
<1> QED
  BY <1>3, <1>4, <1>6, <1>7, <1>8 DEF IInv, CreatesMissed, ConfiguredHasCluster

LEMMA FailInv == ASSUME IInv, NEW p \in Processes, Fail(p) PROVE IInv'
<1>1. late' \subseteq Clusters
  BY DEF Fail, IInv, TypeOK, Running
<1>2. faults' \in 0..MaxFaults
  BY BootstrapAssumption DEF Fail, IInv, TypeOK
<1> QED
  BY <1>1, <1>2 DEF Fail, Goto, slurmdbd, history, IInv, TypeOK, Running, LooksOrMissed,
                    CreatesMissed, CreatedIsThere, ConfiguredHasCluster

LEMMA LateInv == ASSUME IInv, NEW c \in Clusters, FinishLate(c) PROVE IInv'
<1>1. /\ registered \subseteq registered' /\ registered' \subseteq Clusters
      /\ tres' \in [Clusters -> BOOLEAN]
  <2>1. CASE Upsert(c)
    BY <2>1, UpsertAdds DEF IInv
  <2>2. CASE UNCHANGED slurmdbd
    BY <2>2 DEF slurmdbd, IInv, TypeOK
  <2> QED BY <2>1, <2>2 DEF FinishLate
<1> QED
  BY <1>1 DEF FinishLate, procs, history, IInv, TypeOK, LooksOrMissed, CreatesMissed,
              CreatedIsThere, ConfiguredHasCluster

LEMMA RegistersInv == ASSUME IInv, NEW c \in Clusters, ControllerRegisters(c) PROVE IInv'
<1>1. /\ registered \subseteq registered' /\ registered' \subseteq Clusters
      /\ tres' \in [Clusters -> BOOLEAN]
  BY DEF ControllerRegisters, IInv, TypeOK
<1> QED
  BY <1>1 DEF ControllerRegisters, procs, history, IInv, TypeOK, LooksOrMissed, CreatesMissed,
              CreatedIsThere, ConfiguredHasCluster

LEMMA RemoveInv == ASSUME IInv, NEW c \in Clusters, RemoveCluster(c) PROVE IInv'
<1>1. /\ missed' = [p \in Processes |-> missed[p] \/ cluster[p] = c]
      /\ removed' = [p \in Processes |-> removed[p] \/ cluster[p] = c]
      /\ registered' = registered \ {c}
      /\ UNCHANGED <<setup, pc, cluster, attempts, late, faults>>
  BY DEF RemoveCluster, procs
<1>2. missed' \in [Processes -> BOOLEAN] /\ removed' \in [Processes -> BOOLEAN]
  BY <1>1 DEF IInv, TypeOK
<1>3. tres' \in [Clusters -> BOOLEAN] /\ removals' \in 0..MaxRemovals
  <2>1. tres' \in [Clusters -> BOOLEAN]
    BY DEF RemoveCluster, IInv, TypeOK
  <2>2. removals' \in 0..MaxRemovals
    BY BootstrapAssumption DEF RemoveCluster, IInv, TypeOK
  <2> QED BY <2>1, <2>2
<1>4. TypeOK'
  BY <1>1, <1>2, <1>3 DEF IInv, TypeOK
<1> QED
  BY <1>1, <1>4 DEF IInv, LooksOrMissed, CreatesMissed, CreatedIsThere, ConfiguredHasCluster

LEMMA NextInv == IInv /\ [Next]_vars => IInv'
<1> SUFFICES ASSUME IInv, [Next]_vars PROVE IInv'
  OBVIOUS
<1>1. ASSUME NEW p \in Processes,
             Configure(p) \/ Ping(p) \/ GetCluster(p) \/ CreateCluster(p) \/ Configured(p) \/ Fail(p)
      PROVE  IInv'
  BY <1>1, ConfigureInv, AnswerInv, CreateInv, FailInv
<1>2. ASSUME NEW c \in Clusters, FinishLate(c) \/ ControllerRegisters(c) \/ RemoveCluster(c)
      PROVE  IInv'
  BY <1>2, LateInv, RegistersInv, RemoveInv
<1>3. CASE UNCHANGED vars
  BY <1>3 DEF vars, procs, slurmdbd, history, IInv, TypeOK, LooksOrMissed, CreatesMissed,
              CreatedIsThere, ConfiguredHasCluster
<1> QED BY <1>1, <1>2, <1>3 DEF Next

(* The invariant holds of every behaviour.                                 *)
LEMMA Invariant == Spec => []IInv
<1> QED BY InitInv, NextInv, PTL DEF Spec

(* Every variable keeps its type: no call is made without a cluster.       *)
THEOREM TypeCorrect == Spec => []TypeOK
<1>1. IInv => TypeOK
  BY DEF IInv
<1> QED BY <1>1, Invariant, PTL

(* A configured process has its cluster, whatever the other processes,     *)
(* slurmctld, failures and retries do, unless it was removed.              *)
THEOREM ClusterIsThere == Spec => []ConfiguredHasCluster
<1>1. IInv => ConfiguredHasCluster
  BY DEF IInv
<1> QED BY <1>1, Invariant, PTL

(* TRES are never lost to a process that began after their registration.   *)
THEOREM ExistingSurvives == Spec => ExistingClusterIsKept
<1> DEFINE Lost(c) == tres[c] /\ ~tres'[c]
           Excused(c) == \/ c \notin registered'
                         \/ c \in late
                         \/ \E p \in Processes : pc[p] = "post" /\ cluster[p] = c /\ missed[p]
<1>1. ASSUME IInv, [Next]_vars, NEW c \in Clusters, Lost(c)
      PROVE  Excused(c)
  <2>1. ASSUME NEW p \in Processes, CreateCluster(p)
        PROVE  Excused(c)
    <3>1. pc[p] = "post" /\ cluster[p] \in Clusters /\ missed[p] /\ Upsert(cluster[p])
      BY <1>1, <2>1 DEF CreateCluster, IInv, TypeOK, Running, CreatesMissed
    <3>2. cluster[p] = c
      BY <1>1, <3>1, UpsertAdds DEF IInv
    <3> QED BY <3>1, <3>2
  <2>2. ASSUME NEW d \in Clusters, FinishLate(d)
        PROVE  Excused(c)
    <3>1. d \in late /\ Upsert(d)
      BY <1>1, <2>2 DEF FinishLate, slurmdbd
    <3>2. d = c
      BY <1>1, <3>1, UpsertAdds DEF IInv
    <3> QED BY <3>1, <3>2
  <2>3. ASSUME NEW d \in Clusters, RemoveCluster(d)
        PROVE  Excused(c)
    BY <1>1, <2>3 DEF RemoveCluster, IInv, TypeOK
  <2>4. ASSUME NEW d \in Clusters, ControllerRegisters(d)
        PROVE  FALSE
    BY <1>1, <2>4 DEF ControllerRegisters, IInv, TypeOK
  <2>5. ASSUME NEW p \in Processes,
               Configure(p) \/ Ping(p) \/ GetCluster(p) \/ Configured(p) \/ Fail(p)
        PROVE  FALSE
    BY <1>1, <2>5 DEF Configure, Ping, GetCluster, Configured, Fail, slurmdbd
  <2>6. CASE UNCHANGED vars
    BY <1>1, <2>6 DEF vars, slurmdbd
  <2> QED BY <1>1, <2>1, <2>2, <2>3, <2>4, <2>5, <2>6 DEF Next
<1>2. IInv /\ [Next]_vars => [\A c \in Clusters : Lost(c) => Excused(c)]_vars
  BY <1>1
<1> QED BY <1>2, Invariant, PTL DEF Spec, ExistingClusterIsKept
=============================================================================
