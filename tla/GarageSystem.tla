---------------------------- MODULE GarageSystem ----------------------------
(***************************************************************************)
(* The Garage driver's EnsureCluster for the System store: the replication *)
(* factor and the incarnation pinned in a ConfigMap, the recreate when the *)
(* replica count is switched, the pool of node-sticky local volumes, the   *)
(* node identities kept in a Secret, the placement of replicas as masters  *)
(* come and go, and the Garage mesh and layout.                            *)
(*                                                                         *)
(* One worker reconciles the store; each call it makes is a step, and it   *)
(* may stop between any two.  Around it run the StatefulSet controller,    *)
(* the scheduler and kubelet, the Garage replicas, and masters that come   *)
(* and go.                                                                 *)
(*                                                                         *)
(* Abstractions.                                                           *)
(*  - One object is stored; a replica's directory holds a copy or not.     *)
(*  - One Bucket stands for all of them.                                   *)
(*  - The layout belongs to the cluster; a replica learns it when it is    *)
(*    connected.  It is lost with the last directory that has metadata.    *)
(*  - A deleted pod is gone at once; a node that is removed takes its      *)
(*    pods along, a node that is demoted keeps them.                       *)
(*  - The caching client reads what is there: a cache that is behind is    *)
(*    not modelled.                                                        *)
(***************************************************************************)
EXTENDS Integers, FiniteSets

CONSTANTS
    Node,         \* control-plane nodes, past and future
    FirstNodes,   \* the sets of them there may be at the start
    HA,           \* systemReplicasHA
    MaxInc,       \* bound: incarnations
    MaxKeys,      \* bound: node keys Garage generates for an ordinal
    Disturb,      \* the disturbances that may happen
    MaxDisturb    \* how many of them

Faults == {"stop", "exec", "peer", "podStop"}

\* Storing an object (put) costs nothing of the budget: it happens once.
Intents == {"switch", "nodeDown", "demote", "nodeJoin", "put"}

\* What is promised until a disturbance ends it: objects survive the moves of
\* replicas.
Guarantee == {"objects"}

ASSUME GarageAssumption ==
    /\ FirstNodes \subseteq SUBSET Node
    /\ HA \in Nat \ {0, 1}
    /\ MaxInc \in Nat \ {0}
    /\ MaxKeys \in Nat
    /\ Disturb \subseteq Faults \cup Intents
    /\ MaxDisturb \in Nat

VARIABLES
    single,   \* spec.redundancy is None
    master,   \* nodes with the control-plane label
    up,       \* nodes that run
    cm,       \* the ConfigMap: factor and incarnation, factor 0 if there is none
    sts,      \* replicas of the StatefulSet, 0 if there is none
    pod,      \* pod[o]: the pod of ordinal o
    pvc,      \* pvc[o]: the volume claim of ordinal o
    dying,    \* claims with a deletion timestamp
    vol,      \* vol[s]: the pool volume s
    doomed,   \* bound volumes with a deletion timestamp
    dir,      \* dir[s]: the directory on the node behind volume s
    ident,    \* the Secret with the node identities
    keys,     \* keys[o]: node keys Garage generated for ordinal o
    layout,   \* the Garage layout: roles, staged assignments and removals
    stored,   \* an object was stored
    ready,    \* status Ready of the store
    bucket,   \* the Bucket exists in Garage, and whether it is in the workqueue
    w,        \* the worker
    budget    \* disturbances left, and the guarantees they left intact

vars == <<single, master, up, cm, sts, pod, pvc, dying, vol, doomed, dir, ident,
          keys, layout, stored, ready, bucket, w, budget>>

-----------------------------------------------------------------------------
(* Sizes *)

\* replicationFactor: the intent; the CRD accepts None and unset for System
replicationFactor(redundancy) ==
    CASE redundancy = "None" -> 1
      [] redundancy = "High" -> 5
      [] OTHER -> 3

clampRF(desired, nodes) ==
    LET rf == IF nodes < desired THEN nodes ELSE desired
    IN  IF rf < 1 THEN 1 ELSE rf

systemReplicas(one) == IF one THEN 1 ELSE HA

initialReplicationFactor(one) ==
    clampRF(replicationFactor(IF one THEN "None" ELSE ""), systemReplicas(one))

firstSystemIncarnation == 1

Ord == 0 .. HA - 1
Factor == {initialReplicationFactor(TRUE), initialReplicationFactor(FALSE)}

\* Node keys: the n-th one Garage generated for ordinal o.
Id == Ord \X (1 .. MaxKeys)
NoId == <<>>

\* The name and the path of a pool volume: systemLocalPVName, systemLocalPVPath.
Slot == Node \X (1 .. MaxInc) \X Ord
NodeOf(s) == s[1]
IncOf(s) == s[2]

\* No claim, and a claim that is not bound yet.
NoPVC == <<"none">>
Unbound == <<"unbound">>
Bound(o) == pvc[o] \in Slot

Running(o) == pod[o] = "running"
IdOf(o) == dir[pvc[o]].key

-----------------------------------------------------------------------------
(* State *)

PC == {"idle", "delSts", "delPVCs", "delIdent", "delPVs", "config",
       "pool", "gc", "identities", "placement", "recyclePVC", "recyclePod",
       "workload", "mesh", "stage", "apply", "health"}

\* one: spec.redundancy as read; rf, inc: the pinned state; left: the teardown
\* found something; list: volumes to collect; ord: the replica to recycle;
\* add, drop: the role changes.
Worker ==
    [pc: PC, one: BOOLEAN, rf: {0} \cup Factor, inc: 0 .. MaxInc,
     left: BOOLEAN, list: SUBSET Slot, ord: Ord, add: SUBSET Id, drop: SUBSET Id]

Idle == [pc |-> "idle", one |-> FALSE, rf |-> 0, inc |-> 0, left |-> FALSE,
         list |-> {}, ord |-> 0, add |-> {}, drop |-> {}]

ConfigMap == [rf: {0} \cup Factor, inc: 0 .. MaxInc]
NoConfigMap == [rf |-> 0, inc |-> 0]

Identities == [exists: BOOLEAN, key: [Ord -> {NoId} \cup Id]]
NoIdentities == [exists |-> FALSE, key |-> [o \in Ord |-> NoId]]

Directory == [rf: {0} \cup Factor, key: {NoId} \cup Id, data: BOOLEAN]
EmptyDirectory == [rf |-> 0, key |-> NoId, data |-> FALSE]

NoLayout == [roles |-> {}, add |-> {}, drop |-> {}]

\* The types of the pinned state, the volumes, the replicas, the layout and the worker.
TypeOK ==
    /\ single \in BOOLEAN
    /\ master \subseteq Node
    /\ up \subseteq Node
    /\ cm \in ConfigMap
    /\ sts \in 0 .. HA
    /\ pod \in [Ord -> {"none", "pending", "running"}]
    /\ pvc \in [Ord -> Slot \cup {NoPVC, Unbound}]
    /\ dying \subseteq Ord
    /\ vol \in [Slot -> {"absent", "available", "bound", "released"}]
    /\ doomed \subseteq Slot
    /\ dir \in [Slot -> Directory]
    /\ ident \in Identities
    /\ keys \in [Ord -> 0 .. MaxKeys]
    /\ layout \in [roles: SUBSET Id, add: SUBSET Id, drop: SUBSET Id]
    /\ stored \in BOOLEAN
    /\ ready \in BOOLEAN
    /\ bucket \in [exists: BOOLEAN, queued: BOOLEAN]
    /\ w \in Worker
    /\ budget \in [left: 0 .. MaxDisturb, kept: SUBSET Guarantee]

Init ==
    /\ single \in BOOLEAN
    /\ master \in FirstNodes
    /\ up = master
    /\ cm = NoConfigMap
    /\ sts = 0
    /\ pod = [o \in Ord |-> "none"]
    /\ pvc = [o \in Ord |-> NoPVC]
    /\ dying = {}
    /\ vol = [s \in Slot |-> "absent"]
    /\ doomed = {}
    /\ dir = [s \in Slot |-> EmptyDirectory]
    /\ ident = NoIdentities
    /\ keys = [o \in Ord |-> 0]
    /\ layout = NoLayout
    /\ stored = FALSE
    /\ ready = FALSE
    /\ bucket = [exists |-> FALSE, queued |-> TRUE]
    /\ w = Idle
    /\ budget = [left |-> MaxDisturb, kept |-> Guarantee]

-----------------------------------------------------------------------------
(* Disturbances, and the end of a reconcile *)

Kept(g) == g \in budget.kept

\* One disturbance happens and ends the guarantees of set ends.
Disturbance(d, ends) ==
    /\ d \in Disturb
    /\ budget.left > 0
    /\ budget' = [left |-> budget.left - 1, kept |-> budget.kept \ ends]

\* The reconcile goes on with step p.
Goto(p) == w' = [w EXCEPT !.pc = p]

Status_NoEvent(r) ==   \* mutated form: the Buckets are not told
    /\ ready' = r
    /\ UNCHANGED bucket

\* A change of status Ready puts the Buckets into the workqueue.
Status(r) ==
    /\ ready' = r
    /\ bucket' = [bucket EXCEPT !.queued = @ \/ (r # ready)]

\* EnsureCluster returns; the reconciler writes status.
Return(r) ==
    /\ w' = Idle
    /\ Status(r)

\* The step goes on and leaves the status alone.
Proceed(p) ==
    /\ Goto(p)
    /\ UNCHANGED <<ready, bucket>>

-----------------------------------------------------------------------------
(* EnsureCluster: the pinned state *)

\* Reconcile reads the store, and pinnedState the ConfigMap (ensureSecret has made
\* sure there is an admin token).  The factor is computed once and read back ever
\* after; a System store whose factor is not the wanted one is torn down.
ReadPinned ==
    /\ w.pc = "idle"
    /\ LET was == cm
           want == initialReplicationFactor(single)
           from == [Idle EXCEPT !.one = single, !.rf = want]
       IN  w' = CASE was.rf = 0 ->
                       [from EXCEPT !.pc = "config", !.inc = firstSystemIncarnation]
                  [] was.rf # 0 /\ was.rf # want ->
                       [from EXCEPT !.pc = "delSts", !.inc = was.inc]
                  [] was.rf = want ->
                       [from EXCEPT !.pc = "config", !.inc = was.inc]
    /\ UNCHANGED <<single, master, up, cm, sts, pod, pvc, dying, vol, doomed, dir,
                   ident, keys, layout, stored, ready, bucket, budget>>

-----------------------------------------------------------------------------
(* teardownSystemDataPlane *)

DeleteStatefulSet_Later ==   \* mutated form: the StatefulSet is left to the rebuild
    /\ w.pc = "delSts"
    /\ w' = [w EXCEPT !.pc = "delPVCs"]
    /\ UNCHANGED <<single, master, up, cm, sts, pod, pvc, dying, vol, doomed, dir,
                   ident, keys, layout, stored, ready, bucket, budget>>

\* The StatefulSet, with its pods in the background.
DeleteStatefulSet ==
    /\ w.pc = "delSts"
    /\ sts' = 0
    /\ w' = [w EXCEPT !.pc = "delPVCs", !.left = sts # 0]
    /\ UNCHANGED <<single, master, up, cm, pod, pvc, dying, vol, doomed, dir,
                   ident, keys, layout, stored, ready, bucket, budget>>

\* The claims, which stay until their pods are gone.
DeletePVCs ==
    /\ w.pc = "delPVCs"
    /\ LET there == {o \in Ord : pvc[o] # NoPVC}
       IN  /\ dying' = there
           /\ w' = [w EXCEPT !.pc = "delIdent", !.left = @ \/ there # {}]
    /\ UNCHANGED <<single, master, up, cm, sts, pod, pvc, vol, doomed, dir,
                   ident, keys, layout, stored, ready, bucket, budget>>

\* The node identities, which belong to the old cluster.
DeleteIdentities ==
    /\ w.pc = "delIdent"
    /\ ident' = NoIdentities
    /\ w' = [w EXCEPT !.pc = "delPVs", !.left = @ \/ ident.exists]
    /\ UNCHANGED <<single, master, up, cm, sts, pod, pvc, dying, vol, doomed, dir,
                   keys, layout, stored, ready, bucket, budget>>

\* Deleting volumes: a bound one stays until it is unbound.
DeleteVolumes(S) ==
    /\ vol' = [s \in Slot |-> IF s \in S /\ vol[s] # "bound" THEN "absent" ELSE vol[s]]
    /\ doomed' = doomed \cup {s \in S : vol[s] = "bound"}

DeletePVs_OnePass ==    \* mutated form: done although claims were left
    /\ w.pc = "delPVs"
    /\ LET there == {s \in Slot : vol[s] # "absent"}
       IN  /\ DeleteVolumes(there)
           /\ w' = [w EXCEPT !.pc = "config", !.inc = @ + 1]
    /\ UNCHANGED <<single, master, up, cm, sts, pod, pvc, dying, dir, ident, keys,
                   layout, stored, ready, bucket, budget>>

\* The pool.  The teardown is done, and the store is built again at the next
\* incarnation, once a pass found nothing left.
DeletePVs ==
    /\ w.pc = "delPVs"
    /\ LET there == {s \in Slot : vol[s] # "absent"}
       IN  /\ DeleteVolumes(there)
           /\ IF w.left \/ there # {}
              THEN Return(FALSE)
              ELSE /\ w.inc < MaxInc
                   /\ w' = [w EXCEPT !.pc = "config", !.inc = @ + 1]
                   /\ UNCHANGED <<ready, bucket>>
    /\ UNCHANGED <<single, master, up, cm, sts, pod, pvc, dying, dir, ident, keys,
                   layout, stored, budget>>

-----------------------------------------------------------------------------
(* The ConfigMap, the pool, the identities *)

\* apply: the ConfigMap is created or updated with the pinned state.
ApplyConfigMap ==
    /\ w.pc = "config"
    /\ cm' = [rf |-> w.rf, inc |-> w.inc]
    /\ Proceed("pool")
    /\ UNCHANGED <<single, master, up, sts, pod, pvc, dying, vol, doomed, dir,
                   ident, keys, layout, stored, budget>>

\* desiredSystemLocalPVs
desiredSystemLocalPVs ==
    {s \in Slot : /\ NodeOf(s) \in master
                  /\ IncOf(s) = w.inc
                  /\ s[3] < systemReplicas(w.one)}

\* gcSystemLocalPVs: released, or available and not wanted any more
Stale(s) ==
    \/ vol[s] = "released"
    \/ vol[s] = "available" /\ (NodeOf(s) \notin master \/ s \notin desiredSystemLocalPVs)

\* ensureSystemLocalPVs lists the pool, creates what is missing ...
EnsureSystemLocalPVs ==
    /\ w.pc = "pool"
    /\ vol' = [s \in Slot |-> IF s \in desiredSystemLocalPVs /\ vol[s] = "absent"
                              THEN "available" ELSE vol[s]]
    /\ w' = IF \E s \in Slot : Stale(s)
            THEN [w EXCEPT !.pc = "gc", !.list = {s \in Slot : Stale(s)}]
            ELSE [w EXCEPT !.pc = "identities"]
    /\ UNCHANGED <<single, master, up, cm, sts, pod, pvc, dying, doomed, dir,
                   ident, keys, layout, stored, ready, bucket, budget>>

\* ... and collects what was stale in the list it read.
GCSystemLocalPVs ==
    /\ w.pc = "gc"
    /\ DeleteVolumes({s \in w.list : vol[s] # "absent"})
    /\ w' = [w EXCEPT !.pc = "identities", !.list = {}]
    /\ UNCHANGED <<single, master, up, cm, sts, pod, pvc, dying, dir, ident, keys,
                   layout, stored, ready, bucket, budget>>

runningGaragePods == {o \in Ord : Running(o)}

\* ensureNodeIdentities: the Secret is created empty, then the keys of running
\* replicas that are not in it are captured by exec, best effort.
EnsureNodeIdentities ==
    /\ w.pc = "identities"
    /\ LET new == {o \in runningGaragePods : ident.key[o] = NoId}
       IN  \E got \in SUBSET new :
             /\ IF got = new THEN UNCHANGED budget ELSE Disturbance("exec", {})
             /\ ident' = [exists |-> TRUE,
                          key |-> [o \in Ord |-> IF o \in got THEN IdOf(o) ELSE ident.key[o]]]
    /\ Proceed("placement")
    /\ UNCHANGED <<single, master, up, cm, sts, pod, pvc, dying, vol, doomed, dir,
                   keys, layout, stored>>

-----------------------------------------------------------------------------
(* Placement *)

Holds(o) == Bound(o) /\ dir[pvc[o]].data
Serves(o) == Running(o) /\ IdOf(o) \in layout.roles

\* Garage's status is "healthy": every node with a role is up.  The status says
\* nothing of the copies these nodes still have to fetch.
Healthy ==
    /\ layout.roles # {}
    /\ \A i \in layout.roles : \E o \in Ord : Running(o) /\ IdOf(o) = i

\* A replica that serves has not fetched its copy yet.
Replicating == stored /\ \E o \in Ord : Serves(o) /\ ~Holds(o)

\* systemReplicaNodes
ReplicaOn(o, n) == Bound(o) /\ vol[pvc[o]] # "absent" /\ NodeOf(pvc[o]) = n
Settling(o) == \A n \in Node : ~ReplicaOn(o, n)

Misplaced_AnyHealth(o) ==   \* mutated form: the health gate is dropped
    /\ ~Settling(o)
    /\ CASE Cardinality(master) >= HA ->
              \A n \in master : ReplicaOn(o, n) =>
                                  \E p \in Ord \ {o} : ReplicaOn(p, n)
         [] Cardinality(master) = 1 -> \A n \in master : ~ReplicaOn(o, n)
         [] OTHER -> FALSE

\* nextPlacementAction: a replica that has to move.  Spread over the masters,
\* one replica each, while Garage is healthy; gather on the only master.
Misplaced(o) ==
    /\ ~Settling(o)
    /\ CASE Cardinality(master) >= HA ->
              /\ Healthy
              /\ \A n \in master : ReplicaOn(o, n) =>
                                     \E p \in Ord \ {o} : ReplicaOn(p, n)
         [] Cardinality(master) = 1 -> \A n \in master : ~ReplicaOn(o, n)
         [] OTHER -> FALSE

\* The first one moves.
Chosen(o) == Misplaced(o) /\ \A p \in 0 .. o - 1 : ~Misplaced(p)

\* reconcileSystemPlacement.  A single replica never moves.  Objects are kept as
\* long as no spreading move begins while the last one is still replicating: the
\* status that gates it does not tell.
ReconcileSystemPlacement ==
    /\ w.pc = "placement"
    /\ \/ \E o \in Ord :
            /\ ~w.one /\ Chosen(o)
            /\ w' = [w EXCEPT !.pc = "recyclePVC", !.ord = o]
            /\ budget' = IF Cardinality(master) >= HA /\ Replicating
                         THEN [budget EXCEPT !.kept = @ \ {"objects"}] ELSE budget
       \/ /\ w.one \/ \A o \in Ord : ~Misplaced(o)
          /\ Goto("workload")
          /\ UNCHANGED budget
    /\ UNCHANGED <<single, master, up, cm, sts, pod, pvc, dying, vol, doomed, dir,
                   ident, keys, layout, stored, ready, bucket>>

\* recycleReplica deletes the claim ...
RecyclePVC ==
    /\ w.pc = "recyclePVC"
    /\ dying' = IF pvc[w.ord] = NoPVC THEN dying ELSE dying \cup {w.ord}
    /\ Goto("recyclePod")
    /\ UNCHANGED <<single, master, up, cm, sts, pod, pvc, vol, doomed, dir, ident,
                   keys, layout, stored, ready, bucket, budget>>

\* ... and the pod; the store is not ready until the move has settled.
RecyclePod ==
    /\ w.pc = "recyclePod"
    /\ pod' = [pod EXCEPT ![w.ord] = "none"]
    /\ Return(FALSE)
    /\ UNCHANGED <<single, master, up, cm, sts, pvc, dying, vol, doomed, dir, ident,
                   keys, layout, stored, budget>>

-----------------------------------------------------------------------------
(* Workload, mesh and layout *)

\* ensureWorkload: the StatefulSet, and whether its pods are ready.
EnsureWorkload ==
    /\ w.pc = "workload"
    /\ LET want == systemReplicas(w.one)
       IN  /\ sts' = want
           /\ IF sts = want /\ \A o \in 0 .. want - 1 : Running(o)
              THEN Proceed("mesh")
              ELSE Return(FALSE)
    /\ UNCHANGED <<single, master, up, cm, pod, pvc, dying, vol, doomed, dir, ident,
                   keys, layout, stored, budget>>

\* layoutRoleChanges: a role for each peer that has none; once all replicas are
\* there, the roles of other nodes go.
layoutRoleChanges(peers) ==
    LET live == {IdOf(o) : o \in peers}
    IN  [add |-> live \ layout.roles,
         drop |-> IF Cardinality(peers) >= systemReplicas(w.one)
                  THEN layout.roles \ live ELSE {}]

\* discoverPeers: the running pods that answer with their node identity
discoverPeers == SUBSET {o \in Ord : Running(o)}

\* ensureMeshAndLayout: the peers that answer are connected, the layout is read.
DiscoverPeers ==
    /\ w.pc = "mesh"
    /\ \E peers \in discoverPeers :
         /\ IF \A o \in Ord : Running(o) => o \in peers
            THEN UNCHANGED budget ELSE Disturbance("peer", {})
         /\ LET change == layoutRoleChanges(peers)
            IN  CASE peers = {} -> Return(FALSE)
                  [] peers # {} /\ change.add \cup change.drop = {} ->
                       Proceed("health")
                  [] OTHER ->
                       /\ w' = [w EXCEPT !.pc = "stage", !.add = change.add,
                                         !.drop = change.drop]
                       /\ UNCHANGED <<ready, bucket>>
    /\ UNCHANGED <<single, master, up, cm, sts, pod, pvc, dying, vol, doomed, dir,
                   ident, keys, layout, stored>>

\* Some replica answers behind the Service.
Answers == \E o \in Ord : Running(o)

\* stageLayout: staged changes stay until they are applied.
StageLayout ==
    /\ w.pc = "stage"
    /\ IF Answers
       THEN /\ layout' = [layout EXCEPT !.add = (@ \ w.drop) \cup w.add,
                                        !.drop = (@ \ w.add) \cup w.drop]
            /\ Proceed("apply")
       ELSE Return(FALSE) /\ UNCHANGED layout
    /\ UNCHANGED <<single, master, up, cm, sts, pod, pvc, dying, vol, doomed, dir,
                   ident, keys, stored, budget>>

\* What the layout becomes when everything staged is applied.
Staged == (layout.roles \cup layout.add) \ layout.drop

\* applyLayout at the next version: everything staged becomes the layout.  Garage
\* refuses a layout of fewer nodes than the replication factor.
ApplyLayout ==
    /\ w.pc = "apply"
    /\ IF Answers /\ Cardinality(Staged) >= cm.rf
       THEN /\ layout' = [roles |-> Staged, add |-> {}, drop |-> {}]
            /\ Proceed("health")
       ELSE Return(FALSE) /\ UNCHANGED layout
    /\ UNCHANGED <<single, master, up, cm, sts, pod, pvc, dying, vol, doomed, dir,
                   ident, keys, stored, budget>>

HealthGate_Open ==   \* mutated form: Ready with the layout applied
    /\ w.pc = "health"
    /\ Return(TRUE)
    /\ UNCHANGED <<single, master, up, cm, sts, pod, pvc, dying, vol, doomed, dir,
                   ident, keys, layout, stored, budget>>

\* The health gate.
HealthGate ==
    /\ w.pc = "health"
    /\ Return(Healthy)
    /\ UNCHANGED <<single, master, up, cm, sts, pod, pvc, dying, vol, doomed, dir,
                   ident, keys, layout, stored, budget>>

\* The claim of a running replica is deleted: it keeps its directory until its pod
\* stops for whatever reason.
CutOff(o) == o \in dying /\ Running(o)

\* A call fails, the reconcile times out, or the controller restarts.  Between the
\* two calls of a move that leaves a replica cut off.  Objects survive it if the
\* next reconcile would choose the same replica again.
Stop ==
    /\ w.pc # "idle"
    /\ Disturbance("stop", IF w.pc = "recyclePod" /\ CutOff(w.ord) /\ ~Chosen(w.ord)
                           THEN {"objects"} ELSE {})
    /\ w' = Idle
    /\ Status(FALSE) \/ UNCHANGED <<ready, bucket>>
    /\ UNCHANGED <<single, master, up, cm, sts, pod, pvc, dying, vol, doomed, dir,
                   ident, keys, layout, stored>>

-----------------------------------------------------------------------------
(* The Bucket reconciler, as far as the store concerns it *)

\* A Bucket is reconciled until it is Ready; EnsureBucket creates it in Garage.
ReconcileBucket ==
    /\ bucket.queued
    /\ ready
    /\ Answers
    /\ bucket' = [exists |-> TRUE, queued |-> FALSE]
    /\ UNCHANGED <<single, master, up, cm, sts, pod, pvc, dying, vol, doomed, dir,
                   ident, keys, layout, stored, ready, w, budget>>

-----------------------------------------------------------------------------
(* Kubernetes *)

\* The StatefulSet controller creates a missing pod, and a missing claim unless
\* the old one is still going.
CreatePod(o) ==
    /\ o < sts
    /\ o \notin dying
    /\ pod[o] = "none" \/ (pod[o] = "pending" /\ pvc[o] = NoPVC)
    /\ pod' = [pod EXCEPT ![o] = "pending"]
    /\ pvc' = [pvc EXCEPT ![o] = IF @ = NoPVC THEN Unbound ELSE @]
    /\ UNCHANGED <<single, master, up, cm, sts, dying, vol, doomed, dir, ident, keys,
                   layout, stored, ready, bucket, w, budget>>

\* Pods above the replica count, and pods of a deleted StatefulSet, go.
RemovePod(o) ==
    /\ o >= sts
    /\ pod[o] # "none"
    /\ pod' = [pod EXCEPT ![o] = "none"]
    /\ UNCHANGED <<single, master, up, cm, sts, pvc, dying, vol, doomed, dir, ident,
                   keys, layout, stored, ready, bucket, w, budget>>

\* A deleted claim goes once no running pod uses it; its volume is released
\* (reclaim policy Retain), or goes too when it is deleted.
FinalizePVC(o) ==
    /\ o \in dying
    /\ ~Running(o)
    /\ dying' = dying \ {o}
    /\ pvc' = [pvc EXCEPT ![o] = NoPVC]
    /\ vol' = IF Bound(o)
              THEN [vol EXCEPT ![pvc[o]] = IF pvc[o] \in doomed
                                           THEN "absent" ELSE "released"]
              ELSE vol
    /\ doomed' = doomed \ {pvc[o]}
    /\ UNCHANGED <<single, master, up, cm, sts, pod, dir, ident, keys, layout, stored,
                   ready, bucket, w, budget>>

\* Replicas on a node: the scheduler prefers the emptiest (soft anti-affinity).
Load(n) == Cardinality({o \in Ord : Bound(o) /\ pod[o] # "none" /\ NodeOf(pvc[o]) = n})

Free(s) == vol[s] = "available" /\ NodeOf(s) \in master \cap up

\* Volumes of one node that only differ in their index.
Alike(s, t) == NodeOf(s) = NodeOf(t) /\ IncOf(s) = IncOf(t) /\ dir[s] = dir[t]

\* The volume a pod can start on: its own, or a free one on the emptiest master.
Fits(o, s) ==
    \/ pvc[o] = s /\ NodeOf(s) \in master \cap up
    \/ /\ pvc[o] = Unbound
       /\ Free(s)
       /\ \A t \in Slot : Free(t) => /\ Load(NodeOf(s)) <= Load(NodeOf(t))
                                     /\ Alike(s, t) => s[3] <= t[3]

StartKey_NoRestore(o, s) ==   \* mutated form: the persisted key is not restored
    IF dir[s].key # NoId THEN dir[s].key ELSE <<o, keys[o] + 1>>

\* The node key a replica comes up with: the persisted one of its ordinal
\* (restoreNodeKeyScript), else the one in the directory, else a new one.
StartKey(o, s) ==
    CASE ident.key[o] # NoId -> ident.key[o]
      [] ident.key[o] = NoId /\ dir[s].key # NoId -> dir[s].key
      [] OTHER -> <<o, keys[o] + 1>>

\* No replica's directory has metadata: the cluster starts empty.
Blank(o, s) ==
    /\ dir[s].rf = 0
    /\ \A p \in Ord \ {o} : Bound(p) => dir[pvc[p]].rf = 0

\* A pod is scheduled, its volume bound and mounted; the initContainer restores
\* the node key, and Garage starts with the factor the ConfigMap has now.
StartPod(o, s) ==
    /\ pod[o] = "pending"
    /\ o \notin dying
    /\ cm.rf # 0
    /\ Fits(o, s)
    /\ StartKey(o, s) \in Id
    /\ pod' = [pod EXCEPT ![o] = "running"]
    /\ pvc' = [pvc EXCEPT ![o] = s]
    /\ vol' = [vol EXCEPT ![s] = "bound"]
    /\ keys' = IF StartKey(o, s)[2] > keys[StartKey(o, s)[1]]
              THEN [keys EXCEPT ![o] = @ + 1] ELSE keys
    /\ dir' = [dir EXCEPT ![s] = [rf |-> IF @.rf = 0 THEN cm.rf ELSE @.rf,
                                  key |-> StartKey(o, s),
                                  data |-> @.data]]
    /\ IF Blank(o, s)
       THEN /\ layout' = NoLayout
            /\ stored' = FALSE
            /\ bucket' = [bucket EXCEPT !.exists = FALSE]
       ELSE UNCHANGED <<layout, stored, bucket>>
    /\ UNCHANGED <<single, master, up, cm, sts, dying, doomed, ident, ready, w,
                   budget>>

\* A pod is deleted or fails; the StatefulSet brings it back.
PodStop(o) ==
    /\ Running(o)
    /\ Disturbance("podStop", {})
    /\ pod' = [pod EXCEPT ![o] = "none"]
    /\ UNCHANGED <<single, master, up, cm, sts, pvc, dying, vol, doomed, dir, ident,
                   keys, layout, stored, ready, bucket, w>>

-----------------------------------------------------------------------------
(* Garage and its clients *)

\* An object is stored by the replicas that are there, if they are a quorum.
Put ==
    /\ "put" \in Disturb
    /\ ~stored
    /\ bucket.exists
    /\ 2 * Cardinality({o \in Ord : Serves(o)}) > Cardinality(layout.roles)
    /\ stored' = TRUE
    /\ dir' = [s \in Slot |-> [dir[s] EXCEPT !.data =
                 @ \/ \E o \in Ord : Serves(o) /\ pvc[o] = s]]
    /\ UNCHANGED <<single, master, up, cm, sts, pod, pvc, dying, vol, doomed, ident,
                   keys, layout, ready, bucket, w, budget>>

\* Anti-entropy: a replica fetches the object from another one.
Resync(o) ==
    /\ Serves(o)
    /\ ~Holds(o)
    /\ \E p \in Ord : Serves(p) /\ Holds(p)
    /\ dir' = [dir EXCEPT ![pvc[o]].data = TRUE]
    /\ UNCHANGED <<single, master, up, cm, sts, pod, pvc, dying, vol, doomed, ident,
                   keys, layout, stored, ready, bucket, w, budget>>

-----------------------------------------------------------------------------
(* Administrators *)

\* sdsObject.systemBucket.singleReplica is toggled; that discards the objects.
SwitchReplicas ==
    /\ Disturbance("switch", {"objects"})
    /\ single' = ~single
    /\ UNCHANGED <<master, up, cm, sts, pod, pvc, dying, vol, doomed, dir, ident, keys,
                   layout, stored, ready, bucket, w>>

\* With m as the only master every replica elsewhere is given up.  The objects
\* survive that if the replica on m has them and is not about to move itself, and
\* no replica elsewhere serves any more.
Anchored(m, alive) ==
    \/ \A o \in Ord : ~Bound(o)
    \/ /\ \E o \in Ord : /\ Bound(o)
                         /\ stored => Holds(o)
                         /\ NodeOf(pvc[o]) \in m
                         /\ o \notin dying
                         /\ w.pc \in {"recyclePVC", "recyclePod"} => w.ord # o
       /\ \A o \in Ord : Running(o) => NodeOf(pvc[o]) \in m \cup (Node \ alive)

\* A replica is cut off and no move of it is under way.
HalfMoved == \E o \in Ord : CutOff(o) /\ ~(w.pc = "recyclePod" /\ w.ord = o)

\* The guarantees that end when the masters become m and the nodes gone stop: with
\* other masters a half-made move may not be taken up again, and nothing else sees
\* the claim that is going.
Ends(m, gone) ==
    {g \in Guarantee : HalfMoved \/ (Cardinality(m) = 1 /\ ~Anchored(m, up \ gone))}

\* A node is removed, with the pods on it.
NodeDown(n) ==
    /\ n \in up
    /\ master' = master \ {n}
    /\ up' = up \ {n}
    /\ Disturbance("nodeDown", Ends(master', {n}))
    /\ pod' = [o \in Ord |-> IF Running(o) /\ NodeOf(pvc[o]) = n
                             THEN "none" ELSE pod[o]]
    /\ UNCHANGED <<single, cm, sts, pvc, dying, vol, doomed, dir, ident, keys, layout,
                   stored, ready, bucket, w>>

\* A node stops being a master; what runs on it goes on running.
Demote(n) ==
    /\ n \in master
    /\ master' = master \ {n}
    /\ Disturbance("demote", Ends(master', {}))
    /\ UNCHANGED <<single, up, cm, sts, pod, pvc, dying, vol, doomed, dir, ident, keys,
                   layout, stored, ready, bucket, w>>

\* A master is added, or comes back with its disk.
NodeJoin(n) ==
    /\ n \notin master
    /\ master' = master \cup {n}
    /\ up' = up \cup {n}
    /\ Disturbance("nodeJoin", Ends(master', {}))
    /\ UNCHANGED <<single, cm, sts, pod, pvc, dying, vol, doomed, dir, ident, keys,
                   layout, stored, ready, bucket, w>>

-----------------------------------------------------------------------------

Reconcile ==
    \/ ReadPinned
    \/ DeleteStatefulSet \/ DeletePVCs \/ DeleteIdentities \/ DeletePVs
    \/ ApplyConfigMap \/ EnsureSystemLocalPVs \/ GCSystemLocalPVs
    \/ EnsureNodeIdentities \/ ReconcileSystemPlacement
    \/ RecyclePVC \/ RecyclePod \/ EnsureWorkload
    \/ DiscoverPeers \/ StageLayout \/ ApplyLayout \/ HealthGate

StartSome(o) == \E s \in Slot : StartPod(o, s)

Kubernetes ==
    \/ \E o \in Ord : CreatePod(o) \/ RemovePod(o) \/ FinalizePVC(o) \/ StartSome(o)

Change ==
    \/ SwitchReplicas \/ Stop
    \/ \E o \in Ord : PodStop(o)
    \/ \E n \in Node : NodeDown(n) \/ Demote(n) \/ NodeJoin(n)

Next ==
    \/ Reconcile \/ ReconcileBucket \/ Kubernetes \/ Put
    \/ \E o \in Ord : Resync(o)
    \/ Change

Spec == Init /\ [][Next]_vars

\* Every reconcile ends and is followed by another (the store is requeued and
\* every Node event enqueues it); Kubernetes and Garage do their part.
FairSpec ==
    /\ Spec
    /\ WF_vars(Reconcile)
    /\ WF_vars(ReconcileBucket)
    /\ \A o \in Ord : /\ WF_vars(CreatePod(o)) /\ WF_vars(RemovePod(o))
                      /\ WF_vars(FinalizePVC(o)) /\ WF_vars(StartSome(o))
                      /\ WF_vars(Resync(o))

-----------------------------------------------------------------------------
(* Properties *)

\* The replica group the cluster is: generation and factor are the pinned ones,
\* a replica is in it with the generation and the factor of its directory.
Group == INSTANCE ReplicaGroup WITH
    Replica <- Ord,
    Factor <- Factor,
    gen <- cm.inc,
    factor <- cm.rf,
    member <- [o \in Ord |-> IF Running(o)
                             THEN [gen |-> IncOf(pvc[o]), factor |-> dir[pvc[o]].rf]
                             ELSE [gen |-> 0, factor |-> 0]]

\* The driver implements the replica group (garage.go:115-131, recreate.go): the
\* factor changes only between incarnations, when no replica runs, and a replica
\* never mounts the directory of another incarnation or factor.
ImplementsReplicaGroup == Group!Spec

\* Moving replicas between masters (rebalance.go) never discards the last copy of
\* a stored object, as long as each spreading move finds the last one replicated.
ObjectKept == Kept("objects") /\ stored => \E o \in Ord : Holds(o)

\* Two replicas never run under the same node identity (identity.go), although
\* volumes, with the keys in their directories, are reused by other ordinals.
DistinctIdentities ==
    \A o, p \in Ord : Running(o) /\ Running(p) /\ o # p => IdOf(o) # IdOf(p)

\* A replica whose identity was captured comes back under it, wherever it is
\* moved to and whatever it finds in its new directory (resources.go:494).
RejoinsAsItself ==
    \A o \in Ord : Running(o) /\ ident.key[o] # NoId => IdOf(o) = ident.key[o]

\* Ready is reported of a whole store only: at that moment every replica of the
\* wanted number runs with a role in the layout, although peers may be missed,
\* layouts staged and not applied, and replicas moved while the reconcile was on its
\* way (mesh.go:59, garage.go:180).
ReadyIsWhole ==
    [][~ready /\ ready' => \A o \in 0 .. systemReplicas(w.one) - 1 : Serves(o)]_vars

\* A replica can run where it is: its master is there, or it was running when
\* its node was demoted.
Homed(o) == Bound(o) => NodeOf(pvc[o]) \in up /\ (Running(o) \/ NodeOf(pvc[o]) \in master)

\* One replica per master.
Spread == \A o, p \in Ord : o # p => NodeOf(pvc[o]) # NodeOf(pvc[p])

\* The store recovers from a switch, a move of masters, a restart: once things
\* stay as they are, with a master and no replica on a node that is gone, the store
\* is Ready at the wanted factor, and spread when there are enough masters
\* (garage.go:88, rebalance.go:49) - unless two replicas have one identity.
Recovers ==
    []DistinctIdentities /\ <>[](master # {} /\ \A o \in Ord : Homed(o))
        => <>[](/\ ready
                /\ cm.rf = initialReplicationFactor(single)
                /\ ~single /\ Cardinality(master) >= HA => Spread)

\* A store that is rebuilt empty gets its Buckets back although a Ready Bucket is
\* not requeued (bucket_controller.go:281).
BucketsReturn == <>[]ready => <>[](ready /\ bucket.exists)
=============================================================================
