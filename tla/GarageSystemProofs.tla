------------------------- MODULE GarageSystemProofs -------------------------
(***************************************************************************)
(* The System data plane of the Garage driver: types, the identities of    *)
(* replicas, and the refinement of ReplicaGroup, for any number of masters,*)
(* replicas, incarnations and disturbances; that Ready is said of whole    *)
(* stores only, and that moves never discard the last copy of an object,   *)
(* for stores of up to three replicas (the code has three).                *)
(***************************************************************************)
EXTENDS GarageSystem, FiniteSetTheorems, TLAPS

-----------------------------------------------------------------------------
(* The inductive invariant *)

\* A node key in use was generated by Garage before.
Known(i) == i # NoId => i[2] <= keys[i[1]]

KeysKnown ==
    /\ \A s \in Slot : Known(dir[s].key)
    /\ \A o \in Ord : Known(ident.key[o])

\* A claim has its volume to itself, and a running replica has a claim, whose
\* directory has a node key.
Mounted ==
    /\ \A o \in Ord : Bound(o) => vol[pvc[o]] = "bound"
    /\ \A o, p \in Ord : Bound(o) /\ pvc[o] = pvc[p] => o = p
    /\ \A o \in Ord : Running(o) => Bound(o) /\ IdOf(o) # NoId

\* Nothing is left of a data plane.
Torn ==
    /\ sts = 0
    /\ \A o \in Ord : pvc[o] = NoPVC
    /\ \A s \in Slot : vol[s] = "absent"

\* Claims and volumes are of the pinned incarnation; a directory of it is empty or
\* has the pinned factor, and there are none yet of incarnations to come.
OfIncarnation ==
    /\ cm.rf = 0 => cm.inc = 0 /\ Torn
    /\ \A o \in Ord : Bound(o) => IncOf(pvc[o]) = cm.inc
    /\ \A s \in Slot : vol[s] # "absent" => IncOf(s) = cm.inc
    /\ \A s \in Slot : IncOf(s) = cm.inc => dir[s].rf \in {0, cm.rf}
    /\ \A s \in Slot : IncOf(s) > cm.inc => dir[s].rf = 0
    /\ \A o \in Ord : Running(o) => dir[pvc[o]].rf = cm.rf /\ cm.rf # 0

Teardown == {"delSts", "delPVCs", "delIdent", "delPVs"}

\* Where the worker stands: it tears the data plane down for another factor, it is
\* about to pin another factor with nothing left, or it works at the pinned one.
WorkerPinned ==
    /\ w.pc \in Teardown => w.inc = cm.inc /\ w.rf \notin {0, cm.rf} /\ cm.rf # 0
    /\ w.pc \in Teardown \ {"delSts"} => sts = 0
    /\ w.pc \in {"delIdent", "delPVs"} /\ ~w.left => \A o \in Ord : pvc[o] = NoPVC
    /\ w.pc = "config" =>
         /\ w.rf # 0
         /\ \/ w.rf = cm.rf /\ w.inc = cm.inc
            \/ w.rf # cm.rf /\ w.inc = cm.inc + 1 /\ Torn
    /\ w.pc \notin Teardown \cup {"idle", "config"} =>
         cm.rf # 0 /\ w.rf = cm.rf /\ w.inc = cm.inc

GroupInv == TypeOK /\ KeysKnown /\ Mounted /\ OfIncarnation /\ WorkerPinned

-----------------------------------------------------------------------------
(* Sizes, slots and keys *)

\* A volume's name says its node, incarnation and index; a missing or unbound claim
\* is no volume.
LEMMA Slots ==
    /\ NoPVC \notin Slot /\ Unbound \notin Slot /\ NoPVC # Unbound
    /\ \A s \in Slot : NodeOf(s) \in Node /\ IncOf(s) \in 1 .. MaxInc /\ s[3] \in Ord
  BY DEF NoPVC, Unbound, Slot, NodeOf, IncOf

\* A node key says its ordinal and its number.
LEMMA Ids ==
    /\ NoId \notin Id
    /\ \A i \in Id : i[1] \in Ord /\ i[2] \in 1 .. MaxKeys
    /\ \A o \in Ord, n \in 1 .. MaxKeys : <<o, n>> \in Id
    /\ \A o, n : <<o, n>>[1] = o /\ <<o, n>>[2] = n
  BY DEF Id, NoId

\* None is one replica, and otherwise there are at least two.
LEMMA Factors ==
    /\ \A one \in BOOLEAN : initialReplicationFactor(one) \in Factor
    /\ 0 \notin Factor
    /\ \A one \in BOOLEAN : systemReplicas(one) \in 1 .. HA
<1>1. HA \in Nat /\ HA > 1
  BY GarageAssumption
<1>2. \A one \in BOOLEAN : systemReplicas(one) \in 1 .. HA
  BY <1>1 DEF systemReplicas
<1>3. \A r : replicationFactor(r) \in {1, 3, 5}
  BY DEF replicationFactor
<1>4. ASSUME NEW d \in {1, 3, 5}, NEW n \in 1 .. HA
      PROVE  clampRF(d, n) # 0
  BY <1>1 DEF clampRF
<1>5. \A one \in BOOLEAN : initialReplicationFactor(one) # 0
  BY <1>2, <1>3, <1>4 DEF initialReplicationFactor
<1> QED BY <1>2, <1>5 DEF Factor

-----------------------------------------------------------------------------
(* Types *)

\* The parts of the worker and the status that most steps write.
LEMMA Written ==
    ASSUME TypeOK
    PROVE  /\ Idle \in Worker
           /\ \A p \in PC : [w EXCEPT !.pc = p] \in Worker
           /\ \A p \in PC, l \in BOOLEAN : [w EXCEPT !.pc = p, !.left = l] \in Worker
           /\ \A r \in BOOLEAN : Status(r) => ready' \in BOOLEAN /\ bucket' \in [exists: BOOLEAN, queued: BOOLEAN]
           /\ \A r \in BOOLEAN : Return(r) => w' = Idle /\ ready' \in BOOLEAN /\ bucket' \in [exists: BOOLEAN, queued: BOOLEAN]
           /\ NoLayout \in [roles: SUBSET Id, add: SUBSET Id, drop: SUBSET Id]
           /\ NoIdentities \in Identities
<1>1. Idle \in Worker
  BY GarageAssumption DEF Idle, Worker, PC, Ord
<1>2. /\ \A p \in PC : [w EXCEPT !.pc = p] \in Worker
      /\ \A p \in PC, l \in BOOLEAN : [w EXCEPT !.pc = p, !.left = l] \in Worker
  BY DEF TypeOK, Worker
<1>3. \A r \in BOOLEAN : Status(r) => ready' \in BOOLEAN /\ bucket' \in [exists: BOOLEAN, queued: BOOLEAN]
  BY DEF TypeOK, Status
<1> QED BY <1>1, <1>2, <1>3 DEF Return, NoLayout, NoIdentities, Identities

\* A disturbance takes one from the budget.
LEMMA DisturbanceType ==
    ASSUME TypeOK, NEW d, NEW ends, Disturbance(d, ends)
    PROVE  budget' \in [left: 0 .. MaxDisturb, kept: SUBSET Guarantee]
  BY GarageAssumption DEF TypeOK, Disturbance

\* Before the first reconcile nothing is pinned and there is no data plane.
LEMMA InitInv == Init => GroupInv
<1> SUFFICES ASSUME Init PROVE GroupInv
  OBVIOUS
<1>1. TypeOK
  <2>1. Idle \in Worker /\ NoIdentities \in Identities
    BY GarageAssumption DEF Idle, Worker, PC, Ord, NoIdentities, Identities
  <2>2. cm \in ConfigMap /\ sts \in 0 .. HA /\ dir \in [Slot -> Directory]
    BY GarageAssumption DEF Init, ConfigMap, NoConfigMap, Directory, EmptyDirectory
  <2>3. keys \in [Ord -> 0 .. MaxKeys]
    BY GarageAssumption DEF Init
  <2>4. pvc \in [Ord -> Slot \cup {NoPVC, Unbound}]
    BY DEF Init
  <2>5. budget \in [left: 0 .. MaxDisturb, kept: SUBSET Guarantee]
    BY GarageAssumption DEF Init
  <2>6. master \subseteq Node /\ up \subseteq Node
    BY GarageAssumption DEF Init
  <2> QED BY <2>1, <2>2, <2>3, <2>4, <2>5, <2>6 DEF Init, TypeOK, NoLayout
<1>2. KeysKnown
  BY DEF Init, KeysKnown, Known, EmptyDirectory, NoIdentities
<1>3. Mounted
  BY Slots DEF Init, Mounted, Bound, Running
<1>4. OfIncarnation
  BY Slots DEF Init, OfIncarnation, Bound, Running, Torn, NoConfigMap, EmptyDirectory
<1>5. WorkerPinned
  BY DEF Init, WorkerPinned, Idle, Teardown
<1> QED BY <1>1, <1>2, <1>3, <1>4, <1>5 DEF GroupInv

\* The reconcile up to the workload.
LEMMA TypeReconcile ==
    ASSUME TypeOK, Mounted,
           \/ ReadPinned \/ DeleteStatefulSet \/ DeletePVCs \/ DeleteIdentities \/ DeletePVs
           \/ ApplyConfigMap \/ EnsureSystemLocalPVs \/ GCSystemLocalPVs
           \/ EnsureNodeIdentities \/ ReconcileSystemPlacement
           \/ RecyclePVC \/ RecyclePod \/ EnsureWorkload
    PROVE  TypeOK'
<1>1. CASE ReadPinned
  <2>1. w' \in Worker
    <3> DEFINE want == initialReplicationFactor(single)
               from == [Idle EXCEPT !.one = single, !.rf = want]
    <3>1. single \in BOOLEAN /\ want \in Factor /\ cm.inc \in 0 .. MaxInc
      BY Factors DEF TypeOK, ConfigMap
    <3>2. firstSystemIncarnation \in 0 .. MaxInc
      BY GarageAssumption DEF firstSystemIncarnation
    <3> HIDE DEF want
    <3>3. \A p \in PC, n \in 0 .. MaxInc : [from EXCEPT !.pc = p, !.inc = n] \in Worker
      BY <3>1, Written DEF Idle, Worker
    <3>4. \/ w' = [from EXCEPT !.pc = "config", !.inc = firstSystemIncarnation]
          \/ w' = [from EXCEPT !.pc = "delSts", !.inc = cm.inc]
          \/ w' = [from EXCEPT !.pc = "config", !.inc = cm.inc]
      BY <1>1 DEF ReadPinned, want
    <3>5. "config" \in PC /\ "delSts" \in PC
      BY DEF PC
    <3> QED BY <3>1, <3>2, <3>3, <3>4, <3>5, Zenon
  <2> QED BY <1>1, <2>1 DEF ReadPinned, TypeOK
<1>2. CASE DeleteStatefulSet
  <2>1. (sts # 0) \in BOOLEAN /\ "delPVCs" \in PC
    BY DEF PC
  <2>2. w' \in Worker
    BY <1>2, <2>1, Written, Zenon DEF DeleteStatefulSet
  <2> QED BY <1>2, <2>2, GarageAssumption DEF DeleteStatefulSet, TypeOK
<1>3. CASE DeletePVCs
  <2> DEFINE there == {o \in Ord : pvc[o] # NoPVC}
  <2>1. (w.left \/ there # {}) \in BOOLEAN /\ "delIdent" \in PC
    BY DEF PC
  <2>2. w' = [w EXCEPT !.pc = "delIdent", !.left = w.left \/ there # {}]
    BY <1>3 DEF DeletePVCs
  <2>3. w' \in Worker
    BY <2>1, <2>2, Written, Zenon
  <2> QED BY <1>3, <2>3 DEF DeletePVCs, TypeOK
<1>4. CASE DeleteIdentities
  <2>1. (w.left \/ ident.exists) \in BOOLEAN /\ "delPVs" \in PC
    BY DEF PC
  <2>2. w' = [w EXCEPT !.pc = "delPVs", !.left = w.left \/ ident.exists]
    BY <1>4 DEF DeleteIdentities
  <2>3. w' \in Worker
    BY <2>1, <2>2, Written, Zenon
  <2> QED BY <1>4, <2>3, Written DEF DeleteIdentities, TypeOK
<1>5. CASE DeletePVs
  <2>1. vol' \in [Slot -> {"absent", "available", "bound", "released"}] /\ doomed' \subseteq Slot
    BY <1>5 DEF DeletePVs, DeleteVolumes, TypeOK
  <2>2. w' \in Worker /\ ready' \in BOOLEAN /\ bucket' \in [exists: BOOLEAN, queued: BOOLEAN]
    <3>1. \/ Return(FALSE)
          \/ /\ w.inc < MaxInc /\ w' = [w EXCEPT !.pc = "config", !.inc = @ + 1]
             /\ UNCHANGED <<ready, bucket>>
      BY <1>5 DEF DeletePVs
    <3>2. w.inc < MaxInc => [w EXCEPT !.pc = "config", !.inc = @ + 1] \in Worker
      <4>1. w.inc < MaxInc => w.inc + 1 \in 0 .. MaxInc
        BY GarageAssumption DEF TypeOK, Worker
      <4>2. \A n \in 0 .. MaxInc : [w EXCEPT !.pc = "config", !.inc = n] \in Worker
        BY DEF TypeOK, Worker, PC
      <4> QED BY <4>1, <4>2, Zenon
    <3> QED BY <3>1, <3>2, Written DEF TypeOK
  <2> QED BY <1>5, <2>1, <2>2 DEF DeletePVs, TypeOK
<1>6. CASE ApplyConfigMap
  BY <1>6, Written DEF ApplyConfigMap, Proceed, Goto, TypeOK, Worker, PC, ConfigMap
<1>7. CASE EnsureSystemLocalPVs
  BY <1>7 DEF EnsureSystemLocalPVs, TypeOK, Worker, PC
<1>8. CASE GCSystemLocalPVs
  BY <1>8 DEF GCSystemLocalPVs, DeleteVolumes, TypeOK, Worker, PC
<1>9. CASE EnsureNodeIdentities
  <2>1. PICK got \in SUBSET {o \in runningGaragePods : ident.key[o] = NoId} :
           /\ UNCHANGED budget \/ Disturbance("exec", {})
           /\ ident' = [exists |-> TRUE,
                        key |-> [o \in Ord |-> IF o \in got THEN IdOf(o) ELSE ident.key[o]]]
    BY <1>9 DEF EnsureNodeIdentities
  <2>2. \A o \in got : o \in Ord /\ IdOf(o) \in Id
    BY Slots DEF runningGaragePods, Mounted, Bound, IdOf, TypeOK, Directory
  <2>3. ident' \in Identities
    BY <2>1, <2>2 DEF TypeOK, Identities
  <2>4. budget' \in [left: 0 .. MaxDisturb, kept: SUBSET Guarantee]
    BY <2>1, DisturbanceType DEF TypeOK
  <2> QED BY <1>9, <2>3, <2>4, Written DEF EnsureNodeIdentities, Proceed, Goto, TypeOK, PC
<1>10. CASE ReconcileSystemPlacement
  <2>1. \/ \E o \in Ord : w' = [w EXCEPT !.pc = "recyclePVC", !.ord = o]
        \/ w' = [w EXCEPT !.pc = "workload"]
    BY <1>10, Zenon DEF ReconcileSystemPlacement, Goto
  <2>5. budget' \in [left: 0 .. MaxDisturb, kept: SUBSET Guarantee]
    <3>1. [budget EXCEPT !.kept = @ \ {"objects"}] \in [left: 0 .. MaxDisturb, kept: SUBSET Guarantee]
      BY DEF TypeOK
    <3> QED BY <1>10, <3>1, Zenon DEF ReconcileSystemPlacement, TypeOK
  <2>2. \A o \in Ord : [w EXCEPT !.pc = "recyclePVC", !.ord = o] \in Worker
    BY DEF TypeOK, Worker, PC
  <2>3. "workload" \in PC
    BY DEF PC
  <2>4. w' \in Worker
    BY <2>1, <2>2, <2>3, Written, Zenon
  <2> QED BY <1>10, <2>4, <2>5 DEF ReconcileSystemPlacement, TypeOK
<1>11. CASE RecyclePVC
  <2>1. dying' \subseteq Ord
    BY <1>11 DEF RecyclePVC, TypeOK, Worker
  <2>2. w' \in Worker
    BY <1>11, Written DEF RecyclePVC, Goto, PC
  <2> QED BY <1>11, <2>1, <2>2 DEF RecyclePVC, TypeOK
<1>12. CASE RecyclePod
  BY <1>12, Written DEF RecyclePod, TypeOK, Worker
<1>13. CASE EnsureWorkload
  <2>1. sts' \in 0 .. HA
    BY <1>13, Factors, GarageAssumption DEF EnsureWorkload, TypeOK, Worker
  <2> QED BY <1>13, <2>1, Written DEF EnsureWorkload, Proceed, Goto, TypeOK, PC
<1> QED BY <1>1, <1>2, <1>3, <1>4, <1>5, <1>6, <1>7, <1>8, <1>9, <1>10, <1>11, <1>12, <1>13

\* The mesh, the layout, the end of the reconcile, and the Bucket.
LEMMA TypeMesh ==
    ASSUME TypeOK, Mounted,
           DiscoverPeers \/ StageLayout \/ ApplyLayout \/ HealthGate \/ ReconcileBucket \/ Stop
    PROVE  TypeOK'
<1>1. CASE DiscoverPeers
  <2>1. PICK peers \in discoverPeers :
          /\ UNCHANGED budget \/ Disturbance("peer", {})
          /\ \/ Return(FALSE)
             \/ Proceed("health")
             \/ /\ w' = [w EXCEPT !.pc = "stage", !.add = layoutRoleChanges(peers).add,
                                   !.drop = layoutRoleChanges(peers).drop]
                /\ UNCHANGED <<ready, bucket>>
    BY <1>1 DEF DiscoverPeers
  <2>2. \A o \in peers : IdOf(o) \in Id
    BY Slots DEF discoverPeers, Mounted, Bound, IdOf, TypeOK, Directory
  <2>3. layoutRoleChanges(peers).add \subseteq Id /\ layoutRoleChanges(peers).drop \subseteq Id
    BY <2>2 DEF layoutRoleChanges, TypeOK
  <2>4. w' \in Worker /\ ready' \in BOOLEAN /\ bucket' \in [exists: BOOLEAN, queued: BOOLEAN]
    <3>1. \A S, T \in SUBSET Id : [w EXCEPT !.pc = "stage", !.add = S, !.drop = T] \in Worker
      BY DEF TypeOK, Worker, PC
    <3>2. CASE Return(FALSE)
      BY <3>2, Written
    <3>3. CASE Proceed("health")
      BY <3>3, Written DEF TypeOK, PC, Proceed, Goto
    <3>4. CASE /\ w' = [w EXCEPT !.pc = "stage", !.add = layoutRoleChanges(peers).add,
                                  !.drop = layoutRoleChanges(peers).drop]
               /\ UNCHANGED <<ready, bucket>>
      <4>1. w' \in Worker
        BY <2>3, <3>1, <3>4, Zenon
      <4> QED BY <3>4, <4>1 DEF TypeOK
    <3> QED BY <2>1, <3>2, <3>3, <3>4
  <2>5. budget' \in [left: 0 .. MaxDisturb, kept: SUBSET Guarantee]
    BY <2>1, DisturbanceType DEF TypeOK
  <2> QED BY <1>1, <2>4, <2>5 DEF DiscoverPeers, TypeOK
<1>2. CASE StageLayout
  <2>1. layout' \in [roles: SUBSET Id, add: SUBSET Id, drop: SUBSET Id]
    <3> DEFINE L == [layout EXCEPT !.add = (@ \ w.drop) \cup w.add,
                                   !.drop = (@ \ w.add) \cup w.drop]
    <3>1. layout' = layout \/ layout' = L
      BY <1>2 DEF StageLayout
    <3>2. L \in [roles: SUBSET Id, add: SUBSET Id, drop: SUBSET Id]
      BY DEF TypeOK, Worker
    <3> QED BY <3>1, <3>2 DEF TypeOK
  <2> QED BY <1>2, <2>1, Written DEF StageLayout, Proceed, Goto, TypeOK, PC
<1>3. CASE ApplyLayout
  <2>1. layout' \in [roles: SUBSET Id, add: SUBSET Id, drop: SUBSET Id]
    <3>1. layout' = layout \/ layout' = [roles |-> Staged, add |-> {}, drop |-> {}]
      BY <1>3 DEF ApplyLayout
    <3>2. Staged \subseteq Id
      BY DEF Staged, TypeOK
    <3> QED BY <3>1, <3>2 DEF TypeOK
  <2> QED BY <1>3, <2>1, Written DEF ApplyLayout, Proceed, Goto, TypeOK, PC
<1>4. CASE HealthGate
  <2>1. Healthy \in BOOLEAN
    BY DEF Healthy
  <2> QED BY <1>4, <2>1, Written DEF HealthGate, TypeOK
<1>5. CASE ReconcileBucket
  BY <1>5 DEF ReconcileBucket, TypeOK
<1>6. CASE Stop
  BY <1>6, Written, DisturbanceType DEF Stop, TypeOK
<1> QED BY <1>1, <1>2, <1>3, <1>4, <1>5, <1>6

\* The key a replica starts with: a new one, or one that was generated before.
LEMMA StartKeyCases ==
    ASSUME TypeOK, KeysKnown, NEW o \in Ord, NEW s \in Slot, StartKey(o, s) \in Id
    PROVE  /\ ident.key[o] # NoId => StartKey(o, s) = ident.key[o]
           /\ StartKey(o, s) # <<o, keys[o] + 1>> => StartKey(o, s)[2] <= keys[StartKey(o, s)[1]]
           /\ StartKey(o, s) = <<o, keys[o] + 1>> => keys[o] + 1 \in 1 .. MaxKeys
<1>1. StartKey(o, s) \in {ident.key[o], dir[s].key, <<o, keys[o] + 1>>}
  BY DEF StartKey
<1>2. ident.key[o] # NoId => StartKey(o, s) = ident.key[o]
  BY DEF StartKey
<1>3. StartKey(o, s) # NoId
  BY Ids
<1>4. StartKey(o, s) # <<o, keys[o] + 1>> => StartKey(o, s)[2] <= keys[StartKey(o, s)[1]]
  BY <1>1, <1>3 DEF KeysKnown, Known
<1>5. StartKey(o, s) = <<o, keys[o] + 1>> => keys[o] + 1 \in 1 .. MaxKeys
  BY Ids
<1> QED BY <1>2, <1>4, <1>5

\* Node keys are only ever added.
LEMMA StartKeys ==
    ASSUME TypeOK, KeysKnown, NEW o \in Ord, NEW s \in Slot, StartPod(o, s)
    PROVE  /\ keys' \in [Ord -> 0 .. MaxKeys]
           /\ \A p \in Ord : keys[p] <= keys'[p]
           /\ StartKey(o, s)[2] <= keys'[StartKey(o, s)[1]]
<1> DEFINE k == StartKey(o, s)
<1>1. k \in Id /\ keys' = IF k[2] > keys[k[1]] THEN [keys EXCEPT ![o] = @ + 1] ELSE keys
  BY DEF StartPod
<1>2. k[1] \in Ord /\ k[2] \in Nat /\ keys \in [Ord -> 0 .. MaxKeys] /\ MaxKeys \in Nat
  BY <1>1, Ids, GarageAssumption DEF TypeOK
<1>3. CASE k = <<o, keys[o] + 1>>
  <2>1. k[1] = o /\ k[2] = keys[o] + 1 /\ keys[o] + 1 \in 1 .. MaxKeys
    BY <1>1, <1>3, StartKeyCases, Ids
  <2> QED BY <1>1, <1>2, <2>1
<1>4. CASE k # <<o, keys[o] + 1>>
  <2>1. k[2] <= keys[k[1]]
    BY <1>1, <1>4, StartKeyCases
  <2> QED BY <1>1, <1>2, <2>1
<1> QED BY <1>3, <1>4

\* Kubernetes, Garage and its clients.
LEMMA TypeKubernetes ==
    ASSUME TypeOK, KeysKnown, NEW o \in Ord,
           CreatePod(o) \/ RemovePod(o) \/ FinalizePVC(o) \/ StartSome(o) \/ Put \/ Resync(o)
    PROVE  TypeOK'
<1>1. CASE CreatePod(o)
  BY <1>1 DEF CreatePod, TypeOK
<1>2. CASE RemovePod(o)
  BY <1>2 DEF RemovePod, TypeOK
<1>3. CASE FinalizePVC(o)
  <2>1. vol' \in [Slot -> {"absent", "available", "bound", "released"}]
    BY <1>3 DEF FinalizePVC, Bound, TypeOK
  <2>2. pvc' \in [Ord -> Slot \cup {NoPVC, Unbound}] /\ dying' \subseteq Ord /\ doomed' \subseteq Slot
    BY <1>3 DEF FinalizePVC, TypeOK
  <2> QED BY <1>3, <2>1, <2>2 DEF FinalizePVC, TypeOK
<1>4. CASE StartSome(o)
  <2>1. PICK s \in Slot : StartPod(o, s)
    BY <1>4 DEF StartSome
  <2>2. dir' \in [Slot -> Directory]
    <3>1. [rf |-> IF dir[s].rf = 0 THEN cm.rf ELSE dir[s].rf, key |-> StartKey(o, s),
           data |-> dir[s].data] \in Directory
      BY <2>1 DEF StartPod, TypeOK, Directory, ConfigMap
    <3> QED BY <2>1, <3>1 DEF StartPod, TypeOK
  <2>3. /\ layout' \in [roles: SUBSET Id, add: SUBSET Id, drop: SUBSET Id] /\ stored' \in BOOLEAN
        /\ bucket' \in [exists: BOOLEAN, queued: BOOLEAN]
    BY <2>1, Written DEF StartPod, TypeOK
  <2>4. pvc' \in [Ord -> Slot \cup {NoPVC, Unbound}] /\ pod' \in [Ord -> {"none", "pending", "running"}]
    BY <2>1 DEF StartPod, TypeOK
  <2>5. vol' \in [Slot -> {"absent", "available", "bound", "released"}]
    BY <2>1 DEF StartPod, TypeOK
  <2> QED BY <2>1, <2>2, <2>3, <2>4, <2>5, StartKeys DEF StartPod, TypeOK
<1>5. CASE Put
  <2>1. ASSUME NEW s \in Slot PROVE dir'[s] \in Directory
    <3>1. (dir[s].data \/ \E p \in Ord : Serves(p) /\ pvc[p] = s) \in BOOLEAN
      OBVIOUS
    <3>2. \A b \in BOOLEAN : [dir[s] EXCEPT !.data = b] \in Directory
      BY DEF TypeOK, Directory
    <3>3. dir'[s] = [dir[s] EXCEPT !.data = dir[s].data \/ \E p \in Ord : Serves(p) /\ pvc[p] = s]
      BY <1>5, Zenon DEF Put
    <3> QED BY <3>1, <3>2, <3>3, Zenon
  <2>2. dir' \in [Slot -> Directory]
    BY <1>5, <2>1 DEF Put
  <2> QED BY <1>5, <2>2 DEF Put, TypeOK
<1>6. CASE Resync(o)
  <2>1. dir' \in [Slot -> Directory]
    <3>1. \A s \in Slot, b \in BOOLEAN : [dir[s] EXCEPT !.data = b] \in Directory
      BY DEF TypeOK, Directory
    <3>2. dir' = [dir EXCEPT ![pvc[o]] = [dir[pvc[o]] EXCEPT !.data = TRUE]]
      BY <1>6 DEF Resync
    <3>3. \A s \in Slot : [dir[s] EXCEPT !.data = TRUE] \in Directory
      BY <3>1, Zenon
    <3> QED BY <3>2, <3>3 DEF TypeOK
  <2> QED BY <1>6, <2>1 DEF Resync, TypeOK
<1> QED BY <1>1, <1>2, <1>3, <1>4, <1>5, <1>6

\* Administrators, nodes and pods that stop.
LEMMA TypeChange ==
    ASSUME TypeOK,
           \/ SwitchReplicas \/ \E o \in Ord : PodStop(o)
           \/ \E n \in Node : NodeDown(n) \/ Demote(n) \/ NodeJoin(n)
    PROVE  TypeOK'
<1>1. CASE SwitchReplicas
  BY <1>1, DisturbanceType DEF SwitchReplicas, TypeOK
<1>2. ASSUME NEW o \in Ord, PodStop(o) PROVE TypeOK'
  BY <1>2, DisturbanceType DEF PodStop, TypeOK
<1>3. ASSUME NEW n \in Node, NodeDown(n) PROVE TypeOK'
  <2>1. budget' \in [left: 0 .. MaxDisturb, kept: SUBSET Guarantee]
    BY <1>3, DisturbanceType DEF NodeDown
  <2> QED BY <1>3, <2>1 DEF NodeDown, TypeOK
<1>4. ASSUME NEW n \in Node, Demote(n) PROVE TypeOK'
  <2>1. budget' \in [left: 0 .. MaxDisturb, kept: SUBSET Guarantee]
    BY <1>4, DisturbanceType DEF Demote
  <2> QED BY <1>4, <2>1 DEF Demote, TypeOK
<1>5. ASSUME NEW n \in Node, NodeJoin(n) PROVE TypeOK'
  <2>1. budget' \in [left: 0 .. MaxDisturb, kept: SUBSET Guarantee]
    BY <1>5, DisturbanceType DEF NodeJoin
  <2> QED BY <1>5, <2>1 DEF NodeJoin, TypeOK
<1> QED BY <1>1, <1>2, <1>3, <1>4, <1>5

\* Every step keeps the types.
LEMMA TypeStep ==
    ASSUME TypeOK, KeysKnown, Mounted, [Next]_vars
    PROVE  TypeOK'
<1>1. CASE Reconcile
  BY <1>1, TypeReconcile, TypeMesh DEF Reconcile
<1>2. CASE ReconcileBucket \/ Stop
  BY <1>2, TypeMesh
<1>3. CASE Kubernetes \/ Put \/ \E o \in Ord : Resync(o)
  <2>1. 0 \in Ord
    BY GarageAssumption DEF Ord
  <2> QED BY <1>3, <2>1, TypeKubernetes DEF Kubernetes
<1>4. CASE Change
  BY <1>4, TypeMesh, TypeChange DEF Change
<1>5. CASE UNCHANGED vars
  BY <1>5 DEF vars, TypeOK
<1> QED BY <1>1, <1>2, <1>3, <1>4, <1>5 DEF Next

-----------------------------------------------------------------------------
(* What a step leaves alone of the data plane *)

plane == <<cm, sts, pod, pvc, vol, dir, ident, keys>>

\* Steps that read, or write what the invariant does not speak of.
Quiet ==
    \/ ReadPinned \/ DeletePVCs \/ ReconcileSystemPlacement \/ RecyclePVC
    \/ DiscoverPeers \/ StageLayout \/ ApplyLayout \/ HealthGate \/ Stop
    \/ ReconcileBucket \/ SwitchReplicas
    \/ \E n \in Node : Demote(n) \/ NodeJoin(n)
    \/ UNCHANGED vars

\* Steps that stop pods.
Halts ==
    \/ RecyclePod
    \/ \E o \in Ord : RemovePod(o) \/ PodStop(o)
    \/ \E n \in Node : NodeDown(n)

Pools == DeletePVs \/ EnsureSystemLocalPVs \/ GCSystemLocalPVs

Stores == Put \/ \E o \in Ord : Resync(o)

\* Steps that read, stage or note something leave the data plane alone.
LEMMA QuietFrame == Quiet => UNCHANGED plane
  BY Zenon DEF Quiet, plane, ReadPinned, DeletePVCs, ReconcileSystemPlacement, RecyclePVC, DiscoverPeers,
     StageLayout, ApplyLayout, HealthGate, Stop, ReconcileBucket, SwitchReplicas, Demote,
     NodeJoin, vars

\* A pod that is stopped was running or not; none starts.
LEMMA HaltFrame ==
    ASSUME TypeOK, Halts
    PROVE  /\ UNCHANGED <<cm, sts, pvc, vol, dir, ident, keys>>
           /\ \A o \in Ord : pod'[o] \in {pod[o], "none"}
  BY DEF Halts, TypeOK, RecyclePod, RemovePod, PodStop, NodeDown

\* The pool: bound volumes stay, new ones are available and of the worker's incarnation.
LEMMA PoolFrame ==
    ASSUME TypeOK, Pools
    PROVE  /\ UNCHANGED <<cm, sts, pod, pvc, dir, ident, keys>>
           /\ \A s \in Slot : vol[s] = "bound" <=> vol'[s] = "bound"
           /\ \A s \in Slot : vol'[s] # "absent" /\ vol[s] = "absent" =>
                              w.pc = "pool" /\ IncOf(s) = w.inc
<1>1. CASE DeletePVs \/ GCSystemLocalPVs
  BY <1>1 DEF DeletePVs, GCSystemLocalPVs, DeleteVolumes
<1>2. CASE EnsureSystemLocalPVs
  BY <1>2 DEF EnsureSystemLocalPVs, desiredSystemLocalPVs
<1> QED BY <1>1, <1>2 DEF Pools

\* Storing touches the copies of the object only.
LEMMA StoreFrame ==
    ASSUME TypeOK, Stores
    PROVE  /\ UNCHANGED <<cm, sts, pod, pvc, vol, ident, keys>>
           /\ \A s \in Slot : dir'[s].key = dir[s].key /\ dir'[s].rf = dir[s].rf
<1>1. CASE Put
  BY <1>1 DEF Put, TypeOK, Directory
<1>2. ASSUME NEW o \in Ord, Resync(o)
      PROVE  /\ UNCHANGED <<cm, sts, pod, pvc, vol, ident, keys>>
             /\ \A s \in Slot : dir'[s].key = dir[s].key /\ dir'[s].rf = dir[s].rf
  <2>1. dir' = [dir EXCEPT ![pvc[o]] = [dir[pvc[o]] EXCEPT !.data = TRUE]]
    BY <1>2 DEF Resync
  <2> QED BY <1>2, <2>1 DEF Resync, TypeOK, Directory
<1> QED BY <1>1, <1>2 DEF Stores

\* Every step is one of these.
LEMMA Steps ==
    ASSUME [Next]_vars
    PROVE  \/ Quiet \/ Halts \/ Pools \/ Stores
           \/ DeleteStatefulSet \/ EnsureWorkload
           \/ DeleteIdentities \/ EnsureNodeIdentities \/ ApplyConfigMap
           \/ \E o \in Ord : CreatePod(o) \/ FinalizePVC(o)
           \/ \E o \in Ord, s \in Slot : StartPod(o, s)
  BY Zenon DEF Next, Reconcile, Kubernetes, Change, StartSome, Quiet, Halts, Pools, Stores

-----------------------------------------------------------------------------
(* The parts of the invariant, step by step *)

\* No step uses a node key that Garage has not generated: a capture takes one from a
\* directory, a start takes a captured one, the directory's, or generates it.
LEMMA KeysKnownStep ==
    ASSUME TypeOK, KeysKnown, Mounted, [Next]_vars
    PROVE  KeysKnown'
<1>1. ASSUME UNCHANGED <<dir, ident, keys>> PROVE KeysKnown'
  BY <1>1 DEF KeysKnown, Known
<1>2. CASE Quiet \/ Halts \/ Pools
  BY <1>1, <1>2, QuietFrame, HaltFrame, PoolFrame DEF plane
<1>3. CASE Stores
  BY <1>3, StoreFrame DEF KeysKnown, Known
<1>4. CASE DeleteStatefulSet \/ EnsureWorkload \/ ApplyConfigMap
  BY <1>1, <1>4 DEF DeleteStatefulSet, EnsureWorkload, ApplyConfigMap
<1>5. CASE DeleteIdentities
  BY <1>5 DEF DeleteIdentities, NoIdentities, KeysKnown, Known
<1>6. CASE EnsureNodeIdentities
  <2>1. PICK got \in SUBSET runningGaragePods :
           ident' = [exists |-> TRUE,
                     key |-> [o \in Ord |-> IF o \in got THEN IdOf(o) ELSE ident.key[o]]]
    BY <1>6 DEF EnsureNodeIdentities
  <2>2. \A o \in got : pvc[o] \in Slot
    BY DEF runningGaragePods, Mounted, Bound
  <2> QED BY <1>6, <2>1, <2>2 DEF EnsureNodeIdentities, KeysKnown, Known, IdOf
<1>7. ASSUME NEW o \in Ord, CreatePod(o) \/ FinalizePVC(o) PROVE KeysKnown'
  BY <1>1, <1>7 DEF CreatePod, FinalizePVC
<1>8. ASSUME NEW o \in Ord, NEW s \in Slot, StartPod(o, s) PROVE KeysKnown'
  <2>1. PICK k : k = StartKey(o, s)
    OBVIOUS
  <2>2. k \in Id /\ k[2] <= keys'[k[1]]
    BY <1>8, <2>1, StartKeys DEF StartPod
  <2>3. \A i \in Id : i[2] <= keys[i[1]] => i[2] <= keys'[i[1]]
    <3>1. \A i \in Id : i[1] \in Ord /\ i[2] \in Nat
      BY Ids
    <3>2. keys \in [Ord -> 0 .. MaxKeys] /\ MaxKeys \in Nat
      BY GarageAssumption DEF TypeOK
    <3> QED BY <1>8, <3>1, <3>2, StartKeys
  <2>4. \A t \in Slot : dir'[t].key \in {dir[t].key, k}
    BY <1>8, <2>1 DEF StartPod, TypeOK
  <2>5. /\ \A t \in Slot : dir[t].key \in Id \cup {NoId}
        /\ \A p \in Ord : ident.key[p] \in Id \cup {NoId}
    BY DEF TypeOK, Directory, Identities
  <2>6. UNCHANGED ident
    BY <1>8 DEF StartPod
  <2> QED BY <2>2, <2>3, <2>4, <2>5, <2>6 DEF KeysKnown, Known
<1> QED BY <1>2, <1>3, <1>4, <1>5, <1>6, <1>7, <1>8, Steps

\* No step lets two claims share a volume, or takes the claim or the node key from
\* under a running replica: a claim goes when its pod has stopped (FinalizePVC), and a
\* pod starts on its own volume or on a free one.
LEMMA MountedStep ==
    ASSUME TypeOK, KeysKnown, Mounted, [Next]_vars
    PROVE  Mounted'
<1> USE DEF Mounted, Bound, Running, IdOf
<1>1. CASE Quiet
  BY <1>1, QuietFrame DEF plane
<1>2. CASE Halts
  BY <1>2, HaltFrame
<1>3. CASE Pools
  BY <1>3, PoolFrame
<1>4. CASE Stores
  BY <1>4, StoreFrame
<1>5. CASE \/ DeleteStatefulSet \/ EnsureWorkload \/ ApplyConfigMap
           \/ DeleteIdentities \/ EnsureNodeIdentities
  <2>1. UNCHANGED <<pod, pvc, vol, dir>>
    BY <1>5 DEF DeleteStatefulSet, EnsureWorkload, ApplyConfigMap, DeleteIdentities, EnsureNodeIdentities
  <2> QED BY <2>1
<1>6. ASSUME NEW o \in Ord, CreatePod(o) PROVE Mounted'
  BY <1>6, Slots DEF CreatePod, TypeOK
<1>7. ASSUME NEW o \in Ord, FinalizePVC(o) PROVE Mounted'
  <2>1. UNCHANGED <<pod, dir>> /\ ~Running(o) /\ pvc' = [pvc EXCEPT ![o] = NoPVC]
    BY <1>7 DEF FinalizePVC
  <2>2. \A t \in Slot : t # pvc[o] => vol'[t] = vol[t]
    BY <1>7 DEF FinalizePVC, TypeOK
  <2> QED BY <2>1, <2>2, Slots DEF TypeOK
<1>8. ASSUME NEW o \in Ord, NEW s \in Slot, StartPod(o, s) PROVE Mounted'
  <2>1. /\ pod' = [pod EXCEPT ![o] = "running"]
        /\ pvc' = [pvc EXCEPT ![o] = s]
        /\ vol' = [vol EXCEPT ![s] = "bound"]
        /\ dir'[s].key = StartKey(o, s)
        /\ \A t \in Slot : t # s => dir'[t] = dir[t]
    BY <1>8 DEF StartPod, TypeOK
  <2>2. StartKey(o, s) # NoId
    BY <1>8, Ids DEF StartPod
  <2>3. pvc[o] = s \/ vol[s] = "available"
    BY <1>8 DEF StartPod, Fits, Free
  <2>4. \A p \in Ord \ {o} : pvc[p] # s
    BY <2>3
  <2> QED BY <2>1, <2>2, <2>4 DEF TypeOK
<1> QED BY <1>1, <1>2, <1>3, <1>4, <1>5, <1>6, <1>7, <1>8, Steps

\* No step mixes incarnations or factors: volumes are created at the pinned
\* incarnation, and another one is pinned only when nothing is left of the old one.
LEMMA OfIncarnationStep ==
    ASSUME TypeOK, Mounted, OfIncarnation, WorkerPinned, [Next]_vars
    PROVE  OfIncarnation'
<1> USE DEF OfIncarnation, Bound, Running, Torn
<1>1. CASE Quiet
  BY <1>1, QuietFrame DEF plane
<1>2. CASE Halts
  BY <1>2, HaltFrame
<1>3. CASE Pools
  <2>1. w.pc = "pool" => cm.rf # 0 /\ w.inc = cm.inc
    BY DEF WorkerPinned, Teardown
  <2> QED BY <1>3, <2>1, PoolFrame
<1>4. CASE Stores
  BY <1>4, StoreFrame DEF Mounted
<1>5. CASE DeleteStatefulSet \/ DeleteIdentities \/ EnsureNodeIdentities
  BY <1>5 DEF DeleteStatefulSet, DeleteIdentities, EnsureNodeIdentities
<1>6. CASE EnsureWorkload
  <2>1. cm.rf # 0
    BY <1>6 DEF EnsureWorkload, WorkerPinned, Teardown
  <2> QED BY <1>6, <2>1 DEF EnsureWorkload
<1>7. CASE ApplyConfigMap
  <2>1. UNCHANGED <<sts, pod, pvc, vol, dir>> /\ cm' = [rf |-> w.rf, inc |-> w.inc] /\ w.pc = "config"
    BY <1>7 DEF ApplyConfigMap
  <2>2. w.rf # 0
    BY <2>1 DEF WorkerPinned
  <2>3. CASE w.rf = cm.rf /\ w.inc = cm.inc
    BY <2>1, <2>2, <2>3
  <2>4. CASE w.inc = cm.inc + 1 /\ Torn
    <3>1. \A o \in Ord : ~Running(o) /\ ~Bound(o)
      BY <2>4, Slots DEF Mounted
    <3>2. cm.inc \in Nat /\ \A t \in Slot : IncOf(t) \in Nat
      BY Slots DEF TypeOK, ConfigMap
    <3> QED BY <2>1, <2>2, <2>4, <3>1, <3>2
  <2> QED BY <2>1, <2>3, <2>4 DEF WorkerPinned
<1>8. ASSUME NEW o \in Ord, CreatePod(o) PROVE OfIncarnation'
  <2>1. sts # 0
    BY <1>8 DEF CreatePod, Ord
  <2> QED BY <1>8, <2>1, Slots DEF CreatePod, TypeOK
<1>9. ASSUME NEW o \in Ord, FinalizePVC(o) PROVE OfIncarnation'
  <2>1. UNCHANGED <<cm, sts, pod, dir>> /\ ~Running(o) /\ pvc' = [pvc EXCEPT ![o] = NoPVC]
    BY <1>9 DEF FinalizePVC
  <2>2. \A t \in Slot : t # pvc[o] => vol'[t] = vol[t]
    BY <1>9 DEF FinalizePVC, TypeOK
  <2> QED BY <2>1, <2>2, Slots DEF TypeOK
<1>10. ASSUME NEW o \in Ord, NEW s \in Slot, StartPod(o, s) PROVE OfIncarnation'
  <2>1. /\ UNCHANGED <<cm, sts>> /\ cm.rf # 0
        /\ pod' = [pod EXCEPT ![o] = "running"]
        /\ pvc' = [pvc EXCEPT ![o] = s]
        /\ vol' = [vol EXCEPT ![s] = "bound"]
        /\ dir'[s].rf = IF dir[s].rf = 0 THEN cm.rf ELSE dir[s].rf
        /\ \A t \in Slot : t # s => dir'[t] = dir[t]
    BY <1>10 DEF StartPod, TypeOK
  <2>2. pvc[o] = s \/ vol[s] = "available"
    BY <1>10 DEF StartPod, Fits, Free
  <2>3. IncOf(s) = cm.inc
    BY <2>2
  <2>4. dir'[s].rf = cm.rf
    BY <2>1, <2>3
  <2>5. cm.inc \in Nat
    BY DEF TypeOK, ConfigMap
  <2> QED BY <2>1, <2>3, <2>4, <2>5 DEF TypeOK, Mounted
<1> QED BY <1>1, <1>2, <1>3, <1>4, <1>5, <1>6, <1>7, <1>8, <1>9, <1>10, Steps

\* The worker goes on, with the factor and the incarnation it has.
Moves(from, to) ==
    /\ w.pc \in from /\ UNCHANGED cm
    /\ w'.pc \in to /\ w'.rf = w.rf /\ w'.inc = w.inc

\* What the worker remembers of one step does not touch the factor.
LEMMA Remembers ==
    ASSUME TypeOK, NEW from, NEW to, NEW p \in to, w.pc \in from, UNCHANGED cm,
           \/ w' = [w EXCEPT !.pc = p]
           \/ \E x : w' = [w EXCEPT !.pc = p, !.list = x]
           \/ \E x : w' = [w EXCEPT !.pc = p, !.ord = x]
           \/ \E x, y : w' = [w EXCEPT !.pc = p, !.add = x, !.drop = y]
    PROVE  Moves(from, to)
<1>1. w'.pc = p /\ w'.rf = w.rf /\ w'.inc = w.inc
  BY DEF TypeOK, Worker
<1> QED BY <1>1 DEF Moves

\* Where the worker stands, after every step of its own and of Kubernetes.
LEMMA WorkerPinnedStep ==
    ASSUME TypeOK, TypeOK', Mounted, OfIncarnation, WorkerPinned, [Next]_vars
    PROVE  WorkerPinned'
<1> USE DEF WorkerPinned, Teardown
<1>1. ASSUME w' = Idle PROVE WorkerPinned'
  BY <1>1 DEF Idle
<1>2. ASSUME UNCHANGED <<w, cm, sts, pvc, vol>> PROVE WorkerPinned'
  BY <1>2 DEF Torn
<1>3. ASSUME w.pc \notin Teardown \cup {"idle", "config"}, UNCHANGED cm,
             w'.pc \notin Teardown \cup {"idle", "config"}, w'.rf = w.rf, w'.inc = w.inc
      PROVE  WorkerPinned'
  BY <1>3
<1>4. CASE ReadPinned
  <2> DEFINE want == initialReplicationFactor(single)
             from == [Idle EXCEPT !.one = single, !.rf = want]
  <2>1. want # 0 /\ UNCHANGED <<cm, sts, pvc, vol>>
    BY <1>4, Factors DEF TypeOK, Factor, ReadPinned
  <2> HIDE DEF want
  <2>2. CASE cm.rf = 0
    <3>1. w' = [from EXCEPT !.pc = "config", !.inc = firstSystemIncarnation]
      BY <1>4, <2>1, <2>2 DEF ReadPinned, want
    <3>2. w'.pc = "config" /\ w'.rf = want /\ w'.inc = 1
      BY <3>1 DEF Idle, firstSystemIncarnation
    <3>3. cm.inc = 0 /\ Torn /\ Torn'
      BY <2>1, <2>2 DEF OfIncarnation, Torn
    <3> QED BY <2>1, <2>2, <3>2, <3>3
  <2>3. CASE cm.rf # 0 /\ cm.rf # want
    <3>1. w' = [from EXCEPT !.pc = "delSts", !.inc = cm.inc]
      BY <1>4, <2>3 DEF ReadPinned, want
    <3>2. w'.pc = "delSts" /\ w'.rf = want /\ w'.inc = cm.inc
      BY <3>1 DEF Idle
    <3> QED BY <2>1, <2>3, <3>2
  <2>4. CASE cm.rf # 0 /\ cm.rf = want
    <3>1. w' = [from EXCEPT !.pc = "config", !.inc = cm.inc]
      BY <1>4, <2>4 DEF ReadPinned, want
    <3>2. w'.pc = "config" /\ w'.rf = want /\ w'.inc = cm.inc
      BY <3>1 DEF Idle
    <3> QED BY <2>1, <2>4, <3>2
  <2> QED BY <2>2, <2>3, <2>4
<1>5. CASE DeleteStatefulSet
  BY <1>5 DEF DeleteStatefulSet, TypeOK, Worker
<1>6. CASE DeletePVCs
  <2>1. /\ UNCHANGED <<cm, sts, pvc>> /\ w.pc = "delPVCs"
        /\ w'.pc = "delIdent" /\ w'.rf = w.rf /\ w'.inc = w.inc
        /\ w'.left = (w.left \/ {o \in Ord : pvc[o] # NoPVC} # {})
    BY <1>6 DEF DeletePVCs, TypeOK, Worker
  <2> QED BY <2>1
<1>7. CASE DeleteIdentities
  <2>1. /\ UNCHANGED <<cm, sts, pvc>> /\ w.pc = "delIdent"
        /\ w'.pc = "delPVs" /\ w'.rf = w.rf /\ w'.inc = w.inc
        /\ w'.left = (w.left \/ ident.exists)
    BY <1>7 DEF DeleteIdentities, TypeOK, Worker
  <2> QED BY <2>1
<1>8. CASE DeletePVs
  <2> DEFINE there == {s \in Slot : vol[s] # "absent"}
  <2>1. CASE w.left \/ there # {}
    BY <1>1, <1>8, <2>1 DEF DeletePVs, Return
  <2>2. CASE ~w.left /\ there = {}
    <3>1. /\ UNCHANGED <<cm, sts, pvc>> /\ w.pc = "delPVs"
          /\ w' = [w EXCEPT !.pc = "config", !.inc = @ + 1]
          /\ DeleteVolumes({})
      BY <1>8, <2>2 DEF DeletePVs
    <3>2. w'.pc = "config" /\ w'.rf = w.rf /\ w'.inc = w.inc + 1
      BY <3>1 DEF TypeOK, Worker
    <3>3. \A s \in Slot : vol'[s] = "absent"
      BY <2>2, <3>1 DEF DeleteVolumes
    <3> QED BY <2>2, <3>1, <3>2, <3>3 DEF Torn
  <2> QED BY <2>1, <2>2
<1>9. CASE ApplyConfigMap
  <2>1. /\ w.pc = "config" /\ cm' = [rf |-> w.rf, inc |-> w.inc]
        /\ w'.pc = "pool" /\ w'.rf = w.rf /\ w'.inc = w.inc
    BY <1>9 DEF ApplyConfigMap, Proceed, Goto, TypeOK, Worker
  <2> QED BY <2>1
<1>10. CASE EnsureSystemLocalPVs \/ GCSystemLocalPVs
  <2>1. /\ w.pc \in {"pool", "gc"} /\ UNCHANGED cm
        /\ \/ \E x : w' = [w EXCEPT !.pc = "gc", !.list = x]
           \/ w' = [w EXCEPT !.pc = "identities"]
           \/ \E x : w' = [w EXCEPT !.pc = "identities", !.list = x]
    BY <1>10, Zenon DEF EnsureSystemLocalPVs, GCSystemLocalPVs
  <2>2. Moves({"pool", "gc"}, {"gc", "identities"})
    BY <2>1, Remembers, Zenon
  <2> QED BY <1>3, <2>2 DEF Moves
<1>11. CASE EnsureNodeIdentities \/ ReconcileSystemPlacement
  <2>1. /\ w.pc \in {"identities", "placement"} /\ UNCHANGED cm
        /\ \/ w' = [w EXCEPT !.pc = "placement"]
           \/ \E x : w' = [w EXCEPT !.pc = "recyclePVC", !.ord = x]
           \/ w' = [w EXCEPT !.pc = "workload"]
    BY <1>11, Zenon DEF EnsureNodeIdentities, ReconcileSystemPlacement, Proceed, Goto
  <2>2. Moves({"identities", "placement"}, {"placement", "recyclePVC", "workload"})
    BY <2>1, Remembers, Zenon
  <2> QED BY <1>3, <2>2 DEF Moves
<1>12. CASE RecyclePVC \/ RecyclePod \/ EnsureWorkload
  <2>1. /\ w.pc \in {"recyclePVC", "recyclePod", "workload"} /\ UNCHANGED cm
        /\ \/ w' = Idle
           \/ w' = [w EXCEPT !.pc = "recyclePod"]
           \/ w' = [w EXCEPT !.pc = "mesh"]
    BY <1>12, Zenon DEF RecyclePVC, RecyclePod, EnsureWorkload, Return, Proceed, Goto
  <2>2. w' = Idle \/ Moves({"recyclePVC", "recyclePod", "workload"}, {"recyclePod", "mesh"})
    BY <2>1, Remembers, Zenon
  <2> QED BY <1>1, <1>3, <2>2 DEF Moves
<1>13. CASE DiscoverPeers
  <2>1. \/ w' = Idle
        \/ w' = [w EXCEPT !.pc = "health"]
        \/ \E S, T : w' = [w EXCEPT !.pc = "stage", !.add = S, !.drop = T]
    BY <1>13, Zenon DEF DiscoverPeers, Return, Proceed, Goto
  <2>2. w.pc = "mesh" /\ UNCHANGED cm
    BY <1>13 DEF DiscoverPeers
  <2>3. w' = Idle \/ Moves({"mesh"}, {"health", "stage"})
    <3>1. w.pc \in {"mesh"} /\ "stage" \in {"health", "stage"} /\ "health" \in {"health", "stage"}
      BY <2>2
    <3>2. CASE w' = [w EXCEPT !.pc = "health"]
      BY <2>2, <3>1, <3>2, Remembers, Zenon
    <3>3. CASE \E S, T : w' = [w EXCEPT !.pc = "stage", !.add = S, !.drop = T]
      BY <2>2, <3>1, <3>3, Remembers, Zenon
    <3> QED BY <2>1, <3>2, <3>3
  <2> QED BY <1>1, <1>3, <2>3 DEF Moves
<1>14. CASE StageLayout \/ ApplyLayout
  <2>1. /\ w.pc \in {"stage", "apply"} /\ UNCHANGED cm
        /\ \/ w' = Idle
           \/ w' = [w EXCEPT !.pc = "apply"]
           \/ w' = [w EXCEPT !.pc = "health"]
    BY <1>14, Zenon DEF StageLayout, ApplyLayout, Return, Proceed, Goto
  <2>2. w' = Idle \/ Moves({"stage", "apply"}, {"apply", "health"})
    BY <2>1, Remembers, Zenon
  <2> QED BY <1>1, <1>3, <2>2 DEF Moves
<1>15. CASE HealthGate \/ Stop
  BY <1>1, <1>15 DEF HealthGate, Stop, Return
<1>16. CASE \/ ReconcileBucket \/ Put \/ SwitchReplicas
            \/ \E o \in Ord : Resync(o) \/ RemovePod(o) \/ PodStop(o)
            \/ \E n \in Node : NodeDown(n) \/ Demote(n) \/ NodeJoin(n)
            \/ UNCHANGED vars
  BY <1>2, <1>16, Zenon DEF ReconcileBucket, Put, SwitchReplicas, Resync, RemovePod, PodStop, NodeDown, Demote, NodeJoin, vars
<1>17. ASSUME NEW o \in Ord, CreatePod(o) PROVE WorkerPinned'
  <2>1. UNCHANGED <<w, cm, sts, vol>> /\ sts # 0
    BY <1>17 DEF CreatePod, Ord, TypeOK
  <2>2. \A p \in Ord : pvc[p] = NoPVC => p = o \/ pvc'[p] = NoPVC
    BY <1>17 DEF CreatePod, TypeOK
  <2>3. ~Torn
    BY <2>1 DEF Torn
  <2> QED BY <2>1, <2>3
<1>18. ASSUME NEW o \in Ord, FinalizePVC(o) PROVE WorkerPinned'
  <2>1. UNCHANGED <<w, cm, sts>>
    BY <1>18 DEF FinalizePVC
  <2>2. \A p \in Ord : pvc[p] = NoPVC => pvc'[p] = NoPVC
    BY <1>18 DEF FinalizePVC, TypeOK
  <2>3. Torn => Torn'
    <3>1. SUFFICES ASSUME Torn PROVE vol' = vol
      BY <2>1, <2>2 DEF Torn
    <3> QED BY <1>18, <3>1, Slots DEF FinalizePVC, Bound, Torn
  <2> QED BY <2>1, <2>2, <2>3
<1>19. ASSUME NEW o \in Ord, NEW s \in Slot, StartPod(o, s) PROVE WorkerPinned'
  <2>1. UNCHANGED <<w, cm, sts>>
    BY <1>19 DEF StartPod
  <2>2. pvc[o] # NoPVC
    BY <1>19, Slots DEF StartPod, Fits
  <2> QED BY <2>1, <2>2 DEF Torn
<1> QED BY <1>4, <1>5, <1>6, <1>7, <1>8, <1>9, <1>10, <1>11, <1>12, <1>13, <1>14, <1>15, <1>16,
       <1>17, <1>18, <1>19, Zenon DEF Next, Reconcile, Kubernetes, Change, StartSome

\* Every step keeps the invariant.
LEMMA GroupInvStep == GroupInv /\ [Next]_vars => GroupInv'
<1> SUFFICES ASSUME GroupInv, [Next]_vars PROVE GroupInv'
  OBVIOUS
<1>1. TypeOK /\ KeysKnown /\ Mounted /\ OfIncarnation /\ WorkerPinned
  BY DEF GroupInv
<1>2. TypeOK'
  BY <1>1, TypeStep
<1>3. KeysKnown'
  BY <1>1, KeysKnownStep
<1>4. Mounted'
  BY <1>1, MountedStep
<1>5. OfIncarnation'
  BY <1>1, OfIncarnationStep
<1>6. WorkerPinned'
  BY <1>1, <1>2, WorkerPinnedStep
<1> QED BY <1>2, <1>3, <1>4, <1>5, <1>6 DEF GroupInv

-----------------------------------------------------------------------------
(* The theorems *)

\* The pinned state, the volumes, the replicas, the layout and the worker keep their
\* types, whatever stops, moves or is switched.
THEOREM GarageTypeCorrect == Spec => []TypeOK
<1>1. GroupInv => TypeOK
  BY DEF GroupInv
<1> QED BY InitInv, GroupInvStep, <1>1, PTL DEF Spec

\* A captured identity is the one the replica runs under: no step starts a replica
\* with another key, captures another key, or moves a claim under a running replica.
LEMMA RejoinsStep ==
    ASSUME GroupInv, RejoinsAsItself, [Next]_vars
    PROVE  RejoinsAsItself'
<1> USE DEF RejoinsAsItself, Running, IdOf
<1>0. TypeOK /\ KeysKnown /\ Mounted
  BY DEF GroupInv
<1>1. CASE Quiet
  BY <1>1, QuietFrame DEF plane
<1>2. CASE Halts
  BY <1>0, <1>2, HaltFrame
<1>3. CASE Pools
  BY <1>0, <1>3, PoolFrame
<1>4. CASE Stores
  BY <1>0, <1>4, StoreFrame DEF Mounted, Bound
<1>5. CASE DeleteStatefulSet \/ EnsureWorkload \/ ApplyConfigMap
  BY <1>5 DEF DeleteStatefulSet, EnsureWorkload, ApplyConfigMap
<1>6. CASE DeleteIdentities
  BY <1>6 DEF DeleteIdentities, NoIdentities
<1>7. CASE EnsureNodeIdentities
  <2>1. PICK got \in SUBSET {o \in runningGaragePods : ident.key[o] = NoId} :
           ident' = [exists |-> TRUE,
                     key |-> [o \in Ord |-> IF o \in got THEN IdOf(o) ELSE ident.key[o]]]
    BY <1>7 DEF EnsureNodeIdentities
  <2> QED BY <1>7, <2>1 DEF EnsureNodeIdentities
<1>8. ASSUME NEW o \in Ord, CreatePod(o) \/ FinalizePVC(o) PROVE RejoinsAsItself'
  BY <1>0, <1>8 DEF CreatePod, FinalizePVC, TypeOK
<1>9. ASSUME NEW o \in Ord, NEW s \in Slot, StartPod(o, s) PROVE RejoinsAsItself'
  <2>1. /\ UNCHANGED ident
        /\ pod' = [pod EXCEPT ![o] = "running"]
        /\ pvc' = [pvc EXCEPT ![o] = s]
        /\ dir'[s].key = StartKey(o, s)
        /\ \A t \in Slot : t # s => dir'[t] = dir[t]
    BY <1>0, <1>9 DEF StartPod, TypeOK
  <2>2. ident.key[o] # NoId => StartKey(o, s) = ident.key[o]
    BY <1>0, <1>9, StartKeyCases DEF StartPod
  <2>3. \A p \in Ord \ {o} : pvc[p] # s
    <3>1. pvc[o] = s \/ vol[s] = "available"
      BY <1>9 DEF StartPod, Fits, Free
    <3> QED BY <1>0, <3>1 DEF Mounted, Bound
  <2> QED BY <1>0, <2>1, <2>2, <2>3 DEF TypeOK, Mounted, Bound
<1> QED BY <1>1, <1>2, <1>3, <1>4, <1>5, <1>6, <1>7, <1>8, <1>9, Steps

\* A replica whose identity was captured (identity.go) runs under it wherever it is
\* moved and whatever it finds there, for every history of moves and restarts.
THEOREM IdentityRejoins == Spec => []RejoinsAsItself
<1>1. Init => RejoinsAsItself
  BY DEF Init, RejoinsAsItself, Running
<1>2. GroupInv /\ RejoinsAsItself /\ [Next]_vars => (GroupInv /\ RejoinsAsItself)'
  BY GroupInvStep, RejoinsStep
<1> QED BY InitInv, <1>1, <1>2, PTL DEF Spec

-----------------------------------------------------------------------------
(* The refinement of ReplicaGroup *)

\* A replica's part in the group.
Part(o) == IF Running(o) THEN [gen |-> IncOf(pvc[o]), factor |-> dir[pvc[o]].rf]
                         ELSE [gen |-> 0, factor |-> 0]

\* Whoever is in the group is in it with the pinned generation and factor.
LEMMA Parts ==
    ASSUME GroupInv, NEW o \in Ord
    PROVE  Part(o) = IF Running(o) THEN [gen |-> cm.inc, factor |-> cm.rf]
                                   ELSE [gen |-> 0, factor |-> 0]
  BY DEF GroupInv, Mounted, OfIncarnation, Part

\* A step of the driver, Kubernetes or the administrators forms the group again, joins
\* one replica, or lets replicas leave.
LEMMA GroupStep ==
    ASSUME GroupInv, GroupInv', [Next]_vars
    PROVE  [Group!Next]_(Group!vars)
<1>0. TypeOK /\ Mounted /\ WorkerPinned
  BY DEF GroupInv
<1>1. /\ \A o \in Ord : Part(o) = IF Running(o) THEN [gen |-> cm.inc, factor |-> cm.rf]
                                                ELSE [gen |-> 0, factor |-> 0]
      /\ \A o \in Ord : Part(o)' = IF Running(o)' THEN [gen |-> cm'.inc, factor |-> cm'.rf]
                                                  ELSE [gen |-> 0, factor |-> 0]
  <2>1. \A o \in Ord : (Part(o) = IF Running(o) THEN [gen |-> cm.inc, factor |-> cm.rf]
                                                ELSE [gen |-> 0, factor |-> 0])'
    BY DEF GroupInv, Mounted, OfIncarnation, Part
  <2> QED BY <2>1, Parts
<1>2. ASSUME UNCHANGED cm, \A o \in Ord : pod'[o] = "running" => pod[o] = "running"
      PROVE  Group!Leave
  <2>1. \A o \in Ord : Part(o)' \in {Part(o), [gen |-> 0, factor |-> 0]}
    BY <1>1, <1>2 DEF Running
  <2> QED BY <1>2, <2>1 DEF Group!Leave, Group!Out, Part
<1>3. CASE Quiet
  BY <1>2, <1>3, QuietFrame DEF plane, Group!Next
<1>4. CASE Halts
  BY <1>0, <1>2, <1>4, HaltFrame DEF Group!Next
<1>5. CASE Pools
  BY <1>0, <1>2, <1>5, PoolFrame DEF Group!Next
<1>6. CASE Stores
  BY <1>0, <1>2, <1>6, StoreFrame DEF Group!Next
<1>7. CASE DeleteStatefulSet \/ EnsureWorkload \/ DeleteIdentities \/ EnsureNodeIdentities
  BY <1>2, <1>7 DEF DeleteStatefulSet, EnsureWorkload, DeleteIdentities, EnsureNodeIdentities, Group!Next
<1>8. ASSUME NEW o \in Ord, CreatePod(o) \/ FinalizePVC(o) PROVE Group!Next
  <2>1. UNCHANGED cm /\ \A p \in Ord : pod'[p] = "running" => pod[p] = "running"
    BY <1>0, <1>8 DEF CreatePod, FinalizePVC, TypeOK
  <2> QED BY <1>2, <2>1 DEF Group!Next
<1>9. CASE ApplyConfigMap
  <2>1. UNCHANGED <<pod, pvc, dir>> /\ cm' = [rf |-> w.rf, inc |-> w.inc] /\ w.pc = "config"
    BY <1>9 DEF ApplyConfigMap
  <2>2. CASE w.rf = cm.rf /\ w.inc = cm.inc
    <3>1. UNCHANGED cm
      BY <1>0, <2>1, <2>2 DEF TypeOK, ConfigMap
    <3> QED BY <1>2, <2>1, <3>1 DEF Group!Next
  <2>3. CASE w.rf # cm.rf /\ w.inc = cm.inc + 1 /\ Torn
    <3>1. \A o \in Ord : ~Running(o)
      BY <1>0, <2>3, Slots DEF Mounted, Bound, Torn
    <3>2. w.rf \in Factor
      BY <1>0, <2>1 DEF WorkerPinned, TypeOK, Worker
    <3>3. \A o \in Ord : Part(o) = [gen |-> 0, factor |-> 0] /\ Part(o)' = Part(o)
      BY <2>1, <3>1 DEF Part, Running
    <3> QED BY <2>1, <2>3, <3>2, <3>3 DEF Group!Next, Group!Form, Group!Out, Part
  <2> QED BY <1>0, <2>1, <2>2, <2>3 DEF WorkerPinned
<1>10. ASSUME NEW o \in Ord, NEW s \in Slot, StartPod(o, s) PROVE Group!Next
  <2>1. UNCHANGED cm /\ cm.rf # 0 /\ pod' = [pod EXCEPT ![o] = "running"]
    BY <1>10 DEF StartPod
  <2>2. Part(o)' = [gen |-> cm.inc, factor |-> cm.rf]
    BY <1>0, <1>1, <2>1 DEF Running, TypeOK
  <2>3. \A p \in Ord \ {o} : Part(p)' = Part(p)
    BY <1>0, <1>1, <2>1 DEF Running, TypeOK
  <2> QED BY <2>1, <2>2, <2>3 DEF Group!Next, Group!Join, Part
<1> QED BY <1>3, <1>4, <1>5, <1>6, <1>7, <1>8, <1>9, <1>10, Steps

\* The driver implements the replica group: for any number of masters, replicas,
\* incarnations and disturbances, the factor changes only with a new incarnation and
\* when no replica runs, and a replica only ever serves data of the pinned
\* incarnation and factor (garage.go:115-131, recreate.go).
THEOREM GarageImplementsReplicaGroup == Spec => ImplementsReplicaGroup
<1>1. Init => Group!Init
  BY DEF Init, Group!Init, Group!Out, NoConfigMap, Running
<1>2. GroupInv /\ GroupInv' /\ [Next]_vars => [Group!Next]_(Group!vars)
  BY GroupStep
<1> QED BY InitInv, GroupInvStep, <1>1, <1>2, PTL DEF Spec, ImplementsReplicaGroup, Group!Spec

-----------------------------------------------------------------------------
(* Whole stores *)

\* The worker knows the replica count it works for, a store of one replica has only
\* the first ordinal, and replicas run on nodes that do.
Sized ==
    /\ w.pc # "idle" => w.rf = initialReplicationFactor(w.one)
    /\ w.pc \in {"recyclePVC", "recyclePod"} => ~w.one
    /\ cm.rf = 1 => sts <= 1 /\ \A o \in Ord : pvc[o] # NoPVC => o = 0
    /\ \A o \in Ord : Running(o) => NodeOf(pvc[o]) \in up

\* Once a replica of the pinned incarnation has started, the layout is empty or has
\* as many roles as the replication factor: Garage refuses fewer, and the layout of an
\* earlier incarnation went with the directories.
Quorate ==
    (\E s \in Slot : IncOf(s) = cm.inc /\ dir[s].rf # 0) =>
        layout.roles = {} \/ Cardinality(layout.roles) >= cm.rf

\* With one replica the factor is one, with up to three it is their number.
LEMMA Sizes ==
    /\ initialReplicationFactor(TRUE) = 1 /\ systemReplicas(TRUE) = 1
    /\ initialReplicationFactor(FALSE) \in Nat \ {0, 1} /\ systemReplicas(FALSE) = HA
    /\ HA <= 3 => initialReplicationFactor(FALSE) = HA
<1>1. HA \in Nat /\ HA > 1
  BY GarageAssumption
<1>2. replicationFactor("None") = 1 /\ replicationFactor("") = 3
  BY DEF replicationFactor
<1>3. systemReplicas(TRUE) = 1 /\ systemReplicas(FALSE) = HA
  BY DEF systemReplicas
<1>4. initialReplicationFactor(TRUE) = clampRF(1, 1)
  BY <1>2, <1>3 DEF initialReplicationFactor
<1>5. initialReplicationFactor(FALSE) = clampRF(3, HA)
  BY <1>2, <1>3 DEF initialReplicationFactor
<1>6. clampRF(1, 1) = 1
  BY DEF clampRF
<1>7. clampRF(3, HA) \in Nat \ {0, 1} /\ (HA <= 3 => clampRF(3, HA) = HA)
  BY <1>1 DEF clampRF
<1> QED BY <1>1, <1>3, <1>4, <1>5, <1>6, <1>7

\* The ordinals are as many as the replicas of a store that has more than one.
LEMMA Ordinals == IsFiniteSet(Ord) /\ Cardinality(Ord) = HA /\ 0 \in Ord
  BY FS_Interval, GarageAssumption DEF Ord

\* If Garage is healthy every wanted replica runs with a role: the roles are as many as
\* the replicas, and each is that of another.
LEMMA Whole ==
    ASSUME GroupInv, Sized, Quorate, HA <= 3, Healthy,
           NEW one \in BOOLEAN, cm.rf = initialReplicationFactor(one)
    PROVE  \A o \in 0 .. systemReplicas(one) - 1 : Serves(o)
<1> DEFINE Good(o, i) == Running(o) /\ IdOf(o) = i
<1>1. layout.roles # {} /\ \A i \in layout.roles : \E o \in Ord : Good(o, i)
  BY DEF Healthy
<1>2. PICK i0 \in layout.roles, o0 \in Ord : Good(o0, i0)
  BY <1>1
<1>3. Cardinality(layout.roles) >= cm.rf
  <2>1. pvc[o0] \in Slot /\ IncOf(pvc[o0]) = cm.inc /\ dir[pvc[o0]].rf # 0
    BY <1>2 DEF GroupInv, Mounted, OfIncarnation, Bound
  <2> QED BY <1>1, <2>1 DEF Quorate
<1>4. CASE one
  <2>1. cm.rf = 1 /\ systemReplicas(one) = 1
    BY <1>4, Sizes
  <2>2. o0 = 0
    BY <1>2, <2>1, Slots DEF Sized, GroupInv, Mounted, Bound
  <2>3. \A o \in 0 .. systemReplicas(one) - 1 : o = o0
    BY <2>1, <2>2
  <2> QED BY <1>2, <2>3 DEF Serves
<1>5. CASE ~one
  <2>1. cm.rf = HA /\ systemReplicas(one) = HA
    BY <1>5, Sizes
  <2> DEFINE f == [i \in layout.roles |-> CHOOSE o \in Ord : Good(o, i)]
  <2>2. \A i \in layout.roles : f[i] \in Ord /\ Good(f[i], i)
    BY <1>1
  <2> HIDE DEF f
  <2>3. f \in Injection(layout.roles, Ord)
    <3>1. f \in [layout.roles -> Ord]
      BY <2>2 DEF f
    <3>2. ASSUME NEW i \in layout.roles, NEW j \in layout.roles, f[i] = f[j] PROVE i = j
      BY <2>2, <3>2
    <3> QED BY <3>1, <3>2 DEF Injection, IsInjective
  <2>4. f \in Surjection(layout.roles, Ord)
    <3>1. /\ IsFiniteSet(layout.roles)
          /\ Cardinality(layout.roles) <= Cardinality(Ord)
          /\ Cardinality(layout.roles) = Cardinality(Ord) <=> f \in Surjection(layout.roles, Ord)
      BY <2>3, Ordinals, FS_Injection
    <3>2. Cardinality(layout.roles) \in Nat
      BY <3>1, FS_CardinalityType
    <3> QED BY <1>3, <2>1, <3>1, <3>2, Ordinals, GarageAssumption
  <2>5. \A o \in Ord : \E i \in layout.roles : Good(o, i)
    BY <2>2, <2>4 DEF Surjection
  <2> QED BY <2>1, <2>5 DEF Serves, Ord
<1> QED BY <1>4, <1>5

\* The worker goes on with the store it read.
GoesOn(from, to) == /\ w.pc \in from /\ w'.pc \in to
                    /\ w'.one = w.one /\ w'.rf = w.rf

Recycling == {"recyclePVC", "recyclePod"}

\* A step that writes a label and what goes with it, but not the store it read.
LEMMA Continues ==
    ASSUME TypeOK, NEW from, NEW to, NEW p \in to, w.pc \in from,
           \/ w' = [w EXCEPT !.pc = p]
           \/ \E x : w' = [w EXCEPT !.pc = p, !.left = x]
           \/ \E x : w' = [w EXCEPT !.pc = p, !.inc = x]
           \/ \E x : w' = [w EXCEPT !.pc = p, !.list = x]
           \/ \E x : w' = [w EXCEPT !.pc = p, !.ord = x]
           \/ \E x, y : w' = [w EXCEPT !.pc = p, !.add = x, !.drop = y]
    PROVE  GoesOn(from, to)
<1>1. w'.pc = p /\ w'.one = w.one /\ w'.rf = w.rf
  BY DEF TypeOK, Worker
<1> QED BY <1>1 DEF GoesOn

\* Steps that leave claims, copies and masters alone, and move no replica.
Plain ==
    \/ ReadPinned
    \/ DeleteStatefulSet \/ DeleteIdentities \/ DeletePVs
    \/ ApplyConfigMap \/ EnsureSystemLocalPVs \/ GCSystemLocalPVs
    \/ EnsureNodeIdentities \/ EnsureWorkload
    \/ DiscoverPeers \/ StageLayout \/ ApplyLayout \/ HealthGate
    \/ ReconcileBucket
    \/ \E o \in Ord : RemovePod(o) \/ PodStop(o)
    \/ UNCHANGED vars

\* Every step is one of these.
LEMMA ObjectSteps ==
    ASSUME [Next]_vars
    PROVE  \/ Plain \/ SwitchReplicas \/ DeletePVCs
           \/ ReconcileSystemPlacement \/ RecyclePVC \/ RecyclePod \/ Stop
           \/ \E o \in Ord : CreatePod(o) \/ FinalizePVC(o) \/ Resync(o)
           \/ \E o \in Ord, s \in Slot : StartPod(o, s)
           \/ Put
           \/ \E n \in Node : NodeDown(n) \/ Demote(n) \/ NodeJoin(n)
  BY Zenon DEF Next, Reconcile, Kubernetes, Change, StartSome, Plain

\* How a reconcile goes on in a plain step: it starts, ends, tears down or works.
LEMMA PlainWorker ==
    ASSUME TypeOK, Plain
    PROVE  \/ ReadPinned
           \/ UNCHANGED w
           \/ w' = Idle /\ w.pc \notin Recycling
           \/ GoesOn(Teardown, Teardown \cup {"config"})
           \/ GoesOn(PC \ (Teardown \cup Recycling \cup {"idle"}), PC \ (Teardown \cup Recycling \cup {"idle"}))
<1> DEFINE T == Teardown
           C == Teardown \cup {"config"}
           R == PC \ (Teardown \cup Recycling \cup {"idle"})
<1>1. /\ {"delSts", "delPVCs", "delIdent", "delPVs"} \subseteq T
      /\ {"delSts", "delPVCs", "delIdent", "delPVs", "config"} \subseteq C
      /\ {"config", "pool", "gc", "identities", "placement", "workload", "mesh", "stage", "apply", "health"} \subseteq R
  BY DEF Teardown, PC, Recycling
<1> HIDE DEF T, C, R
<1>2. CASE DeleteStatefulSet \/ DeleteIdentities \/ DeletePVs
  <2>1. /\ w.pc \in {"delSts", "delPVCs", "delIdent", "delPVs"}
        /\ \/ w' = Idle
           \/ \E x : w' = [w EXCEPT !.pc = "delPVCs", !.left = x]
           \/ \E x : w' = [w EXCEPT !.pc = "delPVs", !.left = x]
           \/ \E x : w' = [w EXCEPT !.pc = "config", !.inc = x]
    BY <1>2, Zenon DEF DeleteStatefulSet, DeleteIdentities, DeletePVs, Return
  <2>2. w' = Idle \/ GoesOn(T, C)
    BY <1>1, <2>1, Continues
  <2>3. w.pc \notin Recycling
    BY <2>1 DEF Recycling
  <2> QED BY <2>2, <2>3 DEF T, C
<1>3. CASE ApplyConfigMap \/ EnsureSystemLocalPVs \/ GCSystemLocalPVs \/ EnsureNodeIdentities
  <2>1. /\ w.pc \in {"config", "pool", "gc", "identities"}
        /\ \/ w' = [w EXCEPT !.pc = "pool"]
           \/ \E x : w' = [w EXCEPT !.pc = "gc", !.list = x]
           \/ w' = [w EXCEPT !.pc = "identities"]
           \/ \E x : w' = [w EXCEPT !.pc = "identities", !.list = x]
           \/ w' = [w EXCEPT !.pc = "placement"]
    BY <1>3, Zenon DEF ApplyConfigMap, EnsureSystemLocalPVs, GCSystemLocalPVs, EnsureNodeIdentities, Proceed, Goto
  <2>2. GoesOn(R, R)
    BY <1>1, <2>1, Continues
  <2> QED BY <2>2 DEF R
<1>4. CASE EnsureWorkload \/ StageLayout \/ ApplyLayout
  <2>1. /\ w.pc \in {"workload", "stage", "apply"}
        /\ \/ w' = Idle
           \/ w' = [w EXCEPT !.pc = "mesh"]
           \/ w' = [w EXCEPT !.pc = "apply"]
           \/ w' = [w EXCEPT !.pc = "health"]
    BY <1>4, Zenon DEF EnsureWorkload, StageLayout, ApplyLayout, Return, Proceed, Goto
  <2>2. w' = Idle \/ GoesOn(R, R)
    BY <1>1, <2>1, Continues
  <2>3. w.pc \notin Recycling
    BY <2>1 DEF Recycling
  <2> QED BY <2>2, <2>3 DEF R
<1>5. CASE DiscoverPeers
  <2>1. /\ w.pc = "mesh"
        /\ \/ w' = Idle
           \/ w' = [w EXCEPT !.pc = "health"]
           \/ \E x, y : w' = [w EXCEPT !.pc = "stage", !.add = x, !.drop = y]
    BY <1>5, Zenon DEF DiscoverPeers, Return, Proceed, Goto
  <2>2. CASE \E x, y : w' = [w EXCEPT !.pc = "stage", !.add = x, !.drop = y]
    <3>1. "stage" \in R /\ w.pc \in R
      BY <1>1, <2>1
    <3>2. GoesOn(R, R)
      BY <2>2, <3>1, Continues, Zenon
    <3> QED BY <3>2 DEF R
  <2>3. CASE w' = [w EXCEPT !.pc = "health"]
    <3>1. GoesOn(R, R)
      BY <1>1, <2>1, <2>3, Continues
    <3> QED BY <3>1 DEF R
  <2> QED BY <2>1, <2>2, <2>3 DEF Recycling
<1>6. CASE HealthGate
  BY <1>6 DEF HealthGate, Return, Recycling
<1>7. CASE ReconcileBucket \/ UNCHANGED vars \/ \E o \in Ord : RemovePod(o) \/ PodStop(o)
  BY <1>7, Zenon DEF ReconcileBucket, RemovePod, PodStop, vars
<1> QED BY <1>2, <1>3, <1>4, <1>5, <1>6, <1>7, Zenon DEF Plain

\* How a reconcile goes on, apart from its start: it ends, tears down, works, or moves
\* a replica.
LEMMA WorkerSteps ==
    ASSUME TypeOK, [Next]_vars
    PROVE  \/ ReadPinned
           \/ UNCHANGED w
           \/ w' = Idle
           \/ GoesOn(Teardown, Teardown \cup {"config"})
           \/ GoesOn(PC \ (Teardown \cup Recycling \cup {"idle"}), PC \ (Teardown \cup Recycling \cup {"idle"}))
           \/ ReconcileSystemPlacement
           \/ RecyclePVC
<1>1. CASE Plain
  BY <1>1, PlainWorker
<1>2. CASE DeletePVCs
  <2>1. /\ w.pc \in Teardown /\ "delIdent" \in Teardown \cup {"config"}
        /\ \E x : w' = [w EXCEPT !.pc = "delIdent", !.left = x]
    BY <1>2 DEF DeletePVCs, Teardown
  <2> QED BY <2>1, Continues
<1>3. CASE RecyclePod \/ Stop
  BY <1>3 DEF RecyclePod, Stop, Return
<1>4. CASE \/ SwitchReplicas \/ Put
           \/ \E o \in Ord : CreatePod(o) \/ FinalizePVC(o) \/ Resync(o)
           \/ \E o \in Ord, s \in Slot : StartPod(o, s)
           \/ \E n \in Node : NodeDown(n) \/ Demote(n) \/ NodeJoin(n)
  BY <1>4, Zenon DEF Put, SwitchReplicas, CreatePod, FinalizePVC, StartPod, Resync, NodeDown, Demote, NodeJoin
<1> QED BY <1>1, <1>2, <1>3, <1>4, ObjectSteps

\* What a reconcile starts with.
LEMMA StartsWith ==
    ASSUME TypeOK, ReadPinned
    PROVE  /\ w'.one = single /\ w'.rf = initialReplicationFactor(single)
           /\ w'.pc \in {"config", "delSts"}
           /\ w'.pc = "delSts" => cm.rf \notin {0, initialReplicationFactor(single)}
<1> DEFINE want == initialReplicationFactor(single)
           from == [Idle EXCEPT !.one = single, !.rf = want]
<1>0. want # 0
  BY Factors DEF TypeOK
<1> HIDE DEF want
<1>1. CASE cm.rf = 0
  <2>1. w' = [from EXCEPT !.pc = "config", !.inc = firstSystemIncarnation]
    BY <1>0, <1>1 DEF ReadPinned, want
  <2>2. w'.pc = "config" /\ w'.one = single /\ w'.rf = want
    BY <2>1 DEF Idle
  <2> QED BY <2>2 DEF want
<1>2. CASE cm.rf # 0 /\ cm.rf # want
  <2>1. w' = [from EXCEPT !.pc = "delSts", !.inc = cm.inc]
    BY <1>2 DEF ReadPinned, want
  <2>2. w'.pc = "delSts" /\ w'.one = single /\ w'.rf = want
    BY <2>1 DEF Idle
  <2> QED BY <1>2, <2>2 DEF want
<1>3. CASE cm.rf # 0 /\ cm.rf = want
  <2>1. w' = [from EXCEPT !.pc = "config", !.inc = cm.inc]
    BY <1>3 DEF ReadPinned, want
  <2> QED BY <2>1 DEF Idle, want
<1> QED BY <1>1, <1>2, <1>3

\* How a move starts and goes on.
LEMMA MoveSteps ==
    ASSUME TypeOK, ReconcileSystemPlacement \/ RecyclePVC
    PROVE  /\ w.pc # "idle" /\ w'.one = w.one /\ w'.rf = w.rf
           /\ w'.pc \notin Teardown
           /\ w'.pc \in Recycling => ~w.one
              \/ w.pc \in Recycling
           /\ UNCHANGED <<cm, sts, pod, pvc, vol, dir>>
  BY DEF ReconcileSystemPlacement, RecyclePVC, Goto, TypeOK, Worker, Recycling, Teardown

\* Masters and nodes come and go by themselves.
LEMMA NodeSteps ==
    ASSUME [Next]_vars
    PROVE  \/ UNCHANGED <<master, up>>
           \/ \E n \in Node : NodeDown(n) \/ Demote(n) \/ NodeJoin(n)
  BY Zenon DEF Next, Reconcile, Kubernetes, Change, StartSome, ReadPinned, DeleteStatefulSet, DeletePVCs,
     DeleteIdentities, DeletePVs, ApplyConfigMap, EnsureSystemLocalPVs, GCSystemLocalPVs,
     EnsureNodeIdentities, ReconcileSystemPlacement, RecyclePVC, RecyclePod, EnsureWorkload,
     DiscoverPeers, StageLayout, ApplyLayout, HealthGate, Stop, ReconcileBucket, CreatePod, RemovePod,
     FinalizePVC, StartPod, PodStop, Put, Resync, SwitchReplicas, vars

\* A replica that runs after a step ran before on the same claim, or has just started.
LEMMA RunningSteps ==
    ASSUME TypeOK, Mounted, [Next]_vars, NEW o \in Ord, Running(o)'
    PROVE  \/ Running(o) /\ pvc'[o] = pvc[o]
           \/ \E s \in Slot : StartPod(o, s)
<1> USE DEF Running
<1>1. CASE Quiet
  BY <1>1, QuietFrame DEF plane
<1>2. CASE Halts
  BY <1>2, HaltFrame
<1>3. CASE Pools
  BY <1>3, PoolFrame
<1>4. CASE Stores
  BY <1>4, StoreFrame
<1>5. CASE \/ DeleteStatefulSet \/ EnsureWorkload \/ ApplyConfigMap
           \/ DeleteIdentities \/ EnsureNodeIdentities
  BY <1>5 DEF DeleteStatefulSet, EnsureWorkload, ApplyConfigMap, DeleteIdentities, EnsureNodeIdentities
<1>6. ASSUME NEW p \in Ord, CreatePod(p) \/ FinalizePVC(p) PROVE Running(o) /\ pvc'[o] = pvc[o]
  <2>1. CASE CreatePod(p)
    BY <2>1, Slots DEF CreatePod, TypeOK, Mounted, Bound
  <2>2. CASE FinalizePVC(p)
    BY <2>2 DEF FinalizePVC, TypeOK
  <2> QED BY <1>6, <2>1, <2>2
<1>7. ASSUME NEW p \in Ord, NEW s \in Slot, StartPod(p, s), p # o PROVE Running(o) /\ pvc'[o] = pvc[o]
  BY <1>7 DEF StartPod, TypeOK
<1> QED BY <1>1, <1>2, <1>3, <1>4, <1>5, <1>6, <1>7, Steps

\* The sizes stay, whatever the worker and Kubernetes do.
LEMMA SizedStep ==
    ASSUME GroupInv, Sized, [Next]_vars
    PROVE  Sized'
<1>0. TypeOK /\ Mounted /\ OfIncarnation /\ WorkerPinned
  BY DEF GroupInv
<1>1. /\ w'.pc # "idle" => w'.rf = initialReplicationFactor(w'.one)
      /\ w'.pc \in Recycling => ~w'.one
  <2> USE DEF Recycling
  <2>1. CASE ReadPinned
    BY <1>0, <2>1, StartsWith
  <2>2. CASE UNCHANGED w
    BY <2>2 DEF Sized
  <2>3. CASE w' = Idle
    BY <2>3 DEF Idle
  <2>4. CASE \/ GoesOn(Teardown, Teardown \cup {"config"})
             \/ GoesOn(PC \ (Teardown \cup Recycling \cup {"idle"}), PC \ (Teardown \cup Recycling \cup {"idle"}))
    <3>1. w.pc # "idle" /\ w'.pc \notin Recycling /\ w'.one = w.one /\ w'.rf = w.rf
      BY <2>4 DEF GoesOn, Teardown
    <3> QED BY <3>1 DEF Sized
  <2>5. CASE ReconcileSystemPlacement \/ RecyclePVC
    BY <1>0, <2>5, MoveSteps DEF Sized
  <2> QED BY <1>0, <2>1, <2>2, <2>3, <2>4, <2>5, WorkerSteps
<1>2. cm'.rf = 1 => sts' <= 1 /\ \A o \in Ord : pvc'[o] # NoPVC => o = 0
  <2>1. ASSUME UNCHANGED <<cm, sts>>, \A o \in Ord : pvc[o] = NoPVC => pvc'[o] = NoPVC
        PROVE  <1>2!1 => <1>2!2
    BY <2>1 DEF Sized
  <2>2. CASE Quiet \/ Halts \/ Pools \/ Stores
    BY <1>0, <2>1, <2>2, QuietFrame, HaltFrame, PoolFrame, StoreFrame DEF plane
  <2>3. CASE DeleteStatefulSet
    BY <2>3 DEF DeleteStatefulSet, Sized
  <2>4. CASE EnsureWorkload
    <3>1. w.pc = "workload" /\ sts' = systemReplicas(w.one) /\ UNCHANGED <<cm, pvc>>
      BY <2>4 DEF EnsureWorkload
    <3>2. cm.rf = initialReplicationFactor(w.one) /\ w.one \in BOOLEAN
      BY <1>0, <3>1 DEF WorkerPinned, Teardown, Sized, TypeOK, Worker
    <3>3. CASE w.one = TRUE
      <4>1. sts' = 1
        BY <3>1, <3>3 DEF systemReplicas
      <4> QED BY <3>1, <4>1 DEF Sized
    <3>4. CASE w.one = FALSE
      BY <3>1, <3>2, <3>4, Sizes
    <3> QED BY <3>2, <3>3, <3>4
  <2>5. CASE DeleteIdentities \/ EnsureNodeIdentities
    BY <2>1, <2>5 DEF DeleteIdentities, EnsureNodeIdentities
  <2>6. CASE ApplyConfigMap
    <3>1. UNCHANGED <<sts, pvc>> /\ cm' = [rf |-> w.rf, inc |-> w.inc] /\ w.pc = "config"
      BY <2>6 DEF ApplyConfigMap
    <3> QED BY <1>0, <3>1 DEF WorkerPinned, Torn, Sized
  <2>7. ASSUME NEW o \in Ord, CreatePod(o) PROVE <1>2!1 => <1>2!2
    BY <1>0, <2>7 DEF CreatePod, Sized, TypeOK, Ord
  <2>8. ASSUME NEW o \in Ord, FinalizePVC(o) PROVE <1>2!1 => <1>2!2
    BY <1>0, <2>1, <2>8 DEF FinalizePVC, TypeOK
  <2>9. ASSUME NEW o \in Ord, NEW s \in Slot, StartPod(o, s) PROVE <1>2!1 => <1>2!2
    <3>1. pvc[o] # NoPVC /\ UNCHANGED <<cm, sts>> /\ pvc' = [pvc EXCEPT ![o] = s]
      BY <2>9, Slots DEF StartPod, Fits
    <3> QED BY <1>0, <2>1, <3>1 DEF TypeOK
  <2> QED BY <2>2, <2>3, <2>4, <2>5, <2>6, <2>7, <2>8, <2>9, Steps
<1>3. ASSUME NEW o \in Ord, Running(o)' PROVE NodeOf(pvc'[o]) \in up'
  <2>1. CASE Running(o) /\ pvc'[o] = pvc[o]
    <3>1. ASSUME NEW n \in Node, NodeDown(n) PROVE NodeOf(pvc[o]) \in up'
      BY <1>0, <1>3, <2>1, <3>1 DEF NodeDown, Sized, Running, TypeOK
    <3>2. ASSUME NEW n \in Node, Demote(n) \/ NodeJoin(n) PROVE NodeOf(pvc[o]) \in up'
      BY <2>1, <3>2 DEF Demote, NodeJoin, Sized
    <3> QED BY <2>1, <3>1, <3>2, NodeSteps DEF Sized
  <2>2. CASE \E s \in Slot : StartPod(o, s)
    BY <1>0, <2>2 DEF StartPod, Fits, Free, TypeOK
  <2> QED BY <1>0, <1>3, <2>1, <2>2, RunningSteps
<1> QED BY <1>1, <1>2, <1>3 DEF Sized, Recycling

\* The roles change when what is staged is applied, and are lost when a cluster
\* starts empty.
LEMMA RoleSteps ==
    ASSUME TypeOK, [Next]_vars
    PROVE  \/ layout'.roles = layout.roles
           \/ ApplyLayout
           \/ \E o \in Ord, s \in Slot : StartPod(o, s)
<1>1. CASE StageLayout
  <2>1. \/ layout' = layout
        \/ \E x, y : layout' = [layout EXCEPT !.add = x, !.drop = y]
    BY <1>1, Zenon DEF StageLayout
  <2> QED BY <2>1 DEF TypeOK
<1>2. UNCHANGED layout \/ StageLayout \/ ApplyLayout \/ \E o \in Ord, s \in Slot : StartPod(o, s)
  BY Zenon DEF Next, Reconcile, Kubernetes, Change, StartSome, ReadPinned, DeleteStatefulSet, DeletePVCs,
     DeleteIdentities, DeletePVs, ApplyConfigMap, EnsureSystemLocalPVs, GCSystemLocalPVs,
     EnsureNodeIdentities, ReconcileSystemPlacement, RecyclePVC, RecyclePod, EnsureWorkload,
     DiscoverPeers, HealthGate, Stop, ReconcileBucket, CreatePod, RemovePod,
     FinalizePVC, PodStop, Put, Resync, SwitchReplicas, NodeDown, Demote, NodeJoin, vars
<1> QED BY <1>1, <1>2

\* The layout stays quorate: Garage refuses one that is not, and a new incarnation
\* finds the directories, and then the layout, empty.
LEMMA QuorateStep ==
    ASSUME GroupInv, Quorate, [Next]_vars
    PROVE  Quorate'
<1>0. TypeOK /\ Mounted /\ OfIncarnation /\ WorkerPinned
  BY DEF GroupInv
<1>1. ASSUME UNCHANGED cm, \A s \in Slot : dir'[s].rf = dir[s].rf, layout'.roles = layout.roles
      PROVE  Quorate'
  BY <1>1 DEF Quorate
<1>2. CASE ApplyLayout
  <2>1. UNCHANGED <<cm, dir>>
    BY <1>2 DEF ApplyLayout
  <2>2. \/ layout' = layout
        \/ /\ layout' = [roles |-> Staged, add |-> {}, drop |-> {}]
           /\ Cardinality(Staged) >= cm.rf
    BY <1>2, Zenon DEF ApplyLayout
  <2> QED BY <1>1, <2>1, <2>2 DEF Quorate
<1>3. ASSUME NEW o \in Ord, NEW s \in Slot, StartPod(o, s) PROVE Quorate'
  <2>1. UNCHANGED cm
    BY <1>3 DEF StartPod
  <2>2. CASE Blank(o, s)
    <3>1. layout'.roles = {}
      BY <1>3, <2>2 DEF StartPod, NoLayout
    <3> QED BY <3>1 DEF Quorate
  <2>3. CASE ~Blank(o, s)
    <3>1. UNCHANGED layout
      BY <1>3, <2>3 DEF StartPod
    <3>2. IncOf(s) = cm.inc
      BY <1>0, <1>3 DEF StartPod, Fits, Free, OfIncarnation, Bound
    <3>3. \E t \in Slot : IncOf(t) = cm.inc /\ dir[t].rf # 0
      BY <1>0, <2>3, <3>2 DEF Blank, Bound, OfIncarnation
    <3> QED BY <2>1, <3>1, <3>3 DEF Quorate
  <2> QED BY <2>2, <2>3
<1>4. CASE ApplyConfigMap
  <2>1. UNCHANGED <<dir, layout>> /\ cm' = [rf |-> w.rf, inc |-> w.inc] /\ w.pc = "config"
    BY <1>4 DEF ApplyConfigMap
  <2>2. CASE w.rf = cm.rf /\ w.inc = cm.inc
    BY <2>1, <2>2 DEF Quorate
  <2>3. CASE w.rf # cm.rf /\ w.inc = cm.inc + 1 /\ Torn
    <3>1. \A s \in Slot : IncOf(s) = cm'.inc => dir[s].rf = 0
      <4>1. cm'.inc = cm.inc + 1 /\ cm.inc \in Nat /\ \A s \in Slot : IncOf(s) \in Nat
        BY <1>0, <2>1, <2>3, Slots DEF TypeOK, ConfigMap
      <4> QED BY <1>0, <4>1 DEF OfIncarnation
    <3> QED BY <2>1, <3>1 DEF Quorate
  <2> QED BY <1>0, <2>1, <2>2, <2>3 DEF WorkerPinned
<1>5. ASSUME layout'.roles = layout.roles, ~ApplyConfigMap, \A o \in Ord, s \in Slot : ~StartPod(o, s)
      PROVE  Quorate'
  <2>1. CASE Quiet \/ Halts \/ Pools \/ Stores
    BY <1>0, <1>1, <1>5, <2>1, QuietFrame, HaltFrame, PoolFrame, StoreFrame DEF plane
  <2>2. CASE DeleteStatefulSet \/ EnsureWorkload \/ DeleteIdentities \/ EnsureNodeIdentities
    BY <1>1, <1>5, <2>2 DEF DeleteStatefulSet, EnsureWorkload, DeleteIdentities, EnsureNodeIdentities
  <2>3. CASE \E o \in Ord : CreatePod(o) \/ FinalizePVC(o)
    BY <1>1, <1>5, <2>3 DEF CreatePod, FinalizePVC
  <2> QED BY <1>5, <2>1, <2>2, <2>3, Steps
<1> QED BY <1>0, <1>2, <1>3, <1>4, <1>5, RoleSteps

WholeInv == GroupInv /\ Sized /\ Quorate

\* Before the first reconcile there is no replica and no layout.
LEMMA InitWhole == Init => WholeInv
<1> SUFFICES ASSUME Init PROVE WholeInv
  OBVIOUS
<1>1. Sized
  BY GarageAssumption DEF Init, Sized, Idle, NoConfigMap, Running
<1>2. Quorate
  BY DEF Init, Quorate, EmptyDirectory
<1> QED BY <1>1, <1>2, InitInv DEF WholeInv

\* Every step keeps groups, sizes and quorums.
LEMMA WholeInvStep == WholeInv /\ [Next]_vars => WholeInv'
  BY GroupInvStep, SizedStep, QuorateStep DEF WholeInv

\* Ready is reported by the health gate, when Garage is healthy.
LEMMA ReadySteps ==
    ASSUME TypeOK, [Next]_vars, ~ready, ready'
    PROVE  w.pc = "health" /\ Healthy
<1>1. CASE HealthGate
  BY <1>1 DEF HealthGate, Return, Status
<1>2. CASE Stop
  BY <1>2 DEF Stop, Status
<1>3. CASE \/ DeletePVs \/ RecyclePod \/ EnsureWorkload \/ DiscoverPeers \/ StageLayout \/ ApplyLayout
  <2>1. ready' = ready \/ ready' = FALSE
    BY <1>3, Zenon DEF DeletePVs, RecyclePod, EnsureWorkload, DiscoverPeers, StageLayout, ApplyLayout,
       Return, Status, Proceed
  <2> QED BY <2>1
<1>4. UNCHANGED ready \/ HealthGate \/ Stop \/ DeletePVs \/ RecyclePod \/ EnsureWorkload \/ DiscoverPeers
      \/ StageLayout \/ ApplyLayout
  BY Zenon DEF Next, Reconcile, Kubernetes, Change, StartSome, ReadPinned, DeleteStatefulSet, DeletePVCs,
     DeleteIdentities, ApplyConfigMap, EnsureSystemLocalPVs, GCSystemLocalPVs,
     EnsureNodeIdentities, ReconcileSystemPlacement, RecyclePVC, Proceed, ReconcileBucket, CreatePod,
     RemovePod, FinalizePVC, StartPod, PodStop, Put, Resync, SwitchReplicas, NodeDown, Demote, NodeJoin, vars
<1> QED BY <1>1, <1>2, <1>3, <1>4

\* Ready is said of whole stores only: the health gate (garage.go:180) sees the roles of
\* the layout, and those are as many as the replicas, although peers may have been missed
\* (mesh.go:59).
THEOREM GarageReadyIsWhole ==
    ASSUME HA <= 3
    PROVE  Spec => ReadyIsWhole
<1>1. WholeInv /\ [Next]_vars =>
         [~ready /\ ready' => \A o \in 0 .. systemReplicas(w.one) - 1 : Serves(o)]_vars
  <2> SUFFICES ASSUME WholeInv, [Next]_vars, ~ready, ready', NEW o \in 0 .. systemReplicas(w.one) - 1
               PROVE  Serves(o)
    OBVIOUS
  <2>1. GroupInv /\ Sized /\ Quorate /\ TypeOK /\ WorkerPinned
    BY DEF WholeInv, GroupInv
  <2>2. w.pc = "health" /\ Healthy
    BY <2>1, ReadySteps
  <2>3. cm.rf = initialReplicationFactor(w.one) /\ w.one \in BOOLEAN
    BY <2>1, <2>2 DEF WorkerPinned, Teardown, Sized, TypeOK, Worker
  <2> QED BY <2>1, <2>2, <2>3, Whole
<1> QED BY InitWhole, WholeInvStep, <1>1, PTL DEF Spec, ReadyIsWhole

-----------------------------------------------------------------------------
(* Objects *)

\* A replica is being moved.
Moving(o) == w.pc \in Recycling /\ w.ord = o

\* A replica that was cut off by a move that stopped, and that no move has reached.
Forsaken(o) == CutOff(o) /\ ~(w.pc = "recyclePod" /\ w.ord = o)

\* Apart from the health of Garage, the replica is to be spread.
Crowded(o) ==
    NodeOf(pvc[o]) \in master => \E p \in Ord \ {o} : NodeOf(pvc[p]) = NodeOf(pvc[o])

\* Nothing else moves before the replica does, once Garage is healthy.
FirstInLine(o) ==
    /\ \A p \in Ord : Bound(p) /\ (p # o => p \notin dying)
    /\ Cardinality(master) >= HA
    /\ Crowded(o) /\ \A p \in 0 .. o - 1 : ~Crowded(p)
    /\ w.pc \in Recycling => w.ord = o

\* A copy that no step can discard.
Safe(o) == Holds(o) /\ o \notin dying /\ ~Moving(o)

\* A copy on the only master.
Home(o) == Cardinality(master) = 1 => NodeOf(pvc[o]) \in master

\* Nobody switched the replica count.
Steady ==
    /\ w.pc # "idle" => w.one = single
    /\ w.pc \notin Teardown
    /\ cm.rf \in {0, initialReplicationFactor(single)}
    /\ single => dying = {}

\* With one master nothing runs elsewhere.
Gathered == \A o \in Ord : Running(o) => Home(o)

\* A move that was stopped half-way is taken up before any other.
Resumed == \A o \in Ord : Forsaken(o) => FirstInLine(o)

\* There is a safe copy, on the only master if there is one.
Copied == stored => \E o \in Ord : Safe(o) /\ Home(o)

ObjectInv == Kept("objects") => Steady /\ Gathered /\ Resumed /\ Copied

\* What is known of a step behind which objects are still promised.
LEMMA KeptSteps ==
    ASSUME TypeOK, [Next]_vars, Kept("objects")'
    PROVE  /\ Kept("objects")
           /\ ~SwitchReplicas
           /\ Stop => (w.pc = "recyclePod" /\ CutOff(w.ord) => Chosen(w.ord))
           /\ ReconcileSystemPlacement /\ w'.pc = "recyclePVC" =>
                ~(Cardinality(master) >= HA /\ Replicating)
           /\ \A n \in Node : NodeDown(n) =>
                ~HalfMoved /\ (Cardinality(master') = 1 => Anchored(master', up \ {n}))
           /\ \A n \in Node : Demote(n) \/ NodeJoin(n) =>
                ~HalfMoved /\ (Cardinality(master') = 1 => Anchored(master', up))
<1>1. ASSUME NEW d, NEW ends, Disturbance(d, ends)
      PROVE  Kept("objects") /\ "objects" \notin ends
  BY <1>1 DEF Disturbance, Kept, TypeOK
<1>r. budget' = [budget EXCEPT !.kept = @ \ {"objects"}] => ~Kept("objects")'
  BY DEF Kept, TypeOK
<1>2. UNCHANGED budget \/ \E d, ends : Disturbance(d, ends)
  <2>1. CASE ReconcileSystemPlacement
    <3>1. UNCHANGED budget \/ budget' = [budget EXCEPT !.kept = @ \ {"objects"}]
      BY <2>1, Zenon DEF ReconcileSystemPlacement
    <3> QED BY <1>r, <3>1
  <2>2. ~ReconcileSystemPlacement => UNCHANGED budget \/ \E d, ends : Disturbance(d, ends)
    BY Zenon DEF Next, Reconcile, Kubernetes, Change, StartSome, ReadPinned, DeleteStatefulSet, DeletePVCs,
     DeleteIdentities, DeletePVs, ApplyConfigMap, EnsureSystemLocalPVs, GCSystemLocalPVs,
     EnsureNodeIdentities, RecyclePVC, RecyclePod, EnsureWorkload,
     DiscoverPeers, StageLayout, ApplyLayout, HealthGate, Stop, ReconcileBucket, CreatePod, RemovePod,
     FinalizePVC, StartPod, PodStop, Put, Resync, SwitchReplicas, NodeDown, Demote, NodeJoin, vars
  <2> QED BY <2>1, <2>2
<1>3. Kept("objects")
  BY <1>1, <1>2 DEF Kept
<1>9. ASSUME ReconcileSystemPlacement, w'.pc = "recyclePVC"
      PROVE  ~(Cardinality(master) >= HA /\ Replicating)
  <2>1. w' # [w EXCEPT !.pc = "workload"]
    BY <1>9 DEF TypeOK, Worker
  <2>2. budget' = IF Cardinality(master) >= HA /\ Replicating
                  THEN [budget EXCEPT !.kept = @ \ {"objects"}] ELSE budget
    BY <1>9, <2>1, Zenon DEF ReconcileSystemPlacement, Goto
  <2> QED BY <1>r, <2>2
<1>4. ~SwitchReplicas
  BY <1>1 DEF SwitchReplicas
<1>5. Stop => (w.pc = "recyclePod" /\ CutOff(w.ord) => Chosen(w.ord))
  BY <1>1 DEF Stop
<1>6. ASSUME NEW m, NEW gone, "objects" \notin Ends(m, gone)
      PROVE  ~HalfMoved /\ (Cardinality(m) = 1 => Anchored(m, up \ gone))
  BY <1>6 DEF Ends, Guarantee
<1>7. ASSUME NEW n \in Node, NodeDown(n)
      PROVE  ~HalfMoved /\ (Cardinality(master') = 1 => Anchored(master', up \ {n}))
  BY <1>1, <1>6, <1>7, Zenon DEF NodeDown
<1>8. ASSUME NEW n \in Node, Demote(n) \/ NodeJoin(n)
      PROVE  ~HalfMoved /\ (Cardinality(master') = 1 => Anchored(master', up))
  <2>1. "objects" \notin Ends(master', {})
    BY <1>1, <1>8, Zenon DEF Demote, NodeJoin
  <2>2. up \ {} = up
    OBVIOUS
  <2> QED BY <1>6, <2>1, <2>2
<1> QED BY <1>3, <1>4, <1>5, <1>7, <1>8, <1>9

\* Plain steps: nothing starts, and no move begins or goes on.
LEMMA PlainFrame ==
    ASSUME TypeOK, Plain
    PROVE  /\ UNCHANGED <<master, up, pvc, dying, dir, stored>>
           /\ \A o \in Ord : Running(o)' => Running(o)
           /\ \A o \in Ord : Moving(o)' <=> Moving(o)
           /\ UNCHANGED w \/ (w.pc \notin Recycling /\ w'.pc \notin Recycling)
<1>1. UNCHANGED <<master, up, pvc, dying, dir, stored>>
  BY Zenon DEF Plain, ReadPinned, DeleteStatefulSet, DeleteIdentities, DeletePVs, ApplyConfigMap,
     EnsureSystemLocalPVs, GCSystemLocalPVs, EnsureNodeIdentities, EnsureWorkload, DiscoverPeers,
     StageLayout, ApplyLayout, HealthGate, ReconcileBucket, RemovePod, PodStop, vars
<1>2. ASSUME NEW o \in Ord, Running(o)' PROVE Running(o)
  <2>1. CASE \E p \in Ord : RemovePod(p) \/ PodStop(p)
    BY <1>2, <2>1 DEF RemovePod, PodStop, Running, TypeOK
  <2>2. UNCHANGED pod \/ \E p \in Ord : RemovePod(p) \/ PodStop(p)
    BY Zenon DEF Plain, ReadPinned, DeleteStatefulSet, DeleteIdentities, DeletePVs, ApplyConfigMap,
       EnsureSystemLocalPVs, GCSystemLocalPVs, EnsureNodeIdentities, EnsureWorkload, DiscoverPeers,
       StageLayout, ApplyLayout, HealthGate, ReconcileBucket, vars
  <2> QED BY <1>2, <2>1, <2>2 DEF Running
<1>3. UNCHANGED w \/ (w.pc \notin Recycling /\ w'.pc \notin Recycling)
  <2>1. CASE ReadPinned
    BY <2>1, StartsWith DEF ReadPinned, Recycling
  <2>2. CASE w' = Idle /\ w.pc \notin Recycling
    BY <2>2 DEF Idle, Recycling
  <2>3. CASE \/ GoesOn(Teardown, Teardown \cup {"config"})
             \/ GoesOn(PC \ (Teardown \cup Recycling \cup {"idle"}), PC \ (Teardown \cup Recycling \cup {"idle"}))
    BY <2>3 DEF GoesOn, Teardown, Recycling
  <2> QED BY <2>1, <2>2, <2>3, PlainWorker
<1>4. \A o \in Ord : Moving(o)' <=> Moving(o)
  BY <1>3 DEF Moving
<1> QED BY <1>1, <1>2, <1>3, <1>4

\* A claim stays while it is not deleted, or its replica runs, and so do the copies.
LEMMA ClaimStays ==
    ASSUME TypeOK, [Next]_vars, NEW o \in Ord, Bound(o), o \notin dying \/ Running(o)
    PROVE  pvc'[o] = pvc[o] /\ Bound(o)' /\ (Holds(o) => Holds(o)')
<1> USE DEF Bound, Holds, Running
<1>1. CASE Plain
  BY <1>1, PlainFrame
<1>2. CASE \/ SwitchReplicas \/ DeletePVCs \/ ReconcileSystemPlacement \/ RecyclePVC \/ RecyclePod \/ Stop
           \/ \E n \in Node : NodeDown(n) \/ Demote(n) \/ NodeJoin(n)
  <2>1. UNCHANGED <<pvc, dir>>
    BY <1>2, Zenon DEF SwitchReplicas, DeletePVCs, ReconcileSystemPlacement, RecyclePVC, RecyclePod, Stop,
       NodeDown, Demote, NodeJoin
  <2> QED BY <2>1
<1>3. ASSUME NEW p \in Ord, CreatePod(p) PROVE UNCHANGED dir /\ pvc'[o] = pvc[o]
  BY <1>3, Slots DEF CreatePod, TypeOK
<1>4. ASSUME NEW p \in Ord, FinalizePVC(p) PROVE UNCHANGED dir /\ pvc'[o] = pvc[o]
  BY <1>4 DEF FinalizePVC, TypeOK
<1>5. ASSUME NEW p \in Ord, Resync(p) PROVE UNCHANGED pvc /\ \A s \in Slot : dir[s].data => dir'[s].data
  <2>1. dir' = [dir EXCEPT ![pvc[p]] = [dir[pvc[p]] EXCEPT !.data = TRUE]]
    BY <1>5 DEF Resync
  <2> QED BY <1>5, <2>1 DEF Resync, TypeOK, Directory
<1>6. ASSUME NEW p \in Ord, NEW s \in Slot, StartPod(p, s)
      PROVE  pvc'[o] = pvc[o] /\ \A t \in Slot : dir'[t].data = dir[t].data
  <2>1. pvc' = [pvc EXCEPT ![p] = s] /\ (pvc[p] = s \/ pvc[p] = Unbound)
    BY <1>6 DEF StartPod, Fits
  <2>2. \A t \in Slot : dir'[t].data = dir[t].data
    BY <1>6 DEF StartPod, TypeOK
  <2> QED BY <2>1, <2>2, Slots DEF TypeOK
<1>7. CASE Put
  <2>1. ASSUME NEW s \in Slot, dir[s].data PROVE dir'[s].data
    <3>1. dir'[s] = [dir[s] EXCEPT !.data = dir[s].data \/ \E p \in Ord : Serves(p) /\ pvc[p] = s]
      BY <1>7, Zenon DEF Put
    <3>2. (dir[s].data \/ \E p \in Ord : Serves(p) /\ pvc[p] = s) = TRUE
      BY <2>1, Zenon
    <3>3. dir'[s] = [dir[s] EXCEPT !.data = TRUE]
      BY <3>1, <3>2, Zenon
    <3> QED BY <3>3 DEF TypeOK, Directory
  <2>2. UNCHANGED pvc
    BY <1>7 DEF Put
  <2> QED BY <2>1, <2>2
<1> QED BY <1>1, <1>2, <1>3, <1>4, <1>5, <1>6, <1>7, ObjectSteps

\* Claims are deleted by moves, unless everything is torn down.
LEMMA DyingSteps ==
    ASSUME TypeOK, [Next]_vars, NEW o \in Ord, o \in dying', o \notin dying
    PROVE  DeletePVCs \/ (RecyclePVC /\ o = w.ord)
<1>1. CASE RecyclePVC
  BY <1>1 DEF RecyclePVC
<1>2. CASE \E p \in Ord : FinalizePVC(p)
  BY <1>2 DEF FinalizePVC
<1>3. CASE Plain
  BY <1>3, PlainFrame
<1>4. CASE \/ SwitchReplicas \/ ReconcileSystemPlacement \/ RecyclePod \/ Stop \/ Put
           \/ \E p \in Ord : CreatePod(p) \/ Resync(p)
           \/ \E p \in Ord, s \in Slot : StartPod(p, s)
           \/ \E n \in Node : NodeDown(n) \/ Demote(n) \/ NodeJoin(n)
  <2>1. UNCHANGED dying
    BY <1>4, Zenon DEF SwitchReplicas, ReconcileSystemPlacement, RecyclePod, Stop, Put, CreatePod, Resync,
       StartPod, NodeDown, Demote, NodeJoin
  <2> QED BY <2>1
<1> QED BY <1>1, <1>2, <1>3, <1>4, ObjectSteps

\* Without a switch there is no teardown, and the pinned factor is the wanted one.
LEMMA SteadyStep ==
    ASSUME GroupInv, Sized, Kept("objects"), Steady, ~SwitchReplicas, [Next]_vars
    PROVE  Steady'
<1>0. TypeOK /\ WorkerPinned
  BY DEF GroupInv
<1>1. UNCHANGED single
  BY Zenon DEF Next, Reconcile, Kubernetes, Change, StartSome, ReadPinned, DeleteStatefulSet, DeletePVCs,
     DeleteIdentities, DeletePVs, ApplyConfigMap, EnsureSystemLocalPVs, GCSystemLocalPVs,
     EnsureNodeIdentities, ReconcileSystemPlacement, RecyclePVC, RecyclePod, EnsureWorkload,
     DiscoverPeers, StageLayout, ApplyLayout, HealthGate, Stop, ReconcileBucket, CreatePod, RemovePod,
     FinalizePVC, StartPod, PodStop, Put, Resync, NodeDown, Demote, NodeJoin, vars
<1>2. /\ w'.pc # "idle" => w'.one = single
      /\ w'.pc \notin Teardown
  <2>1. CASE ReadPinned
    BY <1>0, <2>1, StartsWith DEF Steady, Teardown
  <2>2. CASE UNCHANGED w
    BY <2>2 DEF Steady
  <2>3. CASE w' = Idle
    BY <2>3 DEF Idle, Teardown
  <2>4. CASE GoesOn(Teardown, Teardown \cup {"config"})
    BY <2>4 DEF GoesOn, Steady
  <2>5. CASE GoesOn(PC \ (Teardown \cup Recycling \cup {"idle"}), PC \ (Teardown \cup Recycling \cup {"idle"}))
    BY <2>5 DEF GoesOn, Steady
  <2>6. CASE ReconcileSystemPlacement \/ RecyclePVC
    BY <1>0, <2>6, MoveSteps DEF Steady
  <2> QED BY <1>0, <2>1, <2>2, <2>3, <2>4, <2>5, <2>6, WorkerSteps
<1>3. cm'.rf \in {0, initialReplicationFactor(single)}
  <2>1. CASE ApplyConfigMap
    <3>1. cm'.rf = w.rf /\ w.pc = "config"
      BY <2>1 DEF ApplyConfigMap
    <3>2. w.rf = initialReplicationFactor(w.one) /\ w.one = single
      BY <3>1 DEF Steady, Sized
    <3> QED BY <3>1, <3>2
  <2>2. ~ApplyConfigMap => UNCHANGED cm
    BY Zenon DEF Next, Reconcile, Kubernetes, Change, StartSome, ReadPinned, DeleteStatefulSet, DeletePVCs,
       DeleteIdentities, DeletePVs, EnsureSystemLocalPVs, GCSystemLocalPVs,
       EnsureNodeIdentities, ReconcileSystemPlacement, RecyclePVC, RecyclePod, EnsureWorkload,
       DiscoverPeers, StageLayout, ApplyLayout, HealthGate, Stop, ReconcileBucket, CreatePod, RemovePod,
       FinalizePVC, StartPod, PodStop, Put, Resync, NodeDown, Demote, NodeJoin, vars
  <2> QED BY <2>1, <2>2 DEF Steady
<1>4. ASSUME single PROVE dying' = {}
  <2>1. dying = {}
    BY <1>4 DEF Steady
  <2>2. ~DeletePVCs
    BY DEF DeletePVCs, Steady, Teardown
  <2>3. ~RecyclePVC
    BY <1>4 DEF RecyclePVC, Steady, Sized
  <2>4. dying' \subseteq Ord
    BY <1>0, GroupInvStep DEF GroupInv, TypeOK
  <2> QED BY <1>0, <2>1, <2>2, <2>3, <2>4, DyingSteps
<1> QED BY <1>1, <1>2, <1>3, <1>4 DEF Steady

\* With one master nothing comes to run elsewhere, as long as objects are promised.
LEMMA GatheredStep ==
    ASSUME GroupInv, Sized, Gathered, [Next]_vars, Kept("objects")'
    PROVE  Gathered'
<1>0. TypeOK /\ Mounted
  BY DEF GroupInv
<1> SUFFICES ASSUME NEW o \in Ord, Running(o)', Cardinality(master') = 1
             PROVE  NodeOf(pvc'[o]) \in master'
  BY DEF Gathered, Home
<1>1. CASE Running(o) /\ pvc'[o] = pvc[o]
  <2>1. ASSUME NEW m, NEW alive, NodeOf(pvc[o]) \in alive, Anchored(m, alive) PROVE NodeOf(pvc[o]) \in m
    BY <1>0, <1>1, <2>1 DEF Anchored, Mounted
  <2>2. NodeOf(pvc[o]) \in up /\ NodeOf(pvc[o]) \in up'
    BY <1>1, SizedStep DEF Sized
  <2>3. ASSUME NEW n \in Node, NodeDown(n) PROVE NodeOf(pvc[o]) \in master'
    <3>1. up' = up \ {n}
      BY <2>3 DEF NodeDown
    <3>2. Anchored(master', up \ {n})
      BY <1>0, <2>3, KeptSteps
    <3> QED BY <2>1, <2>2, <3>1, <3>2
  <2>4. ASSUME NEW n \in Node, Demote(n) \/ NodeJoin(n) PROVE NodeOf(pvc[o]) \in master'
    BY <1>0, <2>1, <2>2, <2>4, KeptSteps
  <2> QED BY <1>1, <2>3, <2>4, NodeSteps DEF Gathered, Home
<1>2. ASSUME NEW s \in Slot, StartPod(o, s) PROVE NodeOf(pvc'[o]) \in master'
  BY <1>0, <1>2 DEF StartPod, Fits, Free, TypeOK
<1> QED BY <1>0, <1>1, <1>2, RunningSteps

\* What makes a replica misplaced: with one master it is elsewhere, with enough of them
\* it is crowded and Garage is healthy.
LEMMA Misplacing ==
    ASSUME GroupInv, NEW o \in Ord
    PROVE  /\ Misplaced(o) =>
                \/ Cardinality(master) >= HA /\ Healthy /\ Crowded(o)
                \/ Cardinality(master) = 1 /\ NodeOf(pvc[o]) \notin master
           /\ (/\ Cardinality(master) >= HA /\ Healthy /\ Crowded(o)
               /\ \A p \in Ord : Bound(p)) => Misplaced(o)
<1>0. TypeOK /\ Mounted /\ HA \in Nat /\ HA >= 2
  BY GarageAssumption DEF GroupInv
<1>1. \A p \in Ord : \A n : ReplicaOn(p, n) <=> Bound(p) /\ NodeOf(pvc[p]) = n
  BY <1>0 DEF Mounted, ReplicaOn
<1>2. ASSUME Misplaced(o), Cardinality(master) >= HA PROVE Healthy /\ Crowded(o)
  <2>0. ~(Cardinality(master) = 1)
    BY <1>0, <1>2
  <2>1. Healthy /\ \A n \in master : ReplicaOn(o, n) => \E p \in Ord \ {o} : ReplicaOn(p, n)
    BY <1>2, <2>0 DEF Misplaced
  <2>2. Bound(o)
    BY <1>1, <1>2 DEF Misplaced, Settling
  <2> QED BY <1>1, <2>1, <2>2 DEF Crowded
<1>3. ASSUME Misplaced(o), ~(Cardinality(master) >= HA)
      PROVE  Cardinality(master) = 1 /\ NodeOf(pvc[o]) \notin master
  <2>1. Cardinality(master) = 1 /\ \A n \in master : ~ReplicaOn(o, n)
    BY <1>3 DEF Misplaced
  <2>2. Bound(o)
    BY <1>1, <1>3 DEF Misplaced, Settling
  <2> QED BY <1>1, <2>1, <2>2
<1>4. ASSUME Cardinality(master) >= HA, Healthy, Crowded(o), \A p \in Ord : Bound(p) PROVE Misplaced(o)
  <2>1. \A n \in master : ReplicaOn(o, n) => \E p \in Ord \ {o} : ReplicaOn(p, n)
    BY <1>1, <1>4 DEF Crowded
  <2>2. ~Settling(o)
    BY <1>1, <1>4, Slots DEF Settling, Bound
  <2>3. ~(Cardinality(master) = 1)
    BY <1>0, <1>4
  <2> QED BY <1>4, <2>1, <2>2, <2>3 DEF Misplaced
<1> QED BY <1>2, <1>3, <1>4

\* The replica that is first in line is the one that is chosen.
LEMMA LineIsChosen ==
    ASSUME GroupInv, NEW o \in Ord, FirstInLine(o), NEW q \in Ord, Chosen(q)
    PROVE  q = o
<1>1. HA \in Nat /\ HA >= 2 /\ o \in Int /\ q \in Int /\ o >= 0 /\ q >= 0
  BY GarageAssumption DEF Ord
<1>2. Healthy /\ Crowded(q)
  BY <1>1, Misplacing DEF FirstInLine, Chosen
<1>3. Misplaced(o)
  BY <1>2, Misplacing DEF FirstInLine
<1>4. ~(q < o)
  BY <1>1, <1>2 DEF FirstInLine
<1>5. ~(o < q)
  BY <1>1, <1>3 DEF Chosen
<1> QED BY <1>1, <1>4, <1>5

\* A healthy store of more than one replica is whole.
LEMMA HealthyServes ==
    ASSUME WholeInv, Steady, HA <= 3, ~single, Healthy
    PROVE  \A o \in Ord : Serves(o) /\ Bound(o)
<1>0. GroupInv /\ Sized /\ Quorate /\ TypeOK /\ Mounted /\ OfIncarnation
  BY DEF WholeInv, GroupInv
<1>1. PICK o \in Ord : Running(o)
  BY DEF Healthy
<1>2. cm.rf = initialReplicationFactor(FALSE)
  <2>1. single = FALSE
    BY <1>0 DEF TypeOK
  <2> QED BY <1>0, <1>1, <2>1 DEF OfIncarnation, Steady
<1>3. \A p \in Ord : Serves(p)
  <2>1. systemReplicas(FALSE) = HA
    BY Sizes
  <2> QED BY <1>0, <1>2, <2>1, Whole DEF Ord
<1> QED BY <1>0, <1>3 DEF Serves, Mounted

\* A replica first in line stays so while masters and claims stay, and no other moves.
LEMMA LineStays ==
    ASSUME NEW o \in Ord, FirstInLine(o), UNCHANGED <<master, pvc>>,
           \A p \in Ord : p \in dying' => p \in dying \/ p = o,
           w'.pc \in Recycling => w'.ord = o
    PROVE  FirstInLine(o)'
  BY DEF FirstInLine, Crowded, Bound

\* A replica that was cut off by a move that stopped is the next to move, whatever
\* happens meanwhile.
LEMMA ResumedStep ==
    ASSUME WholeInv, Steady, Gathered, Resumed, HA <= 3, [Next]_vars, Kept("objects")'
    PROVE  Resumed'
<1>0. GroupInv /\ TypeOK /\ Mounted
  BY DEF WholeInv, GroupInv
<1> SUFFICES ASSUME NEW o \in Ord, o \in dying', Running(o)', ~(w'.pc = "recyclePod" /\ w'.ord = o)
             PROVE  FirstInLine(o)'
  BY DEF Resumed, Forsaken, CutOff
<1>r. ASSUME NEW p \in Ord, p \in dying, Running(p), ~(w.pc = "recyclePod" /\ w.ord = p)
      PROVE  FirstInLine(p)
  BY <1>r DEF Resumed, Forsaken, CutOff
<1>1. CASE Plain
  <2>1. FirstInLine(o)
    <3>1. ~(w.pc = "recyclePod" /\ w.ord = o)
      BY <1>0, <1>1, PlainFrame DEF Recycling
    <3> QED BY <1>0, <1>1, <1>r, <3>1, PlainFrame
  <2>2. w'.pc \in Recycling => w'.ord = o
    BY <1>0, <1>1, <2>1, PlainFrame DEF FirstInLine
  <2> QED BY <1>0, <1>1, <2>1, <2>2, PlainFrame, LineStays
<1>2. CASE SwitchReplicas \/ DeletePVCs
  <2>1. ~SwitchReplicas
    BY <1>0, KeptSteps
  <2>2. ~DeletePVCs
    BY DEF DeletePVCs, Steady, Teardown
  <2> QED BY <1>2, <2>1, <2>2
<1>3. CASE ReconcileSystemPlacement
  <2>1. w.pc = "placement" /\ UNCHANGED <<master, pvc, dying, pod>>
    BY <1>3 DEF ReconcileSystemPlacement
  <2>2. FirstInLine(o)
    BY <1>r, <2>1 DEF Running
  <2>3. w'.pc \in Recycling => \E q \in Ord : Chosen(q) /\ w'.ord = q
    BY <1>0, <1>3 DEF ReconcileSystemPlacement, Goto, Recycling, TypeOK, Worker
  <2>4. w'.pc \in Recycling => w'.ord = o
    BY <1>0, <2>2, <2>3, LineIsChosen
  <2> QED BY <2>1, <2>2, <2>4, LineStays
<1>4. CASE RecyclePVC
  <2>1. /\ w.pc = "recyclePVC" /\ w'.pc = "recyclePod" /\ w'.ord = w.ord /\ UNCHANGED pod
        /\ dying' \subseteq dying \cup {w.ord}
    BY <1>0, <1>4 DEF RecyclePVC, Goto, TypeOK, Worker
  <2>2. FirstInLine(o)
    BY <1>r, <2>1 DEF Running
  <2> QED BY <2>1, <2>2 DEF FirstInLine, Recycling
<1>5. CASE RecyclePod
  <2>1. w.pc = "recyclePod" /\ UNCHANGED dying /\ pod' = [pod EXCEPT ![w.ord] = "none"]
    BY <1>5 DEF RecyclePod
  <2>2. o # w.ord /\ Running(o)
    BY <1>0, <2>1 DEF Running, TypeOK
  <2>3. FirstInLine(o)
    BY <1>r, <2>1, <2>2
  <2> QED BY <2>1, <2>2, <2>3 DEF FirstInLine, Recycling
<1>6. CASE Stop
  <2>1. UNCHANGED <<master, pvc, dying, pod>> /\ w'.pc = "idle"
    BY <1>6 DEF Stop, Idle
  <2>2. w'.pc \notin Recycling /\ Running(o) /\ o \in dying
    BY <2>1 DEF Recycling, Running
  <2>3. CASE ~(w.pc = "recyclePod" /\ w.ord = o)
    BY <1>r, <2>1, <2>2, <2>3, LineStays
  <2>4. CASE w.pc = "recyclePod" /\ w.ord = o
    <3>1. Chosen(o)
      BY <1>0, <1>6, <2>2, <2>4, KeptSteps DEF CutOff
    <3>2. Cardinality(master) >= HA /\ Healthy /\ Crowded(o)
      BY <1>0, <2>2, <3>1, Misplacing DEF Chosen, Gathered, Home
    <3>3. ~single
      BY <2>2 DEF Steady
    <3>4. \A p \in Ord : Running(p) /\ Bound(p)
      BY <3>2, <3>3, HealthyServes DEF Serves
    <3>5. ASSUME NEW p \in Ord, p # o PROVE p \notin dying
      <4>1. SUFFICES ASSUME p \in dying PROVE FALSE
        OBVIOUS
      <4>2. FirstInLine(p)
        BY <1>r, <2>4, <3>4, <3>5, <4>1
      <4> QED BY <2>4, <3>5, <4>2 DEF FirstInLine, Recycling
    <3>6. ASSUME NEW p \in 0 .. o - 1 PROVE ~Crowded(p)
      <4>1. p \in Ord
        BY GarageAssumption DEF Ord
      <4> QED BY <1>0, <3>1, <3>2, <3>4, <4>1, Misplacing DEF Chosen
    <3>7. FirstInLine(o)
      BY <2>4, <3>2, <3>4, <3>5, <3>6 DEF FirstInLine
    <3> QED BY <2>1, <2>2, <3>7, LineStays
  <2> QED BY <2>3, <2>4
<1>7. CASE \/ \E p \in Ord : CreatePod(p) \/ FinalizePVC(p) \/ Resync(p)
           \/ \E p \in Ord, s \in Slot : StartPod(p, s)
           \/ Put
  <2>1. UNCHANGED <<master, w>> /\ dying' \subseteq dying
    BY <1>7, Zenon DEF CreatePod, FinalizePVC, Resync, StartPod, Put
  <2>2. Running(o)
    <3>1. ASSUME NEW s \in Slot, StartPod(o, s) PROVE FALSE
      BY <2>1, <3>1 DEF StartPod
    <3> QED BY <1>0, <3>1, RunningSteps
  <2>3. FirstInLine(o)
    BY <1>r, <2>1, <2>2
  <2>4. \A p \in Ord : Bound(p) /\ (p # o => p \notin dying)
    BY <2>3 DEF FirstInLine
  <2>5. UNCHANGED pvc
    <3>1. ASSUME NEW p \in Ord, CreatePod(p) PROVE UNCHANGED pvc
      BY <1>0, <2>4, <3>1, Slots DEF CreatePod, TypeOK, Bound
    <3>2. ASSUME NEW p \in Ord, FinalizePVC(p) PROVE FALSE
      BY <2>2, <2>4, <3>2 DEF FinalizePVC
    <3>3. ASSUME NEW p \in Ord, NEW s \in Slot, StartPod(p, s) PROVE UNCHANGED pvc
      BY <1>0, <2>4, <3>3, Slots DEF StartPod, Fits, TypeOK, Bound
    <3>4. ASSUME Put \/ \E p \in Ord : Resync(p) PROVE UNCHANGED pvc
      BY <3>4 DEF Put, Resync
    <3> QED BY <1>7, <3>1, <3>2, <3>3, <3>4
  <2>6. w'.pc \in Recycling => w'.ord = o
    BY <2>1, <2>3 DEF FirstInLine
  <2> QED BY <2>1, <2>3, <2>5, <2>6, LineStays
<1>8. ASSUME NEW n \in Node, NodeDown(n) \/ Demote(n) \/ NodeJoin(n) PROVE FALSE
  <2>1. ~HalfMoved
    BY <1>0, <1>8, KeptSteps
  <2>2. UNCHANGED <<dying, w>>
    BY <1>8 DEF NodeDown, Demote, NodeJoin
  <2>3. Running(o)
    BY <1>0, <1>8, RunningSteps DEF NodeDown, Demote, NodeJoin, Running, TypeOK
  <2> QED BY <2>1, <2>2, <2>3 DEF HalfMoved, CutOff
<1> QED BY <1>1, <1>2, <1>3, <1>4, <1>5, <1>6, <1>7, <1>8, ObjectSteps

\* A safe copy stays where it is unless its claim is deleted or its replica chosen.
LEMMA SafeStays ==
    ASSUME TypeOK, [Next]_vars, NEW o \in Ord, Safe(o), o \notin dying', ~Moving(o)'
    PROVE  Safe(o)' /\ pvc'[o] = pvc[o]
  BY ClaimStays DEF Safe, Holds

\* What a quorum stored is somewhere safe: with more than one replica two or more hold
\* it, and at most one of them is on the move.
LEMMA PutIsSafe ==
    ASSUME WholeInv, Steady, Gathered, Resumed, Put
    PROVE  \E o \in Ord : Serves(o) /\ o \notin dying /\ ~Moving(o)
<1>0. GroupInv /\ Sized /\ Quorate /\ TypeOK /\ Mounted /\ OfIncarnation
  BY DEF WholeInv, GroupInv
<1> DEFINE S == {o \in Ord : Serves(o)}
<1>1. 2 * Cardinality(S) > Cardinality(layout.roles)
  BY DEF Put
<1>2. IsFiniteSet(S) /\ Cardinality(S) \in Nat
  BY Ordinals, FS_Subset, FS_CardinalityType
<1>3. IsFiniteSet(layout.roles) /\ Cardinality(layout.roles) \in Nat
  <2>1. IsFiniteSet(1 .. MaxKeys)
    BY FS_Interval, GarageAssumption
  <2>2. IsFiniteSet(Id)
    BY <2>1, Ordinals, FS_Product DEF Id
  <2>3. layout.roles \subseteq Id
    BY <1>0 DEF TypeOK
  <2> QED BY <2>2, <2>3, FS_Subset, FS_CardinalityType
<1>4. PICK o \in S : TRUE
  <2>1. S # {}
    BY <1>1, <1>2, <1>3, FS_EmptySet
  <2> QED BY <2>1
<1>5. Serves(o) /\ Running(o) /\ layout.roles # {}
  BY <1>4 DEF Serves
<1>6. CASE single
  <2>1. dying = {}
    BY <1>6 DEF Steady
  <2>2. w.pc \notin Recycling
    BY <1>0, <1>6 DEF Steady, Sized, Recycling
  <2> QED BY <1>5, <2>1, <2>2 DEF Moving
<1>7. CASE ~single
  <2>1. cm.rf \in Nat /\ cm.rf >= 2
    <3>1. single = FALSE
      BY <1>0, <1>7 DEF TypeOK
    <3>2. cm.rf = initialReplicationFactor(FALSE)
      BY <1>0, <1>5, <3>1 DEF OfIncarnation, Steady
    <3>3. cm.rf \in Nat \ {0, 1}
      BY <3>2, Sizes, Zenon
    <3> QED BY <3>3
  <2>2. Cardinality(layout.roles) >= cm.rf
    <3>1. pvc[o] \in Slot /\ IncOf(pvc[o]) = cm.inc /\ dir[pvc[o]].rf # 0
      BY <1>0, <1>5 DEF Mounted, OfIncarnation, Bound
    <3> QED BY <1>0, <1>5, <3>1 DEF Quorate
  <2>3. PICK p \in S : p # o
    <3>1. SUFFICES ASSUME \A p \in S : p = o PROVE FALSE
      OBVIOUS
    <3>2. S = {o}
      BY <3>1
    <3>3. Cardinality(S) = 1
      BY <3>2, FS_Singleton
    <3> QED BY <1>1, <1>3, <2>1, <2>2, <3>3
  <2>4. Serves(p) /\ Running(p)
    BY <2>3 DEF Serves
  <2>5. ASSUME NEW q \in {o, p}, q \in dying, ~(w.pc = "recyclePod" /\ w.ord = q) PROVE FirstInLine(q)
    BY <1>5, <2>4, <2>5 DEF Resumed, Forsaken, CutOff
  <2>6. CASE w.pc \in Recycling
    <3>1. PICK q \in {o, p} : q # w.ord
      BY <2>3
    <3>2. q \notin dying
      BY <2>5, <2>6, <3>1 DEF FirstInLine
    <3> QED BY <1>5, <2>4, <3>1, <3>2 DEF Moving
  <2>7. CASE w.pc \notin Recycling
    <3>1. o \in dying => p \notin dying
      BY <2>3, <2>5, <2>7 DEF FirstInLine, Recycling
    <3> QED BY <1>5, <2>4, <2>7, <3>1 DEF Moving
  <2> QED BY <2>6, <2>7
<1> QED BY <1>6, <1>7

\* There is a safe copy after every step.
LEMMA CopiedStep ==
    ASSUME WholeInv, Steady, Gathered, Resumed, Copied, HA <= 3, [Next]_vars, Kept("objects")'
    PROVE  Copied'
<1>0. GroupInv /\ TypeOK /\ Mounted /\ Sized /\ HA \in Nat /\ HA >= 2
  BY GarageAssumption DEF WholeInv, GroupInv
<1> SUFFICES ASSUME stored' PROVE \E o \in Ord : Safe(o)' /\ Home(o)'
  BY DEF Copied
<1>h. ASSUME NEW o \in Ord, Home(o), UNCHANGED master, pvc'[o] = pvc[o] PROVE Home(o)'
  BY <1>h DEF Home
<1>s. ASSUME stored, UNCHANGED master, \A o \in Ord : Safe(o) => o \notin dying' /\ ~Moving(o)'
      PROVE  \E o \in Ord : Safe(o)' /\ Home(o)'
  <2>1. PICK o \in Ord : Safe(o) /\ Home(o)
    BY <1>s DEF Copied
  <2> QED BY <1>0, <1>h, <1>s, <2>1, SafeStays
<1>1. CASE Plain
  <2>1. stored /\ UNCHANGED <<master, dying>> /\ \A o \in Ord : Moving(o)' <=> Moving(o)
    BY <1>0, <1>1, PlainFrame
  <2> QED BY <1>s, <2>1 DEF Safe
<1>2. CASE SwitchReplicas \/ DeletePVCs
  <2>1. ~SwitchReplicas
    BY <1>0, KeptSteps
  <2>2. ~DeletePVCs
    BY DEF DeletePVCs, Steady, Teardown
  <2> QED BY <1>2, <2>1, <2>2
<1>3. CASE ReconcileSystemPlacement
  <2>1. w.pc = "placement" /\ UNCHANGED <<master, pvc, dir, dying, stored>>
    BY <1>3 DEF ReconcileSystemPlacement
  <2>2. CASE w'.pc \notin Recycling
    BY <1>s, <2>1, <2>2 DEF Safe, Moving
  <2>3. CASE w'.pc \in Recycling
    <3>1. PICK q \in Ord : ~w.one /\ Chosen(q) /\ w'.ord = q
      BY <1>0, <1>3, <2>3 DEF ReconcileSystemPlacement, Goto, Recycling, TypeOK, Worker
    <3>2. ASSUME NEW o \in Ord, Holds(o), o \notin dying, o # q PROVE Safe(o)'
      BY <2>1, <3>1, <3>2 DEF Safe, Holds, Bound, Moving
    <3>3. CASE Cardinality(master) = 1 /\ NodeOf(pvc[q]) \notin master
      <4>1. PICK o \in Ord : Safe(o) /\ Home(o)
        BY <2>1 DEF Copied
      <4>2. o # q
        BY <3>3, <4>1 DEF Home
      <4> QED BY <1>h, <2>1, <3>2, <4>1, <4>2 DEF Safe
    <3>4. CASE Cardinality(master) >= HA /\ Healthy
      <4>0. ~Replicating
        <5>1. w'.pc = "recyclePVC"
          BY <1>0, <1>3, <2>3 DEF ReconcileSystemPlacement, Goto, Recycling, TypeOK, Worker
        <5> QED BY <1>0, <1>3, <3>4, <5>1, KeptSteps
      <4>1. \A o \in Ord : Running(o) /\ Holds(o)
        BY <2>1, <3>1, <3>4, <4>0, HealthyServes DEF Serves, Steady, Replicating
      <4>2. PICK o \in Ord : o # q
        <5>1. 0 \in Ord /\ 1 \in Ord
          BY <1>0 DEF Ord
        <5> QED BY <5>1
      <4>3. o \notin dying
        <5>1. SUFFICES ASSUME o \in dying PROVE FALSE
          OBVIOUS
        <5>2. FirstInLine(o)
          BY <2>1, <4>1, <5>1 DEF Resumed, Forsaken, CutOff
        <5> QED BY <1>0, <3>1, <4>2, <5>2, LineIsChosen
      <4>4. Home(o)'
        BY <1>0, <2>1, <3>4 DEF Home
      <4> QED BY <3>2, <4>1, <4>2, <4>3, <4>4
    <3> QED BY <1>0, <3>1, <3>3, <3>4, Misplacing DEF Chosen
  <2> QED BY <2>2, <2>3
<1>4. CASE RecyclePVC
  <2>1. /\ w.pc \in Recycling /\ w'.ord = w.ord /\ UNCHANGED <<master, stored>>
        /\ dying' \subseteq dying \cup {w.ord}
    BY <1>0, <1>4 DEF RecyclePVC, Goto, TypeOK, Worker, Recycling
  <2> QED BY <1>s, <2>1 DEF Safe, Moving
<1>5. CASE RecyclePod \/ Stop
  <2>1. w' = Idle /\ UNCHANGED <<master, stored, dying>>
    BY <1>5, Zenon DEF RecyclePod, Stop, Return
  <2> QED BY <1>s, <2>1 DEF Safe, Moving, Recycling, Idle
<1>6. CASE \/ \E o \in Ord : CreatePod(o) \/ FinalizePVC(o) \/ Resync(o)
           \/ \E o \in Ord, s \in Slot : StartPod(o, s)
  <2>1. UNCHANGED <<master, w>> /\ dying' \subseteq dying /\ (UNCHANGED stored \/ stored' = FALSE)
    BY <1>6, Zenon DEF CreatePod, FinalizePVC, Resync, StartPod
  <2> QED BY <1>s, <2>1 DEF Safe, Moving
<1>7. CASE Put
  <2>1. PICK o \in Ord : Serves(o) /\ o \notin dying /\ ~Moving(o)
    BY <1>7, PutIsSafe
  <2>2. UNCHANGED <<master, pvc, dying, w>>
    BY <1>7 DEF Put
  <2>3. Running(o) /\ Bound(o)
    BY <1>0, <2>1 DEF Serves, Mounted
  <2>4. dir'[pvc[o]].data
    <3>1. pvc[o] \in Slot
      BY <2>3 DEF Bound
    <3>2. dir'[pvc[o]] = [dir[pvc[o]] EXCEPT !.data =
                            dir[pvc[o]].data \/ \E p \in Ord : Serves(p) /\ pvc[p] = pvc[o]]
      BY <1>7, <3>1, Zenon DEF Put
    <3>3. (dir[pvc[o]].data \/ \E p \in Ord : Serves(p) /\ pvc[p] = pvc[o]) = TRUE
      BY <2>1, Zenon
    <3>4. dir'[pvc[o]] = [dir[pvc[o]] EXCEPT !.data = TRUE]
      BY <3>2, <3>3, Zenon
    <3> QED BY <1>0, <3>1, <3>4 DEF TypeOK, Directory
  <2>5. Safe(o)'
    BY <2>1, <2>2, <2>3, <2>4 DEF Safe, Holds, Bound, Moving
  <2>6. Home(o)'
    BY <1>h, <2>2, <2>3 DEF Gathered
  <2> QED BY <2>5, <2>6
<1>8. ASSUME NEW n \in Node, NodeDown(n) \/ Demote(n) \/ NodeJoin(n)
      PROVE  \E o \in Ord : Safe(o)' /\ Home(o)'
  <2>1. UNCHANGED <<pvc, dying, dir, w, stored>>
    BY <1>8 DEF NodeDown, Demote, NodeJoin
  <2>2. ASSUME NEW o \in Ord, Safe(o) PROVE Safe(o)'
    BY <2>1, <2>2 DEF Safe, Holds, Bound, Moving
  <2>3. PICK o \in Ord : Safe(o)
    BY <2>1 DEF Copied
  <2>4. CASE Cardinality(master') # 1
    BY <2>2, <2>3, <2>4 DEF Home
  <2>5. CASE Cardinality(master') = 1
    <3>1. PICK alive : Anchored(master', alive)
      BY <1>0, <1>8, <2>5, KeptSteps
    <3>2. Bound(o)
      BY <2>3 DEF Safe, Holds
    <3>3. PICK p \in Ord : /\ Holds(p) /\ NodeOf(pvc[p]) \in master' /\ p \notin dying
                           /\ w.pc \in {"recyclePVC", "recyclePod"} => w.ord # p
      BY <2>1, <3>1, <3>2 DEF Anchored
    <3>4. Safe(p)
      BY <3>3 DEF Safe, Moving, Recycling
    <3> QED BY <2>1, <2>2, <3>3, <3>4 DEF Home
  <2> QED BY <2>4, <2>5
<1> QED BY <1>1, <1>2, <1>3, <1>4, <1>5, <1>6, <1>7, <1>8, ObjectSteps

\* Before the first reconcile nothing is stored and nothing moves.
LEMMA InitObject == Init => ObjectInv
  BY DEF Init, ObjectInv, Steady, Gathered, Resumed, Copied, Idle, Teardown, NoConfigMap, Running,
     Forsaken, CutOff

\* Every step behind which objects are promised keeps a safe copy.
LEMMA ObjectInvStep ==
    ASSUME HA <= 3
    PROVE  WholeInv /\ ObjectInv /\ [Next]_vars => ObjectInv'
<1> SUFFICES ASSUME WholeInv, ObjectInv, [Next]_vars, Kept("objects")'
             PROVE  (Steady /\ Gathered /\ Resumed /\ Copied)'
  BY DEF ObjectInv
<1>1. GroupInv /\ Sized /\ TypeOK
  BY DEF WholeInv, GroupInv
<1>2. Kept("objects") /\ ~SwitchReplicas
  BY <1>1, KeptSteps
<1>3. Steady /\ Gathered /\ Resumed /\ Copied
  BY <1>2 DEF ObjectInv
<1> QED BY <1>1, <1>2, <1>3, SteadyStep, GatheredStep, ResumedStep, CopiedStep

\* Moving replicas between masters (rebalance.go) never discards the last copy of a stored
\* object, as long as objects are promised, which ends when a spreading move begins while
\* the last one is still replicating; a move is two calls and the worker may stop between
\* them.
THEOREM GarageObjectIsKept ==
    ASSUME HA <= 3
    PROVE  Spec => []ObjectKept
<1>1. ObjectInv => ObjectKept
  BY DEF ObjectInv, ObjectKept, Copied, Safe
<1> QED BY InitWhole, WholeInvStep, InitObject, ObjectInvStep, <1>1, PTL DEF Spec
=============================================================================
