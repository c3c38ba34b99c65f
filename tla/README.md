# Verification of sds-object

TLA+ models, TLC runs and TLAPS proofs for the controller of deckhouse/sds-object,
a Kubernetes operator that provides S3 object storage: object stores backed by
Garage, SeaweedFS or Ceph RGW, buckets in them, and access keys handed to
namespaces. `PROJECT.json` lists components, runs, mutants, findings, hazards and
theorems in machine-readable form and maps every definition to the lines it models.
Paths below are relative to `src/images/controller/internal/`.

## The system

| component | state it keeps | operations | talks to | what makes it correct |
|---|---|---|---|---|
| ObjectStore reconciler (`controller/object_store_controller.go`) | finalizer, conditions, endpoint | reconcile, delete | driver `EnsureCluster`, `DeleteCluster` | Ready follows the data plane; data is destroyed only under reclaim policy Delete |
| Bucket reconciler (`controller/bucket_controller.go`) | finalizer, Ready | reconcile, delete | reads the store, driver `EnsureBucket`, `DeleteBucket` | Ready follows the store although a Ready Bucket is not requeued |
| BucketClaim reconciler (`controller/bucket_claim_controller.go`) | finalizer, Bound, boundBucketName, Ready | bind an own (greenfield) or shared (brownfield) bucket, delete | writes and deletes Buckets, reads policies and accesses | deny by default; outlives its accesses; takes an own bucket along |
| BucketAccess reconciler (`controller/bucket_access_controller.go`) | finalizer, status.accessKeyID, observedRotation, credentials Secret | issue, rotate, revoke, delete | reads claim, bucket, store, policies; driver `EnsureAccess`, `DeleteAccess` | the Secret holds a working pair; every live key is recorded; denial and deletion revoke |
| BucketClaimPolicy reconciler, `controller/policy.go` | policy status; the verdict for a namespace | validate; match | read by the two above | deny by default |
| shared helpers (`controller/shared.go`) | conditions and phase of one reconcile | advance, gateAfter, derivePhase | all reconcilers | a stage that failed gates the later ones |
| Garage driver (`backend/garage/`) | keys and buckets in Garage; StatefulSet, volumes, pinned replication factor, incarnation, node identities, layout | access, buckets, cluster, placement, recreate, mesh | Garage admin API, Kubernetes API | no data-losing change of factor; replicas placed without losing the last copy |
| SeaweedFS driver (`backend/seaweedfs/`) | identity files, buckets, quota in filer entries, Postgres object, filer.toml, admin Secret, StatefulSets | access, buckets, quota, cluster | filer gRPC, S3, managed-postgres | filers keep their database; the admin Secret works; claims follow the reclaim policy |
| Ceph RGW driver (`backend/cephrgw/`) | CephObjectStore, CephObjectStoreUsers, bucket policies | access, buckets, cluster | Rook, S3 | policies are changed without losing statements of others; Ready means a key that works; rotation ends |
| webhooks (`src/images/webhooks/handlers/`) | none | validate | API server | unique bucket names |

The hard parts: every reconcile is a sequence of separate calls, to the API server and to a
data plane that remembers what it was told; it may stop between any two of them (crash, 300
s timeout, lost leadership) and is repeated from the start. What steers it (claim, bucket,
store, policy, Secret) is written by other reconcilers and read from a cache. Garage reveals
the secret key of an access key once, at creation; Rook issues keys in its own time.
PROJECT.json `hazards` lists what follows from that, line by line.

## Modules

| module | models | composed of |
|---|---|---|
| `BucketAccess` | the BucketAccess reconciler with the access half of the Garage and SeaweedFS drivers | reconciler, driver, cache, other reconcilers as surroundings |
| `Binding` | ObjectStore, Bucket, BucketClaim and BucketAccess reconcilers around one store | four reconcilers |
| `Buckets` | bucket webhook, Bucket reconciler, `EnsureBucket` and `DeleteBucket` of Garage and SeaweedFS | webhook, reconcilers of several Buckets, store, clients |
| `GarageSystem` | `EnsureCluster` of the Garage System store | driver, StatefulSet controller and scheduler, Garage, Bucket reconciler |
| `ReplicaGroup` | abstract: what `GarageSystem` promises of factor and data | |
| `SeaweedCluster` | `EnsureCluster` and `DeleteCluster` of SeaweedFS | driver, StatefulSet controller, garbage collector, managed-postgres |
| `CephRGW` | the Ceph RGW driver | store, bucket and access reconcilers, Rook |
| `BucketAccessProofs`, `KeyTrackingProofs`, `CredentialProofs` | theorems about `BucketAccess` | |
| `BindingProofs`, `BucketsProofs`, `GarageSystemProofs`, `SeaweedClusterProofs`, `CephRGWProofs` | theorems about the module of that name | |
| `MC*` | instances for TLC | |

`BucketAccess.tla` is the BucketAccess reconciler with the access half of the
Garage and SeaweedFS drivers. Per access it keeps the object (`obj`), the cached
object (`cache`), the keys alive in the backend (`live`), the worker's program
counter and locals (`pc`, `snap`, `loc`) and what the other reconcilers say
(`env`); `secrets` are the credentials Secrets by name. One action per call:

| code | actions |
|---|---|
| `Reconcile` | `Reconcile`, `AddFinalizer` |
| `reconcileNormal` | `ReadClaim`, `ResolveBound`, `Authorize`, `RevokeKey`, `DropSecret`, `GetSecret`, then the driver |
| garage `EnsureAccess` | `EnsureGarage`, `CreateKey`, `Allow` (with the rollback), `DeletePrev` |
| seaweedfs `EnsureAccess` | `ReadIdentity`, `WriteIdentity` |
| `ensureCredentialsSecret` | `EnsureCredentialsSecret` |
| `finish`, `updateStatus` | `UpdateStatus` |
| `reconcileDelete` | `DeleteReadClaim`, `DeleteResolve`, `DeleteKey`, `Release` (the Secret goes with its owner reference: `CollectSecret`) |
| surroundings | `CacheSync`, `CollectSecret`, `Crash`, changes of claim, bucket, store and policy, `Vanish`, rotation, deletion |

`Binding.tla` composes the ObjectStore, Bucket and BucketClaim reconcilers around
one store. Each has a worker whose calls are steps (`sw`, `bw`, `cw`); `queue` is
the workqueue of Buckets, the one kind that is not requeued for ever. A
BucketAccess is reconciled in one step here (`AccessOf`), the outcome of
`BucketAccess` without its inner failures.

`Buckets.tla` takes the Bucket reconciler apart. `spec` and `status` are the Bucket
objects with generation, finalizer, quota, access and reclaim policy; `backend` is
what the store has under a name, with the limits in force, the rest of the filer
entry and the objects; `keys` counts temporary keys. A Bucket passes the webhook
(`Admit`) and is stored later (`Create`), so two of one name may pass together. Each
worker steps through `AddFinalizer`, `Lookup`, `CreateBucket`, `ApplyQuota` (Garage)
or `LookupEntry` and `UpdateEntry` (SeaweedFS) and `UpdateStatus`, or through
`DeleteLookup`, `CreateKey`, `AllowKey`, `EmptyBucket`, `DropKey`, `DeleteBucket` and
`RemoveFinalizer`. Both updates of the object pass the webhook again. An administrator
may edit quota, public access and reclaim policy at any time (`Edit`), also of a Bucket
that is being deleted: the CRD makes only store and bucket name immutable.

`GarageSystem.tla` is one reconcile loop over the System store: read the pinned factor
and incarnation (`ReadPinned`), tear down in the order of `recreate.go`
(`DeleteStatefulSet`, `DeletePVCs`, `DeleteIdentities`, `DeletePVs`), pin
(`ApplyConfigMap`), keep the pool of local volumes (`EnsureSystemLocalPVs`,
`GCSystemLocalPVs`), capture node keys (`EnsureNodeIdentities`), move one replica
(`ReconcileSystemPlacement`, `RecyclePVC`, `RecyclePod`), `EnsureWorkload`, and the
mesh (`DiscoverPeers`, `StageLayout`, `ApplyLayout`, `HealthGate`). Pods, claims and
volumes are moved by `CreatePod`, `RemovePod`, `FinalizePVC` and `StartPod`; a
volume's directory keeps factor, node key and copy of the object. `ReplicaGroup.tla`
is its abstract specification: a group is formed with a factor, formed again with
another one only when it has no member, and a member has data of the present
generation. `Group == INSTANCE ReplicaGroup WITH ...` is the refinement mapping (the
generation is the pinned incarnation, a member is a running replica with the
incarnation and the factor of its directory).

`SeaweedCluster.tla` follows `EnsureCluster` through the Postgres object
(`GetPostgres`, `PutPostgres`, `preservePgUserSecrets`), the credentials (`pgCreds`),
filer.toml (`ApplyConfig`), the workloads (`ApplyWorkload`, `Rollout`) and the admin
identity (`ensureAdminSecret`, `PutAdminSecret`, `ensureAdminIdentity`), and
`DeleteCluster` through the listing and the deletion of claims. managed-postgres
generates a password and records its hash in two steps and may stop in between. Pods
read filer.toml when they start.

`CephRGW.tla` has Rook as an actor of its own: a CephObjectStoreUser becomes an RGW
user with a key and a Secret some time later (`IssueKey`) and is removed some time
after its deletion (`RemoveUser`). The access reconcilers read, change and write one
bucket policy (`ReadPolicy`, `WritePolicy`, `ReadToDrop`, `WriteDrop`), the worker
limit of the controller is `Worker`. A reconcile reads the BucketAccess through the
controller's cache (`Seen`), which may be behind by the last status write (`lag`,
`CacheSync`); annotation, observedRotation and accessKeyID of that version decide
whether a key is fresh.

In all modules everything that goes wrong and everything a user, an administrator or
the data plane does is a named disturbance (`Faults`, `Intents`). `Disturb` lists the
ones a run allows, `MaxDisturb` how many may happen, in any order. Some promises of
the code end with certain disturbances: an id that is lost in a crash cannot be
revoked by id. `budget.kept` is a history of the promises still standing:

| guarantee | ends with | why |
|---|---|---|
| `keys` (BucketAccess) | `LosesKeys`: Bucket, claim or store unresolvable or replaced, no admin token; on Garage also crash, stale cache, lost replies, failed status write, rollback or revocation of the superseded key | nobody asks the driver, or the driver is not given the id |
| `pairs` (BucketAccess) | `LosesPairs`: failed Secret write, stale cache | the secret key is shown once |
| `outage` (BucketAccess), `health` (Binding) | anything outside `HealthOnly` | the user or the administrator wants a change, or a call fails that the code cannot tell from one |
| `order` (Binding) | `Disorderly` | an object is removed, or an access created, behind the claim |
| `unique` (Buckets) | two Buckets of a name pass the webhook together | each then refuses the other's finalizer |
| `creds` (Buckets) | the admin credentials are gone | DeleteBucket returns without deleting |
| `keys` (Buckets) | restart, lost answer or failed deletion around the temporary key | its deletion is best effort |
| `entry` (Buckets) | somebody writes the filer entry between the two calls of a quota update | read, modify, write |
| `policy` (Buckets) | the reclaim policy is changed from Delete to Retain while a deletion that read Delete is running (`Destroys`) | DeleteBucket decides once, at its start |
| `objects` (GarageSystem) | a switch of the replica count; a spreading move begins while a replica that serves has not fetched its copy (`Replicating`); one master is left without a full copy that stays; masters change while a replica is cut off (its claim deleted, its pod running), or a stop leaves one cut off that would not be chosen again | a switch rebuilds the store empty; the gate of a spreading move compares a status that says nothing of copies; consolidation has no health gate; placement does not see that a claim is going (`systemReplicaNodes`) |
| `keys` (CephRGW) | Rook issues a key between the read and the deletion of the user | finding `ceph_stillborn` |
| `fresh` (CephRGW) | a status write that the cache has not seen when the next reconcile starts | a fresh key is one that differs from the recorded key as read |
| `statements` (CephRGW) | somebody edits the policy between read and write | read, modify, write |
| `revoked`, `deleted` (CephRGW) | the owner's keys cannot be read; the Bucket goes before its access | policy and bucket are skipped without the owner |
| `password`, `admin` (SeaweedCluster) | Postgres object or admin Secret deleted by somebody | state is lost from outside |
| `reclaim` (SeaweedCluster) | deletion during a roll-out, a pod lost with its claim during the deletion | a claim is made behind the listing |

Outside actors are modelled as the code uses them. Of Garage's status GarageSystem assumes
that it is "healthy" exactly when the layout has roles and every one is held by a running
replica (`Healthy`); whether the replicas have the object plays no part in it. `HA` is
`systemReplicasHA`.

What a guarantee excludes is not left out of the model. Everything behind it still
happens, in the same runs, and only the property is no longer claimed.

## Runs

| run | shows |
|---|---|
| `access_garage` | Garage: every live key is recorded or about to be (`KeyTracked`), no Secret mixes two keys (`PairKept`), health never takes working credentials away (`CredentialsSurviveOutage`); liveness: an authorized access becomes Ready with working credentials of the latest rotation (`Converges`), a denied one loses key and Secret (`RevocationEnforced`), a deleted one disappears (`DeletionCompletes`) |
| `access_seaweed` | SeaweedFS: no Secret ever mixes two keys (`PairConsistent`), and a deleted access leaves no key in spite of crashes and lost replies (`DeletionRevokes`) |
| `binding_owner` | a claim with its own bucket: claim and data outlive the keys (`OrderlyTeardown`); liveness: Bucket follows store, everything converges, teardown completes |
| `binding_reader` | a claim on a shared bucket: store flaps, restarts and failed writes never cost a live access its key (`KeysSurviveOutage`); liveness: a withdrawn policy removes the key |
| `buckets` | two Buckets of one name: one holder (`OneHolder`), data goes only by a deletion that read Delete, of a Bucket that still says so unless it was edited meanwhile (`DataKept`), such a deletion is complete (`ReclaimComplete`), FeaturesApplied is true (`AppliedIsEnforced`), no temporary key stays (`NoKeyLeft`), quota updates keep the entry (`EntryKept`), every Bucket settles at its last generation (`BucketsSettle`) |
| `garage_switch` | the replica count is switched back and forth among restarts and masters that come and go: GarageSystem implements ReplicaGroup; the store recovers at the wanted factor and spread (`Recovers`), and Buckets are created again in the rebuilt store (`BucketsReturn`) |
| `garage_place` | masters come and go, execs fail, peers are missed, pods stop: the last copy is never discarded as long as each spreading move finds the last one replicated (`ObjectKept`), replicas come back as themselves (`RejoinsAsItself`), when Ready is said every wanted replica runs with a role (`ReadyIsWhole`) |
| `ceph` | two accesses, one policy: Ready accesses have key and statement (`ReadyWorks`), updates keep the others' statements (`OthersKept`), revocation leaves nothing (`RevokedLeavesNothing`), the reclaim policy decides (`ReclaimHonoured`), a reported rotation changed the key unless a status was read too late (`RotationChangesKey`) |
| `ceph_live` | every access is served in the end, every deleted one released |
| `seaweed` | no filer is shut out of its database (`FilerAuthenticates`), the admin Secret of a Ready store works (`AdminOpens`), claims follow the reclaim policy (`ClaimsFollowReclaim`), the store becomes and stays Ready (`Converges`) |

Two runs end in a violation; each is a `finding` in PROJECT.json with the line it
contradicts:

| run | what TLC shows |
|---|---|
| `access_brokenpair` | a vanished Garage key is re-issued, the Secret write fails, the status records the new id; the next reconcile stores the new id with the old secret key and reports Ready |
| `ceph_stillborn` | with no disturbance at all: Rook issues the key after it was found missing, the user is deleted to force a key, and the next reconcile hands out the key of the user that is going away |

Bounds. One access needs three keys for a rotation that is interrupted and repeated; five
keys and four disturbances (four and three with liveness) let each pair of a fault and an
intent be followed by the retry and by another fault. Binding needs one bucket, one claim
and one access for the chain from the store to the key, and three disturbances for a fault
during a deletion that follows another change. Two Buckets of one name are what the webhook
has to keep apart. Two accesses share a policy in CephRGW, seven keys per user are enough
for one to be always new (six places hold one), and its two disturbances let a rotation meet
a lagging cache. In GarageSystem `HA = 2` stands for `systemReplicasHA` (3): two replicas
suffice for a copy that is kept while the other is moved, and two or three masters for
spreading and gathering; that two of three masters leave the placement alone is then not
reached. `garage_place` has one incarnation and fine-grained faults, `garage_switch` three
incarnations and switches, restarts and masters as disturbances. SeaweedCluster has its
three filers and thirteen words for passwords and admin keys: at most twelve places hold
one, so `randomHex` always finds a new one, which the lemma `FreshWord` proves. Symmetry of
keys and of masters is used in runs without liveness only. Runs say CHECK_DEADLOCK FALSE
where objects may be deleted, or everything Ready, and nothing is left to do. The largest
runs: `ceph` has 2.7 million distinct states, `buckets` 1.1 million, `garage_place` 0.9
million.

Fairness. Weak fairness of every worker: each reconcile ends within its timeout and is
followed by another one, after RequeueInterval, SecurityResyncInterval or the backoff of an
error. The one exception, a Bucket that ended Ready, is modelled: it runs only when it is in
`queue`. Weak fairness of the cache (`CacheSync`: the watch delivers), of the Kubernetes
controllers, of Rook and of managed-postgres. CephRGW needs more: the accesses share the
workers, so an access gets its turn again and again (strong fairness), and some time Rook
issues a key between two reconciles; they are RequeueInterval apart, and without that a
reconcile that finds no key deletes the user for ever. Nothing is assumed of users,
administrators or failures; their number is bounded, so in the end the surroundings are
stable, which is what the liveness properties ask for.

## Proofs

`BucketAccessProofs` (TLAPS, every value of the constants):

- `TypeCorrect`: `Spec => []TypeOK`. TypeOK is not inductive: the identity file
  is written with the key in the worker's hands, so the proof carries `HandedOver`
  (a worker about to write an identity has a key, with its secret key). One lemma
  per kind of record types what is written; `TypeStep` and `HandedOverStep` combine
  them.
- `SeaweedPairConsistent`: with `Backend = "SeaweedFS"`, `Spec => []PairConsistent`,
  for any number of accesses, workers and shared Secret names, under every
  disturbance. The argument: `SecretStep` shows that a step changes a Secret by
  removing it or by `EnsureCredentialsSecret`, and HandedOver says that on
  SeaweedFS a worker there always carries the secret key of the key it carries,
  so the old secret key is never taken over.

`KeyTrackingProofs`:

- `GarageKeyTracked`: with `Backend = "Garage"`, `Spec => []KeyTracked`. KeyTracked
  says nothing of where a reconcile stands, so it is not inductive. `KeyInv` adds it,
  for each access while the guarantee `keys` stands: the keys that may exist at each
  program counter (`Reachable`: none after a revocation, the recorded and the new
  one between `createKey` and the revocation of the superseded key, the one in hand
  until the status has it); that keys are issued behind the finalizer only and
  nobody else writes the recorded key during a reconcile (`ObjectTracked`); and
  that claim and bucket resolve and no key outlives its data plane
  (`SurroundingsTracked`). `KeptStep` excludes the disturbances of `LosesKeys`,
  `OthersUntouched` reduces a step to the access it is about, and one lemma per
  stage of the reconcile (reading, issuing, revoking, recording, deleting) shows
  that it keeps the invariant. KeyInv was checked with TLC on the instance of
  `access_garage` first.

`CredentialProofs`, about what an access holds:

- `KeysDieWithAccess`: `Spec => []DeletionRevokes`, on both backends. On Garage it
  follows from `GarageKeyTracked`. On SeaweedFS the key's id is the name of the access
  and nothing has to be recorded, so the invariant is another: `HousedInv` says that
  keys exist only behind the finalizer, and that the finalizer goes only after the
  revocation. Its heart is `Finalizing`: a stale cache may show an object without its
  finalizer, but never a live one again after a deleted one was seen.
- `SecretsHoldPairs`: `Spec => []PairKept`, assuming `Apart` (no two accesses share a
  Secret name). PairKept speaks of the Secret; what makes it true is what the worker
  carries on its way there. `PairInv` has three parts: a recorded key is behind the
  finalizer and nobody else writes it (`Recorded`); the Secret, when the recorded key
  is alive, is about that key (`Stored`); the worker carries a fresh key with its secret
  key, or the recorded one with what the Secret has for it (`Carried`). `Apart` cannot be
  dropped: see the weaknesses.
- `GarageCredentialsSurvive`: with `Backend = "Garage"` and `Apart`,
  `Spec => CredentialsSurviveOutage`. `CalmInv` adds to PairInv that during an outage
  nobody wants a change (`Wanted`) and that a key is minted only in place of one that is
  dead or has no Secret (`Replacing`). On SeaweedFS the property does not hold at every
  step: a re-mint puts the new identity before the Secret is written.

`BucketsProofs`, for any set of Buckets and names, both drivers and any number of
disturbances. `AllSound` ties a worker to its Bucket: nothing is ensured without the
finalizer; while a worker is in DeleteBucket its Bucket is still the deleted one it read,
and the destructive steps are reached with reclaim policy Delete only; a Ready live
Bucket has the finalizer (`BucketsInvariant`).

- `BucketsTypeCorrect`: `Spec => []TypeOK`.
- `HolderUnique`: `Spec => []OneHolder`. The finalizer is an update that passes the
  webhook, and Buckets never lose their name while it is there (`HolderStep`).
- `DataIsKept`: `Spec => DataKept`. A step that removes objects belongs to a worker in
  DeleteBucket that read Delete, and whose Bucket holds the finalizer; a Ready Bucket of
  the same name would hold it too (`DataStep`). The reclaim policy is edited while this
  goes on, so that it still says Delete needs an invariant of its own: `PolicyHeld`, that
  while the guarantee `policy` stands, every Bucket with such a worker has reclaim policy
  Delete. `DestroysBefore` traces such a worker back to the read or to the step before.
- `AppliedEnforced`: `Spec => []AppliedIsEnforced`, `ReclaimIsComplete`:
  `Spec => ReclaimComplete` and `EntryIsKept`: `Spec => EntryKept`, from one invariant,
  `AllAccounted`, per Bucket: the observed generation is no younger than the Bucket the
  worker read, that one no younger than the Bucket, and equal generations have equal
  quotas (`Dated`); a Ready status is backed by the bucket, and what it calls applied by
  its limits (`Promised`); what the worker has got done stands (`Underway`: limits set
  before the status, the entry as read, a bucket deleted before the release).
  `OthersLeave` shows by OneHolder that another Bucket's worker cannot change the bucket
  under this one.
- `NoKeyIsLeft`: `Spec => []NoKeyLeft`. By OneHolder at most one worker of a name is
  between `createKey` and `deleteKey`, so the cardinality is 0 or 1 although the set of
  Buckets need not be finite (`KeyHeld`).

`BindingProofs`, for any buckets, claims and accesses, own and shared:

- `BindingTypeCorrect` (`[]TypeOK`), `BindingOrderlyTeardown` (`[]OrderlyTeardown`) and
  `BindingKeysSurvive` (`KeysSurviveOutage`). A key depends on a claim, a bucket, data
  and a store, each with a worker of its own, so `BindingInv` follows the chain: a worker
  past its finalizer has its object (`HeldInv`); the owner's label is on greenfield
  buckets and no others (`OwnedInv`); while the guarantee `order` stands, a claim past
  `referencingAccesses` has no access, a bucket is taken down only when its claim is that
  far, and above every key there is a named claim, a bucket and its data (`OrderInv`);
  while `health` stands, nothing is taken down and a claim that was bound stays bound
  (`HealthInv`). `BucketMoves`, `ClaimMoves`, `AccessMoves` and `StoreMoves` say once what
  any step may do to one object and its worker; every step is shown to be one of these
  moves, and the invariant is then shown of moves.

`GarageSystemProofs`, for any masters, incarnations and disturbances, and any number of
replicas where nothing else is said:

- `GarageTypeCorrect` (`[]TypeOK`), `IdentityRejoins` (`[]RejoinsAsItself`).
- `GarageImplementsReplicaGroup`: `Spec => Group!Spec`, the refinement. Its invariant
  `GroupInv` says that node keys in use were generated (`KeysKnown`), that a running
  replica has a volume of its own with a node key (`Mounted`), that claims, volumes and
  directories are of the pinned incarnation and factor (`OfIncarnation`), and where the
  worker stands in a recreate (`WorkerPinned`: past `delSts` there is no StatefulSet, past
  the removal of claims there is none, and another factor is pinned only with nothing
  left). `Parts` derives that whoever is in the group is in it with the pinned generation
  and factor, and `GroupStep` shows of each step that it forms the group again, lets one
  replica join, lets replicas leave, or stutters.
- `GarageReadyIsWhole`: with `HA <= 3`, `Spec => ReadyIsWhole`. The health gate asks Garage,
  and Garage looks at the nodes in its layout, while the property is about the replicas of
  the store: peers that were missed have no role yet. `Quorate` closes the gap: once a
  replica of the pinned incarnation has started, the layout is empty or has at least as many
  roles as the factor, since Garage refuses fewer, and the layout of an earlier incarnation
  went with its directories. `Sized` ties the replica count and the claims to the pinned
  factor. If Garage is healthy, each role is that of another running replica, so there are
  as many replicas with a role as ordinals (lemma `Whole`, by counting; two replicas with
  one identity only make it harder). `HA <= 3` is what makes factor and replica count equal:
  `systemReplicasHA` is 3, and `replicationFactor` is 3 for the System store. With five
  replicas three roles would do and Ready would be said of a store with two replicas outside
  the layout. Nothing is said of copies: see the weaknesses.
- `GarageObjectIsKept`: with `HA <= 3`, `Spec => []ObjectKept`. That some copy exists is far
  from inductive: a copy may be on a claim that is going, on a replica about to be moved, or
  on a node that is given up. `ObjectInv` says, while the guarantee stands, that there is a
  copy that is none of these, on the only master if there is one (`Copied`); that nobody
  switched the store (`Steady`); that with one master nothing runs elsewhere (`Gathered`);
  and that a replica cut off by a move that stopped is alone, has all others bound, and is
  the first that the placement will choose again (`Resumed`). The last is the heart: a
  spreading move begins when Garage is healthy, so by `Whole` every replica serves
  (`HealthyServes`). That each of them has the object does not follow, since the status does
  not tell: it is what the guarantee adds, by ending with a move that begins while one is
  `Replicating`. `LineIsChosen` shows that the one that moves is the one already cut off, so
  no second copy is put at risk. `PutIsSafe` counts a quorum: two replicas or more have a
  new object, and at most one of them is on the move. The parts of the invariant were
  checked with TLC, from the initial states and from a state with an object stored, before
  they were proved.

`SeaweedClusterProofs`:

- `SeaweedTypeCorrect` (`[]TypeOK`), `SeaweedFilerAuthenticates` (`[]FilerAuthenticates`),
  `SeaweedAdminOpens` (`[]AdminOpens`). `DatabaseInv`: the recorded hash is that of the
  database's password at every step, and no password is pending once there is one.
  `AdminInv`: what the worker puts as identity is what the Secret has.
- `SeaweedClaimsStay` and `SeaweedDeletionDrops` are the safety halves of
  `ClaimsFollowReclaim`: claims are dropped by a deletion with reclaim policy Delete and
  nothing else, and such a deletion ends with no claim left that is not on its way out
  (`ReclaimInv`: every bound claim is on the worker's list). That the claims then go is
  liveness.

`CephRGWProofs`:

- `CephTypeCorrect` (`[]TypeOK`; `Budgeted` bounds rotations by the disturbances spent),
  `CephReclaim` (`[]ReclaimHonoured`), `CephRotations` (`RotationChangesKey`) and
  `CephReadyHasKey` (the key half of ReadyWorks) hold for any number of workers, from
  `CephInv`: the order in which the owner user and the bucket are made and unmade
  (`OwnerInv`), what an access, its worker and a cache that is behind remember of keys
  (`KeyInv`), and that a key some reconcile may take for a fresh one is one RGW accepts of
  a user that stays (`LiveKeys`). With a cache three keys may pass for the recorded one:
  the status's, the cache's, and the one a reconcile under way has read (`Recorded`); what
  only the cache takes for it is `Dead` and never comes back. While the guarantee `fresh`
  stands the three are one, and it is the key in the credentials Secret: that is the
  part of KeyInv from which CephRotations follows. CephReadyHasKey needs no such guarantee
  and holds with a lagging cache. The invariant was checked with TLC, for two accesses
  with two disturbances and for one with five, before it was proved.
- `CephReady` (`[]ReadyWorks`), `CephRevoked` (`[]RevokedLeavesNothing`) and
  `CephOthersKept` (`OthersKept`) assume `Worker = 1`, which is
  `DefaultMaxConcurrentReconciles`. All accesses of a bucket share one policy, which is read,
  changed and written: `PolicyInv` says that what was read is still there, and with two
  workers it is not.

Assumptions on constants, all evaluated by TLC: `ConstantsAssumption` (BucketAccess),
`BucketsAssumption` (sets and types; a quota that is left out has no limits),
`BindingAssumption` and `NamesAssumption` (the name of a greenfield bucket belongs to one
claim, and nobody else may use its prefix), `GarageAssumption`, `SeaweedAssumption` and
`CephAssumption`. Hypotheses of single theorems are in the statements:
`Backend`, `Apart`, `Worker = 1`, `HA <= 3`.

Only model-checked:

- Liveness: `Converges`, `RevocationEnforced`, `DeletionCompletes`, `BucketFollowsStore`,
  `BindingConverges`, `TeardownCompletes`, `RevocationReaches`, `BucketsSettle`,
  `Recovers`, `BucketsReturn`, and the liveness half of `ClaimsFollowReclaim`. Fairness
  and ENABLED are beyond TLAPS.

## Weaknesses seen while modelling

Outside a guarantee the models show what the code does; a reader should know:

- A controller that stops between `createKey` and the status write leaves a Garage key
  that deleting the BucketAccess does not revoke (`backend/garage/access.go:102`).
- `deleteCredentialsSecret` deletes by name; two accesses that name one Secret can
  delete each other's (`controller/bucket_access_controller.go:449`). On Garage they can
  also mix a pair with one disturbance: one access records its key while the other owns
  the Secret, and later reads the other's secret key as its own.
- An access created after `referencingAccesses` has counted gets a key that outlives
  the claim (`controller/bucket_claim_controller.go:187`).
- A failed list of policies is written as Bound=False, and the access reconciler
  revokes on it (`controller/bucket_claim_controller.go:219`).
- A second replica can be moved before the first has its data back. The comments of
  `backend/garage/rebalance.go:51-53` and 215-217 read the health gate as "the others have
  re-replicated"; the code (`rebalance.go:229`, and `mesh.go:116` for Ready) compares Garage's
  status with "healthy", and that counts nodes and partitions that are up
  (`backend/garage/admin.go:77-89`), not copies. A replica that was recycled and runs again,
  empty, passes the gate. With two replicas TLC finds the last copy discarded after a
  master joined and another was demoted between the two moves. `objects` is therefore not
  promised once a move begins while another replica is replicating, and Ready does not
  mean that the replicas have their copies.
- Changing a Bucket's reclaim policy from Delete to Retain does not stop a deletion that is
  running: `DeleteBucket` has decided (`backend/garage/buckets.go:117`,
  `backend/seaweedfs/seaweedfs.go:252`) and goes on to empty and delete the bucket. TLC finds it
  with the edit between `EmptyBucket` and `DeleteBucket`.
- A rotation on Ceph RGW can be reported with an unchanged key. Whether a key is fresh is
  decided against `status.accessKeyID` of the cached BucketAccess
  (`controller/bucket_access_controller.go:198`, 373-384, `backend/cephrgw/access.go:48`).
  If the annotation changes while a first issue or a rotation is on its way, and the next
  reconcile starts before the cache has seen the status write, the key just issued differs
  from the one it knows, counts as fresh, and is recorded for the new annotation. TLC finds
  it with one rotation and one late read.
- Consolidation on one master recycles replicas although the survivor may have no
  full copy (`backend/garage/rebalance.go:95`).
- A move that stops between the deletion of the claim and of the pod
  (`backend/garage/rebalance.go:203`) leaves a replica that runs on a claim with a deletion
  timestamp. The next reconcile usually chooses it again, but not if masters changed
  meanwhile so that it is well placed now. Then nothing looks at the timestamp: Garage is
  healthy, another replica is moved, and when the first pod stops for whatever reason,
  before the other one has its copy back, its claim goes and its new volume is empty.
  With two replicas TLC finds the object lost after a stop, three changes of masters and
  a pod stop. `objects` is therefore not promised once masters change behind such a stop.
- A replica whose master is removed while enough masters are left stays Pending: the
  spread that would move it waits for a health that the missing replica prevents
  (`backend/garage/rebalance.go:72`). `Recovers` is about stores without one.
- A replica that starts, before its node key was captured, on a volume left by another
  ordinal takes over the key in it; `Recovers` assumes `DistinctIdentities`.
- `garage` `allow` only adds permissions: an access lowered to ReadOnly keeps its
  write permission (`backend/garage/access.go:74`).
- Removing `spec.quota` leaves the last limit in force (`backend/garage/buckets.go:58`,
  documented there); SeaweedFS does the same.
- With `MAX_CONCURRENT_RECONCILES` above 1 two accesses of a Ceph bucket write its policy
  over each other: a statement that a status reports is lost until the next reconcile
  (`backend/cephrgw/policy.go`, read and written without a version).
- The JSON round trip of `policy.go` keeps the fields it knows; a foreign statement
  with a Condition is rewritten without it (`backend/cephrgw/policy.go:36`).
- With reclaim policy Retain a High store keeps its claims, but the Postgres object is
  owned by the store and collected with it (`backend/seaweedfs/postgres.go:235`).

## Not modelled

Permissions of a Garage or SeaweedFS key, changes of credentialsSecretName, endpoints and CA
data; the status of a BucketClaimPolicy and the matching of namespace patterns; phases
(`derivePhase`, `gateAfter`); Ceph's `DeleteCluster` and owner quota; a cache that is behind
in GarageSystem, or in CephRGW by more than the last status write; edits of the reclaim
policy of the Bucket in CephRGW and Binding, where it has one value for the Bucket's life
(Buckets has them); a claim that a scale-up adds to the claims of a component during a
deletion, since SeaweedCluster has one claim for each component; the reserved bucket prefix
and the validators of claims, accesses and policies, each of which looks at one request
alone; manifests, generated code, release tooling. See `components` for the reasons.

## Plan

Every safety property of the runs is proved. What would add most:

1. `PairKept` and `CredentialsSurviveOutage` for accesses that share a Secret name without
   ever owning it at once; an abstract specification of an access (issued, rotated,
   revoked atomically) that BucketAccess and CephRGW both implement.
2. A recycle that is safe behind every change of masters, for instance one that treats a
   claim with a deletion timestamp as misplaced: `ObjectKept` could then drop that part of
   its guarantee.
3. The same edits of the reclaim policy in CephRGW, and claims per ordinal in SeaweedCluster.
4. Namespace matching and phases as operators checked against reference definitions.
